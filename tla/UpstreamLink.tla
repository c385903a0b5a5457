------------------------------ MODULE UpstreamLink ------------------------------
(******************************************************************************)
(* The TCP client of adn-report-proxy: UpstreamReportProtocol,                *)
(* UpstreamReportFactory and UpstreamCommanderImpl on top of Twisted's        *)
(* connector and ReconnectingClientFactory.                                   *)
(*                                                                            *)
(* ProxyUseCases knows the link as "up" or "down"; here are the pieces that   *)
(* must agree for that: the connector, the pending call of retry, the delay   *)
(* and the factory's active_protocol.  A delay is its level: retry multiplies *)
(* it by a factor until maxDelay, so level n stands for the n-th delay after  *)
(* initialDelay and MaxLevel for maxDelay; the jitter is left out.            *)
(******************************************************************************)
EXTENDS Naturals, Sequences

CONSTANTS
    MaxLevel,       \* the level of maxDelay
    Requests,       \* STATE_REQ, CONFIG_REQ, BRIDGE_REQ
    MaxReqs,        \* bound: requests in flight to the server
    None            \* no pending call

ASSUME MaxLevelType == MaxLevel \in Nat \ {0}
ASSUME NoneIsNoLevel == None \notin Nat

VARIABLES
    server,             \* does adn-server accept connections?
    connector,          \* the connector's state
    closing,            \* loseConnection was called, the buffer not yet flushed
    callID,             \* the delay of the pending call of retry, or None
    delay,              \* the factory's delay
    active_protocol,    \* the factory's active_protocol is set
    upstream_out        \* requests on their way to the server

vars == <<server, connector, closing, callID, delay, active_protocol, upstream_out>>

TypeOK ==
    /\ server \in {"up", "down"}
    /\ connector \in {"disconnected", "connecting", "connected"}
    /\ closing \in BOOLEAN
    /\ callID \in 1..MaxLevel \cup {None}
    /\ delay \in 0..MaxLevel
    /\ active_protocol \in BOOLEAN
    /\ upstream_out \in Seq(Requests)

\* connectTCP has been called.
Init ==
    /\ server \in {"up", "down"}
    /\ connector = "connecting"
    /\ closing = FALSE
    /\ callID = None
    /\ delay = 0
    /\ active_protocol = FALSE
    /\ upstream_out = <<>>

\* Mutant: the delay is not capped.
UncappedLevel == delay + 1

\* The delay after this one.
NextLevel == IF delay = MaxLevel THEN MaxLevel ELSE delay + 1

\* Mutant: clientConnectionLost and clientConnectionFailed do not call the factory
\* they override.
NoRetry == UNCHANGED <<delay, callID>>

\* Mutant: the factory gives up at the longest delay.
RetryUntilLongest ==
    /\ delay' = NextLevel
    /\ callID' = IF delay = MaxLevel THEN None ELSE NextLevel

\* ReconnectingClientFactory.retry.
Retry ==
    /\ delay' = NextLevel
    /\ callID' = NextLevel

\* Mutant: the delay is not reset.
KeepDelay ==
    /\ server = "up"
    /\ connector = "connecting"
    /\ connector' = "connected"
    /\ active_protocol' = TRUE
    /\ UNCHANGED <<server, closing, callID, delay, upstream_out>>

\* buildProtocol: the delay is reset and the new protocol is the active one.
BuildProtocol ==
    /\ server = "up"
    /\ connector = "connecting"
    /\ connector' = "connected"
    /\ delay' = 0
    /\ callID' = None
    /\ active_protocol' = TRUE
    /\ UNCHANGED <<server, closing, upstream_out>>

\* clientConnectionFailed: refused, no route, or no answer in time.
ClientConnectionFailed ==
    /\ connector = "connecting"
    /\ connector' = "disconnected"
    /\ Retry
    /\ UNCHANGED <<server, closing, active_protocol, upstream_out>>

\* Mutant: the connection that is lost stays the active one.
KeepActiveProtocol == UNCHANGED active_protocol

\* clear_active_protocol, called for the protocol and again for the factory.
ClearActiveProtocol == active_protocol' = FALSE

\* The reactor reports the loss to the protocol and then to the connector, whose
\* factory retries.  It does so when the server or the network ends the session,
\* when an exception leaves stringReceived, and when a closing session is flushed.
ConnectionLost ==
    /\ connector = "connected"
    /\ connector' = "disconnected"
    /\ closing' = FALSE
    /\ ClearActiveProtocol
    /\ upstream_out' = <<>>
    /\ Retry
    /\ UNCHANGED server

\* Data that is no netstring, or one over maxLength: NetstringReceiver calls
\* loseConnection, and until the buffer is flushed the protocol stays active.
ParseError ==
    /\ connector = "connected"
    /\ ~closing
    /\ closing' = TRUE
    /\ UNCHANGED <<server, connector, callID, delay, active_protocol, upstream_out>>

\* The pending call: connector.connect, which insists on a disconnected connector.
Reconnect ==
    /\ callID # None
    /\ callID' = None
    /\ connector' = "connecting"
    /\ UNCHANGED <<server, closing, delay, active_protocol, upstream_out>>

\* UpstreamCommanderImpl: a request is written to the active protocol's transport,
\* which drops it unless it is connected.
Request(req) ==
    /\ active_protocol
    /\ Len(upstream_out) < MaxReqs
    /\ upstream_out' = IF connector = "connected" THEN Append(upstream_out, req)
                                                   ELSE upstream_out
    /\ UNCHANGED <<server, connector, closing, callID, delay, active_protocol>>

\* The server reads a request.
ServerReads ==
    /\ upstream_out # <<>>
    /\ upstream_out' = Tail(upstream_out)
    /\ UNCHANGED <<server, connector, closing, callID, delay, active_protocol>>

\* The server starts and stops.
ServerChanges ==
    /\ server' = IF server = "up" THEN "down" ELSE "up"
    /\ UNCHANGED <<connector, closing, callID, delay, active_protocol, upstream_out>>

Next ==
    \/ BuildProtocol
    \/ ClientConnectionFailed
    \/ ConnectionLost
    \/ ParseError
    \/ Reconnect
    \/ \E req \in Requests : Request(req)
    \/ ServerReads
    \/ ServerChanges

\* A timer fires, a connection attempt ends and a session that is told to close is
\* closed: what the reactor guarantees.
Fairness ==
    /\ WF_vars(Reconnect)
    /\ WF_vars(BuildProtocol \/ (server = "down" /\ ClientConnectionFailed))
    /\ WF_vars(closing /\ ConnectionLost)

Spec == Init /\ [][Next]_vars
FairSpec == Spec /\ Fairness

-----------------------------------------------------------------------------
(* Properties. *)

\* The proxy is never stranded and never connects twice: whatever failed, was lost
\* or refused before, either a session or an attempt is under way and no call of
\* retry is pending, or exactly that call is.  (connector.connect raises in any
\* state but disconnected.)
NeverStranded == connector = "disconnected" <=> callID # None

\* The requests of the use cases go to the session that is open, if there is one:
\* active_protocol is set from buildProtocol until the connection is lost, also
\* while it is closing, so a request given to it is not dropped, and none of an
\* earlier session is left for the next.
RequestsReachTransport ==
    /\ active_protocol <=> connector = "connected"
    /\ upstream_out # <<>> => connector = "connected"

\* The wait after a loss never depends on how often the connection failed before it
\* was made: a session is followed by the first delay, a failure by a longer one or
\* the longest.
DelayFollowsOutcome ==
    [][callID' # None /\ callID = None =>
          IF connector = "connected" THEN callID' = 1
          ELSE callID' = MaxLevel \/ callID' > delay]_vars

\* While the server accepts connections and nothing ends the sessions, the proxy
\* ends up connected, however long it was refused before.
EventuallyConnected ==
    /\ <>[](server = "up")
    /\ <>[][~ConnectionLost /\ ~ClientConnectionFailed]_vars
    => <>[](connector = "connected" /\ active_protocol)
===============================================================================
