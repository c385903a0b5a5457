------------------------------ MODULE ServedProxy ------------------------------
(******************************************************************************)
(* adn-report-proxy connected to an adn-server with wire version 2.  The      *)
(* server is external and modelled from what the proxy and README.md expect:  *)
(* it sends HELLO on a new connection, reports its dashboard state every      *)
(* REPORT_INTERVAL, answers STATE_REQ and CONFIG_REQ with the dashboard state *)
(* and BRIDGE_REQ with the routing table, and never repeats an answer of an   *)
(* earlier connection.                                                        *)
(******************************************************************************)
EXTENDS ReportProxy

CONSTANT MaxChannel     \* bound: frames in flight from the server

VARIABLE
    channel     \* kinds of the frames on their way to the proxy, oldest first

servedVars == <<allVars, channel>>

ServedInit == ProxyInit /\ channel = <<>>

\* stringReceived for the oldest frame.  The numbers of a serving server are
\* well-formed.
HandleFrame ==
    /\ link = "up"
    /\ channel # <<>>
    /\ \/ Head(channel) = "HELLO" /\ HelloV2 /\ Publish(TRUE)
       \/ /\ Head(channel) = "STATE"
          /\ \E doc \in Dashboards : StateSnd(doc) /\ Publish(FALSE)
       \/ /\ Head(channel) = "ROUTING"
          /\ \E doc \in Routings : NewRouting(doc) /\ out'.end # "raised" /\ Publish(FALSE)
    /\ channel' = IF link' = "up" THEN Tail(channel) ELSE <<>>

\* The connection is made; the server says HELLO.
Connected ==
    /\ Proxy!UpstreamConnected
    /\ channel' = <<"HELLO">>
    /\ UNCHANGED translatorVars

Dropped == ConnectionDropped /\ channel' = <<>>

\* The server answers a request.
ServerAnswers ==
    /\ Len(channel) < MaxChannel
    /\ Proxy!ServerReads
    /\ channel' = Append(channel,
                         IF Head(upstream_out) = "BRIDGE_REQ" THEN "ROUTING" ELSE "STATE")
    /\ UNCHANGED translatorVars

\* The periodic report; bound: the next one waits until the channel is empty.
ServerReports ==
    /\ link = "up"
    /\ channel = <<>>
    /\ channel' = <<"STATE">>
    /\ UNCHANGED <<translatorVars, proxyVars>>

\* A monitor asks; bound: once it has read all that was sent to it and the server
\* all that it was asked.
MonitorAsks(c) ==
    /\ wire[c] = <<>>
    /\ upstream_out = <<>>
    /\ Len(channel) < MaxChannel
    /\ \E req \in {"CONFIG_REQ", "BRIDGE_REQ"} : Proxy!HandleDownstreamRequest(c, req)
    /\ UNCHANGED <<translatorVars, channel>>

\* The session of a monitor goes on, is closed or opened.
MonitorSession(c) ==
    /\ \/ Proxy!OnDownstreamConnected(c)
       \/ Proxy!TransportClosed(c)
       \/ Proxy!ConnectionLost(c)
       \/ Proxy!MonitorReceives(c)
       \/ Proxy!MonitorSeesEOF(c)
    /\ UNCHANGED <<translatorVars, channel>>

CacheAges == Proxy!CacheAges /\ UNCHANGED <<translatorVars, channel>>

ServedNext ==
    \/ HandleFrame
    \/ Connected
    \/ Dropped
    \/ ServerAnswers
    \/ ServerReports
    \/ \E c \in Clients : MonitorAsks(c) \/ MonitorSession(c)
    \/ CacheAges
    \/ TimePasses /\ UNCHANGED channel

\* The reactor handles what arrives, the link is made again (UpstreamLink), the
\* server answers and reports, and a monitor reads what it is sent.
\* HandleFrame waits for the bound MaxWire, which other steps may hold up.
ServedFairness ==
    /\ SF_servedVars(HandleFrame)
    /\ WF_servedVars(Connected)
    /\ WF_servedVars(ServerAnswers)
    /\ WF_servedVars(ServerReports)
    /\ \A c \in Clients :
          WF_servedVars(Proxy!MonitorReceives(c) /\ UNCHANGED <<translatorVars, channel>>)

ServedSpec == ServedInit /\ [][ServedNext]_servedVars /\ ServedFairness

-----------------------------------------------------------------------------
(* Properties. *)

\* What the documents of the server name.
ServedTables == UNION {DOMAIN Keyed(doc) : doc \in Routings}
ServedMasters ==
    (UNION {RoutingMasters(doc) : doc \in Routings})
        \cup (UNION {Masters(doc) : doc \in Dashboards})

\* "Empty bridge table forever | Normal at first connect on v2": not forever.  While
\* the link and a session stay up, the monitor ends up with the tables of the
\* server, and nothing of them is taken away again: also when the HELLO of a
\* reconnection has put an empty BRIDGE in their place, when the routing table names
\* masters that reset the session, or when the monitor's own BRIDGE_REQ became a
\* STATE_REQ, whose answer has no routing.
TablesArrive ==
    \A c \in Clients :
        /\ <>[](link = "up")
        /\ <>[](conn[c] = "open")
        => <>[](/\ monitor[c].bridge # Nil /\ monitor[c].config # Nil
                /\ ServedTables \subseteq DOMAIN monitor[c].bridge
                /\ ServedMasters \subseteq DOMAIN monitor[c].config)

\* With a v2 server, a BRIDGE_REQ misses the cache only as long as no HELLO was handled
\* and one is the next frame; it then goes out as it is.  So it is never turned into a
\* STATE_REQ, which brings no routing, for want of a BRIDGE, whatever connection, loss,
\* exception or state frame came before.
MissOnlyBeforeHello ==
    [][\A c \in Clients :
          /\ Proxy!HandleDownstreamRequest(c, "BRIDGE_REQ")
          /\ snapshot.bridge = Nil
          /\ link = "up"
          => /\ channel # <<>> /\ Head(channel) = "HELLO"
             /\ upstream_out' = Append(upstream_out, "BRIDGE_REQ")]_servedVars
===============================================================================
