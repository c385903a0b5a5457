--------------------------- MODULE UpstreamLink_proofs ---------------------------
(******************************************************************************)
(* For every number of delays and requests in flight: the proxy is never      *)
(* stranded without a session, an attempt or a retry, its requests go to the  *)
(* open session, the delays stay within their range, and how a session or an  *)
(* attempt ended decides the next one.                                        *)
(******************************************************************************)
EXTENDS UpstreamLink, TLAPS

\* The levels of the delay: retry stays within maxDelay and never waits for level 0.
LEMMA NextLevelType ==
    ASSUME delay \in 0..MaxLevel
    PROVE  NextLevel \in 1..MaxLevel /\ NextLevel # None
  BY MaxLevelType, NoneIsNoLevel DEF NextLevel

\* Behind the properties that the runs check: a closing session is a session, and
\* while there is a session its delay stays reset.
LinkInv ==
    /\ TypeOK
    /\ NeverStranded
    /\ RequestsReachTransport
    /\ closing => connector = "connected"
    /\ connector = "connected" => delay = 0

\* The connector starts connecting, without a pending call.
LEMMA LinkInit ==
    ASSUME Init
    PROVE  LinkInv
<1>1. TypeOK
  <2>1. upstream_out \in Seq(Requests) /\ 0 \in 0..MaxLevel
    BY MaxLevelType DEF Init
  <2> QED
    BY <2>1 DEF Init, TypeOK
<1>2. NeverStranded
  BY DEF Init, NeverStranded
<1>3. /\ RequestsReachTransport
      /\ closing => connector = "connected"
      /\ connector = "connected" => delay = 0
  BY DEF Init, RequestsReachTransport
<1> QED
  BY <1>1, <1>2, <1>3 DEF LinkInv

\* Every step of the reactor keeps the connector, the pending call and the active
\* protocol in agreement.
LEMMA LinkStep ==
    ASSUME LinkInv, [Next]_vars
    PROVE  LinkInv'
<1> USE DEF LinkInv, TypeOK, NeverStranded, RequestsReachTransport
<1>1. CASE BuildProtocol
  BY <1>1, MaxLevelType DEF BuildProtocol
<1>2. CASE ClientConnectionFailed
  BY <1>2, NextLevelType DEF ClientConnectionFailed, Retry
<1>3. CASE ConnectionLost
  <2>1. /\ connector = "connected" /\ connector' = "disconnected" /\ server' = server
        /\ closing' = FALSE /\ active_protocol' = FALSE /\ upstream_out' = <<>>
        /\ delay' = NextLevel /\ callID' = NextLevel
    BY <1>3 DEF ConnectionLost, Retry, ClearActiveProtocol
  <2>2. NextLevel \in 1..MaxLevel /\ NextLevel # None
    BY NextLevelType
  <2>3. delay' \in 0..MaxLevel /\ callID' \in 1..MaxLevel /\ callID' # None
    BY <2>1, <2>2, MaxLevelType
  <2>4. upstream_out' \in Seq(Requests)
    BY <2>1
  <2>5. TypeOK'
    BY <2>1, <2>3, <2>4
  <2>6. NeverStranded' /\ RequestsReachTransport'
    BY <2>1, <2>3
  <2> QED
    BY <2>1, <2>5, <2>6
<1>4. CASE ParseError
  BY <1>4 DEF ParseError
<1>5. CASE Reconnect
  BY <1>5 DEF Reconnect
<1>6. ASSUME NEW req \in Requests, Request(req)
      PROVE  LinkInv'
  BY <1>6 DEF Request
<1>7. CASE ServerReads
  BY <1>7 DEF ServerReads
<1>8. CASE ServerChanges
  BY <1>8 DEF ServerChanges
<1>9. CASE UNCHANGED vars
  BY <1>9 DEF vars
<1> QED
  BY <1>1, <1>2, <1>3, <1>4, <1>5, <1>6, <1>7, <1>8, <1>9 DEF Next

\* A call of retry that becomes pending has the delay that follows from how the
\* session or the attempt ended.
LEMMA DelayStep ==
    ASSUME LinkInv, [Next]_vars, callID' # None, callID = None
    PROVE  IF connector = "connected" THEN callID' = 1
           ELSE callID' = MaxLevel \/ callID' > delay
<1> USE DEF LinkInv, TypeOK
<1>1. CASE ClientConnectionFailed
  BY <1>1, MaxLevelType DEF ClientConnectionFailed, Retry, NextLevel
<1>2. CASE ConnectionLost
  BY <1>2, MaxLevelType DEF ConnectionLost, Retry, NextLevel
<1>3. CASE BuildProtocol \/ Reconnect
  BY <1>3 DEF BuildProtocol, Reconnect
<1>4. CASE \/ ParseError \/ ServerReads \/ ServerChanges \/ UNCHANGED vars
           \/ \E req \in Requests : Request(req)
  BY <1>4 DEF ParseError, ServerReads, ServerChanges, Request, vars
<1> QED
  BY <1>1, <1>2, <1>3, <1>4 DEF Next

-----------------------------------------------------------------------------
(* The theorems. *)

\* The connector, the pending call, the delay and the active protocol agree in
\* every state of the link.
THEOREM LinkInvariant == Spec => []LinkInv
<1>1. Init => LinkInv
  BY LinkInit
<1>2. LinkInv /\ [Next]_vars => LinkInv'
  BY LinkStep
<1> QED
  BY <1>1, <1>2, PTL DEF Spec

\* TypeOK: the pending call never waits for level 0 nor beyond maxDelay.
THEOREM LinkTypeCorrect == Spec => []TypeOK
<1>1. LinkInv => TypeOK
  BY DEF LinkInv
<1> QED
  BY <1>1, LinkInvariant, PTL

\* NeverStranded: whatever fails, is lost or refused, in any order, there is a
\* session, an attempt or exactly one pending call of retry.
THEOREM LinkNeverStranded == Spec => []NeverStranded
<1>1. LinkInv => NeverStranded
  BY DEF LinkInv
<1> QED
  BY <1>1, LinkInvariant, PTL

\* RequestsReachTransport: a request of the use cases goes to the open session, and
\* none of an earlier session is left for the next.
THEOREM LinkCarriesRequests == Spec => []RequestsReachTransport
<1>1. LinkInv => RequestsReachTransport
  BY DEF LinkInv
<1> QED
  BY <1>1, LinkInvariant, PTL

\* DelayFollowsOutcome: a session is followed by the first delay, a failure by a
\* longer one or the longest, however often the connection failed before.
THEOREM LinkDelays == Spec => DelayFollowsOutcome
<1>1. LinkInv /\ [Next]_vars =>
         [callID' # None /\ callID = None =>
            IF connector = "connected" THEN callID' = 1
            ELSE callID' = MaxLevel \/ callID' > delay]_vars
  BY DelayStep
<1> QED
  BY <1>1, LinkInvariant, PTL DEF Spec, DelayFollowsOutcome
===============================================================================
