---------------------------- MODULE MCServedProxy ----------------------------
(******************************************************************************)
(* A server with the master A and its hotspot p in the dashboard state, and a *)
(* routing table that also names the master S0: with it the CONFIG gets more  *)
(* masters after the first one.                                               *)
(******************************************************************************)
EXTENDS ServedProxy, TLC

CONSTANTS A, S0, p, T, c1

master(peers) == [mode |-> "MASTER", peers |-> peers]

mcNames == {A, S0}
mcUa == [row \in PeerRows |-> {T}]
mcVirtualBase == [n \in mcNames |-> Nil]
mcFan == [n \in mcNames |-> {}]
mcDashboards == {A :> master({p})}
mcRoutings == {T :> (A :> FALSE @@ S0 :> FALSE)}
mcConfigs ==
    {[n \in names |-> master(IF n = A THEN {p} ELSE {})] : names \in {{A}, {A, S0}}}
mcBridges ==
    {EmptyTable, T :> (A :> TRUE)} \cup {T :> (A :> on @@ S0 :> FALSE) : on \in BOOLEAN}
===============================================================================
