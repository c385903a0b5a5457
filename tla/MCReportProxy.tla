---------------------------- MODULE MCReportProxy ----------------------------
(******************************************************************************)
(* A network of one master, A, whose hotspot p has a user-activated session   *)
(* on talkgroup T, and of the inject base S with its virtual master S0.  The  *)
(* session of row wide has a talkgroup that does not fit its three bytes.     *)
(******************************************************************************)
EXTENDS ReportProxy, TLC

CONSTANTS A, S, S0, p, bad, wide, T, T2, c1

master(peers) == [mode |-> "MASTER", peers |-> peers]

mcNames == {A, S, S0}
mcUa == [row \in PeerRows |-> IF row \in {p, wide} THEN {T} ELSE {}]
mcVirtualBase == A :> Nil @@ S :> Nil @@ S0 :> S
mcFan == A :> {} @@ S :> {S0} @@ S0 :> {}

\* STATE_SND brings A with its hotspots, a voice event or a leg of S the virtual master;
\* one dashboard document and one routing patch raise.
mcDashboards == {NoTime, A :> master({p, wide})}
mcTopologies == {A :> master({})}
mcRoutings == {T :> (A :> FALSE)}
mcRoutingPatches == {T2 :> (S :> TRUE), T2 :> (A :> Nil)}
smallDashboards == {A :> master({p, wide}), S0 :> master({})}
mcV1Configs == {A :> master({})}
mcV1Bridges == {T2 :> (A :> FALSE)}

\* Every CONFIG that these documents can lead to: masters, A with its two rows or none.
mcConfigs ==
    UNION {{[n \in names |-> master(IF n = A THEN peers ELSE {})] : peers \in {{}, {p, wide}}} :
              names \in (SUBSET mcNames) \ {{}}}

\* Every BRIDGE: the tables of T and T2, with the legs of A, or S.
mcBridges ==
    {Over(t, t2) : t \in {EmptyTable, T :> (A :> FALSE), T :> (A :> TRUE)},
                   t2 \in {EmptyTable, T2 :> (S :> TRUE), T2 :> (A :> FALSE)}}

\* The bodies that the smaller instance can publish.
smallConfigs == {config \in mcConfigs : DOMAIN config \subseteq {A, S0}}
smallBridges == {EmptyTable, T :> (A :> FALSE), T :> (A :> TRUE)}

\* Bound of the refinement run: a state with a request under way or an old cache, which
\* is what makes a request of one, is not extended.
QuietUpstream == upstream_out = <<>> /\ cache_age # "stale"
==============================================================================
