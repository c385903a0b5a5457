--------------------------- MODULE MCProxyUseCases ---------------------------
(******************************************************************************)
(* A small proxy for TLC.  Four CONFIGs: without masters, with one, with      *)
(* two, and one that does not unpickle.  Two BRIDGEs: a table, and the same    *)
(* table with the leg of a user-activated session.                            *)
(******************************************************************************)
EXTENDS ProxyFeeds

CONSTANT c1

mcSystems == {"M1", "M2"}
mcConfigs == {"noMasters", "oneMaster", "twoMasters", "bad"}
mcBridges == {"table", "withUA"}

mcMastersOf ==
    [c \in Configs |-> CASE c \in {"noMasters", "bad"} -> {}
                           [] c = "oneMaster" -> {"M1"}
                           [] c = "twoMasters" -> {"M1", "M2"}]

\* The peers of twoMasters hold a session, which may have expired.
mcEnriched ==
    [bc \in Bridges \X Configs |->
        IF bc[2] = "twoMasters"
        THEN {bc[1], "withUA"} \cap Bridges ELSE {bc[1]}]

\* Whether the session's talkgroup fits its three bytes is not known here.
mcUnmergeable == {bc \in Bridges \X Configs : bc[2] = "twoMasters"}

\* Bound of the session runs: the sessions read neither the request queue nor the
\* wire version, so only the states with an idle request side are extended.
IdleUpstream == upstream_out = <<>> /\ ~upstream_v2
==============================================================================
