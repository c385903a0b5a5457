---------------------------- MODULE MCV2ToV1Mapper ----------------------------
(******************************************************************************)
(* A small network for TLC.  "A" is a master whose name holds no slot, "S-0"  *)
(* and "S-1" are the virtual masters of the inject base "S", "OBP" an open    *)
(* bridge.  Rows "p" and "q" are hotspots, "q" with a session; row "bad"      *)
(* does not convert.                                                          *)
(******************************************************************************)
EXTENDS V2ToV1Mapper, TLC

master(peers) == [mode |-> "MASTER", peers |-> peers]
peer == [mode |-> "PEER", peers |-> {"p"}]

mcNames == {"A", "S", "S-0", "S-1", "OBP"}
mcUa == [row \in PeerRows |-> IF row = "q" THEN {"9"} ELSE {}]
mcVirtualBase ==
    [n \in mcNames |-> IF n \in {"S-0", "S-1"} THEN "S" ELSE Nil]
mcFan == [n \in mcNames |-> IF n = "S" THEN {"S-0", "S-1"} ELSE {}]

mcTopologies ==
    { "A" :> master({"q"}) @@ "OBP" :> [mode |-> "OPENBRIDGE", peers |-> {}],
      "A" :> master({"bad"}) }
mcTopologyPatches ==
    { "S-1" :> master({"q"}) @@ "A" :> peer }
mcDashboards ==
    { NoTable,
      "S-0" :> master({"p"}),
      "A" :> peer @@ "S-0" :> master({"bad"}),
      "A" :> peer }
mcRoutings ==
    { "9" :> ("A" :> FALSE @@ "OBP" :> TRUE),
      NoKey :> ("A" :> FALSE) }
mcRoutingPatches ==
    { "9" :> ("S" :> TRUE),
      "9" :> ("A" :> Nil) }

\* Bound of the run: what the translator does once sessions have expired is explored
\* by the composition; the expiry itself is a step of this run too.
NothingExpired == expired = {}
===============================================================================
