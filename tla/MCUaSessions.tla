----------------------------- MODULE MCUaSessions -----------------------------
(* Routing tables and CONFIGs for UaSessions: talkgroup 3 is one too wide.    *)
EXTENDS UaSessions, TLC

CONSTANTS A, B

MCSystems == {A, B}

Leg(system, ts, tgid, active) ==
    [system |-> system, ts |-> ts, tgid |-> tgid, active |-> active, timer |-> 0,
     on |-> <<tgid>>]

Session(system, slot, tgid, expires) ==
    [system |-> system, tgid |-> tgid, slot |-> slot, expires |-> expires]

\* Both slots of one master, two legs of a master in one place, a leg whose
\* talkgroup is not its table's, a leg without trigger talkgroups.
MCRoutings ==
    { <<>>,
      1 :> <<Leg(B, 2, 1, TRUE), Leg(A, 2, 1, FALSE), Leg(A, 1, 1, FALSE)>>,
      1 :> <<Leg(A, 1, 1, FALSE), Leg(B, 1, 1, TRUE), Leg(A, 1, 1, TRUE)>>
        @@ 2 :> <<[Leg(B, 2, 1, FALSE) EXCEPT !.on = <<>>]>> }

\* No session; one, and one of the same place that is longer or on the other slot;
\* two hotspots in one place; two masters; a session to skip; one too wide.
MCConfigs ==
    { <<>>,
      <<Session(A, 1, 1, 1)>>,
      <<Session(A, 1, 1, 2), Session(A, 1, 1, 1)>>,
      <<Session(A, 2, 1, 2), Session(B, 2, 2, 2)>>,
      <<Session(A, 1, 2, 1), Session(A, 3, 1, 2), Session(B, 1, 0, 2)>>,
      <<Session(B, 1, 1, 2), Session(A, 1, 3, 1)>> }
===============================================================================
