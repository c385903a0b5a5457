------------------------------- MODULE UaSessions -------------------------------
(******************************************************************************)
(* How the user-activated sessions of a CONFIG get into the tables of a       *)
(* BRIDGE: merge_ua_sessions_into_bridges leg by leg, applied to each routing *)
(* table with the last CONFIG and again to the cached BRIDGE with every       *)
(* CONFIG that is published.                                                  *)
(*                                                                            *)
(* V2ToV1Mapper and ProxyUseCases have this merge without slots, timers and   *)
(* the order of legs.  A CONFIG is here the list of its sessions, in the      *)
(* order of its masters, their peers and their slots, a table the list of its *)
(* legs; the key of a talkgroup's own table is the talkgroup.                 *)
(******************************************************************************)
EXTENDS Integers, Sequences, FiniteSets

CONSTANTS
    Systems,        \* system names
    Routings,       \* routing tables, functions from keys to lists of legs
    Configs,        \* CONFIGs that are published, as lists of sessions
    MaxTgid,        \* the largest talkgroup of three bytes
    MaxTime         \* bound: ticks of the clock

Legs ==
    [system : Systems, ts : Int, tgid : Int, active : BOOLEAN, timer : Int, on : Seq(Int)]

SessionRows == [system : Systems, slot : Int, tgid : Int, expires : Int]

IsTables(tables) ==
    DOMAIN tables \subseteq Int /\ \A k \in DOMAIN tables : tables[k] \in Seq(Legs)

ASSUME RoutingsType == \A tables \in Routings : IsTables(tables)
ASSUME ConfigsType == \A sessions \in Configs : sessions \in Seq(SessionRows)

VARIABLES
    now,
    config,         \* last_config
    routing,        \* the routing table of the cached BRIDGE
    cached,         \* is there a cached BRIDGE?
    bridges         \* the cached BRIDGE, <<>> as long as there is none

vars == <<now, config, routing, cached, bridges>>

\* A session that the loop does not skip.
Counts(session) ==
    session.tgid > 0 /\ session.expires > now /\ session.slot \in {1, 2}

\* _bytes_3 rejects the talkgroup of one of its sessions.
Raises(sessions) == \E i \in DOMAIN sessions : Counts(sessions[i]) /\ sessions[i].tgid > MaxTgid

\* _finalize_legacy_bridge_leg: a leg without trigger talkgroups has its own.
Finalized(leg) == IF leg.on = <<>> THEN [leg EXCEPT !.on = <<leg.tgid>>] ELSE leg

LegOf(session) ==
    [system |-> session.system, ts |-> session.slot, tgid |-> session.tgid,
     active |-> TRUE, timer |-> session.expires, on |-> <<session.tgid>>]

\* The loop's test for a leg of the session.
Matches(leg, session) == leg.system = session.system /\ leg.ts = session.slot

\* Mutant: a leg is added even if there is one.
WithSessionAppended(legs, session) == Append(legs, LegOf(session))

\* Mutant: a leg of the system is taken, on either slot.
WithSessionAnySlot(legs, session) ==
    LET own == {i \in DOMAIN legs : legs[i].system = session.system}
    IN  IF own = {} THEN Append(legs, LegOf(session))
        ELSE [legs EXCEPT ![CHOOSE i \in own : \A j \in own : i <= j] =
                [LegOf(session) EXCEPT !.on = @]]

\* Mutant: the leg keeps its talkgroup.
WithSessionTgidKept(legs, session) ==
    LET own == {i \in DOMAIN legs : Matches(legs[i], session)}
    IN  IF own = {} THEN Append(legs, LegOf(session))
        ELSE [legs EXCEPT ![CHOOSE i \in own : \A j \in own : i <= j] =
                [@ EXCEPT !.active = TRUE, !.timer = session.expires]]

\* The first leg of the session's system and slot is ON until the session expires,
\* or else a leg is added; its trigger talkgroups stay as they are.
WithSession(legs, session) ==
    LET own == {i \in DOMAIN legs : Matches(legs[i], session)}
    IN  IF own = {} THEN Append(legs, LegOf(session))
        ELSE [legs EXCEPT ![CHOOSE i \in own : \A j \in own : i <= j] =
                [@ EXCEPT !.tgid = session.tgid, !.active = TRUE, !.timer = session.expires]]

\* One pass of the loop.
MergeSession(tables, session) ==
    IF ~Counts(session) THEN tables
    ELSE [k \in DOMAIN tables \cup {session.tgid} |->
            LET legs == IF k \in DOMAIN tables THEN tables[k] ELSE <<>>
            IN  IF k = session.tgid THEN WithSession(legs, session) ELSE legs]

FinalizedTables(tables) ==
    [k \in DOMAIN tables |-> [i \in DOMAIN tables[k] |-> Finalized(tables[k][i])]]

\* merge_ua_sessions_into_bridges.
MergeUaSessions(tables, sessions) ==
    LET merged[i \in 0..Len(sessions)] ==
            IF i = 0 THEN FinalizedTables(tables)
            ELSE MergeSession(merged[i - 1], sessions[i])
    IN  merged[Len(sessions)]

\* The HELLO of a connection puts an empty BRIDGE into the cache.
Hello ==
    /\ routing' = <<>>
    /\ cached' = TRUE
    /\ bridges' = <<>>
    /\ UNCHANGED <<now, config>>

\* _frames_from_routing; an exception loses the frame.
NewRouting(tables) ==
    /\ ~Raises(config)
    /\ routing' = tables
    /\ cached' = TRUE
    /\ bridges' = MergeUaSessions(tables, config)
    /\ UNCHANGED <<now, config>>

\* _refresh_legacy_static_tg_view with the CONFIG to be published, which the
\* translator has kept: it is merged into the cached BRIDGE if there is one; an
\* exception leaves that as it is.
PublishConfig(sessions) ==
    /\ config' = sessions
    /\ bridges' = IF cached /\ ~Raises(sessions) THEN MergeUaSessions(bridges, sessions)
                                                ELSE bridges
    /\ UNCHANGED <<now, routing, cached>>

Tick ==
    /\ now < MaxTime
    /\ now' = now + 1
    /\ UNCHANGED <<config, routing, cached, bridges>>

Init ==
    /\ now = 0
    /\ config = <<>>
    /\ routing = <<>>
    /\ cached = FALSE
    /\ bridges = <<>>

Next ==
    \/ Hello
    \/ \E tables \in Routings : NewRouting(tables)
    \/ \E sessions \in Configs : PublishConfig(sessions)
    \/ Tick

Spec == Init /\ [][Next]_vars

-----------------------------------------------------------------------------
(* Properties. *)

\* Where the table of a session's talkgroup has legs of its system on its slot.
Own(tables, session) ==
    IF session.tgid \notin DOMAIN tables THEN {}
    ELSE {i \in DOMAIN tables[session.tgid] : Matches(tables[session.tgid][i], session)}

\* Merges do not add up: however often CONFIGs with the same or other sessions are
\* merged into the cached BRIDGE, a system has no more legs on a slot of a table than
\* the routing table has, and one if that has none.
LegsDoNotMultiply ==
    \A sessions \in Configs : \A n \in DOMAIN sessions :
        LET given == Cardinality(Own(routing, sessions[n]))
        IN  Cardinality(Own(bridges, sessions[n])) <= IF given = 0 THEN 1 ELSE given

\* The first of a session's legs shows that it is live: ON, with its talkgroup and with
\* the expiry of the last of the sessions that is live in its place.
Shown(tables, sessions, n) ==
    LET session == sessions[n]
        Same == {j \in DOMAIN sessions :
                    /\ Counts(sessions[j])
                    /\ \A f \in {"system", "slot", "tgid"} : sessions[j][f] = session[f]}
    IN  \E i \in Own(tables, session), j \in Same :
            LET leg == tables[session.tgid][i]
            IN  /\ \A first \in Own(tables, session) : i <= first
                /\ \A last \in Same : last <= j
                /\ leg.active /\ leg.tgid = session.tgid /\ leg.timer = sessions[j].expires

\* A step that merges: a routing table is cached, or a CONFIG published beside the
\* cached BRIDGE, with no exception.
Merges ==
    \/ \E tables \in Routings : NewRouting(tables)
    \/ cached /\ \E sessions \in Configs : PublishConfig(sessions) /\ ~Raises(sessions)

\* When a merge succeeds (the CONFIG is published or the routing table cached), each
\* live session of the CONFIG is seen: in the table of its talkgroup, the first leg of
\* its master on its slot is ON, with its talkgroup and with the expiry of the last
\* hotspot in the CONFIG that has a live session there (not of the longest).
SessionsAreSeen ==
    [][Merges =>
          \A n \in DOMAIN config' : Counts(config'[n]) => Shown(bridges', config', n)]_vars

\* The legs of table k that belong to no live session.
Others(tables, k, sessions) ==
    {i \in DOMAIN tables[k] :
        \A n \in DOMAIN sessions :
            Counts(sessions[n]) /\ sessions[n].tgid = k => ~Matches(tables[k][i], sessions[n])}

\* A published CONFIG, whether new or the same again, touches nothing else: no table goes, and the legs of a table that
\* belong to no live session of the CONFIG stay what and where they were.
OtherLegsStay ==
    [][(\E sessions \in Configs : PublishConfig(sessions)) =>
          \A k \in DOMAIN bridges :
             /\ k \in DOMAIN bridges'
             /\ Others(bridges', k, config') = Others(bridges, k, config')
             /\ \A i \in Others(bridges, k, config') : bridges'[k][i] = bridges[k][i]]_vars
===============================================================================
