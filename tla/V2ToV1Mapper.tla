----------------------------- MODULE V2ToV1Mapper -----------------------------
(******************************************************************************)
(* The translator of adn-report-proxy: V2ToV1Mapper.translate and the         *)
(* TranslationState it keeps between frames.                                  *)
(*                                                                            *)
(* Documents are reduced to what decides the published tables.  A CONFIG is   *)
(* a function from system names to [mode, peers]; a topology or dashboard     *)
(* document is the same function read from its JSON rows; a routing table     *)
(* and a BRIDGE are functions from table keys to the legs of that key, a leg  *)
(* being a system and whether it is ON, or Nil for a leg whose numbers do     *)
(* not convert.  Slots, addresses, static talkgroups and texts are left out.  *)
(* A peer row stands for a hotspot together with the talkgroups of its        *)
(* user-activated sessions.                                                   *)
(******************************************************************************)
EXTENDS Naturals, Sequences, FiniteSets

CONSTANTS
    Names,          \* system names, virtual masters and inject bases included
    Keys,           \* relay table keys; a talkgroup is the key of its own table
    PeerRows,       \* peer rows of a document
    Ua,             \* [PeerRows -> SUBSET Keys]: talkgroups of the row's sessions
    Malformed,      \* peer rows that a conversion rejects with an exception
    TooWide,        \* rows with a session whose talkgroup exceeds three bytes
    OffWire,        \* OBP* and ECHO: neither masters nor inject targets
    Dashless,       \* names without "-": on a routing leg, an inject base
    VirtualBase,    \* [Names -> Names \cup {Nil}]: base of "base-slot" names
    Fan,            \* [Names -> SUBSET Names]: base |-> base-0 .. base-(N-1)
    Nil,            \* Python's None
    NoTable,        \* a dashboard document without a usable ctable
    NoTime,         \* one whose time stamp is not a number
    NoKey,          \* the key of a route that has none
    Topologies, TopologyPatches,     \* documents the server may send
    Dashboards,
    Routings, RoutingPatches,
    Voices,                          \* systems of voice events
    V1Configs, V1Bridges             \* bodies of passed-through v1 frames

VARIABLES
    upstream_v2,           \* TranslationState.upstream_v2
    topology_snapshot,     \* the last topology, patched
    routing_snapshot,      \* the last routing table, patched
    last_config,           \* the last CONFIG built from v2 documents
    last_dashboard_state,  \* the last dashboard document
    known_masters,
    inject_bases,
    bridges_frame_sent,
    out,                   \* what the last call of translate returned
    expired                \* peer rows whose sessions have expired by now

stateVars == <<topology_snapshot, routing_snapshot, last_config, last_dashboard_state,
               known_masters, inject_bases>>
vars == <<upstream_v2, stateVars, bridges_frame_sent, out, expired>>

-----------------------------------------------------------------------------
(* Tables. *)

IsPartial(f, S, T) == DOMAIN f \subseteq S /\ f \in [DOMAIN f -> T]

Modes == {"MASTER", "PEER", "OPENBRIDGE"}
Entries == [mode : Modes, peers : SUBSET PeerRows]

IsTable(table) == IsPartial(table, Names, Entries)

IsFcn(f) == f = [x \in DOMAIN f |-> f[x]]

IsBridgeTable(bridges) ==
    /\ IsFcn(bridges)
    /\ DOMAIN bridges \subseteq Keys
    /\ \A k \in DOMAIN bridges : IsPartial(bridges[k], Names, BOOLEAN)

IsRouting(routing) ==
    /\ IsFcn(routing)
    /\ DOMAIN routing \subseteq Keys \cup {NoKey}
    /\ \A k \in DOMAIN routing : IsPartial(routing[k], Names, BOOLEAN \cup {Nil})

ASSUME NameTypes ==
    /\ Ua \in [PeerRows -> SUBSET Keys]
    /\ VirtualBase \in [Names -> Names \cup {Nil}]
    /\ Fan \in [Names -> SUBSET Names]
    /\ Nil \notin Names
    /\ NoKey \notin Keys

\* _parse_virtual_inject_master cuts the slot off the last "-" of a name, so the base
\* of a slot "base-0" that a base was fanned out to is that base, or none for an OBP.
ASSUME FanOfBase == \A b \in Names : \A n \in Fan[b] : VirtualBase[n] \in {b, Nil}

ASSUME NilIsNoTable == \A S \in SUBSET Names : Nil \notin [S -> Entries]

ASSUME DocumentTypes ==
    /\ \A doc \in Topologies \cup TopologyPatches \cup V1Configs : IsTable(doc)
    /\ \A doc \in Dashboards \ {NoTable, NoTime} : IsTable(doc)
    /\ \A doc \in Routings \cup RoutingPatches : IsRouting(doc)
    /\ \A bridges \in V1Bridges : IsBridgeTable(bridges)
    /\ Voices \subseteq Names

\* f, and g where f says nothing: dict.update.
Over(f, g) ==
    [x \in DOMAIN f \cup DOMAIN g |-> IF x \in DOMAIN f THEN f[x] ELSE g[x]]

EmptyTable == [x \in {} |-> x]

\* _master_names_from_config, _topology_master_names.
Masters(table) == {n \in DOMAIN table : table[n].mode = "MASTER"}

\* A conversion of the table raises.
RaisesIn(table) == \E n \in DOMAIN table : table[n].peers \cap Malformed # {}

\* _note_inject_master: the bases of the virtual masters among names.
VirtualBases(names) == {VirtualBase[n] : n \in names} \ {Nil}

\* _collect_master_shell_names fans every base out.
Fanned(bases) == UNION {Fan[b] : b \in bases}

\* _ensure_known_master_shells: an empty MASTER entry for each missing name.
WithShells(table, names) ==
    Over(table, [n \in names |-> [mode |-> "MASTER", peers |-> {}]])

\* Mutant: the peers of an omitted master stay.
WithAllPeers(config) == config

\* _merge_dashboard_state_into_previous_config: a master the dashboard omits
\* stays, without its peers.
WithoutPeers(config) ==
    [n \in DOMAIN config |->
        IF config[n].mode = "MASTER" THEN [config[n] EXCEPT !.peers = {}] ELSE config[n]]

-----------------------------------------------------------------------------
(* Bridges. *)

\* _routing_master_names: systems of the legs, keyless routes included.
RoutingMasters(routing) ==
    (UNION {DOMAIN routing[k] : k \in DOMAIN routing}) \ OffWire

\* _note_inject_routing_target on every leg.
RoutingBases(routing) ==
    LET systems == RoutingMasters(routing)
    IN  (systems \cap Dashless) \cup VirtualBases(systems \ Dashless)

\* Mutant: a route without a key is published.
AllRoutes(routing) == routing

\* routing_table_to_bridges, and the routes merge_routing_delta keeps.
Keyed(routing) == [k \in DOMAIN routing \ {NoKey} |-> routing[k]]

\* The legs of a keyed route do not all convert.
RoutingRaises(routing) ==
    \E k \in DOMAIN routing \ {NoKey} : \E n \in DOMAIN routing[k] : routing[k][n] = Nil

\* The user-activated sessions of a CONFIG but those of the rows in gone, which
\* have expired, as pairs of a master and a talkgroup.
UaSessions(config, gone) ==
    {s \in Masters(config) \X Keys :
        \E p \in config[s[1]].peers \ gone : s[2] \in Ua[p]}

\* A session that has not expired has a talkgroup that _bytes_3 rejects.
MergeRaises(config, gone) ==
    \E n \in Masters(config) : (config[n].peers \ gone) \cap TooWide # {}

\* merge_ua_sessions_into_bridges: the leg of the session's master in the table
\* of its talkgroup is ON; table and leg are made when they are missing.
MergeUa(bridges, config, gone) ==
    LET sessions == UaSessions(config, gone)
        keys == DOMAIN bridges \cup {s[2] : s \in sessions}
    IN  [k \in keys |->
            Over([m \in {s[1] : s \in {t \in sessions : t[2] = k}} |-> TRUE],
                 IF k \in DOMAIN bridges THEN bridges[k] ELSE EmptyTable)]

-----------------------------------------------------------------------------
(* What translate returns: at most one frame that is not a CONFIG, at most one *)
(* CONFIG; or an exception.                                                   *)

NoFrame == [op |-> "NONE", body |-> Nil]
BridgeSnd(bridges) == [op |-> "BRIDGE_SND", body |-> bridges]
BrdgEvent(system) == [op |-> "EVENT", body |-> system]

\* The call returns frames and leaves bridges_frame_sent at sent.  The use cases
\* may still raise on the CONFIG, once the other frame is out; then the connection
\* is dropped as when translate raises.
Returns(live, config, sent) ==
    \/ /\ out' = [live |-> live, config |-> config, end |-> "ok"]
       /\ bridges_frame_sent' = sent
    \/ /\ config # Nil
       /\ out' = [live |-> live, config |-> config, end |-> "dropped"]
       /\ bridges_frame_sent' = FALSE

ReturnsNothing == Returns(NoFrame, Nil, bridges_frame_sent)

Raised == [live |-> NoFrame, config |-> Nil, end |-> "raised"]

\* Mutant: the flag that a routing frame set before it raised is not reset.
RaisesKeepingFlag ==
    /\ out' = Raised
    /\ bridges_frame_sent' \in {bridges_frame_sent, TRUE}

\* An exception leaves stringReceived; the reactor then calls connectionLost and
\* with it on_upstream_lost, which resets bridges_frame_sent.
RaisesException ==
    /\ out' = Raised
    /\ bridges_frame_sent' = FALSE

-----------------------------------------------------------------------------
(* CONFIG. *)

\* Mutant: shells only for the masters that the previous CONFIG lacked.
CompletedWithNewcomers(merged, names, bases) ==
    LET all == bases \cup VirtualBases(names)
    IN  [config |-> WithShells(merged, (names \cup Fanned(all)) \ DOMAIN last_config),
         bases |-> all]

\* Mutant: the bases are noted once the shells are named.
CompletedTooEarly(merged, names, bases) ==
    [config |-> WithShells(merged, names \cup Fanned(bases)),
     bases |-> bases \cup VirtualBases(names)]

\* _collect_master_shell_names, its note of new bases included: the CONFIG built
\* from merged when the masters in names and the bases in bases are known.
Completed(merged, names, bases) ==
    LET all == bases \cup VirtualBases(names)
    IN  [config |-> WithShells(merged, names \cup Fanned(all)), bases |-> all]

\* Mutant: the previous CONFIG wins over the document.
FromDashboardPreviousFirst(doc, known, bases) ==
    LET merged == IF topology_snapshot # Nil THEN Over(doc, topology_snapshot)
                  ELSE Over(WithoutPeers(last_config), doc)
    IN  Completed(merged,
                  known \cup Masters(doc) \cup Masters(merged) \cup Masters(last_config),
                  bases \cup VirtualBases(Masters(doc)))

\* dashboard_state_to_config and _complete_legacy_config for a usable document.
FromDashboard(doc, known, bases) ==
    LET merged == IF topology_snapshot # Nil THEN Over(doc, topology_snapshot)
                  ELSE Over(doc, WithoutPeers(last_config))
    IN  Completed(merged,
                  known \cup Masters(doc) \cup Masters(merged) \cup Masters(last_config),
                  bases \cup VirtualBases(Masters(doc)))

\* topology_to_config and _finalize_config_shells; known has the masters of doc.
FromTopology(doc, known) ==
    Completed(doc, known \cup Masters(doc) \cup Masters(last_config), inject_bases)

\* Mutant: the masters of the CONFIG are not tracked.
KeepConfigUntracked(built, known) ==
    /\ inject_bases' = built.bases
    /\ known_masters' = known
    /\ last_config' = IF built.config = EmptyTable THEN last_config ELSE built.config

\* The state after a CONFIG was built, known having been noted before; an empty
\* CONFIG is neither kept nor published.
KeepConfig(built, known) ==
    /\ inject_bases' = built.bases
    /\ known_masters' = known \cup Masters(built.config)
    /\ last_config' = IF built.config = EmptyTable THEN last_config ELSE built.config

ConfigSnd(built) == IF built.config = EmptyTable THEN Nil ELSE built.config

\* The conversion of the dashboard document rejects its time stamp, one of its rows
\* or one of the cached topology.
DashboardRaises(doc) ==
    \/ doc = NoTime
    \/ /\ doc \notin {NoTable, NoTime}
       /\ \/ RaisesIn(doc)
          \/ topology_snapshot # Nil /\ RaisesIn(topology_snapshot)

\* The masters whose names were noted before the exception: the rows up to the
\* first bad one, in whatever order the document lists them, or all of them.
NotedBeforeRaise(doc) ==
    LET rejected == {n \in Masters(doc) : doc[n].peers \cap Malformed # {}}
    IN  IF rejected = {} THEN {Masters(doc)}
        ELSE {noted \in SUBSET Masters(doc) : \E n \in rejected : noted \cap rejected = {n}}

\* The inject bases noted before a dashboard document raised.
BasesBeforeRaise(doc) ==
    IF doc = NoTime THEN {{}} ELSE {VirtualBases(noted) : noted \in NotedBeforeRaise(doc)}

-----------------------------------------------------------------------------
(* translate, one action per kind of frame. *)

\* A v1 frame passes through; nothing of it is kept but the wire version.
PassthroughConfig(config) ==
    /\ upstream_v2' = FALSE
    /\ Returns(NoFrame, config, bridges_frame_sent)
    /\ UNCHANGED <<stateVars, expired>>

PassthroughLive(frame) ==
    /\ upstream_v2' = FALSE
    /\ Returns(frame, Nil, bridges_frame_sent)
    /\ UNCHANGED <<stateVars, expired>>

\* Mutant: the empty BRIDGE is counted as sent and left out.
HelloWithoutBridge ==
    /\ upstream_v2' = TRUE
    /\ Returns(NoFrame, Nil, TRUE)
    /\ UNCHANGED <<stateVars, expired>>

\* A v2 HELLO brings an empty BRIDGE unless one was sent on this connection.
HelloV2 ==
    /\ upstream_v2' = TRUE
    /\ Returns(IF bridges_frame_sent THEN NoFrame ELSE BridgeSnd(EmptyTable), Nil, TRUE)
    /\ UNCHANGED <<stateVars, expired>>

\* A v2 HELLO whose features are not a list.
HelloMalformed ==
    /\ upstream_v2' = TRUE
    /\ RaisesException
    /\ UNCHANGED <<stateVars, expired>>

\* Any other HELLO, and a frame that is not JSON: no legacy frame.
Ignored ==
    /\ ReturnsNothing
    /\ UNCHANGED <<upstream_v2, stateVars, expired>>

\* JSON of a type nobody handles, a delta without a patch.
UnknownType ==
    /\ upstream_v2' = TRUE
    /\ ReturnsNothing
    /\ UNCHANGED <<stateVars, expired>>

\* An empty payload, or JSON that is not an object: only JSONDecodeError is
\* caught.
NotAnObject ==
    /\ RaisesException
    /\ UNCHANGED <<upstream_v2, stateVars, expired>>

\* A delta whose since_seq, or whose first sequence number, is not a number.
DeltaMalformed ==
    /\ upstream_v2' = TRUE
    /\ RaisesException
    /\ UNCHANGED <<stateVars, expired>>

\* STATE_SND.  The document is kept before it is converted.
StateSnd(doc) ==
    /\ upstream_v2' = TRUE
    /\ last_dashboard_state' = doc
    /\ \/ /\ DashboardRaises(doc)
          /\ RaisesException
          /\ \E bases \in BasesBeforeRaise(doc) : inject_bases' = inject_bases \cup bases
          /\ UNCHANGED <<last_config, known_masters>>
       \/ /\ doc = NoTable
          /\ ReturnsNothing
          /\ UNCHANGED <<last_config, known_masters, inject_bases>>
       \/ /\ doc # NoTable
          /\ ~DashboardRaises(doc)
          /\ LET built == FromDashboard(doc, known_masters, inject_bases)
             IN  /\ KeepConfig(built, known_masters)
                 /\ Returns(NoFrame, ConfigSnd(built), bridges_frame_sent)
    /\ UNCHANGED <<topology_snapshot, routing_snapshot, expired>>

\* A topology, received or merged.  It is kept before its sequence number is read
\* and its masters are noted, and only then converted, where its time stamp may be
\* rejected although no row is.
NewTopology(topology) ==
    /\ upstream_v2' = TRUE
    /\ topology_snapshot' = topology
    /\ \/ /\ RaisesException
          /\ UNCHANGED <<last_config, known_masters, inject_bases>>
       \/ /\ RaisesException
          /\ known_masters' = known_masters \cup Masters(topology)
          /\ UNCHANGED <<last_config, inject_bases>>
       \/ /\ ~RaisesIn(topology)
          /\ LET known == known_masters \cup Masters(topology)
                 built == FromTopology(topology, known)
             IN  /\ KeepConfig(built, known)
                 /\ Returns(NoFrame, ConfigSnd(built), bridges_frame_sent)
    /\ UNCHANGED <<routing_snapshot, last_dashboard_state, expired>>

\* A TOPOLOGY_SND whose document has no key at all is kept, but every later test
\* takes it for none; what it brings is the CONFIG of an empty topology.
EmptyTopology ==
    /\ upstream_v2' = TRUE
    /\ topology_snapshot' = Nil
    /\ LET built == FromTopology(EmptyTable, known_masters)
       IN  /\ KeepConfig(built, known_masters)
           /\ Returns(NoFrame, ConfigSnd(built), bridges_frame_sent)
    /\ UNCHANGED <<routing_snapshot, last_dashboard_state, expired>>

\* A routing table, received or merged.  It is kept before its sequence number is
\* read and the systems of its legs are noted, the bases leg by leg; then the
\* BRIDGE is built with the sessions of the last CONFIG, and the CONFIG is built
\* again from the last dashboard document.  An exception of the second loses the
\* first.
NewRouting(routing) ==
    LET known == known_masters \cup RoutingMasters(routing)
        bases == inject_bases \cup RoutingBases(routing)
        bridge == BridgeSnd(MergeUa(Keyed(routing), last_config, expired))
        doc == last_dashboard_state
        bridgeRaises == RoutingRaises(routing) \/ MergeRaises(last_config, expired)
    IN  /\ upstream_v2' = TRUE
        /\ routing_snapshot' = routing
        /\ \/ /\ RaisesException
              /\ \E some \in SUBSET RoutingBases(routing) :
                    inject_bases' = inject_bases \cup some
              /\ UNCHANGED <<last_config, known_masters>>
           \/ /\ bridgeRaises
              /\ RaisesException
              /\ known_masters' = known
              /\ inject_bases' = bases
              /\ UNCHANGED last_config
           \/ /\ ~bridgeRaises
              /\ doc # Nil
              /\ DashboardRaises(doc)
              /\ RaisesException
              /\ known_masters' = known
              /\ \E more \in BasesBeforeRaise(doc) : inject_bases' = bases \cup more
              /\ UNCHANGED last_config
           \/ /\ ~bridgeRaises
              /\ doc \in {Nil, NoTable}
              /\ known_masters' = known
              /\ inject_bases' = bases
              /\ Returns(bridge, Nil, TRUE)
              /\ UNCHANGED last_config
           \/ /\ ~bridgeRaises
              /\ doc \notin {Nil, NoTable}
              /\ ~DashboardRaises(doc)
              /\ LET built == FromDashboard(doc, known, bases)
                 IN  KeepConfig(built, known) /\ Returns(bridge, ConfigSnd(built), TRUE)
        /\ UNCHANGED <<topology_snapshot, last_dashboard_state, expired>>

\* VOICE_EVENT_SND.  A virtual master is noted; INGRESS and unknown families give
\* no event, a malformed number an exception.
VoiceEventSnd(system) ==
    /\ upstream_v2' = TRUE
    /\ inject_bases' = inject_bases \cup VirtualBases({system})
    /\ \/ Returns(BrdgEvent(system), Nil, bridges_frame_sent)
       \/ ReturnsNothing
       \/ RaisesException
    /\ UNCHANGED <<topology_snapshot, routing_snapshot, last_config, last_dashboard_state,
                   known_masters, expired>>

\* DELTA_SND.  A gap in the sequence numbers is only logged; rows are replaced or
\* added, never removed.
TopologyDelta(patch) ==
    NewTopology(IF topology_snapshot = Nil THEN patch ELSE Over(patch, topology_snapshot))

RoutingDelta(patch) ==
    NewRouting(IF routing_snapshot = Nil THEN patch
               ELSE Over(Keyed(patch), Keyed(routing_snapshot)))

-----------------------------------------------------------------------------
\* on_upstream_lost.
OnUpstreamLost ==
    /\ Returns(NoFrame, Nil, FALSE)
    /\ UNCHANGED <<upstream_v2, stateVars, expired>>

\* The expires_at of a row's sessions passes.
SessionsExpire(p) ==
    /\ p \notin expired /\ Ua[p] # {}
    /\ expired' = expired \cup {p}
    /\ ReturnsNothing
    /\ UNCHANGED <<upstream_v2, stateVars>>

Init ==
    /\ upstream_v2 = FALSE
    /\ topology_snapshot = Nil
    /\ routing_snapshot = Nil
    /\ last_config = EmptyTable
    /\ last_dashboard_state = Nil
    /\ known_masters = {}
    /\ inject_bases = {}
    /\ bridges_frame_sent = FALSE
    /\ out = [live |-> NoFrame, config |-> Nil, end |-> "ok"]
    /\ expired = {}

\* One call of translate, for any frame but a HELLO.
TranslateOther ==
    \/ \E config \in V1Configs : PassthroughConfig(config)
    \/ \E bridges \in V1Bridges : PassthroughLive(BridgeSnd(bridges))
    \/ \E system \in Voices : PassthroughLive(BrdgEvent(system))
    \/ Ignored
    \/ UnknownType
    \/ NotAnObject
    \/ DeltaMalformed
    \/ \E doc \in Dashboards : StateSnd(doc)
    \/ \E doc \in Topologies : NewTopology(doc)
    \/ EmptyTopology
    \/ \E doc \in Routings : NewRouting(doc)
    \/ \E system \in Voices : VoiceEventSnd(system)
    \/ \E patch \in TopologyPatches : TopologyDelta(patch)
    \/ \E patch \in RoutingPatches : RoutingDelta(patch)

Next ==
    \/ HelloV2
    \/ HelloMalformed
    \/ TranslateOther
    \/ OnUpstreamLost
    \/ \E p \in PeerRows : SessionsExpire(p)

Spec == Init /\ [][Next]_vars

-----------------------------------------------------------------------------
(* Properties. *)

OutTypeOK ==
    /\ DOMAIN out = {"live", "config", "end"}
    /\ \/ out.live = NoFrame
       \/ out.live = BridgeSnd(out.live.body) /\ IsBridgeTable(out.live.body)
       \/ out.live = BrdgEvent(out.live.body) /\ out.live.body \in Voices
    /\ out.config = Nil \/ IsTable(out.config)
    /\ out.end \in {"ok", "dropped", "raised"}

TypeOK ==
    /\ upstream_v2 \in BOOLEAN
    /\ topology_snapshot = Nil \/ IsTable(topology_snapshot)
    /\ routing_snapshot = Nil \/ IsRouting(routing_snapshot)
    /\ IsTable(last_config)
    /\ last_dashboard_state \in {Nil, NoTable, NoTime} \/ IsTable(last_dashboard_state)
    /\ known_masters \subseteq Names
    /\ inject_bases \subseteq Names
    /\ bridges_frame_sent \in BOOLEAN
    /\ OutTypeOK
    /\ expired \subseteq PeerRows

\* No master is forgotten: every MASTER the proxy has published from v2 documents
\* is in known_masters, so every later CONFIG keeps a row for it, even after a
\* frame that raised half-way or a lost connection.
MastersTracked == Masters(last_config) \subseteq known_masters

\* "Legacy update_hblink_table requires every CONFIG master to exist in CTABLE":
\* a CONFIG built from v2 documents has a row for every master known by then and
\* for every slot of every inject base known by then, also the ones that this very
\* frame made known.
KnownArePublished ==
    upstream_v2 /\ out.config # Nil =>
        known_masters \cup Fanned(inject_bases) \subseteq DOMAIN out.config

\* The documents in force declare system n with another mode than MASTER.
Redeclared(n) ==
    \/ topology_snapshot # Nil /\ n \in DOMAIN topology_snapshot \ Masters(topology_snapshot)
    \/ /\ last_dashboard_state \notin {Nil, NoTable, NoTime}
       /\ n \in DOMAIN last_dashboard_state \ Masters(last_dashboard_state)

\* The published master set only grows, whatever the documents omit: a master
\* leaves it only when a document in force declares it to be something else.
NoMasterVanishes ==
    [][\A n \in Masters(last_config) : n \in Masters(last_config') \/ Redeclared(n)']_vars

\* What STATE_SND publishes is a fixed point: the same document again, or a
\* routing table that names no new system, publishes the same CONFIG, so the
\* shells it made known reset nobody a second time.
StateIsIdempotent ==
    [][\A doc \in Dashboards \ {NoTable} :
          StateSnd(doc) /\ out'.end # "raised" =>
             /\ ConfigSnd(FromDashboard(doc, known_masters, inject_bases))' = out'.config
             /\ FromDashboard(doc, known_masters, inject_bases)'.bases = inject_bases']_vars

\* A hotspot that left is not shown: the peers of a master in a CONFIG built from v2
\* documents are those of the last dashboard document or of the last topology, never
\* those of an earlier document kept in last_config.  (Of the other rows, a CONFIG
\* without a topology keeps what the previous one had.)
NoStalePeers ==
    upstream_v2 /\ out.config # Nil =>
        \A n \in Masters(out.config) : \A p \in out.config[n].peers :
            \/ /\ topology_snapshot # Nil
               /\ n \in DOMAIN topology_snapshot
               /\ p \in topology_snapshot[n].peers
            \/ /\ last_dashboard_state \notin {Nil, NoTable, NoTime}
               /\ n \in DOMAIN last_dashboard_state
               /\ p \in last_dashboard_state[n].peers
===============================================================================
