-------------------------- MODULE ReportProxy_proofs --------------------------
(******************************************************************************)
(* The whole proxy, for every network and every sequence of frames.           *)
(*                                                                            *)
(* First the translator (V2ToV1Mapper): no published master is forgotten,     *)
(* each CONFIG has a row for every master and every slot known when it is     *)
(* built and only hotspots of documents in force, and the same document       *)
(* again gives the same CONFIG.  Then the composition: the translator and the *)
(* use cases together implement the use cases with any translator, so what is *)
(* proved of those holds of the program; and what only the two together       *)
(* guarantee of the cached BRIDGE.  Last the program connected to a server.   *)
(******************************************************************************)
EXTENDS ServedProxy, TLAPS

-----------------------------------------------------------------------------
(* The translator: tables. *)

\* Over keeps every row of both tables, the first one first.
LEMMA OverRows ==
    ASSUME NEW f, NEW g
    PROVE  /\ DOMAIN Over(f, g) = DOMAIN f \cup DOMAIN g
           /\ \A x \in DOMAIN f : Over(f, g)[x] = f[x]
           /\ \A x \in DOMAIN g \ DOMAIN f : Over(f, g)[x] = g[x]
  BY DEF Over

\* A table over a table is a table.
LEMMA OverTable ==
    ASSUME NEW f, NEW g, IsTable(f), IsTable(g)
    PROVE  IsTable(Over(f, g))
<1>1. \A x \in DOMAIN f \cup DOMAIN g :
         (IF x \in DOMAIN f THEN f[x] ELSE g[x]) \in Entries
  BY DEF IsTable, IsPartial
<1>2. DOMAIN Over(f, g) \subseteq Names
  BY OverRows DEF IsTable, IsPartial
<1>3. Over(f, g) \in [DOMAIN f \cup DOMAIN g -> Entries]
  BY <1>1 DEF Over
<1> QED
  BY <1>2, <1>3, OverRows DEF IsTable, IsPartial

\* A table is not Nil.
LEMMA TableNotNil ==
    ASSUME NEW f, IsTable(f)
    PROVE  f # Nil
  BY NilIsNoTable DEF IsTable, IsPartial

\* The row of a master without peers.
Shell == [mode |-> "MASTER", peers |-> {}]

\* Shells: a row for every name, MASTER where the table has none.
LEMMA ShellRows ==
    ASSUME NEW table, NEW names
    PROVE  /\ DOMAIN WithShells(table, names) = DOMAIN table \cup names
           /\ \A n \in DOMAIN table : WithShells(table, names)[n] = table[n]
           /\ \A n \in names \ DOMAIN table : WithShells(table, names)[n] = Shell
           /\ \A n \in names \ DOMAIN table : n \in Masters(WithShells(table, names))
<1> DEFINE shells == [n \in names |-> Shell]
<1>a. WithShells(table, names) = Over(table, shells)
  BY DEF WithShells, Shell
<1>b. DOMAIN shells = names /\ \A n \in names : shells[n] = Shell
  OBVIOUS
<1> HIDE DEF shells
<1>c. /\ DOMAIN Over(table, shells) = DOMAIN table \cup DOMAIN shells
      /\ \A n \in DOMAIN table : Over(table, shells)[n] = table[n]
      /\ \A n \in DOMAIN shells \ DOMAIN table : Over(table, shells)[n] = shells[n]
  BY OverRows
<1>1. /\ DOMAIN WithShells(table, names) = DOMAIN table \cup DOMAIN shells
      /\ \A n \in DOMAIN table : WithShells(table, names)[n] = table[n]
      /\ \A n \in DOMAIN shells \ DOMAIN table : WithShells(table, names)[n] = shells[n]
  BY <1>a, <1>c
<1>2. \A n \in names \ DOMAIN table : WithShells(table, names)[n] = Shell
  BY <1>1, <1>b
<1>3. Shell.mode = "MASTER"
  BY DEF Shell
<1> QED
  BY <1>1, <1>2, <1>3, <1>b DEF Masters

-----------------------------------------------------------------------------
(* The translator: types of the helpers. *)

\* Bases and slots of names are names.
LEMMA BaseNames ==
    ASSUME NEW names \in SUBSET Names
    PROVE  VirtualBases(names) \subseteq Names /\ Fanned(names) \subseteq Names
  BY NameTypes DEF VirtualBases, Fanned

\* The masters of a table are names.
LEMMA MasterNames ==
    ASSUME NEW table, IsTable(table)
    PROVE  Masters(table) \subseteq Names
  BY DEF Masters, IsTable, IsPartial

\* A table with shells is a table.
LEMMA ShellsTable ==
    ASSUME NEW table, IsTable(table), NEW names \in SUBSET Names
    PROVE  IsTable(WithShells(table, names))
<1>1. IsTable([n \in names |-> [mode |-> "MASTER", peers |-> {}]])
  BY DEF IsTable, IsPartial, Entries, Modes
<1> QED
  BY <1>1, OverTable DEF WithShells

\* A table without its masters' peers is a table with the same modes.
LEMMA WithoutPeersTable ==
    ASSUME NEW table, IsTable(table)
    PROVE  /\ IsTable(WithoutPeers(table))
           /\ DOMAIN WithoutPeers(table) = DOMAIN table
           /\ Masters(WithoutPeers(table)) = Masters(table)
<1>1. \A n \in DOMAIN table :
         /\ table[n] \in Entries
         /\ [table[n] EXCEPT !.peers = {}] \in Entries
         /\ [table[n] EXCEPT !.peers = {}].mode = table[n].mode
  BY DEF IsTable, IsPartial, Entries
<1>2. /\ DOMAIN WithoutPeers(table) = DOMAIN table
      /\ \A n \in DOMAIN table : /\ WithoutPeers(table)[n] \in Entries
                                 /\ WithoutPeers(table)[n].mode = table[n].mode
  BY <1>1 DEF WithoutPeers
<1>3. WithoutPeers(table) \in [DOMAIN table -> Entries]
  BY <1>1 DEF WithoutPeers
<1> QED
  BY <1>2, <1>3 DEF IsTable, IsPartial, Masters

\* No master of it has a peer.
LEMMA MasterlessPeers ==
    ASSUME NEW table, IsTable(table), NEW n \in Masters(WithoutPeers(table))
    PROVE  WithoutPeers(table)[n].peers = {}
<1>1. n \in DOMAIN table /\ n \in Masters(table)
  BY WithoutPeersTable DEF Masters
<1>2. table[n] \in Entries /\ table[n].mode = "MASTER"
  BY <1>1 DEF Masters, IsTable, IsPartial
<1>3. WithoutPeers(table)[n] = [table[n] EXCEPT !.peers = {}]
  BY <1>1, <1>2 DEF WithoutPeers
<1> QED
  BY <1>2, <1>3 DEF Entries

\* The systems of a routing table are names.
LEMMA RoutingNames ==
    ASSUME NEW routing, IsRouting(routing)
    PROVE  RoutingMasters(routing) \subseteq Names /\ RoutingBases(routing) \subseteq Names
<1>1. RoutingMasters(routing) \subseteq Names
  BY DEF RoutingMasters, IsRouting, IsPartial
<1> QED
  BY <1>1, BaseNames DEF RoutingBases

\* The tables the mapper builds are functions.
LEMMA BuiltFcn ==
    /\ IsFcn(EmptyTable)
    /\ \A routing : IsFcn(Keyed(routing))
    /\ \A f, g : IsFcn(Over(f, g))
    /\ \A bridges, config, gone : IsFcn(MergeUa(bridges, config, gone))
<1>1. IsFcn(EmptyTable)
  BY DEF IsFcn, EmptyTable
<1>2. ASSUME NEW routing
      PROVE  IsFcn(Keyed(routing))
  BY DEF IsFcn, Keyed
<1>3. ASSUME NEW f, NEW g
      PROVE  IsFcn(Over(f, g))
  BY DEF IsFcn, Over
<1>4. ASSUME NEW bridges, NEW config, NEW gone
      PROVE  IsFcn(MergeUa(bridges, config, gone))
  BY DEF IsFcn, MergeUa
<1> QED
  BY <1>1, <1>2, <1>3, <1>4

\* A routing table reduced to its keyed routes is one, and a patch over it too.
LEMMA KeyedRouting ==
    ASSUME NEW routing, IsRouting(routing)
    PROVE  /\ IsRouting(Keyed(routing))
           /\ ~RoutingRaises(routing) => IsBridgeTable(Keyed(routing))
<1>1. /\ DOMAIN Keyed(routing) = DOMAIN routing \ {NoKey}
      /\ \A k \in DOMAIN routing \ {NoKey} : Keyed(routing)[k] = routing[k]
  BY DEF Keyed
<1>2. ASSUME ~RoutingRaises(routing), NEW k \in DOMAIN routing \ {NoKey}
      PROVE  IsPartial(routing[k], Names, BOOLEAN)
  <2>1. IsPartial(routing[k], Names, BOOLEAN \cup {Nil})
    BY DEF IsRouting
  <2>2. \A n \in DOMAIN routing[k] : routing[k][n] # Nil
    BY <1>2 DEF RoutingRaises
  <2>3. \A n \in DOMAIN routing[k] : routing[k][n] \in BOOLEAN
    BY <2>1, <2>2 DEF IsPartial
  <2> QED
    BY <2>1, <2>3 DEF IsPartial
<1> QED
  BY <1>1, <1>2, BuiltFcn DEF IsRouting, IsBridgeTable

\* A routing table over another is a routing table.
LEMMA OverRouting ==
    ASSUME NEW f, NEW g, IsRouting(f), IsRouting(g)
    PROVE  IsRouting(Over(f, g))
<1>1. DOMAIN Over(f, g) = DOMAIN f \cup DOMAIN g
  BY OverRows
<1>2. /\ \A k \in DOMAIN f : Over(f, g)[k] = f[k]
      /\ \A k \in DOMAIN g \ DOMAIN f : Over(f, g)[k] = g[k]
  BY OverRows
<1>3. /\ \A k \in DOMAIN f : IsPartial(f[k], Names, BOOLEAN \cup {Nil})
      /\ \A k \in DOMAIN g : IsPartial(g[k], Names, BOOLEAN \cup {Nil})
      /\ DOMAIN f \cup DOMAIN g \subseteq Keys \cup {NoKey}
  BY DEF IsRouting
<1>4. ASSUME NEW k \in DOMAIN f \cup DOMAIN g
      PROVE  IsPartial(Over(f, g)[k], Names, BOOLEAN \cup {Nil})
  <2>1. CASE k \in DOMAIN f
    BY <1>2, <1>3, <2>1
  <2>2. CASE k \in DOMAIN g \ DOMAIN f
    BY <1>2, <1>3, <2>2
  <2> QED
    BY <2>1, <2>2
<1> QED
  BY <1>1, <1>3, <1>4, BuiltFcn DEF IsRouting

\* Merging the sessions of a table into a bridge table gives a bridge table.
LEMMA MergeType ==
    ASSUME NEW bridges, IsBridgeTable(bridges), NEW config, IsTable(config), NEW gone
    PROVE  IsBridgeTable(MergeUa(bridges, config, gone))
<1> DEFINE sessions == UaSessions(config, gone)
           legs(k) == [m \in {s[1] : s \in {t \in sessions : t[2] = k}} |-> TRUE]
           old(k) == IF k \in DOMAIN bridges THEN bridges[k] ELSE EmptyTable
           keys == DOMAIN bridges \cup {s[2] : s \in sessions}
<1>1. \A s \in sessions : s[1] \in Names /\ s[2] \in Keys
  BY MasterNames DEF UaSessions
<1>2. keys \subseteq Keys
  BY <1>1 DEF IsBridgeTable
<1>3. ASSUME NEW k \in keys
      PROVE  IsPartial(Over(legs(k), old(k)), Names, BOOLEAN)
  <2>1. IsPartial(legs(k), Names, BOOLEAN)
    BY <1>1 DEF IsPartial
  <2>2. IsPartial(old(k), Names, BOOLEAN)
    BY DEF IsBridgeTable, IsPartial, EmptyTable
  <2> HIDE DEF legs, old
  <2> QED
    BY <2>1, <2>2 DEF IsPartial, Over
<1>4. MergeUa(bridges, config, gone) = [k \in keys |-> Over(legs(k), old(k))]
  BY DEF MergeUa
<1> HIDE DEF legs, old, keys
<1>5. IsFcn(MergeUa(bridges, config, gone))
  BY BuiltFcn
<1> QED
  BY <1>2, <1>3, <1>4, <1>5 DEF IsBridgeTable

-----------------------------------------------------------------------------
(* The translator: a completed CONFIG. *)

\* It has a row for each name and each slot of each base, and a name that is not
\* a master in it was another thing in the documents.
LEMMA CompletedRows ==
    ASSUME NEW merged, NEW names, NEW bases
    PROVE  LET built == Completed(merged, names, bases)
           IN  /\ names \cup Fanned(built.bases) \subseteq DOMAIN built.config
               /\ \A n \in names : \/ n \in Masters(built.config)
                                   \/ n \in DOMAIN merged \ Masters(merged)
<1> DEFINE all == bases \cup VirtualBases(names)
           shown == names \cup Fanned(all)
<1>1. /\ Completed(merged, names, bases).config = WithShells(merged, shown)
      /\ Completed(merged, names, bases).bases = all
  BY DEF Completed
<1>2. /\ DOMAIN WithShells(merged, shown) = DOMAIN merged \cup shown
      /\ \A n \in DOMAIN merged : WithShells(merged, shown)[n] = merged[n]
      /\ \A n \in shown \ DOMAIN merged : n \in Masters(WithShells(merged, shown))
  BY ShellRows
<1> HIDE DEF all
<1>3. \A n \in names : n \in DOMAIN merged =>
         \/ n \in Masters(WithShells(merged, shown))
         \/ n \in DOMAIN merged \ Masters(merged)
  BY <1>2 DEF Masters
<1> QED
  BY <1>1, <1>2, <1>3

\* A completed CONFIG of tables and names is a table.
LEMMA CompletedType ==
    ASSUME NEW merged, IsTable(merged), NEW names \in SUBSET Names, NEW bases \in SUBSET Names
    PROVE  LET built == Completed(merged, names, bases)
           IN  IsTable(built.config) /\ built.bases \subseteq Names
<1> DEFINE all == bases \cup VirtualBases(names)
<1>1. all \subseteq Names
  BY BaseNames
<1>2. names \cup Fanned(all) \subseteq Names
  BY <1>1, BaseNames
<1>3. IsTable(WithShells(merged, names \cup Fanned(all)))
  BY <1>2, ShellsTable
<1> QED
  BY <1>1, <1>3 DEF Completed

\* The CONFIG built from a dashboard document: a table with a row for all that is
\* known, where a master of last_config is one unless a document says otherwise.
LEMMA DashboardRows ==
    ASSUME TypeOK, NEW doc, IsTable(doc),
           NEW known \in SUBSET Names, NEW bases \in SUBSET Names
    PROVE  LET built == FromDashboard(doc, known, bases)
           IN  /\ IsTable(built.config) /\ built.bases \subseteq Names
               /\ known \cup Fanned(built.bases) \subseteq DOMAIN built.config
               /\ \A n \in Masters(last_config) :
                     \/ n \in Masters(built.config)
                     \/ n \in DOMAIN doc \ Masters(doc)
                     \/ /\ topology_snapshot # Nil
                        /\ n \in DOMAIN topology_snapshot \ Masters(topology_snapshot)
<1> DEFINE under == IF topology_snapshot # Nil THEN topology_snapshot
                    ELSE WithoutPeers(last_config)
           merged == Over(doc, under)
           names == known \cup Masters(doc) \cup Masters(merged) \cup Masters(last_config)
           more == bases \cup VirtualBases(Masters(doc))
<1>1. FromDashboard(doc, known, bases) = Completed(merged, names, more)
  BY DEF FromDashboard
<1>2. IsTable(last_config) /\ IsTable(under)
  BY WithoutPeersTable DEF TypeOK
<1>3. IsTable(merged)
  BY <1>2, OverTable
<1>4. /\ DOMAIN merged = DOMAIN doc \cup DOMAIN under
      /\ \A n \in DOMAIN doc : merged[n] = doc[n]
      /\ \A n \in DOMAIN under \ DOMAIN doc : merged[n] = under[n]
  BY OverRows
<1>5. \A n \in DOMAIN merged \ Masters(merged) :
         \/ n \in DOMAIN doc \ Masters(doc)
         \/ n \in DOMAIN under \ Masters(under)
  BY <1>4 DEF Masters
<1>6. topology_snapshot = Nil => Masters(under) = Masters(last_config)
  BY <1>2, WithoutPeersTable
<1>7. names \subseteq Names /\ more \subseteq Names
  BY <1>2, <1>3, MasterNames, BaseNames
<1> HIDE DEF merged, names, more
<1>8. LET built == Completed(merged, names, more)
      IN  /\ IsTable(built.config) /\ built.bases \subseteq Names
          /\ names \cup Fanned(built.bases) \subseteq DOMAIN built.config
          /\ \A n \in names : \/ n \in Masters(built.config)
                              \/ n \in DOMAIN merged \ Masters(merged)
  BY <1>3, <1>7, CompletedType, CompletedRows
<1>9. known \subseteq names /\ Masters(last_config) \subseteq names
  BY DEF names
<1> QED
  BY <1>1, <1>5, <1>6, <1>8, <1>9

\* The CONFIG built from a topology, likewise.
LEMMA TopologyRows ==
    ASSUME TypeOK, NEW doc, IsTable(doc), NEW known \in SUBSET Names
    PROVE  LET built == FromTopology(doc, known)
           IN  /\ IsTable(built.config) /\ built.bases \subseteq Names
               /\ known \cup Fanned(built.bases) \subseteq DOMAIN built.config
               /\ \A n \in Masters(last_config) :
                     n \in Masters(built.config) \/ n \in DOMAIN doc \ Masters(doc)
<1> DEFINE names == known \cup Masters(doc) \cup Masters(last_config)
<1>1. FromTopology(doc, known) = Completed(doc, names, inject_bases)
  BY DEF FromTopology
<1>2. names \subseteq Names /\ inject_bases \subseteq Names
  BY MasterNames DEF TypeOK
<1> HIDE DEF names
<1>3. LET built == Completed(doc, names, inject_bases)
      IN  /\ IsTable(built.config) /\ built.bases \subseteq Names
          /\ names \cup Fanned(built.bases) \subseteq DOMAIN built.config
          /\ \A n \in names : \/ n \in Masters(built.config)
                              \/ n \in DOMAIN doc \ Masters(doc)
  BY <1>2, CompletedType, CompletedRows
<1>4. known \subseteq names /\ Masters(last_config) \subseteq names
  BY DEF names
<1> QED
  BY <1>1, <1>3, <1>4

\* The state kept after a CONFIG is built.
LEMMA KeptRows ==
    ASSUME TypeOK, MastersTracked, NEW built, NEW known \in SUBSET Names,
           known_masters \subseteq known,
           IsTable(built.config), built.bases \subseteq Names,
           known \cup Fanned(built.bases) \subseteq DOMAIN built.config,
           KeepConfig(built, known)
    PROVE  /\ IsTable(last_config')
           /\ known_masters' \subseteq Names /\ inject_bases' \subseteq Names
           /\ MastersTracked'
           /\ ConfigSnd(built) = Nil \/ IsTable(ConfigSnd(built))
           /\ ConfigSnd(built) # Nil =>
                 known_masters' \cup Fanned(inject_bases') \subseteq DOMAIN ConfigSnd(built)
           /\ last_config' = last_config \/ last_config' = built.config
           /\ last_config' = built.config \/ built.config = EmptyTable
<1>1. /\ inject_bases' = built.bases
      /\ known_masters' = known \cup Masters(built.config)
      /\ last_config' = IF built.config = EmptyTable THEN last_config ELSE built.config
  BY DEF KeepConfig
<1>2. Masters(built.config) \subseteq Names /\ Masters(built.config) \subseteq DOMAIN built.config
  BY MasterNames DEF Masters
<1>3. MastersTracked'
  BY <1>1 DEF MastersTracked
<1> QED
  BY <1>1, <1>2, <1>3 DEF ConfigSnd, TypeOK

-----------------------------------------------------------------------------
(* The translator: steps. *)

Inv == TypeOK /\ MastersTracked /\ KnownArePublished

\* The body of NoMasterVanishes.
NoneVanishes ==
    \A n \in Masters(last_config) : n \in Masters(last_config') \/ Redeclared(n)'

IsLive(frame) ==
    \/ frame = NoFrame
    \/ frame = BridgeSnd(frame.body) /\ IsBridgeTable(frame.body)
    \/ frame = BrdgEvent(frame.body) /\ frame.body \in Voices

\* What a call returns is typed.
LEMMA ReturnsType ==
    ASSUME NEW live, NEW config, IsLive(live), config = Nil \/ IsTable(config),
           NEW sent \in BOOLEAN, Returns(live, config, sent)
    PROVE  OutTypeOK' /\ out'.config = config /\ bridges_frame_sent' \in BOOLEAN
<1>1. PICK end \in {"ok", "dropped"} :
         out' = [live |-> live, config |-> config, end |-> end]
  BY DEF Returns
<1>2. bridges_frame_sent' \in BOOLEAN
  BY DEF Returns
<1> QED
  BY <1>1, <1>2 DEF OutTypeOK, IsLive

\* The frames that translate makes besides CONFIG_SND are live frames.
LEMMA LiveKinds ==
    /\ IsLive(NoFrame)
    /\ \A bridges : IsBridgeTable(bridges) => IsLive(BridgeSnd(bridges))
    /\ \A system \in Voices : IsLive(BrdgEvent(system))
    /\ IsBridgeTable(EmptyTable)
  BY BuiltFcn DEF IsLive, BridgeSnd, BrdgEvent, IsBridgeTable, EmptyTable

\* A call that returns nothing is typed and publishes no CONFIG.
LEMMA NothingType ==
    ASSUME TypeOK, ReturnsNothing
    PROVE  OutTypeOK' /\ out'.config = Nil /\ bridges_frame_sent' \in BOOLEAN
  BY ReturnsType, LiveKinds DEF ReturnsNothing, TypeOK

\* A call that raises is typed and publishes no CONFIG.
LEMMA RaisesType ==
    ASSUME RaisesException
    PROVE  OutTypeOK' /\ out'.config = Nil /\ bridges_frame_sent' \in BOOLEAN
  BY DEF RaisesException, Raised, OutTypeOK

\* A step that keeps last_config and publishes no CONFIG of v2 documents.
LEMMA QuietStep ==
    ASSUME MastersTracked, last_config' = last_config, known_masters \subseteq known_masters',
           out'.config = Nil \/ ~upstream_v2'
    PROVE  MastersTracked' /\ KnownArePublished' /\ NoneVanishes
  BY DEF MastersTracked, KnownArePublished, NoneVanishes

\* A step that publishes what it built, unless it is empty.
LEMMA BuiltStep ==
    ASSUME TypeOK, MastersTracked, NEW built, NEW known \in SUBSET Names,
           known_masters \subseteq known,
           IsTable(built.config), built.bases \subseteq Names,
           known \cup Fanned(built.bases) \subseteq DOMAIN built.config,
           \A n \in Masters(last_config) : n \in Masters(built.config) \/ Redeclared(n)',
           KeepConfig(built, known),
           out'.config = ConfigSnd(built)
    PROVE  MastersTracked' /\ KnownArePublished' /\ NoneVanishes
  BY KeptRows DEF KnownArePublished, NoneVanishes

\* The documents are what they should be.
LEMMA Documents ==
    /\ \A doc \in Dashboards : doc \notin {NoTable, NoTime} => IsTable(doc)
    /\ \A doc \in Topologies \cup TopologyPatches \cup V1Configs : IsTable(doc)
    /\ \A doc \in Routings \cup RoutingPatches : IsRouting(doc)
    /\ \A bridges \in V1Bridges : IsBridgeTable(bridges)
  BY DocumentTypes

\* The bases noted from a document that raised are names.
LEMMA NotedNames ==
    ASSUME NEW doc, doc = NoTime \/ IsTable(doc), NEW bases \in BasesBeforeRaise(doc)
    PROVE  bases \subseteq Names
<1>1. CASE doc = NoTime
  BY <1>1 DEF BasesBeforeRaise
<1>2. CASE doc # NoTime
  <2>1. PICK noted \in NotedBeforeRaise(doc) : bases = VirtualBases(noted)
    BY <1>2 DEF BasesBeforeRaise
  <2>2. noted \subseteq Masters(doc)
    BY DEF NotedBeforeRaise
  <2>3. noted \subseteq Names
    BY <1>2, <2>2, MasterNames
  <2> QED
    BY <2>1, <2>3, BaseNames
<1> QED
  BY <1>1, <1>2

\* STATE_SND keeps the invariant and loses no master, also when its conversion
\* raises after the document was kept.
LEMMA StateSndStep ==
    ASSUME Inv, NEW doc \in Dashboards, StateSnd(doc)
    PROVE  TypeOK' /\ MastersTracked' /\ KnownArePublished' /\ NoneVanishes
<1>1. /\ TypeOK /\ MastersTracked
      /\ doc \in {NoTable, NoTime} \/ IsTable(doc)
      /\ upstream_v2' = TRUE /\ last_dashboard_state' = doc
      /\ UNCHANGED <<topology_snapshot, routing_snapshot, expired>>
  BY Documents DEF Inv, StateSnd
<1>2. ASSUME DashboardRaises(doc), RaisesException,
             NEW bases \in BasesBeforeRaise(doc),
             inject_bases' = inject_bases \cup bases,
             UNCHANGED <<last_config, known_masters>>
      PROVE  TypeOK' /\ MastersTracked' /\ KnownArePublished' /\ NoneVanishes
  <2>1. doc = NoTime \/ IsTable(doc)
    BY <1>1, <1>2 DEF DashboardRaises
  <2>2. bases \subseteq Names
    BY <2>1, NotedNames
  <2> QED
    BY <1>1, <1>2, <2>2, RaisesType, QuietStep DEF TypeOK
<1>3. ASSUME ReturnsNothing, UNCHANGED <<last_config, known_masters, inject_bases>>,
             doc = NoTable
      PROVE  TypeOK' /\ MastersTracked' /\ KnownArePublished' /\ NoneVanishes
  BY <1>1, <1>3, NothingType, QuietStep DEF TypeOK
<1>4. ASSUME doc # NoTable, ~DashboardRaises(doc),
             LET built == FromDashboard(doc, known_masters, inject_bases)
             IN  /\ KeepConfig(built, known_masters)
                 /\ Returns(NoFrame, ConfigSnd(built), bridges_frame_sent)
      PROVE  TypeOK' /\ MastersTracked' /\ KnownArePublished' /\ NoneVanishes
  <2> DEFINE built == FromDashboard(doc, known_masters, inject_bases)
  <2>1. /\ KeepConfig(built, known_masters)
        /\ Returns(NoFrame, ConfigSnd(built), bridges_frame_sent)
    BY <1>4
  <2>2. known_masters \in SUBSET Names /\ inject_bases \in SUBSET Names
        /\ bridges_frame_sent \in BOOLEAN
    BY <1>1 DEF TypeOK
  <2>a. IsTable(doc) /\ doc # NoTime
    BY <1>1, <1>4 DEF DashboardRaises
  <2>3. /\ IsTable(built.config) /\ built.bases \subseteq Names
        /\ known_masters \cup Fanned(built.bases) \subseteq DOMAIN built.config
        /\ \A n \in Masters(last_config) :
              \/ n \in Masters(built.config)
              \/ n \in DOMAIN doc \ Masters(doc)
              \/ /\ topology_snapshot # Nil
                 /\ n \in DOMAIN topology_snapshot \ Masters(topology_snapshot)
    BY <1>1, <2>a, <2>2, DashboardRows
  <2> HIDE DEF built
  <2>4. doc \notin {Nil, NoTable, NoTime}
    BY <1>4, <2>a, TableNotNil
  <2>5. \A n \in Masters(last_config) : n \in Masters(built.config) \/ Redeclared(n)'
    BY <1>1, <2>3, <2>4 DEF Redeclared
  <2>6. /\ IsTable(last_config')
        /\ known_masters' \subseteq Names /\ inject_bases' \subseteq Names
        /\ ConfigSnd(built) = Nil \/ IsTable(ConfigSnd(built))
    BY <1>1, <2>1, <2>2, <2>3, KeptRows
  <2>7. OutTypeOK' /\ out'.config = ConfigSnd(built) /\ bridges_frame_sent' \in BOOLEAN
    BY <2>1, <2>2, <2>6, ReturnsType, LiveKinds
  <2>8. TypeOK'
    BY <1>1, <2>6, <2>7 DEF TypeOK
  <2> QED
    BY <1>1, <2>1, <2>2, <2>3, <2>5, <2>7, <2>8, BuiltStep
<1> QED
  BY <1>2, <1>3, <1>4 DEF StateSnd

\* A topology, received or merged from a delta, keeps the invariant and loses no
\* master.
LEMMA NewTopologyStep ==
    ASSUME Inv, NEW topology, IsTable(topology), NewTopology(topology)
    PROVE  TypeOK' /\ MastersTracked' /\ KnownArePublished' /\ NoneVanishes
<1> DEFINE known == known_masters \cup Masters(topology)
           built == FromTopology(topology, known)
<1>1. /\ TypeOK /\ MastersTracked
      /\ upstream_v2' = TRUE /\ topology_snapshot' = topology
      /\ UNCHANGED <<routing_snapshot, last_dashboard_state, expired>>
  BY DEF Inv, NewTopology
<1>2. known \in SUBSET Names /\ known_masters \subseteq known
  BY <1>1, MasterNames DEF TypeOK
<1>3. ASSUME RaisesException, UNCHANGED <<last_config, inject_bases>>,
             known_masters' \in {known_masters, known}
      PROVE  TypeOK' /\ MastersTracked' /\ KnownArePublished' /\ NoneVanishes
  BY <1>1, <1>2, <1>3, RaisesType, QuietStep DEF TypeOK
<1>4. ASSUME KeepConfig(built, known),
             Returns(NoFrame, ConfigSnd(built), bridges_frame_sent)
      PROVE  TypeOK' /\ MastersTracked' /\ KnownArePublished' /\ NoneVanishes
  <2>2. /\ IsTable(built.config) /\ built.bases \subseteq Names
        /\ known \cup Fanned(built.bases) \subseteq DOMAIN built.config
        /\ \A n \in Masters(last_config) :
              n \in Masters(built.config) \/ n \in DOMAIN topology \ Masters(topology)
    BY <1>1, <1>2, TopologyRows
  <2> HIDE DEF built, known
  <2>3. topology # Nil
    BY TableNotNil
  <2>4. \A n \in Masters(last_config) : n \in Masters(built.config) \/ Redeclared(n)'
    BY <1>1, <2>2, <2>3 DEF Redeclared
  <2>5. /\ IsTable(last_config')
        /\ known_masters' \subseteq Names /\ inject_bases' \subseteq Names
        /\ ConfigSnd(built) = Nil \/ IsTable(ConfigSnd(built))
    BY <1>1, <1>2, <1>4, <2>2, KeptRows
  <2>a. bridges_frame_sent \in BOOLEAN
    BY <1>1 DEF TypeOK
  <2>6. OutTypeOK' /\ out'.config = ConfigSnd(built) /\ bridges_frame_sent' \in BOOLEAN
    BY <1>4, <2>5, <2>a, ReturnsType, LiveKinds
  <2>7. TypeOK'
    BY <1>1, <2>5, <2>6 DEF TypeOK
  <2> QED
    BY <1>1, <1>2, <1>4, <2>2, <2>4, <2>6, <2>7, BuiltStep
<1> QED
  BY <1>3, <1>4 DEF NewTopology

\* So does a document without a key, which brings the CONFIG of the masters known.
LEMMA EmptyTopologyStep ==
    ASSUME Inv, EmptyTopology
    PROVE  TypeOK' /\ MastersTracked' /\ KnownArePublished' /\ NoneVanishes
<1> DEFINE built == FromTopology(EmptyTable, known_masters)
<1>1. /\ TypeOK /\ MastersTracked
      /\ upstream_v2' = TRUE /\ topology_snapshot' = Nil
      /\ UNCHANGED <<routing_snapshot, last_dashboard_state, expired>>
      /\ KeepConfig(built, known_masters)
      /\ Returns(NoFrame, ConfigSnd(built), bridges_frame_sent)
  BY DEF Inv, EmptyTopology
<1>2. known_masters \in SUBSET Names /\ bridges_frame_sent \in BOOLEAN
  BY <1>1 DEF TypeOK
<1>3. IsTable(EmptyTable) /\ DOMAIN EmptyTable = {}
  BY DEF IsTable, IsPartial, EmptyTable
<1>4. /\ IsTable(built.config) /\ built.bases \subseteq Names
      /\ known_masters \cup Fanned(built.bases) \subseteq DOMAIN built.config
      /\ \A n \in Masters(last_config) : n \in Masters(built.config)
  BY <1>1, <1>2, <1>3, TopologyRows
<1> HIDE DEF built
<1>5. /\ IsTable(last_config')
      /\ known_masters' \subseteq Names /\ inject_bases' \subseteq Names
      /\ ConfigSnd(built) = Nil \/ IsTable(ConfigSnd(built))
  BY <1>1, <1>2, <1>4, KeptRows
<1>6. OutTypeOK' /\ out'.config = ConfigSnd(built) /\ bridges_frame_sent' \in BOOLEAN
  BY <1>1, <1>2, <1>5, ReturnsType, LiveKinds
<1>7. TypeOK'
  BY <1>1, <1>5, <1>6 DEF TypeOK
<1> QED
  BY <1>1, <1>2, <1>4, <1>6, <1>7, BuiltStep

\* A routing table keeps the invariant and loses no master: BRIDGE alone, CONFIG
\* rebuilt from the last dashboard document, or an exception.
LEMMA NewRoutingStep ==
    ASSUME Inv, NEW routing, IsRouting(routing), NewRouting(routing)
    PROVE  TypeOK' /\ MastersTracked' /\ KnownArePublished' /\ NoneVanishes
<1> DEFINE known == known_masters \cup RoutingMasters(routing)
           bases == inject_bases \cup RoutingBases(routing)
           bridge == BridgeSnd(MergeUa(Keyed(routing), last_config, expired))
           doc == last_dashboard_state
           built == FromDashboard(doc, known, bases)
<1>1. /\ TypeOK /\ MastersTracked
      /\ upstream_v2' = TRUE /\ routing_snapshot' = routing
      /\ UNCHANGED <<topology_snapshot, last_dashboard_state, expired>>
  BY DEF Inv, NewRouting
<1>2. /\ known \in SUBSET Names /\ known_masters \subseteq known
      /\ bases \in SUBSET Names /\ RoutingBases(routing) \subseteq Names
      /\ doc \in {Nil, NoTable, NoTime} \/ IsTable(doc)
  BY <1>1, RoutingNames DEF TypeOK
<1>3. ASSUME RaisesException, UNCHANGED last_config,
             known_masters' \in {known_masters, known},
             NEW some \in SUBSET Names, inject_bases' = inject_bases \cup some
      PROVE  TypeOK' /\ MastersTracked' /\ KnownArePublished' /\ NoneVanishes
  BY <1>1, <1>2, <1>3, RaisesType, QuietStep DEF TypeOK
<1>4. ASSUME doc # Nil, DashboardRaises(doc), NEW more \in BasesBeforeRaise(doc)
      PROVE  RoutingBases(routing) \cup more \in SUBSET Names
  BY <1>2, <1>4, NotedNames DEF DashboardRaises
<1>5. ASSUME ~RoutingRaises(routing)
      PROVE  IsLive(bridge)
  <2>1. IsBridgeTable(Keyed(routing)) /\ IsTable(last_config)
    BY <1>1, <1>5, KeyedRouting DEF TypeOK
  <2> QED
    BY <2>1, MergeType, LiveKinds
<1>6. ASSUME ~RoutingRaises(routing), UNCHANGED last_config,
             known_masters' = known, inject_bases' = bases, Returns(bridge, Nil, TRUE)
      PROVE  TypeOK' /\ MastersTracked' /\ KnownArePublished' /\ NoneVanishes
  <2>1. IsLive(bridge)
    BY <1>5, <1>6
  <2> HIDE DEF bridge
  <2>2. OutTypeOK' /\ out'.config = Nil /\ bridges_frame_sent' \in BOOLEAN
    BY <1>6, <2>1, ReturnsType
  <2> QED
    BY <1>1, <1>2, <1>6, <2>2, QuietStep DEF TypeOK
<1>7. ASSUME ~RoutingRaises(routing), doc \notin {Nil, NoTable}, ~DashboardRaises(doc),
             KeepConfig(built, known), Returns(bridge, ConfigSnd(built), TRUE)
      PROVE  TypeOK' /\ MastersTracked' /\ KnownArePublished' /\ NoneVanishes
  <2>1. IsLive(bridge)
    BY <1>5, <1>7
  <2>2. doc \notin {Nil, NoTable, NoTime} /\ IsTable(doc)
    BY <1>2, <1>7 DEF DashboardRaises
  <2>3. /\ IsTable(built.config) /\ built.bases \subseteq Names
        /\ known \cup Fanned(built.bases) \subseteq DOMAIN built.config
        /\ \A n \in Masters(last_config) :
              \/ n \in Masters(built.config)
              \/ n \in DOMAIN doc \ Masters(doc)
              \/ /\ topology_snapshot # Nil
                 /\ n \in DOMAIN topology_snapshot \ Masters(topology_snapshot)
    BY <1>1, <1>2, <2>2, DashboardRows
  <2> HIDE DEF built, known, bases, bridge
  <2>4. \A n \in Masters(last_config) : n \in Masters(built.config) \/ Redeclared(n)'
    BY <1>1, <2>2, <2>3 DEF Redeclared
  <2>5. /\ IsTable(last_config')
        /\ known_masters' \subseteq Names /\ inject_bases' \subseteq Names
        /\ ConfigSnd(built) = Nil \/ IsTable(ConfigSnd(built))
    BY <1>1, <1>2, <1>7, <2>3, KeptRows
  <2>6. OutTypeOK' /\ out'.config = ConfigSnd(built) /\ bridges_frame_sent' \in BOOLEAN
    BY <1>7, <2>1, <2>5, ReturnsType
  <2>7. TypeOK'
    BY <1>1, <2>5, <2>6 DEF TypeOK
  <2> QED
    BY <1>1, <1>2, <1>7, <2>3, <2>4, <2>6, <2>7, BuiltStep
<1>8. inject_bases \cup (RoutingBases(routing) \cup {}) = bases
  OBVIOUS
<1> QED
  BY <1>2, <1>3, <1>4, <1>6, <1>7 DEF NewRouting

\* A voice event keeps the invariant; it only notes an inject base.
LEMMA VoiceStep ==
    ASSUME Inv, NEW system \in Voices, VoiceEventSnd(system)
    PROVE  TypeOK' /\ MastersTracked' /\ KnownArePublished' /\ NoneVanishes
<1>1. /\ TypeOK /\ MastersTracked
      /\ upstream_v2' = TRUE
      /\ inject_bases' = inject_bases \cup VirtualBases({system})
      /\ UNCHANGED <<topology_snapshot, routing_snapshot, last_config, last_dashboard_state,
                     known_masters, expired>>
  BY DEF Inv, VoiceEventSnd
<1>2. VirtualBases({system}) \subseteq Names
  BY BaseNames, DocumentTypes
<1>3. OutTypeOK' /\ out'.config = Nil /\ bridges_frame_sent' \in BOOLEAN
  BY <1>1, ReturnsType, LiveKinds, NothingType, RaisesType DEF VoiceEventSnd, TypeOK
<1> QED
  BY <1>1, <1>2, <1>3, QuietStep DEF TypeOK

\* The calls that keep the translator's documents and names.
LEMMA PlainStep ==
    ASSUME Inv, UNCHANGED stateVars, OutTypeOK', upstream_v2' \in BOOLEAN,
           bridges_frame_sent' \in BOOLEAN, expired' \subseteq PeerRows,
           out'.config = Nil \/ ~upstream_v2'
    PROVE  TypeOK' /\ MastersTracked' /\ KnownArePublished' /\ NoneVanishes
<1>1. TypeOK'
  BY DEF Inv, TypeOK, stateVars
<1> QED
  BY <1>1, QuietStep DEF Inv, stateVars

\* The translator starts in the invariant: nothing is known and nothing published.
LEMMA InvInit ==
    ASSUME Init
    PROVE  Inv
<1>1. IsTable(EmptyTable)
  BY DEF IsTable, IsPartial, EmptyTable
<1>2. OutTypeOK /\ out.config = Nil
  BY DEF Init, OutTypeOK
<1> QED
  BY <1>1, <1>2
  DEF Init, Inv, TypeOK, MastersTracked, KnownArePublished, Masters, EmptyTable

\* Every call of translate, and what happens between the calls.
LEMMA InvStep ==
    ASSUME Inv, Next
    PROVE  TypeOK' /\ MastersTracked' /\ KnownArePublished' /\ NoneVanishes
<1>0. TypeOK
  BY DEF Inv
<1>1. CASE HelloV2
  <2>1. OutTypeOK' /\ out'.config = Nil /\ bridges_frame_sent' \in BOOLEAN
    BY <1>1, ReturnsType, LiveKinds DEF HelloV2
  <2> QED
    BY <1>0, <1>1, <2>1, PlainStep DEF HelloV2, TypeOK
<1>2. CASE HelloMalformed
  BY <1>0, <1>2, RaisesType, PlainStep DEF HelloMalformed, TypeOK
<1>3. CASE TranslateOther
  <2>1. ASSUME NEW config \in V1Configs, PassthroughConfig(config)
        PROVE  TypeOK' /\ MastersTracked' /\ KnownArePublished' /\ NoneVanishes
    <3>1. OutTypeOK' /\ bridges_frame_sent' \in BOOLEAN
      BY <1>0, <2>1, Documents, ReturnsType, LiveKinds DEF PassthroughConfig, TypeOK
    <3> QED
      BY <1>0, <2>1, <3>1, PlainStep DEF PassthroughConfig, TypeOK
  <2>2. ASSUME NEW frame, IsLive(frame), PassthroughLive(frame)
        PROVE  TypeOK' /\ MastersTracked' /\ KnownArePublished' /\ NoneVanishes
    <3>1. OutTypeOK' /\ bridges_frame_sent' \in BOOLEAN
      BY <1>0, <2>2, ReturnsType DEF PassthroughLive, TypeOK
    <3> QED
      BY <1>0, <2>2, <3>1, PlainStep DEF PassthroughLive, TypeOK
  <2>3. CASE \E bridges \in V1Bridges : PassthroughLive(BridgeSnd(bridges))
    BY <2>2, <2>3, Documents, LiveKinds
  <2>4. CASE \E system \in Voices : PassthroughLive(BrdgEvent(system))
    BY <2>2, <2>4, LiveKinds
  <2>5. CASE Ignored
    BY <1>0, <2>5, NothingType, PlainStep DEF Ignored, TypeOK
  <2>6. CASE UnknownType
    BY <1>0, <2>6, NothingType, PlainStep DEF UnknownType, TypeOK
  <2>7. CASE NotAnObject
    BY <1>0, <2>7, RaisesType, PlainStep DEF NotAnObject, TypeOK
  <2>a. CASE DeltaMalformed
    BY <1>0, <2>a, RaisesType, PlainStep DEF DeltaMalformed, TypeOK
  <2>8. CASE \E doc \in Dashboards : StateSnd(doc)
    BY <2>8, StateSndStep
  <2>9. CASE \E doc \in Topologies : NewTopology(doc)
    BY <2>9, Documents, NewTopologyStep
  <2>b. CASE EmptyTopology
    BY <2>b, EmptyTopologyStep
  <2>10. CASE \E doc \in Routings : NewRouting(doc)
    BY <2>10, Documents, NewRoutingStep
  <2>11. CASE \E system \in Voices : VoiceEventSnd(system)
    BY <2>11, VoiceStep
  <2>12. ASSUME NEW patch \in TopologyPatches, TopologyDelta(patch)
         PROVE  TypeOK' /\ MastersTracked' /\ KnownArePublished' /\ NoneVanishes
    <3>1. CASE topology_snapshot = Nil
      BY <2>12, <3>1, Documents, NewTopologyStep DEF TopologyDelta
    <3>2. CASE topology_snapshot # Nil
      <4>1. IsTable(Over(patch, topology_snapshot))
        BY <1>0, <3>2, Documents, OverTable DEF TypeOK
      <4> QED
        BY <2>12, <3>2, <4>1, NewTopologyStep DEF TopologyDelta
    <3> QED
      BY <3>1, <3>2
  <2>13. ASSUME NEW patch \in RoutingPatches, RoutingDelta(patch)
         PROVE  TypeOK' /\ MastersTracked' /\ KnownArePublished' /\ NoneVanishes
    <3>1. CASE routing_snapshot = Nil
      BY <2>13, <3>1, Documents, NewRoutingStep DEF RoutingDelta
    <3>2. CASE routing_snapshot # Nil
      <4>1. IsRouting(Over(Keyed(patch), Keyed(routing_snapshot)))
        BY <1>0, <3>2, Documents, KeyedRouting, OverRouting DEF TypeOK
      <4> QED
        BY <2>13, <3>2, <4>1, NewRoutingStep DEF RoutingDelta
    <3> QED
      BY <3>1, <3>2
  <2> QED
    BY <1>3, <2>1, <2>3, <2>4, <2>5, <2>6, <2>7, <2>a, <2>8, <2>9, <2>b, <2>10, <2>11, <2>12, <2>13
    DEF TranslateOther
<1>4. CASE OnUpstreamLost
  <2>1. OutTypeOK' /\ out'.config = Nil /\ bridges_frame_sent' \in BOOLEAN
    BY <1>4, ReturnsType, LiveKinds DEF OnUpstreamLost
  <2> QED
    BY <1>0, <1>4, <2>1, PlainStep DEF OnUpstreamLost, TypeOK
<1>5. CASE \E p \in PeerRows : SessionsExpire(p)
  BY <1>0, <1>5, NothingType, PlainStep DEF SessionsExpire, TypeOK
<1> QED
  BY <1>1, <1>2, <1>3, <1>4, <1>5 DEF Next

\* A stuttering step.
LEMMA InvStutter ==
    ASSUME Inv, UNCHANGED vars
    PROVE  Inv' /\ NoneVanishes
<1>1. TypeOK'
  BY DEF Inv, TypeOK, OutTypeOK, vars, stateVars
<1> QED
  BY <1>1 DEF Inv, MastersTracked, KnownArePublished, NoneVanishes, vars, stateVars

-----------------------------------------------------------------------------
(* The translator: whose peers a CONFIG shows. *)

\* A row of a completed CONFIG is a row of the merged documents or an empty shell.
LEMMA CompletedPeers ==
    ASSUME NEW merged, NEW names, NEW bases
    PROVE  LET config == Completed(merged, names, bases).config
           IN  \A n \in DOMAIN config : \/ n \in DOMAIN merged /\ config[n] = merged[n]
                                        \/ config[n].peers = {}
<1> DEFINE shown == names \cup Fanned(bases \cup VirtualBases(names))
<1>1. Completed(merged, names, bases).config = WithShells(merged, shown)
  BY DEF Completed
<1>2. /\ DOMAIN WithShells(merged, shown) = DOMAIN merged \cup shown
      /\ \A n \in DOMAIN merged : WithShells(merged, shown)[n] = merged[n]
      /\ \A n \in shown \ DOMAIN merged : WithShells(merged, shown)[n] = Shell
  BY ShellRows
<1> HIDE DEF shown
<1>3. Shell.peers = {}
  BY DEF Shell
<1> QED
  BY <1>1, <1>2, <1>3

\* The peers of master n are those of one of the documents.
PeerOf(p, n, doc) == n \in DOMAIN doc /\ p \in doc[n].peers

\* A CONFIG built from a dashboard document shows no peer of an earlier one.
LEMMA DashboardPeers ==
    ASSUME TypeOK, NEW doc, IsTable(doc), NEW known, NEW bases
    PROVE  LET config == FromDashboard(doc, known, bases).config
           IN  \A n \in Masters(config) : \A p \in config[n].peers :
                  \/ PeerOf(p, n, doc)
                  \/ topology_snapshot # Nil /\ PeerOf(p, n, topology_snapshot)
<1> DEFINE under == IF topology_snapshot # Nil THEN topology_snapshot
                    ELSE WithoutPeers(last_config)
           merged == Over(doc, under)
           names == known \cup Masters(doc) \cup Masters(merged) \cup Masters(last_config)
           more == bases \cup VirtualBases(Masters(doc))
<1>1. FromDashboard(doc, known, bases) = Completed(merged, names, more)
  BY DEF FromDashboard
<1> HIDE DEF under
<1>2. /\ DOMAIN merged = DOMAIN doc \cup DOMAIN under
      /\ \A n \in DOMAIN doc : merged[n] = doc[n]
      /\ \A n \in DOMAIN under \ DOMAIN doc : merged[n] = under[n]
  BY OverRows
<1>3. topology_snapshot = Nil => \A n \in Masters(under) : under[n].peers = {}
  BY MasterlessPeers DEF TypeOK, under
<1> HIDE DEF merged, names, more
<1> DEFINE config == Completed(merged, names, more).config
<1>4. \A n \in DOMAIN config : \/ n \in DOMAIN merged /\ config[n] = merged[n]
                               \/ config[n].peers = {}
  BY CompletedPeers
<1> SUFFICES ASSUME NEW n \in Masters(config), NEW p \in config[n].peers
             PROVE  \/ PeerOf(p, n, doc)
                    \/ topology_snapshot # Nil /\ PeerOf(p, n, topology_snapshot)
  BY <1>1, Zenon
<1>5. n \in DOMAIN merged /\ config[n] = merged[n] /\ config[n].mode = "MASTER"
  BY <1>4 DEF Masters
<1> HIDE DEF config
<1>6. CASE n \in DOMAIN doc
  BY <1>2, <1>5, <1>6 DEF PeerOf
<1>7. CASE n \notin DOMAIN doc
  <2>1. n \in DOMAIN under /\ under[n] = config[n]
    BY <1>2, <1>5, <1>7
  <2>2. n \in Masters(under) /\ under[n].peers # {}
    BY <1>5, <2>1 DEF Masters
  <2>3. topology_snapshot # Nil /\ under = topology_snapshot
    BY <1>3, <2>2 DEF under
  <2> QED
    BY <2>1, <2>3 DEF PeerOf
<1> QED
  BY <1>6, <1>7

\* One built from a topology shows the peers of that topology.
LEMMA TopologyPeers ==
    ASSUME NEW doc, NEW known
    PROVE  LET config == FromTopology(doc, known).config
           IN  \A n \in Masters(config) : \A p \in config[n].peers : PeerOf(p, n, doc)
<1> DEFINE names == known \cup Masters(doc) \cup Masters(last_config)
           config == Completed(doc, names, inject_bases).config
<1>1. FromTopology(doc, known).config = config
  BY DEF FromTopology
<1> HIDE DEF names
<1>2. \A n \in DOMAIN config : \/ n \in DOMAIN doc /\ config[n] = doc[n]
                               \/ config[n].peers = {}
  BY CompletedPeers
<1>3. \A n \in Masters(config) : n \in DOMAIN config
  BY DEF Masters
<1> QED
  BY <1>1, <1>2, <1>3 DEF PeerOf

\* A call that publishes the CONFIG of a dashboard document.
LEMMA DashboardFresh ==
    ASSUME TypeOK, NEW doc, IsTable(doc), NEW known, NEW bases,
           doc \notin {Nil, NoTable, NoTime},
           last_dashboard_state' = doc, topology_snapshot' = topology_snapshot,
           out'.config = ConfigSnd(FromDashboard(doc, known, bases))
    PROVE  NoStalePeers'
<1> DEFINE config == FromDashboard(doc, known, bases).config
<1>1. \A n \in Masters(config) : \A p \in config[n].peers :
         \/ PeerOf(p, n, doc)
         \/ topology_snapshot # Nil /\ PeerOf(p, n, topology_snapshot)
  BY DashboardPeers
<1>2. out'.config # Nil => out'.config = config
  BY DEF ConfigSnd
<1> HIDE DEF config
<1> QED
  BY <1>1, <1>2 DEF NoStalePeers, PeerOf

\* A call that publishes the CONFIG of a topology.
LEMMA TopologyFresh ==
    ASSUME NEW doc, NEW known, doc # Nil, topology_snapshot' = doc,
           out'.config = ConfigSnd(FromTopology(doc, known))
    PROVE  NoStalePeers'
<1> DEFINE config == FromTopology(doc, known).config
<1>1. \A n \in Masters(config) : \A p \in config[n].peers : PeerOf(p, n, doc)
  BY TopologyPeers
<1>2. out'.config # Nil => out'.config = config
  BY DEF ConfigSnd
<1> HIDE DEF config
<1> QED
  BY <1>1, <1>2 DEF NoStalePeers, PeerOf

\* A call that publishes no CONFIG, or one of a v1 server.
LEMMA NothingFresh ==
    ASSUME out'.config = Nil \/ ~upstream_v2'
    PROVE  NoStalePeers'
  BY DEF NoStalePeers

\* What a call returns is what it was made to return.
LEMMA ReturnedConfig ==
    /\ \A live, config, sent : Returns(live, config, sent) => out'.config = config
    /\ ReturnsNothing => out'.config = Nil
    /\ RaisesException => out'.config = Nil
  BY DEF Returns, ReturnsNothing, RaisesException, Raised

\* STATE_SND publishes no peer that left.
LEMMA StateSndFresh ==
    ASSUME TypeOK, NEW doc \in Dashboards, StateSnd(doc)
    PROVE  NoStalePeers'
<1> DEFINE built == FromDashboard(doc, known_masters, inject_bases)
<1>1. /\ doc \in {NoTable, NoTime} \/ IsTable(doc)
      /\ last_dashboard_state' = doc /\ topology_snapshot' = topology_snapshot
  BY Documents DEF StateSnd
<1>2. \/ RaisesException
      \/ ReturnsNothing
      \/ /\ doc # NoTable /\ ~DashboardRaises(doc)
         /\ Returns(NoFrame, ConfigSnd(built), bridges_frame_sent)
  BY DEF StateSnd
<1>3. ASSUME doc # NoTable, ~DashboardRaises(doc),
             Returns(NoFrame, ConfigSnd(built), bridges_frame_sent)
      PROVE  NoStalePeers'
  <2>1. IsTable(doc) /\ doc \notin {Nil, NoTable, NoTime}
    BY <1>1, <1>3, TableNotNil DEF DashboardRaises
  <2>2. out'.config = ConfigSnd(built)
    BY <1>3, ReturnedConfig
  <2> QED
    BY <1>1, <2>1, <2>2, DashboardFresh
<1> QED
  BY <1>2, <1>3, ReturnedConfig, NothingFresh

\* A topology, received or merged.
LEMMA NewTopologyFresh ==
    ASSUME NEW topology, IsTable(topology), NewTopology(topology)
    PROVE  NoStalePeers'
<1> DEFINE built == FromTopology(topology, known_masters \cup Masters(topology))
<1>1. /\ topology_snapshot' = topology
      /\ RaisesException \/ Returns(NoFrame, ConfigSnd(built), bridges_frame_sent)
  BY DEF NewTopology
<1>2. topology # Nil
  BY TableNotNil
<1> QED
  BY <1>1, <1>2, ReturnedConfig, TopologyFresh, NothingFresh

\* A topology without a key.
LEMMA EmptyTopologyFresh ==
    ASSUME EmptyTopology
    PROVE  NoStalePeers'
<1> DEFINE built == FromTopology(EmptyTable, known_masters)
<1>1. Returns(NoFrame, ConfigSnd(built), bridges_frame_sent)
  BY DEF EmptyTopology
<1>2. \A n \in Masters(built.config) : \A p \in built.config[n].peers : PeerOf(p, n, EmptyTable)
  BY TopologyPeers
<1> HIDE DEF built
<1>3. \A n \in Masters(built.config) : built.config[n].peers = {}
  BY <1>2 DEF PeerOf, EmptyTable
<1>4. out'.config # Nil => out'.config = built.config
  BY <1>1, ReturnedConfig DEF ConfigSnd
<1> QED
  BY <1>3, <1>4 DEF NoStalePeers

\* A routing table publishes the CONFIG of the last dashboard document again.
LEMMA NewRoutingFresh ==
    ASSUME TypeOK, NEW routing, NewRouting(routing)
    PROVE  NoStalePeers'
<1> DEFINE doc == last_dashboard_state
           known == known_masters \cup RoutingMasters(routing)
           bases == inject_bases \cup RoutingBases(routing)
           bridge == BridgeSnd(MergeUa(Keyed(routing), last_config, expired))
           built == FromDashboard(doc, known, bases)
<1>1. last_dashboard_state' = doc /\ topology_snapshot' = topology_snapshot
  BY DEF NewRouting
<1>2. \/ RaisesException
      \/ Returns(bridge, Nil, TRUE)
      \/ /\ doc \notin {Nil, NoTable} /\ ~DashboardRaises(doc)
         /\ Returns(bridge, ConfigSnd(built), TRUE)
  BY DEF NewRouting
<1>3. ASSUME doc \notin {Nil, NoTable}, ~DashboardRaises(doc),
             Returns(bridge, ConfigSnd(built), TRUE)
      PROVE  NoStalePeers'
  <2>1. IsTable(doc) /\ doc \notin {Nil, NoTable, NoTime}
    BY <1>3 DEF DashboardRaises, TypeOK
  <2>2. out'.config = ConfigSnd(built)
    BY <1>3, ReturnedConfig
  <2> QED
    BY <1>1, <2>1, <2>2, DashboardFresh
<1> QED
  BY <1>2, <1>3, ReturnedConfig, NothingFresh

\* No call publishes a peer that left.
LEMMA FreshStep ==
    ASSUME TypeOK, Next
    PROVE  NoStalePeers'
<1>1. CASE HelloV2
  BY <1>1, ReturnedConfig, NothingFresh DEF HelloV2
<1>2. CASE HelloMalformed
  BY <1>2, ReturnedConfig, NothingFresh DEF HelloMalformed
<1>3. CASE TranslateOther
  <2>1. CASE \/ \E config \in V1Configs : PassthroughConfig(config)
             \/ \E bridges \in V1Bridges : PassthroughLive(BridgeSnd(bridges))
             \/ \E system \in Voices : PassthroughLive(BrdgEvent(system))
    BY <2>1, NothingFresh DEF PassthroughConfig, PassthroughLive
  <2>2. CASE Ignored \/ UnknownType \/ NotAnObject \/ DeltaMalformed
    BY <2>2, ReturnedConfig, NothingFresh
    DEF Ignored, UnknownType, NotAnObject, DeltaMalformed
  <2>3. CASE \E doc \in Dashboards : StateSnd(doc)
    BY <2>3, StateSndFresh
  <2>4. CASE \E doc \in Topologies : NewTopology(doc)
    BY <2>4, Documents, NewTopologyFresh
  <2>9. CASE EmptyTopology
    BY <2>9, EmptyTopologyFresh
  <2>5. CASE \E doc \in Routings : NewRouting(doc)
    BY <2>5, NewRoutingFresh
  <2>6. CASE \E system \in Voices : VoiceEventSnd(system)
    BY <2>6, ReturnedConfig, NothingFresh DEF VoiceEventSnd
  <2>7. ASSUME NEW patch \in TopologyPatches, TopologyDelta(patch)
        PROVE  NoStalePeers'
    <3>1. IsTable(IF topology_snapshot = Nil THEN patch ELSE Over(patch, topology_snapshot))
      BY Documents, OverTable DEF TypeOK
    <3> QED
      BY <2>7, <3>1, NewTopologyFresh DEF TopologyDelta
  <2>8. CASE \E patch \in RoutingPatches : RoutingDelta(patch)
    BY <2>8, NewRoutingFresh DEF RoutingDelta
  <2> QED
    BY <1>3, <2>1, <2>2, <2>3, <2>4, <2>5, <2>6, <2>7, <2>8, <2>9 DEF TranslateOther
<1>4. CASE OnUpstreamLost
  BY <1>4, ReturnedConfig, NothingFresh DEF OnUpstreamLost
<1>5. CASE \E p \in PeerRows : SessionsExpire(p)
  BY <1>5, ReturnedConfig, NothingFresh DEF SessionsExpire
<1> QED
  BY <1>1, <1>2, <1>3, <1>4, <1>5 DEF Next

-----------------------------------------------------------------------------
(* The translator: the same document twice. *)

\* The shells of a table depend on the rows they complete it to.
LEMMA ShellsAgree ==
    ASSUME NEW table, NEW some, NEW others,
           DOMAIN table \cup some = DOMAIN table \cup others
    PROVE  WithShells(table, some) = WithShells(table, others)
<1> DEFINE rows == [n \in DOMAIN table \cup others |->
                       IF n \in DOMAIN table THEN table[n] ELSE Shell]
<1>1. ASSUME NEW names, DOMAIN table \cup names = DOMAIN table \cup others
      PROVE  WithShells(table, names) = rows
  <2> DEFINE shells == [n \in names |-> Shell]
  <2>1. WithShells(table, names) = Over(table, shells)
    BY DEF WithShells, Shell
  <2>2. DOMAIN shells = names /\ \A n \in names : shells[n] = Shell
    OBVIOUS
  <2> HIDE DEF shells
  <2>3. Over(table, shells) = [n \in DOMAIN table \cup names |->
                                  IF n \in DOMAIN table THEN table[n] ELSE shells[n]]
    BY <2>2 DEF Over
  <2> QED
    BY <1>1, <2>1, <2>2, <2>3
<1> QED
  BY <1>1

\* A table that has the rows needs no shells.
LEMMA ShellsNone ==
    ASSUME NEW table, IsTable(table), NEW names, names \subseteq DOMAIN table
    PROVE  WithShells(table, names) = table
<1>1. /\ DOMAIN WithShells(table, names) = DOMAIN table
      /\ \A n \in DOMAIN table : WithShells(table, names)[n] = table[n]
  BY ShellRows
<1>2. table = [n \in DOMAIN table |-> table[n]]
  BY DEF IsTable, IsPartial
<1>3. WithShells(table, names)
         = [n \in DOMAIN WithShells(table, names) |-> WithShells(table, names)[n]]
  BY DEF WithShells, Over
<1> QED
  BY <1>1, <1>2, <1>3

\* The slots of known bases make no other base known.
LEMMA FannedBases ==
    ASSUME NEW bases \in SUBSET Names
    PROVE  VirtualBases(Fanned(bases)) \subseteq bases
<1> SUFFICES ASSUME NEW b \in bases, NEW n \in Fan[b], VirtualBase[n] # Nil
             PROVE  VirtualBase[n] \in bases
  BY DEF VirtualBases, Fanned
<1> QED
  BY FanOfBase

\* The bases of names, taken together or one set after the other.
LEMMA BasesTogether ==
    ASSUME NEW some, NEW others
    PROVE  /\ VirtualBases(some \cup others) = VirtualBases(some) \cup VirtualBases(others)
           /\ some \subseteq others => VirtualBases(some) \subseteq VirtualBases(others)
  BY DEF VirtualBases

\* FromDashboard with the state it reads as parameters: the merged documents, the
\* names that get a shell, and the CONFIG with its bases.
Merged(doc, topology, last) ==
    IF topology # Nil THEN Over(doc, topology) ELSE Over(doc, WithoutPeers(last))

NamesIn(doc, known, topology, last) ==
    known \cup Masters(doc) \cup Masters(Merged(doc, topology, last)) \cup Masters(last)

BasesIn(doc, known, bases, topology, last) ==
    bases \cup VirtualBases(NamesIn(doc, known, topology, last))

RowsIn(doc, known, bases, topology, last) ==
    NamesIn(doc, known, topology, last) \cup Fanned(BasesIn(doc, known, bases, topology, last))

Built(doc, known, bases, topology, last) ==
    Completed(Merged(doc, topology, last), NamesIn(doc, known, topology, last),
              bases \cup VirtualBases(Masters(doc)))

\* last_config once a CONFIG was built.
Kept(config, last) == IF config = EmptyTable THEN last ELSE config

\* The CONFIG of the same document in the state that one, built from it, left behind.
Again(doc, one, known, topology, last) ==
    Built(doc, known \cup Masters(one.config), one.bases, topology, Kept(one.config, last))

\* The bases and the rows of such a CONFIG.
LEMMA BuiltRows ==
    ASSUME NEW doc, NEW known, NEW bases, NEW topology, NEW last
    PROVE  /\ Built(doc, known, bases, topology, last).bases
                 = BasesIn(doc, known, bases, topology, last)
           /\ Built(doc, known, bases, topology, last).config
                 = WithShells(Merged(doc, topology, last),
                              RowsIn(doc, known, bases, topology, last))
<1> DEFINE names == NamesIn(doc, known, topology, last)
           more == bases \cup VirtualBases(Masters(doc))
           merged == Merged(doc, topology, last)
<1>1. Built(doc, known, bases, topology, last) = Completed(merged, names, more)
  BY DEF Built
<1>a. Masters(doc) \subseteq names
  BY DEF NamesIn
<1>b. /\ BasesIn(doc, known, bases, topology, last) = bases \cup VirtualBases(names)
      /\ RowsIn(doc, known, bases, topology, last)
            = names \cup Fanned(bases \cup VirtualBases(names))
  BY DEF BasesIn, RowsIn
<1> HIDE DEF names, merged
<1>2. VirtualBases(Masters(doc)) \subseteq VirtualBases(names)
  BY <1>a, BasesTogether
<1>3. more \cup VirtualBases(names) = bases \cup VirtualBases(names)
  BY <1>2
<1> HIDE DEF more
<1>4. /\ Completed(merged, names, more).bases = bases \cup VirtualBases(names)
      /\ Completed(merged, names, more).config
            = WithShells(merged, names \cup Fanned(bases \cup VirtualBases(names)))
  BY <1>3 DEF Completed
<1> QED
  BY <1>1, <1>4, <1>b DEF merged

\* The masters of a table with shells: its own masters and the new rows.
LEMMA ShellMasters ==
    ASSUME NEW table, NEW names
    PROVE  /\ Masters(WithShells(table, names)) \subseteq Masters(table) \cup names
           /\ Masters(table) \subseteq Masters(WithShells(table, names))
           /\ names \ DOMAIN table \subseteq Masters(WithShells(table, names))
<1>1. /\ DOMAIN WithShells(table, names) = DOMAIN table \cup names
      /\ \A n \in DOMAIN table : WithShells(table, names)[n] = table[n]
      /\ \A n \in names \ DOMAIN table : n \in Masters(WithShells(table, names))
  BY ShellRows
<1> QED
  BY <1>1 DEF Masters

\* A CONFIG built without a topology from the previous one holds the document's rows
\* and no peers of the masters that the document omits: merged with the document
\* again, it stays as it is.
LEMMA MergedAgain ==
    ASSUME NEW doc, IsTable(doc), NEW last, IsTable(last), NEW names \in SUBSET Names
    PROVE  LET config == WithShells(Over(doc, WithoutPeers(last)), names)
           IN  Over(doc, WithoutPeers(config)) = config
<1> DEFINE under == WithoutPeers(last)
           merged == Over(doc, under)
           config == WithShells(merged, names)
<1>1. IsTable(under) /\ DOMAIN under = DOMAIN last
  BY WithoutPeersTable
<1>2. \A n \in Masters(under) : under[n].peers = {}
  BY MasterlessPeers
<1> HIDE DEF under
<1>3. /\ DOMAIN merged = DOMAIN doc \cup DOMAIN under
      /\ \A n \in DOMAIN doc : merged[n] = doc[n]
      /\ \A n \in DOMAIN under \ DOMAIN doc : merged[n] = under[n]
  BY OverRows
<1>4. IsTable(merged)
  BY <1>1, OverTable
<1> HIDE DEF merged
<1>5. /\ DOMAIN config = DOMAIN merged \cup names
      /\ \A n \in DOMAIN merged : config[n] = merged[n]
      /\ \A n \in names \ DOMAIN merged : config[n] = Shell
  BY ShellRows
<1>6. IsTable(config)
  BY <1>4, ShellsTable
<1> HIDE DEF config
<1>7. \A n \in DOMAIN config \ DOMAIN doc : config[n].mode = "MASTER" => config[n].peers = {}
  <2> SUFFICES ASSUME NEW n \in DOMAIN config \ DOMAIN doc, config[n].mode = "MASTER"
               PROVE  config[n].peers = {}
    OBVIOUS
  <2>1. CASE n \in DOMAIN merged
    <3>1. n \in DOMAIN under /\ config[n] = under[n]
      BY <1>3, <1>5, <2>1
    <3>2. n \in Masters(under)
      BY <3>1 DEF Masters
    <3> QED
      BY <1>2, <3>1, <3>2
  <2>2. CASE n \notin DOMAIN merged
    BY <1>5, <2>2 DEF Shell
  <2> QED
    BY <2>1, <2>2
<1>8. \A n \in DOMAIN config \ DOMAIN doc : WithoutPeers(config)[n] = config[n]
  <2> SUFFICES ASSUME NEW n \in DOMAIN config \ DOMAIN doc
               PROVE  WithoutPeers(config)[n] = config[n]
    OBVIOUS
  <2>1. config[n] \in Entries
    BY <1>6 DEF IsTable, IsPartial
  <2>2. config[n].mode = "MASTER" => [config[n] EXCEPT !.peers = {}] = config[n]
    BY <1>7, <2>1 DEF Entries
  <2> QED
    BY <2>2 DEF WithoutPeers
<1>9. DOMAIN WithoutPeers(config) = DOMAIN config
  BY DEF WithoutPeers
<1>10. \A n \in DOMAIN doc : n \in DOMAIN config /\ config[n] = doc[n]
  BY <1>3, <1>5
<1>11. Over(doc, WithoutPeers(config)) = [n \in DOMAIN config |-> config[n]]
  BY <1>8, <1>9, <1>10 DEF Over
<1>12. config = [n \in DOMAIN config |-> config[n]]
  BY <1>6 DEF IsTable, IsPartial
<1>13. Over(doc, WithoutPeers(config)) = config
  BY <1>11, <1>12
<1> QED
  BY <1>13 DEF config, merged, under

\* A CONFIG built from a dashboard document is built again from the same document and
\* the state it left behind.
LEMMA BuiltTwice ==
    ASSUME NEW doc, IsTable(doc),
           NEW known \in SUBSET Names, NEW bases \in SUBSET Names,
           NEW topology, topology = Nil \/ IsTable(topology),
           NEW last, IsTable(last)
    PROVE  Again(doc, Built(doc, known, bases, topology, last), known, topology, last)
              = Built(doc, known, bases, topology, last)
<1> DEFINE one == Built(doc, known, bases, topology, last)
           merged == Merged(doc, topology, last)
           names == NamesIn(doc, known, topology, last)
           shown == RowsIn(doc, known, bases, topology, last)
           kept == Kept(one.config, last)
           known2 == known \cup Masters(one.config)
           again == Merged(doc, topology, kept)
           names2 == NamesIn(doc, known2, topology, kept)
           two == Built(doc, known2, one.bases, topology, kept)
<1>0. /\ one.bases = BasesIn(doc, known, bases, topology, last)
      /\ one.config = WithShells(merged, shown)
  BY BuiltRows
<1>e. shown = names \cup Fanned(one.bases)
  BY <1>0 DEF RowsIn
<1>1. one.bases = bases \cup VirtualBases(names) /\ one.config = WithShells(merged, shown)
  BY <1>0 DEF BasesIn
<1>2. IsTable(WithoutPeers(last)) /\ DOMAIN WithoutPeers(last) = DOMAIN last
  BY WithoutPeersTable
<1>3. IsTable(merged)
  BY <1>2, OverTable DEF Merged
<1>a. names = known \cup Masters(doc) \cup Masters(merged) \cup Masters(last)
  BY DEF NamesIn
<1>b. names2 = known \cup Masters(one.config) \cup Masters(doc) \cup Masters(again)
                    \cup Masters(kept)
  BY DEF NamesIn
<1>c. /\ topology = Nil => merged = Over(doc, WithoutPeers(last))
      /\ topology = Nil => again = Over(doc, WithoutPeers(kept))
      /\ topology # Nil => again = merged
  BY DEF Merged
<1>d. kept = IF one.config = EmptyTable THEN last ELSE one.config
  BY DEF Kept
<1> HIDE DEF one, kept, known2
<1>f. /\ two.bases = BasesIn(doc, known2, one.bases, topology, kept)
      /\ two.config = WithShells(again, RowsIn(doc, known2, one.bases, topology, kept))
  BY BuiltRows
<1>6. /\ two.bases = one.bases \cup VirtualBases(names2)
      /\ two.config = WithShells(again, names2 \cup Fanned(two.bases))
  BY <1>f DEF BasesIn, RowsIn
<1>j. /\ one = [config |-> one.config, bases |-> one.bases]
      /\ two = [config |-> two.config, bases |-> two.bases]
  BY DEF Built, Completed, one
<1> HIDE DEF merged, names, shown, again, names2, two
<1>4. names \in SUBSET Names
  BY <1>3, <1>a, MasterNames
<1>5. one.bases \in SUBSET Names /\ shown \in SUBSET Names
  BY <1>1, <1>4, <1>e, BaseNames
<1>i. /\ Masters(WithShells(merged, shown)) \subseteq Masters(merged) \cup shown
      /\ shown \ DOMAIN merged \subseteq Masters(WithShells(merged, shown))
  BY ShellMasters
<1>7. Masters(one.config) \subseteq shown /\ shown \ DOMAIN merged \subseteq Masters(one.config)
  BY <1>1, <1>a, <1>e, <1>i
<1>g. DOMAIN WithShells(merged, shown) = DOMAIN merged \cup shown
  BY ShellRows
<1>h. IsTable(WithShells(merged, shown))
  BY <1>3, <1>5, ShellsTable
<1>8. IsTable(one.config) /\ DOMAIN one.config = DOMAIN merged \cup shown
  BY <1>1, <1>g, <1>h
<1>9. Masters(kept) \subseteq shown
  BY <1>7, <1>a, <1>d, <1>e
<1>10. ASSUME topology = Nil
       PROVE  again = one.config
  <2>1. merged = Over(doc, WithoutPeers(last))
    BY <1>10, <1>c
  <2>a. DOMAIN merged = DOMAIN doc \cup DOMAIN WithoutPeers(last)
    BY <2>1, OverRows
  <2>2. DOMAIN last \subseteq DOMAIN one.config
    BY <2>a, <1>2, <1>8
  <2>3. one.config = EmptyTable => last = EmptyTable
    <3>1. ASSUME DOMAIN last = {}
          PROVE  last = EmptyTable
      <4>1. last = [n \in DOMAIN last |-> last[n]]
        BY DEF IsTable, IsPartial
      <4> QED
        BY <3>1, <4>1 DEF EmptyTable
    <3>2. DOMAIN EmptyTable = {}
      BY DEF EmptyTable
    <3> QED
      BY <2>2, <3>1, <3>2
  <2>4. kept = one.config
    BY <2>3, <1>d
  <2>5. Over(doc, WithoutPeers(one.config)) = one.config
    BY <2>1, <1>1, <1>5, MergedAgain
  <2> QED
    BY <1>10, <1>c, <2>4, <2>5
<1>11. again = merged \/ again = one.config
  BY <1>10, <1>c
<1>12. names2 \subseteq shown
  BY <1>7, <1>9, <1>11, <1>a, <1>b, <1>e
<1>13. VirtualBases(shown) \subseteq one.bases
  BY <1>1, <1>5, <1>e, BasesTogether, FannedBases
<1>14. VirtualBases(names2) \subseteq VirtualBases(shown)
  BY <1>12, BasesTogether
<1>15. two.bases = one.bases
  BY <1>6, <1>13, <1>14
<1>16. CASE again = one.config
  <2>1. names2 \cup Fanned(one.bases) \subseteq DOMAIN one.config
    BY <1>8, <1>12, <1>e
  <2>2. WithShells(one.config, names2 \cup Fanned(one.bases)) = one.config
    BY <1>8, <2>1, ShellsNone
  <2>3. two.config = one.config
    BY <1>6, <1>15, <1>16, <2>2
  <2> QED
    BY <1>15, <2>3, <1>j DEF one, two, known2, kept, Again
<1>17. CASE again = merged
  <2>1. DOMAIN merged \cup (names2 \cup Fanned(one.bases)) = DOMAIN merged \cup shown
    BY <1>7, <1>12, <1>b, <1>e
  <2>2. WithShells(merged, names2 \cup Fanned(one.bases)) = WithShells(merged, shown)
    BY <2>1, ShellsAgree
  <2>3. two.config = one.config
    BY <1>1, <1>6, <1>15, <1>17, <2>2
  <2> QED
    BY <1>15, <2>3, <1>j DEF one, two, known2, kept, Again
<1> QED
  BY <1>11, <1>16, <1>17

\* The body of StateIsIdempotent.
PublishesTheSame ==
    \A doc \in Dashboards \ {NoTable} :
        StateSnd(doc) /\ out'.end # "raised" =>
            /\ ConfigSnd(FromDashboard(doc, known_masters, inject_bases))' = out'.config
            /\ FromDashboard(doc, known_masters, inject_bases)'.bases = inject_bases'

\* A STATE_SND that does not raise leaves a state in which it publishes the same.
LEMMA SameStep ==
    ASSUME TypeOK
    PROVE  PublishesTheSame
<1> SUFFICES ASSUME NEW doc \in Dashboards \ {NoTable}, StateSnd(doc), out'.end # "raised"
             PROVE  /\ ConfigSnd(FromDashboard(doc, known_masters, inject_bases))' = out'.config
                    /\ FromDashboard(doc, known_masters, inject_bases)'.bases = inject_bases'
  BY DEF PublishesTheSame
<1> DEFINE one == Built(doc, known_masters, inject_bases, topology_snapshot, last_config)
           two == Built(doc, known_masters', inject_bases', topology_snapshot, last_config')
<1>1. FromDashboard(doc, known_masters, inject_bases) = one
  BY DEF FromDashboard, Built, Merged, NamesIn
<1>2. ~DashboardRaises(doc) /\ topology_snapshot' = topology_snapshot
      /\ KeepConfig(one, known_masters)
      /\ Returns(NoFrame, ConfigSnd(one), bridges_frame_sent)
  BY <1>1 DEF StateSnd, RaisesException, Raised
<1>3. FromDashboard(doc, known_masters, inject_bases)' = two
  BY <1>2 DEF FromDashboard, Built, Merged, NamesIn
<1>4. IsTable(doc)
  BY <1>2, Documents DEF DashboardRaises
<1>5. /\ inject_bases' = one.bases
      /\ known_masters' = known_masters \cup Masters(one.config)
      /\ last_config' = Kept(one.config, last_config)
  BY <1>2 DEF KeepConfig, Kept
<1>6. /\ known_masters \in SUBSET Names /\ inject_bases \in SUBSET Names
      /\ topology_snapshot = Nil \/ IsTable(topology_snapshot)
      /\ IsTable(last_config)
  BY DEF TypeOK
<1>a. two = Again(doc, one, known_masters, topology_snapshot, last_config)
  BY <1>5 DEF Again
<1> HIDE DEF two
<1>b. Again(doc, one, known_masters, topology_snapshot, last_config) = one
  BY <1>4, <1>6, BuiltTwice
<1> HIDE DEF one
<1>7. two = one
  BY <1>a, <1>b
<1>8. out'.config = ConfigSnd(one)
  BY <1>2, ReturnedConfig
<1>9. ConfigSnd(FromDashboard(doc, known_masters, inject_bases))' = ConfigSnd(two)
  BY <1>3 DEF ConfigSnd
<1> QED
  BY <1>3, <1>5, <1>7, <1>8, <1>9 DEF ConfigSnd

-----------------------------------------------------------------------------
(* The translator: theorems. *)

\* The inductive invariant of the translator holds for every sequence of frames,
\* exceptions and link losses: types, the tracked masters and the published rows.
THEOREM MapperInvariant == Spec => []Inv
<1>1. Init => Inv
  BY InvInit
<1>2. Inv /\ [Next]_vars => Inv'
  BY InvStep, InvStutter DEF Inv
<1> QED
  BY <1>1, <1>2, PTL DEF Spec

\* The translator's state and what it returns keep their types (TypeOK).
THEOREM MapperTypeCorrect == Spec => []TypeOK
<1>1. Inv => TypeOK
  BY DEF Inv
<1> QED
  BY <1>1, MapperInvariant, PTL

\* Every master published from v2 documents is known for good, and every CONFIG built
\* from them has a row for all that is known: for any network, any documents, any order
\* of frames, exceptions and link losses.
THEOREM KnownMastersPublished == Spec => [](MastersTracked /\ KnownArePublished)
<1>1. Inv => MastersTracked /\ KnownArePublished
  BY DEF Inv
<1> QED
  BY <1>1, MapperInvariant, PTL

\* A published master only leaves the master set when a document in force declares it
\* to be something else.
THEOREM MastersStay == Spec => NoMasterVanishes
<1>1. Inv /\ [Next]_vars => NoneVanishes
  BY InvStep, InvStutter
<1>2. Inv /\ [Next]_vars => [NoneVanishes]_vars
  BY <1>1
<1>3. Spec => [][NoneVanishes]_vars
  BY <1>2, MapperInvariant, PTL DEF Spec
<1> QED
  BY <1>3 DEF NoMasterVanishes, NoneVanishes

\* Every master published from v2 documents is in known_masters for good
\* (MastersTracked).
THEOREM MastersTrackedAlways == Spec => []MastersTracked
<1>1. Inv => MastersTracked
  BY DEF Inv
<1> QED
  BY <1>1, MapperInvariant, PTL

\* No CONFIG built from v2 documents shows a peer of a master that the last dashboard
\* document and the last topology do not have (NoStalePeers).
THEOREM DepartedPeersGone == Spec => []NoStalePeers
<1>1. Init => NoStalePeers
  BY DEF Init, NoStalePeers
<1>2. TypeOK /\ NoStalePeers /\ [Next]_vars => NoStalePeers'
  BY FreshStep DEF NoStalePeers, vars, stateVars
<1> QED
  BY <1>1, <1>2, MapperTypeCorrect, PTL DEF Spec

\* The CONFIG of a dashboard document is a fixed point: whatever STATE_SND publishes,
\* the same document publishes again, and makes no further base known
\* (StateIsIdempotent).
THEOREM SameDocumentSameConfig == Spec => StateIsIdempotent
<1>1. TypeOK /\ [Next]_vars => [PublishesTheSame]_vars
  BY SameStep
<1>2. Spec => [][PublishesTheSame]_vars
  BY <1>1, MapperTypeCorrect, PTL DEF Spec
<1> QED
  BY <1>2 DEF StateIsIdempotent, PublishesTheSame

-----------------------------------------------------------------------------
(* The translator inside the composition. *)

\* Every step of the composition is a step of the translator or none of it; an
\* exception of the log summary looks like one of a frame that is no JSON object.
LEMMA TranslatorStep ==
    ASSUME [ProxyNext]_allVars
    PROVE  [Next]_vars
<1>1. CASE UpstreamFrame
  BY <1>1 DEF UpstreamFrame, SummaryRaises, Next, TranslateOther, NotAnObject
<1>2. CASE ConnectionDropped
  BY <1>2 DEF ConnectionDropped, Next
<1>3. CASE ProxyAlone \/ UNCHANGED allVars
  BY <1>3 DEF ProxyAlone, allVars, translatorVars, vars
<1>4. CASE TimePasses
  BY <1>4 DEF TimePasses, Next
<1> QED
  BY <1>1, <1>2, <1>3, <1>4 DEF ProxyNext

\* So the translator's invariant holds in the composition.
LEMMA TranslatorInvariant == ProxySpec => []Inv
<1>1. ProxyInit => Init
  BY DEF ProxyInit
<1>2. [ProxyNext]_allVars => [Next]_vars
  BY TranslatorStep
<1>3. ProxySpec => Spec
  BY <1>1, <1>2, PTL DEF ProxySpec, Spec
<1> QED
  BY <1>3, MapperInvariant, PTL

\* The bodies that may be published are all CONFIGs and all BRIDGEs over the names,
\* keys and peer rows of the network, whatever these are.
EveryBody ==
    /\ Configs = UNION {[S -> Entries] : S \in SUBSET Names}
    /\ Bridges = UNION {[S -> UNION {[T -> BOOLEAN] : T \in SUBSET Names}] :
                          S \in SUBSET Keys}

\* Then every table is a CONFIG, and every bridge table a BRIDGE.
LEMMA BodiesAreTables ==
    ASSUME EveryBody
    PROVE  /\ \A config : IsTable(config) => config \in Configs
           /\ \A bridges : IsBridgeTable(bridges) => bridges \in Bridges
<1>1. ASSUME NEW config, IsTable(config)
      PROVE  config \in Configs
  BY <1>1 DEF EveryBody, IsTable, IsPartial
<1>2. ASSUME NEW bridges, IsBridgeTable(bridges)
      PROVE  bridges \in Bridges
  <2> DEFINE Legs == UNION {[T -> BOOLEAN] : T \in SUBSET Names}
             S == DOMAIN bridges
  <2>1. \A k \in S : bridges[k] \in Legs
    BY <1>2 DEF IsBridgeTable, IsPartial
  <2> HIDE DEF Legs
  <2>2. bridges \in [S -> Legs] /\ S \in SUBSET Keys
    BY <1>2, <2>1 DEF IsBridgeTable, IsFcn
  <2>3. Bridges = UNION {[T -> Legs] : T \in SUBSET Keys}
    BY DEF EveryBody, Legs
  <2> QED
    BY <2>2, <2>3
<1> QED
  BY <1>1, <1>2

\* What translate returned is what the use cases take from any translator.
LEMMA TranslatedType ==
    ASSUME EveryBody, OutTypeOK'
    PROVE  /\ Translated \in Proxy!Outputs
           /\ out'.config \in Configs \cup {Nil}
<1>1. out'.config \in Configs \cup {Nil}
  BY BodiesAreTables DEF OutTypeOK
<1>2. CASE out'.live = NoFrame
  BY <1>1, <1>2 DEF Translated, Proxy!Outputs
<1>3. CASE out'.live = BridgeSnd(out'.live.body) /\ IsBridgeTable(out'.live.body)
  <2>1. out'.live.body \in Bridges
    BY <1>3, BodiesAreTables
  <2>2. out'.live \in Proxy!BridgeFrames
    BY <1>3, <2>1 DEF BridgeSnd, Proxy!BridgeFrames
  <2> QED
    BY <1>1, <2>2 DEF Translated, Proxy!Outputs
<1>4. CASE out'.live = BrdgEvent(out'.live.body) /\ out'.live.body \in Voices
  <2>1. out'.live \in Proxy!EventFrames
    BY <1>4 DEF BrdgEvent, Proxy!EventFrames
  <2> QED
    BY <1>1, <2>1 DEF Translated, Proxy!Outputs
<1> QED
  BY <1>1, <1>2, <1>3, <1>4 DEF OutTypeOK

\* Merging sessions keeps a body a body.
LEMMA MergedBody ==
    ASSUME EveryBody, NEW bridges \in Bridges, NEW config \in Configs, NEW gone
    PROVE  MergeUa(bridges, config, gone) \in Bridges
  BY MergeType, BodyTypes, BodiesAreTables

\* What is cached is a body or nothing.
CacheType == snapshot \in [config : Configs \cup {Nil}, bridge : Bridges \cup {Nil}]

\* The BRIDGE cached once the live frame of a call is in.
LEMMA BridgeAfterBody ==
    ASSUME CacheType, EveryBody, OutTypeOK'
    PROVE  /\ Proxy!BridgeAfter(Translated.live) \in Bridges \cup {Nil}
           /\ \/ Proxy!BridgeAfter(Translated.live) = snapshot.bridge
                 /\ ~(out'.live = BridgeSnd(out'.live.body) /\ IsBridgeTable(out'.live.body))
              \/ /\ out'.live = BridgeSnd(out'.live.body) /\ IsBridgeTable(out'.live.body)
                 /\ Proxy!BridgeAfter(Translated.live) = out'.live.body
                 /\ out'.live.body \in Bridges
<1>1. CASE out'.live = NoFrame
  BY <1>1 DEF Translated, Proxy!BridgeAfter, CacheType, NoFrame, BridgeSnd
<1>2. CASE out'.live = BridgeSnd(out'.live.body) /\ IsBridgeTable(out'.live.body)
  <2>1. out'.live # NoFrame /\ out'.live.op = "BRIDGE_SND"
    BY <1>2 DEF NoFrame, BridgeSnd
  <2>2. Translated.live = <<out'.live>>
    BY <2>1 DEF Translated
  <2>3. Proxy!BridgeAfter(Translated.live) = out'.live.body
    BY <2>1, <2>2 DEF Proxy!BridgeAfter
  <2> QED
    BY <1>2, <2>3, BodiesAreTables
<1>3. CASE out'.live = BrdgEvent(out'.live.body) /\ out'.live.body \in Voices
  <2>1. out'.live.op = "EVENT"
    BY <1>3 DEF BrdgEvent
  <2>2. Translated.live \in {<<>>, <<out'.live>>}
    BY DEF Translated
  <2>3. Proxy!BridgeAfter(Translated.live) = snapshot.bridge
    BY <2>1, <2>2 DEF Proxy!BridgeAfter
  <2>4. ~(out'.live = BridgeSnd(out'.live.body))
    BY <2>1 DEF BridgeSnd
  <2> QED
    BY <2>3, <2>4 DEF CacheType
<1> QED
  BY <1>1, <1>2, <1>3 DEF OutTypeOK

\* The ways one frame can end: nothing is published, the live frame alone, the
\* live frame and an exception, or the live frame, the refreshed BRIDGE and the
\* CONFIG.
LEMMA PublishCases ==
    ASSUME NEW hello, Publish(hello)
    PROVE  LET bridge == Proxy!BridgeAfter(Translated.live)
           IN  \/ /\ out'.end = "raised" /\ Proxy!TranslateRaises
                  /\ snapshot' = snapshot
               \/ /\ out'.end = "ok" /\ out'.config = Nil
                  /\ snapshot' = [snapshot EXCEPT !.bridge = bridge]
               \/ /\ out'.end = "dropped" /\ Proxy!PublishRaises(Translated)
                  /\ snapshot' = [snapshot EXCEPT !.bridge = bridge]
               \/ /\ out'.end = "ok" /\ out'.config # Nil
                  /\ Proxy!PublishConfig(Translated, Refreshed(bridge, out'.config))
                  /\ snapshot' = [config |-> out'.config,
                                  bridge |-> Refreshed(bridge, out'.config)]
  BY DEF Publish, Proxy!TranslateRaises, Proxy!PublishLive, Proxy!PublishConfig,
         Proxy!PublishRaises, Translated, Proxy!cacheVars

\* Whatever a frame does to the cache, it keeps its type.
LEMMA CacheStep ==
    ASSUME EveryBody, CacheType, OutTypeOK', NEW hello, Publish(hello)
    PROVE  CacheType'
<1> DEFINE bridge == Proxy!BridgeAfter(Translated.live)
<1>1. bridge \in Bridges \cup {Nil} /\ out'.config \in Configs \cup {Nil}
  BY BridgeAfterBody, TranslatedType
<1>2. out'.config # Nil => Refreshed(bridge, out'.config) \in Bridges \cup {Nil}
  BY <1>1, MergedBody DEF Refreshed
<1>3. \/ snapshot' = snapshot
      \/ snapshot' = [snapshot EXCEPT !.bridge = bridge]
      \/ /\ out'.config # Nil
         /\ snapshot' = [config |-> out'.config, bridge |-> Refreshed(bridge, out'.config)]
  BY PublishCases
<1> HIDE DEF bridge
<1> QED
  BY <1>1, <1>2, <1>3 DEF CacheType

\* A frame of the composition is a frame of the abstract proxy.
LEMMA PublishImplements ==
    ASSUME EveryBody, CacheType, Inv', link = "up", NEW hello \in BOOLEAN, Publish(hello),
           hello => out'.live = NoFrame \/ out'.live = BridgeSnd(EmptyTable)
    PROVE  Proxy!HandleUpstreamFrame
<1> DEFINE bridge == Proxy!BridgeAfter(Translated.live)
<1>1. Translated \in Proxy!Outputs /\ upstream_v2' \in BOOLEAN
  BY TranslatedType DEF Inv, TypeOK
<1>2. bridge \in Bridges \cup {Nil} /\ out'.config \in Configs \cup {Nil}
  BY BridgeAfterBody, TranslatedType DEF Inv, TypeOK
<1>3. out'.config # Nil => Refreshed(bridge, out'.config) \in Bridges \cup {Nil}
  BY <1>2, MergedBody DEF Refreshed
<1>4. hello => \A i \in DOMAIN Translated.live : Translated.live[i] \in Proxy!BridgeFrames
  <2>1. CASE out'.live = NoFrame
    BY <2>1 DEF Translated
  <2>2. CASE out'.live = BridgeSnd(EmptyTable)
    <3>1. EmptyTable \in Bridges
      BY LiveKinds, BodiesAreTables
    <3>2. out'.live \in Proxy!BridgeFrames
      BY <2>2, <3>1 DEF BridgeSnd, Proxy!BridgeFrames
    <3> QED
      BY <3>2 DEF Translated
  <2> QED
    BY <2>1, <2>2
<1>5. \/ Proxy!TranslateRaises
      \/ Proxy!PublishLive(Translated, hello)
      \/ out'.config # Nil /\ Proxy!PublishConfig(Translated, Refreshed(bridge, out'.config))
      \/ Proxy!PublishRaises(Translated)
  BY DEF Publish
<1> HIDE DEF bridge
<1>6. \/ \E h \in BOOLEAN :
            /\ h => \A i \in DOMAIN Translated.live : Translated.live[i] \in Proxy!BridgeFrames
            /\ Proxy!PublishLive(Translated, h)
      \/ \E enriched \in Bridges \cup {Nil} : Proxy!PublishConfig(Translated, enriched)
      \/ Proxy!PublishRaises(Translated)
      \/ Proxy!TranslateRaises
  BY <1>3, <1>4, <1>5
<1> QED
  BY <1>1, <1>6 DEF Proxy!HandleUpstreamFrame

\* A HELLO brings nothing or an empty BRIDGE.
LEMMA HelloOutput ==
    ASSUME HelloV2 \/ HelloMalformed \/ Ignored
    PROVE  out'.live = NoFrame \/ out'.live = BridgeSnd(EmptyTable)
  BY DEF HelloV2, HelloMalformed, Ignored, ReturnsNothing, Returns, RaisesException, Raised

\* One call of stringReceived, in the composition and in the abstract proxy.
LEMMA FrameImplements ==
    ASSUME EveryBody, CacheType, Inv', UpstreamFrame
    PROVE  CacheType' /\ Proxy!HandleUpstreamFrame
<1>1. PICK hello \in BOOLEAN :
         /\ Publish(hello)
         /\ hello => out'.live = NoFrame \/ out'.live = BridgeSnd(EmptyTable)
  <2>1. CASE (HelloV2 \/ HelloMalformed \/ Ignored) /\ Publish(TRUE)
    BY <2>1, HelloOutput
  <2>2. CASE (TranslateOther \/ SummaryRaises) /\ Publish(FALSE)
    BY <2>2
  <2> QED
    BY <2>1, <2>2 DEF UpstreamFrame
<1>2. link = "up" /\ OutTypeOK'
  BY DEF UpstreamFrame, Inv, TypeOK
<1> QED
  BY <1>1, <1>2, CacheStep, PublishImplements

\* The steps that leave the cache alone.
LEMMA CacheAlone ==
    ASSUME ConnectionDropped \/ ProxyAlone \/ TimePasses \/ UNCHANGED allVars
    PROVE  snapshot' = snapshot
<1>1. CASE ConnectionDropped
  BY <1>1 DEF ConnectionDropped, Proxy!UpstreamLost, Proxy!cacheVars
<1>2. CASE ProxyAlone
  BY <1>2 DEF ProxyAlone, Proxy!UpstreamConnected, Proxy!ServerReads, Proxy!CacheAges,
         Proxy!MonitorNext, Proxy!OnDownstreamConnected, Proxy!HandleDownstreamRequest,
         Proxy!TransportClosed, Proxy!ConnectionLost, Proxy!MonitorReceives,
         Proxy!MonitorSeesEOF, Proxy!cacheVars
<1>3. CASE TimePasses \/ UNCHANGED allVars
  BY <1>3 DEF TimePasses, allVars, proxyVars
<1> QED
  BY <1>1, <1>2, <1>3

\* Every step of the composition is one of the abstract proxy or changes nothing of
\* it.
LEMMA StepImplements ==
    ASSUME EveryBody, CacheType, Inv', [ProxyNext]_allVars
    PROVE  CacheType' /\ [Proxy!Next]_(Proxy!vars)
<1>1. CASE UpstreamFrame
  BY <1>1, FrameImplements DEF Proxy!Next, Proxy!UpstreamNext
<1>2. CASE ConnectionDropped
  BY <1>2, CacheAlone DEF ConnectionDropped, Proxy!Next, Proxy!UpstreamNext, CacheType
<1>3. CASE ProxyAlone
  <2>1. Proxy!Next
    BY <1>3 DEF ProxyAlone, Proxy!Next, Proxy!UpstreamNext
  <2> QED
    BY <1>3, <2>1, CacheAlone DEF CacheType
<1>4. CASE TimePasses \/ UNCHANGED allVars
  <2>1. UNCHANGED proxyVars /\ UNCHANGED upstream_v2
    BY <1>4 DEF TimePasses, SessionsExpire, allVars, translatorVars
  <2>2. UNCHANGED Proxy!vars
    BY <2>1 DEF proxyVars, Proxy!vars, Proxy!cacheVars, Proxy!upstreamVars, Proxy!sessionVars
  <2> QED
    BY <1>4, <2>2, CacheAlone DEF CacheType
<1> QED
  BY <1>1, <1>2, <1>3, <1>4 DEF ProxyNext

\* The composition starts as the abstract proxy does, with nothing cached.
LEMMA InitImplements ==
    ASSUME ProxyInit
    PROVE  CacheType /\ Proxy!Init
  BY DEF ProxyInit, Proxy!Init, CacheType

\* The program implements the use cases with any translator: whatever the translator
\* remembers, returns or raises, every step is one that the abstract proxy may take, or
\* changes nothing of it (ImplementsUseCases).
THEOREM ProgramImplementsUseCases ==
    ASSUME EveryBody
    PROVE  ProxySpec => ImplementsUseCases
<1>1. ProxyInit => CacheType /\ Proxy!Init
  BY InitImplements
<1>2. CacheType /\ Inv' /\ [ProxyNext]_allVars => CacheType' /\ [Proxy!Next]_(Proxy!vars)
  BY StepImplements
<1> QED
  BY <1>1, <1>2, TranslatorInvariant, PTL DEF ProxySpec, ImplementsUseCases, Proxy!Spec

\* What the cache holds is a body or nothing, always.
LEMMA CacheTyped ==
    ASSUME EveryBody
    PROVE  ProxySpec => []CacheType
<1>1. ProxyInit => CacheType
  BY InitImplements
<1>2. CacheType /\ Inv' /\ [ProxyNext]_allVars => CacheType'
  BY StepImplements
<1> QED
  BY <1>1, <1>2, TranslatorInvariant, PTL DEF ProxySpec

-----------------------------------------------------------------------------
(* The sessions in the cached BRIDGE. *)

\* A merged BRIDGE shows every live session, and a leg that is ON in it was ON before
\* or is such a session.
LEMMA MergedLegs ==
    ASSUME NEW bridges, NEW config, IsTable(config), NEW gone
    PROVE  /\ Shows(MergeUa(bridges, config, gone), config, gone)
           /\ OnLegs(MergeUa(bridges, config, gone))
                 \subseteq OnLegs(bridges) \cup UaSessions(config, gone)
<1> DEFINE sessions == UaSessions(config, gone)
           masters(k) == {s[1] : s \in {t \in sessions : t[2] = k}}
           legs(k) == [m \in masters(k) |-> TRUE]
           old(k) == IF k \in DOMAIN bridges THEN bridges[k] ELSE EmptyTable
           keys == DOMAIN bridges \cup {s[2] : s \in sessions}
           merged == MergeUa(bridges, config, gone)
<1>1. merged = [k \in keys |-> Over(legs(k), old(k))]
  BY DEF MergeUa
<1>2. \A s \in sessions : s = <<s[1], s[2]>> /\ s[1] \in Names
  BY MasterNames DEF UaSessions
<1>3. DOMAIN merged = keys /\ \A k \in keys : merged[k] = Over(legs(k), old(k))
  BY <1>1
<1> HIDE DEF merged
<1>4. \A k : /\ DOMAIN legs(k) = masters(k)
             /\ \A m \in masters(k) : legs(k)[m] = TRUE
  OBVIOUS
<1> HIDE DEF legs, old
<1>5. ASSUME NEW k \in keys
      PROVE  /\ DOMAIN merged[k] = masters(k) \cup DOMAIN old(k)
             /\ \A m \in masters(k) : merged[k][m] = TRUE
             /\ \A m \in DOMAIN old(k) \ masters(k) : merged[k][m] = old(k)[m]
  <2>1. /\ DOMAIN Over(legs(k), old(k)) = DOMAIN legs(k) \cup DOMAIN old(k)
        /\ \A m \in DOMAIN legs(k) : Over(legs(k), old(k))[m] = legs(k)[m]
        /\ \A m \in DOMAIN old(k) \ DOMAIN legs(k) : Over(legs(k), old(k))[m] = old(k)[m]
    BY OverRows
  <2> QED
    BY <1>3, <1>4, <2>1
<1>6. Shows(merged, config, gone)
  <2>1. \A s \in sessions : s[2] \in keys /\ s[1] \in masters(s[2])
    OBVIOUS
  <2> HIDE DEF keys, masters
  <2>2. ASSUME NEW s \in sessions
        PROVE  /\ s[2] \in DOMAIN merged
               /\ s[1] \in DOMAIN merged[s[2]]
               /\ merged[s[2]][s[1]] = TRUE
    <3>1. s[2] \in keys /\ s[1] \in masters(s[2])
      BY <2>1
    <3>2. /\ DOMAIN merged[s[2]] = masters(s[2]) \cup DOMAIN old(s[2])
          /\ \A m \in masters(s[2]) : merged[s[2]][m] = TRUE
      BY <1>5, <3>1
    <3>3. s[2] \in DOMAIN merged
      BY <1>3, <3>1
    <3>4. s[1] \in DOMAIN merged[s[2]]
      BY <3>1, <3>2
    <3>5. merged[s[2]][s[1]] = TRUE
      BY <3>1, <3>2
    <3> QED
      BY <3>3, <3>4, <3>5
  <2> QED
    BY <2>2 DEF Shows
<1>7. ASSUME NEW leg \in OnLegs(merged)
      PROVE  leg \in OnLegs(bridges) \cup sessions
  <2>1. /\ leg \in Names \X keys /\ leg = <<leg[1], leg[2]>>
        /\ leg[1] \in DOMAIN merged[leg[2]] /\ merged[leg[2]][leg[1]] = TRUE
    BY <1>3 DEF OnLegs
  <2>2. CASE leg[1] \in masters(leg[2])
    <3>1. PICK s \in sessions : s[2] = leg[2] /\ s[1] = leg[1]
      BY <2>2
    <3>2. s = leg
      BY <1>2, <2>1, <3>1
    <3> QED
      BY <3>2
  <2>3. CASE leg[1] \notin masters(leg[2])
    <3>1. leg[1] \in DOMAIN old(leg[2]) /\ old(leg[2])[leg[1]] = TRUE
      BY <1>5, <2>1, <2>3
    <3>2. leg[2] \in DOMAIN bridges /\ old(leg[2]) = bridges[leg[2]]
      BY <3>1 DEF old, EmptyTable
    <3> QED
      BY <2>1, <3>1, <3>2 DEF OnLegs
  <2> QED
    BY <2>2, <2>3
<1> QED
  BY <1>6, <1>7 DEF merged

\* What a call that returns leaves in bridges_frame_sent and in out.
LEMMA Returned ==
    ASSUME NEW live, NEW config, NEW sent, Returns(live, config, sent)
    PROVE  /\ out'.live = live /\ out'.config = config /\ out'.end # "raised"
           /\ bridges_frame_sent' => sent
           /\ bridges_frame_sent' => out'.end = "ok"
  BY DEF Returns

\* What a call that raises leaves there.
LEMMA RaisedOut ==
    ASSUME RaisesException
    PROVE  /\ ~bridges_frame_sent'
           /\ out'.live = NoFrame /\ out'.config = Nil /\ out'.end = "raised"
  BY DEF RaisesException, Raised

\* A frame of the server, for the translator alone.
TranslatorFrame == HelloV2 \/ HelloMalformed \/ Ignored \/ TranslateOther \/ SummaryRaises

\* bridges_frame_sent is only set by a call that returns a BRIDGE.
LEMMA SentStep ==
    ASSUME TranslatorFrame, bridges_frame_sent'
    PROVE  /\ out'.end = "ok"
           /\ bridges_frame_sent \/ out'.live.op = "BRIDGE_SND"
<1>1. CASE HelloV2
  <2>1. PICK live : /\ Returns(live, Nil, TRUE)
                    /\ ~bridges_frame_sent => live = BridgeSnd(EmptyTable)
    BY <1>1 DEF HelloV2
  <2>2. out'.live = live /\ out'.end = "ok"
    BY <2>1, Returned
  <2> QED
    BY <2>1, <2>2 DEF BridgeSnd
<1>2. CASE HelloMalformed \/ SummaryRaises
  BY <1>2, RaisedOut DEF HelloMalformed, SummaryRaises
<1>3. CASE Ignored
  BY <1>3, Returned DEF Ignored, ReturnsNothing
<1>4. CASE TranslateOther
  <2>1. ASSUME NEW routing, NewRouting(routing)
        PROVE  /\ out'.end = "ok"
               /\ out'.live.op = "BRIDGE_SND"
    <3>1. PICK config :
             \/ RaisesException
             \/ Returns(BridgeSnd(MergeUa(Keyed(routing), last_config, expired)), config, TRUE)
      BY <2>1 DEF NewRouting
    <3>2. Returns(BridgeSnd(MergeUa(Keyed(routing), last_config, expired)), config, TRUE)
      BY <3>1, RaisedOut
    <3>3. /\ out'.live = BridgeSnd(MergeUa(Keyed(routing), last_config, expired))
          /\ out'.end = "ok"
      BY <3>2, Returned
    <3> QED
      BY <3>3 DEF BridgeSnd
  <2>2. ASSUME NEW live, NEW config, Returns(live, config, bridges_frame_sent)
        PROVE  out'.end = "ok" /\ bridges_frame_sent
    BY <2>2, Returned
  <2>3. CASE \/ \E config \in V1Configs : PassthroughConfig(config)
             \/ \E bridges \in V1Bridges : PassthroughLive(BridgeSnd(bridges))
             \/ \E system \in Voices : PassthroughLive(BrdgEvent(system))
    BY <2>2, <2>3 DEF PassthroughConfig, PassthroughLive
  <2>4. CASE Ignored \/ UnknownType \/ NotAnObject \/ DeltaMalformed
    BY <2>2, <2>4, RaisedOut
    DEF Ignored, UnknownType, NotAnObject, DeltaMalformed, ReturnsNothing
  <2>5. CASE \E doc \in Dashboards : StateSnd(doc)
    BY <2>2, <2>5, RaisedOut DEF StateSnd, ReturnsNothing
  <2>6. ASSUME NEW doc, NewTopology(doc)
        PROVE  out'.end = "ok" /\ bridges_frame_sent
    BY <2>2, <2>6, RaisedOut DEF NewTopology
  <2>8. CASE EmptyTopology
    BY <2>2, <2>8 DEF EmptyTopology
  <2>7. CASE \E system \in Voices : VoiceEventSnd(system)
    BY <2>2, <2>7, RaisedOut DEF VoiceEventSnd, ReturnsNothing
  <2> QED
    BY <1>4, <2>1, <2>3, <2>4, <2>5, <2>6, <2>7, <2>8
    DEF TranslateOther, TopologyDelta, RoutingDelta
<1> QED
  BY <1>1, <1>2, <1>3, <1>4 DEF TranslatorFrame

\* No frame makes sessions expire.
LEMMA FrameTakesNoTime ==
    ASSUME TranslatorFrame
    PROVE  expired' = expired
<1>1. CASE HelloV2 \/ HelloMalformed \/ Ignored \/ SummaryRaises
  BY <1>1 DEF HelloV2, HelloMalformed, Ignored, SummaryRaises
<1>2. CASE TranslateOther
  BY <1>2 DEF TranslateOther, PassthroughConfig, PassthroughLive, Ignored, UnknownType,
         NotAnObject, DeltaMalformed, StateSnd, NewTopology, EmptyTopology, NewRouting,
         VoiceEventSnd, TopologyDelta, RoutingDelta
<1> QED
  BY <1>1, <1>2 DEF TranslatorFrame

\* What a frame leaves in the cache: nothing new, the live BRIDGE, or the BRIDGE
\* refreshed with the CONFIG that is published with it.
LEMMA CachedAfterFrame ==
    ASSUME EveryBody, CacheType, Inv', UpstreamFrame
    PROVE  LET bridge == Proxy!BridgeAfter(Translated.live)
           IN  /\ TranslatorFrame
               /\ bridge \in Bridges \cup {Nil}
               /\ bridge = Nil => snapshot.bridge = Nil /\ ~(out'.live.op = "BRIDGE_SND")
               /\ out'.live.op = "BRIDGE_SND" => bridge = out'.live.body
               /\ \/ out'.end = "raised" /\ snapshot' = snapshot
                  \/ /\ out'.end = "dropped" \/ out'.config = Nil
                     /\ snapshot'.bridge = bridge
                  \/ /\ out'.end = "ok" /\ out'.config # Nil /\ IsTable(out'.config)
                     /\ snapshot'.bridge = Refreshed(bridge, out'.config)
                     /\ snapshot'.config = out'.config
<1> DEFINE bridge == Proxy!BridgeAfter(Translated.live)
<1>1. TranslatorFrame /\ \E hello \in BOOLEAN : Publish(hello)
  BY DEF UpstreamFrame, TranslatorFrame
<1>2. OutTypeOK'
  BY DEF Inv, TypeOK
<1>3. out'.live.op = "BRIDGE_SND" <=>
         out'.live = BridgeSnd(out'.live.body) /\ IsBridgeTable(out'.live.body)
  BY <1>2 DEF OutTypeOK, NoFrame, BridgeSnd, BrdgEvent
<1>4. /\ bridge \in Bridges \cup {Nil}
      /\ \/ bridge = snapshot.bridge /\ ~(out'.live.op = "BRIDGE_SND")
         \/ out'.live.op = "BRIDGE_SND" /\ bridge = out'.live.body /\ bridge \in Bridges
  BY <1>2, <1>3, BridgeAfterBody
<1>5. \/ out'.end = "raised" /\ snapshot' = snapshot
      \/ /\ out'.end = "dropped" \/ out'.config = Nil
         /\ snapshot' = [snapshot EXCEPT !.bridge = bridge]
      \/ /\ out'.end = "ok" /\ out'.config # Nil
         /\ snapshot' = [config |-> out'.config, bridge |-> Refreshed(bridge, out'.config)]
  BY <1>1, PublishCases
<1>6. out'.config # Nil => IsTable(out'.config)
  BY <1>2 DEF OutTypeOK
<1> HIDE DEF bridge
<1>7. Nil \notin Bridges
  BY BodyTypes
<1>8. /\ TranslatorFrame
      /\ bridge \in Bridges \cup {Nil}
      /\ bridge = Nil => snapshot.bridge = Nil /\ ~(out'.live.op = "BRIDGE_SND")
      /\ out'.live.op = "BRIDGE_SND" => bridge = out'.live.body
  BY <1>1, <1>4, <1>7
<1>9. \/ out'.end = "raised" /\ snapshot' = snapshot
      \/ /\ out'.end = "dropped" \/ out'.config = Nil
         /\ snapshot'.bridge = bridge
      \/ /\ out'.end = "ok" /\ out'.config # Nil /\ IsTable(out'.config)
         /\ snapshot'.bridge = Refreshed(bridge, out'.config)
         /\ snapshot'.config = out'.config
  BY <1>5, <1>6 DEF CacheType
<1> QED
  BY <1>8, <1>9 DEF bridge

\* A frame that sets bridges_frame_sent leaves a BRIDGE in the cache.
LEMMA SentFrame ==
    ASSUME EveryBody, CacheType, Inv', UpstreamFrame, SentMeansCached
    PROVE  SentMeansCached'
<1> DEFINE bridge == Proxy!BridgeAfter(Translated.live)
<1> SUFFICES ASSUME bridges_frame_sent'
             PROVE  snapshot'.bridge # Nil
  BY DEF SentMeansCached
<1>1. /\ TranslatorFrame
      /\ bridge \in Bridges \cup {Nil}
      /\ bridge = Nil => snapshot.bridge = Nil /\ ~(out'.live.op = "BRIDGE_SND")
      /\ \/ out'.end = "raised"
         \/ snapshot'.bridge = bridge
         \/ /\ IsTable(out'.config)
            /\ snapshot'.bridge = Refreshed(bridge, out'.config)
  BY CachedAfterFrame
<1> HIDE DEF bridge
<1>2. out'.end = "ok" /\ (bridges_frame_sent \/ out'.live.op = "BRIDGE_SND")
  BY <1>1, SentStep
<1>3. bridge # Nil /\ bridge \in Bridges
  BY <1>1, <1>2 DEF SentMeansCached
<1>4. ASSUME IsTable(out'.config)
      PROVE  Refreshed(bridge, out'.config) # Nil
  <2>1. out'.config \in Configs
    BY <1>4, BodiesAreTables
  <2>2. Refreshed(bridge, out'.config) \in Bridges
    BY <1>3, <2>1, MergedBody DEF Refreshed
  <2> QED
    BY <2>2, BodyTypes
<1> QED
  BY <1>1, <1>2, <1>3, <1>4

\* A step that is no frame: it publishes nothing, and sets no flag.
BetweenFrames ==
    /\ snapshot' = snapshot
    /\ bridges_frame_sent' => bridges_frame_sent
    /\ out'.config = Nil \/ (out' = out /\ expired' = expired)

\* Every step is a frame or such a step.
LEMMA FrameOrQuiet ==
    ASSUME [ProxyNext]_allVars
    PROVE  UpstreamFrame \/ BetweenFrames
<1>1. ASSUME ConnectionDropped
      PROVE  BetweenFrames
  <2>1. Returns(NoFrame, Nil, FALSE)
    BY <1>1 DEF ConnectionDropped, OnUpstreamLost
  <2>2. out'.config = Nil /\ ~bridges_frame_sent'
    BY <2>1, Returned
  <2> QED
    BY <1>1, <2>2, CacheAlone DEF BetweenFrames
<1>2. ASSUME ProxyAlone
      PROVE  BetweenFrames
  <2>1. UNCHANGED translatorVars
    BY <1>2 DEF ProxyAlone
  <2> QED
    BY <1>2, <2>1, CacheAlone DEF BetweenFrames, translatorVars
<1>3. ASSUME TimePasses
      PROVE  BetweenFrames
  <2>1. Returns(NoFrame, Nil, bridges_frame_sent)
    BY <1>3 DEF TimePasses, SessionsExpire, ReturnsNothing
  <2>2. out'.config = Nil /\ (bridges_frame_sent' => bridges_frame_sent)
    BY <2>1, Returned
  <2> QED
    BY <1>3, <2>2, CacheAlone DEF BetweenFrames
<1>4. ASSUME UNCHANGED allVars
      PROVE  BetweenFrames
  <2>1. UNCHANGED translatorVars
    BY <1>4 DEF allVars
  <2> QED
    BY <1>4, <2>1, CacheAlone DEF BetweenFrames, translatorVars
<1> QED
  BY <1>1, <1>2, <1>3, <1>4 DEF ProxyNext

\* bridges_frame_sent is never set while the cache holds no BRIDGE (SentMeansCached):
\* a routing frame that raises on the CONFIG, or after it has set the flag, takes the
\* flag back with the connection, and nothing empties the cache.
THEOREM SentBridgeIsCached ==
    ASSUME EveryBody
    PROVE  ProxySpec => []SentMeansCached
<1>1. ProxyInit => SentMeansCached
  BY DEF ProxyInit, Init, SentMeansCached
<1>2. CacheType /\ Inv' /\ SentMeansCached /\ [ProxyNext]_allVars => SentMeansCached'
  <2> SUFFICES ASSUME CacheType, Inv', SentMeansCached, [ProxyNext]_allVars
               PROVE  SentMeansCached'
    OBVIOUS
  <2>1. CASE UpstreamFrame
    BY <2>1, SentFrame
  <2>2. CASE BetweenFrames
    BY <2>2 DEF BetweenFrames, SentMeansCached
  <2> QED
    BY <2>1, <2>2, FrameOrQuiet
<1> QED
  BY <1>1, <1>2, TranslatorInvariant, CacheTyped, PTL DEF ProxySpec

\* The BRIDGE in the cache shows the sessions of the CONFIG that the last step
\* published.
ShownWithConfig ==
    out.end = "ok" /\ out.config # Nil /\ snapshot.bridge # Nil =>
        Shows(snapshot.bridge, snapshot.config, expired)

\* A frame that publishes a CONFIG leaves its sessions in the cached BRIDGE.
LEMMA ShownFrame ==
    ASSUME EveryBody, CacheType, Inv', UpstreamFrame
    PROVE  ShownWithConfig'
<1> DEFINE bridge == Proxy!BridgeAfter(Translated.live)
<1> SUFFICES ASSUME out'.end = "ok", out'.config # Nil, snapshot'.bridge # Nil
             PROVE  Shows(snapshot'.bridge, snapshot'.config, expired')
  BY DEF ShownWithConfig
<1>1. /\ TranslatorFrame
      /\ IsTable(out'.config)
      /\ snapshot'.bridge = Refreshed(bridge, out'.config)
      /\ snapshot'.config = out'.config
  BY CachedAfterFrame
<1> HIDE DEF bridge
<1>2. expired' = expired
  BY <1>1, FrameTakesNoTime
<1>3. snapshot'.bridge = MergeUa(bridge, out'.config, expired)
  BY <1>1 DEF Refreshed
<1>4. Shows(MergeUa(bridge, out'.config, expired), out'.config, expired)
  BY <1>1, MergedLegs
<1> QED
  BY <1>1, <1>2, <1>3, <1>4

\* Once a step has published a CONFIG, the cached BRIDGE shows all the live
\* user-activated sessions of that CONFIG (SessionsShown).
THEOREM SessionsInCachedBridge ==
    ASSUME EveryBody
    PROVE  ProxySpec => SessionsShown
<1>1. ProxyInit => ShownWithConfig
  BY DEF ProxyInit, Init, ShownWithConfig
<1>2. CacheType /\ Inv' /\ ShownWithConfig /\ [ProxyNext]_allVars => ShownWithConfig'
  <2> SUFFICES ASSUME CacheType, Inv', ShownWithConfig, [ProxyNext]_allVars
               PROVE  ShownWithConfig'
    OBVIOUS
  <2>1. CASE UpstreamFrame
    BY <2>1, ShownFrame
  <2>2. CASE BetweenFrames
    BY <2>2 DEF BetweenFrames, ShownWithConfig
  <2> QED
    BY <2>1, <2>2, FrameOrQuiet
<1>3. ShownWithConfig' =>
        (out'.end = "ok" /\ out'.config # Nil /\ snapshot'.bridge # Nil =>
            Shows(snapshot'.bridge, snapshot'.config, expired'))
  BY DEF ShownWithConfig
<1> QED
  BY <1>1, <1>2, <1>3, TranslatorInvariant, CacheTyped, PTL DEF ProxySpec, SessionsShown

\* A BRIDGE of a v2 server is empty or made of the routing table and of the sessions
\* still live in the CONFIG before it.
LEMMA LiveBridge ==
    ASSUME TranslatorFrame, out'.live.op = "BRIDGE_SND", upstream_v2'
    PROVE  /\ out'.end # "raised"
           /\ \/ out'.live.body = EmptyTable
              \/ out'.live.body = MergeUa(Keyed(routing_snapshot'), last_config, expired)
<1>1. ASSUME NEW config, NEW sent, Returns(NoFrame, config, sent)
      PROVE  FALSE
  BY <1>1, Returned DEF NoFrame
<1>2. ASSUME RaisesException
      PROVE  FALSE
  BY <1>2, RaisedOut DEF NoFrame
<1>3. CASE HelloV2
  <2>1. PICK live : /\ Returns(live, Nil, TRUE)
                    /\ live = NoFrame \/ live = BridgeSnd(EmptyTable)
    BY <1>3 DEF HelloV2
  <2>2. Returns(BridgeSnd(EmptyTable), Nil, TRUE)
    BY <1>1, <2>1
  <2>3. out'.live = BridgeSnd(EmptyTable) /\ out'.end # "raised"
    BY <2>2, Returned
  <2> QED
    BY <2>3 DEF BridgeSnd
<1>4. CASE HelloMalformed \/ SummaryRaises \/ NotAnObject \/ DeltaMalformed
  BY <1>2, <1>4 DEF HelloMalformed, SummaryRaises, NotAnObject, DeltaMalformed
<1>5. CASE Ignored \/ UnknownType
  BY <1>1, <1>5 DEF Ignored, UnknownType, ReturnsNothing
<1>6. CASE TranslateOther
  <2>1. ASSUME NEW routing, NewRouting(routing)
        PROVE  /\ out'.end # "raised"
               /\ out'.live.body = MergeUa(Keyed(routing_snapshot'), last_config, expired)
    <3>1. routing_snapshot' = routing
      BY <2>1 DEF NewRouting
    <3>2. PICK config :
             Returns(BridgeSnd(MergeUa(Keyed(routing), last_config, expired)), config, TRUE)
      BY <1>2, <2>1 DEF NewRouting
    <3>3. /\ out'.live = BridgeSnd(MergeUa(Keyed(routing), last_config, expired))
          /\ out'.end # "raised"
      BY <3>2, Returned
    <3> QED
      BY <3>1, <3>3 DEF BridgeSnd
  <2>2. CASE \/ \E config \in V1Configs : PassthroughConfig(config)
             \/ \E bridges \in V1Bridges : PassthroughLive(BridgeSnd(bridges))
             \/ \E system \in Voices : PassthroughLive(BrdgEvent(system))
    BY <2>2 DEF PassthroughConfig, PassthroughLive
  <2>3. CASE Ignored \/ UnknownType \/ NotAnObject \/ DeltaMalformed
    BY <1>4, <1>5, <2>3
  <2>4. CASE \E doc \in Dashboards : StateSnd(doc)
    BY <1>1, <1>2, <2>4 DEF StateSnd, ReturnsNothing
  <2>5. ASSUME NEW doc, NewTopology(doc)
        PROVE  FALSE
    BY <1>1, <1>2, <2>5 DEF NewTopology
  <2>7. CASE EmptyTopology
    BY <1>1, <2>7 DEF EmptyTopology
  <2>6. ASSUME NEW system \in Voices, VoiceEventSnd(system)
        PROVE  FALSE
    <3>1. Returns(BrdgEvent(system), Nil, bridges_frame_sent)
      BY <1>1, <1>2, <2>6 DEF VoiceEventSnd, ReturnsNothing
    <3> QED
      BY <3>1, Returned DEF BrdgEvent
  <2> QED
    BY <1>6, <2>1, <2>2, <2>3, <2>4, <2>5, <2>6, <2>7
    DEF TranslateOther, TopologyDelta, RoutingDelta
<1> QED
  BY <1>3, <1>4, <1>5, <1>6 DEF TranslatorFrame

\* The legs that are ON after a BRIDGE of a v2 server.
LEMMA LegsAfterBridge ==
    ASSUME EveryBody, CacheType, Inv, Inv', UpstreamFrame,
           out'.live.op = "BRIDGE_SND", upstream_v2',
           NEW leg \in OnLegs(snapshot'.bridge)
    PROVE  \/ leg \in OnLegs(Keyed(routing_snapshot'))
           \/ leg \in UaSessions(last_config, expired)
           \/ out'.config # Nil /\ leg \in UaSessions(out'.config, expired)
<1> DEFINE bridge == Proxy!BridgeAfter(Translated.live)
<1>1. /\ TranslatorFrame
      /\ bridge \in Bridges \cup {Nil}
      /\ bridge = Nil => ~(out'.live.op = "BRIDGE_SND")
      /\ bridge = out'.live.body
      /\ \/ out'.end = "raised"
         \/ snapshot'.bridge = bridge
         \/ /\ out'.config # Nil /\ IsTable(out'.config)
            /\ snapshot'.bridge = Refreshed(bridge, out'.config)
  BY CachedAfterFrame
<1> HIDE DEF bridge
<1>2. /\ out'.end # "raised"
      /\ \/ bridge = EmptyTable
         \/ bridge = MergeUa(Keyed(routing_snapshot'), last_config, expired)
  BY <1>1, LiveBridge
<1>3. OnLegs(EmptyTable) = {}
  BY DEF OnLegs, EmptyTable
<1>4. IsTable(last_config)
  BY DEF Inv, TypeOK
<1>5. OnLegs(bridge) \subseteq
        OnLegs(Keyed(routing_snapshot')) \cup UaSessions(last_config, expired)
  BY <1>2, <1>3, <1>4, MergedLegs
<1>6. CASE snapshot'.bridge = bridge
  BY <1>5, <1>6
<1>7. CASE out'.config # Nil /\ IsTable(out'.config)
           /\ snapshot'.bridge = Refreshed(bridge, out'.config)
  <2>1. snapshot'.bridge = MergeUa(bridge, out'.config, expired)
    BY <1>1, <1>7 DEF Refreshed
  <2>2. leg \in OnLegs(bridge) \cup UaSessions(out'.config, expired)
    BY <1>7, <2>1, MergedLegs
  <2> QED
    BY <1>5, <1>7, <2>2
<1> QED
  BY <1>1, <1>2, <1>6, <1>7

\* With the next BRIDGE of a v2 server no expired session is ON any more, whatever was
\* merged into the cache before (ExpiredLegsEnd).
THEOREM ExpiredLegsLeave ==
    ASSUME EveryBody
    PROVE  ProxySpec => ExpiredLegsEnd
<1> DEFINE LegsEnd ==
      out'.live.op = "BRIDGE_SND" /\ upstream_v2' /\ UpstreamFrame =>
          \A leg \in OnLegs(snapshot'.bridge) :
             \/ leg \in OnLegs(Keyed(routing_snapshot'))
             \/ leg \in UaSessions(last_config, expired)
             \/ out'.config # Nil /\ leg \in UaSessions(out'.config, expired)
<1>1. CacheType /\ Inv /\ Inv' => LegsEnd
  BY LegsAfterBridge
<1> QED
  BY <1>1, TranslatorInvariant, CacheTyped, PTL DEF ProxySpec, ExpiredLegsEnd

-----------------------------------------------------------------------------
(* What is proved of the use cases holds of the program. *)

\* The use cases with their theorems, for the constants and variables of the program.
UseCases ==
    INSTANCE ProxyUseCases_proofs WITH
        Systems <- Names,
        Events <- Voices,
        MastersOf <- [config \in Configs |-> Masters(config)],
        Enriched <- [bc \in Bridges \X Configs |->
                        {MergeUa(bc[1], bc[2], gone) : gone \in SUBSET PeerRows}],
        Unmergeable <- {bc \in Bridges \X Configs : MergeRaises(bc[2], {})},
        Undecodable <- {},
        None <- Nil

\* The program meets what the use cases assume of their constants.
LEMMA UseCaseConstants ==
    ASSUME EveryBody
    PROVE  /\ [config \in Configs |-> Masters(config)] \in [Configs -> SUBSET Names]
           /\ [bc \in Bridges \X Configs |->
                    {MergeUa(bc[1], bc[2], gone) : gone \in SUBSET PeerRows}]
                \in [Bridges \X Configs -> SUBSET Bridges]
           /\ {} \subseteq Configs \cup Bridges
           /\ {bc \in Bridges \X Configs : MergeRaises(bc[2], {})} \subseteq Bridges \X Configs
           /\ Nil \notin Configs \cup Bridges
<1>1. \A config \in Configs : Masters(config) \in SUBSET Names
  BY MasterNames, BodyTypes
<1>2. \A bc \in Bridges \X Configs :
         {MergeUa(bc[1], bc[2], gone) : gone \in SUBSET PeerRows} \in SUBSET Bridges
  BY MergedBody
<1>3. Nil \notin Configs \cup Bridges
  BY BodyTypes
<1> QED
  BY <1>1, <1>2, <1>3

\* The use cases of the program are those of the theorems: one module, instantiated
\* with the same constants and variables.
LEMMA SameUseCases ==
    /\ Proxy!Init <=> UseCases!Init
    /\ Proxy!Next <=> UseCases!Next
    /\ UNCHANGED Proxy!vars <=> UNCHANGED UseCases!vars
<1>1. Proxy!Init <=> UseCases!Init
  BY DEF Proxy!Init, UseCases!Init, Proxy!FreshMonitor, UseCases!FreshMonitor
<1>2. Proxy!HandleUpstreamFrame <=> UseCases!HandleUpstreamFrame
  BY
  DEF Proxy!HandleUpstreamFrame, UseCases!HandleUpstreamFrame, Proxy!Outputs,
      UseCases!Outputs, Proxy!BridgeFrames, UseCases!BridgeFrames, Proxy!EventFrames,
      UseCases!EventFrames, Proxy!ConfigFrames, UseCases!ConfigFrames, Proxy!PublishLive,
      UseCases!PublishLive, Proxy!PublishConfig, UseCases!PublishConfig,
      Proxy!PublishRaises, UseCases!PublishRaises, Proxy!TranslateRaises,
      UseCases!TranslateRaises, Proxy!RoomFor, UseCases!RoomFor, Proxy!Active,
      UseCases!Active, Proxy!BridgeAfter, UseCases!BridgeAfter, Proxy!AgeAfter,
      UseCases!AgeAfter, Proxy!Broadcast, UseCases!Broadcast, Proxy!BootstrapRouting,
      UseCases!BootstrapRouting, Proxy!Send, UseCases!Send, Proxy!Unreadable,
      UseCases!Unreadable, Proxy!MayRaise, UseCases!MayRaise, Proxy!Enrichments,
      UseCases!Enrichments, Proxy!KeepMasters, UseCases!KeepMasters, Proxy!MastersChange,
      UseCases!MastersChange, Proxy!DisconnectAll, UseCases!DisconnectAll, Proxy!Frame,
      UseCases!Frame, Proxy!ConfigFrameOf, UseCases!ConfigFrameOf, Proxy!BridgeFrameOf,
      UseCases!BridgeFrameOf, Proxy!cacheVars, UseCases!cacheVars, Proxy!upstreamVars,
      UseCases!upstreamVars, Proxy!sessionVars, UseCases!sessionVars
<1>3. /\ Proxy!UpstreamConnected <=> UseCases!UpstreamConnected
      /\ Proxy!UpstreamLost <=> UseCases!UpstreamLost
      /\ Proxy!ServerReads <=> UseCases!ServerReads
      /\ Proxy!CacheAges <=> UseCases!CacheAges
  BY
  DEF Proxy!UpstreamConnected, UseCases!UpstreamConnected, Proxy!UpstreamLost,
      UseCases!UpstreamLost, Proxy!ServerReads, UseCases!ServerReads, Proxy!CacheAges,
      UseCases!CacheAges, Proxy!cacheVars, UseCases!cacheVars, Proxy!upstreamVars,
      UseCases!upstreamVars, Proxy!sessionVars, UseCases!sessionVars
<1>4. \A c \in Clients : Proxy!MonitorNext(c) <=> UseCases!MonitorNext(c)
  BY
  DEF Proxy!MonitorNext, UseCases!MonitorNext, Proxy!OnDownstreamConnected,
      UseCases!OnDownstreamConnected, Proxy!HandleDownstreamRequest,
      UseCases!HandleDownstreamRequest, Proxy!ServeFromCache, UseCases!ServeFromCache,
      Proxy!RequestUpstreamRefresh, UseCases!RequestUpstreamRefresh, Proxy!Send,
      UseCases!Send, Proxy!TransportClosed, UseCases!TransportClosed, Proxy!ConnectionLost,
      UseCases!ConnectionLost, Proxy!MonitorReceives, UseCases!MonitorReceives,
      Proxy!MonitorSeesEOF, UseCases!MonitorSeesEOF, Proxy!SnapshotForClient,
      UseCases!SnapshotForClient, Proxy!Handled, UseCases!Handled, Proxy!FreshMonitor,
      UseCases!FreshMonitor, Proxy!Frame, UseCases!Frame, Proxy!ConfigFrameOf,
      UseCases!ConfigFrameOf, Proxy!BridgeFrameOf, UseCases!BridgeFrameOf, Proxy!cacheVars,
      UseCases!cacheVars, Proxy!upstreamVars, UseCases!upstreamVars, Proxy!sessionVars,
      UseCases!sessionVars
<1>5. Proxy!Next <=> UseCases!Next
  BY <1>2, <1>3, <1>4
  DEF Proxy!Next, UseCases!Next, Proxy!UpstreamNext, UseCases!UpstreamNext
<1>6. UNCHANGED Proxy!vars <=> UNCHANGED UseCases!vars
  BY
  DEF Proxy!vars, UseCases!vars, Proxy!cacheVars, UseCases!cacheVars, Proxy!upstreamVars,
      UseCases!upstreamVars, Proxy!sessionVars, UseCases!sessionVars
<1> QED
  BY <1>1, <1>5, <1>6

\* So the program is what the theorems are about.
LEMMA ProgramIsUseCases ==
    ASSUME EveryBody
    PROVE  ProxySpec => UseCases!Spec
<1>1. Proxy!Init => UseCases!Init
  BY SameUseCases
<1>2. [Proxy!Next]_(Proxy!vars) => [UseCases!Next]_(UseCases!vars)
  BY SameUseCases
<1> QED
  BY <1>1, <1>2, ProgramImplementsUseCases, PTL
  DEF ImplementsUseCases, Proxy!Spec, UseCases!Spec

\* Whatever v2 documents and exceptions feed it, the program keeps its monitors right:
\* the remembered masters are those of the cached CONFIG, the CTABLE of an open session
\* matches the CONFIGs it is given, every connected monitor is on its way to the cached
\* pair, and one greeted with a CONFIG applies it before a BRIDGE.
THEOREM ProgramKeepsMonitorsRight ==
    ASSUME EveryBody
    PROVE  ProxySpec => [](/\ Proxy!CachedMasters
                           /\ Proxy!MonitorSafe
                           /\ Proxy!SessionsConverge
                           /\ Proxy!ConfigFirst)
<1>1. UseCases!Spec => [](UseCases!CachedMasters /\ UseCases!MonitorSafe)
  BY UseCases!ResetsKeepTablesRight, UseCaseConstants
<1>2. UseCases!Spec => []UseCases!SessionsConverge
  BY UseCases!NoSessionLeftBehind, UseCaseConstants
<1>3. UseCases!Spec => []UseCases!ConfigFirst
  BY UseCases!ConfigComesFirst, UseCaseConstants
<1>4. /\ UseCases!CachedMasters => Proxy!CachedMasters
      /\ UseCases!MonitorSafe => Proxy!MonitorSafe
  BY DEF Proxy!CachedMasters, UseCases!CachedMasters, Proxy!MonitorSafe,
         UseCases!MonitorSafe, Proxy!TableMatches, UseCases!TableMatches
<1>5. UseCases!SessionsConverge => Proxy!SessionsConverge
  BY DEF Proxy!SessionsConverge, UseCases!SessionsConverge, Proxy!LastIs, UseCases!LastIs,
         Proxy!Active, UseCases!Active
<1>6. UseCases!ConfigFirst => Proxy!ConfigFirst
  BY DEF Proxy!ConfigFirst, UseCases!ConfigFirst
<1> QED
  BY <1>1, <1>2, <1>3, <1>4, <1>5, <1>6, ProgramIsUseCases, PTL

\* Nor does the program reset a session or ask the server without need: a reset hits a
\* session whose own stream ended in a CONFIG with other masters, and the server is only
\* asked for a frame that is missing or old, in the wire version of its last frame.
THEOREM ProgramActsWhenNeeded ==
    ASSUME EveryBody
    PROVE  ProxySpec => Proxy!ResetsAreNeeded /\ Proxy!AskedWhenNeeded
<1>1. UseCases!Spec => UseCases!ResetsAreNeeded
  BY UseCases!NoNeedlessReset, UseCaseConstants
<1>2. UseCases!Spec => UseCases!AskedWhenNeeded
  BY UseCases!AskedOnlyWhenNeeded, UseCaseConstants
<1>3. \A c \in Clients : UseCases!LastSent(c) = Proxy!LastSent(c)
  BY DEF UseCases!LastSent, Proxy!LastSent
<1>4. UNCHANGED Proxy!vars <=> UNCHANGED UseCases!vars
  BY SameUseCases
<1>5. \A c \in Clients, req \in {"CONFIG_REQ", "BRIDGE_REQ"} :
         Proxy!HandleDownstreamRequest(c, req) <=> UseCases!HandleDownstreamRequest(c, req)
  BY
  DEF Proxy!HandleDownstreamRequest, UseCases!HandleDownstreamRequest,
      Proxy!ServeFromCache, UseCases!ServeFromCache, Proxy!RequestUpstreamRefresh,
      UseCases!RequestUpstreamRefresh, Proxy!Send, UseCases!Send, Proxy!Frame,
      UseCases!Frame, Proxy!ConfigFrameOf, UseCases!ConfigFrameOf, Proxy!BridgeFrameOf,
      UseCases!BridgeFrameOf, Proxy!cacheVars, UseCases!cacheVars
<1>6. UseCases!ResetsAreNeeded => Proxy!ResetsAreNeeded
  <2>1. [\A c \in Clients : conn[c] = "open" /\ conn'[c] = "closing" =>
            /\ UseCases!LastSent(c) # Nil
            /\ [config \in Configs |-> Masters(config)][UseCases!LastSent(c)]
                 \notin {{}, [config \in Configs |-> Masters(config)][snapshot'.config]}
        ]_(UseCases!vars)
        => [\A c \in Clients : conn[c] = "open" /\ conn'[c] = "closing" =>
            /\ Proxy!LastSent(c) # Nil
            /\ [config \in Configs |-> Masters(config)][Proxy!LastSent(c)]
                 \notin {{}, [config \in Configs |-> Masters(config)][snapshot'.config]}
        ]_(Proxy!vars)
    BY <1>3, <1>4
  <2> QED
    BY <2>1, PTL DEF UseCases!ResetsAreNeeded, Proxy!ResetsAreNeeded
<1>7. UseCases!AskedWhenNeeded => Proxy!AskedWhenNeeded
  <2>1. [\A c \in Clients, req \in {"CONFIG_REQ", "BRIDGE_REQ"} :
            /\ UseCases!HandleDownstreamRequest(c, req)
            /\ upstream_out' # upstream_out
            => /\ upstream_out' = Append(upstream_out, "STATE_REQ") <=> upstream_v2
               /\ \/ cache_age = "stale"
                  \/ req = "CONFIG_REQ" /\ snapshot.config = Nil
                  \/ req = "BRIDGE_REQ" /\ snapshot.bridge = Nil]_(UseCases!vars)
        => [\A c \in Clients, req \in {"CONFIG_REQ", "BRIDGE_REQ"} :
            /\ Proxy!HandleDownstreamRequest(c, req)
            /\ upstream_out' # upstream_out
            => /\ upstream_out' = Append(upstream_out, "STATE_REQ") <=> upstream_v2
               /\ \/ cache_age = "stale"
                  \/ req = "CONFIG_REQ" /\ snapshot.config = Nil
                  \/ req = "BRIDGE_REQ" /\ snapshot.bridge = Nil]_(Proxy!vars)
    BY <1>4, <1>5
  <2> QED
    BY <2>1, PTL DEF UseCases!AskedWhenNeeded, Proxy!AskedWhenNeeded
<1> QED
  BY <1>1, <1>2, <1>6, <1>7, ProgramIsUseCases, PTL

\* And it leaves out nothing: each monitor of the program gets every CONFIG and every
\* BRIDGE that the proxy caches, once and in order, through all that the server and the
\* network do.
THEOREM ProgramServesFeeds ==
    ASSUME EveryBody
    PROVE  ProxySpec => UseCases!ServesConfigs /\ UseCases!ServesBridges
<1>1. UseCases!Spec => UseCases!ServesConfigs
  BY UseCases!ConfigFeedImplemented, UseCaseConstants
<1>2. UseCases!Spec => UseCases!ServesBridges
  BY UseCases!BridgeFeedImplemented, UseCaseConstants
<1> QED
  BY <1>1, <1>2, ProgramIsUseCases, PTL

-----------------------------------------------------------------------------
(* The program connected to a server that reports and answers. *)

\* What such a server sends, and whether the HELLO is the next frame to be handled.
FrameKind == {"HELLO", "STATE", "ROUTING"}
HelloIsNext == channel # <<>> /\ Head(channel) = "HELLO"

\* Handling the oldest frame, or sending one more.
LEMMA ChannelMoves ==
    ASSUME channel \in Seq(FrameKind)
    PROVE  /\ \A kind \in FrameKind : channel' = Append(channel, kind)
                 => channel' \in Seq(FrameKind) /\ (HelloIsNext => HelloIsNext')
           /\ channel # <<>> /\ channel' = Tail(channel) => channel' \in Seq(FrameKind)
<1>1. ASSUME NEW kind \in FrameKind, channel' = Append(channel, kind)
      PROVE  channel' \in Seq(FrameKind) /\ (HelloIsNext => HelloIsNext')
  <2>1. channel' \in Seq(FrameKind) /\ channel' # <<>>
    BY <1>1
  <2>2. channel # <<>> => Head(channel') = Head(channel)
    BY <1>1
  <2> QED
    BY <2>1, <2>2 DEF HelloIsNext
<1> QED
  BY <1>1

\* A step with the server is a step of the program.
LEMMA ServedStep ==
    ASSUME [ServedNext]_servedVars
    PROVE  [ProxyNext]_allVars
<1>1. ASSUME HandleFrame
      PROVE  UpstreamFrame
  BY <1>1 DEF HandleFrame, UpstreamFrame, TranslateOther
<1>2. ASSUME Connected \/ ServerAnswers \/ CacheAges
      PROVE  ProxyAlone
  BY <1>2 DEF Connected, ServerAnswers, CacheAges, ProxyAlone
<1>3. ASSUME NEW c \in Clients, MonitorAsks(c) \/ MonitorSession(c)
      PROVE  ProxyAlone
  <2>1. Proxy!MonitorNext(c) /\ UNCHANGED translatorVars
    BY <1>3 DEF MonitorAsks, MonitorSession, Proxy!MonitorNext
  <2> QED
    BY <2>1 DEF ProxyAlone
<1>4. ASSUME ServerReports \/ UNCHANGED servedVars
      PROVE  UNCHANGED allVars
  BY <1>4 DEF ServerReports, servedVars, allVars
<1> QED
  BY <1>1, <1>2, <1>3, <1>4 DEF ServedNext, Dropped, ProxyNext

\* The program connected to a server is the program: what is proved of ProxySpec, for any
\* frames in any order, holds next to a server.
THEOREM ServedIsProgram == ServedSpec => ProxySpec
<1>1. ServedInit => ProxyInit
  BY DEF ServedInit
<1>2. [ServedNext]_servedVars => [ProxyNext]_allVars
  BY ServedStep
<1> QED
  BY <1>1, <1>2, PTL DEF ServedSpec, ProxySpec

\* A cache with a BRIDGE keeps one.
LEMMA BridgeStays ==
    ASSUME EveryBody, CacheType, Inv', [ProxyNext]_allVars, snapshot.bridge # Nil
    PROVE  snapshot'.bridge # Nil
<1>1. CASE UpstreamFrame
  <2> DEFINE bridge == Proxy!BridgeAfter(Translated.live)
  <2>1. /\ bridge \in Bridges /\ bridge # Nil
        /\ \/ snapshot' = snapshot
           \/ snapshot'.bridge = bridge
           \/ /\ IsTable(out'.config)
              /\ snapshot'.bridge = Refreshed(bridge, out'.config)
    BY <1>1, CachedAfterFrame
  <2> HIDE DEF bridge
  <2>2. ASSUME IsTable(out'.config)
        PROVE  Refreshed(bridge, out'.config) # Nil
    BY <2>1, <2>2, MergedBody, BodiesAreTables, BodyTypes DEF Refreshed
  <2> QED
    BY <2>1, <2>2
<1>2. CASE BetweenFrames
  BY <1>2 DEF BetweenFrames
<1> QED
  BY <1>1, <1>2, FrameOrQuiet

\* While the link is up, the HELLO is the next frame or a BRIDGE is cached; and one is
\* as soon as the server is known to speak v2.
BridgeAfterHello ==
    /\ channel \in Seq(FrameKind)
    /\ link = "up" => HelloIsNext \/ snapshot.bridge # Nil
    /\ upstream_v2 => snapshot.bridge # Nil

\* The HELLO sets bridges_frame_sent, so a BRIDGE is then cached; a new connection starts
\* with a HELLO, and no other frame is handled before it.
LEMMA HelloBringsBridge ==
    ASSUME EveryBody, CacheType, Inv', SentMeansCached', BridgeAfterHello,
           [ServedNext]_servedVars
    PROVE  BridgeAfterHello'
<1>1. snapshot.bridge # Nil => snapshot'.bridge # Nil
  BY ServedStep, BridgeStays
<1>2. channel \in Seq(FrameKind)
  BY DEF BridgeAfterHello
<1>3. CASE HandleFrame
  <2>1. channel # <<>> /\ link = "up"
    BY <1>3 DEF HandleFrame
  <2>2. snapshot'.bridge # Nil
    <3>1. CASE Head(channel) = "HELLO"
      <4>1. HelloV2
        BY <1>3, <3>1 DEF HandleFrame
      <4>2. bridges_frame_sent'
        BY <4>1 DEF HelloV2, Returns
      <4> QED
        BY <4>2 DEF SentMeansCached
    <3>2. CASE Head(channel) # "HELLO"
      BY <1>1, <2>1, <3>2 DEF BridgeAfterHello, HelloIsNext
    <3> QED
      BY <3>1, <3>2
  <2>3. channel' = Tail(channel) \/ channel' = <<>>
    BY <1>3 DEF HandleFrame
  <2>4. channel' \in Seq(FrameKind)
    <3>1. CASE channel' = Tail(channel)
      BY <1>2, <2>1, <3>1, ChannelMoves
    <3>2. CASE channel' = <<>>
      BY <3>2
    <3> QED
      BY <2>3, <3>1, <3>2
  <2> QED
    BY <2>2, <2>4 DEF BridgeAfterHello
<1>4. CASE Connected
  <2>1. channel' = <<"HELLO">> /\ upstream_v2' = upstream_v2
    BY <1>4 DEF Connected, translatorVars
  <2>2. channel' \in Seq(FrameKind) /\ HelloIsNext'
    BY <2>1 DEF FrameKind, HelloIsNext
  <2> QED
    BY <1>1, <2>1, <2>2 DEF BridgeAfterHello
<1>5. CASE Dropped
  <2>1. channel' = <<>> /\ link' = "down" /\ upstream_v2' = upstream_v2
    BY <1>5 DEF Dropped, ConnectionDropped, Proxy!UpstreamLost, OnUpstreamLost
  <2> QED
    BY <1>1, <2>1 DEF BridgeAfterHello
<1>6. CASE ServerAnswers
  <2>1. PICK kind \in FrameKind : channel' = Append(channel, kind)
    BY <1>6 DEF ServerAnswers, FrameKind
  <2>2. link' = link /\ upstream_v2' = upstream_v2
    BY <1>6 DEF ServerAnswers, Proxy!ServerReads
  <2> QED
    BY <1>1, <1>2, <2>1, <2>2, ChannelMoves DEF BridgeAfterHello
<1>7. CASE ServerReports
  <2>1. channel = <<>> /\ channel' = <<"STATE">> /\ link' = link /\ upstream_v2' = upstream_v2
    BY <1>7 DEF ServerReports, proxyVars, translatorVars
  <2>2. channel' \in Seq(FrameKind) /\ ~HelloIsNext
    BY <2>1 DEF FrameKind, HelloIsNext
  <2> QED
    BY <1>1, <2>1, <2>2 DEF BridgeAfterHello
<1>8. CASE \/ \E c \in Clients : MonitorAsks(c) \/ MonitorSession(c)
           \/ CacheAges
           \/ TimePasses /\ UNCHANGED channel
           \/ UNCHANGED servedVars
  <2>1. channel' = channel
    BY <1>8 DEF MonitorAsks, MonitorSession, CacheAges, servedVars
  <2>2. link' = link
    BY <1>8 DEF MonitorAsks, MonitorSession, CacheAges, servedVars, allVars, proxyVars,
           TimePasses, Proxy!HandleDownstreamRequest, Proxy!OnDownstreamConnected,
           Proxy!TransportClosed, Proxy!ConnectionLost, Proxy!MonitorReceives,
           Proxy!MonitorSeesEOF, Proxy!CacheAges, Proxy!upstreamVars
  <2>3. upstream_v2' = upstream_v2
    BY <1>8 DEF MonitorAsks, MonitorSession, CacheAges, servedVars, allVars,
           translatorVars, TimePasses, SessionsExpire
  <2> QED
    BY <1>1, <2>1, <2>2, <2>3 DEF BridgeAfterHello, HelloIsNext
<1> QED
  BY <1>3, <1>4, <1>5, <1>6, <1>7, <1>8 DEF ServedNext

\* With a v2 server, a BRIDGE_REQ misses the cache only while the HELLO is the next frame
\* to be handled, and is then sent as it is (MissOnlyBeforeHello), whatever was lost,
\* raised or restarted before and however many monitors ask.
THEOREM MissesEndWithHello ==
    ASSUME EveryBody
    PROVE  ServedSpec => MissOnlyBeforeHello
<1>1. ServedInit => BridgeAfterHello
  <2>1. channel = <<>> /\ link = "down" /\ upstream_v2 = FALSE => BridgeAfterHello
    BY DEF BridgeAfterHello
  <2> QED
    BY <2>1 DEF ServedInit, ProxyInit, Proxy!Init
<1>2. /\ CacheType /\ Inv' /\ SentMeansCached' /\ BridgeAfterHello /\ [ServedNext]_servedVars
      => BridgeAfterHello'
  BY HelloBringsBridge
<1>3. ASSUME BridgeAfterHello, NEW c \in Clients,
             Proxy!HandleDownstreamRequest(c, "BRIDGE_REQ"), snapshot.bridge = Nil, link = "up"
      PROVE  HelloIsNext /\ upstream_out' = Append(upstream_out, "BRIDGE_REQ")
  <2>1. HelloIsNext /\ ~upstream_v2
    BY <1>3 DEF BridgeAfterHello
  <2>2. Proxy!BridgeFrameOf(snapshot.bridge) = <<>>
    BY <1>3 DEF Proxy!BridgeFrameOf
  <2>3. Proxy!RequestUpstreamRefresh("BRIDGE_REQ")
    BY <1>3, <2>2 DEF Proxy!HandleDownstreamRequest
  <2> QED
    BY <1>3, <2>1, <2>3 DEF Proxy!RequestUpstreamRefresh, Proxy!Send
<1>4. BridgeAfterHello =>
         [\A c \in Clients :
             /\ Proxy!HandleDownstreamRequest(c, "BRIDGE_REQ")
             /\ snapshot.bridge = Nil
             /\ link = "up"
             => /\ channel # <<>> /\ Head(channel) = "HELLO"
                /\ upstream_out' = Append(upstream_out, "BRIDGE_REQ")]_servedVars
  BY <1>3 DEF HelloIsNext
<1> QED
  BY <1>1, <1>2, <1>4, ServedIsProgram, TranslatorInvariant, CacheTyped, SentBridgeIsCached,
     PTL DEF ServedSpec, MissOnlyBeforeHello
===============================================================================
