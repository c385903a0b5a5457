---------------------------- MODULE ProxyUseCases ----------------------------
(******************************************************************************)
(* The orchestration of adn-report-proxy: ProxyUseCases, the sessions of      *)
(* the legacy monitors (LegacyMonitorProtocol, DownstreamBroadcasterImpl)     *)
(* and the request side of the upstream link (UpstreamCommanderImpl).         *)
(*                                                                            *)
(* The translator is abstract here: a step takes whatever frames one call     *)
(* of translate may return.  V2ToV1Mapper refines it and ReportProxy joins    *)
(* the two.                                                                   *)
(*                                                                            *)
(* A frame body is a member of a small set.  What the proxy reads inside a    *)
(* pickled body is given by MastersOf (the MODE = MASTER keys of a CONFIG),   *)
(* by Enriched (the BRIDGE tables that merging a CONFIG's user-activated      *)
(* sessions may produce; several, for the result depends on the clock), by    *)
(* Undecodable (the bodies on which unpickling raises) and by Unmergeable     *)
(* (the pairs on which merging may raise: a CONFIG that is no dictionary, a   *)
(* leg or a session with a number that does not convert).                     *)
(******************************************************************************)
EXTENDS Naturals, Sequences, FiniteSets

CONSTANTS
    Clients,      \* the legacy monitors
    Systems,      \* system names
    Configs,      \* bodies of CONFIG_SND
    Bridges,      \* bodies of BRIDGE_SND
    Events,       \* bodies of BRDG_EVENT and LINK_EVENT
    MastersOf,    \* [Configs -> SUBSET Systems]
    Enriched,     \* [Bridges \X Configs -> SUBSET Bridges]
    Undecodable,  \* the bodies that raise when they are unpickled
    Unmergeable,  \* [BRIDGE, CONFIG] pairs whose merge may raise
    None,         \* "nothing cached", "nothing handled yet"
    MaxWire,      \* bound: frames in flight to one monitor
    MaxReqs       \* bound: requests in flight to the upstream server

ASSUME MastersType == MastersOf \in [Configs -> SUBSET Systems]
ASSUME EnrichedType == Enriched \in [Bridges \X Configs -> SUBSET Bridges]
ASSUME UndecodableType == Undecodable \subseteq Configs \cup Bridges
ASSUME UnmergeableType == Unmergeable \subseteq Bridges \X Configs
ASSUME NoneIsNoBody == None \notin Configs \cup Bridges

VARIABLES
    snapshot,           \* ProxyState.snapshot: the cached frame of each kind
    broadcast_masters,  \* ProxyState.broadcast_masters
    cache_age,          \* last_cache_update_at against the stale TTL
    upstream_v2,        \* the translator's upstream_is_v2
    link,               \* is there an active_protocol to the server?
    upstream_out,       \* requests on their way to the server
    conn,               \* the TCP session of each monitor
    wire,               \* frames written to a session and not yet handled
    monitor,            \* what the monitor of each session has handled
    greeted             \* was a CONFIG cached when the session opened?

cacheVars == <<snapshot, broadcast_masters, cache_age>>
upstreamVars == <<upstream_v2, link, upstream_out>>
sessionVars == <<conn, wire, monitor, greeted>>
vars == <<cacheVars, upstreamVars, sessionVars>>

Frame(op, body) == [op |-> op, body |-> body]

ConfigFrames == [op : {"CONFIG_SND"}, body : Configs]
BridgeFrames == [op : {"BRIDGE_SND"}, body : Bridges]
EventFrames == [op : {"EVENT"}, body : Events]
Frames == ConfigFrames \cup BridgeFrames \cup EventFrames

Requests == {"STATE_REQ", "CONFIG_REQ", "BRIDGE_REQ"}

FreshMonitor == [config |-> None, bridge |-> None, ctable |-> {}]

TypeOK ==
    /\ snapshot \in [config : Configs \cup {None}, bridge : Bridges \cup {None}]
    /\ broadcast_masters \in SUBSET Systems
    /\ cache_age \in {"never", "fresh", "stale"}
    /\ upstream_v2 \in BOOLEAN
    /\ link \in {"up", "down"}
    /\ upstream_out \in Seq(Requests)
    /\ conn \in [Clients -> {"down", "open", "closing", "closed"}]
    /\ wire \in [Clients -> Seq(Frames)]
    /\ monitor \in [Clients -> [config : Configs \cup {None},
                                bridge : Bridges \cup {None},
                                ctable : SUBSET Systems]]
    /\ greeted \in [Clients -> BOOLEAN]

Init ==
    /\ snapshot = [config |-> None, bridge |-> None]
    /\ broadcast_masters = {}
    /\ cache_age = "never"
    /\ upstream_v2 = FALSE
    /\ link = "down"
    /\ upstream_out = <<>>
    /\ conn = [c \in Clients |-> "down"]
    /\ wire = [c \in Clients |-> <<>>]
    /\ monitor = [c \in Clients |-> FreshMonitor]
    /\ greeted = [c \in Clients |-> FALSE]

-----------------------------------------------------------------------------
(* Sessions and the upstream request queue. *)

\* LegacyMonitorFactory.active_protocols: a session leaves the set in
\* connectionLost, so one whose loseConnection is pending is still in it.
Active == {c \in Clients : conn[c] \in {"open", "closing"}}

RoomFor(n) == \A c \in Active : Len(wire[c]) + n <= MaxWire

\* Mutant: a session with a backlog is skipped.
BroadcastToIdle(frames) ==
    wire' = [c \in Clients |->
                IF c \in Active /\ wire[c] = <<>> THEN wire[c] \o frames ELSE wire[c]]

\* DownstreamBroadcasterImpl.broadcast.
Broadcast(frames) ==
    wire' = [c \in Clients |-> IF c \in Active THEN wire[c] \o frames ELSE wire[c]]

\* DownstreamBroadcasterImpl.disconnect_all: loseConnection on every session.
DisconnectAll ==
    conn' = [c \in Clients |-> IF c \in Active THEN "closing" ELSE conn[c]]

\* UpstreamCommanderImpl: a request without an active protocol is skipped.
Send(req) ==
    IF link = "up"
    THEN /\ Len(upstream_out) < MaxReqs
         /\ upstream_out' = Append(upstream_out, req)
    ELSE UNCHANGED upstream_out

\* Mutant: the wire version of the server is ignored.
RequestAsAsked(req) == Send(req)

\* _request_upstream_refresh.
RequestUpstreamRefresh(req) == Send(IF upstream_v2 THEN "STATE_REQ" ELSE req)

-----------------------------------------------------------------------------
(* handle_upstream_frame.  out is what translate returned: out.live, the    *)
(* frame other than CONFIG_SND, as a sequence of at most one; out.config,     *)
(* the CONFIG_SND, or None.  translate never returns more.                    *)

Outputs == [live : {<<>>} \cup {<<f>> : f \in BridgeFrames \cup EventFrames},
            config : Configs \cup {None}]

\* Mutant: the live BRIDGE is broadcast and not cached.
BridgeBefore(live) == snapshot.bridge

\* The cached BRIDGE once the live frame has been through _maybe_cache.
BridgeAfter(live) ==
    IF live # <<>> /\ live[1].op = "BRIDGE_SND" THEN live[1].body ELSE snapshot.bridge

\* A BRIDGE goes to the cache, an event does not.
AgeAfter(live) ==
    IF live # <<>> /\ live[1].op = "BRIDGE_SND" THEN "fresh" ELSE cache_age

\* Mutant: only the cached BRIDGE is decoded before the CONFIG is published.
UnreadableBridge(out) == BridgeAfter(out.live) \in Undecodable

\* _refresh_legacy_static_tg_view unpickles the CONFIG, then the cached BRIDGE.
Unreadable(out) == {out.config, BridgeAfter(out.live)} \cap Undecodable # {}

\* What may raise before the CONFIG is published: reading the two or merging them.
MayRaise(out) ==
    /\ out.config # None
    /\ Unreadable(out) \/ <<BridgeAfter(out.live), out.config>> \in Unmergeable

\* What merge_ua_sessions_into_bridges may make of the cached BRIDGE.
Enrichments(bridge, config) ==
    IF bridge = None THEN {None} ELSE Enriched[bridge, config]

\* Mutant: an empty cache is not told from a cached frame.
BridgeFrameAlways(bridge) == <<Frame("BRIDGE_SND", bridge)>>

\* The cached BRIDGE as a frame, if there is one.
BridgeFrameOf(bridge) ==
    IF bridge = None THEN <<>> ELSE <<Frame("BRIDGE_SND", bridge)>>

\* The CONFIG as a frame, if there is one.
ConfigFrameOf(config) ==
    IF config = None THEN <<>> ELSE <<Frame("CONFIG_SND", config)>>

\* Mutant: the BRIDGE is replayed first.
BridgeFirst == BridgeFrameOf(snapshot.bridge) \o ConfigFrameOf(snapshot.config)

\* snapshot_for_client, in _SNAPSHOT_ORDER.
SnapshotForClient == ConfigFrameOf(snapshot.config) \o BridgeFrameOf(snapshot.bridge)

\* Mutant: the routing table is not asked for.
NoBootstrap(hello) == UNCHANGED upstream_out

\* After a v2 HELLO the routing table is asked for.
BootstrapRouting(hello) ==
    IF hello /\ upstream_v2' THEN Send("BRIDGE_REQ") ELSE UNCHANGED upstream_out

\* No CONFIG among the frames: cache and broadcast the other one.
PublishLive(out, hello) ==
    /\ out.config = None
    /\ RoomFor(Len(out.live))
    /\ snapshot' = [snapshot EXCEPT !.bridge = BridgeAfter(out.live)]
    /\ cache_age' = AgeAfter(out.live)
    /\ Broadcast(out.live)
    /\ BootstrapRouting(hello)
    /\ UNCHANGED <<broadcast_masters, link, conn, monitor, greeted>>

\* Mutant: only new masters count.
MastersGrow(config) ==
    /\ broadcast_masters # {}
    /\ ~(MastersOf[config] \subseteq broadcast_masters)

\* Mutant: the first masters count as a change.
MastersDiffer(config) == MastersOf[config] # broadcast_masters

\* The test of _publish_config: there were masters, and they change.
MastersChange(config) ==
    /\ broadcast_masters # {}
    /\ MastersOf[config] # broadcast_masters

\* Mutant: a CONFIG without masters is not taken for the new master set.
KeepMastersUnlessEmpty(config) ==
    broadcast_masters' =
        IF MastersOf[config] = {} THEN broadcast_masters ELSE MastersOf[config]

\* Mutant: the first master set is remembered for good.
KeepFirstMasters(config) ==
    broadcast_masters' =
        IF broadcast_masters = {} THEN MastersOf[config] ELSE broadcast_masters

\* _publish_config remembers the masters it publishes.
KeepMasters(config) == broadcast_masters' = MastersOf[config]

\* A CONFIG among the frames comes last: first the cached BRIDGE is enriched
\* with it, cached and broadcast, then _publish_config resets the sessions
\* when the master keys change, caches the CONFIG and broadcasts it.
PublishConfig(out, enriched) ==
    LET frames == out.live \o BridgeFrameOf(enriched) \o ConfigFrameOf(out.config)
    IN  /\ out.config # None
        /\ ~Unreadable(out)
        /\ RoomFor(Len(frames))
        /\ enriched \in Enrichments(BridgeAfter(out.live), out.config)
        /\ snapshot' = [config |-> out.config, bridge |-> enriched]
        /\ cache_age' = "fresh"
        /\ KeepMasters(out.config)
        /\ IF MastersChange(out.config) THEN DisconnectAll ELSE UNCHANGED conn
        /\ Broadcast(frames)
        /\ UNCHANGED <<link, upstream_out, monitor, greeted>>

\* The CONFIG or the cached BRIDGE does not unpickle, or their merge raises: the
\* live frame is out, the exception leaves stringReceived and the reactor drops
\* the upstream connection.
PublishRaises(out) ==
    /\ MayRaise(out)
    /\ RoomFor(Len(out.live))
    /\ snapshot' = [snapshot EXCEPT !.bridge = BridgeAfter(out.live)]
    /\ cache_age' = AgeAfter(out.live)
    /\ Broadcast(out.live)
    /\ link' = "down"
    /\ upstream_out' = <<>>
    /\ UNCHANGED <<broadcast_masters, conn, monitor, greeted>>

\* translate raises, or before it the summary of the frame for the log: nothing is
\* out, the connection is dropped.
TranslateRaises ==
    /\ link' = "down"
    /\ upstream_out' = <<>>
    /\ UNCHANGED <<cacheVars, sessionVars>>

\* A frame of the server, whatever the translator makes of it; a HELLO is
\* never forwarded and brings at most a BRIDGE.
HandleUpstreamFrame ==
    /\ link = "up"
    /\ upstream_v2' \in BOOLEAN
    /\ \E out \in Outputs :
          \/ \E hello \in BOOLEAN :
                /\ hello => \A i \in DOMAIN out.live : out.live[i] \in BridgeFrames
                /\ PublishLive(out, hello)
          \/ \E enriched \in Bridges \cup {None} : PublishConfig(out, enriched)
          \/ PublishRaises(out)
          \/ TranslateRaises

-----------------------------------------------------------------------------
(* The upstream link. *)

\* UpstreamReportFactory.buildProtocol.
UpstreamConnected ==
    /\ link = "down"
    /\ link' = "up"
    /\ UNCHANGED <<cacheVars, upstream_v2, upstream_out, sessionVars>>

\* UpstreamReportProtocol.connectionLost and on_upstream_lost: the cache and
\* the translator's idea of the wire version survive.
UpstreamLost ==
    /\ link = "up"
    /\ link' = "down"
    /\ upstream_out' = <<>>
    /\ UNCHANGED <<cacheVars, upstream_v2, sessionVars>>

\* The server reads a request.
ServerReads ==
    /\ upstream_out # <<>>
    /\ upstream_out' = Tail(upstream_out)
    /\ UNCHANGED <<cacheVars, upstream_v2, link, sessionVars>>

\* _STALE_REFRESH_SECONDS pass without a frame to cache.
CacheAges ==
    /\ cache_age = "fresh"
    /\ cache_age' = "stale"
    /\ UNCHANGED <<snapshot, broadcast_masters, upstreamVars, sessionVars>>

-----------------------------------------------------------------------------
(* The monitors. *)

\* connectionMade and on_downstream_connected: replay, CONFIG before BRIDGE.
OnDownstreamConnected(c) ==
    /\ conn[c] = "down"
    /\ conn' = [conn EXCEPT ![c] = "open"]
    /\ wire' = [wire EXCEPT ![c] = SnapshotForClient]
    /\ greeted' = [greeted EXCEPT ![c] = snapshot.config # None]
    /\ UNCHANGED <<cacheVars, upstreamVars, monitor>>

\* handle_downstream_request, answered from the cache to the client that asks;
\* a stale cache also asks the server, always for a CONFIG.
ServeFromCache(c, frame) ==
    /\ Len(wire[c]) < MaxWire
    /\ wire' = [wire EXCEPT ![c] = Append(@, frame)]
    /\ IF cache_age = "stale"
       THEN RequestUpstreamRefresh("CONFIG_REQ")
       ELSE UNCHANGED upstream_out

\* handle_downstream_request.
HandleDownstreamRequest(c, req) ==
    LET cached == IF req = "CONFIG_REQ" THEN ConfigFrameOf(snapshot.config)
                                        ELSE BridgeFrameOf(snapshot.bridge)
    IN  /\ conn[c] = "open"
        /\ \/ /\ cached # <<>>
              /\ ServeFromCache(c, cached[1])
           \/ /\ cached = <<>>
              /\ RequestUpstreamRefresh(req)
              /\ UNCHANGED wire
        /\ UNCHANGED <<cacheVars, upstream_v2, link, conn, monitor, greeted>>

\* LegacyMonitorProtocol.connectionLost after loseConnection: the transport
\* closes in the write that empties its buffer, which holds the last frames of
\* wire, as many as the network has not taken yet; so it may happen at any wire.
TransportClosed(c) ==
    /\ conn[c] = "closing"
    /\ conn' = [conn EXCEPT ![c] = "closed"]
    /\ UNCHANGED <<cacheVars, upstreamVars, wire, monitor, greeted>>

\* The monitor goes away, or the network does: what was in flight is lost.
ConnectionLost(c) ==
    /\ conn[c] # "down"
    /\ conn' = [conn EXCEPT ![c] = "down"]
    /\ wire' = [wire EXCEPT ![c] = <<>>]
    /\ monitor' = [monitor EXCEPT ![c] = FreshMonitor]
    /\ greeted' = [greeted EXCEPT ![c] = FALSE]
    /\ UNCHANGED <<cacheVars, upstreamVars>>

\* What a legacy monitor does with a frame: the first CONFIG with masters builds
\* CTABLE, a later one only updates the masters CTABLE has.
Handled(m, frame) ==
    CASE frame.op = "CONFIG_SND" ->
            [m EXCEPT !.config = frame.body,
                      !.ctable = IF @ = {} THEN MastersOf[frame.body] ELSE @]
      [] frame.op = "BRIDGE_SND" -> [m EXCEPT !.bridge = frame.body]
      [] OTHER -> m

MonitorReceives(c) ==
    /\ wire[c] # <<>>
    /\ monitor' = [monitor EXCEPT ![c] = Handled(@, Head(wire[c]))]
    /\ wire' = [wire EXCEPT ![c] = Tail(@)]
    /\ UNCHANGED <<cacheVars, upstreamVars, conn, greeted>>

\* The monitor reads the end of a session that the proxy closed; it clears its
\* tables before it connects again.
MonitorSeesEOF(c) ==
    /\ conn[c] = "closed"
    /\ wire[c] = <<>>
    /\ conn' = [conn EXCEPT ![c] = "down"]
    /\ monitor' = [monitor EXCEPT ![c] = FreshMonitor]
    /\ greeted' = [greeted EXCEPT ![c] = FALSE]
    /\ UNCHANGED <<cacheVars, upstreamVars, wire>>

-----------------------------------------------------------------------------
UpstreamNext ==
    \/ HandleUpstreamFrame
    \/ UpstreamConnected
    \/ UpstreamLost
    \/ ServerReads
    \/ CacheAges

MonitorNext(c) ==
    \/ OnDownstreamConnected(c)
    \/ \E req \in {"CONFIG_REQ", "BRIDGE_REQ"} : HandleDownstreamRequest(c, req)
    \/ TransportClosed(c)
    \/ ConnectionLost(c)
    \/ MonitorReceives(c)
    \/ MonitorSeesEOF(c)

Next == UpstreamNext \/ \E c \in Clients : MonitorNext(c)

\* TCP delivers what was written and the legacy monitor reconnects (its client
\* factory is a ReconnectingClientFactory): the scheduling the design relies on.
\* A transport that is told to close is only sure to when its buffer runs empty,
\* as it has when the monitor has read all of wire; broadcasts fill it again, so
\* that nothing follows while some of wire is always unread.
Fairness ==
    \A c \in Clients : /\ WF_vars(OnDownstreamConnected(c))
                       /\ SF_vars(TransportClosed(c) /\ wire[c] = <<>>)
                       /\ WF_vars(MonitorReceives(c))
                       /\ WF_vars(MonitorSeesEOF(c))

Spec == Init /\ [][Next]_vars
FairSpec == Spec /\ Fairness
-----------------------------------------------------------------------------
(* Properties. *)

\* The cached CONFIG and the remembered master keys never drift apart: after any
\* interleaving of frames, exceptions and link losses, broadcast_masters, on
\* which _publish_config decides a reset, is the master set of the CONFIG that
\* the next monitor will be given from the cache.
CachedMasters ==
    broadcast_masters = IF snapshot.config = None THEN {} ELSE MastersOf[snapshot.config]

\* A monitor whose session is not being reset has in CTABLE exactly the masters
\* of the last CONFIG it handled: the reset of _publish_config comes in time for
\* every session, whatever was replayed to it, requested by it or still queued
\* for it when the master keys changed, empty master sets included.
TableMatches(c) ==
    monitor[c].config # None => monitor[c].ctable = MastersOf[monitor[c].config]

MonitorSafe == \A c \in Clients : conn[c] = "open" => TableMatches(c)

\* Why MonitorSafe is kept: the CONFIGs queued for a session carry no masters at
\* first and then, for good, the masters last broadcast; once CTABLE is built only
\* those can follow.
Stream(w, ctable, masters) ==
    /\ \A i \in DOMAIN w :
          w[i].op = "CONFIG_SND" => MastersOf[w[i].body] \in {{}, masters}
    /\ \A i, j \in DOMAIN w :
          /\ i < j
          /\ w[i].op = "CONFIG_SND" /\ MastersOf[w[i].body] # {}
          /\ w[j].op = "CONFIG_SND"
          => MastersOf[w[j].body] = masters
    /\ ctable # {} =>
          /\ ctable = masters
          /\ \A i \in DOMAIN w : w[i].op = "CONFIG_SND" => MastersOf[w[i].body] = masters

\* The inductive invariant behind CachedMasters and MonitorSafe.
SessionInv(c) ==
    /\ conn[c] = "down" => wire[c] = <<>> /\ monitor[c] = FreshMonitor
    /\ conn[c] = "open" => /\ Stream(wire[c], monitor[c].ctable, broadcast_masters)
                           /\ TableMatches(c)

SafetyInv == TypeOK /\ CachedMasters /\ \A c \in Clients : SessionInv(c)

\* In stream w, whose receiver has already handled seen, the last frame of kind
\* op carries body.
LastIs(w, op, seen, body) ==
    /\ \A i \in DOMAIN w :
          /\ w[i].op = op
          /\ \A j \in DOMAIN w : j > i => w[j].op # op
          => w[i].body = body
    /\ (\A i \in DOMAIN w : w[i].op # op) => seen = body

\* No session is left behind: what a connected monitor will have handled once it
\* has read its queue is the cached CONFIG and the cached BRIDGE, however replay,
\* answers from the cache, broadcasts and half-published frames interleaved.
SessionsConverge ==
    \A c \in Active :
        /\ LastIs(wire[c], "CONFIG_SND", monitor[c].config, snapshot.config)
        /\ LastIs(wire[c], "BRIDGE_SND", monitor[c].bridge, snapshot.bridge)

\* A monitor that connects when a CONFIG is cached never applies a BRIDGE before
\* it has built CTABLE from a CONFIG (_SNAPSHOT_ORDER), although the live path
\* broadcasts BRIDGE before CONFIG.
ConfigFirst ==
    \A c \in Clients :
        greeted[c] /\ monitor[c].bridge # None => monitor[c].config # None

\* A CONFIG that does not unpickle never reaches a monitor nor the cache, whether
\* or not a BRIDGE is cached: the exception comes before it is published.
NoBadConfig ==
    /\ snapshot.config \notin Undecodable
    /\ \A c \in Clients : \A i \in DOMAIN wire[c] :
          wire[c][i].op = "CONFIG_SND" => wire[c][i].body \notin Undecodable

\* The last CONFIG written to a session.
LastSent(c) ==
    LET at == {i \in DOMAIN wire[c] : wire[c][i].op = "CONFIG_SND"}
    IN  IF at = {} THEN monitor[c].config
        ELSE wire[c][CHOOSE i \in at : \A j \in at : j <= i].body

\* No needless reset: disconnect_all only hits a session whose own stream ended
\* in a CONFIG with other, non-empty master keys than the one now published.
ResetsAreNeeded ==
    [][\A c \in Clients : conn[c] = "open" /\ conn'[c] = "closing" =>
          /\ LastSent(c) # None
          /\ MastersOf[LastSent(c)] \notin {{}, MastersOf[snapshot'.config]}]_vars

\* The server is asked on a dashboard refresh only when the cache lacks the frame
\* or is older than the TTL, and in the wire version of the server's last frame:
\* never for a frame that is cached and fresh.
AskedWhenNeeded ==
    [][\A c \in Clients, req \in {"CONFIG_REQ", "BRIDGE_REQ"} :
          /\ HandleDownstreamRequest(c, req)
          /\ upstream_out' # upstream_out
          => /\ upstream_out' = Append(upstream_out, "STATE_REQ") <=> upstream_v2
             /\ \/ cache_age = "stale"
                \/ req = "CONFIG_REQ" /\ snapshot.config = None
                \/ req = "BRIDGE_REQ" /\ snapshot.bridge = None]_vars

\* Resets come to an end.  When the bodies in the cache stop changing (they may
\* go on being published), the network stops taking sessions away and a monitor
\* reads, now and then, all that it was sent, then it ends up with a session that is
\* not reset again, the cached CONFIG with its CTABLE, and the cached BRIDGE, or
\* the routing table that the same publication enriched to it.
\* Were broadcast_masters to fall behind the CONFIG that reconnected monitors are
\* replayed, each publication would reset them once more.
MonitorsRecover ==
    \A c \in Clients :
        /\ <>[][UNCHANGED snapshot /\ (c \in Active => conn'[c] # "down")]_vars
        /\ []<>(wire[c] = <<>>)
        => /\ <>[](/\ conn[c] = "open"
                   /\ monitor[c].config = snapshot.config
                   /\ TableMatches(c))
           /\ []<>(monitor[c].bridge = snapshot.bridge)

\* When the bodies in the cache stop changing and a session stays up, its monitor
\* ends up with the cached CONFIG and keeps it, whatever it goes on asking, and it
\* comes back to the cached BRIDGE from every routing table published before the
\* same table enriched.
MonitorsCatchUp ==
    \A c \in Clients :
        /\ <>[](conn[c] = "open")
        /\ <>[][UNCHANGED snapshot]_vars
        => /\ <>[](monitor[c].config = snapshot.config)
           /\ []<>(monitor[c].bridge = snapshot.bridge)

\* "Legacy update_hblink_table requires every CONFIG master to exist in CTABLE",
\* which is why _publish_config resets the clients when the master keys change:
\* were it so for every session, no monitor would handle a CONFIG that names a
\* master its CTABLE lacks.
NoUnknownMaster ==
    \A c \in Clients :
        monitor[c].config # None => MastersOf[monitor[c].config] \subseteq monitor[c].ctable
=============================================================================
