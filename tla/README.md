# A verification of adn-report-proxy

adn-report-proxy stands between an adn-server that reports in wire version 2
(JSON frames) and the legacy dashboards ("monitors"), which only understand
version 1 (pickled CONFIG and BRIDGE tables, CSV events). This directory holds
TLA+ models of it, the TLC runs that check them and the proofs that TLAPS checks.
Paths below are relative to the package, `src/src/adn_report_proxy/`.

## The system

All of it runs in one Twisted reactor thread, so a callback is atomic. What
interleaves is the callbacks: frames of the server, connections and losses on
both sides, requests of monitors, the passing of time, and, outside the process,
what each monitor has already read from its socket.

| component | state | operations |
|---|---|---|
| `ProxyUseCases` (`application/proxy_use_cases.py`) | the cached CONFIG and BRIDGE frame, the time of the last update, `broadcast_masters` | `handle_upstream_frame` (translate, cache, broadcast, reset the sessions when the master keys change), `handle_downstream_request` (answer from the cache or ask the server), `on_downstream_connected` (replay), `on_upstream_lost` |
| `LegacyMonitorProtocol`, `DownstreamBroadcasterImpl` (`infrastructure/twisted_adapters/downstream_server.py`) | `active_protocols`, a transport per session | connection made and lost, a request, `broadcast`, `send_snapshot`, `disconnect_all` |
| `UpstreamReportProtocol`, `UpstreamCommanderImpl`, `UpstreamReportFactory` (`.../upstream_client.py`) | `active_protocol`; of Twisted's base class the delay and the pending call of `retry` | a frame, a lost or failed connection, reconnection, the three requests |
| `V2ToV1Mapper` with `TranslationState` (`application/v2_to_v1_mapper.py`, `translation_state.py`) | the wire version of the server, the last topology and routing table with their sequence numbers, the last dashboard document and CONFIG, the known masters, the inject bases, `bridges_frame_sent` | `translate`, one branch per kind of frame, `on_upstream_lost` |
| conversions of the mapper | none | static talkgroups, fields and defaults of rows, voice CSV, `merge_ua_sessions_into_bridges` |
| `main.run_proxy` | none | joins the above |
| `domain`, `ports`, `config_loader`, `logging_setup`, `wire_log` | none | opcodes, interfaces, start-up, log lines |

How they interact: the server's frame arrives in `stringReceived`, which calls
`handle_upstream_frame`, which calls `translate` and then caches and broadcasts
what it returns, CONFIG last. An exception anywhere in that call leaves
`stringReceived`; the reactor then closes the upstream connection and calls
`connectionLost`, which tells the use cases and through them the translator.
The use cases read one thing of the translator, `upstream_is_v2`.

What makes each part correct, and hard:

- **Use cases and sessions.** A legacy monitor builds its table of masters,
  CTABLE, from the first CONFIG of a session and afterwards only updates the rows
  it has. The proxy therefore has to close a session whenever the master keys of
  the CONFIG change, for sessions that connected, asked and were broadcast to at
  different times, and no session may be left with an older table than the cache.
  Exceptions cut a publication in half.
- **Requests.** A dashboard refresh should cost the server nothing while the
  cache can answer, and must ask in the server's wire version when it cannot.
- **Translator.** The documents of the server omit what has not changed or is not
  connected. The mapper has to remember which masters exist (a master that
  vanishes or appears late resets every monitor), yet not show hotspots that
  left. It keeps documents before it converts them, so exceptions leave traces.
- **Link.** Twisted reports the loss of a connection to the protocol and to the
  factory, a refused one to the factory only. Of a session, an attempt and a pending
  retry there must always be exactly one, and requests must reach the open session.
- **Deltas.** They carry numbers, but a gap is only logged. The log must say so when
  changes were lost, and say nothing when none were.
- **Static talkgroups and user-activated sessions.** Both are merged from several
  sources that hide, repeat or outlive each other, and the second again and again
  into the result of the first time.
- **Composition.** `bridges_frame_sent` describes what the use cases have cached;
  the user-activated sessions of a CONFIG have to be in the BRIDGE that goes with
  it.

`PROJECT.json` lists these hazards line by line, with the properties that cover
them.

## Modules

| module | models | run as | proofs in |
|---|---|---|---|
| `ProxyUseCases` | use cases, sessions, the request side of the upstream link, with *any* translator | `MCProxyUseCases` | `ProxyUseCases_proofs` |
| `TopicFeed` | abstract: what a monitor is promised for one kind of frame | `MCProxyUseCases` | `TopicFeed_proofs` |
| `ProxyFeeds` | the refinement mapping: `ProxyUseCases` is a `TopicFeed` of CONFIGs and one of BRIDGEs | `MCProxyUseCases` | `ProxyUseCases_proofs` |
| `V2ToV1Mapper` | `translate` and `TranslationState` | `MCV2ToV1Mapper` | `ReportProxy_proofs` |
| `ReportProxy` | both joined, as `run_proxy` wires them | `MCReportProxy` | `ReportProxy_proofs` |
| `ServedProxy` | `ReportProxy` connected to a v2 server that reports and answers | `MCServedProxy` | `ReportProxy_proofs` |
| `UpstreamLink` | the reconnecting client below `link` | `MCUpstreamLink` | `UpstreamLink_proofs` |
| `DeltaFeed` | sequence numbers, deltas, a server that restarts | itself | `DeltaFeed_proofs` |
| `StaticTalkgroups` | the static talkgroups of one master | `MCStaticTalkgroups` | `StaticTalkgroups_proofs` |
| `UaSessions` | `merge_ua_sessions_into_bridges` leg by leg | `MCUaSessions` | `UaSessions_proofs` |

`NatLemmas` has what the proofs share: least and greatest elements, induction over a
set of numbers, and recursion.

`ReportProxy` composes `ProxyUseCases` and `V2ToV1Mapper`, `ServedProxy` adds the
server. `UpstreamLink`, `DeltaFeed`, `StaticTalkgroups` and `UaSessions` each refine
one thing the composition abstracts: the link that is up or down, the numbers of the
documents, one field of CONFIG, and the legs of BRIDGE.

`ProxyUseCases` is the detailed model of the orchestration and at the same time
the abstract specification of the whole: its translator returns whatever it
likes. `ReportProxy` instantiates it with `V2ToV1Mapper` as the translator and is
shown to implement it, so what holds of `ProxyUseCases` holds of the program.

### ProxyUseCases

| variable | code |
|---|---|
| `snapshot` | `ProxyState.snapshot`; the list holds at most one frame of each kind, so it is a record |
| `broadcast_masters` | the same field |
| `cache_age` | `last_cache_update_at` against `_STALE_REFRESH_SECONDS`: never written, fresh, stale |
| `upstream_v2` | `translator.upstream_is_v2` |
| `link`, `upstream_out` | `active_protocol`, and the requests the server has not read yet |
| `conn` | a session: down, open, closing (`loseConnection` pending, still in `active_protocols`, no longer read), closed (by the proxy, the monitor has not read the end yet) |
| `wire` | what was written to a session and the monitor has not handled |
| `monitor`, `greeted` | external: the CONFIG and BRIDGE the monitor applied and the masters in its CTABLE; whether a CONFIG was cached when it connected |

`HandleUpstreamFrame` is one call of `handle_upstream_frame` for any result of
`translate`: `PublishLive` (no CONFIG in it), `PublishConfig` (the live frame, then
the enriched BRIDGE, the reset, the CONFIG), `PublishRaises` (a body does not
unpickle or merge: the live frame is out, the CONFIG is not, the link is dropped)
and `TranslateRaises`. A body is a member of a small set; `MastersOf`, `Enriched`,
`Undecodable` and `Unmergeable` (a CONFIG and a cached BRIDGE whose merge may raise)
say what the proxy would read in it. `Enriched` is a *set* of
BRIDGEs, for whether a user-activated session still counts depends on the clock.
`TransportClosed` is possible whatever is in `wire`: Twisted closes once its own buffer
is written, which says nothing of what the monitor has handled, and later broadcasts are
lost from then on. How long that takes is for the fairness to say.
That a frame written after `loseConnection` is still delivered, that a closing
session is not read and that an exception out of `dataReceived` closes the
connection is Twisted's behaviour; the monitor is modelled from what the comments
of `proxy_use_cases.py` and `v2_to_v1_mapper.py` say of it (`update_hblink_table`,
`build_tgstats`, "dashboard clears CTABLE on reconnect"). Both are marked external.

### V2ToV1Mapper

A CONFIG, topology or dashboard document is a function from system names to
`[mode, peers]`, a routing table or BRIDGE one from table keys to legs. `Over` is
what all the merges of the code come to on these functions: the newer document
wins per row. `VirtualBase` and `Fan` stand for the name arithmetic (`base-slot`,
`base` to `base-0 .. base-(N-1)`; nothing in the repository writes
`inject_max_peers`, so N is its default). `Nil` on a leg and the rows in
`Malformed` stand for numbers that do not convert, which is where the code raises.
There is one action per branch of `translate`, exceptions included, with what the
branch has already changed when it raises. `RaisesException` includes
`on_upstream_lost`, which the reactor calls next. `out` is what the last call
returned; no action reads it.

`NoTime` is a dashboard document whose time stamp does not convert, `TooWide` the
hotspots with a session whose talkgroup does not fit three bytes: merging it raises
as long as it is live, in the translator and in the use cases.

Left out: sequence numbers (`DeltaFeed`; only that one that is no number raises,
before or after the names are noted, is here), `ENABLED`, addresses, texts, the slot
of a leg (`UaSessions`) and static talkgroups (`StaticTalkgroups`). A topology document
without any key, which the code keeps and then takes for none, is `EmptyTopology`.

### ReportProxy

`UpstreamFrame` is one call of `stringReceived`: an action of the translator and,
in the same step, the action of `ProxyUseCases` for what it returned or raised.
`SummaryRaises` is the call that raises in the summary for the log, before
`translate`. `ConnectionDropped` is `connectionLost` on both. `upstream_v2` is shared.
`Refreshed` is what `_refresh_legacy_static_tg_view` makes of the cached BRIDGE with the
sessions that have not expired by then; `RefreshRaises` when it raises. Unpickling
what the proxy pickled itself does not raise, so `Undecodable` is empty here; v1
bodies that raise are `MCProxySessions`'s.

### ServedProxy

The server is external, modelled from what `README.md` and the use cases expect of it:
HELLO on a new connection, the dashboard state every `REPORT_INTERVAL` and in answer
to STATE_REQ and CONFIG_REQ, the routing table in answer to BRIDGE_REQ. `channel` is
what it has sent on this connection. Its documents are well-formed.

### TopicFeed and ProxyFeeds

`TopicFeed` says what the proxy promises for one kind of frame: a new session is given
the last value, then each value published, in order; the last value may be repeated;
a session that ends is still delivered what it was given. `ProxyFeeds` maps a session
in `active_protocols` to a subscription and the frames of one kind in `wire` to its
inbox. A publication of the enriched BRIDGE right after the one a routing frame
brought is one step, `Publish(<<u, v>>)`.

### UpstreamLink

`connector` and `callID` are Twisted's connector state and the pending call of
`ReconnectingClientFactory.retry`; `delay` is the level of the delay (5 of them
between `initialDelay` and `maxDelay = 30`, the jitter left out). `closing` is a
session that NetstringReceiver told to close because of unreadable or too long data:
`active_protocol` is still set and requests are still written. Retrying, the
connector and the server are external; `buildProtocol`, `clear_active_protocol`,
`clientConnectionLost`, `clientConnectionFailed` and the commander are the code's.

### DeltaFeed

A row is the number of the change that made it, so two tables are the same exactly if
they hold the same changes. The server numbers its changes as the delta tests do, and
is external. `snapshot` and `kept_seq` stand for `topology_snapshot` and `topology_seq`
or for the routing pair: the code does the same with both. `missed` is a history
variable: what happened to the changes that the snapshot lacks.

### StaticTalkgroups

One master and its first slot (the code of the second is the same). A text is its
pieces between commas, a field is missing, null, a text or a list of texts, and the
options of a hotspot are their assignments in order. `MasterValue` is
`_apply_legacy_master_static_tgs`; `FromDashboard` follows the row through
`dashboard_state_to_config` and the merge into the topology or the previous CONFIG. A
topology document without any key is left out here.

### UaSessions

A CONFIG is the list of its sessions in the order of the loop, a table the list of its
legs. `WithSession` is the search for a leg and what is done with it. `NewRouting` is
the merge in the translator with `last_config`, `PublishConfig` the one in the use
cases into the cached BRIDGE, when one is cached: `cached` says so. `Hello` is the empty
BRIDGE that a connection's HELLO puts into the cache.

## The runs

| run | properties | instance |
|---|---|---|
| `MCProxySessions` | `TypeOK`, `CachedMasters`, `MonitorSafe`, `SessionsConverge`, `ConfigFirst`, `NoBadConfig`, `ResetsAreNeeded`, `ServesConfigs`, `ServesBridges` | one monitor; CONFIGs with no, one and two masters and one that does not unpickle; two BRIDGEs; three frames in flight |
| `MCProxyLiveness` | `MonitorsRecover`, `MonitorsCatchUp`, `AskedWhenNeeded` | one monitor; CONFIGs with one and two masters, two BRIDGEs, no events; three frames and one request in flight; fairness |
| `MCMapper` | `TypeOK`, `MastersTracked`, `KnownArePublished`, `NoStalePeers`, `NoMasterVanishes`, `StateIsIdempotent` | a master, an inject base with two slots, an open bridge; one or more documents of each kind that convert, and one that does not |
| `MCReportProxy` | `SentMeansCached`, `SessionsShown`, `ExpiredLegsEnd` | translator and use cases without monitors, v1 and v2 frames mixed |
| `MCImplements` | `ImplementsUseCases` | the same with one monitor and fewer documents: two dashboards that convert, no topology but the empty one, no delta, voice or v1 frame |
| `MCServed` | `TablesArrive`, `MissOnlyBeforeHello` | a server with a master, a hotspot with a session, a routing table that names a second master; one monitor; fairness |
| `MCUpstreamLink` | `TypeOK`, `NeverStranded`, `RequestsReachTransport`, `DelayFollowsOutcome`, `EventuallyConnected` | the five delays, three requests in flight; fairness |
| `MCDeltaFeed` | `UnbrokenFeedIsExact`, `NoFalseAlarm`, `LostChangesAreLogged` | two rows, three changes per server process, three frames in flight |
| `MCStaticTalkgroups` | `TypeOK`, `StaleOnlyWithoutTopology`, `TwiceOnlyByCommas`, `HotspotsAreHeard`, `SlimStateKeepsTalkgroups` | rows with every form of the fields and of the options |
| `MCUaSessions` | `LegsDoNotMultiply`, `SessionsAreSeen`, `OtherLegsStay` | three routing tables, six CONFIGs, three ticks, with and without a BRIDGE cached |
| `MCBridgeChurn` | `BridgeSurvivesChurn` | violated, see below |
| `MCProxyResetFrames` | `NoUnknownMaster` | violated, see below |

What the passing runs show, in words: in every order of frames, exceptions, link
losses, replays, requests and reconnections, a session that is not being reset has
exactly the masters of its last CONFIG in CTABLE; a session is only reset when the
masters it was last sent really differ and are not empty; when the cache settles, resets
come to an end and every monitor has what is cached; what is on its way to a
session always ends in the cached CONFIG and BRIDGE; a body that cannot be
unpickled never becomes the cached CONFIG; the translator forgets no master,
publishes every master and slot it knows of, shows no hotspot of an older document
and publishes the same CONFIG for the same document; and once a CONFIG is
published, the cached BRIDGE shows its live user-activated sessions, and after the
next routing table none that has expired. To a monitor the proxy is a feed of CONFIGs
and one of BRIDGEs that leave nothing out. With a v2 server, "Empty bridge table
forever" (`README.md:181` of the repository) does not come about: while link and
session stay up, the tables arrive and stay, also when a BRIDGE_REQ was turned into a
STATE_REQ. For want of a BRIDGE that never happens: the cache lacks one only while the
HELLO is the next frame, and the request then goes out as it is. The client
always has exactly one of a session, an attempt or a pending retry. A delta feed without lost
changes is exact and logs no gap; lost changes of one server process are logged, once.
No static talkgroup of a hotspot is lost; some are shown too long, of a master that
the dashboard omits while no topology is cached. Sessions never pile up legs, and
touch no leg of another place.

Two things the repository says of itself do not hold, each with a run:

- `MCBridgeChurn`: "Keep legacy snapshots across upstream TCP churn"
  (`translation_state.py:58`). A lost connection resets `bridges_frame_sent` but not
  the cache, so the HELLO of the next connection replaces the cached BRIDGE, and
  that of every monitor, by an empty one until the server answers the BRIDGE_REQ.
- `MCProxyResetFrames`: "Legacy `update_hblink_table` requires every CONFIG master to
  exist in CTABLE" (`v2_to_v1_mapper.py:474`). `disconnect_all` comes before the
  broadcast of the CONFIG and the sessions are still registered, so a monitor that
  is being reset handles the new CONFIG before it sees the end of its session.

### Bounds, and why they are enough

`MaxWire` bounds the frames in flight to one monitor and `MaxReqs` the requests in
flight to the server; a step that would exceed them waits. One publication writes
at most three frames (live, BRIDGE, CONFIG), so `MaxWire = 3` admits every
publication and also a CONFIG queued behind another, the case the session
properties are about; so it is in `MCProxyLiveness` too, which in turn leaves out
CONFIGs without masters and all but one request in flight: a second request only waits
behind the first. Neither run has events: a monitor's tables ignore them, they are not
cached, and in the queue they only take up room (`MCReportProxy` has them, without monitors).
The proofs hold for every `MaxWire` and any events.
Two masters suffice for master sets that grow, shrink, become and stop being
empty. One monitor suffices: the sessions share only the cache, the remembered masters
and the upstream link, which a session changes by nothing but its requests, and every
publication treats each session by that session's own state; the theorem
`ResetsKeepTablesRight` is about any number. The constraints `IdleUpstream` of
`MCProxySessions` and `QuietUpstream` of `MCImplements` do not extend states with a
request under way (in the first also those with a v2 server, in the second those with an
old cache, which only asks for one): the sessions do not read the request side, and
`MCProxyLiveness` explores it without the constraint. A cached BRIDGE that does not
unpickle takes the branch of one that does not merge, `PublishRaises`, and is not in
the instance. No liveness is checked under a constraint.
`MaxChannel = 2` in `MCServed` admits HELLO and an answer under way at once; a report is
sent when the channel is empty. `MaxLevel = 4` are the delays the code has (1, 2.7,
7.4, 20.1 and 30 seconds). Three changes and three frames in `MCDeltaFeed` admit a full
frame between two deltas and a restart whose numbers fit; the bound `MaxSeq` only
ends the changes of one process. The rows of `MCStaticTalkgroups` have each form
of a field and each of the three option keys, alone and with one that hides it, with
duplicates and with commas inside a text; two talkgroups are enough for an order.
The CONFIGs of `MCUaSessions` have two hotspots in one place with either expiry last,
both slots, sessions the loop skips, and one that raises; two legs of one place and a
leg with another talkgroup are in the tables.
`MCMapper` has each way a name becomes known (topology, dashboard, routing leg,
delta, voice event, shell of a base), a row and a leg that do not convert, a dashboard
that omits each master and one that declares it anew; a time stamp that does not convert,
and with the constraint `NothingExpired` what comes after an expiry, are left to
`MCReportProxy`.
`MCImplements` uses the VIEW `WithoutOut`: `out` only records what the last step
returned and no guard reads it, so states that differ in `out` have the same
successors, and the properties that mention `out'` are about steps, which TLC
evaluates before it takes the view. `MCReportProxy` uses `WithoutRequests`: without
monitors nothing reads the age of the cache, and the queue of requests only counts
when it is full, which with `MaxReqs = 100` no path that reaches a new state is.

### Fairness

`FairSpec` assumes, per monitor, that it connects again (a legacy monitor's client
is a `ReconnectingClientFactory`), that TCP delivers what was written and the
monitor handles it, that a transport told to close does so if again and again all that
was written to it has been handled (strong fairness of `TransportClosed` with an empty
`wire`, so nothing is assumed of a session that broadcasts keep filling), and that the
monitor then reads the end of the stream. That the queue does run empty now and then is a
condition of `MonitorsRecover`, not an assumption. Nothing is assumed of the server or of the
network staying up: both properties are conditional on a cache that stops changing,
`MonitorsCatchUp` also on a session that stays open, `MonitorsRecover` on the network
taking no session away. Both claim the cached CONFIG for good and of the BRIDGE that the monitor
comes back to it: each publication sends the routing table before the same table
enriched, so a monitor may show the first for a moment although the cache, before and
after, has the second.

`ServedSpec` assumes that the reactor handles what arrives (strongly, for the bound
`MaxWire` may hold a frame up again and again), that the link is made again
(`UpstreamLink` shows it), that the server reports and answers, and that a monitor handles
what it was sent; nothing of the opening and closing of sessions. `TablesArrive` is conditional on a link and a session that stay up.
In `UpstreamLink`, `FairSpec` assumes that a timer fires, that a connection attempt ends,
well if the server accepts, and that a session told to close is closed; nothing of the server.

## Proofs

TLAPS checks every theorem below from the definitions alone, for every value of the
constants that meets the named assumptions of their module; TLC evaluates those
assumptions on every run. They say that documents, bodies, rows and network names have
the types the code gives them, and that the value for "nothing" is none of them. One,
`FanOfBase`, is about names: the base of a slot `base-0` is `base`, or none for an
`OBP` name, because `_parse_virtual_inject_master` cuts at the last hyphen. The theorems
about the composition also assume `EveryBody`: the bodies that may be published are all
CONFIGs and all BRIDGEs over the names, keys and peer rows (the runs of
`MCReportProxy` and `MCServedProxy` list those that their documents can lead to).
Every safety and action property that a passing run checks is stated by a theorem.

### The use cases, with any translator

For any number of monitors, any bodies and any bound of the queues
(`ProxyUseCases_proofs`):

- `TypeCorrect`: `TypeOK`.
- `ResetsKeepTablesRight`, `MastersMatchCache`: `CachedMasters` and `MonitorSafe`.
  `MonitorSafe` speaks of what the monitor has handled and is not inductive: the CONFIGs
  still on their way decide. `SafetyInv` adds `Stream`: the CONFIGs queued for an open
  session carry no masters at first and then, for good, the masters last broadcast, and
  once CTABLE is built only those can follow. A publication either keeps the masters,
  starts from none (then nothing queued has any), or resets every active session, and a
  closing session owes nothing any more.
- `NoSessionLeftBehind`: `SessionsConverge`. The invariant is `Converges`, said once for
  CONFIG and once for BRIDGE: what a session will have handled when its queue is empty is
  what the cache holds. A publication in two parts (a live BRIDGE, then the merged one)
  keeps it at its end, not in between.
- `ConfigComesFirst`: `ConfigFirst`. `ConfigAhead` adds where the CONFIG is as long as
  the monitor has not handled it: at the front of the queue, which appending does not
  change and only the monitor's own reading ends.
- `BadConfigStopped`: `NoBadConfig`, which is inductive with the types: the queues hold
  nothing the cache would not.
- `NoNeedlessReset`, `AskedOnlyWhenNeeded`: the action properties `ResetsAreNeeded` and
  `AskedWhenNeeded`. The first needs `SafetyInv` and `SessionsConverge` of the state
  before the step: the session's own last CONFIG has the masters that
  `broadcast_masters` remembers.
- `ConfigFeedImplemented`, `BridgeFeedImplemented`: `ServesConfigs` and `ServesBridges`,
  the refinement of `TopicFeed`. `Feed(op)` is both mappings at once, and each step of
  the use cases is a step of the feed or changes nothing of it. The mapping filters the
  wire by kind with `SelectSeq`, so what it makes of a longer or a shorter wire is proved
  by induction over numbers, from the facts on recursion in `NatLemmas`.
- `FeedConverges` (`TopicFeed_proofs`), of the abstract feed itself: a session that was
  delivered all it was given has the current value. `FeedInv` adds that a client
  without a session has nothing in its inbox.

### The translator

For any network and any documents (`ReportProxy_proofs`, first part):

- `MapperInvariant`: the inductive invariant `Inv`, which is `TypeOK`, `MastersTracked`
  and `KnownArePublished`. The last needs the first two because
  `_collect_master_shell_names` draws on `last_config`, whose masters must be tracked
  already for the next CONFIG to have their rows. `MapperTypeCorrect`,
  `MastersTrackedAlways` and `KnownMastersPublished` are its parts.
- `MastersStay`: `NoMasterVanishes`. Every branch either keeps `last_config` or builds
  one over shells for all its masters.
- `DepartedPeersGone`: `NoStalePeers`. The peers of each master in the CONFIG a branch
  builds come from the topology or the dashboard document: shells and masters taken over
  from `last_config` have none.
- `SameDocumentSameConfig`: `StateIsIdempotent`. `FromDashboard` after the step is
  `FromDashboard` before it, for the names and bases the step adds are already those of
  the CONFIG it built. An empty CONFIG is not kept, and is the case to look at on its own.

### The program

The use cases and this translator together (`ReportProxy_proofs`):

- `ProgramImplementsUseCases`: `ImplementsUseCases`, that is `ProxySpec => Proxy!Spec`.
  A call of `stringReceived` is one action of the translator and maps to one action of
  the use cases; what it returned is a result that the abstract translator may return,
  because the merge with the sessions that live is one of those that `Enriched` allows.
- `ProgramKeepsMonitorsRight`, `ProgramActsWhenNeeded` and `ProgramServesFeeds` then carry
  the theorems about the use cases over to the program.
- `SentBridgeIsCached`: `SentMeansCached`; the flag is only set with a BRIDGE in the same
  result, an exception takes it back with the connection, and nothing empties the cache.
- `SessionsInCachedBridge`, `ExpiredLegsLeave`: `SessionsShown` and `ExpiredLegsEnd`.
- `ServedIsProgram`: `ServedProxy` implements `ProxySpec`, so all of this holds next to a
  server too.
- `MissesEndWithHello`: `MissOnlyBeforeHello` of `ServedProxy`, whose server speaks v2.
  `BridgeAfterHello` is the invariant: while the link is up the HELLO is the next frame or a
  BRIDGE is cached, and one is cached whenever `upstream_v2` is set, over reconnections too.

### The rest

- `UpstreamLink_proofs`, for any number of delays: `LinkInvariant`, `LinkTypeCorrect`,
  `LinkNeverStranded`, `LinkCarriesRequests` and `LinkDelays`. `LinkInv` adds to the
  invariants of the run that a closing session is a session, and that the delay of a
  connected link is reset; without the last, `DelayFollowsOutcome` does not follow.
- `DeltaFeed_proofs`, for any rows and bounds: `UnbrokenExact`, `NoGapNoAlarm` and
  `GapIsLogged`. None is inductive. `DeltaInv` adds what the frames on their way say:
  they are numbered without a gap up to the server's number (`Chain`), they continue the
  kept number while nothing was missed, and what was missed lies between the two
  (`Continued`), and the last of them that says something of a row says what the server
  has (`RowsArrive`).
- `StaticTalkgroups_proofs`, for any rows, options and talkgroups: `StaticTypes`,
  `StaleTalkgroups`, `TalkgroupsOnce`, `HotspotTalkgroups` and `SlimStates`. What is read
  from options, merged and joined is a fold over a list; each fold is proved to keep
  exactly the talkgroups it should by induction along the list. `Accounted` says of a
  value that rows declare all of its talkgroups, and declare them once unless a text has
  a comma; `Inductive` says it of what is shown, with the exception of a master omitted
  while no topology is cached.
- `UaSessions_proofs`, for any routing tables and sessions: `MergesDoNotAddUp`,
  `MergesTouchNothingElse` and `LiveSessionsAreShown`. `BridgeInv` compares positions,
  not counts: the legs in the place of a session are those of the routing table, or a
  single one where there was none (`Grown`). That is kept by one session, by all of one
  CONFIG (a fold) and by one CONFIG after another.

### What the proofs changed

Some formulas that held on the instances were not true of all, and some were true for
another reason than the comment gave; the modules say now what holds.

- `NoStalePeers` is about masters. A row that is no master, taken over from the previous
  CONFIG while no topology is cached, keeps its peers: `WithoutPeers` empties masters
  only, as `_merge_dashboard_state_into_previous_config` does.
- `ExpiredLegsEnd` is about steps that handle a frame; with the expiry itself nothing is
  merged.
- Documents are functions over a set of names, and `DocumentTypes` says so: a set that is
  no function has no rows that `Over` could keep.

### Only model-checked

- The liveness properties `MonitorsRecover`, `MonitorsCatchUp`, `TablesArrive` and
  `EventuallyConnected`: this prover has no rules for fairness and ENABLED. What they
  need of the states is proved (what is queued ends in the cache, the link is never
  stranded); that the steps come about is TLC's.
- That the two violated properties are violated: a proof would have to exhibit a
  behaviour, and TLC does.
- How the modules fit that each refine one thing of the composition. That `DeltaFeed` is what `V2ToV1Mapper`
  leaves out of the numbers, or `UaSessions` what it leaves out of the legs, is read off
  the code, not proved.

## Plan

Done: the core (`ProxyUseCases`, `V2ToV1Mapper`, `ReportProxy`); the server
(`ServedProxy`, `DeltaFeed`), the client (`UpstreamLink`), the promise to a monitor
(`TopicFeed`, `ProxyFeeds`), `StaticTalkgroups` and `UaSessions`; the proofs of all their
safety and action properties and of the refinements. Next:

1. What the merge of `UaSessions` shows of places and talkgroups is `MergeUa` of the
   composition.
2. The lemmas on queues that `DeltaFeed_proofs` and `ProxyUseCases_proofs` both have,
   into one module.
3. The numbers of `DeltaFeed` under the snapshots of `V2ToV1Mapper`.

## Not modelled

- The configuration loader (a YAML file read once before the reactor starts), `ports`
  (interfaces), `Result`, the wording of log lines: no state, no interaction.
- Lines 247-333 of the mapper: fields of CONFIG rows are renamed, encoded and given
  defaults, each for itself; no control decision reads them. The same holds for the
  fields of the voice CSV.
- Pickling, JSON and netstring framing but for what raises or closes a connection; the
  sizes of bodies, hence when a netstring is too long for a legacy monitor.
- Connections that are half open: the code sets no keep-alive and no timeout, so
  there is nothing to model; the liveness properties assume that a dead connection is
  reported.
- A server that restarts with numbers that fit is in `DeltaFeed`, but no property rules
  out that rows of the two processes mix until the next full snapshot: the code has
  nothing to tell them apart.
