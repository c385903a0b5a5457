------------------------------ MODULE ReportProxy ------------------------------
(******************************************************************************)
(* The whole of adn-report-proxy, as main wires it: the translator of         *)
(* V2ToV1Mapper feeds the use cases of ProxyUseCases.  One call of            *)
(* stringReceived is one step: translate, then all that handle_upstream_frame *)
(* does with the frames, or the exception that drops the connection.          *)
(* upstream_v2 is shared: the translator writes it, the use cases read it.    *)
(******************************************************************************)
EXTENDS V2ToV1Mapper

CONSTANTS
    Clients,        \* the legacy monitors
    Configs,        \* bodies of CONFIG_SND that may be published
    Bridges,        \* bodies of BRIDGE_SND that may be published
    MaxWire,        \* bound: frames in flight to one monitor
    MaxReqs         \* bound: requests in flight to the upstream server

VARIABLES
    snapshot, broadcast_masters, cache_age,     \* ProxyState
    link, upstream_out,                         \* the upstream link
    conn, wire, monitor, greeted                \* the sessions of the monitors

\* The enrichment of a cached BRIDGE, and whether it raises, depend on what has
\* expired by then.
Proxy ==
    INSTANCE ProxyUseCases WITH
        Systems <- Names,
        Events <- Voices,
        MastersOf <- [config \in Configs |-> Masters(config)],
        Enriched <- [bc \in Bridges \X Configs |->
                        {MergeUa(bc[1], bc[2], gone) : gone \in SUBSET PeerRows}],
        Unmergeable <- {bc \in Bridges \X Configs : MergeRaises(bc[2], {})},
        Undecodable <- {},
        None <- Nil

ASSUME BodyTypes ==
    /\ \A config \in Configs : IsTable(config)
    /\ \A bridges \in Bridges : IsBridgeTable(bridges)
    /\ Nil \notin Configs \cup Bridges

translatorVars == <<upstream_v2, stateVars, bridges_frame_sent, out, expired>>
proxyVars == <<snapshot, broadcast_masters, cache_age, link, upstream_out,
               conn, wire, monitor, greeted>>
allVars == <<translatorVars, proxyVars>>

ProxyInit == Init /\ Proxy!Init

\* What translate returned, as the use cases take it.
Translated ==
    [live |-> IF out'.live = NoFrame THEN <<>> ELSE <<out'.live>>, config |-> out'.config]

\* Mutant: the sessions of the CONFIG before the published one are merged.
RefreshedTooLate(bridges, config) ==
    IF bridges = Nil THEN Nil ELSE MergeUa(bridges, last_config, expired)

\* Mutant: sessions that have expired are merged too.
RefreshedWithExpired(bridges, config) ==
    IF bridges = Nil THEN Nil ELSE MergeUa(bridges, config, {})

\* merge_ua_sessions_into_bridges on the cached BRIDGE, if there is one.
Refreshed(bridges, config) ==
    IF bridges = Nil THEN Nil ELSE MergeUa(bridges, config, expired)

\* Merging the sessions into the cached BRIDGE, if there is one, raises.
RefreshRaises(bridges, config) == bridges # Nil /\ MergeRaises(config, expired)

\* handle_upstream_frame after translate.
Publish(hello) ==
    LET bridge == Proxy!BridgeAfter(Translated.live)
    IN  \/ out'.end = "raised" /\ Proxy!TranslateRaises
        \/ out'.end = "ok" /\ Proxy!PublishLive(Translated, hello)
        \/ /\ out'.end = "ok"
           /\ out'.config # Nil
           /\ ~RefreshRaises(bridge, out'.config)
           /\ Proxy!PublishConfig(Translated, Refreshed(bridge, out'.config))
        \/ /\ out'.end = "dropped"
           /\ RefreshRaises(bridge, out'.config)
           /\ Proxy!PublishRaises(Translated)

\* The summary of the frame for the log, made before translate is called, raises on
\* a field that is no collection.
SummaryRaises ==
    /\ RaisesException
    /\ UNCHANGED <<upstream_v2, stateVars, expired>>

\* Mutant: frames still buffered are handled after the connection is lost.
BufferedFrame ==
    \/ (HelloV2 \/ HelloMalformed \/ Ignored) /\ Publish(TRUE)
    \/ TranslateOther /\ Publish(FALSE)

\* stringReceived on the upstream link.  A HELLO that is not v2's is ignored by
\* the translator.
UpstreamFrame ==
    /\ link = "up"
    /\ \/ (HelloV2 \/ HelloMalformed \/ Ignored) /\ Publish(TRUE)
       \/ (TranslateOther \/ SummaryRaises) /\ Publish(FALSE)

\* connectionLost tells the use cases, and they the translator.
ConnectionDropped == Proxy!UpstreamLost /\ OnUpstreamLost

\* What leaves the translator alone.
ProxyAlone ==
    /\ \/ Proxy!UpstreamConnected
       \/ Proxy!ServerReads
       \/ Proxy!CacheAges
       \/ \E c \in Clients : Proxy!MonitorNext(c)
    /\ UNCHANGED translatorVars

TimePasses == UNCHANGED proxyVars /\ \E p \in PeerRows : SessionsExpire(p)

ProxyNext == UpstreamFrame \/ ConnectionDropped \/ ProxyAlone \/ TimePasses

ProxySpec == ProxyInit /\ [][ProxyNext]_allVars

\* The view of the runs: out only names what the last step of the translator
\* returned, and no step reads it.
WithoutOut == <<upstream_v2, stateVars, bridges_frame_sent, expired, proxyVars>>

\* The view of the runs without monitors: the age of the cache then decides
\* nothing, and the request queue nothing as long as it is not full, which no
\* path to a new state is long enough for.
WithoutRequests ==
    <<upstream_v2, stateVars, bridges_frame_sent, expired, snapshot, broadcast_masters, link>>

-----------------------------------------------------------------------------
(* Properties. *)

\* The composition behaves as ProxyUseCases says with any translator: whatever
\* the translator remembers, returns or raises, a step is a step of the abstract
\* proxy or changes nothing of it.
ImplementsUseCases == Proxy!Spec

\* The legs of bridges show every live user-activated session of config.
Shows(bridges, config, gone) ==
    \A s \in UaSessions(config, gone) :
        /\ s[2] \in DOMAIN bridges
        /\ s[1] \in DOMAIN bridges[s[2]]
        /\ bridges[s[2]][s[1]] = TRUE

\* "build_tgstats runs on BRIDGE_SND only; build_stats on CONFIG_SND": once a step
\* has published a CONFIG, the BRIDGE that the cache then holds shows all the live
\* user-activated sessions of that very CONFIG, whichever document brought it and
\* in whatever order routing, state and link losses came before.
SessionsShown ==
    [][out'.end = "ok" /\ out'.config # Nil /\ snapshot'.bridge # Nil =>
          Shows(snapshot'.bridge, snapshot'.config, expired')]_allVars

\* The master of each leg that is ON, with its table.
OnLegs(bridges) ==
    {leg \in Names \X DOMAIN bridges :
        leg[1] \in DOMAIN bridges[leg[2]] /\ bridges[leg[2]][leg[1]] = TRUE}

\* A session that expires is not merged again, but its leg stays ON in the cached
\* BRIDGE, onto which every CONFIG is merged.  The next BRIDGE of a v2 server ends
\* that: what is then ON is ON in the routing table or a session still live in the
\* CONFIG before it or with it.
ExpiredLegsEnd ==
    [][out'.live.op = "BRIDGE_SND" /\ upstream_v2' /\ UpstreamFrame =>
          \A leg \in OnLegs(snapshot'.bridge) :
             \/ leg \in OnLegs(Keyed(routing_snapshot'))
             \/ leg \in UaSessions(last_config, expired)
             \/ out'.config # Nil /\ leg \in UaSessions(out'.config, expired)]_allVars

\* "legacy monitors expect at least one BRIDGE_SND": bridges_frame_sent, which
\* keeps a later HELLO from sending an empty one, is never set while the cache
\* holds no BRIDGE, also when a routing frame raises after setting it.
SentMeansCached == bridges_frame_sent => snapshot.bridge # Nil

\* "Keep legacy snapshots across upstream TCP churn (adn-server reconnects ~60s)":
\* were it so, the frames of a reconnection would not empty the cached BRIDGE.
BridgeSurvivesChurn ==
    [][HelloV2 /\ snapshot.bridge \notin {Nil, EmptyTable} =>
          snapshot'.bridge = snapshot.bridge]_allVars
===============================================================================
