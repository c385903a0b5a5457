------------------------ MODULE ProxyUseCases_proofs ------------------------
(******************************************************************************)
(* The orchestration, for every number of monitors, every set of frame bodies *)
(* and every length of the queues.  First the type invariant and the          *)
(* agreement of broadcast_masters with the cached CONFIG and of CTABLE with   *)
(* the CONFIGs of a session.  Then what a session was sent last, the order    *)
(* of CONFIG and BRIDGE, CONFIGs that do not unpickle, and the steps that     *)
(* reset a session or ask the server.  The last four sections prove that the  *)
(* use cases implement TopicFeed for CONFIG and for BRIDGE: each step of the  *)
(* proxy is one of the feed or changes nothing of it.                         *)
(******************************************************************************)
EXTENDS ProxyFeeds, NatLemmas

-----------------------------------------------------------------------------
(* Lemmas about frames. *)

\* A sequence of one element.
LEMMA Singleton ==
    ASSUME NEW S, NEW e \in S
    PROVE  /\ <<e>> \in Seq(S)
           /\ DOMAIN <<e>> = {1}
           /\ <<e>>[1] = e
  OBVIOUS

\* The empty sequence.
LEMMA Empty ==
    ASSUME NEW S
    PROVE  /\ <<>> \in Seq(S)
           /\ DOMAIN <<>> = {}
  OBVIOUS

\* Every frame has an opcode of its kind and a body of that kind.
LEMMA FrameKinds ==
    /\ \A f \in Frames : f.op = "CONFIG_SND" => f.body \in Configs
    /\ \A f \in Frames : f.op = "BRIDGE_SND" => f.body \in Bridges
    /\ \A f \in BridgeFrames \cup EventFrames : f \in Frames /\ f.op # "CONFIG_SND"
    /\ \A f \in BridgeFrames : f.op = "BRIDGE_SND" /\ f.body \in Bridges
    /\ \A config \in Configs : /\ Frame("CONFIG_SND", config) \in Frames
                               /\ Frame("CONFIG_SND", config).op = "CONFIG_SND"
                               /\ Frame("CONFIG_SND", config).body = config
    /\ \A bridge \in Bridges : /\ Frame("BRIDGE_SND", bridge) \in BridgeFrames
                               /\ Frame("BRIDGE_SND", bridge).op = "BRIDGE_SND"
                               /\ Frame("BRIDGE_SND", bridge).body = bridge
  BY DEF Frames, ConfigFrames, BridgeFrames, EventFrames, Frame

\* The frame of a cached CONFIG, if there is one.
LEMMA ConfigFrameType ==
    ASSUME NEW config \in Configs \cup {None}
    PROVE  /\ ConfigFrameOf(config) \in Seq(Frames)
           /\ \A i \in DOMAIN ConfigFrameOf(config) :
                 /\ ConfigFrameOf(config)[i].op = "CONFIG_SND"
                 /\ ConfigFrameOf(config)[i].body = config
                 /\ config # None
<1>1. CASE config = None
  BY <1>1, Empty DEF ConfigFrameOf
<1>2. CASE config # None
  <2> DEFINE f == Frame("CONFIG_SND", config)
  <2>1. f \in Frames /\ f.op = "CONFIG_SND" /\ f.body = config
    BY <1>2, FrameKinds
  <2>2. ConfigFrameOf(config) = <<f>>
    BY <1>2 DEF ConfigFrameOf
  <2> HIDE DEF f
  <2> QED
    BY <1>2, <2>1, <2>2, Singleton
<1> QED
  BY <1>1, <1>2

\* The frame of a cached BRIDGE, if there is one.
LEMMA BridgeFrameType ==
    ASSUME NEW bridge \in Bridges \cup {None}
    PROVE  /\ BridgeFrameOf(bridge) \in Seq(Frames)
           /\ \A i \in DOMAIN BridgeFrameOf(bridge) :
                 /\ BridgeFrameOf(bridge)[i].op = "BRIDGE_SND"
                 /\ BridgeFrameOf(bridge)[i].body = bridge
                 /\ bridge # None
<1>1. CASE bridge = None
  BY <1>1, Empty DEF BridgeFrameOf
<1>2. CASE bridge # None
  <2> DEFINE f == Frame("BRIDGE_SND", bridge)
  <2>1. f \in Frames /\ f.op = "BRIDGE_SND" /\ f.body = bridge
    BY <1>2, FrameKinds
  <2>2. BridgeFrameOf(bridge) = <<f>>
    BY <1>2 DEF BridgeFrameOf
  <2> HIDE DEF f
  <2> QED
    BY <1>2, <2>1, <2>2, Singleton
<1> QED
  BY <1>1, <1>2

\* The live frame of an output is a sequence of frames without a CONFIG.
LEMMA LiveType ==
    ASSUME NEW out \in Outputs
    PROVE  /\ out.live \in Seq(Frames)
           /\ \A i \in DOMAIN out.live : out.live[i].op # "CONFIG_SND"
           /\ out.config \in Configs \cup {None}
<1>1. out.live \in {<<>>} \cup {<<f>> : f \in BridgeFrames \cup EventFrames}
  BY DEF Outputs
<1>2. CASE out.live = <<>>
  BY <1>2, Empty DEF Outputs
<1>3. CASE out.live # <<>>
  <2>1. PICK f \in BridgeFrames \cup EventFrames : out.live = <<f>>
    BY <1>1, <1>3
  <2>2. f \in Frames /\ f.op # "CONFIG_SND"
    BY FrameKinds
  <2> QED
    BY <2>1, <2>2, Singleton DEF Outputs
<1> QED
  BY <1>2, <1>3

\* What a publication writes to every session: the live frame, the enriched
\* BRIDGE, the CONFIG.  Its only CONFIG is the published one.
LEMMA PublishedFrames ==
    ASSUME NEW out \in Outputs, NEW enriched \in Bridges \cup {None},
           out.config # None
    PROVE  LET frames == out.live \o BridgeFrameOf(enriched) \o ConfigFrameOf(out.config)
           IN  /\ frames \in Seq(Frames)
               /\ \A i \in DOMAIN frames :
                     frames[i].op = "CONFIG_SND" => frames[i].body = out.config
<1> DEFINE live == out.live
           bridge == BridgeFrameOf(enriched)
           config == ConfigFrameOf(out.config)
<1>1. /\ live \in Seq(Frames)
      /\ \A i \in DOMAIN live : live[i].op # "CONFIG_SND"
  BY LiveType
<1>2. /\ bridge \in Seq(Frames)
      /\ \A i \in DOMAIN bridge : bridge[i].op # "CONFIG_SND"
  BY BridgeFrameType
<1>3. /\ config \in Seq(Frames)
      /\ \A i \in DOMAIN config : config[i].body = out.config
  BY LiveType, ConfigFrameType
<1> HIDE DEF live, bridge, config
<1>4. /\ live \o bridge \in Seq(Frames)
      /\ \A i \in DOMAIN (live \o bridge) : (live \o bridge)[i].op # "CONFIG_SND"
  BY <1>1, <1>2, ConcatProperties, LenProperties
<1>5. /\ (live \o bridge) \o config \in Seq(Frames)
      /\ \A i \in DOMAIN ((live \o bridge) \o config) :
            ((live \o bridge) \o config)[i].op = "CONFIG_SND"
               => ((live \o bridge) \o config)[i].body = out.config
  BY <1>3, <1>4, ConcatProperties, LenProperties
<1> QED
  BY <1>5 DEF live, bridge, config

\* The cached BRIDGE after the live frame is a BRIDGE, or still none.
LEMMA BridgeAfterType ==
    ASSUME TypeOK, NEW out \in Outputs
    PROVE  BridgeAfter(out.live) \in Bridges \cup {None}
  BY FrameKinds DEF BridgeAfter, TypeOK, Outputs

\* A broadcast keeps the queues of the sessions sequences of frames.
LEMMA BroadcastType ==
    ASSUME TypeOK, NEW frames \in Seq(Frames), Broadcast(frames)
    PROVE  wire' \in [Clients -> Seq(Frames)]
<1>1. \A c \in Clients : wire[c] \o frames \in Seq(Frames)
  BY ConcatProperties DEF TypeOK
<1> QED
  BY <1>1 DEF Broadcast, TypeOK

\* Requests keep the request queue typed.
LEMMA RequestType ==
    ASSUME TypeOK, NEW req \in Requests
    PROVE  /\ Send(req) => upstream_out' \in Seq(Requests)
           /\ RequestUpstreamRefresh(req) => upstream_out' \in Seq(Requests)
<1>1. \A r \in Requests : Append(upstream_out, r) \in Seq(Requests)
  BY AppendProperties DEF TypeOK
<1> QED
  BY <1>1 DEF TypeOK, Send, RequestUpstreamRefresh, Requests

-----------------------------------------------------------------------------
(* The type invariant. *)

\* A frame of the server keeps the types.
LEMMA UpstreamFrameType ==
    ASSUME TypeOK, HandleUpstreamFrame
    PROVE  TypeOK'
<1>1. PICK out \in Outputs :
         \/ \E hello \in BOOLEAN : PublishLive(out, hello)
         \/ \E enriched \in Bridges \cup {None} : PublishConfig(out, enriched)
         \/ PublishRaises(out)
         \/ TranslateRaises
  BY DEF HandleUpstreamFrame
<1>2. upstream_v2' \in BOOLEAN
  BY DEF HandleUpstreamFrame
<1>3. /\ BridgeAfter(out.live) \in Bridges \cup {None}
      /\ AgeAfter(out.live) \in {"never", "fresh", "stale"}
  BY BridgeAfterType DEF AgeAfter, TypeOK
<1>4. CASE \E hello \in BOOLEAN : PublishLive(out, hello)
  <2>1. PICK hello \in BOOLEAN : PublishLive(out, hello)
    BY <1>4
  <2>2. wire' \in [Clients -> Seq(Frames)]
    BY <2>1, LiveType, BroadcastType DEF PublishLive
  <2>3. upstream_out' \in Seq(Requests)
    BY <2>1, RequestType DEF PublishLive, BootstrapRouting, Requests, TypeOK
  <2> QED
    BY <1>2, <1>3, <2>1, <2>2, <2>3 DEF PublishLive, TypeOK
<1>5. CASE \E enriched \in Bridges \cup {None} : PublishConfig(out, enriched)
  <2>1. PICK enriched \in Bridges \cup {None} : PublishConfig(out, enriched)
    BY <1>5
  <2>2. wire' \in [Clients -> Seq(Frames)]
    BY <2>1, PublishedFrames, BroadcastType DEF PublishConfig
  <2>3. /\ out.config \in Configs
        /\ MastersOf[out.config] \in SUBSET Systems
    BY <2>1, LiveType, MastersType DEF PublishConfig
  <2>4. conn' \in [Clients -> {"down", "open", "closing", "closed"}]
    BY <2>1 DEF PublishConfig, DisconnectAll, TypeOK
  <2> QED
    BY <1>2, <2>1, <2>2, <2>3, <2>4 DEF PublishConfig, KeepMasters, TypeOK
<1>6. CASE PublishRaises(out)
  <2>1. wire' \in [Clients -> Seq(Frames)]
    BY <1>6, LiveType, BroadcastType DEF PublishRaises
  <2>2. upstream_out' \in Seq(Requests)
    BY <1>6, Empty DEF PublishRaises
  <2> QED
    BY <1>2, <1>3, <1>6, <2>1, <2>2 DEF PublishRaises, TypeOK
<1>7. CASE TranslateRaises
  <2>1. upstream_out' \in Seq(Requests)
    BY <1>7, Empty DEF TranslateRaises
  <2> QED
    BY <1>2, <1>7, <2>1 DEF TranslateRaises, TypeOK, cacheVars, sessionVars
<1> QED
  BY <1>1, <1>4, <1>5, <1>6, <1>7

\* A monitor that handles a frame stays typed.
LEMMA HandledType ==
    ASSUME TypeOK, NEW c \in Clients, NEW frame \in Frames
    PROVE  Handled(monitor[c], frame) \in [config : Configs \cup {None},
                                           bridge : Bridges \cup {None},
                                           ctable : SUBSET Systems]
<1>1. /\ frame.op = "CONFIG_SND" => frame.body \in Configs
      /\ frame.op = "BRIDGE_SND" => frame.body \in Bridges
  BY FrameKinds
<1>2. frame.op = "CONFIG_SND" => MastersOf[frame.body] \in SUBSET Systems
  BY <1>1, MastersType
<1> QED
  BY <1>1, <1>2 DEF Handled, TypeOK

\* A step of a monitor or of its session keeps the types.
LEMMA MonitorType ==
    ASSUME TypeOK, NEW c \in Clients, MonitorNext(c)
    PROVE  TypeOK'
<1> USE DEF cacheVars, upstreamVars, sessionVars
<1>0. FreshMonitor \in [config : Configs \cup {None},
                        bridge : Bridges \cup {None},
                        ctable : SUBSET Systems]
  BY DEF FreshMonitor
<1>1. CASE OnDownstreamConnected(c)
  <2>1. ConfigFrameOf(snapshot.config) \o BridgeFrameOf(snapshot.bridge) \in Seq(Frames)
    BY ConfigFrameType, BridgeFrameType, ConcatProperties DEF TypeOK
  <2> QED
    BY <1>1, <2>1 DEF OnDownstreamConnected, SnapshotForClient, TypeOK
<1>2. CASE \E req \in {"CONFIG_REQ", "BRIDGE_REQ"} : HandleDownstreamRequest(c, req)
  <2>1. PICK req \in {"CONFIG_REQ", "BRIDGE_REQ"} : HandleDownstreamRequest(c, req)
    BY <1>2
  <2> DEFINE cached == IF req = "CONFIG_REQ" THEN ConfigFrameOf(snapshot.config)
                                             ELSE BridgeFrameOf(snapshot.bridge)
  <2>2. cached \in Seq(Frames)
    BY ConfigFrameType, BridgeFrameType DEF TypeOK
  <2>3. /\ \/ /\ cached # <<>>
              /\ ServeFromCache(c, cached[1])
           \/ /\ cached = <<>>
              /\ RequestUpstreamRefresh(req)
              /\ UNCHANGED wire
        /\ UNCHANGED <<cacheVars, upstream_v2, link, conn, monitor, greeted>>
    BY <2>1 DEF HandleDownstreamRequest
  <2> HIDE DEF cached
  <2>4. cached # <<>> => cached[1] \in Frames
    BY <2>2, EmptySeq, ElementOfSeq
  <2>5. wire' \in [Clients -> Seq(Frames)]
    <3>1. wire \in [Clients -> Seq(Frames)]
      BY DEF TypeOK
    <3>2. CASE cached = <<>>
      BY <2>3, <3>1, <3>2
    <3>3. CASE cached # <<>>
      <4>1. Append(wire[c], cached[1]) \in Seq(Frames)
        BY <2>4, <3>1, <3>3, AppendProperties
      <4>2. wire' = [wire EXCEPT ![c] = Append(@, cached[1])]
        BY <2>3, <3>3 DEF ServeFromCache
      <4> QED
        BY <3>1, <4>1, <4>2
    <3> QED
      BY <3>2, <3>3
  <2>6. upstream_out' \in Seq(Requests)
    <3>1. req \in Requests /\ "CONFIG_REQ" \in Requests
      BY DEF Requests
    <3>2. upstream_out \in Seq(Requests)
      BY DEF TypeOK
    <3> QED
      BY <2>3, <3>1, <3>2, RequestType DEF ServeFromCache
  <2> QED
    BY <2>3, <2>5, <2>6 DEF TypeOK
<1>3. CASE TransportClosed(c)
  BY <1>3 DEF TransportClosed, TypeOK
<1>4. CASE ConnectionLost(c)
  BY <1>0, <1>4, Empty DEF ConnectionLost, TypeOK
<1>5. CASE MonitorReceives(c)
  <2>1. Head(wire[c]) \in Frames /\ Tail(wire[c]) \in Seq(Frames)
    BY <1>5, HeadTailProperties DEF MonitorReceives, TypeOK
  <2>2. monitor' \in [Clients -> [config : Configs \cup {None},
                                  bridge : Bridges \cup {None},
                                  ctable : SUBSET Systems]]
    BY <1>5, <2>1, HandledType DEF MonitorReceives, TypeOK
  <2> QED
    BY <1>5, <2>1, <2>2 DEF MonitorReceives, TypeOK
<1>6. CASE MonitorSeesEOF(c)
  BY <1>0, <1>6 DEF MonitorSeesEOF, TypeOK
<1> QED
  BY <1>1, <1>2, <1>3, <1>4, <1>5, <1>6 DEF MonitorNext

\* The type invariant holds at the start and every step keeps it.
LEMMA TypeInit == Init => TypeOK
<1>1. <<>> \in Seq(Frames) /\ <<>> \in Seq(Requests)
  BY Empty
<1>2. FreshMonitor \in [config : Configs \cup {None}, bridge : Bridges \cup {None},
                        ctable : SUBSET Systems]
  BY DEF FreshMonitor
<1> SUFFICES ASSUME Init
             PROVE  TypeOK
  OBVIOUS
<1>3. /\ snapshot \in [config : Configs \cup {None}, bridge : Bridges \cup {None}]
      /\ broadcast_masters \in SUBSET Systems
      /\ cache_age \in {"never", "fresh", "stale"}
      /\ upstream_v2 \in BOOLEAN
      /\ link \in {"up", "down"}
      /\ upstream_out \in Seq(Requests)
  BY <1>1 DEF Init
<1>4. /\ conn \in [Clients -> {"down", "open", "closing", "closed"}]
      /\ wire \in [Clients -> Seq(Frames)]
      /\ greeted \in [Clients -> BOOLEAN]
  BY <1>1 DEF Init
<1>5. monitor \in [Clients -> [config : Configs \cup {None}, bridge : Bridges \cup {None},
                               ctable : SUBSET Systems]]
  BY <1>2 DEF Init
<1> QED
  BY <1>3, <1>4, <1>5 DEF TypeOK

\* Every step of the proxy keeps the types.
LEMMA TypeStep == TypeOK /\ [Next]_vars => TypeOK'
<1> SUFFICES ASSUME TypeOK, [Next]_vars
             PROVE  TypeOK'
  OBVIOUS
<1> USE DEF cacheVars, upstreamVars, sessionVars
<1>1. CASE HandleUpstreamFrame
  BY <1>1, UpstreamFrameType
<1>2. CASE UpstreamConnected
  BY <1>2 DEF UpstreamConnected, TypeOK
<1>3. CASE UpstreamLost
  BY <1>3, Empty DEF UpstreamLost, TypeOK
<1>4. CASE ServerReads
  BY <1>4, HeadTailProperties DEF ServerReads, TypeOK
<1>5. CASE CacheAges
  BY <1>5 DEF CacheAges, TypeOK
<1>6. CASE \E c \in Clients : MonitorNext(c)
  BY <1>6, MonitorType
<1>7. CASE UNCHANGED vars
  BY <1>7 DEF vars, TypeOK
<1> QED
  BY <1>1, <1>2, <1>3, <1>4, <1>5, <1>6, <1>7 DEF Next, UpstreamNext

\* TypeOK: every variable stays in its type, for every choice of the constants.
THEOREM TypeCorrect == Spec => []TypeOK
<1>1. Init => TypeOK
  BY TypeInit
<1>2. TypeOK /\ [Next]_vars => TypeOK'
  BY TypeStep
<1> QED
  BY <1>1, <1>2, PTL DEF Spec

-----------------------------------------------------------------------------
(* The streams of the sessions. *)

\* Frames whose CONFIGs carry the masters broadcast last may follow a stream, if
\* the masters do not change or there were none.
LEMMA StreamAppend ==
    ASSUME NEW w \in Seq(Frames), NEW fs \in Seq(Frames),
           NEW ctable, NEW masters, NEW new,
           Stream(w, ctable, masters),
           masters = {} \/ new = masters,
           \A i \in DOMAIN fs : fs[i].op = "CONFIG_SND" => MastersOf[fs[i].body] = new
    PROVE  Stream(w \o fs, ctable, new)
<1> DEFINE v == w \o fs
<1>1. /\ Len(w) \in Nat /\ DOMAIN w = 1..Len(w)
      /\ Len(fs) \in Nat /\ DOMAIN fs = 1..Len(fs)
  BY LenProperties
<1>2. /\ DOMAIN v = 1..(Len(w) + Len(fs))
      /\ \A i \in DOMAIN v : v[i] = IF i <= Len(w) THEN w[i] ELSE fs[i - Len(w)]
  BY ConcatProperties, LenProperties
<1>3. \A i \in DOMAIN v : \/ i \in DOMAIN w /\ v[i] = w[i]
                          \/ /\ i > Len(w)
                             /\ i - Len(w) \in DOMAIN fs
                             /\ v[i] = fs[i - Len(w)]
  BY <1>1, <1>2
<1>4. \A i \in DOMAIN v : i \notin DOMAIN w /\ v[i].op = "CONFIG_SND" => MastersOf[v[i].body] = new
  BY <1>3
<1>5. \A i, j \in DOMAIN v : i < j /\ j \in DOMAIN w => i \in DOMAIN w
  BY <1>1, <1>2
<1> HIDE DEF v
<1>6. CASE new = masters
  <2>1. \A i \in DOMAIN v : i \in DOMAIN w => v[i] = w[i]
    BY <1>1, <1>3
  <2>2. \A i \in DOMAIN v : v[i].op = "CONFIG_SND" => MastersOf[v[i].body] \in {{}, new}
    BY <1>4, <1>6, <2>1 DEF Stream
  <2>3. ASSUME NEW i \in DOMAIN v, NEW j \in DOMAIN v, i < j,
               v[i].op = "CONFIG_SND", MastersOf[v[i].body] # {},
               v[j].op = "CONFIG_SND"
        PROVE  MastersOf[v[j].body] = new
    <3>1. CASE j \notin DOMAIN w
      BY <1>4, <2>3, <3>1
    <3>2. CASE j \in DOMAIN w
      <4>1. i \in DOMAIN w /\ v[i] = w[i] /\ v[j] = w[j]
        BY <1>5, <2>1, <2>3, <3>2
      <4> QED
        BY <1>6, <2>3, <3>2, <4>1 DEF Stream
    <3> QED
      BY <3>1, <3>2
  <2>4. ctable # {} => /\ ctable = new
                       /\ \A i \in DOMAIN v : v[i].op = "CONFIG_SND" => MastersOf[v[i].body] = new
    BY <1>4, <1>6, <2>1 DEF Stream
  <2>5. Stream(v, ctable, new)
    BY <2>2, <2>3, <2>4 DEF Stream
  <2> QED
    BY <2>5 DEF v
<1>7. CASE masters = {}
  <2>1. \A i \in DOMAIN v : i \in DOMAIN w => v[i] = w[i]
    BY <1>1, <1>3
  <2>2. ctable = {}
    BY <1>7 DEF Stream
  <2>3. \A i \in DOMAIN v : i \in DOMAIN w /\ v[i].op = "CONFIG_SND" => MastersOf[v[i].body] = {}
    BY <1>7, <2>1 DEF Stream
  <2> QED
    BY <1>4, <1>5, <2>2, <2>3 DEF Stream, v
<1> QED
  BY <1>6, <1>7

\* Handling the head of a stream leaves a stream and a table that matches.
LEMMA StreamTail ==
    ASSUME TypeOK, NEW c \in Clients, NEW masters,
           wire[c] # <<>>,
           Stream(wire[c], monitor[c].ctable, masters),
           TableMatches(c)
    PROVE  LET after == Handled(monitor[c], Head(wire[c]))
           IN  /\ Stream(Tail(wire[c]), after.ctable, masters)
               /\ after.config # None => after.ctable = MastersOf[after.config]
<1> DEFINE w == wire[c]
           t == Tail(w)
           m == monitor[c]
           after == Handled(m, Head(w))
<1>1. /\ w \in Seq(Frames) /\ w # <<>>
      /\ m \in [config : Configs \cup {None}, bridge : Bridges \cup {None},
                ctable : SUBSET Systems]
      /\ Stream(w, m.ctable, masters)
      /\ m.config # None => m.ctable = MastersOf[m.config]
  BY DEF TypeOK, TableMatches
<1>2. /\ Len(w) \in Nat \ {0} /\ DOMAIN w = 1..Len(w)
      /\ Head(w) = w[1]
      /\ t \in Seq(Frames)
      /\ DOMAIN t = 1..(Len(w) - 1)
      /\ \A i \in DOMAIN t : t[i] = w[i + 1]
  BY <1>1, EmptySeq, LenProperties, HeadTailProperties
<1>3. \A i \in DOMAIN t : /\ i + 1 \in DOMAIN w
                          /\ 1 < i + 1
                          /\ t[i] = w[i + 1]
  BY <1>2
<1>4. 1 \in DOMAIN w
  BY <1>2
<1> HIDE DEF w, t, m
<1>5. \A i, j \in DOMAIN t : i < j => i + 1 < j + 1
  BY <1>2
<1>6. Stream(t, m.ctable, masters)
  <2>1. \A i \in DOMAIN t : t[i].op = "CONFIG_SND" => MastersOf[t[i].body] \in {{}, masters}
    BY <1>1, <1>3 DEF Stream
  <2>2. ASSUME NEW i \in DOMAIN t, NEW j \in DOMAIN t, i < j,
               t[i].op = "CONFIG_SND", MastersOf[t[i].body] # {},
               t[j].op = "CONFIG_SND"
        PROVE  MastersOf[t[j].body] = masters
    <3>1. /\ i + 1 \in DOMAIN w /\ j + 1 \in DOMAIN w /\ i + 1 < j + 1
          /\ t[i] = w[i + 1] /\ t[j] = w[j + 1]
      BY <1>3, <1>5, <2>2
    <3> QED
      BY <1>1, <2>2, <3>1 DEF Stream
  <2>3. m.ctable # {} =>
           /\ m.ctable = masters
           /\ \A i \in DOMAIN t : t[i].op = "CONFIG_SND" => MastersOf[t[i].body] = masters
    BY <1>1, <1>3 DEF Stream
  <2> QED
    BY <2>1, <2>2, <2>3 DEF Stream
<1>7. CASE Head(w).op # "CONFIG_SND"
  <2>1. after.ctable = m.ctable /\ after.config = m.config
    BY <1>1, <1>7 DEF Handled
  <2> QED
    BY <1>1, <1>6, <2>1 DEF t, w, m
<1>8. CASE Head(w).op = "CONFIG_SND" /\ m.ctable # {}
  <2>1. after.ctable = m.ctable /\ after.config = Head(w).body
    BY <1>1, <1>8 DEF Handled
  <2>2. MastersOf[Head(w).body] = m.ctable
    BY <1>1, <1>2, <1>4, <1>8 DEF Stream
  <2> QED
    BY <1>6, <2>1, <2>2 DEF t, w, m
<1>9. CASE Head(w).op = "CONFIG_SND" /\ m.ctable = {}
  <2> DEFINE built == MastersOf[Head(w).body]
  <2>1. after.ctable = built /\ after.config = Head(w).body
    BY <1>1, <1>9 DEF Handled
  <2>2. built # {} => built = masters
    BY <1>1, <1>2, <1>4, <1>9 DEF Stream
  <2>3. built # {} => \A i \in DOMAIN t : t[i].op = "CONFIG_SND" => MastersOf[t[i].body] = masters
    BY <1>1, <1>2, <1>3, <1>4, <1>9 DEF Stream
  <2> HIDE DEF built
  <2>4. Stream(t, built, masters)
    BY <1>6, <2>2, <2>3 DEF Stream
  <2> QED
    BY <2>1, <2>4 DEF built, t, w, m
<1> QED
  BY <1>7, <1>8, <1>9

-----------------------------------------------------------------------------
(* The inductive invariant. *)

\* SafetyInv holds at the start.
LEMMA SafetyInit == Init => SafetyInv
<1> SUFFICES ASSUME Init
             PROVE  SafetyInv
  OBVIOUS
<1>1. TypeOK
  BY TypeInit
<1>2. CachedMasters
  BY DEF Init, CachedMasters
<1>3. \A c \in Clients : SessionInv(c)
  BY DEF Init, SessionInv
<1> QED
  BY <1>1, <1>2, <1>3 DEF SafetyInv

\* Frames without a CONFIG that are broadcast leave every stream a stream.
LEMMA LiveStep ==
    ASSUME SafetyInv, NEW frames \in Seq(Frames),
           \A i \in DOMAIN frames : frames[i].op # "CONFIG_SND",
           Broadcast(frames),
           UNCHANGED <<broadcast_masters, conn, monitor>>
    PROVE  \A c \in Clients : SessionInv(c)'
<1> SUFFICES ASSUME NEW c \in Clients
             PROVE  SessionInv(c)'
  OBVIOUS
<1>1. SessionInv(c) /\ wire[c] \in Seq(Frames)
  BY DEF SafetyInv, TypeOK
<1>2. CASE conn[c] = "open"
  <2>1. wire'[c] = wire[c] \o frames
    BY <1>2 DEF Broadcast, Active
  <2>2. Stream(wire[c] \o frames, monitor[c].ctable, broadcast_masters)
    BY <1>1, <1>2, StreamAppend DEF SessionInv
  <2> QED
    BY <1>1, <1>2, <2>1, <2>2 DEF SessionInv, TableMatches
<1>3. CASE conn[c] # "open"
  BY <1>1, <1>3 DEF SessionInv, Broadcast, Active
<1> QED
  BY <1>2, <1>3

\* A publication resets the open sessions or appends a CONFIG with the masters
\* they already have.
LEMMA ConfigStep ==
    ASSUME SafetyInv, NEW out \in Outputs, NEW enriched \in Bridges \cup {None},
           PublishConfig(out, enriched)
    PROVE  CachedMasters' /\ \A c \in Clients : SessionInv(c)'
<1> DEFINE masters == MastersOf[out.config]
           frames == out.live \o BridgeFrameOf(enriched) \o ConfigFrameOf(out.config)
<1>1. /\ frames \in Seq(Frames)
      /\ \A i \in DOMAIN frames :
            frames[i].op = "CONFIG_SND" => MastersOf[frames[i].body] = masters
  BY PublishedFrames DEF PublishConfig
<1>2. /\ broadcast_masters' = masters
      /\ Broadcast(frames)
      /\ monitor' = monitor
      /\ snapshot'.config = out.config
      /\ out.config # None
      /\ conn \in [Clients -> {"down", "open", "closing", "closed"}]
  BY DEF PublishConfig, KeepMasters, SafetyInv, TypeOK
<1>3. CachedMasters'
  BY <1>2 DEF CachedMasters
<1> HIDE DEF frames
<1>4. CASE broadcast_masters # {} /\ masters # broadcast_masters
  <2>1. DisconnectAll
    BY <1>4 DEF PublishConfig, MastersChange
  <2>2. \A c \in Clients : conn'[c] # "open" /\ (conn'[c] = "down" => conn[c] = "down")
    BY <1>2, <2>1 DEF DisconnectAll, Active
  <2>3. \A c \in Clients : SessionInv(c)
    BY DEF SafetyInv
  <2>4. \A c \in Clients : conn[c] = "down" => wire'[c] = wire[c]
    BY <1>2 DEF Broadcast, Active
  <2> QED
    BY <1>2, <1>3, <2>2, <2>3, <2>4 DEF SessionInv
<1>5. CASE ~(broadcast_masters # {} /\ masters # broadcast_masters)
  <2>1. conn' = conn
    BY <1>5 DEF PublishConfig, MastersChange
  <2>2. ASSUME NEW c \in Clients
        PROVE  SessionInv(c)'
    <3>1. SessionInv(c) /\ wire[c] \in Seq(Frames)
      BY DEF SafetyInv, TypeOK
    <3>2. CASE conn[c] = "open"
      <4>1. wire'[c] = wire[c] \o frames
        BY <1>2, <3>2 DEF Broadcast, Active
      <4>2. Stream(wire[c] \o frames, monitor[c].ctable, masters)
        BY <1>1, <1>5, <3>1, <3>2, StreamAppend DEF SessionInv
      <4> QED
        BY <1>2, <2>1, <3>1, <3>2, <4>1, <4>2 DEF SessionInv, TableMatches
    <3>3. CASE conn[c] # "open"
      BY <1>2, <2>1, <3>1, <3>3 DEF SessionInv, Broadcast, Active
    <3> QED
      BY <3>2, <3>3
  <2> QED
    BY <1>3, <2>2
<1> QED
  BY <1>4, <1>5

\* A frame of the server keeps the safety invariant.
LEMMA UpstreamFrameSafe ==
    ASSUME SafetyInv, HandleUpstreamFrame
    PROVE  CachedMasters' /\ \A c \in Clients : SessionInv(c)'
<1>1. PICK out \in Outputs :
         \/ \E hello \in BOOLEAN : PublishLive(out, hello)
         \/ \E enriched \in Bridges \cup {None} : PublishConfig(out, enriched)
         \/ PublishRaises(out)
         \/ TranslateRaises
  BY DEF HandleUpstreamFrame
<1>2. CASE \/ \E hello \in BOOLEAN : PublishLive(out, hello)
           \/ PublishRaises(out)
  <2>1. /\ Broadcast(out.live)
        /\ UNCHANGED <<broadcast_masters, conn, monitor>>
        /\ snapshot' = [snapshot EXCEPT !.bridge = BridgeAfter(out.live)]
    BY <1>2 DEF PublishLive, PublishRaises
  <2>2. CachedMasters'
    BY <2>1 DEF SafetyInv, TypeOK, CachedMasters
  <2> QED
    BY <2>1, <2>2, LiveType, LiveStep
<1>3. CASE \E enriched \in Bridges \cup {None} : PublishConfig(out, enriched)
  BY <1>3, ConfigStep
<1>4. CASE TranslateRaises
  BY <1>4 DEF TranslateRaises, cacheVars, sessionVars, SafetyInv, CachedMasters,
              SessionInv, TableMatches
<1> QED
  BY <1>1, <1>2, <1>3, <1>4

\* A step of one monitor leaves the other sessions alone.
LEMMA OtherSessions ==
    ASSUME SafetyInv, NEW c \in Clients, NEW d \in Clients, d # c,
           broadcast_masters' = broadcast_masters,
           conn'[d] = conn[d], wire'[d] = wire[d], monitor'[d] = monitor[d]
    PROVE  SessionInv(d)'
  BY DEF SafetyInv, SessionInv, TableMatches

\* A step of a monitor or of its session keeps the safety invariant.
LEMMA MonitorStepSafe ==
    ASSUME SafetyInv, NEW c \in Clients, MonitorNext(c)
    PROVE  CachedMasters' /\ \A d \in Clients : SessionInv(d)'
<1> USE DEF cacheVars, upstreamVars, sessionVars
<1>0. /\ TypeOK
      /\ SessionInv(c)
      /\ wire[c] \in Seq(Frames)
      /\ \A body \in Configs : body = snapshot.config => MastersOf[body] = broadcast_masters
  BY NoneIsNoBody DEF SafetyInv, TypeOK, CachedMasters
<1>1. /\ UNCHANGED <<snapshot, broadcast_masters>>
      /\ \A d \in Clients : d # c => /\ conn'[d] = conn[d]
                                     /\ wire'[d] = wire[d]
                                     /\ monitor'[d] = monitor[d]
  BY DEF MonitorNext, OnDownstreamConnected, HandleDownstreamRequest, ServeFromCache,
         TransportClosed, ConnectionLost, MonitorReceives, MonitorSeesEOF, SafetyInv, TypeOK
<1>2. CachedMasters'
  BY <1>1 DEF SafetyInv, CachedMasters
<1>3. \A d \in Clients : d # c => SessionInv(d)'
  BY <1>1, OtherSessions
<1>4. SessionInv(c)'
  <2>1. CASE OnDownstreamConnected(c)
    <3> DEFINE replay == ConfigFrameOf(snapshot.config) \o BridgeFrameOf(snapshot.bridge)
    <3>1. /\ conn'[c] = "open" /\ monitor'[c] = monitor[c]
          /\ wire'[c] = replay
          /\ monitor[c] = FreshMonitor
      BY <1>0, <2>1 DEF OnDownstreamConnected, SnapshotForClient, SessionInv, TypeOK
    <3>2. /\ snapshot.config \in Configs \cup {None}
          /\ snapshot.bridge \in Bridges \cup {None}
      BY <1>0 DEF TypeOK
    <3>3. /\ ConfigFrameOf(snapshot.config) \in Seq(Frames)
          /\ BridgeFrameOf(snapshot.bridge) \in Seq(Frames)
          /\ \A i \in DOMAIN ConfigFrameOf(snapshot.config) :
                MastersOf[ConfigFrameOf(snapshot.config)[i].body] = broadcast_masters
          /\ \A i \in DOMAIN BridgeFrameOf(snapshot.bridge) :
                BridgeFrameOf(snapshot.bridge)[i].op # "CONFIG_SND"
      BY <1>0, <3>2, ConfigFrameType, BridgeFrameType
    <3>4. Stream(<<>>, {}, broadcast_masters)
      BY Empty DEF Stream
    <3>5. <<>> \in Seq(Frames) /\ <<>> \o replay = replay /\ replay \in Seq(Frames)
      BY <3>3, Empty, ConcatEmptySeq, ConcatProperties
    <3>6. \A i \in DOMAIN replay :
             replay[i].op = "CONFIG_SND" => MastersOf[replay[i].body] = broadcast_masters
      BY <3>3, ConcatProperties, LenProperties
    <3> HIDE DEF replay
    <3>7. Stream(replay, {}, broadcast_masters)
      BY <3>4, <3>5, <3>6, StreamAppend
    <3> QED
      BY <1>1, <3>1, <3>7 DEF SessionInv, TableMatches, FreshMonitor
  <2>2. CASE \E req \in {"CONFIG_REQ", "BRIDGE_REQ"} : HandleDownstreamRequest(c, req)
    <3>1. PICK req \in {"CONFIG_REQ", "BRIDGE_REQ"} : HandleDownstreamRequest(c, req)
      BY <2>2
    <3> DEFINE cached == IF req = "CONFIG_REQ" THEN ConfigFrameOf(snapshot.config)
                                               ELSE BridgeFrameOf(snapshot.bridge)
    <3>2. /\ conn[c] = "open" /\ conn' = conn /\ monitor' = monitor
          /\ \/ cached # <<>> /\ wire'[c] = Append(wire[c], cached[1])
             \/ wire'[c] = wire[c]
      BY <1>0, <3>1 DEF HandleDownstreamRequest, ServeFromCache, TypeOK
    <3>3. /\ snapshot.config \in Configs \cup {None}
          /\ snapshot.bridge \in Bridges \cup {None}
      BY <1>0 DEF TypeOK
    <3>4. /\ cached \in Seq(Frames)
          /\ \A i \in DOMAIN cached :
                cached[i].op = "CONFIG_SND" => MastersOf[cached[i].body] = broadcast_masters
      BY <1>0, <3>3, ConfigFrameType, BridgeFrameType
    <3> HIDE DEF cached
    <3>5. CASE cached # <<>> /\ wire'[c] = Append(wire[c], cached[1])
      <4>1. 1 \in DOMAIN cached /\ cached[1] \in Frames
        BY <3>4, <3>5, EmptySeq, LenProperties, ElementOfSeq
      <4>2. /\ <<cached[1]>> \in Seq(Frames)
            /\ \A i \in DOMAIN <<cached[1]>> : <<cached[1]>>[i] = cached[1]
        BY <4>1, Singleton
      <4>3. Append(wire[c], cached[1]) = wire[c] \o <<cached[1]>>
        BY <1>0, <4>1, AppendIsConcat
      <4>4. Stream(wire[c] \o <<cached[1]>>, monitor[c].ctable, broadcast_masters)
        BY <1>0, <3>2, <3>4, <4>1, <4>2, StreamAppend DEF SessionInv
      <4> QED
        BY <1>0, <1>1, <3>2, <3>5, <4>3, <4>4 DEF SessionInv, TableMatches
    <3>6. CASE wire'[c] = wire[c]
      BY <1>0, <1>1, <3>2, <3>6 DEF SessionInv, TableMatches
    <3> QED
      BY <3>2, <3>5, <3>6
  <2>3. CASE TransportClosed(c)
    BY <1>0, <2>3 DEF TransportClosed, SessionInv, TypeOK
  <2>4. CASE ConnectionLost(c)
    BY <1>0, <2>4 DEF ConnectionLost, SessionInv, TypeOK
  <2>5. CASE MonitorReceives(c)
    <3>1. /\ wire[c] # <<>>
          /\ conn' = conn
          /\ wire'[c] = Tail(wire[c])
          /\ monitor'[c] = Handled(monitor[c], Head(wire[c]))
      BY <1>0, <2>5 DEF MonitorReceives, TypeOK
    <3>2. CASE conn[c] = "open"
      <4>1. Stream(wire[c], monitor[c].ctable, broadcast_masters) /\ TableMatches(c)
        BY <1>0, <3>2 DEF SessionInv
      <4>2. /\ Stream(wire'[c], monitor'[c].ctable, broadcast_masters)
            /\ monitor'[c].config # None
                  => monitor'[c].ctable = MastersOf[monitor'[c].config]
        BY <1>0, <3>1, <4>1, StreamTail
      <4> QED
        BY <1>1, <3>1, <3>2, <4>2 DEF SessionInv, TableMatches
    <3>3. CASE conn[c] # "open" /\ conn[c] # "down"
      BY <3>1, <3>3 DEF SessionInv
    <3>4. CASE conn[c] = "down"
      BY <1>0, <3>1, <3>4 DEF SessionInv
    <3> QED
      BY <3>2, <3>3, <3>4
  <2>6. CASE MonitorSeesEOF(c)
    BY <1>0, <2>6 DEF MonitorSeesEOF, SessionInv, TypeOK
  <2> QED
    BY <2>1, <2>2, <2>3, <2>4, <2>5, <2>6 DEF MonitorNext
<1> QED
  BY <1>2, <1>3, <1>4

\* Every step keeps the inductive invariant.
LEMMA SafetyStep == SafetyInv /\ [Next]_vars => SafetyInv'
<1> SUFFICES ASSUME SafetyInv, [Next]_vars
             PROVE  SafetyInv'
  OBVIOUS
<1> USE DEF cacheVars, upstreamVars, sessionVars
<1>1. TypeOK'
  BY TypeStep DEF SafetyInv
<1>2. CachedMasters' /\ \A c \in Clients : SessionInv(c)'
  <2>1. CASE HandleUpstreamFrame
    BY <2>1, UpstreamFrameSafe
  <2>2. CASE \/ UpstreamConnected \/ UpstreamLost \/ ServerReads \/ CacheAges
             \/ UNCHANGED vars
    <3>1. UNCHANGED <<snapshot, broadcast_masters, conn, wire, monitor>>
      BY <2>2 DEF UpstreamConnected, UpstreamLost, ServerReads, CacheAges, vars
    <3> QED
      BY <3>1 DEF SafetyInv, CachedMasters, SessionInv, TableMatches
  <2>3. CASE \E c \in Clients : MonitorNext(c)
    BY <2>3, MonitorStepSafe
  <2> QED
    BY <2>1, <2>2, <2>3 DEF Next, UpstreamNext
<1> QED
  BY <1>1, <1>2 DEF SafetyInv

\* CachedMasters and MonitorSafe: broadcast_masters is always the master set of
\* the cached CONFIG, and every session that is not being reset has in CTABLE
\* exactly the masters of the last CONFIG it handled.
THEOREM ResetsKeepTablesRight == Spec => [](CachedMasters /\ MonitorSafe)
<1>1. Init => SafetyInv
  BY SafetyInit
<1>2. SafetyInv /\ [Next]_vars => SafetyInv'
  BY SafetyStep
<1>3. SafetyInv => CachedMasters /\ MonitorSafe
  BY DEF SafetyInv, SessionInv, MonitorSafe
<1> QED
  BY <1>1, <1>2, <1>3, PTL DEF Spec

\* CachedMasters alone.
THEOREM MastersMatchCache == Spec => []CachedMasters
<1>1. CachedMasters /\ MonitorSafe => CachedMasters
  OBVIOUS
<1> QED
  BY <1>1, ResetsKeepTablesRight, PTL

-----------------------------------------------------------------------------
(* What a step does to the cache and to the sessions, for the proofs below. *)

\* Frames without a CONFIG go out, and the cached BRIDGE follows them.
LiveOut(out) ==
    /\ snapshot' = [snapshot EXCEPT !.bridge = BridgeAfter(out.live)]
    /\ Broadcast(out.live)
    /\ UNCHANGED <<broadcast_masters, conn, monitor, greeted>>

\* A call of stringReceived sends frames without a CONFIG, publishes a CONFIG or
\* changes neither the cache nor the sessions.
LEMMA UpstreamCases ==
    ASSUME UpstreamNext
    PROVE  \/ \E out \in Outputs : LiveOut(out)
           \/ \E out \in Outputs, enriched \in Bridges \cup {None} :
                 PublishConfig(out, enriched)
           \/ UNCHANGED <<snapshot, broadcast_masters, sessionVars>>
<1>1. CASE HandleUpstreamFrame
  <2>1. PICK out \in Outputs :
           \/ \E hello \in BOOLEAN : PublishLive(out, hello)
           \/ \E enriched \in Bridges \cup {None} : PublishConfig(out, enriched)
           \/ PublishRaises(out)
           \/ TranslateRaises
    BY <1>1 DEF HandleUpstreamFrame
  <2>2. CASE (\E hello \in BOOLEAN : PublishLive(out, hello)) \/ PublishRaises(out)
    BY <2>2 DEF PublishLive, PublishRaises, LiveOut
  <2>3. CASE TranslateRaises
    BY <2>3 DEF TranslateRaises, cacheVars, sessionVars
  <2> QED
    BY <2>1, <2>2, <2>3
<1>2. CASE UpstreamConnected \/ UpstreamLost \/ ServerReads \/ CacheAges
  BY <1>2 DEF UpstreamConnected, UpstreamLost, ServerReads, CacheAges,
              cacheVars, upstreamVars, sessionVars
<1> QED
  BY <1>1, <1>2 DEF UpstreamNext

\* A session opens with the replay of the cache.
Opens(c) ==
    /\ conn[c] = "down" /\ conn'[c] = "open"
    /\ wire'[c] = SnapshotForClient
    /\ monitor'[c] = monitor[c]
    /\ greeted'[c] = (snapshot.config # None)

\* A session is given a frame of the cache.
Answered(c) ==
    /\ conn[c] = "open" /\ conn'[c] = "open"
    /\ \/ /\ snapshot.config # None
          /\ wire'[c] = Append(wire[c], Frame("CONFIG_SND", snapshot.config))
       \/ /\ snapshot.bridge # None
          /\ wire'[c] = Append(wire[c], Frame("BRIDGE_SND", snapshot.bridge))
    /\ monitor'[c] = monitor[c]
    /\ greeted'[c] = greeted[c]

\* A session is closed, or nothing happens to it.
KeptOrClosed(c) ==
    /\ conn'[c] = conn[c] \/ (conn[c] = "closing" /\ conn'[c] = "closed")
    /\ wire'[c] = wire[c]
    /\ monitor'[c] = monitor[c]
    /\ greeted'[c] = greeted[c]

\* A session is gone, with all that its monitor knew.
Ends(c) ==
    /\ conn'[c] = "down"
    /\ wire'[c] = <<>>
    /\ monitor'[c] = FreshMonitor
    /\ greeted'[c] = FALSE

\* The monitor of a session handles a frame.
Receives(c) ==
    /\ wire[c] # <<>>
    /\ conn'[c] = conn[c]
    /\ wire'[c] = Tail(wire[c])
    /\ monitor'[c] = Handled(monitor[c], Head(wire[c]))
    /\ greeted'[c] = greeted[c]

\* A step of one monitor leaves the cache alone and does to every session one of
\* five things.
LEMMA MonitorCases ==
    ASSUME TypeOK, NEW c \in Clients, MonitorNext(c)
    PROVE  /\ UNCHANGED <<snapshot, broadcast_masters>>
           /\ \A d \in Clients :
                 Opens(d) \/ Answered(d) \/ KeptOrClosed(d) \/ Ends(d) \/ Receives(d)
<1> USE DEF cacheVars, upstreamVars, sessionVars
<1>1. UNCHANGED <<snapshot, broadcast_masters>>
  BY DEF MonitorNext, OnDownstreamConnected, HandleDownstreamRequest,
         TransportClosed, ConnectionLost, MonitorReceives, MonitorSeesEOF
<1>2. /\ conn \in [Clients -> {"down", "open", "closing", "closed"}]
      /\ wire \in [Clients -> Seq(Frames)]
      /\ monitor \in [Clients -> [config : Configs \cup {None},
                                  bridge : Bridges \cup {None},
                                  ctable : SUBSET Systems]]
      /\ greeted \in [Clients -> BOOLEAN]
      /\ snapshot.config \in Configs \cup {None}
      /\ snapshot.bridge \in Bridges \cup {None}
  BY DEF TypeOK
<1>3. ASSUME NEW d \in Clients, d # c
      PROVE  KeptOrClosed(d)
  BY <1>2, <1>3 DEF MonitorNext, OnDownstreamConnected, HandleDownstreamRequest,
         ServeFromCache, TransportClosed, ConnectionLost, MonitorReceives, MonitorSeesEOF,
         KeptOrClosed, TypeOK
<1>4. Opens(c) \/ Answered(c) \/ KeptOrClosed(c) \/ Ends(c) \/ Receives(c)
  <2>1. CASE OnDownstreamConnected(c)
    BY <1>2, <2>1 DEF OnDownstreamConnected, Opens, TypeOK
  <2>2. CASE \E req \in {"CONFIG_REQ", "BRIDGE_REQ"} : HandleDownstreamRequest(c, req)
    <3>1. PICK req \in {"CONFIG_REQ", "BRIDGE_REQ"} : HandleDownstreamRequest(c, req)
      BY <2>2
    <3> DEFINE cached == IF req = "CONFIG_REQ" THEN ConfigFrameOf(snapshot.config)
                                               ELSE BridgeFrameOf(snapshot.bridge)
    <3>2. /\ conn[c] = "open" /\ UNCHANGED <<conn, monitor, greeted>>
          /\ \/ cached # <<>> /\ wire' = [wire EXCEPT ![c] = Append(wire[c], cached[1])]
             \/ wire' = wire
      BY <3>1 DEF HandleDownstreamRequest, ServeFromCache
    <3>3. CASE wire' = wire
      BY <3>2, <3>3 DEF KeptOrClosed
    <3>4. CASE wire' # wire /\ req = "CONFIG_REQ"
      <4>1. snapshot.config # None
        BY <3>2, <3>4 DEF ConfigFrameOf
      <4>2. cached[1] = Frame("CONFIG_SND", snapshot.config)
        BY <3>4, <4>1 DEF ConfigFrameOf
      <4>3. wire'[c] = Append(wire[c], cached[1])
        BY <1>2, <3>2, <3>4
      <4> HIDE DEF cached
      <4> QED
        BY <3>2, <4>1, <4>2, <4>3 DEF Answered
    <3>5. CASE wire' # wire /\ req # "CONFIG_REQ"
      <4>1. snapshot.bridge # None
        BY <3>2, <3>5 DEF BridgeFrameOf
      <4>2. cached[1] = Frame("BRIDGE_SND", snapshot.bridge)
        BY <3>5, <4>1 DEF BridgeFrameOf
      <4>3. wire'[c] = Append(wire[c], cached[1])
        BY <1>2, <3>2, <3>5
      <4> HIDE DEF cached
      <4> QED
        BY <3>2, <4>1, <4>2, <4>3 DEF Answered
    <3> QED
      BY <3>3, <3>4, <3>5
  <2>3. CASE TransportClosed(c)
    BY <1>2, <2>3 DEF TransportClosed, KeptOrClosed
  <2>4. CASE ConnectionLost(c)
    BY <1>2, <2>4 DEF ConnectionLost, Ends
  <2>5. CASE MonitorReceives(c)
    <3>1. /\ wire[c] # <<>> /\ UNCHANGED <<conn, greeted>>
          /\ wire' = [wire EXCEPT ![c] = Tail(wire[c])]
          /\ monitor' = [monitor EXCEPT ![c] = Handled(monitor[c], Head(wire[c]))]
      BY <2>5 DEF MonitorReceives
    <3>2. /\ wire'[c] = Tail(wire[c])
          /\ monitor'[c] = Handled(monitor[c], Head(wire[c]))
      BY <1>2, <3>1
    <3> QED
      BY <3>1, <3>2 DEF Receives
  <2>6. CASE MonitorSeesEOF(c)
    BY <1>2, <2>6 DEF MonitorSeesEOF, Ends
  <2> QED
    BY <2>1, <2>2, <2>3, <2>4, <2>5, <2>6 DEF MonitorNext
<1> QED
  BY <1>1, <1>3, <1>4

-----------------------------------------------------------------------------
(* What a session has been sent last. *)

\* Streams follow one another: what the first leaves last is what the second
\* starts from.
LEMMA LastIsConcat ==
    ASSUME NEW w \in Seq(Frames), NEW fs \in Seq(Frames), NEW op,
           NEW seen, NEW mid, NEW body,
           LastIs(w, op, seen, mid), LastIs(fs, op, mid, body)
    PROVE  LastIs(w \o fs, op, seen, body)
<1> DEFINE v == w \o fs
<1>1. /\ Len(w) \in Nat /\ DOMAIN w = 1..Len(w)
      /\ Len(fs) \in Nat /\ DOMAIN fs = 1..Len(fs)
      /\ DOMAIN v = 1..(Len(w) + Len(fs))
      /\ \A i \in DOMAIN v : v[i] = IF i <= Len(w) THEN w[i] ELSE fs[i - Len(w)]
  BY ConcatProperties, LenProperties
<1>2. \A i \in DOMAIN w : i \in DOMAIN v /\ v[i] = w[i]
  BY <1>1
<1>3. \A i \in DOMAIN fs : /\ i + Len(w) \in DOMAIN v /\ i + Len(w) \notin DOMAIN w
                           /\ v[i + Len(w)] = fs[i]
  BY <1>1
<1>4. \A i \in DOMAIN v : i \in DOMAIN w \/ (i - Len(w) \in DOMAIN fs /\ v[i] = fs[i - Len(w)])
  BY <1>1
<1>5. \A i \in DOMAIN w, j \in DOMAIN fs : j + Len(w) > i
  BY <1>1
<1>6. \A i \in DOMAIN v, j \in DOMAIN fs : j > i - Len(w) => j + Len(w) > i
  BY <1>1
<1>7. ASSUME NEW i \in DOMAIN v, v[i].op = op,
             \A j \in DOMAIN v : j > i => v[j].op # op
      PROVE  v[i].body = body
  <2>1. CASE i \in DOMAIN w
    <3>1. \A j \in DOMAIN fs : fs[j].op # op
      BY <1>3, <1>5, <1>7, <2>1
    <3>2. w[i].body = mid
      BY <1>2, <1>7, <2>1 DEF LastIs
    <3> QED
      BY <1>2, <2>1, <3>1, <3>2 DEF LastIs
  <2>2. CASE i \notin DOMAIN w
    <3>1. i - Len(w) \in DOMAIN fs /\ v[i] = fs[i - Len(w)]
      BY <1>4, <2>2
    <3>2. \A j \in DOMAIN fs : j > i - Len(w) => fs[j].op # op
      BY <1>3, <1>6, <1>7
    <3> QED
      BY <1>7, <3>1, <3>2 DEF LastIs
  <2> QED
    BY <2>1, <2>2
<1>8. ASSUME \A i \in DOMAIN v : v[i].op # op
      PROVE  seen = body
  <2>1. (\A i \in DOMAIN w : w[i].op # op) /\ (\A i \in DOMAIN fs : fs[i].op # op)
    BY <1>2, <1>3, <1>8
  <2> QED
    BY <2>1 DEF LastIs
<1> HIDE DEF v
<1>9. LastIs(v, op, seen, body)
  BY <1>7, <1>8 DEF LastIs
<1> QED
  BY <1>9 DEF v

\* Frames of other kinds change nothing.
LEMMA LastIsOther ==
    ASSUME NEW fs \in Seq(Frames), NEW op, NEW body,
           \A i \in DOMAIN fs : fs[i].op # op
    PROVE  LastIs(fs, op, body, body)
  BY DEF LastIs

\* A single frame of the kind is the last one.
LEMMA LastIsSingle ==
    ASSUME NEW f \in Frames, NEW seen
    PROVE  /\ <<f>> \in Seq(Frames)
           /\ LastIs(<<f>>, f.op, seen, f.body)
           /\ \A op : op # f.op => LastIs(<<f>>, op, seen, seen)
<1>1. /\ <<f>> \in Seq(Frames)
      /\ DOMAIN <<f>> = {1}
      /\ <<f>>[1] = f
  BY Singleton
<1> QED
  BY <1>1 DEF LastIs

\* A frame that is handled moves from the queue to what was seen.
LEMMA LastIsTail ==
    ASSUME NEW w \in Seq(Frames), w # <<>>, NEW op, NEW seen, NEW body,
           LastIs(w, op, seen, body)
    PROVE  LastIs(Tail(w), op, IF Head(w).op = op THEN Head(w).body ELSE seen, body)
<1> DEFINE t == Tail(w)
           now == IF Head(w).op = op THEN Head(w).body ELSE seen
<1>1. /\ Len(w) \in Nat \ {0} /\ DOMAIN w = 1..Len(w)
      /\ Head(w) = w[1]
      /\ DOMAIN t = 1..(Len(w) - 1)
      /\ \A i \in DOMAIN t : t[i] = w[i + 1]
  BY EmptySeq, LenProperties, HeadTailProperties
<1>2. \A i \in DOMAIN t : i + 1 \in DOMAIN w /\ t[i] = w[i + 1]
  BY <1>1
<1>3. \A j \in DOMAIN w : j = 1 \/ (j - 1 \in DOMAIN t /\ w[j] = t[j - 1])
  BY <1>1
<1>4. 1 \in DOMAIN w /\ Head(w) = w[1]
  BY <1>1
<1>5. \A i \in DOMAIN t, j \in DOMAIN w : j > i + 1 => j # 1 /\ j - 1 > i
  BY <1>1
<1> HIDE DEF t
<1>6. ASSUME NEW i \in DOMAIN t, t[i].op = op,
             \A j \in DOMAIN t : j > i => t[j].op # op
      PROVE  t[i].body = body
  <2>1. \A j \in DOMAIN w : j > i + 1 => w[j].op # op
    BY <1>3, <1>5, <1>6
  <2> QED
    BY <1>2, <1>6, <2>1 DEF LastIs
<1>7. ASSUME \A i \in DOMAIN t : t[i].op # op
      PROVE  now = body
  <2>1. \A j \in DOMAIN w : j # 1 => w[j].op # op
    BY <1>3, <1>7
  <2>2. CASE Head(w).op = op
    <3>1. \A j \in DOMAIN w : j > 1 => w[j].op # op
      BY <1>1, <2>1
    <3> QED
      BY <1>4, <2>2, <3>1 DEF LastIs
  <2>3. CASE Head(w).op # op
    BY <1>4, <2>1, <2>3 DEF LastIs
  <2> QED
    BY <2>2, <2>3
<1>8. LastIs(t, op, now, body)
  BY <1>6, <1>7 DEF LastIs
<1> QED
  BY <1>8 DEF t

\* What a session will have handled once its queue is empty is the cache.
Converges(c) ==
    /\ LastIs(wire[c], "CONFIG_SND", monitor[c].config, snapshot.config)
    /\ LastIs(wire[c], "BRIDGE_SND", monitor[c].bridge, snapshot.bridge)

\* The live frame brings the cached BRIDGE to the sessions, and no CONFIG.
LEMMA LiveLast ==
    ASSUME TypeOK, NEW out \in Outputs
    PROVE  /\ out.live \in Seq(Frames)
           /\ LastIs(out.live, "CONFIG_SND", snapshot.config, snapshot.config)
           /\ LastIs(out.live, "BRIDGE_SND", snapshot.bridge, BridgeAfter(out.live))
<1>1. out.live \in Seq(Frames)
  BY LiveType
<1>2. LastIs(out.live, "CONFIG_SND", snapshot.config, snapshot.config)
  BY LiveType, LastIsOther
<1>3. CASE out.live = <<>>
  <2>1. BridgeAfter(out.live) = snapshot.bridge
    BY <1>3 DEF BridgeAfter
  <2>2. DOMAIN out.live = {}
    BY <1>3, Empty
  <2> QED
    BY <1>1, <1>2, <2>1, <2>2 DEF LastIs
<1>4. CASE out.live # <<>>
  <2>1. PICK f \in BridgeFrames \cup EventFrames : out.live = <<f>>
    BY <1>4 DEF Outputs
  <2>2. f \in Frames /\ out.live[1] = f
    BY <2>1, FrameKinds
  <2>3. BridgeAfter(out.live) = IF f.op = "BRIDGE_SND" THEN f.body ELSE snapshot.bridge
    BY <1>4, <2>2 DEF BridgeAfter
  <2> QED
    BY <1>1, <1>2, <2>1, <2>2, <2>3, LastIsSingle
<1> QED
  BY <1>3, <1>4

\* A publication brings the enriched BRIDGE and the CONFIG to the sessions.
LEMMA PublishedLast ==
    ASSUME TypeOK, NEW out \in Outputs, NEW enriched \in Bridges \cup {None},
           PublishConfig(out, enriched)
    PROVE  LET frames == out.live \o BridgeFrameOf(enriched) \o ConfigFrameOf(out.config)
           IN  /\ frames \in Seq(Frames)
               /\ LastIs(frames, "CONFIG_SND", snapshot.config, out.config)
               /\ LastIs(frames, "BRIDGE_SND", snapshot.bridge, enriched)
<1> DEFINE live == out.live
           bridge == BridgeFrameOf(enriched)
           config == ConfigFrameOf(out.config)
           after == BridgeAfter(out.live)
<1>1. /\ live \in Seq(Frames)
      /\ LastIs(live, "CONFIG_SND", snapshot.config, snapshot.config)
      /\ LastIs(live, "BRIDGE_SND", snapshot.bridge, after)
  BY LiveLast
<1>2. /\ bridge \in Seq(Frames)
      /\ LastIs(bridge, "CONFIG_SND", snapshot.config, snapshot.config)
      /\ LastIs(bridge, "BRIDGE_SND", after, enriched)
  <2>1. bridge \in Seq(Frames) /\ \A i \in DOMAIN bridge : bridge[i].op # "CONFIG_SND"
    BY BridgeFrameType
  <2>2. CASE enriched = None
    <3>1. bridge = <<>> /\ DOMAIN bridge = {}
      BY <2>2, Empty DEF BridgeFrameOf
    <3>2. after \in Bridges \cup {None} /\ out.config \in Configs
      BY BridgeAfterType, LiveType DEF PublishConfig
    <3>3. after # None => Enriched[after, out.config] \subseteq Bridges
      BY <3>2, EnrichedType
    <3>4. after = None
      BY <2>2, <3>3, NoneIsNoBody DEF PublishConfig, Enrichments
    <3> QED
      BY <2>1, <2>2, <3>1, <3>4 DEF LastIs
  <2>3. CASE enriched # None
    <3>1. bridge = <<Frame("BRIDGE_SND", enriched)>>
      BY <2>3 DEF BridgeFrameOf
    <3>2. LastIs(bridge, "BRIDGE_SND", after, enriched)
      BY <2>3, <3>1, FrameKinds, LastIsSingle
    <3> QED
      BY <2>1, <3>2, LastIsOther
  <2> QED
    BY <2>2, <2>3
<1>3. /\ config \in Seq(Frames)
      /\ LastIs(config, "CONFIG_SND", snapshot.config, out.config)
      /\ LastIs(config, "BRIDGE_SND", enriched, enriched)
  <2>1. out.config \in Configs /\ out.config # None
    BY LiveType DEF PublishConfig
  <2>2. config = <<Frame("CONFIG_SND", out.config)>>
    BY <2>1 DEF ConfigFrameOf
  <2> QED
    BY <2>1, <2>2, FrameKinds, LastIsSingle
<1> HIDE DEF live, bridge, config, after
<1>4. /\ live \o bridge \in Seq(Frames)
      /\ LastIs(live \o bridge, "CONFIG_SND", snapshot.config, snapshot.config)
      /\ LastIs(live \o bridge, "BRIDGE_SND", snapshot.bridge, enriched)
  BY <1>1, <1>2, ConcatProperties, LastIsConcat
<1>5. /\ (live \o bridge) \o config \in Seq(Frames)
      /\ LastIs((live \o bridge) \o config, "CONFIG_SND", snapshot.config, out.config)
      /\ LastIs((live \o bridge) \o config, "BRIDGE_SND", snapshot.bridge, enriched)
  BY <1>3, <1>4, ConcatProperties, LastIsConcat
<1> QED
  BY <1>5 DEF live, bridge, config

\* A broadcast that takes the sessions from the cache to the new cache keeps all of
\* them in step.
LEMMA BroadcastConverges ==
    ASSUME TypeOK, SessionsConverge, NEW frames \in Seq(Frames), Broadcast(frames),
           LastIs(frames, "CONFIG_SND", snapshot.config, snapshot'.config),
           LastIs(frames, "BRIDGE_SND", snapshot.bridge, snapshot'.bridge),
           monitor' = monitor, Active' \subseteq Active
    PROVE  SessionsConverge'
<1> SUFFICES ASSUME NEW c \in Clients, c \in Active
             PROVE  Converges(c)'
  BY DEF SessionsConverge, Converges, Active
<1>1. Converges(c) /\ wire[c] \in Seq(Frames)
  BY DEF SessionsConverge, Converges, TypeOK
<1>2. wire'[c] = wire[c] \o frames
  BY DEF Broadcast
<1>3. /\ LastIs(wire[c] \o frames, "CONFIG_SND", monitor[c].config, snapshot'.config)
      /\ LastIs(wire[c] \o frames, "BRIDGE_SND", monitor[c].bridge, snapshot'.bridge)
  BY <1>1, LastIsConcat DEF Converges
<1> QED
  BY <1>2, <1>3 DEF Converges

\* What a step does to a session that stays or becomes active keeps it in step.
LEMMA SessionConverges ==
    ASSUME SafetyInv, SessionsConverge, snapshot' = snapshot, NEW c \in Clients,
           Opens(c) \/ Answered(c) \/ KeptOrClosed(c) \/ Ends(c) \/ Receives(c),
           c \in Active'
    PROVE  Converges(c)'
<1>1. /\ wire[c] \in Seq(Frames)
      /\ snapshot.config \in Configs \cup {None}
      /\ snapshot.bridge \in Bridges \cup {None}
      /\ conn[c] \in {"open", "closing"} => Converges(c)
      /\ conn'[c] \in {"open", "closing"}
      /\ TypeOK
  BY DEF SafetyInv, TypeOK, SessionsConverge, Converges, Active
<1>2. CASE Opens(c)
  <2> DEFINE config == ConfigFrameOf(snapshot.config)
             bridge == BridgeFrameOf(snapshot.bridge)
  <2>1. wire'[c] = config \o bridge /\ monitor'[c].config = None /\ monitor'[c].bridge = None
    BY <1>2 DEF Opens, SnapshotForClient, SafetyInv, SessionInv, FreshMonitor
  <2>2. /\ config \in Seq(Frames)
        /\ LastIs(config, "CONFIG_SND", None, snapshot.config)
        /\ LastIs(config, "BRIDGE_SND", None, None)
    <3>1. CASE snapshot.config = None
      BY <3>1, Empty DEF LastIs, ConfigFrameOf
    <3>2. CASE snapshot.config # None
      <4> DEFINE f == Frame("CONFIG_SND", snapshot.config)
      <4>1. f \in Frames /\ f.op = "CONFIG_SND" /\ f.body = snapshot.config
        BY <1>1, <3>2, FrameKinds
      <4>2. config = <<f>>
        BY <3>2 DEF ConfigFrameOf
      <4> HIDE DEF f, config
      <4> QED
        BY <4>1, <4>2, LastIsSingle
    <3> QED
      BY <3>1, <3>2
  <2>3. /\ bridge \in Seq(Frames)
        /\ LastIs(bridge, "CONFIG_SND", snapshot.config, snapshot.config)
        /\ LastIs(bridge, "BRIDGE_SND", None, snapshot.bridge)
    <3>1. CASE snapshot.bridge = None
      BY <3>1, Empty DEF LastIs, BridgeFrameOf
    <3>2. CASE snapshot.bridge # None
      <4> DEFINE f == Frame("BRIDGE_SND", snapshot.bridge)
      <4>1. f \in Frames /\ f.op = "BRIDGE_SND" /\ f.body = snapshot.bridge
        BY <1>1, <3>2, FrameKinds
      <4>2. bridge = <<f>>
        BY <3>2 DEF BridgeFrameOf
      <4> HIDE DEF f, bridge
      <4> QED
        BY <4>1, <4>2, LastIsSingle
    <3> QED
      BY <3>1, <3>2
  <2> HIDE DEF config, bridge
  <2>4. /\ LastIs(config \o bridge, "CONFIG_SND", None, snapshot.config)
        /\ LastIs(config \o bridge, "BRIDGE_SND", None, snapshot.bridge)
    BY <2>2, <2>3, LastIsConcat
  <2> QED
    BY <2>1, <2>4 DEF Converges
<1>3. CASE Answered(c)
  <2>1. PICK f \in Frames : /\ wire'[c] = Append(wire[c], f)
                            /\ \/ f.op = "CONFIG_SND" /\ f.body = snapshot.config
                               \/ f.op = "BRIDGE_SND" /\ f.body = snapshot.bridge
    BY <1>1, <1>3, FrameKinds DEF Answered
  <2>2. wire'[c] = wire[c] \o <<f>> /\ <<f>> \in Seq(Frames)
    BY <1>1, <2>1, AppendIsConcat, LastIsSingle
  <2>3. /\ LastIs(<<f>>, "CONFIG_SND", snapshot.config, snapshot.config)
        /\ LastIs(<<f>>, "BRIDGE_SND", snapshot.bridge, snapshot.bridge)
    BY <2>1, LastIsSingle
  <2>4. Converges(c) /\ monitor'[c] = monitor[c]
    BY <1>1, <1>3 DEF Answered
  <2>5. /\ LastIs(wire[c] \o <<f>>, "CONFIG_SND", monitor[c].config, snapshot.config)
        /\ LastIs(wire[c] \o <<f>>, "BRIDGE_SND", monitor[c].bridge, snapshot.bridge)
    BY <1>1, <2>2, <2>3, <2>4, LastIsConcat DEF Converges
  <2> QED
    BY <2>2, <2>4, <2>5 DEF Converges
<1>4. CASE KeptOrClosed(c)
  BY <1>1, <1>4 DEF KeptOrClosed, Converges
<1>5. CASE Ends(c)
  BY <1>1, <1>5 DEF Ends
<1>6. CASE Receives(c)
  <2> DEFINE w == wire[c]
  <2>1. /\ w # <<>> /\ Converges(c)
        /\ wire'[c] = Tail(w)
        /\ monitor'[c] = Handled(monitor[c], Head(w))
    BY <1>1, <1>6 DEF Receives
  <2>2. /\ monitor'[c].config = IF Head(w).op = "CONFIG_SND" THEN Head(w).body
                                ELSE monitor[c].config
        /\ monitor'[c].bridge = IF Head(w).op = "BRIDGE_SND" THEN Head(w).body
                                ELSE monitor[c].bridge
    BY <1>1, <2>1 DEF Handled, TypeOK
  <2>3. /\ LastIs(w, "CONFIG_SND", monitor[c].config, snapshot.config)
        /\ LastIs(w, "BRIDGE_SND", monitor[c].bridge, snapshot.bridge)
    BY <2>1 DEF Converges
  <2> HIDE DEF w
  <2>4. /\ LastIs(Tail(w), "CONFIG_SND", monitor'[c].config, snapshot.config)
        /\ LastIs(Tail(w), "BRIDGE_SND", monitor'[c].bridge, snapshot.bridge)
    BY <1>1, <2>1, <2>2, <2>3, LastIsTail DEF w
  <2> QED
    BY <2>1, <2>4 DEF Converges
<1> QED
  BY <1>2, <1>3, <1>4, <1>5, <1>6

\* Every step keeps the sessions in step with the cache.
LEMMA ConvergeStep == SafetyInv /\ SessionsConverge /\ [Next]_vars => SessionsConverge'
<1> SUFFICES ASSUME SafetyInv, SessionsConverge, [Next]_vars
             PROVE  SessionsConverge'
  OBVIOUS
<1>0. TypeOK
  BY DEF SafetyInv
<1>1. CASE UpstreamNext
  <2>1. ASSUME NEW out \in Outputs, LiveOut(out)
        PROVE  SessionsConverge'
    <3>1. /\ snapshot'.config = snapshot.config
          /\ snapshot'.bridge = BridgeAfter(out.live)
      BY <1>0, <2>1 DEF LiveOut, TypeOK
    <3>2. Active' = Active
      BY <2>1 DEF LiveOut, Active
    <3> QED
      BY <1>0, <2>1, <3>1, <3>2, LiveLast, BroadcastConverges DEF LiveOut
  <2>2. ASSUME NEW out \in Outputs, NEW enriched \in Bridges \cup {None},
               PublishConfig(out, enriched)
        PROVE  SessionsConverge'
    <3> DEFINE frames == out.live \o BridgeFrameOf(enriched) \o ConfigFrameOf(out.config)
    <3>1. /\ frames \in Seq(Frames)
          /\ LastIs(frames, "CONFIG_SND", snapshot.config, out.config)
          /\ LastIs(frames, "BRIDGE_SND", snapshot.bridge, enriched)
      BY <1>0, <2>2, PublishedLast
    <3>2. /\ Broadcast(frames) /\ monitor' = monitor
          /\ snapshot'.config = out.config /\ snapshot'.bridge = enriched
      BY <2>2 DEF PublishConfig
    <3>3. Active' \subseteq Active
      BY <1>0, <2>2 DEF PublishConfig, DisconnectAll, Active, TypeOK
    <3> HIDE DEF frames
    <3> QED
      BY <1>0, <3>1, <3>2, <3>3, BroadcastConverges
  <2>3. CASE UNCHANGED <<snapshot, broadcast_masters, sessionVars>>
    BY <2>3 DEF sessionVars, SessionsConverge, Active
  <2> QED
    BY <1>1, <2>1, <2>2, <2>3, UpstreamCases
<1>2. CASE \E c \in Clients : MonitorNext(c)
  <2>1. /\ snapshot' = snapshot
        /\ \A d \in Clients :
              Opens(d) \/ Answered(d) \/ KeptOrClosed(d) \/ Ends(d) \/ Receives(d)
    BY <1>0, <1>2, MonitorCases
  <2>2. \A d \in Clients : d \in Active' => Converges(d)'
    BY <2>1, SessionConverges
  <2> QED
    BY <2>2 DEF SessionsConverge, Converges, Active
<1>3. CASE UNCHANGED vars
  BY <1>3 DEF vars, cacheVars, sessionVars, SessionsConverge, Active
<1> QED
  BY <1>1, <1>2, <1>3 DEF Next

\* SessionsConverge: however replay, answers from the cache, broadcasts and
\* half-published frames interleave, a connected monitor will have handled the
\* cached CONFIG and the cached BRIDGE once it has read its queue.
THEOREM NoSessionLeftBehind == Spec => []SessionsConverge
<1>1. Init => SafetyInv /\ SessionsConverge
  BY SafetyInit DEF Init, SessionsConverge, Active
<1>2. SafetyInv /\ [Next]_vars => SafetyInv'
  BY SafetyStep
<1>3. SafetyInv /\ SessionsConverge /\ [Next]_vars => SessionsConverge'
  BY ConvergeStep
<1> QED
  BY <1>1, <1>2, <1>3, PTL DEF Spec

-----------------------------------------------------------------------------
(* The CONFIG comes first. *)

\* A monitor that was greeted with a CONFIG and has not handled it yet has it in
\* front of its queue, and has handled no BRIDGE.
ConfigAhead(c) ==
    greeted[c] /\ monitor[c].config = None =>
        /\ monitor[c].bridge = None
        /\ wire[c] # <<>>
        /\ Head(wire[c]).op = "CONFIG_SND"

\* What is appended to a queue that is not empty does not change its head.
LEMMA HeadOfConcat ==
    ASSUME NEW w \in Seq(Frames), w # <<>>, NEW fs \in Seq(Frames)
    PROVE  w \o fs # <<>> /\ Head(w \o fs) = Head(w)
<1>1. /\ Len(w) \in Nat \ {0} /\ Len(fs) \in Nat
      /\ Len(w \o fs) = Len(w) + Len(fs)
      /\ (w \o fs)[1] = w[1]
  BY EmptySeq, LenProperties, ConcatProperties
<1>2. w \o fs \in Seq(Frames)
  BY ConcatProperties
<1>3. w \o fs # <<>>
  BY <1>1, <1>2, EmptySeq
<1> QED
  BY <1>1, <1>2, <1>3, HeadTailProperties

\* What a step of a monitor does to its session keeps the CONFIG ahead.
LEMMA SessionAhead ==
    ASSUME SafetyInv, NEW c \in Clients, ConfigAhead(c),
           Opens(c) \/ Answered(c) \/ KeptOrClosed(c) \/ Ends(c) \/ Receives(c)
    PROVE  ConfigAhead(c)'
<1>1. /\ wire[c] \in Seq(Frames)
      /\ snapshot.config \in Configs \cup {None}
      /\ snapshot.bridge \in Bridges \cup {None}
      /\ SessionInv(c)
      /\ TypeOK
  BY DEF SafetyInv, TypeOK
<1>2. CASE Opens(c)
  <2> SUFFICES ASSUME greeted'[c]
               PROVE  /\ monitor'[c].bridge = None
                      /\ wire'[c] # <<>>
                      /\ Head(wire'[c]).op = "CONFIG_SND"
    BY DEF ConfigAhead
  <2> DEFINE f == Frame("CONFIG_SND", snapshot.config)
             bridge == BridgeFrameOf(snapshot.bridge)
  <2>1. snapshot.config # None
    BY <1>2 DEF Opens
  <2>2. /\ f \in Frames /\ f.op = "CONFIG_SND"
        /\ bridge \in Seq(Frames)
    BY <1>1, <2>1, FrameKinds, BridgeFrameType
  <2>3. wire'[c] = <<f>> \o bridge /\ monitor'[c].bridge = None
    BY <1>1, <1>2, <2>1 DEF Opens, SnapshotForClient, ConfigFrameOf, SessionInv, FreshMonitor
  <2> HIDE DEF f, bridge
  <2>4. <<f>> \in Seq(Frames) /\ <<f>> # <<>> /\ Head(<<f>>) = f
    BY <2>2
  <2> QED
    BY <2>2, <2>3, <2>4, HeadOfConcat
<1>3. CASE Answered(c)
  <2>1. PICK f \in Frames : wire'[c] = Append(wire[c], f)
    BY <1>1, <1>3, FrameKinds DEF Answered
  <2>2. wire'[c] = wire[c] \o <<f>> /\ <<f>> \in Seq(Frames)
    BY <1>1, <2>1, AppendIsConcat, LastIsSingle
  <2>3. wire[c] # <<>> => wire'[c] # <<>> /\ Head(wire'[c]) = Head(wire[c])
    BY <1>1, <2>2, HeadOfConcat
  <2> QED
    BY <1>3, <2>3 DEF Answered, ConfigAhead
<1>4. CASE KeptOrClosed(c)
  BY <1>4 DEF KeptOrClosed, ConfigAhead
<1>5. CASE Ends(c)
  BY <1>5 DEF Ends, ConfigAhead
<1>6. CASE Receives(c)
  <2> DEFINE f == Head(wire[c])
  <2>1. f \in Frames /\ monitor'[c] = Handled(monitor[c], f) /\ greeted'[c] = greeted[c]
    BY <1>1, <1>6, HeadTailProperties DEF Receives
  <2>2. f.op = "CONFIG_SND" => f.body # None
    BY <2>1, FrameKinds, NoneIsNoBody
  <2>3. monitor'[c].config = IF f.op = "CONFIG_SND" THEN f.body ELSE monitor[c].config
    BY <1>1, <2>1 DEF Handled, TypeOK
  <2> QED
    BY <2>1, <2>2, <2>3 DEF ConfigAhead
<1> QED
  BY <1>2, <1>3, <1>4, <1>5, <1>6

\* Every step keeps the CONFIG ahead.
LEMMA AheadStep ==
    SafetyInv /\ (\A c \in Clients : ConfigAhead(c)) /\ [Next]_vars
        => (\A c \in Clients : ConfigAhead(c))'
<1> SUFFICES ASSUME SafetyInv, \A c \in Clients : ConfigAhead(c), [Next]_vars,
                    NEW c \in Clients
             PROVE  ConfigAhead(c)'
  OBVIOUS
<1>0. TypeOK /\ wire[c] \in Seq(Frames)
  BY DEF SafetyInv, TypeOK
<1>1. ASSUME NEW frames \in Seq(Frames), Broadcast(frames), UNCHANGED <<monitor, greeted>>
      PROVE  ConfigAhead(c)'
  <2>1. wire'[c] = wire[c] \/ wire'[c] = wire[c] \o frames
    BY <1>1 DEF Broadcast
  <2>2. wire[c] # <<>> => wire'[c] # <<>> /\ Head(wire'[c]) = Head(wire[c])
    BY <1>0, <1>1, <2>1, HeadOfConcat
  <2> QED
    BY <1>1, <2>2 DEF ConfigAhead
<1>2. CASE UpstreamNext
  <2>1. ASSUME NEW out \in Outputs, LiveOut(out)
        PROVE  ConfigAhead(c)'
    BY <1>1, <2>1, LiveType DEF LiveOut
  <2>2. ASSUME NEW out \in Outputs, NEW enriched \in Bridges \cup {None},
               PublishConfig(out, enriched)
        PROVE  ConfigAhead(c)'
    BY <1>1, <2>2, PublishedFrames DEF PublishConfig
  <2>3. CASE UNCHANGED <<snapshot, broadcast_masters, sessionVars>>
    BY <2>3 DEF sessionVars, ConfigAhead
  <2> QED
    BY <1>2, <2>1, <2>2, <2>3, UpstreamCases
<1>3. CASE \E d \in Clients : MonitorNext(d)
  BY <1>0, <1>3, MonitorCases, SessionAhead
<1>4. CASE UNCHANGED vars
  BY <1>4 DEF vars, sessionVars, ConfigAhead
<1> QED
  BY <1>2, <1>3, <1>4 DEF Next

\* ConfigFirst: a monitor that connects when a CONFIG is cached never applies a
\* BRIDGE before it has built CTABLE from a CONFIG.
THEOREM ConfigComesFirst == Spec => []ConfigFirst
<1>1. Init => SafetyInv /\ \A c \in Clients : ConfigAhead(c)
  BY SafetyInit DEF Init, ConfigAhead
<1>2. SafetyInv /\ [Next]_vars => SafetyInv'
  BY SafetyStep
<1>3. SafetyInv /\ (\A c \in Clients : ConfigAhead(c)) /\ [Next]_vars
         => (\A c \in Clients : ConfigAhead(c))'
  BY AheadStep
<1>4. (\A c \in Clients : ConfigAhead(c)) => ConfigFirst
  BY DEF ConfigAhead, ConfigFirst
<1> QED
  BY <1>1, <1>2, <1>3, <1>4, PTL DEF Spec

-----------------------------------------------------------------------------
(* CONFIGs that do not unpickle. *)

\* No CONFIG of a queue fails to unpickle.
Readable(w) == \A i \in DOMAIN w : w[i].op = "CONFIG_SND" => w[i].body \notin Undecodable

\* Queues of readable CONFIGs may be joined, and shortened.
LEMMA ReadableQueues ==
    /\ Readable(<<>>)
    /\ \A w, fs \in Seq(Frames) : Readable(w) /\ Readable(fs) => Readable(w \o fs)
    /\ \A w \in Seq(Frames) : w # <<>> /\ Readable(w) => Readable(Tail(w))
<1>1. Readable(<<>>)
  BY Empty DEF Readable
<1>2. ASSUME NEW w \in Seq(Frames), NEW fs \in Seq(Frames), Readable(w), Readable(fs)
      PROVE  Readable(w \o fs)
  <2>1. \A i \in DOMAIN (w \o fs) : \/ i \in DOMAIN w /\ (w \o fs)[i] = w[i]
                                    \/ /\ i - Len(w) \in DOMAIN fs
                                       /\ (w \o fs)[i] = fs[i - Len(w)]
    BY ConcatProperties, LenProperties
  <2> QED
    BY <1>2, <2>1 DEF Readable
<1>3. ASSUME NEW w \in Seq(Frames), w # <<>>, Readable(w)
      PROVE  Readable(Tail(w))
  <2>1. \A i \in DOMAIN Tail(w) : i + 1 \in DOMAIN w /\ Tail(w)[i] = w[i + 1]
    BY <1>3, EmptySeq, LenProperties, HeadTailProperties
  <2> QED
    BY <1>3, <2>1 DEF Readable
<1> QED
  BY <1>1, <1>2, <1>3

\* What a monitor's step does to its session gives it no CONFIG but the cached one.
LEMMA SessionReadable ==
    ASSUME TypeOK, NEW c \in Clients, Readable(wire[c]),
           snapshot.config \notin Undecodable,
           Opens(c) \/ Answered(c) \/ KeptOrClosed(c) \/ Ends(c) \/ Receives(c)
    PROVE  Readable(wire'[c])
<1>1. /\ wire[c] \in Seq(Frames)
      /\ snapshot.config \in Configs \cup {None}
      /\ snapshot.bridge \in Bridges \cup {None}
  BY DEF TypeOK
<1>2. CASE Opens(c)
  <2> DEFINE config == ConfigFrameOf(snapshot.config)
             bridge == BridgeFrameOf(snapshot.bridge)
  <2>1. /\ config \in Seq(Frames) /\ Readable(config)
        /\ bridge \in Seq(Frames) /\ Readable(bridge)
    BY <1>1, ConfigFrameType, BridgeFrameType DEF Readable
  <2>2. wire'[c] = config \o bridge
    BY <1>2 DEF Opens, SnapshotForClient
  <2> HIDE DEF config, bridge
  <2> QED
    BY <2>1, <2>2, ReadableQueues
<1>3. CASE Answered(c)
  <2>1. PICK f \in Frames : /\ wire'[c] = Append(wire[c], f)
                            /\ f.op = "CONFIG_SND" => f.body = snapshot.config
    BY <1>1, <1>3, FrameKinds DEF Answered
  <2>2. /\ wire'[c] = wire[c] \o <<f>> /\ <<f>> \in Seq(Frames)
        /\ DOMAIN <<f>> = {1} /\ <<f>>[1] = f
    BY <1>1, <2>1, AppendIsConcat, Singleton
  <2>3. Readable(<<f>>)
    BY <2>1, <2>2 DEF Readable
  <2> QED
    BY <1>1, <2>2, <2>3, ReadableQueues
<1>4. CASE KeptOrClosed(c)
  BY <1>4 DEF KeptOrClosed
<1>5. CASE Ends(c)
  BY <1>5, ReadableQueues DEF Ends
<1>6. CASE Receives(c)
  BY <1>1, <1>6, ReadableQueues DEF Receives
<1> QED
  BY <1>2, <1>3, <1>4, <1>5, <1>6

\* Every step keeps bad CONFIGs out of the cache and of the queues.
LEMMA ReadableStep == TypeOK /\ NoBadConfig /\ [Next]_vars => NoBadConfig'
<1> SUFFICES ASSUME TypeOK, NoBadConfig, [Next]_vars
             PROVE  NoBadConfig'
  OBVIOUS
<1>1. /\ snapshot.config \notin Undecodable
      /\ \A c \in Clients : Readable(wire[c]) /\ wire[c] \in Seq(Frames)
  BY DEF NoBadConfig, Readable, TypeOK
<1> SUFFICES /\ snapshot'.config \notin Undecodable
             /\ \A c \in Clients : Readable(wire'[c])
  BY DEF NoBadConfig, Readable
<1>2. ASSUME NEW frames \in Seq(Frames), Readable(frames), Broadcast(frames)
      PROVE  \A c \in Clients : Readable(wire'[c])
  <2> SUFFICES ASSUME NEW c \in Clients
               PROVE  Readable(wire'[c])
    OBVIOUS
  <2>1. wire'[c] = wire[c] \/ wire'[c] = wire[c] \o frames
    BY <1>2 DEF Broadcast
  <2> QED
    BY <1>1, <1>2, <2>1, ReadableQueues
<1>3. CASE UpstreamNext
  <2>1. ASSUME NEW out \in Outputs, LiveOut(out)
        PROVE  /\ snapshot'.config \notin Undecodable
               /\ \A c \in Clients : Readable(wire'[c])
    <3>1. out.live \in Seq(Frames) /\ Readable(out.live)
      BY LiveType DEF Readable
    <3>2. snapshot'.config = snapshot.config
      BY <2>1 DEF LiveOut, TypeOK
    <3> QED
      BY <1>1, <1>2, <2>1, <3>1, <3>2 DEF LiveOut
  <2>2. ASSUME NEW out \in Outputs, NEW enriched \in Bridges \cup {None},
               PublishConfig(out, enriched)
        PROVE  /\ snapshot'.config \notin Undecodable
               /\ \A c \in Clients : Readable(wire'[c])
    <3> DEFINE frames == out.live \o BridgeFrameOf(enriched) \o ConfigFrameOf(out.config)
    <3>1. out.config \notin Undecodable /\ snapshot'.config = out.config
      BY <2>2 DEF PublishConfig, Unreadable
    <3>2. frames \in Seq(Frames) /\ Readable(frames)
      BY <2>2, <3>1, PublishedFrames DEF PublishConfig, Readable
    <3>3. Broadcast(frames)
      BY <2>2 DEF PublishConfig
    <3> HIDE DEF frames
    <3> QED
      BY <1>2, <3>1, <3>2, <3>3
  <2>3. CASE UNCHANGED <<snapshot, broadcast_masters, sessionVars>>
    BY <1>1, <2>3 DEF sessionVars
  <2> QED
    BY <1>3, <2>1, <2>2, <2>3, UpstreamCases
<1>4. CASE \E c \in Clients : MonitorNext(c)
  BY <1>1, <1>4, MonitorCases, SessionReadable
<1>5. CASE UNCHANGED vars
  BY <1>1, <1>5 DEF vars, cacheVars, sessionVars
<1> QED
  BY <1>3, <1>4, <1>5 DEF Next

\* NoBadConfig: a CONFIG that does not unpickle reaches neither the cache nor a
\* monitor, whether or not a BRIDGE is cached.
THEOREM BadConfigStopped == Spec => []NoBadConfig
<1>1. Init => NoBadConfig
  BY Empty, NoneIsNoBody, UndecodableType DEF Init, NoBadConfig
<1>2. TypeOK /\ NoBadConfig /\ [Next]_vars => NoBadConfig'
  BY ReadableStep
<1> QED
  BY <1>1, <1>2, TypeCorrect, PTL DEF Spec

-----------------------------------------------------------------------------
(* Resets and requests. *)

\* The last CONFIG sent to a session that is in step with the cache is the cached
\* one.
LEMMA LastSentIsCached ==
    ASSUME TypeOK, SessionsConverge, NEW c \in Clients, conn[c] = "open"
    PROVE  LastSent(c) = snapshot.config
<1> DEFINE w == wire[c]
           at == {i \in DOMAIN w : w[i].op = "CONFIG_SND"}
           last == CHOOSE i \in at : \A j \in at : j <= i
<1>1. LastIs(w, "CONFIG_SND", monitor[c].config, snapshot.config)
  BY DEF SessionsConverge, Active
<1>2. Len(w) \in Nat /\ DOMAIN w = 1..Len(w)
  BY LenProperties DEF TypeOK
<1>3. CASE at = {}
  <2>1. \A i \in DOMAIN w : w[i].op # "CONFIG_SND"
    BY <1>3
  <2>2. monitor[c].config = snapshot.config
    BY <1>1, <2>1 DEF LastIs
  <2> QED
    BY <1>3, <2>2 DEF LastSent
<1>4. CASE at # {}
  <2>1. at \subseteq Nat /\ \A i \in at : i <= Len(w)
    BY <1>2
  <2>2. \E i \in at : \A j \in at : j <= i
    BY <1>2, <1>4, <2>1, GreatestNatural
  <2>3. last \in at /\ \A j \in at : j <= last
    BY <2>2
  <2>4. LastSent(c) = w[last].body
    BY <1>4 DEF LastSent
  <2> HIDE DEF last
  <2>5. last \in DOMAIN w /\ w[last].op = "CONFIG_SND"
    BY <2>3
  <2>6. \A j \in DOMAIN w : j > last => w[j].op # "CONFIG_SND"
    <3>1. \A j \in DOMAIN w : w[j].op = "CONFIG_SND" => j <= last
      BY <2>3
    <3> QED
      BY <1>2, <2>5, <3>1
  <2> HIDE DEF at, w
  <2> QED
    BY <1>1, <2>4, <2>5, <2>6 DEF LastIs
<1> QED
  BY <1>3, <1>4

\* A session that a step resets was last sent a CONFIG with other masters.
LEMMA ResetStep ==
    ASSUME SafetyInv, SessionsConverge, [Next]_vars,
           NEW c \in Clients, conn[c] = "open", conn'[c] = "closing"
    PROVE  /\ LastSent(c) # None
           /\ MastersOf[LastSent(c)] \notin {{}, MastersOf[snapshot'.config]}
<1>0. TypeOK /\ CachedMasters /\ LastSent(c) = snapshot.config
  BY LastSentIsCached DEF SafetyInv
<1>1. CASE UpstreamNext
  <2>1. ASSUME NEW out \in Outputs, NEW enriched \in Bridges \cup {None},
               PublishConfig(out, enriched)
        PROVE  /\ LastSent(c) # None
               /\ MastersOf[LastSent(c)] \notin {{}, MastersOf[snapshot'.config]}
    <3>1. snapshot'.config = out.config
      BY <2>1 DEF PublishConfig
    <3>2. broadcast_masters # {} /\ MastersOf[out.config] # broadcast_masters
      BY <2>1 DEF PublishConfig, MastersChange
    <3> QED
      BY <1>0, <3>1, <3>2 DEF CachedMasters
  <2> QED
    BY <1>1, <2>1, UpstreamCases DEF LiveOut, sessionVars
<1>2. CASE \E d \in Clients : MonitorNext(d)
  BY <1>0, <1>2, MonitorCases DEF Opens, Answered, KeptOrClosed, Ends, Receives
<1>3. CASE UNCHANGED vars
  BY <1>3 DEF vars, sessionVars
<1> QED
  BY <1>1, <1>2, <1>3 DEF Next

\* ResetsAreNeeded: disconnect_all only hits a session whose own stream ended in a
\* CONFIG with other, non-empty master keys than the one now published.
THEOREM NoNeedlessReset == Spec => ResetsAreNeeded
<1>1. Init => SafetyInv /\ SessionsConverge
  BY SafetyInit DEF Init, SessionsConverge, Active
<1>2. SafetyInv /\ [Next]_vars => SafetyInv'
  BY SafetyStep
<1>3. SafetyInv /\ SessionsConverge /\ [Next]_vars => SessionsConverge'
  BY ConvergeStep
<1>4. SafetyInv /\ SessionsConverge /\ [Next]_vars =>
         [\A c \in Clients : conn[c] = "open" /\ conn'[c] = "closing" =>
             /\ LastSent(c) # None
             /\ MastersOf[LastSent(c)] \notin {{}, MastersOf[snapshot'.config]}]_vars
  BY ResetStep
<1> QED
  BY <1>1, <1>2, <1>3, <1>4, PTL DEF Spec, ResetsAreNeeded

\* A request that a dashboard refresh sends is needed, and in the server's version.
LEMMA AskStep ==
    ASSUME TypeOK, NEW c \in Clients, NEW req \in {"CONFIG_REQ", "BRIDGE_REQ"},
           HandleDownstreamRequest(c, req), upstream_out' # upstream_out
    PROVE  /\ upstream_out' = Append(upstream_out, "STATE_REQ") <=> upstream_v2
           /\ \/ cache_age = "stale"
              \/ req = "CONFIG_REQ" /\ snapshot.config = None
              \/ req = "BRIDGE_REQ" /\ snapshot.bridge = None
<1> DEFINE cached == IF req = "CONFIG_REQ" THEN ConfigFrameOf(snapshot.config)
                                           ELSE BridgeFrameOf(snapshot.bridge)
<1>1. \E r \in {"CONFIG_REQ", "BRIDGE_REQ"} :
         upstream_out' = Append(upstream_out, IF upstream_v2 THEN "STATE_REQ" ELSE r)
  BY DEF HandleDownstreamRequest, ServeFromCache, RequestUpstreamRefresh, Send
<1>2. upstream_out \in Seq(Requests) /\ upstream_v2 \in BOOLEAN
  BY DEF TypeOK
<1>3. \A r, q \in Requests : Append(upstream_out, r) = Append(upstream_out, q) => r = q
  BY <1>2, AppendProperties
<1>4. upstream_out' = Append(upstream_out, "STATE_REQ") <=> upstream_v2
  BY <1>1, <1>2, <1>3 DEF Requests
<1>5. cache_age = "stale" \/ cached = <<>>
  BY DEF HandleDownstreamRequest, ServeFromCache
<1>6. cached = <<>> => \/ req = "CONFIG_REQ" /\ snapshot.config = None
                       \/ req = "BRIDGE_REQ" /\ snapshot.bridge = None
  BY DEF ConfigFrameOf, BridgeFrameOf
<1> QED
  BY <1>4, <1>5, <1>6

\* AskedWhenNeeded: the server is asked on a dashboard refresh only for what the
\* cache lacks or when it is older than the TTL, and in the version of its last
\* frame.
THEOREM AskedOnlyWhenNeeded == Spec => AskedWhenNeeded
<1>1. TypeOK /\ [Next]_vars =>
         [\A c \in Clients, req \in {"CONFIG_REQ", "BRIDGE_REQ"} :
             /\ HandleDownstreamRequest(c, req)
             /\ upstream_out' # upstream_out
             => /\ upstream_out' = Append(upstream_out, "STATE_REQ") <=> upstream_v2
                /\ \/ cache_age = "stale"
                   \/ req = "CONFIG_REQ" /\ snapshot.config = None
                   \/ req = "BRIDGE_REQ" /\ snapshot.bridge = None]_vars
  BY AskStep
<1> QED
  BY <1>1, TypeCorrect, PTL DEF Spec, AskedWhenNeeded

-----------------------------------------------------------------------------
(* The bodies of one kind in a stream of frames. *)

AnyBody == Configs \cup Bridges \cup Events

\* A body is added or not.
LEMMA WithBodyType ==
    ASSUME NEW bodies \in Seq(AnyBody), NEW frame \in Frames, NEW op
    PROVE  WithBody(bodies, frame, op) \in Seq(AnyBody)
<1>1. frame.body \in AnyBody
  BY DEF Frames, ConfigFrames, BridgeFrames, EventFrames, AnyBody
<1> QED
  BY <1>1 DEF WithBody

\* The recursion of Bodies has a solution.
LEMMA BodiesFcn ==
    ASSUME NEW w \in Seq(Frames), NEW op
    PROVE  \E f \in [0..Len(w) -> Seq(AnyBody)] :
              /\ f[0] = <<>>
              /\ \A i \in 1..Len(w) : f[i] = WithBody(f[i - 1], w[i], op)
              /\ Bodies(w, op) = f[Len(w)]
<1> DEFINE n == Len(w)
           T == Seq(AnyBody)
           step == [ix \in (1..n) \X T |-> WithBody(ix[2], w[ix[1]], op)]
           rec(f) == f = [i \in 0..n |->
                            IF i = 0 THEN <<>> ELSE WithBody(f[i - 1], w[i], op)]
<1> DEFINE h == CHOOSE f : rec(f)
<1>1. Bodies(w, op) = h[n]
  BY DEF Bodies
<1>2. n \in Nat /\ \A i \in 1..n : w[i] \in Frames
  OBVIOUS
<1>3. <<>> \in T
  OBVIOUS
<1>4. \A i \in 1..n, x \in T : WithBody(x, w[i], op) \in T
  BY <1>2, WithBodyType
<1> HIDE DEF n, T
<1>5. /\ IsStep(step, n, T)
      /\ \A i \in 1..n, x \in T : step[<<i, x>>] = WithBody(x, w[i], op)
  BY <1>4 DEF IsStep
<1> HIDE DEF step
<1>6. PICK g : IsRecursive(g, n, T, <<>>, step)
  BY <1>2, <1>3, <1>5, RecursionOnNat
<1>7. /\ g \in [0..n -> T]
       /\ g[0] = <<>> /\ \A i \in 1..n : g[i] = step[<<i, g[i - 1]>>]
  BY <1>6 DEF IsRecursive
<1>8. ASSUME NEW i \in 1..n
      PROVE  g[i] = WithBody(g[i - 1], w[i], op)
  <2>1. g[i - 1] \in T
    BY <1>2, <1>7
  <2> QED
    BY <1>5, <1>7, <2>1
<1>9. rec(g)
  <2>1. \A i \in 0..n : g[i] = IF i = 0 THEN <<>> ELSE WithBody(g[i - 1], w[i], op)
    BY <1>2, <1>7, <1>8
  <2> QED
    BY <1>7, <2>1
<1>10. rec(h)
  BY <1>9
<1> HIDE DEF h
<1>11. DOMAIN h = 0..n /\ h = [i \in 0..n |-> h[i]]
  BY <1>10
<1>12. /\ h[0] = <<>>
       /\ \A i \in 1..n : h[i] = WithBody(h[i - 1], w[i], op)
  BY <1>2, <1>10
<1>13. \A k \in 0..n : h[k] = g[k]
  <2> DEFINE P == {k \in Nat : k <= n => h[k] = g[k]}
  <2>1. 0 \in P
    BY <1>7, <1>12
  <2>2. ASSUME NEW k \in Nat, k \in P
        PROVE  k + 1 \in P
    <3> SUFFICES ASSUME k + 1 <= n
                 PROVE  h[k + 1] = g[k + 1]
      OBVIOUS
    <3>1. h[k] = g[k] /\ k + 1 \in 1..n /\ (k + 1) - 1 = k
      BY <1>2, <2>2
    <3> QED
      BY <1>8, <1>12, <3>1
  <2>3. \A k \in Nat : k \in P
    BY <2>1, <2>2, NatInductSet
  <2> QED
    BY <1>2, <2>3
<1>14. h \in [0..n -> T]
  BY <1>7, <1>11, <1>13
<1> QED
  BY <1>1, <1>12, <1>14 DEF n, T

\* Bodies frame by frame.
LEMMA BodiesEmpty ==
    ASSUME NEW op
    PROVE  Bodies(<<>>, op) = <<>>
<1>1. <<>> \in Seq(Frames) /\ Len(<<>>) = 0
  OBVIOUS
<1> QED
  BY <1>1, BodiesFcn

\* One more frame.
LEMMA BodiesAppend ==
    ASSUME NEW w \in Seq(Frames), NEW frame \in Frames, NEW op
    PROVE  Bodies(Append(w, frame), op) = WithBody(Bodies(w, op), frame, op)
<1> DEFINE v == Append(w, frame)
           n == Len(w)
<1>1. /\ v \in Seq(Frames) /\ n \in Nat /\ Len(v) = n + 1
      /\ v[n + 1] = frame /\ \A i \in 1..n : v[i] = w[i]
  BY AppendProperties, LenProperties
<1>2. PICK f : /\ f[0] = <<>>
               /\ \A i \in 1..n : f[i] = WithBody(f[i - 1], w[i], op)
               /\ Bodies(w, op) = f[n]
  BY BodiesFcn
<1> HIDE DEF v
<1>3. PICK g : /\ g[0] = <<>>
               /\ \A i \in 1..(n + 1) : g[i] = WithBody(g[i - 1], v[i], op)
               /\ Bodies(v, op) = g[n + 1]
  BY <1>1, BodiesFcn
<1> HIDE DEF n
<1>4. g[n] = f[n]
  <2> DEFINE P == {k \in Nat : k <= n => g[k] = f[k]}
  <2>1. 0 \in P
    BY <1>2, <1>3
  <2>2. ASSUME NEW k \in Nat, k \in P
        PROVE  k + 1 \in P
    <3> SUFFICES ASSUME k + 1 <= n
                 PROVE  g[k + 1] = f[k + 1]
      OBVIOUS
    <3>1. /\ g[k] = f[k] /\ k + 1 \in 1..n /\ k + 1 \in 1..(n + 1)
          /\ (k + 1) - 1 = k
      BY <1>1, <2>2
    <3> QED
      BY <1>1, <1>2, <1>3, <3>1
  <2>3. \A k \in Nat : k \in P
    BY <2>1, <2>2, NatInductSet
  <2> QED
    BY <1>1, <2>3
<1>5. g[n + 1] = WithBody(g[n], frame, op)
  <2>1. n + 1 \in 1..(n + 1) /\ (n + 1) - 1 = n
    BY <1>1
  <2> QED
    BY <1>1, <1>3, <2>1
<1> QED
  BY <1>2, <1>3, <1>4, <1>5 DEF v

\* A single frame.
LEMMA BodiesOfOne ==
    ASSUME NEW frame \in Frames, NEW op
    PROVE  Bodies(<<frame>>, op) = IF frame.op = op THEN <<frame.body>> ELSE <<>>
<1>1. <<>> \in Seq(Frames) /\ Append(<<>>, frame) = <<frame>>
  OBVIOUS
<1>2. Bodies(<<frame>>, op) = WithBody(<<>>, frame, op)
  BY <1>1, BodiesAppend, BodiesEmpty
<1> QED
  BY <1>2 DEF WithBody

\* Bodies of a stream are bodies.
LEMMA BodiesType ==
    ASSUME NEW w \in Seq(Frames), NEW op
    PROVE  Bodies(w, op) \in Seq(AnyBody)
  BY BodiesFcn, LenProperties

\* A body is added to two sequences by adding it to the second.
LEMMA WithBodyConcat ==
    ASSUME NEW a \in Seq(AnyBody), NEW b \in Seq(AnyBody), NEW frame \in Frames, NEW op
    PROVE  WithBody(a \o b, frame, op) = a \o WithBody(b, frame, op)
<1>1. frame.body \in AnyBody
  BY DEF Frames, ConfigFrames, BridgeFrames, EventFrames, AnyBody
<1>2. \A e \in AnyBody : Append(a \o b, e) = a \o Append(b, e)
  OBVIOUS
<1>3. CASE frame.op = op
  BY <1>1, <1>2, <1>3 DEF WithBody
<1>4. CASE frame.op # op
  BY <1>4 DEF WithBody
<1> QED
  BY <1>3, <1>4

\* Streams that follow one another.
LEMMA BodiesConcat ==
    ASSUME NEW w \in Seq(Frames), NEW op, NEW v \in Seq(Frames)
    PROVE  Bodies(w \o v, op) = Bodies(w, op) \o Bodies(v, op)
<1> DEFINE Joins(u) == Bodies(w \o u, op) = Bodies(w, op) \o Bodies(u, op)
           P == {n \in Nat : \A u \in Seq(Frames) : Len(u) = n => Joins(u)}
<1>1. 0 \in P
  <2>1. Bodies(w, op) \in Seq(AnyBody)
    BY BodiesType
  <2>2. Bodies(w, op) \o <<>> = Bodies(w, op) /\ w \o <<>> = w
    BY <2>1, ConcatEmptySeq
  <2>3. Joins(<<>>)
    BY <2>2, BodiesEmpty
  <2>4. \A u \in Seq(Frames) : Len(u) = 0 => u = <<>>
    BY EmptySeq
  <2> HIDE DEF Joins
  <2> QED
    BY <2>3, <2>4
<1>2. ASSUME NEW n \in Nat, n \in P
      PROVE  n + 1 \in P
  <2> SUFFICES ASSUME NEW u \in Seq(Frames), Len(u) = n + 1
               PROVE  Joins(u)
    OBVIOUS
  <2> DEFINE front == SubSeq(u, 1, n)
             last == u[n + 1]
  <2>1. /\ front \in Seq(Frames) /\ last \in Frames /\ Len(front) = n
        /\ u = Append(front, last)
    OBVIOUS
  <2>2. Joins(front)
    BY <1>2, <2>1
  <2> HIDE DEF front, last
  <2>3. w \o u = Append(w \o front, last) /\ w \o front \in Seq(Frames)
    BY <2>1
  <2>4. Bodies(u, op) = WithBody(Bodies(front, op), last, op)
    BY <2>1, BodiesAppend
  <2>5. Bodies(w \o u, op) = WithBody(Bodies(w \o front, op), last, op)
    <3>1. \A x \in Seq(Frames) :
             Bodies(Append(x, last), op) = WithBody(Bodies(x, op), last, op)
      BY <2>1, BodiesAppend
    <3> QED
      BY <2>3, <3>1
  <2>6. /\ Bodies(w, op) \in Seq(AnyBody) /\ Bodies(front, op) \in Seq(AnyBody)
    BY <2>1, BodiesType
  <2>7. WithBody(Bodies(w, op) \o Bodies(front, op), last, op)
          = Bodies(w, op) \o WithBody(Bodies(front, op), last, op)
    BY <2>1, <2>6, WithBodyConcat
  <2> QED
    BY <2>2, <2>4, <2>5, <2>7
<1> HIDE DEF Joins
<1>3. Len(v) \in Nat /\ Len(v) \in P
  BY <1>1, <1>2, NatInductSet, LenProperties
<1> QED
  BY <1>3 DEF Joins

-----------------------------------------------------------------------------
(* The feed of either kind of frame. *)

Kinds == {"CONFIG_SND", "BRIDGE_SND"}

\* What can be published, what is cached, what is queued for each monitor and what it
\* has handled.
Published(op) == IF op = "CONFIG_SND" THEN Configs ELSE Bridges
Cached(op) == IF op = "CONFIG_SND" THEN snapshot.config ELSE snapshot.bridge
Inbox(op) == [c \in Clients |-> Bodies(wire[c], op)]
SeenBy(m, op) == IF op = "CONFIG_SND" THEN m.config ELSE m.bridge
Seen(op) == [c \in Clients |-> SeenBy(monitor[c], op)]

Feed(op) == INSTANCE TopicFeed WITH
    Values <- Published(op), value <- Cached(op), session <- Session,
    inbox <- Inbox(op), seen <- Seen(op)

\* It is ConfigFeed and BridgeFeed.
LEMMA FeedIsConfigFeed ==
    /\ Feed("CONFIG_SND")!Init => ConfigFeed!Init
    /\ [Feed("CONFIG_SND")!Next]_(Feed("CONFIG_SND")!vars) => [ConfigFeed!Next]_(ConfigFeed!vars)
<1> USE DEF Published, Cached, Inbox, SeenBy, Seen
<1>1. Feed("CONFIG_SND")!Init => ConfigFeed!Init
  BY DEF Feed!Init, ConfigFeed!Init
<1>2. UNCHANGED Feed("CONFIG_SND")!vars => UNCHANGED ConfigFeed!vars
  BY DEF Feed!vars, ConfigFeed!vars
<1>3. Feed("CONFIG_SND")!Next => ConfigFeed!Next
  BY DEF Feed!Next, ConfigFeed!Next, Feed!Publish, ConfigFeed!Publish,
         Feed!Subscribe, ConfigFeed!Subscribe, Feed!Repeat, ConfigFeed!Repeat,
         Feed!Deliver, ConfigFeed!Deliver, Feed!End, ConfigFeed!End,
         Feed!Leave, ConfigFeed!Leave
<1> QED
  BY <1>1, <1>2, <1>3

\* The same for BRIDGE.
LEMMA FeedIsBridgeFeed ==
    /\ Feed("BRIDGE_SND")!Init => BridgeFeed!Init
    /\ [Feed("BRIDGE_SND")!Next]_(Feed("BRIDGE_SND")!vars) => [BridgeFeed!Next]_(BridgeFeed!vars)
<1> USE DEF Published, Cached, Inbox, SeenBy, Seen
<1>1. Feed("BRIDGE_SND")!Init => BridgeFeed!Init
  BY DEF Feed!Init, BridgeFeed!Init
<1>2. UNCHANGED Feed("BRIDGE_SND")!vars => UNCHANGED BridgeFeed!vars
  BY DEF Feed!vars, BridgeFeed!vars
<1>3. Feed("BRIDGE_SND")!Next => BridgeFeed!Next
  BY DEF Feed!Next, BridgeFeed!Next, Feed!Publish, BridgeFeed!Publish,
         Feed!Subscribe, BridgeFeed!Subscribe, Feed!Repeat, BridgeFeed!Repeat,
         Feed!Deliver, BridgeFeed!Deliver, Feed!End, BridgeFeed!End,
         Feed!Leave, BridgeFeed!Leave
<1> QED
  BY <1>1, <1>2, <1>3

\* What the sessions are to the feed.
LEMMA SessionKinds ==
    /\ SessionOf("open") = "on" /\ SessionOf("closing") = "on"
    /\ SessionOf("closed") = "ended" /\ SessionOf("down") = "off"
  BY DEF SessionOf

\* A step that changes one session, one queue, or what one monitor has handled.
LEMMA OneSession ==
    ASSUME NEW c \in Clients, NEW op
    PROVE  /\ \A state : conn' = [conn EXCEPT ![c] = state] /\ DOMAIN conn = Clients
                 => Session' = [Session EXCEPT ![c] = SessionOf(state)]
           /\ \A w : wire' = [wire EXCEPT ![c] = w] /\ DOMAIN wire = Clients
                 => Inbox(op)' = [Inbox(op) EXCEPT ![c] = Bodies(w, op)]
           /\ \A m : monitor' = [monitor EXCEPT ![c] = m] /\ DOMAIN monitor = Clients
                 => Seen(op)' = [Seen(op) EXCEPT ![c] = SeenBy(m, op)]
           /\ UNCHANGED conn => UNCHANGED Session
           /\ UNCHANGED wire => UNCHANGED Inbox(op)
           /\ UNCHANGED monitor => UNCHANGED Seen(op)
<1>1. ASSUME NEW state, conn' = [conn EXCEPT ![c] = state], DOMAIN conn = Clients
      PROVE  Session' = [Session EXCEPT ![c] = SessionOf(state)]
  BY <1>1 DEF Session
<1>2. ASSUME NEW w, wire' = [wire EXCEPT ![c] = w], DOMAIN wire = Clients
      PROVE  Inbox(op)' = [Inbox(op) EXCEPT ![c] = Bodies(w, op)]
  BY <1>2 DEF Inbox
<1>3. ASSUME NEW m, monitor' = [monitor EXCEPT ![c] = m], DOMAIN monitor = Clients
      PROVE  Seen(op)' = [Seen(op) EXCEPT ![c] = SeenBy(m, op)]
  BY <1>3 DEF Seen
<1>4. /\ UNCHANGED conn => UNCHANGED Session
      /\ UNCHANGED wire => UNCHANGED Inbox(op)
      /\ UNCHANGED monitor => UNCHANGED Seen(op)
  BY DEF Session, Inbox, Seen
<1> QED
  BY <1>1, <1>2, <1>3, <1>4

-----------------------------------------------------------------------------
(* What the frames of a step bring to each feed. *)

\* The bodies of the cached frames.
LEMMA BodiesOfCached ==
    /\ \A config \in Configs :
          /\ Bodies(<<Frame("CONFIG_SND", config)>>, "CONFIG_SND") = <<config>>
          /\ Bodies(<<Frame("CONFIG_SND", config)>>, "BRIDGE_SND") = <<>>
    /\ \A bridge \in Bridges :
          /\ Bodies(<<Frame("BRIDGE_SND", bridge)>>, "BRIDGE_SND") = <<bridge>>
          /\ Bodies(<<Frame("BRIDGE_SND", bridge)>>, "CONFIG_SND") = <<>>
<1>1. ASSUME NEW config \in Configs
      PROVE  /\ Bodies(<<Frame("CONFIG_SND", config)>>, "CONFIG_SND") = <<config>>
             /\ Bodies(<<Frame("CONFIG_SND", config)>>, "BRIDGE_SND") = <<>>
  <2> DEFINE f == Frame("CONFIG_SND", config)
  <2>1. f \in Frames /\ f.op = "CONFIG_SND" /\ f.body = config
    BY FrameKinds
  <2> HIDE DEF f
  <2>2. \A op : Bodies(<<f>>, op) = IF f.op = op THEN <<f.body>> ELSE <<>>
    BY <2>1, BodiesOfOne
  <2>3. Bodies(<<f>>, "CONFIG_SND") = <<config>> /\ Bodies(<<f>>, "BRIDGE_SND") = <<>>
    BY <2>1, <2>2
  <2> QED
    BY <2>3 DEF f
<1>2. ASSUME NEW bridge \in Bridges
      PROVE  /\ Bodies(<<Frame("BRIDGE_SND", bridge)>>, "BRIDGE_SND") = <<bridge>>
             /\ Bodies(<<Frame("BRIDGE_SND", bridge)>>, "CONFIG_SND") = <<>>
  <2> DEFINE f == Frame("BRIDGE_SND", bridge)
  <2>1. f \in Frames /\ f.op = "BRIDGE_SND" /\ f.body = bridge
    BY FrameKinds DEF Frames
  <2> HIDE DEF f
  <2>2. \A op : Bodies(<<f>>, op) = IF f.op = op THEN <<f.body>> ELSE <<>>
    BY <2>1, BodiesOfOne
  <2>3. Bodies(<<f>>, "BRIDGE_SND") = <<bridge>> /\ Bodies(<<f>>, "CONFIG_SND") = <<>>
    BY <2>1, <2>2
  <2> QED
    BY <2>3 DEF f
<1> QED
  BY <1>1, <1>2

\* A body or none.
Optional(body) == IF body = None THEN <<>> ELSE <<body>>

\* The frames made of the cache.
LEMMA BodiesOfFrames ==
    /\ \A config \in Configs \cup {None} :
          /\ Bodies(ConfigFrameOf(config), "CONFIG_SND") = Optional(config)
          /\ Bodies(ConfigFrameOf(config), "BRIDGE_SND") = <<>>
    /\ \A bridge \in Bridges \cup {None} :
          /\ Bodies(BridgeFrameOf(bridge), "BRIDGE_SND") = Optional(bridge)
          /\ Bodies(BridgeFrameOf(bridge), "CONFIG_SND") = <<>>
  BY BodiesOfCached, BodiesEmpty DEF ConfigFrameOf, BridgeFrameOf, Optional

\* Two sequences of one element.
LEMMA Two ==
    ASSUME NEW S, NEW u \in S, NEW v \in S
    PROVE  <<u>> \o <<v>> = <<u, v>>
<1> DEFINE uv == <<u, v>>
           a == <<u>>
           b == <<v>>
<1>1. uv \in Seq(S) /\ Len(uv) = 2 /\ uv[1] = u /\ uv[2] = v
  OBVIOUS
<1>2. a \in Seq(S) /\ Len(a) = 1 /\ a[1] = u
  OBVIOUS
<1>3. b \in Seq(S) /\ Len(b) = 1 /\ b[1] = v
  OBVIOUS
<1> HIDE DEF uv, a, b
<1>4. /\ a \o b \in Seq(S) /\ Len(a \o b) = Len(a) + Len(b)
      /\ \A i \in 1..(Len(a) + Len(b)) :
            (a \o b)[i] = IF i <= Len(a) THEN a[i] ELSE b[i - Len(a)]
  BY <1>2, <1>3, ConcatProperties
<1>5. Len(a \o b) = 2 /\ (a \o b)[1] = u /\ (a \o b)[2] = v
  BY <1>2, <1>3, <1>4
<1>6. a \o b = uv
  BY <1>1, <1>4, <1>5, SeqEqual
<1> QED
  BY <1>6 DEF uv, a, b

\* The live frame of an output is a BRIDGE, which is then cached, or brings nothing.
LEMMA BodiesOfLive ==
    ASSUME NEW out \in Outputs
    PROVE  /\ Bodies(out.live, "CONFIG_SND") = <<>>
           /\ \/ \E b \in Bridges : /\ Bodies(out.live, "BRIDGE_SND") = <<b>>
                                    /\ BridgeAfter(out.live) = b
              \/ /\ Bodies(out.live, "BRIDGE_SND") = <<>>
                 /\ BridgeAfter(out.live) = snapshot.bridge
<1>1. out.live \in {<<>>} \cup {<<f>> : f \in BridgeFrames \cup EventFrames}
  BY DEF Outputs
<1>2. CASE out.live = <<>>
  BY <1>2, BodiesEmpty DEF BridgeAfter
<1>3. CASE out.live # <<>>
  <2>1. PICK f \in BridgeFrames \cup EventFrames : out.live = <<f>>
    BY <1>1, <1>3
  <2>2. f \in Frames /\ f.op # "CONFIG_SND" /\ (f.op = "BRIDGE_SND" => f.body \in Bridges)
    BY FrameKinds
  <2>3. \A op : Bodies(<<f>>, op) = IF f.op = op THEN <<f.body>> ELSE <<>>
    BY <2>2, BodiesOfOne
  <2>4. out.live # <<>> /\ out.live[1] = f
    BY <2>1
  <2>5. Bodies(out.live, "CONFIG_SND") = <<>>
    BY <2>1, <2>2, <2>3
  <2>6. CASE f.op = "BRIDGE_SND"
    <3>1. Bodies(out.live, "BRIDGE_SND") = <<f.body>>
      BY <2>1, <2>3, <2>6
    <3>2. BridgeAfter(out.live) = f.body
      BY <2>4, <2>6 DEF BridgeAfter
    <3> QED
      BY <2>2, <2>5, <2>6, <3>1, <3>2
  <2>7. CASE f.op # "BRIDGE_SND"
    <3>1. Bodies(out.live, "BRIDGE_SND") = <<>>
      BY <2>1, <2>3, <2>7
    <3>2. BridgeAfter(out.live) = snapshot.bridge
      BY <2>4, <2>7 DEF BridgeAfter
    <3> QED
      BY <2>5, <3>1, <3>2
  <2> QED
    BY <2>6, <2>7
<1> QED
  BY <1>2, <1>3

\* A publication brings the CONFIG feed its CONFIG, the BRIDGE feed the live BRIDGE and
\* the enriched one.
LEMMA BodiesOfPublication ==
    ASSUME NEW out \in Outputs, NEW enriched \in Bridges \cup {None},
           out.config # None
    PROVE  LET frames == out.live \o BridgeFrameOf(enriched) \o ConfigFrameOf(out.config)
           IN  /\ Bodies(frames, "CONFIG_SND") = <<out.config>>
               /\ Bodies(frames, "BRIDGE_SND")
                    = Bodies(out.live, "BRIDGE_SND") \o Optional(enriched)
<1> DEFINE live == out.live
           bridge == BridgeFrameOf(enriched)
           config == ConfigFrameOf(out.config)
<1>1. /\ live \in Seq(Frames) /\ out.config \in Configs \cup {None}
      /\ Bodies(live, "CONFIG_SND") = <<>>
  BY LiveType, BodiesOfLive
<1>2. /\ bridge \in Seq(Frames)
      /\ Bodies(bridge, "BRIDGE_SND") = Optional(enriched)
      /\ Bodies(bridge, "CONFIG_SND") = <<>>
  BY BridgeFrameType, BodiesOfFrames
<1>3. /\ config \in Seq(Frames)
      /\ Bodies(config, "CONFIG_SND") = <<out.config>>
      /\ Bodies(config, "BRIDGE_SND") = <<>>
  BY <1>1, ConfigFrameType, BodiesOfFrames DEF Optional
<1>4. <<out.config>> \in Seq(AnyBody) /\ Optional(enriched) \in Seq(AnyBody)
  <2>1. out.config \in AnyBody /\ (enriched # None => enriched \in AnyBody)
    BY <1>1 DEF AnyBody
  <2>2. <<>> \in Seq(AnyBody) /\ \A e \in AnyBody : <<e>> \in Seq(AnyBody)
    OBVIOUS
  <2> QED
    BY <2>1, <2>2 DEF Optional
<1> HIDE DEF live, bridge, config
<1>5. live \o bridge \in Seq(Frames)
  BY <1>1, <1>2, ConcatProperties
<1>6. ASSUME NEW op
      PROVE  Bodies((live \o bridge) \o config, op)
                = (Bodies(live, op) \o Bodies(bridge, op)) \o Bodies(config, op)
  <2>1. Bodies((live \o bridge) \o config, op) = Bodies(live \o bridge, op) \o Bodies(config, op)
    BY <1>3, <1>5, BodiesConcat
  <2>2. Bodies(live \o bridge, op) = Bodies(live, op) \o Bodies(bridge, op)
    BY <1>1, <1>2, BodiesConcat
  <2> QED
    BY <2>1, <2>2
<1>7. Bodies((live \o bridge) \o config, "CONFIG_SND") = <<out.config>>
  <2>1. <<>> \o <<>> = <<>> /\ <<>> \o <<out.config>> = <<out.config>>
    BY <1>4, Empty, ConcatEmptySeq
  <2> QED
    BY <1>1, <1>2, <1>3, <1>6, <2>1
<1>8. Bodies((live \o bridge) \o config, "BRIDGE_SND")
        = Bodies(live, "BRIDGE_SND") \o Optional(enriched)
  <2>1. Bodies(live, "BRIDGE_SND") \in Seq(AnyBody)
    BY <1>1, BodiesType
  <2>2. Bodies(live, "BRIDGE_SND") \o Optional(enriched) \in Seq(AnyBody)
    BY <1>4, <2>1, ConcatProperties
  <2>3. (Bodies(live, "BRIDGE_SND") \o Optional(enriched)) \o <<>>
          = Bodies(live, "BRIDGE_SND") \o Optional(enriched)
    BY <2>2, ConcatEmptySeq
  <2> QED
    BY <1>2, <1>3, <1>6, <2>3
<1> QED
  BY <1>7, <1>8 DEF live, bridge, config

-----------------------------------------------------------------------------
(* Each step of the proxy, as a step of a feed. *)

\* The cached value is a body or none, what is queued are bodies.
LEMMA FeedTypes ==
    ASSUME TypeOK, NEW op \in Kinds
    PROVE  /\ Cached(op) \in Published(op) \cup {None}
           /\ None \notin Published(op)
           /\ \A c \in Clients : Inbox(op)[c] = Bodies(wire[c], op)
           /\ \A c \in Clients : Inbox(op)[c] \in Seq(AnyBody)
           /\ \A c \in Clients : Session[c] = SessionOf(conn[c])
           /\ \A c \in Clients : Session[c] = "on" <=> c \in Active
           /\ DOMAIN conn = Clients /\ DOMAIN wire = Clients /\ DOMAIN monitor = Clients
<1>1. /\ Cached(op) \in Published(op) \cup {None}
      /\ None \notin Published(op)
  BY NoneIsNoBody DEF TypeOK, Kinds, Cached, Published
<1>2. \A c \in Clients : Inbox(op)[c] = Bodies(wire[c], op)
  BY DEF Inbox
<1>3. \A c \in Clients : Bodies(wire[c], op) \in Seq(AnyBody)
  BY BodiesType DEF TypeOK
<1>4. \A c \in Clients : Session[c] = SessionOf(conn[c])
  BY DEF Session
<1>5. \A c \in Clients : Session[c] = "on" <=> c \in Active
  BY <1>4 DEF TypeOK, SessionOf, Active
<1>6. DOMAIN conn = Clients /\ DOMAIN wire = Clients /\ DOMAIN monitor = Clients
  BY DEF TypeOK
<1> QED
  BY <1>1, <1>2, <1>3, <1>4, <1>5, <1>6

\* A broadcast, as the feed sees it.
LEMMA FeedBroadcast ==
    ASSUME TypeOK, NEW op \in Kinds, NEW frames \in Seq(Frames), Broadcast(frames)
    PROVE  Inbox(op)' = [c \in Clients |->
                            IF Session[c] = "on" THEN Inbox(op)[c] \o Bodies(frames, op)
                                                 ELSE Inbox(op)[c]]
<1>1. \A c \in Clients : Bodies(wire[c] \o frames, op) = Bodies(wire[c], op) \o Bodies(frames, op)
  BY BodiesConcat DEF TypeOK
<1>2. \A c \in Clients : wire'[c] = IF c \in Active THEN wire[c] \o frames ELSE wire[c]
  BY DEF Broadcast
<1>3. ASSUME NEW c \in Clients
      PROVE  Bodies(wire'[c], op) = IF Session[c] = "on" THEN Inbox(op)[c] \o Bodies(frames, op)
                                                         ELSE Inbox(op)[c]
  <2>1. /\ Inbox(op)[c] = Bodies(wire[c], op)
        /\ Session[c] = "on" <=> c \in Active
    BY FeedTypes
  <2>2. CASE c \in Active
    BY <1>1, <1>2, <2>1, <2>2
  <2>3. CASE c \notin Active
    BY <1>2, <2>1, <2>3
  <2> QED
    BY <2>2, <2>3
<1>4. Inbox(op)' = [c \in Clients |-> Bodies(wire'[c], op)]
  BY DEF Inbox
<1> QED
  BY <1>3, <1>4

\* A broadcast without a frame of this kind is no step of its feed.
LEMMA FeedUntouched ==
    ASSUME TypeOK, NEW op \in Kinds, NEW frames \in Seq(Frames), Broadcast(frames),
           Bodies(frames, op) = <<>>, UNCHANGED Session, UNCHANGED monitor,
           UNCHANGED Cached(op)
    PROVE  [Feed(op)!Next]_(Feed(op)!vars)
<1>1. ASSUME NEW c \in Clients
      PROVE  Inbox(op)[c] \o <<>> = Inbox(op)[c]
  <2>1. Inbox(op)[c] \in Seq(AnyBody)
    BY FeedTypes
  <2> QED
    BY <2>1, ConcatEmptySeq
<1>2. Inbox(op)' = [c \in Clients |-> Inbox(op)[c]]
  <2>1. Inbox(op)' = [c \in Clients |->
                        IF Session[c] = "on" THEN Inbox(op)[c] \o <<>> ELSE Inbox(op)[c]]
    BY FeedBroadcast
  <2> QED
    BY <1>1, <2>1
<1>3. Inbox(op) = [c \in Clients |-> Inbox(op)[c]]
  BY DEF Inbox
<1>4. UNCHANGED Seen(op)
  BY DEF Seen
<1> QED
  BY <1>2, <1>3, <1>4 DEF Feed!vars

\* A broadcast with one body, or two, publishes them.
LEMMA FeedPublishes ==
    ASSUME TypeOK, NEW op \in Kinds, NEW frames \in Seq(Frames), Broadcast(frames),
           UNCHANGED Session, UNCHANGED monitor, NEW v \in Published(op),
           Cached(op)' = v,
           \/ Bodies(frames, op) = <<v>>
           \/ \E u \in Published(op) : Bodies(frames, op) = <<u, v>>
    PROVE  Feed(op)!Next
<1>1. Inbox(op)' = [c \in Clients |->
                      IF Session[c] = "on" THEN Inbox(op)[c] \o Bodies(frames, op)
                                           ELSE Inbox(op)[c]]
  BY FeedBroadcast
<1>2. UNCHANGED <<Session, Seen(op)>>
  BY DEF Seen
<1>3. CASE Bodies(frames, op) = <<v>>
  <2>1. v = <<v>>[Len(<<v>>)]
    OBVIOUS
  <2>2. Feed(op)!Publish(<<v>>)
    BY <1>1, <1>2, <1>3, <2>1 DEF Feed!Publish
  <2> QED
    BY <2>2 DEF Feed!Next
<1>4. CASE \E u \in Published(op) : Bodies(frames, op) = <<u, v>>
  <2>1. PICK u \in Published(op) : Bodies(frames, op) = <<u, v>>
    BY <1>4
  <2>2. v = <<u, v>>[Len(<<u, v>>)]
    OBVIOUS
  <2>3. Feed(op)!Publish(<<u, v>>)
    BY <1>1, <1>2, <2>1, <2>2 DEF Feed!Publish
  <2> QED
    BY <2>3 DEF Feed!Next
<1> QED
  BY <1>3, <1>4

\* The live frame goes out, whether or not an exception follows.
LEMMA FeedLive ==
    ASSUME TypeOK, NEW op \in Kinds, NEW out \in Outputs,
           snapshot' = [snapshot EXCEPT !.bridge = BridgeAfter(out.live)],
           Broadcast(out.live), UNCHANGED <<conn, monitor>>
    PROVE  [Feed(op)!Next]_(Feed(op)!vars)
<1>1. UNCHANGED Session /\ UNCHANGED monitor
  BY DEF Session
<1>2. out.live \in Seq(Frames)
  BY LiveType
<1>3. snapshot'.config = snapshot.config /\ snapshot'.bridge = BridgeAfter(out.live)
  BY DEF TypeOK
<1>4. CASE op = "CONFIG_SND"
  <2>1. UNCHANGED Cached(op) /\ Bodies(out.live, op) = <<>>
    BY <1>3, <1>4, BodiesOfLive DEF Cached
  <2> QED
    BY <1>1, <1>2, <2>1, FeedUntouched
<1>5. CASE op = "BRIDGE_SND"
  <2>0. Cached(op)' = BridgeAfter(out.live) /\ Cached(op) = snapshot.bridge
    BY <1>3, <1>5 DEF Cached
  <2>1. CASE Bodies(out.live, op) = <<>> /\ BridgeAfter(out.live) = snapshot.bridge
    BY <1>1, <1>2, <2>0, <2>1, FeedUntouched
  <2>2. CASE \E b \in Bridges : Bodies(out.live, op) = <<b>> /\ BridgeAfter(out.live) = b
    <3>1. PICK b \in Published(op) : Bodies(out.live, op) = <<b>> /\ BridgeAfter(out.live) = b
      BY <1>5, <2>2 DEF Published
    <3>2. Feed(op)!Next
      BY <1>1, <1>2, <2>0, <3>1, FeedPublishes
    <3> QED
      BY <3>2
  <2> QED
    BY <1>5, <2>1, <2>2, BodiesOfLive
<1> QED
  BY <1>4, <1>5 DEF Kinds

\* A CONFIG is published, the sessions being reset or not.
LEMMA FeedPublication ==
    ASSUME TypeOK, NEW op \in Kinds, NEW out \in Outputs,
           NEW enriched \in Bridges \cup {None}, PublishConfig(out, enriched)
    PROVE  [Feed(op)!Next]_(Feed(op)!vars)
<1> DEFINE frames == out.live \o BridgeFrameOf(enriched) \o ConfigFrameOf(out.config)
<1>1. /\ out.config # None
      /\ enriched \in Enrichments(BridgeAfter(out.live), out.config)
      /\ snapshot' = [config |-> out.config, bridge |-> enriched]
      /\ Broadcast(frames)
      /\ UNCHANGED monitor
      /\ DisconnectAll \/ UNCHANGED conn
  BY DEF PublishConfig
<1>2. /\ out.config \in Configs
      /\ frames \in Seq(Frames)
      /\ Bodies(frames, "CONFIG_SND") = <<out.config>>
      /\ Bodies(frames, "BRIDGE_SND") = Bodies(out.live, "BRIDGE_SND") \o Optional(enriched)
  BY <1>1, LiveType, PublishedFrames, BodiesOfPublication
<1> HIDE DEF frames
<1>3. UNCHANGED Session
  <2>1. CASE UNCHANGED conn
    BY <2>1 DEF Session
  <2>2. CASE DisconnectAll
    <3>1. \A c \in Clients : SessionOf(conn'[c]) = SessionOf(conn[c])
      BY <2>2, SessionKinds DEF DisconnectAll, Active
    <3> QED
      BY <3>1 DEF Session
  <2> QED
    BY <1>1, <2>1, <2>2
<1>4. CASE op = "CONFIG_SND"
  <2>1. /\ Cached(op)' = out.config /\ out.config \in Published(op)
        /\ Bodies(frames, op) = <<out.config>>
    BY <1>1, <1>2, <1>4 DEF Cached, Published
  <2>2. Feed(op)!Next
    BY <1>1, <1>2, <1>3, <2>1, FeedPublishes
  <2> QED
    BY <2>2
<1>5. CASE op = "BRIDGE_SND"
  <2>1. /\ Cached(op)' = enriched /\ Cached(op) = snapshot.bridge /\ Published(op) = Bridges
        /\ Bodies(frames, op) = Bodies(out.live, op) \o Optional(enriched)
    BY <1>1, <1>2, <1>5 DEF Cached, Published
  <2>2. CASE enriched = None
    <3>1. BridgeAfter(out.live) = None
      <4>1. BridgeAfter(out.live) \in Bridges \cup {None}
        BY BridgeAfterType
      <4>2. \A b \in Bridges : Enriched[b, out.config] \subseteq Bridges
        BY <1>2, EnrichedType
      <4> QED
        BY <1>1, <2>2, <4>1, <4>2, NoneIsNoBody DEF Enrichments
    <3>2. Bodies(out.live, op) = <<>> /\ snapshot.bridge = None
      BY <1>5, <3>1, BodiesOfLive, NoneIsNoBody
    <3>3. Bodies(frames, op) = <<>>
      BY <2>1, <2>2, <3>2, Empty, ConcatEmptySeq DEF Optional
    <3>4. UNCHANGED Cached(op)
      BY <2>1, <2>2, <3>2
    <3> QED
      BY <1>1, <1>2, <1>3, <3>3, <3>4, FeedUntouched
  <2>3. CASE enriched # None
    <3>1. enriched \in Published(op) /\ Optional(enriched) = <<enriched>>
      BY <2>1, <2>3 DEF Optional
    <3>2. \/ Bodies(frames, op) = <<enriched>>
          \/ \E u \in Published(op) : Bodies(frames, op) = <<u, enriched>>
      <4>1. /\ <<>> \o <<enriched>> = <<enriched>>
            /\ \A b \in Bridges : <<b>> \o <<enriched>> = <<b, enriched>>
        <5>1. enriched \in Bridges
          BY <2>3
        <5>2. <<enriched>> \in Seq(Bridges)
          BY <5>1, Singleton
        <5>3. <<>> \o <<enriched>> = <<enriched>>
          BY <5>2, ConcatEmptySeq
        <5>4. \A b \in Bridges : <<b>> \o <<enriched>> = <<b, enriched>>
          BY <5>1, Two
        <5> QED
          BY <5>3, <5>4
      <4>2. Bodies(out.live, op) = <<>> \/ \E b \in Bridges : Bodies(out.live, op) = <<b>>
        BY <1>5, BodiesOfLive
      <4> QED
        BY <2>1, <3>1, <4>1, <4>2
    <3>3. Feed(op)!Next
      BY <1>1, <1>2, <1>3, <2>1, <3>1, <3>2, FeedPublishes
    <3> QED
      BY <3>3
  <2> QED
    BY <2>2, <2>3
<1> QED
  BY <1>4, <1>5 DEF Kinds

\* A step that the feed does not see.
LEMMA FeedStutters ==
    ASSUME NEW op \in Kinds, UNCHANGED <<snapshot, conn, wire, monitor>>
    PROVE  [Feed(op)!Next]_(Feed(op)!vars)
  BY DEF Feed!vars, Cached, Session, Inbox, Seen

\* The steps of the upstream side.
LEMMA FeedUpstream ==
    ASSUME TypeOK, NEW op \in Kinds, UpstreamNext
    PROVE  [Feed(op)!Next]_(Feed(op)!vars)
<1> USE DEF cacheVars, upstreamVars, sessionVars
<1>1. CASE HandleUpstreamFrame
  <2>1. PICK out \in Outputs :
           \/ \E hello \in BOOLEAN : PublishLive(out, hello)
           \/ \E enriched \in Bridges \cup {None} : PublishConfig(out, enriched)
           \/ PublishRaises(out)
           \/ TranslateRaises
    BY <1>1 DEF HandleUpstreamFrame
  <2>2. CASE \E hello \in BOOLEAN : PublishLive(out, hello)
    <3>1. /\ snapshot' = [snapshot EXCEPT !.bridge = BridgeAfter(out.live)]
          /\ Broadcast(out.live)
          /\ UNCHANGED <<conn, monitor>>
      BY <2>2 DEF PublishLive
    <3> QED
      BY <3>1, FeedLive
  <2>3. CASE \E enriched \in Bridges \cup {None} : PublishConfig(out, enriched)
    BY <2>3, FeedPublication
  <2>4. CASE PublishRaises(out)
    <3>1. /\ snapshot' = [snapshot EXCEPT !.bridge = BridgeAfter(out.live)]
          /\ Broadcast(out.live)
          /\ UNCHANGED <<conn, monitor>>
      BY <2>4 DEF PublishRaises
    <3> QED
      BY <3>1, FeedLive
  <2>5. CASE TranslateRaises
    <3>1. UNCHANGED <<snapshot, conn, wire, monitor>>
      BY <2>5 DEF TranslateRaises
    <3> QED
      BY <3>1, FeedStutters
  <2> QED
    BY <2>1, <2>2, <2>3, <2>4, <2>5
<1>2. CASE UpstreamConnected \/ UpstreamLost \/ ServerReads \/ CacheAges
  <2>1. UNCHANGED <<snapshot, conn, wire, monitor>>
    BY <1>2 DEF UpstreamConnected, UpstreamLost, ServerReads, CacheAges
  <2> QED
    BY <2>1, FeedStutters
<1> QED
  BY <1>1, <1>2 DEF UpstreamNext

\* A step that changes the connection of one monitor.
LEMMA SessionChanges ==
    ASSUME TypeOK, NEW c \in Clients, NEW state, conn' = [conn EXCEPT ![c] = state]
    PROVE  /\ Session[c] = SessionOf(conn[c])
           /\ Session' = [Session EXCEPT ![c] = SessionOf(state)]
<1>1. Session[c] = SessionOf(conn[c])
  BY DEF Session
<1>2. Session' = [Session EXCEPT ![c] = SessionOf(state)]
  BY DEF TypeOK, Session
<1> QED
  BY <1>1, <1>2

\* A monitor connects and is given the cached frames.
LEMMA FeedConnects ==
    ASSUME TypeOK, NEW op \in Kinds, NEW c \in Clients, OnDownstreamConnected(c)
    PROVE  Feed(op)!Next
<1> USE DEF cacheVars, upstreamVars
<1>1. /\ conn[c] = "down" /\ conn' = [conn EXCEPT ![c] = "open"]
      /\ wire' = [wire EXCEPT ![c] = SnapshotForClient]
      /\ UNCHANGED <<snapshot, monitor>>
  BY DEF OnDownstreamConnected
<1>2. Bodies(SnapshotForClient, op) = Optional(Cached(op))
  <2> DEFINE config == ConfigFrameOf(snapshot.config)
             bridge == BridgeFrameOf(snapshot.bridge)
  <2>1. snapshot.config \in Configs \cup {None} /\ snapshot.bridge \in Bridges \cup {None}
    BY DEF TypeOK
  <2>2. /\ config \in Seq(Frames) /\ bridge \in Seq(Frames)
        /\ Bodies(config, "CONFIG_SND") = Optional(snapshot.config)
        /\ Bodies(config, "BRIDGE_SND") = <<>>
        /\ Bodies(bridge, "BRIDGE_SND") = Optional(snapshot.bridge)
        /\ Bodies(bridge, "CONFIG_SND") = <<>>
    BY <2>1, ConfigFrameType, BridgeFrameType, BodiesOfFrames
  <2> HIDE DEF config, bridge
  <2>3. Bodies(config \o bridge, op) = Bodies(config, op) \o Bodies(bridge, op)
    BY <2>2, BodiesConcat
  <2>4. Bodies(config, op) \in Seq(AnyBody) /\ Bodies(bridge, op) \in Seq(AnyBody)
    BY <2>2, BodiesType
  <2>5. /\ Bodies(config, op) \o <<>> = Bodies(config, op)
        /\ <<>> \o Bodies(bridge, op) = Bodies(bridge, op)
    BY <2>4, ConcatEmptySeq
  <2>6. Bodies(config, op) \o Bodies(bridge, op) = Optional(Cached(op))
    BY <2>2, <2>5 DEF Kinds, Cached
  <2> QED
    BY <2>3, <2>6 DEF SnapshotForClient, config, bridge
<1>3. Session[c] = "off" /\ Session' = [Session EXCEPT ![c] = "on"]
  BY <1>1, SessionChanges, SessionKinds
<1>4. Inbox(op)' = [Inbox(op) EXCEPT ![c] = Optional(Cached(op))]
  <2>1. Inbox(op)' = [Inbox(op) EXCEPT ![c] = Bodies(SnapshotForClient, op)]
    BY <1>1, FeedTypes, OneSession
  <2> QED
    BY <1>2, <2>1
<1>5. UNCHANGED <<Cached(op), Seen(op)>>
  BY <1>1 DEF Cached, Seen
<1>6. Feed(op)!Subscribe(c)
  BY <1>3, <1>4, <1>5 DEF Feed!Subscribe, Optional
<1> QED
  BY <1>6 DEF Feed!Next

\* A monitor asks: what it is given is the cached frame again.
LEMMA FeedAnswers ==
    ASSUME TypeOK, NEW op \in Kinds, NEW c \in Clients,
           NEW req \in {"CONFIG_REQ", "BRIDGE_REQ"}, HandleDownstreamRequest(c, req)
    PROVE  [Feed(op)!Next]_(Feed(op)!vars)
<1> USE DEF cacheVars
<1> DEFINE kind == IF req = "CONFIG_REQ" THEN "CONFIG_SND" ELSE "BRIDGE_SND"
           cached == IF req = "CONFIG_REQ" THEN ConfigFrameOf(snapshot.config)
                                           ELSE BridgeFrameOf(snapshot.bridge)
<1>1. /\ conn[c] = "open" /\ UNCHANGED <<snapshot, conn, monitor>>
      /\ \/ cached # <<>> /\ wire' = [wire EXCEPT ![c] = Append(@, cached[1])]
         \/ cached = <<>> /\ UNCHANGED wire
  BY DEF HandleDownstreamRequest, ServeFromCache
<1>2. CASE cached = <<>>
  <2>1. UNCHANGED <<snapshot, conn, wire, monitor>>
    BY <1>1, <1>2
  <2> QED
    BY <2>1, FeedStutters
<1>3. CASE cached # <<>>
  <2> DEFINE frame == cached[1]
  <2>1. /\ frame \in Frames /\ frame.op = kind /\ frame.body = Cached(kind)
        /\ Cached(kind) # None
    <3>1. snapshot.config \in Configs \cup {None} /\ snapshot.bridge \in Bridges \cup {None}
      BY DEF TypeOK
    <3>2. CASE req = "CONFIG_REQ"
      <4>1. snapshot.config # None
        BY <1>3, <3>2 DEF ConfigFrameOf
      <4>2. frame = Frame("CONFIG_SND", snapshot.config)
        BY <3>2, <4>1 DEF ConfigFrameOf
      <4>3. /\ frame \in Frames /\ frame.op = "CONFIG_SND" /\ frame.body = snapshot.config
        BY <3>1, <4>1, <4>2, FrameKinds
      <4> QED
        BY <3>2, <4>1, <4>3 DEF Cached
    <3>3. CASE req = "BRIDGE_REQ"
      <4>1. snapshot.bridge # None
        BY <1>3, <3>3 DEF BridgeFrameOf
      <4>2. frame = Frame("BRIDGE_SND", snapshot.bridge)
        BY <3>3, <4>1 DEF BridgeFrameOf
      <4>3. /\ frame \in Frames /\ frame.op = "BRIDGE_SND" /\ frame.body = snapshot.bridge
        BY <3>1, <4>1, <4>2, FrameKinds DEF Frames
      <4> QED
        BY <3>3, <4>1, <4>3 DEF Cached
    <3> QED
      BY <3>2, <3>3
  <2>2. wire' = [wire EXCEPT ![c] = Append(wire[c], frame)]
    BY <1>1, <1>3
  <2> HIDE DEF frame, cached
  <2>3. Bodies(Append(wire[c], frame), op) = WithBody(Inbox(op)[c], frame, op)
    <3>1. wire[c] \in Seq(Frames)
      BY DEF TypeOK
    <3>2. Inbox(op)[c] = Bodies(wire[c], op)
      BY FeedTypes
    <3> QED
      BY <2>1, <3>1, <3>2, BodiesAppend
  <2>4. Inbox(op)' = [Inbox(op) EXCEPT ![c] = WithBody(Inbox(op)[c], frame, op)]
    <3>1. Inbox(op)' = [Inbox(op) EXCEPT ![c] = Bodies(Append(wire[c], frame), op)]
      BY <2>2, FeedTypes, OneSession
    <3> QED
      BY <2>3, <3>1
  <2>5. UNCHANGED <<Cached(op), Session, Seen(op)>>
    BY <1>1 DEF Cached, Session, Seen
  <2>6. CASE kind = op
    <3>1. Session[c] = "on"
      BY <1>1, FeedTypes, SessionKinds
    <3>2. Inbox(op)' = [Inbox(op) EXCEPT ![c] = Append(Inbox(op)[c], Cached(op))]
      BY <2>1, <2>4, <2>6 DEF WithBody
    <3>3. Feed(op)!Repeat(c)
      BY <2>1, <2>5, <2>6, <3>1, <3>2 DEF Feed!Repeat
    <3> QED
      BY <3>3 DEF Feed!Next
  <2>7. CASE kind # op
    <3>1. Inbox(op)' = [Inbox(op) EXCEPT ![c] = Inbox(op)[c]]
      BY <2>1, <2>4, <2>7 DEF WithBody
    <3>2. UNCHANGED Inbox(op)
      BY <3>1 DEF Inbox
    <3> QED
      BY <2>5, <3>2 DEF Feed!vars
  <2> QED
    BY <2>6, <2>7
<1> QED
  BY <1>2, <1>3

\* A monitor reads a frame: a delivery of its feed, nothing to the other one.
LEMMA FeedDelivers ==
    ASSUME TypeOK, NEW op \in Kinds, NEW c \in Clients, MonitorReceives(c)
    PROVE  [Feed(op)!Next]_(Feed(op)!vars)
<1> USE DEF cacheVars, upstreamVars
<1> DEFINE w == wire[c]
           frame == Head(w)
           rest == Tail(w)
           m == Handled(monitor[c], frame)
<1>1. /\ w # <<>> /\ UNCHANGED <<snapshot, conn>>
      /\ wire' = [wire EXCEPT ![c] = rest]
      /\ monitor' = [monitor EXCEPT ![c] = m]
  BY DEF MonitorReceives
<1>2. w \in Seq(Frames) /\ frame \in Frames /\ rest \in Seq(Frames) /\ <<frame>> \o rest = w
  <2>1. w \in Seq(Frames)
    BY DEF TypeOK
  <2> HIDE DEF w
  <2>2. frame \in Frames /\ rest \in Seq(Frames)
    BY <1>1, <2>1, HeadTailProperties
  <2>3. <<frame>> \o rest = w
    BY <1>1, <2>1
  <2> QED
    BY <2>1, <2>2, <2>3
<1>3. /\ SeenBy(m, op) = IF frame.op = op THEN frame.body ELSE SeenBy(monitor[c], op)
  <2>1. monitor[c] \in [config : Configs \cup {None}, bridge : Bridges \cup {None},
                        ctable : SUBSET Systems]
    BY DEF TypeOK
  <2> HIDE DEF frame
  <2> QED
    BY <2>1 DEF SeenBy, Handled, Kinds
<1>4. Inbox(op)' = [Inbox(op) EXCEPT ![c] = Bodies(rest, op)]
  BY <1>1, FeedTypes, OneSession
<1>5. Seen(op)' = [Seen(op) EXCEPT ![c] = SeenBy(m, op)]
  BY <1>1, FeedTypes, OneSession
<1>6. UNCHANGED <<Cached(op), Session>>
  BY <1>1 DEF Cached, Session
<1>7. Inbox(op)[c] = Bodies(<<frame>>, op) \o Bodies(rest, op)
  <2>1. Inbox(op)[c] = Bodies(w, op)
    BY FeedTypes
  <2> HIDE DEF w, frame, rest
  <2>2. <<frame>> \in Seq(Frames)
    BY <1>2, Singleton
  <2>3. Bodies(<<frame>> \o rest, op) = Bodies(<<frame>>, op) \o Bodies(rest, op)
    BY <1>2, <2>2, BodiesConcat
  <2> QED
    BY <1>2, <2>1, <2>3
<1>8. Bodies(rest, op) \in Seq(AnyBody)
  BY <1>2, BodiesType
<1>9. Bodies(<<frame>>, op) = IF frame.op = op THEN <<frame.body>> ELSE <<>>
  BY <1>2, BodiesOfOne
<1>10. frame.body \in AnyBody
  BY <1>2 DEF Frames, ConfigFrames, BridgeFrames, EventFrames, AnyBody
<1> HIDE DEF w, frame, rest, m
<1>11. CASE frame.op = op
  <2>1. Inbox(op)[c] = <<frame.body>> \o Bodies(rest, op)
    BY <1>7, <1>9, <1>11
  <2>2. /\ <<frame.body>> \o Bodies(rest, op) # <<>>
        /\ Head(<<frame.body>> \o Bodies(rest, op)) = frame.body
        /\ Tail(<<frame.body>> \o Bodies(rest, op)) = Bodies(rest, op)
    BY <1>8, <1>10
  <2>3. Feed(op)!Deliver(c)
    BY <1>3, <1>4, <1>5, <1>6, <1>11, <2>1, <2>2 DEF Feed!Deliver
  <2> QED
    BY <2>3 DEF Feed!Next
<1>12. CASE frame.op # op
  <2>1. Inbox(op)[c] = Bodies(rest, op)
    BY <1>7, <1>8, <1>9, <1>12, ConcatEmptySeq
  <2>2. UNCHANGED Inbox(op)
    BY <1>4, <2>1 DEF Inbox
  <2>3. UNCHANGED Seen(op)
    BY <1>3, <1>5, <1>12 DEF Seen
  <2> QED
    BY <1>6, <2>2, <2>3 DEF Feed!vars
<1> QED
  BY <1>11, <1>12

\* A session is closed, or gone.
LEMMA FeedLeaves ==
    ASSUME TypeOK, NEW op \in Kinds, NEW c \in Clients,
           TransportClosed(c) \/ ConnectionLost(c) \/ MonitorSeesEOF(c)
    PROVE  Feed(op)!Next
<1> USE DEF cacheVars, upstreamVars
<1>1. CASE TransportClosed(c)
  <2>1. /\ conn[c] = "closing" /\ conn' = [conn EXCEPT ![c] = "closed"]
        /\ UNCHANGED <<snapshot, wire, monitor>>
    BY <1>1 DEF TransportClosed
  <2>2. Session[c] = "on" /\ Session' = [Session EXCEPT ![c] = "ended"]
    BY <2>1, SessionChanges, SessionKinds
  <2>3. UNCHANGED <<Cached(op), Inbox(op), Seen(op)>>
    BY <2>1 DEF Cached, Inbox, Seen
  <2>4. Feed(op)!End(c)
    BY <2>2, <2>3 DEF Feed!End
  <2> QED
    BY <2>4 DEF Feed!Next
<1>2. CASE ConnectionLost(c) \/ MonitorSeesEOF(c)
  <2>1. /\ conn[c] # "down" /\ conn' = [conn EXCEPT ![c] = "down"]
        /\ wire' = [wire EXCEPT ![c] = <<>>]
        /\ monitor' = [monitor EXCEPT ![c] = FreshMonitor]
        /\ UNCHANGED snapshot
    <3>1. CASE ConnectionLost(c)
      BY <3>1 DEF ConnectionLost
    <3>2. CASE MonitorSeesEOF(c)
      <4>1. wire[c] = <<>> /\ wire' = wire /\ wire = [wire EXCEPT ![c] = wire[c]]
        BY <3>2 DEF MonitorSeesEOF, TypeOK
      <4> QED
        BY <3>2, <4>1 DEF MonitorSeesEOF
    <3> QED
      BY <1>2, <3>1, <3>2
  <2>2. conn[c] \in {"down", "open", "closing", "closed"}
    BY DEF TypeOK
  <2>3. Session[c] # "off" /\ Session' = [Session EXCEPT ![c] = "off"]
    <3>1. SessionOf(conn[c]) # "off"
      BY <2>1, <2>2, SessionKinds
    <3> QED
      BY <2>1, <3>1, SessionChanges, SessionKinds
  <2>4. Inbox(op)' = [Inbox(op) EXCEPT ![c] = <<>>]
    <3>1. Inbox(op)' = [Inbox(op) EXCEPT ![c] = Bodies(<<>>, op)]
      BY <2>1, FeedTypes, OneSession
    <3> QED
      BY <3>1, BodiesEmpty
  <2>5. Seen(op)' = [Seen(op) EXCEPT ![c] = None]
    <3>1. Seen(op)' = [Seen(op) EXCEPT ![c] = SeenBy(FreshMonitor, op)]
      BY <2>1, FeedTypes, OneSession
    <3>2. SeenBy(FreshMonitor, op) = None
      BY DEF SeenBy, FreshMonitor
    <3> QED
      BY <3>1, <3>2
  <2>6. UNCHANGED Cached(op)
    BY <2>1 DEF Cached
  <2>7. Feed(op)!Leave(c)
    BY <2>3, <2>4, <2>5, <2>6 DEF Feed!Leave
  <2> QED
    BY <2>7 DEF Feed!Next
<1> QED
  BY <1>1, <1>2

-----------------------------------------------------------------------------
(* The refinement. *)

\* The proxy starts as the feed does.
LEMMA FeedInit ==
    ASSUME NEW op \in Kinds, Init
    PROVE  Feed(op)!Init
<1>1. Cached(op) = None
  BY DEF Init, Cached
<1>2. Session = [c \in Clients |-> "off"]
  BY SessionKinds DEF Init, Session
<1>3. Inbox(op) = [c \in Clients |-> <<>>]
  BY BodiesEmpty DEF Init, Inbox
<1>4. Seen(op) = [c \in Clients |-> None]
  BY DEF Init, Seen, SeenBy, FreshMonitor
<1> QED
  BY <1>1, <1>2, <1>3, <1>4 DEF Feed!Init

\* Every step is one of the feed or none.
LEMMA FeedStep ==
    ASSUME TypeOK, NEW op \in Kinds, [Next]_vars
    PROVE  [Feed(op)!Next]_(Feed(op)!vars)
<1>1. CASE UpstreamNext
  BY <1>1, FeedUpstream
<1>2. CASE \E c \in Clients : MonitorNext(c)
  <2>1. PICK c \in Clients : MonitorNext(c)
    BY <1>2
  <2>2. CASE OnDownstreamConnected(c)
    BY <2>2, FeedConnects
  <2>3. CASE \E req \in {"CONFIG_REQ", "BRIDGE_REQ"} : HandleDownstreamRequest(c, req)
    BY <2>3, FeedAnswers
  <2>4. CASE MonitorReceives(c)
    BY <2>4, FeedDelivers
  <2>5. CASE TransportClosed(c) \/ ConnectionLost(c) \/ MonitorSeesEOF(c)
    BY <2>5, FeedLeaves
  <2> QED
    BY <2>1, <2>2, <2>3, <2>4, <2>5 DEF MonitorNext
<1>3. CASE UNCHANGED vars
  <2>1. UNCHANGED <<snapshot, conn, wire, monitor>>
    BY <1>3 DEF vars, cacheVars, sessionVars
  <2> QED
    BY <2>1, FeedStutters
<1> QED
  BY <1>1, <1>2, <1>3 DEF Next

\* To its monitors the proxy is a feed of CONFIGs: each one published reaches every
\* session, once and in order, whatever resets, exceptions and lost links come between.
THEOREM ConfigFeedImplemented == Spec => ServesConfigs
<1>1. "CONFIG_SND" \in Kinds
  BY DEF Kinds
<1>2. Init => ConfigFeed!Init
  BY <1>1, FeedInit, FeedIsConfigFeed
<1>3. TypeOK /\ [Next]_vars => [ConfigFeed!Next]_(ConfigFeed!vars)
  BY <1>1, FeedStep, FeedIsConfigFeed
<1>4. Spec => []TypeOK
  BY TypeCorrect
<1> QED
  BY <1>2, <1>3, <1>4, PTL DEF Spec, ServesConfigs, ConfigFeed!Spec

\* And a feed of BRIDGEs: the one a routing frame brings and the one made of it by the
\* sessions of the CONFIG that follows are published in one step and in that order.
THEOREM BridgeFeedImplemented == Spec => ServesBridges
<1>1. "BRIDGE_SND" \in Kinds
  BY DEF Kinds
<1>2. Init => BridgeFeed!Init
  BY <1>1, FeedInit, FeedIsBridgeFeed
<1>3. TypeOK /\ [Next]_vars => [BridgeFeed!Next]_(BridgeFeed!vars)
  BY <1>1, FeedStep, FeedIsBridgeFeed
<1>4. Spec => []TypeOK
  BY TypeCorrect
<1> QED
  BY <1>2, <1>3, <1>4, PTL DEF Spec, ServesBridges, BridgeFeed!Spec
===============================================================================
