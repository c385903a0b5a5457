------------------------------- MODULE ProxyFeeds -------------------------------
(******************************************************************************)
(* ProxyUseCases implements TopicFeed twice: once for CONFIG, once for BRIDGE. *)
(* A session is on as long as it is in active_protocols, and its inbox is its *)
(* wire without the frames of the other kinds.                                *)
(******************************************************************************)
EXTENDS ProxyUseCases

\* The bodies found so far, and that of a frame of kind op.
WithBody(bodies, frame, op) ==
    IF frame.op = op THEN Append(bodies, frame.body) ELSE bodies

\* The bodies of the frames of kind op in w.
Bodies(w, op) ==
    LET bodies[i \in 0..Len(w)] ==
            IF i = 0 THEN <<>> ELSE WithBody(bodies[i - 1], w[i], op)
    IN  bodies[Len(w)]

\* What a connection to a monitor is to a feed: active_protocols keeps a session that
\* is being closed.
SessionOf(state) ==
    CASE state \in {"open", "closing"} -> "on"
      [] state = "closed" -> "ended"
      [] state = "down" -> "off"

Session == [c \in Clients |-> SessionOf(conn[c])]

ConfigFeed == INSTANCE TopicFeed WITH
    Values <- Configs, value <- snapshot.config, session <- Session,
    inbox <- [c \in Clients |-> Bodies(wire[c], "CONFIG_SND")],
    seen <- [c \in Clients |-> monitor[c].config]

BridgeFeed == INSTANCE TopicFeed WITH
    Values <- Bridges, value <- snapshot.bridge, session <- Session,
    inbox <- [c \in Clients |-> Bodies(wire[c], "BRIDGE_SND")],
    seen <- [c \in Clients |-> monitor[c].bridge]

\* To its monitors the proxy is a feed of CONFIGs: every CONFIG published reaches
\* every session in order, a new session starts with the cached one, an answer is
\* the cached one again; resets, exceptions half-way through a frame and lost links
\* never make a session skip one, get one twice or get an older one after a newer.
ServesConfigs == ConfigFeed!Spec

\* The same for BRIDGEs, with the one a routing frame brings and the one made of it
\* by the sessions of the CONFIG that follows published in one step.
ServesBridges == BridgeFeed!Spec
===============================================================================
