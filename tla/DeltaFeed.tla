------------------------------- MODULE DeltaFeed -------------------------------
(******************************************************************************)
(* The sequence numbers of adn-report-proxy's snapshots: a topology (or, the  *)
(* code being the same, a routing table) that a numbering server sends in     *)
(* full or as deltas, and V2ToV1Mapper's snapshot and kept sequence number,   *)
(* across lost connections and restarts of the server.                        *)
(*                                                                            *)
(* A row is the number of the change that made it.  The server is not part of *)
(* the repository: it numbers its changes from 0 as the delta tests do, sends *)
(* a delta for each one while connected, and a full snapshot when it likes.   *)
(******************************************************************************)
EXTENDS Naturals, Sequences

CONSTANTS
    Names,          \* names of the rows
    None,           \* no snapshot yet
    MaxSeq,         \* bound: changes of one server process
    MaxChannel      \* bound: frames on their way

ASSUME MaxSeqType == MaxSeq \in Nat
ASSUME NoneIsNoTable == \A S \in SUBSET Names : None \notin [S -> 0..MaxSeq]

VARIABLES
    rows, seq,      \* the server's snapshot and its number
    link,           \* "up" or "down"
    channel,        \* frames on their way to the proxy
    snapshot,       \* topology_snapshot, or routing_snapshot
    kept_seq,       \* topology_seq, or routing_seq
    missed          \* what the snapshot lacks, see MissedTypes

vars == <<rows, seq, link, channel, snapshot, kept_seq, missed>>

\* Nothing; changes of this server process, none merged since; anything else.
MissedTypes == {"nothing", "changes", "more"}

Tables == UNION {[S -> 0..MaxSeq] : S \in SUBSET Names}
Full == [type : {"full"}, since : {0}, seq : 0..MaxSeq, rows : Tables]
Delta == [type : {"delta"}, since : 0..MaxSeq, seq : 0..MaxSeq, rows : Tables]

TypeOK ==
    /\ rows \in Tables
    /\ seq \in 0..MaxSeq
    /\ link \in {"up", "down"}
    /\ channel \in Seq(Full \cup Delta)
    /\ snapshot \in Tables \cup {None}
    /\ kept_seq \in 0..MaxSeq
    /\ missed \in MissedTypes

Init ==
    /\ rows = [n \in Names |-> 0]
    /\ seq = 0
    /\ link = "down"
    /\ channel = <<>>
    /\ snapshot = None
    /\ kept_seq = 0
    /\ missed = "more"

-----------------------------------------------------------------------------
(* The server and the connection. *)

Miss == missed' = IF missed = "nothing" THEN "changes" ELSE missed

\* The server's rows become newRows, those of patch having been set.
Changes(newRows, patch) ==
    /\ seq < MaxSeq
    /\ seq' = seq + 1
    /\ rows' = newRows
    /\ \/ /\ link = "up"
          /\ Len(channel) < MaxChannel
          /\ channel' = Append(channel,
                [type |-> "delta", since |-> seq, seq |-> seq + 1, rows |-> patch])
          /\ UNCHANGED missed
       \/ /\ link = "down"
          /\ Miss
          /\ UNCHANGED channel
    /\ UNCHANGED <<link, snapshot, kept_seq>>

SetRow(n) ==
    Changes([m \in DOMAIN rows \cup {n} |-> IF m = n THEN seq + 1 ELSE rows[m]],
            [m \in {n} |-> seq + 1])

\* A patch has no way to say that a row is gone.
RemoveRow(n) ==
    /\ n \in DOMAIN rows
    /\ Changes([m \in DOMAIN rows \ {n} |-> rows[m]], [m \in {} |-> 0])

SendFull ==
    /\ link = "up"
    /\ Len(channel) < MaxChannel
    /\ channel' = Append(channel, [type |-> "full", since |-> 0, seq |-> seq, rows |-> rows])
    /\ UNCHANGED <<rows, seq, link, snapshot, kept_seq, missed>>

Connect ==
    /\ link = "down"
    /\ link' = "up"
    /\ UNCHANGED <<rows, seq, channel, snapshot, kept_seq, missed>>

\* on_upstream_lost leaves the snapshot and its number; what was on its way is lost.
Drop ==
    /\ link = "up"
    /\ link' = "down"
    /\ channel' = <<>>
    /\ IF \E i \in DOMAIN channel : channel[i].type = "delta" THEN Miss ELSE UNCHANGED missed
    /\ UNCHANGED <<rows, seq, snapshot, kept_seq>>

\* A new process of the server counts from 0 again.
Restart ==
    /\ seq' = 0
    /\ rows' \in {[n \in S |-> 0] : S \in SUBSET Names}
    /\ link' = "down"
    /\ channel' = <<>>
    /\ missed' = "more"
    /\ UNCHANGED <<snapshot, kept_seq>>

-----------------------------------------------------------------------------
(* The translator. *)

\* Mutant: the rows that are already there stay.
MergedAdding(previous, patch) ==
    [n \in DOMAIN previous \cup DOMAIN patch |->
        IF n \in DOMAIN previous THEN previous[n] ELSE patch[n]]

\* merge_topology_delta, merge_routing_delta: rows are replaced or added.
Merged(previous, patch) ==
    [n \in DOMAIN previous \cup DOMAIN patch |->
        IF n \in DOMAIN patch THEN patch[n] ELSE previous[n]]

\* Mutant: the number of the snapshot that the delta extends is kept.
KeptOfDeltaBefore(frame) == frame.since

\* Mutant: the kept number is that of the next change.
KeptOfDeltaAhead(frame) == frame.seq + 1

\* The merged snapshot has the number of the patch.
KeptOfDelta(frame) == frame.seq

HandleFull(frame) ==
    /\ frame.type = "full"
    /\ snapshot' = frame.rows
    /\ kept_seq' = frame.seq
    /\ missed' = "nothing"

\* since_seq is compared with the kept number for the log; the patch is merged in
\* any case, and without a snapshot it is the snapshot.
HandleDelta(frame) ==
    /\ frame.type = "delta"
    /\ snapshot' = IF snapshot = None THEN frame.rows ELSE Merged(snapshot, frame.rows)
    /\ kept_seq' = KeptOfDelta(frame)
    /\ missed' = IF missed = "changes" THEN "more" ELSE missed

HandleFrame ==
    /\ channel # <<>>
    /\ HandleFull(Head(channel)) \/ HandleDelta(Head(channel))
    /\ channel' = Tail(channel)
    /\ UNCHANGED <<rows, seq, link>>

Next ==
    \/ \E n \in Names : SetRow(n)
    \/ \E n \in Names : RemoveRow(n)
    \/ SendFull
    \/ Connect
    \/ Drop
    \/ Restart
    \/ HandleFrame

Spec == Init /\ [][Next]_vars

-----------------------------------------------------------------------------
(* Properties. *)

\* translate logs a gap when it handles this frame.
LogsGap(frame) == frame.type = "delta" /\ snapshot # None /\ frame.since # kept_seq

\* Deltas that continue a full snapshot of the same server process keep the proxy's
\* snapshot equal to the server's, but for rows the server has removed; a lost
\* connection over which nothing changed does no harm.
UnbrokenFeedIsExact ==
    missed = "nothing" /\ channel = <<>> =>
        /\ kept_seq = seq
        /\ \A n \in DOMAIN rows : n \in DOMAIN snapshot /\ snapshot[n] = rows[n]

\* The gap in the log is no false alarm: a delta that continues the kept snapshot is
\* never logged, whatever was dropped and connected again before.
NoFalseAlarm ==
    missed = "nothing" /\ channel # <<>> => ~LogsGap(Head(channel))

\* The first delta merged over lost changes of the same server process is logged.
\* (The next ones are not, nor the deltas of a restarted server whose numbers happen
\* to fit: the snapshot may then mix rows of different times without a trace until
\* the next full one.)
LostChangesAreLogged ==
    missed = "changes" /\ channel # <<>> /\ Head(channel).type = "delta" =>
        LogsGap(Head(channel))

-----------------------------------------------------------------------------
(* The inductive invariant behind the three. *)

\* The number that a frame expects to be kept when it is handled.
Extends(frame) == IF frame.type = "delta" THEN frame.since ELSE frame.seq

\* The frames on their way are numbered without a gap up to the server's number.
Chain ==
    /\ \A i \in 1..Len(channel) :
          channel[i].type = "delta" => channel[i].seq = channel[i].since + 1
    /\ \A i, j \in 1..Len(channel) : j = i + 1 => Extends(channel[j]) = channel[i].seq
    /\ \A i, j \in 1..Len(channel) : i < j => channel[i].seq <= Extends(channel[j])
    /\ \A i \in 1..Len(channel) : channel[i].seq <= seq
    /\ \A i \in 1..Len(channel) :
          (\A j \in 1..Len(channel) : i < j => channel[j].type # "delta")
          => channel[i].seq = seq

\* They continue the kept number while nothing was missed; what was missed lies
\* between the two.
Continued ==
    /\ link = "down" => channel = <<>>
    /\ missed # "more" => snapshot # None
    /\ missed = "nothing" =>
          /\ (\A i \in 1..Len(channel) : channel[i].type # "delta") => kept_seq = seq
          /\ Len(channel) # 0 => Extends(channel[1]) = kept_seq
          /\ \A i \in 1..Len(channel) : kept_seq <= Extends(channel[i])
    /\ missed = "changes" =>
          /\ kept_seq < seq
          /\ Len(channel) # 0 /\ channel[1].type = "delta" => kept_seq < channel[1].since

\* A delta on its way brings row n.
Brings(frame, n) == frame.type = "delta" /\ n \in DOMAIN frame.rows

Agrees(table, n) == n \in DOMAIN table /\ table[n] = rows[n]

\* The last frame on its way that says something of a row says what the server has.
RowsArrive ==
    \A n \in DOMAIN rows :
        /\ \A i \in 1..Len(channel) :
              /\ channel[i].type = "full" \/ Brings(channel[i], n)
              /\ \A j \in 1..Len(channel) : i < j => ~Brings(channel[j], n)
              => Agrees(channel[i].rows, n)
        /\ /\ missed = "nothing"
           /\ \A i \in 1..Len(channel) : ~Brings(channel[i], n)
           => Agrees(snapshot, n)

DeltaInv == TypeOK /\ Chain /\ Continued /\ RowsArrive
===============================================================================
