--------------------------- MODULE DeltaFeed_proofs ---------------------------
(******************************************************************************)
(* The proof that the sequence numbers say what they seem to say, and that a  *)
(* feed without gaps is exact, for any rows, numbers and frames on their way. *)
(******************************************************************************)
EXTENDS DeltaFeed, SequenceTheorems, TLAPS

Frames == Full \cup Delta

\* What a table is, without the union.
LEMMA TableType ==
    /\ \A t \in Tables : DOMAIN t \in SUBSET Names /\ \A n \in DOMAIN t : t[n] \in 0..MaxSeq
    /\ \A S \in SUBSET Names : [S -> 0..MaxSeq] \subseteq Tables
    /\ None \notin Tables
BY NoneIsNoTable DEF Tables

\* Merging tables gives a table.
LEMMA MergedType ==
    ASSUME NEW t \in Tables, NEW u \in Tables
    PROVE  Merged(t, u) \in Tables
<1>. DEFINE S == DOMAIN t \cup DOMAIN u
<1>1. S \in SUBSET Names
    BY TableType
<1>2. Merged(t, u) \in [S -> 0..MaxSeq]
    BY TableType DEF Merged
<1>. QED
    BY <1>1, <1>2, TableType

\* The fields of a frame.
LEMMA FrameType ==
    ASSUME NEW f \in Frames
    PROVE  /\ f.type \in {"full", "delta"}
           /\ f.since \in 0..MaxSeq /\ f.seq \in 0..MaxSeq /\ f.rows \in Tables
           /\ Extends(f) \in 0..MaxSeq
<1>. USE MaxSeqType
<1>1. CASE f \in Full
    BY <1>1 DEF Full, Extends
<1>2. CASE f \in Delta
    BY <1>2 DEF Delta, Extends
<1>. QED
    BY <1>1, <1>2 DEF Frames

\* The frames on their way, by position.
LEMMA ChannelType ==
    ASSUME TypeOK
    PROVE  /\ channel \in Seq(Frames)
           /\ Len(channel) \in Nat
           /\ \A i \in 1..Len(channel) : channel[i] \in Frames
           /\ channel = <<>> <=> Len(channel) = 0
<1>1. channel \in Seq(Frames)
    BY DEF TypeOK, Frames
<1>. QED
    BY <1>1, EmptySeq, LenProperties, ElementOfSeq

\* Appending a frame, by position.
LEMMA Appended ==
    ASSUME TypeOK, NEW f \in Frames, channel' = Append(channel, f)
    PROVE  /\ channel' \in Seq(Frames)
           /\ Len(channel') = Len(channel) + 1
           /\ channel'[Len(channel) + 1] = f
           /\ \A i \in 1..Len(channel) : channel'[i] = channel[i]
           /\ channel' # <<>>
BY ChannelType, AppendProperties

\* Handling the first frame, by position.
LEMMA Handled ==
    ASSUME TypeOK, channel # <<>>, channel' = Tail(channel)
    PROVE  /\ channel' \in Seq(Frames)
           /\ Len(channel') = Len(channel) - 1
           /\ Len(channel) \in Nat \ {0}
           /\ \A i \in 1..Len(channel') : channel'[i] = channel[i + 1]
           /\ Head(channel) = channel[1]
           /\ channel' = <<>> <=> Len(channel') = 0
<1>1. channel \in Seq(Frames) /\ Len(channel) \in Nat \ {0}
    BY ChannelType
<1>2. /\ Tail(channel) \in Seq(Frames)
      /\ Len(Tail(channel)) = Len(channel) - 1
      /\ \A i \in 1..Len(Tail(channel)) : Tail(channel)[i] = channel[i + 1]
    BY <1>1, HeadTailProperties
<1>3. Head(channel) = channel[1]
    BY <1>1
<1>4. Tail(channel) = <<>> <=> Len(Tail(channel)) = 0
    BY <1>2, EmptySeq
<1>. QED
    BY <1>1, <1>2, <1>3, <1>4

\* The kept number is not ahead of the server's.
LEMMA KeptIsOld ==
    ASSUME TypeOK, Chain, Continued
    PROVE  /\ missed = "nothing" => kept_seq <= seq
           /\ missed = "nothing" /\ (\E i \in 1..Len(channel) : channel[i].type = "delta")
                => kept_seq < seq
<1>. USE MaxSeqType
<1>1. /\ Len(channel) \in Nat /\ seq \in Nat /\ kept_seq \in Nat
      /\ \A i \in 1..Len(channel) :
            channel[i].seq \in Nat /\ channel[i].since \in Nat /\ Extends(channel[i]) \in Nat
    BY ChannelType, FrameType DEF TypeOK
<1>2. ASSUME missed = "nothing", NEW i \in 1..Len(channel)
      PROVE  kept_seq <= channel[i].seq /\ channel[i].seq <= seq
    <2>1. kept_seq <= Extends(channel[i])
        BY <1>2 DEF Continued
    <2>2. Extends(channel[i]) <= channel[i].seq
        BY <1>1 DEF Chain, Extends
    <2>. QED
        BY <1>1, <2>1, <2>2 DEF Chain
<1>3. ASSUME missed = "nothing", NEW i \in 1..Len(channel), channel[i].type = "delta"
      PROVE  kept_seq < seq
    <2>1. kept_seq <= channel[i].since /\ channel[i].since < channel[i].seq
        BY <1>1, <1>3 DEF Continued, Chain, Extends
    <2>. QED
        BY <1>1, <1>2, <1>3, <2>1
<1>4. ASSUME missed = "nothing" PROVE kept_seq <= seq
    <2>1. CASE Len(channel) = 0
        BY <1>1, <1>4, <2>1 DEF Continued
    <2>2. CASE Len(channel) # 0
        <3>1. 1 \in 1..Len(channel)
            BY <1>1, <2>2
        <3>. QED
            BY <1>1, <1>2, <1>4, <3>1
    <2>. QED
        BY <2>1, <2>2
<1>. QED
    BY <1>3, <1>4

-----------------------------------------------------------------------------
\* A step that appends frame f, numbered newSeq, to the channel keeps the numbers.
LEMMA AppendKeepsNumbers ==
    ASSUME TypeOK, Chain, Continued, link = "up", link' = link,
           UNCHANGED <<snapshot, kept_seq, missed>>,
           NEW f \in Frames,
           Len(channel') = Len(channel) + 1, channel'[Len(channel) + 1] = f,
           \A i \in 1..Len(channel) : channel'[i] = channel[i],
           channel' # <<>>,
           seq' \in Nat, seq' >= seq, f.seq = seq', Extends(f) = seq,
           f.type = "delta" => f.seq = f.since + 1,
           f.type # "delta" => seq' = seq
    PROVE  Chain' /\ Continued'
<1>. USE MaxSeqType
<1>1. /\ Len(channel') = Len(channel) + 1
      /\ channel'[Len(channel) + 1] = f
      /\ \A i \in 1..Len(channel) : channel'[i] = channel[i]
      /\ channel' # <<>>
    OBVIOUS
<1>2. /\ Len(channel) \in Nat /\ seq \in Nat /\ kept_seq \in Nat
      /\ \A i \in 1..Len(channel) :
            channel[i].seq \in Nat /\ channel[i].since \in Nat /\ Extends(channel[i]) \in Nat
    BY ChannelType, FrameType DEF TypeOK
<1>3. \A i \in 1..Len(channel') : channel'[i] = IF i = Len(channel) + 1 THEN f ELSE channel[i]
    BY <1>1, <1>2
<1>4. Chain'
    <2>1. \A i \in 1..Len(channel') :
             channel'[i].type = "delta" => channel'[i].seq = channel'[i].since + 1
        <3>1. SUFFICES ASSUME NEW i \in 1..Len(channel'), channel'[i].type = "delta"
                       PROVE  channel'[i].seq = channel'[i].since + 1
            OBVIOUS
        <3>2. CASE i = Len(channel) + 1
            BY <1>1, <3>1, <3>2
        <3>3. CASE i # Len(channel) + 1
            <4>1. i \in 1..Len(channel) /\ channel'[i] = channel[i]
                BY <1>1, <1>2, <3>3
            <4>. QED
                BY <3>1, <4>1 DEF Chain
        <3>. QED
            BY <3>2, <3>3
    <2>2. ASSUME NEW i \in 1..Len(channel'), NEW j \in 1..Len(channel'), j = i + 1
          PROVE  Extends(channel'[j]) = channel'[i].seq
        BY <1>1, <1>2, <1>3, <2>2 DEF Chain
    <2>3. ASSUME NEW i \in 1..Len(channel'), NEW j \in 1..Len(channel'), i < j
          PROVE  channel'[i].seq <= Extends(channel'[j])
        <3>1. i \in 1..Len(channel) /\ channel'[i] = channel[i]
            BY <1>1, <1>2, <2>3
        <3>2. CASE j = Len(channel) + 1
            BY <1>1, <3>1, <3>2 DEF Chain
        <3>3. CASE j # Len(channel) + 1
            <4>1. j \in 1..Len(channel) /\ channel'[j] = channel[j]
                BY <1>1, <1>2, <3>3
            <4>. QED
                BY <2>3, <3>1, <4>1 DEF Chain
        <3>. QED
            BY <3>2, <3>3
    <2>4. ASSUME NEW i \in 1..Len(channel')
          PROVE  channel'[i].seq <= seq'
        <3>1. CASE i = Len(channel) + 1
            BY <1>1, <1>2, <3>1
        <3>2. CASE i # Len(channel) + 1
            <4>1. i \in 1..Len(channel) /\ channel'[i] = channel[i]
                BY <1>1, <1>2, <3>2
            <4>. QED
                BY <1>2, <4>1 DEF Chain
        <3>. QED
            BY <3>1, <3>2
    <2>5. ASSUME NEW i \in 1..Len(channel'),
                 \A j \in 1..Len(channel') : i < j => channel'[j].type # "delta"
          PROVE  channel'[i].seq = seq'
        <3>1. CASE i = Len(channel) + 1
            BY <1>1, <3>1
        <3>2. CASE i # Len(channel) + 1
            <4>1. i \in 1..Len(channel) /\ channel'[i] = channel[i]
                BY <1>1, <1>2, <3>2
            <4>2. Len(channel) + 1 \in 1..Len(channel') /\ i < Len(channel) + 1
                BY <1>1, <1>2, <4>1
            <4>3. f.type # "delta"
                BY <1>1, <2>5, <4>2
            <4>4. ASSUME NEW j \in 1..Len(channel), i < j
                  PROVE  channel[j].type # "delta"
                <5>1. j \in 1..Len(channel') /\ channel'[j] = channel[j]
                    BY <1>1, <1>2, <4>4
                <5>. QED
                    BY <2>5, <4>4, <5>1
            <4>. QED
                BY <4>1, <4>3, <4>4 DEF Chain
        <3>. QED
            BY <3>1, <3>2
    <2>. QED
        BY <2>1, <2>2, <2>3, <2>4, <2>5 DEF Chain, Extends
<1>5. Continued'
    <2>1. ASSUME missed = "nothing"
          PROVE  /\ (\A i \in 1..Len(channel') : channel'[i].type # "delta") => kept_seq = seq'
                 /\ Extends(channel'[1]) = kept_seq
                 /\ \A i \in 1..Len(channel') : kept_seq <= Extends(channel'[i])
        <3>1. kept_seq <= seq
            BY <1>2, <2>1, KeptIsOld
        <3>2. /\ (\A i \in 1..Len(channel) : channel[i].type # "delta") => kept_seq = seq
              /\ Len(channel) # 0 => Extends(channel[1]) = kept_seq
              /\ \A i \in 1..Len(channel) : kept_seq <= Extends(channel[i])
            BY <2>1 DEF Continued
        <3>3. ASSUME \A i \in 1..Len(channel') : channel'[i].type # "delta"
              PROVE  kept_seq = seq'
            <4>1. f.type # "delta"
                BY <1>1, <1>2, <3>3
            <4>2. \A i \in 1..Len(channel) : channel[i].type # "delta"
                BY <1>1, <1>2, <3>3
            <4>. QED
                BY <3>2, <4>1, <4>2
        <3>4. Extends(channel'[1]) = kept_seq
            <4>1. CASE Len(channel) = 0
                <5>1. kept_seq = seq
                    BY <3>2, <4>1
                <5>2. channel'[1] = f
                    BY <1>1, <4>1
                <5>. QED
                    BY <5>1, <5>2
            <4>2. CASE Len(channel) # 0
                <5>1. channel'[1] = channel[1]
                    BY <1>1, <1>2, <4>2
                <5>. QED
                    BY <3>2, <4>2, <5>1
            <4>. QED
                BY <4>1, <4>2
        <3>5. ASSUME NEW i \in 1..Len(channel')
              PROVE  kept_seq <= Extends(channel'[i])
            <4>1. CASE i = Len(channel) + 1
                BY <1>1, <3>1, <4>1
            <4>2. CASE i # Len(channel) + 1
                <5>1. i \in 1..Len(channel) /\ channel'[i] = channel[i]
                    BY <1>1, <1>2, <4>2
                <5>. QED
                    BY <3>2, <5>1
            <4>. QED
                BY <4>1, <4>2
        <3>. QED
            BY <3>3, <3>4, <3>5
    <2>2. ASSUME missed = "changes"
          PROVE  /\ kept_seq < seq'
                 /\ channel'[1].type = "delta" => kept_seq < channel'[1].since
        BY <1>1, <1>2, <1>3, <2>2 DEF Continued, Extends
    <2>. QED
        BY <1>1, <1>2, <2>1, <2>2 DEF Continued, Extends
<1>. QED
    BY <1>4, <1>5

\* A full snapshot is appended: the rows arrive with it.
LEMMA SendFullKeeps ==
    ASSUME DeltaInv, SendFull
    PROVE  DeltaInv'
<1>. USE MaxSeqType DEF DeltaInv
<1>. DEFINE f == [type |-> "full", since |-> 0, seq |-> seq, rows |-> rows]
<1>1. f \in Frames /\ f.seq = seq /\ f.rows = rows /\ f.type = "full" /\ Extends(f) = seq
    BY DEF Frames, Full, TypeOK, Extends
<1>2. channel' = Append(channel, f) /\ seq \in Nat
    BY DEF SendFull, TypeOK
<1>. HIDE DEF f
<1>3. Chain' /\ Continued'
    BY <1>1, <1>2, Appended, AppendKeepsNumbers DEF SendFull
<1>4. TypeOK'
    BY <1>1, <1>2, Appended DEF SendFull, TypeOK, Frames
<1>5. RowsArrive'
    <2>1. /\ Len(channel') = Len(channel) + 1 /\ Len(channel) \in Nat
          /\ channel'[Len(channel) + 1] = f
          /\ \A i \in 1..Len(channel) : channel'[i] = channel[i]
        BY <1>1, <1>2, Appended, ChannelType
    <2>2. SUFFICES ASSUME NEW n \in DOMAIN rows
                   PROVE  /\ \A i \in 1..Len(channel') :
                                /\ channel'[i].type = "full" \/ Brings(channel'[i], n)
                                /\ \A j \in 1..Len(channel') : i < j => ~Brings(channel'[j], n)
                                => Agrees(channel'[i].rows, n)
                          /\ /\ missed = "nothing"
                             /\ \A i \in 1..Len(channel') : ~Brings(channel'[i], n)
                             => Agrees(snapshot, n)
        BY DEF RowsArrive, SendFull, Agrees, Brings
    <2>3. Agrees(f.rows, n) /\ ~Brings(f, n)
        BY <1>1 DEF Agrees, Brings
    <2>. QED
        BY <2>1, <2>3 DEF RowsArrive
<1>. QED
    BY <1>3, <1>4, <1>5

\* A change while the server is connected: its delta is appended.
LEMMA DeltaSentKeeps ==
    ASSUME DeltaInv, NEW newRows \in Tables, NEW patch \in Tables,
           Changes(newRows, patch), link = "up",
           \A n \in DOMAIN patch : n \in DOMAIN newRows /\ patch[n] = newRows[n],
           \A n \in DOMAIN newRows \ DOMAIN patch : n \in DOMAIN rows /\ newRows[n] = rows[n]
    PROVE  DeltaInv'
<1>. USE MaxSeqType DEF DeltaInv
<1>. DEFINE f == [type |-> "delta", since |-> seq, seq |-> seq + 1, rows |-> patch]
<1>1. /\ f \in Frames /\ f.since = seq /\ f.seq = seq + 1 /\ f.rows = patch
      /\ f.type = "delta" /\ Extends(f) = seq
    BY DEF Frames, Delta, TypeOK, Extends, Changes
<1>2. channel' = Append(channel, f) /\ seq' = seq + 1 /\ seq \in Nat /\ seq' \in 0..MaxSeq
      /\ rows' = newRows /\ UNCHANGED <<link, snapshot, kept_seq, missed>>
    BY DEF Changes, TypeOK
<1>. HIDE DEF f
<1>3. Chain' /\ Continued'
    BY <1>1, <1>2, Appended, AppendKeepsNumbers
<1>4. TypeOK'
    BY <1>1, <1>2, Appended DEF TypeOK, Frames
<1>5. RowsArrive'
    <2>1. /\ Len(channel') = Len(channel) + 1 /\ Len(channel) \in Nat
          /\ channel'[Len(channel) + 1] = f
          /\ \A i \in 1..Len(channel) : channel'[i] = channel[i]
        BY <1>1, <1>2, Appended, ChannelType
    <2>2. SUFFICES ASSUME NEW n \in DOMAIN newRows
                   PROVE  /\ \A i \in 1..Len(channel') :
                                /\ channel'[i].type = "full" \/ Brings(channel'[i], n)
                                /\ \A j \in 1..Len(channel') : i < j => ~Brings(channel'[j], n)
                                => /\ n \in DOMAIN channel'[i].rows
                                   /\ channel'[i].rows[n] = newRows[n]
                          /\ /\ missed = "nothing"
                             /\ \A i \in 1..Len(channel') : ~Brings(channel'[i], n)
                             => n \in DOMAIN snapshot /\ snapshot[n] = newRows[n]
        BY <1>2 DEF RowsArrive, Agrees, Brings
    <2>3. CASE n \in DOMAIN patch
        <3>1. Brings(f, n) /\ n \in DOMAIN f.rows /\ f.rows[n] = newRows[n]
            BY <1>1, <2>3 DEF Brings
        <3>2. \A i \in 1..Len(channel') : i = Len(channel) + 1 \/ i < Len(channel) + 1
            BY <2>1
        <3>. QED
            BY <2>1, <3>1, <3>2
    <2>4. CASE n \notin DOMAIN patch
        <3>1. ~Brings(f, n) /\ f.type # "full" /\ n \in DOMAIN rows /\ newRows[n] = rows[n]
            BY <1>1, <1>2, <2>4 DEF Brings
        <3>. QED
            BY <1>2, <2>1, <3>1 DEF Agrees, RowsArrive
    <2>. QED
        BY <2>3, <2>4
<1>. QED
    BY <1>3, <1>4, <1>5

\* A change that nobody hears of.
LEMMA ChangeMissedKeeps ==
    ASSUME DeltaInv, NEW newRows \in Tables, NEW patch, Changes(newRows, patch), link = "down"
    PROVE  DeltaInv'
<1>. USE MaxSeqType DEF DeltaInv
<1>1. /\ channel = <<>> /\ Len(channel) = 0 /\ channel' = channel /\ seq' = seq + 1
      /\ rows' = newRows /\ Miss /\ UNCHANGED <<link, snapshot, kept_seq>>
    BY EmptySeq DEF Changes, Continued
<1>2. /\ seq \in Nat /\ kept_seq \in Nat /\ seq' \in 0..MaxSeq
      /\ missed' \in {"changes", "more"}
      /\ missed' = "changes" => missed \in {"nothing", "changes"}
    BY <1>1 DEF TypeOK, Changes, Miss, MissedTypes
<1>3. TypeOK'
    BY <1>1, <1>2 DEF TypeOK, MissedTypes
<1>4. Chain' /\ RowsArrive'
    BY <1>1, <1>2 DEF Chain, RowsArrive
<1>5. missed' = "changes" => kept_seq < seq'
    BY <1>2, <1>1 DEF Continued
<1>6. Continued'
    BY <1>1, <1>2, <1>5 DEF Continued
<1>. QED
    BY <1>3, <1>4, <1>6

\* A lost connection: lost deltas count as missed, a lost snapshot does no harm.
LEMMA DropKeeps ==
    ASSUME DeltaInv, Drop
    PROVE  DeltaInv'
<1>. USE MaxSeqType DEF DeltaInv
<1>1. /\ channel' = <<>> /\ Len(channel') = 0 /\ link' = "down"
      /\ UNCHANGED <<rows, seq, snapshot, kept_seq>>
    BY EmptySeq DEF Drop
<1>2. /\ DOMAIN channel = 1..Len(channel) /\ Len(channel) \in Nat
      /\ seq \in Nat /\ kept_seq \in Nat
    BY ChannelType, LenProperties DEF TypeOK
<1>3. /\ missed' \in MissedTypes /\ (missed' # "more" => missed # "more")
      /\ missed' = "nothing" => /\ missed = "nothing"
                                /\ \A i \in 1..Len(channel) : channel[i].type # "delta"
      /\ missed' = "changes" /\ missed # "changes"
            => missed = "nothing" /\ \E i \in 1..Len(channel) : channel[i].type = "delta"
    BY <1>2 DEF Drop, Miss, MissedTypes, TypeOK
<1>4. TypeOK'
    BY <1>1, <1>3, EmptySeq DEF TypeOK
<1>5. missed' = "nothing" => kept_seq = seq
    BY <1>3 DEF Continued
<1>6. missed' = "changes" => kept_seq < seq
    BY <1>2, <1>3, KeptIsOld DEF Continued
<1>7. Chain'
    BY <1>1 DEF Chain
<1>8. Continued'
    BY <1>1, <1>3, <1>5, <1>6 DEF Continued
<1>9. RowsArrive'
    BY <1>1, <1>3 DEF RowsArrive, Brings, Agrees
<1>. QED
    BY <1>4, <1>7, <1>8, <1>9

\* A new process of the server.
LEMMA RestartKeeps ==
    ASSUME DeltaInv, Restart
    PROVE  DeltaInv'
<1>. USE MaxSeqType DEF DeltaInv
<1>1. /\ channel' = <<>> /\ Len(channel') = 0 /\ link' = "down" /\ missed' = "more"
      /\ seq' = 0 /\ UNCHANGED <<snapshot, kept_seq>>
    BY EmptySeq DEF Restart
<1>2. rows' \in Tables
    <2>1. PICK S \in SUBSET Names : rows' = [n \in S |-> 0]
        BY DEF Restart
    <2>2. rows' \in [S -> 0..MaxSeq]
        BY <2>1
    <2>. QED
        BY <2>2, TableType
<1>3. TypeOK'
    BY <1>1, <1>2, EmptySeq DEF TypeOK, MissedTypes
<1>4. Chain' /\ Continued' /\ RowsArrive'
    BY <1>1 DEF Chain, Continued, RowsArrive
<1>. QED
    BY <1>3, <1>4

\* Handling a frame keeps the numbers: its number is what the next frame extends.
LEMMA HandleKeepsNumbers ==
    ASSUME DeltaInv, HandleFrame
    PROVE  Chain' /\ Continued'
<1>. USE MaxSeqType DEF DeltaInv
<1>. DEFINE f == channel[1]
<1>1. /\ Len(channel) \in Nat \ {0} /\ Len(channel') = Len(channel) - 1
      /\ \A i \in 1..Len(channel') : channel'[i] = channel[i + 1] /\ i + 1 \in 1..Len(channel)
      /\ Head(channel) = f /\ 1 \in 1..Len(channel)
      /\ UNCHANGED <<rows, seq, link>> /\ link # "down"
    BY Handled DEF HandleFrame, Continued
<1>2. /\ seq \in Nat /\ kept_seq \in Nat /\ f \in Frames
      /\ \A i \in 1..Len(channel) :
            channel[i].seq \in Nat /\ channel[i].since \in Nat /\ Extends(channel[i]) \in Nat
    BY <1>1, ChannelType, FrameType DEF TypeOK
<1>3. kept_seq' = f.seq
    BY <1>1 DEF HandleFrame, HandleFull, HandleDelta, KeptOfDelta
<1>4. missed' # "changes" /\ (missed' # "more" => snapshot' # None)
    <2>1. CASE HandleFull(f)
        BY <1>2, <2>1, FrameType, TableType DEF HandleFull
    <2>2. CASE HandleDelta(f)
        <3>1. missed' \in {"nothing", "more"} /\ (missed' = "nothing" => missed = "nothing")
            BY <2>2 DEF HandleDelta, TypeOK, MissedTypes
        <3>2. missed = "nothing" => snapshot' = Merged(snapshot, f.rows) /\ snapshot \in Tables
            BY <2>2 DEF HandleDelta, Continued, TypeOK
        <3>3. snapshot \in Tables => Merged(snapshot, f.rows) \in Tables
            BY <1>2, FrameType, MergedType
        <3>. QED
            BY <3>1, <3>2, <3>3, TableType
    <2>. QED
        BY <1>1, <2>1, <2>2 DEF HandleFrame
<1>5. Chain'
    <2>1. ASSUME NEW i \in 1..Len(channel')
          PROVE  /\ channel'[i].type = "delta" => channel'[i].seq = channel'[i].since + 1
                 /\ channel'[i].seq <= seq
                 /\ (\A j \in 1..Len(channel') : i < j => channel'[j].type # "delta")
                       => channel'[i].seq = seq
        <3>1. channel'[i] = channel[i + 1] /\ i + 1 \in 1..Len(channel)
            BY <1>1
        <3>2. ASSUME \A j \in 1..Len(channel') : i < j => channel'[j].type # "delta",
                     NEW j \in 1..Len(channel), i + 1 < j
              PROVE  channel[j].type # "delta"
            <4>1. j - 1 \in 1..Len(channel') /\ i < j - 1 /\ channel'[j - 1] = channel[j]
                BY <1>1, <3>2
            <4>. QED
                BY <3>2, <4>1
        <3>. QED
            BY <3>1, <3>2 DEF Chain
    <2>2. ASSUME NEW i \in 1..Len(channel'), NEW j \in 1..Len(channel'), j = i + 1
          PROVE  Extends(channel'[j]) = channel'[i].seq
        BY <1>1, <2>2 DEF Chain
    <2>3. ASSUME NEW i \in 1..Len(channel'), NEW j \in 1..Len(channel'), i < j
          PROVE  channel'[i].seq <= Extends(channel'[j])
        <3>1. /\ channel'[i] = channel[i + 1] /\ i + 1 \in 1..Len(channel)
              /\ channel'[j] = channel[j + 1] /\ j + 1 \in 1..Len(channel)
              /\ i + 1 < j + 1
            BY <1>1, <2>3
        <3>. QED
            BY <3>1 DEF Chain
    <2>. QED
        BY <1>1, <2>1, <2>2, <2>3 DEF Chain, Extends
<1>6. (\A i \in 1..Len(channel') : channel'[i].type # "delta") => kept_seq' = seq
    <2>1. SUFFICES ASSUME \A i \in 1..Len(channel') : channel'[i].type # "delta"
                   PROVE  f.seq = seq
        BY <1>3
    <2>2. ASSUME NEW j \in 1..Len(channel), 1 < j
          PROVE  channel[j].type # "delta"
        <3>1. j - 1 \in 1..Len(channel') /\ channel'[j - 1] = channel[j]
            BY <1>1, <2>2
        <3>. QED
            BY <2>1, <3>1
    <2>. QED
        BY <1>1, <2>2 DEF Chain
<1>7. Len(channel') # 0 => Extends(channel'[1]) = kept_seq'
    <2>1. ASSUME Len(channel') # 0
          PROVE  1 \in 1..Len(channel') /\ channel'[1] = channel[2] /\ 2 \in 1..Len(channel)
        BY <1>1, <2>1
    <2>. QED
        BY <1>1, <1>3, <2>1 DEF Chain
<1>8. \A i \in 1..Len(channel') : kept_seq' <= Extends(channel'[i])
    <2>1. ASSUME NEW i \in 1..Len(channel')
          PROVE  kept_seq' <= Extends(channel'[i])
        <3>1. channel'[i] = channel[i + 1] /\ i + 1 \in 1..Len(channel) /\ 1 < i + 1
            BY <1>1
        <3>. QED
            BY <1>1, <1>3, <3>1 DEF Chain
    <2>. QED
        BY <2>1
<1>9. Continued'
    BY <1>1, <1>4, <1>6, <1>7, <1>8 DEF Continued, Extends
<1>. QED
    BY <1>5, <1>9

\* Handling a frame keeps the types and brings its rows into the snapshot.
LEMMA HandleKeepsRows ==
    ASSUME DeltaInv, HandleFrame
    PROVE  TypeOK' /\ RowsArrive'
<1>. USE MaxSeqType DEF DeltaInv
<1>. DEFINE f == channel[1]
<1>1. /\ Len(channel) \in Nat \ {0} /\ Len(channel') = Len(channel) - 1
      /\ channel' \in Seq(Frames)
      /\ \A i \in 1..Len(channel') : channel'[i] = channel[i + 1] /\ i + 1 \in 1..Len(channel)
      /\ Head(channel) = f /\ 1 \in 1..Len(channel)
      /\ UNCHANGED <<rows, seq, link>>
    BY Handled DEF HandleFrame
<1>2. f \in Frames /\ f.seq \in 0..MaxSeq /\ f.rows \in Tables
    BY <1>1, ChannelType, FrameType
<1>3. TypeOK'
    <2>1. kept_seq' = f.seq /\ missed' \in MissedTypes
        BY <1>1 DEF HandleFrame, HandleFull, HandleDelta, KeptOfDelta, TypeOK, MissedTypes
    <2>2. snapshot' \in Tables
        BY <1>1, <1>2, MergedType DEF HandleFrame, HandleFull, HandleDelta, TypeOK
    <2>. QED
        BY <1>1, <1>2, <2>1, <2>2 DEF TypeOK, Frames
<1>4. ASSUME NEW n \in DOMAIN rows, NEW i \in 1..Len(channel'),
             channel'[i].type = "full" \/ Brings(channel'[i], n),
             \A j \in 1..Len(channel') : i < j => ~Brings(channel'[j], n)
      PROVE  Agrees(channel'[i].rows, n)
    <2>1. channel'[i] = channel[i + 1] /\ i + 1 \in 1..Len(channel)
        BY <1>1
    <2>2. ASSUME NEW j \in 1..Len(channel), i + 1 < j
          PROVE  ~Brings(channel[j], n)
        <3>1. j - 1 \in 1..Len(channel') /\ i < j - 1 /\ channel'[j - 1] = channel[j]
            BY <1>1, <2>2
        <3>. QED
            BY <1>4, <3>1
    <2>. QED
        BY <1>4, <2>1, <2>2 DEF RowsArrive
<1>5. ASSUME NEW n \in DOMAIN rows, missed' = "nothing",
             \A i \in 1..Len(channel') : ~Brings(channel'[i], n)
      PROVE  n \in DOMAIN snapshot' /\ snapshot'[n] = rows[n]
    <2>1. ASSUME NEW j \in 1..Len(channel), 1 < j
          PROVE  ~Brings(channel[j], n)
        <3>1. j - 1 \in 1..Len(channel') /\ channel'[j - 1] = channel[j]
            BY <1>1, <2>1
        <3>. QED
            BY <1>5, <3>1
    <2>2. f.type = "full" \/ Brings(f, n) => Agrees(f.rows, n)
        BY <1>1, <2>1 DEF RowsArrive
    <2>3. CASE HandleFull(f)
        BY <2>2, <2>3 DEF HandleFull, Agrees
    <2>4. CASE HandleDelta(f)
        <3>1. /\ missed = "nothing" /\ snapshot' = Merged(snapshot, f.rows)
              /\ f.type = "delta"
            BY <1>5, <2>4 DEF HandleDelta, Continued
        <3>2. CASE n \in DOMAIN f.rows
            BY <2>2, <3>1, <3>2 DEF Brings, Agrees, Merged
        <3>3. CASE n \notin DOMAIN f.rows
            <4>1. \A j \in 1..Len(channel) : ~Brings(channel[j], n)
                BY <1>1, <2>1, <3>3 DEF Brings
            <4>2. Agrees(snapshot, n)
                BY <3>1, <4>1 DEF RowsArrive
            <4>. QED
                BY <3>1, <3>3, <4>2 DEF Agrees, Merged
        <3>. QED
            BY <3>2, <3>3
    <2>. QED
        BY <1>1, <2>3, <2>4 DEF HandleFrame
<1>6. RowsArrive'
    BY <1>1, <1>4, <1>5 DEF RowsArrive, Agrees, Brings
<1>. QED
    BY <1>3, <1>6

-----------------------------------------------------------------------------
\* Every step keeps the inductive invariant.
LEMMA NextKeeps ==
    ASSUME DeltaInv, [Next]_vars
    PROVE  DeltaInv'
<1>. USE MaxSeqType
<1>1. ASSUME NEW n \in Names, SetRow(n)
      PROVE  DeltaInv'
    <2>. DEFINE newRows == [m \in DOMAIN rows \cup {n} |-> IF m = n THEN seq + 1 ELSE rows[m]]
                patch == [m \in {n} |-> seq + 1]
    <2>1. seq + 1 \in 0..MaxSeq /\ DOMAIN rows \cup {n} \in SUBSET Names
        BY <1>1, TableType DEF SetRow, Changes, DeltaInv, TypeOK
    <2>2. newRows \in [DOMAIN rows \cup {n} -> 0..MaxSeq] /\ patch \in [{n} -> 0..MaxSeq]
        BY <2>1, TableType DEF DeltaInv, TypeOK
    <2>3. newRows \in Tables /\ patch \in Tables
        BY <2>1, <2>2, TableType
    <2>4. Changes(newRows, patch)
        BY <1>1 DEF SetRow
    <2>5. /\ \A m \in DOMAIN patch : m \in DOMAIN newRows /\ patch[m] = newRows[m]
          /\ \A m \in DOMAIN newRows \ DOMAIN patch : m \in DOMAIN rows /\ newRows[m] = rows[m]
        OBVIOUS
    <2>. HIDE DEF newRows, patch
    <2>. QED
        BY <2>3, <2>4, <2>5, DeltaSentKeeps, ChangeMissedKeeps DEF Changes
<1>2. ASSUME NEW n \in Names, RemoveRow(n)
      PROVE  DeltaInv'
    <2>. DEFINE newRows == [m \in DOMAIN rows \ {n} |-> rows[m]]
                patch == [m \in {} |-> 0]
    <2>1. DOMAIN rows \ {n} \in SUBSET Names /\ {} \in SUBSET Names
        BY TableType DEF DeltaInv, TypeOK
    <2>2. newRows \in [DOMAIN rows \ {n} -> 0..MaxSeq] /\ patch \in [{} -> 0..MaxSeq]
        BY TableType DEF DeltaInv, TypeOK
    <2>3. newRows \in Tables /\ patch \in Tables
        BY <2>1, <2>2, TableType
    <2>4. Changes(newRows, patch)
        BY <1>2 DEF RemoveRow
    <2>5. /\ \A m \in DOMAIN patch : m \in DOMAIN newRows /\ patch[m] = newRows[m]
          /\ \A m \in DOMAIN newRows \ DOMAIN patch : m \in DOMAIN rows /\ newRows[m] = rows[m]
        OBVIOUS
    <2>. HIDE DEF newRows, patch
    <2>. QED
        BY <2>3, <2>4, <2>5, DeltaSentKeeps, ChangeMissedKeeps DEF Changes
<1>3. CASE Connect
    BY <1>3 DEF Connect, DeltaInv, TypeOK, Chain, Continued, RowsArrive, Agrees, Brings, Extends
<1>4. CASE HandleFrame
    BY <1>4, HandleKeepsNumbers, HandleKeepsRows DEF DeltaInv
<1>5. CASE UNCHANGED vars
    BY <1>5 DEF vars, DeltaInv, TypeOK, Chain, Continued, RowsArrive, Agrees, Brings, Extends
<1>. QED
    BY <1>1, <1>2, <1>3, <1>4, <1>5, SendFullKeeps, DropKeeps, RestartKeeps DEF Next

\* The inductive invariant holds.
LEMMA Inductive == Spec => []DeltaInv
<1>1. Init => DeltaInv
    <2>. SUFFICES ASSUME Init PROVE DeltaInv
        OBVIOUS
    <2>. USE MaxSeqType DEF Init
    <2>1. rows \in Tables
        <3>1. rows \in [Names -> 0..MaxSeq]
            OBVIOUS
        <3>. QED
            BY <3>1, TableType
    <2>2. channel = <<>> /\ Len(channel) = 0
        BY EmptySeq
    <2>3. TypeOK
        BY <2>1, <2>2, EmptySeq DEF TypeOK, MissedTypes
    <2>. QED
        BY <2>2, <2>3 DEF DeltaInv, Chain, Continued, RowsArrive
<1>. QED
    BY <1>1, NextKeeps, PTL DEF Spec

\* Deltas that continue a full snapshot of the same server process keep the proxy's
\* snapshot equal to the server's, but for removed rows, across lost connections over
\* which nothing changed: merge_topology_delta, merge_routing_delta and what
\* on_upstream_lost keeps.
THEOREM UnbrokenExact == Spec => []UnbrokenFeedIsExact
<1>1. DeltaInv => UnbrokenFeedIsExact
    <2>. SUFFICES ASSUME DeltaInv, missed = "nothing", channel = <<>>
                  PROVE  /\ kept_seq = seq
                         /\ \A n \in DOMAIN rows : Agrees(snapshot, n)
        BY DEF UnbrokenFeedIsExact, Agrees
    <2>1. Len(channel) = 0
        BY EmptySeq
    <2>. QED
        BY <2>1 DEF DeltaInv, Continued, RowsArrive
<1>. QED
    BY <1>1, Inductive, PTL

\* translate never logs a gap for a delta that continues the kept snapshot.
THEOREM NoGapNoAlarm == Spec => []NoFalseAlarm
<1>1. DeltaInv => NoFalseAlarm
    <2>. SUFFICES ASSUME DeltaInv, missed = "nothing", channel # <<>>
                  PROVE  ~LogsGap(Head(channel))
        BY DEF NoFalseAlarm
    <2>1. Len(channel) # 0 /\ Head(channel) = channel[1]
        BY ChannelType DEF DeltaInv
    <2>. QED
        BY <2>1 DEF DeltaInv, Continued, LogsGap, Extends
<1>. QED
    BY <1>1, Inductive, PTL

\* translate logs the first delta that it merges over lost changes of the same
\* server process.
THEOREM GapIsLogged == Spec => []LostChangesAreLogged
<1>1. DeltaInv => LostChangesAreLogged
    <2>. SUFFICES ASSUME DeltaInv, missed = "changes", channel # <<>>,
                         Head(channel).type = "delta"
                  PROVE  LogsGap(Head(channel))
        BY DEF LostChangesAreLogged
    <2>1. Len(channel) # 0 /\ Head(channel) = channel[1] /\ 1 \in 1..Len(channel)
        BY ChannelType DEF DeltaInv
    <2>2. channel[1].since \in Nat /\ kept_seq \in Nat
        BY <2>1, ChannelType, FrameType, MaxSeqType DEF DeltaInv, TypeOK
    <2>. QED
        BY <2>1, <2>2 DEF DeltaInv, Continued, LogsGap
<1>. QED
    BY <1>1, Inductive, PTL
===============================================================================
