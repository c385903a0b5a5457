---------------------------- MODULE TopicFeed_proofs ----------------------------
(******************************************************************************)
(* The proof that a feed converges.                                           *)
(******************************************************************************)
EXTENDS TopicFeed, SequenceTheorems, TLAPS

\* What a non-empty list of values appended to an inbox leaves given last.
LEMMA LastOfAppended ==
    ASSUME NEW S, NEW s \in Seq(S), NEW t \in Seq(S), t # <<>>
    PROVE  /\ s \o t \in Seq(S)
           /\ s \o t # <<>>
           /\ (s \o t)[Len(s \o t)] = t[Len(t)]
<1>1. Len(t) \in Nat \ {0} /\ Len(s) \in Nat
    BY EmptySeq, LenProperties
<1>2. s \o t \in Seq(S) /\ Len(s \o t) = Len(s) + Len(t)
    BY ConcatProperties
<1>3. (s \o t)[Len(s) + Len(t)] = t[Len(t)]
    BY <1>1, ConcatProperties
<1>4. s \o t # <<>>
    BY <1>1, <1>2, EmptySeq
<1>. QED
    BY <1>2, <1>3, <1>4

\* No session is delivered an old value last: a publication reaches every session
\* that is on, and delivering takes from the front.
LEMMA PublishKeeps ==
    ASSUME FeedInv, NEW values \in Seq(Values), values # <<>>, Publish(values)
    PROVE  FeedInv'
<1>. USE DEF FeedInv, TypeOK
<1>1. values[Len(values)] \in Values
    OBVIOUS
<1>2. \A c \in Clients : inbox[c] \o values \in Seq(Values)
    BY LastOfAppended
<1>3. TypeOK'
    BY <1>1, <1>2 DEF Publish
<1>4. ASSUME NEW c \in Clients, session'[c] = "on"
      PROVE  LastGiven(c)' = value'
    <2>1. inbox'[c] = inbox[c] \o values
        BY <1>4 DEF Publish
    <2>2. /\ inbox'[c] # <<>>
          /\ inbox'[c][Len(inbox'[c])] = values[Len(values)]
        BY <2>1, LastOfAppended
    <2>. QED
        BY <2>2 DEF Publish, LastGiven
<1>. QED
    BY <1>3, <1>4 DEF Converged, OffIsEmpty, Publish

\* Taking the head off a list leaves its last element, unless it was the only one.
LEMMA LastOfTail ==
    ASSUME NEW S, NEW s \in Seq(S), s # <<>>
    PROVE  /\ Head(s) \in S
           /\ Tail(s) \in Seq(S)
           /\ Tail(s) = <<>> => Head(s) = s[Len(s)]
           /\ Tail(s) # <<>> => Tail(s)[Len(Tail(s))] = s[Len(s)]
<1>1. Len(s) \in Nat \ {0}
    BY EmptySeq
<1>2. /\ Head(s) = s[1] /\ Head(s) \in S
      /\ Tail(s) \in Seq(S) /\ Len(Tail(s)) = Len(s) - 1
      /\ \A i \in 1..Len(Tail(s)) : Tail(s)[i] = s[i + 1]
    BY HeadTailProperties, <1>1
<1>3. CASE Tail(s) = <<>>
    <2>1. Len(s) - 1 = 0
        BY <1>2, <1>3, EmptySeq
    <2>2. Len(s) = 1
        BY <1>1, <2>1
    <2>. QED
        BY <1>2, <1>3, <2>2
<1>4. CASE Tail(s) # <<>>
    <2>1. Len(Tail(s)) \in Nat \ {0}
        BY <1>2, <1>4, EmptySeq
    <2>2. Len(Tail(s)) \in 1..Len(Tail(s)) /\ Len(Tail(s)) + 1 = Len(s)
        BY <1>1, <1>2, <2>1
    <2>. QED
        BY <1>2, <1>4, <2>2
<1>. QED
    BY <1>3, <1>4

\* Delivering the front of an inbox changes nothing of what is given last.
LEMMA DeliverKeeps ==
    ASSUME FeedInv, NEW c \in Clients, Deliver(c)
    PROVE  FeedInv'
<1>. USE DEF FeedInv, TypeOK
<1>1. inbox[c] \in Seq(Values) /\ inbox[c] # <<>>
    BY DEF Deliver
<1>2. TypeOK'
    BY <1>1, LastOfTail DEF Deliver
<1>3. LastGiven(c)' = LastGiven(c)
    <2>1. inbox'[c] = Tail(inbox[c]) /\ seen'[c] = Head(inbox[c])
        BY DEF Deliver
    <2>. QED
        BY <1>1, <2>1, LastOfTail DEF LastGiven
<1>4. \A d \in Clients : d # c => LastGiven(d)' = LastGiven(d)
    BY DEF Deliver, LastGiven
<1>. QED
    BY <1>1, <1>2, <1>3, <1>4 DEF Converged, OffIsEmpty, Deliver

\* A session that has been delivered everything it was given has the current value.
THEOREM FeedConverges == Spec => []Converged
<1>1. Init => FeedInv
    BY EmptySeq DEF Init, FeedInv, TypeOK, Converged, OffIsEmpty, LastGiven
<1>2. FeedInv /\ [Next]_vars => FeedInv'
    <2>. SUFFICES ASSUME FeedInv, [Next]_vars PROVE FeedInv'
        OBVIOUS
    <2>. USE DEF FeedInv
    <2>1. ASSUME NEW v \in Values, Publish(<<v>>)
          PROVE  FeedInv'
        <3>1. <<v>> \in Seq(Values) /\ <<v>> # <<>>
            OBVIOUS
        <3>. QED
            BY <2>1, <3>1, PublishKeeps
    <2>2. ASSUME NEW u \in Values, NEW v \in Values, Publish(<<u, v>>)
          PROVE  FeedInv'
        <3>1. <<u, v>> \in Seq(Values) /\ <<u, v>> # <<>>
            OBVIOUS
        <3>. QED
            BY <2>2, <3>1, PublishKeeps
    <2>3. ASSUME NEW c \in Clients, Subscribe(c)
          PROVE  FeedInv'
        <3>1. TypeOK' /\ OffIsEmpty'
            BY <2>3 DEF Subscribe, TypeOK, OffIsEmpty
        <3>2. LastGiven(c)' = value'
            <4>1. seen'[c] = None /\ value' = value
                BY <2>3 DEF Subscribe, OffIsEmpty
            <4>2. CASE value = None
                BY <2>3, <4>1, <4>2 DEF Subscribe, TypeOK, LastGiven
            <4>3. CASE value # None
                <5>1. inbox'[c] = <<value>>
                    BY <2>3, <4>3 DEF Subscribe, TypeOK
                <5>. QED
                    BY <4>1, <5>1 DEF LastGiven
            <4>. QED
                BY <4>2, <4>3
        <3>3. \A d \in Clients : d # c => LastGiven(d)' = LastGiven(d)
            BY <2>3 DEF Subscribe, TypeOK, LastGiven
        <3>. QED
            BY <2>3, <3>1, <3>2, <3>3 DEF Subscribe, TypeOK, Converged
    <2>4. ASSUME NEW c \in Clients, Repeat(c)
          PROVE  FeedInv'
        <3>1. value \in Values
            BY <2>4 DEF Repeat, TypeOK
        <3>2. /\ Append(inbox[c], value) \in Seq(Values)
              /\ Append(inbox[c], value) # <<>>
              /\ Append(inbox[c], value)[Len(Append(inbox[c], value))] = value
            BY <3>1, AppendProperties DEF TypeOK
        <3>. QED
            BY <2>4, <3>1, <3>2 DEF Repeat, TypeOK, Converged, OffIsEmpty, LastGiven
    <2>5. ASSUME NEW c \in Clients, Deliver(c)
          PROVE  FeedInv'
        BY <2>5, DeliverKeeps
    <2>6. ASSUME NEW c \in Clients, End(c)
          PROVE  FeedInv'
        BY <2>6 DEF End, TypeOK, Converged, OffIsEmpty, LastGiven
    <2>7. ASSUME NEW c \in Clients, Leave(c)
          PROVE  FeedInv'
        BY <2>7, EmptySeq DEF Leave, TypeOK, Converged, OffIsEmpty, LastGiven
    <2>8. CASE UNCHANGED vars
        BY <2>8 DEF vars, TypeOK, Converged, OffIsEmpty, LastGiven
    <2>. QED
        BY <2>1, <2>2, <2>3, <2>4, <2>5, <2>6, <2>7, <2>8 DEF Next
<1>3. FeedInv => Converged
    BY DEF FeedInv
<1>. QED
    BY <1>1, <1>2, <1>3, PTL DEF Spec
===============================================================================
