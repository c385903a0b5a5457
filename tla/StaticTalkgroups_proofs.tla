------------------------- MODULE StaticTalkgroups_proofs -------------------------
(******************************************************************************)
(* The static talkgroups of a master, for rows with any fields, hotspots and  *)
(* options: what is read, merged and joined has exactly the talkgroups that   *)
(* the row declares, and none twice unless a text has a comma.                *)
(******************************************************************************)
EXTENDS StaticTalkgroups, NatLemmas

-----------------------------------------------------------------------------
(* Lists made item by item. *)

\* Two elements with one representation.
LEMMA Single ==
    ASSUME NEW S, NEW e \in S
    PROVE  /\ <<e>> \in Seq(S)
           /\ Len(<<e>>) = 1 /\ DOMAIN <<e>> = {1} /\ <<e>>[1] = e
           /\ Range(<<e>>) = {e}
  BY DEF Range

\* The empty list.
LEMMA Empty ==
    ASSUME NEW S
    PROVE  <<>> \in Seq(S) /\ Len(<<>>) = 0 /\ DOMAIN <<>> = {} /\ Range(<<>>) = {}
  BY DEF Range

\* One more item, or not.
LEMMA KeptItem ==
    ASSUME NEW S, NEW list \in Seq(S), NEW item \in S, NEW unwanted
    PROVE  /\ Kept(list, item, unwanted) \in Seq(S)
           /\ Range(Kept(list, item, unwanted)) = Range(list) \cup ({item} \ unwanted)
           /\ item \notin unwanted =>
                 /\ Len(Kept(list, item, unwanted)) = Len(list) + 1
                 /\ \A i \in 1..Len(list) : Kept(list, item, unwanted)[i] = list[i]
                 /\ Kept(list, item, unwanted)[Len(list) + 1] = item
<1>1. CASE item \in unwanted
  BY <1>1 DEF Kept
<1>2. CASE item \notin unwanted
  <2> DEFINE longer == Append(list, item)
  <2>1. Kept(list, item, unwanted) = longer
    BY <1>2 DEF Kept
  <2>2. /\ longer \in Seq(S) /\ Len(longer) = Len(list) + 1
        /\ \A i \in 1..Len(list) : longer[i] = list[i]
        /\ longer[Len(list) + 1] = item
    BY AppendProperties
  <2>3. Len(list) \in Nat /\ DOMAIN list = 1..Len(list) /\ DOMAIN longer = 1..(Len(list) + 1)
    BY <2>2, LenProperties
  <2> HIDE DEF longer
  <2>4. Range(longer) = Range(list) \cup {item}
    <3>1. ASSUME NEW x \in Range(longer)
          PROVE  x \in Range(list) \cup {item}
      <4>1. PICK i \in 1..(Len(list) + 1) : x = longer[i]
        BY <2>3 DEF Range
      <4>2. i \in 1..Len(list) \/ i = Len(list) + 1
        BY <2>3
      <4> QED
        BY <2>2, <2>3, <4>1, <4>2 DEF Range
    <3>2. ASSUME NEW x \in Range(list)
          PROVE  x \in Range(longer)
      <4>1. PICK i \in 1..Len(list) : x = list[i]
        BY <2>3 DEF Range
      <4>2. i \in 1..(Len(list) + 1)
        BY <2>3
      <4> QED
        BY <2>2, <2>3, <4>1, <4>2 DEF Range
    <3>3. item \in Range(longer)
      <4>1. Len(list) + 1 \in 1..(Len(list) + 1)
        BY <2>3
      <4> QED
        BY <2>2, <2>3, <4>1 DEF Range
    <3> QED
      BY <3>1, <3>2, <3>3
  <2> QED
    BY <1>2, <2>1, <2>2, <2>4
<1> QED
  BY <1>1, <1>2

\* The recursion of Without has a solution.
LEMMA WithoutFcn ==
    ASSUME NEW S, NEW list \in Seq(S), NEW item \in S
    PROVE  \E f \in [0..Len(list) -> Seq(S)] :
              /\ f[0] = <<>>
              /\ \A i \in 1..Len(list) : f[i] = Kept(f[i - 1], list[i], {item})
              /\ Without(list, item) = f[Len(list)]
<1> DEFINE n == Len(list)
           T == Seq(S)
           next(x, i) == Kept(x, list[i], {item})
           step == [ix \in (1..n) \X T |-> next(ix[2], ix[1])]
           rec(f) == f = [i \in 0..n |-> IF i = 0 THEN <<>> ELSE next(f[i - 1], i)]
           h == CHOOSE f : rec(f)
<1>1. Without(list, item) = h[n]
  BY DEF Without
<1>2. n \in Nat /\ <<>> \in T /\ \A i \in 1..n : list[i] \in S
  OBVIOUS
<1>3. \A i \in 1..n, x \in T : next(x, i) \in T
  BY <1>2, KeptItem
<1>4. \A x, i : next(x, i) = Kept(x, list[i], {item})
  OBVIOUS
<1> HIDE DEF n, T, next
<1>5. IsStep(step, n, T) /\ \A i \in 1..n, x \in T : step[<<i, x>>] = next(x, i)
  BY <1>3 DEF IsStep
<1> HIDE DEF step
<1>6. \E f : rec(f)
  <2>1. PICK g : IsRecursive(g, n, T, <<>>, step)
    BY <1>2, <1>5, RecursionOnNat
  <2>2. /\ g = [i \in 0..n |-> g[i]] /\ g[0] = <<>>
        /\ \A i \in 1..n : g[i - 1] \in T /\ g[i] = step[<<i, g[i - 1]>>]
    BY <1>2, <2>1 DEF IsRecursive
  <2>3. \A i \in 1..n : g[i] = next(g[i - 1], i)
    BY <1>5, <2>2
  <2>4. ASSUME NEW i \in 0..n
        PROVE  g[i] = IF i = 0 THEN <<>> ELSE next(g[i - 1], i)
    <3>1. CASE i = 0
      BY <2>2, <3>1
    <3>2. CASE i \in 1..n
      BY <2>3, <3>2
    <3> QED
      BY <1>2, <3>1, <3>2
  <2>5. rec(g)
    BY <2>2, <2>4
  <2> QED
    BY <2>5
<1>7. rec(h)
  BY <1>6
<1> HIDE DEF h
<1>8. /\ h = [i \in 0..n |-> h[i]] /\ h[0] = <<>>
      /\ \A i \in 1..n : h[i] = next(h[i - 1], i)
  <2>1. \A i \in 0..n : h[i] = IF i = 0 THEN <<>> ELSE next(h[i - 1], i)
    BY <1>7
  <2>2. h = [i \in 0..n |-> h[i]]
    BY <1>7
  <2>3. 0 \in 0..n /\ \A i \in 1..n : i \in 0..n /\ i # 0
    BY <1>2
  <2> QED
    BY <2>1, <2>2, <2>3
<1>9. IsRecursive(h, n, T, <<>>, step)
  BY <1>2, <1>5, <1>8, RecursionUnique
<1>10. h \in [0..n -> T]
  BY <1>9 DEF IsRecursive
<1> QED
  BY <1>1, <1>4, <1>8, <1>10 DEF n, T

\* The same for FirstOccurrences.
LEMMA FirstOccurrencesFcn ==
    ASSUME NEW S, NEW list \in Seq(S)
    PROVE  \E f \in [0..Len(list) -> Seq(S)] :
              /\ f[0] = <<>>
              /\ \A i \in 1..Len(list) : f[i] = Kept(f[i - 1], list[i], Range(f[i - 1]))
              /\ FirstOccurrences(list) = f[Len(list)]
<1> DEFINE n == Len(list)
           T == Seq(S)
           next(x, i) == Kept(x, list[i], Range(x))
           step == [ix \in (1..n) \X T |-> next(ix[2], ix[1])]
           rec(f) == f = [i \in 0..n |-> IF i = 0 THEN <<>> ELSE next(f[i - 1], i)]
           h == CHOOSE f : rec(f)
<1>1. FirstOccurrences(list) = h[n]
  BY DEF FirstOccurrences
<1>2. n \in Nat /\ <<>> \in T /\ \A i \in 1..n : list[i] \in S
  OBVIOUS
<1>3. \A i \in 1..n, x \in T : next(x, i) \in T
  BY <1>2, KeptItem
<1>4. \A x, i : next(x, i) = Kept(x, list[i], Range(x))
  OBVIOUS
<1> HIDE DEF n, T, next
<1>5. IsStep(step, n, T) /\ \A i \in 1..n, x \in T : step[<<i, x>>] = next(x, i)
  BY <1>3 DEF IsStep
<1> HIDE DEF step
<1>6. \E f : rec(f)
  <2>1. PICK g : IsRecursive(g, n, T, <<>>, step)
    BY <1>2, <1>5, RecursionOnNat
  <2>2. /\ g = [i \in 0..n |-> g[i]] /\ g[0] = <<>>
        /\ \A i \in 1..n : g[i - 1] \in T /\ g[i] = step[<<i, g[i - 1]>>]
    BY <1>2, <2>1 DEF IsRecursive
  <2>3. \A i \in 1..n : g[i] = next(g[i - 1], i)
    BY <1>5, <2>2
  <2>4. ASSUME NEW i \in 0..n
        PROVE  g[i] = IF i = 0 THEN <<>> ELSE next(g[i - 1], i)
    <3>1. CASE i = 0
      BY <2>2, <3>1
    <3>2. CASE i \in 1..n
      BY <2>3, <3>2
    <3> QED
      BY <1>2, <3>1, <3>2
  <2>5. rec(g)
    BY <2>2, <2>4
  <2> QED
    BY <2>5
<1>7. rec(h)
  BY <1>6
<1> HIDE DEF h
<1>8. /\ h = [i \in 0..n |-> h[i]] /\ h[0] = <<>>
      /\ \A i \in 1..n : h[i] = next(h[i - 1], i)
  <2>1. \A i \in 0..n : h[i] = IF i = 0 THEN <<>> ELSE next(h[i - 1], i)
    BY <1>7
  <2>2. h = [i \in 0..n |-> h[i]]
    BY <1>7
  <2>3. 0 \in 0..n /\ \A i \in 1..n : i \in 0..n /\ i # 0
    BY <1>2
  <2> QED
    BY <2>1, <2>2, <2>3
<1>9. IsRecursive(h, n, T, <<>>, step)
  BY <1>2, <1>5, <1>8, RecursionUnique
<1>10. h \in [0..n -> T]
  BY <1>9 DEF IsRecursive
<1> QED
  BY <1>1, <1>4, <1>8, <1>10 DEF n, T

\* And for Joined.
LEMMA JoinedFcn ==
    ASSUME NEW S, NEW lists \in Seq(Seq(S))
    PROVE  \E f \in [0..Len(lists) -> Seq(S)] :
              /\ f[0] = <<>>
              /\ \A i \in 1..Len(lists) : f[i] = f[i - 1] \o lists[i]
              /\ Joined(lists) = f[Len(lists)]
<1> DEFINE n == Len(lists)
           T == Seq(S)
           next(x, i) == x \o lists[i]
           step == [ix \in (1..n) \X T |-> next(ix[2], ix[1])]
           rec(f) == f = [i \in 0..n |-> IF i = 0 THEN <<>> ELSE next(f[i - 1], i)]
           h == CHOOSE f : rec(f)
<1>1. Joined(lists) = h[n]
  BY DEF Joined
<1>2. n \in Nat /\ <<>> \in T /\ \A i \in 1..n : lists[i] \in Seq(S)
  OBVIOUS
<1>3. \A i \in 1..n, x \in T : next(x, i) \in T
  BY <1>2, ConcatProperties DEF T
<1>4. \A x, i : next(x, i) = x \o lists[i]
  OBVIOUS
<1> HIDE DEF n, T, next
<1>5. IsStep(step, n, T) /\ \A i \in 1..n, x \in T : step[<<i, x>>] = next(x, i)
  BY <1>3 DEF IsStep
<1> HIDE DEF step
<1>6. \E f : rec(f)
  <2>1. PICK g : IsRecursive(g, n, T, <<>>, step)
    BY <1>2, <1>5, RecursionOnNat
  <2>2. /\ g = [i \in 0..n |-> g[i]] /\ g[0] = <<>>
        /\ \A i \in 1..n : g[i - 1] \in T /\ g[i] = step[<<i, g[i - 1]>>]
    BY <1>2, <2>1 DEF IsRecursive
  <2>3. \A i \in 1..n : g[i] = next(g[i - 1], i)
    BY <1>5, <2>2
  <2>4. ASSUME NEW i \in 0..n
        PROVE  g[i] = IF i = 0 THEN <<>> ELSE next(g[i - 1], i)
    <3>1. CASE i = 0
      BY <2>2, <3>1
    <3>2. CASE i \in 1..n
      BY <2>3, <3>2
    <3> QED
      BY <1>2, <3>1, <3>2
  <2>5. rec(g)
    BY <2>2, <2>4
  <2> QED
    BY <2>5
<1>7. rec(h)
  BY <1>6
<1> HIDE DEF h
<1>8. /\ h = [i \in 0..n |-> h[i]] /\ h[0] = <<>>
      /\ \A i \in 1..n : h[i] = next(h[i - 1], i)
  <2>1. \A i \in 0..n : h[i] = IF i = 0 THEN <<>> ELSE next(h[i - 1], i)
    BY <1>7
  <2>2. h = [i \in 0..n |-> h[i]]
    BY <1>7
  <2>3. 0 \in 0..n /\ \A i \in 1..n : i \in 0..n /\ i # 0
    BY <1>2
  <2> QED
    BY <2>1, <2>2, <2>3
<1>9. IsRecursive(h, n, T, <<>>, step)
  BY <1>2, <1>5, <1>8, RecursionUnique
<1>10. h \in [0..n -> T]
  BY <1>9 DEF IsRecursive
<1> QED
  BY <1>1, <1>4, <1>8, <1>10 DEF n, T

\* The items up to a position.
Upto(list, k) == {list[i] : i \in 1..k}

\* One position more.
LEMMA UptoNext ==
    ASSUME NEW S, NEW list \in Seq(S)
    PROVE  /\ Upto(list, 0) = {}
           /\ \A k \in Nat : Upto(list, k + 1) = Upto(list, k) \cup {list[k + 1]}
           /\ Upto(list, Len(list)) = Range(list)
<1>1. Upto(list, 0) = {}
  BY DEF Upto
<1>2. ASSUME NEW k \in Nat
      PROVE  Upto(list, k + 1) = Upto(list, k) \cup {list[k + 1]}
  <2>1. \A i : i \in 1..(k + 1) <=> i \in 1..k \/ i = k + 1
    OBVIOUS
  <2> QED
    BY <2>1 DEF Upto
<1>3. Upto(list, Len(list)) = Range(list)
  BY RangeEquality DEF Upto
<1> QED
  BY <1>1, <1>2, <1>3

\* A list without an item.
LEMMA WithoutItem ==
    ASSUME NEW S, NEW list \in Seq(S), NEW item \in S
    PROVE  /\ Without(list, item) \in Seq(S)
           /\ Range(Without(list, item)) = Range(list) \ {item}
<1> DEFINE n == Len(list)
<1>1. n \in Nat /\ \A i \in 1..n : list[i] \in S
  OBVIOUS
<1>2. PICK f \in [0..n -> Seq(S)] :
         /\ f[0] = <<>>
         /\ \A i \in 1..n : f[i] = Kept(f[i - 1], list[i], {item})
         /\ Without(list, item) = f[n]
  BY WithoutFcn
<1> HIDE DEF n
<1> DEFINE P == {k \in Nat : k <= n => Range(f[k]) = Upto(list, k) \ {item}}
<1>3. 0 \in P
  BY <1>2, UptoNext, Empty
<1>4. ASSUME NEW k \in Nat, k \in P
      PROVE  k + 1 \in P
  <2> SUFFICES ASSUME k + 1 <= n
               PROVE  Range(f[k + 1]) = Upto(list, k + 1) \ {item}
    OBVIOUS
  <2>1. /\ k + 1 \in 1..n /\ (k + 1) - 1 = k /\ k \in 0..n
        /\ Range(f[k]) = Upto(list, k) \ {item}
    BY <1>1, <1>4
  <2>2. f[k + 1] = Kept(f[k], list[k + 1], {item}) /\ f[k] \in Seq(S) /\ list[k + 1] \in S
    BY <1>1, <1>2, <2>1
  <2>3. Range(f[k + 1]) = Range(f[k]) \cup ({list[k + 1]} \ {item})
    <3> DEFINE before == f[k]
               e == list[k + 1]
               u == {item}
    <3>1. before \in Seq(S) /\ e \in S /\ f[k + 1] = Kept(before, e, u)
      BY <2>2
    <3> HIDE DEF before, e, u
    <3>2. Range(f[k + 1]) = Range(before) \cup ({e} \ u)
      BY <3>1, KeptItem
    <3> QED
      BY <3>2 DEF before, e, u
  <2>4. Upto(list, k + 1) = Upto(list, k) \cup {list[k + 1]}
    BY UptoNext
  <2> QED
    BY <2>1, <2>3, <2>4
<1>5. n \in P
  BY <1>1, <1>3, <1>4, NatInductSet
<1>6. Range(f[n]) = Range(list) \ {item} /\ f[n] \in Seq(S)
  BY <1>1, <1>2, <1>5, UptoNext DEF n
<1> QED
  BY <1>2, <1>6

\* No item is in a list twice.
NoneTwice(list) == \A i, j \in DOMAIN list : list[i] = list[j] => i = j

\* One more item that the list does not have.
LEMMA KeptOnce ==
    ASSUME NEW S, NEW list \in Seq(S), NEW item \in S, NoneTwice(list)
    PROVE  NoneTwice(Kept(list, item, Range(list)))
<1>1. CASE item \in Range(list)
  BY <1>1 DEF Kept
<1>2. CASE item \notin Range(list)
  <2> DEFINE longer == Kept(list, item, Range(list))
             n == Len(list)
  <2>1. /\ longer \in Seq(S) /\ Len(longer) = n + 1
        /\ \A i \in 1..n : longer[i] = list[i]
        /\ longer[n + 1] = item
    BY <1>2, KeptItem
  <2>2. /\ n \in Nat /\ DOMAIN list = 1..n /\ DOMAIN longer = 1..(n + 1)
        /\ \A i \in 1..n : list[i] # item
    BY <1>2, <2>1, LenProperties DEF Range
  <2> HIDE DEF longer, n
  <2>3. ASSUME NEW i \in 1..(n + 1), NEW j \in 1..(n + 1), longer[i] = longer[j]
        PROVE  i = j
    <3>1. (i \in 1..n \/ i = n + 1) /\ (j \in 1..n \/ j = n + 1)
      BY <2>2
    <3> QED
      BY <2>1, <2>2, <2>3, <3>1 DEF NoneTwice
  <2>4. NoneTwice(longer)
    BY <2>2, <2>3 DEF NoneTwice
  <2> QED
    BY <2>4 DEF longer
<1> QED
  BY <1>1, <1>2

\* The first of equal items are the same items, none of them twice.
LEMMA FirstItems ==
    ASSUME NEW S, NEW list \in Seq(S)
    PROVE  /\ FirstOccurrences(list) \in Seq(S)
           /\ Range(FirstOccurrences(list)) = Range(list)
           /\ NoneTwice(FirstOccurrences(list))
<1> DEFINE n == Len(list)
<1>1. n \in Nat /\ \A i \in 1..n : list[i] \in S
  OBVIOUS
<1>2. PICK f \in [0..n -> Seq(S)] :
         /\ f[0] = <<>>
         /\ \A i \in 1..n : f[i] = Kept(f[i - 1], list[i], Range(f[i - 1]))
         /\ FirstOccurrences(list) = f[n]
  BY FirstOccurrencesFcn
<1> HIDE DEF n
<1> DEFINE P == {k \in Nat : k <= n => Range(f[k]) = Upto(list, k) /\ NoneTwice(f[k])}
<1>3. 0 \in P
  <2>1. Range(f[0]) = {} /\ NoneTwice(f[0])
    BY <1>2, Empty DEF NoneTwice
  <2> QED
    BY <2>1, UptoNext
<1>4. ASSUME NEW k \in Nat, k \in P
      PROVE  k + 1 \in P
  <2> SUFFICES ASSUME k + 1 <= n
               PROVE  Range(f[k + 1]) = Upto(list, k + 1) /\ NoneTwice(f[k + 1])
    OBVIOUS
  <2>1. /\ k + 1 \in 1..n /\ (k + 1) - 1 = k /\ k \in 0..n
        /\ Range(f[k]) = Upto(list, k) /\ NoneTwice(f[k])
    BY <1>1, <1>4
  <2>2. /\ f[k + 1] = Kept(f[k], list[k + 1], Range(f[k]))
        /\ f[k] \in Seq(S) /\ list[k + 1] \in S
    BY <1>1, <1>2, <2>1
  <2>3. Range(f[k + 1]) = Range(f[k]) \cup ({list[k + 1]} \ Range(f[k]))
    <3> DEFINE before == f[k]
               e == list[k + 1]
    <3>1. before \in Seq(S) /\ e \in S /\ f[k + 1] = Kept(before, e, Range(before))
      BY <2>2
    <3> HIDE DEF before, e
    <3>2. Range(f[k + 1]) = Range(before) \cup ({e} \ Range(before))
      BY <3>1, KeptItem
    <3> QED
      BY <3>2 DEF before, e
  <2>4. Upto(list, k + 1) = Upto(list, k) \cup {list[k + 1]}
    BY UptoNext
  <2>5. NoneTwice(f[k + 1])
    BY <2>1, <2>2, KeptOnce
  <2> QED
    BY <2>1, <2>3, <2>4, <2>5
<1>5. n \in P
  BY <1>1, <1>3, <1>4, NatInductSet
<1>6. Range(f[n]) = Range(list) /\ NoneTwice(f[n]) /\ f[n] \in Seq(S)
  BY <1>1, <1>2, <1>5, UptoNext DEF n
<1> QED
  BY <1>2, <1>6

\* The items of the lists up to a position.
ItemsUpto(lists, k) == UNION {Range(lists[i]) : i \in 1..k}

\* Joined lists have the items of each; lists of one item are joined item by item.
LEMMA JoinedItems ==
    ASSUME NEW S, NEW lists \in Seq(Seq(S))
    PROVE  /\ Joined(lists) \in Seq(S)
           /\ Range(Joined(lists)) = UNION {Range(list) : list \in Range(lists)}
           /\ (\A i \in DOMAIN lists : Len(lists[i]) = 1) =>
                 /\ DOMAIN Joined(lists) = DOMAIN lists
                 /\ \A i \in DOMAIN lists : Joined(lists)[i] = lists[i][1]
<1> DEFINE n == Len(lists)
           singles == \A i \in DOMAIN lists : Len(lists[i]) = 1
<1>1. n \in Nat /\ DOMAIN lists = 1..n /\ \A i \in 1..n : lists[i] \in Seq(S)
  BY LenProperties
<1>2. PICK f \in [0..n -> Seq(S)] :
         /\ f[0] = <<>>
         /\ \A i \in 1..n : f[i] = f[i - 1] \o lists[i]
         /\ Joined(lists) = f[n]
  BY JoinedFcn
<1> HIDE DEF n
<1>3. Range(f[n]) = ItemsUpto(lists, n)
  <2> DEFINE P == {k \in Nat : k <= n => Range(f[k]) = ItemsUpto(lists, k)}
  <2>1. 0 \in P
    BY <1>2, Empty DEF ItemsUpto
  <2>2. ASSUME NEW k \in Nat, k \in P
        PROVE  k + 1 \in P
    <3> SUFFICES ASSUME k + 1 <= n
                 PROVE  Range(f[k + 1]) = ItemsUpto(lists, k + 1)
      OBVIOUS
    <3>1. /\ k + 1 \in 1..n /\ (k + 1) - 1 = k /\ k \in 0..n
          /\ Range(f[k]) = ItemsUpto(lists, k)
      BY <1>1, <2>2
    <3>2. /\ f[k + 1] = f[k] \o lists[k + 1]
          /\ f[k] \in Seq(S) /\ lists[k + 1] \in Seq(S)
      BY <1>1, <1>2, <3>1
    <3>3. Range(f[k + 1]) = Range(f[k]) \cup Range(lists[k + 1])
      BY <3>2, RangeConcatenation
    <3>4. ItemsUpto(lists, k + 1) = ItemsUpto(lists, k) \cup Range(lists[k + 1])
      <4>1. \A i : i \in 1..(k + 1) <=> i \in 1..k \/ i = k + 1
        OBVIOUS
      <4> QED
        BY <4>1 DEF ItemsUpto
    <3> QED
      BY <3>1, <3>3, <3>4
  <2>3. n \in P
    BY <1>1, <2>1, <2>2, NatInductSet
  <2> QED
    BY <1>1, <2>3
<1>4. ItemsUpto(lists, n) = UNION {Range(list) : list \in Range(lists)}
  <2>1. Range(lists) = {lists[i] : i \in 1..n}
    BY <1>1 DEF Range
  <2> QED
    BY <2>1 DEF ItemsUpto
<1>5. ASSUME singles
      PROVE  Len(f[n]) = n /\ \A i \in 1..n : f[n][i] = lists[i][1]
  <2> DEFINE OneByOne(k) == Len(f[k]) = k /\ \A i \in 1..k : f[k][i] = lists[i][1]
             P == {k \in Nat : k <= n => OneByOne(k)}
  <2>1. 0 \in P
    BY <1>2, Empty
  <2>2. ASSUME NEW k \in Nat, k \in P
        PROVE  k + 1 \in P
    <3> SUFFICES ASSUME k + 1 <= n
                 PROVE  OneByOne(k + 1)
      OBVIOUS
    <3>1. k + 1 \in 1..n /\ (k + 1) - 1 = k /\ k \in 0..n /\ OneByOne(k)
      BY <1>1, <2>2
    <3>2. /\ f[k + 1] = f[k] \o lists[k + 1]
          /\ f[k] \in Seq(S) /\ lists[k + 1] \in Seq(S) /\ Len(lists[k + 1]) = 1
      BY <1>1, <1>2, <1>5, <3>1
    <3>3. /\ Len(f[k + 1]) = Len(f[k]) + 1
          /\ \A i \in 1..(Len(f[k]) + 1) :
                f[k + 1][i] = IF i <= Len(f[k]) THEN f[k][i] ELSE lists[k + 1][i - Len(f[k])]
      <4> DEFINE before == f[k]
                 list == lists[k + 1]
      <4>1. /\ before \in Seq(S) /\ list \in Seq(S) /\ Len(list) = 1
            /\ f[k + 1] = before \o list
        BY <3>2
      <4> HIDE DEF before, list
      <4>2. /\ Len(before \o list) = Len(before) + Len(list)
            /\ \A i \in 1..(Len(before) + Len(list)) :
                  (before \o list)[i] = IF i <= Len(before) THEN before[i]
                                        ELSE list[i - Len(before)]
        BY <4>1, ConcatProperties
      <4>3. /\ Len(f[k + 1]) = Len(before) + 1
            /\ \A i \in 1..(Len(before) + 1) :
                  f[k + 1][i] = IF i <= Len(before) THEN before[i]
                                ELSE list[i - Len(before)]
        BY <4>1, <4>2
      <4> QED
        BY <4>3 DEF before, list
    <3>4. \A i \in 1..(k + 1) : f[k + 1][i] = IF i <= k THEN f[k][i] ELSE lists[k + 1][i - k]
      BY <3>1, <3>3
    <3>5. ASSUME NEW i \in 1..(k + 1)
          PROVE  f[k + 1][i] = lists[i][1]
      <4>1. CASE i \in 1..k
        BY <3>1, <3>4, <4>1
      <4>2. CASE i = k + 1
        <5>1. ~(i <= k) /\ i - k = 1
          BY <4>2
        <5> QED
          BY <3>4, <4>2, <5>1
      <4> QED
        BY <4>1, <4>2
    <3> QED
      BY <3>1, <3>3, <3>5
  <2> HIDE DEF OneByOne
  <2>3. n \in P
    BY <1>1, <2>1, <2>2, NatInductSet
  <2>4. OneByOne(n)
    BY <1>1, <2>3
  <2> QED
    BY <2>4 DEF OneByOne
<1>6. f[n] \in Seq(S)
  BY <1>1, <1>2
<1>7. singles => DOMAIN f[n] = 1..n
  BY <1>5, <1>6, LenProperties
<1> QED
  BY <1>1, <1>2, <1>3, <1>4, <1>5, <1>6, <1>7

-----------------------------------------------------------------------------
(* What is read from a row. *)

\* The talkgroups of two sets of texts, and of a text of nothing.
LEMMA InSets ==
    /\ \A s, t : In(s \cup t) = In(s) \cup In(t)
    /\ \A s : In(s \ {EmptyText}) = In(s)
    /\ In({}) = {} /\ In({EmptyText}) = {}
    /\ EmptyText \in Texts /\ Blank \in Pieces
<1>1. ASSUME NEW s, NEW t
      PROVE  In(s \cup t) = In(s) \cup In(t)
  BY DEF In
<1>2. EmptyText \in Texts /\ Blank \in Pieces /\ Range(EmptyText) = {Blank}
  <2>1. Blank \in Pieces
    BY DEF Pieces
  <2>2. EmptyText \in Seq(Pieces) /\ Range(EmptyText) = {Blank} /\ Len(EmptyText) = 1
    BY <2>1, Single DEF EmptyText
  <2>3. Len(<<>>) = 0
    OBVIOUS
  <2> QED
    BY <2>1, <2>2, <2>3 DEF Texts
<1>3. ASSUME NEW s
      PROVE  In(s \ {EmptyText}) = In(s)
  <2>1. ASSUME NEW piece \in In(s)
        PROVE  piece \in In(s \ {EmptyText})
    <3>1. PICK text \in s : piece \in Range(text) /\ piece # Blank
      BY DEF In
    <3>2. text # EmptyText
      BY <1>2, <3>1
    <3> QED
      BY <3>1, <3>2 DEF In
  <2> QED
    BY <2>1 DEF In
<1>4. In({}) = {} /\ In({EmptyText}) = {}
  BY <1>2 DEF In
<1> QED
  BY <1>1, <1>2, <1>3, <1>4

\* A text is not empty.
LEMMA TextLength ==
    ASSUME NEW text \in Texts
    PROVE  Len(text) = 1 \/ Len(text) > 1
<1> DEFINE n == Len(text)
<1>1. n \in Nat \ {0}
  BY EmptySeq DEF Texts
<1> HIDE DEF n
<1>2. n = 1 \/ n > 1
  BY <1>1
<1> QED
  BY <1>2 DEF n

\* No text has a comma.
Short(texts) == \A text \in texts : Len(text) = 1

\* A text that is split.
LEMMA SplitItems ==
    ASSUME NEW text \in Texts
    PROVE  /\ SplitTexts(text) \in Seq(Texts)
           /\ In(Range(SplitTexts(text))) = In({text})
           /\ Short(Range(SplitTexts(text)))
<1> DEFINE s == Split(text)
           n == Len(s)
<1>1. s \in Seq(Pieces) /\ Range(s) = Range(text) \ {Blank}
  BY WithoutItem, InSets DEF Split, Texts
<1>2. /\ n \in Nat /\ Range(s) = {s[i] : i \in 1..n}
      /\ SplitTexts(text) = [i \in 1..n |-> <<s[i]>>]
  <2>1. DOMAIN s = 1..n /\ n \in Nat
    BY <1>1, LenProperties
  <2> QED
    BY <2>1 DEF Range, SplitTexts
<1> HIDE DEF s, n
<1>3. \A i \in 1..n : s[i] \in Pieces
  BY <1>1, <1>2, RangeOfSeq
<1>4. ASSUME NEW i \in 1..n
      PROVE  <<s[i]>> \in Texts /\ Len(<<s[i]>>) = 1 /\ Range(<<s[i]>>) = {s[i]}
  <2>1. <<s[i]>> \in Seq(Pieces) /\ Len(<<s[i]>>) = 1 /\ Range(<<s[i]>>) = {s[i]}
    BY <1>3, Single
  <2>2. Len(<<>>) = 0
    OBVIOUS
  <2> QED
    BY <2>1, <2>2 DEF Texts
<1>5. SplitTexts(text) \in Seq(Texts)
  BY <1>2, <1>4
<1>6. Range(SplitTexts(text)) = {<<s[i]>> : i \in 1..n}
  BY <1>2 DEF Range
<1>7. In(Range(SplitTexts(text))) = Range(s)
  <2>1. ASSUME NEW piece, \E t \in Range(SplitTexts(text)) : piece \in Range(t)
        PROVE  piece \in Range(s)
    <3>1. PICK i \in 1..n : piece \in Range(<<s[i]>>)
      BY <1>6, <2>1
    <3> QED
      BY <1>2, <1>4, <3>1
  <2>2. ASSUME NEW piece \in Range(s)
        PROVE  \E t \in Range(SplitTexts(text)) : piece \in Range(t)
    <3>1. PICK i \in 1..n : piece = s[i]
      BY <1>2
    <3>2. <<s[i]>> \in Range(SplitTexts(text)) /\ piece \in Range(<<s[i]>>)
      BY <1>4, <1>6, <3>1
    <3> QED
      BY <3>2
  <2>3. UNION {Range(t) : t \in Range(SplitTexts(text))} = Range(s)
    BY <2>1, <2>2
  <2> QED
    BY <1>1, <2>3 DEF In
<1>8. In({text}) = Range(text) \ {Blank}
  BY DEF In
<1> QED
  BY <1>1, <1>4, <1>5, <1>6, <1>7, <1>8 DEF Short

\* Texts without the empty ones.
LEMMA NonEmptyItems ==
    ASSUME NEW texts \in Seq(Texts)
    PROVE  /\ NonEmpty(texts) \in Seq(Texts)
           /\ In(Range(NonEmpty(texts))) = In(Range(texts))
           /\ Short(Range(texts)) => Short(Range(NonEmpty(texts)))
<1>1. NonEmpty(texts) \in Seq(Texts) /\ Range(NonEmpty(texts)) = Range(texts) \ {EmptyText}
  BY WithoutItem, InSets DEF NonEmpty
<1> QED
  BY <1>1, InSets DEF Short

\* A text of a field that is not split has a comma.
Unsplit(field) == field.is = "list" /\ \E text \in Range(field.of) : Len(text) > 1

\* A field.
LEMMA FieldItems ==
    ASSUME NEW field \in Field
    PROVE  /\ StaticTgList(field) \in Seq(Texts)
           /\ In(Range(StaticTgList(field))) = In(Range(field.of))
           /\ Unsplit(field) \/ Short(Range(StaticTgList(field)))
<1>1. /\ field.is \in {"missing", "none", "text", "list"} /\ field.of \in Seq(Texts)
      /\ field.is \in {"missing", "none"} => field.of = <<>>
      /\ field.is = "text" => Len(field.of) = 1
  BY DEF Field
<1>2. CASE field.is = "text"
  <2> DEFINE text == field.of[1]
  <2>1. text \in Texts /\ Range(field.of) = {text}
    <3>1. Len(field.of) = 1 /\ DOMAIN field.of = 1..1
      BY <1>1, <1>2, LenProperties
    <3> QED
      BY <1>1, <3>1 DEF Range
  <2>2. StaticTgList(field) = SplitTexts(text)
    BY <1>2 DEF StaticTgList
  <2> HIDE DEF text
  <2> QED
    BY <2>1, <2>2, SplitItems
<1>3. CASE field.is # "text"
  <2>1. StaticTgList(field) = NonEmpty(field.of)
    BY <1>3 DEF StaticTgList
  <2>2. field.is = "list" \/ Range(field.of) = {}
    BY <1>1, <1>3, Empty
  <2>3. \A text \in Range(field.of) : Len(text) = 1 \/ Len(text) > 1
    BY <1>1, RangeOfSeq, TextLength
  <2>4. Unsplit(field) \/ Short(Range(field.of))
    BY <2>2, <2>3 DEF Unsplit, Short
  <2> QED
    BY <1>1, <2>1, <2>4, NonEmptyItems
<1> QED
  BY <1>2, <1>3

\* What a hotspot's options hold under a key is a text of one of its assignments.
LEMMA ParsedItem ==
    ASSUME NEW options \in Seq(Option), NEW key, Uses(options, key)
    PROVE  /\ key \in DOMAIN Parsed(options)
           /\ \E i \in DOMAIN options :
                 options[i].key = key /\ Parsed(options)[key] = options[i].text
<1> DEFINE T == {i \in DOMAIN options : options[i].key = key}
           last(i) == /\ options[i].key = key
                      /\ \A j \in DOMAIN options : options[j].key = key => j <= i
           i == CHOOSE m \in DOMAIN options : last(m)
<1>1. Len(options) \in Nat /\ DOMAIN options = 1..Len(options)
  BY LenProperties
<1>2. \E m \in DOMAIN options : last(m)
  <2>1. T \subseteq Nat /\ T # {} /\ \A n \in T : n <= Len(options)
    BY <1>1 DEF Uses
  <2>2. PICK m \in T : \A n \in T : n <= m
    BY <1>1, <2>1, GreatestNatural
  <2> QED
    BY <2>2
<1>3. i \in DOMAIN options /\ last(i)
  BY <1>2
<1>4. key \in {options[j].key : j \in DOMAIN options}
  BY <1>3
<1>5. Parsed(options)[key] = options[i].text /\ key \in DOMAIN Parsed(options)
  BY <1>4 DEF Parsed
<1> QED
  BY <1>3, <1>5

\* The text that counts for a key, the empty one when there is none.
TextOf(options, key) == IF Uses(options, key) THEN Parsed(options)[key] ELSE EmptyText

\* It is a text, and one of the options when it is not empty.
LEMMA TextOfKey ==
    ASSUME NEW options \in Seq(Option), NEW key
    PROVE  /\ TextOf(options, key) \in Texts
           /\ In({TextOf(options, key)}) = ValueOf(options, key)
           /\ \/ Len(TextOf(options, key)) = 1
              \/ \E i \in DOMAIN options :
                    options[i].key = key /\ Len(options[i].text) > 1
<1>1. CASE Uses(options, key)
  <2>1. PICK i \in DOMAIN options :
           options[i].key = key /\ Parsed(options)[key] = options[i].text
    BY <1>1, ParsedItem
  <2> DEFINE text == options[i].text
  <2>2. text \in Texts /\ TextOf(options, key) = text
    <3>1. options[i] \in Option
      OBVIOUS
    <3> QED
      BY <1>1, <2>1, <3>1 DEF Option, TextOf
  <2>3. ValueOf(options, key) = In({text})
    BY <1>1, <2>1 DEF ValueOf
  <2>4. Len(text) = 1 \/ Len(text) > 1
    BY <2>2, TextLength
  <2> QED
    BY <2>1, <2>2, <2>3, <2>4
<1>2. CASE ~Uses(options, key)
  <2>1. TextOf(options, key) = EmptyText /\ ValueOf(options, key) = {}
    BY <1>2 DEF TextOf, ValueOf
  <2>2. Len(EmptyText) = 1
    BY DEF EmptyText
  <2> QED
    BY <2>1, <2>2, InSets
<1> QED
  BY <1>1, <1>2

\* A key is used when the parsed options have it.
LEMMA UsedKeys ==
    ASSUME NEW options
    PROVE  \A key : key \in DOMAIN Parsed(options) <=> Uses(options, key)
BY DEF Parsed, Uses

\* A numbered option has a comma.
CommaOption(options) ==
    \E j \in DOMAIN options :
        options[j].key \in Range(Numbered) /\ Len(options[j].text) > 1

\* The options of a hotspot.
LEMMA OptionItems ==
    ASSUME NEW options \in Seq(Option)
    PROVE  /\ OptionTexts(options) \in Seq(Texts)
           /\ In(Range(OptionTexts(options))) = AskedFor(options)
           /\ CommaOption(options) \/ Short(Range(OptionTexts(options)))
<1> DEFINE static == IF "TS1_STATIC" \in DOMAIN Parsed(options)
                     THEN Parsed(options)["TS1_STATIC"]
                     ELSE IF "TS1" \in DOMAIN Parsed(options) THEN Parsed(options)["TS1"]
                     ELSE EmptyText
           numbered == [i \in 1..9 |-> IF Numbered[i] \in DOMAIN Parsed(options)
                                       THEN Parsed(options)[Numbered[i]] ELSE EmptyText]
<1>1. CASE ~Uses(options, "TS1_1")
  <2> DEFINE key == IF Uses(options, "TS1_STATIC") THEN "TS1_STATIC" ELSE "TS1"
  <2>1. static = TextOf(options, key)
    BY UsedKeys DEF TextOf
  <2>2. OptionTexts(options) = SplitTexts(static)
    BY <1>1, UsedKeys DEF OptionTexts
  <2>3. AskedFor(options) = ValueOf(options, key)
    BY <1>1 DEF AskedFor
  <2> HIDE DEF static, key
  <2>4. static \in Texts /\ In({static}) = ValueOf(options, key)
    BY <2>1, TextOfKey
  <2> QED
    BY <2>2, <2>3, <2>4, SplitItems
<1>2. CASE Uses(options, "TS1_1")
  <2> DEFINE rest == SubSeq(numbered, 2, 9)
             first == <<numbered[1]>>
  <2>1. OptionTexts(options) = first \o NonEmpty(rest)
    BY <1>2, UsedKeys DEF OptionTexts
  <2>2. AskedFor(options) = UNION {ValueOf(options, key) : key \in Range(Numbered)}
    BY <1>2 DEF AskedFor
  <2>3. numbered = [i \in 1..9 |-> TextOf(options, Numbered[i])]
    BY UsedKeys DEF TextOf
  <2>4. Range(Numbered) = {Numbered[i] : i \in 1..9}
    BY DEF Range, Numbered
  <2> HIDE DEF numbered
  <2>5. \A i \in 1..9 : numbered[i] = TextOf(options, Numbered[i]) /\ numbered[i] \in Texts
    BY <2>3, TextOfKey
  <2>6. numbered \in Seq(Texts) /\ Len(numbered) = 9
    BY <2>3, <2>5
  <2>7. /\ first \in Seq(Texts) /\ Range(first) = {numbered[1]}
        /\ rest \in Seq(Texts) /\ Range(rest) = {numbered[i] : i \in 2..9}
    <3>1. first \in Seq(Texts) /\ Range(first) = {numbered[1]}
      BY <2>5, Single
    <3>2. /\ rest \in Seq(Texts) /\ Len(rest) = 8
          /\ \A i \in 1..8 : rest[i] = numbered[i + 1]
      <4>1. \A i \in 2..9 : numbered[i] \in Texts
        BY <2>5
      <4>2. 2 \in Int /\ 9 \in Int /\ 2 <= 9 /\ (9 - 2) + 1 = 8
        OBVIOUS
      <4>3. /\ rest \in Seq(Texts) /\ Len(rest) = (9 - 2) + 1
            /\ \A i \in 1..((9 - 2) + 1) : rest[i] = numbered[(2 + i) - 1]
        BY <4>1, <4>2, SubSeqProperties
      <4> HIDE DEF rest
      <4>4. \A i \in 1..8 : (2 + i) - 1 = i + 1
        OBVIOUS
      <4> QED
        BY <4>2, <4>3, <4>4
    <3> HIDE DEF rest
    <3>3. Range(rest) = {rest[i] : i \in 1..8}
      BY <3>2, RangeEquality
    <3>4. {rest[i] : i \in 1..8} = {numbered[i] : i \in 2..9}
      <4>1. ASSUME NEW i \in 2..9
            PROVE  i - 1 \in 1..8 /\ numbered[i] = rest[i - 1]
        <5>1. i - 1 \in 1..8 /\ (i - 1) + 1 = i
          OBVIOUS
        <5> QED
          BY <3>2, <5>1
      <4>2. \A i \in 1..8 : i + 1 \in 2..9 /\ rest[i] = numbered[i + 1]
        BY <3>2
      <4> QED
        BY <4>1, <4>2
    <3> QED
      BY <3>1, <3>2, <3>3, <3>4
  <2> HIDE DEF first, rest
  <2>8. /\ OptionTexts(options) \in Seq(Texts)
        /\ Range(OptionTexts(options)) = Range(first) \cup Range(NonEmpty(rest))
    BY <2>1, <2>7, NonEmptyItems, ConcatProperties, RangeConcatenation
  <2>9. In(Range(OptionTexts(options))) = In(Range(first) \cup Range(rest))
    <3>1. In(Range(NonEmpty(rest))) = In(Range(rest))
      BY <2>7, NonEmptyItems
    <3>2. In(Range(first) \cup Range(NonEmpty(rest)))
             = In(Range(first)) \cup In(Range(NonEmpty(rest)))
      BY InSets, Zenon
    <3>3. In(Range(first) \cup Range(rest)) = In(Range(first)) \cup In(Range(rest))
      BY InSets, Zenon
    <3> QED
      BY <2>8, <3>1, <3>2, <3>3
  <2>10. Range(first) \cup Range(rest) = {numbered[i] : i \in 1..9}
    <3>1. \A i : i \in 1..9 <=> i = 1 \/ i \in 2..9
      OBVIOUS
    <3> QED
      BY <2>7, <3>1
  <2>11. In({numbered[i] : i \in 1..9}) = AskedFor(options)
    <3>1. \A i \in 1..9 : Range(numbered[i]) \ {Blank} = ValueOf(options, Numbered[i])
      BY <2>5, TextOfKey DEF In
    <3>2. In({numbered[i] : i \in 1..9}) = UNION {Range(numbered[i]) \ {Blank} : i \in 1..9}
      BY DEF In
    <3>3. AskedFor(options) = UNION {ValueOf(options, Numbered[i]) : i \in 1..9}
      BY <2>2, <2>4
    <3> QED
      BY <3>1, <3>2, <3>3
  <2>12. ASSUME ~CommaOption(options)
         PROVE  Short({numbered[i] : i \in 1..9})
    <3>1. \A i \in 1..9 : Numbered[i] \in Range(Numbered)
      BY <2>4
    <3>2. ASSUME NEW i \in 1..9
          PROVE  Len(numbered[i]) = 1
      <4> DEFINE key == Numbered[i]
      <4>1. key \in Range(Numbered) /\ numbered[i] = TextOf(options, key)
        BY <2>5, <3>1
      <4> HIDE DEF key
      <4>2. \/ Len(TextOf(options, key)) = 1
            \/ \E j \in DOMAIN options : options[j].key = key /\ Len(options[j].text) > 1
        BY TextOfKey
      <4> QED
        BY <2>12, <4>1, <4>2 DEF CommaOption
    <3> QED
      BY <3>2 DEF Short
  <2>13. ~CommaOption(options) => Short(Range(OptionTexts(options)))
    <3>1. ASSUME ~CommaOption(options)
          PROVE  Short(Range(first)) /\ Short(Range(rest))
      BY <2>10, <2>12, <3>1 DEF Short
    <3> QED
      BY <2>7, <2>8, <3>1, NonEmptyItems DEF Short
  <2> QED
    BY <2>8, <2>9, <2>10, <2>11, <2>13
<1> QED
  BY <1>1, <1>2

\* Two lists of texts after each other.
LEMMA ConcatTexts ==
    ASSUME NEW a \in Seq(Texts), NEW b \in Seq(Texts)
    PROVE  /\ a \o b \in Seq(Texts)
           /\ In(Range(a \o b)) = In(Range(a)) \cup In(Range(b))
           /\ Short(Range(a)) /\ Short(Range(b)) => Short(Range(a \o b))
<1>1. a \o b \in Seq(Texts) /\ Range(a \o b) = Range(a) \cup Range(b)
  BY ConcatProperties, RangeConcatenation
<1>2. In(Range(a) \cup Range(b)) = In(Range(a)) \cup In(Range(b))
  BY InSets, Zenon
<1> QED
  BY <1>1, <1>2 DEF Short

\* A hotspot.
LEMMA HotspotItems ==
    ASSUME NEW hotspot \in Hotspot
    PROVE  /\ HotspotTexts(hotspot) \in Seq(Texts)
           /\ In(Range(HotspotTexts(hotspot))) =
                 In(Range(hotspot.ts1_static.of)) \cup In(Range(hotspot.TS1_STATIC.of))
                    \cup AskedFor(hotspot.options)
           /\ \/ Unsplit(hotspot.ts1_static) \/ Unsplit(hotspot.TS1_STATIC)
              \/ CommaOption(hotspot.options)
              \/ Short(Range(HotspotTexts(hotspot)))
<1> DEFINE one == StaticTgList(hotspot.ts1_static)
           two == StaticTgList(hotspot.TS1_STATIC)
           three == OptionTexts(hotspot.options)
<1>1. /\ hotspot.ts1_static \in Field /\ hotspot.TS1_STATIC \in Field
      /\ hotspot.options \in Seq(Option)
  BY DEF Hotspot
<1>2. /\ one \in Seq(Texts) /\ In(Range(one)) = In(Range(hotspot.ts1_static.of))
      /\ Unsplit(hotspot.ts1_static) \/ Short(Range(one))
  BY <1>1, FieldItems
<1>3. /\ two \in Seq(Texts) /\ In(Range(two)) = In(Range(hotspot.TS1_STATIC.of))
      /\ Unsplit(hotspot.TS1_STATIC) \/ Short(Range(two))
  BY <1>1, FieldItems
<1>4. /\ three \in Seq(Texts) /\ In(Range(three)) = AskedFor(hotspot.options)
      /\ CommaOption(hotspot.options) \/ Short(Range(three))
  BY <1>1, OptionItems
<1>5. HotspotTexts(hotspot) = (one \o two) \o three
  BY DEF HotspotTexts
<1> HIDE DEF one, two, three
<1>6. /\ one \o two \in Seq(Texts)
      /\ In(Range(one \o two)) = In(Range(one)) \cup In(Range(two))
      /\ Short(Range(one)) /\ Short(Range(two)) => Short(Range(one \o two))
  BY <1>2, <1>3, ConcatTexts
<1> DEFINE both == one \o two
<1> HIDE DEF both
<1>7. /\ both \o three \in Seq(Texts)
      /\ In(Range(both \o three)) = In(Range(both)) \cup In(Range(three))
      /\ Short(Range(both)) /\ Short(Range(three)) => Short(Range(both \o three))
  BY <1>4, <1>6, ConcatTexts DEF both
<1> QED
  BY <1>2, <1>3, <1>4, <1>5, <1>6, <1>7 DEF both

-----------------------------------------------------------------------------
(* What is shown of a row. *)

\* The talkgroups that a row declares.
Heard(row) == In(OwnTexts(row)) \cup HotspotsAskFor(row)

\* Some text that a row declares as one has a comma.
Commas(row) ==
    \/ \E field \in Fields(row) \cup HotspotFields(row) : Unsplit(field)
    \/ \E i \in DOMAIN row.hotspots : CommaOption(row.hotspots[i].options)

\* No talkgroup is shown twice.
ShownOnce(value) ==
    \A i, j \in DOMAIN value : value[i] = value[j] /\ value[i] # Blank => i = j

\* The hotspots of a row.
LEMMA HotspotsItems ==
    ASSUME NEW row \in Row,
           NEW hotspots,
           hotspots = Joined([i \in 1..Len(row.hotspots) |-> HotspotTexts(row.hotspots[i])])
    PROVE  /\ hotspots \in Seq(Texts)
           /\ In(Range(hotspots)) = HotspotsAskFor(row)
           /\ Commas(row) \/ Short(Range(hotspots))
<1> DEFINE n == Len(row.hotspots)
           h(i) == row.hotspots[i]
           lists == [i \in 1..n |-> HotspotTexts(h(i))]
<1>1. n \in Nat /\ DOMAIN row.hotspots = 1..n /\ \A i \in 1..n : h(i) \in Hotspot
  <2>1. row.hotspots \in Seq(Hotspot)
    BY DEF Row
  <2> QED
    BY <2>1, LenProperties
<1> DEFINE first(i) == In(Range(h(i).ts1_static.of))
           second(i) == In(Range(h(i).TS1_STATIC.of))
           third(i) == AskedFor(h(i).options)
<1>2. HotspotsAskFor(row) = UNION {(first(i) \cup second(i)) \cup third(i) : i \in 1..n}
  <2>1. HotspotFields(row) = UNION {{h(i).ts1_static, h(i).TS1_STATIC} : i \in 1..n}
    BY <1>1 DEF HotspotFields
  <2>2. \A field : field \in HotspotFields(row) <=>
                      \E i \in 1..n : field = h(i).ts1_static \/ field = h(i).TS1_STATIC
    BY <2>1
  <2>3. HotspotsAskFor(row) =
           In(UNION {Range(field.of) : field \in HotspotFields(row)})
              \cup UNION {third(i) : i \in 1..n}
    BY <1>1 DEF HotspotsAskFor
  <2>4. In(UNION {Range(field.of) : field \in HotspotFields(row)}) =
           UNION {first(i) \cup second(i) : i \in 1..n}
    <3>1. \A x : x \in In(UNION {Range(field.of) : field \in HotspotFields(row)}) <=>
                    \E field \in HotspotFields(row) : x \in In(Range(field.of))
      BY DEF In
    <3>2. \A x : (\E field \in HotspotFields(row) : x \in In(Range(field.of))) <=>
                    \E i \in 1..n : x \in first(i) \/ x \in second(i)
      BY <2>2
    <3> DEFINE left == In(UNION {Range(field.of) : field \in HotspotFields(row)})
    <3> HIDE DEF first, second
    <3>3. \A x : x \in left <=> \E i \in 1..n : x \in first(i) \/ x \in second(i)
      BY <3>1, <3>2
    <3> HIDE DEF left
    <3>4. left = UNION {first(i) \cup second(i) : i \in 1..n}
      BY <3>3
    <3> QED
      BY <3>4 DEF left
  <2> HIDE DEF first, second, third
  <2> QED
    BY <2>3, <2>4
<1>3. \A i \in 1..n :
         /\ HotspotTexts(h(i)) \in Seq(Texts)
         /\ In(Range(HotspotTexts(h(i)))) = (first(i) \cup second(i)) \cup third(i)
         /\ \/ Unsplit(h(i).ts1_static) \/ Unsplit(h(i).TS1_STATIC)
            \/ CommaOption(h(i).options)
            \/ Short(Range(HotspotTexts(h(i))))
  BY <1>1, HotspotItems
<1>4. ASSUME NEW i \in 1..n
      PROVE  Commas(row) \/ Short(Range(HotspotTexts(h(i))))
  <2>1. h(i).ts1_static \in HotspotFields(row) /\ h(i).TS1_STATIC \in HotspotFields(row)
    BY <1>1 DEF HotspotFields
  <2> QED
    BY <1>1, <1>3, <2>1 DEF Commas
<1>5. hotspots = Joined(lists)
  OBVIOUS
<1> HIDE DEF n, h, first, second, third
<1> DEFINE t(i) == HotspotTexts(h(i))
<1>6. lists \in Seq(Seq(Texts)) /\ Range(lists) = {t(i) : i \in 1..n}
  <2>1. lists = [i \in 1..n |-> t(i)] /\ \A i \in 1..n : t(i) \in Seq(Texts)
    BY <1>3
  <2> HIDE DEF lists, t
  <2>2. DOMAIN lists = 1..n /\ \A i \in 1..n : lists[i] = t(i)
    BY <2>1
  <2>3. lists \in [1..n -> Seq(Texts)]
    BY <2>1
  <2>4. lists \in Seq(Seq(Texts))
    BY <1>1, <2>3
  <2> QED
    BY <2>2, <2>4 DEF Range
<1> HIDE DEF lists
<1>7. /\ Joined(lists) \in Seq(Texts)
      /\ Range(Joined(lists)) = UNION {Range(list) : list \in Range(lists)}
  BY <1>6, JoinedItems
<1> HIDE DEF t
<1>8. Range(Joined(lists)) = UNION {Range(t(i)) : i \in 1..n}
  BY <1>6, <1>7
<1>9. In(Range(Joined(lists))) = UNION {In(Range(t(i))) : i \in 1..n}
  BY <1>8 DEF In
<1>10. \A i \in 1..n : In(Range(t(i))) = (first(i) \cup second(i)) \cup third(i)
  BY <1>3 DEF t
<1>11. In(Range(Joined(lists))) = HotspotsAskFor(row)
  BY <1>2, <1>9, <1>10
<1>12. Commas(row) \/ Short(Range(Joined(lists)))
  BY <1>4, <1>8 DEF Short, t
<1> QED
  BY <1>5, <1>7, <1>11, <1>12

\* The value of a row has its talkgroups, each once unless a text has a comma.
LEMMA MasterValueItems ==
    ASSUME NEW row \in Row
    PROVE  /\ MasterValue(row) \in Seq(Pieces)
           /\ In({MasterValue(row)}) = Heard(row)
           /\ Commas(row) \/ ShownOnce(MasterValue(row))
<1> DEFINE one == StaticTgList(row.ts1_static)
           two == StaticTgList(row.TS1_STATIC)
           hotspots == Joined([i \in 1..Len(row.hotspots) |-> HotspotTexts(row.hotspots[i])])
           rest == NonEmpty(hotspots)
           both == one \o two
           all == both \o rest
           firsts == FirstOccurrences(all)
           value == Joined(firsts)
<1>1. MasterValue(row) = value
  BY DEF MasterValue
<1>2. row.ts1_static \in Field /\ row.TS1_STATIC \in Field
  BY DEF Row
<1>3. /\ one \in Seq(Texts) /\ In(Range(one)) = In(Range(row.ts1_static.of))
      /\ Commas(row) \/ Short(Range(one))
  BY <1>2, FieldItems DEF Commas, Fields
<1>4. /\ two \in Seq(Texts) /\ In(Range(two)) = In(Range(row.TS1_STATIC.of))
      /\ Commas(row) \/ Short(Range(two))
  BY <1>2, FieldItems DEF Commas, Fields
<1>5. /\ hotspots \in Seq(Texts) /\ In(Range(hotspots)) = HotspotsAskFor(row)
      /\ Commas(row) \/ Short(Range(hotspots))
  BY HotspotsItems
<1> HIDE DEF one, two, hotspots
<1>6. /\ rest \in Seq(Texts) /\ In(Range(rest)) = HotspotsAskFor(row)
      /\ Commas(row) \/ Short(Range(rest))
  BY <1>5, NonEmptyItems
<1>7. /\ both \in Seq(Texts)
      /\ In(Range(both)) = In(Range(one)) \cup In(Range(two))
      /\ Short(Range(one)) /\ Short(Range(two)) => Short(Range(both))
  BY <1>3, <1>4, ConcatTexts
<1> HIDE DEF rest, both
<1>8. /\ all \in Seq(Texts)
      /\ In(Range(all)) = In(Range(both)) \cup In(Range(rest))
      /\ Short(Range(both)) /\ Short(Range(rest)) => Short(Range(all))
  BY <1>6, <1>7, ConcatTexts
<1>9. In(OwnTexts(row)) = In(Range(one)) \cup In(Range(two))
  <2>1. OwnTexts(row) = Range(row.ts1_static.of) \cup Range(row.TS1_STATIC.of)
    BY DEF OwnTexts, Fields
  <2>2. In(Range(row.ts1_static.of) \cup Range(row.TS1_STATIC.of))
           = In(Range(row.ts1_static.of)) \cup In(Range(row.TS1_STATIC.of))
    BY InSets, Zenon
  <2> QED
    BY <1>3, <1>4, <2>1, <2>2
<1> HIDE DEF all
<1>10. /\ firsts \in Seq(Texts) /\ Range(firsts) = Range(all) /\ NoneTwice(firsts)
  BY <1>8, FirstItems
<1> HIDE DEF firsts
<1>11. firsts \in Seq(Seq(Pieces)) /\ \A i \in DOMAIN firsts : firsts[i] \in Seq(Pieces)
  BY <1>10 DEF Texts
<1>12. /\ value \in Seq(Pieces)
       /\ Range(value) = UNION {Range(text) : text \in Range(firsts)}
       /\ (\A i \in DOMAIN firsts : Len(firsts[i]) = 1) =>
             /\ DOMAIN value = DOMAIN firsts
             /\ \A i \in DOMAIN firsts : value[i] = firsts[i][1]
  BY <1>11, JoinedItems
<1> HIDE DEF value
<1>13. In({value}) = In(Range(firsts))
  BY <1>12 DEF In
<1>14. In({value}) = Heard(row)
  BY <1>6, <1>7, <1>8, <1>9, <1>10, <1>13 DEF Heard
<1>15. ASSUME ~Commas(row)
       PROVE  ShownOnce(value)
  <2>1. Short(Range(firsts))
    BY <1>3, <1>4, <1>6, <1>7, <1>8, <1>10, <1>15
  <2>2. \A i \in DOMAIN firsts : Len(firsts[i]) = 1
    BY <2>1 DEF Short, Range
  <2>3. /\ DOMAIN value = DOMAIN firsts
        /\ \A i \in DOMAIN firsts : value[i] = firsts[i][1]
    BY <1>12, <2>2
  <2>4. ASSUME NEW i \in DOMAIN firsts, NEW j \in DOMAIN firsts, value[i] = value[j]
        PROVE  i = j
    <3>1. firsts[i][1] = firsts[j][1]
      BY <2>3, <2>4
    <3>2. /\ firsts[i] \in Seq(Pieces) /\ firsts[j] \in Seq(Pieces)
          /\ Len(firsts[i]) = 1 /\ Len(firsts[j]) = 1
      BY <1>11, <2>2
    <3>3. firsts[i] = firsts[j]
      BY <3>1, <3>2
    <3> QED
      BY <1>10, <3>3 DEF NoneTwice
  <2> QED
    BY <2>3, <2>4 DEF ShownOnce
<1> QED
  BY <1>1, <1>12, <1>14, <1>15

-----------------------------------------------------------------------------
(* Documents. *)

\* What rows account for: their talkgroups, each once unless a text has a comma.
Accounted(value, rows) ==
    /\ value \in Seq(Pieces)
    /\ In({value}) \subseteq UNION {Heard(row) : row \in rows}
    /\ ShownOnce(value) \/ \E row \in rows : Commas(row)

\* A row accounts for its own value.
LEMMA RowAccounts ==
    ASSUME NEW row \in Row, NEW rows, row \in rows
    PROVE  Accounted(MasterValue(row), rows)
<1>1. Heard(row) \subseteq UNION {Heard(r) : r \in rows}
  OBVIOUS
<1> QED
  BY <1>1, MasterValueItems DEF Accounted

\* A known master without a row has no talkgroups.
LEMMA ShellAccounted ==
    ASSUME NEW isKnown \in BOOLEAN, NEW rows
    PROVE  Shell(isKnown) = Absent \/ Accounted(Shell(isKnown), rows)
<1>1. In({<<>>}) = {} /\ <<>> \in Seq(Pieces) /\ ShownOnce(<<>>)
  BY Empty DEF In, ShownOnce
<1> QED
  BY <1>1 DEF Shell, Accounted

\* The row that a dashboard document shows.
LEMMA WithTopologyRow ==
    ASSUME TypeOK, NEW row \in Rows
    PROVE  /\ WithTopologyField(row) \in Row
           /\ In(Range(row.TS1_STATIC.of)) \cup HotspotsAskFor(row)
                 \subseteq Heard(WithTopologyField(row))
           /\ topology \in Rows =>
                 In(Range(topology.ts1_static.of)) \subseteq Heard(WithTopologyField(row))
           /\ Heard(WithTopologyField(row)) \subseteq
                 UNION {Heard(r) : r \in {topology, row} \ {Unseen, Omitted}}
           /\ Commas(WithTopologyField(row)) =>
                 \E r \in {topology, row} \ {Unseen, Omitted} : Commas(r)
<1> DEFINE both == WithTopologyField(row)
           rows == {topology, row} \ {Unseen, Omitted}
<1>1. /\ row \in Row /\ row \in rows
      /\ row.ts1_static \in Field /\ row.TS1_STATIC \in Field /\ row.hotspots \in Seq(Hotspot)
  BY RowTypes, NoRow DEF Row
<1>2. /\ In(OwnTexts(row)) = In(Range(row.ts1_static.of)) \cup In(Range(row.TS1_STATIC.of))
      /\ In(OwnTexts(both)) = In(Range(both.ts1_static.of)) \cup In(Range(both.TS1_STATIC.of))
      /\ In(OwnTexts(topology)) =
            In(Range(topology.ts1_static.of)) \cup In(Range(topology.TS1_STATIC.of))
  <2>1. ASSUME NEW r
        PROVE  In(OwnTexts(r)) = In(Range(r.ts1_static.of)) \cup In(Range(r.TS1_STATIC.of))
    <3>1. OwnTexts(r) = Range(r.ts1_static.of) \cup Range(r.TS1_STATIC.of)
      BY DEF OwnTexts, Fields
    <3>2. In(Range(r.ts1_static.of) \cup Range(r.TS1_STATIC.of))
             = In(Range(r.ts1_static.of)) \cup In(Range(r.TS1_STATIC.of))
      BY InSets, Zenon
    <3> QED
      BY <3>1, <3>2
  <2> HIDE DEF both
  <2> QED
    BY <2>1, Zenon
<1>3. CASE topology \notin {Unseen, Omitted} /\ topology.ts1_static.is # "missing"
  <2>1. topology \in Rows /\ topology \in Row /\ topology \in rows
    BY <1>3, RowTypes DEF TypeOK
  <2>2. both = [row EXCEPT !.ts1_static = topology.ts1_static]
    BY <1>3 DEF WithTopologyField
  <2>3. /\ both \in Row /\ both.ts1_static = topology.ts1_static
        /\ both.TS1_STATIC = row.TS1_STATIC /\ both.hotspots = row.hotspots
    BY <1>1, <2>1, <2>2 DEF Row
  <2> HIDE DEF both
  <2>4. HotspotsAskFor(both) = HotspotsAskFor(row) /\ HotspotFields(both) = HotspotFields(row)
    BY <2>3 DEF HotspotsAskFor, HotspotFields
  <2>5. Heard(both) = (In(Range(topology.ts1_static.of)) \cup In(Range(row.TS1_STATIC.of)))
                         \cup HotspotsAskFor(row)
    BY <1>2, <2>3, <2>4 DEF Heard
  <2>6. Heard(both) \subseteq Heard(topology) \cup Heard(row)
    BY <1>2, <2>5 DEF Heard
  <2>7. Commas(both) => Commas(topology) \/ Commas(row)
    BY <2>3, <2>4 DEF Commas, Fields
  <2> HIDE DEF rows
  <2>8. Heard(topology) \cup Heard(row) \subseteq UNION {Heard(r) : r \in rows}
    BY <1>1, <2>1
  <2>9. Commas(both) => \E r \in rows : Commas(r)
    BY <1>1, <2>1, <2>7
  <2> QED
    BY <2>3, <2>5, <2>6, <2>8, <2>9 DEF both, rows
<1>4. CASE ~(topology \notin {Unseen, Omitted} /\ topology.ts1_static.is # "missing")
  <2>1. both = row
    BY <1>4 DEF WithTopologyField
  <2>2. topology \in Rows => In(Range(topology.ts1_static.of)) = {}
    <3>1. SUFFICES ASSUME topology \in Rows
                   PROVE  In(Range(topology.ts1_static.of)) = {}
      OBVIOUS
    <3>2. topology.ts1_static \in Field /\ topology.ts1_static.is = "missing"
      BY <1>4, <3>1, RowTypes, NoRow DEF Row
    <3>3. topology.ts1_static.of = <<>>
      BY <3>2 DEF Field
    <3> QED
      BY <3>3, Empty, InSets
  <2>3. In(Range(row.TS1_STATIC.of)) \cup HotspotsAskFor(row) \subseteq Heard(row)
    BY <1>2 DEF Heard
  <2> HIDE DEF both, rows
  <2>4. Heard(row) \subseteq UNION {Heard(r) : r \in rows}
    BY <1>1
  <2> QED
    BY <1>1, <2>1, <2>2, <2>3, <2>4 DEF both, rows
<1> QED
  BY <1>3, <1>4

\* The value of a dashboard document, unless it is the one that was shown.
LEMMA DashboardAccounted ==
    ASSUME TypeOK, NEW row \in Rows \cup {Omitted}, NEW isKnown \in BOOLEAN,
           NEW value, value = FromDashboard(row, isKnown)
    PROVE  \/ value = shown /\ topology = Unseen /\ row = Omitted /\ shown # Absent
           \/ value = Absent
           \/ Accounted(value, {topology, row} \ {Unseen, Omitted})
<1> DEFINE rows == {topology, row} \ {Unseen, Omitted}
<1>1. CASE row # Omitted
  <2>1. row \in Rows
    BY <1>1
  <2>2. value = MasterValue(WithTopologyField(row))
    BY <1>1 DEF FromDashboard
  <2> DEFINE both == WithTopologyField(row)
  <2>3. both \in Row /\ Heard(both) \subseteq UNION {Heard(r) : r \in rows}
    BY <2>1, WithTopologyRow
  <2>4. Commas(both) => \E r \in rows : Commas(r)
    BY <2>1, WithTopologyRow
  <2> HIDE DEF both, rows
  <2>5. Accounted(MasterValue(both), rows)
    BY <2>3, <2>4, MasterValueItems DEF Accounted
  <2> QED
    BY <2>2, <2>5 DEF both, rows
<1>2. CASE row = Omitted /\ topology \notin {Unseen, Omitted}
  <2>1. value = MasterValue(topology)
    BY <1>2 DEF FromDashboard
  <2>2. topology \in Row /\ topology \in rows
    BY <1>2, RowTypes DEF TypeOK
  <2> HIDE DEF rows
  <2> QED
    BY <2>1, <2>2, RowAccounts DEF rows
<1>3. CASE row = Omitted /\ topology = Unseen /\ shown # Absent
  BY <1>3 DEF FromDashboard
<1>4. CASE row = Omitted /\ topology \in {Unseen, Omitted} /\ ~(topology = Unseen /\ shown # Absent)
  <2>1. value = Shell(isKnown)
    BY <1>4 DEF FromDashboard
  <2> QED
    BY <2>1, ShellAccounted
<1> QED
  BY <1>1, <1>2, <1>3, <1>4

\* What is shown is accounted for by the documents, or was shown before.
Inductive ==
    /\ TypeOK
    /\ shown # Absent =>
          \/ topology = Unseen /\ dashboard = Omitted
          \/ Accounted(shown, Documents)

\* The dashboard document, or the last one again.
LEMMA DashboardShown ==
    ASSUME Inductive,
           topology' = topology, dashboard' \in Rows \cup {Omitted},
           NEW isKnown \in BOOLEAN, shown' = FromDashboard(dashboard', isKnown),
           known' \in BOOLEAN, shown' # Absent => known'
    PROVE  Inductive'
<1> DEFINE row == dashboard'
           value == shown'
           docs == {topology, row} \ {Unseen, Omitted}
<1>1. Documents' = docs /\ TypeOK
  BY DEF Documents, Inductive
<1>2. row \in Rows \cup {Omitted} /\ value = FromDashboard(row, isKnown)
  OBVIOUS
<1>3. \/ value = shown /\ topology = Unseen /\ row = Omitted /\ shown # Absent
      \/ value = Absent
      \/ Accounted(value, docs)
  BY <1>1, <1>2, DashboardAccounted
<1>4. value = Absent \/ value \in Seq(Pieces)
  BY <1>3 DEF Inductive, TypeOK, Accounted
<1>5. TypeOK'
  BY <1>4 DEF Inductive, TypeOK
<1>6. /\ value # Absent =>
            \/ topology = Unseen /\ row = Omitted
            \/ Accounted(value, docs)
  BY <1>3
<1>7. (shown # Absent =>
          \/ topology = Unseen /\ dashboard = Omitted
          \/ Accounted(shown, Documents))'
  <2> HIDE DEF docs
  <2>1. topology' = topology /\ Documents' = docs
    BY <1>1
  <2> QED
    BY <1>6, <2>1 DEF Accounted, ShownOnce, Commas, Heard
<1> QED
  BY <1>5, <1>7 DEF Inductive

\* Every document keeps it.
LEMMA InductiveStep ==
    ASSUME Inductive, [Next]_vars
    PROVE  Inductive'
<1>1. ASSUME NEW row \in Rows \cup {Omitted}, StateSnd(row)
      PROVE  Inductive'
  <2>1. /\ topology' = topology /\ dashboard' = row
        /\ shown' = FromDashboard(dashboard', known) /\ known \in BOOLEAN
        /\ known' \in BOOLEAN /\ (shown' # Absent => known')
    BY <1>1 DEF StateSnd, Inductive, TypeOK
  <2> QED
    BY <2>1, DashboardShown
<1>2. ASSUME NEW row \in Rows \cup {Omitted}, NewTopology(row)
      PROVE  Inductive'
  <2>1. /\ topology' = row /\ dashboard' = dashboard /\ known \in BOOLEAN
        /\ shown' = IF row # Omitted THEN MasterValue(row) ELSE Shell(known)
        /\ known' \in BOOLEAN /\ (shown' # Absent => known')
    BY <1>2 DEF NewTopology, Inductive, TypeOK
  <2> DEFINE docs == {row, dashboard} \ {Unseen, Omitted}
  <2>2. Documents' = docs
    BY <2>1 DEF Documents
  <2>3. row # Omitted => row \in Row /\ row \in docs
    BY RowTypes, NoRow
  <2> DEFINE value == shown'
  <2>4. value = Absent \/ Accounted(value, docs)
    <3>1. CASE row # Omitted
      BY <2>1, <2>3, <3>1, RowAccounts
    <3>2. CASE row = Omitted
      BY <2>1, <3>2, ShellAccounted
    <3> QED
      BY <3>1, <3>2
  <2>5. TypeOK'
    BY <2>1, <2>4 DEF Inductive, TypeOK, Accounted
  <2> HIDE DEF docs
  <2>6. (shown # Absent => Accounted(shown, Documents))'
    BY <2>2, <2>4 DEF Accounted, ShownOnce, Commas, Heard
  <2> QED
    BY <2>5, <2>6 DEF Inductive
<1>3. ASSUME NewRouting
      PROVE  Inductive'
  <2>1. CASE dashboard = Unseen
    <3>1. UNCHANGED <<topology, dashboard, shown>> /\ known' = TRUE
      BY <1>3, <2>1 DEF NewRouting
    <3> QED
      BY <3>1 DEF Inductive, TypeOK, Documents, Accounted, ShownOnce, Commas, Heard
  <2>2. CASE dashboard # Unseen
    <3>1. /\ topology' = topology /\ dashboard' \in Rows \cup {Omitted}
          /\ shown' = FromDashboard(dashboard', TRUE) /\ known' = TRUE
      BY <1>3, <2>2 DEF NewRouting, Inductive, TypeOK
    <3>2. TRUE \in BOOLEAN
      OBVIOUS
    <3> QED
      BY <3>1, <3>2, DashboardShown
  <2> QED
    BY <2>1, <2>2
<1>4. CASE UNCHANGED vars
  BY <1>4 DEF vars, Inductive, TypeOK, Documents, Accounted, ShownOnce, Commas, Heard
<1> QED
  BY <1>1, <1>2, <1>3, <1>4 DEF Next

\* TypeOK, and what the documents account for, in every reachable state.
LEMMA InductiveHolds ==
    Spec => []Inductive
<1>1. Init => Inductive
  BY DEF Init, Inductive, TypeOK
<1>2. Inductive /\ [Next]_vars => Inductive'
  BY InductiveStep
<1> QED
  BY <1>1, <1>2, PTL DEF Spec

-----------------------------------------------------------------------------
(* The theorems. *)

\* The value is False, a string of pieces, or not there; it is there for known
\* masters only.
THEOREM StaticTypes ==
    Spec => []TypeOK
<1>1. Inductive => TypeOK
  BY DEF Inductive
<1> QED
  BY <1>1, InductiveHolds, PTL

\* Only an omitted master without a cached topology shows talkgroups that no document
\* declares any more (dashboard_state_to_config).
THEOREM StaleTalkgroups ==
    Spec => []StaleOnlyWithoutTopology
<1>1. Inductive => StaleOnlyWithoutTopology
  BY DEF Inductive, StaleOnlyWithoutTopology, Accounted, Heard
<1> QED
  BY <1>1, InductiveHolds, PTL

\* Only texts with a comma bring a talkgroup twice (_merge_static_tg_lists).
THEOREM TalkgroupsOnce ==
    Spec => []TwiceOnlyByCommas
<1>1. Inductive => TwiceOnlyByCommas
  BY DEF Inductive, TwiceOnlyByCommas, Accounted, ShownOnce, Commas, Unsplit, CommaOption
<1> QED
  BY <1>1, InductiveHolds, PTL

\* A dashboard document with a row shows that row, with the topology's own field.
LEMMA RowShown ==
    ASSUME TypeOK, NEW row \in Rows, StateSnd(row)
    PROVE  In({shown'}) = Heard(WithTopologyField(row))
<1>1. shown' = MasterValue(WithTopologyField(row))
  BY NoRow DEF StateSnd, FromDashboard
<1>2. WithTopologyField(row) \in Row
  BY WithTopologyRow
<1> QED
  BY <1>1, <1>2, MasterValueItems

\* No hotspot's talkgroup is lost (_apply_legacy_master_static_tgs).
THEOREM HotspotTalkgroups ==
    Spec => HotspotsAreHeard
<1>1. ASSUME TypeOK, dashboard' \in Rows, StateSnd(dashboard')
      PROVE  HotspotsAskFor(dashboard') \cup In(Range(dashboard'.TS1_STATIC.of))
                \subseteq In({shown'})
  <2> DEFINE row == dashboard'
  <2>1. row \in Rows /\ StateSnd(row)
    BY <1>1
  <2> HIDE DEF row
  <2>2. HotspotsAskFor(row) \cup In(Range(row.TS1_STATIC.of)) \subseteq In({shown'})
    BY <1>1, <2>1, RowShown, WithTopologyRow
  <2> QED
    BY <2>2 DEF row
<1> QED
  BY <1>1, StaticTypes, PTL DEF HotspotsAreHeard

\* A slim document does not take a master's own talkgroups away
\* (_merge_master_row_with_topology).
THEOREM SlimStates ==
    Spec => SlimStateKeepsTalkgroups
<1>1. ASSUME TypeOK, dashboard' \in Rows, topology \in Rows, StateSnd(dashboard')
      PROVE  In(Range(topology.ts1_static.of)) \subseteq In({shown'})
  <2> DEFINE row == dashboard'
  <2>1. row \in Rows /\ StateSnd(row)
    BY <1>1
  <2> HIDE DEF row
  <2> QED
    BY <1>1, <2>1, RowShown, WithTopologyRow
<1> QED
  BY <1>1, StaticTypes, PTL DEF SlimStateKeepsTalkgroups
================================================================================
