--------------------------- MODULE UaSessions_proofs ---------------------------
(******************************************************************************)
(* The merge of user-activated sessions, for every routing table and every    *)
(* list of sessions: legs do not multiply, every live session is shown, and   *)
(* the legs of nobody's session stay what and where they were.                *)
(******************************************************************************)
EXTENDS UaSessions, NatLemmas, FiniteSetTheorems

-----------------------------------------------------------------------------
(* One session and the legs of its table. *)

\* The legs of a session in a list.
Mine(legs, session) == {i \in DOMAIN legs : Matches(legs[i], session)}

\* No leg more, or a single one where there was none.
Grown(A, B) == B = A \/ (A = {} /\ \E i : B = {i})

\* The first leg of the session shows it.
IsShown(legs, session, i, expires) ==
    /\ i \in Mine(legs, session)
    /\ \A first \in Mine(legs, session) : i <= first
    /\ legs[i].active /\ legs[i].tgid = session.tgid /\ legs[i].timer = expires

\* Every leg has a trigger talkgroup.
Triggered(legs) == \A i \in DOMAIN legs : legs[i].on # <<>>

\* The empty sequence.
LEMMA Empty ==
    ASSUME NEW S
    PROVE  <<>> \in Seq(S) /\ DOMAIN <<>> = {}
  OBVIOUS

\* The leg made for a session is its.
LEMMA LegOfSession ==
    ASSUME NEW session \in SessionRows
    PROVE  /\ LegOf(session) \in Legs
           /\ Matches(LegOf(session), session)
           /\ LegOf(session).active
           /\ LegOf(session).tgid = session.tgid
           /\ LegOf(session).timer = session.expires
           /\ LegOf(session).on # <<>>
<1>1. session.tgid \in Int /\ <<session.tgid>> \in Seq(Int) /\ <<session.tgid>> # <<>>
  BY DEF SessionRows
<1> QED
  BY <1>1 DEF LegOf, Legs, SessionRows, Matches

\* A session without a leg gets one at the end.
LEMMA LegAdded ==
    ASSUME NEW legs \in Seq(Legs), NEW session \in SessionRows, Mine(legs, session) = {}
    PROVE  /\ WithSession(legs, session) = Append(legs, LegOf(session))
           /\ WithSession(legs, session) \in Seq(Legs)
           /\ Len(WithSession(legs, session)) = Len(legs) + 1
           /\ \A i \in 1..Len(legs) : WithSession(legs, session)[i] = legs[i]
           /\ WithSession(legs, session)[Len(legs) + 1] = LegOf(session)
<1>1. WithSession(legs, session) = Append(legs, LegOf(session))
  BY DEF WithSession, Mine
<1> QED
  BY <1>1, LegOfSession, AppendProperties

\* A session with legs turns the first of them ON and changes no other.
LEMMA LegTurnedOn ==
    ASSUME NEW legs \in Seq(Legs), NEW session \in SessionRows, Mine(legs, session) # {}
    PROVE  \E p \in Mine(legs, session) :
              /\ \A i \in Mine(legs, session) : p <= i
              /\ WithSession(legs, session) \in Seq(Legs)
              /\ Len(WithSession(legs, session)) = Len(legs)
              /\ \A i \in 1..Len(legs) : i # p => WithSession(legs, session)[i] = legs[i]
              /\ WithSession(legs, session)[p] =
                    [legs[p] EXCEPT !.tgid = session.tgid, !.active = TRUE,
                                    !.timer = session.expires]
<1> DEFINE own == {i \in DOMAIN legs : Matches(legs[i], session)}
           p == CHOOSE i \in own : \A j \in own : i <= j
           new == WithSession(legs, session)
<1>1. own = Mine(legs, session) /\ own # {}
  BY DEF Mine
<1>2. Len(legs) \in Nat /\ DOMAIN legs = 1..Len(legs)
  BY LenProperties
<1>3. new = [legs EXCEPT ![p] = [@ EXCEPT !.tgid = session.tgid, !.active = TRUE,
                                          !.timer = session.expires]]
  BY <1>1 DEF WithSession
<1>4. p \in own /\ \A j \in own : p <= j
  <2>1. own \subseteq Nat
    BY <1>2
  <2>2. \E i \in own : \A j \in own : i <= j
    BY <1>1, <2>1, LeastNatural
  <2> QED
    BY <2>2
<1> HIDE DEF p, new
<1>5. p \in 1..Len(legs) /\ legs[p] \in Legs
  BY <1>2, <1>4
<1>6. [legs[p] EXCEPT !.tgid = session.tgid, !.active = TRUE,
                      !.timer = session.expires] \in Legs
  BY <1>5 DEF Legs, SessionRows
<1>7. /\ new \in Seq(Legs) /\ Len(new) = Len(legs)
      /\ \A i \in 1..Len(legs) : i # p => new[i] = legs[i]
      /\ new[p] = [legs[p] EXCEPT !.tgid = session.tgid, !.active = TRUE,
                                  !.timer = session.expires]
  <2>1. \A e \in Legs : /\ [legs EXCEPT ![p] = e] \in Seq(Legs)
                        /\ Len([legs EXCEPT ![p] = e]) = Len(legs)
                        /\ \A i \in 1..Len(legs) : i # p => [legs EXCEPT ![p] = e][i] = legs[i]
                        /\ [legs EXCEPT ![p] = e][p] = e
    BY <1>2, <1>5, ExceptSeq
  <2> QED
    BY <1>3, <1>6, <2>1
<1> QED
  BY <1>1, <1>4, <1>7 DEF new

\* What a session does to the legs of its table.
LEMMA WithSessionLegs ==
    ASSUME NEW legs \in Seq(Legs), NEW session \in SessionRows
    PROVE  LET new == WithSession(legs, session)
           IN  /\ new \in Seq(Legs)
               /\ Triggered(legs) => Triggered(new)
               /\ \E i : IsShown(new, session, i, session.expires)
               /\ Grown(Mine(legs, session), Mine(new, session))
               /\ \A i : i \in DOMAIN legs /\ ~Matches(legs[i], session)
                         <=> i \in DOMAIN new /\ ~Matches(new[i], session)
               /\ \A i \in DOMAIN legs : ~Matches(legs[i], session) => new[i] = legs[i]
<1> DEFINE new == WithSession(legs, session)
<1>0. Len(legs) \in Nat /\ DOMAIN legs = 1..Len(legs)
  BY LenProperties
<1>1. CASE Mine(legs, session) = {}
  <2>1. /\ new \in Seq(Legs) /\ Len(new) = Len(legs) + 1
        /\ \A i \in 1..Len(legs) : new[i] = legs[i]
        /\ new[Len(legs) + 1] = LegOf(session)
    BY <1>1, LegAdded
  <2> HIDE DEF new
  <2>2. DOMAIN new = 1..(Len(legs) + 1)
    BY <2>1, LenProperties
  <2>3. /\ Matches(new[Len(legs) + 1], session)
        /\ new[Len(legs) + 1].active
        /\ new[Len(legs) + 1].tgid = session.tgid
        /\ new[Len(legs) + 1].timer = session.expires
        /\ new[Len(legs) + 1].on # <<>>
    BY <2>1, LegOfSession
  <2>4. \A i \in 1..Len(legs) : ~Matches(legs[i], session)
    BY <1>0, <1>1 DEF Mine
  <2>5. \A i \in 1..(Len(legs) + 1) : i \in 1..Len(legs) \/ i = Len(legs) + 1
    BY <1>0
  <2>6. Mine(new, session) = {Len(legs) + 1}
    BY <1>0, <2>1, <2>2, <2>3, <2>4, <2>5 DEF Mine
  <2>7. IsShown(new, session, Len(legs) + 1, session.expires)
    BY <1>0, <2>3, <2>6 DEF IsShown
  <2>8. Triggered(legs) => Triggered(new)
    BY <1>0, <2>1, <2>2, <2>3, <2>5 DEF Triggered
  <2>9. /\ \A i : i \in DOMAIN legs /\ ~Matches(legs[i], session)
                  <=> i \in DOMAIN new /\ ~Matches(new[i], session)
        /\ \A i \in DOMAIN legs : ~Matches(legs[i], session) => new[i] = legs[i]
    BY <1>0, <2>1, <2>2, <2>3, <2>5
  <2> QED
    BY <1>1, <2>1, <2>6, <2>7, <2>8, <2>9 DEF Grown, new
<1>2. CASE Mine(legs, session) # {}
  <2>1. PICK p \in Mine(legs, session) :
              /\ \A i \in Mine(legs, session) : p <= i
              /\ new \in Seq(Legs)
              /\ Len(new) = Len(legs)
              /\ \A i \in 1..Len(legs) : i # p => new[i] = legs[i]
              /\ new[p] = [legs[p] EXCEPT !.tgid = session.tgid, !.active = TRUE,
                                          !.timer = session.expires]
    BY <1>2, LegTurnedOn
  <2> HIDE DEF new
  <2>2. DOMAIN new = 1..Len(legs)
    BY <2>1, LenProperties
  <2>3. p \in 1..Len(legs) /\ legs[p] \in Legs /\ Matches(legs[p], session)
    BY <1>0, <2>1 DEF Mine
  <2>4. /\ new[p].system = legs[p].system /\ new[p].ts = legs[p].ts
        /\ new[p].on = legs[p].on
        /\ new[p].active /\ new[p].tgid = session.tgid /\ new[p].timer = session.expires
    BY <2>1, <2>3 DEF Legs
  <2>5. \A i \in 1..Len(legs) : Matches(new[i], session) <=> Matches(legs[i], session)
    BY <2>1, <2>4 DEF Matches
  <2>6. Mine(new, session) = Mine(legs, session)
    BY <1>0, <2>2, <2>5 DEF Mine
  <2>7. IsShown(new, session, p, session.expires)
    BY <2>1, <2>4, <2>6 DEF IsShown
  <2>8. Triggered(legs) => Triggered(new)
    BY <1>0, <2>1, <2>2, <2>4 DEF Triggered
  <2>9. /\ \A i : i \in DOMAIN legs /\ ~Matches(legs[i], session)
                  <=> i \in DOMAIN new /\ ~Matches(new[i], session)
        /\ \A i \in DOMAIN legs : ~Matches(legs[i], session) => new[i] = legs[i]
    BY <1>0, <2>1, <2>2, <2>3, <2>5
  <2> QED
    BY <2>1, <2>6, <2>7, <2>8, <2>9 DEF Grown, new
<1> QED
  BY <1>1, <1>2

\* Legs of other places are untouched.
LEMMA OtherPlaceUntouched ==
    ASSUME NEW legs \in Seq(Legs), NEW session \in SessionRows, NEW other \in SessionRows,
           other.system # session.system \/ other.slot # session.slot
    PROVE  LET new == WithSession(legs, session)
           IN  /\ Mine(new, other) = Mine(legs, other)
               /\ \A i \in Mine(legs, other) : new[i] = legs[i]
<1> DEFINE new == WithSession(legs, session)
<1>1. /\ \A i : i \in DOMAIN legs /\ ~Matches(legs[i], session)
                <=> i \in DOMAIN new /\ ~Matches(new[i], session)
      /\ \A i \in DOMAIN legs : ~Matches(legs[i], session) => new[i] = legs[i]
  BY WithSessionLegs
<1> HIDE DEF new
<1>2. \A leg : Matches(leg, other) => ~Matches(leg, session)
  BY DEF Matches
<1>3. ASSUME NEW i
      PROVE  /\ i \in Mine(legs, other) <=> i \in Mine(new, other)
             /\ i \in Mine(legs, other) => new[i] = legs[i]
  BY <1>1, <1>2 DEF Mine
<1> QED
  BY <1>3 DEF new

-----------------------------------------------------------------------------
(* One session and the tables. *)

Tables == UNION {[S -> Seq(Legs)] : S \in SUBSET Int}

AllTriggered(tables) == \A k \in DOMAIN tables : Triggered(tables[k])

\* The legs of table k, none if there is no such table.
TableOf(tables, k) == IF k \in DOMAIN tables THEN tables[k] ELSE <<>>

\* Own is Mine of the talkgroup's table.
LEMMA OwnIsMine ==
    ASSUME NEW tables, NEW session
    PROVE  Own(tables, session) = Mine(TableOf(tables, session.tgid), session)
<1>1. CASE session.tgid \in DOMAIN tables
  BY <1>1 DEF Own, Mine, TableOf
<1>2. CASE session.tgid \notin DOMAIN tables
  BY <1>2, Empty DEF Own, Mine, TableOf
<1> QED
  BY <1>1, <1>2

\* Finalizing gives every leg a trigger talkgroup and changes nothing else.
LEMMA FinalizedLegs ==
    ASSUME NEW legs \in Seq(Legs)
    PROVE  LET new == [i \in DOMAIN legs |-> Finalized(legs[i])]
           IN  /\ new \in Seq(Legs) /\ DOMAIN new = DOMAIN legs
               /\ Triggered(new)
               /\ Triggered(legs) => \A i \in DOMAIN legs : new[i] = legs[i]
               /\ \A session : Mine(new, session) = Mine(legs, session)
<1> DEFINE new == [i \in DOMAIN legs |-> Finalized(legs[i])]
<1>1. Len(legs) \in Nat /\ DOMAIN legs = 1..Len(legs) /\ \A i \in DOMAIN legs : legs[i] \in Legs
  BY LenProperties
<1>2. ASSUME NEW leg \in Legs
      PROVE  /\ Finalized(leg) \in Legs /\ Finalized(leg).on # <<>>
             /\ Finalized(leg).system = leg.system /\ Finalized(leg).ts = leg.ts
             /\ leg.on # <<>> => Finalized(leg) = leg
  <2>1. leg.tgid \in Int /\ <<leg.tgid>> \in Seq(Int) /\ <<leg.tgid>> # <<>>
    BY DEF Legs
  <2> QED
    BY <2>1 DEF Finalized, Legs
<1>3. new \in Seq(Legs)
  <2>1. new = [i \in 1..Len(legs) |-> Finalized(legs[i])]
    BY <1>1
  <2>2. \A i \in 1..Len(legs) : Finalized(legs[i]) \in Legs
    BY <1>1, <1>2
  <2> QED
    BY <1>1, <2>1, <2>2, SeqDef
<1>4. DOMAIN new = DOMAIN legs /\ \A i \in DOMAIN legs : new[i] = Finalized(legs[i])
  OBVIOUS
<1> HIDE DEF new
<1>5. Triggered(new)
  BY <1>1, <1>2, <1>4 DEF Triggered
<1>6. Triggered(legs) => \A i \in DOMAIN legs : new[i] = legs[i]
  BY <1>1, <1>2, <1>4 DEF Triggered
<1>7. ASSUME NEW session
      PROVE  Mine(new, session) = Mine(legs, session)
  BY <1>1, <1>2, <1>4 DEF Mine, Matches
<1> QED
  BY <1>3, <1>4, <1>5, <1>6, <1>7 DEF new

\* The tables as merging starts.
LEMMA FinalizedTablesType ==
    ASSUME NEW tables, IsTables(tables)
    PROVE  LET new == FinalizedTables(tables)
           IN  /\ new \in Tables
               /\ DOMAIN new = DOMAIN tables
               /\ AllTriggered(new)
               /\ \A session : Own(new, session) = Own(tables, session)
               /\ AllTriggered(tables) =>
                     \A k \in DOMAIN tables : /\ DOMAIN new[k] = DOMAIN tables[k]
                                              /\ \A i \in DOMAIN tables[k] : new[k][i] = tables[k][i]
<1> DEFINE new == FinalizedTables(tables)
           Fin(legs) == [i \in DOMAIN legs |-> Finalized(legs[i])]
<1>1. DOMAIN new = DOMAIN tables /\ \A k \in DOMAIN tables : new[k] = Fin(tables[k])
  BY DEF FinalizedTables
<1>2. DOMAIN tables \in SUBSET Int /\ \A k \in DOMAIN tables : tables[k] \in Seq(Legs)
  BY DEF IsTables
<1>3. ASSUME NEW k \in DOMAIN tables
      PROVE  /\ Fin(tables[k]) \in Seq(Legs) /\ DOMAIN Fin(tables[k]) = DOMAIN tables[k]
             /\ Triggered(Fin(tables[k]))
             /\ Triggered(tables[k]) => \A i \in DOMAIN tables[k] : Fin(tables[k])[i] = tables[k][i]
             /\ \A session : Mine(Fin(tables[k]), session) = Mine(tables[k], session)
  BY <1>2, FinalizedLegs
<1>4. new = [k \in DOMAIN tables |-> Fin(tables[k])]
  BY DEF FinalizedTables
<1> HIDE DEF Fin
<1>5. new \in Tables
  BY <1>2, <1>3, <1>4 DEF Tables
<1> HIDE DEF new
<1>6. AllTriggered(new)
  BY <1>1, <1>3 DEF AllTriggered
<1>7. ASSUME NEW session
      PROVE  Own(new, session) = Own(tables, session)
  BY <1>1, <1>3, OwnIsMine DEF TableOf
<1>8. AllTriggered(tables) =>
         \A k \in DOMAIN tables : /\ DOMAIN new[k] = DOMAIN tables[k]
                                  /\ \A i \in DOMAIN tables[k] : new[k][i] = tables[k][i]
  BY <1>1, <1>3 DEF AllTriggered
<1> QED
  BY <1>1, <1>5, <1>6, <1>7, <1>8 DEF new

\* A table of tables is one that IsTables accepts.
LEMMA TablesAreTables ==
    ASSUME NEW tables \in Tables
    PROVE  /\ IsTables(tables)
           /\ \A k : TableOf(tables, k) \in Seq(Legs)
<1>1. PICK S \in SUBSET Int : tables \in [S -> Seq(Legs)]
  BY DEF Tables
<1>2. <<>> \in Seq(Legs)
  BY Empty
<1> QED
  BY <1>1, <1>2 DEF IsTables, TableOf

\* One pass of the loop with a session that counts: the table of its talkgroup.
LEMMA MergeSessionTables ==
    ASSUME NEW tables \in Tables, NEW session \in SessionRows, Counts(session)
    PROVE  LET new == MergeSession(tables, session)
           IN  /\ new \in Tables
               /\ DOMAIN new = DOMAIN tables \cup {session.tgid}
               /\ \A k \in DOMAIN tables : k # session.tgid => new[k] = tables[k]
               /\ new[session.tgid] = WithSession(TableOf(tables, session.tgid), session)
<1> DEFINE new == MergeSession(tables, session)
           S == DOMAIN tables \cup {session.tgid}
<1>1. DOMAIN tables \subseteq Int /\ \A k : TableOf(tables, k) \in Seq(Legs)
  BY TablesAreTables DEF IsTables
<1>2. session.tgid \in Int
  BY DEF SessionRows
<1>3. new = [k \in S |-> IF k = session.tgid THEN WithSession(TableOf(tables, k), session)
                                             ELSE TableOf(tables, k)]
  BY DEF MergeSession, TableOf
<1>4. WithSession(TableOf(tables, session.tgid), session) \in Seq(Legs)
  BY <1>1, WithSessionLegs
<1>5. new \in [S -> Seq(Legs)] /\ S \in SUBSET Int
  BY <1>1, <1>2, <1>3, <1>4
<1>6. new \in Tables
  BY <1>5 DEF Tables
<1>7. \A k \in DOMAIN tables : k # session.tgid => new[k] = tables[k]
  BY <1>3 DEF TableOf
<1>8. new[session.tgid] = WithSession(TableOf(tables, session.tgid), session)
  BY <1>3
<1> QED
  BY <1>5, <1>6, <1>7, <1>8

\* A session that does not count changes nothing.
LEMMA SessionSkipped ==
    ASSUME NEW tables, NEW session, ~Counts(session)
    PROVE  MergeSession(tables, session) = tables
  BY DEF MergeSession

\* A pass keeps tables tables, and their legs triggered.
LEMMA MergeSessionType ==
    ASSUME NEW tables \in Tables, NEW session \in SessionRows
    PROVE  /\ MergeSession(tables, session) \in Tables
           /\ AllTriggered(tables) => AllTriggered(MergeSession(tables, session))
<1> DEFINE new == MergeSession(tables, session)
<1>1. CASE ~Counts(session)
  BY <1>1, SessionSkipped
<1>2. CASE Counts(session)
  <2>1. /\ new \in Tables
        /\ DOMAIN new = DOMAIN tables \cup {session.tgid}
        /\ \A k \in DOMAIN tables : k # session.tgid => new[k] = tables[k]
        /\ new[session.tgid] = WithSession(TableOf(tables, session.tgid), session)
    BY <1>2, MergeSessionTables
  <2> HIDE DEF new
  <2>2. AllTriggered(tables) => Triggered(TableOf(tables, session.tgid))
    BY Empty DEF AllTriggered, Triggered, TableOf
  <2>3. TableOf(tables, session.tgid) \in Seq(Legs)
    BY TablesAreTables
  <2>4. Triggered(TableOf(tables, session.tgid)) => Triggered(new[session.tgid])
    BY <2>1, <2>3, WithSessionLegs
  <2>5. AllTriggered(tables) => AllTriggered(new)
    BY <2>1, <2>2, <2>4 DEF AllTriggered
  <2> QED
    BY <2>1, <2>5 DEF new
<1> QED
  BY <1>1, <1>2

-----------------------------------------------------------------------------
(* All sessions: the tables after each pass of the loop. *)

IsRun(f, tables, sessions) ==
    /\ f \in [0..Len(sessions) -> Tables]
    /\ f[0] = FinalizedTables(tables)
    /\ \A i \in 1..Len(sessions) : f[i] = MergeSession(f[i - 1], sessions[i])
    /\ MergeUaSessions(tables, sessions) = f[Len(sessions)]

\* The recursion of MergeUaSessions has a solution.
LEMMA MergeRun ==
    ASSUME NEW tables, IsTables(tables), NEW sessions \in Seq(SessionRows)
    PROVE  \E f : IsRun(f, tables, sessions)
<1> DEFINE n == Len(sessions)
           a == FinalizedTables(tables)
           step == [ix \in (1..n) \X Tables |-> MergeSession(ix[2], sessions[ix[1]])]
           rec(f) == f = [i \in 0..n |-> IF i = 0 THEN FinalizedTables(tables)
                                         ELSE MergeSession(f[i - 1], sessions[i])]
<1> DEFINE h == CHOOSE f : rec(f)
<1>1. MergeUaSessions(tables, sessions) = h[n]
  BY DEF MergeUaSessions
<1>2. n \in Nat /\ \A i \in 1..n : sessions[i] \in SessionRows
  OBVIOUS
<1>3. a \in Tables
  BY FinalizedTablesType
<1>4. \A i \in 1..n, x \in Tables : MergeSession(x, sessions[i]) \in Tables
  BY <1>2, MergeSessionType
<1> HIDE DEF n
<1>5. /\ IsStep(step, n, Tables)
      /\ \A i \in 1..n, x \in Tables : step[<<i, x>>] = MergeSession(x, sessions[i])
  BY <1>4 DEF IsStep
<1> HIDE DEF step
<1>6. PICK g : IsRecursive(g, n, Tables, a, step)
  BY <1>2, <1>3, <1>5, RecursionOnNat
<1>7. /\ g \in [0..n -> Tables]
      /\ g[0] = a /\ \A i \in 1..n : g[i] = step[<<i, g[i - 1]>>]
  BY <1>6 DEF IsRecursive
<1>8. ASSUME NEW i \in 1..n
      PROVE  g[i] = MergeSession(g[i - 1], sessions[i])
  <2>1. g[i - 1] \in Tables
    BY <1>2, <1>7
  <2> QED
    BY <1>5, <1>7, <2>1
<1>9. rec(g)
  <2>1. \A i \in 0..n : g[i] = IF i = 0 THEN a ELSE MergeSession(g[i - 1], sessions[i])
    BY <1>2, <1>7, <1>8
  <2> QED
    BY <1>7, <2>1
<1>10. rec(h)
  BY <1>9
<1> HIDE DEF h
<1>11. DOMAIN h = 0..n /\ h = [i \in 0..n |-> h[i]]
  BY <1>10
<1>12. /\ h[0] = a
       /\ \A i \in 1..n : h[i] = MergeSession(h[i - 1], sessions[i])
  BY <1>2, <1>10
<1> HIDE DEF a
<1>13. \A k \in 0..n : h[k] = g[k]
  <2> DEFINE P == {k \in Nat : k <= n => h[k] = g[k]}
  <2>1. 0 \in P
    BY <1>7, <1>12
  <2>2. ASSUME NEW k \in Nat, k \in P
        PROVE  k + 1 \in P
    <3> SUFFICES ASSUME k + 1 <= n
                 PROVE  h[k + 1] = g[k + 1]
      OBVIOUS
    <3>1. h[k] = g[k] /\ k + 1 \in 1..n /\ (k + 1) - 1 = k
      BY <1>2, <2>2
    <3> QED
      BY <1>8, <1>12, <3>1
  <2>3. \A k \in Nat : k \in P
    BY <2>1, <2>2, NatInductSet
  <2> QED
    BY <1>2, <2>3
<1>14. h \in [0..n -> Tables]
  BY <1>7, <1>11, <1>13
<1>15. IsRun(h, tables, sessions)
  BY <1>1, <1>12, <1>14 DEF IsRun, n, a
<1> QED
  BY <1>15

\* What holds as merging starts and is kept by each pass holds at the end.
LEMMA RunInduction ==
    ASSUME NEW tables, NEW sessions \in Seq(SessionRows), NEW f, IsRun(f, tables, sessions),
           NEW Good, 0 \in Good,
           \A n \in Nat : n \in Good /\ n + 1 <= Len(sessions) => n + 1 \in Good
    PROVE  Len(sessions) \in Good
<1> DEFINE P == {n \in Nat : n <= Len(sessions) => n \in Good}
<1>1. Len(sessions) \in Nat
  BY LenProperties
<1>2. \A n \in Nat : n \in P
  <2>1. 0 \in P /\ \A n \in Nat : n \in P => n + 1 \in P
    BY <1>1
  <2> QED
    BY <2>1, NatInductSet
<1> QED
  BY <1>1, <1>2

\* The tables before and after a pass.
LEMMA RunStep ==
    ASSUME NEW tables, NEW sessions \in Seq(SessionRows), NEW f, IsRun(f, tables, sessions),
           NEW n \in Nat, n + 1 <= Len(sessions)
    PROVE  /\ f[n] \in Tables /\ f[n + 1] \in Tables
           /\ n + 1 \in 1..Len(sessions) /\ n + 1 \in DOMAIN sessions
           /\ sessions[n + 1] \in SessionRows
           /\ f[n + 1] = MergeSession(f[n], sessions[n + 1])
<1>1. Len(sessions) \in Nat /\ n \in 0..Len(sessions) /\ n + 1 \in 0..Len(sessions)
      /\ n + 1 \in 1..Len(sessions) /\ (n + 1) - 1 = n
  BY LenProperties
<1> QED
  BY <1>1 DEF IsRun

-----------------------------------------------------------------------------
(* Legs do not multiply. *)

\* Growing twice is growing.
LEMMA GrownTwice ==
    ASSUME NEW A, NEW B, NEW C, Grown(A, B), Grown(B, C)
    PROVE  Grown(A, C)
  BY DEF Grown

\* A pass.
LEMMA MergeSessionGrows ==
    ASSUME NEW tables \in Tables, NEW session \in SessionRows, NEW other \in SessionRows
    PROVE  Grown(Own(tables, other), Own(MergeSession(tables, session), other))
<1> DEFINE new == MergeSession(tables, session)
           legs == TableOf(tables, session.tgid)
<1>1. CASE ~Counts(session)
  BY <1>1, SessionSkipped DEF Grown
<1>2. CASE Counts(session)
  <2>1. /\ new \in Tables
        /\ DOMAIN new = DOMAIN tables \cup {session.tgid}
        /\ \A k \in DOMAIN tables : k # session.tgid => new[k] = tables[k]
        /\ new[session.tgid] = WithSession(legs, session)
    BY <1>2, MergeSessionTables
  <2>2. legs \in Seq(Legs)
    BY TablesAreTables
  <2> HIDE DEF new, legs
  <2>3. CASE other.tgid # session.tgid
    <3>1. TableOf(new, other.tgid) = TableOf(tables, other.tgid)
      BY <2>1, <2>3 DEF TableOf
    <3> QED
      BY <3>1, OwnIsMine DEF Grown, new
  <2>4. CASE other.tgid = session.tgid
    <3>1. Own(new, other) = Mine(WithSession(legs, session), other)
      BY <2>1, <2>4, OwnIsMine DEF TableOf
    <3>2. Own(tables, other) = Mine(legs, other)
      BY <2>4, OwnIsMine DEF legs
    <3>3. Grown(Mine(legs, other), Mine(WithSession(legs, session), other))
      <4>1. CASE other.system # session.system \/ other.slot # session.slot
        BY <2>2, <4>1, OtherPlaceUntouched DEF Grown
      <4>2. CASE other.system = session.system /\ other.slot = session.slot
        <5>1. \A l : Mine(l, other) = Mine(l, session)
          BY <4>2 DEF Mine, Matches
        <5>2. Grown(Mine(legs, session), Mine(WithSession(legs, session), session))
          BY <2>2, WithSessionLegs
        <5> QED
          BY <5>1, <5>2
      <4> QED
        BY <4>1, <4>2
    <3> QED
      BY <3>1, <3>2, <3>3 DEF new
  <2> QED
    BY <2>3, <2>4
<1> QED
  BY <1>1, <1>2

\* The whole merge.
LEMMA MergeGrows ==
    ASSUME NEW tables, IsTables(tables), NEW sessions \in Seq(SessionRows)
    PROVE  /\ MergeUaSessions(tables, sessions) \in Tables
           /\ AllTriggered(MergeUaSessions(tables, sessions))
           /\ \A other \in SessionRows :
                 Grown(Own(tables, other), Own(MergeUaSessions(tables, sessions), other))
<1>1. PICK f : IsRun(f, tables, sessions)
  BY MergeRun
<1> DEFINE Good == {n \in Nat : /\ AllTriggered(f[n])
                                /\ \A other \in SessionRows :
                                      Grown(Own(tables, other), Own(f[n], other))}
<1>2. 0 \in Good
  <2>1. f[0] = FinalizedTables(tables)
    BY <1>1 DEF IsRun
  <2>2. AllTriggered(f[0]) /\ \A other : Own(f[0], other) = Own(tables, other)
    BY <2>1, FinalizedTablesType
  <2> QED
    BY <2>2 DEF Grown
<1>3. ASSUME NEW n \in Nat, n \in Good, n + 1 <= Len(sessions)
      PROVE  n + 1 \in Good
  <2>1. /\ f[n] \in Tables /\ sessions[n + 1] \in SessionRows
        /\ f[n + 1] = MergeSession(f[n], sessions[n + 1])
    BY <1>1, <1>3, RunStep
  <2>2. AllTriggered(f[n + 1])
    BY <1>3, <2>1, MergeSessionType
  <2>3. ASSUME NEW other \in SessionRows
        PROVE  Grown(Own(tables, other), Own(f[n + 1], other))
    <3>1. Grown(Own(tables, other), Own(f[n], other))
      BY <1>3
    <3>2. Grown(Own(f[n], other), Own(f[n + 1], other))
      BY <2>1, MergeSessionGrows
    <3> QED
      BY <3>1, <3>2, GrownTwice
  <2> QED
    BY <2>2, <2>3
<1>4. Len(sessions) \in Good
  <2> HIDE DEF Good
  <2> QED
    BY <1>1, <1>2, <1>3, RunInduction
<1>5. MergeUaSessions(tables, sessions) = f[Len(sessions)] /\ f[Len(sessions)] \in Tables
  BY <1>1, LenProperties DEF IsRun
<1> QED
  BY <1>4, <1>5

\* A place with legs keeps their number, an empty one has at most one.
LEMMA GrownCount ==
    ASSUME NEW A, IsFiniteSet(A), NEW B, Grown(A, B)
    PROVE  Cardinality(B) <= IF Cardinality(A) = 0 THEN 1 ELSE Cardinality(A)
<1>1. Cardinality(A) \in Nat
  BY FS_CardinalityType
<1>2. CASE B = A
  BY <1>1, <1>2
<1>3. CASE A = {} /\ \E i : B = {i}
  <2>1. PICK i : B = {i}
    BY <1>3
  <2>2. Cardinality(B) = 1
    BY <2>1, FS_Singleton
  <2>3. Cardinality(A) = 0
    BY <1>3, FS_EmptySet
  <2> QED
    BY <2>2, <2>3
<1> QED
  BY <1>2, <1>3 DEF Grown

\* The invariant: the cached BRIDGE has the legs of its routing table, in a place
\* without legs there at most one, and trigger talkgroups for all.
BridgeInv ==
    /\ now \in Nat
    /\ config \in Seq(SessionRows)
    /\ IsTables(routing)
    /\ IsTables(bridges) /\ AllTriggered(bridges)
    /\ \A session \in SessionRows : Grown(Own(routing, session), Own(bridges, session))

\* It holds at the start.
LEMMA BridgeInit == Init => BridgeInv
<1> SUFFICES ASSUME Init PROVE BridgeInv
  OBVIOUS
<1>1. now = 0 /\ config = <<>> /\ routing = <<>> /\ bridges = <<>> /\ DOMAIN <<>> = {}
  BY DEF Init
<1>2. <<>> \in Seq(SessionRows)
  OBVIOUS
<1> QED
  BY <1>1, <1>2 DEF BridgeInv, IsTables, AllTriggered, Grown

\* Every step keeps it.
LEMMA BridgeStep == BridgeInv /\ [Next]_vars => BridgeInv'
<1> SUFFICES ASSUME BridgeInv, [Next]_vars
             PROVE  BridgeInv'
  OBVIOUS
<1>1. ASSUME NEW tables \in Routings, NewRouting(tables)
      PROVE  BridgeInv'
  <2>1. now' = now /\ config' = config /\ routing' = tables /\ bridges' = MergeUaSessions(tables, config)
    BY <1>1 DEF NewRouting
  <2>2. IsTables(tables) /\ config \in Seq(SessionRows)
    BY RoutingsType DEF BridgeInv
  <2>3. /\ bridges' \in Tables /\ AllTriggered(bridges')
        /\ \A other \in SessionRows : Grown(Own(tables, other), Own(bridges', other))
    BY <2>1, <2>2, MergeGrows
  <2>4. IsTables(bridges')
    BY <2>3, TablesAreTables
  <2> QED
    BY <2>1, <2>2, <2>3, <2>4 DEF BridgeInv
<1>2. ASSUME NEW sessions \in Configs, PublishConfig(sessions)
      PROVE  BridgeInv'
  <2>1. /\ now' = now /\ config' = sessions /\ routing' = routing
        /\ sessions \in Seq(SessionRows)
    BY <1>2, ConfigsType DEF PublishConfig
  <2>2. CASE ~cached \/ Raises(sessions)
    <3>1. bridges' = bridges
      BY <1>2, <2>2 DEF PublishConfig
    <3> QED
      BY <2>1, <3>1 DEF BridgeInv
  <2>3. CASE cached /\ ~Raises(sessions)
    <3>1. bridges' = MergeUaSessions(bridges, sessions) /\ IsTables(bridges)
      BY <1>2, <2>3 DEF PublishConfig, BridgeInv
    <3>2. /\ bridges' \in Tables /\ AllTriggered(bridges')
          /\ \A other \in SessionRows : Grown(Own(bridges, other), Own(bridges', other))
      BY <2>1, <3>1, MergeGrows
    <3>3. IsTables(bridges')
      BY <3>2, TablesAreTables
    <3>4. ASSUME NEW other \in SessionRows
          PROVE  Grown(Own(routing, other), Own(bridges', other))
      BY <3>2, GrownTwice DEF BridgeInv
    <3> QED
      BY <2>1, <3>2, <3>3, <3>4 DEF BridgeInv
  <2> QED
    BY <2>2, <2>3
<1>3. CASE Tick
  BY <1>3 DEF Tick, BridgeInv
<1>4. CASE UNCHANGED vars
  BY <1>4 DEF vars, BridgeInv
<1>5. CASE Hello
  <2>1. /\ now' = now /\ config' = config /\ routing' = <<>> /\ bridges' = <<>>
        /\ DOMAIN <<>> = {}
    BY <1>5 DEF Hello
  <2> QED
    BY <2>1 DEF BridgeInv, IsTables, AllTriggered, Grown
<1> QED
  BY <1>1, <1>2, <1>3, <1>4, <1>5 DEF Next

\* So it always holds.
LEMMA BridgeInvariant == Spec => []BridgeInv
  BY BridgeInit, BridgeStep, PTL DEF Spec

\* LegsDoNotMultiply: however often CONFIGs are merged into the cached BRIDGE, a system
\* has no more legs on a slot of a table than the routing table has, one if it has none.
THEOREM MergesDoNotAddUp == Spec => []LegsDoNotMultiply
<1>1. BridgeInv => LegsDoNotMultiply
  <2> SUFFICES ASSUME BridgeInv, NEW sessions \in Configs, NEW n \in DOMAIN sessions
               PROVE  LET given == Cardinality(Own(routing, sessions[n]))
                      IN  Cardinality(Own(bridges, sessions[n]))
                            <= IF given = 0 THEN 1 ELSE given
    BY DEF LegsDoNotMultiply
  <2>1. sessions[n] \in SessionRows
    BY ConfigsType
  <2>2. Grown(Own(routing, sessions[n]), Own(bridges, sessions[n]))
    BY <2>1 DEF BridgeInv
  <2>3. IsFiniteSet(Own(routing, sessions[n]))
    <3> DEFINE k == sessions[n].tgid
    <3>1. CASE k \notin DOMAIN routing
      BY <3>1, FS_EmptySet DEF Own
    <3>2. CASE k \in DOMAIN routing
      <4>1. routing[k] \in Seq(Legs)
        BY <3>2 DEF BridgeInv, IsTables
      <4>2. Len(routing[k]) \in Nat /\ DOMAIN routing[k] = 1..Len(routing[k])
        BY <4>1, LenProperties
      <4>3. IsFiniteSet(DOMAIN routing[k])
        BY <4>2, FS_Interval
      <4>4. Own(routing, sessions[n]) \subseteq DOMAIN routing[k]
        BY <3>2 DEF Own
      <4> QED
        BY <4>3, <4>4, FS_Subset
    <3> QED
      BY <3>1, <3>2
  <2> QED
    BY <2>2, <2>3, GrownCount
<1> QED
  BY <1>1, BridgeInvariant, PTL

-----------------------------------------------------------------------------
(* The legs of nobody's session. *)

\* No live session of the list has this leg in table k.
Foreign(leg, k, sessions) ==
    \A n \in DOMAIN sessions :
        Counts(sessions[n]) /\ sessions[n].tgid = k => ~Matches(leg, sessions[n])

\* The legs that are foreign in one of two tables are so, and the same, in the other.
SameOthers(tables, new, k, sessions) ==
    /\ k \in DOMAIN new
    /\ Others(new, k, sessions) = Others(tables, k, sessions)
    /\ \A i \in Others(tables, k, sessions) : new[k][i] = tables[k][i]

\* Others are the foreign ones.
LEMMA OthersAreForeign ==
    ASSUME NEW tables, NEW k, NEW sessions
    PROVE  Others(tables, k, sessions) = {i \in DOMAIN tables[k] : Foreign(tables[k][i], k, sessions)}
  BY DEF Others, Foreign

\* A pass leaves them alone.
LEMMA MergeSessionOthers ==
    ASSUME NEW tables \in Tables, NEW sessions \in Seq(SessionRows), NEW n \in DOMAIN sessions,
           NEW k \in DOMAIN tables
    PROVE  SameOthers(tables, MergeSession(tables, sessions[n]), k, sessions)
<1> DEFINE session == sessions[n]
           new == MergeSession(tables, session)
           legs == TableOf(tables, session.tgid)
<1>0. session \in SessionRows
  OBVIOUS
<1>1. CASE ~Counts(session)
  BY <1>1, SessionSkipped DEF SameOthers
<1>2. CASE Counts(session)
  <2>0. \A leg : Foreign(leg, session.tgid, sessions) => ~Matches(leg, session)
    BY <1>2 DEF Foreign
  <2>1. /\ DOMAIN new = DOMAIN tables \cup {session.tgid}
        /\ \A d \in DOMAIN tables : d # session.tgid => new[d] = tables[d]
        /\ new[session.tgid] = WithSession(legs, session)
    BY <1>0, <1>2, MergeSessionTables
  <2>2. legs \in Seq(Legs)
    BY TablesAreTables
  <2>3. k = session.tgid => legs = tables[k]
    BY DEF TableOf
  <2> HIDE DEF new, legs, session
  <2>4. CASE k # session.tgid
    <3>1. k \in DOMAIN new /\ new[k] = tables[k]
      BY <2>1, <2>4
    <3> QED
      BY <3>1, OthersAreForeign DEF SameOthers, new, session
  <2>5. CASE k = session.tgid
    <3>1. /\ \A i : i \in DOMAIN legs /\ ~Matches(legs[i], session)
                    <=> i \in DOMAIN new[k] /\ ~Matches(new[k][i], session)
          /\ \A i \in DOMAIN legs : ~Matches(legs[i], session) => new[k][i] = legs[i]
      <4> DEFINE l == WithSession(legs, session)
      <4>1. /\ \A i : i \in DOMAIN legs /\ ~Matches(legs[i], session)
                      <=> i \in DOMAIN l /\ ~Matches(l[i], session)
            /\ \A i \in DOMAIN legs : ~Matches(legs[i], session) => l[i] = legs[i]
        BY <1>0, <2>2, WithSessionLegs
      <4>2. l = new[k]
        BY <2>1, <2>5
      <4> HIDE DEF l
      <4> QED
        BY <4>1, <4>2
    <3>2. ASSUME NEW i
          PROVE  /\ i \in Others(new, k, sessions) <=> i \in Others(tables, k, sessions)
                 /\ i \in Others(tables, k, sessions) => new[k][i] = tables[k][i]
      <4>1. i \in Others(new, k, sessions)
              <=> i \in DOMAIN new[k] /\ Foreign(new[k][i], k, sessions)
        BY OthersAreForeign
      <4>2. i \in Others(tables, k, sessions)
              <=> i \in DOMAIN legs /\ Foreign(legs[i], k, sessions)
        BY <2>3, <2>5, OthersAreForeign
      <4> QED
        BY <2>0, <2>3, <2>5, <3>1, <4>1, <4>2
    <3>3. k \in DOMAIN new
      BY <2>1
    <3>4. Others(new, k, sessions) = Others(tables, k, sessions)
      <4>1. \A i : i \in Others(new, k, sessions) <=> i \in Others(tables, k, sessions)
        BY <3>2
      <4>2. /\ Others(new, k, sessions) = {i \in DOMAIN new[k] : Foreign(new[k][i], k, sessions)}
            /\ Others(tables, k, sessions)
                 = {i \in DOMAIN tables[k] : Foreign(tables[k][i], k, sessions)}
        BY OthersAreForeign
      <4> QED
        BY <4>1, <4>2
    <3> QED
      BY <3>2, <3>3, <3>4 DEF SameOthers, new, session
  <2> QED
    BY <2>4, <2>5
<1> QED
  BY <1>1, <1>2

\* The whole merge does, if all legs have trigger talkgroups already.
LEMMA MergeOthers ==
    ASSUME NEW tables, IsTables(tables), AllTriggered(tables),
           NEW sessions \in Seq(SessionRows), NEW k \in DOMAIN tables
    PROVE  SameOthers(tables, MergeUaSessions(tables, sessions), k, sessions)
<1>1. PICK f : IsRun(f, tables, sessions)
  BY MergeRun
<1> DEFINE Good == {n \in Nat : SameOthers(tables, f[n], k, sessions)}
<1>2. 0 \in Good
  <2>1. f[0] = FinalizedTables(tables)
    BY <1>1 DEF IsRun
  <2>2. /\ k \in DOMAIN f[0]
        /\ DOMAIN f[0][k] = DOMAIN tables[k] /\ \A i \in DOMAIN tables[k] : f[0][k][i] = tables[k][i]
    BY <2>1, FinalizedTablesType
  <2>3. SameOthers(tables, f[0], k, sessions)
    BY <2>2, OthersAreForeign DEF SameOthers
  <2> QED
    BY <2>3
<1>3. ASSUME NEW n \in Nat, n \in Good, n + 1 <= Len(sessions)
      PROVE  n + 1 \in Good
  <2>1. /\ f[n] \in Tables /\ n + 1 \in DOMAIN sessions
        /\ f[n + 1] = MergeSession(f[n], sessions[n + 1])
    BY <1>1, <1>3, RunStep
  <2>2. SameOthers(tables, f[n], k, sessions)
    BY <1>3
  <2>3. SameOthers(f[n], f[n + 1], k, sessions)
    BY <2>1, <2>2, MergeSessionOthers DEF SameOthers
  <2>4. SameOthers(tables, f[n + 1], k, sessions)
    BY <2>2, <2>3 DEF SameOthers
  <2> QED
    BY <2>4
<1>4. Len(sessions) \in Good
  <2> HIDE DEF Good
  <2> QED
    BY <1>1, <1>2, <1>3, RunInduction
<1>5. MergeUaSessions(tables, sessions) = f[Len(sessions)]
  BY <1>1 DEF IsRun
<1> QED
  BY <1>4, <1>5

\* OtherLegsStay: a published CONFIG removes no table of the cached BRIDGE, and the legs
\* of no live session stay what and where they were.
THEOREM MergesTouchNothingElse == Spec => OtherLegsStay
<1>1. ASSUME BridgeInv, NEW sessions \in Configs, PublishConfig(sessions),
             NEW k \in DOMAIN bridges
      PROVE  SameOthers(bridges, bridges', k, config')
  <2>1. config' = sessions /\ sessions \in Seq(SessionRows)
    BY <1>1, ConfigsType DEF PublishConfig
  <2>2. CASE ~cached \/ Raises(sessions)
    <3>1. bridges' = bridges
      BY <1>1, <2>2 DEF PublishConfig
    <3> QED
      BY <1>1, <3>1 DEF SameOthers
  <2>3. CASE cached /\ ~Raises(sessions)
    <3>1. bridges' = MergeUaSessions(bridges, sessions)
      BY <1>1, <2>3 DEF PublishConfig
    <3> QED
      BY <1>1, <2>1, <3>1, MergeOthers DEF BridgeInv
  <2> QED
    BY <2>2, <2>3
<1>2. BridgeInv /\ [Next]_vars =>
         [(\E sessions \in Configs : PublishConfig(sessions)) =>
             \A k \in DOMAIN bridges :
                /\ k \in DOMAIN bridges'
                /\ Others(bridges', k, config') = Others(bridges, k, config')
                /\ \A i \in Others(bridges, k, config') : bridges'[k][i] = bridges[k][i]]_vars
  BY <1>1 DEF SameOthers
<1> QED
  BY <1>2, BridgeInvariant, PTL DEF Spec, OtherLegsStay

-----------------------------------------------------------------------------
(* Live sessions are shown. *)

\* The live sessions in the place of session m among the first n.
SameUpto(sessions, m, n) ==
    {j \in 1..n : /\ Counts(sessions[j])
                  /\ sessions[j].system = sessions[m].system
                  /\ sessions[j].slot = sessions[m].slot
                  /\ sessions[j].tgid = sessions[m].tgid}

\* Session m is shown, with the expiry of the last of these.
ShownUpto(tables, sessions, m, n) ==
    \E j \in SameUpto(sessions, m, n) :
        /\ \A last \in SameUpto(sessions, m, n) : last <= j
        /\ \E i : IsShown(TableOf(tables, sessions[m].tgid), sessions[m], i, sessions[j].expires)

\* Whether a session is shown depends on its place only.
LEMMA ShownInPlace ==
    ASSUME NEW legs, NEW session, NEW other, NEW i, NEW expires,
           other.system = session.system, other.slot = session.slot,
           other.tgid = session.tgid, IsShown(legs, session, i, expires)
    PROVE  IsShown(legs, other, i, expires)
<1>1. Mine(legs, other) = Mine(legs, session)
  BY DEF Mine, Matches
<1> QED
  BY <1>1 DEF IsShown

\* A pass with a live session shows it, and those in its place.
LEMMA PassShows ==
    ASSUME NEW tables \in Tables, NEW sessions \in Seq(SessionRows),
           NEW n \in Nat, n + 1 \in DOMAIN sessions, NEW m \in 1..(n + 1),
           Counts(sessions[n + 1]), n + 1 \in SameUpto(sessions, m, n + 1)
    PROVE  ShownUpto(MergeSession(tables, sessions[n + 1]), sessions, m, n + 1)
<1> DEFINE session == sessions[n + 1]
           new == MergeSession(tables, session)
           legs == TableOf(tables, session.tgid)
<1>0. session \in SessionRows /\ legs \in Seq(Legs)
  BY TablesAreTables
<1>1. DOMAIN new = DOMAIN tables \cup {session.tgid} /\ new[session.tgid] = WithSession(legs, session)
  BY <1>0, MergeSessionTables
<1>2. PICK i : IsShown(WithSession(legs, session), session, i, session.expires)
  BY <1>0, WithSessionLegs
<1>3. /\ sessions[m].system = session.system /\ sessions[m].slot = session.slot
      /\ sessions[m].tgid = session.tgid
  BY DEF SameUpto
<1>4. TableOf(new, sessions[m].tgid) = WithSession(legs, session)
  BY <1>1, <1>3 DEF TableOf
<1>5. \A last \in SameUpto(sessions, m, n + 1) : last <= n + 1
  BY DEF SameUpto
<1> HIDE DEF new, legs
<1>6. IsShown(TableOf(new, sessions[m].tgid), sessions[m], i, session.expires)
  BY <1>2, <1>3, <1>4, ShownInPlace
<1> QED
  BY <1>5, <1>6 DEF ShownUpto, new

\* Any pass keeps the sessions of other places shown.
LEMMA PassKeepsShown ==
    ASSUME NEW tables \in Tables, NEW sessions \in Seq(SessionRows),
           NEW n \in Nat, n + 1 \in DOMAIN sessions, NEW m \in DOMAIN sessions,
           ShownUpto(tables, sessions, m, n), n + 1 \notin SameUpto(sessions, m, n + 1)
    PROVE  ShownUpto(MergeSession(tables, sessions[n + 1]), sessions, m, n + 1)
<1> DEFINE session == sessions[n + 1]
           other == sessions[m]
           new == MergeSession(tables, session)
           legs == TableOf(tables, session.tgid)
<1>0. session \in SessionRows /\ other \in SessionRows /\ legs \in Seq(Legs)
  BY TablesAreTables
<1>1. SameUpto(sessions, m, n + 1) = SameUpto(sessions, m, n)
  <2>1. \A j : j \in 1..(n + 1) <=> j \in 1..n \/ j = n + 1
    OBVIOUS
  <2> QED
    BY <2>1 DEF SameUpto
<1>2. PICK j \in SameUpto(sessions, m, n) :
         /\ \A last \in SameUpto(sessions, m, n) : last <= j
         /\ \E i : IsShown(TableOf(tables, other.tgid), other, i, sessions[j].expires)
  BY DEF ShownUpto
<1>3. PICK i : IsShown(TableOf(tables, other.tgid), other, i, sessions[j].expires)
  BY <1>2
<1>4. IsShown(TableOf(new, other.tgid), other, i, sessions[j].expires)
  <2>1. CASE ~Counts(session)
    BY <1>3, <2>1, SessionSkipped
  <2>2. CASE Counts(session)
    <3>1. /\ DOMAIN new = DOMAIN tables \cup {session.tgid}
          /\ \A k \in DOMAIN tables : k # session.tgid => new[k] = tables[k]
          /\ new[session.tgid] = WithSession(legs, session)
      BY <1>0, <2>2, MergeSessionTables
    <3>2. CASE other.tgid # session.tgid
      <4>1. TableOf(new, other.tgid) = TableOf(tables, other.tgid)
        BY <3>1, <3>2 DEF TableOf
      <4> QED
        BY <1>3, <4>1
    <3>3. CASE other.tgid = session.tgid
      <4>1. TableOf(new, other.tgid) = WithSession(legs, session)
        BY <3>1, <3>3 DEF TableOf
      <4>2. other.system # session.system \/ other.slot # session.slot
        <5>1. n + 1 \in 1..(n + 1)
          OBVIOUS
        <5> QED
          BY <2>2, <3>3, <5>1 DEF SameUpto
      <4>3. IsShown(legs, other, i, sessions[j].expires)
        BY <1>3, <3>3
      <4> HIDE DEF new, legs, other, session
      <4>4. /\ Mine(WithSession(legs, session), other) = Mine(legs, other)
            /\ \A p \in Mine(legs, other) : WithSession(legs, session)[p] = legs[p]
        BY <1>0, <4>2, OtherPlaceUntouched
      <4> QED
        BY <4>1, <4>3, <4>4 DEF IsShown
    <3> QED
      BY <3>2, <3>3
  <2> QED
    BY <2>1, <2>2
<1> HIDE DEF new
<1> QED
  BY <1>1, <1>2, <1>4 DEF ShownUpto, new

\* The whole merge shows every live session.
LEMMA MergeShows ==
    ASSUME NEW tables, IsTables(tables), NEW sessions \in Seq(SessionRows),
           NEW m \in DOMAIN sessions, Counts(sessions[m])
    PROVE  ShownUpto(MergeUaSessions(tables, sessions), sessions, m, Len(sessions))
<1>0. Len(sessions) \in Nat /\ DOMAIN sessions = 1..Len(sessions)
  BY LenProperties
<1>1. PICK f : IsRun(f, tables, sessions)
  BY MergeRun
<1> DEFINE Good == {n \in Nat : m <= n => ShownUpto(f[n], sessions, m, n)}
<1>2. 0 \in Good
  BY <1>0
<1>3. ASSUME NEW n \in Nat, n \in Good, n + 1 <= Len(sessions)
      PROVE  n + 1 \in Good
  <2>1. /\ f[n] \in Tables /\ n + 1 \in DOMAIN sessions
        /\ f[n + 1] = MergeSession(f[n], sessions[n + 1])
    BY <1>1, <1>3, RunStep
  <2>2. SUFFICES ASSUME m <= n + 1
                 PROVE  ShownUpto(f[n + 1], sessions, m, n + 1)
    OBVIOUS
  <2>3. m \in 1..(n + 1)
    BY <1>0, <2>2
  <2>4. CASE n + 1 \in SameUpto(sessions, m, n + 1)
    <3>1. Counts(sessions[n + 1])
      BY <2>4 DEF SameUpto
    <3> QED
      BY <2>1, <2>3, <2>4, <3>1, PassShows
  <2>5. CASE n + 1 \notin SameUpto(sessions, m, n + 1)
    <3>1. m # n + 1
      BY <2>3, <2>5 DEF SameUpto
    <3>2. ShownUpto(f[n], sessions, m, n)
      BY <1>0, <1>3, <2>3, <3>1
    <3> QED
      BY <2>1, <2>5, <3>2, PassKeepsShown
  <2> QED
    BY <2>4, <2>5
<1>4. Len(sessions) \in Good
  <2> HIDE DEF Good
  <2> QED
    BY <1>1, <1>2, <1>3, RunInduction
<1>5. MergeUaSessions(tables, sessions) = f[Len(sessions)]
  BY <1>1 DEF IsRun
<1> QED
  BY <1>0, <1>4, <1>5

\* Which is what Shown says.
LEMMA ShownIsShown ==
    ASSUME NEW tables, NEW sessions \in Seq(SessionRows), NEW m \in DOMAIN sessions,
           ShownUpto(tables, sessions, m, Len(sessions))
    PROVE  Shown(tables, sessions, m)
<1> DEFINE session == sessions[m]
           Same == {j \in DOMAIN sessions :
                       /\ Counts(sessions[j])
                       /\ \A f \in {"system", "slot", "tgid"} : sessions[j][f] = session[f]}
<1>1. Same = SameUpto(sessions, m, Len(sessions))
  BY LenProperties DEF SameUpto
<1>2. PICK j \in Same :
         /\ \A last \in Same : last <= j
         /\ \E i : IsShown(TableOf(tables, session.tgid), session, i, sessions[j].expires)
  BY <1>1 DEF ShownUpto
<1>3. PICK i : IsShown(TableOf(tables, session.tgid), session, i, sessions[j].expires)
  BY <1>2
<1>4. Own(tables, session) = Mine(TableOf(tables, session.tgid), session)
  BY OwnIsMine
<1>5. i \in Own(tables, session) /\ \A first \in Own(tables, session) : i <= first
  BY <1>3, <1>4 DEF IsShown
<1>6. session.tgid \in DOMAIN tables
  BY <1>5 DEF Own
<1>7. LET leg == tables[session.tgid][i]
      IN  leg.active /\ leg.tgid = session.tgid /\ leg.timer = sessions[j].expires
  BY <1>3, <1>6 DEF IsShown, TableOf
<1> QED
  BY <1>2, <1>5, <1>7 DEF Shown

\* SessionsAreSeen: when a merge succeeds, the first leg of each live session's system
\* and slot, in the table of its talkgroup, is ON, with its talkgroup and with the expiry
\* of the last session of that place.
THEOREM LiveSessionsAreShown == Spec => SessionsAreSeen
<1>1. ASSUME BridgeInv, [Next]_vars, Merges,
             NEW n \in DOMAIN config', Counts(config'[n])
      PROVE  Shown(bridges', config', n)
  <2>1. now' = now
    BY <1>1 DEF Merges, NewRouting, PublishConfig
  <2>2. \E tables : IsTables(tables) /\ bridges' = MergeUaSessions(tables, config')
    <3>1. ASSUME NEW tables \in Routings, NewRouting(tables)
          PROVE  IsTables(tables) /\ bridges' = MergeUaSessions(tables, config')
      BY <3>1, RoutingsType DEF NewRouting
    <3>2. ASSUME cached, NEW sessions \in Configs, PublishConfig(sessions), ~Raises(sessions)
          PROVE  IsTables(bridges) /\ bridges' = MergeUaSessions(bridges, config')
      BY <1>1, <3>2 DEF PublishConfig, BridgeInv
    <3> QED
      BY <1>1, <3>1, <3>2 DEF Merges
  <2>3. PICK tables : IsTables(tables) /\ bridges' = MergeUaSessions(tables, config')
    BY <2>2
  <2>4. config' \in Seq(SessionRows)
    <3>1. BridgeInv'
      BY <1>1, BridgeStep
    <3> QED
      BY <3>1 DEF BridgeInv
  <2>5. ShownUpto(bridges', config', n, Len(config'))
    BY <1>1, <2>3, <2>4, MergeShows
  <2> QED
    BY <1>1, <2>4, <2>5, ShownIsShown
<1>2. BridgeInv /\ [Next]_vars =>
         [Merges =>
             \A n \in DOMAIN config' : Counts(config'[n]) => Shown(bridges', config', n)]_vars
  BY <1>1
<1> QED
  BY <1>2, BridgeInvariant, PTL DEF Spec, SessionsAreSeen
===============================================================================
