------------------------- MODULE ScriptEventsProofs -------------------------
(***************************************************************************)
(* Proofs about ScriptEvents for any pool of script events, any keys,      *)
(* scripts and lengths of fragments and waits: no handler is lost, aborted *)
(* by mistake or overdue (HandlersAccounted), handlers start at their      *)
(* beginning and are resumed in the order of their times.  A reset may     *)
(* come at any time, and so may a use that ruins the lists: of what comes  *)
(* behind that one nothing is said.                                        *)
(***************************************************************************)
EXTENDS ScriptEvents, SequenceTheorems, FiniteSetTheorems, WellFoundedInduction, TLAPS

-----------------------------------------------------------------------------
(* The inductive invariant *)

\* What HandlersAccounted says as long as nothing is ruined
Accounted == TypeOK /\ NoHandlerLost /\ AbortedRightly /\ NothingOverdue

\* A script event whose handler neither runs nor waits
Resting(e) == e \notin Queued \cup {running}

\* MIDI events are received, and kept events released, in one phase only.
PhaseInv ==
  /\ phase # "ruined"
  /\ phase = "idle" => running = NoEvent
  /\ phase # "events" => turn = <<>> /\ received = 0
  /\ phase \in {"idle", "events"} => last = 0
  /\ now < FragmentSize

\* A list of script events in the order of their times
Sorted(q, events) == \A i, j \in DOMAIN q : i < j => events[q[i]].time <= events[q[j]].time

\* The queue is sorted.  Nothing is due before what was resumed last, and who runs
\* does so in this fragment.
QueueInv ==
  /\ Sorted(queue, event)
  /\ phase \in {"resume", "resume again"} =>
       \A e \in Events : ~Resting(e) => last <= event[e].time
  /\ running # NoEvent => event[running].time < FragmentSize

\* What is kept is kept for the release of its note, and only a release handler
\* runs on it.
KeptInv ==
  /\ \A e \in Events : event[e].place # "pool" =>
       event[e].handler \in Handlers /\ event[e].key \in Keys
  /\ \A k \in Keys : \A e \in ToSet(kept[k]) : ~Resting(e) => event[e].handler = "release"
  /\ IsInjective(turn) /\ \A e \in ToSet(turn) : \E k \in Keys : e \in ToSet(kept[k])

\* The VM context of a script event that no handler uses
ContextInv == \A e \in Events :
  /\ event[e].place = "pool" => e \notin doomed
  /\ Resting(e) => event[e].children = {} /\ (e \in stale \/ ~event[e].started)

\* The parent of a child that is to end with it knows the child, and no other event
\* does; and no event knows one that has been freed.
FamilyInv ==
  /\ \A e \in Events : event[e].children \subseteq Allocated
  /\ \A e, c \in Events :
       event[c].autoAbort => (c \in event[e].children <=> event[c].parent = e)

IInv == /\ Accounted /\ PhaseInv /\ QueueInv /\ KeptInv /\ ContextInv /\ FamilyInv

\* Once it is ruined the fragment does not go on.
RuinedInv == TypeOK /\ running = NoEvent /\ turn = <<>>

AnyInv == (phase = "ruined" /\ RuinedInv) \/ IInv

-----------------------------------------------------------------------------
(* Natural numbers and sequences *)

\* The natural numbers are well ordered.  (The library states induction with an
\* operator for the property; the proofs use sets.)
LEMMA SmallestNat ==
  ASSUME NEW S \in SUBSET Nat, S # {}
  PROVE  \E n \in S : \A m \in S : n <= m
<1> DEFINE LessThan == {ss \in Nat \X Nat : ss[1] < ss[2]}
<1>1. IsWellFoundedOn(LessThan, Nat)
  BY NatLessThanWellFounded, Zenon DEF OpToRel
<1>2. PICK n \in S : \A m \in S : ~ (<<m, n>> \in LessThan)
  <2> HIDE DEF LessThan
  <2> QED
    BY <1>1, WFMin, Zenon
<1>3. \A m \in S : ~ (m < n)
  BY <1>2
<1> QED
  BY <1>2, <1>3

\* Min() is a member of the set.
LEMMA MinIsMember ==
  ASSUME NEW S \in SUBSET Nat, S # {}
  PROVE  Min(S) \in S
<1>1. \E n \in S : \A m \in S : n <= m
  BY SmallestNat
<1> QED
  BY <1>1 DEF Min

\* Max() of two numbers
LEMMA MaxOfTwo ==
  ASSUME NEW a \in Nat, NEW b \in Nat
  PROVE  Max({a, b}) \in Nat /\ a <= Max({a, b}) /\ b <= Max({a, b})
<1>1. \E x \in {a, b} : \A y \in {a, b} : x >= y
  <2>1. CASE a >= b
    BY <2>1
  <2>2. CASE b >= a
    BY <2>2
  <2> QED
    BY <2>1, <2>2
<1>2. Max({a, b}) \in {a, b} /\ \A y \in {a, b} : Max({a, b}) >= y
  BY <1>1 DEF Max
<1> QED
  BY <1>2

\* The elements of a sequence, by index
LEMMA ElementsBySeq ==
  ASSUME NEW S, NEW s \in Seq(S)
  PROVE  /\ DOMAIN s = 1..Len(s) /\ Len(s) \in Nat /\ ToSet(s) \subseteq S
         /\ \A i \in 1..Len(s) : s[i] \in S /\ s[i] \in ToSet(s)
         /\ \A x \in ToSet(s) : \E i \in 1..Len(s) : s[i] = x
BY DEF ToSet

\* Append()
LEMMA ElementsAppend ==
  ASSUME NEW S, NEW s \in Seq(S), NEW x \in S, IsInjective(s), x \notin ToSet(s)
  PROVE  /\ Append(s, x) \in Seq(S) /\ ToSet(Append(s, x)) = ToSet(s) \cup {x}
         /\ IsInjective(Append(s, x))
<1>1. /\ Append(s, x) \in Seq(S) /\ Len(Append(s, x)) = Len(s) + 1 /\ Len(s) \in Nat
      /\ \A i \in 1..Len(s) : Append(s, x)[i] = s[i]
      /\ Append(s, x)[Len(s) + 1] = x
  OBVIOUS
<1> DEFINE a == Append(s, x)
<1>2. DOMAIN a = 1..Len(s) + 1 /\ DOMAIN s = 1..Len(s)
  BY <1>1
<1>3. \A i \in DOMAIN s : s[i] # x
  BY DEF ToSet
<1> HIDE DEF a
<1>4. ToSet(a) = ToSet(s) \cup {x}
  <2>1. \A y \in ToSet(a) : y \in ToSet(s) \cup {x}
    <3> SUFFICES ASSUME NEW i \in DOMAIN a PROVE a[i] \in ToSet(s) \cup {x}
      BY DEF ToSet
    <3>1. CASE i = Len(s) + 1
      BY <3>1, <1>1 DEF a
    <3>2. CASE i \in DOMAIN s
      BY <3>2, <1>1, <1>2 DEF a, ToSet
    <3> QED
      BY <1>1, <1>2, <3>1, <3>2
  <2>2. \A y \in ToSet(s) : y \in ToSet(a)
    <3> SUFFICES ASSUME NEW i \in DOMAIN s PROVE s[i] \in ToSet(a)
      BY DEF ToSet
    <3>1. i \in DOMAIN a /\ a[i] = s[i]
      BY <1>1, <1>2 DEF a
    <3> QED
      BY <3>1 DEF ToSet
  <2>3. x \in ToSet(a)
    <3>1. Len(s) + 1 \in DOMAIN a /\ a[Len(s) + 1] = x
      BY <1>1, <1>2 DEF a
    <3> QED
      BY <3>1 DEF ToSet
  <2> QED
    BY <2>1, <2>2, <2>3
<1>5. IsInjective(a)
  <2> SUFFICES ASSUME NEW i \in DOMAIN a, NEW j \in DOMAIN a, a[i] = a[j] PROVE i = j
    BY DEF IsInjective
  <2>1. CASE i \in DOMAIN s /\ j \in DOMAIN s
    <3>1. s[i] = s[j]
      BY <2>1, <1>1, <1>2 DEF a
    <3> QED
      BY <3>1, <2>1 DEF IsInjective
  <2>2. CASE i = Len(s) + 1 \/ j = Len(s) + 1
    <3>1. \A k \in DOMAIN a : k # Len(s) + 1 => a[k] # x
      BY <1>1, <1>2, <1>3 DEF a
    <3>2. a[Len(s) + 1] = x
      BY <1>1 DEF a
    <3> QED
      BY <2>2, <3>1, <3>2
  <2> QED
    BY <1>1, <1>2, <2>1, <2>2
<1> QED
  BY <1>1, <1>4, <1>5 DEF a

\* Head() and Tail()
LEMMA ElementsTail ==
  ASSUME NEW S, NEW s \in Seq(S), s # <<>>, IsInjective(s)
  PROVE  /\ Head(s) \in S /\ Head(s) \in ToSet(s) /\ Tail(s) \in Seq(S)
         /\ ToSet(Tail(s)) = ToSet(s) \ {Head(s)} /\ IsInjective(Tail(s))
         /\ 1 \in DOMAIN s /\ Head(s) = s[1]
         /\ \A i \in DOMAIN Tail(s) : i + 1 \in DOMAIN s /\ Tail(s)[i] = s[i + 1]
<1>1. /\ Head(s) \in S /\ Tail(s) \in Seq(S)
      /\ Len(Tail(s)) \in Nat /\ Len(s) = Len(Tail(s)) + 1
      /\ Head(s) = s[1]
      /\ \A i \in 1..Len(Tail(s)) : i + 1 \in 1..Len(s) /\ Tail(s)[i] = s[i + 1]
  OBVIOUS
<1> DEFINE t == Tail(s)
<1>2. DOMAIN t = 1..Len(t) /\ DOMAIN s = 1..Len(s)
  BY <1>1
<1> HIDE DEF t
<1>3. 1 \in DOMAIN s /\ \A i \in DOMAIN s : i = 1 \/ (i - 1 \in DOMAIN t /\ t[i - 1] = s[i])
  BY <1>1, <1>2 DEF t
<1>4. \A i \in DOMAIN t : i + 1 \in DOMAIN s /\ t[i] = s[i + 1] /\ i + 1 # 1
  BY <1>1, <1>2 DEF t
<1>5. ToSet(t) = ToSet(s) \ {Head(s)}
  <2>1. \A y \in ToSet(t) : y \in ToSet(s) \ {Head(s)}
    <3> SUFFICES ASSUME NEW i \in DOMAIN t PROVE t[i] \in ToSet(s) /\ t[i] # Head(s)
      BY DEF ToSet
    <3>1. t[i] \in ToSet(s)
      BY <1>4 DEF ToSet
    <3>2. t[i] # s[1]
      BY <1>3, <1>4 DEF IsInjective
    <3> QED
      BY <3>1, <3>2, <1>1
  <2>2. \A y \in ToSet(s) \ {Head(s)} : y \in ToSet(t)
    <3> SUFFICES ASSUME NEW i \in DOMAIN s, s[i] # Head(s) PROVE s[i] \in ToSet(t)
      BY DEF ToSet
    <3>1. i - 1 \in DOMAIN t /\ t[i - 1] = s[i]
      BY <1>1, <1>3
    <3> QED
      BY <3>1 DEF ToSet
  <2> QED
    BY <2>1, <2>2
<1>6. IsInjective(t)
  <2> SUFFICES ASSUME NEW i \in DOMAIN t, NEW j \in DOMAIN t, t[i] = t[j] PROVE i = j
    BY DEF IsInjective
  <2>1. i + 1 = j + 1
    BY <1>4 DEF IsInjective
  <2> QED
    BY <2>1, <1>1, <1>2
<1> QED
  BY <1>1, <1>3, <1>4, <1>5, <1>6 DEF t, ToSet

-----------------------------------------------------------------------------
(* The queue of suspended events *)

\* A sequence with another one put into it
Inserted(q, es, n) == SubSeq(q, 1, n) \o es \o SubSeq(q, n + 1, Len(q))

\* r is q with es after its first n elements.
IsInserted(r, q, es, n) ==
  /\ \A i \in 1..n : i \in 1..Len(r) /\ r[i] = q[i]
  /\ \A i \in 1..Len(es) : n + i \in 1..Len(r) /\ r[n + i] = es[i]
  /\ \A i \in n + 1..Len(q) : i + Len(es) \in 1..Len(r) /\ r[i + Len(es)] = q[i]

\* Where the elements of both sequences are
LEMMA Insertion ==
  ASSUME NEW S, NEW q \in Seq(S), NEW es \in Seq(S), NEW n \in 0..Len(q)
  PROVE  /\ Inserted(q, es, n) \in Seq(S)
         /\ Len(Inserted(q, es, n)) = Len(q) + Len(es)
         /\ IsInserted(Inserted(q, es, n), q, es, n)
<1> DEFINE r == Inserted(q, es, n)
<1>1. /\ SubSeq(q, 1, n) \in Seq(S) /\ Len(SubSeq(q, 1, n)) = n
      /\ \A i \in 1..n : SubSeq(q, 1, n)[i] = q[i]
  BY SubSeqProperties
<1>2. /\ SubSeq(q, n + 1, Len(q)) \in Seq(S) /\ Len(SubSeq(q, n + 1, Len(q))) = Len(q) - n
      /\ \A i \in 1..Len(q) - n : SubSeq(q, n + 1, Len(q))[i] = q[n + i]
  OBVIOUS
<1> DEFINE a == SubSeq(q, 1, n)
           b == SubSeq(q, n + 1, Len(q))
           c == a \o es
<1> HIDE DEF a, b
<1>3. /\ c \in Seq(S) /\ Len(c) = n + Len(es)
      /\ \A i \in 1..n : c[i] = q[i]
      /\ \A i \in 1..Len(es) : c[n + i] = es[i]
  BY <1>1 DEF a
<1> HIDE DEF c
<1>4. r = c \o b
  BY DEF a, b, c, Inserted
<1> HIDE DEF r
<1>5. b \in Seq(S) /\ Len(b) = Len(q) - n /\ \A i \in 1..Len(q) - n : b[i] = q[n + i]
  BY <1>2 DEF b
<1>6. /\ r \in Seq(S) /\ Len(r) = Len(c) + Len(b)
      /\ \A i \in 1..Len(c) + Len(b) : r[i] = IF i <= Len(c) THEN c[i] ELSE b[i - Len(c)]
  <2>1. c \in Seq(S) /\ b \in Seq(S)
    BY <1>3, <1>5
  <2> QED
    BY <2>1, <1>4, ConcatProperties
<1> DEFINE lq == Len(q)  le == Len(es)  lr == Len(r)
<1>7. /\ le \in Nat /\ lq \in Nat /\ n \in Nat /\ n <= lq
      /\ Len(c) = n + le /\ Len(b) = lq - n /\ lr = lq + le
  <2>1. le \in Nat /\ lq \in Nat /\ n \in Nat /\ n <= lq
    OBVIOUS
  <2>2. Len(c) = n + le /\ Len(b) = lq - n /\ lr = Len(c) + Len(b)
    BY <1>3, <1>5, <1>6
  <2> HIDE DEF lq, le, lr
  <2> QED
    BY <2>1, <2>2
<1>8. \A i \in 1..lr : r[i] = IF i <= n + le THEN c[i] ELSE b[i - (n + le)]
  <2> DEFINE lc == Len(c)  lb == Len(b)
  <2>1. \A i \in 1..lc + lb : r[i] = IF i <= lc THEN c[i] ELSE b[i - lc]
    BY <1>6
  <2>2. lc = n + le /\ lc + lb = lr
    <3>1. lc = n + le /\ lb = lq - n
      BY <1>7
    <3> HIDE DEF lc, lb, lq, le, lr
    <3> QED
      BY <3>1, <1>7
  <2> HIDE DEF lc, lb, lq, le, lr
  <2> QED
    BY <2>1, <2>2
<1>9. /\ \A i \in 1..n : c[i] = q[i]
      /\ \A i \in 1..le : c[n + i] = es[i]
      /\ \A i \in 1..lq - n : b[i] = q[n + i]
  BY <1>3, <1>5
<1> HIDE DEF lq, le, lr
<1>10. ASSUME NEW i \in 1..n PROVE i \in 1..lr /\ r[i] = q[i]
  <2>1. i \in 1..lr /\ i <= n + le
    BY <1>7
  <2> QED
    BY <2>1, <1>8, <1>9
<1>11. ASSUME NEW i \in 1..le PROVE n + i \in 1..lr /\ r[n + i] = es[i]
  <2>1. n + i \in 1..lr /\ n + i <= n + le
    BY <1>7
  <2>2. r[n + i] = c[n + i]
    BY <2>1, <1>8
  <2>3. c[n + i] = es[i]
    BY <1>9, Zenon
  <2> QED
    BY <2>1, <2>2, <2>3
<1>12. ASSUME NEW i \in n + 1..lq PROVE i + le \in 1..lr /\ r[i + le] = q[i]
  <2>1. i + le \in 1..lr /\ ~ (i + le <= n + le) /\ (i + le) - (n + le) = i - n
    BY <1>7
  <2>2. r[i + le] = b[i - n]
    BY <2>1, <1>8
  <2>3. i - n \in 1..lq - n /\ n + (i - n) = i
    BY <1>7
  <2>4. b[i - n] = q[n + (i - n)]
    BY <2>3, <1>9, Zenon
  <2> QED
    BY <2>1, <2>2, <2>3, <2>4
<1> QED
  BY <1>6, <1>7, <1>10, <1>11, <1>12 DEF lq, le, lr, r, IsInserted

\* In a sorted list the events that are due by a time come first.
LEMMA DueFirst ==
  ASSUME NEW q \in Seq(Events), NEW t \in Int, Sorted(q, event),
         \A e \in Events : event[e].time \in Int
  PROVE  /\ DueBy(q, t) \in 0..Len(q)
         /\ \A i \in 1..Len(q) : i <= DueBy(q, t) <=> event[q[i]].time <= t
<1> DEFINE due == {i \in DOMAIN q : event[q[i]].time <= t}
           Late == {i \in 1..Len(q) + 1 : i = Len(q) + 1 \/ event[q[i]].time > t}
<1>1. DOMAIN q = 1..Len(q) /\ Len(q) \in Nat /\ \A i \in 1..Len(q) : event[q[i]].time \in Int
  OBVIOUS
<1>2. PICK m \in Late : \A i \in Late : m <= i
  <2>1. Late \in SUBSET Nat /\ Len(q) + 1 \in Late
    BY <1>1
  <2> HIDE DEF Late
  <2> QED
    BY <2>1, SmallestNat
<1>3. due = 1..(m - 1)
  <2>1. ASSUME NEW i \in due PROVE i < m
    <3>1. CASE m = Len(q) + 1
      BY <3>1, <1>1
    <3>2. CASE m # Len(q) + 1
      <4>1. m \in DOMAIN q /\ event[q[m]].time > t
        BY <3>2, <1>1
      <4>2. ~ (m < i)
        BY <4>1, <1>1 DEF Sorted
      <4>3. m # i
        BY <4>1, <1>1
      <4> QED
        BY <4>1, <4>2, <4>3, <1>1
    <3> QED
      BY <3>1, <3>2
  <2>2. ASSUME NEW i \in 1..(m - 1) PROVE i \in due
    <3>1. i \in 1..Len(q) + 1 /\ i # Len(q) + 1 /\ i < m /\ i \in 1..Len(q)
      BY <1>1
    <3>2. i \notin Late
      BY <3>1, <1>2
    <3> QED
      BY <3>1, <3>2, <1>1
  <2>3. due \subseteq 1..(m - 1)
    BY <2>1, <1>1
  <2> QED
    BY <2>2, <2>3
<1>4. m \in 1..Len(q) + 1 /\ DueBy(q, t) = Cardinality(1..(m - 1))
  BY <1>3 DEF DueBy
<1>5. DueBy(q, t) = m - 1
  <2>1. 1 \in Int /\ m - 1 \in Int
    BY <1>1, <1>4
  <2>2. Cardinality(1..(m - 1)) = IF 1 > m - 1 THEN 0 ELSE (m - 1) - 1 + 1
    BY <2>1, FS_Interval
  <2> QED
    BY <1>1, <1>4, <2>2
<1>6. \A i \in 1..Len(q) : i \in due <=> i \in 1..(m - 1)
  BY <1>3
<1> HIDE DEF Late
<1> QED
  BY <1>1, <1>4, <1>5, <1>6

\* What is put into the queue is there afterwards, and the queue is still sorted.
LEMMA EnqueueFacts ==
  ASSUME NEW q \in Seq(Events), NEW es \in Seq(Events), NEW t \in Int,
         IsInjective(q), IsInjective(es), ToSet(q) \cap ToSet(es) = {},
         Sorted(q, event), \A e \in Events : event[e].time \in Int,
         NEW events,
         \A e \in ToSet(q) : events[e].time = event[e].time,
         \A e \in ToSet(es) : events[e].time = t
  PROVE  /\ Enqueue(q, es, t) \in Seq(Events)
         /\ ToSet(Enqueue(q, es, t)) = ToSet(q) \cup ToSet(es)
         /\ IsInjective(Enqueue(q, es, t))
         /\ Sorted(Enqueue(q, es, t), events)
<1> DEFINE n == DueBy(q, t)
           r == Enqueue(q, es, t)
           lq == Len(q)
           le == Len(es)
           lr == Len(r)
<1>1. /\ n \in 0..lq /\ lq \in Nat /\ le \in Nat
      /\ \A i \in 1..lq : i <= n <=> event[q[i]].time <= t
  BY DueFirst
<1>2. DOMAIN q = 1..lq /\ DOMAIN es = 1..le
  OBVIOUS
<1>2a. /\ \A i \in 1..le : es[i] \in ToSet(es)
       /\ \A i \in 1..lq : q[i] \in ToSet(q)
  BY <1>2 DEF ToSet
<1>3. /\ r \in Seq(Events) /\ lr = lq + le
      /\ \A i \in 1..n : i \in 1..lr /\ r[i] = q[i]
      /\ \A i \in 1..le : n + i \in 1..lr /\ r[n + i] = es[i]
      /\ \A i \in n + 1..lq : i + le \in 1..lr /\ r[i + le] = q[i]
  <2>1. r = Inserted(q, es, n)
    BY DEF Enqueue, Inserted
  <2>2. n \in 0..Len(q)
    BY <1>1
  <2> HIDE DEF n, r
  <2>3. r \in Seq(Events) /\ Len(r) = Len(q) + Len(es) /\ IsInserted(r, q, es, n)
    BY <2>1, <2>2, Insertion
  <2> QED
    BY <2>3 DEF IsInserted
<1>4. DOMAIN r = 1..lr
  BY <1>3
<1> HIDE DEF n, r, lq, le, lr
<1>5. ASSUME NEW i \in 1..lr
      PROVE  \/ i \in 1..n /\ i \in 1..lq /\ r[i] = q[i]
             \/ i \notin 1..n /\ i - n \in 1..le /\ r[i] = es[i - n]
             \/ /\ i - le \in n + 1..lq /\ i - le \in 1..lq /\ i - le \notin 1..n
                /\ r[i] = q[i - le]
  <2>1. CASE i <= n
    <3>1. i \in 1..n /\ i \in 1..lq
      BY <2>1, <1>1
    <3> QED
      BY <3>1, <1>3
  <2>2. CASE n < i /\ i <= n + le
    <3>1. i \notin 1..n /\ i - n \in 1..le /\ n + (i - n) = i
      BY <2>2, <1>1
    <3>2. r[n + (i - n)] = es[i - n]
      BY <3>1, <1>3, Zenon
    <3> QED
      BY <3>1, <3>2
  <2>3. CASE n + le < i
    <3>1. i - le \in n + 1..lq /\ i - le \in 1..lq /\ i - le \notin 1..n /\ (i - le) + le = i
      BY <2>3, <1>1, <1>3
    <3>2. r[(i - le) + le] = q[i - le]
      BY <3>1, <1>3, Zenon
    <3> QED
      BY <3>1, <3>2
  <2> QED
    BY <1>1, <2>1, <2>2, <2>3
<1>6. ToSet(r) = ToSet(q) \cup ToSet(es)
  <2>1. ASSUME NEW x \in ToSet(r) PROVE x \in ToSet(q) \cup ToSet(es)
    <3>1. PICK i \in 1..lr : r[i] = x
      BY <1>4 DEF ToSet
    <3>2. (\E j \in 1..lq : q[j] = x) \/ (\E j \in 1..le : es[j] = x)
      BY <1>5, <3>1
    <3> QED
      BY <3>2, <1>2 DEF ToSet
  <2>2. ASSUME NEW x \in ToSet(q) PROVE x \in ToSet(r)
    <3>1. PICK i \in 1..lq : q[i] = x
      BY <1>2 DEF ToSet
    <3>2. i \in 1..n \/ i \in n + 1..lq
      BY <1>1
    <3>3. \E j \in 1..lr : r[j] = x
      BY <3>1, <3>2, <1>3
    <3> QED
      BY <3>3, <1>4 DEF ToSet
  <2>3. ASSUME NEW x \in ToSet(es) PROVE x \in ToSet(r)
    <3>1. PICK i \in 1..le : es[i] = x
      BY <1>2 DEF ToSet
    <3>2. \E j \in 1..lr : r[j] = x
      BY <3>1, <1>3
    <3> QED
      BY <3>2, <1>4 DEF ToSet
  <2> QED
    BY <2>1, <2>2, <2>3
<1>7. /\ \A i, j \in 1..lq : q[i] = q[j] => i = j
      /\ \A i, j \in 1..le : es[i] = es[j] => i = j
      /\ \A i \in 1..lq, j \in 1..le : q[i] # es[j]
  <2>1. \A i \in 1..lq : q[i] \in ToSet(q)
    BY <1>2 DEF ToSet
  <2>2. \A i \in 1..le : es[i] \in ToSet(es)
    BY <1>2 DEF ToSet
  <2> QED
    BY <1>2, <2>1, <2>2 DEF IsInjective
<1>8. IsInjective(r)
  <2> SUFFICES ASSUME NEW i \in 1..lr, NEW j \in 1..lr, r[i] = r[j] PROVE i = j
    BY <1>4 DEF IsInjective
  <2>1. CASE i \in 1..n /\ i \in 1..lq /\ r[i] = q[i]
    <3>1. ~ (j - n \in 1..le /\ r[j] = es[j - n])
      BY <2>1, <1>7
    <3> QED
      BY <2>1, <3>1, <1>5, <1>7
  <2>2. CASE i - n \in 1..le /\ r[i] = es[i - n]
    <3>1. j - n \in 1..le /\ r[j] = es[j - n]
      <4>1. \A x \in 1..lq : r[j] # q[x]
        BY <2>2, <1>7
      <4> QED
        BY <4>1, <1>5
    <3>2. i - n = j - n
      BY <2>2, <3>1, <1>7, Zenon
    <3> QED
      BY <3>2, <1>1, <1>3
  <2>3. CASE i - le \in 1..lq /\ i - le \notin 1..n /\ r[i] = q[i - le]
    <3>1. ~ (j - n \in 1..le /\ r[j] = es[j - n])
      BY <2>3, <1>7
    <3>2. CASE j \in 1..n /\ j \in 1..lq /\ r[j] = q[j]
      BY <2>3, <3>2, <1>7
    <3>3. CASE j - le \in 1..lq /\ r[j] = q[j - le]
      <4>1. i - le = j - le
        BY <2>3, <3>3, <1>7
      <4> QED
        BY <4>1, <1>1, <1>3
    <3> QED
      BY <3>1, <3>2, <3>3, <1>5
  <2> QED
    BY <1>5, <2>1, <2>2, <2>3
<1>9. Sorted(r, events)
  <2>1. \A i \in 1..lq : q[i] \in Events /\ events[q[i]].time = event[q[i]].time
                         /\ events[q[i]].time \in Int
    <3>1. \A i \in 1..lq : q[i] \in ToSet(q) /\ q[i] \in Events
      BY <1>2a DEF lq
    <3> QED
      BY <3>1
  <2>2. \A i \in 1..le : events[es[i]].time = t
    <3>1. \A x \in ToSet(es) : events[x].time = t
      OBVIOUS
    <3> QED
      BY <3>1, <1>2a
  <2>3. \A i, j \in 1..lq : i < j => events[q[i]].time <= events[q[j]].time
    BY <2>1, <1>2 DEF Sorted
  <2>4. \A i \in 1..lq : /\ i \in 1..n => events[q[i]].time <= t
                         /\ i \notin 1..n => t <= events[q[i]].time
    <3> SUFFICES ASSUME NEW i \in 1..lq
                 PROVE  /\ i \in 1..n => events[q[i]].time <= t
                        /\ i \notin 1..n => t <= events[q[i]].time
      OBVIOUS
    <3>1. i <= n <=> events[q[i]].time <= t
      BY <1>1, <2>1
    <3> QED
      BY <3>1, <2>1, <1>1
  <2> SUFFICES ASSUME NEW i \in 1..lr, NEW j \in 1..lr, i < j
               PROVE  events[r[i]].time <= events[r[j]].time
    BY <1>4 DEF Sorted
  <2>5. CASE i \in 1..n /\ i \in 1..lq /\ r[i] = q[i]
    <3>1. CASE j \in 1..lq /\ r[j] = q[j]
      BY <2>5, <3>1, <2>3
    <3>2. CASE j - n \in 1..le /\ r[j] = es[j - n]
      BY <2>5, <3>2, <2>2, <2>4
    <3>3. CASE j - le \in 1..lq /\ j - le \notin 1..n /\ r[j] = q[j - le]
      <4>1. i < j - le
        BY <2>5, <3>3, <1>1
      <4> QED
        BY <2>5, <3>3, <4>1, <2>3
    <3> QED
      BY <3>1, <3>2, <3>3, <1>5
  <2>6. CASE i \notin 1..n /\ i - n \in 1..le /\ r[i] = es[i - n]
    <3>1. j \notin 1..n
      BY <2>6, <1>1
    <3>2. CASE j - n \in 1..le /\ r[j] = es[j - n]
      BY <2>6, <3>2, <2>2
    <3>3. CASE j - le \in 1..lq /\ j - le \notin 1..n /\ r[j] = q[j - le]
      BY <2>6, <3>3, <2>2, <2>4
    <3> QED
      BY <3>1, <3>2, <3>3, <1>5
  <2>7. CASE i - le \in n + 1..lq /\ i - le \in 1..lq /\ r[i] = q[i - le]
    <3>1. j \notin 1..n /\ ~ (j - n \in 1..le)
      BY <2>7, <1>1, <1>3
    <3>2. j - le \in 1..lq /\ r[j] = q[j - le]
      BY <3>1, <1>5
    <3>3. i - le < j - le
      BY <1>1, <1>3
    <3> QED
      BY <2>7, <3>2, <3>3, <2>3
  <2> QED
    BY <1>5, <2>5, <2>6, <2>7
<1> QED
  BY <1>3, <1>6, <1>8, <1>9 DEF r

\* RemoveAt() moves what comes behind the element up by one.
LEMMA Removal ==
  ASSUME NEW S, NEW s \in Seq(S), NEW p \in 1..Len(s)
  PROVE  /\ RemoveAt(s, p) \in Seq(S) /\ Len(RemoveAt(s, p)) = Len(s) - 1
         /\ \A i \in 1..Len(s) - 1 : RemoveAt(s, p)[i] = s[IF i < p THEN i ELSE i + 1]
<1>0. Len(s) \in Nat /\ p \in Nat /\ 1 <= p /\ p <= Len(s)
  OBVIOUS
<1> DEFINE a == SubSeq(s, 1, p - 1)
           b == SubSeq(s, p + 1, Len(s))
           r == RemoveAt(s, p)
           ls == Len(s)
           lr == Len(r)
<1>1. a \in Seq(S) /\ Len(a) = p - 1 /\ \A i \in 1..p - 1 : a[i] = s[i]
  <2>1. 1 \in 1..(Len(s) + 1) /\ p - 1 \in (1 - 1)..Len(s) /\ (p - 1) - 1 + 1 = p - 1
    BY <1>0
  <2>2. a \in Seq(S) /\ Len(a) = p - 1
    BY <1>0
  <2> QED
    BY <2>1, <2>2, SubSeqProperties
<1>2. b \in Seq(S) /\ Len(b) = ls - p /\ \A i \in 1..ls - p : b[i] = s[p + i]
  BY <1>0
<1>3. r = a \o b
  BY DEF RemoveAt
<1> HIDE DEF a, b, r
<1>4. /\ r \in Seq(S) /\ Len(r) = Len(a) + Len(b)
      /\ \A i \in 1..Len(a) + Len(b) : r[i] = IF i <= Len(a) THEN a[i] ELSE b[i - Len(a)]
  BY <1>1, <1>2, <1>3, ConcatProperties
<1> HIDE DEF ls, lr
<1>5. ls \in Nat /\ p \in Nat /\ 1 <= p /\ p <= ls
  BY <1>0 DEF ls
<1>6. lr = ls - 1 /\ \A i \in 1..ls - 1 : r[i] = IF i <= p - 1 THEN a[i] ELSE b[i - (p - 1)]
  <2> DEFINE la == Len(a)  lb == Len(b)
  <2>1. lr = la + lb /\ \A i \in 1..la + lb : r[i] = IF i <= la THEN a[i] ELSE b[i - la]
    BY <1>4 DEF lr
  <2>2. la = p - 1 /\ lb = ls - p
    BY <1>1, <1>2
  <2> HIDE DEF la, lb
  <2>3. la + lb = ls - 1
    BY <2>2, <1>5
  <2> QED
    BY <2>1, <2>2, <2>3
<1>7. ASSUME NEW i \in 1..ls - 1 PROVE r[i] = s[IF i < p THEN i ELSE i + 1]
  <2>1. CASE i < p
    <3>1. i <= p - 1 /\ i \in 1..p - 1
      BY <2>1, <1>5
    <3>2. r[i] = a[i]
      BY <3>1, <1>6
    <3> QED
      BY <2>1, <3>1, <3>2, <1>1
  <2>2. CASE ~ (i < p)
    <3>1. ~ (i <= p - 1) /\ i - (p - 1) \in 1..ls - p /\ p + (i - (p - 1)) = i + 1
      BY <2>2, <1>5
    <3>2. r[i] = b[i - (p - 1)]
      BY <3>1, <1>6
    <3>3. b[i - (p - 1)] = s[p + (i - (p - 1))]
      BY <3>1, <1>2, Zenon
    <3> QED
      BY <2>2, <3>1, <3>2, <3>3
  <2> QED
    BY <2>1, <2>2
<1> QED
  BY <1>4, <1>6, <1>7 DEF r, ls, lr

\* What is taken out of a list is not there any more; the rest keeps its order.
LEMMA WithoutFacts ==
  ASSUME NEW S, NEW s \in Seq(S), IsInjective(s), NEW e
  PROVE  /\ Without(s, e) \in Seq(S)
         /\ ToSet(Without(s, e)) = ToSet(s) \ {e}
         /\ IsInjective(Without(s, e))
         /\ \A events : Sorted(s, events) => Sorted(Without(s, e), events)
<1>1. CASE e \notin ToSet(s)
  BY <1>1 DEF Without
<1>2. CASE e \in ToSet(s)
  <2> DEFINE p == CHOOSE i \in DOMAIN s : s[i] = e
             r == Without(s, e)
             ls == Len(s)
             at(i) == IF i < p THEN i ELSE i + 1
  <2>1. DOMAIN s = 1..ls /\ ls \in Nat
    OBVIOUS
  <2>2. p \in 1..ls /\ s[p] = e
    <3>1. \E i \in DOMAIN s : s[i] = e
      BY <1>2 DEF ToSet
    <3>2. p \in DOMAIN s /\ s[p] = e
      BY <3>1, Zenon
    <3> QED
      BY <3>2, <2>1
  <2>3. r = RemoveAt(s, p)
    BY <1>2 DEF Without
  <2> HIDE DEF p, r
  <2>4. r \in Seq(S) /\ DOMAIN r = 1..ls - 1 /\ \A i \in 1..ls - 1 : r[i] = s[at(i)]
    <3>1. /\ r \in Seq(S) /\ Len(r) = Len(s) - 1
          /\ \A i \in 1..Len(s) - 1 : r[i] = s[at(i)]
      BY <2>2, <2>3, Removal
    <3> QED
      BY <3>1
  <2> HIDE DEF ls
  <2>5. \A i \in 1..ls - 1 : at(i) \in 1..ls /\ at(i) # p
    BY <2>1, <2>2
  <2>6. \A i, j \in 1..ls - 1 : (i < j => at(i) < at(j)) /\ (at(i) = at(j) => i = j)
    BY <2>1, <2>2
  <2>7. \A i \in 1..ls : i # p => \E j \in 1..ls - 1 : at(j) = i
    <3> SUFFICES ASSUME NEW i \in 1..ls, i # p PROVE \E j \in 1..ls - 1 : at(j) = i
      OBVIOUS
    <3>1. CASE i < p
      <4>1. i \in 1..ls - 1 /\ at(i) = i
        BY <3>1, <2>1, <2>2
      <4> QED
        BY <4>1
    <3>2. CASE i > p
      <4>1. i - 1 \in 1..ls - 1 /\ at(i - 1) = i
        BY <3>2, <2>1, <2>2
      <4> QED
        BY <4>1
    <3> QED
      BY <3>1, <3>2, <2>1, <2>2
  <2> HIDE DEF at
  <2>8. \A i, j \in 1..ls : s[i] = s[j] => i = j
    BY <2>1 DEF IsInjective
  <2>9. ToSet(r) = ToSet(s) \ {e}
    <3>1. ASSUME NEW x \in ToSet(r) PROVE x \in ToSet(s) /\ x # e
      <4>1. PICK i \in 1..ls - 1 : r[i] = x
        BY <2>4 DEF ToSet
      <4>2. x = s[at(i)] /\ at(i) \in 1..ls /\ at(i) # p
        BY <4>1, <2>4, <2>5
      <4>3. x # s[p]
        BY <4>2, <2>2, <2>8
      <4> QED
        BY <4>2, <4>3, <2>1, <2>2 DEF ToSet
    <3>2. ASSUME NEW x \in ToSet(s), x # e PROVE x \in ToSet(r)
      <4>1. PICK i \in 1..ls : s[i] = x
        BY <2>1 DEF ToSet
      <4>2. PICK j \in 1..ls - 1 : at(j) = i
        BY <3>2, <4>1, <2>2, <2>7
      <4>3. r[j] = x
        BY <4>1, <4>2, <2>4
      <4> QED
        BY <4>3, <2>4 DEF ToSet
    <3> QED
      BY <3>1, <3>2
  <2>10. IsInjective(r)
    <3> SUFFICES ASSUME NEW i \in 1..ls - 1, NEW j \in 1..ls - 1, r[i] = r[j] PROVE i = j
      BY <2>4 DEF IsInjective
    <3>1. at(i) = at(j)
      BY <2>4, <2>5, <2>8
    <3> QED
      BY <3>1, <2>6
  <2>11. ASSUME NEW events, Sorted(s, events) PROVE Sorted(r, events)
    <3> SUFFICES ASSUME NEW i \in 1..ls - 1, NEW j \in 1..ls - 1, i < j
                 PROVE  events[r[i]].time <= events[r[j]].time
      BY <2>4 DEF Sorted
    <3>1. at(i) \in 1..ls /\ at(j) \in 1..ls /\ at(i) < at(j)
      BY <2>5, <2>6
    <3>2. events[s[at(i)]].time <= events[s[at(j)]].time
      BY <3>1, <2>11, <2>1 DEF Sorted
    <3> QED
      BY <3>2, <2>4
  <2> QED
    BY <2>4, <2>9, <2>10, <2>11 DEF r
<1> QED
  BY <1>1, <1>2

\* Who is first leaves the list.
LEMMA SortedTail ==
  ASSUME NEW S, NEW s \in Seq(S), s # <<>>, NEW events, Sorted(s, events)
  PROVE  Sorted(Tail(s), events)
<1>1. /\ DOMAIN Tail(s) = 1..Len(s) - 1 /\ DOMAIN s = 1..Len(s) /\ Len(s) \in Nat
      /\ \A i \in 1..Len(s) - 1 : Tail(s)[i] = s[i + 1]
  OBVIOUS
<1> DEFINE t == Tail(s)  n == Len(s)
<1>2. /\ DOMAIN t = 1..n - 1 /\ DOMAIN s = 1..n /\ n \in Nat
      /\ \A i \in 1..n - 1 : t[i] = s[i + 1]
  BY <1>1
<1> HIDE DEF t, n
<1>3. Sorted(t, events)
  <2> SUFFICES ASSUME NEW i \in 1..n - 1, NEW j \in 1..n - 1, i < j
               PROVE  events[t[i]].time <= events[t[j]].time
    BY <1>2 DEF Sorted
  <2>1. i + 1 \in DOMAIN s /\ j + 1 \in DOMAIN s /\ i + 1 < j + 1
    BY <1>2
  <2>2. events[s[i + 1]].time <= events[s[j + 1]].time
    BY <2>1 DEF Sorted
  <2> QED
    BY <2>2, <1>2
<1> QED
  BY <1>3 DEF t

-----------------------------------------------------------------------------
(* What the invariant says *)

\* The parts of a script event
LEMMA Parts ==
  ASSUME NEW x \in ScriptEvent
  PROVE  /\ x.place \in {"pool", "events", "kept"} /\ x.handler \in Handlers \cup {"none"}
         /\ x.key \in Keys \cup {NoEvent} /\ x.time \in 0..TimeBound /\ x.forks \in 0..MaxForks
         /\ x.children \in SUBSET Events /\ x.autoAbort \in BOOLEAN /\ x.ignoreWaits \in BOOLEAN
         /\ x.parent \in Events \cup {NoEvent} /\ x.started \in BOOLEAN /\ x.aborted \in BOOLEAN
BY DEF ScriptEvent

\* The bounds of times: what a running handler schedules stays below TimeBound.
LEMMA Bounds ==
  /\ FragmentSize \in Nat /\ FragmentSize > 0 /\ MaxForks \in Nat /\ MaxForks > 0
  /\ Events \subseteq Nat /\ IsFiniteSet(Events) /\ NoEvent \notin Events
  /\ TimeBound \in Nat /\ FragmentSize < TimeBound
  /\ \A d \in 0..MaxWait \cup {ForcedWait} :
        Delay(d) \in Nat /\ Delay(d) > 0 /\ FragmentSize + Delay(d) <= TimeBound
<1>1. /\ FragmentSize \in Nat /\ FragmentSize > 0 /\ MaxForks \in Nat /\ MaxForks > 0
      /\ Events \subseteq Nat /\ IsFiniteSet(Events) /\ NoEvent \notin Events
      /\ MaxWait \in Nat /\ ForcedWait \in Nat
  BY ScriptEventsAssumption
<1> DEFINE m == Max({MaxWait, ForcedWait})
<1>2. m \in Nat /\ MaxWait <= m /\ ForcedWait <= m
  BY <1>1, MaxOfTwo
<1>3. TimeBound = FragmentSize + m + 1
  BY DEF TimeBound
<1> HIDE DEF m
<1>4. \A d \in 0..MaxWait \cup {ForcedWait} : d \in Nat /\ d <= m
  BY <1>1, <1>2
<1> QED
  BY <1>1, <1>2, <1>3, <1>4 DEF Delay

\* A fragment has a length.
LEMMA FragmentLength == FragmentSize \in Nat /\ FragmentSize > 0
BY ScriptEventsAssumption

\* Who runs or waits, or is kept, is not in the pool; and times are numbers.
LEMMA Basics ==
  ASSUME TypeOK, NoHandlerLost
  PROVE  /\ Queued \subseteq Events /\ running \in Events \cup {NoEvent}
         /\ queue \in Seq(Events) /\ IsInjective(queue) /\ running \notin Queued
         /\ \A e \in Events : event[e] \in ScriptEvent /\ event[e].time \in Int
         /\ \A k \in Keys : ToSet(kept[k]) \subseteq Events /\ kept[k] \in Seq(Events)
         /\ turn \in Seq(Events) /\ ToSet(turn) \subseteq Events
         /\ \A e \in Events : ~Resting(e) => e \in Allocated
         /\ \A e \in Events : event[e].place = "pool" =>
               Resting(e) /\ e \notin ToSet(turn) /\ \A k \in Keys : e \notin ToSet(kept[k])
<1>1. /\ queue \in Seq(Events) /\ turn \in Seq(Events) /\ running \in Events \cup {NoEvent}
      /\ kept \in [Keys -> Seq(Events)] /\ event \in [Events -> ScriptEvent]
  BY DEF TypeOK
<1>2. Queued \subseteq Events /\ ToSet(turn) \subseteq Events
  BY <1>1, ElementsBySeq DEF Queued
<1>3. \A k \in Keys : kept[k] \in Seq(Events) /\ ToSet(kept[k]) \subseteq Events
  BY <1>1, ElementsBySeq
<1>4. \A e \in Events : event[e] \in ScriptEvent /\ event[e].time \in Int
  <2> SUFFICES ASSUME NEW e \in Events PROVE event[e] \in ScriptEvent /\ event[e].time \in Int
    OBVIOUS
  <2>1. event[e] \in ScriptEvent
    BY <1>1
  <2>2. event[e].time \in 0..TimeBound
    BY <2>1, Parts
  <2> QED
    BY <2>1, <2>2, Bounds
<1>5. \A e \in Events : event[e].place = "pool" =>
         Resting(e) /\ e \notin ToSet(turn) /\ \A k \in Keys : e \notin ToSet(kept[k])
  BY DEF NoHandlerLost, Resting
<1>6. \A e \in Events : ~Resting(e) => e \in Allocated
  BY <1>5 DEF Allocated
<1> QED
  BY <1>1, <1>2, <1>3, <1>4, <1>5, <1>6 DEF NoHandlerLost

\* Only the queue and who runs change: nothing is lost if the same events run or wait.
LEMMA StillAccounted ==
  ASSUME TypeOK, NoHandlerLost, kept' = kept, ToSet(turn') \subseteq ToSet(turn),
         IsInjective(queue'), running' \notin Queued',
         \A x \in Events : Resting(x)' <=> Resting(x),
         \A x \in Events : event'[x].place = event[x].place /\ event'[x].key = event[x].key,
         \A x \in Queued' : \/ event'[x].started /\ event'[x].handler = "release"
                           \/ /\ x \in Queued /\ event'[x].started = event[x].started
                              /\ event'[x].handler = event[x].handler
                           \/ event[x].place = "events"
  PROVE  NoHandlerLost'
<1>1. ToSet(turn) \subseteq Events /\ \A k \in Keys : ToSet(kept[k]) \subseteq Events
  BY Basics
<1>2. ASSUME NEW x \in Events
      PROVE  event'[x].place = "events" <=> /\ x \in Queued' \cup {running'}
                                            /\ \A k \in Keys : x \notin ToSet(kept'[k])
  BY DEF NoHandlerLost, Resting
<1>3. ASSUME NEW k \in Keys
      PROVE  /\ IsInjective(kept'[k])
             /\ \A x \in ToSet(kept'[k]) :
                  /\ event'[x].place = "kept" /\ event'[x].key = k
                  /\ x \in Queued' => event'[x].started /\ event'[x].handler = "release"
  <2>1. IsInjective(kept'[k])
    BY DEF NoHandlerLost
  <2>2. ASSUME NEW x \in ToSet(kept'[k])
        PROVE  /\ event'[x].place = "kept" /\ event'[x].key = k
               /\ x \in Queued' => event'[x].started /\ event'[x].handler = "release"
    <3>1. x \in Events /\ x \in ToSet(kept[k])
      BY <1>1
    <3>2. /\ event[x].place = "kept" /\ event[x].key = k
          /\ x \in Queued => event[x].started /\ event[x].handler = "release"
      BY <3>1 DEF NoHandlerLost
    <3> QED
      BY <3>1, <3>2
  <2> QED
    BY <2>1, <2>2
<1>4. ASSUME NEW x \in ToSet(turn')
      PROVE  event'[x].place = "kept" /\ x \notin Queued' \cup {running'}
  <2>1. x \in Events /\ x \in ToSet(turn)
    BY <1>1
  <2>2. event[x].place = "kept" /\ Resting(x)
    BY <2>1 DEF NoHandlerLost, Resting
  <2>3. event'[x].place = "kept" /\ Resting(x)'
    BY <2>1, <2>2
  <2> QED
    BY <2>3 DEF Resting
<1>5. \A x \in Events : event'[x].place = "kept" => \E k \in Keys : x \in ToSet(kept'[k])
  BY DEF NoHandlerLost
<1> QED
  BY <1>2, <1>3, <1>4, <1>5 DEF NoHandlerLost

-----------------------------------------------------------------------------
(* Audio fragments keep the invariant *)

\* The fragment begins; no time in the queue is negative.
LEMMA StartFragmentKeepsIt ==
  ASSUME IInv, StartFragment
  PROVE  IInv'
<1>1. /\ UNCHANGED <<script, event, queue, kept, turn, running, received, now, last, doomed, stale>>
      /\ phase = "idle" /\ phase' = "resume"
  BY DEF StartFragment
<1>2. Accounted'
  BY <1>1 DEF IInv, Accounted, TypeOK, NoHandlerLost, AbortedRightly, NothingOverdue, Queued
<1>3. PhaseInv'
  BY <1>1 DEF IInv, PhaseInv
<1>4. QueueInv'
  <2>1. \A e \in Events : 0 <= event[e].time
    <3> SUFFICES ASSUME NEW e \in Events PROVE 0 <= event[e].time
      OBVIOUS
    <3>1. event[e].time \in 0..TimeBound
      BY Basics, Parts DEF IInv, Accounted
    <3> QED
      BY <3>1, Bounds
  <2>2. last = 0
    BY <1>1 DEF IInv, PhaseInv
  <2> QED
    BY <1>1, <2>1, <2>2 DEF IInv, QueueInv, Sorted
<1>5. KeptInv'
  BY <1>1 DEF IInv, KeptInv, Resting, Queued
<1>6. ContextInv'
  BY <1>1 DEF IInv, ContextInv, Resting, Queued
<1>7. FamilyInv'
  BY <1>1 DEF IInv, FamilyInv, Allocated
<1> QED
  BY <1>2, <1>3, <1>4, <1>5, <1>6, <1>7 DEF IInv

\* Nothing more is due before the MIDI events.
LEMMA ResumedKeepsIt ==
  ASSUME IInv, Resumed
  PROVE  IInv'
<1>1. /\ UNCHANGED <<script, event, queue, kept, turn, running, received, now, doomed, stale>>
      /\ phase = "resume" /\ phase' = "events" /\ last' = 0 /\ running = NoEvent
  BY DEF Resumed
<1>2. Accounted'
  <2>1. last' \in 0..FragmentSize
    BY <1>1, Bounds
  <2> QED
    BY <1>1, <2>1
    DEF IInv, Accounted, TypeOK, NoHandlerLost, AbortedRightly, NothingOverdue, Queued
<1>3. PhaseInv'
  BY <1>1 DEF IInv, PhaseInv
<1>4. QueueInv'
  BY <1>1 DEF IInv, QueueInv, Sorted
<1>5. KeptInv'
  BY <1>1 DEF IInv, KeptInv, Resting, Queued
<1>6. ContextInv'
  BY <1>1 DEF IInv, ContextInv, Resting, Queued
<1>7. FamilyInv'
  BY <1>1 DEF IInv, FamilyInv, Allocated
<1> QED
  BY <1>2, <1>3, <1>4, <1>5, <1>6, <1>7 DEF IInv

\* The MIDI events have been processed.
LEMMA EventsDoneKeepsIt ==
  ASSUME IInv, EventsDone
  PROVE  IInv'
<1>1. /\ UNCHANGED <<script, event, queue, kept, turn, running, last, doomed, stale>>
      /\ phase = "events" /\ phase' = "resume again" /\ received' = 0 /\ now' = 0
      /\ running = NoEvent /\ turn = <<>>
  BY DEF EventsDone
<1>2. Accounted'
  <2>1. now' \in 0..FragmentSize /\ received' \in 0..script.events
    <3>1. script \in Scripts
      BY DEF IInv, Accounted, TypeOK
    <3>2. script.events \in Nat
      BY <3>1, ScriptEventsAssumption
    <3>3. 0 \in 0..script.events /\ 0 \in 0..FragmentSize
      BY <3>2, Bounds
    <3> QED
      BY <1>1, <3>3
  <2>2. TypeOK'
    BY <1>1, <2>1 DEF IInv, Accounted, TypeOK
  <2> QED
    BY <1>1, <2>2
    DEF IInv, Accounted, TypeOK, NoHandlerLost, AbortedRightly, NothingOverdue, Queued
<1>3. PhaseInv'
  BY <1>1, Bounds DEF IInv, PhaseInv
<1>4. QueueInv'
  <2>1. \A e \in Events : 0 <= event[e].time
    <3> SUFFICES ASSUME NEW e \in Events PROVE 0 <= event[e].time
      OBVIOUS
    <3>1. event[e].time \in 0..TimeBound
      BY Basics, Parts DEF IInv, Accounted
    <3> QED
      BY <3>1, Bounds
  <2>2. last = 0
    BY <1>1 DEF IInv, PhaseInv
  <2> QED
    BY <1>1, <2>1, <2>2 DEF IInv, QueueInv, Sorted
<1>5. KeptInv'
  BY <1>1 DEF IInv, KeptInv, Resting, Queued
<1>6. ContextInv'
  BY <1>1 DEF IInv, ContextInv, Resting, Queued
<1>7. FamilyInv'
  BY <1>1 DEF IInv, FamilyInv, Allocated
<1> QED
  BY <1>2, <1>3, <1>4, <1>5, <1>6, <1>7 DEF IInv

\* What is due first leaves the queue; everything else in it is due later.
LEMMA ResumeKeepsIt ==
  ASSUME IInv, Resume
  PROVE  IInv' /\ last' >= last
<1> DEFINE e == Head(queue)
<1>1. /\ UNCHANGED <<script, phase, event, kept, turn, received, now, doomed, stale>>
      /\ phase \in {"resume", "resume again"} /\ running = NoEvent
      /\ queue # <<>> /\ event[e].time < FragmentSize
      /\ running' = e /\ queue' = Tail(queue) /\ last' = event[e].time
  BY DEF Resume, Due
<1>2. TypeOK /\ NoHandlerLost /\ AbortedRightly
  BY DEF IInv, Accounted
<1>3. /\ queue \in Seq(Events) /\ IsInjective(queue) /\ Queued \subseteq Events
      /\ \A x \in Events : event[x] \in ScriptEvent /\ event[x].time \in Int
  BY <1>2, Basics
<1>4. /\ e \in Events /\ e \in Queued /\ Tail(queue) \in Seq(Events)
      /\ ToSet(Tail(queue)) = Queued \ {e} /\ IsInjective(Tail(queue))
      /\ 1 \in DOMAIN queue /\ e = queue[1]
      /\ \A i \in DOMAIN Tail(queue) : i + 1 \in DOMAIN queue /\ Tail(queue)[i] = queue[i + 1]
  BY <1>1, <1>3, ElementsTail DEF Queued
<1>5. NoEvent \notin Events
  BY Bounds
<1>6. Queued' = Queued \ {e} /\ e # NoEvent /\ ~Resting(e)
  BY <1>1, <1>4, <1>5 DEF Queued, Resting
<1> HIDE DEF e
<1>7. \A x \in Events : Resting(x)' <=> Resting(x)
  BY <1>1, <1>4, <1>5, <1>6 DEF Resting
<1>8. event[e].time \in 0..TimeBound /\ event[e].time \in 0..FragmentSize
  <2>1. event[e].time \in 0..TimeBound
    BY <1>3, <1>4, Parts
  <2>2. FragmentSize \in Nat /\ TimeBound \in Nat /\ event[e].time < FragmentSize
    BY <1>1, Bounds
  <2> QED
    BY <2>1, <2>2
<1>9. Accounted'
  <2>1. TypeOK'
    BY <1>1, <1>2, <1>4, <1>8 DEF TypeOK
  <2>2. NoHandlerLost'
    <3>1. IsInjective(queue') /\ running' \notin Queued'
      BY <1>1, <1>4, <1>6
    <3>2. \A x \in Queued' : /\ x \in Queued /\ event'[x].started = event[x].started
                             /\ event'[x].handler = event[x].handler
      BY <1>1, <1>6
    <3>3. \A x \in Events : event'[x].place = event[x].place /\ event'[x].key = event[x].key
      BY <1>1
    <3>4. kept' = kept /\ ToSet(turn') \subseteq ToSet(turn)
      BY <1>1
    <3> QED
      BY <1>2, <1>7, <3>1, <3>2, <3>3, <3>4, StillAccounted
  <2>3. AbortedRightly' /\ NothingOverdue'
    BY <1>1, <1>2 DEF AbortedRightly, NothingOverdue
  <2> QED
    BY <2>1, <2>2, <2>3 DEF Accounted
<1>10. PhaseInv'
  BY <1>1 DEF IInv, PhaseInv
<1>11. QueueInv'
  <2>1. Sorted(queue', event')
    <3>1. Sorted(queue, event)
      BY DEF IInv, QueueInv
    <3> QED
      BY <1>1, <1>3, <3>1, SortedTail
  <2>2. \A x \in Queued : event[e].time <= event[x].time
    <3> SUFFICES ASSUME NEW i \in DOMAIN queue PROVE event[e].time <= event[queue[i]].time
      BY DEF Queued, ToSet
    <3>1. CASE i = 1
      BY <3>1, <1>4, <1>8, <1>3
    <3>2. CASE i # 1
      <4>1. i > 1
        BY <3>2, <1>3
      <4> QED
        BY <4>1, <1>4 DEF IInv, QueueInv, Sorted
    <3> QED
      BY <3>1, <3>2
  <2>3. \A x \in Events : ~Resting(x)' => last' <= event'[x].time
    BY <1>1, <1>4, <1>5, <1>6, <1>7, <2>2 DEF Resting
  <2> QED
    BY <1>1, <2>1, <2>3 DEF QueueInv
<1>12. last' >= last
  BY <1>1, <1>2, <1>4, <1>6, <1>8 DEF IInv, QueueInv, TypeOK
<1>13. KeptInv'
  <2>1. ToSet(turn) \subseteq Events /\ \A k \in Keys : ToSet(kept[k]) \subseteq Events
    BY <1>2, Basics
  <2> QED
    BY <1>1, <1>7, <2>1 DEF IInv, KeptInv
<1>14. ContextInv'
  BY <1>1, <1>7 DEF IInv, ContextInv
<1>15. FamilyInv'
  BY <1>1 DEF IInv, FamilyInv, Allocated
<1> QED
  BY <1>9, <1>10, <1>11, <1>12, <1>13, <1>14, <1>15 DEF IInv

\* Another time for a script event
LEMMA Retimed ==
  ASSUME NEW x \in ScriptEvent, NEW t \in 0..TimeBound
  PROVE  /\ [x EXCEPT !.time = t] \in ScriptEvent /\ [x EXCEPT !.time = t].time = t
         /\ [x EXCEPT !.time = t].place = x.place /\ [x EXCEPT !.time = t].handler = x.handler
         /\ [x EXCEPT !.time = t].key = x.key /\ [x EXCEPT !.time = t].children = x.children
         /\ [x EXCEPT !.time = t].autoAbort = x.autoAbort
         /\ [x EXCEPT !.time = t].parent = x.parent
         /\ [x EXCEPT !.time = t].started = x.started
         /\ [x EXCEPT !.time = t].aborted = x.aborted
BY DEF ScriptEvent

\* At the end of a fragment nothing in the queue is due, so no time becomes negative.
LEMMA EndFragmentKeepsIt ==
  ASSUME IInv, EndFragment
  PROVE  IInv'
<1> DEFINE shifted(x) == IF x \in Queued THEN [event[x] EXCEPT !.time = event[x].time - FragmentSize]
                         ELSE event[x]
<1>1. /\ UNCHANGED <<script, queue, kept, turn, running, received, now, doomed, stale>>
      /\ phase = "resume again" /\ running = NoEvent /\ ~Due /\ phase' = "idle" /\ last' = 0
      /\ event' = [x \in Events |-> shifted(x)]
  BY DEF EndFragment, ResumedAgain
<1>2. TypeOK /\ NoHandlerLost /\ AbortedRightly
  BY DEF IInv, Accounted
<1>3. /\ queue \in Seq(Events) /\ Queued \subseteq Events
      /\ \A x \in Events : event[x] \in ScriptEvent /\ event[x].time \in Int
      /\ ToSet(turn) \subseteq Events /\ \A k \in Keys : ToSet(kept[k]) \subseteq Events
  BY <1>2, Basics
<1>4. \A x \in Queued : event[x].time >= FragmentSize
  <2> SUFFICES ASSUME NEW i \in DOMAIN queue PROVE event[queue[i]].time >= FragmentSize
    BY DEF Queued, ToSet
  <2>1. queue[i] \in Events /\ i \in Nat /\ i >= 1 /\ 1 \in DOMAIN queue /\ queue # <<>>
        /\ Head(queue) = queue[1] /\ queue[1] \in Events
    BY <1>3
  <2>2. event[queue[1]].time >= FragmentSize
    <3>1. ~ (event[queue[1]].time < FragmentSize)
      BY <1>1, <2>1 DEF Due
    <3>2. event[queue[1]].time \in Int
      BY <1>3, <2>1
    <3> QED
      BY <3>1, <3>2, FragmentLength
  <2>3. event[queue[1]].time <= event[queue[i]].time
    <3>1. CASE i = 1
      BY <3>1, <1>3, <2>1
    <3>2. CASE 1 < i
      BY <3>2, <2>1 DEF IInv, QueueInv, Sorted
    <3> QED
      BY <3>1, <3>2, <2>1
  <2> QED
    BY <2>1, <2>2, <2>3, <1>3, FragmentLength
<1>5. ASSUME NEW x \in Events
      PROVE  /\ event'[x] \in ScriptEvent
             /\ event'[x].place = event[x].place /\ event'[x].handler = event[x].handler
             /\ event'[x].key = event[x].key /\ event'[x].children = event[x].children
             /\ event'[x].autoAbort = event[x].autoAbort /\ event'[x].parent = event[x].parent
             /\ event'[x].started = event[x].started /\ event'[x].aborted = event[x].aborted
             /\ x \in Queued => event'[x].time = event[x].time - FragmentSize
  <2>1. event'[x] = shifted(x) /\ event[x] \in ScriptEvent
    BY <1>1, <1>3
  <2>2. CASE x \in Queued
    <3>1. event[x].time - FragmentSize \in 0..TimeBound
      <4>1. event[x].time \in 0..TimeBound
        BY <1>3, Parts
      <4> QED
        BY <4>1, <2>2, <1>4, Bounds
    <3>2. event'[x] = [event[x] EXCEPT !.time = event[x].time - FragmentSize]
      BY <2>1, <2>2
    <3> HIDE DEF shifted
    <3> QED
      BY <2>1, <3>1, <3>2, Retimed
  <2>3. CASE x \notin Queued
    BY <2>1, <2>3
  <2> QED
    BY <2>2, <2>3
<1> HIDE DEF shifted
<1>6. Queued' = Queued /\ \A x \in Events : Resting(x)' <=> Resting(x)
  BY <1>1 DEF Queued, Resting
<1>7. TypeOK'
  <2>1. event' \in [Events -> ScriptEvent]
    BY <1>1, <1>5
  <2>2. last' = 0 /\ 0 \in 0..FragmentSize
    <3>1. 0 \in 0..FragmentSize
      BY FragmentLength
    <3> QED
      BY <1>1, <3>1
  <2> QED
    BY <1>1, <1>2, <2>1, <2>2 DEF TypeOK
<1>8. NoHandlerLost'
  <2>1. IsInjective(queue') /\ running' \notin Queued'
    BY <1>1, <1>2, <1>6 DEF NoHandlerLost
  <2>2. \A x \in Queued' : /\ x \in Queued /\ event'[x].started = event[x].started
                           /\ event'[x].handler = event[x].handler
    BY <1>3, <1>5, <1>6
  <2>3. \A x \in Events : event'[x].place = event[x].place /\ event'[x].key = event[x].key
    BY <1>5
  <2>4. kept' = kept /\ ToSet(turn') \subseteq ToSet(turn)
    BY <1>1
  <2> QED
    BY <1>2, <1>6, <2>1, <2>2, <2>3, <2>4, StillAccounted
<1>9. AbortedRightly'
  BY <1>1, <1>2, <1>5 DEF AbortedRightly
<1>10. NothingOverdue'
  <2>1. \A x \in Queued : event'[x].time >= 0
    BY <1>3, <1>4, <1>5, FragmentLength
  <2>2. \A x \in Queued : ~ (event'[x].time < 0)
    BY <1>3, <1>5, <2>1, FragmentLength
  <2> QED
    BY <1>6, <2>2 DEF NothingOverdue
<1>11. PhaseInv'
  BY <1>1 DEF IInv, PhaseInv
<1>12. QueueInv'
  <2>1. Sorted(queue', event')
    <3> SUFFICES ASSUME NEW i \in DOMAIN queue, NEW j \in DOMAIN queue, i < j
                 PROVE  event'[queue[i]].time <= event'[queue[j]].time
      BY <1>1 DEF Sorted
    <3>1. queue[i] \in Queued /\ queue[j] \in Queued
      BY DEF Queued, ToSet
    <3>2. event[queue[i]].time <= event[queue[j]].time
      BY DEF IInv, QueueInv, Sorted
    <3> QED
      BY <3>1, <3>2, <1>3, <1>5, FragmentLength
  <2> QED
    BY <1>1, <2>1 DEF QueueInv
<1>13. KeptInv'
  BY <1>1, <1>3, <1>5, <1>6 DEF IInv, KeptInv
<1>14. ContextInv'
  BY <1>1, <1>5, <1>6 DEF IInv, ContextInv
<1>15. FamilyInv'
  <2>1. Allocated' = Allocated
    BY <1>5 DEF Allocated
  <2> QED
    BY <1>5, <2>1 DEF IInv, FamilyInv
<1> QED
  BY <1>7, <1>8, <1>9, <1>10, <1>11, <1>12, <1>13, <1>14, <1>15 DEF IInv, Accounted

\* Nothing of a script event that has been freed is left but its VM context.
LEMMA FreedParts ==
  ASSUME NEW e \in Events, event[e] \in ScriptEvent
  PROVE  /\ Freed(e) \in ScriptEvent /\ Freed(e).place = "pool" /\ Freed(e).children = {}
         /\ Freed(e).autoAbort = FALSE /\ Freed(e).time = 0 /\ Freed(e).parent = NoEvent
         /\ Freed(e).started = event[e].started /\ Freed(e).aborted = event[e].aborted
<1>1. event[e].started \in BOOLEAN /\ event[e].aborted \in BOOLEAN
  BY Parts
<1>2. 0 \in 0..TimeBound /\ 0 \in 0..MaxForks
  BY Bounds
<1> QED
  BY <1>1, <1>2 DEF Freed, ScriptEvent

\* Every script event is in the pool, with a VM context that is clean or known not to be.
AllFree ==
  /\ script \in Scripts /\ phase = "idle" /\ running = NoEvent
  /\ queue = <<>> /\ kept = [k \in Keys |-> <<>>] /\ turn = <<>>
  /\ received = 0 /\ now \in 0..FragmentSize /\ now < FragmentSize /\ last = 0 /\ doomed = {}
  /\ event \in [Events -> ScriptEvent]
  /\ stale \subseteq Events
  /\ \A e \in Events : /\ event[e].place = "pool" /\ event[e].children = {}
                       /\ event[e].autoAbort = FALSE
                       /\ e \in stale \/ (event[e].started = FALSE /\ event[e].aborted = FALSE)

\* Then the invariant holds.
LEMMA AllFreeIsFine == AllFree => IInv
<1> SUFFICES ASSUME AllFree PROVE IInv
  OBVIOUS
<1>0. /\ script \in Scripts /\ phase = "idle" /\ running = NoEvent
      /\ queue = <<>> /\ kept = [k \in Keys |-> <<>>] /\ turn = <<>>
      /\ received = 0 /\ now \in 0..FragmentSize /\ now < FragmentSize /\ last = 0 /\ doomed = {}
      /\ event \in [Events -> ScriptEvent]
      /\ stale \subseteq Events
      /\ \A e \in Events : /\ event[e].place = "pool" /\ event[e].children = {}
                           /\ event[e].autoAbort = FALSE
                           /\ e \in stale \/ (event[e].started = FALSE /\ event[e].aborted = FALSE)
  BY DEF AllFree
<1> USE <1>0
<1>1. /\ ToSet(queue) = {} /\ IsInjective(queue) /\ queue \in Seq(Events) /\ DOMAIN queue = {}
      /\ turn \in Seq(Events) /\ ToSet(turn) = {} /\ IsInjective(turn)
  BY DEF ToSet, IsInjective
<1>2. \A k \in Keys : kept[k] = <<>>
  OBVIOUS
<1>3. \A k \in Keys : ToSet(kept[k]) = {} /\ IsInjective(kept[k])
  BY <1>2 DEF ToSet, IsInjective
<1>4. \A e \in Events : Resting(e)
  BY <1>1, Bounds DEF Resting, Queued
<1>5. TypeOK
  <2>1. script.events \in Nat
    BY ScriptEventsAssumption
  <2>2. received \in 0..script.events /\ last \in 0..FragmentSize
    BY <2>1, Bounds
  <2>3. kept \in [Keys -> Seq(Events)]
    OBVIOUS
  <2> QED
    BY <1>1, <2>2, <2>3 DEF TypeOK
<1>6. NoHandlerLost
  BY <1>1, <1>3, Bounds DEF NoHandlerLost, Queued
<1>7. AbortedRightly /\ NothingOverdue
  BY <1>1 DEF AbortedRightly, NothingOverdue, Queued
<1>8. PhaseInv /\ QueueInv
  BY <1>1 DEF PhaseInv, QueueInv, Sorted
<1>9. KeptInv
  BY <1>1, <1>3 DEF KeptInv
<1>10. ContextInv
  BY DEF ContextInv
<1>11. FamilyInv
  BY DEF FamilyInv
<1> QED
  BY <1>5, <1>6, <1>7, <1>8, <1>9, <1>10, <1>11 DEF IInv, Accounted

\* The same for the next state
LEMMA AllFreeNext == (AllFree => IInv)'
BY AllFreeIsFine, PTL

-----------------------------------------------------------------------------
(* The beginning, and what happens between fragments *)

\* In the beginning every script event is in the pool.
LEMMA Initially == Init => IInv
<1> SUFFICES ASSUME Init PROVE IInv
  OBVIOUS
<1> DEFINE new == [place |-> "pool", handler |-> "none", key |-> NoEvent, time |-> 0, forks |-> 0,
                   children |-> {}, autoAbort |-> FALSE, ignoreWaits |-> FALSE,
                   parent |-> NoEvent, started |-> FALSE, aborted |-> FALSE]
<1>1. 0 \in 0..TimeBound /\ 0 \in 0..MaxForks /\ 0 \in 0..FragmentSize /\ 0 < FragmentSize
  BY Bounds
<1>2. new \in ScriptEvent
  BY <1>1 DEF ScriptEvent
<1>3. event = [e \in Events |-> new]
  BY DEF Init
<1>4. /\ new.place = "pool" /\ new.children = {} /\ new.autoAbort = FALSE
      /\ new.started = FALSE /\ new.aborted = FALSE
  OBVIOUS
<1> HIDE DEF new
<1>5. AllFree
  BY <1>1, <1>2, <1>3, <1>4 DEF AllFree, Init
<1> QED
  BY <1>5, AllFreeIsFine

\* Whatever contexts Clear() leaves, if stale has those that are not clean.
LEMMA ClearKeepsIt ==
  ASSUME IInv, phase = "idle", script' \in Scripts, NEW contexts, Clear(contexts),
         stale' \subseteq Events,
         \A e \in Events : contexts[e].started \in BOOLEAN /\ contexts[e].aborted \in BOOLEAN,
         \A e \in Events \ stale' : contexts[e].started = FALSE /\ contexts[e].aborted = FALSE
  PROVE  IInv'
<1> DEFINE cleared(e) == [Freed(e) EXCEPT !.started = contexts[e].started,
                                          !.aborted = contexts[e].aborted]
<1>1. /\ event' = [e \in Events |-> cleared(e)]
      /\ queue' = <<>> /\ kept' = [k \in Keys |-> <<>>] /\ doomed' = {}
      /\ UNCHANGED <<phase, turn, running, received, now, last>>
  BY DEF Clear
<1>2. TypeOK /\ NoHandlerLost
  BY DEF IInv, Accounted
<1>3. ASSUME NEW e \in Events
      PROVE  /\ event'[e] \in ScriptEvent /\ event'[e].place = "pool" /\ event'[e].children = {}
             /\ event'[e].autoAbort = FALSE
             /\ e \in stale' \/ (event'[e].started = FALSE /\ event'[e].aborted = FALSE)
  <2>1. /\ Freed(e) \in ScriptEvent /\ Freed(e).place = "pool" /\ Freed(e).children = {}
        /\ Freed(e).autoAbort = FALSE
    BY <1>2, Basics, FreedParts
  <2> DEFINE b == contexts[e].started
             c == contexts[e].aborted
  <2>2. event'[e] = [Freed(e) EXCEPT !.started = b, !.aborted = c]
    BY <1>1
  <2>3. b \in BOOLEAN /\ c \in BOOLEAN /\ (e \in stale' \/ (b = FALSE /\ c = FALSE))
    OBVIOUS
  <2> HIDE DEF b, c
  <2> QED
    BY <2>1, <2>2, <2>3 DEF ScriptEvent
<1>4. event' \in [Events -> ScriptEvent]
  BY <1>1, <1>3
<1>5. /\ running = NoEvent /\ turn = <<>> /\ received = 0 /\ last = 0 /\ now < FragmentSize
      /\ now \in 0..FragmentSize
  BY <1>2 DEF IInv, PhaseInv, TypeOK
<1>6. AllFree'
  <2> HIDE DEF cleared
  <2>1. /\ phase' = "idle" /\ running' = NoEvent /\ turn' = <<>> /\ received' = 0 /\ last' = 0
        /\ now' = now
    BY <1>1, <1>5
  <2> QED
    BY <1>1, <1>3, <1>4, <1>5, <2>1 DEF AllFree
<1> QED
  BY <1>6, AllFreeNext

\* resetEvents() leaves the contexts as they are; stale has those that are not clean.
LEMMA EngineResetKeepsIt ==
  ASSUME IInv, EngineReset
  PROVE  IInv'
<1>1. /\ phase = "idle" /\ Clear(event) /\ script' = script
      /\ stale' = {e \in Events : ~IsClean(e)}
  BY DEF EngineReset
<1>2. script' \in Scripts
  BY <1>1 DEF IInv, Accounted, TypeOK
<1>3. \A e \in Events : event[e].started \in BOOLEAN /\ event[e].aborted \in BOOLEAN
  BY Basics, Parts DEF IInv, Accounted
<1>4. \A e \in Events \ stale' : event[e].started = FALSE /\ event[e].aborted = FALSE
  BY <1>1, <1>3 DEF IsClean
<1>5. stale' \subseteq Events
  BY <1>1
<1> QED
  BY <1>1, <1>2, <1>3, <1>4, <1>5, ClearKeepsIt

\* Another script starts with new VM contexts.
LEMMA LoadScriptKeepsIt ==
  ASSUME IInv, LoadScript
  PROVE  IInv'
<1> DEFINE contexts == [e \in Events |-> Clean]
<1>1. phase = "idle" /\ Clear(contexts) /\ script' \in Scripts /\ stale' = {}
  BY DEF LoadScript
<1>2. \A e \in Events : contexts[e].started = FALSE /\ contexts[e].aborted = FALSE
  BY DEF Clean
<1> HIDE DEF contexts
<1> QED
  BY <1>1, <1>2, ClearKeepsIt

\* Without a script event that it knows, x is what it was.
LEMMA ForgottenParts ==
  ASSUME NEW x \in ScriptEvent, NEW C
  PROVE  /\ [x EXCEPT !.children = @ \ C] \in ScriptEvent
         /\ [x EXCEPT !.children = @ \ C].children = x.children \ C
         /\ [x EXCEPT !.children = @ \ C].place = x.place
         /\ [x EXCEPT !.children = @ \ C].handler = x.handler
         /\ [x EXCEPT !.children = @ \ C].key = x.key
         /\ [x EXCEPT !.children = @ \ C].time = x.time
         /\ [x EXCEPT !.children = @ \ C].autoAbort = x.autoAbort
         /\ [x EXCEPT !.children = @ \ C].parent = x.parent
         /\ [x EXCEPT !.children = @ \ C].started = x.started
         /\ [x EXCEPT !.children = @ \ C].aborted = x.aborted
BY DEF ScriptEvent

\* What a key that goes inactive makes of the script events: the kept ones of key 1
\* are freed, the others are as they were, but know them no more.
LEMMA FreedKeyFacts ==
  ASSUME TypeOK, 1 \in Keys, event' = FreedKey
  PROVE  /\ event' \in [Events -> ScriptEvent]
         /\ \A x \in Events \ ToSet(kept[1]) :
               /\ event'[x].children = event[x].children \ ToSet(kept[1])
               /\ event'[x].place = event[x].place /\ event'[x].handler = event[x].handler
               /\ event'[x].key = event[x].key /\ event'[x].time = event[x].time
               /\ event'[x].autoAbort = event[x].autoAbort /\ event'[x].parent = event[x].parent
               /\ event'[x].started = event[x].started /\ event'[x].aborted = event[x].aborted
         /\ \A x \in ToSet(kept[1]) :
               /\ x \in Events /\ event'[x].place = "pool" /\ event'[x].children = {}
               /\ event'[x].autoAbort = FALSE /\ event'[x].parent = NoEvent
               /\ event'[x].started = event[x].started /\ event'[x].aborted = event[x].aborted
<1> DEFINE C == ToSet(kept[1])
           base(x) == IF x \in C THEN Freed(x) ELSE event[x]
<1>1. event \in [Events -> ScriptEvent] /\ C \subseteq Events
  <2>1. event \in [Events -> ScriptEvent] /\ kept[1] \in Seq(Events)
    BY DEF TypeOK
  <2> QED
    BY <2>1, ElementsBySeq
<1>2. event' = [x \in Events |-> [base(x) EXCEPT !.children = @ \ C]]
  BY DEF FreedKey
<1> HIDE DEF C
<1>3. \A x \in Events : base(x) \in ScriptEvent
  BY <1>1, FreedParts
<1>4. \A x \in Events : event'[x] = [base(x) EXCEPT !.children = @ \ C]
  BY <1>2
<1>5. ASSUME NEW x \in Events
      PROVE  /\ event'[x] \in ScriptEvent
             /\ event'[x].children = base(x).children \ C
             /\ event'[x].place = base(x).place /\ event'[x].handler = base(x).handler
             /\ event'[x].key = base(x).key /\ event'[x].time = base(x).time
             /\ event'[x].autoAbort = base(x).autoAbort /\ event'[x].parent = base(x).parent
             /\ event'[x].started = base(x).started /\ event'[x].aborted = base(x).aborted
  <2> DEFINE y == base(x)
  <2>1. y \in ScriptEvent /\ event'[x] = [y EXCEPT !.children = @ \ C]
    BY <1>3, <1>4
  <2> HIDE DEF y
  <2>2. /\ event'[x] \in ScriptEvent /\ event'[x].children = y.children \ C
        /\ event'[x].place = y.place /\ event'[x].handler = y.handler
        /\ event'[x].key = y.key /\ event'[x].time = y.time
        /\ event'[x].autoAbort = y.autoAbort /\ event'[x].parent = y.parent
        /\ event'[x].started = y.started /\ event'[x].aborted = y.aborted
    BY <2>1, ForgottenParts
  <2> QED
    BY <2>2 DEF y
<1>6. event' \in [Events -> ScriptEvent]
  BY <1>2, <1>5
<1>7. ASSUME NEW x \in C
      PROVE  /\ x \in Events /\ event'[x].place = "pool" /\ event'[x].children = {}
             /\ event'[x].autoAbort = FALSE /\ event'[x].parent = NoEvent
             /\ event'[x].started = event[x].started /\ event'[x].aborted = event[x].aborted
  <2>1. x \in Events /\ base(x) = Freed(x) /\ event[x] \in ScriptEvent
    BY <1>1
  <2> QED
    BY <1>5, <2>1, FreedParts
<1> QED
  BY <1>5, <1>6, <1>7 DEF C

\* A key goes inactive, and no handler waits on a script event kept for key 1.
LEMMA FreeKeyKeepsIt ==
  ASSUME IInv, FreeKey, phase' # "ruined"
  PROVE  IInv'
<1> DEFINE C == ToSet(kept[1])
<1>1. /\ phase = "idle" /\ 1 \in Keys /\ phase' = phase /\ Queued \cap C = {}
      /\ event' = FreedKey /\ kept' = [kept EXCEPT ![1] = <<>>] /\ doomed' = doomed \ C
      /\ stale' = stale \cup {e \in C : ~IsClean(e)}
      /\ UNCHANGED <<script, queue, turn, running, received, now, last>>
  BY DEF FreeKey
<1>2. TypeOK /\ NoHandlerLost /\ AbortedRightly /\ NothingOverdue
  BY DEF IInv, Accounted
<1>3. running = NoEvent /\ turn = <<>> /\ NoEvent \notin Events
  BY <1>1, Bounds DEF IInv, PhaseInv
<1>4. /\ queue \in Seq(Events) /\ Queued \subseteq Events /\ C \subseteq Events
      /\ \A x \in Events : event[x] \in ScriptEvent
      /\ \A k \in Keys : ToSet(kept[k]) \subseteq Events /\ kept[k] \in Seq(Events)
  BY <1>1, <1>2, Basics
<1>5. /\ event' \in [Events -> ScriptEvent]
      /\ \A x \in Events \ C :
            /\ event'[x].children = event[x].children \ C
            /\ event'[x].place = event[x].place /\ event'[x].handler = event[x].handler
            /\ event'[x].key = event[x].key /\ event'[x].time = event[x].time
            /\ event'[x].autoAbort = event[x].autoAbort /\ event'[x].parent = event[x].parent
            /\ event'[x].started = event[x].started /\ event'[x].aborted = event[x].aborted
      /\ \A x \in C :
            /\ event'[x].place = "pool" /\ event'[x].children = {}
            /\ event'[x].autoAbort = FALSE /\ event'[x].parent = NoEvent
            /\ event'[x].started = event[x].started /\ event'[x].aborted = event[x].aborted
  BY <1>1, <1>2, FreedKeyFacts
<1>6. /\ kept' \in [Keys -> Seq(Events)] /\ kept'[1] = <<>>
      /\ \A k \in Keys \ {1} : kept'[k] = kept[k]
      /\ \A x \in ToSet(kept'[1]) : FALSE
  <2>0. <<>> \in Seq(Events)
    OBVIOUS
  <2>1. kept \in [Keys -> Seq(Events)] /\ <<>> \in Seq(Events)
    BY <1>2, <2>0 DEF TypeOK
  <2>2. /\ kept' \in [Keys -> Seq(Events)] /\ kept'[1] = <<>>
        /\ \A k \in Keys \ {1} : kept'[k] = kept[k]
    BY <1>1, <2>1
  <2>3. ToSet(<<>>) = {}
    BY DEF ToSet
  <2> QED
    BY <2>2, <2>3
<1>7. ASSUME NEW k \in Keys \ {1}, NEW x \in ToSet(kept[k]) PROVE x \in Events \ C
  <2>1. x \in Events /\ event[x].key = k
    BY <1>2, <1>4 DEF NoHandlerLost
  <2>2. x \in C => event[x].key = 1
    BY <1>1, <1>2 DEF NoHandlerLost
  <2> QED
    BY <2>1, <2>2
<1>8. Queued' = Queued /\ \A x \in Events : Resting(x)' <=> Resting(x)
  BY <1>1 DEF Queued, Resting
<1>9. \A x \in C : Resting(x) /\ event[x].place = "kept"
  BY <1>1, <1>2, <1>3, <1>4 DEF Resting, NoHandlerLost
<1> HIDE DEF C
<1>10. TypeOK'
  BY <1>1, <1>2, <1>4, <1>5, <1>6 DEF TypeOK
<1>11. NoHandlerLost'
  <2>1. ASSUME NEW x \in Events
        PROVE  event'[x].place = "events" <=> /\ x \in Queued' \cup {running'}
                                              /\ \A k \in Keys : x \notin ToSet(kept'[k])
    <3>1. CASE x \in C
      BY <3>1, <1>1, <1>3, <1>5, <1>8, <1>9 DEF Resting
    <3>2. CASE x \notin C
      <4>1. \A k \in Keys : x \in ToSet(kept'[k]) <=> x \in ToSet(kept[k])
        BY <3>2, <1>6 DEF C
      <4> QED
        BY <3>2, <4>1, <1>1, <1>2, <1>5, <1>8 DEF NoHandlerLost
    <3> QED
      BY <3>1, <3>2
  <2>2. ASSUME NEW k \in Keys
        PROVE  /\ IsInjective(kept'[k])
               /\ \A x \in ToSet(kept'[k]) :
                    /\ event'[x].place = "kept" /\ event'[x].key = k
                    /\ x \in Queued' => event'[x].started /\ event'[x].handler = "release"
    <3>1. CASE k = 1
      BY <3>1, <1>6 DEF IsInjective
    <3>2. CASE k # 1
      <4>1. IsInjective(kept'[k])
        BY <3>2, <1>2, <1>6 DEF NoHandlerLost
      <4>2. ASSUME NEW x \in ToSet(kept'[k])
            PROVE  /\ event'[x].place = "kept" /\ event'[x].key = k
                   /\ x \in Queued' => event'[x].started /\ event'[x].handler = "release"
        <5>1. x \in ToSet(kept[k]) /\ x \in Events \ C
          BY <3>2, <1>6, <1>7
        <5>2. /\ event[x].place = "kept" /\ event[x].key = k
              /\ x \in Queued => event[x].started /\ event[x].handler = "release"
          BY <5>1, <1>2 DEF NoHandlerLost
        <5> QED
          BY <5>1, <5>2, <1>5, <1>8
      <4> QED
        BY <4>1, <4>2
    <3> QED
      BY <3>1, <3>2
  <2>3. ASSUME NEW x \in Events, event'[x].place = "kept"
        PROVE  \E k \in Keys : x \in ToSet(kept'[k])
    <3>1. x \notin C /\ event[x].place = "kept"
      BY <2>3, <1>5
    <3>2. PICK k \in Keys : x \in ToSet(kept[k])
      BY <3>1, <1>2 DEF NoHandlerLost
    <3>3. k # 1
      BY <3>1, <3>2 DEF C
    <3> QED
      BY <3>2, <3>3, <1>6
  <2>4. /\ IsInjective(queue') /\ running' \notin Queued'
        /\ \A x \in ToSet(turn') : FALSE
    BY <1>1, <1>2, <1>3, <1>8 DEF NoHandlerLost, ToSet
  <2> QED
    BY <2>1, <2>2, <2>3, <2>4 DEF NoHandlerLost
<1>12. AbortedRightly'
  <2> SUFFICES ASSUME NEW x \in Events, x \notin stale'
               PROVE  event'[x].aborted <=> x \in doomed'
    BY DEF AbortedRightly
  <2>1. CASE x \in C
    BY <2>1, <1>1, <1>5 DEF IsClean
  <2>2. CASE x \notin C
    BY <2>2, <1>1, <1>2, <1>5 DEF AbortedRightly
  <2> QED
    BY <2>1, <2>2
<1>13. NothingOverdue'
  BY <1>1, <1>2, <1>4, <1>5, <1>8, <1>9 DEF NothingOverdue
<1>14. PhaseInv'
  BY <1>1 DEF IInv, PhaseInv
<1>15. QueueInv'
  <2>1. Sorted(queue', event')
    <3> SUFFICES ASSUME NEW i \in DOMAIN queue, NEW j \in DOMAIN queue, i < j
                 PROVE  event'[queue[i]].time <= event'[queue[j]].time
      BY <1>1 DEF Sorted
    <3>1. queue[i] \in Queued /\ queue[j] \in Queued
      BY DEF Queued, ToSet
    <3>2. event[queue[i]].time <= event[queue[j]].time
      BY DEF IInv, QueueInv, Sorted
    <3> QED
      BY <3>1, <3>2, <1>1, <1>4, <1>5
  <2> QED
    BY <1>1, <1>3, <2>1 DEF QueueInv
<1>16. KeptInv'
  <2>1. ASSUME NEW x \in Events, event'[x].place # "pool"
        PROVE  event'[x].handler \in Handlers /\ event'[x].key \in Keys
    <3>1. x \notin C
      BY <2>1, <1>5
    <3> QED
      BY <2>1, <3>1, <1>5 DEF IInv, KeptInv
  <2>2. ASSUME NEW k \in Keys, NEW x \in ToSet(kept'[k]), ~Resting(x)'
        PROVE  event'[x].handler = "release"
    <3>1. k # 1 /\ x \in ToSet(kept[k]) /\ x \in Events \ C
      BY <1>6, <1>7
    <3> QED
      BY <2>2, <3>1, <1>5, <1>8 DEF IInv, KeptInv
  <2>3. IsInjective(turn') /\ \A x \in ToSet(turn') : FALSE
    BY <1>1, <1>3 DEF IsInjective, ToSet
  <2> QED
    BY <2>1, <2>2, <2>3 DEF KeptInv
<1>17. ContextInv'
  <2> SUFFICES ASSUME NEW x \in Events
               PROVE  /\ event'[x].place = "pool" => x \notin doomed'
                      /\ Resting(x)' =>
                            event'[x].children = {} /\ (x \in stale' \/ ~event'[x].started)
    BY DEF ContextInv
  <2>1. CASE x \in C
    BY <2>1, <1>1, <1>5 DEF IsClean
  <2>2. CASE x \notin C
    BY <2>2, <1>1, <1>5, <1>8 DEF IInv, ContextInv
  <2> QED
    BY <2>1, <2>2
<1>18. FamilyInv'
  <2>1. ASSUME NEW x \in Events PROVE event'[x].children \subseteq Allocated'
    <3>1. event[x].children \subseteq Allocated
      BY DEF IInv, FamilyInv
    <3>2. Allocated \ C \subseteq Allocated'
      BY <1>5 DEF Allocated
    <3> QED
      BY <3>1, <3>2, <1>5
  <2>2. ASSUME NEW x \in Events, NEW c \in Events, event'[c].autoAbort
        PROVE  c \in event'[x].children <=> event'[c].parent = x
    <3>1. c \notin C /\ event[c].autoAbort /\ event'[c].parent = event[c].parent
      BY <2>2, <1>5
    <3>2. c \in event[x].children <=> event[c].parent = x
      BY <3>1 DEF IInv, FamilyInv
    <3>3. CASE x \in C
      <4>1. event[x].children = {} /\ event'[x].children = {}
        BY <3>3, <1>5, <1>9 DEF IInv, ContextInv
      <4> QED
        BY <3>1, <3>2, <4>1
    <3>4. CASE x \notin C
      BY <3>1, <3>2, <3>4, <1>5
    <3> QED
      BY <3>3, <3>4
  <2> QED
    BY <2>1, <2>2 DEF FamilyInv
<1> QED
  BY <1>1, <1>10, <1>11, <1>12, <1>13, <1>14, <1>15, <1>16, <1>17, <1>18 DEF IInv, Accounted

-----------------------------------------------------------------------------
(* MIDI events *)

\* x is the script event e with a handler that is about to start.
IsSpawned(x, e, place, h, k, t) ==
  /\ x \in ScriptEvent /\ x.place = place /\ x.handler = h /\ x.key = k /\ x.time = t
  /\ x.children = {} /\ x.autoAbort = FALSE
  /\ x.started = event[e].started /\ x.aborted = event[e].aborted

\* Spawned() makes such a script event.
LEMMA SpawnedParts ==
  ASSUME NEW e \in Events, event[e] \in ScriptEvent, NEW place \in {"events", "kept"},
         NEW h \in Handlers, NEW k \in Keys, NEW t \in 0..TimeBound
  PROVE  IsSpawned(Spawned(e, place, h, k, t), e, place, h, k, t)
<1>1. Freed(e) \in ScriptEvent
  BY FreedParts
<1>2. /\ Freed(e).children = {} /\ Freed(e).autoAbort = FALSE
      /\ Freed(e).started = event[e].started /\ Freed(e).aborted = event[e].aborted
  BY FreedParts
<1> QED
  BY <1>1, <1>2 DEF IsSpawned, Spawned, ScriptEvent

\* A handler starts on a script event e that was at rest: a free one, or a kept one
\* whose turn it is.
LEMMA SpawnKeepsIt ==
  ASSUME IInv, phase = "events", running = NoEvent,
         NEW e \in Events, Resting(e), e \notin ToSet(turn'),
         NEW place \in {"events", "kept"}, NEW h \in Handlers, NEW k \in Keys,
         NEW t \in 0..(FragmentSize - 1),
         NEW new, IsSpawned(new, e, place, h, k, t),
         running' = e, event' = [event EXCEPT ![e] = new],
         UNCHANGED <<script, phase, queue, kept, last, doomed, stale>>,
         \/ event[e].place = "pool" /\ place = "events"
         \/ event[e].place = "kept" /\ place = "kept" /\ h = "release" /\ k = event[e].key
            /\ \E n \in Keys : e \in ToSet(kept[n]),
         turn' \in Seq(Events), ToSet(turn') \subseteq ToSet(turn), IsInjective(turn'),
         received' \in 0..script.events, now' \in 0..(FragmentSize - 1)
  PROVE  IInv' /\ (e \in stale \/ ~event'[e].started)
<1>1. TypeOK /\ NoHandlerLost /\ AbortedRightly
  BY DEF IInv, Accounted
<1>2. /\ queue \in Seq(Events) /\ Queued \subseteq Events /\ e \notin Queued
      /\ \A x \in Events : event[x] \in ScriptEvent
      /\ ToSet(turn) \subseteq Events /\ \A n \in Keys : ToSet(kept[n]) \subseteq Events
      /\ \A x \in Events : event[x].place = "pool" =>
            Resting(x) /\ \A n \in Keys : x \notin ToSet(kept[n])
  BY <1>1, Basics DEF Resting
<1>3. t \in 0..TimeBound /\ t < FragmentSize /\ now' \in 0..FragmentSize /\ now' < FragmentSize
  BY Bounds
<1>4. /\ event'[e] \in ScriptEvent /\ event'[e].place = place /\ event'[e].handler = h
      /\ event'[e].key = k /\ event'[e].time = t /\ event'[e].children = {}
      /\ event'[e].autoAbort = FALSE
      /\ event'[e].started = event[e].started /\ event'[e].aborted = event[e].aborted
  <2>1. event'[e] = new
    BY <1>1 DEF TypeOK
  <2> QED
    BY <2>1 DEF IsSpawned
<1>5. \A x \in Events : x # e => event'[x] = event[x]
  BY <1>1 DEF TypeOK
<1>6. Queued' = Queued /\ NoEvent \notin Events /\ e # NoEvent
  BY Bounds DEF Queued
<1>7. \A x \in Events : Resting(x)' <=> (Resting(x) /\ x # e)
  BY <1>6 DEF Resting
<1>8. (e \in stale \/ ~event[e].started) /\ event[e].children = {}
  BY DEF IInv, ContextInv
<1>9. TypeOK'
  <2>1. event' \in [Events -> ScriptEvent]
    <3>1. \A x \in Events : event'[x] \in ScriptEvent
      BY <1>2, <1>4, <1>5
    <3> QED
      BY <3>1, <1>1 DEF TypeOK
  <2> QED
    BY <1>1, <1>3, <2>1 DEF TypeOK
<1>10. NoHandlerLost'
  <2>1. ASSUME NEW x \in Events
        PROVE  event'[x].place = "events" <=> /\ x \in Queued' \cup {running'}
                                              /\ \A n \in Keys : x \notin ToSet(kept'[n])
    <3>1. CASE x # e
      BY <3>1, <1>1, <1>5, <1>6 DEF NoHandlerLost
    <3>2. CASE x = e
      BY <3>2, <1>2, <1>4, <1>6
    <3> QED
      BY <3>1, <3>2
  <2>2. ASSUME NEW n \in Keys
        PROVE  /\ IsInjective(kept'[n])
               /\ \A x \in ToSet(kept'[n]) :
                    /\ event'[x].place = "kept" /\ event'[x].key = n
                    /\ x \in Queued' => event'[x].started /\ event'[x].handler = "release"
    <3>1. IsInjective(kept'[n])
      BY <1>1 DEF NoHandlerLost
    <3>2. ASSUME NEW x \in ToSet(kept'[n])
          PROVE  /\ event'[x].place = "kept" /\ event'[x].key = n
                 /\ x \in Queued' => event'[x].started /\ event'[x].handler = "release"
      <4>1. x \in Events /\ x \in ToSet(kept[n])
        BY <1>2
      <4>2. /\ event[x].place = "kept" /\ event[x].key = n
            /\ x \in Queued => event[x].started /\ event[x].handler = "release"
        BY <4>1, <1>1 DEF NoHandlerLost
      <4>3. CASE x = e
        BY <4>2, <4>3, <1>2, <1>4, <1>6
      <4>4. CASE x # e
        BY <4>1, <4>2, <4>4, <1>5, <1>6
      <4> QED
        BY <4>3, <4>4
    <3> QED
      BY <3>1, <3>2
  <2>3. ASSUME NEW x \in ToSet(turn')
        PROVE  event'[x].place = "kept" /\ x \notin Queued' \cup {running'}
    <3>1. x \in Events /\ x \in ToSet(turn) /\ x # e
      BY <1>2
    <3> QED
      BY <3>1, <1>1, <1>5, <1>6 DEF NoHandlerLost
  <2>4. IsInjective(queue') /\ running' \notin Queued'
    BY <1>1, <1>2, <1>6 DEF NoHandlerLost
  <2>5. \A x \in Events : event'[x].place = "kept" => \E n \in Keys : x \in ToSet(kept'[n])
    BY <1>1, <1>4, <1>5 DEF NoHandlerLost
  <2> QED
    BY <2>1, <2>2, <2>3, <2>4, <2>5 DEF NoHandlerLost
<1>11. AbortedRightly'
  BY <1>1, <1>4, <1>5 DEF AbortedRightly
<1>12. NothingOverdue'
  BY DEF NothingOverdue
<1>13. PhaseInv'
  BY <1>3 DEF IInv, PhaseInv
<1>14. QueueInv'
  <2>1. Sorted(queue', event')
    <3> SUFFICES ASSUME NEW i \in DOMAIN queue, NEW j \in DOMAIN queue, i < j
                 PROVE  event'[queue[i]].time <= event'[queue[j]].time
      BY DEF Sorted
    <3>1. queue[i] \in Queued /\ queue[j] \in Queued
      BY DEF Queued, ToSet
    <3>2. event[queue[i]].time <= event[queue[j]].time
      BY DEF IInv, QueueInv, Sorted
    <3> QED
      BY <3>1, <3>2, <1>2, <1>5
  <2> QED
    BY <1>3, <1>4, <2>1 DEF QueueInv
<1>15. KeptInv'
  <2>1. ASSUME NEW x \in Events, event'[x].place # "pool"
        PROVE  event'[x].handler \in Handlers /\ event'[x].key \in Keys
    BY <2>1, <1>4, <1>5 DEF IInv, KeptInv
  <2>2. ASSUME NEW n \in Keys, NEW x \in ToSet(kept'[n]), ~Resting(x)'
        PROVE  event'[x].handler = "release"
    <3>1. x \in Events /\ x \in ToSet(kept[n])
      BY <1>2
    <3>2. CASE x = e
      BY <3>1, <3>2, <1>2, <1>4
    <3>3. CASE x # e
      BY <2>2, <3>1, <3>3, <1>5, <1>7 DEF IInv, KeptInv
    <3> QED
      BY <3>2, <3>3
  <2>3. \A x \in ToSet(turn') : \E n \in Keys : x \in ToSet(kept'[n])
    BY DEF IInv, KeptInv
  <2> QED
    BY <2>1, <2>2, <2>3 DEF KeptInv
<1>16. ContextInv'
  <2> SUFFICES ASSUME NEW x \in Events
               PROVE  /\ event'[x].place = "pool" => x \notin doomed'
                      /\ Resting(x)' =>
                            event'[x].children = {} /\ (x \in stale' \/ ~event'[x].started)
    BY DEF ContextInv
  <2>1. CASE x = e
    BY <2>1, <1>4, <1>7
  <2>2. CASE x # e
    BY <2>2, <1>5, <1>7 DEF IInv, ContextInv
  <2> QED
    BY <2>1, <2>2
<1>17. FamilyInv'
  <2>1. Allocated \subseteq Allocated'
    BY <1>4, <1>5 DEF Allocated
  <2>2. \A x \in Events : event'[x].children = event[x].children
    BY <1>4, <1>5, <1>8
  <2>3. ASSUME NEW x \in Events, NEW c \in Events, event'[c].autoAbort
        PROVE  c \in event'[x].children <=> event'[c].parent = x
    BY <2>2, <2>3, <1>4, <1>5 DEF IInv, FamilyInv
  <2>4. \A x \in Events : event'[x].children \subseteq Allocated'
    BY <2>1, <2>2 DEF IInv, FamilyInv
  <2> QED
    BY <2>3, <2>4 DEF FamilyInv
<1> QED
  BY <1>4, <1>8, <1>9, <1>10, <1>11, <1>12, <1>13, <1>14, <1>15, <1>16, <1>17
  DEF IInv, Accounted

\* No handler starts at once: the kept events of a note have to be released first, or
\* the pool is empty.
LEMMA QuietReceiveKeepsIt ==
  ASSUME IInv, phase = "events",
         UNCHANGED <<script, phase, event, queue, kept, running, last, doomed, stale>>,
         turn' \in Seq(Events), IsInjective(turn'),
         \A x \in ToSet(turn') : Resting(x) /\ \E k \in Keys : x \in ToSet(kept[k]),
         received' \in 0..script.events, now' \in 0..(FragmentSize - 1)
  PROVE  IInv'
<1>1. TypeOK /\ NoHandlerLost /\ AbortedRightly
  BY DEF IInv, Accounted
<1>2. now' \in 0..FragmentSize /\ now' < FragmentSize
  BY FragmentLength
<1>3. Queued' = Queued /\ \A x \in Events : Resting(x)' <=> Resting(x)
  BY DEF Queued, Resting
<1>4. TypeOK'
  BY <1>1, <1>2 DEF TypeOK
<1>5. NoHandlerLost'
  <2>1. ASSUME NEW x \in ToSet(turn')
        PROVE  event'[x].place = "kept" /\ x \notin Queued' \cup {running'}
    BY <1>1, <1>3 DEF NoHandlerLost, Resting
  <2>2. /\ \A x \in Events : event'[x].place = "events" <=>
              x \in Queued' \cup {running'} /\ \A k \in Keys : x \notin ToSet(kept'[k])
        /\ IsInjective(queue') /\ running' \notin Queued'
    BY <1>1, <1>3 DEF NoHandlerLost
  <2>3. \A k \in Keys :
           /\ IsInjective(kept'[k])
           /\ \A x \in ToSet(kept'[k]) :
                /\ event'[x].place = "kept" /\ event'[x].key = k
                /\ x \in Queued' => event'[x].started /\ event'[x].handler = "release"
    BY <1>1, <1>3 DEF NoHandlerLost
  <2>4. \A x \in Events : event'[x].place = "kept" => \E k \in Keys : x \in ToSet(kept'[k])
    BY <1>1 DEF NoHandlerLost
  <2> QED
    BY <2>1, <2>2, <2>3, <2>4 DEF NoHandlerLost
<1>6. AbortedRightly' /\ NothingOverdue'
  BY <1>1 DEF AbortedRightly, NothingOverdue
<1>7. PhaseInv'
  BY <1>2 DEF IInv, PhaseInv
<1>8. QueueInv'
  BY DEF IInv, QueueInv, Sorted
<1>9. KeptInv'
  <2>1. \A k \in Keys : ToSet(kept[k]) \subseteq Events
    BY <1>1, Basics
  <2> QED
    BY <1>3, <2>1 DEF IInv, KeptInv
<1>10. ContextInv'
  BY <1>3 DEF IInv, ContextInv
<1>11. FamilyInv'
  BY DEF IInv, FamilyInv, Allocated
<1> QED
  BY <1>4, <1>5, <1>6, <1>7, <1>8, <1>9, <1>10, <1>11 DEF IInv, Accounted

\* A MIDI event that spawns a handler does so on a free script event, at its beginning.
LEMMA ReceiveKeepsIt ==
  ASSUME IInv, Receive, phase' # "ruined"
  PROVE  IInv' /\ (running' \notin stale \cup {NoEvent} => ~event'[running'].started)
<1>1. /\ phase = "events" /\ running = NoEvent /\ turn = <<>> /\ received < script.events
      /\ received' = received + 1 /\ UNCHANGED <<script, phase, queue, kept, last, doomed, stale>>
  BY DEF Receive
<1>2. PICK h \in script.handlers, k \in Keys, t \in now..(FragmentSize - 1) :
         /\ now' = t
         /\ ~Breaks(h, k)
         /\ IF RecyclesKept(h, k) THEN turn' = kept[k] /\ UNCHANGED <<event, running>>
            ELSE SpawnNew(h, k, t)
  BY DEF Receive
<1>3. TypeOK /\ NoHandlerLost
  BY DEF IInv, Accounted
<1>4. h \in Handlers /\ script.events \in Nat
  <2>1. script \in Scripts
    BY <1>3 DEF TypeOK
  <2>2. script.handlers \subseteq {"note", "release"} /\ script.events \in Nat
    BY <2>1, ScriptEventsAssumption
  <2> QED
    BY <2>2 DEF Handlers
<1>5. received' \in 0..script.events
  <2>1. received \in 0..script.events
    BY <1>3 DEF TypeOK
  <2> QED
    BY <1>1, <1>4, <2>1
<1>6. t \in 0..(FragmentSize - 1)
  <2>1. now \in 0..FragmentSize
    BY <1>3 DEF TypeOK
  <2> QED
    BY <2>1, FragmentLength
<1>7. CASE RecyclesKept(h, k)
  <2>1. turn' = kept[k] /\ event' = event /\ running' = running /\ now' = t
        /\ Queued \cap ToSet(kept[k]) = {}
    BY <1>2, <1>7 DEF Breaks
  <2>2. kept[k] \in Seq(Events) /\ IsInjective(kept[k]) /\ ToSet(kept[k]) \subseteq Events
    BY <1>3, Basics DEF NoHandlerLost
  <2>3. \A x \in ToSet(kept[k]) : Resting(x)
    BY <1>1, <2>1, <2>2, Bounds DEF Resting
  <2>4. IInv'
    BY <1>1, <1>5, <1>6, <2>1, <2>2, <2>3, QuietReceiveKeepsIt
  <2> QED
    BY <1>1, <2>1, <2>4
<1>8. CASE ~RecyclesKept(h, k)
  <2>1. SpawnNew(h, k, t) /\ now' = t
    BY <1>2, <1>8
  <2>2. turn' = <<>>
    BY <2>1 DEF SpawnNew
  <2>3. turn' \in Seq(Events) /\ IsInjective(turn') /\ ToSet(turn') = {}
    BY <2>2 DEF IsInjective, ToSet
  <2>4. CASE Free = {}
    <3>1. event' = event /\ running' = running
      BY <2>1, <2>4 DEF SpawnNew
    <3>2. IInv'
      BY <1>1, <1>5, <1>6, <2>1, <2>3, <3>1, QuietReceiveKeepsIt
    <3> QED
      BY <1>1, <3>1, <3>2
  <2>5. CASE Free # {}
    <3> DEFINE e == Min(Free)
               new == Spawned(e, "events", h, k, t)
    <3>1. running' = e /\ event' = [event EXCEPT ![e] = new]
      BY <2>1, <2>5 DEF SpawnNew
    <3>2. e \in Free
      <4>1. Free \in SUBSET Nat
        BY Bounds DEF Free
      <4> QED
        BY <2>5, <4>1, MinIsMember
    <3>3. e \in Events /\ event[e].place = "pool"
      BY <3>2 DEF Free, Allocated
    <3> HIDE DEF e
    <3>4. Resting(e) /\ event[e] \in ScriptEvent /\ t \in 0..TimeBound
      BY <1>3, <1>6, <3>3, Basics, Bounds
    <3>5. IsSpawned(new, e, "events", h, k, t)
      BY <1>4, <3>3, <3>4, SpawnedParts
    <3> HIDE DEF new
    <3>6. e \notin ToSet(turn') /\ ToSet(turn') \subseteq ToSet(turn)
      BY <2>3
    <3>7. now' \in 0..(FragmentSize - 1)
      BY <1>6, <2>1
    <3>8. "events" \in {"events", "kept"}
      OBVIOUS
    <3>9. IInv' /\ (e \in stale \/ ~event'[e].started)
      BY <1>1, <1>4, <1>5, <1>6, <2>3, <3>1, <3>3, <3>4, <3>5, <3>6, <3>7, <3>8, SpawnKeepsIt
    <3> QED
      BY <3>1, <3>9
  <2> QED
    BY <2>4, <2>5
<1> QED
  BY <1>7, <1>8

\* The release handler of a note starts on the script event that was kept for it.
LEMMA ReleaseKeptKeepsIt ==
  ASSUME IInv, ReleaseKept
  PROVE  IInv' /\ (running' \in stale \/ ~event'[running'].started)
<1> DEFINE e == Head(turn)
           new == Spawned(e, "kept", "release", event[e].key, now)
<1>1. /\ turn # <<>> /\ running = NoEvent /\ running' = e /\ turn' = Tail(turn)
      /\ event' = [event EXCEPT ![e] = new]
      /\ UNCHANGED <<script, phase, queue, kept, received, now, last, doomed, stale>>
  BY DEF ReleaseKept
<1>2. TypeOK /\ NoHandlerLost /\ turn \in Seq(Events) /\ IsInjective(turn)
  BY Basics DEF IInv, Accounted, KeptInv
<1>3. /\ e \in Events /\ e \in ToSet(turn) /\ Tail(turn) \in Seq(Events)
      /\ ToSet(Tail(turn)) = ToSet(turn) \ {e} /\ IsInjective(Tail(turn))
  BY <1>1, <1>2, ElementsTail
<1>4. phase = "events"
  BY <1>1 DEF IInv, PhaseInv
<1> HIDE DEF e
<1>5. event[e].place = "kept" /\ Resting(e) /\ \E k \in Keys : e \in ToSet(kept[k])
  BY <1>2, <1>3 DEF NoHandlerLost, Resting, IInv, KeptInv
<1>6. event[e].key \in Keys /\ event[e] \in ScriptEvent /\ "release" \in Handlers
  BY <1>2, <1>3, <1>5, Basics DEF IInv, KeptInv, Handlers
<1>7. now \in 0..(FragmentSize - 1) /\ now \in 0..TimeBound /\ received \in 0..script.events
  <2>1. now \in 0..FragmentSize /\ now < FragmentSize /\ received \in 0..script.events
    BY <1>2 DEF IInv, PhaseInv, TypeOK
  <2> QED
    BY <2>1, Bounds
<1>8. IsSpawned(new, e, "kept", "release", event[e].key, now)
  BY <1>3, <1>6, <1>7, SpawnedParts
<1> HIDE DEF new
<1>9. /\ e \notin ToSet(turn') /\ ToSet(turn') \subseteq ToSet(turn)
      /\ turn' \in Seq(Events) /\ IsInjective(turn')
  BY <1>1, <1>3
<1>10. received' \in 0..script.events /\ now' \in 0..(FragmentSize - 1)
  BY <1>1, <1>7
<1>11. "kept" \in {"events", "kept"}
  OBVIOUS
<1>12. IInv' /\ (e \in stale \/ ~event'[e].started)
  BY <1>1, <1>3, <1>4, <1>5, <1>6, <1>7, <1>8, <1>9, <1>10, <1>11, SpawnKeepsIt
<1> QED
  BY <1>1, <1>12

-----------------------------------------------------------------------------
(* The virtual machine: waits *)

\* x is the script event y scheduled for time t.
IsScheduled(x, y, t) ==
  /\ x \in ScriptEvent /\ x.time = t
  /\ x.place = y.place /\ x.handler = y.handler /\ x.key = y.key /\ x.children = y.children
  /\ x.autoAbort = y.autoAbort /\ x.parent = y.parent /\ x.aborted = y.aborted

\* Suspend() makes such a script event, in the middle of its handler,
LEMMA SuspendedParts ==
  ASSUME NEW x \in ScriptEvent, NEW t \in 0..TimeBound
  PROVE  /\ IsScheduled([x EXCEPT !.time = t, !.started = TRUE], x, t)
         /\ [x EXCEPT !.time = t, !.started = TRUE].started = TRUE
BY DEF IsScheduled, ScriptEvent

\* and so does stop_wait(), which leaves its stack alone.
LEMMA HastenedParts ==
  ASSUME NEW x \in ScriptEvent, NEW t \in 0..TimeBound, NEW b \in BOOLEAN
  PROVE  /\ IsScheduled([x EXCEPT !.ignoreWaits = b, !.time = t], x, t)
         /\ [x EXCEPT !.ignoreWaits = b, !.time = t].started = x.started
BY DEF IsScheduled, ScriptEvent

\* A list of one element
LEMMA Single ==
  ASSUME NEW e \in Events
  PROVE  <<e>> \in Seq(Events) /\ ToSet(<<e>>) = {e} /\ IsInjective(<<e>>)
<1>1. <<e>> \in Seq(Events) /\ DOMAIN <<e>> = {1} /\ <<e>>[1] = e
  OBVIOUS
<1> QED
  BY <1>1 DEF ToSet, IsInjective

\* The running handler, or one that waits, is put into the queue for a time that is
\* later than that of the running handler.
LEMMA ScheduleKeepsIt ==
  ASSUME IInv, running # NoEvent, NEW e \in Events,
         NEW q \in Seq(Events), IsInjective(q), ToSet(q) = Queued \ {e}, Sorted(q, event),
         NEW t \in 0..TimeBound, event[running].time < t, queue' = Enqueue(q, <<e>>, t),
         NEW new, IsScheduled(new, event[e], t), event' = [event EXCEPT ![e] = new],
         \/ e = running /\ running' = NoEvent /\ new.started = TRUE
         \/ e \in Queued /\ running' = running /\ new.started = event[e].started,
         UNCHANGED <<script, phase, kept, turn, received, now, last, doomed, stale>>
  PROVE  IInv'
<1>1. TypeOK /\ NoHandlerLost /\ AbortedRightly
  BY DEF IInv, Accounted
<1>2. /\ queue \in Seq(Events) /\ Queued \subseteq Events /\ running \in Events
      /\ running \notin Queued
      /\ \A x \in Events : event[x] \in ScriptEvent /\ event[x].time \in Int
      /\ ToSet(turn) \subseteq Events /\ \A k \in Keys : ToSet(kept[k]) \subseteq Events
  BY <1>1, Basics
<1>3. NoEvent \notin Events
  BY Bounds
<1>4. /\ event'[e] = new /\ event'[e] \in ScriptEvent /\ event'[e].time = t
      /\ event'[e].place = event[e].place /\ event'[e].handler = event[e].handler
      /\ event'[e].key = event[e].key /\ event'[e].children = event[e].children
      /\ event'[e].autoAbort = event[e].autoAbort /\ event'[e].parent = event[e].parent
      /\ event'[e].aborted = event[e].aborted
  <2>1. event'[e] = new
    BY <1>1 DEF TypeOK
  <2> QED
    BY <2>1 DEF IsScheduled
<1>5. \A x \in Events : x # e => event'[x] = event[x]
  BY <1>1 DEF TypeOK
<1>6. ~Resting(e)
  BY DEF Resting
<1>7. t \in Int /\ t >= 0
  BY Bounds
<1>8. /\ queue' \in Seq(Events) /\ Queued' = Queued \cup {e} /\ IsInjective(queue')
      /\ Sorted(queue', event')
  <2>1. <<e>> \in Seq(Events) /\ ToSet(<<e>>) = {e} /\ IsInjective(<<e>>)
    BY Single
  <2>2. \A x \in ToSet(q) : event'[x].time = event[x].time
    BY <1>2, <1>5
  <2>3. \A x \in ToSet(<<e>>) : event'[x].time = t
    BY <2>1, <1>4
  <2>4. ToSet(q) \cap ToSet(<<e>>) = {} /\ \A x \in Events : event[x].time \in Int
    BY <2>1, <1>2
  <2> DEFINE s == <<e>>
             events == event'
  <2>5. /\ s \in Seq(Events) /\ IsInjective(s) /\ ToSet(q) \cap ToSet(s) = {} /\ ToSet(s) = {e}
        /\ \A x \in ToSet(q) : events[x].time = event[x].time
        /\ \A x \in ToSet(s) : events[x].time = t
    BY <2>1, <2>2, <2>3, <2>4
  <2> HIDE DEF s, events
  <2>6. /\ Enqueue(q, s, t) \in Seq(Events) /\ ToSet(Enqueue(q, s, t)) = ToSet(q) \cup ToSet(s)
        /\ IsInjective(Enqueue(q, s, t)) /\ Sorted(Enqueue(q, s, t), events)
    BY <2>4, <2>5, <1>7, EnqueueFacts
  <2>7. queue' = Enqueue(q, s, t)
    BY DEF s
  <2> QED
    BY <2>5, <2>6, <2>7 DEF events, Queued
<1>9. running' \notin Queued' /\ \A x \in Events : Resting(x)' <=> Resting(x)
  <2>1. CASE e = running /\ running' = NoEvent
    BY <2>1, <1>2, <1>3, <1>8 DEF Resting
  <2>2. CASE e \in Queued /\ running' = running
    BY <2>2, <1>2, <1>8 DEF Resting
  <2> QED
    BY <2>1, <2>2
<1>10. TypeOK'
  <2>1. event' \in [Events -> ScriptEvent]
    <3>1. \A x \in Events : event'[x] \in ScriptEvent
      BY <1>2, <1>4, <1>5
    <3> QED
      BY <3>1, <1>1 DEF TypeOK
  <2>2. running' \in Events \cup {NoEvent}
    BY <1>2
  <2> QED
    BY <1>1, <1>8, <2>1, <2>2 DEF TypeOK
<1>11. NoHandlerLost'
  <2>1. \A x \in Events : event'[x].place = event[x].place /\ event'[x].key = event[x].key
    BY <1>4, <1>5
  <2>2. ASSUME NEW x \in Queued'
        PROVE  \/ event'[x].started /\ event'[x].handler = "release"
               \/ /\ x \in Queued /\ event'[x].started = event[x].started
                  /\ event'[x].handler = event[x].handler
               \/ event[x].place = "events"
    <3>1. CASE x # e
      BY <3>1, <1>2, <1>5, <1>8
    <3>2. CASE x = e /\ e \in Queued /\ new.started = event[e].started
      BY <3>2, <1>4
    <3>3. CASE x = e /\ e = running /\ new.started = TRUE
      <4>1. CASE \A k \in Keys : e \notin ToSet(kept[k])
        BY <3>3, <4>1, <1>1 DEF NoHandlerLost
      <4>2. CASE \E k \in Keys : e \in ToSet(kept[k])
        BY <3>3, <4>2, <1>4, <1>6 DEF IInv, KeptInv
      <4> QED
        BY <4>1, <4>2
    <3> QED
      BY <3>1, <3>2, <3>3
  <2>3. kept' = kept /\ ToSet(turn') \subseteq ToSet(turn)
    OBVIOUS
  <2> QED
    BY <1>1, <1>8, <1>9, <2>1, <2>2, <2>3, StillAccounted
<1>12. AbortedRightly'
  BY <1>1, <1>4, <1>5 DEF AbortedRightly
<1>13. phase # "idle"
  BY DEF IInv, PhaseInv
<1>14. NothingOverdue'
  BY <1>13 DEF NothingOverdue
<1>15. PhaseInv'
  BY <1>13 DEF IInv, PhaseInv
<1>16. QueueInv'
  <2>1. ASSUME phase' \in {"resume", "resume again"}, NEW x \in Events, ~Resting(x)'
        PROVE  last' <= event'[x].time
    <3>1. last <= event[x].time /\ last <= event[running].time /\ last \in Int
      <4>1. ~Resting(x) /\ ~Resting(running)
        BY <2>1, <1>9 DEF Resting
      <4>2. last \in 0..FragmentSize
        BY <1>1 DEF TypeOK
      <4>3. last \in Int
        BY <4>2, FragmentLength
      <4> QED
        BY <2>1, <4>1, <4>3, <1>2 DEF IInv, QueueInv
    <3>2. CASE x = e
      BY <3>1, <3>2, <1>2, <1>4, <1>7
    <3>3. CASE x # e
      BY <3>1, <3>3, <1>5
    <3> QED
      BY <3>2, <3>3
  <2>2. ASSUME running' # NoEvent PROVE event'[running'].time < FragmentSize
    <3>1. running' = running /\ running # e
      BY <2>2, <1>2
    <3> QED
      BY <3>1, <1>2, <1>5 DEF IInv, QueueInv
  <2> QED
    BY <1>8, <2>1, <2>2 DEF QueueInv
<1>17. KeptInv'
  <2>1. \A x \in Events : /\ event'[x].place = event[x].place
                          /\ event'[x].handler = event[x].handler /\ event'[x].key = event[x].key
    BY <1>4, <1>5
  <2> QED
    BY <1>2, <1>9, <2>1 DEF IInv, KeptInv
<1>18. ContextInv'
  <2> SUFFICES ASSUME NEW x \in Events
               PROVE  /\ event'[x].place = "pool" => x \notin doomed'
                      /\ Resting(x)' =>
                            event'[x].children = {} /\ (x \in stale' \/ ~event'[x].started)
    BY DEF ContextInv
  <2>1. CASE x = e
    BY <2>1, <1>4, <1>6, <1>9 DEF IInv, ContextInv
  <2>2. CASE x # e
    BY <2>2, <1>5, <1>9 DEF IInv, ContextInv
  <2> QED
    BY <2>1, <2>2
<1>19. FamilyInv'
  <2>1. \A x \in Events : /\ event'[x].place = event[x].place
                          /\ event'[x].children = event[x].children
                          /\ event'[x].autoAbort = event[x].autoAbort
                          /\ event'[x].parent = event[x].parent
    BY <1>4, <1>5
  <2>2. Allocated' = Allocated
    BY <2>1 DEF Allocated
  <2> QED
    BY <2>1, <2>2 DEF IInv, FamilyInv
<1> QED
  BY <1>10, <1>11, <1>12, <1>14, <1>15, <1>16, <1>17, <1>18, <1>19 DEF IInv, Accounted

\* A handler that waits is resumed later than it ran.
LEMMA SuspendKeepsIt ==
  ASSUME IInv, running # NoEvent, NEW d \in 0..MaxWait \cup {ForcedWait},
         Suspend(running, Delay(d)),
         UNCHANGED <<script, phase, kept, turn, received, now, last, doomed, stale>>
  PROVE  IInv'
<1> DEFINE t == event[running].time + Delay(d)
           new == [event[running] EXCEPT !.time = t, !.started = TRUE]
<1>1. TypeOK /\ NoHandlerLost
  BY DEF IInv, Accounted
<1>2. /\ queue \in Seq(Events) /\ IsInjective(queue) /\ running \in Events
      /\ running \notin Queued /\ event[running] \in ScriptEvent
  BY <1>1, Basics
<1>3. t \in 0..TimeBound /\ event[running].time < t
  <2>1. event[running].time \in 0..TimeBound /\ event[running].time < FragmentSize
    BY <1>2, Parts DEF IInv, QueueInv
  <2>2. /\ Delay(d) \in Nat /\ Delay(d) > 0 /\ FragmentSize + Delay(d) <= TimeBound
        /\ TimeBound \in Nat /\ FragmentSize \in Nat
    BY Bounds
  <2> QED
    BY <2>1, <2>2
<1>4. /\ event' = [event EXCEPT ![running].time = t, ![running].started = TRUE]
      /\ queue' = Enqueue(queue, <<running>>, t) /\ running' = NoEvent
  BY DEF Suspend
<1>5. event' = [event EXCEPT ![running] = new]
  BY <1>1, <1>2, <1>4 DEF TypeOK
<1> HIDE DEF t
<1>6. IsScheduled(new, event[running], t) /\ new.started = TRUE
  BY <1>2, <1>3, SuspendedParts
<1> HIDE DEF new
<1>7. ToSet(queue) = Queued \ {running} /\ Sorted(queue, event)
  BY <1>2 DEF Queued, IInv, QueueInv
<1> QED
  BY <1>2, <1>3, <1>4, <1>5, <1>6, <1>7, ScheduleKeepsIt

\* wait()
LEMMA WaitKeepsIt ==
  ASSUME IInv, Wait
  PROVE  IInv'
<1>1. PICK d \in 0..MaxWait : Suspend(running, Delay(d))
  BY DEF Wait
<1>2. /\ running # NoEvent /\ d \in 0..MaxWait \cup {ForcedWait}
      /\ UNCHANGED <<script, phase, kept, turn, received, now, last, doomed, stale>>
  BY DEF Wait, Executes
<1> QED
  BY <1>1, <1>2, SuspendKeepsIt

\* A handler that has run for too long
LEMMA ForcedSuspensionKeepsIt ==
  ASSUME IInv, ForcedSuspension
  PROVE  IInv'
<1>1. /\ running # NoEvent /\ Suspend(running, Delay(ForcedWait))
      /\ ForcedWait \in 0..MaxWait \cup {ForcedWait}
      /\ UNCHANGED <<script, phase, kept, turn, received, now, last, doomed, stale>>
  BY DEF ForcedSuspension, Executes
<1> QED
  BY <1>1, SuspendKeepsIt

-----------------------------------------------------------------------------
(* The virtual machine: stop_wait() and abort() *)

\* A flag of one script event changes, and who is doomed with it.
LEMMA FlagKeepsIt ==
  ASSUME IInv, NEW e \in Events, NEW new \in ScriptEvent,
         IsScheduled(new, [event[e] EXCEPT !.aborted = new.aborted], event[e].time),
         new.started = event[e].started, event' = [event EXCEPT ![e] = new],
         e \in Allocated, e \notin stale => (new.aborted <=> e \in doomed'), doomed' \subseteq Events,
         \A x \in Events : x # e => (x \in doomed' <=> x \in doomed),
         UNCHANGED <<script, phase, queue, kept, turn, running, received, now, last, stale>>
  PROVE  IInv'
<1>1. TypeOK /\ NoHandlerLost /\ AbortedRightly
  BY DEF IInv, Accounted
<1>2. /\ queue \in Seq(Events) /\ Queued \subseteq Events
      /\ \A x \in Events : event[x] \in ScriptEvent
      /\ ToSet(turn) \subseteq Events /\ \A k \in Keys : ToSet(kept[k]) \subseteq Events
  BY <1>1, Basics
<1>3. /\ event'[e] = new /\ event'[e] \in ScriptEvent /\ event'[e].time = event[e].time
      /\ event'[e].place = event[e].place /\ event'[e].handler = event[e].handler
      /\ event'[e].key = event[e].key /\ event'[e].children = event[e].children
      /\ event'[e].autoAbort = event[e].autoAbort /\ event'[e].parent = event[e].parent
      /\ event'[e].started = event[e].started
  <2>1. event'[e] = new /\ event[e] \in ScriptEvent
    BY <1>1 DEF TypeOK
  <2> QED
    BY <2>1 DEF IsScheduled, ScriptEvent
<1>4. ASSUME NEW x \in Events
      PROVE  /\ event'[x] \in ScriptEvent /\ event'[x].time = event[x].time
             /\ event'[x].place = event[x].place /\ event'[x].handler = event[x].handler
             /\ event'[x].key = event[x].key /\ event'[x].children = event[x].children
             /\ event'[x].autoAbort = event[x].autoAbort /\ event'[x].parent = event[x].parent
             /\ event'[x].started = event[x].started
             /\ x # e => event'[x].aborted = event[x].aborted
  <2>1. CASE x = e
    BY <2>1, <1>3
  <2>2. CASE x # e
    <3>1. event'[x] = event[x]
      BY <2>2, <1>1 DEF TypeOK
    <3> QED
      BY <2>2, <3>1, <1>2
  <2> QED
    BY <2>1, <2>2
<1>5. Queued' = Queued /\ \A x \in Events : Resting(x)' <=> Resting(x)
  BY DEF Queued, Resting
<1>6. TypeOK'
  <2>1. event' \in [Events -> ScriptEvent]
    BY <1>1, <1>4 DEF TypeOK
  <2> QED
    BY <1>1, <2>1 DEF TypeOK
<1>7. NoHandlerLost'
  <2>1. \A x \in Events : event'[x].place = event[x].place /\ event'[x].key = event[x].key
    BY <1>4
  <2>2. \A x \in Queued' : /\ x \in Queued /\ event'[x].started = event[x].started
                           /\ event'[x].handler = event[x].handler
    BY <1>2, <1>4, <1>5
  <2>3. IsInjective(queue') /\ running' \notin Queued'
    BY <1>1, <1>5 DEF NoHandlerLost
  <2>4. kept' = kept /\ ToSet(turn') \subseteq ToSet(turn)
    OBVIOUS
  <2> QED
    BY <1>1, <1>5, <2>1, <2>2, <2>3, <2>4, StillAccounted
<1>8. AbortedRightly'
  <2> SUFFICES ASSUME NEW x \in Events, x \notin stale PROVE event'[x].aborted <=> x \in doomed'
    BY DEF AbortedRightly
  <2>1. CASE x = e
    BY <2>1, <1>3
  <2>2. CASE x # e
    BY <2>2, <1>1, <1>4 DEF AbortedRightly
  <2> QED
    BY <2>1, <2>2
<1>9. NothingOverdue'
  BY <1>1, <1>2, <1>4, <1>5 DEF IInv, Accounted, NothingOverdue
<1>10. PhaseInv'
  BY DEF IInv, PhaseInv
<1>11. QueueInv'
  <2>1. Sorted(queue', event')
    <3> SUFFICES ASSUME NEW i \in DOMAIN queue, NEW j \in DOMAIN queue, i < j
                 PROVE  event'[queue[i]].time <= event'[queue[j]].time
      BY DEF Sorted
    <3>1. queue[i] \in Events /\ queue[j] \in Events
      BY <1>2
    <3>2. event[queue[i]].time <= event[queue[j]].time
      BY DEF IInv, QueueInv, Sorted
    <3> QED
      BY <3>1, <3>2, <1>4
  <2>2. running # NoEvent => running \in Events
    BY <1>1 DEF TypeOK
  <2> QED
    BY <2>1, <2>2, <1>4, <1>5 DEF IInv, QueueInv
<1>12. KeptInv'
  BY <1>2, <1>4, <1>5 DEF IInv, KeptInv
<1>13. ContextInv'
  <2> SUFFICES ASSUME NEW x \in Events
               PROVE  /\ event'[x].place = "pool" => x \notin doomed'
                      /\ Resting(x)' =>
                            event'[x].children = {} /\ (x \in stale' \/ ~event'[x].started)
    BY DEF ContextInv
  <2>1. event'[x].place = "pool" => x # e
    BY <1>4 DEF Allocated
  <2> QED
    BY <2>1, <1>4, <1>5 DEF IInv, ContextInv
<1>14. FamilyInv'
  <2>1. Allocated' = Allocated
    BY <1>4 DEF Allocated
  <2> QED
    BY <1>4, <2>1 DEF IInv, FamilyInv
<1> QED
  BY <1>6, <1>7, <1>8, <1>9, <1>10, <1>11, <1>12, <1>13, <1>14 DEF IInv, Accounted

\* stop_wait() lets a handler go on right after the running one, if it would later.
LEMMA StopWaitKeepsIt ==
  ASSUME IInv, StopWait
  PROVE  IInv'
<1>1. PICK e \in Allocated, forever \in BOOLEAN :
         LET ignoring == event[e].ignoreWaits \/ forever
             t == event[running].time + 1
         IN IF Hastens(e)
            THEN /\ event' = [event EXCEPT ![e].ignoreWaits = ignoring, ![e].time = t]
                 /\ queue' = Enqueue(Without(queue, e), <<e>>, t)
            ELSE /\ event' = [event EXCEPT ![e].ignoreWaits = ignoring]
                 /\ UNCHANGED queue
  BY DEF StopWait
<1>2. /\ running # NoEvent
      /\ UNCHANGED <<script, phase, kept, turn, running, received, now, last, doomed, stale>>
  BY DEF StopWait, Calls, Executes
<1>3. TypeOK /\ NoHandlerLost /\ AbortedRightly
  BY DEF IInv, Accounted
<1>4. /\ queue \in Seq(Events) /\ IsInjective(queue) /\ running \in Events
      /\ running \notin Queued /\ e \in Events
      /\ \A x \in Events : event[x] \in ScriptEvent
  BY <1>2, <1>3, Basics DEF Allocated
<1> DEFINE ignoring == event[e].ignoreWaits \/ forever
           t == event[running].time + 1
<1>5. ignoring \in BOOLEAN
  OBVIOUS
<1>6. CASE Hastens(e)
  <2> DEFINE new == [event[e] EXCEPT !.ignoreWaits = ignoring, !.time = t]
             q == Without(queue, e)
  <2>1. /\ event' = [event EXCEPT ![e].ignoreWaits = ignoring, ![e].time = t]
        /\ queue' = Enqueue(q, <<e>>, t)
    BY <1>1, <1>6
  <2>2. event' = [event EXCEPT ![e] = new]
    BY <1>3, <1>4, <2>1 DEF TypeOK
  <2>3. t \in 0..TimeBound /\ event[running].time < t
    <3>1. event[running].time \in 0..TimeBound /\ event[running].time < FragmentSize
      BY <1>2, <1>4, Parts DEF IInv, QueueInv
    <3> QED
      BY <3>1, Bounds
  <2>4. e \in Queued
    BY <1>6 DEF Hastens
  <2> HIDE DEF ignoring, t
  <2>5. IsScheduled(new, event[e], t) /\ new.started = event[e].started
    BY <1>4, <1>5, <2>3, HastenedParts
  <2>6. Sorted(queue, event)
    BY DEF IInv, QueueInv
  <2>7. q \in Seq(Events) /\ IsInjective(q) /\ ToSet(q) = Queued \ {e} /\ Sorted(q, event)
    BY <1>4, <2>6, WithoutFacts DEF Queued
  <2> HIDE DEF new, q
  <2> QED
    BY <1>2, <1>4, <2>1, <2>2, <2>3, <2>4, <2>5, <2>7, ScheduleKeepsIt
<1>7. CASE ~Hastens(e)
  <2> DEFINE new == [event[e] EXCEPT !.ignoreWaits = ignoring]
  <2>1. event' = [event EXCEPT ![e].ignoreWaits = ignoring] /\ queue' = queue
    BY <1>1, <1>7
  <2>2. event' = [event EXCEPT ![e] = new]
    BY <1>3, <1>4, <2>1 DEF TypeOK
  <2> HIDE DEF ignoring
  <2>3. /\ new \in ScriptEvent /\ new.started = event[e].started /\ new.aborted = event[e].aborted
        /\ IsScheduled(new, [event[e] EXCEPT !.aborted = new.aborted], event[e].time)
    <3>1. event[e] \in ScriptEvent
      BY <1>4
    <3> QED
      BY <3>1, <1>5 DEF IsScheduled, ScriptEvent
  <2>4. /\ e \notin stale => (new.aborted <=> e \in doomed')
        /\ doomed' \subseteq Events /\ \A x \in Events : x # e => (x \in doomed' <=> x \in doomed)
    BY <1>2, <1>3, <1>4, <2>3 DEF AbortedRightly, TypeOK
  <2> HIDE DEF new
  <2> QED
    BY <1>2, <1>4, <2>1, <2>2, <2>3, <2>4, FlagKeepsIt
<1> QED
  BY <1>6, <1>7

\* abort() dooms a script event that is allocated.
LEMMA AbortKeepsIt ==
  ASSUME IInv, Abort
  PROVE  IInv'
<1>1. PICK e \in Allocated \ {running} :
         event' = [event EXCEPT ![e].aborted = TRUE] /\ doomed' = doomed \cup {e}
  BY DEF Abort
<1>2. UNCHANGED <<script, phase, queue, kept, turn, running, received, now, last, stale>>
  BY DEF Abort
<1>3. TypeOK /\ e \in Events /\ event[e] \in ScriptEvent
  BY Basics DEF IInv, Accounted, Allocated
<1> DEFINE new == [event[e] EXCEPT !.aborted = TRUE]
<1>4. event' = [event EXCEPT ![e] = new]
  BY <1>1, <1>3 DEF TypeOK
<1>5. /\ new \in ScriptEvent /\ new.started = event[e].started /\ new.aborted = TRUE
      /\ IsScheduled(new, [event[e] EXCEPT !.aborted = new.aborted], event[e].time)
  BY <1>3 DEF IsScheduled, ScriptEvent
<1>6. /\ e \notin stale => (new.aborted <=> e \in doomed')
      /\ doomed' \subseteq Events /\ \A x \in Events : x # e => (x \in doomed' <=> x \in doomed)
  BY <1>1, <1>3, <1>5 DEF TypeOK
<1> HIDE DEF new
<1> QED
  BY <1>1, <1>2, <1>3, <1>4, <1>5, <1>6, FlagKeepsIt

-----------------------------------------------------------------------------
(* The virtual machine: fork() *)

\* x is a child that the script event y forks.
IsChild(x, y, e) ==
  /\ x \in ScriptEvent /\ x.place = "events" /\ x.handler = y.handler /\ x.key = y.key
  /\ x.time = y.time /\ x.children = {} /\ x.parent = e /\ x.aborted = y.aborted
  /\ x.started = TRUE

\* x is the script event y after it has forked.
IsParent(x, y, children) ==
  /\ x \in ScriptEvent /\ x.place = y.place /\ x.handler = y.handler /\ x.key = y.key
  /\ x.time = y.time /\ x.children = y.children \cup children /\ x.autoAbort = y.autoAbort
  /\ x.parent = y.parent /\ x.aborted = y.aborted /\ x.started = y.started

\* The EXCEPT of Fork for a child,
LEMMA ChildParts ==
  ASSUME NEW y \in ScriptEvent, NEW e \in Events, NEW auto \in BOOLEAN
  PROVE  /\ IsChild([y EXCEPT !.place = "events", !.forks = 0, !.children = {},
                              !.autoAbort = auto, !.parent = e, !.started = TRUE], y, e)
<1>1. 0 \in 0..MaxForks
  BY Bounds
<1> QED
  BY <1>1 DEF IsChild, ScriptEvent

\* and the one for the parent
LEMMA ParentParts ==
  ASSUME NEW y \in ScriptEvent, NEW n \in 0..MaxForks, y.forks + n <= MaxForks,
         NEW children \in SUBSET Events
  PROVE  IsParent([y EXCEPT !.forks = @ + n, !.children = @ \cup children], y, children)
<1>1. y.forks \in 0..MaxForks /\ MaxForks \in Nat
  BY Parts, Bounds
<1>2. y.forks + n \in 0..MaxForks
  BY <1>1
<1> QED
  BY <1>2 DEF IsParent, ScriptEvent

\* The children are different free elements.
LEMMA NextFreeFacts ==
  ASSUME NEW n \in Nat, NEW children \in NextFree(n)
  PROVE  children \in Seq(Events) /\ ToSet(children) \subseteq Free /\ IsInjective(children)
<1>1. /\ children \in [1..n -> Free]
      /\ \A i \in 1..n : \A j \in 1..(i - 1) : children[j] < children[i]
  BY DEF NextFree
<1>2. Free \subseteq Events /\ Free \subseteq Nat
  BY Bounds DEF Free
<1>3. children \in Seq(Events)
  <2>1. children \in [1..n -> Events]
    BY <1>1, <1>2
  <2> QED
    BY <2>1
<1>4. DOMAIN children = 1..n /\ \A i \in 1..n : children[i] \in Free
  BY <1>1
<1>5. ToSet(children) \subseteq Free
  BY <1>4 DEF ToSet
<1>6. IsInjective(children)
  <2> SUFFICES ASSUME NEW i \in 1..n, NEW j \in 1..n, i # j PROVE children[i] # children[j]
    BY <1>4 DEF IsInjective
  <2>1. children[i] \in Nat /\ children[j] \in Nat
    BY <1>2, <1>4
  <2>2. i \in 1..(j - 1) \/ j \in 1..(i - 1)
    OBVIOUS
  <2>3. children[i] < children[j] \/ children[j] < children[i]
    BY <2>2, <1>1
  <2> QED
    BY <2>1, <2>3
<1> QED
  BY <1>3, <1>5, <1>6

\* What fork() makes of the script events
ForkedEvents(children, n, auto) ==
  [e \in Events |->
     IF e = running
     THEN [event[e] EXCEPT !.forks = @ + n, !.children = @ \cup ToSet(children)]
     ELSE IF e \in ToSet(children)
     THEN [event[running] EXCEPT !.place = "events", !.forks = 0, !.children = {},
              !.autoAbort = auto, !.parent = running, !.started = TRUE]
     ELSE event[e]]

\* The children wait for their turn, right after their parent.
LEMMA ForkKeepsIt ==
  ASSUME IInv, Fork
  PROVE  IInv'
<1>1. PICK n \in 1..MaxForks, auto \in BOOLEAN : \E children \in NextFree(n) :
         /\ MayFork(running, n)
         /\ event' = ForkedEvents(children, n, auto)
         /\ queue' = Enqueue(queue, children, event[running].time)
         /\ stale' = stale \ ToSet(children)
  BY DEF Fork, ForkedEvents
<1>2. PICK children \in NextFree(n) :
         /\ MayFork(running, n)
         /\ event' = ForkedEvents(children, n, auto)
         /\ queue' = Enqueue(queue, children, event[running].time)
         /\ stale' = stale \ ToSet(children)
  BY <1>1
<1>3. /\ running # NoEvent /\ ~event[running].aborted
      /\ UNCHANGED <<script, phase, kept, turn, running, received, now, last, doomed>>
  BY DEF Fork, Calls, Executes
<1>4. TypeOK /\ NoHandlerLost /\ AbortedRightly
  BY DEF IInv, Accounted
<1>5. /\ queue \in Seq(Events) /\ IsInjective(queue) /\ Queued \subseteq Events
      /\ running \in Events /\ running \notin Queued
      /\ \A x \in Events : event[x] \in ScriptEvent /\ event[x].time \in Int
      /\ ToSet(turn) \subseteq Events /\ \A k \in Keys : ToSet(kept[k]) \subseteq Events
  BY <1>3, <1>4, Basics
<1> DEFINE e == running
           C == ToSet(children)
           t == event[running].time
<1>6. children \in Seq(Events) /\ C \subseteq Free /\ IsInjective(children)
  <2>1. n \in Nat
    BY Bounds
  <2> QED
    BY <2>1, NextFreeFacts
<1>7. \A c \in C : /\ c \in Events /\ event[c].place = "pool" /\ c \notin Allocated /\ c # e
                   /\ Resting(c) /\ c \notin ToSet(turn) /\ \A k \in Keys : c \notin ToSet(kept[k])
  <2> SUFFICES ASSUME NEW c \in C
               PROVE  /\ c \in Events /\ event[c].place = "pool" /\ c \notin Allocated /\ c # e
                      /\ Resting(c) /\ c \notin ToSet(turn)
                      /\ \A k \in Keys : c \notin ToSet(kept[k])
    OBVIOUS
  <2>1. c \in Events /\ event[c].place = "pool" /\ c \notin Allocated
    BY <1>6 DEF Free, Allocated
  <2>2. Resting(c) /\ c \notin ToSet(turn) /\ \A k \in Keys : c \notin ToSet(kept[k])
    BY <2>1, <1>4, Basics
  <2> QED
    BY <2>1, <2>2 DEF Resting
<1> HIDE DEF C
<1>8. IsParent(event'[e], event[e], C)
  <2>1. event'[e] = [event[e] EXCEPT !.forks = @ + n, !.children = @ \cup C]
    BY <1>2, <1>5 DEF ForkedEvents, C
  <2>2. event[e].forks + n <= MaxForks
    BY <1>2 DEF MayFork
  <2>3. n \in 0..MaxForks /\ C \in SUBSET Events /\ event[e] \in ScriptEvent
    <3>1. MaxForks \in Nat
      BY Bounds
    <3>2. n \in 0..MaxForks
      BY <3>1
    <3>3. C \in SUBSET Events /\ event[e] \in ScriptEvent
      BY <1>5, <1>7
    <3> QED
      BY <3>2, <3>3
  <2> QED
    BY <2>1, <2>2, <2>3, ParentParts
<1>9. \A c \in C : IsChild(event'[c], event[e], e)
  <2> SUFFICES ASSUME NEW c \in C PROVE IsChild(event'[c], event[e], e)
    OBVIOUS
  <2>1. event'[c] = [event[e] EXCEPT !.place = "events", !.forks = 0, !.children = {},
                                     !.autoAbort = auto, !.parent = e, !.started = TRUE]
    BY <1>2, <1>7 DEF ForkedEvents, C
  <2>2. event[e] \in ScriptEvent /\ e \in Events
    BY <1>5
  <2> DEFINE y == event[e]
             x == [y EXCEPT !.place = "events", !.forks = 0, !.children = {},
                            !.autoAbort = auto, !.parent = e, !.started = TRUE]
  <2>3. y \in ScriptEvent
    BY <2>2
  <2> HIDE DEF y
  <2>4. IsChild(x, y, e)
    BY <2>2, <2>3, ChildParts
  <2>5. event'[c] = x
    BY <2>1 DEF y
  <2> HIDE DEF x
  <2> QED
    BY <2>4, <2>5 DEF y
<1>10. \A x \in Events : x # e /\ x \notin C => event'[x] = event[x]
  BY <1>2 DEF ForkedEvents, C
<1>11. \A x \in Events : event'[x].time = IF x \in C THEN t ELSE event[x].time
  BY <1>7, <1>8, <1>9, <1>10 DEF IsParent, IsChild
<1>12. /\ queue' \in Seq(Events) /\ Queued' = Queued \cup C /\ IsInjective(queue')
       /\ Sorted(queue', event')
  <2>1. ToSet(queue) \cap ToSet(children) = {} /\ Sorted(queue, event) /\ t \in Int
    BY <1>5, <1>7 DEF Resting, Queued, IInv, QueueInv, C
  <2> DEFINE events == event'
  <2>2. \A x \in ToSet(queue) : events[x].time = event[x].time
    BY <1>5, <1>7, <1>11 DEF Queued, Resting
  <2>3. \A x \in ToSet(children) : events[x].time = t
    BY <1>7, <1>11 DEF C
  <2>4. \A x \in Events : event[x].time \in Int
    BY <1>5
  <2> HIDE DEF events, t
  <2> DEFINE r == Enqueue(queue, children, t)
  <2>5. /\ r \in Seq(Events) /\ ToSet(r) = ToSet(queue) \cup ToSet(children)
        /\ IsInjective(r) /\ Sorted(r, events)
    BY <1>5, <1>6, <2>1, <2>2, <2>3, <2>4, EnqueueFacts
  <2>6. queue' = r
    BY <1>2 DEF t
  <2> QED
    BY <2>5, <2>6 DEF events, Queued, C
<1>13. /\ running' = running /\ running \notin Queued'
       /\ \A x \in Events : Resting(x)' <=> Resting(x) /\ x \notin C
  BY <1>3, <1>5, <1>7, <1>12 DEF Resting
<1> HIDE DEF t
<1>14. TypeOK'
  <2>1. event' \in [Events -> ScriptEvent]
    <3>1. \A x \in Events : event'[x] \in ScriptEvent
      BY <1>5, <1>8, <1>9, <1>10 DEF IsParent, IsChild
    <3>2. event' = [x \in Events |-> event'[x]]
      BY <1>2 DEF ForkedEvents
    <3> QED
      BY <3>1, <3>2
  <2> QED
    BY <1>2, <1>3, <1>4, <1>12, <2>1 DEF TypeOK
<1>15. NoHandlerLost'
  <2>1. ASSUME NEW x \in Events
        PROVE  event'[x].place = "events" <=> /\ x \in Queued' \cup {running'}
                                              /\ \A k \in Keys : x \notin ToSet(kept'[k])
    <3>1. CASE x \in C
      BY <3>1, <1>3, <1>7, <1>9, <1>12 DEF IsChild
    <3>2. CASE x \notin C
      <4>1. event'[x].place = event[x].place
        BY <3>2, <1>8, <1>10 DEF IsParent
      <4> QED
        BY <3>2, <4>1, <1>3, <1>4, <1>12 DEF NoHandlerLost
    <3> QED
      BY <3>1, <3>2
  <2>2. ASSUME NEW k \in Keys
        PROVE  /\ IsInjective(kept'[k])
               /\ \A x \in ToSet(kept'[k]) :
                    /\ event'[x].place = "kept" /\ event'[x].key = k
                    /\ x \in Queued' => event'[x].started /\ event'[x].handler = "release"
    <3>1. IsInjective(kept'[k])
      BY <1>3, <1>4 DEF NoHandlerLost
    <3>2. ASSUME NEW x \in ToSet(kept'[k])
          PROVE  /\ event'[x].place = "kept" /\ event'[x].key = k
                 /\ x \in Queued' => event'[x].started /\ event'[x].handler = "release"
      <4>1. x \in ToSet(kept[k]) /\ x \in Events /\ x \notin C
        BY <1>3, <1>5, <1>7
      <4>2. /\ event[x].place = "kept" /\ event[x].key = k
            /\ x \in Queued => event[x].started /\ event[x].handler = "release"
        BY <4>1, <1>4 DEF NoHandlerLost
      <4>3. /\ event'[x].place = event[x].place /\ event'[x].key = event[x].key
            /\ event'[x].started = event[x].started /\ event'[x].handler = event[x].handler
        BY <4>1, <1>8, <1>10 DEF IsParent
      <4> QED
        BY <4>1, <4>2, <4>3, <1>12
    <3> QED
      BY <3>1, <3>2
  <2>3. ASSUME NEW x \in ToSet(turn')
        PROVE  event'[x].place = "kept" /\ x \notin Queued' \cup {running'}
    <3>1. x \in ToSet(turn) /\ x \in Events /\ x \notin C
      BY <1>3, <1>5, <1>7
    <3>2. event[x].place = "kept" /\ x \notin Queued \cup {running}
      BY <3>1, <1>4 DEF NoHandlerLost
    <3>3. event'[x].place = event[x].place
      BY <3>1, <1>8, <1>10 DEF IsParent
    <3> QED
      BY <3>1, <3>2, <3>3, <1>3, <1>12
  <2>4. ASSUME NEW x \in Events, event'[x].place = "kept"
        PROVE  \E k \in Keys : x \in ToSet(kept'[k])
    <3>1. x \notin C
      BY <2>4, <1>9 DEF IsChild
    <3>2. event[x].place = "kept"
      BY <2>4, <3>1, <1>8, <1>10 DEF IsParent
    <3> QED
      BY <3>2, <1>3, <1>4 DEF NoHandlerLost
  <2> QED
    BY <2>1, <2>2, <2>3, <2>4, <1>12, <1>13 DEF NoHandlerLost
<1>16. AbortedRightly'
  <2> SUFFICES ASSUME NEW x \in Events, x \notin stale' PROVE event'[x].aborted <=> x \in doomed'
    BY DEF AbortedRightly
  <2>1. CASE x \in C
    <3>1. x \notin doomed
      BY <2>1, <1>7 DEF IInv, ContextInv
    <3> QED
      BY <2>1, <3>1, <1>3, <1>9 DEF IsChild
  <2>2. CASE x \notin C
    <3>1. event[x].aborted <=> x \in doomed'
      BY <2>2, <1>2, <1>3, <1>4 DEF AbortedRightly, C
    <3> QED
      BY <2>2, <3>1, <1>8, <1>10 DEF IsParent
  <2> QED
    BY <2>1, <2>2
<1>17. phase # "idle"
  BY <1>3 DEF IInv, PhaseInv
<1>18. NothingOverdue'
  BY <1>3, <1>17 DEF NothingOverdue
<1>19. PhaseInv'
  BY <1>3, <1>17 DEF IInv, PhaseInv
<1>20. QueueInv'
  <2>1. ASSUME phase' \in {"resume", "resume again"}, NEW x \in Events, ~Resting(x)'
        PROVE  last' <= event'[x].time
    <3>1. CASE x \in C
      <4>1. event'[x].time = event[running].time /\ ~Resting(running)
        BY <3>1, <1>11 DEF t, Resting
      <4> QED
        BY <2>1, <4>1, <1>3, <1>5 DEF IInv, QueueInv
    <3>2. CASE x \notin C
      <4>1. event'[x].time = event[x].time /\ ~Resting(x)
        BY <2>1, <3>2, <1>11, <1>13
      <4> QED
        BY <2>1, <4>1, <1>3 DEF IInv, QueueInv
    <3> QED
      BY <3>1, <3>2
  <2>2. event'[running'].time < FragmentSize
    <3>1. event'[running'].time = event[running].time
      BY <1>5, <1>7, <1>11, <1>13
    <3> QED
      BY <3>1, <1>3 DEF IInv, QueueInv
  <2> QED
    BY <1>12, <2>1, <2>2 DEF QueueInv
<1>21. KeptInv'
  <2>1. ASSUME NEW x \in Events, event'[x].place # "pool"
        PROVE  event'[x].handler \in Handlers /\ event'[x].key \in Keys
    <3>1. event[running].handler \in Handlers /\ event[running].key \in Keys
      <4>1. event[running].place # "pool"
        BY <1>4, <1>5, Basics DEF Resting
      <4> QED
        BY <4>1, <1>5 DEF IInv, KeptInv
    <3>2. CASE x \in C
      BY <3>1, <3>2, <1>9 DEF IsChild
    <3>3. CASE x = e
      BY <3>1, <3>3, <1>8 DEF IsParent
    <3>4. CASE x # e /\ x \notin C
      BY <2>1, <3>4, <1>10 DEF IInv, KeptInv
    <3> QED
      BY <3>2, <3>3, <3>4
  <2>2. ASSUME NEW k \in Keys, NEW x \in ToSet(kept'[k]), ~Resting(x)'
        PROVE  event'[x].handler = "release"
    <3>1. x \in ToSet(kept[k]) /\ x \in Events /\ x \notin C
      BY <1>3, <1>5, <1>7
    <3>2. event[x].handler = "release"
      BY <2>2, <3>1, <1>13 DEF IInv, KeptInv
    <3> QED
      BY <3>1, <3>2, <1>8, <1>10 DEF IsParent
  <2>3. /\ IsInjective(turn') /\ \A x \in ToSet(turn') : \E k \in Keys : x \in ToSet(kept'[k])
    BY <1>3 DEF IInv, KeptInv
  <2> QED
    BY <2>1, <2>2, <2>3 DEF KeptInv
<1>22. ContextInv'
  <2> SUFFICES ASSUME NEW x \in Events
               PROVE  /\ event'[x].place = "pool" => x \notin doomed'
                      /\ Resting(x)' =>
                            event'[x].children = {} /\ (x \in stale' \/ ~event'[x].started)
    BY DEF ContextInv
  <2>1. CASE x \in C
    BY <2>1, <1>9, <1>13 DEF IsChild
  <2>2. CASE x = e
    <3>1. ~Resting(x)' /\ event'[x].place = event[x].place
      BY <2>2, <1>5, <1>8, <1>13 DEF Resting, IsParent
    <3> QED
      BY <2>2, <3>1, <1>3 DEF IInv, ContextInv
  <2>3. CASE x # e /\ x \notin C
    <3>1. x \in stale => x \in stale'
      BY <2>3, <1>2 DEF C
    <3> QED
      BY <2>3, <3>1, <1>3, <1>10, <1>13 DEF IInv, ContextInv
  <2> QED
    BY <2>1, <2>2, <2>3
<1>23. FamilyInv'
  <2>1. Allocated \subseteq Allocated' /\ C \subseteq Allocated'
    <3>1. ASSUME NEW x \in Allocated PROVE x \in Allocated'
      BY <3>1, <1>7, <1>8, <1>10 DEF Allocated, IsParent
    <3>2. ASSUME NEW x \in C PROVE x \in Allocated'
      BY <3>2, <1>7, <1>9 DEF Allocated, IsChild
    <3> QED
      BY <3>1, <3>2
  <2>2. ASSUME NEW x \in Events PROVE event'[x].children \subseteq Allocated'
    <3>1. event[x].children \subseteq Allocated
      BY DEF IInv, FamilyInv
    <3>2. CASE x \in C
      BY <3>2, <1>9 DEF IsChild
    <3>3. CASE x = e
      BY <2>1, <3>1, <3>3, <1>8 DEF IsParent
    <3>4. CASE x # e /\ x \notin C
      BY <2>1, <3>1, <3>4, <1>10
    <3> QED
      BY <3>2, <3>3, <3>4
  <2>3. ASSUME NEW x \in Events, NEW c \in Events, event'[c].autoAbort
        PROVE  c \in event'[x].children <=> event'[c].parent = x
    <3>1. event[x].children \subseteq Allocated
      BY DEF IInv, FamilyInv
    <3>2. CASE c \in C
      <4>1. event'[c].parent = e /\ c \notin event[x].children
        BY <3>1, <3>2, <1>7, <1>9 DEF IsChild
      <4>2. CASE x = e
        BY <4>1, <4>2, <3>2, <1>8 DEF IsParent
      <4>3. CASE x \in C
        BY <4>1, <4>3, <1>7, <1>9 DEF IsChild
      <4>4. CASE x # e /\ x \notin C
        BY <4>1, <4>4, <1>10
      <4> QED
        BY <4>2, <4>3, <4>4
    <3>3. CASE c \notin C
      <4>1. event'[c].parent = event[c].parent /\ event[c].autoAbort
        BY <2>3, <3>3, <1>8, <1>10 DEF IsParent
      <4>2. c \in event[x].children <=> event[c].parent = x
        BY <4>1 DEF IInv, FamilyInv
      <4>3. CASE x = e
        BY <3>3, <4>1, <4>2, <4>3, <1>8 DEF IsParent
      <4>4. CASE x \in C
        <5>1. event'[x].children = {} /\ event[x].children = {}
          BY <4>4, <1>7, <1>9 DEF IsChild, IInv, ContextInv
        <5> QED
          BY <4>1, <4>2, <5>1
      <4>5. CASE x # e /\ x \notin C
        BY <4>1, <4>2, <4>5, <1>10
      <4> QED
        BY <4>3, <4>4, <4>5
    <3> QED
      BY <3>2, <3>3
  <2> QED
    BY <2>2, <2>3 DEF FamilyInv
<1> QED
  BY <1>14, <1>15, <1>16, <1>18, <1>19, <1>20, <1>21, <1>22, <1>23 DEF IInv, Accounted

-----------------------------------------------------------------------------
(* The virtual machine: the end of a handler *)

\* x is the script event y after e has ended.
IsSurvivor(x, y, e, dependent) ==
  /\ x \in ScriptEvent /\ x.place = y.place /\ x.handler = y.handler /\ x.key = y.key
  /\ x.time = y.time /\ x.autoAbort = y.autoAbort /\ x.started = y.started
  /\ x.parent = (IF y.parent = e THEN NoEvent ELSE y.parent)
  /\ x.aborted <=> y.aborted \/ dependent

\* x is a script event whose handler has ended.
IsFinished(x) == x \in ScriptEvent /\ ~x.started /\ ~x.aborted /\ x.children = {}

Survivor(y, e, dependent) == [y EXCEPT !.aborted = @ \/ dependent,
                                        !.parent = IF @ = e THEN NoEvent ELSE @]

\* Survivor() makes such a script event, whether or not it forgets e.
LEMMA SurvivorParts ==
  ASSUME NEW y \in ScriptEvent, NEW e \in Events, NEW b \in BOOLEAN
  PROVE  /\ IsSurvivor(Survivor(y, e, b), y, e, b) /\ Survivor(y, e, b).children = y.children
         /\ IsSurvivor([Survivor(y, e, b) EXCEPT !.children = @ \ {e}], y, e, b)
         /\ [Survivor(y, e, b) EXCEPT !.children = @ \ {e}].children = y.children \ {e}
<1> DEFINE x == Survivor(y, e, b)
<1>1. IsSurvivor(x, y, e, b) /\ x.children = y.children
  BY DEF Survivor, IsSurvivor, ScriptEvent
<1> HIDE DEF x
<1>2. /\ IsSurvivor([x EXCEPT !.children = @ \ {e}], y, e, b)
      /\ [x EXCEPT !.children = @ \ {e}].children = y.children \ {e}
  BY <1>1 DEF IsSurvivor, ScriptEvent
<1> QED
  BY <1>1, <1>2 DEF x

\* Reset() leaves nothing of the handler.
LEMMA ResetParts ==
  ASSUME NEW x \in ScriptEvent
  PROVE  /\ IsFinished(Reset(x)) /\ Reset(x).place = x.place /\ Reset(x).handler = x.handler
         /\ Reset(x).key = x.key /\ Reset(x).autoAbort = x.autoAbort
         /\ Reset(x).parent = x.parent
<1>1. 0 \in 0..TimeBound /\ 0 \in 0..MaxForks
  BY Bounds
<1> QED
  BY <1>1 DEF IsFinished, Reset, ScriptEvent

\* What becomes of the script events: e is kept, or freed.
LEMMA FinishFacts ==
  ASSUME TypeOK, running \in Events, Finish
  PROVE  /\ event' \in [Events -> ScriptEvent] /\ IsFinished(event'[running])
         /\ \A x \in Events : x # running =>
               /\ IsSurvivor(event'[x], event[x], running, x \in Dependents(running))
               /\ event'[x].children = event[x].children \ (IF Keeps(event[running].handler)
                                                            THEN {} ELSE {running})
         /\ Keeps(event[running].handler) =>
               /\ event'[running].place = "kept"
               /\ event'[running].handler = event[running].handler
               /\ event'[running].key = event[running].key
               /\ event'[running].parent # running
               /\ event'[running].autoAbort = event[running].autoAbort
               /\ event'[running].parent = IF event[running].parent = running THEN NoEvent
                                           ELSE event[running].parent
         /\ ~Keeps(event[running].handler) =>
               event'[running].place = "pool" /\ event'[running].autoAbort = FALSE
<1> DEFINE e == running
           b(x) == x \in Dependents(e)
           new(x) == Survivor(event[x], e, b(x))
           after == [x \in Events |-> new(x)]
<1>1. event \in [Events -> ScriptEvent] /\ NoEvent \notin Events /\ e \in Events
  BY Bounds DEF TypeOK
<1>2. ASSUME NEW x \in Events
      PROVE  /\ IsSurvivor(new(x), event[x], e, b(x)) /\ new(x).children = event[x].children
             /\ IsSurvivor([new(x) EXCEPT !.children = @ \ {e}], event[x], e, b(x))
             /\ [new(x) EXCEPT !.children = @ \ {e}].children = event[x].children \ {e}
  <2>1. event[x] \in ScriptEvent /\ b(x) \in BOOLEAN
    BY <1>1
  <2> HIDE DEF b
  <2> QED
    BY <1>1, <2>1, SurvivorParts
<1> HIDE DEF b
<1>3. \A x \in Events : new(x) \in ScriptEvent
  BY <1>2 DEF IsSurvivor
<1>4. CASE Keeps(event[e].handler)
  <2>1. event' = [after EXCEPT ![e] = [Reset(after[e]) EXCEPT !.place = "kept"]]
    BY <1>4 DEF Finish, Survivor, b
  <2>2. after[e] = new(e) /\ \A x \in Events : after[x] = new(x)
    BY <1>1
  <2> DEFINE r == [Reset(new(e)) EXCEPT !.place = "kept"]
  <2> HIDE DEF new
  <2>3. /\ event'[e] = r /\ \A x \in Events : x # e => event'[x] = new(x)
        /\ event' = [x \in Events |-> event'[x]]
    BY <1>1, <2>1, <2>2
  <2>4. /\ IsFinished(Reset(new(e))) /\ Reset(new(e)).handler = new(e).handler
        /\ Reset(new(e)).key = new(e).key /\ Reset(new(e)).autoAbort = new(e).autoAbort
        /\ Reset(new(e)).parent = new(e).parent
    BY <1>1, <1>3, ResetParts
  <2>5. /\ IsFinished(r) /\ r.place = "kept" /\ r.handler = new(e).handler /\ r.key = new(e).key
        /\ r.autoAbort = new(e).autoAbort /\ r.parent = new(e).parent
    BY <2>4 DEF IsFinished, ScriptEvent
  <2>6. IsSurvivor(new(e), event[e], e, b(e))
    BY <1>1, <1>2
  <2> HIDE DEF r
  <2>7. event' \in [Events -> ScriptEvent]
    <3>1. \A x \in Events : event'[x] \in ScriptEvent
      BY <1>3, <2>3, <2>5 DEF IsFinished
    <3> QED
      BY <2>3, <3>1
  <2>8. \A x \in Events : x # e => /\ IsSurvivor(event'[x], event[x], e, b(x))
                                   /\ event'[x].children = event[x].children \ {}
    BY <1>2, <2>3
  <2>9. /\ event'[e].place = "kept" /\ event'[e].handler = event[e].handler
        /\ event'[e].key = event[e].key /\ event'[e].autoAbort = event[e].autoAbort
        /\ event'[e].parent = IF event[e].parent = e THEN NoEvent ELSE event[e].parent
    BY <2>3, <2>5, <2>6 DEF IsSurvivor
  <2>10. event'[e].parent # e
    BY <1>1, <2>9
  <2> QED
    BY <1>4, <2>3, <2>5, <2>7, <2>8, <2>9, <2>10 DEF b
<1>5. CASE ~Keeps(event[e].handler)
  <2> DEFINE f == [after EXCEPT ![e] = Reset(Freed(e))]
  <2>1. event' = Forget(e, f)
    BY <1>5 DEF Finish, Survivor, b
  <2>2. after[e] = new(e) /\ \A x \in Events : after[x] = new(x)
    BY <1>1
  <2>3. /\ Freed(e) \in ScriptEvent /\ Freed(e).place = "pool" /\ Freed(e).autoAbort = FALSE
    BY <1>1, FreedParts
  <2>4. /\ IsFinished(Reset(Freed(e))) /\ Reset(Freed(e)).place = "pool"
        /\ Reset(Freed(e)).autoAbort = FALSE
    BY <2>3, ResetParts
  <2> HIDE DEF new
  <2>5. f[e] = Reset(Freed(e)) /\ \A x \in Events : x # e => f[x] = new(x)
    BY <1>1, <2>2
  <2> HIDE DEF f
  <2>6. event' = [x \in Events |-> [f[x] EXCEPT !.children = @ \ {e}]]
    BY <2>1 DEF Forget
  <2>7. /\ event'[e] = [Reset(Freed(e)) EXCEPT !.children = @ \ {e}]
        /\ \A x \in Events : x # e => event'[x] = [new(x) EXCEPT !.children = @ \ {e}]
    BY <1>1, <2>5, <2>6
  <2>8. /\ IsFinished(event'[e]) /\ event'[e].place = "pool" /\ event'[e].autoAbort = FALSE
    BY <2>4, <2>7 DEF IsFinished, ScriptEvent
  <2>9. \A x \in Events : x # e => /\ IsSurvivor(event'[x], event[x], e, b(x))
                                   /\ event'[x].children = event[x].children \ {e}
    BY <1>2, <2>7
  <2>10. event' \in [Events -> ScriptEvent]
    <3>1. \A x \in Events : event'[x] \in ScriptEvent
      BY <2>8, <2>9 DEF IsFinished, IsSurvivor
    <3>2. event' = [x \in Events |-> event'[x]]
      BY <2>6
    <3> QED
      BY <3>1, <3>2
  <2> QED
    BY <1>5, <2>8, <2>9, <2>10 DEF b
<1> QED
  BY <1>4, <1>5

\* When a handler ends its dependents are doomed, and nothing else.
LEMMA FinishKeepsIt ==
  ASSUME IInv, running # NoEvent, Finish
  PROVE  IInv'
<1> DEFINE e == running
           k == event[e].key
           K == Keeps(event[e].handler)
<1>1. TypeOK /\ NoHandlerLost /\ AbortedRightly
  BY DEF IInv, Accounted
<1>2. /\ queue \in Seq(Events) /\ IsInjective(queue) /\ Queued \subseteq Events
      /\ e \in Events /\ e \notin Queued /\ ~Resting(e) /\ event[e].place # "pool"
      /\ \A x \in Events : event[x] \in ScriptEvent
      /\ ToSet(turn) \subseteq Events
      /\ \A n \in Keys : ToSet(kept[n]) \subseteq Events /\ kept[n] \in Seq(Events)
  <2>1. e \in Events
    BY <1>1 DEF TypeOK
  <2>2. ~Resting(e)
    BY DEF Resting
  <2> QED
    BY <1>1, <2>1, <2>2, Basics
<1>3. /\ running' = NoEvent /\ stale' = stale \ {e}
      /\ UNCHANGED <<script, phase, queue, turn, received, now, last>>
      /\ doomed' = (doomed \cup {c \in Allocated : event[c].parent = e /\ event[c].autoAbort}) \ {e}
      /\ kept' = IF K THEN [kept EXCEPT ![k] = Append(kept[k], e)]
                 ELSE [kept EXCEPT ![k] = Without(kept[k], e)]
  BY DEF Finish
<1>4. k \in Keys /\ NoEvent \notin Events
  BY <1>2, Bounds DEF IInv, KeptInv
<1>5. /\ event' \in [Events -> ScriptEvent]
      /\ event'[e].started = FALSE /\ event'[e].aborted = FALSE /\ event'[e].children = {}
  <2>1. event' \in [Events -> ScriptEvent] /\ IsFinished(event'[e])
    BY <1>1, <1>2, FinishFacts
  <2>2. event'[e].started \in BOOLEAN /\ event'[e].aborted \in BOOLEAN
    BY <1>2, <2>1, Parts
  <2> QED
    BY <2>1, <2>2 DEF IsFinished
<1>6. ASSUME NEW x \in Events, x # e
      PROVE  /\ event'[x].place = event[x].place /\ event'[x].handler = event[x].handler
             /\ event'[x].key = event[x].key /\ event'[x].time = event[x].time
             /\ event'[x].autoAbort = event[x].autoAbort /\ event'[x].started = event[x].started
             /\ event'[x].parent = (IF event[x].parent = e THEN NoEvent ELSE event[x].parent)
             /\ event'[x].aborted <=> event[x].aborted \/ x \in Dependents(e)
             /\ event'[x].children = event[x].children \ (IF K THEN {} ELSE {e})
  <2>1. /\ IsSurvivor(event'[x], event[x], e, x \in Dependents(e))
        /\ event'[x].children = event[x].children \ (IF K THEN {} ELSE {e})
    BY <1>1, <1>2, <1>6, FinishFacts
  <2> QED
    BY <2>1 DEF IsSurvivor
<1>7. /\ K => /\ event'[e].place = "kept" /\ event'[e].handler = event[e].handler
              /\ event'[e].key = k /\ event'[e].parent # e
              /\ event'[e].autoAbort = event[e].autoAbort
              /\ event'[e].parent = IF event[e].parent = e THEN NoEvent ELSE event[e].parent
      /\ ~K => event'[e].place = "pool" /\ event'[e].autoAbort = FALSE
  BY <1>1, <1>2, FinishFacts
<1>8. \A x \in Events : x \in Dependents(e) <=>
         x \in Allocated /\ event[x].parent = e /\ event[x].autoAbort
  <2>1. event[e].children \subseteq Allocated
    BY <1>2 DEF IInv, FamilyInv
  <2>2. \A x \in Events : event[x].autoAbort => (x \in event[e].children <=> event[x].parent = e)
    BY <1>2 DEF IInv, FamilyInv
  <2> QED
    BY <2>1, <2>2 DEF Dependents
<1>9. /\ kept' \in [Keys -> Seq(Events)]
      /\ \A n \in Keys : IsInjective(kept'[n])
      /\ \A n \in Keys : \A x \in ToSet(kept'[n]) :
            IF x = e THEN K /\ n = k ELSE x \in ToSet(kept[n])
      /\ \A n \in Keys : \A x \in ToSet(kept[n]) : x # e => x \in ToSet(kept'[n])
      /\ K => e \in ToSet(kept'[k])
  <2>1. kept \in [Keys -> Seq(Events)] /\ \A n \in Keys : IsInjective(kept[n])
    BY <1>1 DEF TypeOK, NoHandlerLost
  <2>2. CASE K
    <3>1. event[e].handler # "release"
      BY <2>2 DEF Keeps
    <3>2. \A n \in Keys : e \notin ToSet(kept[n])
      BY <1>2, <3>1 DEF IInv, KeptInv
    <3> DEFINE a == Append(kept[k], e)
    <3>3. a \in Seq(Events) /\ ToSet(a) = ToSet(kept[k]) \cup {e} /\ IsInjective(a)
      BY <1>2, <1>4, <2>1, <3>2, ElementsAppend
    <3>4. kept' = [kept EXCEPT ![k] = a]
      BY <1>3, <2>2
    <3> HIDE DEF a, K, k
    <3>5. kept'[k] = a /\ \A n \in Keys : n # k => kept'[n] = kept[n]
      BY <1>4, <2>1, <3>4
    <3>6. kept' \in [Keys -> Seq(Events)]
      BY <2>1, <3>3, <3>4
    <3> QED
      BY <1>4, <2>1, <2>2, <3>2, <3>3, <3>5, <3>6
  <2>3. CASE ~K
    <3>1. \A n \in Keys : n # k => e \notin ToSet(kept[n])
      BY <1>1 DEF NoHandlerLost
    <3> DEFINE w == Without(kept[k], e)
    <3>2. w \in Seq(Events) /\ ToSet(w) = ToSet(kept[k]) \ {e} /\ IsInjective(w)
      BY <1>2, <1>4, <2>1, WithoutFacts
    <3>3. kept' = [kept EXCEPT ![k] = w]
      BY <1>3, <2>3
    <3> HIDE DEF w, K, k
    <3>4. kept'[k] = w /\ \A n \in Keys : n # k => kept'[n] = kept[n]
      BY <1>4, <2>1, <3>3
    <3>5. kept' \in [Keys -> Seq(Events)]
      BY <2>1, <3>2, <3>3
    <3> QED
      BY <1>4, <2>1, <2>3, <3>1, <3>2, <3>4, <3>5
  <2> QED
    BY <2>2, <2>3
<1>10. /\ Queued' = Queued /\ running' \notin Queued' /\ e \notin Queued' \cup {running'}
       /\ \A x \in Events : Resting(x)' <=> Resting(x) \/ x = e
  BY <1>2, <1>3, <1>4 DEF Resting, Queued
<1> HIDE DEF K, k
<1>11. TypeOK'
  <2>1. doomed' \subseteq Events
    BY <1>1, <1>3 DEF TypeOK, Allocated
  <2> QED
    BY <1>1, <1>3, <1>5, <1>9, <2>1 DEF TypeOK
<1>12. NoHandlerLost'
  <2>1. ASSUME NEW x \in Events
        PROVE  event'[x].place = "events" <=> /\ x \in Queued' \cup {running'}
                                              /\ \A n \in Keys : x \notin ToSet(kept'[n])
    <3>1. CASE x = e
      BY <3>1, <1>7, <1>10
    <3>2. CASE x # e
      <4>1. x \in Queued' \cup {running'} <=> x \in Queued \cup {running}
        BY <3>2, <1>3, <1>4, <1>10
      <4>2. \A n \in Keys : x \in ToSet(kept'[n]) <=> x \in ToSet(kept[n])
        BY <3>2, <1>9
      <4>3. event'[x].place = event[x].place
        BY <3>2, <1>6
      <4>4. event[x].place = "events" <=> /\ x \in Queued \cup {running}
                                          /\ \A n \in Keys : x \notin ToSet(kept[n])
        BY <1>1 DEF NoHandlerLost
      <4> QED
        BY <4>1, <4>2, <4>3, <4>4
    <3> QED
      BY <3>1, <3>2
  <2>2. ASSUME NEW n \in Keys
        PROVE  /\ IsInjective(kept'[n])
               /\ \A x \in ToSet(kept'[n]) :
                    /\ event'[x].place = "kept" /\ event'[x].key = n
                    /\ x \in Queued' => event'[x].started /\ event'[x].handler = "release"
    <3>1. IsInjective(kept'[n])
      BY <1>9
    <3>2. ASSUME NEW x \in ToSet(kept'[n])
          PROVE  /\ event'[x].place = "kept" /\ event'[x].key = n
                 /\ x \in Queued' => event'[x].started /\ event'[x].handler = "release"
      <4>1. CASE x = e
        BY <4>1, <1>7, <1>9, <1>10
      <4>2. CASE x # e
        <5>1. x \in ToSet(kept[n]) /\ x \in Events
          BY <4>2, <1>2, <1>9
        <5>2. /\ event[x].place = "kept" /\ event[x].key = n
              /\ x \in Queued => event[x].started /\ event[x].handler = "release"
          BY <5>1, <1>1 DEF NoHandlerLost
        <5> QED
          BY <4>2, <5>1, <5>2, <1>6, <1>10
      <4> QED
        BY <4>1, <4>2
    <3> QED
      BY <3>1, <3>2
  <2>3. ASSUME NEW x \in ToSet(turn')
        PROVE  event'[x].place = "kept" /\ x \notin Queued' \cup {running'}
    <3>1. x \in ToSet(turn) /\ x \in Events
      BY <1>2, <1>3
    <3>2. event[x].place = "kept" /\ x \notin Queued \cup {running}
      BY <3>1, <1>1 DEF NoHandlerLost
    <3> QED
      BY <3>1, <3>2, <1>3, <1>4, <1>6, <1>10
  <2>4. IsInjective(queue')
    BY <1>2, <1>3
  <2>5. ASSUME NEW x \in Events, event'[x].place = "kept"
        PROVE  \E n \in Keys : x \in ToSet(kept'[n])
    <3>1. CASE x = e
      BY <2>5, <3>1, <1>4, <1>7, <1>9
    <3>2. CASE x # e
      BY <2>5, <3>2, <1>1, <1>6, <1>9 DEF NoHandlerLost
    <3> QED
      BY <3>1, <3>2
  <2> QED
    BY <2>1, <2>2, <2>3, <2>4, <2>5, <1>10 DEF NoHandlerLost
<1>13. AbortedRightly'
  <2> SUFFICES ASSUME NEW x \in Events, x \notin stale' PROVE event'[x].aborted <=> x \in doomed'
    BY DEF AbortedRightly
  <2>1. CASE x = e
    BY <2>1, <1>3, <1>5
  <2>2. CASE x # e
    <3>1. event[x].aborted <=> x \in doomed
      BY <2>2, <1>1, <1>3 DEF AbortedRightly
    <3> QED
      BY <2>2, <3>1, <1>3, <1>6, <1>8
  <2> QED
    BY <2>1, <2>2
<1>14. phase # "idle"
  BY DEF IInv, PhaseInv
<1>15. NothingOverdue'
  BY <1>3, <1>14 DEF NothingOverdue
<1>16. PhaseInv'
  BY <1>3, <1>14 DEF IInv, PhaseInv
<1>17. QueueInv'
  <2>1. Sorted(queue', event')
    <3> SUFFICES ASSUME NEW i \in DOMAIN queue, NEW j \in DOMAIN queue, i < j
                 PROVE  event'[queue[i]].time <= event'[queue[j]].time
      BY <1>3 DEF Sorted
    <3>1. queue[i] \in Queued /\ queue[j] \in Queued
      BY DEF Queued, ToSet
    <3>2. event[queue[i]].time <= event[queue[j]].time
      BY DEF IInv, QueueInv, Sorted
    <3> QED
      BY <3>1, <3>2, <1>2, <1>6
  <2>2. ASSUME phase' \in {"resume", "resume again"}, NEW x \in Events, ~Resting(x)'
        PROVE  last' <= event'[x].time
    <3>1. ~Resting(x) /\ x # e
      BY <2>2, <1>10
    <3> QED
      BY <2>2, <3>1, <1>3, <1>6 DEF IInv, QueueInv
  <2> QED
    BY <1>3, <2>1, <2>2 DEF QueueInv
<1>18. KeptInv'
  <2>1. ASSUME NEW x \in Events, event'[x].place # "pool"
        PROVE  event'[x].handler \in Handlers /\ event'[x].key \in Keys
    <3>1. CASE x = e
      BY <2>1, <3>1, <1>2, <1>4, <1>7 DEF IInv, KeptInv
    <3>2. CASE x # e
      BY <2>1, <3>2, <1>6 DEF IInv, KeptInv
    <3> QED
      BY <3>1, <3>2
  <2>2. ASSUME NEW n \in Keys, NEW x \in ToSet(kept'[n]), ~Resting(x)'
        PROVE  event'[x].handler = "release"
    <3>1. x \in Events
      <4>1. kept'[n] \in Seq(Events)
        BY <1>9
      <4> QED
        BY <4>1, ElementsBySeq
    <3>2. x # e /\ ~Resting(x)
      BY <2>2, <3>1, <1>10
    <3>3. x \in ToSet(kept[n])
      BY <3>2, <1>9
    <3> QED
      BY <3>1, <3>2, <3>3, <1>6 DEF IInv, KeptInv
  <2>3. /\ IsInjective(turn') /\ \A x \in ToSet(turn') : \E n \in Keys : x \in ToSet(kept'[n])
    <3>1. \A x \in ToSet(turn) : x # e
      BY <1>1 DEF NoHandlerLost
    <3>2. IsInjective(turn) /\ \A x \in ToSet(turn) : \E n \in Keys : x \in ToSet(kept[n])
      BY DEF IInv, KeptInv
    <3>3. turn' = turn
      BY <1>3
    <3> QED
      BY <3>1, <3>2, <3>3, <1>9
  <2> QED
    BY <2>1, <2>2, <2>3 DEF KeptInv
<1>19. ContextInv'
  <2> SUFFICES ASSUME NEW x \in Events
               PROVE  /\ event'[x].place = "pool" => x \notin doomed'
                      /\ Resting(x)' =>
                            event'[x].children = {} /\ (x \in stale' \/ ~event'[x].started)
    BY DEF ContextInv
  <2>1. CASE x = e
    BY <2>1, <1>3, <1>5
  <2>2. CASE x # e
    <3>1. event'[x].place = "pool" => x \notin doomed'
      BY <2>2, <1>3, <1>6 DEF IInv, ContextInv, Allocated
    <3>2. Resting(x)' => event'[x].children = {} /\ (x \in stale' \/ ~event'[x].started)
      BY <2>2, <1>3, <1>6, <1>10 DEF IInv, ContextInv
    <3> QED
      BY <3>1, <3>2
  <2> QED
    BY <2>1, <2>2
<1>20. FamilyInv'
  <2>1. ASSUME NEW x \in Events PROVE event'[x].children \subseteq Allocated'
    <3>1. event[x].children \subseteq Allocated
      BY DEF IInv, FamilyInv
    <3>2. CASE x = e
      BY <3>2, <1>5
    <3>3. CASE x # e
      <4> SUFFICES ASSUME NEW c \in event'[x].children PROVE c \in Allocated'
        OBVIOUS
      <4>1. c \in event[x].children /\ (~K => c # e) /\ c \in Events
        BY <3>1, <3>3, <1>6 DEF Allocated
      <4>2. event[c].place # "pool"
        BY <3>1, <4>1 DEF Allocated
      <4>3. event'[c].place # "pool"
        <5>1. CASE c = e
          BY <4>1, <5>1, <1>7
        <5>2. CASE c # e
          BY <4>1, <4>2, <5>2, <1>6
        <5> QED
          BY <5>1, <5>2
      <4> QED
        BY <4>1, <4>3 DEF Allocated
    <3> QED
      BY <3>2, <3>3
  <2>2. ASSUME NEW x \in Events, NEW c \in Events, event'[c].autoAbort
        PROVE  c \in event'[x].children <=> event'[c].parent = x
    <3>1. event[c].autoAbort /\ (c = e => K)
      BY <2>2, <1>6, <1>7
    <3>2. c \in event[x].children <=> event[c].parent = x
      BY <3>1 DEF IInv, FamilyInv
    <3>3. event'[c].parent = (IF event[c].parent = e THEN NoEvent ELSE event[c].parent)
      BY <3>1, <1>6, <1>7
    <3>4. CASE x = e
      BY <3>3, <3>4, <1>2, <1>4, <1>5
    <3>5. CASE x # e
      <4>1. c \in event'[x].children <=> c \in event[x].children
        BY <3>1, <3>5, <1>6
      <4>2. x # NoEvent
        BY <1>4
      <4> QED
        BY <3>2, <3>3, <3>5, <4>1, <4>2
    <3> QED
      BY <3>4, <3>5
  <2> QED
    BY <2>1, <2>2 DEF FamilyInv
<1> QED
  BY <1>11, <1>12, <1>13, <1>15, <1>16, <1>17, <1>18, <1>19, <1>20 DEF IInv, Accounted

-----------------------------------------------------------------------------
(* The theorems *)

\* A step of another part of the program
LEMMA StutteringKeepsIt ==
  ASSUME IInv, UNCHANGED vars
  PROVE  IInv'
<1>1. UNCHANGED <<script, phase, event, queue, kept, turn, running, received, now, last, doomed, stale>>
  BY DEF vars
<1>2. TypeOK'
  BY <1>1 DEF IInv, Accounted, TypeOK
<1>3. (NoHandlerLost /\ AbortedRightly /\ NothingOverdue)'
  BY <1>1 DEF IInv, Accounted, NoHandlerLost, AbortedRightly, NothingOverdue, Queued
<1>4. PhaseInv' /\ QueueInv'
  <2>1. PhaseInv'
    BY <1>1 DEF IInv, PhaseInv
  <2>2. Sorted(queue', event')
    BY <1>1 DEF IInv, QueueInv, Sorted
  <2>3. \A x \in Events : Resting(x)' <=> Resting(x)
    BY <1>1 DEF Resting, Queued
  <2>4. QueueInv'
    BY <1>1, <2>2, <2>3 DEF IInv, QueueInv
  <2> QED
    BY <2>1, <2>4
<1>5. KeptInv'
  BY <1>1 DEF IInv, KeptInv, Resting, Queued
<1>6. ContextInv'
  BY <1>1 DEF IInv, ContextInv, Resting, Queued
<1>7. FamilyInv'
  BY <1>1 DEF IInv, FamilyInv, Allocated
<1> QED
  BY <1>2, <1>3, <1>4, <1>5, <1>6, <1>7 DEF IInv, Accounted

\* Every step that ruins nothing keeps the invariant.
LEMMA SoundStepKeepsIt ==
  ASSUME IInv, [Next]_vars, phase' # "ruined"
  PROVE  IInv'
<1>1. CASE StartFragment
  BY <1>1, StartFragmentKeepsIt
<1>2. CASE Resume
  BY <1>2, ResumeKeepsIt
<1>3. CASE Resumed
  BY <1>3, ResumedKeepsIt
<1>4. CASE EventsDone
  BY <1>4, EventsDoneKeepsIt
<1>5. CASE EndFragment
  BY <1>5, EndFragmentKeepsIt
<1>6. CASE ReleaseKept
  BY <1>6, ReleaseKeptKeepsIt
<1>7. CASE EndAborted
  BY <1>7, FinishKeepsIt DEF EndAborted
<1>8. CASE Receive
  BY <1>8, ReceiveKeepsIt
<1>9. CASE Wait
  BY <1>9, WaitKeepsIt
<1>10. CASE ForcedSuspension
  BY <1>10, ForcedSuspensionKeepsIt
<1>11. CASE StopWait
  BY <1>11, StopWaitKeepsIt
<1>12. CASE Abort
  BY <1>12, AbortKeepsIt
<1>13. CASE Fork
  BY <1>13, ForkKeepsIt
<1>14. CASE End
  BY <1>14, FinishKeepsIt DEF End, Executes
<1>15. CASE EngineReset
  BY <1>15, EngineResetKeepsIt
<1>16. CASE LoadScript
  BY <1>16, LoadScriptKeepsIt
<1>17. CASE FreeKey
  BY <1>17, FreeKeyKeepsIt
<1>18. CASE UNCHANGED vars
  BY <1>18, StutteringKeepsIt
<1> QED
  BY <1>1, <1>2, <1>3, <1>4, <1>5, <1>6, <1>7, <1>8, <1>9, <1>10, <1>11, <1>12, <1>13, <1>14,
     <1>15, <1>16, <1>17, <1>18
  DEF Next, Engine, Ruined

\* A step that breaks the lists: a MIDI event that needs what is in use, or a key that
\* goes inactive.
LEMMA RuiningStep ==
  ASSUME IInv, [Next]_vars, phase' = "ruined"
  PROVE  RuinedInv' /\ last' = last /\ (Receive \/ FreeKey) /\ running' = running
<1>1. TypeOK /\ phase # "ruined"
  BY DEF IInv, Accounted, PhaseInv
<1>2. Receive \/ FreeKey
  <2>1. ~(StartFragment \/ Resume \/ Resumed \/ EventsDone \/ EndFragment \/ ReleaseKept)
    BY <1>1 DEF StartFragment, Resume, Resumed, EventsDone, EndFragment, ReleaseKept
  <2>2. ~(Wait \/ ForcedSuspension \/ StopWait \/ Abort \/ Fork \/ End \/ EndAborted)
    BY <1>1 DEF Wait, ForcedSuspension, StopWait, Abort, Fork, End, EndAborted, Finish
  <2>3. ~(EngineReset \/ LoadScript \/ Ruined \/ UNCHANGED vars)
    BY <1>1 DEF EngineReset, LoadScript, Clear, Ruined, vars
  <2> QED
    BY <2>1, <2>2, <2>3 DEF Next, Engine
<1>3. CASE Receive
  <2>1. /\ phase = "events" /\ running = NoEvent /\ turn = <<>> /\ received < script.events
        /\ received' = received + 1 /\ UNCHANGED <<script, queue, kept, last, doomed, stale>>
    BY <1>3 DEF Receive
  <2>2. PICK h \in script.handlers, k \in Keys, t \in now..(FragmentSize - 1) :
           now' = t /\ UNCHANGED <<event, running, turn>>
    BY <1>1, <1>3 DEF Receive
  <2>3. received' \in 0..script.events /\ now' \in 0..FragmentSize
    <3>1. script.events \in Nat
      BY <1>1, ScriptEventsAssumption DEF TypeOK
    <3>2. received \in 0..script.events /\ now \in 0..FragmentSize
      BY <1>1 DEF TypeOK
    <3> QED
      BY <2>1, <2>2, <3>1, <3>2, FragmentLength
  <2> QED
    BY <1>1, <1>3, <2>1, <2>2, <2>3 DEF TypeOK, RuinedInv
<1>4. CASE FreeKey
  <2>1. /\ phase = "idle" /\ 1 \in Keys
        /\ event' = FreedKey /\ kept' = [kept EXCEPT ![1] = <<>>]
        /\ doomed' = doomed \ ToSet(kept[1])
        /\ stale' = stale \cup {e \in ToSet(kept[1]) : ~IsClean(e)}
        /\ UNCHANGED <<script, queue, turn, running, received, now, last>>
    BY <1>4 DEF FreeKey
  <2>2. running = NoEvent /\ turn = <<>>
    BY <2>1 DEF IInv, PhaseInv
  <2>3. event' \in [Events -> ScriptEvent] /\ ToSet(kept[1]) \subseteq Events
    BY <1>1, <2>1, FreedKeyFacts
  <2>4. kept' \in [Keys -> Seq(Events)]
    <3>0. <<>> \in Seq(Events)
      OBVIOUS
    <3>1. kept \in [Keys -> Seq(Events)] /\ <<>> \in Seq(Events)
      BY <1>1, <3>0 DEF TypeOK
    <3> QED
      BY <2>1, <3>1
  <2> QED
    BY <1>1, <1>4, <2>1, <2>2, <2>3, <2>4 DEF TypeOK, RuinedInv
<1> QED
  BY <1>2, <1>3, <1>4

\* Nothing is done once the lists are broken.
LEMMA RuinedForGood ==
  ASSUME phase = "ruined", RuinedInv, [Next]_vars
  PROVE  UNCHANGED vars
<1>1. running = NoEvent /\ turn = <<>>
  BY DEF RuinedInv
<1>2. ~(StartFragment \/ Resume \/ Resumed \/ EventsDone \/ EndFragment \/ ReleaseKept \/ Receive)
  BY <1>1 DEF StartFragment, Resume, Resumed, EventsDone, EndFragment, ReleaseKept, Receive
<1>3. ~(Wait \/ ForcedSuspension \/ StopWait \/ Abort \/ Fork \/ End \/ EndAborted)
  BY <1>1 DEF Wait, ForcedSuspension, StopWait, Abort, Fork, End, EndAborted, Executes, Calls
<1>4. ~(EngineReset \/ LoadScript \/ FreeKey)
  BY DEF EngineReset, LoadScript, FreeKey
<1> QED
  BY <1>2, <1>3, <1>4 DEF Next, Engine, Ruined

\* Every step keeps one of the two.
LEMMA StepKeepsIt ==
  ASSUME AnyInv, [Next]_vars
  PROVE  AnyInv'
<1>1. CASE IInv /\ phase' # "ruined"
  BY <1>1, SoundStepKeepsIt DEF AnyInv
<1>2. CASE IInv /\ phase' = "ruined"
  BY <1>2, RuiningStep DEF AnyInv
<1>3. CASE phase = "ruined" /\ RuinedInv
  <2>1. UNCHANGED vars
    BY <1>3, RuinedForGood
  <2>2. phase' = "ruined" /\ RuinedInv'
    BY <1>3, <2>1 DEF RuinedInv, TypeOK, vars
  <2> QED
    BY <2>2 DEF AnyInv
<1> QED
  BY <1>1, <1>2, <1>3 DEF AnyInv

\* The inductive invariant holds, whatever handlers do to each other: wait, fork, stop
\* or abort each other, and end, in any order, and whenever the engine is reset, until
\* a script event that is in use is given to another handler.
THEOREM Invariance == Spec => []AnyInv
<1>1. Init => AnyInv
  BY Initially DEF AnyInv
<1>2. AnyInv /\ [Next]_vars => AnyInv'
  BY StepKeepsIt
<1> QED
  BY <1>1, <1>2, PTL DEF Spec

\* No script event is lost or in two places, none is aborted but those that were told
\* to end or whose parent has ended, and none is overdue: RTAVLTree, RTList and
\* childHandlerID[] agree on what happens to every execution instance, until FreeKey(),
\* a second note-off or an empty pool gives away a script event that is in use.
THEOREM Accounting == Spec => []HandlersAccounted
<1>1. AnyInv => HandlersAccounted
  BY DEF AnyInv, RuinedInv, IInv, Accounted, HandlersAccounted
<1> QED
  BY <1>1, Invariance, PTL

\* A handler that a MIDI event spawns starts at its beginning: the script event that
\* the pool gives out, or the one that was kept for a note-off, is not in the middle of
\* an earlier handler, unless a reset of the engine left it there.
THEOREM HandlersStartAfresh == Spec => FreshStart
<1> DEFINE A == phase = "events" /\ running = NoEvent /\ running' \notin stale \cup {NoEvent}
                   => ~event'[running'].started
<1>1. ASSUME AnyInv, [Next]_vars PROVE [A]_vars
  <2> SUFFICES ASSUME Next, phase = "events", running = NoEvent, running' # NoEvent,
                      running' \notin stale
               PROVE  ~event'[running'].started
    BY <1>1
  <2>1. IInv /\ phase' # "ruined"
    BY <1>1, RuiningStep DEF AnyInv
  <2>2. CASE Receive
    BY <2>1, <2>2, ReceiveKeepsIt
  <2>3. CASE ReleaseKept
    BY <2>1, <2>3, ReleaseKeptKeepsIt
  <2>4. ~Resume
    BY DEF Resume
  <2>5. ~(StartFragment \/ Resumed \/ EventsDone \/ EndFragment \/ EngineReset \/ LoadScript)
    BY DEF StartFragment, Resumed, EventsDone, EndFragment, EngineReset, LoadScript, Clear
  <2>6. ~(EndAborted \/ Wait \/ ForcedSuspension \/ StopWait \/ Abort \/ Fork \/ End)
    BY DEF EndAborted, Wait, ForcedSuspension, StopWait, Abort, Fork, End, Executes, Calls
  <2>7. ~(FreeKey \/ Ruined)
    BY DEF FreeKey, Ruined
  <2> QED
    BY <2>2, <2>3, <2>4, <2>5, <2>6, <2>7 DEF Next, Engine
<1>2. AnyInv /\ [Next]_vars => [A]_vars
  BY <1>1
<1> QED
  BY <1>2, Invariance, PTL DEF Spec, FreshStart

\* Handlers are resumed in the order of their times, although the queue changes
\* between two of them: stop_wait() and fork() put nothing before what was last.
THEOREM InOrder == Spec => ResumedInOrder
<1> DEFINE A == last' >= last \/ phase' # phase
<1>1. ASSUME AnyInv, [Next]_vars PROVE [A]_vars
  <2> SUFFICES ASSUME Next, phase' = phase PROVE last' >= last \/ UNCHANGED vars
    BY <1>1
  <2>0. CASE phase = "ruined"
    BY <1>1, <2>0, RuinedForGood DEF AnyInv, IInv, PhaseInv
  <2>1. CASE phase # "ruined"
    <3>1. IInv
      BY <1>1, <2>1 DEF AnyInv
    <3>2. last \in Int
      <4>1. last \in 0..FragmentSize
        BY <3>1 DEF IInv, Accounted, TypeOK
      <4> QED
        BY <4>1, FragmentLength
    <3>3. CASE Resume
      BY <3>1, <3>3, ResumeKeepsIt
    <3>4. ~(Resumed \/ EndFragment \/ Ruined)
      BY <2>1 DEF Resumed, EndFragment, Ruined
    <3>5. CASE \/ StartFragment \/ EventsDone \/ ReleaseKept \/ Receive \/ FreeKey
               \/ EngineReset \/ LoadScript
      <4>1. last' = last
        BY <3>5
        DEF StartFragment, EventsDone, ReleaseKept, Receive, FreeKey, EngineReset, LoadScript, Clear
      <4> QED
        BY <3>2, <4>1
    <3>6. CASE EndAborted \/ Wait \/ ForcedSuspension \/ StopWait \/ Abort \/ Fork \/ End
      <4>1. last' = last
        BY <3>6 DEF EndAborted, Wait, ForcedSuspension, StopWait, Abort, Fork, End, Finish
      <4> QED
        BY <3>2, <4>1
    <3> QED
      BY <3>3, <3>4, <3>5, <3>6 DEF Next, Engine
  <2> QED
    BY <2>0, <2>1
<1>2. AnyInv /\ [Next]_vars => [A]_vars
  BY <1>1
<1> QED
  BY <1>2, Invariance, PTL DEF Spec, ResumedInOrder
=============================================================================
