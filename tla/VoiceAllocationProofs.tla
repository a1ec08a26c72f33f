----------------------- MODULE VoiceAllocationProofs -----------------------
(***************************************************************************)
(* Proofs about VoiceAllocation, for any number of channels, any keys,     *)
(* layers, pools, messages and number of messages in a fragment.           *)
(***************************************************************************)
EXTENDS VoiceAllocation, SequenceTheorems, FiniteSetTheorems, WellFoundedInduction, TLAPS

-----------------------------------------------------------------------------
(* The inductive invariant *)

Distinct(s) == \A i, j \in DOMAIN s : s[i] = s[j] => i = j
NotesOn(c, k) == ToSet(notes[c][k])
VoicesOf(n) == ToSet(voices[n])

\* The lists share nothing, and what is on them is reached from the active keys.
ListsInv ==
    /\ \A c \in Chans : Distinct(active[c])
    /\ \A c \in Chans, k \in Keys : /\ Distinct(notes[c][k])
                                    /\ NotesOn(c, k) # {} => k \in Active(c)
    /\ \A c, d \in Chans, k, l \in Keys : \A n \in NotesOn(c, k) \cap NotesOn(d, l) : c = d /\ k = l
    /\ \A n \in Notes : /\ Distinct(voices[n])
                        /\ VoicesOf(n) # {} => \E c \in Chans, k \in Keys : n \in NotesOn(c, k)
    /\ \A n, m \in Notes : \A v \in VoicesOf(n) \cap VoicesOf(m) : n = m
    /\ \A v \in Voices : voice[v].state # "free" <=> \E n \in Notes : v \in VoicesOf(n)

\* Whatever is still to be given a voice has its note on the lists.
WorkInv ==
    /\ phase \in {"idle", "render", "stolen"} => queue = <<>>
    /\ phase # "process" => launch = NoLaunch
    /\ phase = "idle" => stolen = <<>>
    /\ \A i \in DOMAIN queue : queue[i].event.type = "on" =>
          queue[i].note \in NotesOn(chan, queue[i].event.key)
    /\ \A i \in DOMAIN stolen : /\ stolen[i].note \in NotesOn(stolen[i].chan, stolen[i].key)
                                /\ ~muted[stolen[i].chan]

\* Voices that have not rendered yet were launched in this fragment.
InitInv == \A v \in Voices :
    /\ voice[v].state = "init" =>
          /\ phase \in {"import", "process", "render"}
          /\ \E c \in Chans, k \in Keys : v \in VoicesOn(c, k) /\ ~muted[c]
    /\ voice[v].state # "init" => voice[v].trigger = 0

\* The events behind the one that triggered a voice are of this fragment.
Begins(c, k, i) ==
    /\ i <= Len(key[c][k].events)
    /\ \A j \in DOMAIN key[c][k].events : j > i => key[c][k].events[j].fresh
EventsInv ==
    /\ phase # "stolen" => \A c \in Chans, k \in Keys :
          /\ \A v \in VoicesOn(c, k) : Begins(c, k, voice[v].trigger)
    /\ \A i \in DOMAIN stolen : stolen[i].trigger <= Len(key[stolen[i].chan][stolen[i].key].events)
    /\ phase = "idle" => \A c \in Chans : \A k \in Active(c) : key[c][k].events = <<>>


\* A note is launched on a key that is pressed, and never on a muted channel.
LaunchInv ==
    /\ launch.left > 0 =>
          /\ launch.key \in Keys /\ launch.note \in NotesOn(chan, launch.key)
          /\ key[chan][launch.key].pressed
          /\ Begins(chan, launch.key, launch.trigger)
    /\ launch.left > 0 \/ launch.kill # NoKey => ~muted[chan]
    /\ launch # NoLaunch => launch.left > 0 \/ launch.kill # NoKey

\* VoiceSpawnsLeft has been lowered for each voice that can no longer be stolen.
Spent == {v \in Voices \ uncounted : voice[v].state = "init" \/ voice[v].killed}
SpentInv == phase \in {"import", "process"} => Cardinality(Spent) <= MaxVoices - spawnsLeft

\* For each theft a voice ends, and its key knows of it.
Dying == {v \in Voices : voice[v].killed /\ voice[v].state = "play"}
Killed == {v \in Voices : voice[v].killed}
Thefts(c, k) == {i \in DOMAIN stolen : stolen[i].chan = c /\ stolen[i].key = k}
TheftsInv ==
    /\ phase \in {"import", "process", "render"} => Len(stolen) <= Cardinality(Dying)
    /\ phase = "stolen" => Len(stolen) <= Cardinality(FreeVoices \cup Killed)
    /\ \A c \in Chans, k \in Keys : key[c][k].thefts = Cardinality(Thefts(c, k))

\* From the i-th event on, the player holds k down until its next release.
HeldFrom(k, i) ==
    /\ \A j \in i..Len(queue) : queue[j].event = [type |-> "on", key |-> k] =>
          \E m \in i..(j-1) : queue[m].event = [type |-> "off", key |-> k]
    /\ \/ k \in down[chan]
       \/ \E m \in i..Len(queue) : queue[m].event = [type |-> "off", key |-> k]
PlayerInv ==
    /\ \A c \in Chans, k \in Keys : key[c][k].pressed /\ <<c, k>> \notin stuck =>
          IF c = chan THEN HeldFrom(k, 1) ELSE k \in down[c]
    /\ \A i \in DOMAIN queue, k \in Keys :
          queue[i].event = [type |-> "on", key |-> k] => HeldFrom(k, i + 1)

\* A voice that goes on has its key held, or its release is known to be lost.
MayHang(c, k) ==
    \/ key[c][k].pressed \/ ~ShouldReleaseVoice(c, k)
    \/ <<c, k>> \in stuck \/ (c = chan /\ launch.kill = k)
EnvOf(c, k, v) == IF muted[c] \/ phase = "stolen" THEN voice[v].env
                  ELSE EnvAfter(voice[v].env, EventsFor(c, k, v))
HoldInv ==
    /\ \A c \in Chans, k \in Keys : \A v \in VoicesOn(c, k) :
          voice[v].killed \/ v \in missed \/ (EnvOf(c, k, v) = "on" => MayHang(c, k))
    /\ \A i \in DOMAIN stolen : LostRelease(stolen[i]) \/ MayHang(stolen[i].chan, stolen[i].key)

IInv == TypeOK /\ ListsInv /\ WorkInv /\ LaunchInv /\ InitInv /\ EventsInv /\ SpentInv
        /\ TheftsInv /\ PlayerInv /\ HoldInv

-----------------------------------------------------------------------------
(* Sequences *)

\* The natural numbers are well ordered.  (The library states induction with an
\* operator for the property; the proofs about sequences use sets.)
LEMMA NatSetInduction ==
  ASSUME NEW S, 0 \in S, \A n \in Nat : n \in S => n + 1 \in S
  PROVE  Nat \subseteq S
<1> DEFINE LessThan == {ss \in Nat \X Nat : ss[1] < ss[2]}
<1>1. IsWellFoundedOn(LessThan, Nat)
  BY NatLessThanWellFounded, Zenon DEF OpToRel
<1>2. SUFFICES ASSUME Nat \ S # {} PROVE FALSE
  OBVIOUS
<1>3. PICK n \in Nat \ S : \A m \in Nat \ S : ~ (<<m, n>> \in LessThan)
  <2>1. Nat \ S \subseteq Nat
    OBVIOUS
  <2> HIDE DEF LessThan
  <2> QED
    BY <1>1, <1>2, <2>1, WFMin, Zenon
<1>4. \A m \in Nat \ S : ~ (m < n)
  BY <1>3
<1>5. n - 1 \in Nat
  OBVIOUS
<1> QED
  BY <1>3, <1>4, <1>5

\* The elements of a sequence, by index
LEMMA ElementsBySeq ==
  ASSUME NEW S, NEW s \in Seq(S)
  PROVE  /\ DOMAIN s = 1..Len(s) /\ Len(s) \in Nat /\ ToSet(s) \subseteq S
         /\ \A i \in 1..Len(s) : s[i] \in S /\ s[i] \in ToSet(s)
         /\ \A x \in ToSet(s) : \E i \in 1..Len(s) : s[i] = x
         /\ (s = <<>> <=> ToSet(s) = {}) /\ (s = <<>> <=> Len(s) = 0)
BY DEF ToSet

\* Append() by index
LEMMA AppendByIndex ==
  ASSUME NEW S, NEW s \in Seq(S), NEW x \in S
  PROVE  /\ Append(s, x) \in Seq(S) /\ Len(Append(s, x)) = Len(s) + 1
         /\ DOMAIN Append(s, x) = 1..Len(s) + 1
         /\ \A i \in 1..Len(s) : Append(s, x)[i] = s[i]
         /\ Append(s, x)[Len(s) + 1] = x
         /\ ToSet(Append(s, x)) = ToSet(s) \cup {x}
<1>1. /\ Append(s, x) \in Seq(S) /\ Len(Append(s, x)) = Len(s) + 1 /\ Len(s) \in Nat
      /\ \A i \in 1..Len(s) : Append(s, x)[i] = s[i]
      /\ Append(s, x)[Len(s) + 1] = x
  OBVIOUS
<1> DEFINE a == Append(s, x)
<1>2. DOMAIN a = 1..Len(s) + 1 /\ DOMAIN s = 1..Len(s)
  BY <1>1
<1> HIDE DEF a
<1>3. \A i \in DOMAIN a : a[i] \in ToSet(s) \cup {x}
  BY <1>1, <1>2 DEF ToSet, a
<1>4. \A y \in ToSet(s) \cup {x} : \E i \in DOMAIN a : a[i] = y
  BY <1>1, <1>2 DEF ToSet, a
<1>5. ToSet(a) = ToSet(s) \cup {x}
  BY <1>3, <1>4 DEF ToSet
<1> QED
  BY <1>1, <1>2, <1>5 DEF a

\* A sequence is empty, or the last element was appended to the rest.
LEMMA EmptyOrAppended ==
  ASSUME NEW S, NEW n \in Nat, NEW s \in Seq(S), Len(s) = n + 1
  PROVE  \E r \in Seq(S), x \in S : Len(r) = n /\ s = Append(r, x)
<1> DEFINE r == SubSeq(s, 1, n)
           x == s[n + 1]
<1>1. r \in Seq(S) /\ x \in S /\ Len(r) = n /\ \A i \in 1..n : r[i] = s[i]
  OBVIOUS
<1>2. s = Append(r, x)
  <2> HIDE DEF r, x
  <2>1. /\ Append(r, x) \in Seq(S) /\ Len(Append(r, x)) = n + 1
        /\ \A i \in 1..n : Append(r, x)[i] = r[i]
        /\ Append(r, x)[n + 1] = x
    BY <1>1
  <2>2. \A i \in 1..Len(s) : s[i] = Append(r, x)[i]
    BY <1>1, <2>1 DEF x
  <2> QED
    BY <2>1, <2>2, SeqEqual
<1> QED
  BY <1>1, <1>2

\* What holds of the empty sequence and is preserved by Append() holds of all.
LEMMA SeqSetInduction ==
  ASSUME NEW S, NEW P, <<>> \in P,
         \A s \in Seq(S), x \in S : s \in P => Append(s, x) \in P
  PROVE  Seq(S) \subseteq P
<1> DEFINE N == {n \in Nat : \A s \in Seq(S) : Len(s) = n => s \in P}
<1>1. 0 \in N
  OBVIOUS
<1>2. ASSUME NEW n \in Nat, n \in N PROVE n + 1 \in N
  <2> SUFFICES ASSUME NEW s \in Seq(S), Len(s) = n + 1 PROVE s \in P
    OBVIOUS
  <2>1. PICK r \in Seq(S), x \in S : Len(r) = n /\ s = Append(r, x)
    BY EmptyOrAppended
  <2>2. r \in P
    BY <1>2, <2>1
  <2> QED
    BY <2>1, <2>2
<1>3. Nat \subseteq N
  <2> HIDE DEF N
  <2> QED
    BY <1>1, <1>2, NatSetInduction
<1> QED
  BY <1>3

\* The recursion of OnlyIn() is well defined.
Keeps(g, s, S) ==
  g = [i \in 0..Len(s) |->
         IF i = 0 THEN <<>> ELSE IF s[i] \in S THEN Append(g[i - 1], s[i]) ELSE g[i - 1]]

\* The function that OnlyIn() reads, for one more element.
LEMMA KeepsExtends ==
  ASSUME NEW T, NEW S, NEW s \in Seq(T), NEW x \in T, NEW g, Keeps(g, s, S)
  PROVE  Keeps([i \in 0..Len(s) + 1 |->
                  IF i <= Len(s) THEN g[i]
                  ELSE IF x \in S THEN Append(g[Len(s)], x) ELSE g[Len(s)]], Append(s, x), S)
<1> DEFINE a == Append(s, x)
           h == [i \in 0..Len(s) + 1 |->
                   IF i <= Len(s) THEN g[i]
                   ELSE IF x \in S THEN Append(g[Len(s)], x) ELSE g[Len(s)]]
<1>1. /\ Len(s) \in Nat /\ Len(a) = Len(s) + 1 /\ a[Len(s) + 1] = x
      /\ \A i \in 1..Len(s) : a[i] = s[i]
  OBVIOUS
<1> HIDE DEF a
<1>2. \A i \in 0..Len(s) : h[i] = g[i]
  BY <1>1
<1>3. \A i \in 0..Len(s) : g[i] = IF i = 0 THEN <<>>
                               ELSE IF s[i] \in S THEN Append(g[i - 1], s[i]) ELSE g[i - 1]
  BY DEF Keeps
<1>4. h[Len(s) + 1] = IF x \in S THEN Append(g[Len(s)], x) ELSE g[Len(s)]
  BY <1>1
<1> HIDE DEF h
<1>5. ASSUME NEW i \in 0..Len(s) + 1
      PROVE  h[i] = IF i = 0 THEN <<>>
                    ELSE IF a[i] \in S THEN Append(h[i - 1], a[i]) ELSE h[i - 1]
  <2>1. CASE i = Len(s) + 1
    <3>1. i - 1 = Len(s) /\ i # 0 /\ Len(s) \in 0..Len(s)
      BY <1>1, <2>1
    <3> QED
      BY <1>1, <1>2, <1>4, <2>1, <3>1
  <2>2. CASE i = 0
    <3>1. 0 \in 0..Len(s)
      BY <1>1
    <3> QED
      BY <1>2, <1>3, <2>2, <3>1
  <2>3. CASE i \in 1..Len(s)
    <3>1. i - 1 \in 0..Len(s) /\ i \in 0..Len(s) /\ i # 0
      BY <1>1, <2>3
    <3> QED
      BY <1>1, <1>2, <1>3, <2>3, <3>1
  <2> QED
    BY <1>1, <2>1, <2>2, <2>3
<1> QED
  BY <1>1, <1>5 DEF Keeps, h, a

\* Every sequence has such a function.
LEMMA KeepsExists ==
  ASSUME NEW T, NEW S
  PROVE  \A s \in Seq(T) : \E g : Keeps(g, s, S)
<1> DEFINE P == {s \in Seq(T) : \E g : Keeps(g, s, S)}
<1>1. <<>> \in P
  <2>1. Keeps([i \in 0..0 |-> <<>>], <<>>, S)
    BY DEF Keeps
  <2> QED
    BY <2>1
<1>2. ASSUME NEW s \in Seq(T), NEW x \in T, s \in P PROVE Append(s, x) \in P
  <2>1. PICK g : Keeps(g, s, S)
    BY <1>2
  <2>2. \E h : Keeps(h, Append(s, x), S)
    BY <2>1, KeepsExtends
  <2>3. Append(s, x) \in Seq(T)
    OBVIOUS
  <2> QED
    BY <2>2, <2>3
<1>3. Seq(T) \subseteq P
  <2> HIDE DEF P
  <2> QED
    BY <1>1, <1>2, SeqSetInduction
<1> QED
  BY <1>3

\* OnlyIn() does not depend on which one is chosen.
LEMMA KeepsUnique ==
  ASSUME NEW T, NEW S, NEW s \in Seq(T), NEW g, NEW h, Keeps(g, s, S), Keeps(h, s, S)
  PROVE  g[Len(s)] = h[Len(s)]
<1> DEFINE N == {n \in Nat : n <= Len(s) => g[n] = h[n]}
<1>1. \A i \in 0..Len(s) : /\ g[i] = IF i = 0 THEN <<>>
                               ELSE IF s[i] \in S THEN Append(g[i - 1], s[i]) ELSE g[i - 1]
                           /\ h[i] = IF i = 0 THEN <<>>
                               ELSE IF s[i] \in S THEN Append(h[i - 1], s[i]) ELSE h[i - 1]
  BY DEF Keeps
<1>2. Len(s) \in Nat
  OBVIOUS
<1>3. 0 \in N
  BY <1>1, <1>2
<1>4. ASSUME NEW n \in Nat, n \in N PROVE n + 1 \in N
  <2> SUFFICES ASSUME n + 1 <= Len(s) PROVE g[n + 1] = h[n + 1]
    OBVIOUS
  <2>1. n + 1 \in 0..Len(s) /\ n + 1 # 0 /\ (n + 1) - 1 = n /\ n <= Len(s)
    BY <1>2
  <2> QED
    BY <1>1, <1>4, <2>1
<1>5. Nat \subseteq N
  <2> HIDE DEF N
  <2> QED
    BY <1>3, <1>4, NatSetInduction
<1> QED
  BY <1>2, <1>5

\* OnlyIn(), by recursion on the sequence
LEMMA OnlyInAppend ==
  ASSUME NEW T, NEW S
  PROVE  /\ OnlyIn(<<>>, S) = <<>>
         /\ \A s \in Seq(T), x \in T :
              OnlyIn(Append(s, x), S) = IF x \in S THEN Append(OnlyIn(s, S), x) ELSE OnlyIn(s, S)
<1>1. ASSUME NEW s \in Seq(T)
      PROVE  \E g : Keeps(g, s, S) /\ OnlyIn(s, S) = g[Len(s)]
  <2> DEFINE g == CHOOSE g : Keeps(g, s, S)
  <2>1. Keeps(g, s, S)
    BY KeepsExists, Zenon
  <2>2. OnlyIn(s, S) = g[Len(s)]
    BY Zenon DEF OnlyIn, Keeps
  <2> QED
    BY <2>1, <2>2
<1>2. OnlyIn(<<>>, S) = <<>>
  <2>1. <<>> \in Seq(T) /\ Len(<<>>) = 0
    OBVIOUS
  <2>2. PICK g : Keeps(g, <<>>, S) /\ OnlyIn(<<>>, S) = g[Len(<<>>)]
    BY <1>1, <2>1
  <2> QED
    BY <2>1, <2>2 DEF Keeps
<1>3. ASSUME NEW s \in Seq(T), NEW x \in T
      PROVE  OnlyIn(Append(s, x), S) = IF x \in S THEN Append(OnlyIn(s, S), x) ELSE OnlyIn(s, S)
  <2> DEFINE a == Append(s, x)
  <2>1. a \in Seq(T) /\ Len(a) = Len(s) + 1 /\ Len(s) \in Nat
    OBVIOUS
  <2>2. PICK g : Keeps(g, s, S) /\ OnlyIn(s, S) = g[Len(s)]
    BY <1>1
  <2> DEFINE h == [i \in 0..Len(s) + 1 |->
                     IF i <= Len(s) THEN g[i]
                     ELSE IF x \in S THEN Append(g[Len(s)], x) ELSE g[Len(s)]]
  <2>3. Keeps(h, a, S)
    BY <2>2, KeepsExtends
  <2>4. h[Len(s) + 1] = IF x \in S THEN Append(g[Len(s)], x) ELSE g[Len(s)]
    BY <2>1
  <2> HIDE DEF h, a
  <2>5. PICK f : Keeps(f, a, S) /\ OnlyIn(a, S) = f[Len(a)]
    BY <1>1, <2>1
  <2>6. f[Len(a)] = h[Len(a)]
    BY <2>1, <2>3, <2>5, KeepsUnique
  <2> QED
    BY <2>1, <2>2, <2>4, <2>5, <2>6 DEF a
<1> QED
  BY <1>2, <1>3

\* Appending a new element, and none twice
LEMMA DistinctAppend ==
  ASSUME NEW S, NEW s \in Seq(S), NEW x \in S, Distinct(s), x \notin ToSet(s)
  PROVE  Distinct(Append(s, x))
<1>1. \A i \in 1..Len(s) : s[i] # x
  BY ElementsBySeq
<1>2. DOMAIN s = 1..Len(s) /\ Len(s) \in Nat
  OBVIOUS
<1> QED
  BY <1>1, <1>2, AppendByIndex DEF Distinct

\* OnlyIn() leaves the elements of the set.
LEMMA OnlyInFacts ==
  ASSUME NEW T, NEW S, NEW s \in Seq(T)
  PROVE  /\ OnlyIn(s, S) \in Seq(T) /\ ToSet(OnlyIn(s, S)) = ToSet(s) \cap S
         /\ Distinct(s) => Distinct(OnlyIn(s, S))
<1> DEFINE P == {r \in Seq(T) : /\ OnlyIn(r, S) \in Seq(T)
                                /\ ToSet(OnlyIn(r, S)) = ToSet(r) \cap S
                                /\ Distinct(r) => Distinct(OnlyIn(r, S))}
<1>0. /\ OnlyIn(<<>>, S) = <<>>
      /\ \A r \in Seq(T), x \in T :
           OnlyIn(Append(r, x), S) = IF x \in S THEN Append(OnlyIn(r, S), x) ELSE OnlyIn(r, S)
  BY OnlyInAppend, Zenon
<1>1. <<>> \in P
  <2>1. <<>> \in Seq(T) /\ ToSet(<<>>) = {}
    BY DEF ToSet
  <2>2. Distinct(<<>>)
    BY DEF Distinct
  <2> QED
    BY <1>0, <2>1, <2>2
<1>2. ASSUME NEW r \in Seq(T), NEW x \in T, r \in P PROVE Append(r, x) \in P
  <2>1. OnlyIn(Append(r, x), S) = IF x \in S THEN Append(OnlyIn(r, S), x) ELSE OnlyIn(r, S)
    BY <1>0
  <2>2. /\ OnlyIn(r, S) \in Seq(T) /\ ToSet(OnlyIn(r, S)) = ToSet(r) \cap S
        /\ Distinct(r) => Distinct(OnlyIn(r, S))
    BY <1>2
  <2>3. Append(r, x) \in Seq(T) /\ ToSet(Append(r, x)) = ToSet(r) \cup {x}
    BY AppendByIndex
  <2>4. Distinct(Append(r, x)) => Distinct(r) /\ x \notin ToSet(r)
    <3> DEFINE a == Append(r, x)
    <3>1. DOMAIN r = 1..Len(r) /\ Len(r) \in Nat /\ \A y \in ToSet(r) : \E i \in 1..Len(r) : r[i] = y
      BY ElementsBySeq
    <3>2. /\ DOMAIN a = 1..Len(r) + 1 /\ a[Len(r) + 1] = x
          /\ \A i \in 1..Len(r) : a[i] = r[i]
      BY AppendByIndex
    <3> HIDE DEF a
    <3>3. \A i \in 1..Len(r) : i \in 1..Len(r) + 1 /\ i # Len(r) + 1
      BY <3>1
    <3>4. Len(r) + 1 \in 1..Len(r) + 1
      BY <3>1
    <3>5. SUFFICES ASSUME Distinct(a) PROVE Distinct(r) /\ x \notin ToSet(r)
      BY DEF a
    <3> QED
      BY <3>1, <3>2, <3>3, <3>4, <3>5 DEF Distinct
  <2>5. CASE x \in S
    <3>1. /\ ToSet(Append(OnlyIn(r, S), x)) = ToSet(OnlyIn(r, S)) \cup {x}
          /\ Append(OnlyIn(r, S), x) \in Seq(T)
      BY <2>2, AppendByIndex
    <3>2. Distinct(Append(r, x)) => Distinct(Append(OnlyIn(r, S), x))
      BY <2>2, <2>4, DistinctAppend
    <3> QED
      BY <2>1, <2>2, <2>3, <2>5, <3>1, <3>2
  <2>6. CASE x \notin S
    BY <2>1, <2>2, <2>3, <2>4, <2>6
  <2> QED
    BY <2>5, <2>6
<1>3. Seq(T) \subseteq P
  <2> HIDE DEF P
  <2> QED
    BY <1>1, <1>2, SeqSetInduction
<1> QED
  BY <1>3

\* Concatenation by elements
LEMMA ConcatFacts ==
  ASSUME NEW S, NEW s \in Seq(S), NEW r \in Seq(S)
  PROVE  /\ s \o r \in Seq(S) /\ ToSet(s \o r) = ToSet(s) \cup ToSet(r)
         /\ Distinct(s) /\ Distinct(r) /\ ToSet(s) \cap ToSet(r) = {} => Distinct(s \o r)
<1> DEFINE c == s \o r
<1>1. /\ Len(s) \in Nat /\ Len(r) \in Nat /\ DOMAIN s = 1..Len(s) /\ DOMAIN r = 1..Len(r)
      /\ c \in Seq(S) /\ DOMAIN c = 1..(Len(s) + Len(r))
      /\ \A i \in 1..Len(s) : c[i] = s[i]
      /\ \A i \in 1..(Len(s) + Len(r)) : i > Len(s) => c[i] = r[i - Len(s)]
  OBVIOUS
<1> HIDE DEF c
<1>2. \A i \in DOMAIN c : \/ i \in DOMAIN s /\ c[i] = s[i]
                          \/ i - Len(s) \in DOMAIN r /\ c[i] = r[i - Len(s)]
  BY <1>1
<1>3. \A i \in DOMAIN s : i \in DOMAIN c /\ c[i] = s[i]
  BY <1>1
<1>4. \A i \in DOMAIN r : i + Len(s) \in DOMAIN c /\ c[i + Len(s)] = r[i]
  <2> TAKE i \in DOMAIN r
  <2>1. i + Len(s) \in 1..(Len(s) + Len(r)) /\ i + Len(s) > Len(s) /\ (i + Len(s)) - Len(s) = i
    BY <1>1
  <2> QED
    BY <1>1, <2>1
<1>5. ToSet(c) = ToSet(s) \cup ToSet(r)
  BY <1>2, <1>3, <1>4 DEF ToSet
<1>6. ASSUME Distinct(s), Distinct(r), ToSet(s) \cap ToSet(r) = {} PROVE Distinct(c)
  <2> SUFFICES ASSUME NEW i \in DOMAIN c, NEW j \in DOMAIN c, c[i] = c[j] PROVE i = j
    BY DEF Distinct
  <2>1. \A x \in DOMAIN s, y \in DOMAIN r : s[x] # r[y]
    BY <1>6 DEF ToSet
  <2>2. CASE i \in DOMAIN s /\ c[i] = s[i]
    BY <1>2, <1>6, <2>1, <2>2 DEF Distinct
  <2>3. CASE i - Len(s) \in DOMAIN r /\ c[i] = r[i - Len(s)]
    <3>1. j - Len(s) \in DOMAIN r /\ c[j] = r[j - Len(s)]
      BY <1>2, <2>1, <2>3
    <3>2. i - Len(s) = j - Len(s)
      BY <1>6, <2>3, <3>1 DEF Distinct
    <3> QED
      BY <1>1, <3>2
  <2> QED
    BY <1>2, <2>2, <2>3
<1> QED
  BY <1>1, <1>5, <1>6 DEF c

\* The recursion of FlattenSeq() is well defined.
Flattens(g, ss) == g = [i \in 1..Len(ss) |-> IF i = 1 THEN ss[i] ELSE g[i - 1] \o ss[i]]

\* The function behind FlattenSeq(), for one more sequence.
LEMMA FlattensExtends ==
  ASSUME NEW T, NEW ss \in Seq(Seq(T)), NEW x \in Seq(T), NEW g, Flattens(g, ss)
  PROVE  Flattens([i \in 1..(Len(ss) + 1) |->
                     IF i <= Len(ss) THEN g[i]
                     ELSE IF Len(ss) = 0 THEN x ELSE g[Len(ss)] \o x], Append(ss, x))
<1> DEFINE a == Append(ss, x)
           h == [i \in 1..(Len(ss) + 1) |->
                   IF i <= Len(ss) THEN g[i]
                   ELSE IF Len(ss) = 0 THEN x ELSE g[Len(ss)] \o x]
<1>1. /\ Len(ss) \in Nat /\ Len(a) = Len(ss) + 1 /\ a[Len(ss) + 1] = x
      /\ \A i \in 1..Len(ss) : a[i] = ss[i]
  OBVIOUS
<1> HIDE DEF a
<1>2. \A i \in 1..Len(ss) : h[i] = g[i]
  BY <1>1
<1>3. \A i \in 1..Len(ss) : g[i] = IF i = 1 THEN ss[i] ELSE g[i - 1] \o ss[i]
  BY DEF Flattens
<1>4. h[Len(ss) + 1] = IF Len(ss) = 0 THEN x ELSE g[Len(ss)] \o x
  BY <1>1
<1> HIDE DEF h
<1>5. ASSUME NEW i \in 1..(Len(ss) + 1)
      PROVE  h[i] = IF i = 1 THEN a[i] ELSE h[i - 1] \o a[i]
  <2>1. CASE i = Len(ss) + 1
    <3>1. CASE Len(ss) = 0
      BY <1>1, <1>4, <2>1, <3>1
    <3>2. CASE Len(ss) # 0
      <4>1. i - 1 = Len(ss) /\ i # 1 /\ Len(ss) \in 1..Len(ss)
        BY <1>1, <2>1, <3>2
      <4> QED
        BY <1>1, <1>2, <1>4, <2>1, <3>2, <4>1
    <3> QED
      BY <3>1, <3>2
  <2>2. CASE i = 1 /\ i \in 1..Len(ss)
    BY <1>1, <1>2, <1>3, <2>2
  <2>3. CASE i # 1 /\ i \in 1..Len(ss)
    <3>1. i - 1 \in 1..Len(ss)
      BY <1>1, <2>3
    <3> QED
      BY <1>1, <1>2, <1>3, <2>3, <3>1
  <2> QED
    BY <1>1, <2>1, <2>2, <2>3
<1> QED
  BY <1>1, <1>5 DEF Flattens, h, a

\* Every sequence of sequences has such a function.
LEMMA FlattensExists ==
  ASSUME NEW T
  PROVE  \A ss \in Seq(Seq(T)) : \E g : Flattens(g, ss)
<1> DEFINE P == {ss \in Seq(Seq(T)) : \E g : Flattens(g, ss)}
<1>1. <<>> \in P
  <2>1. Flattens([i \in 1..0 |-> <<>>], <<>>)
    BY DEF Flattens
  <2> QED
    BY <2>1
<1>2. ASSUME NEW ss \in Seq(Seq(T)), NEW x \in Seq(T), ss \in P PROVE Append(ss, x) \in P
  <2>1. PICK g : Flattens(g, ss)
    BY <1>2
  <2>2. \E h : Flattens(h, Append(ss, x))
    BY <2>1, FlattensExtends
  <2>3. Append(ss, x) \in Seq(Seq(T))
    OBVIOUS
  <2> QED
    BY <2>2, <2>3
<1>3. Seq(Seq(T)) \subseteq P
  <2> HIDE DEF P
  <2> QED
    BY <1>1, <1>2, SeqSetInduction
<1> QED
  BY <1>3

\* FlattenSeq() does not depend on which one is chosen.
LEMMA FlattensUnique ==
  ASSUME NEW T, NEW ss \in Seq(Seq(T)), NEW g, NEW h, Flattens(g, ss), Flattens(h, ss), Len(ss) # 0
  PROVE  g[Len(ss)] = h[Len(ss)]
<1> DEFINE N == {n \in Nat : n \in 1..Len(ss) => g[n] = h[n]}
<1>1. \A i \in 1..Len(ss) : /\ g[i] = IF i = 1 THEN ss[i] ELSE g[i - 1] \o ss[i]
                            /\ h[i] = IF i = 1 THEN ss[i] ELSE h[i - 1] \o ss[i]
  BY DEF Flattens
<1>2. Len(ss) \in Nat
  OBVIOUS
<1>3. 0 \in N
  BY <1>2
<1>4. ASSUME NEW n \in Nat, n \in N PROVE n + 1 \in N
  <2> SUFFICES ASSUME n + 1 \in 1..Len(ss) PROVE g[n + 1] = h[n + 1]
    OBVIOUS
  <2>1. CASE n = 0
    BY <1>1, <2>1
  <2>2. CASE n # 0
    <3>1. n \in 1..Len(ss) /\ n + 1 # 1 /\ (n + 1) - 1 = n
      BY <1>2, <2>2
    <3> QED
      BY <1>1, <1>4, <3>1
  <2> QED
    BY <2>1, <2>2
<1>5. Nat \subseteq N
  <2> HIDE DEF N
  <2> QED
    BY <1>3, <1>4, NatSetInduction
<1> QED
  BY <1>2, <1>5

\* FlattenSeq(), by recursion on the sequence of sequences
LEMMA FlattenAppend ==
  ASSUME NEW T, NEW ss \in Seq(Seq(T)), NEW x \in Seq(T), FlattenSeq(ss) \in Seq(T)
  PROVE  FlattenSeq(Append(ss, x)) = FlattenSeq(ss) \o x
<1>1. ASSUME NEW r \in Seq(Seq(T)), Len(r) # 0
      PROVE  \E g : Flattens(g, r) /\ FlattenSeq(r) = g[Len(r)]
  <2> DEFINE g == CHOOSE g : Flattens(g, r)
  <2>1. Flattens(g, r)
    BY FlattensExists, Zenon
  <2>2. FlattenSeq(r) = g[Len(r)]
    BY <1>1, Zenon DEF FlattenSeq, Flattens
  <2> QED
    BY <2>1, <2>2
<1> DEFINE a == Append(ss, x)
<1>2. a \in Seq(Seq(T)) /\ Len(a) = Len(ss) + 1 /\ Len(ss) \in Nat
  OBVIOUS
<1>3. PICK g : Flattens(g, ss)
  BY FlattensExists
<1> DEFINE h == [i \in 1..(Len(ss) + 1) |->
                   IF i <= Len(ss) THEN g[i]
                   ELSE IF Len(ss) = 0 THEN x ELSE g[Len(ss)] \o x]
<1>4. Flattens(h, a)
  BY <1>3, FlattensExtends
<1>5. h[Len(ss) + 1] = IF Len(ss) = 0 THEN x ELSE g[Len(ss)] \o x
  BY <1>2
<1> HIDE DEF h, a
<1>6. PICK f : Flattens(f, a) /\ FlattenSeq(a) = f[Len(a)]
  <2>1. Len(a) # 0
    BY <1>2
  <2> QED
    BY <1>1, <1>2, <2>1
<1>7. f[Len(a)] = h[Len(a)]
  BY <1>2, <1>4, <1>6, FlattensUnique
<1>8. CASE Len(ss) = 0
  <2>1. FlattenSeq(ss) = <<>>
    BY <1>8 DEF FlattenSeq
  <2>2. <<>> \o x = x
    OBVIOUS
  <2> QED
    BY <1>2, <1>5, <1>6, <1>7, <1>8, <2>1, <2>2 DEF a
<1>9. CASE Len(ss) # 0
  <2>1. PICK e : Flattens(e, ss) /\ FlattenSeq(ss) = e[Len(ss)]
    BY <1>1, <1>9
  <2>2. e[Len(ss)] = g[Len(ss)]
    BY <1>3, <1>9, <2>1, FlattensUnique
  <2> QED
    BY <1>2, <1>5, <1>6, <1>7, <1>9, <2>1, <2>2 DEF a
<1> QED
  BY <1>8, <1>9

\* FlattenSeq() has the elements of all, and none twice if they share none.
Apart(ss) == \A i, j \in DOMAIN ss : i # j => ToSet(ss[i]) \cap ToSet(ss[j]) = {}
AllOf(ss) == UNION {ToSet(ss[i]) : i \in DOMAIN ss}

\* A flattened list holds what its parts hold, each once if they share nothing.
LEMMA FlattenFacts ==
  ASSUME NEW T, NEW ss \in Seq(Seq(T))
  PROVE  /\ FlattenSeq(ss) \in Seq(T) /\ ToSet(FlattenSeq(ss)) = AllOf(ss)
         /\ (\A i \in DOMAIN ss : Distinct(ss[i])) /\ Apart(ss) => Distinct(FlattenSeq(ss))
<1> DEFINE Good(r) == /\ FlattenSeq(r) \in Seq(T) /\ ToSet(FlattenSeq(r)) = AllOf(r)
                      /\ (\A i \in DOMAIN r : Distinct(r[i])) /\ Apart(r) => Distinct(FlattenSeq(r))
           P == {r \in Seq(Seq(T)) : Good(r)}
<1>1. <<>> \in P
  <2>1. FlattenSeq(<<>>) = <<>>
    BY Len(<<>>) = 0 DEF FlattenSeq
  <2>2. <<>> \in Seq(Seq(T)) /\ <<>> \in Seq(T) /\ DOMAIN <<>> = {}
    OBVIOUS
  <2>3. ToSet(<<>>) = {} /\ AllOf(<<>>) = {}
    BY <2>2 DEF ToSet, AllOf
  <2>4. Distinct(<<>>)
    BY <2>2 DEF Distinct
  <2> QED
    BY <2>1, <2>2, <2>3, <2>4
<1>2. ASSUME NEW r \in Seq(Seq(T)), NEW x \in Seq(T), r \in P PROVE Append(r, x) \in P
  <2> DEFINE a == Append(r, x)
             f == FlattenSeq(r)
  <2>1. Good(r)
    BY <1>2
  <2>2. FlattenSeq(a) = f \o x
    BY <2>1, FlattenAppend
  <2>3. f \in Seq(T) /\ ToSet(f) = AllOf(r)
    BY <2>1
  <2>4. /\ DOMAIN r = 1..Len(r) /\ Len(r) \in Nat /\ a \in Seq(Seq(T))
        /\ DOMAIN a = 1..(Len(r) + 1) /\ a[Len(r) + 1] = x
        /\ \A i \in 1..Len(r) : a[i] = r[i]
    OBVIOUS
  <2> HIDE DEF a, f
  <2>5. \A i \in 1..Len(r) : i \in DOMAIN a /\ i # Len(r) + 1
    BY <2>4
  <2>6. Len(r) + 1 \in DOMAIN a /\ \A i \in DOMAIN a : i \in 1..Len(r) \/ i = Len(r) + 1
    BY <2>4
  <2>7. AllOf(a) = AllOf(r) \cup ToSet(x)
    <3>1. \A i \in DOMAIN a : ToSet(a[i]) \subseteq AllOf(r) \cup ToSet(x)
      BY <2>4, <2>6 DEF AllOf
    <3>2. \A i \in DOMAIN r : ToSet(r[i]) \subseteq AllOf(a)
      BY <2>4, <2>5 DEF AllOf
    <3>3. ToSet(x) \subseteq AllOf(a)
      BY <2>4, <2>6 DEF AllOf
    <3>4. AllOf(a) \subseteq AllOf(r) \cup ToSet(x)
      BY <3>1 DEF AllOf
    <3>5. AllOf(r) \subseteq AllOf(a)
      BY <3>2 DEF AllOf
    <3> QED
      BY <3>3, <3>4, <3>5
  <2>8. ASSUME \A i \in DOMAIN a : Distinct(a[i]), Apart(a) PROVE Distinct(f \o x)
    <3>1. (\A i \in DOMAIN r : Distinct(r[i])) /\ Distinct(x)
      BY <2>4, <2>5, <2>6, <2>8
    <3>2. Apart(r)
      BY <2>4, <2>5, <2>8 DEF Apart
    <3>3. Distinct(f)
      BY <2>1, <3>1, <3>2 DEF f
    <3>4. \A i \in DOMAIN r : ToSet(r[i]) \cap ToSet(x) = {}
      BY <2>4, <2>5, <2>6, <2>8 DEF Apart
    <3>5. AllOf(r) \cap ToSet(x) = {}
      BY <3>4 DEF AllOf
    <3> QED
      BY <2>3, <3>1, <3>3, <3>5, ConcatFacts
  <2>9. f \o x \in Seq(T) /\ ToSet(f \o x) = AllOf(a)
    BY <2>3, <2>7, ConcatFacts
  <2> QED
    BY <2>2, <2>4, <2>8, <2>9 DEF a
<1>3. Seq(Seq(T)) \subseteq P
  <2> HIDE DEF P
  <2> QED
    BY <1>1, <1>2, SeqSetInduction
<1> QED
  BY <1>3

\* FlattenSeq() of what a function gives for the elements of a sequence, in order
Maps(ss, q, f, Q, T) ==
  /\ q \in Seq(Q) /\ \A x \in Q : f[x] \in Seq(T)
  /\ ss \in [DOMAIN q -> Seq(T)] /\ \A i \in DOMAIN q : ss[i] = f[q[i]]
MapsFlat(ss, q, f, T) ==
  /\ FlattenSeq(ss) \in Seq(T)
  /\ \A v : v \in ToSet(FlattenSeq(ss)) <=> \E x \in ToSet(q) : v \in ToSet(f[x])
  /\ (/\ Distinct(q) /\ \A x \in ToSet(q) : Distinct(f[x])
      /\ \A x, y \in ToSet(q) : x # y => ToSet(f[x]) \cap ToSet(f[y]) = {})
     => Distinct(FlattenSeq(ss))

\* The same for the lists of the elements of another list.
LEMMA FlattenMap ==
  ASSUME NEW T, NEW Q, NEW q, NEW f, NEW ss, Maps(ss, q, f, Q, T)
  PROVE  MapsFlat(ss, q, f, T)
<1> USE DEF Maps
<1>1. /\ DOMAIN q = 1..Len(q) /\ Len(q) \in Nat /\ \A i \in 1..Len(q) : q[i] \in Q /\ q[i] \in ToSet(q)
      /\ \A x \in ToSet(q) : \E i \in 1..Len(q) : q[i] = x
  BY ElementsBySeq
<1>2. ss \in Seq(Seq(T)) /\ DOMAIN ss = 1..Len(q) /\ \A i \in 1..Len(q) : ss[i] = f[q[i]]
  BY <1>1
<1>3. \A v : v \in AllOf(ss) <=> \E x \in ToSet(q) : v \in ToSet(f[x])
  <2>1. \A v : v \in AllOf(ss) <=> \E i \in DOMAIN ss : v \in ToSet(ss[i])
    BY DEF AllOf
  <2>2. ASSUME NEW v, NEW i \in DOMAIN ss, v \in ToSet(ss[i])
        PROVE  \E x \in ToSet(q) : v \in ToSet(f[x])
    <3>1. i \in 1..Len(q)
      BY <1>2
    <3>2. q[i] \in ToSet(q) /\ ss[i] = f[q[i]]
      BY <1>1, <1>2, <3>1
    <3> QED
      BY <2>2, <3>2
  <2>3. ASSUME NEW v, NEW x \in ToSet(q), v \in ToSet(f[x])
        PROVE  \E i \in DOMAIN ss : v \in ToSet(ss[i])
    <3>1. PICK i \in 1..Len(q) : q[i] = x
      BY <1>1
    <3>2. i \in DOMAIN ss /\ ss[i] = f[x]
      BY <1>2, <3>1
    <3> QED
      BY <2>3, <3>2
  <2> QED
    BY <2>1, <2>2, <2>3, Zenon
<1>4. ASSUME Distinct(q), \A x \in ToSet(q) : Distinct(f[x]),
             \A x, y \in ToSet(q) : x # y => ToSet(f[x]) \cap ToSet(f[y]) = {}
      PROVE  (\A i \in DOMAIN ss : Distinct(ss[i])) /\ Apart(ss)
  <2>1. \A i \in DOMAIN ss : Distinct(ss[i])
    BY <1>1, <1>2, <1>4
  <2>2. \A i, j \in DOMAIN ss : i # j => q[i] \in ToSet(q) /\ q[j] \in ToSet(q) /\ q[i] # q[j]
    BY <1>1, <1>2, <1>4 DEF Distinct
  <2>3. \A i, j \in DOMAIN ss : i # j => ToSet(f[q[i]]) \cap ToSet(f[q[j]]) = {}
    BY <1>4, <2>2
  <2>4. Apart(ss)
    BY <1>2, <2>3 DEF Apart
  <2> QED
    BY <2>1, <2>4
<1> QED
  BY <1>2, <1>3, <1>4, FlattenFacts DEF MapsFlat

\* A sequence has at most as many elements as it is long, and as many if none is there twice.
LEMMA CountOfSeq ==
  ASSUME NEW S, NEW s \in Seq(S)
  PROVE  /\ IsFiniteSet(ToSet(s)) /\ Cardinality(ToSet(s)) <= Len(s)
         /\ Distinct(s) => Cardinality(ToSet(s)) = Len(s)
<1>1. Len(s) \in Nat /\ DOMAIN s = 1..Len(s) /\ s \in [1..Len(s) -> ToSet(s)]
  BY ElementsBySeq
<1>2. s \in Surjection(1..Len(s), ToSet(s))
  BY <1>1, ElementsBySeq DEF Surjection
<1>3. IsFiniteSet(1..Len(s)) /\ Cardinality(1..Len(s)) = Len(s)
  BY <1>1, FS_Interval
<1>4. Distinct(s) => s \in Injection(1..Len(s), ToSet(s))
  BY <1>1 DEF Distinct, Injection, IsInjective
<1> QED
  BY <1>2, <1>3, <1>4, FS_Surjection

-----------------------------------------------------------------------------
(* The lists of keys, notes and voices *)

ListTypes == /\ active \in [Chans -> Seq(Keys)] /\ notes \in [Chans -> [Keys -> Seq(Notes)]]
             /\ voices \in [Notes -> Seq(Voices)]

\* What KeyVoices() and ChannelVoices() consist of
KeyFacts == \A c \in Chans, k \in Keys :
  /\ KeyVoices(c, k) \in Seq(Voices) /\ VoicesOn(c, k) \subseteq Voices
  /\ VoicesOn(c, k) = UNION {VoicesOf(n) : n \in NotesOn(c, k)}
  /\ (/\ Distinct(notes[c][k]) /\ \A n \in NotesOn(c, k) : Distinct(voices[n])
      /\ \A n, m \in NotesOn(c, k) : n # m => VoicesOf(n) \cap VoicesOf(m) = {})
     => Distinct(KeyVoices(c, k))
ChannelFacts == \A c \in Chans :
  /\ ChannelVoices(c) \in Seq(Voices) /\ ChannelSet(c) \subseteq Voices
  /\ ChannelSet(c) = UNION {VoicesOn(c, k) : k \in Active(c)}
  /\ (/\ Distinct(active[c]) /\ \A k \in Active(c) : Distinct(KeyVoices(c, k))
      /\ \A k, l \in Active(c) : k # l => VoicesOn(c, k) \cap VoicesOn(c, l) = {})
     => Distinct(ChannelVoices(c))
SetFacts ==
  /\ \A c \in Chans : Active(c) \subseteq Keys
  /\ \A c \in Chans, k \in Keys : NotesOn(c, k) \subseteq Notes
  /\ \A n \in Notes : VoicesOf(n) \subseteq Voices

\* What is on the lists of keys and channels.
LEMMA ListFacts == ListTypes => KeyFacts /\ ChannelFacts /\ SetFacts
<1> SUFFICES ASSUME ListTypes PROVE KeyFacts /\ ChannelFacts /\ SetFacts
  OBVIOUS
<1>1. KeyFacts
  <2> SUFFICES ASSUME NEW c \in Chans, NEW k \in Keys
               PROVE  /\ KeyVoices(c, k) \in Seq(Voices) /\ VoicesOn(c, k) \subseteq Voices
                      /\ VoicesOn(c, k) = UNION {VoicesOf(n) : n \in NotesOn(c, k)}
                      /\ (/\ Distinct(notes[c][k]) /\ \A n \in NotesOn(c, k) : Distinct(voices[n])
                          /\ \A n, m \in NotesOn(c, k) : n # m => VoicesOf(n) \cap VoicesOf(m) = {})
                         => Distinct(KeyVoices(c, k))
    BY DEF KeyFacts
  <2> DEFINE q == notes[c][k]
             ss == [i \in DOMAIN q |-> voices[q[i]]]
  <2>1. q \in Seq(Notes) /\ \A n \in Notes : voices[n] \in Seq(Voices)
    BY DEF ListTypes
  <2>2. ss \in [DOMAIN q -> Seq(Voices)] /\ \A i \in DOMAIN q : ss[i] = voices[q[i]]
    BY <2>1
  <2>3. KeyVoices(c, k) = FlattenSeq(ss)
    BY DEF KeyVoices
  <2> HIDE DEF q, ss
  <2>4. /\ FlattenSeq(ss) \in Seq(Voices)
        /\ \A v : v \in ToSet(FlattenSeq(ss)) <=> \E n \in ToSet(q) : v \in ToSet(voices[n])
        /\ (/\ Distinct(q) /\ \A n \in ToSet(q) : Distinct(voices[n])
            /\ \A n, m \in ToSet(q) : n # m => ToSet(voices[n]) \cap ToSet(voices[m]) = {})
           => Distinct(FlattenSeq(ss))
    <3>1. Maps(ss, q, voices, Notes, Voices)
      BY <2>1, <2>2 DEF Maps
    <3>2. MapsFlat(ss, q, voices, Voices)
      BY <3>1, FlattenMap, Zenon
    <3> QED
      BY <3>2 DEF MapsFlat
  <2>5. VoicesOn(c, k) \subseteq Voices
    BY <2>3, <2>4, ElementsBySeq DEF VoicesOn
  <2>6. VoicesOn(c, k) = UNION {VoicesOf(n) : n \in NotesOn(c, k)}
    BY <2>3, <2>4 DEF VoicesOn, VoicesOf, NotesOn, q
  <2> QED
    BY <2>3, <2>4, <2>5, <2>6 DEF VoicesOf, NotesOn, q
<1>2. ChannelFacts
  <2> SUFFICES ASSUME NEW c \in Chans
               PROVE  /\ ChannelVoices(c) \in Seq(Voices) /\ ChannelSet(c) \subseteq Voices
                      /\ ChannelSet(c) = UNION {VoicesOn(c, k) : k \in Active(c)}
                      /\ (/\ Distinct(active[c]) /\ \A k \in Active(c) : Distinct(KeyVoices(c, k))
                          /\ \A k, l \in Active(c) : k # l => VoicesOn(c, k) \cap VoicesOn(c, l) = {})
                         => Distinct(ChannelVoices(c))
    BY DEF ChannelFacts
  <2> DEFINE f == [k \in Keys |-> KeyVoices(c, k)]
             q == active[c]
             ss == [i \in DOMAIN q |-> KeyVoices(c, q[i])]
  <2>1. q \in Seq(Keys) /\ \A k \in Keys : f[k] \in Seq(Voices) /\ f[k] = KeyVoices(c, k)
    BY <1>1 DEF ListTypes, KeyFacts
  <2>2. ToSet(q) \subseteq Keys /\ \A i \in DOMAIN q : q[i] \in Keys
    BY <2>1, ElementsBySeq
  <2>3. ss \in [DOMAIN q -> Seq(Voices)] /\ \A i \in DOMAIN q : ss[i] = f[q[i]]
    BY <2>1, <2>2
  <2>4. \A k \in ToSet(q) : f[k] = KeyVoices(c, k) /\ ToSet(f[k]) = VoicesOn(c, k)
    BY <2>2 DEF VoicesOn
  <2>5. ChannelVoices(c) = FlattenSeq(ss)
    BY DEF ChannelVoices
  <2> HIDE DEF f, q, ss
  <2>6. /\ FlattenSeq(ss) \in Seq(Voices)
        /\ \A v : v \in ToSet(FlattenSeq(ss)) <=> \E k \in ToSet(q) : v \in ToSet(f[k])
        /\ (/\ Distinct(q) /\ \A k \in ToSet(q) : Distinct(f[k])
            /\ \A k, l \in ToSet(q) : k # l => ToSet(f[k]) \cap ToSet(f[l]) = {})
           => Distinct(FlattenSeq(ss))
    <3>1. Maps(ss, q, f, Keys, Voices)
      BY <2>1, <2>3 DEF Maps
    <3>2. MapsFlat(ss, q, f, Voices)
      BY <3>1, FlattenMap, Zenon
    <3> QED
      BY <3>2 DEF MapsFlat
  <2>7. ChannelSet(c) \subseteq Voices
    BY <2>5, <2>6, ElementsBySeq DEF ChannelSet
  <2>8. ChannelSet(c) = UNION {VoicesOn(c, k) : k \in Active(c)}
    BY <2>4, <2>5, <2>6 DEF ChannelSet, Active, q
  <2>9. ASSUME Distinct(active[c]), \A k \in Active(c) : Distinct(KeyVoices(c, k)),
               \A k, l \in Active(c) : k # l => VoicesOn(c, k) \cap VoicesOn(c, l) = {}
        PROVE  Distinct(ChannelVoices(c))
    <3>1. \A k \in ToSet(q) : Distinct(f[k])
      BY <2>4, <2>9 DEF Active, q
    <3>2. \A k, l \in ToSet(q) : k # l => ToSet(f[k]) \cap ToSet(f[l]) = {}
      BY <2>4, <2>9 DEF Active, q
    <3> QED
      BY <2>5, <2>6, <2>9, <3>1, <3>2 DEF q
  <2> QED
    BY <2>5, <2>6, <2>7, <2>8, <2>9
<1>3. SetFacts
  <2>1. \A c \in Chans : Active(c) \subseteq Keys
    BY ElementsBySeq DEF ListTypes, Active
  <2>2. \A c \in Chans, k \in Keys : NotesOn(c, k) \subseteq Notes
    BY ElementsBySeq DEF ListTypes, NotesOn
  <2>3. \A n \in Notes : VoicesOf(n) \subseteq Voices
    BY ElementsBySeq DEF ListTypes, VoicesOf
  <2> QED
    BY <2>1, <2>2, <2>3 DEF SetFacts
<1> QED
  BY <1>1, <1>2, <1>3

\* ListFacts after a step.
LEMMA ListFactsNext == (ListTypes => KeyFacts /\ ChannelFacts /\ SetFacts)'
BY ListFacts, PTL

\* The members of the lists, one way and the other
Members ==
  /\ \A c \in Chans, k \in Keys, v \in Voices :
       v \in VoicesOn(c, k) <=> \E n \in Notes : n \in NotesOn(c, k) /\ v \in VoicesOf(n)
  /\ \A c \in Chans, v \in Voices :
       v \in ChannelSet(c) <=> \E k \in Keys : v \in VoicesOn(c, k)
  /\ \A c \in Chans, k \in Keys : VoicesOn(c, k) # {} => k \in Active(c)
  /\ \A c, d \in Chans, k, l \in Keys :
       \A v \in VoicesOn(c, k) \cap VoicesOn(d, l) : c = d /\ k = l
  /\ \A v \in Voices : voice[v].state # "free" <=>
       \E c \in Chans, k \in Keys : v \in VoicesOn(c, k)

\* A voice is on one key of one channel, and its channel's list has it.
LEMMA MembersOfLists == ListTypes /\ ListsInv => Members
<1> SUFFICES ASSUME ListTypes, ListsInv PROVE Members
  OBVIOUS
<1>0. KeyFacts /\ ChannelFacts /\ SetFacts
  BY ListFacts
<1>1. \A c \in Chans, k \in Keys, v \in Voices :
        v \in VoicesOn(c, k) <=> \E n \in Notes : n \in NotesOn(c, k) /\ v \in VoicesOf(n)
  BY <1>0 DEF KeyFacts, SetFacts
<1>2. \A c \in Chans, k \in Keys : VoicesOn(c, k) # {} => k \in Active(c)
  BY <1>0 DEF KeyFacts, ListsInv
<1>3. \A c \in Chans, v \in Voices :
        v \in ChannelSet(c) <=> \E k \in Keys : v \in VoicesOn(c, k)
  BY <1>0, <1>2 DEF ChannelFacts, SetFacts
<1>4. \A c, d \in Chans, k, l \in Keys :
        \A v \in VoicesOn(c, k) \cap VoicesOn(d, l) : c = d /\ k = l
  <2> SUFFICES ASSUME NEW c \in Chans, NEW d \in Chans, NEW k \in Keys, NEW l \in Keys,
                      NEW v \in VoicesOn(c, k), v \in VoicesOn(d, l)
               PROVE  c = d /\ k = l
    OBVIOUS
  <2>1. v \in Voices
    BY <1>0 DEF KeyFacts
  <2>2. PICK n \in Notes : n \in NotesOn(c, k) /\ v \in VoicesOf(n)
    BY <1>1, <2>1
  <2>3. PICK m \in Notes : m \in NotesOn(d, l) /\ v \in VoicesOf(m)
    BY <1>1, <2>1
  <2>4. n = m
    BY <2>2, <2>3 DEF ListsInv
  <2> QED
    BY <2>2, <2>3, <2>4 DEF ListsInv
<1>5. \A v \in Voices : voice[v].state # "free" <=>
        \E c \in Chans, k \in Keys : v \in VoicesOn(c, k)
  <2> SUFFICES ASSUME NEW v \in Voices
               PROVE  voice[v].state # "free" <=> \E c \in Chans, k \in Keys : v \in VoicesOn(c, k)
    OBVIOUS
  <2>1. voice[v].state # "free" <=> \E n \in Notes : v \in VoicesOf(n)
    BY DEF ListsInv
  <2>2. ASSUME NEW n \in Notes, v \in VoicesOf(n)
        PROVE  \E c \in Chans, k \in Keys : v \in VoicesOn(c, k)
    <3>1. PICK c \in Chans, k \in Keys : n \in NotesOn(c, k)
      BY <2>2 DEF ListsInv
    <3> QED
      BY <1>1, <2>2, <3>1
  <2> QED
    BY <1>1, <2>1, <2>2
<1> QED
  BY <1>1, <1>2, <1>3, <1>4, <1>5 DEF Members

\* MembersOfLists after a step.
LEMMA MembersNext == (ListTypes /\ ListsInv => Members)'
BY MembersOfLists, PTL

\* So the voices that the lists lead to are those that are not free, each once.
LEMMA ListsReach == ListTypes /\ ListsInv => VoicesReachable
<1> SUFFICES ASSUME ListTypes, ListsInv PROVE VoicesReachable
  OBVIOUS
<1>1. KeyFacts /\ ChannelFacts /\ SetFacts /\ Members
  BY ListFacts, MembersOfLists
<1> DEFINE ss == [c \in Chans |-> ChannelVoices(c)]
<1>2. ss \in Seq(Seq(Voices)) /\ DOMAIN ss = Chans /\ \A c \in Chans : ss[c] = ChannelVoices(c)
  <2>1. Channels \in Nat /\ Chans = 1..Channels
    BY VoiceAllocationAssumption DEF Chans
  <2>2. \A c \in Chans : ChannelVoices(c) \in Seq(Voices)
    BY <1>1 DEF ChannelFacts
  <2>3. ss \in [1..Channels -> Seq(Voices)]
    BY <2>1, <2>2
  <2> HIDE DEF ss
  <2>4. ss \in Seq(Seq(Voices))
    BY <2>1, <2>3
  <2> QED
    BY <2>4 DEF ss
<1> HIDE DEF ss
<1>3. \A c \in Chans : Distinct(ss[c])
  <2> SUFFICES ASSUME NEW c \in Chans PROVE Distinct(ChannelVoices(c))
    BY <1>2
  <2>1. \A k \in Active(c) : Distinct(KeyVoices(c, k))
    <3> SUFFICES ASSUME NEW k \in Active(c) PROVE Distinct(KeyVoices(c, k))
      OBVIOUS
    <3>1. k \in Keys
      BY <1>1 DEF SetFacts
    <3>2. Distinct(notes[c][k]) /\ \A n \in NotesOn(c, k) : n \in Notes /\ Distinct(voices[n])
      BY <1>1, <3>1 DEF ListsInv, SetFacts
    <3>3. \A n, m \in NotesOn(c, k) : n # m => VoicesOf(n) \cap VoicesOf(m) = {}
      BY <3>2 DEF ListsInv
    <3> QED
      BY <1>1, <3>1, <3>2, <3>3 DEF KeyFacts
  <2>2. \A k, l \in Active(c) : k # l => VoicesOn(c, k) \cap VoicesOn(c, l) = {}
    BY <1>1 DEF Members, SetFacts
  <2> QED
    BY <1>1, <2>1, <2>2 DEF ChannelFacts, ListsInv
<1>4. Apart(ss)
  <2> SUFFICES ASSUME NEW c \in Chans, NEW d \in Chans, NEW v \in ChannelSet(c), v \in ChannelSet(d)
               PROVE  c = d
    BY <1>2 DEF Apart, ChannelSet
  <2>1. v \in Voices
    BY <1>1 DEF ChannelFacts
  <2> QED
    BY <1>1, <2>1 DEF Members
<1>5. AllOf(ss) = Voices \ FreeVoices
  <2>1. \A v \in AllOf(ss) : \E c \in Chans : v \in ChannelSet(c)
    BY <1>2 DEF AllOf, ChannelSet
  <2>2. \A c \in Chans : ChannelSet(c) \subseteq AllOf(ss)
    BY <1>2 DEF AllOf, ChannelSet
  <2>3. AllOf(ss) \subseteq Voices
    BY <1>1, <2>1 DEF ChannelFacts
  <2>4. \A v \in Voices : v \in AllOf(ss) <=> voice[v].state # "free"
    BY <1>1, <2>1, <2>2 DEF Members
  <2> QED
    BY <2>3, <2>4 DEF FreeVoices
<1>6. /\ FlattenSeq(ss) \in Seq(Voices) /\ ToSet(FlattenSeq(ss)) = AllOf(ss)
      /\ Distinct(FlattenSeq(ss))
  BY <1>2, <1>3, <1>4, FlattenFacts
<1>7. Len(FlattenSeq(ss)) = Cardinality(AllOf(ss))
  BY <1>6, CountOfSeq
<1> QED
  BY <1>5, <1>6, <1>7 DEF VoicesReachable, ss

-----------------------------------------------------------------------------
(* Events and envelopes *)

Moves == [type : {"cancel", "release"}, fresh : BOOLEAN]
Env == {"on", "release", "fade"}

\* The events behind the i-th one, when another one is appended
LEMMA AfterFacts ==
  ASSUME NEW es \in Seq(Event), NEW i \in Nat, i <= Len(es)
  PROVE  /\ After(es, i) \in Seq(Event)
         /\ \A j \in DOMAIN After(es, i) : After(es, i)[j] = es[i + j] /\ i + j \in DOMAIN es
         /\ \A e \in Event : After(Append(es, e), i) = Append(After(es, i), e)
         /\ After(es, Len(es)) = <<>>
<1>1. Len(es) \in Nat /\ DOMAIN es = 1..Len(es)
  OBVIOUS
<1>2. /\ After(es, i) \in Seq(Event) /\ Len(After(es, i)) = Len(es) - i
      /\ \A j \in 1..(Len(es) - i) : After(es, i)[j] = es[i + j]
  <2>1. i + 1 \in 1..(Len(es) + 1) /\ Len(es) \in ((i + 1) - 1)..Len(es)
    BY <1>1
  <2> DEFINE a == After(es, i)
  <2>2. /\ a \in Seq(Event)
        /\ Len(a) = Len(es) - (i + 1) + 1
        /\ \A j \in 1..(Len(es) - (i + 1) + 1) : a[j] = es[(i + 1) + j - 1]
    BY <2>1, SubSeqProperties DEF After
  <2> HIDE DEF a
  <2>4. a \in Seq(Event) /\ Len(a) = Len(es) - i
    BY <1>1, <2>2
  <2>5. ASSUME NEW j \in 1..(Len(es) - i) PROVE a[j] = es[i + j]
    <3>1. j \in 1..(Len(es) - (i + 1) + 1) /\ (i + 1) + j - 1 = i + j
      BY <1>1
    <3> QED
      BY <2>2, <3>1
  <2> QED
    BY <2>4, <2>5 DEF a
<1>3. \A j \in DOMAIN After(es, i) : After(es, i)[j] = es[i + j] /\ i + j \in DOMAIN es
  <2>1. DOMAIN After(es, i) = 1..(Len(es) - i)
    BY <1>2
  <2> QED
    BY <1>1, <1>2, <2>1
<1>4. ASSUME NEW e \in Event PROVE After(Append(es, e), i) = Append(After(es, i), e)
  <2> DEFINE a == Append(es, e)
             b == After(a, i)
             d == Append(After(es, i), e)
  <2>1. /\ a \in Seq(Event) /\ Len(a) = Len(es) + 1 /\ a[Len(es) + 1] = e
        /\ \A j \in 1..Len(es) : a[j] = es[j]
    BY AppendByIndex
  <2> HIDE DEF a
  <2>2. /\ b \in Seq(Event) /\ Len(b) = Len(es) + 1 - i
        /\ \A j \in 1..(Len(es) + 1 - i) : b[j] = a[i + j]
    BY <1>1, <2>1 DEF After
  <2>3. /\ d \in Seq(Event) /\ Len(d) = Len(es) - i + 1 /\ d[Len(es) - i + 1] = e
        /\ \A j \in 1..(Len(es) - i) : d[j] = After(es, i)[j]
    BY <1>2, AppendByIndex
  <2>4. ASSUME NEW j \in 1..Len(b) PROVE b[j] = d[j]
    <3>1. CASE j = Len(es) - i + 1
      <4>1. i + j = Len(es) + 1 /\ j \in 1..(Len(es) + 1 - i)
        BY <1>1, <3>1
      <4> QED
        BY <2>1, <2>2, <2>3, <3>1, <4>1
    <3>2. CASE j # Len(es) - i + 1
      <4>1. j \in 1..(Len(es) - i) /\ i + j \in 1..Len(es) /\ j \in 1..(Len(es) + 1 - i)
        BY <1>1, <2>2, <3>2
      <4> QED
        BY <1>2, <2>1, <2>2, <2>3, <4>1
    <3> QED
      BY <3>1, <3>2
  <2> HIDE DEF b, d
  <2>5. Len(b) = Len(d)
    BY <1>1, <2>2, <2>3
  <2> QED
    BY <2>2, <2>3, <2>4, <2>5, SeqEqual DEF a, b, d
<1>5. After(es, Len(es)) = <<>>
  BY <1>1, SubSeqEmpty DEF After
<1> QED
  BY <1>2, <1>3, <1>4, <1>5

\* What an event that is appended does to the envelope
LEMMA EnvFacts ==
  ASSUME NEW es \in Seq(Event), NEW env \in Env
  PROVE  /\ EnvAfter(env, es) \in Env /\ EnvAfter(env, <<>>) = env
         /\ \A e \in Event : EnvAfter(env, Append(es, e)) =
              IF env = "fade" THEN "fade"
              ELSE IF e.type = "on" THEN EnvAfter(env, es)
              ELSE IF e.type = "release" THEN "release" ELSE "on"
         /\ env = "on" => (EnvAfter(env, es) = "release" <=>
              Transition(es) # <<>> /\ Last(Transition(es)).type = "release")
         /\ env = "on" => EnvAfter(env, es) # "fade"
<1>1. /\ Transition(<<>>) = <<>>
      /\ \A e \in Event : Transition(Append(es, e)) =
           IF e \in Moves THEN Append(Transition(es), e) ELSE Transition(es)
  <2>1. /\ OnlyIn(<<>>, Moves) = <<>>
        /\ \A s \in Seq(Event), x \in Event :
             OnlyIn(Append(s, x), Moves) = IF x \in Moves THEN Append(OnlyIn(s, Moves), x)
                                           ELSE OnlyIn(s, Moves)
    BY OnlyInAppend, Zenon
  <2>2. \A s : Transition(s) = OnlyIn(s, Moves)
    BY DEF Transition, Moves
  <2> QED
    BY <2>1, <2>2
<1>2. Transition(es) \in Seq(Event)
  BY OnlyInFacts DEF Transition
<1>3. EnvAfter(env, es) \in Env
  BY DEF EnvAfter, Env
<1>4. EnvAfter(env, <<>>) = env
  BY <1>1 DEF EnvAfter
<1>5. ASSUME NEW e \in Event
      PROVE  EnvAfter(env, Append(es, e)) =
               IF env = "fade" THEN "fade"
               ELSE IF e.type = "on" THEN EnvAfter(env, es)
               ELSE IF e.type = "release" THEN "release" ELSE "on"
  <2>1. CASE env = "fade"
    BY <2>1 DEF EnvAfter
  <2>2. CASE env # "fade" /\ e.type = "on"
    <3>1. e \notin Moves
      BY <2>2 DEF Moves
    <3> QED
      BY <1>1, <2>2, <3>1 DEF EnvAfter
  <2>3. CASE env # "fade" /\ e.type # "on"
    <3>1. e \in Moves
      BY <2>3 DEF Moves, Event
    <3> DEFINE a == Append(Transition(es), e)
    <3>2. a # <<>> /\ Last(a) = e
      BY <1>2 DEF Last
    <3>3. Transition(Append(es, e)) = a
      BY <1>1, <3>1
    <3> HIDE DEF a
    <3> QED
      BY <2>3, <3>2, <3>3 DEF EnvAfter
  <2> QED
    BY <2>1, <2>2, <2>3
<1>6. env = "on" => (EnvAfter(env, es) = "release" <=>
        Transition(es) # <<>> /\ Last(Transition(es)).type = "release")
  BY DEF EnvAfter
<1>7. env = "on" => EnvAfter(env, es) # "fade"
  BY DEF EnvAfter
<1> QED
  BY <1>3, <1>4, <1>5, <1>6, <1>7

-----------------------------------------------------------------------------
(* What the invariant says, and what steps leave alone *)

Voice == [state : {"free", "init", "play"}, killed : BOOLEAN, env : Env, trigger : Nat]
QueuedTheft == [chan : Chans, key : Keys, note : Notes, trigger : Nat, lost : BOOLEAN]
KeyRecord == [pressed : BOOLEAN, thefts : 0..MaxVoices, events : Seq(Event)]
Queued == [event : Message, note : Notes \cup {NoNote}]

\* What the assumptions on the constants give.
LEMMA Numbers ==
  /\ Channels \in Nat \ {0} /\ Chans = 1..Channels /\ 1 \in Chans
  /\ MaxVoices \in Nat /\ IsFiniteSet(Voices) /\ IsFiniteSet(Keys)
  /\ NoKey \notin Keys /\ NoNote \notin Notes
<1>1. IsFiniteSet(0..127)
  <2>1. 0 \in Int /\ 127 \in Int
    OBVIOUS
  <2> QED
    BY <2>1, FS_Interval, Zenon
<1>2. IsFiniteSet(Keys)
  BY <1>1, FS_Subset, VoiceAllocationAssumption
<1>3. MaxVoices \in Nat
  BY FS_CardinalityType, VoiceAllocationAssumption DEF MaxVoices
<1>4. /\ Channels \in Nat \ {0} /\ NoNote \notin Notes /\ IsFiniteSet(Voices)
      /\ Keys \subseteq 0..127
  BY VoiceAllocationAssumption
<1>5. Chans = 1..Channels /\ 1 \in Chans
  BY <1>4 DEF Chans
<1>6. NoKey \notin Keys
  BY <1>4 DEF NoKey
<1> QED
  BY <1>2, <1>3, <1>4, <1>5, <1>6

\* What the type invariant says of elements of the variables.
LEMMA Types ==
  ASSUME TypeOK
  PROVE  /\ ListTypes
         /\ \A v \in Voices : voice[v] \in Voice
         /\ \A c \in Chans, k \in Keys : /\ key[c][k].pressed \in BOOLEAN
                                         /\ key[c][k].thefts \in 0..MaxVoices
                                         /\ key[c][k].events \in Seq(Event)
                                         /\ Len(key[c][k].events) \in Nat
         /\ \A i \in DOMAIN stolen : stolen[i] \in QueuedTheft
         /\ stolen \in Seq(QueuedTheft) /\ queue \in Seq(Queued)
         /\ \A i \in DOMAIN queue : queue[i] \in Queued
         /\ DOMAIN stolen = 1..Len(stolen) /\ Len(stolen) \in Nat
         /\ DOMAIN queue = 1..Len(queue) /\ Len(queue) \in Nat
<1>1. ListTypes
  BY DEF TypeOK, ListTypes
<1>2. voice \in [Voices -> Voice]
  BY DEF TypeOK, Voice, Env
<1>3. \A c \in Chans, k \in Keys : key[c][k] \in KeyRecord
  BY DEF TypeOK, KeyRecord
<1>4. stolen \in Seq(QueuedTheft) /\ queue \in Seq(Queued)
  BY DEF TypeOK, QueuedTheft, Queued
<1> QED
  BY <1>1, <1>2, <1>3, <1>4 DEF KeyRecord

\* What a proof about a step starts with.
LEMMA Facts ==
  ASSUME IInv
  PROVE  TypeOK /\ ListTypes /\ KeyFacts /\ ChannelFacts /\ SetFacts /\ Members
BY Types, ListFacts, MembersOfLists DEF IInv

\* Steps that leave the lists alone.
LEMMA SameSets ==
  ASSUME UNCHANGED lists
  PROVE  /\ ListTypes => ListTypes'
         /\ \A c, k : /\ VoicesOn(c, k)' = VoicesOn(c, k) /\ NotesOn(c, k)' = NotesOn(c, k)
                      /\ KeyVoices(c, k)' = KeyVoices(c, k)
         /\ \A c : /\ ChannelSet(c)' = ChannelSet(c) /\ Active(c)' = Active(c)
                   /\ ChannelVoices(c)' = ChannelVoices(c)
         /\ \A n : VoicesOf(n)' = VoicesOf(n)
BY DEF lists, ListTypes, VoicesOn, NotesOn, KeyVoices, ChannelSet, Active, ChannelVoices, VoicesOf

\* Kill() changes nothing but who is killed.
LEMMA KillFacts ==
  ASSUME TypeOK, NEW vs, Kill(vs)
  PROVE  /\ voice' \in [Voices -> Voice]
         /\ \A v \in Voices :
              /\ voice'[v].state = voice[v].state /\ voice'[v].env = voice[v].env
              /\ voice'[v].trigger = voice[v].trigger
              /\ voice'[v].killed = (voice[v].killed \/ (v \in vs /\ IsKilled(v)))
<1>1. \A v \in Voices : voice[v] \in Voice
  BY Types
<1>2. \A v \in Voices : IsKilled(v) \in BOOLEAN
  BY DEF IsKilled
<1>3. voice' = [v \in Voices |-> [voice[v] EXCEPT !.killed = @ \/ (v \in vs /\ IsKilled(v))]]
  BY DEF Kill
<1>4. \A v \in Voices : voice'[v] = [voice[v] EXCEPT !.killed = @ \/ (v \in vs /\ IsKilled(v))]
  BY <1>3
<1>5. \A v \in Voices :
        /\ voice'[v].state = voice[v].state /\ voice'[v].env = voice[v].env
        /\ voice'[v].trigger = voice[v].trigger
        /\ voice'[v].killed = (voice[v].killed \/ (v \in vs /\ IsKilled(v)))
        /\ voice'[v] \in Voice
  BY <1>1, <1>2, <1>4 DEF Voice
<1> QED
  BY <1>3, <1>5

\* WithEvents() and the like append events to some keys.
Gains(c, k, e) == key'[c][k].events = Append(key[c][k].events, e)
SameEvents(c, k) == key'[c][k].events = key[c][k].events
SameThefts == \A c \in Chans, k \in Keys : key'[c][k].thefts = key[c][k].thefts
Fresh(t) == [type |-> t, fresh |-> TRUE]

\* The record of a key with other events.
LEMMA HeldExcept ==
  ASSUME NEW r \in KeyRecord, NEW es \in Seq(Event)
  PROVE  LET x == [r EXCEPT !.events = es]
         IN  /\ x \in KeyRecord /\ x.events = es
             /\ x.pressed = r.pressed /\ x.thefts = r.thefts
BY DEF KeyRecord

\* WithEvents() sends one event to some keys and leaves all else.
LEMMA WithEventsFacts ==
  ASSUME TypeOK, NEW c \in Chans, NEW ks \in SUBSET Keys, NEW t \in {"on", "cancel", "release"}
  PROVE  /\ WithEvents(c, ks, t) \in [Chans -> [Keys -> KeyRecord]]
         /\ \A d \in Chans, k \in Keys :
              LET r == WithEvents(c, ks, t)[d][k]
              IN  /\ r.pressed = key[d][k].pressed /\ r.thefts = key[d][k].thefts
                  /\ r.events = IF d = c /\ k \in ks THEN Append(key[d][k].events, Fresh(t))
                                ELSE key[d][k].events
<1> DEFINE w == WithEvents(c, ks, t)
<1>1. \A d \in Chans, k \in Keys : key[d][k] \in KeyRecord
  BY DEF TypeOK, KeyRecord
<1>2. Fresh(t) \in Event
  BY DEF Fresh, Event
<1>3. \A d \in Chans, k \in Keys : w[d][k] =
        IF d = c /\ k \in ks THEN [key[c][k] EXCEPT !.events = Append(@, Fresh(t))] ELSE key[d][k]
  BY DEF TypeOK, WithEvents, Fresh
<1>4. key \in [Chans -> [Keys -> KeyRecord]]
  BY DEF TypeOK, KeyRecord
<1>5. \A d \in Chans, k \in Keys :
        /\ w[d][k] \in KeyRecord
        /\ w[d][k].pressed = key[d][k].pressed /\ w[d][k].thefts = key[d][k].thefts
        /\ w[d][k].events = IF d = c /\ k \in ks THEN Append(key[d][k].events, Fresh(t))
                            ELSE key[d][k].events
  <2> SUFFICES ASSUME NEW d \in Chans, NEW k \in Keys
               PROVE  /\ w[d][k] \in KeyRecord
                      /\ w[d][k].pressed = key[d][k].pressed /\ w[d][k].thefts = key[d][k].thefts
                      /\ w[d][k].events = IF d = c /\ k \in ks THEN Append(key[d][k].events, Fresh(t))
                                          ELSE key[d][k].events
    OBVIOUS
  <2> HIDE DEF w
  <2>1. CASE d = c /\ k \in ks
    <3>1. Append(key[d][k].events, Fresh(t)) \in Seq(Event)
      BY <1>1, <1>2 DEF KeyRecord
    <3> QED
      <4> DEFINE r == key[d][k]
                 es == Append(key[d][k].events, Fresh(t))
                 x == [r EXCEPT !.events = es]
      <4>1. w[d][k] = x
        BY <1>1, <1>3, <2>1 DEF KeyRecord
      <4>2. r \in KeyRecord /\ es \in Seq(Event)
        BY <1>1, <3>1
      <4>3. x \in KeyRecord /\ x.events = es /\ x.pressed = r.pressed /\ x.thefts = r.thefts
        <5> HIDE DEF r, es
        <5> QED
          BY <4>2, HeldExcept
      <4> QED
        BY <2>1, <4>1, <4>3
  <2>2. CASE ~ (d = c /\ k \in ks)
    BY <1>1, <1>3, <2>2
  <2> QED
    BY <2>1, <2>2
<1>6. w \in [Chans -> [Keys -> KeyRecord]]
  <2>1. w = [key EXCEPT ![c] = [k \in Keys |-> w[c][k]]]
    BY <1>4 DEF WithEvents
  <2> HIDE DEF w
  <2>2. [k \in Keys |-> w[c][k]] \in [Keys -> KeyRecord]
    BY <1>5
  <2> QED
    BY <1>4, <2>1, <2>2
<1> QED
  BY <1>5, <1>6

-----------------------------------------------------------------------------
(* Parts of the invariant that a step keeps *)

SameVoices == \A c \in Chans, k \in Keys : VoicesOn(c, k)' = VoicesOn(c, k)
SameStates == \A v \in Voices : (voice'[v].state = "free") <=> (voice[v].state = "free")

\* The lists agree with the pool as long as no voice is taken or freed.
LEMMA ListsKept ==
  ASSUME ListsInv, UNCHANGED lists, SameStates
  PROVE  ListsInv'
BY SameSets DEF ListsInv, SameStates, lists

\* Voices that have not rendered, and the triggers of the others
LEMMA InitKept ==
  ASSUME InitInv, SameVoices, UNCHANGED muted, phase' \in {"import", "process", "render"},
         \A v \in Voices : /\ voice'[v].state = voice[v].state
                           /\ voice'[v].trigger = voice[v].trigger
  PROVE  InitInv'
BY DEF InitInv, SameVoices

\* The numbers: vs are the voices that VoiceSpawnsLeft is lowered for.
LEMMA SpentKept ==
  ASSUME IInv, NEW vs \in SUBSET Voices, voice' \in [Voices -> Voice],
         \A v \in Voices :
            /\ voice'[v].state = "init" => voice[v].state = "init" \/ v \in vs
            /\ voice'[v].killed => voice[v].killed \/ v \in vs \/ v \in uncounted',
         uncounted \subseteq uncounted', phase \in {"import", "process"},
         spawnsLeft' \in Int, spawnsLeft' <= spawnsLeft - Cardinality(vs)
  PROVE  SpentInv'
<1>1. IsFiniteSet(Spent) /\ IsFiniteSet(vs) /\ IsFiniteSet(Spent \cup vs)
  BY Numbers, FS_Subset, FS_Union DEF Spent
<1>2. Cardinality(Spent \cup vs) <= Cardinality(Spent) + Cardinality(vs)
  <2>1. Cardinality(Spent \cap vs) \in Nat
    BY <1>1, FS_Intersection, FS_CardinalityType
  <2>2. Cardinality(Spent \cup vs) = Cardinality(Spent) + Cardinality(vs) - Cardinality(Spent \cap vs)
    BY <1>1, FS_Union
  <2>3. Cardinality(Spent) \in Nat /\ Cardinality(vs) \in Nat
    BY <1>1, FS_CardinalityType
  <2> QED
    BY <2>1, <2>2, <2>3
<1>3. Spent' \subseteq Spent \cup vs
  BY DEF Spent
<1>4. Cardinality(Spent') <= Cardinality(Spent \cup vs) /\ Cardinality(Spent') \in Nat
  BY <1>1, <1>3, FS_Subset, FS_CardinalityType
<1>5. Cardinality(Spent) <= MaxVoices - spawnsLeft /\ spawnsLeft \in Int
  BY DEF IInv, SpentInv, TypeOK
<1>6. Cardinality(Spent) \in Nat /\ Cardinality(vs) \in Nat /\ Cardinality(Spent \cup vs) \in Nat
  BY <1>1, FS_CardinalityType
<1> QED
  BY <1>2, <1>4, <1>5, <1>6, Numbers DEF SpentInv

\* ... if no voice is launched or killed that counts.
LEMMA NoneSpent ==
  ASSUME IInv, voice' \in [Voices -> Voice],
         \A v \in Voices : /\ voice'[v].state = "init" => voice[v].state = "init"
                           /\ voice'[v].killed => voice[v].killed \/ v \in uncounted',
         uncounted \subseteq uncounted', phase \in {"import", "process"}, UNCHANGED spawnsLeft
  PROVE  SpentInv'
<1>1. Cardinality({}) = 0
  BY FS_EmptySet
<1>2. spawnsLeft \in Int /\ spawnsLeft' <= spawnsLeft - Cardinality({})
  BY <1>1 DEF IInv, TypeOK
<1> QED
  BY <1>2, SpentKept

\* The theft queue is accounted for when no voice comes back to life.
LEMMA TheftsKept ==
  ASSUME IInv, phase \in {"import", "process", "render"}, phase' \in {"import", "process", "render"},
         Len(stolen') = Len(stolen), \A i \in DOMAIN stolen' :
            i \in DOMAIN stolen /\ stolen'[i].chan = stolen[i].chan /\ stolen'[i].key = stolen[i].key,
         DOMAIN stolen' = DOMAIN stolen, SameThefts, Dying \subseteq Dying'
  PROVE  TheftsInv'
<1>1. \A c, k : Thefts(c, k)' = Thefts(c, k)
  BY DEF Thefts
<1>2. \A c \in Chans, k \in Keys : key'[c][k].thefts = Cardinality(Thefts(c, k)')
  BY <1>1 DEF SameThefts, IInv, TheftsInv
<1>3. IsFiniteSet(Dying')
  BY Numbers, FS_Subset DEF Dying
<1>4. Cardinality(Dying) <= Cardinality(Dying') /\ Cardinality(Dying) \in Nat /\ Cardinality(Dying') \in Nat
  BY <1>3, FS_Subset, FS_CardinalityType
<1>5. Len(stolen) <= Cardinality(Dying) /\ Len(stolen) \in Nat
  BY Types DEF IInv, TheftsInv
<1>6. Len(stolen') <= Cardinality(Dying')
  BY <1>4, <1>5
<1> QED
  BY <1>2, <1>6 DEF TheftsInv

\* What the player holds, when no event is taken and no key is pressed.
LEMMA PlayerKept ==
  ASSUME PlayerInv, UNCHANGED <<queue, chan, down>>, stuck \subseteq stuck',
         \A c \in Chans, k \in Keys : key'[c][k].pressed => key[c][k].pressed
  PROVE  PlayerInv'
<1>1. \A k, i : HeldFrom(k, i)' = HeldFrom(k, i)
  BY DEF HeldFrom
<1> QED
  BY <1>1 DEF PlayerInv

\* MayHang(), without the parts of the state it is about
LEMMA MayHangKept ==
  ASSUME NEW c \in Chans, NEW k \in Keys, MayHang(c, k),
         key[c][k].pressed => key'[c][k].pressed \/ ~ ShouldReleaseVoice(c, k)',
         ShouldReleaseVoice(c, k)' => ShouldReleaseVoice(c, k),
         <<c, k>> \in stuck => <<c, k>> \in stuck' \/ key'[c][k].pressed \/ ~ ShouldReleaseVoice(c, k)',
         (c = chan /\ launch.kill = k) => (c = chan' /\ launch'.kill = k)
  PROVE  MayHang(c, k)'
BY DEF MayHang

\* The envelope of a voice, by the events behind its trigger
LEMMA EnvOfFacts ==
  ASSUME IInv, phase # "stolen", NEW c \in Chans, NEW k \in Keys, NEW v \in VoicesOn(c, k)
  PROVE  /\ v \in Voices /\ voice[v] \in Voice /\ voice[v].trigger \in Nat
         /\ voice[v].trigger <= Len(key[c][k].events) /\ key[c][k].events \in Seq(Event)
         /\ EventsFor(c, k, v) \in Seq(Event)
         /\ EnvOf(c, k, v) = IF muted[c] THEN voice[v].env
                             ELSE EnvAfter(voice[v].env, EventsFor(c, k, v))
<1>1. v \in Voices
  BY Facts DEF KeyFacts
<1>2. voice[v] \in Voice /\ key[c][k].events \in Seq(Event)
  BY <1>1, Types DEF IInv
<1>3. voice[v].trigger \in Nat
  BY <1>2 DEF Voice
<1>4. voice[v].trigger <= Len(key[c][k].events)
  BY DEF IInv, EventsInv, Begins
<1>5. EventsFor(c, k, v) \in Seq(Event)
  BY <1>2, <1>3, <1>4, AfterFacts DEF EventsFor
<1> QED
  BY <1>1, <1>2, <1>3, <1>4, <1>5 DEF EnvOf

\* A theft is like a voice whose envelope is on.
EnvOfTheft(t) == EnvAfter("on", After(key[t.chan][t.key].events, t.trigger))

\* A release is lost on a voice of the theft queue if its envelope would have ended.
LEMMA LostFacts ==
  ASSUME IInv, NEW i \in DOMAIN stolen
  PROVE  /\ stolen[i] \in QueuedTheft /\ stolen[i].trigger \in Nat
         /\ stolen[i].trigger <= Len(key[stolen[i].chan][stolen[i].key].events)
         /\ After(key[stolen[i].chan][stolen[i].key].events, stolen[i].trigger) \in Seq(Event)
         /\ LostRelease(stolen[i]) <=> stolen[i].lost \/ EnvOfTheft(stolen[i]) = "release"
<1> DEFINE t == stolen[i]
           es == key[t.chan][t.key].events
<1>1. t \in QueuedTheft /\ t.trigger \in Nat /\ t.chan \in Chans /\ t.key \in Keys
  BY Types DEF IInv, QueuedTheft
<1>2. es \in Seq(Event) /\ t.trigger <= Len(es)
  BY <1>1, Types DEF IInv, EventsInv
<1> HIDE DEF t, es
<1>3. After(es, t.trigger) \in Seq(Event)
  BY <1>1, <1>2, AfterFacts
<1>4. EnvAfter("on", After(es, t.trigger)) = "release" <=>
        /\ Transition(After(es, t.trigger)) # <<>>
        /\ Last(Transition(After(es, t.trigger))).type = "release"
  BY <1>3, EnvFacts DEF Env
<1>5. LostRelease(t) <=> t.lost \/ EnvOfTheft(t) = "release"
  BY <1>4 DEF LostRelease, EnvOfTheft, es
<1> QED
  BY <1>1, <1>2, <1>3, <1>5 DEF t, es

\* What a step may do to a key: its voices are held, nothing changes, they are released or given up.
GivenUp(c, k) ==
    /\ \A v \in VoicesOn(c, k) : voice'[v].killed \/ v \in missed'
    /\ \A i \in DOMAIN stolen : stolen[i].chan = c /\ stolen[i].key = k => stolen'[i].lost
Settled(c, k) ==
    \/ MayHang(c, k)'
    \/ (SameEvents(c, k) \/ muted[c]) /\ ~MayHang(c, k)
    \/ Gains(c, k, Fresh("release")) /\ ~muted[c]
    \/ GivenUp(c, k)
SameTheft(i) ==
    /\ i \in DOMAIN stolen /\ stolen'[i].chan = stolen[i].chan /\ stolen'[i].key = stolen[i].key
    /\ stolen'[i].trigger = stolen[i].trigger /\ (stolen[i].lost => stolen'[i].lost)

\* No note hangs after a step, if each key is settled in one of four ways.
LEMMA HoldStep ==
  ASSUME IInv, phase # "stolen", phase' # "stolen", UNCHANGED muted, missed \subseteq missed',
         \A v \in Voices : voice[v].state # "free" =>
            /\ voice'[v].env = voice[v].env /\ voice'[v].trigger = voice[v].trigger
            /\ voice[v].killed => voice'[v].killed,
         \A c \in Chans, k \in Keys : \A v \in VoicesOn(c, k)' : v \in VoicesOn(c, k) \/ MayHang(c, k)',
         \A i \in DOMAIN stolen' : SameTheft(i) \/ MayHang(stolen[i].chan, stolen[i].key)',
         \A c \in Chans, k \in Keys : Settled(c, k)
  PROVE  HoldInv'
<1>1. ASSUME NEW c \in Chans, NEW k \in Keys, NEW v \in VoicesOn(c, k)
      PROVE  voice'[v].killed \/ v \in missed' \/ (EnvOf(c, k, v)' = "on" => MayHang(c, k)')
  <2> DEFINE es == key[c][k].events
             n == key'[c][k].events
             i == voice[v].trigger
             env == voice[v].env
  <2>1. /\ v \in Voices /\ env \in Env /\ i \in Nat /\ i <= Len(es) /\ es \in Seq(Event)
        /\ After(es, i) \in Seq(Event)
        /\ EnvOf(c, k, v) = IF muted[c] THEN env ELSE EnvAfter(env, After(es, i))
    BY EnvOfFacts DEF Voice, EventsFor
  <2>2. voice[v].state # "free"
    BY <2>1, Facts DEF Members
  <2>3. voice'[v].env = env /\ voice'[v].trigger = i /\ (voice[v].killed => voice'[v].killed)
    BY <2>1, <2>2
  <2>4. EnvOf(c, k, v)' = IF muted[c] THEN env ELSE EnvAfter(env, After(n, i))
    BY <2>3 DEF EnvOf, EventsFor
  <2>5. CASE (SameEvents(c, k) \/ muted[c]) /\ ~MayHang(c, k)
    <3>1. EnvOf(c, k, v)' = EnvOf(c, k, v)
      BY <2>1, <2>4, <2>5 DEF SameEvents
    <3>2. voice[v].killed \/ v \in missed \/ EnvOf(c, k, v) # "on"
      BY <2>5 DEF IInv, HoldInv
    <3> QED
      BY <2>3, <3>1, <3>2
  <2>6. CASE Gains(c, k, Fresh("release")) /\ ~muted[c]
    <3>1. Fresh("release") \in Event /\ Fresh("release").type = "release"
      BY DEF Fresh, Event
    <3>2. After(n, i) = Append(After(es, i), Fresh("release"))
      BY <2>1, <2>6, <3>1, AfterFacts DEF Gains
    <3>3. EnvAfter(env, After(n, i)) = IF env = "fade" THEN "fade" ELSE "release"
      <4> DEFINE a == After(es, i)
                 e == Fresh("release")
      <4>1. a \in Seq(Event) /\ e \in Event /\ e.type = "release" /\ env \in Env
        BY <2>1, <3>1
      <4> HIDE DEF a, e, env
      <4>2. EnvAfter(env, Append(a, e)) = IF env = "fade" THEN "fade" ELSE "release"
        BY <4>1, EnvFacts
      <4> QED
        BY <3>2, <4>2 DEF a, e
    <3> QED
      BY <2>4, <2>6, <3>3
  <2>7. CASE GivenUp(c, k)
    BY <2>7 DEF GivenUp
  <2> QED
    BY <2>5, <2>6, <2>7 DEF Settled
<1>2. ASSUME NEW i \in DOMAIN stolen, SameTheft(i)
      PROVE  LostRelease(stolen[i])' \/ MayHang(stolen[i].chan, stolen[i].key)'
  <2> DEFINE c == stolen[i].chan
             k == stolen[i].key
             es == key[c][k].events
             n == key'[c][k].events
             g == stolen[i].trigger
  <2>1. /\ c \in Chans /\ k \in Keys /\ g \in Nat /\ g <= Len(es) /\ es \in Seq(Event)
        /\ After(es, g) \in Seq(Event)
        /\ LostRelease(stolen[i]) <=> stolen[i].lost \/ EnvAfter("on", After(es, g)) = "release"
    <3>1. stolen[i] \in QueuedTheft
      BY LostFacts
    <3>2. c \in Chans /\ k \in Keys
      BY <3>1 DEF QueuedTheft
    <3> QED
      BY <3>2, LostFacts, Types DEF EnvOfTheft, IInv
  <2>2. /\ stolen'[i].chan = c /\ stolen'[i].key = k /\ stolen'[i].trigger = g
        /\ stolen[i].lost => stolen'[i].lost
    BY <1>2 DEF SameTheft
  <2>3. LostRelease(stolen[i])' <=>
          \/ stolen'[i].lost
          \/ Transition(After(n, g)) # <<>> /\ Last(Transition(After(n, g))).type = "release"
    BY <2>2 DEF LostRelease
  <2>4. MayHang(stolen[i].chan, stolen[i].key)' <=> MayHang(c, k)'
    BY <2>2 DEF MayHang, ShouldReleaseVoice
  <2>5. ~muted[c]
    BY DEF IInv, WorkInv
  <2>6. CASE SameEvents(c, k) /\ ~MayHang(c, k)
    <3>1. LostRelease(stolen[i])
      BY <2>6 DEF IInv, HoldInv
    <3> QED
      BY <2>2, <2>3, <2>6, <3>1 DEF SameEvents, LostRelease
  <2>7. CASE Gains(c, k, Fresh("release"))
    <3>1. Fresh("release") \in Event /\ Fresh("release").type = "release"
      BY DEF Fresh, Event
    <3>2. After(n, g) = Append(After(es, g), Fresh("release"))
      <4>1. n = Append(es, Fresh("release"))
        BY <2>7 DEF Gains
      <4> HIDE DEF es, n, g
      <4> QED
        BY <2>1, <3>1, <4>1, AfterFacts
    <3> DEFINE a == After(es, g)
               e == Fresh("release")
    <3>3. a \in Seq(Event) /\ e \in Event /\ e.type = "release"
      BY <2>1, <3>1
    <3>4. After(n, g) = Append(a, e)
      BY <3>2
    <3> HIDE DEF a, e
    <3>5. EnvAfter("on", Append(a, e)) = "release" /\ Append(a, e) \in Seq(Event)
      BY <3>3, EnvFacts DEF Env
    <3>6. /\ Transition(Append(a, e)) # <<>>
          /\ Last(Transition(Append(a, e))).type = "release"
      BY <3>5, EnvFacts DEF Env
    <3> QED
      BY <2>3, <3>4, <3>6
  <2>8. CASE GivenUp(c, k)
    BY <2>3, <2>8 DEF GivenUp
  <2>9. Settled(c, k)
    BY <2>1
  <2> QED
    BY <2>4, <2>5, <2>6, <2>7, <2>8, <2>9 DEF Settled
<1>3. \A c \in Chans, k \in Keys : \A v \in VoicesOn(c, k)' :
        voice'[v].killed \/ v \in missed' \/ (EnvOf(c, k, v)' = "on" => MayHang(c, k)')
  BY <1>1
<1>4. \A i \in DOMAIN stolen' : LostRelease(stolen[i])' \/ MayHang(stolen[i].chan, stolen[i].key)'
  BY <1>2 DEF SameTheft
<1> QED
  BY <1>3, <1>4 DEF HoldInv


-----------------------------------------------------------------------------
(* The other parts of the invariant *)

\* Events are appended to a key.
Grown(c, k) ==
    /\ key'[c][k].events \in Seq(Event) /\ Len(key[c][k].events) <= Len(key'[c][k].events)
    /\ \A j \in DOMAIN key'[c][k].events :
          \/ j \in DOMAIN key[c][k].events /\ key'[c][k].events[j] = key[c][k].events[j]
          \/ key'[c][k].events[j].fresh

\* The events of a key grow by an event of this fragment at most.
LEMMA GrownFacts ==
  ASSUME TypeOK, NEW c \in Chans, NEW k \in Keys,
         SameEvents(c, k) \/ \E t \in {"on", "cancel", "release"} : Gains(c, k, Fresh(t))
  PROVE  Grown(c, k)
<1> DEFINE es == key[c][k].events
           n == key'[c][k].events
<1>1. es \in Seq(Event) /\ Len(es) \in Nat /\ DOMAIN es = 1..Len(es)
  BY Types
<1>2. CASE SameEvents(c, k)
  BY <1>1, <1>2 DEF SameEvents, Grown
<1>3. ASSUME NEW t \in {"on", "cancel", "release"}, Gains(c, k, Fresh(t)) PROVE Grown(c, k)
  <2>1. Fresh(t) \in Event /\ Fresh(t).fresh
    BY DEF Fresh, Event
  <2> DEFINE e == Fresh(t)
  <2>2. n = Append(es, e)
    BY <1>3 DEF Gains
  <2> HIDE DEF es, n, e
  <2>3. /\ n \in Seq(Event) /\ Len(n) = Len(es) + 1 /\ DOMAIN n = 1..Len(es) + 1
        /\ \A j \in 1..Len(es) : n[j] = es[j]
        /\ n[Len(es) + 1] = e
    BY <1>1, <2>1, <2>2, AppendByIndex DEF e
  <2>4. \A j \in DOMAIN n : (j \in DOMAIN es /\ n[j] = es[j]) \/ n[j].fresh
    <3> SUFFICES ASSUME NEW j \in DOMAIN n PROVE (j \in DOMAIN es /\ n[j] = es[j]) \/ n[j].fresh
      OBVIOUS
    <3>1. j \in 1..Len(es) \/ j = Len(es) + 1
      BY <1>1, <2>3
    <3> QED
      BY <1>1, <2>1, <2>3, <3>1 DEF e
  <2> QED
    BY <1>1, <2>3, <2>4 DEF Grown, es, n
<1> QED
  BY <1>2, <1>3

\* Events behind a trigger stay those of this fragment.
LEMMA BeginsKept ==
  ASSUME TypeOK, NEW c \in Chans, NEW k \in Keys, Grown(c, k)
  PROVE  /\ \A i \in Nat : Begins(c, k, i) => Begins(c, k, i)'
         /\ \A i \in Nat : i > Len(key[c][k].events) /\ i <= Len(key'[c][k].events) => Begins(c, k, i)'
<1> DEFINE es == key[c][k].events
           n == key'[c][k].events
<1>1. Len(es) \in Nat /\ DOMAIN es = 1..Len(es)
  BY Types
<1>2. n \in Seq(Event) /\ Len(es) <= Len(n)
  BY DEF Grown
<1>3. Len(n) \in Nat
  BY <1>2, LenProperties
<1>4. \A j \in DOMAIN n : (j \in DOMAIN es /\ n[j] = es[j]) \/ n[j].fresh
  BY DEF Grown
<1>5. /\ \A i : Begins(c, k, i) <=> i <= Len(es) /\ \A j \in DOMAIN es : j > i => es[j].fresh
      /\ \A i : Begins(c, k, i)' <=> i <= Len(n) /\ \A j \in DOMAIN n : j > i => n[j].fresh
  BY DEF Begins
<1> HIDE DEF es, n
<1>6. \A i \in Nat : i > Len(es) /\ i <= Len(n) => Begins(c, k, i)'
  <2> SUFFICES ASSUME NEW i \in Nat, i > Len(es), i <= Len(n), NEW j \in DOMAIN n, j > i
               PROVE  n[j].fresh
    BY <1>5
  <2>1. j \notin DOMAIN es
    BY <1>1
  <2> QED
    BY <1>4, <2>1
<1>7. \A i \in Nat : Begins(c, k, i) => Begins(c, k, i)'
  <2>1. \A i \in Nat : i <= Len(es) => i <= Len(n)
    BY <1>1, <1>2, <1>3
  <2> QED
    BY <1>4, <1>5, <2>1
<1> QED
  BY <1>6, <1>7 DEF es, n

\* Events on the keys, before the voices are rendered
LEMMA EventsStep ==
  ASSUME IInv, phase # "stolen", phase' \notin {"idle", "stolen"},
         \A v \in Voices : voice[v].state # "free" => voice'[v].trigger = voice[v].trigger,
         \A c \in Chans, k \in Keys : \A v \in VoicesOn(c, k)' :
            v \in VoicesOn(c, k) \/ Begins(c, k, voice[v].trigger)',
         \A i \in DOMAIN stolen' : SameTheft(i) \/
            /\ stolen'[i].chan \in Chans /\ stolen'[i].key \in Keys /\ stolen'[i].trigger \in Nat
            /\ Begins(stolen[i].chan, stolen[i].key, stolen[i].trigger)',
         \A c \in Chans, k \in Keys : Grown(c, k)
  PROVE  EventsInv'
<1>1. ASSUME NEW c \in Chans, NEW k \in Keys, NEW v \in VoicesOn(c, k)'
      PROVE  Begins(c, k, voice[v].trigger)'
  <2>1. CASE v \in VoicesOn(c, k)
    <3>1. v \in Voices /\ voice[v].state # "free" /\ voice[v].trigger \in Nat
      BY <2>1, Facts, EnvOfFacts DEF Members
    <3>2. Begins(c, k, voice[v].trigger)
      BY <2>1 DEF IInv, EventsInv
    <3>3. \A i \in Nat : Begins(c, k, i) => Begins(c, k, i)'
      BY BeginsKept DEF IInv
    <3> QED
      BY <3>1, <3>2, <3>3 DEF Begins
  <2> QED
    BY <2>1
<1>2. ASSUME NEW i \in DOMAIN stolen'
      PROVE  stolen'[i].trigger <= Len(key'[stolen'[i].chan][stolen'[i].key].events)
  <2>1. CASE SameTheft(i)
    <3>1. /\ stolen[i] \in QueuedTheft /\ stolen[i].trigger \in Nat
          /\ stolen[i].trigger <= Len(key[stolen[i].chan][stolen[i].key].events)
      BY <2>1, LostFacts DEF SameTheft
    <3>2. stolen[i].chan \in Chans /\ stolen[i].key \in Keys
      BY <3>1 DEF QueuedTheft
    <3> DEFINE es == key[stolen[i].chan][stolen[i].key].events
               n == key'[stolen[i].chan][stolen[i].key].events
    <3>3. Len(es) \in Nat /\ n \in Seq(Event) /\ Len(es) <= Len(n)
      BY <3>2, Types DEF Grown, IInv
    <3>4. Len(n) \in Nat
      BY <3>3, LenProperties
    <3>5. /\ stolen'[i].trigger = stolen[i].trigger
          /\ key'[stolen'[i].chan][stolen'[i].key].events = n
      BY <2>1 DEF SameTheft
    <3> HIDE DEF es, n
    <3>6. stolen[i].trigger \in Nat /\ stolen[i].trigger <= Len(es)
      BY <3>1 DEF es
    <3> QED
      BY <3>3, <3>4, <3>5, <3>6
  <2> QED
    BY <2>1 DEF Begins
<1> QED
  BY <1>1, <1>2 DEF EventsInv

On(k) == [type |-> "on", key |-> k]
Off(k) == [type |-> "off", key |-> k]

\* Notes have keys.
LEMMA MessageKeys == \A m \in Message : m.type \in {"on", "off"} => m.key \in Keys
<1> SUFFICES ASSUME NEW m \in Message, m.type \in {"on", "off"} PROVE m.key \in Keys
  OBVIOUS
<1>1. m \notin [type : Controllers, key : {NoKey}]
  BY DEF Controllers
<1>2. m \in [type : {"on", "off"}, key : Keys]
  BY <1>1 DEF Message
<1> QED
  BY <1>2

\* The queue without its first event.
LEMMA TailFacts ==
  ASSUME TypeOK, queue # <<>>, queue' = Tail(queue)
  PROVE  /\ Len(queue) \in Nat \ {0} /\ Len(queue') = Len(queue) - 1
         /\ DOMAIN queue = 1..Len(queue) /\ DOMAIN queue' = 1..Len(queue')
         /\ queue' \in Seq(Queued) /\ Head(queue) = queue[1] /\ Head(queue) \in Queued
         /\ \A i \in 1..Len(queue') : queue'[i] = queue[i + 1] /\ i + 1 \in DOMAIN queue
<1>1. queue \in Seq(Queued) /\ queue # <<>>
  BY Types
<1> QED
  BY <1>1

\* What the player holds down when the next event is taken
LEMMA PlayerTail ==
  ASSUME IInv, queue # <<>>, queue' = Tail(queue), UNCHANGED <<chan, down>>,
         \A c \in Chans, k \in Keys : key'[c][k].pressed /\ <<c, k>> \notin stuck' =>
            \/ key[c][k].pressed /\ <<c, k>> \notin stuck /\ (c = chan => Head(queue).event # Off(k))
            \/ c = chan /\ Head(queue).event = On(k)
  PROVE  PlayerInv'
<1>1. /\ Len(queue) \in Nat \ {0} /\ Len(queue') = Len(queue) - 1
      /\ DOMAIN queue = 1..Len(queue) /\ DOMAIN queue' = 1..Len(queue')
      /\ Head(queue) = queue[1]
      /\ \A i \in 1..Len(queue') : queue'[i] = queue[i + 1]
  BY TailFacts DEF IInv
<1>2. ASSUME NEW k, NEW i \in Nat, i >= 1, HeldFrom(k, i + 1) PROVE HeldFrom(k, i)'
  <2>1. ASSUME NEW m \in (i + 1)..Len(queue), queue[m].event = Off(k)
        PROVE  m - 1 \in i..Len(queue') /\ queue'[m - 1].event = Off(k)
    <3>1. m - 1 \in i..Len(queue') /\ m - 1 \in 1..Len(queue') /\ (m - 1) + 1 = m
      BY <1>1, <1>2
    <3> QED
      BY <1>1, <2>1, <3>1
  <2>2. ASSUME NEW j \in i..Len(queue'), queue'[j].event = On(k)
        PROVE  \E m \in i..(j - 1) : queue'[m].event = Off(k)
    <3>1. j + 1 \in (i + 1)..Len(queue) /\ j \in 1..Len(queue')
      BY <1>1, <1>2
    <3>2. queue[j + 1].event = On(k)
      BY <1>1, <2>2, <3>1
    <3>3. PICK m \in (i + 1)..((j + 1) - 1) : queue[m].event = Off(k)
      BY <1>2, <3>1, <3>2 DEF HeldFrom, On, Off
    <3>4. m \in (i + 1)..Len(queue) /\ m - 1 \in i..(j - 1)
      BY <1>1, <3>1, <3>3
    <3> QED
      BY <2>1, <3>3, <3>4
  <2>3. k \in down[chan] \/ \E m \in (i + 1)..Len(queue) : queue[m].event = Off(k)
    BY <1>2 DEF HeldFrom, Off
  <2>4. k \in down'[chan'] \/ \E m \in i..Len(queue') : queue'[m].event = Off(k)
    BY <2>1, <2>3
  <2> QED
    BY <2>2, <2>4 DEF HeldFrom, On, Off
<1>3. ASSUME NEW k, HeldFrom(k, 1), queue[1].event # Off(k) PROVE HeldFrom(k, 1 + 1)
  <2>1. ASSUME NEW j \in (1 + 1)..Len(queue), queue[j].event = On(k)
        PROVE  \E m \in (1 + 1)..(j - 1) : queue[m].event = Off(k)
    <3>1. j \in 1..Len(queue)
      BY <1>1
    <3>2. PICK m \in 1..(j - 1) : queue[m].event = Off(k)
      BY <1>3, <2>1, <3>1 DEF HeldFrom, On, Off
    <3>3. m # 1
      BY <1>3, <3>2
    <3>4. m \in (1 + 1)..(j - 1)
      BY <3>1, <3>2, <3>3
    <3> QED
      BY <3>2, <3>4
  <2>2. k \in down[chan] \/ \E m \in (1 + 1)..Len(queue) : queue[m].event = Off(k)
    <3>1. k \in down[chan] \/ \E m \in 1..Len(queue) : queue[m].event = Off(k)
      BY <1>3 DEF HeldFrom, Off
    <3>2. ASSUME NEW m \in 1..Len(queue), queue[m].event = Off(k) PROVE m \in (1 + 1)..Len(queue)
      BY <1>1, <1>3, <3>2
    <3> QED
      BY <3>1, <3>2
  <2> QED
    BY <2>1, <2>2 DEF HeldFrom, On, Off
<1>4. ASSUME NEW c \in Chans, NEW k \in Keys, key'[c][k].pressed, <<c, k>> \notin stuck'
      PROVE  IF c = chan' THEN HeldFrom(k, 1)' ELSE k \in down'[c]
  <2>1. CASE c = chan /\ Head(queue).event = On(k)
    <3>1. 1 \in DOMAIN queue /\ queue[1].event = On(k)
      BY <1>1, <2>1
    <3>2. HeldFrom(k, 1 + 1)
      BY <3>1 DEF IInv, PlayerInv, On
    <3> QED
      BY <1>2, <2>1, <3>2
  <2>2. CASE /\ key[c][k].pressed /\ <<c, k>> \notin stuck
             /\ (c = chan => Head(queue).event # Off(k))
    <3>1. IF c = chan THEN HeldFrom(k, 1) ELSE k \in down[c]
      BY <2>2 DEF IInv, PlayerInv
    <3> QED
      BY <1>1, <1>2, <1>3, <2>2, <3>1
  <2> QED
    BY <1>4, <2>1, <2>2
<1>5. ASSUME NEW i \in DOMAIN queue', NEW k \in Keys, queue'[i].event = On(k)
      PROVE  HeldFrom(k, i + 1)'
  <2>1. i \in 1..Len(queue') /\ i + 1 \in DOMAIN queue /\ queue[i + 1].event = On(k)
    BY <1>1, <1>5
  <2>2. HeldFrom(k, (i + 1) + 1)
    BY <2>1 DEF IInv, PlayerInv, On
  <2>3. i + 1 \in Nat /\ i + 1 >= 1
    BY <2>1
  <2> QED
    BY <1>2, <2>2, <2>3
<1> QED
  BY <1>4, <1>5 DEF PlayerInv, On

\* What is still to be done when the next event is taken
LEMMA WorkTail ==
  ASSUME IInv, queue # <<>>, queue' = Tail(queue), UNCHANGED <<chan, muted>>, phase' = "process",
         \A c \in Chans, k \in Keys : NotesOn(c, k) \subseteq NotesOn(c, k)',
         \A i \in DOMAIN stolen' : SameTheft(i) /\ stolen'[i].note = stolen[i].note
  PROVE  WorkInv'
<1>1. ASSUME NEW i \in DOMAIN queue', queue'[i].event.type = "on"
      PROVE  (queue[i].note \in NotesOn(chan, queue[i].event.key))'
  <2>1. i + 1 \in DOMAIN queue /\ queue'[i] = queue[i + 1]
    BY TailFacts DEF IInv
  <2> DEFINE k == queue[i + 1].event.key
  <2>2. k \in Keys
    <3>1. queue[i + 1].event \in Message /\ queue[i + 1].event.type = "on"
      BY <1>1, <2>1, Types DEF IInv, Queued
    <3> QED
      BY <3>1, MessageKeys
  <2>3. chan \in Chans
    BY DEF IInv, TypeOK
  <2>4. queue[i + 1].note \in NotesOn(chan, k)
    BY <1>1, <2>1 DEF IInv, WorkInv
  <2>5. queue[i + 1].note \in ToSet(notes'[chan][k])
    BY <2>2, <2>3, <2>4 DEF NotesOn
  <2> QED
    BY <2>1, <2>5 DEF NotesOn
<1>2. ASSUME NEW i \in DOMAIN stolen'
      PROVE  (stolen[i].note \in NotesOn(stolen[i].chan, stolen[i].key) /\ ~muted[stolen[i].chan])'
  <2>1. i \in DOMAIN stolen /\ stolen[i].chan \in Chans /\ stolen[i].key \in Keys
    BY LostFacts DEF SameTheft, QueuedTheft
  <2>2. stolen[i].note \in NotesOn(stolen[i].chan, stolen[i].key) /\ ~muted[stolen[i].chan]
    BY <2>1 DEF IInv, WorkInv
  <2>3. stolen[i].note \in ToSet(notes'[stolen[i].chan][stolen[i].key])
    BY <2>1, <2>2 DEF NotesOn
  <2> QED
    BY <2>2, <2>3 DEF SameTheft, NotesOn
<1> QED
  BY <1>1, <1>2 DEF WorkInv

-----------------------------------------------------------------------------
(* Steps that take the next event *)

LaunchRecord == [key : Keys \cup {NoKey}, note : Notes \cup {NoNote}, left : Nat, trigger : Nat,
            kill : Keys \cup {NoKey}]
PedalRecord == [sustain : BOOLEAN, sostenuto : BOOLEAN, keys : SUBSET Keys]
SoloRecord == [on : BOOLEAN, key : Keys \cup {NoKey}]
ReadTypes ==
    /\ scenario \in Scenarios /\ phase \in {"idle", "import", "process", "render", "stolen"}
    /\ chan \in Chans /\ queue \in Seq(Queued) /\ together \in BOOLEAN /\ imported \in 0..MaxEvents
    /\ muted \in [Chans -> BOOLEAN] /\ down \in [Chans -> SUBSET Keys]

\* TypeOK, in parts
LEMMA TypeParts ==
  TypeOK <=> /\ ReadTypes /\ ListTypes /\ spawnsLeft \in Int /\ launch \in LaunchRecord
             /\ stolen \in Seq(QueuedTheft) /\ lastStolen \in 0..Channels
             /\ key \in [Chans -> [Keys -> KeyRecord]] /\ voice \in [Voices -> Voice]
             /\ pedal \in [Chans -> PedalRecord] /\ solo \in [Chans -> SoloRecord]
             /\ stuck \subseteq Chans \X Keys /\ uncounted \in SUBSET Voices /\ missed \in SUBSET Voices
<1>1. /\ Env = {"on", "release", "fade"}
      /\ Voice = [state : {"free", "init", "play"}, killed : BOOLEAN, env : {"on", "release", "fade"},
                  trigger : Nat]
  BY DEF Env, Voice
<1> QED
  BY <1>1, Zenon DEF TypeOK, ReadTypes, ListTypes, LaunchRecord, QueuedTheft, KeyRecord, Queued, PedalRecord, SoloRecord

\* TypeParts after a step.
LEMMA TypePartsNext ==
  TypeOK' <=> /\ ReadTypes' /\ ListTypes' /\ spawnsLeft' \in Int /\ launch' \in LaunchRecord
              /\ stolen' \in Seq(QueuedTheft) /\ lastStolen' \in 0..Channels
              /\ key' \in [Chans -> [Keys -> KeyRecord]] /\ voice' \in [Voices -> Voice]
              /\ pedal' \in [Chans -> PedalRecord] /\ solo' \in [Chans -> SoloRecord]
              /\ stuck' \subseteq Chans \X Keys /\ uncounted' \in SUBSET Voices /\ missed' \in SUBSET Voices
<1>1. (TypeOK <=> /\ ReadTypes /\ ListTypes /\ spawnsLeft \in Int /\ launch \in LaunchRecord
             /\ stolen \in Seq(QueuedTheft) /\ lastStolen \in 0..Channels
             /\ key \in [Chans -> [Keys -> KeyRecord]] /\ voice \in [Voices -> Voice]
             /\ pedal \in [Chans -> PedalRecord] /\ solo \in [Chans -> SoloRecord]
             /\ stuck \subseteq Chans \X Keys /\ uncounted \in SUBSET Voices /\ missed \in SUBSET Voices)'
  BY TypeParts, PTL
<1>2. UNCHANGED <<LaunchRecord, QueuedTheft, KeyRecord, Voice, PedalRecord, SoloRecord, Chans>>
  BY DEF LaunchRecord, QueuedTheft, KeyRecord, Voice, PedalRecord, SoloRecord, Chans
<1> QED
  BY <1>1, <1>2, Zenon

\* Taking an event keeps the types of the queue and of what is only read.
LEMMA Next1Types ==
  ASSUME TypeOK, NEW t, Next1(t)
  PROVE  /\ ReadTypes' /\ launch = NoLaunch /\ NoLaunch \in LaunchRecord
         /\ phase \in {"import", "process"} /\ phase' = "process"
         /\ queue # <<>> /\ queue' = Tail(queue)
         /\ UNCHANGED <<chan, down, muted, together>>
         /\ Head(queue).event.type = t /\ Head(queue).event \in Message
<1>1. queue' \in Seq(Queued) /\ Head(queue) \in Queued
  BY TailFacts DEF Next1
<1>2. Head(queue).event \in Message
  BY <1>1 DEF Queued
<1>3. NoLaunch \in LaunchRecord
  BY DEF NoLaunch, LaunchRecord
<1>4. ReadTypes
  BY TypeParts
<1> QED
  BY <1>1, <1>2, <1>3, <1>4 DEF Next1, ReadTypes, fragment

\* Nothing is required when no note is being launched.
LEMMA NoLaunchInv == launch' = NoLaunch => LaunchInv'
BY DEF LaunchInv, NoLaunch

\* The parts of the invariant, when a channel takes its next event
LEMMA EventTaken ==
  ASSUME IInv, NEW t, Next1(t), TypeOK', ListsInv', LaunchInv', SpentInv', SameVoices, SameThefts,
         \A c \in Chans, k \in Keys : NotesOn(c, k) \subseteq NotesOn(c, k)',
         \A v \in Voices : /\ voice'[v].state = voice[v].state /\ voice'[v].env = voice[v].env
                           /\ voice'[v].trigger = voice[v].trigger
                           /\ voice[v].killed => voice'[v].killed,
         DOMAIN stolen' = DOMAIN stolen,
         \A i \in DOMAIN stolen : SameTheft(i) /\ stolen'[i].note = stolen[i].note,
         missed \subseteq missed',
         \A c \in Chans, k \in Keys : Grown(c, k) /\ Settled(c, k),
         \A c \in Chans, k \in Keys : key'[c][k].pressed /\ <<c, k>> \notin stuck' =>
            \/ key[c][k].pressed /\ <<c, k>> \notin stuck /\ (c = chan => Head(queue).event # Off(k))
            \/ c = chan /\ Head(queue).event = On(k)
  PROVE  IInv'
<1>1. /\ phase \in {"import", "process"} /\ phase' = "process" /\ TypeOK
      /\ queue # <<>> /\ queue' = Tail(queue) /\ UNCHANGED <<chan, down, muted>>
  BY Next1Types DEF IInv
<1>2. WorkInv'
  BY <1>1, WorkTail
<1>3. InitInv'
  BY <1>1, InitKept DEF IInv
<1>4. EventsInv'
  BY <1>1, EventsStep DEF SameVoices
<1>5. TheftsInv'
  <2>1. Len(stolen') = Len(stolen)
    <3>1. stolen \in Seq(QueuedTheft) /\ stolen' \in Seq(QueuedTheft)
      BY <1>1, TypeParts, TypePartsNext
    <3>2. DOMAIN stolen = 1..Len(stolen) /\ DOMAIN stolen' = 1..Len(stolen')
          /\ Len(stolen) \in Nat /\ Len(stolen') \in Nat
      BY <3>1
    <3> QED
      BY <3>2
  <2>2. Dying \subseteq Dying'
    BY DEF Dying
  <2> QED
    BY <1>1, <2>1, <2>2, TheftsKept DEF SameTheft
<1>6. PlayerInv'
  BY <1>1, PlayerTail
<1>7. HoldInv'
  BY <1>1, HoldStep DEF SameVoices
<1> QED
  BY <1>2, <1>3, <1>4, <1>5, <1>6, <1>7 DEF IInv

\* ... if nothing happens to the lists, the voices and the thefts.
LEMMA OnlyEvents ==
  ASSUME IInv, NEW t, Next1(t), UNCHANGED <<launch, stealing, lists, voice, uncounted>>, TypeOK',
         SameThefts, missed \subseteq missed',
         \A c \in Chans, k \in Keys :
            /\ SameEvents(c, k) \/ \E e \in {"on", "cancel", "release"} : Gains(c, k, Fresh(e))
            /\ Settled(c, k),
         \A c \in Chans, k \in Keys : key'[c][k].pressed /\ <<c, k>> \notin stuck' =>
            \/ key[c][k].pressed /\ <<c, k>> \notin stuck /\ (c = chan => Head(queue).event # Off(k))
            \/ c = chan /\ Head(queue).event = On(k)
  PROVE  IInv'
<1>1. launch' = NoLaunch /\ phase \in {"import", "process"}
  BY Next1Types DEF IInv
<1>2. LaunchInv'
  BY <1>1, NoLaunchInv
<1>3. ListsInv' /\ SameVoices /\ \A c \in Chans, k \in Keys : NotesOn(c, k) \subseteq NotesOn(c, k)'
  BY ListsKept, SameSets DEF IInv, SameVoices, SameStates
<1>4. SpentInv'
  BY <1>1, NoneSpent, Types DEF stealing, IInv, TypeOK
<1>5. \A c \in Chans, k \in Keys : Grown(c, k)
  BY GrownFacts DEF IInv
<1>6. DOMAIN stolen' = DOMAIN stolen /\ \A i \in DOMAIN stolen : SameTheft(i) /\ stolen'[i].note = stolen[i].note
  BY DEF SameTheft, stealing
<1> QED
  BY <1>2, <1>3, <1>4, <1>5, <1>6, EventTaken

-----------------------------------------------------------------------------
(* Controllers, and events of muted channels *)

\* A note-on or a note-off is known by its type and its key.
LEMMA OnOff ==
  \A m \in Message, k \in Keys : /\ m = On(k) => m.type = "on" /\ m.key = k
                                 /\ m = Off(k) => m.type = "off" /\ m.key = k
                                 /\ m.type = "on" /\ m.key = k => m = On(k)
<1> SUFFICES ASSUME NEW m \in Message, NEW k \in Keys
             PROVE  /\ m = On(k) => m.type = "on" /\ m.key = k
                    /\ m = Off(k) => m.type = "off" /\ m.key = k
                    /\ m.type = "on" /\ m.key = k => m = On(k)
  OBVIOUS
<1>1. m \in [type : {"on", "off"}, key : Keys] \/ m \in [type : Controllers, key : {NoKey}]
  BY DEF Message
<1>2. m \in [type : {"on", "off"}, key : Keys] /\ m.type = "on" /\ m.key = k => m = On(k)
  BY DEF On
<1>3. m \in [type : Controllers, key : {NoKey}] => m.key # k
  BY Numbers
<1> QED
  BY <1>1, <1>2, <1>3 DEF On, Off

\* An event that is neither a note-on nor a note-off leaves pressed keys as they are.
LEMMA OtherEvent ==
  ASSUME IInv, NEW t, Next1(t), t # "off", UNCHANGED stuck,
         \A c \in Chans, k \in Keys : key'[c][k].pressed => key[c][k].pressed
  PROVE  \A c \in Chans, k \in Keys : key'[c][k].pressed /\ <<c, k>> \notin stuck' =>
            \/ key[c][k].pressed /\ <<c, k>> \notin stuck /\ (c = chan => Head(queue).event # Off(k))
            \/ c = chan /\ Head(queue).event = On(k)
<1>1. \A k \in Keys : Head(queue).event # Off(k)
  BY Next1Types, OnOff DEF IInv
<1> QED
  BY <1>1

\* A key with the same events and the same holders is settled.
LEMMA SettledSame ==
  ASSUME NEW c \in Chans, NEW k \in Keys, launch = NoLaunch, SameEvents(c, k) \/ muted[c],
         key[c][k].pressed => key'[c][k].pressed,
         ShouldReleaseVoice(c, k)' => ShouldReleaseVoice(c, k),
         <<c, k>> \in stuck => <<c, k>> \in stuck'
  PROVE  Settled(c, k)
<1>1. launch.kill # k
  BY Numbers DEF NoLaunch
<1>2. MayHang(c, k) => MayHang(c, k)'
  BY <1>1, MayHangKept
<1> QED
  BY <1>2 DEF Settled

\* Keys without voices
LEMMA InactiveGivenUp ==
  ASSUME IInv, NEW c \in Chans, NEW k \in Keys, k \notin Active(c)
  PROVE  GivenUp(c, k)
<1>1. VoicesOn(c, k) = {}
  BY Facts DEF Members
<1>2. \A i \in DOMAIN stolen : ~ (stolen[i].chan = c /\ stolen[i].key = k)
  BY DEF IInv, ListsInv, WorkInv
<1> QED
  BY <1>1, <1>2 DEF GivenUp

\* Muted channels have no thefts.
LEMMA MutedGivenUp ==
  ASSUME IInv, NEW c \in Chans, muted[c], ChannelSet(c) \subseteq missed'
  PROVE  \A k \in Keys : GivenUp(c, k)
<1>1. \A k \in Keys : VoicesOn(c, k) \subseteq ChannelSet(c)
  BY Facts DEF Members, KeyFacts
<1>2. \A i \in DOMAIN stolen : stolen[i].chan # c
  BY DEF IInv, WorkInv
<1> QED
  BY <1>1, <1>2 DEF GivenUp

\* The events of WithEvents()
Appended(f, c, k, t) ==
    /\ f \in [Chans -> [Keys -> KeyRecord]]
    /\ \A d \in Chans, l \in Keys :
         /\ f[d][l].pressed = key[d][l].pressed /\ f[d][l].thefts = key[d][l].thefts
         /\ f[d][l].events = IF d = c /\ l = k THEN Append(key[d][l].events, Fresh(t))
                             ELSE key[d][l].events

\* WithEvents() of a variable that already holds other records.
LEMMA WithEventsOf ==
  ASSUME TypeOK, NEW c \in Chans, NEW k \in Keys, NEW t \in {"on", "cancel", "release"}
  PROVE  Appended(WithEvents(c, {k}, t), c, k, t)
<1>1. {k} \in SUBSET Keys
  OBVIOUS
<1> DEFINE ks == {k}
<1>2. \A l : l \in ks <=> l = k
  OBVIOUS
<1> HIDE DEF ks
<1>3. /\ WithEvents(c, ks, t) \in [Chans -> [Keys -> KeyRecord]]
      /\ \A d \in Chans, l \in Keys :
           /\ WithEvents(c, ks, t)[d][l].pressed = key[d][l].pressed
           /\ WithEvents(c, ks, t)[d][l].thefts = key[d][l].thefts
           /\ WithEvents(c, ks, t)[d][l].events =
                IF d = c /\ l \in ks THEN Append(key[d][l].events, Fresh(t)) ELSE key[d][l].events
  <2>1. ks \in SUBSET Keys
    BY <1>1 DEF ks
  <2> QED
    BY <2>1, WithEventsFacts
<1> QED
  BY <1>2, <1>3 DEF Appended, ks

\* WithEvents() as a step.
LEMMA WithEventsStep ==
  ASSUME TypeOK, NEW c \in Chans, NEW ks \in SUBSET Keys, NEW t \in {"on", "cancel", "release"},
         key' = WithEvents(c, ks, t)
  PROVE  /\ key' \in [Chans -> [Keys -> KeyRecord]] /\ SameThefts
         /\ \A d \in Chans, k \in Keys :
              /\ key'[d][k].pressed = key[d][k].pressed
              /\ SameEvents(d, k) \/ \E e \in {"on", "cancel", "release"} : Gains(d, k, Fresh(e))
              /\ d = c /\ k \in ks => Gains(d, k, Fresh(t))
              /\ d # c \/ k \notin ks => SameEvents(d, k)
<1> DEFINE g == WithEvents(c, ks, t)
<1>1. /\ g \in [Chans -> [Keys -> KeyRecord]]
      /\ \A d \in Chans, k \in Keys :
           /\ g[d][k].pressed = key[d][k].pressed /\ g[d][k].thefts = key[d][k].thefts
           /\ g[d][k].events = IF d = c /\ k \in ks THEN Append(key[d][k].events, Fresh(t))
                               ELSE key[d][k].events
  BY WithEventsFacts
<1> HIDE DEF g
<1>2. key' = g
  BY DEF g
<1>3. ASSUME NEW d \in Chans, NEW k \in Keys
      PROVE  /\ key'[d][k].pressed = key[d][k].pressed /\ key'[d][k].thefts = key[d][k].thefts
             /\ d = c /\ k \in ks => Gains(d, k, Fresh(t))
             /\ d # c \/ k \notin ks => SameEvents(d, k)
  <2>1. CASE d = c /\ k \in ks
    BY <1>1, <1>2, <2>1 DEF Gains
  <2>2. CASE ~(d = c /\ k \in ks)
    BY <1>1, <1>2, <2>2 DEF SameEvents
  <2> QED
    BY <2>1, <2>2
<1> QED
  BY <1>1, <1>2, <1>3 DEF SameThefts

\* Steps that leave the keys alone.
LEMMA SameKeys ==
  ASSUME TypeOK, UNCHANGED key
  PROVE  /\ key' \in [Chans -> [Keys -> KeyRecord]] /\ SameThefts
         /\ \A d \in Chans, k \in Keys :
              /\ key'[d][k].pressed = key[d][k].pressed /\ SameEvents(d, k)
BY TypeParts DEF SameThefts, SameEvents

\* A note-on event on a muted channel keeps the invariant.
LEMMA KeepIgnoreNoteOn == ASSUME IInv, IgnoreNoteOn PROVE IInv'
<1>1. Next1("on") /\ UNCHANGED <<launch, stealing, lists, key, voice, pedal, solo, stuck, uncounted, missed>>
  BY DEF IgnoreNoteOn
<1>2. TypeOK /\ ReadTypes' /\ launch = NoLaunch
  BY <1>1, Next1Types DEF IInv
<1>3. TypeOK'
  BY <1>1, <1>2, TypeParts, TypePartsNext DEF stealing, lists, ListTypes
<1>4. \A c \in Chans, k \in Keys : Settled(c, k)
  BY <1>1, <1>2, SettledSame, SameKeys DEF ShouldReleaseVoice
<1>5. SameThefts /\ \A c \in Chans, k \in Keys : key'[c][k].pressed = key[c][k].pressed /\ SameEvents(c, k)
  BY <1>1, <1>2, SameKeys
<1> QED
  BY <1>1, <1>3, <1>4, <1>5, OnlyEvents, OtherEvent

\* A note-off event on a muted channel does, as the key becomes stuck.
LEMMA KeepIgnoreNoteOff == ASSUME IInv, IgnoreNoteOff PROVE IInv'
<1>1. /\ Next1("off") /\ UNCHANGED <<launch, stealing, lists, key, voice, pedal, solo, uncounted, missed>>
      /\ stuck' = stuck \cup {<<chan, Head(queue).event.key>>}
  BY DEF IgnoreNoteOff
<1>2. /\ TypeOK /\ ReadTypes' /\ launch = NoLaunch /\ chan \in Chans
      /\ Head(queue).event \in Message /\ Head(queue).event.type = "off"
  BY <1>1, Next1Types, TypeParts DEF IInv, ReadTypes
<1>3. Head(queue).event.key \in Keys
  BY <1>2, MessageKeys
<1>4. TypeOK'
  <2>1. stuck' \subseteq Chans \X Keys
    BY <1>1, <1>2, <1>3, TypeParts
  <2> QED
    BY <1>1, <1>2, <2>1, TypeParts, TypePartsNext DEF stealing, lists, ListTypes
<1>5. \A c \in Chans, k \in Keys : Settled(c, k)
  BY <1>1, <1>2, SettledSame, SameKeys DEF ShouldReleaseVoice
<1>6. SameThefts /\ \A c \in Chans, k \in Keys : key'[c][k].pressed = key[c][k].pressed /\ SameEvents(c, k)
  BY <1>1, <1>2, SameKeys
<1>7. \A c \in Chans, k \in Keys : key'[c][k].pressed /\ <<c, k>> \notin stuck' =>
         key[c][k].pressed /\ <<c, k>> \notin stuck /\ (c = chan => Head(queue).event # Off(k))
  BY <1>1, <1>2, <1>6, OnOff
<1> QED
  BY <1>1, <1>4, <1>5, <1>6, <1>7, OnlyEvents

\* What a controller step has in common with the others
ControllerStep(t, c) ==
    /\ Next1(t) /\ c = chan /\ c \in Chans /\ t # "off"
    /\ UNCHANGED <<launch, stealing, lists, voice, solo, stuck, uncounted>>

\* Types after a pedal or another controller.
LEMMA ControllerTypes ==
  ASSUME IInv, NEW t, NEW c, ControllerStep(t, c)
  PROVE  /\ TypeOK /\ ReadTypes' /\ launch = NoLaunch /\ ListTypes'
         /\ pedal \in [Chans -> PedalRecord] /\ key \in [Chans -> [Keys -> KeyRecord]] /\ missed \in SUBSET Voices
         /\ ChannelSet(c) \subseteq Voices /\ Active(c) \subseteq Keys
         /\ pedal' \in [Chans -> PedalRecord] /\ key' \in [Chans -> [Keys -> KeyRecord]]
            /\ missed' \in SUBSET Voices => TypeOK'
<1>1. TypeOK /\ ReadTypes' /\ launch = NoLaunch
  BY Next1Types DEF ControllerStep, IInv
<1>2. ListTypes'
  BY <1>1, TypeParts DEF ControllerStep, lists, ListTypes
<1>3. pedal' \in [Chans -> PedalRecord] /\ key' \in [Chans -> [Keys -> KeyRecord]]
        /\ missed' \in SUBSET Voices => TypeOK'
  BY <1>1, <1>2, TypeParts, TypePartsNext DEF ControllerStep, stealing
<1>4. pedal \in [Chans -> PedalRecord] /\ key \in [Chans -> [Keys -> KeyRecord]] /\ missed \in SUBSET Voices
  BY <1>1, TypeParts
<1>5. ChannelSet(c) \subseteq Voices /\ Active(c) \subseteq Keys
  BY Facts DEF ChannelFacts, SetFacts, ControllerStep
<1> QED
  BY <1>1, <1>2, <1>3, <1>4, <1>5

\* A controller keeps the invariant if it settles the keys of its channel.
LEMMA ControllerKept ==
  ASSUME IInv, NEW t, NEW c, ControllerStep(t, c), TypeOK', SameThefts, missed \subseteq missed',
         \A d \in Chans, k \in Keys :
            /\ key'[d][k].pressed = key[d][k].pressed
            /\ SameEvents(d, k) \/ \E e \in {"on", "cancel", "release"} : Gains(d, k, Fresh(e))
            /\ d # c => SameEvents(d, k) /\ pedal'[d] = pedal[d],
         \A k \in Keys : Settled(c, k)
  PROVE  IInv'
<1>1. ASSUME NEW d \in Chans, NEW k \in Keys PROVE Settled(d, k)
  <2>1. CASE d = c
    BY <2>1
  <2>2. CASE d # c
    <3>1. launch = NoLaunch
      BY ControllerTypes
    <3>2. ShouldReleaseVoice(d, k)' = ShouldReleaseVoice(d, k)
      BY <2>2 DEF ShouldReleaseVoice
    <3> QED
      BY <2>2, <3>1, <3>2, SettledSame DEF ControllerStep
  <2> QED
    BY <2>1, <2>2
<1> QED
  BY <1>1, OnlyEvents, OtherEvent DEF ControllerStep

Pedals(c, ks) == /\ pedal' \in [Chans -> PedalRecord] /\ pedal'[c].keys = ks
                 /\ \A d \in Chans : d # c => pedal'[d] = pedal[d]
SameSustain(c) == pedal'[c].sustain <=> pedal[c].sustain
SameSostenuto(c) == pedal'[c].sostenuto <=> pedal[c].sostenuto

\* The sustain pedal goes down.
LEMMA SustainTrue ==
  ASSUME pedal \in [Chans -> PedalRecord], NEW c \in Chans, pedal' = [pedal EXCEPT ![c].sustain = TRUE]
  PROVE  Pedals(c, pedal[c].keys) /\ pedal'[c].sustain /\ SameSostenuto(c)
BY DEF PedalRecord, Pedals, SameSostenuto

\* The sustain pedal goes up.
LEMMA SustainFalse ==
  ASSUME pedal \in [Chans -> PedalRecord], NEW c \in Chans, pedal' = [pedal EXCEPT ![c].sustain = FALSE]
  PROVE  Pedals(c, pedal[c].keys) /\ ~pedal'[c].sustain /\ SameSostenuto(c)
BY DEF PedalRecord, Pedals, SameSostenuto

\* The sostenuto pedal goes up.
LEMMA SostenutoFalse ==
  ASSUME pedal \in [Chans -> PedalRecord], NEW c \in Chans, pedal' = [pedal EXCEPT ![c].sostenuto = FALSE]
  PROVE  Pedals(c, pedal[c].keys) /\ ~pedal'[c].sostenuto /\ SameSustain(c)
BY DEF PedalRecord, Pedals, SameSustain

\* The sostenuto pedal goes down, and holds some keys.
LEMMA SostenutoTrue ==
  ASSUME pedal \in [Chans -> PedalRecord], NEW c \in Chans, NEW ks \in SUBSET Keys,
         pedal' = [pedal EXCEPT ![c].sostenuto = TRUE, ![c].keys = ks]
  PROVE  Pedals(c, ks) /\ pedal'[c].sostenuto /\ SameSustain(c)
BY DEF PedalRecord, Pedals, SameSustain

\* Both pedals go up.
LEMMA BothFalse ==
  ASSUME pedal \in [Chans -> PedalRecord], NEW c \in Chans,
         pedal' = [pedal EXCEPT ![c].sustain = FALSE, ![c].sostenuto = FALSE]
  PROVE  Pedals(c, pedal[c].keys) /\ ~pedal'[c].sustain /\ ~pedal'[c].sostenuto
BY DEF PedalRecord, Pedals

\* The sostenuto pedal holds keys.
LEMMA PedalKeys ==
  ASSUME pedal \in [Chans -> PedalRecord], NEW c \in Chans
  PROVE  pedal[c].keys \in SUBSET Keys
BY DEF PedalRecord

\* The pedal holds all keys, so that none needs to be pressed.
LEMMA KeepSustainDown == ASSUME IInv, NEW c \in Chans, SustainDown(c) PROVE IInv'
<1>1. /\ ControllerStep("sustainDown", c) /\ UNCHANGED missed
      /\ pedal' = [pedal EXCEPT ![c].sustain = TRUE]
      /\ key' = key \/ key' = WithEvents(c, Released(c, Active(c)), "cancel")
  BY DEF SustainDown, ControllerStep
<1>2. TypeOK /\ pedal \in [Chans -> PedalRecord] /\ missed' \in SUBSET Voices /\ Active(c) \subseteq Keys
      /\ (pedal' \in [Chans -> PedalRecord] /\ key' \in [Chans -> [Keys -> KeyRecord]] => TypeOK')
  BY <1>1, ControllerTypes
<1>3. pedal' \in [Chans -> PedalRecord] /\ pedal'[c].sustain /\ \A d \in Chans : d # c => pedal'[d] = pedal[d]
  <2>1. Pedals(c, pedal[c].keys) /\ pedal'[c].sustain /\ SameSostenuto(c)
    BY <1>1, <1>2, SustainTrue
  <2> QED
    BY <2>1 DEF Pedals, SameSustain, SameSostenuto
<1>4. /\ key' \in [Chans -> [Keys -> KeyRecord]] /\ SameThefts
      /\ \A d \in Chans, k \in Keys :
           /\ key'[d][k].pressed = key[d][k].pressed
           /\ SameEvents(d, k) \/ \E e \in {"on", "cancel", "release"} : Gains(d, k, Fresh(e))
           /\ d # c => SameEvents(d, k)
  <2>1. Released(c, Active(c)) \in SUBSET Keys
    BY <1>2 DEF Released
  <2> QED
    BY <1>1, <1>2, <2>1, WithEventsStep, SameKeys
<1>5. \A k \in Keys : Settled(c, k)
  BY <1>3 DEF Settled, MayHang, ShouldReleaseVoice
<1> QED
  BY <1>1, <1>2, <1>3, <1>4, <1>5, ControllerKept

\* Keys that nothing else holds get a release, unless the channel is muted.
LEMMA KeepSustainUp == ASSUME IInv, NEW c \in Chans, SustainUp(c) PROVE IInv'
<1> DEFINE ks == {k \in Released(c, Active(c)) : ~(pedal[c].sostenuto /\ k \in pedal[c].keys)}
<1>1. /\ ControllerStep("sustainUp", c)
      /\ pedal' = [pedal EXCEPT ![c].sustain = FALSE]
      /\ key' = IF ~pedal[c].sustain \/ muted[c] THEN key ELSE WithEvents(c, ks, "release")
      /\ missed' = IF pedal[c].sustain /\ muted[c] THEN missed \cup ChannelSet(c) ELSE missed
  BY DEF SustainUp, ControllerStep
<1>2. /\ TypeOK /\ launch = NoLaunch /\ pedal \in [Chans -> PedalRecord] /\ missed \in SUBSET Voices
      /\ Active(c) \subseteq Keys /\ ChannelSet(c) \subseteq Voices
      /\ (pedal' \in [Chans -> PedalRecord] /\ key' \in [Chans -> [Keys -> KeyRecord]] /\ missed' \in SUBSET Voices
          => TypeOK')
  BY <1>1, ControllerTypes
<1>3. /\ pedal' \in [Chans -> PedalRecord] /\ ~pedal'[c].sustain /\ (pedal'[c].sostenuto <=> pedal[c].sostenuto)
      /\ pedal'[c].keys = pedal[c].keys /\ \A d \in Chans : d # c => pedal'[d] = pedal[d]
  <2>1. Pedals(c, pedal[c].keys) /\ ~pedal'[c].sustain /\ SameSostenuto(c)
    BY <1>1, <1>2, SustainFalse
  <2> QED
    BY <2>1 DEF Pedals, SameSustain, SameSostenuto
<1>4. /\ key' \in [Chans -> [Keys -> KeyRecord]] /\ SameThefts
      /\ \A d \in Chans, k \in Keys :
           /\ key'[d][k].pressed = key[d][k].pressed
           /\ SameEvents(d, k) \/ \E e \in {"on", "cancel", "release"} : Gains(d, k, Fresh(e))
           /\ d # c => SameEvents(d, k)
      /\ pedal[c].sustain /\ ~muted[c] => \A k \in ks : Gains(c, k, Fresh("release"))
      /\ ~pedal[c].sustain => \A k \in Keys : SameEvents(c, k)
  <2>1. ks \in SUBSET Keys
    BY <1>2 DEF Released
  <2> HIDE DEF ks
  <2> QED
    BY <1>1, <1>2, <2>1, WithEventsStep, SameKeys
<1>5. missed' \in SUBSET Voices /\ missed \subseteq missed'
  BY <1>1, <1>2
<1>6. ASSUME NEW k \in Keys PROVE Settled(c, k)
  <2>1. CASE ~pedal[c].sustain
    <3>1. ShouldReleaseVoice(c, k)' = ShouldReleaseVoice(c, k)
      BY <1>3, <2>1 DEF ShouldReleaseVoice
    <3> QED
      BY <1>1, <1>2, <1>4, <2>1, <3>1, SettledSame DEF ControllerStep
  <2>2. CASE pedal[c].sustain /\ muted[c]
    <3>1. GivenUp(c, k)
      BY <1>1, <2>2, MutedGivenUp
    <3> QED
      BY <3>1 DEF Settled
  <2>3. CASE pedal[c].sustain /\ ~muted[c]
    <3>1. CASE k \notin Active(c)
      BY <3>1, InactiveGivenUp DEF Settled
    <3>2. CASE key[c][k].pressed \/ (pedal[c].sostenuto /\ k \in pedal[c].keys)
      BY <1>3, <1>4, <3>2 DEF Settled, MayHang, ShouldReleaseVoice
    <3>3. CASE k \in ks
      BY <1>4, <2>3, <3>3 DEF Settled
    <3> QED
      BY <3>1, <3>2, <3>3 DEF Released
  <2> QED
    BY <2>1, <2>2, <2>3
<1> HIDE DEF ks
<1> QED
  BY <1>1, <1>2, <1>3, <1>4, <1>5, <1>6, ControllerKept

\* The pedal holds the keys that are pressed.
LEMMA KeepSostenutoDown == ASSUME IInv, NEW c \in Chans, SostenutoDown(c) PROVE IInv'
<1> DEFINE ks == IF pedal[c].sostenuto \/ muted[c] THEN pedal[c].keys
                 ELSE {k \in Active(c) : key[c][k].pressed}
<1>1. /\ ControllerStep("sostenutoDown", c) /\ UNCHANGED <<key, missed>>
      /\ pedal' = [pedal EXCEPT ![c].sostenuto = TRUE, ![c].keys = ks]
  BY DEF SostenutoDown, ControllerStep
<1>2. /\ TypeOK /\ launch = NoLaunch /\ pedal \in [Chans -> PedalRecord] /\ missed' \in SUBSET Voices
      /\ Active(c) \subseteq Keys
      /\ (pedal' \in [Chans -> PedalRecord] /\ key' \in [Chans -> [Keys -> KeyRecord]] => TypeOK')
  BY <1>1, ControllerTypes
<1>3. /\ pedal' \in [Chans -> PedalRecord] /\ pedal'[c].sostenuto /\ (pedal'[c].sustain <=> pedal[c].sustain)
      /\ pedal'[c].keys = ks /\ \A d \in Chans : d # c => pedal'[d] = pedal[d]
  <2>1. ks \in SUBSET Keys
    BY <1>2, PedalKeys
  <2> HIDE DEF ks
  <2> QED
    <3>1. Pedals(c, ks) /\ pedal'[c].sostenuto /\ SameSustain(c)
      BY <1>1, <1>2, <2>1, SostenutoTrue, Zenon
    <3> QED
      BY <3>1 DEF Pedals, SameSustain
<1>4. /\ key' \in [Chans -> [Keys -> KeyRecord]] /\ SameThefts
      /\ \A d \in Chans, k \in Keys : key'[d][k].pressed = key[d][k].pressed /\ SameEvents(d, k)
  BY <1>1, <1>2, SameKeys
<1>5. ASSUME NEW k \in Keys PROVE Settled(c, k)
  <2>1. ShouldReleaseVoice(c, k)' => ShouldReleaseVoice(c, k)
    BY <1>3 DEF ShouldReleaseVoice
  <2> QED
    BY <1>1, <1>2, <1>4, <2>1, SettledSame DEF ControllerStep
<1> HIDE DEF ks
<1>6. missed \subseteq missed' /\ TypeOK' /\ ControllerStep("sostenutoDown", c)
  BY <1>1, <1>2, <1>3, <1>4
<1> QED
  BY <1>3, <1>4, <1>5, <1>6, ControllerKept

\* Keys that the pedal held get a release, unless the channel is muted.
LEMMA KeepSostenutoUp == ASSUME IInv, NEW c \in Chans, SostenutoUp(c) PROVE IInv'
<1> DEFINE ks == Released(c, pedal[c].keys)
<1>1. /\ ControllerStep("sostenutoUp", c)
      /\ pedal' = [pedal EXCEPT ![c].sostenuto = FALSE]
      /\ key' = IF ~pedal[c].sostenuto \/ muted[c] \/ pedal[c].sustain THEN key
                ELSE WithEvents(c, ks, "release")
      /\ missed' = IF pedal[c].sostenuto /\ muted[c] THEN missed \cup ChannelSet(c) ELSE missed
  BY DEF SostenutoUp, ControllerStep
<1>2. /\ TypeOK /\ launch = NoLaunch /\ pedal \in [Chans -> PedalRecord] /\ missed \in SUBSET Voices
      /\ ChannelSet(c) \subseteq Voices
      /\ (pedal' \in [Chans -> PedalRecord] /\ key' \in [Chans -> [Keys -> KeyRecord]] /\ missed' \in SUBSET Voices
          => TypeOK')
  BY <1>1, ControllerTypes
<1>3. /\ pedal' \in [Chans -> PedalRecord] /\ ~pedal'[c].sostenuto /\ (pedal'[c].sustain <=> pedal[c].sustain)
      /\ \A d \in Chans : d # c => pedal'[d] = pedal[d]
  <2>1. Pedals(c, pedal[c].keys) /\ ~pedal'[c].sostenuto /\ SameSustain(c)
    BY <1>1, <1>2, SostenutoFalse
  <2> QED
    BY <2>1 DEF Pedals, SameSustain, SameSostenuto
<1>4. /\ key' \in [Chans -> [Keys -> KeyRecord]] /\ SameThefts
      /\ \A d \in Chans, k \in Keys :
           /\ key'[d][k].pressed = key[d][k].pressed
           /\ SameEvents(d, k) \/ \E e \in {"on", "cancel", "release"} : Gains(d, k, Fresh(e))
           /\ d # c => SameEvents(d, k)
      /\ pedal[c].sostenuto /\ ~pedal[c].sustain /\ ~muted[c] => \A k \in ks : Gains(c, k, Fresh("release"))
      /\ ~pedal[c].sostenuto => \A k \in Keys : SameEvents(c, k)
      /\ \A k \in Keys \ ks : SameEvents(c, k)
  <2>1. ks \in SUBSET Keys
    BY <1>2, PedalKeys DEF Released
  <2> HIDE DEF ks
  <2> QED
    BY <1>1, <1>2, <2>1, WithEventsStep, SameKeys
<1>5. missed' \in SUBSET Voices /\ missed \subseteq missed'
  BY <1>1, <1>2
<1>6. ASSUME NEW k \in Keys PROVE Settled(c, k)
  <2>1. CASE ~pedal[c].sostenuto
    <3>1. ShouldReleaseVoice(c, k)' = ShouldReleaseVoice(c, k)
      BY <1>3, <2>1 DEF ShouldReleaseVoice
    <3> QED
      BY <1>1, <1>2, <1>4, <2>1, <3>1, SettledSame DEF ControllerStep
  <2>2. CASE pedal[c].sostenuto /\ muted[c]
    <3>1. GivenUp(c, k)
      BY <1>1, <2>2, MutedGivenUp
    <3> QED
      BY <3>1 DEF Settled
  <2>3. CASE pedal[c].sostenuto /\ ~muted[c]
    <3>1. CASE pedal[c].sustain \/ key[c][k].pressed
      BY <1>3, <1>4, <3>1 DEF Settled, MayHang, ShouldReleaseVoice
    <3>2. CASE ~pedal[c].sustain /\ k \in ks
      BY <1>4, <2>3, <3>2 DEF Settled
    <3>3. CASE ~pedal[c].sustain /\ ~key[c][k].pressed /\ k \notin ks
      <4>1. ShouldReleaseVoice(c, k)
        BY <3>3 DEF ShouldReleaseVoice, Released
      <4> QED
        BY <1>1, <1>2, <1>4, <3>3, <4>1, SettledSame DEF ControllerStep
    <3> QED
      BY <3>1, <3>2, <3>3
  <2> QED
    BY <2>1, <2>2, <2>3
<1> HIDE DEF ks
<1> QED
  BY <1>1, <1>2, <1>3, <1>4, <1>5, <1>6, ControllerKept

\* All active keys get a release.
LEMMA KeepReleaseAllVoices == ASSUME IInv, NEW c \in Chans, ReleaseAllVoices(c) PROVE IInv'
<1>1. /\ ControllerStep("notesOff", c) /\ UNCHANGED <<pedal, missed>>
      /\ key' = WithEvents(c, Active(c), "release")
  BY DEF ReleaseAllVoices, ControllerStep
<1>2. TypeOK /\ launch = NoLaunch /\ pedal \in [Chans -> PedalRecord] /\ missed' \in SUBSET Voices
      /\ Active(c) \subseteq Keys
      /\ (pedal' \in [Chans -> PedalRecord] /\ key' \in [Chans -> [Keys -> KeyRecord]] => TypeOK')
  BY <1>1, ControllerTypes
<1>3. /\ key' \in [Chans -> [Keys -> KeyRecord]] /\ SameThefts
      /\ \A d \in Chans, k \in Keys :
           /\ key'[d][k].pressed = key[d][k].pressed
           /\ SameEvents(d, k) \/ \E e \in {"on", "cancel", "release"} : Gains(d, k, Fresh(e))
           /\ d # c => SameEvents(d, k)
      /\ \A k \in Active(c) : Gains(c, k, Fresh("release"))
  BY <1>1, <1>2, WithEventsStep
<1>4. ASSUME NEW k \in Keys PROVE Settled(c, k)
  <2>1. CASE k \notin Active(c)
    BY <2>1, InactiveGivenUp DEF Settled
  <2>2. CASE k \in Active(c) /\ ~muted[c]
    BY <1>3, <2>2 DEF Settled
  <2>3. CASE muted[c]
    <3>1. ShouldReleaseVoice(c, k)' = ShouldReleaseVoice(c, k) /\ UNCHANGED stuck
      BY <1>1 DEF ShouldReleaseVoice, ControllerStep
    <3> QED
      BY <1>2, <1>3, <2>3, <3>1, SettledSame
  <2> QED
    BY <2>1, <2>2, <2>3
<1> QED
  BY <1>1, <1>2, <1>3, <1>4, ControllerKept

-----------------------------------------------------------------------------
(* Controllers that give up or kill voices *)

\* LoseThefts() marks the thefts on given keys and moves none.
LEMMA LoseTheftsFacts ==
  ASSUME TypeOK, NEW c, NEW ks, stolen' = LoseThefts(c, ks)
  PROVE  /\ stolen' \in Seq(QueuedTheft) /\ DOMAIN stolen' = DOMAIN stolen /\ Len(stolen') = Len(stolen)
         /\ \A i \in DOMAIN stolen :
              /\ SameTheft(i) /\ stolen'[i].note = stolen[i].note
              /\ stolen[i].chan = c /\ stolen[i].key \in ks => stolen'[i].lost
<1>1. stolen \in Seq(QueuedTheft) /\ \A i \in DOMAIN stolen : stolen[i] \in QueuedTheft
  BY Types
<1>2. ASSUME NEW t \in QueuedTheft
      PROVE  LET x == [t EXCEPT !.lost = @ \/ (t.chan = c /\ t.key \in ks)]
             IN  /\ x \in QueuedTheft /\ x.chan = t.chan /\ x.key = t.key /\ x.trigger = t.trigger
                 /\ x.note = t.note /\ (t.lost => x.lost) /\ (t.chan = c /\ t.key \in ks => x.lost)
  BY DEF QueuedTheft
<1>3. DOMAIN stolen' = DOMAIN stolen /\ \A i \in DOMAIN stolen :
        stolen'[i] = [stolen[i] EXCEPT !.lost = @ \/ (stolen[i].chan = c /\ stolen[i].key \in ks)]
  BY DEF LoseThefts
<1>4. \A i \in DOMAIN stolen :
        /\ stolen'[i] \in QueuedTheft /\ SameTheft(i) /\ stolen'[i].note = stolen[i].note
        /\ stolen[i].chan = c /\ stolen[i].key \in ks => stolen'[i].lost
  <2> SUFFICES ASSUME NEW i \in DOMAIN stolen
               PROVE  /\ stolen'[i] \in QueuedTheft /\ SameTheft(i) /\ stolen'[i].note = stolen[i].note
                      /\ stolen[i].chan = c /\ stolen[i].key \in ks => stolen'[i].lost
    OBVIOUS
  <2> DEFINE t == stolen[i]
             x == [t EXCEPT !.lost = @ \/ (t.chan = c /\ t.key \in ks)]
  <2>1. t \in QueuedTheft /\ stolen'[i] = x
    BY <1>1, <1>3
  <2>2. /\ x \in QueuedTheft /\ x.chan = t.chan /\ x.key = t.key /\ x.trigger = t.trigger
        /\ x.note = t.note /\ (t.lost => x.lost) /\ (t.chan = c /\ t.key \in ks => x.lost)
    <3> HIDE DEF t
    <3> QED
      BY <1>2, <2>1
  <2> HIDE DEF x
  <2> QED
    BY <2>1, <2>2 DEF SameTheft
<1>5. stolen' \in Seq(QueuedTheft) /\ Len(stolen') = Len(stolen)
  <2>1. DOMAIN stolen = 1..Len(stolen) /\ Len(stolen) \in Nat
    BY <1>1
  <2>2. stolen' = [i \in 1..Len(stolen) |-> stolen'[i]]
    BY <2>1 DEF LoseThefts
  <2>3. stolen' \in [1..Len(stolen) -> QueuedTheft]
    BY <1>4, <2>1, <2>2
  <2> QED
    BY <2>1, <2>3
<1> QED
  BY <1>3, <1>4, <1>5

\* No key gets a release: its voices, and those in the theft queue, miss it.
LEMMA KeepResetControllers == ASSUME IInv, NEW c \in Chans, ResetControllers(c) PROVE IInv'
<1>1. /\ Next1("reset") /\ c = chan /\ pedal' = [pedal EXCEPT ![c].sustain = FALSE, ![c].sostenuto = FALSE]
      /\ IF pedal[c].sustain \/ pedal[c].sostenuto
         THEN missed' = missed \cup ChannelSet(c) /\ stolen' = LoseThefts(c, Keys)
         ELSE UNCHANGED <<missed, stolen>>
      /\ UNCHANGED <<launch, spawnsLeft, lastStolen, lists, key, voice, solo, stuck, uncounted>>
  BY DEF ResetControllers
<1>2. /\ TypeOK /\ ReadTypes' /\ launch = NoLaunch /\ phase \in {"import", "process"}
      /\ pedal \in [Chans -> PedalRecord] /\ missed \in SUBSET Voices /\ ChannelSet(c) \subseteq Voices
  BY <1>1, Next1Types, TypeParts, Facts DEF IInv, ChannelFacts
<1>3. /\ pedal' \in [Chans -> PedalRecord] /\ ~pedal'[c].sustain /\ ~pedal'[c].sostenuto
      /\ \A d \in Chans : d # c => pedal'[d] = pedal[d]
  BY <1>1, <1>2, BothFalse, Zenon DEF Pedals
<1>4. /\ key' \in [Chans -> [Keys -> KeyRecord]] /\ SameThefts
      /\ \A d \in Chans, k \in Keys : /\ key'[d][k].pressed = key[d][k].pressed /\ SameEvents(d, k)
                                      /\ Grown(d, k)
  BY <1>1, <1>2, SameKeys, GrownFacts
<1>5. /\ stolen' \in Seq(QueuedTheft) /\ DOMAIN stolen' = DOMAIN stolen
      /\ \A i \in DOMAIN stolen : /\ SameTheft(i) /\ stolen'[i].note = stolen[i].note
                                  /\ pedal[c].sustain \/ pedal[c].sostenuto =>
                                       (stolen[i].chan = c => stolen'[i].lost)
  <2>1. CASE pedal[c].sustain \/ pedal[c].sostenuto
    <3>1. \A i \in DOMAIN stolen : stolen[i].key \in Keys
      BY <1>2, Types DEF QueuedTheft
    <3> QED
      BY <1>1, <1>2, <2>1, <3>1, LoseTheftsFacts
  <2>2. CASE ~ (pedal[c].sustain \/ pedal[c].sostenuto)
    BY <1>1, <1>2, <2>2, Types DEF SameTheft
  <2> QED
    BY <2>1, <2>2
<1>6. missed' \in SUBSET Voices /\ missed \subseteq missed'
  BY <1>1, <1>2
<1>7. TypeOK' /\ ListsInv' /\ SameVoices /\ LaunchInv'
      /\ \A d \in Chans, k \in Keys : NotesOn(d, k) \subseteq NotesOn(d, k)'
  <2>1. ListTypes' /\ UNCHANGED lists
    BY <1>1, <1>2, SameSets, TypeParts
  <2>2. TypeOK'
    BY <1>1, <1>2, <1>3, <1>4, <1>5, <1>6, <2>1, TypeParts, TypePartsNext
  <2> QED
    BY <1>1, <1>2, <2>1, <2>2, SameSets, ListsKept, NoLaunchInv DEF IInv, SameStates, SameVoices
<1>8. SpentInv'
  BY <1>1, <1>2, NoneSpent, TypeParts
<1>9. ASSUME NEW d \in Chans, NEW k \in Keys PROVE Settled(d, k)
  <2>1. CASE d = c /\ (pedal[c].sustain \/ pedal[c].sostenuto)
    <3>1. VoicesOn(c, k) \subseteq missed'
      BY <1>1, <2>1, Facts DEF Members, KeyFacts
    <3> QED
      BY <1>5, <2>1, <3>1 DEF Settled, GivenUp
  <2>2. CASE ~ (d = c /\ (pedal[c].sustain \/ pedal[c].sostenuto))
    <3>1. ShouldReleaseVoice(d, k)' => ShouldReleaseVoice(d, k)
      BY <1>1, <1>3, <2>2 DEF ShouldReleaseVoice
    <3> QED
      BY <1>1, <1>2, <1>4, <3>1, SettledSame
  <2> QED
    BY <2>1, <2>2
<1>10. \A d \in Chans, k \in Keys : key'[d][k].pressed /\ <<d, k>> \notin stuck' =>
          \/ key[d][k].pressed /\ <<d, k>> \notin stuck /\ (d = chan => Head(queue).event # Off(k))
          \/ d = chan /\ Head(queue).event = On(k)
  BY <1>1, <1>4, OtherEvent
<1>11. \A v \in Voices : /\ voice'[v].state = voice[v].state /\ voice'[v].env = voice[v].env
                         /\ voice'[v].trigger = voice[v].trigger
                         /\ voice[v].killed => voice'[v].killed
  BY <1>1
<1> QED
  BY <1>1, <1>4, <1>5, <1>6, <1>7, <1>8, <1>9, <1>10, <1>11, EventTaken

\* Steps that take an event, kill voices, and do nothing to the keys
LEMMA KillsKept ==
  ASSUME IInv, NEW t, Next1(t), t # "off", NEW vs, Kill(vs),
         spawnsLeft' \in Int, SpentInv', solo' \in [Chans -> SoloRecord],
         UNCHANGED <<launch, stolen, lastStolen, lists, key, pedal, stuck, uncounted, missed>>
  PROVE  IInv'
<1>1. TypeOK /\ ReadTypes' /\ launch = NoLaunch
  BY Next1Types DEF IInv
<1>2. /\ voice' \in [Voices -> Voice]
      /\ \A v \in Voices : /\ voice'[v].state = voice[v].state /\ voice'[v].env = voice[v].env
                           /\ voice'[v].trigger = voice[v].trigger
                           /\ voice[v].killed => voice'[v].killed
  BY <1>1, KillFacts
<1>3. /\ key' \in [Chans -> [Keys -> KeyRecord]] /\ SameThefts
      /\ \A d \in Chans, k \in Keys : /\ key'[d][k].pressed = key[d][k].pressed /\ SameEvents(d, k)
                                      /\ Grown(d, k)
  BY <1>1, SameKeys, GrownFacts
<1>4. ListTypes' /\ TypeOK' /\ LaunchInv'
  <2>1. ListTypes'
    BY <1>1, SameSets, TypeParts
  <2> QED
    BY <1>1, <1>2, <1>3, <2>1, TypeParts, TypePartsNext, NoLaunchInv
<1>5. ListsInv' /\ SameVoices /\ \A d \in Chans, k \in Keys : NotesOn(d, k) \subseteq NotesOn(d, k)'
  BY <1>2, SameSets, ListsKept DEF IInv, SameStates, SameVoices
<1>6. \A d \in Chans, k \in Keys : Settled(d, k)
  BY <1>1, <1>3, SettledSame DEF ShouldReleaseVoice
<1>7. DOMAIN stolen' = DOMAIN stolen /\ \A i \in DOMAIN stolen : SameTheft(i) /\ stolen'[i].note = stolen[i].note
  BY DEF SameTheft
<1>8. \A d \in Chans, k \in Keys : key'[d][k].pressed /\ <<d, k>> \notin stuck' =>
          \/ key[d][k].pressed /\ <<d, k>> \notin stuck /\ (d = chan => Head(queue).event # Off(k))
          \/ d = chan /\ Head(queue).event = On(k)
  BY <1>3, OtherEvent
<1> QED
  BY <1>2, <1>3, <1>4, <1>5, <1>6, <1>7, <1>8, EventTaken

\* KillAllVoices() subtracts every voice that it kills.
LEMMA KillAllSpent ==
  ASSUME IInv, NEW c \in Chans, KillAllVoices(c), phase \in {"import", "process"}, UNCHANGED uncounted
  PROVE  SpentInv' /\ spawnsLeft' \in Int
<1>1. ChannelVoices(c) \in Seq(Voices) /\ ChannelSet(c) \subseteq Voices
  BY Facts DEF ChannelFacts
<1>2. Cardinality(ChannelSet(c)) <= Len(ChannelVoices(c)) /\ IsFiniteSet(ChannelSet(c))
  BY <1>1, CountOfSeq DEF ChannelSet
<1>3. Cardinality(ChannelSet(c)) \in Nat /\ Len(ChannelVoices(c)) \in Nat /\ spawnsLeft \in Int
  BY <1>1, <1>2, FS_CardinalityType DEF IInv, TypeOK
<1>4. spawnsLeft' = spawnsLeft - Len(ChannelVoices(c)) /\ Kill(ChannelSet(c))
  BY DEF KillAllVoices
<1>5. spawnsLeft' \in Int /\ spawnsLeft' <= spawnsLeft - Cardinality(ChannelSet(c))
  BY <1>2, <1>3, <1>4
<1>6. /\ voice' \in [Voices -> Voice]
      /\ \A v \in Voices : /\ voice'[v].state = "init" => voice[v].state = "init" \/ v \in ChannelSet(c)
                           /\ voice'[v].killed => voice[v].killed \/ v \in ChannelSet(c) \/ v \in uncounted'
  BY <1>4, KillFacts DEF IInv
<1> QED
  BY <1>1, <1>5, <1>6, SpentKept

\* All Sound Off keeps the invariant.
LEMMA KeepAllSoundOff == ASSUME IInv, NEW c \in Chans, AllSoundOff(c) PROVE IInv'
<1>1. /\ Next1("soundOff") /\ KillAllVoices(c) /\ Kill(ChannelSet(c))
      /\ UNCHANGED <<launch, stolen, lastStolen, lists, key, pedal, solo, stuck, uncounted, missed>>
  BY DEF AllSoundOff, KillAllVoices
<1>2. phase \in {"import", "process"} /\ solo' \in [Chans -> SoloRecord]
  BY <1>1, Next1Types, TypeParts DEF IInv
<1>3. SpentInv' /\ spawnsLeft' \in Int
  BY <1>1, <1>2, KillAllSpent
<1> QED
  BY <1>1, <1>2, <1>3, KillsKept

\* Types of the solo mode.
LEMMA SoloTypes ==
  ASSUME solo \in [Chans -> SoloRecord], NEW c \in Chans
  PROVE  /\ \A b \in BOOLEAN : [solo EXCEPT ![c].on = b] \in [Chans -> SoloRecord]
         /\ \A k \in Keys \cup {NoKey} : [solo EXCEPT ![c].key = k] \in [Chans -> SoloRecord]
         /\ solo[c].key \in Keys \cup {NoKey} /\ solo[c].on \in BOOLEAN
BY DEF SoloRecord

\* A change between mono and poly mode keeps the invariant.
LEMMA KeepSoloMode == ASSUME IInv, NEW c \in Chans, NEW t \in {"mono", "poly"}, SoloMode(c, t) PROVE IInv'
<1>1. /\ Next1(t) /\ solo' = [solo EXCEPT ![c].on = (t = "mono")]
      /\ IF solo[c].on = (t = "mono") THEN UNCHANGED <<voice, spawnsLeft>> ELSE KillAllVoices(c)
      /\ UNCHANGED <<launch, stolen, lastStolen, lists, key, pedal, stuck, uncounted, missed>>
  BY DEF SoloMode
<1>2. phase \in {"import", "process"} /\ solo \in [Chans -> SoloRecord] /\ voice \in [Voices -> Voice]
      /\ spawnsLeft \in Int
  BY <1>1, Next1Types, TypeParts DEF IInv
<1>3. solo' \in [Chans -> SoloRecord]
  <2>1. (t = "mono") \in BOOLEAN
    OBVIOUS
  <2> QED
    BY <1>1, <1>2, <2>1, SoloTypes
<1>4. \E vs : Kill(vs) /\ SpentInv' /\ spawnsLeft' \in Int
  <2>1. CASE KillAllVoices(c)
    BY <1>1, <1>2, <2>1, KillAllSpent DEF KillAllVoices
  <2>2. CASE UNCHANGED <<voice, spawnsLeft>>
    <3>1. Kill({})
      <4>1. \A v \in Voices : [voice[v] EXCEPT !.killed = @ \/ (v \in {} /\ IsKilled(v))] = voice[v]
        BY <1>2 DEF Voice
      <4> QED
        BY <1>2, <2>2, <4>1 DEF Kill
    <3>2. SpentInv'
      BY <1>1, <1>2, <2>2, NoneSpent
    <3> QED
      BY <1>2, <2>2, <3>1, <3>2
  <2> QED
    BY <1>1, <2>1, <2>2
<1>5. t # "off"
  OBVIOUS
<1> QED
  BY <1>1, <1>3, <1>4, <1>5, KillsKept

-----------------------------------------------------------------------------
(* Notes: note-on and note-off events, and the import of events *)

\* The key that is pressed or released, and the others
Unpressed(f, c, k) == [f EXCEPT ![c][k].pressed = FALSE]

\* Only the record of the released key changes.
LEMMA PressedFacts ==
  ASSUME NEW f, f \in [Chans -> [Keys -> KeyRecord]], NEW c \in Chans, NEW k \in Keys
  PROVE  /\ Unpressed(f, c, k) \in [Chans -> [Keys -> KeyRecord]] /\ ~Unpressed(f, c, k)[c][k].pressed
         /\ Unpressed(f, c, k)[c][k].thefts = f[c][k].thefts
         /\ Unpressed(f, c, k)[c][k].events = f[c][k].events
         /\ \A d \in Chans, l \in Keys : d # c \/ l # k => Unpressed(f, c, k)[d][l] = f[d][l]
<1> DEFINE r == f[c][k]
           x == [r EXCEPT !.pressed = FALSE]
           g == Unpressed(f, c, k)
<1>1. f[c] \in [Keys -> KeyRecord] /\ r \in KeyRecord
  OBVIOUS
<1>2. x \in KeyRecord /\ ~x.pressed /\ x.thefts = r.thefts /\ x.events = r.events
  <2> HIDE DEF r
  <2> QED
    BY <1>1 DEF KeyRecord
<1>3. g = [f EXCEPT ![c] = [f[c] EXCEPT ![k] = x]]
  BY DEF Unpressed
<1> HIDE DEF x, g
<1>4. [f[c] EXCEPT ![k] = x] \in [Keys -> KeyRecord]
  BY <1>1, <1>2
<1>5. g \in [Chans -> [Keys -> KeyRecord]] /\ g[c][k] = x
  BY <1>1, <1>3, <1>4
<1>6. \A d \in Chans, l \in Keys : d # c \/ l # k => g[d][l] = f[d][l]
  BY <1>1, <1>3
<1> QED
  BY <1>2, <1>5, <1>6 DEF g

\* A note that is not on the lists goes to the list of a key.
LEMMA LaunchNoteFacts ==
  ASSUME ListTypes, ListsInv, NEW c \in Chans, NEW k \in Keys, NEW n \in FreeNotes,
         LaunchNewNote(c, k, n), UNCHANGED <<voices, voice>>
  PROVE  /\ ListTypes' /\ ListsInv' /\ SameVoices /\ n \in Notes /\ n \in NotesOn(c, k)'
         /\ \A d \in Chans, l \in Keys : NotesOn(d, l) \subseteq NotesOn(d, l)'
<1>1. SetFacts /\ KeyFacts /\ Members
  BY ListFacts, MembersOfLists
<1>2. n \in Notes /\ \A d \in Chans, l \in Keys : n \notin NotesOn(d, l)
  BY DEF FreeNotes, NotesOn
<1>3. VoicesOf(n) = {}
  BY <1>2 DEF ListsInv
<1>4. /\ notes' = [notes EXCEPT ![c][k] = Append(@, n)]
      /\ active' = [active EXCEPT ![c] = IF k \in Active(c) THEN @ ELSE Append(@, k)]
  BY DEF LaunchNewNote
<1>5. /\ notes[c] \in [Keys -> Seq(Notes)] /\ notes[c][k] \in Seq(Notes) /\ active[c] \in Seq(Keys)
      /\ Append(notes[c][k], n) \in Seq(Notes) /\ Append(active[c], k) \in Seq(Keys)
  BY <1>2 DEF ListTypes
<1>6. /\ notes'[c][k] = Append(notes[c][k], n)
      /\ \A d \in Chans, l \in Keys : <<d, l>> # <<c, k>> => notes'[d][l] = notes[d][l]
      /\ active'[c] = IF k \in Active(c) THEN active[c] ELSE Append(active[c], k)
      /\ \A d \in Chans : d # c => active'[d] = active[d]
  BY <1>4 DEF ListTypes
<1>7. ListTypes'
  <2>1. [notes[c] EXCEPT ![k] = Append(notes[c][k], n)] \in [Keys -> Seq(Notes)]
    BY <1>5
  <2>2. notes' = [notes EXCEPT ![c] = [notes[c] EXCEPT ![k] = Append(notes[c][k], n)]]
    BY <1>4
  <2>3. notes' \in [Chans -> [Keys -> Seq(Notes)]]
    BY <2>1, <2>2 DEF ListTypes
  <2>4. active' \in [Chans -> Seq(Keys)]
    BY <1>4, <1>5 DEF ListTypes
  <2> QED
    BY <2>3, <2>4 DEF ListTypes
<1>8. /\ NotesOn(c, k)' = NotesOn(c, k) \cup {n}
      /\ \A d \in Chans, l \in Keys : <<d, l>> # <<c, k>> => NotesOn(d, l)' = NotesOn(d, l)
      /\ Active(c)' = Active(c) \cup {k} /\ \A d \in Chans : d # c => Active(d)' = Active(d)
  <2>1. ToSet(Append(notes[c][k], n)) = ToSet(notes[c][k]) \cup {n}
    BY <1>2, <1>5, AppendByIndex
  <2>2. ToSet(Append(active[c], k)) = ToSet(active[c]) \cup {k}
    BY <1>5, AppendByIndex
  <2> QED
    BY <1>6, <2>1, <2>2 DEF NotesOn, Active
<1>9. /\ \A d \in Chans : Distinct(active'[d])
      /\ \A d \in Chans, l \in Keys : Distinct(notes'[d][l])
  <2>1. \A d \in Chans : Distinct(active'[d])
    BY <1>5, <1>6, DistinctAppend DEF ListsInv, Active
  <2>2. Distinct(notes'[c][k])
    BY <1>2, <1>5, <1>6, DistinctAppend DEF ListsInv, NotesOn
  <2>3. ASSUME NEW d \in Chans, NEW l \in Keys PROVE Distinct(notes'[d][l])
    <3>1. CASE d = c /\ l = k
      BY <2>2, <3>1
    <3>2. CASE ~ (d = c /\ l = k)
      <4>1. notes'[d][l] = notes[d][l]
        BY <1>6, <3>2
      <4> QED
        BY <4>1 DEF ListsInv
    <3> QED
      BY <3>1, <3>2
  <2> QED
    BY <2>1, <2>3
<1>10. \A d \in Chans, l \in Keys : NotesOn(d, l)' # {} => l \in Active(d)'
  BY <1>8 DEF ListsInv
<1>11. \A d, e \in Chans, l, m \in Keys : \A x \in NotesOn(d, l)' \cap NotesOn(e, m)' : d = e /\ l = m
  <2> SUFFICES ASSUME NEW d \in Chans, NEW e \in Chans, NEW l \in Keys, NEW m \in Keys,
                      NEW x, x \in NotesOn(d, l)', x \in NotesOn(e, m)'
               PROVE  d = e /\ l = m
    OBVIOUS
  <2>1. CASE x = n
    BY <1>2, <1>8, <2>1
  <2>2. CASE x # n
    BY <1>8, <2>2 DEF ListsInv
  <2> QED
    BY <2>1, <2>2
<1>12. \A x \in Notes : /\ VoicesOf(x)' = VoicesOf(x) /\ Distinct(voices'[x])
                        /\ VoicesOf(x)' # {} => \E d \in Chans, l \in Keys : x \in NotesOn(d, l)'
  <2>1. \A x \in Notes : VoicesOf(x)' = VoicesOf(x)
    BY DEF VoicesOf
  <2>2. \A d \in Chans, l \in Keys : NotesOn(d, l) \subseteq NotesOn(d, l)'
    BY <1>8
  <2> QED
    BY <2>1, <2>2 DEF ListsInv
<1>13. ListsInv'
  <2>1. /\ \A x, y \in Notes : \A v \in VoicesOf(x)' \cap VoicesOf(y)' : x = y
        /\ \A v \in Voices : voice'[v].state # "free" <=> \E x \in Notes : v \in VoicesOf(x)'
    BY <1>12 DEF ListsInv
  <2> QED
    BY <1>9, <1>10, <1>11, <1>12, <2>1 DEF ListsInv
<1>14. SameVoices
  <2>1. KeyFacts'
    BY <1>7, ListFactsNext
  <2>2. \A d \in Chans, l \in Keys : VoicesOn(d, l)' = UNION {VoicesOf(x)' : x \in NotesOn(d, l)'}
    BY <2>1 DEF KeyFacts
  <2>3. \A d \in Chans, l \in Keys : VoicesOn(d, l) = UNION {VoicesOf(x) : x \in NotesOn(d, l)}
    BY <1>1 DEF KeyFacts
  <2>4. ASSUME NEW d \in Chans, NEW l \in Keys PROVE VoicesOn(d, l)' = VoicesOn(d, l)
    <3>1. NotesOn(d, l) \subseteq NotesOn(d, l)' /\ NotesOn(d, l)' \subseteq NotesOn(d, l) \cup {n}
          /\ NotesOn(d, l) \subseteq Notes
      BY <1>1, <1>8 DEF SetFacts
    <3>2. \A x \in NotesOn(d, l)' : VoicesOf(x)' = VoicesOf(x)
      BY <1>2, <1>12, <3>1
    <3>3. VoicesOn(d, l)' = UNION {VoicesOf(x)' : x \in NotesOn(d, l)'}
          /\ VoicesOn(d, l) = UNION {VoicesOf(x) : x \in NotesOn(d, l)}
      BY <2>2, <2>3
    <3>4. VoicesOf(n)' = {}
      BY <1>2, <1>3, <1>12
    <3>5. \A v : v \in VoicesOn(d, l)' <=> \E x \in NotesOn(d, l)' : v \in VoicesOf(x)'
      BY <3>3
    <3>6. \A v : v \in VoicesOn(d, l) <=> \E x \in NotesOn(d, l) : v \in VoicesOf(x)
      BY <3>3
    <3>7. \A v : v \in VoicesOn(d, l)' <=> v \in VoicesOn(d, l)
      BY <3>1, <3>2, <3>4, <3>5, <3>6
    <3> QED
      BY <3>7
  <2> QED
    BY <2>4 DEF SameVoices
<1> QED
  BY <1>2, <1>7, <1>8, <1>13, <1>14

\* A note-off event keeps the invariant: the key gets a release or is held.
LEMMA KeepReleaseKey == ASSUME IInv, NEW c \in Chans, NEW k \in Keys, ReleaseKey(c, k) PROVE IInv'
<1> DEFINE base == IF k \in Active(c) /\ ShouldReleaseVoice(c, k)
                   THEN WithEvents(c, {k}, "release") ELSE key
<1>1. /\ Next1("off") /\ c = chan /\ k = Head(queue).event.key /\ ~muted[c]
      /\ stuck' = stuck \ {<<c, k>>}
      /\ solo' = [solo EXCEPT ![c].key = IF solo[c].on /\ @ = k THEN NoKey ELSE @]
      /\ key' = [base EXCEPT ![c][k].pressed = FALSE]
      /\ UNCHANGED <<launch, stealing, lists, voice, pedal, uncounted, missed>>
  BY Zenon DEF ReleaseKey
<1>2. TypeOK /\ ReadTypes' /\ launch = NoLaunch /\ key \in [Chans -> [Keys -> KeyRecord]]
      /\ solo \in [Chans -> SoloRecord] /\ Head(queue).event \in Message
  BY <1>1, Next1Types, TypeParts DEF IInv
<1>3. /\ base \in [Chans -> [Keys -> KeyRecord]]
      /\ \A d \in Chans, l \in Keys :
           /\ base[d][l].pressed = key[d][l].pressed /\ base[d][l].thefts = key[d][l].thefts
           /\ base[d][l].events = IF <<d, l>> = <<c, k>> /\ k \in Active(c) /\ ShouldReleaseVoice(c, k)
                THEN Append(key[d][l].events, Fresh("release")) ELSE key[d][l].events
  <2>1. CASE k \in Active(c) /\ ShouldReleaseVoice(c, k)
    <3>1. base = WithEvents(c, {k}, "release")
      BY <2>1
    <3>2. Appended(WithEvents(c, {k}, "release"), c, k, "release")
      BY <1>2, WithEventsOf
    <3> HIDE DEF base
    <3>3. Appended(base, c, k, "release")
      BY <3>1, <3>2
    <3>4. \A d, l : <<d, l>> = <<c, k>> <=> d = c /\ l = k
      OBVIOUS
    <3> QED
      BY <2>1, <3>3, <3>4 DEF Appended
  <2>2. CASE ~ (k \in Active(c) /\ ShouldReleaseVoice(c, k))
    BY <1>2, <2>2
  <2> QED
    BY <2>1, <2>2
<1> HIDE DEF base
<1>4. /\ key' \in [Chans -> [Keys -> KeyRecord]] /\ ~key'[c][k].pressed
      /\ key'[c][k].thefts = base[c][k].thefts /\ key'[c][k].events = base[c][k].events
      /\ \A d \in Chans, l \in Keys : d # c \/ l # k => key'[d][l] = base[d][l]
  <2>1. key' = Unpressed(base, c, k)
    BY <1>1 DEF Unpressed
  <2>2. base \in [Chans -> [Keys -> KeyRecord]]
    BY <1>3
  <2> QED
    BY <2>1, <2>2, PressedFacts
<1>5. \A d \in Chans, l \in Keys :
        /\ key'[d][l].thefts = key[d][l].thefts
        /\ key'[d][l].pressed => key[d][l].pressed /\ <<d, l>> # <<c, k>>
        /\ <<d, l>> # <<c, k>> => SameEvents(d, l) /\ key'[d][l].pressed = key[d][l].pressed
        /\ SameEvents(d, l) \/ Gains(d, l, Fresh("release"))
        /\ k \in Active(c) /\ ShouldReleaseVoice(c, k) => Gains(c, k, Fresh("release"))
  <2> SUFFICES ASSUME NEW d \in Chans, NEW l \in Keys
               PROVE  /\ key'[d][l].thefts = key[d][l].thefts
                      /\ key'[d][l].pressed => key[d][l].pressed /\ <<d, l>> # <<c, k>>
                      /\ <<d, l>> # <<c, k>> => SameEvents(d, l) /\ key'[d][l].pressed = key[d][l].pressed
                      /\ SameEvents(d, l) \/ Gains(d, l, Fresh("release"))
                      /\ k \in Active(c) /\ ShouldReleaseVoice(c, k) => Gains(c, k, Fresh("release"))
    OBVIOUS
  <2>1. k \in Active(c) /\ ShouldReleaseVoice(c, k) => Gains(c, k, Fresh("release"))
    BY <1>3, <1>4 DEF Gains
  <2>2. CASE d = c /\ l = k
    BY <1>3, <1>4, <2>1, <2>2 DEF SameEvents, Gains
  <2>3. CASE ~ (d = c /\ l = k)
    <3>1. key'[d][l] = base[d][l]
      BY <1>4, <2>3
    <3> QED
      BY <1>3, <2>1, <2>3, <3>1 DEF SameEvents, Gains
  <2> QED
    BY <2>2, <2>3
<1>6. TypeOK'
  <2>1. solo' \in [Chans -> SoloRecord]
    <3>1. (IF solo[c].on /\ solo[c].key = k THEN NoKey ELSE solo[c].key) \in Keys \cup {NoKey}
      BY <1>2, SoloTypes
    <3>2. solo' = [solo EXCEPT ![c].key = IF solo[c].on /\ solo[c].key = k THEN NoKey ELSE solo[c].key]
      BY <1>1
    <3> QED
      BY <1>2, <3>1, <3>2, SoloTypes
  <2>2. ListTypes' /\ stuck' \subseteq Chans \X Keys
    BY <1>1, <1>2, SameSets, TypeParts
  <2> QED
    BY <1>1, <1>2, <1>4, <2>1, <2>2, TypeParts, TypePartsNext DEF stealing
<1>7. ASSUME NEW d \in Chans, NEW l \in Keys PROVE Settled(d, l)
  <2>1. UNCHANGED ShouldReleaseVoice(d, l)
    BY <1>1 DEF ShouldReleaseVoice
  <2>2. CASE d = c /\ l = k
    <3>1. CASE ~ShouldReleaseVoice(c, k)
      BY <2>1, <2>2, <3>1 DEF Settled, MayHang
    <3>2. CASE k \notin Active(c)
      BY <2>2, <3>2, InactiveGivenUp DEF Settled
    <3>3. CASE k \in Active(c) /\ ShouldReleaseVoice(c, k)
      BY <1>1, <1>5, <2>2, <3>3 DEF Settled
    <3> QED
      BY <3>1, <3>2, <3>3
  <2>3. CASE ~ (d = c /\ l = k)
    <3>1. <<d, l>> # <<c, k>>
      BY <2>3
    <3>2. SameEvents(d, l) /\ key'[d][l].pressed = key[d][l].pressed
      BY <1>5, <3>1
    <3>3. <<d, l>> \in stuck => <<d, l>> \in stuck'
      BY <1>1, <3>1
    <3>4. ShouldReleaseVoice(d, l)' => ShouldReleaseVoice(d, l)
      BY <2>1
    <3> QED
      BY <1>2, <3>2, <3>3, <3>4, SettledSame
  <2> QED
    BY <2>2, <2>3
<1>8. \A d \in Chans, l \in Keys : key'[d][l].pressed /\ <<d, l>> \notin stuck' =>
         key[d][l].pressed /\ <<d, l>> \notin stuck /\ (d = chan => Head(queue).event # Off(l))
  <2> SUFFICES ASSUME NEW d \in Chans, NEW l \in Keys, key'[d][l].pressed, <<d, l>> \notin stuck'
               PROVE  key[d][l].pressed /\ <<d, l>> \notin stuck /\ (d = chan => Head(queue).event # Off(l))
    OBVIOUS
  <2>1. key[d][l].pressed /\ <<d, l>> # <<c, k>>
    BY <1>5
  <2>2. d = chan => Head(queue).event # Off(l)
    BY <1>1, <1>2, <2>1, OnOff
  <2> QED
    BY <1>1, <2>1, <2>2
<1>9. SameThefts /\ \A d \in Chans, l \in Keys :
        SameEvents(d, l) \/ \E e \in {"on", "cancel", "release"} : Gains(d, l, Fresh(e))
  BY <1>5 DEF SameThefts
<1> QED
  BY <1>1, <1>6, <1>7, <1>8, <1>9, OnlyEvents

\* The record of a key that is pressed, with one or two more events.
LEMMA RecordPressed ==
  ASSUME NEW r \in KeyRecord, NEW e \in Event, NEW f \in Event
  PROVE  LET x == [r EXCEPT !.pressed = TRUE, !.events = Append(@, e)]
             y == [x EXCEPT !.events = Append(@, f)]
         IN  /\ x \in KeyRecord /\ x.pressed /\ x.thefts = r.thefts /\ x.events = Append(r.events, e)
             /\ y \in KeyRecord /\ y.pressed /\ y.thefts = r.thefts
             /\ y.events = Append(Append(r.events, e), f)
<1> DEFINE p == [r EXCEPT !.pressed = TRUE]
           x == [r EXCEPT !.pressed = TRUE, !.events = Append(@, e)]
           y == [x EXCEPT !.events = Append(@, f)]
<1>1. p \in KeyRecord /\ p.pressed /\ p.thefts = r.thefts /\ p.events = r.events
  BY DEF KeyRecord
<1>2. x = [p EXCEPT !.events = Append(p.events, e)]
  OBVIOUS
<1>3. p.events \in Seq(Event) /\ Append(p.events, e) \in Seq(Event)
  BY <1>1 DEF KeyRecord
<1> HIDE DEF p, x
<1>4. x \in KeyRecord /\ x.events = Append(p.events, e) /\ x.pressed = p.pressed /\ x.thefts = p.thefts
  BY <1>1, <1>2, <1>3, HeldExcept
<1>5. y = [x EXCEPT !.events = Append(x.events, f)] /\ Append(x.events, f) \in Seq(Event)
  BY <1>3, <1>4
<1> HIDE DEF y
<1>6. y \in KeyRecord /\ y.events = Append(x.events, f) /\ y.pressed = x.pressed /\ y.thefts = x.thefts
  BY <1>4, <1>5, HeldExcept
<1>7. /\ x \in KeyRecord /\ x.pressed /\ x.thefts = r.thefts /\ x.events = Append(r.events, e)
      /\ y \in KeyRecord /\ y.pressed /\ y.thefts = r.thefts
      /\ y.events = Append(Append(r.events, e), f)
  BY <1>1, <1>4, <1>6
<1> QED
  BY <1>7 DEF x, y

\* What a note-on event does to its key
LEMMA NoteOnKeys ==
  ASSUME IInv, NEW c \in Chans, NEW k \in Keys, ProcessNoteOn(c, k)
  PROVE  /\ key' \in [Chans -> [Keys -> KeyRecord]]
         /\ key'[c][k].pressed /\ key'[c][k].thefts = key[c][k].thefts
         /\ Grown(c, k) /\ Len(key[c][k].events) + 1 <= Len(key'[c][k].events)
         /\ \A d \in Chans, l \in Keys : d # c \/ l # k => key'[d][l] = key[d][l]
<1> DEFINE r == key[c][k]
           on == Fresh("on")
           cancel == Fresh("cancel")
           x == [r EXCEPT !.pressed = TRUE, !.events = Append(@, on)]
           y == [x EXCEPT !.events = Append(@, cancel)]
           z == IF k \in Active(c) /\ ~pedal[c].sustain THEN y ELSE x
<1>1. key' = [key EXCEPT ![c][k] = z]
  BY DEF ProcessNoteOn, Fresh
<1>2. key \in [Chans -> [Keys -> KeyRecord]] /\ r \in KeyRecord
  BY TypeParts DEF IInv
<1>3. on \in Event /\ cancel \in Event /\ on.fresh /\ cancel.fresh
  BY DEF Fresh, Event
<1>4. /\ x \in KeyRecord /\ x.pressed /\ x.thefts = r.thefts /\ x.events = Append(r.events, on)
      /\ y \in KeyRecord /\ y.pressed /\ y.thefts = r.thefts
      /\ y.events = Append(Append(r.events, on), cancel)
  <2>1. r \in KeyRecord /\ on \in Event /\ cancel \in Event
    BY <1>2, <1>3
  <2> HIDE DEF r, on, cancel
  <2> QED
    BY <2>1, RecordPressed, Zenon
<1> HIDE DEF x, y, z
<1>5. z \in KeyRecord
  BY <1>4 DEF z
<1>6. /\ key' \in [Chans -> [Keys -> KeyRecord]] /\ key'[c][k] = z
      /\ \A d \in Chans, l \in Keys : d # c \/ l # k => key'[d][l] = key[d][l]
  <2>1. key' = [key EXCEPT ![c] = [key[c] EXCEPT ![k] = z]]
    BY <1>1
  <2>2. [key[c] EXCEPT ![k] = z] \in [Keys -> KeyRecord]
    BY <1>2, <1>5
  <2> QED
    BY <1>2, <2>1, <2>2
<1>7. z.pressed /\ z.thefts = r.thefts
  BY <1>4 DEF z
<1>8. r.events \in Seq(Event) /\ Len(r.events) \in Nat
  BY <1>2 DEF KeyRecord
<1> DEFINE es == r.events
           a == Append(es, on)
           b == Append(a, cancel)
<1>9. /\ a \in Seq(Event) /\ Len(a) = Len(es) + 1 /\ DOMAIN a = 1..Len(es) + 1 /\ DOMAIN es = 1..Len(es)
      /\ (\A j \in 1..Len(es) : a[j] = es[j]) /\ a[Len(es) + 1] = on
      /\ b \in Seq(Event) /\ Len(b) = Len(a) + 1 /\ DOMAIN b = 1..Len(a) + 1
      /\ (\A j \in 1..Len(a) : b[j] = a[j]) /\ b[Len(a) + 1] = cancel
  <2> HIDE DEF es, on, cancel
  <2>1. es \in Seq(Event) /\ DOMAIN es = 1..Len(es)
    BY <1>8 DEF es
  <2>2. a \in Seq(Event) /\ Len(a) = Len(es) + 1 /\ DOMAIN a = 1..Len(es) + 1
        /\ (\A j \in 1..Len(es) : a[j] = es[j]) /\ a[Len(es) + 1] = on
    BY <1>3, <2>1, AppendByIndex
  <2> HIDE DEF a
  <2>3. b \in Seq(Event) /\ Len(b) = Len(a) + 1 /\ DOMAIN b = 1..Len(a) + 1
        /\ (\A j \in 1..Len(a) : b[j] = a[j]) /\ b[Len(a) + 1] = cancel
    BY <1>3, <2>2, AppendByIndex
  <2> QED
    BY <2>1, <2>2, <2>3
<1> HIDE DEF a, b, on, cancel
<1>10. z.events = a \/ z.events = b
  BY <1>4 DEF z, a, b
<1>11. /\ \A j \in DOMAIN a : (j \in DOMAIN es /\ a[j] = es[j]) \/ a[j].fresh
       /\ \A j \in DOMAIN b : (j \in DOMAIN es /\ b[j] = es[j]) \/ b[j].fresh
  <2>1. ASSUME NEW j \in DOMAIN a PROVE (j \in DOMAIN es /\ a[j] = es[j]) \/ a[j].fresh
    <3>1. j \in 1..Len(es) \/ j = Len(es) + 1
      BY <1>8, <1>9
    <3> QED
      BY <1>3, <1>9, <3>1
  <2>2. ASSUME NEW j \in DOMAIN b PROVE (j \in DOMAIN es /\ b[j] = es[j]) \/ b[j].fresh
    <3>1. (j \in DOMAIN a /\ b[j] = a[j]) \/ j = Len(a) + 1
      <4>1. Len(a) \in Nat /\ DOMAIN a = 1..Len(a) /\ j \in 1..(Len(a) + 1)
        BY <1>8, <1>9
      <4> QED
        BY <1>9, <4>1
    <3> QED
      BY <1>3, <1>9, <2>1, <3>1
  <2> QED
    BY <2>1, <2>2
<1>12. Grown(c, k) /\ Len(key[c][k].events) + 1 <= Len(key'[c][k].events)
  <2> DEFINE n == z.events
  <2> HIDE DEF es
  <2>1. /\ n \in Seq(Event) /\ Len(n) >= Len(es) + 1 /\ Len(es) <= Len(n)
        /\ \A j \in DOMAIN n : (j \in DOMAIN es /\ n[j] = es[j]) \/ n[j].fresh
    <3>1. /\ a \in Seq(Event) /\ Len(a) >= Len(es) + 1 /\ Len(es) <= Len(a)
          /\ b \in Seq(Event) /\ Len(b) >= Len(es) + 1 /\ Len(es) <= Len(b)
      <4>1. Len(es) \in Nat
        BY <1>8 DEF es
      <4> QED
        BY <1>9, <4>1
    <3>2. n = a \/ n = b
      BY <1>10
    <3> HIDE DEF n
    <3> QED
      BY <1>11, <3>1, <3>2
  <2> QED
    BY <1>6, <2>1 DEF Grown, es
<1> QED
  BY <1>6, <1>7, <1>12

\* A note-on event keeps the invariant: its key is pressed.
LEMMA KeepProcessNoteOn == ASSUME IInv, NEW c \in Chans, NEW k \in Keys, ProcessNoteOn(c, k) PROVE IInv'
<1>1. /\ Next1("on") /\ c = chan /\ k = Head(queue).event.key /\ ~muted[c]
      /\ Kill(SoloKilled(c))
      /\ uncounted' = uncounted \cup {v \in SoloKilled(c) : IsKilled(v)}
      /\ solo' = [solo EXCEPT ![c].key = IF solo[c].on THEN k ELSE @]
      /\ stuck' = stuck \ {<<c, k>>}
      /\ launch' = IF Layers[k] = 0 THEN NoLaunch
                   ELSE [key |-> k, note |-> Head(queue).note, left |-> Layers[k],
                         trigger |-> Len(key[c][k].events) + 1, kill |-> NoKey]
      /\ UNCHANGED <<stealing, lists, pedal, missed>>
  BY Zenon DEF ProcessNoteOn
<1>2. /\ TypeOK /\ ReadTypes' /\ launch = NoLaunch /\ phase \in {"import", "process"}
      /\ UNCHANGED <<chan, muted>>
      /\ solo \in [Chans -> SoloRecord] /\ Head(queue).event \in Message /\ Head(queue).event.type = "on"
  BY <1>1, Next1Types, TypeParts DEF IInv
<1>3. Head(queue).event = On(k)
  BY <1>1, <1>2, OnOff
<1>4. /\ key' \in [Chans -> [Keys -> KeyRecord]]
      /\ key'[c][k].pressed /\ key'[c][k].thefts = key[c][k].thefts
      /\ Grown(c, k) /\ Len(key[c][k].events) + 1 <= Len(key'[c][k].events)
      /\ \A d \in Chans, l \in Keys : d # c \/ l # k => key'[d][l] = key[d][l]
  BY NoteOnKeys
<1>5. \A d \in Chans, l \in Keys :
        /\ key'[d][l].thefts = key[d][l].thefts /\ Grown(d, l)
        /\ d # c \/ l # k => SameEvents(d, l) /\ key'[d][l].pressed = key[d][l].pressed
  <2> SUFFICES ASSUME NEW d \in Chans, NEW l \in Keys
               PROVE  /\ key'[d][l].thefts = key[d][l].thefts /\ Grown(d, l)
                      /\ d # c \/ l # k => SameEvents(d, l) /\ key'[d][l].pressed = key[d][l].pressed
    OBVIOUS
  <2>1. d # c \/ l # k => SameEvents(d, l) /\ key'[d][l].pressed = key[d][l].pressed
    BY <1>4 DEF SameEvents
  <2>2. Grown(d, l)
    BY <1>2, <1>4, <2>1, GrownFacts
  <2> QED
    BY <1>4, <2>1, <2>2
<1>6. /\ voice' \in [Voices -> Voice]
      /\ \A v \in Voices : /\ voice'[v].state = voice[v].state /\ voice'[v].env = voice[v].env
                           /\ voice'[v].trigger = voice[v].trigger
                           /\ voice[v].killed => voice'[v].killed
                           /\ voice'[v].killed => voice[v].killed \/ v \in uncounted'
  BY <1>1, <1>2, KillFacts
<1>7. SoloKilled(c) \subseteq Voices
  <2>1. active[c] # <<>> => Last(active[c]) \in Keys
    BY Facts DEF ListTypes, Last
  <2>2. Youngest(c) \subseteq Voices
    BY <2>1, Facts DEF Youngest, KeyFacts
  <2> QED
    BY <2>2 DEF SoloKilled
<1>8. /\ 1 \in DOMAIN queue /\ Head(queue) = queue[1] /\ Head(queue).note \in Notes \cup {NoNote}
      /\ Head(queue).note \in NotesOn(c, k)
  <2>1. 1 \in DOMAIN queue /\ Head(queue) = queue[1] /\ Head(queue) \in Queued
    BY <1>1, <1>2, TailFacts DEF Next1
  <2> QED
    BY <1>1, <1>2, <2>1 DEF Queued, IInv, WorkInv
<1>9. Layers[k] \in Nat /\ Len(key[c][k].events) \in Nat
  BY <1>2, Types, VoiceAllocationAssumption
<1>10. launch' \in LaunchRecord
  <2>1. NoLaunch \in LaunchRecord
    BY <1>1, <1>2, Next1Types
  <2>2. launch' = NoLaunch \/
        launch' = [key |-> k, note |-> Head(queue).note, left |-> Layers[k],
                   trigger |-> Len(key[c][k].events) + 1, kill |-> NoKey]
    BY <1>1
  <2>3. Len(key[c][k].events) + 1 \in Nat
    BY <1>9
  <2> QED
    BY <1>8, <1>9, <2>1, <2>2, <2>3 DEF LaunchRecord
<1>11. solo' \in [Chans -> SoloRecord]
  <2>1. (IF solo[c].on THEN k ELSE solo[c].key) \in Keys \cup {NoKey}
    BY <1>2, SoloTypes
  <2>2. solo' = [solo EXCEPT ![c].key = IF solo[c].on THEN k ELSE solo[c].key]
    BY <1>1
  <2> QED
    BY <1>2, <2>1, <2>2, SoloTypes
<1>12. TypeOK'
  <2>1. ListTypes' /\ stuck' \subseteq Chans \X Keys /\ uncounted' \in SUBSET Voices
    BY <1>1, <1>2, <1>7, SameSets, TypeParts
  <2> QED
    BY <1>1, <1>2, <1>4, <1>6, <1>10, <1>11, <2>1, TypeParts, TypePartsNext DEF stealing
<1>13. ListsInv' /\ SameVoices /\ \A d \in Chans, l \in Keys : NotesOn(d, l) \subseteq NotesOn(d, l)'
  BY <1>1, <1>6, SameSets, ListsKept DEF IInv, SameStates, SameVoices
<1>14. LaunchInv'
  <2>1. CASE Layers[k] = 0
    BY <1>1, <2>1, NoLaunchInv
  <2>2. CASE Layers[k] # 0
    <3>1. /\ launch'.key = k /\ launch'.note = Head(queue).note /\ launch'.left > 0
          /\ launch'.trigger = Len(key[c][k].events) + 1
      BY <1>1, <1>9, <2>2
    <3>2. /\ launch'.trigger <= Len(key'[c][k].events)
          /\ \A j \in DOMAIN key'[c][k].events : j > launch'.trigger => key'[c][k].events[j].fresh
      <4> DEFINE i == Len(key[c][k].events) + 1
      <4>2. i <= Len(key'[c][k].events)
        BY <1>4, <1>9
      <4>3. \A j \in DOMAIN key[c][k].events : ~ (j > i)
        <5>1. key[c][k].events \in Seq(Event)
          BY <1>2, Types
        <5> QED
          BY <5>1
      <4> QED
        BY <1>4, <3>1, <4>2, <4>3 DEF Grown
    <3>3. launch'.note \in ToSet(notes'[c][k])
      BY <1>1, <1>8, <3>1 DEF NotesOn, lists
    <3>4. chan' = c /\ key'[c][k].pressed /\ ~muted'[c]
      BY <1>1, <1>2, <1>4
    <3> QED
      BY <3>1, <3>2, <3>3, <3>4 DEF LaunchInv, NotesOn, Begins
  <2> QED
    BY <2>1, <2>2
<1>15. SpentInv'
  BY <1>1, <1>2, <1>6, NoneSpent DEF stealing
<1>16. ASSUME NEW d \in Chans, NEW l \in Keys PROVE Settled(d, l)
  <2>1. CASE d = c /\ l = k
    BY <1>4, <2>1 DEF Settled, MayHang
  <2>2. CASE d # c \/ l # k
    <3>1. SameEvents(d, l) /\ key'[d][l].pressed = key[d][l].pressed
      BY <1>5, <2>2
    <3>2. <<d, l>> \in stuck => <<d, l>> \in stuck'
      BY <1>1, <2>2
    <3>3. ShouldReleaseVoice(d, l)' => ShouldReleaseVoice(d, l)
      BY <1>1 DEF ShouldReleaseVoice
    <3> QED
      BY <1>2, <3>1, <3>2, <3>3, SettledSame
  <2> QED
    BY <2>1, <2>2
<1>17. \A d \in Chans, l \in Keys : key'[d][l].pressed /\ <<d, l>> \notin stuck' =>
         \/ key[d][l].pressed /\ <<d, l>> \notin stuck /\ (d = chan => Head(queue).event # Off(l))
         \/ d = chan /\ Head(queue).event = On(l)
  <2> SUFFICES ASSUME NEW d \in Chans, NEW l \in Keys, key'[d][l].pressed, <<d, l>> \notin stuck'
               PROVE  \/ key[d][l].pressed /\ <<d, l>> \notin stuck /\ (d = chan => Head(queue).event # Off(l))
                      \/ d = chan /\ Head(queue).event = On(l)
    OBVIOUS
  <2>1. CASE d = c /\ l = k
    BY <1>1, <1>3, <2>1
  <2>2. CASE d # c \/ l # k
    <3>1. key[d][l].pressed /\ <<d, l>> \notin stuck
      BY <1>1, <1>5, <2>2
    <3>2. Head(queue).event # Off(l)
      BY <1>2, OnOff
    <3> QED
      BY <3>1, <3>2
  <2> QED
    BY <2>1, <2>2
<1>18. DOMAIN stolen' = DOMAIN stolen /\ \A i \in DOMAIN stolen : SameTheft(i) /\ stolen'[i].note = stolen[i].note
  BY <1>1 DEF SameTheft, stealing
<1>19. SameThefts /\ missed \subseteq missed'
  BY <1>1, <1>5 DEF SameThefts
<1> QED
  BY <1>1, <1>5, <1>6, <1>12, <1>13, <1>14, <1>15, <1>16, <1>17, <1>18, <1>19, EventTaken

\* The highest of the keys that are still pressed
LEMMA MaxExists == \A S \in SUBSET (0..127) : S # {} => Max(S) \in S
<1> DEFINE HasMax(S) == \E x \in S : \A y \in S : x >= y
           P == {n \in Nat : \A S \in SUBSET (0..n) : S # {} => HasMax(S)}
<1>1. 0 \in P
  <2>1. ASSUME NEW S \in SUBSET (0..0), S # {} PROVE HasMax(S)
    <3>1. \A x \in S : x = 0
      BY 0..0 = {0}
    <3>2. PICK x : x \in S
      BY <2>1
    <3>3. 0 \in S /\ \A y \in S : 0 >= y
      BY <3>1, <3>2
    <3> QED
      BY <3>3
  <2> QED
    BY <2>1
<1>2. ASSUME NEW n \in Nat, n \in P PROVE n + 1 \in P
  <2> SUFFICES ASSUME NEW S \in SUBSET (0..(n + 1)), S # {} PROVE HasMax(S)
    OBVIOUS
  <2>1. CASE n + 1 \in S
    <3>1. \A y \in S : n + 1 >= y
      OBVIOUS
    <3> QED
      BY <2>1, <3>1
  <2>2. CASE n + 1 \notin S
    <3>1. S \in SUBSET (0..n)
      <4>1. \A y \in S : y \in 0..(n + 1) /\ y # n + 1
        BY <2>2
      <4> QED
        BY <4>1
    <3> QED
      BY <1>2, <3>1
  <2> QED
    BY <2>1, <2>2
<1>3. Nat \subseteq P
  <2> HIDE DEF P
  <2> QED
    BY <1>1, <1>2, NatSetInduction
<1>4. 127 \in P
  <2>1. 127 \in Nat
    OBVIOUS
  <2> HIDE DEF P
  <2> QED
    BY <1>3, <2>1
<1>5. ASSUME NEW S \in SUBSET (0..127), S # {} PROVE Max(S) \in S
  <2>1. \E x \in S : \A y \in S : x >= y
    BY <1>4, <1>5
  <2> QED
    BY <2>1 DEF Max
<1> QED
  BY <1>5

\* In solo mode another note follows the one that is released.
LEMMA RespawnKeys ==
  ASSUME IInv, NEW c \in Chans, NEW k \in Keys, RespawnSolo(c, k)
  PROVE  \E o \in Keys :
           /\ o # k /\ key[c][o].pressed /\ solo' = [solo EXCEPT ![c].key = o]
           /\ \/ /\ launch' = [NoLaunch EXCEPT !.kill = k]
                 /\ key' = Unpressed(key, c, k) /\ UNCHANGED <<active, notes>>
              \/ /\ key' = Unpressed(WithEvents(c, {o}, "on"), c, k)
                 /\ \E n \in FreeNotes :
                      /\ LaunchNewNote(c, o, n)
                      /\ launch' = [key |-> o, note |-> n, left |-> Layers[o],
                                    trigger |-> Len(key[c][o].events) + 1, kill |-> k]
<1> DEFINE others == Pressed(c) \ {k}
           o == Max(others)
<1>1. /\ others # {} /\ solo' = [solo EXCEPT ![c].key = o]
      /\ IF FreeNotes = {}
         THEN /\ launch' = [NoLaunch EXCEPT !.kill = k]
              /\ key' = Unpressed(key, c, k) /\ UNCHANGED <<active, notes>>
         ELSE /\ \E n \in FreeNotes :
                      /\ LaunchNewNote(c, o, n)
                      /\ launch' = [key |-> o, note |-> n, left |-> Layers[o],
                                    trigger |-> Len(key[c][o].events) + 1, kill |-> k]
              /\ key' = Unpressed(WithEvents(c, {o}, "on"), c, k)
  BY Zenon DEF RespawnSolo, Unpressed
<1>2. others \in SUBSET (0..127) /\ others \subseteq Keys /\ \A l \in others : l # k /\ key[c][l].pressed
  BY VoiceAllocationAssumption DEF Pressed
<1> HIDE DEF others
<1>3. o \in others
  BY <1>1, <1>2, MaxExists
<1> HIDE DEF o
<1>4. o \in Keys /\ o # k /\ key[c][o].pressed
  BY <1>2, <1>3
<1> QED
  BY <1>1, <1>4

\* The new note in solo mode is on a key that is still pressed.
LEMMA KeepRespawnSolo == ASSUME IInv, NEW c \in Chans, NEW k \in Keys, RespawnSolo(c, k) PROVE IInv'
<1>1. /\ Next1("off") /\ c = chan /\ k = Head(queue).event.key /\ ~muted[c]
      /\ stuck' = stuck \ {<<c, k>>}
      /\ UNCHANGED <<stealing, voices, voice, pedal, uncounted, missed>>
  BY DEF RespawnSolo
<1>2. /\ TypeOK /\ ReadTypes' /\ launch = NoLaunch /\ phase \in {"import", "process"}
      /\ UNCHANGED <<chan, muted>> /\ NoLaunch \in LaunchRecord
      /\ solo \in [Chans -> SoloRecord] /\ Head(queue).event \in Message /\ key \in [Chans -> [Keys -> KeyRecord]]
  BY <1>1, Next1Types, TypeParts DEF IInv
<1>3. PICK o \in Keys :
           /\ o # k /\ key[c][o].pressed /\ solo' = [solo EXCEPT ![c].key = o]
           /\ \/ /\ launch' = [NoLaunch EXCEPT !.kill = k]
                 /\ key' = Unpressed(key, c, k) /\ UNCHANGED <<active, notes>>
              \/ /\ key' = Unpressed(WithEvents(c, {o}, "on"), c, k)
                 /\ \E n \in FreeNotes :
                      /\ LaunchNewNote(c, o, n)
                      /\ launch' = [key |-> o, note |-> n, left |-> Layers[o],
                                    trigger |-> Len(key[c][o].events) + 1, kill |-> k]
  BY RespawnKeys
<1>4. /\ key' \in [Chans -> [Keys -> KeyRecord]] /\ ~key'[c][k].pressed /\ SameEvents(c, k)
      /\ \A d \in Chans, l \in Keys :
           /\ key'[d][l].thefts = key[d][l].thefts
           /\ d # c \/ l # k => key'[d][l].pressed = key[d][l].pressed
           /\ d # c \/ l # o => SameEvents(d, l)
      /\ SameEvents(c, o) \/ Gains(c, o, Fresh("on"))
      /\ key' = Unpressed(WithEvents(c, {o}, "on"), c, k) => Gains(c, o, Fresh("on"))
  <2>1. CASE key' = Unpressed(key, c, k) /\ key' # Unpressed(WithEvents(c, {o}, "on"), c, k)
    <3>1. /\ key' \in [Chans -> [Keys -> KeyRecord]] /\ ~key'[c][k].pressed
          /\ key'[c][k].thefts = key[c][k].thefts /\ key'[c][k].events = key[c][k].events
          /\ \A d \in Chans, l \in Keys : d # c \/ l # k => key'[d][l] = key[d][l]
      BY <1>2, <2>1, PressedFacts
    <3> QED
      BY <2>1, <3>1 DEF SameEvents
  <2>2. CASE key' = Unpressed(WithEvents(c, {o}, "on"), c, k)
    <3> DEFINE w == WithEvents(c, {o}, "on")
    <3>1. Appended(w, c, o, "on")
      BY <1>2, WithEventsOf
    <3> HIDE DEF w
    <3>2. /\ w \in [Chans -> [Keys -> KeyRecord]]
          /\ \A d \in Chans, l \in Keys :
               /\ w[d][l].pressed = key[d][l].pressed /\ w[d][l].thefts = key[d][l].thefts
               /\ w[d][l].events = IF d = c /\ l = o THEN Append(key[d][l].events, Fresh("on"))
                                   ELSE key[d][l].events
      BY <3>1 DEF Appended
    <3>3. key' = Unpressed(w, c, k)
      BY <2>2 DEF w
    <3>4. /\ key' \in [Chans -> [Keys -> KeyRecord]] /\ ~key'[c][k].pressed
          /\ key'[c][k].thefts = w[c][k].thefts /\ key'[c][k].events = w[c][k].events
          /\ \A d \in Chans, l \in Keys : d # c \/ l # k => key'[d][l] = w[d][l]
      BY <3>2, <3>3, PressedFacts
    <3>5. key'[c][o] = w[c][o]
      BY <1>3, <3>4
    <3>6. SameEvents(c, k) /\ Gains(c, o, Fresh("on"))
      BY <1>3, <3>2, <3>4, <3>5 DEF SameEvents, Gains
    <3>7. ASSUME NEW d \in Chans, NEW l \in Keys
          PROVE  /\ key'[d][l].thefts = key[d][l].thefts
                 /\ d # c \/ l # k => key'[d][l].pressed = key[d][l].pressed
                 /\ d # c \/ l # o => SameEvents(d, l)
      <4>1. CASE d = c /\ l = k
        BY <3>2, <3>4, <3>6, <4>1
      <4>2. CASE d # c \/ l # k
        <5>1. key'[d][l] = w[d][l]
          BY <3>4, <4>2
        <5> QED
          BY <3>2, <5>1 DEF SameEvents
      <4> QED
        BY <4>1, <4>2
    <3> QED
      BY <3>4, <3>6, <3>7
  <2> QED
    BY <1>3, <2>1, <2>2
<1>5. \A d \in Chans, l \in Keys : Grown(d, l)
  <2> SUFFICES ASSUME NEW d \in Chans, NEW l \in Keys PROVE Grown(d, l)
    OBVIOUS
  <2>1. SameEvents(d, l) \/ Gains(d, l, Fresh("on"))
    BY <1>4
  <2> QED
    BY <1>2, <2>1, GrownFacts
<1>6. /\ ListTypes' /\ ListsInv' /\ SameVoices /\ \A d \in Chans, l \in Keys : NotesOn(d, l) \subseteq NotesOn(d, l)'
  <2>1. CASE UNCHANGED <<active, notes>>
    <3>1. UNCHANGED lists
      BY <1>1, <2>1 DEF lists
    <3> QED
      BY <1>1, <1>2, <3>1, SameSets, ListsKept, TypeParts DEF IInv, SameStates, SameVoices
  <2>2. ASSUME NEW n \in FreeNotes, LaunchNewNote(c, o, n)
        PROVE  /\ ListTypes' /\ ListsInv' /\ SameVoices
               /\ \A d \in Chans, l \in Keys : NotesOn(d, l) \subseteq NotesOn(d, l)'
    <3>1. ListTypes /\ ListsInv
      BY <1>2, TypeParts DEF IInv
    <3> QED
      BY <1>1, <2>2, <3>1, LaunchNoteFacts
  <2> QED
    BY <1>3, <2>1, <2>2
<1>7. LaunchInv' /\ launch' \in LaunchRecord /\ launch'.kill = k
  <2>1. CASE launch' = [NoLaunch EXCEPT !.kill = k]
    <3>1. launch' = [key |-> NoKey, note |-> NoNote, left |-> 0, trigger |-> 0, kill |-> k]
      BY <2>1 DEF NoLaunch
    <3>2. k # NoKey
      BY Numbers
    <3> QED
      BY <1>1, <1>2, <3>1, <3>2 DEF LaunchInv, LaunchRecord, NoLaunch
  <2>2. ASSUME NEW n \in FreeNotes, LaunchNewNote(c, o, n), Gains(c, o, Fresh("on")),
               launch' = [key |-> o, note |-> n, left |-> Layers[o],
                          trigger |-> Len(key[c][o].events) + 1, kill |-> k]
        PROVE  LaunchInv' /\ launch' \in LaunchRecord /\ launch'.kill = k
    <3>1. /\ launch'.key = o /\ launch'.note = n /\ launch'.left = Layers[o] /\ launch'.kill = k
          /\ launch'.trigger = Len(key[c][o].events) + 1
      BY <2>2
    <3>2. Layers[o] \in Nat /\ Len(key[c][o].events) + 1 \in Nat /\ k # NoKey
      BY <1>2, Types, Numbers, VoiceAllocationAssumption
    <3>3. n \in Notes /\ n \in ToSet(notes'[c][o])
      <4>1. ListTypes /\ ListsInv
        BY <1>2, TypeParts DEF IInv
      <4>2. n \in Notes /\ n \in NotesOn(c, o)'
        BY <1>1, <2>2, <4>1, LaunchNoteFacts
      <4> QED
        BY <4>2 DEF NotesOn
    <3>4. /\ launch'.trigger <= Len(key'[c][o].events)
          /\ \A j \in DOMAIN key'[c][o].events : j > launch'.trigger => key'[c][o].events[j].fresh
      <4>1. key[c][o].events \in Seq(Event) /\ Fresh("on") \in Event
        BY <1>2, Types DEF Fresh, Event
      <4> DEFINE es == key[c][o].events
                 e == Fresh("on")
                 a == Append(es, e)
      <4>2. key'[c][o].events = a
        BY <2>2 DEF Gains
      <4>3. Len(a) = Len(es) + 1 /\ DOMAIN a = 1..Len(es) + 1 /\ Len(es) \in Nat
        <5> HIDE DEF es, e
        <5>1. es \in Seq(Event) /\ e \in Event
          BY <4>1 DEF es, e
        <5> QED
          BY <5>1
      <4>4. launch'.trigger = Len(es) + 1
        BY <3>1
      <4> HIDE DEF a, es
      <4> QED
        BY <4>2, <4>3, <4>4
    <3>5. chan' = c /\ key'[c][o].pressed /\ ~muted'[c]
      BY <1>1, <1>2, <1>3, <1>4
    <3>6. launch' \in LaunchRecord
      BY <2>2, <3>2, <3>3 DEF LaunchRecord
    <3>7. launch' # NoLaunch
      BY <3>1, <3>2 DEF NoLaunch
    <3> QED
      BY <3>1, <3>2, <3>3, <3>4, <3>5, <3>6, <3>7 DEF LaunchInv, NotesOn, Begins
  <2> QED
    BY <1>3, <1>4, <2>1, <2>2
<1>8. TypeOK'
  <2>1. stuck' \subseteq Chans \X Keys /\ solo' \in [Chans -> SoloRecord]
    BY <1>1, <1>2, <1>3, SoloTypes, TypeParts
  <2> QED
    BY <1>1, <1>2, <1>4, <1>6, <1>7, <2>1, TypeParts, TypePartsNext DEF stealing
<1>9. SpentInv'
  BY <1>1, <1>2, NoneSpent, TypeParts DEF stealing
<1>10. ASSUME NEW d \in Chans, NEW l \in Keys PROVE Settled(d, l)
  <2>1. CASE d = c /\ l = k
    BY <1>1, <1>2, <1>7, <2>1 DEF Settled, MayHang
  <2>2. CASE d = c /\ l = o
    BY <1>3, <1>4, <2>2 DEF Settled, MayHang
  <2>3. CASE d # c \/ (l # k /\ l # o)
    <3>1. SameEvents(d, l) /\ key'[d][l].pressed = key[d][l].pressed
      BY <1>4, <2>3
    <3>2. <<d, l>> \in stuck => <<d, l>> \in stuck'
      BY <1>1, <2>3
    <3>3. ShouldReleaseVoice(d, l)' => ShouldReleaseVoice(d, l)
      BY <1>1 DEF ShouldReleaseVoice
    <3> QED
      BY <1>2, <3>1, <3>2, <3>3, SettledSame
  <2> QED
    BY <2>1, <2>2, <2>3
<1>11. \A d \in Chans, l \in Keys : key'[d][l].pressed /\ <<d, l>> \notin stuck' =>
         \/ key[d][l].pressed /\ <<d, l>> \notin stuck /\ (d = chan => Head(queue).event # Off(l))
         \/ d = chan /\ Head(queue).event = On(l)
  <2> SUFFICES ASSUME NEW d \in Chans, NEW l \in Keys, key'[d][l].pressed, <<d, l>> \notin stuck'
               PROVE  key[d][l].pressed /\ <<d, l>> \notin stuck /\ (d = chan => Head(queue).event # Off(l))
    OBVIOUS
  <2>1. d # c \/ l # k
    BY <1>4
  <2>2. d = chan => Head(queue).event # Off(l)
    BY <1>1, <1>2, <2>1, OnOff
  <2> QED
    BY <1>1, <1>4, <2>1, <2>2
<1>12. DOMAIN stolen' = DOMAIN stolen /\ \A i \in DOMAIN stolen : SameTheft(i) /\ stolen'[i].note = stolen[i].note
  BY <1>1 DEF SameTheft, stealing
<1>13. \A v \in Voices : /\ voice'[v].state = voice[v].state /\ voice'[v].env = voice[v].env
                         /\ voice'[v].trigger = voice[v].trigger
                         /\ voice[v].killed => voice'[v].killed
  BY <1>1
<1>14. SameThefts /\ missed \subseteq missed'
  BY <1>1, <1>4 DEF SameThefts
<1> QED
  BY <1>1, <1>5, <1>6, <1>7, <1>8, <1>9, <1>10, <1>11, <1>12, <1>13, <1>14, EventTaken


-----------------------------------------------------------------------------
(* Steps between two events: the voices of a note are launched or stolen *)

\* WorkInv holds after an event, if each theft has its note and no muted channel.
LEMMA WorkKept ==
  ASSUME IInv, phase = "process", UNCHANGED <<phase, chan, queue, notes, muted>>,
         \A i \in DOMAIN stolen' :
            \/ SameTheft(i) /\ stolen'[i].note = stolen[i].note
            \/ stolen'[i].note \in NotesOn(stolen'[i].chan, stolen'[i].key) /\ ~muted[stolen'[i].chan]
  PROVE  WorkInv'
<1>1. \A c, k : NotesOn(c, k)' = NotesOn(c, k)
  BY DEF NotesOn
<1>2. ASSUME NEW i \in DOMAIN stolen'
      PROVE  (stolen[i].note \in NotesOn(stolen[i].chan, stolen[i].key) /\ ~muted[stolen[i].chan])'
  <2>1. /\ stolen'[i].note \in NotesOn(stolen'[i].chan, stolen'[i].key)
        /\ ~muted[stolen'[i].chan]
    BY DEF IInv, WorkInv, SameTheft
  <2> QED
    BY <2>1 DEF NotesOn
<1>3. \A i \in DOMAIN queue' : queue'[i].event.type = "on" =>
          (queue[i].note \in NotesOn(chan, queue[i].event.key))'
  BY DEF IInv, WorkInv, NotesOn
<1> QED
  BY <1>2, <1>3 DEF WorkInv

\* Voices that cannot be killed yet are known to miss their release.
LEMMA KeepKillReleasedKey == ASSUME IInv, KillReleasedKey PROVE IInv'
<1> DEFINE vs == VoicesOn(chan, launch.kill)
<1>1. /\ phase = "process" /\ launch.left = 0 /\ launch.kill # NoKey
      /\ Kill(vs)
      /\ uncounted' = uncounted \cup {v \in vs : IsKilled(v)}
      /\ missed' = missed \cup {v \in vs : ~IsKilled(v)}
      /\ launch' = NoLaunch
      /\ stolen' = LoseThefts(chan, {launch.kill})
      /\ UNCHANGED <<scenario, phase, chan, queue, fragment, spawnsLeft, lastStolen, lists, key, pedal,
                     solo, muted, held>>
  BY DEF KillReleasedKey
<1>2. /\ TypeOK /\ ReadTypes /\ chan \in Chans /\ launch \in LaunchRecord /\ ListTypes
      /\ spawnsLeft \in Int /\ lastStolen \in 0..Channels
      /\ pedal \in [Chans -> PedalRecord] /\ solo \in [Chans -> SoloRecord] /\ stuck \subseteq Chans \X Keys
      /\ uncounted \in SUBSET Voices /\ missed \in SUBSET Voices
  BY TypeParts DEF IInv, ReadTypes
<1>3. launch.kill \in Keys /\ vs \subseteq Voices
  <2>1. launch.kill \in Keys
    BY <1>1, <1>2 DEF LaunchRecord
  <2> QED
    BY <1>2, <2>1, Facts DEF KeyFacts
<1>4. /\ voice' \in [Voices -> Voice]
      /\ \A v \in Voices :
           /\ voice'[v].state = voice[v].state /\ voice'[v].env = voice[v].env
           /\ voice'[v].trigger = voice[v].trigger
           /\ voice'[v].killed = (voice[v].killed \/ (v \in vs /\ IsKilled(v)))
  <2>1. TypeOK /\ Kill(vs)
    BY <1>1, <1>2
  <2> HIDE DEF vs
  <2> QED
    BY <2>1, KillFacts
<1>5. /\ stolen' \in Seq(QueuedTheft) /\ DOMAIN stolen' = DOMAIN stolen /\ Len(stolen') = Len(stolen)
      /\ \A i \in DOMAIN stolen :
           /\ SameTheft(i) /\ stolen'[i].note = stolen[i].note
           /\ stolen[i].chan = chan /\ stolen[i].key = launch.kill => stolen'[i].lost
  BY <1>1, <1>2, LoseTheftsFacts
<1>6. /\ key' \in [Chans -> [Keys -> KeyRecord]] /\ SameThefts
      /\ \A d \in Chans, k \in Keys : /\ key'[d][k].pressed = key[d][k].pressed /\ SameEvents(d, k)
                                      /\ Grown(d, k)
  BY <1>1, <1>2, SameKeys, GrownFacts
<1>7. /\ ListTypes' /\ SameVoices /\ ListsInv' /\ NoLaunch \in LaunchRecord
  <2>1. NoLaunch \in LaunchRecord
    BY DEF NoLaunch, LaunchRecord
  <2> QED
    BY <1>1, <1>2, <1>4, <2>1, SameSets, ListsKept DEF IInv, SameStates, SameVoices
<1>8. TypeOK'
  <2>1. ReadTypes'
    BY <1>1, <1>2 DEF ReadTypes, fragment, held
  <2>2. uncounted' \in SUBSET Voices /\ missed' \in SUBSET Voices
    BY <1>1, <1>2, <1>3
  <2> QED
    BY <1>1, <1>2, <1>4, <1>5, <1>6, <1>7, <2>1, <2>2, TypeParts, TypePartsNext DEF held
<1>9. WorkInv' /\ LaunchInv'
  BY <1>1, <1>5, WorkKept, NoLaunchInv DEF lists
<1>10. InitInv'
  BY <1>1, <1>4, <1>7, InitKept DEF IInv
<1>11. EventsInv'
  BY <1>1, <1>4, <1>5, <1>6, <1>7, EventsStep DEF SameVoices
<1>12. SpentInv'
  <2>1. \A v \in Voices : voice'[v].killed => voice[v].killed \/ v \in uncounted'
    BY <1>1, <1>4
  <2> QED
    BY <1>1, <1>4, <2>1, NoneSpent
<1>13. TheftsInv'
  <2>1. Dying \subseteq Dying'
    BY <1>4 DEF Dying
  <2> QED
    BY <1>1, <1>5, <1>6, <2>1, TheftsKept DEF SameTheft
<1>14. PlayerInv'
  BY <1>1, <1>6, PlayerKept DEF IInv, held
<1>15. ASSUME NEW c \in Chans, NEW k \in Keys PROVE Settled(c, k)
  <2>1. CASE c = chan /\ k = launch.kill
    <3>1. \A v \in vs : voice'[v].killed \/ v \in missed'
      BY <1>1, <1>3, <1>4
    <3> QED
      BY <1>5, <2>1, <3>1 DEF Settled, GivenUp
  <2>2. CASE ~ (c = chan /\ k = launch.kill)
    <3>1. ShouldReleaseVoice(c, k)' = ShouldReleaseVoice(c, k)
      BY <1>1 DEF ShouldReleaseVoice
    <3>2. stuck' = stuck
      BY <1>1 DEF held
    <3>3. MayHang(c, k) => MayHang(c, k)'
      BY <1>6, <2>2, <3>1, <3>2 DEF MayHang
    <3> QED
      BY <1>6, <3>3 DEF Settled
  <2> QED
    BY <2>1, <2>2
<1>16. HoldInv'
  <2>1. missed \subseteq missed'
    BY <1>1
  <2>2. \A i \in DOMAIN stolen' : SameTheft(i)
    BY <1>5
  <2>3. \A c \in Chans, k \in Keys : \A v \in VoicesOn(c, k)' : v \in VoicesOn(c, k)
    BY <1>7 DEF SameVoices
  <2>4. \A v \in Voices : /\ voice'[v].env = voice[v].env /\ voice'[v].trigger = voice[v].trigger
                          /\ voice[v].killed => voice'[v].killed
    BY <1>4
  <2>5. UNCHANGED muted /\ phase # "stolen" /\ phase' # "stolen"
    BY <1>1
  <2> QED
    BY <1>15, <2>1, <2>2, <2>3, <2>4, <2>5, HoldStep
<1> QED
  BY <1>7, <1>8, <1>9, <1>10, <1>11, <1>12, <1>13, <1>14, <1>16 DEF IInv

\* What the player holds down when a message is imported
Imports(m) ==
    /\ m \in Message
    /\ m.type = "on" => m.key \notin down[chan]
    /\ down' = [down EXCEPT ![chan] = CASE m.type = "on" -> @ \cup {m.key}
                                        [] m.type = "off" -> @ \ {m.key}
                                        [] OTHER -> @]

\* What the player holds after a message.
LEMMA DownFacts ==
  ASSUME TypeOK, NEW m, Imports(m)
  PROVE  /\ down' \in [Chans -> SUBSET Keys] /\ \A c \in Chans : c # chan => down'[c] = down[c]
         /\ \A k \in Keys : /\ m = On(k) => k \notin down[chan] /\ k \in down'[chan]
                            /\ m # Off(k) /\ k \in down[chan] => k \in down'[chan]
<1>1. down \in [Chans -> SUBSET Keys] /\ chan \in Chans /\ m \in Message
  BY DEF TypeOK, Imports
<1>2. m.type \in {"on", "off"} => m.key \in Keys
  BY <1>1, MessageKeys
<1>3. CASE m.type = "on"
  <2>1. down' = [down EXCEPT ![chan] = down[chan] \cup {m.key}] /\ m.key \notin down[chan]
    BY <1>3 DEF Imports
  <2>2. \A k \in Keys : m = On(k) => m.key = k
    BY DEF On
  <2> QED
    BY <1>1, <1>2, <1>3, <2>1, <2>2
<1>4. CASE m.type = "off"
  <2>1. down' = [down EXCEPT ![chan] = down[chan] \ {m.key}]
    BY <1>4 DEF Imports
  <2>2. \A k \in Keys : m # On(k) /\ (m # Off(k) => m.key # k)
    <3>1. m \in [type : {"on", "off"}, key : Keys]
      BY <1>1, <1>4 DEF Message, Controllers
    <3> QED
      BY <1>4, <3>1 DEF On, Off
  <2> QED
    BY <1>1, <1>2, <1>4, <2>1, <2>2
<1>5. CASE m.type # "on" /\ m.type # "off"
  <2>1. down' = [down EXCEPT ![chan] = down[chan]]
    BY <1>5 DEF Imports
  <2>2. \A k \in Keys : m # On(k)
    BY <1>5 DEF On
  <2> QED
    BY <1>1, <1>5, <2>1, <2>2
<1> QED
  BY <1>3, <1>4, <1>5

\* The player presses and releases each key in turn.
LEMMA PlayerAppend ==
  ASSUME IInv, NEW m, Imports(m), UNCHANGED <<chan, stuck, key>>,
         \/ /\ \E n \in Notes \cup {NoNote} : queue' = Append(queue, [event |-> m, note |-> n])
         \/ m.type = "on" /\ UNCHANGED queue
  PROVE  PlayerInv'
<1>1. /\ TypeOK /\ down' \in [Chans -> SUBSET Keys] /\ \A c \in Chans : c # chan => down'[c] = down[c]
      /\ \A k \in Keys : /\ m = On(k) => k \notin down[chan] /\ k \in down'[chan]
                         /\ m # Off(k) /\ k \in down[chan] => k \in down'[chan]
  BY DownFacts DEF IInv
<1>2. queue \in Seq(Queued) /\ DOMAIN queue = 1..Len(queue) /\ Len(queue) \in Nat /\ m \in Message
  BY <1>1, Types DEF Imports
<1>3. CASE m.type = "on" /\ UNCHANGED queue
  <2>1. \A k \in Keys : m # Off(k)
    BY <1>3 DEF Off
  <2>2. \A k \in Keys : \A i : HeldFrom(k, i) => HeldFrom(k, i)'
    BY <1>1, <1>3, <2>1 DEF HeldFrom
  <2> QED
    BY <1>1, <1>3, <2>2 DEF IInv, PlayerInv
<1>4. ASSUME NEW n \in Notes \cup {NoNote}, queue' = Append(queue, [event |-> m, note |-> n])
      PROVE  PlayerInv'
  <2> DEFINE e == [event |-> m, note |-> n]
             L == Len(queue)
  <2>1. e \in Queued /\ e.event = m
    BY <1>2 DEF Queued
  <2>2. /\ DOMAIN queue' = 1..L + 1 /\ Len(queue') = L + 1 /\ queue'[L + 1] = e
        /\ \A i \in 1..L : queue'[i] = queue[i]
    <3>1. queue' = Append(queue, e)
      BY <1>4
    <3> HIDE DEF e
    <3>2. /\ Len(Append(queue, e)) = Len(queue) + 1 /\ DOMAIN Append(queue, e) = 1..Len(queue) + 1
          /\ \A i \in 1..Len(queue) : Append(queue, e)[i] = queue[i]
          /\ Append(queue, e)[Len(queue) + 1] = e
      <4>1. queue \in Seq(Queued) /\ e \in Queued
        BY <1>2, <2>1
      <4> QED
        BY <4>1, AppendByIndex
    <3> QED
      BY <3>1, <3>2
  <2>3. /\ queue'[L + 1].event = m /\ \A i \in 1..L : queue'[i].event = queue[i].event
        /\ L \in Nat /\ Len(queue') = L + 1
    BY <1>2, <2>1, <2>2
  <2> HIDE DEF e, L
  <2>4. ASSUME NEW k \in Keys, NEW i \in 1..L + 1, HeldFrom(k, i) PROVE HeldFrom(k, i)'
    <3>1. /\ \A j \in i..L : queue[j].event = On(k) => \E h \in i..(j - 1) : queue[h].event = Off(k)
          /\ k \in down[chan] \/ \E h \in i..L : queue[h].event = Off(k)
      BY <2>4 DEF HeldFrom, On, Off, L
    <3>2. i..L \subseteq 1..L /\ L + 1 \in i..(L + 1) /\ i..L \subseteq i..(L + 1)
      BY <2>3
    <3>3. ASSUME NEW j \in i..(L + 1), queue'[j].event = On(k)
          PROVE  \E h \in i..(j - 1) : queue'[h].event = Off(k)
      <4>1. CASE j = L + 1
        <5>1. m = On(k)
          BY <2>3, <3>3, <4>1
        <5>2. PICK h \in i..L : queue[h].event = Off(k)
          BY <1>1, <3>1, <5>1
        <5>3. h \in i..(j - 1) /\ h \in 1..L
          BY <2>3, <3>2, <4>1
        <5> QED
          BY <2>3, <5>2, <5>3
      <4>2. CASE j # L + 1
        <5>1. j \in i..L /\ j \in 1..L
          BY <2>3, <3>2, <4>2
        <5>2. PICK h \in i..(j - 1) : queue[h].event = Off(k)
          BY <2>3, <3>1, <3>3, <5>1
        <5>3. h \in 1..L
          BY <2>3, <5>1
        <5> QED
          BY <2>3, <5>2, <5>3
      <4> QED
        BY <4>1, <4>2
    <3>4. k \in down'[chan] \/ \E h \in i..(L + 1) : queue'[h].event = Off(k)
      <4>1. ASSUME NEW h \in i..L, queue[h].event = Off(k)
            PROVE  \E g \in i..(L + 1) : queue'[g].event = Off(k)
        BY <2>3, <3>2, <4>1
      <4>2. m = Off(k) => \E g \in i..(L + 1) : queue'[g].event = Off(k)
        BY <2>3, <3>2
      <4> QED
        BY <1>1, <3>1, <4>1, <4>2
    <3> QED
      BY <2>3, <3>3, <3>4 DEF HeldFrom, On, Off
  <2>5. ASSUME NEW c \in Chans, NEW k \in Keys, key'[c][k].pressed, <<c, k>> \notin stuck'
        PROVE  IF c = chan' THEN HeldFrom(k, 1)' ELSE k \in down'[c]
    <3>1. IF c = chan THEN HeldFrom(k, 1) ELSE k \in down[c]
      BY <2>5 DEF IInv, PlayerInv
    <3>2. 1 \in 1..L + 1
      BY <2>3
    <3> QED
      BY <1>1, <2>4, <3>1, <3>2
  <2>6. ASSUME NEW i \in DOMAIN queue', NEW k \in Keys, queue'[i].event = On(k)
        PROVE  HeldFrom(k, i + 1)'
    <3>1. CASE i = L + 1
      <4>1. k \in down'[chan]
        BY <1>1, <2>3, <2>6, <3>1
      <4>2. \A j \in ((L + 1) + 1)..(L + 1) : FALSE
        BY <2>3
      <4> QED
        BY <2>3, <3>1, <4>1, <4>2 DEF HeldFrom
    <3>2. CASE i # L + 1
      <4>1. i \in 1..L /\ i + 1 \in 1..L + 1
        BY <2>2, <2>3, <3>2 DEF L
      <4>2. i \in DOMAIN queue /\ queue[i].event = On(k)
        BY <1>2, <2>3, <2>6, <4>1 DEF L
      <4>3. HeldFrom(k, i + 1)
        BY <4>2 DEF IInv, PlayerInv, On
      <4> QED
        BY <2>4, <4>1, <4>3
    <3> QED
      BY <3>1, <3>2
  <2> QED
    BY <2>5, <2>6 DEF PlayerInv, On
<1> QED
  BY <1>3, <1>4

\* Importing an event keeps the invariant.
LEMMA KeepImportEvent == ASSUME IInv, NEW m \in Message, ImportEvent(m) PROVE IInv'
<1>1. /\ phase = "import" /\ imported < MaxEvents /\ imported' = imported + 1
      /\ together' \in {together, imported > 0} /\ Imports(m)
      /\ UNCHANGED <<scenario, phase, chan, launch, stealing, voices, key, voice, pedal, solo,
                     muted, stuck, uncounted, missed>>
  BY Zenon DEF ImportEvent, Imports
<1>2. \/ m.type = "on" /\ UNCHANGED <<queue, active, notes>>
      \/ m.type = "on" /\ \E n \in FreeNotes : /\ LaunchNewNote(chan, m.key, n)
                                               /\ queue' = Append(queue, [event |-> m, note |-> n])
      \/ /\ m.type # "on" /\ queue' = Append(queue, [event |-> m, note |-> NoNote])
         /\ UNCHANGED <<active, notes>>
  BY DEF ImportEvent
<1>3. /\ TypeOK /\ ReadTypes /\ chan \in Chans /\ launch = NoLaunch /\ ListTypes /\ ListsInv
      /\ queue \in Seq(Queued) /\ imported \in 0..MaxEvents /\ MaxEvents \in Nat
      /\ m.type = "on" => m.key \in Keys
  BY <1>1, TypeParts, MessageKeys, VoiceAllocationAssumption DEF IInv, ReadTypes, WorkInv
<1>4. /\ ListTypes' /\ ListsInv' /\ SameVoices
      /\ \A d \in Chans, l \in Keys : NotesOn(d, l) \subseteq NotesOn(d, l)'
      /\ \A n : LaunchNewNote(chan, m.key, n) /\ n \in FreeNotes /\ m.type = "on" =>
            n \in Notes /\ n \in NotesOn(chan, m.key)'
  <2>1. CASE UNCHANGED <<active, notes>> /\ ~ \E n \in FreeNotes : m.type = "on" /\ LaunchNewNote(chan, m.key, n)
    <3>1. UNCHANGED lists
      BY <1>1, <2>1 DEF lists
    <3> QED
      BY <1>1, <1>3, <2>1, <3>1, SameSets, ListsKept DEF SameStates, SameVoices
  <2>2. CASE \E n \in FreeNotes : m.type = "on" /\ LaunchNewNote(chan, m.key, n)
    BY <1>1, <1>3, <2>2, LaunchNoteFacts
  <2> QED
    BY <1>2, <2>1, <2>2
<1>5. \/ \E n \in Notes \cup {NoNote} : queue' = Append(queue, [event |-> m, note |-> n])
      \/ m.type = "on" /\ UNCHANGED queue
  <2>1. CASE m.type = "on" /\ UNCHANGED queue
    BY <2>1
  <2>2. CASE queue' = Append(queue, [event |-> m, note |-> NoNote])
    BY <2>2
  <2>3. ASSUME NEW n \in FreeNotes, queue' = Append(queue, [event |-> m, note |-> n])
        PROVE  \E x \in Notes \cup {NoNote} : queue' = Append(queue, [event |-> m, note |-> x])
    <3>1. n \in Notes \cup {NoNote}
      BY DEF FreeNotes
    <3> QED
      BY <2>3, <3>1
  <2> QED
    BY <1>2, <2>1, <2>2, <2>3
<1>6. queue' \in Seq(Queued)
  <2>1. ASSUME NEW n \in Notes \cup {NoNote}, queue' = Append(queue, [event |-> m, note |-> n])
        PROVE  queue' \in Seq(Queued)
    <3> DEFINE e == [event |-> m, note |-> n]
    <3>1. e \in Queued
      BY DEF Queued
    <3>2. queue' = Append(queue, e)
      BY <2>1
    <3> HIDE DEF e
    <3> QED
      BY <1>3, <3>1, <3>2, AppendByIndex
  <2> QED
    BY <1>3, <1>5, <2>1
<1>7. TypeOK'
  <2>1. ReadTypes'
    <3>1. down' \in [Chans -> SUBSET Keys]
      BY <1>1, <1>3, DownFacts
    <3>2. imported' \in 0..MaxEvents
      BY <1>1, <1>3
    <3>3. together' \in BOOLEAN
      <4>1. together \in BOOLEAN /\ (imported > 0) \in BOOLEAN
        BY <1>3 DEF ReadTypes
      <4>2. together' = together \/ together' = (imported > 0)
        BY <1>1, Zenon
      <4> QED
        BY <4>1, <4>2, Zenon
    <3> QED
      BY <1>1, <1>3, <1>6, <3>1, <3>2, <3>3 DEF ReadTypes
  <2> QED
    BY <1>1, <1>3, <1>4, <2>1, TypeParts, TypePartsNext DEF stealing
<1>8. WorkInv'
  <2>1. ASSUME NEW i \in DOMAIN queue', queue'[i].event.type = "on"
        PROVE  queue'[i].note \in ToSet(notes'[chan][queue'[i].event.key])
    <3>1. CASE i \in DOMAIN queue /\ queue'[i] = queue[i]
      <4>1. queue[i].note \in NotesOn(chan, queue[i].event.key)
        BY <2>1, <3>1 DEF IInv, WorkInv
      <4>2. queue[i].event.key \in Keys
        <5>1. queue[i].event \in Message
          BY <1>3, <3>1, Types DEF Queued
        <5> QED
          BY <2>1, <3>1, <5>1, MessageKeys
      <4>3. NotesOn(chan, queue[i].event.key) \subseteq ToSet(notes'[chan][queue[i].event.key])
        BY <1>1, <1>3, <1>4, <4>2 DEF NotesOn
      <4> QED
        BY <3>1, <4>1, <4>3
    <3>2. ASSUME NEW n, queue' = Append(queue, [event |-> m, note |-> n]), n \in Notes \cup {NoNote},
                 m.type = "on" => n \in ToSet(notes'[chan][m.key])
          PROVE  queue'[i].note \in ToSet(notes'[chan][queue'[i].event.key])
      <4> DEFINE e == [event |-> m, note |-> n]
      <4>1. e \in Queued /\ e.event = m /\ e.note = n
        BY <3>2 DEF Queued
      <4> HIDE DEF e
      <4>2. /\ DOMAIN queue' = 1..Len(queue) + 1 /\ queue'[Len(queue) + 1] = e
            /\ \A h \in 1..Len(queue) : queue'[h] = queue[h]
        BY <1>3, <3>2, <4>1, AppendByIndex DEF e
      <4>3. i \in DOMAIN queue \/ i = Len(queue) + 1
        BY <1>3, <2>1, <4>2, Types
      <4>4. CASE i = Len(queue) + 1
        BY <2>1, <3>2, <4>1, <4>2, <4>4
      <4> QED
        BY <1>3, <3>1, <4>2, <4>3, <4>4, Types
    <3>3. CASE UNCHANGED queue
      BY <2>1, <3>1, <3>3
    <3>4. ASSUME NEW n \in FreeNotes, m.type = "on", LaunchNewNote(chan, m.key, n),
                 queue' = Append(queue, [event |-> m, note |-> n])
          PROVE  queue'[i].note \in ToSet(notes'[chan][queue'[i].event.key])
      <4>1. n \in Notes /\ n \in ToSet(notes'[chan][m.key])
        BY <1>1, <1>4, <3>4 DEF NotesOn
      <4> QED
        BY <3>2, <3>4, <4>1
    <3>5. CASE m.type # "on" /\ queue' = Append(queue, [event |-> m, note |-> NoNote])
      BY <3>2, <3>5
    <3> QED
      BY <1>2, <3>3, <3>4, <3>5
  <2>2. ASSUME NEW i \in DOMAIN stolen'
        PROVE  (stolen[i].note \in NotesOn(stolen[i].chan, stolen[i].key) /\ ~muted[stolen[i].chan])'
    <3>1. i \in DOMAIN stolen /\ stolen' = stolen /\ muted' = muted
      BY <1>1, <2>2 DEF stealing
    <3>2. stolen[i].chan \in Chans /\ stolen[i].key \in Keys
      BY <1>3, <3>1, Types DEF QueuedTheft
    <3>3. stolen[i].note \in NotesOn(stolen[i].chan, stolen[i].key) /\ ~muted[stolen[i].chan]
      BY <3>1 DEF IInv, WorkInv
    <3>4. stolen[i].note \in ToSet(notes'[stolen[i].chan][stolen[i].key])
      BY <1>4, <3>2, <3>3 DEF NotesOn
    <3> QED
      BY <3>1, <3>3, <3>4 DEF NotesOn
  <2>3. \A i \in DOMAIN queue' : queue'[i].event.type = "on" =>
          (queue[i].note \in NotesOn(chan, queue[i].event.key))'
    BY <1>1, <2>1 DEF NotesOn
  <2> QED
    BY <1>1, <1>3, <2>2, <2>3 DEF WorkInv
<1>9. /\ key' \in [Chans -> [Keys -> KeyRecord]] /\ SameThefts
      /\ \A d \in Chans, k \in Keys : /\ key'[d][k].pressed = key[d][k].pressed /\ SameEvents(d, k)
                                      /\ Grown(d, k)
  BY <1>1, <1>3, SameKeys, GrownFacts
<1>10. /\ UNCHANGED <<stolen, voice, muted, missed, uncounted, spawnsLeft>>
       /\ \A i \in DOMAIN stolen' : SameTheft(i)
       /\ \A c \in Chans, k \in Keys : \A v \in VoicesOn(c, k)' : v \in VoicesOn(c, k)
       /\ voice' \in [Voices -> Voice]
  BY <1>1, <1>3, <1>4, TypeParts DEF stealing, SameTheft, SameVoices
<1>11. InitInv' /\ LaunchInv'
  BY <1>1, <1>3, <1>4, InitKept, NoLaunchInv DEF IInv
<1>12. EventsInv'
  BY <1>1, <1>9, <1>10, EventsStep
<1>13. SpentInv'
  BY <1>1, <1>10, NoneSpent
<1>14. TheftsInv'
  <2>1. Dying' = Dying
    BY <1>10 DEF Dying
  <2> QED
    BY <1>1, <1>9, <1>10, <2>1, TheftsKept DEF SameTheft
<1>15. PlayerInv'
  BY <1>1, <1>5, PlayerAppend
<1>16. ASSUME NEW c \in Chans, NEW k \in Keys PROVE Settled(c, k)
  BY <1>1, <1>3, <1>9, SettledSame DEF ShouldReleaseVoice
<1>17. HoldInv'
  BY <1>1, <1>10, <1>16, HoldStep
<1> QED
  BY <1>4, <1>7, <1>8, <1>11, <1>12, <1>13, <1>14, <1>15, <1>17 DEF IInv

\* A voice that was free goes to the list of a note.
LEMMA LaunchedFacts ==
  ASSUME TypeOK, ListsInv, NEW c \in Chans, NEW k \in Keys, NEW n \in NotesOn(c, k), NEW v \in FreeVoices,
         NEW state \in {"init", "play"}, NEW trigger \in Nat, Launched(n, v, state, trigger),
         UNCHANGED <<active, notes>>
  PROVE  /\ ListTypes' /\ ListsInv' /\ voice' \in [Voices -> Voice] /\ v \in Voices
         /\ voice[v].state = "free" /\ voice'[v].state = state /\ ~voice'[v].killed
         /\ voice'[v].env = "on" /\ voice'[v].trigger = trigger
         /\ \A w \in Voices : w # v => voice'[w] = voice[w]
         /\ \A d \in Chans, l \in Keys : NotesOn(d, l)' = NotesOn(d, l)
         /\ \A d \in Chans, l \in Keys, w \in Voices :
              w \in VoicesOn(d, l)' <=> w \in VoicesOn(d, l) \/ (w = v /\ d = c /\ l = k)
<1>1. ListTypes /\ SetFacts /\ KeyFacts /\ Members /\ voice \in [Voices -> Voice]
  BY TypeParts, ListFacts, MembersOfLists
<1>2. v \in Voices /\ voice[v].state = "free" /\ n \in Notes
  BY <1>1 DEF FreeVoices, SetFacts
<1> DEFINE x == [FreeVoice EXCEPT !.state = state, !.trigger = trigger]
<1>3. x \in Voice /\ x.state = state /\ ~x.killed /\ x.env = "on" /\ x.trigger = trigger
  BY DEF FreeVoice, Voice, Env
<1>4. voice' = [voice EXCEPT ![v] = x] /\ voices' = [voices EXCEPT ![n] = Append(@, v)]
  BY DEF Launched
<1> HIDE DEF x
<1>5. /\ voice' \in [Voices -> Voice] /\ voice'[v] = x
      /\ \A w \in Voices : w # v => voice'[w] = voice[w]
  BY <1>1, <1>2, <1>3, <1>4
<1>6. /\ voices[n] \in Seq(Voices) /\ voices'[n] = Append(voices[n], v)
      /\ voices' \in [Notes -> Seq(Voices)] /\ \A m \in Notes : m # n => voices'[m] = voices[m]
  BY <1>1, <1>2, <1>4 DEF ListTypes
<1>7. ListTypes' /\ \A d \in Chans, l \in Keys : NotesOn(d, l)' = NotesOn(d, l)
  BY <1>1, <1>6 DEF ListTypes, NotesOn
<1>8. /\ VoicesOf(n)' = VoicesOf(n) \cup {v}
      /\ \A m \in Notes : m # n => VoicesOf(m)' = VoicesOf(m)
      /\ \A m \in Notes : v \notin VoicesOf(m)
  <2>1. ToSet(Append(voices[n], v)) = ToSet(voices[n]) \cup {v}
    BY <1>2, <1>6, AppendByIndex
  <2> QED
    BY <1>2, <1>6, <2>1 DEF VoicesOf, ListsInv
<1>9. \A m \in Notes : Distinct(voices'[m])
  <2>1. Distinct(voices'[n])
    BY <1>2, <1>6, <1>8, DistinctAppend DEF ListsInv, VoicesOf
  <2> QED
    BY <1>6, <2>1 DEF ListsInv
<1>10. ListsInv'
  <2>1. /\ \A d \in Chans : Distinct(active'[d])
        /\ \A d \in Chans, l \in Keys : /\ Distinct(notes'[d][l])
                                        /\ NotesOn(d, l)' # {} => l \in Active(d)'
    BY <1>7 DEF ListsInv, Active
  <2>2. \A d, e \in Chans, l, m \in Keys : \A y \in NotesOn(d, l)' \cap NotesOn(e, m)' : d = e /\ l = m
    BY <1>7 DEF ListsInv
  <2>3. \A m \in Notes : VoicesOf(m)' # {} => \E d \in Chans, l \in Keys : m \in NotesOn(d, l)'
    <3>1. \A m \in Notes : VoicesOf(m)' # {} => \E d \in Chans, l \in Keys : m \in NotesOn(d, l)
      BY <1>8 DEF ListsInv
    <3> QED
      BY <1>7, <3>1
  <2>4. \A m, o \in Notes : \A w \in VoicesOf(m)' \cap VoicesOf(o)' : m = o
    BY <1>2, <1>8 DEF ListsInv
  <2>5. \A w \in Voices : voice'[w].state # "free" <=> \E m \in Notes : w \in VoicesOf(m)'
    <3> SUFFICES ASSUME NEW w \in Voices
                 PROVE  voice'[w].state # "free" <=> \E m \in Notes : w \in VoicesOf(m)'
      OBVIOUS
    <3>1. CASE w = v
      BY <1>2, <1>3, <1>5, <1>8, <3>1
    <3>2. CASE w # v
      <4>1. \A m \in Notes : w \in VoicesOf(m)' <=> w \in VoicesOf(m)
        BY <1>2, <1>8, <3>2
      <4> QED
        BY <1>5, <3>2, <4>1 DEF ListsInv
    <3> QED
      BY <3>1, <3>2
  <2> QED
    BY <1>9, <2>1, <2>2, <2>3, <2>4, <2>5 DEF ListsInv
<1>11. Members'
  BY <1>7, <1>10, MembersNext
<1>12. ASSUME NEW d \in Chans, NEW l \in Keys, NEW w \in Voices
       PROVE  w \in VoicesOn(d, l)' <=> w \in VoicesOn(d, l) \/ (w = v /\ d = c /\ l = k)
  <2>1. /\ w \in VoicesOn(d, l)' <=> \E m \in Notes : m \in NotesOn(d, l) /\ w \in VoicesOf(m)'
        /\ w \in VoicesOn(d, l) <=> \E m \in Notes : m \in NotesOn(d, l) /\ w \in VoicesOf(m)
    BY <1>1, <1>7, <1>11 DEF Members
  <2>2. n \in NotesOn(d, l) <=> d = c /\ l = k
    BY <1>2 DEF ListsInv
  <2> QED
    BY <1>2, <1>8, <2>1, <2>2
<1> QED
  BY <1>2, <1>3, <1>5, <1>7, <1>10, <1>12

\* One voice less to launch
LEMMA ContinueFacts ==
  ASSUME launch \in LaunchRecord, launch.left > 0, Continue
  PROVE  /\ launch' \in LaunchRecord /\ launch'.kill = launch.kill
         /\ \/ launch' = NoLaunch
            \/ /\ launch'.key = launch.key /\ launch'.note = launch.note
               /\ launch'.trigger = launch.trigger /\ (launch'.left > 0 \/ launch'.kill # NoKey)
<1> DEFINE l == [launch EXCEPT !.left = @ - 1]
<1>1. /\ l \in LaunchRecord /\ l.key = launch.key /\ l.note = launch.note /\ l.trigger = launch.trigger
      /\ l.kill = launch.kill /\ l.left \in Nat
  BY DEF LaunchRecord
<1>2. launch' = IF l.left = 0 /\ l.kill = NoKey THEN NoLaunch ELSE l
  BY DEF Continue
<1> HIDE DEF l
<1>3. NoLaunch \in LaunchRecord /\ NoLaunch.kill = NoKey
  BY DEF NoLaunch, LaunchRecord
<1>4. CASE l.left = 0 /\ l.kill = NoKey
  BY <1>1, <1>2, <1>3, <1>4
<1>5. CASE ~ (l.left = 0 /\ l.kill = NoKey)
  BY <1>1, <1>2, <1>5
<1> QED
  BY <1>4, <1>5

\* The rest of a launch is still on a pressed key.
LEMMA ContinueKept ==
  ASSUME IInv, launch.left > 0, Continue, UNCHANGED <<chan, notes, muted>>,
         \A c \in Chans, k \in Keys : key'[c][k].pressed = key[c][k].pressed /\ SameEvents(c, k)
  PROVE  launch' \in LaunchRecord /\ launch'.kill = launch.kill /\ LaunchInv'
<1>1. launch \in LaunchRecord /\ chan \in Chans
  BY TypeParts DEF IInv, ReadTypes
<1>2. /\ launch' \in LaunchRecord /\ launch'.kill = launch.kill
      /\ \/ launch' = NoLaunch
         \/ /\ launch'.key = launch.key /\ launch'.note = launch.note
            /\ launch'.trigger = launch.trigger /\ (launch'.left > 0 \/ launch'.kill # NoKey)
  BY <1>1, ContinueFacts
<1>3. /\ launch.key \in Keys /\ launch.note \in NotesOn(chan, launch.key)
      /\ key[chan][launch.key].pressed /\ Begins(chan, launch.key, launch.trigger)
      /\ ~muted[chan]
  BY DEF IInv, LaunchInv
<1>4. CASE launch' = NoLaunch
  BY <1>2, <1>4, NoLaunchInv
<1>5. CASE /\ launch'.key = launch.key /\ launch'.note = launch.note
           /\ launch'.trigger = launch.trigger /\ (launch'.left > 0 \/ launch'.kill # NoKey)
  <2>1. key'[chan][launch.key].pressed /\ key'[chan][launch.key].events = key[chan][launch.key].events
    BY <1>1, <1>3 DEF SameEvents
  <2> QED
    BY <1>2, <1>3, <1>5, <2>1 DEF LaunchInv, NotesOn, Begins
<1> QED
  BY <1>2, <1>4, <1>5

\* What is left of the invariant when a voice of a note is launched, or stolen, or is not
LEMMA Continued ==
  ASSUME IInv, Launching, Continue, TypeOK', ListsInv', InitInv', SpentInv', TheftsInv',
         UNCHANGED <<phase, chan, queue, notes, muted, pedal, held, missed>>,
         \A c \in Chans, k \in Keys : key'[c][k].pressed = key[c][k].pressed /\ SameEvents(c, k),
         \A v \in Voices : voice[v].state # "free" =>
            /\ voice'[v].env = voice[v].env /\ voice'[v].trigger = voice[v].trigger
            /\ voice[v].killed => voice'[v].killed,
         \A c \in Chans, k \in Keys : \A v \in VoicesOn(c, k)' :
            \/ v \in VoicesOn(c, k)
            \/ c = chan /\ k = launch.key /\ voice'[v].trigger = launch.trigger,
         \A i \in DOMAIN stolen' :
            \/ SameTheft(i) /\ stolen'[i].note = stolen[i].note
            \/ /\ stolen'[i].chan = chan /\ stolen'[i].key = launch.key
               /\ stolen'[i].note = launch.note /\ stolen'[i].trigger = launch.trigger
  PROVE  IInv'
<1>1. phase = "process" /\ phase' = "process" /\ launch.left > 0 /\ chan \in Chans /\ launch \in LaunchRecord
  BY TypeParts DEF IInv, ReadTypes, Launching
<1>2. /\ launch.key \in Keys /\ launch.note \in NotesOn(chan, launch.key) /\ ~muted[chan]
      /\ key[chan][launch.key].pressed /\ Begins(chan, launch.key, launch.trigger)
      /\ launch.trigger \in Nat
  BY <1>1 DEF IInv, LaunchInv, LaunchRecord
<1>3. launch' \in LaunchRecord /\ launch'.kill = launch.kill /\ LaunchInv'
  BY <1>1, ContinueKept
<1>4. WorkInv'
  BY <1>1, <1>2, WorkKept
<1>5. \A c \in Chans, k \in Keys : Grown(c, k)
  BY GrownFacts DEF IInv
<1>6. /\ key'[chan][launch.key].pressed
      /\ key'[chan][launch.key].events = key[chan][launch.key].events
  BY <1>1, <1>2 DEF SameEvents
<1>7. EventsInv'
  <2>1. \A i \in DOMAIN stolen' : SameTheft(i) \/
            /\ stolen'[i].chan \in Chans /\ stolen'[i].key \in Keys /\ stolen'[i].trigger \in Nat
            /\ Begins(stolen[i].chan, stolen[i].key, stolen[i].trigger)'
    BY <1>1, <1>2, <1>6 DEF Begins
  <2>2. \A c \in Chans, k \in Keys : \A v \in VoicesOn(c, k)' :
            v \in VoicesOn(c, k) \/ Begins(c, k, voice[v].trigger)'
    BY <1>1, <1>2, <1>6 DEF Begins
  <2> QED
    BY <1>1, <1>5, <2>1, <2>2, EventsStep
<1>8. PlayerInv'
  BY PlayerKept DEF IInv, held
<1>9. \A c, k : c = chan /\ k = launch.key => MayHang(c, k)'
  BY <1>6 DEF MayHang
<1>10. ASSUME NEW c \in Chans, NEW k \in Keys PROVE Settled(c, k)
  <2>1. MayHang(c, k) => MayHang(c, k)'
    BY <1>1, <1>3 DEF MayHang, held, ShouldReleaseVoice
  <2> QED
    BY <2>1 DEF Settled
<1>11. HoldInv'
  <2>1. \A i \in DOMAIN stolen' : SameTheft(i) \/ MayHang(stolen[i].chan, stolen[i].key)'
    BY <1>6 DEF MayHang
  <2>2. \A c \in Chans, k \in Keys : \A v \in VoicesOn(c, k)' : v \in VoicesOn(c, k) \/ MayHang(c, k)'
    BY <1>9
  <2> QED
    BY <1>1, <1>10, <2>1, <2>2, HoldStep
<1> QED
  BY <1>3, <1>4, <1>7, <1>8, <1>11 DEF IInv

\* Giving up on a voice keeps the invariant.
LEMMA KeepTooManyThefts == ASSUME IInv, TooManyThefts PROVE IInv'
<1>1. /\ Launching /\ Continue /\ phase = "process" /\ launch.left > 0
      /\ UNCHANGED <<scenario, phase, chan, queue, fragment, stealing, lists, key, voice, pedal, solo, muted,
                     held, uncounted, missed>>
  BY DEF TooManyThefts, Launching
<1>2. TypeOK /\ ReadTypes /\ ListTypes /\ launch \in LaunchRecord
  BY TypeParts DEF IInv
<1>3. /\ key' \in [Chans -> [Keys -> KeyRecord]] /\ SameThefts
      /\ \A d \in Chans, k \in Keys : key'[d][k].pressed = key[d][k].pressed /\ SameEvents(d, k)
  BY <1>1, <1>2, SameKeys
<1>4. ListTypes' /\ ListsInv' /\ SameVoices
  BY <1>1, <1>2, SameSets, ListsKept DEF IInv, SameStates, SameVoices
<1>5. TypeOK'
  <2>1. ReadTypes'
    BY <1>1, <1>2 DEF ReadTypes, fragment, held
  <2>2. launch' \in LaunchRecord
    BY <1>1, <1>2, ContinueFacts
  <2> QED
    BY <1>1, <1>2, <1>3, <1>4, <2>1, <2>2, TypeParts, TypePartsNext DEF held, stealing
<1>6. InitInv'
  BY <1>1, <1>4, InitKept DEF IInv
<1>7. SpentInv'
  BY <1>1, <1>2, NoneSpent, TypeParts DEF stealing
<1>8. TheftsInv'
  <2>1. Dying' = Dying
    BY <1>1 DEF Dying
  <2> QED
    BY <1>1, <1>3, <2>1, TheftsKept DEF stealing
<1>9. \A i \in DOMAIN stolen' : SameTheft(i) /\ stolen'[i].note = stolen[i].note
  BY <1>1 DEF SameTheft, stealing
<1> QED
  BY <1>1, <1>3, <1>4, <1>5, <1>6, <1>7, <1>8, <1>9, Continued DEF SameVoices, lists

\* Launching a voice keeps the invariant: VoiceSpawnsLeft counts it.
LEMMA KeepLaunchVoice == ASSUME IInv, LaunchVoice PROVE IInv'
<1>1. PICK v \in FreeVoices : Launched(launch.note, v, "init", launch.trigger)
  BY DEF LaunchVoice
<1>2. /\ Launching /\ Continue /\ phase = "process" /\ launch.left > 0 /\ spawnsLeft' = spawnsLeft - 1
      /\ UNCHANGED <<scenario, phase, chan, queue, fragment, stolen, lastStolen, active, notes, key, pedal,
                     solo, muted, held, uncounted, missed>>
  BY DEF LaunchVoice, Launching
<1>3. TypeOK /\ ReadTypes /\ ListTypes /\ launch \in LaunchRecord /\ chan \in Chans /\ spawnsLeft \in Int /\ ListsInv
  BY TypeParts DEF IInv, ReadTypes
<1>4. /\ launch.key \in Keys /\ launch.note \in NotesOn(chan, launch.key) /\ ~muted[chan]
      /\ launch.trigger \in Nat
  BY <1>2, <1>3 DEF IInv, LaunchInv, LaunchRecord
<1>5. /\ ListTypes' /\ ListsInv' /\ voice' \in [Voices -> Voice] /\ v \in Voices
      /\ voice[v].state = "free" /\ voice'[v].state = "init" /\ ~voice'[v].killed
      /\ voice'[v].env = "on" /\ voice'[v].trigger = launch.trigger
      /\ \A w \in Voices : w # v => voice'[w] = voice[w]
      /\ \A d \in Chans, l \in Keys, w \in Voices :
           w \in VoicesOn(d, l)' <=> w \in VoicesOn(d, l) \/ (w = v /\ d = chan /\ l = launch.key)
  <2>1. UNCHANGED <<active, notes>>
    BY <1>2
  <2> QED
    BY <1>1, <1>3, <1>4, <2>1, LaunchedFacts
<1>6. /\ key' \in [Chans -> [Keys -> KeyRecord]] /\ SameThefts
      /\ \A d \in Chans, k \in Keys : key'[d][k].pressed = key[d][k].pressed /\ SameEvents(d, k)
  BY <1>2, <1>3, SameKeys
<1>7. TypeOK'
  <2>1. ReadTypes'
    BY <1>2, <1>3 DEF ReadTypes, fragment, held
  <2>2. launch' \in LaunchRecord
    BY <1>2, <1>3, ContinueFacts
  <2>3. spawnsLeft' \in Int
    BY <1>2, <1>3
  <2> QED
    BY <1>2, <1>3, <1>5, <1>6, <2>1, <2>2, <2>3, TypeParts, TypePartsNext DEF held
<1>8. InitInv'
  <2> SUFFICES ASSUME NEW w \in Voices
               PROVE  /\ voice'[w].state = "init" =>
                           \E c \in Chans, k \in Keys : w \in VoicesOn(c, k)' /\ ~muted'[c]
                      /\ voice'[w].state # "init" => voice'[w].trigger = 0
    BY <1>2 DEF InitInv
  <2>1. CASE w = v
    BY <1>2, <1>3, <1>4, <1>5, <2>1
  <2>2. CASE w # v
    BY <1>2, <1>5, <2>2 DEF IInv, InitInv
  <2> QED
    BY <2>1, <2>2
<1>9. SpentInv'
  <2>1. Cardinality({v}) = 1
    BY FS_Singleton
  <2>2. /\ {v} \in SUBSET Voices
        /\ spawnsLeft' \in Int /\ spawnsLeft' <= spawnsLeft - Cardinality({v})
    BY <1>2, <1>3, <1>5, <2>1
  <2>3. \A w \in Voices : /\ voice'[w].state = "init" => voice[w].state = "init" \/ w \in {v}
                          /\ voice'[w].killed => voice[w].killed \/ w \in {v} \/ w \in uncounted'
    BY <1>5
  <2>4. uncounted \subseteq uncounted' /\ phase \in {"import", "process"}
    BY <1>2
  <2> QED
    BY <1>5, <2>2, <2>3, <2>4, SpentKept
<1>10. TheftsInv'
  <2>1. Dying \subseteq Dying'
    BY <1>5 DEF Dying
  <2> QED
    BY <1>2, <1>6, <2>1, TheftsKept
<1>11. \A i \in DOMAIN stolen' : SameTheft(i) /\ stolen'[i].note = stolen[i].note
  BY <1>2 DEF SameTheft
<1>12. \A c \in Chans, k \in Keys : \A w \in VoicesOn(c, k)' :
            \/ w \in VoicesOn(c, k)
            \/ c = chan /\ k = launch.key /\ voice'[w].trigger = launch.trigger
  <2>1. \A c \in Chans, k \in Keys : VoicesOn(c, k)' \subseteq Voices
    BY <1>5, ListFactsNext DEF KeyFacts
  <2> QED
    BY <1>5, <2>1
<1>13. \A w \in Voices : voice[w].state # "free" =>
            /\ voice'[w].env = voice[w].env /\ voice'[w].trigger = voice[w].trigger
            /\ voice[w].killed => voice'[w].killed
  BY <1>5
<1>14. UNCHANGED <<phase, chan, queue, notes, muted, pedal, held, missed>>
  BY <1>2
<1> QED
  BY <1>2, <1>5, <1>6, <1>7, <1>8, <1>9, <1>10, <1>11, <1>12, <1>13, <1>14, Continued

-----------------------------------------------------------------------------
(* Voice stealing *)

\* The circle of channels that is searched has each of them.
LEMMA CircleFacts ==
  ASSUME TypeOK
  PROVE  /\ DOMAIN Circle = 1..Channels /\ Circle \in Seq(Chans)
         /\ \A i \in 1..Channels : Circle[i] \in Chans
         /\ \A c \in Chans : \E i \in 1..Channels : Circle[i] = c
<1> DEFINE C == Channels
           F == FirstOther
<1>1. C \in Nat \ {0} /\ Chans = 1..C /\ chan \in 1..C /\ lastStolen \in 0..C
  BY Numbers DEF TypeOK
<1>2. \A n \in Nat \ {0} : \A x \in 0..n - 1 : x % n = x /\ (x + n) % n = x
  OBVIOUS
<1>3. F \in 1..C
  <2>1. CASE lastStolen # 0
    BY <1>1, <2>1 DEF FirstOther
  <2>2. CASE lastStolen = 0 /\ chan < C
    <3>1. chan \in 0..C - 1
      BY <1>1, <2>2
    <3>2. chan % C = chan
      BY <1>1, <1>2, <3>1
    <3> QED
      BY <1>1, <2>2, <3>2 DEF FirstOther
  <2>3. CASE lastStolen = 0 /\ chan = C
    <3>1. 0 \in 0..C - 1 /\ chan = 0 + C
      BY <1>1, <2>3
    <3>2. chan % C = 0
      BY <1>1, <1>2, <3>1
    <3> QED
      BY <1>1, <2>3, <3>2 DEF FirstOther
  <2> QED
    BY <1>1, <2>1, <2>2, <2>3
<1>4. DOMAIN Circle = 1..C /\ \A i \in 1..C : Circle[i] = ((F + i - 2) % C) + 1
  BY DEF Circle
<1> HIDE DEF F, C
<1>5. \A i \in 1..C : Circle[i] = IF F + i - 1 <= C THEN F + i - 1 ELSE F + i - 1 - C
  <2> SUFFICES ASSUME NEW i \in 1..C
               PROVE  Circle[i] = IF F + i - 1 <= C THEN F + i - 1 ELSE F + i - 1 - C
    OBVIOUS
  <2>1. CASE F + i - 1 <= C
    <3>1. F + i - 2 \in 0..C - 1
      BY <1>1, <1>3, <2>1
    <3>2. (F + i - 2) % C = F + i - 2
      BY <1>1, <1>2, <3>1
    <3>3. Circle[i] = (F + i - 2) + 1
      BY <1>4, <3>2
    <3>4. (F + i - 2) + 1 = F + i - 1
      BY <1>1, <1>3
    <3> QED
      BY <2>1, <3>3, <3>4
  <2>2. CASE ~ (F + i - 1 <= C)
    <3> DEFINE x == F + i - 2 - C
    <3>1. x \in 0..C - 1 /\ F + i - 2 = x + C
      BY <1>1, <1>3, <2>2
    <3>2. (F + i - 2) % C = x
      BY <1>1, <1>2, <3>1
    <3> QED
      BY <1>1, <1>3, <1>4, <2>2, <3>2
  <2> QED
    BY <2>1, <2>2
<1>6. \A i \in 1..C : Circle[i] \in 1..C
  BY <1>1, <1>3, <1>5
<1>7. ASSUME NEW c \in 1..C PROVE \E i \in 1..C : Circle[i] = c
  <2>1. CASE c >= F
    <3>1. c - F + 1 \in 1..C /\ F + (c - F + 1) - 1 = c
      BY <1>1, <1>3, <2>1
    <3> QED
      BY <1>5, <3>1
  <2>2. CASE ~ (c >= F)
    <3> DEFINE i == c - F + 1 + C
    <3>1. i \in 1..C /\ ~ (F + i - 1 <= C) /\ F + i - 1 - C = c
      BY <1>1, <1>3, <2>2
    <3> HIDE DEF i
    <3>2. Circle[i] = c
      BY <1>5, <3>1
    <3> QED
      BY <3>1, <3>2
  <2> QED
    BY <2>1, <2>2
<1>8. Circle \in Seq(Chans)
  <2>1. Circle = [i \in 1..C |-> Circle[i]]
    BY <1>4 DEF Circle
  <2>2. Circle \in [1..C -> Chans]
    BY <1>1, <1>6, <2>1
  <2> QED
    BY <1>1, <2>2
<1> QED
  BY <1>1, <1>4, <1>6, <1>7, <1>8 DEF C

\* The stealable voices of a list.
LEMMA StealableFacts ==
  ASSUME NEW s \in Seq(Voices)
  PROVE  /\ Stealable(s) \in Seq(Voices)
         /\ \A v : v \in ToSet(Stealable(s)) <=> v \in ToSet(s) /\ v \in Voices /\ IsStealable(v)
<1> DEFINE S == {v \in Voices : IsStealable(v)}
<1>1. Stealable(s) = OnlyIn(s, S)
  BY DEF Stealable
<1> HIDE DEF S
<1>2. OnlyIn(s, S) \in Seq(Voices) /\ ToSet(OnlyIn(s, S)) = ToSet(s) \cap S
  BY OnlyInFacts
<1> QED
  BY <1>1, <1>2 DEF S

\* The first element of a sequence.
LEMMA HeadOfSeq ==
  ASSUME NEW S, NEW s \in Seq(S), s # <<>>
  PROVE  Head(s) \in S /\ Head(s) \in ToSet(s)
<1>1. /\ \A i \in 1..Len(s) : s[i] \in S /\ s[i] \in ToSet(s)
      /\ Len(s) \in Nat /\ Len(s) # 0
  BY ElementsBySeq
<1>2. Head(s) = s[1] /\ 1 \in 1..Len(s)
  BY <1>1
<1> QED
  BY <1>1, <1>2

\* The victims on the own channel, and the others with their channels
LEMMA OwnFacts ==
  ASSUME IInv, Launching
  PROVE  /\ Own # <<>> => Head(Own) \in Voices /\ IsStealable(Head(Own))
<1>1. launch.key \in Keys /\ chan \in Chans
  BY DEF IInv, LaunchInv, Launching, TypeOK
<1>2. KeyVoices(chan, launch.key) \in Seq(Voices) /\ ChannelVoices(chan) \in Seq(Voices)
  BY <1>1, Facts DEF KeyFacts, ChannelFacts
<1> DEFINE s == KeyVoices(chan, launch.key) \o ChannelVoices(chan)
<1>3. s \in Seq(Voices)
  BY <1>2, ConcatFacts
<1>4. Own = Stealable(s)
  BY DEF Own
<1> HIDE DEF s
<1>5. Own \in Seq(Voices) /\ \A v \in ToSet(Own) : v \in Voices /\ IsStealable(v)
  BY <1>3, <1>4, StealableFacts
<1> QED
  BY <1>5, HeadOfSeq

Victim == Chans \X Voices

\* The search over all channels reaches every stealable voice.
LEMMA OthersFacts ==
  ASSUME IInv
  PROVE  /\ Others \in Seq(Victim)
         /\ \A o \in ToSet(Others) : o[1] \in Chans /\ o[2] \in Voices /\ IsStealable(o[2])
         /\ \A v \in Voices : IsStealable(v) => Others # <<>>
<1>1. /\ TypeOK /\ ChannelFacts /\ Members
      /\ DOMAIN Circle = 1..Channels /\ Channels \in Nat
      /\ \A i \in 1..Channels : Circle[i] \in Chans
      /\ \A c \in Chans : \E i \in 1..Channels : Circle[i] = c
  BY Facts, CircleFacts, Numbers DEF IInv
<1> DEFINE st(c) == Stealable(ChannelVoices(c))
           part(c) == [j \in DOMAIN st(c) |-> <<c, st(c)[j]>>]
           ss == [i \in 1..Channels |-> part(Circle[i])]
<1>2. Others = FlattenSeq(ss)
  BY <1>1 DEF Others
<1>3. ASSUME NEW c \in Chans
      PROVE  /\ st(c) \in Seq(Voices) /\ part(c) \in Seq(Victim)
             /\ \A o \in ToSet(part(c)) : o[1] = c /\ o[2] \in Voices /\ IsStealable(o[2])
             /\ \A v \in ChannelSet(c) : IsStealable(v) => <<c, v>> \in ToSet(part(c))
  <2>1. /\ st(c) \in Seq(Voices)
        /\ \A v : v \in ToSet(st(c)) <=> v \in ChannelSet(c) /\ v \in Voices /\ IsStealable(v)
    BY <1>1, StealableFacts DEF ChannelFacts, ChannelSet
  <2> DEFINE s == st(c)
  <2> HIDE DEF st
  <2>2. /\ DOMAIN s = 1..Len(s) /\ Len(s) \in Nat
        /\ \A j \in 1..Len(s) : s[j] \in Voices /\ s[j] \in ToSet(s)
        /\ \A x \in ToSet(s) : \E j \in 1..Len(s) : s[j] = x
    BY <2>1, ElementsBySeq
  <2>3. part(c) = [j \in 1..Len(s) |-> <<c, s[j]>>]
    BY <2>2
  <2>4. part(c) \in Seq(Victim)
    <3>1. \A j \in 1..Len(s) : <<c, s[j]>> \in Victim
      BY <2>2 DEF Victim
    <3> HIDE DEF s
    <3>2. [j \in 1..Len(s) |-> <<c, s[j]>>] \in [1..Len(s) -> Victim]
      BY <3>1
    <3> QED
      BY <2>2, <2>3, <3>2
  <2>5. \A o : o \in ToSet(part(c)) <=> \E j \in 1..Len(s) : o = <<c, s[j]>>
    <3> HIDE DEF s, part
    <3> QED
      BY <2>3 DEF ToSet
  <2>6. \A o \in ToSet(part(c)) : o[1] = c /\ o[2] \in Voices /\ IsStealable(o[2])
    <3> HIDE DEF s, part
    <3>1. \A j \in 1..Len(s) : IsStealable(s[j]) /\ s[j] \in Voices
      BY <2>1, <2>2 DEF s
    <3> QED
      BY <2>5, <3>1
  <2>7. \A v \in ChannelSet(c) : IsStealable(v) => <<c, v>> \in ToSet(part(c))
    <3>1. \A v \in ChannelSet(c) : v \in Voices
      BY <1>1 DEF ChannelFacts
    <3> HIDE DEF part
    <3> QED
      BY <2>1, <2>2, <2>5, <3>1
  <2> QED
    BY <2>1, <2>4, <2>6, <2>7 DEF st
<1>4. ss \in Seq(Seq(Victim)) /\ DOMAIN ss = 1..Channels /\ \A i \in 1..Channels : ss[i] = part(Circle[i])
  <2>1. ss \in [1..Channels -> Seq(Victim)]
    <3>1. \A i \in 1..Channels : part(Circle[i]) \in Seq(Victim)
      BY <1>1, <1>3
    <3> HIDE DEF part
    <3> QED
      BY <3>1
  <2> HIDE DEF part
  <2>2. DOMAIN ss = 1..Channels /\ \A i \in 1..Channels : ss[i] = part(Circle[i])
    OBVIOUS
  <2> HIDE DEF ss
  <2> QED
    BY <1>1, <2>1, <2>2
<1> HIDE DEF ss, part, st
<1>5. FlattenSeq(ss) \in Seq(Victim) /\ ToSet(FlattenSeq(ss)) = UNION {ToSet(ss[i]) : i \in DOMAIN ss}
  BY <1>4, FlattenFacts DEF AllOf
<1>6. \A o \in ToSet(Others) : o[1] \in Chans /\ o[2] \in Voices /\ IsStealable(o[2])
  <2>1. \A o \in ToSet(Others) : \E i \in 1..Channels : o \in ToSet(part(Circle[i]))
    BY <1>2, <1>4, <1>5
  <2> QED
    BY <1>1, <1>3, <2>1
<1>7. ASSUME NEW v \in Voices, IsStealable(v) PROVE Others # <<>>
  <2>1. voice[v].state # "free"
    BY <1>7 DEF IsStealable
  <2>2. PICK c \in Chans : v \in ChannelSet(c)
    BY <1>1, <2>1 DEF Members
  <2>3. <<c, v>> \in ToSet(part(c))
    BY <1>3, <1>7, <2>2
  <2>4. PICK i \in 1..Channels : Circle[i] = c
    BY <1>1
  <2>5. <<c, v>> \in ToSet(Others)
    BY <1>2, <1>4, <1>5, <2>3, <2>4
  <2>6. Others \in Seq(Victim)
    BY <1>2, <1>5
  <2> QED
    BY <2>5, <2>6, ElementsBySeq
<1> QED
  BY <1>2, <1>5, <1>6, <1>7

\* The thefts of a key: their number, and what a theft does to the key
LEMMA TheftsSet ==
  ASSUME TypeOK
  PROVE  /\ \A c, k : IsFiniteSet(Thefts(c, k)) /\ Cardinality(Thefts(c, k)) \in Nat
                      /\ Cardinality(Thefts(c, k)) <= Len(stolen)
<1>1. DOMAIN stolen = 1..Len(stolen) /\ Len(stolen) \in Nat
  BY Types
<1>2. IsFiniteSet(1..Len(stolen)) /\ Cardinality(1..Len(stolen)) = Len(stolen)
  <2>1. 1 \in Int /\ Len(stolen) \in Int
    BY <1>1
  <2>2. /\ IsFiniteSet(1..Len(stolen))
        /\ Cardinality(1..Len(stolen)) = IF 1 > Len(stolen) THEN 0 ELSE Len(stolen) - 1 + 1
    BY <2>1, FS_Interval
  <2> QED
    BY <1>1, <2>2
<1>3. \A c, k : Thefts(c, k) \in SUBSET (1..Len(stolen))
  BY <1>1 DEF Thefts
<1>4. \A c, k : IsFiniteSet(Thefts(c, k)) /\ Cardinality(Thefts(c, k)) <= Len(stolen)
  BY <1>2, <1>3, FS_Subset
<1> QED
  BY <1>4, FS_CardinalityType

\* One more theft counts for one key.
LEMMA TheftsAppend ==
  ASSUME TypeOK, NEW t \in QueuedTheft, stolen' = Append(stolen, t)
  PROVE  /\ stolen' \in Seq(QueuedTheft) /\ Len(stolen') = Len(stolen) + 1
         /\ DOMAIN stolen' = 1..Len(stolen) + 1 /\ stolen'[Len(stolen) + 1] = t
         /\ \A i \in 1..Len(stolen) : i \in DOMAIN stolen /\ stolen'[i] = stolen[i]
         /\ \A c, k : /\ t.chan = c /\ t.key = k =>
                           Cardinality(Thefts(c, k)') = Cardinality(Thefts(c, k)) + 1
                      /\ ~ (t.chan = c /\ t.key = k) => Thefts(c, k)' = Thefts(c, k)
<1>1. stolen \in Seq(QueuedTheft) /\ DOMAIN stolen = 1..Len(stolen) /\ Len(stolen) \in Nat
  BY Types
<1>2. /\ stolen' \in Seq(QueuedTheft) /\ Len(stolen') = Len(stolen) + 1
      /\ DOMAIN stolen' = 1..Len(stolen) + 1 /\ stolen'[Len(stolen) + 1] = t
      /\ \A i \in 1..Len(stolen) : stolen'[i] = stolen[i]
  BY <1>1, AppendByIndex
<1> DEFINE L == Len(stolen)
<1>3. ASSUME NEW c, NEW k, t.chan = c, t.key = k
      PROVE  Thefts(c, k)' = Thefts(c, k) \cup {L + 1} /\ L + 1 \notin Thefts(c, k)
  BY <1>1, <1>2, <1>3 DEF Thefts
<1>4. ASSUME NEW c, NEW k, ~ (t.chan = c /\ t.key = k) PROVE Thefts(c, k)' = Thefts(c, k)
  BY <1>1, <1>2, <1>4 DEF Thefts
<1>5. ASSUME NEW c, NEW k, t.chan = c, t.key = k
      PROVE  Cardinality(Thefts(c, k)') = Cardinality(Thefts(c, k)) + 1
  <2>1. IsFiniteSet(Thefts(c, k))
    BY TheftsSet
  <2> HIDE DEF L
  <2> QED
    BY <1>3, <1>5, <2>1, FS_AddElement
<1> QED
  BY <1>1, <1>2, <1>4, <1>5

WithThefts(f, c, k, x) == [f EXCEPT ![c][k].thefts = x]

\* Only the count of one key changes.
LEMMA TheftRecorded ==
  ASSUME NEW f, f \in [Chans -> [Keys -> KeyRecord]], NEW c \in Chans, NEW k \in Keys, NEW x \in 0..MaxVoices
  PROVE  LET g == WithThefts(f, c, k, x)
         IN  /\ g \in [Chans -> [Keys -> KeyRecord]] /\ g[c][k].thefts = x
             /\ g[c][k].pressed = f[c][k].pressed /\ g[c][k].events = f[c][k].events
             /\ \A d \in Chans, l \in Keys : d # c \/ l # k => g[d][l] = f[d][l]
<1> DEFINE r == f[c][k]
           y == [r EXCEPT !.thefts = x]
           g == WithThefts(f, c, k, x)
<1>1. f[c] \in [Keys -> KeyRecord] /\ r \in KeyRecord
  OBVIOUS
<1>2. y \in KeyRecord /\ y.thefts = x /\ y.pressed = r.pressed /\ y.events = r.events
  <2> HIDE DEF r
  <2> QED
    BY <1>1 DEF KeyRecord
<1>3. g = [f EXCEPT ![c] = [f[c] EXCEPT ![k] = y]]
  BY DEF WithThefts
<1> HIDE DEF y, g
<1>4. [f[c] EXCEPT ![k] = y] \in [Keys -> KeyRecord]
  BY <1>1, <1>2
<1>5. g \in [Chans -> [Keys -> KeyRecord]] /\ g[c][k] = y
  BY <1>1, <1>3, <1>4
<1>6. \A d \in Chans, l \in Keys : d # c \/ l # k => g[d][l] = f[d][l]
  BY <1>1, <1>3
<1> QED
  BY <1>2, <1>5, <1>6 DEF g

\* A voice is stolen: it is killed, and the note waits for the voice that replaces it.
LEMMA KeepTheft ==
  ASSUME IInv, Launching, spawnsLeft > 0, NEW v \in Voices, IsStealable(v), Theft(v), Continue,
         lastStolen' \in 0..Channels,
         UNCHANGED <<scenario, phase, chan, queue, fragment, lists, pedal, solo, muted, held,
                     uncounted, missed>>
  PROVE  IInv'
<1>1. /\ TypeOK /\ ReadTypes /\ ListTypes /\ launch \in LaunchRecord /\ chan \in Chans /\ spawnsLeft \in Int
      /\ pedal \in [Chans -> PedalRecord] /\ solo \in [Chans -> SoloRecord] /\ stuck \subseteq Chans \X Keys
      /\ uncounted \in SUBSET Voices /\ missed \in SUBSET Voices
      /\ phase = "process" /\ launch.left > 0
  BY TypeParts DEF IInv, ReadTypes, Launching
<1>2. /\ launch.key \in Keys /\ launch.note \in NotesOn(chan, launch.key) /\ launch.note \in Notes
      /\ launch.trigger \in Nat
  BY <1>1, Facts DEF IInv, LaunchInv, LaunchRecord, SetFacts
<1> DEFINE t == [chan |-> chan, key |-> launch.key, note |-> launch.note,
                 trigger |-> launch.trigger, lost |-> FALSE]
           k == launch.key
<1>3. /\ Kill({v}) /\ spawnsLeft' = spawnsLeft - 1 /\ stolen' = Append(stolen, t)
      /\ key' = [key EXCEPT ![chan][k].thefts = @ + 1]
  BY DEF Theft
<1>4. /\ t \in QueuedTheft /\ t.chan = chan /\ t.key = k /\ t.note = launch.note /\ t.trigger = launch.trigger
  BY <1>1, <1>2 DEF QueuedTheft
<1> HIDE DEF t
<1>5. /\ stolen' \in Seq(QueuedTheft) /\ Len(stolen') = Len(stolen) + 1
      /\ DOMAIN stolen' = 1..Len(stolen) + 1 /\ stolen'[Len(stolen) + 1] = t
      /\ \A i \in 1..Len(stolen) : i \in DOMAIN stolen /\ stolen'[i] = stolen[i]
      /\ \A c, l : /\ t.chan = c /\ t.key = l =>
                        Cardinality(Thefts(c, l)') = Cardinality(Thefts(c, l)) + 1
                   /\ ~ (t.chan = c /\ t.key = l) => Thefts(c, l)' = Thefts(c, l)
  BY <1>1, <1>3, <1>4, TheftsAppend
<1>6. /\ voice' \in [Voices -> Voice]
      /\ \A w \in Voices :
           /\ voice'[w].state = voice[w].state /\ voice'[w].env = voice[w].env
           /\ voice'[w].trigger = voice[w].trigger
           /\ voice'[w].killed = (voice[w].killed \/ (w \in {v} /\ IsKilled(w)))
  BY <1>1, <1>3, KillFacts
<1>7. voice[v].state = "play" /\ ~voice[v].killed /\ voice'[v].killed
  BY <1>6 DEF IsStealable, IsKilled
<1>8. /\ Dying' = Dying \cup {v} /\ v \notin Dying /\ Dying' \subseteq Voices
      /\ Cardinality(Dying') = Cardinality(Dying) + 1 /\ Cardinality(Dying) \in Nat
      /\ Cardinality(Dying') <= MaxVoices
  <2>1. Dying' = Dying \cup {v} /\ v \notin Dying /\ Dying' \subseteq Voices
    BY <1>6, <1>7 DEF Dying
  <2>2. IsFiniteSet(Dying) /\ IsFiniteSet(Voices)
    BY Numbers, FS_Subset DEF Dying
  <2> QED
    BY <2>1, <2>2, FS_AddElement, FS_CardinalityType, FS_Subset DEF MaxVoices
<1>9. Len(stolen') <= Cardinality(Dying') /\ Len(stolen') <= MaxVoices /\ Len(stolen) \in Nat
  <2>1. Len(stolen) <= Cardinality(Dying) /\ Len(stolen) \in Nat
    BY <1>1, Types DEF IInv, TheftsInv
  <2> QED
    BY <1>5, <1>8, <2>1, Numbers
<1>10. key[chan][k].thefts + 1 \in 0..MaxVoices /\ key[chan][k].thefts = Cardinality(Thefts(chan, k))
  <2>1. key[chan][k].thefts = Cardinality(Thefts(chan, k)) /\ key[chan][k].thefts \in 0..MaxVoices
    BY <1>1, <1>2, Types DEF IInv, TheftsInv
  <2>2. Cardinality(Thefts(chan, k)) <= Len(stolen)
    BY <1>1, TheftsSet
  <2> HIDE DEF k
  <2> QED
    BY <1>5, <1>9, <2>1, <2>2, Numbers
<1>11. /\ key' \in [Chans -> [Keys -> KeyRecord]] /\ key'[chan][k].thefts = key[chan][k].thefts + 1
       /\ key'[chan][k].pressed = key[chan][k].pressed /\ key'[chan][k].events = key[chan][k].events
       /\ \A d \in Chans, l \in Keys : d # chan \/ l # k => key'[d][l] = key[d][l]
  <2> DEFINE x == key[chan][k].thefts + 1
  <2>1. key' = WithThefts(key, chan, k, x)
    BY <1>3 DEF WithThefts
  <2>2. key \in [Chans -> [Keys -> KeyRecord]] /\ x \in 0..MaxVoices
    BY <1>1, <1>10, TypeParts
  <2>3. k \in Keys
    BY <1>2
  <2> HIDE DEF x, k
  <2>4. /\ key' \in [Chans -> [Keys -> KeyRecord]] /\ key'[chan][k].thefts = x
        /\ key'[chan][k].pressed = key[chan][k].pressed /\ key'[chan][k].events = key[chan][k].events
        /\ \A d \in Chans, l \in Keys : d # chan \/ l # k => key'[d][l] = key[d][l]
    <3>1. chan \in Chans
      BY <1>1
    <3> DEFINE g == WithThefts(key, chan, k, x)
    <3>2. /\ g \in [Chans -> [Keys -> KeyRecord]] /\ g[chan][k].thefts = x
          /\ g[chan][k].pressed = key[chan][k].pressed /\ g[chan][k].events = key[chan][k].events
          /\ \A d \in Chans, l \in Keys : d # chan \/ l # k => g[d][l] = key[d][l]
      BY <2>2, <2>3, <3>1, TheftRecorded
    <3> QED
      BY <2>1, <3>2
  <2> QED
    BY <2>4 DEF x
<1>12. \A d \in Chans, l \in Keys : key'[d][l].pressed = key[d][l].pressed /\ SameEvents(d, l)
  BY <1>11 DEF SameEvents
<1>13. ListTypes' /\ ListsInv' /\ SameVoices
  BY <1>1, <1>6, SameSets, ListsKept DEF IInv, SameStates, SameVoices
<1>14. TypeOK'
  <2>1. ReadTypes'
    BY <1>1 DEF ReadTypes, fragment, held
  <2>2. launch' \in LaunchRecord
    BY <1>1, ContinueFacts
  <2>3. spawnsLeft' \in Int
    BY <1>1, <1>3
  <2> QED
    BY <1>1, <1>5, <1>6, <1>11, <1>13, <2>1, <2>2, <2>3, TypeParts, TypePartsNext DEF held
<1>15. InitInv'
  BY <1>1, <1>6, <1>13, InitKept DEF IInv
<1>16. SpentInv'
  <2>1. Cardinality({v}) = 1
    BY FS_Singleton
  <2>2. /\ {v} \in SUBSET Voices
        /\ spawnsLeft' \in Int /\ spawnsLeft' <= spawnsLeft - Cardinality({v})
    BY <1>1, <1>3, <2>1
  <2>3. \A w \in Voices : /\ voice'[w].state = "init" => voice[w].state = "init" \/ w \in {v}
                          /\ voice'[w].killed => voice[w].killed \/ w \in {v} \/ w \in uncounted'
    BY <1>6
  <2> QED
    BY <1>1, <1>6, <2>2, <2>3, SpentKept
<1>17. TheftsInv'
  <2>1. ASSUME NEW c \in Chans, NEW l \in Keys PROVE key'[c][l].thefts = Cardinality(Thefts(c, l)')
    <3>1. CASE c = chan /\ l = k
      BY <1>4, <1>5, <1>10, <1>11, <3>1
    <3>2. CASE ~ (c = chan /\ l = k)
      <4>1. key'[c][l].thefts = key[c][l].thefts /\ Thefts(c, l)' = Thefts(c, l)
        BY <1>4, <1>5, <1>11, <3>2
      <4>2. key[c][l].thefts = Cardinality(Thefts(c, l))
        BY DEF IInv, TheftsInv
      <4> QED
        BY <4>1, <4>2
    <3> QED
      BY <3>1, <3>2
  <2> QED
    BY <1>1, <1>9, <2>1 DEF TheftsInv
<1>18. \A i \in DOMAIN stolen' :
          \/ SameTheft(i) /\ stolen'[i].note = stolen[i].note
          \/ /\ stolen'[i].chan = chan /\ stolen'[i].key = launch.key
             /\ stolen'[i].note = launch.note /\ stolen'[i].trigger = launch.trigger
  <2> SUFFICES ASSUME NEW i \in 1..Len(stolen) + 1
               PROVE  \/ SameTheft(i) /\ stolen'[i].note = stolen[i].note
                      \/ /\ stolen'[i].chan = chan /\ stolen'[i].key = launch.key
                         /\ stolen'[i].note = launch.note /\ stolen'[i].trigger = launch.trigger
    BY <1>5
  <2>1. CASE i = Len(stolen) + 1
    BY <1>4, <1>5, <2>1
  <2>2. CASE i # Len(stolen) + 1
    <3>1. i \in 1..Len(stolen)
      BY <1>9, <2>2
    <3> QED
      BY <1>5, <3>1 DEF SameTheft
  <2> QED
    BY <2>1, <2>2
<1>19. \A w \in Voices : /\ voice'[w].env = voice[w].env /\ voice'[w].trigger = voice[w].trigger
                         /\ voice[w].killed => voice'[w].killed
  BY <1>6
<1>20. UNCHANGED <<phase, chan, queue, notes, muted, pedal, held, missed>>
  BY DEF lists
<1>21. \A c \in Chans, l \in Keys : \A w \in VoicesOn(c, l)' : w \in VoicesOn(c, l)
  BY <1>13 DEF SameVoices
<1> QED
  BY <1>12, <1>13, <1>14, <1>15, <1>16, <1>17, <1>18, <1>19, <1>20, <1>21, Continued

\* Stealing a voice keeps the invariant, wherever it was found.
LEMMA KeepStealVoice == ASSUME IInv, StealVoice PROVE IInv'
<1>1. /\ Launching /\ spawnsLeft > 0 /\ Continue
      /\ UNCHANGED <<scenario, phase, chan, queue, fragment, lists, pedal, solo, muted, held, uncounted, missed>>
      /\ \/ Own # <<>> /\ Theft(Head(Own)) /\ UNCHANGED lastStolen
         \/ Others # <<>> /\ Theft(Head(Others)[2]) /\ lastStolen' = Head(Others)[1]
  BY DEF StealVoice
<1>2. CASE Own # <<>> /\ Theft(Head(Own)) /\ UNCHANGED lastStolen
  <2>1. Head(Own) \in Voices /\ IsStealable(Head(Own)) /\ lastStolen' \in 0..Channels
    BY <1>1, <1>2, OwnFacts DEF IInv, TypeOK
  <2> QED
    BY <1>1, <1>2, <2>1, KeepTheft
<1>3. CASE Others # <<>> /\ Theft(Head(Others)[2]) /\ lastStolen' = Head(Others)[1]
  <2>1. Others \in Seq(Victim)
    BY OthersFacts
  <2>2. Head(Others) \in ToSet(Others)
    BY <1>3, <2>1, HeadOfSeq
  <2>3. Head(Others)[1] \in Chans /\ Head(Others)[2] \in Voices /\ IsStealable(Head(Others)[2])
    BY <2>2, OthersFacts
  <2>4. lastStolen' \in 0..Channels
    BY <1>3, <2>3, Numbers
  <2> QED
    BY <1>1, <1>3, <2>3, <2>4, KeepTheft
<1> QED
  BY <1>1, <1>2, <1>3

-----------------------------------------------------------------------------
(* From one channel to the next, and from one fragment to the next *)

\* The keys that the player holds when there are no events left
PlayerDown == \A c \in Chans, k \in Keys : key[c][k].pressed /\ <<c, k>> \notin stuck => k \in down[c]

\* With no events left, the keys are as the player holds them.
LEMMA PlayerEmpty == queue = <<>> => (PlayerInv <=> PlayerDown)
<1> SUFFICES ASSUME queue = <<>> PROVE PlayerInv <=> PlayerDown
  OBVIOUS
<1>1. Len(queue) = 0 /\ DOMAIN queue = {}
  OBVIOUS
<1>2. \A j : j \notin 1..Len(queue)
  BY <1>1
<1>3. \A k : HeldFrom(k, 1) <=> k \in down[chan]
  BY <1>2 DEF HeldFrom
<1> QED
  BY <1>1, <1>3 DEF PlayerInv, PlayerDown

\* PlayerEmpty after a step.
LEMMA PlayerEmptyNext == (queue = <<>> => (PlayerInv <=> PlayerDown))'
BY PlayerEmpty, PTL

\* Steps that do nothing to the lists, the keys and the voices, and take no event
LEMMA NoEvent ==
  ASSUME IInv, phase # "stolen", phase' \notin {"idle", "stolen"}, launch = NoLaunch, queue = <<>>,
         UNCHANGED <<queue, launch, lists, key, voice, held, muted, pedal, stolen, missed>>,
         TypeOK', SpentInv', TheftsInv'
  PROVE  IInv'
<1>1. /\ key' \in [Chans -> [Keys -> KeyRecord]] /\ SameThefts
      /\ \A d \in Chans, k \in Keys : /\ key'[d][k].pressed = key[d][k].pressed /\ SameEvents(d, k)
                                      /\ Grown(d, k)
  BY SameKeys, GrownFacts DEF IInv
<1>2. ListsInv' /\ SameVoices
  BY SameSets, ListsKept DEF IInv, SameStates, SameVoices
<1>3. phase' \in {"import", "process", "render"}
  BY DEF TypeOK
<1>4. WorkInv'
  BY DEF IInv, WorkInv, lists, NotesOn
<1>5. LaunchInv' /\ InitInv'
  BY <1>2, <1>3, NoLaunchInv, InitKept DEF IInv
<1>6. EventsInv'
  BY <1>1, <1>2, EventsStep DEF SameVoices, SameTheft
<1>7. PlayerInv'
  BY PlayerEmpty, PlayerEmptyNext DEF IInv, PlayerDown, held
<1>8. \A c \in Chans, k \in Keys : Settled(c, k)
  BY <1>1, SettledSame DEF ShouldReleaseVoice, held
<1>9. HoldInv'
  BY <1>2, <1>8, HoldStep DEF SameVoices, SameTheft
<1> QED
  BY <1>2, <1>4, <1>5, <1>6, <1>7, <1>9 DEF IInv

\* Going on to the next channel, or to rendering, keeps the invariant.
LEMMA KeepEndEvents == ASSUME IInv, EndEvents PROVE IInv'
<1>1. /\ phase \in {"import", "process"} /\ queue = <<>> /\ launch = NoLaunch /\ lastStolen' = 0
      /\ IF chan = Channels THEN phase' = "render" /\ UNCHANGED chan
         ELSE phase' = "import" /\ chan' = chan + 1
      /\ UNCHANGED <<scenario, queue, launch, fragment, spawnsLeft, stolen, lists, key, voice, pedal, solo,
                     muted, held, uncounted, missed>>
  BY DEF EndEvents
<1>2. TypeOK /\ ReadTypes /\ ListTypes /\ launch \in LaunchRecord
  BY TypeParts DEF IInv
<1>3. chan' \in Chans
  BY <1>1, <1>2, Numbers DEF ReadTypes
<1>4. TypeOK'
  <2>1. ReadTypes'
    BY <1>1, <1>2, <1>3 DEF ReadTypes, fragment, held
  <2>2. ListTypes' /\ lastStolen' \in 0..Channels
    BY <1>1, <1>2, SameSets, Numbers
  <2> QED
    BY <1>1, <1>2, <2>1, <2>2, TypeParts, TypePartsNext DEF held
<1>5. SpentInv'
  BY <1>1, <1>2, NoneSpent, TypeParts
<1>6. TheftsInv'
  <2>1. Dying' = Dying /\ SameThefts
    BY <1>1 DEF Dying, SameThefts
  <2> QED
    BY <1>1, <2>1, TheftsKept
<1> QED
  BY <1>1, <1>4, <1>5, <1>6, NoEvent

\* A fragment starts with as many voices to spend as the pool has.
LEMMA KeepBeginCycle == ASSUME IInv, BeginCycle PROVE IInv'
<1>1. /\ phase = "idle" /\ phase' = "import" /\ chan' = 1 /\ imported' = 0 /\ spawnsLeft' = MaxVoices
      /\ uncounted' = {v \in Voices : voice[v].killed}
      /\ UNCHANGED <<scenario, together, queue, launch, stolen, lastStolen, lists, key, voice, pedal, solo,
                     muted, held, missed>>
  BY DEF BeginCycle
<1>2. TypeOK /\ ReadTypes /\ ListTypes /\ queue = <<>> /\ launch = NoLaunch /\ stolen = <<>>
  BY <1>1, TypeParts DEF IInv, WorkInv
<1>3. TypeOK'
  <2>1. ReadTypes'
    <3>1. 0 \in 0..MaxEvents /\ 1 \in Chans
      BY Numbers, VoiceAllocationAssumption
    <3> QED
      BY <1>1, <1>2, <3>1 DEF ReadTypes, held
  <2>2. ListTypes' /\ spawnsLeft' \in Int /\ uncounted' \in SUBSET Voices
    BY <1>1, <1>2, SameSets, Numbers
  <2> QED
    BY <1>1, <1>2, <2>1, <2>2, TypeParts, TypePartsNext DEF held
<1>4. SpentInv'
  <2>1. \A v \in Voices : voice'[v].state # "init"
    BY <1>1 DEF IInv, InitInv
  <2>2. Spent' = {}
    BY <1>1, <2>1 DEF Spent
  <2>3. Cardinality(Spent') = 0
    BY <2>2, FS_EmptySet
  <2> QED
    BY <1>1, <2>3, Numbers DEF SpentInv
<1>5. TheftsInv'
  <2>1. Len(stolen') = 0 /\ IsFiniteSet(Dying')
    BY <1>1, <1>2, Numbers, FS_Subset DEF Dying
  <2>2. Cardinality(Dying') \in Nat
    BY <2>1, FS_CardinalityType
  <2>3. \A c, k : Thefts(c, k)' = Thefts(c, k)
    BY <1>1 DEF Thefts
  <2> QED
    BY <1>1, <2>1, <2>2, <2>3 DEF IInv, TheftsInv
<1> QED
  BY <1>1, <1>2, <1>3, <1>4, <1>5, NoEvent

\* Between fragments the events have been used up: a voice has the envelope that it has.
LEMMA IdleEnvelope ==
  ASSUME IInv, phase = "idle", NEW c \in Chans, NEW k \in Keys, NEW v \in VoicesOn(c, k)
  PROVE  EnvAfter(voice[v].env, EventsFor(c, k, v)) = voice[v].env
<1>1. v \in Voices /\ k \in Active(c) /\ TypeOK
  BY Facts DEF Members, KeyFacts
<1>2. voice[v].trigger = 0 /\ voice[v].env \in Env
  BY <1>1, Types DEF IInv, InitInv, Voice
<1>3. key[c][k].events = <<>>
  BY <1>1 DEF IInv, EventsInv
<1>4. EventsFor(c, k, v) = <<>>
  <2> DEFINE es == key[c][k].events
  <2>1. es \in Seq(Event) /\ Len(es) = 0 /\ 0 \in Nat /\ 0 <= Len(es)
    BY <1>3
  <2>2. EventsFor(c, k, v) = After(es, 0)
    BY <1>2 DEF EventsFor
  <2> HIDE DEF es
  <2>3. After(es, Len(es)) = <<>>
    BY <2>1, AfterFacts
  <2> QED
    BY <2>1, <2>2, <2>3
<1>5. <<>> \in Seq(Event)
  OBVIOUS
<1> QED
  BY <1>2, <1>4, <1>5, EnvFacts

\* A mute keeps the invariant, since no events are left between fragments.
LEMMA KeepSetMute == ASSUME IInv, NEW m \in Chans, SetMute(m) PROVE IInv'
<1>1. /\ phase = "idle" /\ muted' = [muted EXCEPT ![m] = ~@]
      /\ UNCHANGED <<scenario, phase, chan, queue, launch, fragment, stealing, lists, key, voice, pedal,
                     solo, held, uncounted, missed>>
  BY DEF SetMute
<1>2. TypeOK /\ ReadTypes /\ ListTypes /\ queue = <<>> /\ launch = NoLaunch /\ stolen = <<>>
  BY <1>1, TypeParts DEF IInv, WorkInv
<1>3. TypeOK'
  <2>1. muted' \in [Chans -> BOOLEAN]
    BY <1>1, <1>2 DEF ReadTypes
  <2>2. ReadTypes'
    BY <1>1, <1>2, <2>1 DEF ReadTypes, fragment, held
  <2>3. ListTypes'
    BY <1>1, <1>2, SameSets
  <2> QED
    BY <1>1, <1>2, <2>2, <2>3, TypeParts, TypePartsNext DEF held, stealing
<1>4. ListsInv' /\ SameVoices /\ \A c \in Chans : Active(c)' = Active(c)
  BY <1>1, SameSets, ListsKept DEF IInv, SameStates, SameVoices
<1>5. WorkInv' /\ LaunchInv'
  <2>1. stolen' = <<>> /\ queue' = <<>> /\ launch' = NoLaunch /\ phase' = "idle"
    BY <1>1, <1>2 DEF stealing
  <2>2. DOMAIN stolen' = {} /\ DOMAIN queue' = {}
    BY <2>1
  <2> QED
    BY <2>1, <2>2, NoLaunchInv DEF WorkInv
<1>6. InitInv'
  BY <1>1 DEF IInv, InitInv
<1>7. EventsInv'
  BY <1>1, <1>4 DEF IInv, EventsInv, SameVoices, Begins, stealing
<1>8. SpentInv'
  BY <1>1 DEF SpentInv
<1>9. TheftsInv'
  BY <1>1 DEF IInv, TheftsInv, Thefts, stealing
<1>10. PlayerInv'
  BY <1>1, <1>2, PlayerEmpty, PlayerEmptyNext DEF IInv, PlayerDown, held
<1>11. ASSUME NEW c \in Chans, NEW k \in Keys, NEW v \in VoicesOn(c, k)'
       PROVE  voice'[v].killed \/ v \in missed' \/ (EnvOf(c, k, v)' = "on" => MayHang(c, k)')
  <2>1. v \in VoicesOn(c, k)
    BY <1>4 DEF SameVoices
  <2>2. EnvAfter(voice[v].env, EventsFor(c, k, v)) = voice[v].env
    BY <1>1, <2>1, IdleEnvelope
  <2>3. EnvOf(c, k, v) = voice[v].env /\ EnvOf(c, k, v)' = voice[v].env
    <3>1. EnvAfter(voice'[v].env, EventsFor(c, k, v)') = voice[v].env
      BY <1>1, <2>2 DEF EventsFor
    <3> QED
      BY <1>1, <2>2, <3>1 DEF EnvOf
  <2>4. MayHang(c, k)' <=> MayHang(c, k)
    BY <1>1 DEF MayHang, ShouldReleaseVoice, held
  <2> QED
    BY <1>1, <2>1, <2>3, <2>4 DEF IInv, HoldInv
<1>12. HoldInv'
  <2>1. DOMAIN stolen' = {}
    BY <1>1, <1>2 DEF stealing
  <2> QED
    BY <1>11, <2>1 DEF HoldInv
<1> QED
  BY <1>3, <1>4, <1>5, <1>6, <1>7, <1>8, <1>9, <1>10, <1>12 DEF IInv

\* What PostProcess() does to the lists and keys
LEMMA FreedLists ==
  ASSUME IInv, PostProcess
  PROVE  /\ ListTypes' /\ ListsInv' /\ SameVoices
         /\ \A c \in Chans : Active(c)' \subseteq Active(c)
         /\ \A c \in Chans, k \in Keys : k \in Active(c)' => key'[c][k].events = <<>>
         /\ key' \in [Chans -> [Keys -> KeyRecord]]
         /\ \A c \in Chans, k \in Keys : /\ key'[c][k].pressed = key[c][k].pressed
                                         /\ key'[c][k].thefts = key[c][k].thefts
<1> DEFINE S == {n \in Notes : voices[n] # <<>>}
           K(c) == {k \in Keys : NotesLeft(c, k) # <<>>}
<1>1. /\ notes' = [c \in Chans |-> [k \in Keys |-> NotesLeft(c, k)]]
      /\ active' = [c \in Chans |-> OnlyIn(active[c], K(c))]
      /\ key' = [c \in Chans |-> [k \in Keys |-> [key[c][k] EXCEPT !.events = LeftOver(c, k)]]]
      /\ UNCHANGED <<voices, voice>>
  BY DEF PostProcess
<1>2. ListTypes /\ ListsInv /\ TypeOK /\ SetFacts /\ Members /\ KeyFacts
  BY Facts DEF IInv
<1>3. \A n \in Notes : n \in S <=> VoicesOf(n) # {}
  <2>1. \A n \in Notes : voices[n] \in Seq(Voices)
    BY <1>2 DEF ListTypes
  <2> QED
    BY <2>1, ElementsBySeq DEF VoicesOf
<1>4. ASSUME NEW c \in Chans, NEW k \in Keys
      PROVE  /\ NotesLeft(c, k) \in Seq(Notes) /\ ToSet(NotesLeft(c, k)) = NotesOn(c, k) \cap S
             /\ Distinct(NotesLeft(c, k))
             /\ NotesLeft(c, k) # <<>> <=> NotesOn(c, k) \cap S # {}
  <2>1. notes[c][k] \in Seq(Notes) /\ Distinct(notes[c][k])
    BY <1>2 DEF ListTypes, ListsInv
  <2>2. NotesLeft(c, k) = OnlyIn(notes[c][k], S)
    BY DEF NotesLeft
  <2> HIDE DEF S
  <2>3. /\ NotesLeft(c, k) \in Seq(Notes) /\ ToSet(NotesLeft(c, k)) = NotesOn(c, k) \cap S
        /\ Distinct(NotesLeft(c, k))
    BY <2>1, <2>2, OnlyInFacts DEF NotesOn
  <2> QED
    BY <2>3, ElementsBySeq
<1> HIDE DEF S
<1>5. \A c \in Chans : /\ OnlyIn(active[c], K(c)) \in Seq(Keys) /\ Distinct(OnlyIn(active[c], K(c)))
                       /\ ToSet(OnlyIn(active[c], K(c))) = Active(c) \cap K(c)
  <2> SUFFICES ASSUME NEW c \in Chans
               PROVE  /\ OnlyIn(active[c], K(c)) \in Seq(Keys) /\ Distinct(OnlyIn(active[c], K(c)))
                      /\ ToSet(OnlyIn(active[c], K(c))) = Active(c) \cap K(c)
    OBVIOUS
  <2> DEFINE k == K(c)
  <2> HIDE DEF k
  <2>1. active[c] \in Seq(Keys) /\ Distinct(active[c])
    BY <1>2 DEF ListTypes, ListsInv
  <2>2. /\ OnlyIn(active[c], k) \in Seq(Keys) /\ Distinct(OnlyIn(active[c], k))
        /\ ToSet(OnlyIn(active[c], k)) = ToSet(active[c]) \cap k
    BY <2>1, OnlyInFacts
  <2> QED
    BY <2>2 DEF k, Active
<1>6. /\ \A c \in Chans, k \in Keys : notes'[c][k] = NotesLeft(c, k)
      /\ \A c \in Chans : active'[c] = OnlyIn(active[c], K(c))
  BY <1>1
<1>7. ListTypes'
  <2>1. notes' \in [Chans -> [Keys -> Seq(Notes)]]
    <3>1. \A c \in Chans : [k \in Keys |-> NotesLeft(c, k)] \in [Keys -> Seq(Notes)]
      BY <1>4
    <3> QED
      BY <1>1, <3>1
  <2>2. active' \in [Chans -> Seq(Keys)]
    BY <1>1, <1>5
  <2> QED
    BY <1>1, <1>2, <2>1, <2>2 DEF ListTypes
<1>8. /\ \A c \in Chans, k \in Keys : NotesOn(c, k)' = NotesOn(c, k) \cap S
      /\ \A n : VoicesOf(n)' = VoicesOf(n)
      /\ \A c \in Chans : Active(c)' = Active(c) \cap K(c)
  BY <1>1, <1>4, <1>5, <1>6 DEF NotesOn, VoicesOf, Active
<1>9. \A c \in Chans, k \in Keys : k \in K(c) <=> NotesOn(c, k) \cap S # {}
  BY <1>4
<1> HIDE DEF K
<1>10. ListsInv'
  <2>1. \A c \in Chans : Distinct(active'[c])
    BY <1>5, <1>6
  <2>2. \A c \in Chans, k \in Keys : Distinct(notes'[c][k]) /\ (NotesOn(c, k)' # {} => k \in Active(c)')
    <3>1. \A c \in Chans, k \in Keys : Distinct(notes'[c][k])
      BY <1>4, <1>6
    <3>2. \A c \in Chans, k \in Keys : NotesOn(c, k) # {} => k \in Active(c)
      BY <1>2 DEF ListsInv
    <3> QED
      BY <1>8, <1>9, <3>1, <3>2
  <2>3. \A c, d \in Chans, k, l \in Keys : \A n \in NotesOn(c, k)' \cap NotesOn(d, l)' : c = d /\ k = l
    BY <1>2, <1>8 DEF ListsInv
  <2>4. \A n \in Notes : /\ Distinct(voices'[n])
                         /\ VoicesOf(n)' # {} => \E c \in Chans, k \in Keys : n \in NotesOn(c, k)'
    <3> SUFFICES ASSUME NEW n \in Notes
                 PROVE  /\ Distinct(voices'[n])
                        /\ VoicesOf(n)' # {} => \E c \in Chans, k \in Keys : n \in NotesOn(c, k)'
      OBVIOUS
    <3>1. Distinct(voices'[n])
      BY <1>1, <1>2 DEF ListsInv
    <3>2. ASSUME VoicesOf(n)' # {} PROVE \E c \in Chans, k \in Keys : n \in NotesOn(c, k)'
      <4>1. VoicesOf(n) # {} /\ n \in S
        BY <1>3, <1>8, <3>2
      <4>2. PICK c \in Chans, k \in Keys : n \in NotesOn(c, k)
        BY <1>2, <4>1 DEF ListsInv
      <4> QED
        BY <1>8, <4>1, <4>2
    <3> QED
      BY <3>1, <3>2
  <2>5. /\ \A n, m \in Notes : \A v \in VoicesOf(n)' \cap VoicesOf(m)' : n = m
        /\ \A v \in Voices : voice'[v].state # "free" <=> \E n \in Notes : v \in VoicesOf(n)'
    BY <1>1, <1>2, <1>8 DEF ListsInv
  <2> QED
    BY <2>1, <2>2, <2>3, <2>4, <2>5 DEF ListsInv
<1>11. SameVoices
  <2>1. KeyFacts'
    BY <1>7, ListFactsNext
  <2>2. ASSUME NEW c \in Chans, NEW k \in Keys PROVE VoicesOn(c, k)' = VoicesOn(c, k)
    <3>1. VoicesOn(c, k)' = UNION {VoicesOf(n)' : n \in NotesOn(c, k)'}
      BY <2>1 DEF KeyFacts
    <3>2. VoicesOn(c, k) = UNION {VoicesOf(n) : n \in NotesOn(c, k)}
      BY <1>2 DEF KeyFacts
    <3>3. \A v : v \in VoicesOn(c, k)' <=> \E n \in NotesOn(c, k) \cap S : v \in VoicesOf(n)
      BY <1>8, <3>1
    <3>4. \A v : v \in VoicesOn(c, k) <=> \E n \in NotesOn(c, k) : v \in VoicesOf(n)
      BY <3>2
    <3>5. \A n \in NotesOn(c, k) : n \in S <=> VoicesOf(n) # {}
      BY <1>2, <1>3 DEF SetFacts
    <3>6. \A v : v \in VoicesOn(c, k)' <=> v \in VoicesOn(c, k)
      BY <3>3, <3>4, <3>5
    <3> QED
      BY <3>6
  <2> QED
    BY <2>2 DEF SameVoices
<1>12. ASSUME NEW c \in Chans, NEW k \in Keys
       PROVE  /\ key'[c][k] \in KeyRecord /\ key'[c][k].pressed = key[c][k].pressed
              /\ key'[c][k].thefts = key[c][k].thefts /\ key'[c][k].events = LeftOver(c, k)
  <2>1. key[c][k] \in KeyRecord /\ key[c][k].events \in Seq(Event)
    BY <1>2, TypeParts DEF KeyRecord
  <2>2. LeftOver(c, k) \in Seq(Event)
    <3> DEFINE es == key[c][k].events
               old == [i \in DOMAIN es |-> [es[i] EXCEPT !.fresh = FALSE]]
    <3>1. es \in Seq(Event)
      BY <2>1
    <3> HIDE DEF es
    <3>2. DOMAIN es = 1..Len(es) /\ Len(es) \in Nat /\ \A i \in 1..Len(es) : es[i] \in Event
      BY <3>1
    <3>3. \A e \in Event : [e EXCEPT !.fresh = FALSE] \in Event
      BY DEF Event
    <3>4. \A i \in 1..Len(es) : [es[i] EXCEPT !.fresh = FALSE] \in Event
      BY <3>2, <3>3
    <3>5. old \in [1..Len(es) -> Event]
      BY <3>2, <3>4
    <3>6. old \in Seq(Event) /\ <<>> \in Seq(Event)
      <4> HIDE DEF old
      <4> QED
        BY <3>2, <3>5
    <3>7. LeftOver(c, k) = IF k \in Active(c) THEN <<>> ELSE old
      BY DEF LeftOver, es
    <3> QED
      BY <3>6, <3>7
  <2> DEFINE l == LeftOver(c, k)
             r == key[c][k]
             x == [r EXCEPT !.events = l]
  <2>3. key'[c][k] = x
    BY <1>1
  <2>4. r \in KeyRecord /\ l \in Seq(Event)
    BY <2>1, <2>2
  <2>5. x \in KeyRecord /\ x.pressed = r.pressed /\ x.thefts = r.thefts /\ x.events = l
    <3> HIDE DEF l, r
    <3> QED
      BY <2>4, HeldExcept
  <2> QED
    BY <2>3, <2>5
<1>13. key' \in [Chans -> [Keys -> KeyRecord]]
  <2>1. \A c \in Chans : key'[c] = [k \in Keys |-> key'[c][k]]
    BY <1>1
  <2>2. \A c \in Chans : key'[c] \in [Keys -> KeyRecord]
    BY <1>12, <2>1
  <2>3. key' = [c \in Chans |-> key'[c]]
    BY <1>1
  <2> QED
    BY <2>2, <2>3
<1>14. \A c \in Chans, k \in Keys : k \in Active(c)' => key'[c][k].events = <<>>
  BY <1>8, <1>12 DEF LeftOver
<1>15. \A c \in Chans : Active(c)' \subseteq Active(c)
  BY <1>8
<1> QED
  BY <1>7, <1>10, <1>11, <1>12, <1>13, <1>14, <1>15

\* The end of a fragment keeps the invariant.
LEMMA KeepPostProcess == ASSUME IInv, PostProcess PROVE IInv'
<1>1. /\ phase = "stolen" /\ stolen = <<>> /\ phase' = "idle" /\ chan' = 1
      /\ imported' = 0 /\ spawnsLeft' = 0 /\ together' = FALSE /\ uncounted' = {}
      /\ UNCHANGED <<scenario, missed, queue, launch, stolen, lastStolen, voices, voice, pedal, solo, muted, held>>
  BY DEF PostProcess
<1>2. TypeOK /\ ReadTypes /\ queue = <<>> /\ launch = NoLaunch
  BY <1>1, TypeParts DEF IInv, WorkInv
<1>3. /\ ListTypes' /\ ListsInv' /\ SameVoices
      /\ \A c \in Chans : Active(c)' \subseteq Active(c)
      /\ \A c \in Chans, k \in Keys : k \in Active(c)' => key'[c][k].events = <<>>
      /\ key' \in [Chans -> [Keys -> KeyRecord]]
      /\ \A c \in Chans, k \in Keys : /\ key'[c][k].pressed = key[c][k].pressed
                                      /\ key'[c][k].thefts = key[c][k].thefts
  BY FreedLists
<1>4. TypeOK'
  <2>1. ReadTypes'
    <3>1. 0 \in 0..MaxEvents /\ 1 \in Chans
      BY Numbers, VoiceAllocationAssumption
    <3> QED
      BY <1>1, <1>2, <3>1 DEF ReadTypes, held
  <2>2. spawnsLeft' \in Int /\ uncounted' \in SUBSET Voices
    BY <1>1
  <2> QED
    BY <1>1, <1>2, <1>3, <2>1, <2>2, TypeParts, TypePartsNext DEF held
<1>5. WorkInv' /\ LaunchInv'
  <2>1. DOMAIN stolen' = {} /\ DOMAIN queue' = {}
    BY <1>1, <1>2
  <2> QED
    BY <1>1, <1>2, <2>1, NoLaunchInv DEF WorkInv
<1>6. InitInv' /\ \A v \in Voices : voice[v].trigger = 0
  BY <1>1 DEF IInv, InitInv
<1>7. \A c \in Chans, k \in Keys : \A v \in VoicesOn(c, k)' :
        v \in VoicesOn(c, k) /\ v \in Voices /\ k \in Active(c)' /\ key'[c][k].events = <<>>
  <2>1. Members' /\ KeyFacts'
    BY <1>3, MembersNext, ListFactsNext
  <2>2. \A c \in Chans, k \in Keys : VoicesOn(c, k)' # {} => k \in Active(c)'
    BY <2>1 DEF Members
  <2>3. \A c \in Chans, k \in Keys : VoicesOn(c, k)' \subseteq Voices
    BY <2>1 DEF KeyFacts
  <2> QED
    BY <1>3, <2>2, <2>3 DEF SameVoices
<1>8. EventsInv'
  <2>1. \A c \in Chans, k \in Keys : \A v \in VoicesOn(c, k)' : Begins(c, k, voice[v].trigger)'
    <3> SUFFICES ASSUME NEW c \in Chans, NEW k \in Keys, NEW v \in VoicesOn(c, k)'
                 PROVE  /\ voice'[v].trigger <= Len(key'[c][k].events)
                        /\ \A j \in DOMAIN key'[c][k].events :
                             j > voice'[v].trigger => key'[c][k].events[j].fresh
      BY DEF Begins
    <3>1. key'[c][k].events = <<>> /\ voice'[v].trigger = 0
      BY <1>1, <1>6, <1>7
    <3>2. Len(key'[c][k].events) = 0 /\ DOMAIN key'[c][k].events = {}
      BY <3>1
    <3> QED
      BY <3>1, <3>2
  <2>2. DOMAIN stolen' = {}
    BY <1>1
  <2>3. \A c \in Chans : \A k \in Active(c)' : key'[c][k].events = <<>>
    <3>1. SetFacts'
      BY <1>3, ListFactsNext
    <3> QED
      BY <1>3, <3>1 DEF SetFacts
  <2> QED
    BY <2>1, <2>2, <2>3 DEF EventsInv
<1>9. SpentInv'
  BY <1>1 DEF SpentInv
<1>10. TheftsInv'
  <2>1. \A c, k : Thefts(c, k)' = Thefts(c, k)
    BY <1>1 DEF Thefts
  <2> QED
    BY <1>1, <1>3, <2>1 DEF IInv, TheftsInv
<1>11. PlayerInv'
  BY <1>1, <1>2, <1>3, PlayerEmpty, PlayerEmptyNext DEF IInv, PlayerDown, held
<1>12. ASSUME NEW c \in Chans, NEW k \in Keys, NEW v \in VoicesOn(c, k)'
       PROVE  voice'[v].killed \/ v \in missed' \/ (EnvOf(c, k, v)' = "on" => MayHang(c, k)')
  <2>1. v \in VoicesOn(c, k) /\ v \in Voices /\ key'[c][k].events = <<>>
    BY <1>7
  <2>2. EnvOf(c, k, v) = voice[v].env /\ voice[v].env \in Env
    BY <1>1, <1>2, <2>1, Types DEF EnvOf, Voice
  <2>3. EventsFor(c, k, v)' = <<>>
    <3> DEFINE es == key'[c][k].events
    <3>1. es \in Seq(Event) /\ Len(es) = 0 /\ 0 \in Nat /\ 0 <= Len(es)
      BY <2>1
    <3>2. EventsFor(c, k, v)' = After(es, 0)
      BY <1>1, <1>6, <2>1 DEF EventsFor
    <3> HIDE DEF es
    <3>3. After(es, Len(es)) = <<>>
      BY <3>1, AfterFacts
    <3> QED
      BY <3>1, <3>2, <3>3
  <2>4. EnvAfter(voice[v].env, <<>>) = voice[v].env
    <3>1. <<>> \in Seq(Event)
      OBVIOUS
    <3> QED
      BY <2>2, <3>1, EnvFacts
  <2>5. EnvOf(c, k, v)' = voice[v].env
    BY <1>1, <2>3, <2>4 DEF EnvOf
  <2>6. MayHang(c, k) => MayHang(c, k)'
    <3>1. launch.kill # k
      BY <1>2, Numbers DEF NoLaunch
    <3> QED
      BY <1>1, <1>3, <3>1 DEF MayHang, ShouldReleaseVoice, held
  <2> QED
    BY <1>1, <2>1, <2>2, <2>5, <2>6 DEF IInv, HoldInv
<1>13. HoldInv'
  <2>1. DOMAIN stolen' = {}
    BY <1>1
  <2> QED
    BY <1>12, <2>1 DEF HoldInv
<1> QED
  BY <1>3, <1>4, <1>5, <1>6, <1>8, <1>9, <1>10, <1>11, <1>13 DEF IInv

-----------------------------------------------------------------------------
(* Voices render, and some of them end *)

\* The key that a voice is on
LEMMA HostFacts ==
  ASSUME IInv, NEW c \in Chans, NEW k \in Keys, NEW v \in VoicesOn(c, k)
  PROVE  HostOf(v)[1] = c /\ HostOf(v)[2] = k
<1>1. Members /\ v \in Voices
  BY Facts DEF KeyFacts
<1>2. <<c, k>> \in Chans \X Keys /\ v \in VoicesOn(<<c, k>>[1], <<c, k>>[2])
  OBVIOUS
<1>3. HostOf(v) \in Chans \X Keys /\ v \in VoicesOn(HostOf(v)[1], HostOf(v)[2])
  BY <1>2 DEF HostOf
<1>4. HostOf(v)[1] \in Chans /\ HostOf(v)[2] \in Keys
  BY <1>3
<1> QED
  BY <1>1, <1>3, <1>4 DEF Members

\* The voices that render are those of the channels that are not muted.
LEMMA RenderingFacts ==
  ASSUME IInv
  PROVE  /\ Rendering \subseteq Voices
         /\ \A c \in Chans, k \in Keys : \A v \in VoicesOn(c, k) : v \in Rendering <=> ~muted[c]
         /\ \A v \in Rendering : \E c \in Chans, k \in Keys : v \in VoicesOn(c, k) /\ ~muted[c]
<1>1. Members /\ ChannelFacts /\ KeyFacts
  BY Facts
<1>2. \A v : v \in Rendering <=> \E c \in Chans : ~muted[c] /\ v \in ChannelSet(c)
  BY DEF Rendering, Unmuted
<1>3. Rendering \subseteq Voices
  BY <1>1, <1>2 DEF ChannelFacts
<1>4. \A v \in Rendering : \E c \in Chans, k \in Keys : v \in VoicesOn(c, k) /\ ~muted[c]
  BY <1>1, <1>2, <1>3 DEF Members
<1>5. \A c \in Chans, k \in Keys : \A v \in VoicesOn(c, k) : v \in Rendering <=> ~muted[c]
  <2> SUFFICES ASSUME NEW c \in Chans, NEW k \in Keys, NEW v \in VoicesOn(c, k)
               PROVE  v \in Rendering <=> ~muted[c]
    OBVIOUS
  <2>1. v \in Voices
    BY <1>1 DEF KeyFacts
  <2>2. ~muted[c] => v \in Rendering
    BY <1>1, <1>2, <2>1 DEF Members
  <2>3. v \in Rendering => ~muted[c]
    BY <1>1, <1>4 DEF Members
  <2> QED
    BY <2>2, <2>3
<1> QED
  BY <1>3, <1>4, <1>5

\* Voices that end leave the lists of their notes.
LEMMA EndedLists ==
  ASSUME ListTypes, ListsInv, NEW E \in SUBSET Voices, UNCHANGED <<active, notes>>,
         voices' = [n \in Notes |-> OnlyIn(voices[n], Voices \ E)],
         \A v \in Voices : voice'[v].state = "free" <=> (voice[v].state = "free" \/ v \in E)
  PROVE  /\ ListTypes' /\ ListsInv'
         /\ \A c \in Chans, k \in Keys : VoicesOn(c, k)' = VoicesOn(c, k) \ E
         /\ \A c \in Chans, k \in Keys : NotesOn(c, k)' = NotesOn(c, k)
<1> DEFINE S == Voices \ E
<1> HIDE DEF S
<1>1. ASSUME NEW n \in Notes
      PROVE  /\ voices'[n] \in Seq(Voices) /\ VoicesOf(n)' = VoicesOf(n) \ E
             /\ Distinct(voices'[n])
  <2>1. voices[n] \in Seq(Voices) /\ Distinct(voices[n])
    BY DEF ListTypes, ListsInv
  <2>2. voices'[n] = OnlyIn(voices[n], S)
    BY DEF S
  <2>3. /\ OnlyIn(voices[n], S) \in Seq(Voices) /\ ToSet(OnlyIn(voices[n], S)) = ToSet(voices[n]) \cap S
        /\ Distinct(OnlyIn(voices[n], S))
    BY <2>1, OnlyInFacts
  <2>4. ToSet(voices[n]) \subseteq Voices
    BY ListFacts DEF SetFacts, VoicesOf
  <2> QED
    BY <2>2, <2>3, <2>4 DEF S, VoicesOf
<1>2. ListTypes'
  BY <1>1 DEF ListTypes
<1>3. /\ \A c, k : NotesOn(c, k)' = NotesOn(c, k)
      /\ \A c : Active(c)' = Active(c)
  BY DEF NotesOn, Active
<1>4. ListsInv'
  <2>1. /\ \A c \in Chans : Distinct(active'[c])
        /\ \A c \in Chans, k \in Keys : /\ Distinct(notes'[c][k])
                                        /\ NotesOn(c, k)' # {} => k \in Active(c)'
        /\ \A c, d \in Chans, k, l \in Keys :
             \A n \in NotesOn(c, k)' \cap NotesOn(d, l)' : c = d /\ k = l
    BY <1>3 DEF ListsInv
  <2>2. \A n \in Notes : /\ Distinct(voices'[n])
                         /\ VoicesOf(n)' # {} => \E c \in Chans, k \in Keys : n \in NotesOn(c, k)'
    BY <1>1, <1>3 DEF ListsInv
  <2>3. \A n, m \in Notes : \A v \in VoicesOf(n)' \cap VoicesOf(m)' : n = m
    BY <1>1 DEF ListsInv
  <2>4. \A v \in Voices : voice'[v].state # "free" <=> \E n \in Notes : v \in VoicesOf(n)'
    BY <1>1 DEF ListsInv
  <2> QED
    BY <2>1, <2>2, <2>3, <2>4 DEF ListsInv
<1>5. \A c \in Chans, k \in Keys : VoicesOn(c, k)' = VoicesOn(c, k) \ E
  <2>1. Members /\ Members' /\ KeyFacts /\ KeyFacts'
    BY <1>2, <1>4, MembersOfLists, MembersNext, ListFacts, ListFactsNext
  <2> SUFFICES ASSUME NEW c \in Chans, NEW k \in Keys, NEW v \in Voices
               PROVE  v \in VoicesOn(c, k)' <=> v \in VoicesOn(c, k) \ E
    BY <2>1 DEF KeyFacts
  <2>2. v \in VoicesOn(c, k)' <=> \E n \in Notes : n \in NotesOn(c, k)' /\ v \in VoicesOf(n)'
    BY <2>1 DEF Members
  <2>3. v \in VoicesOn(c, k) <=> \E n \in Notes : n \in NotesOn(c, k) /\ v \in VoicesOf(n)
    BY <2>1 DEF Members
  <2> QED
    BY <1>1, <1>3, <2>2, <2>3
<1> QED
  BY <1>2, <1>3, <1>4, <1>5

Renders(E) ==
    /\ E \in SUBSET Rendering /\ \A v \in Rendering : MustEnd(v) => v \in E
    /\ voice' = [v \in Voices |->
          IF v \in E THEN FreeVoice
          ELSE IF v \in Rendering THEN Rendered(HostOf(v)[1], HostOf(v)[2], v)
          ELSE voice[v]]
    /\ voices' = [n \in Notes |-> OnlyIn(voices[n], Voices \ E)]
    /\ missed' = missed \ E

\* What becomes of a voice
LEMMA RenderedFacts ==
  ASSUME IInv, phase = "render", NEW E, Renders(E)
  PROVE  /\ E \in SUBSET Voices /\ voice' \in [Voices -> Voice]
         /\ \A v \in E : voice'[v] = FreeVoice
         /\ \A v \in Voices \ E : v \notin Rendering => voice'[v] = voice[v]
         /\ \A v \in Voices \ E : v \in Rendering => voice'[v].state = "play" /\ voice'[v].trigger = 0
         /\ \A c \in Chans, k \in Keys : \A v \in VoicesOn(c, k) : v \notin E /\ ~muted[c] =>
              voice'[v].env = IF voice[v].killed THEN "fade" ELSE EnvOf(c, k, v)
<1>1. E \in SUBSET Voices
  BY RenderingFacts DEF Renders
<1>2. /\ \A v \in E : voice'[v] = FreeVoice
      /\ \A v \in Voices \ E : v \notin Rendering => voice'[v] = voice[v]
  BY <1>1 DEF Renders
<1>3. ASSUME NEW c \in Chans, NEW k \in Keys, NEW v \in VoicesOn(c, k), v \notin E, ~muted[c]
      PROVE  /\ voice'[v] \in Voice /\ voice'[v].state = "play" /\ voice'[v].trigger = 0
             /\ voice'[v].env = IF voice[v].killed THEN "fade" ELSE EnvOf(c, k, v)
  <2>1. v \in Voices /\ v \in Rendering /\ voice[v] \in Voice
    BY <1>3, RenderingFacts, EnvOfFacts
  <2>2. voice'[v] = Rendered(c, k, v)
    BY <1>3, <2>1, HostFacts DEF Renders
  <2>3. EventsFor(c, k, v) \in Seq(Event) /\ EnvOf(c, k, v) = EnvAfter(voice[v].env, EventsFor(c, k, v))
    BY <1>3, EnvOfFacts
  <2>4. EnvOf(c, k, v) \in Env
    <3>1. voice[v].env \in Env
      BY <2>1 DEF Voice
    <3> QED
      BY <2>3, <3>1, EnvFacts
  <2>5. Rendered(c, k, v) = [state |-> "play", killed |-> FALSE, trigger |-> 0,
                             env |-> IF voice[v].killed THEN "fade" ELSE EnvOf(c, k, v)]
    BY <2>3 DEF Rendered
  <2> DEFINE e == IF voice[v].killed THEN "fade" ELSE EnvOf(c, k, v)
  <2>6. e \in Env
    BY <2>4 DEF Env
  <2> HIDE DEF e
  <2>7. voice'[v] = [state |-> "play", killed |-> FALSE, trigger |-> 0, env |-> e]
    BY <2>2, <2>5 DEF e
  <2>8. voice'[v] \in Voice /\ voice'[v].state = "play" /\ voice'[v].trigger = 0 /\ voice'[v].env = e
    BY <2>6, <2>7 DEF Voice
  <2> QED
    BY <2>8 DEF e
<1>4. \A v \in Voices \ E : v \in Rendering =>
        voice'[v].state = "play" /\ voice'[v].trigger = 0 /\ voice'[v] \in Voice
  BY <1>3, RenderingFacts
<1>5. FreeVoice \in Voice
  BY DEF FreeVoice, Voice, Env
<1>6. \A v \in Voices : voice[v] \in Voice
  BY Types DEF IInv
<1>7. \A v \in Voices : voice'[v] \in Voice
  BY <1>2, <1>4, <1>5, <1>6
<1>8. voice' \in [Voices -> Voice]
  <2>1. voice' = [v \in Voices |-> voice'[v]]
    BY DEF Renders
  <2> QED
    BY <1>7, <2>1
<1> QED
  BY <1>1, <1>2, <1>3, <1>4, <1>8

\* Rendering keeps the invariant: a voice ends for each theft.
LEMMA KeepRenderActiveVoices == ASSUME IInv, RenderActiveVoices PROVE IInv'
<1> PICK E \in SUBSET Rendering :
      /\ \A v \in Rendering : MustEnd(v) => v \in E
      /\ voice' = [v \in Voices |->
            IF v \in E THEN FreeVoice
            ELSE IF v \in Rendering THEN Rendered(HostOf(v)[1], HostOf(v)[2], v)
            ELSE voice[v]]
      /\ voices' = [n \in Notes |-> OnlyIn(voices[n], Voices \ E)]
      /\ missed' = missed \ E
  BY DEF RenderActiveVoices
<1>1. /\ phase = "render" /\ phase' = "stolen"
      /\ UNCHANGED <<scenario, chan, queue, launch, fragment, stealing, active, notes, key, pedal, solo,
                     muted, held, uncounted>>
  BY DEF RenderActiveVoices
<1>2. Renders(E)
  BY DEF Renders
<1>3. /\ E \in SUBSET Voices /\ voice' \in [Voices -> Voice]
      /\ \A v \in E : voice'[v] = FreeVoice
      /\ \A v \in Voices \ E : v \notin Rendering => voice'[v] = voice[v]
      /\ \A v \in Voices \ E : v \in Rendering => voice'[v].state = "play" /\ voice'[v].trigger = 0
      /\ \A c \in Chans, k \in Keys : \A v \in VoicesOn(c, k) : v \notin E /\ ~muted[c] =>
           voice'[v].env = IF voice[v].killed THEN "fade" ELSE EnvOf(c, k, v)
  BY <1>1, <1>2, RenderedFacts
<1>4. TypeOK /\ ListTypes /\ ListsInv /\ Members /\ KeyFacts
  BY Facts DEF IInv
<1>5. \A v \in Voices : voice'[v].state = "free" <=> (voice[v].state = "free" \/ v \in E)
  <2> SUFFICES ASSUME NEW v \in Voices
               PROVE  voice'[v].state = "free" <=> (voice[v].state = "free" \/ v \in E)
    OBVIOUS
  <2>1. CASE v \in E
    BY <1>3, <2>1 DEF FreeVoice
  <2>2. CASE v \notin E /\ v \notin Rendering
    BY <1>3, <2>2
  <2>3. CASE v \notin E /\ v \in Rendering
    <3>1. voice[v].state # "free"
      BY <1>4, <2>3, RenderingFacts DEF Members
    <3> QED
      BY <1>3, <2>3, <3>1
  <2> QED
    BY <2>1, <2>2, <2>3
<1>6. /\ ListTypes' /\ ListsInv'
      /\ \A c \in Chans, k \in Keys : VoicesOn(c, k)' = VoicesOn(c, k) \ E
      /\ \A c \in Chans, k \in Keys : NotesOn(c, k)' = NotesOn(c, k)
  BY <1>1, <1>3, <1>4, <1>5, EndedLists
<1>7. TypeOK'
  <2>1. ReadTypes'
    <3>1. ReadTypes
      BY <1>4, TypeParts
    <3> QED
      BY <1>1, <3>1 DEF ReadTypes, held, fragment
  <2>2. missed' \in SUBSET Voices
    BY <1>4, TypeParts
  <2> QED
    BY <1>1, <1>3, <1>4, <1>6, <2>1, <2>2, TypeParts, TypePartsNext DEF held, stealing
<1>8. WorkInv'
  <2>1. queue' = <<>> /\ launch' = NoLaunch
    BY <1>1 DEF IInv, WorkInv
  <2>2. DOMAIN queue' = {}
    BY <2>1
  <2>3. \A i \in DOMAIN stolen : stolen[i].chan \in Chans /\ stolen[i].key \in Keys
    BY LostFacts DEF QueuedTheft
  <2>4. ASSUME NEW i \in DOMAIN stolen'
        PROVE  /\ (stolen[i].note \in NotesOn(stolen[i].chan, stolen[i].key))'
               /\ ~muted'[stolen'[i].chan]
    <3>1. UNCHANGED <<stolen, notes, muted>>
      BY <1>1 DEF stealing
    <3>2. stolen[i].note \in NotesOn(stolen[i].chan, stolen[i].key) /\ ~muted[stolen[i].chan]
      BY <2>4, <3>1 DEF IInv, WorkInv
    <3> QED
      BY <3>1, <3>2 DEF NotesOn
  <2> QED
    BY <1>1, <2>1, <2>2, <2>4 DEF WorkInv
<1>9. LaunchInv'
  <2>1. launch' = NoLaunch
    BY <1>1 DEF IInv, WorkInv
  <2> QED
    BY <2>1, NoLaunchInv
<1>10. InitInv'
  <2> SUFFICES ASSUME NEW v \in Voices
               PROVE  voice'[v].state # "init" /\ voice'[v].trigger = 0
    BY DEF InitInv
  <2>1. CASE v \in E
    BY <1>3, <2>1 DEF FreeVoice
  <2>2. CASE v \notin E /\ v \in Rendering
    BY <1>3, <2>2
  <2>3. CASE v \notin E /\ v \notin Rendering
    <3>1. voice[v].state # "init"
      BY <2>3, RenderingFacts DEF IInv, InitInv
    <3>2. voice[v].trigger = 0
      BY <3>1 DEF IInv, InitInv
    <3> QED
      BY <1>3, <2>3, <3>1, <3>2
  <2> QED
    BY <2>1, <2>2, <2>3
<1>11. EventsInv'
  <2>1. UNCHANGED <<stolen, key>>
    BY <1>1 DEF stealing
  <2>2. \A i \in DOMAIN stolen' :
          stolen'[i].trigger <= Len(key'[stolen'[i].chan][stolen'[i].key].events)
    BY <2>1 DEF IInv, EventsInv
  <2> QED
    BY <1>1, <2>2 DEF EventsInv
<1>12. SpentInv'
  BY <1>1 DEF SpentInv
<1>13. TheftsInv'
  <2>1. UNCHANGED <<stolen, key>>
    BY <1>1 DEF stealing
  <2>2. \A c, k : Thefts(c, k)' = Thefts(c, k)
    BY <2>1 DEF Thefts
  <2>3. \A c \in Chans, k \in Keys : key'[c][k].thefts = Cardinality(Thefts(c, k)')
    BY <2>1, <2>2 DEF IInv, TheftsInv
  <2>4. Len(stolen') <= Cardinality((FreeVoices \cup Killed)')
    <3>1. Dying \subseteq (FreeVoices \cup Killed)'
      <4> SUFFICES ASSUME NEW v \in Dying
                   PROVE  v \in Voices /\ (voice'[v].state = "free" \/ voice'[v].killed)
        BY DEF FreeVoices, Killed
      <4>1. v \in Voices /\ voice[v].killed /\ voice[v].state = "play"
        BY DEF Dying
      <4>2. CASE v \in Rendering
        <5>1. v \in E
          BY <4>1, <4>2 DEF MustEnd
        <5> QED
          BY <1>5, <4>1, <5>1
      <4>3. CASE v \notin Rendering
        BY <1>3, <1>5, <4>1, <4>3 DEF Renders
      <4> QED
        BY <4>2, <4>3
    <3>2. IsFiniteSet((FreeVoices \cup Killed)')
      <4>1. (FreeVoices \cup Killed)' \subseteq Voices
        BY DEF FreeVoices, Killed
      <4> QED
        BY <4>1, Numbers, FS_Subset
    <3>3. /\ IsFiniteSet(Dying) /\ Cardinality(Dying) <= Cardinality((FreeVoices \cup Killed)')
      BY <3>1, <3>2, FS_Subset
    <3>4. Cardinality(Dying) \in Nat /\ Cardinality((FreeVoices \cup Killed)') \in Nat
      BY <3>2, <3>3, FS_CardinalityType
    <3>5. Len(stolen) \in Nat /\ Len(stolen) <= Cardinality(Dying)
      BY <1>1, <1>4, Types DEF IInv, TheftsInv
    <3> QED
      BY <2>1, <3>3, <3>4, <3>5
  <2> QED
    BY <1>1, <2>3, <2>4 DEF TheftsInv
<1>14. PlayerInv'
  <2>1. queue = <<>> /\ UNCHANGED <<queue, key, down, stuck>>
    BY <1>1 DEF IInv, WorkInv, held
  <2> QED
    BY <2>1, PlayerEmpty, PlayerEmptyNext DEF IInv, PlayerDown
<1>15. \A c \in Chans, k \in Keys : MayHang(c, k)' <=> MayHang(c, k)
  BY <1>1 DEF MayHang, ShouldReleaseVoice, held
<1>16. ASSUME NEW c \in Chans, NEW k \in Keys, NEW v \in VoicesOn(c, k)'
       PROVE  voice'[v].killed \/ v \in missed' \/ (EnvOf(c, k, v)' = "on" => MayHang(c, k)')
  <2>1. v \in VoicesOn(c, k) /\ v \notin E /\ v \in Voices
    BY <1>4, <1>6 DEF KeyFacts
  <2>2. EnvOf(c, k, v)' = voice'[v].env
    BY <1>1 DEF EnvOf
  <2>3. voice[v].killed \/ v \in missed \/ (EnvOf(c, k, v) = "on" => MayHang(c, k))
    BY <2>1 DEF IInv, HoldInv
  <2>4. CASE muted[c]
    <3>1. voice'[v] = voice[v] /\ EnvOf(c, k, v) = voice[v].env
      BY <1>3, <2>1, <2>4, RenderingFacts DEF EnvOf
    <3> QED
      BY <1>15, <2>1, <2>2, <2>3, <3>1
  <2>5. CASE ~muted[c]
    <3>1. voice'[v].env = IF voice[v].killed THEN "fade" ELSE EnvOf(c, k, v)
      BY <1>3, <2>1, <2>5
    <3> QED
      BY <1>15, <2>1, <2>2, <2>3, <3>1
  <2> QED
    BY <2>4, <2>5
<1>17. ASSUME NEW i \in DOMAIN stolen'
       PROVE  (LostRelease(stolen[i]) \/ MayHang(stolen[i].chan, stolen[i].key))'
  <2>1. UNCHANGED <<stolen, key>>
    BY <1>1 DEF stealing
  <2>2. stolen[i].chan \in Chans /\ stolen[i].key \in Keys
    BY <1>17, <2>1, LostFacts DEF QueuedTheft
  <2>3. LostRelease(stolen[i]) \/ MayHang(stolen[i].chan, stolen[i].key)
    BY <1>17, <2>1 DEF IInv, HoldInv
  <2>4. LostRelease(stolen[i])' <=> LostRelease(stolen[i])
    BY <2>1 DEF LostRelease
  <2>5. MayHang(stolen[i].chan, stolen[i].key)' <=> MayHang(stolen[i].chan, stolen[i].key)
    BY <1>1, <2>1 DEF MayHang, ShouldReleaseVoice, held
  <2> QED
    BY <2>3, <2>4, <2>5
<1>18. HoldInv'
  BY <1>16, <1>17 DEF HoldInv
<1> QED
  BY <1>6, <1>7, <1>8, <1>9, <1>10, <1>11, <1>12, <1>13, <1>14, <1>18 DEF IInv

-----------------------------------------------------------------------------
(* A stolen voice is replaced *)

\* The theft queue without its first element
LEMMA TheftsTail ==
  ASSUME TypeOK, stolen # <<>>, stolen' = Tail(stolen)
  PROVE  /\ 1 \in DOMAIN stolen /\ Head(stolen) = stolen[1] /\ Head(stolen) \in QueuedTheft
         /\ stolen' \in Seq(QueuedTheft) /\ Len(stolen') = Len(stolen) - 1
         /\ \A i \in DOMAIN stolen' : i + 1 \in DOMAIN stolen /\ stolen'[i] = stolen[i + 1]
         /\ \A c, k : Cardinality(Thefts(c, k)') = Cardinality(Thefts(c, k) \ {1})
<1>1. stolen \in Seq(QueuedTheft)
  BY Types
<1>2. /\ Head(stolen) = stolen[1] /\ Head(stolen) \in QueuedTheft
      /\ stolen' \in Seq(QueuedTheft) /\ Len(stolen') = Len(stolen) - 1 /\ Len(stolen) \in Nat \ {0}
      /\ DOMAIN stolen = 1..Len(stolen) /\ DOMAIN stolen' = 1..Len(stolen) - 1
      /\ \A i \in 1..Len(stolen) - 1 : stolen'[i] = stolen[i + 1]
  BY <1>1
<1>3. ASSUME NEW c, NEW k
      PROVE  Cardinality(Thefts(c, k)') = Cardinality(Thefts(c, k) \ {1})
  <2> DEFINE A == Thefts(c, k)'
             B == Thefts(c, k) \ {1}
             f == [i \in A |-> i + 1]
  <2>1. A \subseteq DOMAIN stolen' /\ B \subseteq DOMAIN stolen
    BY DEF Thefts
  <2>2. \A i \in A : i + 1 \in B
    BY <1>2, <2>1 DEF Thefts
  <2>3. \A j \in B : j - 1 \in A /\ j = (j - 1) + 1
    BY <1>2, <2>1 DEF Thefts
  <2>4. IsFiniteSet(A)
    <3>1. IsFiniteSet(1..Len(stolen) - 1)
      BY <1>2, FS_Interval
    <3> QED
      BY <1>2, <2>1, <3>1, FS_Subset
  <2> HIDE DEF A, B
  <2>5. f \in [A -> B]
    BY <2>2
  <2>6. \A x, y \in A : f[x] = f[y] => x = y
    BY <1>2, <2>1
  <2>7. \A y \in B : \E x \in A : f[x] = y
    BY <2>3
  <2>8. f \in Bijection(A, B)
    BY <2>5, <2>6, <2>7 DEF Bijection, Injection, Surjection, IsInjective
  <2>9. ExistsBijection(A, B)
    BY <2>8 DEF ExistsBijection
  <2>10. Cardinality(B) = Cardinality(A)
    BY <2>4, <2>9, FS_Bijection
  <2> QED
    BY <2>10 DEF A, B
<1> QED
  BY <1>2, <1>3

Serves ==
    /\ phase = "stolen" /\ stolen # <<>> /\ stolen' = Tail(stolen)
    /\ key' = [key EXCEPT ![Head(stolen).chan][Head(stolen).key].thefts = @ - 1]
    /\ UNCHANGED <<scenario, phase, chan, queue, launch, fragment, lastStolen, active, notes, pedal, solo,
                   muted, held, uncounted>>

\* An element leaves the theft queue, with or without a voice for it.
LEMMA StolenStep ==
  ASSUME IInv, Serves, spawnsLeft' \in Int, missed' \in SUBSET Voices, missed \subseteq missed',
         ListTypes', ListsInv', voice' \in [Voices -> Voice],
         \A v \in Voices : voice'[v] = voice[v] \/ (voice'[v].state = "play" /\ voice'[v].trigger = 0),
         Len(stolen) - 1 <= Cardinality((FreeVoices \cup Killed)'),
         \A c \in Chans, k \in Keys : \A v \in VoicesOn(c, k)' :
            (v \in VoicesOn(c, k) /\ voice'[v] = voice[v]) \/ v \in missed' \/ MayHang(c, k)
  PROVE  IInv'
<1> DEFINE t == Head(stolen)
<1>0. /\ phase = "stolen" /\ UNCHANGED <<phase, chan, queue, launch, pedal, muted, down, stuck, notes>>
  BY DEF Serves, held
<1>1. /\ TypeOK /\ ReadTypes /\ launch \in LaunchRecord /\ lastStolen \in 0..Channels
      /\ pedal \in [Chans -> PedalRecord] /\ solo \in [Chans -> SoloRecord] /\ stuck \subseteq Chans \X Keys
      /\ uncounted \in SUBSET Voices /\ key \in [Chans -> [Keys -> KeyRecord]]
  BY TypeParts DEF IInv
<1>2. /\ 1 \in DOMAIN stolen /\ t = stolen[1] /\ t \in QueuedTheft
      /\ stolen' \in Seq(QueuedTheft) /\ Len(stolen') = Len(stolen) - 1
      /\ \A i \in DOMAIN stolen' : i + 1 \in DOMAIN stolen /\ stolen'[i] = stolen[i + 1]
      /\ \A c, k : Cardinality(Thefts(c, k)') = Cardinality(Thefts(c, k) \ {1})
  BY <1>1, TheftsTail DEF Serves
<1>3. t.chan \in Chans /\ t.key \in Keys
  BY <1>2 DEF QueuedTheft
<1> HIDE DEF t
<1>4. \A c, k : /\ IsFiniteSet(Thefts(c, k)) /\ Cardinality(Thefts(c, k)) \in Nat
                /\ 1 \in Thefts(c, k) <=> (t.chan = c /\ t.key = k)
  <2>1. \A c, k : 1 \in Thefts(c, k) <=> (t.chan = c /\ t.key = k)
    BY <1>2 DEF Thefts
  <2> QED
    BY <1>1, <2>1, TheftsSet
<1>5. \A c, k : Cardinality(Thefts(c, k)') = IF t.chan = c /\ t.key = k
                                             THEN Cardinality(Thefts(c, k)) - 1
                                             ELSE Cardinality(Thefts(c, k))
  <2> SUFFICES ASSUME NEW c, NEW k
               PROVE  Cardinality(Thefts(c, k)') = IF t.chan = c /\ t.key = k
                                                   THEN Cardinality(Thefts(c, k)) - 1
                                                   ELSE Cardinality(Thefts(c, k))
    OBVIOUS
  <2> DEFINE S == Thefts(c, k)
             n == Cardinality(Thefts(c, k)')
  <2>1. IsFiniteSet(S) /\ n = Cardinality(S \ {1}) /\ (1 \in S <=> (t.chan = c /\ t.key = k))
    BY <1>2, <1>4
  <2> HIDE DEF S, n
  <2>2. Cardinality(S \ {1}) = IF 1 \in S THEN Cardinality(S) - 1 ELSE Cardinality(S)
    BY <2>1, FS_RemoveElement
  <2>3. n = IF t.chan = c /\ t.key = k THEN Cardinality(S) - 1 ELSE Cardinality(S)
    BY <2>1, <2>2
  <2> QED
    BY <2>3 DEF S, n
<1> DEFINE x == key[t.chan][t.key].thefts - 1
<1>6. x \in 0..MaxVoices /\ \A c \in Chans, k \in Keys : key[c][k].thefts = Cardinality(Thefts(c, k))
  <2>1. \A c \in Chans, k \in Keys : key[c][k].thefts = Cardinality(Thefts(c, k))
    BY DEF IInv, TheftsInv
  <2>2. key[t.chan][t.key].thefts \in 0..MaxVoices
    BY <1>1, <1>3, Types
  <2>3. Cardinality(Thefts(t.chan, t.key)) # 0
    BY <1>4, FS_EmptySet
  <2>4. key[t.chan][t.key].thefts # 0
    BY <1>3, <2>1, <2>3
  <2>5. x \in 0..MaxVoices
    <3> DEFINE y == key[t.chan][t.key].thefts
    <3>1. y \in 0..MaxVoices /\ y # 0 /\ MaxVoices \in Nat
      BY <2>2, <2>4, Numbers
    <3> HIDE DEF y
    <3>2. y - 1 \in 0..MaxVoices
      BY <3>1
    <3> QED
      BY <3>2 DEF y
  <2> QED
    BY <2>1, <2>5
<1> DEFINE g == WithThefts(key, t.chan, t.key, x)
<1>7. key' = g
  BY DEF WithThefts, t, Serves
<1> HIDE DEF x
<1>8. /\ g \in [Chans -> [Keys -> KeyRecord]] /\ g[t.chan][t.key].thefts = x
      /\ g[t.chan][t.key].pressed = key[t.chan][t.key].pressed
      /\ g[t.chan][t.key].events = key[t.chan][t.key].events
      /\ \A d \in Chans, l \in Keys : d # t.chan \/ l # t.key => g[d][l] = key[d][l]
  <2> DEFINE tc == t.chan
             tk == t.key
  <2>1. tc \in Chans /\ tk \in Keys /\ x \in 0..MaxVoices /\ key \in [Chans -> [Keys -> KeyRecord]]
    BY <1>1, <1>3, <1>6
  <2> HIDE DEF tc, tk
  <2> DEFINE h == WithThefts(key, tc, tk, x)
  <2>2. /\ h \in [Chans -> [Keys -> KeyRecord]] /\ h[tc][tk].thefts = x
        /\ h[tc][tk].pressed = key[tc][tk].pressed /\ h[tc][tk].events = key[tc][tk].events
        /\ \A d \in Chans, l \in Keys : d # tc \/ l # tk => h[d][l] = key[d][l]
    BY <2>1, TheftRecorded
  <2> QED
    BY <2>2 DEF tc, tk
<1> HIDE DEF g
<1>9. /\ key' \in [Chans -> [Keys -> KeyRecord]]
      /\ \A c \in Chans, k \in Keys :
           /\ key'[c][k].pressed = key[c][k].pressed /\ SameEvents(c, k)
           /\ key'[c][k].thefts = IF t.chan = c /\ t.key = k THEN key[c][k].thefts - 1 ELSE key[c][k].thefts
  <2> SUFFICES ASSUME NEW c \in Chans, NEW k \in Keys
        PROVE /\ key'[c][k].pressed = key[c][k].pressed /\ SameEvents(c, k)
              /\ key'[c][k].thefts = IF t.chan = c /\ t.key = k THEN key[c][k].thefts - 1
                                     ELSE key[c][k].thefts
    BY <1>7, <1>8
  <2>1. CASE t.chan = c /\ t.key = k
    BY <1>7, <1>8, <2>1 DEF SameEvents, x
  <2>2. CASE ~(t.chan = c /\ t.key = k)
    BY <1>7, <1>8, <2>2 DEF SameEvents
  <2> QED
    BY <2>1, <2>2
<1>10. TypeOK'
  <2>1. ReadTypes'
    BY <1>1 DEF ReadTypes, held, fragment, Serves
  <2> QED
    BY <1>1, <1>2, <1>9, <2>1, TypePartsNext DEF held, Serves
<1>11. \A c, k : NotesOn(c, k)' = NotesOn(c, k)
  BY <1>0 DEF NotesOn
<1>12. WorkInv'
  <2>1. queue' = <<>> /\ launch' = NoLaunch
    BY <1>0 DEF IInv, WorkInv
  <2>2. DOMAIN queue' = {}
    BY <2>1
  <2>3. ASSUME NEW i \in DOMAIN stolen'
        PROVE  /\ (stolen[i].note \in NotesOn(stolen[i].chan, stolen[i].key))'
               /\ ~muted'[stolen'[i].chan]
    <3>1. i + 1 \in DOMAIN stolen /\ stolen'[i] = stolen[i + 1]
      BY <1>2, <2>3
    <3>2. stolen[i + 1].note \in NotesOn(stolen[i + 1].chan, stolen[i + 1].key) /\ ~muted[stolen[i + 1].chan]
      BY <3>1 DEF IInv, WorkInv
    <3> QED
      BY <1>0, <3>1, <3>2 DEF NotesOn
  <2> QED
    BY <1>0, <2>1, <2>2, <2>3 DEF WorkInv
<1>13. LaunchInv'
  <2>1. launch' = NoLaunch
    BY <1>0 DEF IInv, WorkInv
  <2> QED
    BY <2>1, NoLaunchInv
<1>14. InitInv'
  <2> SUFFICES ASSUME NEW v \in Voices
               PROVE  voice'[v].state # "init" /\ voice'[v].trigger = 0
    BY DEF InitInv
  <2>1. voice[v].state # "init"
    BY <1>0 DEF IInv, InitInv
  <2>2. voice[v].trigger = 0
    BY <2>1 DEF IInv, InitInv
  <2> QED
    BY <2>1, <2>2
<1>15. ASSUME NEW i \in DOMAIN stolen'
       PROVE  /\ i + 1 \in DOMAIN stolen /\ stolen'[i] = stolen[i + 1]
              /\ stolen'[i].chan \in Chans /\ stolen'[i].key \in Keys
              /\ key'[stolen'[i].chan][stolen'[i].key].events = key[stolen'[i].chan][stolen'[i].key].events
  <2>1. i + 1 \in DOMAIN stolen /\ stolen'[i] = stolen[i + 1]
    BY <1>2, <1>15
  <2>2. stolen'[i].chan \in Chans /\ stolen'[i].key \in Keys
    BY <2>1, LostFacts DEF QueuedTheft
  <2> QED
    BY <1>9, <2>1, <2>2 DEF SameEvents
<1>16. EventsInv'
  <2>1. ASSUME NEW i \in DOMAIN stolen'
        PROVE  stolen'[i].trigger <= Len(key'[stolen'[i].chan][stolen'[i].key].events)
    <3>1. stolen[i + 1].trigger <= Len(key[stolen[i + 1].chan][stolen[i + 1].key].events)
      BY <1>15, <2>1, LostFacts
    <3> QED
      BY <1>15, <2>1, <3>1
  <2> QED
    BY <1>0, <2>1 DEF EventsInv
<1>17. SpentInv'
  BY <1>0 DEF SpentInv
<1>18. TheftsInv'
  <2>1. \A c \in Chans, k \in Keys : key'[c][k].thefts = Cardinality(Thefts(c, k)')
    BY <1>5, <1>6, <1>9
  <2> QED
    BY <1>0, <1>2, <2>1 DEF TheftsInv
<1>19. PlayerInv'
  <2>1. queue = <<>> /\ UNCHANGED <<queue, down, stuck>>
    BY <1>0 DEF IInv, WorkInv
  <2> QED
    BY <1>9, <2>1, PlayerEmpty, PlayerEmptyNext DEF IInv, PlayerDown
<1>20. \A c \in Chans, k \in Keys : MayHang(c, k)' <=> MayHang(c, k)
  BY <1>0, <1>9 DEF MayHang, ShouldReleaseVoice
<1>21. ASSUME NEW c \in Chans, NEW k \in Keys, NEW v \in VoicesOn(c, k)'
       PROVE  voice'[v].killed \/ v \in missed' \/ (EnvOf(c, k, v)' = "on" => MayHang(c, k)')
  <2>1. EnvOf(c, k, v)' = voice'[v].env /\ EnvOf(c, k, v) = voice[v].env
    BY <1>0 DEF EnvOf
  <2>2. CASE v \in VoicesOn(c, k) /\ voice'[v] = voice[v]
    <3>1. voice[v].killed \/ v \in missed \/ (EnvOf(c, k, v) = "on" => MayHang(c, k))
      BY <2>2 DEF IInv, HoldInv
    <3> QED
      BY <1>20, <2>1, <2>2, <3>1
  <2>3. CASE v \in missed' \/ MayHang(c, k)
    BY <1>20, <2>3
  <2> QED
    BY <2>2, <2>3
<1>22. ASSUME NEW i \in DOMAIN stolen'
       PROVE  (LostRelease(stolen[i]) \/ MayHang(stolen[i].chan, stolen[i].key))'
  <2> DEFINE u == stolen[i + 1]
  <2>1. i + 1 \in DOMAIN stolen /\ stolen'[i] = u /\ u.chan \in Chans /\ u.key \in Keys
        /\ key'[u.chan][u.key].events = key[u.chan][u.key].events
    BY <1>15, <1>22
  <2>2. LostRelease(u) \/ MayHang(u.chan, u.key)
    BY <2>1 DEF IInv, HoldInv
  <2> HIDE DEF u
  <2>3. LostRelease(stolen[i])' <=> LostRelease(u)
    BY <2>1 DEF LostRelease
  <2>4. MayHang(stolen[i].chan, stolen[i].key)' <=> MayHang(u.chan, u.key)
    BY <1>0, <1>9, <2>1 DEF MayHang, ShouldReleaseVoice
  <2> QED
    BY <2>2, <2>3, <2>4
<1>23. HoldInv'
  BY <1>21, <1>22 DEF HoldInv
<1> QED
  BY <1>10, <1>12, <1>13, <1>14, <1>16, <1>17, <1>18, <1>19, <1>23 DEF IInv

\* Replacing a stolen voice keeps the invariant.
LEMMA KeepRenderStolenVoice == ASSUME IInv, RenderStolenVoice PROVE IInv'
<1> DEFINE t == Head(stolen)
<1>1. Serves /\ UNCHANGED <<active, notes>> /\ phase = "stolen" /\ stolen # <<>>
  BY DEF RenderStolenVoice, Serves
<1>2. /\ TypeOK /\ ListTypes /\ ListsInv /\ KeyFacts /\ Members /\ voice \in [Voices -> Voice]
      /\ missed \in SUBSET Voices /\ spawnsLeft \in Int
  BY Facts, TypeParts DEF IInv
<1>3. 1 \in DOMAIN stolen /\ t = stolen[1] /\ t \in QueuedTheft
  BY <1>1, <1>2, TheftsTail DEF Serves
<1>4. /\ t.chan \in Chans /\ t.key \in Keys /\ t.note \in NotesOn(t.chan, t.key)
      /\ (LostRelease(t) \/ MayHang(t.chan, t.key))
  BY <1>3 DEF IInv, WorkInv, HoldInv, QueuedTheft
<1>5. /\ Len(stolen) \in Nat /\ Len(stolen) <= Cardinality(FreeVoices \cup Killed)
      /\ IsFiniteSet(FreeVoices \cup Killed) /\ Cardinality(FreeVoices \cup Killed) \in Nat
  <2>1. FreeVoices \cup Killed \subseteq Voices
    BY DEF FreeVoices, Killed
  <2> QED
    BY <1>1, <1>2, <2>1, Types, Numbers, FS_Subset, FS_CardinalityType DEF IInv, TheftsInv
<1>6. CASE UNCHANGED <<voice, voices, missed>> /\ spawnsLeft' \in Int
  <2>1. UNCHANGED lists /\ SameStates
    BY <1>1, <1>6 DEF lists, SameStates
  <2>2. ListTypes' /\ ListsInv' /\ \A c, k : VoicesOn(c, k)' = VoicesOn(c, k)
    BY <1>2, <2>1, SameSets, ListsKept
  <2>3. (FreeVoices \cup Killed)' = FreeVoices \cup Killed
    BY <1>6 DEF FreeVoices, Killed
  <2>4. Len(stolen) - 1 <= Cardinality((FreeVoices \cup Killed)')
    <3> DEFINE S == FreeVoices \cup Killed
               T == (FreeVoices \cup Killed)'
    <3>1. T = S /\ Len(stolen) \in Nat /\ Cardinality(S) \in Nat /\ Len(stolen) <= Cardinality(S)
      BY <1>5, <2>3
    <3> HIDE DEF S, T
    <3>2. Len(stolen) - 1 <= Cardinality(T)
      BY <3>1
    <3> QED
      BY <3>2 DEF T
  <2>5. voice' \in [Voices -> Voice] /\ missed' \in SUBSET Voices /\ missed \subseteq missed'
    BY <1>2, <1>6
  <2> QED
    BY <1>1, <1>6, <2>2, <2>4, <2>5, StolenStep
<1>7. ASSUME NEW v \in FreeVoices, Launched(t.note, v, "play", 0),
             missed' = IF LostRelease(t) THEN missed \cup {v} ELSE missed, spawnsLeft' \in Int
      PROVE  IInv'
  <2>1. 0 \in Nat /\ "play" \in {"init", "play"}
    OBVIOUS
  <2>2. /\ ListTypes' /\ ListsInv' /\ voice' \in [Voices -> Voice] /\ v \in Voices
        /\ voice'[v].state = "play" /\ voice'[v].trigger = 0
        /\ \A w \in Voices : w # v => voice'[w] = voice[w]
        /\ \A d \in Chans, l \in Keys, w \in Voices :
             w \in VoicesOn(d, l)' <=> w \in VoicesOn(d, l) \/ (w = v /\ d = t.chan /\ l = t.key)
    <3> DEFINE c == t.chan
               k == t.key
               n == t.note
    <3>1. c \in Chans /\ k \in Keys /\ n \in NotesOn(c, k) /\ Launched(n, v, "play", 0)
      BY <1>4, <1>7
    <3> HIDE DEF c, k, n
    <3>2. /\ ListTypes' /\ ListsInv' /\ voice' \in [Voices -> Voice] /\ v \in Voices
          /\ voice'[v].state = "play" /\ voice'[v].trigger = 0
          /\ \A w \in Voices : w # v => voice'[w] = voice[w]
          /\ \A d \in Chans, l \in Keys, w \in Voices :
               w \in VoicesOn(d, l)' <=> w \in VoicesOn(d, l) \/ (w = v /\ d = c /\ l = k)
      BY <1>1, <1>2, <1>7, <2>1, <3>1, LaunchedFacts
    <3> QED
      BY <3>2 DEF c, k
  <2>3. Len(stolen) - 1 <= Cardinality((FreeVoices \cup Killed)')
    <3> DEFINE S == FreeVoices \cup Killed
               T == (FreeVoices \cup Killed)'
    <3>1. S \ {v} \subseteq T
      BY <2>2 DEF FreeVoices, Killed
    <3>2. T \subseteq Voices
      BY DEF FreeVoices, Killed
    <3>3. v \in S /\ IsFiniteSet(S) /\ Cardinality(S) \in Nat /\ Len(stolen) <= Cardinality(S)
          /\ Len(stolen) \in Nat
      BY <1>5
    <3> HIDE DEF S, T
    <3>4. Cardinality(S \ {v}) = Cardinality(S) - 1
      BY <3>3, FS_RemoveElement
    <3>5. IsFiniteSet(T) /\ Cardinality(T) \in Nat
      BY <3>2, Numbers, FS_Subset, FS_CardinalityType
    <3>6. Cardinality(S \ {v}) <= Cardinality(T)
      BY <3>1, <3>5, FS_Subset
    <3>7. Len(stolen) - 1 <= Cardinality(T)
      BY <3>3, <3>4, <3>5, <3>6
    <3> QED
      BY <3>7 DEF T
  <2>4. ASSUME NEW c \in Chans, NEW k \in Keys, NEW w \in VoicesOn(c, k)'
        PROVE  (w \in VoicesOn(c, k) /\ voice'[w] = voice[w]) \/ w \in missed' \/ MayHang(c, k)
    <3>1. w \in Voices
      BY <2>2, ListFactsNext DEF KeyFacts
    <3>2. CASE w \in VoicesOn(c, k)
      <4>1. w # v
        BY <1>2, <3>1, <3>2 DEF Members, FreeVoices
      <4> QED
        BY <2>2, <3>1, <3>2, <4>1
    <3>3. CASE w = v /\ c = t.chan /\ k = t.key
      BY <1>4, <1>7, <3>3
    <3> QED
      BY <2>2, <3>1, <3>2, <3>3
  <2>5. missed' \in SUBSET Voices /\ missed \subseteq missed'
    BY <1>2, <1>7, <2>2
  <2>6. \A w \in Voices : voice'[w] = voice[w] \/ (voice'[w].state = "play" /\ voice'[w].trigger = 0)
    BY <2>2
  <2> QED
    BY <1>1, <1>7, <2>2, <2>3, <2>4, <2>5, <2>6, StolenStep
<1> QED
  <2>1. \/ UNCHANGED <<voice, voices, missed>> /\ spawnsLeft' \in Int
        \/ /\ spawnsLeft' \in Int
           /\ \E v \in FreeVoices : /\ Launched(t.note, v, "play", 0)
                                    /\ missed' = IF LostRelease(t) THEN missed \cup {v} ELSE missed
    BY <1>2 DEF RenderStolenVoice
  <2> QED
    BY <1>6, <1>7, <2>1

-----------------------------------------------------------------------------
(* The invariant *)

\* Nothing sounds initially.
LEMMA InitIInv == Init => IInv
<1> SUFFICES ASSUME Init PROVE IInv
  OBVIOUS
<1>1. /\ phase = "idle" /\ chan = 1 /\ queue = <<>> /\ launch = NoLaunch /\ stolen = <<>>
      /\ spawnsLeft = 0 /\ lastStolen = 0 /\ stuck = {} /\ uncounted = {} /\ missed = {}
      /\ together = FALSE /\ imported = 0 /\ scenario \in Scenarios
      /\ active = [c \in Chans |-> <<>>]
      /\ key = [c \in Chans |-> [k \in Keys |-> NewKey]]
      /\ notes = [c \in Chans |-> [k \in Keys |-> <<>>]]
      /\ voices = [n \in Notes |-> <<>>]
      /\ voice = [v \in Voices |-> FreeVoice]
      /\ pedal = [c \in Chans |-> [sustain |-> FALSE, sostenuto |-> FALSE, keys |-> {}]]
      /\ solo = [c \in Chans |-> [on |-> FALSE, key |-> NoKey]]
      /\ muted = [c \in Chans |-> FALSE] /\ down = [c \in Chans |-> {}]
  BY DEF Init
<1>2. ListTypes
  BY <1>1 DEF ListTypes
<1>3. /\ \A c \in Chans : Active(c) = {}
      /\ \A c \in Chans, k \in Keys : NotesOn(c, k) = {}
      /\ \A n \in Notes : VoicesOf(n) = {}
  <2>1. ToSet(<<>>) = {}
    BY DEF ToSet
  <2> QED
    BY <1>1, <2>1 DEF Active, NotesOn, VoicesOf
<1>4. \A c \in Chans, k \in Keys : VoicesOn(c, k) = {}
  BY <1>2, <1>3, ListFacts DEF KeyFacts
<1>5. TypeOK
  <2>1. ReadTypes
    <3>1. 0 \in 0..MaxEvents
      BY VoiceAllocationAssumption
    <3>2. <<>> \in Seq(Queued) /\ FALSE \in BOOLEAN
      OBVIOUS
    <3>3. queue \in Seq(Queued) /\ together \in BOOLEAN
      BY <1>1, <3>2, Zenon
    <3>4. muted \in [Chans -> BOOLEAN]
      BY <1>1, <3>2, Zenon
    <3>5. down \in [Chans -> SUBSET Keys]
      BY <1>1
    <3> QED
      BY <1>1, <3>1, <3>3, <3>4, <3>5, Numbers DEF ReadTypes
  <2>2. NoLaunch \in LaunchRecord
    BY DEF NoLaunch, LaunchRecord
  <2>3. NewKey \in KeyRecord
    <3>1. 0 \in 0..MaxVoices /\ <<>> \in Seq(Event)
      BY Numbers
    <3> QED
      BY <3>1 DEF NewKey, KeyRecord
  <2>4. FreeVoice \in Voice
    BY DEF FreeVoice, Voice, Env
  <2>5. [sustain |-> FALSE, sostenuto |-> FALSE, keys |-> {}] \in PedalRecord
    BY DEF PedalRecord
  <2>6. [on |-> FALSE, key |-> NoKey] \in SoloRecord
    BY DEF SoloRecord
  <2>7. 0 \in 0..Channels
    BY Numbers
  <2>8. key \in [Chans -> [Keys -> KeyRecord]]
    BY <1>1, <2>3
  <2>9. /\ voice \in [Voices -> Voice] /\ launch \in LaunchRecord
        /\ stolen \in Seq(QueuedTheft) /\ spawnsLeft \in Int /\ lastStolen \in 0..Channels
    BY <1>1, <2>2, <2>4, <2>7
  <2>10. pedal \in [Chans -> PedalRecord] /\ solo \in [Chans -> SoloRecord]
    BY <1>1, <2>5, <2>6
  <2>11. stuck \subseteq Chans \X Keys /\ uncounted \in SUBSET Voices /\ missed \in SUBSET Voices
    BY <1>1
  <2> QED
    BY <1>2, <2>1, <2>8, <2>9, <2>10, <2>11, TypeParts
<1>6. ListsInv
  <2>1. /\ \A c \in Chans : Distinct(active[c])
        /\ \A c \in Chans, k \in Keys : Distinct(notes[c][k])
        /\ \A n \in Notes : Distinct(voices[n])
    BY <1>1 DEF Distinct
  <2> QED
    BY <1>1, <1>3, <2>1 DEF ListsInv, FreeVoice
<1>7. WorkInv
  <2>1. DOMAIN queue = {} /\ DOMAIN stolen = {}
    BY <1>1
  <2> QED
    BY <1>1, <2>1 DEF WorkInv
<1>8. LaunchInv
  BY <1>1 DEF LaunchInv, NoLaunch
<1>9. InitInv
  BY <1>1 DEF InitInv, FreeVoice
<1>10. EventsInv
  <2>1. DOMAIN stolen = {}
    BY <1>1
  <2> QED
    BY <1>1, <1>3, <1>4, <2>1 DEF EventsInv
<1>11. SpentInv
  BY <1>1 DEF SpentInv
<1>12. TheftsInv
  <2>1. \A c, k : Thefts(c, k) = {}
    BY <1>1 DEF Thefts
  <2>2. \A c \in Chans, k \in Keys : key[c][k].thefts = 0
    BY <1>1 DEF NewKey
  <2> QED
    BY <1>1, <2>1, <2>2, FS_EmptySet DEF TheftsInv
<1>13. PlayerInv
  <2>1. \A c \in Chans, k \in Keys : ~key[c][k].pressed
    BY <1>1 DEF NewKey
  <2> QED
    BY <1>1, <2>1, PlayerEmpty DEF PlayerDown
<1>14. HoldInv
  <2>1. DOMAIN stolen = {}
    BY <1>1
  <2> QED
    BY <1>4, <2>1 DEF HoldInv
<1> QED
  BY <1>5, <1>6, <1>7, <1>8, <1>9, <1>10, <1>11, <1>12, <1>13, <1>14 DEF IInv

\* Every step keeps the invariant.
LEMMA KeepIInv == IInv /\ [Next]_vars => IInv'
<1> SUFFICES ASSUME IInv, [Next]_vars PROVE IInv'
  OBVIOUS
<1>1. CASE BeginCycle
  BY <1>1, KeepBeginCycle
<1>2. ASSUME NEW m \in Message, ImportEvent(m) PROVE IInv'
  BY <1>2, KeepImportEvent
<1>3. CASE ProcessNote
  BY <1>3, KeepProcessNoteOn, KeepReleaseKey, KeepRespawnSolo, KeepIgnoreNoteOn, KeepIgnoreNoteOff,
     KeepKillReleasedKey DEF ProcessNote
<1>4. CASE ProcessControlChange
  <2>1. "mono" \in {"mono", "poly"} /\ "poly" \in {"mono", "poly"}
    OBVIOUS
  <2> QED
    BY <1>4, <2>1, KeepSustainDown, KeepSustainUp, KeepSostenutoDown, KeepSostenutoUp, KeepAllSoundOff,
       KeepSoloMode, KeepResetControllers, KeepReleaseAllVoices DEF ProcessControlChange
<1>5. CASE LaunchVoice
  BY <1>5, KeepLaunchVoice
<1>6. CASE StealVoice
  BY <1>6, KeepStealVoice
<1>7. CASE TooManyThefts
  BY <1>7, KeepTooManyThefts
<1>8. CASE EndEvents
  BY <1>8, KeepEndEvents
<1>9. CASE RenderActiveVoices
  BY <1>9, KeepRenderActiveVoices
<1>10. CASE RenderStolenVoice
  BY <1>10, KeepRenderStolenVoice
<1>11. CASE PostProcess
  BY <1>11, KeepPostProcess
<1>12. ASSUME NEW c \in Chans, SetMute(c) PROVE IInv'
  BY <1>12, KeepSetMute
<1>13. CASE UNCHANGED vars
  <2>1. /\ UNCHANGED <<scenario, phase, chan, queue, launch, together, imported, spawnsLeft, stolen,
                      lastStolen, active, notes, voices, key>>
        /\ UNCHANGED <<voice, pedal, solo, muted, down, stuck, uncounted, missed>>
    BY <1>13 DEF vars, lists, stealing, fragment, held
  <2>2. TypeOK'
    BY <2>1 DEF IInv, TypeOK
  <2>3. /\ \A c : Active(c)' = Active(c)
        /\ \A c, k : NotesOn(c, k)' = NotesOn(c, k) /\ VoicesOn(c, k)' = VoicesOn(c, k)
        /\ \A n : VoicesOf(n)' = VoicesOf(n)
    BY <2>1 DEF Active, NotesOn, VoicesOn, KeyVoices, VoicesOf
  <2>4. ListsInv'
    BY <2>1, <2>3 DEF IInv, ListsInv
  <2>5. WorkInv'
    BY <2>1 DEF IInv, WorkInv, NotesOn
  <2>6. LaunchInv'
    BY <2>1 DEF IInv, LaunchInv, NotesOn, Begins
  <2>7. InitInv'
    BY <2>1, <2>3 DEF IInv, InitInv
  <2>8. EventsInv'
    BY <2>1, <2>3 DEF IInv, EventsInv, Begins
  <2>9. SpentInv'
    BY <2>1 DEF IInv, SpentInv, Spent
  <2>10. TheftsInv'
    BY <2>1 DEF IInv, TheftsInv, Dying, Killed, FreeVoices, Thefts
  <2>11. PlayerInv'
    <3>1. \A k, i : HeldFrom(k, i)' <=> HeldFrom(k, i)
      BY <2>1 DEF HeldFrom
    <3> QED
      BY <2>1, <3>1 DEF IInv, PlayerInv
  <2>12. HoldInv'
    BY <2>1, <2>3 DEF IInv, HoldInv, EnvOf, EventsFor, MayHang, ShouldReleaseVoice, LostRelease
  <2> QED
    BY <2>2, <2>4, <2>5, <2>6, <2>7, <2>8, <2>9, <2>10, <2>11, <2>12 DEF IInv
<1> QED
  BY <1>1, <1>2, <1>3, <1>4, <1>5, <1>6, <1>7, <1>8, <1>9, <1>10, <1>11, <1>12, <1>13 DEF Next, SearchOn

\* The invariant holds always.
LEMMA Invariance == Spec => []IInv
<1>1. Init => IInv
  BY InitIInv
<1>2. IInv /\ [Next]_vars => IInv'
  BY KeepIInv
<1> QED
  BY <1>1, <1>2, PTL DEF Spec

-----------------------------------------------------------------------------
(* The properties *)

\* Every sounding voice is on its lists, and gets the events sent to it once.
LEMMA CompleteFromIInv == IInv => ListsComplete
<1> SUFFICES ASSUME IInv PROVE ListsComplete
  OBVIOUS
<1>1. TypeOK /\ VoicesReachable
  BY Facts, ListsReach DEF IInv
<1>2. ASSUME phase = "render", NEW c \in Chans, NEW k \in Keys, NEW v \in VoicesOn(c, k),
             NEW i \in DOMAIN EventsFor(c, k, v)
      PROVE  EventsFor(c, k, v)[i].fresh
  <2> DEFINE es == key[c][k].events
             n == voice[v].trigger
  <2>1. es \in Seq(Event) /\ n \in Nat /\ n <= Len(es)
    BY <1>2, EnvOfFacts
  <2>2. EventsFor(c, k, v) = After(es, n)
    BY DEF EventsFor
  <2>3. i \in Nat /\ i > 0
    <3>1. EventsFor(c, k, v) \in Seq(Event)
      BY <1>2, EnvOfFacts
    <3> QED
      BY <3>1
  <2>4. \A j \in DOMAIN es : j > n => es[j].fresh
    BY <1>2 DEF IInv, EventsInv, Begins
  <2> HIDE DEF es, n
  <2>5. After(es, n)[i] = es[n + i] /\ n + i \in DOMAIN es
    BY <2>1, <2>2, AfterFacts
  <2>6. n + i > n
    BY <2>1, <2>3
  <2> QED
    BY <2>2, <2>4, <2>5, <2>6
<1> QED
  BY <1>1, <1>2 DEF ListsComplete, StaleEventsIgnored

\* If every voice is spent, VoiceSpawnsLeft has run out.
LEMMA EndsFromIInv == IInv => StealingEnds
<1> SUFFICES ASSUME IInv, Searching, uncounted = {} PROVE FALSE
  BY DEF StealingEnds
<1>1. Launching /\ FreeVoices = {} /\ spawnsLeft > 0 /\ Others = <<>>
  BY DEF Searching
<1>2. \A v \in Voices : voice[v].state = "init" \/ voice[v].killed
  <2>1. \A v \in Voices : ~IsStealable(v)
    BY <1>1, OthersFacts
  <2>2. \A v \in Voices : voice[v].state \in {"init", "play"}
    <3>1. \A v \in Voices : voice[v] \in Voice
      BY Types DEF IInv
    <3> QED
      BY <1>1, <3>1 DEF FreeVoices, Voice
  <2> QED
    BY <2>1, <2>2 DEF IsStealable
<1>3. Spent = Voices
  BY <1>2 DEF Spent
<1>4. Cardinality(Voices) <= MaxVoices - spawnsLeft
  BY <1>1, <1>3 DEF IInv, SpentInv, Launching
<1>5. spawnsLeft \in Int
  BY TypeParts DEF IInv
<1> QED
  BY <1>1, <1>4, <1>5, Numbers DEF MaxVoices

\* Each theft has freed a voice, or waits for one that is muted.
LEMMA ReplacedFromIInv == IInv => StolenIsReplaced
<1> SUFFICES ASSUME IInv, phase = "stolen"
             PROVE  Len(stolen) <= Cardinality(FreeVoices) + Cardinality(Killed)
  BY DEF StolenIsReplaced, Killed
<1> DEFINE S == FreeVoices
           T == Killed
<1>1. IsFiniteSet(S) /\ IsFiniteSet(T)
  BY Numbers, FS_Subset DEF FreeVoices, Killed
<1>2. Len(stolen) <= Cardinality(S \cup T) /\ Len(stolen) \in Nat
  BY Types DEF IInv, TheftsInv
<1> HIDE DEF S, T
<1>3. /\ Cardinality(S) \in Nat /\ Cardinality(T) \in Nat /\ IsFiniteSet(S \cap T)
      /\ Cardinality(S \cup T) = Cardinality(S) + Cardinality(T) - Cardinality(S \cap T)
  BY <1>1, FS_CardinalityType, FS_Union, FS_Intersection
<1>4. Cardinality(S \cap T) \in Nat
  BY <1>3, FS_CardinalityType
<1>5. Len(stolen) <= Cardinality(S) + Cardinality(T)
  BY <1>2, <1>3, <1>4
<1> QED
  BY <1>5 DEF S, T

\* A voice that sounds between fragments has a holder or a reason.
LEMMA HangsFromIInv == IInv => HangsOnlyIfMissed
<1> SUFFICES ASSUME IInv, phase = "idle", NEW c \in Chans, NEW k \in Keys,
                    NEW v \in Sounding(c, k), v \notin missed
             PROVE  k \in down[c] \/ ~ShouldReleaseVoice(c, k) \/ <<c, k>> \in stuck
  BY DEF HangsOnlyIfMissed
<1>1. v \in VoicesOn(c, k) /\ voice[v].env = "on" /\ ~voice[v].killed
  BY DEF Sounding
<1>2. EnvOf(c, k, v) = "on"
  BY <1>1, IdleEnvelope DEF EnvOf
<1>3. MayHang(c, k)
  BY <1>1, <1>2 DEF IInv, HoldInv
<1>4. launch.kill # k
  BY Numbers DEF IInv, WorkInv, NoLaunch
<1>5. key[c][k].pressed => k \in down[c] \/ <<c, k>> \in stuck
  BY PlayerEmpty DEF IInv, WorkInv, PlayerDown
<1> QED
  BY <1>3, <1>4, <1>5 DEF MayHang

-----------------------------------------------------------------------------
(* The variables have their types; voice stealing, rendering and All Sound *)
(* Off find every allocated voice once, going from the active keys to      *)
(* their notes and from these to their voices; and no voice acts on an     *)
(* event of an earlier fragment, although events that were sent to keys    *)
(* that were not active stay in the lists of these keys.                   *)
THEOREM AllListsComplete == Spec => []ListsComplete
<1>1. IInv => ListsComplete
  BY CompleteFromIInv
<1> QED
  BY <1>1, Invariance, PTL

(* StealVoice() finds a voice whenever VoiceSpawnsLeft lets it search,     *)
(* unless a voice was killed without being subtracted from                 *)
(* VoiceSpawnsLeft: the endless loop that it guards against needs solo     *)
(* mode, or a voice killed on a channel that was muted before it faded.    *)
THEOREM AllStealingEnds == Spec => []StealingEnds
<1>1. IInv => StealingEnds
  BY EndsFromIInv
<1> QED
  BY <1>1, Invariance, PTL

(* When RenderStolenVoices() runs, the theft queue is no longer than the   *)
(* free voices and the killed ones that a muted channel has kept together. *)
THEOREM AllStolenReplaced == Spec => []StolenIsReplaced
<1>1. IInv => StolenIsReplaced
  BY ReplacedFromIInv
<1> QED
  BY <1>1, Invariance, PTL

(* Between fragments no voice goes on sounding that neither the player nor *)
(* a pedal holds, other than those that missed their release: the key was  *)
(* released while the channel was muted, a pedal was raised on a muted     *)
(* channel or by ResetControllers(), solo mode could not kill a voice that *)
(* had just started, or the release came before a stolen voice was         *)
(* replaced.                                                               *)
THEOREM NothingElseHangs == Spec => []HangsOnlyIfMissed
<1>1. IInv => HangsOnlyIfMissed
  BY HangsFromIInv
<1> QED
  BY <1>1, Invariance, PTL
=============================================================================
