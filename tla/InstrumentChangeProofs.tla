---------------------- MODULE InstrumentChangeProofs ----------------------
(***************************************************************************)
(* Proofs about InstrumentChange, for any channels, instruments, regions,  *)
(* samples and voices and any number of loads: what holds for as long as   *)
(* instruments were changed, reloaded and unloaded on channels at rest.    *)
(***************************************************************************)
EXTENDS InstrumentChange, FiniteSetTheorems, WellFoundedInduction, TLAPS

-----------------------------------------------------------------------------
(* The inductive invariant *)

\* A step that changes, reloads or unloads instruments of channels at rest only
Orderly ==
  /\ \A c \in Channel, i \in Index : LoadInstrument(c, i) => AtRest(c)
  /\ \A c \in Channel : BorrowExisting(c) /\ pc'[c] = "update" =>
       \A d \in entry[want[c]].users \ {c} : AtRest(d)
  /\ \A c \in Channel : UnloadInstrument(c) => AtRest(c) /\ Empty(c)

\* The copy of the command that the audio thread is to use
Now(c) == cmd[c].copy[cmd[c].cur]

\* The channel is a consumer of this instrument.
Uses(c, inst) == \E i \in Index : entry[i].res = inst /\ c \in entry[i].users
Consumer(c)   == \E i \in Index : c \in entry[i].users

\* The audio thread is to take another instrument, and has left the old command.
Committed(c) == Now(c).change /\ (pc[c] = "clear" => Switched(c))

\* From the first change of the command to the second one, a channel plays nothing new.
Midway   == {"clear", "handback", "borrow", "update", "cleanup", "updated", "change"}
Updating == {"update", "cleanup", "updated"}

\* A load that may yet read the file
Pending == {c \in Channel : pc[c] \in {"clear", "handback", "borrow", "update", "cleanup"}}

\* The file that the manager has open, unless its last instrument is being destroyed
Alive(f) == f = gig.file /\ f # 0 /\ ~Dying

\* Each load, and each change of a mode, reads the file once at most.
FilesInv == /\ gig.made + Cardinality(Pending) <= loads + commands
            /\ loads + commands <= MaxLoads
            /\ gig.file <= gig.made /\ \A f \in mem.files : f <= gig.made

\* What is in use is of a file that has been read.
BornInv ==
  /\ \A v \in Voice : voice[v] # None => voice[v].region[1] <= gig.made
  /\ \A c \in Channel, k \in {0, 1} : \A u \in cmd[c].copy[k].used : u[2][1] <= gig.made
  /\ \A r \in RegionInst : ordered[r] > 0 => r[1] <= gig.made
  /\ \A r \in DOMAIN mem.info : r[1] <= gig.made
  /\ \A s \in DOMAIN mem.refs : s[1] <= gig.made

\* The instruments that are in memory are those of the file that is open.
EntryInv ==
  /\ \A i \in Index : /\ entry[i].res # None => entry[i].res = <<gig.file, i>>
                      /\ entry[i].res = None => entry[i].users = {}
  /\ gig.users = {i \in Index : entry[i].res # None}
  /\ gig.file = 0 <=> gig.users = {}

\* A channel that others wait for while Update() calls them
Resting(d) == pc[d] = "idle" /\ ~Now(d).change

\* The steps of LoadInstrument() and its locks
LoaderInv == \A c \in Channel :
  /\ pc[c] \in Midway => want[c] \in Index /\ Now(c).inst = None
  /\ pc[c] \in Updating <=> entriesMutex = c
  /\ pc[c] = "handback" <=> regionMutex = c
  /\ pc[c] \in Updating =>
       /\ c \in entry[want[c]].users /\ todo \subseteq entry[want[c]].users \ {c}
       /\ \A d \in entry[want[c]].users \ {c} : Resting(d)
  /\ pc[c] = "change" => Uses(c, got[c]) /\ got[c] # None

\* While the instrument is destroyed and created, its other consumers are at rest.
Stopped(d) == played[d] = None /\ ~enabled[d] /\ locked[d] = {} /\ VoicesOf(d) = {}
UpdateInv == \A c \in Channel :
  /\ pc[c] = "update" => \A d \in entry[want[c]].users \ {c} : d \in todo \/ Stopped(d)
  /\ pc[c] = "cleanup" => todo = {} /\ \A d \in entry[want[c]].users \ {c} : Stopped(d)
  /\ pc[c] = "updated" => \A d \in todo : Stopped(d)

\* The command of a channel, and what its audio thread does
CmdInv == \A c \in Channel :
  /\ Now(c).change /\ Now(c).inst # None => Uses(c, Now(c).inst)
  /\ ~Now(c).change /\ Now(c).inst = None => played[c] = None
  /\ Now(c).inst = None /\ pc[c] \in {"idle", "finish"} => ~Consumer(c)
  /\ cmd[c].cur \in locked[c] => ~Now(c).change
  /\ Other(c) \in locked[c] => /\ Now(c).change /\ pc[c] \in {"clear", "finish"}
                               /\ pc[c] = "finish" => played[c] = None
  /\ pc[c] = "clear" /\ OldCmd(c).inst = None => played[c] = None

\* What is played is borrowed, until the channel is told to play something else.
PlayedInv == \A c \in Channel : played[c] # None /\ ~Committed(c) => Uses(c, played[c])

\* A voice that is no orphan plays the instrument of its channel.
VoiceInv == \A v \in Voice : voice[v] # None /\ ~voice[v].orphan =>
  /\ played[voice[v].chan] # None
  /\ voice[v].region[1] = played[voice[v].chan][1]

\* What the audio thread lists is what its voices play.
Listed(c, used) == /\ InUse(c) \subseteq used
                   /\ "dropped" \notin upset => InUse(c) = used

\* The lists of regions
UsedInv == \A c \in Channel :
  /\ OldCmd(c).used # {} => /\ pc[c] \in {"clear", "handback"} /\ Switched(c)
                            /\ OldCmd(c).inst # None
  /\ Now(c).used # {} => ~Now(c).change /\ locked[c] = {} /\ Now(c).inst # None
  /\ \A k \in {0, 1} : /\ IsFiniteSet(cmd[c].copy[k].used)
                       /\ \A u \in cmd[c].copy[k].used : u[2][1] = gig.file => Consumer(c)
  /\ ~Now(c).change /\ locked[c] = {} => Listed(c, Now(c).used)
  /\ pc[c] = "clear" /\ Committed(c) => Listed(c, OldCmd(c).used)

\* The uses of some regions: those that wait for the disk thread, the voices whose
\* instrument has been handed back, and what is listed and not yet counted
OrdersIn(Q) == {o \in RegionInst \X Nat : /\ o[1] \in Q
                                          /\ 1 <= o[2] /\ o[2] <= ordered[o[1]]}
VoicesIn(Q) == {v \in Voice : voice[v] # None /\ voice[v].region \in Q /\ Disowned(v)}
OwedIn(Q)   == {o \in Owed : o[2][2] \in Q}
LiveOwed(Q) == {o \in Owed : o[2][2] \in Q /\ Alive(o[2][2][1])}
RegionsAt(s) == {r \in RegionInst : SampleAt(r) = s}

Needed(Q) == Cardinality(OrdersIn(Q)) + Cardinality(VoicesIn(Q))

\* What is counted suffices for what is in use ...
CountInv ==
  /\ \A r \in RegionInst : InfoCount(mem, r) + Cardinality(LiveOwed({r})) >= Needed({r})
  /\ \A s \in SampleInst :
       SampleCount(mem, s) + Cardinality(LiveOwed(RegionsAt(s))) >= Needed(RegionsAt(s))
  /\ IsFiniteSet(OrdersIn(RegionInst))

\* ... and is no more than that, if no voice has been forgotten.
ExactInv == "dropped" \notin upset =>
  /\ \A r \in RegionInst : InfoCount(mem, r) + Cardinality(OwedIn({r})) = Needed({r})
  /\ \A s \in SampleInst :
       SampleCount(mem, s) + Cardinality(OwedIn(RegionsAt(s))) = Needed(RegionsAt(s))

\* The file that is open is in memory.
AliveInv == \A f \in Files : Alive(f) =>
  /\ f \in mem.files /\ RegionsIn(f) \subseteq mem.regions /\ SamplesIn(f) \subseteq mem.samples
  /\ \A r \in DOMAIN mem.info : r[1] = f => ~mem.info[r].kept

\* Of any other file, what is in use
InPlay(r) == ordered[r] > 0 \/ \E v \in Voice : voice[v] # None /\ voice[v].region = r
GoneInv == \A r \in RegionInst : InPlay(r) /\ ~Alive(r[1]) =>
  /\ r \in DOMAIN mem.info /\ mem.info[r].kept
  /\ r \in mem.regions /\ SampleAt(r) \in mem.samples

\* What is kept is in use.
KeptInv == upset = {} =>
  /\ \A r \in DOMAIN mem.info : ~Alive(r[1]) => mem.info[r].kept
  /\ \A s \in DOMAIN mem.refs : \E r \in DOMAIN mem.info : SampleAt(r) = s
  /\ \A f \in mem.files : ~Alive(f) => \E r \in DOMAIN mem.info : r[1] = f
  /\ \A s \in mem.samples : s[1] \in mem.files /\ s[1] # gig.file => s \in DOMAIN mem.refs

IInv == /\ TypeOK /\ FilesInv /\ BornInv /\ EntryInv /\ LoaderInv /\ UpdateInv /\ CmdInv
        /\ PlayedInv /\ VoiceInv /\ UsedInv /\ CountInv /\ ExactInv /\ AliveInv /\ GoneInv
        /\ KeptInv

-----------------------------------------------------------------------------
(* Natural numbers and finite sets *)

\* The natural numbers are well ordered.  (The library states induction with an
\* operator for the property; the proofs use sets.)
LEMMA SmallestNat ==
  ASSUME NEW S \in SUBSET Nat, S # {}
  PROVE  \E n \in S : \A m \in S : n <= m
<1> DEFINE LessThan == {ss \in Nat \X Nat : ss[1] < ss[2]}
<1>1. IsWellFoundedOn(LessThan, Nat)
  BY NatLessThanWellFounded, Zenon DEF OpToRel
<1>2. PICK n \in S : \A m \in S : ~ (<<m, n>> \in LessThan)
  <2> HIDE DEF LessThan
  <2> QED
    BY <1>1, WFMin, Zenon
<1>3. \A m \in S : ~ (m < n)
  BY <1>2
<1> QED
  BY <1>2, <1>3

\* Min() is a member of the set.
LEMMA MinIsMember ==
  ASSUME NEW S \in SUBSET Nat, S # {}
  PROVE  Min(S) \in S
<1>1. \E n \in S : \A m \in S : n <= m
  BY SmallestNat
<1> QED
  BY <1>1 DEF Min

\* A finite set of natural numbers has a bound, and Max() is a member of it.
LEMMA MaxIsMember ==
  ASSUME NEW S \in SUBSET Nat, IsFiniteSet(S), S # {}
  PROVE  Max(S) \in S
<1> DEFINE Bounded == {k \in Nat : \A T \in SUBSET Nat :
             IsFiniteSet(T) /\ T # {} /\ Cardinality(T) <= k =>
               \E n \in T : \A m \in T : n >= m}
           Left == Nat \ Bounded
<1>1. Cardinality(S) \in Nat
  BY FS_CardinalityType
<1>2. Left = {}
  <2> SUFFICES ASSUME Left # {} PROVE FALSE
    OBVIOUS
  <2>1. PICK k \in Left : \A m \in Left : k <= m
    BY SmallestNat
  <2>2. PICK T \in SUBSET Nat : /\ IsFiniteSet(T) /\ T # {} /\ Cardinality(T) <= k
                                /\ ~ \E n \in T : \A m \in T : n >= m
    BY <2>1
  <2>3. PICK x : x \in T
    BY <2>2
  <2> DEFINE U == T \ {x}
  <2>4. IsFiniteSet(U) /\ Cardinality(U) = Cardinality(T) - 1 /\ Cardinality(T) \in Nat
    BY <2>2, <2>3, FS_RemoveElement, FS_CardinalityType
  <2>5. Cardinality(U) \in Nat
    BY <2>4, FS_CardinalityType
  <2>6. k \in Nat /\ k # 0 /\ k - 1 \in Bounded
    <3>1. Cardinality(T) # 0
      BY <2>2, FS_EmptySet
    <3>2. k # 0 /\ k - 1 \in Nat
      BY <3>1, <2>1, <2>2, <2>4
    <3> QED
      BY <3>2, <2>1
  <2>7. U # {} => \E n \in U : \A m \in U : n >= m
    <3>1. U \in SUBSET Nat
      OBVIOUS
    <3>2. Cardinality(U) <= k - 1
      <4> HIDE DEF U, Bounded, Left
      <4> QED
        BY <2>2, <2>4, <2>5, <2>6
    <3> HIDE DEF U
    <3> QED
      BY <2>4, <2>6, <3>1, <3>2
  <2> QED
    BY <2>2, <2>3, <2>7
<1>3. \E n \in S : \A m \in S : n >= m
  BY <1>1, <1>2
<1> QED
  BY <1>3 DEF Max

\* Sets without a common element
LEMMA DisjointUnion ==
  ASSUME NEW S, NEW T, IsFiniteSet(S), IsFiniteSet(T), S \cap T = {}
  PROVE  /\ IsFiniteSet(S \cup T)
         /\ Cardinality(S \cup T) = Cardinality(S) + Cardinality(T)
         /\ Cardinality(S) \in Nat /\ Cardinality(T) \in Nat
<1>1. Cardinality(S \cap T) = 0
  BY FS_EmptySet
<1>2. Cardinality(S) \in Nat /\ Cardinality(T) \in Nat
  BY FS_CardinalityType
<1>3. Cardinality(S \cup T) = Cardinality(S) + Cardinality(T) - Cardinality(S \cap T)
  BY FS_Union
<1> QED
  BY <1>1, <1>2, <1>3, FS_Union

\* A set and one that is contained in it
LEMMA Complement ==
  ASSUME NEW S, NEW T, IsFiniteSet(S), T \subseteq S
  PROVE  /\ IsFiniteSet(T) /\ IsFiniteSet(S \ T)
         /\ Cardinality(S \ T) = Cardinality(S) - Cardinality(T)
         /\ Cardinality(T) \in Nat /\ Cardinality(S) \in Nat
<1>1. IsFiniteSet(T) /\ IsFiniteSet(S \ T)
  <2>1. T \in SUBSET S /\ S \ T \in SUBSET S
    OBVIOUS
  <2> QED
    BY <2>1, FS_Subset
<1>2. T \cap (S \ T) = {} /\ T \cup (S \ T) = S
  OBVIOUS
<1>3. Cardinality(S) = Cardinality(T) + Cardinality(S \ T) /\ Cardinality(T) \in Nat
      /\ Cardinality(S \ T) \in Nat
  BY <1>1, <1>2, DisjointUnion
<1> QED
  BY <1>1, <1>3

\* A one-to-one correspondence
LEMMA SameSize ==
  ASSUME NEW S, NEW T, IsFiniteSet(S), NEW f \in [S -> T],
         \A x, y \in S : f[x] = f[y] => x = y,
         \A t \in T : \E x \in S : f[x] = t
  PROVE  IsFiniteSet(T) /\ Cardinality(T) = Cardinality(S)
<1>1. f \in Bijection(S, T)
  BY DEF Bijection, Injection, Surjection, IsInjective
<1>2. ExistsBijection(S, T)
  BY <1>1 DEF ExistsBijection
<1> QED
  BY <1>2, FS_Bijection

\* Two sets that have equally many elements at each point have equally many elements.
Fiber(S, f, k) == {x \in S : f[x] = k}

LEMMA EqualFibers ==
  ASSUME NEW S, NEW T, IsFiniteSet(S), IsFiniteSet(T), NEW K,
         NEW f \in [S -> K], NEW g \in [T -> K],
         \A k \in K : Cardinality(Fiber(S, f, k)) = Cardinality(Fiber(T, g, k))
  PROVE  Cardinality(S) = Cardinality(T)
<1> USE DEF Fiber
<1> DEFINE A(k) == {x \in S : f[x] = k}
           B(k) == {y \in T : g[y] = k}
           h == [k \in K |-> CHOOSE b : b \in Bijection(A(k), B(k))]
           j == [x \in S |-> h[f[x]][x]]
<1>1. \A k \in K : h[k] \in Bijection(A(k), B(k))
  <2> SUFFICES ASSUME NEW k \in K PROVE h[k] \in Bijection(A(k), B(k))
    OBVIOUS
  <2>1. A(k) \in SUBSET S /\ B(k) \in SUBSET T
    OBVIOUS
  <2>2. IsFiniteSet(A(k)) /\ IsFiniteSet(B(k)) /\ Cardinality(A(k)) = Cardinality(B(k))
    BY <2>1, FS_Subset
  <2>3. ExistsBijection(A(k), B(k))
    <3> HIDE DEF A, B
    <3> QED
      BY <2>2, FS_SameCardinalityBij
  <2> QED
    BY <2>3, Zenon DEF ExistsBijection
<1>2. \A k \in K : /\ h[k] \in [A(k) -> B(k)]
                   /\ \A x, y \in A(k) : h[k][x] = h[k][y] => x = y
                   /\ \A t \in B(k) : \E x \in A(k) : h[k][x] = t
  <2> HIDE DEF A, B, h
  <2> QED
    BY <1>1 DEF Bijection, Injection, Surjection, IsInjective
<1>3. \A x \in S : f[x] \in K /\ x \in A(f[x])
  OBVIOUS
<1>4. \A x \in S : j[x] = h[f[x]][x] /\ j[x] \in B(f[x])
  <2> HIDE DEF A, B, h
  <2> QED
    BY <1>2, <1>3
<1>5. \A x \in S : j[x] \in T /\ g[j[x]] = f[x]
  <2> HIDE DEF h, j
  <2> QED
    BY <1>4
<1>6. j \in [S -> T]
  <2>1. j = [x \in S |-> j[x]]
    OBVIOUS
  <2> HIDE DEF j
  <2> QED
    BY <2>1, <1>5
<1>7. \A x, y \in S : j[x] = j[y] => x = y
  <2> SUFFICES ASSUME NEW x \in S, NEW y \in S, j[x] = j[y] PROVE x = y
    OBVIOUS
  <2>1. f[x] = f[y]
    <3> HIDE DEF j
    <3> QED
      BY <1>5
  <2>2. x \in A(f[x]) /\ y \in A(f[x])
    BY <2>1
  <2> HIDE DEF A, B, h, j
  <2> QED
    BY <1>2, <1>3, <1>4, <2>1, <2>2
<1>8. \A t \in T : \E x \in S : j[x] = t
  <2> SUFFICES ASSUME NEW t \in T PROVE \E x \in S : j[x] = t
    OBVIOUS
  <2>1. g[t] \in K /\ t \in B(g[t])
    OBVIOUS
  <2>2. PICK x \in A(g[t]) : h[g[t]][x] = t
    <3> HIDE DEF A, B, h, j
    <3> QED
      BY <1>2, <2>1
  <2>3. x \in S /\ f[x] = g[t]
    OBVIOUS
  <2> HIDE DEF A, B, h, j
  <2> QED
    BY <1>4, <2>2, <2>3
<1> HIDE DEF j
<1> QED
  BY <1>6, <1>7, <1>8, SameSize

-----------------------------------------------------------------------------
(* What the operations do to the memory *)

\* The fields of the memory
LEMMA MemFields ==
  ASSUME NEW m, MemType(m)
  PROVE  /\ m.files \subseteq Files /\ m.regions \subseteq RegionInst
         /\ m.samples \subseteq SampleInst
         /\ DOMAIN m.info \subseteq RegionInst /\ DOMAIN m.refs \subseteq SampleInst
         /\ \A r \in DOMAIN m.info : /\ m.info[r].count \in Int /\ m.info[r].kept \in BOOLEAN
                                     /\ m.info[r] \in [count : Int, kept : BOOLEAN]
         /\ \A s \in DOMAIN m.refs : m.refs[s] \in Int
         /\ \A r : InfoCount(m, r) \in Int
         /\ \A s : SampleCount(m, s) \in Int
BY DEF MemType, InfoCount, Known, SampleCount

\* A region and its sample are of the same file.
LEMMA SampleAtType ==
  ASSUME NEW r \in RegionInst
  PROVE  /\ SampleAt(r) \in SampleInst /\ SampleAt(r)[1] = r[1] /\ r[1] \in Files
         /\ r \in RegionsIn(r[1]) /\ SampleAt(r) \in SamplesIn(r[1])
         /\ \A f : r \in RegionsIn(f) => r[1] = f
BY InstrumentsAssumption DEF SampleAt, RegionInst, SampleInst, RegionsIn, SamplesIn

LEMMA InFile ==
  /\ \A r \in RegionInst : \A f : r \in RegionsIn(f) <=> r[1] = f
  /\ \A s \in SampleInst : \A f : s \in SamplesIn(f) <=> s[1] = f
BY DEF RegionInst, SampleInst, RegionsIn, SamplesIn

\* The file of an instrument that is destroyed
LEMMA WalkFacts ==
  ASSUME NEW m, MemType(m), NEW f
  PROVE  /\ MemType(Walk(m, f))
         /\ Walk(m, f).refs = m.refs
         /\ DOMAIN Walk(m, f).info = DOMAIN m.info
         /\ \A r \in DOMAIN m.info : /\ Walk(m, f).info[r].count = m.info[r].count
                                     /\ Walk(m, f).info[r].kept <=> m.info[r].kept \/ r[1] = f
         /\ \A r \in RegionInst : r \in Walk(m, f).regions <=>
              r \in m.regions /\ (r[1] # f \/ r \in DOMAIN m.info)
         /\ \A s \in SampleInst : s \in Walk(m, f).samples <=>
              s \in m.samples /\ (s[1] # f \/ \E r \in DOMAIN m.info : r[1] = f)
         /\ \A g : g \in Walk(m, f).files <=>
              g \in m.files /\ (g # f \/ \E r \in DOMAIN m.info : r[1] = f)
<1> DEFINE held == RegionsIn(f) \cap DOMAIN m.info
           info == [r \in DOMAIN m.info |->
                      IF r \in held THEN [m.info[r] EXCEPT !.kept = TRUE] ELSE m.info[r]]
<1>1. m \in [files : SUBSET Files, regions : SUBSET RegionInst, samples : SUBSET SampleInst,
             info : {m.info}, refs : {m.refs}]
  BY DEF MemType
<1>2. \A r \in DOMAIN m.info : r \in RegionInst /\ (r \in held <=> r[1] = f)
  BY MemFields, InFile
<1>3. held = {} <=> ~ \E r \in DOMAIN m.info : r[1] = f
  BY <1>2
<1>4. CASE held = {}
  <2>1. Walk(m, f) = Without(m, f)
    BY <1>4 DEF Walk
  <2>2. /\ Without(m, f) \in [files : SUBSET Files, regions : SUBSET RegionInst,
              samples : SUBSET SampleInst, info : {m.info}, refs : {m.refs}]
        /\ Without(m, f).info = m.info /\ Without(m, f).refs = m.refs
        /\ Without(m, f).files = m.files \ {f}
        /\ Without(m, f).regions = m.regions \ RegionsIn(f)
        /\ Without(m, f).samples = m.samples \ SamplesIn(f)
    BY <1>1 DEF Without
  <2>3. MemType(Walk(m, f))
    BY <2>1, <2>2 DEF MemType
  <2>4. \A r \in DOMAIN m.info : r[1] # f
    BY <1>3, <1>4
  <2> HIDE DEF held, info
  <2> QED
    BY <2>1, <2>2, <2>3, <2>4, InFile, MemFields
<1>5. CASE held # {}
  <2>1. /\ Walk(m, f) = [m EXCEPT !.regions = m.regions \ (RegionsIn(f) \ held), !.info = info]
    BY <1>5 DEF Walk
  <2>2. info \in [DOMAIN m.info -> [count : Int, kept : BOOLEAN]]
    <3>1. \A r \in DOMAIN m.info : info[r] \in [count : Int, kept : BOOLEAN]
      BY MemFields
    <3> QED
      BY <3>1
  <2>3. \A r \in DOMAIN m.info : /\ info[r].count = m.info[r].count
                                 /\ info[r].kept <=> m.info[r].kept \/ r[1] = f
    BY <1>2, MemFields
  <2> HIDE DEF info
  <2>4. /\ Walk(m, f) \in [files : SUBSET Files, regions : SUBSET RegionInst,
              samples : SUBSET SampleInst, info : {info}, refs : {m.refs}]
        /\ Walk(m, f).info = info /\ Walk(m, f).refs = m.refs
        /\ Walk(m, f).files = m.files /\ Walk(m, f).samples = m.samples
        /\ Walk(m, f).regions = m.regions \ (RegionsIn(f) \ held)
    BY <1>1, <2>1
  <2>5. DOMAIN info = DOMAIN m.info
    BY <2>2
  <2>6. MemType(Walk(m, f))
    BY <2>2, <2>4, <2>5 DEF MemType
  <2>7. \A r \in RegionInst : r \in RegionsIn(f) \ held <=> r[1] = f /\ r \notin DOMAIN m.info
    BY InFile
  <2>8. \E r \in DOMAIN m.info : r[1] = f
    BY <1>3, <1>5
  <2> HIDE DEF held
  <2> QED
    BY <2>3, <2>4, <2>5, <2>6, <2>7, <2>8, MemFields
<1> QED
  BY <1>4, <1>5

\* Samples of a file that is kept
LEMMA CleanupFacts ==
  ASSUME NEW m, MemType(m), NEW f
  PROVE  /\ MemType(Cleanup(m, f))
         /\ Cleanup(m, f).info = m.info /\ Cleanup(m, f).refs = m.refs
         /\ Cleanup(m, f).files = m.files /\ Cleanup(m, f).regions = m.regions
         /\ \A s \in SampleInst : s \in Cleanup(m, f).samples <=>
              s \in m.samples /\ (s[1] # f \/ s \in DOMAIN m.refs)
<1>1. m \in [files : SUBSET Files, regions : SUBSET RegionInst, samples : SUBSET SampleInst,
             info : {m.info}, refs : {m.refs}]
  BY DEF MemType
<1>2. /\ Cleanup(m, f) \in [files : SUBSET Files, regions : SUBSET RegionInst,
            samples : SUBSET SampleInst, info : {m.info}, refs : {m.refs}]
      /\ Cleanup(m, f).info = m.info /\ Cleanup(m, f).refs = m.refs
      /\ Cleanup(m, f).files = m.files /\ Cleanup(m, f).regions = m.regions
      /\ Cleanup(m, f).samples = m.samples \ (SamplesIn(f) \ DOMAIN m.refs)
  BY <1>1 DEF Cleanup
<1>3. MemType(Cleanup(m, f))
  BY <1>2 DEF MemType
<1> QED
  BY <1>2, <1>3, InFile

\* A file that is read
LEMMA LoadedFacts ==
  ASSUME NEW m, MemType(m), NEW f \in Files
  PROVE  /\ MemType(Loaded(m, f))
         /\ Loaded(m, f).info = m.info /\ Loaded(m, f).refs = m.refs
         /\ Loaded(m, f).files = m.files \cup {f}
         /\ \A r \in RegionInst : r \in Loaded(m, f).regions <=>
              r \in m.regions \/ (r[1] = f /\ f \notin m.files)
         /\ \A s \in SampleInst : s \in Loaded(m, f).samples <=>
              s \in m.samples \/ (s[1] = f /\ f \notin m.files)
<1>1. m \in [files : SUBSET Files, regions : SUBSET RegionInst, samples : SUBSET SampleInst,
             info : {m.info}, refs : {m.refs}]
  BY DEF MemType
<1>2. RegionsIn(f) \subseteq RegionInst /\ SamplesIn(f) \subseteq SampleInst
  BY DEF RegionsIn, SamplesIn, RegionInst, SampleInst
<1>3. /\ Loaded(m, f) \in [files : SUBSET Files, regions : SUBSET RegionInst,
            samples : SUBSET SampleInst, info : {m.info}, refs : {m.refs}]
      /\ Loaded(m, f).info = m.info /\ Loaded(m, f).refs = m.refs
      /\ Loaded(m, f).files = m.files \cup {f}
      /\ Loaded(m, f).regions = IF f \in m.files THEN m.regions ELSE m.regions \cup RegionsIn(f)
      /\ Loaded(m, f).samples = IF f \in m.files THEN m.samples ELSE m.samples \cup SamplesIn(f)
  BY <1>1, <1>2 DEF Loaded
<1>4. MemType(Loaded(m, f))
  BY <1>3 DEF MemType
<1> QED
  BY <1>3, <1>4, InFile

\* The uses of a region, and of a sample, in a list
LEMMA ListedFacts ==
  ASSUME NEW used \in SUBSET (Voice \X RegionInst), IsFiniteSet(used)
  PROVE  /\ RegionsListed(used) \subseteq RegionInst
         /\ {SampleAt(r) : r \in RegionsListed(used)} \subseteq SampleInst
         /\ \A r : Cardinality(ListedAs(used, r)) \in Nat
         /\ \A s : Cardinality(ListedWith(used, s)) \in Nat
         /\ \A r : r \in RegionsListed(used) <=> Cardinality(ListedAs(used, r)) # 0
         /\ \A s : s \in {SampleAt(r) : r \in RegionsListed(used)}
                     <=> Cardinality(ListedWith(used, s)) # 0
<1>1. \A u \in used : u[2] \in RegionInst
  OBVIOUS
<1>2. RegionsListed(used) \subseteq RegionInst
  BY <1>1 DEF RegionsListed
<1>3. {SampleAt(r) : r \in RegionsListed(used)} \subseteq SampleInst
  BY <1>2, SampleAtType
<1>4. \A r : ListedAs(used, r) \in SUBSET used
  BY DEF ListedAs
<1>5. \A s : ListedWith(used, s) \in SUBSET used
  BY DEF ListedWith
<1>6. \A r : IsFiniteSet(ListedAs(used, r)) /\ Cardinality(ListedAs(used, r)) \in Nat
  BY <1>4, FS_Subset, FS_CardinalityType
<1>7. \A s : IsFiniteSet(ListedWith(used, s)) /\ Cardinality(ListedWith(used, s)) \in Nat
  BY <1>5, FS_Subset, FS_CardinalityType
<1>8. \A r : r \in RegionsListed(used) <=> ListedAs(used, r) # {}
  BY DEF RegionsListed, ListedAs
<1>9. \A s : s \in {SampleAt(r) : r \in RegionsListed(used)} <=> ListedWith(used, s) # {}
  BY DEF RegionsListed, ListedWith
<1>10. \A r : Cardinality(ListedAs(used, r)) = 0 <=> ListedAs(used, r) = {}
  BY <1>6, FS_EmptySet
<1>11. \A s : Cardinality(ListedWith(used, s)) = 0 <=> ListedWith(used, s) = {}
  BY <1>7, FS_EmptySet
<1> QED
  BY <1>2, <1>3, <1>6, <1>7, <1>8, <1>9, <1>10, <1>11

\* A list that is counted
LEMMA CountedFacts ==
  ASSUME NEW m, MemType(m), NEW used \in SUBSET (Voice \X RegionInst), IsFiniteSet(used)
  PROVE  /\ MemType(Counted(m, used))
         /\ Counted(m, used).files = m.files /\ Counted(m, used).regions = m.regions
         /\ Counted(m, used).samples = m.samples
         /\ DOMAIN Counted(m, used).info = DOMAIN m.info \cup RegionsListed(used)
         /\ DOMAIN Counted(m, used).refs =
              DOMAIN m.refs \cup {SampleAt(r) : r \in RegionsListed(used)}
         /\ \A r : InfoCount(Counted(m, used), r) =
              InfoCount(m, r) + Cardinality(ListedAs(used, r))
         /\ \A s : SampleCount(Counted(m, used), s) =
              SampleCount(m, s) + Cardinality(ListedWith(used, s))
         /\ \A r \in DOMAIN m.info \cup RegionsListed(used) :
              Counted(m, used).info[r].kept <=> r \in DOMAIN m.info /\ m.info[r].kept
<1> DEFINE regions == DOMAIN m.info \cup RegionsListed(used)
           samples == DOMAIN m.refs \cup {SampleAt(r) : r \in RegionsListed(used)}
           info == [r \in regions |-> [Known(m.info, r) EXCEPT
                      !.count = Known(m.info, r).count + Cardinality(ListedAs(used, r))]]
           refs == [s \in samples |-> SampleCount(m, s) + Cardinality(ListedWith(used, s))]
<1>1. m \in [files : SUBSET Files, regions : SUBSET RegionInst, samples : SUBSET SampleInst,
             info : {m.info}, refs : {m.refs}]
  BY DEF MemType
<1>2. Counted(m, used) = [m EXCEPT !.info = info, !.refs = refs]
  BY DEF Counted
<1>3. \A r : Known(m.info, r) \in [count : Int, kept : BOOLEAN]
  BY MemFields DEF Known
<1>4. \A r \in regions : /\ info[r] \in [count : Int, kept : BOOLEAN]
                         /\ info[r].count = InfoCount(m, r) + Cardinality(ListedAs(used, r))
                         /\ info[r].kept = Known(m.info, r).kept
  BY <1>3, ListedFacts DEF InfoCount
<1>5. info \in [regions -> [count : Int, kept : BOOLEAN]]
  BY <1>4
<1>6. \A s \in samples : /\ refs[s] = SampleCount(m, s) + Cardinality(ListedWith(used, s))
                         /\ refs[s] \in Int
  BY MemFields, ListedFacts
<1>7. refs \in [samples -> Int]
  BY <1>6
<1>8. regions \subseteq RegionInst /\ samples \subseteq SampleInst
  BY MemFields, ListedFacts
<1>9. \A r : r \notin regions => InfoCount(m, r) = 0 /\ Cardinality(ListedAs(used, r)) = 0
  BY ListedFacts DEF InfoCount, Known
<1>10. \A s : s \notin samples => SampleCount(m, s) = 0 /\ Cardinality(ListedWith(used, s)) = 0
  <2>1. SUFFICES ASSUME NEW s, s \notin samples
                 PROVE  SampleCount(m, s) = 0 /\ Cardinality(ListedWith(used, s)) = 0
    OBVIOUS
  <2>2. s \notin DOMAIN m.refs /\ s \notin {SampleAt(r) : r \in RegionsListed(used)}
    BY <2>1
  <2>3. Cardinality(ListedWith(used, s)) = 0
    BY <2>2, ListedFacts
  <2> QED
    BY <2>2, <2>3 DEF SampleCount
<1> HIDE DEF info, refs, regions, samples
<1>11. /\ Counted(m, used) \in [files : SUBSET Files, regions : SUBSET RegionInst,
             samples : SUBSET SampleInst, info : {info}, refs : {refs}]
       /\ Counted(m, used).info = info /\ Counted(m, used).refs = refs
       /\ Counted(m, used).files = m.files /\ Counted(m, used).samples = m.samples
       /\ Counted(m, used).regions = m.regions
  BY <1>1, <1>2
<1>12. DOMAIN info = regions /\ DOMAIN refs = samples
  BY <1>5, <1>7
<1>13. MemType(Counted(m, used))
  BY <1>5, <1>7, <1>8, <1>11, <1>12 DEF MemType
<1>14. \A r : InfoCount(Counted(m, used), r) = InfoCount(m, r) + Cardinality(ListedAs(used, r))
  <2>1. \A r : InfoCount(Counted(m, used), r) = IF r \in regions THEN info[r].count ELSE 0
    BY <1>11, <1>12 DEF InfoCount, Known
  <2> QED
    BY <1>4, <1>9, <2>1
<1>15. \A s : SampleCount(Counted(m, used), s)
                = SampleCount(m, s) + Cardinality(ListedWith(used, s))
  BY <1>6, <1>10, <1>11, <1>12 DEF SampleCount
<1>16. \A r \in regions : Counted(m, used).info[r].kept <=> r \in DOMAIN m.info /\ m.info[r].kept
  BY <1>4, <1>11 DEF Known
<1> QED
  BY <1>11, <1>12, <1>13, <1>14, <1>15, <1>16 DEF regions, samples

\* One use less
LEMMA OneLessFacts ==
  ASSUME NEW m, MemType(m), NEW r \in RegionInst
  PROVE  LET less == OneLess(m, r)
         IN  /\ MemType(less)
             /\ less.files = m.files /\ less.regions = m.regions /\ less.samples = m.samples
             /\ DOMAIN less.info = DOMAIN m.info \cup {r}
             /\ DOMAIN less.refs = DOMAIN m.refs \cup {SampleAt(r)}
             /\ \A q : InfoCount(less, q) = InfoCount(m, q) - (IF q = r THEN 1 ELSE 0)
             /\ \A s : SampleCount(less, s)
                         = SampleCount(m, s) - (IF s = SampleAt(r) THEN 1 ELSE 0)
             /\ \A q \in DOMAIN m.info \cup {r} :
                  less.info[q].kept <=> q \in DOMAIN m.info /\ m.info[q].kept
<1> DEFINE regions == DOMAIN m.info \cup {r}
           samples == DOMAIN m.refs \cup {SampleAt(r)}
           info == [q \in regions |-> [Known(m.info, q) EXCEPT
                      !.count = IF q = r THEN Known(m.info, q).count - 1
                                ELSE Known(m.info, q).count]]
           refs == [s \in samples |-> SampleCount(m, s) - (IF s = SampleAt(r) THEN 1 ELSE 0)]
           less == OneLess(m, r)
<1>1. m \in [files : SUBSET Files, regions : SUBSET RegionInst, samples : SUBSET SampleInst,
             info : {m.info}, refs : {m.refs}]
  BY DEF MemType
<1>2. less = [m EXCEPT !.info = info, !.refs = refs]
  BY DEF OneLess
<1>3. \A q : Known(m.info, q) \in [count : Int, kept : BOOLEAN]
  BY MemFields DEF Known
<1>4. \A q \in regions : /\ info[q] \in [count : Int, kept : BOOLEAN]
                         /\ info[q].count = InfoCount(m, q) - (IF q = r THEN 1 ELSE 0)
                         /\ info[q].kept = Known(m.info, q).kept
  BY <1>3 DEF InfoCount
<1>5. info \in [regions -> [count : Int, kept : BOOLEAN]]
  BY <1>4
<1>6. \A s \in samples : /\ refs[s] = SampleCount(m, s) - (IF s = SampleAt(r) THEN 1 ELSE 0)
                         /\ refs[s] \in Int
  BY MemFields
<1>7. refs \in [samples -> Int]
  BY <1>6
<1>8. regions \subseteq RegionInst /\ samples \subseteq SampleInst
  BY MemFields, SampleAtType
<1>9. \A q : q \notin regions => InfoCount(m, q) = 0 /\ q # r
  BY DEF InfoCount, Known
<1>10. \A s : s \notin samples => SampleCount(m, s) = 0 /\ s # SampleAt(r)
  BY DEF SampleCount
<1> HIDE DEF info, refs, regions, samples, less
<1>11. /\ less \in [files : SUBSET Files, regions : SUBSET RegionInst,
             samples : SUBSET SampleInst, info : {info}, refs : {refs}]
       /\ less.info = info /\ less.refs = refs
       /\ less.files = m.files /\ less.samples = m.samples /\ less.regions = m.regions
  BY <1>1, <1>2
<1>12. DOMAIN info = regions /\ DOMAIN refs = samples
  BY <1>5, <1>7
<1>13. MemType(less)
  BY <1>5, <1>7, <1>8, <1>11, <1>12 DEF MemType
<1>14. \A q : InfoCount(less, q) = InfoCount(m, q) - (IF q = r THEN 1 ELSE 0)
  <2>1. \A q : InfoCount(less, q) = IF q \in regions THEN info[q].count ELSE 0
    BY <1>11, <1>12 DEF InfoCount, Known
  <2> QED
    BY <1>4, <1>9, <2>1
<1>15. \A s : SampleCount(less, s) = SampleCount(m, s) - (IF s = SampleAt(r) THEN 1 ELSE 0)
  BY <1>6, <1>10, <1>11, <1>12 DEF SampleCount
<1>16. \A q \in regions : less.info[q].kept <=> q \in DOMAIN m.info /\ m.info[q].kept
  BY <1>4, <1>11 DEF Known
<1> QED
  BY <1>11, <1>12, <1>13, <1>14, <1>15, <1>16 DEF regions, samples, less

\* Was it the last use of a region, and of its sample, of a file that was kept for it?
SampleFreed(m, r) ==
  /\ InfoCount(RegionHandedBack(m, r), r) = 0
  /\ SampleCount(RegionHandedBack(m, r), SampleAt(r)) = 0
  /\ r \in DOMAIN m.info /\ m.info[r].kept
LastSample(m, r) == SamplesIn(r[1]) \cap m.samples \subseteq {SampleAt(r)}

\* A region that is handed back: the counts ...
LEMMA HandedBackCounts ==
  ASSUME NEW m, MemType(m), NEW r \in RegionInst
  PROVE  LET b == RegionHandedBack(m, r)
         IN  /\ MemType(b)
             /\ \A q : InfoCount(b, q) = InfoCount(m, q) - (IF q = r THEN 1 ELSE 0)
             /\ \A s : SampleCount(b, s) = SampleCount(m, s) - (IF s = SampleAt(r) THEN 1 ELSE 0)
             /\ \A q : q # r => (q \in DOMAIN b.info <=> q \in DOMAIN m.info)
             /\ r \in DOMAIN b.info <=> InfoCount(b, r) # 0
             /\ \A q \in DOMAIN b.info : b.info[q].kept <=> q \in DOMAIN m.info /\ m.info[q].kept
             /\ \A s : s # SampleAt(r) => (s \in DOMAIN b.refs <=> s \in DOMAIN m.refs)
             /\ SampleAt(r) \in DOMAIN b.refs <=>
                  InfoCount(b, r) # 0 \/ SampleCount(b, SampleAt(r)) # 0
             /\ ~ SampleFreed(m, r) =>
                  b.files = m.files /\ b.regions = m.regions /\ b.samples = m.samples
             /\ SampleFreed(m, r) /\ ~ LastSample(m, r) =>
                  /\ b.files = m.files /\ b.regions = m.regions
                  /\ b.samples = m.samples \ {SampleAt(r)}
             /\ SampleFreed(m, r) /\ LastSample(m, r) =>
                  /\ b.files = m.files \ {r[1]} /\ b.regions = m.regions \ RegionsIn(r[1])
                  /\ b.samples = m.samples \ SamplesIn(r[1])
<1> DEFINE less == OneLess(m, r)
           s0   == SampleAt(r)
           rest == Erased(less, r)
           gone == SampleErased(rest, s0)
           b    == RegionHandedBack(m, r)
<1>1. /\ MemType(less)
      /\ less.files = m.files /\ less.regions = m.regions /\ less.samples = m.samples
      /\ DOMAIN less.info = DOMAIN m.info \cup {r}
      /\ DOMAIN less.refs = DOMAIN m.refs \cup {s0}
      /\ \A q : InfoCount(less, q) = InfoCount(m, q) - (IF q = r THEN 1 ELSE 0)
      /\ \A s : SampleCount(less, s) = SampleCount(m, s) - (IF s = s0 THEN 1 ELSE 0)
      /\ \A q \in DOMAIN m.info \cup {r} : less.info[q].kept <=> q \in DOMAIN m.info /\ m.info[q].kept
  BY OneLessFacts
<1> HIDE DEF less
<1>2. less \in [files : SUBSET Files, regions : SUBSET RegionInst, samples : SUBSET SampleInst,
                info : {less.info}, refs : {less.refs}]
  BY <1>1 DEF MemType
<1>3. /\ MemType(rest) /\ rest.refs = less.refs
      /\ rest.files = m.files /\ rest.regions = m.regions /\ rest.samples = m.samples
      /\ DOMAIN rest.info = DOMAIN less.info \ {r}
      /\ \A q \in DOMAIN rest.info : rest.info[q] = less.info[q]
  <2> DEFINE info == [q \in DOMAIN less.info \ {r} |-> less.info[q]]
  <2>1. rest = [less EXCEPT !.info = info]
    BY DEF Erased, Restrict
  <2>2. info \in [DOMAIN less.info \ {r} -> [count : Int, kept : BOOLEAN]]
    BY <1>1, MemFields
  <2>3. \A q \in DOMAIN less.info \ {r} : info[q] = less.info[q]
    OBVIOUS
  <2> HIDE DEF info, rest
  <2>4. DOMAIN info = DOMAIN less.info \ {r}
    BY <2>2
  <2>5. /\ rest \in [files : SUBSET Files, regions : SUBSET RegionInst,
              samples : SUBSET SampleInst, info : {info}, refs : {less.refs}]
        /\ rest.info = info /\ rest.refs = less.refs
        /\ rest.files = less.files /\ rest.samples = less.samples /\ rest.regions = less.regions
    BY <1>2, <2>1
  <2>6. MemType(rest)
    BY <1>1, <2>2, <2>4, <2>5 DEF MemType
  <2> QED
    BY <1>1, <2>3, <2>4, <2>5, <2>6
<1> HIDE DEF rest
<1>4. rest \in [files : SUBSET Files, regions : SUBSET RegionInst, samples : SUBSET SampleInst,
                info : {rest.info}, refs : {rest.refs}]
  BY <1>3 DEF MemType
<1>5. /\ MemType(gone) /\ gone.info = rest.info
      /\ gone.files = m.files /\ gone.regions = m.regions /\ gone.samples = m.samples
      /\ DOMAIN gone.refs = DOMAIN rest.refs \ {s0}
      /\ \A s \in DOMAIN gone.refs : gone.refs[s] = rest.refs[s]
  <2> DEFINE refs == [s \in DOMAIN rest.refs \ {s0} |-> rest.refs[s]]
  <2>1. gone = [rest EXCEPT !.refs = refs]
    BY DEF SampleErased, Restrict
  <2>2. refs \in [DOMAIN rest.refs \ {s0} -> Int]
    BY <1>3, MemFields
  <2>3. \A s \in DOMAIN rest.refs \ {s0} : refs[s] = rest.refs[s]
    OBVIOUS
  <2> HIDE DEF refs, gone
  <2>4. DOMAIN refs = DOMAIN rest.refs \ {s0}
    BY <2>2
  <2>5. /\ gone \in [files : SUBSET Files, regions : SUBSET RegionInst,
              samples : SUBSET SampleInst, info : {rest.info}, refs : {refs}]
        /\ gone.refs = refs /\ gone.info = rest.info
        /\ gone.files = rest.files /\ gone.samples = rest.samples /\ gone.regions = rest.regions
    BY <1>4, <2>1
  <2>6. MemType(gone)
    BY <1>3, <2>2, <2>4, <2>5 DEF MemType
  <2> QED
    BY <1>3, <2>3, <2>4, <2>5, <2>6
<1> HIDE DEF gone
<1>6. gone \in [files : SUBSET Files, regions : SUBSET RegionInst, samples : SUBSET SampleInst,
                info : {gone.info}, refs : {gone.refs}]
  BY <1>5 DEF MemType
<1>7. \A q : InfoCount(rest, q) = IF q = r THEN 0 ELSE InfoCount(less, q)
  BY <1>3 DEF InfoCount, Known
<1>8. \A s : SampleCount(rest, s) = SampleCount(less, s)
  BY <1>3 DEF SampleCount
<1>9. \A q : InfoCount(gone, q) = InfoCount(rest, q)
  BY <1>5 DEF InfoCount
<1>10. \A s : SampleCount(gone, s) = IF s = s0 THEN 0 ELSE SampleCount(less, s)
  BY <1>5, <1>8 DEF SampleCount
<1>11. SampleAt(r) = s0 /\ s0[1] = r[1]
  BY SampleAtType
<1>12. less.info[r].kept <=> r \in DOMAIN m.info /\ m.info[r].kept
  BY <1>1
<1>13. b = IF InfoCount(less, r) # 0 THEN less
           ELSE IF SampleCount(less, s0) # 0 THEN rest
           ELSE DeleteSampleIfNotUsed(gone, s0, less.info[r].kept)
  BY DEF RegionHandedBack, less, rest, gone
<1> DEFINE kept == less.info[r].kept
           d    == DeleteSampleIfNotUsed(gone, s0, kept)
<1>14. /\ d.info = gone.info /\ d.refs = gone.refs /\ MemType(d)
       /\ ~kept => d.files = m.files /\ d.regions = m.regions /\ d.samples = m.samples
       /\ kept /\ ~ LastSample(m, r) =>
            d.files = m.files /\ d.regions = m.regions /\ d.samples = m.samples \ {s0}
       /\ kept /\ LastSample(m, r) =>
            /\ d.files = m.files \ {r[1]} /\ d.regions = m.regions \ RegionsIn(r[1])
            /\ d.samples = m.samples \ SamplesIn(r[1])
  <2>1. CASE ~kept
    <3>1. d = gone
      BY <2>1 DEF DeleteSampleIfNotUsed
    <3> HIDE DEF d, kept
    <3> QED
      BY <1>5, <2>1, <3>1
  <2>2. CASE kept /\ LastSample(m, r)
    <3>1. d = Without(gone, r[1])
      BY <1>5, <1>11, <2>2 DEF DeleteSampleIfNotUsed, LastSample
    <3>2. /\ Without(gone, r[1]) \in [files : SUBSET Files, regions : SUBSET RegionInst,
               samples : SUBSET SampleInst, info : {gone.info}, refs : {gone.refs}]
          /\ Without(gone, r[1]).info = gone.info /\ Without(gone, r[1]).refs = gone.refs
          /\ Without(gone, r[1]).files = gone.files \ {r[1]}
          /\ Without(gone, r[1]).regions = gone.regions \ RegionsIn(r[1])
          /\ Without(gone, r[1]).samples = gone.samples \ SamplesIn(r[1])
      BY <1>6 DEF Without
    <3> HIDE DEF d, kept
    <3>3. MemType(d)
      BY <1>5, <3>1, <3>2 DEF MemType
    <3> QED
      BY <1>5, <2>2, <3>1, <3>2, <3>3
  <2>3. CASE kept /\ ~ LastSample(m, r)
    <3>1. d = [gone EXCEPT !.samples = gone.samples \ {s0}]
      BY <1>5, <1>11, <2>3 DEF DeleteSampleIfNotUsed, LastSample
    <3> HIDE DEF d, kept
    <3>2. /\ d \in [files : SUBSET Files, regions : SUBSET RegionInst,
               samples : SUBSET SampleInst, info : {gone.info}, refs : {gone.refs}]
          /\ d.info = gone.info /\ d.refs = gone.refs
          /\ d.files = gone.files /\ d.regions = gone.regions
          /\ d.samples = gone.samples \ {s0}
      BY <1>6, <3>1
    <3>3. MemType(d)
      BY <1>5, <3>2 DEF MemType
    <3> QED
      BY <1>5, <2>3, <3>2, <3>3
  <2> QED
    BY <2>1, <2>2, <2>3
<1>15. InfoCount(d, r) = InfoCount(gone, r) /\ \A q : InfoCount(d, q) = InfoCount(gone, q)
  BY <1>14 DEF InfoCount
<1>16. \A s : SampleCount(d, s) = SampleCount(gone, s)
  BY <1>14 DEF SampleCount
<1> HIDE DEF d, kept, b
<1>17. SampleFreed(m, r) <=> InfoCount(b, r) = 0 /\ SampleCount(b, s0) = 0 /\ kept
  BY <1>12 DEF SampleFreed, b, s0, kept
<1> HIDE DEF s0
<1>18. CASE InfoCount(less, r) # 0
  <2>1. b = less
    BY <1>13, <1>18
  <2> QED
    BY <1>1, <1>11, <1>17, <1>18, <2>1 DEF s0, b
<1>19. CASE InfoCount(less, r) = 0 /\ SampleCount(less, s0) # 0
  <2>1. b = rest
    BY <1>13, <1>19
  <2> QED
    BY <1>1, <1>3, <1>7, <1>8, <1>11, <1>17, <1>19, <2>1 DEF s0, b
<1>20. CASE InfoCount(less, r) = 0 /\ SampleCount(less, s0) = 0
  <2>1. b = d
    BY <1>13, <1>20 DEF d, kept
  <2> QED
    BY <1>1, <1>3, <1>5, <1>7, <1>9, <1>10, <1>11, <1>14, <1>15, <1>16, <1>17, <1>20, <2>1 DEF s0, b
<1> QED
  BY <1>18, <1>19, <1>20

\* The last instrument of a file is destroyed.
LEMMA DestroyedFacts ==
  ASSUME NEW m, MemType(m), NEW g, NEW i, LastUser(g, i)
  PROVE  LET d == DestroyedMem(m, g, i)
         IN  /\ MemType(d) /\ d.refs = m.refs /\ DOMAIN d.info = DOMAIN m.info
             /\ \A r \in DOMAIN m.info : /\ d.info[r].count = m.info[r].count
                                         /\ d.info[r].kept <=> m.info[r].kept \/ r[1] = g.file
             /\ \A r \in RegionInst : r \in d.regions <=>
                  r \in m.regions /\ (r[1] # g.file \/ r \in DOMAIN m.info)
             /\ \A s \in SampleInst : s \in d.samples <=>
                  /\ s \in m.samples
                  /\ s[1] # g.file \/ (s \in DOMAIN m.refs /\ \E r \in DOMAIN m.info : r[1] = g.file)
             /\ \A f : f \in d.files <=>
                  f \in m.files /\ (f # g.file \/ \E r \in DOMAIN m.info : r[1] = g.file)
<1> DEFINE w == Walk(m, g.file)
<1>1. DestroyedMem(m, g, i) = Cleanup(w, g.file)
  BY DEF DestroyedMem
<1>2. MemType(w)
  BY WalkFacts
<1>3. /\ MemType(Cleanup(w, g.file))
      /\ Cleanup(w, g.file).info = w.info /\ Cleanup(w, g.file).refs = w.refs
      /\ Cleanup(w, g.file).files = w.files /\ Cleanup(w, g.file).regions = w.regions
      /\ \A s \in SampleInst : s \in Cleanup(w, g.file).samples <=>
              s \in w.samples /\ (s[1] # g.file \/ s \in DOMAIN w.refs)
  BY <1>2, CleanupFacts
<1>4. /\ w.refs = m.refs
      /\ DOMAIN w.info = DOMAIN m.info
      /\ \A r \in DOMAIN m.info : /\ w.info[r].count = m.info[r].count
                                  /\ w.info[r].kept <=> m.info[r].kept \/ r[1] = g.file
      /\ \A r \in RegionInst : r \in w.regions <=>
              r \in m.regions /\ (r[1] # g.file \/ r \in DOMAIN m.info)
      /\ \A s \in SampleInst : s \in w.samples <=>
              s \in m.samples /\ (s[1] # g.file \/ \E r \in DOMAIN m.info : r[1] = g.file)
      /\ \A f : f \in w.files <=>
              f \in m.files /\ (f # g.file \/ \E r \in DOMAIN m.info : r[1] = g.file)
  BY WalkFacts
<1> HIDE DEF w
<1> QED
  BY <1>1, <1>3, <1>4

LEMMA DestroyedType ==
  ASSUME NEW m, MemType(m), NEW g, NEW i
  PROVE  MemType(DestroyedMem(m, g, i))
BY DestroyedFacts DEF DestroyedMem

-----------------------------------------------------------------------------
(* What the steps do to the command of a channel *)

LEMMA CopyTypes ==
  ASSUME TypeOK, NEW c \in Channel
  PROVE  /\ cmd[c].cur \in {0, 1} /\ Other(c) \in {0, 1} /\ Other(c) # cmd[c].cur
         /\ \A k \in {0, 1} : k = cmd[c].cur \/ k = Other(c)
         /\ \A k \in {0, 1} : cmd[c].copy[k] \in CopyType
         /\ Now(c) \in CopyType /\ OldCmd(c) \in CopyType
         /\ Now(c).inst \in Instrument \cup {None} /\ Now(c).change \in BOOLEAN
         /\ Now(c).used \in SUBSET (Voice \X RegionInst)
         /\ OldCmd(c).inst \in Instrument \cup {None} /\ OldCmd(c).change \in BOOLEAN
         /\ OldCmd(c).used \in SUBSET (Voice \X RegionInst)
         /\ locked[c] \in {{}, {cmd[c].cur}, {Other(c)}}
<1>1. /\ cmd[c].cur \in {0, 1} /\ cmd[c].copy \in [{0, 1} -> CopyType]
      /\ locked[c] \in {{}, {0}, {1}}
  BY DEF TypeOK
<1>2. Other(c) \in {0, 1} /\ Other(c) # cmd[c].cur
  BY <1>1 DEF Other
<1>3. Now(c) \in CopyType /\ OldCmd(c) \in CopyType
  BY <1>1, <1>2 DEF Now, OldCmd
<1> QED
  BY <1>1, <1>2, <1>3 DEF CopyType

\* The command of a channel that the step does not concern
LEMMA SameCmd ==
  ASSUME NEW c, cmd'[c] = cmd[c]
  PROVE  /\ Now(c)' = Now(c) /\ OldCmd(c)' = OldCmd(c) /\ Other(c)' = Other(c)
         /\ cmd'[c].cur = cmd[c].cur
BY DEF Now, OldCmd, Other

LEMMA CopyExcept ==
  ASSUME NEW z \in CopyType, NEW used \in SUBSET (Voice \X RegionInst)
  PROVE  [z EXCEPT !.used = used] = [inst |-> z.inst, change |-> z.change, used |-> used]
BY DEF CopyType

\* What a step makes of a command, copy by copy
LEMMA NewCopies ==
  ASSUME TypeOK, NEW c \in Channel, NEW cur \in {0, 1},
         NEW x \in CopyType, NEW y \in CopyType,
         cmd' = [cmd EXCEPT ![c] = [cur |-> cur, copy |-> [k \in {0, 1} |-> IF k = cur THEN x ELSE y]]]
  PROVE  /\ cmd' \in [Channel -> [cur : {0, 1}, copy : [{0, 1} -> CopyType]]]
         /\ \A d \in Channel \ {c} : cmd'[d] = cmd[d]
         /\ cmd'[c].cur = cur /\ Now(c)' = x /\ OldCmd(c)' = y /\ Other(c)' = 1 - cur
         /\ \A k \in {0, 1} : cmd'[c].copy[k] = IF k = cur THEN x ELSE y
<1> DEFINE new == [cur |-> cur, copy |-> [k \in {0, 1} |-> IF k = cur THEN x ELSE y]]
<1>1. new \in [cur : {0, 1}, copy : [{0, 1} -> CopyType]]
  OBVIOUS
<1>2. /\ new.cur = cur /\ new.copy[cur] = x /\ new.copy[1 - cur] = y
      /\ \A k \in {0, 1} : new.copy[k] = IF k = cur THEN x ELSE y
  OBVIOUS
<1>3. cmd \in [Channel -> [cur : {0, 1}, copy : [{0, 1} -> CopyType]]]
  BY DEF TypeOK
<1> HIDE DEF new
<1>4. /\ cmd' \in [Channel -> [cur : {0, 1}, copy : [{0, 1} -> CopyType]]]
      /\ \A d \in Channel \ {c} : cmd'[d] = cmd[d]
      /\ cmd'[c] = new
  BY <1>1, <1>3 DEF new
<1> QED
  BY <1>2, <1>4 DEF Now, OldCmd, Other

LEMMA ChangeFacts ==
  ASSUME TypeOK, NEW c \in Channel, NEW inst \in Instrument \cup {None},
         ChangeInstrument(c, inst)
  PROVE  /\ cmd' \in [Channel -> [cur : {0, 1}, copy : [{0, 1} -> CopyType]]]
         /\ \A d \in Channel \ {c} : cmd'[d] = cmd[d]
         /\ cmd'[c].cur = Other(c) /\ Other(c)' = cmd[c].cur
         /\ Now(c)' = [inst |-> inst, change |-> TRUE, used |-> OldCmd(c).used]
         /\ OldCmd(c)' = Now(c)
<1> DEFINE cur == Other(c)
           x   == [inst |-> inst, change |-> TRUE, used |-> OldCmd(c).used]
           y   == Now(c)
<1>1. cur \in {0, 1} /\ x \in CopyType /\ y \in CopyType
  BY CopyTypes DEF CopyType
<1>2. cmd[c].copy \in [{0, 1} -> CopyType] /\ cmd[c].cur \in {0, 1}
  BY DEF TypeOK
<1>3. [cmd[c].copy EXCEPT ![Other(c)] = x] = [k \in {0, 1} |-> IF k = cur THEN x ELSE y]
  <2>1. \A k \in {0, 1} : k # cur => cmd[c].copy[k] = y
    BY CopyTypes DEF Now
  <2> HIDE DEF x, y
  <2> QED
    BY <1>1, <1>2, <2>1
<1>4. cmd' = [cmd EXCEPT ![c] = [cur |-> cur, copy |-> [k \in {0, 1} |-> IF k = cur THEN x ELSE y]]]
  <2>1. cmd' = [cmd EXCEPT ![c] = [cur |-> Other(c),
                                   copy |-> [cmd[c].copy EXCEPT ![Other(c)] = x]]]
    BY Zenon DEF ChangeInstrument
  <2> HIDE DEF x, y
  <2> QED
    BY <1>3, <2>1
<1>5. 1 - cur = cmd[c].cur
  BY <1>2 DEF Other
<1> HIDE DEF x, y, cur
<1>6. /\ cmd' \in [Channel -> [cur : {0, 1}, copy : [{0, 1} -> CopyType]]]
      /\ \A d \in Channel \ {c} : cmd'[d] = cmd[d]
      /\ cmd'[c].cur = cur /\ Now(c)' = x /\ OldCmd(c)' = y /\ Other(c)' = 1 - cur
  BY <1>1, <1>4, NewCopies
<1> QED
  BY <1>5, <1>6 DEF x, y, cur

LEMMA ClearFacts ==
  ASSUME TypeOK, NEW c \in Channel, ClearOld(c)
  PROVE  /\ cmd' \in [Channel -> [cur : {0, 1}, copy : [{0, 1} -> CopyType]]]
         /\ \A d \in Channel \ {c} : cmd'[d] = cmd[d]
         /\ cmd'[c].cur = cmd[c].cur /\ Other(c)' = Other(c) /\ Now(c)' = Now(c)
         /\ OldCmd(c)' = [inst |-> OldCmd(c).inst, change |-> OldCmd(c).change, used |-> {}]
<1> DEFINE cur == cmd[c].cur
           x   == Now(c)
           y   == [inst |-> OldCmd(c).inst, change |-> OldCmd(c).change, used |-> {}]
<1>1. cur \in {0, 1} /\ x \in CopyType /\ y \in CopyType
  BY CopyTypes DEF CopyType
<1>2. /\ cmd[c].copy \in [{0, 1} -> CopyType] /\ Other(c) \in {0, 1}
      /\ cmd[c] = [cur |-> cur, copy |-> cmd[c].copy]
  BY CopyTypes DEF TypeOK
<1>3. [cmd[c].copy EXCEPT ![Other(c)] = [cmd[c].copy[Other(c)] EXCEPT !.used = {}]]
        = [k \in {0, 1} |-> IF k = cur THEN x ELSE y]
  <2>1. [cmd[c].copy[Other(c)] EXCEPT !.used = {}] = y
    <3>1. cmd[c].copy[Other(c)] \in CopyType
      BY CopyTypes
    <3> QED
      BY <3>1, CopyExcept DEF OldCmd
  <2>2. \A k \in {0, 1} : IF k = cur THEN k # Other(c) /\ cmd[c].copy[k] = x ELSE k = Other(c)
    BY CopyTypes DEF Now
  <2> HIDE DEF x, y
  <2> QED
    BY <1>1, <1>2, <2>1, <2>2
<1>4. cmd' = [cmd EXCEPT ![c] = [cur |-> cur, copy |-> [k \in {0, 1} |-> IF k = cur THEN x ELSE y]]]
  <2>1. cmd' = [cmd EXCEPT ![c] = [cmd[c] EXCEPT !.copy =
                  [cmd[c].copy EXCEPT ![Other(c)] = [cmd[c].copy[Other(c)] EXCEPT !.used = {}]]]]
    BY DEF ClearOld
  <2> HIDE DEF x, y, cur
  <2>2. \A z : [cmd[c] EXCEPT !.copy = z] = [cur |-> cur, copy |-> z]
    BY <1>2
  <2> QED
    BY <1>3, <2>1, <2>2
<1>5. 1 - cur = Other(c)
  BY DEF Other
<1> HIDE DEF x, y, cur
<1>6. /\ cmd' \in [Channel -> [cur : {0, 1}, copy : [{0, 1} -> CopyType]]]
      /\ \A d \in Channel \ {c} : cmd'[d] = cmd[d]
      /\ cmd'[c].cur = cur /\ Now(c)' = x /\ OldCmd(c)' = y /\ Other(c)' = 1 - cur
  BY <1>1, <1>4, NewCopies
<1> QED
  BY <1>5, <1>6 DEF x, y, cur

LEMMA BeginFacts ==
  ASSUME TypeOK, NEW c \in Channel, BeginCycle(c)
  PROVE  /\ cmd' \in [Channel -> [cur : {0, 1}, copy : [{0, 1} -> CopyType]]]
         /\ \A d \in Channel \ {c} : cmd'[d] = cmd[d]
         /\ cmd'[c].cur = cmd[c].cur /\ Other(c)' = Other(c) /\ OldCmd(c)' = OldCmd(c)
         /\ Now(c)' = [inst |-> Now(c).inst, change |-> FALSE, used |-> {}]
<1> DEFINE cur == cmd[c].cur
           x   == [inst |-> Now(c).inst, change |-> FALSE, used |-> {}]
           y   == OldCmd(c)
<1>1. cur \in {0, 1} /\ x \in CopyType /\ y \in CopyType
  BY CopyTypes DEF CopyType
<1>2. /\ cmd[c].copy \in [{0, 1} -> CopyType]
      /\ cmd[c] = [cur |-> cur, copy |-> cmd[c].copy]
  BY CopyTypes DEF TypeOK
<1>3. [cmd[c].copy EXCEPT ![cur] = x] = [k \in {0, 1} |-> IF k = cur THEN x ELSE y]
  <2>1. \A k \in {0, 1} : k # cur => cmd[c].copy[k] = y
    BY CopyTypes DEF OldCmd
  <2> HIDE DEF x, y, cur
  <2> QED
    BY <1>1, <1>2, <2>1
<1>4. cmd' = [cmd EXCEPT ![c] = [cur |-> cur, copy |-> [k \in {0, 1} |-> IF k = cur THEN x ELSE y]]]
  <2>1. cmd' = [cmd EXCEPT ![c] = [cmd[c] EXCEPT !.copy = [cmd[c].copy EXCEPT ![cur] = x]]]
    BY DEF BeginCycle, Now
  <2> HIDE DEF x, y, cur
  <2>2. \A z : [cmd[c] EXCEPT !.copy = z] = [cur |-> cur, copy |-> z]
    BY <1>2
  <2> QED
    BY <1>3, <2>1, <2>2
<1>5. 1 - cur = Other(c)
  BY DEF Other
<1> HIDE DEF x, y, cur
<1>6. /\ cmd' \in [Channel -> [cur : {0, 1}, copy : [{0, 1} -> CopyType]]]
      /\ \A d \in Channel \ {c} : cmd'[d] = cmd[d]
      /\ cmd'[c].cur = cur /\ Now(c)' = x /\ OldCmd(c)' = y /\ Other(c)' = 1 - cur
  BY <1>1, <1>4, NewCopies
<1> QED
  BY <1>5, <1>6 DEF x, y, cur

\* The voices of a channel, and what is listed of them
LEMMA VoiceTypes ==
  ASSUME TypeOK
  PROVE  /\ \A v \in Voice : voice[v] # None =>
              /\ voice[v] \in VoiceType
              /\ voice[v].chan \in Channel /\ voice[v].region \in RegionInst
              /\ voice[v].orphan \in BOOLEAN
         /\ \A c : InUse(c) \in SUBSET (Voice \X RegionInst)
         /\ \A c, v, r : <<v, r>> \in InUse(c) <=>
              /\ v \in Voice /\ voice[v] # None /\ voice[v].chan = c
              /\ ~ voice[v].orphan /\ r = voice[v].region
         /\ \A c : IsFiniteSet(InUse(c))
<1>1. \A v \in Voice : voice[v] # None =>
        /\ voice[v] \in VoiceType
        /\ voice[v].chan \in Channel /\ voice[v].region \in RegionInst
        /\ voice[v].orphan \in BOOLEAN
  BY DEF TypeOK, VoiceType
<1>2. \A c, u : u \in InUse(c) => \E v \in Voice : /\ voice[v] # None /\ voice[v].chan = c
                                                  /\ ~ voice[v].orphan /\ u = <<v, voice[v].region>>
  BY DEF InUse, VoicesOf
<1>3. \A c, v : v \in Voice /\ voice[v] # None /\ voice[v].chan = c /\ ~ voice[v].orphan
                  => <<v, voice[v].region>> \in InUse(c)
  BY DEF InUse, VoicesOf
<1>4. \A c : InUse(c) \in SUBSET (Voice \X RegionInst)
  BY <1>1, <1>2
<1>5. \A c, v, r : <<v, r>> \in InUse(c) <=>
        /\ v \in Voice /\ voice[v] # None /\ voice[v].chan = c
        /\ ~ voice[v].orphan /\ r = voice[v].region
  BY <1>2, <1>3
<1>6. ASSUME NEW c PROVE IsFiniteSet(InUse(c))
  <2> DEFINE V == {v \in VoicesOf(c) : ~ voice[v].orphan}
             f == [v \in V |-> <<v, voice[v].region>>]
  <2>1. V \in SUBSET Voice
    BY DEF VoicesOf
  <2>2. IsFiniteSet(V)
    BY <2>1, FS_Subset, FiniteAssumption
  <2>3. f \in Surjection(V, InUse(c))
    BY DEF Surjection, InUse
  <2> HIDE DEF f, V
  <2> QED
    BY <2>2, <2>3, FS_Surjection
<1> QED
  BY <1>1, <1>4, <1>5, <1>6

LEMMA EndFacts ==
  ASSUME TypeOK, NEW c \in Channel, EndCycle(c)
  PROVE  /\ cmd' \in [Channel -> [cur : {0, 1}, copy : [{0, 1} -> CopyType]]]
         /\ \A d \in Channel \ {c} : cmd'[d] = cmd[d]
         /\ cmd'[c].cur = cmd[c].cur /\ Other(c)' = Other(c)
         /\ Now(c)' = [inst |-> Now(c).inst, change |-> Now(c).change,
                       used |-> IF cmd[c].cur \in locked[c] THEN InUse(c) ELSE Now(c).used]
         /\ OldCmd(c)' = [inst |-> OldCmd(c).inst, change |-> OldCmd(c).change,
                          used |-> IF Other(c) \in locked[c] THEN InUse(c) ELSE OldCmd(c).used]
<1> DEFINE cur == cmd[c].cur
           x   == [inst |-> Now(c).inst, change |-> Now(c).change,
                   used |-> IF cmd[c].cur \in locked[c] THEN InUse(c) ELSE Now(c).used]
           y   == [inst |-> OldCmd(c).inst, change |-> OldCmd(c).change,
                   used |-> IF Other(c) \in locked[c] THEN InUse(c) ELSE OldCmd(c).used]
           z   == [i \in {0, 1} |-> IF i \in locked[c] THEN [cmd[c].copy[i] EXCEPT !.used = InUse(c)]
                                    ELSE cmd[c].copy[i]]
<1>1. cur \in {0, 1} /\ x \in CopyType /\ y \in CopyType
  BY CopyTypes, VoiceTypes DEF CopyType
<1>2. /\ cmd[c].copy \in [{0, 1} -> CopyType]
      /\ cmd[c] = [cur |-> cur, copy |-> cmd[c].copy]
  BY CopyTypes DEF TypeOK
<1>3. z = [k \in {0, 1} |-> IF k = cur THEN x ELSE y]
  <2>1. \A k \in {0, 1} : cmd[c].copy[k] = IF k = cur THEN Now(c) ELSE OldCmd(c)
    BY CopyTypes DEF Now, OldCmd
  <2>2. /\ Now(c) \in CopyType /\ OldCmd(c) \in CopyType
        /\ InUse(c) \in SUBSET (Voice \X RegionInst)
    BY CopyTypes, VoiceTypes
  <2>3. x = IF cur \in locked[c] THEN [Now(c) EXCEPT !.used = InUse(c)] ELSE Now(c)
    <3>1. cur \in locked[c] => x = [inst |-> Now(c).inst, change |-> Now(c).change, used |-> InUse(c)]
      OBVIOUS
    <3>2. cur \notin locked[c] => x = Now(c)
      BY <2>2 DEF CopyType
    <3> HIDE DEF x
    <3> QED
      BY <2>2, <3>1, <3>2, CopyExcept
  <2>4. y = IF Other(c) \in locked[c] THEN [OldCmd(c) EXCEPT !.used = InUse(c)] ELSE OldCmd(c)
    <3>1. Other(c) \in locked[c] =>
            y = [inst |-> OldCmd(c).inst, change |-> OldCmd(c).change, used |-> InUse(c)]
      OBVIOUS
    <3>2. Other(c) \notin locked[c] => y = OldCmd(c)
      BY <2>2 DEF CopyType
    <3> HIDE DEF y
    <3> QED
      BY <2>2, <3>1, <3>2, CopyExcept
  <2>5. \A k \in {0, 1} : k # cur => k = Other(c)
    BY CopyTypes
  <2>6. \A k \in {0, 1} : z[k] = IF k = cur THEN x ELSE y
    <3>1. \A k \in {0, 1} : z[k] = IF k \in locked[c] THEN [cmd[c].copy[k] EXCEPT !.used = InUse(c)]
                                   ELSE cmd[c].copy[k]
      OBVIOUS
    <3> HIDE DEF x, y, z, cur
    <3>2. SUFFICES ASSUME NEW k \in {0, 1} PROVE z[k] = IF k = cur THEN x ELSE y
      OBVIOUS
    <3>3. CASE k = cur
      BY <2>1, <2>3, <3>1, <3>3
    <3>4. CASE k # cur
      BY <2>1, <2>4, <2>5, <3>1, <3>4
    <3> QED
      BY <3>3, <3>4
  <2>7. z = [k \in {0, 1} |-> z[k]]
    OBVIOUS
  <2> HIDE DEF x, y, z, cur
  <2> QED
    BY <2>6, <2>7
<1>4. cmd' = [cmd EXCEPT ![c] = [cur |-> cur, copy |-> [k \in {0, 1} |-> IF k = cur THEN x ELSE y]]]
  <2>1. cmd' = [cmd EXCEPT ![c] = [cmd[c] EXCEPT !.copy = z]]
    BY DEF EndCycle
  <2> HIDE DEF x, y, z, cur
  <2>2. \A w : [cmd[c] EXCEPT !.copy = w] = [cur |-> cur, copy |-> w]
    BY <1>2
  <2> QED
    BY <1>3, <2>1, <2>2
<1>5. 1 - cur = Other(c)
  BY DEF Other
<1> HIDE DEF x, y, z, cur
<1>6. /\ cmd' \in [Channel -> [cur : {0, 1}, copy : [{0, 1} -> CopyType]]]
      /\ \A d \in Channel \ {c} : cmd'[d] = cmd[d]
      /\ cmd'[c].cur = cur /\ Now(c)' = x /\ OldCmd(c)' = y /\ Other(c)' = 1 - cur
  BY <1>1, <1>4, NewCopies
<1> QED
  BY <1>5, <1>6 DEF x, y, cur

-----------------------------------------------------------------------------
(* Types *)

GigType == [file : Files \cup {0}, users : SUBSET Index, made : Nat]

\* A file that is borrowed for an instrument
LEMMA OpenedFacts ==
  ASSUME NEW g \in GigType, NEW i \in Index, g.file # 0 \/ g.made + 1 \in Files
  PROVE  /\ Opened(g, i) \in GigType /\ Opened(g, i).file \in Files
         /\ g.file # 0 => /\ Opened(g, i).file = g.file /\ Opened(g, i).made = g.made
                          /\ Opened(g, i).users = g.users \cup {i}
         /\ g.file = 0 => /\ Opened(g, i).file = g.made + 1 /\ Opened(g, i).made = g.made + 1
                          /\ Opened(g, i).users = {i}
BY DEF GigType, Opened, Files

\* A file that is handed back for an instrument
LEMMA HandedBackFacts ==
  ASSUME NEW g \in GigType, NEW i \in Index
  PROVE  /\ HandedBack(g, i) \in GigType
         /\ HandedBack(g, i).made = g.made
         /\ HandedBack(g, i).users = g.users \ {i}
         /\ HandedBack(g, i).file = IF LastUser(g, i) THEN 0 ELSE g.file
BY DEF GigType, HandedBack, LastUser

\* There is a number left for a file that a load may yet read.
LEMMA RoomForFile ==
  ASSUME TypeOK, FilesInv
  PROVE  /\ IsFiniteSet(Pending) /\ Cardinality(Pending) \in Nat
         /\ gig.made + 1 <= MaxLoads => gig.made + 1 \in Files
         /\ \A c \in Channel : pc[c] \in {"clear", "handback", "borrow", "update", "cleanup"} =>
              gig.made + 1 <= loads + commands /\ gig.made + 1 \in Files
         /\ loads + commands < MaxLoads => gig.made + 1 \in Files
<1>1. gig.made \in Nat /\ loads \in Nat /\ commands \in Nat /\ MaxLoads \in Nat
  BY BoundsAssumption DEF TypeOK
<1>2. IsFiniteSet(Pending) /\ Cardinality(Pending) \in Nat
  <2>1. Pending \in SUBSET Channel
    BY DEF Pending
  <2> QED
    BY <2>1, FS_Subset, FS_CardinalityType, FiniteAssumption
<1>3. \A c \in Channel : pc[c] \in {"clear", "handback", "borrow", "update", "cleanup"} =>
        Cardinality(Pending) # 0
  <2>1. Cardinality(Pending) = 0 => Pending = {}
    BY <1>2, FS_EmptySet
  <2> QED
    BY <2>1 DEF Pending
<1>4. /\ gig.made + Cardinality(Pending) <= loads + commands
      /\ loads + commands <= MaxLoads
  BY DEF FilesInv
<1> QED
  BY <1>1, <1>2, <1>3, <1>4 DEF Files

\* The entry of an instrument that is created
LEMMA CreateType ==
  ASSUME NEW i \in Index, NEW m, MemType(m), NEW g \in GigType,
         g.file # 0 \/ g.made + 1 \in Files, NEW size \in Nat, NEW users \in SUBSET Channel,
         entry \in [Index -> EntryType], Create(i, m, g, size, users)
  PROVE  /\ gig' = Opened(g, i) /\ gig' \in GigType /\ gig'.file \in Files
         /\ mem' = Loaded(m, gig'.file) /\ MemType(mem')
         /\ entry' \in [Index -> EntryType]
         /\ \A j \in Index \ {i} : entry'[j] = entry[j]
         /\ entry'[i].res = <<gig'.file, i>> /\ entry'[i].users = users
         /\ entry'[i].mode = entry[i].mode
<1>1. gig' = Opened(g, i) /\ gig' \in GigType /\ gig'.file \in Files
  BY OpenedFacts DEF Create
<1>2. mem' = Loaded(m, gig'.file) /\ MemType(mem')
  BY <1>1, LoadedFacts DEF Create
<1>3. <<gig'.file, i>> \in Instrument
  BY <1>1 DEF Instrument
<1> DEFINE e == [entry[i] EXCEPT !.res = <<gig'.file, i>>, !.size = size, !.users = users]
<1>4. e \in EntryType /\ e.res = <<gig'.file, i>> /\ e.users = users /\ e.mode = entry[i].mode
  BY <1>3 DEF EntryType
<1>5. entry' = [entry EXCEPT ![i] = e]
  BY <1>1 DEF Create
<1> HIDE DEF e
<1> QED
  BY <1>1, <1>2, <1>4, <1>5

LEMMA EmptyTypes ==
  /\ NoEntry \in EntryType /\ NoEntry.res = None /\ NoEntry.users = {}
  /\ NoCmd \in CopyType
BY DEF NoEntry, EntryType, Mode, NoCmd, CopyType

LEMMA LargestCycleType == LargestCycle \in Nat
<1> DEFINE S == {CycleSize[c] : c \in Channel}
           f == [c \in Channel |-> CycleSize[c]]
<1>1. S \in SUBSET Nat /\ S # {}
  BY InstrumentsAssumption, FiniteAssumption
<1>2. IsFiniteSet(S)
  <2>1. f \in Surjection(Channel, S)
    BY DEF Surjection
  <2> QED
    BY <2>1, FS_Surjection, FiniteAssumption
<1>3. Max(S) \in S
  BY <1>1, <1>2, MaxIsMember
<1> QED
  BY <1>1, <1>3 DEF LargestCycle

\* Voices that are forgotten
LEMMA DropFacts ==
  ASSUME TypeOK, NEW c \in Channel, DropVoices(c)
  PROVE  /\ voice' \in [Voice -> {None} \cup VoiceType]
         /\ \A v \in Voice : voice'[v] = IF voice[v] # None /\ voice[v].chan = c
                                         THEN None ELSE voice[v]
         /\ upset' \subseteq {"dropped", "early", "raced"} /\ upset \subseteq upset'
         /\ "dropped" \notin upset' =>
              /\ voice' = voice /\ \A k \in {0, 1} : cmd[c].copy[k].used = {}
BY DEF TypeOK, DropVoices

LEMMA Init_Type == Init => TypeOK
<1> SUFFICES ASSUME Init PROVE TypeOK
  OBVIOUS
<1>1. MemType(mem)
  BY DEF Init, MemType
<1>2. cmd \in [Channel -> [cur : {0, 1}, copy : [{0, 1} -> CopyType]]]
  BY EmptyTypes DEF Init
<1>3. entry \in [Index -> EntryType]
  BY EmptyTypes DEF Init
<1> QED
  BY <1>1, <1>2, <1>3, BoundsAssumption DEF Init, TypeOK

\* Every step keeps the types.
LEMMA Type_Step ==
  ASSUME TypeOK, FilesInv, EntryInv, LoaderInv, UsedInv, Step
  PROVE  TypeOK'
<1> USE DEF TypeOK, audio, manager, loader, bounds
<1>1. ASSUME NEW c \in Channel, NEW i \in Index, LoadInstrument(c, i) PROVE TypeOK'
  <2>1. cmd' \in [Channel -> [cur : {0, 1}, copy : [{0, 1} -> CopyType]]]
    BY <1>1, ChangeFacts DEF LoadInstrument
  <2>2. loads' \in 0..MaxLoads
    BY <1>1, BoundsAssumption DEF LoadInstrument
  <2> QED
    BY <1>1, <2>1, <2>2 DEF LoadInstrument
<1>2. ASSUME NEW c \in Channel, HandBackInstrument(c) PROVE TypeOK'
  <2>1. MemType(mem')
    <3>1. /\ OldCmd(c).used \in SUBSET (Voice \X RegionInst) /\ IsFiniteSet(OldCmd(c).used)
      BY CopyTypes DEF UsedInv, OldCmd
    <3> QED
      BY <1>2, <3>1, CountedFacts DEF HandBackInstrument
  <2> QED
    BY <1>2, <2>1 DEF HandBackInstrument
<1>3. ASSUME NEW c \in Channel, NothingToHandBack(c) PROVE TypeOK'
  <2>1. cmd' \in [Channel -> [cur : {0, 1}, copy : [{0, 1} -> CopyType]]]
    BY <1>3, ClearFacts DEF NothingToHandBack
  <2> QED
    BY <1>3, <2>1 DEF NothingToHandBack
<1>4. ASSUME NEW c \in Channel, HandBack(c) PROVE TypeOK'
  <2>1. cmd' \in [Channel -> [cur : {0, 1}, copy : [{0, 1} -> CopyType]]]
    BY <1>4, ClearFacts DEF HandBack
  <2>2. entry' \in [Index -> EntryType] /\ gig' \in GigType /\ MemType(mem')
    <3>1. gig \in GigType
      BY DEF GigType
    <3>2. CASE UNCHANGED manager
      BY <3>1, <3>2
    <3>3. ASSUME NEW i \in Index,
                 LET e == [entry[i] EXCEPT !.users = @ \ {c}]
                 IN  IF Unneeded(e)
                     THEN /\ entry' = [entry EXCEPT ![i] = NoEntry]
                          /\ mem' = DestroyedMem(mem, gig, i) /\ gig' = HandedBack(gig, i)
                     ELSE entry' = [entry EXCEPT ![i] = e] /\ UNCHANGED <<gig, mem>>
          PROVE  entry' \in [Index -> EntryType] /\ gig' \in GigType /\ MemType(mem')
      <4>1. [entry[i] EXCEPT !.users = @ \ {c}] \in EntryType
        <5>1. entry[i] \in EntryType
          OBVIOUS
        <5> QED
          BY <5>1 DEF EntryType
      <4>2. MemType(DestroyedMem(mem, gig, i)) /\ HandedBack(gig, i) \in GigType
        BY <3>1, DestroyedType, HandedBackFacts
      <4> DEFINE e == [entry[i] EXCEPT !.users = @ \ {c}]
      <4>3. \/ /\ entry' = [entry EXCEPT ![i] = NoEntry]
               /\ mem' = DestroyedMem(mem, gig, i) /\ gig' = HandedBack(gig, i)
            \/ entry' = [entry EXCEPT ![i] = e] /\ UNCHANGED <<gig, mem>>
        BY <3>3
      <4>4. e \in EntryType /\ entry \in [Index -> EntryType] /\ MemType(mem)
        BY <4>1
      <4> HIDE DEF e, TypeOK
      <4> QED
        BY <3>1, <4>2, <4>3, <4>4, EmptyTypes
    <3> QED
      BY <1>4, <3>2, <3>3 DEF HandBack, EntryOf
  <2> QED
    BY <1>4, <2>1, <2>2 DEF HandBack, GigType
<1>5. ASSUME NEW c \in Channel, BorrowNew(c) PROVE TypeOK'
  <2>1. want[c] \in Index
    BY <1>5 DEF LoaderInv, Midway, BorrowNew
  <2>2. gig \in GigType /\ (gig.file # 0 \/ gig.made + 1 \in Files)
    BY <1>5, RoomForFile DEF GigType, BorrowNew
  <2>3. /\ CycleSize[c] \in Nat /\ entry[want[c]].users \cup {c} \in SUBSET Channel
        /\ entry \in [Index -> EntryType] /\ MemType(mem)
    BY <2>1, InstrumentsAssumption DEF EntryType
  <2>4. Create(want[c], mem, gig, CycleSize[c], entry[want[c]].users \cup {c})
    BY <1>5 DEF BorrowNew
  <2>5. /\ gig' \in GigType /\ gig'.file \in Files /\ MemType(mem')
        /\ entry' \in [Index -> EntryType]
    <3> HIDE DEF TypeOK
    <3> QED
      BY <2>1, <2>2, <2>3, <2>4, CreateType
  <2>6. <<gig'.file, want[c]>> \in Instrument
    BY <2>1, <2>5 DEF Instrument
  <2> QED
    BY <1>5, <2>5, <2>6 DEF BorrowNew, Borrowed, GigType
<1>6. ASSUME NEW c \in Channel, BorrowFails(c) PROVE TypeOK'
  BY <1>6 DEF BorrowFails
<1>7. ASSUME NEW c \in Channel, BorrowExisting(c) PROVE TypeOK'
  <2>1. want[c] \in Index
    BY <1>7 DEF LoaderInv, Midway, BorrowExisting
  <2>2. entry' = [entry EXCEPT ![want[c]] = [entry[want[c]] EXCEPT !.users = @ \cup {c}]]
    BY <1>7 DEF BorrowExisting
  <2>3. [entry[want[c]] EXCEPT !.users = @ \cup {c}] \in EntryType
    <3>1. entry[want[c]] \in EntryType
      BY <2>1
    <3> QED
      BY <3>1 DEF EntryType
  <2>4. entry' \in [Index -> EntryType]
    BY <2>1, <2>2, <2>3
  <2>5. entry[want[c]].res \in Instrument \cup {None} /\ entry[want[c]].users \subseteq Channel
    BY <2>1 DEF EntryType
  <2> QED
    BY <1>7, <2>4, <2>5 DEF BorrowExisting, Borrowed
<1>8. ASSUME NEW c \in Channel, NEW d \in Channel, ToBeUpdated(c, d) PROVE TypeOK'
  <2>1. voice' \in [Voice -> {None} \cup VoiceType] /\ upset' \subseteq {"dropped", "early", "raced"}
    BY <1>8, DropFacts DEF ToBeUpdated
  <2> QED
    BY <1>8, <2>1 DEF ToBeUpdated
<1>9. ASSUME NEW c \in Channel, UpdateDestroys(c) PROVE TypeOK'
  <2>1. MemType(mem')
    BY <1>9, WalkFacts DEF UpdateDestroys
  <2> QED
    BY <1>9, <2>1 DEF UpdateDestroys
<1>10. ASSUME NEW c \in Channel, UpdateCreates(c) PROVE TypeOK'
  <2> DEFINE g == HandedBack(gig, want[c])
             m == IF LastUser(gig, want[c]) THEN Cleanup(mem, gig.file) ELSE mem
  <2>1. want[c] \in Index
    BY <1>10 DEF LoaderInv, Midway, UpdateCreates
  <2>2. gig.made + 1 \in Files
    BY <1>10, RoomForFile DEF UpdateCreates
  <2>3. g \in GigType /\ g.made = gig.made
    BY <2>1, HandedBackFacts DEF GigType
  <2>4. MemType(m)
    BY CleanupFacts
  <2>5. CycleSize[c] \in Nat /\ entry[want[c]].users \in SUBSET Channel
    BY <2>1, InstrumentsAssumption DEF EntryType
  <2>6. Create(want[c], m, g, CycleSize[c], entry[want[c]].users)
    BY <1>10 DEF UpdateCreates
  <2> HIDE DEF g, m
  <2>7. /\ gig' \in GigType /\ MemType(mem') /\ entry' \in [Index -> EntryType]
    BY <2>1, <2>2, <2>3, <2>4, <2>5, <2>6, CreateType
  <2> QED
    BY <1>10, <2>5, <2>7 DEF UpdateCreates, GigType
<1>11. ASSUME NEW c \in Channel, NEW d \in Channel, Updated(c, d) PROVE TypeOK'
  <2>1. want[c] \in Index
    BY <1>11 DEF LoaderInv, Midway, Updated
  <2>2. entry[want[c]].res \in Instrument \cup {None}
    BY <2>1 DEF EntryType
  <2> QED
    BY <1>11, <2>2 DEF Updated
<1>12. ASSUME NEW c \in Channel, UpdateEnds(c) PROVE TypeOK'
  <2>1. want[c] \in Index
    BY <1>12 DEF LoaderInv, Midway, UpdateEnds
  <2>2. entry[want[c]].res \in Instrument \cup {None}
    BY <2>1 DEF EntryType
  <2> QED
    BY <1>12, <2>2 DEF UpdateEnds, Borrowed
<1>13. ASSUME NEW c \in Channel, UseInstrument(c) PROVE TypeOK'
  <2>1. cmd' \in [Channel -> [cur : {0, 1}, copy : [{0, 1} -> CopyType]]]
    BY <1>13, ChangeFacts DEF UseInstrument
  <2> QED
    BY <1>13, <2>1 DEF UseInstrument
<1>14. ASSUME NEW c \in Channel, Finish(c) PROVE TypeOK'
  BY <1>14 DEF Finish
<1>15. ASSUME NEW c \in Channel, BeginCycle(c) PROVE TypeOK'
  <2>1. cmd' \in [Channel -> [cur : {0, 1}, copy : [{0, 1} -> CopyType]]]
    BY <1>15, BeginFacts
  <2>2. voice' \in [Voice -> {None} \cup VoiceType]
    <3>1. ASSUME NEW v \in VoicesOf(c)
          PROVE  [voice[v] EXCEPT !.orphan = TRUE] \in VoiceType
      <4>1. voice[v] \in VoiceType
        BY VoiceTypes DEF VoicesOf
      <4> QED
        BY <4>1 DEF VoiceType
    <3>2. Orphaned(c) \in [Voice -> {None} \cup VoiceType]
      BY <3>1 DEF Orphaned
    <3> QED
      BY <1>15, <3>2 DEF BeginCycle
  <2>3. cmd[c].cur \in {0, 1} /\ Now(c).inst \in Instrument \cup {None}
    BY CopyTypes
  <2>4. locked' \in [Channel -> {{}, {0}, {1}}]
    BY <1>15, <2>3 DEF BeginCycle
  <2>5. played' \in [Channel -> Instrument \cup {None}]
    BY <1>15, <2>3 DEF BeginCycle, Now
  <2> QED
    BY <1>15, <2>1, <2>2, <2>4, <2>5 DEF BeginCycle
<1>16. ASSUME NEW c \in Channel, NEW r \in Region, LaunchVoice(c, r) PROVE TypeOK'
  <2> DEFINE new == [chan |-> c, region |-> <<played[c][1], r>>, orphan |-> FALSE]
  <2>1. new \in VoiceType
    BY <1>16 DEF LaunchVoice, VoiceType, RegionInst, Instrument
  <2>2. voice' = [voice EXCEPT ![Min({v \in Voice : voice[v] = None})] = new]
    BY <1>16 DEF LaunchVoice
  <2> HIDE DEF new
  <2>3. voice' \in [Voice -> {None} \cup VoiceType]
    BY <2>1, <2>2
  <2> QED
    BY <1>16, <2>3 DEF LaunchVoice
<1>17. ASSUME NEW v \in Voice, FreeVoice(v) PROVE TypeOK'
  <2>1. voice[v].region \in RegionInst
    BY <1>17, VoiceTypes DEF FreeVoice
  <2>2. ordered' \in [RegionInst -> Nat]
    BY <1>17, <2>1 DEF FreeVoice
  <2> QED
    BY <1>17, <2>2 DEF FreeVoice
<1>18. ASSUME NEW c \in Channel, EndCycle(c) PROVE TypeOK'
  <2>1. cmd' \in [Channel -> [cur : {0, 1}, copy : [{0, 1} -> CopyType]]]
    BY <1>18, EndFacts
  <2> QED
    BY <1>18, <2>1 DEF EndCycle
<1>19. ASSUME NEW r \in RegionInst, HandBackRegion(r) PROVE TypeOK'
  <2>1. MemType(mem')
    BY <1>19, HandedBackCounts DEF HandBackRegion
  <2>2. ordered' \in [RegionInst -> Nat]
    BY <1>19 DEF HandBackRegion
  <2>3. upset' \subseteq {"dropped", "early", "raced"}
    BY <1>19 DEF HandBackRegion
  <2> QED
    BY <1>19, <2>1, <2>2, <2>3 DEF HandBackRegion
<1>20. ASSUME NEW c \in Channel, Reset(c) PROVE TypeOK'
  <2>1. voice' \in [Voice -> {None} \cup VoiceType] /\ upset' \subseteq {"dropped", "early", "raced"}
    BY <1>20, DropFacts DEF Reset
  <2>2. commands' \in 0..MaxCommands /\ loads' = loads
    BY <1>20, BoundsAssumption DEF Reset, Command
  <2> QED
    BY <1>20, <2>1, <2>2 DEF Reset
<1>21. ASSUME NEW c \in Channel, UnloadInstrument(c) PROVE TypeOK'
  <2>1. cmd' \in [Channel -> [cur : {0, 1}, copy : [{0, 1} -> CopyType]]]
    BY <1>21, ChangeFacts DEF UnloadInstrument
  <2>2. commands' \in 0..MaxCommands /\ loads' = loads
    BY <1>21, BoundsAssumption DEF UnloadInstrument, Command
  <2> QED
    BY <1>21, <2>1, <2>2 DEF UnloadInstrument
<1>22. ASSUME NEW i \in Index, NEW mode \in Mode, SetMode(i, mode) PROVE TypeOK'
  <2>1. gig \in GigType /\ gig.made + 1 \in Files
    BY <1>22, RoomForFile DEF GigType, SetMode, Command
  <2>2. MemType(DestroyedMem(mem, gig, i)) /\ HandedBack(gig, i) \in GigType
    BY <2>1, DestroyedType, HandedBackFacts
  <2> DEFINE opened == Opened(gig, i)
             new    == [res |-> <<opened.file, i>>, users |-> {}, mode |-> mode, size |-> LargestCycle]
             e      == [entry[i] EXCEPT !.mode = mode]
  <2>3. opened \in GigType /\ opened.file \in Files /\ MemType(Loaded(mem, opened.file))
    BY <2>1, OpenedFacts, LoadedFacts
  <2>4. new \in EntryType
    BY <2>3, LargestCycleType DEF EntryType, Instrument
  <2>5. e \in EntryType
    <3>1. entry[i] \in EntryType
      OBVIOUS
    <3> QED
      BY <3>1 DEF EntryType
  <2>6. \/ entry' = [entry EXCEPT ![i] = NoEntry]
           /\ ((mem' = DestroyedMem(mem, gig, i) /\ gig' = HandedBack(gig, i)) \/ UNCHANGED <<mem, gig>>)
        \/ gig' = opened /\ mem' = Loaded(mem, opened.file) /\ entry' = [entry EXCEPT ![i] = new]
        \/ entry' = [entry EXCEPT ![i] = e] /\ UNCHANGED <<mem, gig>>
    BY <1>22 DEF SetMode
  <2> HIDE DEF opened, new, e
  <2>7. entry' \in [Index -> EntryType] /\ gig' \in GigType /\ MemType(mem')
    BY <2>1, <2>2, <2>3, <2>4, <2>5, <2>6, EmptyTypes
  <2>8. commands' \in 0..MaxCommands /\ loads' = loads
    BY <1>22, BoundsAssumption DEF SetMode, Command
  <2>9. UNCHANGED <<cmd, audio, loader, upset>>
    BY <1>22 DEF SetMode
  <2> QED
    BY <2>7, <2>8, <2>9 DEF GigType
<1> QED
  BY <1>1, <1>2, <1>3, <1>4, <1>5, <1>6, <1>7, <1>8, <1>9, <1>10, <1>11, <1>12, <1>13, <1>14,
     <1>15, <1>16, <1>17, <1>18, <1>19, <1>20, <1>21, <1>22 DEF Step, LoaderStep

-----------------------------------------------------------------------------
(* Files and entries *)

\* Pending loads, when one channel goes on
LEMMA PendingMoves ==
  ASSUME TypeOK, NEW c \in Channel, NEW s, pc' = [pc EXCEPT ![c] = s]
  PROVE  /\ s \in {"clear", "handback", "borrow", "update", "cleanup"} =>
              Pending' = Pending \cup {c}
         /\ s \notin {"clear", "handback", "borrow", "update", "cleanup"} =>
              Pending' = Pending \ {c}
<1>1. \A d \in Channel : pc'[d] = IF d = c THEN s ELSE pc[d]
  BY DEF TypeOK
<1> QED
  BY <1>1 DEF Pending

\* Steps that read no file
LEMMA Files_Same ==
  ASSUME TypeOK, FilesInv, Pending' \subseteq Pending, gig'.made = gig.made,
         loads' \in Nat, commands' \in Nat,
         loads' + commands' >= loads + commands, loads' + commands' <= MaxLoads,
         gig'.file \in {0, gig.file}, mem'.files \subseteq mem.files
  PROVE  FilesInv'
<1>1. IsFiniteSet(Pending) /\ Cardinality(Pending) \in Nat
  BY RoomForFile
<1>2. Pending' \in SUBSET Pending
  OBVIOUS
<1>3. Cardinality(Pending') <= Cardinality(Pending) /\ Cardinality(Pending') \in Nat
  BY <1>1, <1>2, FS_Subset, FS_CardinalityType
<1>4. gig.made \in Nat /\ loads \in Nat /\ commands \in Nat
      /\ gig.file \in Nat /\ MaxLoads \in Nat
  BY BoundsAssumption DEF TypeOK, Files
<1>5. gig'.made + Cardinality(Pending') <= loads' + commands'
  <2> DEFINE p == Cardinality(Pending)
             q == Cardinality(Pending')
             m == gig.made
             k == loads' + commands'
             n == loads + commands
  <2>1. m + p <= n
    BY DEF FilesInv
  <2>2. q <= p /\ n <= k /\ gig'.made = m
    BY <1>3
  <2>3. p \in Nat /\ q \in Nat /\ m \in Nat /\ n \in Nat /\ k \in Nat
    <3>1. p \in Nat /\ q \in Nat /\ m \in Nat
      BY <1>1, <1>3, <1>4
    <3>2. n \in Nat
      BY <1>4
    <3>3. k \in Nat
      OBVIOUS
    <3> QED
      BY <3>1, <3>2, <3>3
  <2> HIDE DEF p, q, m, n, k
  <2>4. m + q <= k
    BY <2>1, <2>2, <2>3
  <2> QED
    BY <2>2, <2>4 DEF m, q, k
<1> QED
  BY <1>4, <1>5 DEF FilesInv

\* Steps that may read a file
LEMMA Files_Read ==
  ASSUME TypeOK, FilesInv, gig'.made \in Nat, gig'.made <= gig.made + 1,
         gig.made <= gig'.made,
         loads' \in Nat, commands' \in Nat, loads' + commands' <= MaxLoads,
         gig'.file \in Nat, gig'.file <= gig'.made,
         \/ /\ loads' + commands' = loads + commands
            /\ \E c \in Pending : Pending' = Pending \ {c}
         \/ loads' + commands' = loads + commands + 1 /\ Pending' = Pending,
         \A f \in mem'.files : f \in mem.files \/ f = gig'.file
  PROVE  FilesInv'
<1>1. IsFiniteSet(Pending) /\ Cardinality(Pending) \in Nat
  BY RoomForFile
<1>2. gig.made \in Nat /\ loads \in Nat /\ commands \in Nat /\ MaxLoads \in Nat
      /\ \A f \in mem.files : f \in Nat
  BY BoundsAssumption, MemFields DEF TypeOK, Files
<1>3. gig'.made + Cardinality(Pending') <= loads' + commands'
  <2>0. gig.made + Cardinality(Pending) <= loads + commands
    BY DEF FilesInv
  <2>1. CASE /\ loads' + commands' = loads + commands
             /\ \E c \in Pending : Pending' = Pending \ {c}
    <3>1. Cardinality(Pending') = Cardinality(Pending) - 1
      BY <1>1, <2>1, FS_RemoveElement
    <3> DEFINE p == Cardinality(Pending)
               q == Cardinality(Pending')
               m == gig.made
               k == loads' + commands'
               n == loads + commands
    <3>2. m + p <= n /\ gig'.made <= m + 1 /\ q = p - 1 /\ k = n
      BY <2>0, <2>1, <3>1
    <3>3. p \in Nat /\ m \in Nat /\ n \in Nat /\ gig'.made \in Nat
      BY <1>1, <1>2
    <3> HIDE DEF p, q, m, n, k
    <3>4. gig'.made + q <= k
      BY <3>2, <3>3
    <3> QED
      BY <3>4 DEF q, k
  <2>2. CASE loads' + commands' = loads + commands + 1 /\ Pending' = Pending
    <3> DEFINE p == Cardinality(Pending)
               m == gig.made
               k == loads' + commands'
               n == loads + commands
    <3>1. m + p <= n /\ gig'.made <= m + 1 /\ k = n + 1
      BY <2>0, <2>2
    <3>2. p \in Nat /\ m \in Nat /\ n \in Nat /\ gig'.made \in Nat
      BY <1>1, <1>2
    <3> HIDE DEF p, m, n, k
    <3>3. gig'.made + p <= k
      BY <3>1, <3>2
    <3> QED
      BY <2>2, <3>3 DEF p, k
  <2> QED
    BY <2>1, <2>2
<1>4. \A f \in mem'.files : f <= gig'.made
  BY <1>2 DEF FilesInv
<1> QED
  BY <1>3, <1>4 DEF FilesInv

\* What may be destroyed, and created, by a step that changes entries
LEMMA DestroyFiles ==
  ASSUME TypeOK, NEW i \in Index
  PROVE  /\ DestroyedMem(mem, gig, i).files \subseteq mem.files
         /\ HandedBack(gig, i).made = gig.made /\ HandedBack(gig, i).file \in {0, gig.file}
<1>1. gig \in GigType /\ MemType(mem)
  BY DEF TypeOK, GigType
<1>2. DestroyedMem(mem, gig, i).files \subseteq mem.files
  BY <1>1, DestroyedFacts DEF DestroyedMem
<1> QED
  BY <1>1, <1>2, HandedBackFacts

\* The numbers of files
LEMMA Files_Step ==
  ASSUME TypeOK, FilesInv, LoaderInv, UsedInv, Step
  PROVE  FilesInv'
<1> USE DEF audio, manager, loader, bounds
<1>0. /\ loads \in Nat /\ commands \in Nat /\ MaxLoads \in Nat /\ loads + commands <= MaxLoads
      /\ gig \in GigType /\ MemType(mem) /\ gig.made \in Nat /\ gig.file \in Nat
      /\ gig.file <= gig.made
  BY BoundsAssumption DEF TypeOK, GigType, FilesInv, Files
<1>1. ASSUME NEW c \in Channel, NEW i \in Index, LoadInstrument(c, i) PROVE FilesInv'
  <2>1. Pending' = Pending \cup {c} /\ c \notin Pending
    BY <1>1, PendingMoves DEF LoadInstrument, Pending
  <2>2. Cardinality(Pending') = Cardinality(Pending) + 1 /\ Cardinality(Pending) \in Nat
    BY <2>1, RoomForFile, FS_AddElement
  <2>3. UNCHANGED <<gig, mem>> /\ loads' = loads + 1 /\ commands' = commands
        /\ loads + commands < MaxLoads
    BY <1>1 DEF LoadInstrument
  <2> QED
    BY <1>0, <2>2, <2>3 DEF FilesInv
<1>2. ASSUME NEW c \in Channel,
             HandBackInstrument(c) \/ NothingToHandBack(c) \/ HandBack(c)
             \/ BorrowFails(c) \/ BorrowExisting(c) \/ UpdateDestroys(c) \/ UpdateEnds(c)
             \/ UseInstrument(c) \/ Finish(c) \/ UnloadInstrument(c)
      PROVE  FilesInv'
  <2>1. Pending' \subseteq Pending
    <3>1. \E s : /\ pc' = [pc EXCEPT ![c] = s]
                 /\ s \in {"clear", "handback", "borrow", "update", "cleanup"} => c \in Pending
      BY <1>2 DEF HandBackInstrument, NothingToHandBack, HandBack, BorrowFails, BorrowExisting,
                  UpdateDestroys, UpdateEnds, UseInstrument, Finish, UnloadInstrument, Borrowed,
                  Pending
    <3> QED
      BY <3>1, PendingMoves
  <2>2. /\ gig'.made = gig.made /\ gig'.file \in {0, gig.file} /\ mem'.files \subseteq mem.files
    <3>1. CASE HandBackInstrument(c)
      <4>1. OldCmd(c).used \in SUBSET (Voice \X RegionInst) /\ IsFiniteSet(OldCmd(c).used)
        BY CopyTypes DEF UsedInv, OldCmd
      <4> QED
        BY <1>0, <3>1, <4>1, CountedFacts DEF HandBackInstrument
    <3>2. CASE HandBack(c)
      <4>1. \/ UNCHANGED <<gig, mem>>
            \/ \E i \in Index : mem' = DestroyedMem(mem, gig, i) /\ gig' = HandedBack(gig, i)
        BY <3>2 DEF HandBack, EntryOf
      <4> QED
        BY <4>1, DestroyFiles
    <3>3. CASE UpdateDestroys(c)
      <4>1. UNCHANGED gig /\ mem' \in {mem, Walk(mem, gig.file)}
        BY <3>3 DEF UpdateDestroys
      <4> QED
        BY <1>0, <4>1, WalkFacts
    <3>4. CASE UNCHANGED <<gig, mem>>
      BY <3>4
    <3> QED
      BY <1>2, <3>1, <3>2, <3>3, <3>4
         DEF NothingToHandBack, BorrowFails, BorrowExisting, UpdateEnds,
             UseInstrument, Finish, UnloadInstrument
  <2>3. /\ loads' \in Nat /\ commands' \in Nat
        /\ loads' + commands' >= loads + commands /\ loads' + commands' <= MaxLoads
    <3>1. CASE UNCHANGED <<loads, commands>>
      BY <1>0, <3>1
    <3>2. CASE UnloadInstrument(c)
      BY <1>0, <3>2 DEF UnloadInstrument, Command
    <3> QED
      BY <1>2, <3>1, <3>2
         DEF HandBackInstrument, NothingToHandBack, HandBack, BorrowFails, BorrowExisting,
             UpdateDestroys, UpdateEnds, UseInstrument, Finish
  <2> QED
    BY <2>1, <2>2, <2>3, Files_Same
<1>3. ASSUME NEW c \in Channel, BorrowNew(c) \/ UpdateCreates(c) PROVE FilesInv'
  <2>1. want[c] \in Index /\ c \in Pending /\ gig.made + 1 \in Files
    BY <1>3, RoomForFile DEF LoaderInv, Midway, BorrowNew, UpdateCreates, Pending
  <2>2. \E s : pc' = [pc EXCEPT ![c] = s]
               /\ s \notin {"clear", "handback", "borrow", "update", "cleanup"}
    BY <1>3 DEF BorrowNew, UpdateCreates, Borrowed
  <2>3. Pending' = Pending \ {c}
    BY <2>2, PendingMoves
  <2>4. \E g \in GigType : \E m :
          /\ g.made = gig.made /\ g.file \in {0, gig.file}
          /\ MemType(m) /\ m.files = mem.files
          /\ gig' = Opened(g, want[c]) /\ mem' = Loaded(m, gig'.file)
    <3>1. CASE BorrowNew(c)
      BY <1>0, <3>1 DEF BorrowNew, Create
    <3>2. CASE UpdateCreates(c)
      <4> DEFINE g == HandedBack(gig, want[c])
                 m == IF LastUser(gig, want[c]) THEN Cleanup(mem, gig.file) ELSE mem
      <4>1. g \in GigType /\ g.made = gig.made /\ g.file \in {0, gig.file}
        BY <1>0, <2>1, HandedBackFacts
      <4>2. MemType(m) /\ m.files = mem.files
        BY <1>0, CleanupFacts
      <4>3. gig' = Opened(g, want[c]) /\ mem' = Loaded(m, gig'.file)
        BY <3>2 DEF UpdateCreates, Create
      <4> HIDE DEF g, m
      <4> QED
        BY <4>1, <4>2, <4>3
    <3> QED
      BY <1>3, <3>1, <3>2
  <2>5a. PICK g \in GigType : \E m :
          /\ g.made = gig.made /\ g.file \in {0, gig.file}
          /\ MemType(m) /\ m.files = mem.files
          /\ gig' = Opened(g, want[c]) /\ mem' = Loaded(m, gig'.file)
    BY <2>4
  <2>5. PICK m : /\ g.made = gig.made /\ g.file \in {0, gig.file}
                 /\ MemType(m) /\ m.files = mem.files
                 /\ gig' = Opened(g, want[c]) /\ mem' = Loaded(m, gig'.file)
    BY <2>5a
  <2>6. /\ gig'.file \in Files
        /\ g.file # 0 => gig'.file = g.file /\ gig'.made = g.made
        /\ g.file = 0 => gig'.file = g.made + 1 /\ gig'.made = g.made + 1
    BY <2>1, <2>5, OpenedFacts
  <2>7. \A f \in mem'.files : f \in mem.files \/ f = gig'.file
    BY <2>5, <2>6, LoadedFacts
  <2>8. UNCHANGED <<loads, commands>>
    BY <1>3 DEF BorrowNew, UpdateCreates
  <2>9. /\ gig'.made \in Nat /\ gig'.made <= gig.made + 1 /\ gig.made <= gig'.made
        /\ gig'.file \in Nat /\ gig'.file <= gig'.made
    BY <1>0, <2>5, <2>6 DEF Files
  <2> QED
    BY <1>0, <2>1, <2>3, <2>7, <2>8, <2>9, Files_Read
<1>4. ASSUME NEW r \in RegionInst, HandBackRegion(r) PROVE FilesInv'
  <2>1. mem'.files \subseteq mem.files
    BY <1>0, <1>4, HandedBackCounts DEF HandBackRegion
  <2>2. UNCHANGED <<gig, pc, loads, commands>> /\ Pending' = Pending
    BY <1>4 DEF HandBackRegion, Pending
  <2> QED
    BY <1>0, <2>1, <2>2, Files_Same
<1>5. ASSUME NEW i \in Index, NEW mode \in Mode, SetMode(i, mode) PROVE FilesInv'
  <2>1. /\ loads' = loads /\ commands' = commands + 1 /\ loads + commands < MaxLoads
        /\ Pending' = Pending
    BY <1>5 DEF SetMode, Command, Pending
  <2>2. /\ loads' \in Nat /\ commands' \in Nat
        /\ loads' + commands' = loads + commands + 1 /\ loads' + commands' <= MaxLoads
    BY <1>0, <2>1
  <2>3. \/ UNCHANGED <<gig, mem>>
        \/ mem' = DestroyedMem(mem, gig, i) /\ gig' = HandedBack(gig, i)
        \/ gig' = Opened(gig, i) /\ mem' = Loaded(mem, gig'.file)
    BY <1>5 DEF SetMode
  <2>4. CASE UNCHANGED <<gig, mem>>
    BY <1>0, <2>1, <2>2, <2>4, Files_Same
  <2>5. CASE mem' = DestroyedMem(mem, gig, i) /\ gig' = HandedBack(gig, i)
    <3>1. gig'.made = gig.made /\ gig'.file \in {0, gig.file} /\ mem'.files \subseteq mem.files
      BY <2>5, DestroyFiles
    <3> QED
      BY <1>0, <2>1, <2>2, <3>1, Files_Same
  <2>6. CASE gig' = Opened(gig, i) /\ mem' = Loaded(mem, gig'.file)
    <3>1. gig.made + 1 \in Files
      BY <2>1, RoomForFile
    <3>2. /\ gig'.file \in Files
          /\ gig.file # 0 => gig'.file = gig.file /\ gig'.made = gig.made
          /\ gig.file = 0 => gig'.file = gig.made + 1 /\ gig'.made = gig.made + 1
      BY <1>0, <2>6, <3>1, OpenedFacts
    <3>3. \A f \in mem'.files : f \in mem.files \/ f = gig'.file
      BY <1>0, <2>6, <3>2, LoadedFacts
    <3>4. /\ gig'.made \in Nat /\ gig'.made <= gig.made + 1 /\ gig.made <= gig'.made
          /\ gig'.file \in Nat /\ gig'.file <= gig'.made
      BY <1>0, <3>2 DEF Files
    <3> QED
      BY <2>1, <2>2, <3>3, <3>4, Files_Read
  <2> QED
    BY <2>3, <2>4, <2>5, <2>6
<1>6. CASE /\ UNCHANGED <<gig, mem, pc, loads>>
           /\ commands' = commands \/ (commands' = commands + 1 /\ loads + commands < MaxLoads)
  <2>1. Pending' = Pending
    BY <1>6 DEF Pending
  <2>2. /\ loads' \in Nat /\ commands' \in Nat
        /\ loads' + commands' >= loads + commands /\ loads' + commands' <= MaxLoads
    BY <1>0, <1>6
  <2> QED
    BY <1>0, <1>6, <2>1, <2>2, Files_Same
<1>7. ASSUME NEW c \in Channel, NEW d \in Channel, ToBeUpdated(c, d) \/ Updated(c, d) PROVE FilesInv'
  BY <1>6, <1>7 DEF ToBeUpdated, Updated
<1>8. ASSUME NEW c \in Channel, NEW r \in Region,
             BeginCycle(c) \/ EndCycle(c) \/ LaunchVoice(c, r) \/ Reset(c) PROVE FilesInv'
  BY <1>6, <1>8 DEF BeginCycle, EndCycle, LaunchVoice, Reset, Command
<1>9. ASSUME NEW v \in Voice, FreeVoice(v) PROVE FilesInv'
  BY <1>6, <1>9 DEF FreeVoice
<1>10. ASSUME NEW c \in Channel, BeginCycle(c) \/ EndCycle(c) \/ Reset(c) PROVE FilesInv'
  BY <1>6, <1>10 DEF BeginCycle, EndCycle, Reset, Command
<1> QED
  BY <1>1, <1>2, <1>3, <1>4, <1>5, <1>7, <1>8, <1>9, <1>10 DEF Step, LoaderStep

\* What a file has been numbered with stays.
LEMMA MadeGrows ==
  ASSUME TypeOK, FilesInv, LoaderInv, UsedInv, EntryInv, Step
  PROVE  gig'.made \in Nat /\ gig.made \in Nat /\ gig.made <= gig'.made
<1> USE DEF audio, manager, loader, bounds
<1>0. gig \in GigType /\ gig.made \in Nat
  BY DEF TypeOK, GigType
<1>1. ASSUME NEW g \in GigType, g.made = gig.made, NEW i \in Index, gig' = Opened(g, i),
             gig.made + 1 \in Files
      PROVE  gig'.made \in Nat /\ gig.made <= gig'.made
  <2>1. gig'.made = g.made \/ gig'.made = g.made + 1
    BY <1>1, OpenedFacts
  <2> QED
    BY <1>0, <1>1, <2>1
<1>2. ASSUME NEW c \in Channel, BorrowNew(c) PROVE gig'.made \in Nat /\ gig.made <= gig'.made
  <2>1. want[c] \in Index /\ gig.made + 1 \in Files
    BY <1>2, RoomForFile DEF LoaderInv, Midway, BorrowNew
  <2> QED
    BY <1>0, <1>1, <1>2, <2>1 DEF BorrowNew, Create
<1>3. ASSUME NEW c \in Channel, UpdateCreates(c) PROVE gig'.made \in Nat /\ gig.made <= gig'.made
  <2>1. want[c] \in Index /\ gig.made + 1 \in Files
    BY <1>3, RoomForFile DEF LoaderInv, Midway, UpdateCreates
  <2>2. HandedBack(gig, want[c]) \in GigType /\ HandedBack(gig, want[c]).made = gig.made
    BY <1>0, <2>1, HandedBackFacts
  <2>3. gig' = Opened(HandedBack(gig, want[c]), want[c])
    BY <1>3 DEF UpdateCreates, Create
  <2> QED
    BY <1>1, <2>1, <2>2, <2>3
<1>4. ASSUME NEW i \in Index, gig' = HandedBack(gig, i)
      PROVE  gig'.made \in Nat /\ gig.made <= gig'.made
  BY <1>0, <1>4, HandedBackFacts
<1>5. ASSUME NEW c \in Channel, HandBack(c) PROVE gig'.made \in Nat /\ gig.made <= gig'.made
  <2>1. UNCHANGED gig \/ \E i \in Index : gig' = HandedBack(gig, i)
    BY <1>5 DEF HandBack, EntryOf
  <2> QED
    BY <1>0, <1>4, <2>1
<1>6. ASSUME NEW i \in Index, NEW mode \in Mode, SetMode(i, mode)
      PROVE  gig'.made \in Nat /\ gig.made <= gig'.made
  <2>1. gig.made + 1 \in Files
    BY <1>6, RoomForFile DEF SetMode, Command
  <2>2. gig' = gig \/ gig' = HandedBack(gig, i) \/ gig' = Opened(gig, i)
    BY <1>6 DEF SetMode
  <2> QED
    BY <1>0, <1>1, <1>4, <2>1, <2>2
<1>7. CASE UNCHANGED gig
  BY <1>0, <1>7
<1>8. ASSUME NEW c \in Channel, LoaderStep(c) PROVE gig'.made \in Nat /\ gig.made <= gig'.made
  BY <1>2, <1>3, <1>5, <1>7, <1>8
     DEF LoaderStep, HandBackInstrument, NothingToHandBack, BorrowFails, BorrowExisting,
         ToBeUpdated, Updated, UpdateDestroys, UpdateEnds, UseInstrument, Finish
<1>9. ASSUME NEW c \in Channel,
             \/ \E i \in Index : LoadInstrument(c, i)
             \/ BeginCycle(c) \/ EndCycle(c)
             \/ \E r \in Region : LaunchVoice(c, r)
             \/ Reset(c) \/ UnloadInstrument(c)
      PROVE  gig' = gig
  BY <1>9 DEF LoadInstrument, BeginCycle, EndCycle, LaunchVoice, Reset, UnloadInstrument
<1>10. ASSUME \/ \E v \in Voice : FreeVoice(v)
              \/ \E r \in RegionInst : HandBackRegion(r)
       PROVE  gig' = gig
  BY <1>10 DEF FreeVoice, HandBackRegion
<1> QED
  BY <1>0, <1>6, <1>7, <1>8, <1>9, <1>10 DEF Step

\* Between the changes of its command, and within a cycle, what a channel plays is
\* borrowed by it.
LEMMA PlaysBorrowed ==
  ASSUME TypeOK, CmdInv, PlayedInv, NEW c \in Channel, locked[c] # {}, played[c] # None
  PROVE  ~ Committed(c) /\ Uses(c, played[c])
<1>1. cmd[c].cur \in locked[c] \/ Other(c) \in locked[c]
  BY CopyTypes
<1>2. ~ Committed(c)
  BY <1>1 DEF CmdInv, Committed, Switched
<1> QED
  BY <1>2 DEF PlayedInv

\* What is used is of the file that is open.
LEMMA UsedIsOpen ==
  ASSUME TypeOK, EntryInv, NEW c \in Channel, NEW inst, inst # None, Uses(c, inst)
  PROVE  /\ inst[1] = gig.file /\ gig.file # 0 /\ gig.users # {} /\ Consumer(c)
         /\ inst[2] \in Index /\ inst = <<gig.file, inst[2]>>
         /\ c \in entry[inst[2]].users /\ entry[inst[2]].res = inst
<1>1. PICK i \in Index : entry[i].res = inst /\ c \in entry[i].users
  BY DEF Uses
<1>2. entry[i].res = <<gig.file, i>>
  BY <1>1 DEF EntryInv
<1>3. i \in gig.users
  BY <1>1 DEF EntryInv
<1>4. gig.file # 0
  BY <1>3 DEF EntryInv
<1> QED
  BY <1>1, <1>2, <1>3, <1>4 DEF Consumer

\* Nothing is in use of a file that is yet to be read.
LEMMA Born_Step ==
  ASSUME TypeOK, FilesInv, BornInv, EntryInv, LoaderInv, CmdInv, PlayedInv, UsedInv, Step
  PROVE  BornInv'
<1> USE DEF audio, manager, loader, bounds
<1>0. /\ gig'.made \in Nat /\ gig.made \in Nat /\ gig.made <= gig'.made
      /\ gig.file \in Nat /\ gig.file <= gig.made
      /\ \A r \in RegionInst : r[1] \in Nat
      /\ \A s \in SampleInst : s[1] \in Nat
      /\ MemType(mem)
  BY MadeGrows DEF FilesInv, TypeOK, RegionInst, SampleInst, Files
<1> DEFINE VoicesBorn == \A v \in Voice : voice[v] # None => voice[v].region[1] <= gig.made
           ListsBorn(c) == \A k \in {0, 1} : \A u \in cmd[c].copy[k].used : u[2][1] <= gig.made
           OrdersBorn == \A r \in RegionInst : ordered[r] > 0 => r[1] <= gig.made
           CountsBorn == /\ \A r \in DOMAIN mem.info : r[1] <= gig.made
                         /\ \A s \in DOMAIN mem.refs : s[1] <= gig.made
<1>1. /\ BornInv => VoicesBorn /\ (\A c \in Channel : ListsBorn(c)) /\ OrdersBorn /\ CountsBorn
      /\ VoicesBorn' /\ (\A c \in Channel : ListsBorn(c)') /\ OrdersBorn' /\ CountsBorn' => BornInv'
  BY DEF BornInv
<1>2. VoicesBorn /\ (\A c \in Channel : ListsBorn(c)) /\ OrdersBorn /\ CountsBorn
  BY <1>1
<1>3. \A v \in Voice : voice[v] # None => voice[v].region \in RegionInst
  BY VoiceTypes
<1>4. \A c \in Channel, k \in {0, 1} : \A u \in cmd[c].copy[k].used : u[2] \in RegionInst
  BY CopyTypes DEF CopyType
<1>5. DOMAIN mem.info \subseteq RegionInst /\ DOMAIN mem.refs \subseteq SampleInst
  BY <1>0, MemFields
<1>6. UNCHANGED voice => VoicesBorn'
  BY <1>0, <1>2, <1>3
<1>7. ASSUME NEW c \in Channel, cmd'[c] = cmd[c] PROVE ListsBorn(c)'
  BY <1>0, <1>2, <1>4, <1>7
<1>8. ASSUME NEW c \in Channel,
             \A k \in {0, 1} : \A u \in cmd'[c].copy[k].used :
               \/ \E j \in {0, 1} : u \in cmd[c].copy[j].used
               \/ u \in InUse(c)
      PROVE  ListsBorn(c)'
  <2>1. \A u \in InUse(c) : u[2] \in RegionInst /\ u[2][1] <= gig.made
    BY <1>2, <1>3, VoiceTypes
  <2> QED
    BY <1>0, <1>2, <1>4, <1>8, <2>1
<1>9. UNCHANGED ordered => OrdersBorn'
  BY <1>0, <1>2
<1>10. DOMAIN mem'.info \subseteq DOMAIN mem.info /\ DOMAIN mem'.refs \subseteq DOMAIN mem.refs
         => CountsBorn'
  BY <1>0, <1>2, <1>5
<1> HIDE DEF VoicesBorn, ListsBorn, OrdersBorn, CountsBorn
<1>11. VoicesBorn'
  <2>1. ASSUME \A v \in Voice : voice'[v] # None =>
                 voice[v] # None /\ voice'[v].region = voice[v].region
        PROVE  VoicesBorn'
    BY <1>0, <1>2, <1>3, <2>1 DEF VoicesBorn
  <2>2. ASSUME NEW c \in Channel, DropVoices(c) PROVE VoicesBorn'
    BY <2>1, <2>2, DropFacts
  <2>3. ASSUME NEW c \in Channel, BeginCycle(c) PROVE VoicesBorn'
    <3>1. voice' = voice \/ voice' = Orphaned(c)
      BY <2>3 DEF BeginCycle
    <3>2. \A v \in Voice : voice[v] # None => [voice[v] EXCEPT !.orphan = TRUE].region = voice[v].region
                                    /\ voice[v] \in VoiceType
      BY VoiceTypes DEF VoiceType
    <3> QED
      BY <2>1, <3>1, <3>2 DEF Orphaned, VoicesOf
  <2>4. ASSUME NEW c \in Channel, NEW r \in Region, LaunchVoice(c, r) PROVE VoicesBorn'
    <3>1. played[c][1] = gig.file
      BY <2>4, PlaysBorrowed, UsedIsOpen DEF LaunchVoice
    <3> DEFINE new == [chan |-> c, region |-> <<played[c][1], r>>, orphan |-> FALSE]
    <3>2. new.region[1] = gig.file
      BY <3>1
    <3>3. voice' = [voice EXCEPT ![Min({v \in Voice : voice[v] = None})] = new]
          /\ voice \in [Voice -> {None} \cup VoiceType]
      BY <2>4 DEF LaunchVoice, TypeOK
    <3> HIDE DEF new
    <3>4. \A v \in Voice : voice'[v] = voice[v] \/ voice'[v] = new
      BY <3>3
    <3> QED
      BY <1>0, <1>2, <1>3, <3>2, <3>4 DEF VoicesBorn
  <2>5. ASSUME NEW v \in Voice, FreeVoice(v) PROVE VoicesBorn'
    BY <2>1, <2>5 DEF FreeVoice, TypeOK
  <2>6. ASSUME NEW c \in Channel, LoaderStep(c) PROVE VoicesBorn'
    <3>1. UNCHANGED voice \/ \E d \in Channel : DropVoices(d)
      BY <2>6 DEF LoaderStep, HandBackInstrument, NothingToHandBack, HandBack, BorrowNew,
         BorrowFails, BorrowExisting, ToBeUpdated, Updated, UpdateDestroys, UpdateCreates,
         UpdateEnds, UseInstrument, Finish
    <3> QED
      BY <1>6, <2>2, <3>1
  <2>7. ASSUME NEW c \in Channel,
               (\E i \in Index : LoadInstrument(c, i)) \/ EndCycle(c) \/ UnloadInstrument(c)
        PROVE  VoicesBorn'
    BY <1>6, <2>7 DEF LoadInstrument, EndCycle, UnloadInstrument
  <2>8. ASSUME \/ \E i \in Index, mode \in Mode : SetMode(i, mode)
               \/ \E r \in RegionInst : HandBackRegion(r)
        PROVE  VoicesBorn'
    BY <1>6, <2>8 DEF SetMode, HandBackRegion
  <2>9. ASSUME NEW c \in Channel, Reset(c) PROVE VoicesBorn'
    BY <2>2, <2>9 DEF Reset
  <2> QED
    BY <2>3, <2>4, <2>5, <2>6, <2>7, <2>8, <2>9 DEF Step
<1>12. ASSUME NEW d \in Channel PROVE ListsBorn(d)'
  <2>1. ASSUME NEW c \in Channel, NEW inst \in Instrument \cup {None}, ChangeInstrument(c, inst)
        PROVE  ListsBorn(d)'
    <3>1. CASE d # c
      BY <1>7, <2>1, <3>1, ChangeFacts
    <3>2. CASE d = c
      <4>1. Now(c)'.used = OldCmd(c).used /\ OldCmd(c)' = Now(c)
        BY <2>1, ChangeFacts
      <4>2. \A k \in {0, 1} : cmd'[c].copy[k] = Now(c)' \/ cmd'[c].copy[k] = OldCmd(c)'
        <5>1. cmd'[c].cur = Other(c) /\ Other(c)' = cmd[c].cur
          BY <2>1, ChangeFacts
        <5> QED
          BY <5>1, CopyTypes DEF Now, OldCmd
      <4>3. cmd[c].cur \in {0, 1} /\ Other(c) \in {0, 1}
        BY CopyTypes
      <4> QED
        BY <1>8, <3>2, <4>1, <4>2, <4>3 DEF Now, OldCmd
    <3> QED
      BY <3>1, <3>2
  <2>2. ASSUME NEW c \in Channel, cmd'[c].cur = cmd[c].cur, Other(c)' = Other(c),
               \A e \in Channel \ {c} : cmd'[e] = cmd[e],
               Now(c)'.used \in {{}, Now(c).used, InUse(c)},
               OldCmd(c)'.used \in {{}, OldCmd(c).used, InUse(c)}
        PROVE  ListsBorn(d)'
    <3>1. CASE d # c
      BY <1>7, <2>2, <3>1
    <3>2. CASE d = c
      <4>1. \A k \in {0, 1} : cmd'[c].copy[k] = Now(c)' \/ cmd'[c].copy[k] = OldCmd(c)'
        BY <2>2, CopyTypes DEF Now, OldCmd
      <4>3. cmd[c].cur \in {0, 1} /\ Other(c) \in {0, 1}
        BY CopyTypes
      <4> QED
        BY <1>8, <2>2, <3>2, <4>1, <4>3 DEF Now, OldCmd
    <3> QED
      BY <3>1, <3>2
  <2>3. ASSUME NEW c \in Channel, ClearOld(c) PROVE ListsBorn(d)'
    BY <2>2, <2>3, ClearFacts
  <2>4. ASSUME NEW c \in Channel, BeginCycle(c) PROVE ListsBorn(d)'
    BY <2>2, <2>4, BeginFacts
  <2>5. ASSUME NEW c \in Channel, EndCycle(c) PROVE ListsBorn(d)'
    BY <2>2, <2>5, EndFacts
  <2>6. ASSUME NEW c \in Channel, UseInstrument(c) PROVE ListsBorn(d)'
    <3>1. got[c] \in Instrument \cup {None}
      BY DEF TypeOK
    <3> QED
      BY <2>1, <2>6, <3>1 DEF UseInstrument
  <2>7. ASSUME NEW c \in Channel, LoaderStep(c) PROVE ListsBorn(d)'
    BY <1>7, <2>3, <2>6, <2>7 DEF LoaderStep, HandBackInstrument, NothingToHandBack, HandBack,
       BorrowNew, BorrowFails, BorrowExisting, ToBeUpdated, Updated, UpdateDestroys,
       UpdateCreates, UpdateEnds, Finish
  <2>8. ASSUME NEW c \in Channel, (\E i \in Index : LoadInstrument(c, i)) \/ UnloadInstrument(c)
        PROVE  ListsBorn(d)'
    BY <2>1, <2>8 DEF LoadInstrument, UnloadInstrument
  <2>9. ASSUME NEW c \in Channel, (\E r \in Region : LaunchVoice(c, r)) \/ Reset(c)
        PROVE  ListsBorn(d)'
    BY <1>7, <2>9 DEF LaunchVoice, Reset
  <2>10. ASSUME \/ \E i \in Index, mode \in Mode : SetMode(i, mode)
                \/ \E r \in RegionInst : HandBackRegion(r)
                \/ \E v \in Voice : FreeVoice(v)
         PROVE  ListsBorn(d)'
    BY <1>7, <2>10 DEF SetMode, HandBackRegion, FreeVoice
  <2> QED
    BY <2>4, <2>5, <2>7, <2>8, <2>9, <2>10 DEF Step
<1>13. OrdersBorn'
  <2>1. ASSUME NEW r \in RegionInst, HandBackRegion(r) PROVE OrdersBorn'
    <3>1. \A q \in RegionInst : ordered'[q] > 0 => ordered[q] > 0
      BY <2>1 DEF HandBackRegion, TypeOK
    <3> QED
      BY <1>0, <1>2, <3>1 DEF OrdersBorn
  <2>2. ASSUME NEW v \in Voice, FreeVoice(v) PROVE OrdersBorn'
    <3>1. voice[v].region \in RegionInst /\ voice[v].region[1] <= gig.made
      BY <1>2, <1>3, <2>2 DEF FreeVoice, VoicesBorn
    <3>2. \A q \in RegionInst : ordered'[q] = ordered[q] \/ q = voice[v].region
      BY <2>2 DEF FreeVoice, TypeOK
    <3> QED
      BY <1>0, <1>2, <3>1, <3>2 DEF OrdersBorn
  <2>3. ASSUME NEW c \in Channel, LoaderStep(c) PROVE OrdersBorn'
    BY <1>9, <2>3 DEF LoaderStep, HandBackInstrument, NothingToHandBack, HandBack,
       BorrowNew, BorrowFails, BorrowExisting, ToBeUpdated, Updated, UpdateDestroys,
       UpdateCreates, UpdateEnds, UseInstrument, Finish
  <2>4. ASSUME NEW c \in Channel,
               \/ \E i \in Index : LoadInstrument(c, i)
               \/ BeginCycle(c) \/ EndCycle(c)
               \/ \E r \in Region : LaunchVoice(c, r)
               \/ Reset(c) \/ UnloadInstrument(c)
        PROVE  OrdersBorn'
    BY <1>9, <2>4 DEF LoadInstrument, BeginCycle, EndCycle, LaunchVoice, Reset, UnloadInstrument
  <2>5. ASSUME \E i \in Index, mode \in Mode : SetMode(i, mode) PROVE OrdersBorn'
    BY <1>9, <2>5 DEF SetMode
  <2> QED
    BY <2>1, <2>2, <2>3, <2>4, <2>5 DEF Step
<1>14. CountsBorn'
  <2>1. ASSUME NEW c \in Channel, HandBackInstrument(c) PROVE CountsBorn'
    <3> DEFINE used == OldCmd(c).used
    <3>1. /\ used \in SUBSET (Voice \X RegionInst) /\ IsFiniteSet(used)
          /\ \A u \in used : u[2][1] <= gig.made
      BY CopyTypes DEF UsedInv, OldCmd, BornInv
    <3>2. /\ DOMAIN mem'.info = DOMAIN mem.info \cup RegionsListed(used)
          /\ DOMAIN mem'.refs = DOMAIN mem.refs \cup {SampleAt(r) : r \in RegionsListed(used)}
      BY <1>0, <2>1, <3>1, CountedFacts DEF HandBackInstrument
    <3>3. \A r \in RegionsListed(used) : r[1] <= gig.made /\ SampleAt(r)[1] = r[1]
                                         /\ r[1] \in Nat
      BY <1>0, <3>1, SampleAtType DEF RegionsListed
    <3>4. gig' = gig
      BY <2>1 DEF HandBackInstrument
    <3> HIDE DEF used
    <3> QED
      BY <1>2, <3>2, <3>3, <3>4 DEF CountsBorn
  <2>2. ASSUME NEW r \in RegionInst, HandBackRegion(r) PROVE CountsBorn'
    <3>1. r[1] <= gig.made
      BY <1>2, <2>2 DEF HandBackRegion, OrdersBorn
    <3>2. /\ \A q \in DOMAIN mem'.info : q \in DOMAIN mem.info \/ q = r
          /\ \A s \in DOMAIN mem'.refs : s \in DOMAIN mem.refs \/ s = SampleAt(r)
      BY <1>0, <2>2, HandedBackCounts DEF HandBackRegion
    <3>3. gig' = gig /\ SampleAt(r)[1] = r[1]
      BY <2>2, SampleAtType DEF HandBackRegion
    <3> QED
      BY <1>2, <3>1, <3>2, <3>3 DEF CountsBorn
  <2>3. ASSUME NEW m, MemType(m), m.info = mem.info, m.refs = mem.refs, NEW f \in Files,
               mem' = Loaded(m, f)
        PROVE  CountsBorn'
    BY <1>10, <2>3, LoadedFacts
  <2>4. ASSUME NEW i \in Index, mem' = DestroyedMem(mem, gig, i) PROVE CountsBorn'
    BY <1>0, <1>10, <2>4, DestroyedFacts DEF DestroyedMem
  <2>5. ASSUME NEW c \in Channel, HandBack(c) PROVE CountsBorn'
    <3>1. UNCHANGED mem \/ \E i \in Index : mem' = DestroyedMem(mem, gig, i)
      BY <2>5 DEF HandBack, EntryOf
    <3> QED
      BY <1>10, <2>4, <3>1
  <2>6. ASSUME NEW c \in Channel, BorrowNew(c) PROVE CountsBorn'
    <3>1. want[c] \in Index /\ gig.made + 1 \in Files /\ gig \in GigType
      BY <2>6, RoomForFile DEF LoaderInv, Midway, BorrowNew, TypeOK, GigType
    <3>2. mem' = Loaded(mem, gig'.file) /\ gig' = Opened(gig, want[c])
      BY <2>6 DEF BorrowNew, Create
    <3> QED
      BY <1>0, <2>3, <3>1, <3>2, OpenedFacts
  <2>7. ASSUME NEW c \in Channel, UpdateCreates(c) PROVE CountsBorn'
    <3> DEFINE m == IF LastUser(gig, want[c]) THEN Cleanup(mem, gig.file) ELSE mem
               g == HandedBack(gig, want[c])
    <3>1. want[c] \in Index /\ gig.made + 1 \in Files /\ gig \in GigType
      BY <2>7, RoomForFile DEF LoaderInv, Midway, UpdateCreates, TypeOK, GigType
    <3>2. mem' = Loaded(m, gig'.file) /\ gig' = Opened(g, want[c])
      BY <2>7 DEF UpdateCreates, Create
    <3>3. MemType(m) /\ m.info = mem.info /\ m.refs = mem.refs
      BY <1>0, CleanupFacts
    <3>4. g \in GigType /\ g.made = gig.made
      BY <3>1, HandedBackFacts
    <3> HIDE DEF m, g
    <3> QED
      BY <2>3, <3>1, <3>2, <3>3, <3>4, OpenedFacts
  <2>8. ASSUME NEW c \in Channel, UpdateDestroys(c) PROVE CountsBorn'
    <3>1. mem' = mem \/ mem' = Walk(mem, gig.file)
      BY <2>8 DEF UpdateDestroys
    <3> QED
      BY <1>0, <1>10, <3>1, WalkFacts
  <2>9. ASSUME NEW i \in Index, NEW mode \in Mode, SetMode(i, mode) PROVE CountsBorn'
    <3>1. \/ UNCHANGED mem \/ mem' = DestroyedMem(mem, gig, i)
          \/ gig' = Opened(gig, i) /\ mem' = Loaded(mem, gig'.file)
      BY <2>9 DEF SetMode
    <3>2. gig.made + 1 \in Files /\ gig \in GigType
      BY <2>9, RoomForFile DEF SetMode, Command, TypeOK, GigType
    <3> QED
      BY <1>0, <1>10, <2>3, <2>4, <3>1, <3>2, OpenedFacts
  <2>10. ASSUME NEW c \in Channel, LoaderStep(c) PROVE CountsBorn'
    BY <1>10, <2>1, <2>5, <2>6, <2>7, <2>8, <2>10 DEF LoaderStep, NothingToHandBack,
       BorrowFails, BorrowExisting, ToBeUpdated, Updated, UpdateEnds, UseInstrument, Finish
  <2>11. ASSUME NEW c \in Channel,
               \/ \E i \in Index : LoadInstrument(c, i)
               \/ BeginCycle(c) \/ EndCycle(c)
               \/ \E r \in Region : LaunchVoice(c, r)
               \/ Reset(c) \/ UnloadInstrument(c)
         PROVE  CountsBorn'
    BY <1>10, <2>11 DEF LoadInstrument, BeginCycle, EndCycle, LaunchVoice, Reset, UnloadInstrument
  <2>12. ASSUME \E v \in Voice : FreeVoice(v) PROVE CountsBorn'
    BY <1>10, <2>12 DEF FreeVoice
  <2> QED
    BY <2>2, <2>9, <2>10, <2>11, <2>12 DEF Step
<1> QED
  BY <1>1, <1>11, <1>12, <1>13, <1>14

\* The entry of an instrument that a channel hands back
LEMMA HandBackEntries ==
  ASSUME TypeOK, EntryInv, NEW c \in Channel, HandBack(c)
  PROVE  /\ EntryInv'
         /\ \A i \in Index, d \in Channel \ {c} : d \in entry[i].users =>
              d \in entry'[i].users /\ entry'[i].res = entry[i].res
         /\ \A i \in Index : entry'[i].users \subseteq entry[i].users
         /\ \A i \in Index : entry'[i].res \in {entry[i].res, None}
         /\ \A i \in Index : entry[i].res = OldCmd(c).inst => c \notin entry'[i].users
<1>0. /\ gig \in GigType /\ entry \in [Index -> EntryType]
      /\ \A i \in Index : entry[i] \in EntryType /\ entry[i].users \subseteq Channel
  BY DEF TypeOK, GigType, EntryType
<1>1. CASE EntryOf(OldCmd(c).inst) = {} /\ UNCHANGED manager
  BY <1>1 DEF EntryOf, manager, EntryInv
<1>2. ASSUME NEW i \in EntryOf(OldCmd(c).inst),
             LET e == [entry[i] EXCEPT !.users = @ \ {c}]
             IN  IF Unneeded(e)
                 THEN /\ entry' = [entry EXCEPT ![i] = NoEntry]
                      /\ mem' = DestroyedMem(mem, gig, i) /\ gig' = HandedBack(gig, i)
                 ELSE entry' = [entry EXCEPT ![i] = e] /\ UNCHANGED <<gig, mem>>
      PROVE  /\ EntryInv'
             /\ \A j \in Index, d \in Channel \ {c} : d \in entry[j].users =>
                  d \in entry'[j].users /\ entry'[j].res = entry[j].res
             /\ \A j \in Index : entry'[j].users \subseteq entry[j].users
             /\ \A j \in Index : entry'[j].res \in {entry[j].res, None}
             /\ \A j \in Index : entry[j].res = OldCmd(c).inst => c \notin entry'[j].users
  <2> DEFINE e == [entry[i] EXCEPT !.users = @ \ {c}]
  <2>1. i \in Index /\ entry[i].res = OldCmd(c).inst
    BY DEF EntryOf
  <2>2. e.res = entry[i].res /\ e.users = entry[i].users \ {c} /\ e.mode = entry[i].mode
    BY <1>0, <2>1 DEF EntryType
  <2>3. \A j \in Index : entry[j].res = OldCmd(c).inst => j = i \/ entry[j].users = {}
    BY <2>1 DEF EntryInv
  <2>4. CASE Unneeded(e)
    <3>1. entry' = [entry EXCEPT ![i] = NoEntry] /\ gig' = HandedBack(gig, i)
      BY <1>2, <2>4
    <3>2. /\ gig'.users = gig.users \ {i} /\ gig'.file = IF LastUser(gig, i) THEN 0 ELSE gig.file
      BY <1>0, <2>1, <3>1, HandedBackFacts
    <3>3. entry[i].users \subseteq {c}
      BY <2>2, <2>4 DEF Unneeded
    <3>4. /\ entry'[i].res = None /\ entry'[i].users = {}
          /\ \A j \in Index \ {i} : entry'[j] = entry[j]
      BY <1>0, <2>1, <3>1, EmptyTypes
    <3>5. EntryInv'
      <4>1. gig'.file = 0 <=> gig'.users = {}
        BY <2>1, <3>2 DEF EntryInv, LastUser
      <4>2. gig'.users = {j \in Index : entry'[j].res # None}
        BY <3>2, <3>4 DEF EntryInv
      <4>3. ASSUME NEW j \in Index
            PROVE  /\ entry'[j].res # None => entry'[j].res = <<gig'.file, j>>
                   /\ entry'[j].res = None => entry'[j].users = {}
        <5>1. CASE j = i
          BY <3>4, <5>1
        <5>2. CASE j # i /\ entry[j].res # None
          <6>1. gig'.file = gig.file
            BY <3>2, <5>2 DEF EntryInv, LastUser
          <6> QED
            BY <3>4, <5>2, <6>1 DEF EntryInv
        <5>3. CASE j # i /\ entry[j].res = None
          BY <3>4, <5>3 DEF EntryInv
        <5> QED
          BY <5>1, <5>2, <5>3
      <4> QED
        BY <4>1, <4>2, <4>3 DEF EntryInv
    <3> QED
      BY <2>1, <2>3, <3>3, <3>4, <3>5
  <2>5. CASE ~ Unneeded(e)
    <3>1. entry' = [entry EXCEPT ![i] = e] /\ UNCHANGED gig
      BY <1>2, <2>5
    <3> HIDE DEF e
    <3>2. entry'[i] = e /\ \A j \in Index \ {i} : entry'[j] = entry[j]
      BY <1>0, <2>1, <3>1
    <3>3. EntryInv'
      BY <2>1, <2>2, <3>1, <3>2 DEF EntryInv
    <3> QED
      BY <2>1, <2>2, <2>3, <3>2, <3>3
  <2> QED
    BY <2>4, <2>5
<1> QED
  BY <1>1, <1>2 DEF HandBack

\* The entry of an instrument that is created
LEMMA CreatedEntries ==
  ASSUME TypeOK, EntryInv, NEW i \in Index, NEW g \in GigType, NEW m, MemType(m),
         NEW size \in Nat, NEW users \in SUBSET Channel,
         gig.made + 1 \in Files, g.made = gig.made,
         \/ g = gig /\ entry[i].res = None
         \/ g = HandedBack(gig, i) /\ entry[i].res # None,
         Create(i, m, g, size, users)
  PROVE  /\ EntryInv' /\ entry'[i].res = <<gig'.file, i>> /\ entry'[i].users = users
         /\ gig'.file \in Files
         /\ \A j \in Index \ {i} : entry'[j] = entry[j]
         /\ (\E j \in Index \ {i} : entry[j].res # None) => gig'.file = gig.file
         /\ gig'.file \in {gig.file, gig.made + 1}
<1>0. /\ gig \in GigType /\ entry \in [Index -> EntryType]
      /\ None \notin Instrument
  BY NoneAssumption DEF TypeOK, GigType
<1>1. /\ gig' = Opened(g, i) /\ gig' \in GigType /\ gig'.file \in Files
      /\ \A j \in Index \ {i} : entry'[j] = entry[j]
      /\ entry'[i].res = <<gig'.file, i>> /\ entry'[i].users = users
  BY <1>0, CreateType
<1>2. g.users = gig.users \ {i} /\ g.file = IF g.users = {} THEN 0 ELSE gig.file
  <2>1. CASE g = gig /\ entry[i].res = None
    BY <2>1 DEF EntryInv
  <2>2. CASE g = HandedBack(gig, i) /\ entry[i].res # None
    <3>1. g.users = gig.users \ {i} /\ g.file = IF LastUser(gig, i) THEN 0 ELSE gig.file
      BY <1>0, <2>2, HandedBackFacts
    <3>2. i \in gig.users
      BY <2>2 DEF EntryInv
    <3> QED
      BY <3>1, <3>2 DEF LastUser
  <2> QED
    BY <2>1, <2>2
<1>3. gig'.users = g.users \cup {i} /\ gig'.file = IF g.users = {} THEN gig.made + 1 ELSE gig.file
  <2>1. CASE g.users = {}
    BY <1>1, <1>2, <2>1, OpenedFacts
  <2>2. CASE g.users # {}
    <3>1. gig.file # 0
      BY <1>2, <2>2 DEF EntryInv
    <3> QED
      BY <1>1, <1>2, <2>2, <3>1, OpenedFacts
  <2> QED
    BY <2>1, <2>2
<1>4. \A j \in Index \ {i} : entry[j].res # None => gig'.file = gig.file
  BY <1>2, <1>3 DEF EntryInv
<1>5. <<gig'.file, i>> # None
  BY <1>0, <1>1 DEF Instrument
<1>6. gig'.users = {j \in Index : entry'[j].res # None}
  <2>1. gig'.users = gig.users \cup {i} /\ gig.users = {j \in Index : entry[j].res # None}
    BY <1>2, <1>3 DEF EntryInv
  <2>2. entry'[i].res # None
    BY <1>1, <1>5
  <2>3. \A j \in Index : j \in gig'.users <=> entry'[j].res # None
    BY <1>1, <2>1, <2>2
  <2>4. gig'.users \subseteq Index
    BY <2>1
  <2> QED
    BY <2>3, <2>4
<1>7. gig'.file # 0 /\ gig'.users # {}
  BY <1>1, <1>3 DEF Files
<1>8. EntryInv'
  BY <1>1, <1>4, <1>5, <1>6, <1>7 DEF EntryInv
<1> QED
  BY <1>1, <1>3, <1>4, <1>8

\* An instrument that is borrowed, and is not in memory
LEMMA BorrowNewEntries ==
  ASSUME TypeOK, FilesInv, EntryInv, LoaderInv, NEW c \in Channel, BorrowNew(c)
  PROVE  /\ EntryInv' /\ want[c] \in Index
         /\ \A j \in Index \ {want[c]} : entry'[j] = entry[j]
         /\ entry[want[c]].res = None /\ entry[want[c]].users = {}
         /\ entry'[want[c]].res = <<gig'.file, want[c]>> /\ entry'[want[c]].users = {c}
         /\ gig'.file \in Files /\ gig'.file \in {gig.file, gig.made + 1}
         /\ got'[c] = <<gig'.file, want[c]>>
         /\ (\E j \in Index : entry[j].res # None) => gig'.file = gig.file
<1>1. /\ want[c] \in Index /\ gig.made + 1 \in Files /\ entry[want[c]].res = None
      /\ gig \in GigType /\ MemType(mem) /\ CycleSize[c] \in Nat
  BY RoomForFile, InstrumentsAssumption DEF LoaderInv, Midway, BorrowNew, TypeOK, GigType
<1>2. entry[want[c]].users = {}
  BY <1>1 DEF EntryInv
<1>3. Create(want[c], mem, gig, CycleSize[c], {c})
  BY <1>2 DEF BorrowNew
<1>4. /\ EntryInv' /\ entry'[want[c]].res = <<gig'.file, want[c]>> /\ entry'[want[c]].users = {c}
      /\ gig'.file \in Files
      /\ \A j \in Index \ {want[c]} : entry'[j] = entry[j]
      /\ (\E j \in Index \ {want[c]} : entry[j].res # None) => gig'.file = gig.file
      /\ gig'.file \in {gig.file, gig.made + 1}
  BY <1>1, <1>3, CreatedEntries
<1>5. got'[c] = <<gig'.file, want[c]>>
  BY DEF BorrowNew, Borrowed, TypeOK
<1> QED
  BY <1>1, <1>2, <1>4, <1>5

LEMMA BorrowExistingEntries ==
  ASSUME TypeOK, EntryInv, LoaderInv, NEW c \in Channel, BorrowExisting(c)
  PROVE  /\ EntryInv' /\ want[c] \in Index
         /\ \A j \in Index \ {want[c]} : entry'[j] = entry[j]
         /\ entry'[want[c]].res = entry[want[c]].res /\ entry[want[c]].res # None
         /\ entry'[want[c]].users = entry[want[c]].users \cup {c}
<1>1. want[c] \in Index /\ entry[want[c]].res # None /\ gig' = gig
  BY DEF LoaderInv, Midway, BorrowExisting
<1>2. entry' = [entry EXCEPT ![want[c]] = [entry[want[c]] EXCEPT !.users = @ \cup {c}]]
  BY DEF BorrowExisting
<1>3. entry \in [Index -> EntryType] /\ entry[want[c]] \in EntryType
  BY <1>1 DEF TypeOK
<1> DEFINE e == [entry[want[c]] EXCEPT !.users = @ \cup {c}]
<1>4. e.res = entry[want[c]].res /\ e.users = entry[want[c]].users \cup {c}
  BY <1>3 DEF EntryType
<1> HIDE DEF e
<1>5. entry'[want[c]] = e /\ \A j \in Index \ {want[c]} : entry'[j] = entry[j]
  BY <1>1, <1>2, <1>3 DEF e
<1>6. EntryInv'
  BY <1>1, <1>4, <1>5 DEF EntryInv
<1> QED
  BY <1>1, <1>4, <1>5, <1>6

LEMMA UpdateCreatesEntries ==
  ASSUME TypeOK, FilesInv, EntryInv, LoaderInv, NEW c \in Channel, UpdateCreates(c)
  PROVE  /\ EntryInv' /\ want[c] \in Index
         /\ \A j \in Index \ {want[c]} : entry'[j] = entry[j]
         /\ entry[want[c]].res # None
         /\ entry'[want[c]].res = <<gig'.file, want[c]>>
         /\ entry'[want[c]].users = entry[want[c]].users
         /\ gig'.file \in Files /\ gig'.file \in {gig.file, gig.made + 1}
         /\ (\E j \in Index \ {want[c]} : entry[j].res # None) => gig'.file = gig.file
<1> DEFINE m == IF LastUser(gig, want[c]) THEN Cleanup(mem, gig.file) ELSE mem
           g == HandedBack(gig, want[c])
<1>1. /\ want[c] \in Index /\ gig.made + 1 \in Files
      /\ gig \in GigType /\ MemType(mem) /\ CycleSize[c] \in Nat
      /\ c \in entry[want[c]].users /\ entry[want[c]].users \in SUBSET Channel
  BY RoomForFile, InstrumentsAssumption
     DEF LoaderInv, Midway, Updating, UpdateCreates, TypeOK, GigType, EntryType
<1>2. entry[want[c]].res # None
  BY <1>1 DEF EntryInv
<1>3. g \in GigType /\ g.made = gig.made /\ MemType(m)
  BY <1>1, HandedBackFacts, CleanupFacts
<1>4. Create(want[c], m, g, CycleSize[c], entry[want[c]].users)
  BY DEF UpdateCreates
<1> HIDE DEF m
<1>5. /\ EntryInv' /\ entry'[want[c]].res = <<gig'.file, want[c]>>
      /\ entry'[want[c]].users = entry[want[c]].users
      /\ gig'.file \in Files
      /\ \A j \in Index \ {want[c]} : entry'[j] = entry[j]
      /\ (\E j \in Index \ {want[c]} : entry[j].res # None) => gig'.file = gig.file
      /\ gig'.file \in {gig.file, gig.made + 1}
  <2>1. g = HandedBack(gig, want[c])
    OBVIOUS
  <2> HIDE DEF g
  <2> QED
    BY <1>1, <1>2, <1>3, <1>4, <2>1, CreatedEntries
<1> QED
  BY <1>1, <1>2, <1>5

LEMMA SetModeEntries ==
  ASSUME TypeOK, FilesInv, EntryInv, NEW i \in Index, NEW mode \in Mode, SetMode(i, mode)
  PROVE  /\ EntryInv'
         /\ \A j \in Index : entry'[j].users = entry[j].users
         /\ \A j \in Index : entry[j].users # {} => entry'[j].res = entry[j].res
         /\ gig'.file \in {0, gig.file, gig.made + 1}
         /\ (\E j \in Index : entry[j].users # {}) => gig'.file = gig.file
         /\ gig'.file = gig.file \/ gig.users \subseteq {i}
<1>0. /\ gig \in GigType /\ entry \in [Index -> EntryType] /\ None \notin Instrument
      /\ gig.made + 1 \in Files
  BY NoneAssumption, RoomForFile DEF TypeOK, GigType, SetMode, Command
<1> DEFINE e == [entry[i] EXCEPT !.mode = mode]
           opened == Opened(gig, i)
           new    == [res |-> <<opened.file, i>>, users |-> {}, mode |-> mode, size |-> LargestCycle]
<1>1. e.res = entry[i].res /\ e.users = entry[i].users
  <2>1. entry[i] \in EntryType
    BY <1>0
  <2> QED
    BY <2>1 DEF EntryType
<1>2. CASE Unneeded(e)
  <2>1. entry[i].users = {}
    BY <1>1, <1>2 DEF Unneeded
  <2>2. /\ entry' = [entry EXCEPT ![i] = NoEntry]
        /\ IF entry[i].res # None THEN gig' = HandedBack(gig, i) ELSE gig' = gig
    BY <1>2 DEF SetMode
  <2>3. /\ entry'[i].res = None /\ entry'[i].users = {}
        /\ \A j \in Index \ {i} : entry'[j] = entry[j]
    BY <1>0, <2>2, EmptyTypes
  <2>4. gig'.users = gig.users \ {i} /\ gig'.file = IF gig'.users = {} THEN 0 ELSE gig.file
    <3>1. CASE entry[i].res # None
      <4>1. i \in gig.users
        BY <3>1 DEF EntryInv
      <4>2. /\ gig'.users = gig.users \ {i}
            /\ gig'.file = IF LastUser(gig, i) THEN 0 ELSE gig.file
        BY <1>0, <2>2, <3>1, HandedBackFacts
      <4> QED
        BY <4>1, <4>2 DEF LastUser
    <3>2. CASE entry[i].res = None
      BY <2>2, <3>2 DEF EntryInv
    <3> QED
      BY <3>1, <3>2
  <2>5. gig'.file = 0 <=> gig'.users = {}
    BY <2>4 DEF EntryInv
  <2>6. \A j \in Index \ {i} : entry[j].res # None => gig'.file = gig.file
    BY <2>4 DEF EntryInv
  <2>7. EntryInv'
    BY <2>3, <2>4, <2>5, <2>6 DEF EntryInv
  <2>8. (\E j \in Index : entry[j].users # {}) => gig'.file = gig.file
    BY <2>1, <2>6 DEF EntryInv
  <2> QED
    BY <2>1, <2>3, <2>4, <2>7, <2>8
<1>3. CASE ~ Unneeded(e) /\ mode = "PERSISTENT" /\ entry[i].res = None
  <2>1. gig' = opened /\ entry' = [entry EXCEPT ![i] = new]
    BY <1>3 DEF SetMode
  <2>2. new.res = <<gig'.file, i>> /\ new.users = {}
    BY <2>1
  <2>3. /\ gig'.file \in Files
        /\ gig.file # 0 => gig'.file = gig.file /\ gig'.users = gig.users \cup {i}
        /\ gig.file = 0 => gig'.file = gig.made + 1 /\ gig'.users = {i}
    BY <1>0, <2>1, OpenedFacts
  <2> HIDE DEF new, opened, e
  <2>4. entry'[i] = new /\ \A j \in Index \ {i} : entry'[j] = entry[j]
    BY <1>0, <2>1
  <2>5. entry[i].users = {} /\ i \notin gig.users
    BY <1>3 DEF EntryInv
  <2>6. <<gig'.file, i>> # None
    BY <1>0, <2>3 DEF Instrument
  <2>7. gig'.users = gig.users \cup {i} /\ gig'.file # 0
    BY <2>3 DEF EntryInv, Files
  <2>8. \A j \in Index : entry[j].res # None => gig'.file = gig.file
    BY <2>3 DEF EntryInv
  <2>9. EntryInv'
    <3>1. ASSUME NEW j \in Index
          PROVE  /\ entry'[j].res # None => entry'[j].res = <<gig'.file, j>>
                 /\ entry'[j].res = None => entry'[j].users = {}
                 /\ j \in gig'.users <=> entry'[j].res # None
      <4>1. CASE j = i
        BY <2>2, <2>4, <2>6, <2>7, <4>1
      <4>2. CASE j # i
        BY <2>4, <2>7, <2>8, <4>2 DEF EntryInv
      <4> QED
        BY <4>1, <4>2
    <3>2. gig'.users \subseteq Index /\ gig'.users # {}
      BY <2>7 DEF EntryInv
    <3> QED
      BY <2>7, <3>1, <3>2 DEF EntryInv
  <2>10. \A j \in Index : entry[j].users # {} => entry[j].res # None
    BY DEF EntryInv
  <2>11. gig'.file = gig.file \/ gig.users = {}
    BY <2>3 DEF EntryInv
  <2> QED
    BY <2>2, <2>3, <2>4, <2>5, <2>8, <2>9, <2>10, <2>11
<1>4. CASE ~ Unneeded(e) /\ ~ (mode = "PERSISTENT" /\ entry[i].res = None)
  <2>1. gig' = gig /\ entry' = [entry EXCEPT ![i] = e]
    BY <1>4 DEF SetMode
  <2> HIDE DEF e
  <2>2. entry'[i] = e /\ \A j \in Index \ {i} : entry'[j] = entry[j]
    BY <1>0, <2>1
  <2>3. EntryInv'
    BY <1>1, <2>1, <2>2 DEF EntryInv
  <2> QED
    BY <1>1, <2>1, <2>2, <2>3
<1> QED
  BY <1>2, <1>3, <1>4


\* The steps that change entries
LEMMA EntryMoves ==
  ASSUME Step
  PROVE  \/ UNCHANGED <<entry, gig>>
         \/ \E c \in Channel : HandBack(c) \/ BorrowNew(c) \/ BorrowExisting(c) \/ UpdateCreates(c)
         \/ \E i \in Index, mode \in Mode : SetMode(i, mode)
<1> USE DEF audio, manager, loader, bounds
<1>1. ASSUME NEW c \in Channel, LoaderStep(c)
      PROVE  \/ UNCHANGED <<entry, gig>>
             \/ HandBack(c) \/ BorrowNew(c) \/ BorrowExisting(c) \/ UpdateCreates(c)
  BY <1>1 DEF LoaderStep, HandBackInstrument, NothingToHandBack, BorrowFails, ToBeUpdated,
     Updated, UpdateDestroys, UpdateEnds, UseInstrument, Finish
<1>2. ASSUME NEW c \in Channel,
             \/ \E i \in Index : LoadInstrument(c, i)
             \/ BeginCycle(c) \/ EndCycle(c)
             \/ \E r \in Region : LaunchVoice(c, r)
             \/ Reset(c) \/ UnloadInstrument(c)
      PROVE  UNCHANGED <<entry, gig>>
  BY <1>2 DEF LoadInstrument, BeginCycle, EndCycle, LaunchVoice, Reset, UnloadInstrument
<1>3. ASSUME (\E v \in Voice : FreeVoice(v)) \/ (\E r \in RegionInst : HandBackRegion(r))
      PROVE  UNCHANGED <<entry, gig>>
  BY <1>3 DEF FreeVoice, HandBackRegion
<1> QED
  BY <1>1, <1>2, <1>3 DEF Step

\* Entries and the file agree after every step.
LEMMA Entry_Step ==
  ASSUME TypeOK, FilesInv, EntryInv, LoaderInv, Step
  PROVE  EntryInv'
<1>1. CASE UNCHANGED <<entry, gig>>
  BY <1>1 DEF EntryInv
<1>2. ASSUME NEW c \in Channel, HandBack(c) PROVE EntryInv'
  BY <1>2, HandBackEntries
<1>3. ASSUME NEW c \in Channel, BorrowNew(c) PROVE EntryInv'
  BY <1>3, BorrowNewEntries
<1>4. ASSUME NEW c \in Channel, BorrowExisting(c) PROVE EntryInv'
  BY <1>4, BorrowExistingEntries
<1>5. ASSUME NEW c \in Channel, UpdateCreates(c) PROVE EntryInv'
  BY <1>5, UpdateCreatesEntries
<1>6. ASSUME NEW i \in Index, NEW mode \in Mode, SetMode(i, mode) PROVE EntryInv'
  BY <1>6, SetModeEntries
<1> QED
  BY <1>1, <1>2, <1>3, <1>4, <1>5, <1>6, EntryMoves

\* An instrument stays borrowed until it is handed back, or created anew.
LEMMA UsesKept ==
  ASSUME TypeOK, FilesInv, EntryInv, LoaderInv, Step, NEW d \in Channel, NEW x, x # None,
         Uses(d, x), ~ HandBack(d),
         \A e \in Channel : UpdateCreates(e) => d \notin entry[want[e]].users
  PROVE  Uses(d, x)'
<1>0. PICK i \in Index : entry[i].res = x /\ d \in entry[i].users
  BY DEF Uses
<1>1. CASE UNCHANGED <<entry, gig>>
  BY <1>1 DEF Uses
<1>2. ASSUME NEW c \in Channel, HandBack(c) PROVE Uses(d, x)'
  <2>1. d # c
    BY <1>2
  <2> QED
    BY <1>0, <1>2, <2>1, HandBackEntries DEF Uses
<1>3. ASSUME NEW c \in Channel, BorrowNew(c) PROVE Uses(d, x)'
  BY <1>0, <1>3, BorrowNewEntries DEF Uses
<1>4. ASSUME NEW c \in Channel, BorrowExisting(c) PROVE Uses(d, x)'
  <2>1. d \in entry'[i].users /\ entry'[i].res = x
    BY <1>0, <1>4, BorrowExistingEntries
  <2> QED
    BY <2>1 DEF Uses
<1>5. ASSUME NEW c \in Channel, UpdateCreates(c) PROVE Uses(d, x)'
  <2>1. i # want[c]
    BY <1>0, <1>5
  <2> QED
    BY <1>0, <1>5, <2>1, UpdateCreatesEntries DEF Uses
<1>6. ASSUME NEW j \in Index, NEW mode \in Mode, SetMode(j, mode) PROVE Uses(d, x)'
  <2>1. entry'[i].users = entry[i].users /\ entry'[i].res = entry[i].res
    BY <1>0, <1>6, SetModeEntries
  <2> QED
    BY <1>0, <2>1 DEF Uses
<1> QED
  BY <1>1, <1>2, <1>3, <1>4, <1>5, <1>6, EntryMoves

\* A channel becomes a consumer when it borrows, and is one until it hands back.
LEMMA ConsumerSame ==
  ASSUME TypeOK, FilesInv, EntryInv, LoaderInv, Step, NEW d \in Channel
  PROVE  /\ Consumer(d)' => Consumer(d) \/ BorrowNew(d) \/ BorrowExisting(d)
         /\ Consumer(d) => Consumer(d)' \/ HandBack(d)
<1>1. CASE UNCHANGED <<entry, gig>>
  BY <1>1 DEF Consumer
<1>2. ASSUME NEW c \in Channel, HandBack(c)
      PROVE  Consumer(d)' => Consumer(d)
  BY <1>2, HandBackEntries DEF Consumer
<1>3. ASSUME NEW c \in Channel, HandBack(c), ~ HandBack(d)
      PROVE  Consumer(d) => Consumer(d)'
  <2>1. d # c
    BY <1>3
  <2> QED
    BY <1>3, <2>1, HandBackEntries DEF Consumer
<1>4. ASSUME NEW c \in Channel, BorrowNew(c)
      PROVE  (Consumer(d)' => Consumer(d) \/ BorrowNew(d)) /\ (Consumer(d) => Consumer(d)')
  <2>1. /\ \A j \in Index \ {want[c]} : entry'[j] = entry[j]
        /\ entry[want[c]].users = {} /\ entry'[want[c]].users = {c}
    BY <1>4, BorrowNewEntries
  <2> QED
    BY <1>4, <2>1 DEF Consumer
<1>5. ASSUME NEW c \in Channel, BorrowExisting(c)
      PROVE  (Consumer(d)' => Consumer(d) \/ BorrowExisting(d)) /\ (Consumer(d) => Consumer(d)')
  <2>1. /\ \A j \in Index \ {want[c]} : entry'[j] = entry[j]
        /\ entry'[want[c]].users = entry[want[c]].users \cup {c}
    BY <1>5, BorrowExistingEntries
  <2> QED
    BY <1>5, <2>1 DEF Consumer
<1>6. ASSUME NEW c \in Channel, UpdateCreates(c)
      PROVE  Consumer(d)' <=> Consumer(d)
  <2>1. \A j \in Index : entry'[j].users = entry[j].users
    BY <1>6, UpdateCreatesEntries
  <2> QED
    BY <2>1 DEF Consumer
<1>7. ASSUME NEW j \in Index, NEW mode \in Mode, SetMode(j, mode)
      PROVE  Consumer(d)' <=> Consumer(d)
  BY <1>7, SetModeEntries DEF Consumer
<1> QED
  BY <1>1, <1>2, <1>3, <1>4, <1>5, <1>6, <1>7, EntryMoves

\* The file that is open, after a step
LEMMA FileMoves ==
  ASSUME TypeOK, FilesInv, EntryInv, LoaderInv, Step
  PROVE  gig'.file \in {0, gig.file, gig.made + 1}
<1>1. ASSUME NEW c \in Channel, HandBack(c) PROVE gig'.file \in {0, gig.file}
  <2>1. UNCHANGED gig \/ \E i \in Index : gig' = HandedBack(gig, i)
    BY <1>1 DEF HandBack, EntryOf, manager
  <2> QED
    BY <2>1, DestroyFiles
<1> QED
  BY <1>1, BorrowNewEntries, BorrowExistingEntries, UpdateCreatesEntries, SetModeEntries,
     EntryMoves DEF BorrowExisting

-----------------------------------------------------------------------------
(* The steps of one channel, seen from that channel and from the others *)

\* What the loader of a channel does
Own(c) == \/ \E i \in Index : LoadInstrument(c, i)
          \/ HandBackInstrument(c) \/ NothingToHandBack(c) \/ HandBack(c)
          \/ BorrowNew(c) \/ BorrowFails(c) \/ BorrowExisting(c)
          \/ UpdateDestroys(c) \/ UpdateCreates(c) \/ UpdateEnds(c)
          \/ UseInstrument(c) \/ Finish(c) \/ UnloadInstrument(c)

\* The steps that are not of the loader of any channel, or concern another one
LEMMA NextCases ==
  ASSUME Step
  PROVE  \/ \E c \in Channel : Own(c)
         \/ \E c, d \in Channel : ToBeUpdated(c, d) \/ Updated(c, d)
         \/ \E c \in Channel : \/ BeginCycle(c) \/ EndCycle(c) \/ Reset(c)
                               \/ \E r \in Region : LaunchVoice(c, r)
         \/ \E v \in Voice : FreeVoice(v)
         \/ \E r \in RegionInst : HandBackRegion(r)
         \/ \E i \in Index, mode \in Mode : SetMode(i, mode)
BY DEF Step, LoaderStep, Own

\* A step of a loader leaves the other channels alone.
LEMMA OwnLocal ==
  ASSUME TypeOK, NEW c \in Channel, Own(c)
  PROVE  /\ \A d \in Channel \ {c} : /\ cmd'[d] = cmd[d] /\ pc'[d] = pc[d]
                                     /\ want'[d] = want[d] /\ got'[d] = got[d]
         /\ UNCHANGED <<locked, enabled, played, voice, ordered>>
         /\ UNCHANGED upset \/ (UnloadInstrument(c) /\ ~ Empty(c))
<1> USE DEF audio, manager, loader, bounds
<1>1. \A d \in Channel \ {c} : pc'[d] = pc[d] /\ want'[d] = want[d] /\ got'[d] = got[d]
  BY DEF TypeOK, Own, LoadInstrument, HandBackInstrument, NothingToHandBack, HandBack, BorrowNew,
     BorrowFails, BorrowExisting, UpdateDestroys, UpdateCreates, UpdateEnds, UseInstrument,
     Finish, UnloadInstrument, Borrowed
<1>2. \/ UNCHANGED cmd \/ ClearOld(c) \/ ChangeInstrument(c, None)
      \/ UseInstrument(c) /\ ChangeInstrument(c, got[c])
  BY DEF Own, LoadInstrument, HandBackInstrument, NothingToHandBack, HandBack, BorrowNew,
     BorrowFails, BorrowExisting, UpdateDestroys, UpdateCreates, UpdateEnds, UseInstrument,
     Finish, UnloadInstrument
<1>3. got[c] \in Instrument \cup {None}
  BY DEF TypeOK
<1>4. \A d \in Channel \ {c} : cmd'[d] = cmd[d]
  BY <1>2, <1>3, ClearFacts, ChangeFacts
<1>5. /\ UNCHANGED <<locked, enabled, played, voice, ordered>>
      /\ UNCHANGED upset \/ (UnloadInstrument(c) /\ ~ Empty(c))
  BY DEF Own, LoadInstrument, HandBackInstrument, NothingToHandBack, HandBack, BorrowNew,
     BorrowFails, BorrowExisting, UpdateDestroys, UpdateCreates, UpdateEnds, UseInstrument,
     Finish, UnloadInstrument
<1> QED
  BY <1>1, <1>4, <1>5

\* The command and the loader of a channel in the steps of others
LEMMA OthersSteps ==
  ASSUME TypeOK, Step, NEW c \in Channel, ~ Own(c)
  PROVE  /\ pc'[c] = pc[c] /\ want'[c] = want[c] /\ got'[c] = got[c]
         /\ cmd'[c].cur = cmd[c].cur /\ Other(c)' = Other(c)
         /\ Now(c)'.inst = Now(c).inst /\ OldCmd(c)'.inst = OldCmd(c).inst
         /\ Now(c)'.change => Now(c).change
         /\ ~ BeginCycle(c) => Now(c)'.change = Now(c).change
         /\ BeginCycle(c) \/ EndCycle(c) \/ cmd'[c] = cmd[c]
<1> USE DEF audio, manager, loader, bounds
<1>1. ASSUME NEW d \in Channel, Own(d) PROVE cmd'[c] = cmd[c] /\ pc'[c] = pc[c]
                                             /\ want'[c] = want[c] /\ got'[c] = got[c]
  <2>1. c # d
    BY <1>1
  <2> QED
    BY <1>1, <2>1, OwnLocal
<1>2. ASSUME NEW e \in Channel, NEW d \in Channel, ToBeUpdated(e, d) \/ Updated(e, d)
      PROVE  UNCHANGED <<cmd, pc, want, got>>
  BY <1>2 DEF ToBeUpdated, Updated
<1>3. ASSUME NEW d \in Channel, Reset(d) \/ \E r \in Region : LaunchVoice(d, r)
      PROVE  UNCHANGED <<cmd, pc, want, got>>
  BY <1>3 DEF LaunchVoice, Reset
<1>4. ASSUME \/ \E v \in Voice : FreeVoice(v)
             \/ \E r \in RegionInst : HandBackRegion(r)
             \/ \E i \in Index, mode \in Mode : SetMode(i, mode)
      PROVE  UNCHANGED <<cmd, pc, want, got>>
  <2>1. ASSUME \E v \in Voice : FreeVoice(v) PROVE UNCHANGED <<cmd, pc, want, got>>
    BY <2>1 DEF FreeVoice
  <2>2. ASSUME \E r \in RegionInst : HandBackRegion(r) PROVE UNCHANGED <<cmd, pc, want, got>>
    BY <2>2 DEF HandBackRegion
  <2>3. ASSUME \E i \in Index, mode \in Mode : SetMode(i, mode)
        PROVE  UNCHANGED <<cmd, pc, want, got>>
    BY <2>3 DEF SetMode
  <2> QED
    BY <1>4, <2>1, <2>2, <2>3
<1>5. ASSUME NEW d \in Channel, BeginCycle(d) \/ EndCycle(d)
      PROVE  /\ UNCHANGED <<pc, want, got>>
             /\ d # c => cmd'[c] = cmd[c]
  <2>1. UNCHANGED <<pc, want, got>>
    BY <1>5 DEF BeginCycle, EndCycle
  <2>2. d # c => cmd'[c] = cmd[c]
    BY <1>5, BeginFacts, EndFacts
  <2> QED
    BY <2>1, <2>2
<1>6. /\ pc'[c] = pc[c] /\ want'[c] = want[c] /\ got'[c] = got[c]
      /\ cmd'[c] = cmd[c] \/ BeginCycle(c) \/ EndCycle(c)
  BY <1>1, <1>2, <1>3, <1>4, <1>5, NextCases
<1>7. CASE cmd'[c] = cmd[c]
  BY <1>6, <1>7, SameCmd
<1>8. CASE BeginCycle(c)
  <2>1. /\ cmd'[c].cur = cmd[c].cur /\ Other(c)' = Other(c) /\ OldCmd(c)' = OldCmd(c)
        /\ Now(c)' = [inst |-> Now(c).inst, change |-> FALSE, used |-> {}]
    BY <1>8, BeginFacts
  <2> QED
    BY <1>6, <1>8, <2>1
<1>9. CASE EndCycle(c)
  <2>1. /\ cmd'[c].cur = cmd[c].cur /\ Other(c)' = Other(c)
        /\ Now(c)'.inst = Now(c).inst /\ Now(c)'.change = Now(c).change
        /\ OldCmd(c)'.inst = OldCmd(c).inst
    BY <1>9, EndFacts
  <2> QED
    BY <1>6, <1>9, <2>1
<1> QED
  BY <1>6, <1>7, <1>8, <1>9

\* The steps of a loader between the changes of its command
LEMMA OwnMiddle ==
  ASSUME TypeOK, NEW c \in Channel,
         HandBackInstrument(c) \/ NothingToHandBack(c) \/ HandBack(c) \/ BorrowNew(c)
         \/ BorrowFails(c) \/ BorrowExisting(c) \/ UpdateDestroys(c) \/ UpdateCreates(c)
         \/ UpdateEnds(c) \/ Finish(c)
  PROVE  /\ cmd'[c].cur = cmd[c].cur /\ Other(c)' = Other(c) /\ Now(c)' = Now(c)
         /\ OldCmd(c)'.inst = OldCmd(c).inst
         /\ OldCmd(c)'.used = IF NothingToHandBack(c) \/ HandBack(c) THEN {} ELSE OldCmd(c).used
         /\ pc[c] \in Midway \cup {"finish"}
         /\ pc'[c] \in Midway \cup {"idle"} /\ pc'[c] # "clear"
<1> USE DEF audio, manager, loader, bounds
<1>1. \/ UNCHANGED cmd /\ ~ NothingToHandBack(c) /\ ~ HandBack(c)
      \/ ClearOld(c) /\ (NothingToHandBack(c) \/ HandBack(c))
  BY DEF HandBackInstrument, NothingToHandBack, HandBack, BorrowNew,
     BorrowFails, BorrowExisting, UpdateDestroys, UpdateCreates, UpdateEnds, Finish
<1>2. /\ pc[c] \in Midway \cup {"finish"} /\ pc'[c] \in Midway \cup {"idle"} /\ pc'[c] # "clear"
  BY DEF TypeOK, HandBackInstrument, NothingToHandBack, HandBack, BorrowNew, Midway,
     BorrowFails, BorrowExisting, UpdateDestroys, UpdateCreates, UpdateEnds, Finish, Borrowed
<1>3. CASE UNCHANGED cmd /\ ~ NothingToHandBack(c) /\ ~ HandBack(c)
  BY <1>2, <1>3, SameCmd
<1>4. CASE ClearOld(c) /\ (NothingToHandBack(c) \/ HandBack(c))
  <2>1. /\ cmd'[c].cur = cmd[c].cur /\ Other(c)' = Other(c) /\ Now(c)' = Now(c)
        /\ OldCmd(c)'.inst = OldCmd(c).inst /\ OldCmd(c)'.used = {}
    BY <1>4, ClearFacts
  <2> QED
    BY <1>2, <1>4, <2>1
<1> QED
  BY <1>1, <1>3, <1>4

\* The steps of a loader that change its command
LEMMA OwnChange ==
  ASSUME TypeOK, NEW c \in Channel,
         (\E i \in Index : LoadInstrument(c, i)) \/ UseInstrument(c) \/ UnloadInstrument(c)
  PROVE  /\ cmd'[c].cur = Other(c) /\ Other(c)' = cmd[c].cur /\ OldCmd(c)' = Now(c)
         /\ Now(c)'.change /\ Now(c)'.used = OldCmd(c).used
         /\ Now(c)'.inst = IF UseInstrument(c) THEN got[c] ELSE None
         /\ pc[c] = IF UseInstrument(c) THEN "change" ELSE "idle"
         /\ pc'[c] = IF \E i \in Index : LoadInstrument(c, i) THEN "clear" ELSE "finish"
         /\ UNCHANGED <<entry, gig, mem, todo, entriesMutex, regionMutex>>
<1> USE DEF audio, manager, loader, bounds
<1>1. got[c] \in Instrument \cup {None}
  BY DEF TypeOK
<1>2. \/ ChangeInstrument(c, None) /\ ~ UseInstrument(c)
      \/ ChangeInstrument(c, got[c]) /\ UseInstrument(c)
  BY DEF LoadInstrument, UseInstrument, UnloadInstrument
<1>3. /\ cmd'[c].cur = Other(c) /\ Other(c)' = cmd[c].cur /\ OldCmd(c)' = Now(c)
      /\ Now(c)'.change /\ Now(c)'.used = OldCmd(c).used
      /\ Now(c)'.inst = IF UseInstrument(c) THEN got[c] ELSE None
  BY <1>1, <1>2, ChangeFacts
<1>4. /\ pc[c] = IF UseInstrument(c) THEN "change" ELSE "idle"
      /\ pc'[c] = IF \E i \in Index : LoadInstrument(c, i) THEN "clear" ELSE "finish"
      /\ UNCHANGED <<entry, gig, mem, todo, entriesMutex, regionMutex>>
  BY DEF LoadInstrument, UseInstrument, UnloadInstrument, TypeOK
<1> QED
  BY <1>3, <1>4

-----------------------------------------------------------------------------
(* The loaders and their locks *)

\* Who takes the locks, and who gives them back
LEMMA Locks ==
  ASSUME TypeOK, Step
  PROVE  /\ \/ UNCHANGED entriesMutex
            \/ \E c \in Channel : \/ BorrowExisting(c) /\ entriesMutex = None /\ entriesMutex' = c
                                                       /\ pc'[c] = "update"
                                  \/ UpdateEnds(c) /\ entriesMutex' = None
         /\ \/ UNCHANGED regionMutex
            \/ \E c \in Channel : \/ HandBackInstrument(c) /\ regionMutex = None /\ regionMutex' = c
                                  \/ HandBack(c) /\ regionMutex' = None
<1> USE DEF audio, manager, loader, bounds
<1>1. ASSUME NEW c \in Channel, Own(c)
      PROVE  /\ \/ UNCHANGED entriesMutex
                \/ BorrowExisting(c) /\ entriesMutex = None /\ entriesMutex' = c
                                     /\ pc'[c] = "update"
                \/ UpdateEnds(c) /\ entriesMutex' = None
             /\ \/ UNCHANGED regionMutex
                \/ HandBackInstrument(c) /\ regionMutex = None /\ regionMutex' = c
                \/ HandBack(c) /\ regionMutex' = None
  <2>1. CASE HandBackInstrument(c) \/ HandBack(c)
    BY <2>1 DEF HandBackInstrument, HandBack
  <2>2. CASE BorrowExisting(c)
    BY <2>2 DEF BorrowExisting, TypeOK
  <2>3. CASE UpdateEnds(c)
    BY <2>3 DEF UpdateEnds
  <2> QED
    BY <1>1, <2>1, <2>2, <2>3 DEF Own, LoadInstrument, NothingToHandBack, BorrowNew,
       BorrowFails, UpdateDestroys, UpdateCreates, UseInstrument, Finish, UnloadInstrument
<1>2. ASSUME NEW c \in Channel, NEW d \in Channel, ToBeUpdated(c, d) \/ Updated(c, d)
      PROVE  UNCHANGED <<entriesMutex, regionMutex>>
  BY <1>2 DEF ToBeUpdated, Updated
<1>3. ASSUME NEW c \in Channel, \/ BeginCycle(c) \/ EndCycle(c) \/ Reset(c)
                                \/ \E r \in Region : LaunchVoice(c, r)
      PROVE  UNCHANGED <<entriesMutex, regionMutex>>
  BY <1>3 DEF BeginCycle, EndCycle, Reset, LaunchVoice
<1>4. ASSUME \E v \in Voice : FreeVoice(v) PROVE UNCHANGED <<entriesMutex, regionMutex>>
  BY <1>4 DEF FreeVoice
<1>5. ASSUME \E r \in RegionInst : HandBackRegion(r) PROVE UNCHANGED <<entriesMutex, regionMutex>>
  BY <1>5 DEF HandBackRegion
<1>6. ASSUME \E i \in Index, mode \in Mode : SetMode(i, mode)
      PROVE  UNCHANGED <<entriesMutex, regionMutex>>
  BY <1>6 DEF SetMode
<1> QED
  BY <1>1, <1>2, <1>3, <1>4, <1>5, <1>6, NextCases

\* The other consumers of an instrument are left in peace while it is updated.
LEMMA RestingStays ==
  ASSUME TypeOK, Orderly, Step, NEW d \in Channel, Resting(d),
         entriesMutex # None \/ \E c \in Channel \ {d} : Own(c)
  PROVE  Resting(d)' /\ ~ Own(d)
<1>1. ~ Own(d)
  <2>1. ASSUME Own(d) PROVE (\E i \in Index : LoadInstrument(d, i)) \/ UnloadInstrument(d)
    BY <2>1 DEF Own, Resting, HandBackInstrument, NothingToHandBack, HandBack, BorrowNew,
       BorrowFails, BorrowExisting, UpdateDestroys, UpdateCreates, UpdateEnds, UseInstrument, Finish
  <2>2. ASSUME Own(d) PROVE AtRest(d) /\ pc'[d] # "idle"
    <3>1. AtRest(d)
      BY <2>1, <2>2 DEF Orderly
    <3>2. pc'[d] # "idle"
      BY <2>1, <2>2 DEF LoadInstrument, UnloadInstrument, TypeOK
    <3> QED
      BY <3>1, <3>2
  <2>3. CASE entriesMutex # None
    BY <2>2, <2>3 DEF AtRest
  <2>4. CASE \E c \in Channel \ {d} : Own(c)
    <3>1. pc'[d] = pc[d]
      BY <2>4, OwnLocal
    <3> QED
      BY <2>2, <3>1 DEF Resting
  <2> QED
    BY <2>3, <2>4
<1> QED
  BY <1>1, OthersSteps DEF Resting

\* The entry of an instrument that is updated
LEMMA UsersSame ==
  ASSUME TypeOK, FilesInv, EntryInv, LoaderInv, Step, NEW c \in Channel, pc[c] \in Updating
  PROVE  /\ \A i \in Index : entry'[i].users = entry[i].users
         /\ ~ UpdateCreates(c) => UNCHANGED <<entry, gig>>
         /\ \A d \in Channel \ {c} : pc[d] \notin Updating
<1>1. entriesMutex = c /\ entriesMutex # None
  BY NoneAssumption DEF LoaderInv
<1>2. \A d \in Channel \ {c} : pc[d] \notin Updating
  BY <1>1 DEF LoaderInv
<1>3. \A d \in Channel : ~ HandBack(d) /\ ~ BorrowNew(d) /\ ~ BorrowExisting(d)
  BY <1>1 DEF HandBack, BorrowNew, BorrowExisting
<1>4. \A i \in Index, mode \in Mode : ~ SetMode(i, mode)
  BY <1>1 DEF SetMode
<1>5. \A d \in Channel : UpdateCreates(d) => d = c
  BY <1>2 DEF UpdateCreates, Updating
<1>6. UNCHANGED <<entry, gig>> \/ UpdateCreates(c)
  BY <1>3, <1>4, <1>5, EntryMoves
<1>7. UpdateCreates(c) => \A i \in Index : entry'[i].users = entry[i].users
  BY UpdateCreatesEntries
<1> QED
  BY <1>2, <1>6, <1>7

\* What the loaders rely on
LEMMA Loader_Step ==
  ASSUME TypeOK, FilesInv, EntryInv, LoaderInv, Orderly, Step
  PROVE  LoaderInv'
<1> USE DEF audio, manager, loader, bounds
<1> SUFFICES ASSUME NEW c \in Channel
             PROVE  /\ pc'[c] \in Midway => want'[c] \in Index /\ Now(c)'.inst = None
                    /\ pc'[c] \in Updating <=> entriesMutex' = c
                    /\ pc'[c] = "handback" <=> regionMutex' = c
                    /\ pc'[c] \in Updating =>
                         /\ c \in entry'[want'[c]].users
                         /\ todo' \subseteq entry'[want'[c]].users \ {c}
                         /\ \A d \in entry'[want'[c]].users \ {c} : Resting(d)'
                    /\ pc'[c] = "change" => Uses(c, got[c])' /\ got'[c] # None
  BY DEF LoaderInv
<1>1. pc'[c] \in Midway => want'[c] \in Index /\ Now(c)'.inst = None
  <2>1. CASE ~ Own(c)
    BY <2>1, OthersSteps DEF LoaderInv
  <2>2. ASSUME NEW i \in Index, LoadInstrument(c, i) PROVE want'[c] \in Index /\ Now(c)'.inst = None
    <3>1. want'[c] = i /\ ~ UseInstrument(c)
      BY <2>2 DEF LoadInstrument, UseInstrument, TypeOK
    <3> QED
      BY <2>2, <3>1, OwnChange
  <2>3. CASE UseInstrument(c) \/ UnloadInstrument(c) \/ Finish(c) \/ BorrowFails(c)
    BY <2>3 DEF UseInstrument, UnloadInstrument, Finish, BorrowFails, TypeOK, Midway
  <2>4. CASE \/ HandBackInstrument(c) \/ NothingToHandBack(c) \/ HandBack(c)
             \/ BorrowNew(c) \/ BorrowExisting(c)
             \/ UpdateDestroys(c) \/ UpdateCreates(c) \/ UpdateEnds(c)
    <3>1. pc[c] \in Midway /\ want'[c] = want[c]
      BY <2>4 DEF HandBackInstrument, NothingToHandBack, HandBack, BorrowNew, BorrowExisting,
         UpdateDestroys, UpdateCreates, UpdateEnds, Midway
    <3>2. Now(c)' = Now(c)
      BY <2>4, OwnMiddle
    <3> QED
      BY <3>1, <3>2 DEF LoaderInv
  <2> QED
    BY <2>1, <2>2, <2>3, <2>4 DEF Own
<1>2. pc'[c] \in Updating <=> entriesMutex' = c
  <2>1. CASE ~ Own(c)
    <3>1. pc'[c] = pc[c]
      BY <2>1, OthersSteps
    <3>2. entriesMutex' = c <=> entriesMutex = c
      <4>1. ASSUME NEW d \in Channel, BorrowExisting(d), entriesMutex = None, entriesMutex' = d
            PROVE  entriesMutex' = c <=> entriesMutex = c
        BY <2>1, <4>1, NoneAssumption DEF Own
      <4>2. ASSUME NEW d \in Channel, UpdateEnds(d), entriesMutex' = None
            PROVE  entriesMutex' = c <=> entriesMutex = c
        <5>1. entriesMutex = d
          BY <4>2 DEF UpdateEnds, LoaderInv, Updating
        <5> QED
          BY <2>1, <4>2, <5>1, NoneAssumption DEF Own
      <4> QED
        BY <4>1, <4>2, Locks
    <3> QED
      BY <3>1, <3>2 DEF LoaderInv
  <2>2. CASE BorrowExisting(c)
    <3>1. \/ pc'[c] = "update" /\ entriesMutex' = c
          \/ pc'[c] = "change" /\ entriesMutex' = entriesMutex
      BY <2>2 DEF BorrowExisting, Borrowed, TypeOK
    <3>2. entriesMutex # c
      BY <2>2, NoneAssumption DEF BorrowExisting
    <3> QED
      BY <3>1, <3>2 DEF Updating
  <2>3. CASE UpdateEnds(c)
    <3>1. pc'[c] = "change" /\ entriesMutex' = None
      BY <2>3 DEF UpdateEnds, Borrowed, TypeOK
    <3> QED
      BY <3>1, NoneAssumption DEF Updating
  <2>4. CASE UpdateDestroys(c) \/ UpdateCreates(c)
    <3>1. pc[c] \in Updating /\ pc'[c] \in Updating /\ entriesMutex' = entriesMutex
      BY <2>4 DEF UpdateDestroys, UpdateCreates, TypeOK, Updating
    <3> QED
      BY <3>1 DEF LoaderInv
  <2>5. CASE \/ \E i \in Index : LoadInstrument(c, i)
             \/ HandBackInstrument(c) \/ NothingToHandBack(c) \/ HandBack(c)
             \/ BorrowNew(c) \/ BorrowFails(c)
             \/ UseInstrument(c) \/ Finish(c) \/ UnloadInstrument(c)
    <3>1. pc[c] \notin Updating /\ pc'[c] \notin Updating /\ entriesMutex' = entriesMutex
      BY <2>5 DEF LoadInstrument, HandBackInstrument, NothingToHandBack, HandBack, BorrowNew,
         BorrowFails, UseInstrument, Finish, UnloadInstrument, TypeOK, Updating, Borrowed
    <3> QED
      BY <3>1 DEF LoaderInv
  <2> QED
    BY <2>1, <2>2, <2>3, <2>4, <2>5 DEF Own
<1>3. pc'[c] = "handback" <=> regionMutex' = c
  <2>1. CASE ~ Own(c)
    <3>1. pc'[c] = pc[c]
      BY <2>1, OthersSteps
    <3>2. regionMutex' = c <=> regionMutex = c
      <4>1. ASSUME NEW d \in Channel, HandBackInstrument(d), regionMutex = None, regionMutex' = d
            PROVE  regionMutex' = c <=> regionMutex = c
        BY <2>1, <4>1, NoneAssumption DEF Own
      <4>2. ASSUME NEW d \in Channel, HandBack(d), regionMutex' = None
            PROVE  regionMutex' = c <=> regionMutex = c
        <5>1. regionMutex = d
          BY <4>2 DEF HandBack, LoaderInv
        <5> QED
          BY <2>1, <4>2, <5>1, NoneAssumption DEF Own
      <4> QED
        BY <4>1, <4>2, Locks
    <3> QED
      BY <3>1, <3>2 DEF LoaderInv
  <2>2. CASE HandBackInstrument(c)
    BY <2>2 DEF HandBackInstrument, TypeOK
  <2>3. CASE HandBack(c)
    BY <2>3, NoneAssumption DEF HandBack, TypeOK
  <2>4. CASE \/ \E i \in Index : LoadInstrument(c, i)
             \/ NothingToHandBack(c) \/ BorrowNew(c) \/ BorrowFails(c) \/ BorrowExisting(c)
             \/ UpdateDestroys(c) \/ UpdateCreates(c) \/ UpdateEnds(c)
             \/ UseInstrument(c) \/ Finish(c) \/ UnloadInstrument(c)
    <3>1. pc[c] # "handback" /\ pc'[c] # "handback" /\ regionMutex' = regionMutex
      BY <2>4 DEF LoadInstrument, NothingToHandBack, BorrowNew, BorrowFails, BorrowExisting,
         UpdateDestroys, UpdateCreates, UpdateEnds, UseInstrument, Finish, UnloadInstrument,
         TypeOK, Borrowed
    <3> QED
      BY <3>1 DEF LoaderInv
  <2> QED
    BY <2>1, <2>2, <2>3, <2>4 DEF Own
<1>4. ASSUME pc'[c] \in Updating
      PROVE  /\ c \in entry'[want'[c]].users
             /\ todo' \subseteq entry'[want'[c]].users \ {c}
             /\ \A d \in entry'[want'[c]].users \ {c} : Resting(d)'
  <2>1. CASE pc[c] \in Updating
    <3>1. entriesMutex = c /\ entriesMutex # None /\ want[c] \in Index
          /\ c \in entry[want[c]].users /\ todo \subseteq entry[want[c]].users \ {c}
          /\ \A d \in entry[want[c]].users \ {c} : Resting(d)
          /\ entry[want[c]].users \subseteq Channel
      BY <2>1, NoneAssumption DEF LoaderInv, TypeOK, EntryType, Updating, Midway
    <3>2. want'[c] = want[c]
      <4>1. CASE Own(c)
        BY <2>1, <4>1 DEF Own, Updating, LoadInstrument, HandBackInstrument, NothingToHandBack,
           HandBack, BorrowNew, BorrowFails, BorrowExisting, UpdateDestroys, UpdateCreates,
           UpdateEnds, UseInstrument, Finish, UnloadInstrument
      <4> QED
        BY <4>1, OthersSteps
    <3>3. \A i \in Index : entry'[i].users = entry[i].users
      BY <2>1, UsersSame
    <3>4. \A d \in entry[want[c]].users \ {c} : Resting(d)'
      BY <3>1, RestingStays
    <3>5. todo' \subseteq todo \/ todo' = entry[want[c]].users \ {c}
      <4>1. \A d \in Channel : ~ BorrowExisting(d)
        BY <3>1 DEF BorrowExisting
      <4>2. ASSUME NEW d \in Channel, Own(d)
            PROVE  UNCHANGED todo \/ todo' = entry[want[c]].users \ {c}
        <5>1. CASE UpdateCreates(d)
          <6>1. d = c
            BY <2>1, <5>1, UsersSame DEF UpdateCreates, Updating
          <6> QED
            BY <5>1, <6>1 DEF UpdateCreates
        <5> QED
          BY <4>1, <4>2, <5>1 DEF Own, LoadInstrument, HandBackInstrument, NothingToHandBack,
             HandBack, BorrowNew, BorrowFails, UpdateDestroys, UpdateEnds,
             UseInstrument, Finish, UnloadInstrument
      <4>3. ASSUME NEW e \in Channel, NEW d \in Channel, ToBeUpdated(e, d) \/ Updated(e, d)
            PROVE  todo' \subseteq todo
        BY <4>3 DEF ToBeUpdated, Updated
      <4>4. ASSUME NEW d \in Channel, \/ BeginCycle(d) \/ EndCycle(d) \/ Reset(d)
                                      \/ \E r \in Region : LaunchVoice(d, r)
            PROVE  UNCHANGED todo
        BY <4>4 DEF BeginCycle, EndCycle, Reset, LaunchVoice
      <4>5. ASSUME \E v \in Voice : FreeVoice(v) PROVE UNCHANGED todo
        BY <4>5 DEF FreeVoice
      <4>6. ASSUME \E r \in RegionInst : HandBackRegion(r) PROVE UNCHANGED todo
        BY <4>6 DEF HandBackRegion
      <4>7. ASSUME \E i \in Index, mode \in Mode : SetMode(i, mode) PROVE UNCHANGED todo
        BY <4>7 DEF SetMode
      <4> QED
        BY <4>2, <4>3, <4>4, <4>5, <4>6, <4>7, NextCases
    <3> QED
      BY <3>1, <3>2, <3>3, <3>4, <3>5
  <2>2. CASE pc[c] \notin Updating
    <3>1. BorrowExisting(c) /\ pc'[c] = "update"
      <4>1. entriesMutex' = c /\ entriesMutex # c
        BY <1>2, <1>4, <2>2 DEF LoaderInv
      <4> QED
        BY <4>1, Locks, NoneAssumption
    <3>2. want[c] \in Index /\ want'[c] = want[c]
          /\ entry'[want[c]].users = entry[want[c]].users \cup {c}
      BY <3>1, BorrowExistingEntries DEF BorrowExisting
    <3>3. /\ todo' = entry[want[c]].users \ {c}
          /\ \A d \in entry[want[c]].users \ {c} : AtRest(d)
      <4>1. todo' = entry[want[c]].users \ {c} /\ pc'[c] = "update"
        BY <3>1 DEF BorrowExisting, Borrowed, TypeOK
      <4> QED
        BY <3>1, <4>1 DEF Orderly
    <3>4. entry[want[c]].users \subseteq Channel
      BY <3>2 DEF TypeOK, EntryType
    <3>5. \A d \in entry[want[c]].users \ {c} : Resting(d)
      BY <3>3 DEF AtRest, Resting, Now
    <3>6. \A d \in entry[want[c]].users \ {c} : Resting(d)'
      BY <3>1, <3>4, <3>5, RestingStays DEF Own
    <3> QED
      BY <3>2, <3>3, <3>6
  <2> QED
    BY <2>1, <2>2
<1>5. ASSUME pc'[c] = "change"
      PROVE  Uses(c, got[c])' /\ got'[c] # None
  <2>1. CASE ~ Own(c)
    <3>1. pc[c] = "change" /\ got'[c] = got[c] /\ Uses(c, got[c]) /\ got[c] # None
      BY <1>5, <2>1, OthersSteps DEF LoaderInv
    <3>2. \A e \in Channel : UpdateCreates(e) => c \notin entry[want[e]].users
      BY <3>1 DEF UpdateCreates, LoaderInv, Updating, Resting
    <3>3. ~ HandBack(c)
      BY <2>1 DEF Own
    <3>4. \A x : x = got[c] => Uses(c, x)'
      BY <3>1, <3>2, <3>3, UsesKept
    <3> QED
      BY <3>1, <3>4 DEF Uses
  <2>2. CASE BorrowNew(c)
    <3>1. /\ want[c] \in Index /\ got'[c] = <<gig'.file, want[c]>> /\ gig'.file \in Files
          /\ entry'[want[c]].res = <<gig'.file, want[c]>> /\ entry'[want[c]].users = {c}
      BY <2>2, BorrowNewEntries
    <3>2. <<gig'.file, want[c]>> # None
      BY <3>1, NoneAssumption DEF Instrument
    <3> QED
      BY <3>1, <3>2 DEF Uses
  <2>3. CASE BorrowExisting(c)
    <3>1. got'[c] = entry[want[c]].res
      BY <1>5, <2>3 DEF BorrowExisting, Borrowed, TypeOK
    <3> QED
      BY <2>3, <3>1, BorrowExistingEntries DEF Uses
  <2>4. CASE UpdateEnds(c)
    <3>1. got'[c] = entry[want[c]].res /\ entry' = entry
      BY <2>4 DEF UpdateEnds, Borrowed, TypeOK
    <3>2. want[c] \in Index /\ c \in entry[want[c]].users
      BY <2>4 DEF UpdateEnds, LoaderInv, Updating, Midway
    <3> QED
      BY <3>1, <3>2 DEF Uses, EntryInv
  <2>5. CASE \/ \E i \in Index : LoadInstrument(c, i)
             \/ HandBackInstrument(c) \/ NothingToHandBack(c) \/ HandBack(c) \/ BorrowFails(c)
             \/ UpdateDestroys(c) \/ UpdateCreates(c)
             \/ UseInstrument(c) \/ Finish(c) \/ UnloadInstrument(c)
    BY <1>5, <2>5 DEF LoadInstrument, HandBackInstrument, NothingToHandBack, HandBack, BorrowFails,
       UpdateDestroys, UpdateCreates, UseInstrument, Finish, UnloadInstrument, TypeOK
  <2> QED
    BY <2>1, <2>2, <2>3, <2>4, <2>5 DEF Own
<1> QED
  BY <1>1, <1>2, <1>3, <1>4, <1>5

\* A channel whose engine is disabled plays nothing, and stays so until the update ends.
LEMMA StoppedStays ==
  ASSUME TypeOK, Step, NEW d \in Channel, Stopped(d), \A e \in Channel : ~ Updated(e, d)
  PROVE  Stopped(d)'
<1> USE DEF audio, manager, loader, bounds
<1>0. played[d] = None /\ ~ enabled[d] /\ locked[d] = {} /\ VoicesOf(d) = {}
  BY DEF Stopped
<1>1. CASE UNCHANGED <<locked, enabled, played, voice>>
  BY <1>0, <1>1 DEF Stopped, VoicesOf
<1>2. ASSUME NEW e \in Channel, NEW c \in Channel, ToBeUpdated(e, c) PROVE Stopped(d)'
  <2>1. /\ played'[d] = None /\ ~ enabled'[d] /\ locked'[d] = {}
    BY <1>0, <1>2 DEF ToBeUpdated, TypeOK
  <2>2. \A v \in Voice : voice'[v] = voice[v] \/ voice'[v] = None
    BY <1>2, DropFacts DEF ToBeUpdated
  <2> QED
    BY <1>0, <2>1, <2>2 DEF Stopped, VoicesOf
<1>3. ASSUME NEW e \in Channel, NEW c \in Channel, Updated(e, c) PROVE Stopped(d)'
  <2>1. c # d
    BY <1>3
  <2> QED
    BY <1>0, <1>3, <2>1 DEF Updated, TypeOK, Stopped, VoicesOf
<1>4. ASSUME NEW c \in Channel, BeginCycle(c) PROVE Stopped(d)'
  <2>1. c # d
    BY <1>0, <1>4 DEF BeginCycle
  <2>2. played'[d] = None /\ ~ enabled'[d] /\ locked'[d] = {}
    BY <1>0, <1>4, <2>1 DEF BeginCycle, TypeOK
  <2>3. \A v \in Voice : /\ voice[v] = None => voice'[v] = None
                         /\ voice[v] # None => voice'[v].chan = voice[v].chan
    <3>1. \A v \in Voice : voice[v] # None =>
            [voice[v] EXCEPT !.orphan = TRUE].chan = voice[v].chan
      BY VoiceTypes DEF VoiceType
    <3> QED
      BY <1>4, <3>1 DEF BeginCycle, Orphaned, VoicesOf
  <2> QED
    BY <1>0, <2>2, <2>3 DEF Stopped, VoicesOf
<1>5. ASSUME NEW c \in Channel, NEW r \in Region, LaunchVoice(c, r) PROVE Stopped(d)'
  <2>1. c # d
    BY <1>0, <1>5 DEF LaunchVoice
  <2> DEFINE new == [chan |-> c, region |-> <<played[c][1], r>>, orphan |-> FALSE]
  <2>2. /\ voice' = [voice EXCEPT ![Min({v \in Voice : voice[v] = None})] = new]
        /\ voice \in [Voice -> {None} \cup VoiceType] /\ new.chan = c
        /\ UNCHANGED <<locked, enabled, played>>
    BY <1>5 DEF LaunchVoice, TypeOK
  <2> HIDE DEF new
  <2>3. \A v \in Voice : voice'[v] = voice[v] \/ voice'[v] = new
    BY <2>2
  <2> QED
    BY <1>0, <2>1, <2>2, <2>3 DEF Stopped, VoicesOf
<1>6. ASSUME NEW v \in Voice, FreeVoice(v) PROVE Stopped(d)'
  <2>1. \A w \in Voice : voice'[w] = voice[w] \/ voice'[w] = None
    BY <1>6 DEF FreeVoice, TypeOK
  <2> QED
    BY <1>0, <1>6, <2>1 DEF FreeVoice, Stopped, VoicesOf
<1>7. ASSUME NEW c \in Channel, EndCycle(c) PROVE Stopped(d)'
  BY <1>0, <1>7 DEF EndCycle, TypeOK, Stopped, VoicesOf
<1>8. ASSUME NEW c \in Channel, Reset(c) PROVE Stopped(d)'
  <2>1. \A v \in Voice : voice'[v] = voice[v] \/ voice'[v] = None
    BY <1>8, DropFacts DEF Reset
  <2> QED
    BY <1>0, <1>8, <2>1 DEF Reset, Stopped, VoicesOf
<1>9. ASSUME \E c \in Channel : Own(c) PROVE Stopped(d)'
  BY <1>1, <1>9, OwnLocal
<1>10. ASSUME \E r \in RegionInst : HandBackRegion(r) PROVE Stopped(d)'
  BY <1>1, <1>10 DEF HandBackRegion
<1>11. ASSUME \E i \in Index, mode \in Mode : SetMode(i, mode) PROVE Stopped(d)'
  BY <1>1, <1>11 DEF SetMode
<1> QED
  BY <1>2, <1>3, <1>4, <1>5, <1>6, <1>7, <1>8, <1>9, <1>10, <1>11, NextCases

\* Which channels Update() has called
LEMMA TodoMoves ==
  ASSUME TypeOK, FilesInv, EntryInv, LoaderInv, Step, NEW c \in Channel, pc[c] \in Updating, ~ Own(c)
  PROVE  \/ UNCHANGED todo /\ \A d \in Channel : ~ Updated(c, d)
         \/ \E d \in Channel : ToBeUpdated(c, d)
         \/ \E d \in Channel : Updated(c, d)
<1> USE DEF audio, manager, loader, bounds
<1>1. \A d \in Channel \ {c} : pc[d] \notin Updating
  BY UsersSame
<1>2. entriesMutex # None
  BY NoneAssumption DEF LoaderInv
<1>3. ASSUME NEW e \in Channel, Own(e) PROVE UNCHANGED todo
  <2>1. e # c /\ pc[e] \notin Updating
    BY <1>1, <1>3
  <2>2. ~ BorrowExisting(e) /\ ~ UpdateCreates(e)
    BY <1>2, <2>1 DEF BorrowExisting, UpdateCreates, Updating
  <2> QED
    BY <1>3, <2>2 DEF Own, LoadInstrument, HandBackInstrument, NothingToHandBack,
       HandBack, BorrowNew, BorrowFails, UpdateDestroys, UpdateEnds,
       UseInstrument, Finish, UnloadInstrument
<1>4. ASSUME NEW e \in Channel, NEW d \in Channel, ToBeUpdated(e, d) \/ Updated(e, d) PROVE e = c
  BY <1>1, <1>4 DEF ToBeUpdated, Updated, Updating
<1>5. ASSUME NEW d \in Channel, \/ BeginCycle(d) \/ EndCycle(d) \/ Reset(d)
                                \/ \E r \in Region : LaunchVoice(d, r)
      PROVE  UNCHANGED todo
  BY <1>5 DEF BeginCycle, EndCycle, Reset, LaunchVoice
<1>6. ASSUME \E v \in Voice : FreeVoice(v) PROVE UNCHANGED todo
  BY <1>6 DEF FreeVoice
<1>7. ASSUME \E r \in RegionInst : HandBackRegion(r) PROVE UNCHANGED todo
  BY <1>7 DEF HandBackRegion
<1>8. ASSUME \E i \in Index, mode \in Mode : SetMode(i, mode) PROVE UNCHANGED todo
  BY <1>8 DEF SetMode
<1> QED
  BY <1>3, <1>4, <1>5, <1>6, <1>7, <1>8, NextCases

\* The other consumers of an instrument are stopped while it is updated.
LEMMA Update_Step ==
  ASSUME TypeOK, FilesInv, EntryInv, LoaderInv, UpdateInv, Orderly, Step
  PROVE  UpdateInv'
<1> USE DEF audio, manager, loader, bounds
<1> SUFFICES ASSUME NEW c \in Channel
             PROVE  /\ pc'[c] = "update" =>
                         \A d \in entry'[want'[c]].users \ {c} : d \in todo' \/ Stopped(d)'
                    /\ pc'[c] = "cleanup" =>
                         todo' = {} /\ \A d \in entry'[want'[c]].users \ {c} : Stopped(d)'
                    /\ pc'[c] = "updated" => \A d \in todo' : Stopped(d)'
  BY DEF UpdateInv
<1>0. pc[c] \in Updating => /\ want[c] \in Index /\ c \in entry[want[c]].users
                            /\ entry[want[c]].users \subseteq Channel
                            /\ todo \subseteq entry[want[c]].users \ {c}
                            /\ \A i \in Index : entry'[i].users = entry[i].users
  BY UsersSame DEF LoaderInv, TypeOK, EntryType, Updating, Midway
<1>1. CASE BorrowExisting(c)
  <2>1. pc'[c] \in {"update", "change"} /\ want'[c] = want[c]
    BY <1>1 DEF BorrowExisting, Borrowed, TypeOK
  <2>2. pc'[c] = "update" => todo' = entry[want[c]].users \ {c}
    BY <1>1 DEF BorrowExisting, Borrowed, TypeOK
  <2>3. entry'[want[c]].users \ {c} = entry[want[c]].users \ {c}
    BY <1>1, BorrowExistingEntries
  <2> QED
    BY <2>1, <2>2, <2>3
<1>2. CASE UpdateDestroys(c)
  <2>1. /\ pc[c] = "update" /\ pc'[c] = "cleanup" /\ want' = want /\ todo = {} /\ todo' = {}
        /\ entry' = entry /\ UNCHANGED <<locked, enabled, played, voice>>
    BY <1>2 DEF UpdateDestroys, TypeOK
  <2>2. \A d \in entry[want[c]].users \ {c} : Stopped(d)
    BY <2>1 DEF UpdateInv
  <2> QED
    BY <2>1, <2>2 DEF Stopped, VoicesOf
<1>3. CASE UpdateCreates(c)
  <2>1. /\ pc[c] = "cleanup" /\ pc'[c] = "updated" /\ want' = want
        /\ todo' = entry[want[c]].users \ {c} /\ UNCHANGED <<locked, enabled, played, voice>>
    BY <1>3 DEF UpdateCreates, TypeOK
  <2>2. \A d \in entry[want[c]].users \ {c} : Stopped(d)
    BY <2>1 DEF UpdateInv
  <2> QED
    BY <2>1, <2>2 DEF Stopped, VoicesOf
<1>4. CASE Own(c) /\ ~ BorrowExisting(c) /\ ~ UpdateDestroys(c) /\ ~ UpdateCreates(c)
  <2>1. pc'[c] \notin Updating
    BY <1>4 DEF Own, LoadInstrument, HandBackInstrument, NothingToHandBack,
       HandBack, BorrowNew, BorrowFails, UpdateEnds,
       UseInstrument, Finish, UnloadInstrument, Borrowed, TypeOK, Updating
  <2> QED
    BY <2>1 DEF Updating
<1>5. CASE ~ Own(c) /\ pc[c] \notin Updating
  BY <1>5, OthersSteps DEF Updating
<1>6. CASE ~ Own(c) /\ pc[c] \in Updating
  <2>1. pc'[c] = pc[c] /\ want'[c] = want[c]
    BY <1>6, OthersSteps
  <2>2. \A e \in Channel \ {c}, d \in Channel : ~ Updated(e, d)
    BY <1>6, UsersSame DEF Updated, Updating
  <2>3. CASE UNCHANGED todo /\ \A d \in Channel : ~ Updated(c, d)
    <3>1. \A d \in Channel : Stopped(d) => Stopped(d)'
      BY <2>2, <2>3, StoppedStays
    <3> QED
      BY <1>0, <1>6, <2>1, <2>3, <3>1 DEF UpdateInv
  <2>4. ASSUME NEW d \in Channel, ToBeUpdated(c, d)
        PROVE  pc[c] = "update" /\ \A e \in entry[want[c]].users \ {c} : e \in todo' \/ Stopped(e)'
    <3>1. pc[c] = "update" /\ todo' = todo \ {d}
      BY <2>4 DEF ToBeUpdated
    <3>2. Stopped(d)'
      <4>1. \A v \in Voice : voice'[v] = IF voice[v] # None /\ voice[v].chan = d THEN None ELSE voice[v]
        BY <2>4, DropFacts DEF ToBeUpdated
      <4>2. played'[d] = None /\ ~ enabled'[d] /\ locked'[d] = {}
        BY <2>4 DEF ToBeUpdated, TypeOK
      <4> QED
        BY <4>1, <4>2 DEF Stopped, VoicesOf
    <3>3. \A e \in Channel : ~ Updated(c, e)
      BY <3>1 DEF Updated
    <3>4. \A e \in Channel : Stopped(e) => Stopped(e)'
      BY <2>2, <3>3, StoppedStays
    <3> QED
      BY <1>0, <1>6, <3>1, <3>2, <3>4 DEF UpdateInv
  <2>5. ASSUME NEW d \in Channel, Updated(c, d)
        PROVE  pc[c] = "updated" /\ \A e \in todo' : Stopped(e)'
    <3>1. pc[c] = "updated" /\ todo' = todo \ {d}
      BY <2>5 DEF Updated
    <3>2. \A e \in todo' : Stopped(e) /\ e \in Channel /\ e # d
      BY <1>0, <1>6, <3>1 DEF UpdateInv
    <3>3. \A e \in todo' : Stopped(e)'
      BY <2>5, <3>2 DEF Updated, Stopped, VoicesOf, TypeOK
    <3> QED
      BY <3>1, <3>3
  <2> QED
    BY <1>0, <1>6, <2>1, <2>3, <2>4, <2>5, TodoMoves
<1> QED
  BY <1>1, <1>2, <1>3, <1>4, <1>5, <1>6

-----------------------------------------------------------------------------
(* Commands, and what is played *)

\* What the steps of others do to the audio thread of a channel
LEMMA PlayedMoves ==
  ASSUME TypeOK, Step, NEW c \in Channel
  PROVE  /\ \/ played'[c] = played[c]
            \/ played'[c] = None /\ ~ BeginCycle(c)
            \/ BeginCycle(c) /\ Now(c).change /\ played'[c] = Now(c).inst
            \/ \E e \in Channel : Updated(e, c)
         /\ locked'[c] = locked[c] \/ BeginCycle(c) \/ EndCycle(c)
<1> USE DEF audio, manager, loader, bounds
<1>1. CASE UNCHANGED <<locked, played>>
  BY <1>1
<1>2. ASSUME NEW e \in Channel, NEW d \in Channel, ToBeUpdated(e, d)
      PROVE  /\ played'[c] = played[c] \/ (played'[c] = None /\ ~ BeginCycle(c))
             /\ locked'[c] = locked[c]
  <2>1. UNCHANGED locked /\ (played'[c] = played[c] \/ played'[c] = None)
    BY <1>2 DEF ToBeUpdated, TypeOK
  <2>2. ~ BeginCycle(c)
    <3>1. todo' # todo
      BY <1>2 DEF ToBeUpdated
    <3> QED
      BY <3>1 DEF BeginCycle
  <2> QED
    BY <2>1, <2>2
<1>3. ASSUME NEW e \in Channel, NEW d \in Channel, Updated(e, d)
      PROVE  /\ played'[c] = played[c] \/ Updated(e, c)
             /\ locked'[c] = locked[c]
  <2>1. UNCHANGED locked /\ (played'[c] = played[c] \/ d = c)
    BY <1>3 DEF Updated, TypeOK
  <2> QED
    BY <1>3, <2>1
<1>4. ASSUME NEW d \in Channel, BeginCycle(d)
      PROVE  /\ \/ played'[c] = played[c]
                \/ BeginCycle(c) /\ Now(c).change /\ played'[c] = Now(c).inst
             /\ locked'[c] = locked[c] \/ BeginCycle(c)
  <2>1. CASE d = c
    BY <1>4, <2>1 DEF BeginCycle, TypeOK, Now
  <2>2. CASE d # c
    BY <1>4, <2>2 DEF BeginCycle, TypeOK
  <2> QED
    BY <2>1, <2>2
<1>5. ASSUME NEW d \in Channel, EndCycle(d)
      PROVE  played'[c] = played[c] /\ (locked'[c] = locked[c] \/ EndCycle(c))
  <2>1. CASE d = c
    BY <1>5, <2>1 DEF EndCycle
  <2>2. CASE d # c
    BY <1>5, <2>2 DEF EndCycle, TypeOK
  <2> QED
    BY <2>1, <2>2
<1>6. ASSUME NEW d \in Channel, Reset(d) \/ \E r \in Region : LaunchVoice(d, r)
      PROVE  UNCHANGED <<locked, played>>
  BY <1>6 DEF LaunchVoice, Reset
<1>7. ASSUME \E v \in Voice : FreeVoice(v) PROVE UNCHANGED <<locked, played>>
  BY <1>7 DEF FreeVoice
<1>8. ASSUME \E c_1 \in Channel : Own(c_1) PROVE UNCHANGED <<locked, played>>
  BY <1>8, OwnLocal
<1>9. ASSUME \E r \in RegionInst : HandBackRegion(r) PROVE UNCHANGED <<locked, played>>
  BY <1>9 DEF HandBackRegion
<1>10. ASSUME \E i \in Index, mode \in Mode : SetMode(i, mode) PROVE UNCHANGED <<locked, played>>
  BY <1>10 DEF SetMode
<1> QED
  BY <1>1, <1>2, <1>3, <1>4, <1>5, <1>6, <1>7, <1>8, <1>9, <1>10, NextCases

\* A channel that is told that its instrument was updated is at rest, and has an
\* instrument, which it now plays.
LEMMA UpdatedFacts ==
  ASSUME TypeOK, EntryInv, LoaderInv, UpdateInv, CmdInv, NEW e \in Channel, NEW c \in Channel,
         Updated(e, c)
  PROVE  /\ c # e /\ pc[c] = "idle" /\ ~ Now(c).change /\ Now(c).inst # None
         /\ played'[c] = entry[want[e]].res /\ Stopped(c) /\ want[e] \in Index
         /\ c \in entry[want[e]].users /\ Uses(c, entry[want[e]].res)
<1>1. /\ pc[e] = "updated" /\ c \in todo /\ want[e] \in Index
      /\ todo \subseteq entry[want[e]].users \ {e}
      /\ \A d \in entry[want[e]].users \ {e} : Resting(d)
  BY DEF Updated, LoaderInv, Midway, Updating
<1>2. Stopped(c)
  BY <1>1 DEF UpdateInv
<1>3. c # e /\ pc[c] = "idle" /\ ~ Now(c).change /\ Consumer(c) /\ c \in entry[want[e]].users
  BY <1>1 DEF Resting, Consumer
<1>4. Now(c).inst # None
  BY <1>3 DEF CmdInv
<1>5. played'[c] = entry[want[e]].res
  BY DEF Updated, TypeOK
<1> QED
  BY <1>1, <1>2, <1>3, <1>4, <1>5 DEF Uses

\* Creating an instrument anew concerns channels at rest, and the one that updates it.
LEMMA CreatedFor ==
  ASSUME TypeOK, LoaderInv, UpdateInv, NEW e \in Channel, NEW c \in Channel,
         UpdateCreates(e), c \in entry[want[e]].users
  PROVE  IF c = e THEN pc[c] = "cleanup" ELSE Resting(c) /\ Stopped(c)
BY DEF UpdateCreates, LoaderInv, Updating, UpdateInv

\* The command of every channel
LEMMA Cmd_Step ==
  ASSUME TypeOK, FilesInv, EntryInv, LoaderInv, UpdateInv, CmdInv, UsedInv, Orderly, Step
  PROVE  CmdInv'
<1> USE DEF audio, manager, loader, bounds
<1> SUFFICES ASSUME NEW c \in Channel
             PROVE  /\ Now(c)'.change /\ Now(c)'.inst # None => Uses(c, Now(c).inst)'
                    /\ ~ Now(c)'.change /\ Now(c)'.inst = None => played'[c] = None
                    /\ Now(c)'.inst = None /\ pc'[c] \in {"idle", "finish"} => ~ Consumer(c)'
                    /\ cmd'[c].cur \in locked'[c] => ~ Now(c)'.change
                    /\ Other(c)' \in locked'[c] =>
                         /\ Now(c)'.change /\ pc'[c] \in {"clear", "finish"}
                         /\ pc'[c] = "finish" => played'[c] = None
                    /\ pc'[c] = "clear" /\ OldCmd(c)'.inst = None => played'[c] = None
  BY DEF CmdInv
<1>0. /\ Now(c).change /\ Now(c).inst # None => Uses(c, Now(c).inst)
      /\ ~ Now(c).change /\ Now(c).inst = None => played[c] = None
      /\ Now(c).inst = None /\ pc[c] \in {"idle", "finish"} => ~ Consumer(c)
      /\ cmd[c].cur \in locked[c] => ~ Now(c).change
      /\ Other(c) \in locked[c] => /\ Now(c).change /\ pc[c] \in {"clear", "finish"}
                                   /\ pc[c] = "finish" => played[c] = None
      /\ pc[c] = "clear" /\ OldCmd(c).inst = None => played[c] = None
  BY DEF CmdInv
<1>1. CASE (\E i \in Index : LoadInstrument(c, i)) \/ UseInstrument(c) \/ UnloadInstrument(c)
  <2>1. /\ cmd'[c].cur = Other(c) /\ Other(c)' = cmd[c].cur /\ OldCmd(c)' = Now(c)
        /\ Now(c)'.change
        /\ Now(c)'.inst = IF UseInstrument(c) THEN got[c] ELSE None
        /\ pc[c] = IF UseInstrument(c) THEN "change" ELSE "idle"
        /\ pc'[c] = IF \E i \in Index : LoadInstrument(c, i) THEN "clear" ELSE "finish"
        /\ UNCHANGED <<entry, gig, mem, todo, entriesMutex, regionMutex>>
    BY <1>1, OwnChange
  <2>2. locked'[c] = locked[c] /\ played'[c] = played[c]
    BY <1>1, OwnLocal DEF Own
  <2>3. ~ UseInstrument(c) => ~ Now(c).change
    BY <1>1 DEF Orderly, LoadInstrument, UnloadInstrument, AtRest, Now
  <2>4. UnloadInstrument(c) => Now(c).inst = None
    BY DEF Orderly, Empty, Now
  <2>5. UseInstrument(c) => Uses(c, got[c]) /\ got[c] # None /\ Now(c).inst = None
    BY <2>1 DEF LoaderInv, Midway
  <2>6. \A x : Uses(c, x) => Uses(c, x)'
    BY <2>1 DEF Uses
  <2>7. Consumer(c)' <=> Consumer(c)
    BY <2>1 DEF Consumer
  <2>8. Now(c)'.inst # None => Uses(c, Now(c).inst)'
    <3>1. Now(c)'.inst # None => Now(c)'.inst = got[c] /\ UseInstrument(c)
      BY <2>1
    <3> QED
      BY <2>5, <2>6, <3>1 DEF Uses
  <2>9. Other(c) \notin locked[c]
    BY <1>0, <2>1
  <2>10. Now(c)'.inst = None /\ pc'[c] \in {"idle", "finish"} => ~ Consumer(c)'
    <3>1. Now(c)'.inst = None => ~ UseInstrument(c)
      BY <2>1, <2>5
    <3>2. Now(c)'.inst = None /\ pc'[c] \in {"idle", "finish"} => UnloadInstrument(c) /\ pc[c] = "idle"
      BY <1>1, <2>1, <3>1
    <3> QED
      BY <1>0, <2>4, <2>7, <3>2
  <2>11. pc'[c] = "finish" /\ cmd[c].cur \in locked[c] => played[c] = None
    <3>1. pc'[c] = "finish" => UseInstrument(c) \/ UnloadInstrument(c)
      BY <1>1, <2>1
    <3>2. pc'[c] = "finish" => Now(c).inst = None
      BY <2>4, <2>5, <3>1
    <3> QED
      BY <1>0, <3>2
  <2>12. pc'[c] = "clear" /\ OldCmd(c)'.inst = None => played[c] = None
    <3>1. pc'[c] = "clear" => \E i \in Index : LoadInstrument(c, i)
      BY <2>1
    <3>2. (\E i \in Index : LoadInstrument(c, i)) => ~ Now(c).change
      BY DEF Orderly, LoadInstrument, AtRest, Now
    <3> QED
      BY <1>0, <2>1, <3>1, <3>2
  <2> QED
    BY <2>1, <2>2, <2>8, <2>9, <2>10, <2>11, <2>12
<1>2. CASE HandBackInstrument(c) \/ NothingToHandBack(c) \/ HandBack(c) \/ BorrowNew(c)
           \/ BorrowFails(c) \/ BorrowExisting(c) \/ UpdateDestroys(c) \/ UpdateCreates(c)
           \/ UpdateEnds(c) \/ Finish(c)
  <2>1. /\ cmd'[c].cur = cmd[c].cur /\ Other(c)' = Other(c) /\ Now(c)' = Now(c)
        /\ pc[c] \in Midway \cup {"finish"}
        /\ pc'[c] \in Midway \cup {"idle"} /\ pc'[c] # "clear"
    BY <1>2, OwnMiddle
  <2>2. locked'[c] = locked[c] /\ played'[c] = played[c]
    BY <1>2, OwnLocal DEF Own
  <2>3. Now(c).inst # None => Finish(c)
    BY <1>2 DEF LoaderInv, Midway, HandBackInstrument, NothingToHandBack, HandBack, BorrowNew,
       BorrowFails, BorrowExisting, UpdateDestroys, UpdateCreates, UpdateEnds
  <2>4. Now(c).inst # None => \A x : Uses(c, x) => Uses(c, x)'
    BY <2>3 DEF Finish, Uses
  <2>5. Other(c) \notin locked[c]
    <3>1. Other(c) \in locked[c] => pc[c] \in {"clear", "finish"}
      BY <1>0
    <3>2. pc[c] \in {"clear", "finish"} => HandBackInstrument(c) \/ NothingToHandBack(c) \/ Finish(c)
      BY <1>2 DEF HandBackInstrument, NothingToHandBack, HandBack, BorrowNew,
       BorrowFails, BorrowExisting, UpdateDestroys, UpdateCreates, UpdateEnds
    <3>3. HandBackInstrument(c) \/ NothingToHandBack(c) \/ Finish(c) => Switched(c)
      BY DEF HandBackInstrument, NothingToHandBack, Finish
    <3> QED
      BY <3>1, <3>2, <3>3 DEF Switched
  <2>6. Now(c).inst = None /\ pc'[c] \in {"idle", "finish"} => ~ Consumer(c)'
    <3>1. pc'[c] \in {"idle", "finish"} => BorrowFails(c) \/ Finish(c)
      BY <1>2 DEF HandBackInstrument, NothingToHandBack, HandBack, BorrowNew,
       BorrowExisting, UpdateDestroys, UpdateCreates, UpdateEnds, Borrowed, TypeOK
    <3>2. BorrowFails(c) => ~ Consumer(c)'
      BY DEF BorrowFails, EntryInv, Consumer
    <3>3. Finish(c) => pc[c] = "finish" /\ (Consumer(c)' <=> Consumer(c))
      BY DEF Finish, Consumer
    <3> QED
      BY <1>0, <3>1, <3>2, <3>3
  <2>7. pc'[c] # "finish"
    BY <2>1 DEF Midway
  <2>8. Now(c)'.change /\ Now(c)'.inst # None => Uses(c, Now(c).inst)'
    <3>1. Now(c).change /\ Now(c).inst # None => \A x : x = Now(c).inst => Uses(c, x)'
      BY <1>0, <2>4
    <3> QED
      BY <2>1, <3>1 DEF Uses
  <2> QED
    BY <1>0, <2>1, <2>2, <2>5, <2>6, <2>7, <2>8
<1>3. CASE BeginCycle(c)
  <2>1. /\ cmd'[c].cur = cmd[c].cur /\ Other(c)' = Other(c) /\ OldCmd(c)' = OldCmd(c)
        /\ Now(c)'.inst = Now(c).inst /\ ~ Now(c)'.change
    BY <1>3, BeginFacts
  <2>2. /\ UNCHANGED <<pc, entry>> /\ locked'[c] = {cmd[c].cur}
        /\ played'[c] = IF Now(c).change THEN Now(c).inst ELSE played[c]
    BY <1>3 DEF BeginCycle, TypeOK, Now
  <2>3. Other(c) # cmd[c].cur
    BY CopyTypes
  <2>4. Consumer(c)' <=> Consumer(c)
    BY <2>2 DEF Consumer
  <2>5. pc[c] = "clear" => Now(c).inst = None
    BY DEF LoaderInv, Midway
  <2> QED
    BY <1>0, <2>1, <2>2, <2>3, <2>4, <2>5
<1>4. CASE EndCycle(c)
  <2>1. /\ cmd'[c].cur = cmd[c].cur /\ Other(c)' = Other(c) /\ OldCmd(c)'.inst = OldCmd(c).inst
        /\ Now(c)'.inst = Now(c).inst /\ Now(c)'.change = Now(c).change
    BY <1>4, EndFacts
  <2>2. UNCHANGED <<pc, entry, played>> /\ locked'[c] = {}
    BY <1>4 DEF EndCycle, TypeOK
  <2>3. (Consumer(c)' <=> Consumer(c)) /\ \A x : Uses(c, x) <=> Uses(c, x)'
    BY <2>2 DEF Consumer, Uses
  <2>4. Uses(c, Now(c).inst)' <=> Uses(c, Now(c).inst)
    BY <2>1, <2>2 DEF Uses
  <2> QED
    BY <1>0, <2>1, <2>2, <2>3, <2>4
<1>5. CASE ~ Own(c) /\ ~ BeginCycle(c) /\ ~ EndCycle(c)
  <2>1. /\ pc'[c] = pc[c] /\ cmd'[c] = cmd[c] /\ locked'[c] = locked[c]
    BY <1>5, OthersSteps, PlayedMoves
  <2>2. /\ Now(c)' = Now(c) /\ OldCmd(c)' = OldCmd(c) /\ Other(c)' = Other(c)
    BY <2>1, SameCmd
  <2>3. \/ played'[c] \in {played[c], None}
        \/ \E e \in Channel : Updated(e, c)
    BY <1>5, PlayedMoves
  <2>4. Consumer(c)' => Consumer(c)
    BY <1>5, ConsumerSame DEF Own
  <2>5. ASSUME Now(c).change, Now(c).inst # None PROVE Uses(c, Now(c).inst)'
    <3>1. \A e \in Channel : UpdateCreates(e) => c \notin entry[want[e]].users
      <4>1. ASSUME NEW e \in Channel, UpdateCreates(e), c \in entry[want[e]].users PROVE FALSE
        BY <1>5, <2>5, <4>1, CreatedFor DEF Resting, Own
      <4> QED
        BY <4>1
    <3>2. Uses(c, Now(c).inst) /\ ~ HandBack(c)
      BY <1>0, <1>5, <2>5 DEF Own
    <3>3. \A x : x = Now(c).inst => Uses(c, x)'
      BY <2>5, <3>1, <3>2, UsesKept
    <3> QED
      BY <2>2, <3>3 DEF Uses
  <2>6. CASE played'[c] \in {played[c], None}
    BY <1>0, <2>1, <2>2, <2>4, <2>5, <2>6
  <2>7. ASSUME NEW e \in Channel, Updated(e, c)
        PROVE  /\ Now(c).inst # None /\ pc[c] = "idle" /\ Other(c) \notin locked[c]
    <3>1. Now(c).inst # None /\ pc[c] = "idle"
      BY <2>7, UpdatedFacts
    <3> QED
      BY <1>0, <3>1
  <2> QED
    BY <1>0, <2>1, <2>2, <2>3, <2>4, <2>5, <2>6, <2>7
<1> QED
  BY <1>1, <1>2, <1>3, <1>4, <1>5 DEF Own

\* What a channel plays is borrowed by it, until it is to play something else.
LEMMA Played_Step ==
  ASSUME TypeOK, FilesInv, EntryInv, LoaderInv, UpdateInv, CmdInv, PlayedInv, Orderly, Step
  PROVE  PlayedInv'
<1> USE DEF audio, manager, loader, bounds
<1> SUFFICES ASSUME NEW c \in Channel, played'[c] # None, ~ Committed(c)'
             PROVE  Uses(c, played[c])'
  BY DEF PlayedInv
<1>0. /\ played[c] # None /\ ~ Committed(c) => Uses(c, played[c])
      /\ ~ Now(c).change /\ Now(c).inst = None => played[c] = None
      /\ Now(c).change /\ Now(c).inst # None => Uses(c, Now(c).inst)
  BY DEF PlayedInv, CmdInv
<1>1. ASSUME entry' = entry, played'[c] = played[c], ~ Committed(c) PROVE Uses(c, played[c])'
  BY <1>0, <1>1 DEF Uses
<1>2. CASE (\E i \in Index : LoadInstrument(c, i)) \/ UseInstrument(c) \/ UnloadInstrument(c)
  <2>1. /\ Now(c)'.change
        /\ pc'[c] = IF \E i \in Index : LoadInstrument(c, i) THEN "clear" ELSE "finish"
        /\ UNCHANGED entry
    BY <1>2, OwnChange
  <2>2. \E i \in Index : LoadInstrument(c, i)
    BY <2>1 DEF Committed
  <2>3. ~ Now(c).change
    BY <2>2 DEF Orderly, LoadInstrument, AtRest, Now
  <2>4. played'[c] = played[c]
    BY <2>2, OwnLocal DEF Own
  <2> QED
    BY <1>1, <2>1, <2>3, <2>4 DEF Committed
<1>3. CASE HandBackInstrument(c) \/ NothingToHandBack(c) \/ HandBack(c) \/ BorrowNew(c)
           \/ BorrowFails(c) \/ BorrowExisting(c) \/ UpdateDestroys(c) \/ UpdateCreates(c)
           \/ UpdateEnds(c) \/ Finish(c)
  <2>1. /\ Now(c)' = Now(c) /\ pc[c] \in Midway \cup {"finish"} /\ pc'[c] # "clear"
    BY <1>3, OwnMiddle
  <2>2. played'[c] = played[c]
    BY <1>3, OwnLocal DEF Own
  <2>3. ~ Now(c).change
    BY <2>1 DEF Committed
  <2>4. Now(c).inst # None
    BY <1>0, <2>2, <2>3
  <2>5. Finish(c)
    BY <1>3, <2>4 DEF LoaderInv, Midway, HandBackInstrument, NothingToHandBack, HandBack, BorrowNew,
       BorrowFails, BorrowExisting, UpdateDestroys, UpdateCreates, UpdateEnds
  <2> QED
    BY <1>1, <2>2, <2>3, <2>5 DEF Committed, Finish
<1>4. CASE BeginCycle(c)
  <2>1. /\ UNCHANGED <<pc, entry>>
        /\ played'[c] = IF Now(c).change THEN Now(c).inst ELSE played[c]
    BY <1>4 DEF BeginCycle, TypeOK, Now
  <2>2. CASE Now(c).change
    BY <1>0, <2>1, <2>2 DEF Uses
  <2>3. CASE ~ Now(c).change
    BY <1>1, <2>1, <2>3 DEF Committed
  <2> QED
    BY <2>2, <2>3
<1>5. CASE EndCycle(c)
  <2>1. UNCHANGED <<pc, entry, played>> /\ locked'[c] = {} /\ Now(c)'.change = Now(c).change
    <3>1. UNCHANGED <<pc, entry, played>> /\ locked'[c] = {}
      BY <1>5 DEF EndCycle, TypeOK
    <3>2. Now(c)'.change = Now(c).change
      BY <1>5, EndFacts
    <3> QED
      BY <3>1, <3>2
  <2>2. Switched(c)'
    BY <2>1 DEF Switched
  <2> QED
    BY <1>1, <2>1, <2>2 DEF Committed
<1>6. CASE ~ Own(c) /\ ~ BeginCycle(c) /\ ~ EndCycle(c)
  <2>1. /\ pc'[c] = pc[c] /\ cmd'[c] = cmd[c] /\ locked'[c] = locked[c]
    BY <1>6, OthersSteps, PlayedMoves
  <2>2. /\ Now(c)' = Now(c) /\ Other(c)' = Other(c)
    BY <2>1, SameCmd
  <2>3. ~ Committed(c)
    BY <2>1, <2>2 DEF Committed, Switched
  <2>4. CASE played'[c] = played[c]
    <3>1. \A e \in Channel : UpdateCreates(e) => c \notin entry[want[e]].users
      <4>1. ASSUME NEW e \in Channel, UpdateCreates(e), c \in entry[want[e]].users PROVE FALSE
        BY <1>6, <2>4, <4>1, CreatedFor DEF Stopped, Own
      <4> QED
        BY <4>1
    <3>2. Uses(c, played[c]) /\ ~ HandBack(c)
      BY <1>0, <1>6, <2>3, <2>4 DEF Own
    <3>3. \A x : x = played[c] => Uses(c, x)'
      BY <2>4, <3>1, <3>2, UsesKept
    <3> QED
      BY <2>4, <3>3 DEF Uses
  <2>5. ASSUME NEW e \in Channel, Updated(e, c) PROVE Uses(c, played[c])'
    <3>1. played'[c] = entry[want[e]].res /\ want[e] \in Index /\ c \in entry[want[e]].users
      BY <2>5, UpdatedFacts
    <3>2. entry' = entry
      BY <2>5 DEF Updated
    <3> QED
      BY <3>1, <3>2 DEF Uses
  <2> QED
    BY <1>6, <2>4, <2>5, PlayedMoves
<1> QED
  BY <1>2, <1>3, <1>4, <1>5, <1>6 DEF Own

\* What a step does to the voices
LEMMA VoiceMoves ==
  ASSUME TypeOK, Step
  PROVE  \/ UNCHANGED <<voice, ordered>> /\ \A c \in Channel : played'[c] = played[c]
         \/ \E e, d \in Channel : ToBeUpdated(e, d) \/ Updated(e, d)
         \/ \E c \in Channel : BeginCycle(c) \/ Reset(c) \/ \E r \in Region : LaunchVoice(c, r)
         \/ \E v \in Voice : FreeVoice(v)
         \/ \E r \in RegionInst : HandBackRegion(r)
<1>1. ASSUME NEW c \in Channel, Own(c) PROVE UNCHANGED <<voice, ordered, played>>
  BY <1>1, OwnLocal
<1>2. ASSUME \E c \in Channel : EndCycle(c) PROVE UNCHANGED <<voice, ordered, played>>
  BY <1>2 DEF EndCycle
<1>3. ASSUME \E i \in Index, mode \in Mode : SetMode(i, mode) PROVE UNCHANGED <<voice, ordered, played>>
  BY <1>3 DEF SetMode, audio
<1> QED
  BY <1>1, <1>2, <1>3, NextCases

\* The voice that a note triggers
LEMMA LaunchFacts ==
  ASSUME TypeOK, NEW c \in Channel, NEW r \in Region, LaunchVoice(c, r)
  PROVE  \E w \in Voice :
           /\ voice[w] = None /\ voice'[w] # None
           /\ voice'[w] = [chan |-> c, region |-> <<played[c][1], r>>, orphan |-> FALSE]
           /\ \A v \in Voice \ {w} : voice'[v] = voice[v]
<1> DEFINE new == [chan |-> c, region |-> <<played[c][1], r>>, orphan |-> FALSE]
           free == {v \in Voice : voice[v] = None}
<1>1. new \in VoiceType /\ new # None
  <2>1. played[c] \in Instrument
    BY DEF LaunchVoice, TypeOK
  <2>2. new \in VoiceType
    BY <2>1 DEF VoiceType, RegionInst, Instrument
  <2> QED
    BY <2>2, NoneAssumption
<1>2. free \in SUBSET Nat /\ free # {}
  BY BoundsAssumption DEF LaunchVoice
<1>3. Min(free) \in free
  BY <1>2, MinIsMember
<1>4. voice' = [voice EXCEPT ![Min(free)] = new] /\ voice \in [Voice -> {None} \cup VoiceType]
  BY DEF LaunchVoice, TypeOK
<1>5. Min(free) \in Voice /\ voice[Min(free)] = None
  BY <1>3
<1> HIDE DEF new, free
<1>6. voice'[Min(free)] = new /\ \A v \in Voice \ {Min(free)} : voice'[v] = voice[v]
  BY <1>4, <1>5
<1> QED
  BY <1>1, <1>5, <1>6 DEF new

\* The voices when a cycle begins
LEMMA BeginVoices ==
  ASSUME TypeOK, NEW c \in Channel, BeginCycle(c), NEW v \in Voice
  PROVE  /\ voice'[v] = None <=> voice[v] = None
         /\ voice[v] # None =>
              /\ voice'[v].chan = voice[v].chan /\ voice'[v].region = voice[v].region
              /\ voice'[v].orphan <=> voice[v].orphan \/ (voice[v].chan = c /\ Now(c).change)
<1>1. voice' = IF Now(c).change THEN Orphaned(c) ELSE voice
  BY DEF BeginCycle, Now
<1>2. voice[v] # None =>
        /\ voice[v] \in VoiceType /\ voice[v].orphan \in BOOLEAN
        /\ [voice[v] EXCEPT !.orphan = TRUE] \in VoiceType
        /\ [voice[v] EXCEPT !.orphan = TRUE].chan = voice[v].chan
        /\ [voice[v] EXCEPT !.orphan = TRUE].region = voice[v].region
        /\ [voice[v] EXCEPT !.orphan = TRUE].orphan
  <2>1. voice[v] # None => voice[v] \in VoiceType
    BY VoiceTypes
  <2> QED
    BY <2>1 DEF VoiceType
<1>3. Orphaned(c)[v] = IF voice[v] # None /\ voice[v].chan = c
                       THEN [voice[v] EXCEPT !.orphan = TRUE] ELSE voice[v]
  BY DEF Orphaned, VoicesOf
<1>4. None \notin VoiceType
  BY NoneAssumption
<1> QED
  BY <1>1, <1>2, <1>3, <1>4

\* A voice that is no orphan plays what its channel plays.
LEMMA Voice_Step ==
  ASSUME TypeOK, EntryInv, LoaderInv, UpdateInv, CmdInv, VoiceInv, Step
  PROVE  VoiceInv'
<1> USE DEF audio, manager, loader, bounds
<1> SUFFICES ASSUME NEW v \in Voice, voice'[v] # None, ~ voice'[v].orphan
             PROVE  /\ played'[voice'[v].chan] # None
                    /\ voice'[v].region[1] = played'[voice'[v].chan][1]
  BY DEF VoiceInv
<1>0. voice[v] # None => /\ voice[v].chan \in Channel
                         /\ ~ voice[v].orphan => /\ played[voice[v].chan] # None
                                                 /\ voice[v].region[1] = played[voice[v].chan][1]
  BY VoiceTypes DEF VoiceInv
<1>1. ASSUME voice'[v] = voice[v], played'[voice[v].chan] = played[voice[v].chan]
      PROVE  /\ played'[voice'[v].chan] # None
             /\ voice'[v].region[1] = played'[voice'[v].chan][1]
  BY <1>0, <1>1
<1>2. CASE UNCHANGED <<voice, ordered>> /\ \A c \in Channel : played'[c] = played[c]
  BY <1>0, <1>1, <1>2
<1>3. ASSUME NEW e \in Channel, NEW d \in Channel, ToBeUpdated(e, d)
      PROVE  voice'[v] = voice[v] /\ played'[voice[v].chan] = played[voice[v].chan]
  <2>1. voice'[v] = voice[v] /\ voice[v].chan # d
    BY <1>3, DropFacts DEF ToBeUpdated
  <2> QED
    BY <1>0, <1>3, <2>1 DEF ToBeUpdated, TypeOK
<1>4. ASSUME NEW e \in Channel, NEW d \in Channel, Updated(e, d)
      PROVE  voice'[v] = voice[v] /\ played'[voice[v].chan] = played[voice[v].chan]
  <2>1. voice' = voice /\ \A c \in Channel \ {d} : played'[c] = played[c]
    BY <1>4 DEF Updated, TypeOK
  <2>2. VoicesOf(d) = {}
    BY <1>4, UpdatedFacts DEF Stopped
  <2>3. voice[v].chan # d
    BY <2>1, <2>2 DEF VoicesOf
  <2> QED
    BY <1>0, <2>1, <2>3
<1>5. ASSUME NEW c \in Channel, BeginCycle(c)
      PROVE  /\ played'[voice'[v].chan] # None
             /\ voice'[v].region[1] = played'[voice'[v].chan][1]
  <2>1. /\ voice[v] # None /\ ~ voice[v].orphan
        /\ voice'[v].chan = voice[v].chan /\ voice'[v].region = voice[v].region
        /\ ~ (voice[v].chan = c /\ Now(c).change)
    BY <1>5, BeginVoices
  <2>2. played'[voice[v].chan] = played[voice[v].chan]
    BY <1>0, <1>5, <2>1 DEF BeginCycle, Now, TypeOK
  <2> QED
    BY <1>0, <2>1, <2>2
<1>6. ASSUME NEW c \in Channel, Reset(c)
      PROVE  voice'[v] = voice[v] /\ played' = played
  <2>1. voice'[v] = voice[v]
    BY <1>6, DropFacts DEF Reset
  <2> QED
    BY <1>6, <2>1 DEF Reset
<1>7. ASSUME NEW c \in Channel, NEW r \in Region, LaunchVoice(c, r)
      PROVE  /\ played'[voice'[v].chan] # None
             /\ voice'[v].region[1] = played'[voice'[v].chan][1]
  <2>1. PICK w \in Voice :
           /\ voice'[w] = [chan |-> c, region |-> <<played[c][1], r>>, orphan |-> FALSE]
           /\ \A x \in Voice \ {w} : voice'[x] = voice[x]
    BY <1>7, LaunchFacts
  <2>2. played' = played /\ played[c] # None
    BY <1>7 DEF LaunchVoice
  <2>3. CASE v = w
    BY <2>1, <2>2, <2>3
  <2>4. CASE v # w
    BY <1>0, <2>1, <2>2, <2>4
  <2> QED
    BY <2>3, <2>4
<1>8. ASSUME NEW w \in Voice, FreeVoice(w)
      PROVE  voice'[v] = voice[v] /\ played' = played
  BY <1>8 DEF FreeVoice, TypeOK
<1>9. ASSUME NEW r \in RegionInst, HandBackRegion(r)
      PROVE  voice'[v] = voice[v] /\ played' = played
  BY <1>9 DEF HandBackRegion
<1> QED
  BY <1>1, <1>2, <1>3, <1>4, <1>5, <1>6, <1>7, <1>8, <1>9, VoiceMoves

-----------------------------------------------------------------------------
(* The lists of regions *)

\* What a channel plays is of the file that is open, unless it is to play something else.
LEMMA InUseFacts ==
  ASSUME TypeOK, EntryInv, CmdInv, PlayedInv, VoiceInv, NEW c \in Channel
  PROVE  /\ locked[c] # {} /\ played[c] # None => ~ Committed(c)
         /\ played[c] = None => InUse(c) = {}
         /\ ~ Committed(c) => \A v \in Voice : voice[v] # None /\ voice[v].chan = c
                                                /\ ~ voice[v].orphan =>
              voice[v].region[1] = gig.file /\ gig.file # 0 /\ Consumer(c)
         /\ ~ Committed(c) \/ locked[c] # {} =>
              \A u \in InUse(c) : u[2][1] = gig.file /\ Consumer(c)
<1>1. locked[c] # {} /\ played[c] # None => ~ Committed(c)
  BY PlaysBorrowed
<1>2. \A v \in Voice : voice[v] # None /\ voice[v].chan = c /\ ~ voice[v].orphan =>
        played[c] # None /\ voice[v].region[1] = played[c][1]
  BY DEF VoiceInv
<1>3. \A u \in InUse(c) : \E v \in Voice : /\ voice[v] # None /\ voice[v].chan = c
                                           /\ ~ voice[v].orphan /\ u = <<v, voice[v].region>>
  BY DEF InUse, VoicesOf
<1>4. ~ Committed(c) /\ played[c] # None =>
        played[c][1] = gig.file /\ gig.file # 0 /\ Consumer(c)
  BY UsedIsOpen DEF PlayedInv
<1>5. ~ Committed(c) => \A v \in Voice : voice[v] # None /\ voice[v].chan = c
                                         /\ ~ voice[v].orphan =>
              voice[v].region[1] = gig.file /\ gig.file # 0 /\ Consumer(c)
  BY <1>2, <1>4
<1>6. ~ Committed(c) \/ locked[c] # {} =>
        \A u \in InUse(c) : u[2][1] = gig.file /\ Consumer(c)
  BY <1>1, <1>2, <1>3, <1>4
<1>7. played[c] = None => InUse(c) = {}
  BY <1>2, <1>3
<1> QED
  BY <1>1, <1>5, <1>6, <1>7

\* Steps that forget voices say so.
LEMMA UpsetGrows ==
  ASSUME Step
  PROVE  upset \subseteq upset'
<1> USE DEF audio, manager, loader, bounds
<1>1. ASSUME NEW c \in Channel, DropVoices(c) PROVE upset \subseteq upset'
  BY <1>1 DEF DropVoices
<1>2. ASSUME NEW c \in Channel, Own(c) PROVE upset \subseteq upset'
  BY <1>2 DEF Own, LoadInstrument, HandBackInstrument, NothingToHandBack, HandBack, BorrowNew,
     BorrowFails, BorrowExisting, UpdateDestroys, UpdateCreates, UpdateEnds, UseInstrument,
     Finish, UnloadInstrument
<1>3. ASSUME NEW e \in Channel, NEW d \in Channel, ToBeUpdated(e, d) \/ Updated(e, d)
      PROVE  upset \subseteq upset'
  BY <1>1, <1>3 DEF ToBeUpdated, Updated
<1>4. ASSUME NEW c \in Channel, \/ BeginCycle(c) \/ EndCycle(c) \/ Reset(c)
                                \/ \E r \in Region : LaunchVoice(c, r)
      PROVE  upset \subseteq upset'
  BY <1>1, <1>4 DEF BeginCycle, EndCycle, Reset, LaunchVoice
<1>5. ASSUME NEW v \in Voice, FreeVoice(v) PROVE upset \subseteq upset'
  BY <1>5 DEF FreeVoice
<1>6. ASSUME NEW r \in RegionInst, HandBackRegion(r) PROVE upset \subseteq upset'
  BY <1>6 DEF HandBackRegion
<1>7. ASSUME NEW i \in Index, NEW mode \in Mode, SetMode(i, mode) PROVE upset \subseteq upset'
  BY <1>7 DEF SetMode
<1> QED
  BY <1>2, <1>3, <1>4, <1>5, <1>6, <1>7, NextCases

\* Outside its cycles, the voices of a channel stay as they are.
LEMMA InUseKept ==
  ASSUME TypeOK, TypeOK', Step, NEW c \in Channel, locked[c] = {}, ~ BeginCycle(c)
  PROVE  /\ InUse(c)' \subseteq InUse(c)
         /\ "dropped" \notin upset' => "dropped" \notin upset /\ InUse(c)' = InUse(c)
<1> USE DEF audio, manager, loader, bounds
<1>0. upset \subseteq upset'
  BY UpsetGrows
<1>1. CASE UNCHANGED voice
  BY <1>0, <1>1 DEF InUse, VoicesOf
<1>2. ASSUME NEW d \in Channel, DropVoices(d) PROVE InUse(c)' \subseteq InUse(c)
  <2>1. \A v \in Voice : voice'[v] = voice[v] \/ voice'[v] = None
    BY <1>2, DropFacts
  <2> QED
    BY <2>1 DEF InUse, VoicesOf
<1>3. ASSUME NEW d \in Channel, DropVoices(d), "dropped" \notin upset' PROVE UNCHANGED voice
  BY <1>3, DropFacts
<1>4. ASSUME \A v \in Voice : \/ voice'[v] = voice[v]
                              \/ /\ voice[v] = None \/ voice[v].chan # c
                                 /\ voice'[v] = None \/ voice'[v].chan # c
      PROVE  InUse(c)' = InUse(c)
  <2>1. \A u : u \in InUse(c)' <=> u \in InUse(c)
    BY <1>4 DEF InUse, VoicesOf
  <2> QED
    BY <2>1
<1>5. ASSUME NEW d \in Channel, BeginCycle(d) PROVE InUse(c)' = InUse(c)
  <2>1. d # c
    BY <1>5
  <2>2. \A v \in Voice : \/ voice'[v] = voice[v]
                         \/ /\ voice[v] = None \/ voice[v].chan # c
                            /\ voice'[v] = None \/ voice'[v].chan # c
    <3>1. \A v \in Voice : voice[v] # None /\ voice[v].chan # d => voice'[v] = voice[v]
      BY <1>5 DEF BeginCycle, Orphaned, VoicesOf
    <3> QED
      BY <1>5, <2>1, <3>1, BeginVoices
  <2> QED
    BY <1>4, <2>2
<1>6. ASSUME NEW d \in Channel, NEW r \in Region, LaunchVoice(d, r) PROVE InUse(c)' = InUse(c)
  <2>1. d # c
    BY <1>6 DEF LaunchVoice
  <2>2. PICK w \in Voice :
           /\ voice[w] = None
           /\ voice'[w] = [chan |-> d, region |-> <<played[d][1], r>>, orphan |-> FALSE]
           /\ \A v \in Voice \ {w} : voice'[v] = voice[v]
    BY <1>6, LaunchFacts
  <2>3. voice'[w].chan # c
    BY <2>1, <2>2
  <2> QED
    BY <1>4, <2>2, <2>3
<1>7. ASSUME NEW w \in Voice, FreeVoice(w) PROVE InUse(c)' = InUse(c)
  <2>1. voice[w].chan # c /\ voice'[w] = None /\ \A v \in Voice \ {w} : voice'[v] = voice[v]
    BY <1>7 DEF FreeVoice, TypeOK
  <2> QED
    BY <1>4, <2>1
<1>8. ASSUME NEW r \in RegionInst, HandBackRegion(r) PROVE UNCHANGED voice
  BY <1>8 DEF HandBackRegion
<1>9. ASSUME NEW e \in Channel, NEW d \in Channel, ToBeUpdated(e, d) \/ Updated(e, d)
      PROVE  UNCHANGED voice \/ DropVoices(d)
  BY <1>9 DEF ToBeUpdated, Updated
<1>10. ASSUME NEW d \in Channel, Reset(d) PROVE DropVoices(d)
  BY <1>10 DEF Reset
<1> QED
  BY <1>0, <1>1, <1>2, <1>3, <1>5, <1>6, <1>7, <1>8, <1>9, <1>10, VoiceMoves

\* The regions that are listed are in memory as long as the channel has borrowed them.
ListSound(c, used) == /\ IsFiniteSet(used)
                      /\ \A u \in used : u[2][1] = gig.file => Consumer(c)

LEMMA ListsSound ==
  ASSUME TypeOK
  PROVE  UsedInv <=> \A c \in Channel :
           /\ OldCmd(c).used # {} => /\ pc[c] \in {"clear", "handback"} /\ Switched(c)
                                     /\ OldCmd(c).inst # None
           /\ Now(c).used # {} => ~Now(c).change /\ locked[c] = {} /\ Now(c).inst # None
           /\ ListSound(c, Now(c).used) /\ ListSound(c, OldCmd(c).used)
           /\ ~Now(c).change /\ locked[c] = {} => Listed(c, Now(c).used)
           /\ pc[c] = "clear" /\ Committed(c) => Listed(c, OldCmd(c).used)
<1>1. ASSUME NEW c \in Channel
      PROVE  (\A k \in {0, 1} : ListSound(c, cmd[c].copy[k].used))
               <=> ListSound(c, Now(c).used) /\ ListSound(c, OldCmd(c).used)
  <2>1. /\ cmd[c].cur \in {0, 1} /\ Other(c) \in {0, 1}
        /\ \A k \in {0, 1} : k = cmd[c].cur \/ k = Other(c)
    BY CopyTypes
  <2> QED
    BY <2>1 DEF Now, OldCmd
<1> QED
  BY <1>1 DEF UsedInv, ListSound

\* A list stays sound, unless the channel hands its instrument back.
LEMMA SoundStays ==
  ASSUME TypeOK, FilesInv, BornInv, EntryInv, LoaderInv, Step, NEW c \in Channel, ~ HandBack(c),
         NEW used, used \in {Now(c).used, OldCmd(c).used}, ListSound(c, used)
  PROVE  ListSound(c, used)'
<1>1. cmd[c].cur \in {0, 1} /\ Other(c) \in {0, 1} /\ used \in SUBSET (Voice \X RegionInst)
  BY CopyTypes
<1>2. \A u \in used : u[2][1] <= gig.made /\ u[2][1] \in Files
  <2>1. \A u \in used : u[2] \in RegionInst
    BY <1>1
  <2> QED
    BY <1>1, <2>1 DEF BornInv, Now, OldCmd, RegionInst
<1>3. gig.made \in Nat /\ \A f \in Files : f \in Nat /\ f # 0
  BY DEF TypeOK, Files
<1>4. gig'.file \in {0, gig.file, gig.made + 1}
  BY FileMoves
<1>5. \A u \in used : u[2][1] = gig'.file => u[2][1] = gig.file
  BY <1>2, <1>3, <1>4
<1>6. Consumer(c) => Consumer(c)'
  BY ConsumerSame
<1> QED
  BY <1>5, <1>6 DEF ListSound

\* Unless a step is one of the loader of the channel or of its cycles, its lists stay.
LEMMA Used_Others ==
  ASSUME TypeOK, TypeOK', FilesInv, BornInv, EntryInv, LoaderInv, CmdInv, UsedInv, Step,
         NEW c \in Channel, ~ Own(c), ~ BeginCycle(c), ~ EndCycle(c)
  PROVE  /\ OldCmd(c)'.used # {} => /\ pc'[c] \in {"clear", "handback"} /\ Switched(c)'
                                    /\ OldCmd(c)'.inst # None
         /\ Now(c)'.used # {} => ~ Now(c)'.change /\ locked'[c] = {} /\ Now(c)'.inst # None
         /\ ListSound(c, Now(c).used)' /\ ListSound(c, OldCmd(c).used)'
         /\ ~ Now(c)'.change /\ locked'[c] = {} => Listed(c, Now(c).used)'
         /\ pc'[c] = "clear" /\ Committed(c)' => Listed(c, OldCmd(c).used)'
<1>1. /\ OldCmd(c).used # {} => /\ pc[c] \in {"clear", "handback"} /\ Switched(c)
                                /\ OldCmd(c).inst # None
      /\ Now(c).used # {} => ~ Now(c).change /\ locked[c] = {} /\ Now(c).inst # None
      /\ ListSound(c, Now(c).used) /\ ListSound(c, OldCmd(c).used)
      /\ ~ Now(c).change /\ locked[c] = {} => Listed(c, Now(c).used)
      /\ pc[c] = "clear" /\ Committed(c) => Listed(c, OldCmd(c).used)
  BY ListsSound
<1>2. pc'[c] = pc[c] /\ cmd'[c] = cmd[c] /\ Other(c)' = Other(c)
  BY OthersSteps
<1>3. Now(c)' = Now(c) /\ OldCmd(c)' = OldCmd(c)
  BY <1>2, SameCmd
<1>4. locked'[c] = locked[c]
  BY PlayedMoves
<1>5. Switched(c)' = Switched(c) /\ (Committed(c)' <=> Committed(c))
  BY <1>2, <1>3, <1>4 DEF Switched, Committed
<1>6. ~ HandBack(c)
  BY DEF Own
<1>7. \A used : used \in {Now(c).used, OldCmd(c).used} /\ ListSound(c, used) => ListSound(c, used)'
  BY <1>6, SoundStays
<1>8. ListSound(c, Now(c).used)' /\ ListSound(c, OldCmd(c).used)'
  BY <1>1, <1>3, <1>7 DEF ListSound
<1>9. ASSUME locked[c] = {}
      PROVE  \A used : Listed(c, used) => Listed(c, used)'
  BY <1>9, InUseKept DEF Listed
<1>10. pc[c] = "clear" /\ Committed(c) => locked[c] = {}
  <2>1. cmd[c].cur \in locked[c] => ~ Now(c).change
    BY DEF CmdInv
  <2>2. locked[c] \in {{}, {cmd[c].cur}, {Other(c)}}
    BY CopyTypes
  <2> QED
    BY <2>1, <2>2 DEF Committed, Switched
<1>11. ~ Now(c)'.change /\ locked'[c] = {} => Listed(c, Now(c).used)'
  BY <1>1, <1>3, <1>4, <1>9 DEF Listed
<1>12. pc'[c] = "clear" /\ Committed(c)' => Listed(c, OldCmd(c).used)'
  BY <1>1, <1>2, <1>3, <1>5, <1>9, <1>10 DEF Listed
<1> QED
  BY <1>1, <1>2, <1>3, <1>4, <1>5, <1>8, <1>11, <1>12

\* The lists of every channel
LEMMA Used_Step ==
  ASSUME TypeOK, TypeOK', FilesInv, BornInv, EntryInv, LoaderInv, CmdInv, PlayedInv, VoiceInv,
         UsedInv, Orderly, Step
  PROVE  UsedInv'
<1> SUFFICES ASSUME NEW c \in Channel
    PROVE  /\ OldCmd(c)'.used # {} => /\ pc'[c] \in {"clear", "handback"} /\ Switched(c)'
                                      /\ OldCmd(c)'.inst # None
           /\ Now(c)'.used # {} => ~ Now(c)'.change /\ locked'[c] = {} /\ Now(c)'.inst # None
           /\ ListSound(c, Now(c).used)' /\ ListSound(c, OldCmd(c).used)'
           /\ ~ Now(c)'.change /\ locked'[c] = {} => Listed(c, Now(c).used)'
           /\ pc'[c] = "clear" /\ Committed(c)' => Listed(c, OldCmd(c).used)'
  <2>1. (UsedInv <=> \A c \in Channel :
           /\ OldCmd(c).used # {} => /\ pc[c] \in {"clear", "handback"} /\ Switched(c)
                                     /\ OldCmd(c).inst # None
           /\ Now(c).used # {} => ~Now(c).change /\ locked[c] = {} /\ Now(c).inst # None
           /\ ListSound(c, Now(c).used) /\ ListSound(c, OldCmd(c).used)
           /\ ~Now(c).change /\ locked[c] = {} => Listed(c, Now(c).used)
           /\ pc[c] = "clear" /\ Committed(c) => Listed(c, OldCmd(c).used))'
    BY ListsSound, PTL
  <2> QED
    BY <2>1
<1> USE DEF audio, manager, loader, bounds
<1>1. /\ OldCmd(c).used # {} => /\ pc[c] \in {"clear", "handback"} /\ Switched(c)
                                /\ OldCmd(c).inst # None
      /\ Now(c).used # {} => ~ Now(c).change /\ locked[c] = {} /\ Now(c).inst # None
      /\ ListSound(c, Now(c).used) /\ ListSound(c, OldCmd(c).used)
      /\ ~ Now(c).change /\ locked[c] = {} => Listed(c, Now(c).used)
      /\ pc[c] = "clear" /\ Committed(c) => Listed(c, OldCmd(c).used)
  BY ListsSound
<1>2. /\ cmd[c].cur \in locked[c] => ~ Now(c).change
      /\ Other(c) \in locked[c] => /\ Now(c).change /\ pc[c] \in {"clear", "finish"}
                                   /\ pc[c] = "finish" => played[c] = None
      /\ ~ Now(c).change /\ Now(c).inst = None => played[c] = None
      /\ pc[c] = "clear" /\ OldCmd(c).inst = None => played[c] = None
      /\ pc[c] \in Midway => Now(c).inst = None
  BY DEF CmdInv, LoaderInv
<1>3. locked[c] \in {{}, {cmd[c].cur}, {Other(c)}} /\ cmd[c].cur # Other(c)
  BY CopyTypes
<1>4. ASSUME ~ HandBack(c)
      PROVE  \A used : used \in {Now(c).used, OldCmd(c).used} => ListSound(c, used)'
  BY <1>1, <1>4, SoundStays
<1>5. ListSound(c, {})'
  BY FS_EmptySet DEF ListSound
<1>6. CASE (\E i \in Index : LoadInstrument(c, i)) \/ UseInstrument(c) \/ UnloadInstrument(c)
  <2>1. /\ cmd'[c].cur = Other(c) /\ Other(c)' = cmd[c].cur /\ OldCmd(c)' = Now(c)
        /\ Now(c)'.change /\ Now(c)'.used = OldCmd(c).used
        /\ pc[c] = IF UseInstrument(c) THEN "change" ELSE "idle"
        /\ pc'[c] = IF \E i \in Index : LoadInstrument(c, i) THEN "clear" ELSE "finish"
    BY <1>6, OwnChange
  <2>2. OldCmd(c).used = {}
    BY <1>1, <2>1
  <2>3. UNCHANGED <<locked, voice>>
    BY <1>6 DEF LoadInstrument, UseInstrument, UnloadInstrument
  <2>4. ListSound(c, Now(c).used)' /\ ListSound(c, OldCmd(c).used)'
    <3>1. ~ HandBack(c)
      BY <2>1 DEF HandBack
    <3> QED
      BY <1>4, <1>5, <2>1, <2>2, <3>1 DEF ListSound
  <2>5. ASSUME \E i \in Index : LoadInstrument(c, i)
        PROVE  ~ Now(c).change /\ UNCHANGED upset
    BY <2>5 DEF Orderly, LoadInstrument, AtRest, Now
  <2>6. OldCmd(c)'.used # {} => /\ pc'[c] = "clear" /\ locked[c] = {} /\ OldCmd(c)'.inst # None
    <3>1. (UseInstrument(c) => pc[c] \in Midway) /\ (UnloadInstrument(c) => Now(c).inst = None)
      BY <2>1 DEF Orderly, Empty, Now, Midway
    <3> QED
      BY <1>1, <1>2, <1>6, <2>1, <3>1
  <2>7. OldCmd(c)'.used # {} => Switched(c)'
    BY <2>3, <2>6 DEF Switched
  <2>8. ASSUME pc'[c] = "clear", Committed(c)' PROVE Listed(c, OldCmd(c).used)'
    <3>1. \E i \in Index : LoadInstrument(c, i)
      BY <2>1, <2>8
    <3>2. cmd[c].cur \notin locked[c]
      BY <2>1, <2>3, <2>8 DEF Committed, Switched
    <3>3. locked[c] = {}
      BY <1>2, <1>3, <2>5, <3>1, <3>2
    <3>4. Listed(c, Now(c).used)
      BY <1>1, <2>5, <3>1, <3>3
    <3>5. InUse(c)' = InUse(c)
      BY <2>3 DEF InUse, VoicesOf
    <3> QED
      BY <2>1, <2>5, <3>1, <3>4, <3>5 DEF Listed
  <2> QED
    BY <2>1, <2>2, <2>4, <2>6, <2>7, <2>8
<1>7. CASE HandBackInstrument(c) \/ NothingToHandBack(c) \/ HandBack(c) \/ BorrowNew(c)
           \/ BorrowFails(c) \/ BorrowExisting(c) \/ UpdateDestroys(c) \/ UpdateCreates(c)
           \/ UpdateEnds(c) \/ Finish(c)
  <2>1. /\ cmd'[c].cur = cmd[c].cur /\ Other(c)' = Other(c) /\ Now(c)' = Now(c)
        /\ OldCmd(c)'.inst = OldCmd(c).inst
        /\ OldCmd(c)'.used = IF NothingToHandBack(c) \/ HandBack(c) THEN {} ELSE OldCmd(c).used
        /\ pc'[c] # "clear"
    BY <1>7, OwnMiddle
  <2>2. UNCHANGED <<locked, voice, upset>>
    BY <1>7, OwnLocal DEF Own, HandBackInstrument, NothingToHandBack, HandBack, BorrowNew,
       BorrowFails, BorrowExisting, UpdateDestroys, UpdateCreates, UpdateEnds, Finish
  <2>3. OldCmd(c)'.used # {} => pc[c] \in {"clear", "handback"} /\ HandBackInstrument(c)
    BY <1>1, <1>7, <2>1 DEF BorrowNew,
       BorrowFails, BorrowExisting, UpdateDestroys, UpdateCreates, UpdateEnds, Finish
  <2>4. HandBackInstrument(c) => pc'[c] = "handback"
    BY DEF HandBackInstrument, TypeOK
  <2>5. ListSound(c, Now(c).used)' /\ ListSound(c, OldCmd(c).used)'
    <3>1. CASE HandBack(c)
      <4>1. Now(c).used = {}
        BY <1>1, <1>2, <3>1 DEF HandBack, Midway
      <4> QED
        BY <1>5, <2>1, <3>1, <4>1 DEF ListSound
    <3>2. CASE ~ HandBack(c)
      BY <1>4, <1>5, <2>1, <3>2 DEF ListSound
    <3> QED
      BY <3>1, <3>2
  <2>6. InUse(c)' = InUse(c)
    BY <2>2 DEF InUse, VoicesOf
  <2>7. ~ Now(c)'.change /\ locked'[c] = {} => Listed(c, Now(c).used)'
    BY <1>1, <2>1, <2>2, <2>6 DEF Listed
  <2>8. OldCmd(c)'.used # {} => Switched(c)' /\ OldCmd(c)'.inst # None
    BY <1>1, <2>1, <2>2, <2>3 DEF Switched
  <2> QED
    BY <1>1, <2>1, <2>2, <2>3, <2>4, <2>5, <2>7, <2>8
<1>8. CASE BeginCycle(c)
  <2>1. /\ cmd'[c].cur = cmd[c].cur /\ Other(c)' = Other(c) /\ OldCmd(c)' = OldCmd(c)
        /\ ~ Now(c)'.change /\ Now(c)'.used = {}
    BY <1>8, BeginFacts
  <2>2. locked'[c] = {cmd[c].cur} /\ UNCHANGED pc
    BY <1>8 DEF BeginCycle, TypeOK
  <2>3. ~ HandBack(c)
    BY <2>2 DEF TypeOK, HandBack
  <2>4. ListSound(c, Now(c).used)' /\ ListSound(c, OldCmd(c).used)'
    BY <1>4, <1>5, <2>1, <2>3 DEF ListSound
  <2>5. Switched(c)' /\ ~ Committed(c)'
    BY <1>3, <2>1, <2>2 DEF Switched, Committed
  <2> QED
    BY <1>1, <2>1, <2>2, <2>4, <2>5
<1>9. CASE EndCycle(c)
  <2>1. /\ cmd'[c].cur = cmd[c].cur /\ Other(c)' = Other(c)
        /\ Now(c)'.inst = Now(c).inst /\ Now(c)'.change = Now(c).change
        /\ Now(c)'.used = IF cmd[c].cur \in locked[c] THEN InUse(c) ELSE Now(c).used
        /\ OldCmd(c)'.inst = OldCmd(c).inst
        /\ OldCmd(c)'.used = IF Other(c) \in locked[c] THEN InUse(c) ELSE OldCmd(c).used
    BY <1>9, EndFacts
  <2>2. /\ locked[c] # {} /\ locked'[c] = {}
        /\ UNCHANGED <<pc, voice, entry, gig, upset>>
    BY <1>9 DEF EndCycle, TypeOK
  <2>3. ~ HandBack(c)
    BY <2>2, <1>9 DEF EndCycle, HandBack
  <2>4. InUse(c)' = InUse(c) /\ Switched(c)'
    BY <2>2 DEF InUse, VoicesOf, Switched
  <2>5. ListSound(c, InUse(c))'
    <3>1. IsFiniteSet(InUse(c)) /\ \A u \in InUse(c) : u[2][1] = gig.file => Consumer(c)
      BY <2>2, InUseFacts, VoiceTypes
    <3> QED
      BY <2>2, <2>4, <3>1 DEF ListSound, Consumer
  <2>6. ListSound(c, Now(c).used)' /\ ListSound(c, OldCmd(c).used)'
    BY <1>4, <2>1, <2>3, <2>4, <2>5 DEF ListSound
  <2>7. InUse(c) # {} => played[c] # None
    BY InUseFacts
  <2>8. CASE locked[c] = {cmd[c].cur}
    <3>1. ~ Now(c)'.change /\ ~ Committed(c)'
      BY <1>2, <2>1, <2>8 DEF Committed
    <3>2. Listed(c, Now(c).used)'
      BY <2>1, <2>4, <2>8 DEF Listed
    <3> QED
      BY <1>1, <1>2, <1>3, <2>1, <2>2, <2>4, <2>6, <2>7, <2>8, <3>1, <3>2
  <2>9. CASE locked[c] = {Other(c)}
    <3>1. Now(c)'.change /\ Now(c)'.used = {} /\ pc[c] \in {"clear", "finish"}
      BY <1>1, <1>2, <1>3, <2>1, <2>9
    <3>2. InUse(c) # {} => pc[c] = "clear" /\ OldCmd(c).inst # None
      BY <1>2, <2>7, <2>9
    <3>3. Listed(c, OldCmd(c).used)'
      BY <2>1, <2>4, <2>9 DEF Listed
    <3> QED
      BY <2>1, <2>2, <2>4, <2>6, <2>9, <3>1, <3>2, <3>3
  <2> QED
    BY <1>3, <2>2, <2>8, <2>9
<1>10. CASE ~ Own(c) /\ ~ BeginCycle(c) /\ ~ EndCycle(c)
  BY <1>10, Used_Others
<1>11. Own(c) => \/ (\E i \in Index : LoadInstrument(c, i)) \/ UseInstrument(c) \/ UnloadInstrument(c)
                 \/ HandBackInstrument(c) \/ NothingToHandBack(c) \/ HandBack(c) \/ BorrowNew(c)
                 \/ BorrowFails(c) \/ BorrowExisting(c) \/ UpdateDestroys(c) \/ UpdateCreates(c)
                 \/ UpdateEnds(c) \/ Finish(c)
  BY DEF Own
<1> QED
  BY <1>6, <1>7, <1>8, <1>9, <1>10, <1>11

-----------------------------------------------------------------------------
(* What is owed *)

\* While the last instrument of the file is destroyed, its consumers are at rest.
LEMMA DyingFacts ==
  ASSUME TypeOK, EntryInv, LoaderInv, UpdateInv
  PROVE  \A x \in Channel : Dying /\ Consumer(x) =>
           pc[x] = "cleanup" \/ (Resting(x) /\ Stopped(x))
<1> SUFFICES ASSUME NEW d \in Channel, Dying, Consumer(d)
             PROVE  pc[d] = "cleanup" \/ (Resting(d) /\ Stopped(d))
  OBVIOUS
<1>1. PICK e \in Channel : pc[e] = "cleanup" /\ LastUser(gig, want[e])
  BY DEF Dying
<1>2. PICK i \in Index : d \in entry[i].users
  BY DEF Consumer
<1>3. i = want[e]
  BY <1>1, <1>2 DEF EntryInv, LastUser
<1>4. \A x \in entry[want[e]].users \ {e} : Resting(x) /\ Stopped(x)
  BY <1>1 DEF LoaderInv, Updating, UpdateInv
<1> QED
  BY <1>1, <1>2, <1>3, <1>4

LEMMA DyingFactsNext ==
  ASSUME TypeOK', EntryInv', LoaderInv', UpdateInv'
  PROVE  (\A x \in Channel : Dying /\ Consumer(x) =>
            pc[x] = "cleanup" \/ (Resting(x) /\ Stopped(x)))'
BY DyingFacts, PTL

\* The list of a channel that has not been counted yet
Owing(c) == IF pc[c] = "clear" THEN OldCmd(c).used ELSE {}

LEMMA OwedIs ==
  \A o : o \in Owed <=> \E c \in Channel : \E u : o = <<c, u>> /\ u \in Owing(c)
<1>1. ASSUME NEW o, o \in Owed
      PROVE  \E c \in Channel : \E u : o = <<c, u>> /\ u \in Owing(c)
  <2>1. PICK c \in {d \in Channel : pc[d] = "clear"} : o \in {c} \X OldCmd(c).used
    BY <1>1 DEF Owed
  <2>2. PICK u \in OldCmd(c).used : o = <<c, u>>
    BY <2>1
  <2> QED
    BY <2>1, <2>2 DEF Owing
<1>2. ASSUME NEW c \in Channel, NEW u, u \in Owing(c)
      PROVE  <<c, u>> \in Owed
  <2>1. pc[c] = "clear" /\ u \in OldCmd(c).used
    BY <1>2 DEF Owing
  <2>2. c \in {d \in Channel : pc[d] = "clear"} /\ <<c, u>> \in {c} \X OldCmd(c).used
    BY <2>1
  <2> QED
    BY <2>2 DEF Owed
<1> QED
  BY <1>1, <1>2

\* As long as a list is not counted, the file of its regions stays open.
LEMMA AliveKept ==
  ASSUME TypeOK, TypeOK', FilesInv, EntryInv, EntryInv', LoaderInv, LoaderInv',
         UpdateInv, UpdateInv', Step,
         NEW d \in Channel, pc[d] = "clear", Consumer(d), NEW f, Alive(f)
  PROVE  Alive(f)'
<1>1. f = gig.file /\ f # 0 /\ ~ Dying
  BY DEF Alive
<1>2. PICK j \in Index : d \in entry[j].users
  BY DEF Consumer
<1>3. entry[j].res = <<gig.file, j>> /\ entry[j].res # None
  BY <1>2 DEF EntryInv
<1>4. ~ HandBack(d)
  BY DEF HandBack
<1>5. \A e \in Channel : UpdateCreates(e) => d \notin entry[want[e]].users
  BY CreatedFor DEF Resting
<1>6. Uses(d, <<gig.file, j>>)
  BY <1>2, <1>3 DEF Uses
<1>7. \A x : x = <<gig.file, j>> => Uses(d, x)'
  BY <1>3, <1>4, <1>5, <1>6, UsesKept
<1>8. PICK i \in Index : entry'[i].res = <<gig.file, j>> /\ d \in entry'[i].users
  BY <1>7 DEF Uses
<1>9. gig'.file = gig.file /\ Consumer(d)'
  BY <1>3, <1>8 DEF EntryInv, Consumer
<1>10. pc'[d] \in {"clear", "handback", "borrow"}
  <2>1. CASE Own(d)
    BY <2>1 DEF Own, TypeOK, LoadInstrument, HandBackInstrument, NothingToHandBack, HandBack,
       BorrowNew, BorrowFails, BorrowExisting, UpdateDestroys, UpdateCreates, UpdateEnds,
       UseInstrument, Finish, UnloadInstrument
  <2>2. CASE ~ Own(d)
    BY <2>2, OthersSteps
  <2> QED
    BY <2>1, <2>2
<1>11. (\A x \in Channel : Dying /\ Consumer(x) => pc[x] = "cleanup" \/ (Resting(x) /\ Stopped(x)))'
  BY DyingFactsNext
<1>12. ~ Dying'
  BY <1>9, <1>10, <1>11 DEF Resting
<1> QED
  BY <1>1, <1>9, <1>12 DEF Alive

\* The uses that are counted are finitely many.
LEMMA FiniteUses ==
  ASSUME TypeOK, UsedInv, IsFiniteSet(OrdersIn(RegionInst))
  PROVE  \A Q : /\ IsFiniteSet(OrdersIn(Q)) /\ Cardinality(OrdersIn(Q)) \in Nat
                /\ IsFiniteSet(VoicesIn(Q)) /\ Cardinality(VoicesIn(Q)) \in Nat
                /\ IsFiniteSet(OwedIn(Q)) /\ Cardinality(OwedIn(Q)) \in Nat
                /\ IsFiniteSet(LiveOwed(Q)) /\ Cardinality(LiveOwed(Q)) \in Nat
                /\ LiveOwed(Q) \subseteq OwedIn(Q) /\ Needed(Q) \in Nat
<1> SUFFICES ASSUME NEW Q
      PROVE  /\ IsFiniteSet(OrdersIn(Q)) /\ IsFiniteSet(VoicesIn(Q))
             /\ IsFiniteSet(OwedIn(Q)) /\ IsFiniteSet(LiveOwed(Q))
             /\ LiveOwed(Q) \subseteq OwedIn(Q)
  BY FS_CardinalityType DEF Needed
<1>1. IsFiniteSet(OrdersIn(Q))
  <2>1. OrdersIn(Q) \subseteq OrdersIn(RegionInst)
    BY DEF OrdersIn
  <2> QED
    BY <2>1, FS_Subset
<1>2. IsFiniteSet(VoicesIn(Q))
  <2>1. VoicesIn(Q) \subseteq Voice
    BY DEF VoicesIn
  <2> QED
    BY <2>1, FS_Subset, FiniteAssumption
<1>3. IsFiniteSet(Owed)
  <2> DEFINE C == {d \in Channel : pc[d] = "clear"}
             L == {{c} \X OldCmd(c).used : c \in C}
             l == [c \in C |-> {c} \X OldCmd(c).used]
  <2>1. IsFiniteSet(C)
    BY FS_Subset, FiniteAssumption
  <2>2. IsFiniteSet(L)
    <3>1. l \in Surjection(C, L)
      BY DEF Surjection
    <3> QED
      BY <2>1, <3>1, FS_Surjection
  <2>3. \A x \in L : IsFiniteSet(x)
    <3> SUFFICES ASSUME NEW c \in C PROVE IsFiniteSet({c} \X OldCmd(c).used)
      OBVIOUS
    <3>1. IsFiniteSet(OldCmd(c).used)
      BY CopyTypes DEF UsedInv, OldCmd
    <3>2. IsFiniteSet({c})
      BY FS_Singleton
    <3> QED
      BY <3>1, <3>2, FS_Product
  <2> QED
    BY <2>2, <2>3, FS_UNION DEF Owed
<1>4. OwedIn(Q) \subseteq Owed /\ LiveOwed(Q) \subseteq OwedIn(Q)
  BY DEF OwedIn, LiveOwed
<1> QED
  BY <1>1, <1>2, <1>3, <1>4, FS_Subset

\* A channel whose command stays as it is
LEMMA SameChannel ==
  ASSUME NEW d, cmd'[d] = cmd[d], pc'[d] = pc[d], locked'[d] = locked[d]
  PROVE  Owing(d)' = Owing(d) /\ (Committed(d)' <=> Committed(d))
<1>1. Now(d)' = Now(d) /\ OldCmd(d)' = OldCmd(d) /\ Other(d)' = Other(d)
  BY SameCmd
<1> QED
  BY <1>1 DEF Owing, Committed, Switched

LEMMA DisownedIs ==
  \A x : Disowned(x) <=> voice[x].orphan \/ Committed(voice[x].chan)
BY DEF Disowned, Committed, Now

\* The lists that stay owed
LEMMA SameOwed ==
  ASSUME \A d \in Channel : Owing(d)' = Owing(d)
  PROVE  Owed' = Owed
<1>1. (\A o : o \in Owed <=> \E c \in Channel : \E u : o = <<c, u>> /\ u \in Owing(c))'
  BY OwedIs, PTL
<1>2. \A o : o \in Owed' <=> o \in Owed
  BY <1>1, OwedIs
<1> QED
  BY <1>2

\* The voices that stay disowned
LEMMA SameVoices ==
  ASSUME UNCHANGED voice, TypeOK,
         \A v \in Voice : voice[v] # None /\ ~ voice[v].orphan =>
           (Committed(voice[v].chan)' <=> Committed(voice[v].chan))
  PROVE  \A Q : VoicesIn(Q)' = VoicesIn(Q)
<1>1. (\A x : Disowned(x) <=> voice[x].orphan \/ Committed(voice[x].chan))'
  BY DisownedIs, PTL
<1>2. ASSUME NEW v \in Voice, voice[v] # None PROVE Disowned(v)' <=> Disowned(v)
  BY <1>1, <1>2, DisownedIs
<1> QED
  BY <1>2 DEF VoicesIn

\* What is owed of an open file stays so until it is counted.
LEMMA LiveStays ==
  ASSUME TypeOK, TypeOK', FilesInv, EntryInv, EntryInv', LoaderInv, LoaderInv',
         UpdateInv, UpdateInv', UsedInv, Step
  PROVE  \A o \in Owed : Alive(o[2][2][1]) => Alive(o[2][2][1])'
<1> SUFFICES ASSUME NEW c \in Channel, NEW u, u \in Owing(c), Alive(u[2][1])
             PROVE  Alive(u[2][1])'
  BY OwedIs
<1>1. pc[c] = "clear" /\ u \in OldCmd(c).used
  BY DEF Owing
<1>2. u[2][1] = gig.file
  BY DEF Alive
<1>3. Consumer(c)
  BY <1>1, <1>2, CopyTypes DEF UsedInv, OldCmd
<1> QED
  BY <1>1, <1>3, AliveKept

-----------------------------------------------------------------------------
(* What the steps do to the uses of regions *)

\* Orders, voices and lists stay as they are.
UsesStay == /\ \A Q : VoicesIn(Q)' = VoicesIn(Q) /\ OrdersIn(Q)' = OrdersIn(Q)
            /\ Owed' = Owed

\* A list is taken over by the loader, to be counted.
Takes(c) == \/ (\E i \in Index : LoadInstrument(c, i)) /\ locked[c] = {}
            \/ EndCycle(c) /\ Other(c) \in locked[c] /\ pc[c] = "clear"

LEMMA SameOrders == UNCHANGED ordered => \A Q : OrdersIn(Q)' = OrdersIn(Q)
BY DEF OrdersIn

\* The steps of a loader that neither take a list nor count it
LEMMA UsesStay_Own ==
  ASSUME TypeOK, LoaderInv, CmdInv, VoiceInv, UsedInv, Orderly, NEW c \in Channel, Own(c),
         ~ HandBackInstrument(c), ~ Takes(c)
  PROVE  UsesStay
<1> USE DEF audio, manager, loader, bounds
<1>1. UNCHANGED <<voice, ordered, locked>>
  BY OwnLocal
<1>2. \A d \in Channel \ {c} : Owing(d)' = Owing(d) /\ (Committed(d)' <=> Committed(d))
  <2> SUFFICES ASSUME NEW d \in Channel \ {c}
               PROVE  Owing(d)' = Owing(d) /\ (Committed(d)' <=> Committed(d))
    OBVIOUS
  <2>1. cmd'[d] = cmd[d] /\ pc'[d] = pc[d] /\ locked'[d] = locked[d]
    BY <1>1, OwnLocal
  <2> QED
    BY <2>1, SameChannel
<1>3. /\ OldCmd(c).used # {} => /\ pc[c] \in {"clear", "handback"} /\ Switched(c)
                                /\ OldCmd(c).inst # None
      /\ Now(c).used # {} => ~ Now(c).change /\ locked[c] = {}
      /\ Other(c) \in locked[c] => Now(c).change
      /\ ~ Now(c).change /\ Now(c).inst = None => played[c] = None
      /\ pc[c] \in Midway => Now(c).inst = None
  BY DEF UsedInv, CmdInv, LoaderInv
<1>4. locked[c] \in {{}, {cmd[c].cur}, {Other(c)}} /\ cmd[c].cur # Other(c)
  BY CopyTypes
<1>5. ASSUME Owing(c)' = Owing(c), played[c] = None \/ (Committed(c)' <=> Committed(c))
      PROVE  UsesStay
  <2>1. \A v \in Voice : voice[v] # None /\ ~ voice[v].orphan =>
          (Committed(voice[v].chan)' <=> Committed(voice[v].chan))
    <3>1. \A v \in Voice : voice[v] # None => voice[v].chan \in Channel
      BY VoiceTypes
    <3> QED
      BY <1>1, <1>2, <1>5, <3>1 DEF VoiceInv
  <2>2. \A Q : VoicesIn(Q)' = VoicesIn(Q)
    BY <1>1, <2>1, SameVoices
  <2>3. Owed' = Owed
    BY <1>2, <1>5, SameOwed
  <2> QED
    BY <1>1, <2>2, <2>3, SameOrders DEF UsesStay
<1>6. CASE (\E i \in Index : LoadInstrument(c, i)) \/ UseInstrument(c) \/ UnloadInstrument(c)
  <2>1. /\ cmd'[c].cur = Other(c) /\ Other(c)' = cmd[c].cur /\ OldCmd(c)' = Now(c)
        /\ Now(c)'.change
        /\ pc[c] = IF UseInstrument(c) THEN "change" ELSE "idle"
        /\ pc'[c] = IF \E i \in Index : LoadInstrument(c, i) THEN "clear" ELSE "finish"
    BY <1>6, OwnChange
  <2>2. CASE \E i \in Index : LoadInstrument(c, i)
    <3>1. ~ Now(c).change /\ locked[c] = {cmd[c].cur}
      BY <1>3, <1>4, <2>2 DEF Orderly, LoadInstrument, AtRest, Now, Takes
    <3>2. Owing(c)' = {} /\ Owing(c) = {}
      <4>1. pc[c] = "idle"
        BY <2>2 DEF LoadInstrument
      <4> QED
        BY <1>3, <2>1, <2>2, <3>1, <4>1 DEF Owing
    <3>3. ~ Committed(c)' /\ ~ Committed(c)
      BY <1>1, <2>1, <2>2, <3>1 DEF Committed, Switched
    <3> QED
      BY <1>5, <3>2, <3>3
  <2>3. CASE UnloadInstrument(c)
    <3>1. ~ Now(c).change /\ Now(c).inst = None /\ pc[c] = "idle" /\ pc'[c] = "finish"
      BY <2>3 DEF Orderly, UnloadInstrument, AtRest, Empty, Now, TypeOK
    <3>2. played[c] = None /\ Owing(c)' = Owing(c)
      BY <1>3, <3>1 DEF Owing
    <3> QED
      BY <1>5, <3>2
  <2>4. CASE UseInstrument(c)
    <3>1. pc[c] = "change" /\ pc'[c] = "finish" /\ Now(c).inst = None
      BY <1>3, <2>4 DEF UseInstrument, TypeOK, Midway
    <3>2. Owing(c)' = Owing(c)
      BY <3>1 DEF Owing
    <3>3. Committed(c)' /\ (Now(c).change => Committed(c))
      BY <2>1, <3>1 DEF Committed
    <3> QED
      BY <1>3, <1>5, <3>1, <3>2, <3>3 DEF Committed
  <2> QED
    BY <1>6, <2>2, <2>3, <2>4
<1>7. CASE NothingToHandBack(c) \/ HandBack(c) \/ BorrowNew(c)
           \/ BorrowFails(c) \/ BorrowExisting(c) \/ UpdateDestroys(c) \/ UpdateCreates(c)
           \/ UpdateEnds(c) \/ Finish(c)
  <2>1. /\ Other(c)' = Other(c) /\ Now(c)' = Now(c)
        /\ pc'[c] # "clear"
    BY <1>7, OwnMiddle
  <2>2. pc[c] = "clear" => Switched(c) /\ OldCmd(c).inst = None
    BY <1>7 DEF NothingToHandBack, HandBack, BorrowNew,
       BorrowFails, BorrowExisting, UpdateDestroys, UpdateCreates, UpdateEnds, Finish
  <2>3. Owing(c)' = {} /\ Owing(c) = {}
    BY <1>3, <2>1, <2>2 DEF Owing
  <2>4. Committed(c)' <=> Committed(c)
    BY <2>1, <2>2 DEF Committed
  <2> QED
    BY <1>5, <2>3, <2>4
<1> QED
  BY <1>6, <1>7 DEF Own

\* A cycle begins: the voices of a channel that is to change become orphans.
LEMMA UsesStay_Begin ==
  ASSUME TypeOK, NEW c \in Channel, BeginCycle(c)
  PROVE  UsesStay
<1> USE DEF audio, manager, loader, bounds
<1>1. UNCHANGED <<ordered, pc>> /\ locked[c] = {} /\ \A d \in Channel \ {c} : locked'[d] = locked[d]
  BY DEF BeginCycle, TypeOK
<1>2. \A d \in Channel \ {c} : Owing(d)' = Owing(d) /\ (Committed(d)' <=> Committed(d))
  BY <1>1, BeginFacts, SameChannel
<1>3. OldCmd(c)' = OldCmd(c) /\ Now(c)' = [inst |-> Now(c).inst, change |-> FALSE, used |-> {}]
  BY BeginFacts
<1>4. Owing(c)' = Owing(c)
  BY <1>1, <1>3 DEF Owing
<1>5. ~ Committed(c)' /\ (Committed(c) <=> Now(c).change)
  <2>1. Now(c).change \in BOOLEAN
    BY CopyTypes
  <2> QED
    BY <1>1, <1>3, <2>1 DEF Committed, Switched
<1>6. (\A x : Disowned(x) <=> voice[x].orphan \/ Committed(voice[x].chan))'
  <2>1. TRUE
    OBVIOUS
  <2> QED
    BY DEF Disowned, Committed, Now
<1>7. ASSUME NEW v \in Voice, voice[v] # None PROVE Disowned(v)' <=> Disowned(v)
  <2>1. /\ voice'[v].chan = voice[v].chan /\ voice[v].chan \in Channel
        /\ voice'[v].orphan <=> voice[v].orphan \/ (voice[v].chan = c /\ Now(c).change)
    BY <1>7, BeginVoices, VoiceTypes
  <2> QED
    BY <1>2, <1>5, <1>6, <2>1, DisownedIs
<1>8. \A Q : VoicesIn(Q)' = VoicesIn(Q)
  BY <1>7, BeginVoices DEF VoicesIn
<1>9. Owed' = Owed
  BY <1>2, <1>4, SameOwed
<1> QED
  BY <1>1, <1>8, <1>9, SameOrders DEF UsesStay

\* A cycle ends whose list the loader does not wait for.
LEMMA UsesStay_End ==
  ASSUME TypeOK, CmdInv, NEW c \in Channel, EndCycle(c), ~ Takes(c)
  PROVE  UsesStay
<1> USE DEF audio, manager, loader, bounds
<1>1. /\ UNCHANGED <<voice, ordered, pc>> /\ locked[c] # {} /\ locked'[c] = {}
      /\ \A d \in Channel \ {c} : locked'[d] = locked[d]
  BY DEF EndCycle, TypeOK
<1>2. \A d \in Channel \ {c} : Owing(d)' = Owing(d) /\ (Committed(d)' <=> Committed(d))
  BY <1>1, EndFacts, SameChannel
<1>3. /\ Now(c)'.change = Now(c).change
      /\ OldCmd(c)'.used = IF Other(c) \in locked[c] THEN InUse(c) ELSE OldCmd(c).used
  BY EndFacts
<1>4. locked[c] \in {{}, {cmd[c].cur}, {Other(c)}} /\ cmd[c].cur # Other(c)
  BY CopyTypes
<1>5. /\ cmd[c].cur \in locked[c] => ~ Now(c).change
      /\ Other(c) \in locked[c] => Now(c).change /\ pc[c] = "finish"
  BY DEF CmdInv, Takes
<1>6. Owing(c)' = Owing(c) /\ (Committed(c)' <=> Committed(c))
  BY <1>1, <1>3, <1>4, <1>5 DEF Owing, Committed
<1>7. \A v \in Voice : voice[v] # None =>
        (Committed(voice[v].chan)' <=> Committed(voice[v].chan))
  BY <1>1, <1>2, <1>6, VoiceTypes
<1>8. (\A Q : VoicesIn(Q)' = VoicesIn(Q)) /\ Owed' = Owed
  BY <1>1, <1>2, <1>6, <1>7, SameVoices, SameOwed
<1> QED
  BY <1>1, <1>8, SameOrders DEF UsesStay

\* Commands and locks stay as they are.
LEMMA ChannelsStay ==
  ASSUME UNCHANGED <<cmd, pc, locked>>
  PROVE  /\ \A d : Owing(d)' = Owing(d) /\ (Committed(d)' <=> Committed(d))
         /\ Owed' = Owed
<1>1. \A d : Owing(d)' = Owing(d) /\ (Committed(d)' <=> Committed(d))
  BY SameChannel
<1> QED
  BY <1>1, SameOwed

\* A voice that is launched, or that ends without being an orphan, is of a channel
\* that is not about to change.
LEMMA UsesStay_Voices ==
  ASSUME TypeOK, EntryInv, CmdInv, PlayedInv, VoiceInv,
         \/ \E c \in Channel, r \in Region : LaunchVoice(c, r)
         \/ \E v \in Voice : FreeVoice(v) /\ ~ voice[v].orphan
  PROVE  UsesStay
<1> USE DEF audio, manager, loader, bounds
<1>0. (\A x : Disowned(x) <=> voice[x].orphan \/ Committed(voice[x].chan))'
  BY DisownedIs, PTL
<1>1. UNCHANGED <<cmd, pc, locked>>
  BY DEF LaunchVoice, FreeVoice
<1>2. (\A d : Committed(d)' <=> Committed(d)) /\ Owed' = Owed
  BY <1>1, ChannelsStay
<1>3. ASSUME NEW w \in Voice,
             \A v \in Voice \ {w} : voice'[v] = voice[v],
             voice[w] = None \/ ~ Disowned(w), voice'[w] = None \/ ~ Disowned(w)'
      PROVE  \A Q : VoicesIn(Q)' = VoicesIn(Q)
  <2>1. \A v \in Voice \ {w} : Disowned(v)' <=> Disowned(v)
    BY <1>0, <1>2, <1>3, DisownedIs
  <2> QED
    BY <1>3, <2>1 DEF VoicesIn
<1>4. ASSUME NEW c \in Channel, NEW r \in Region, LaunchVoice(c, r) PROVE UsesStay
  <2>1. PICK w \in Voice :
           /\ voice[w] = None
           /\ voice'[w] = [chan |-> c, region |-> <<played[c][1], r>>, orphan |-> FALSE]
           /\ \A v \in Voice \ {w} : voice'[v] = voice[v]
    BY <1>4, LaunchFacts
  <2>2. ~ Committed(c) /\ UNCHANGED ordered
    BY <1>4, InUseFacts DEF LaunchVoice
  <2>3. ~ Disowned(w)'
    BY <1>0, <1>2, <2>1, <2>2
  <2>4. \A Q : VoicesIn(Q)' = VoicesIn(Q)
    BY <1>3, <2>1, <2>3
  <2> QED
    BY <1>2, <2>2, <2>4, SameOrders DEF UsesStay
<1>5. ASSUME NEW w \in Voice, FreeVoice(w), ~ voice[w].orphan PROVE UsesStay
  <2>1. /\ voice[w] # None /\ locked[voice[w].chan] # {} /\ UNCHANGED ordered
        /\ voice'[w] = None /\ \A v \in Voice \ {w} : voice'[v] = voice[v]
    BY <1>5 DEF FreeVoice, TypeOK
  <2>2. voice[w].chan \in Channel /\ played[voice[w].chan] # None
    BY <1>5, <2>1, VoiceTypes DEF VoiceInv
  <2>3. ~ Committed(voice[w].chan)
    BY <2>1, <2>2, InUseFacts
  <2>4. ~ Disowned(w)
    BY <1>5, <2>3, DisownedIs
  <2>5. \A Q : VoicesIn(Q)' = VoicesIn(Q)
    BY <1>3, <2>1, <2>4
  <2> QED
    BY <1>2, <2>1, <2>5, SameOrders DEF UsesStay
<1> QED
  BY <1>4, <1>5

LEMMA UsesStay_Rest ==
  ASSUME TypeOK,
         \/ \E c, d \in Channel : Updated(c, d)
         \/ \E i \in Index, mode \in Mode : SetMode(i, mode)
         \/ UNCHANGED <<cmd, pc, locked, voice, ordered>>
  PROVE  UsesStay
<1> USE DEF audio, manager, loader, bounds
<1>1. UNCHANGED <<cmd, pc, locked, voice, ordered>>
  BY DEF Updated, SetMode
<1>2. (\A d : Committed(d)' <=> Committed(d)) /\ Owed' = Owed
  BY <1>1, ChannelsStay
<1>3. \A Q : VoicesIn(Q)' = VoicesIn(Q)
  BY <1>1, <1>2, SameVoices
<1> QED
  BY <1>1, <1>2, <1>3, SameOrders DEF UsesStay

-----------------------------------------------------------------------------
(* What the steps do to the balance of counts and uses *)

\* If n uses of the regions Q have been counted, and m of them after the step, then the
\* counts suffice, or are right, after the step as before.
Balances(Q, n, m) ==
  /\ n + Cardinality(LiveOwed(Q)) >= Needed(Q) =>
       m + Cardinality(LiveOwed(Q)') >= Needed(Q)'
  /\ "dropped" \notin upset' /\ n + Cardinality(OwedIn(Q)) = Needed(Q) =>
       m + Cardinality(OwedIn(Q)') = Needed(Q)'

FiniteOrders == IsFiniteSet(OrdersIn(RegionInst))

UsesFinite ==
  \A Q : /\ IsFiniteSet(OrdersIn(Q)) /\ Cardinality(OrdersIn(Q)) \in Nat
         /\ IsFiniteSet(VoicesIn(Q)) /\ Cardinality(VoicesIn(Q)) \in Nat
         /\ IsFiniteSet(OwedIn(Q)) /\ Cardinality(OwedIn(Q)) \in Nat
         /\ IsFiniteSet(LiveOwed(Q)) /\ Cardinality(LiveOwed(Q)) \in Nat
         /\ LiveOwed(Q) \subseteq OwedIn(Q) /\ Needed(Q) \in Nat

LEMMA UsesAreFinite == TypeOK /\ UsedInv /\ FiniteOrders => UsesFinite
BY FiniteUses DEF FiniteOrders, UsesFinite

LEMMA FiniteUsesNext ==
  ASSUME TypeOK', UsedInv', FiniteOrders'
  PROVE  \A Q : /\ IsFiniteSet(OrdersIn(Q)') /\ Cardinality(OrdersIn(Q)') \in Nat
                /\ IsFiniteSet(VoicesIn(Q)') /\ Cardinality(VoicesIn(Q)') \in Nat
                /\ IsFiniteSet(OwedIn(Q)') /\ Cardinality(OwedIn(Q)') \in Nat
                /\ IsFiniteSet(LiveOwed(Q)') /\ Cardinality(LiveOwed(Q)') \in Nat
                /\ LiveOwed(Q)' \subseteq OwedIn(Q)' /\ Needed(Q)' \in Nat
<1>1. UsesFinite'
  BY UsesAreFinite, PTL
<1> QED
  BY <1>1 DEF UsesFinite

\* The orders are finitely many.
LEMMA Orders_Step ==
  ASSUME TypeOK, FiniteOrders, Step
  PROVE  FiniteOrders'
<1> USE DEF audio, manager, loader, bounds
<1>1. CASE UNCHANGED ordered
  BY <1>1, SameOrders DEF FiniteOrders
<1>2. ASSUME NEW v \in Voice, FreeVoice(v) PROVE FiniteOrders'
  <2> DEFINE r == voice[v].region
  <2>1. CASE ~ voice[v].orphan
    BY <1>1, <1>2, <2>1 DEF FreeVoice
  <2>2. CASE voice[v].orphan
    <3>1. ordered' = [ordered EXCEPT ![r] = @ + 1]
      BY <1>2, <2>2 DEF FreeVoice
    <3>2. OrdersIn(RegionInst)' \subseteq OrdersIn(RegionInst) \cup {<<r, ordered[r] + 1>>}
      <4>1. \A q \in RegionInst : ordered[q] \in Nat /\
              ordered'[q] = IF q = r THEN ordered[q] + 1 ELSE ordered[q]
        BY <3>1 DEF TypeOK
      <4> SUFFICES ASSUME NEW q \in RegionInst, NEW k \in Nat, 1 <= k, k <= ordered'[q]
                   PROVE  k <= ordered[q] \/ (q = r /\ k = ordered[q] + 1)
        BY DEF OrdersIn
      <4> QED
        BY <4>1
    <3>3. IsFiniteSet(OrdersIn(RegionInst) \cup {<<r, ordered[r] + 1>>})
      BY FS_Singleton, FS_Union DEF FiniteOrders
    <3> QED
      BY <3>2, <3>3, FS_Subset DEF FiniteOrders
  <2> QED
    BY <2>1, <2>2
<1>3. ASSUME NEW r \in RegionInst, HandBackRegion(r) PROVE FiniteOrders'
  <2>1. \A q \in RegionInst : /\ ordered[q] \in Nat /\ ordered'[q] \in Int
                              /\ ordered'[q] <= ordered[q]
    BY <1>3 DEF HandBackRegion, TypeOK
  <2>2. OrdersIn(RegionInst)' \subseteq OrdersIn(RegionInst)
    BY <2>1 DEF OrdersIn
  <2> QED
    BY <2>2, FS_Subset DEF FiniteOrders
<1>4. ASSUME NEW c \in Channel, Own(c) PROVE UNCHANGED ordered
  BY <1>4, OwnLocal
<1>5. ASSUME \E c, d \in Channel : ToBeUpdated(c, d) \/ Updated(c, d)
      PROVE  UNCHANGED ordered
  BY <1>5 DEF ToBeUpdated, Updated
<1>6. ASSUME \E c \in Channel : \/ BeginCycle(c) \/ EndCycle(c) \/ Reset(c)
                                \/ \E r \in Region : LaunchVoice(c, r)
      PROVE  UNCHANGED ordered
  BY <1>6 DEF BeginCycle, EndCycle, Reset, LaunchVoice
<1>7. ASSUME NEW i \in Index, NEW mode \in Mode, SetMode(i, mode) PROVE UNCHANGED ordered
  BY <1>7 DEF SetMode
<1> QED
  BY <1>1, <1>2, <1>3, <1>4, <1>5, <1>6, <1>7, NextCases

LEMMA Balance_Same ==
  ASSUME TypeOK, TypeOK', FilesInv, EntryInv, EntryInv', LoaderInv, LoaderInv',
         UpdateInv, UpdateInv', UsedInv, UsedInv', FiniteOrders, FiniteOrders', Step, UsesStay
  PROVE  \A Q : \A n \in Int : Balances(Q, n, n)
<1> SUFFICES ASSUME NEW Q, NEW n \in Int PROVE Balances(Q, n, n)
  OBVIOUS
<1>1. LiveOwed(Q) \subseteq LiveOwed(Q)'
  BY LiveStays DEF UsesStay, LiveOwed
<1>2. /\ Cardinality(LiveOwed(Q)) \in Nat /\ Cardinality(LiveOwed(Q)') \in Nat
      /\ IsFiniteSet(LiveOwed(Q)') /\ Needed(Q) \in Nat
  BY FiniteUses, FiniteUsesNext DEF FiniteOrders
<1>3. Cardinality(LiveOwed(Q)) <= Cardinality(LiveOwed(Q)')
  BY <1>1, <1>2, FS_Subset
<1>4. OwedIn(Q)' = OwedIn(Q) /\ Needed(Q)' = Needed(Q)
  BY DEF UsesStay, OwedIn, Needed
<1> QED
  BY <1>2, <1>3, <1>4 DEF Balances

\* Voices that are forgotten need no count.
LEMMA Balance_Dropped ==
  ASSUME TypeOK, TypeOK', FilesInv, EntryInv, EntryInv', LoaderInv, LoaderInv',
         UpdateInv, UpdateInv', UsedInv, UsedInv', FiniteOrders, FiniteOrders', Step,
         NEW c \in Channel, Reset(c) \/ \E e \in Channel : ToBeUpdated(e, c)
  PROVE  \A Q : \A n \in Int : Balances(Q, n, n)
<1> USE DEF audio, manager, loader, bounds
<1>1. UNCHANGED <<cmd, pc, locked, ordered>> /\ DropVoices(c)
  BY DEF Reset, ToBeUpdated
<1>2. (\A d : Committed(d)' <=> Committed(d)) /\ Owed' = Owed
  BY <1>1, ChannelsStay
<1>3. "dropped" \notin upset' => UNCHANGED voice
  BY <1>1, DropFacts
<1>4. "dropped" \notin upset' => UsesStay
  BY <1>1, <1>3, UsesStay_Rest
<1>5. \A v \in Voice : voice'[v] # None => voice'[v] = voice[v]
  BY <1>1, DropFacts
<1>6. (\A x : Disowned(x) <=> voice[x].orphan \/ Committed(voice[x].chan))'
  BY DisownedIs, PTL
<1>7. \A Q : VoicesIn(Q)' \subseteq VoicesIn(Q)
  <2>1. ASSUME NEW v \in Voice, voice'[v] # None, Disowned(v)' PROVE Disowned(v)
    BY <1>2, <1>5, <1>6, <2>1, DisownedIs
  <2> QED
    BY <1>5, <2>1 DEF VoicesIn
<1>8. ASSUME NEW Q, NEW n \in Int, n + Cardinality(LiveOwed(Q)) >= Needed(Q)
      PROVE  n + Cardinality(LiveOwed(Q)') >= Needed(Q)'
  <2>1. LiveOwed(Q) \subseteq LiveOwed(Q)'
    BY <1>2, LiveStays DEF LiveOwed
  <2>2. /\ Cardinality(LiveOwed(Q)) \in Nat /\ Cardinality(LiveOwed(Q)') \in Nat
        /\ IsFiniteSet(LiveOwed(Q)') /\ IsFiniteSet(VoicesIn(Q))
        /\ Cardinality(VoicesIn(Q)) \in Nat /\ Cardinality(VoicesIn(Q)') \in Nat
        /\ Cardinality(OrdersIn(Q)) \in Nat
    BY FiniteUses, FiniteUsesNext DEF FiniteOrders
  <2>3. Cardinality(LiveOwed(Q)) <= Cardinality(LiveOwed(Q)')
    BY <2>1, <2>2, FS_Subset
  <2>4. Cardinality(VoicesIn(Q)') <= Cardinality(VoicesIn(Q))
    BY <1>7, <2>2, FS_Subset
  <2>5. OrdersIn(Q)' = OrdersIn(Q)
    BY <1>1, SameOrders
  <2> QED
    BY <1>8, <2>2, <2>3, <2>4, <2>5 DEF Needed
<1> QED
  BY <1>4, <1>8, Balance_Same DEF Balances

\* An orphan that ends becomes an order.
LEMMA Balance_Ended ==
  ASSUME TypeOK, TypeOK', FilesInv, EntryInv, EntryInv', LoaderInv, LoaderInv',
         UpdateInv, UpdateInv', UsedInv, UsedInv', FiniteOrders, FiniteOrders', Step,
         NEW v \in Voice, FreeVoice(v), voice[v].orphan
  PROVE  \A Q : \A n \in Int : Balances(Q, n, n)
<1> SUFFICES ASSUME NEW Q, NEW n \in Int PROVE Balances(Q, n, n)
  OBVIOUS
<1> USE DEF audio, manager, loader, bounds
<1> DEFINE r == voice[v].region
<1>1. /\ voice[v] # None /\ UNCHANGED <<cmd, pc, locked>>
      /\ voice'[v] = None /\ \A w \in Voice \ {v} : voice'[w] = voice[w]
      /\ ordered' = [ordered EXCEPT ![r] = @ + 1]
  BY DEF FreeVoice, TypeOK
<1>2. r \in RegionInst /\ ordered[r] \in Nat
  BY <1>1, VoiceTypes DEF TypeOK
<1>3. (\A d : Committed(d)' <=> Committed(d)) /\ Owed' = Owed
  BY <1>1, ChannelsStay
<1>4. Disowned(v)
  BY DEF Disowned
<1>6. ASSUME NEW w \in Voice \ {v} PROVE Disowned(w)' <=> Disowned(w)
  <2>1. voice'[w] = voice[w]
    BY <1>1
  <2>2. Disowned(w)' <=> voice'[w].orphan \/ Committed(voice[w].chan)'
    BY <2>1 DEF Disowned, Committed, Now
  <2> QED
    BY <1>3, <2>1, <2>2, DisownedIs
<1>7. VoicesIn(Q)' = VoicesIn(Q) \ {v} /\ (v \in VoicesIn(Q) <=> r \in Q)
  BY <1>1, <1>4, <1>6 DEF VoicesIn
<1> DEFINE o == <<r, ordered[r] + 1>>
<1>8a. /\ \A x \in RegionInst \X Nat : x = o <=> x[1] = r /\ x[2] = ordered[r] + 1
       /\ o \in RegionInst \X Nat /\ o[1] = r /\ o[2] = ordered[r] + 1
  BY <1>2
<1> HIDE DEF o, r
<1>8. /\ OrdersIn(Q)' = IF r \in Q THEN OrdersIn(Q) \cup {o} ELSE OrdersIn(Q)
      /\ o \notin OrdersIn(Q)
  <2>1. \A q \in RegionInst : ordered[q] \in Nat /\
          ordered'[q] = IF q = r THEN ordered[q] + 1 ELSE ordered[q]
    BY <1>1 DEF TypeOK
  <2>2. ASSUME NEW x \in RegionInst \X Nat
        PROVE  x \in OrdersIn(Q)' <=> x \in OrdersIn(Q) \/ (x = o /\ r \in Q)
    <3>1. x[1] \in RegionInst /\ x[2] \in Nat
      OBVIOUS
    <3>2. x \in OrdersIn(Q)' <=> x[1] \in Q /\ 1 <= x[2] /\ x[2] <= ordered'[x[1]]
      BY DEF OrdersIn
    <3>3. x \in OrdersIn(Q) <=> x[1] \in Q /\ 1 <= x[2] /\ x[2] <= ordered[x[1]]
      BY DEF OrdersIn
    <3> QED
      BY <1>8a, <2>1, <3>1, <3>2, <3>3
  <2>3. OrdersIn(Q) \subseteq RegionInst \X Nat /\ OrdersIn(Q)' \subseteq RegionInst \X Nat
    BY DEF OrdersIn
  <2>4. o \notin OrdersIn(Q)
    BY <1>2, <1>8a DEF OrdersIn
  <2>5. r \in Q => OrdersIn(Q)' = OrdersIn(Q) \cup {o}
    BY <1>8a, <2>2, <2>3
  <2>6. r \notin Q => OrdersIn(Q)' = OrdersIn(Q)
    BY <2>2, <2>3
  <2> QED
    BY <2>4, <2>5, <2>6
<1>9. /\ IsFiniteSet(OrdersIn(Q)) /\ IsFiniteSet(VoicesIn(Q)) /\ Cardinality(OrdersIn(Q)) \in Nat
      /\ Cardinality(VoicesIn(Q)) \in Nat /\ Cardinality(LiveOwed(Q)) \in Nat
      /\ Cardinality(LiveOwed(Q)') \in Nat /\ IsFiniteSet(LiveOwed(Q)')
  BY FiniteUses, FiniteUsesNext DEF FiniteOrders
<1>10. Needed(Q)' = Needed(Q)
  <2>1. CASE r \in Q
    <3>1. Cardinality(VoicesIn(Q)') = Cardinality(VoicesIn(Q)) - 1
      BY <1>7, <1>9, <2>1, FS_RemoveElement
    <3>2. Cardinality(OrdersIn(Q)') = Cardinality(OrdersIn(Q)) + 1
      BY <1>8, <1>9, <2>1, FS_AddElement
    <3> QED
      BY <1>9, <3>1, <3>2 DEF Needed
  <2>2. CASE r \notin Q
    BY <1>7, <1>8, <2>2 DEF Needed
  <2> QED
    BY <2>1, <2>2
<1>11. LiveOwed(Q) \subseteq LiveOwed(Q)' /\ OwedIn(Q)' = OwedIn(Q)
  BY <1>3, LiveStays DEF LiveOwed, OwedIn
<1>12. Cardinality(LiveOwed(Q)) <= Cardinality(LiveOwed(Q)')
  BY <1>9, <1>11, FS_Subset
<1>13. Needed(Q) \in Nat
  BY <1>9 DEF Needed
<1> QED
  BY <1>9, <1>10, <1>11, <1>12, <1>13 DEF Balances

\* An order that is carried out
LEMMA Balance_HandedBack ==
  ASSUME TypeOK, TypeOK', FilesInv, EntryInv, EntryInv', LoaderInv, LoaderInv',
         UpdateInv, UpdateInv', UsedInv, UsedInv', FiniteOrders, FiniteOrders', Step,
         NEW r \in RegionInst, HandBackRegion(r)
  PROVE  \A Q : \A n \in Int : Balances(Q, n, IF r \in Q THEN n - 1 ELSE n)
<1> SUFFICES ASSUME NEW Q, NEW n \in Int PROVE Balances(Q, n, IF r \in Q THEN n - 1 ELSE n)
  OBVIOUS
<1> USE DEF audio, manager, loader, bounds
<1> DEFINE o == <<r, ordered[r]>>
<1>1. /\ UNCHANGED <<cmd, pc, locked, voice>>
      /\ ordered' = [ordered EXCEPT ![r] = @ - 1] /\ ordered[r] \in Nat /\ ordered[r] > 0
  BY DEF HandBackRegion, TypeOK
<1>2. (\A d : Committed(d)' <=> Committed(d)) /\ Owed' = Owed
  BY <1>1, ChannelsStay
<1>3. VoicesIn(Q)' = VoicesIn(Q)
  BY <1>1, <1>2, SameVoices
<1>4. /\ \A x \in RegionInst \X Nat : x = o <=> x[1] = r /\ x[2] = ordered[r]
      /\ o \in RegionInst \X Nat /\ o[1] = r /\ o[2] = ordered[r]
  BY <1>1
<1> HIDE DEF o
<1>5. OrdersIn(Q)' = OrdersIn(Q) \ {o} /\ (o \in OrdersIn(Q) <=> r \in Q)
  <2>1. \A q \in RegionInst : ordered[q] \in Nat /\
          ordered'[q] = IF q = r THEN ordered[q] - 1 ELSE ordered[q]
    BY <1>1 DEF TypeOK
  <2>2. ASSUME NEW x \in RegionInst \X Nat
        PROVE  x \in OrdersIn(Q)' <=> x \in OrdersIn(Q) /\ x # o
    <3>1. x[1] \in RegionInst /\ x[2] \in Nat
      OBVIOUS
    <3>2. x \in OrdersIn(Q)' <=> x[1] \in Q /\ 1 <= x[2] /\ x[2] <= ordered'[x[1]]
      BY DEF OrdersIn
    <3>3. x \in OrdersIn(Q) <=> x[1] \in Q /\ 1 <= x[2] /\ x[2] <= ordered[x[1]]
      BY DEF OrdersIn
    <3> QED
      BY <1>4, <2>1, <3>1, <3>2, <3>3
  <2>3. OrdersIn(Q) \subseteq RegionInst \X Nat /\ OrdersIn(Q)' \subseteq RegionInst \X Nat
    BY DEF OrdersIn
  <2>4. o \in OrdersIn(Q) <=> r \in Q
    BY <1>1, <1>4 DEF OrdersIn
  <2> QED
    BY <2>2, <2>3, <2>4
<1>6. /\ IsFiniteSet(OrdersIn(Q)) /\ Cardinality(OrdersIn(Q)) \in Nat
      /\ Cardinality(VoicesIn(Q)) \in Nat /\ Cardinality(LiveOwed(Q)) \in Nat
      /\ Cardinality(LiveOwed(Q)') \in Nat /\ IsFiniteSet(LiveOwed(Q)')
      /\ Cardinality(OwedIn(Q)) \in Nat
  BY FiniteUses, FiniteUsesNext DEF FiniteOrders
<1>7. Needed(Q)' = IF r \in Q THEN Needed(Q) - 1 ELSE Needed(Q)
  <2>1. Cardinality(OrdersIn(Q)') = IF r \in Q THEN Cardinality(OrdersIn(Q)) - 1
                                    ELSE Cardinality(OrdersIn(Q))
    BY <1>5, <1>6, FS_RemoveElement
  <2> QED
    BY <1>3, <1>6, <2>1 DEF Needed
<1>8. LiveOwed(Q) \subseteq LiveOwed(Q)' /\ OwedIn(Q)' = OwedIn(Q)
  BY <1>2, LiveStays DEF LiveOwed, OwedIn
<1>9. Cardinality(LiveOwed(Q)) <= Cardinality(LiveOwed(Q)')
  BY <1>6, <1>8, FS_Subset
<1>10. Needed(Q) \in Nat
  BY <1>6 DEF Needed
<1>11. "dropped" \in upset' <=> "dropped" \in upset
  BY DEF HandBackRegion
<1> QED
  BY <1>6, <1>7, <1>8, <1>9, <1>10 DEF Balances

\* The part of a list that concerns some regions
PartOf(used, Q) == {u \in used : u[2] \in Q}

\* As many are owed by a channel as it lists.
LEMMA PairedWith ==
  ASSUME NEW c, NEW P, IsFiniteSet(P)
  PROVE  /\ IsFiniteSet({c} \X P) /\ Cardinality({c} \X P) = Cardinality(P)
         /\ Cardinality(P) \in Nat
<1> DEFINE f == [u \in P |-> <<c, u>>]
<1>1. f \in [P -> {c} \X P]
  OBVIOUS
<1>2. \A x, y \in P : f[x] = f[y] => x = y
  OBVIOUS
<1>3. \A t \in {c} \X P : \E x \in P : f[x] = t
  OBVIOUS
<1> HIDE DEF f
<1> QED
  BY <1>1, <1>2, <1>3, SameSize, FS_CardinalityType

\* A list that is counted
LEMMA Balance_Counted ==
  ASSUME TypeOK, TypeOK', FilesInv, EntryInv, EntryInv', LoaderInv, LoaderInv',
         UpdateInv, UpdateInv', UsedInv, UsedInv', FiniteOrders, FiniteOrders', Step,
         NEW c \in Channel, HandBackInstrument(c)
  PROVE  \A Q : \A n \in Int : Balances(Q, n, n + Cardinality(PartOf(OldCmd(c).used, Q)))
<1> SUFFICES ASSUME NEW Q, NEW n \in Int
             PROVE  Balances(Q, n, n + Cardinality(PartOf(OldCmd(c).used, Q)))
  OBVIOUS
<1> USE DEF audio, manager, loader, bounds
<1> DEFINE P == PartOf(OldCmd(c).used, Q)
           M == {c} \X P
<1>1. /\ pc[c] = "clear" /\ Switched(c) /\ UNCHANGED <<cmd, locked, voice, ordered, upset>>
      /\ pc'[c] = "handback" /\ \A d \in Channel \ {c} : pc'[d] = pc[d]
  BY DEF HandBackInstrument, TypeOK
<1>2. /\ \A d \in Channel \ {c} : Owing(d)' = Owing(d) /\ (Committed(d)' <=> Committed(d))
      /\ Owing(c) = OldCmd(c).used /\ Owing(c)' = {}
  BY <1>1, SameChannel DEF Owing
<1>3. Committed(c)' <=> Committed(c)
  BY <1>1 DEF Committed, Now
<1>4. VoicesIn(Q)' = VoicesIn(Q)
  <2>1. \A v \in Voice : voice[v] # None => (Committed(voice[v].chan)' <=> Committed(voice[v].chan))
    BY <1>1, <1>2, <1>3, VoiceTypes
  <2> QED
    BY <1>1, <2>1, SameVoices
<1>5. (\A o : o \in Owed <=> \E d \in Channel : \E u : o = <<d, u>> /\ u \in Owing(d))'
  <2>1. \A o : o \in Owed' <=> \E d \in {x \in Channel : pc'[x] = "clear"} : o \in {d} \X OldCmd(d)'.used
    BY DEF Owed
  <2> QED
    BY <2>1 DEF Owing
<1>6. OwedIn(Q)' = OwedIn(Q) \ M /\ M \subseteq OwedIn(Q)
  <2>1. ASSUME NEW d \in Channel, NEW u
        PROVE  <<d, u>> \in Owed' <=> <<d, u>> \in Owed /\ d # c
    <3>1. <<d, u>> \in Owed' <=> u \in Owing(d)'
      BY <1>5
    <3>2. <<d, u>> \in Owed <=> u \in Owing(d)
      BY OwedIs
    <3>3. d = c => u \notin Owing(d)'
      BY <1>2
    <3>4. d # c => Owing(d)' = Owing(d)
      BY <1>2
    <3> QED
      BY <3>1, <3>2, <3>3, <3>4
  <2>2. ASSUME NEW d \in Channel, NEW u
        PROVE  <<d, u>> \in OwedIn(Q)' <=> <<d, u>> \in OwedIn(Q) /\ <<d, u>> \notin M
    <3>1. <<d, u>> \in M => d = c
      OBVIOUS
    <3>2. d = c /\ <<d, u>> \in OwedIn(Q) => <<d, u>> \in M
      BY <1>2, OwedIs DEF OwedIn, PartOf
    <3> HIDE DEF M
    <3> QED
      BY <2>1, <3>1, <3>2 DEF OwedIn
  <2>3. \A o \in OwedIn(Q) \cup OwedIn(Q)' : \E d \in Channel : \E u : o = <<d, u>>
    BY <1>5, OwedIs DEF OwedIn
  <2>4. M \subseteq OwedIn(Q)
    <3> SUFFICES ASSUME NEW u \in P PROVE <<c, u>> \in OwedIn(Q)
      OBVIOUS
    <3> QED
      BY <1>2, OwedIs DEF OwedIn, PartOf
  <2> HIDE DEF M
  <2> QED
    BY <2>2, <2>3, <2>4
<1>7. IsFiniteSet(M) /\ Cardinality(M) = Cardinality(P) /\ Cardinality(P) \in Nat
  <2>1. IsFiniteSet(OldCmd(c).used)
    BY CopyTypes DEF UsedInv, OldCmd
  <2>2. IsFiniteSet(P)
    BY <2>1, FS_Subset DEF PartOf
  <2> HIDE DEF P
  <2> QED
    BY <2>2, PairedWith
<1> HIDE DEF M, P
<1>8. /\ IsFiniteSet(OwedIn(Q)) /\ Cardinality(OwedIn(Q)) \in Nat
      /\ Cardinality(LiveOwed(Q)) \in Nat /\ IsFiniteSet(LiveOwed(Q))
      /\ Cardinality(LiveOwed(Q)') \in Nat /\ IsFiniteSet(LiveOwed(Q)') /\ Needed(Q) \in Nat
  BY FiniteUses, FiniteUsesNext DEF FiniteOrders
<1>9. Cardinality(OwedIn(Q)') = Cardinality(OwedIn(Q)) - Cardinality(M)
  BY <1>6, <1>8, Complement
<1>10. Cardinality(LiveOwed(Q)) <= Cardinality(LiveOwed(Q)') + Cardinality(M)
  <2>1. LiveOwed(Q) \subseteq LiveOwed(Q)' \cup M
    <3>1. \A o \in LiveOwed(Q) : o \in OwedIn(Q) /\ o \in Owed /\ Alive(o[2][2][1])
      BY DEF LiveOwed, OwedIn
    <3>2. \A o \in LiveOwed(Q) : Alive(o[2][2][1])'
      BY <3>1, LiveStays
    <3>3. \A o \in OwedIn(Q)' : o \in Owed' /\ o[2][2] \in Q
      BY DEF OwedIn
    <3> QED
      BY <1>6, <3>1, <3>2, <3>3 DEF LiveOwed
  <2>2. /\ IsFiniteSet(LiveOwed(Q)' \cup M)
        /\ Cardinality(LiveOwed(Q)' \cup M) <= Cardinality(LiveOwed(Q)') + Cardinality(M)
        /\ Cardinality(LiveOwed(Q)' \cup M) \in Nat
    <3> DEFINE L == LiveOwed(Q)'
               p == Cardinality(L)
               q == Cardinality(M)
               i == Cardinality(L \cap M)
               j == Cardinality(L \cup M)
    <3> HIDE DEF L
    <3>0. IsFiniteSet(L)
      BY <1>8 DEF L
    <3>1. i \in Nat /\ p \in Nat /\ q \in Nat
      BY <1>7, <3>0, FS_Subset, FS_CardinalityType
    <3>2. IsFiniteSet(L \cup M) /\ j = p + q - i
      BY <1>7, <3>0, FS_Union
    <3>3. j \in Nat
      BY <3>2, FS_CardinalityType
    <3>4. j <= p + q
      <4> HIDE DEF i, j, p, q
      <4> QED
        BY <3>1, <3>2
    <3> QED
      BY <3>2, <3>3, <3>4 DEF L
  <2>3. Cardinality(LiveOwed(Q)) <= Cardinality(LiveOwed(Q)' \cup M)
    BY <2>1, <2>2, FS_Subset
  <2> QED
    BY <1>7, <1>8, <2>2, <2>3
<1>11. Needed(Q)' = Needed(Q)
  BY <1>1, <1>4, SameOrders DEF Needed
<1>12. PartOf(OldCmd(c).used, Q) = P
  BY DEF P
<1> QED
  BY <1>7, <1>8, <1>9, <1>10, <1>11, <1>12 DEF Balances

\* The loader takes over the list of a channel.
LEMMA TakesFacts ==
  ASSUME TypeOK, EntryInv, LoaderInv, UpdateInv, CmdInv, PlayedInv, VoiceInv, UsedInv, Orderly,
         NEW c \in Channel, Takes(c)
  PROVE  /\ UNCHANGED <<voice, ordered, upset>>
         /\ InUse(c) \subseteq Owing(c)' /\ ("dropped" \notin upset => Owing(c)' = InUse(c))
         /\ Owing(c) = {} /\ ~ Committed(c) /\ Committed(c)'
         /\ \A d \in Channel \ {c} : Owing(d)' = Owing(d) /\ (Committed(d)' <=> Committed(d))
         /\ \A u \in InUse(c) : Alive(u[2][1])'
         /\ IsFiniteSet(InUse(c)) /\ IsFiniteSet(Owing(c)')
<1> USE DEF audio, manager, loader, bounds
<1>1. /\ OldCmd(c).used # {} => /\ pc[c] \in {"clear", "handback"} /\ Switched(c)
      /\ Now(c).used # {} => ~ Now(c).change /\ locked[c] = {}
      /\ ~ Now(c).change /\ locked[c] = {} => Listed(c, Now(c).used)
      /\ Other(c) \in locked[c] => Now(c).change
  BY DEF UsedInv, CmdInv
<1>2. ~ Committed(c) => \A u \in InUse(c) : u[2][1] = gig.file /\ gig.file # 0 /\ Consumer(c)
  <2>1. \A u \in InUse(c) : \E v \in Voice : /\ voice[v] # None /\ voice[v].chan = c
                                             /\ ~ voice[v].orphan /\ u = <<v, voice[v].region>>
    BY DEF InUse, VoicesOf
  <2>2. ~ Committed(c) => \A v \in Voice : voice[v] # None /\ voice[v].chan = c
                                           /\ ~ voice[v].orphan =>
              voice[v].region[1] = gig.file /\ gig.file # 0 /\ Consumer(c)
    BY InUseFacts
  <2> QED
    BY <2>1, <2>2
<1>3. IsFiniteSet(InUse(c)) /\ IsFiniteSet(Now(c).used)
  BY CopyTypes, VoiceTypes DEF UsedInv, Now
<1>4. CASE (\E i \in Index : LoadInstrument(c, i)) /\ locked[c] = {}
  <2>1. /\ cmd'[c].cur = Other(c) /\ Other(c)' = cmd[c].cur /\ OldCmd(c)' = Now(c)
        /\ Now(c)'.change /\ UNCHANGED <<entry, gig, mem, todo, entriesMutex, regionMutex>>
    BY <1>4, OwnChange
  <2>2. /\ pc[c] = "idle" /\ pc'[c] = "clear" /\ entriesMutex = None /\ ~ Now(c).change
        /\ UNCHANGED <<voice, ordered, upset, locked>>
        /\ \A d \in Channel \ {c} : pc'[d] = pc[d]
    BY <1>4 DEF Orderly, LoadInstrument, AtRest, Now, TypeOK
  <2>3. \A d \in Channel \ {c} : cmd'[d] = cmd[d] /\ locked'[d] = locked[d]
    <3>1. Own(c)
      BY <1>4 DEF Own
    <3> QED
      BY <2>2, <3>1, OwnLocal
  <2>4. \A d \in Channel \ {c} : Owing(d)' = Owing(d) /\ (Committed(d)' <=> Committed(d))
    BY <2>2, <2>3, SameChannel
  <2>5. Owing(c)' = Now(c).used /\ Owing(c) = {}
    BY <2>1, <2>2 DEF Owing
  <2>6. ~ Committed(c) /\ Committed(c)'
    BY <1>4, <2>1, <2>2 DEF Committed, Switched
  <2>7. ~ Dying'
    <3>1. \A e \in Channel : pc'[e] # "cleanup"
      BY <2>2, NoneAssumption DEF LoaderInv, Updating
    <3> QED
      BY <3>1 DEF Dying
  <2>8. \A u \in InUse(c) : Alive(u[2][1])'
    BY <1>2, <2>1, <2>6, <2>7 DEF Alive
  <2> QED
    BY <1>1, <1>3, <1>4, <2>2, <2>4, <2>5, <2>6, <2>8 DEF Listed
<1>5. CASE EndCycle(c) /\ Other(c) \in locked[c] /\ pc[c] = "clear"
  <2>1. /\ Other(c)' = Other(c) /\ Now(c)'.change = Now(c).change
        /\ OldCmd(c)'.used = InUse(c)
        /\ \A d \in Channel \ {c} : cmd'[d] = cmd[d]
    BY <1>5, EndFacts
  <2>2. /\ UNCHANGED <<voice, ordered, upset, pc, want, gig>> /\ locked'[c] = {}
        /\ \A d \in Channel \ {c} : locked'[d] = locked[d]
    BY <1>5 DEF EndCycle, TypeOK
  <2>3. \A d \in Channel \ {c} : Owing(d)' = Owing(d) /\ (Committed(d)' <=> Committed(d))
    BY <2>1, <2>2, SameChannel
  <2>4. Owing(c)' = InUse(c) /\ Owing(c) = {}
    BY <1>1, <1>5, <2>1, <2>2 DEF Owing, Switched
  <2>5. ~ Committed(c) /\ Committed(c)'
    BY <1>1, <1>5, <2>1, <2>2 DEF Committed, Switched
  <2>6. \A u \in InUse(c) : Alive(u[2][1])'
    <3>1. Consumer(c) => ~ Dying
      BY <1>5, DyingFacts DEF Resting
    <3>2. Dying' = Dying
      BY <2>2 DEF Dying
    <3> QED
      BY <1>2, <2>2, <2>5, <3>1, <3>2 DEF Alive
  <2> QED
    BY <1>3, <2>2, <2>3, <2>4, <2>5, <2>6
<1> QED
  BY <1>4, <1>5 DEF Takes

LEMMA Balance_Taken ==
  ASSUME TypeOK, TypeOK', FilesInv, EntryInv, EntryInv', LoaderInv, LoaderInv',
         UpdateInv, UpdateInv', CmdInv, PlayedInv, VoiceInv, UsedInv, UsedInv',
         FiniteOrders, FiniteOrders', Orderly, Step,
         NEW c \in Channel, Takes(c)
  PROVE  \A Q : \A n \in Int : Balances(Q, n, n)
<1> SUFFICES ASSUME NEW Q, NEW n \in Int PROVE Balances(Q, n, n)
  OBVIOUS
<1> DEFINE P == PartOf(InUse(c), Q)
           X == {c} \X P
           W == {v \in Voice : /\ voice[v] # None /\ voice[v].chan = c /\ ~ voice[v].orphan
                               /\ voice[v].region \in Q}
           w == [u \in P |-> u[1]]
<1>1. /\ UNCHANGED <<voice, ordered, upset>>
      /\ InUse(c) \subseteq Owing(c)' /\ ("dropped" \notin upset => Owing(c)' = InUse(c))
      /\ Owing(c) = {} /\ ~ Committed(c) /\ Committed(c)'
      /\ \A d \in Channel \ {c} : Owing(d)' = Owing(d) /\ (Committed(d)' <=> Committed(d))
      /\ \A u \in InUse(c) : Alive(u[2][1])'
      /\ IsFiniteSet(InUse(c)) /\ IsFiniteSet(Owing(c)')
  BY TakesFacts
<1>2. /\ IsFiniteSet(P) /\ IsFiniteSet(X) /\ Cardinality(X) = Cardinality(P)
      /\ Cardinality(P) \in Nat
  <2>1. IsFiniteSet(P)
    BY <1>1, FS_Subset DEF PartOf
  <2> HIDE DEF P
  <2> QED
    BY <2>1, PairedWith
<1>3. IsFiniteSet(W) /\ Cardinality(W) = Cardinality(P)
  <2>1. \A u \in P : /\ u[1] \in W /\ u = <<u[1], voice[u[1]].region>>
    BY DEF PartOf, InUse, VoicesOf
  <2>2. \A v \in W : <<v, voice[v].region>> \in P
    BY DEF PartOf, InUse, VoicesOf
  <2>3. w \in [P -> W]
    BY <2>1
  <2>4. \A x, y \in P : w[x] = w[y] => x = y
    BY <2>1
  <2>5. \A t \in W : \E x \in P : w[x] = t
    BY <2>2
  <2> HIDE DEF P, W, w
  <2> QED
    BY <1>2, <2>3, <2>4, <2>5, SameSize
<1>4. VoicesIn(Q)' = VoicesIn(Q) \cup W /\ VoicesIn(Q) \cap W = {}
  <2>1. ASSUME NEW v \in Voice, voice[v] # None
        PROVE  (Disowned(v)' <=> Disowned(v) \/ voice[v].chan = c)
               /\ (voice[v].chan = c => (Disowned(v) <=> voice[v].orphan))
    <3>1. Disowned(v)' <=> voice'[v].orphan \/ Committed(voice[v].chan)'
      BY <1>1 DEF Disowned, Committed, Now
    <3>2. voice[v].chan \in Channel
      BY <2>1, VoiceTypes
    <3> QED
      BY <1>1, <3>1, <3>2, DisownedIs
  <2> QED
    BY <1>1, <2>1 DEF VoicesIn
<1>5. Needed(Q)' = Needed(Q) + Cardinality(P) /\ Needed(Q) \in Nat
  <2>1. IsFiniteSet(VoicesIn(Q)) /\ Cardinality(OrdersIn(Q)) \in Nat /\ Needed(Q) \in Nat
    BY FiniteUses DEF FiniteOrders
  <2>2. /\ Cardinality(VoicesIn(Q)') = Cardinality(VoicesIn(Q)) + Cardinality(P)
        /\ Cardinality(VoicesIn(Q)) \in Nat
    <3> HIDE DEF W, P
    <3> QED
      BY <1>3, <1>4, <2>1, DisjointUnion
  <2>3. OrdersIn(Q)' = OrdersIn(Q)
    BY <1>1, SameOrders
  <2> HIDE DEF P
  <2> QED
    BY <1>2, <2>1, <2>2, <2>3 DEF Needed
<1>6. (\A o : o \in Owed <=> \E d \in Channel : \E u : o = <<d, u>> /\ u \in Owing(d))'
  <2>1. \A o : o \in Owed' <=> \E d \in {x \in Channel : pc'[x] = "clear"} : o \in {d} \X OldCmd(d)'.used
    BY DEF Owed
  <2> QED
    BY <2>1 DEF Owing
<1>7. /\ OwedIn(Q) \cup X \subseteq OwedIn(Q)' /\ OwedIn(Q) \cap X = {}
      /\ "dropped" \notin upset => OwedIn(Q)' = OwedIn(Q) \cup X
  <2>1. ASSUME NEW d \in Channel, NEW u
        PROVE  /\ d # c => (<<d, u>> \in Owed' <=> <<d, u>> \in Owed)
               /\ d = c => (<<d, u>> \in Owed' <=> u \in Owing(c)') /\ <<d, u>> \notin Owed
    <3>1. <<d, u>> \in Owed' <=> u \in Owing(d)'
      BY <1>6
    <3>2. <<d, u>> \in Owed <=> u \in Owing(d)
      BY OwedIs
    <3>3. d # c => Owing(d)' = Owing(d)
      BY <1>1
    <3> QED
      BY <1>1, <3>1, <3>2, <3>3
  <2>2. \A o \in OwedIn(Q) \cup OwedIn(Q)' : \E d \in Channel : \E u : o = <<d, u>>
    BY <1>6, OwedIs DEF OwedIn
  <2>3. ASSUME NEW o \in OwedIn(Q) PROVE o \in OwedIn(Q)' /\ o \notin X
    <3>0. PICK d \in Channel : \E u : o = <<d, u>>
      BY <2>2
    <3>1. PICK u : o = <<d, u>>
      BY <3>0
    <3>2. d # c
      BY <2>1, <3>1 DEF OwedIn
    <3> QED
      BY <2>1, <3>1, <3>2 DEF OwedIn
  <2>4. ASSUME NEW u \in P PROVE <<c, u>> \in OwedIn(Q)'
    <3>1. u \in Owing(c)' /\ u[2] \in Q
      BY <1>1 DEF PartOf
    <3> QED
      BY <2>1, <3>1 DEF OwedIn
  <2>5. ASSUME "dropped" \notin upset, NEW o \in OwedIn(Q)' PROVE o \in OwedIn(Q) \cup X
    <3>0. PICK d \in Channel : \E u : o = <<d, u>>
      BY <2>2
    <3>1. PICK u : o = <<d, u>>
      BY <3>0
    <3>2. o \in Owed' /\ u[2] \in Q
      BY <3>1 DEF OwedIn
    <3>3. d # c => o \in OwedIn(Q)
      BY <2>1, <3>1, <3>2 DEF OwedIn
    <3>4. d = c => u \in P
      BY <1>1, <2>1, <2>5, <3>1, <3>2 DEF PartOf
    <3> QED
      BY <3>1, <3>3, <3>4
  <2> QED
    BY <2>3, <2>4, <2>5
<1>8. LiveOwed(Q) \cup X \subseteq LiveOwed(Q)' /\ LiveOwed(Q) \cap X = {}
  <2>1. \A o \in LiveOwed(Q) : o \in OwedIn(Q) /\ o \in Owed /\ Alive(o[2][2][1])
    BY DEF LiveOwed, OwedIn
  <2>2. \A o \in LiveOwed(Q) : Alive(o[2][2][1])'
    BY <2>1, LiveStays
  <2>3. \A o \in X : Alive(o[2][2][1])'
    BY <1>1 DEF PartOf
  <2>4. \A o \in OwedIn(Q)' : o \in Owed' /\ o[2][2] \in Q
    BY DEF OwedIn
  <2> HIDE DEF X
  <2> QED
    BY <1>7, <2>1, <2>2, <2>3, <2>4 DEF LiveOwed
<1> HIDE DEF X, P, W, w
<1>9. /\ IsFiniteSet(OwedIn(Q)) /\ IsFiniteSet(LiveOwed(Q)) /\ IsFiniteSet(LiveOwed(Q)')
      /\ Cardinality(LiveOwed(Q)') \in Nat
  BY FiniteUses, FiniteUsesNext DEF FiniteOrders
<1>10. /\ Cardinality(LiveOwed(Q)) + Cardinality(P) <= Cardinality(LiveOwed(Q)')
       /\ Cardinality(LiveOwed(Q)) \in Nat
  <2>1. /\ Cardinality(LiveOwed(Q) \cup X) = Cardinality(LiveOwed(Q)) + Cardinality(P)
        /\ Cardinality(LiveOwed(Q)) \in Nat
    BY <1>2, <1>8, <1>9, DisjointUnion
  <2>2. Cardinality(LiveOwed(Q) \cup X) <= Cardinality(LiveOwed(Q)')
    BY <1>8, <1>9, FS_Subset
  <2> QED
    BY <2>1, <2>2
<1>11. "dropped" \notin upset =>
         Cardinality(OwedIn(Q)') = Cardinality(OwedIn(Q)) + Cardinality(P)
  BY <1>2, <1>7, <1>9, DisjointUnion
<1>12. Cardinality(OwedIn(Q)) \in Nat
  BY <1>9, FS_CardinalityType
<1> QED
  BY <1>1, <1>2, <1>5, <1>9, <1>10, <1>11, <1>12 DEF Balances

-----------------------------------------------------------------------------
(* What the steps do to the memory *)

\* The last instrument of the file is freed.
Frees(i) == /\ LastUser(gig, i) /\ i \in Index
            /\ mem' = DestroyedMem(mem, gig, i) /\ gig' = HandedBack(gig, i)
            /\ (\E c \in Channel : HandBack(c)) \/ (\E mode \in Mode : SetMode(i, mode))

\* An instrument is created.
Reads(i) == /\ i \in Index /\ gig' = Opened(gig, i) /\ gig'.file \in Files
            /\ mem' = Loaded(mem, gig'.file)
            /\ (\E c \in Channel : BorrowNew(c)) \/ (\E mode \in Mode : SetMode(i, mode))

\* An instrument is created anew.
Renews(c) == /\ UpdateCreates(c) /\ want[c] \in Index
             /\ gig' = Opened(HandedBack(gig, want[c]), want[c]) /\ gig'.file \in Files
             /\ mem' = Loaded(IF LastUser(gig, want[c]) THEN Cleanup(mem, gig.file) ELSE mem,
                              gig'.file)

LEMMA MemMoves ==
  ASSUME TypeOK, FilesInv, EntryInv, LoaderInv, Step
  PROVE  \/ UNCHANGED mem /\ gig'.file = gig.file
         \/ \E i \in Index : Frees(i) \/ Reads(i)
         \/ \E c \in Channel : /\ UpdateDestroys(c) /\ LastUser(gig, want[c])
                               /\ mem' = Walk(mem, gig.file)
         \/ \E c \in Channel : Renews(c) \/ HandBackInstrument(c)
         \/ \E r \in RegionInst : HandBackRegion(r)
<1> USE DEF audio, manager, loader, bounds
<1>0. gig \in GigType
  BY DEF TypeOK, GigType
<1>1. ASSUME NEW c \in Channel, HandBack(c)
      PROVE  UNCHANGED <<mem, gig>> \/ \E i \in Index : Frees(i) \/ (UNCHANGED mem /\ gig'.file = gig.file)
  <2>1. \/ UNCHANGED <<mem, gig>>
        \/ \E i \in Index : mem' = DestroyedMem(mem, gig, i) /\ gig' = HandedBack(gig, i)
    BY <1>1 DEF HandBack, EntryOf
  <2>2. ASSUME NEW i \in Index, mem' = DestroyedMem(mem, gig, i), gig' = HandedBack(gig, i)
        PROVE  (UNCHANGED mem /\ gig'.file = gig.file) \/ Frees(i)
    BY <1>0, <1>1, <2>2, HandedBackFacts DEF Frees, DestroyedMem
  <2> QED
    BY <2>1, <2>2
<1>2. ASSUME NEW c \in Channel, BorrowNew(c) PROVE \E i \in Index : Reads(i)
  <2>1. gig'.file \in Files /\ want[c] \in Index
    BY <1>2, BorrowNewEntries
  <2>2. gig' = Opened(gig, want[c]) /\ mem' = Loaded(mem, gig'.file)
    BY <1>2 DEF BorrowNew, Create
  <2> QED
    BY <1>2, <2>1, <2>2 DEF Reads
<1>3. ASSUME NEW c \in Channel, UpdateCreates(c) PROVE Renews(c)
  <2>1. gig'.file \in Files /\ want[c] \in Index
    BY <1>3, UpdateCreatesEntries
  <2> QED
    BY <1>3, <2>1 DEF UpdateCreates, Create, Renews
<1>4. ASSUME NEW c \in Channel, UpdateDestroys(c)
      PROVE  UNCHANGED <<mem, gig>> \/ (LastUser(gig, want[c]) /\ mem' = Walk(mem, gig.file))
  BY <1>4 DEF UpdateDestroys
<1>5. ASSUME NEW i \in Index, NEW mode \in Mode, SetMode(i, mode)
      PROVE  (UNCHANGED mem /\ gig'.file = gig.file) \/ Frees(i) \/ Reads(i)
  <2>1. \/ UNCHANGED <<mem, gig>>
        \/ mem' = DestroyedMem(mem, gig, i) /\ gig' = HandedBack(gig, i)
        \/ mem' = Loaded(mem, gig'.file) /\ gig' = Opened(gig, i)
    BY <1>5 DEF SetMode
  <2>2. ASSUME mem' = DestroyedMem(mem, gig, i), gig' = HandedBack(gig, i)
        PROVE  (UNCHANGED mem /\ gig'.file = gig.file) \/ Frees(i)
    BY <1>0, <1>5, <2>2, HandedBackFacts DEF Frees, DestroyedMem
  <2>3. ASSUME gig' = Opened(gig, i) PROVE gig'.file \in Files
    <3>1. loads + commands < MaxLoads
      BY <1>5 DEF SetMode, Command
    <3>2. gig.made + 1 \in Files
      BY <3>1, RoomForFile
    <3> QED
      BY <1>0, <2>3, <3>2, OpenedFacts
  <2> QED
    BY <1>5, <2>1, <2>2, <2>3 DEF Reads
<1>6. ASSUME NEW c \in Channel, Own(c)
      PROVE  \/ UNCHANGED <<mem, gig>>
             \/ HandBack(c) \/ BorrowNew(c) \/ UpdateCreates(c) \/ UpdateDestroys(c)
             \/ HandBackInstrument(c) \/ BorrowExisting(c)
  BY <1>6 DEF Own, LoadInstrument, NothingToHandBack, BorrowFails, UpdateEnds,
     UseInstrument, Finish, UnloadInstrument
<1>6a. ASSUME NEW c \in Channel, BorrowExisting(c) PROVE UNCHANGED <<mem, gig>>
  BY <1>6a DEF BorrowExisting
<1>7. ASSUME NEW c \in Channel, NEW d \in Channel, ToBeUpdated(c, d) \/ Updated(c, d)
      PROVE  UNCHANGED <<mem, gig>>
  BY <1>7 DEF ToBeUpdated, Updated
<1>8. ASSUME NEW c \in Channel, \/ BeginCycle(c) \/ EndCycle(c) \/ Reset(c)
                                \/ \E r \in Region : LaunchVoice(c, r)
      PROVE  UNCHANGED <<mem, gig>>
  BY <1>8 DEF BeginCycle, EndCycle, Reset, LaunchVoice
<1>9. ASSUME NEW v \in Voice, FreeVoice(v) PROVE UNCHANGED <<mem, gig>>
  BY <1>9 DEF FreeVoice
<1> QED
  BY <1>1, <1>2, <1>3, <1>4, <1>5, <1>6, <1>6a, <1>7, <1>8, <1>9, NextCases

\* The regions and samples that are counted, and how often
LEMMA SameCounts ==
  ASSUME TypeOK, FilesInv, EntryInv, LoaderInv, Step,
         \A c \in Channel : ~ HandBackInstrument(c), \A r \in RegionInst : ~ HandBackRegion(r)
  PROVE  /\ DOMAIN mem'.info = DOMAIN mem.info /\ mem'.refs = mem.refs
         /\ \A r : InfoCount(mem', r) = InfoCount(mem, r)
         /\ \A s : SampleCount(mem', s) = SampleCount(mem, s)
<1>0. MemType(mem)
  BY DEF TypeOK
<1>1. ASSUME NEW m, DOMAIN m.info = DOMAIN mem.info, m.refs = mem.refs,
             \A r \in DOMAIN mem.info : m.info[r].count = mem.info[r].count
      PROVE  /\ \A r : InfoCount(m, r) = InfoCount(mem, r)
             /\ \A s : SampleCount(m, s) = SampleCount(mem, s)
  BY <1>1 DEF InfoCount, Known, SampleCount
<1>2. ASSUME NEW m, MemType(m), DOMAIN m.info = DOMAIN mem.info, m.refs = mem.refs,
             \A r \in DOMAIN mem.info : m.info[r].count = mem.info[r].count,
             NEW f \in Files
      PROVE  /\ DOMAIN Loaded(m, f).info = DOMAIN mem.info /\ Loaded(m, f).refs = mem.refs
             /\ \A r \in DOMAIN mem.info : Loaded(m, f).info[r].count = mem.info[r].count
  BY <1>2, LoadedFacts
<1>3. /\ DOMAIN mem'.info = DOMAIN mem.info /\ mem'.refs = mem.refs
      /\ \A r \in DOMAIN mem.info : mem'.info[r].count = mem.info[r].count
  <2>1. ASSUME NEW i \in Index, Frees(i)
        PROVE  /\ DOMAIN mem'.info = DOMAIN mem.info /\ mem'.refs = mem.refs
               /\ \A r \in DOMAIN mem.info : mem'.info[r].count = mem.info[r].count
    BY <1>0, <2>1, DestroyedFacts DEF Frees
  <2>2. ASSUME NEW i \in Index, Reads(i)
        PROVE  /\ DOMAIN mem'.info = DOMAIN mem.info /\ mem'.refs = mem.refs
               /\ \A r \in DOMAIN mem.info : mem'.info[r].count = mem.info[r].count
    BY <1>0, <1>2, <2>2 DEF Reads
  <2>3. ASSUME NEW c \in Channel, Renews(c)
        PROVE  /\ DOMAIN mem'.info = DOMAIN mem.info /\ mem'.refs = mem.refs
               /\ \A r \in DOMAIN mem.info : mem'.info[r].count = mem.info[r].count
    BY <1>0, <1>2, <2>3, CleanupFacts DEF Renews
  <2>4. ASSUME mem' = Walk(mem, gig.file)
        PROVE  /\ DOMAIN mem'.info = DOMAIN mem.info /\ mem'.refs = mem.refs
               /\ \A r \in DOMAIN mem.info : mem'.info[r].count = mem.info[r].count
    BY <1>0, <2>4, WalkFacts
  <2> QED
    BY <2>1, <2>2, <2>3, <2>4, MemMoves
<1> QED
  BY <1>1, <1>3

\* Apart from the two steps that count, the balance stays.
LEMMA Balance_Rest ==
  ASSUME TypeOK, TypeOK', FilesInv, EntryInv, EntryInv', LoaderInv, LoaderInv',
         UpdateInv, UpdateInv', CmdInv, PlayedInv, VoiceInv, UsedInv, UsedInv',
         FiniteOrders, FiniteOrders', Orderly, Step,
         \A c \in Channel : ~ HandBackInstrument(c), \A r \in RegionInst : ~ HandBackRegion(r)
  PROVE  \A Q : \A n \in Int : Balances(Q, n, n)
<1>1. CASE UsesStay
  BY <1>1, Balance_Same
<1>2. CASE \E c \in Channel : Takes(c)
  BY <1>2, Balance_Taken
<1>3. ASSUME NEW c \in Channel, Own(c), ~ Takes(c) PROVE UsesStay
  BY <1>3, UsesStay_Own
<1>4. ASSUME NEW c \in Channel, NEW d \in Channel, ToBeUpdated(c, d) \/ Updated(c, d)
      PROVE  \A Q : \A n \in Int : Balances(Q, n, n)
  BY <1>1, <1>4, Balance_Dropped, UsesStay_Rest
<1>5. ASSUME NEW c \in Channel, ~ Takes(c),
             \/ BeginCycle(c) \/ EndCycle(c) \/ Reset(c)
             \/ \E r \in Region : LaunchVoice(c, r)
      PROVE  \A Q : \A n \in Int : Balances(Q, n, n)
  <2>1. CASE BeginCycle(c)
    BY <1>1, <2>1, UsesStay_Begin
  <2>2. CASE EndCycle(c)
    BY <1>1, <1>5, <2>2, UsesStay_End
  <2>3. CASE Reset(c)
    BY <2>3, Balance_Dropped
  <2>4. CASE \E r \in Region : LaunchVoice(c, r)
    BY <1>1, <2>4, UsesStay_Voices
  <2> QED
    BY <1>5, <2>1, <2>2, <2>3, <2>4
<1>6. ASSUME NEW v \in Voice, FreeVoice(v) PROVE \A Q : \A n \in Int : Balances(Q, n, n)
  <2>1. CASE voice[v].orphan
    BY <1>6, <2>1, Balance_Ended
  <2>2. CASE ~ voice[v].orphan
    BY <1>1, <1>6, <2>2, UsesStay_Voices
  <2> QED
    BY <2>1, <2>2
<1>7. ASSUME NEW i \in Index, NEW mode \in Mode, SetMode(i, mode) PROVE UsesStay
  BY <1>7, UsesStay_Rest
<1> QED
  BY <1>1, <1>2, <1>3, <1>4, <1>5, <1>6, <1>7, NextCases

\* The regions of a list that have a sample
LEMMA PartsOfList ==
  ASSUME NEW used \in SUBSET (Voice \X RegionInst)
  PROVE  /\ \A r : PartOf(used, {r}) = ListedAs(used, r)
         /\ \A s : PartOf(used, RegionsAt(s)) = ListedWith(used, s)
BY DEF PartOf, ListedAs, ListedWith, RegionsAt

\* The counts before and after a step
LEMMA Balance_Step ==
  ASSUME TypeOK, TypeOK', FilesInv, EntryInv, EntryInv', LoaderInv, LoaderInv',
         UpdateInv, UpdateInv', CmdInv, PlayedInv, VoiceInv, UsedInv, UsedInv',
         FiniteOrders, FiniteOrders', Orderly, Step
  PROVE  /\ \A r \in RegionInst : Balances({r}, InfoCount(mem, r), InfoCount(mem', r))
         /\ \A s \in SampleInst :
              Balances(RegionsAt(s), SampleCount(mem, s), SampleCount(mem', s))
<1>1. MemType(mem) /\ (\A r : InfoCount(mem, r) \in Int) /\ (\A s : SampleCount(mem, s) \in Int)
  BY MemFields DEF TypeOK
<1>2. ASSUME NEW c \in Channel, HandBackInstrument(c)
      PROVE  /\ \A r \in RegionInst : Balances({r}, InfoCount(mem, r), InfoCount(mem', r))
             /\ \A s \in SampleInst :
                  Balances(RegionsAt(s), SampleCount(mem, s), SampleCount(mem', s))
  <2> DEFINE used == OldCmd(c).used
  <2>1. \A Q : \A n \in Int : Balances(Q, n, n + Cardinality(PartOf(used, Q)))
    BY <1>2, Balance_Counted
  <2>2. used \in SUBSET (Voice \X RegionInst) /\ IsFiniteSet(used)
    BY CopyTypes DEF UsedInv, OldCmd
  <2>3. mem' = Counted(mem, used)
    BY <1>2 DEF HandBackInstrument
  <2> HIDE DEF used
  <2>4. /\ \A r : InfoCount(mem', r) = InfoCount(mem, r) + Cardinality(ListedAs(used, r))
        /\ \A s : SampleCount(mem', s) = SampleCount(mem, s) + Cardinality(ListedWith(used, s))
    BY <1>1, <2>2, <2>3, CountedFacts
  <2>5. /\ \A r : PartOf(used, {r}) = ListedAs(used, r)
        /\ \A s : PartOf(used, RegionsAt(s)) = ListedWith(used, s)
    BY <2>2, PartsOfList
  <2>6. ASSUME NEW r \in RegionInst PROVE Balances({r}, InfoCount(mem, r), InfoCount(mem', r))
    <3>1. Balances({r}, InfoCount(mem, r), InfoCount(mem, r) + Cardinality(PartOf(used, {r})))
      BY <1>1, <2>1 DEF Balances
    <3> QED
      BY <2>4, <2>5, <3>1
  <2>7. ASSUME NEW s \in SampleInst
        PROVE  Balances(RegionsAt(s), SampleCount(mem, s), SampleCount(mem', s))
    <3>1. Balances(RegionsAt(s), SampleCount(mem, s),
                   SampleCount(mem, s) + Cardinality(PartOf(used, RegionsAt(s))))
      BY <1>1, <2>1 DEF Balances
    <3> QED
      BY <2>4, <2>5, <3>1
  <2> QED
    BY <2>6, <2>7
<1>3. ASSUME NEW q \in RegionInst, HandBackRegion(q)
      PROVE  /\ \A r \in RegionInst : Balances({r}, InfoCount(mem, r), InfoCount(mem', r))
             /\ \A s \in SampleInst :
                  Balances(RegionsAt(s), SampleCount(mem, s), SampleCount(mem', s))
  <2>1. \A Q : \A n \in Int : Balances(Q, n, IF q \in Q THEN n - 1 ELSE n)
    BY <1>3, Balance_HandedBack
  <2>2. mem' = RegionHandedBack(mem, q)
    BY <1>3 DEF HandBackRegion
  <2>3. /\ \A r : InfoCount(mem', r) = InfoCount(mem, r) - (IF r = q THEN 1 ELSE 0)
        /\ \A s : SampleCount(mem', s) = SampleCount(mem, s) - (IF s = SampleAt(q) THEN 1 ELSE 0)
    BY <1>1, <2>2, HandedBackCounts
  <2>4. ASSUME NEW r \in RegionInst PROVE Balances({r}, InfoCount(mem, r), InfoCount(mem', r))
    <3>1. Balances({r}, InfoCount(mem, r),
                   IF q \in {r} THEN InfoCount(mem, r) - 1 ELSE InfoCount(mem, r))
      BY <1>1, <2>1 DEF Balances
    <3>2. InfoCount(mem', r) = IF q \in {r} THEN InfoCount(mem, r) - 1 ELSE InfoCount(mem, r)
      BY <1>1, <2>3
    <3> QED
      BY <3>1, <3>2
  <2>5. ASSUME NEW s \in SampleInst
        PROVE  Balances(RegionsAt(s), SampleCount(mem, s), SampleCount(mem', s))
    <3>1. Balances(RegionsAt(s), SampleCount(mem, s),
                   IF q \in RegionsAt(s) THEN SampleCount(mem, s) - 1 ELSE SampleCount(mem, s))
      BY <1>1, <2>1 DEF Balances
    <3>2. q \in RegionsAt(s) <=> s = SampleAt(q)
      BY DEF RegionsAt
    <3>3. SampleCount(mem', s) =
            IF q \in RegionsAt(s) THEN SampleCount(mem, s) - 1 ELSE SampleCount(mem, s)
      BY <1>1, <2>3, <3>2
    <3> QED
      BY <3>1, <3>3
  <2> QED
    BY <2>4, <2>5
<1>4. CASE /\ \A c \in Channel : ~ HandBackInstrument(c)
           /\ \A r \in RegionInst : ~ HandBackRegion(r)
  <2>1. \A Q : \A n \in Int : Balances(Q, n, n)
    BY <1>4, Balance_Rest
  <2>2. /\ \A r : InfoCount(mem', r) = InfoCount(mem, r)
        /\ \A s : SampleCount(mem', s) = SampleCount(mem, s)
    BY <1>4, SameCounts
  <2> QED
    BY <1>1, <2>1, <2>2
<1> QED
  BY <1>2, <1>3, <1>4

LEMMA Count_Step ==
  ASSUME TypeOK, TypeOK', FilesInv, EntryInv, EntryInv', LoaderInv, LoaderInv',
         UpdateInv, UpdateInv', CmdInv, PlayedInv, VoiceInv, UsedInv, UsedInv', CountInv,
         Orderly, Step
  PROVE  CountInv'
<1>1. FiniteOrders /\ FiniteOrders'
  BY Orders_Step DEF FiniteOrders, CountInv
<1>2. /\ \A r \in RegionInst : Balances({r}, InfoCount(mem, r), InfoCount(mem', r))
      /\ \A s \in SampleInst : Balances(RegionsAt(s), SampleCount(mem, s), SampleCount(mem', s))
  BY <1>1, Balance_Step
<1>3. ASSUME NEW r \in RegionInst
      PROVE  InfoCount(mem', r) + Cardinality(LiveOwed({r})') >= Needed({r})'
  BY <1>2 DEF Balances, CountInv
<1>4. ASSUME NEW s \in SampleInst
      PROVE  SampleCount(mem', s) + Cardinality(LiveOwed(RegionsAt(s))') >= Needed(RegionsAt(s))'
  BY <1>2 DEF Balances, CountInv
<1> QED
  BY <1>1, <1>3, <1>4 DEF CountInv, FiniteOrders

LEMMA Exact_Step ==
  ASSUME TypeOK, TypeOK', FilesInv, EntryInv, EntryInv', LoaderInv, LoaderInv',
         UpdateInv, UpdateInv', CmdInv, PlayedInv, VoiceInv, UsedInv, UsedInv', CountInv,
         ExactInv, Orderly, Step
  PROVE  ExactInv'
<1>1. FiniteOrders /\ FiniteOrders'
  BY Orders_Step DEF FiniteOrders, CountInv
<1>2. /\ \A r \in RegionInst : Balances({r}, InfoCount(mem, r), InfoCount(mem', r))
      /\ \A s \in SampleInst : Balances(RegionsAt(s), SampleCount(mem, s), SampleCount(mem', s))
  BY <1>1, Balance_Step
<1>3. "dropped" \notin upset' => "dropped" \notin upset
  BY UpsetGrows
<1>4. ASSUME NEW r \in RegionInst, "dropped" \notin upset'
      PROVE  InfoCount(mem', r) + Cardinality(OwedIn({r})') = Needed({r})'
  BY <1>2, <1>3, <1>4 DEF Balances, ExactInv
<1>5. ASSUME NEW s \in SampleInst, "dropped" \notin upset'
      PROVE  SampleCount(mem', s) + Cardinality(OwedIn(RegionsAt(s))') = Needed(RegionsAt(s))'
  BY <1>2, <1>3, <1>5 DEF Balances, ExactInv
<1> QED
  BY <1>4, <1>5 DEF ExactInv

-----------------------------------------------------------------------------
(* When a file is opened and closed *)

\* What is in use is counted, if its file is not open any more.
LEMMA NeededOnce ==
  ASSUME TypeOK, UsedInv, CountInv, NEW Q, NEW r \in RegionInst, r \in Q
  PROVE  /\ ordered[r] > 0 => Needed(Q) >= 1
         /\ (\E v \in Voice : voice[v] # None /\ voice[v].region = r /\ Disowned(v)) =>
              Needed(Q) >= 1
<1>1. /\ IsFiniteSet(OrdersIn(Q)) /\ Cardinality(OrdersIn(Q)) \in Nat
      /\ IsFiniteSet(VoicesIn(Q)) /\ Cardinality(VoicesIn(Q)) \in Nat
  BY FiniteUses DEF CountInv
<1>2. ordered[r] > 0 => <<r, 1>> \in OrdersIn(Q)
  BY DEF OrdersIn, TypeOK
<1>3. \A v \in Voice : voice[v] # None /\ voice[v].region = r /\ Disowned(v) => v \in VoicesIn(Q)
  BY DEF VoicesIn
<1>4. OrdersIn(Q) # {} => Cardinality(OrdersIn(Q)) # 0
  BY <1>1, FS_EmptySet
<1>5. VoicesIn(Q) # {} => Cardinality(VoicesIn(Q)) # 0
  BY <1>1, FS_EmptySet
<1>6. (OrdersIn(Q) # {} \/ VoicesIn(Q) # {}) => Needed(Q) >= 1
  BY <1>1, <1>4, <1>5 DEF Needed
<1> QED
  BY <1>2, <1>3, <1>6

\* What a channel is to go on playing is in the open file.
LEMMA PlayedIsAlive ==
  ASSUME TypeOK, EntryInv, LoaderInv, UpdateInv, CmdInv, PlayedInv,
         NEW c \in Channel, played[c] # None, ~ Committed(c)
  PROVE  Alive(played[c][1])
<1>1. played[c][1] = gig.file /\ gig.file # 0 /\ Consumer(c)
  BY UsedIsOpen DEF PlayedInv
<1>2. ~ Stopped(c)
  BY DEF Stopped
<1>3. pc[c] # "cleanup"
  BY DEF LoaderInv, Midway, CmdInv, Committed
<1> QED
  BY <1>1, <1>2, <1>3, DyingFacts DEF Alive

GoneCounted == \A r \in RegionInst : InPlay(r) /\ ~ Alive(r[1]) =>
  /\ InfoCount(mem, r) >= 1 /\ SampleCount(mem, SampleAt(r)) >= 1
  /\ r \in DOMAIN mem.info /\ SampleAt(r) \in DOMAIN mem.refs

LEMMA GoneIsCounted ==
  ASSUME TypeOK, EntryInv, LoaderInv, UpdateInv, CmdInv, PlayedInv, VoiceInv, UsedInv, CountInv
  PROVE  GoneCounted
<1> SUFFICES ASSUME NEW r \in RegionInst, InPlay(r), ~ Alive(r[1])
    PROVE  /\ InfoCount(mem, r) >= 1 /\ SampleCount(mem, SampleAt(r)) >= 1
           /\ r \in DOMAIN mem.info /\ SampleAt(r) \in DOMAIN mem.refs
  BY DEF GoneCounted
<1>1. ASSUME NEW v \in Voice, voice[v] # None, voice[v].region = r PROVE Disowned(v)
  <2>1. voice[v].chan \in Channel
    BY <1>1, VoiceTypes
  <2>2. ~ voice[v].orphan => /\ played[voice[v].chan] # None
                             /\ r[1] = played[voice[v].chan][1]
    BY <1>1 DEF VoiceInv
  <2>3. ~ voice[v].orphan => Committed(voice[v].chan)
    BY <2>1, <2>2, PlayedIsAlive
  <2> QED
    BY <2>3, DisownedIs
<1>2. \A Q : r \in Q => Needed(Q) >= 1
  BY <1>1, NeededOnce DEF InPlay
<1>3. SampleAt(r) \in SampleInst /\ r \in RegionsAt(SampleAt(r))
  BY SampleAtType DEF RegionsAt
<1>4. ASSUME NEW Q, \A q \in Q : q[1] = r[1] PROVE Cardinality(LiveOwed(Q)) = 0
  <2>1. LiveOwed(Q) = {}
    BY <1>4 DEF LiveOwed
  <2> QED
    BY <2>1, FS_EmptySet
<1>5. \A q \in RegionsAt(SampleAt(r)) : q[1] = r[1]
  <2>1. \A q \in RegionInst : SampleAt(q)[1] = q[1]
    BY SampleAtType
  <2> QED
    BY <2>1 DEF RegionsAt
<1>6. Cardinality(LiveOwed({r})) = 0 /\ Cardinality(LiveOwed(RegionsAt(SampleAt(r)))) = 0
  BY <1>4, <1>5
<1>7. InfoCount(mem, r) \in Int /\ SampleCount(mem, SampleAt(r)) \in Int
  BY MemFields DEF TypeOK
<1>8. Needed({r}) >= 1 /\ Needed(RegionsAt(SampleAt(r))) >= 1
  BY <1>2, <1>3
<1>9. Needed({r}) \in Nat /\ Needed(RegionsAt(SampleAt(r))) \in Nat
  BY FiniteUses DEF CountInv
<1>10. InfoCount(mem, r) >= 1 /\ SampleCount(mem, SampleAt(r)) >= 1
  BY <1>3, <1>6, <1>7, <1>8, <1>9 DEF CountInv
<1> QED
  BY <1>10 DEF InfoCount, Known, SampleCount

LEMMA GoneIsCountedNext ==
  ASSUME TypeOK', EntryInv', LoaderInv', UpdateInv', CmdInv', PlayedInv', VoiceInv', UsedInv',
         CountInv'
  PROVE  GoneCounted'
BY GoneIsCounted, PTL

\* A file becomes the open one when it is read.
LEMMA FileOpens ==
  ASSUME TypeOK, FilesInv, EntryInv, LoaderInv, UpdateInv, Step, NEW f, Alive(f)', ~ Alive(f)
  PROVE  f = gig.made + 1 /\ f = gig'.file
         /\ ((\E i \in Index : Reads(i)) \/ \E c \in Channel : Renews(c))
<1>0. gig \in GigType /\ gig.file \in Nat /\ gig.made \in Nat /\ gig.file <= gig.made
  BY DEF TypeOK, GigType, FilesInv, Files
<1>1. f = gig'.file /\ f # 0 /\ ~ Dying'
  BY DEF Alive
<1>2. ASSUME NEW c \in Channel, pc[c] = "cleanup", ~ UpdateCreates(c)
      PROVE  pc'[c] = "cleanup" /\ want'[c] = want[c] /\ UNCHANGED gig
  <2>1. ~ Own(c)
    BY <1>2 DEF Own, LoadInstrument, HandBackInstrument, NothingToHandBack, HandBack, BorrowNew,
       BorrowFails, BorrowExisting, UpdateDestroys, UpdateCreates, UpdateEnds, UseInstrument,
       Finish, UnloadInstrument
  <2> QED
    BY <1>2, <2>1, OthersSteps, UsersSame DEF Updating
<1>3. ASSUME NEW c \in Channel, Renews(c), LastUser(gig, want[c]) PROVE f = gig.made + 1
  <2>1. /\ HandedBack(gig, want[c]) \in GigType /\ HandedBack(gig, want[c]).file = 0
        /\ HandedBack(gig, want[c]).made = gig.made
    BY <1>0, <1>3, HandedBackFacts DEF Renews
  <2> QED
    BY <1>1, <1>3, <2>1 DEF Renews, Opened
<1>4. CASE Dying
  <2>1. PICK c \in Channel : pc[c] = "cleanup" /\ LastUser(gig, want[c])
    BY <1>4 DEF Dying
  <2>2. UpdateCreates(c)
    BY <1>1, <1>2, <2>1 DEF Dying
  <2>3. Renews(c)
    <3>1. gig'.file \in Files /\ want[c] \in Index
      BY <2>2, UpdateCreatesEntries
    <3> QED
      BY <2>2, <3>1 DEF UpdateCreates, Create, Renews
  <2> QED
    BY <1>1, <1>3, <2>1, <2>3
<1>5. CASE ~ Dying
  <2>1. f # gig.file
    BY <1>1, <1>5 DEF Alive
  <2>2. ~ (\E i \in Index : Frees(i))
    <3>1. ASSUME NEW i \in Index, Frees(i) PROVE gig'.file = 0
      BY <1>0, <3>1, HandedBackFacts DEF Frees
    <3> QED
      BY <1>1, <3>1
  <2>3. ASSUME NEW i \in Index, Reads(i) PROVE f = gig.made + 1
    BY <1>0, <1>1, <2>1, <2>3 DEF Reads, Opened
  <2>4. ASSUME NEW c \in Channel, Renews(c) PROVE f = gig.made + 1
    <3>1. ~ LastUser(gig, want[c]) => HandedBack(gig, want[c]).file = gig.file /\
                                      HandedBack(gig, want[c]).made = gig.made
      BY <1>0, <2>4, HandedBackFacts DEF Renews
    <3>2. ~ LastUser(gig, want[c]) => f = gig.made + 1
      BY <1>1, <2>1, <2>4, <3>1 DEF Renews, Opened
    <3> QED
      BY <1>3, <2>4, <3>2
  <2>5. ASSUME NEW c \in Channel, UpdateDestroys(c) \/ HandBackInstrument(c) PROVE UNCHANGED gig
    BY <2>5 DEF UpdateDestroys, HandBackInstrument
  <2>6. ASSUME NEW r \in RegionInst, HandBackRegion(r) PROVE UNCHANGED gig
    BY <2>6 DEF HandBackRegion
  <2> QED
    BY <1>1, <2>1, <2>2, <2>3, <2>4, <2>5, <2>6, MemMoves
<1> QED
  BY <1>4, <1>5

\* The open file is closed when its last instrument is freed or is to be created anew.
LEMMA FileCloses ==
  ASSUME TypeOK, FilesInv, EntryInv, LoaderInv, UpdateInv, Step, NEW f, Alive(f), ~ Alive(f)'
  PROVE  \/ \E i \in Index : Frees(i)
         \/ \E c \in Channel : /\ UpdateDestroys(c) /\ LastUser(gig, want[c])
                               /\ mem' = Walk(mem, gig.file)
<1> USE DEF audio, manager, loader, bounds
<1>0. gig \in GigType
  BY DEF TypeOK, GigType
<1>1. f = gig.file /\ f # 0 /\ ~ Dying
  BY DEF Alive
<1>2. CASE gig'.file # gig.file
  <2>1. ASSUME NEW i \in Index, Reads(i) PROVE FALSE
    <3>1. Opened(gig, i).file = gig.file
      BY <1>0, <1>1, OpenedFacts
    <3> QED
      BY <1>2, <2>1, <3>1 DEF Reads
  <2>2. ASSUME NEW c \in Channel, Renews(c) PROVE FALSE
    <3>1. ~ LastUser(gig, want[c])
      BY <1>1, <2>2 DEF Dying, Renews, UpdateCreates
    <3>2. HandedBack(gig, want[c]).file = gig.file
      BY <1>0, <2>2, <3>1, HandedBackFacts DEF Renews
    <3> QED
      BY <1>1, <1>2, <2>2, <3>2 DEF Renews, Opened
  <2>3. ASSUME NEW c \in Channel, UpdateDestroys(c) \/ HandBackInstrument(c) PROVE UNCHANGED gig
    BY <2>3 DEF UpdateDestroys, HandBackInstrument
  <2>4. ASSUME NEW r \in RegionInst, HandBackRegion(r) PROVE UNCHANGED gig
    BY <2>4 DEF HandBackRegion
  <2> QED
    BY <1>2, <2>1, <2>2, <2>3, <2>4, MemMoves
<1>3. CASE gig'.file = gig.file
  <2>1. PICK e \in Channel : pc'[e] = "cleanup" /\ LastUser(gig', want'[e])
    BY <1>1, <1>3 DEF Alive, Dying
  <2>2. CASE pc[e] = "cleanup"
    <3>1. ~ Own(e)
      BY <2>1, <2>2 DEF Own, LoadInstrument, HandBackInstrument, NothingToHandBack, HandBack,
         BorrowNew, BorrowFails, BorrowExisting, UpdateDestroys, UpdateCreates, UpdateEnds,
         UseInstrument, Finish, UnloadInstrument, TypeOK
    <3>2. want'[e] = want[e] /\ UNCHANGED gig
      BY <2>2, <3>1, OthersSteps, UsersSame DEF Updating, Own
    <3> QED
      BY <1>1, <2>1, <2>2, <3>2 DEF Dying
  <2>3. CASE pc[e] # "cleanup"
    <3>1. Own(e)
      BY <2>1, <2>3, OthersSteps
    <3>2. UpdateDestroys(e)
      BY <2>1, <3>1 DEF Own, LoadInstrument, HandBackInstrument, NothingToHandBack, HandBack,
         BorrowNew, BorrowFails, BorrowExisting, UpdateCreates, UpdateEnds,
         UseInstrument, Finish, UnloadInstrument, TypeOK, Borrowed
    <3>3. UNCHANGED gig /\ want'[e] = want[e]
      BY <3>2 DEF UpdateDestroys
    <3> QED
      BY <2>1, <3>2, <3>3 DEF UpdateDestroys
  <2> QED
    BY <2>2, <2>3
<1> QED
  BY <1>2, <1>3

\* The file that is read is the open one.
LEMMA ReadIsAlive ==
  ASSUME TypeOK, FilesInv, EntryInv, LoaderInv, UpdateInv, Step,
         (\E i \in Index : Reads(i)) \/ \E c \in Channel : Renews(c)
  PROVE  Alive(gig.file)'
<1> USE DEF audio, manager, loader, bounds
<1>1. gig'.file \in Files /\ gig'.file # 0
  BY DEF Reads, Renews, Files
<1>2. \A e \in Channel : pc'[e] # "cleanup"
  <2>1. ASSUME NEW c \in Channel, BorrowNew(c) PROVE \A e \in Channel : pc'[e] # "cleanup"
    <3>1. \A e \in Channel : pc[e] # "cleanup"
      BY <2>1, NoneAssumption DEF BorrowNew, LoaderInv, Updating
    <3> QED
      BY <2>1, <3>1 DEF BorrowNew, Borrowed, TypeOK
  <2>2. ASSUME NEW i \in Index, NEW mode \in Mode, SetMode(i, mode)
        PROVE  \A e \in Channel : pc'[e] # "cleanup"
    <3>1. UNCHANGED pc /\ entriesMutex = None
      BY <2>2 DEF SetMode
    <3> QED
      BY <3>1, NoneAssumption DEF LoaderInv, Updating
  <2>3. ASSUME NEW c \in Channel, UpdateCreates(c) PROVE \A e \in Channel : pc'[e] # "cleanup"
    <3>1. pc[c] = "cleanup" /\ pc' = [pc EXCEPT ![c] = "updated"]
      BY <2>3 DEF UpdateCreates
    <3>2. \A e \in Channel \ {c} : pc[e] # "cleanup"
      BY <3>1 DEF LoaderInv, Updating
    <3> QED
      BY <3>1, <3>2 DEF TypeOK
  <2> QED
    BY <2>1, <2>2, <2>3 DEF Reads, Renews
<1> QED
  BY <1>1, <1>2 DEF Alive, Dying

-----------------------------------------------------------------------------
(* The open file is in memory *)

Present(m, f) == /\ f \in m.files
                 /\ RegionsIn(f) \subseteq m.regions /\ SamplesIn(f) \subseteq m.samples
                 /\ \A r \in DOMAIN m.info : r[1] = f => ~ m.info[r].kept

\* Every memory that is of a type has regions and samples of files.
LEMMA PresentIs ==
  ASSUME NEW m, MemType(m), NEW f \in Files
  PROVE  Present(m, f) <=> /\ f \in m.files
                           /\ \A r \in RegionInst : r[1] = f => r \in m.regions
                           /\ \A s \in SampleInst : s[1] = f => s \in m.samples
                           /\ \A r \in DOMAIN m.info : r[1] = f => ~ m.info[r].kept
<1>1. /\ \A r \in RegionsIn(f) : r \in RegionInst /\ r[1] = f
      /\ \A s \in SamplesIn(f) : s \in SampleInst /\ s[1] = f
  BY DEF RegionsIn, SamplesIn, RegionInst, SampleInst
<1>2. /\ \A r \in RegionInst : r[1] = f => r \in RegionsIn(f)
      /\ \A s \in SampleInst : s[1] = f => s \in SamplesIn(f)
  BY InFile
<1> QED
  BY <1>1, <1>2 DEF Present

\* To read a file puts all of it into memory, and takes nothing away.
LEMMA LoadedPresent ==
  ASSUME NEW m, MemType(m), NEW f \in Files,
         \/ Present(m, f)
         \/ f \notin m.files /\ \A r \in DOMAIN m.info : r[1] # f
  PROVE  Present(Loaded(m, f), f)
<1>1. /\ MemType(Loaded(m, f)) /\ f \in Loaded(m, f).files /\ Loaded(m, f).info = m.info
      /\ \A r \in RegionInst : r \in Loaded(m, f).regions <=>
           r \in m.regions \/ (r[1] = f /\ f \notin m.files)
      /\ \A s \in SampleInst : s \in Loaded(m, f).samples <=>
           s \in m.samples \/ (s[1] = f /\ f \notin m.files)
  BY LoadedFacts
<1>2. CASE Present(m, f)
  BY <1>1, <1>2, PresentIs
<1>3. CASE f \notin m.files /\ \A r \in DOMAIN m.info : r[1] # f
  BY <1>1, <1>3, PresentIs
<1> QED
  BY <1>2, <1>3

\* What the disk thread hands back is not of the open file, or does not free anything.
LEMMA HandedBackPresent ==
  ASSUME NEW m, MemType(m), NEW q \in RegionInst, NEW f \in Files, Present(m, f)
  PROVE  Present(RegionHandedBack(m, q), f)
<1> DEFINE b == RegionHandedBack(m, q)
<1>1. /\ MemType(b)
      /\ \A r \in DOMAIN b.info : b.info[r].kept <=> r \in DOMAIN m.info /\ m.info[r].kept
      /\ ~ SampleFreed(m, q) =>
           b.files = m.files /\ b.regions = m.regions /\ b.samples = m.samples
      /\ SampleFreed(m, q) /\ ~ LastSample(m, q) =>
           /\ b.files = m.files /\ b.regions = m.regions /\ b.samples = m.samples \ {SampleAt(q)}
      /\ SampleFreed(m, q) /\ LastSample(m, q) =>
           /\ b.files = m.files \ {q[1]} /\ b.regions = m.regions \ RegionsIn(q[1])
           /\ b.samples = m.samples \ SamplesIn(q[1])
  BY HandedBackCounts
<1>2. SampleFreed(m, q) => q[1] # f
  BY DEF SampleFreed, Present
<1>3. SampleAt(q)[1] = q[1]
  BY SampleAtType
<1>4. /\ \A r \in RegionInst : r \in RegionsIn(q[1]) <=> r[1] = q[1]
      /\ \A s \in SampleInst : s \in SamplesIn(q[1]) <=> s[1] = q[1]
  BY InFile
<1> HIDE DEF b
<1>5. f \in b.files
  BY <1>1, <1>2, PresentIs
<1>6. ASSUME NEW r \in RegionInst, r[1] = f PROVE r \in b.regions
  BY <1>1, <1>2, <1>4, <1>6, PresentIs
<1>7. ASSUME NEW s \in SampleInst, s[1] = f PROVE s \in b.samples
  BY <1>1, <1>2, <1>3, <1>4, <1>7, PresentIs
<1>8. ASSUME NEW r \in DOMAIN b.info, r[1] = f PROVE ~ b.info[r].kept
  BY <1>1, <1>8, PresentIs
<1> QED
  BY <1>1, <1>5, <1>6, <1>7, <1>8, PresentIs DEF b

LEMMA Alive_Step ==
  ASSUME TypeOK, TypeOK', FilesInv, BornInv, EntryInv, LoaderInv, UpdateInv, UsedInv, AliveInv,
         Step
  PROVE  AliveInv'
<1> USE DEF audio, manager, loader, bounds
<1>0. /\ MemType(mem) /\ MemType(mem') /\ gig \in GigType /\ gig.made \in Nat
      /\ \A f \in mem.files : f <= gig.made
      /\ \A r \in DOMAIN mem.info : r[1] <= gig.made
  BY DEF TypeOK, GigType, FilesInv, BornInv
<1> SUFFICES ASSUME NEW f \in Files, Alive(f)' PROVE Present(mem', f)
  BY DEF AliveInv, Present
<1>1. f = gig'.file /\ f # 0 /\ ~ Dying'
  BY DEF Alive
<1>2. CASE Alive(f)
  <2>1. Present(mem, f) /\ f = gig.file /\ ~ Dying
    BY <1>2 DEF AliveInv, Present, Alive
  <2>2. ASSUME NEW i \in Index, Frees(i) PROVE FALSE
    <3>1. gig'.file = 0
      BY <1>0, <2>2, HandedBackFacts DEF Frees
    <3> QED
      BY <1>1, <3>1
  <2>3. ASSUME NEW i \in Index, Reads(i) PROVE Present(mem', f)
    BY <1>0, <1>1, <2>1, <2>3, LoadedPresent DEF Reads
  <2>4. ASSUME NEW c \in Channel, UpdateDestroys(c), LastUser(gig, want[c]) PROVE FALSE
    <3>1. pc'[c] = "cleanup" /\ UNCHANGED <<gig, want>>
      BY <2>4 DEF UpdateDestroys, TypeOK
    <3>2. LastUser(gig', want'[c])
      BY <2>4, <3>1
    <3> QED
      BY <1>1, <3>1, <3>2 DEF Dying
  <2>5. ASSUME NEW c \in Channel, Renews(c) PROVE Present(mem', f)
    <3>1. ~ LastUser(gig, want[c])
      BY <2>1, <2>5 DEF Dying, Renews, UpdateCreates
    <3>2. mem' = Loaded(mem, f)
      BY <1>1, <2>5, <3>1 DEF Renews
    <3> QED
      BY <1>0, <2>1, <3>2, LoadedPresent
  <2>6. ASSUME NEW c \in Channel, HandBackInstrument(c) PROVE Present(mem', f)
    <3>1. /\ mem' = Counted(mem, OldCmd(c).used)
          /\ OldCmd(c).used \in SUBSET (Voice \X RegionInst) /\ IsFiniteSet(OldCmd(c).used)
      BY <2>6, CopyTypes DEF UsedInv, OldCmd, HandBackInstrument
    <3> DEFINE used == OldCmd(c).used
    <3> HIDE DEF used
    <3>2. /\ mem'.files = mem.files /\ mem'.regions = mem.regions /\ mem'.samples = mem.samples
          /\ DOMAIN mem'.info = DOMAIN mem.info \cup RegionsListed(used)
          /\ \A r \in DOMAIN mem.info \cup RegionsListed(used) :
               mem'.info[r].kept <=> r \in DOMAIN mem.info /\ mem.info[r].kept
      BY <1>0, <3>1, CountedFacts DEF used
    <3> QED
      BY <2>1, <3>2 DEF Present
  <2>7. ASSUME NEW r \in RegionInst, HandBackRegion(r) PROVE Present(mem', f)
    BY <1>0, <2>1, <2>7, HandedBackPresent DEF HandBackRegion
  <2>8. CASE UNCHANGED mem
    BY <2>1, <2>8
  <2> QED
    BY <2>2, <2>3, <2>4, <2>5, <2>6, <2>7, <2>8, MemMoves
<1>3. CASE ~ Alive(f)
  <2>1. f = gig.made + 1 /\ ((\E i \in Index : Reads(i)) \/ \E c \in Channel : Renews(c))
    BY <1>3, FileOpens
  <2>2. f \notin mem.files /\ \A r \in DOMAIN mem.info : r[1] # f
    <3>1. ~ (f <= gig.made)
      BY <1>0, <2>1
    <3> QED
      BY <1>0, <3>1
  <2>3. ASSUME NEW i \in Index, Reads(i) PROVE Present(mem', f)
    BY <1>0, <1>1, <2>2, <2>3, LoadedPresent DEF Reads
  <2>4. ASSUME NEW c \in Channel, Renews(c) PROVE Present(mem', f)
    <3>1. MemType(Cleanup(mem, gig.file)) /\ Cleanup(mem, gig.file).info = mem.info
          /\ Cleanup(mem, gig.file).files = mem.files
      BY <1>0, CleanupFacts
    <3>2. PICK m : /\ MemType(m) /\ m.info = mem.info /\ m.files = mem.files
                   /\ mem' = Loaded(m, f)
      BY <1>0, <1>1, <2>4, <3>1 DEF Renews
    <3> QED
      BY <2>2, <3>2, LoadedPresent
  <2> QED
    BY <2>1, <2>3, <2>4
<1> QED
  BY <1>2, <1>3

-----------------------------------------------------------------------------
(* What is in use is in memory *)

\* A region comes into play when a voice of it is triggered.
LEMMA InPlayMoves ==
  ASSUME TypeOK, Step, NEW r \in RegionInst, InPlay(r)'
  PROVE  \/ InPlay(r)
         \/ \E c \in Channel : \E q \in Region : LaunchVoice(c, q) /\ r = <<played[c][1], q>>
<1> USE DEF audio, manager, loader, bounds
<1>1. ASSUME NEW c \in Channel, DropVoices(c), UNCHANGED ordered PROVE InPlay(r)
  BY <1>1 DEF DropVoices, InPlay
<1>2. ASSUME NEW e \in Channel, NEW d \in Channel, ToBeUpdated(e, d) PROVE InPlay(r)
  BY <1>1, <1>2 DEF ToBeUpdated
<1>3. ASSUME NEW e \in Channel, NEW d \in Channel, Updated(e, d) PROVE InPlay(r)
  BY <1>3 DEF Updated, InPlay
<1>4. ASSUME NEW c \in Channel, BeginCycle(c) PROVE InPlay(r)
  <2>1. UNCHANGED ordered
    BY <1>4 DEF BeginCycle
  <2>2. \A v \in Voice : voice'[v] # None /\ voice'[v].region = r =>
          voice[v] # None /\ voice[v].region = r
    BY <1>4, BeginVoices
  <2> QED
    BY <2>1, <2>2 DEF InPlay
<1>5. ASSUME NEW c \in Channel, Reset(c) PROVE InPlay(r)
  BY <1>1, <1>5 DEF Reset
<1>6. ASSUME NEW c \in Channel, NEW q \in Region, LaunchVoice(c, q)
      PROVE  InPlay(r) \/ r = <<played[c][1], q>>
  <2>1. PICK w \in Voice :
          /\ voice'[w] = [chan |-> c, region |-> <<played[c][1], q>>, orphan |-> FALSE]
          /\ \A v \in Voice \ {w} : voice'[v] = voice[v]
    BY <1>6, LaunchFacts
  <2>2. UNCHANGED ordered
    BY <1>6 DEF LaunchVoice
  <2> QED
    BY <2>1, <2>2 DEF InPlay
<1>7. ASSUME NEW v \in Voice, FreeVoice(v) PROVE InPlay(r)
  <2>1. /\ voice[v] # None /\ voice' = [voice EXCEPT ![v] = None]
        /\ ordered' = ordered \/ ordered' = [ordered EXCEPT ![voice[v].region] = @ + 1]
    BY <1>7 DEF FreeVoice
  <2>2. \A w \in Voice : voice'[w] # None => voice'[w] = voice[w]
    BY <2>1 DEF TypeOK
  <2>3. ordered'[r] > 0 => ordered[r] > 0 \/ r = voice[v].region
    BY <2>1 DEF TypeOK
  <2> QED
    BY <2>1, <2>2, <2>3 DEF InPlay
<1>8. ASSUME NEW q \in RegionInst, HandBackRegion(q) PROVE InPlay(r)
  <2>1. UNCHANGED voice /\ ordered' = [ordered EXCEPT ![q] = @ - 1]
    BY <1>8 DEF HandBackRegion
  <2>2. ordered'[r] > 0 => ordered[r] > 0
    BY <2>1 DEF TypeOK
  <2> QED
    BY <2>1, <2>2 DEF InPlay
<1>9. CASE UNCHANGED <<voice, ordered>>
  BY <1>9 DEF InPlay
<1> QED
  BY <1>2, <1>3, <1>4, <1>5, <1>6, <1>7, <1>8, <1>9, VoiceMoves

Held(m, r) == /\ r \in DOMAIN m.info /\ m.info[r].kept
              /\ r \in m.regions /\ SampleAt(r) \in m.samples

\* A region that is kept for its voices is kept as long as it and its sample are counted.
LEMMA HeldStays ==
  ASSUME TypeOK, TypeOK', FilesInv, EntryInv, LoaderInv, UsedInv, Step, NEW r \in RegionInst,
         Held(mem, r), r \in DOMAIN mem'.info, SampleAt(r) \in DOMAIN mem'.refs
  PROVE  Held(mem', r)
<1> DEFINE s == SampleAt(r)
<1>0. /\ MemType(mem) /\ s \in SampleInst /\ s[1] = r[1]
      /\ r \in DOMAIN mem.info /\ mem.info[r].kept /\ r \in mem.regions /\ s \in mem.samples
  BY SampleAtType DEF TypeOK, Held
<1> HIDE DEF s
<1>1. ASSUME NEW i \in Index, Frees(i) PROVE Held(mem', r)
  <2>1. mem' = DestroyedMem(mem, gig, i) /\ LastUser(gig, i)
    BY <1>1 DEF Frees
  <2>2. /\ mem'.refs = mem.refs /\ mem'.info[r].kept
        /\ r \in mem'.regions
        /\ s \in mem'.samples <=>
             s[1] # gig.file \/ (s \in DOMAIN mem.refs /\ \E q \in DOMAIN mem.info : q[1] = gig.file)
    BY <1>0, <2>1, DestroyedFacts
  <2>3. s \in mem'.samples
    BY <1>0, <2>2 DEF s
  <2> QED
    BY <2>2, <2>3 DEF Held, s
<1>2. ASSUME NEW m, MemType(m), Held(m, r), NEW f \in Files PROVE Held(Loaded(m, f), r)
  BY <1>0, <1>2, LoadedFacts DEF Held, s
<1>3. ASSUME NEW i \in Index, Reads(i) PROVE Held(mem', r)
  BY <1>0, <1>2, <1>3 DEF Reads
<1>4. ASSUME mem' = Walk(mem, gig.file) PROVE Held(mem', r)
  <2>1. /\ mem'.info[r].kept /\ r \in mem'.regions /\ s \in mem'.samples
    BY <1>0, <1>4, WalkFacts
  <2> QED
    BY <2>1 DEF Held, s
<1>5. ASSUME NEW c \in Channel, Renews(c) PROVE Held(mem', r)
  <2> DEFINE m == IF LastUser(gig, want[c]) THEN Cleanup(mem, gig.file) ELSE mem
  <2>1. mem' = Loaded(m, gig'.file) /\ gig'.file \in Files
    BY <1>5 DEF Renews
  <2>2. /\ MemType(m) /\ m.info = mem.info /\ m.refs = mem.refs /\ m.regions = mem.regions
        /\ s \in m.samples <=> ~ LastUser(gig, want[c]) \/ s[1] # gig.file \/ s \in DOMAIN mem.refs
    BY <1>0, CleanupFacts
  <2> HIDE DEF m
  <2>3. mem'.refs = m.refs
    BY <2>1, <2>2, LoadedFacts
  <2>4. Held(m, r)
    BY <1>0, <2>2, <2>3 DEF Held, s
  <2> QED
    BY <1>2, <2>1, <2>2, <2>4
<1>6. ASSUME NEW c \in Channel, HandBackInstrument(c) PROVE Held(mem', r)
  <2>1. /\ mem' = Counted(mem, OldCmd(c).used)
        /\ OldCmd(c).used \in SUBSET (Voice \X RegionInst) /\ IsFiniteSet(OldCmd(c).used)
    BY <1>6, CopyTypes DEF UsedInv, OldCmd, HandBackInstrument
  <2> DEFINE used == OldCmd(c).used
  <2> HIDE DEF used
  <2>2. /\ mem'.regions = mem.regions /\ mem'.samples = mem.samples /\ mem'.info[r].kept
    BY <1>0, <2>1, CountedFacts DEF used
  <2> QED
    BY <1>0, <2>2 DEF Held, s
<1>7. ASSUME NEW q \in RegionInst, HandBackRegion(q) PROVE Held(mem', r)
  <2>1. mem' = RegionHandedBack(mem, q)
    BY <1>7 DEF HandBackRegion
  <2>2. /\ MemType(mem') /\ mem'.info[r].kept
        /\ SampleAt(q) \in DOMAIN mem'.refs <=>
             InfoCount(mem', q) # 0 \/ SampleCount(mem', SampleAt(q)) # 0
        /\ ~ SampleFreed(mem, q) =>
             mem'.regions = mem.regions /\ mem'.samples = mem.samples
        /\ SampleFreed(mem, q) /\ ~ LastSample(mem, q) =>
             mem'.regions = mem.regions /\ mem'.samples = mem.samples \ {SampleAt(q)}
        /\ SampleFreed(mem, q) /\ LastSample(mem, q) =>
             /\ mem'.regions = mem.regions \ RegionsIn(q[1])
             /\ mem'.samples = mem.samples \ SamplesIn(q[1])
    BY <1>0, <2>1, HandedBackCounts
  <2>3. SampleFreed(mem, q) => s # SampleAt(q)
    BY <2>1, <2>2 DEF SampleFreed, s
  <2>4. /\ s \in SamplesIn(q[1]) <=> s[1] = q[1]
        /\ r \in RegionsIn(q[1]) <=> r[1] = q[1]
    BY <1>0, InFile
  <2>5. SampleFreed(mem, q) /\ LastSample(mem, q) => s[1] # q[1]
    BY <1>0, <2>3, <2>4 DEF LastSample
  <2>6. r \in mem'.regions /\ s \in mem'.samples
    BY <1>0, <2>2, <2>3, <2>4, <2>5
  <2> QED
    BY <2>2, <2>6 DEF Held, s
<1>8. CASE UNCHANGED mem
  BY <1>8
<1> QED
  BY <1>1, <1>3, <1>4, <1>5, <1>6, <1>7, <1>8, MemMoves

LEMMA Gone_Step ==
  ASSUME TypeOK, TypeOK', FilesInv, EntryInv, LoaderInv, UpdateInv, CmdInv, PlayedInv, UsedInv,
         AliveInv, GoneInv, GoneCounted', Step
  PROVE  GoneInv'
<1> USE DEF audio, manager, loader, bounds
<1> SUFFICES ASSUME NEW r \in RegionInst, InPlay(r)', ~ Alive(r[1])' PROVE Held(mem', r)
  BY DEF GoneInv, Held
<1>1. r \in DOMAIN mem'.info /\ SampleAt(r) \in DOMAIN mem'.refs
  BY DEF GoneCounted
<1>2. ASSUME NEW c \in Channel, NEW q \in Region, LaunchVoice(c, q), r = <<played[c][1], q>>
      PROVE  FALSE
  <2>1. Alive(played[c][1])
    BY <1>2, PlaysBorrowed, PlayedIsAlive DEF LaunchVoice
  <2>2. UNCHANGED <<gig, pc, want>>
    BY <1>2 DEF LaunchVoice
  <2> QED
    BY <1>2, <2>1, <2>2 DEF Alive, Dying, LastUser
<1>3. InPlay(r)
  BY <1>2, InPlayMoves
<1>4. CASE ~ Alive(r[1])
  <2>1. Held(mem, r)
    BY <1>3, <1>4 DEF GoneInv, Held
  <2> QED
    BY <1>1, <2>1, HeldStays
<1>5. CASE Alive(r[1])
  <2> DEFINE s == SampleAt(r)
  <2>1. /\ MemType(mem) /\ s \in SampleInst /\ s[1] = r[1] /\ r[1] \in Files /\ r[1] = gig.file
    BY <1>5, SampleAtType DEF TypeOK, Alive
  <2>2. r \in mem.regions /\ s \in mem.samples
    BY <1>5, <2>1, InFile DEF AliveInv
  <2> HIDE DEF s
  <2>3. ASSUME NEW i \in Index, Frees(i) PROVE Held(mem', r)
    <3>1. mem' = DestroyedMem(mem, gig, i) /\ LastUser(gig, i)
      BY <2>3 DEF Frees
    <3>2. r \in DOMAIN mem.info /\ s \in DOMAIN mem.refs
      BY <1>1, <2>1, <3>1, DestroyedFacts DEF s
    <3>3. mem'.info[r].kept /\ r \in mem'.regions /\ s \in mem'.samples
      BY <2>1, <2>2, <3>1, <3>2, DestroyedFacts
    <3> QED
      BY <1>1, <3>3 DEF Held, s
  <2>4. ASSUME mem' = Walk(mem, gig.file) PROVE Held(mem', r)
    <3>1. r \in DOMAIN mem.info
      BY <1>1, <2>1, <2>4, WalkFacts
    <3>2. mem'.info[r].kept /\ r \in mem'.regions /\ s \in mem'.samples
      BY <2>1, <2>2, <2>4, <3>1, WalkFacts
    <3> QED
      BY <1>1, <3>2 DEF Held, s
  <2> QED
    BY <1>5, <2>3, <2>4, FileCloses
<1> QED
  BY <1>4, <1>5

-----------------------------------------------------------------------------
(* What is kept is in use *)

\* Two sets whose elements are told apart
LEMMA TaggedSize ==
  ASSUME NEW S, NEW T, IsFiniteSet(S), IsFiniteSet(T)
  PROVE  /\ IsFiniteSet(({0} \X S) \cup ({1} \X T))
         /\ Cardinality(({0} \X S) \cup ({1} \X T)) = Cardinality(S) + Cardinality(T)
<1>1. ASSUME NEW k, NEW R, IsFiniteSet(R)
      PROVE  IsFiniteSet({k} \X R) /\ Cardinality({k} \X R) = Cardinality(R)
  <2> DEFINE f == [x \in R |-> <<k, x>>]
  <2>1. f \in [R -> {k} \X R]
    OBVIOUS
  <2>2. \A x, y \in R : f[x] = f[y] => x = y
    OBVIOUS
  <2>3. \A t \in {k} \X R : \E x \in R : f[x] = t
    OBVIOUS
  <2> HIDE DEF f
  <2> QED
    BY <1>1, <2>1, <2>2, <2>3, SameSize
<1>2. ({0} \X S) \cap ({1} \X T) = {}
  OBVIOUS
<1>3. /\ IsFiniteSet({0} \X S) /\ Cardinality({0} \X S) = Cardinality(S)
      /\ IsFiniteSet({1} \X T) /\ Cardinality({1} \X T) = Cardinality(T)
  BY <1>1
<1> DEFINE A == {0} \X S
           B == {1} \X T
<1> HIDE DEF A, B
<1>4. A \cap B = {} /\ IsFiniteSet(A) /\ IsFiniteSet(B)
  BY <1>2, <1>3 DEF A, B
<1>5. IsFiniteSet(A \cup B) /\ Cardinality(A \cup B) = Cardinality(A) + Cardinality(B)
  BY <1>4, DisjointUnion
<1> QED
  BY <1>3, <1>5 DEF A, B

\* If all that is needed of each region is owed, so it is of several regions.
LEMMA OwedTogether ==
  ASSUME TypeOK, UsedInv, CountInv, NEW Q \in SUBSET RegionInst,
         \A r \in Q : Cardinality(OwedIn({r})) = Needed({r})
  PROVE  Cardinality(OwedIn(Q)) = Needed(Q)
<1> DEFINE S == OwedIn(Q)
           T == ({0} \X OrdersIn(Q)) \cup ({1} \X VoicesIn(Q))
           f == [o \in S |-> o[2][2]]
           g == [t \in T |-> IF t[1] = 0 THEN t[2][1] ELSE voice[t[2]].region]
<1>1. \A R : /\ IsFiniteSet(OrdersIn(R)) /\ IsFiniteSet(VoicesIn(R)) /\ IsFiniteSet(OwedIn(R))
  BY FiniteUses DEF CountInv
<1>2. IsFiniteSet(S) /\ IsFiniteSet(T) /\ Cardinality(T) = Needed(Q)
  BY <1>1, TaggedSize DEF Needed
<1>3. f \in [S -> Q]
  BY DEF OwedIn
<1>4. g \in [T -> Q]
  <2>1. \A o \in OrdersIn(Q) : o[1] \in Q
    BY DEF OrdersIn
  <2>2. \A v \in VoicesIn(Q) : voice[v].region \in Q
    BY DEF VoicesIn
  <2>3. ASSUME NEW t \in T PROVE (IF t[1] = 0 THEN t[2][1] ELSE voice[t[2]].region) \in Q
    BY <2>1, <2>2, <2>3
  <2> QED
    BY <2>3
<1>5. ASSUME NEW k \in Q
      PROVE  Cardinality({x \in S : f[x] = k}) = Cardinality({y \in T : g[y] = k})
  <2>1. {x \in S : f[x] = k} = OwedIn({k})
    BY DEF OwedIn
  <2>2. {y \in T : g[y] = k} = ({0} \X OrdersIn({k})) \cup ({1} \X VoicesIn({k}))
    <3>1. /\ \A o : o \in OrdersIn({k}) <=> o \in OrdersIn(Q) /\ o[1] = k
          /\ \A v : v \in VoicesIn({k}) <=> v \in VoicesIn(Q) /\ voice[v].region = k
      BY DEF OrdersIn, VoicesIn
    <3>2. \A y \in T : /\ y[1] = 0 => y[2] \in OrdersIn(Q) /\ y = <<0, y[2]>>
                       /\ y[1] # 0 => y[2] \in VoicesIn(Q) /\ y = <<1, y[2]>>
                       /\ g[y] = IF y[1] = 0 THEN y[2][1] ELSE voice[y[2]].region
      OBVIOUS
    <3>3. ASSUME NEW y \in T, g[y] = k
          PROVE  y \in ({0} \X OrdersIn({k})) \cup ({1} \X VoicesIn({k}))
      <4>1. CASE y[1] = 0
        <5>1. y[2] \in OrdersIn({k}) /\ y = <<0, y[2]>>
          BY <3>1, <3>2, <3>3, <4>1
        <5> QED
          BY <5>1
      <4>2. CASE y[1] # 0
        <5>1. y[2] \in VoicesIn({k}) /\ y = <<1, y[2]>>
          BY <3>1, <3>2, <3>3, <4>2
        <5> QED
          BY <5>1
      <4> QED
        BY <4>1, <4>2
    <3>4. ASSUME NEW o \in OrdersIn({k}) PROVE <<0, o>> \in T /\ g[<<0, o>>] = k
      BY <3>1
    <3>5. ASSUME NEW v \in VoicesIn({k}) PROVE <<1, v>> \in T /\ g[<<1, v>>] = k
      <4>1. <<1, v>> \in T /\ voice[v].region = k
        BY <3>1
      <4> QED
        BY <4>1
    <3> QED
      BY <3>3, <3>4, <3>5
  <2>3. Cardinality({y \in T : g[y] = k}) = Needed({k})
    <3> DEFINE A == OrdersIn({k})
               B == VoicesIn({k})
    <3> HIDE DEF A, B
    <3>1. IsFiniteSet(A) /\ IsFiniteSet(B)
      BY <1>1 DEF A, B
    <3>2. Cardinality(({0} \X A) \cup ({1} \X B)) = Cardinality(A) + Cardinality(B)
      BY <3>1, TaggedSize
    <3>3. Cardinality(({0} \X A) \cup ({1} \X B)) = Needed({k})
      BY <3>2 DEF A, B, Needed
    <3> QED
      BY <2>2, <3>3 DEF A, B
  <2> QED
    BY <2>1, <2>3
<1> HIDE DEF S, T, f, g
<1>6. \A k \in Q : Cardinality(Fiber(S, f, k)) = Cardinality(Fiber(T, g, k))
  BY <1>5 DEF Fiber
<1>7. Cardinality(S) = Cardinality(T)
  BY <1>2, <1>3, <1>4, <1>6, EqualFibers
<1> QED
  BY <1>2, <1>7 DEF S

\* A sample of which no region is counted is not counted.
SamplesByRegion == "dropped" \notin upset => \A s \in SampleInst :
  (\A r \in RegionInst : SampleAt(r) = s => InfoCount(mem, r) = 0) => SampleCount(mem, s) = 0

LEMMA SampleUncounted ==
  ASSUME TypeOK, UsedInv, CountInv, ExactInv
  PROVE  SamplesByRegion
<1> SUFFICES ASSUME "dropped" \notin upset, NEW s \in SampleInst,
                    \A r \in RegionInst : SampleAt(r) = s => InfoCount(mem, r) = 0
             PROVE  SampleCount(mem, s) = 0
  BY DEF SamplesByRegion
<1>1. /\ SampleCount(mem, s) \in Int
      /\ \A Q : Cardinality(OwedIn(Q)) \in Nat /\ Needed(Q) \in Nat
  BY MemFields, FiniteUses DEF TypeOK, CountInv
<1>2. \A r \in RegionsAt(s) : Cardinality(OwedIn({r})) = Needed({r})
  <2>1. ASSUME NEW r \in RegionInst, SampleAt(r) = s
        PROVE  0 + Cardinality(OwedIn({r})) = Needed({r})
    BY <2>1 DEF ExactInv
  <2> QED
    BY <1>1, <2>1 DEF RegionsAt
<1>3. Cardinality(OwedIn(RegionsAt(s))) = Needed(RegionsAt(s))
  BY <1>2, OwedTogether DEF RegionsAt
<1>4. SampleCount(mem, s) + Cardinality(OwedIn(RegionsAt(s))) = Needed(RegionsAt(s))
  BY DEF ExactInv
<1> QED
  BY <1>1, <1>3, <1>4

LEMMA SampleUncountedNext ==
  ASSUME TypeOK', UsedInv', CountInv', ExactInv'
  PROVE  SamplesByRegion'
BY SampleUncounted, PTL

\* A region that is listed for the first time is in use, or known.
LEMMA OwedIsKnown ==
  ASSUME TypeOK, UsedInv, CountInv, ExactInv, GoneInv, "dropped" \notin upset,
         NEW c \in Channel, pc[c] = "clear", NEW r \in RegionInst, NEW u \in OldCmd(c).used,
         u[2] = r, ~ Alive(r[1])
  PROVE  r \in DOMAIN mem.info
<1> SUFFICES ASSUME r \notin DOMAIN mem.info PROVE FALSE
  OBVIOUS
<1>1. <<c, u>> \in OwedIn({r})
  BY DEF OwedIn, Owed
<1>2. /\ IsFiniteSet(OwedIn({r})) /\ Cardinality(OwedIn({r})) \in Nat
      /\ IsFiniteSet(OrdersIn({r})) /\ IsFiniteSet(VoicesIn({r}))
  BY FiniteUses DEF CountInv
<1>3. Cardinality(OwedIn({r})) # 0
  BY <1>1, <1>2, FS_EmptySet
<1>4. InfoCount(mem, r) = 0
  BY DEF InfoCount, Known
<1>5. 0 + Cardinality(OwedIn({r})) = Needed({r})
  BY <1>4 DEF ExactInv
<1>6. Needed({r}) # 0
  BY <1>2, <1>3, <1>5
<1>7. OrdersIn({r}) # {} \/ VoicesIn({r}) # {}
  BY <1>6, FS_EmptySet DEF Needed
<1>8. InPlay(r)
  <2>1. ASSUME NEW o \in OrdersIn({r}) PROVE InPlay(r)
    <3>1. o[1] = r /\ o[2] \in Nat /\ 1 <= o[2] /\ o[2] <= ordered[r]
      BY DEF OrdersIn
    <3>2. ordered[r] \in Nat
      BY DEF TypeOK
    <3> QED
      BY <3>1, <3>2 DEF InPlay
  <2>2. ASSUME NEW v \in VoicesIn({r}) PROVE InPlay(r)
    BY DEF InPlay, VoicesIn
  <2> QED
    BY <1>7, <2>1, <2>2
<1> QED
  BY <1>8 DEF GoneInv

\* When the list of a channel is counted
LEMMA Kept_Counted ==
  ASSUME TypeOK, UsedInv, CountInv, ExactInv, GoneInv, KeptInv, upset = {},
         NEW c \in Channel, HandBackInstrument(c)
  PROVE  KeptInv'
<1> USE DEF audio, manager, loader, bounds
<1> DEFINE used == OldCmd(c).used
<1>1. /\ mem' = Counted(mem, used) /\ used \in SUBSET (Voice \X RegionInst) /\ IsFiniteSet(used)
      /\ pc[c] = "clear" /\ MemType(mem)
  BY CopyTypes DEF UsedInv, OldCmd, HandBackInstrument, TypeOK
<1>2. UNCHANGED <<gig, want, upset>> /\ pc' = [pc EXCEPT ![c] = "handback"]
  BY DEF HandBackInstrument
<1>3. Dying' <=> Dying
  BY <1>1, <1>2 DEF Dying, LastUser, TypeOK
<1>4. \A f : Alive(f)' <=> Alive(f)
  BY <1>2, <1>3 DEF Alive
<1>5. \A r \in RegionsListed(used) : ~ Alive(r[1]) => r \in DOMAIN mem.info
  <2>1. ASSUME NEW u \in used, ~ Alive(u[2][1]) PROVE u[2] \in DOMAIN mem.info
    <3>1. u[2] \in RegionInst
      BY <1>1
    <3> QED
      BY <1>1, <2>1, <3>1, OwedIsKnown
  <2> QED
    BY <2>1 DEF RegionsListed
<1> HIDE DEF used
<1>6. /\ mem'.files = mem.files /\ mem'.samples = mem.samples
      /\ DOMAIN mem'.info = DOMAIN mem.info \cup RegionsListed(used)
      /\ DOMAIN mem'.refs = DOMAIN mem.refs \cup {SampleAt(r) : r \in RegionsListed(used)}
      /\ \A r \in DOMAIN mem.info \cup RegionsListed(used) :
           mem'.info[r].kept <=> r \in DOMAIN mem.info /\ mem.info[r].kept
  BY <1>1, CountedFacts
<1>7. \A r \in DOMAIN mem'.info : ~ Alive(r[1]) => mem'.info[r].kept
  BY <1>5, <1>6 DEF KeptInv
<1>8. \A s \in DOMAIN mem'.refs : \E r \in DOMAIN mem'.info : SampleAt(r) = s
  BY <1>6 DEF KeptInv
<1>9. \A f \in mem'.files : ~ Alive(f) => \E r \in DOMAIN mem'.info : r[1] = f
  BY <1>6 DEF KeptInv
<1>10. \A s \in mem'.samples : s[1] \in mem'.files /\ s[1] # gig'.file => s \in DOMAIN mem'.refs
  BY <1>2, <1>6 DEF KeptInv
<1> QED
  BY <1>4, <1>7, <1>8, <1>9, <1>10 DEF KeptInv

\* When the disk thread hands back a region
LEMMA Kept_HandedBack ==
  ASSUME TypeOK, TypeOK', KeptInv, SamplesByRegion', upset' = {},
         NEW q \in RegionInst, HandBackRegion(q)
  PROVE  KeptInv'
<1> USE DEF audio, manager, loader, bounds
<1> DEFINE s0 == SampleAt(q)
<1>1. /\ q \in DOMAIN mem.info /\ ~ (Dying /\ q[1] = gig.file) /\ upset = {}
      /\ mem' = RegionHandedBack(mem, q) /\ UNCHANGED <<gig, want, pc>>
  BY DEF HandBackRegion
<1>2. Dying' <=> Dying
  BY <1>1 DEF Dying, LastUser
<1>3. \A f : Alive(f)' <=> Alive(f)
  BY <1>1, <1>2 DEF Alive
<1>4. /\ MemType(mem) /\ s0 \in SampleInst /\ s0[1] = q[1] /\ q[1] \in Files /\ q[1] # 0
      /\ mem.samples \subseteq SampleInst
      /\ MemType(mem') /\ \A r : InfoCount(mem', r) \in Int
  BY SampleAtType, MemFields DEF TypeOK, Files
<1>5. /\ \A r : r # q => (r \in DOMAIN mem'.info <=> r \in DOMAIN mem.info)
      /\ q \in DOMAIN mem'.info <=> InfoCount(mem', q) # 0
      /\ \A r \in DOMAIN mem'.info : mem'.info[r].kept <=> r \in DOMAIN mem.info /\ mem.info[r].kept
      /\ \A s : s # s0 => (s \in DOMAIN mem'.refs <=> s \in DOMAIN mem.refs)
      /\ s0 \in DOMAIN mem'.refs <=> InfoCount(mem', q) # 0 \/ SampleCount(mem', s0) # 0
  BY <1>1, <1>4, HandedBackCounts
<1>6. /\ ~ SampleFreed(mem, q) => mem'.files = mem.files /\ mem'.samples = mem.samples
      /\ SampleFreed(mem, q) /\ ~ LastSample(mem, q) =>
           mem'.files = mem.files /\ mem'.samples = mem.samples \ {s0}
      /\ SampleFreed(mem, q) /\ LastSample(mem, q) =>
           /\ mem'.files = mem.files \ {q[1]} /\ mem'.samples = mem.samples \ SamplesIn(q[1])
  BY <1>1, <1>4, HandedBackCounts
<1>7. SampleFreed(mem, q) <=>
        s0 \notin DOMAIN mem'.refs /\ q \in DOMAIN mem.info /\ mem.info[q].kept
  BY <1>1, <1>5 DEF SampleFreed
<1>8. \A s \in SampleInst : SampleCount(mem', s) # 0 =>
        \E r \in RegionInst : SampleAt(r) = s /\ InfoCount(mem', r) # 0
  BY <1>1 DEF SamplesByRegion
<1>9. \A r : InfoCount(mem', r) # 0 => r \in DOMAIN mem'.info
  BY DEF InfoCount, Known
<1> HIDE DEF s0
<1>10. \A r \in DOMAIN mem'.info : ~ Alive(r[1]) => mem'.info[r].kept
  BY <1>1, <1>5 DEF KeptInv
<1>11. ASSUME NEW s \in DOMAIN mem'.refs
       PROVE  \E r \in DOMAIN mem'.info : SampleAt(r) = s
  <2>1. CASE s # s0
    <3>1. PICK r \in DOMAIN mem.info : SampleAt(r) = s
      BY <1>1, <1>5, <2>1 DEF KeptInv
    <3>2. r # q
      BY <2>1, <3>1 DEF s0
    <3> QED
      BY <1>5, <3>1, <3>2
  <2>2. CASE s = s0 /\ InfoCount(mem', q) # 0
    BY <1>5, <2>2 DEF s0
  <2>3. CASE s = s0 /\ InfoCount(mem', q) = 0
    <3>1. SampleCount(mem', s0) # 0
      BY <1>5, <2>3
    <3> QED
      BY <1>4, <1>8, <1>9, <2>3, <3>1
  <2> QED
    BY <2>1, <2>2, <2>3
<1>12. ASSUME NEW s \in DOMAIN mem'.refs
       PROVE  \E r \in DOMAIN mem'.info : r[1] = s[1]
  <2>1. PICK r \in DOMAIN mem'.info : SampleAt(r) = s
    BY <1>11
  <2>2. r[1] = s[1]
    BY <1>4, <2>1, MemFields, SampleAtType
  <2> QED
    BY <2>2
<1>13. ASSUME NEW f \in mem'.files, ~ Alive(f)
       PROVE  \E r \in DOMAIN mem'.info : r[1] = f
  <2>1. f \in mem.files
    BY <1>6, <1>13
  <2>2. PICK r \in DOMAIN mem.info : r[1] = f
    BY <1>1, <1>13, <2>1 DEF KeptInv
  <2>3. CASE r # q
    BY <1>5, <2>2, <2>3
  <2>4. CASE r = q /\ s0 \in DOMAIN mem'.refs
    BY <1>4, <1>12, <2>2, <2>4
  <2>5. CASE r = q /\ s0 \notin DOMAIN mem'.refs
    <3>1. mem.info[q].kept
      BY <1>1, <1>13, <2>2, <2>5 DEF KeptInv
    <3>2. SampleFreed(mem, q) /\ ~ LastSample(mem, q)
      BY <1>1, <1>6, <1>7, <1>13, <2>2, <2>5, <3>1
    <3>3. PICK s \in mem.samples : s \in SamplesIn(q[1]) /\ s # s0
      BY <3>2 DEF LastSample, s0
    <3>4. s[1] = f
      BY <1>4, <2>2, <2>5, <3>3, InFile
    <3>5. f # gig.file
      BY <1>1, <1>4, <1>13, <2>2, <2>5 DEF Alive
    <3>6. s \in DOMAIN mem'.refs
      BY <1>1, <1>5, <2>1, <3>3, <3>4, <3>5 DEF KeptInv
    <3> QED
      BY <1>12, <3>4, <3>6
  <2> QED
    BY <2>3, <2>4, <2>5
<1>14. ASSUME NEW s \in mem'.samples, s[1] \in mem'.files, s[1] # gig.file
       PROVE  s \in DOMAIN mem'.refs
  <2>1. s \in mem.samples /\ s[1] \in mem.files
    BY <1>6, <1>14
  <2>2. s \in DOMAIN mem.refs
    BY <1>1, <1>14, <2>1 DEF KeptInv
  <2>3. CASE s # s0
    BY <1>5, <2>2, <2>3
  <2>4. CASE s = s0
    <3>1. mem.info[q].kept
      BY <1>1, <1>4, <1>14, <2>4 DEF KeptInv, Alive
    <3>2. s0 \in SamplesIn(q[1])
      BY <1>4, InFile
    <3> QED
      BY <1>1, <1>6, <1>7, <1>14, <2>4, <3>1, <3>2
  <2> QED
    BY <2>3, <2>4
<1> QED
  BY <1>1, <1>3, <1>10, <1>11, <1>13, <1>14 DEF KeptInv

\* When an instrument is freed, or read
LEMMA Kept_Rest ==
  ASSUME TypeOK, TypeOK', FilesInv, EntryInv, LoaderInv, UpdateInv, KeptInv, upset = {}, Step,
         \A c \in Channel : ~ HandBackInstrument(c), \A r \in RegionInst : ~ HandBackRegion(r)
  PROVE  KeptInv'
<1> USE DEF audio, manager, loader, bounds
<1>1. /\ MemType(mem) /\ MemType(mem') /\ gig \in GigType
      /\ mem.samples \subseteq SampleInst /\ \A s \in SampleInst : s[1] \in Files /\ s[1] # 0
  BY MemFields DEF TypeOK, GigType, SampleInst, Files
<1>2. DOMAIN mem'.info = DOMAIN mem.info /\ mem'.refs = mem.refs
  BY SameCounts
<1>3. \A s \in DOMAIN mem'.refs : \E r \in DOMAIN mem'.info : SampleAt(r) = s
  BY <1>2 DEF KeptInv
<1>4. DOMAIN mem.info \subseteq RegionInst
  BY <1>1, MemFields
<1>5. ASSUME \/ \E i \in Index : Frees(i)
             \/ mem' = Walk(mem, gig.file) /\ UNCHANGED gig
      PROVE  KeptInv'
  <2>1. /\ \A r \in DOMAIN mem.info : mem'.info[r].kept <=> mem.info[r].kept \/ r[1] = gig.file
        /\ \A f : f \in mem'.files <=>
             f \in mem.files /\ (f # gig.file \/ \E r \in DOMAIN mem.info : r[1] = gig.file)
        /\ \A s \in SampleInst : s \in mem'.samples => s \in mem.samples
        /\ \A s \in SampleInst : s \in mem'.samples =>
             s[1] # gig.file \/ s \in DOMAIN mem.refs \/ gig' = gig
    <3>1. CASE mem' = Walk(mem, gig.file) /\ UNCHANGED gig
      BY <1>1, <3>1, WalkFacts
    <3>2. ASSUME NEW i \in Index, Frees(i)
          PROVE  /\ \A r \in DOMAIN mem.info : mem'.info[r].kept <=> mem.info[r].kept \/ r[1] = gig.file
                 /\ \A f : f \in mem'.files <=>
                      f \in mem.files /\ (f # gig.file \/ \E r \in DOMAIN mem.info : r[1] = gig.file)
                 /\ \A s \in SampleInst : s \in mem'.samples =>
                      s \in mem.samples /\ (s[1] # gig.file \/ s \in DOMAIN mem.refs)
      BY <1>1, <3>2, DestroyedFacts DEF Frees
    <3> QED
      BY <1>5, <3>1, <3>2
  <2>2. \A f : f # gig.file => ~ Alive(f)
    BY DEF Alive
  <2>3. \A r \in DOMAIN mem'.info : mem'.info[r].kept
    BY <1>2, <2>1, <2>2 DEF KeptInv
  <2>4. \A f \in mem'.files : \E r \in DOMAIN mem'.info : r[1] = f
    BY <1>2, <2>1, <2>2 DEF KeptInv
  <2>5. ASSUME NEW s \in mem'.samples, s[1] \in mem'.files, s[1] # gig'.file
        PROVE  s \in DOMAIN mem'.refs
    <3>1. s \in SampleInst
      BY <1>1, MemFields
    <3>2. s \in mem.samples /\ s[1] \in mem.files
      BY <2>1, <2>5, <3>1
    <3>3. CASE s[1] # gig.file
      BY <1>2, <3>2, <3>3 DEF KeptInv
    <3>4. CASE s[1] = gig.file
      BY <1>2, <2>1, <2>5, <3>1, <3>4
    <3> QED
      BY <3>3, <3>4
  <2> QED
    BY <1>3, <2>3, <2>4, <2>5 DEF KeptInv
<1>6. CASE \A f : Alive(f) => Alive(f)'
  <2>1. ASSUME /\ \A r \in DOMAIN mem.info : mem.info[r].kept => mem'.info[r].kept
               /\ \A f \in mem'.files : f \in mem.files \/ Alive(f)'
               /\ \A s \in SampleInst : s \in mem'.samples => s \in mem.samples \/ s[1] = gig'.file
               /\ \A s \in mem'.samples : s[1] = gig.file /\ gig'.file # gig.file =>
                                            s \in DOMAIN mem.refs
        PROVE  KeptInv'
    <3>1. \A r \in DOMAIN mem'.info : ~ Alive(r[1])' => mem'.info[r].kept
      BY <1>2, <1>6, <2>1 DEF KeptInv
    <3>2. \A f \in mem'.files : ~ Alive(f)' => \E r \in DOMAIN mem'.info : r[1] = f
      BY <1>2, <1>6, <2>1 DEF KeptInv
    <3>3. ASSUME NEW s \in mem'.samples, s[1] \in mem'.files, s[1] # gig'.file
          PROVE  s \in DOMAIN mem'.refs
      <4>1. s \in SampleInst
        BY <1>1, MemFields
      <4>2. s \in mem.samples /\ s[1] \in mem.files
        BY <2>1, <3>3, <4>1 DEF Alive
      <4>3. CASE s[1] # gig.file
        BY <1>2, <4>2, <4>3 DEF KeptInv
      <4>4. CASE s[1] = gig.file
        BY <1>2, <2>1, <3>3, <4>4
      <4> QED
        BY <4>3, <4>4
    <3> QED
      BY <1>3, <3>1, <3>2, <3>3 DEF KeptInv
  <2>2. CASE UNCHANGED mem /\ gig'.file = gig.file
    BY <2>1, <2>2
  <2>3. ASSUME NEW m, MemType(m), m.info = mem.info, m.files = mem.files,
               \A s \in SampleInst : s \in m.samples =>
                 s \in mem.samples /\ (\/ s[1] # gig.file \/ s \in DOMAIN mem.refs
                                       \/ gig'.file = gig.file),
               mem' = Loaded(m, gig'.file), gig'.file \in Files, Alive(gig.file)'
        PROVE  KeptInv'
    <3>1. /\ mem'.info = m.info /\ mem'.files = m.files \cup {gig'.file}
          /\ \A s \in SampleInst : s \in mem'.samples <=>
               s \in m.samples \/ (s[1] = gig'.file /\ gig'.file \notin m.files)
      BY <2>3, LoadedFacts
    <3>2. \A s \in mem'.samples : s[1] = gig.file /\ gig'.file # gig.file => s \in DOMAIN mem.refs
      BY <1>1, <2>3, <3>1, MemFields
    <3>3. \A f \in mem'.files : f \in mem.files \/ Alive(f)'
      BY <2>3, <3>1 DEF Alive
    <3> QED
      BY <2>1, <2>3, <3>1, <3>2, <3>3
  <2>4. ASSUME NEW i \in Index, Reads(i) PROVE KeptInv'
    <3>1. Alive(gig.file)'
      BY <2>4, ReadIsAlive
    <3>2. gig.file # 0 => gig'.file = gig.file
      BY <1>1, <2>4, OpenedFacts DEF Reads
    <3> QED
      BY <1>1, <2>3, <2>4, <3>1, <3>2 DEF Reads
  <2>5. ASSUME NEW c \in Channel, Renews(c) PROVE KeptInv'
    <3>1. Alive(gig.file)'
      BY <2>5, ReadIsAlive
    <3>2. gig.file # 0 /\ ~ LastUser(gig, want[c]) => gig'.file = gig.file
      <4>1. ~ LastUser(gig, want[c]) => /\ HandedBack(gig, want[c]) \in GigType
                                        /\ HandedBack(gig, want[c]).file = gig.file
        BY <1>1, <2>5, HandedBackFacts DEF Renews
      <4> QED
        BY <2>5, <4>1 DEF Renews, Opened
    <3>3. CASE ~ LastUser(gig, want[c])
      BY <1>1, <2>3, <2>5, <3>1, <3>2, <3>3 DEF Renews
    <3>4. CASE LastUser(gig, want[c])
      <4> DEFINE m == Cleanup(mem, gig.file)
      <4>1. /\ MemType(m) /\ m.info = mem.info /\ m.files = mem.files
            /\ \A s \in SampleInst : s \in m.samples <=>
                 s \in mem.samples /\ (s[1] # gig.file \/ s \in DOMAIN mem.refs)
        BY <1>1, CleanupFacts
      <4>2. mem' = Loaded(m, gig'.file) /\ gig'.file \in Files
        BY <2>5, <3>4 DEF Renews
      <4> HIDE DEF m
      <4> QED
        BY <2>3, <3>1, <4>1, <4>2
    <3> QED
      BY <3>3, <3>4
  <2> QED
    BY <1>5, <2>2, <2>4, <2>5, MemMoves DEF UpdateDestroys
<1>7. CASE \E f : Alive(f) /\ ~ Alive(f)'
  BY <1>5, <1>7, FileCloses DEF UpdateDestroys
<1> QED
  BY <1>6, <1>7

LEMMA Kept_Step ==
  ASSUME TypeOK, TypeOK', FilesInv, EntryInv, LoaderInv, UpdateInv, UsedInv, UsedInv',
         CountInv, CountInv', ExactInv, ExactInv', GoneInv, KeptInv, Step
  PROVE  KeptInv'
<1>1. CASE upset' # {}
  BY <1>1 DEF KeptInv
<1>2. CASE upset' = {}
  <2>1. upset = {}
    BY <1>2, UpsetGrows
  <2>2. CASE \E c \in Channel : HandBackInstrument(c)
    BY <2>1, <2>2, Kept_Counted
  <2>3. CASE \E r \in RegionInst : HandBackRegion(r)
    BY <1>2, <2>3, SampleUncountedNext, Kept_HandedBack
  <2>4. CASE /\ \A c \in Channel : ~ HandBackInstrument(c)
             /\ \A r \in RegionInst : ~ HandBackRegion(r)
    BY <2>1, <2>4, Kept_Rest
  <2> QED
    BY <2>2, <2>3, <2>4
<1> QED
  BY <1>1, <1>2

-----------------------------------------------------------------------------
(* The theorems *)

LEMMA Init_Inv == Init => IInv
<1> SUFFICES ASSUME Init PROVE IInv
  OBVIOUS
<1>1. TypeOK
  BY Init_Type
<1>2. /\ \A c \in Channel : /\ cmd[c].cur = 0 /\ \A k \in {0, 1} : cmd[c].copy[k] = NoCmd
                            /\ pc[c] = "idle" /\ locked[c] = {} /\ played[c] = None
                            /\ Now(c) = NoCmd /\ OldCmd(c) = NoCmd
      /\ \A i \in Index : entry[i] = NoEntry
      /\ \A v \in Voice : voice[v] = None
      /\ \A r \in RegionInst : ordered[r] = 0
      /\ gig = [file |-> 0, users |-> {}, made |-> 0]
      /\ mem.files = {} /\ mem.samples = {} /\ DOMAIN mem.info = {} /\ DOMAIN mem.refs = {}
      /\ entriesMutex = None /\ regionMutex = None /\ loads = 0 /\ commands = 0
  BY DEF Init, Now, OldCmd, Other
<1>3. Pending = {} /\ Owed = {} /\ OrdersIn(RegionInst) = {}
  BY <1>2 DEF Pending, Owed, OrdersIn
<1>4. FilesInv
  BY <1>2, <1>3, FS_EmptySet, BoundsAssumption DEF FilesInv
<1>5. BornInv
  BY <1>2 DEF BornInv, NoCmd
<1>6. EntryInv
  BY <1>2 DEF EntryInv, NoEntry
<1>7. LoaderInv
  BY <1>2, NoneAssumption DEF LoaderInv, Midway, Updating
<1>8. UpdateInv /\ PlayedInv /\ VoiceInv
  BY <1>2 DEF UpdateInv, PlayedInv, VoiceInv
<1>9. CmdInv
  BY <1>2 DEF CmdInv, NoCmd, NoEntry, Consumer
<1>10. UsedInv
  <2>1. \A c : InUse(c) = {}
    BY <1>2 DEF InUse, VoicesOf
  <2>2. NoCmd.used = {} /\ ~ NoCmd.change /\ IsFiniteSet({})
    BY FS_EmptySet DEF NoCmd
  <2>3. \A c \in Channel : /\ Now(c).used = {} /\ OldCmd(c).used = {}
                           /\ \A k \in {0, 1} : cmd[c].copy[k].used = {}
                           /\ pc[c] = "idle"
    BY <1>2, <2>2
  <2> QED
    BY <2>1, <2>2, <2>3 DEF UsedInv, Listed
<1>11. CountInv /\ ExactInv
  <2>1. \A Q : OrdersIn(Q) = {} /\ VoicesIn(Q) = {} /\ OwedIn(Q) = {} /\ LiveOwed(Q) = {}
    BY <1>2, <1>3 DEF OrdersIn, VoicesIn, OwedIn, LiveOwed
  <2>2. \A Q : Needed(Q) = 0 /\ Cardinality(OwedIn(Q)) = 0 /\ Cardinality(LiveOwed(Q)) = 0
    BY <2>1, FS_EmptySet DEF Needed
  <2>3. /\ \A r : InfoCount(mem, r) = 0
        /\ \A s : SampleCount(mem, s) = 0
    BY <1>2 DEF InfoCount, Known, SampleCount
  <2> QED
    BY <1>3, <2>2, <2>3, FS_EmptySet DEF CountInv, ExactInv
<1>12. AliveInv /\ GoneInv /\ KeptInv
  BY <1>2 DEF AliveInv, Alive, GoneInv, InPlay, KeptInv
<1> QED
  BY <1>1, <1>4, <1>5, <1>6, <1>7, <1>8, <1>9, <1>10, <1>11, <1>12 DEF IInv

\* The invariant, part by part, in the order in which the parts need each other
LEMMA Step_Inv ==
  ASSUME IInv, Orderly, Step
  PROVE  IInv'
<1> USE DEF IInv
<1>1. TypeOK' /\ FilesInv' /\ EntryInv' /\ LoaderInv'
  BY Type_Step, Files_Step, Entry_Step, Loader_Step
<1>2. UpdateInv' /\ CmdInv' /\ PlayedInv' /\ VoiceInv' /\ BornInv'
  BY Update_Step, Cmd_Step, Played_Step, Voice_Step, Born_Step
<1>3. UsedInv'
  BY <1>1, Used_Step
<1>4. CountInv' /\ ExactInv'
  BY <1>1, <1>2, <1>3, Count_Step, Exact_Step
<1>5. AliveInv'
  BY <1>1, Alive_Step
<1>6. GoneInv'
  BY <1>1, <1>2, <1>3, <1>4, GoneIsCountedNext, Gone_Step
<1>7. KeptInv'
  BY <1>1, <1>3, <1>4, Kept_Step
<1> QED
  BY <1>1, <1>2, <1>3, <1>4, <1>5, <1>6, <1>7

\* For as long as no disorder is noted, the steps are orderly.
LEMMA StepsAreOrderly ==
  ASSUME TypeOK, Watch, ~ disorder'
  PROVE  Orderly /\ ~ disorder
<1>1. ~ disorder /\ \A c \in Channel : ~ Disorder(c)
  BY DEF Watch
<1>2. ASSUME NEW c \in Channel, NEW i \in Index, LoadInstrument(c, i) PROVE AtRest(c)
  <2>1. pc[c] = "idle" /\ pc'[c] = "clear"
    BY <1>2 DEF LoadInstrument, TypeOK
  <2> QED
    BY <1>1, <2>1 DEF Disorder
<1>3. ASSUME NEW c \in Channel, BorrowExisting(c), pc'[c] = "update"
      PROVE  \A d \in entry[want[c]].users \ {c} : AtRest(d)
  <2>1. pc[c] = "borrow"
    BY <1>3 DEF BorrowExisting
  <2> QED
    BY <1>1, <1>3, <2>1 DEF Disorder
<1>4. ASSUME NEW c \in Channel, UnloadInstrument(c) PROVE AtRest(c) /\ Empty(c)
  <2>1. pc[c] = "idle" /\ pc'[c] = "finish"
    BY <1>4 DEF UnloadInstrument, TypeOK
  <2> QED
    BY <1>1, <2>1 DEF Disorder
<1> QED
  BY <1>1, <1>2, <1>3, <1>4 DEF Orderly

\* The invariant holds until there is disorder, and there is no way back from it.
OrderInv == ~ disorder => IInv

LEMMA Next_Inv == OrderInv /\ [Next]_vars => OrderInv'
<1> SUFFICES ASSUME OrderInv, [Next]_vars, ~ disorder' PROVE IInv'
  BY DEF OrderInv
<1>1. CASE Next
  <2>1. ~ disorder /\ Step /\ Watch
    BY <1>1 DEF Next, Watch
  <2>2. IInv
    BY <2>1 DEF OrderInv
  <2>3. TypeOK
    BY <2>2 DEF IInv
  <2> QED
    BY <2>1, <2>2, <2>3, StepsAreOrderly, Step_Inv
<1>2. CASE UNCHANGED vars
  <2>10. IInv
    BY <1>2 DEF OrderInv, vars
  <2> USE <1>2, <2>10 DEF IInv, vars, code, audio, manager, loader, bounds, Now, OldCmd, Other, Uses, Consumer,
          Committed, Switched
  <2>0. TypeOK'
    BY DEF TypeOK, MemType
  <2>1. FilesInv' /\ BornInv' /\ EntryInv'
    BY DEF FilesInv, Pending, BornInv, EntryInv
  <2>2. LoaderInv' /\ UpdateInv'
    BY DEF LoaderInv, Resting, UpdateInv, Stopped, VoicesOf
  <2>3. CmdInv' /\ PlayedInv' /\ VoiceInv'
    BY DEF CmdInv, PlayedInv, VoiceInv
  <2>4. UsedInv'
    BY DEF UsedInv, Listed, InUse, VoicesOf
  <2>5. Dying' = Dying /\ \A f : Alive(f)' = Alive(f)
    BY DEF Dying, LastUser, Alive
  <2>6. /\ Owed' = Owed /\ \A Q : OrdersIn(Q)' = OrdersIn(Q)
        /\ \A v : Disowned(v)' = Disowned(v)
    BY DEF Owed, OrdersIn, Disowned
  <2>7. \A Q : /\ VoicesIn(Q)' = VoicesIn(Q) /\ OwedIn(Q)' = OwedIn(Q)
               /\ LiveOwed(Q)' = LiveOwed(Q)
    BY <2>5, <2>6 DEF VoicesIn, OwedIn, LiveOwed
  <2>8. CountInv' /\ ExactInv'
    BY <2>6, <2>7 DEF CountInv, ExactInv, Needed
  <2>9. AliveInv' /\ GoneInv' /\ KeptInv'
    BY <2>5 DEF AliveInv, GoneInv, InPlay, KeptInv
  <2> QED
    BY <2>0, <2>1, <2>2, <2>3, <2>4, <2>8, <2>9
<1> QED
  BY <1>1, <1>2

\* The invariant holds in every state that is reached without disorder.
THEOREM Invariance == Spec => []OrderInv
<1>1. Init => OrderInv
  BY Init_Inv DEF OrderInv
<1> QED
  BY <1>1, Next_Inv, PTL DEF Spec

\* Whatever the loaders, the audio threads and the disk thread do, and however often the
\* file is freed and read again meanwhile: what a voice plays stays in memory until the
\* disk thread hands it back (ResourceManager, EngineChannelBase,
\* gig::InstrumentResourceManager).  That is so until an instrument is changed, reloaded
\* or unloaded on a channel that is not at rest, which the code does not prevent.
THEOREM VoicesAreSafe == Spec => []VoiceSafe
<1>1. OrderInv => VoiceSafe
  <2> SUFFICES ASSUME OrderInv, ~ disorder, NEW v \in Voice, voice[v] # None
               PROVE  /\ voice[v].region \in mem.regions
                      /\ SampleAt(voice[v].region) \in mem.samples
    BY DEF VoiceSafe
  <2>5. IInv
    BY DEF OrderInv
  <2> DEFINE r == voice[v].region
  <2>1. r \in RegionInst
    BY <2>5, VoiceTypes DEF IInv
  <2>2. InPlay(r)
    BY DEF InPlay
  <2> HIDE DEF r
  <2>3. CASE ~ Alive(r[1])
    BY <2>1, <2>2, <2>3, <2>5 DEF IInv, GoneInv, r
  <2>4. CASE Alive(r[1])
    BY <2>1, <2>4, <2>5, SampleAtType DEF IInv, AliveInv, r
  <2> QED
    BY <2>3, <2>4
<1> QED
  BY <1>1, Invariance, PTL

\* The regions that wait for the disk thread, one by one
LEMMA OrdersCounted ==
  ASSUME TypeOK, NEW r \in RegionInst
  PROVE  Cardinality(OrdersIn({r})) = ordered[r]
<1> DEFINE S == 1..ordered[r]
           f == [k \in S |-> <<r, k>>]
<1>1. ordered[r] \in Nat
  BY DEF TypeOK
<1>2. IsFiniteSet(S) /\ Cardinality(S) = ordered[r]
  <2>1. 1 \in Int /\ ordered[r] \in Int
    BY <1>1
  <2>2. Cardinality(S) = IF 1 > ordered[r] THEN 0 ELSE ordered[r] - 1 + 1
    BY <2>1, FS_Interval
  <2>3. IsFiniteSet(S)
    BY <2>1, FS_Interval
  <2> QED
    BY <1>1, <2>2, <2>3
<1>3. f \in [S -> OrdersIn({r})]
  BY <1>1 DEF OrdersIn
<1>4. \A x, y \in S : f[x] = f[y] => x = y
  OBVIOUS
<1>5. \A t \in OrdersIn({r}) : \E x \in S : f[x] = t
  BY <1>1 DEF OrdersIn
<1> HIDE DEF S, f
<1> QED
  BY <1>2, <1>3, <1>4, <1>5, SameSize

\* An instrument that a channel has borrowed is in memory when the channel gives it to its
\* audio thread, the channel plays what it has borrowed, RegionInfo counts what its voices
\* go on playing, neither less nor more, and a file without instruments is kept for as
\* long as something of it is played (Borrow(), HandBack() and Update() of
\* ResourceManager, HandBackInstrument() and HandBackRegion()); until an instrument is
\* changed, reloaded or unloaded on a channel that is not at rest.
THEOREM ManagerIsSound == Spec => []ManagerSound
<1>1. OrderInv => ManagerSound
  <2> SUFFICES ASSUME IInv
               PROVE  /\ TypeOK /\ BorrowedIsAlive /\ PlayedIsBorrowed
                      /\ Accounted /\ KeptIsNeeded
    BY DEF OrderInv, ManagerSound
  <2> USE DEF IInv
  <2>1. BorrowedIsAlive
    <3> SUFFICES ASSUME NEW c \in Channel, pc[c] = "change" PROVE got[c][1] \in mem.files
      BY DEF BorrowedIsAlive
    <3>1. got[c] # None /\ Uses(c, got[c])
      BY DEF LoaderInv
    <3>2. got[c][1] = gig.file /\ gig.file # 0 /\ Consumer(c)
      BY <3>1, UsedIsOpen
    <3>3. ~ Dying
      BY <3>2, DyingFacts DEF Resting
    <3>4. gig.file \in Files
      BY <3>2 DEF TypeOK
    <3> QED
      BY <3>2, <3>3, <3>4 DEF AliveInv, Alive
  <2>2. PlayedIsBorrowed
    BY PlaysBorrowed DEF PlayedIsBorrowed, Uses
  <2>3. Accounted
    <3> SUFFICES ASSUME "dropped" \notin upset, NEW r \in RegionInst
                 PROVE  InfoCount(mem, r) + Cardinality(OwedAs(r)) = ordered[r] +
                          Cardinality({v \in Voice : voice[v] # None /\ voice[v].region = r
                                                                     /\ Disowned(v)})
      BY DEF Accounted
    <3>1. OwedAs(r) = OwedIn({r})
      BY DEF OwedAs, OwedIn
    <3>2. VoicesIn({r}) = {v \in Voice : voice[v] # None /\ voice[v].region = r /\ Disowned(v)}
      BY DEF VoicesIn
    <3>3. InfoCount(mem, r) + Cardinality(OwedIn({r})) = Needed({r})
      BY DEF ExactInv
    <3> QED
      BY <3>1, <3>2, <3>3, OrdersCounted DEF Needed
  <2>4. KeptIsNeeded
    <3> SUFFICES ASSUME upset = {}, NEW f \in mem.files, f # gig.file
                 PROVE  /\ \E r \in DOMAIN mem.info : r[1] = f /\ mem.info[r].kept
                        /\ \A s \in mem.samples : s[1] = f =>
                             \E r \in DOMAIN mem.info : SampleAt(r) = s
      BY DEF KeptIsNeeded
    <3>1. ~ Alive(f)
      BY DEF Alive
    <3> QED
      BY <3>1 DEF KeptInv
  <2> QED
    BY <2>1, <2>2, <2>3, <2>4
<1> QED
  BY <1>1, Invariance, PTL
=============================================================================
