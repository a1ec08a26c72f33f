------------------------- MODULE InstrumentsDbProofs -------------------------
(***************************************************************************)
(* Proofs about InstrumentsDb, for any names, files, paths, commands and   *)
(* scans of any of the two threads.                                        *)
(***************************************************************************)
EXTENDS InstrumentsDb, SequenceTheorems, FiniteSetTheorems, WellFoundedInduction, TLAPS

-----------------------------------------------------------------------------
(* The inductive invariant *)

\* A table of directories: each has its parent, and there are no cycles.
Typed(D, n) == DOMAIN D \subseteq 1..n /\ \A d \in DOMAIN D : D[d] \in [parent : Nat, name : Name]
Tree(D) ==
    /\ \A d \in DOMAIN D : D[d].parent \in DOMAIN D \cup {Root}
    /\ \A S \in SUBSET DOMAIN D : S # {} => \E d \in S : D[d].parent \notin S

\* Who is in a transaction, or in the loop over files, owns the mutex.
Scanning == {"looks", "makes", "enters", "files", "reads", "relocks", "checks", "inserts", "closes"}
Unlocked == {"reads", "relocks", "checks", "inserts", "closes"}
MutexInv ==
    /\ \A t \in Thread : pc[t] \in {"writes", "copies", "files"} => owner = t
    /\ inTrans => \E t \in Thread : owner = t /\ pc[t] \in {"writes", "copies"}
    /\ \A t \in Thread : pc[t] \in Unlocked => scan[t].unlocked
    /\ \A t \in Thread \ Scanners : /\ pc[t] \notin Scanning
                                    /\ owner = t => depth = 1 /\ pc[t] \in {"writes", "copies"}

\* What a scan has left to do
ScanInv == scan \in [Thread -> Scan] /\ \A t \in Thread :
    /\ pc[t] \in Scanning => scan[t].todo # <<>>
    /\ scan[t].todo # <<>> => t \in Scanners
    /\ pc[t] \in {"idle", "copies"} => scan[t].todo = <<>>
    /\ pc[t] = "makes" => scan[t].todo[1].path # <<>>
    /\ pc[t] \in Unlocked => scan[t].files # <<>> /\ scan[t].dir \in Nat
    /\ pc[t] = "inserts" => scan[t].name \in Name

\* What a transaction is about to change leaves a tree, and no instruments in
\* directories that go, other than those of a scan that has slipped in.
Keeps(w) ==
    /\ Typed(w.dirs, lastDir + 1) /\ Tree(w.dirs)
    /\ w.add \subseteq Row /\ w.file \in [File -> File]
    /\ \A d \in DOMAIN dirs \ DOMAIN w.dirs, r \in w.add : r.dir # d
Clears(w) == \A d \in DOMAIN dirs \ DOMAIN w.dirs : d \in w.wipe \/ \A r \in rows : r.dir # d
WriteInv == write # Fail => /\ \E t \in Thread : pc[t] = "writes"
                            /\ Keeps(write) /\ (SlippedIn \/ Clears(write))

\* The copies are in the table.
CopyInv ==
    /\ copy = [from |-> copy.from, to |-> copy.to, done |-> copy.done]
    /\ \A t \in Thread : pc[t] = "copies" => t = Lscp
    /\ copy # NoCopy => pc[Lscp] = "copies"
    /\ \A d \in DOMAIN copy.done : copy.done[d] \in DOMAIN dirs

\* Nobody else inserts the instrument that a scan is about to insert.
OneScanner == \A t, u \in Scanners : t = u
NewInv == OneScanner => \A t \in Thread : pc[t] = "inserts" /\ owner = t => ~Known(t)

IInv == TypeOK /\ Tree(dirs) /\ MutexInv /\ ScanInv /\ WriteInv /\ CopyInv /\ NewInv

-----------------------------------------------------------------------------
(* Recursive functions *)

\* The natural numbers are well ordered.  (The library states induction with an
\* operator for the property; the proofs here use sets.)
LEMMA NatSetInduction ==
  ASSUME NEW S, 0 \in S, \A n \in Nat : n \in S => n + 1 \in S
  PROVE  Nat \subseteq S
<1> DEFINE LessThan == {ss \in Nat \X Nat : ss[1] < ss[2]}
<1>1. IsWellFoundedOn(LessThan, Nat)
  BY NatLessThanWellFounded, Zenon DEF OpToRel
<1>2. SUFFICES ASSUME Nat \ S # {} PROVE FALSE
  OBVIOUS
<1>3. PICK n \in Nat \ S : \A m \in Nat \ S : ~ (<<m, n>> \in LessThan)
  <2>1. Nat \ S \subseteq Nat
    OBVIOUS
  <2> HIDE DEF LessThan
  <2> QED
    BY <1>1, <1>2, <2>1, WFMin, Zenon
<1>4. \A m \in Nat \ S : ~ (m < n)
  BY <1>3
<1>5. n - 1 \in Nat
  OBVIOUS
<1> QED
  BY <1>3, <1>4, <1>5

\* A set of natural numbers has a least element.
LEMMA LeastNat ==
  ASSUME NEW S, S \subseteq Nat, S # {}
  PROVE  \E n \in S : \A m \in S : n <= m
<1> SUFFICES ASSUME \A n \in S : \E m \in S : m < n PROVE FALSE
  OBVIOUS
<1> DEFINE N == {n \in Nat : \A m \in 0..n : m \notin S}
<1>1. 0 \in N
  OBVIOUS
<1>2. ASSUME NEW n \in Nat, n \in N PROVE n + 1 \in N
  <2>1. n + 1 \notin S
    BY <1>2
  <2> QED
    BY <1>2, <2>1
<1>3. Nat \subseteq N
  <2> HIDE DEF N
  <2> QED
    BY <1>1, <1>2, NatSetInduction
<1>4. PICK s \in S : s \in Nat
  OBVIOUS
<1>5. s \in N /\ s \in 0..s
  BY <1>3, <1>4
<1> QED
  BY <1>4, <1>5

\* A function that is defined by its previous value exists.
Follows(f, x, F, n) == f = [i \in 0..n |-> IF i = 0 THEN x ELSE F[<<i, f[i-1]>>]]
LEMMA Recursion ==
  ASSUME NEW X, NEW x \in X, NEW F \in [Nat \X X -> X]
  PROVE  \A n \in Nat : \E f \in [0..n -> X] : Follows(f, x, F, n)
<1> DEFINE N == {n \in Nat : \E f \in [0..n -> X] : Follows(f, x, F, n)}
<1>1. 0 \in N
  <2>1. [i \in 0..0 |-> x] \in [0..0 -> X] /\ Follows([i \in 0..0 |-> x], x, F, 0)
    BY DEF Follows
  <2> QED
    BY <2>1
<1>2. ASSUME NEW n \in Nat, n \in N PROVE n + 1 \in N
  <2>1. PICK f \in [0..n -> X] : Follows(f, x, F, n)
    BY <1>2
  <2> DEFINE y == F[<<n + 1, f[n]>>]
             g == [i \in 0..n + 1 |-> IF i <= n THEN f[i] ELSE y]
  <2>2. y \in X /\ g \in [0..n + 1 -> X]
    <3>1. n \in 0..n /\ f[n] \in X /\ n + 1 \in Nat
      OBVIOUS
    <3>2. y \in X
      BY <3>1
    <3> HIDE DEF y
    <3> QED
      BY <3>2
  <2>3. /\ \A i \in 0..n : g[i] = f[i]
        /\ g[n + 1] = y /\ DOMAIN g = 0..n + 1
    OBVIOUS
  <2>4. \A i \in 0..n : f[i] = IF i = 0 THEN x ELSE F[<<i, f[i-1]>>]
    BY <2>1 DEF Follows
  <2>5. ASSUME NEW i \in 0..n + 1 PROVE g[i] = IF i = 0 THEN x ELSE F[<<i, g[i-1]>>]
    <3> HIDE DEF g
    <3>1. CASE i = n + 1
      <4>1. i - 1 = n /\ n \in 0..n /\ i # 0 /\ g[i - 1] = f[n]
        BY <2>3, <3>1
      <4> QED
        BY <2>3, <3>1, <4>1
    <3>2. CASE i = 0
      <4>1. 0 \in 0..n
        OBVIOUS
      <4> QED
        BY <2>3, <2>4, <3>2, <4>1
    <3>3. CASE i \in 1..n
      <4>1. i \in 0..n /\ i - 1 \in 0..n /\ i # 0
        BY <3>3
      <4> QED
        BY <2>3, <2>4, <4>1
    <3> QED
      BY <3>1, <3>2, <3>3
  <2>6. Follows(g, x, F, n + 1)
    <3> HIDE DEF y
    <3> QED
      BY <2>3, <2>5 DEF Follows
  <2> HIDE DEF g, y
  <2> QED
    BY <2>2, <2>6
<1>3. Nat \subseteq N
  <2> HIDE DEF N
  <2> QED
    BY <1>1, <1>2, NatSetInduction
<1> QED
  BY <1>3

-----------------------------------------------------------------------------
(* Ancestors *)

Above(x) == IF x \in DOMAIN dirs THEN dirs[x].parent ELSE x
Ascends(f, d, i) == f = [j \in 0..i |-> IF j = 0 THEN d
                                       ELSE IF f[j-1] \in DOMAIN dirs THEN dirs[f[j-1]].parent
                                       ELSE f[j-1]]

\* Up() is such a function's last value.
LEMMA AscendsExists ==
  ASSUME Typed(dirs, lastDir), lastDir \in Nat, NEW d \in Nat, NEW i \in Nat
  PROVE  \E f \in [0..i -> Nat] : Ascends(f, d, i) /\ Up(d, i) = f[i]
<1> DEFINE F == [z \in Nat \X Nat |-> Above(z[2])]
<1>1. F \in [Nat \X Nat -> Nat]
  BY DEF Typed, Above
<1>2. PICK f \in [0..i -> Nat] : Follows(f, d, F, i)
  <2> HIDE DEF F
  <2> QED
    BY <1>1, Recursion
<1>3. ASSUME NEW j \in 0..i, j # 0
      PROVE  F[<<j, f[j-1]>>] = IF f[j-1] \in DOMAIN dirs THEN dirs[f[j-1]].parent ELSE f[j-1]
  <2>1. j - 1 \in 0..i /\ f[j-1] \in Nat /\ j \in Nat
    BY <1>3
  <2> QED
    BY <2>1 DEF Above
<1>4. Ascends(f, d, i)
  <2> HIDE DEF F
  <2> QED
    BY <1>2, <1>3 DEF Follows, Ascends
<1> DEFINE g == CHOOSE g : Ascends(g, d, i)
<1>5. Ascends(g, d, i)
  BY <1>4, Zenon
<1>6. Up(d, i) = g[i]
  BY Zenon DEF Up, Ascends
<1>7. g \in [0..i -> Nat]
  <2> DEFINE N == {n \in Nat : n <= i => g[n] \in Nat}
  <2> HIDE DEF g
  <2>1. 0 \in N
    BY <1>5 DEF Ascends
  <2>2. ASSUME NEW n \in Nat, n \in N PROVE n + 1 \in N
    <3> SUFFICES ASSUME n + 1 <= i PROVE g[n + 1] \in Nat
      OBVIOUS
    <3>1. n + 1 \in 0..i /\ n + 1 # 0 /\ (n + 1) - 1 = n /\ g[n] \in Nat
      BY <2>2
    <3>2. g[n + 1] = IF g[n] \in DOMAIN dirs THEN dirs[g[n]].parent ELSE g[n]
      BY <1>5, <3>1 DEF Ascends
    <3> QED
      BY <3>1, <3>2 DEF Typed
  <2>3. Nat \subseteq N
    <3> HIDE DEF N
    <3> QED
      BY <2>1, <2>2, NatSetInduction
  <2>4. \A j \in 0..i : g[j] \in Nat
    BY <2>3
  <2>5. g = [j \in 0..i |-> g[j]]
    BY <1>5 DEF Ascends
  <2> QED
    BY <2>4, <2>5
<1> HIDE DEF g
<1> QED
  BY <1>5, <1>6, <1>7

\* Up(), step by step
LEMMA UpFacts ==
  ASSUME Typed(dirs, lastDir), lastDir \in Nat, NEW d \in Nat
  PROVE  /\ Up(d, 0) = d
         /\ \A i \in Nat : Up(d, i) \in Nat /\ Up(d, i + 1) = Above(Up(d, i))
<1>1. Up(d, 0) = d
  <2>1. PICK f \in [0..0 -> Nat] : Ascends(f, d, 0) /\ Up(d, 0) = f[0]
    BY AscendsExists
  <2> QED
    BY <2>1 DEF Ascends
<1>2. ASSUME NEW i \in Nat PROVE Up(d, i) \in Nat /\ Up(d, i + 1) = Above(Up(d, i))
  <2>1. PICK f \in [0..i -> Nat] : Ascends(f, d, i) /\ Up(d, i) = f[i]
    BY AscendsExists
  <2>2. PICK g \in [0..i + 1 -> Nat] : Ascends(g, d, i + 1) /\ Up(d, i + 1) = g[i + 1]
    <3>1. i + 1 \in Nat
      OBVIOUS
    <3> QED
      BY <3>1, AscendsExists
  <2> DEFINE N == {n \in Nat : n <= i => f[n] = g[n]}
  <2>3. /\ \A j \in 0..i : f[j] = IF j = 0 THEN d ELSE Above(f[j-1])
        /\ \A j \in 0..i + 1 : g[j] = IF j = 0 THEN d ELSE Above(g[j-1])
    BY <2>1, <2>2 DEF Ascends, Above
  <2>4. 0 \in N
    BY <2>3
  <2>5. ASSUME NEW n \in Nat, n \in N PROVE n + 1 \in N
    <3> SUFFICES ASSUME n + 1 <= i PROVE f[n + 1] = g[n + 1]
      OBVIOUS
    <3>1. n + 1 \in 0..i /\ n + 1 \in 0..i + 1 /\ n + 1 # 0 /\ (n + 1) - 1 = n /\ f[n] = g[n]
      BY <2>5
    <3> QED
      BY <2>3, <3>1
  <2>6. Nat \subseteq N
    <3> HIDE DEF N
    <3> QED
      BY <2>4, <2>5, NatSetInduction
  <2>7. f[i] = g[i] /\ i + 1 \in 0..i + 1 /\ i + 1 # 0 /\ (i + 1) - 1 = i /\ f[i] \in Nat
    BY <2>6
  <2> QED
    BY <2>1, <2>2, <2>3, <2>7
<1> QED
  BY <1>1, <1>2

\* The table of directories is finite.
LEMMA FiniteTable ==
  ASSUME Typed(dirs, lastDir), lastDir \in Nat
  PROVE  IsFiniteSet(DOMAIN dirs) /\ Cardinality(DOMAIN dirs) \in Nat
<1>1. IsFiniteSet(1..lastDir)
  BY FS_Interval
<1>2. IsFiniteSet(DOMAIN dirs)
  BY <1>1, FS_Subset DEF Typed
<1> QED
  BY <1>2, FS_CardinalityType

\* From equal ancestors on, the ancestors are equal.
LEMMA UpPeriodic ==
  ASSUME Typed(dirs, lastDir), lastDir \in Nat, NEW d \in Nat,
         NEW a \in Nat, NEW b \in Nat, Up(d, a) = Up(d, b)
  PROVE  \A k \in Nat : Up(d, a + k) = Up(d, b + k)
<1> DEFINE N == {k \in Nat : Up(d, a + k) = Up(d, b + k)}
<1>1. 0 \in N
  OBVIOUS
<1>2. ASSUME NEW k \in Nat, k \in N PROVE k + 1 \in N
  <2>1. /\ a + k \in Nat /\ b + k \in Nat
        /\ a + (k + 1) = (a + k) + 1 /\ b + (k + 1) = (b + k) + 1
    OBVIOUS
  <2>2. Up(d, (a + k) + 1) = Above(Up(d, a + k)) /\ Up(d, (b + k) + 1) = Above(Up(d, b + k))
    BY <2>1, UpFacts
  <2> QED
    BY <1>2, <2>1, <2>2
<1>3. Nat \subseteq N
  <2> HIDE DEF N
  <2> QED
    BY <1>1, <1>2, NatSetInduction
<1> QED
  BY <1>3

\* A directory that is met at all on the way up is met before the table is exhausted.
LEMMA ReachedSoon ==
  ASSUME Typed(dirs, lastDir), lastDir \in Nat, NEW d \in Nat, NEW n \in Nat
  PROVE  \E i \in 0..Cardinality(DOMAIN dirs) : Up(d, i) = Up(d, n)
<1> DEFINE x == Up(d, n)
           S == {i \in Nat : Up(d, i) = x}
<1>1. PICK m \in S : \A i \in S : m <= i
  <2>1. n \in S /\ S \subseteq Nat
    OBVIOUS
  <2> HIDE DEF S
  <2> QED
    BY <2>1, LeastNat
<1>2. m \in Nat /\ Up(d, m) = x /\ \A i \in Nat : i < m => Up(d, i) # x
  <2>1. m \in Nat /\ Up(d, m) = x
    OBVIOUS
  <2>2. ASSUME NEW i \in Nat, i < m PROVE Up(d, i) # x
    <3>1. SUFFICES ASSUME Up(d, i) = x PROVE FALSE
      OBVIOUS
    <3>2. i \in S
      BY <3>1
    <3> QED
      BY <1>1, <2>1, <2>2, <3>2
  <2> QED
    BY <2>1, <2>2
<1> HIDE DEF x, S
<1>3. ASSUME NEW a \in Nat, NEW b \in Nat, a < b, b < m PROVE Up(d, a) # Up(d, b)
  <2> SUFFICES ASSUME Up(d, a) = Up(d, b) PROVE FALSE
    OBVIOUS
  <2>1. m - b \in Nat /\ b + (m - b) = m /\ a + (m - b) \in Nat /\ a + (m - b) < m
    BY <1>2, <1>3
  <2>2. \A k \in Nat : Up(d, a + k) = Up(d, b + k)
    BY UpPeriodic
  <2>3. Up(d, a + (m - b)) = Up(d, m)
    BY <2>1, <2>2
  <2> QED
    BY <1>2, <2>1, <2>3
<1>4. ASSUME NEW a \in Nat, a < m PROVE Up(d, a) \in DOMAIN dirs
  <2> SUFFICES ASSUME Up(d, a) \notin DOMAIN dirs PROVE FALSE
    OBVIOUS
  <2>1. Up(d, a + 1) = Up(d, a) /\ a + 1 \in Nat
    BY UpFacts DEF Above
  <2>2. CASE a + 1 = m
    BY <1>2, <1>4, <2>1, <2>2
  <2>3. CASE a + 1 # m
    BY <1>2, <1>3, <1>4, <2>1, <2>3
  <2> QED
    BY <2>2, <2>3
<1> DEFINE f == [j \in 1..m |-> Up(d, j - 1)]
<1>5. f \in Injection(1..m, DOMAIN dirs)
  <2>1. \A j \in 1..m : j - 1 \in Nat /\ j - 1 < m
    BY <1>2
  <2>2. f \in [1..m -> DOMAIN dirs]
    BY <1>4, <2>1
  <2>3. ASSUME NEW i \in 1..m, NEW j \in 1..m, i < j PROVE f[i] # f[j]
    <3>1. i - 1 \in Nat /\ j - 1 \in Nat /\ i - 1 < j - 1 /\ j - 1 < m
      BY <1>2, <2>3
    <3>2. Up(d, i - 1) # Up(d, j - 1)
      BY <1>3, <3>1
    <3> QED
      BY <3>2
  <2>4. \A i, j \in 1..m : f[i] = f[j] => i = j
    <3> SUFFICES ASSUME NEW i \in 1..m, NEW j \in 1..m, i # j PROVE f[i] # f[j]
      OBVIOUS
    <3>1. i < j \/ j < i
      BY <1>2
    <3> HIDE DEF f
    <3> QED
      BY <2>3, <3>1
  <2> HIDE DEF f
  <2> QED
    BY <2>2, <2>4, Zenon DEF Injection, IsInjective
<1>6. m <= Cardinality(DOMAIN dirs)
  <2>1. IsFiniteSet(1..m) /\ Cardinality(1..m) = m
    BY <1>2, FS_Interval
  <2>2. Cardinality(1..m) <= Cardinality(DOMAIN dirs)
    <3> HIDE DEF f
    <3> QED
      BY <1>5, <2>1, FiniteTable, FS_Injection
  <2> QED
    BY <2>1, <2>2
<1> QED
  BY <1>2, <1>6, FiniteTable DEF x

\* Below() is what leads up to a directory, however far.
LEMMA BelowFacts ==
  ASSUME Typed(dirs, lastDir), lastDir \in Nat, NEW d \in Nat
  PROVE  /\ Below(d) \subseteq DOMAIN dirs
         /\ d \in DOMAIN dirs => d \in Below(d)
         /\ \A c \in DOMAIN dirs : dirs[c].parent \in Below(d) \cup {d} => c \in Below(d)
         /\ \A c \in DOMAIN dirs : c \in Below(d) <=> \E i \in Nat : Up(c, i) = d
<1>1. ASSUME NEW c \in DOMAIN dirs PROVE c \in Below(d) <=> \E i \in Nat : Up(c, i) = d
  <2>1. c \in Nat
    BY DEF Typed
  <2>2. (\E i \in Nat : Up(c, i) = d) => \E i \in 0..Cardinality(DOMAIN dirs) : Up(c, i) = d
    <3> SUFFICES ASSUME NEW i \in Nat, Up(c, i) = d
                 PROVE  \E j \in 0..Cardinality(DOMAIN dirs) : Up(c, j) = d
      OBVIOUS
    <3>1. \E j \in 0..Cardinality(DOMAIN dirs) : Up(c, j) = Up(c, i)
      BY <2>1, ReachedSoon
    <3> QED
      BY <3>1
  <2> QED
    BY <2>2, FiniteTable DEF Below
<1>2. d \in DOMAIN dirs => d \in Below(d)
  BY <1>1, UpFacts
<1>3. ASSUME NEW c \in DOMAIN dirs, dirs[c].parent \in Below(d) \cup {d} PROVE c \in Below(d)
  <2> DEFINE p == dirs[c].parent
  <2>1. c \in Nat /\ p \in Nat
    BY DEF Typed
  <2>2. PICK i \in Nat : Up(p, i) = d
    <3>1. p \in Below(d) => p \in DOMAIN dirs
      BY DEF Below
    <3> QED
      BY <1>1, <1>3, <2>1, <3>1, UpFacts
  <2> DEFINE N == {k \in Nat : Up(c, k + 1) = Up(p, k)}
  <2>3. 0 \in N
    <3>1. Up(c, 0) = c /\ Up(c, 0 + 1) = Above(c) /\ Up(p, 0) = p
      BY <2>1, UpFacts
    <3> QED
      BY <3>1 DEF Above
  <2>4. ASSUME NEW k \in Nat, k \in N PROVE k + 1 \in N
    <3>1. Up(c, (k + 1) + 1) = Above(Up(c, k + 1)) /\ Up(p, k + 1) = Above(Up(p, k))
      <4>1. k + 1 \in Nat
        OBVIOUS
      <4> HIDE DEF p
      <4> QED
        BY <2>1, <4>1, UpFacts
    <3> QED
      BY <2>4, <3>1
  <2>5. Nat \subseteq N
    <3> HIDE DEF N
    <3> QED
      BY <2>3, <2>4, NatSetInduction
  <2>6. Up(c, i + 1) = d /\ i + 1 \in Nat
    BY <2>2, <2>5
  <2> QED
    BY <1>1, <2>6
<1> QED
  BY <1>1, <1>2, <1>3 DEF Below

\* Without cycles, everything leads up to the root.
LEMMA SoundFromTree ==
  ASSUME Typed(dirs, lastDir), lastDir \in Nat, Tree(dirs)
  PROVE  TreeSound
<1> SUFFICES ASSUME NEW c \in DOMAIN dirs PROVE c \in Below(Root)
  BY DEF TreeSound
<1>1. c \in Nat
  BY DEF Typed
<1> SUFFICES ASSUME \A i \in Nat : Up(c, i) # Root PROVE FALSE
  <2>1. Root \in Nat
    BY DEF Root
  <2> QED
    BY <2>1, BelowFacts
<1> DEFINE S == {Up(c, i) : i \in Nat}
<1>2. ASSUME NEW i \in Nat PROVE Up(c, i) \in DOMAIN dirs
  <2> DEFINE N == {n \in Nat : Up(c, n) \in DOMAIN dirs}
  <2>1. 0 \in N
    BY <1>1, UpFacts
  <2>2. ASSUME NEW n \in Nat, n \in N PROVE n + 1 \in N
    <3>1. Up(c, n + 1) = dirs[Up(c, n)].parent /\ n + 1 \in Nat
      <4>1. Up(c, n + 1) = Above(Up(c, n)) /\ n + 1 \in Nat
        BY <1>1, UpFacts
      <4> QED
        BY <2>2, <4>1 DEF Above
    <3>2. Up(c, n + 1) \in DOMAIN dirs \cup {Root}
      BY <2>2, <3>1 DEF Tree
    <3> QED
      BY <3>1, <3>2
  <2>3. Nat \subseteq N
    <3> HIDE DEF N
    <3> QED
      BY <2>1, <2>2, NatSetInduction
  <2> QED
    BY <2>3
<1>3. S \in SUBSET DOMAIN dirs /\ S # {}
  BY <1>2
<1>4. PICK x \in S : dirs[x].parent \notin S
  <2> HIDE DEF S
  <2> QED
    BY <1>3 DEF Tree
<1>5. PICK i \in Nat : x = Up(c, i)
  OBVIOUS
<1>6. dirs[x].parent = Up(c, i + 1) /\ i + 1 \in Nat
  <2>1. Up(c, i + 1) = Above(Up(c, i)) /\ i + 1 \in Nat
    BY <1>1, UpFacts
  <2> QED
    BY <1>2, <1>5, <2>1 DEF Above
<1> QED
  BY <1>4, <1>6

-----------------------------------------------------------------------------
(* Paths *)

\* A child has its parent and its name; the root is nobody's child.
LEMMA ChildFacts ==
  ASSUME Typed(dirs, lastDir), lastDir \in Nat, NEW d, NEW n
  PROVE  /\ Child(d, n) \in Nat \cup {None} /\ Child(d, n) # Root
         /\ Child(d, n) # None => /\ Child(d, n) \in DOMAIN dirs
                                  /\ dirs[Child(d, n)].parent = d /\ dirs[Child(d, n)].name = n
         /\ d = None => Child(d, n) = None
<1> DEFINE c == {x \in DOMAIN dirs : dirs[x].parent = d /\ dirs[x].name = n}
<1>1. c \subseteq 1..lastDir
  BY DEF Typed
<1>2. c = {} => Child(d, n) = None
  BY DEF Child
<1>3. c # {} => Child(d, n) \in c
  BY DEF Child
<1>4. d = None => c = {}
  BY DEF None, Typed
<1> QED
  BY <1>1, <1>2, <1>3, <1>4 DEF None, Root

\* Resolve() goes down from the root, one name at a time.
Descends(f, p) == f = [i \in 0..Len(p) |-> IF i = 0 THEN Root ELSE Child(f[i-1], p[i])]
LEMMA ResolveAt ==
  ASSUME Typed(dirs, lastDir), lastDir \in Nat, NEW p \in Seq(Name)
  PROVE  \E f : Descends(f, p) /\ Resolve(p) = f[Len(p)]
<1> DEFINE X == Nat \cup {None}
           F == [z \in Nat \X X |-> Child(z[2], p[z[1]])]
<1>1. F \in [Nat \X X -> X]
  BY ChildFacts
<1>2. Root \in X /\ Len(p) \in Nat
  BY DEF Root
<1>3. PICK f \in [0..Len(p) -> X] : Follows(f, Root, F, Len(p))
  <2> HIDE DEF F, X
  <2> QED
    BY <1>1, <1>2, Recursion
<1>4. ASSUME NEW j \in 0..Len(p), j # 0 PROVE F[<<j, f[j-1]>>] = Child(f[j-1], p[j])
  <2>1. j - 1 \in 0..Len(p) /\ f[j-1] \in X /\ j \in Nat
    BY <1>2, <1>4
  <2> QED
    BY <2>1
<1>5. Descends(f, p)
  <2> HIDE DEF F, X
  <2> QED
    BY <1>3, <1>4 DEF Follows, Descends
<1> DEFINE g == CHOOSE g : Descends(g, p)
<1>6. Descends(g, p)
  BY <1>5, Zenon
<1>7. Resolve(p) = g[Len(p)]
  BY Zenon DEF Resolve, Descends
<1> HIDE DEF g
<1> QED
  BY <1>6, <1>7

\* A path leads to a directory, or nowhere.
LEMMA ResolveFacts ==
  ASSUME Typed(dirs, lastDir), lastDir \in Nat, NEW p \in Seq(Name)
  PROVE  /\ Resolve(p) \in Dir \cup {None}
         /\ p = <<>> => Resolve(p) = Root
         /\ p # <<>> => Resolve(p) # Root
<1>1. PICK f : Descends(f, p) /\ Resolve(p) = f[Len(p)]
  BY ResolveAt
<1>2. Len(p) \in Nat /\ (p = <<>> <=> Len(p) = 0)
  OBVIOUS
<1>3. CASE Len(p) = 0
  BY <1>1, <1>2, <1>3 DEF Descends, Dir
<1>4. CASE Len(p) # 0
  <2>1. Resolve(p) = Child(f[Len(p) - 1], p[Len(p)])
    <3>1. f[Len(p)] = Child(f[Len(p) - 1], p[Len(p)])
      <4>1. \A i \in 0..Len(p) : f[i] = IF i = 0 THEN Root ELSE Child(f[i-1], p[i])
        BY <1>1 DEF Descends
      <4> QED
        BY <1>2, <1>4, <4>1
    <3> QED
      BY <1>1, <3>1
  <2> QED
    BY <1>2, <1>4, <2>1, ChildFacts DEF Dir
<1> QED
  BY <1>3, <1>4

\* On the way down, each directory is the parent of the next one.
LEMMA Path ==
  ASSUME Typed(dirs, lastDir), lastDir \in Nat, NEW p \in Seq(Name), NEW f,
         Descends(f, p), f[Len(p)] # None
  PROVE  /\ Len(p) \in Nat /\ f[0] = Root
         /\ \A i \in 1..Len(p) : /\ f[i] \in DOMAIN dirs
                                 /\ dirs[f[i]].parent = f[i-1] /\ dirs[f[i]].name = p[i]
<1>1. Len(p) \in Nat /\ f[0] = Root /\ \A i \in 1..Len(p) : f[i] = Child(f[i-1], p[i])
  <2>1. Len(p) \in Nat
    OBVIOUS
  <2>2. \A i \in 0..Len(p) : f[i] = IF i = 0 THEN Root ELSE Child(f[i-1], p[i])
    BY DEF Descends
  <2>3. f[0] = Root
    BY <2>1, <2>2
  <2>4. \A i \in 1..Len(p) : i \in 0..Len(p) /\ i # 0
    BY <2>1
  <2> QED
    BY <2>1, <2>2, <2>3, <2>4
<1> DEFINE N == {k \in Nat : k <= Len(p) => f[Len(p) - k] # None}
<1>2. 0 \in N
  BY <1>1
<1>3. ASSUME NEW k \in Nat, k \in N PROVE k + 1 \in N
  <2> SUFFICES ASSUME k + 1 <= Len(p), f[Len(p) - (k + 1)] = None PROVE FALSE
    BY <1>1
  <2>1. Len(p) - k \in 1..Len(p) /\ (Len(p) - k) - 1 = Len(p) - (k + 1) /\ k <= Len(p)
    BY <1>1
  <2>2. f[Len(p) - k] = Child(None, p[Len(p) - k])
    BY <1>1, <2>1
  <2>3. f[Len(p) - k] # None
    BY <1>3, <2>1
  <2> QED
    BY <2>2, <2>3, ChildFacts
<1>4. Nat \subseteq N
  <2> HIDE DEF N
  <2> QED
    BY <1>2, <1>3, NatSetInduction
<1>5. ASSUME NEW i \in 1..Len(p) PROVE f[i] # None
  <2>1. Len(p) - i \in Nat /\ Len(p) - i <= Len(p) /\ Len(p) - (Len(p) - i) = i
    BY <1>1
  <2> QED
    BY <1>4, <2>1
<1> QED
  BY <1>1, <1>5, ChildFacts

\* Two paths to the same directory are the same from there on up.
LEMMA SamePath ==
  ASSUME Typed(dirs, lastDir), lastDir \in Nat, NEW p \in Seq(Name), NEW q \in Seq(Name), NEW f, NEW g,
         Descends(f, p), f[Len(p)] # None, Descends(g, q), g[Len(q)] # None,
         NEW j \in 0..Len(q), f[Len(p)] = g[j]
  PROVE  j = Len(p) /\ \A i \in 1..j : p[i] = q[i]
<1>1. /\ Len(p) \in Nat /\ f[0] = Root
      /\ \A i \in 1..Len(p) : /\ f[i] \in DOMAIN dirs
                              /\ dirs[f[i]].parent = f[i-1] /\ dirs[f[i]].name = p[i]
  BY Path
<1>2. /\ Len(q) \in Nat /\ g[0] = Root
      /\ \A i \in 1..Len(q) : /\ g[i] \in DOMAIN dirs
                              /\ dirs[g[i]].parent = g[i-1] /\ dirs[g[i]].name = q[i]
  BY Path
<1>3. Root \notin DOMAIN dirs
  BY DEF Typed, Root
<1> DEFINE N == {k \in Nat : k <= Len(p) /\ k <= j => f[Len(p) - k] = g[j - k]}
<1>4. 0 \in N
  BY <1>1, <1>2
<1>5. ASSUME NEW k \in Nat, k \in N PROVE k + 1 \in N
  <2> SUFFICES ASSUME k + 1 <= Len(p), k + 1 <= j PROVE f[Len(p) - (k + 1)] = g[j - (k + 1)]
    BY <1>1, <1>2
  <2>1. /\ Len(p) - k \in 1..Len(p) /\ (Len(p) - k) - 1 = Len(p) - (k + 1) /\ k <= Len(p)
        /\ j - k \in 1..Len(q) /\ (j - k) - 1 = j - (k + 1) /\ k <= j
    BY <1>1, <1>2
  <2>2. f[Len(p) - k] = g[j - k]
    BY <1>5, <2>1
  <2> QED
    BY <1>1, <1>2, <2>1, <2>2
<1>6. Nat \subseteq N
  <2> HIDE DEF N
  <2> QED
    BY <1>4, <1>5, NatSetInduction
<1>7. \A k \in Nat : k <= Len(p) /\ k <= j => f[Len(p) - k] = g[j - k]
  BY <1>6
<1>8. j = Len(p)
  <2>1. CASE j < Len(p)
    <3>1. f[Len(p) - j] = g[0] /\ Len(p) - j \in 1..Len(p)
      <4>1. j \in Nat /\ j <= Len(p) /\ j <= j /\ j - j = 0
        BY <1>1, <1>2, <2>1
      <4>2. f[Len(p) - j] = g[j - j]
        BY <1>7, <4>1
      <4> QED
        BY <1>1, <2>1, <4>1, <4>2
    <3> QED
      BY <1>1, <1>2, <1>3, <3>1
  <2>2. CASE Len(p) < j
    <3>1. g[j - Len(p)] = f[0] /\ j - Len(p) \in 1..Len(q)
      <4>1. Len(p) <= j /\ Len(p) <= Len(p) /\ Len(p) - Len(p) = 0
        BY <1>1, <1>2, <2>2
      <4>2. f[Len(p) - Len(p)] = g[j - Len(p)]
        BY <1>1, <1>7, <4>1
      <4> QED
        BY <1>1, <1>2, <2>2, <4>1, <4>2
    <3> QED
      BY <1>1, <1>2, <1>3, <3>1
  <2> QED
    BY <1>1, <1>2, <2>1, <2>2
<1>9. ASSUME NEW i \in 1..j PROVE p[i] = q[i]
  <2>1. j - i \in Nat /\ j - i <= j /\ j - (j - i) = i /\ i \in 1..Len(p) /\ i \in 1..Len(q)
    BY <1>1, <1>2, <1>8
  <2>2. f[Len(p) - (j - i)] = g[j - (j - i)]
    BY <1>7, <1>8, <2>1
  <2>3. f[i] = g[i]
    BY <1>8, <2>1, <2>2
  <2> QED
    BY <1>1, <1>2, <2>1, <2>3
<1> QED
  BY <1>8, <1>9

\* The test of MoveDirectory() and CopyDirectory(), which compares the paths, keeps a
\* directory from going below itself.
LEMMA NotIntoItself ==
  ASSUME Typed(dirs, lastDir), lastDir \in Nat, NEW p \in Seq(Name), NEW q \in Seq(Name),
         p # <<>>, MayPlace(p, q)
  PROVE  /\ Resolve(p) \in DOMAIN dirs /\ Resolve(q) \in Dir
         /\ Resolve(q) \notin Below(Resolve(p))
<1> DEFINE d == Resolve(p)
           to == Resolve(q)
<1>1. d # None /\ to # None /\ d # to /\ ~IsStrictPrefix(p, q)
  BY DEF MayPlace
<1>2. d \in DOMAIN dirs /\ to \in Dir
  BY <1>1, ResolveFacts DEF Dir
<1>3. DOMAIN dirs \subseteq Nat /\ d \in Nat
  BY <1>2 DEF Typed
<1> SUFFICES ASSUME to \in Below(d) PROVE FALSE
  BY <1>2
<1>4. PICK m \in Nat : Up(to, m) = d
  <2> HIDE DEF d, to
  <2>1. to \in DOMAIN dirs
    BY <1>3, BelowFacts
  <2> QED
    BY <1>3, <2>1, BelowFacts
<1>5. to \in Nat
  BY <1>2, <1>3 DEF Dir, Root
<1>6. PICK f : Descends(f, p) /\ d = f[Len(p)]
  BY ResolveAt
<1>7. PICK g : Descends(g, q) /\ to = g[Len(q)]
  BY ResolveAt
<1> HIDE DEF d, to
<1>8. /\ Len(q) \in Nat /\ g[0] = Root
      /\ \A i \in 1..Len(q) : /\ g[i] \in DOMAIN dirs
                              /\ dirs[g[i]].parent = g[i-1] /\ dirs[g[i]].name = q[i]
  BY <1>1, <1>7, Path
<1>9. Root \notin DOMAIN dirs
  BY DEF Typed, Root
<1> DEFINE N == {k \in Nat : Up(to, k) = IF k <= Len(q) THEN g[Len(q) - k] ELSE Root}
<1>10. 0 \in N
  <2>1. Up(to, 0) = to /\ 0 <= Len(q) /\ Len(q) - 0 = Len(q)
    BY <1>5, <1>8, UpFacts
  <2> QED
    BY <1>7, <2>1
<1>11. ASSUME NEW k \in Nat, k \in N PROVE k + 1 \in N
  <2>1. Up(to, k + 1) = Above(Up(to, k)) /\ k + 1 \in Nat
    BY <1>5, UpFacts
  <2>2. CASE k < Len(q)
    <3>1. Len(q) - k \in 1..Len(q) /\ (Len(q) - k) - 1 = Len(q) - (k + 1) /\ k <= Len(q) /\ k + 1 <= Len(q)
      BY <1>8, <2>2
    <3> QED
      BY <1>8, <1>11, <2>1, <3>1 DEF Above
  <2>3. CASE k >= Len(q)
    <3>1. Up(to, k) = Root /\ ~ (k + 1 <= Len(q))
      <4>1. k = Len(q) => Len(q) - k = 0
        BY <1>8
      <4> QED
        <5>1. Up(to, k) = IF k <= Len(q) THEN g[Len(q) - k] ELSE Root
          BY <1>11
        <5>2. k <= Len(q) => k = Len(q)
          BY <1>8, <2>3
        <5>3. Up(to, k) = Root
          <6>1. CASE k = Len(q)
            <7>1. k <= Len(q) /\ g[Len(q) - k] = g[0]
              BY <1>8, <4>1, <6>1
            <7> QED
              BY <1>8, <5>1, <7>1
          <6>2. CASE k # Len(q)
            BY <5>1, <5>2, <6>2
          <6> QED
            BY <6>1, <6>2
        <5>4. ~ (k + 1 <= Len(q))
          BY <1>8, <2>3
        <5> QED
          BY <5>3, <5>4
    <3> QED
      BY <1>9, <2>1, <3>1 DEF Above
  <2> QED
    BY <1>8, <2>2, <2>3
<1>12. Nat \subseteq N
  <2> HIDE DEF N
  <2> QED
    BY <1>10, <1>11, NatSetInduction
<1>13. m <= Len(q) /\ d = g[Len(q) - m] /\ Len(q) - m \in 0..Len(q)
  BY <1>2, <1>4, <1>8, <1>9, <1>12
<1>14. Len(q) - m = Len(p) /\ \A i \in 1..Len(p) : p[i] = q[i]
  <2> DEFINE j == Len(q) - m
  <2>1. j \in 0..Len(q) /\ f[Len(p)] = g[j] /\ f[Len(p)] # None /\ g[Len(q)] # None
    BY <1>1, <1>6, <1>7, <1>13
  <2> HIDE DEF j
  <2>2. j = Len(p) /\ \A i \in 1..j : p[i] = q[i]
    BY <1>6, <1>7, <2>1, SamePath
  <2> QED
    BY <2>2 DEF j
<1>15. IsPrefix(p, q)
  <2>1. Len(p) \in Nat /\ Len(p) <= Len(q)
    BY <1>8, <1>14
  <2>2. SubSeq(p, 1, Len(p)) = SubSeq(q, 1, Len(p))
    BY <1>8, <1>14, <2>1
  <2> QED
    BY <2>1, <2>2 DEF IsPrefix
<1>16. p # q
  BY <1>1, <1>6 DEF d, to
<1> QED
  BY <1>1, <1>15, <1>16 DEF IsStrictPrefix

-----------------------------------------------------------------------------
(* Trees *)

\* Every directory is a member of the table of the next counter, too.
LEMMA TypedMore ==
  ASSUME Typed(dirs, lastDir), lastDir \in Nat
  PROVE  Typed(dirs, lastDir + 1) /\ lastDir + 1 \notin DOMAIN dirs /\ lastDir + 1 \in Nat \ {Root}
<1>1. 1..lastDir \subseteq 1..lastDir + 1 /\ lastDir + 1 \notin 1..lastDir /\ lastDir + 1 # 0
  OBVIOUS
<1> QED
  BY <1>1 DEF Typed, Root

\* A new directory in one that exists
LEMMA TreePut ==
  ASSUME Typed(dirs, lastDir), lastDir \in Nat, Tree(dirs), NEW d \in Dir, NEW n \in Name
  PROVE  LET D == Put(lastDir + 1, [parent |-> d, name |-> n])
         IN  Typed(D, lastDir + 1) /\ Tree(D) /\ DOMAIN D = DOMAIN dirs \cup {lastDir + 1}
<1> DEFINE x == lastDir + 1
           e == [parent |-> d, name |-> n]
           D == Put(x, e)
<1>1. /\ x \notin DOMAIN dirs /\ x \in Nat /\ x # Root /\ x \in 1..x
      /\ DOMAIN dirs \subseteq 1..x /\ d \in Nat
  BY TypedMore DEF Typed, Dir, Root
<1> HIDE DEF x
<1>2. /\ DOMAIN D = DOMAIN dirs \cup {x} /\ D[x] = e
      /\ \A c \in DOMAIN dirs : D[c] = dirs[c]
  BY <1>1 DEF Put
<1> HIDE DEF D
<1>3. e \in [parent : Nat, name : Name] /\ e.parent = d
  BY <1>1
<1>4. Typed(D, x)
  BY <1>1, <1>2, <1>3 DEF Typed
<1>5. \A c \in DOMAIN D : D[c].parent \in DOMAIN D \cup {Root}
  BY <1>2, <1>3 DEF Tree, Dir
<1>6. ASSUME NEW S \in SUBSET DOMAIN D, S # {} PROVE \E c \in S : D[c].parent \notin S
  <2> DEFINE T == S \cap DOMAIN dirs
  <2>1. CASE T = {}
    <3>1. x \in S /\ d # x
      BY <1>1, <1>2, <1>6, <2>1 DEF Dir
    <3>2. d \notin S
      BY <1>2, <2>1, <3>1, TypedMore DEF Dir, Typed, Root
    <3> QED
      BY <1>2, <1>3, <3>1, <3>2
  <2>2. CASE T # {}
    <3>1. PICK c \in T : dirs[c].parent \notin T
      <4>1. T \in SUBSET DOMAIN dirs
        OBVIOUS
      <4> HIDE DEF T
      <4> QED
        BY <2>2, <4>1 DEF Tree
    <3>2. dirs[c].parent \in DOMAIN dirs \cup {Root}
      BY <3>1 DEF Tree
    <3>3. Root \notin DOMAIN D
      BY <1>1, <1>2 DEF Typed, Root
    <3> QED
      BY <1>1, <1>2, <3>1, <3>2, <3>3
  <2> QED
    BY <2>1, <2>2
<1>7. Tree(D)
  BY <1>5, <1>6 DEF Tree
<1> QED
  BY <1>2, <1>4, <1>7 DEF D, x

\* Without a directory and all that is in it
LEMMA TreeLess ==
  ASSUME Typed(dirs, lastDir), lastDir \in Nat, Tree(dirs), NEW gone,
         \A c \in DOMAIN dirs : dirs[c].parent \in gone => c \in gone
  PROVE  LET D == [x \in DOMAIN dirs \ gone |-> dirs[x]]
         IN  Typed(D, lastDir + 1) /\ Tree(D) /\ DOMAIN D = DOMAIN dirs \ gone
<1> DEFINE D == [x \in DOMAIN dirs \ gone |-> dirs[x]]
<1>1. DOMAIN D = DOMAIN dirs \ gone /\ \A c \in DOMAIN D : D[c] = dirs[c]
  OBVIOUS
<1> HIDE DEF D
<1>2. Typed(D, lastDir + 1)
  BY <1>1, TypedMore DEF Typed
<1>3. \A c \in DOMAIN D : D[c].parent \in DOMAIN D \cup {Root}
  BY <1>1 DEF Tree
<1>4. ASSUME NEW S \in SUBSET DOMAIN D, S # {} PROVE \E c \in S : D[c].parent \notin S
  <2>1. S \in SUBSET DOMAIN dirs
    BY <1>1
  <2>2. PICK c \in S : dirs[c].parent \notin S
    BY <1>4, <2>1 DEF Tree
  <2> QED
    BY <1>1, <2>2
<1> QED
  BY <1>1, <1>2, <1>3, <1>4 DEF Tree, D

\* With another name of a directory
LEMMA TreeRename ==
  ASSUME Typed(dirs, lastDir), lastDir \in Nat, Tree(dirs), NEW d \in DOMAIN dirs, NEW n \in Name
  PROVE  LET D == [dirs EXCEPT ![d].name = n]
         IN  Typed(D, lastDir + 1) /\ Tree(D) /\ DOMAIN D = DOMAIN dirs
<1> DEFINE D == [dirs EXCEPT ![d].name = n]
<1>1. /\ DOMAIN D = DOMAIN dirs
      /\ \A c \in DOMAIN dirs : D[c] \in [parent : Nat, name : Name] /\ D[c].parent = dirs[c].parent
  BY DEF Typed
<1> HIDE DEF D
<1>2. Typed(D, lastDir + 1)
  BY <1>1, TypedMore DEF Typed
<1>3. \A c \in DOMAIN D : D[c].parent \in DOMAIN D \cup {Root}
  BY <1>1 DEF Tree
<1>4. ASSUME NEW S \in SUBSET DOMAIN D, S # {} PROVE \E c \in S : D[c].parent \notin S
  <2>1. S \in SUBSET DOMAIN dirs
    BY <1>1
  <2>2. PICK c \in S : dirs[c].parent \notin S
    BY <1>4, <2>1 DEF Tree
  <2> QED
    BY <1>1, <2>1, <2>2
<1> QED
  BY <1>1, <1>2, <1>3, <1>4 DEF Tree, D

\* A directory goes to another one that is not below it: a cycle would have existed
\* before, above the new parent.
LEMMA TreeMove ==
  ASSUME Typed(dirs, lastDir), lastDir \in Nat, Tree(dirs), NEW d \in DOMAIN dirs,
         NEW to \in Dir, to \notin Below(d)
  PROVE  LET D == [dirs EXCEPT ![d].parent = to]
         IN  Typed(D, lastDir + 1) /\ Tree(D) /\ DOMAIN D = DOMAIN dirs
<1> DEFINE D == [dirs EXCEPT ![d].parent = to]
<1>1. to \in Nat /\ d \in Nat
  BY DEF Dir, Typed, Root
<1>2. /\ DOMAIN D = DOMAIN dirs
      /\ \A c \in DOMAIN dirs : D[c] \in [parent : Nat, name : Name]
      /\ D[d].parent = to
      /\ \A c \in DOMAIN dirs \ {d} : D[c].parent = dirs[c].parent
  BY <1>1 DEF Typed
<1> HIDE DEF D
<1>3. Typed(D, lastDir + 1)
  BY <1>2, TypedMore DEF Typed
<1>4. \A c \in DOMAIN D : D[c].parent \in DOMAIN D \cup {Root}
  BY <1>2 DEF Tree, Dir
<1>5. ASSUME NEW S \in SUBSET DOMAIN D, S # {} PROVE \E c \in S : D[c].parent \notin S
  <2> SUFFICES ASSUME \A c \in S : D[c].parent \in S PROVE FALSE
    OBVIOUS
  <2> DEFINE B == Below(d)
             T == S \ B
  <2>1. d \in B /\ \A c \in DOMAIN dirs : dirs[c].parent \in B => c \in B
    BY <1>1, BelowFacts
  <2> HIDE DEF B
  <2>2. S \in SUBSET DOMAIN dirs /\ T \in SUBSET DOMAIN dirs
    BY <1>2
  <2>3. T # {}
    <3>1. CASE d \in S
      <4>1. to \in S /\ to \notin B
        BY <1>2, <3>1 DEF B
      <4> QED
        BY <4>1
    <3>2. CASE d \notin S
      <4>1. PICK c \in S : dirs[c].parent \notin S
        BY <1>5, <2>2 DEF Tree
      <4>2. D[c].parent = dirs[c].parent
        BY <1>2, <2>2, <3>2
      <4> QED
        BY <4>1, <4>2
    <3> QED
      BY <3>1, <3>2
  <2>4. PICK c \in T : dirs[c].parent \notin T
    <3> HIDE DEF T
    <3> QED
      BY <2>2, <2>3 DEF Tree
  <2>5. c # d /\ c \in S /\ c \in DOMAIN dirs
    BY <2>1, <2>2
  <2>6. dirs[c].parent \in S
    BY <1>2, <2>5
  <2>7. dirs[c].parent \notin B
    BY <2>1, <2>4, <2>5
  <2> QED
    BY <2>4, <2>6, <2>7
<1> QED
  BY <1>2, <1>3, <1>4, <1>5 DEF Tree, D

-----------------------------------------------------------------------------
(* Names, counters and changes *)

\* A unique name, unless the suffixes are used up
LEMMA UniqueNameFacts ==
  ASSUME NEW d, NEW n \in Base, UniqueName(d, n)[2] # None
  PROVE  UniqueName(d, n) \in Name
<1> DEFINE free == {i \in 2..MaxSuffix : RowsAt(d, <<n, i>>) = {}}
<1>1. MaxSuffix \in Nat /\ 1 \in 1..MaxSuffix
  BY BoundsAssumption
<1>2. CASE ~Taken(d, <<n, 1>>)
  <2>1. UniqueName(d, n) = <<n, 1>>
    BY <1>2 DEF UniqueName
  <2> QED
    BY <1>1, <2>1 DEF Name
<1>3. CASE Taken(d, <<n, 1>>) /\ free = {}
  <2>1. UniqueName(d, n) = <<n, None>>
    BY <1>3 DEF UniqueName
  <2> QED
    BY <2>1
<1>4. CASE Taken(d, <<n, 1>>) /\ free # {}
  <2>1. UniqueName(d, n) = <<n, Min(free)>>
    BY <1>4 DEF UniqueName
  <2>2. free \subseteq 2..MaxSuffix
    OBVIOUS
  <2> HIDE DEF free
  <2>3. free \subseteq Nat /\ free \subseteq 1..MaxSuffix
    BY <1>1, <2>2
  <2>4. \E i \in free : \A j \in free : i <= j
    BY <1>4, <2>3, LeastNat
  <2>5. Min(free) \in 1..MaxSuffix
    BY <2>3, <2>4 DEF Min
  <2>6. <<n, Min(free)>> \in Name
    BY <2>5 DEF Name
  <2> QED
    BY <2>1, <2>6
<1> QED
  BY <1>2, <1>3, <1>4

\* The counter after new directories have been inserted
LEMMA NewCounter ==
  ASSUME NEW n \in Nat, NEW S, S \subseteq 1..n+1
  PROVE  /\ Max(S \cup {n}) \in Nat /\ n <= Max(S \cup {n})
         /\ S \subseteq 1..Max(S \cup {n})
<1> DEFINE T == S \cup {n}
<1>1. \A x \in T : x \in Nat /\ x <= n + 1
  OBVIOUS
<1>2. \E x \in T : \A y \in T : x >= y
  <2>1. CASE n + 1 \in T
    BY <1>1, <2>1
  <2>2. CASE n + 1 \notin T
    <3>1. \A y \in T : n >= y
      BY <1>1, <2>2
    <3> QED
      BY <3>1
  <2> QED
    BY <2>1, <2>2
<1>3. Max(T) \in T /\ \A y \in T : Max(T) >= y
  <2> HIDE DEF T
  <2> QED
    BY <1>2 DEF Max
<1>4. n \in T /\ S \subseteq T
  OBVIOUS
<1> DEFINE m == Max(T)
<1>5. m \in Nat /\ n <= m
  <2> HIDE DEF T
  <2> QED
    BY <1>1, <1>3, <1>4
<1>6. \A x \in S : x \in 1..m
  <2> HIDE DEF T
  <2> QED
    BY <1>1, <1>3, <1>4, <1>5
<1> QED
  BY <1>5, <1>6

\* The path without its last name, and that name
LEMMA FrontLast ==
  ASSUME NEW p \in Seq(Name), p # <<>>
  PROVE  Front(p) \in Seq(Name) /\ Last(p) \in Name
<1>1. Len(p) \in Nat \ {0} /\ Len(p) \in 1..Len(p) /\ p \in [1..Len(p) -> Name]
  OBVIOUS
<1>2. Last(p) \in Name
  BY <1>1 DEF Last
<1>3. Front(p) \in Seq(Name)
  BY <1>1, SubSeqProperties DEF Front
<1> QED
  BY <1>2, <1>3

\* A transaction that leaves the directories alone
LEMMA SameTree ==
  ASSUME TypeOK, Tree(dirs), NEW w, w.dirs = dirs, w.add \subseteq Row, w.file \in [File -> File]
  PROVE  Keeps(w) /\ Clears(w)
<1>1. Typed(dirs, lastDir) /\ lastDir \in Nat
  BY DEF TypeOK, Typed
<1>2. Typed(dirs, lastDir + 1)
  BY <1>1, TypedMore
<1> QED
  BY <1>2 DEF Keeps, Clears

\* A transaction that changes the directories and adds no instruments
LEMMA OtherTree ==
  ASSUME NEW w, Typed(w.dirs, lastDir + 1), Tree(w.dirs), w.add = {}, w.file = [f \in File |-> f],
         DOMAIN dirs \subseteq DOMAIN w.dirs
  PROVE  Keeps(w) /\ Clears(w)
BY DEF Keeps, Clears

\* What a Change leaves alone
LEMMA ChangeFields ==
  /\ Change.dirs = dirs /\ Change.wipe = {} /\ Change.add = {}
  /\ Change.file = [f \in File |-> f] /\ Change.file \in [File -> File]
BY DEF Change

-----------------------------------------------------------------------------
(* Commands *)

\* A transaction that begins is to change nothing, or leaves a tree
Begins(t) == \E w : Begin(t, w) /\ (w = Fail \/ (Keeps(w) /\ Clears(w)))

\* The tables of a state of the right type
LEMMA Tables ==
  ASSUME TypeOK
  PROVE  /\ Typed(dirs, lastDir) /\ lastDir \in Nat /\ rows \subseteq Row
         /\ Dir \subseteq Nat /\ None \notin Dir /\ Root \in Nat
<1>1. Typed(dirs, lastDir) /\ lastDir \in Nat /\ rows \subseteq Row
  BY DEF TypeOK, Typed
<1>2. \A d \in DOMAIN dirs : d \in Nat
  BY DEF TypeOK
<1> QED
  BY <1>1, <1>2 DEF Dir, Root, None

\* AddDirectory(), of a command or of a scan
LEMMA MakeDirectoryBegins ==
  ASSUME TypeOK, Tree(dirs), NEW t, NEW p \in Seq(Name), p # <<>>, MakeDirectory(t, p)
  PROVE  Begins(t)
<1> DEFINE d == Resolve(Front(p))
           D == Put(lastDir + 1, [parent |-> d, name |-> Last(p)])
           w == [Change EXCEPT !.dirs = D]
<1>1. Front(p) \in Seq(Name) /\ Last(p) \in Name
  BY FrontLast
<1>2. CASE d = None \/ Taken(d, Last(p))
  BY <1>2 DEF MakeDirectory, Begins
<1>3. CASE ~(d = None \/ Taken(d, Last(p)))
  <2>1. d \in Dir
    BY <1>1, <1>3, Tables, ResolveFacts
  <2>2. Begin(t, w)
    BY <1>3 DEF MakeDirectory
  <2>3. w.dirs = D /\ w.add = {} /\ w.file = [f \in File |-> f]
    BY DEF Change
  <2> HIDE DEF d
  <2>4. Typed(D, lastDir + 1) /\ Tree(D) /\ DOMAIN D = DOMAIN dirs \cup {lastDir + 1}
    BY <1>1, <2>1, Tables, TreePut
  <2> HIDE DEF D, w
  <2>5. Keeps(w) /\ Clears(w)
    BY <2>3, <2>4, OtherTree
  <2> QED
    BY <2>2, <2>5 DEF Begins
<1> QED
  BY <1>2, <1>3

\* RemoveDirectory(): what is below the directory goes, and nothing else is there
LEMMA RemoveDirectoryBegins ==
  ASSUME TypeOK, Tree(dirs), NEW t, NEW p \in Seq(Name), NEW force \in BOOLEAN,
         RemoveDirectory(t, p, force)
  PROVE  Begins(t)
<1> DEFINE d == Resolve(p)
           gone == IF force THEN Below(d) ELSE {d}
           D == [x \in DOMAIN dirs \ gone |-> dirs[x]]
           refused == d \in {None, Root} \/ (~force /\ (Below(d) # {d} \/ \E r \in rows : r.dir = d))
           w == [Change EXCEPT !.dirs = D, !.wipe = Content(d, force)]
<1>1. Begin(t, IF refused THEN Fail ELSE w)
  BY Zenon DEF RemoveDirectory
<1>2. CASE refused
  BY <1>1, <1>2 DEF Begins
<1>3. CASE ~refused
  <2>1. d \in DOMAIN dirs /\ d \in Nat
    <3>1. d \in Dir \cup {None}
      BY Tables, ResolveFacts
    <3>2. d \notin {None, Root}
      BY <1>3
    <3> HIDE DEF d
    <3> QED
      BY <3>1, <3>2, Tables DEF Dir
  <2>2. Begin(t, w)
    BY <1>1, <1>3
  <2>3. w.dirs = D /\ w.add = {} /\ w.file = [f \in File |-> f] /\ w.wipe = Content(d, force)
    BY DEF Change
  <2>4. gone = Below(d)
    BY <1>3
  <2>5. ~force => \A r \in rows : r.dir # d
    BY <1>3
  <2>6. force => Content(d, force) = gone
    BY DEF Content
  <2>7. ~force => gone = {d}
    OBVIOUS
  <2> HIDE DEF d
  <2>8. \A c \in DOMAIN dirs : dirs[c].parent \in Below(d) => c \in Below(d)
    BY <2>1, Tables, BelowFacts
  <2> HIDE DEF gone
  <2>9. Typed(D, lastDir + 1) /\ Tree(D) /\ DOMAIN D = DOMAIN dirs \ gone
    BY <2>4, <2>8, Tables, TreeLess
  <2> HIDE DEF D, w
  <2>10. Keeps(w)
    BY <2>3, <2>9 DEF Keeps
  <2>11. Clears(w)
    <3> SUFFICES ASSUME NEW c \in gone PROVE c \in w.wipe \/ \A r \in rows : r.dir # c
      BY <2>3, <2>9 DEF Clears
    <3> QED
      BY <2>3, <2>5, <2>6, <2>7
  <2> QED
    BY <2>2, <2>10, <2>11 DEF Begins
<1> QED
  BY <1>2, <1>3

\* RenameDirectory()
LEMMA RenameDirectoryBegins ==
  ASSUME TypeOK, Tree(dirs), NEW t, NEW p \in Seq(Name), NEW n \in Name, RenameDirectory(t, p, n)
  PROVE  Begins(t)
<1> DEFINE d == Resolve(p)
           D == [dirs EXCEPT ![d].name = n]
           refused == d \in {None, Root} \/ Taken(dirs[d].parent, n)
           w == [Change EXCEPT !.dirs[d].name = n]
<1>1. Begin(t, IF refused THEN Fail ELSE w)
  BY DEF RenameDirectory
<1>2. CASE refused
  BY <1>1, <1>2 DEF Begins
<1>3. CASE ~refused
  <2>1. d \in DOMAIN dirs
    <3>1. d \in Dir \cup {None}
      BY Tables, ResolveFacts
    <3> QED
      BY <1>3, <3>1 DEF Dir
  <2>2. Begin(t, w)
    BY <1>1, <1>3
  <2>3. w.dirs = D /\ w.add = {} /\ w.file = [f \in File |-> f]
    BY DEF Change
  <2> HIDE DEF d
  <2>4. Typed(D, lastDir + 1) /\ Tree(D) /\ DOMAIN D = DOMAIN dirs
    BY <2>1, Tables, TreeRename
  <2> HIDE DEF D, w
  <2>5. Keeps(w) /\ Clears(w)
    BY <2>3, <2>4, OtherTree
  <2> QED
    BY <2>2, <2>5 DEF Begins
<1> QED
  BY <1>2, <1>3

\* MoveDirectory(): its checks keep a directory from going below itself
LEMMA MoveDirectoryBegins ==
  ASSUME TypeOK, Tree(dirs), NEW t, NEW p \in Seq(Name), NEW q \in Seq(Name), MoveDirectory(t, p, q)
  PROVE  Begins(t)
<1> DEFINE d == Resolve(p)
           to == Resolve(q)
           D == [dirs EXCEPT ![d].parent = to]
           w == [Change EXCEPT !.dirs[d].parent = to]
<1>1. Begin(t, IF MayPlace(p, q) THEN w ELSE Fail) /\ p # <<>>
  BY DEF MoveDirectory
<1>2. CASE ~MayPlace(p, q)
  BY <1>1, <1>2 DEF Begins
<1>3. CASE MayPlace(p, q)
  <2>1. d \in DOMAIN dirs /\ to \in Dir /\ to \notin Below(d)
    BY <1>1, <1>3, Tables, NotIntoItself
  <2>2. Begin(t, w)
    BY <1>1, <1>3
  <2>3. w.dirs = D /\ w.add = {} /\ w.file = [f \in File |-> f]
    BY DEF Change
  <2> HIDE DEF d, to
  <2>4. Typed(D, lastDir + 1) /\ Tree(D) /\ DOMAIN D = DOMAIN dirs
    BY <2>1, Tables, TreeMove
  <2> HIDE DEF D, w
  <2>5. Keeps(w) /\ Clears(w)
    BY <2>3, <2>4, OtherTree
  <2> QED
    BY <2>2, <2>5 DEF Begins
<1> QED
  BY <1>2, <1>3

\* RemoveInstrument()
LEMMA RemoveInstrumentBegins ==
  ASSUME TypeOK, Tree(dirs), NEW t, NEW p, NEW n, RemoveInstrument(t, p, n)
  PROVE  Begins(t)
<1> DEFINE r == RowsAt(Resolve(p), n)
           w == [Change EXCEPT !.del = r]
<1>1. Begin(t, IF r = {} THEN Fail ELSE w)
  BY DEF RemoveInstrument
<1>2. w.dirs = dirs /\ w.add = {} /\ w.file = [f \in File |-> f]
  BY DEF Change
<1> HIDE DEF r, w
<1>3. w.add \subseteq Row /\ w.file \in [File -> File]
  BY <1>2
<1>4. Keeps(w) /\ Clears(w)
  BY <1>2, <1>3, SameTree
<1> QED
  BY <1>1, <1>4 DEF Begins

\* RenameInstrument()
LEMMA RenameInstrumentBegins ==
  ASSUME TypeOK, Tree(dirs), NEW t, NEW p, NEW n, NEW m \in Name, RenameInstrument(t, p, n, m)
  PROVE  Begins(t)
<1> DEFINE d == Resolve(p)
           r == RowsAt(d, n)
           a == {[x EXCEPT !.name = m] : x \in r}
           w == [Change EXCEPT !.del = r, !.add = a]
<1>1. Begin(t, IF r = {} \/ Taken(d, m) THEN Fail ELSE w)
  BY DEF RenameInstrument
<1>2. w.dirs = dirs /\ w.add = a /\ w.file = [f \in File |-> f]
  BY DEF Change
<1>3. r \subseteq Row
  BY Tables DEF RowsAt
<1> HIDE DEF r, d
<1>4. a \subseteq Row
  BY <1>3 DEF Row
<1> HIDE DEF a, w
<1>5. w.add \subseteq Row /\ w.file \in [File -> File]
  BY <1>2, <1>4
<1>6. Keeps(w) /\ Clears(w)
  BY <1>2, <1>5, SameTree
<1> QED
  BY <1>1, <1>6 DEF Begins

\* MoveInstrument() and CopyInstrument()
LEMMA PlaceInstrumentBegins ==
  ASSUME TypeOK, Tree(dirs), NEW t, NEW p, NEW n, NEW q \in Seq(Name), NEW keep \in BOOLEAN,
         PlaceInstrument(t, p, n, q, keep)
  PROVE  Begins(t)
<1> DEFINE r == RowsAt(Resolve(p), n)
           to == Resolve(q)
           a == {[x EXCEPT !.dir = to] : x \in r}
           refused == r = {} \/ to = None \/ to = Resolve(p) \/ Taken(to, n)
           w == [Change EXCEPT !.del = IF keep THEN {} ELSE r, !.add = a]
<1>1. Begin(t, IF refused THEN Fail ELSE w)
  BY DEF PlaceInstrument
<1>2. CASE refused
  BY <1>1, <1>2 DEF Begins
<1>3. CASE ~refused
  <2>1. Begin(t, w)
    BY <1>1, <1>3
  <2>2. w.dirs = dirs /\ w.add = a /\ w.file = [f \in File |-> f]
    BY DEF Change
  <2>3. r \subseteq Row
    BY Tables DEF RowsAt
  <2>4. to \in Nat
    <3>1. to \in Dir \cup {None}
      BY Tables, ResolveFacts
    <3> QED
      BY <1>3, <3>1, Tables
  <2> HIDE DEF r, to
  <2>5. a \subseteq Row
    BY <2>3, <2>4 DEF Row
  <2> HIDE DEF a, w
  <2>6. w.add \subseteq Row /\ w.file \in [File -> File]
    BY <2>2, <2>5
  <2>7. Keeps(w) /\ Clears(w)
    BY <2>2, <2>6, SameTree
  <2> QED
    BY <2>1, <2>7 DEF Begins
<1> QED
  BY <1>2, <1>3

\* SetInstrumentFilePath()
LEMMA SetInstrumentFilePathBegins ==
  ASSUME TypeOK, Tree(dirs), NEW t, NEW f \in File, NEW g \in File, SetInstrumentFilePath(t, f, g)
  PROVE  Begins(t)
<1> DEFINE w == [Change EXCEPT !.file[f] = g]
<1>1. Begin(t, w)
  BY DEF SetInstrumentFilePath
<1>2. w.dirs = dirs /\ w.add = {} /\ w.file = [[h \in File |-> h] EXCEPT ![f] = g]
  BY DEF Change
<1> HIDE DEF w
<1>3. w.add \subseteq Row /\ w.file \in [File -> File]
  BY <1>2
<1>4. Keeps(w) /\ Clears(w)
  BY <1>2, <1>3, SameTree
<1> QED
  BY <1>1, <1>4 DEF Begins

\* A path is a sequence of names.
LEMMA PathsAreSequences == Paths \subseteq Seq(Name)
<1>1. Depth \in Nat
  BY BoundsAssumption
<1>2. ASSUME NEW k \in 0..Depth PROVE [1..k -> Name] \subseteq Seq(Name)
  BY <1>1, <1>2, IsASeq
<1> QED
  BY <1>2 DEF Paths

\* Every command but CopyDirectory() is a transaction of one change.
LEMMA EditBegins ==
  ASSUME TypeOK, Tree(dirs), NEW t, Edit(t)
  PROVE  Begins(t) \/ \E p \in Seq(Name), q \in Seq(Name) : CopyDirectory(t, p, q)
<1> DEFINE known == {p \in Paths : Resolve(p) # None}
           there == {<<p, r.name>> : p \in known, r \in rows}
<1>1. known \subseteq Seq(Name)
  BY PathsAreSequences
<1>2. \/ \E p \in known, n \in Name : AddDirectory(t, Append(p, n)) \/ RenameDirectory(t, p, n)
      \/ \E p \in known, force \in BOOLEAN : RemoveDirectory(t, p, force)
      \/ \E p \in known \ {<<>>}, q \in known : MoveDirectory(t, p, q) \/ CopyDirectory(t, p, q)
      \/ \E i \in there : RemoveInstrument(t, i[1], i[2])
      \/ \E i \in there, n \in Name : RenameInstrument(t, i[1], i[2], n)
      \/ \E i \in there, q \in known, keep \in BOOLEAN : PlaceInstrument(t, i[1], i[2], q, keep)
  BY DEF Edit
<1> HIDE DEF known, there
<1>3. CASE \E p \in known, n \in Name : AddDirectory(t, Append(p, n)) \/ RenameDirectory(t, p, n)
  <2>1. PICK p \in known, n \in Name : AddDirectory(t, Append(p, n)) \/ RenameDirectory(t, p, n)
    BY <1>3
  <2>2. p \in Seq(Name)
    BY <1>1
  <2>3. Append(p, n) \in Seq(Name) /\ Append(p, n) # <<>>
    BY <2>2, AppendProperties
  <2>4. AddDirectory(t, Append(p, n)) => Begins(t)
    BY <2>3, MakeDirectoryBegins DEF AddDirectory
  <2>5. RenameDirectory(t, p, n) => Begins(t)
    BY <2>2, RenameDirectoryBegins
  <2> QED
    BY <2>1, <2>4, <2>5
<1>4. CASE \E p \in known, force \in BOOLEAN : RemoveDirectory(t, p, force)
  BY <1>1, <1>4, RemoveDirectoryBegins
<1>5. CASE \E p \in known \ {<<>>}, q \in known : MoveDirectory(t, p, q) \/ CopyDirectory(t, p, q)
  <2>1. PICK p \in known \ {<<>>}, q \in known : MoveDirectory(t, p, q) \/ CopyDirectory(t, p, q)
    BY <1>5
  <2>2. p \in Seq(Name) /\ q \in Seq(Name)
    BY <1>1
  <2>3. MoveDirectory(t, p, q) => Begins(t)
    BY <2>2, MoveDirectoryBegins
  <2> QED
    BY <2>1, <2>2, <2>3
<1>6. CASE \E i \in there : RemoveInstrument(t, i[1], i[2])
  BY <1>6, RemoveInstrumentBegins
<1>7. CASE \E i \in there, n \in Name : RenameInstrument(t, i[1], i[2], n)
  BY <1>7, RenameInstrumentBegins
<1>8. CASE \E i \in there, q \in known, keep \in BOOLEAN : PlaceInstrument(t, i[1], i[2], q, keep)
  BY <1>1, <1>8, PlaceInstrumentBegins
<1> QED
  BY <1>2, <1>3, <1>4, <1>5, <1>6, <1>7, <1>8

-----------------------------------------------------------------------------
(* The mutex *)

\* The two threads
LEMMA Threads == Lscp \in Thread /\ None \notin Thread /\ Scanners \subseteq Thread
BY ThreadsAssumption DEF Thread

\* Whoever has the mutex is the only one to write, to copy or to list files,
\* and nobody else can lock it.
LEMMA OwnerFacts ==
  ASSUME IInv, NEW t \in Thread, owner \in {t, None}
  PROVE  /\ \A u \in Thread \ {t} : pc[u] \notin {"writes", "copies", "files"}
         /\ owner = None => pc[t] \notin {"writes", "copies", "files"}
         /\ pc[t] # "writes" => write = Fail
         /\ pc[t] # "copies" => copy = NoCopy
<1>1. \A u \in Thread : pc[u] \in {"writes", "copies", "files"} => owner = u
  BY DEF IInv, MutexInv
<1>2. \A u \in Thread \ {t} : pc[u] \notin {"writes", "copies", "files"}
  BY <1>1, Threads
<1>3. owner = None => pc[t] \notin {"writes", "copies", "files"}
  BY <1>1, Threads
<1>4. pc[t] # "writes" => write = Fail
  BY <1>2 DEF IInv, WriteInv
<1>5. pc[t] # "copies" => copy = NoCopy
  BY <1>2, Threads DEF IInv, CopyInv
<1> QED
  BY <1>2, <1>3, <1>4, <1>5

\* Locking and unlocking keeps the count.
OwnMutex(t) == UNCHANGED mutex \/ Lock(t) \/ (owner = t /\ Unlock)
LEMMA MutexCount ==
  ASSUME TypeOK, NEW t \in Thread, OwnMutex(t)
  PROVE  /\ owner' \in Thread \cup {None} /\ depth' \in Nat /\ (owner' = None <=> depth' = 0)
         /\ owner \in {t, None} \/ UNCHANGED mutex
         /\ owner' \in {t, None} \/ UNCHANGED mutex
<1>1. /\ owner \in Thread \cup {None} /\ depth \in Nat /\ (owner = None <=> depth = 0)
      /\ t # None
  BY Threads DEF TypeOK
<1>2. CASE UNCHANGED mutex
  BY <1>1, <1>2 DEF mutex
<1>3. CASE Lock(t)
  BY <1>1, <1>3 DEF Lock, Free
<1>4. CASE owner = t /\ Unlock
  BY <1>1, <1>4 DEF Unlock
<1> QED
  BY <1>2, <1>3, <1>4 DEF OwnMutex

-----------------------------------------------------------------------------
(* The steps of a scan *)

Slipping == {"checks", "inserts", "closes"}

\* What a scan that goes on at l has left to do
ScanWork(l, s) ==
    /\ l \in Scanning => s.todo # <<>>
    /\ l = "idle" => s.todo = <<>>
    /\ l = "makes" => s.todo[1].path # <<>>
    /\ l \in Unlocked => s.files # <<>> /\ s.dir \in Nat /\ s.unlocked
    /\ l = "inserts" => s.name \in Name

\* A scan adds to the tables, under the eyes of a transaction only what slips in.
TablesGrow ==
    /\ Typed(dirs', lastDir') /\ lastDir' \in Nat /\ Tree(dirs') /\ rows' \subseteq Row
    /\ DOMAIN dirs \subseteq DOMAIN dirs'
    /\ write # Fail => UNCHANGED <<dirs, lastDir>> /\ (UNCHANGED rows \/ SlippedIn')

\* Each step of a scan, with the next label l and the work s left: what it has to
\* respect to keep the invariant
LEMMA ScanStep ==
  ASSUME IInv, NEW t \in Scanners, NEW l \in {"idle"} \cup Scanning, NEW s \in Scan,
         pc[t] \notin {"writes", "copies"}, TablesGrow, OwnMutex(t),
         UNCHANGED <<inTrans, write, copy, edits>>,
         walker' \in Thread \cup {None}, scans' \in 0..MaxScans,
         Goto(t, l), scan' = [scan EXCEPT ![t] = s], ScanWork(l, s),
         l = "files" => owner' = t,
         pc[t] \in Slipping => l \in Slipping \/ owner' = t,
         l = "inserts" => ~Known(t)'
  PROVE  IInv'
<1>1. /\ TypeOK /\ Tree(dirs) /\ MutexInv /\ ScanInv /\ WriteInv /\ CopyInv /\ NewInv
      /\ t \in Thread /\ Lscp \in Thread /\ None \notin Thread
  BY Threads DEF IInv
<1>2. /\ owner' \in Thread \cup {None} /\ depth' \in Nat /\ (owner' = None <=> depth' = 0)
      /\ owner \in {t, None} \/ UNCHANGED mutex
      /\ owner' \in {t, None} \/ UNCHANGED mutex
  BY <1>1, MutexCount
<1>3. /\ \A u \in Thread \ {t} : pc'[u] = pc[u] /\ scan'[u] = scan[u]
      /\ pc'[t] = l /\ scan'[t] = s
      /\ scan' \in [Thread -> Scan]
  BY <1>1 DEF Goto, TypeOK, ScanInv
<1>4. l \notin {"writes", "copies"}
  BY DEF Scanning
<1>5. TypeOK'
  <2>1. pc' \in [Thread -> {"idle", "writes", "copies", "looks", "makes", "enters", "files",
                            "reads", "relocks", "checks", "inserts", "closes"}]
    <3>1. l \in {"idle", "writes", "copies", "looks", "makes", "enters", "files",
                 "reads", "relocks", "checks", "inserts", "closes"}
      BY DEF Scanning
    <3> QED
      BY <1>1, <3>1 DEF Goto, TypeOK
  <2>2. DOMAIN dirs' \subseteq 1..lastDir' /\ \A d \in DOMAIN dirs' : dirs'[d] \in [parent : Nat, name : Name]
    BY DEF TablesGrow, Typed
  <2>3. copy'.from \cup DOMAIN copy'.done \subseteq DOMAIN dirs' /\ copy'.to \in Dir'
    BY <1>1 DEF TypeOK, TablesGrow, Dir
  <2> QED
    BY <1>1, <1>2, <2>1, <2>2, <2>3 DEF TypeOK, TablesGrow
<1>6. Tree(dirs)'
  BY DEF TablesGrow, Tree
<1>7. ASSUME NEW u \in Thread, pc'[u] \in {"writes", "copies"}
      PROVE  u # t /\ pc[u] = pc'[u] /\ owner = u /\ UNCHANGED mutex
  <2>1. u # t /\ pc[u] = pc'[u]
    BY <1>3, <1>4, <1>7
  <2>2. owner = u
    BY <1>1, <1>7, <2>1 DEF MutexInv
  <2> QED
    BY <1>1, <1>2, <2>1, <2>2
<1>8. MutexInv'
  <2>1. ASSUME NEW u \in Thread, pc'[u] \in {"writes", "copies", "files"} PROVE owner' = u
    <3>1. CASE pc'[u] \in {"writes", "copies"}
      BY <1>7, <3>1 DEF mutex
    <3>2. CASE pc'[u] = "files"
      <4>1. CASE u = t
        BY <1>3, <3>2, <4>1
      <4>2. CASE u # t
        <5>1. owner = u
          BY <1>1, <1>3, <3>2, <4>2 DEF MutexInv
        <5> QED
          BY <1>1, <1>2, <4>2, <5>1 DEF mutex
      <4> QED
        BY <4>1, <4>2
    <3> QED
      BY <2>1, <3>1, <3>2
  <2>2. ASSUME inTrans' PROVE \E u \in Thread : owner' = u /\ pc'[u] \in {"writes", "copies"}
    <3>1. PICK u \in Thread : owner = u /\ pc[u] \in {"writes", "copies"}
      BY <1>1, <2>2 DEF MutexInv
    <3>2. u # t /\ pc'[u] = pc[u] /\ UNCHANGED mutex
      BY <1>1, <1>2, <1>3, <3>1
    <3> QED
      BY <3>1, <3>2 DEF mutex
  <2>3. ASSUME NEW u \in Thread, pc'[u] \in Unlocked PROVE scan'[u].unlocked
    <3>1. CASE u = t
      BY <1>3, <2>3, <3>1 DEF ScanWork
    <3>2. CASE u # t
      BY <1>1, <1>3, <2>3, <3>2 DEF MutexInv
    <3> QED
      BY <3>1, <3>2
  <2>4. ASSUME NEW u \in Thread \ Scanners
        PROVE  /\ pc'[u] \notin Scanning
               /\ owner' = u => depth' = 1 /\ pc'[u] \in {"writes", "copies"}
    <3>1. u # t /\ pc'[u] = pc[u]
      BY <1>3
    <3>2. owner' = u => UNCHANGED mutex
      BY <1>1, <1>2, <3>1
    <3> QED
      BY <1>1, <3>1, <3>2 DEF MutexInv, mutex
  <2> QED
    BY <2>1, <2>2, <2>3, <2>4 DEF MutexInv
<1>9. ScanInv'
  <2>1. ASSUME NEW u \in Thread
        PROVE  /\ pc'[u] \in Scanning => scan'[u].todo # <<>>
               /\ scan'[u].todo # <<>> => u \in Scanners
               /\ pc'[u] \in {"idle", "copies"} => scan'[u].todo = <<>>
               /\ pc'[u] = "makes" => scan'[u].todo[1].path # <<>>
               /\ pc'[u] \in Unlocked => scan'[u].files # <<>> /\ scan'[u].dir \in Nat
               /\ pc'[u] = "inserts" => scan'[u].name \in Name
    <3>1. CASE u = t
      BY <1>3, <1>4, <3>1 DEF ScanWork
    <3>2. CASE u # t
      BY <1>1, <1>3, <3>2 DEF ScanInv
    <3> QED
      BY <3>1, <3>2
  <2> QED
    BY <1>3, <2>1 DEF ScanInv
<1>10. WriteInv'
  <2> SUFFICES ASSUME write # Fail
               PROVE  /\ \E u \in Thread : pc'[u] = "writes"
                      /\ Keeps(write)' /\ (SlippedIn' \/ Clears(write)')
    BY DEF WriteInv
  <2>1. PICK u \in Thread : pc[u] = "writes"
    BY <1>1 DEF WriteInv
  <2>2. u # t /\ pc'[u] = "writes"
    BY <1>3, <2>1
  <2>3. owner = u /\ UNCHANGED mutex
    BY <1>7, <2>2
  <2>4. Keeps(write)'
    BY <1>1 DEF WriteInv, TablesGrow, Keeps, Typed, Tree
  <2>5. ASSUME SlippedIn PROVE SlippedIn'
    <3>1. PICK v \in Thread : pc[v] \in Slipping /\ owner # v
      BY <2>5 DEF SlippedIn, Slipping
    <3>2. owner' = u
      BY <2>3 DEF mutex
    <3>3. pc'[v] \in Slipping
      BY <1>3, <2>2, <3>1, <3>2
    <3>4. owner' # v
      BY <2>3, <3>1, <3>2
    <3> QED
      BY <3>3, <3>4 DEF SlippedIn, Slipping
  <2>6. CASE UNCHANGED rows
    <3>1. Clears(write) => Clears(write)'
      BY <2>6 DEF TablesGrow, Clears
    <3> QED
      BY <1>1, <2>2, <2>4, <2>5, <3>1 DEF WriteInv
  <2> QED
    BY <2>2, <2>4, <2>6 DEF TablesGrow
<1>11. CopyInv'
  <2>1. \A u \in Thread : pc'[u] = "copies" => u = Lscp
    BY <1>1, <1>3, <1>4 DEF CopyInv
  <2>2. copy' # NoCopy => pc'[Lscp] = "copies"
    BY <1>1, <1>3 DEF CopyInv
  <2>3. \A d \in DOMAIN copy'.done : copy'.done[d] \in DOMAIN dirs'
    BY <1>1 DEF CopyInv, TablesGrow
  <2>4. copy' = [from |-> copy'.from, to |-> copy'.to, done |-> copy'.done]
    BY <1>1 DEF CopyInv
  <2> QED
    BY <2>1, <2>2, <2>3, <2>4 DEF CopyInv
<1>12. NewInv'
  <2> SUFFICES ASSUME OneScanner, NEW u \in Thread, pc'[u] = "inserts", owner' = u PROVE ~Known(u)'
    BY DEF NewInv, OneScanner
  <2>1. "inserts" \in Scanning
    BY DEF Scanning
  <2>2. u \in Scanners
    BY <1>9, <2>1 DEF ScanInv
  <2>3. u = t
    BY <2>2 DEF OneScanner
  <2> QED
    BY <1>3, <2>3
<1> QED
  BY <1>5, <1>6, <1>8, <1>9, <1>10, <1>11, <1>12 DEF IInv

\* The tables of the invariant
LEMMA KeepTables ==
  ASSUME IInv, UNCHANGED db
  PROVE  TablesGrow
<1>1. Typed(dirs, lastDir) /\ lastDir \in Nat /\ rows \subseteq Row /\ Tree(dirs)
  BY Tables DEF IInv
<1> QED
  BY <1>1 DEF TablesGrow, db, Typed, Tree

\* The first element of a sequence, and the others
LEMMA NotEmpty ==
  ASSUME NEW S, NEW q \in Seq(S), q # <<>>
  PROVE  /\ q[1] \in S /\ Head(q) = q[1] /\ Tail(q) \in Seq(S)
         /\ Len(q) # 1 => Tail(q) # <<>>
<1>1. Len(q) \in Nat /\ Len(q) # 0 /\ Head(q) = q[1]
  BY EmptySeq
<1>2. q[1] \in S
  BY <1>1, ElementOfSeq
<1>3. Tail(q) \in Seq(S) /\ Len(Tail(q)) = Len(q) - 1
  BY HeadTailProperties
<1>4. Tail(q) = <<>> => Len(Tail(q)) = 0
  BY EmptySeq
<1>5. Len(q) # 1 => Len(q) - 1 # 0
  BY <1>1
<1> QED
  BY <1>1, <1>2, <1>3, <1>4, <1>5, Zenon

\* A scan has its work, with a first directory.
LEMMA ScanFacts ==
  ASSUME IInv, NEW t \in Thread, pc[t] \in Scanning
  PROVE  /\ t \in Scanners /\ scan \in [Thread -> Scan] /\ scan[t] \in Scan /\ scan[t].todo # <<>>
         /\ scan[t].todo[1].path \in Seq(Name) /\ scan[t].todo[1].files \in Seq(File)
         /\ scan[t].files \in Seq(File) /\ scan[t].nr \in Nat /\ scan[t].ix \in Nat \cup {None}
         /\ scan = [scan EXCEPT ![t] = scan[t]]
         /\ pc[t] \notin {"idle", "writes", "copies"}
<1>1. t \in Scanners /\ scan \in [Thread -> Scan] /\ scan[t] \in Scan /\ scan[t].todo # <<>>
  BY DEF IInv, ScanInv
<1>2. /\ scan[t].todo \in Seq([path : Seq(Name), files : Seq(File)])
      /\ scan[t].files \in Seq(File) /\ scan[t].nr \in Nat /\ scan[t].ix \in Nat \cup {None}
  BY <1>1 DEF Scan
<1>3. scan[t].todo[1] \in [path : Seq(Name), files : Seq(File)]
  BY <1>1, <1>2, NotEmpty
<1>4. pc[t] \notin {"idle", "writes", "copies"}
  BY DEF Scanning
<1> QED
  BY <1>1, <1>2, <1>3, <1>4

\* What has no work
LEMMA NoScanIsScan == NoScan \in Scan /\ NoScan.todo = <<>>
BY EmptySeq DEF NoScan, Scan

\* A scan starts.
LEMMA KeepStartScan ==
  ASSUME IInv, NEW t \in Thread, NEW r \in Requests, StartScan(t, r)
  PROVE  IInv'
<1> DEFINE l == IF r.mk THEN "looks" ELSE "enters"
<1>1. /\ pc[t] = "idle" /\ t \in Scanners /\ UNCHANGED <<db, mutex, inTrans, write, copy, edits>>
      /\ scan' = [scan EXCEPT ![t] = r] /\ Goto(t, l)
  BY DEF StartScan
<1>2. r \in Scan /\ r.todo # <<>>
  BY RequestsAssumption
<1>3. walker' \in Thread \cup {None} /\ scans' \in 0..MaxScans
  <2>1. walker \in Thread \cup {None} /\ scans \in 0..MaxScans /\ MaxScans \in Nat
    BY BoundsAssumption DEF IInv, TypeOK
  <2>2. scans' = scans + 1 /\ scans < MaxScans /\ (walker' = t \/ walker' = walker)
    BY DEF StartScan
  <2> QED
    BY <2>1, <2>2
<1>4. l \in {"looks", "enters"}
  OBVIOUS
<1> HIDE DEF l
<1>5. /\ l \in {"idle"} \cup Scanning /\ ScanWork(l, r) /\ l # "files" /\ l # "inserts"
      /\ pc[t] \notin {"writes", "copies"} /\ pc[t] \notin Slipping
  BY <1>1, <1>2, <1>4 DEF Scanning, ScanWork, Unlocked, Slipping
<1>6. TablesGrow
  BY <1>1, KeepTables
<1> QED
  BY <1>1, <1>2, <1>3, <1>5, <1>6, ScanStep DEF OwnMutex

\* What most steps of a scan leave alone
Aside == UNCHANGED <<inTrans, write, copy, walker, edits, scans>>

\* A step with new work for the scan that leaves the tables alone
LEMMA PlainStep ==
  ASSUME IInv, NEW t \in Thread, NEW l \in {"idle"} \cup Scanning, NEW s \in Scan,
         pc[t] \in Scanning, UNCHANGED db, Aside, OwnMutex(t),
         Goto(t, l), scan' = [scan EXCEPT ![t] = s], ScanWork(l, s),
         l = "files" => owner' = t,
         pc[t] \in Slipping => l \in Slipping \/ owner' = t,
         l = "inserts" => ~Known(t)'
  PROVE  IInv'
<1>1. t \in Scanners /\ pc[t] \notin {"writes", "copies"}
  BY ScanFacts
<1>2. TablesGrow
  BY KeepTables
<1>3. walker' \in Thread \cup {None} /\ scans' \in 0..MaxScans
  BY DEF Aside, IInv, TypeOK
<1> QED
  BY <1>1, <1>2, <1>3, ScanStep DEF Aside

\* A step that leaves the work alone, too
LEMMA PassingStep ==
  ASSUME IInv, NEW t \in Thread, NEW l \in Scanning \ {"files", "inserts"},
         pc[t] \in Scanning, UNCHANGED <<db, scan>>, Aside, OwnMutex(t), Goto(t, l),
         l = "makes" => scan[t].todo[1].path # <<>>,
         l \in Unlocked => pc[t] \in Unlocked,
         pc[t] \in Slipping => l \in Slipping
  PROVE  IInv'
<1>1. scan[t] \in Scan /\ scan[t].todo # <<>> /\ scan' = [scan EXCEPT ![t] = scan[t]]
  BY ScanFacts
<1>2. pc[t] \in Unlocked => scan[t].files # <<>> /\ scan[t].dir \in Nat /\ scan[t].unlocked
  BY DEF IInv, ScanInv, MutexInv
<1>3. l # "idle"
  BY DEF Scanning
<1>4. ScanWork(l, scan[t])
  BY <1>1, <1>2, <1>3 DEF ScanWork
<1> QED
  BY <1>1, <1>4, PlainStep

\* DirectoryScanner::DirectoryEntry() looks for the directory.
LEMMA KeepLook ==
  ASSUME IInv, NEW t \in Thread, Look(t)
  PROVE  IInv'
<1> DEFINE p == scan[t].todo[1].path
           l == IF Resolve(p) = None THEN "makes" ELSE "enters"
<1>1. pc[t] = "looks" /\ Goto(t, l) /\ UNCHANGED <<db, mutex, scan>> /\ Aside
  BY DEF Look, Aside
<1>2. pc[t] \in Scanning /\ pc[t] \notin Slipping
  BY <1>1 DEF Scanning, Slipping
<1>3. Resolve(p) = None => p # <<>>
  <2>1. p \in Seq(Name) /\ Typed(dirs, lastDir) /\ lastDir \in Nat
    BY <1>2, ScanFacts, Tables DEF IInv
  <2> HIDE DEF p
  <2> QED
    BY <2>1, ResolveFacts DEF Root, None
<1>4. l \in {"makes", "enters"} /\ (l = "makes" => p # <<>>)
  BY <1>3
<1> HIDE DEF l
<1>5. l \in Scanning \ {"files", "inserts"} /\ l \notin Unlocked
  BY <1>4 DEF Scanning, Unlocked
<1> QED
  BY <1>1, <1>2, <1>4, <1>5, PassingStep DEF OwnMutex

\* AddInstrumentsNonrecursive() begins.
LEMMA KeepEnter ==
  ASSUME IInv, NEW t \in Thread, Enter(t)
  PROVE  IInv'
<1>1. pc[t] = "enters" /\ UNCHANGED db /\ Aside
  BY DEF Enter, Aside
<1>2. pc[t] \in Scanning /\ pc[t] \notin Slipping
  BY <1>1 DEF Scanning, Slipping
<1>3. CASE Resolve(scan[t].todo[1].path) = None
  <2>1. UNCHANGED mutex /\ Goto(t, "idle") /\ scan' = [scan EXCEPT ![t] = NoScan]
    BY <1>3 DEF Enter
  <2>2. ScanWork("idle", NoScan)
    BY NoScanIsScan DEF ScanWork, Scanning, Unlocked
  <2> QED
    BY <1>1, <1>2, <2>1, <2>2, NoScanIsScan, PlainStep DEF OwnMutex
<1>4. CASE Resolve(scan[t].todo[1].path) # None
  <2> DEFINE f == scan[t].todo[1].files
             s == [scan[t] EXCEPT !.files = f]
  <2>1. Lock(t) /\ Goto(t, "files") /\ scan' = [scan EXCEPT ![t] = s]
    BY <1>4 DEF Enter
  <2>2. f \in Seq(File) /\ scan[t] \in Scan /\ scan[t].todo # <<>>
    BY <1>2, ScanFacts
  <2> HIDE DEF f
  <2>3. s \in Scan /\ s.todo # <<>>
    BY <2>2 DEF Scan
  <2> HIDE DEF s
  <2>4. ScanWork("files", s) /\ "files" \in Scanning /\ owner' = t
    BY <2>1, <2>3 DEF ScanWork, Scanning, Unlocked, Lock
  <2> QED
    BY <1>1, <1>2, <2>1, <2>3, <2>4, PlainStep DEF OwnMutex
<1> QED
  BY <1>3, <1>4

\* AddInstrumentsNonrecursive() ends.
LEMMA KeepLeave ==
  ASSUME IInv, NEW t \in Thread, Leave(t)
  PROVE  IInv'
<1>1. pc[t] = "files" /\ Unlock /\ UNCHANGED db /\ Aside
  BY DEF Leave, Aside
<1>2. pc[t] \in Scanning /\ pc[t] \notin Slipping
  BY <1>1 DEF Scanning, Slipping
<1>3. OwnMutex(t)
  BY <1>1 DEF IInv, MutexInv, OwnMutex
<1>4. CASE Len(scan[t].todo) = 1
  <2>1. Goto(t, "idle") /\ scan' = [scan EXCEPT ![t] = NoScan]
    BY <1>4 DEF Leave
  <2>2. ScanWork("idle", NoScan)
    BY NoScanIsScan DEF ScanWork, Scanning, Unlocked
  <2> QED
    BY <1>1, <1>2, <1>3, <2>1, <2>2, NoScanIsScan, PlainStep
<1>5. CASE Len(scan[t].todo) # 1
  <2> DEFINE q == scan[t].todo
             s == [scan[t] EXCEPT !.todo = Tail(q)]
  <2>1. Goto(t, "looks") /\ scan' = [scan EXCEPT ![t] = s]
    BY <1>5 DEF Leave
  <2>2. q \in Seq([path : Seq(Name), files : Seq(File)]) /\ q # <<>> /\ scan[t] \in Scan
    BY <1>2, ScanFacts DEF Scan
  <2>3. Tail(q) \in Seq([path : Seq(Name), files : Seq(File)]) /\ Tail(q) # <<>>
    BY <1>5, <2>2, NotEmpty
  <2>4. s \in Scan /\ s.todo # <<>>
    BY <2>2, <2>3 DEF Scan
  <2> HIDE DEF s
  <2>5. ScanWork("looks", s) /\ "looks" \in Scanning
    BY <2>4 DEF ScanWork, Scanning, Unlocked
  <2> QED
    BY <1>1, <1>2, <1>3, <2>1, <2>4, <2>5, PlainStep
<1> QED
  BY <1>4, <1>5

\* The file has been read, or cannot be.
LEMMA KeepRead ==
  ASSUME IInv, NEW t \in Thread, Read(t)
  PROVE  IInv'
<1>1. /\ pc[t] = "reads" /\ UNCHANGED <<db, scan, mutex>> /\ Aside
      /\ \E l \in {"checks", "relocks", "closes"} : Goto(t, l)
  BY DEF Read, Aside
<1>2. PICK l \in {"checks", "relocks", "closes"} : Goto(t, l)
  BY <1>1
<1>3. /\ pc[t] \in Scanning /\ pc[t] \in Unlocked /\ pc[t] \notin Slipping
      /\ l \in Scanning \ {"files", "inserts"} /\ l # "makes"
  BY <1>1 DEF Scanning, Slipping, Unlocked
<1> QED
  BY <1>1, <1>2, <1>3, PassingStep DEF OwnMutex

\* Lock() after the file has been read
LEMMA KeepRelock ==
  ASSUME IInv, NEW t \in Thread, Relock(t)
  PROVE  IInv'
<1>1. pc[t] = "relocks" /\ Lock(t) /\ Goto(t, "checks") /\ UNCHANGED <<db, scan>> /\ Aside
  BY DEF Relock, Aside
<1>2. /\ pc[t] \in Scanning /\ pc[t] \in Unlocked /\ pc[t] \notin Slipping
      /\ "checks" \in Scanning \ {"files", "inserts"}
  BY <1>1 DEF Scanning, Slipping, Unlocked
<1> QED
  BY <1>1, <1>2, PassingStep DEF OwnMutex

\* The scan goes on with the next instrument of the file.
LEMMA NextNumber ==
  ASSUME NEW s \in Scan, s.nr \in Nat
  PROVE  LET z == [s EXCEPT !.nr = s.nr + 1]
         IN  z \in Scan /\ z.todo = s.todo /\ z.files = s.files /\ z.dir = s.dir /\ z.unlocked = s.unlocked
<1> DEFINE k == s.nr + 1
<1>1. k \in Nat
  OBVIOUS
<1> HIDE DEF k
<1>2. LET z == [s EXCEPT !.nr = k]
      IN  z \in Scan /\ z.todo = s.todo /\ z.files = s.files /\ z.dir = s.dir /\ z.unlocked = s.unlocked
  BY <1>1 DEF Scan
<1> QED
  BY <1>2 DEF k

\* One round of the loop over the instruments of a file
LEMMA KeepCheck ==
  ASSUME IInv, NEW t \in Thread, Check(t)
  PROVE  IInv'
<1> DEFINE s == scan[t]
           i == IF s.ix = None THEN s.nr + 1 ELSE 1
           next == IF s.ix = None THEN "checks" ELSE "closes"
           n == UniqueName(s.dir, Current(t)[i])
<1>1. /\ pc[t] = "checks" /\ UNCHANGED <<db, mutex>> /\ Aside
      /\ OwnMutex(t)
  BY DEF Check, Aside, OwnMutex
<1>2. /\ pc[t] \in Scanning /\ pc[t] \in Unlocked /\ pc[t] \in Slipping
      /\ {"checks", "closes"} \subseteq Scanning \ {"files", "inserts"}
      /\ {"checks", "closes"} \subseteq Slipping /\ {"checks", "closes"} \subseteq Unlocked
      /\ "inserts" \in Scanning /\ "inserts" \in Slipping
  BY <1>1 DEF Scanning, Slipping, Unlocked
<1>3. /\ s \in Scan /\ s.todo # <<>> /\ s.files # <<>> /\ s.files \in Seq(File)
      /\ s.dir \in Nat /\ s.unlocked /\ s.nr \in Nat /\ scan \in [Thread -> Scan]
  BY <1>2, ScanFacts DEF IInv, ScanInv, MutexInv
<1>4. CASE Goto(t, "closes") /\ UNCHANGED scan
  BY <1>1, <1>2, <1>4, PassingStep
<1>5. CASE Goto(t, next) /\ scan' = [scan EXCEPT ![t].nr = @ + 1]
  <2> DEFINE z == [s EXCEPT !.nr = s.nr + 1]
  <2>1. scan' = [scan EXCEPT ![t] = z] /\ next \in {"checks", "closes"}
    BY <1>5
  <2>2. z \in Scan /\ z.todo # <<>> /\ z.files # <<>> /\ z.dir \in Nat /\ z.unlocked
    BY <1>3, NextNumber
  <2> HIDE DEF z, next, s
  <2>3. ScanWork(next, z)
    BY <2>1, <2>2 DEF ScanWork
  <2> QED
    BY <1>1, <1>2, <1>5, <2>1, <2>2, <2>3, PlainStep
<1>6. CASE /\ ~(i > Len(Current(t))) /\ n[2] # None /\ ~Known(t)
           /\ Goto(t, "inserts") /\ scan' = [scan EXCEPT ![t].name = n]
  <2> DEFINE z == [s EXCEPT !.name = n]
  <2>1. scan' = [scan EXCEPT ![t] = z]
    BY <1>6
  <2>2. Current(t)[i] \in Base
    <3>1. Head(s.files) \in File
      BY <1>3, NotEmpty
    <3>2. Contents[Head(s.files)] \in Seq(Base)
      BY <3>1, FilesAssumption
    <3>3. Current(t) \in Seq(Base)
      BY <3>2 DEF Current
    <3>4. i \in Nat \ {0}
      BY <1>3
    <3> HIDE DEF i
    <3>5. i \in 1..Len(Current(t))
      BY <1>6, <3>3, <3>4
    <3> QED
      BY <3>3, <3>5, ElementOfSeq
  <2>3. n \in Name
    BY <1>6, <2>2, UniqueNameFacts
  <2> HIDE DEF n
  <2>4. /\ z \in Scan /\ z.todo = s.todo /\ z.files = s.files /\ z.dir = s.dir
        /\ z.unlocked = s.unlocked /\ z.name = n /\ z.nr = s.nr
    BY <1>3, <2>3 DEF Scan
  <2> HIDE DEF z
  <2>5. ScanWork("inserts", z)
    BY <1>3, <2>3, <2>4 DEF ScanWork
  <2>6. ~Known(t)'
    <3>1. scan'[t] = z
      BY <1>3, <2>1
    <3>2. rows' = rows
      BY <1>1 DEF db
    <3> QED
      BY <1>6, <2>4, <3>1, <3>2 DEF Known
  <2> QED
    BY <1>1, <1>2, <2>1, <2>4, <2>5, <2>6, <1>6, PlainStep
<1> QED
  BY <1>4, <1>5, <1>6, Zenon DEF Check

\* if (unlocked) Lock(), and the next file
LEMMA KeepClose ==
  ASSUME IInv, NEW t \in Thread, Close(t)
  PROVE  IInv'
<1> DEFINE q == scan[t].files
           s == [scan[t] EXCEPT !.files = Tail(q), !.dir = None, !.nr = 0, !.name = <<>>,
                                !.unlocked = FALSE, !.old = FALSE]
<1>1. /\ pc[t] = "closes" /\ UNCHANGED db /\ Aside /\ Goto(t, "files")
      /\ scan[t].unlocked => Lock(t)
  BY DEF Close, Aside
<1>2. pc[t] \in Scanning /\ pc[t] \in Unlocked /\ "files" \in Scanning
  BY <1>1 DEF Scanning, Unlocked
<1>3. /\ scan[t] \in Scan /\ scan[t].todo # <<>> /\ q # <<>> /\ q \in Seq(File)
      /\ scan[t].unlocked /\ scan \in [Thread -> Scan]
  BY <1>2, ScanFacts DEF IInv, ScanInv, MutexInv
<1>4. OwnMutex(t) /\ owner' = t
  BY <1>1, <1>3 DEF OwnMutex, Lock
<1>5. scan' = [scan EXCEPT ![t] = s]
  BY <1>3 DEF Close
<1>6. Tail(q) \in Seq(File)
  BY <1>3, NotEmpty
<1> HIDE DEF q
<1>7. s \in Scan /\ s.todo # <<>>
  BY <1>3, <1>6 DEF Scan
<1> HIDE DEF s
<1>8. ScanWork("files", s)
  BY <1>7 DEF ScanWork, Scanning, Unlocked
<1> QED
  BY <1>1, <1>2, <1>4, <1>5, <1>7, <1>8, PlainStep

\* A scan that lists files holds the mutex, and nobody is in a transaction.
LEMMA FilesFacts ==
  ASSUME IInv, NEW t \in Thread, pc[t] = "files"
  PROVE  owner = t /\ ~inTrans /\ write = Fail /\ copy = NoCopy
<1>1. owner = t
  BY DEF IInv, MutexInv
<1>2. ~inTrans
  BY <1>1 DEF IInv, MutexInv
<1>3. write = Fail /\ copy = NoCopy
  BY <1>1, OwnerFacts
<1> QED
  BY <1>1, <1>2, <1>3

\* AddInstrumentsFromFile(), with PrepareSubdirectory()
LEMMA KeepOpen ==
  ASSUME IInv, NEW t \in Thread, Open(t)
  PROVE  IInv'
<1> DEFINE s == scan[t]
           q == s.files
           d == Resolve(s.todo[1].path)
           n == UniqueName(d, BaseName[q[1]])
           bad == s.sub /\ (d = None \/ n[2] = None \/ Taken(d, n))
<1>1. /\ pc[t] = "files" /\ q # <<>> 
      /\ UNCHANGED <<write, copy, walker, edits, scans>>
  BY DEF Open
<1>2. /\ pc[t] \in Scanning /\ pc[t] \notin Slipping /\ {"files", "reads"} \subseteq Scanning
      /\ pc[t] \notin {"writes", "copies"} /\ "reads" \in Unlocked /\ "files" \notin Unlocked
  BY <1>1 DEF Scanning, Slipping, Unlocked
<1>3. owner = t /\ ~inTrans /\ write = Fail
  BY <1>1, FilesFacts
<1>4. /\ s \in Scan /\ s.todo # <<>> /\ q \in Seq(File) /\ scan \in [Thread -> Scan]
      /\ s.todo[1].path \in Seq(Name) /\ s.ix \in Nat \cup {None} /\ t \in Scanners
  BY <1>2, ScanFacts
<1>5. q[1] \in File /\ Tail(q) \in Seq(File)
  BY <1>1, <1>4, NotEmpty
<1>6. ASSUME NEW f \in Seq(File), scan' = [scan EXCEPT ![t].files = f],
             UNCHANGED <<db, mutex, inTrans, pc>>
      PROVE  IInv'
  <2> DEFINE z == [s EXCEPT !.files = f]
  <2>1. scan' = [scan EXCEPT ![t] = z]
    BY <1>6
  <2>2. z \in Scan /\ z.todo # <<>>
    BY <1>4 DEF Scan
  <2> HIDE DEF z
  <2>3. ScanWork("files", z)
    BY <1>2, <2>2 DEF ScanWork
  <2>4. Goto(t, "files") /\ owner' = t /\ Aside /\ OwnMutex(t) /\ UNCHANGED db
    <3>1. pc \in [Thread -> {"idle", "writes", "copies", "looks", "makes", "enters", "files",
                             "reads", "relocks", "checks", "inserts", "closes"}]
      BY DEF IInv, TypeOK
    <3>2. Goto(t, "files")
      BY <1>1, <1>6, <3>1 DEF Goto
    <3> QED
      BY <1>1, <1>3, <1>6, <3>2 DEF Aside, OwnMutex, mutex
  <2> QED
    BY <1>2, <2>1, <2>2, <2>3, <2>4, PlainStep
<1>7. CASE bad /\ scan' = [scan EXCEPT ![t].files = <<>>] /\ UNCHANGED <<db, mutex, inTrans, pc>>
  BY <1>6, <1>7, EmptySeq
<1>8. CASE scan' = [scan EXCEPT ![t].files = Tail(@)] /\ UNCHANGED <<db, mutex, inTrans, pc>>
  <2>1. scan' = [scan EXCEPT ![t].files = Tail(q)]
    BY <1>4, <1>8
  <2> HIDE DEF q
  <2> QED
    BY <1>5, <1>6, <1>8, <2>1
<1>9. CASE /\ ~bad /\ d # None
           /\ IF s.sub THEN /\ dirs' = Put(lastDir + 1, [parent |-> d, name |-> n])
                            /\ lastDir' = lastDir + 1 /\ UNCHANGED rows
                       ELSE UNCHANGED db
           /\ IF inTrans THEN UNCHANGED mutex ELSE Unlock
           /\ scan' = [scan EXCEPT ![t].dir = IF s.sub THEN lastDir + 1 ELSE d,
                                   ![t].nr = IF s.ix = None THEN 0 ELSE s.ix,
                                   ![t].unlocked = ~inTrans]
           /\ Goto(t, "reads") /\ UNCHANGED inTrans
  <2> DEFINE e == IF s.sub THEN lastDir + 1 ELSE d
             r == IF s.ix = None THEN 0 ELSE s.ix
             z == [s EXCEPT !.dir = e, !.nr = r, !.unlocked = TRUE]
  <2>1. Typed(dirs, lastDir) /\ lastDir \in Nat /\ rows \subseteq Row /\ Tree(dirs)
    BY Tables DEF IInv
  <2>2. d \in Dir /\ d \in Nat
    <3>1. d \in Dir \cup {None} /\ Dir \subseteq Nat
      BY <1>4, <2>1, ResolveFacts, Tables DEF IInv
    <3> HIDE DEF d
    <3> QED
      BY <1>9, <3>1
  <2>3. e \in Nat /\ r \in Nat
    <3> HIDE DEF d
    <3> QED
      BY <1>4, <2>1, <2>2
  <2>4. scan' = [scan EXCEPT ![t] = z]
    BY <1>3, <1>4, <1>9
  <2>5. TablesGrow
    <3>1. CASE s.sub
      <4>1. n[2] # None
        BY <1>9, <3>1
      <4>2. BaseName[q[1]] \in Base
        BY <1>5, FilesAssumption
      <4>3. n \in Name
        BY <4>1, <4>2, UniqueNameFacts
      <4>4. /\ dirs' = Put(lastDir + 1, [parent |-> d, name |-> n])
            /\ lastDir' = lastDir + 1 /\ rows' = rows
        BY <1>9, <3>1
      <4> HIDE DEF d, n
      <4>5. /\ Typed(dirs', lastDir + 1) /\ Tree(dirs') /\ DOMAIN dirs' = DOMAIN dirs \cup {lastDir + 1}
        BY <2>1, <2>2, <4>3, <4>4, TreePut
      <4> QED
        BY <1>3, <2>1, <4>4, <4>5, TypedMore DEF TablesGrow
    <3>2. CASE ~s.sub
      BY <1>9, <3>2, KeepTables
    <3> QED
      BY <3>1, <3>2
  <2> HIDE DEF e, r
  <2>6. z \in Scan /\ z.todo # <<>> /\ z.files # <<>> /\ z.dir \in Nat /\ z.unlocked
    BY <1>1, <1>4, <2>3 DEF Scan
  <2> HIDE DEF z
  <2>7. ScanWork("reads", z)
    BY <2>6 DEF ScanWork
  <2>8. OwnMutex(t) /\ Goto(t, "reads") /\ UNCHANGED <<inTrans, write, copy, edits>>
    BY <1>1, <1>3, <1>9 DEF OwnMutex
  <2>9. walker' \in Thread \cup {None} /\ scans' \in 0..MaxScans
    BY <1>1 DEF IInv, TypeOK
  <2> QED
    BY <1>2, <1>4, <2>4, <2>5, <2>6, <2>7, <2>8, <2>9, ScanStep
<1> QED
  BY <1>7, <1>8, <1>9, Zenon DEF Open

\* An instrument goes into the table, unless its name has been taken.
LEMMA KeepInsert ==
  ASSUME IInv, NEW t \in Thread, Insert(t)
  PROVE  IInv'
<1> DEFINE s == scan[t]
           l == IF s.ix = None THEN "checks" ELSE "closes"
           new == [dir |-> s.dir, name |-> s.name, file |-> Head(s.files), nr |-> s.nr]
           z == [s EXCEPT !.nr = s.nr + 1]
<1>1. /\ pc[t] = "inserts" /\ UNCHANGED <<dirs, lastDir, mutex>> /\ Aside /\ OwnMutex(t)
  BY DEF Insert, Aside, OwnMutex
<1>2. /\ pc[t] \in Scanning /\ pc[t] \in Unlocked /\ pc[t] \in Slipping
      /\ {"checks", "closes"} \subseteq Scanning \ {"files", "inserts"}
      /\ {"checks", "closes"} \subseteq Slipping
      /\ pc[t] \notin {"writes", "copies"}
  BY <1>1 DEF Scanning, Slipping, Unlocked
<1>3. /\ s \in Scan /\ s.todo # <<>> /\ s.files # <<>> /\ s.files \in Seq(File) /\ s.dir \in Nat
      /\ s.unlocked /\ s.name \in Name /\ s.nr \in Nat /\ scan \in [Thread -> Scan] /\ t \in Scanners
  BY <1>1, <1>2, ScanFacts DEF IInv, ScanInv, MutexInv
<1>4. CASE UNCHANGED rows /\ Goto(t, "closes") /\ UNCHANGED scan
  <2>1. UNCHANGED <<db, scan>>
    BY <1>1, <1>4 DEF db
  <2> QED
    BY <1>1, <1>2, <1>4, <2>1, PassingStep
<1>5. CASE /\ rows' = IF s.old THEN rows ELSE rows \cup {new}
           /\ Goto(t, l)
           /\ scan' = [scan EXCEPT ![t].nr = @ + 1]
  <2>1. new \in Row
    <3>1. Head(s.files) \in File
      BY <1>3, NotEmpty
    <3> QED
      BY <1>3, <3>1 DEF Row
  <2>2. scan' = [scan EXCEPT ![t] = z]
    BY <1>3, <1>5
  <2>3. l \in {"checks", "closes"}
    OBVIOUS
  <2>4. z \in Scan /\ z.todo # <<>> /\ z.files # <<>> /\ z.dir \in Nat /\ z.unlocked
    BY <1>3, NextNumber
  <2>5. rows' \subseteq rows \cup {new}
    BY <1>5
  <2> HIDE DEF z, l, new, s
  <2>6. ScanWork(l, z)
    BY <2>3, <2>4 DEF ScanWork
  <2>7. TablesGrow
    <3>1. Typed(dirs, lastDir) /\ lastDir \in Nat /\ rows \subseteq Row /\ Tree(dirs)
      BY Tables DEF IInv
    <3>2. rows' \subseteq Row
      BY <2>1, <2>5, <3>1
    <3>3. ASSUME write # Fail PROVE SlippedIn'
      <4>1. PICK u \in Thread : pc[u] = "writes"
        BY <3>3 DEF IInv, WriteInv
      <4>2. owner = u /\ u # t
        BY <1>1, <4>1 DEF IInv, MutexInv
      <4>3. owner' # t
        BY <1>1, <4>2 DEF mutex
      <4>4. pc'[t] \in Slipping
        BY <1>2, <1>5, <2>3 DEF Goto, IInv, TypeOK
      <4> QED
        BY <4>3, <4>4 DEF SlippedIn, Slipping
    <3> QED
      BY <1>1, <3>1, <3>2, <3>3 DEF TablesGrow, Typed, Tree
  <2>8. walker' \in Thread \cup {None} /\ scans' \in 0..MaxScans /\ UNCHANGED <<inTrans, write, copy, edits>>
    BY <1>1 DEF Aside, IInv, TypeOK
  <2>9. l \in {"idle"} \cup Scanning /\ l \in Slipping /\ l # "files" /\ l # "inserts"
    BY <1>2, <2>3
  <2> QED
    BY <1>1, <1>2, <1>3, <1>5, <2>2, <2>4, <2>6, <2>7, <2>8, <2>9, ScanStep
<1> QED
  BY <1>4, <1>5, Zenon DEF Insert

-----------------------------------------------------------------------------
(* The steps of transactions *)

Labels == {"idle", "writes", "copies", "looks", "makes", "enters", "files",
           "reads", "relocks", "checks", "inserts", "closes"}

\* A thread goes on elsewhere, the other one stays where it is.
LEMMA GotoFacts ==
  ASSUME IInv, NEW t \in Thread, NEW l \in Labels, Goto(t, l)
  PROVE  pc' \in [Thread -> Labels] /\ pc'[t] = l /\ \A u \in Thread \ {t} : pc'[u] = pc[u]
BY DEF IInv, TypeOK, Goto, Labels

\* A thread that is not at work in the loop over files gets the mutex.
LEMMA LockFacts ==
  ASSUME IInv, NEW t \in Thread, pc[t] \notin {"writes", "copies"}, Lock(t)
  PROVE  /\ owner \in {t, None} /\ owner' = t /\ depth' \in Nat /\ depth' # 0 /\ t # None
         /\ t \notin Scanners => depth' = 1
         /\ write = Fail
         /\ copy = NoCopy
         /\ \A u \in Thread \ {t} : pc[u] \notin {"writes", "copies", "files"}
<1>1. owner \in {t, None} /\ owner' = t /\ depth' = depth + 1 /\ t # None
  BY Threads DEF Lock, Free
<1>2. depth \in Nat /\ (owner = None <=> depth = 0)
  BY DEF IInv, TypeOK
<1>3. depth' \in Nat /\ depth' # 0
  BY <1>1, <1>2
<1>4. t \notin Scanners => depth' = 1
  <2>1. t \notin Scanners => owner # t
    BY DEF IInv, MutexInv
  <2> QED
    BY <1>1, <1>2, <2>1
<1>5. write = Fail /\ copy = NoCopy /\ \A u \in Thread \ {t} : pc[u] \notin {"writes", "copies", "files"}
  BY <1>1, OwnerFacts
<1> QED
  BY <1>1, <1>3, <1>4, <1>5

\* A transaction begins.
LEMMA KeepBegins ==
  ASSUME IInv, NEW t \in Thread, Begins(t),
         (pc[t] = "idle" /\ edits < MaxEdits) \/ pc[t] = "makes"
  PROVE  IInv'
<1>1. PICK w : Begin(t, w) /\ (w = Fail \/ (Keeps(w) /\ Clears(w)))
  BY DEF Begins
<1>2. /\ Lock(t) /\ inTrans' = TRUE /\ write' = w /\ Goto(t, "writes")
      /\ edits' = (IF pc[t] = "idle" THEN edits + 1 ELSE edits)
      /\ UNCHANGED <<db, copy, scan, walker, scans>>
  BY <1>1 DEF Begin
<1>3. pc[t] \notin {"writes", "copies"} /\ "writes" \in Labels
  BY DEF Labels
<1>4. /\ owner' = t /\ depth' \in Nat /\ depth' # 0 /\ t # None
      /\ t \notin Scanners => depth' = 1
      /\ copy = NoCopy
      /\ \A u \in Thread \ {t} : pc[u] \notin {"writes", "copies", "files"}
  BY <1>2, <1>3, LockFacts
<1>5. pc' \in [Thread -> Labels] /\ pc'[t] = "writes" /\ \A u \in Thread \ {t} : pc'[u] = pc[u]
  BY <1>2, <1>3, GotoFacts
<1>6. edits' \in 0..MaxEdits
  BY <1>2, BoundsAssumption DEF IInv, TypeOK
<1>7. TypeOK'
  BY <1>2, <1>4, <1>5, <1>6 DEF IInv, TypeOK, Labels, db, Dir
<1>8. Tree(dirs)'
  BY <1>2 DEF IInv, Tree, db
<1>9. MutexInv'
  <2>1. \A u \in Thread : pc'[u] \in {"writes", "copies", "files"} => owner' = u
    BY <1>4, <1>5
  <2>2. \A u \in Thread : pc'[u] \in Unlocked => scan'[u].unlocked
    BY <1>2, <1>5 DEF IInv, MutexInv, Unlocked
  <2>3. \A u \in Thread \ Scanners : /\ pc'[u] \notin Scanning
                                     /\ owner' = u => depth' = 1 /\ pc'[u] \in {"writes", "copies"}
    BY <1>4, <1>5 DEF IInv, MutexInv, Scanning
  <2> QED
    BY <1>4, <1>5, <2>1, <2>2, <2>3 DEF MutexInv
<1>10. ScanInv'
  BY <1>2, <1>5 DEF IInv, ScanInv, Scanning, Unlocked
<1>11. WriteInv'
  <2> SUFFICES ASSUME w # Fail
               PROVE  /\ \E u \in Thread : pc'[u] = "writes" /\ Keeps(w)' /\ Clears(w)'
    BY <1>2 DEF WriteInv
  <2>1. Keeps(w)' /\ Clears(w)'
    BY <1>1, <1>2 DEF Keeps, Clears, db, Typed, Tree
  <2> QED
    BY <1>5, <2>1
<1>12. CopyInv'
  <2>1. \A u \in Thread : pc'[u] # "copies"
    BY <1>4, <1>5
  <2> QED
    BY <1>2, <1>4, <2>1 DEF CopyInv, NoCopy
<1>13. NewInv'
  BY <1>4, <1>5 DEF NewInv
<1> QED
  BY <1>7, <1>8, <1>9, <1>10, <1>11, <1>12, <1>13 DEF IInv

\* DirectoryScanner::DirectoryEntry() adds a directory.
LEMMA KeepMake ==
  ASSUME IInv, NEW t \in Thread, Make(t)
  PROVE  IInv'
<1> DEFINE p == scan[t].todo[1].path
<1>1. pc[t] = "makes" /\ MakeDirectory(t, p)
  BY DEF Make
<1>2. pc[t] \in Scanning
  BY <1>1 DEF Scanning
<1>3. p \in Seq(Name) /\ p # <<>>
  BY <1>1, <1>2, ScanFacts DEF IInv, ScanInv
<1> HIDE DEF p
<1>4. Begins(t)
  BY <1>1, <1>3, MakeDirectoryBegins DEF IInv
<1> QED
  BY <1>1, <1>4, KeepBegins

\* The statements of a transaction leave a tree and instruments.
LEMMA WriteTables ==
  ASSUME IInv, NEW t \in Thread, Write(t)
  PROVE  Typed(dirs', lastDir') /\ lastDir' \in Nat /\ Tree(dirs') /\ rows' \subseteq Row
<1> DEFINE failed == write = Fail \/ Clash(write)
           new == DOMAIN write.dirs \ DOMAIN dirs
           kept == {x \in rows \ write.del : x.dir \notin write.wipe}
<1>1. Typed(dirs, lastDir) /\ lastDir \in Nat /\ rows \subseteq Row /\ Tree(dirs)
  BY Tables DEF IInv
<1>2. CASE failed
  <2>1. UNCHANGED db
    BY <1>2 DEF Write
  <2> QED
    BY <1>1, <2>1 DEF db
<1>3. CASE ~failed
  <2>1. /\ dirs' = write.dirs /\ lastDir' = Max(new \cup {lastDir})
        /\ rows' = {[r EXCEPT !.file = write.file[@]] : r \in kept} \cup write.add
    BY <1>3 DEF Write
  <2>2. Keeps(write)
    BY <1>3 DEF IInv, WriteInv
  <2>3. new \subseteq 1..lastDir + 1
    BY <2>2 DEF Keeps, Typed
  <2>4. /\ lastDir' \in Nat /\ lastDir <= lastDir' /\ new \subseteq 1..lastDir'
    <3> HIDE DEF new
    <3> QED
      BY <1>1, <2>1, <2>3, NewCounter
  <2>5. DOMAIN write.dirs \subseteq 1..lastDir'
    <3>1. DOMAIN dirs \subseteq 1..lastDir'
      BY <1>1, <2>4 DEF Typed
    <3> QED
      BY <2>4, <3>1
  <2>6. rows' \subseteq Row
    <3>1. \A r \in kept : r \in Row
      BY <1>1
    <3> HIDE DEF kept
    <3>2. \A r \in kept : [r EXCEPT !.file = write.file[@]] \in Row
      BY <2>2, <3>1 DEF Row, Keeps
    <3> QED
      BY <2>1, <2>2, <3>2 DEF Keeps
  <2> QED
    BY <2>1, <2>2, <2>4, <2>5, <2>6 DEF Keeps, Typed
<1> QED
  BY <1>2, <1>3

\* The statements of a transaction, and its end
LEMMA KeepWrite ==
  ASSUME IInv, NEW t \in Thread, Write(t)
  PROVE  IInv'
<1>1. /\ pc[t] = "writes" /\ write' = Fail /\ inTrans' = FALSE /\ Unlock
      /\ UNCHANGED <<copy, walker, edits, scans>>
  BY DEF Write, EndTransaction
<1>2. PICK l \in {"idle", "enters"}, s \in {scan[t], NoScan} :
        /\ Goto(t, l) /\ scan' = [scan EXCEPT ![t] = s]
        /\ l = "enters" <=> s.todo # <<>>
        /\ s.todo # <<>> => t \in Scanners
  <2>1. scan \in [Thread -> Scan] /\ (scan[t].todo # <<>> => t \in Scanners)
    BY DEF IInv, ScanInv
  <2>2. scan = [scan EXCEPT ![t] = scan[t]]
    BY <2>1
  <2>3. CASE scan[t].todo = <<>> /\ Goto(t, "idle") /\ UNCHANGED scan
    BY <2>1, <2>2, <2>3
  <2>4. CASE Goto(t, "idle") /\ scan' = [scan EXCEPT ![t] = NoScan]
    BY <2>4, NoScanIsScan
  <2>5. CASE scan[t].todo # <<>> /\ Goto(t, "enters") /\ UNCHANGED scan
    BY <2>1, <2>2, <2>5
  <2> QED
    BY <2>3, <2>4, <2>5 DEF Write
<1>3. l \in Labels /\ l \notin Unlocked /\ (l \in Scanning <=> l = "enters")
  BY DEF Labels, Unlocked, Scanning
<1>4. pc' \in [Thread -> Labels] /\ pc'[t] = l /\ \A u \in Thread \ {t} : pc'[u] = pc[u]
  BY <1>2, <1>3, GotoFacts
<1>5. owner = t /\ copy = NoCopy /\ \A u \in Thread \ {t} : pc[u] \notin {"writes", "copies", "files"}
  <2>1. owner = t
    BY <1>1 DEF IInv, MutexInv
  <2> QED
    BY <1>1, <2>1, OwnerFacts
<1>6. OwnMutex(t)
  BY <1>1, <1>5 DEF OwnMutex
<1>7. /\ owner' \in Thread \cup {None} /\ depth' \in Nat /\ (owner' = None <=> depth' = 0)
      /\ owner' \in {t, None} /\ t # None
  BY <1>1, <1>5, <1>6, MutexCount, Threads DEF IInv, Unlock
<1>8. t \notin Scanners => owner' = None
  BY <1>1, <1>5 DEF IInv, MutexInv, Unlock
<1>9. /\ \A u \in Thread \ {t} : scan'[u] = scan[u]
      /\ scan'[t] = s /\ scan' \in [Thread -> Scan]
  BY <1>2, NoScanIsScan DEF IInv, ScanInv
<1>10. Typed(dirs', lastDir') /\ lastDir' \in Nat /\ Tree(dirs') /\ rows' \subseteq Row
  BY WriteTables
<1>11. TypeOK'
  <2>1. copy'.from \cup DOMAIN copy'.done \subseteq DOMAIN dirs' /\ copy'.to \in Dir'
    BY <1>1, <1>5 DEF NoCopy, Dir
  <2>2. inTrans' \in BOOLEAN
    BY <1>1
  <2> QED
    BY <1>1, <1>4, <1>7, <1>10, <2>1, <2>2 DEF IInv, TypeOK, Typed, Labels
<1>12. Tree(dirs)'
  BY <1>10 DEF Tree
<1>13. MutexInv'
  <2>1. \A u \in Thread : pc'[u] \notin {"writes", "copies", "files"}
    BY <1>4, <1>5
  <2>2. \A u \in Thread : pc'[u] \in Unlocked => scan'[u].unlocked
    BY <1>3, <1>4, <1>9 DEF IInv, MutexInv
  <2>3. ASSUME NEW u \in Thread \ Scanners PROVE pc'[u] \notin Scanning /\ owner' # u
    <3>1. CASE u = t
      BY <1>2, <1>3, <1>4, <1>7, <1>8, <3>1
    <3>2. CASE u # t
      BY <1>4, <1>7, <3>2, Threads DEF IInv, MutexInv
    <3> QED
      BY <3>1, <3>2
  <2> QED
    BY <1>1, <2>1, <2>2, <2>3 DEF MutexInv
<1>14. ScanInv'
  <2>1. ASSUME NEW u \in Thread
        PROVE  /\ pc'[u] \in Scanning => scan'[u].todo # <<>>
               /\ scan'[u].todo # <<>> => u \in Scanners
               /\ pc'[u] \in {"idle", "copies"} => scan'[u].todo = <<>>
               /\ pc'[u] = "makes" => scan'[u].todo[1].path # <<>>
               /\ pc'[u] \in Unlocked => scan'[u].files # <<>> /\ scan'[u].dir \in Nat
               /\ pc'[u] = "inserts" => scan'[u].name \in Name
    <3>1. CASE u = t
      BY <1>2, <1>3, <1>4, <1>9, <3>1
    <3>2. CASE u # t
      BY <1>4, <1>9, <3>2 DEF IInv, ScanInv
    <3> QED
      BY <3>1, <3>2
  <2> QED
    BY <1>9, <2>1 DEF ScanInv
<1>15. WriteInv'
  BY <1>1 DEF WriteInv
<1>16. CopyInv'
  <2>1. \A u \in Thread : pc'[u] # "copies"
    BY <1>4, <1>5
  <2> QED
    BY <1>1, <1>5, <2>1 DEF CopyInv, NoCopy
<1>17. NewInv'
  <2>1. \A u \in Thread : pc'[u] = "inserts" => owner' # u
    BY <1>4, <1>7, Threads
  <2> QED
    BY <2>1 DEF NewInv
<1> QED
  BY <1>11, <1>12, <1>13, <1>14, <1>15, <1>16, <1>17 DEF IInv

\* The DirectoryCopier is about to copy a directory and what is below it.
LEMMA KeepCopyDirectory ==
  ASSUME IInv, NEW p \in Seq(Name), NEW q \in Seq(Name), edits < MaxEdits, CopyDirectory(Lscp, p, q)
  PROVE  IInv'
<1> DEFINE t == Lscp
           from == Below(Resolve(p))
           to == Resolve(q)
           c == [from |-> from, to |-> to, done |-> <<>>]
<1>1. /\ pc[t] = "idle" /\ Lock(t) /\ inTrans' = TRUE /\ edits' = edits + 1
      /\ UNCHANGED <<db, write, scan, walker, scans>>
      /\ t \in Thread /\ None \notin Thread
  BY Threads DEF CopyDirectory
<1>2. \/ MayPlace(p, q) /\ copy' = [NoCopy EXCEPT !.from = from, !.to = to] /\ Goto(t, "copies")
      \/ copy' = copy /\ Goto(t, "writes")
  BY DEF CopyDirectory
<1>3. pc[t] \notin {"writes", "copies"}
  BY <1>1
<1>4. /\ owner' = t /\ depth' \in Nat /\ depth' # 0 /\ t # None
      /\ t \notin Scanners => depth' = 1
      /\ write = Fail /\ copy = NoCopy
      /\ \A u \in Thread \ {t} : pc[u] \notin {"writes", "copies", "files"}
  BY <1>1, <1>3, LockFacts
<1>5. PICK l \in {"writes", "copies"} :
        /\ Goto(t, l)
        /\ copy' = NoCopy \/ (MayPlace(p, q) /\ copy' = c /\ l = "copies")
  BY <1>2, <1>4 DEF NoCopy
<1>6. copy' = NoCopy \/ (MayPlace(p, q) /\ copy' = c /\ l = "copies")
  BY <1>5
<1>7. Goto(t, l) /\ l \in Labels
  BY <1>5 DEF Labels
<1>8. pc' \in [Thread -> Labels] /\ pc'[t] = l /\ \A u \in Thread \ {t} : pc'[u] = pc[u]
  BY <1>1, <1>7, GotoFacts
<1>9. edits' \in 0..MaxEdits
  BY <1>1, BoundsAssumption DEF IInv, TypeOK
<1>10. MayPlace(p, q) => from \subseteq DOMAIN dirs /\ to \in Dir
  <2> SUFFICES ASSUME MayPlace(p, q) PROVE from \subseteq DOMAIN dirs /\ to \in Dir
    OBVIOUS
  <2>1. Resolve(p) # None /\ to # None
    BY DEF MayPlace
  <2>2. Resolve(p) \in Dir \cup {None} /\ to \in Dir \cup {None}
    BY Tables, ResolveFacts DEF IInv
  <2> DEFINE d == Resolve(p)
  <2>3. d \in Nat /\ to \in Dir
    BY <2>1, <2>2, Tables DEF IInv
  <2> HIDE DEF d
  <2>4. Below(d) \subseteq DOMAIN dirs
    BY <2>3, Tables, BelowFacts DEF IInv
  <2> QED
    BY <2>3, <2>4 DEF d
<1> HIDE DEF from, to
<1>11. /\ copy'.from \cup DOMAIN copy'.done \subseteq DOMAIN dirs /\ copy'.to \in Dir
       /\ DOMAIN copy'.done = {}
       /\ copy' = [from |-> copy'.from, to |-> copy'.to, done |-> copy'.done]
  BY <1>6, <1>10 DEF NoCopy, Dir
<1>12. TypeOK'
  BY <1>1, <1>4, <1>8, <1>9, <1>11 DEF IInv, TypeOK, Labels, db, Dir
<1>13. Tree(dirs)'
  BY <1>1 DEF IInv, Tree, db
<1>14. MutexInv'
  <2>1. \A u \in Thread : pc'[u] \in {"writes", "copies", "files"} => owner' = u
    BY <1>4, <1>8
  <2>2. \A u \in Thread : pc'[u] \in Unlocked => scan'[u].unlocked
    BY <1>1, <1>8 DEF IInv, MutexInv, Unlocked
  <2>3. \A u \in Thread \ Scanners : /\ pc'[u] \notin Scanning
                                     /\ owner' = u => depth' = 1 /\ pc'[u] \in {"writes", "copies"}
    BY <1>4, <1>8 DEF IInv, MutexInv, Scanning
  <2> QED
    BY <1>1, <1>4, <1>8, <2>1, <2>2, <2>3 DEF MutexInv
<1>15. ScanInv'
  BY <1>1, <1>8 DEF IInv, ScanInv, Scanning, Unlocked
<1>16. WriteInv'
  BY <1>1, <1>4 DEF WriteInv
<1>17. CopyInv'
  <2>1. \A u \in Thread : pc'[u] = "copies" => u = Lscp
    BY <1>4, <1>8
  <2>2. copy' # NoCopy => pc'[Lscp] = "copies"
    BY <1>6, <1>8
  <2> QED
    BY <1>11, <2>1, <2>2 DEF CopyInv
<1>18. NewInv'
  BY <1>4, <1>8 DEF NewInv
<1> QED
  BY <1>12, <1>13, <1>14, <1>15, <1>16, <1>17, <1>18 DEF IInv

\* The DirectoryCopier copies a directory with its instruments, or gives up.
LEMMA KeepCopyNext ==
  ASSUME IInv, NEW t \in Thread, CopyNext(t)
  PROVE  IInv'
<1>1. /\ pc[t] = "copies" /\ inTrans' = FALSE /\ UNCHANGED <<mutex, write, scan, walker, edits, scans>>
      /\ t = Lscp
  BY DEF CopyNext, IInv, CopyInv
<1>2. owner = t /\ write = Fail /\ \A u \in Thread \ {t} : pc[u] \notin {"writes", "copies", "files"}
  <2>1. owner = t
    BY <1>1 DEF IInv, MutexInv
  <2> QED
    BY <1>1, <2>1, OwnerFacts
<1>3. Typed(dirs, lastDir) /\ lastDir \in Nat /\ rows \subseteq Row /\ Tree(dirs)
  BY Tables DEF IInv
<1>4. PICK l \in {"writes", "copies"} :
        /\ Goto(t, l) /\ (l = "writes" => copy' = NoCopy)
        /\ Typed(dirs', lastDir') /\ lastDir' \in Nat /\ Tree(dirs') /\ rows' \subseteq Row
        /\ copy'.from \cup DOMAIN copy'.done \subseteq DOMAIN dirs' /\ copy'.to \in DOMAIN dirs' \cup {Root}
        /\ copy' = [from |-> copy'.from, to |-> copy'.to, done |-> copy'.done]
        /\ \A d \in DOMAIN copy'.done : copy'.done[d] \in DOMAIN dirs'
  <2>1. /\ copy = [from |-> copy.from, to |-> copy.to, done |-> copy.done]
        /\ copy.from \cup DOMAIN copy.done \subseteq DOMAIN dirs /\ copy.to \in Dir
        /\ \A d \in DOMAIN copy.done : copy.done[d] \in DOMAIN dirs
    BY DEF IInv, TypeOK, CopyInv
  <2>2. PICK d \in copy.from \ DOMAIN copy.done :
          LET parent == dirs[d].parent
              to == IF parent \in DOMAIN copy.done THEN copy.done[parent] ELSE copy.to
              id == lastDir + 1
              done == [x \in DOMAIN copy.done \cup {d} |-> IF x = d THEN id ELSE copy.done[x]]
          IN /\ parent \notin copy.from \ DOMAIN copy.done
             /\ IF Taken(to, dirs[d].name)
                THEN UNCHANGED db /\ copy' = NoCopy /\ Goto(t, "writes")
                ELSE /\ dirs' = Put(id, [parent |-> to, name |-> dirs[d].name])
                     /\ lastDir' = id
                     /\ rows' = rows \cup {[r EXCEPT !.dir = id] : r \in {x \in rows : x.dir = d}}
                     /\ IF DOMAIN done = copy.from THEN copy' = NoCopy /\ Goto(t, "writes")
                        ELSE copy' = [copy EXCEPT !.done = done] /\ UNCHANGED pc
    BY DEF CopyNext
  <2> DEFINE parent == dirs[d].parent
             n == dirs[d].name
             to == IF parent \in DOMAIN copy.done THEN copy.done[parent] ELSE copy.to
             id == lastDir + 1
             done == [x \in DOMAIN copy.done \cup {d} |-> IF x = d THEN id ELSE copy.done[x]]
  <2>3. to \in Dir /\ n \in Name /\ d \in DOMAIN dirs
    BY <1>3, <2>1, <2>2 DEF Typed, Dir
  <2>4. \/ UNCHANGED db /\ copy' = NoCopy /\ Goto(t, "writes")
        \/ /\ dirs' = Put(id, [parent |-> to, name |-> n]) /\ lastDir' = id
           /\ rows' = rows \cup {[r EXCEPT !.dir = id] : r \in {x \in rows : x.dir = d}}
           /\ \/ copy' = NoCopy /\ Goto(t, "writes")
              \/ copy' = [copy EXCEPT !.done = done] /\ UNCHANGED pc
    BY <2>2, Zenon
  <2> HIDE DEF to, n, done
  <2>5. CASE UNCHANGED db /\ copy' = NoCopy /\ Goto(t, "writes")
    BY <1>3, <2>5 DEF db, NoCopy, Typed, Tree
  <2>6. CASE /\ dirs' = Put(id, [parent |-> to, name |-> n]) /\ lastDir' = id
             /\ rows' = rows \cup {[r EXCEPT !.dir = id] : r \in {x \in rows : x.dir = d}}
             /\ \/ copy' = NoCopy /\ Goto(t, "writes")
                \/ copy' = [copy EXCEPT !.done = done] /\ UNCHANGED pc
    <3>1. Typed(dirs', id) /\ Tree(dirs') /\ DOMAIN dirs' = DOMAIN dirs \cup {id} /\ id \in Nat
      <4> DEFINE D == Put(id, [parent |-> to, name |-> n])
      <4>1. Typed(D, id) /\ Tree(D) /\ DOMAIN D = DOMAIN dirs \cup {id}
        BY <1>3, <2>3, TreePut
      <4>2. id \in Nat
        BY <1>3
      <4>3. dirs' = D
        BY <2>6
      <4> HIDE DEF D, id
      <4> QED
        BY <4>1, <4>2, <4>3
    <3>2. rows' \subseteq Row
      <4> HIDE DEF id
      <4> QED
        BY <1>3, <2>6, <3>1 DEF Row
    <3>3. /\ DOMAIN done = DOMAIN copy.done \cup {d}
          /\ \A x \in DOMAIN done : done[x] \in DOMAIN dirs \cup {id}
      <4> HIDE DEF id
      <4> QED
        BY <2>1 DEF done
    <3>4. CASE copy' = NoCopy /\ Goto(t, "writes")
      BY <2>6, <3>1, <3>2, <3>4 DEF NoCopy
    <3>5. CASE copy' = [copy EXCEPT !.done = done] /\ UNCHANGED pc
      <4>1. Goto(t, "copies")
        BY <1>1, <3>5 DEF Goto, IInv, TypeOK
      <4>2. copy' = [from |-> copy.from, to |-> copy.to, done |-> done]
        BY <2>1, <3>5
      <4>3. /\ copy'.from = copy.from /\ copy'.to = copy.to /\ copy'.done = done
            /\ copy' = [from |-> copy'.from, to |-> copy'.to, done |-> copy'.done]
        BY <4>2
      <4>4. copy.from \cup DOMAIN done \subseteq DOMAIN dirs' /\ copy.to \in DOMAIN dirs' \cup {Root}
        BY <2>1, <2>3, <3>1, <3>3 DEF Dir
      <4>5. \A x \in DOMAIN done : done[x] \in DOMAIN dirs'
        BY <3>1, <3>3
      <4> QED
        BY <2>6, <3>1, <3>2, <4>1, <4>3, <4>4, <4>5
    <3> QED
      BY <2>6, <3>4, <3>5
  <2> QED
    BY <2>4, <2>5, <2>6
<1>5. l \in Labels
  BY DEF Labels
<1>6. pc' \in [Thread -> Labels] /\ pc'[t] = l /\ \A u \in Thread \ {t} : pc'[u] = pc[u]
  BY <1>4, <1>5, GotoFacts
<1>7. TypeOK'
  BY <1>1, <1>4, <1>6 DEF IInv, TypeOK, Typed, Labels, mutex, Dir
<1>8. Tree(dirs)'
  BY <1>4 DEF Tree
<1>9. MutexInv'
  <2>1. \A u \in Thread : pc'[u] \in {"writes", "copies", "files"} => owner' = u
    BY <1>1, <1>2, <1>6 DEF mutex
  <2>2. \A u \in Thread : pc'[u] \in Unlocked => scan'[u].unlocked
    BY <1>1, <1>6 DEF IInv, MutexInv, Unlocked
  <2>3. \A u \in Thread \ Scanners : /\ pc'[u] \notin Scanning
                                     /\ owner' = u => depth' = 1 /\ pc'[u] \in {"writes", "copies"}
    BY <1>1, <1>2, <1>6 DEF IInv, MutexInv, Scanning, mutex
  <2> QED
    BY <1>1, <2>1, <2>2, <2>3 DEF MutexInv
<1>10. ScanInv'
  BY <1>1, <1>6 DEF IInv, ScanInv, Scanning, Unlocked
<1>11. WriteInv'
  BY <1>1, <1>2 DEF WriteInv
<1>12. CopyInv'
  <2>1. \A u \in Thread : pc'[u] = "copies" => u = Lscp
    BY <1>1, <1>2, <1>6
  <2>2. copy' # NoCopy => pc'[Lscp] = "copies"
    BY <1>1, <1>4, <1>6
  <2> QED
    BY <1>4, <2>1, <2>2 DEF CopyInv
<1>13. NewInv'
  <2>1. \A u \in Thread : pc'[u] = "inserts" => owner' # u
    BY <1>1, <1>2, <1>6 DEF mutex
  <2> QED
    BY <2>1 DEF NewInv
<1> QED
  BY <1>7, <1>8, <1>9, <1>10, <1>11, <1>12, <1>13 DEF IInv

\* A new database
LEMMA KeepFormat ==
  ASSUME IInv, NEW t \in Thread, Format(t), edits < MaxEdits
  PROVE  IInv'
<1>1. /\ pc[t] = "idle" /\ Free(t) /\ dirs' = <<>> /\ rows' = {} /\ lastDir' = 0
      /\ scan' = [u \in Thread |-> [scan[u] EXCEPT !.old = scan[u].dir # None]]
      /\ edits' = edits + 1
      /\ UNCHANGED <<mutex, inTrans, pc, write, copy, walker, scans>>
  BY DEF Format
<1>2. write = Fail /\ copy = NoCopy
  BY <1>1, OwnerFacts DEF Free
<1>3. edits' \in 0..MaxEdits
  BY <1>1, BoundsAssumption DEF IInv, TypeOK
<1>4. DOMAIN dirs' = {}
  BY <1>1
<1>5. TypeOK'
  BY <1>1, <1>2, <1>3, <1>4 DEF IInv, TypeOK, mutex, NoCopy, Dir
<1>6. Tree(dirs)'
  BY <1>4 DEF Tree
<1>7. ASSUME NEW u \in Thread
      PROVE  /\ scan'[u] \in Scan /\ scan'[u].todo = scan[u].todo /\ scan'[u].files = scan[u].files
             /\ scan'[u].dir = scan[u].dir /\ scan'[u].name = scan[u].name
             /\ scan'[u].unlocked = scan[u].unlocked
  <2> DEFINE b == scan[u].dir # None
  <2>1. b \in BOOLEAN /\ scan[u] \in Scan /\ scan'[u] = [scan[u] EXCEPT !.old = b]
    BY <1>1 DEF IInv, ScanInv
  <2> HIDE DEF b
  <2> QED
    BY <2>1 DEF Scan
<1>8. MutexInv'
  BY <1>1, <1>7 DEF IInv, MutexInv, mutex
<1>9. ScanInv'
  <2>1. scan' \in [Thread -> Scan]
    BY <1>1, <1>7
  <2>2. ScanInv /\ pc' = pc
    BY <1>1 DEF IInv
  <2> SUFFICES ASSUME NEW u \in Thread
               PROVE  /\ pc[u] \in Scanning => scan'[u].todo # <<>>
                      /\ scan'[u].todo # <<>> => u \in Scanners
                      /\ pc[u] \in {"idle", "copies"} => scan'[u].todo = <<>>
                      /\ pc[u] = "makes" => scan'[u].todo[1].path # <<>>
                      /\ pc[u] \in Unlocked => scan'[u].files # <<>> /\ scan'[u].dir \in Nat
                      /\ pc[u] = "inserts" => scan'[u].name \in Name
    <3> HIDE <1>1, <1>7
    <3> QED
      BY <2>1, <2>2, Zenon DEF ScanInv
  <2>3. /\ scan'[u].todo = scan[u].todo /\ scan'[u].files = scan[u].files
        /\ scan'[u].dir = scan[u].dir /\ scan'[u].name = scan[u].name
    BY <1>7
  <2> QED
    BY <2>2, <2>3, Zenon DEF ScanInv
<1>10. WriteInv'
  BY <1>1, <1>2 DEF WriteInv
<1>11. CopyInv'
  BY <1>1, <1>2 DEF IInv, CopyInv, NoCopy
<1>12. NewInv'
  BY <1>1 DEF NewInv, Known
<1> QED
  BY <1>5, <1>6, <1>8, <1>9, <1>10, <1>11, <1>12 DEF IInv

-----------------------------------------------------------------------------
(* The theorems *)

\* The database is empty, and nobody is at work.
LEMMA InitIInv == Init => IInv
<1> SUFFICES ASSUME Init PROVE IInv
  OBVIOUS
<1>1. /\ dirs = <<>> /\ lastDir = 0 /\ rows = {} /\ owner = None /\ depth = 0 /\ inTrans = FALSE
      /\ pc = [t \in Thread |-> "idle"] /\ write = Fail /\ copy = NoCopy
      /\ scan = [t \in Thread |-> NoScan] /\ walker = None /\ edits = 0 /\ scans = 0
  BY DEF Init
<1>2. DOMAIN dirs = {}
  BY <1>1
<1>3. TypeOK
  <2>1. 0 \in 0..MaxEdits /\ 0 \in 0..MaxScans
    BY BoundsAssumption
  <2> QED
    BY <1>1, <1>2, <2>1 DEF TypeOK, NoCopy, Dir
<1>4. Tree(dirs)
  BY <1>2 DEF Tree
<1>5. MutexInv
  BY <1>1, Threads DEF MutexInv, Unlocked, Scanning
<1>6. ScanInv
  BY <1>1, NoScanIsScan DEF ScanInv, Unlocked, Scanning
<1>7. WriteInv
  BY <1>1 DEF WriteInv
<1>8. CopyInv
  BY <1>1 DEF CopyInv, NoCopy
<1>9. NewInv
  BY <1>1 DEF NewInv
<1> QED
  BY <1>3, <1>4, <1>5, <1>6, <1>7, <1>8, <1>9 DEF IInv

\* Every step keeps the invariant.
LEMMA NextIInv == IInv /\ [Next]_vars => IInv'
<1> SUFFICES ASSUME IInv, [Next]_vars PROVE IInv'
  OBVIOUS
<1>1. CASE UNCHANGED vars
  <2>1. /\ dirs' = dirs /\ lastDir' = lastDir /\ rows' = rows /\ owner' = owner /\ depth' = depth
        /\ UNCHANGED <<inTrans, pc, write, copy, scan, walker, edits, scans>>
    BY <1>1 DEF vars, db, mutex
  <2>2. TypeOK' /\ Tree(dirs)'
    BY <2>1 DEF IInv, TypeOK, Dir, Tree
  <2>3. MutexInv' /\ ScanInv'
    BY <2>1 DEF IInv, MutexInv, ScanInv
  <2>4. WriteInv'
    <3>1. Keeps(write)' <=> Keeps(write)
      BY <2>1 DEF Keeps, Typed, Tree
    <3>2. Clears(write)' <=> Clears(write)
      BY <2>1 DEF Clears
    <3>3. SlippedIn' <=> SlippedIn
      BY <2>1 DEF SlippedIn
    <3> QED
      BY <2>1, <3>1, <3>2, <3>3 DEF IInv, WriteInv
  <2>5. CopyInv' /\ NewInv'
    BY <2>1 DEF IInv, CopyInv, NewInv, Known
  <2> QED
    BY <2>2, <2>3, <2>4, <2>5 DEF IInv
<1>2. ASSUME NEW t \in Thread, NEW r \in Requests, StartScan(t, r) PROVE IInv'
  BY <1>2, KeepStartScan
<1>3. ASSUME NEW t \in Thread, Command(t) PROVE IInv'
  <2>1. t = Lscp /\ edits < MaxEdits /\ pc[t] = "idle"
    BY <1>3 DEF Command
  <2>2. Begins(t) => IInv'
    BY <2>1, KeepBegins
  <2>3. Edit(t) => IInv'
    <3>1. Edit(t) => Begins(t) \/ \E p \in Seq(Name), q \in Seq(Name) : CopyDirectory(t, p, q)
      BY EditBegins DEF IInv
    <3> QED
      BY <2>1, <2>2, <3>1, KeepCopyDirectory
  <2>4. Format(t) => IInv'
    BY <2>1, KeepFormat
  <2>5. (\E f, g \in File : SetInstrumentFilePath(t, f, g)) => IInv'
    BY <2>2, SetInstrumentFilePathBegins DEF IInv
  <2> QED
    BY <1>3, <2>3, <2>4, <2>5 DEF Command
<1>4. ASSUME NEW t \in Thread, Run(t) PROVE IInv'
  BY <1>4, KeepWrite, KeepCopyNext, KeepLook, KeepMake, KeepEnter, KeepLeave, KeepOpen, KeepRead,
     KeepRelock, KeepCheck, KeepInsert, KeepClose DEF Run
<1> QED
  BY <1>1, <1>2, <1>3, <1>4 DEF Next

\* The inductive invariant holds in every state.
THEOREM Invariance == Spec => []IInv
<1>1. Spec => Init /\ [][Next]_vars
  BY PTL DEF Spec
<1> QED
  BY <1>1, InitIInv, NextIInv, PTL

\* The directories are a tree whatever commands and scans of the two threads do at the
\* same time, InTransaction is set only while its thread has the mutex, and a thread
\* that does not scan has given the mutex up after each command.
THEOREM DatabaseIsSound == Spec => []DatabaseSound
<1>1. IInv => DatabaseSound
  <2> SUFFICES ASSUME IInv PROVE DatabaseSound
    OBVIOUS
  <2>1. TreeSound
    BY Tables, SoundFromTree DEF IInv
  <2>2. TransactionHoldsMutex
    BY FilesFacts DEF TransactionHoldsMutex, IInv, MutexInv
  <2>3. MutexGivenUp
    BY DEF MutexGivenUp, IInv, MutexInv
  <2> QED
    BY <2>1, <2>2, <2>3 DEF DatabaseSound, IInv
<1> QED
  BY <1>1, Invariance, PTL

\* No step but the statements of a transaction and Format() removes a directory.
LEMMA DirectoriesStay ==
  ASSUME IInv, [Next]_vars, ~ \E t \in Thread : Write(t), ~ \E t \in Thread : Format(t)
  PROVE  DOMAIN dirs \subseteq DOMAIN dirs'
<1>1. CASE UNCHANGED vars
  BY <1>1 DEF vars, db
<1>2. ASSUME NEW t \in Thread, NEW r \in Requests, StartScan(t, r) PROVE UNCHANGED dirs
  BY <1>2 DEF StartScan, db
<1>3. ASSUME NEW t \in Thread, Command(t) PROVE UNCHANGED dirs
  <2>1. Begins(t) => UNCHANGED dirs
    BY DEF Begins, Begin, db
  <2>2. (\E p \in Seq(Name), q \in Seq(Name) : CopyDirectory(t, p, q)) => UNCHANGED dirs
    BY DEF CopyDirectory, db
  <2>3. Edit(t) => UNCHANGED dirs
    BY <2>1, <2>2, EditBegins DEF IInv
  <2>4. (\E f, g \in File : SetInstrumentFilePath(t, f, g)) => UNCHANGED dirs
    BY <2>1, SetInstrumentFilePathBegins DEF IInv
  <2> QED
    BY <1>3, <2>3, <2>4 DEF Command
<1>4. ASSUME NEW t \in Thread, Run(t) PROVE DOMAIN dirs \subseteq DOMAIN dirs'
  <2>1. CopyNext(t) => DOMAIN dirs \subseteq DOMAIN dirs'
    <3> SUFFICES ASSUME CopyNext(t) PROVE DOMAIN dirs \subseteq DOMAIN dirs'
      OBVIOUS
    <3>1. UNCHANGED dirs \/ \E d, e : dirs' = Put(d, e)
      BY Zenon DEF CopyNext, db
    <3> QED
      BY <3>1 DEF Put
  <2>2. Open(t) => DOMAIN dirs \subseteq DOMAIN dirs'
    <3> SUFFICES ASSUME Open(t) PROVE DOMAIN dirs \subseteq DOMAIN dirs'
      OBVIOUS
    <3>1. UNCHANGED dirs \/ \E d, e : dirs' = Put(d, e)
      BY Zenon DEF Open, db
    <3> QED
      BY <3>1 DEF Put
  <2>3. Make(t) => UNCHANGED dirs
    BY DEF Make, MakeDirectory, Begin, db
  <2>4. Look(t) \/ Enter(t) \/ Leave(t) => UNCHANGED dirs
    BY DEF Look, Enter, Leave, db
  <2>5. Read(t) \/ Relock(t) \/ Check(t) => UNCHANGED dirs
    BY DEF Read, Relock, Check, db
  <2>6. Insert(t) \/ Close(t) => UNCHANGED dirs
    BY DEF Insert, Close, db
  <2> QED
    BY <1>4, <2>1, <2>2, <2>3, <2>4, <2>5, <2>6 DEF Run
<1> QED
  BY <1>1, <1>2, <1>3, <1>4 DEF Next

\* No directory goes and leaves instruments behind, unless a scan has slipped in.
THEOREM RemovedDirectoriesAreEmpty == Spec => RemovedEmpty
<1>1. ASSUME IInv, [Next]_vars, ~SlippedIn
      PROVE  \A d \in DOMAIN dirs \ DOMAIN dirs', r \in rows' : r.dir # d
  <2>1. ASSUME NEW t \in Thread, Write(t)
        PROVE  \A d \in DOMAIN dirs \ DOMAIN dirs', r \in rows' : r.dir # d
    <3> DEFINE kept == {x \in rows \ write.del : x.dir \notin write.wipe}
    <3>1. CASE write = Fail \/ Clash(write)
      BY <2>1, <3>1 DEF Write, db
    <3>2. CASE ~(write = Fail \/ Clash(write))
      <4>1. /\ dirs' = write.dirs
            /\ rows' = {[r EXCEPT !.file = write.file[@]] : r \in kept} \cup write.add
        BY <2>1, <3>2 DEF Write
      <4>2. Keeps(write) /\ Clears(write)
        BY <1>1, <3>2 DEF IInv, WriteInv
      <4>3. kept \subseteq Row
        BY <1>1, Tables DEF IInv
      <4>4. ASSUME NEW d \in DOMAIN dirs \ DOMAIN dirs', NEW x \in kept PROVE x.dir # d
        BY <4>1, <4>2, <4>4 DEF Clears
      <4> HIDE DEF kept
      <4>5. \A x \in kept : [x EXCEPT !.file = write.file[@]].dir = x.dir
        BY <4>3 DEF Row
      <4>6. ASSUME NEW d \in DOMAIN dirs \ DOMAIN dirs', NEW r \in rows' PROVE r.dir # d
        <5>1. CASE r \in write.add
          BY <4>1, <4>2, <5>1 DEF Keeps
        <5>2. CASE \E x \in kept : r = [x EXCEPT !.file = write.file[@]]
          BY <4>4, <4>5, <5>2
        <5> QED
          BY <4>1, <5>1, <5>2
      <4> QED
        BY <4>6
    <3> QED
      BY <3>1, <3>2
  <2>2. ASSUME NEW t \in Thread, Format(t) PROVE rows' = {}
    BY <2>2 DEF Format
  <2> QED
    BY <1>1, <2>1, <2>2, DirectoriesStay
<1>2. IInv /\ [Next]_vars
        => [~SlippedIn => \A d \in DOMAIN dirs \ DOMAIN dirs', r \in rows' : r.dir # d]_vars
  BY <1>1
<1>3. Spec => [][Next]_vars
  BY PTL DEF Spec
<1> QED
  BY <1>2, <1>3, Invariance, PTL DEF RemovedEmpty

\* While a scan is about to insert an instrument and holds the mutex, nobody else
\* changes the table of instruments, if only one thread scans, but for Format().
LEMMA OnlyInserted ==
  ASSUME IInv, OneScanner, [Next]_vars, NEW t \in Thread, pc[t] = "inserts", owner = t
  PROVE  UNCHANGED rows \/ rows' = {} \/ Insert(t)
<1>1. t \in Scanners
  BY DEF IInv, ScanInv, Scanning
<1>2. \A u \in Thread : pc[u] \notin {"writes", "copies", "files"}
  BY DEF IInv, MutexInv
<1>3. CASE UNCHANGED vars
  BY <1>3 DEF vars, db
<1>4. ASSUME NEW u \in Thread, NEW r \in Requests, StartScan(u, r) PROVE UNCHANGED rows
  BY <1>4 DEF StartScan, db
<1>5. ASSUME NEW u \in Thread, Command(u) PROVE UNCHANGED rows \/ rows' = {}
  <2>1. Begins(u) => UNCHANGED rows
    BY DEF Begins, Begin, db
  <2>2. (\E p \in Seq(Name), q \in Seq(Name) : CopyDirectory(u, p, q)) => UNCHANGED rows
    BY DEF CopyDirectory, db
  <2>3. Edit(u) => UNCHANGED rows
    BY <2>1, <2>2, EditBegins DEF IInv
  <2>4. (\E f, g \in File : SetInstrumentFilePath(u, f, g)) => UNCHANGED rows
    BY <2>1, SetInstrumentFilePathBegins DEF IInv
  <2>5. Format(u) => rows' = {}
    BY DEF Format
  <2> QED
    BY <1>5, <2>3, <2>4, <2>5 DEF Command
<1>6. ASSUME NEW u \in Thread, Run(u) PROVE UNCHANGED rows \/ Insert(t)
  <2>1. ~Write(u) /\ ~CopyNext(u) /\ ~Open(u)
    BY <1>2 DEF Write, CopyNext, Open
  <2>2. Insert(u) => Insert(t)
    <3>1. Insert(u) => u \in Scanners
      BY DEF Insert, IInv, ScanInv, Scanning
    <3> QED
      BY <1>1, <3>1 DEF OneScanner
  <2>3. Make(u) => UNCHANGED rows
    BY DEF Make, MakeDirectory, Begin, db
  <2>4. Look(u) \/ Enter(u) \/ Leave(u) => UNCHANGED rows
    BY DEF Look, Enter, Leave, db
  <2>5. Read(u) \/ Relock(u) \/ Check(u) => UNCHANGED rows
    BY DEF Read, Relock, Check, db
  <2>6. Close(u) => UNCHANGED rows
    BY DEF Close, db
  <2> QED
    BY <1>6, <2>1, <2>2, <2>3, <2>4, <2>5, <2>6 DEF Run
<1> QED
  BY <1>3, <1>4, <1>5, <1>6 DEF Next

\* A scan that holds the mutex does not add an instrument that the database has, although
\* it let the mutex go between its look at the table and before, if only one thread scans.
THEOREM InstrumentsAreAddedOnce == ASSUME OneScanner PROVE Spec => ScannedOnce
<1>1. ASSUME IInv, [Next]_vars, NEW t \in Thread, NEW r \in rows' \ rows, NEW x \in rows,
             pc[t] = "inserts" /\ owner = t
      PROVE  <<r.file, r.nr>> # <<x.file, x.nr>>
  <2>1. Insert(t)
    BY <1>1, OnlyInserted
  <2>2. r = [dir |-> scan[t].dir, name |-> scan[t].name, file |-> Head(scan[t].files), nr |-> scan[t].nr]
    BY <1>1, <2>1 DEF Insert
  <2>3. ~Known(t)
    BY <1>1 DEF IInv, NewInv
  <2>4. r.file = Head(scan[t].files) /\ r.nr = scan[t].nr
    BY <2>2
  <2>5. r.file # x.file \/ r.nr # x.nr
    BY <2>3, <2>4 DEF Known
  <2> QED
    BY <2>5
<1>2. IInv /\ [Next]_vars
        => [\A t \in Thread, r \in rows' \ rows, x \in rows :
              pc[t] = "inserts" /\ owner = t => <<r.file, r.nr>> # <<x.file, x.nr>>]_vars
  BY <1>1
<1>3. Spec => [][Next]_vars
  BY PTL DEF Spec
<1> QED
  BY <1>2, <1>3, Invariance, PTL DEF ScannedOnce
=============================================================================
