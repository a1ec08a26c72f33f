--------------------------- MODULE InstrumentsDb ---------------------------
(***************************************************************************)
(* The instruments database: a tree of directories with instruments, kept  *)
(* in two SQLite tables.  The LSCP thread edits it, each command in a      *)
(* transaction; scans of instrument files, which run in the LSCP thread or *)
(* in the InstrumentsDbThread, add what they find and let the mutex go     *)
(* while a file is read.                                                   *)
(*                                                                         *)
(* A path is the sequence of the names in it, a name <<"x", i>> stands for *)
(* "x[i]" and <<"x", 1>> for "x".  A transaction is two steps, because a   *)
(* scan that sees InTransaction skips the mutex: the command's checks, and *)
(* its statements with the end of the transaction.                         *)
(***************************************************************************)
EXTENDS Integers, Sequences, FiniteSets, SequencesExt, FiniteSetsExt

CONSTANTS
  Lscp, Worker,  \* the two threads
  Scanners,      \* those of them that scan
  Base,          \* names without a suffix
  MaxSuffix,     \* bound on suffixes, 1000 in GetUniqueName()
  Contents,      \* of each instrument file, the names of its instruments
  BaseName,      \* of each instrument file
  FsWalk,        \* the directories of the file system that a recursive scan
                 \* meets and that have instrument files in or below
                 \* them, in its order: path below the first, and files
  Requests,      \* the scans asked for
  Depth, MaxEdits, MaxScans  \* bounds: length of the paths that commands
                 \* name, commands that change the database, scans

Thread == {Lscp, Worker}
File == DOMAIN Contents
Name == Base \X (1..MaxSuffix)
Root == 0
None == -1

ASSUME ThreadsAssumption == Lscp # Worker /\ Scanners \subseteq Thread
                            /\ {Lscp, Worker} \cap {None} = {}
ASSUME BoundsAssumption == /\ {MaxSuffix, Depth, MaxEdits, MaxScans} \subseteq Nat
                           /\ MaxSuffix > 0
                           /\ MaxScans <= 3 \* the JobList forgets older jobs
ASSUME FilesAssumption ==
  /\ Contents \in [File -> Seq(Base)] /\ BaseName \in [File -> Base]
  /\ \A i \in DOMAIN FsWalk : FsWalk[i].sub \in Seq(Name) /\ FsWalk[i].files \in Seq(File)

\* The work of a thread that scans: the directories left with their files, the
\* files left in the first of them, what was asked for, and the current file
Scan == [todo : Seq([path : Seq(Name), files : Seq(File)]), files : Seq(File),
         mk : BOOLEAN, sub : BOOLEAN, ix : Nat \cup {None},
         unlocked : BOOLEAN, old : BOOLEAN, dir : Nat \cup {None}, nr : Nat,
         name : Name \cup {<<>>}]
ASSUME RequestsAssumption == \A r \in Requests : r \in Scan /\ r.todo # <<>>

VARIABLES
  dirs,     \* table instr_dirs, without the root
  lastDir,  \* its AUTOINCREMENT counter
  rows,     \* table instruments
  owner, depth, \* of the recursive DbInstrumentsMutex
  inTrans,  \* InTransaction
  pc,       \* of each thread
  write,    \* what the transaction is about to change
  copy,     \* CopyDirectory(): the directories to copy, the destination, and
            \* the copies made so far
  scan,     \* the scan of each thread: what is left, and the current file
  walker,   \* owner of DirectoryWalkerMutex
  edits, scans \* number of commands and of scans so far
db == <<dirs, lastDir, rows>>
mutex == <<owner, depth>>
vars == <<db, mutex, inTrans, pc, write, copy, scan, walker, edits, scans>>

Dir == DOMAIN dirs \cup {Root}
Row == [dir : Nat, name : Name, file : File, nr : Nat]

Child(d, n) ==
  LET c == {x \in DOMAIN dirs : dirs[x].parent = d /\ dirs[x].name = n}
  IN IF c = {} THEN None ELSE CHOOSE x \in c : TRUE
Resolve(path) == LET at[i \in 0..Len(path)] ==
                       IF i = 0 THEN Root ELSE Child(at[i-1], path[i])
                 IN at[Len(path)]
RowsAt(d, n) == {r \in rows : r.dir = d /\ r.name = n}
Taken(d, n) == Child(d, n) # None \/ RowsAt(d, n) # {}

\* The directory i levels above d
Up(d, i) == LET up[j \in 0..i] ==
                  IF j = 0 THEN d
                  ELSE IF up[j-1] \in DOMAIN dirs THEN dirs[up[j-1]].parent
                  ELSE up[j-1]
            IN up[i]
Below(d) == {c \in DOMAIN dirs : \E i \in 0..Cardinality(DOMAIN dirs) : Up(c, i) = d}

\* GetUniqueName(): with a suffix it no longer asks for directories (1779).
\* None if the suffixes are used up, which throws.
UniqueName(d, n) ==
  IF ~Taken(d, <<n, 1>>) THEN <<n, 1>>
  ELSE LET free == {i \in 2..MaxSuffix : RowsAt(d, <<n, i>>) = {}}
       IN IF free = {} THEN <<n, None>> ELSE <<n, Min(free)>>

\* Changes of a transaction: the directories, those whose rows are deleted,
\* rows deleted and inserted, and new paths of instrument files
Change == [dirs |-> dirs, wipe |-> {}, del |-> {}, add |-> {}, file |-> [f \in File |-> f]]
Fail == [dirs |-> <<>>, wipe |-> {}, del |-> {}, add |-> {}, file |-> <<>>]
NoCopy == [from |-> {}, to |-> Root, done |-> <<>>]
NoScan == [todo |-> <<>>, files |-> <<>>, mk |-> FALSE, sub |-> FALSE, ix |-> None,
           unlocked |-> FALSE, old |-> FALSE, dir |-> None, nr |-> 0, name |-> <<>>]

TypeOK ==
  /\ DOMAIN dirs \subseteq 1..lastDir /\ lastDir \in Nat
  /\ \A d \in DOMAIN dirs : dirs[d] \in [parent : Nat, name : Name]
  /\ rows \subseteq Row
  /\ owner \in Thread \cup {None} /\ depth \in Nat /\ (owner = None <=> depth = 0)
  /\ inTrans \in BOOLEAN
  /\ pc \in [Thread -> {"idle", "writes", "copies", "looks", "makes", "enters", "files",
                        "reads", "relocks", "checks", "inserts", "closes"}]
  /\ copy.from \cup DOMAIN copy.done \subseteq DOMAIN dirs /\ copy.to \in Dir
  /\ walker \in Thread \cup {None}
  /\ edits \in 0..MaxEdits /\ scans \in 0..MaxScans

Init ==
  /\ dirs = <<>> /\ lastDir = 0 /\ rows = {}
  /\ owner = None /\ depth = 0 /\ inTrans = FALSE
  /\ pc = [t \in Thread |-> "idle"]
  /\ write = Fail /\ copy = NoCopy
  /\ scan = [t \in Thread |-> NoScan] /\ walker = None /\ edits = 0 /\ scans = 0

Goto(t, l) == pc' = [pc EXCEPT ![t] = l]
Free(t) == owner \in {t, None}
Lock(t) == Free(t) /\ owner' = t /\ depth' = depth + 1
Unlock_NotRecursive == owner' = None /\ depth' = depth - 1
Unlock == owner' = (IF depth = 1 THEN None ELSE owner) /\ depth' = depth - 1

\* EndTransaction(), which a nested call may have ended before
EndTransaction_StillInTransaction == UNCHANGED inTrans /\ Unlock
EndTransaction_LockedIfNone ==
  inTrans' = FALSE /\ IF inTrans THEN Unlock ELSE UNCHANGED mutex
EndTransaction == inTrans' = FALSE /\ Unlock

-----------------------------------------------------------------------------
(* Commands *)

\* BeginTransaction() and the command's checks
Begin(t, change) ==
  /\ Lock(t)
  /\ inTrans' = TRUE
  /\ write' = change
  /\ edits' = IF pc[t] = "idle" THEN edits + 1 ELSE edits
  /\ Goto(t, "writes")
  /\ UNCHANGED <<db, copy, scan, walker, scans>>

\* UNIQUE (dir_id,instr_name)
Clash(change) == \E r \in change.add, x \in rows \ change.del :
                   r.dir = x.dir /\ r.name = x.name

\* The statements and EndTransaction().  The scan that made a directory goes on.
Write(t) ==
  /\ pc[t] = "writes"
  /\ LET failed == write = Fail \/ Clash(write)
         new == DOMAIN write.dirs \ DOMAIN dirs
     IN /\ IF failed THEN UNCHANGED db
           ELSE /\ dirs' = write.dirs
                /\ lastDir' = Max(new \cup {lastDir})
                /\ rows' = {[r EXCEPT !.file = write.file[@]] :
                              r \in {x \in rows \ write.del : x.dir \notin write.wipe}}
                           \cup write.add
        /\ IF scan[t].todo = <<>> THEN Goto(t, "idle") /\ UNCHANGED scan
           ELSE IF failed THEN Goto(t, "idle") /\ scan' = [scan EXCEPT ![t] = NoScan]
           ELSE Goto(t, "enters") /\ UNCHANGED scan
  /\ write' = Fail
  /\ EndTransaction
  /\ UNCHANGED <<copy, walker, edits, scans>>

Put(d, entry) == [x \in DOMAIN dirs \cup {d} |-> IF x = d THEN entry ELSE dirs[x]]

MakeDirectory(t, path) ==
  LET d == Resolve(Front(path))
  IN Begin(t, IF d = None \/ Taken(d, Last(path)) THEN Fail
              ELSE [Change EXCEPT !.dirs = Put(lastDir + 1, [parent |-> d, name |-> Last(path)])])

AddDirectory(t, path) == pc[t] = "idle" /\ MakeDirectory(t, path)

\* RemoveDirectoryContent(): the directories whose instruments go
Content_OneLevel(d, force) == IF force THEN {d} ELSE {}
Content(d, force) == IF force THEN Below(d) ELSE {}

RemoveDirectory(t, path, force) ==
  LET d == Resolve(path)
      gone == IF force THEN Below(d) ELSE {d}
  IN /\ pc[t] = "idle"
     /\ Begin(t, IF \/ d \in {None, Root}
                    \/ ~force /\ (Below(d) # {d} \/ \E r \in rows : r.dir = d)
                 THEN Fail
                 ELSE [Change EXCEPT !.dirs = [x \in DOMAIN dirs \ gone |-> dirs[x]],
                                     !.wipe = Content(d, force)])

RenameDirectory(t, path, n) ==
  LET d == Resolve(path)
  IN /\ pc[t] = "idle"
     /\ Begin(t, IF d \in {None, Root} \/ Taken(dirs[d].parent, n) THEN Fail
                 ELSE [Change EXCEPT !.dirs[d].name = n])

\* The checks of MoveDirectory() and CopyDirectory()
MayPlace_IntoItself(path, dst) ==
  LET d == Resolve(path)  to == Resolve(dst)
  IN d # None /\ to # None /\ d # to /\ ~Taken(to, Last(path))
MayPlace(path, dst) ==
  LET d == Resolve(path)  to == Resolve(dst)
  IN /\ d # None /\ to # None /\ d # to
     /\ ~IsStrictPrefix(path, dst)
     /\ ~Taken(to, Last(path))

MoveDirectory(t, path, dst) ==
  /\ pc[t] = "idle" /\ path # <<>>
  /\ Begin(t, IF MayPlace(path, dst)
              THEN [Change EXCEPT !.dirs[Resolve(path)].parent = Resolve(dst)]
              ELSE Fail)

\* CopyDirectory(): the DirectoryCopier adds a directory with its instruments
\* at a time, parents first
CopyDirectory(t, path, dst) ==
  LET from == Below(Resolve(path))
  IN /\ pc[t] = "idle" /\ path # <<>>
     /\ Lock(t)
     /\ inTrans' = TRUE
     /\ edits' = edits + 1
     /\ IF MayPlace(path, dst)
        THEN /\ copy' = [NoCopy EXCEPT !.from = from, !.to = Resolve(dst)]
             /\ Goto(t, "copies")
        ELSE Goto(t, "writes") /\ UNCHANGED copy
     /\ UNCHANGED <<db, write, scan, walker, scans>>

\* Its AddDirectory() ends the transaction, but the mutex stays locked
CopyNext(t) ==
  /\ pc[t] = "copies"
  /\ inTrans' = FALSE
  /\ \E d \in copy.from \ DOMAIN copy.done :
       LET parent == dirs[d].parent
           to == IF parent \in DOMAIN copy.done THEN copy.done[parent] ELSE copy.to
           id == lastDir + 1
           done == [x \in DOMAIN copy.done \cup {d} |-> IF x = d THEN id ELSE copy.done[x]]
       IN /\ parent \notin copy.from \ DOMAIN copy.done
          /\ IF Taken(to, dirs[d].name)
             THEN UNCHANGED db /\ copy' = NoCopy /\ Goto(t, "writes")
             ELSE /\ dirs' = Put(id, [parent |-> to, name |-> dirs[d].name])
                  /\ lastDir' = id
                  /\ rows' = rows \cup {[r EXCEPT !.dir = id] : r \in {x \in rows : x.dir = d}}
                  /\ IF DOMAIN done = copy.from THEN copy' = NoCopy /\ Goto(t, "writes")
                     ELSE copy' = [copy EXCEPT !.done = done] /\ UNCHANGED pc
  /\ UNCHANGED <<mutex, write, scan, walker, edits, scans>>

RemoveInstrument(t, path, n) ==
  /\ pc[t] = "idle"
  /\ Begin(t, IF RowsAt(Resolve(path), n) = {} THEN Fail
              ELSE [Change EXCEPT !.del = RowsAt(Resolve(path), n)])

RenameInstrument(t, path, n, m) ==
  LET d == Resolve(path)
      r == RowsAt(d, n)
  IN /\ pc[t] = "idle"
     /\ Begin(t, IF r = {} \/ Taken(d, m) THEN Fail
                 ELSE [Change EXCEPT !.del = r, !.add = {[x EXCEPT !.name = m] : x \in r}])

\* MoveInstrument() and CopyInstrument()
PlaceInstrument(t, path, n, dst, keep) ==
  LET r == RowsAt(Resolve(path), n)
      to == Resolve(dst)
  IN /\ pc[t] = "idle"
     /\ Begin(t, IF r = {} \/ to = None \/ to = Resolve(path) \/ Taken(to, n) THEN Fail
                 ELSE [Change EXCEPT !.del = IF keep THEN {} ELSE r,
                                     !.add = {[x EXCEPT !.dir = to] : x \in r}])

SetInstrumentFilePath(t, f, g) ==
  /\ pc[t] = "idle"
  /\ f # g
  /\ Begin(t, [Change EXCEPT !.file[f] = g])

\* Format() starts a new database, under the mutex but without a transaction.
\* The statement of a scan under way still belongs to the old one.
Format(t) ==
  /\ pc[t] = "idle"
  /\ Free(t)
  /\ dirs' = <<>> /\ rows' = {} /\ lastDir' = 0
  /\ scan' = [u \in Thread |-> [scan[u] EXCEPT !.old = scan[u].dir # None]]
  /\ edits' = edits + 1
  /\ UNCHANGED <<mutex, inTrans, pc, write, copy, walker, scans>>

Paths == UNION {[1..k -> Name] : k \in 0..Depth}
Edit(t) ==
  LET known == {p \in Paths : Resolve(p) # None}
      there == {<<p, r.name>> : p \in known, r \in rows}
  IN \/ \E p \in known, n \in Name : AddDirectory(t, Append(p, n)) \/ RenameDirectory(t, p, n)
     \/ \E p \in known, force \in BOOLEAN : RemoveDirectory(t, p, force)
     \/ \E p \in known \ {<<>>}, q \in known : MoveDirectory(t, p, q) \/ CopyDirectory(t, p, q)
     \/ \E i \in there : RemoveInstrument(t, i[1], i[2])
     \/ \E i \in there, n \in Name : RenameInstrument(t, i[1], i[2], n)
     \/ \E i \in there, q \in known, keep \in BOOLEAN : PlaceInstrument(t, i[1], i[2], q, keep)

-----------------------------------------------------------------------------
(* Scans *)

\* A scan of a file, of a directory, or of a directory tree; sub: with a
\* subdirectory of its own for each file
Request(path, walk, mk, sub, ix) ==
  [NoScan EXCEPT !.todo = [i \in DOMAIN walk |-> [path |-> path \o walk[i].sub,
                                                  files |-> walk[i].files]],
                 !.mk = mk, !.sub = sub, !.ix = ix]
FileScan(path, f, ix) == Request(path, <<[sub |-> <<>>, files |-> <<f>>]>>, FALSE, FALSE, ix)
DirectoryScan(path, sub) == Request(path, <<FsWalk[1]>>, FALSE, sub, None)
TreeScan(path, flat, sub) ==
  Request(path, [i \in DOMAIN FsWalk |->
                   IF flat THEN [FsWalk[i] EXCEPT !.sub = <<>>] ELSE FsWalk[i]],
          TRUE, sub, None)

\* A walk through a tree locks DirectoryWalkerMutex, as does the count of the
\* files in each of its directories; it is unlocked once for them all, so it
\* stays locked.
StartScan(t, request) ==
  /\ pc[t] = "idle"
  /\ t \in Scanners /\ scans < MaxScans
  /\ scans' = scans + 1
  /\ IF request.mk THEN walker \in {None, t} /\ walker' = t ELSE UNCHANGED walker
  /\ scan' = [scan EXCEPT ![t] = request]
  /\ Goto(t, IF request.mk THEN "looks" ELSE "enters")
  /\ UNCHANGED <<db, mutex, inTrans, write, copy, edits>>

\* DirectoryScanner::DirectoryEntry(): DirectoryExist(), and AddDirectory() if not
Look(t) ==
  /\ pc[t] = "looks"
  /\ Free(t)
  /\ Goto(t, IF Resolve(scan[t].todo[1].path) = None THEN "makes" ELSE "enters")
  /\ UNCHANGED <<db, mutex, inTrans, write, copy, scan, walker, edits, scans>>

Make(t) == pc[t] = "makes" /\ MakeDirectory(t, scan[t].todo[1].path)

\* AddInstrumentsNonrecursive(): an unknown directory ends the scan
Enter(t) ==
  /\ pc[t] = "enters"
  /\ IF Resolve(scan[t].todo[1].path) = None
     THEN /\ Free(t) /\ UNCHANGED mutex
          /\ Goto(t, "idle") /\ scan' = [scan EXCEPT ![t] = NoScan]
     ELSE /\ Lock(t)
          /\ Goto(t, "files") /\ scan' = [scan EXCEPT ![t].files = scan[t].todo[1].files]
  /\ UNCHANGED <<db, inTrans, write, copy, walker, edits, scans>>

\* End of AddInstrumentsNonrecursive(): the next directory of the tree, if any
Leave(t) ==
  /\ pc[t] = "files" /\ scan[t].files = <<>>
  /\ Unlock
  /\ IF Len(scan[t].todo) = 1
     THEN Goto(t, "idle") /\ scan' = [scan EXCEPT ![t] = NoScan]
     ELSE Goto(t, "looks") /\ scan' = [scan EXCEPT ![t].todo = Tail(@)]
  /\ UNCHANGED <<db, inTrans, write, copy, walker, edits, scans>>

\* AddInstrumentsFromFile() as far as the Unlock() of AddInstrumentsFromFilePriv(),
\* after PrepareSubdirectory(); an unknown directory skips the file
Open(t) ==
  /\ pc[t] = "files" /\ scan[t].files # <<>>
  /\ LET s == scan[t]
         d == Resolve(s.todo[1].path)
         n == UniqueName(d, BaseName[s.files[1]])
         bad == s.sub /\ (d = None \/ n[2] = None \/ Taken(d, n))
     IN \/ /\ bad  \* the exception leaves the loop of AddInstrumentsNonrecursive()
           /\ scan' = [scan EXCEPT ![t].files = <<>>]
           /\ UNCHANGED <<db, mutex, inTrans, pc>>
        \/ /\ ~bad /\ d = None
           /\ scan' = [scan EXCEPT ![t].files = Tail(@)]
           /\ UNCHANGED <<db, mutex, inTrans, pc>>
        \/ /\ ~bad /\ d # None
           /\ IF s.sub THEN /\ dirs' = Put(lastDir + 1, [parent |-> d, name |-> n])
                            /\ lastDir' = lastDir + 1 /\ UNCHANGED rows
                       ELSE UNCHANGED db
           /\ IF inTrans THEN UNCHANGED mutex ELSE Unlock
           /\ scan' = [scan EXCEPT ![t].dir = IF s.sub THEN lastDir + 1 ELSE d,
                                   ![t].nr = IF s.ix = None THEN 0 ELSE s.ix,
                                   ![t].unlocked = ~inTrans]
           /\ Goto(t, "reads") /\ UNCHANGED inTrans
  /\ UNCHANGED <<write, copy, walker, edits, scans>>

\* The file has been read, or cannot be.  Without the mutex, the scan looks
\* whether another thread is in a transaction (1280): if so it does not lock.
Read(t) ==
  /\ pc[t] = "reads"
  /\ \/ Goto(t, IF inTrans THEN "checks" ELSE "relocks")
     \/ Goto(t, "closes")
  /\ UNCHANGED <<db, mutex, inTrans, write, copy, scan, walker, edits, scans>>

Relock(t) ==
  /\ pc[t] = "relocks"
  /\ Lock(t)
  /\ Goto(t, "checks")
  /\ UNCHANGED <<db, inTrans, write, copy, scan, walker, edits, scans>>

\* One round of the loop: choose a name; nothing more if the instrument is known.
\* The first instrument is read from the file whatever Index says.
Known_InDirectory(t) == \E r \in rows : /\ r.file = Head(scan[t].files)
                                       /\ r.nr = scan[t].nr /\ r.dir = scan[t].dir
Known(t) == \E r \in rows : r.file = Head(scan[t].files) /\ r.nr = scan[t].nr
Current(t) == Contents[Head(scan[t].files)]
Check(t) ==
  /\ pc[t] = "checks"
  /\ LET s == scan[t]
         i == IF s.ix = None THEN s.nr + 1 ELSE 1
         next == IF s.ix = None THEN "checks" ELSE "closes"
     IN IF i > Len(Current(t)) THEN Goto(t, "closes") /\ UNCHANGED scan
        ELSE LET n == UniqueName(s.dir, Current(t)[i])
             IN IF n[2] = None THEN Goto(t, "closes") /\ UNCHANGED scan
                ELSE IF Known(t)
                THEN Goto(t, next) /\ scan' = [scan EXCEPT ![t].nr = @ + 1]
                ELSE Goto(t, "inserts") /\ scan' = [scan EXCEPT ![t].name = n]
  /\ UNCHANGED <<db, mutex, inTrans, write, copy, walker, edits, scans>>

Insert(t) ==
  /\ pc[t] = "inserts"
  /\ LET s == scan[t]
     IN IF ~s.old /\ RowsAt(s.dir, s.name) # {}
        THEN UNCHANGED rows /\ Goto(t, "closes") /\ UNCHANGED scan
        ELSE /\ rows' = IF s.old THEN rows
                        ELSE rows \cup {[dir |-> s.dir, name |-> s.name,
                                         file |-> Head(s.files), nr |-> s.nr]}
             /\ Goto(t, IF s.ix = None THEN "checks" ELSE "closes")
             /\ scan' = [scan EXCEPT ![t].nr = @ + 1]
  /\ UNCHANGED <<dirs, lastDir, mutex, inTrans, write, copy, walker, edits, scans>>

\* if (unlocked) Lock(), again
Close(t) ==
  /\ pc[t] = "closes"
  /\ IF scan[t].unlocked THEN Lock(t) ELSE UNCHANGED mutex
  /\ scan' = [scan EXCEPT ![t].files = Tail(@), ![t].dir = None, ![t].nr = 0,
                          ![t].name = <<>>, ![t].unlocked = FALSE, ![t].old = FALSE]
  /\ Goto(t, "files")
  /\ UNCHANGED <<db, inTrans, write, copy, walker, edits, scans>>
-----------------------------------------------------------------------------
Command(t) ==
  /\ t = Lscp /\ edits < MaxEdits /\ pc[t] = "idle" /\ Free(t)
  /\ Edit(t) \/ Format(t) \/ \E f, g \in File : SetInstrumentFilePath(t, f, g)

\* What a thread does without being asked
Run(t) == \/ Write(t) \/ CopyNext(t)
          \/ Look(t) \/ Make(t) \/ Enter(t) \/ Leave(t) \/ Open(t)
          \/ Read(t) \/ Relock(t) \/ Check(t) \/ Insert(t) \/ Close(t)

Next == \E t \in Thread : (\E r \in Requests : StartScan(t, r)) \/ Command(t) \/ Run(t)
Spec == Init /\ [][Next]_vars /\ \A t \in Thread : SF_vars(Run(t))
-----------------------------------------------------------------------------
(* Properties *)

\* Every directory leads up to the root: no command makes a directory its own
\* ancestor or leaves a subdirectory behind (MoveDirectory(), CopyDirectory(),
\* RemoveDirectory() and Format() against scans under way).
TreeSound == DOMAIN dirs \subseteq Below(Root)

\* InTransaction tells the truth: it is set only while a thread that edits
\* holds the mutex (nested transactions of CopyDirectory()), so that the
\* branch "Shouldn't be in transaction when adding instruments" (1277) is dead.
TransactionHoldsMutex ==
  /\ inTrans => \E t \in Thread : owner = t /\ pc[t] \in {"writes", "copies"}
  /\ \A t \in Thread : pc[t] = "files" => ~inTrans

\* A thread that does not scan has given the mutex up when its command is done
MutexGivenUp == \A t \in Thread \ Scanners : pc[t] = "idle" => owner # t

\* A scan has slipped in: it works, or has worked, without the mutex because it
\* met another thread's transaction
SlippedIn == \E t \in Thread : pc[t] \in {"checks", "inserts", "closes"} /\ owner # t

\* A directory goes with all the instruments in it (RemoveDirectory() and its
\* recursion), as long as no scan has slipped in
RemovedEmpty ==
  [][~SlippedIn => \A d \in DOMAIN dirs \ DOMAIN dirs', r \in rows' : r.dir # d]_vars

\* A scan that holds the mutex never adds an instrument of a file that is in
\* the database, although it let the mutex go since it started
ScannedOnce ==
  [][\A t \in Thread, r \in rows' \ rows, x \in rows :
       pc[t] = "inserts" /\ owner = t => <<r.file, r.nr>> # <<x.file, x.nr>>]_vars

\* A scan gets to its end, whatever commands are given meanwhile (if only one
\* thread scans)
ScanEnds == \A t \in Scanners : scan[t].todo # <<>> ~> scan[t].todo = <<>>

\* Between commands and scans of two threads the directories are a tree, a transaction
\* has the mutex, and a command gives it up.
DatabaseSound == TypeOK /\ TreeSound /\ TransactionHoldsMutex /\ MutexGivenUp

\* "Assume that it's locked and should be unlocked at this point to be able to
\* use the database from another threads" (1270)
ReadsUnlocked == \A t \in Thread : pc[t] = "reads" => owner # t
=============================================================================
