-------------------------------- MODULE Sweep --------------------------------
(***************************************************************************)
(* The sweep of internal/sweep/walk.go: Scan walks a tree, collects the     *)
(* candidate files, hands their indices over an unbuffered channel to a     *)
(* bounded pool of goroutines that read and parse them into slots, waits    *)
(* for the pool, collects the slots in order and sorts the findings.  The   *)
(* tree is shared with other processes: it may change at any moment.        *)
(*                                                                         *)
(* Data that the properties do not tell apart is abstract: a path is a node *)
(* of a fixed tree, a file's bytes are a member of Contents, what a read of  *)
(* it returns is a member of Texts, which holds mixtures of contents too,    *)
(* and Parse is what parse.File makes of it.                                *)
(***************************************************************************)
EXTENDS Integers, Sequences, FiniteSets

CONSTANTS
  Files, Dirs,      \* the paths that may hold a file, a directory
  Beneath,          \* Beneath[d]: every path below directory d
  WalkOrder,        \* the order in which WalkDir meets the paths
  PathOrder,        \* the byte order of the relative paths
  PruneNames,       \* the directories whose name is in defaultPrunes
  ExcludedPaths,    \* the paths for which Excluded is TRUE
  Contents, Bytes,  \* file contents and their lengths
  Texts,            \* what a read may return
  Mixed,            \* Mixed[c][d]: what it may return of a file rewritten from c to d
  Parse,            \* parse.File: the [line, format] pairs of a text
  MaxSize,          \* Options.MaxFileSize, after its default
  Roots, AllFlags, JobCounts,   \* values of Options.Root, All and Jobs
  Disks,            \* the trees a sweep may start on
  MaxChanges        \* bound on the changes others make during one sweep

Nodes   == Files \cup Dirs
Modes   == {"tight", "loose"}     \* what LoosePerms makes of the mode bits
Unreadable == "unreadable"        \* the outcome of a failing read

(* What lstat and a read see at a path.  A link has an lstat size and mode  *)
(* of its own, and a read of it yields the content of its target, or fails:  *)
(* the target may be missing, or a directory.                               *)
Gone     == [type |-> "gone", size |-> 0, mode |-> "tight", content |-> Unreadable]
Locked   == [type |-> "regular", size |-> 1, mode |-> "tight", content |-> Unreadable]
Regular(c, m) == [type |-> "regular", size |-> Bytes[c], mode |-> m, content |-> c]
Link(c)  == [type |-> "link", size |-> 1, mode |-> "loose", content |-> c]
Directory(c) == [type |-> "dir", size |-> 1, mode |-> "loose", content |-> c]

FileStates == {Gone, Locked} \cup {Regular(c, m) : c \in Contents, m \in Modes}
                             \cup {Link(c) : c \in Contents \cup {Unreadable}}
DirStates  == {Gone, Directory("entries"), Directory(Unreadable)}
StatesOf(n) == IF n \in Dirs THEN DirStates ELSE FileStates

Disk == {d \in [Nodes -> FileStates \cup DirStates] : \A n \in Nodes : d[n] \in StatesOf(n)}

(* Nothing below a directory that cannot be opened can be reached.          *)
View(d, n) == IF \E a \in Dirs : n \in Beneath[a] /\ d[a].content = Unreadable
                THEN Gone ELSE d[n]

Children(a) == {n \in Beneath[a] : ~ \E b \in Beneath[a] \cap Dirs : n \in Beneath[b]}

ASSUME TreeAssumption ==
  /\ Files \cap Dirs = {}
  /\ Beneath \in [Dirs -> SUBSET Nodes]
  /\ \A a, b \in Dirs : b \in Beneath[a] => Beneath[b] \subseteq Beneath[a] /\ a \notin Beneath[b]
  /\ \A a, b \in Dirs : Beneath[a] \cap Beneath[b] # {} =>
       a = b \/ a \in Beneath[b] \/ b \in Beneath[a]
  /\ WalkOrder \in [Nodes -> Nat] /\ PathOrder \in [Nodes -> Nat]
  /\ \A m, n \in Nodes : m # n => WalkOrder[m] # WalkOrder[n] /\ PathOrder[m] # PathOrder[n]
  /\ \A a \in Dirs : \A n \in Beneath[a] : WalkOrder[a] < WalkOrder[n]

ASSUME DataAssumption ==
  /\ Bytes \in [Contents -> Nat] /\ Unreadable \notin Texts /\ MaxSize \in Nat
  /\ Contents \subseteq Texts /\ Mixed \in [Contents -> [Contents -> SUBSET Texts]]
  /\ \A c \in Contents : Mixed[c][c] = {c}
  /\ \A c \in Texts : Parse[c] \in Seq([line : Nat, format : STRING])
  (* scanPEM reports increasing lines, every other parser one finding *)
  /\ \A c \in Texts : \A i, j \in DOMAIN Parse[c] : i < j => Parse[c][i].line < Parse[c][j].line

ASSUME OptionsAssumption ==
  /\ Roots \subseteq Nodes /\ AllFlags \subseteq BOOLEAN
  /\ JobCounts \subseteq Nat \ {0} /\ Disks \subseteq Disk /\ MaxChanges \in Nat

VARIABLES
  disk,        \* the tree, as others leave it
  seen,        \* history: everything a path has been since the sweep began
  changes,     \* history: how often the tree has changed
  options,     \* root, all, jobs
  pc,          \* where Scan is
  pending,     \* directory entries WalkDir has still to visit
  candidates,  \* files to read, with the mode the walk saw
  skipped,     \* unreadable entries and files over the size cap
  next,        \* index the send loop offers next; in the collect loop, its cursor
  worker,      \* the goroutines of parseAll
  slots,       \* one result per candidate
  findings, scanned, unreadable   \* what the collect loop has gathered

vars == <<disk, seen, changes, options, pc, pending, candidates, skipped,
          next, worker, slots, findings, scanned, unreadable>>
env  == <<disk, seen, changes, options>>
walk == <<pending, candidates, skipped>>
out  == <<findings, scanned, unreadable>>

NoSlot  == [read |-> FALSE, findings |-> <<>>]
Idle    == [at |-> "off", job |-> 0, content |-> Unreadable]
Pool    == UNION {1 .. j : j \in JobCounts}     \* every goroutine there may be

Init ==
  /\ disk \in Disks /\ changes = 0
  /\ seen = [n \in Nodes |-> {View(disk, n)}]
  /\ options \in [root : Roots, all : AllFlags, jobs : JobCounts]
  /\ pc = "lstat" /\ pending = {} /\ candidates = <<>> /\ skipped = 0
  /\ next = 1 /\ worker = [w \in Pool |-> Idle] /\ slots = <<>>
  /\ findings = <<>> /\ scanned = 0 /\ unreadable = 0

-----------------------------------------------------------------------------
(* The walk.                                                                *)

(* Scan fails when the root cannot be examined or is a file over the cap;   *)
(* any other root that is not a directory is the only candidate.            *)
LstatRoot ==
  LET root == options.root  info == View(disk, root)
      fails == info.type = "gone" \/ (info.type # "dir" /\ info.size > MaxSize) IN
  /\ pc = "lstat"
  /\ pc' = IF fails THEN "error" ELSE IF info.type = "dir" THEN "walkroot" ELSE "spawn"
  /\ candidates' = IF pc' = "spawn" THEN <<[path |-> root, mode |-> info.mode]>> ELSE <<>>
  /\ UNCHANGED <<env, pending, skipped, next, worker, slots, out>>

(* WalkDir examines the root again; the callback counts a failure.          *)
WalkRoot ==
  LET info == View(disk, options.root) IN
  /\ pc = "walkroot" /\ pc' = "walk"
  /\ IF info.type = "gone"
       THEN skipped' = skipped + 1 /\ UNCHANGED pending
       ELSE pending' = {[path |-> options.root, type |-> info.type]} /\ UNCHANGED skipped
  /\ UNCHANGED <<env, candidates, next, worker, slots, out>>

(* The entry WalkDir visits next. *)
Visiting(e) ==
  /\ pc = "walk" /\ e \in pending
  /\ \A f \in pending : WalkOrder[e.path] <= WalkOrder[f.path]

(* Mistakes: --all forgotten; the root itself pruned. *)
SkipsDespiteAll(p) == p # options.root /\ p \in ExcludedPaths \cup PruneNames
SkipsRoot(p) == p \in ExcludedPaths \/ (p \in PruneNames /\ ~options.all)
Skips(p) == p # options.root /\ (p \in ExcludedPaths \/ (p \in PruneNames /\ ~options.all))

(* The callback on a directory, then ReadDir: its entries carry the type    *)
(* they have at that moment.  A directory that cannot be listed is counted. *)
VisitDir(e) ==
  LET info == View(disk, e.path)
      entries == {[path |-> n, type |-> View(disk, n).type] : n \in Children(e.path)} IN
  /\ Visiting(e) /\ e.type = "dir"
  /\ IF Skips(e.path) \/ info.content = Unreadable
       THEN pending' = pending \ {e}
       ELSE pending' = (pending \ {e}) \cup {x \in entries : x.type # "gone"}
  /\ skipped' = IF ~Skips(e.path) /\ info.content = Unreadable THEN skipped + 1 ELSE skipped
  /\ UNCHANGED <<env, pc, candidates, next, worker, slots, out>>

(* The callback on anything else: Info is a fresh lstat, and its size and   *)
(* mode are those of that moment.                                           *)
VisitFile(e) ==
  LET info == View(disk, e.path)
      considered == e.type = "regular" /\ e.path \notin ExcludedPaths
      fits == info.type # "gone" /\ info.size <= MaxSize IN
  /\ Visiting(e) /\ e.type # "dir"
  /\ pending' = pending \ {e}
  /\ skipped' = IF considered /\ ~fits THEN skipped + 1 ELSE skipped
  /\ candidates' = IF considered /\ fits
                     THEN Append(candidates, [path |-> e.path, mode |-> info.mode])
                     ELSE candidates
  /\ UNCHANGED <<env, pc, next, worker, slots, out>>

WalkDone ==
  /\ pc = "walk" /\ pending = {} /\ pc' = "spawn"
  /\ UNCHANGED <<env, walk, next, worker, slots, out>>

-----------------------------------------------------------------------------
(* parseAll: the pool.                                                      *)

(* No more goroutines than candidates, except when there are none.          *)
Spawn ==
  LET n == Len(candidates)
      jobs == IF options.jobs > n /\ n > 0 THEN n ELSE options.jobs IN
  /\ pc = "spawn" /\ pc' = "send"
  /\ worker' = [w \in Pool |-> IF w <= jobs THEN [Idle EXCEPT !.at = "recv"] ELSE Idle]
  /\ slots' = [i \in 1 .. n |-> NoSlot]
  /\ UNCHANGED <<env, walk, next, out>>

(* work is unbuffered: a send and the receive that takes it are one step.   *)
Handoff(w) ==
  /\ pc = "send" /\ next <= Len(candidates) /\ worker[w].at = "recv"
  /\ worker' = [worker EXCEPT ![w] = [Idle EXCEPT !.at = "read", !.job = next]]
  /\ next' = next + 1
  /\ UNCHANGED <<env, pc, walk, slots, out>>

CloseWork ==
  /\ pc = "send" /\ next > Len(candidates) /\ pc' = "wait"
  /\ UNCHANGED <<env, walk, next, worker, slots, out>>

(* os.ReadFile opens the file, following links, and reads what the file has  *)
(* then and later: one that is replaced or removed meanwhile is still read,  *)
(* one that is rewritten in place may be read half before and half after.    *)
(* A file that cannot be opened leaves the slot as it is, and the goroutine   *)
(* takes the next index.                                                    *)
(* Mistake: opening it is tried again. *)
AfterOpenRetry(g, content) ==
  IF content = Unreadable THEN g ELSE [g EXCEPT !.at = "rest", !.content = content]
AfterOpen(g, content) ==
  IF content = Unreadable THEN [Idle EXCEPT !.at = "recv"]
                          ELSE [g EXCEPT !.at = "rest", !.content = content]

FileOf(w) == View(disk, candidates[worker[w].job].path)

OpenFile(w) ==
  /\ worker[w].at = "read"
  /\ worker' = [worker EXCEPT ![w] = AfterOpen(@, FileOf(w).content)]
  /\ UNCHANGED <<env, pc, walk, next, slots, out>>

TextsOf(content, now) == {content} \cup IF now \in Contents THEN Mixed[content][now] ELSE {}

ReadRest(w) ==
  /\ worker[w].at = "rest"
  /\ \E text \in TextsOf(worker[w].content, FileOf(w).content) :
       worker' = [worker EXCEPT ![w] = [@ EXCEPT !.at = "store", !.content = text]]
  /\ UNCHANGED <<env, pc, walk, next, slots, out>>

(* parse.File on what was read, stamped with what the walk saw.             *)
(* Mistake: the mode is not stamped. *)
StampPathOnly(c, content) ==
  [j \in 1 .. Len(Parse[content]) |->
     [path |-> c.path, mode |-> "",
      line |-> Parse[content][j].line, format |-> Parse[content][j].format]]
Stamp(c, content) ==
  [j \in 1 .. Len(Parse[content]) |->
     [path |-> c.path, mode |-> c.mode,
      line |-> Parse[content][j].line, format |-> Parse[content][j].format]]

(* The goroutine's own i. Mistake: the i of the send loop, shared by all. *)
SharedIndex(w) == next - 1
Index(w) == worker[w].job

StoreSlot(w) ==
  LET i == Index(w) IN
  /\ worker[w].at = "store"
  /\ slots' = [slots EXCEPT ![i] = [read |-> TRUE,
                                    findings |-> Stamp(candidates[i], worker[w].content)]]
  /\ worker' = [worker EXCEPT ![w] = [Idle EXCEPT !.at = "recv"]]
  /\ UNCHANGED <<env, pc, walk, next, out>>

WorkerExit(w) ==
  /\ pc = "wait" /\ worker[w].at = "recv"
  /\ worker' = [worker EXCEPT ![w] = Idle]
  /\ UNCHANGED <<env, pc, walk, next, slots, out>>

(* wg.Wait returns once every goroutine is done.                            *)
(* Mistake: wg.Add counts one goroutine only. *)
OneDone == \E w \in Pool : worker[w].at = "off"
AllDone == \A w \in Pool : worker[w].at = "off"

WaitDone ==
  /\ pc = "wait" /\ AllDone
  /\ pc' = "collect" /\ next' = 1
  /\ UNCHANGED <<env, walk, worker, slots, out>>

(* Mistake: a file without findings is taken for one that was not read. *)
CountsEmptyToo(slot) == slot.read /\ slot.findings # <<>>
CountsAsScanned(slot) == slot.read

(* One turn of the collect loop. *)
Collect ==
  /\ pc = "collect" /\ next <= Len(slots) /\ next' = next + 1
  /\ findings' = findings \o slots[next].findings
  /\ IF CountsAsScanned(slots[next])
       THEN scanned' = scanned + 1 /\ UNCHANGED unreadable
       ELSE unreadable' = unreadable + 1 /\ UNCHANGED scanned
  /\ UNCHANGED <<env, pc, walk, worker, slots>>

(* The less function of finding.Sort, over ranks of paths and of formats. *)
FormatOrder(f) == CASE f = "certificate" -> 1 [] f = "key" -> 2 [] OTHER -> 3
(* Mistake: the path alone. *)
LessByPath(f, g) == PathOrder[f.path] < PathOrder[g.path]
Less(f, g) ==
  IF f.path # g.path THEN PathOrder[f.path] < PathOrder[g.path]
  ELSE IF f.line # g.line THEN f.line < g.line
  ELSE FormatOrder(f.format) < FormatOrder(g.format)

Orders(S) == {p \in [S -> S] : \A i \in S : \E j \in S : p[j] = i}

(* sort.Slice is not stable: elements that compare equal end in any order.  *)
Sort ==
  /\ pc = "collect" /\ next > Len(slots) /\ pc' = "done"
  /\ \E p \in Orders(DOMAIN findings) :
       /\ \A i, j \in DOMAIN findings : i < j => ~Less(findings[p[j]], findings[p[i]])
       /\ findings' = [i \in DOMAIN findings |-> findings[p[i]]]
  /\ UNCHANGED <<env, walk, next, worker, slots, scanned, unreadable>>

-----------------------------------------------------------------------------
(* Another process changes the tree.  Before the first lstat that is another *)
(* initial tree, and after the pool is done nothing reads it again.          *)
Touch ==
  /\ changes < MaxChanges /\ changes' = changes + 1
  /\ pc \in {"walkroot", "walk", "spawn", "send", "wait"}
  /\ \E n \in Nodes : \E s \in StatesOf(n) \ {disk[n]} : disk' = [disk EXCEPT ![n] = s]
  /\ seen' = [n \in Nodes |-> seen[n] \cup {View(disk', n)}]
  /\ UNCHANGED <<options, pc, walk, next, worker, slots, out>>

Returned == pc \in {"done", "error"}
Terminated == Returned /\ UNCHANGED vars     \* the process has nothing left to do

MainStep ==
  \/ LstatRoot \/ WalkRoot \/ (\E e \in pending : VisitDir(e) \/ VisitFile(e)) \/ WalkDone
  \/ Spawn \/ CloseWork \/ WaitDone \/ Collect \/ Sort
WorkerStep(w) == Handoff(w) \/ OpenFile(w) \/ ReadRest(w) \/ StoreSlot(w) \/ WorkerExit(w)

Next == MainStep \/ (\E w \in Pool : WorkerStep(w)) \/ Touch \/ Terminated

Spec == Init /\ [][Next]_vars

(* The Go scheduler runs every goroutine that can run; others may change the *)
(* tree or leave it.                                                         *)
Fairness == WF_vars(MainStep) /\ \A w \in Pool : WF_vars(WorkerStep(w))
FairSpec == Spec /\ Fairness

-----------------------------------------------------------------------------
Formats   == UNION {{Parse[c][j].format : j \in DOMAIN Parse[c]} : c \in Texts}
Finding   == [path : Nodes, mode : Modes, line : Nat, format : Formats]
Candidate == [path : Files, mode : Modes]
Types     == {"gone", "regular", "link", "dir"}

Slot      == [read : BOOLEAN, findings : Seq(Finding)]
Goroutine == [at : {"off", "recv", "read", "rest", "store"}, job : Nat,
              content : Texts \cup {Unreadable}]

(* Every variable holds what its Go counterpart can hold; no path that is a  *)
(* directory ever becomes a candidate.                                       *)
EnvType  == /\ disk \in Disk /\ seen \in [Nodes -> SUBSET (FileStates \cup DirStates)]
            /\ changes \in 0 .. MaxChanges
            /\ options \in [root : Roots, all : AllFlags, jobs : JobCounts]
WalkType == /\ pending \subseteq [path : Nodes, type : Types]
            /\ \A e \in pending : e.type = "regular" => e.path \in Files
            /\ \A e \in pending : e.type = "dir" => e.path \in Dirs
            /\ candidates \in Seq(Candidate) /\ skipped \in Nat
PoolType == next \in Nat \ {0} /\ worker \in [Pool -> Goroutine] /\ slots \in Seq(Slot)
OutType  == findings \in Seq(Finding) /\ scanned \in Nat /\ unreadable \in Nat
Steps    == {"lstat", "walkroot", "walk", "spawn", "send", "wait", "collect", "done", "error"}
TypeOK   == EnvType /\ WalkType /\ PoolType /\ OutType /\ pc \in Steps

Busy(w) == worker[w].at \in {"read", "rest", "store"}

(* slots is written without a lock: it is safe only because an index is      *)
(* handed to one goroutine, once, so that no two goroutines ever hold the    *)
(* same slot and no slot is written again after it was filled; and because   *)
(* no goroutine is left when the collect loop reads (walk.go:168, 176).      *)
DataRaceFree ==
  /\ \A v, w \in Pool : v # w /\ Busy(v) /\ Busy(w) => worker[v].job # worker[w].job
  /\ \A w \in Pool : Busy(w) => ~slots[worker[w].job].read
  /\ pc \in {"collect", "done"} => \A w \in Pool : worker[w].at = "off"

(* What holds at each stage of Scan: before the pool starts nothing is       *)
(* handed out or gathered; while it runs, every index below next and no other *)
(* has been handed out, and one that a goroutine holds has an empty slot;     *)
(* after Wait the counters say what the slots below the cursor hold.          *)
ReadSlots(n) == {i \in 1 .. n : slots[i].read}
BeforePool ==
  /\ next = 1 /\ slots = <<>> /\ findings = <<>> /\ scanned = 0 /\ unreadable = 0
  /\ \A w \in Pool : ~Busy(w)
PoolRuns ==
  /\ Len(slots) = Len(candidates) /\ next <= Len(candidates) + 1
  /\ findings = <<>> /\ scanned = 0 /\ unreadable = 0
  /\ pc = "wait" => next = Len(candidates) + 1
  /\ \A w \in Pool : Busy(w) => worker[w].job \in 1 .. next - 1
  /\ \A w \in Pool : /\ worker[w].at = "rest" => worker[w].content \in Contents
                     /\ worker[w].at = "store" => worker[w].content \in Texts
  /\ \A i \in DOMAIN slots : slots[i].read => i < next
AfterPool ==
  /\ Len(slots) = Len(candidates) /\ next <= Len(candidates) + 1
  /\ scanned = Cardinality(ReadSlots(next - 1)) /\ scanned + unreadable = next - 1
  /\ pc = "done" => next = Len(candidates) + 1
StageInv ==
  /\ pc \in {"lstat", "walkroot", "walk", "spawn", "error"} => BeforePool
  /\ pc \in {"send", "wait"} => PoolRuns
  /\ pc \in {"collect", "done"} => AfterPool

(* Every candidate is accounted for exactly once, however the goroutines     *)
(* interleave: as scanned when it was read, whether or not it held anything, *)
(* and as unreadable otherwise (walk.go:178-185).                            *)
Accounting ==
  pc = "done" =>
    /\ scanned + unreadable = Len(candidates)
    /\ scanned = Cardinality(ReadSlots(Len(candidates)))

(* The report is in strictly increasing order, so it names no (path, line)   *)
(* twice and equal trees give equal reports although sort.Slice is unstable. *)
StrictOrder ==
  pc = "done" => \A i, j \in DOMAIN findings : i < j => Less(findings[i], findings[j])

(* A path the sweep is meant to consider: the root, or a path below it that  *)
(* is not excluded and has no excluded or pruned directory above it.         *)
Hides(a) == a \in ExcludedPaths \cup (IF options.all THEN {} ELSE PruneNames)
InScope(n) ==
  \/ n = options.root
  \/ /\ n \in Beneath[options.root] /\ n \notin ExcludedPaths
     /\ \A a \in Dirs : n \in Beneath[a] /\ a \in Beneath[options.root] => ~Hides(a)
Eligible(n, s) ==
  /\ s.size <= MaxSize /\ s.type \notin {"gone", "dir"}
  /\ n # options.root => s.type = "regular"

Reported(n)  == {f \in {findings[i] : i \in DOMAIN findings} : f.path = n}
Stamped(n, mode, content) ==
  {[path |-> n, mode |-> mode, line |-> p.line, format |-> p.format] :
      p \in {Parse[content][j] : j \in DOMAIN Parse[content]}}

InScopeFiles == {n \in Files : (options.root \in Dirs \/ n = options.root) /\ InScope(n)}

(* Whatever happens elsewhere in the tree, a file that stays as it was for   *)
(* the whole sweep is reported exactly as it is: all of its findings when it *)
(* is eligible and readable, nothing otherwise.                              *)
StableFilesExact ==
  pc = "done" => \A n \in InScopeFiles : \A s \in seen[n] : seen[n] = {s} =>
    Reported(n) = IF Eligible(n, s) /\ s.content # Unreadable
                    THEN Stamped(n, s.mode, s.content) ELSE {}

(* Nothing is invented: each finding was in the file at some moment of the   *)
(* sweep, or in what a read makes of two contents the file had, has the      *)
(* permissions the file had at some moment, and is of a path in scope.       *)
NoPhantoms ==
  pc = "done" => \A i \in DOMAIN findings : LET f == findings[i] IN
    /\ f.path \in InScopeFiles
    /\ \E s, t, u \in seen[f.path] :
         /\ t.content \in Contents /\ u.content \in Contents
         /\ \E text \in Mixed[t.content][u.content] : f \in Stamped(f.path, s.mode, text)

(* On a tree nobody changes, the two counters a report ends with say exactly *)
(* what was left out: regular files in scope that are too large or cannot be *)
(* read, and directories in scope that cannot be listed.                     *)
CountsExact ==
  pc = "done" /\ changes = 0 =>
    LET at(n) == View(disk, n)
        files == {n \in InScopeFiles : at(n).type = "regular" \/ (n = options.root /\ Eligible(n, at(n)))}
        read  == {n \in files : at(n).size <= MaxSize /\ at(n).content # Unreadable}
        shut  == {a \in Dirs : /\ options.root \in Dirs /\ InScope(a) /\ (a = options.root \/ ~Hides(a))
                                /\ at(a).type = "dir" /\ at(a).content = Unreadable} IN
    /\ scanned = Cardinality(read)
    /\ skipped + unreadable = Cardinality(files \ read) + Cardinality(shut)

(* A slot that was filled keeps its value, and once the goroutines run the   *)
(* slice of candidates they index without a lock never moves under them.     *)
FrozenWhileShared ==
  [][/\ pc \in {"send", "wait", "collect"} => UNCHANGED candidates
     /\ \A i \in DOMAIN slots : slots[i].read => slots'[i] = slots[i]]_vars

(* Scan returns: no hand-off waits for a goroutine that is gone, no          *)
(* goroutine waits on a channel nobody closes (walk.go:172-176).             *)
Returns == <>Returned

-----------------------------------------------------------------------------
(* What the comments and the documentation say of the walk.                  *)

(* walk.go:59, "Symlinks are never followed": no finding is of a path that   *)
(* was a symbolic link for the whole sweep.                                  *)
SymlinksNeverFollowed ==
  pc = "done" => \A i \in DOMAIN findings : \E s \in seen[findings[i].path] : s.type # "link"
=============================================================================
