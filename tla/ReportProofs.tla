----------------------------- MODULE ReportProofs -----------------------------
(***************************************************************************)
(* What a report holds, for every tree and every interleaving: no finding    *)
(* was invented, and all are in one strict order; and every file that stays   *)
(* as it was is reported exactly.  SweepProofs says which goroutine may touch *)
(* which slot; RInv adds what is in the slots, the candidates and the entries *)
(* WalkDir has still to visit, SInv that none of them is missed, and CInv     *)
(* what the walk has left out so far on a tree nobody changes.               *)
(***************************************************************************)
EXTENDS SweepProofs, WellFoundedInduction

(* A path that no hidden directory stands above. *)
Reached(n) ==
  n = options.root \/
  (/\ n \in Beneath[options.root]
   /\ \A a \in Dirs : n \in Beneath[a] /\ a \in Beneath[options.root] => ~Hides(a))

(* seen has what is there now. *)
SeenNow == \A n \in Nodes : View(disk, n) \in seen[n]

(* Entries are pending during the walk only, and are reached. *)
WalkScope ==
  /\ pc # "walk" => pending = {}
  /\ pc \in {"walkroot", "walk"} => options.root \in Dirs
  /\ pc \in {"lstat", "walkroot", "error"} => candidates = <<>>
  /\ \A e \in pending : Reached(e.path)

(* No path is met twice: what is pending is not below anything pending.      *)
Apart(m, n) == m # n /\ (n \in Dirs => m \notin Beneath[n])
Unnested ==
  /\ \A e, f \in pending : e # f => Apart(e.path, f.path)
  /\ \A i \in 1 .. Len(candidates) : \A e \in pending : Apart(candidates[i].path, e.path)
  /\ \A i, j \in 1 .. Len(candidates) : i # j => candidates[i].path # candidates[j].path

(* A candidate is in scope, with a mode it had.                              *)
FromTree(c) == c.path \in InScopeFiles /\ \E s \in seen[c.path] : s.mode = c.mode
CandidatesFromTree == \A i \in 1 .. Len(candidates) : FromTree(candidates[i])

(* What a goroutine found on opening a file, the file had; what it read, and  *)
(* what was parsed into a slot, is made of two contents the file had.        *)
Opened(n, c) == c \in Contents /\ \E t \in seen[n] : t.content = c
Had(n, text) ==
  /\ text \in Texts
  /\ \E t, u \in seen[n] : /\ t.content \in Contents /\ u.content \in Contents
                           /\ text \in Mixed[t.content][u.content]
HeldSeen == \A w \in Pool :
  /\ worker[w].at = "rest" => Opened(candidates[worker[w].job].path, worker[w].content)
  /\ worker[w].at = "store" => Had(candidates[worker[w].job].path, worker[w].content)
SlotsSeen == \A i \in 1 .. Len(slots) :
  /\ slots[i].read => \E c \in Texts : /\ Had(candidates[i].path, c)
                                       /\ slots[i].findings = Stamp(candidates[i], c)
  /\ ~slots[i].read => slots[i].findings = <<>>

(* The findings gathered are those of the slots below the cursor, each once. *)
InSlot(f, i) == \E k \in 1 .. Len(slots[i].findings) : slots[i].findings[k] = f
Gathered == pc \in {"collect", "done"} =>
  /\ \A j \in 1 .. Len(findings) : \E i \in 1 .. next - 1 : InSlot(findings[j], i)
  /\ \A i \in 1 .. next - 1 : \A k \in 1 .. Len(slots[i].findings) :
       \E j \in 1 .. Len(findings) : findings[j] = slots[i].findings[k]
  /\ \A i, j \in 1 .. Len(findings) : i # j =>
       findings[i].path # findings[j].path \/ findings[i].line # findings[j].line

RInv == SeenNow /\ WalkScope /\ Unnested /\ CandidatesFromTree /\ HeldSeen /\ SlotsSeen /\ Gathered
Inv  == IInv /\ RInv

-----------------------------------------------------------------------------
LEMMA InitReport == Init => RInv
<1> SUFFICES ASSUME Init PROVE RInv
  OBVIOUS
<1>1. SeenNow
  BY DEF Init, SeenNow
<1>2. WalkScope /\ Unnested /\ CandidatesFromTree
  BY DEF Init, WalkScope, Unnested, CandidatesFromTree
<1>3. HeldSeen /\ SlotsSeen /\ Gathered
  BY DEF Init, HeldSeen, SlotsSeen, Gathered, Idle
<1> QED BY <1>1, <1>2, <1>3 DEF RInv

(* What depends on the options and the history alone. *)
LEMMA Steady ==
  ASSUME UNCHANGED <<options, seen>>
  PROVE  /\ \A n : Reached(n)' <=> Reached(n)
         /\ InScopeFiles' = InScopeFiles
         /\ \A c : FromTree(c)' <=> FromTree(c)
         /\ \A n, c : Had(n, c)' <=> Had(n, c)
         /\ \A n, c : Opened(n, c)' <=> Opened(n, c)
<1>1. \A n : Reached(n)' <=> Reached(n)
  BY DEF Reached, Hides
<1>2. InScopeFiles' = InScopeFiles
  BY DEF InScopeFiles, InScope, Hides
<1> QED BY <1>1, <1>2 DEF FromTree, Had, Opened

(* Before the pool runs its part is trivial. *)
LEMMA EarlyReport ==
  ASSUME IInv, pc \in Early, pc' \in Early, UNCHANGED <<next, worker, slots, out>>
  PROVE  HeldSeen' /\ SlotsSeen' /\ Gathered'
<1>1. BeforePool /\ PoolType
  BY DEF IInv, TypeOK, StageInv, Early
<1>2. \A w \in Pool : worker'[w].at \notin {"rest", "store"}
  BY <1>1 DEF BeforePool, Busy
<1>3. Len(slots') = 0
  BY <1>1 DEF BeforePool
<1> QED BY <1>2, <1>3 DEF HeldSeen, SlotsSeen, Gathered, Early

LEMMA LstatReport == ASSUME Inv, LstatRoot PROVE RInv'
<1> DEFINE info == View(disk, options.root)
           only == [path |-> options.root, mode |-> info.mode]
<1>1. options.root \in Nodes /\ disk \in Disk
  BY OptionsAssumption DEF Inv, IInv, TypeOK, EnvType
<1>2. /\ UNCHANGED <<options, seen, disk, pending, next, worker, slots, out>> /\ pending = {}
      /\ pc = "lstat" /\ pc' \in {"error", "walkroot", "spawn"}
  BY DEF LstatRoot, env, Inv, RInv, WalkScope
<1>3. HeldSeen' /\ SlotsSeen' /\ Gathered'
  BY <1>2, EarlyReport DEF Early, Inv
<1>4. SeenNow'
  BY <1>2 DEF SeenNow, Inv, RInv
<1>5. CASE pc' = "spawn"
  <2>1. info.type \notin {"gone", "dir"} /\ candidates' = <<only>>
    BY <1>5 DEF LstatRoot
  <2>2. options.root \in Files
    BY <1>1, <2>1, StateFields
  <2>3. options.root \in InScopeFiles
    BY <2>2 DEF InScopeFiles, InScope
  <2>4. info \in seen[options.root]
    BY <1>1 DEF Inv, RInv, SeenNow
  <2>5. FromTree(only)
    BY <2>3, <2>4 DEF FromTree
  <2> HIDE DEF only, info
  <2>6. Len(candidates') = 1 /\ candidates'[1] = only
    BY <2>1
  <2>7. CandidatesFromTree'
    BY <1>2, <2>5, <2>6, Steady DEF CandidatesFromTree
  <2>8. WalkScope' /\ Unnested'
    BY <1>2, <1>5, <2>6 DEF WalkScope, Unnested
  <2> QED BY <1>3, <1>4, <2>7, <2>8 DEF RInv
<1>6. CASE pc' # "spawn"
  <2>1. candidates' = <<>> /\ (pc' = "walkroot" => options.root \in Dirs)
    BY <1>1, <1>6, StateFields DEF LstatRoot
  <2>2. WalkScope' /\ Unnested' /\ CandidatesFromTree'
    BY <1>2, <1>6, <2>1 DEF WalkScope, Unnested, CandidatesFromTree
  <2> QED BY <1>3, <1>4, <2>2 DEF RInv
<1> QED BY <1>5, <1>6

LEMMA WalkRootReport == ASSUME Inv, WalkRoot PROVE RInv'
<1> DEFINE entry == [path |-> options.root, type |-> View(disk, options.root).type]
<1>1. /\ UNCHANGED <<options, seen, disk, candidates, next, worker, slots, out>>
      /\ pc = "walkroot" /\ pc' = "walk" /\ candidates = <<>> /\ options.root \in Dirs
  BY DEF WalkRoot, env, Inv, RInv, WalkScope
<1>2. HeldSeen' /\ SlotsSeen' /\ Gathered'
  BY <1>1, EarlyReport DEF Early, Inv
<1>3. SeenNow'
  BY <1>1 DEF SeenNow, Inv, RInv
<1>4. pending' = {} \/ pending' = {entry}
  BY DEF WalkRoot, Inv, RInv, WalkScope
<1>5. entry.path = options.root
  OBVIOUS
<1> HIDE DEF entry
<1>6. WalkScope' /\ Unnested' /\ CandidatesFromTree'
  BY <1>1, <1>4, <1>5 DEF WalkScope, Unnested, CandidatesFromTree, Reached
<1> QED BY <1>2, <1>3, <1>6 DEF RInv

(* A directory's entries are no more nested than it was. *)
LEMMA ChildrenApart ==
  ASSUME NEW d \in Dirs, NEW x \in Children(d), NEW m \in Nodes, Apart(m, d), Apart(d, m)
  PROVE  Apart(m, x) /\ Apart(x, m)
<1>1. x \in Beneath[d] /\ (x \in Dirs => Beneath[x] \subseteq Beneath[d])
  BY TreeAssumption DEF Children
<1>2. m # x /\ (x \in Dirs => m \notin Beneath[x])
  BY <1>1 DEF Apart
<1>3. ASSUME m \in Dirs, x \in Beneath[m] PROVE FALSE
  BY <1>1, <1>3, TreeAssumption DEF Apart
<1> QED BY <1>2, <1>3 DEF Apart

LEMMA SiblingsApart ==
  ASSUME NEW d \in Dirs, NEW x \in Children(d), NEW y \in Children(d), x # y
  PROVE  Apart(x, y)
BY TreeAssumption DEF Children, Apart

(* And nothing hidden stands above them if nothing did above it.             *)
LEMMA ChildrenReached ==
  ASSUME NEW d \in Dirs, NEW x \in Children(d), options.root \in Dirs, Reached(d), ~Skips(d)
  PROVE  Reached(x)
<1>1. x \in Beneath[d]
  BY DEF Children
<1>2. x \in Beneath[options.root]
  BY <1>1, TreeAssumption DEF Reached
<1>3. ASSUME NEW a \in Dirs, x \in Beneath[a], a \in Beneath[options.root] PROVE ~Hides(a)
  <2>1. a = d \/ a \in Beneath[d] \/ d \in Beneath[a]
    BY <1>1, <1>3, TreeAssumption
  <2>2. a \notin Beneath[d]
    BY <1>3 DEF Children
  <2>3. CASE a = d
    <3>1. d # options.root
      BY <1>3, <2>3, TreeAssumption
    <3> QED BY <2>3, <3>1 DEF Skips, Hides
  <2>4. CASE d \in Beneath[a]
    <3>1. d # options.root
      BY <1>3, <2>4, TreeAssumption
    <3> QED BY <1>3, <2>4, <3>1 DEF Reached
  <2> QED BY <2>1, <2>2, <2>3, <2>4
<1> QED BY <1>2, <1>3 DEF Reached

LEMMA VisitDirReport == ASSUME Inv, NEW e \in pending, VisitDir(e) PROVE RInv'
<1> DEFINE d == e.path
           entries == {[path |-> n, type |-> View(disk, n).type] : n \in Children(d)}
<1>1. /\ UNCHANGED <<options, seen, disk, pc, candidates, next, worker, slots, out>>
      /\ pc = "walk" /\ options.root \in Dirs /\ d \in Dirs /\ Reached(d)
  BY DEF VisitDir, Visiting, env, Inv, RInv, WalkScope, IInv, TypeOK, WalkType
<1>2. HeldSeen' /\ SlotsSeen' /\ Gathered'
  BY <1>1, EarlyReport DEF Early, Inv
<1>3. SeenNow' /\ CandidatesFromTree'
  BY <1>1, Steady DEF SeenNow, CandidatesFromTree, Inv, RInv
<1>4. \/ pending' = pending \ {e}
      \/ ~Skips(d) /\ pending' \subseteq (pending \ {e}) \cup entries
  BY DEF VisitDir
<1>5. /\ \A x \in entries : x.path \in Children(d) /\ x.path \in Nodes
      /\ \A x, y \in entries : x # y => x.path # y.path
  BY <1>1, TreeAssumption DEF Children
<1> HIDE DEF entries
<1>6. \A f \in pending : f.path \in Nodes
  BY DEF Inv, IInv, TypeOK, WalkType
<1>7. \A i \in 1 .. Len(candidates) : candidates[i].path \in Nodes /\ candidates[i].path \notin Dirs
  <2>1. \A i \in 1 .. Len(candidates) : candidates[i] \in Candidate
    BY ElementOfSeq, LenProperties DEF Inv, IInv, TypeOK, WalkType
  <2> QED BY <2>1, TreeAssumption DEF Candidate, Nodes
<1>8. \A f, g \in pending : f # g => Apart(f.path, g.path)
  BY DEF Inv, RInv, Unnested
<1>9. \A i \in 1 .. Len(candidates) : \A f \in pending : Apart(candidates[i].path, f.path)
  BY DEF Inv, RInv, Unnested
<1>10. WalkScope'
  <2>1. ASSUME NEW f \in pending' PROVE Reached(f.path)
    <3>1. CASE f \in pending
      BY <3>1 DEF Inv, RInv, WalkScope
    <3>2. CASE f \notin pending
      BY <1>1, <1>4, <1>5, <3>2, ChildrenReached
    <3> QED BY <3>1, <3>2
  <2> QED BY <1>1, <2>1, Steady DEF WalkScope
<1>11. ASSUME NEW f \in pending', NEW g \in pending', f # g PROVE Apart(f.path, g.path)
  <2>1. /\ f \in pending \ {e} \/ f \in entries
        /\ g \in pending \ {e} \/ g \in entries
    BY <1>4
  <2>2. CASE f \in pending \ {e} /\ g \in pending \ {e}
    BY <1>8, <1>11, <2>2
  <2>3. CASE f \in pending \ {e} /\ g \in entries
    BY <1>1, <1>5, <1>6, <1>8, <2>3, ChildrenApart
  <2>4. CASE f \in entries /\ g \in pending \ {e}
    BY <1>1, <1>5, <1>6, <1>8, <2>4, ChildrenApart
  <2>5. CASE f \in entries /\ g \in entries
    BY <1>1, <1>5, <1>11, <2>5, SiblingsApart
  <2> QED BY <2>1, <2>2, <2>3, <2>4, <2>5
<1>12. ASSUME NEW i \in 1 .. Len(candidates), NEW f \in pending' PROVE Apart(candidates[i].path, f.path)
  <2>1. CASE f \in pending
    BY <1>9, <2>1
  <2>2. CASE f \in entries
    <3>1. Apart(candidates[i].path, d) /\ Apart(d, candidates[i].path)
      <4>1. Apart(candidates[i].path, d)
        BY <1>9
      <4> QED BY <1>7, <4>1 DEF Apart
    <3> QED BY <1>1, <1>5, <1>7, <2>2, <3>1, ChildrenApart
  <2> QED BY <1>4, <2>1, <2>2
<1>13. Unnested'
  <2>1. \A i, j \in 1 .. Len(candidates) : i # j => candidates[i].path # candidates[j].path
    BY DEF Inv, RInv, Unnested
  <2> QED BY <1>1, <1>11, <1>12, <2>1 DEF Unnested
<1> QED BY <1>2, <1>3, <1>10, <1>13 DEF RInv

(* A file that is reached, below the root and not excluded is in scope. *)
LEMMA ReachedInScope ==
  ASSUME NEW n \in Files, options.root \in Dirs, Reached(n), n \notin ExcludedPaths
  PROVE  n \in InScopeFiles
BY TreeAssumption DEF Reached, InScopeFiles, InScope

LEMMA VisitFileReport == ASSUME Inv, NEW e \in pending, VisitFile(e) PROVE RInv'
<1> DEFINE info == View(disk, e.path)
           c == [path |-> e.path, mode |-> info.mode]
<1>1. /\ UNCHANGED <<options, seen, disk, pc, next, worker, slots, out>>
      /\ pc = "walk" /\ options.root \in Dirs /\ pending' = pending \ {e} /\ Reached(e.path)
  BY DEF VisitFile, Visiting, env, Inv, RInv, WalkScope
<1>2. HeldSeen' /\ SlotsSeen' /\ Gathered'
  BY <1>1, EarlyReport DEF Early, Inv
<1>3. SeenNow' /\ WalkScope'
  BY <1>1, Steady DEF SeenNow, WalkScope, Inv, RInv
<1>4. CASE candidates' = candidates
  BY <1>1, <1>2, <1>3, <1>4, Steady DEF Unnested, CandidatesFromTree, Inv, RInv
<1>5. CASE candidates' # candidates
  <2>1. e.type = "regular" /\ e.path \notin ExcludedPaths /\ candidates' = Append(candidates, c)
    BY <1>5 DEF VisitFile
  <2>2. e.path \in Files /\ e.path \in Nodes /\ disk \in Disk /\ candidates \in Seq(Candidate)
    BY <2>1 DEF Inv, IInv, TypeOK, WalkType, EnvType, Nodes
  <2>3. FromTree(c) /\ c \in Candidate /\ c.path = e.path
    <3>1. info \in seen[e.path] /\ info.mode \in Modes
      BY <2>2, StateFields DEF Inv, RInv, SeenNow
    <3> QED BY <1>1, <2>1, <2>2, <3>1, ReachedInScope DEF FromTree, Candidate
  <2> HIDE DEF c, info
  <2>4. /\ Len(candidates) \in Nat /\ Len(candidates') = Len(candidates) + 1
        /\ \A i \in 1 .. Len(candidates) : candidates'[i] = candidates[i]
        /\ candidates'[Len(candidates) + 1] = c
    BY <2>1, <2>2, <2>3, AppendProperties, LenProperties
  <2>5. CandidatesFromTree'
    <3>1. \A i \in 1 .. Len(candidates') : FromTree(candidates'[i])
      BY <2>3, <2>4 DEF CandidatesFromTree, Inv, RInv
    <3> QED BY <1>1, <3>1, Steady DEF CandidatesFromTree
  <2>6. Unnested'
    <3>1. \A f \in pending' : Apart(e.path, f.path)
      BY <1>1 DEF Unnested, Inv, RInv
    <3>2. \A i \in 1 .. Len(candidates) : candidates[i].path # e.path
      BY DEF Unnested, Apart, Inv, RInv
    <3>3. \A f, g \in pending' : f # g => Apart(f.path, g.path)
      BY <1>1 DEF Unnested, Inv, RInv
    <3>4. \A i \in 1 .. Len(candidates') : \A f \in pending' : Apart(candidates'[i].path, f.path)
      BY <1>1, <2>3, <2>4, <3>1 DEF Unnested, Inv, RInv
    <3>5. \A i, j \in 1 .. Len(candidates') : i # j => candidates'[i].path # candidates'[j].path
      BY <2>3, <2>4, <3>2 DEF Unnested, Inv, RInv
    <3> QED BY <3>3, <3>4, <3>5 DEF Unnested
  <2> QED BY <1>2, <1>3, <2>5, <2>6 DEF RInv
<1> QED BY <1>4, <1>5

LEMMA WalkDoneReport == ASSUME Inv, WalkDone PROVE RInv'
<1>1. /\ UNCHANGED <<options, seen, disk, pending, candidates, next, worker, slots, out>>
      /\ pc = "walk" /\ pc' = "spawn" /\ pending = {}
  BY DEF WalkDone, env, walk
<1>2. HeldSeen' /\ SlotsSeen' /\ Gathered'
  BY <1>1, EarlyReport DEF Early, Inv
<1>3. SeenNow' /\ WalkScope' /\ Unnested' /\ CandidatesFromTree'
  BY <1>1, Steady DEF SeenNow, WalkScope, Unnested, CandidatesFromTree, Inv, RInv
<1> QED BY <1>2, <1>3 DEF RInv

-----------------------------------------------------------------------------
(* What the walk leaves stays as it is while the pool runs. *)
LEMMA WalkSettled ==
  ASSUME Inv, UNCHANGED <<options, seen, disk, pending, candidates>>,
         pc \in {"spawn", "send", "wait", "collect", "done"},
         pc' \in {"send", "wait", "collect", "done"}
  PROVE  SeenNow' /\ WalkScope' /\ Unnested' /\ CandidatesFromTree'
BY Steady DEF SeenNow, WalkScope, Unnested, CandidatesFromTree, Inv, RInv

LEMMA SpawnReport == ASSUME Inv, Spawn PROVE RInv'
<1>1. SeenNow' /\ WalkScope' /\ Unnested' /\ CandidatesFromTree'
  BY WalkSettled DEF Spawn, env, walk
<1>2. \A w \in Pool : worker'[w].at \notin {"rest", "store"}
  BY DEF Spawn, Idle
<1>3. Len(candidates) \in Nat
  BY LenProperties DEF Inv, IInv, TypeOK, WalkType
<1>4. slots' = [i \in 1 .. Len(candidates) |-> NoSlot] /\ Len(slots') = Len(candidates)
  BY <1>3 DEF Spawn
<1>5. HeldSeen' /\ SlotsSeen' /\ Gathered'
  BY <1>2, <1>4 DEF Spawn, HeldSeen, SlotsSeen, Gathered, NoSlot
<1> QED BY <1>1, <1>5 DEF RInv

(* Steps of the pool that fill no slot and put nothing new into a goroutine. *)
LEMMA PoolReport ==
  ASSUME Inv, UNCHANGED <<options, seen, disk, pending, candidates, slots, out>>,
         pc \in {"send", "wait"}, pc' \in {"send", "wait"},
         \A w \in Pool : worker'[w].at \in {"rest", "store"} => worker'[w] = worker[w]
  PROVE  RInv'
<1>1. SeenNow' /\ WalkScope' /\ Unnested' /\ CandidatesFromTree'
  BY WalkSettled
<1>2. HeldSeen'
  BY Steady DEF HeldSeen, Inv, RInv
<1>3. SlotsSeen' /\ Gathered'
  BY Steady DEF SlotsSeen, Gathered, Inv, RInv
<1> QED BY <1>1, <1>2, <1>3 DEF RInv

LEMMA HandoffReport == ASSUME Inv, NEW w \in Pool, Handoff(w) PROVE RInv'
<1>1. worker \in [Pool -> Goroutine]
  BY DEF Inv, IInv, TypeOK, PoolType
<1>2. \A v \in Pool : worker'[v].at \in {"rest", "store"} => worker'[v] = worker[v]
  BY <1>1 DEF Handoff, Idle
<1> QED BY <1>2, PoolReport DEF Handoff, env, walk

LEMMA CloseReport == ASSUME Inv, CloseWork PROVE RInv'
BY PoolReport DEF CloseWork, env, walk

LEMMA WorkerExitReport == ASSUME Inv, NEW w \in Pool, WorkerExit(w) PROVE RInv'
<1>1. worker \in [Pool -> Goroutine]
  BY DEF Inv, IInv, TypeOK, PoolType
<1>2. \A v \in Pool : worker'[v].at \in {"rest", "store"} => worker'[v] = worker[v]
  BY <1>1 DEF WorkerExit, Idle
<1> QED BY <1>2, PoolReport DEF WorkerExit, env, walk

(* A step of a goroutine that reads keeps to what the file had.              *)
LEMMA ReadStepReport ==
  ASSUME Inv, NEW w \in Pool, NEW g \in Goroutine, worker[w].at \in {"read", "rest"},
         worker' = [worker EXCEPT ![w] = g], UNCHANGED <<env, pc, walk, next, slots, out>>,
         g.at \in {"rest", "store"} => g.job = worker[w].job,
         g.at = "rest" => Opened(candidates[worker[w].job].path, g.content),
         g.at = "store" => Had(candidates[worker[w].job].path, g.content)
  PROVE  RInv'
<1>1. worker \in [Pool -> Goroutine] /\ Busy(w)
  BY DEF Inv, IInv, TypeOK, PoolType, Busy
<1>2. pc \in {"send", "wait"}
  BY <1>1 DEF Inv, IInv, TypeOK, Steps, StageInv, BeforePool, DataRaceFree, Busy
<1>3. UNCHANGED <<options, seen, disk, pc, pending, candidates, slots, out>>
  BY DEF env, walk
<1>4. worker'[w] = g /\ \A v \in Pool \ {w} : worker'[v] = worker[v]
  BY <1>1
<1>5. ASSUME NEW v \in Pool
      PROVE  /\ worker'[v].at = "rest" => Opened(candidates[worker'[v].job].path, worker'[v].content)
             /\ worker'[v].at = "store" => Had(candidates[worker'[v].job].path, worker'[v].content)
  <2>1. CASE v = w
    BY <1>4, <2>1
  <2>2. CASE v # w
    BY <1>4, <2>2 DEF HeldSeen, Inv, RInv
  <2> QED BY <2>1, <2>2
<1>6. HeldSeen'
  BY <1>3, <1>5, Steady DEF HeldSeen
<1>7. SeenNow' /\ WalkScope' /\ Unnested' /\ CandidatesFromTree'
  BY <1>2, <1>3, WalkSettled
<1>8. SlotsSeen' /\ Gathered'
  BY <1>2, <1>3, Steady DEF SlotsSeen, Gathered, Inv, RInv
<1> QED BY <1>6, <1>7, <1>8 DEF RInv

(* What a goroutine finds on opening a file is there, and so seen.           *)
LEMMA OpenedNow ==
  ASSUME Inv, NEW w \in Pool, Busy(w), FileOf(w).content # Unreadable
  PROVE  Opened(candidates[worker[w].job].path, FileOf(w).content)
<1>1. candidates[worker[w].job].path \in Nodes /\ FileOf(w).content \in Contents \cup {Unreadable}
  BY FileAt DEF Inv, Nodes
<1>2. FileOf(w) \in seen[candidates[worker[w].job].path]
  BY <1>1 DEF FileOf, Inv, RInv, SeenNow
<1> QED BY <1>1, <1>2 DEF Opened

LEMMA OpenFileReport == ASSUME Inv, NEW w \in Pool, OpenFile(w) PROVE RInv'
<1> DEFINE content == FileOf(w).content
           g == AfterOpen(worker[w], content)
<1>1. worker[w] \in Goroutine /\ worker[w].at = "read" /\ Busy(w)
  BY DEF Inv, IInv, TypeOK, PoolType, OpenFile, Busy
<1>2. worker' = [worker EXCEPT ![w] = g] /\ UNCHANGED <<env, pc, walk, next, slots, out>>
  BY DEF OpenFile
<1>3. /\ content # Unreadable => Opened(candidates[worker[w].job].path, content)
      /\ content \in Texts \cup {Unreadable}
  BY <1>1, OpenedNow, FileAt, DataAssumption DEF Inv
<1> HIDE DEF content
<1>4. /\ g \in Goroutine /\ g.at \in {"recv", "rest"} /\ (g.at = "rest" => g.job = worker[w].job)
      /\ g.at = "rest" => Opened(candidates[worker[w].job].path, g.content)
  BY <1>1, <1>3 DEF AfterOpen, Idle, Goroutine
<1> HIDE DEF g
<1> QED BY <1>1, <1>2, <1>4, ReadStepReport

LEMMA ReadRestReport == ASSUME Inv, NEW w \in Pool, ReadRest(w) PROVE RInv'
<1> DEFINE path == candidates[worker[w].job].path
           c == worker[w].content
           now == FileOf(w).content
<1>1. worker[w] \in Goroutine /\ worker[w].at = "rest" /\ Busy(w)
  BY DEF Inv, IInv, TypeOK, PoolType, ReadRest, Busy
<1>2. c \in Contents /\ \E t \in seen[path] : t.content = c
  BY <1>1 DEF Inv, RInv, HeldSeen, Opened
<1>3. now \in Contents \cup {Unreadable}
  BY <1>1, FileAt DEF Inv
<1>4. now \in Contents => \E u \in seen[path] : u.content = now
  <2>1. now \in Contents => now # Unreadable
    BY DataAssumption
  <2> QED BY <1>1, <2>1, OpenedNow DEF Opened
<1>5. PICK text \in TextsOf(c, now) :
        worker' = [worker EXCEPT ![w] = [@ EXCEPT !.at = "store", !.content = text]]
  BY DEF ReadRest
<1> HIDE DEF c, now
<1>6. text \in Texts /\ (text = c \/ (now \in Contents /\ text \in Mixed[c][now]))
  BY <1>2, <1>3, ReadTexts
<1>7. Had(path, text)
  <2>1. CASE text = c
    <3>1. text \in Mixed[c][c]
      BY <1>2, <2>1, DataAssumption
    <3> QED BY <1>2, <1>6, <3>1 DEF Had
  <2>2. CASE now \in Contents /\ text \in Mixed[c][now]
    BY <1>2, <1>4, <1>6, <2>2 DEF Had
  <2> QED BY <1>6, <2>1, <2>2
<1> DEFINE g == [worker[w] EXCEPT !.at = "store", !.content = text]
<1>8. g \in Goroutine /\ g.at = "store" /\ g.job = worker[w].job /\ g.content = text
  BY <1>1, <1>6 DEF Goroutine
<1>9. worker' = [worker EXCEPT ![w] = g] /\ UNCHANGED <<env, pc, walk, next, slots, out>>
  BY <1>5 DEF ReadRest
<1> HIDE DEF g
<1> QED BY <1>1, <1>7, <1>8, <1>9, ReadStepReport

LEMMA StoreSlotReport == ASSUME Inv, NEW w \in Pool, StoreSlot(w) PROVE RInv'
<1> DEFINE i == worker[w].job
           value == [read |-> TRUE, findings |-> Stamp(candidates[i], worker[w].content)]
<1>1. worker \in [Pool -> Goroutine] /\ worker[w].at = "store" /\ Busy(w)
  BY DEF Inv, IInv, TypeOK, PoolType, StoreSlot, Busy
<1>2. pc \in {"send", "wait"} /\ PoolRuns
  BY <1>1 DEF Inv, IInv, TypeOK, Steps, StageInv, BeforePool, DataRaceFree, Busy
<1>3. UNCHANGED <<options, seen, disk, pc, pending, candidates, out>>
  BY DEF StoreSlot, env, walk
<1>4. \A v \in Pool : worker'[v].at \in {"rest", "store"} => worker'[v] = worker[v]
  BY <1>1 DEF StoreSlot, Idle
<1>5. Had(candidates[i].path, worker[w].content) /\ worker[w].content \in Texts
  BY <1>1 DEF Inv, RInv, HeldSeen, Had
<1>6. slots' = [slots EXCEPT ![i] = value]
  BY DEF StoreSlot, Index
<1>7. value.read /\ value.findings = Stamp(candidates[i], worker[w].content)
  OBVIOUS
<1> HIDE DEF value
<1>8. slots \in Seq(Slot) /\ Len(slots) \in Nat /\ DOMAIN slots = 1 .. Len(slots)
  BY LenProperties DEF Inv, IInv, TypeOK, PoolType
<1>9. Len(slots') = Len(slots) /\ \A j \in 1 .. Len(slots) :
        slots'[j] = IF j = i THEN value ELSE slots[j]
  BY <1>6, <1>8
<1>10. SlotsSeen'
  <2> SUFFICES ASSUME NEW j \in 1 .. Len(slots)
               PROVE  /\ slots'[j].read => \E c \in Texts : /\ Had(candidates[j].path, c)
                                              /\ slots'[j].findings = Stamp(candidates[j], c)
                      /\ ~slots'[j].read => slots'[j].findings = <<>>
    BY <1>3, <1>9, Steady DEF SlotsSeen
  <2>1. CASE j = i
    BY <1>5, <1>7, <1>9, <2>1
  <2>2. CASE j # i
    BY <1>9, <2>2 DEF SlotsSeen, Inv, RInv
  <2> QED BY <2>1, <2>2
<1>11. HeldSeen' /\ Gathered'
  BY <1>2, <1>3, <1>4, Steady DEF HeldSeen, Gathered, Inv, RInv
<1>12. SeenNow' /\ WalkScope' /\ Unnested' /\ CandidatesFromTree'
  BY <1>2, <1>3, WalkSettled
<1> QED BY <1>10, <1>11, <1>12 DEF RInv

LEMMA WaitReport == ASSUME Inv, WaitDone PROVE RInv'
<1>1. /\ UNCHANGED <<options, seen, disk, pending, candidates, slots, worker, out>>
      /\ pc = "wait" /\ pc' = "collect" /\ next' = 1
  BY DEF WaitDone, env, walk
<1>2. SeenNow' /\ WalkScope' /\ Unnested' /\ CandidatesFromTree'
  BY <1>1, WalkSettled
<1>3. findings' = <<>>
  BY <1>1 DEF Inv, IInv, StageInv, PoolRuns, out
<1>4. HeldSeen' /\ SlotsSeen' /\ Gathered'
  BY <1>1, <1>3, Steady DEF HeldSeen, SlotsSeen, Gathered, Inv, RInv
<1> QED BY <1>2, <1>4 DEF RInv

(* The findings of one file have distinct lines, and its path.               *)
LEMMA StampLines ==
  ASSUME NEW c \in Candidate, NEW content \in Texts
  PROVE  /\ \A k \in 1 .. Len(Stamp(c, content)) : Stamp(c, content)[k].path = c.path
         /\ \A k, m \in 1 .. Len(Stamp(c, content)) :
              k # m => Stamp(c, content)[k].line # Stamp(c, content)[m].line
<1> DEFINE P == Parse[content]
           F == Stamp(c, content)
<1>1. P \in Seq([line : Nat, format : STRING]) /\ DOMAIN P = 1 .. Len(P) /\ Len(P) \in Nat
  BY DataAssumption, LenProperties
<1>2. \A k, m \in 1 .. Len(P) : P[k].line \in Nat /\ (k < m => P[k].line < P[m].line)
  <2>1. \A k \in 1 .. Len(P) : P[k] \in [line : Nat, format : STRING]
    BY <1>1, ElementOfSeq
  <2>2. \A k, m \in 1 .. Len(P) : k < m => P[k].line < P[m].line
    BY <1>1, DataAssumption
  <2> QED BY <2>1, <2>2
<1>3. Len(F) = Len(P) /\ \A k \in 1 .. Len(P) : F[k].path = c.path /\ F[k].line = P[k].line
  BY <1>1 DEF Stamp
<1> HIDE DEF P, F
<1>4. \A k, m \in 1 .. Len(F) : k # m => F[k].line # F[m].line
  BY <1>1, <1>2, <1>3
<1> QED BY <1>3, <1>4 DEF F

(* What a slot holds comes from its candidate. *)
LEMMA SlotFindings ==
  ASSUME Inv, pc \in {"collect", "done"}, NEW i \in 1 .. Len(slots)
  PROVE  /\ i \in 1 .. Len(candidates) /\ candidates[i] \in Candidate
         /\ slots[i].findings \in Seq(Finding) /\ Len(slots[i].findings) \in Nat
         /\ \A k \in 1 .. Len(slots[i].findings) : slots[i].findings[k].path = candidates[i].path
         /\ \A k, m \in 1 .. Len(slots[i].findings) :
              k # m => slots[i].findings[k].line # slots[i].findings[m].line
<1>1. Len(slots) = Len(candidates) /\ candidates \in Seq(Candidate) /\ slots \in Seq(Slot)
  BY DEF Inv, IInv, TypeOK, WalkType, PoolType, StageInv, AfterPool
<1>2. i \in 1 .. Len(candidates) /\ candidates[i] \in Candidate /\ slots[i] \in Slot
  BY <1>1, ElementOfSeq
<1>3. slots[i].findings \in Seq(Finding) /\ Len(slots[i].findings) \in Nat
  BY <1>2, LenProperties DEF Slot
<1>4. CASE slots[i].read
  <2>1. PICK c \in Texts : slots[i].findings = Stamp(candidates[i], c)
    BY <1>4 DEF Inv, RInv, SlotsSeen
  <2> QED BY <1>2, <1>3, <2>1, StampLines
<1>5. CASE ~slots[i].read
  <2>1. slots[i].findings = <<>>
    BY <1>5 DEF Inv, RInv, SlotsSeen
  <2> QED BY <1>2, <1>3, <2>1
<1> QED BY <1>4, <1>5

LEMMA CollectReport == ASSUME Inv, Collect PROVE RInv'
<1> DEFINE fs == slots[next].findings
           n == Len(findings)
<1>1. /\ UNCHANGED <<options, seen, disk, pending, candidates, slots, worker, pc>>
      /\ pc = "collect" /\ next' = next + 1 /\ findings' = findings \o fs
  BY DEF Collect, env, walk
<1>2. /\ findings \in Seq(Finding) /\ next \in 1 .. Len(slots) /\ n \in Nat
  BY LenProperties DEF Collect, Inv, IInv, TypeOK, OutType, PoolType
<1>3. /\ fs \in Seq(Finding) /\ Len(fs) \in Nat
      /\ \A k, m \in 1 .. Len(fs) : k # m => fs[k].line # fs[m].line
      /\ \A k \in 1 .. Len(fs) : fs[k].path = candidates[next].path
  BY <1>1, <1>2, SlotFindings
<1>4. /\ \A j \in 1 .. n : \E i \in 1 .. next - 1 : InSlot(findings[j], i)
      /\ \A i \in 1 .. next - 1 : \A k \in 1 .. Len(slots[i].findings) :
           \E j \in 1 .. n : findings[j] = slots[i].findings[k]
      /\ \A i, j \in 1 .. n : i # j =>
           findings[i].path # findings[j].path \/ findings[i].line # findings[j].line
  BY <1>1 DEF Inv, RInv, Gathered
<1>5. \A i \in 1 .. next - 1 : candidates[i].path # candidates[next].path
  <2>1. Len(slots) = Len(candidates)
    BY <1>1 DEF Inv, IInv, StageInv, AfterPool
  <2> QED BY <1>2, <2>1 DEF Inv, RInv, Unnested
<1>6. \A j \in 1 .. n : findings[j].path # candidates[next].path
  <2> SUFFICES ASSUME NEW j \in 1 .. n PROVE findings[j].path # candidates[next].path
    OBVIOUS
  <2>1. PICK i \in 1 .. next - 1 : InSlot(findings[j], i)
    BY <1>4
  <2>2. i \in 1 .. Len(slots) /\ findings[j].path = candidates[i].path
    BY <1>1, <1>2, <2>1, SlotFindings DEF InSlot
  <2> QED BY <1>5, <2>1, <2>2
<1> HIDE DEF fs
<1>7. /\ Len(findings') = n + Len(fs)
      /\ \A j \in 1 .. n : findings'[j] = findings[j]
      /\ \A k \in 1 .. Len(fs) : findings'[n + k] = fs[k]
      /\ \A j \in n + 1 .. Len(findings') : j - n \in 1 .. Len(fs) /\ findings'[j] = fs[j - n]
  BY <1>1, <1>2, <1>3, ConcatProperties
<1> HIDE DEF n
<1>8. ASSUME NEW j \in 1 .. Len(findings') PROVE \E i \in 1 .. next : InSlot(findings'[j], i)
  <2>1. CASE j <= n
    BY <1>2, <1>4, <1>7, <2>1
  <2>2. CASE j > n
    <3>1. j - n \in 1 .. Len(fs) /\ findings'[j] = fs[j - n]
      BY <1>2, <1>7, <2>2
    <3>2. InSlot(findings'[j], next)
      BY <3>1 DEF InSlot, fs
    <3> QED BY <1>2, <3>2
  <2> QED BY <1>2, <2>1, <2>2
<1>9. ASSUME NEW i \in 1 .. next, NEW k \in 1 .. Len(slots[i].findings)
      PROVE  \E j \in 1 .. Len(findings') : findings'[j] = slots[i].findings[k]
  <2>1. CASE i = next
    <3>1. k \in 1 .. Len(fs) /\ slots[i].findings[k] = fs[k]
      BY <2>1 DEF fs
    <3> QED BY <1>2, <1>3, <1>7, <3>1
  <2>2. CASE i # next
    <3>1. i \in 1 .. next - 1
      BY <1>2, <2>2
    <3>2. PICK j \in 1 .. n : findings[j] = slots[i].findings[k]
      BY <1>4, <3>1
    <3> QED BY <1>2, <1>3, <1>7, <3>2
  <2> QED BY <2>1, <2>2
<1>10. ASSUME NEW i \in 1 .. Len(findings'), NEW j \in 1 .. Len(findings'), i # j
       PROVE  findings'[i].path # findings'[j].path \/ findings'[i].line # findings'[j].line
  <2>1. CASE i <= n /\ j <= n
    <3>1. i \in 1 .. n /\ j \in 1 .. n
      BY <1>2, <2>1
    <3>2. findings'[i] = findings[i] /\ findings'[j] = findings[j]
      BY <1>7, <3>1
    <3> QED BY <1>4, <1>10, <3>1, <3>2
  <2>2. CASE i <= n /\ j > n
    <3>1. i \in 1 .. n /\ j \in n + 1 .. Len(findings')
      BY <1>2, <1>3, <1>7, <2>2
    <3>2. findings'[i] = findings[i] /\ findings'[j].path = candidates[next].path
      BY <1>3, <1>7, <3>1
    <3> QED BY <1>6, <3>1, <3>2
  <2>3. CASE i > n /\ j <= n
    <3>1. j \in 1 .. n /\ i \in n + 1 .. Len(findings')
      BY <1>2, <1>3, <1>7, <2>3
    <3>2. findings'[j] = findings[j] /\ findings'[i].path = candidates[next].path
      BY <1>3, <1>7, <3>1
    <3> QED BY <1>6, <3>1, <3>2
  <2>4. CASE i > n /\ j > n
    <3>1. i \in n + 1 .. Len(findings') /\ j \in n + 1 .. Len(findings')
      BY <1>2, <1>3, <1>7, <2>4
    <3>2. /\ findings'[i] = fs[i - n] /\ findings'[j] = fs[j - n] /\ i - n # j - n
          /\ i - n \in 1 .. Len(fs) /\ j - n \in 1 .. Len(fs)
      BY <1>2, <1>7, <1>10, <3>1
    <3> QED BY <1>3, <3>2
  <2>5. n \in Int /\ i \in Int /\ j \in Int
    BY <1>2
  <2> QED BY <2>1, <2>2, <2>3, <2>4, <2>5
<1>11. Gathered'
  <2>1. next' - 1 = next
    BY <1>1, <1>2
  <2>2. \A j \in 1 .. Len(findings') : \E i \in 1 .. next' - 1 :
          \E k \in 1 .. Len(slots'[i].findings) : slots'[i].findings[k] = findings'[j]
    BY <1>1, <1>8, <2>1 DEF InSlot
  <2>3. \A i \in 1 .. next' - 1 : \A k \in 1 .. Len(slots'[i].findings) :
          \E j \in 1 .. Len(findings') : findings'[j] = slots'[i].findings[k]
    BY <1>1, <1>9, <2>1
  <2>4. \A i, j \in 1 .. Len(findings') : i # j =>
          findings'[i].path # findings'[j].path \/ findings'[i].line # findings'[j].line
    BY <1>10
  <2> QED BY <2>2, <2>3, <2>4 DEF Gathered, InSlot
<1>12. SeenNow' /\ WalkScope' /\ Unnested' /\ CandidatesFromTree'
  BY <1>1, WalkSettled
<1>13. HeldSeen' /\ SlotsSeen'
  BY <1>1, Steady DEF HeldSeen, SlotsSeen, Inv, RInv
<1> QED BY <1>11, <1>12, <1>13 DEF RInv

(* A sort permutes: of a finite sequence no element is lost or doubled.      *)
LEMMA SortPermutes ==
  ASSUME NEW n \in Nat, NEW p \in Orders(1 .. n)
  PROVE  /\ \A i \in 1 .. n : p[i] \in 1 .. n
         /\ \A i, j \in 1 .. n : i # j => p[i] # p[j]
         /\ \A i \in 1 .. n : \E j \in 1 .. n : p[j] = i
<1>1. p \in Surjection(1 .. n, 1 .. n)
  BY DEF Orders, Surjection
<1>2. IsFiniteSet(1 .. n)
  BY FS_Interval
<1>3. p \in Injection(1 .. n, 1 .. n)
  BY <1>1, <1>2, FS_SurjSameCardinalityImpliesInj
<1> QED BY <1>1, <1>3 DEF Injection, IsInjective, Surjection

LEMMA SortReport == ASSUME Inv, Sort PROVE RInv'
<1>1. /\ UNCHANGED <<options, seen, disk, pending, candidates, slots, worker, next>>
      /\ pc = "collect" /\ pc' = "done"
  BY DEF Sort, env, walk
<1>2. Len(findings) \in Nat /\ DOMAIN findings = 1 .. Len(findings)
  BY LenProperties DEF Inv, IInv, TypeOK, OutType
<1>3. PICK p \in Orders(1 .. Len(findings)) :
        findings' = [i \in 1 .. Len(findings) |-> findings[p[i]]]
  BY <1>2 DEF Sort
<1>4. Len(findings') = Len(findings)
  BY <1>2, <1>3
<1>5. Gathered'
  <2>1. /\ \A j \in 1 .. Len(findings) : \E i \in 1 .. next - 1 : InSlot(findings[j], i)
        /\ \A i \in 1 .. next - 1 : \A k \in 1 .. Len(slots[i].findings) :
             \E j \in 1 .. Len(findings) : findings[j] = slots[i].findings[k]
        /\ \A i, j \in 1 .. Len(findings) : i # j =>
             findings[i].path # findings[j].path \/ findings[i].line # findings[j].line
    BY <1>1 DEF Gathered, Inv, RInv
  <2>2. /\ \A i \in 1 .. Len(findings) : p[i] \in 1 .. Len(findings)
        /\ \A i, j \in 1 .. Len(findings) : i # j => p[i] # p[j]
        /\ \A i \in 1 .. Len(findings) : \E j \in 1 .. Len(findings) : p[j] = i
    BY <1>2, SortPermutes
  <2>3. \A j \in 1 .. Len(findings) : findings'[j] = findings[p[j]]
    BY <1>3
  <2>4. \A f, i : InSlot(f, i)' <=> InSlot(f, i)
    BY <1>1 DEF InSlot
  <2>5. \A j \in 1 .. Len(findings) : \E i \in 1 .. next - 1 : InSlot(findings'[j], i)
    BY <2>1, <2>2, <2>3
  <2>6. ASSUME NEW i \in 1 .. next - 1, NEW k \in 1 .. Len(slots[i].findings)
        PROVE  \E j \in 1 .. Len(findings) : findings'[j] = slots[i].findings[k]
    <3>1. PICK m \in 1 .. Len(findings) : findings[m] = slots[i].findings[k]
      BY <2>1
    <3>2. PICK j \in 1 .. Len(findings) : p[j] = m
      BY <2>2
    <3> QED BY <2>3, <3>1, <3>2
  <2>7. ASSUME NEW i \in 1 .. Len(findings), NEW j \in 1 .. Len(findings), i # j
        PROVE  findings'[i].path # findings'[j].path \/ findings'[i].line # findings'[j].line
    <3>1. p[i] \in 1 .. Len(findings) /\ p[j] \in 1 .. Len(findings) /\ p[i] # p[j]
      BY <2>2, <2>7
    <3>2. findings'[i] = findings[p[i]] /\ findings'[j] = findings[p[j]]
      BY <2>3
    <3> QED BY <2>1, <3>1, <3>2
  <2> QED BY <1>1, <1>4, <2>4, <2>5, <2>6, <2>7 DEF Gathered
<1>6. SeenNow' /\ WalkScope' /\ Unnested' /\ CandidatesFromTree'
  BY <1>1, WalkSettled
<1>7. HeldSeen' /\ SlotsSeen'
  BY <1>1, Steady DEF HeldSeen, SlotsSeen, Inv, RInv
<1> QED BY <1>5, <1>6, <1>7 DEF RInv

(* Others add to the history and to nothing else. *)
LEMMA TouchReport == ASSUME Inv, Touch PROVE RInv'
<1>1. /\ UNCHANGED <<options, pc, pending, candidates, next, worker, slots, findings>>
      /\ seen' = [n \in Nodes |-> seen[n] \cup {View(disk', n)}]
      /\ pc \in {"walkroot", "walk", "spawn", "send", "wait"}
  BY DEF Touch, walk, out
<1>2. SeenNow'
  BY <1>1 DEF SeenNow
<1>3. \A n \in Nodes : seen[n] \subseteq seen'[n]
  BY <1>1
<1>4. InScopeFiles' = InScopeFiles /\ InScopeFiles \subseteq Nodes
  BY <1>1 DEF InScopeFiles, InScope, Hides, Nodes
<1>5. CandidatesFromTree'
  BY <1>1, <1>3, <1>4 DEF CandidatesFromTree, FromTree, Inv, RInv
<1>6. WalkScope' /\ Unnested'
  BY <1>1 DEF WalkScope, Unnested, Reached, Hides, Inv, RInv
<1>7. ASSUME NEW i \in 1 .. Len(candidates), NEW c
      PROVE  /\ Had(candidates[i].path, c) => Had(candidates[i].path, c)'
             /\ Opened(candidates[i].path, c) => Opened(candidates[i].path, c)'
  <2>1. candidates[i].path \in Nodes
    BY <1>4 DEF CandidatesFromTree, FromTree, Inv, RInv
  <2>2. seen[candidates[i].path] \subseteq seen'[candidates[i].path] /\ candidates' = candidates
    BY <1>1, <1>3, <2>1
  <2> QED BY <2>2 DEF Had, Opened
<1>8. HeldSeen'
  <2> SUFFICES ASSUME NEW w \in Pool, worker[w].at \in {"rest", "store"}
               PROVE  /\ worker[w].at = "rest" => Opened(candidates[worker[w].job].path, worker[w].content)'
                      /\ worker[w].at = "store" => Had(candidates[worker[w].job].path, worker[w].content)'
    BY <1>1 DEF HeldSeen
  <2>1. Busy(w)
    BY DEF Busy
  <2>2. PoolRuns
    BY <1>1, <2>1 DEF Inv, IInv, StageInv, BeforePool
  <2>3. worker[w].job \in 1 .. Len(candidates)
    <3>1. Len(candidates) \in Nat /\ next \in Nat /\ worker[w].job \in Nat
      BY LenProperties DEF Inv, IInv, TypeOK, WalkType, PoolType, Goroutine
    <3> QED BY <2>1, <2>2, <3>1 DEF PoolRuns
  <2>4. CASE worker[w].at = "rest"
    BY <1>1, <1>7, <2>3, <2>4 DEF HeldSeen, Inv, RInv
  <2>5. CASE worker[w].at = "store"
    BY <1>1, <1>7, <2>3, <2>5 DEF HeldSeen, Inv, RInv
  <2> QED BY <2>4, <2>5
<1>9. SlotsSeen'
  <2>1. pc \in {"walkroot", "walk", "spawn"} => Len(slots) = 0
    BY DEF Inv, IInv, StageInv, BeforePool
  <2>2. pc \in {"send", "wait"} => Len(slots) = Len(candidates)
    BY DEF Inv, IInv, StageInv, PoolRuns
  <2> SUFFICES ASSUME NEW i \in 1 .. Len(slots)
               PROVE  /\ slots[i].read => \E c \in Texts : /\ Had(candidates[i].path, c)'
                                                           /\ slots[i].findings = Stamp(candidates[i], c)
                      /\ ~slots[i].read => slots[i].findings = <<>>
    BY <1>1 DEF SlotsSeen
  <2>3. i \in 1 .. Len(candidates)
    BY <1>1, <2>1, <2>2
  <2>4. ~slots[i].read => slots[i].findings = <<>>
    BY DEF SlotsSeen, Inv, RInv
  <2>5. ASSUME slots[i].read
        PROVE  \E c \in Texts : Had(candidates[i].path, c)' /\ slots[i].findings = Stamp(candidates[i], c)
    <3>1. PICK c \in Texts : Had(candidates[i].path, c) /\ slots[i].findings = Stamp(candidates[i], c)
      BY <2>5 DEF SlotsSeen, Inv, RInv
    <3>2. Had(candidates[i].path, c)'
      BY <1>7, <2>3, <3>1
    <3> QED BY <3>1, <3>2
  <2> QED BY <2>4, <2>5
<1>10. Gathered'
  BY <1>1 DEF Gathered
<1> QED BY <1>2, <1>5, <1>6, <1>8, <1>9, <1>10 DEF RInv

LEMMA NextReport == Inv /\ [Next]_vars => Inv'
<1> SUFFICES ASSUME Inv, [Next]_vars PROVE RInv'
  BY NextInv DEF Inv
<1>1. CASE MainStep
  BY <1>1, LstatReport, WalkRootReport, VisitDirReport, VisitFileReport, WalkDoneReport,
     SpawnReport, CloseReport, WaitReport, CollectReport, SortReport DEF MainStep
<1>2. ASSUME NEW w \in Pool, WorkerStep(w) PROVE RInv'
  BY <1>2, HandoffReport, OpenFileReport, ReadRestReport, StoreSlotReport, WorkerExitReport DEF WorkerStep
<1>3. CASE Touch
  BY <1>3, TouchReport
<1>4. CASE UNCHANGED vars
  <2>1. SeenNow' /\ WalkScope' /\ Unnested' /\ CandidatesFromTree'
    BY <1>4, Steady DEF vars, SeenNow, WalkScope, Unnested, CandidatesFromTree, Inv, RInv
  <2>2. HeldSeen' /\ SlotsSeen' /\ Gathered'
    BY <1>4, Steady DEF vars, HeldSeen, SlotsSeen, Gathered, InSlot, Inv, RInv
  <2> QED BY <2>1, <2>2 DEF RInv
<1> QED BY <1>1, <1>2, <1>3, <1>4 DEF Next, Terminated

THEOREM ReportInvariance == Spec => []Inv
<1>1. Init => Inv
  BY InitInv, InitReport DEF Inv
<1>2. Inv /\ [Next]_vars => Inv'
  BY NextReport
<1> QED BY <1>1, <1>2, PTL DEF Spec

-----------------------------------------------------------------------------
(* No finding is invented, for any tree and whatever others do to it: the    *)
(* findings a report holds come out of slots, a slot holds what was read of   *)
(* the file, between two contents it had, and a candidate is in scope.       *)
THEOREM NothingInvented == Spec => []NoPhantoms
<1>1. Inv => NoPhantoms
  <2> SUFFICES ASSUME Inv, pc = "done", NEW j \in DOMAIN findings
               PROVE  /\ findings[j].path \in InScopeFiles
                      /\ \E s, t, u \in seen[findings[j].path] :
                           /\ t.content \in Contents /\ u.content \in Contents
                           /\ \E text \in Mixed[t.content][u.content] :
                                findings[j] \in Stamped(findings[j].path, s.mode, text)
    BY DEF NoPhantoms
  <2>1. j \in 1 .. Len(findings) /\ Len(slots) = Len(candidates) /\ next = Len(candidates) + 1
        /\ Len(candidates) \in Nat
    BY LenProperties DEF Inv, IInv, TypeOK, OutType, WalkType, StageInv, AfterPool
  <2>2. PICK i \in 1 .. next - 1 : InSlot(findings[j], i)
    BY <2>1 DEF Inv, RInv, Gathered
  <2>3. PICK k \in 1 .. Len(slots[i].findings) : slots[i].findings[k] = findings[j]
    BY <2>2 DEF InSlot
  <2>4. i \in 1 .. Len(candidates) /\ i \in 1 .. Len(slots)
    BY <2>1
  <2>5. slots[i].read
    <3>1. ~slots[i].read => slots[i].findings = <<>>
      BY <2>4 DEF Inv, RInv, SlotsSeen
    <3> QED BY <2>3, <3>1
  <2>6. PICK c \in Texts : Had(candidates[i].path, c) /\ slots[i].findings = Stamp(candidates[i], c)
    BY <2>4, <2>5 DEF Inv, RInv, SlotsSeen
  <2>7. FromTree(candidates[i])
    BY <2>4 DEF Inv, RInv, CandidatesFromTree
  <2>8. PICK s \in seen[candidates[i].path] : s.mode = candidates[i].mode
    BY <2>7 DEF FromTree
  <2>9. PICK t \in seen[candidates[i].path], u \in seen[candidates[i].path] :
          t.content \in Contents /\ u.content \in Contents /\ c \in Mixed[t.content][u.content]
    BY <2>6 DEF Had
  <2>10. Len(Parse[c]) \in Nat /\ DOMAIN Parse[c] = 1 .. Len(Parse[c])
    BY DataAssumption, LenProperties
  <2>11. /\ k \in DOMAIN Parse[c]
         /\ findings[j] = [path |-> candidates[i].path, mode |-> s.mode,
                           line |-> Parse[c][k].line, format |-> Parse[c][k].format]
    BY <2>3, <2>6, <2>8, <2>10 DEF Stamp
  <2>12. findings[j].path = candidates[i].path
    BY <2>11
  <2>13. findings[j] \in Stamped(candidates[i].path, s.mode, c)
    BY <2>11 DEF Stamped
  <2> QED BY <2>7, <2>9, <2>12, <2>13 DEF FromTree
<1> QED BY ReportInvariance, <1>1, PTL

(* Findings that are distinct by path and line have one order only.          *)
LEMMA SortOrders ==
  ASSUME Inv, Sort
  PROVE  \A i, j \in DOMAIN findings' : i < j => Less(findings'[i], findings'[j])
<1>1. /\ findings \in Seq(Finding) /\ Len(findings) \in Nat
      /\ DOMAIN findings = 1 .. Len(findings) /\ pc = "collect"
  BY LenProperties DEF Sort, Inv, IInv, TypeOK, OutType
<1>2. PICK p \in Orders(1 .. Len(findings)) :
        /\ \A i, j \in 1 .. Len(findings) : i < j => ~Less(findings[p[j]], findings[p[i]])
        /\ findings' = [i \in 1 .. Len(findings) |-> findings[p[i]]]
  BY <1>1 DEF Sort
<1> SUFFICES ASSUME NEW i \in 1 .. Len(findings), NEW j \in 1 .. Len(findings), i < j
             PROVE  Less(findings'[i], findings'[j])
  BY <1>2
<1>3. p[i] \in 1 .. Len(findings) /\ p[j] \in 1 .. Len(findings) /\ p[i] # p[j]
  BY <1>1, SortPermutes
<1> DEFINE f == findings[p[i]]
           g == findings[p[j]]
<1>4. f \in Finding /\ g \in Finding
  BY <1>1, <1>3, ElementOfSeq
<1>5. f.path # g.path \/ f.line # g.line
  <2>1. \A k, m \in 1 .. Len(findings) : k # m =>
          findings[k].path # findings[m].path \/ findings[k].line # findings[m].line
    BY <1>1 DEF Inv, RInv, Gathered
  <2> QED BY <1>3, <2>1
<1>6. ~Less(g, f) /\ findings'[i] = f /\ findings'[j] = g
  BY <1>2
<1> HIDE DEF f, g
<1>7. /\ f.path \in Nodes /\ g.path \in Nodes /\ f.line \in Nat /\ g.line \in Nat
      /\ PathOrder[f.path] \in Nat /\ PathOrder[g.path] \in Nat
      /\ f.path # g.path => PathOrder[f.path] # PathOrder[g.path]
  BY <1>4, TreeAssumption DEF Finding
<1>8. CASE f.path # g.path
  BY <1>6, <1>7, <1>8 DEF Less
<1>9. CASE f.path = g.path
  BY <1>5, <1>6, <1>7, <1>9 DEF Less
<1> QED BY <1>8, <1>9

(* The report is in strictly increasing order, so an unstable sort has one    *)
(* outcome only: no two findings have one path and line.                     *)
THEOREM OneOrder == Spec => []StrictOrder
<1>1. Init => StrictOrder
  BY DEF Init, StrictOrder
<1>2. ASSUME Inv, StrictOrder, [Next]_vars PROVE StrictOrder'
  <2>1. CASE Sort
    BY <1>2, <2>1, SortOrders DEF StrictOrder
  <2>2. CASE MainStep /\ ~Sort
    BY <2>2 DEF MainStep, StrictOrder, LstatRoot, WalkRoot, VisitDir, VisitFile, Visiting, WalkDone, Spawn,
       CloseWork, WaitDone, Collect
  <2>3. ASSUME NEW w \in Pool, WorkerStep(w) PROVE StrictOrder'
    BY <1>2, <2>3 DEF WorkerStep, StrictOrder, Handoff, OpenFile, ReadRest, StoreSlot, WorkerExit, out
  <2>4. CASE Touch
    BY <1>2, <2>4 DEF Touch, StrictOrder, out
  <2>5. CASE UNCHANGED vars
    BY <1>2, <2>5 DEF vars, StrictOrder
  <2> QED BY <1>2, <2>1, <2>2, <2>3, <2>4, <2>5 DEF Next, Terminated
<1> QED BY ReportInvariance, <1>1, <1>2, PTL DEF Spec

-----------------------------------------------------------------------------
(* A file in scope that has been one thing so far, and is one to be read.    *)
Steadfast(n) == n \in InScopeFiles /\ \E s \in seen[n] : seen[n] = {s} /\ Eligible(n, s)
Collected(n) == \E i \in 1 .. Len(candidates) : candidates[i].path = n

(* The walk has it ahead: its own entry, or that of a directory above it.    *)
Ahead(n) == \E e \in pending : \/ e.path = n /\ e.type = "regular"
                               \/ e.type = "dir" /\ n \in Beneath[e.path]
NoneMissed == \A n \in Files : Steadfast(n) =>
  /\ pc = "walk" => Ahead(n) \/ Collected(n)
  /\ pc \in {"spawn", "send", "wait", "collect", "done"} => Collected(n)

(* An entry has a type its path had, and a candidate the size and type of    *)
(* one that is read, each at some moment.                                    *)
EntryTypes == \A e \in pending : \E s \in seen[e.path] : s.type = e.type
Fits(n) == /\ \E s \in seen[n] : s.size <= MaxSize /\ s.type \notin {"gone", "dir"}
           /\ n # options.root => \E s \in seen[n] : s.type = "regular"
CandidatesFit == \A i \in 1 .. Len(candidates) : Fits(candidates[i].path)

(* An index handed out is held, read, or could not be read.                  *)
Settled(i) == \/ slots[i].read
              \/ \E s \in seen[candidates[i].path] : s.content = Unreadable
Held(i) == \E w \in Pool : Busy(w) /\ worker[w].job = i
Attended ==
  /\ pc \in {"send", "wait"} => \A i \in 1 .. next - 1 : Held(i) \/ Settled(i)
  /\ pc \in {"collect", "done"} => \A i \in 1 .. Len(candidates) : Settled(i)

SInv == NoneMissed /\ EntryTypes /\ CandidatesFit /\ Attended
AInv == Inv /\ SInv

-----------------------------------------------------------------------------
(* A directory's entries cover what is below it: the first path the walk     *)
(* meets, of n and the directories that lead to n, is an entry.              *)
LessNat == {ss \in Nat \X Nat : ss[1] < ss[2]}
LEMMA LessNatFounded == IsWellFoundedOn(LessNat, Nat)
BY NatLessThanWellFounded DEF OpToRel, LessNat

LEMMA EntryAbove ==
  ASSUME NEW d \in Dirs, NEW n \in Beneath[d]
  PROVE  \E x \in Children(d) : x = n \/ (x \in Dirs /\ n \in Beneath[x])
<1> DEFINE Leads == {n} \cup {b \in Beneath[d] \cap Dirs : n \in Beneath[b]}
           Ranks == {WalkOrder[b] : b \in Leads}
<1>1. Leads \subseteq Nodes /\ n \in Leads /\ Leads \subseteq Beneath[d]
  BY TreeAssumption
<1>2. Ranks \subseteq Nat /\ Ranks # {}
  BY <1>1, TreeAssumption
<1>3. PICK m \in Ranks : \A k \in Ranks : <<k, m>> \notin LessNat
  <2> HIDE DEF Ranks
  <2> QED BY ONLY <1>2, LessNatFounded, WFMin, Zenon
<1>4. PICK x \in Leads : WalkOrder[x] = m
  BY <1>3
<1>5. ASSUME NEW b \in Beneath[d] \cap Dirs, x \in Beneath[b] PROVE FALSE
  <2>1. n \in Beneath[b]
    <3>1. x \in Dirs /\ n \in Beneath[x] => n \in Beneath[b]
      BY <1>5, TreeAssumption
    <3> QED BY <1>4, <1>5, <3>1
  <2>2. b \in Leads /\ WalkOrder[b] < WalkOrder[x]
    BY <1>5, <2>1, TreeAssumption
  <2>3. <<WalkOrder[b], m>> \in LessNat /\ WalkOrder[b] \in Ranks
    BY <1>2, <1>3, <1>4, <2>2 DEF LessNat
  <2> QED BY <1>3, <2>3
<1>6. x \in Children(d)
  BY <1>1, <1>4, <1>5 DEF Children
<1> QED BY <1>4, <1>6

(* What can be seen stands below directories that can be listed.             *)
LEMMA OpenAbove ==
  ASSUME NEW d \in Disk, NEW n \in Nodes, View(d, n).type # "gone", NEW a \in Dirs, n \in Beneath[a]
  PROVE  View(d, a).type = "dir" /\ View(d, a).content # Unreadable
<1>1. \A b \in Dirs : n \in Beneath[b] => d[b].content # Unreadable
  BY DEF View, Gone
<1>2. \A b \in Dirs : a \in Beneath[b] => n \in Beneath[b]
  BY TreeAssumption
<1>3. View(d, a) = d[a] /\ d[a].content # Unreadable
  BY <1>1, <1>2 DEF View
<1>4. d[a] \in DirStates
  BY DEF Disk, StatesOf, Nodes
<1> QED BY <1>3, <1>4 DEF DirStates, Gone, Directory

(* A steadfast file below the root is there now, and no directory above it,  *)
(* or the root, is hidden or shut.                                           *)
LEMMA SteadfastNow ==
  ASSUME Inv, NEW n \in Files, Steadfast(n)
  PROVE  LET s == View(disk, n) IN
         /\ seen[n] = {s} /\ Eligible(n, s)
         /\ options.root \in Dirs =>
              /\ n \in Beneath[options.root] /\ n \notin ExcludedPaths /\ s.type = "regular"
              /\ \A a \in Dirs : n \in Beneath[a] =>
                   View(disk, a).type = "dir" /\ View(disk, a).content # Unreadable
<1>1. View(disk, n) \in seen[n] /\ disk \in Disk /\ n \in Nodes
  BY DEF Inv, RInv, SeenNow, Nodes, IInv, TypeOK, EnvType
<1>2. PICK s \in seen[n] : seen[n] = {s} /\ Eligible(n, s)
  BY DEF Steadfast
<1>3. s = View(disk, n)
  BY <1>1, <1>2
<1>4. ASSUME options.root \in Dirs
      PROVE  n \in Beneath[options.root] /\ n \notin ExcludedPaths /\ n # options.root
  <2>1. n # options.root
    BY <1>4, TreeAssumption
  <2> QED BY <2>1 DEF Steadfast, InScopeFiles, InScope
<1>5. s.type # "gone" /\ (n # options.root => s.type = "regular")
  BY <1>2 DEF Eligible
<1>6. \A a \in Dirs : n \in Beneath[a] => View(disk, a).type = "dir" /\ View(disk, a).content # Unreadable
  BY <1>1, <1>3, <1>5, OpenAbove
<1> QED BY <1>2, <1>3, <1>4, <1>5, <1>6

(* What depends on the options and the history alone. *)
LEMMA SteadyToo ==
  ASSUME UNCHANGED <<options, seen>>
  PROVE  /\ \A n : Steadfast(n)' <=> Steadfast(n)
         /\ \A n : Fits(n)' <=> Fits(n)
<1>1. InScopeFiles' = InScopeFiles
  BY Steady
<1>2. \A n, s : Eligible(n, s)' <=> Eligible(n, s)
  BY DEF Eligible
<1>3. \A n : Steadfast(n)' <=> Steadfast(n)
  BY <1>1, <1>2 DEF Steadfast
<1>4. \A n : Fits(n)' <=> Fits(n)
  BY DEF Fits
<1> QED BY <1>3, <1>4

(* Every size is a number. *)
LEMMA SizeIsNat ==
  ASSUME NEW s \in FileStates \cup DirStates
  PROVE  s.size \in Nat
<1>1. CASE s \in DirStates
  BY <1>1 DEF DirStates, Gone, Directory
<1>2. CASE s \in {Gone, Locked}
  BY <1>2 DEF Gone, Locked
<1>3. ASSUME NEW c \in Contents, NEW m \in Modes, s = Regular(c, m) PROVE s.size \in Nat
  BY <1>3, DataAssumption DEF Regular
<1>4. ASSUME NEW c \in Contents \cup {Unreadable}, s = Link(c) PROVE s.size \in Nat
  BY <1>4 DEF Link
<1> QED BY <1>1, <1>2, <1>3, <1>4 DEF FileStates

(* NoneMissed and the rest of SInv, action by action. *)
LEMMA InitMissed == Init => SInv
BY DEF Init, SInv, NoneMissed, EntryTypes, CandidatesFit, Attended

LEMMA LstatMissed == ASSUME AInv, LstatRoot PROVE SInv'
<1> DEFINE info == View(disk, options.root)
           only == [path |-> options.root, mode |-> info.mode]
<1>1. options.root \in Nodes /\ disk \in Disk /\ info \in seen[options.root]
  BY OptionsAssumption DEF AInv, Inv, RInv, SeenNow, IInv, TypeOK, EnvType
<1>2. /\ UNCHANGED <<options, seen, disk, pending>> /\ pending = {}
      /\ pc' \in {"error", "walkroot", "spawn"}
  BY DEF LstatRoot, env, AInv, Inv, RInv, WalkScope
<1>3. EntryTypes' /\ Attended'
  BY <1>2 DEF EntryTypes, Attended
<1>4. CASE pc' = "spawn"
  <2>1. /\ info.type \notin {"gone", "dir"} /\ candidates' = <<only>>
        /\ ~(info.size > MaxSize)
    BY <1>4 DEF LstatRoot
  <2>2. options.root \in Files
    BY <1>1, <2>1, StateFields
  <2>3. info.size \in Nat
    BY <1>1, StateFields, SizeIsNat
  <2>4. Fits(options.root)
    BY <1>1, <2>1, <2>3, DataAssumption DEF Fits
  <2>5. only.path = options.root
    OBVIOUS
  <2> HIDE DEF only, info
  <2>6. Len(candidates') = 1 /\ candidates'[1].path = options.root
    BY <2>1, <2>5
  <2>7. CandidatesFit'
    BY <1>2, <2>4, <2>6, SteadyToo DEF CandidatesFit
  <2>8. \A n \in Files : Steadfast(n) => n = options.root
    BY <2>2, TreeAssumption DEF Steadfast, InScopeFiles
  <2>9. NoneMissed'
    BY <1>2, <1>4, <2>6, <2>8, SteadyToo DEF NoneMissed, Collected
  <2> QED BY <1>3, <2>7, <2>9 DEF SInv
<1>5. CASE pc' # "spawn"
  <2>1. candidates' = <<>>
    BY <1>5 DEF LstatRoot
  <2> QED BY <1>2, <1>3, <1>5, <2>1 DEF SInv, NoneMissed, CandidatesFit
<1> QED BY <1>4, <1>5

LEMMA WalkRootMissed == ASSUME AInv, WalkRoot PROVE SInv'
<1> DEFINE info == View(disk, options.root)
           entry == [path |-> options.root, type |-> info.type]
<1>1. /\ UNCHANGED <<options, seen, disk, candidates>>
      /\ pc' = "walk" /\ candidates = <<>> /\ pending = {} /\ options.root \in Dirs
  BY DEF WalkRoot, env, AInv, Inv, RInv, WalkScope
<1>2. info \in seen[options.root]
  BY OptionsAssumption DEF AInv, Inv, RInv, SeenNow, IInv, TypeOK, EnvType
<1>3. entry.path = options.root /\ entry.type = info.type
  OBVIOUS
<1>4. \/ pending' = {} /\ info.type = "gone"
      \/ pending' = {entry}
  BY <1>1 DEF WalkRoot
<1> HIDE DEF entry, info
<1>5. EntryTypes' /\ CandidatesFit' /\ Attended'
  BY <1>1, <1>2, <1>3, <1>4 DEF EntryTypes, CandidatesFit, Attended
<1>6. NoneMissed'
  <2> SUFFICES ASSUME NEW n \in Files, Steadfast(n) PROVE Ahead(n)'
    BY <1>1, SteadyToo DEF NoneMissed
  <2>1. n \in Beneath[options.root] /\ info.type = "dir"
    BY <1>1, SteadfastNow DEF AInv, info
  <2> QED BY <1>3, <1>4, <2>1 DEF Ahead
<1> QED BY <1>5, <1>6 DEF SInv

LEMMA VisitDirMissed == ASSUME AInv, NEW e \in pending, VisitDir(e) PROVE SInv'
<1> DEFINE d == e.path
           entry(n) == [path |-> n, type |-> View(disk, n).type]
           entries == {entry(n) : n \in Children(d)}
<1>1. /\ UNCHANGED <<options, seen, disk, pc, candidates>>
      /\ pc = "walk" /\ options.root \in Dirs /\ d \in Dirs /\ Reached(d)
  BY DEF VisitDir, Visiting, env, AInv, Inv, RInv, WalkScope, IInv, TypeOK, WalkType
<1>2. /\ pending' \subseteq pending \cup entries
      /\ pending \ {e} \subseteq pending'
      /\ ~Skips(d) /\ View(disk, d).content # Unreadable =>
           \A x \in entries : x.type # "gone" => x \in pending'
  BY DEF VisitDir
<1>3. Children(d) \subseteq Nodes
  BY <1>1, TreeAssumption DEF Children
<1>4. CandidatesFit' /\ Attended'
  BY <1>1, SteadyToo DEF CandidatesFit, Attended, AInv, SInv
<1>5. EntryTypes'
  <2> SUFFICES ASSUME NEW f \in pending' PROVE \E s \in seen[f.path] : s.type = f.type
    BY <1>1 DEF EntryTypes
  <2>1. CASE f \in pending
    BY <2>1 DEF EntryTypes, AInv, SInv
  <2>2. CASE f \in entries
    <3>1. PICK n \in Children(d) : f.path = n /\ f.type = View(disk, n).type
      BY <2>2
    <3>2. View(disk, n) \in seen[n]
      BY <1>3 DEF AInv, Inv, RInv, SeenNow
    <3> QED BY <3>1, <3>2
  <2> QED BY <1>2, <2>1, <2>2
<1>6. ASSUME NEW n \in Files, Steadfast(n) PROVE Ahead(n)' \/ Collected(n)'
  <2>1. CASE Collected(n)
    BY <1>1, <2>1 DEF Collected
  <2>2. CASE Ahead(n)
    <3>1. PICK f \in pending : \/ f.path = n /\ f.type = "regular"
                               \/ f.type = "dir" /\ n \in Beneath[f.path]
      BY <2>2 DEF Ahead
    <3>2. CASE f # e
      BY <1>2, <3>1, <3>2 DEF Ahead
    <3>3. CASE f = e
      <4>1. n \in Beneath[d]
        BY <3>1, <3>3 DEF VisitDir
      <4>2. /\ n \in Beneath[options.root] /\ n \notin ExcludedPaths /\ View(disk, n).type = "regular"
            /\ \A a \in Dirs : n \in Beneath[a] =>
                 View(disk, a).type = "dir" /\ View(disk, a).content # Unreadable
        BY <1>1, <1>6, SteadfastNow DEF AInv
      <4>3. ~Skips(d)
        <5>1. n # options.root
          BY <1>1, TreeAssumption
        <5>2. d # options.root => ~Hides(d)
          BY <1>1, <1>6, <4>1, <5>1 DEF Steadfast, InScopeFiles, InScope, Reached
        <5> QED BY <5>2 DEF Skips, Hides
      <4>4. PICK x \in Children(d) : x = n \/ (x \in Dirs /\ n \in Beneath[x])
        BY <1>1, <4>1, EntryAbove
      <4>5. entry(x) \in entries /\ entry(x).path = x /\ entry(x).type = View(disk, x).type
        BY <4>4
      <4>6. View(disk, x).type \in {"regular", "dir"} /\ (View(disk, x).type = "regular" => x = n)
            /\ (View(disk, x).type = "dir" => n \in Beneath[x])
        BY <4>2, <4>4
      <4> HIDE DEF entry
      <4>7. entry(x) \in pending'
        BY <1>1, <1>2, <4>1, <4>2, <4>3, <4>5, <4>6
      <4> QED BY <4>5, <4>6, <4>7 DEF Ahead
    <3> QED BY <3>2, <3>3
  <2> QED BY <1>1, <1>6, <2>1, <2>2 DEF NoneMissed, AInv, SInv
<1>7. NoneMissed'
  BY <1>1, <1>6, SteadyToo DEF NoneMissed
<1> QED BY <1>4, <1>5, <1>7 DEF SInv

LEMMA VisitFileMissed == ASSUME AInv, NEW e \in pending, VisitFile(e) PROVE SInv'
<1> DEFINE info == View(disk, e.path)
           c == [path |-> e.path, mode |-> info.mode]
           considered == e.type = "regular" /\ e.path \notin ExcludedPaths
           fits == info.type # "gone" /\ info.size <= MaxSize
<1>1. /\ UNCHANGED <<options, seen, disk, pc>>
      /\ pc = "walk" /\ options.root \in Dirs /\ pending' = pending \ {e} /\ e.type # "dir"
  BY DEF VisitFile, Visiting, env, AInv, Inv, RInv, WalkScope
<1>2. candidates' = IF considered /\ fits THEN Append(candidates, c) ELSE candidates
  BY DEF VisitFile
<1>3. EntryTypes' /\ Attended'
  BY <1>1 DEF EntryTypes, Attended, AInv, SInv
<1>4. candidates \in Seq(Candidate)
  BY DEF AInv, Inv, IInv, TypeOK, WalkType
<1>5. CASE considered /\ fits
  <2>1. e.path \in Files /\ e.path \in Nodes /\ disk \in Disk
    BY <1>5 DEF AInv, Inv, IInv, TypeOK, WalkType, EnvType, Nodes
  <2>2. info \in seen[e.path] /\ info.mode \in Modes /\ info.type # "dir"
    BY <2>1, StateFields, TreeAssumption DEF AInv, Inv, RInv, SeenNow
  <2>3. Fits(e.path)
    <3>1. \E s \in seen[e.path] : s.type = "regular"
      BY <1>5 DEF EntryTypes, AInv, SInv
    <3> QED BY <1>5, <2>2, <3>1 DEF Fits
  <2>4. c \in Candidate /\ c.path = e.path
    BY <2>1, <2>2 DEF Candidate
  <2>5. candidates' = Append(candidates, c)
    BY <1>2, <1>5
  <2> HIDE DEF c, info
  <2>6. /\ Len(candidates) \in Nat /\ Len(candidates') = Len(candidates) + 1
        /\ \A i \in 1 .. Len(candidates) : candidates'[i] = candidates[i]
        /\ candidates'[Len(candidates) + 1].path = e.path
    BY <1>4, <2>4, <2>5, AppendProperties, LenProperties
  <2>7. CandidatesFit'
    BY <1>1, <2>3, <2>6, SteadyToo DEF CandidatesFit, AInv, SInv
  <2>8. ASSUME NEW n \in Files, Steadfast(n) PROVE Ahead(n)' \/ Collected(n)'
    <3>1. CASE Collected(n)
      BY <2>6, <3>1 DEF Collected
    <3>2. CASE Ahead(n)
      <4>1. PICK f \in pending : \/ f.path = n /\ f.type = "regular"
                                 \/ f.type = "dir" /\ n \in Beneath[f.path]
        BY <3>2 DEF Ahead
      <4>2. CASE f # e
        BY <1>1, <4>1, <4>2 DEF Ahead
      <4>3. CASE f = e
        <5>1. e.path = n
          BY <1>1, <4>1, <4>3
        <5>2. Len(candidates) + 1 \in 1 .. Len(candidates')
          BY <2>6
        <5> QED BY <2>6, <5>1, <5>2 DEF Collected
      <4> QED BY <4>2, <4>3
    <3> QED BY <1>1, <2>8, <3>1, <3>2 DEF NoneMissed, AInv, SInv
  <2>9. NoneMissed'
    BY <1>1, <2>8, SteadyToo DEF NoneMissed
  <2> QED BY <1>3, <2>7, <2>9 DEF SInv
<1>6. CASE ~(considered /\ fits)
  <2>1. candidates' = candidates
    BY <1>2, <1>6
  <2>2. CandidatesFit'
    BY <1>1, <2>1, SteadyToo DEF CandidatesFit, AInv, SInv
  <2>3. ASSUME NEW n \in Files, Steadfast(n) PROVE Ahead(n)' \/ Collected(n)'
    <3>1. CASE Collected(n)
      BY <2>1, <3>1 DEF Collected
    <3>2. CASE Ahead(n)
      <4>1. PICK f \in pending : \/ f.path = n /\ f.type = "regular"
                                 \/ f.type = "dir" /\ n \in Beneath[f.path]
        BY <3>2 DEF Ahead
      <4>2. f # e
        <5>1. n \notin ExcludedPaths /\ View(disk, n).type = "regular" /\ Eligible(n, View(disk, n))
          BY <1>1, <2>3, SteadfastNow DEF AInv
        <5> QED BY <1>1, <1>6, <4>1, <5>1 DEF Eligible
      <4> QED BY <1>1, <4>1, <4>2 DEF Ahead
    <3> QED BY <1>1, <2>3, <3>1, <3>2 DEF NoneMissed, AInv, SInv
  <2>4. NoneMissed'
    BY <1>1, <2>3, SteadyToo DEF NoneMissed
  <2> QED BY <1>3, <2>2, <2>4 DEF SInv
<1> QED BY <1>5, <1>6

LEMMA WalkDoneMissed == ASSUME AInv, WalkDone PROVE SInv'
<1>1. /\ UNCHANGED <<options, seen, pending, candidates>>
      /\ pc = "walk" /\ pc' = "spawn" /\ pending = {}
  BY DEF WalkDone, env, walk
<1>2. \A n : ~Ahead(n)
  BY <1>1 DEF Ahead
<1>3. NoneMissed'
  BY <1>1, <1>2, SteadyToo DEF NoneMissed, Collected, AInv, SInv
<1> QED BY <1>1, <1>3, SteadyToo DEF SInv, AInv, EntryTypes, CandidatesFit, Attended

-----------------------------------------------------------------------------
(* What the walk has found stays found while the pool runs. *)
PoolSteps == {"spawn", "send", "wait", "collect", "done"}
LEMMA FoundSettled ==
  ASSUME SInv, UNCHANGED <<options, seen, pending, candidates>>,
         pc \in PoolSteps, pc' \in PoolSteps
  PROVE  NoneMissed' /\ EntryTypes' /\ CandidatesFit'
<1>1. pc # "walk" /\ pc' # "walk"
  BY DEF PoolSteps
<1>2. NoneMissed'
  BY <1>1, SteadyToo DEF SInv, NoneMissed, Collected, PoolSteps
<1> QED BY <1>2, SteadyToo DEF SInv, EntryTypes, CandidatesFit

LEMMA SpawnMissed == ASSUME AInv, Spawn PROVE SInv'
<1>1. /\ UNCHANGED <<options, seen, pending, candidates, next>>
      /\ pc = "spawn" /\ pc' = "send"
  BY DEF Spawn, env, walk
<1>2. next = 1
  BY <1>1 DEF AInv, Inv, IInv, StageInv, BeforePool
<1>3. Attended'
  BY <1>1, <1>2 DEF Attended
<1> QED BY <1>1, <1>3, FoundSettled DEF AInv, SInv, PoolSteps

LEMMA HandoffMissed == ASSUME AInv, NEW w \in Pool, Handoff(w) PROVE SInv'
<1>1. /\ UNCHANGED <<options, seen, pending, candidates, slots, pc>> /\ pc = "send"
      /\ next' = next + 1 /\ next \in Nat /\ ~Busy(w) /\ worker \in [Pool -> Goroutine]
  BY DEF Handoff, env, walk, Busy, AInv, Inv, IInv, TypeOK, PoolType
<1> PICK k : k = next
  OBVIOUS
<1>2. /\ worker'[w].at = "read" /\ worker'[w].job = k
      /\ \A v \in Pool \ {w} : worker'[v] = worker[v]
  BY <1>1 DEF Handoff, Idle
<1>3. Held(k)'
  BY <1>2 DEF Held, Busy
<1>4. \A i : Held(i) => Held(i)'
  BY <1>1, <1>2 DEF Held, Busy
<1>5. \A i : Settled(i)' <=> Settled(i)
  BY <1>1 DEF Settled
<1>6. \A i \in 1 .. next' - 1 : Held(i)' \/ Settled(i)'
  <2> TAKE i \in 1 .. next' - 1
  <2>1. i = k \/ i \in 1 .. next - 1
    BY <1>1
  <2> QED BY <1>1, <1>3, <1>4, <1>5, <2>1 DEF Attended, AInv, SInv
<1>7. Attended'
  BY <1>1, <1>6 DEF Attended
<1> QED BY <1>1, <1>7, FoundSettled DEF AInv, SInv, PoolSteps

LEMMA CloseMissed == ASSUME AInv, CloseWork PROVE SInv'
<1>1. /\ UNCHANGED <<options, seen, pending, candidates, next, worker, slots>>
      /\ pc = "send" /\ pc' = "wait"
  BY DEF CloseWork, env, walk
<1>2. Attended'
  BY <1>1 DEF Attended, Held, Settled, Busy, AInv, SInv
<1> QED BY <1>1, <1>2, FoundSettled DEF AInv, SInv, PoolSteps

(* A goroutine that leaves the index it held does so once it is settled.     *)
LEMMA LeavesSettled ==
  ASSUME AInv, NEW w \in Pool, NEW k, worker[w].job = k,
         UNCHANGED <<options, seen, pc, pending, candidates, next>>, pc \in {"send", "wait"},
         \A v \in Pool \ {w} : worker'[v] = worker[v],
         \A i \in 1 .. next - 1 : Settled(i) => Settled(i)',
         Busy(w) => Held(k)' \/ Settled(k)'
  PROVE  SInv'
<1>1. ASSUME NEW i \in 1 .. next - 1 PROVE Held(i)' \/ Settled(i)'
  <2>1. Held(i) \/ Settled(i)
    BY DEF Attended, AInv, SInv
  <2>2. CASE Held(i)
    <3>1. PICK v \in Pool : Busy(v) /\ worker[v].job = i
      BY <2>2 DEF Held
    <3>2. CASE v = w
      BY <3>1, <3>2
    <3>3. CASE v # w
      <4>1. worker'[v] = worker[v]
        BY <3>3
      <4> QED BY <3>1, <4>1 DEF Held, Busy
    <3> QED BY <3>2, <3>3
  <2> QED BY <2>1, <2>2
<1>2. Attended'
  BY <1>1 DEF Attended
<1> QED BY <1>2, FoundSettled DEF AInv, SInv, PoolSteps

LEMMA OpenFileMissed == ASSUME AInv, NEW w \in Pool, OpenFile(w) PROVE SInv'
<1> DEFINE content == FileOf(w).content
           g == AfterOpen(worker[w], content)
<1>1. worker \in [Pool -> Goroutine] /\ worker[w].at = "read" /\ Busy(w)
  BY DEF AInv, Inv, IInv, TypeOK, PoolType, OpenFile, Busy
<1>2. pc \in {"send", "wait"}
  BY <1>1 DEF AInv, Inv, IInv, TypeOK, Steps, StageInv, BeforePool, DataRaceFree, Busy
<1>3. UNCHANGED <<options, seen, pc, pending, candidates, next, slots>>
  BY DEF OpenFile, env, walk
<1>4. PICK k : k = worker[w].job
  OBVIOUS
<1>5. worker'[w] = g /\ \A v \in Pool \ {w} : worker'[v] = worker[v]
  BY <1>1 DEF OpenFile
<1>6. Held(k)' \/ Settled(k)'
  <2>1. CASE content = Unreadable
    <3>1. candidates[k].path \in Nodes
      BY <1>1, <1>4, FileAt DEF AInv, Inv, Nodes
    <3>2. FileOf(w) \in seen[candidates[k].path]
      BY <1>4, <3>1 DEF FileOf, AInv, Inv, RInv, SeenNow
    <3> QED BY <1>3, <2>1, <3>2 DEF Settled
  <2>2. CASE content # Unreadable
    <3>1. g.at = "rest" /\ g.job = k
      BY <1>1, <1>4, <2>2 DEF AfterOpen, Goroutine
    <3> HIDE DEF g
    <3> QED BY <1>5, <3>1 DEF Held, Busy
  <2> QED BY <2>1, <2>2
<1>7. \A i : Settled(i) => Settled(i)'
  BY <1>3 DEF Settled
<1> QED BY <1>2, <1>3, <1>4, <1>5, <1>6, <1>7, LeavesSettled

LEMMA ReadRestMissed == ASSUME AInv, NEW w \in Pool, ReadRest(w) PROVE SInv'
<1>1. worker \in [Pool -> Goroutine] /\ worker[w].at = "rest" /\ Busy(w)
  BY DEF AInv, Inv, IInv, TypeOK, PoolType, ReadRest, Busy
<1>2. pc \in {"send", "wait"}
  BY <1>1 DEF AInv, Inv, IInv, TypeOK, Steps, StageInv, BeforePool, DataRaceFree, Busy
<1>3. UNCHANGED <<options, seen, pc, pending, candidates, next, slots>>
  BY DEF ReadRest, env, walk
<1>4. PICK k : k = worker[w].job
  OBVIOUS
<1>5. PICK text : worker' = [worker EXCEPT ![w] = [@ EXCEPT !.at = "store", !.content = text]]
  BY DEF ReadRest
<1>6. /\ worker'[w].at = "store" /\ worker'[w].job = k
      /\ \A v \in Pool \ {w} : worker'[v] = worker[v]
  BY <1>1, <1>4, <1>5 DEF Goroutine
<1>7. Held(k)'
  BY <1>6 DEF Held, Busy
<1>8. \A i : Settled(i) => Settled(i)'
  BY <1>3 DEF Settled
<1> QED BY <1>2, <1>3, <1>4, <1>6, <1>7, <1>8, LeavesSettled

LEMMA StoreSlotMissed == ASSUME AInv, NEW w \in Pool, StoreSlot(w) PROVE SInv'
<1> DEFINE value == [read |-> TRUE, findings |->
                       Stamp(candidates[worker[w].job], worker[w].content)]
<1>1. worker \in [Pool -> Goroutine] /\ worker[w].at = "store" /\ Busy(w)
  BY DEF AInv, Inv, IInv, TypeOK, PoolType, StoreSlot, Busy
<1>2. pc \in {"send", "wait"} /\ PoolRuns
  BY <1>1 DEF AInv, Inv, IInv, TypeOK, Steps, StageInv, BeforePool, DataRaceFree, Busy
<1>3. UNCHANGED <<options, seen, pc, pending, candidates, next>>
  BY DEF StoreSlot, env, walk
<1>4. PICK k : k = worker[w].job
  OBVIOUS
<1>5. slots' = [slots EXCEPT ![k] = value] /\ \A v \in Pool \ {w} : worker'[v] = worker[v]
  BY <1>1, <1>4 DEF StoreSlot, Index
<1>6. value.read
  OBVIOUS
<1> HIDE DEF value
<1>7. slots \in Seq(Slot) /\ Len(slots) \in Nat /\ Len(candidates) \in Nat /\ next \in Nat
  BY LenProperties DEF AInv, Inv, IInv, TypeOK, PoolType, WalkType
<1>8. k \in 1 .. next - 1 /\ \A i \in 1 .. next - 1 : i \in 1 .. Len(slots)
  BY <1>1, <1>2, <1>4, <1>7 DEF PoolRuns
<1>9. \A i \in 1 .. next - 1 : slots'[i] = IF i = k THEN value ELSE slots[i]
  BY <1>5, <1>7, <1>8
<1>10. \A i \in 1 .. next - 1 : Settled(i) \/ i = k => Settled(i)'
  BY <1>3, <1>6, <1>9 DEF Settled
<1>11. Settled(k)'
  BY <1>8, <1>10
<1> QED BY <1>2, <1>3, <1>4, <1>5, <1>10, <1>11, LeavesSettled

LEMMA WorkerExitMissed == ASSUME AInv, NEW w \in Pool, WorkerExit(w) PROVE SInv'
<1>1. /\ UNCHANGED <<options, seen, pc, pending, candidates, next, slots>>
      /\ pc = "wait" /\ ~Busy(w) /\ worker \in [Pool -> Goroutine]
      /\ worker' = [worker EXCEPT ![w] = Idle]
  BY DEF WorkerExit, env, walk, Busy, AInv, Inv, IInv, TypeOK, PoolType
<1>2. PICK k : k = worker[w].job
  OBVIOUS
<1>3. \A i : Settled(i) => Settled(i)'
  BY <1>1 DEF Settled
<1>4. \A v \in Pool \ {w} : worker'[v] = worker[v]
  BY <1>1
<1> QED BY <1>1, <1>2, <1>3, <1>4, LeavesSettled

LEMMA WaitMissed == ASSUME AInv, WaitDone PROVE SInv'
<1>1. /\ UNCHANGED <<options, seen, pending, candidates, slots>>
      /\ pc = "wait" /\ pc' = "collect" /\ AllDone
  BY DEF WaitDone, env, walk
<1>2. next = Len(candidates) + 1 /\ Len(candidates) \in Nat
  BY <1>1, LenProperties DEF AInv, Inv, IInv, TypeOK, WalkType, StageInv, PoolRuns
<1>3. \A i \in 1 .. Len(candidates) : Held(i) \/ Settled(i)
  BY <1>1, <1>2 DEF Attended, AInv, SInv
<1>4. \A i : ~Held(i)
  BY <1>1 DEF Held, AllDone, Busy
<1>5. Attended'
  BY <1>1, <1>3, <1>4 DEF Attended, Settled
<1> QED BY <1>1, <1>5, FoundSettled DEF AInv, SInv, PoolSteps

LEMMA GatherMissed == ASSUME AInv, Collect \/ Sort PROVE SInv'
<1>1. /\ UNCHANGED <<options, seen, pending, candidates, slots>>
      /\ pc = "collect" /\ pc' \in {"collect", "done"}
  BY DEF Collect, Sort, env, walk
<1>2. Attended'
  BY <1>1 DEF Attended, Settled, AInv, SInv
<1> QED BY <1>1, <1>2, FoundSettled DEF AInv, SInv, PoolSteps

(* A change can make a file waver, never a wavering one steadfast.           *)
LEMMA TouchMissed == ASSUME AInv, Touch PROVE SInv'
<1>1. /\ UNCHANGED <<options, pc, pending, candidates, next, worker, slots>>
      /\ seen' = [n \in Nodes |-> seen[n] \cup {View(disk', n)}]
      /\ pc \in {"walkroot", "walk", "spawn", "send", "wait"}
  BY DEF Touch, walk
<1>2. \A n \in Nodes : seen[n] \subseteq seen'[n] /\ seen[n] # {}
  BY <1>1 DEF AInv, Inv, RInv, SeenNow
<1>3. InScopeFiles' = InScopeFiles /\ InScopeFiles \subseteq Nodes
  BY <1>1 DEF InScopeFiles, InScope, Hides, Nodes
<1>4. \A i \in 1 .. Len(candidates) : candidates[i].path \in Nodes
  BY <1>3 DEF AInv, Inv, RInv, CandidatesFromTree, FromTree
<1>5. \A e \in pending : e.path \in Nodes
  BY DEF AInv, Inv, IInv, TypeOK, WalkType
<1>6. \A n, s : Eligible(n, s)' <=> Eligible(n, s)
  BY <1>1 DEF Eligible
<1>7. \A n \in Files : Steadfast(n)' => Steadfast(n)
  <2> SUFFICES ASSUME NEW n \in Files, Steadfast(n)' PROVE Steadfast(n)
    OBVIOUS
  <2>1. PICK s \in seen'[n] : seen'[n] = {s} /\ Eligible(n, s)
    BY <1>6 DEF Steadfast
  <2>2. seen[n] = {s}
    BY <1>2, <2>1 DEF Nodes
  <2> QED BY <1>3, <2>1, <2>2 DEF Steadfast
<1>8. NoneMissed'
  <2>1. \A n : (Ahead(n)' <=> Ahead(n)) /\ (Collected(n)' <=> Collected(n))
    BY <1>1 DEF Ahead, Collected
  <2> QED BY <1>1, <1>7, <2>1 DEF NoneMissed, AInv, SInv
<1>9. EntryTypes'
  BY <1>1, <1>2, <1>5 DEF EntryTypes, AInv, SInv
<1>10. CandidatesFit'
  <2>1. \A n \in Nodes : Fits(n) => Fits(n)'
    BY <1>1, <1>2 DEF Fits
  <2> QED BY <1>1, <1>4, <2>1 DEF CandidatesFit, AInv, SInv
<1>11. Attended'
  <2>1. \A i \in 1 .. Len(candidates) : Settled(i) => Settled(i)'
    BY <1>1, <1>2, <1>4 DEF Settled
  <2>2. \A i : Held(i)' <=> Held(i)
    BY <1>1 DEF Held, Busy
  <2>3. pc \in {"send", "wait"} => 1 .. next - 1 \subseteq 1 .. Len(candidates)
    <3>1. Len(candidates) \in Nat /\ next \in Nat
      BY LenProperties DEF AInv, Inv, IInv, TypeOK, WalkType, PoolType
    <3> QED BY <3>1 DEF AInv, Inv, IInv, StageInv, PoolRuns
  <2> QED BY <1>1, <2>1, <2>2, <2>3 DEF Attended, AInv, SInv
<1> QED BY <1>8, <1>9, <1>10, <1>11 DEF SInv

LEMMA NextMissed == AInv /\ [Next]_vars => AInv'
<1> SUFFICES ASSUME AInv, [Next]_vars PROVE SInv'
  BY NextReport DEF AInv
<1>1. CASE MainStep
  BY <1>1, LstatMissed, WalkRootMissed, VisitDirMissed, VisitFileMissed, WalkDoneMissed,
     SpawnMissed, CloseMissed, WaitMissed, GatherMissed DEF MainStep
<1>2. ASSUME NEW w \in Pool, WorkerStep(w) PROVE SInv'
  BY <1>2, HandoffMissed, OpenFileMissed, ReadRestMissed, StoreSlotMissed, WorkerExitMissed DEF WorkerStep
<1>3. CASE Touch
  BY <1>3, TouchMissed
<1>4. CASE UNCHANGED vars
  <2>1. NoneMissed'
    BY <1>4, SteadyToo DEF vars, NoneMissed, Ahead, Collected, AInv, SInv
  <2>2. EntryTypes' /\ CandidatesFit'
    BY <1>4, SteadyToo DEF vars, EntryTypes, CandidatesFit, AInv, SInv
  <2>3. Attended'
    BY <1>4 DEF vars, Attended, Held, Settled, Busy, AInv, SInv
  <2> QED BY <2>1, <2>2, <2>3 DEF SInv
<1> QED BY <1>1, <1>2, <1>3, <1>4 DEF Next, Terminated

(* Whatever others do to the rest of the tree, a file that stays as it was is *)
(* reported exactly: the walk cannot lose it, its content is what a goroutine *)
(* read, and nothing that is not to be read becomes a candidate.             *)
THEOREM StableFilesReported == Spec => []StableFilesExact
<1>1. AInv => StableFilesExact
  <2> SUFFICES ASSUME AInv, pc = "done", NEW n \in InScopeFiles, NEW s \in seen[n], seen[n] = {s}
               PROVE  Reported(n) = IF Eligible(n, s) /\ s.content # Unreadable
                                      THEN Stamped(n, s.mode, s.content) ELSE {}
    BY DEF StableFilesExact
  <2>1. /\ Len(slots) = Len(candidates) /\ next = Len(candidates) + 1 /\ Len(candidates) \in Nat
        /\ DOMAIN findings = 1 .. Len(findings)
    BY LenProperties DEF AInv, Inv, IInv, TypeOK, OutType, WalkType, StageInv, AfterPool
  <2>2. n \in Files
    BY DEF InScopeFiles
  <2>3. ASSUME NEW i \in 1 .. Len(candidates), candidates[i].path = n, slots[i].read
        PROVE  /\ Eligible(n, s) /\ s.content \in Contents
               /\ slots[i].findings = Stamp(candidates[i], s.content) /\ candidates[i].mode = s.mode
    <3>1. PICK c \in Texts : Had(n, c) /\ slots[i].findings = Stamp(candidates[i], c)
      BY <2>1, <2>3 DEF AInv, Inv, RInv, SlotsSeen
    <3>2. s.content \in Contents /\ c = s.content
      BY <3>1, DataAssumption DEF Had
    <3>3. FromTree(candidates[i]) /\ Fits(n)
      BY <2>3 DEF AInv, Inv, RInv, CandidatesFromTree, SInv, CandidatesFit
    <3>4. Eligible(n, s) /\ candidates[i].mode = s.mode
      BY <2>3, <3>3 DEF FromTree, Fits, Eligible
    <3> QED BY <3>1, <3>2, <3>4
  <2>4. ASSUME NEW i \in 1 .. Len(candidates), candidates[i].path = n, slots[i].read, NEW f
        PROVE  InSlot(f, i) <=> f \in Stamped(n, s.mode, s.content)
    <3>1. s.content \in Contents
      BY <2>3, <2>4
    <3>2. Len(Parse[s.content]) \in Nat /\ DOMAIN Parse[s.content] = 1 .. Len(Parse[s.content])
      BY <3>1, DataAssumption, LenProperties
    <3>3. slots[i].findings = [j \in 1 .. Len(Parse[s.content]) |->
             [path |-> n, mode |-> s.mode, line |-> Parse[s.content][j].line,
              format |-> Parse[s.content][j].format]]
      BY <2>3, <2>4 DEF Stamp
    <3>4. Len(slots[i].findings) = Len(Parse[s.content])
      BY <3>2, <3>3
    <3> QED BY <3>2, <3>3, <3>4 DEF InSlot, Stamped
  <2>5. ASSUME NEW i \in 1 .. Len(candidates), NEW f, InSlot(f, i)
        PROVE  slots[i].read /\ f.path = candidates[i].path
    <3>1. slots[i].read
      <4>1. ~slots[i].read => slots[i].findings = <<>>
        BY <2>1 DEF AInv, Inv, RInv, SlotsSeen
      <4> QED BY <2>5, <4>1 DEF InSlot
    <3>2. PICK c \in Texts : slots[i].findings = Stamp(candidates[i], c)
      BY <2>1, <3>1 DEF AInv, Inv, RInv, SlotsSeen
    <3>3. Len(Parse[c]) \in Nat
      BY DataAssumption, LenProperties
    <3> QED BY <2>5, <3>1, <3>2, <3>3 DEF InSlot, Stamp
  <2>6. ASSUME NEW f PROVE f \in Reported(n) <=>
          \E i \in 1 .. Len(candidates) : candidates[i].path = n /\ slots[i].read /\ InSlot(f, i)
    <3>1. ASSUME f \in Reported(n)
          PROVE  \E i \in 1 .. Len(candidates) : candidates[i].path = n /\ slots[i].read /\ InSlot(f, i)
      <4>1. PICK j \in 1 .. Len(findings) : f = findings[j] /\ f.path = n
        BY <2>1, <3>1 DEF Reported
      <4>2. PICK i \in 1 .. Len(candidates) : InSlot(f, i)
        BY <2>1, <4>1 DEF AInv, Inv, RInv, Gathered
      <4> QED BY <2>5, <4>1, <4>2
    <3>2. ASSUME NEW i \in 1 .. Len(candidates), candidates[i].path = n, InSlot(f, i)
          PROVE  f \in Reported(n)
      <4>1. f.path = n
        BY <2>5, <3>2
      <4>2. \E j \in 1 .. Len(findings) : findings[j] = f
        <5>1. PICK k \in 1 .. Len(slots[i].findings) : slots[i].findings[k] = f
          BY <3>2 DEF InSlot
        <5>2. i \in 1 .. next - 1
          BY <2>1
        <5> QED BY <5>1, <5>2 DEF AInv, Inv, RInv, Gathered
      <4> QED BY <2>1, <4>1, <4>2 DEF Reported
    <3> QED BY <3>1, <3>2
  <2>7. CASE Eligible(n, s) /\ s.content # Unreadable
    <3>1. Steadfast(n)
      BY <2>7 DEF Steadfast
    <3>2. PICK i \in 1 .. Len(candidates) : candidates[i].path = n
      BY <2>2, <3>1 DEF AInv, SInv, NoneMissed, Collected
    <3>3. slots[i].read
      <4>1. Settled(i)
        BY DEF AInv, SInv, Attended
      <4> QED BY <2>7, <3>2, <4>1 DEF Settled
    <3>4. \A k \in 1 .. Len(candidates) : candidates[k].path = n => k = i
      BY <3>2 DEF AInv, Inv, RInv, Unnested
    <3>5. \A f : f \in Reported(n) <=> f \in Stamped(n, s.mode, s.content)
      BY <2>4, <2>6, <3>2, <3>3, <3>4
    <3>6. Reported(n) = Stamped(n, s.mode, s.content)
      BY <3>5
    <3> QED BY <2>7, <3>6
  <2>8. CASE ~(Eligible(n, s) /\ s.content # Unreadable)
    <3>1. \A f : f \notin Reported(n)
      BY <2>3, <2>6, <2>8, DataAssumption
    <3>2. Reported(n) = {}
      BY <3>1
    <3> QED BY <2>8, <3>2
  <2> QED BY <2>7, <2>8
<1>2. Init => AInv
  BY InitInv, InitReport, InitMissed DEF AInv, Inv
<1> QED BY <1>1, <1>2, NextMissed, PTL DEF Spec

-----------------------------------------------------------------------------
(* On a tree nobody changes: what the walk leaves out, and that it has not    *)
(* come to yet.                                                              *)
TooBig == {n \in InScopeFiles : View(disk, n).type = "regular" /\ View(disk, n).size > MaxSize}
Shut   == {a \in Dirs : /\ options.root \in Dirs /\ InScope(a) /\ (a = options.root \/ ~Hides(a))
                        /\ View(disk, a).type = "dir" /\ View(disk, a).content = Unreadable}
LeftOut == TooBig \cup Shut
Due(n) == \E e \in pending : e.path = n \/ (e.path \in Dirs /\ n \in Beneath[e.path])
Passed == {n \in LeftOut : ~Due(n)}

(* It is the tree of the start; skipped counts what has been passed.         *)
Still == \A n \in Nodes : seen[n] = {View(disk, n)}
Present == \A e \in pending : e.type # "gone"
SkippedCounts ==
  /\ pc \in {"lstat", "walkroot"} => skipped = 0
  /\ pc = "walkroot" => View(disk, options.root).type = "dir"
  /\ pc \in {"walk", "spawn", "send", "wait", "collect", "done"} =>
       IsFiniteSet(Passed) /\ skipped = Cardinality(Passed)
CInv == Present /\ (changes = 0 => Still /\ SkippedCounts)
KInv == AInv /\ CInv

LEMMA LeftOutSteady ==
  ASSUME UNCHANGED <<disk, seen, options>>
  PROVE  LeftOut' = LeftOut
<1>1. InScopeFiles' = InScopeFiles
  BY Steady
<1>2. TooBig' = TooBig
  BY <1>1 DEF TooBig, View
<1>3. \A a : InScope(a)' <=> InScope(a)
  BY DEF InScope, Hides
<1>4. Shut' = Shut
  BY <1>3 DEF Shut, View, Hides
<1> QED BY <1>2, <1>4 DEF LeftOut

(* A path passed or not passed: one that is counted, or none.                *)
LEMMA OnePassed ==
  ASSUME CInv, pc = "walk", pc' = "walk", Present', UNCHANGED <<disk, seen, options, changes>>,
         \/ \E p \in LeftOut :
              /\ Due(p) /\ \A n \in LeftOut : Due(n)' <=> Due(n) /\ n # p
              /\ skipped' = skipped + 1
         \/ (\A n \in LeftOut : Due(n)' <=> Due(n)) /\ skipped' = skipped
  PROVE  CInv'
<1> SUFFICES ASSUME changes = 0 PROVE Still' /\ SkippedCounts'
  BY DEF CInv
<1>1. Still'
  BY DEF CInv, Still, View
<1>2. LeftOut' = LeftOut /\ IsFiniteSet(Passed) /\ skipped = Cardinality(Passed)
  BY LeftOutSteady DEF CInv, SkippedCounts
<1>3. \A n : n \in Passed' <=> n \in LeftOut /\ ~Due(n)'
  BY <1>2 DEF Passed
<1>4. \A n : n \in Passed <=> n \in LeftOut /\ ~Due(n)
  BY DEF Passed
<1>5. IsFiniteSet(Passed') /\ skipped' = Cardinality(Passed')
  <2>1. ASSUME NEW p \in LeftOut, Due(p), \A n \in LeftOut : Due(n)' <=> Due(n) /\ n # p,
               skipped' = skipped + 1
        PROVE  IsFiniteSet(Passed') /\ skipped' = Cardinality(Passed')
    <3>1. Passed' = Passed \cup {p} /\ p \notin Passed
      BY <1>3, <1>4, <2>1
    <3>2. IsFiniteSet(Passed \cup {p}) /\ Cardinality(Passed \cup {p}) = Cardinality(Passed) + 1
      BY <1>2, <3>1, FS_AddElement
    <3> QED BY <1>2, <2>1, <3>1, <3>2
  <2>2. ASSUME \A n \in LeftOut : Due(n)' <=> Due(n), skipped' = skipped
        PROVE  IsFiniteSet(Passed') /\ skipped' = Cardinality(Passed')
    <3>1. Passed' = Passed
      BY <1>3, <1>4, <2>2
    <3> QED BY <1>2, <2>2, <3>1
  <2> QED BY <2>1, <2>2
<1> QED BY <1>1, <1>5 DEF SkippedCounts

(* What is left out is the root, if that is a directory, or below it.        *)
LEMMA LeftOutBelow ==
  ASSUME AInv, options.root \in Dirs, NEW n \in LeftOut
  PROVE  /\ n \in Nodes /\ InScope(n) /\ View(disk, n).type # "gone"
         /\ n = options.root \/ n \in Beneath[options.root]
         /\ n \in Dirs => n \in Shut
         /\ n \in Files => n \in TooBig
BY TreeAssumption DEF LeftOut, TooBig, Shut, InScopeFiles, InScope, Nodes

LEMMA CountFacts ==
  ASSUME AInv
  PROVE  /\ options.root \in Nodes /\ disk \in Disk /\ changes \in Nat /\ skipped \in Nat
         /\ \A e \in pending : e.path \in Nodes /\ (e.type = "dir" => e.path \in Dirs)
                               /\ (e.type = "regular" => e.path \in Files)
BY OptionsAssumption DEF AInv, Inv, IInv, TypeOK, EnvType, WalkType

LEMMA InitCount == Init => CInv
BY DEF Init, CInv, Present, Still, SkippedCounts

LEMMA LstatCount == ASSUME KInv, LstatRoot PROVE CInv'
<1> DEFINE info == View(disk, options.root)
<1>1. /\ UNCHANGED <<disk, seen, changes, options, pending, skipped>> /\ pending = {}
      /\ pc = "lstat" /\ pc' \in {"error", "walkroot", "spawn"}
      /\ pc' = "walkroot" => info.type = "dir"
      /\ pc' = "spawn" => info.type \notin {"gone", "dir"} /\ ~(info.size > MaxSize)
  BY DEF LstatRoot, env, KInv, AInv, Inv, RInv, WalkScope
<1>2. Present'
  BY <1>1 DEF Present
<1> SUFFICES ASSUME changes = 0 PROVE Still' /\ SkippedCounts'
  BY <1>1, <1>2 DEF CInv
<1>3. Still'
  BY <1>1 DEF KInv, CInv, Still, View
<1>4. View(disk, options.root)' = info
  BY <1>1 DEF View
<1>5. skipped' = 0
  BY <1>1 DEF KInv, CInv, SkippedCounts
<1>6. ASSUME pc' = "spawn" PROVE Passed' = {}
  <2>1. options.root \in Files /\ options.root \notin Dirs
    BY <1>1, <1>6, CountFacts, StateFields, TreeAssumption DEF KInv
  <2>2. InScopeFiles \subseteq {options.root}
    BY <2>1 DEF InScopeFiles
  <2>3. TooBig = {} /\ Shut = {}
    BY <1>1, <1>6, <2>1, <2>2 DEF TooBig, Shut
  <2>4. LeftOut' = {}
    BY <1>1, <2>3, LeftOutSteady DEF LeftOut
  <2> QED BY <2>4 DEF Passed
<1>7. SkippedCounts'
  BY <1>1, <1>4, <1>5, <1>6, FS_EmptySet DEF SkippedCounts
<1> QED BY <1>3, <1>7

LEMMA WalkRootCount == ASSUME KInv, WalkRoot PROVE CInv'
<1> DEFINE info == View(disk, options.root)
           entry == [path |-> options.root, type |-> info.type]
<1>1. /\ UNCHANGED <<disk, seen, changes, options>> /\ pending = {} /\ options.root \in Dirs
      /\ pc = "walkroot" /\ pc' = "walk"
  BY DEF WalkRoot, env, KInv, AInv, Inv, RInv, WalkScope
<1>2. IF info.type = "gone" THEN pending' = {} ELSE pending' = {entry} /\ skipped' = skipped
  BY <1>1 DEF WalkRoot
<1>3. entry.path = options.root /\ entry.type = info.type
  OBVIOUS
<1> HIDE DEF entry
<1>4. Present'
  BY <1>2, <1>3 DEF Present
<1> SUFFICES ASSUME changes = 0 PROVE Still' /\ SkippedCounts'
  BY <1>1, <1>4 DEF CInv
<1>5. Still'
  BY <1>1 DEF KInv, CInv, Still, View
<1>6. info.type = "dir" /\ skipped = 0
  BY <1>1 DEF KInv, CInv, SkippedCounts
<1>7. entry \in pending' /\ skipped' = 0
  BY <1>2, <1>6
<1>8. ASSUME NEW n \in LeftOut' PROVE Due(n)'
  <2>1. n \in LeftOut
    BY <1>1, LeftOutSteady
  <2>2. n = options.root \/ n \in Beneath[options.root]
    BY <1>1, <2>1, LeftOutBelow DEF KInv
  <2> QED BY <1>1, <1>3, <1>7, <2>2 DEF Due
<1>9. Passed' = {}
  BY <1>8 DEF Passed
<1>10. SkippedCounts'
  BY <1>1, <1>7, <1>9, FS_EmptySet DEF SkippedCounts
<1> QED BY <1>5, <1>10

(* An entry is of the type its path has, on a tree nobody changes.           *)
LEMMA EntryNow ==
  ASSUME KInv, changes = 0, NEW e \in pending
  PROVE  /\ e.type = View(disk, e.path).type /\ e.type # "gone"
         /\ e.path \in Nodes /\ options.root \in Dirs /\ Reached(e.path)
         /\ e.path \in Dirs <=> e.type = "dir"
         /\ e.path \in Files <=> e.type # "dir"
<1>1. pc = "walk" /\ options.root \in Dirs /\ Reached(e.path)
  BY DEF KInv, AInv, Inv, RInv, WalkScope
<1>2. e.path \in Nodes
  BY CountFacts DEF KInv
<1>3. e.type = View(disk, e.path).type /\ e.type # "gone"
  BY <1>2 DEF KInv, CInv, Still, Present, AInv, SInv, EntryTypes
<1>4. disk \in Disk
  BY CountFacts DEF KInv
<1>5. e.path \in Dirs => View(disk, e.path).type \in {"gone", "dir"}
  BY <1>2, <1>4, StateFields, TreeAssumption
<1>6. View(disk, e.path).type = "dir" => e.path \in Dirs
  BY <1>2, <1>4, StateFields
<1> QED BY <1>1, <1>2, <1>3, <1>5, <1>6, TreeAssumption DEF Nodes

(* The other entries are of other paths, and not above this one.             *)
LEMMA OthersDue ==
  ASSUME KInv, NEW e \in pending, NEW n, n = e.path \/ (e.path \in Dirs /\ n \in Beneath[e.path])
  PROVE  \A f \in pending : f # e => f.path # n /\ (f.path \in Dirs => n \notin Beneath[f.path])
<1> SUFFICES ASSUME NEW f \in pending, f # e
             PROVE  f.path # n /\ (f.path \in Dirs => n \notin Beneath[f.path])
  OBVIOUS
<1>1. Apart(e.path, f.path) /\ Apart(f.path, e.path)
  BY DEF KInv, AInv, Inv, RInv, Unnested
<1>2. CASE n = e.path
  BY <1>1, <1>2 DEF Apart
<1>3. CASE e.path \in Dirs /\ n \in Beneath[e.path]
  <2>1. f.path # n
    BY <1>1, <1>3 DEF Apart
  <2>2. ASSUME f.path \in Dirs, n \in Beneath[f.path] PROVE FALSE
    <3>1. Beneath[e.path] \cap Beneath[f.path] # {}
      BY <1>3, <2>2
    <3>2. e.path = f.path \/ e.path \in Beneath[f.path] \/ f.path \in Beneath[e.path]
      BY <1>3, <2>2, <3>1, TreeAssumption
    <3> QED BY <1>1, <1>3, <2>2, <3>2 DEF Apart
  <2> QED BY <2>1, <2>2
<1> QED BY <1>2, <1>3

(* A directory that is skipped hides all below it; one that is shut counts    *)
(* for all below it; and the entries of any other cover all below it.        *)
LEMMA VisitDirCount == ASSUME KInv, NEW e \in pending, VisitDir(e) PROVE CInv'
<1> DEFINE d == e.path
           info == View(disk, d)
           entry(n) == [path |-> n, type |-> View(disk, n).type]
           entries == {entry(n) : n \in Children(d)}
<1>1. /\ UNCHANGED <<disk, seen, changes, options>> /\ pc = "walk" /\ pc' = "walk"
      /\ d \in Dirs /\ e.type = "dir"
  BY CountFacts DEF VisitDir, Visiting, env, KInv
<1>2. /\ Skips(d) \/ info.content = Unreadable => pending' = pending \ {e}
      /\ ~Skips(d) /\ info.content # Unreadable =>
           pending' = (pending \ {e}) \cup {x \in entries : x.type # "gone"}
      /\ skipped' = IF ~Skips(d) /\ info.content = Unreadable THEN skipped + 1 ELSE skipped
  BY DEF VisitDir
<1>3. Present'
  BY <1>2 DEF KInv, CInv, Present
<1> SUFFICES ASSUME changes = 0 PROVE CInv'
  BY <1>1, <1>3 DEF CInv
<1>4. /\ info.type = "dir" /\ d \in Nodes /\ options.root \in Dirs /\ Reached(d)
      /\ disk \in Disk
  BY <1>1, EntryNow, CountFacts DEF KInv
<1>5. ASSUME NEW n, n = d \/ n \in Beneath[d]
      PROVE  /\ Due(n)
             /\ \A f \in pending : f # e => f.path # n /\ (f.path \in Dirs => n \notin Beneath[f.path])
  BY <1>1, <1>5, OthersDue DEF Due
<1>6. ASSUME NEW n, n # d, n \notin Beneath[d], Due(n)
      PROVE  \E f \in pending \ {e} : f.path = n \/ (f.path \in Dirs /\ n \in Beneath[f.path])
  BY <1>1, <1>6 DEF Due
<1>7. ASSUME NEW n \in Beneath[d], n \in LeftOut
      PROVE  n # options.root /\ n \in Beneath[options.root] /\ InScope(n)
             /\ View(disk, n).type # "gone" /\ n \in Nodes
  BY <1>1, <1>4, <1>7, LeftOutBelow, TreeAssumption DEF KInv, Reached
<1> HIDE DEF entry
<1>8. CASE Skips(d)
  <2>1. pending' = pending \ {e} /\ skipped' = skipped
    BY <1>2, <1>8
  <2>2. d # options.root /\ d \in Beneath[options.root] /\ Hides(d)
    BY <1>4, <1>8 DEF Skips, Hides, Reached
  <2>3. d \notin LeftOut
    BY <1>1, <1>4, <2>2, LeftOutBelow DEF KInv, Shut
  <2>4. ASSUME NEW n \in Beneath[d], n \in LeftOut PROVE FALSE
    BY <1>1, <1>7, <2>2, <2>4 DEF InScope
  <2>5. ASSUME NEW n \in LeftOut PROVE Due(n)' <=> Due(n)
    <3>1. n # d /\ n \notin Beneath[d]
      BY <2>3, <2>4
    <3>2. Due(n)' => Due(n)
      BY <2>1 DEF Due
    <3> QED BY <1>6, <2>1, <3>1, <3>2 DEF Due
  <2> QED BY <1>1, <1>3, <2>1, <2>5, OnePassed DEF KInv
<1>9. CASE ~Skips(d) /\ info.content = Unreadable
  <2>1. pending' = pending \ {e} /\ skipped' = skipped + 1
    BY <1>2, <1>9
  <2>2. d \in LeftOut
    <3>1. d = options.root \/ (d \notin ExcludedPaths /\ ~Hides(d))
      BY <1>9 DEF Skips, Hides
    <3>2. InScope(d)
      BY <1>4, <3>1 DEF InScope, Reached
    <3> QED BY <1>1, <1>4, <1>9, <3>1, <3>2 DEF LeftOut, Shut
  <2>3. ASSUME NEW n \in Beneath[d], n \in LeftOut PROVE FALSE
    BY <1>1, <1>4, <1>7, <1>9, <2>3, OpenAbove
  <2>4. ~Due(d)'
    BY <1>5, <2>1 DEF Due
  <2>5. ASSUME NEW n \in LeftOut PROVE Due(n)' <=> Due(n) /\ n # d
    <3>1. CASE n = d
      BY <2>4, <3>1
    <3>2. CASE n # d
      <4>1. n \notin Beneath[d]
        BY <2>3
      <4>2. Due(n)' => Due(n)
        BY <2>1 DEF Due
      <4> QED BY <1>6, <2>1, <3>2, <4>1, <4>2 DEF Due
    <3> QED BY <3>1, <3>2
  <2>6. Due(d)
    BY <1>5
  <2> HIDE DEF d
  <2> QED BY <1>1, <1>3, <2>1, <2>2, <2>5, <2>6, OnePassed DEF KInv
<1>10. CASE ~Skips(d) /\ info.content # Unreadable
  <2>1. skipped' = skipped /\ pending \ {e} \subseteq pending'
    BY <1>2, <1>10
  <2>2. \A x \in entries : x.type # "gone" => x \in pending'
    BY <1>2, <1>10
  <2>3. \A f \in pending' : f \in pending \/ \E x \in Children(d) : f = entry(x)
    BY <1>2, <1>10
  <2>4. \A x \in Children(d) : entry(x).path = x /\ entry(x).type = View(disk, x).type
    BY DEF entry
  <2>5. d \notin LeftOut
    BY <1>1, <1>4, <1>10, LeftOutBelow DEF KInv, Shut
  <2>6. Children(d) \subseteq Beneath[d]
    BY DEF Children
  <2>7. ASSUME NEW n \in LeftOut, Due(n) PROVE Due(n)'
    <3>1. CASE n \in Beneath[d]
      <4>1. PICK x \in Children(d) : x = n \/ (x \in Dirs /\ n \in Beneath[x])
        BY <1>1, <3>1, EntryAbove
      <4>2. View(disk, x).type # "gone"
        BY <1>4, <1>7, <2>7, <3>1, <4>1, OpenAbove
      <4>3. entry(x) \in entries
        BY <4>1
      <4>4. entry(x) \in pending' /\ entry(x).path = x
        BY <2>2, <2>4, <4>1, <4>2, <4>3
      <4> QED BY <4>1, <4>4 DEF Due
    <3>2. CASE n \notin Beneath[d]
      BY <1>6, <2>1, <2>5, <2>7, <3>2 DEF Due
    <3> QED BY <3>1, <3>2
  <2>8. ASSUME NEW n \in LeftOut, Due(n)' PROVE Due(n)
    <3>1. PICK f \in pending' : f.path = n \/ (f.path \in Dirs /\ n \in Beneath[f.path])
      BY <2>8 DEF Due
    <3>2. CASE f \in pending
      BY <3>1, <3>2 DEF Due
    <3>3. ASSUME NEW x \in Children(d), f = entry(x) PROVE Due(n)
      <4>1. f.path = x /\ x \in Beneath[d]
        BY <2>4, <2>6, <3>3
      <4>2. n \in Beneath[d]
        BY <1>1, <3>1, <4>1, TreeAssumption
      <4> QED BY <1>5, <4>2
    <3> QED BY <2>3, <3>2, <3>3
  <2> QED BY <1>1, <1>3, <2>1, <2>7, <2>8, OnePassed DEF KInv
<1> QED BY <1>8, <1>9, <1>10

LEMMA VisitFileCount == ASSUME KInv, NEW e \in pending, VisitFile(e) PROVE CInv'
<1> DEFINE p == e.path
           info == View(disk, p)
           considered == e.type = "regular" /\ p \notin ExcludedPaths
           fits == info.type # "gone" /\ info.size <= MaxSize
<1>1. /\ UNCHANGED <<disk, seen, changes, options>> /\ pc = "walk" /\ pc' = "walk"
      /\ e.type # "dir" /\ pending' = pending \ {e}
      /\ skipped' = IF considered /\ ~fits THEN skipped + 1 ELSE skipped
  BY DEF VisitFile, Visiting, env
<1>2. Present'
  BY <1>1 DEF KInv, CInv, Present
<1> SUFFICES ASSUME changes = 0 PROVE CInv'
  BY <1>1, <1>2 DEF CInv
<1>3. /\ info.type = e.type /\ e.type # "gone" /\ p \in Files /\ p \in Nodes /\ p \notin Dirs
      /\ options.root \in Dirs /\ Reached(p) /\ disk \in Disk
  BY <1>1, EntryNow, CountFacts, TreeAssumption DEF KInv
<1>4. info.size \in Nat /\ MaxSize \in Nat
  BY <1>3, StateFields, SizeIsNat, DataAssumption
<1>5. p \in LeftOut <=> considered /\ ~fits
  <2>1. p \in LeftOut <=> p \in InScopeFiles /\ e.type = "regular" /\ info.size > MaxSize
    BY <1>3 DEF LeftOut, TooBig, Shut
  <2>2. p \in InScopeFiles <=> p \notin ExcludedPaths
    <3>1. p # options.root
      BY <1>3
    <3> QED BY <1>3, <3>1, ReachedInScope DEF InScopeFiles, InScope
  <2> QED BY <1>3, <1>4, <2>1, <2>2
<1>6. Due(p) /\ ~Due(p)'
  BY <1>1, OthersDue DEF Due
<1>7. ASSUME NEW n, n # p PROVE Due(n)' <=> Due(n)
  BY <1>1, <1>3, <1>7 DEF Due
<1> HIDE DEF p, considered, fits
<1>8. CASE p \in LeftOut
  BY <1>1, <1>2, <1>5, <1>6, <1>7, <1>8, OnePassed DEF KInv
<1>9. CASE p \notin LeftOut
  BY <1>1, <1>2, <1>5, <1>7, <1>9, OnePassed DEF KInv
<1> QED BY <1>8, <1>9

(* Nothing is skipped once the walk is over. *)
CountSteps == {"walk", "spawn", "send", "wait", "collect", "done"}
LEMMA WalkedCount ==
  ASSUME KInv, UNCHANGED <<env, pending, skipped>>,
         pc' = pc \/ (pc \in CountSteps /\ pc' \in CountSteps)
  PROVE  CInv'
<1>1. LeftOut' = LeftOut /\ Present'
  BY LeftOutSteady DEF env, KInv, CInv, Present
<1>2. Passed' = Passed
  BY <1>1 DEF Passed, Due
<1> SUFFICES ASSUME changes = 0 PROVE Still' /\ SkippedCounts'
  BY <1>1 DEF CInv, env
<1>3. Still'
  BY DEF KInv, CInv, Still, View, env
<1>4. SkippedCounts'
  BY <1>2 DEF KInv, CInv, SkippedCounts, View, env, CountSteps
<1> QED BY <1>3, <1>4

LEMMA NextCount == KInv /\ [Next]_vars => KInv'
<1> SUFFICES ASSUME KInv, [Next]_vars PROVE CInv'
  BY NextMissed DEF KInv
<1>1. CASE LstatRoot \/ WalkRoot \/ \E e \in pending : VisitDir(e) \/ VisitFile(e)
  BY <1>1, LstatCount, WalkRootCount, VisitDirCount, VisitFileCount
<1>2. CASE WalkDone \/ Spawn \/ CloseWork \/ WaitDone \/ Collect \/ Sort
  BY <1>2, WalkedCount DEF WalkDone, Spawn, CloseWork, WaitDone, Collect, Sort, walk, CountSteps
<1>3. ASSUME NEW w \in Pool, WorkerStep(w) PROVE CInv'
  BY <1>3, WalkedCount DEF WorkerStep, Handoff, OpenFile, ReadRest, StoreSlot, WorkerExit, walk
<1>4. CASE Touch
  <2>1. changes \in Nat /\ changes' = changes + 1 /\ pending' = pending
    BY <1>4, CountFacts DEF Touch, walk, KInv
  <2> QED BY <2>1 DEF KInv, CInv, Present
<1>5. CASE UNCHANGED vars
  BY <1>5, WalkedCount DEF vars, env
<1> QED BY <1>1, <1>2, <1>3, <1>4, <1>5 DEF Next, MainStep, Terminated

(* Paths are counted as candidates are: no two candidates share one.         *)
LEMMA PathsCounted ==
  ASSUME Inv, NEW T \in SUBSET (1 .. Len(candidates))
  PROVE  /\ IsFiniteSet(T) /\ IsFiniteSet({candidates[i].path : i \in T})
         /\ Cardinality({candidates[i].path : i \in T}) = Cardinality(T)
<1> DEFINE f == [i \in T |-> candidates[i].path]
           paths == {candidates[i].path : i \in T}
<1>1. Len(candidates) \in Nat
  BY LenProperties DEF Inv, IInv, TypeOK, WalkType
<1>2. IsFiniteSet(T)
  <2>1. IsFiniteSet(1 .. Len(candidates))
    BY <1>1, FS_Interval
  <2> QED BY <2>1, FS_Subset
<1>3. \A i, j \in T : candidates[i].path = candidates[j].path => i = j
  BY DEF Inv, RInv, Unnested
<1>4. f \in Bijection(T, paths)
  BY <1>3 DEF Bijection, Injection, Surjection, IsInjective
<1>5. ExistsBijection(T, paths)
  BY <1>4 DEF ExistsBijection
<1> QED BY <1>2, <1>5, FS_Bijection

(* Two sets apart, and together: as many as in both.                         *)
LEMMA TwoParts ==
  ASSUME NEW S, NEW T, IsFiniteSet(S), IsFiniteSet(T), S \cap T = {}
  PROVE  Cardinality(S \cup T) = Cardinality(S) + Cardinality(T)
<1>1. Cardinality(S \cup T) = Cardinality(S) + Cardinality(T) - Cardinality(S \cap T)
  BY FS_Union
<1>2. Cardinality(S \cap T) = 0
  BY FS_EmptySet
<1>3. Cardinality(S) \in Nat /\ Cardinality(T) \in Nat
  BY FS_CardinalityType
<1> QED BY <1>1, <1>2, <1>3

(* On a tree nobody changes a report's counters say exactly what was left     *)
(* out: the walk counts each path it leaves out once, when it comes to it,   *)
(* and the pool each candidate it cannot read (walk.go:75-133, 178-185).     *)
THEOREM CountersExact == Spec => []CountsExact
<1>1. KInv => CountsExact
  <2> SUFFICES ASSUME KInv, pc = "done", changes = 0 PROVE CountsExact
    BY DEF CountsExact
  <2> DEFINE at(n) == View(disk, n)
             files == {n \in InScopeFiles :
                         at(n).type = "regular" \/ (n = options.root /\ Eligible(n, at(n)))}
             read  == {n \in files : at(n).size <= MaxSize /\ at(n).content # Unreadable}
             unread == {n \in files : at(n).size <= MaxSize /\ at(n).content = Unreadable}
             all == 1 .. Len(candidates)
             lost == all \ ReadSlots(Len(candidates))
  <2>1. /\ AInv /\ Inv /\ Still /\ pending = {} /\ Len(candidates) \in Nat /\ disk \in Disk
        /\ scanned \in Nat /\ unreadable \in Nat /\ skipped \in Nat
        /\ Len(slots) = Len(candidates) /\ next = Len(candidates) + 1
        /\ scanned = Cardinality(ReadSlots(Len(candidates)))
        /\ scanned + unreadable = Len(candidates)
    BY LenProperties DEF KInv, CInv, AInv, Inv, IInv, RInv, WalkScope, TypeOK, EnvType, WalkType,
       OutType, StageInv, AfterPool
  <2>2. ASSUME NEW n \in InScopeFiles
        PROVE  n \in Files /\ n \in Nodes /\ at(n).size \in Nat /\ MaxSize \in Nat
               /\ seen[n] = {at(n)}
    <3>1. n \in Files /\ n \in Nodes
      BY DEF InScopeFiles, Nodes
    <3>2. at(n).size \in Nat
      BY <2>1, <3>1, StateFields, SizeIsNat
    <3> QED BY <2>1, <3>1, <3>2, DataAssumption DEF Still
  <2>3. ASSUME NEW i \in all
        PROVE  LET n == candidates[i].path IN
               /\ n \in files /\ at(n).size <= MaxSize
               /\ slots[i].read <=> at(n).content # Unreadable
    <3> DEFINE n == candidates[i].path
    <3>1. n \in InScopeFiles
      BY <2>1 DEF Inv, RInv, CandidatesFromTree, FromTree
    <3>2. Fits(n)
      BY <2>1 DEF AInv, SInv, CandidatesFit
    <3>3. n \in files /\ at(n).size <= MaxSize
      BY <2>2, <3>1, <3>2 DEF Fits, Eligible
    <3>4. ASSUME slots[i].read PROVE at(n).content # Unreadable
      <4>1. \E c \in Texts : Had(n, c)
        BY <2>1, <3>4 DEF Inv, RInv, SlotsSeen
      <4> QED BY <2>2, <3>1, <4>1, DataAssumption DEF Had
    <3>5. ASSUME ~slots[i].read PROVE at(n).content = Unreadable
      <4>1. Settled(i)
        BY <2>1 DEF AInv, SInv, Attended
      <4> QED BY <2>2, <3>1, <3>5, <4>1 DEF Settled
    <3> QED BY <3>3, <3>4, <3>5
  <2>4. ASSUME NEW n \in files, at(n).size <= MaxSize
        PROVE  \E i \in all : candidates[i].path = n
    <3>1. Steadfast(n) /\ n \in Files
      BY <2>2, <2>4 DEF Steadfast, Eligible
    <3> QED BY <2>1, <3>1 DEF AInv, SInv, NoneMissed, Collected
  <2> HIDE DEF files
  <2>5. ReadSlots(Len(candidates)) = {i \in all : slots[i].read}
    BY DEF ReadSlots
  <2>6. read = {candidates[i].path : i \in ReadSlots(Len(candidates))}
    BY <2>3, <2>4, <2>5
  <2>7. unread = {candidates[i].path : i \in lost}
    BY <2>3, <2>4, <2>5
  <2>8. ReadSlots(Len(candidates)) \subseteq all /\ lost \subseteq all
    BY <2>5
  <2>9. scanned = Cardinality(read)
    BY <2>1, <2>6, <2>8, PathsCounted
  <2>10. unreadable = Cardinality(unread) /\ IsFiniteSet(unread)
    <3>1. Cardinality(unread) = Cardinality(lost) /\ IsFiniteSet(unread)
      BY <2>1, <2>7, <2>8, PathsCounted
    <3>2. IsFiniteSet(all) /\ Cardinality(all) = Len(candidates)
      <4>1. 1 \in Int /\ Len(candidates) \in Int
        BY <2>1
      <4>2. IsFiniteSet(all) /\ Cardinality(all) = IF 1 > Len(candidates) THEN 0
                                                     ELSE Len(candidates) - 1 + 1
        BY <4>1, FS_Interval
      <4> QED BY <2>1, <4>2
    <3>3. Cardinality(lost) = Cardinality(all) - Cardinality(all \cap ReadSlots(Len(candidates)))
      BY <3>2, FS_Difference
    <3>4. all \cap ReadSlots(Len(candidates)) = ReadSlots(Len(candidates))
      BY <2>8
    <3>5. Cardinality(lost) = Len(candidates) - scanned
      BY <2>1, <3>2, <3>3, <3>4, Zenon
    <3>6. unreadable = Len(candidates) - scanned
      BY <2>1
    <3> HIDE DEF lost, unread
    <3> QED BY <3>1, <3>5, <3>6
  <2>11. skipped = Cardinality(LeftOut) /\ IsFiniteSet(LeftOut)
    <3>1. Passed = LeftOut
      BY <2>1 DEF Passed, Due
    <3> QED BY <3>1 DEF KInv, CInv, SkippedCounts
  <2>12. files \ read = TooBig \cup unread /\ TooBig \cap unread = {}
    <3>1. \A n \in TooBig : n \in files /\ ~(at(n).size <= MaxSize)
      BY <2>2 DEF TooBig, files
    <3>2. ASSUME NEW n \in files, ~(at(n).size <= MaxSize) PROVE n \in TooBig
      BY <2>2, <3>2 DEF TooBig, files, Eligible
    <3> QED BY <3>1, <3>2
  <2>13. TooBig \cap Shut = {}
    BY TreeAssumption DEF TooBig, Shut, InScopeFiles
  <2>14. IsFiniteSet(TooBig) /\ IsFiniteSet(Shut)
    BY <2>11, FS_Subset DEF LeftOut
  <2>15. skipped + unreadable = Cardinality(files \ read) + Cardinality(Shut)
    <3>1. Cardinality(LeftOut) = Cardinality(TooBig) + Cardinality(Shut)
      BY <2>13, <2>14, TwoParts DEF LeftOut
    <3>2. Cardinality(files \ read) = Cardinality(TooBig) + Cardinality(unread)
      BY <2>10, <2>12, <2>14, TwoParts
    <3>3. /\ Cardinality(TooBig) \in Nat /\ Cardinality(Shut) \in Nat
          /\ Cardinality(unread) \in Nat
      BY <2>10, <2>14, FS_CardinalityType
    <3> HIDE DEF read, unread
    <3> QED BY <2>1, <2>10, <2>11, <3>1, <3>2, <3>3
  <2> QED BY <2>9, <2>15 DEF CountsExact, Shut, files
<1>2. Init => KInv
  BY InitInv, InitReport, InitMissed, InitCount DEF KInv, AInv, Inv
<1> QED BY <1>1, <1>2, NextCount, PTL DEF Spec
=============================================================================
