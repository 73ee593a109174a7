---------------------------- MODULE InventoryProofs ----------------------------
(***************************************************************************)
(* Sweep implements Inventory, for every tree, any number of goroutines and  *)
(* any changes by others: each step of a sweep is a step of Inventory or      *)
(* leaves every status as it is.                                             *)
(***************************************************************************)
EXTENDS SweepInventory, ReportProofs

(* The status of a candidate by who holds it, without the CHOOSEs of Status.  *)
ResultFacts(n, i) ==
  LET waiting == [at |-> "waiting", mode |-> candidates[i].mode] IN
  /\ ~HandedOut(i) => Status(n) = waiting
  /\ \A w \in Pool : worker[w].job = i /\ worker[w].at = "read" => Status(n) = waiting
  /\ \A w \in Pool : worker[w].job = i /\ worker[w].at = "rest" =>
       Status(n) = [at |-> "reading", mode |-> candidates[i].mode, content |-> worker[w].content]
  /\ \A w \in Pool : worker[w].job = i /\ worker[w].at = "store" =>
       Status(n) = [at |-> "read", findings |-> Stamp(candidates[i], worker[w].content)]
  /\ HandedOut(i) /\ (\A w \in Pool : Busy(w) => worker[w].job # i) =>
       Status(n) = IF slots[i].read THEN [at |-> "read", findings |-> slots[i].findings]
                                    ELSE [at |-> "failed"]

IsCandidate(n) == \E i \in 1 .. Len(candidates) : candidates[i].path = n
StatusFacts ==
  /\ \A n : \A i \in 1 .. Len(candidates) : candidates[i].path = n => ResultFacts(n, i)
  /\ \A n : ~IsCandidate(n) =>
       Status(n) = IF n \in ListedPaths THEN [at |-> "listed"] ELSE [at |-> "ignored"]

LEMMA StatusInv == Inv => StatusFacts
<1> SUFFICES ASSUME Inv PROVE StatusFacts
  OBVIOUS
<1>1. DOMAIN candidates = 1 .. Len(candidates)
  BY LenProperties DEF Inv, IInv, TypeOK, WalkType
<1>2. ASSUME NEW n, NEW i \in 1 .. Len(candidates), candidates[i].path = n
      PROVE  Status(n) = Result(i)
  <2> DEFINE c == CHOOSE j \in DOMAIN candidates : candidates[j].path = n
  <2>1. c \in DOMAIN candidates /\ candidates[c].path = n
    BY <1>1, <1>2
  <2>2. c = i
    BY <1>1, <1>2, <2>1 DEF Inv, RInv, Unnested
  <2>3. Status(n) = Result(c)
    BY <1>1, <1>2 DEF Status
  <2> QED BY <2>2, <2>3
<1>3. ASSUME NEW n, NEW i \in 1 .. Len(candidates), candidates[i].path = n
      PROVE  ResultFacts(n, i)
  <2>0. Status(n) = Result(i)
    BY <1>2, <1>3
  <2>1. ~HandedOut(i) => Status(n) = [at |-> "waiting", mode |-> candidates[i].mode]
    BY <2>0 DEF Result
  <2>2. ASSUME NEW w \in Pool, worker[w].job = i, worker[w].at = "read"
        PROVE  Status(n) = [at |-> "waiting", mode |-> candidates[i].mode]
    BY <2>0, <2>2 DEF Result, Holding
  <2>3. ASSUME NEW w \in Pool, worker[w].job = i, worker[w].at \in {"rest", "store"}
        PROVE  /\ HandedOut(i) /\ ~Holding("read", i) /\ Holding(worker[w].at, i)
               /\ worker[w].at = "store" => ~Holding("rest", i)
               /\ w = CHOOSE v \in Pool : worker[v].at = worker[w].at /\ worker[v].job = i
    <3> DEFINE v == CHOOSE v \in Pool : worker[v].at = worker[w].at /\ worker[v].job = i
    <3>1. \A u \in Pool : Busy(u) /\ worker[u].job = i => u = w
      BY <2>3 DEF Inv, IInv, DataRaceFree, Busy
    <3>2. v \in Pool /\ worker[v].at = worker[w].at /\ worker[v].job = i
      BY <2>3
    <3>3. v = w
      BY <2>3, <3>1, <3>2 DEF Busy
    <3>4. /\ ~Holding("read", i) /\ Holding(worker[w].at, i)
          /\ worker[w].at = "store" => ~Holding("rest", i)
      BY <2>3, <3>1 DEF Holding, Busy
    <3>5. HandedOut(i)
      <4>1. pc \in {"send", "wait"} => worker[w].job \in 1 .. next - 1
        BY <2>3 DEF Inv, IInv, StageInv, PoolRuns, Busy
      <4>2. pc \in {"send", "wait"}
        BY <2>3 DEF Inv, IInv, TypeOK, Steps, StageInv, BeforePool, DataRaceFree, Busy
      <4>3. next \in Nat
        BY DEF Inv, IInv, TypeOK, PoolType
      <4> QED BY <2>3, <4>1, <4>2, <4>3 DEF HandedOut
    <3> QED BY <3>3, <3>4, <3>5
  <2>5. ASSUME NEW w \in Pool, worker[w].job = i, worker[w].at = "rest"
        PROVE  Status(n) = [at |-> "reading", mode |-> candidates[i].mode, content |-> worker[w].content]
    BY <2>0, <2>3, <2>5 DEF Result
  <2>6. ASSUME NEW w \in Pool, worker[w].job = i, worker[w].at = "store"
        PROVE  Status(n) = [at |-> "read", findings |-> Stamp(candidates[i], worker[w].content)]
    BY <2>0, <2>3, <2>6 DEF Result
  <2>4. ASSUME HandedOut(i), \A w \in Pool : Busy(w) => worker[w].job # i
        PROVE  Status(n) = IF slots[i].read THEN [at |-> "read", findings |-> slots[i].findings]
                                            ELSE [at |-> "failed"]
    <3>1. ~Holding("read", i) /\ ~Holding("rest", i) /\ ~Holding("store", i)
      BY <2>4 DEF Holding, Busy
    <3> QED BY <2>0, <2>4, <3>1 DEF Result
  <2> QED BY <2>1, <2>2, <2>4, <2>5, <2>6 DEF ResultFacts
<1>4. ASSUME NEW n, ~IsCandidate(n)
      PROVE  Status(n) = IF n \in ListedPaths THEN [at |-> "listed"] ELSE [at |-> "ignored"]
  BY <1>1, <1>4 DEF Status, IsCandidate
<1> QED BY <1>3, <1>4 DEF StatusFacts

LEMMA StatusNext == Inv' => StatusFacts'
BY StatusInv, PTL

(* A step that changes no status is one of others' changes to Inventory.     *)
LEMMA Stutters ==
  ASSUME UNCHANGED options, pc # "done", pc' # "done", \A n \in Files : Status(n)' = Status(n)
  PROVE  Abstract!Next
<1>1. InScopeFiles' = InScopeFiles
  BY DEF InScopeFiles, InScope, Hides
<1>2. [n \in Files |-> Status(n)]' = [n \in Files |-> Status(n)]
  OBVIOUS
<1>3. Abstract!Change
  BY <1>1, <1>2 DEF Abstract!Change
<1> QED BY <1>3 DEF Abstract!Next

(* One file goes on as Inventory lets it.                                    *)
LEMMA OneFile ==
  ASSUME UNCHANGED <<options, disk>>, pc # "done", pc' # "done", NEW n \in Files,
         \A m \in Files \ {n} : Status(m)' = Status(m),
         \/ /\ Status(n) = [at |-> "listed"] /\ ~Seen(n).fits /\ Status(n)' = [at |-> "ignored"]
         \/ /\ Status(n) = [at |-> "listed"] /\ Seen(n).fits
            /\ Status(n)' = [at |-> "waiting", mode |-> Seen(n).mode]
         \/ /\ Status(n).at = "waiting" /\ IsReadable(Seen(n).content)
            /\ Status(n)' = [at |-> "reading", mode |-> Status(n).mode, content |-> Seen(n).content]
         \/ /\ Status(n).at = "waiting" /\ ~IsReadable(Seen(n).content)
            /\ Status(n)' = [at |-> "failed"]
         \/ /\ Status(n).at = "reading"
            /\ \E text \in TextsOf(Status(n).content, Seen(n).content) : Status(n)' =
                 [at |-> "read", findings |-> Stamp([path |-> n, mode |-> Status(n).mode], text)]
  PROVE  Abstract!Next
<1> DEFINE st == [m \in Files |-> Status(m)]
           view == [m \in Files |-> Seen(m)]
<1>1. InScopeFiles' = InScopeFiles /\ view' = view
  BY DEF InScopeFiles, InScope, Hides, Seen
<1>2. st' = [st EXCEPT ![n] = Status(n)']
  OBVIOUS
<1>3. st[n] = Status(n) /\ view[n] = Seen(n)
  OBVIOUS
<1>4. Abstract!Drop(n) \/ Abstract!Take(n) \/ Abstract!Begin(n) \/ Abstract!Finish(n)
  BY <1>2, <1>3 DEF Abstract!Drop, Abstract!Take, Abstract!Begin, Abstract!Finish, Abstract!Becomes,
     Abstract!Listed, Abstract!Ignored, Abstract!Waiting, Abstract!Reading, Abstract!Read, Abstract!Failed
<1>5. Abstract!Step
  BY <1>1, <1>4 DEF Abstract!Step, Abstract!NoReport
<1> QED BY <1>5 DEF Abstract!Next

(* Before the pool every candidate waits. *)
LEMMA EarlyStatus ==
  ASSUME Inv, pc \in Early, NEW n, NEW i \in 1 .. Len(candidates), candidates[i].path = n
  PROVE  Status(n) = [at |-> "waiting", mode |-> candidates[i].mode]
<1>1. next = 1 /\ ~HandedOut(i)
  BY DEF Inv, IInv, StageInv, BeforePool, Early, HandedOut
<1> QED BY <1>1, StatusInv DEF StatusFacts, ResultFacts

LEMMA EarlyStatusNext ==
  ASSUME Inv', pc' \in Early, NEW n, NEW i \in 1 .. Len(candidates'), candidates'[i].path = n
  PROVE  Status(n)' = [at |-> "waiting", mode |-> candidates'[i].mode]
<1>1. next' = 1 /\ ~HandedOut(i)'
  BY DEF Inv, IInv, StageInv, BeforePool, Early, HandedOut
<1> QED BY <1>1, StatusNext DEF StatusFacts, ResultFacts

(* A file that is no candidate is listed or is ignored. *)
LEMMA Others ==
  ASSUME Inv, NEW n, ~IsCandidate(n)
  PROVE  Status(n) = IF n \in ListedPaths THEN [at |-> "listed"] ELSE [at |-> "ignored"]
BY StatusInv DEF StatusFacts

LEMMA OthersNext ==
  ASSUME Inv', NEW n, ~IsCandidate(n)'
  PROVE  Status(n)' = IF n \in ListedPaths' THEN [at |-> "listed"] ELSE [at |-> "ignored"]
BY StatusNext DEF StatusFacts

-----------------------------------------------------------------------------
(* The walk. *)
(* What is at the path of a file is a state of a file. *)
LEMMA ViewOfFile == ASSUME NEW d \in Disk, NEW n \in Files PROVE View(d, n) \in FileStates
<1>1. n \in Nodes /\ n \notin Dirs /\ Gone \in FileStates
  BY TreeAssumption DEF Nodes, FileStates
<1>2. d[n] \in FileStates
  BY <1>1 DEF Disk, StatesOf
<1> QED BY <1>1, <1>2 DEF View

LEMMA LstatSim == ASSUME Inv, Inv', LstatRoot PROVE Abstract!Next
<1> DEFINE info == View(disk, options.root)
<1>1. /\ UNCHANGED <<options, disk>> /\ pc = "lstat" /\ pc' \in {"error", "walkroot", "spawn"}
      /\ candidates = <<>>
  BY DEF LstatRoot, env, Inv, RInv, WalkScope
<1>2. options.root \in Nodes /\ disk \in Disk
  BY OptionsAssumption DEF Inv, IInv, TypeOK, EnvType
<1>3. \A n : ~IsCandidate(n)
  BY <1>1 DEF IsCandidate
<1>4. ListedPaths = {options.root} \cap Files /\ ListedPaths' = {}
  <2>1. pending' = {}
    BY <1>1 DEF Inv, RInv, WalkScope
  <2> QED BY <1>1, <2>1 DEF ListedPaths
<1>5. CASE options.root \notin Files
  <2>1. info.type \in {"gone", "dir"}
    BY <1>2, <1>5, StateFields
  <2>2. candidates' = <<>>
    BY <2>1 DEF LstatRoot
  <2>3. \A n : ~IsCandidate(n)'
    BY <2>2 DEF IsCandidate
  <2>4. \A n : Status(n) = [at |-> "ignored"]
    BY <1>3, <1>4, <1>5, Others
  <2>5. \A n : Status(n)' = [at |-> "ignored"]
    BY <1>4, <2>3, OthersNext
  <2> QED BY <1>1, <2>4, <2>5, Stutters
<1>6. ASSUME NEW root \in Files, root = options.root PROVE Abstract!Next
  <2>1. Status(root) = [at |-> "listed"] /\ \A m \in Files \ {root} : Status(m) = [at |-> "ignored"]
    BY <1>3, <1>4, <1>6, Others
  <2>2. info.type # "dir"
    BY <1>2, <1>6, StateFields, TreeAssumption
  <2>3. Seen(root).fits <=> info.type # "gone" /\ info.size <= MaxSize
    BY <1>6 DEF Seen
  <2>4. Seen(root).mode = info.mode
    BY <1>6 DEF Seen
  <2>5. info.size \in Nat /\ MaxSize \in Nat
    <3>1. info \in FileStates
      BY <1>2, <1>6, StateFields, TreeAssumption, ViewOfFile
    <3> HIDE DEF info
    <3>2. CASE info \in {Gone, Locked}
      BY <3>2, DataAssumption DEF Gone, Locked
    <3>3. CASE info \in {Regular(c, m) : c \in Contents, m \in Modes}
      BY <3>3, DataAssumption DEF Regular
    <3>4. CASE info \in {Link(c) : c \in Contents \cup {Unreadable}}
      BY <3>4, DataAssumption DEF Link
    <3> QED BY <3>1, <3>2, <3>3, <3>4 DEF FileStates
  <2>6. CASE pc' = "spawn"
    <3> DEFINE only == [path |-> root, mode |-> info.mode]
    <3>1. candidates' = <<only>> /\ info.type # "gone" /\ ~(info.size > MaxSize)
      BY <1>6, <2>2, <2>6 DEF LstatRoot
    <3>2. only.path = root /\ only.mode = info.mode /\ Seen(root).fits
      BY <2>3, <2>5, <3>1
    <3> HIDE DEF only, info
    <3>3. Len(candidates') = 1 /\ candidates'[1] = only
      BY <3>1
    <3>4. Status(root)' = [at |-> "waiting", mode |-> Seen(root).mode]
      BY <2>4, <2>6, <3>2, <3>3, EarlyStatusNext DEF Early
    <3>5. ASSUME NEW m \in Files \ {root} PROVE Status(m)' = Status(m)
      <4>1. ~IsCandidate(m)'
        BY <3>2, <3>3 DEF IsCandidate
      <4> QED BY <1>4, <2>1, <4>1, OthersNext
    <3> QED BY <1>1, <2>1, <2>6, <3>2, <3>4, <3>5, OneFile
  <2>7. CASE pc' # "spawn"
    <3>1. candidates' = <<>> /\ (info.type = "gone" \/ info.size > MaxSize)
      BY <1>1, <1>6, <2>2, <2>7 DEF LstatRoot
    <3>2. ~Seen(root).fits
      BY <2>3, <2>5, <3>1
    <3>3. \A n : ~IsCandidate(n)'
      BY <3>1 DEF IsCandidate
    <3>4. \A n : Status(n)' = [at |-> "ignored"]
      BY <1>4, <3>3, OthersNext
    <3> QED BY <1>1, <2>1, <3>2, <3>4, OneFile
  <2> QED BY <2>6, <2>7
<1> QED BY <1>5, <1>6

(* Steps of the walk that change neither the candidates nor what is listed.  *)
LEMMA WalkStutters ==
  ASSUME Inv, Inv', UNCHANGED <<options, candidates>>, pc \in Early, pc' \in Early,
         ListedPaths' = ListedPaths
  PROVE  Abstract!Next
<1>1. ASSUME NEW n \in Files PROVE Status(n)' = Status(n)
  <2>1. CASE IsCandidate(n)
    <3>1. PICK i \in 1 .. Len(candidates) : candidates[i].path = n
      BY <2>1 DEF IsCandidate
    <3> QED BY <3>1, EarlyStatus, EarlyStatusNext
  <2>2. CASE ~IsCandidate(n)
    <3>1. ~IsCandidate(n)'
      BY <2>2 DEF IsCandidate
    <3> QED BY <2>2, <3>1, Others, OthersNext
  <2> QED BY <2>1, <2>2
<1> QED BY <1>1, Stutters DEF Early

LEMMA WalkRootSim == ASSUME Inv, Inv', WalkRoot PROVE Abstract!Next
<1>1. /\ UNCHANGED <<options, candidates>> /\ pc = "walkroot" /\ pc' = "walk" /\ pending = {}
      /\ options.root \in Dirs /\ \A e \in pending' : e.path = options.root
  BY DEF WalkRoot, env, Inv, RInv, WalkScope
<1>2. ListedPaths = {} /\ ListedPaths' = {}
  <2>1. InScopeFiles' \subseteq Files /\ options.root \notin Files
    BY <1>1, TreeAssumption DEF InScopeFiles
  <2> QED BY <1>1, <2>1 DEF ListedPaths
<1> QED BY <1>1, <1>2, WalkStutters DEF Early

LEMMA WalkDoneSim == ASSUME Inv, Inv', WalkDone PROVE Abstract!Next
<1>1. UNCHANGED <<options, candidates, pending>> /\ pc = "walk" /\ pc' = "spawn"
  BY DEF WalkDone, env, walk
<1>2. InScopeFiles' = InScopeFiles
  BY <1>1 DEF InScopeFiles, InScope, Hides
<1>3. ListedPaths' = ListedPaths
  BY <1>1, <1>2 DEF ListedPaths
<1> QED BY <1>1, <1>3, WalkStutters DEF Early

LEMMA SpawnSim == ASSUME Inv, Inv', Spawn PROVE Abstract!Next
<1>1. /\ UNCHANGED <<options, candidates, pending, next>> /\ pc = "spawn" /\ pc' = "send"
      /\ next = 1 /\ pending = {}
  BY DEF Spawn, env, walk, Inv, IInv, StageInv, BeforePool, RInv, WalkScope
<1>2. ListedPaths = {} /\ ListedPaths' = {}
  BY <1>1 DEF ListedPaths
<1>3. ASSUME NEW n \in Files PROVE Status(n)' = Status(n)
  <2>1. CASE IsCandidate(n)
    <3>1. PICK i \in 1 .. Len(candidates) : candidates[i].path = n
      BY <2>1 DEF IsCandidate
    <3>2. ~HandedOut(i)'
      BY <1>1, <3>1 DEF HandedOut
    <3>3. Status(n)' = [at |-> "waiting", mode |-> candidates[i].mode]
      BY <1>1, <3>1, <3>2, StatusNext DEF StatusFacts, ResultFacts
    <3> QED BY <1>1, <3>1, <3>3, EarlyStatus DEF Early
  <2>2. CASE ~IsCandidate(n)
    <3>1. ~IsCandidate(n)'
      BY <1>1, <2>2 DEF IsCandidate
    <3> QED BY <1>2, <2>2, <3>1, Others, OthersNext
  <2> QED BY <2>1, <2>2
<1> QED BY <1>1, <1>3, Stutters

(* The files of a directory are listed as its entries say, all at once.      *)
LEMMA VisitDirSim == ASSUME Inv, Inv', NEW e \in pending, VisitDir(e) PROVE Abstract!Next
<1> DEFINE entries == {[path |-> n, type |-> View(disk, n).type] : n \in Children(e.path)}
           S == ListedPaths' \ ListedPaths
           st == [m \in Files |-> Status(m)]
           view == [m \in Files |-> Seen(m)]
<1>1. /\ UNCHANGED <<options, disk, candidates>> /\ pc = "walk" /\ pc' = "walk" /\ e.type = "dir"
      /\ options.root \in Dirs
  BY DEF VisitDir, Visiting, env, Inv, RInv, WalkScope
<1>2. InScopeFiles' = InScopeFiles /\ InScopeFiles \subseteq Files
  BY <1>1 DEF InScopeFiles, InScope, Hides
<1>3. pending' \subseteq pending \cup entries /\ pending \ {e} \subseteq pending'
  BY DEF VisitDir
<1>4. \A x \in entries : x.type = View(disk, x.path).type
  OBVIOUS
<1> HIDE DEF entries
<1>5. ListedPaths \subseteq ListedPaths'
  BY <1>1, <1>2, <1>3 DEF ListedPaths
<1>6. ASSUME NEW n \in S
      PROVE  n \in InScopeFiles /\ n \in Files /\ Seen(n).regular /\ n \notin ListedPaths /\ ~IsCandidate(n)
  <2>1. n \in InScopeFiles /\ n \in Files /\ n \notin ListedPaths
    BY <1>1, <1>2 DEF ListedPaths
  <2>2. PICK x \in pending' : x.type = "regular" /\ x.path = n
    BY <1>1 DEF ListedPaths
  <2>3. x \in entries
    BY <1>1, <1>3, <2>1, <2>2 DEF ListedPaths
  <2>4. View(disk, n).type = "regular"
    BY <1>4, <2>2, <2>3
  <2>5. Seen(n).regular
    BY <2>4 DEF Seen
  <2>6. \A i \in 1 .. Len(candidates') : Apart(candidates'[i].path, x.path)
    BY DEF Inv, RInv, Unnested
  <2>7. ~IsCandidate(n)
    BY <1>1, <2>2, <2>6 DEF Apart, IsCandidate
  <2> QED BY <2>1, <2>5, <2>7
<1>7. ASSUME NEW n \in Files, n \in S
      PROVE  Status(n) = [at |-> "ignored"] /\ Status(n)' = [at |-> "listed"]
  <2>1. ~IsCandidate(n) /\ ~IsCandidate(n)' /\ n \notin ListedPaths /\ n \in ListedPaths'
    BY <1>1, <1>6, <1>7 DEF IsCandidate
  <2> QED BY <2>1, Others, OthersNext
<1>8. ASSUME NEW n \in Files, n \notin S PROVE Status(n)' = Status(n)
  <2>1. CASE IsCandidate(n)
    <3>1. PICK i \in 1 .. Len(candidates) : candidates[i].path = n
      BY <2>1 DEF IsCandidate
    <3> QED BY <1>1, <3>1, EarlyStatus, EarlyStatusNext DEF Early
  <2>2. CASE ~IsCandidate(n)
    <3>1. ~IsCandidate(n)'
      BY <1>1, <2>2 DEF IsCandidate
    <3>2. n \in ListedPaths' <=> n \in ListedPaths
      BY <1>5, <1>8
    <3> QED BY <2>2, <3>1, <3>2, Others, OthersNext
  <2> QED BY <2>1, <2>2
<1>9. view' = view
  BY <1>1 DEF Seen
<1>10. \A n \in S : st[n] = [at |-> "ignored"] /\ view[n].regular
  BY <1>6, <1>7
<1>11. st' = [n \in Files |-> IF n \in S THEN [at |-> "listed"] ELSE st[n]]
  BY <1>7, <1>8
<1>12. S \in SUBSET InScopeFiles
  BY <1>6
<1> HIDE DEF S
<1>13. Abstract!List(S)
  BY <1>10, <1>11 DEF Abstract!List, Abstract!Ignored, Abstract!Listed
<1>14. Abstract!Step
  BY <1>1, <1>2, <1>9, <1>12, <1>13 DEF Abstract!Step, Abstract!NoReport
<1> QED BY <1>14 DEF Abstract!Next

LEMMA VisitFileSim == ASSUME Inv, Inv', NEW e \in pending, VisitFile(e) PROVE Abstract!Next
<1> DEFINE info == View(disk, e.path)
<1>1. /\ UNCHANGED <<options, disk>> /\ pc = "walk" /\ pc' = "walk" /\ pending' = pending \ {e}
      /\ options.root \in Dirs /\ Reached(e.path)
  BY DEF VisitFile, Visiting, env, Inv, RInv, WalkScope
<1>2. InScopeFiles' = InScopeFiles
  BY <1>1 DEF InScopeFiles, InScope, Hides
<1>3. CASE e.type # "regular" \/ e.path \in ExcludedPaths
  <2>1. candidates' = candidates
    BY <1>3 DEF VisitFile
  <2>2. e.type = "regular" => e.path \notin InScopeFiles
    BY <1>1, <1>3, TreeAssumption DEF InScopeFiles, InScope
  <2>3. ListedPaths' = ListedPaths
    BY <1>1, <1>2, <2>2 DEF ListedPaths
  <2> QED BY <1>1, <2>1, <2>3, WalkStutters DEF Early
<1>4. ASSUME e.type = "regular", e.path \notin ExcludedPaths, NEW file \in Files, file = e.path
      PROVE  Abstract!Next
  <2>1. file \in InScopeFiles /\ file \in ListedPaths
    BY <1>1, <1>4, ReachedInScope DEF ListedPaths
  <2>2. file \notin ListedPaths'
    <3>1. \A f \in pending' : f.path # file
      BY <1>1, <1>4 DEF Inv, RInv, Unnested, Apart
    <3> QED BY <1>1, <3>1 DEF ListedPaths
  <2>3. \A m \in Files \ {file} : m \in ListedPaths' <=> m \in ListedPaths
    BY <1>1, <1>2, <1>4 DEF ListedPaths
  <2>4. ~IsCandidate(file)
    BY <1>4 DEF Inv, RInv, Unnested, Apart, IsCandidate
  <2>5. Status(file) = [at |-> "listed"]
    BY <2>1, <2>4, Others
  <2>6. Seen(file).fits <=> info.type # "gone" /\ info.size <= MaxSize
    BY <1>4 DEF Seen
  <2>7. Seen(file).mode = info.mode /\ candidates \in Seq(Candidate) /\ Len(candidates) \in Nat
    BY <1>4, LenProperties DEF Seen, Inv, IInv, TypeOK, WalkType
  <2>8. CASE Seen(file).fits
    <3> DEFINE c == [path |-> e.path, mode |-> info.mode]
    <3>1. candidates' = Append(candidates, c)
      BY <1>4, <2>6, <2>8 DEF VisitFile
    <3>2. c \in Candidate /\ c.path = file /\ c.mode = Seen(file).mode
      <4>1. info.mode \in Modes
        BY <1>4, StateFields DEF Inv, IInv, TypeOK, EnvType, Nodes
      <4> QED BY <1>4, <2>7, <4>1 DEF Candidate
    <3> HIDE DEF c
    <3>3. /\ Len(candidates') = Len(candidates) + 1 /\ candidates'[Len(candidates) + 1] = c
          /\ \A i \in 1 .. Len(candidates) : candidates'[i] = candidates[i]
      BY <2>7, <3>1, <3>2, AppendProperties
    <3>4. Status(file)' = [at |-> "waiting", mode |-> Seen(file).mode]
      BY <1>1, <2>7, <3>2, <3>3, EarlyStatusNext DEF Early
    <3>5. ASSUME NEW m \in Files \ {file} PROVE Status(m)' = Status(m)
      <4>1. CASE IsCandidate(m)
        <5>1. PICK i \in 1 .. Len(candidates) : candidates[i].path = m
          BY <4>1 DEF IsCandidate
        <5>2. i \in 1 .. Len(candidates') /\ candidates'[i] = candidates[i]
          BY <2>7, <3>3
        <5> QED BY <1>1, <5>1, <5>2, EarlyStatus, EarlyStatusNext DEF Early
      <4>2. CASE ~IsCandidate(m)
        <5>1. ~IsCandidate(m)'
          BY <2>7, <3>2, <3>3, <4>2 DEF IsCandidate
        <5> QED BY <2>3, <4>2, <5>1, Others, OthersNext
      <4> QED BY <4>1, <4>2
    <3> QED BY <1>1, <2>5, <2>8, <3>4, <3>5, OneFile
  <2>9. CASE ~Seen(file).fits
    <3>1. candidates' = candidates
      BY <1>4, <2>6, <2>9 DEF VisitFile
    <3>2. Status(file)' = [at |-> "ignored"]
      <4>1. ~IsCandidate(file)'
        BY <2>4, <3>1 DEF IsCandidate
      <4> QED BY <2>2, <4>1, OthersNext
    <3>3. ASSUME NEW m \in Files \ {file} PROVE Status(m)' = Status(m)
      <4>1. CASE IsCandidate(m)
        <5>1. PICK i \in 1 .. Len(candidates) : candidates[i].path = m
          BY <4>1 DEF IsCandidate
        <5> QED BY <1>1, <3>1, <5>1, EarlyStatus, EarlyStatusNext DEF Early
      <4>2. CASE ~IsCandidate(m)
        <5>1. ~IsCandidate(m)'
          BY <3>1, <4>2 DEF IsCandidate
        <5> QED BY <2>3, <4>2, <5>1, Others, OthersNext
      <4> QED BY <4>1, <4>2
    <3> QED BY <1>1, <2>5, <2>9, <3>2, <3>3, OneFile
  <2> QED BY <2>8, <2>9
<1>5. e.type = "regular" => e.path \in Files
  BY DEF Inv, IInv, TypeOK, WalkType
<1> QED BY <1>3, <1>4, <1>5

-----------------------------------------------------------------------------
(* The pool.  Nothing is pending, so what is no candidate is ignored.        *)
LEMMA PoolOthers ==
  ASSUME Inv, Inv', UNCHANGED candidates, pc \in {"send", "wait", "collect"},
         pc' \in {"send", "wait", "collect", "done"}, NEW n, ~IsCandidate(n)
  PROVE  Status(n) = [at |-> "ignored"] /\ Status(n)' = Status(n)
<1>1. ListedPaths = {} /\ ListedPaths' = {}
  BY DEF ListedPaths, Inv, RInv, WalkScope
<1>2. ~IsCandidate(n)'
  BY DEF IsCandidate
<1> QED BY <1>1, <1>2, Others, OthersNext

(* A candidate that the step does not concern keeps its status. *)
LEMMA SameResult ==
  ASSUME Inv, Inv', UNCHANGED candidates, NEW n, NEW i \in 1 .. Len(candidates),
         candidates[i].path = n, HandedOut(i)' <=> HandedOut(i), slots'[i] = slots[i],
         \A w \in Pool : worker[w].job = i /\ Busy(w) => worker'[w] = worker[w],
         \A w \in Pool : worker'[w].job = i /\ worker'[w].at \in {"read", "rest", "store"}
                         => worker'[w] = worker[w]
  PROVE  Status(n)' = Status(n)
<1>1. ResultFacts(n, i) /\ ResultFacts(n, i)'
  BY StatusInv, StatusNext DEF StatusFacts
<1>2. CASE ~HandedOut(i)
  BY <1>1, <1>2 DEF ResultFacts
<1>3. ASSUME NEW w \in Pool, worker[w].job = i, Busy(w) PROVE Status(n)' = Status(n)
  <2>1. worker'[w] = worker[w]
    BY <1>3
  <2>2. CASE worker[w].at = "read"
    BY <1>1, <1>3, <2>1, <2>2 DEF ResultFacts
  <2>3. CASE worker[w].at = "rest"
    BY <1>1, <1>3, <2>1, <2>3 DEF ResultFacts
  <2>4. CASE worker[w].at = "store"
    BY <1>1, <1>3, <2>1, <2>4 DEF ResultFacts
  <2> QED BY <1>3, <2>2, <2>3, <2>4 DEF Busy
<1>4. CASE HandedOut(i) /\ \A w \in Pool : Busy(w) => worker[w].job # i
  <2>1. \A w \in Pool : Busy(w)' => worker'[w].job # i
    BY <1>4 DEF Busy
  <2>2. HandedOut(i)'
    BY <1>4
  <2> QED BY <1>1, <1>4, <2>1, <2>2 DEF ResultFacts
<1> QED BY <1>2, <1>3, <1>4

LEMMA HandoffSim == ASSUME Inv, Inv', NEW w \in Pool, Handoff(w) PROVE Abstract!Next
<1>1. /\ UNCHANGED <<options, candidates, slots>> /\ pc = "send" /\ pc' = "send"
      /\ next' = next + 1 /\ next \in Nat /\ worker[w].at = "recv"
      /\ worker'[w].at = "read" /\ worker'[w].job = next
      /\ \A v \in Pool \ {w} : worker'[v] = worker[v]
  BY DEF Handoff, env, walk, Idle, Inv, IInv, TypeOK, PoolType
<1>2. ASSUME NEW n \in Files PROVE Status(n)' = Status(n)
  <2>1. ASSUME NEW i \in 1 .. Len(candidates), candidates[i].path = n, i # next
        PROVE  Status(n)' = Status(n)
    <3>1. HandedOut(i)' <=> HandedOut(i)
      BY <1>1, <2>1 DEF HandedOut
    <3>2. \A v \in Pool : worker[v].job = i /\ Busy(v) => worker'[v] = worker[v]
      BY <1>1 DEF Busy
    <3>3. \A v \in Pool : worker'[v].job = i /\ worker'[v].at \in {"read", "rest", "store"}
                           => worker'[v] = worker[v]
      BY <1>1, <2>1
    <3> QED BY <1>1, <2>1, <3>1, <3>2, <3>3, SameResult
  <2>2. ASSUME NEW i \in 1 .. Len(candidates), candidates[i].path = n, i = next
        PROVE  Status(n)' = Status(n)
    <3>1. ~HandedOut(i)
      BY <1>1, <2>2 DEF HandedOut
    <3>2. Status(n) = [at |-> "waiting", mode |-> candidates[i].mode]
      BY <2>2, <3>1, StatusInv DEF StatusFacts, ResultFacts
    <3>3. Status(n)' = [at |-> "waiting", mode |-> candidates[i].mode]
      BY <1>1, <2>2, StatusNext DEF StatusFacts, ResultFacts
    <3> QED BY <3>2, <3>3
  <2> QED BY <1>1, <2>1, <2>2, PoolOthers DEF IsCandidate
<1> QED BY <1>1, <1>2, Stutters

(* Steps that neither hand out, read nor store. *)
LEMMA PoolStutters ==
  ASSUME Inv, Inv', UNCHANGED <<options, candidates, slots>>,
         pc \in {"send", "wait", "collect"}, pc' \in {"send", "wait", "collect"},
         \A i \in 1 .. Len(candidates) : HandedOut(i)' <=> HandedOut(i),
         \A v \in Pool : Busy(v) => worker'[v] = worker[v],
         \A v \in Pool : worker'[v].at \in {"read", "rest", "store"} => worker'[v] = worker[v]
  PROVE  Abstract!Next
<1>1. ASSUME NEW n \in Files PROVE Status(n)' = Status(n)
  BY SameResult, PoolOthers DEF IsCandidate
<1> QED BY <1>1, Stutters

LEMMA CloseSim == ASSUME Inv, Inv', CloseWork PROVE Abstract!Next
<1>1. /\ UNCHANGED <<options, candidates, slots, worker, next>> /\ pc = "send" /\ pc' = "wait"
  BY DEF CloseWork, env, walk
<1>2. \A i \in 1 .. Len(candidates) : HandedOut(i)' <=> HandedOut(i)
  BY <1>1 DEF HandedOut
<1> QED BY <1>1, <1>2, PoolStutters

LEMMA WorkerExitSim == ASSUME Inv, Inv', NEW w \in Pool, WorkerExit(w) PROVE Abstract!Next
<1>1. /\ UNCHANGED <<options, candidates, slots, next>> /\ pc = "wait" /\ pc' = "wait"
      /\ worker[w].at = "recv" /\ worker'[w].at = "off"
      /\ \A v \in Pool \ {w} : worker'[v] = worker[v]
  BY DEF WorkerExit, env, walk, Idle, Inv, IInv, TypeOK, PoolType
<1>2. \A i \in 1 .. Len(candidates) : HandedOut(i)' <=> HandedOut(i)
  BY <1>1 DEF HandedOut
<1>3. /\ \A v \in Pool : Busy(v) => worker'[v] = worker[v]
      /\ \A v \in Pool : worker'[v].at \in {"read", "rest", "store"} => worker'[v] = worker[v]
  BY <1>1 DEF Busy
<1> QED BY <1>1, <1>2, <1>3, PoolStutters

(* When the pool has ended every index was handed out. *)
LEMMA WaitSim == ASSUME Inv, Inv', WaitDone PROVE Abstract!Next
<1>1. /\ UNCHANGED <<options, candidates, slots, worker>> /\ pc = "wait" /\ pc' = "collect"
      /\ next = Len(candidates) + 1 /\ Len(candidates) \in Nat
  BY LenProperties DEF WaitDone, env, walk, Inv, IInv, StageInv, PoolRuns, TypeOK, WalkType
<1>2. \A i \in 1 .. Len(candidates) : HandedOut(i)' <=> HandedOut(i)
  BY <1>1 DEF HandedOut
<1> QED BY <1>1, <1>2, PoolStutters

LEMMA CollectSim == ASSUME Inv, Inv', Collect PROVE Abstract!Next
<1>1. /\ UNCHANGED <<options, candidates, slots, worker>> /\ pc = "collect" /\ pc' = "collect"
  BY DEF Collect, env, walk
<1>2. \A i \in 1 .. Len(candidates) : HandedOut(i)' <=> HandedOut(i)
  BY <1>1 DEF HandedOut
<1> QED BY <1>1, <1>2, PoolStutters

(* Where a goroutine at work stands. *)
LEMMA BusyFacts ==
  ASSUME Inv, NEW w \in Pool, Busy(w)
  PROVE  /\ pc \in {"send", "wait"} /\ worker[w].job \in 1 .. Len(candidates)
         /\ HandedOut(worker[w].job) /\ ~slots[worker[w].job].read
         /\ Len(slots) = Len(candidates)
         /\ \A v \in Pool \ {w} : Busy(v) => worker[v].job # worker[w].job
         /\ candidates[worker[w].job] \in Candidate
<1>1. pc \in {"send", "wait"} /\ PoolRuns
  BY DEF Inv, IInv, TypeOK, Steps, StageInv, BeforePool, DataRaceFree, Busy
<1>2. Len(candidates) \in Nat /\ next \in Nat /\ candidates \in Seq(Candidate)
  BY LenProperties DEF Inv, IInv, TypeOK, WalkType, PoolType
<1>3. worker[w].job \in 1 .. next - 1 /\ worker[w].job \in 1 .. Len(candidates)
  BY <1>1, <1>2 DEF PoolRuns
<1>4. candidates[worker[w].job] \in Candidate
  BY <1>2, <1>3, ElementOfSeq
<1> QED BY <1>1, <1>2, <1>3, <1>4 DEF HandedOut, PoolRuns, DataRaceFree, Inv, IInv

(* A goroutine that moves on with its candidate concerns no other file.      *)
LEMMA OtherFile ==
  ASSUME Inv, Inv', NEW w \in Pool, Busy(w), UNCHANGED <<options, disk, pc, candidates, next, slots>>,
         \A v \in Pool \ {w} : worker'[v] = worker[v],
         worker'[w].at \in {"rest", "store"} => worker'[w].job = worker[w].job, worker'[w].at # "read",
         NEW m \in Files, m # candidates[worker[w].job].path
  PROVE  Status(m)' = Status(m)
<1>1. pc \in {"send", "wait"} /\ \A v \in Pool \ {w} : Busy(v) => worker[v].job # worker[w].job
  BY BusyFacts
<1>2. ASSUME NEW j \in 1 .. Len(candidates), candidates[j].path = m PROVE Status(m)' = Status(m)
  <2>1. j # worker[w].job
    BY <1>2
  <2>2. HandedOut(j)' <=> HandedOut(j)
    BY DEF HandedOut
  <2>3. \A v \in Pool : worker[v].job = j /\ Busy(v) => worker'[v] = worker[v]
    BY <2>1
  <2>4. \A v \in Pool : worker'[v].job = j /\ worker'[v].at \in {"read", "rest", "store"}
                         => worker'[v] = worker[v]
    BY <2>1
  <2> QED BY <1>2, <2>2, <2>3, <2>4, SameResult
<1> QED BY <1>1, <1>2, PoolOthers DEF IsCandidate

(* A file is opened where Inventory begins to read it, and read to its end   *)
(* where Inventory finishes.                                                *)
LEMMA OpenFileSim == ASSUME Inv, Inv', NEW w \in Pool, OpenFile(w) PROVE Abstract!Next
<1> DEFINE content == FileOf(w).content
           g == AfterOpen(worker[w], content)
<1>1. PICK i \in 1 .. Len(candidates) : i = worker[w].job
  <2>1. Busy(w)
    BY DEF OpenFile, Busy
  <2> QED BY <2>1, BusyFacts
<1>2. /\ Busy(w) /\ worker[w].at = "read" /\ worker \in [Pool -> Goroutine]
      /\ UNCHANGED <<options, disk, pc, candidates, next, slots>>
  BY DEF OpenFile, env, walk, Busy, Inv, IInv, TypeOK, PoolType
<1>3. /\ pc \in {"send", "wait"} /\ HandedOut(i) /\ ~slots[i].read /\ candidates[i] \in Candidate
      /\ \A v \in Pool \ {w} : Busy(v) => worker[v].job # i
  BY <1>1, <1>2, BusyFacts
<1>4. PICK n \in Files : n = candidates[i].path
  BY <1>3 DEF Candidate
<1>5. Seen(n).content = content
  BY <1>1, <1>4 DEF Seen, FileOf
<1>6. worker' = [worker EXCEPT ![w] = g]
  BY DEF OpenFile
<1> HIDE DEF content
<1>7. /\ content = Unreadable => g.at = "recv"
      /\ content # Unreadable => g.at = "rest" /\ g.job = i /\ g.content = content
  BY <1>1, <1>2 DEF AfterOpen, Idle, Goroutine
<1> HIDE DEF g
<1>8. worker'[w] = g /\ \A v \in Pool \ {w} : worker'[v] = worker[v]
  BY <1>2, <1>6
<1>9. \A m \in Files \ {n} : Status(m)' = Status(m)
  <2>1. /\ worker'[w].at \in {"rest", "store"} => worker'[w].job = worker[w].job
        /\ worker'[w].at # "read"
    BY <1>1, <1>7, <1>8
  <2> QED BY <1>1, <1>2, <1>4, <1>8, <2>1, OtherFile
<1>10. Status(n) = [at |-> "waiting", mode |-> candidates[i].mode]
  BY <1>1, <1>2, <1>4, StatusInv DEF StatusFacts, ResultFacts
<1>11. ResultFacts(n, i)'
  BY <1>2, <1>4, StatusNext DEF StatusFacts
<1>12. pc # "done" /\ pc' # "done"
  BY <1>2, <1>3
<1>13. CASE content = Unreadable
  <2>1. HandedOut(i)' /\ ~slots'[i].read
    BY <1>2, <1>3 DEF HandedOut
  <2>2. \A v \in Pool : Busy(v)' => worker'[v].job # i
    BY <1>3, <1>7, <1>8, <1>13 DEF Busy
  <2>3. Status(n)' = [at |-> "failed"]
    BY <1>11, <2>1, <2>2 DEF ResultFacts
  <2>4. Status(n).at = "waiting" /\ ~IsReadable(Seen(n).content)
    BY <1>5, <1>10, <1>13 DEF IsReadable
  <2> QED BY <1>2, <1>9, <1>12, <2>3, <2>4, OneFile
<1>14. CASE content # Unreadable
  <2>1. worker'[w].job = i /\ worker'[w].at = "rest" /\ worker'[w].content = content
    BY <1>7, <1>8, <1>14
  <2>2. Status(n)' = [at |-> "reading", mode |-> candidates[i].mode, content |-> content]
    BY <1>2, <1>11, <2>1 DEF ResultFacts
  <2>3. Status(n)' = [at |-> "reading", mode |-> Status(n).mode, content |-> Seen(n).content]
    BY <1>5, <1>10, <2>2
  <2>4. Status(n).at = "waiting" /\ IsReadable(Seen(n).content)
    BY <1>5, <1>10, <1>14 DEF IsReadable
  <2> QED BY <1>2, <1>9, <1>12, <2>3, <2>4, OneFile
<1> QED BY <1>13, <1>14

LEMMA ReadRestSim == ASSUME Inv, Inv', NEW w \in Pool, ReadRest(w) PROVE Abstract!Next
<1>1. PICK i \in 1 .. Len(candidates) : i = worker[w].job
  <2>1. Busy(w)
    BY DEF ReadRest, Busy
  <2> QED BY <2>1, BusyFacts
<1>2. /\ Busy(w) /\ worker[w].at = "rest" /\ worker \in [Pool -> Goroutine]
      /\ UNCHANGED <<options, disk, pc, candidates, next, slots>>
  BY DEF ReadRest, env, walk, Busy, Inv, IInv, TypeOK, PoolType
<1>3. pc \in {"send", "wait"} /\ candidates[i] \in Candidate
  BY <1>1, <1>2, BusyFacts
<1>4. PICK n \in Files : n = candidates[i].path
  BY <1>3 DEF Candidate
<1>5. Seen(n).content = FileOf(w).content /\ candidates[i] = [path |-> n, mode |-> candidates[i].mode]
  BY <1>1, <1>3, <1>4 DEF Seen, FileOf, Candidate
<1>6. PICK text \in TextsOf(worker[w].content, FileOf(w).content) :
        worker' = [worker EXCEPT ![w] = [@ EXCEPT !.at = "store", !.content = text]]
  BY DEF ReadRest
<1>7. /\ worker'[w].at = "store" /\ worker'[w].job = i /\ worker'[w].content = text
      /\ \A v \in Pool \ {w} : worker'[v] = worker[v]
  BY <1>1, <1>2, <1>6 DEF Goroutine
<1>8. \A m \in Files \ {n} : Status(m)' = Status(m)
  BY <1>1, <1>2, <1>4, <1>7, OtherFile
<1>9. Status(n) = [at |-> "reading", mode |-> candidates[i].mode, content |-> worker[w].content]
  BY <1>1, <1>2, <1>4, StatusInv DEF StatusFacts, ResultFacts
<1>10. Status(n)' = [at |-> "read", findings |-> Stamp(candidates[i], text)]
  <2>1. ResultFacts(n, i)'
    BY <1>2, <1>4, StatusNext DEF StatusFacts
  <2>2. candidates' = candidates /\ Stamp(candidates[i], text)' = Stamp(candidates[i], text)
    BY <1>2 DEF Stamp
  <2> QED BY <1>7, <2>1, <2>2 DEF ResultFacts
<1>11. Status(n)' = [at |-> "read", findings |-> Stamp([path |-> n, mode |-> Status(n).mode], text)]
  BY <1>5, <1>9, <1>10
<1>12. Status(n).at = "reading" /\ text \in TextsOf(Status(n).content, Seen(n).content)
  BY <1>5, <1>9
<1>13. pc # "done" /\ pc' # "done"
  BY <1>2, <1>3
<1> QED BY <1>2, <1>8, <1>11, <1>12, <1>13, OneFile

(* Storing a result shows nobody anything. *)
LEMMA StoreSlotSim == ASSUME Inv, Inv', NEW w \in Pool, StoreSlot(w) PROVE Abstract!Next
<1>1. PICK i \in 1 .. Len(candidates) : i = worker[w].job
  <2>1. Busy(w)
    BY DEF StoreSlot, Busy
  <2> QED BY <2>1, BusyFacts
<1> DEFINE fs == Stamp(candidates[i], worker[w].content)
           value == [read |-> TRUE, findings |-> fs]
<1>2. /\ Busy(w) /\ worker[w].at = "store" /\ worker \in [Pool -> Goroutine]
      /\ UNCHANGED <<options, pc, candidates, next>> /\ slots \in Seq(Slot)
  BY DEF StoreSlot, env, walk, Busy, Inv, IInv, TypeOK, PoolType
<1>3. /\ pc \in {"send", "wait"} /\ HandedOut(i) /\ Len(slots) = Len(candidates)
      /\ \A v \in Pool \ {w} : Busy(v) => worker[v].job # i
  BY <1>1, <1>2, BusyFacts
<1>4. worker'[w].at = "recv" /\ \A v \in Pool \ {w} : worker'[v] = worker[v]
  BY <1>2 DEF StoreSlot, Idle
<1>5. slots' = [slots EXCEPT ![i] = value] /\ value.read /\ value.findings = fs
  BY <1>1 DEF StoreSlot, Index
<1> HIDE DEF value, fs
<1>6. slots'[i] = value /\ \A j \in 1 .. Len(candidates) : j # i => slots'[j] = slots[j]
  BY <1>2, <1>3, <1>5, LenProperties
<1>7. ASSUME NEW n \in Files PROVE Status(n)' = Status(n)
  <2>1. ASSUME NEW j \in 1 .. Len(candidates), candidates[j].path = n, j # i
        PROVE  Status(n)' = Status(n)
    <3>1. HandedOut(j)' <=> HandedOut(j)
      BY <1>2 DEF HandedOut
    <3>2. \A v \in Pool : worker[v].job = j /\ Busy(v) => worker'[v] = worker[v]
      BY <1>1, <1>4, <2>1
    <3>3. \A v \in Pool : worker'[v].job = j /\ worker'[v].at \in {"read", "rest", "store"}
                           => worker'[v] = worker[v]
      BY <1>4
    <3> QED BY <1>2, <1>6, <2>1, <3>1, <3>2, <3>3, SameResult
  <2>2. CASE candidates[i].path = n
    <3>1. Status(n) = [at |-> "read", findings |-> fs]
      BY <1>1, <1>2, <2>2, StatusInv DEF StatusFacts, ResultFacts, fs
    <3>2. HandedOut(i)' /\ candidates'[i].path = n /\ i \in 1 .. Len(candidates')
      BY <1>2, <1>3, <2>2 DEF HandedOut
    <3>3. \A v \in Pool : Busy(v)' => worker'[v].job # i
      BY <1>3, <1>4 DEF Busy
    <3>4. Status(n)' = [at |-> "read", findings |-> fs]
      BY <1>5, <1>6, <3>2, <3>3, StatusNext DEF StatusFacts, ResultFacts
    <3> QED BY <3>1, <3>4
  <2> QED BY <1>2, <1>3, <2>1, <2>2, PoolOthers DEF IsCandidate
<1> QED BY <1>2, <1>3, <1>7, Stutters

(* The report holds what was read, and counts what was and what was not.     *)
LEMMA SortSim == ASSUME Inv, Inv', Sort PROVE Abstract!Next
<1> DEFINE st == [m \in Files |-> Status(m)]
           view == [m \in Files |-> Seen(m)]
           L == Len(candidates)
           R == ReadSlots(L)
<1>1. /\ UNCHANGED <<options, disk, candidates, slots, worker, next, scanned, unreadable>>
      /\ pc = "collect" /\ pc' = "done"
  BY DEF Sort, env, walk
<1>2. /\ L \in Nat /\ Len(slots) = L /\ next = L + 1 /\ candidates \in Seq(Candidate)
      /\ scanned = Cardinality(ReadSlots(next - 1)) /\ scanned + unreadable = next - 1
      /\ scanned \in Nat /\ unreadable \in Nat
  <2>1. AfterPool /\ WalkType /\ PoolType /\ OutType
    BY <1>1 DEF Inv, IInv, StageInv, TypeOK
  <2>2. L \in Nat /\ Len(slots) = L /\ next <= L + 1 /\ next > Len(slots) /\ next \in Nat
    BY <2>1, LenProperties DEF AfterPool, WalkType, PoolType, Sort
  <2> QED BY <2>1, <2>2 DEF AfterPool, WalkType, OutType
<1>3. scanned = Cardinality(R) /\ unreadable = L - scanned
  BY <1>2
<1>4. ASSUME NEW i \in 1 .. L
      PROVE  /\ HandedOut(i) /\ HandedOut(i)' /\ candidates[i].path \in Files
             /\ Status(candidates[i].path) =
                  IF slots[i].read THEN [at |-> "read", findings |-> slots[i].findings]
                                   ELSE [at |-> "failed"]
  <2>1. HandedOut(i) /\ HandedOut(i)'
    BY <1>1 DEF HandedOut
  <2>2. \A w \in Pool : ~Busy(w)
    BY <1>1 DEF Inv, IInv, DataRaceFree, Busy
  <2>3. candidates[i] \in Candidate
    BY <1>2, ElementOfSeq
  <2> QED BY <2>1, <2>2, <2>3, StatusInv DEF StatusFacts, ResultFacts, Candidate
<1>5. ASSUME NEW n \in Files, ~IsCandidate(n) PROVE Status(n) = [at |-> "ignored"]
  BY <1>1, <1>5, PoolOthers
<1>6. ASSUME NEW n \in Files PROVE Status(n)' = Status(n)
  <2>1. ASSUME NEW i \in 1 .. L, candidates[i].path = n PROVE Status(n)' = Status(n)
    BY <1>1, <1>4, <2>1, SameResult
  <2> QED BY <1>1, <2>1, PoolOthers DEF IsCandidate
<1>7. InScopeFiles' = InScopeFiles /\ view' = view /\ st' = st
  BY <1>1, <1>6 DEF InScopeFiles, InScope, Hides, Seen
<1>8. ASSUME NEW i \in 1 .. L, NEW n \in Files, candidates[i].path = n
      PROVE  /\ slots[i].read => st[n].at = "read" /\ st[n].findings = slots[i].findings
             /\ ~slots[i].read => st[n].at = "failed"
  <2>1. Status(n) = IF slots[i].read THEN [at |-> "read", findings |-> slots[i].findings]
                                     ELSE [at |-> "failed"]
    BY <1>4, <1>8
  <2> QED BY <2>1
<1>9. ASSUME NEW n \in Files, ~IsCandidate(n) PROVE st[n].at = "ignored"
  <2>1. Status(n) = [at |-> "ignored"]
    BY <1>5, <1>9
  <2> QED BY <2>1
<1>10. \A i \in 1 .. L : candidates[i].path \in Files
  BY <1>4
<1> HIDE DEF st
<1>11. ASSUME NEW n \in Files PROVE st[n].at \notin {"listed", "waiting", "reading"}
  BY <1>8, <1>9 DEF IsCandidate
<1> DEFINE readPaths == {n \in Files : st[n].at = "read"}
           failedPaths == {n \in Files : st[n].at = "failed"}
<1>12. ASSUME NEW i \in 1 .. L
      PROVE  /\ candidates[i].path \in readPaths <=> slots[i].read
             /\ candidates[i].path \in failedPaths <=> ~slots[i].read
             /\ slots[i].read => st[candidates[i].path].findings = slots[i].findings
  <2>1. PICK n \in Files : n = candidates[i].path
    BY <1>10
  <2> QED BY <1>8, <2>1
<1>13. ASSUME NEW n \in readPaths \cup failedPaths PROVE \E i \in 1 .. L : candidates[i].path = n
  BY <1>9 DEF IsCandidate
<1> HIDE DEF readPaths, failedPaths
<1>14. readPaths = {candidates[i].path : i \in R}
  BY <1>12, <1>13 DEF ReadSlots
<1>15. failedPaths = {candidates[i].path : i \in (1 .. L) \ R}
  BY <1>12, <1>13 DEF ReadSlots
<1>16. Cardinality(readPaths) = scanned /\ Cardinality(failedPaths) = unreadable
  <2>1. R \in SUBSET (1 .. L) /\ (1 .. L) \cap R = R
    BY DEF ReadSlots
  <2>2. IsFiniteSet(1 .. L) /\ Cardinality(1 .. L) = L
    <3>1. 1 \in Int /\ L \in Int /\ L \in Nat
      BY <1>2
    <3> HIDE DEF L
    <3>2. /\ IsFiniteSet(1 .. L)
          /\ Cardinality(1 .. L) = IF 1 > L THEN 0 ELSE L - 1 + 1
      BY <3>1, FS_Interval
    <3>3. (IF 1 > L THEN 0 ELSE L - 1 + 1) = L
      BY <3>1
    <3> QED BY <3>2, <3>3
  <2>3. Cardinality((1 .. L) \ R) = L - Cardinality(R)
    <3> HIDE DEF L, R
    <3> DEFINE all == 1 .. L
    <3>1. IsFiniteSet(all) /\ Cardinality(all) = L /\ all \cap R = R
      BY <2>1, <2>2
    <3> HIDE DEF all
    <3>2. Cardinality(all \ R) = Cardinality(all) - Cardinality(all \cap R)
      BY <3>1, FS_Difference
    <3> QED BY <3>1, <3>2 DEF all
  <2>4. Cardinality(readPaths) = Cardinality(R)
    BY <1>14, <2>1, PathsCounted
  <2>5. Cardinality(failedPaths) = Cardinality((1 .. L) \ R)
    BY <1>15, PathsCounted
  <2> QED BY <1>3, <2>3, <2>4, <2>5
<1> DEFINE held == UNION {{st[n].findings[j] : j \in DOMAIN st[n].findings} : n \in readPaths}
<1>17. {findings'[j] : j \in DOMAIN findings'} = held
  <2>1. Gathered' /\ pc' = "done" /\ DOMAIN findings' = 1 .. Len(findings') /\ next' - 1 = L
    BY <1>1, <1>2, LenProperties DEF Inv, IInv, TypeOK, OutType, RInv
  <2>2. ASSUME NEW j \in DOMAIN findings' PROVE findings'[j] \in held
    <3>1. PICK i \in 1 .. L : InSlot(findings[j], i)'
      BY <2>1, <2>2 DEF Gathered
    <3>2. PICK k \in 1 .. Len(slots[i].findings) : slots[i].findings[k] = findings'[j]
      BY <1>1, <3>1 DEF InSlot
    <3>3. slots[i].read
      BY <1>2, <3>2 DEF Inv, RInv, SlotsSeen
    <3>4. k \in DOMAIN slots[i].findings
      BY <1>1, <1>2, <3>2, SlotFindings, LenProperties
    <3> DEFINE n == candidates[i].path
    <3>5. n \in readPaths /\ st[n].findings = slots[i].findings
      BY <1>12, <3>3
    <3> QED BY <3>2, <3>4, <3>5
  <2>3. ASSUME NEW f \in held PROVE f \in {findings'[j] : j \in DOMAIN findings'}
    <3>1. PICK n \in readPaths : f \in {st[n].findings[j] : j \in DOMAIN st[n].findings}
      BY <2>3
    <3>2. PICK i \in 1 .. L : candidates[i].path = n
      BY <1>13, <3>1
    <3>3. st[n].findings = slots[i].findings
      BY <1>12, <3>1, <3>2
    <3>4. PICK k \in DOMAIN slots[i].findings : f = slots[i].findings[k]
      <4>1. PICK k \in DOMAIN st[n].findings : f = st[n].findings[k]
        BY <3>1
      <4> QED BY <3>3, <4>1
    <3>5. k \in 1 .. Len(slots[i].findings)
      BY <1>1, <1>2, <3>4, SlotFindings, LenProperties
    <3>6. PICK j \in 1 .. Len(findings') : findings'[j] = slots'[i].findings[k]
      BY <1>1, <2>1, <3>5 DEF Gathered
    <3> QED BY <1>1, <2>1, <3>4, <3>6
  <2> QED BY <2>2, <2>3
<1>18. \A i, j \in DOMAIN findings' : i < j => Less(findings'[i], findings'[j])
  BY SortOrders
<1> DEFINE rep == IF pc = "done" THEN [at |-> "returned", findings |-> findings,
                                       scanned |-> scanned, unreadable |-> unreadable]
                                 ELSE [at |-> "running"]
<1>19. /\ rep = [at |-> "running"]
       /\ rep'.findings = findings' /\ rep'.scanned = scanned /\ rep'.unreadable = unreadable
  BY <1>1
<1>20. /\ \A n \in Files : st[n].at \notin {"listed", "waiting", "reading"}
       /\ {rep'.findings[i] : i \in DOMAIN rep'.findings} = held
       /\ \A i, j \in DOMAIN rep'.findings : i < j => Less(rep'.findings[i], rep'.findings[j])
       /\ rep'.scanned = Cardinality(readPaths) /\ rep'.unreadable = Cardinality(failedPaths)
  BY <1>16, <1>17, <1>18, <1>11, <1>19
<1> HIDE DEF rep
<1>21. readPaths = Abstract!ReadPaths /\ failedPaths = Abstract!FailedPaths
  BY DEF Abstract!ReadPaths, Abstract!FailedPaths, readPaths, failedPaths, st
<1>22. held = Abstract!Held
  BY <1>21 DEF Abstract!Held, st
<1> HIDE DEF held
<1>23. rep = Abstract!NoReport /\ UNCHANGED <<InScopeFiles, view, st>>
  BY <1>7, <1>19 DEF Abstract!NoReport
<1> HIDE DEF view
<1>24. \A S : Abstract!Cardinality(S) = Cardinality(S)
  BY DEF Cardinality, Abstract!Cardinality
<1>25. /\ \A n \in Files : st[n].at \notin {"listed", "waiting", "reading"}
       /\ {rep'.findings[i] : i \in DOMAIN rep'.findings} = Abstract!Held
       /\ \A i, j \in DOMAIN rep'.findings : i < j => Less(rep'.findings[i], rep'.findings[j])
       /\ rep'.scanned = Abstract!Cardinality(Abstract!ReadPaths)
       /\ rep'.unreadable = Abstract!Cardinality(Abstract!FailedPaths)
  BY <1>20, <1>21, <1>22, <1>24
<1>26. Abstract!Publish
  BY <1>23, <1>25, Zenon DEF Abstract!Publish, st, rep, view
<1> QED BY <1>26 DEF Abstract!Next

(* What others do to the tree changes what there is to see only. *)
LEMMA TouchSim == ASSUME Inv, Inv', Touch PROVE Abstract!Next
<1>1. /\ UNCHANGED <<options, pc, pending, candidates, next, worker, slots>> /\ pc # "done"
  BY DEF Touch, walk
<1>2. InScopeFiles' = InScopeFiles
  BY <1>1 DEF InScopeFiles, InScope, Hides
<1>3. ListedPaths' = ListedPaths
  BY <1>1, <1>2 DEF ListedPaths
<1>4. \A i : HandedOut(i)' <=> HandedOut(i)
  BY <1>1 DEF HandedOut
<1>5. ASSUME NEW n \in Files PROVE Status(n)' = Status(n)
  <2>1. ASSUME NEW i \in 1 .. Len(candidates), candidates[i].path = n PROVE Status(n)' = Status(n)
    BY <1>1, <1>4, <2>1, SameResult
  <2>2. CASE ~IsCandidate(n)
    <3>1. ~IsCandidate(n)'
      BY <1>1, <2>2 DEF IsCandidate
    <3> QED BY <1>3, <2>2, <3>1, Others, OthersNext
  <2> QED BY <2>1, <2>2 DEF IsCandidate
<1> QED BY <1>1, <1>5, Stutters

LEMMA StepSim == ASSUME Inv, Inv', Next PROVE Abstract!Next \/ UNCHANGED vars
<1>1. CASE MainStep
  BY <1>1, LstatSim, WalkRootSim, VisitDirSim, VisitFileSim, WalkDoneSim, SpawnSim, CloseSim, WaitSim,
     CollectSim, SortSim DEF MainStep
<1>2. ASSUME NEW w \in Pool, WorkerStep(w) PROVE Abstract!Next
  BY <1>2, HandoffSim, OpenFileSim, ReadRestSim, StoreSlotSim, WorkerExitSim DEF WorkerStep
<1>3. CASE Touch
  BY <1>3, TouchSim
<1> QED BY <1>1, <1>2, <1>3 DEF Next, Terminated

LEMMA InitSim == Init => Abstract!Init
<1> SUFFICES ASSUME Init PROVE Abstract!Init
  OBVIOUS
<1>1. pc = "lstat" /\ Len(candidates) = 0
  BY DEF Init
<1>2. ASSUME NEW n \in Files
      PROVE  \/ Status(n) = [at |-> "ignored"]
             \/ n \in InScopeFiles /\ Status(n) = [at |-> "listed"]
  <2>1. Status(n) = IF n \in ListedPaths THEN [at |-> "listed"] ELSE [at |-> "ignored"]
    <3>1. Inv /\ ~IsCandidate(n)
      BY <1>1, InitInv, InitReport DEF Inv, IsCandidate
    <3> QED BY <3>1, Others
  <2>2. n \in ListedPaths => n \in InScopeFiles
    BY <1>1 DEF ListedPaths, InScopeFiles, InScope
  <2> QED BY <2>1, <2>2
<1> QED BY <1>1, <1>2 DEF Abstract!Init, Abstract!Ignored, Abstract!Listed, Abstract!NoReport

(* For every tree, any number of goroutines, any interleaving of theirs and   *)
(* any changes by others: what Scan does is to open single files, each at one *)
(* moment, to read each of them to its end later, and to report exactly what  *)
(* was read.                                                                *)
THEOREM SweepImplementsInventory == Spec => ImplementsInventory
<1>1. Inv /\ Inv' /\ [Next]_vars => [Abstract!Next]_<<InScopeFiles, [n \in Files |-> Seen(n)],
        [n \in Files |-> Status(n)],
        IF pc = "done" THEN [at |-> "returned", findings |-> findings, scanned |-> scanned,
                             unreadable |-> unreadable]
                       ELSE [at |-> "running"]>>
  <2> SUFFICES ASSUME Inv, Inv', [Next]_vars, ~Abstract!Next
               PROVE  UNCHANGED <<InScopeFiles, [n \in Files |-> Seen(n)],
                        [n \in Files |-> Status(n)],
                        IF pc = "done" THEN [at |-> "returned", findings |-> findings, scanned |-> scanned,
                                             unreadable |-> unreadable]
                                       ELSE [at |-> "running"]>>
    OBVIOUS
  <2>1. UNCHANGED vars
    BY StepSim
  <2> QED BY <2>1 DEF vars, InScopeFiles, InScope, Hides, Seen, Status, Result, HandedOut, Holding, ListedPaths
<1> QED BY InitSim, ReportInvariance, <1>1, PTL DEF Spec, ImplementsInventory, Abstract!Spec
=============================================================================
