----------------------------- MODULE SweepProofs -----------------------------
(***************************************************************************)
(* Proofs about Sweep, for every tree, every number of goroutines and every  *)
(* number of changes others make.  IInv is inductive; the properties follow. *)
(***************************************************************************)
EXTENDS Sweep, FiniteSetTheorems, SequenceTheorems, TLAPS

IInv == TypeOK /\ StageInv /\ DataRaceFree

(* What lstat and a read return has the fields the sweep relies on.          *)
LEMMA StateFields ==
  ASSUME NEW d \in Disk, NEW n \in Nodes
  PROVE  /\ View(d, n) \in FileStates \cup DirStates
         /\ View(d, n).type \in Types /\ View(d, n).mode \in Modes
         /\ View(d, n).type = "regular" => n \in Files
         /\ View(d, n).type = "dir" => n \in Dirs
         /\ View(d, n).type \notin {"gone", "dir"} => n \in Files
         /\ n \in Files => View(d, n).content \in Contents \cup {Unreadable}
<1>1. d[n] \in StatesOf(n) /\ Gone \in StatesOf(n)
  BY DEF Disk, StatesOf, FileStates, DirStates
<1>2. View(d, n) \in StatesOf(n)
  BY <1>1 DEF View
<1>3. CASE n \in Dirs
  BY <1>2, <1>3, TreeAssumption
  DEF StatesOf, DirStates, Gone, Directory, Types, Modes
<1>4. CASE n \notin Dirs
  BY <1>2, <1>4
  DEF StatesOf, FileStates, Gone, Locked, Regular, Link, Types, Modes, Nodes
<1> QED BY <1>3, <1>4

(* Stamping the findings of a file that was read gives findings. *)
LEMMA StampType ==
  ASSUME NEW c \in Candidate, NEW content \in Texts
  PROVE  Stamp(c, content) \in Seq(Finding)
<1> DEFINE P == Parse[content]
<1>1. P \in Seq([line : Nat, format : STRING])
  BY DataAssumption
<1>2. /\ Len(P) \in Nat /\ DOMAIN P = 1 .. Len(P)
      /\ \A j \in 1 .. Len(P) : P[j] \in [line : Nat, format : STRING]
  BY <1>1, LenProperties
<1>3. ASSUME NEW j \in 1 .. Len(P)
      PROVE  [path |-> c.path, mode |-> c.mode, line |-> P[j].line, format |-> P[j].format]
               \in Finding
  <2>1. P[j].line \in Nat
    BY <1>2
  <2>2. P[j].format \in Formats
    BY <1>2 DEF Formats
  <2>3. c.path \in Nodes /\ c.mode \in Modes
    BY DEF Candidate, Nodes
  <2> QED BY <2>1, <2>2, <2>3 DEF Finding
<1> QED BY <1>2, <1>3 DEF Stamp

LEMMA InitInv == Init => IInv
<1> SUFFICES ASSUME Init PROVE IInv
  OBVIOUS
<1>1. EnvType
  BY OptionsAssumption, StateFields DEF Init, EnvType
<1>2. WalkType /\ OutType
  BY EmptySeq DEF Init, WalkType, OutType
<1>3. PoolType /\ pc \in Steps
  BY EmptySeq DEF Init, PoolType, Idle, Goroutine, Steps
<1>4. StageInv /\ DataRaceFree
  BY DEF Init, StageInv, BeforePool, DataRaceFree, Busy, Idle
<1> QED BY <1>1, <1>2, <1>3, <1>4 DEF IInv, TypeOK

Early == {"lstat", "walkroot", "walk", "spawn", "error"}

(* Before the pool runs there is nothing to race for. *)
LEMMA EarlyStep ==
  ASSUME IInv, pc \in Early, pc' \in Early, UNCHANGED <<next, worker, slots, out>>
  PROVE  StageInv' /\ DataRaceFree' /\ PoolType' /\ OutType' /\ pc' \in Steps
<1>1. BeforePool /\ PoolType /\ OutType
  BY DEF IInv, TypeOK, StageInv, Early
<1>2. BeforePool'
  BY <1>1 DEF BeforePool, Busy, out
<1>3. PoolType' /\ OutType' /\ pc' \in Steps
  BY <1>1 DEF PoolType, OutType, out, Early, Steps
<1>4. StageInv' /\ DataRaceFree'
  BY <1>2 DEF StageInv, DataRaceFree, BeforePool, Early
<1> QED BY <1>3, <1>4

LEMMA WalkInv ==
  ASSUME IInv, LstatRoot \/ WalkRoot \/ WalkDone \/ \E e \in pending : VisitDir(e) \/ VisitFile(e)
  PROVE  IInv'
<1>0. EnvType /\ WalkType
  BY DEF IInv, TypeOK
<1>1. options.root \in Nodes /\ disk \in Disk
  BY <1>0, OptionsAssumption DEF EnvType
<1>2. EnvType' /\ UNCHANGED <<next, worker, slots, out>>
  BY <1>0 DEF LstatRoot, WalkRoot, WalkDone, VisitDir, VisitFile, env, walk, EnvType
<1>3. pc \in Early /\ pc' \in Early
  BY DEF LstatRoot, WalkRoot, WalkDone, VisitDir, VisitFile, Visiting, Early
<1>4. WalkType'
  <2>1. CASE LstatRoot
    <3> DEFINE info == View(disk, options.root)
               only == [path |-> options.root, mode |-> info.mode]
    <3>1. info.type \notin {"gone", "dir"} => options.root \in Files
      BY <1>1, StateFields
    <3>2. info.mode \in Modes
      BY <1>1, StateFields
    <3>3. candidates' = <<>> \/ (candidates' = <<only>> /\ only \in Candidate)
      BY <2>1, <3>1, <3>2 DEF LstatRoot, Candidate
    <3>4. candidates' \in Seq(Candidate)
      <4> HIDE DEF only
      <4>1. CASE candidates' = <<>>
        BY <4>1
      <4>2. CASE candidates' = <<only>> /\ only \in Candidate
        BY <4>2
      <4> QED BY <3>3, <4>1, <4>2
    <3>5. pending' = pending /\ skipped' = skipped
      BY <2>1 DEF LstatRoot
    <3> QED BY <1>0, <3>4, <3>5 DEF WalkType
  <2>2. CASE WalkRoot
    BY <2>2, <1>0, <1>1, StateFields DEF WalkRoot, WalkType
  <2>3. CASE WalkDone
    BY <1>0, <2>3 DEF WalkDone, WalkType, walk
  <2>4. ASSUME NEW e \in pending, VisitDir(e) PROVE WalkType'
    <3> DEFINE entries == {[path |-> n, type |-> View(disk, n).type] : n \in Children(e.path)}
    <3>1. e.path \in Dirs
      BY <1>0, <2>4 DEF VisitDir, WalkType
    <3>2. Children(e.path) \subseteq Nodes
      BY <3>1, TreeAssumption DEF Children
    <3>3. \A x \in entries : /\ x \in [path : Nodes, type : Types]
                             /\ x.type = "regular" => x.path \in Files
                             /\ x.type = "dir" => x.path \in Dirs
      BY <1>1, <3>2, StateFields
    <3>4. pending' \subseteq pending \cup entries
      BY <2>4 DEF VisitDir
    <3>5. candidates' = candidates
      BY <2>4 DEF VisitDir
    <3>6. skipped' \in Nat
      BY <1>0, <2>4 DEF VisitDir, WalkType
    <3> HIDE DEF entries
    <3>7. ASSUME NEW x \in pending'
          PROVE  /\ x \in [path : Nodes, type : Types]
                 /\ x.type = "regular" => x.path \in Files
                 /\ x.type = "dir" => x.path \in Dirs
      <4>1. CASE x \in pending
        BY <1>0, <4>1 DEF WalkType
      <4>2. CASE x \in entries
        BY <3>3, <4>2
      <4> QED BY <3>4, <3>7, <4>1, <4>2
    <3>8. candidates' \in Seq(Candidate)
      BY <1>0, <3>5 DEF WalkType
    <3> QED BY <3>6, <3>7, <3>8 DEF WalkType
  <2>5. ASSUME NEW e \in pending, VisitFile(e) PROVE WalkType'
    <3> DEFINE info == View(disk, e.path)
    <3>1. pending' \subseteq pending /\ skipped' \in Nat
      BY <1>0, <2>5 DEF VisitFile, WalkType
    <3>2. ASSUME e.type = "regular" PROVE [path |-> e.path, mode |-> info.mode] \in Candidate
      <4>1. e.path \in Files /\ e.path \in Nodes
        BY <1>0, <3>2 DEF WalkType, Nodes
      <4>2. info.mode \in Modes
        BY <1>1, <4>1, StateFields
      <4> QED BY <4>1, <4>2 DEF Candidate
    <3>3. \/ candidates' = candidates
          \/ e.type = "regular" /\ candidates' = Append(candidates, [path |-> e.path, mode |-> info.mode])
      BY <2>5 DEF VisitFile
    <3>4. candidates' \in Seq(Candidate)
      BY <1>0, <3>2, <3>3, AppendProperties DEF WalkType
    <3> QED BY <1>0, <3>1, <3>4 DEF WalkType
  <2> QED BY <2>1, <2>2, <2>3, <2>4, <2>5
<1> QED BY <1>2, <1>3, <1>4, EarlyStep DEF IInv, TypeOK

LEMMA SpawnInv == ASSUME IInv, Spawn PROVE IInv'
<1>1. EnvType /\ WalkType /\ PoolType /\ OutType /\ BeforePool /\ pc = "spawn"
  BY DEF IInv, TypeOK, StageInv, Spawn
<1> DEFINE n == Len(candidates)
<1>2. n \in Nat /\ NoSlot \in Slot
  BY <1>1, LenProperties, EmptySeq DEF WalkType, NoSlot, Slot
<1>3. slots' = [i \in 1 .. n |-> NoSlot] /\ slots' \in Seq(Slot) /\ Len(slots') = n
  BY <1>2 DEF Spawn
<1>4. worker' \in [Pool -> Goroutine] /\ \A w \in Pool : worker'[w].at \in {"recv", "off"}
  BY DEF Spawn, Idle, Goroutine
<1>5. EnvType' /\ WalkType' /\ OutType' /\ pc' = "send" /\ pc' \in Steps
  BY <1>1 DEF Spawn, EnvType, WalkType, OutType, env, walk, out, Steps
<1>6. PoolType'
  BY <1>1, <1>3, <1>4 DEF Spawn, PoolType
<1>7. PoolRuns'
  <2>1. Len(candidates') = n /\ next' = 1 /\ findings' = <<>> /\ scanned' = 0 /\ unreadable' = 0
    BY <1>1 DEF Spawn, BeforePool, walk, out
  <2>2. \A i \in DOMAIN slots' : ~slots'[i].read
    BY <1>2, <1>3 DEF NoSlot
  <2> QED BY <1>2, <1>3, <1>4, <1>5, <2>1, <2>2 DEF PoolRuns, Busy
<1>8. DataRaceFree'
  BY <1>4, <1>5 DEF DataRaceFree, Busy
<1> QED BY <1>5, <1>6, <1>7, <1>8 DEF IInv, TypeOK, StageInv

(* An index leaves the send loop once: it differs from all that are held,    *)
(* and its slot is still empty.                                              *)
LEMMA HandoffInv == ASSUME IInv, NEW w \in Pool, Handoff(w) PROVE IInv'
<1>1. EnvType /\ WalkType /\ PoolType /\ OutType /\ PoolRuns /\ DataRaceFree /\ pc = "send"
  BY DEF IInv, TypeOK, StageInv, Handoff
<1>2. Len(candidates) \in Nat /\ next \in 1 .. Len(candidates) /\ next' = next + 1
  BY <1>1, LenProperties DEF WalkType, PoolType, Handoff
<1>3. EnvType' /\ WalkType' /\ OutType' /\ pc' = "send" /\ pc' \in Steps
  BY <1>1 DEF Handoff, EnvType, WalkType, OutType, env, walk, out, Steps
<1>4. /\ worker' \in [Pool -> Goroutine]
      /\ worker'[w].at = "read" /\ worker'[w].job = next
      /\ \A v \in Pool \ {w} : worker'[v] = worker[v]
  BY <1>1, <1>2 DEF Handoff, PoolType, Idle, Goroutine
<1>5. PoolType'
  BY <1>1, <1>2, <1>4 DEF Handoff, PoolType
<1>6. DOMAIN slots = 1 .. Len(candidates)
  BY <1>1, LenProperties DEF PoolType, PoolRuns
<1>7. PoolRuns'
  BY <1>1, <1>2, <1>3, <1>4, <1>6 DEF Handoff, PoolRuns, Busy, walk, out
<1>8. DataRaceFree'
  <2>1. ~slots[next].read
    BY <1>1, <1>2, <1>6 DEF PoolRuns
  <2>2. \A v \in Pool : Busy(v) => worker[v].job < next
    BY <1>1, <1>2 DEF PoolRuns
  <2> QED BY <1>1, <1>2, <1>3, <1>4, <2>1, <2>2 DEF Handoff, DataRaceFree, Busy
<1> QED BY <1>3, <1>5, <1>7, <1>8 DEF IInv, TypeOK, StageInv

LEMMA CloseInv == ASSUME IInv, CloseWork PROVE IInv'
<1>1. EnvType /\ WalkType /\ PoolType /\ OutType /\ PoolRuns /\ DataRaceFree
  BY DEF IInv, TypeOK, StageInv, CloseWork
<1>2. EnvType' /\ WalkType' /\ PoolType' /\ OutType' /\ pc' = "wait" /\ pc' \in Steps
  BY <1>1 DEF CloseWork, EnvType, WalkType, PoolType, OutType, env, walk, out, Steps
<1>3. Len(candidates) \in Nat /\ next \in Nat
  BY <1>1, LenProperties DEF WalkType, PoolType
<1>4. PoolRuns'
  BY <1>1, <1>2, <1>3 DEF CloseWork, PoolRuns, Busy, walk, out
<1>5. DataRaceFree'
  BY <1>1, <1>2 DEF CloseWork, DataRaceFree, Busy
<1> QED BY <1>2, <1>4, <1>5 DEF IInv, TypeOK, StageInv

(* What a goroutine holds after each half of a read. *)
LEMMA ReadTexts ==
  ASSUME NEW c \in Contents, NEW now \in Contents \cup {Unreadable}, NEW text \in TextsOf(c, now)
  PROVE  /\ text \in Texts
         /\ text = c \/ (now \in Contents /\ text \in Mixed[c][now])
<1>1. c \in Texts /\ (now \in Contents => Mixed[c][now] \in SUBSET Texts)
  BY DataAssumption
<1> QED BY <1>1 DEF TextsOf

(* A goroutine only moves on with the index it holds. *)
LEMMA ReadStepInv ==
  ASSUME IInv, NEW w \in Pool, NEW g \in Goroutine, worker[w].at \in {"read", "rest"},
         worker' = [worker EXCEPT ![w] = g], UNCHANGED <<env, pc, walk, next, slots, out>>,
         g.at \in {"recv", "rest", "store"},
         g.at \in {"rest", "store"} => g.job = worker[w].job,
         g.at = "rest" => g.content \in Contents,
         g.at = "store" => g.content \in Texts
  PROVE  IInv'
<1>1. EnvType /\ WalkType /\ PoolType /\ OutType /\ DataRaceFree /\ Busy(w)
  BY DEF IInv, TypeOK, Busy
<1>2. pc \in {"send", "wait"} /\ PoolRuns
  BY <1>1 DEF IInv, TypeOK, Steps, StageInv, BeforePool, DataRaceFree, Busy
<1>3. EnvType' /\ WalkType' /\ OutType' /\ pc' = pc /\ pc' \in Steps
  BY <1>1, <1>2 DEF EnvType, WalkType, OutType, env, walk, out, Steps
<1>4. /\ worker' \in [Pool -> Goroutine] /\ worker'[w] = g
      /\ \A v \in Pool \ {w} : worker'[v] = worker[v]
  BY <1>1 DEF PoolType
<1>5. PoolType'
  BY <1>1, <1>4 DEF PoolType
<1>6. UNCHANGED <<candidates, slots, next, findings, scanned, unreadable>>
  BY DEF walk, out
<1>7. ASSUME NEW v \in Pool, worker'[v].at \in {"read", "rest", "store"}
       PROVE  Busy(v) /\ worker'[v].job = worker[v].job
  BY <1>1, <1>4, <1>7 DEF Busy
<1>8. PoolRuns'
  <2>1. ASSUME NEW v \in Pool
        PROVE  /\ worker'[v].at = "rest" => worker'[v].content \in Contents
               /\ worker'[v].at = "store" => worker'[v].content \in Texts
    BY <1>2, <1>4 DEF PoolRuns
  <2> QED BY <1>2, <1>3, <1>6, <1>7, <2>1 DEF PoolRuns, Busy
<1>9. DataRaceFree'
  BY <1>1, <1>2, <1>3, <1>6, <1>7 DEF DataRaceFree, Busy
<1> QED BY <1>2, <1>3, <1>5, <1>8, <1>9 DEF IInv, TypeOK, StageInv

(* The file a busy goroutine works on, and what is there.                    *)
LEMMA FileAt ==
  ASSUME IInv, NEW w \in Pool, Busy(w)
  PROVE  /\ candidates[worker[w].job].path \in Files
         /\ FileOf(w).content \in Contents \cup {Unreadable}
<1>1. EnvType /\ WalkType /\ PoolType /\ PoolRuns
  BY DEF IInv, TypeOK, Steps, StageInv, BeforePool, DataRaceFree, Busy
<1>2. worker[w].job \in 1 .. Len(candidates)
  BY <1>1, LenProperties DEF PoolRuns, PoolType, WalkType, Goroutine
<1>3. candidates[worker[w].job] \in Candidate
  BY <1>1, <1>2, ElementOfSeq DEF WalkType
<1>4. candidates[worker[w].job].path \in Files
  BY <1>3 DEF Candidate
<1> QED BY <1>1, <1>4, StateFields DEF EnvType, Nodes, FileOf

LEMMA OpenFileInv == ASSUME IInv, NEW w \in Pool, OpenFile(w) PROVE IInv'
<1> DEFINE g == AfterOpen(worker[w], FileOf(w).content)
<1>1. worker[w] \in Goroutine /\ worker[w].at = "read" /\ Busy(w)
  BY DEF IInv, TypeOK, PoolType, OpenFile, Busy
<1>2. FileOf(w).content \in Contents \cup {Unreadable}
  BY <1>1, FileAt
<1>3. /\ g \in Goroutine /\ g.at \in {"recv", "rest"}
      /\ g.at = "rest" => g.job = worker[w].job /\ g.content \in Contents
  BY <1>1, <1>2, DataAssumption DEF AfterOpen, Idle, Goroutine
<1>4. worker' = [worker EXCEPT ![w] = g] /\ UNCHANGED <<env, pc, walk, next, slots, out>>
  BY DEF OpenFile
<1> HIDE DEF g
<1> QED BY <1>1, <1>3, <1>4, ReadStepInv

LEMMA ReadRestInv == ASSUME IInv, NEW w \in Pool, ReadRest(w) PROVE IInv'
<1>1. worker[w] \in Goroutine /\ worker[w].at = "rest" /\ Busy(w)
  BY DEF IInv, TypeOK, PoolType, ReadRest, Busy
<1>2. worker[w].content \in Contents
  BY <1>1 DEF IInv, TypeOK, Steps, StageInv, BeforePool, PoolRuns, DataRaceFree, Busy
<1>3. PICK text \in TextsOf(worker[w].content, FileOf(w).content) :
        worker' = [worker EXCEPT ![w] = [@ EXCEPT !.at = "store", !.content = text]]
  BY DEF ReadRest
<1>4. text \in Texts
  BY <1>1, <1>2, FileAt, ReadTexts
<1> DEFINE g == [worker[w] EXCEPT !.at = "store", !.content = text]
<1>5. g \in Goroutine /\ g.at = "store" /\ g.job = worker[w].job /\ g.content = text
  BY <1>1, <1>4 DEF Goroutine
<1>6. worker' = [worker EXCEPT ![w] = g] /\ UNCHANGED <<env, pc, walk, next, slots, out>>
  BY <1>3 DEF ReadRest
<1> HIDE DEF g
<1> QED BY <1>1, <1>4, <1>5, <1>6, ReadStepInv

(* The slot a goroutine fills was empty and is no other's. *)
LEMMA StoreSlotInv == ASSUME IInv, NEW w \in Pool, StoreSlot(w) PROVE IInv'
<1> DEFINE i == worker[w].job
           value == [read |-> TRUE, findings |-> Stamp(candidates[i], worker[w].content)]
<1>1. EnvType /\ WalkType /\ PoolType /\ OutType /\ DataRaceFree /\ Busy(w) /\ worker[w].at = "store"
  BY DEF IInv, TypeOK, StoreSlot, Busy
<1>2. pc \in {"send", "wait"} /\ PoolRuns
  BY <1>1 DEF IInv, TypeOK, Steps, StageInv, BeforePool, DataRaceFree, Busy
<1>3. EnvType' /\ WalkType' /\ OutType' /\ pc' = pc /\ pc' \in Steps
  BY <1>1, <1>2 DEF StoreSlot, EnvType, WalkType, OutType, env, walk, out, Steps
<1>4. Len(candidates) \in Nat /\ i \in 1 .. Len(candidates) /\ i < next
  BY <1>1, <1>2, LenProperties DEF PoolRuns, PoolType, WalkType, Goroutine
<1>5. value \in Slot
  <2>1. candidates[i] \in Candidate
    BY <1>1, <1>4, ElementOfSeq DEF WalkType
  <2>2. worker[w].content \in Texts
    BY <1>1, <1>2 DEF PoolRuns
  <2> QED BY <2>1, <2>2, StampType DEF Slot
<1>6. slots' = [slots EXCEPT ![i] = value]
  BY DEF StoreSlot, Index
<1>7. worker' = [worker EXCEPT ![w] = [Idle EXCEPT !.at = "recv"]]
  BY DEF StoreSlot
<1>8. value.read
  OBVIOUS
<1> HIDE DEF value
<1>9. slots \in [1 .. Len(candidates) -> Slot] /\ Len(slots) = Len(candidates)
  BY <1>1, <1>2, LenProperties DEF PoolType, PoolRuns
<1>10. slots' \in [1 .. Len(candidates) -> Slot]
  BY <1>4, <1>5, <1>6, <1>9
<1>11. slots' \in Seq(Slot) /\ Len(slots') = Len(candidates)
  BY <1>4, <1>10
<1>12. /\ worker' \in [Pool -> Goroutine] /\ worker'[w].at = "recv"
       /\ \A v \in Pool \ {w} : worker'[v] = worker[v]
  BY <1>1, <1>7 DEF PoolType, Idle, Goroutine
<1>13. PoolType'
  BY <1>1, <1>11, <1>12 DEF StoreSlot, PoolType
<1>14. \A j \in 1 .. Len(candidates) : j # i => slots'[j] = slots[j]
  BY <1>6, <1>9
<1>15. PoolRuns'
  BY <1>1, <1>2, <1>3, <1>4, <1>9, <1>10, <1>11, <1>12, <1>14 DEF StoreSlot, PoolRuns, Busy, walk, out
<1>16. DataRaceFree'
  <2>1. \A v \in Pool \ {w} : Busy(v) => worker[v].job # i /\ worker[v].job \in 1 .. Len(candidates)
    BY <1>1, <1>2, <1>4 DEF DataRaceFree, PoolRuns, PoolType, Goroutine
  <2> QED BY <1>1, <1>2, <1>3, <1>12, <1>14, <2>1 DEF DataRaceFree, Busy
<1> QED BY <1>2, <1>3, <1>13, <1>15, <1>16 DEF IInv, TypeOK, StageInv

LEMMA WorkerExitInv == ASSUME IInv, NEW w \in Pool, WorkerExit(w) PROVE IInv'
<1>1. EnvType /\ WalkType /\ PoolType /\ OutType /\ PoolRuns /\ DataRaceFree /\ pc = "wait"
  BY DEF IInv, TypeOK, StageInv, WorkerExit
<1>2. EnvType' /\ WalkType' /\ OutType' /\ pc' = pc /\ pc' \in Steps
  BY <1>1 DEF WorkerExit, EnvType, WalkType, OutType, env, walk, out, Steps
<1>3. /\ worker' \in [Pool -> Goroutine] /\ worker'[w].at = "off"
      /\ \A v \in Pool \ {w} : worker'[v] = worker[v]
  BY <1>1 DEF WorkerExit, PoolType, Idle, Goroutine
<1>4. PoolType'
  BY <1>1, <1>3 DEF WorkerExit, PoolType
<1>5. PoolRuns' /\ DataRaceFree'
  BY <1>1, <1>2, <1>3 DEF WorkerExit, PoolRuns, DataRaceFree, Busy, walk, out
<1> QED BY <1>1, <1>2, <1>4, <1>5 DEF IInv, TypeOK, StageInv

LEMMA WaitInv == ASSUME IInv, WaitDone PROVE IInv'
<1>1. EnvType /\ WalkType /\ PoolType /\ OutType /\ PoolRuns /\ DataRaceFree
  BY DEF IInv, TypeOK, StageInv, WaitDone
<1>2. EnvType' /\ WalkType' /\ OutType' /\ PoolType' /\ pc' = "collect" /\ pc' \in Steps
  BY <1>1 DEF WaitDone, EnvType, WalkType, PoolType, OutType, env, walk, out, Steps
<1>3. AfterPool'
  <2>1. ReadSlots(0) = {} /\ next' - 1 = 0
    BY DEF ReadSlots, WaitDone
  <2>2. ReadSlots(next - 1)' = {}
    BY <2>1 DEF ReadSlots
  <2>3. Len(candidates) \in Nat
    BY <1>1, LenProperties DEF WalkType
  <2> QED BY <1>1, <1>2, <2>2, <2>3, FS_EmptySet DEF WaitDone, AfterPool, PoolRuns, walk, out
<1>4. DataRaceFree'
  BY <1>1 DEF WaitDone, AllDone, DataRaceFree, Busy
<1> QED BY <1>2, <1>3, <1>4 DEF IInv, TypeOK, StageInv

LEMMA CollectInv == ASSUME IInv, Collect PROVE IInv'
<1>1. EnvType /\ WalkType /\ PoolType /\ OutType /\ AfterPool /\ DataRaceFree /\ pc = "collect"
  BY DEF IInv, TypeOK, StageInv, Collect
<1>2. EnvType' /\ WalkType' /\ pc' = pc /\ pc' \in Steps
  BY <1>1 DEF Collect, EnvType, WalkType, env, walk, Steps
<1>3. next \in 1 .. Len(slots) /\ Len(slots) \in Nat /\ DOMAIN slots = 1 .. Len(slots)
  BY <1>1, LenProperties DEF Collect, PoolType
<1>4. slots[next] \in Slot
  BY <1>1, <1>3, ElementOfSeq DEF PoolType
<1>5. OutType'
  <2>1. slots[next].findings \in Seq(Finding)
    BY <1>4 DEF Slot
  <2>2. findings' \in Seq(Finding)
    BY <1>1, <2>1, ConcatProperties DEF Collect, OutType
  <2>3. scanned' \in Nat /\ unreadable' \in Nat
    BY <1>1 DEF Collect, OutType
  <2> QED BY <2>2, <2>3 DEF OutType
<1>6. PoolType' /\ DataRaceFree'
  BY <1>1, <1>2 DEF Collect, PoolType, DataRaceFree, Busy
<1>7. AfterPool'
  <2>1. UNCHANGED <<slots, candidates>> /\ next' = next + 1
    BY DEF Collect, walk
  <2>2. IsFiniteSet(ReadSlots(next - 1)) /\ next \notin ReadSlots(next - 1)
    <3>1. ReadSlots(next - 1) \in SUBSET (1 .. next - 1)
      BY DEF ReadSlots
    <3>2. IsFiniteSet(1 .. next - 1) /\ next \notin 1 .. next - 1
      BY <1>3, FS_Interval
    <3> QED BY <3>1, <3>2, FS_Subset
  <2>3. ReadSlots(next) = IF slots[next].read THEN ReadSlots(next - 1) \cup {next}
                                              ELSE ReadSlots(next - 1)
    BY <1>3 DEF ReadSlots
  <2>4. ReadSlots(next - 1)' = ReadSlots(next)
    BY <1>3, <2>1 DEF ReadSlots
  <2>5. scanned' = Cardinality(ReadSlots(next)) /\ scanned' + unreadable' = next
    <3>1. CASE slots[next].read
      <4>1. scanned' = scanned + 1 /\ unreadable' = unreadable
        BY <3>1 DEF Collect, CountsAsScanned
      <4>2. Cardinality(ReadSlots(next)) = Cardinality(ReadSlots(next - 1)) + 1
        BY <2>2, <2>3, <3>1, FS_AddElement
      <4> QED BY <1>1, <1>3, <4>1, <4>2 DEF AfterPool, OutType
    <3>2. CASE ~slots[next].read
      <4>1. scanned' = scanned /\ unreadable' = unreadable + 1
        BY <3>2 DEF Collect, CountsAsScanned
      <4> QED BY <1>1, <1>3, <2>3, <3>2, <4>1 DEF AfterPool, OutType
    <3> QED BY <3>1, <3>2
  <2> QED BY <1>1, <1>2, <1>3, <2>1, <2>4, <2>5 DEF AfterPool
<1> QED BY <1>1, <1>2, <1>5, <1>6, <1>7 DEF IInv, TypeOK, StageInv

LEMMA SortInv == ASSUME IInv, Sort PROVE IInv'
<1>1. EnvType /\ WalkType /\ PoolType /\ OutType /\ AfterPool /\ DataRaceFree /\ pc = "collect"
  BY DEF IInv, TypeOK, StageInv, Sort
<1>2. EnvType' /\ WalkType' /\ PoolType' /\ pc' = "done" /\ pc' \in Steps
  BY <1>1 DEF Sort, EnvType, WalkType, PoolType, env, walk, Steps
<1>3. findings' \in Seq(Finding)
  <2>1. Len(findings) \in Nat /\ findings \in [1 .. Len(findings) -> Finding]
    BY <1>1, LenProperties DEF OutType
  <2>2. PICK p \in Orders(DOMAIN findings) : findings' = [i \in DOMAIN findings |-> findings[p[i]]]
    BY DEF Sort
  <2>3. findings' \in [1 .. Len(findings) -> Finding]
    BY <2>1, <2>2 DEF Orders
  <2> QED BY <2>1, <2>3
<1>4. OutType'
  BY <1>1, <1>3 DEF Sort, OutType
<1>5. AfterPool'
  <2>1. Len(slots) \in Nat /\ next \in Nat
    BY <1>1, LenProperties DEF PoolType
  <2>2. ReadSlots(next - 1)' = ReadSlots(next - 1)
    BY DEF Sort, ReadSlots
  <2> QED BY <1>1, <1>2, <2>1, <2>2 DEF Sort, AfterPool, walk
<1>6. DataRaceFree'
  BY <1>1 DEF Sort, DataRaceFree, Busy
<1> QED BY <1>2, <1>4, <1>5, <1>6 DEF IInv, TypeOK, StageInv

LEMMA TouchInv == ASSUME IInv, Touch PROVE IInv'
<1>1. EnvType /\ WalkType /\ PoolType /\ OutType /\ pc \in Steps /\ StageInv /\ DataRaceFree
  BY DEF IInv, TypeOK
<1>2. disk' \in Disk
  <2>1. PICK n \in Nodes : \E s \in StatesOf(n) : disk' = [disk EXCEPT ![n] = s]
    BY DEF Touch
  <2> PICK s \in StatesOf(n) : disk' = [disk EXCEPT ![n] = s]
    BY <2>1
  <2>2. s \in FileStates \cup DirStates
    BY DEF StatesOf
  <2> QED BY <1>1, <2>1, <2>2 DEF EnvType, Disk
<1>3. seen' \in [Nodes -> SUBSET (FileStates \cup DirStates)]
  <2>1. \A n \in Nodes : View(disk', n) \in FileStates \cup DirStates
    BY <1>2, StateFields
  <2> QED BY <1>1, <2>1 DEF Touch, EnvType
<1>4. changes' \in 0 .. MaxChanges
  BY <1>1, OptionsAssumption DEF Touch, EnvType
<1>5. EnvType'
  BY <1>1, <1>2, <1>3, <1>4 DEF Touch, EnvType
<1>6. WalkType' /\ PoolType' /\ OutType' /\ pc' \in Steps
  BY <1>1 DEF Touch, WalkType, PoolType, OutType, walk, out
<1>7. UNCHANGED <<pc, candidates, next, worker, slots, findings, scanned, unreadable>>
  BY DEF Touch, walk, out
<1>8. StageInv' /\ DataRaceFree'
  BY <1>1, <1>7 DEF StageInv, BeforePool, PoolRuns, AfterPool, ReadSlots, DataRaceFree, Busy
<1> QED BY <1>5, <1>6, <1>8 DEF IInv, TypeOK

LEMMA NextInv == IInv /\ [Next]_vars => IInv'
<1> SUFFICES ASSUME IInv, [Next]_vars PROVE IInv'
  OBVIOUS
<1>1. CASE MainStep
  BY <1>1, WalkInv, SpawnInv, CloseInv, WaitInv, CollectInv, SortInv DEF MainStep
<1>2. ASSUME NEW w \in Pool, WorkerStep(w) PROVE IInv'
  BY <1>2, HandoffInv, OpenFileInv, ReadRestInv, StoreSlotInv, WorkerExitInv DEF WorkerStep
<1>3. CASE Touch
  BY <1>3, TouchInv
<1>4. CASE UNCHANGED vars
  BY <1>4 DEF IInv, TypeOK, EnvType, WalkType, PoolType, OutType, StageInv, BeforePool, PoolRuns,
     AfterPool, ReadSlots, DataRaceFree, Busy, vars
<1> QED BY <1>1, <1>2, <1>3, <1>4 DEF Next, Terminated

THEOREM Invariance == Spec => []IInv
<1>1. IInv /\ [Next]_vars => IInv'
  BY NextInv
<1> QED BY InitInv, <1>1, PTL DEF Spec

(* Every variable of a sweep keeps to its type, whatever the tree does.      *)
THEOREM TypeCorrect == Spec => []TypeOK
<1>1. IInv => TypeOK
  BY DEF IInv
<1> QED BY Invariance, <1>1, PTL

(* The stages of Scan, for any number of goroutines. *)
THEOREM Stages == Spec => []StageInv
<1>1. IInv => StageInv
  BY DEF IInv
<1> QED BY Invariance, <1>1, PTL

(* The unlocked writes of parseAll to slots never race, for any number of    *)
(* goroutines and candidates and any interleaving.                           *)
THEOREM NoDataRace == Spec => []DataRaceFree
<1>1. IInv => DataRaceFree
  BY DEF IInv
<1> QED BY Invariance, <1>1, PTL

(* Every candidate is counted exactly once. *)
THEOREM EveryCandidateCounted == Spec => []Accounting
<1>1. IInv => Accounting
  <2> SUFFICES ASSUME IInv, pc = "done"
               PROVE  /\ scanned + unreadable = Len(candidates)
                      /\ scanned = Cardinality(ReadSlots(Len(candidates)))
    BY DEF Accounting
  <2>1. AfterPool /\ next = Len(candidates) + 1 /\ Len(candidates) \in Nat
    BY LenProperties DEF IInv, TypeOK, WalkType, StageInv, AfterPool
  <2>2. next - 1 = Len(candidates)
    BY <2>1
  <2> QED BY <2>1, <2>2 DEF AfterPool
<1> QED BY Invariance, <1>1, PTL

(* What the goroutines share without a lock does not move under them.        *)
THEOREM SharedIsFrozen == Spec => FrozenWhileShared
<1> DEFINE A == /\ pc \in {"send", "wait", "collect"} => UNCHANGED candidates
               /\ \A i \in DOMAIN slots : slots[i].read => slots'[i] = slots[i]
<1>1. IInv /\ [Next]_vars => [A]_vars
  <2> SUFFICES ASSUME IInv, Next PROVE A
    OBVIOUS
  <2>1. ASSUME NEW w \in Pool, StoreSlot(w) PROVE A
    <3>1. ~slots[worker[w].job].read
      BY <2>1 DEF IInv, DataRaceFree, StoreSlot, Busy
    <3>2. \A i \in DOMAIN slots : i # worker[w].job => slots'[i] = slots[i]
      BY <2>1 DEF StoreSlot, Index
    <3> QED BY <2>1, <3>1, <3>2 DEF StoreSlot, walk
  <2>2. CASE Spawn
    BY <2>2 DEF Spawn, walk, IInv, StageInv, BeforePool
  <2>3. CASE \/ LstatRoot \/ WalkRoot \/ WalkDone \/ CloseWork \/ WaitDone \/ Collect \/ Sort \/ Touch
             \/ Terminated \/ \E e \in pending : VisitDir(e) \/ VisitFile(e)
    BY <2>3 DEF LstatRoot, WalkRoot, WalkDone, CloseWork, WaitDone, Collect, Sort, Touch, Terminated,
       VisitDir, VisitFile, Visiting, walk, vars
  <2>4. ASSUME NEW w \in Pool, Handoff(w) \/ OpenFile(w) \/ ReadRest(w) \/ WorkerExit(w) PROVE A
    BY <2>4 DEF Handoff, OpenFile, ReadRest, WorkerExit, walk
  <2> QED BY <2>1, <2>2, <2>3, <2>4 DEF Next, MainStep, WorkerStep
<1> QED BY Invariance, <1>1, PTL DEF Spec, FrozenWhileShared
=============================================================================
