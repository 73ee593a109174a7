---------------------------- MODULE SweepInventory ----------------------------
(***************************************************************************)
(* Sweep implements Inventory.  The status of a file is read off the walk's  *)
(* entries, the candidates, the goroutines and the slots; a failing read     *)
(* leaves no trace but an index that was handed out, is held by nobody and   *)
(* has an empty slot.                                                       *)
(***************************************************************************)
EXTENDS Sweep

HandedOut(i) == pc \in {"collect", "done"} \/ i < next
Holding(at, i) == \E w \in Pool : worker[w].at = at /\ worker[w].job = i

ListedPaths ==
  IF pc = "lstat" THEN {options.root} \cap Files
                  ELSE {e.path : e \in {x \in pending : x.type = "regular"}} \cap InScopeFiles

Seen(n) ==
  LET s == View(disk, n) IN
  [regular |-> s.type = "regular", fits |-> s.type # "gone" /\ s.size <= MaxSize,
   mode |-> s.mode, content |-> s.content]

IsReadable(content) == content # Unreadable

(* What has become of candidate i. *)
Result(i) ==
  IF ~HandedOut(i) \/ Holding("read", i) THEN [at |-> "waiting", mode |-> candidates[i].mode]
  ELSE IF Holding("rest", i)
    THEN LET w == CHOOSE w \in Pool : worker[w].at = "rest" /\ worker[w].job = i IN
         [at |-> "reading", mode |-> candidates[i].mode, content |-> worker[w].content]
  ELSE IF Holding("store", i)
    THEN LET w == CHOOSE w \in Pool : worker[w].at = "store" /\ worker[w].job = i IN
         [at |-> "read", findings |-> Stamp(candidates[i], worker[w].content)]
  ELSE IF slots[i].read THEN [at |-> "read", findings |-> slots[i].findings]
  ELSE [at |-> "failed"]

Status(n) ==
  IF \E i \in DOMAIN candidates : candidates[i].path = n
    THEN Result(CHOOSE i \in DOMAIN candidates : candidates[i].path = n)
  ELSE IF n \in ListedPaths THEN [at |-> "listed"] ELSE [at |-> "ignored"]

Abstract == INSTANCE Inventory WITH
  Paths    <- Files,
  Readable <- IsReadable,
  Texts    <- TextsOf,
  scope    <- InScopeFiles,
  view     <- [n \in Files |-> Seen(n)],
  status   <- [n \in Files |-> Status(n)],
  report   <- IF pc = "done"
                THEN [at |-> "returned", findings |-> findings, scanned |-> scanned,
                      unreadable |-> unreadable]
                ELSE [at |-> "running"]

(* Whatever the goroutines' interleaving and whatever others do to the tree, *)
(* a sweep opens single files and reads them, each step at one moment and     *)
(* each file in the report: the pool, the hand-off and the unlocked slots    *)
(* cannot be told from the outside (walk.go:148-187).                        *)
ImplementsInventory == Abstract!Spec
=============================================================================
