------------------------------ MODULE Inventory ------------------------------
(***************************************************************************)
(* What sweep.Scan promises its caller, with no walk, no pool and no slots:  *)
(* each file in scope is listed, examined and opened at most once, each at    *)
(* some moment of the sweep and as the tree is at that moment, and read to    *)
(* its end once, later; and the report is made of exactly what was read, in   *)
(* order.  Sweep implements it                                              *)
(* (SweepInventory).                                                        *)
(***************************************************************************)
EXTENDS Integers, Sequences, FiniteSets

CONSTANTS
  Paths,          \* the paths that may hold a file
  Readable(_),    \* whether a file with this content can be opened
  Texts(_, _),    \* what a read returns, from the content at its begin and its end
  Stamp(_, _),    \* the findings of a file: its path and mode, its content
  Less(_, _)      \* the order of the report

VARIABLES
  scope,     \* the files the sweep is asked about
  view,      \* how the tree looks now: [regular, fits, mode, content] of a path
  status,    \* how far each file is
  report     \* what Scan has returned

Ignored    == [at |-> "ignored"]
Listed     == [at |-> "listed"]
Waiting(m) == [at |-> "waiting", mode |-> m]
Reading(m, c) == [at |-> "reading", mode |-> m, content |-> c]
Failed     == [at |-> "failed"]
Read(fs)   == [at |-> "read", findings |-> fs]
NoReport   == [at |-> "running"]

Init ==
  /\ \A n \in Paths : status[n] = Ignored \/ (n \in scope /\ status[n] = Listed)
  /\ report = NoReport

Becomes(n, s) == status' = [status EXCEPT ![n] = s]

(* Others change the tree as they like. *)
Change == UNCHANGED <<scope, status, report>>

(* Files of a directory are listed, while they are regular files.            *)
List(S) ==
  /\ \A n \in S : status[n] = Ignored /\ view[n].regular
  /\ status' = [n \in Paths |-> IF n \in S THEN Listed ELSE status[n]]

(* A listed file is examined once: it is dropped only when it is gone or too *)
(* large by then, and is to be read with the mode it has then otherwise.     *)
Drop(n) == status[n] = Listed /\ ~view[n].fits /\ Becomes(n, Ignored)
Take(n) == status[n] = Listed /\ view[n].fits /\ Becomes(n, Waiting(view[n].mode))

(* It is opened once, as it is at that moment, or fails to be;              *)
Begin(n) ==
  /\ status[n].at = "waiting"
  /\ Becomes(n, IF Readable(view[n].content) THEN Reading(status[n].mode, view[n].content)
                                             ELSE Failed)

(* and what it holds when the read ends may show in what was read.           *)
Finish(n) ==
  /\ status[n].at = "reading"
  /\ \E text \in Texts(status[n].content, view[n].content) :
       Becomes(n, Read(Stamp([path |-> n, mode |-> status[n].mode], text)))

ReadPaths   == {n \in Paths : status[n].at = "read"}
FailedPaths == {n \in Paths : status[n].at = "failed"}
Held        == UNION {{status[n].findings[j] : j \in DOMAIN status[n].findings} : n \in ReadPaths}

(* The report holds every finding once, in order, and counts the files.      *)
Publish ==
  /\ report = NoReport /\ UNCHANGED <<scope, view, status>>
  /\ \A n \in Paths : status[n].at \notin {"listed", "waiting", "reading"}
  /\ {report'.findings[i] : i \in DOMAIN report'.findings} = Held
  /\ \A i, j \in DOMAIN report'.findings :
       i < j => Less(report'.findings[i], report'.findings[j])
  /\ report'.scanned = Cardinality(ReadPaths)
  /\ report'.unreadable = Cardinality(FailedPaths)

(* One file, or the files of one directory, at one moment, before the report. *)
Step ==
  /\ report = NoReport /\ UNCHANGED <<scope, view, report>>
  /\ (\E n \in Paths : Drop(n) \/ Take(n) \/ Begin(n) \/ Finish(n)) \/ \E S \in SUBSET scope : List(S)

Next == Change \/ Step \/ Publish

Spec == Init /\ [][Next]_<<scope, view, status, report>>
=============================================================================
