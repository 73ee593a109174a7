--------------------------------- MODULE Gate ---------------------------------
(***************************************************************************)
(* What the two commands make of a finished sweep: keysweep check evaluates  *)
(* the policy (policy.Evaluate) and exits 1 on a breach, keysweep scan       *)
(* summarises (report.Summarize) and prints a status per row (report.Text).  *)
(* The three were written separately over the same predicates, and each      *)
(* command reads the clock for itself, after its sweep.  CommandLine runs    *)
(* these steps: the module has no specification of its own.                  *)
(***************************************************************************)
EXTENDS Integers, Sequences, FiniteSets

CONSTANTS
  Day,             \* clock units in a day
  MaxDuration,     \* time.Duration saturates here, about 292 years
  Early,           \* how long before k days are left the float64 of Hours says k
  Start, End       \* bounds on the clock

Kinds == {"private-key", "certificate", "csr", "container"}
Protections == {"plaintext", "encrypted", "password", "none"}
Finding == [kind : Kinds, protection : Protections, loose : BOOLEAN,
            algorithm : {"rsa", "other"}, bits : Nat, notAfter : Int]
Rules == [allowPlaintext : BOOLEAN, ignorePerms : BOOLEAN, expiringDays : Int, minRSABits : Int]
RuleNames == {"plaintext-key", "loose-permissions", "weak-rsa", "expired", "expiring"}

ASSUME GateAssumption ==
  /\ Day \in Nat \ {0} /\ MaxDuration \in Nat /\ Start \in Int /\ End \in Int
  /\ Early \in [0 .. MaxDuration \div Day + 1 -> 0 .. Day - 1]
  /\ LET k == MaxDuration \div Day + 1 IN MaxDuration < k * Day - Early[k]

VARIABLES
  found, rules,   \* the tree's findings; the flags that decide
  clock,          \* the wall clock
  command, pc,    \* the command that runs, and how far it is
  now,            \* the time it read
  cursor,         \* the finding its loop is at
  breaches,       \* check: rule and index of the finding, in order
  summary,        \* scan: the counters of Summary
  marked          \* scan: rows whose status or mode is flagged, by index

vars == <<found, rules, clock, command, pc, now, cursor, breaches, summary, marked>>

NoSummary == [keys |-> 0, plaintext |-> 0, encrypted |-> 0, loose |-> 0, certificates |-> 0,
              expired |-> 0, expiring |-> 0, csrs |-> 0, containers |-> 0]

-----------------------------------------------------------------------------
(* The predicates of finding.go.  Time.Sub saturates.  Hours and the         *)
(* division by 24 are rounded to float64: whole days come out exact, but the *)
(* last moments before them are whole days too, a nanosecond from 171 days   *)
(* on, 838 at most; then int() cuts towards 0.                               *)
Expired(f, t) == f.kind = "certificate" /\ t > f.notAfter
Sub(a, b) == IF a - b > MaxDuration THEN MaxDuration
             ELSE IF a - b < -MaxDuration THEN -MaxDuration ELSE a - b
(* Mistake: a day that has begun counts. *)
DaysBegun(d) == (d + Day - 1) \div Day
Days(d) == LET k == d \div Day IN IF d >= (k + 1) * Day - Early[k + 1] THEN k + 1 ELSE k
DaysLeft(f, t) == LET d == Sub(f.notAfter, t) IN IF d >= 0 THEN Days(d) ELSE -Days(-d)

(* policy.Evaluate on one finding: the rules it breaks, in order.            *)
(* Mistake: day 0 is not in the window. *)
ExpiringPositive(f) == DaysLeft(f, now) > 0 /\ DaysLeft(f, now) < rules.expiringDays
Expiring(f) == rules.expiringDays > 0 /\ DaysLeft(f, now) < rules.expiringDays
If(b, rule) == IF b THEN <<rule>> ELSE <<>>
Evaluate(f) ==
  CASE f.kind = "private-key" ->
         If(~rules.allowPlaintext /\ f.protection = "plaintext", "plaintext-key")
         \o If(~rules.ignorePerms /\ f.loose, "loose-permissions")
         \o If(rules.minRSABits > 0 /\ f.algorithm = "rsa" /\ f.bits > 0
                 /\ f.bits < rules.minRSABits, "weak-rsa")
    [] f.kind = "certificate" ->
         IF Expired(f, now) THEN <<"expired">> ELSE If(Expiring(f), "expiring")
    [] OTHER -> <<>>

(* report.Summarize on one finding, with a test of its own for the window.   *)
(* Mistake: the last day of the window counts too. *)
SoonInclusive(f) == rules.expiringDays > 0 /\ DaysLeft(f, now) <= rules.expiringDays
Soon(f) == rules.expiringDays > 0 /\ DaysLeft(f, now) < rules.expiringDays
One(b) == IF b THEN 1 ELSE 0
Summarize(s, f) ==
  CASE f.kind = "private-key" ->
         [s EXCEPT !.keys = @ + 1, !.plaintext = @ + One(f.protection = "plaintext"),
                   !.encrypted = @ + One(f.protection = "encrypted"), !.loose = @ + One(f.loose)]
    [] f.kind = "certificate" ->
         [s EXCEPT !.certificates = @ + 1, !.expired = @ + One(Expired(f, now)),
                   !.expiring = @ + One(~Expired(f, now) /\ Soon(f))]
    [] f.kind = "csr" -> [s EXCEPT !.csrs = @ + 1]
    [] OTHER -> [s EXCEPT !.containers = @ + 1]

(* Text and Markdown on one row: perms flags a key, certStatus a certificate *)
(* by a third test for the window; the others have no column for a flag.     *)
(* Mistake: the window is tested although it is off. *)
FlaggedAlways(f) ==
  CASE f.kind = "private-key" -> f.loose
    [] f.kind = "certificate" -> Expired(f, now) \/ DaysLeft(f, now) <= rules.expiringDays
    [] OTHER -> FALSE
Flagged(f) ==
  CASE f.kind = "private-key" -> f.loose
    [] f.kind = "certificate" ->
         Expired(f, now) \/ (rules.expiringDays > 0 /\ DaysLeft(f, now) < rules.expiringDays)
    [] OTHER -> FALSE

-----------------------------------------------------------------------------
(* Scan returns, and only then is time.Now called. *)
SweepReturns ==
  /\ pc = "sweep" /\ pc' = "loop" /\ now' = clock /\ cursor' = 1
  /\ UNCHANGED <<found, rules, clock, command, breaches, summary, marked>>

EvaluateOne ==
  LET broken == Evaluate(found[cursor]) IN
  /\ pc = "loop" /\ command = "check" /\ cursor <= Len(found) /\ cursor' = cursor + 1
  /\ breaches' = breaches \o [i \in DOMAIN broken |-> [rule |-> broken[i], at |-> cursor]]
  /\ UNCHANGED <<found, rules, clock, command, pc, now, summary, marked>>

SummarizeOne ==
  /\ pc = "loop" /\ command = "scan" /\ cursor <= Len(found) /\ cursor' = cursor + 1
  /\ summary' = Summarize(summary, found[cursor])
  /\ marked' = IF Flagged(found[cursor]) THEN marked \cup {cursor} ELSE marked
  /\ UNCHANGED <<found, rules, clock, command, pc, now, breaches>>

Looped == pc = "loop" /\ cursor > Len(found)

Tick ==
  /\ clock < End /\ clock' = clock + 1
  /\ UNCHANGED <<found, rules, command, pc, now, cursor, breaches, summary, marked>>
=============================================================================
