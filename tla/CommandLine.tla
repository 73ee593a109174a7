----------------------------- MODULE CommandLine -----------------------------
(***************************************************************************)
(* keysweep from its arguments to its exit code: cli.Run chooses a command,  *)
(* runScan and runCheck parse their flags, sweep, go on as Gate says, and    *)
(* print what a caller acts on.  A line is a list of arguments; lines run    *)
(* one after the other over one tree, which stays as it is, while time       *)
(* passes.                                                                  *)
(***************************************************************************)
EXTENDS Gate

CONSTANTS
  Sessions,        \* a tree's findings, and the lines given one after the other
  FlagName,        \* the name of the flag an argument is, or Word, or Terminator
  Inline,          \* the text behind its "=", or Bare
  Number, Truth    \* the texts the flag package reads as an int, as a bool

Word == "word"
Terminator == "--"
Bare == "bare"

SharedFlags == {"format", "exclude", "max-file-size", "all", "jobs", "expiring"}
GateFlags   == {"allow-plaintext", "ignore-perms", "min-rsa-bits"}
BoolFlags   == {"all", "allow-plaintext", "ignore-perms"}
IntFlags    == {"max-file-size", "jobs", "expiring", "min-rsa-bits"}
Commands    == {"scan", "check"}
Formats(c)  == IF c = "check" THEN {"text", "json"} ELSE {"text", "json", "markdown"}

ASSUME LineAssumption ==
  /\ \A s \in Sessions : s.found \in Seq(Finding) /\ s.lines \in Seq(Seq(DOMAIN FlagName))
  /\ \A t \in DOMAIN Number : Number[t] \in Int
  /\ \A t \in DOMAIN Truth : Truth[t] \in BOOLEAN

VARIABLES
  todo,          \* the lines of the session still to be given
  args, at,      \* the line, and the argument the flag set is at
  flags, path,   \* the values of the command's flags, the positional argument
  ended          \* the lines that have ended: what they did and what they printed

line     == <<todo, args, at, flags, path, ended>>
lineVars == <<vars, line>>

Registered(c) == IF c = "check" THEN SharedFlags \cup GateFlags ELSE SharedFlags
Defaults(c) ==
  [f \in Registered(c) |->
     CASE f = "format"   -> "text"
       [] f = "exclude"  -> <<>>
       [] f = "expiring" -> IF c = "check" THEN 0 ELSE 30
       [] f \in BoolFlags -> FALSE
       [] OTHER -> 0]           \* Scan takes its defaults for 0

NoRules == [allowPlaintext |-> FALSE, ignorePerms |-> FALSE, expiringDays |-> 0, minRSABits |-> 0]

LineInit ==
  /\ \E s \in Sessions : found = s.found /\ todo = s.lines
  /\ rules = NoRules /\ clock = Start /\ now = Start
  /\ command = "none" /\ pc = "idle" /\ cursor = 1
  /\ breaches = <<>> /\ summary = NoSummary /\ marked = {}
  /\ args = <<>> /\ at = 1 /\ flags = Defaults("scan") /\ path = "." /\ ended = {}

-----------------------------------------------------------------------------
(* What is printed.                                                         *)
Plain(what) == [as |-> what]

(* ofKind: the findings of a kind, in the order they are in. *)
OfKind(kind) ==
  LET those == {i \in DOMAIN found : found[i].kind = kind} IN
  [j \in 1 .. Cardinality(those) |->
     CHOOSE i \in those : Cardinality({k \in those : k <= i}) = j]

(* Text and Markdown: a section of rows for each kind.                       *)
Sections ==
  [kind \in Kinds |-> [j \in DOMAIN OfKind(kind) |->
     [at |-> OfKind(kind)[j], flagged |-> OfKind(kind)[j] \in marked]]]

(* JSON: {} is a field that is left out. Mistake: day 0 is not expired. *)
JSONFindingByDays(f) ==
  [kind |-> f.kind, protection |-> f.protection, algorithm |-> f.algorithm,
   bits     |-> IF f.bits = 0 THEN {} ELSE {f.bits},
   daysLeft |-> IF f.kind = "certificate" THEN {DaysLeft(f, now)} ELSE {},
   expired  |-> IF f.kind = "certificate" THEN {DaysLeft(f, now) < 0} ELSE {},
   loose    |-> IF f.kind \in {"private-key", "container"} THEN {f.loose} ELSE {}]
JSONFinding(f) ==
  [kind |-> f.kind, protection |-> f.protection, algorithm |-> f.algorithm,
   bits     |-> IF f.bits = 0 THEN {} ELSE {f.bits},
   daysLeft |-> IF f.kind = "certificate" THEN {DaysLeft(f, now)} ELSE {},
   expired  |-> IF f.kind = "certificate" THEN {Expired(f, now)} ELSE {},
   loose    |-> IF f.kind \in {"private-key", "container"} THEN {f.loose} ELSE {}]

(* report.Text leaves out what is zero, report.Markdown prints every counter. *)
TextCounters ==
  {c \in DOMAIN summary :
     CASE c \in {"plaintext", "encrypted"} -> summary["keys"] > 0
       [] c = "loose"                      -> summary["keys"] > 0 /\ summary[c] > 0
       [] c \in {"expired", "expiring"}    -> summary["certificates"] > 0 /\ summary[c] > 0
       [] OTHER                            -> summary[c] > 0}
TextReport ==
  [as |-> "text", sections |-> Sections, summary |-> [c \in TextCounters |-> summary[c]]]
MarkdownReport == [as |-> "markdown", sections |-> Sections, summary |-> summary]
JSONReport ==
  [as |-> "json", summary |-> summary, findings |-> [i \in DOMAIN found |-> JSONFinding(found[i])]]

ScanOutput ==
  IF flags["format"] = "json" THEN JSONReport
  ELSE IF found = <<>> THEN Plain("no material")
  ELSE IF flags["format"] = "markdown" THEN MarkdownReport ELSE TextReport

(* The two formats of check come to their verdicts separately.               *)
CheckText == [as |-> "check text", breaches |-> breaches,
              last |-> IF breaches = <<>> THEN "PASS" ELSE "FAIL"]
(* Mistake: one breach is not a failure. *)
CheckJSONMany == [as |-> "check json", breaches |-> breaches, pass |-> Len(breaches) <= 1]
CheckJSON     == [as |-> "check json", breaches |-> breaches, pass |-> breaches = <<>>]
CheckOutput   == IF flags["format"] = "json" THEN CheckJSON ELSE CheckText

(* A line ends; stderr is used exactly by the errors. *)
Ends(code, output) ==
  /\ pc' = "idle"
  /\ ended' = ended \cup {[line |-> args, command |-> command, flags |-> flags, path |-> path,
                           rules |-> rules, now |-> now, swept |-> pc \in {"sweep", "loop"},
                           breaches |-> breaches, summary |-> summary, marked |-> marked,
                           exit |-> code, stdout |-> output]}

-----------------------------------------------------------------------------
(* The shell: the next line, in a process of its own. *)
Invoke ==
  /\ pc = "idle" /\ todo # <<>> /\ pc' = "start" /\ args' = Head(todo) /\ todo' = Tail(todo)
  /\ command' = "none" /\ breaches' = <<>> /\ summary' = NoSummary /\ marked' = {}
  /\ at' = 1 /\ flags' = Defaults("scan") /\ path' = "." /\ rules' = NoRules
  /\ UNCHANGED <<found, clock, now, cursor, ended>>

(* cli.Run.  Help and version end at once, whatever follows; what is neither *)
(* them nor a command is the first argument of scan.                         *)
First == IF args = <<>> THEN "scan" ELSE args[1]
Help    == {"help", "--help", "-h"}
Version == {"version", "--version", "-v"}

Announce ==
  /\ pc = "start" /\ First \in Help \cup Version
  /\ Ends(0, Plain(IF First \in Help THEN "usage" ELSE "version"))
  /\ UNCHANGED <<found, rules, clock, command, now, cursor, breaches, summary, marked,
                 todo, args, at, flags, path>>

(* Mistake: the first argument is taken for a command whatever it is. *)
FlagsFromSecond == 2
FlagsFrom == IF args # <<>> /\ First \in Commands THEN 2 ELSE 1

Dispatch ==
  /\ pc = "start" /\ First \notin Help \cup Version /\ pc' = "parse"
  /\ command' = IF First \in Commands THEN First ELSE "scan"
  /\ at' = FlagsFrom
  /\ flags' = Defaults(command')
  /\ UNCHANGED <<found, rules, clock, now, cursor, breaches, summary, marked,
                 todo, args, path, ended>>

-----------------------------------------------------------------------------
(* parseFlags.                                                              *)
gate == <<found, clock, command, now, cursor, breaches, summary, marked>>

Parsing(f) ==
  /\ pc = "parse" /\ at <= Len(args) /\ f = FlagName[args[at]] /\ f \notin {Word, Terminator}

(* A bool takes no argument of its own; any other flag takes the next one,   *)
(* whatever it looks like, if it has no "=".                                 *)
TakesNext(f) == f \notin BoolFlags /\ Inline[args[at]] = Bare
Text(f) == IF TakesNext(f) THEN args[at + 1]
           ELSE IF Inline[args[at]] = Bare THEN "true" ELSE Inline[args[at]]
Understood(f) ==
  /\ f \in Registered(command)
  /\ TakesNext(f) => at < Len(args)
  /\ f \in BoolFlags => Text(f) \in DOMAIN Truth
  /\ f \in IntFlags => Text(f) \in DOMAIN Number

(* multiFlag.Set adds to the list, every other flag keeps its last value.    *)
Set(f, text) ==
  [flags EXCEPT ![f] = IF f = "exclude" THEN Append(@, text)
                       ELSE IF f \in BoolFlags THEN Truth[text]
                       ELSE IF f \in IntFlags THEN Number[text] ELSE text]

After(f) == IF TakesNext(f) THEN at + 2 ELSE at + 1

ParseFlag(f) ==
  /\ Parsing(f) /\ Understood(f) /\ flags' = Set(f, Text(f)) /\ at' = After(f)
  /\ UNCHANGED <<gate, rules, pc, todo, args, path, ended>>

(* flag.ErrHelp prints the usage and is no error; any other error is.        *)
FlagError(f) ==
  /\ Parsing(f) /\ ~Understood(f)
  /\ IF f \in {"h", "help"} THEN Ends(0, Plain("usage")) ELSE Ends(2, Plain("nothing"))
  /\ UNCHANGED <<gate, rules, todo, args, at, flags, path>>

(* The flags end at the first argument that is none.  pathArg takes at most  *)
(* one argument, and only then is the format looked at.                      *)
FlagsEnd == pc = "parse" /\ (at <= Len(args) => FlagName[args[at]] \in {Word, Terminator})
Rest == IF at <= Len(args) /\ FlagName[args[at]] = Terminator THEN SubSeq(args, at + 1, Len(args))
        ELSE SubSeq(args, at, Len(args))
Acceptable == Len(Rest) <= 1 /\ flags["format"] \in Formats(command)

Refuse ==
  /\ FlagsEnd /\ ~Acceptable /\ Ends(2, Plain("nothing"))
  /\ UNCHANGED <<gate, rules, todo, args, at, flags, path>>

Accept ==
  /\ FlagsEnd /\ Acceptable /\ pc' = "sweep"
  /\ path' = IF Rest = <<>> THEN "." ELSE Rest[1]
  /\ rules' = [expiringDays   |-> flags["expiring"],
               allowPlaintext |-> command = "check" /\ flags["allow-plaintext"],
               ignorePerms    |-> command = "check" /\ flags["ignore-perms"],
               minRSABits     |-> IF command = "check" THEN flags["min-rsa-bits"] ELSE 0]
  /\ UNCHANGED <<gate, todo, args, at, flags, ended>>

-----------------------------------------------------------------------------
(* From the sweep on, Gate.  A sweep that fails ends the line; check exits 1 *)
(* when there is a breach, scan exits 0 whatever it found.                   *)
SweepError ==
  /\ pc = "sweep" /\ Ends(3, Plain("nothing"))
  /\ UNCHANGED <<gate, rules, todo, args, at, flags, path>>

Loop == (SweepReturns \/ EvaluateOne \/ SummarizeOne) /\ UNCHANGED line

Report ==
  /\ Looped
  /\ Ends(IF breaches # <<>> THEN 1 ELSE 0, IF command = "check" THEN CheckOutput ELSE ScanOutput)
  /\ UNCHANGED <<gate, rules, todo, args, at, flags, path>>

Program ==
  \/ Announce \/ Dispatch
  \/ (\E f \in {FlagName[args[i]] : i \in DOMAIN args} : ParseFlag(f) \/ FlagError(f))
  \/ Refuse \/ Accept \/ SweepError \/ Loop \/ Report

LineNext == Invoke \/ Program \/ (Tick /\ UNCHANGED line)

LineSpec == LineInit /\ [][LineNext]_lineVars

-----------------------------------------------------------------------------
(* The variables hold what their Go counterparts can hold, whatever the      *)
(* texts (the path, the format, the globs) are; and the flag set never looks *)
(* behind the end of the line but for its one step past it.                  *)
Breach == [rule : RuleNames, at : Nat]
FlagType(fl, c) ==
  /\ DOMAIN fl = Registered(c)
  /\ \A f \in Registered(c) : (f \in IntFlags => fl[f] \in Int) /\ (f \in BoolFlags => fl[f] \in BOOLEAN)
LineType ==
  /\ found \in Seq(Finding) /\ rules \in Rules /\ clock \in Int /\ now \in Int
  /\ command \in {"none"} \cup Commands /\ pc \in {"idle", "start", "parse", "sweep", "loop"}
  /\ cursor \in 1 .. Len(found) + 1 /\ breaches \in Seq(Breach) /\ marked \subseteq DOMAIN found
  /\ \A field \in DOMAIN NoSummary : summary[field] \in 0 .. Len(found)
  /\ args \in Seq(DOMAIN FlagName) /\ at \in 1 .. Len(args) + 1
  /\ todo \in Seq(Seq(DOMAIN FlagName)) /\ \E c \in Commands : FlagType(flags, c)
  /\ pc \in {"parse", "sweep", "loop"} => command \in Commands /\ FlagType(flags, command)
  /\ \A e \in ended : e.exit \in 0 .. 3

Scans(as) == {e \in ended : e.command = "scan" /\ e.stdout.as = as}
Reports   == Scans("text") \cup Scans("markdown")
Gates     == {e \in ended : e.stdout.as \in {"check text", "check json"}}

(* cli.go:15-21, the exit codes and what a script may rely on: 1 is a failed *)
(* gate and nothing else, 2 comes before anything is read, 3 after it, and   *)
(* standard output is empty exactly on an error, so that it can be piped;    *)
(* and the verdict returned is the one printed, in text as in JSON, and what *)
(* the breaches listed above it say (check.go:63, 86-90, 93-96).             *)
ExitCodes ==
  /\ \A e \in ended :
       /\ e.stdout = Plain("nothing") <=> e.exit \in {2, 3}
       /\ e.exit = 2 => ~e.swept
       /\ e.exit = 3 => e.swept
       /\ e.exit = 1 => e.command = "check"
  /\ \A e \in Gates :
       /\ e.exit = IF e.stdout.breaches = <<>> THEN 0 ELSE 1
       /\ e.stdout.as = "check json" => (e.stdout.pass <=> e.exit = 0)
       /\ e.stdout.as = "check text" => (e.stdout.last = "PASS" <=> e.exit = 0)

Words(e) == IF e.line # <<>> /\ e.line[1] \in Commands THEN SubSeq(e.line, 2, Len(e.line)) ELSE e.line
Announced(e) == e.line # <<>> /\ e.line[1] \in Help \cup Version

(* The same words sweep the same tree in the same way: what check gates on   *)
(* is what scan shows for those flags, and "scan" may be left out wherever   *)
(* the words do not begin with a command.                                    *)
SameWordsSameSweep ==
  \A p, q \in {e \in ended : ~Announced(e)} : Words(p) = Words(q) =>
    /\ p.swept /\ q.swept => /\ p.path = q.path
                             /\ \A f \in SharedFlags \ {"expiring"} : p.flags[f] = q.flags[f]
    /\ p.command = q.command => p.swept = q.swept
    /\ p.command = q.command /\ p.now = q.now /\ {p.exit, q.exit} \subseteq {0, 1} =>
         p.stdout = q.stdout

(* The rules of check, read off the fields of one finding of the JSON.       *)
Concludes(f, r) ==
  {rule \in RuleNames :
     CASE rule = "plaintext-key" ->
            f.kind = "private-key" /\ f.protection = "plaintext" /\ ~r.allowPlaintext
       [] rule = "loose-permissions" -> f.kind = "private-key" /\ TRUE \in f.loose /\ ~r.ignorePerms
       [] rule = "weak-rsa" -> /\ f.kind = "private-key" /\ f.algorithm = "rsa"
                               /\ \E b \in f.bits : b < r.minRSABits
       [] rule = "expired"  -> TRUE \in f.expired
       [] OTHER -> /\ FALSE \in f.expired /\ r.expiringDays > 0
                   /\ \E d \in f.daysLeft : d < r.expiringDays}

(* The JSON inventory is as good as the gate: whoever applies any rules to   *)
(* its fields finds what check finds with those rules at that moment, so no  *)
(* field that decides is missing or rounded otherwise (json.go:75-107,       *)
(* policy.go:41-66).                                                         *)
JSONDecides ==
  \A p \in Gates, q \in Scans("json") : p.now = q.now =>
    {<<p.breaches[i].rule, p.breaches[i].at>> : i \in DOMAIN p.breaches} =
      UNION {{<<rule, i>> : rule \in Concludes(q.stdout.findings[i], p.rules)} :
               i \in DOMAIN q.stdout.findings}

(* What the JSON says is out of order, whatever the kind of the finding.     *)
JSONFlags(f, r) ==
  \/ TRUE \in f.loose \/ TRUE \in f.expired
  \/ r.expiringDays > 0 /\ \E d \in f.daysLeft : d < r.expiringDays
CounterOf == [k \in Kinds |-> CASE k = "private-key" -> "keys" [] k = "certificate" -> "certificates"
                                [] k = "csr" -> "csrs" [] OTHER -> "containers"]

(* All formats tell the same: a counter that the text leaves out is 0 in the *)
(* JSON, every finding of the JSON has one row, in the section of its kind,  *)
(* and a row is marked if and only if the JSON says that the finding is      *)
(* loose, expired or about to expire.  Of containers the JSON says more than *)
(* their rows, which have no mark (LooseContainersShown).                    *)
FormatsAgree ==
  \A p \in Reports, q \in Scans("json") : p.now = q.now /\ p.rules = q.rules =>
    LET inventory == q.stdout.findings
        counters  == q.stdout.summary
    IN
    /\ \A c \in DOMAIN counters :
         counters[c] = IF c \in DOMAIN p.stdout.summary THEN p.stdout.summary[c] ELSE 0
    /\ \A kind \in Kinds : LET rows == p.stdout.sections[kind] IN
         /\ Len(rows) = counters[CounterOf[kind]]
         /\ {rows[j].at : j \in DOMAIN rows} = {i \in DOMAIN inventory : inventory[i].kind = kind}
         /\ kind # "container" =>
              \A j \in DOMAIN rows : rows[j].flagged <=> JSONFlags(inventory[rows[j].at], q.rules)

Broken(e, rule) == {e.breaches[i].at : i \in {j \in DOMAIN e.breaches : e.breaches[j].rule = rule}}

(* A gate that failed never passes later by the mere passage of time: with   *)
(* the same files and rules a certificate that failed as expiring goes on to *)
(* fail, as expiring or as expired.                                          *)
FailStaysFailed ==
  \A p, q \in Gates : p.rules = q.rules /\ p.now <= q.now =>
    \A i \in DOMAIN p.breaches : \E j \in DOMAIN q.breaches : p.breaches[i].at = q.breaches[j].at

(* The gate and the inventory agree at every instant: what check breaks on   *)
(* is what scan counts and what it marks, each finding once per rule.        *)
GateAgreesWithReport ==
  \A p \in Gates, q \in Reports :
    p.now = q.now /\ p.rules.expiringDays = q.rules.expiringDays =>
      /\ q.summary.expired  = Cardinality(Broken(p, "expired"))
      /\ q.summary.expiring = Cardinality(Broken(p, "expiring"))
      /\ ~p.rules.allowPlaintext => q.summary.plaintext = Cardinality(Broken(p, "plaintext-key"))
      /\ ~p.rules.ignorePerms =>
           /\ q.summary.loose = Cardinality(Broken(p, "loose-permissions"))
           /\ q.marked = Broken(p, "expired") \cup Broken(p, "expiring")
                           \cup Broken(p, "loose-permissions")

(* The window is what it says, up to the rounding of Hours: although days    *)
(* are cut towards zero on both sides of the expiry, a certificate fails as  *)
(* expiring precisely when it is valid and has less than the window left, or *)
(* less than Early below it; a window that a duration cannot hold takes in   *)
(* every valid certificate, and 0 and below none.                            *)
WindowUpToRounding ==
  \A p \in Gates : LET n == p.rules.expiringDays IN
    Broken(p, "expiring") =
      {i \in DOMAIN found :
         /\ found[i].kind = "certificate" /\ found[i].notAfter >= p.now /\ n > 0
         /\ n <= MaxDuration \div Day => found[i].notAfter - p.now < n * Day - Early[n]}

-----------------------------------------------------------------------------
(* What the documentation says.                                             *)

(* docs/formats.md:62-65: a container readable beyond its owner is flagged    *)
(* with "!", and check fails on it, as on a private key.  Here less is asked: *)
(* that one of the two commands shows it.  Neither does.                     *)
LooseContainersShown ==
  \A p \in Gates, q \in Reports : ~p.rules.ignorePerms =>
    \A j \in DOMAIN q.stdout.sections["container"] :
      LET row == q.stdout.sections["container"][j] IN
      found[row.at].loose => p.exit = 1 \/ row.flagged
=============================================================================
