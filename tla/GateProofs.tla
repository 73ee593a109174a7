------------------------------ MODULE GateProofs ------------------------------
(***************************************************************************)
(* The two commands, for any session: any findings, any lines over any flags *)
(* and texts, any length of a day and any clock.  What the loops gather is   *)
(* what the rules say of every finding, at the moment the command read; from *)
(* that follow the exact window, the permanence of a failure and that the    *)
(* gate, the report and the JSON conclude the same.  Where the flag set ends *)
(* and what it holds there is what the words say, however the line ran.      *)
(***************************************************************************)
EXTENDS CommandLine, TLAPS, SequenceTheorems, FunctionTheorems, FiniteSetTheorems

(* Days are cut towards zero and rounded up just below a whole day, and      *)
(* still both sides of a bound agree.                                        *)
LEMMA WholeDays ==
  ASSUME NEW d \in Nat, NEW n \in 1 .. MaxDuration \div Day + 1
  PROVE  Days(d) < n <=> d < n * Day - Early[n]
<1>1. Day \in Nat /\ Day > 0 /\ MaxDuration \in Nat /\ Early[n] \in 0 .. Day - 1
  BY GateAssumption
<1>2. n \in Nat
  <2>1. MaxDuration \div Day + 1 \in Int
    BY <1>1
  <2> QED BY <2>1
<1> DEFINE q == d \div Day
           r == d % Day
<1>3. q \in Nat /\ r \in 0 .. Day - 1 /\ d = q * Day + r
  BY <1>1
<1>4. Days(d) = IF d >= (q + 1) * Day - Early[q + 1] THEN q + 1 ELSE q
  BY DEF Days
<1> HIDE DEF q, r
<1>5. CASE n <= q
  <2>1. PICK k \in Nat : q = n + k
    <3>1. q - n \in Nat /\ q = n + (q - n)
      BY <1>2, <1>3, <1>5
    <3> QED BY <3>1
  <2>2. q * Day = n * Day + k * Day /\ k * Day >= 0 /\ n * Day \in Nat
    BY <2>1, <1>1, <1>2
  <2>3. ~(d < n * Day - Early[n])
    BY <2>2, <1>1, <1>3
  <2>4. ~(Days(d) < n)
    BY <1>2, <1>3, <1>4, <1>5
  <2> QED BY <2>3, <2>4
<1>6. CASE n = q + 1
  <2>1. d >= n * Day - Early[n] <=> ~(d < n * Day - Early[n])
    <3>1. n * Day \in Int
      BY <1>1, <1>2
    <3> QED BY <1>1, <3>1
  <2> QED BY <1>2, <1>3, <1>4, <1>6, <2>1
<1>7. CASE n > q + 1
  <2>1. PICK k \in Nat : n = q + 2 + k
    <3>1. n - q - 2 \in Nat /\ n = q + 2 + (n - q - 2)
      BY <1>2, <1>3, <1>7
    <3> QED BY <3>1
  <2>2. n * Day = q * Day + Day + Day + k * Day /\ k * Day >= 0 /\ q * Day \in Nat
    BY <2>1, <1>1, <1>3
  <2>3. d < n * Day - Early[n]
    BY <2>2, <1>1, <1>3
  <2>4. Days(d) < n
    BY <1>2, <1>3, <1>4, <1>7
  <2> QED BY <2>3, <2>4
<1> QED BY <1>2, <1>3, <1>5, <1>6, <1>7

-----------------------------------------------------------------------------
(* Which rule a finding breaks under r at t, and which counter counts it. *)
Near(f, t, r) == r.expiringDays > 0 /\ DaysLeft(f, t) < r.expiringDays
Breaks(rule, f, t, r) ==
  CASE rule = "plaintext-key" ->
         f.kind = "private-key" /\ ~r.allowPlaintext /\ f.protection = "plaintext"
    [] rule = "loose-permissions" -> f.kind = "private-key" /\ ~r.ignorePerms /\ f.loose
    [] rule = "weak-rsa" -> /\ f.kind = "private-key" /\ r.minRSABits > 0 /\ f.algorithm = "rsa"
                            /\ f.bits > 0 /\ f.bits < r.minRSABits
    [] rule = "expired" -> Expired(f, t)
    [] OTHER -> f.kind = "certificate" /\ ~Expired(f, t) /\ Near(f, t, r)

Counted(field, f, t, r) ==
  CASE field = "keys"         -> f.kind = "private-key"
    [] field = "plaintext"    -> f.kind = "private-key" /\ f.protection = "plaintext"
    [] field = "encrypted"    -> f.kind = "private-key" /\ f.protection = "encrypted"
    [] field = "loose"        -> f.kind = "private-key" /\ f.loose
    [] field = "certificates" -> f.kind = "certificate"
    [] field = "expired"      -> Expired(f, t)
    [] field = "expiring"     -> f.kind = "certificate" /\ ~Expired(f, t) /\ Near(f, t, r)
    [] field = "csrs"         -> f.kind = "csr"
    [] OTHER                  -> f.kind = "container"

Marks(f, t, r) ==
  \/ f.kind = "private-key" /\ f.loose
  \/ f.kind = "certificate" /\ (Expired(f, t) \/ Near(f, t, r))

JSONOf(f, t) ==
  [kind |-> f.kind, protection |-> f.protection, algorithm |-> f.algorithm,
   bits     |-> IF f.bits = 0 THEN {} ELSE {f.bits},
   daysLeft |-> IF f.kind = "certificate" THEN {DaysLeft(f, t)} ELSE {},
   expired  |-> IF f.kind = "certificate" THEN {Expired(f, t)} ELSE {},
   loose    |-> IF f.kind \in {"private-key", "container"} THEN {f.loose} ELSE {}]

(* What has been gathered of the first n of the findings fs. *)
Occurs(x, s) == \E j \in DOMAIN s : s[j] = x
Gathered(bs, fs, n, t, r) ==
  /\ bs \in Seq(Breach)
  /\ \A rule \in RuleNames : \A i \in Nat :
       Occurs([rule |-> rule, at |-> i], bs) <=> i \in 1 .. n /\ Breaks(rule, fs[i], t, r)
CountedIn(field, fs, n, t, r) == {i \in 1 .. n : Counted(field, fs[i], t, r)}
Fields == DOMAIN NoSummary
Added(s, fs, n, t, r) ==
  /\ s = [field \in Fields |-> s[field]]
  /\ \A field \in Fields : s[field] = Cardinality(CountedIn(field, fs, n, t, r))
MarkedIn(ms, fs, n, t, r) == ms = {i \in 1 .. n : Marks(fs[i], t, r)}

(* The invariant: the types; the flags once a command is chosen; what the    *)
(* loop has gathered; and what has been printed and returned.                *)
Base ==
  /\ found \in Seq(Finding) /\ rules \in Rules /\ clock \in Int /\ now \in Int
  /\ command \in {"none"} \cup Commands /\ pc \in {"idle", "start", "parse", "sweep", "loop"}
  /\ cursor \in 1 .. Len(found) + 1 /\ breaches \in Seq(Breach) /\ marked \subseteq DOMAIN found
  /\ \A field \in Fields : summary[field] \in 0 .. Len(found)
  /\ args \in Seq(DOMAIN FlagName) /\ todo \in Seq(Seq(DOMAIN FlagName))
  /\ at \in 1 .. Len(args) + 1

Parsed ==
  /\ pc \in {"parse", "sweep", "loop"} => command \in Commands /\ FlagType(flags, command)
  /\ \E c \in Commands : FlagType(flags, c)

Running ==
  /\ pc \in {"start", "parse", "sweep"} => breaches = <<>> /\ summary = NoSummary /\ marked = {}
  /\ pc = "loop" /\ command = "check" =>
       /\ Gathered(breaches, found, cursor - 1, now, rules) /\ summary = NoSummary /\ marked = {}
  /\ pc = "loop" /\ command = "scan" =>
       /\ breaches = <<>> /\ Added(summary, found, cursor - 1, now, rules)
       /\ MarkedIn(marked, found, cursor - 1, now, rules)

Coded(e) ==
  /\ e.exit \in 0 .. 3
  /\ e.exit \in {2, 3} => e.stdout = Plain("nothing")
  /\ e.exit \in {0, 1} => e.stdout.as # "nothing"
  /\ e.exit = 2 => ~e.swept
  /\ e.exit = 3 => e.swept
  /\ e.exit = 1 => e.command = "check"
Judged(e, fs) ==
  e.stdout.as \in {"check text", "check json"} =>
    /\ e.rules \in Rules /\ e.now \in Int
    /\ Gathered(e.breaches, fs, Len(fs), e.now, e.rules)
    /\ e.exit = IF e.breaches = <<>> THEN 0 ELSE 1
    /\ e.stdout.breaches = e.breaches
    /\ e.stdout.as = "check json" => (e.stdout.pass <=> e.breaches = <<>>)
    /\ e.stdout.as = "check text" => (e.stdout.last = "PASS" <=> e.breaches = <<>>)
Shown(e, fs) ==
  /\ e.stdout.as \in {"text", "markdown"} =>
       /\ e.rules \in Rules /\ e.now \in Int
       /\ Added(e.summary, fs, Len(fs), e.now, e.rules)
       /\ MarkedIn(e.marked, fs, Len(fs), e.now, e.rules)
  /\ e.stdout.as = "json" =>
       e.now \in Int /\ e.stdout.findings = [i \in DOMAIN fs |-> JSONOf(fs[i], e.now)]
Done == \A e \in ended : Coded(e) /\ Judged(e, found) /\ Shown(e, found)

Record(code, output) ==
  [line |-> args, command |-> command, flags |-> flags, path |-> path, rules |-> rules,
   now |-> now, swept |-> pc \in {"sweep", "loop"}, breaches |-> breaches, summary |-> summary,
   marked |-> marked, exit |-> code, stdout |-> output]

IInv == Base /\ Parsed /\ Running /\ Done

-----------------------------------------------------------------------------
LEMMA Either ==
  ASSUME NEW S, NEW s \in Seq(S), NEW t \in Seq(S), NEW x
  PROVE  Occurs(x, s \o t) <=> Occurs(x, s) \/ Occurs(x, t)
<1>1. /\ s \o t \in Seq(S) /\ Len(s \o t) = Len(s) + Len(t) /\ Len(s) \in Nat /\ Len(t) \in Nat
      /\ \A j \in 1 .. Len(s) + Len(t) : (s \o t)[j] = IF j <= Len(s) THEN s[j] ELSE t[j - Len(s)]
  BY ConcatProperties, LenProperties
<1>2. DOMAIN s = 1 .. Len(s) /\ DOMAIN t = 1 .. Len(t) /\ DOMAIN (s \o t) = 1 .. Len(s) + Len(t)
  BY <1>1, LenProperties
<1>3. ASSUME NEW j \in 1 .. Len(s) PROVE (s \o t)[j] = s[j] /\ j \in 1 .. Len(s) + Len(t)
  BY <1>1
<1>4. ASSUME NEW j \in 1 .. Len(t)
      PROVE  (s \o t)[Len(s) + j] = t[j] /\ Len(s) + j \in 1 .. Len(s) + Len(t)
  BY <1>1
<1>5. ASSUME NEW j \in 1 .. Len(s) + Len(t), ~(j <= Len(s))
      PROVE  (s \o t)[j] = t[j - Len(s)] /\ j - Len(s) \in 1 .. Len(t)
  BY <1>1, <1>5
<1>6. ASSUME NEW j \in 1 .. Len(s) + Len(t), j <= Len(s)
      PROVE  (s \o t)[j] = s[j] /\ j \in 1 .. Len(s)
  BY <1>1, <1>6
<1> QED BY <1>2, <1>3, <1>4, <1>5, <1>6 DEF Occurs

LEMMA OneIf ==
  ASSUME NEW b \in BOOLEAN, NEW rule \in RuleNames, NEW x
  PROVE  If(b, rule) \in Seq(RuleNames) /\ (Occurs(x, If(b, rule)) <=> b /\ x = rule)
<1>1. CASE b
  <2>1. If(b, rule) = <<rule>>
    BY <1>1 DEF If
  <2>2. <<rule>> \in Seq(RuleNames) /\ DOMAIN <<rule>> = {1} /\ <<rule>>[1] = rule
    OBVIOUS
  <2> QED BY <1>1, <2>1, <2>2 DEF Occurs
<1>2. CASE ~b
  <2>1. If(b, rule) = <<>>
    BY <1>2 DEF If
  <2>2. <<>> \in Seq(RuleNames) /\ DOMAIN <<>> = {}
    OBVIOUS
  <2> QED BY <1>2, <2>1, <2>2 DEF Occurs
<1> QED BY <1>1, <1>2

(* Evaluate lists exactly the rules that are broken. *)
LEMMA EvaluateLists ==
  ASSUME rules \in Rules, now \in Int, NEW f \in Finding
  PROVE  /\ Evaluate(f) \in Seq(RuleNames)
         /\ \A rule \in RuleNames : Occurs(rule, Evaluate(f)) <=> Breaks(rule, f, now, rules)
<1>1. CASE f.kind = "private-key"
  <2> DEFINE b1 == ~rules.allowPlaintext /\ f.protection = "plaintext"
             b2 == ~rules.ignorePerms /\ f.loose
             b3 == /\ rules.minRSABits > 0 /\ f.algorithm = "rsa" /\ f.bits > 0
                   /\ f.bits < rules.minRSABits
             s1 == If(b1, "plaintext-key")
             s2 == If(b2, "loose-permissions")
             s3 == If(b3, "weak-rsa")
  <2>1. Evaluate(f) = s1 \o s2 \o s3
    BY <1>1 DEF Evaluate
  <2>2. b1 \in BOOLEAN /\ b2 \in BOOLEAN /\ b3 \in BOOLEAN
    BY DEF Finding, Rules
  <2>3. /\ "plaintext-key" \in RuleNames /\ "loose-permissions" \in RuleNames
        /\ "weak-rsa" \in RuleNames
    BY DEF RuleNames
  <2>4. /\ Breaks("plaintext-key", f, now, rules) <=> b1
        /\ Breaks("loose-permissions", f, now, rules) <=> b2
        /\ Breaks("weak-rsa", f, now, rules) <=> b3
        /\ ~Breaks("expired", f, now, rules) /\ ~Breaks("expiring", f, now, rules)
    BY <1>1 DEF Breaks, Expired
  <2> HIDE DEF b1, b2, b3
  <2>5. s1 \in Seq(RuleNames) /\ s2 \in Seq(RuleNames) /\ s3 \in Seq(RuleNames)
    BY <2>2, <2>3, OneIf
  <2>6. s1 \o s2 \in Seq(RuleNames) /\ s1 \o s2 \o s3 \in Seq(RuleNames)
    BY <2>5, ConcatProperties
  <2>7. ASSUME NEW x
        PROVE  /\ Occurs(x, s1) <=> b1 /\ x = "plaintext-key"
               /\ Occurs(x, s2) <=> b2 /\ x = "loose-permissions"
               /\ Occurs(x, s3) <=> b3 /\ x = "weak-rsa"
    BY <2>2, <2>3, OneIf
  <2> HIDE DEF s1, s2, s3
  <2>8. ASSUME NEW x
        PROVE  Occurs(x, s1 \o s2 \o s3) <=> Occurs(x, s1) \/ Occurs(x, s2) \/ Occurs(x, s3)
    <3>1. Occurs(x, s1 \o s2) <=> Occurs(x, s1) \/ Occurs(x, s2)
      BY <2>5, Either
    <3>2. Occurs(x, (s1 \o s2) \o s3) <=> Occurs(x, s1 \o s2) \/ Occurs(x, s3)
      BY <2>5, <2>6, Either
    <3> QED BY <3>1, <3>2
  <2>9. ASSUME NEW rule \in RuleNames
        PROVE  Occurs(rule, Evaluate(f)) <=> Breaks(rule, f, now, rules)
    BY <2>1, <2>4, <2>7, <2>8 DEF RuleNames
  <2> QED BY <2>1, <2>6, <2>9
<1>2. CASE f.kind = "certificate"
  <2> DEFINE b == Expiring(f)
  <2>1. b \in BOOLEAN
    BY DEF Expiring
  <2>2. "expired" \in RuleNames /\ "expiring" \in RuleNames
    BY DEF RuleNames
  <2>3. ASSUME NEW rule \in RuleNames
        PROVE  Breaks(rule, f, now, rules) <=> \/ rule = "expired" /\ Expired(f, now)
                                               \/ rule = "expiring" /\ ~Expired(f, now) /\ b
    BY <1>2 DEF Breaks, RuleNames, Expired, Near, Expiring
  <2> HIDE DEF b
  <2>4. CASE Expired(f, now)
    <3>1. Evaluate(f) = <<"expired">>
      BY <1>2, <2>4 DEF Evaluate
    <3>2. ASSUME NEW x PROVE Occurs(x, <<"expired">>) <=> x = "expired"
      BY DEF Occurs
    <3>3. <<"expired">> \in Seq(RuleNames)
      BY <2>2
    <3> QED BY <2>3, <2>4, <3>1, <3>2, <3>3
  <2>5. CASE ~Expired(f, now)
    <3>1. Evaluate(f) = If(b, "expiring")
      BY <1>2, <2>5 DEF Evaluate, b
    <3>2. If(b, "expiring") \in Seq(RuleNames)
      BY <2>1, <2>2, OneIf
    <3>3. ASSUME NEW x PROVE Occurs(x, If(b, "expiring")) <=> b /\ x = "expiring"
      BY <2>1, <2>2, OneIf
    <3> QED BY <2>3, <2>5, <3>1, <3>2, <3>3
  <2> QED BY <2>4, <2>5
<1>3. CASE f.kind \notin {"private-key", "certificate"}
  <2>1. Evaluate(f) = <<>>
    BY <1>3 DEF Evaluate
  <2>2. ASSUME NEW rule \in RuleNames PROVE ~Breaks(rule, f, now, rules)
    BY <1>3 DEF Breaks, RuleNames, Expired
  <2>3. <<>> \in Seq(RuleNames) /\ DOMAIN <<>> = {}
    OBVIOUS
  <2> QED BY <2>1, <2>2, <2>3 DEF Occurs
<1> QED BY <1>1, <1>2, <1>3

-----------------------------------------------------------------------------
(* One more finding.                                                        *)
LEMMA Findings ==
  ASSUME NEW fs \in Seq(Finding)
  PROVE  /\ Len(fs) \in Nat /\ DOMAIN fs = 1 .. Len(fs)
         /\ \A i \in 1 .. Len(fs) : fs[i] \in Finding
BY LenProperties, ElementOfSeq

LEMMA Extend ==
  ASSUME NEW fs, NEW t, NEW r, NEW n \in Nat, NEW bs, Gathered(bs, fs, n, t, r),
         NEW broken \in Seq(RuleNames),
         \A rule \in RuleNames : Occurs(rule, broken) <=> Breaks(rule, fs[n + 1], t, r)
  PROVE  Gathered(bs \o [i \in DOMAIN broken |-> [rule |-> broken[i], at |-> n + 1]],
                  fs, n + 1, t, r)
<1> DEFINE new == [i \in DOMAIN broken |-> [rule |-> broken[i], at |-> n + 1]]
<1>1. bs \in Seq(Breach)
  BY DEF Gathered
<1>2. /\ Len(broken) \in Nat /\ DOMAIN broken = 1 .. Len(broken)
      /\ \A i \in 1 .. Len(broken) : broken[i] \in RuleNames
  BY LenProperties, ElementOfSeq
<1>3. new \in Seq(Breach) /\ DOMAIN new = DOMAIN broken
  <2>1. \A i \in 1 .. Len(broken) : [rule |-> broken[i], at |-> n + 1] \in Breach
    BY <1>2 DEF Breach
  <2>2. new \in [1 .. Len(broken) -> Breach]
    BY <1>2, <2>1
  <2> QED BY <1>2, <2>2, SeqDef
<1>4. ASSUME NEW rule \in RuleNames, NEW i \in Nat
      PROVE  Occurs([rule |-> rule, at |-> i], new) <=> i = n + 1 /\ Occurs(rule, broken)
  <2>1. ASSUME NEW j \in DOMAIN broken
        PROVE  new[j] = [rule |-> rule, at |-> i] <=> broken[j] = rule /\ i = n + 1
    BY <2>1
  <2> QED BY <1>3, <2>1 DEF Occurs
<1> HIDE DEF new
<1>5. ASSUME NEW rule \in RuleNames, NEW i \in Nat
      PROVE  Occurs([rule |-> rule, at |-> i], bs \o new) <=>
               i \in 1 .. n + 1 /\ Breaks(rule, fs[i], t, r)
  <2>1. Occurs([rule |-> rule, at |-> i], bs \o new) <=>
          Occurs([rule |-> rule, at |-> i], bs) \/ Occurs([rule |-> rule, at |-> i], new)
    BY <1>1, <1>3, Either
  <2>2. Occurs([rule |-> rule, at |-> i], bs) <=> i \in 1 .. n /\ Breaks(rule, fs[i], t, r)
    BY DEF Gathered
  <2>3. Occurs([rule |-> rule, at |-> i], new) <=> i = n + 1 /\ Breaks(rule, fs[n + 1], t, r)
    BY <1>4
  <2>4. i \in 1 .. n + 1 <=> i \in 1 .. n \/ i = n + 1
    OBVIOUS
  <2>5. CASE i = n + 1
    <3>1. i \notin 1 .. n /\ i \in 1 .. n + 1 /\ fs[i] = fs[n + 1]
      BY <2>5
    <3> QED BY <2>1, <2>2, <2>3, <2>5, <3>1
  <2>6. CASE i # n + 1
    BY <2>1, <2>2, <2>3, <2>4, <2>6
  <2> QED BY <2>5, <2>6
<1>6. bs \o new \in Seq(Breach)
  BY <1>1, <1>3, ConcatProperties
<1> QED BY <1>5, <1>6 DEF Gathered, new

LEMMA SummaryAdds ==
  ASSUME NEW f \in Finding, NEW s, DOMAIN s = Fields, s = [field \in Fields |-> s[field]],
         \A field \in Fields : s[field] \in Nat
  PROVE  /\ Summarize(s, f) = [field \in Fields |-> Summarize(s, f)[field]]
         /\ DOMAIN Summarize(s, f) = Fields
         /\ \A field \in Fields :
              Summarize(s, f)[field] = s[field] + (IF Counted(field, f, now, rules) THEN 1 ELSE 0)
<1>1. Fields = {"keys", "plaintext", "encrypted", "loose", "certificates", "expired", "expiring",
                "csrs", "containers"}
  BY DEF Fields, NoSummary
<1>2. f.loose \in BOOLEAN
  BY DEF Finding
<1>3. f.kind \in {"private-key", "certificate", "csr", "container"}
  BY DEF Finding, Kinds
<1>4. CASE f.kind = "private-key"
  <2>1. Summarize(s, f) =
          [s EXCEPT !.keys = @ + 1, !.plaintext = @ + (IF f.protection = "plaintext" THEN 1 ELSE 0),
                    !.encrypted = @ + (IF f.protection = "encrypted" THEN 1 ELSE 0), !.loose = @ + (IF f.loose THEN 1 ELSE 0)]
    BY <1>4 DEF Summarize, One
  <2>2. /\ Counted("keys", f, now, rules) = TRUE
        /\ Counted("plaintext", f, now, rules) <=> f.protection = "plaintext"
        /\ Counted("encrypted", f, now, rules) <=> f.protection = "encrypted"
        /\ Counted("loose", f, now, rules) <=> f.loose
        /\ \A field \in Fields \ {"keys", "plaintext", "encrypted", "loose"} :
             ~Counted(field, f, now, rules)
    BY <1>1, <1>4 DEF Counted, Expired
  <2>3. DOMAIN Summarize(s, f) = Fields
    BY <2>1
  <2>4. /\ Summarize(s, f)["keys"] = s["keys"] + 1
        /\ Summarize(s, f)["plaintext"] = s["plaintext"] + (IF f.protection = "plaintext" THEN 1 ELSE 0)
        /\ Summarize(s, f)["encrypted"] = s["encrypted"] + (IF f.protection = "encrypted" THEN 1 ELSE 0)
        /\ Summarize(s, f)["loose"] = s["loose"] + (IF f.loose THEN 1 ELSE 0)
        /\ \A field \in Fields \ {"keys", "plaintext", "encrypted", "loose"} :
             Summarize(s, f)[field] = s[field]
    BY <1>1, <2>1
  <2>5. Summarize(s, f) = [field \in Fields |-> Summarize(s, f)[field]]
    BY <2>1
  <2> QED BY <1>1, <1>2, <2>2, <2>3, <2>4, <2>5
<1>5. CASE f.kind = "certificate"
  <2>1. Summarize(s, f) =
          [s EXCEPT !.certificates = @ + 1, !.expired = @ + (IF Expired(f, now) THEN 1 ELSE 0),
                    !.expiring = @ + (IF ~Expired(f, now) /\ Soon(f) THEN 1 ELSE 0)]
    BY <1>5 DEF Summarize, One
  <2>2. /\ Counted("certificates", f, now, rules) = TRUE
        /\ Counted("expired", f, now, rules) <=> Expired(f, now)
        /\ Counted("expiring", f, now, rules) <=> ~Expired(f, now) /\ Soon(f)
        /\ \A field \in Fields \ {"certificates", "expired", "expiring"} :
             ~Counted(field, f, now, rules)
    BY <1>1, <1>5 DEF Counted, Near, Soon
  <2>3. DOMAIN Summarize(s, f) = Fields
    BY <2>1
  <2>4. /\ Summarize(s, f)["certificates"] = s["certificates"] + 1
        /\ Summarize(s, f)["expired"] = s["expired"] + (IF Expired(f, now) THEN 1 ELSE 0)
        /\ Summarize(s, f)["expiring"] =
             s["expiring"] + (IF ~Expired(f, now) /\ Soon(f) THEN 1 ELSE 0)
        /\ \A field \in Fields \ {"certificates", "expired", "expiring"} :
             Summarize(s, f)[field] = s[field]
    BY <1>1, <2>1
  <2>5. Summarize(s, f) = [field \in Fields |-> Summarize(s, f)[field]]
    BY <2>1
  <2> QED BY <1>1, <2>2, <2>3, <2>4, <2>5
<1>6. CASE f.kind = "csr"
  <2>1. Summarize(s, f) = [s EXCEPT !.csrs = @ + 1]
    BY <1>6 DEF Summarize, One
  <2>2. /\ Counted("csrs", f, now, rules) = TRUE
        /\ \A field \in Fields \ {"csrs"} : ~Counted(field, f, now, rules)
    BY <1>1, <1>6 DEF Counted, Expired
  <2> QED BY <1>1, <1>2, <2>1, <2>2
<1>7. CASE f.kind = "container"
  <2>1. Summarize(s, f) = [s EXCEPT !.containers = @ + 1]
    BY <1>7 DEF Summarize, One
  <2>2. /\ Counted("containers", f, now, rules) = TRUE
        /\ \A field \in Fields \ {"containers"} : ~Counted(field, f, now, rules)
    BY <1>1, <1>7 DEF Counted, Expired
  <2> QED BY <1>1, <1>2, <2>1, <2>2
<1> QED BY <1>3, <1>4, <1>5, <1>6, <1>7

LEMMA CountMore ==
  ASSUME NEW field, NEW fs, NEW t, NEW r, NEW n \in Nat
  PROVE  /\ Cardinality(CountedIn(field, fs, n, t, r)) \in 0 .. n
         /\ Cardinality(CountedIn(field, fs, n + 1, t, r)) =
              Cardinality(CountedIn(field, fs, n, t, r))
                + (IF Counted(field, fs[n + 1], t, r) THEN 1 ELSE 0)
<1> DEFINE old == CountedIn(field, fs, n, t, r)
<1>1. IsFiniteSet(1 .. n) /\ Cardinality(1 .. n) = n
  <2>1. 1 \in Int /\ n \in Int
    OBVIOUS
  <2>2. /\ IsFiniteSet(1 .. n)
        /\ Cardinality(1 .. n) = IF 1 > n THEN 0 ELSE n - 1 + 1
    BY <2>1, FS_Interval
  <2> QED BY <2>2
<1>2. old \subseteq 1 .. n
  BY DEF CountedIn
<1>3. IsFiniteSet(old) /\ Cardinality(old) <= n
  BY <1>1, <1>2, FS_Subset
<1>4. Cardinality(old) \in Nat
  BY <1>3, FS_CardinalityType
<1>5. n + 1 \notin old
  BY <1>2
<1>6. CASE Counted(field, fs[n + 1], t, r)
  <2>1. CountedIn(field, fs, n + 1, t, r) = old \cup {n + 1}
    <3>1. 1 .. n + 1 = (1 .. n) \cup {n + 1}
      OBVIOUS
    <3> QED BY <1>6, <3>1 DEF CountedIn
  <2>2. Cardinality(old \cup {n + 1}) = Cardinality(old) + 1
    BY <1>3, <1>5, FS_AddElement
  <2>3. Cardinality(CountedIn(field, fs, n + 1, t, r)) = Cardinality(old \cup {n + 1})
    BY <2>1, Zenon
  <2>4. Cardinality(CountedIn(field, fs, n + 1, t, r)) = Cardinality(old) + 1
    BY <2>2, <2>3, Zenon
  <2> QED BY <1>3, <1>4, <1>6, <2>4
<1>7. CASE ~Counted(field, fs[n + 1], t, r)
  <2>1. CountedIn(field, fs, n + 1, t, r) = old
    <3>1. 1 .. n + 1 = (1 .. n) \cup {n + 1}
      OBVIOUS
    <3> QED BY <1>7, <3>1 DEF CountedIn
  <2> QED BY <1>3, <1>4, <1>7, <2>1
<1> QED BY <1>6, <1>7

-----------------------------------------------------------------------------
(* The invariant holds.                                                     *)
LEMMA NothingGathered ==
  ASSUME NEW fs, NEW t, NEW r
  PROVE  /\ Gathered(<<>>, fs, 0, t, r) /\ Added(NoSummary, fs, 0, t, r) /\ MarkedIn({}, fs, 0, t, r)
         /\ NoSummary = [field \in Fields |-> 0]
<1>1. 1 .. 0 = {}
  OBVIOUS
<1>2. \A x : ~Occurs(x, <<>>)
  BY DEF Occurs
<1>3. Gathered(<<>>, fs, 0, t, r)
  <2>1. <<>> \in Seq(Breach)
    OBVIOUS
  <2> QED BY <1>1, <1>2, <2>1 DEF Gathered
<1>4. NoSummary = [field \in Fields |-> 0]
  BY DEF Fields, NoSummary
<1>5. ASSUME NEW field \in Fields PROVE Cardinality(CountedIn(field, fs, 0, t, r)) = 0
  <2>1. CountedIn(field, fs, 0, t, r) = {}
    BY <1>1 DEF CountedIn
  <2> QED BY <2>1, FS_EmptySet, Zenon
<1>6. Added(NoSummary, fs, 0, t, r)
  BY <1>4, <1>5 DEF Added
<1> QED BY <1>1, <1>3, <1>4, <1>6 DEF MarkedIn

LEMMA DefaultsHold == \A c \in Commands : FlagType(Defaults(c), c)
<1> SUFFICES ASSUME NEW c \in Commands PROVE FlagType(Defaults(c), c)
  OBVIOUS
<1>1. DOMAIN Defaults(c) = Registered(c)
  BY DEF Defaults
<1>2. ASSUME NEW f \in Registered(c), f \in IntFlags PROVE Defaults(c)[f] \in Int
  <2>1. CASE f = "expiring"
    <3>1. Defaults(c)[f] = IF c = "check" THEN 0 ELSE 30
      BY <1>2, <2>1 DEF Defaults, BoolFlags
    <3> QED BY <3>1
  <2>2. CASE f # "expiring"
    <3>1. f \notin BoolFlags /\ f # "format" /\ f # "exclude"
      BY <1>2 DEF IntFlags, BoolFlags
    <3>2. Defaults(c)[f] = 0
      BY <1>2, <2>2, <3>1 DEF Defaults
    <3> QED BY <3>2
  <2> QED BY <2>1, <2>2
<1>3. ASSUME NEW f \in Registered(c), f \in BoolFlags PROVE Defaults(c)[f] \in BOOLEAN
  BY <1>3 DEF Defaults, BoolFlags
<1> QED BY <1>1, <1>2, <1>3 DEF FlagType

LEMMA Ending ==
  ASSUME Done, NEW code, NEW output, Ends(code, output), found' = found,
         Coded(Record(code, output)), Judged(Record(code, output), found),
         Shown(Record(code, output), found)
  PROVE  Done'
<1>1. ended' = ended \cup {Record(code, output)}
  BY DEF Ends, Record
<1> QED BY <1>1 DEF Done

LEMMA Plainly ==
  ASSUME NEW what \in {"usage", "version", "nothing"}, NEW code, NEW fs
  PROVE  /\ Judged(Record(code, Plain(what)), fs) /\ Shown(Record(code, Plain(what)), fs)
         /\ Record(code, Plain(what)).exit = code
         /\ Record(code, Plain(what)).stdout = Plain(what)
         /\ Plain(what).as = what
         /\ Record(code, Plain(what)).swept <=> pc \in {"sweep", "loop"}
         /\ Record(code, Plain(what)).command = command
BY DEF Judged, Shown, Record, Plain

LEMMA InitHolds == LineInit => IInv
<1> SUFFICES ASSUME LineInit PROVE IInv
  OBVIOUS
<1>1. found \in Seq(Finding) /\ todo \in Seq(Seq(DOMAIN FlagName))
  BY LineAssumption DEF LineInit
<1>2. Len(found) \in Nat
  BY <1>1, Findings
<1>3. \A field \in Fields : summary[field] \in 0 .. Len(found)
  BY <1>2, NothingGathered DEF LineInit
<1>4. rules \in Rules
  BY DEF LineInit, NoRules, Rules
<1>5. <<>> \in Seq(Breach) /\ <<>> \in Seq(DOMAIN FlagName) /\ Len(<<>>) = 0
  OBVIOUS
<1>6. Base
  BY <1>1, <1>2, <1>3, <1>4, <1>5, GateAssumption DEF LineInit, Base
<1>7. Parsed
  <2>1. "scan" \in Commands
    BY DEF Commands
  <2> QED BY <2>1, DefaultsHold DEF LineInit, Parsed, FlagType
<1>8. Running /\ Done
  BY DEF LineInit, Running, Done
<1> QED BY <1>6, <1>7, <1>8 DEF IInv

LEMMA Starts == IInv /\ (Invoke \/ Dispatch) => IInv'
<1> SUFFICES ASSUME IInv PROVE Invoke \/ Dispatch => IInv'
  OBVIOUS
<1> USE DEF IInv
<1>1. Len(found) \in Nat
  BY Findings DEF Base
<1>2. CASE Invoke
  <2>1. args' \in Seq(DOMAIN FlagName) /\ todo' \in Seq(Seq(DOMAIN FlagName)) /\ Len(args') \in Nat
    <3>1. Head(todo) \in Seq(DOMAIN FlagName) /\ Tail(todo) \in Seq(Seq(DOMAIN FlagName))
      BY <1>2, HeadTailProperties DEF Invoke, Base
    <3> QED BY <1>2, <3>1, LenProperties DEF Invoke
  <2>2. \A field \in Fields : summary'[field] \in 0 .. Len(found)
    BY <1>1, <1>2, NothingGathered DEF Invoke
  <2>3. NoRules \in Rules /\ <<>> \in Seq(Breach)
    BY DEF NoRules, Rules
  <2>4. Base'
    BY <1>2, <2>1, <2>2, <2>3 DEF Invoke, Base
  <2>5. Parsed'
    <3>1. "scan" \in Commands
      BY DEF Commands
    <3> QED BY <1>2, <3>1, DefaultsHold DEF Invoke, Parsed, FlagType
  <2>6. Running' /\ Done'
    BY <1>2 DEF Invoke, Running, Done
  <2> QED BY <2>4, <2>5, <2>6
<1>3. CASE Dispatch
  <2>1. command' \in Commands
    BY <1>3 DEF Dispatch, Commands
  <2>2. FlagsFrom \in 1 .. Len(args) + 1
    <3>1. args # <<>> => Len(args) >= 1 /\ Len(args) \in Nat
      BY EmptySeq, LenProperties DEF Base
    <3>2. Len(args) \in Nat
      BY LenProperties DEF Base
    <3> QED BY <3>1, <3>2 DEF FlagsFrom
  <2>3. Base'
    BY <1>3, <2>1, <2>2 DEF Dispatch, Base
  <2>4. Parsed'
    BY <1>3, <2>1, DefaultsHold DEF Dispatch, Parsed, FlagType
  <2>5. Running' /\ Done'
    BY <1>3 DEF Dispatch, Running, Done
  <2> QED BY <2>3, <2>4, <2>5
<1> QED BY <1>2, <1>3

LEMMA FlagSetOn == ASSUME IInv, NEW f, ParseFlag(f) PROVE IInv'
<1> USE DEF IInv
<1>1. /\ pc = "parse" /\ command \in Commands /\ DOMAIN flags = Registered(command)
      /\ FlagType(flags, command)
  BY DEF ParseFlag, Parsing, Parsed, FlagType
<1>2. f \in Registered(command) /\ flags' = Set(f, Text(f))
  BY DEF ParseFlag, Understood
<1>3. DOMAIN flags' = Registered(command)
  BY <1>1, <1>2 DEF Set
<1>4. ASSUME NEW g \in Registered(command)
      PROVE  (g \in IntFlags => flags'[g] \in Int) /\ (g \in BoolFlags => flags'[g] \in BOOLEAN)
  <2>1. CASE g # f
    <3>1. flags'[g] = flags[g]
      BY <1>1, <1>2, <2>1 DEF Set
    <3> HIDE DEF IInv
    <3>2. (g \in IntFlags => flags[g] \in Int) /\ (g \in BoolFlags => flags[g] \in BOOLEAN)
      BY <1>1 DEF FlagType
    <3> QED BY <3>1, <3>2
  <2>2. CASE g = f /\ f \in BoolFlags
    <3>1. flags'[g] = Truth[Text(f)]
      BY <1>1, <1>2, <2>2 DEF Set, BoolFlags
    <3>2. Truth[Text(f)] \in BOOLEAN
      BY <2>2, LineAssumption DEF ParseFlag, Understood
    <3>3. f \notin IntFlags
      BY <2>2 DEF BoolFlags, IntFlags
    <3> QED BY <2>2, <3>1, <3>2, <3>3
  <2>3. CASE g = f /\ f \in IntFlags
    <3>1. flags'[g] = Number[Text(f)]
      BY <1>1, <1>2, <2>3 DEF Set, BoolFlags, IntFlags
    <3>2. Number[Text(f)] \in Int
      BY <2>3, LineAssumption DEF ParseFlag, Understood
    <3>3. f \notin BoolFlags
      BY <2>3 DEF BoolFlags, IntFlags
    <3> QED BY <2>3, <3>1, <3>2, <3>3
  <2>4. CASE g = f /\ f \notin IntFlags \cup BoolFlags
    BY <2>4
  <2> QED BY <2>1, <2>2, <2>3, <2>4
<1>5. at' \in 1 .. Len(args) + 1
  <2>1. Len(args) \in Nat /\ at \in Nat /\ at >= 1 /\ at <= Len(args)
    BY LenProperties DEF Base, ParseFlag, Parsing
  <2>2. TakesNext(f) => at < Len(args)
    BY DEF ParseFlag, Understood
  <2>3. at' = IF TakesNext(f) THEN at + 2 ELSE at + 1
    BY DEF ParseFlag, After
  <2> HIDE DEF IInv
  <2>4. CASE TakesNext(f)
    BY <2>1, <2>2, <2>3, <2>4
  <2>5. CASE ~TakesNext(f)
    BY <2>1, <2>3, <2>5
  <2> QED BY <2>4, <2>5
<1>6. Base'
  BY <1>5 DEF Base, ParseFlag, gate
<1>7. Parsed'
  BY <1>1, <1>3, <1>4 DEF Parsed, FlagType, ParseFlag, gate
<1>8. Running' /\ Done'
  BY DEF Running, Done, ParseFlag, gate
<1> QED BY <1>6, <1>7, <1>8

(* The steps that end a line without a report. *)
LEMMA Stopped ==
  ASSUME IInv, UNCHANGED <<found, rules, clock, command, now, cursor, breaches, summary, marked,
                           todo, args, at, flags, path>>,
         pc' = "idle", Done'
  PROVE  IInv'
<1>1. Base'
  BY DEF IInv, Base
<1>2. Parsed' /\ Running'
  BY DEF IInv, Parsed, Running
<1> QED BY <1>1, <1>2 DEF IInv

LEMMA Errors ==
  ASSUME IInv, NEW f, Announce \/ FlagError(f) \/ Refuse \/ SweepError
  PROVE  IInv'
<1>1. CASE Announce
  <2>1. PICK what \in {"usage", "version"} : Ends(0, Plain(what))
    BY <1>1 DEF Announce
  <2>2. Coded(Record(0, Plain(what)))
    BY <2>1, Plainly DEF Coded
  <2>3. Done'
    BY <1>1, <2>1, <2>2, Plainly, Ending DEF IInv, Announce
  <2> QED BY <1>1, <2>3, Stopped DEF Announce, Ends
<1>2. CASE FlagError(f)
  <2>1. PICK what \in {"usage", "nothing"}, code \in {0, 2} :
          Ends(code, Plain(what)) /\ (code = 2 <=> what = "nothing")
    BY <1>2 DEF FlagError
  <2>2. pc = "parse"
    BY <1>2 DEF FlagError, Parsing
  <2>3. Coded(Record(code, Plain(what)))
    <3>1. code \in 0 .. 3 /\ code # 3 /\ code # 1
      BY <2>1
    <3> QED BY <2>1, <2>2, <3>1, Plainly DEF Coded
  <2>4. Done'
    BY <1>2, <2>1, <2>3, Plainly, Ending DEF IInv, FlagError, gate
  <2> QED BY <1>2, <2>1, <2>4, Stopped DEF FlagError, Ends, gate
<1>3. CASE Refuse
  <2>1. Ends(2, Plain("nothing")) /\ pc = "parse"
    BY <1>3 DEF Refuse, FlagsEnd
  <2>2. Coded(Record(2, Plain("nothing")))
    BY <2>1, Plainly DEF Coded
  <2>3. Done'
    BY <1>3, <2>1, <2>2, Plainly, Ending DEF IInv, Refuse, gate
  <2> QED BY <1>3, <2>1, <2>3, Stopped DEF Refuse, Ends, gate
<1>4. CASE SweepError
  <2>1. Ends(3, Plain("nothing")) /\ pc = "sweep"
    BY <1>4 DEF SweepError
  <2>2. Coded(Record(3, Plain("nothing")))
    BY <2>1, Plainly DEF Coded
  <2>3. Done'
    BY <1>4, <2>1, <2>2, Plainly, Ending DEF IInv, SweepError, gate
  <2> QED BY <1>4, <2>1, <2>3, Stopped DEF SweepError, Ends, gate
<1> QED BY <1>1, <1>2, <1>3, <1>4

LEMMA Accepted == IInv /\ Accept => IInv'
<1> SUFFICES ASSUME IInv, Accept PROVE IInv'
  OBVIOUS
<1>1. pc = "parse" /\ command \in Commands /\ FlagType(flags, command)
  BY DEF IInv, Accept, FlagsEnd, Parsed
<1>2. rules' \in Rules
  <2>1. /\ flags["expiring"] \in Int
        /\ command = "check" =>
             /\ flags["allow-plaintext"] \in BOOLEAN /\ flags["ignore-perms"] \in BOOLEAN
             /\ flags["min-rsa-bits"] \in Int
    <3>1. /\ "expiring" \in Registered(command)
          /\ command = "check" =>
               {"allow-plaintext", "ignore-perms", "min-rsa-bits"} \subseteq Registered(command)
      BY DEF Registered, SharedFlags, GateFlags
    <3>2. /\ "expiring" \in IntFlags /\ "min-rsa-bits" \in IntFlags
          /\ "allow-plaintext" \in BoolFlags /\ "ignore-perms" \in BoolFlags
      BY DEF IntFlags, BoolFlags
    <3>3. \A f \in Registered(command) : /\ f \in IntFlags => flags[f] \in Int
                                         /\ f \in BoolFlags => flags[f] \in BOOLEAN
      BY <1>1 DEF FlagType
    <3> QED BY <3>1, <3>2, <3>3
  <2>2. rules' = [expiringDays   |-> flags["expiring"],
                  allowPlaintext |-> command = "check" /\ flags["allow-plaintext"],
                  ignorePerms    |-> command = "check" /\ flags["ignore-perms"],
                  minRSABits     |-> IF command = "check" THEN flags["min-rsa-bits"] ELSE 0]
    BY DEF Accept
  <2> QED BY <2>1, <2>2 DEF Rules
<1>3. Base'
  BY <1>2 DEF IInv, Base, Accept, gate
<1>4. Parsed' /\ Running' /\ Done'
  BY <1>1 DEF IInv, Parsed, Running, Done, Accept, gate
<1> QED BY <1>3, <1>4 DEF IInv

LEMMA Swept == IInv /\ SweepReturns /\ UNCHANGED line => IInv'
<1> SUFFICES ASSUME IInv, SweepReturns, UNCHANGED line PROVE IInv'
  OBVIOUS
<1>1. Len(found) \in Nat
  BY Findings DEF IInv, Base
<1>2. Base'
  BY <1>1 DEF IInv, Base, SweepReturns, line
<1>3. Parsed' /\ Done'
  BY DEF IInv, Parsed, Done, SweepReturns, line
<1>4. Running'
  <2>1. /\ pc' = "loop" /\ cursor' = 1 /\ found' = found /\ rules' = rules
        /\ breaches' = <<>> /\ summary' = NoSummary /\ marked' = {}
    BY DEF IInv, Running, SweepReturns
  <2>2. cursor' - 1 = 0
    BY <2>1
  <2> QED BY <2>1, <2>2, NothingGathered DEF Running
<1> QED BY <1>2, <1>3, <1>4 DEF IInv

LEMMA Evaluated == IInv /\ EvaluateOne /\ UNCHANGED line => IInv'
<1> SUFFICES ASSUME IInv, EvaluateOne, UNCHANGED line PROVE IInv'
  OBVIOUS
<1> DEFINE n == cursor - 1
<1>1. /\ n \in Nat /\ cursor = n + 1 /\ cursor \in 1 .. Len(found) /\ Len(found) \in Nat
      /\ found[cursor] \in Finding /\ rules \in Rules /\ now \in Int
  BY Findings DEF IInv, Base, EvaluateOne
<1>2. /\ Evaluate(found[cursor]) \in Seq(RuleNames)
      /\ \A rule \in RuleNames :
           Occurs(rule, Evaluate(found[cursor])) <=> Breaks(rule, found[cursor], now, rules)
  BY <1>1, EvaluateLists
<1>3. Gathered(breaches, found, n, now, rules) /\ summary = NoSummary /\ marked = {}
  BY DEF IInv, Running, EvaluateOne
<1>4. /\ breaches' = breaches \o [i \in DOMAIN Evaluate(found[cursor]) |->
                                 [rule |-> Evaluate(found[cursor])[i], at |-> cursor]]
      /\ cursor' = n + 2 /\ command = "check"
      /\ UNCHANGED <<found, rules, clock, command, pc, now, summary, marked>>
  BY <1>1 DEF EvaluateOne
<1>5. Gathered(breaches', found, n + 1, now, rules)
  <2> HIDE DEF n
  <2> DEFINE broken == Evaluate(found[cursor])
  <2>1. found[cursor] = found[n + 1]
    BY <1>1
  <2>2. broken \in Seq(RuleNames)
    BY <1>2
  <2>3. \A rule \in RuleNames : Occurs(rule, broken) <=> Breaks(rule, found[n + 1], now, rules)
    BY <1>2, <2>1
  <2>4. breaches' = breaches \o [i \in DOMAIN broken |-> [rule |-> broken[i], at |-> n + 1]]
    BY <1>1, <1>4
  <2> HIDE DEF broken
  <2>5. Gathered(breaches \o [i \in DOMAIN broken |-> [rule |-> broken[i], at |-> n + 1]],
                 found, n + 1, now, rules)
    BY <1>1, <1>3, <2>2, <2>3, Extend
  <2> QED BY <2>4, <2>5
<1>6. cursor' - 1 = n + 1 /\ cursor' \in 1 .. Len(found) + 1
  BY <1>1, <1>4
<1>7. Base'
  BY <1>4, <1>5, <1>6 DEF IInv, Base, Gathered, line
<1>8. Parsed' /\ Done'
  BY <1>4 DEF IInv, Parsed, Done, line
<1>9. Running'
  BY <1>3, <1>4, <1>5, <1>6 DEF IInv, Running, EvaluateOne
<1> QED BY <1>7, <1>8, <1>9 DEF IInv

LEMMA Summarized == IInv /\ SummarizeOne /\ UNCHANGED line => IInv'
<1> SUFFICES ASSUME IInv, SummarizeOne, UNCHANGED line PROVE IInv'
  OBVIOUS
<1> DEFINE n == cursor - 1
<1>1. /\ n \in Nat /\ cursor = n + 1 /\ cursor \in 1 .. Len(found) /\ Len(found) \in Nat
      /\ found[cursor] \in Finding /\ rules \in Rules /\ now \in Int
  BY Findings DEF IInv, Base, SummarizeOne
<1>2. /\ breaches = <<>> /\ Added(summary, found, n, now, rules)
      /\ MarkedIn(marked, found, n, now, rules)
  BY DEF IInv, Running, SummarizeOne
<1>3. /\ summary' = Summarize(summary, found[cursor])
      /\ marked' = IF Flagged(found[cursor]) THEN marked \cup {cursor} ELSE marked
      /\ cursor' = n + 2 /\ command = "scan"
      /\ UNCHANGED <<found, rules, clock, command, pc, now, breaches>>
  BY <1>1 DEF SummarizeOne
<1> HIDE DEF n
<1>4. /\ summary = [field \in Fields |-> summary[field]] /\ DOMAIN summary = Fields
      /\ \A field \in Fields : summary[field] = Cardinality(CountedIn(field, found, n, now, rules))
      /\ \A field \in Fields : summary[field] \in Nat
  <2>1. \A field \in Fields : Cardinality(CountedIn(field, found, n, now, rules)) \in Nat
    BY <1>1, CountMore
  <2> QED BY <1>2, <2>1 DEF Added
<1>5. /\ summary' = [field \in Fields |-> summary'[field]]
      /\ \A field \in Fields : summary'[field] =
           summary[field] + (IF Counted(field, found[cursor], now, rules) THEN 1 ELSE 0)
  BY <1>1, <1>3, <1>4, SummaryAdds
<1>6. ASSUME NEW field \in Fields
      PROVE  /\ summary'[field] = Cardinality(CountedIn(field, found, n + 1, now, rules))
             /\ summary'[field] \in 0 .. Len(found)
  <2>1. /\ Cardinality(CountedIn(field, found, n, now, rules)) \in 0 .. n
        /\ Cardinality(CountedIn(field, found, n + 1, now, rules)) =
             Cardinality(CountedIn(field, found, n, now, rules))
               + (IF Counted(field, found[n + 1], now, rules) THEN 1 ELSE 0)
    BY <1>1, CountMore
  <2>2. found[cursor] = found[n + 1]
    BY <1>1
  <2>3. summary'[field] = Cardinality(CountedIn(field, found, n + 1, now, rules))
    BY <1>4, <1>5, <2>1, <2>2
  <2>4. Cardinality(CountedIn(field, found, n + 1, now, rules)) \in 0 .. n + 1
    BY <1>1, CountMore
  <2>5. n + 1 <= Len(found)
    BY <1>1
  <2> QED BY <1>1, <2>3, <2>4, <2>5
<1>7. Added(summary', found, n + 1, now, rules)
  BY <1>5, <1>6 DEF Added
<1>8. MarkedIn(marked', found, n + 1, now, rules) /\ marked' \subseteq DOMAIN found
  <2>1. Flagged(found[cursor]) <=> Marks(found[cursor], now, rules)
    BY <1>1 DEF Flagged, Marks, Near, Expired, Finding
  <2>2. 1 .. n + 1 = (1 .. n) \cup {cursor}
    BY <1>1
  <2>3. DOMAIN found = 1 .. Len(found)
    BY Findings DEF IInv, Base
  <2>4. marked = {i \in 1 .. n : Marks(found[i], now, rules)}
    BY <1>2 DEF MarkedIn
  <2>5. marked' = {i \in 1 .. n + 1 : Marks(found[i], now, rules)}
    <3>1. CASE Flagged(found[cursor])
      BY <1>3, <2>1, <2>2, <2>4, <3>1
    <3>2. CASE ~Flagged(found[cursor])
      BY <1>3, <2>1, <2>2, <2>4, <3>2
    <3> QED BY <3>1, <3>2
  <2>6. 1 .. n + 1 \subseteq 1 .. Len(found)
    BY <1>1
  <2> QED BY <2>3, <2>5, <2>6 DEF MarkedIn
<1>9. cursor' - 1 = n + 1 /\ cursor' \in 1 .. Len(found) + 1
  BY <1>1, <1>3
<1>10. Base'
  BY <1>3, <1>6, <1>8, <1>9 DEF IInv, Base, line
<1>11. Parsed' /\ Done'
  BY <1>3 DEF IInv, Parsed, Done, line
<1>12. Running'
  BY <1>2, <1>3, <1>7, <1>8, <1>9 DEF IInv, Running, SummarizeOne
<1> QED BY <1>10, <1>11, <1>12 DEF IInv

LEMMA Reported == IInv /\ Report => IInv'
<1> SUFFICES ASSUME IInv, Report PROVE IInv'
  OBVIOUS
<1>1. /\ pc = "loop" /\ command \in Commands /\ cursor - 1 = Len(found)
      /\ rules \in Rules /\ now \in Int /\ Len(found) \in Nat
  <2>1. Len(found) \in Nat
    BY Findings DEF IInv, Base
  <2>2. cursor \in 1 .. Len(found) + 1 /\ cursor > Len(found)
    BY DEF IInv, Base, Report, Looped
  <2>3. cursor - 1 = Len(found)
    BY <2>1, <2>2
  <2> QED BY <2>1, <2>3 DEF IInv, Base, Parsed, Report, Looped
<1>2. CASE command = "check"
  <2> DEFINE r == Record(IF breaches # <<>> THEN 1 ELSE 0, CheckOutput)
  <2>1. Ends(IF breaches # <<>> THEN 1 ELSE 0, CheckOutput)
    BY <1>2 DEF Report
  <2>2. Gathered(breaches, found, Len(found), now, rules)
    BY <1>1, <1>2 DEF IInv, Running
  <2>3. /\ r.stdout.as \in {"check text", "check json"} /\ r.stdout.breaches = breaches
        /\ r.stdout.as = "check json" => (r.stdout.pass <=> breaches = <<>>)
        /\ r.stdout.as = "check text" => (r.stdout.last = "PASS" <=> breaches = <<>>)
        /\ r.breaches = breaches /\ r.rules = rules /\ r.now = now /\ r.command = "check"
        /\ r.exit \in {0, 1} /\ r.exit = IF breaches = <<>> THEN 0 ELSE 1
    <3>1. /\ r.stdout = CheckOutput /\ r.exit = IF breaches # <<>> THEN 1 ELSE 0
          /\ r.breaches = breaches /\ r.rules = rules /\ r.now = now /\ r.command = command
      BY DEF Record
    <3>2. /\ CheckOutput.as \in {"check text", "check json"} /\ CheckOutput.breaches = breaches
          /\ CheckOutput.as = "check json" => (CheckOutput.pass <=> breaches = <<>>)
          /\ CheckOutput.as = "check text" => (CheckOutput.last = "PASS" <=> breaches = <<>>)
      BY DEF CheckOutput, CheckText, CheckJSON
    <3> HIDE DEF r
    <3>3. r.exit \in {0, 1} /\ r.exit = IF breaches = <<>> THEN 0 ELSE 1
      BY <3>1
    <3>4. /\ r.stdout.as \in {"check text", "check json"} /\ r.stdout.breaches = breaches
          /\ r.stdout.as = "check json" => (r.stdout.pass <=> breaches = <<>>)
          /\ r.stdout.as = "check text" => (r.stdout.last = "PASS" <=> breaches = <<>>)
      BY <3>1, <3>2, Zenon
    <3> QED BY <1>2, <3>1, <3>3, <3>4
  <2> HIDE DEF r
  <2>4. Coded(r)
    <3>1. r.stdout.as # "nothing" /\ r.exit \in {0, 1} /\ r.command = "check"
      BY <2>3
    <3> QED BY <3>1 DEF Coded
  <2>5. Judged(r, found)
    BY <1>1, <2>2, <2>3 DEF Judged
  <2>6. Shown(r, found)
    BY <2>3 DEF Shown
  <2>7. Done'
    BY <2>1, <2>4, <2>5, <2>6, Ending DEF IInv, Report, gate, r
  <2> QED BY <2>1, <2>7, Stopped DEF Report, Ends, gate
<1>3. CASE command = "scan"
  <2> DEFINE r == Record(0, ScanOutput)
  <2>1. breaches = <<>> /\ Added(summary, found, Len(found), now, rules)
        /\ MarkedIn(marked, found, Len(found), now, rules)
    BY <1>1, <1>3 DEF IInv, Running
  <2>2. Ends(0, ScanOutput)
    BY <1>3, <2>1 DEF Report
  <2>3. /\ r.exit = 0 /\ r.stdout = ScanOutput /\ r.summary = summary /\ r.marked = marked
        /\ r.rules = rules /\ r.now = now
    BY DEF Record
  <2>4. /\ ScanOutput.as \in {"json", "no material", "text", "markdown"}
        /\ ScanOutput.as = "json" =>
             ScanOutput.findings = [i \in DOMAIN found |-> JSONFinding(found[i])]
    BY DEF ScanOutput, Plain, TextReport, MarkdownReport, JSONReport
  <2>5. \A f : JSONFinding(f) = JSONOf(f, now)
    BY DEF JSONFinding, JSONOf
  <2> HIDE DEF r
  <2>6. Coded(r) /\ Judged(r, found)
    <3>1. r.stdout.as \in {"json", "no material", "text", "markdown"}
      BY <2>3, <2>4
    <3>2. r.stdout.as # "nothing" /\ r.exit = 0
      BY <2>3, <3>1
    <3>3. ~(r.stdout.as \in {"check text", "check json"})
      BY <3>1
    <3>4. Coded(r)
      BY <3>2 DEF Coded
    <3>5. Judged(r, found)
      BY <3>3, Zenon DEF Judged
    <3> QED BY <3>4, <3>5
  <2>7. Shown(r, found)
    BY <1>1, <2>1, <2>3, <2>4, <2>5 DEF Shown
  <2>8. Done'
    BY <2>2, <2>6, <2>7, Ending DEF IInv, Report, gate, r
  <2> QED BY <2>2, <2>8, Stopped DEF Report, Ends, gate
<1> QED BY <1>1, <1>2, <1>3 DEF Commands

LEMMA Inductive == IInv /\ [LineNext]_lineVars => IInv'
<1> SUFFICES ASSUME IInv, [LineNext]_lineVars PROVE IInv'
  OBVIOUS
<1>1. CASE Invoke \/ Dispatch
  BY <1>1, Starts
<1>2. ASSUME NEW f, ParseFlag(f) PROVE IInv'
  BY <1>2, FlagSetOn
<1>3. ASSUME NEW f, Announce \/ FlagError(f) \/ Refuse \/ SweepError PROVE IInv'
  BY <1>3, Errors
<1>4. CASE Accept
  BY <1>4, Accepted
<1>5. CASE Loop
  BY <1>5, Swept, Evaluated, Summarized DEF Loop
<1>6. CASE Report
  BY <1>6, Reported
<1>7. CASE Tick /\ UNCHANGED line
  <2>1. clock' \in Int
    BY <1>7 DEF IInv, Base, Tick
  <2>2. Base'
    BY <1>7, <2>1 DEF IInv, Base, Tick, line
  <2>3. Parsed' /\ Running' /\ Done'
    BY <1>7 DEF IInv, Parsed, Running, Done, Tick, line
  <2> QED BY <2>2, <2>3 DEF IInv
<1>8. CASE UNCHANGED lineVars
  BY <1>8 DEF IInv, Base, Parsed, Running, Done, lineVars, vars, line
<1> QED BY <1>1, <1>2, <1>3, <1>4, <1>5, <1>6, <1>7, <1>8 DEF LineNext, Program

LEMMA Invariant == LineSpec => []IInv
BY InitHolds, Inductive, PTL DEF LineSpec

-----------------------------------------------------------------------------
(* Every variable keeps its type and its bounds, whatever the arguments: the *)
(* flag set never looks behind the line, no counter exceeds the findings.    *)
THEOREM TypesHold == LineSpec => []LineType
<1>1. IInv => LineType
  <2> SUFFICES ASSUME IInv PROVE LineType
    OBVIOUS
  <2>1. \A e \in ended : e.exit \in 0 .. 3
    BY DEF IInv, Done, Coded
  <2> QED BY <2>1 DEF IInv, Base, Parsed, LineType, Fields
<1> QED BY <1>1, Invariant, PTL

(* The exit code, standard output and the verdict say the same of every line *)
(* that ever ends.                                                           *)
THEOREM ExitCodesHold == LineSpec => []ExitCodes
<1>1. IInv => ExitCodes
  <2> SUFFICES ASSUME IInv PROVE ExitCodes
    OBVIOUS
  <2>1. \A e \in ended : Coded(e) /\ Judged(e, found)
    BY DEF IInv, Done
  <2>2. ASSUME NEW e \in ended PROVE e.stdout = Plain("nothing") <=> e.exit \in {2, 3}
    <3>1. e.exit \in {0, 1} \/ e.exit \in {2, 3}
      BY <2>1 DEF Coded
    <3>2. e.stdout = Plain("nothing") => e.stdout.as = "nothing"
      BY DEF Plain
    <3>3. e.exit \in {0, 1} => e.exit \notin {2, 3}
      OBVIOUS
    <3> QED BY <2>1, <3>1, <3>2, <3>3 DEF Coded
  <2>3. ASSUME NEW e \in Gates
        PROVE  /\ e.exit = IF e.stdout.breaches = <<>> THEN 0 ELSE 1
               /\ e.stdout.as = "check json" => (e.stdout.pass <=> e.exit = 0)
               /\ e.stdout.as = "check text" => (e.stdout.last = "PASS" <=> e.exit = 0)
    <3>1. /\ e.stdout.breaches = e.breaches
          /\ e.stdout.as = "check json" => (e.stdout.pass <=> e.breaches = <<>>)
          /\ e.stdout.as = "check text" => (e.stdout.last = "PASS" <=> e.breaches = <<>>)
      BY <2>1 DEF Gates, Judged
    <3>2. e.exit = IF e.breaches = <<>> THEN 0 ELSE 1
      BY <2>1 DEF Gates, Judged
    <3>3. e.exit = 0 <=> e.breaches = <<>>
      BY <3>2
    <3> QED BY <3>1, <3>2, <3>3, Zenon
  <2> QED BY <2>1, <2>2, <2>3 DEF Coded, ExitCodes
<1> QED BY <1>1, Invariant, PTL

-----------------------------------------------------------------------------
LEMMA BrokenAre ==
  ASSUME NEW e, NEW fs, NEW n, NEW t, NEW r, Gathered(e.breaches, fs, n, t, r),
         NEW rule \in RuleNames, n \in Nat
  PROVE  \A i : i \in Broken(e, rule) <=> i \in 1 .. n /\ Breaks(rule, fs[i], t, r)
<1> DEFINE bs == e.breaches
<1>1. /\ bs \in Seq(Breach)
      /\ \A i \in Nat : Occurs([rule |-> rule, at |-> i], bs) <=> i \in 1 .. n /\ Breaks(rule, fs[i], t, r)
  BY DEF Gathered
<1>2. \A j \in DOMAIN bs : bs[j] \in Breach
  BY <1>1, LenProperties, ElementOfSeq
<1>3. ASSUME NEW i
      PROVE  i \in Broken(e, rule) <=> i \in Nat /\ Occurs([rule |-> rule, at |-> i], bs)
  <2>1. i \in Broken(e, rule) <=> \E j \in DOMAIN bs : bs[j].rule = rule /\ bs[j].at = i
    BY DEF Broken
  <2>2. ASSUME NEW j \in DOMAIN bs
        PROVE  bs[j].rule = rule /\ bs[j].at = i <=> i \in Nat /\ bs[j] = [rule |-> rule, at |-> i]
    BY <1>2 DEF Breach
  <2> HIDE DEF bs
  <2> QED BY <2>1, <2>2 DEF Occurs
<1>4. \A i \in 1 .. n : i \in Nat
  OBVIOUS
<1> HIDE DEF bs
<1> QED BY <1>1, <1>3, <1>4

(* Of a certificate that has not expired, the days left are within a window  *)
(* if and only if the time left is, up to the rounding; or if no duration    *)
(* can hold the window.                                                      *)
LEMMA Window ==
  ASSUME NEW f \in Finding, NEW t \in Int, NEW r \in Rules, f.notAfter >= t
  PROVE  LET n == r.expiringDays IN
         Near(f, t, r) <=>
           n > 0 /\ (n <= MaxDuration \div Day => f.notAfter - t < n * Day - Early[n])
<1> DEFINE n == r.expiringDays
           left == f.notAfter - t
           d == IF left > MaxDuration THEN MaxDuration ELSE left
           top == MaxDuration \div Day + 1
<1>1. left \in Nat /\ n \in Int /\ MaxDuration \in Nat /\ Day \in Nat /\ Day > 0
  BY GateAssumption DEF Finding, Rules
<1>2. d \in Nat /\ Sub(f.notAfter, t) = d /\ d <= MaxDuration
  BY <1>1 DEF Sub
<1>3. Near(f, t, r) <=> n > 0 /\ Days(d) < n
  BY <1>2 DEF Near, DaysLeft
<1>4. /\ top \in Nat /\ top >= 1 /\ top - 1 = MaxDuration \div Day
      /\ (top - 1) * Day <= MaxDuration /\ MaxDuration < top * Day - Early[top]
  BY <1>1, GateAssumption
<1>5. \A k \in 1 .. top : Days(d) < k <=> d < k * Day - Early[k]
  BY <1>2, WholeDays
<1>6. \A k \in 1 .. top : Early[k] \in 0 .. Day - 1
  BY GateAssumption
<1>7. d \in Nat /\ (d = left \/ (d = MaxDuration /\ left > MaxDuration))
  BY <1>1, <1>2
<1> HIDE DEF d, left, n, top
<1>8. CASE n \in 1 .. top - 1
  <2>1. n \in 1 .. top /\ n <= top - 1
    BY <1>4, <1>8
  <2>2. n * Day <= MaxDuration
    <3>1. PICK k \in Nat : top - 1 = n + k
      <4>1. top - 1 - n \in Nat /\ top - 1 = n + (top - 1 - n)
        BY <1>1, <1>4, <2>1
      <4> QED BY <4>1
    <3>2. (top - 1) * Day = n * Day + k * Day /\ k * Day >= 0 /\ n * Day \in Int
      BY <1>1, <3>1
    <3> QED BY <1>1, <1>4, <3>2
  <2>3. d < n * Day - Early[n] <=> left < n * Day - Early[n]
    <3>1. n * Day \in Int /\ Early[n] \in 0 .. Day - 1
      BY <1>1, <1>6, <2>1
    <3> QED BY <1>1, <1>7, <2>2, <3>1
  <2>4. n > 0
    BY <1>8
  <2> QED BY <1>3, <1>4, <1>5, <2>1, <2>3, <2>4 DEF left, n
<1>9. CASE n >= top
  <2>1. top \in 1 .. top
    BY <1>4
  <2>2. Days(d) < top
    <3>1. top * Day \in Int /\ Early[top] \in 0 .. Day - 1
      BY <1>1, <1>4, <1>6, <2>1
    <3>2. d < top * Day - Early[top]
      BY <1>1, <1>2, <1>4, <1>7, <3>1
    <3> QED BY <1>5, <2>1, <3>2
  <2>3. Days(d) \in Int
    <3>1. d \div Day \in Int
      BY <1>1, <1>7
    <3> QED BY <3>1 DEF Days
  <2>4. Days(d) < n /\ n > 0 /\ ~(n <= MaxDuration \div Day)
    BY <1>1, <1>4, <1>9, <2>2, <2>3
  <2> QED BY <1>3, <2>4 DEF n
<1>10. CASE n <= 0
  BY <1>1, <1>3, <1>10 DEF n
<1>11. n \in 1 .. top - 1 \/ n >= top \/ n <= 0
  BY <1>1, <1>4
<1> QED BY <1>8, <1>9, <1>10, <1>11

(* The window of check is what it says, up to the rounding of Hours, for     *)
(* every certificate, window, moment and length of a day, although days are  *)
(* cut and durations saturate.                                               *)
THEOREM WindowHolds == LineSpec => []WindowUpToRounding
<1>1. IInv => WindowUpToRounding
  <2> SUFFICES ASSUME IInv, NEW p \in Gates
               PROVE  LET n == p.rules.expiringDays IN
                      Broken(p, "expiring") =
                        {i \in DOMAIN found :
                           /\ found[i].kind = "certificate" /\ found[i].notAfter >= p.now /\ n > 0
                           /\ n <= MaxDuration \div Day =>
                                found[i].notAfter - p.now < n * Day - Early[n]}
    BY DEF WindowUpToRounding
  <2>1. /\ p.rules \in Rules /\ p.now \in Int
        /\ Gathered(p.breaches, found, Len(found), p.now, p.rules)
    BY DEF IInv, Done, Judged, Gates
  <2>2. /\ Len(found) \in Nat /\ DOMAIN found = 1 .. Len(found)
        /\ \A i \in 1 .. Len(found) : found[i] \in Finding
    BY Findings DEF IInv, Base
  <2>3. Broken(p, "expiring") = {i \in 1 .. Len(found) : Breaks("expiring", found[i], p.now, p.rules)}
    <3>1. "expiring" \in RuleNames
      BY DEF RuleNames
    <3>2. \A i : i \in Broken(p, "expiring") <=>
                   i \in 1 .. Len(found) /\ Breaks("expiring", found[i], p.now, p.rules)
      BY <2>1, <2>2, <3>1, BrokenAre
    <3> QED BY <3>2
  <2> DEFINE n == p.rules.expiringDays
             within(f) == /\ f.kind = "certificate" /\ f.notAfter >= p.now /\ n > 0
                          /\ n <= MaxDuration \div Day => f.notAfter - p.now < n * Day - Early[n]
  <2>4. ASSUME NEW i \in 1 .. Len(found)
        PROVE  Breaks("expiring", found[i], p.now, p.rules) <=> within(found[i])
    <3> DEFINE f == found[i]
    <3>1. f \in Finding /\ f.notAfter \in Int /\ p.now \in Int
      BY <2>1, <2>2 DEF Finding
    <3>2. Breaks("expiring", f, p.now, p.rules) <=>
            /\ f.kind = "certificate" /\ ~(p.now > f.notAfter) /\ Near(f, p.now, p.rules)
      BY DEF Breaks, Expired
    <3>3. ~(p.now > f.notAfter) <=> f.notAfter >= p.now
      BY <3>1
    <3>4. ASSUME f.notAfter >= p.now
          PROVE  Near(f, p.now, p.rules) <=>
                   n > 0 /\ (n <= MaxDuration \div Day => f.notAfter - p.now < n * Day - Early[n])
      BY <2>1, <3>1, <3>4, Window
    <3> HIDE DEF f, n
    <3> QED BY <3>2, <3>3, <3>4 DEF f
  <2> HIDE DEF within
  <2>5. Broken(p, "expiring") = {i \in DOMAIN found : within(found[i])}
    BY <2>2, <2>3, <2>4
  <2> QED BY <2>5 DEF within
<1> QED BY <1>1, Invariant, PTL

-----------------------------------------------------------------------------
(* What is broken at one moment is broken, by this rule or another, at every *)
(* later one.                                                                *)
LEMMA StaysBroken ==
  ASSUME NEW f \in Finding, NEW r \in Rules, NEW t \in Int, NEW u \in Int, t <= u,
         NEW rule \in RuleNames, Breaks(rule, f, t, r)
  PROVE  \E later \in RuleNames : Breaks(later, f, u, r)
<1>1. f.notAfter \in Int
  BY DEF Finding
<1>2. {"expired", "expiring"} \subseteq RuleNames
  BY DEF RuleNames
<1>3. CASE rule \in {"plaintext-key", "loose-permissions", "weak-rsa"}
  <2>1. Breaks(rule, f, u, r)
    BY <1>3 DEF Breaks
  <2> QED BY <2>1
<1>4. CASE f.kind = "certificate" /\ u > f.notAfter
  <2>1. Breaks("expired", f, u, r)
    BY <1>4 DEF Breaks, Expired
  <2> QED BY <1>2, <2>1
<1>5. CASE rule = "expired"
  <2>1. f.kind = "certificate" /\ t > f.notAfter
    BY <1>5 DEF Breaks, Expired
  <2>2. u > f.notAfter
    BY <1>1, <2>1
  <2> QED BY <1>4, <2>1, <2>2
<1>6. CASE rule = "expiring" /\ ~(u > f.notAfter)
  <2>1. f.kind = "certificate" /\ Near(f, t, r)
    BY <1>6 DEF Breaks
  <2>2. f.notAfter >= u /\ f.notAfter >= t
    BY <1>1, <1>6
  <2> DEFINE n == r.expiringDays
  <2>3. n > 0 /\ (n <= MaxDuration \div Day => f.notAfter - t < n * Day - Early[n])
    BY <2>1, <2>2, Window
  <2>4. Near(f, u, r) <=>
          n > 0 /\ (n <= MaxDuration \div Day => f.notAfter - u < n * Day - Early[n])
    BY <2>2, Window
  <2>5. n > 0 /\ n <= MaxDuration \div Day => n * Day - Early[n] \in Int
    <3>1. n \in Int /\ Day \in Int /\ MaxDuration \div Day \in Int
      BY GateAssumption DEF Rules
    <3>2. n > 0 /\ n <= MaxDuration \div Day => Early[n] \in 0 .. Day - 1
      BY <3>1, GateAssumption
    <3> QED BY <3>1, <3>2
  <2>6. f.notAfter - u <= f.notAfter - t
    BY <1>1
  <2> HIDE DEF n
  <2>7. Near(f, u, r)
    BY <1>1, <2>3, <2>4, <2>5, <2>6
  <2>8. Breaks("expiring", f, u, r)
    BY <1>6, <2>1, <2>7 DEF Breaks, Expired
  <2> QED BY <1>2, <2>8
<1>7. rule = "expiring" => f.kind = "certificate"
  BY DEF Breaks
<1> QED BY <1>3, <1>4, <1>5, <1>6, <1>7 DEF RuleNames

(* With the same rules over the same files, a gate that failed on a finding  *)
(* fails on it at every later time.                                          *)
THEOREM FailuresStay == LineSpec => []FailStaysFailed
<1>1. IInv => FailStaysFailed
  <2> SUFFICES ASSUME IInv, NEW p \in Gates, NEW q \in Gates, p.rules = q.rules, p.now <= q.now,
                      NEW i \in DOMAIN p.breaches
               PROVE  \E j \in DOMAIN q.breaches : p.breaches[i].at = q.breaches[j].at
    BY DEF FailStaysFailed
  <2>1. /\ p.rules \in Rules /\ p.now \in Int /\ q.now \in Int
        /\ Gathered(p.breaches, found, Len(found), p.now, p.rules)
        /\ Gathered(q.breaches, found, Len(found), q.now, p.rules)
    BY DEF IInv, Done, Judged, Gates
  <2>2. \A k \in 1 .. Len(found) : found[k] \in Finding
    BY Findings DEF IInv, Base
  <2>3. p.breaches[i] \in Breach
    BY <2>1, LenProperties, ElementOfSeq DEF Gathered
  <2>4. PICK rule \in RuleNames, k \in Nat : p.breaches[i] = [rule |-> rule, at |-> k]
    BY <2>3 DEF Breach
  <2>5. Occurs([rule |-> rule, at |-> k], p.breaches)
    BY <2>4 DEF Occurs
  <2>6. k \in 1 .. Len(found) /\ Breaks(rule, found[k], p.now, p.rules)
    BY <2>1, <2>5 DEF Gathered
  <2>7. PICK later \in RuleNames : Breaks(later, found[k], q.now, p.rules)
    BY <2>1, <2>2, <2>6, StaysBroken
  <2>8. Occurs([rule |-> later, at |-> k], q.breaches)
    BY <2>1, <2>6, <2>7 DEF Gathered
  <2>9. PICK j \in DOMAIN q.breaches : q.breaches[j] = [rule |-> later, at |-> k]
    BY <2>8 DEF Occurs
  <2> QED BY <2>4, <2>9
<1> QED BY <1>1, Invariant, PTL

-----------------------------------------------------------------------------
(* What check breaks on is what scan counts and marks at that moment, for    *)
(* any findings.                                                             *)
THEOREM ReportAgrees == LineSpec => []GateAgreesWithReport
<1>1. IInv => GateAgreesWithReport
  <2> SUFFICES ASSUME IInv, NEW p \in Gates, NEW q \in Reports,
                      p.now = q.now, p.rules.expiringDays = q.rules.expiringDays
               PROVE  /\ q.summary.expired  = Cardinality(Broken(p, "expired"))
                      /\ q.summary.expiring = Cardinality(Broken(p, "expiring"))
                      /\ ~p.rules.allowPlaintext =>
                           q.summary.plaintext = Cardinality(Broken(p, "plaintext-key"))
                      /\ ~p.rules.ignorePerms =>
                           /\ q.summary.loose = Cardinality(Broken(p, "loose-permissions"))
                           /\ q.marked = Broken(p, "expired") \cup Broken(p, "expiring")
                                           \cup Broken(p, "loose-permissions")
    BY DEF GateAgreesWithReport
  <2> DEFINE n == Len(found)
             t == p.now
             B(rule) == {i \in 1 .. n : Breaks(rule, found[i], t, p.rules)}
  <2>1. /\ p.rules \in Rules /\ Gathered(p.breaches, found, n, t, p.rules)
        /\ Added(q.summary, found, n, t, q.rules) /\ MarkedIn(q.marked, found, n, t, q.rules)
    BY DEF IInv, Done, Judged, Shown, Gates, Scans, Reports
  <2>2. n \in Nat
    BY Findings DEF IInv, Base
  <2>3. ASSUME NEW rule \in RuleNames PROVE Broken(p, rule) = B(rule)
    <3>1. \A i : i \in Broken(p, rule) <=> i \in 1 .. n /\ Breaks(rule, found[i], t, p.rules)
      BY <2>1, <2>2, BrokenAre
    <3> QED BY <3>1
  <2>4. {"expired", "expiring", "plaintext-key", "loose-permissions"} \subseteq RuleNames
    BY DEF RuleNames
  <2>5. \A field \in Fields :
          q.summary[field] = Cardinality(CountedIn(field, found, n, t, q.rules))
    BY <2>1 DEF Added
  <2>6. {"expired", "expiring", "plaintext", "loose"} \subseteq Fields
    BY DEF Fields, NoSummary
  <2>7. \A f : Near(f, t, p.rules) <=> Near(f, t, q.rules)
    BY DEF Near
  <2>8. CountedIn("expired", found, n, t, q.rules) = Broken(p, "expired")
    <3>1. \A f : Counted("expired", f, t, q.rules) <=> Breaks("expired", f, t, p.rules)
      BY DEF Counted, Breaks
    <3> QED BY <2>3, <2>4, <3>1 DEF CountedIn
  <2>9. CountedIn("expiring", found, n, t, q.rules) = Broken(p, "expiring")
    <3>1. \A f : Counted("expiring", f, t, q.rules) <=> Breaks("expiring", f, t, p.rules)
      BY <2>7 DEF Counted, Breaks
    <3> QED BY <2>3, <2>4, <3>1 DEF CountedIn
  <2>10. ASSUME ~p.rules.allowPlaintext
         PROVE  CountedIn("plaintext", found, n, t, q.rules) = Broken(p, "plaintext-key")
    <3>1. \A f : Counted("plaintext", f, t, q.rules) <=> Breaks("plaintext-key", f, t, p.rules)
      BY <2>10 DEF Counted, Breaks
    <3> QED BY <2>3, <2>4, <3>1 DEF CountedIn
  <2>11. ASSUME ~p.rules.ignorePerms
         PROVE  CountedIn("loose", found, n, t, q.rules) = Broken(p, "loose-permissions")
    <3>1. \A f : Counted("loose", f, t, q.rules) <=> Breaks("loose-permissions", f, t, p.rules)
      BY <2>11 DEF Counted, Breaks
    <3> QED BY <2>3, <2>4, <3>1 DEF CountedIn
  <2>12. ASSUME ~p.rules.ignorePerms
         PROVE  q.marked = Broken(p, "expired") \cup Broken(p, "expiring")
                            \cup Broken(p, "loose-permissions")
    <3>1. \A f : Marks(f, t, q.rules) <=>
                   \/ Breaks("expired", f, t, p.rules) \/ Breaks("expiring", f, t, p.rules)
                   \/ Breaks("loose-permissions", f, t, p.rules)
      BY <2>7, <2>12 DEF Marks, Breaks, Expired
    <3>2. q.marked = {i \in 1 .. n : Marks(found[i], t, q.rules)}
      BY <2>1 DEF MarkedIn
    <3>3. q.marked = B("expired") \cup B("expiring") \cup B("loose-permissions")
      BY <3>1, <3>2
    <3> QED BY <2>3, <2>4, <3>3
  <2> HIDE DEF n, t, B
  <2>13. /\ q.summary.expired  = Cardinality(Broken(p, "expired"))
         /\ q.summary.expiring = Cardinality(Broken(p, "expiring"))
    BY <2>5, <2>6, <2>8, <2>9
  <2>14. ~p.rules.allowPlaintext => q.summary.plaintext = Cardinality(Broken(p, "plaintext-key"))
    BY <2>5, <2>6, <2>10
  <2>15. ~p.rules.ignorePerms => q.summary.loose = Cardinality(Broken(p, "loose-permissions"))
    BY <2>5, <2>6, <2>11
  <2> QED BY <2>12, <2>13, <2>14, <2>15
<1> QED BY <1>1, Invariant, PTL

LEMMA Conclusions ==
  ASSUME NEW f \in Finding, NEW t, NEW r \in Rules
  PROVE  Concludes(JSONOf(f, t), r) = {rule \in RuleNames : Breaks(rule, f, t, r)}
<1> DEFINE g == JSONOf(f, t)
<1>1. /\ g.kind = f.kind /\ g.protection = f.protection /\ g.algorithm = f.algorithm
      /\ g.bits = IF f.bits = 0 THEN {} ELSE {f.bits}
      /\ g.daysLeft = IF f.kind = "certificate" THEN {DaysLeft(f, t)} ELSE {}
      /\ g.expired = IF f.kind = "certificate" THEN {Expired(f, t)} ELSE {}
      /\ g.loose = IF f.kind \in {"private-key", "container"} THEN {f.loose} ELSE {}
  BY DEF JSONOf
<1>2. f.bits \in Nat /\ r.minRSABits \in Int /\ f.loose \in BOOLEAN /\ Expired(f, t) \in BOOLEAN
  BY DEF Finding, Rules, Expired
<1>3. Expired(f, t) => f.kind = "certificate"
  BY DEF Expired
<1> HIDE DEF g
<1>4. TRUE \in g.loose <=> f.kind \in {"private-key", "container"} /\ f.loose
  BY <1>1, <1>2
<1>5. TRUE \in g.expired <=> Expired(f, t)
  BY <1>1, <1>2, <1>3
<1>6. FALSE \in g.expired <=> f.kind = "certificate" /\ ~Expired(f, t)
  BY <1>1, <1>2
<1>7. (\E b \in g.bits : b < r.minRSABits) <=> f.bits > 0 /\ f.bits < r.minRSABits
  BY <1>1, <1>2
<1>8. f.bits > 0 /\ f.bits < r.minRSABits => r.minRSABits > 0
  BY <1>2
<1>9. f.kind = "certificate" =>
        ((\E d \in g.daysLeft : d < r.expiringDays) <=> DaysLeft(f, t) < r.expiringDays)
  BY <1>1
<1>10. ASSUME NEW rule \in RuleNames
       PROVE  rule \in Concludes(g, r) <=> Breaks(rule, f, t, r)
  <2>1. CASE rule = "plaintext-key"
    BY <1>1, <2>1 DEF Concludes, Breaks
  <2>2. CASE rule = "loose-permissions"
    BY <1>1, <1>4, <2>2 DEF Concludes, Breaks
  <2>3. CASE rule = "weak-rsa"
    BY <1>1, <1>7, <1>8, <2>3 DEF Concludes, Breaks
  <2>4. CASE rule = "expired"
    BY <1>5, <2>4 DEF Concludes, Breaks
  <2>5. CASE rule = "expiring"
    BY <1>6, <1>9, <2>5 DEF Concludes, Breaks, Near
  <2> QED BY <2>1, <2>2, <2>3, <2>4, <2>5 DEF RuleNames
<1>11. Concludes(g, r) \subseteq RuleNames
  BY DEF Concludes
<1> QED BY <1>10, <1>11 DEF g

(* Whoever applies any rules to the fields of the JSON inventory concludes   *)
(* what check concludes with them at that moment, finding by finding.        *)
THEOREM JSONSuffices == LineSpec => []JSONDecides
<1>1. IInv => JSONDecides
  <2> SUFFICES ASSUME IInv, NEW p \in Gates, NEW q \in Scans("json"), p.now = q.now
               PROVE  {<<p.breaches[i].rule, p.breaches[i].at>> : i \in DOMAIN p.breaches} =
                        UNION {{<<rule, i>> : rule \in Concludes(q.stdout.findings[i], p.rules)} :
                                 i \in DOMAIN q.stdout.findings}
    BY DEF JSONDecides
  <2>1. /\ p.rules \in Rules /\ Gathered(p.breaches, found, Len(found), p.now, p.rules)
        /\ q.stdout.findings = [i \in DOMAIN found |-> JSONOf(found[i], p.now)]
    BY DEF IInv, Done, Judged, Shown, Gates, Scans
  <2>2. /\ Len(found) \in Nat /\ DOMAIN found = 1 .. Len(found)
        /\ \A k \in 1 .. Len(found) : found[k] \in Finding
    BY Findings DEF IInv, Base
  <2>3. \A i \in DOMAIN p.breaches : p.breaches[i] \in Breach
    BY <2>1, LenProperties, ElementOfSeq DEF Gathered
  <2> DEFINE L == {<<p.breaches[i].rule, p.breaches[i].at>> : i \in DOMAIN p.breaches}
             C(i) == Concludes(q.stdout.findings[i], p.rules)
             R == UNION {{<<rule, i>> : rule \in C(i)} : i \in DOMAIN q.stdout.findings}
  <2>4. DOMAIN q.stdout.findings = 1 .. Len(found)
    BY <2>1, <2>2
  <2>5. ASSUME NEW k \in 1 .. Len(found)
        PROVE  C(k) = {rule \in RuleNames : Breaks(rule, found[k], p.now, p.rules)}
    <3>1. q.stdout.findings[k] = JSONOf(found[k], p.now)
      BY <2>1, <2>2
    <3>2. Concludes(JSONOf(found[k], p.now), p.rules) =
            {rule \in RuleNames : Breaks(rule, found[k], p.now, p.rules)}
      BY <2>1, <2>2, Conclusions
    <3> QED BY <3>1, <3>2
  <2> HIDE DEF C
  <2>6. ASSUME NEW x \in L PROVE x \in R
    <3>1. PICK i \in DOMAIN p.breaches : x = <<p.breaches[i].rule, p.breaches[i].at>>
      BY <2>6
    <3>2. PICK rule \in RuleNames, k \in Nat : p.breaches[i] = [rule |-> rule, at |-> k]
      BY <2>3 DEF Breach
    <3>3. k \in 1 .. Len(found) /\ Breaks(rule, found[k], p.now, p.rules)
      BY <2>1, <3>2 DEF Gathered, Occurs
    <3>4. rule \in C(k)
      BY <2>5, <3>3
    <3>5. x = <<rule, k>>
      BY <3>1, <3>2
    <3> QED BY <2>4, <3>3, <3>4, <3>5
  <2>7. ASSUME NEW x \in R PROVE x \in L
    <3>1. PICK k \in 1 .. Len(found) : x \in {<<rule, k>> : rule \in C(k)}
      BY <2>4, <2>7
    <3>2. PICK rule \in C(k) : x = <<rule, k>>
      BY <3>1
    <3>3. rule \in RuleNames /\ Breaks(rule, found[k], p.now, p.rules) /\ k \in Nat
      BY <2>5, <3>2
    <3>4. Occurs([rule |-> rule, at |-> k], p.breaches)
      BY <2>1, <3>3 DEF Gathered
    <3>5. PICK i \in DOMAIN p.breaches : p.breaches[i] = [rule |-> rule, at |-> k]
      BY <3>4 DEF Occurs
    <3>6. p.breaches[i].rule = rule /\ p.breaches[i].at = k
      BY <3>5
    <3> QED BY <3>2, <3>6
  <2>8. L = R
    BY <2>6, <2>7
  <2> QED BY <2>8 DEF C
<1> QED BY <1>1, Invariant, PTL

-----------------------------------------------------------------------------
(* The rank of a member of a finite set of numbers: each has its own. *)
LEMMA Ranks ==
  ASSUME NEW S \in SUBSET Nat, IsFiniteSet(S)
  PROVE  /\ Cardinality(S) \in Nat
         /\ \A i \in S : Cardinality({k \in S : k <= i}) \in 1 .. Cardinality(S)
         /\ \A i, j \in S : Cardinality({k \in S : k <= i}) = Cardinality({k \in S : k <= j}) => i = j
         /\ \A n \in 1 .. Cardinality(S) : \E i \in S : Cardinality({k \in S : k <= i}) = n
<1> DEFINE U(i) == {k \in S : k <= i}
           rank == [i \in S |-> Cardinality(U(i))]
           N == Cardinality(S)
<1>1. N \in Nat
  BY FS_CardinalityType
<1>2. ASSUME NEW i \in S
      PROVE  IsFiniteSet(U(i)) /\ Cardinality(U(i)) \in 1 .. N
  <2>1. U(i) \in SUBSET S /\ {i} \in SUBSET U(i)
    BY <1>2
  <2>2. IsFiniteSet(U(i)) /\ Cardinality(U(i)) <= N
    BY <2>1, FS_Subset
  <2>3. Cardinality({i}) <= Cardinality(U(i))
    BY <2>1, <2>2, FS_Subset
  <2>4. Cardinality({i}) = 1 /\ Cardinality(U(i)) \in Nat
    BY <2>2, FS_Singleton, FS_CardinalityType
  <2> HIDE DEF U, N
  <2> QED BY <1>1, <2>2, <2>3, <2>4
<1>3. ASSUME NEW i \in S, NEW j \in S, i < j
      PROVE  Cardinality(U(i)) # Cardinality(U(j))
  <2>1. U(i) \in SUBSET U(j) /\ j \in U(j) /\ j \notin U(i)
    <3>1. i \in Nat /\ j \in Nat /\ \A k \in S : k \in Nat
      OBVIOUS
    <3>2. \A k \in S : k <= i => k <= j
      BY <1>3, <3>1
    <3>3. ~(j <= i) /\ j <= j
      BY <1>3, <3>1
    <3> QED BY <3>2, <3>3
  <2>2. U(i) # U(j)
    BY <2>1
  <2>3. Cardinality(U(j)) = Cardinality(U(i)) => U(j) = U(i)
    BY <1>2, <2>1, FS_Subset
  <2> HIDE DEF U
  <2> QED BY <2>2, <2>3
<1>4. \A i, j \in S : Cardinality(U(i)) = Cardinality(U(j)) => i = j
  <2> SUFFICES ASSUME NEW i \in S, NEW j \in S, i # j
               PROVE  Cardinality(U(i)) # Cardinality(U(j))
    OBVIOUS
  <2>1. i < j \/ j < i
    OBVIOUS
  <2> HIDE DEF U
  <2> QED BY <1>3, <2>1
<1>5. rank \in [S -> 1 .. N] /\ \A i \in S : rank[i] = Cardinality(U(i))
  <2> HIDE DEF U, N
  <2> QED BY <1>2
<1>6. rank \in Injection(S, 1 .. N)
  <2> HIDE DEF U, N
  <2>1. \A i, j \in S : rank[i] = rank[j] => i = j
    BY <1>4, <1>5
  <2> HIDE DEF rank
  <2> QED BY <1>5, <2>1, Fun_IsInj
<1>7. IsFiniteSet(1 .. N) /\ Cardinality(1 .. N) = N
  <2> HIDE DEF N
  <2>1. /\ IsFiniteSet(1 .. N)
        /\ Cardinality(1 .. N) = IF 1 > N THEN 0 ELSE N - 1 + 1
    BY <1>1, FS_Interval
  <2> QED BY <1>1, <2>1
<1>8. rank \in Surjection(S, 1 .. N)
  <2>1. Cardinality(S) = Cardinality(1 .. N)
    BY <1>7, Zenon
  <2> HIDE DEF rank, N
  <2> QED BY <1>6, <1>7, <2>1, FS_Injection
<1>9. \A n \in 1 .. N : \E i \in S : rank[i] = n
  <2> HIDE DEF rank, N
  <2> QED BY <1>8, Fun_SurjectionProperties
<1> HIDE DEF rank
<1> QED BY <1>1, <1>2, <1>4, <1>5, <1>9

(* ofKind lists every finding of its kind, once. *)
LEMMA OfKindLists ==
  ASSUME found \in Seq(Finding), NEW kind
  PROVE  LET those == {i \in DOMAIN found : found[i].kind = kind} IN
         /\ Cardinality(those) \in Nat
         /\ DOMAIN OfKind(kind) = 1 .. Cardinality(those)
         /\ \A j \in DOMAIN OfKind(kind) : OfKind(kind)[j] \in those
         /\ \A i \in those : \E j \in DOMAIN OfKind(kind) : OfKind(kind)[j] = i
<1> DEFINE those == {i \in DOMAIN found : found[i].kind = kind}
           rank(i) == Cardinality({k \in those : k <= i})
           N == Cardinality(those)
<1>1. those \in SUBSET Nat /\ IsFiniteSet(those)
  <2>1. Len(found) \in Nat /\ DOMAIN found = 1 .. Len(found)
    BY Findings
  <2>2. IsFiniteSet(1 .. Len(found))
    BY <2>1, FS_Interval
  <2>3. those \in SUBSET (1 .. Len(found))
    BY <2>1
  <2>4. those \in SUBSET Nat
    BY <2>1
  <2> HIDE DEF those
  <2> QED BY <2>2, <2>3, <2>4, FS_Subset
<1>2. OfKind(kind) = [j \in 1 .. N |-> CHOOSE i \in those : rank(i) = j]
  BY DEF OfKind
<1> HIDE DEF those
<1>3. /\ N \in Nat
      /\ \A i \in those : rank(i) \in 1 .. N
      /\ \A i, j \in those : rank(i) = rank(j) => i = j
      /\ \A n \in 1 .. N : \E i \in those : rank(i) = n
  BY <1>1, Ranks
<1> HIDE DEF rank, N
<1>4. ASSUME NEW j \in 1 .. N
      PROVE  OfKind(kind)[j] \in those /\ rank(OfKind(kind)[j]) = j
  <2>1. OfKind(kind)[j] = CHOOSE i \in those : rank(i) = j
    BY <1>2
  <2>2. \E i \in those : rank(i) = j
    BY <1>3
  <2> QED BY <2>1, <2>2
<1>5. DOMAIN OfKind(kind) = 1 .. N
  BY <1>2
<1>6. ASSUME NEW i \in those PROVE \E j \in 1 .. N : OfKind(kind)[j] = i
  <2>1. rank(i) \in 1 .. N
    BY <1>3
  <2>2. OfKind(kind)[rank(i)] \in those /\ rank(OfKind(kind)[rank(i)]) = rank(i)
    BY <1>4, <2>1
  <2>3. OfKind(kind)[rank(i)] = i
    BY <1>3, <2>2
  <2> QED BY <2>1, <2>3
<1> QED BY <1>3, <1>4, <1>5, <1>6 DEF N, those

-----------------------------------------------------------------------------
(* What a line that was swept prints, from what it has gathered.            *)
RulesOf(c, fl) ==
  [expiringDays   |-> fl["expiring"],
   allowPlaintext |-> c = "check" /\ fl["allow-plaintext"],
   ignorePerms    |-> c = "check" /\ fl["ignore-perms"],
   minRSABits     |-> IF c = "check" THEN fl["min-rsa-bits"] ELSE 0]
SectionsOf(ms) ==
  [kind \in Kinds |-> [j \in DOMAIN OfKind(kind) |->
     [at |-> OfKind(kind)[j], flagged |-> OfKind(kind)[j] \in ms]]]
CountersOf(s) ==
  {c \in DOMAIN s :
     CASE c \in {"plaintext", "encrypted"} -> s["keys"] > 0
       [] c = "loose"                      -> s["keys"] > 0 /\ s[c] > 0
       [] c \in {"expired", "expiring"}    -> s["certificates"] > 0 /\ s[c] > 0
       [] OTHER                            -> s[c] > 0}
Verdict(json, bs) ==
  IF json THEN [as |-> "check json", breaches |-> bs, pass |-> bs = <<>>]
  ELSE [as |-> "check text", breaches |-> bs, last |-> IF bs = <<>> THEN "PASS" ELSE "FAIL"]
Printed(e) ==
  IF e.command = "check" THEN Verdict(e.flags["format"] = "json", e.breaches)
  ELSE IF e.flags["format"] = "json"
    THEN [as |-> "json", summary |-> e.summary,
          findings |-> [i \in DOMAIN found |-> JSONOf(found[i], e.now)]]
  ELSE IF found = <<>> THEN Plain("no material")
  ELSE IF e.flags["format"] = "markdown"
    THEN [as |-> "markdown", sections |-> SectionsOf(e.marked), summary |-> e.summary]
  ELSE [as |-> "text", sections |-> SectionsOf(e.marked),
        summary |-> [c \in CountersOf(e.summary) |-> e.summary[c]]]

Told(e) ==
  IF e.swept
    THEN e.exit \in {0, 1} =>
           /\ e.command \in Commands /\ e.rules \in Rules /\ e.now \in Int
           /\ e.rules = RulesOf(e.command, e.flags) /\ e.stdout = Printed(e)
           /\ e.command = "scan" => /\ Added(e.summary, found, Len(found), e.now, e.rules)
                                    /\ MarkedIn(e.marked, found, Len(found), e.now, e.rules)
    ELSE e.exit \in {0, 1} => e.stdout \in {Plain("usage"), Plain("version")}
TInv ==
  /\ pc \in {"sweep", "loop"} => rules = RulesOf(command, flags)
  /\ \A e \in ended : Told(e)

LEMMA ToldStill == ASSUME UNCHANGED found, NEW e PROVE Told(e)' <=> Told(e)
BY DEF Told, Printed, SectionsOf, OfKind

LEMMA Telling ==
  ASSUME TInv, NEW code, NEW output, Ends(code, output), found' = found,
         Told(Record(code, output))
  PROVE  TInv'
<1>1. ended' = ended \cup {Record(code, output)} /\ pc' = "idle"
  BY DEF Ends, Record
<1>2. \A e : Told(e)' <=> Told(e)
  BY ToldStill
<1>3. \A e \in ended' : Told(e)'
  BY <1>1, <1>2 DEF TInv
<1> QED BY <1>1, <1>3 DEF TInv

LEMMA Silent ==
  ASSUME TInv, UNCHANGED <<found, ended>>, pc' \notin {"sweep", "loop"}
  PROVE  TInv'
<1>1. \A e : Told(e)' <=> Told(e)
  BY ToldStill
<1> QED BY <1>1 DEF TInv

LEMMA ReportTold == IInv /\ TInv /\ Report => TInv'
<1> SUFFICES ASSUME IInv, TInv, Report PROVE TInv'
  OBVIOUS
<1>1. /\ pc = "loop" /\ command \in Commands /\ cursor - 1 = Len(found)
      /\ rules \in Rules /\ now \in Int /\ Len(found) \in Nat /\ found' = found
  <2>1. Len(found) \in Nat
    BY Findings DEF IInv, Base
  <2>2. cursor \in 1 .. Len(found) + 1 /\ cursor > Len(found)
    BY DEF IInv, Base, Report, Looped
  <2>3. cursor - 1 = Len(found)
    BY <2>1, <2>2
  <2> QED BY <2>1, <2>3 DEF IInv, Base, Parsed, Report, Looped, gate
<1> DEFINE output == IF command = "check" THEN CheckOutput ELSE ScanOutput
           code == IF breaches # <<>> THEN 1 ELSE 0
           r == Record(code, output)
<1>2. Ends(code, output)
  BY DEF Report
<1>3. /\ r.swept = TRUE /\ r.command = command /\ r.rules = rules /\ r.now = now
      /\ r.flags = flags /\ r.breaches = breaches /\ r.summary = summary /\ r.marked = marked
      /\ r.exit = code /\ r.stdout = output
  BY <1>1 DEF Record
<1>4. rules = RulesOf(command, flags)
  BY <1>1 DEF TInv
<1>5. command = "scan" => /\ Added(summary, found, Len(found), now, rules)
                          /\ MarkedIn(marked, found, Len(found), now, rules)
  BY <1>1 DEF IInv, Running
<1> HIDE DEF r
<1>6. output = Printed(r)
  <2>1. CASE command = "check"
    BY <1>3, <2>1 DEF Printed, Verdict, CheckOutput, CheckText, CheckJSON
  <2>2. CASE command # "check"
    <3>1. \A f : JSONFinding(f) = JSONOf(f, now)
      BY DEF JSONFinding, JSONOf
    <3>2. Sections = SectionsOf(marked)
      BY DEF Sections, SectionsOf
    <3>3. output = ScanOutput
      BY <2>2
    <3>4. [c \in TextCounters |-> summary[c]] = [c \in CountersOf(summary) |-> summary[c]]
      BY DEF TextCounters, CountersOf
    <3>5. JSONReport = [as |-> "json", summary |-> summary,
                        findings |-> [i \in DOMAIN found |-> JSONOf(found[i], now)]]
      BY <3>1 DEF JSONReport
    <3>6. MarkdownReport = [as |-> "markdown", sections |-> SectionsOf(marked), summary |-> summary]
      BY <3>2 DEF MarkdownReport
    <3>7. TextReport = [as |-> "text", sections |-> SectionsOf(marked),
                        summary |-> [c \in CountersOf(summary) |-> summary[c]]]
      BY <3>2, <3>4 DEF TextReport
    <3> HIDE DEF output
    <3> QED BY <1>3, <2>2, <3>3, <3>5, <3>6, <3>7 DEF Printed, ScanOutput
  <2> QED BY <2>1, <2>2
<1> HIDE DEF output, code
<1>7. Told(r)
  BY <1>1, <1>3, <1>4, <1>5, <1>6 DEF Told
<1> QED BY <1>1, <1>2, <1>7, Telling DEF r

LEMMA StopsTold ==
  ASSUME IInv, TInv, NEW f, Announce \/ FlagError(f) \/ Refuse \/ SweepError
  PROVE  TInv'
<1>1. CASE Announce
  <2>1. PICK what \in {"usage", "version"} : Ends(0, Plain(what))
    BY <1>1 DEF Announce
  <2>2. Told(Record(0, Plain(what)))
    <3>1. ~Record(0, Plain(what)).swept /\ Record(0, Plain(what)).stdout = Plain(what)
      BY <1>1, <2>1, Plainly DEF Announce
    <3> QED BY <3>1 DEF Told
  <2> QED BY <1>1, <2>1, <2>2, Telling DEF Announce
<1>2. CASE FlagError(f)
  <2>1. PICK what \in {"usage", "nothing"}, code \in {0, 2} :
          Ends(code, Plain(what)) /\ (code = 2 <=> what = "nothing")
    BY <1>2 DEF FlagError
  <2>2. Told(Record(code, Plain(what)))
    <3>1. /\ ~Record(code, Plain(what)).swept /\ Record(code, Plain(what)).stdout = Plain(what)
          /\ Record(code, Plain(what)).exit = code
      BY <1>2, <2>1, Plainly DEF FlagError, Parsing
    <3>2. code \in {0, 1} => what = "usage"
      BY <2>1
    <3> QED BY <3>1, <3>2 DEF Told
  <2> QED BY <1>2, <2>1, <2>2, Telling DEF FlagError, gate
<1>3. CASE Refuse \/ SweepError
  <2>1. PICK code \in {2, 3} : Ends(code, Plain("nothing"))
    BY <1>3 DEF Refuse, SweepError
  <2>2. Told(Record(code, Plain("nothing")))
    <3>1. Record(code, Plain("nothing")).exit = code /\ code \notin {0, 1}
      BY <2>1, Plainly
    <3> QED BY <3>1 DEF Told
  <2> QED BY <1>3, <2>1, <2>2, Telling DEF Refuse, SweepError, gate
<1> QED BY <1>1, <1>2, <1>3

LEMMA Telltale == LineSpec => []TInv
<1>1. LineInit => TInv
  BY DEF LineInit, TInv
<1>2. IInv /\ TInv /\ [LineNext]_lineVars => TInv'
  <2> SUFFICES ASSUME IInv, TInv, [LineNext]_lineVars PROVE TInv'
    OBVIOUS
  <2>1. CASE Invoke \/ Dispatch
    BY <2>1, Silent DEF Invoke, Dispatch
  <2>2. ASSUME NEW f, ParseFlag(f) PROVE TInv'
    BY <2>2, Silent DEF ParseFlag, Parsing, gate
  <2>3. ASSUME NEW f, Announce \/ FlagError(f) \/ Refuse \/ SweepError PROVE TInv'
    BY <2>3, StopsTold
  <2>4. CASE Accept
    <3>1. \A e : Told(e)' <=> Told(e)
      BY <2>4, ToldStill DEF Accept, gate
    <3>2. rules' = RulesOf(command', flags')
      BY <2>4 DEF Accept, gate, RulesOf
    <3> QED BY <2>4, <3>1, <3>2 DEF Accept, TInv
  <2>5. CASE Loop
    <3>1. pc \in {"sweep", "loop"} /\ UNCHANGED <<found, rules, command, flags, ended>>
      BY <2>5 DEF Loop, line, SweepReturns, EvaluateOne, SummarizeOne
    <3>2. \A e : Told(e)' <=> Told(e)
      BY <3>1, ToldStill
    <3> QED BY <3>1, <3>2 DEF TInv
  <2>6. CASE Report
    BY <2>6, ReportTold
  <2>7. CASE (Tick /\ UNCHANGED line) \/ UNCHANGED lineVars
    <3>1. UNCHANGED <<found, rules, command, flags, ended, pc>>
      BY <2>7 DEF Tick, lineVars, vars, line
    <3>2. \A e : Told(e)' <=> Told(e)
      BY <3>1, ToldStill
    <3> QED BY <3>1, <3>2 DEF TInv
  <2> QED BY <2>1, <2>2, <2>3, <2>4, <2>5, <2>6, <2>7 DEF LineNext, Program
<1> QED BY <1>1, <1>2, Invariant, PTL DEF LineSpec

LEMMA ScanShows ==
  ASSUME IInv, TInv, NEW e \in ended, e.command = "scan", e.stdout.as \in {"text", "markdown", "json"}
  PROVE  /\ e.rules \in Rules /\ e.now \in Int /\ ~e.rules.ignorePerms
         /\ Added(e.summary, found, Len(found), e.now, e.rules)
         /\ MarkedIn(e.marked, found, Len(found), e.now, e.rules)
         /\ e.stdout.as = "json" =>
              /\ e.stdout.findings = [i \in DOMAIN found |-> JSONOf(found[i], e.now)]
              /\ e.stdout.summary = e.summary
         /\ e.stdout.as # "json" =>
              /\ e.stdout.sections = SectionsOf(e.marked)
              /\ \/ e.stdout.summary = e.summary
                 \/ e.stdout.summary = [c \in CountersOf(e.summary) |-> e.summary[c]]
<1>1. Told(e) /\ Coded(e)
  BY DEF TInv, IInv, Done
<1>2. \A what : Plain(what).as = what
  BY DEF Plain
<1>3. e.exit \in {0, 1}
  <2>1. e.exit \in {2, 3} => e.stdout.as = "nothing"
    BY <1>1, <1>2 DEF Coded
  <2>2. e.exit \in 0 .. 3
    BY <1>1 DEF Coded
  <2>3. e.exit \in {0, 1} \/ e.exit \in {2, 3}
    BY <2>2
  <2> QED BY <2>1, <2>3
<1>4. e.swept
  BY <1>1, <1>2, <1>3 DEF Told
<1>5. /\ e.rules \in Rules /\ e.now \in Int /\ e.stdout = Printed(e)
      /\ e.rules = RulesOf("scan", e.flags)
      /\ Added(e.summary, found, Len(found), e.now, e.rules)
      /\ MarkedIn(e.marked, found, Len(found), e.now, e.rules)
  BY <1>1, <1>3, <1>4 DEF Told
<1>6. ~e.rules.ignorePerms
  <2>1. RulesOf("scan", e.flags).ignorePerms = ("scan" = "check" /\ e.flags["ignore-perms"])
    BY DEF RulesOf
  <2>2. RulesOf("scan", e.flags).ignorePerms = FALSE
    BY <2>1
  <2> QED BY <1>5, <2>2
<1>7. /\ e.stdout.as = "json" =>
           /\ e.stdout.findings = [i \in DOMAIN found |-> JSONOf(found[i], e.now)]
           /\ e.stdout.summary = e.summary
      /\ e.stdout.as # "json" =>
           /\ e.stdout.sections = SectionsOf(e.marked)
           /\ \/ e.stdout.summary = e.summary
              \/ e.stdout.summary = [c \in CountersOf(e.summary) |-> e.summary[c]]
  <2>1. CASE e.flags["format"] = "json"
    <3>1. Printed(e) = [as |-> "json", summary |-> e.summary,
                        findings |-> [i \in DOMAIN found |-> JSONOf(found[i], e.now)]]
      BY <2>1 DEF Printed
    <3> QED BY <1>5, <3>1
  <2>2. CASE e.flags["format"] # "json" /\ found = <<>>
    <3>1. Printed(e) = Plain("no material")
      BY <2>2 DEF Printed
    <3> QED BY <1>2, <1>5, <3>1
  <2>3. CASE e.flags["format"] = "markdown" /\ found # <<>>
    <3>1. Printed(e) = [as |-> "markdown", sections |-> SectionsOf(e.marked), summary |-> e.summary]
      BY <2>3 DEF Printed
    <3> QED BY <1>5, <3>1
  <2>4. CASE e.flags["format"] \notin {"json", "markdown"} /\ found # <<>>
    <3>1. Printed(e) = [as |-> "text", sections |-> SectionsOf(e.marked),
                        summary |-> [c \in CountersOf(e.summary) |-> e.summary[c]]]
      BY <2>4 DEF Printed
    <3> QED BY <1>5, <3>1
  <2> QED BY <2>1, <2>2, <2>3, <2>4
<1> QED BY <1>5, <1>6, <1>7

(* A section has a row with its mark for every finding of its kind.          *)
LEMMA SectionsShow ==
  ASSUME found \in Seq(Finding), NEW ms, NEW k \in Kinds
  PROVE  LET rows == SectionsOf(ms)[k]
             those == {i \in DOMAIN found : found[i].kind = k}
         IN  /\ Len(rows) = Cardinality(those)
             /\ {rows[j].at : j \in DOMAIN rows} = those
             /\ \A j \in DOMAIN rows : rows[j].flagged <=> rows[j].at \in ms
<1> DEFINE those == {i \in DOMAIN found : found[i].kind = k}
           n == Cardinality(those)
           rows == SectionsOf(ms)[k]
<1>1. rows = [j \in DOMAIN OfKind(k) |-> [at |-> OfKind(k)[j], flagged |-> OfKind(k)[j] \in ms]]
  BY DEF SectionsOf
<1>2. /\ n \in Nat /\ DOMAIN OfKind(k) = 1 .. n
      /\ \A j \in DOMAIN OfKind(k) : OfKind(k)[j] \in those
      /\ \A i \in those : \E j \in DOMAIN OfKind(k) : OfKind(k)[j] = i
  BY OfKindLists
<1> HIDE DEF those, n, rows
<1>3. DOMAIN rows = 1 .. n /\ \A j \in 1 .. n : rows[j].at = OfKind(k)[j]
                                           /\ (rows[j].flagged <=> OfKind(k)[j] \in ms)
  BY <1>1, <1>2
<1>4. Len(rows) = n
  <2>1. rows = [j \in 1 .. n |-> [at |-> OfKind(k)[j], flagged |-> OfKind(k)[j] \in ms]]
    BY <1>1, <1>2
  <2>2. Len([j \in 1 .. n |-> [at |-> OfKind(k)[j], flagged |-> OfKind(k)[j] \in ms]]) = n
    BY <1>2
  <2> QED BY <2>1, <2>2
<1>5. {rows[j].at : j \in DOMAIN rows} = those
  BY <1>2, <1>3
<1>6. \A j \in DOMAIN rows : rows[j].flagged <=> rows[j].at \in ms
  BY <1>3
<1> QED BY <1>4, <1>5, <1>6 DEF those, n, rows

(* What the text leaves out of the summary is 0. *)
LEMMA LeftOut ==
  ASSUME NEW s, NEW fs, NEW n \in Nat, NEW t, NEW r, Added(s, fs, n, t, r), NEW u,
         u = s \/ u = [c \in CountersOf(s) |-> s[c]]
  PROVE  DOMAIN s = Fields /\ \A c \in Fields : s[c] = IF c \in DOMAIN u THEN u[c] ELSE 0
<1>1. DOMAIN s = Fields
  <2>1. s = [field \in Fields |-> s[field]]
    BY DEF Added
  <2>2. DOMAIN [field \in Fields |-> s[field]] = Fields
    OBVIOUS
  <2> QED BY <2>1, <2>2, Zenon
<1>2. ASSUME NEW c \in Fields
      PROVE  s[c] = Cardinality(CountedIn(c, fs, n, t, r)) /\ s[c] \in Nat
  <2>1. s[c] = Cardinality(CountedIn(c, fs, n, t, r))
    BY DEF Added
  <2>2. Cardinality(CountedIn(c, fs, n, t, r)) \in 0 .. n
    BY CountMore
  <2> QED BY <2>1, <2>2
<1>3. ASSUME NEW c \in Fields, NEW k \in Fields, \A f : Counted(c, f, t, r) => Counted(k, f, t, r),
             s[k] = 0
      PROVE  s[c] = 0
  <2>1. CountedIn(c, fs, n, t, r) \subseteq CountedIn(k, fs, n, t, r)
    BY <1>3 DEF CountedIn
  <2>2. IsFiniteSet(CountedIn(k, fs, n, t, r))
    <3>1. IsFiniteSet(1 .. n) /\ CountedIn(k, fs, n, t, r) \subseteq 1 .. n
      <4>1. 1 \in Int /\ n \in Int
        OBVIOUS
      <4> QED BY <4>1, FS_Interval DEF CountedIn
    <3> QED BY <3>1, FS_Subset
  <2>3. Cardinality(CountedIn(c, fs, n, t, r)) <= Cardinality(CountedIn(k, fs, n, t, r))
    BY <2>1, <2>2, FS_Subset
  <2> QED BY <1>2, <1>3, <2>3
<1>4. {"keys", "plaintext", "encrypted", "loose", "certificates", "expired", "expiring"} \subseteq Fields
  BY DEF Fields, NoSummary
<1>5. /\ \A f : Counted("plaintext", f, t, r) => Counted("keys", f, t, r)
      /\ \A f : Counted("encrypted", f, t, r) => Counted("keys", f, t, r)
      /\ \A f : Counted("loose", f, t, r) => Counted("keys", f, t, r)
      /\ \A f : Counted("expired", f, t, r) => Counted("certificates", f, t, r)
      /\ \A f : Counted("expiring", f, t, r) => Counted("certificates", f, t, r)
  BY DEF Counted, Expired
<1>6. /\ s["keys"] = 0 => s["plaintext"] = 0 /\ s["encrypted"] = 0 /\ s["loose"] = 0
      /\ s["certificates"] = 0 => s["expired"] = 0 /\ s["expiring"] = 0
  BY <1>3, <1>4, <1>5
<1>7. ASSUME NEW c \in Fields, c \notin CountersOf(s) PROVE s[c] = 0
  <2>1. CASE c \in {"plaintext", "encrypted"}
    <3>1. ~(s["keys"] > 0)
      BY <1>1, <1>7, <2>1 DEF CountersOf
    <3> QED BY <1>2, <1>4, <1>6, <2>1, <3>1
  <2>2. CASE c = "loose"
    <3>1. ~(s["keys"] > 0 /\ s[c] > 0)
      BY <1>1, <1>7, <2>2 DEF CountersOf
    <3> QED BY <1>2, <1>4, <1>6, <2>2, <3>1
  <2>3. CASE c \in {"expired", "expiring"}
    <3>1. ~(s["certificates"] > 0 /\ s[c] > 0)
      BY <1>1, <1>7, <2>3 DEF CountersOf
    <3> QED BY <1>2, <1>4, <1>6, <2>3, <3>1
  <2>4. CASE c \notin {"plaintext", "encrypted", "loose", "expired", "expiring"}
    <3>1. ~(s[c] > 0)
      BY <1>1, <1>7, <2>4 DEF CountersOf
    <3> QED BY <1>2, <3>1
  <2> QED BY <2>1, <2>2, <2>3, <2>4
<1>8. CASE u = s
  BY <1>1, <1>8
<1>9. CASE u = [c \in CountersOf(s) |-> s[c]]
  <2>1. DOMAIN u = CountersOf(s) /\ \A c \in CountersOf(s) : u[c] = s[c]
    BY <1>9
  <2>2. ASSUME NEW c \in Fields PROVE s[c] = IF c \in DOMAIN u THEN u[c] ELSE 0
    BY <1>7, <2>1
  <2> QED BY <1>1, <2>2
<1> QED BY <1>1, <1>8, <1>9

LEMMA SameCounts ==
  ASSUME NEW s, NEW u, NEW fs, NEW n, NEW t, NEW r, Added(s, fs, n, t, r), Added(u, fs, n, t, r)
  PROVE  s = u
<1>1. s = [field \in Fields |-> s[field]] /\ u = [field \in Fields |-> u[field]]
  BY DEF Added
<1>2. \A field \in Fields : s[field] = u[field]
  BY DEF Added
<1>3. [field \in Fields |-> s[field]] = [field \in Fields |-> u[field]]
  BY <1>2
<1> QED BY <1>1, <1>3, Zenon

(* A row is marked if and only if the JSON says that its finding is loose,   *)
(* expired or about to expire, unless it is a container.                     *)
LEMMA FlagsAsMarks ==
  ASSUME NEW f \in Finding, NEW t, NEW r, f.kind # "container"
  PROVE  Marks(f, t, r) <=> JSONFlags(JSONOf(f, t), r)
<1> DEFINE g == JSONOf(f, t)
<1>1. /\ g.daysLeft = IF f.kind = "certificate" THEN {DaysLeft(f, t)} ELSE {}
      /\ g.expired = IF f.kind = "certificate" THEN {Expired(f, t)} ELSE {}
      /\ g.loose = IF f.kind \in {"private-key", "container"} THEN {f.loose} ELSE {}
  BY DEF JSONOf
<1>2. f.loose \in BOOLEAN /\ Expired(f, t) \in BOOLEAN
  BY DEF Finding, Expired
<1> HIDE DEF g
<1>3. TRUE \in g.loose <=> f.kind = "private-key" /\ f.loose
  BY <1>1, <1>2
<1>4. TRUE \in g.expired <=> f.kind = "certificate" /\ Expired(f, t)
  BY <1>1, <1>2
<1>5. (\E d \in g.daysLeft : d < r.expiringDays) <=>
         f.kind = "certificate" /\ DaysLeft(f, t) < r.expiringDays
  BY <1>1
<1> QED BY <1>3, <1>4, <1>5 DEF g, Marks, Near, JSONFlags

(* Text, Markdown and JSON tell the same of any findings at a moment: the    *)
(* same counters, a row for every finding in the section of its kind, and    *)
(* but for containers, of which only the JSON tells the permissions, a mark  *)
(* if and only if its fields say loose, expired or about to expire.          *)
THEOREM FormatsTellTheSame == LineSpec => []FormatsAgree
<1>1. IInv /\ TInv => FormatsAgree
  <2> SUFFICES ASSUME IInv, TInv, NEW p \in Reports, NEW q \in Scans("json"),
                      p.now = q.now, p.rules = q.rules
               PROVE  LET inventory == q.stdout.findings
                          counters  == q.stdout.summary
                      IN
                      /\ \A c \in DOMAIN counters :
                           counters[c] = IF c \in DOMAIN p.stdout.summary THEN p.stdout.summary[c] ELSE 0
                      /\ \A kind \in Kinds : LET rows == p.stdout.sections[kind] IN
                           /\ Len(rows) = counters[CounterOf[kind]]
                           /\ {rows[j].at : j \in DOMAIN rows} =
                                {i \in DOMAIN inventory : inventory[i].kind = kind}
                           /\ kind # "container" =>
                                \A j \in DOMAIN rows :
                                  rows[j].flagged <=> JSONFlags(inventory[rows[j].at], q.rules)
    BY DEF FormatsAgree
  <2> DEFINE n == Len(found)
             t == q.now
             r == q.rules
             inventory == q.stdout.findings
             counters == q.stdout.summary
  <2>1. found \in Seq(Finding) /\ n \in Nat /\ DOMAIN found = 1 .. n
        /\ \A i \in 1 .. n : found[i] \in Finding
    BY Findings DEF IInv, Base
  <2>2. /\ Added(counters, found, n, t, r)
        /\ inventory = [i \in DOMAIN found |-> JSONOf(found[i], t)]
    BY ScanShows DEF Scans
  <2>3. /\ Added(p.summary, found, n, t, r) /\ MarkedIn(p.marked, found, n, t, r)
        /\ p.stdout.sections = SectionsOf(p.marked)
        /\ \/ p.stdout.summary = p.summary
           \/ p.stdout.summary = [c \in CountersOf(p.summary) |-> p.summary[c]]
    BY ScanShows DEF Scans, Reports
  <2> HIDE DEF n, t, r, inventory, counters
  <2>4. counters = p.summary
    BY <2>2, <2>3, SameCounts
  <2>5. /\ DOMAIN counters = Fields
        /\ \A c \in Fields : counters[c] = IF c \in DOMAIN p.stdout.summary THEN p.stdout.summary[c] ELSE 0
    <3> DEFINE s == p.summary
               u == p.stdout.summary
    <3>1. Added(s, found, n, t, r) /\ (u = s \/ u = [c \in CountersOf(s) |-> s[c]]) /\ counters = s
      BY <2>3, <2>4
    <3> HIDE DEF s, u
    <3>2. DOMAIN s = Fields /\ \A c \in Fields : s[c] = IF c \in DOMAIN u THEN u[c] ELSE 0
      BY <2>1, <3>1, LeftOut
    <3> QED BY <3>1, <3>2 DEF u
  <2>6. /\ DOMAIN inventory = 1 .. n
        /\ \A i \in 1 .. n : inventory[i] = JSONOf(found[i], t) /\ inventory[i].kind = found[i].kind
    BY <2>1, <2>2 DEF JSONOf
  <2>7. ASSUME NEW kind \in Kinds
        PROVE  /\ Len(p.stdout.sections[kind]) = counters[CounterOf[kind]]
               /\ {p.stdout.sections[kind][j].at : j \in DOMAIN p.stdout.sections[kind]} =
                    {i \in DOMAIN inventory : inventory[i].kind = kind}
               /\ kind # "container" =>
                    \A j \in DOMAIN p.stdout.sections[kind] :
                      p.stdout.sections[kind][j].flagged
                        <=> JSONFlags(inventory[p.stdout.sections[kind][j].at], r)
    <3> DEFINE rows == p.stdout.sections[kind]
               those == {i \in DOMAIN found : found[i].kind = kind}
    <3>1. /\ Len(rows) = Cardinality(those)
          /\ {rows[j].at : j \in DOMAIN rows} = those
          /\ \A j \in DOMAIN rows : rows[j].flagged <=> rows[j].at \in p.marked
      <4> DEFINE ms == p.marked
                 shown == SectionsOf(ms)[kind]
      <4>1. rows = shown
        BY <2>3
      <4> HIDE DEF ms
      <4>2. /\ Len(shown) = Cardinality(those)
            /\ {shown[j].at : j \in DOMAIN shown} = those
            /\ \A j \in DOMAIN shown : shown[j].flagged <=> shown[j].at \in ms
        BY <2>1, SectionsShow
      <4> HIDE DEF rows, shown, those
      <4> QED BY <4>1, <4>2 DEF ms
    <3>2. those = {i \in DOMAIN inventory : inventory[i].kind = kind}
      BY <2>1, <2>6
    <3>3. CounterOf[kind] \in Fields /\ CountedIn(CounterOf[kind], found, n, t, r) = those
      <4>1. CounterOf[kind] \in Fields /\ \A f : Counted(CounterOf[kind], f, t, r) <=> f.kind = kind
        BY DEF CounterOf, Kinds, Fields, NoSummary, Counted
      <4> QED BY <2>1, <4>1 DEF CountedIn
    <3>4. counters[CounterOf[kind]] = Cardinality(those)
      BY <2>2, <3>3 DEF Added
    <3> HIDE DEF rows
    <3>5. ASSUME kind # "container", NEW j \in DOMAIN rows
          PROVE  rows[j].flagged <=> JSONFlags(inventory[rows[j].at], r)
      <4> DEFINE i == rows[j].at
      <4>1. i \in 1 .. n /\ found[i].kind = kind /\ found[i] \in Finding
        BY <2>1, <3>1
      <4> HIDE DEF i
      <4>2. i \in p.marked <=> Marks(found[i], t, r)
        BY <2>3, <4>1 DEF MarkedIn
      <4>3. Marks(found[i], t, r) <=> JSONFlags(JSONOf(found[i], t), r)
        BY <3>5, <4>1, FlagsAsMarks
      <4>4. inventory[i] = JSONOf(found[i], t)
        BY <2>6, <4>1
      <4> QED BY <3>1, <4>2, <4>3, <4>4 DEF i
    <3> HIDE DEF those
    <3>6. /\ Len(rows) = counters[CounterOf[kind]]
          /\ {rows[j].at : j \in DOMAIN rows} = {i \in DOMAIN inventory : inventory[i].kind = kind}
          /\ kind # "container" =>
               \A j \in DOMAIN rows : rows[j].flagged <=> JSONFlags(inventory[rows[j].at], r)
      BY <3>1, <3>2, <3>4, <3>5
    <3> QED BY <3>6 DEF rows
  <2> QED BY <2>5, <2>7 DEF r, inventory, counters
<1> QED BY <1>1, Invariant, Telltale, PTL

-----------------------------------------------------------------------------
(* Where a function leads from x, without counting its steps: s is in every  *)
(* set that holds x and is closed under it.  A state it leads to and stays   *)
(* in is the only one.                                                       *)
Leads(nx, x, s) ==
  \A C \in SUBSET DOMAIN nx : x \in C /\ (\A y \in C : nx[y] \in C) => s \in C

LEMMA LeadsOn ==
  ASSUME NEW nx, NEW x
  PROVE  /\ Leads(nx, x, x)
         /\ \A s \in DOMAIN nx : Leads(nx, x, s) => Leads(nx, x, nx[s])
BY DEF Leads

LEMMA OneEnd ==
  ASSUME NEW S, NEW nx \in [S -> S], NEW x \in S, NEW s \in S, NEW t \in S,
         Leads(nx, x, s), Leads(nx, x, t), nx[s] = s, nx[t] = t
  PROVE  s = t
<1> DEFINE R == {y \in S : Leads(nx, y, s)}
<1>1. x \in R
  OBVIOUS
<1>2. ASSUME NEW y \in R PROVE nx[y] \in R
  <2>1. y \in S /\ nx[y] \in S /\ DOMAIN nx = S
    OBVIOUS
  <2>2. CASE y = s
    BY <1>2, <2>2
  <2>3. CASE y # s
    <3> SUFFICES ASSUME NEW C \in SUBSET S, nx[y] \in C, \A z \in C : nx[z] \in C
                 PROVE  s \in C
      BY <2>1 DEF Leads
    <3>1. C \cup {y} \in SUBSET S /\ \A z \in C \cup {y} : nx[z] \in C \cup {y}
      BY <2>1
    <3>2. s \in C \cup {y}
      BY <1>2, <2>1, <3>1 DEF Leads
    <3> QED BY <2>3, <3>2
  <2> QED BY <2>2, <2>3
<1>3. t \in R
  <2>1. R \in SUBSET DOMAIN nx
    OBVIOUS
  <2> HIDE DEF R
  <2> QED BY <1>1, <1>2, <2>1 DEF Leads
<1>4. s \in {t}
  <2>1. Leads(nx, t, s)
    BY <1>3
  <2>2. {t} \in SUBSET DOMAIN nx /\ \A z \in {t} : nx[z] \in {t}
    OBVIOUS
  <2> QED BY <2>1, <2>2 DEF Leads
<1> QED BY <1>4

-----------------------------------------------------------------------------
(* A line without its command: the words ws, from where the command stands.  *)
WordsOf(l)   == IF l # <<>> /\ l[1] \in Commands THEN SubSeq(l, 2, Len(l)) ELSE l
Lead(l)      == IF l # <<>> /\ l[1] \in Commands THEN 1 ELSE 0
CommandOf(l) == IF l # <<>> /\ l[1] \in Commands THEN l[1] ELSE "scan"

LEMMA WordsAre ==
  ASSUME NEW l \in Seq(DOMAIN FlagName)
  PROVE  /\ WordsOf(l) \in Seq(DOMAIN FlagName) /\ Len(WordsOf(l)) \in Nat
         /\ Len(l) = Len(WordsOf(l)) + Lead(l) /\ Lead(l) \in {0, 1}
         /\ \A i \in 1 .. Len(WordsOf(l)) : /\ WordsOf(l)[i] = l[i + Lead(l)]
                                            /\ WordsOf(l)[i] \in DOMAIN FlagName
         /\ CommandOf(l) \in Commands
<1>1. Len(l) \in Nat /\ \A i \in 1 .. Len(l) : l[i] \in DOMAIN FlagName
  BY LenProperties, ElementOfSeq
<1>2. CASE l # <<>> /\ l[1] \in Commands
  <2>1. Len(l) >= 1
    BY <1>1, <1>2, EmptySeq
  <2>2. /\ SubSeq(l, 2, Len(l)) \in Seq(DOMAIN FlagName)
        /\ Len(SubSeq(l, 2, Len(l))) = Len(l) - 1
        /\ \A i \in 1 .. Len(l) - 1 : SubSeq(l, 2, Len(l))[i] = l[i + 1]
    <3>1. \A i \in 2 .. Len(l) : l[i] \in DOMAIN FlagName
      BY <1>1
    <3>2. /\ SubSeq(l, 2, Len(l)) \in Seq(DOMAIN FlagName)
          /\ Len(SubSeq(l, 2, Len(l))) = IF 2 <= Len(l) THEN Len(l) - 2 + 1 ELSE 0
          /\ \A i \in 1 .. Len(l) - 2 + 1 : SubSeq(l, 2, Len(l))[i] = l[2 + i - 1]
      BY <1>1, <3>1, SubSeqProperties
    <3>3. Len(l) - 2 + 1 = Len(l) - 1 /\ \A i \in Int : 2 + i - 1 = i + 1
      BY <1>1
    <3> QED BY <1>1, <2>1, <3>2, <3>3
  <2>3. WordsOf(l) = SubSeq(l, 2, Len(l)) /\ Lead(l) = 1 /\ CommandOf(l) = l[1]
    BY <1>2 DEF WordsOf, Lead, CommandOf
  <2>4. \A i \in 1 .. Len(l) - 1 : l[i + 1] \in DOMAIN FlagName
    BY <1>1, <2>1
  <2> HIDE DEF WordsOf
  <2> QED BY <1>1, <1>2, <2>1, <2>2, <2>3, <2>4
<1>3. CASE ~(l # <<>> /\ l[1] \in Commands)
  <2>1. WordsOf(l) = l /\ Lead(l) = 0 /\ CommandOf(l) = "scan"
    BY <1>3 DEF WordsOf, Lead, CommandOf
  <2> QED BY <1>1, <2>1 DEF Commands
<1> QED BY <1>2, <1>3

-----------------------------------------------------------------------------
(* The walk of the flag set over ws: it knows the flags G and keeps F.       *)
AllFlags == SharedFlags \cup GateFlags
Common   == SharedFlags \ {"expiring"}

Texts  == DOMAIN FlagName \cup {Inline[a] : a \in DOMAIN FlagName} \cup {"true", "text"}
Values == Texts \cup BOOLEAN \cup Int \cup Seq(Texts)
Kept(F) == {fl \in [F -> Values] : "exclude" \in F => fl["exclude"] \in Seq(Texts)}
Places(F) == [at : Nat, flags : Kept(F)]

FlagAt(ws, i) == FlagName[ws[i]]
Takes(ws, i)  == FlagAt(ws, i) \notin BoolFlags /\ Inline[ws[i]] = Bare
TextAt(ws, i) == IF Takes(ws, i) THEN ws[i + 1]
                 ELSE IF Inline[ws[i]] = Bare THEN "true" ELSE Inline[ws[i]]
Moves(ws, i, G) ==
  /\ i \in 1 .. Len(ws) /\ FlagAt(ws, i) \notin {Word, Terminator} /\ FlagAt(ws, i) \in G
  /\ Takes(ws, i) => i < Len(ws)
  /\ FlagAt(ws, i) \in BoolFlags => TextAt(ws, i) \in DOMAIN Truth
  /\ FlagAt(ws, i) \in IntFlags => TextAt(ws, i) \in DOMAIN Number
Put(fl, f, text) ==
  [fl EXCEPT ![f] = IF f = "exclude" THEN Append(@, text)
                    ELSE IF f \in BoolFlags THEN Truth[text]
                    ELSE IF f \in IntFlags THEN Number[text] ELSE text]
Beyond(ws, i) == IF Takes(ws, i) THEN i + 2 ELSE i + 1
Moved(ws, s) ==
  [at |-> Beyond(ws, s.at), flags |-> Put(s.flags, FlagAt(ws, s.at), TextAt(ws, s.at))]
Walk(ws, G, F) == [s \in Places(F) |-> IF Moves(ws, s.at, G) THEN Moved(ws, s) ELSE s]
Begin(c, F) == [at |-> 1, flags |-> [f \in F |-> Defaults(c)[f]]]

LEMMA TextRead ==
  ASSUME NEW ws \in Seq(DOMAIN FlagName), NEW i, NEW G, Moves(ws, i, G)
  PROVE  /\ i \in 1 .. Len(ws) /\ Len(ws) \in Nat /\ Beyond(ws, i) \in 1 .. Len(ws) + 1
         /\ TextAt(ws, i) \in Texts
<1>1. Len(ws) \in Nat /\ \A k \in 1 .. Len(ws) : ws[k] \in DOMAIN FlagName
  BY LenProperties, ElementOfSeq
<1>2. i \in 1 .. Len(ws) /\ (Takes(ws, i) => i < Len(ws))
  BY DEF Moves
<1>3. Beyond(ws, i) \in 1 .. Len(ws) + 1
  BY <1>1, <1>2 DEF Beyond
<1>4. CASE Takes(ws, i)
  <2>1. i + 1 \in 1 .. Len(ws)
    BY <1>1, <1>2, <1>4
  <2>2. TextAt(ws, i) = ws[i + 1]
    BY <1>4 DEF TextAt
  <2> QED BY <1>1, <1>2, <1>3, <2>1, <2>2 DEF Texts
<1>5. CASE ~Takes(ws, i)
  <2>1. TextAt(ws, i) \in {"true", Inline[ws[i]]}
    BY <1>5 DEF TextAt
  <2> QED BY <1>1, <1>2, <1>3, <2>1 DEF Texts
<1> QED BY <1>4, <1>5

LEMMA PutKeeps ==
  ASSUME NEW F, NEW fl \in Kept(F), NEW f, NEW text \in Texts,
         f \in BoolFlags => text \in DOMAIN Truth, f \in IntFlags => text \in DOMAIN Number
  PROVE  Put(fl, f, text) \in Kept(F)
<1>1. fl \in [F -> Values] /\ ("exclude" \in F => fl["exclude"] \in Seq(Texts))
  BY DEF Kept
<1>2. CASE f \notin F
  <2>1. Put(fl, f, text) = fl
    BY <1>1, <1>2 DEF Put
  <2> QED BY <2>1
<1>3. CASE f \in F /\ f = "exclude"
  <2>1. Put(fl, f, text) = [fl EXCEPT !["exclude"] = Append(fl["exclude"], text)]
    BY <1>3 DEF Put
  <2>2. Append(fl["exclude"], text) \in Seq(Texts)
    BY <1>1, <1>3, AppendProperties
  <2>3. Append(fl["exclude"], text) \in Values
    BY <2>2 DEF Values
  <2> HIDE DEF Values, Texts
  <2> QED BY <1>1, <1>3, <2>1, <2>2, <2>3 DEF Kept
<1>4. CASE f \in F /\ f # "exclude"
  <2> DEFINE v == IF f \in BoolFlags THEN Truth[text] ELSE IF f \in IntFlags THEN Number[text] ELSE text
  <2>1. Put(fl, f, text) = [fl EXCEPT ![f] = v]
    BY <1>4 DEF Put
  <2>2. v \in Values
    BY LineAssumption DEF Values
  <2> HIDE DEF v
  <2> QED BY <1>1, <1>4, <2>1, <2>2 DEF Kept
<1> QED BY <1>2, <1>3, <1>4

LEMMA WalkStays ==
  ASSUME NEW ws \in Seq(DOMAIN FlagName), NEW G, NEW F
  PROVE  Walk(ws, G, F) \in [Places(F) -> Places(F)]
<1> SUFFICES ASSUME NEW s \in Places(F), Moves(ws, s.at, G) PROVE Moved(ws, s) \in Places(F)
  BY DEF Walk
<1>1. s.at \in Nat /\ s.flags \in Kept(F)
  BY DEF Places
<1>2. Beyond(ws, s.at) \in Nat
  BY TextRead
<1>3. Put(s.flags, FlagAt(ws, s.at), TextAt(ws, s.at)) \in Kept(F)
  BY <1>1, TextRead, PutKeeps DEF Moves
<1> QED BY <1>2, <1>3 DEF Moved, Places

(* How far the flag set is in the words of a line: the walk with the flags   *)
(* of its command, and the walk with every flag that keeps the common ones,  *)
(* lead to the same place.                                                   *)
Shared(fl) == [f \in Common |-> fl[f]]
Led(ws, c, i, fl) ==
  /\ i \in 1 .. Len(ws) + 1 /\ fl \in Kept(Registered(c))
  /\ Leads(Walk(ws, Registered(c), Registered(c)), Begin(c, Registered(c)),
           [at |-> i, flags |-> fl])
  /\ Leads(Walk(ws, AllFlags, Common), Begin(c, Common), [at |-> i, flags |-> Shared(fl)])

LEMMA FlagNames ==
  \A c \in Commands : /\ Common \subseteq Registered(c) /\ Registered(c) \subseteq AllFlags
                      /\ "exclude" \in Common /\ "exclude" \in Registered(c)
                      /\ "format" \in Registered(c)
BY DEF Common, Registered, AllFlags, SharedFlags

LEMMA DefaultsKept ==
  ASSUME NEW c \in Commands
  PROVE  /\ Defaults(c) \in Kept(Registered(c)) /\ Begin(c, Registered(c)).flags = Defaults(c)
         /\ Begin(c, Registered(c)) \in Places(Registered(c)) /\ Begin(c, Common) \in Places(Common)
         /\ Begin(c, Common) = [at |-> 1, flags |-> Shared(Defaults(c))]
<1>1. Defaults(c) = [f \in Registered(c) |-> Defaults(c)[f]]
  BY DEF Defaults
<1>2. ASSUME NEW f \in Registered(c) PROVE Defaults(c)[f] \in Values
  <2>1. CASE f = "format"
    BY <2>1 DEF Defaults, Values, Texts, BoolFlags
  <2>2. CASE f = "exclude"
    <3>1. Defaults(c)[f] = <<>>
      BY <2>2 DEF Defaults, BoolFlags
    <3>2. <<>> \in Seq(Texts)
      OBVIOUS
    <3> QED BY <3>1, <3>2 DEF Values
  <2>3. CASE f \notin {"format", "exclude"}
    <3>1. CASE f \in IntFlags
      <4>1. Defaults(c)[f] \in Int
        BY <3>1, DefaultsHold DEF FlagType
      <4> QED BY <4>1 DEF Values
    <3>2. CASE f \in BoolFlags
      <4>1. Defaults(c)[f] \in BOOLEAN
        BY <3>2, DefaultsHold DEF FlagType
      <4> QED BY <4>1 DEF Values
    <3>3. f \in IntFlags \cup BoolFlags
      BY <2>3 DEF Registered, SharedFlags, GateFlags, IntFlags, BoolFlags, Commands
    <3> QED BY <3>1, <3>2, <3>3
  <2> QED BY <2>1, <2>2, <2>3
<1>3. Defaults(c)["exclude"] = <<>>
  BY FlagNames DEF Defaults, BoolFlags
<1>4. <<>> \in Seq(Texts)
  OBVIOUS
<1> HIDE DEF Defaults
<1>5. Defaults(c) \in [Registered(c) -> Values]
  BY <1>1, <1>2
<1>6. Defaults(c) \in Kept(Registered(c))
  BY <1>3, <1>4, <1>5 DEF Kept
<1>7. Shared(Defaults(c)) \in Kept(Common)
  <2>1. Shared(Defaults(c)) \in [Common -> Values]
    BY <1>2, FlagNames DEF Shared
  <2>2. Shared(Defaults(c))["exclude"] = <<>>
    BY <1>3, FlagNames DEF Shared
  <2> QED BY <1>4, <2>1, <2>2 DEF Kept
<1>8. Begin(c, Registered(c)) = [at |-> 1, flags |-> Defaults(c)]
  BY <1>1 DEF Begin
<1>9. Begin(c, Common) = [at |-> 1, flags |-> Shared(Defaults(c))]
  BY DEF Begin, Shared
<1> QED BY <1>6, <1>7, <1>8, <1>9 DEF Places

LEMMA LedFirst ==
  ASSUME NEW ws \in Seq(DOMAIN FlagName), NEW c \in Commands
  PROVE  Led(ws, c, 1, Defaults(c))
<1>1. Len(ws) \in Nat
  BY LenProperties
<1>2. Begin(c, Registered(c)) = [at |-> 1, flags |-> Defaults(c)]
  <2>1. Begin(c, Registered(c)) = [at |-> 1, flags |-> Begin(c, Registered(c)).flags]
    BY DEF Begin
  <2> QED BY <2>1, DefaultsKept
<1>3. Begin(c, Common) = [at |-> 1, flags |-> Shared(Defaults(c))]
  BY DefaultsKept
<1> HIDE DEF Begin
<1>4. Defaults(c) \in Kept(Registered(c))
  BY DefaultsKept
<1> QED BY <1>1, <1>2, <1>3, <1>4, LeadsOn DEF Led

LEMMA SharedPut ==
  ASSUME NEW c \in Commands, NEW fl \in Kept(Registered(c)), NEW f, NEW text
  PROVE  /\ Shared(fl) \in Kept(Common) /\ Shared(Put(fl, f, text)) = Put(Shared(fl), f, text)
<1>1. /\ fl \in [Registered(c) -> Values] /\ fl["exclude"] \in Seq(Texts)
      /\ Common \subseteq Registered(c) /\ "exclude" \in Common
  BY FlagNames DEF Kept
<1>2. Shared(fl) \in Kept(Common)
  BY <1>1 DEF Shared, Kept
<1> DEFINE V(x) == IF f = "exclude" THEN Append(x, text)
                   ELSE IF f \in BoolFlags THEN Truth[text]
                   ELSE IF f \in IntFlags THEN Number[text] ELSE text
<1>3. Put(fl, f, text) = [fl EXCEPT ![f] = V(fl[f])]
  BY DEF Put
<1>4. Put(Shared(fl), f, text) = [Shared(fl) EXCEPT ![f] = V(Shared(fl)[f])]
  BY DEF Put
<1> HIDE DEF V
<1>5. ASSUME NEW g \in Common PROVE Put(fl, f, text)[g] = Put(Shared(fl), f, text)[g]
  <2>1. Shared(fl)[g] = fl[g] /\ g \in DOMAIN fl /\ g \in DOMAIN Shared(fl)
    BY <1>1 DEF Shared
  <2> QED BY <1>3, <1>4, <2>1
<1>6. Put(Shared(fl), f, text) = [g \in Common |-> Put(Shared(fl), f, text)[g]]
  BY <1>4 DEF Shared
<1>7. Shared(Put(fl, f, text)) = [g \in Common |-> Put(fl, f, text)[g]]
  BY DEF Shared
<1> HIDE DEF Shared, Put
<1> QED BY <1>2, <1>5, <1>6, <1>7

LEMMA LedOn ==
  ASSUME NEW ws \in Seq(DOMAIN FlagName), NEW c \in Commands, NEW i, NEW fl,
         Led(ws, c, i, fl), Moves(ws, i, Registered(c))
  PROVE  Led(ws, c, Beyond(ws, i), Put(fl, FlagAt(ws, i), TextAt(ws, i)))
<1> DEFINE R == Registered(c)
           f == FlagAt(ws, i)
           text == TextAt(ws, i)
           s == [at |-> i, flags |-> fl]
           t == [at |-> i, flags |-> Shared(fl)]
<1>1. i \in 1 .. Len(ws) /\ i \in Nat /\ Beyond(ws, i) \in 1 .. Len(ws) + 1 /\ text \in Texts
  BY TextRead
<1>2. fl \in Kept(R) /\ Shared(fl) \in Kept(Common) /\ R \subseteq AllFlags
  BY SharedPut, FlagNames DEF Led
<1>3. s \in Places(R) /\ t \in Places(Common)
  BY <1>1, <1>2 DEF Places
<1>4. Moves(ws, i, AllFlags)
  BY <1>2 DEF Moves
<1>5. Walk(ws, R, R)[s] = [at |-> Beyond(ws, i), flags |-> Put(fl, f, text)]
  BY <1>3 DEF Walk, Moved
<1>6. Walk(ws, AllFlags, Common)[t] = [at |-> Beyond(ws, i), flags |-> Shared(Put(fl, f, text))]
  <2>1. Walk(ws, AllFlags, Common)[t] = [at |-> Beyond(ws, i), flags |-> Put(Shared(fl), f, text)]
    BY <1>3, <1>4 DEF Walk, Moved
  <2> HIDE DEF f, text
  <2> QED BY <1>2, <2>1, SharedPut
<1>7. DOMAIN Walk(ws, R, R) = Places(R) /\ DOMAIN Walk(ws, AllFlags, Common) = Places(Common)
  BY DEF Walk
<1>8. Put(fl, f, text) \in Kept(R)
  BY <1>1, <1>2, PutKeeps DEF Moves
<1>9. /\ Leads(Walk(ws, R, R), Begin(c, R), Walk(ws, R, R)[s])
      /\ Leads(Walk(ws, AllFlags, Common), Begin(c, Common), Walk(ws, AllFlags, Common)[t])
  <2>1. Leads(Walk(ws, R, R), Begin(c, R), s) /\ Leads(Walk(ws, AllFlags, Common), Begin(c, Common), t)
    BY DEF Led
  <2> HIDE DEF s, t
  <2> QED BY <1>3, <1>7, <2>1, LeadsOn
<1> HIDE DEF f, text, s, t
<1> QED BY <1>1, <1>5, <1>6, <1>8, <1>9 DEF Led, R, f, text

-----------------------------------------------------------------------------
(* Where the flags end, and what is behind them.                            *)
StopsAt(ws, i) == i <= Len(ws) => FlagAt(ws, i) \in {Word, Terminator}
RestAt(ws, i) ==
  IF i <= Len(ws) /\ FlagAt(ws, i) = Terminator THEN SubSeq(ws, i + 1, Len(ws))
  ELSE SubSeq(ws, i, Len(ws))
PathAt(ws, i) == IF RestAt(ws, i) = <<>> THEN "." ELSE RestAt(ws, i)[1]
Accepts(ws, c, i, fl) ==
  StopsAt(ws, i) /\ Len(RestAt(ws, i)) <= 1 /\ fl["format"] \in Formats(c)

(* An argument of the line is a word of it, from the end or from the start.  *)
LEMMA Behind ==
  ASSUME NEW l \in Seq(DOMAIN FlagName), NEW a \in Nat, a >= 1
  PROVE  SubSeq(l, a + Lead(l), Len(l)) = SubSeq(WordsOf(l), a, Len(WordsOf(l)))
<1> DEFINE ws == WordsOf(l)
           n == Len(ws)
           b == a + Lead(l)
           m == Len(l)
<1>1. /\ n \in Nat /\ m = n + Lead(l) /\ Lead(l) \in {0, 1}
      /\ \A i \in 1 .. n : ws[i] = l[i + Lead(l)] /\ ws[i] \in DOMAIN FlagName
  BY WordsAre
<1>2. b \in Int /\ m \in Int /\ n \in Int /\ m - b + 1 = n - a + 1
  BY <1>1
<1>3. ASSUME NEW i \in b .. m PROVE l[i] \in DOMAIN FlagName
  BY <1>1, LenProperties, ElementOfSeq
<1>4. ASSUME NEW i \in a .. n PROVE ws[i] \in DOMAIN FlagName
  BY <1>1
<1> HIDE DEF ws, n, b, m
<1>5. /\ SubSeq(l, b, m) \in Seq(DOMAIN FlagName)
      /\ Len(SubSeq(l, b, m)) = IF b <= m THEN m - b + 1 ELSE 0
      /\ \A i \in 1 .. m - b + 1 : SubSeq(l, b, m)[i] = l[b + i - 1]
  BY <1>2, <1>3, SubSeqProperties
<1>6. /\ SubSeq(ws, a, n) \in Seq(DOMAIN FlagName)
      /\ Len(SubSeq(ws, a, n)) = IF a <= n THEN n - a + 1 ELSE 0
      /\ \A i \in 1 .. n - a + 1 : SubSeq(ws, a, n)[i] = ws[a + i - 1]
  BY <1>2, <1>4, SubSeqProperties
<1>7. Len(SubSeq(l, b, m)) = Len(SubSeq(ws, a, n))
  <2>1. b <= m <=> a <= n
    BY <1>2
  <2> QED BY <1>2, <1>5, <1>6, <2>1
<1>8. ASSUME NEW i \in 1 .. Len(SubSeq(l, b, m))
      PROVE  SubSeq(l, b, m)[i] = SubSeq(ws, a, n)[i]
  <2>1. i \in 1 .. n - a + 1 /\ i \in 1 .. m - b + 1 /\ i \in Nat
    <3>1. i \in 1 .. (IF b <= m THEN m - b + 1 ELSE 0)
      BY <1>5, <1>8
    <3> QED BY <1>2, <3>1
  <2>2. a + i - 1 \in 1 .. n
    BY <1>2, <2>1
  <2>3. b + i - 1 = (a + i - 1) + Lead(l)
    <3>1. Lead(l) \in Int
      BY <1>1
    <3> QED BY <2>1, <3>1 DEF b
  <2>4. ws[a + i - 1] = l[(a + i - 1) + Lead(l)]
    BY <1>1, <2>2
  <2> QED BY <1>5, <1>6, <2>1, <2>3, <2>4
<1>9. SubSeq(l, b, m) = SubSeq(ws, a, n)
  BY <1>5, <1>6, <1>7, <1>8, SeqEqual
<1> QED BY <1>9 DEF ws, n, b, m

(* The flag set of the model at an argument is the walk at a word.          *)
LEMMA Here ==
  ASSUME args \in Seq(DOMAIN FlagName), NEW i \in 1 .. Len(WordsOf(args)) + 1,
         at = i + Lead(args)
  PROVE  LET ws == WordsOf(args) IN
         /\ FlagsEnd <=> pc = "parse" /\ StopsAt(ws, i)
         /\ Rest = RestAt(ws, i)
         /\ \A f : Parsing(f) => /\ i \in 1 .. Len(ws) /\ f = FlagAt(ws, i)
                                 /\ f \notin {Word, Terminator}
                                 /\ Understood(f) <=> Moves(ws, i, Registered(command))
                                 /\ Understood(f) => /\ Text(f) = TextAt(ws, i)
                                                     /\ After(f) = Beyond(ws, i) + Lead(args)
<1> DEFINE ws == WordsOf(args)
           n == Len(ws)
           d == Lead(args)
<1>1. /\ n \in Nat /\ Len(args) = n + d /\ d \in {0, 1} /\ i \in Nat /\ i >= 1 /\ i <= n + 1
      /\ \A k \in 1 .. n : ws[k] = args[k + d]
  BY WordsAre
<1>2. at <= Len(args) <=> i <= n
  BY <1>1
<1>3. i <= n => args[at] = ws[i] /\ FlagName[args[at]] = FlagAt(ws, i) /\ i \in 1 .. n
  BY <1>1 DEF FlagAt
<1>4. SubSeq(args, at, Len(args)) = SubSeq(ws, i, n)
  BY <1>1, Behind
<1>5. SubSeq(args, at + 1, Len(args)) = SubSeq(ws, i + 1, n)
  <2>1. at + 1 = (i + 1) + d /\ i + 1 \in Nat /\ i + 1 >= 1
    BY <1>1
  <2>2. SubSeq(args, (i + 1) + d, Len(args)) = SubSeq(ws, i + 1, n)
    BY <2>1, Behind
  <2> QED BY <2>1, <2>2
<1> HIDE DEF ws, n, d
<1>6. FlagsEnd <=> pc = "parse" /\ StopsAt(ws, i)
  BY <1>2, <1>3 DEF FlagsEnd, StopsAt, n
<1>7. Rest = RestAt(ws, i)
  BY <1>2, <1>3, <1>4, <1>5 DEF Rest, RestAt, n
<1>8. ASSUME NEW f, Parsing(f)
      PROVE  /\ i \in 1 .. n /\ f = FlagAt(ws, i)
             /\ f \notin {Word, Terminator}
             /\ Understood(f) <=> Moves(ws, i, Registered(command))
             /\ Understood(f) => /\ Text(f) = TextAt(ws, i)
                                 /\ After(f) = Beyond(ws, i) + d
  <2>1. i \in 1 .. n /\ f = FlagAt(ws, i) /\ f \notin {Word, Terminator} /\ args[at] = ws[i]
    BY <1>2, <1>3, <1>8 DEF Parsing
  <2>2. TakesNext(f) <=> Takes(ws, i)
    BY <2>1 DEF TakesNext, Takes
  <2>3. at < Len(args) <=> i < n
    BY <1>1 DEF d
  <2>4. i < n => args[at + 1] = ws[i + 1]
    <3> SUFFICES ASSUME i < n PROVE args[at + 1] = ws[i + 1]
      OBVIOUS
    <3>1. i + 1 \in 1 .. n /\ (i + 1) + d = at + 1
      BY <1>1 DEF d
    <3> QED BY <1>1, <3>1
  <2>5. (TakesNext(f) => at < Len(args)) => Text(f) = TextAt(ws, i)
    BY <2>1, <2>2, <2>3, <2>4 DEF Text, TextAt
  <2>6. After(f) = Beyond(ws, i) + d
    <3>1. After(f) = IF Takes(ws, i) THEN at + 2 ELSE at + 1
      BY <2>2 DEF After
    <3> QED BY <1>1, <3>1 DEF Beyond, d
  <2>7. Understood(f) <=> Moves(ws, i, Registered(command))
    BY <2>1, <2>2, <2>3, <2>5 DEF Understood, Moves, n
  <2> QED BY <2>1, <2>5, <2>6, <2>7 DEF Understood
<1> QED BY <1>6, <1>7, <1>8 DEF ws, n, d

-----------------------------------------------------------------------------
(* What the loop of check makes of the findings fs, one after the other.    *)
EvaluateOf(f, t, r) ==
  CASE f.kind = "private-key" ->
         If(~r.allowPlaintext /\ f.protection = "plaintext", "plaintext-key")
         \o If(~r.ignorePerms /\ f.loose, "loose-permissions")
         \o If(r.minRSABits > 0 /\ f.algorithm = "rsa" /\ f.bits > 0
                 /\ f.bits < r.minRSABits, "weak-rsa")
    [] f.kind = "certificate" ->
         IF Expired(f, t) THEN <<"expired">> ELSE If(Near(f, t, r), "expiring")
    [] OTHER -> <<>>
BreachesOf(f, i, t, r) ==
  [j \in DOMAIN EvaluateOf(f, t, r) |-> [rule |-> EvaluateOf(f, t, r)[j], at |-> i]]
Tallies == [at : Nat, bs : Seq(Breach)]
Tally(fs, t, r) ==
  [s \in Tallies |->
     IF s.at \in 1 .. Len(fs)
       THEN [at |-> s.at + 1, bs |-> s.bs \o BreachesOf(fs[s.at], s.at, t, r)] ELSE s]
NoTally == [at |-> 1, bs |-> <<>>]

LEMMA EvaluateIs ==
  ASSUME NEW f PROVE EvaluateOf(f, now, rules) = Evaluate(f)
BY DEF EvaluateOf, Evaluate, Near, Expiring

(* A running line is where its words lead; an ended one is where they end.   *)
OnTheWay ==
  pc \in {"parse", "sweep", "loop"} =>
    /\ command = CommandOf(args)
    /\ \E i \in 1 .. Len(WordsOf(args)) + 1 :
         /\ at = i + Lead(args) /\ Led(WordsOf(args), command, i, flags)
         /\ pc \in {"sweep", "loop"} => /\ Accepts(WordsOf(args), command, i, flags)
                                        /\ path = PathAt(WordsOf(args), i)
Tallying ==
  pc = "loop" /\ command = "check" =>
    Leads(Tally(found, now, rules), NoTally, [at |-> cursor, bs |-> breaches])

Followed(e) ==
  ~Announced(e) =>
    /\ e.line \in Seq(DOMAIN FlagName) /\ e.command = CommandOf(e.line) /\ e.swept \in BOOLEAN
    /\ e.exit \in {0, 1} /\ ~e.swept => e.stdout = Plain("usage")
    /\ \E i \in 1 .. Len(WordsOf(e.line)) + 1 :
         /\ Led(WordsOf(e.line), e.command, i, e.flags)
         /\ ~Moves(WordsOf(e.line), i, Registered(e.command))
         /\ e.swept <=> Accepts(WordsOf(e.line), e.command, i, e.flags)
         /\ e.swept => e.path = PathAt(WordsOf(e.line), i)
Tallied(e, fs) ==
  e.swept /\ e.exit \in {0, 1} /\ e.command = "check" =>
    /\ Leads(Tally(fs, e.now, e.rules), NoTally, [at |-> Len(fs) + 1, bs |-> e.breaches])
    /\ e.breaches \in Seq(Breach)

WInv == OnTheWay /\ Tallying /\ \A e \in ended : Followed(e) /\ Tallied(e, found)

LEMMA StoppedStill ==
  ASSUME NEW ws, NEW i, StopsAt(ws, i), NEW G PROVE ~Moves(ws, i, G)
BY DEF StopsAt, Moves

LEMMA Following ==
  ASSUME WInv, NEW code, NEW output, Ends(code, output), found' = found,
         Followed(Record(code, output)), Tallied(Record(code, output), found)
  PROVE  WInv'
<1>1. ended' = ended \cup {Record(code, output)} /\ pc' = "idle"
  BY DEF Ends, Record
<1> QED BY <1>1 DEF WInv, OnTheWay, Tallying

(* A command that ends while its flags are parsed, or before. *)
LEMMA EndsParsing ==
  ASSUME IInv, WInv, pc = "parse", NEW code, NEW output, Ends(code, output), found' = found,
         code \in {0, 1} => output = Plain("usage"),
         NEW i \in 1 .. Len(WordsOf(args)) + 1, Led(WordsOf(args), command, i, flags),
         ~Moves(WordsOf(args), i, Registered(command)),
         ~Accepts(WordsOf(args), command, i, flags)
  PROVE  WInv'
<1> DEFINE r == Record(code, output)
<1>1. /\ r.line = args /\ r.command = command /\ r.flags = flags /\ r.swept = FALSE
      /\ r.exit = code /\ r.stdout = output
  <2>1. (pc \in {"sweep", "loop"}) = FALSE
    OBVIOUS
  <2> QED BY <2>1 DEF Record
<1>2. args \in Seq(DOMAIN FlagName) /\ command = CommandOf(args)
  BY DEF IInv, Base, WInv, OnTheWay
<1> HIDE DEF r
<1>3. Followed(r) /\ Tallied(r, found)
  BY <1>1, <1>2 DEF Followed, Tallied
<1> QED BY <1>3, Following DEF r

LEMMA EndsSwept ==
  ASSUME IInv, WInv, pc \in {"sweep", "loop"}, NEW code, NEW output, Ends(code, output),
         found' = found, Tallied(Record(code, output), found)
  PROVE  WInv'
<1> DEFINE r == Record(code, output)
<1>1. /\ r.line = args /\ r.command = command /\ r.flags = flags /\ r.swept = TRUE
      /\ r.exit = code /\ r.stdout = output /\ r.path = path
  BY DEF Record
<1>2. args \in Seq(DOMAIN FlagName) /\ command = CommandOf(args)
  BY DEF IInv, Base, WInv, OnTheWay
<1>3. PICK i \in 1 .. Len(WordsOf(args)) + 1 :
        /\ Led(WordsOf(args), command, i, flags)
        /\ Accepts(WordsOf(args), command, i, flags) /\ path = PathAt(WordsOf(args), i)
  BY DEF WInv, OnTheWay
<1>4. ~Moves(WordsOf(args), i, Registered(command))
  BY <1>3, StoppedStill DEF Accepts
<1> HIDE DEF r
<1>5. Followed(r)
  BY <1>1, <1>2, <1>3, <1>4 DEF Followed
<1> QED BY <1>5, Following DEF r

LEMMA WayStarts == IInv /\ WInv /\ (Invoke \/ Dispatch) => WInv'
<1> SUFFICES ASSUME IInv, WInv PROVE Invoke \/ Dispatch => WInv'
  OBVIOUS
<1>1. CASE Invoke
  BY <1>1 DEF Invoke, WInv, OnTheWay, Tallying
<1>2. CASE Dispatch
  <2>1. args \in Seq(DOMAIN FlagName)
    BY DEF IInv, Base
  <2>2. /\ command' = CommandOf(args) /\ at' = 1 + Lead(args) /\ flags' = Defaults(command')
    BY <1>2 DEF Dispatch, First, FlagsFrom, CommandOf, Lead
  <2>3. WordsOf(args) \in Seq(DOMAIN FlagName) /\ Len(WordsOf(args)) \in Nat /\ command' \in Commands
    BY <2>1, <2>2, WordsAre
  <2>4. Led(WordsOf(args), command', 1, flags') /\ 1 \in 1 .. Len(WordsOf(args)) + 1
    BY <2>2, <2>3, LedFirst
  <2>5. OnTheWay'
    BY <1>2, <2>2, <2>4 DEF Dispatch, OnTheWay
  <2> QED BY <1>2, <2>5 DEF Dispatch, WInv, Tallying
<1> QED BY <1>1, <1>2

LEMMA WayEnds ==
  ASSUME IInv, WInv, NEW f, Announce \/ FlagError(f) \/ Refuse \/ SweepError
  PROVE  WInv'
<1> DEFINE ws == WordsOf(args)
<1>1. args \in Seq(DOMAIN FlagName)
  BY DEF IInv, Base
<1>2. ASSUME pc = "parse"
      PROVE  \E i \in 1 .. Len(ws) + 1 : at = i + Lead(args) /\ Led(ws, command, i, flags)
  BY <1>2 DEF WInv, OnTheWay
<1>3. CASE Announce
  <2>1. PICK output : Ends(0, output)
    BY <1>3 DEF Announce
  <2> DEFINE r == Record(0, output)
  <2>2. r.line = args /\ r.swept = FALSE
    <3>1. (pc \in {"sweep", "loop"}) = FALSE
      BY <1>3 DEF Announce
    <3> QED BY <3>1 DEF Record
  <2>3. args # <<>> /\ args[1] \in Help \cup Version
    <3>1. "scan" \notin Help \cup Version
      BY DEF Help, Version
    <3> QED BY <1>3, <3>1 DEF Announce, First
  <2> HIDE DEF r
  <2>4. Followed(r) /\ Tallied(r, found)
    BY <2>2, <2>3 DEF Followed, Tallied, Announced
  <2> QED BY <1>3, <2>1, <2>4, Following DEF Announce, r
<1>4. CASE FlagError(f)
  <2>1. pc = "parse" /\ Parsing(f) /\ ~Understood(f) /\ found' = found
    BY <1>4 DEF FlagError, Parsing, gate
  <2>2. PICK i \in 1 .. Len(ws) + 1 : at = i + Lead(args) /\ Led(ws, command, i, flags)
    BY <1>2, <2>1
  <2>3. /\ i \in 1 .. Len(ws) /\ FlagAt(ws, i) \notin {Word, Terminator}
        /\ ~Moves(ws, i, Registered(command))
    BY <1>1, <2>1, <2>2, Here
  <2>4. ~Accepts(ws, command, i, flags)
    BY <2>3, WordsAre DEF Accepts, StopsAt
  <2>5. PICK code \in {0, 2}, what \in {"usage", "nothing"} :
          Ends(code, Plain(what)) /\ (code = 0 => what = "usage")
    BY <1>4 DEF FlagError
  <2>6. code \in {0, 1} => Plain(what) = Plain("usage")
    BY <2>5
  <2> QED BY <2>1, <2>2, <2>3, <2>4, <2>5, <2>6, EndsParsing
<1>5. CASE Refuse
  <2>1. pc = "parse" /\ FlagsEnd /\ ~Acceptable /\ found' = found /\ Ends(2, Plain("nothing"))
    BY <1>5 DEF Refuse, FlagsEnd, gate
  <2>2. PICK i \in 1 .. Len(ws) + 1 : at = i + Lead(args) /\ Led(ws, command, i, flags)
    BY <1>2, <2>1
  <2>3. StopsAt(ws, i) /\ Rest = RestAt(ws, i)
    BY <1>1, <2>1, <2>2, Here
  <2>4. ~Accepts(ws, command, i, flags)
    BY <2>1, <2>3 DEF Accepts, Acceptable
  <2>5. ~Moves(ws, i, Registered(command))
    BY <2>3, StoppedStill
  <2>6. 2 \notin {0, 1}
    OBVIOUS
  <2> QED BY <2>1, <2>2, <2>4, <2>5, <2>6, EndsParsing
<1>6. CASE SweepError
  <2>1. pc = "sweep" /\ Ends(3, Plain("nothing")) /\ found' = found
    BY <1>6 DEF SweepError, gate
  <2>2. Tallied(Record(3, Plain("nothing")), found)
    <3>1. Record(3, Plain("nothing")).exit = 3
      BY DEF Record
    <3> QED BY <3>1 DEF Tallied
  <2> QED BY <2>1, <2>2, EndsSwept
<1> QED BY <1>3, <1>4, <1>5, <1>6

LEMMA WayOn == ASSUME IInv, WInv, NEW f, ParseFlag(f) PROVE WInv'
<1> DEFINE ws == WordsOf(args)
<1>1. /\ args \in Seq(DOMAIN FlagName) /\ pc = "parse" /\ pc' = "parse" /\ Parsing(f) /\ Understood(f)
      /\ flags' = Set(f, Text(f)) /\ at' = After(f) /\ command \in Commands
      /\ UNCHANGED <<found, args, command, now, rules, cursor, breaches, path, ended>>
  BY DEF IInv, Base, Parsed, ParseFlag, Parsing, gate
<1>2. PICK i \in 1 .. Len(ws) + 1 : at = i + Lead(args) /\ Led(ws, command, i, flags)
  BY <1>1 DEF WInv, OnTheWay
<1>3. /\ f = FlagAt(ws, i) /\ Moves(ws, i, Registered(command))
      /\ Text(f) = TextAt(ws, i) /\ After(f) = Beyond(ws, i) + Lead(args)
  BY <1>1, <1>2, Here
<1>4. flags' = Put(flags, FlagAt(ws, i), TextAt(ws, i))
  BY <1>1, <1>3 DEF Set, Put
<1>5. ws \in Seq(DOMAIN FlagName)
  BY <1>1, WordsAre
<1>6. Led(ws, command, Beyond(ws, i), flags') /\ Beyond(ws, i) \in 1 .. Len(ws) + 1
  BY <1>1, <1>2, <1>3, <1>4, <1>5, LedOn, TextRead
<1>7. OnTheWay'
  BY <1>1, <1>3, <1>6 DEF WInv, OnTheWay
<1> QED BY <1>1, <1>7 DEF WInv, Tallying

LEMMA WayAccepted == IInv /\ WInv /\ Accept => WInv'
<1> SUFFICES ASSUME IInv, WInv, Accept PROVE WInv'
  OBVIOUS
<1> DEFINE ws == WordsOf(args)
<1>1. /\ args \in Seq(DOMAIN FlagName) /\ pc = "parse" /\ pc' = "sweep" /\ FlagsEnd /\ Acceptable
      /\ path' = IF Rest = <<>> THEN "." ELSE Rest[1]
      /\ UNCHANGED <<found, args, at, flags, command, ended>>
  BY DEF IInv, Base, Accept, FlagsEnd, gate
<1>2. PICK i \in 1 .. Len(ws) + 1 : at = i + Lead(args) /\ Led(ws, command, i, flags)
  BY <1>1 DEF WInv, OnTheWay
<1>3. StopsAt(ws, i) /\ Rest = RestAt(ws, i)
  BY <1>1, <1>2, Here
<1>4. Accepts(ws, command, i, flags) /\ path' = PathAt(ws, i)
  BY <1>1, <1>3 DEF Accepts, Acceptable, PathAt
<1>5. OnTheWay'
  BY <1>1, <1>2, <1>4 DEF WInv, OnTheWay
<1> QED BY <1>1, <1>5 DEF WInv, Tallying

LEMMA WayLoops == IInv /\ WInv /\ Loop => WInv'
<1> SUFFICES ASSUME IInv, WInv, Loop PROVE WInv'
  OBVIOUS
<1>1. /\ pc \in {"sweep", "loop"} /\ pc' = "loop"
      /\ UNCHANGED <<found, rules, command, args, at, flags, path, ended>>
  BY DEF Loop, line, SweepReturns, EvaluateOne, SummarizeOne
<1>2. OnTheWay'
  BY <1>1 DEF WInv, OnTheWay
<1>3. Tallying'
  <2> SUFFICES ASSUME command = "check"
               PROVE  Leads(Tally(found, now', rules), NoTally, [at |-> cursor', bs |-> breaches'])
    BY <1>1 DEF Tallying
  <2>1. CASE SweepReturns
    <3>1. cursor' = 1 /\ breaches' = <<>>
      BY <2>1 DEF SweepReturns, IInv, Running
    <3>2. [at |-> cursor', bs |-> breaches'] = NoTally
      BY <3>1 DEF NoTally
    <3> QED BY <3>2, LeadsOn
  <2>2. CASE EvaluateOne
    <3> DEFINE s == [at |-> cursor, bs |-> breaches]
               nx == Tally(found, now, rules)
               f == found[cursor]
    <3>1. /\ pc = "loop" /\ cursor \in 1 .. Len(found) /\ cursor \in Nat /\ Len(found) \in Nat
          /\ breaches \in Seq(Breach) /\ now' = now /\ cursor' = cursor + 1
          /\ breaches' = breaches \o [i \in DOMAIN Evaluate(f) |-> [rule |-> Evaluate(f)[i], at |-> cursor]]
      BY <2>2, Findings DEF IInv, Base, EvaluateOne
    <3>2. breaches' = breaches \o BreachesOf(f, cursor, now, rules)
      <4>1. EvaluateOf(f, now, rules) = Evaluate(f)
        BY EvaluateIs
      <4>2. BreachesOf(f, cursor, now, rules) =
              [i \in DOMAIN Evaluate(f) |-> [rule |-> Evaluate(f)[i], at |-> cursor]]
        BY <4>1, Zenon DEF BreachesOf
      <4> QED BY <3>1, <4>2, Zenon
    <3>3. s \in Tallies /\ DOMAIN nx = Tallies
      BY <3>1 DEF Tallies, Tally
    <3>4. nx[s] = [at |-> cursor', bs |-> breaches']
      BY <3>1, <3>2, <3>3 DEF Tally
    <3>5. Leads(nx, NoTally, s)
      BY <3>1 DEF WInv, Tallying
    <3> HIDE DEF nx, s
    <3>6. Leads(nx, NoTally, nx[s])
      BY <3>3, <3>5, LeadsOn
    <3> QED BY <3>1, <3>4, <3>6 DEF nx
  <2>3. CASE SummarizeOne
    BY <2>3 DEF SummarizeOne
  <2> QED BY <2>1, <2>2, <2>3 DEF Loop
<1> QED BY <1>1, <1>2, <1>3 DEF WInv

LEMMA WayReported == IInv /\ WInv /\ Report => WInv'
<1> SUFFICES ASSUME IInv, WInv, Report PROVE WInv'
  OBVIOUS
<1> DEFINE output == IF command = "check" THEN CheckOutput ELSE ScanOutput
           code == IF breaches # <<>> THEN 1 ELSE 0
           r == Record(code, output)
<1>1. /\ pc = "loop" /\ cursor = Len(found) + 1 /\ breaches \in Seq(Breach) /\ found' = found
      /\ Ends(code, output)
  <2>1. Len(found) \in Nat /\ cursor \in 1 .. Len(found) + 1 /\ cursor > Len(found)
    BY Findings DEF IInv, Base, Report, Looped
  <2>2. cursor = Len(found) + 1
    BY <2>1
  <2> QED BY <2>2 DEF IInv, Base, Report, Looped, gate
<1>2. r.command = command /\ r.now = now /\ r.rules = rules /\ r.breaches = breaches
  BY DEF Record
<1> HIDE DEF r, output, code
<1>3. Tallied(r, found)
  BY <1>1, <1>2 DEF WInv, Tallying, Tallied
<1> QED BY <1>1, <1>3, EndsSwept DEF r

LEMMA Waywise == LineSpec => []WInv
<1>1. LineInit => WInv
  BY DEF LineInit, WInv, OnTheWay, Tallying
<1>2. IInv /\ WInv /\ [LineNext]_lineVars => WInv'
  <2> SUFFICES ASSUME IInv, WInv, [LineNext]_lineVars PROVE WInv'
    OBVIOUS
  <2>1. CASE Invoke \/ Dispatch
    BY <2>1, WayStarts
  <2>2. ASSUME NEW f, ParseFlag(f) PROVE WInv'
    BY <2>2, WayOn
  <2>3. ASSUME NEW f, Announce \/ FlagError(f) \/ Refuse \/ SweepError PROVE WInv'
    BY <2>3, WayEnds
  <2>4. CASE Accept
    BY <2>4, WayAccepted
  <2>5. CASE Loop
    BY <2>5, WayLoops
  <2>6. CASE Report
    BY <2>6, WayReported
  <2>7. CASE (Tick /\ UNCHANGED line) \/ UNCHANGED lineVars
    BY <2>7 DEF Tick, lineVars, vars, line, WInv, OnTheWay, Tallying
  <2> QED BY <2>1, <2>2, <2>3, <2>4, <2>5, <2>6, <2>7 DEF LineNext, Program
<1> QED BY <1>1, <1>2, Invariant, PTL DEF LineSpec

-----------------------------------------------------------------------------
(* Two walks over the same words end at the same place.                     *)
LEMMA SameStart ==
  Begin("scan", Common) = Begin("check", Common)
<1> SUFFICES ASSUME NEW f \in Common PROVE Defaults("scan")[f] = Defaults("check")[f]
  BY DEF Begin
<1>1. f \in Registered("scan") /\ f \in Registered("check") /\ f # "expiring"
  BY FlagNames DEF Commands, Common
<1> QED BY <1>1 DEF Defaults

LEMMA SamePlace ==
  ASSUME NEW ws \in Seq(DOMAIN FlagName), NEW G, NEW F, NEW x \in Places(F),
         NEW i \in Nat, NEW j \in Nat, NEW fl \in Kept(F), NEW gl \in Kept(F),
         Leads(Walk(ws, G, F), x, [at |-> i, flags |-> fl]), ~Moves(ws, i, G),
         Leads(Walk(ws, G, F), x, [at |-> j, flags |-> gl]), ~Moves(ws, j, G)
  PROVE  i = j /\ fl = gl
<1> DEFINE s == [at |-> i, flags |-> fl]
           t == [at |-> j, flags |-> gl]
           nx == Walk(ws, G, F)
<1>1. s \in Places(F) /\ t \in Places(F)
  BY DEF Places
<1>2. nx[s] = s /\ nx[t] = t
  BY <1>1 DEF Walk
<1>3. nx \in [Places(F) -> Places(F)]
  BY WalkStays
<1>4. Leads(nx, x, s) /\ Leads(nx, x, t)
  OBVIOUS
<1>5. s.at = i /\ s.flags = fl /\ t.at = j /\ t.flags = gl
  OBVIOUS
<1> HIDE DEF s, t, nx
<1>6. s = t
  BY <1>1, <1>2, <1>3, <1>4, OneEnd
<1> QED BY <1>5, <1>6

LEMMA EvaluateTyped ==
  ASSUME NEW f, NEW t, NEW r PROVE EvaluateOf(f, t, r) \in Seq(RuleNames)
<1>1. ASSUME NEW b, NEW rule \in RuleNames PROVE If(b, rule) \in Seq(RuleNames)
  BY DEF If
<1>2. {"plaintext-key", "loose-permissions", "weak-rsa", "expired", "expiring"} = RuleNames
  BY DEF RuleNames
<1> DEFINE s1 == If(~r.allowPlaintext /\ f.protection = "plaintext", "plaintext-key")
           s2 == If(~r.ignorePerms /\ f.loose, "loose-permissions")
           s3 == If(r.minRSABits > 0 /\ f.algorithm = "rsa" /\ f.bits > 0
                      /\ f.bits < r.minRSABits, "weak-rsa")
           s4 == IF Expired(f, t) THEN <<"expired">> ELSE If(Near(f, t, r), "expiring")
<1>3. EvaluateOf(f, t, r) = CASE f.kind = "private-key" -> s1 \o s2 \o s3
                              [] f.kind = "certificate" -> s4
                              [] OTHER -> <<>>
  BY DEF EvaluateOf
<1>4. /\ s1 \in Seq(RuleNames) /\ s2 \in Seq(RuleNames) /\ s3 \in Seq(RuleNames)
      /\ s4 \in Seq(RuleNames)
  BY <1>1, <1>2
<1> HIDE DEF s1, s2, s3, s4
<1>5. s1 \o s2 \in Seq(RuleNames) /\ s1 \o s2 \o s3 \in Seq(RuleNames)
  BY <1>4, ConcatProperties
<1>6. <<>> \in Seq(RuleNames)
  OBVIOUS
<1> QED BY <1>3, <1>4, <1>5, <1>6

LEMMA SameBreaches ==
  ASSUME NEW fs \in Seq(Finding), NEW t \in Int, NEW r \in Rules,
         NEW bs \in Seq(Breach), NEW cs \in Seq(Breach),
         Leads(Tally(fs, t, r), NoTally, [at |-> Len(fs) + 1, bs |-> bs]),
         Leads(Tally(fs, t, r), NoTally, [at |-> Len(fs) + 1, bs |-> cs])
  PROVE  bs = cs
<1> DEFINE x == [at |-> Len(fs) + 1, bs |-> bs]
           y == [at |-> Len(fs) + 1, bs |-> cs]
           nx == Tally(fs, t, r)
<1>1. Len(fs) \in Nat
  BY LenProperties
<1>2. x \in Tallies /\ y \in Tallies /\ NoTally \in Tallies
  BY <1>1 DEF Tallies, NoTally
<1>3. nx[x] = x /\ nx[y] = y
  <2>1. Len(fs) + 1 \notin 1 .. Len(fs)
    BY <1>1
  <2> QED BY <1>2, <2>1 DEF Tally
<1>4. nx \in [Tallies -> Tallies]
  <2> SUFFICES ASSUME NEW s \in Tallies, s.at \in 1 .. Len(fs)
               PROVE  [at |-> s.at + 1, bs |-> s.bs \o BreachesOf(fs[s.at], s.at, t, r)] \in Tallies
    BY DEF Tally
  <2> DEFINE f == fs[s.at]
             b == EvaluateOf(f, t, r)
  <2>1. s.at \in Nat /\ s.bs \in Seq(Breach) /\ f \in Finding
    BY ElementOfSeq DEF Tallies
  <2>2. b \in Seq(RuleNames)
    BY <2>1, EvaluateTyped
  <2>3. /\ Len(b) \in Nat /\ DOMAIN b = 1 .. Len(b)
        /\ \A i \in 1 .. Len(b) : b[i] \in RuleNames
    BY <2>2, LenProperties, ElementOfSeq
  <2>4. BreachesOf(f, s.at, t, r) = [i \in 1 .. Len(b) |-> [rule |-> b[i], at |-> s.at]]
    BY <2>3 DEF BreachesOf
  <2> HIDE DEF b, f
  <2>5. \A i \in 1 .. Len(b) : [rule |-> b[i], at |-> s.at] \in Breach
    BY <2>1, <2>3 DEF Breach
  <2>6. BreachesOf(f, s.at, t, r) \in [1 .. Len(b) -> Breach]
    BY <2>4, <2>5
  <2>7. BreachesOf(f, s.at, t, r) \in Seq(Breach)
    BY <2>3, <2>6, SeqDef
  <2>8. s.bs \o BreachesOf(f, s.at, t, r) \in Seq(Breach)
    BY <2>1, <2>7, ConcatProperties
  <2> QED BY <2>1, <2>8 DEF Tallies, f
<1>5. Leads(nx, NoTally, x) /\ Leads(nx, NoTally, y)
  OBVIOUS
<1>6. x.bs = bs /\ y.bs = cs
  OBVIOUS
<1> HIDE DEF x, y, nx
<1>7. x = y
  BY <1>2, <1>3, <1>4, <1>5, OneEnd
<1> QED BY <1>6, <1>7

(* The same words sweep the same tree in the same way, whatever the command  *)
(* and the flags, texts and findings; and a command given them twice at one  *)
(* moment prints the same.                                                   *)
THEOREM WordsDecide == LineSpec => []SameWordsSameSweep
<1>1. IInv /\ TInv /\ WInv => SameWordsSameSweep
  <2> SUFFICES ASSUME IInv, TInv, WInv,
                      NEW p \in ended, NEW q \in ended, ~Announced(p), ~Announced(q),
                      Words(p) = Words(q)
               PROVE  /\ p.swept /\ q.swept =>
                           p.path = q.path /\ \A f \in Common : p.flags[f] = q.flags[f]
                      /\ p.command = q.command => p.swept = q.swept
                      /\ p.command = q.command /\ p.now = q.now
                         /\ {p.exit, q.exit} \subseteq {0, 1} => p.stdout = q.stdout
    BY DEF SameWordsSameSweep, Common
  <2> DEFINE ws == WordsOf(p.line)
  <2>1. /\ p.line \in Seq(DOMAIN FlagName) /\ p.command = CommandOf(p.line) /\ p.swept \in BOOLEAN
        /\ q.line \in Seq(DOMAIN FlagName) /\ q.command = CommandOf(q.line) /\ q.swept \in BOOLEAN
        /\ p.exit \in {0, 1} /\ ~p.swept => p.stdout = Plain("usage")
        /\ q.exit \in {0, 1} /\ ~q.swept => q.stdout = Plain("usage")
    BY DEF WInv, Followed
  <2>2. WordsOf(q.line) = ws
    BY DEF Words, WordsOf
  <2> HIDE DEF ws
  <2>3. PICK i \in 1 .. Len(ws) + 1 :
          /\ Led(ws, p.command, i, p.flags) /\ ~Moves(ws, i, Registered(p.command))
          /\ p.swept <=> Accepts(ws, p.command, i, p.flags)
          /\ p.swept => p.path = PathAt(ws, i)
    BY DEF WInv, Followed, ws
  <2>4. PICK j \in 1 .. Len(ws) + 1 :
          /\ Led(ws, q.command, j, q.flags) /\ ~Moves(ws, j, Registered(q.command))
          /\ q.swept <=> Accepts(ws, q.command, j, q.flags)
          /\ q.swept => q.path = PathAt(ws, j)
    BY <2>2 DEF WInv, Followed
  <2>5. ws \in Seq(DOMAIN FlagName) /\ p.command \in Commands /\ q.command \in Commands
        /\ i \in Nat /\ j \in Nat
    BY <2>1, <2>3, <2>4, WordsAre DEF ws
  <2>6. ASSUME p.swept, q.swept
        PROVE  i = j /\ Shared(p.flags) = Shared(q.flags)
    <3>1. ~Moves(ws, i, AllFlags) /\ ~Moves(ws, j, AllFlags)
      BY <2>3, <2>4, <2>6, StoppedStill DEF Accepts
    <3>2. Begin(p.command, Common) = Begin(q.command, Common)
      BY <2>5, SameStart DEF Commands
    <3>3. Shared(p.flags) \in Kept(Common) /\ Shared(q.flags) \in Kept(Common)
      BY <2>3, <2>4, <2>5, SharedPut DEF Led
    <3>4. Begin(p.command, Common) \in Places(Common)
      BY <2>5, DefaultsKept
    <3> DEFINE x == Begin(p.command, Common)
    <3>5. /\ Leads(Walk(ws, AllFlags, Common), x, [at |-> i, flags |-> Shared(p.flags)])
          /\ Leads(Walk(ws, AllFlags, Common), x, [at |-> j, flags |-> Shared(q.flags)])
      BY <2>3, <2>4, <3>2 DEF Led
    <3> HIDE DEF x
    <3> QED BY <2>5, <3>1, <3>3, <3>4, <3>5, SamePlace DEF x
  <2>7. ASSUME p.command = q.command
        PROVE  i = j /\ p.flags = q.flags
    <3> DEFINE c == p.command
               x == Begin(c, Registered(c))
    <3>1. p.flags \in Kept(Registered(c)) /\ q.flags \in Kept(Registered(c))
      BY <2>3, <2>4, <2>7 DEF Led
    <3>2. x \in Places(Registered(c))
      BY <2>5, DefaultsKept
    <3>3. /\ Leads(Walk(ws, Registered(c), Registered(c)), x, [at |-> i, flags |-> p.flags])
          /\ Leads(Walk(ws, Registered(c), Registered(c)), x, [at |-> j, flags |-> q.flags])
      BY <2>3, <2>4, <2>7 DEF Led
    <3>4. ~Moves(ws, i, Registered(c)) /\ ~Moves(ws, j, Registered(c))
      BY <2>3, <2>4, <2>7
    <3> HIDE DEF c, x
    <3> QED BY <2>5, <3>1, <3>2, <3>3, <3>4, SamePlace
  <2>8. ASSUME p.swept, q.swept
        PROVE  p.path = q.path /\ \A f \in Common : p.flags[f] = q.flags[f]
    <3>1. ASSUME NEW f \in Common PROVE p.flags[f] = q.flags[f]
      <4>1. Shared(p.flags)[f] = p.flags[f] /\ Shared(q.flags)[f] = q.flags[f]
        BY DEF Shared
      <4> QED BY <2>6, <2>8, <4>1
    <3> QED BY <2>3, <2>4, <2>6, <2>8, <3>1
  <2>9. ASSUME p.command = q.command PROVE p.swept = q.swept
    <3>1. p.swept <=> q.swept
      BY <2>3, <2>4, <2>7, <2>9
    <3> QED BY <2>1, <3>1
  <2>10. ASSUME p.command = q.command, p.now = q.now, {p.exit, q.exit} \subseteq {0, 1}
         PROVE  p.stdout = q.stdout
    <3>1. CASE ~p.swept
      BY <2>1, <2>9, <2>10, <3>1
    <3>2. CASE p.swept
      <4>1. q.swept /\ p.exit \in {0, 1} /\ q.exit \in {0, 1}
        BY <2>9, <2>10, <3>2
      <4>2. /\ p.rules = RulesOf(p.command, p.flags) /\ p.stdout = Printed(p)
            /\ q.rules = RulesOf(q.command, q.flags) /\ q.stdout = Printed(q)
            /\ p.rules \in Rules /\ p.now \in Int
        BY <3>2, <4>1 DEF TInv, Told
      <4>3. p.flags = q.flags /\ p.rules = q.rules
        BY <2>7, <2>10, <4>2
      <4>4. CASE p.command = "check"
        <5>1. /\ Leads(Tally(found, p.now, p.rules), NoTally, [at |-> Len(found) + 1, bs |-> p.breaches])
              /\ Leads(Tally(found, p.now, p.rules), NoTally, [at |-> Len(found) + 1, bs |-> q.breaches])
              /\ p.breaches \in Seq(Breach) /\ q.breaches \in Seq(Breach)
          BY <2>10, <3>2, <4>1, <4>3, <4>4 DEF WInv, Tallied
        <5>2. p.breaches = q.breaches
          BY <4>2, <5>1, SameBreaches DEF IInv, Base
        <5> QED BY <2>10, <4>2, <4>3, <4>4, <5>2 DEF Printed
      <4>5. CASE p.command = "scan"
        <5>1. /\ Added(p.summary, found, Len(found), p.now, p.rules)
              /\ Added(q.summary, found, Len(found), p.now, p.rules)
              /\ MarkedIn(p.marked, found, Len(found), p.now, p.rules)
              /\ MarkedIn(q.marked, found, Len(found), p.now, p.rules)
          BY <2>10, <3>2, <4>1, <4>3, <4>5 DEF TInv, Told
        <5>2. p.summary = q.summary
          BY <5>1, SameCounts
        <5>3. p.marked = q.marked
          BY <5>1 DEF MarkedIn
        <5> QED BY <2>10, <4>2, <4>3, <4>5, <5>2, <5>3 DEF Printed
      <4> QED BY <2>5, <4>4, <4>5 DEF Commands
    <3> QED BY <3>1, <3>2
  <2> QED BY <2>8, <2>9, <2>10
<1> QED BY <1>1, Invariant, Telltale, Waywise, PTL
=============================================================================
