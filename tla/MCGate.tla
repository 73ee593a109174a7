------------------------------- MODULE MCGate -------------------------------
(* Sessions of three sorts: every line of up to two arguments out of one of  *)
(* each sort, and commands with more behind them, over a tree or two; pairs  *)
(* of lines that say the same in different ways, over trees of every kind;   *)
(* and pairs that gate twice, or gate and scan, with every set of rules over *)
(* certificates of every expiry around the window.  A day is two clock       *)
(* units, a duration saturates at three days, and of three days one unit is  *)
(* rounded away.                                                             *)
EXTENDS CommandLine, TLC

MCFlagName ==
  [a \in {"--format", "--format=json", "--format=markdown"} |-> "format"]
  @@ [a \in {"--exclude"} |-> "exclude"] @@ [a \in {"--jobs"} |-> "jobs"]
  @@ [a \in {"--expiring", "--expiring=0", "--expiring=2", "--expiring=3", "--expiring=4"} |-> "expiring"]
  @@ [a \in {"--all", "--all=false", "--all=maybe"} |-> "all"]
  @@ [a \in {"--allow-plaintext"} |-> "allow-plaintext"]
  @@ [a \in {"--ignore-perms"} |-> "ignore-perms"]
  @@ [a \in {"--min-rsa-bits=2"} |-> "min-rsa-bits"]
  @@ [a \in {"--max-file-size=2"} |-> "max-file-size"]
  @@ [a \in {"-h"} |-> "h"] @@ [a \in {"--bogus", "--version", "-5"} |-> "bogus"]
  @@ [a \in {"--"} |-> "--"]
  @@ [a \in {"scan", "check", "help", "version", "json", "2", "dir", "-"} |-> "word"]
MCInline ==
  [a \in {"--format=json"} |-> "json"] @@ [a \in {"--format=markdown"} |-> "markdown"]
  @@ [a \in {"--expiring=2", "--min-rsa-bits=2", "--max-file-size=2"} |-> "2"]
  @@ [a \in {"--expiring=0"} |-> "0"] @@ [a \in {"--expiring=3"} |-> "3"] @@ [a \in {"--expiring=4"} |-> "4"]
  @@ [a \in {"--all=false"} |-> "false"] @@ [a \in {"--all=maybe"} |-> "maybe"]
  @@ [a \in DOMAIN MCFlagName |-> Bare]
MCNumber == [t \in {"0"} |-> 0] @@ [t \in {"2"} |-> 2] @@ [t \in {"3"} |-> 3]
            @@ [t \in {"4"} |-> 4] @@ [t \in {"-5"} |-> -5]
MCEarly  == [k \in 0 .. 4 |-> IF k = 3 THEN 1 ELSE 0]
MCTruth  == [t \in {"true"} |-> TRUE] @@ [t \in {"false"} |-> FALSE]

Key(p, l, a, b) == [kind |-> "private-key", protection |-> p, loose |-> l, algorithm |-> a,
                    bits |-> b, notAfter |-> 0]
Keys == {Key(p, l, "rsa", b) : p \in {"plaintext", "encrypted"}, l \in BOOLEAN, b \in {0, 1, 2}}
        \cup {Key("plaintext", FALSE, "other", 1)}
Cert(t) == [kind |-> "certificate", protection |-> "none", loose |-> TRUE,
            algorithm |-> "rsa", bits |-> 1, notAfter |-> t]
Container(l) == [kind |-> "container", protection |-> "password", loose |-> l, algorithm |-> "other",
                 bits |-> 0, notAfter |-> 0]
CSR == [kind |-> "csr", protection |-> "none", loose |-> TRUE, algorithm |-> "rsa", bits |-> 1,
        notAfter |-> 0]

(* Every line. *)
Arguments == DOMAIN MCFlagName \ {"--expiring=0", "--expiring=3", "--expiring=4"}
Upto(S, n) == UNION {[1 .. m -> S] : m \in 0 .. n}
Few == {"--format", "--exclude", "json", "2", "--", "dir", "--all=false"}
EveryLine == Upto(Arguments, 2)
             \cup {<<"check", b, c>> : b, c \in Arguments}
             \cup {<<a>> \o s : a \in Commands, s \in [1 .. 3 -> Few]}
Single == [found : {<<>>}, lines : {<<l>> : l \in EveryLine}]
          \cup [found : {<<Cert(0), Key("plaintext", FALSE, "rsa", 2)>>},
                lines : {<<<<a>> \o s>> : a \in Commands, s \in Upto(Arguments, 1)}]

(* The same words. *)
Tails == {<<>>, <<"dir">>, <<"--format=json">>, <<"--format=json", "--expiring=2">>,
          <<"--expiring", "2">>, <<"--expiring", "-5">>, <<"--format=markdown", "dir">>,
          <<"--all", "--exclude", "--all", "dir">>, <<"--exclude", "json", "--exclude", "dir">>,
          <<"-h">>, <<"--bogus">>, <<"--format", "json", "--", "dir">>}
SameWords == {<<t, <<c>> \o t>> : t \in Tails, c \in Commands}
             \cup {<<<<"check">> \o t, <<"scan">> \o t>> : t \in Tails}
Readings == {<<l \o <<w>>, <<"scan", "--format=json", w>>>> :
               l \in {<<"check">>, <<"check", "--format=json">>, <<"scan">>, <<"scan", "--format=markdown">>},
               w \in {"--expiring=0", "--expiring=2", "--expiring=3", "--expiring=4"}}
            \cup {<<<<"check">> \o t, <<"--format=json">>>> :
                    t \in {<<"--allow-plaintext">>, <<"--ignore-perms", "--min-rsa-bits=2">>,
                           <<"--allow-plaintext", "--ignore-perms", "--expiring=2">>}}
Trees == {<<>>, <<Key("encrypted", TRUE, "other", 0), CSR, Key("plaintext", FALSE, "rsa", 1)>>,
          <<Container(TRUE), Key("plaintext", TRUE, "rsa", 0)>>,
          <<Cert(-1), Cert(0), Cert(3)>>, <<CSR, Cert(4), Container(FALSE), Cert(60)>>}
Pairs == [found : Trees, lines : SameWords \cup Readings]

(* Gates and windows. *)
If1(b, a) == IF b THEN <<a>> ELSE <<>>
Loosened == {If1(p, "--allow-plaintext") \o If1(i, "--ignore-perms") \o If1(m, "--min-rsa-bits=2") :
               p, i, m \in BOOLEAN}
Windows == {"--expiring=0", "--expiring=2", "--expiring=3", "--expiring=4"}
GateTwice == {<<<<"check", w>> \o r, <<"check", w>> \o r>> : w \in Windows, r \in Loosened}
GateScan  == {<<<<"check", w>> \o r, <<"scan", w>>>> : w \in Windows, r \in Loosened}
Plainly(lines) == {s \in lines : Len(s[1]) = 2}
Series == [found : {<<Cert(t)>> : t \in -8 .. 12} 
                    \cup {<<Cert(s), Cert(t)>> : s \in {-2, 3}, t \in -1 .. 5},
           lines : Plainly(GateTwice) \cup Plainly(GateScan)]
          \cup [found : {<<Cert(3), k>> : k \in Keys \cup {Container(TRUE), CSR}},
                lines : GateTwice \cup GateScan]

MCSessions == Single \cup Pairs \cup Series

(* For what the documentation says. *)
Containers == [found : {<<Cert(t), Container(l)>> : t \in {-1, 3, 8}, l \in BOOLEAN},
               lines : {<<<<"check", w, "--allow-plaintext">>, <<"scan", f>>>> :
                          w \in {"--expiring=2", "--expiring=4"}, f \in {"--format=markdown", "--expiring=2"}}]
=============================================================================
