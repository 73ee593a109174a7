------------------------------ MODULE MCPemScan ------------------------------
(* Every file of at most MaxLines lines over each of two sets of kinds of     *)
(* line, and of one line more over a third.                                  *)
EXTENDS PemScan
CONSTANT MaxLines

Prose == [begin |-> None, end |-> None, behind |-> FALSE, place |-> "column0",
          base64 |-> FALSE, colon |-> FALSE]
Base64 == [Prose EXCEPT !.base64 = TRUE]
Header == [Prose EXCEPT !.colon = TRUE]
BeginLine(t, at) == [Prose EXCEPT !.begin = t, !.place = at]
EndLine(t, at)   == [Prose EXCEPT !.end = t, !.place = at]
Glued   == [BeginLine("key", "inline") EXCEPT !.end = "key"]
OneLine == [BeginLine(Bad, "inline") EXCEPT !.behind = TRUE]   \* a key written into one string
Named(line) == [line EXCEPT !.colon = TRUE]                    \* behind "name: "

Ends  == {EndLine("key", "column0"), EndLine("key", "indent")}
Lines == {BeginLine("key", p) : p \in Places} \cup {OneLine, Base64, Prose, Header, Glued}
         \cup Ends \cup {BeginLine("pub", "column0"), EndLine("pub", "column0")}
KeyLines == {BeginLine("key", p) : p \in {"column0", "indent"}} \cup {Header, Base64} \cup Ends
NamedLines == KeyLines \cup {Named(BeginLine("key", "inline")), Named(EndLine("key", "inline"))}
FewLines == KeyLines \cup {BeginLine(Bad, "inline")}
FilesOver(lines, max) == UNION {[1 .. n -> lines] : n \in 0 .. max}
MCFiles    == FilesOver(Lines, MaxLines) \cup FilesOver(NamedLines, MaxLines)
              \cup FilesOver(FewLines, MaxLines + 1)
PlainFiles == FilesOver(FewLines, MaxLines)
=============================================================================
