--------------------------------- MODULE MCPpk ---------------------------------
(* Every file of a header and at most MaxLines lines more: an Encryption     *)
(* line with and without a cipher, counts that are right, too large and out  *)
(* of range, Private-Lines, two lines of text and one too long for Scan that  *)
(* starts with a cipher; and of one line more without the counts out of range *)
(* and the long line.  A blob decodes from "p", or from "p" and "q".          *)
EXTENDS Ppk
CONSTANT MaxLines

L(f, t, n) == [field |-> f, text |-> t, count |-> n]
Lines == {L("Encryption", t, 0) : t \in {"none", "aes"}}
         \cup {L("Public-Lines", "", n) : n \in {-1, 1, 2, 5}}
         \cup {L("Private-Lines", "", 0), L("text", "p", 0), L("text", "q", 0), L("overlong", "aes", 0)}
MCAlgorithms == {"header", "p", "pq"}
MCBlob  == [b \in {<<"p">>, <<"p", "q">>} |-> IF Len(b) = 1 THEN "p" ELSE "pq"]
FewLines == {l \in Lines : l.field # "overlong" /\ (l.field = "Public-Lines" => l.count \in {1, 2})}
MCFiles == {<<L("overlong", "", 0)>>, <<L("Header", BadHeader, 0)>>}
           \cup {<<L("Header", "header", 0)>> \o s :
                   s \in UNION {[1 .. n -> Lines] : n \in 0 .. MaxLines} \cup [1 .. MaxLines + 1 -> FewLines]}
=============================================================================
