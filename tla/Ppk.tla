---------------------------------- MODULE Ppk ----------------------------------
(***************************************************************************)
(* parsePPK of internal/parse/ppk.go: one pass over the lines of a PuTTY key *)
(* that reads header fields, hands the lines Public-Lines announces to the   *)
(* SSH blob reader and stops at Private-Lines.                               *)
(*                                                                         *)
(* A line is the field it starts with, if any, and what its value says; what *)
(* base64 and parseSSHPublicBlob make of collected lines is a function.      *)
(***************************************************************************)
EXTENDS Integers, Sequences

CONSTANTS
  Files,        \* the files parsed: each starts with "PuTTY-User-Key-File-"
  Ciphers,      \* values of Encryption other than "none" and ""
  Algorithms,   \* what a header or a public blob may say of the key
  Blob,         \* the algorithm a decodable sequence of line texts holds
  MaxCount      \* the largest Public-Lines taken for real, 4096

Fields == {"Header", "Encryption", "Public-Lines", "Private-Lines", "text", "overlong"}
BadHeader == "bad"     \* no ": " in the first line, or an unknown version
(* text is what a line adds to a blob, or the cipher that an overlong line    *)
(* names where it starts; count, what Atoi returns, 0 on error.              *)
Line == [field : Fields, text : STRING, count : Int]

ASSUME PpkAssumption ==
  /\ \A c \in Files : c \in Seq(Line) \ {<<>>} /\ c[1].field \in {"Header", "overlong"}
  /\ \A c \in Files : c[1].field = "Header" => c[1].text \in Algorithms \cup {BadHeader}
  /\ BadHeader \notin Algorithms /\ "none" \notin Ciphers /\ "" \notin Ciphers
  /\ \A b \in DOMAIN Blob : Blob[b] \in Algorithms
  /\ MaxCount \in Nat

VARIABLES
  file,
  read,      \* lines Scan has returned
  pc,
  left,      \* lines of the public blob still to read
  blob,      \* those read
  found      \* the finding: algorithm, protection, cipher

vars == <<file, read, pc, left, blob, found>>

NoFinding == [algorithm |-> BadHeader, protection |-> "none", cipher |-> ""]

Init ==
  /\ file \in Files /\ read = 0 /\ pc = "header" /\ left = 0 /\ blob = <<>>
  /\ found = NoFinding

(* Scan returns FALSE at the end and on a line longer than its buffer.       *)
More == read < Len(file) /\ file[read + 1].field # "overlong"
Line1 == file[read + 1]
(* Called again on that line it returns what the buffer holds, then FALSE:   *)
(* so it is in the outer loop when the inner one stopped on such a line.     *)
Again == ~More /\ read < Len(file) /\ left > 0

-----------------------------------------------------------------------------
Header ==
  /\ pc = "header" /\ More /\ read' = read + 1
  /\ IF Line1.text = BadHeader
       THEN pc' = "error" /\ UNCHANGED found
       ELSE /\ pc' = "fields"
            /\ found' = [algorithm |-> Line1.text, protection |-> "plaintext", cipher |-> ""]
  /\ UNCHANGED <<file, left, blob>>
NoHeader == pc = "header" /\ ~More /\ pc' = "error" /\ UNCHANGED <<file, read, left, blob, found>>

Field(name) == pc = "fields" /\ More /\ Line1.field = name /\ read' = read + 1

(* Encryption: none leaves the protection as it is.                         *)
(* Mistake: it says plaintext, even after a cipher. *)
ProtectOrClear(f, value) ==
  IF value \in Ciphers THEN [f EXCEPT !.protection = "encrypted", !.cipher = value]
                       ELSE [f EXCEPT !.protection = "plaintext", !.cipher = ""]
Protect(f, value) ==
  IF value \in Ciphers THEN [f EXCEPT !.protection = "encrypted", !.cipher = value] ELSE f

Encryption ==
  /\ Field("Encryption") /\ found' = Protect(found, Line1.text)
  /\ UNCHANGED <<file, pc, left, blob>>

(* A count out of range ends the parse.  Mistake: zero and less accepted. *)
NotTooMany(n) == n <= MaxCount
Plausible(n) == n >= 1 /\ n <= MaxCount

PublicLines ==
  /\ Field("Public-Lines") /\ blob' = <<>>
  /\ IF Plausible(Line1.count) THEN pc' = "blob" /\ left' = Line1.count
                               ELSE pc' = "returned" /\ UNCHANGED left
  /\ UNCHANGED <<file, found>>

(* The inner loop takes the next lines whatever they are.  *)
BlobLine ==
  /\ pc = "blob" /\ left > 0 /\ More
  /\ read' = read + 1 /\ left' = left - 1 /\ blob' = Append(blob, Line1.text)
  /\ UNCHANGED <<file, pc, found>>

(* A blob that does not decode leaves the facts of the header.               *)
BlobEnd ==
  /\ pc = "blob" /\ (left <= 0 \/ ~More) /\ pc' = "fields"
  /\ found' = IF blob \in DOMAIN Blob THEN [found EXCEPT !.algorithm = Blob[blob]] ELSE found
  /\ UNCHANGED <<file, read, left, blob>>

(* Where the parse goes on Private-Lines.  Mistake: to the next line. *)
GoesOn == "fields"
Stops == "returned"
PrivateLines ==
  Field("Private-Lines") /\ pc' = Stops /\ UNCHANGED <<file, left, blob, found>>

OtherLine ==
  /\ \E name \in {"Header", "text"} : Field(name)
  /\ UNCHANGED <<file, pc, left, blob, found>>
(* The start of a line too long is taken for a field, the last one.          *)
LongLine ==
  /\ pc = "fields" /\ Again /\ read' = read + 1 /\ pc' = "returned"
  /\ found' = Protect(found, Line1.text)
  /\ UNCHANGED <<file, left, blob>>
NoMore ==
  /\ pc = "fields" /\ ~More /\ ~Again /\ pc' = "returned"
  /\ UNCHANGED <<file, read, left, blob, found>>

Returned == pc \in {"returned", "error"} /\ UNCHANGED vars

Next == \/ Header \/ NoHeader \/ Encryption \/ PublicLines \/ BlobLine \/ BlobEnd
        \/ PrivateLines \/ OtherLine \/ LongLine \/ NoMore \/ Returned
Spec == Init /\ [][Next]_vars

-----------------------------------------------------------------------------
Finding == [algorithm : Algorithms \cup {BadHeader}, cipher : Ciphers \cup {""},
            protection : {"none", "plaintext", "encrypted"}]
TypeOK ==
  /\ file \in Seq(Line) /\ read \in 0 .. Len(file) /\ left \in Nat /\ blob \in Seq(STRING)
  /\ pc \in {"header", "fields", "blob", "returned", "error"} /\ found \in Finding

(* Private-Lines, a line too long for Scan and a count out of range end the  *)
(* public lines.                                                            *)
Ends == {n \in DOMAIN file :
           \/ file[n].field \in {"Private-Lines", "overlong"}
           \/ file[n].field = "Public-Lines" /\ file[n].count \notin 1 .. MaxCount}
Public == {n \in DOMAIN file : \A e \in Ends : n < e}
CipherLines ==
  {n \in DOMAIN file : file[n].field \in {"Encryption", "overlong"} /\ file[n].text \in Ciphers}
CountLines == {n \in Public : file[n].field = "Public-Lines"}
(* Every count in range is that of the public lines of text that follow it,  *)
(* and no more.                                                             *)
Honest == \A n \in CountLines :
  \A m \in n + 1 .. n + file[n].count : m \in Public /\ file[m].field = "text"
BlobAt(n) == [m \in 1 .. file[n].count |-> file[n + m].text]
Decodable == {n \in CountLines : BlobAt(n) \in DOMAIN Blob}

LastOf(S) == CHOOSE n \in S : \A m \in S : m <= n

(* On a file whose counts are honest or out of range the finding is what the *)
(* public lines say, in whatever order and however often they say it, and    *)
(* nothing below a count out of range (ppk.go:72) or from Private-Lines on,   *)
(* the secret part (ppk.go:88-91), changes it.                               *)
HonestExact ==
  pc = "returned" /\ Honest =>
    /\ found.cipher = IF CipherLines \cap Public = {} THEN ""
                      ELSE file[LastOf(CipherLines \cap Public)].text
    /\ found.protection = IF CipherLines \cap Public = {} THEN "plaintext" ELSE "encrypted"
    /\ found.algorithm = IF Decodable = {} THEN file[1].text ELSE Blob[BlobAt(LastOf(Decodable))]

(* However damaged the file is after it, an Encryption header above the      *)
(* first count is never lost: no encrypted key is reported as plaintext,     *)
(* which the gate would fail; and no key is called encrypted without such a  *)
(* header (ppk.go:44, 66).                                                  *)
ProtectionSound ==
  pc = "returned" =>
    /\ (\E n \in CipherLines \cap Public : \A m \in CountLines : n < m)
         => found.protection = "encrypted"
    /\ found.protection = "encrypted" => \E n \in CipherLines : file[n].text = found.cipher

-----------------------------------------------------------------------------
(* ppk.go:89-90, "Everything after the public blob is either ciphertext or   *)
(* secrets; the inventory never reads it": no line below Private-Lines is    *)
(* ever read.                                                               *)
SecretsNeverRead ==
  \A n \in DOMAIN file : file[n].field = "Private-Lines" => read <= n
=============================================================================
