------------------------------- MODULE PemScan -------------------------------
(***************************************************************************)
(* scanPEM of internal/parse/pem.go: the loop that finds PEM blocks anywhere *)
(* in a file, with the retry of decodeIndented for blocks pasted with an     *)
(* indentation.  A file is a sequence of lines, and a line is what the loop  *)
(* and encoding/pem tell apart in it: the marker "-----BEGIN " and where it  *)
(* stands, the marker "-----END " and where it stands, a header, base64 text   *)
(* (a blank line too), or none of these.                                     *)
(***************************************************************************)
EXTENDS Integers, Sequences

CONSTANTS
  Reported,     \* block types classifyPEM makes a finding of
  Dropped,      \* block types it does not report, such as PUBLIC KEY
  Files         \* the files scanned

Types  == Reported \cup Dropped
Places == {"column0", "indent", "inline"}
Bad    == "bad"       \* a marker whose line is not a well-formed BEGIN line
None   == "none"

(* end # None on a line with a BEGIN marker: two files joined without a      *)
(* newline, "-----END X----------BEGIN Y-----"; its END line is not clean.    *)
(* behind: an END marker stands behind the BEGIN marker.  colon: the line is a *)
(* header, "Proc-Type: 4,ENCRYPTED", or text with a colon before any marker.  *)
Line == [begin : Types \cup {Bad, None}, end : Types \cup {None}, behind : BOOLEAN,
         place : Places, base64 : BOOLEAN, colon : BOOLEAN]

ASSUME TypesAssumption ==
  Reported \cap Dropped = {} /\ Bad \notin Types /\ None \notin Types /\ Bad # None
ASSUME FilesAssumption ==
  /\ \A c \in Files : c \in Seq(Line)
  /\ \A c \in Files : \A i \in DOMAIN c :
       /\ c[i].base64 => c[i].begin = None /\ c[i].end = None /\ ~c[i].colon
       /\ c[i].begin # None /\ c[i].end # None => c[i].place = "inline"
       /\ c[i].colon /\ (c[i].begin # None \/ c[i].end # None) => c[i].place = "inline"
       /\ c[i].behind => c[i].begin = Bad

(* What stands between the BEGIN and the END line of a block: headers, as     *)
(* many as there are, then base64; below headers END is sought with the       *)
(* newline before it, so that a line stands between the two.                 *)
Body(c, q, e) ==
  /\ \A i \in q + 1 .. e - 1 : c[i].base64 \/ \A j \in q + 1 .. i : c[j].colon
  /\ q + 1 < e => c[e - 1].base64

(* What pem.Decode accepts when it is given the lines from p on, the first   *)
(* of them from its marker on: a BEGIN line at the start of what it is given *)
(* or of a line, the body, and the matching END at the start of a line.      *)
IsBlock(c, p, q, e) ==
  /\ p <= q /\ q < e /\ q \in DOMAIN c /\ e \in DOMAIN c
  /\ c[q].begin \in Types /\ (q = p \/ c[q].place = "column0")
  /\ c[e].end = c[q].begin /\ c[e].begin = None /\ c[e].place = "column0"
  /\ Body(c, q, e)

(* It returns the first such block. *)
Decodes(c, p, q, e) ==
  IsBlock(c, p, q, e) /\ \A x, y \in DOMAIN c : IsBlock(c, p, x, y) => q <= x
Decodable(c, p) == \E q, e \in DOMAIN c : IsBlock(c, p, q, e)

(* Mistake: BEGIN lines only. *)
TrimBegin(line) ==
  [line EXCEPT !.place = IF @ = "indent" /\ line.begin # None THEN "column0" ELSE @]
TrimLeft(line) == [line EXCEPT !.place = IF @ = "indent" THEN "column0" ELSE @]

(* decodeIndented: the lines up to the first END of any kind behind the       *)
(* marker, the marker's own line included, must decode with leading blanks    *)
(* removed to a block that is reported.                                      *)
EndsAt(c, p, i) == c[i].behind \/ (p < i /\ c[i].end # None)
FirstEnd(c, p, e) ==
  e \in DOMAIN c /\ p <= e /\ EndsAt(c, p, e) /\ \A i \in p .. e - 1 : ~EndsAt(c, p, i)
DecodesIndented(c, p, q, e) ==
  LET dedented == [i \in 1 .. e |-> TrimLeft(c[i])] IN
  FirstEnd(c, p, e) /\ Decodes(dedented, p, q, e) /\ c[q].begin \in Reported

VARIABLES
  content,   \* the file
  base,      \* the line rest starts at
  out,       \* findings: line as reported, and the block it came from
  done       \* scanPEM has returned

vars == <<content, base, out, done>>

Init == content \in Files /\ base = 1 /\ out = <<>> /\ done = FALSE

(* bytes.Index(rest, pemMarker): the next marker is on line m. *)
MarkerAt(m) ==
  /\ ~done /\ m \in DOMAIN content /\ m >= base /\ content[m].begin # None
  /\ \A i \in base .. m - 1 : content[i].begin = None

(* Mistakes: lines counted from 0, or within rest only. *)
FindingFromZero(m, q, e) == [line |-> m - 1, begin |-> q, end |-> e]
FindingInRest(m, q, e) == [line |-> m - base + 1, begin |-> q, end |-> e]
Finding(m, q, e) == [line |-> m, begin |-> q, end |-> e]

(* Where rest goes on after a block that ends on line e, and after a stray   *)
(* marker on line m.  Mistakes: a line lost, a block not passed, no step.    *)
AfterNext(e) == e + 2
AfterMarker(e) == base + 1
After(e) == e + 1
StepBack(m) == m
Step(m) == m + 1

(* pem.Decode succeeds, on the block at the marker or on a later one. *)
Strict(m, q, e) ==
  /\ MarkerAt(m) /\ Decodes(content, m, q, e)
  /\ out' = IF content[q].begin \in Reported THEN Append(out, Finding(m, q, e)) ELSE out
  /\ base' = After(e) /\ UNCHANGED <<content, done>>

(* It fails, and the dedented copy decodes. *)
Indented(m, q, e) ==
  /\ MarkerAt(m) /\ DecodesIndented(content, m, q, e) /\ ~Decodable(content, m)
  /\ out' = Append(out, Finding(m, q, e))
  /\ base' = After(e) /\ UNCHANGED <<content, done>>

(* Neither does: a stray marker. *)
Stray(m) ==
  /\ MarkerAt(m) /\ ~Decodable(content, m)
  /\ ~ \E q, e \in DOMAIN content : DecodesIndented(content, m, q, e)
  /\ base' = Step(m) /\ UNCHANGED <<content, out, done>>

NoMarker ==
  /\ ~done /\ \A i \in DOMAIN content : i >= base => content[i].begin = None
  /\ done' = TRUE /\ UNCHANGED <<content, base, out>>

Returned == done /\ UNCHANGED vars

Scan == NoMarker \/ \E m \in DOMAIN content :
          \/ Stray(m)
          \/ \E q, e \in DOMAIN content : Strict(m, q, e) \/ Indented(m, q, e)
Next == Scan \/ Returned

Spec == Init /\ [][Next]_vars
FairSpec == Spec /\ WF_vars(Scan)      \* one goroutine runs the loop, unblocked

-----------------------------------------------------------------------------
TypeOK ==
  /\ content \in Files /\ base \in 1 .. Len(content) + 1 /\ done \in BOOLEAN
  /\ out \in Seq([line : 1 .. Len(content), begin : 1 .. Len(content), end : 1 .. Len(content)])

(* No two findings of one file carry the same line, although a finding's     *)
(* line is that of a marker and not always of its block: finding.Sort orders *)
(* a file's findings by line, and needs them distinct (pem.go:27, 45).       *)
LinesIncreasing == \A i, j \in DOMAIN out : i < j => out[i].line < out[j].line

(* No block is reported twice, and no two reported blocks overlap.           *)
BlocksDisjoint == \A i, j \in DOMAIN out : i < j => out[i].end < out[j].begin

Covers(q, e) == \E i \in DOMAIN out : out[i].begin = q /\ out[i].end = e

(* Stray markers, damaged blocks and dropped types before or between them    *)
(* never hide a well-formed block: every one that begins and ends at column  *)
(* 0 and is of a reported type has a finding.                                *)
StrictComplete ==
  done => \A q, e \in DOMAIN content :
    IsBlock(content, 0, q, e) /\ content[q].begin \in Reported => Covers(q, e)

(* A block whose BEGIN and END lines stand at the start of a line or after   *)
(* leading blanks only, with no END inside a header.                         *)
Pasted(q, e) ==
  /\ q < e /\ content[q].begin \in Reported /\ content[e].end = content[q].begin
  /\ content[q].place # "inline" /\ content[e].place # "inline"
  /\ Body(content, q, e)
  /\ \A i \in q + 1 .. e - 1 : content[i].end = None /\ ~content[i].behind

(* An indented block is reported as long as no strict block stands below it. *)
IndentedComplete ==
  done => \A q, e \in DOMAIN content :
    Pasted(q, e) /\ ~Decodable(content, q) => Covers(q, e)

(* The loop returns on every file. *)
Returns == <>done

-----------------------------------------------------------------------------
(* docs/formats.md:16, "Every block in the file is classified": so is one    *)
(* that is indented, wherever it stands.                                     *)
EveryBlock == done => \A q, e \in DOMAIN content : Pasted(q, e) => Covers(q, e)
=============================================================================
