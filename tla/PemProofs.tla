------------------------------ MODULE PemProofs ------------------------------
(***************************************************************************)
(* Proofs about PemScan, for files of every length and every set of types.   *)
(***************************************************************************)
EXTENDS PemScan, SequenceTheorems, TLAPS

(* Findings lie behind base, one after the other, and no strict block that   *)
(* begins behind base was missed.                                            *)
Behind ==
  /\ \A i \in DOMAIN out : out[i].line <= out[i].begin /\ out[i].begin < out[i].end /\ out[i].end < base
  /\ \A i, j \in DOMAIN out : i < j => out[i].end < out[j].line
StrictSoFar ==
  \A q, e \in DOMAIN content :
    IsBlock(content, 0, q, e) /\ content[q].begin \in Reported /\ q < base => Covers(q, e)
AllSeen == done => \A i \in DOMAIN content : i >= base => content[i].begin = None
IInv == TypeOK /\ Behind /\ StrictSoFar /\ AllSeen

LEMMA Lines ==
  ASSUME TypeOK
  PROVE  /\ Len(content) \in Nat /\ DOMAIN content = 1 .. Len(content)
         /\ base \in 1 .. Len(content) + 1
BY FilesAssumption, LenProperties DEF TypeOK

LEMMA OutLen ==
  ASSUME TypeOK
  PROVE  Len(out) \in Nat /\ DOMAIN out = 1 .. Len(out)
         /\ \A i \in DOMAIN out : out[i].line \in Int /\ out[i].begin \in Int /\ out[i].end \in Int
<1> DEFINE S == [line : 1 .. Len(content), begin : 1 .. Len(content), end : 1 .. Len(content)]
<1>1. out \in Seq(S)
  BY DEF TypeOK
<1>2. Len(out) \in Nat /\ DOMAIN out = 1 .. Len(out) /\ \A i \in DOMAIN out : out[i] \in S
  <2> HIDE DEF S
  <2>1. out \in [1 .. Len(out) -> S] /\ Len(out) \in Nat
    BY <1>1, LenProperties
  <2> QED BY <2>1
<1>3. ASSUME NEW i \in DOMAIN out
      PROVE  out[i].line \in Int /\ out[i].begin \in Int /\ out[i].end \in Int
  <2>1. out[i] \in S
    BY <1>2
  <2> QED BY <2>1, Lines
<1> QED BY <1>2, <1>3

(* A marker inside a block stands in a header, behind its colon.             *)
LEMMA Interior ==
  ASSUME TypeOK, NEW q \in DOMAIN content, NEW e \in DOMAIN content, Body(content, q, e),
         NEW i \in q + 1 .. e - 1
  PROVE  /\ i \in DOMAIN content
         /\ content[i].base64 \/ content[i].colon
         /\ content[i].begin # None \/ content[i].end # None => content[i].place = "inline"
<1>1. i \in DOMAIN content
  BY Lines
<1>2. content[i].base64 \/ content[i].colon
  <2>1. content[i].base64 \/ \A j \in q + 1 .. i : content[j].colon
    BY DEF Body
  <2>2. i \in q + 1 .. i
    BY Lines
  <2> QED BY <2>1, <2>2
<1> QED BY <1>1, <1>2, FilesAssumption DEF TypeOK

(* Two strict blocks that begin on one line are one block. *)
LEMMA OneEnd ==
  ASSUME TypeOK, NEW p \in Nat, NEW r \in Nat, NEW q \in DOMAIN content, NEW e \in DOMAIN content,
         NEW f \in DOMAIN content, IsBlock(content, p, q, e), IsBlock(content, r, q, f)
  PROVE  e = f
<1>1. /\ content[e].end # None /\ content[f].end # None
      /\ content[e].place = "column0" /\ content[f].place = "column0"
      /\ q < e /\ q < f /\ Body(content, q, e) /\ Body(content, q, f)
  BY TypesAssumption DEF IsBlock, Types
<1>2. ~(e \in q + 1 .. f - 1)
  BY <1>1, Interior
<1>3. ~(f \in q + 1 .. e - 1)
  BY <1>1, Interior
<1>4. ~(e < f) /\ ~(f < e)
  BY <1>1, <1>2, <1>3, Lines
<1> QED BY <1>4, Lines

(* A strict block at or after base is at or after the next marker, and       *)
(* pem.Decode sees it from there.                                            *)
LEMMA StrictSeen ==
  ASSUME TypeOK, NEW m \in DOMAIN content, MarkerAt(m), NEW q \in DOMAIN content, NEW e \in DOMAIN content,
         IsBlock(content, 0, q, e), base <= q
  PROVE  m <= q /\ IsBlock(content, m, q, e)
<1>1. content[q].begin # None
  BY TypesAssumption DEF IsBlock
<1>2. m <= q
  <2>1. m \in Int /\ q \in Int /\ base \in Int
    BY Lines DEF TypeOK
  <2>2. ~(q \in base .. m - 1)
    BY <1>1 DEF MarkerAt
  <2> QED BY <2>1, <2>2
<1>3. q # 0
  BY Lines
<1>4. content[q].place = "column0"
  BY <1>3 DEF IsBlock
<1> QED BY <1>2, <1>4 DEF IsBlock

(* A block found from marker m on is appended, and rest goes on behind it.   *)
LEMMA BlockStep ==
  ASSUME IInv, NEW m \in DOMAIN content, MarkerAt(m), NEW q \in DOMAIN content, NEW e \in DOMAIN content,
         m <= q, q < e, base' = After(e), UNCHANGED <<content, done>>,
         out' = out \/ out' = Append(out, Finding(m, q, e))
  PROVE  /\ TypeOK' /\ Behind' /\ AllSeen'
         /\ \A x, y : Covers(x, y) => Covers(x, y)'
         /\ out' # out => Covers(q, e)'
<1> DEFINE f == Finding(m, q, e)
           S == [line : 1 .. Len(content), begin : 1 .. Len(content), end : 1 .. Len(content)]
<1>1. TypeOK /\ Behind /\ ~done
  BY DEF IInv, MarkerAt
<1>2. /\ Len(content) \in Nat /\ DOMAIN content = 1 .. Len(content) /\ base \in 1 .. Len(content) + 1
      /\ base <= m /\ base' = e + 1
  BY <1>1, Lines DEF MarkerAt, After
<1>3. f \in S /\ f.line = m /\ f.begin = q /\ f.end = e
  BY <1>2 DEF Finding
<1>4. out \in Seq(S)
  BY <1>1 DEF TypeOK
<1>5. /\ Len(out) \in Nat /\ DOMAIN out = 1 .. Len(out)
      /\ \A i \in DOMAIN out : out[i].line \in Int /\ out[i].begin \in Int /\ out[i].end \in Int
  BY <1>1, OutLen
<1>6. CASE out' = out
  <2>1. TypeOK' /\ AllSeen'
    BY <1>1, <1>2, <1>6 DEF TypeOK, AllSeen
  <2>2. Behind'
    BY <1>1, <1>2, <1>5, <1>6 DEF Behind
  <2> QED BY <1>6, <2>1, <2>2 DEF Covers
<1>7. CASE out' = Append(out, f)
  <2> HIDE DEF f, S
  <2>1. /\ out' \in Seq(S) /\ Len(out') = Len(out) + 1 /\ DOMAIN out' = 1 .. Len(out) + 1
        /\ \A i \in 1 .. Len(out) : out'[i] = out[i]
        /\ out'[Len(out) + 1] = f
    <3>1. /\ out' \in Seq(S) /\ Len(out') = Len(out) + 1
          /\ \A i \in 1 .. Len(out) : out'[i] = out[i]
          /\ out'[Len(out) + 1] = f
      BY <1>3, <1>4, <1>7, AppendProperties
    <3>2. DOMAIN out' = 1 .. Len(out')
      BY <3>1, LenProperties
    <3> QED BY <3>1, <3>2
  <2>2. TypeOK' /\ AllSeen'
    BY <1>1, <1>2, <2>1 DEF TypeOK, AllSeen, S
  <2>3. Behind'
    <3>1. ASSUME NEW i \in DOMAIN out'
          PROVE  out'[i].line <= out'[i].begin /\ out'[i].begin < out'[i].end /\ out'[i].end < base'
      <4>1. CASE i = Len(out) + 1
        BY <1>2, <1>3, <2>1, <4>1
      <4>2. CASE i \in 1 .. Len(out)
        BY <1>1, <1>2, <1>5, <2>1, <4>2 DEF Behind
      <4> QED BY <1>5, <2>1, <4>1, <4>2
    <3>2. ASSUME NEW i \in DOMAIN out', NEW j \in DOMAIN out', i < j PROVE out'[i].end < out'[j].line
      <4>1. i \in 1 .. Len(out)
        BY <1>5, <2>1, <3>2
      <4>2. CASE j = Len(out) + 1
        BY <1>1, <1>2, <1>3, <1>5, <2>1, <4>1, <4>2 DEF Behind
      <4>3. CASE j \in 1 .. Len(out)
        BY <1>1, <1>5, <2>1, <3>2, <4>1, <4>3 DEF Behind
      <4> QED BY <1>5, <2>1, <4>2, <4>3
    <3> QED BY <3>1, <3>2 DEF Behind
  <2>4. \A x, y : Covers(x, y) => Covers(x, y)'
    BY <1>5, <2>1 DEF Covers
  <2>5. Covers(q, e)'
    BY <1>3, <1>5, <2>1 DEF Covers
  <2> QED BY <2>2, <2>3, <2>4, <2>5
<1> QED BY <1>6, <1>7

LEMMA InitInv == Init => IInv
<1> SUFFICES ASSUME Init PROVE IInv
  OBVIOUS
<1>1. content \in Seq(Line) /\ Len(content) \in Nat
  BY FilesAssumption, LenProperties DEF Init
<1>2. TypeOK
  <2>1. out \in Seq([line : 1 .. Len(content), begin : 1 .. Len(content), end : 1 .. Len(content)])
    BY EmptySeq DEF Init
  <2>2. content \in Files /\ done \in BOOLEAN
    BY DEF Init
  <2>3. base \in 1 .. Len(content) + 1
    <3>1. base = 1
      BY DEF Init
    <3> QED BY <1>1, <3>1
  <2> QED BY <2>1, <2>2, <2>3 DEF TypeOK
<1>3. Behind /\ AllSeen
  BY DEF Init, Behind, AllSeen
<1>4. StrictSoFar
  BY <1>1, <1>2, Lines DEF Init, StrictSoFar
<1> QED BY <1>2, <1>3, <1>4 DEF IInv

(* No strict block stands between the old and the new base except the one    *)
(* that is reported: a later one is not first, an earlier one overlaps.      *)
LEMMA StrictInv ==
  ASSUME IInv, NEW m \in DOMAIN content, NEW q \in DOMAIN content, NEW e \in DOMAIN content, Strict(m, q, e)
  PROVE  IInv'
<1>1. TypeOK /\ StrictSoFar /\ MarkerAt(m) /\ Decodes(content, m, q, e) /\ IsBlock(content, m, q, e)
  BY DEF IInv, Strict, Decodes
<1>2. m <= q /\ q < e /\ base' = After(e) /\ UNCHANGED <<content, done>>
  BY <1>1 DEF IsBlock, Strict
<1>3. /\ content[q].begin \in Reported => out' = Append(out, Finding(m, q, e))
      /\ content[q].begin \notin Reported => out' = out
  BY DEF Strict
<1>4. /\ TypeOK' /\ Behind' /\ AllSeen'
      /\ \A x, y : Covers(x, y) => Covers(x, y)'
      /\ out' # out => Covers(q, e)'
  BY <1>1, <1>2, <1>3, BlockStep
<1>5. ASSUME NEW x \in DOMAIN content, NEW y \in DOMAIN content, IsBlock(content, 0, x, y),
             content[x].begin \in Reported, x < base'
      PROVE  Covers(x, y)'
  <2>1. CASE x < base
    BY <1>1, <1>4, <1>5, <2>1 DEF StrictSoFar
  <2>2. CASE base <= x
    <3>1. IsBlock(content, m, x, y)
      BY <1>1, <1>5, <2>2, StrictSeen
    <3>2. q <= x /\ x <= e
      BY <1>1, <1>2, <1>5, <3>1, Lines DEF Decodes, After
    <3>3. content[x].begin # None /\ content[e].begin = None
      BY <1>1, <1>5, TypesAssumption DEF IsBlock, Types
    <3>4. ~(x \in q + 1 .. e - 1)
      <4>1. content[x].place = "column0"
        <5>1. x # 0
          BY <1>1, Lines
        <5> QED BY <1>5, <5>1 DEF IsBlock
      <4>2. Body(content, q, e)
        BY <1>1 DEF IsBlock
      <4> QED BY <1>1, <3>3, <4>1, <4>2, Interior
    <3>5. x = q
      BY <1>1, <3>2, <3>3, <3>4, Lines
    <3>6. y = e
      BY <1>1, <3>1, <3>5, OneEnd, Lines
    <3>7. out' # out
      <4>1. out \in Seq([line : 1 .. Len(content), begin : 1 .. Len(content), end : 1 .. Len(content)])
        BY <1>1 DEF TypeOK
      <4>2. Finding(m, q, e) \in [line : 1 .. Len(content), begin : 1 .. Len(content), end : 1 .. Len(content)]
        BY <1>1, Lines DEF Finding
      <4>3. Len(Append(out, Finding(m, q, e))) = Len(out) + 1 /\ Len(out) \in Nat
        BY <4>1, <4>2, AppendProperties, LenProperties
      <4> QED BY <1>3, <1>5, <3>5, <4>3
    <3> QED BY <1>4, <3>5, <3>6, <3>7
  <2> QED BY <1>1, <2>1, <2>2, Lines
<1>6. StrictSoFar'
  BY <1>2, <1>5 DEF StrictSoFar, IsBlock
<1> QED BY <1>4, <1>6 DEF IInv

(* From a marker at which pem.Decode finds nothing there is no strict block. *)
LEMMA NothingStrict ==
  ASSUME IInv, NEW m \in DOMAIN content, MarkerAt(m), ~Decodable(content, m),
         NEW q \in DOMAIN content, NEW e \in DOMAIN content, IsBlock(content, 0, q, e)
  PROVE  q < base
<1>1. TypeOK
  BY DEF IInv
<1>2. ~(base <= q)
  BY <1>1, StrictSeen DEF Decodable
<1> QED BY <1>1, <1>2, Lines

LEMMA IndentedInv ==
  ASSUME IInv, NEW m \in DOMAIN content, NEW q \in DOMAIN content, NEW e \in DOMAIN content, Indented(m, q, e)
  PROVE  IInv'
<1>1. MarkerAt(m) /\ ~Decodable(content, m) /\ StrictSoFar
  BY DEF IInv, Indented
<1>2. m <= q /\ q < e
  BY DEF Indented, DecodesIndented, Decodes, IsBlock
<1>3. base' = After(e) /\ UNCHANGED <<content, done>> /\ out' = Append(out, Finding(m, q, e))
  BY DEF Indented
<1>4. TypeOK' /\ Behind' /\ AllSeen' /\ \A x, y : Covers(x, y) => Covers(x, y)'
  BY <1>1, <1>2, <1>3, BlockStep
<1>5. StrictSoFar'
  BY <1>1, <1>3, <1>4, NothingStrict DEF StrictSoFar
<1> QED BY <1>4, <1>5 DEF IInv

LEMMA StrayInv == ASSUME IInv, NEW m \in DOMAIN content, Stray(m) PROVE IInv'
<1>1. MarkerAt(m) /\ ~Decodable(content, m) /\ TypeOK /\ Behind /\ StrictSoFar
  BY DEF IInv, Stray
<1>2. base' = m + 1 /\ base <= m /\ UNCHANGED <<content, out, done>> /\ ~done
  BY <1>1 DEF Stray, Step, MarkerAt
<1>3. TypeOK' /\ AllSeen'
  BY <1>1, <1>2, Lines DEF TypeOK, AllSeen
<1>4. Behind'
  BY <1>1, <1>2, Lines, OutLen DEF Behind
<1>5. StrictSoFar'
  BY <1>1, <1>2, NothingStrict DEF StrictSoFar, Covers
<1> QED BY <1>3, <1>4, <1>5 DEF IInv

LEMMA NextInv == IInv /\ [Next]_vars => IInv'
<1> SUFFICES ASSUME IInv, [Next]_vars PROVE IInv'
  OBVIOUS
<1>1. CASE NoMarker
  BY <1>1 DEF NoMarker, IInv, TypeOK, Behind, StrictSoFar, AllSeen, Covers
<1>2. CASE UNCHANGED vars
  BY <1>2 DEF IInv, TypeOK, Behind, StrictSoFar, AllSeen, Covers, vars
<1> QED BY <1>1, <1>2, StrictInv, IndentedInv, StrayInv DEF Next, Scan, Returned

THEOREM Invariance == Spec => []IInv
<1>1. IInv /\ [Next]_vars => IInv'
  BY NextInv
<1> QED BY InitInv, <1>1, PTL DEF Spec

THEOREM TypeCorrect == Spec => []TypeOK
<1>1. IInv => TypeOK
  BY DEF IInv
<1> QED BY Invariance, <1>1, PTL

(* The findings of a file have increasing lines: the assumption Sweep makes  *)
(* of Parse, and what the order of a report rests on.                        *)
THEOREM DistinctLines == Spec => []LinesIncreasing
<1>1. IInv => LinesIncreasing
  <2> SUFFICES ASSUME IInv, NEW i \in DOMAIN out, NEW j \in DOMAIN out, i < j
               PROVE  out[i].line < out[j].line
    BY DEF LinesIncreasing
  <2> QED BY OutLen DEF IInv, Behind
<1> QED BY Invariance, <1>1, PTL

(* No block is reported twice. *)
THEOREM NoDoubleReport == Spec => []BlocksDisjoint
<1>1. IInv => BlocksDisjoint
  <2> SUFFICES ASSUME IInv, NEW i \in DOMAIN out, NEW j \in DOMAIN out, i < j
               PROVE  out[i].end < out[j].begin
    BY DEF BlocksDisjoint
  <2> QED BY OutLen DEF IInv, Behind
<1> QED BY Invariance, <1>1, PTL

(* In no file does a stray marker or a damaged block hide a strict block.    *)
THEOREM NoStrictBlockLost == Spec => []StrictComplete
<1>1. IInv => StrictComplete
  <2> SUFFICES ASSUME IInv, done, NEW q \in DOMAIN content, NEW e \in DOMAIN content,
                      IsBlock(content, 0, q, e), content[q].begin \in Reported
               PROVE  Covers(q, e)
    BY DEF StrictComplete
  <2>1. content[q].begin # None
    BY TypesAssumption DEF Types
  <2>2. q < base
    BY <2>1, Lines DEF IInv, AllSeen
  <2> QED BY <2>2 DEF IInv, StrictSoFar
<1> QED BY Invariance, <1>1, PTL

-----------------------------------------------------------------------------
(* Indented blocks: every one that begins before base and that pem.Decode,   *)
(* given the file from there on, would not pass for a strict one below.      *)
Retried(q, e) == Pasted(q, e) /\ ~Decodable(content, q)
PastedSoFar ==
  \A q, e \in DOMAIN content : Retried(q, e) /\ q < base => Covers(q, e)
PastedInv == IInv /\ PastedSoFar

(* A pasted block is read off its lines: no END before its own.              *)
LEMMA PastedLines ==
  ASSUME TypeOK, NEW q \in DOMAIN content, NEW e \in DOMAIN content, Pasted(q, e)
  PROVE  /\ q \in Nat /\ e \in Nat /\ q < e
         /\ content[q].begin \in Types /\ content[q].begin # None /\ content[q].end = None
         /\ content[e].end = content[q].begin /\ content[e].end # None /\ content[e].begin = None
         /\ ~content[q].behind /\ Body(content, q, e)
         /\ \A i \in q + 1 .. e - 1 :
              i \in DOMAIN content /\ content[i].end = None /\ ~content[i].behind
<1>1. \A i \in DOMAIN content :
        /\ content[i].begin # None /\ content[i].end # None => content[i].place = "inline"
        /\ content[i].behind => content[i].begin = Bad
  BY FilesAssumption DEF TypeOK
<1>2. q \in Nat /\ e \in Nat /\ q < e /\ \A i \in q + 1 .. e - 1 : i \in DOMAIN content
  BY Lines DEF Pasted
<1>3. content[q].begin \in Types /\ content[q].begin # None /\ content[q].begin # Bad
  BY TypesAssumption DEF Pasted, Types
<1> QED BY <1>1, <1>2, <1>3 DEF Pasted

(* Removing the blanks brings the markers of a line to column 0, and changes *)
(* nothing else.                                                            *)
LEMMA Trimmed ==
  ASSUME NEW l \in Line
  PROVE  /\ TrimLeft(l).begin = l.begin /\ TrimLeft(l).end = l.end /\ TrimLeft(l).base64 = l.base64
         /\ TrimLeft(l).colon = l.colon
         /\ l.place # "inline" => TrimLeft(l).place = "column0"
BY DEF TrimLeft, Line, Places

(* So the dedented copy of its lines holds a pasted block for pem.Decode,    *)
(* from any marker above it.                                                *)
LEMMA PastedDecodes ==
  ASSUME TypeOK, NEW m \in DOMAIN content, NEW q \in DOMAIN content, NEW e \in DOMAIN content,
         Pasted(q, e), m <= q
  PROVE  IsBlock([i \in 1 .. e |-> TrimLeft(content[i])], m, q, e)
<1> DEFINE d == [i \in 1 .. e |-> TrimLeft(content[i])]
<1>1. e \in Nat /\ q \in Nat /\ q < e /\ q \in 1 .. e /\ e \in 1 .. e
  BY PastedLines, Lines
<1>2. DOMAIN d = 1 .. e /\ \A i \in 1 .. e : d[i] = TrimLeft(content[i]) /\ content[i] \in Line
  <2>1. content \in Seq(Line)
    BY FilesAssumption DEF TypeOK
  <2>2. \A i \in 1 .. e : i \in DOMAIN content
    BY <1>1, Lines
  <2>3. \A i \in 1 .. e : content[i] \in Line
    BY <2>1, <2>2, LenProperties, Lines
  <2> QED BY <2>3
<1> HIDE DEF d
<1>3. d[q].begin \in Types /\ d[q].place = "column0"
  BY <1>1, <1>2, PastedLines, Trimmed DEF Pasted
<1>4. d[e].end = d[q].begin /\ d[e].begin = None /\ d[e].place = "column0"
  BY <1>1, <1>2, PastedLines, Trimmed DEF Pasted
<1>5. Body(d, q, e)
  <2>1. \A i \in 1 .. e : d[i].base64 = content[i].base64 /\ d[i].colon = content[i].colon
    BY <1>2, Trimmed
  <2>2. Body(content, q, e)
    BY PastedLines
  <2>3. ASSUME NEW i \in q + 1 .. e - 1, ~d[i].base64, NEW j \in q + 1 .. i
        PROVE  d[j].colon
    <3>1. i \in 1 .. e /\ j \in 1 .. e
      BY <1>1
    <3>2. ~content[i].base64
      BY <2>1, <2>3, <3>1
    <3>3. content[j].colon
      BY <2>2, <3>2 DEF Body
    <3> QED BY <2>1, <3>1, <3>3
  <2>4. ASSUME q + 1 < e PROVE d[e - 1].base64
    <3>1. e - 1 \in 1 .. e
      BY <1>1, <2>4
    <3>2. content[e - 1].base64
      BY <2>2, <2>4 DEF Body
    <3> QED BY <2>1, <3>1, <3>2
  <2> QED BY <2>3, <2>4 DEF Body
<1>6. IsBlock(d, m, q, e)
  BY <1>1, <1>2, <1>3, <1>4, <1>5 DEF IsBlock
<1> QED BY <1>6 DEF d

(* A strict block that pem.Decode finds leaves none behind: it would have    *)
(* been found from the pasted one too.                                      *)
LEMMA StrictPasted ==
  ASSUME PastedInv, NEW m \in DOMAIN content, NEW q \in DOMAIN content, NEW e \in DOMAIN content,
         Strict(m, q, e)
  PROVE  PastedSoFar'
<1>1. /\ TypeOK /\ MarkerAt(m) /\ IsBlock(content, m, q, e) /\ base' = e + 1 /\ content' = content
  BY DEF PastedInv, IInv, Strict, Decodes, After
<1>2. \A x, y : Covers(x, y) => Covers(x, y)'
  <2>1. out' = out \/ out' = Append(out, Finding(m, q, e))
    BY DEF Strict
  <2>2. m <= q /\ q < e /\ base' = After(e) /\ UNCHANGED <<content, done>>
    BY <1>1 DEF IsBlock, Strict
  <2> QED BY <1>1, <2>1, <2>2, BlockStep DEF PastedInv
<1>3. ASSUME NEW x \in DOMAIN content, NEW y \in DOMAIN content, Retried(x, y), x < e + 1
      PROVE  x < base
  <2> SUFFICES ASSUME base <= x PROVE FALSE
    BY <1>1, Lines
  <2>1. content[x].begin # None /\ x \in Nat
    BY <1>1, <1>3, PastedLines DEF Retried
  <2>2. m \in Nat /\ q \in Nat /\ e \in Nat /\ base \in Nat
    BY <1>1, Lines
  <2>3. m <= x
    <3>1. ~(x \in base .. m - 1)
      BY <1>1, <2>1 DEF MarkerAt
    <3> QED BY <2>1, <2>2, <3>1
  <2>4. CASE x <= q
    <3>1. q = x \/ content[q].place = "column0"
      BY <1>1, <2>1, <2>2, <2>3, <2>4 DEF IsBlock
    <3>2. IsBlock(content, x, q, e)
      BY <1>1, <2>4, <3>1 DEF IsBlock
    <3> QED BY <1>3, <3>2 DEF Retried, Decodable
  <2>5. CASE ~(x <= q)
    <3>1. x = e \/ x \in q + 1 .. e - 1
      BY <1>3, <2>1, <2>2, <2>5
    <3>2. content[e].begin = None /\ Body(content, q, e)
      BY <1>1 DEF IsBlock
    <3>3. content[x].place # "inline"
      BY <1>3 DEF Retried, Pasted
    <3>4. ~(x \in q + 1 .. e - 1)
      BY <1>1, <2>1, <3>2, <3>3, Interior
    <3> QED BY <2>1, <3>1, <3>2, <3>4
  <2> QED BY <2>4, <2>5
<1>4. ASSUME NEW x \in DOMAIN content, NEW y \in DOMAIN content, Retried(x, y), x < e + 1
      PROVE  Covers(x, y)'
  BY <1>2, <1>3, <1>4 DEF PastedInv, PastedSoFar
<1> QED BY <1>1, <1>4 DEF PastedSoFar, Retried, Pasted

(* The retry takes the first pasted block there is up to the first END.      *)
LEMMA IndentedPasted ==
  ASSUME PastedInv, NEW m \in DOMAIN content, NEW q \in DOMAIN content, NEW e \in DOMAIN content,
         Indented(m, q, e)
  PROVE  PastedSoFar'
<1> DEFINE d == [i \in 1 .. e |-> TrimLeft(content[i])]
<1>1. /\ TypeOK /\ MarkerAt(m) /\ FirstEnd(content, m, e) /\ Decodes(d, m, q, e)
      /\ base' = e + 1 /\ content' = content
  BY DEF PastedInv, IInv, Indented, DecodesIndented, After
<1>2. (\A x, y : Covers(x, y) => Covers(x, y)') /\ Covers(q, e)'
  <2>1. out' = Append(out, Finding(m, q, e))
    BY DEF Indented
  <2>2. m <= q /\ q < e /\ base' = After(e) /\ UNCHANGED <<content, done>>
    BY <1>1 DEF Decodes, IsBlock, Indented
  <2>3. out' # out
    <3>1. out \in Seq([line : 1 .. Len(content), begin : 1 .. Len(content), end : 1 .. Len(content)])
      BY <1>1 DEF TypeOK
    <3>2. Finding(m, q, e) \in
            [line : 1 .. Len(content), begin : 1 .. Len(content), end : 1 .. Len(content)]
      BY <1>1, Lines DEF Finding
    <3>3. Len(out') = Len(out) + 1 /\ Len(out) \in Nat
      BY <2>1, <3>1, <3>2, AppendProperties, LenProperties
    <3> QED BY <3>3
  <2> QED BY <1>1, <2>1, <2>2, <2>3, BlockStep DEF PastedInv
<1>3. ASSUME NEW x \in DOMAIN content, NEW y \in DOMAIN content, Retried(x, y), x < e + 1, base <= x
      PROVE  x = q /\ y = e
  <2>1. /\ x \in Nat /\ y \in Nat /\ x < y /\ content[x].begin # None /\ content[x].end = None
        /\ content[y].end # None /\ ~content[x].behind
        /\ \A i \in x + 1 .. y - 1 : content[i].end = None /\ ~content[i].behind
    BY <1>1, <1>3, PastedLines DEF Retried
  <2>2. m \in Nat /\ q \in Nat /\ e \in Nat /\ base \in Nat
    BY <1>1, Lines
  <2>3. m <= x
    <3>1. ~(x \in base .. m - 1)
      BY <1>1, <2>1 DEF MarkerAt
    <3> QED BY <1>3, <2>1, <2>2, <3>1
  <2>4. /\ m < e
        /\ content[e].end # None \/ content[e].behind
        /\ \A i \in m + 1 .. e - 1 : content[i].end = None
    <3>1. m < e
      <4>1. m <= q /\ q < e
        BY <1>1 DEF Decodes, IsBlock
      <4> QED BY <2>2, <4>1
    <3> QED BY <1>1, <2>2, <3>1 DEF FirstEnd, EndsAt
  <2>5. y = e
    <3>1. ~(e \in x + 1 .. y - 1) /\ ~(y \in m + 1 .. e - 1) /\ x # e
      BY <2>1, <2>4
    <3> QED BY <1>3, <2>1, <2>2, <2>3, <3>1
  <2>6. IsBlock(d, m, x, e)
    BY <1>1, <1>3, <2>3, <2>5, PastedDecodes DEF Retried
  <2>7. q <= x
    <3>1. x \in DOMAIN d /\ e \in DOMAIN d
      BY <2>6 DEF IsBlock
    <3> QED BY <1>1, <2>6, <3>1 DEF Decodes
  <2>8. ~(x \in q + 1 .. e - 1)
    <3> SUFFICES ASSUME x \in q + 1 .. e - 1 PROVE FALSE
      OBVIOUS
    <3>1. x \in 1 .. e
      BY <1>1, <2>1, <2>2, Lines
    <3>2. d[x] = TrimLeft(content[x])
      BY <3>1
    <3> HIDE DEF d
    <3>3. d[x].base64 \/ d[x].colon
      <4>1. d[x].base64 \/ \A j \in q + 1 .. x : d[j].colon
        BY <1>1 DEF Decodes, IsBlock, Body
      <4>2. x \in q + 1 .. x
        BY <2>1, <2>2
      <4> QED BY <4>1, <4>2
    <3>4. content[x] \in Line
      <4>1. content \in Seq(Line)
        BY <1>1, FilesAssumption DEF TypeOK
      <4> QED BY <1>1, <4>1, LenProperties, Lines
    <3>5. content[x].base64 \/ content[x].colon
      BY <3>2, <3>3, <3>4, Trimmed
    <3>6. content[x].begin = None \/ content[x].place = "inline"
      BY <1>1, <3>5, FilesAssumption DEF TypeOK
    <3> QED BY <1>3, <2>1, <3>6 DEF Retried, Pasted
  <2> QED BY <2>1, <2>2, <2>5, <2>7, <2>8
<1> HIDE DEF d
<1>4. ASSUME NEW x \in DOMAIN content, NEW y \in DOMAIN content, Retried(x, y), x < e + 1
      PROVE  Covers(x, y)'
  <2>1. CASE base <= x
    BY <1>2, <1>3, <1>4, <2>1
  <2>2. CASE ~(base <= x)
    <3>1. x < base
      BY <1>1, <2>2, Lines
    <3> QED BY <1>2, <1>4, <3>1 DEF PastedInv, PastedSoFar
  <2> QED BY <2>1, <2>2
<1> QED BY <1>1, <1>4 DEF PastedSoFar, Retried, Pasted

(* No pasted block is taken for a stray marker. *)
LEMMA StrayPasted ==
  ASSUME PastedInv, NEW m \in DOMAIN content, Stray(m)
  PROVE  PastedSoFar'
<1>1. /\ TypeOK /\ MarkerAt(m) /\ base' = m + 1 /\ UNCHANGED <<content, out>>
      /\ ~ \E q, e \in DOMAIN content : DecodesIndented(content, m, q, e)
  BY DEF PastedInv, IInv, Stray, Step
<1>2. ASSUME NEW y \in DOMAIN content, Retried(m, y) PROVE FALSE
  <2> DEFINE d == [i \in 1 .. y |-> TrimLeft(content[i])]
  <2>1. m \in Nat /\ y \in Nat /\ m < y
    BY <1>1, <1>2, PastedLines DEF Retried
  <2>2. FirstEnd(content, m, y)
    BY <1>1, <1>2, <2>1, PastedLines DEF Retried, FirstEnd, EndsAt
  <2>3. IsBlock(d, m, m, y)
    BY <1>1, <1>2, <2>1, PastedDecodes DEF Retried
  <2>4. Decodes(d, m, m, y)
    <3> HIDE DEF d
    <3> QED BY <2>3 DEF Decodes, IsBlock
  <2>5. DecodesIndented(content, m, m, y)
    BY <1>2, <2>2, <2>4 DEF DecodesIndented, Retried, Pasted
  <2> QED BY <1>1, <2>5
<1>3. ASSUME NEW x \in DOMAIN content, NEW y \in DOMAIN content, Retried(x, y), x < m + 1
      PROVE  Covers(x, y)
  <2>1. content[x].begin # None /\ x \in Nat /\ m \in Nat /\ base \in Nat
    BY <1>1, <1>3, PastedLines, Lines DEF Retried
  <2>2. CASE x < base
    BY <1>3, <2>2 DEF PastedInv, PastedSoFar
  <2>3. CASE ~(x < base)
    <3>1. ~(x \in base .. m - 1)
      BY <1>1, <2>1 DEF MarkerAt
    <3>2. x = m
      BY <1>3, <2>1, <2>3, <3>1
    <3> QED BY <1>2, <1>3, <3>2
  <2> QED BY <2>2, <2>3
<1> QED BY <1>1, <1>3 DEF PastedSoFar, Retried, Pasted, Covers

LEMMA PastedNext == PastedInv /\ [Next]_vars => PastedInv'
<1> SUFFICES ASSUME PastedInv, [Next]_vars PROVE PastedInv'
  OBVIOUS
<1>1. IInv'
  BY NextInv DEF PastedInv
<1>2. CASE NoMarker \/ UNCHANGED vars
  <2>1. UNCHANGED <<content, base, out>>
    BY <1>2 DEF NoMarker, vars
  <2>2. PastedSoFar'
    BY <2>1 DEF PastedInv, PastedSoFar, Retried, Pasted, Covers
  <2> QED BY <1>1, <2>2 DEF PastedInv
<1> QED BY <1>1, <1>2, StrictPasted, IndentedPasted, StrayPasted
       DEF Next, Scan, Returned, PastedInv

(* An indented block below which there is no strict one is always reported,  *)
(* whatever stands before it, in a file of any length.                      *)
THEOREM NoIndentedBlockLost == Spec => []IndentedComplete
<1>1. Init => PastedInv
  <2> SUFFICES ASSUME Init PROVE PastedInv
    OBVIOUS
  <2>1. IInv /\ base = 1
    BY InitInv DEF Init
  <2> QED BY <2>1, Lines DEF PastedInv, PastedSoFar, IInv
<1>2. PastedInv => IndentedComplete
  <2> SUFFICES ASSUME PastedInv, done, NEW q \in DOMAIN content, NEW e \in DOMAIN content,
                      Pasted(q, e), ~Decodable(content, q)
               PROVE  Covers(q, e)
    BY DEF IndentedComplete
  <2>1. TypeOK /\ AllSeen
    BY DEF PastedInv, IInv
  <2>2. content[q].begin # None
    BY <2>1, PastedLines
  <2>3. q < base
    BY <2>1, <2>2, Lines DEF AllSeen
  <2> QED BY <2>3 DEF PastedInv, PastedSoFar, Retried
<1> QED BY <1>1, <1>2, PastedNext, PTL DEF Spec
=============================================================================
