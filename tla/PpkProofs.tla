------------------------------ MODULE PpkProofs ------------------------------
(***************************************************************************)
(* Proofs about Ppk, for files of every length, every cipher and every blob. *)
(***************************************************************************)
EXTENDS Ppk, SequenceTheorems, TLAPS

(* The file is one of Files, and its first line is no field but the header.  *)
Opened == file \in Files /\ (pc = "header" => read = 0 /\ left = 0)

(* A cipher that is reported stands in the file.                            *)
CipherStands ==
  found.protection = "encrypted" => \E n \in CipherLines : file[n].text = found.cipher

(* A line above every count, among those that were read.                    *)
Above(n) == \A m \in CountLines : n < m
Kept ==
  pc \in {"fields", "blob", "returned"} =>
    \A n \in CipherLines \cap Public : n <= read /\ Above(n) => found.protection = "encrypted"

(* The inner loop runs below a count, and the parse ends only when no line   *)
(* above the counts is left.                                                *)
BelowCount == pc = "blob" => \E m \in DOMAIN file : m <= read /\ file[m].field = "Public-Lines"
AllRead == pc = "returned" => \A n \in Public : Above(n) => n <= read

IInv == TypeOK /\ Opened /\ CipherStands /\ Kept /\ BelowCount /\ AllRead

LEMMA Lines ==
  ASSUME TypeOK
  PROVE  /\ Len(file) \in Nat /\ DOMAIN file = 1 .. Len(file) /\ read \in Nat /\ read <= Len(file)
         /\ \A n \in DOMAIN file : file[n] \in Line
BY LenProperties DEF TypeOK

(* What is public is closed upwards. *)
LEMMA PublicAbove ==
  ASSUME TypeOK, NEW n \in Public, NEW m \in DOMAIN file, m < n
  PROVE  m \in Public
<1>1. n \in DOMAIN file /\ \A e \in Ends : n < e
  BY DEF Public
<1>2. ASSUME NEW e \in Ends PROVE m < e
  <2>1. e \in DOMAIN file
    BY DEF Ends
  <2> QED BY <1>1, <2>1, Lines
<1> QED BY <1>2 DEF Public

(* A line that ends the public lines stands below all of them. *)
LEMMA BelowPublic ==
  ASSUME TypeOK, NEW e \in Ends
  PROVE  e \in DOMAIN file /\ \A n \in Public : n < e
BY DEF Ends, Public

(* The next line, when Scan returns one. *)
LEMMA NextLine ==
  ASSUME TypeOK, More
  PROVE  read + 1 \in DOMAIN file /\ Line1 \in Line /\ read + 1 \in 0 .. Len(file)
BY Lines DEF More, Line1

(* The file does not change, and neither does what is said of it. *)
LEMMA FileStays ==
  ASSUME file' = file
  PROVE  /\ Public' = Public /\ CipherLines' = CipherLines /\ CountLines' = CountLines
         /\ \A n \in DOMAIN file : Above(n)' <=> Above(n)
BY DEF Public, Ends, CipherLines, CountLines, Above

LEMMA InitInv == Init => IInv
<1> SUFFICES ASSUME Init PROVE IInv
  OBVIOUS
<1>1. file \in Seq(Line) /\ Len(file) \in Nat
  BY PpkAssumption, LenProperties DEF Init
<1>2. NoFinding \in Finding
  BY DEF NoFinding, Finding
<1>3. TypeOK
  <2>1. blob \in Seq(STRING)
    BY EmptySeq DEF Init
  <2> QED BY <1>1, <1>2, <2>1 DEF Init, TypeOK
<1>4. Opened /\ CipherStands /\ Kept /\ BelowCount /\ AllRead
  BY DEF Init, NoFinding, Opened, CipherStands, Kept, BelowCount, AllRead
<1> QED BY <1>3, <1>4 DEF IInv

LEMMA HeaderInv == ASSUME IInv, Header PROVE IInv'
<1>1. TypeOK /\ file \in Files /\ read = 0
  BY DEF IInv, Opened, Header
<1>2. More /\ read' = 1 /\ UNCHANGED <<file, left, blob>> /\ pc' \in {"error", "fields"}
  <2>1. More /\ UNCHANGED <<file, left, blob>> /\ read' = read + 1
    BY DEF Header
  <2>2. read' = 1
    BY <1>1, <2>1
  <2>3. pc' \in {"error", "fields"}
    <3>1. CASE Line1.text = BadHeader
      BY <3>1 DEF Header
    <3>2. CASE Line1.text # BadHeader
      BY <3>2, Zenon DEF Header
    <3> QED BY <3>1, <3>2
  <2> QED BY <2>1, <2>2, <2>3
<1>3. file[1].field = "Header" /\ Line1 = file[1]
  <2>1. read + 1 = 1
    BY <1>1
  <2>2. Line1 = file[1] /\ file[1].field # "overlong"
    BY <1>2, <2>1 DEF More, Line1
  <2> QED BY <1>1, <2>2, PpkAssumption
<1>4. /\ found' \in Finding
      /\ pc' = "fields" => found'.protection = "plaintext"
      /\ pc' = "error" => found' = found
  <2>1. CASE Line1.text = BadHeader
    BY <1>1, <2>1 DEF Header, TypeOK
  <2>2. CASE Line1.text # BadHeader
    <3>1. Line1.text \in Algorithms
      BY <1>1, <1>3, <2>2, PpkAssumption
    <3>2. /\ pc' = "fields"
          /\ found' = [algorithm |-> Line1.text, protection |-> "plaintext", cipher |-> ""]
      BY <2>2 DEF Header
    <3> QED BY <3>1, <3>2 DEF Finding
  <2> QED BY <2>1, <2>2
<1>5. TypeOK'
  <2>1. read' \in 0 .. Len(file)
    BY <1>1, <1>2, NextLine
  <2> QED BY <1>1, <1>2, <1>4, <2>1 DEF TypeOK
<1>6. \A n \in CipherLines : ~(n <= read')
  BY <1>1, <1>2, <1>3, Lines DEF CipherLines
<1>7. Kept'
  BY <1>2, <1>6, FileStays DEF Kept
<1>8. CipherStands'
  BY <1>2, <1>4, FileStays DEF IInv, CipherStands
<1>9. Opened' /\ BelowCount' /\ AllRead'
  BY <1>1, <1>2 DEF Opened, BelowCount, AllRead
<1> QED BY <1>5, <1>7, <1>8, <1>9 DEF IInv

LEMMA EncryptionInv == ASSUME IInv, Encryption PROVE IInv'
<1>1. /\ TypeOK /\ More /\ pc = "fields" /\ pc' = pc /\ file' = file /\ read' = read + 1
      /\ Line1.field = "Encryption"
  BY DEF IInv, Encryption, Field
<1>2. read + 1 \in DOMAIN file /\ read' \in 0 .. Len(file)
  BY <1>1, NextLine
<1>3. CASE Line1.text \in Ciphers
  <2>1. found' = [found EXCEPT !.protection = "encrypted", !.cipher = Line1.text]
    BY <1>3 DEF Encryption, Protect
  <2>2. found' \in Finding /\ found'.protection = "encrypted" /\ found'.cipher = Line1.text
    BY <1>1, <1>3, <2>1 DEF TypeOK, Finding
  <2>3. read + 1 \in CipherLines
    BY <1>1, <1>2, <1>3 DEF CipherLines, Line1
  <2>4. CipherStands'
    BY <1>1, <2>2, <2>3, FileStays DEF CipherStands, Line1
  <2>5. TypeOK'
    BY <1>1, <1>2, <2>2 DEF TypeOK, Encryption
  <2> QED BY <1>1, <2>2, <2>4, <2>5 DEF IInv, Opened, Kept, BelowCount, AllRead
<1>4. CASE Line1.text \notin Ciphers
  <2>1. found' = found
    BY <1>4 DEF Encryption, Protect
  <2>2. TypeOK'
    BY <1>1, <1>2, <2>1 DEF TypeOK, Encryption
  <2>3. read + 1 \notin CipherLines
    BY <1>1, <1>4 DEF CipherLines, Line1
  <2>4. Kept'
    <3> SUFFICES ASSUME NEW n \in CipherLines \cap Public, n <= read', Above(n)
                 PROVE  found.protection = "encrypted"
      BY <1>1, <2>1, FileStays DEF Kept, CipherLines
    <3>1. n <= read
      BY <1>1, <2>3, Lines DEF CipherLines
    <3> QED BY <1>1, <3>1 DEF IInv, Kept
  <2> QED BY <1>1, <2>1, <2>2, <2>4, FileStays DEF IInv, Opened, CipherStands, BelowCount, AllRead
<1> QED BY <1>3, <1>4

LEMMA PublicLinesInv == ASSUME IInv, PublicLines PROVE IInv'
<1>1. /\ TypeOK /\ More /\ pc = "fields" /\ UNCHANGED <<file, found>> /\ read' = read + 1
      /\ Line1.field = "Public-Lines" /\ blob' = <<>>
  BY DEF IInv, PublicLines, Field
<1>2. read + 1 \in DOMAIN file /\ read' \in 0 .. Len(file) /\ Line1.count \in Int
  BY <1>1, NextLine DEF Line
<1>3. left' \in Nat /\ pc' \in {"blob", "returned"}
  <2>1. CASE Plausible(Line1.count)
    BY <1>2, <2>1 DEF PublicLines, Plausible
  <2>2. CASE ~Plausible(Line1.count)
    BY <1>1, <2>2 DEF PublicLines, TypeOK
  <2> QED BY <2>1, <2>2
<1>4. TypeOK'
  <2>1. blob' \in Seq(STRING)
    BY <1>1, EmptySeq
  <2> QED BY <1>1, <1>2, <1>3, <2>1 DEF TypeOK
<1>5. Kept'
  <2> SUFFICES ASSUME NEW n \in CipherLines \cap Public, n <= read', Above(n)
               PROVE  found.protection = "encrypted"
    BY <1>1, FileStays DEF Kept, CipherLines
  <2>1. n <= read
    BY <1>1, Lines DEF CipherLines, Line1
  <2> QED BY <1>1, <2>1 DEF IInv, Kept
<1>6. BelowCount'
  BY <1>1, <1>2 DEF BelowCount, Line1
<1>7. AllRead'
  <2> SUFFICES ASSUME NEW n \in Public, Above(n)
               PROVE  n <= read + 1
    BY <1>1, FileStays DEF AllRead, Public
  <2> SUFFICES ASSUME read + 1 < n PROVE FALSE
    BY <1>1, Lines DEF Public
  <2>1. read + 1 \in CountLines
    BY <1>1, <1>2, PublicAbove DEF CountLines, Line1
  <2> QED BY <1>1, <2>1, Lines DEF Above, Public
<1>8. Opened' /\ CipherStands'
  BY <1>1, <1>3, FileStays DEF IInv, Opened, CipherStands
<1> QED BY <1>4, <1>5, <1>6, <1>7, <1>8 DEF IInv

LEMMA BlobLineInv == ASSUME IInv, BlobLine PROVE IInv'
<1>1. /\ TypeOK /\ BelowCount /\ More /\ pc = "blob" /\ UNCHANGED <<file, pc, found>>
      /\ read' = read + 1 /\ left > 0 /\ left' = left - 1 /\ blob' = Append(blob, Line1.text)
  BY DEF IInv, BlobLine
<1>2. read + 1 \in DOMAIN file /\ read' \in 0 .. Len(file) /\ Line1.text \in STRING
  BY <1>1, NextLine DEF Line
<1>3. TypeOK'
  <2>1. blob' \in Seq(STRING)
    BY <1>1, <1>2, AppendProperties DEF TypeOK
  <2>2. left' \in Nat
    BY <1>1 DEF TypeOK
  <2> QED BY <1>1, <1>2, <2>1, <2>2 DEF TypeOK
<1>4. Kept'
  <2> SUFFICES ASSUME NEW n \in CipherLines \cap Public, n <= read', Above(n)
               PROVE  found.protection = "encrypted"
    BY <1>1, FileStays DEF Kept, CipherLines
  <2>1. n <= read
    <3> SUFFICES ASSUME n = read + 1 PROVE FALSE
      BY <1>1, Lines DEF CipherLines
    <3>1. PICK m \in DOMAIN file : m <= read /\ file[m].field = "Public-Lines"
      BY <1>1 DEF BelowCount
    <3>2. m \in CountLines
      BY <1>1, <3>1, PublicAbove, Lines DEF CountLines
    <3> QED BY <3>1, <3>2, <1>1, Lines DEF Above
  <2> QED BY <1>1, <2>1 DEF IInv, Kept
<1>5. Opened' /\ CipherStands' /\ BelowCount' /\ AllRead'
  BY <1>1, FileStays, Lines DEF IInv, Opened, CipherStands, BelowCount, AllRead
<1> QED BY <1>3, <1>4, <1>5 DEF IInv

LEMMA BlobEndInv == ASSUME IInv, BlobEnd PROVE IInv'
<1>1. TypeOK /\ pc = "blob" /\ pc' = "fields" /\ UNCHANGED <<file, read, left, blob>>
  BY DEF IInv, BlobEnd
<1>2. found' \in Finding /\ found'.protection = found.protection /\ found'.cipher = found.cipher
  <2>1. CASE blob \in DOMAIN Blob
    BY <1>1, <2>1, PpkAssumption DEF BlobEnd, TypeOK, Finding
  <2>2. CASE blob \notin DOMAIN Blob
    BY <1>1, <2>2 DEF BlobEnd, TypeOK
  <2> QED BY <2>1, <2>2
<1>3. TypeOK'
  BY <1>1, <1>2 DEF TypeOK
<1>4. CipherStands' /\ Kept'
  BY <1>1, <1>2, FileStays DEF IInv, CipherStands, Kept, CipherLines
<1>5. Opened' /\ BelowCount' /\ AllRead'
  BY <1>1 DEF IInv, Opened, BelowCount, AllRead
<1> QED BY <1>3, <1>4, <1>5 DEF IInv

(* Private-Lines and the end: the lines above were read. *)
LEMMA EndInv == ASSUME IInv, PrivateLines \/ NoMore PROVE IInv'
<1>1. TypeOK /\ pc = "fields" /\ pc' = "returned" /\ UNCHANGED <<file, left, blob, found>>
  BY DEF IInv, PrivateLines, NoMore, Field, Stops
<1>2. /\ read' \in 0 .. Len(file) /\ read <= read'
      /\ \A n \in Public : n <= read
      /\ \A n \in CipherLines : n <= read' => n <= read
  <2>1. CASE PrivateLines
    <3>1. More /\ read' = read + 1 /\ Line1.field = "Private-Lines"
      BY <2>1 DEF PrivateLines, Field
    <3>2. read + 1 \in DOMAIN file
      BY <1>1, <3>1, NextLine
    <3>3. read + 1 \in Ends
      BY <3>1, <3>2 DEF Ends, Line1
    <3>4. \A n \in Public : n <= read
      <4> SUFFICES ASSUME NEW n \in Public PROVE n <= read
        OBVIOUS
      <4>1. n < read + 1 /\ n \in DOMAIN file
        BY <1>1, <3>3, BelowPublic DEF Public
      <4> QED BY <1>1, <4>1, Lines
    <3> QED BY <1>1, <3>1, <3>2, <3>4, NextLine, Lines DEF CipherLines, Line1
  <2>2. CASE NoMore
    <3>1. ~More /\ read' = read
      BY <2>2 DEF NoMore
    <3>2. ASSUME NEW n \in Public PROVE n <= read
      <4> SUFFICES ASSUME read < n PROVE FALSE
        BY <1>1, Lines DEF Public
      <4>1. read < Len(file) /\ read + 1 \in DOMAIN file
        BY <1>1, Lines DEF Public
      <4>2. read + 1 \in Ends
        BY <3>1, <4>1 DEF More, Ends
      <4>3. n < read + 1
        BY <1>1, <4>2, BelowPublic
      <4> QED BY <1>1, <4>3, Lines DEF Public
    <3> QED BY <1>1, <3>1, <3>2, Lines
  <2> QED BY <2>1, <2>2
<1>3. TypeOK'
  BY <1>1, <1>2 DEF TypeOK
<1>4. Kept'
  BY <1>1, <1>2, FileStays DEF IInv, Kept, CipherLines
<1>5. AllRead'
  BY <1>1, <1>2, FileStays, Lines DEF AllRead, Public
<1>6. Opened' /\ CipherStands' /\ BelowCount'
  BY <1>1, FileStays DEF IInv, Opened, CipherStands, BelowCount
<1> QED BY <1>3, <1>4, <1>5, <1>6 DEF IInv

LEMMA OtherLineInv == ASSUME IInv, OtherLine PROVE IInv'
<1>1. /\ TypeOK /\ More /\ pc = "fields" /\ UNCHANGED <<file, pc, left, blob, found>>
      /\ read' = read + 1 /\ Line1.field \in {"Header", "text"}
  BY DEF IInv, OtherLine, Field
<1>2. TypeOK'
  BY <1>1, NextLine DEF TypeOK
<1>3. Kept'
  <2> SUFFICES ASSUME NEW n \in CipherLines \cap Public, n <= read', Above(n)
               PROVE  found.protection = "encrypted"
    BY <1>1, FileStays DEF Kept, CipherLines
  <2>1. n <= read
    BY <1>1, Lines DEF CipherLines, Line1
  <2> QED BY <1>1, <2>1 DEF IInv, Kept
<1>4. Opened' /\ CipherStands' /\ BelowCount' /\ AllRead'
  BY <1>1, FileStays DEF IInv, Opened, CipherStands, BelowCount, AllRead
<1> QED BY <1>2, <1>3, <1>4 DEF IInv

(* The line that Scan returns after all stands below the public ones.        *)
LEMMA LongLineInv == ASSUME IInv, LongLine PROVE IInv'
<1>1. /\ TypeOK /\ ~More /\ read < Len(file) /\ pc = "fields" /\ pc' = "returned"
      /\ UNCHANGED <<file, left, blob>> /\ read' = read + 1 /\ found' = Protect(found, Line1.text)
  BY DEF IInv, LongLine, Again
<1>2. /\ read + 1 \in DOMAIN file /\ read' \in 0 .. Len(file) /\ Line1 = file[read + 1]
      /\ Line1.field = "overlong"
  BY <1>1, Lines DEF More, Line1
<1>3. \A n \in Public : n <= read
  <2> SUFFICES ASSUME NEW n \in Public PROVE n <= read
    OBVIOUS
  <2>1. read + 1 \in Ends
    BY <1>2 DEF Ends
  <2>2. n < read + 1 /\ n \in DOMAIN file
    BY <1>1, <2>1, BelowPublic DEF Public
  <2> QED BY <1>1, <2>2, Lines
<1>4. AllRead'
  BY <1>1, <1>3, FileStays, Lines DEF AllRead, Public
<1>5. CASE Line1.text \in Ciphers
  <2>1. found' = [found EXCEPT !.protection = "encrypted", !.cipher = Line1.text]
    BY <1>1, <1>5 DEF Protect
  <2>2. found' \in Finding /\ found'.protection = "encrypted" /\ found'.cipher = Line1.text
    BY <1>1, <1>5, <2>1 DEF TypeOK, Finding
  <2>3. read + 1 \in CipherLines
    BY <1>2, <1>5 DEF CipherLines
  <2>4. CipherStands'
    BY <1>1, <1>2, <2>2, <2>3, FileStays DEF CipherStands
  <2>5. TypeOK'
    BY <1>1, <1>2, <2>2 DEF TypeOK
  <2> QED BY <1>1, <1>4, <2>2, <2>4, <2>5 DEF IInv, Opened, Kept, BelowCount
<1>6. CASE Line1.text \notin Ciphers
  <2>1. found' = found
    BY <1>1, <1>6 DEF Protect
  <2>2. TypeOK'
    BY <1>1, <1>2, <2>1 DEF TypeOK
  <2>3. Kept'
    <3> SUFFICES ASSUME NEW n \in CipherLines \cap Public, n <= read', Above(n)
                 PROVE  found.protection = "encrypted"
      BY <1>1, <2>1, FileStays DEF Kept, CipherLines
    <3>1. n <= read
      BY <1>3
    <3> QED BY <1>1, <3>1 DEF IInv, Kept
  <2> QED BY <1>1, <1>4, <2>1, <2>2, <2>3, FileStays DEF IInv, Opened, CipherStands, BelowCount
<1> QED BY <1>5, <1>6

LEMMA NextInv == IInv /\ [Next]_vars => IInv'
<1> SUFFICES ASSUME IInv, [Next]_vars PROVE IInv'
  OBVIOUS
<1>1. CASE NoHeader
  <2>1. pc' = "error" /\ UNCHANGED <<file, read, left, blob, found>>
    BY <1>1 DEF NoHeader
  <2> QED BY <2>1, FileStays DEF IInv, TypeOK, Opened, CipherStands, Kept, BelowCount, AllRead
<1>2. CASE UNCHANGED vars
  BY <1>2, FileStays DEF vars, IInv, TypeOK, Opened, CipherStands, Kept, BelowCount, AllRead,
                         CipherLines, Public
<1>3. CASE LongLine
  BY <1>3, LongLineInv
<1> QED BY <1>1, <1>2, <1>3, HeaderInv, EncryptionInv, PublicLinesInv, BlobLineInv, BlobEndInv, EndInv,
           OtherLineInv DEF Next, Returned

THEOREM Invariance == Spec => []IInv
<1> QED BY InitInv, NextInv, PTL DEF Spec

(* Every variable keeps to its type, in a file of any length. *)
THEOREM TypeCorrect == Spec => []TypeOK
<1>1. IInv => TypeOK
  BY DEF IInv
<1> QED BY Invariance, <1>1, PTL

(* An Encryption header above the counts is never lost, in any file, and no  *)
(* protection is made up.                                                   *)
THEOREM ProtectionIsSound == Spec => []ProtectionSound
<1>1. IInv => ProtectionSound
  <2> SUFFICES ASSUME IInv, pc = "returned" PROVE ProtectionSound
    BY DEF ProtectionSound
  <2>1. ASSUME NEW n \in CipherLines \cap Public, \A m \in CountLines : n < m
        PROVE  found.protection = "encrypted"
    <3>1. Above(n) /\ n <= read
      BY <2>1 DEF IInv, AllRead, Above
    <3> QED BY <3>1 DEF IInv, Kept
  <2> QED BY <2>1 DEF ProtectionSound, IInv, CipherStands
<1> QED BY Invariance, <1>1, PTL

-----------------------------------------------------------------------------
(* Honest files: the finding says at every line what the public lines read   *)
(* so far say.                                                              *)
PublicCiphers == CipherLines \cap Public
CiphersSay(f, r) ==
  \/ /\ \A n \in PublicCiphers : n > r
     /\ f.cipher = "" /\ f.protection = "plaintext"
  \/ \E n \in PublicCiphers :
       /\ n <= r /\ \A m \in PublicCiphers : m <= r => m <= n
       /\ f.cipher = file[n].text /\ f.protection = "encrypted"
BlobsSay(f, r) ==
  \/ (\A n \in Decodable : n > r) /\ f.algorithm = file[1].text
  \/ \E n \in Decodable :
       /\ n <= r /\ \A m \in Decodable : m <= r => m <= n
       /\ f.algorithm = Blob[BlobAt(n)]

(* The inner loop reads the lines counted at n. *)
InBlob(n) ==
  /\ n <= read /\ left + (read - n) = file[n].count
  /\ Len(blob) = read - n /\ \A m \in 1 .. read - n : blob[m] = file[n + m].text
  /\ BlobsSay(found, n - 1)

AllPublic == \A n \in 1 .. read : n \in Public
SoFar ==
  /\ pc = "fields" => left = 0 /\ AllPublic /\ CiphersSay(found, read) /\ BlobsSay(found, read)
  /\ pc = "blob" => AllPublic /\ CiphersSay(found, read) /\ \E n \in CountLines : InBlob(n)
  /\ pc = "returned" =>
       CiphersSay(found, read) /\ BlobsSay(found, read) /\ \A n \in Public : n <= read
HonestInv == IInv /\ (Honest => SoFar)

(* Sets of lines, and what a line further on leaves as it was. *)
LEMMA LineSets ==
  ASSUME TypeOK
  PROVE  /\ \A n \in Public : n \in DOMAIN file /\ n \in Nat
         /\ \A n \in PublicCiphers : n \in Public /\ n \in DOMAIN file /\ n \in Nat
         /\ \A n \in CountLines : n \in Public /\ n \in DOMAIN file /\ n \in Nat
                                  /\ file[n].field = "Public-Lines"
         /\ \A n \in Decodable : n \in CountLines
         /\ read \in Nat
BY Lines DEF Public, PublicCiphers, CountLines, Decodable

LEMMA CiphersNext ==
  ASSUME TypeOK, NEW f, read + 1 \notin PublicCiphers, CiphersSay(f, read)
  PROVE  CiphersSay(f, read + 1)
<1>1. \A n \in PublicCiphers : n <= read + 1 <=> n <= read
  BY LineSets
<1>2. \A n \in PublicCiphers : n > read + 1 <=> n > read
  BY LineSets
<1> QED BY <1>1, <1>2 DEF CiphersSay

LEMMA BlobsFurther ==
  ASSUME TypeOK, NEW f, NEW q \in Int, NEW r \in Nat, q <= r,
         \A n \in q + 1 .. r : n \notin Decodable, BlobsSay(f, q)
  PROVE  BlobsSay(f, r)
<1>1. \A n \in Decodable : n <= r <=> n <= q
  BY LineSets
<1>2. \A n \in Decodable : n > r <=> n > q
  BY LineSets
<1> QED BY <1>1, <1>2 DEF BlobsSay

(* The line that Scan returns next is public unless it ends the public lines. *)
LEMMA NextPublic ==
  ASSUME TypeOK, AllPublic, More, read + 1 \notin Ends
  PROVE  /\ read + 1 \in Public /\ read + 1 \in DOMAIN file /\ file[read + 1] = Line1
         /\ \A n \in 1 .. read + 1 : n \in Public
<1>1. read + 1 \in DOMAIN file /\ file[read + 1] = Line1
  BY NextLine DEF Line1
<1>2. ASSUME NEW e \in Ends
      PROVE  read + 1 < e
  <2>1. e # read + 1 /\ e \in DOMAIN file
    BY BelowPublic
  <2>2. ~(e \in 1 .. read)
    <3> SUFFICES ASSUME e \in 1 .. read PROVE FALSE
      OBVIOUS
    <3>1. e \in Public
      BY DEF AllPublic
    <3>2. e < e
      BY <3>1, BelowPublic
    <3> QED BY <2>1, <3>2, Lines
  <2> QED BY <2>1, <2>2, Lines
<1>3. read + 1 \in Public
  BY <1>1, <1>2 DEF Public
<1>4. ASSUME NEW n \in 1 .. read + 1 PROVE n \in Public
  <2>1. n = read + 1 \/ n \in 1 .. read
    BY Lines
  <2> QED BY <1>3, <2>1 DEF AllPublic
<1> QED BY <1>1, <1>3, <1>4

(* A line that is no field Ends is about. *)
LEMMA NoEnd ==
  ASSUME TypeOK, More, Line1.field \notin {"Private-Lines", "Public-Lines"}
  PROVE  read + 1 \notin Ends
BY DEF Ends, More, Line1

(* What is said of the file does not change. *)
LEMMA FileStaysHonest ==
  ASSUME file' = file
  PROVE  /\ (Honest' <=> Honest) /\ Decodable' = Decodable /\ PublicCiphers' = PublicCiphers
         /\ Public' = Public /\ CountLines' = CountLines
         /\ \A n : BlobAt(n)' = BlobAt(n)
BY DEF Public, Ends, CipherLines, CountLines, PublicCiphers, BlobAt, Decodable, Honest

LEMMA SaysNext ==
  ASSUME file' = file
  PROVE  /\ CiphersSay(found, read)' <=> CiphersSay(found', read')
         /\ BlobsSay(found, read)' <=> BlobsSay(found', read')
         /\ \A n : BlobsSay(found, n - 1)' <=> BlobsSay(found', n - 1)
BY FileStaysHonest DEF CiphersSay, BlobsSay

(* A finding about which nothing said of its cipher, or its blobs, changes.  *)
LEMMA SameSays ==
  ASSUME NEW f, NEW g, NEW r
  PROVE  /\ f.cipher = g.cipher /\ f.protection = g.protection
              => (CiphersSay(f, r) <=> CiphersSay(g, r))
         /\ f.algorithm = g.algorithm => (BlobsSay(f, r) <=> BlobsSay(g, r))
BY DEF CiphersSay, BlobsSay

LEMMA HonestHeader == ASSUME IInv, Honest, Header PROVE SoFar'
<1>1. /\ TypeOK /\ file \in Files /\ read = 0 /\ More /\ read' = 1 /\ file' = file /\ left' = 0
  <2>1. TypeOK /\ file \in Files /\ read = 0 /\ left = 0
    BY DEF IInv, Opened, Header
  <2>2. More /\ read' = read + 1 /\ file' = file /\ left' = left
    BY DEF Header
  <2> QED BY <2>1, <2>2
<1>2. CASE Line1.text = BadHeader
  <2>1. pc' = "error"
    BY <1>2 DEF Header
  <2> QED BY <2>1 DEF SoFar
<1>3. CASE Line1.text # BadHeader
  <2>1. /\ pc' = "fields"
        /\ found' = [algorithm |-> Line1.text, protection |-> "plaintext", cipher |-> ""]
    BY <1>3 DEF Header
  <2>2. file[1].field = "Header" /\ Line1 = file[1] /\ 1 \in DOMAIN file
    <3>1. read + 1 = 1
      BY <1>1
    <3>2. Line1 = file[1] /\ file[1].field # "overlong" /\ 1 \in DOMAIN file
      BY <1>1, <3>1, NextLine DEF More, Line1
    <3> QED BY <1>1, <3>2, PpkAssumption
  <2>3. 1 \in Public
    <3>1. \A e \in DOMAIN file : e # 1 => 1 < e
      BY <1>1, Lines
    <3>2. 1 \notin Ends
      BY <2>2 DEF Ends
    <3>3. \A e \in Ends : e \in DOMAIN file /\ e # 1
      BY <3>2 DEF Ends
    <3> QED BY <2>2, <3>1, <3>3 DEF Public
  <2>4. AllPublic'
    BY <1>1, <2>3, FileStaysHonest DEF AllPublic
  <2>5. \A n \in PublicCiphers : n > 1
    <3> SUFFICES ASSUME NEW n \in PublicCiphers PROVE n > 1
      OBVIOUS
    <3>1. file[n].field \in {"Encryption", "overlong"} /\ n \in DOMAIN file
      BY DEF PublicCiphers, CipherLines
    <3>2. n # 1
      BY <2>2, <3>1
    <3> QED BY <1>1, <3>1, <3>2, Lines
  <2>6. \A n \in Decodable : n > 1
    <3> SUFFICES ASSUME NEW n \in Decodable PROVE n > 1
      OBVIOUS
    <3>1. n \in Nat /\ n \in DOMAIN file /\ file[n].field = "Public-Lines"
      BY <1>1, LineSets
    <3>2. n # 1
      BY <2>2, <3>1
    <3> QED BY <1>1, <3>1, <3>2, Lines
  <2>7. CiphersSay(found', 1) /\ BlobsSay(found', 1)
    BY <2>1, <2>2, <2>5, <2>6 DEF CiphersSay, BlobsSay
  <2> QED BY <1>1, <2>1, <2>4, <2>7, SaysNext DEF SoFar
<1> QED BY <1>2, <1>3

LEMMA HonestEncryption == ASSUME IInv, Honest, SoFar, Encryption PROVE SoFar'
<1>1. /\ TypeOK /\ More /\ pc = "fields" /\ pc' = pc /\ file' = file /\ read' = read + 1
      /\ Line1.field = "Encryption" /\ found' = Protect(found, Line1.text)
      /\ AllPublic /\ CiphersSay(found, read) /\ BlobsSay(found, read) /\ left' = 0
  BY DEF IInv, Encryption, Field, SoFar
<1>2. /\ read + 1 \in Public /\ read + 1 \in DOMAIN file /\ file[read + 1] = Line1
      /\ \A n \in 1 .. read + 1 : n \in Public
  BY <1>1, NoEnd, NextPublic
<1>3. AllPublic'
  BY <1>1, <1>2, FileStaysHonest DEF AllPublic
<1>4. read + 1 \notin Decodable /\ read \in Nat
  BY <1>1, <1>2, LineSets
<1>5. BlobsSay(found, read + 1)
  <2>1. \A n \in read + 1 .. read + 1 : n = read + 1
    BY <1>4
  <2> QED BY <1>1, <1>4, <2>1, BlobsFurther
<1>6. CASE Line1.text \in Ciphers
  <2>1. found' = [found EXCEPT !.protection = "encrypted", !.cipher = Line1.text]
    BY <1>1, <1>6 DEF Protect
  <2>2. found'.protection = "encrypted" /\ found'.cipher = Line1.text
        /\ found'.algorithm = found.algorithm
    BY <1>1, <2>1 DEF TypeOK, Finding
  <2>3. read + 1 \in PublicCiphers
    BY <1>1, <1>2, <1>6 DEF PublicCiphers, CipherLines
  <2>4. CiphersSay(found', read + 1)
    BY <1>2, <1>4, <2>2, <2>3 DEF CiphersSay
  <2>5. BlobsSay(found', read + 1)
    BY <1>5, <2>2, SameSays
  <2> QED BY <1>1, <1>3, <2>4, <2>5, SaysNext DEF SoFar
<1>7. CASE Line1.text \notin Ciphers
  <2>1. found' = found
    BY <1>1, <1>7 DEF Protect
  <2>2. read + 1 \notin PublicCiphers
    BY <1>2, <1>7 DEF PublicCiphers, CipherLines
  <2>3. CiphersSay(found, read + 1)
    BY <1>1, <2>2, CiphersNext
  <2> QED BY <1>1, <1>3, <1>5, <2>1, <2>3, SaysNext DEF SoFar
<1> QED BY <1>6, <1>7

(* The counts the code takes for real are those in range. *)
LEMMA CountInRange ==
  ASSUME NEW c \in Int
  PROVE  (Plausible(c) <=> c \in 1 .. MaxCount) /\ (c \in 1 .. MaxCount => c \in Nat)
<1>1. MaxCount \in Nat
  BY PpkAssumption
<1> QED BY <1>1 DEF Plausible

LEMMA HonestPublicLines == ASSUME IInv, Honest, SoFar, PublicLines PROVE SoFar'
<1>1. /\ TypeOK /\ More /\ pc = "fields" /\ UNCHANGED <<file, found>> /\ read' = read + 1
      /\ Line1.field = "Public-Lines" /\ blob' = <<>>
      /\ AllPublic /\ CiphersSay(found, read) /\ BlobsSay(found, read)
  BY DEF IInv, PublicLines, Field, SoFar
<1>2. /\ read + 1 \in DOMAIN file /\ file[read + 1] = Line1 /\ Line1.count \in Int
      /\ read \in Nat
  BY <1>1, NextLine, LineSets DEF Line1, Line
<1>3. read + 1 \notin PublicCiphers
  BY <1>1, <1>2 DEF PublicCiphers, CipherLines
<1>4. CiphersSay(found, read + 1)
  BY <1>1, <1>3, CiphersNext
<1>5. CASE ~Plausible(Line1.count)
  <2>1. pc' = "returned"
    BY <1>5 DEF PublicLines
  <2>2. read + 1 \in Ends
    <3>1. Line1.count \notin 1 .. MaxCount
      BY <1>2, <1>5, CountInRange
    <3> QED BY <1>1, <1>2, <3>1 DEF Ends
  <2>3. \A n \in Public : n < read + 1 /\ n \in Nat
    BY <1>1, <2>2, BelowPublic, LineSets
  <2>4. read + 1 \notin Decodable
    BY <1>1, <1>2, <2>3, LineSets
  <2>5. BlobsSay(found, read + 1)
    <3>1. \A n \in read + 1 .. read + 1 : n = read + 1
      BY <1>2
    <3> QED BY <1>1, <1>2, <2>4, <3>1, BlobsFurther
  <2>6. \A n \in Public : n <= read + 1
    BY <1>2, <2>3
  <2> QED BY <1>1, <1>4, <2>1, <2>5, <2>6, SaysNext, FileStaysHonest DEF SoFar
<1>6. CASE Plausible(Line1.count)
  <2>1. pc' = "blob" /\ left' = Line1.count
    BY <1>6 DEF PublicLines
  <2>2. read + 1 \notin Ends
    <3>1. Line1.count \in 1 .. MaxCount
      BY <1>2, <1>6, CountInRange
    <3> QED BY <1>1, <1>2, <3>1 DEF Ends
  <2>3. read + 1 \in Public /\ \A n \in 1 .. read + 1 : n \in Public
    BY <1>1, <2>2, NextPublic
  <2>4. AllPublic'
    BY <1>1, <2>3, FileStaysHonest DEF AllPublic
  <2>5. PICK c \in CountLines : c = read + 1
    BY <1>1, <1>2, <2>3 DEF CountLines
  <2>6. c \in Nat /\ read' = c /\ c - 1 = read /\ file[c] = Line1
    BY <1>1, <1>2, <2>5
  <2>7. InBlob(c)'
    <3>1. c <= read' /\ left' + (read' - c) = file'[c].count /\ read' - c = 0
      BY <1>1, <1>2, <2>1, <2>6
    <3>2. Len(blob') = 0 /\ 1 .. 0 = {}
      BY <1>1, EmptySeq
    <3>3. BlobsSay(found, c - 1)'
      BY <1>1, <2>6, SaysNext
    <3> QED BY <3>1, <3>2, <3>3 DEF InBlob
  <2>8. \E n \in CountLines' : InBlob(n)'
    BY <1>1, <2>5, <2>7, FileStaysHonest
  <2>9. CiphersSay(found, read)'
    BY <1>1, <1>4, SaysNext
  <2> QED BY <2>1, <2>4, <2>8, <2>9 DEF SoFar
<1> QED BY <1>5, <1>6

(* Where the inner loop stands in an honest file. *)
LEMMA BlobFacts ==
  ASSUME TypeOK, Honest, NEW n \in CountLines, InBlob(n)
  PROVE  /\ n \in Nat /\ read \in Nat /\ left \in Nat /\ file[n].count \in Nat
         /\ n <= read /\ read <= n + file[n].count /\ left = n + file[n].count - read
         /\ \A m \in n + 1 .. n + file[n].count :
              m \in Public /\ m \in DOMAIN file /\ file[m].field = "text"
<1>1. n \in Nat /\ n \in DOMAIN file /\ file[n] \in Line /\ read \in Nat /\ left \in Nat
  BY LineSets, Lines DEF TypeOK
<1>2. \A m \in n + 1 .. n + file[n].count : m \in Public /\ file[m].field = "text"
  BY DEF Honest
<1>3. file[n].count \in Nat
  <2>1. n \notin Ends
    <3> SUFFICES ASSUME n \in Ends PROVE FALSE
      OBVIOUS
    <3>1. n \in Public
      BY LineSets
    <3>2. n < n
      BY <3>1, BelowPublic
    <3> QED BY <1>1, <3>2
  <2>2. file[n].field = "Public-Lines"
    BY LineSets
  <2>3. file[n].count \in 1 .. MaxCount
    BY <1>1, <2>1, <2>2 DEF Ends
  <2> QED BY <2>3, CountInRange
<1>4. \A m \in n + 1 .. n + file[n].count : m \in DOMAIN file
  BY <1>2, LineSets
<1> QED BY <1>1, <1>2, <1>3, <1>4 DEF InBlob

LEMMA HonestBlobLine == ASSUME IInv, Honest, SoFar, BlobLine PROVE SoFar'
<1>1. /\ TypeOK /\ pc = "blob" /\ pc' = pc /\ left > 0 /\ More /\ read' = read + 1
      /\ left' = left - 1 /\ blob' = Append(blob, Line1.text) /\ UNCHANGED <<file, found>>
      /\ AllPublic /\ CiphersSay(found, read)
  BY DEF IInv, BlobLine, SoFar
<1>2. PICK n \in CountLines : InBlob(n)
  BY <1>1 DEF SoFar
<1>3. /\ n \in Nat /\ read \in Nat /\ left \in Nat /\ file[n].count \in Nat
      /\ n <= read /\ left = n + file[n].count - read
  BY <1>1, <1>2, BlobFacts
<1> DEFINE c == file[n].count
<1> HIDE DEF c
<1>count. c \in Nat /\ left = n + c - read
  BY <1>3 DEF c
<1>4. read + 1 \in n + 1 .. n + file[n].count
  <2>1. read + 1 \in n + 1 .. n + c
    BY <1>1, <1>3, <1>count
  <2> QED BY <2>1 DEF c
<1>5. file[read + 1].field = "text" /\ Line1 = file[read + 1]
  BY <1>1, <1>2, <1>4, BlobFacts DEF Line1
<1>6. \A m \in 1 .. read + 1 : m \in Public
  BY <1>1, <1>5, NoEnd, NextPublic
<1>7. AllPublic'
  BY <1>1, <1>6, FileStaysHonest DEF AllPublic
<1>8. CiphersSay(found, read)'
  <2>1. read + 1 \notin PublicCiphers
    BY <1>5 DEF PublicCiphers, CipherLines
  <2>2. CiphersSay(found, read + 1)
    BY <1>1, <2>1, CiphersNext
  <2> QED BY <1>1, <2>2, SaysNext
<1>9. InBlob(n)'
  <2>1. n <= read' /\ left' + (read' - n) = file'[n].count
    <3>1. n <= read + 1 /\ (left - 1) + ((read + 1) - n) = c
      BY <1>3, <1>count
    <3> QED BY <1>1, <3>1 DEF c
  <2>2. /\ blob \in Seq(STRING) /\ Line1.text \in STRING /\ Len(blob) = read - n
        /\ \A m \in 1 .. read - n : blob[m] = file[n + m].text
    BY <1>1, <1>2, NextLine DEF TypeOK, Line, InBlob
  <2>3. /\ Len(blob') = read - n + 1 /\ blob'[read - n + 1] = Line1.text
        /\ \A m \in 1 .. read - n : blob'[m] = blob[m]
    BY <1>1, <2>2, AppendProperties
  <2>4. Len(blob') = read' - n
    BY <1>1, <1>3, <2>3
  <2>5. ASSUME NEW m \in 1 .. read' - n PROVE blob'[m] = file'[n + m].text
    <3>1. CASE m = read - n + 1
      <4>1. n + m = read + 1
        BY <1>3, <3>1
      <4> QED BY <1>1, <1>5, <2>3, <3>1, <4>1
    <3>2. CASE m # read - n + 1
      <4>1. m \in 1 .. read - n
        BY <1>1, <1>3, <3>2
      <4> QED BY <1>1, <2>2, <2>3, <4>1
    <3> QED BY <3>1, <3>2
  <2>6. BlobsSay(found, n - 1)'
    BY <1>1, <1>2, SaysNext DEF InBlob
  <2> QED BY <2>1, <2>4, <2>5, <2>6 DEF InBlob
<1>10. \E m \in CountLines' : InBlob(m)'
  BY <1>1, <1>2, <1>9, FileStaysHonest
<1> QED BY <1>1, <1>7, <1>8, <1>10 DEF SoFar

LEMMA HonestBlobEnd == ASSUME IInv, Honest, SoFar, BlobEnd PROVE SoFar'
<1>1. /\ TypeOK /\ pc = "blob" /\ pc' = "fields" /\ (left <= 0 \/ ~More)
      /\ found' = IF blob \in DOMAIN Blob THEN [found EXCEPT !.algorithm = Blob[blob]] ELSE found
      /\ UNCHANGED <<file, read, left, blob>> /\ AllPublic /\ CiphersSay(found, read)
  BY DEF IInv, BlobEnd, SoFar
<1>2. PICK n \in CountLines : InBlob(n)
  BY <1>1 DEF SoFar
<1>3. /\ n \in Nat /\ read \in Nat /\ left \in Nat /\ file[n].count \in Nat
      /\ n <= read /\ left = n + file[n].count - read
      /\ \A m \in n + 1 .. n + file[n].count : m \in DOMAIN file /\ file[m].field = "text"
  BY <1>1, <1>2, BlobFacts
(* Scan does not end inside an honest blob. *)
<1>4. read = n + file[n].count
  <2> SUFFICES ASSUME read # n + file[n].count PROVE FALSE
    OBVIOUS
  <2> DEFINE c == file[n].count
  <2> HIDE DEF c
  <2>count. c \in Nat /\ left = n + c - read /\ read # n + c
    BY <1>3 DEF c
  <2>1. left > 0 /\ read + 1 \in n + 1 .. n + file[n].count
    <3>1. left > 0 /\ read + 1 \in n + 1 .. n + c
      BY <1>3, <2>count
    <3> QED BY <3>1 DEF c
  <2>2. read + 1 \in DOMAIN file /\ file[read + 1].field = "text"
    BY <1>3, <2>1
  <2>3. More
    BY <1>1, <1>3, <2>2, Lines DEF More
  <2> QED BY <1>1, <1>3, <2>1, <2>3
<1>left. left = 0
  <2> DEFINE c == file[n].count
  <2> HIDE DEF c
  <2>1. c \in Nat /\ left = n + c - read /\ read = n + c
    BY <1>3, <1>4 DEF c
  <2> QED BY <1>3, <2>1
<1>5. blob = BlobAt(n)
  <2>1. /\ blob \in Seq(STRING) /\ Len(blob) = file[n].count
        /\ \A m \in 1 .. file[n].count : blob[m] = file[n + m].text
    <3>1. read - n = file[n].count
      BY <1>3, <1>4
    <3> QED BY <1>1, <1>2, <3>1 DEF TypeOK, InBlob
  <2>2. blob = [m \in 1 .. file[n].count |-> blob[m]]
    BY <2>1, LenProperties
  <2> QED BY <2>1, <2>2 DEF BlobAt
<1>6. BlobsSay(found, n - 1)
  BY <1>2 DEF InBlob
<1>7. \A m \in n + 1 .. read : m \notin Decodable
  BY <1>1, <1>3, <1>4, LineSets
<1>8. CASE blob \in DOMAIN Blob
  <2>1. /\ found'.algorithm = Blob[blob] /\ found'.cipher = found.cipher
        /\ found'.protection = found.protection
    BY <1>1, <1>8 DEF TypeOK, Finding
  <2>2. n \in Decodable
    BY <1>5, <1>8 DEF Decodable
  <2>3. \A m \in Decodable : m <= read => m <= n
    BY <1>1, <1>3, <1>7, LineSets
  <2>4. BlobsSay(found', read)
    BY <1>3, <1>5, <2>1, <2>2, <2>3 DEF BlobsSay
  <2>5. CiphersSay(found', read)
    BY <1>1, <2>1, SameSays
  <2> QED BY <1>1, <1>left, <2>4, <2>5, SaysNext, FileStaysHonest DEF SoFar, AllPublic
<1>9. CASE blob \notin DOMAIN Blob
  <2>1. found' = found
    BY <1>1, <1>9
  <2>2. n \notin Decodable
    BY <1>5, <1>9 DEF Decodable
  <2>3. \A m \in (n - 1) + 1 .. read : m \notin Decodable
    <3>1. \A m \in (n - 1) + 1 .. read : m = n \/ m \in n + 1 .. read
      BY <1>3
    <3> QED BY <1>7, <2>2, <3>1
  <2>4. n - 1 \in Int /\ n - 1 <= read
    BY <1>3
  <2>5. BlobsSay(found, read)
    BY <1>1, <1>3, <1>6, <2>3, <2>4, BlobsFurther
  <2> QED BY <1>1, <1>left, <2>1, <2>5, SaysNext, FileStaysHonest DEF SoFar, AllPublic
<1> QED BY <1>8, <1>9

(* A field that says nothing of the cipher or a count. *)
LEMMA HonestOther == ASSUME IInv, Honest, SoFar, OtherLine PROVE SoFar'
<1>1. /\ TypeOK /\ More /\ pc = "fields" /\ UNCHANGED <<file, pc, left, blob, found>>
      /\ read' = read + 1 /\ Line1.field \in {"Header", "text"}
      /\ AllPublic /\ CiphersSay(found, read) /\ BlobsSay(found, read) /\ left = 0
  BY DEF IInv, OtherLine, Field, SoFar
<1>2. /\ file[read + 1] = Line1 /\ \A n \in 1 .. read + 1 : n \in Public
  BY <1>1, NoEnd, NextPublic
<1>3. read + 1 \notin PublicCiphers /\ read + 1 \notin Decodable /\ read \in Nat
  BY <1>1, <1>2, LineSets DEF PublicCiphers, CipherLines
<1>4. CiphersSay(found, read + 1)
  BY <1>1, <1>3, CiphersNext
<1>5. BlobsSay(found, read + 1)
  <2>1. \A n \in read + 1 .. read + 1 : n = read + 1
    BY <1>3
  <2> QED BY <1>1, <1>3, <2>1, BlobsFurther
<1>6. AllPublic'
  BY <1>1, <1>2, FileStaysHonest DEF AllPublic
<1> QED BY <1>1, <1>4, <1>5, <1>6, SaysNext DEF SoFar

(* The parse ends on Private-Lines, or where Scan does: all that is public   *)
(* has been read.                                                           *)
LEMMA HonestEnd == ASSUME IInv, Honest, SoFar, PrivateLines \/ NoMore PROVE SoFar'
<1>1. /\ TypeOK /\ pc = "fields" /\ pc' = "returned" /\ UNCHANGED <<file, found>>
      /\ CiphersSay(found, read) /\ BlobsSay(found, read)
  BY DEF IInv, PrivateLines, Stops, NoMore, Field, SoFar
<1>2. CASE PrivateLines
  <2>1. /\ More /\ Line1.field = "Private-Lines" /\ read' = read + 1
    BY <1>2 DEF PrivateLines, Field
  <2>2. read + 1 \in DOMAIN file /\ file[read + 1] = Line1 /\ read \in Nat
    BY <1>1, <2>1, NextLine, LineSets DEF Line1
  <2>end. read + 1 \in Ends
    BY <2>1, <2>2 DEF Ends
  <2>3. \A n \in Public : n < read + 1
    BY <1>1, <2>end, BelowPublic
  <2>4. read + 1 \notin PublicCiphers /\ read + 1 \notin Decodable
    BY <1>1, <2>1, <2>2, LineSets DEF PublicCiphers, CipherLines
  <2>5. CiphersSay(found, read + 1)
    BY <1>1, <2>4, CiphersNext
  <2>6. BlobsSay(found, read + 1)
    <3>1. \A n \in read + 1 .. read + 1 : n = read + 1
      BY <2>2
    <3> QED BY <1>1, <2>2, <2>4, <3>1, BlobsFurther
  <2>7. \A n \in Public : n <= read + 1
    BY <1>1, <2>2, <2>3, LineSets
  <2> QED BY <1>1, <2>1, <2>5, <2>6, <2>7, SaysNext, FileStaysHonest DEF SoFar
<1>3. CASE NoMore
  <2>1. ~More /\ read' = read
    BY <1>3 DEF NoMore
  <2>2. ASSUME NEW n \in Public PROVE n <= read
    <3>1. CASE read < Len(file)
      <4>1. read + 1 \in Ends
        BY <1>1, <2>1, <3>1, Lines DEF More, Ends
      <4>2. n < read + 1
        BY <1>1, <4>1, BelowPublic
      <4> QED BY <1>1, <4>2, LineSets
    <3>2. CASE ~(read < Len(file))
      BY <1>1, <3>2, LineSets, Lines
    <3> QED BY <3>1, <3>2
  <2> QED BY <1>1, <2>1, <2>2, SaysNext, FileStaysHonest DEF SoFar
<1> QED BY <1>2, <1>3

LEMMA HonestNext == HonestInv /\ [Next]_vars => HonestInv'
<1> SUFFICES ASSUME HonestInv, [Next]_vars PROVE HonestInv'
  OBVIOUS
<1>1. IInv /\ IInv'
  BY NextInv DEF HonestInv
<1>2. ASSUME Honest' PROVE SoFar'
  <2>1. file' = file
    BY DEF Next, vars, Header, NoHeader, Encryption, PublicLines, BlobLine, BlobEnd, PrivateLines,
           OtherLine, LongLine, NoMore, Returned
  <2>2. Honest /\ SoFar
    BY <1>2, <2>1, FileStaysHonest DEF HonestInv
  <2>3. CASE NoHeader
    BY <2>3 DEF NoHeader, SoFar
  <2>5. CASE LongLine
    <3>1. left \in Nat /\ left > 0 /\ pc = "fields"
      BY <1>1, <2>5 DEF LongLine, Again, IInv, TypeOK
    <3>2. left = 0
      BY <2>2, <3>1 DEF SoFar
    <3> QED BY <3>1, <3>2
  <2>4. CASE UNCHANGED vars
    <3>1. UNCHANGED <<file, read, pc, left, blob, found>>
      BY <2>4 DEF vars
    <3>2. \A n \in CountLines : InBlob(n)' <=> InBlob(n)
      BY <3>1, SaysNext DEF InBlob
    <3> QED BY <2>2, <3>1, <3>2, SaysNext, FileStaysHonest DEF SoFar, AllPublic
  <2> QED BY <1>1, <2>2, <2>3, <2>4, <2>5, HonestHeader, HonestEncryption, HonestPublicLines,
             HonestBlobLine, HonestBlobEnd, HonestOther, HonestEnd DEF Next, Returned
<1> QED BY <1>1, <1>2 DEF HonestInv

(* The last line of a set is the one no other is below. *)
LEMMA LastIs ==
  ASSUME NEW S, \A m \in S : m \in Nat, NEW n \in S, \A m \in S : m <= n
  PROVE  LastOf(S) = n
<1>1. LastOf(S) \in S /\ \A m \in S : m <= LastOf(S)
  BY DEF LastOf
<1> QED BY <1>1

(* On a file whose counts are honest or out of range the finding is what its *)
(* public lines say, whatever their order and number, in any file.          *)
THEOREM HonestIsExact == Spec => []HonestExact
<1>1. Init => HonestInv
  BY InitInv DEF Init, HonestInv, SoFar
<1>2. HonestInv => HonestExact
  <2> SUFFICES ASSUME HonestInv, pc = "returned", Honest PROVE HonestExact
    BY DEF HonestExact
  <2>1. /\ TypeOK /\ CiphersSay(found, read) /\ BlobsSay(found, read)
        /\ \A n \in Public : n <= read
    BY DEF HonestInv, IInv, SoFar
  <2>2. /\ found.cipher = IF PublicCiphers = {} THEN "" ELSE file[LastOf(PublicCiphers)].text
        /\ found.protection = IF PublicCiphers = {} THEN "plaintext" ELSE "encrypted"
    <3>1. \A n \in PublicCiphers : n \in Nat /\ n <= read /\ ~(n > read)
      BY <2>1, LineSets
    <3>2. CASE PublicCiphers = {}
      BY <2>1, <3>2 DEF CiphersSay
    <3>3. CASE PublicCiphers # {}
      <4>1. PICK n \in PublicCiphers :
              /\ \A m \in PublicCiphers : m <= n
              /\ found.cipher = file[n].text /\ found.protection = "encrypted"
        BY <2>1, <3>1, <3>3 DEF CiphersSay
      <4>2. LastOf(PublicCiphers) = n
        BY <3>1, <4>1, LastIs
      <4> QED BY <3>3, <4>1, <4>2
    <3> QED BY <3>2, <3>3
  <2>3. found.algorithm = IF Decodable = {} THEN file[1].text ELSE Blob[BlobAt(LastOf(Decodable))]
    <3>1. \A n \in Decodable : n \in Nat /\ n <= read /\ ~(n > read)
      BY <2>1, LineSets
    <3>2. CASE Decodable = {}
      BY <2>1, <3>2 DEF BlobsSay
    <3>3. CASE Decodable # {}
      <4>1. PICK n \in Decodable :
              (\A m \in Decodable : m <= n) /\ found.algorithm = Blob[BlobAt(n)]
        BY <2>1, <3>1, <3>3 DEF BlobsSay
      <4>2. LastOf(Decodable) = n
        BY <3>1, <4>1, LastIs
      <4> QED BY <3>3, <4>1, <4>2
    <3> QED BY <3>2, <3>3
  <2> QED BY <2>2, <2>3 DEF HonestExact, PublicCiphers
<1> QED BY <1>1, <1>2, HonestNext, PTL DEF Spec
=============================================================================
