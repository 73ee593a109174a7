---------------------------- MODULE DispatchProofs ----------------------------
(***************************************************************************)
(* Proofs about Dispatch and the SSH reader in it, for files of every        *)
(* content and length, and lengths of any width: IInv carries the types, the *)
(* cursor and the list of keys, WireInv that what a container states is what  *)
(* is still to be read, and ReadInv both, and what is reported.              *)
(***************************************************************************)
EXTENDS Dispatch, SequenceTheorems, TLAPS

InReader(r) == r \in Reader /\ r.off <= Len(r.buf)

(* A number is read from inside the buffer, and is a length.                 *)
LEMMA NumberInside ==
  ASSUME NEW r, InReader(r), Fits(r, Prefix)
  PROVE  Uint32(r) \in Nat /\ InReader(Past(r, Prefix))
<1>1. Len(r.buf) \in Nat /\ DOMAIN r.buf = 1 .. Len(r.buf) /\ r.off \in Nat /\ Prefix \in Nat
      /\ \A i \in 1 .. Len(r.buf) : r.buf[i] \in Byte
  BY LenProperties, WireAssumption DEF InReader, Reader
<1>2. [i \in 1 .. Prefix |-> r.buf[r.off + i]] \in [1 .. Prefix -> Byte]
  BY <1>1 DEF Fits
<1>3. Uint32(r) \in 0 .. Modulus - 1
  BY <1>2, WireAssumption DEF Uint32
<1>4. InReader(Past(r, Prefix))
  BY <1>1 DEF InReader, Past, Fits, Reader
<1> QED BY <1>3, <1>4, WireAssumption

(* So is a field: what bytes returns is a slice of the buffer, and the        *)
(* cursor behind it stands inside.                                           *)
LEMMA FieldInside ==
  ASSUME NEW r, InReader(r), Holds(r)
  PROVE  InReader(Skip(r)) /\ Bytes(r) \in Seq(Byte)
<1>1. Uint32(r) \in Nat /\ Len(r.buf) \in Nat /\ r.off \in Nat /\ Prefix \in Nat
      /\ \A i \in 1 .. Len(r.buf) : r.buf[i] \in Byte
  BY NumberInside, LenProperties, WireAssumption DEF InReader, Reader, Holds
<1>2. r.off + Prefix + Uint32(r) <= Len(r.buf)
  BY <1>1 DEF Holds, Fits, Past, InReader, Reader
<1>3. InReader(Skip(r)) /\ Skip(r).off = r.off + Prefix + Uint32(r)
  BY <1>1, <1>2 DEF Skip, Past, InReader, Reader
<1>4. \A i \in r.off + Prefix + 1 .. Skip(r).off : r.buf[i] \in Byte
  BY <1>1, <1>2, <1>3
<1>5. Bytes(r) \in Seq(Byte)
  BY <1>1, <1>2, <1>3, <1>4, SubSeqProperties DEF Bytes
<1> QED BY <1>3, <1>5

LEMMA NewReader == ASSUME NEW b \in Seq(Byte) PROVE InReader(Over(b))
BY LenProperties DEF InReader, Over, Reader

LEMMA DescribedType ==
  ASSUME NEW kind, NEW text \in Seq(Byte)
  PROVE  Described(kind, text) \in KeyInfo
<1>1. NoKey \in KeyInfo
  BY DEF NoKey, KeyInfo, Kinds
<1>2. P256 \in Seq(Byte) /\ (text \in DOMAIN NistCurve => NistCurve[text] \in Nat)
  BY WireAssumption
<1>3. CASE kind \in {"rsa", "dsa"}
  BY <1>1, <1>3 DEF Described, KeyInfo, Kinds
<1>4. CASE kind = "ecdsa"
  BY <1>1, <1>2, <1>4 DEF Described, KeyInfo, Kinds
<1>5. CASE kind = "sk-ecdsa"
  <2>1. Described(kind, text) =
          [algorithm |-> "ecdsa", curve |-> P256, number |-> <<>>, bits |-> 256]
    BY <1>5 DEF Described, NoKey
  <2> QED BY <1>2, <2>1, <<>> \in Seq(Byte), 256 \in Nat DEF KeyInfo, Kinds
<1>6. CASE kind \notin {"rsa", "dsa", "ecdsa", "sk-ecdsa"}
  <2>1. Described(kind, text) =
          [algorithm |-> "ed25519", curve |-> <<>>, number |-> <<>>, bits |-> 256]
    BY <1>6 DEF Described, NoKey
  <2> QED BY <2>1, <<>> \in Seq(Byte), 256 \in Nat DEF KeyInfo, Kinds
<1> QED BY <1>3, <1>4, <1>5, <1>6

LEMMA IdleType == Idle => WireType
<1>1. <<>> \in Seq(Byte) /\ NoKey \in KeyInfo
  BY DEF NoKey, KeyInfo, Kinds
<1> QED BY <1>1, NewReader DEF Idle, WireType, InReader, Inside, Over, Reader

LEMMA OpenType ==
  ASSUME NEW p \in Seq(Byte), Open(p)
  PROVE  WireType'
<1>1. <<>> \in Seq(Byte) /\ NoKey \in KeyInfo
  BY DEF NoKey, KeyInfo, Kinds
<1>2. HasMagic(p) => Rest(p) \in Seq(Byte)
  <2> HAVE HasMagic(p)
  <2>1. Len(p) \in Nat /\ Len(Magic) \in Nat /\ \A i \in Len(Magic) + 1 .. Len(p) : p[i] \in Byte
    BY LenProperties, WireAssumption
  <2> QED BY <2>1, SubSeqProperties DEF Rest
<1>3. InReader(reader')
  BY <1>1, <1>2, NewReader DEF Open
<1>4. Inside' /\ reader' \in Reader
  BY <1>3, LenProperties DEF InReader, Inside, Reader
<1>5. at' \in Fields \cup {"read", "error"}
  BY DEF Open, First, Fields
<1> QED BY <1>1, <1>4, <1>5 DEF WireType, Open

LEMMA ParseType == WireType /\ Parse => WireType'
<1> SUFFICES ASSUME WireType, Parse PROVE WireType'
  OBVIOUS
<1>1. InReader(reader) /\ at \in Fields \cup {"read", "error"} /\ payload \in Seq(Byte)
      /\ cipher \in Seq(Byte) /\ key \in KeyInfo
  BY DEF WireType, InReader, Inside
<1>2. ASSUME InReader(reader'), payload' = payload, at' \in Fields \cup {"read", "error"},
             cipher' \in Seq(Byte), key' \in KeyInfo
      PROVE  WireType'
  BY <1>1, <1>2, LenProperties DEF WireType, InReader, Inside, Reader
<1>3. ASSUME NEW field, Takes(field)
      PROVE  InReader(Skip(reader)) /\ Bytes(reader) \in Seq(Byte)
  BY <1>1, <1>3, FieldInside DEF Takes
<1>4. CASE Truncated
  BY <1>1, <1>2, <1>4 DEF Truncated
<1>5. CASE Cipher
  BY <1>1, <1>2, <1>3, <1>5 DEF Cipher, Field, Fields
<1>6. CASE Kdf
  BY <1>1, <1>2, <1>3, <1>6 DEF Kdf, Field, Fields
<1>7. CASE Options
  BY <1>1, <1>2, <1>3, <1>7 DEF Options, Field, Fields
<1>8. CASE Count
  BY <1>1, <1>2, <1>8, NumberInside DEF Count, Fields
<1>9. CASE Blob
  BY <1>1, <1>2, <1>3, <1>9, NewReader DEF Blob, ReaderOver, Fields
<1>10. CASE KeyType
  <2>1. InReader(Skip(reader)) /\ reader' = Skip(reader) /\ payload' = payload /\ cipher' = cipher
    BY <1>3, <1>10 DEF KeyType, Field
  <2>2. CASE Bytes(reader) \notin DOMAIN KeyKind
    BY <1>1, <1>2, <1>10, <2>1, <2>2 DEF KeyType
  <2>3. CASE Bytes(reader) \in DOMAIN KeyKind
    <3>1. key' \in KeyInfo
      BY <1>10, <2>3, <<>> \in Seq(Byte), DescribedType DEF KeyType
    <3>2. at' \in Fields \cup {"read", "error"}
      BY <1>10, <2>3 DEF KeyType, Fields
    <3> QED BY <1>1, <1>2, <2>1, <3>1, <3>2
  <2> QED BY <2>2, <2>3
<1>11. CASE Exponent
  BY <1>1, <1>2, <1>3, <1>11 DEF Exponent, Field, Fields
<1>12. CASE Fact
  BY <1>1, <1>2, <1>3, <1>12, DescribedType DEF Fact, Field
<1> QED BY <1>4, <1>5, <1>6, <1>7, <1>8, <1>9, <1>10, <1>11, <1>12 DEF Parse

-----------------------------------------------------------------------------
(* What a step finds is a finding, of a key exactly where the code means one. *)
IsKey(f)   == f \in FoundType /\ f.kind = "private-key"
IsOther(f) == f \in FoundType /\ f.kind # "private-key"

LEMMA KeyType1 ==
  ASSUME NEW format \in Formats PROVE IsKey(PrivateKey(format))
<1>1. <<>> \in Seq(Byte) /\ 0 \in Nat
  OBVIOUS
<1> QED BY <1>1 DEF IsKey, IsOther, PrivateKey, Found, FoundType, Kinds

LEMMA ContainerType ==
  ASSUME NEW format \in Formats PROVE IsOther(Container(format))
<1>1. <<>> \in Seq(Byte) /\ 0 \in Nat
  OBVIOUS
<1> QED BY <1>1 DEF IsKey, IsOther, Container, Found, FoundType, Kinds

LEMMA EncryptedType ==
  ASSUME NEW f, IsKey(f), NEW name \in Seq(Byte)
  PROVE  IsKey(Encrypted(f, name))
BY DEF IsKey, Encrypted, FoundType

LEMMA DescribeType ==
  ASSUME NEW f, NEW k
  PROVE  (IsKey(f) => IsKey(DescribeKey(f, k))) /\ (IsOther(f) => IsOther(DescribePublic(f, k)))
BY DEF IsKey, IsOther, DescribeKey, DescribePublic, Sized, Algorithms, FoundType, Kinds

LEMMA EncryptionType ==
  ASSUME NEW d \in DER, IsEncryptedPKCS8(d)
  PROVE  EncryptionOf(d) \in Seq(Byte)
<1>1. d.elems[1] \in Oids
  BY DEF IsEncryptedPKCS8, Begins
<1>2. d.params \in Oids \cup {""}
  BY DEF DER
<1> QED BY <1>1, <1>2, DispatchAssumption DEF EncryptionOf

LEMMA HeaderType ==
  ASSUME NEW b \in Block, NEW format \in Formats
  PROVE  IsKey(Header(b, format))
<1>1. b.dek \in Seq(Byte)
  BY DEF Block
<1> QED BY <1>1, KeyType1, EncryptedType DEF Header

LEMMA TraditionalType ==
  ASSUME NEW b \in Block, NEW format \in Formats, NEW algorithm \in Kinds, NEW parses
  PROVE  IsKey(Traditional(b, format, algorithm, parses))
<1>1. IsKey(Header(b, format))
  BY HeaderType
<1>2. (~b.procType /\ parses) \in BOOLEAN
  OBVIOUS
<1> QED BY <1>1, <1>2 DEF Traditional, IsKey, IsOther, FoundType

LEMMA PublicType ==
  ASSUME NEW b \in Block, NEW format \in Formats,
         NEW kind \in {"certificate", "certificate-request"}
  PROVE  IsOther(Public(b, kind, format))
<1>1. IsKey(Header(b, format))
  BY HeaderType
<1>2. IsOther([Header(b, format) EXCEPT !.kind = kind, !.protection = "none"])
  BY <1>1 DEF IsKey, IsOther, FoundType
<1> QED BY <1>2, DescribeType DEF Public

(* A block is a key exactly when its type says so, whatever is in it.        *)
Classified(f, b) ==
  \/ f = NoFinding /\ b.type \notin PrivateTypes
  \/ IsKey(f) /\ b.type \in PrivateTypes
  \/ IsOther(f) /\ b.type \notin PrivateTypes

LEMMA ClassifyType ==
  ASSUME NEW b \in Block, b.type # "OPENSSH PRIVATE KEY"
  PROVE  Classified(ClassifyPEM(b), b)
<1>1. b.der \in DER /\ b.type \in PrivateTypes \cup OtherTypes
  BY DEF Block
<1>2. CASE b.type = "RSA PRIVATE KEY"
  BY <1>2, TraditionalType DEF Classified, ClassifyPEM, PrivateTypes, Formats, Kinds
<1>3. CASE b.type = "EC PRIVATE KEY"
  BY <1>3, TraditionalType DEF Classified, ClassifyPEM, PrivateTypes, Formats, Kinds
<1>4. CASE b.type = "DSA PRIVATE KEY"
  BY <1>4, TraditionalType DEF Classified, ClassifyPEM, PrivateTypes, Formats, Kinds
<1>5. CASE b.type = "PRIVATE KEY"
  BY <1>5, HeaderType, DescribeType DEF Classified, ClassifyPEM, PrivateTypes, Formats
<1>6. CASE b.type = "ENCRYPTED PRIVATE KEY"
  <2>1. IsKey(Header(b, "pkcs8-pem"))
    BY HeaderType DEF Formats
  <2>2. Header(b, "pkcs8-pem").cipher \in Seq(Byte)
    BY <2>1 DEF IsKey, FoundType
  <2>3. (IF IsEncryptedPKCS8(b.der) THEN EncryptionOf(b.der) ELSE Header(b, "pkcs8-pem").cipher) \in Seq(Byte)
    BY <1>1, <2>2, EncryptionType
  <2> QED BY <1>6, <2>1, <2>3, EncryptedType DEF Classified, ClassifyPEM, PrivateTypes, Formats
<1>7. CASE b.type = "ANY PRIVATE KEY"
  BY <1>7, HeaderType DEF Classified, ClassifyPEM, PrivateTypes, Formats
<1>8. CASE b.type = "CERTIFICATE"
  BY <1>8, PublicType DEF Classified, ClassifyPEM, PrivateTypes, Formats
<1>9. CASE b.type = "CERTIFICATE REQUEST"
  BY <1>9, PublicType DEF Classified, ClassifyPEM, PrivateTypes, Formats
<1>10. CASE b.type = "PUBLIC KEY"
  BY <1>10 DEF Classified, ClassifyPEM, PrivateTypes, Formats
<1> QED BY <1>1, <1>2, <1>3, <1>4, <1>5, <1>6, <1>7, <1>8, <1>9, <1>10
        DEF PrivateTypes, OtherTypes

LEMMA OpenSSHType ==
  ASSUME WireType PROVE IsKey(OpenSSH)
<1> DEFINE sized == key.bits # 0 \/ \E i \in DOMAIN key.number : key.number[i] # 0
           f == [PrivateKey("openssh") EXCEPT !.algorithm = key.algorithm, !.sized = sized]
<1>1. IsKey(PrivateKey("openssh"))
  BY KeyType1 DEF Formats
<1>2. key.algorithm \in Kinds \cup {""} /\ sized \in BOOLEAN
  BY DEF WireType, KeyInfo
<1> HIDE DEF sized
<1>3. IsKey(f)
  BY <1>1, <1>2 DEF IsKey, IsOther, FoundType
<1>4. IsKey(Protected(f))
  BY <1>3, EncryptedType DEF Protected, WireType
<1> QED BY <1>4 DEF OpenSSH, sized

(* A whole file, once its first bytes are known.                             *)
LEMMA WholeFileType ==
  ASSUME file \in File
  PROVE  WholeFile = NoFinding \/ WholeFile \in FoundType
<1>1. file.der \in DER /\ file.ppk \in {"plaintext", "encrypted", "invalid"}
  BY DEF File
<1>2. CASE file.start \in {"jks", "jceks"}
  BY <1>2, ContainerType DEF WholeFile, Formats, IsKey, IsOther
<1>3. CASE file.start = "ppk"
  <2>1. IsKey(PrivateKey("ppk"))
    BY KeyType1 DEF Formats
  <2>2. [PrivateKey("ppk") EXCEPT !.protection = file.ppk] \in FoundType
        \/ file.ppk = "invalid"
    BY <1>1, <2>1 DEF IsKey, FoundType
  <2> QED BY <1>3, <2>2 DEF WholeFile
<1>4. CASE file.start = "0x30"
  <2> DEFINE d == file.der
  <2>1. WholeFile = ScanDER(d)
    BY <1>4 DEF WholeFile
  <2>2. Found("certificate", "x509-der", "none") \in FoundType
    BY <<>> \in Seq(Byte) DEF Found, FoundType, Formats, Kinds
  <2>3. IsOther(Found("certificate", "x509-der", "none"))
    BY <2>2 DEF IsKey, IsOther, Found
  <2>4. /\ IsOther(DescribePublic(Found("certificate", "x509-der", "none"), d.key))
        /\ IsKey(DescribeKey(PrivateKey("pkcs8-der"), d.key))
        /\ IsKey(DescribeKey(PrivateKey("pkcs1-der"), "rsa"))
        /\ IsKey(DescribeKey(PrivateKey("sec1-der"), "ecdsa"))
        /\ IsOther(Container("pkcs12"))
    BY <2>3, DescribeType, KeyType1, ContainerType DEF Formats
  <2>5. IsEncryptedPKCS8(d) => IsKey(Encrypted(PrivateKey("pkcs8-der"), EncryptionOf(d)))
    BY <1>1, KeyType1, EncryptedType, EncryptionType DEF Formats
  <2>6. ScanDER(d) = NoFinding \/ ScanDER(d) \in FoundType
    BY <2>4, <2>5 DEF ScanDER, IsKey, IsOther
  <2> QED BY <2>1, <2>6
<1>5. CASE file.start \notin {"jks", "jceks", "ppk", "0x30"}
  BY <1>5 DEF WholeFile
<1> QED BY <1>2, <1>3, <1>4, <1>5

-----------------------------------------------------------------------------
(* What holds along the scan: nothing is found before a format is known, a   *)
(* finding has the line of a block that is done, and a container is read     *)
(* only for a block of that type.                                            *)
Fresh       == pc = "file" => found = <<>> /\ block = 1
Scanning    == pc \in {"block", "openssh"}
Below       == Scanning => \A i \in DOMAIN found : found[i].line \in 1 .. block - 1
InContainer == pc = "openssh" => This.type = "OPENSSH PRIVATE KEY"
IInv == TypeOK /\ Fresh /\ Below /\ InContainer /\ NoKeyLost

LEMMA InitInv == Init => IInv
<1> SUFFICES ASSUME Init PROVE IInv
  OBVIOUS
<1>1. file \in File /\ WireType
  BY DispatchAssumption, IdleType DEF Init
<1>2. Len(file.blocks) \in Nat
  BY <1>1, LenProperties DEF File
<1>3. TypeOK
  BY <1>1, <1>2 DEF Init, TypeOK
<1> QED BY <1>3 DEF Init, IInv, Fresh, Below, Scanning, InContainer, NoKeyLost

(* One block more: a key joins the findings exactly if the block is one, on  *)
(* a line of its own.                                                        *)
LEMMA ReportInv ==
  ASSUME IInv, Scanning, block <= Len(file.blocks), NEW f, Report(f), Classified(f, This)
  PROVE  IInv'
<1> DEFINE new == [f EXCEPT !.line = block]
<1>1. /\ file \in File /\ Len(file.blocks) \in Nat /\ block \in 1 .. Len(file.blocks)
      /\ found \in Seq(FoundType) /\ WireType
  BY LenProperties DEF IInv, TypeOK, File
<1>2. /\ file' = file /\ block' = block + 1 /\ pc' = "block" /\ UNCHANGED wireVars
      /\ found' = IF f = NoFinding THEN found ELSE Append(found, new)
  BY DEF Report
<1>3. WireType'
  BY <1>1, <1>2 DEF WireType, Inside, wireVars
<1>4. \A i \in DOMAIN found : found[i].line \in 1 .. block - 1
  BY DEF IInv, Below
<1>5. /\ {found[i].line : i \in Keys} =
           {b \in 1 .. block - 1 : file.blocks[b].type \in PrivateTypes}
      /\ \A i, j \in DOMAIN found : i < j => found[i].line < found[j].line
  BY DEF IInv, NoKeyLost, Scanning
<1>6. CASE f = NoFinding
  <2>1. f \notin FoundType /\ found' = found
    BY <1>2, <1>6 DEF NoFinding, Found, FoundType
  <2>2. This.type \notin PrivateTypes
    BY <2>1 DEF Classified, IsKey, IsOther
  <2>3. TypeOK'
    BY <1>1, <1>2, <1>3, <2>1 DEF TypeOK
  <2>4. Keys' = Keys
    BY <2>1 DEF Keys
  <2>5. {b \in 1 .. block' - 1 : file'.blocks[b].type \in PrivateTypes} =
          {b \in 1 .. block - 1 : file.blocks[b].type \in PrivateTypes}
    BY <1>1, <1>2, <2>2 DEF This
  <2>6. NoKeyLost'
    BY <1>5, <2>1, <2>4, <2>5 DEF NoKeyLost
  <2>7. Below' /\ Fresh' /\ InContainer'
    BY <1>1, <1>2, <1>4, <2>1 DEF Below, Fresh, InContainer
  <2> QED BY <2>3, <2>6, <2>7 DEF IInv
<1>7. CASE f # NoFinding
  <2>1. f \in FoundType /\ (f.kind = "private-key" <=> This.type \in PrivateTypes)
    BY <1>7 DEF Classified, IsKey, IsOther
  <2>2. new \in FoundType /\ new.line = block /\ new.kind = f.kind
    <3>1. block \in Nat /\ f \in FoundType
      BY <1>1, <2>1
    <3> QED BY <3>1 DEF FoundType
  <2> HIDE DEF new
  <2> DEFINE n == Len(found)
  <2>3. /\ found' = Append(found, new) /\ n \in Nat /\ DOMAIN found = 1 .. n
        /\ found' \in Seq(FoundType) /\ DOMAIN found' = 1 .. n + 1
        /\ found'[n + 1] = new /\ \A i \in 1 .. n : found'[i] = found[i]
    BY <1>1, <1>2, <1>7, <2>2, AppendProperties, LenProperties
  <2>4. TypeOK'
    BY <1>1, <1>2, <1>3, <2>3 DEF TypeOK
  <2>5. Below' /\ Fresh' /\ InContainer'
    BY <1>1, <1>2, <1>4, <2>2, <2>3 DEF Below, Fresh, InContainer
  <2>6. \A i, j \in DOMAIN found' : i < j => found'[i].line < found'[j].line
    BY <1>1, <1>4, <1>5, <2>2, <2>3
  <2>7. Keys' = Keys \cup (IF This.type \in PrivateTypes THEN {n + 1} ELSE {})
    BY <2>1, <2>2, <2>3 DEF Keys
  <2>8. {found'[i].line : i \in Keys'} =
          {found[i].line : i \in Keys} \cup (IF This.type \in PrivateTypes THEN {block} ELSE {})
    <3>1. \A i \in Keys : i \in 1 .. n /\ found'[i] = found[i]
      BY <2>3 DEF Keys
    <3> QED BY <2>2, <2>3, <2>7, <3>1
  <2>9. {b \in 1 .. block' - 1 : file'.blocks[b].type \in PrivateTypes} =
          {b \in 1 .. block - 1 : file.blocks[b].type \in PrivateTypes}
            \cup (IF This.type \in PrivateTypes THEN {block} ELSE {})
    BY <1>1, <1>2 DEF This
  <2>10. NoKeyLost'
    BY <1>5, <2>6, <2>8, <2>9 DEF NoKeyLost
  <2> QED BY <2>4, <2>5, <2>10 DEF IInv
<1> QED BY <1>6, <1>7

LEMMA NextInv == IInv /\ [Next]_vars => IInv'
<1> SUFFICES ASSUME IInv, [Next]_vars PROVE IInv'
  OBVIOUS
<1>1. /\ file \in File /\ Len(file.blocks) \in Nat /\ block \in 1 .. Len(file.blocks) + 1
      /\ found \in Seq(FoundType) /\ WireType
  BY LenProperties DEF IInv, TypeOK, File
<1>2. ASSUME block <= Len(file.blocks) PROVE This \in Block
  BY <1>1, <1>2, ElementOfSeq DEF File, This
<1>3. CASE UNCHANGED vars
  BY <1>3 DEF vars, wireVars, IInv, TypeOK, WireType, Inside, Fresh, Below, Scanning,
              InContainer, This, NoKeyLost, Keys
<1>4. CASE Recognise
  <2>1. found' \in Seq(FoundType)
    BY <1>1, <1>4, WholeFileType DEF Recognise
  <2> QED BY <1>1, <1>4, <2>1 DEF Recognise, wireVars, IInv, TypeOK, WireType, Inside, Fresh,
                                  Below, Scanning, InContainer, NoKeyLost
<1>5. CASE ScanPEM
  <2>1. found = <<>> /\ block = 1 /\ pc' = "block" /\ UNCHANGED <<file, block, found, wireVars>>
    BY <1>5 DEF ScanPEM, IInv, Fresh
  <2>2. TypeOK'
    BY <1>1, <2>1 DEF wireVars, TypeOK, WireType, Inside
  <2>3. Below' /\ Fresh' /\ InContainer' /\ NoKeyLost'
    BY <2>1 DEF Fresh, Below, Scanning, InContainer, NoKeyLost, Keys
  <2> QED BY <2>2, <2>3 DEF IInv
<1>6. CASE Classify
  <2>1. Scanning /\ block <= Len(file.blocks) /\ Report(ClassifyPEM(This))
    BY <1>6 DEF Classify, More, Scanning
  <2>2. Classified(ClassifyPEM(This), This)
    BY <1>2, <1>6, <2>1, ClassifyType DEF Classify
  <2> QED BY <2>1, <2>2, ReportInv
<1>7. CASE OpenContainer
  <2>1. block <= Len(file.blocks) /\ This.type = "OPENSSH PRIVATE KEY" /\ Open(This.payload)
        /\ pc = "block" /\ pc' = "openssh" /\ UNCHANGED <<file, block, found>>
    BY <1>7 DEF OpenContainer, More
  <2>2. WireType'
    BY <1>2, <2>1, OpenType DEF Block
  <2>3. TypeOK'
    BY <1>1, <2>1, <2>2 DEF TypeOK
  <2> QED BY <2>1, <2>3 DEF IInv, Fresh, Below, Scanning, InContainer, This, NoKeyLost, Keys
<1>8. CASE ReadField
  <2>1. WireType' /\ pc = "openssh" /\ UNCHANGED <<file, pc, block, found>>
    BY <1>1, <1>8, ParseType DEF ReadField
  <2> QED BY <2>1 DEF IInv, TypeOK, Fresh, Below, Scanning, InContainer, This, NoKeyLost, Keys
<1>9. CASE Return
  <2> DEFINE f == IF at = "read" THEN OpenSSH ELSE Unread(This)
  <2>1. Scanning /\ block <= Len(file.blocks) /\ Report(f)
    BY <1>9 DEF Return, Scanning, IInv, TypeOK
  <2>2. This.type \in PrivateTypes
    BY <1>9 DEF Return, IInv, InContainer, PrivateTypes
  <2>3. IsKey(OpenSSH) /\ IsKey(Unread(This))
    BY <1>1, <1>2, <2>1, OpenSSHType, HeaderType DEF Unread, Formats
  <2>4. Classified(f, This)
    BY <2>2, <2>3 DEF Classified
  <2> QED BY <2>1, <2>4, ReportInv
<1>10. CASE NoMoreBlocks
  BY <1>1, <1>10 DEF NoMoreBlocks, wireVars, IInv, TypeOK, WireType, Inside, Fresh, Below,
                     Scanning, InContainer, NoKeyLost
<1>11. CASE Done
  BY <1>3, <1>11 DEF Done
<1> QED BY <1>3, <1>4, <1>5, <1>6, <1>7, <1>8, <1>9, <1>10, <1>11 DEF Next

LEMMA Invariance == Spec => []IInv
BY InitInv, NextInv, PTL DEF Spec

(* TypeOK, for every file: every finding is well-formed.                     *)
THEOREM TypeCorrect == Spec => []TypeOK
BY Invariance, PTL DEF IInv

(* The SSH reader never asks for a byte outside its buffer, whatever lengths  *)
(* the data claims (sshwire.go:21-41).                                       *)
THEOREM ReaderStaysInside == Spec => []Inside
<1>1. IInv => Inside
  BY DEF IInv, TypeOK, WireType
<1> QED BY <1>1, Invariance, PTL

(* Every private key of a bundle is reported once and in order, however      *)
(* damaged it and its neighbours are.                                        *)
THEOREM EveryKeyListed == Spec => []NoKeyLost
BY Invariance, PTL DEF IInv

(* The recognisers of bare DER exclude each other, for every value: no order  *)
(* of trying them gives another answer.                                      *)
THEOREM OrderNeverDecides == Spec => []Unambiguous
<1>1. ASSUME NEW d PROVE
        \A f, g : Accepts(d, f) /\ Accepts(d, g) => f = g
  <2> DEFINE first == d.elems[1]
             second == d.elems[2]
  <2>1. IsCertificate(d) => first = "tbs"
    <3> DEFINE shape == <<{"tbs"}, Oids, {"bits"}>>
    <3>1. 1 \in DOMAIN shape /\ shape[1] = {"tbs"}
      OBVIOUS
    <3>2. IsCertificate(d) => Begins(d, shape)
      BY DEF IsCertificate
    <3> HIDE DEF shape
    <3> QED BY <3>1, <3>2 DEF Begins
  <2>2. IsPKCS8(d) => first \in Small /\ second \in KeyOids
    BY DEF IsPKCS8, Begins
  <2>3. IsPKCS1(d) => first \in {"0", "1"} /\ second \in Integer
    BY DEF IsPKCS1, Begins, Integers
  <2>4. IsSEC1(d) => first = "1" /\ second = "octets"
    BY DEF IsSEC1, Begins
  <2>5. IsEncryptedPKCS8(d) => first \in Oids
    BY DEF IsEncryptedPKCS8, Begins
  <2>6. IsPKCS12(d) => first = "3" /\ second \in Pkcs7
    BY DEF IsPKCS12, Begins
  <2>7. Oids \cap {"0", "1", "3", "tbs", "octets"} = {} /\ KeyOids \subseteq Oids
    BY DispatchAssumption DEF Integer, Small
  <2>8. /\ IsCertificate(d) => ~(IsPKCS8(d) \/ IsPKCS1(d) \/ IsSEC1(d) \/ IsEncryptedPKCS8(d) \/ IsPKCS12(d))
        /\ IsEncryptedPKCS8(d) => ~(IsPKCS8(d) \/ IsPKCS1(d) \/ IsSEC1(d) \/ IsPKCS12(d))
    BY <2>1, <2>2, <2>3, <2>4, <2>5, <2>6, <2>7 DEF Small
  <2>9. IsPKCS8(d) => ~(IsPKCS1(d) \/ IsSEC1(d) \/ IsPKCS12(d))
    <3>1. "octets" \notin KeyOids /\ KeyOids \cap Integer = {} /\ KeyOids \cap Pkcs7 = {}
      BY DEF KeyOids, Integer, Small, Pkcs7
    <3> QED BY <2>2, <2>3, <2>4, <2>6, <3>1
  <2>10. (IsPKCS1(d) => ~(IsSEC1(d) \/ IsPKCS12(d))) /\ (IsSEC1(d) => ~IsPKCS12(d))
    BY <2>3, <2>4, <2>6 DEF Integer, Small
  <2> SUFFICES ASSUME NEW f, NEW g, Accepts(d, f), Accepts(d, g) PROVE f = g
    OBVIOUS
  <2>11. CASE IsCertificate(d)
    BY <2>8, <2>11 DEF Accepts
  <2>12. CASE IsEncryptedPKCS8(d)
    BY <2>8, <2>12 DEF Accepts
  <2>13. CASE IsPKCS8(d)
    BY <2>8, <2>9, <2>13 DEF Accepts
  <2>14. CASE IsPKCS1(d)
    BY <2>8, <2>9, <2>10, <2>14 DEF Accepts
  <2>15. CASE IsSEC1(d) \/ IsPKCS12(d)
    BY <2>8, <2>9, <2>10, <2>15 DEF Accepts
  <2> QED BY <2>11, <2>12, <2>13, <2>14, <2>15 DEF Accepts
<1>2. Unambiguous
  BY <1>1 DEF Unambiguous
<1> QED BY <1>2, PTL

-----------------------------------------------------------------------------
(* What a container states, and what the rest of a buffer adds from the      *)
(* field that is read next on: the key if its fact is next, ...              *)
Stated(p) == IF HasMagic(p) THEN Contents(Rest(p)) ELSE {}

With(c, keys) == {[cipher |-> c, key |-> k] : k \in keys}
FromFact(kind, b, i)  == {Described(kind, text) : text \in Texts(b, i)}
FromExponent(kind, b, i) == UNION {FromFact(kind, b, e) : e \in End(b, i)}
FromBlob(c, p, i)    == UNION {With(c, KeysIn(b)) : b \in Texts(p, i)}
FromCount(c, p, i)   == IF /\ i + Prefix <= Len(p)
                           /\ Number[SubSeq(p, i + 1, i + Prefix)] \in 1 .. MaxKeys
                          THEN FromBlob(c, p, i + Prefix) ELSE {}
FromOptions(c, p, i) == UNION {FromCount(c, p, o) : o \in End(p, i)}
FromKdf(c, p, i)     == UNION {FromOptions(c, p, k) : k \in End(p, i)}
FromCipher(p, i)     == UNION {FromKdf(Text(p, i, c), p, c) : c \in End(p, i)}

StillStated(field, r, c, k) ==
  CASE field = "cipher"  -> FromCipher(r.buf, r.off)
    [] field = "kdf"     -> FromKdf(c, r.buf, r.off)
    [] field = "options" -> FromOptions(c, r.buf, r.off)
    [] field = "count"   -> FromCount(c, r.buf, r.off)
    [] field = "blob"    -> FromBlob(c, r.buf, r.off)
    [] field = "type"    -> With(c, KeysIn(r.buf))
    [] field = "e"       -> With(c, FromExponent(k.algorithm, r.buf, r.off))
    [] field = "fact"    -> With(c, FromFact(k.algorithm, r.buf, r.off))
    [] field = "read"    -> {[cipher |-> c, key |-> k]}
    [] field = "error"   -> {}

(* Nothing the container states is lost or added on the way. *)
Left == Stated(payload) = StillStated(at, reader, cipher, key)
TypeFirst == at = "type" => reader.off = 0
WireInv == WireType /\ Left /\ TypeFirst

-----------------------------------------------------------------------------
(* A string ends where the cursor stands behind it, if it can be read, and   *)
(* says what the reader returns.                                             *)
LEMMA EndIsSkip ==
  ASSUME NEW r, InReader(r)
  PROVE  /\ Holds(r) => End(r.buf, r.off) = {Skip(r).off} /\ Texts(r.buf, r.off) = {Bytes(r)}
                        /\ Text(r.buf, r.off, Skip(r).off) = Bytes(r)
         /\ ~Holds(r) => End(r.buf, r.off) = {} /\ Texts(r.buf, r.off) = {}
<1> DEFINE b == r.buf  i == r.off  n == Uint32(r)
<1>1. b \in Seq(Byte) /\ Len(b) \in Nat /\ i \in Nat /\ Prefix \in Nat
  BY LenProperties, WireAssumption DEF InReader, Reader
<1>2. Fits(r, Prefix) => n \in Nat
  BY NumberInside
<1>3. SubSeq(b, i + 1, i + Prefix) = [k \in 1 .. Prefix |-> b[i + k]]
  BY <1>1
<1>4. Number[SubSeq(b, i + 1, i + Prefix)] = n
  BY <1>3 DEF Uint32
<1>5. Holds(r) <=> i + Prefix <= Len(b) /\ i + Prefix + n <= Len(b)
  BY <1>1 DEF Holds, Fits, Past, InReader, Reader
<1>6. Fits(r, Prefix) <=> i + Prefix <= Len(b)
  BY DEF Fits
<1> HIDE DEF n
<1>7. \A j : j \in End(b, i) <=> Holds(r) /\ j = i + Prefix + n
  <2> SUFFICES ASSUME NEW j PROVE j \in End(b, i) <=> Holds(r) /\ j = i + Prefix + n
    OBVIOUS
  <2>1. j \in End(b, i) <=> j \in i + Prefix .. Len(b) /\ n = j - i - Prefix
    BY <1>4 DEF End
  <2>2. ASSUME j \in End(b, i) PROVE Holds(r) /\ j = i + Prefix + n
    <3>1. j \in Int /\ i + Prefix <= j /\ j <= Len(b) /\ n = j - i - Prefix
      BY <1>1, <2>1, <2>2
    <3>2. n \in Nat
      BY <1>1, <1>2, <1>6, <3>1
    <3> QED BY <1>1, <1>5, <3>1, <3>2
  <2>3. ASSUME Holds(r), j = i + Prefix + n PROVE j \in End(b, i)
    <3>1. n \in Nat /\ i + Prefix + n <= Len(b)
      BY <1>2, <1>5, <1>6, <2>3
    <3> QED BY <1>1, <2>1, <2>3, <3>1
  <2> QED BY <2>2, <2>3
<1>8. CASE Holds(r)
  <2>1. Skip(r).off = i + Prefix + n
    <3>1. n \in Nat /\ Skip(r).off = i + (Prefix + n)
      BY <1>2, <1>5, <1>6, <1>8 DEF Skip, Past, InReader, Reader, n
    <3> QED BY <1>1, <3>1
  <2>2. End(b, i) = {Skip(r).off}
    BY <1>7, <1>8, <2>1
  <2>3. Text(b, i, Skip(r).off) = Bytes(r)
    BY <1>5, <1>8, <2>1 DEF Text, Bytes
  <2> QED BY <1>8, <2>2, <2>3 DEF Texts
<1>9. CASE ~Holds(r)
  <2>1. End(b, i) = {}
    BY <1>7, <1>9
  <2> QED BY <1>9, <2>1 DEF Texts
<1> QED BY <1>8, <1>9

(* What a blob holds, once its key type is known. *)
LEMMA KeysAfterType ==
  ASSUME NEW b, NEW t, End(b, 0) = {t}, Text(b, 0, t) \in DOMAIN KeyKind
  PROVE  LET kind == KeyKind[Text(b, 0, t)] IN
         /\ kind = "rsa" => KeysIn(b) = FromExponent("rsa", b, t)
         /\ kind \in {"sk-ed25519", "sk-ecdsa"} => KeysIn(b) = {Described(kind, <<>>)}
         /\ kind \in {"dsa", "ecdsa", "ed25519"} => KeysIn(b) = FromFact(kind, b, t)
<1> DEFINE kind(u) == KeyKind[Text(b, 0, u)]
           texts(u) == CASE kind(u) = "rsa" -> UNION {Texts(b, e) : e \in End(b, u)}
                         [] kind(u) \in {"sk-ed25519", "sk-ecdsa"} -> {<<>>}
                         [] OTHER -> Texts(b, u)
           keys(u) == IF Text(b, 0, u) \notin DOMAIN KeyKind THEN {}
                        ELSE {Described(kind(u), text) : text \in texts(u)}
<1>1. KeysIn(b) = UNION {keys(u) : u \in End(b, 0)}
  BY DEF KeysIn
<1>2. keys(t) = {Described(kind(t), text) : text \in texts(t)}
  OBVIOUS
<1> HIDE DEF keys
<1>3. KeysIn(b) = keys(t)
  BY <1>1
<1>4. CASE kind(t) = "rsa"
  <2>1. texts(t) = UNION {Texts(b, e) : e \in End(b, t)}
    BY <1>4
  <2>2. ASSUME NEW k PROVE k \in KeysIn(b) <=> \E e \in End(b, t) : k \in FromFact("rsa", b, e)
    <3>1. k \in KeysIn(b) <=> \E text \in texts(t) : k = Described("rsa", text)
      BY <1>2, <1>3, <1>4
    <3>2. \A text : text \in texts(t) <=> \E e \in End(b, t) : text \in Texts(b, e)
      BY <2>1
    <3> HIDE DEF texts
    <3>3. \A e : k \in FromFact("rsa", b, e)
                   <=> \E text \in Texts(b, e) : k = Described("rsa", text)
      BY DEF FromFact
    <3> QED BY <3>1, <3>2, <3>3
  <2>3. \A k : k \in FromExponent("rsa", b, t) <=> \E e \in End(b, t) : k \in FromFact("rsa", b, e)
    BY DEF FromExponent
  <2>4. KeysIn(b) = FromExponent("rsa", b, t)
    BY <2>2, <2>3
  <2> QED BY <1>4, <2>4
<1>5. CASE kind(t) \in {"sk-ed25519", "sk-ecdsa"}
  <2>1. texts(t) = {<<>>}
    BY <1>5
  <2> HIDE DEF texts
  <2> QED BY <1>2, <1>3, <1>5, <2>1
<1>6. CASE kind(t) \in {"dsa", "ecdsa", "ed25519"}
  <2>1. texts(t) = Texts(b, t)
    BY <1>6
  <2> HIDE DEF texts
  <2> QED BY <1>2, <1>3, <1>6, <2>1 DEF FromFact
<1> QED BY <1>4, <1>5, <1>6

LEMMA StatedIdle == Idle => WireInv
<1> SUFFICES ASSUME Idle PROVE WireInv
  OBVIOUS
<1>1. WireType
  BY IdleType
<1>2. ~HasMagic(<<>>)
  <2>1. Len(Magic) \in Nat /\ Len(Magic) # 0
    BY WireAssumption, LenProperties, EmptySeq
  <2> QED BY <2>1 DEF HasMagic
<1>3. Left
  BY <1>2 DEF Idle, Left, Stated, StillStated
<1> QED BY <1>1, <1>3 DEF Idle, WireInv, TypeFirst

(* Contents reads what FromCipher reads.                                     *)
LEMMA ContentsFromCipher == ASSUME NEW p PROVE Contents(p) = FromCipher(p, 0)
BY DEF Contents, FromCipher, FromKdf, FromOptions, FromCount, FromBlob, With

LEMMA StatedOpen == ASSUME NEW p \in Seq(Byte), Open(p) PROVE WireInv'
<1>1. WireType'
  BY OpenType
<1>2. CASE HasMagic(p)
  <2>1. payload' = p /\ at' = "cipher" /\ reader'.buf = Rest(p) /\ reader'.off = 0
    BY <1>2 DEF Open, First, Over
  <2>2. StillStated(at', reader', cipher', key') = FromCipher(Rest(p), 0)
    BY <2>1 DEF StillStated
  <2>3. Left'
    BY <1>2, <2>1, <2>2, ContentsFromCipher DEF Left, Stated
  <2> QED BY <1>1, <2>1, <2>3 DEF WireInv, TypeFirst
<1>3. CASE ~HasMagic(p)
  <2>1. payload' = p /\ at' = "error"
    BY <1>3 DEF Open, First
  <2>2. Left'
    BY <1>3, <2>1 DEF Left, Stated, StillStated
  <2> QED BY <1>1, <2>1, <2>2 DEF WireInv, TypeFirst
<1> QED BY <1>2, <1>3

(* One field more: what the container states is what is still stated.        *)
LEMMA StatedParse == WireInv /\ Parse => WireInv'
<1> SUFFICES ASSUME WireInv, Parse PROVE WireInv'
  OBVIOUS
<1> DEFINE b == reader.buf  i == reader.off
<1>1. WireType' /\ payload' = payload
  <2>1. payload' = payload
    BY DEF Parse, Truncated, Cipher, Kdf, Options, Count, Blob, KeyType, Exponent, Fact, Field
  <2> QED BY <2>1, ParseType DEF WireInv
<1>2. InReader(reader) /\ b \in Seq(Byte) /\ Len(b) \in Nat /\ i \in Nat /\ Prefix \in Nat
  BY LenProperties, WireAssumption DEF WireInv, WireType, Inside, InReader, Reader
<1>3. ASSUME StillStated(at, reader, cipher, key) = StillStated(at', reader', cipher', key'),
             TypeFirst'
      PROVE  WireInv'
  BY <1>1, <1>3 DEF WireInv, Left
<1>4. ASSUME NEW field, Takes(field)
      PROVE  /\ End(b, i) = {Skip(reader).off} /\ Texts(b, i) = {Bytes(reader)}
             /\ Text(b, i, Skip(reader).off) = Bytes(reader)
             /\ Skip(reader).buf = b
  <2>1. Skip(reader).buf = b
    BY <1>2 DEF Skip, Past, InReader, Reader
  <2> QED BY <1>2, <1>4, <2>1, EndIsSkip DEF Takes
<1>5. CASE Truncated
  <2>1. End(b, i) = {} /\ Texts(b, i) = {} /\ at' = "error"
    BY <1>2, <1>5, EndIsSkip DEF Truncated
  <2>2. at = "type" => i = 0
    BY DEF WireInv, TypeFirst
  <2>3. /\ FromCipher(b, i) = {} /\ FromKdf(cipher, b, i) = {} /\ FromOptions(cipher, b, i) = {}
        /\ FromBlob(cipher, b, i) = {} /\ FromExponent(key.algorithm, b, i) = {}
        /\ FromFact(key.algorithm, b, i) = {}
    BY <2>1 DEF FromCipher, FromKdf, FromOptions, FromBlob, FromExponent, FromFact
  <2>4. at = "type" => KeysIn(b) = {}
    BY <2>1, <2>2 DEF KeysIn
  <2>5. With(cipher, {}) = {}
    BY DEF With
  <2>6. StillStated(at, reader, cipher, key) = {}
    BY <1>5, <2>3, <2>4, <2>5 DEF Truncated, StillStated
  <2> QED BY <1>3, <2>1, <2>6 DEF StillStated, TypeFirst
<1>6. CASE Cipher
  <2>1. at = "cipher" /\ at' = "kdf" /\ reader' = Skip(reader) /\ cipher' = Bytes(reader)
    BY <1>6 DEF Cipher, Field, Takes
  <2>2. FromCipher(b, i) = FromKdf(Bytes(reader), b, Skip(reader).off)
    BY <1>4, <1>6 DEF Cipher, Field, FromCipher
  <2>3. Skip(reader).buf = b
    BY <1>4, <1>6 DEF Cipher, Field
  <2> QED BY <1>3, <2>1, <2>2, <2>3 DEF StillStated, TypeFirst
<1>7. CASE Kdf
  <2>1. at = "kdf" /\ at' = "options" /\ reader' = Skip(reader) /\ cipher' = cipher
    BY <1>7 DEF Kdf, Field, Takes
  <2>2. FromKdf(cipher, b, i) = FromOptions(cipher, b, Skip(reader).off)
    BY <1>4, <1>7 DEF Kdf, Field, FromKdf
  <2>3. Skip(reader).buf = b
    BY <1>4, <1>7 DEF Kdf, Field
  <2> QED BY <1>3, <2>1, <2>2, <2>3 DEF StillStated, TypeFirst
<1>8. CASE Options
  <2>1. at = "options" /\ at' = "count" /\ reader' = Skip(reader) /\ cipher' = cipher
    BY <1>8 DEF Options, Field, Takes
  <2>2. FromOptions(cipher, b, i) = FromCount(cipher, b, Skip(reader).off)
    BY <1>4, <1>8 DEF Options, Field, FromOptions
  <2>3. Skip(reader).buf = b
    BY <1>4, <1>8 DEF Options, Field
  <2> QED BY <1>3, <2>1, <2>2, <2>3 DEF StillStated, TypeFirst
<1>9. CASE Count
  <2>1. at = "count" /\ cipher' = cipher
    BY <1>9 DEF Count
  <2>2. SubSeq(b, i + 1, i + Prefix) = [k \in 1 .. Prefix |-> b[i + k]]
    BY <1>2
  <2>3. Number[SubSeq(b, i + 1, i + Prefix)] = Uint32(reader)
    BY <2>2 DEF Uint32
  <2>4. StillStated(at, reader, cipher, key) = FromCount(cipher, b, i)
    BY <2>1 DEF StillStated
  <2>5. CASE Fits(reader, Prefix) /\ Uint32(reader) \in 1 .. MaxKeys
    <3>1. at' = "blob" /\ reader'.buf = b /\ reader'.off = i + Prefix
      BY <1>2, <1>9, <2>5 DEF Count, Past, InReader, Reader
    <3>2. FromCount(cipher, b, i) = FromBlob(cipher, b, i + Prefix)
      BY <2>3, <2>5 DEF FromCount, Fits
    <3> QED BY <1>3, <2>1, <2>4, <3>1, <3>2 DEF StillStated, TypeFirst
  <2>6. CASE ~(Fits(reader, Prefix) /\ Uint32(reader) \in 1 .. MaxKeys)
    <3>1. at' = "error"
      BY <1>9, <2>6 DEF Count
    <3>2. FromCount(cipher, b, i) = {}
      BY <2>3, <2>6 DEF FromCount, Fits
    <3> QED BY <1>3, <2>4, <3>1, <3>2 DEF StillStated, TypeFirst
  <2> QED BY <2>5, <2>6
<1>10. CASE Blob
  <2>1. at = "blob" /\ at' = "type" /\ cipher' = cipher
        /\ reader'.buf = Bytes(reader) /\ reader'.off = 0
    BY <1>10 DEF Blob, Takes, ReaderOver, Over
  <2>2. FromBlob(cipher, b, i) = With(cipher, KeysIn(Bytes(reader)))
    BY <1>4, <1>10 DEF Blob, FromBlob
  <2> QED BY <1>3, <2>1, <2>2 DEF StillStated, TypeFirst
<1>11. CASE KeyType
  <2> DEFINE name == Bytes(reader)
             kind == KeyKind[name]
             t == Skip(reader).off
  <2>1. at = "type" /\ i = 0 /\ reader' = Skip(reader) /\ cipher' = cipher
        /\ Skip(reader).buf = b /\ End(b, 0) = {t} /\ Text(b, 0, t) = name
    BY <1>4, <1>11 DEF KeyType, Field, Takes, WireInv, TypeFirst
  <2>2. StillStated(at, reader, cipher, key) = With(cipher, KeysIn(b))
    BY <2>1 DEF StillStated
  <2>3. CASE name \notin DOMAIN KeyKind
    <3>1. at' = "error"
      BY <1>11, <2>3 DEF KeyType
    <3>2. KeysIn(b) = {}
      BY <2>1, <2>3 DEF KeysIn
    <3>3. With(cipher, KeysIn(b)) = {}
      BY <3>2 DEF With
    <3> QED BY <1>3, <2>2, <3>1, <3>3 DEF StillStated, TypeFirst
  <2>4. CASE name \in DOMAIN KeyKind
    <3>1. key' = Described(kind, <<>>) /\ kind \in Kinds
          /\ at' = CASE kind = "rsa" -> "e" [] kind \in {"sk-ed25519", "sk-ecdsa"} -> "read"
                     [] OTHER -> "fact"
      BY <1>11, <2>4, WireAssumption DEF KeyType
    <3> HIDE DEF name, kind, t
    <3>2. /\ kind = "rsa" => KeysIn(b) = FromExponent("rsa", b, t)
          /\ kind \in {"sk-ed25519", "sk-ecdsa"} => KeysIn(b) = {Described(kind, <<>>)}
          /\ kind \in {"dsa", "ecdsa", "ed25519"} => KeysIn(b) = FromFact(kind, b, t)
      BY <2>1, <2>4, KeysAfterType DEF kind
    <3>3. CASE kind = "rsa"
      <4>1. at' = "e" /\ key'.algorithm = "rsa"
        BY <3>1, <3>3 DEF Described, NoKey
      <4>2. KeysIn(b) = FromExponent("rsa", b, t)
        BY <3>2, <3>3
      <4>3. reader'.buf = b /\ reader'.off = t
        BY <2>1 DEF t
      <4> QED BY <1>3, <2>1, <2>2, <4>1, <4>2, <4>3 DEF StillStated, TypeFirst
    <3>4. CASE kind \in {"sk-ed25519", "sk-ecdsa"}
      <4>1. at' = "read"
        BY <3>1, <3>4
      <4>2. KeysIn(b) = {Described(kind, <<>>)}
        BY <3>2, <3>4
      <4>3. With(cipher, KeysIn(b)) = {[cipher |-> cipher, key |-> Described(kind, <<>>)]}
        BY <4>2 DEF With
      <4> QED BY <1>3, <2>1, <2>2, <3>1, <4>1, <4>3 DEF StillStated, TypeFirst
    <3>5. CASE kind \in {"dsa", "ecdsa", "ed25519"}
      <4>1. at' = "fact" /\ key'.algorithm = kind
        BY <3>1, <3>5 DEF Described, NoKey
      <4>2. KeysIn(b) = FromFact(kind, b, t)
        BY <3>2, <3>5
      <4>3. reader'.buf = b /\ reader'.off = t
        BY <2>1 DEF t
      <4> QED BY <1>3, <2>1, <2>2, <4>1, <4>2, <4>3 DEF StillStated, TypeFirst
    <3> QED BY <3>1, <3>3, <3>4, <3>5 DEF Kinds
  <2> QED BY <2>3, <2>4
<1>12. CASE Exponent
  <2>1. at = "e" /\ at' = "fact" /\ reader' = Skip(reader) /\ cipher' = cipher /\ key' = key
    BY <1>12 DEF Exponent, Field, Takes
  <2>2. FromExponent(key.algorithm, b, i) = FromFact(key.algorithm, b, Skip(reader).off)
    BY <1>4, <1>12 DEF Exponent, Field, FromExponent
  <2>3. Skip(reader).buf = b
    BY <1>4, <1>12 DEF Exponent, Field
  <2> QED BY <1>3, <2>1, <2>2, <2>3 DEF StillStated, TypeFirst
<1>13. CASE Fact
  <2>1. at = "fact" /\ at' = "read" /\ cipher' = cipher
        /\ key' = Described(key.algorithm, Bytes(reader))
    BY <1>13 DEF Fact, Field, Takes
  <2>2. FromFact(key.algorithm, b, i) = {key'}
    BY <1>4, <1>13, <2>1 DEF Fact, Field, FromFact
  <2>3. With(cipher, {key'}) = {[cipher |-> cipher, key |-> key']}
    BY DEF With
  <2> QED BY <1>3, <2>1, <2>2, <2>3 DEF StillStated, TypeFirst
<1> QED BY <1>5, <1>6, <1>7, <1>8, <1>9, <1>10, <1>11, <1>12, <1>13 DEF Parse

-----------------------------------------------------------------------------
(* The container that is read is the block at hand, and a key finding so far  *)
(* says of its protection what its block does.                               *)
ContainerOpen == pc = "openssh" => payload = This.payload
Says(f, b) == /\ f.protection = IF SaysEncrypted(b) THEN "encrypted" ELSE "plaintext"
              /\ StatedCiphers(b) # {} => f.cipher \in StatedCiphers(b) \cup {<<>>}
ReadInv == IInv /\ WireInv /\ ContainerOpen /\ ProtectionStated

LEMMA HeaderSays ==
  ASSUME NEW b \in Block, NEW format \in Formats
  PROVE  Header(b, format).protection = IF b.procType THEN "encrypted" ELSE "plaintext"
<1>1. PrivateKey(format).protection = "plaintext" /\ IsKey(PrivateKey(format))
  BY KeyType1 DEF PrivateKey, Found
<1>2. Encrypted(PrivateKey(format), b.dek).protection = "encrypted"
  BY <1>1 DEF Encrypted, IsKey, FoundType
<1> QED BY <1>1, <1>2 DEF Header

LEMMA ClassifySays ==
  ASSUME NEW b \in Block, b.type # "OPENSSH PRIVATE KEY", IsKey(ClassifyPEM(b))
  PROVE  Says(ClassifyPEM(b), b)
<1>1. StatedCiphers(b) = {}
  BY DEF StatedCiphers
<1>2. SaysEncrypted(b) <=> b.type = "ENCRYPTED PRIVATE KEY" \/ b.procType
  BY <1>1 DEF SaysEncrypted
<1>3. b.type \in PrivateTypes /\ b.procType \in BOOLEAN
  <2>1. Classified(ClassifyPEM(b), b)
    BY ClassifyType
  <2>2. NoFinding.kind = ""
    BY DEF NoFinding, Found
  <2>3. ClassifyPEM(b) # NoFinding /\ ~IsOther(ClassifyPEM(b))
    BY <2>2 DEF IsKey, IsOther
  <2> QED BY <2>1, <2>3 DEF Classified, Block
<1>4. ASSUME NEW format \in Formats
      PROVE  IsKey(Header(b, format))
             /\ Header(b, format).protection = IF b.procType THEN "encrypted" ELSE "plaintext"
  BY HeaderType, HeaderSays
<1>5. ASSUME NEW format \in Formats, NEW algorithm, NEW parses
      PROVE  Traditional(b, format, algorithm, parses).protection =
               IF b.procType THEN "encrypted" ELSE "plaintext"
  BY <1>4 DEF Traditional, IsKey, FoundType
<1>6. CASE b.type = "ENCRYPTED PRIVATE KEY"
  <2>1. ASSUME NEW name, NEW f, f \in FoundType PROVE Encrypted(f, name).protection = "encrypted"
    BY <2>1 DEF Encrypted, FoundType
  <2>2. Header(b, "pkcs8-pem") \in FoundType
    BY <1>4 DEF IsKey, Formats
  <2>3. ClassifyPEM(b).protection = "encrypted"
    BY <1>6, <2>1, <2>2 DEF ClassifyPEM
  <2> QED BY <1>1, <1>2, <1>6, <2>3 DEF Says
<1>7. CASE b.type \in {"RSA PRIVATE KEY", "EC PRIVATE KEY", "DSA PRIVATE KEY"}
  <2>1. ClassifyPEM(b).protection = IF b.procType THEN "encrypted" ELSE "plaintext"
    BY <1>5, <1>7 DEF ClassifyPEM, Formats
  <2> QED BY <1>1, <1>2, <1>7, <2>1 DEF Says
<1>8. CASE b.type \in {"PRIVATE KEY", "ANY PRIVATE KEY"}
  <2>1. \A f, k : IsKey(f) => DescribeKey(f, k).protection = f.protection
    BY DEF DescribeKey, Sized, IsKey, FoundType
  <2>2. ClassifyPEM(b).protection = IF b.procType THEN "encrypted" ELSE "plaintext"
    BY <1>4, <1>8, <2>1 DEF ClassifyPEM, Formats
  <2> QED BY <1>1, <1>2, <1>8, <2>2 DEF Says
<1> QED BY <1>3, <1>6, <1>7, <1>8 DEF PrivateTypes

(* What Return reports of a container is what the container states.          *)
LEMMA ReturnSays ==
  ASSUME ReadInv, pc = "openssh", Ended, block <= Len(file.blocks)
  PROVE  Says(IF at = "read" THEN OpenSSH ELSE Unread(This), This)
<1>1. This \in Block /\ This.type = "OPENSSH PRIVATE KEY" /\ payload = This.payload /\ WireType
  <2>1. block \in 1 .. Len(file.blocks) /\ file \in File
    BY LenProperties DEF ReadInv, IInv, TypeOK, File
  <2> QED BY <2>1, ElementOfSeq DEF ReadInv, IInv, TypeOK, File, This, InContainer, ContainerOpen
<1>2. StatedCiphers(This) = {c.cipher : c \in Stated(payload)}
  BY <1>1 DEF StatedCiphers, Stated
<1>3. CASE at = "read"
  <2> DEFINE sized == key.bits # 0 \/ \E i \in DOMAIN key.number : key.number[i] # 0
             f == [PrivateKey("openssh") EXCEPT !.algorithm = key.algorithm, !.sized = sized]
  <2>1. Stated(payload) = {[cipher |-> cipher, key |-> key]}
    BY <1>3 DEF ReadInv, WireInv, Left, StillStated
  <2>2. StatedCiphers(This) = {cipher}
    BY <1>2, <2>1
  <2>3. IsKey(PrivateKey("openssh")) /\ PrivateKey("openssh").protection = "plaintext"
        /\ PrivateKey("openssh").cipher = <<>>
    BY KeyType1 DEF Formats, PrivateKey, Found
  <2> HIDE DEF sized
  <2>4. f.protection = "plaintext" /\ f.cipher = <<>>
        /\ Encrypted(f, cipher).protection = "encrypted" /\ Encrypted(f, cipher).cipher = cipher
    BY <2>3 DEF Encrypted, IsKey, FoundType
  <2> HIDE DEF f
  <2>5. SaysEncrypted(This) <=> cipher \notin NoCipher
    BY <1>1, <2>2 DEF SaysEncrypted
  <2>6. OpenSSH = IF cipher \in NoCipher THEN f ELSE Encrypted(f, cipher)
    BY DEF OpenSSH, Protected, f, sized
  <2>7. Says(OpenSSH, This)
    BY <2>2, <2>4, <2>5, <2>6 DEF Says
  <2> QED BY <1>3, <2>7
<1>4. CASE at # "read"
  <2>1. Stated(payload) = {}
    BY <1>4 DEF ReadInv, WireInv, Left, StillStated, Ended
  <2>2. StatedCiphers(This) = {}
    BY <1>2, <2>1
  <2>3. SaysEncrypted(This) <=> This.procType
    BY <1>1, <2>2 DEF SaysEncrypted
  <2>4. Unread(This).protection = IF This.procType THEN "encrypted" ELSE "plaintext"
    BY <1>1, HeaderSays DEF Unread, Formats
  <2> QED BY <1>4, <2>2, <2>3, <2>4 DEF Says
<1> QED BY <1>3, <1>4

(* A finding more. *)
LEMMA ReportSays ==
  ASSUME ReadInv, Scanning, block <= Len(file.blocks), NEW f, Report(f), Classified(f, This),
         IsKey(f) => Says(f, This)
  PROVE  ReadInv'
<1> DEFINE new == [f EXCEPT !.line = block]
<1>1. IInv'
  BY ReportInv DEF ReadInv
<1>2. /\ file' = file /\ block' = block + 1 /\ pc' = "block" /\ UNCHANGED wireVars
      /\ found' = IF f = NoFinding THEN found ELSE Append(found, new)
  BY DEF Report
<1>3. WireInv' /\ ContainerOpen'
  BY <1>2 DEF ReadInv, WireInv, WireType, Inside, Left, TypeFirst, ContainerOpen, wireVars
<1>4. \A i \in Keys : found[i].line > 0 => Says(found[i], file.blocks[found[i].line])
  BY DEF ReadInv, ProtectionStated, Says
<1>5. CASE f = NoFinding
  <2>1. Keys' = Keys /\ found' = found
    BY <1>2, <1>5 DEF Keys
  <2>2. ProtectionStated'
    BY <1>2, <1>4, <2>1 DEF ProtectionStated, Says
  <2> QED BY <1>1, <1>3, <2>2 DEF ReadInv
<1>6. CASE f # NoFinding
  <2>1. f \in FoundType /\ block \in Nat /\ found \in Seq(FoundType)
    BY <1>6, LenProperties DEF Classified, IsKey, IsOther, ReadInv, IInv, TypeOK, File
  <2>2. /\ new \in FoundType /\ new.line = block /\ new.kind = f.kind
        /\ new.protection = f.protection /\ new.cipher = f.cipher
    BY <2>1 DEF FoundType
  <2> HIDE DEF new
  <2> DEFINE n == Len(found)
  <2>3. /\ n \in Nat /\ DOMAIN found = 1 .. n /\ DOMAIN found' = 1 .. n + 1
        /\ found'[n + 1] = new /\ \A i \in 1 .. n : found'[i] = found[i]
    BY <1>2, <1>6, <2>1, <2>2, AppendProperties, LenProperties
  <2>4. ASSUME NEW i \in Keys', found'[i].line > 0
        PROVE  Says(found'[i], file.blocks[found'[i].line])
    <3>1. CASE i \in 1 .. n
      BY <1>4, <2>3, <2>4, <3>1 DEF Keys
    <3>2. CASE i = n + 1
      <4>1. IsKey(f)
        BY <2>1, <2>2, <2>3, <3>2 DEF IsKey, Keys
      <4>2. Says(new, This)
        BY <2>2, <4>1 DEF Says
      <4> QED BY <2>2, <2>3, <3>2, <4>2 DEF This
    <3> QED BY <2>3, <3>1, <3>2 DEF Keys
  <2>5. ProtectionStated'
    BY <1>2, <2>4 DEF ProtectionStated, Says
  <2> QED BY <1>1, <1>3, <2>5 DEF ReadInv
<1> QED BY <1>5, <1>6

LEMMA NextRead == ReadInv /\ [Next]_vars => ReadInv'
<1> SUFFICES ASSUME ReadInv, [Next]_vars PROVE ReadInv'
  OBVIOUS
<1>1. IInv' /\ IInv
  BY NextInv DEF ReadInv
<1>2. ASSUME block <= Len(file.blocks) PROVE This \in Block
  <2>1. block \in 1 .. Len(file.blocks) /\ file \in File
    BY <1>1, <1>2, LenProperties DEF IInv, TypeOK, File
  <2> QED BY <2>1, ElementOfSeq DEF File, This
<1>3. ASSUME UNCHANGED wireVars PROVE WireInv'
  BY <1>3 DEF ReadInv, WireInv, WireType, Inside, Left, TypeFirst, wireVars
<1>4. ASSUME UNCHANGED <<file, found>> PROVE ProtectionStated'
  BY <1>4 DEF ReadInv, ProtectionStated, Keys
<1>5. CASE Recognise
  <2>1. file' = file /\ pc' = "done" /\ UNCHANGED wireVars
        /\ (found' = <<>> \/ (found' = <<WholeFile>> /\ WholeFile.line = 0))
    <3>1. WholeFile = NoFinding \/ WholeFile \in FoundType
      BY <1>1, WholeFileType DEF IInv, TypeOK
    <3>2. WholeFile.line = 0
      <4>1. \A kind, format, protection : Found(kind, format, protection).line = 0
        BY DEF Found
      <4>2. \A kind, format, protection, k :
              /\ DescribeKey(Found(kind, format, protection), k).line = 0
              /\ DescribePublic(Found(kind, format, protection), k).line = 0
              /\ Encrypted(Found(kind, format, protection), k).line = 0
        BY DEF DescribeKey, DescribePublic, Sized, Encrypted, Found
      <4>3. [PrivateKey("ppk") EXCEPT !.protection = file.ppk].line = 0
        BY DEF PrivateKey, Found
      <4>4. ScanDER(file.der).line = 0
        <5> DEFINE d == file.der  p == PrivateKey("pkcs8-der")
        <5>1. /\ DescribePublic(Found("certificate", "x509-der", "none"), d.key).line = 0
              /\ DescribeKey(p, d.key).line = 0 /\ Encrypted(p, EncryptionOf(d)).line = 0
              /\ DescribeKey(PrivateKey("pkcs1-der"), "rsa").line = 0
              /\ DescribeKey(PrivateKey("sec1-der"), "ecdsa").line = 0
              /\ Container("pkcs12").line = 0 /\ NoFinding.line = 0
          BY <4>1, <4>2 DEF PrivateKey, Container, NoFinding
        <5> QED BY <5>1 DEF ScanDER
      <4> QED BY <4>1, <4>3, <4>4 DEF WholeFile, Container, NoFinding
    <3> QED BY <1>5, <3>2 DEF Recognise
  <2>2. ProtectionStated'
    BY <2>1 DEF ProtectionStated, Keys
  <2> QED BY <1>1, <1>3, <2>1, <2>2 DEF ReadInv, ContainerOpen
<1>6. CASE ScanPEM
  BY <1>1, <1>3, <1>4, <1>6 DEF ScanPEM, ReadInv, ContainerOpen
<1>7. CASE Classify
  <2>1. Scanning /\ block <= Len(file.blocks) /\ Report(ClassifyPEM(This))
        /\ This.type # "OPENSSH PRIVATE KEY"
    BY <1>7 DEF Classify, More, Scanning
  <2>2. /\ Classified(ClassifyPEM(This), This)
        /\ (IsKey(ClassifyPEM(This)) => Says(ClassifyPEM(This), This))
    BY <1>2, <2>1, ClassifyType, ClassifySays
  <2> QED BY <2>1, <2>2, ReportSays
<1>8. CASE OpenContainer
  <2>1. This \in Block /\ Open(This.payload) /\ UNCHANGED <<file, block, found>>
    BY <1>2, <1>8 DEF OpenContainer, More
  <2>2. WireInv'
    BY <2>1, StatedOpen DEF Block
  <2>3. ContainerOpen'
    BY <2>1 DEF ContainerOpen, Open, This
  <2> QED BY <1>1, <1>4, <2>1, <2>2, <2>3 DEF ReadInv
<1>9. CASE ReadField
  <2>1. Parse /\ UNCHANGED <<file, pc, block, found>>
    BY <1>9 DEF ReadField
  <2>2. WireInv' /\ payload' = payload
    <3>1. payload' = payload
      BY <2>1 DEF Parse, Truncated, Cipher, Kdf, Options, Count, Blob, KeyType, Exponent, Fact,
                  Field
    <3> QED BY <2>1, <3>1, StatedParse DEF ReadInv
  <2> QED BY <1>1, <1>4, <2>1, <2>2 DEF ReadInv, ContainerOpen, This
<1>10. CASE Return
  <2> DEFINE f == IF at = "read" THEN OpenSSH ELSE Unread(This)
  <2>1. pc = "openssh" /\ Ended /\ Scanning /\ block <= Len(file.blocks) /\ Report(f)
    BY <1>1, <1>10 DEF Return, Scanning, IInv, TypeOK
  <2>2. Classified(f, This)
    <3>1. This.type \in PrivateTypes
      BY <1>1, <2>1 DEF IInv, InContainer, PrivateTypes
    <3>2. IsKey(OpenSSH) /\ IsKey(Unread(This))
      BY <1>1, <1>2, <2>1, OpenSSHType, HeaderType DEF Unread, Formats, IInv, TypeOK
    <3> QED BY <3>1, <3>2 DEF Classified
  <2>3. Says(f, This)
    BY <2>1, ReturnSays
  <2> QED BY <2>1, <2>2, <2>3, ReportSays
<1>11. CASE NoMoreBlocks
  BY <1>1, <1>3, <1>4, <1>11 DEF NoMoreBlocks, ReadInv, ContainerOpen
<1>12. CASE UNCHANGED vars
  BY <1>1, <1>3, <1>4, <1>12 DEF vars, wireVars, ReadInv, ContainerOpen, This
<1>13. CASE Done
  BY <1>12, <1>13 DEF Done
<1> QED BY <1>5, <1>6, <1>7, <1>8, <1>9, <1>10, <1>11, <1>12, <1>13 DEF Next

LEMMA ReadInvariance == Spec => []ReadInv
<1>1. Init => ReadInv
  <2> SUFFICES ASSUME Init PROVE ReadInv
    OBVIOUS
  <2>1. IInv /\ WireInv
    BY InitInv, StatedIdle DEF Init
  <2>2. ContainerOpen /\ ProtectionStated
    BY DEF Init, ContainerOpen, ProtectionStated, Keys
  <2> QED BY <2>1, <2>2 DEF ReadInv
<1> QED BY <1>1, NextRead, PTL DEF Spec

(* The cursor reads the format: for data of any length, and however it is cut *)
(* off or lies about its lengths, the parse ends with a key exactly when the  *)
(* container holds one, and with that one (openssh.go:24-50, sshwire.go:     *)
(* 68-112).                                                                  *)
THEOREM ContainersReadExactly == Spec => []Exact
<1>1. ReadInv => Exact
  <2> SUFFICES ASSUME ReadInv, Ended
               PROVE  Stated(payload) = IF at = "read" THEN {[cipher |-> cipher, key |-> key]} ELSE {}
    BY DEF Exact, Stated
  <2> QED BY DEF ReadInv, WireInv, Left, StillStated, Ended
<1> QED BY <1>1, ReadInvariance, PTL

(* Every key of a bundle is reported with the protection its own block        *)
(* states, and with no cipher of another (pem.go:104-109, openssh.go:58-64). *)
THEOREM ProtectionAsStated == Spec => []ProtectionStated
BY ReadInvariance, PTL DEF ReadInv
=============================================================================
