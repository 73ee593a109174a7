------------------------------ MODULE GlobProofs ------------------------------
(***************************************************************************)
(* Proofs about Glob, for patterns and paths of every length: the search     *)
(* that backtracks at "**" finds a match if and only if there is one, so the *)
(* walk hides what the patterns say.                                        *)
(***************************************************************************)
EXTENDS Glob, SequenceTheorems, TLAPS

(* The segments v to m of path s can be assigned to what a pattern holds     *)
(* from its segment u on: what a call of matchSegments is asked.            *)
Once(a, v, m, n) == \E x \in v .. m : a[x] = n /\ \A y \in v .. m : a[y] = n => y = x
Fits(a, p, s, m, u, v) ==
  /\ \A x, y \in v .. m : x < y => a[x] <= a[y]
  /\ \A x \in v .. m : PathMatch(p[a[x]], s[x])
  /\ \A n \in u .. Len(p) : p[n] # Any => Once(a, v, m, n)
Rest(p, s, m, u, v) == \E a \in [v .. m -> u .. Len(p)] : Fits(a, p, s, m, u, v)

-----------------------------------------------------------------------------
(* A pattern that is used up fits a path that is used up.                   *)
LEMMA RestEnd ==
  ASSUME NEW p, NEW s, Len(p) \in Nat, NEW m \in Nat, NEW u \in Nat, NEW v \in Nat, u > Len(p)
  PROVE  Rest(p, s, m, u, v) <=> v > m
<1>1. u .. Len(p) = {}
  OBVIOUS
<1>2. ASSUME Rest(p, s, m, u, v) PROVE v > m
  <2>1. PICK a \in [v .. m -> u .. Len(p)] : TRUE
    BY <1>2 DEF Rest
  <2>2. SUFFICES ASSUME ~(v > m) PROVE FALSE
    OBVIOUS
  <2>3. a[v] \in u .. Len(p)
    BY <2>1, <2>2
  <2> QED BY <1>1, <2>3
<1>3. ASSUME v > m PROVE Rest(p, s, m, u, v)
  <2> DEFINE a == [x \in v .. m |-> u]
  <2>1. v .. m = {}
    BY <1>3
  <2>2. a \in [v .. m -> u .. Len(p)]
    BY <2>1
  <2>3. Fits(a, p, s, m, u, v)
    BY <1>1, <2>1 DEF Fits
  <2> QED BY <2>2, <2>3 DEF Rest
<1> QED BY <1>2, <1>3

(* A segment other than "**" fits the next segment of the path, and only it. *)
LEMMA RestSegment ==
  ASSUME NEW p, NEW s, Len(p) \in Nat, NEW m \in Nat, NEW u \in Nat, NEW v \in Nat,
         u <= Len(p), p[u] # Any
  PROVE  Rest(p, s, m, u, v) <=> v <= m /\ PathMatch(p[u], s[v]) /\ Rest(p, s, m, u + 1, v + 1)
<1>1. ASSUME Rest(p, s, m, u, v)
      PROVE  v <= m /\ PathMatch(p[u], s[v]) /\ Rest(p, s, m, u + 1, v + 1)
  <2>1. PICK a \in [v .. m -> u .. Len(p)] : Fits(a, p, s, m, u, v)
    BY <1>1 DEF Rest
  <2>2. PICK x \in v .. m : a[x] = u /\ \A y \in v .. m : a[y] = u => y = x
    BY <2>1 DEF Fits, Once
  <2>3. v \in v .. m /\ a[v] \in u .. Len(p)
    BY <2>1, <2>2
  <2>4. x = v
    <3>1. CASE v < x
      <4>1. a[v] <= a[x]
        BY <2>1, <2>3, <3>1 DEF Fits
      <4> QED BY <2>2, <2>3, <4>1
    <3> QED BY <2>2, <2>3, <3>1
  <2> DEFINE b == [y \in v + 1 .. m |-> a[y]]
  <2>5. b \in [v + 1 .. m -> u + 1 .. Len(p)]
    <3> SUFFICES ASSUME NEW y \in v + 1 .. m PROVE a[y] \in u + 1 .. Len(p)
      OBVIOUS
    <3>1. y \in v .. m /\ y # v /\ a[y] \in u .. Len(p)
      BY <2>1
    <3> QED BY <2>2, <2>4, <3>1
  <2>6. Fits(b, p, s, m, u + 1, v + 1)
    <3>1. \A y \in v + 1 .. m : y \in v .. m /\ b[y] = a[y]
      OBVIOUS
    <3>2. ASSUME NEW n \in u + 1 .. Len(p), p[n] # Any PROVE Once(b, v + 1, m, n)
      <4>1. n \in u .. Len(p) /\ n # u
        OBVIOUS
      <4>2. PICK z \in v .. m : a[z] = n /\ \A y \in v .. m : a[y] = n => y = z
        BY <2>1, <3>2, <4>1 DEF Fits, Once
      <4>3. z \in v + 1 .. m
        BY <2>2, <2>4, <4>1, <4>2
      <4> HIDE DEF b
      <4> QED BY <3>1, <4>2, <4>3 DEF Once
    <3> HIDE DEF b
    <3> QED BY <2>1, <3>1, <3>2 DEF Fits
  <2>7. PathMatch(p[u], s[v])
    BY <2>1, <2>2, <2>4 DEF Fits
  <2> QED BY <2>3, <2>5, <2>6, <2>7 DEF Rest
<1>2. ASSUME v <= m, PathMatch(p[u], s[v]), Rest(p, s, m, u + 1, v + 1)
      PROVE  Rest(p, s, m, u, v)
  <2>1. PICK b \in [v + 1 .. m -> u + 1 .. Len(p)] : Fits(b, p, s, m, u + 1, v + 1)
    BY <1>2 DEF Rest
  <2> DEFINE a == [y \in v .. m |-> IF y = v THEN u ELSE b[y]]
  <2>2. \A y \in v .. m : y # v => y \in v + 1 .. m
    OBVIOUS
  <2>3. a \in [v .. m -> u .. Len(p)]
    <3> SUFFICES ASSUME NEW y \in v .. m PROVE (IF y = v THEN u ELSE b[y]) \in u .. Len(p)
      OBVIOUS
    <3>1. CASE y # v
      <4>1. b[y] \in u + 1 .. Len(p)
        BY <2>1, <2>2, <3>1
      <4> QED BY <3>1, <4>1
    <3> QED BY <3>1
  <2>4. /\ a[v] = u
        /\ \A y \in v + 1 .. m : y \in v .. m /\ y # v /\ a[y] = b[y] /\ b[y] \in u + 1 .. Len(p)
    BY <1>2, <2>1
  <2> HIDE DEF a
  <2>5. \A x, y \in v .. m : x < y => a[x] <= a[y]
    <3> SUFFICES ASSUME NEW x \in v .. m, NEW y \in v .. m, x < y PROVE a[x] <= a[y]
      OBVIOUS
    <3>1. y \in v + 1 .. m
      OBVIOUS
    <3>2. CASE x = v
      BY <2>4, <3>1, <3>2
    <3>3. CASE x # v
      <4>1. x \in v + 1 .. m
        BY <2>2, <3>3
      <4>2. b[x] <= b[y]
        BY <2>1, <3>1, <4>1 DEF Fits
      <4> QED BY <2>4, <3>1, <4>1, <4>2
    <3> QED BY <3>2, <3>3
  <2>6. \A x \in v .. m : PathMatch(p[a[x]], s[x])
    <3> SUFFICES ASSUME NEW x \in v .. m PROVE PathMatch(p[a[x]], s[x])
      OBVIOUS
    <3>1. CASE x = v
      BY <1>2, <2>4, <3>1
    <3>2. CASE x # v
      BY <2>1, <2>2, <2>4, <3>2 DEF Fits
    <3> QED BY <3>1, <3>2
  <2>7. ASSUME NEW n \in u .. Len(p), p[n] # Any PROVE Once(a, v, m, n)
    <3>1. CASE n = u
      <4>1. v \in v .. m /\ \A y \in v .. m : a[y] = n => y = v
        BY <1>2, <2>2, <2>4, <3>1
      <4> QED BY <2>4, <3>1, <4>1 DEF Once
    <3>2. CASE n # u
      <4>1. n \in u + 1 .. Len(p)
        BY <3>2
      <4>2. PICK x \in v + 1 .. m : b[x] = n /\ \A y \in v + 1 .. m : b[y] = n => y = x
        BY <2>1, <2>7, <4>1 DEF Fits, Once
      <4>3. x \in v .. m /\ a[x] = n
        BY <2>4, <4>2
      <4>4. ASSUME NEW y \in v .. m, a[y] = n PROVE y = x
        BY <2>2, <2>4, <3>2, <4>2, <4>4
      <4> QED BY <4>3, <4>4 DEF Once
    <3> QED BY <3>1, <3>2
  <2>8. Fits(a, p, s, m, u, v)
    BY <2>5, <2>6, <2>7 DEF Fits
  <2> QED BY <2>3, <2>8 DEF Rest
<1> QED BY <1>1, <1>2

(* "**" absorbs nothing more, or the next segment and perhaps more.         *)
LEMMA RestStar ==
  ASSUME NEW p, NEW s, Len(p) \in Nat, NEW m \in Nat, NEW u \in Nat, NEW v \in Nat,
         u <= Len(p), p[u] = Any
  PROVE  Rest(p, s, m, u, v) <=> Rest(p, s, m, u + 1, v) \/ (v <= m /\ Rest(p, s, m, u, v + 1))
<1>1. ASSUME Rest(p, s, m, u, v), v <= m, ~Rest(p, s, m, u + 1, v)
      PROVE  Rest(p, s, m, u, v + 1)
  <2>1. PICK a \in [v .. m -> u .. Len(p)] : Fits(a, p, s, m, u, v)
    BY <1>1 DEF Rest
  <2>2. v \in v .. m /\ a[v] \in u .. Len(p)
    BY <1>1, <2>1
  <2>3. a[v] = u
    <3> SUFFICES ASSUME a[v] # u PROVE FALSE
      OBVIOUS
    <3>1. ASSUME NEW y \in v .. m PROVE a[y] \in u + 1 .. Len(p)
      <4>1. v <= y /\ a[y] \in u .. Len(p)
        BY <2>1
      <4>2. a[v] <= a[y]
        <5>1. CASE v < y
          BY <2>1, <2>2, <5>1 DEF Fits
        <5>2. CASE v = y
          BY <2>2, <5>2
        <5> QED BY <4>1, <5>1, <5>2
      <4> QED BY <2>2, <4>1, <4>2
    <3>2. a \in [v .. m -> u + 1 .. Len(p)]
      BY <2>1, <3>1
    <3>3. Fits(a, p, s, m, u + 1, v)
      BY <2>1 DEF Fits
    <3> QED BY <1>1, <3>2, <3>3 DEF Rest
  <2> DEFINE b == [y \in v + 1 .. m |-> a[y]]
  <2>4. \A y \in v + 1 .. m : y \in v .. m /\ b[y] = a[y]
    OBVIOUS
  <2>5. b \in [v + 1 .. m -> u .. Len(p)]
    BY <2>1
  <2> HIDE DEF b
  <2>6. ASSUME NEW n \in u .. Len(p), p[n] # Any PROVE Once(b, v + 1, m, n)
    <3>1. PICK z \in v .. m : a[z] = n /\ \A y \in v .. m : a[y] = n => y = z
      BY <2>1, <2>6 DEF Fits, Once
    <3>2. z \in v + 1 .. m
      BY <2>3, <2>6, <3>1
    <3> QED BY <2>4, <3>1, <3>2 DEF Once
  <2>7. Fits(b, p, s, m, u, v + 1)
    BY <2>1, <2>4, <2>6 DEF Fits
  <2> QED BY <2>5, <2>7 DEF Rest
<1>2. ASSUME Rest(p, s, m, u, v), ~(v <= m) PROVE Rest(p, s, m, u + 1, v)
  <2>1. PICK a \in [v .. m -> u .. Len(p)] : Fits(a, p, s, m, u, v)
    BY <1>2 DEF Rest
  <2>2. v .. m = {}
    BY <1>2
  <2>3. a \in [v .. m -> u + 1 .. Len(p)]
    BY <2>1, <2>2
  <2>4. Fits(a, p, s, m, u + 1, v)
    BY <2>1 DEF Fits
  <2> QED BY <2>3, <2>4 DEF Rest
<1>3. ASSUME Rest(p, s, m, u + 1, v) PROVE Rest(p, s, m, u, v)
  <2>1. PICK a \in [v .. m -> u + 1 .. Len(p)] : Fits(a, p, s, m, u + 1, v)
    BY <1>3 DEF Rest
  <2>2. a \in [v .. m -> u .. Len(p)]
    BY <2>1
  <2>3. ASSUME NEW n \in u .. Len(p), p[n] # Any PROVE Once(a, v, m, n)
    <3>1. n \in u + 1 .. Len(p)
      BY <2>3
    <3> QED BY <2>1, <2>3, <3>1 DEF Fits
  <2>4. Fits(a, p, s, m, u, v)
    BY <2>1, <2>3 DEF Fits
  <2> QED BY <2>2, <2>4 DEF Rest
<1>4. ASSUME v <= m, Rest(p, s, m, u, v + 1) PROVE Rest(p, s, m, u, v)
  <2>1. PICK b \in [v + 1 .. m -> u .. Len(p)] : Fits(b, p, s, m, u, v + 1)
    BY <1>4 DEF Rest
  <2> DEFINE a == [y \in v .. m |-> IF y = v THEN u ELSE b[y]]
  <2>2. \A y \in v .. m : y # v => y \in v + 1 .. m
    OBVIOUS
  <2>3. a \in [v .. m -> u .. Len(p)]
    <3> SUFFICES ASSUME NEW y \in v .. m PROVE (IF y = v THEN u ELSE b[y]) \in u .. Len(p)
      OBVIOUS
    <3>1. CASE y # v
      BY <2>1, <2>2, <3>1
    <3> QED BY <3>1
  <2>4. /\ a[v] = u
        /\ \A y \in v + 1 .. m : y \in v .. m /\ y # v /\ a[y] = b[y] /\ b[y] \in u .. Len(p)
    BY <1>4, <2>1
  <2> HIDE DEF a
  <2>5. \A x, y \in v .. m : x < y => a[x] <= a[y]
    <3> SUFFICES ASSUME NEW x \in v .. m, NEW y \in v .. m, x < y PROVE a[x] <= a[y]
      OBVIOUS
    <3>1. y \in v + 1 .. m
      OBVIOUS
    <3>2. CASE x = v
      BY <2>4, <3>1, <3>2
    <3>3. CASE x # v
      <4>1. x \in v + 1 .. m
        BY <2>2, <3>3
      <4>2. b[x] <= b[y]
        BY <2>1, <3>1, <4>1 DEF Fits
      <4> QED BY <2>4, <3>1, <4>1, <4>2
    <3> QED BY <3>2, <3>3
  <2>6. \A x \in v .. m : PathMatch(p[a[x]], s[x])
    <3> SUFFICES ASSUME NEW x \in v .. m PROVE PathMatch(p[a[x]], s[x])
      OBVIOUS
    <3>1. CASE x = v
      BY <2>4, <3>1 DEF PathMatch
    <3>2. CASE x # v
      BY <2>1, <2>2, <2>4, <3>2 DEF Fits
    <3> QED BY <3>1, <3>2
  <2>7. ASSUME NEW n \in u .. Len(p), p[n] # Any PROVE Once(a, v, m, n)
    <3>1. PICK x \in v + 1 .. m : b[x] = n /\ \A y \in v + 1 .. m : b[y] = n => y = x
      BY <2>1, <2>7 DEF Fits, Once
    <3>2. x \in v .. m /\ a[x] = n
      BY <2>4, <3>1
    <3>3. ASSUME NEW y \in v .. m, a[y] = n PROVE y = x
      <4>1. y # v
        BY <2>4, <2>7, <3>3
      <4> QED BY <2>2, <2>4, <3>1, <3>3, <4>1
    <3> QED BY <3>2, <3>3 DEF Once
  <2>8. Fits(a, p, s, m, u, v)
    BY <2>5, <2>6, <2>7 DEF Fits
  <2> QED BY <2>3, <2>8 DEF Rest
<1> QED BY <1>1, <1>2, <1>3, <1>4

(* Asked of a whole pattern and the first m segments of a path, it is what   *)
(* the documentation of Match promises.                                     *)
LEMMA RestWhole ==
  ASSUME NEW p \in Seq(Globs \cup {Any}), NEW s \in Seq(Names), NEW m \in 1 .. Len(s)
  PROVE  Aligned(p, SubSeq(s, 1, m)) <=> Rest(p, s, m, 1, 1)
<1> DEFINE t == SubSeq(s, 1, m)
<1>1. DOMAIN t = 1 .. m /\ \A x \in 1 .. m : t[x] = s[x]
  BY SubSeqProperties, LenProperties
<1>2. DOMAIN p = 1 .. Len(p)
  BY LenProperties
<1> HIDE DEF t
<1> DEFINE Single(a, D, n) == \E x \in D : {y \in D : a[y] = n} = {x}
           One(a, D, n)    == \E x \in D : a[x] = n /\ \A y \in D : a[y] = n => y = x
<1>3. ASSUME NEW a, NEW D, NEW n PROVE Single(a, D, n) <=> One(a, D, n)
  <2>1. ASSUME NEW x \in D, {y \in D : a[y] = n} = {x} PROVE One(a, D, n)
    <3>1. \A y \in D : y \in {z \in D : a[z] = n} <=> y = x
      BY <2>1, Zenon
    <3>2. \A y \in D : a[y] = n <=> y = x
      BY <3>1, Zenon
    <3> QED BY <3>2, Zenon
  <2>2. ASSUME One(a, D, n) PROVE \E x \in D : {y \in D : a[y] = n} = {x}
    <3>1. PICK x \in D : a[x] = n /\ \A y \in D : a[y] = n => y = x
      BY <2>2, Zenon
    <3>2. {y \in D : a[y] = n} = {x}
      BY <3>1
    <3> QED BY <3>2
  <2> QED BY <2>1, <2>2, Zenon
<1>4. Aligned(p, t) <=>
        \E a \in [DOMAIN t -> DOMAIN p] :
          /\ \A x, y \in DOMAIN t : x < y => a[x] <= a[y]
          /\ \A x \in DOMAIN t : PathMatch(p[a[x]], t[x])
          /\ \A n \in DOMAIN p : p[n] # Any => One(a, DOMAIN t, n)
  <2>1. Aligned(p, t) <=>
          \E a \in [DOMAIN t -> DOMAIN p] :
            /\ \A x, y \in DOMAIN t : x < y => a[x] <= a[y]
            /\ \A x \in DOMAIN t : PathMatch(p[a[x]], t[x])
            /\ \A n \in DOMAIN p : p[n] # Any => Single(a, DOMAIN t, n)
    BY Zenon DEF Aligned
  <2> HIDE DEF Single, One
  <2> QED BY <1>3, <2>1
<1> HIDE DEF Single, One
<1>5. Aligned(p, t) <=>
        \E a \in [1 .. m -> 1 .. Len(p)] :
          /\ \A x, y \in 1 .. m : x < y => a[x] <= a[y]
          /\ \A x \in 1 .. m : PathMatch(p[a[x]], t[x])
          /\ \A n \in 1 .. Len(p) : p[n] # Any => One(a, 1 .. m, n)
  BY <1>1, <1>2, <1>4
<1>6. \A a, n : One(a, 1 .. m, n) <=> Once(a, 1, m, n)
  BY Zenon DEF One, Once
<1>7. Aligned(p, t) <=> Rest(p, s, m, 1, 1)
  BY <1>1, <1>5, <1>6 DEF Rest, Fits
<1> QED BY <1>7 DEF t

-----------------------------------------------------------------------------
(* What the inputs are. *)
LEMMA Inputs ==
  ASSUME TypeOK
  PROVE  /\ path \in Seq(Names) /\ Len(path) \in Nat /\ Len(path) >= 1
         /\ DOMAIN path = 1 .. Len(path)
         /\ Len(patterns) \in Nat /\ DOMAIN patterns = 1 .. Len(patterns)
         /\ \A n \in 1 .. Len(patterns) :
              /\ patterns[n] \in Seq(Globs \cup {Any})
              /\ Len(patterns[n]) \in Nat /\ Len(patterns[n]) >= 1
<1>1. path \in Seq(Names) \ {<<>>} /\ patterns \in Seq(Seq(Globs \cup {Any}) \ {<<>>})
  BY GlobAssumption DEF TypeOK
<1>2. Len(path) \in Nat /\ Len(path) >= 1 /\ DOMAIN path = 1 .. Len(path)
  BY <1>1, LenProperties, EmptySeq
<1>3. Len(patterns) \in Nat /\ DOMAIN patterns = 1 .. Len(patterns)
  BY <1>1, LenProperties
<1>4. ASSUME NEW n \in 1 .. Len(patterns)
      PROVE  /\ patterns[n] \in Seq(Globs \cup {Any})
             /\ Len(patterns[n]) \in Nat /\ Len(patterns[n]) >= 1
  <2>1. patterns[n] \in Seq(Globs \cup {Any}) \ {<<>>}
    BY <1>1, ElementOfSeq
  <2> QED BY <2>1, LenProperties, EmptySeq
<1> QED BY <1>1, <1>2, <1>3, <1>4

(* An error of path.Match is a miss: malformed globs accept nothing.        *)
LEMMA OkMatches ==
  ASSUME NEW g, NEW s PROVE Ok(g, s) <=> PathMatch(g, s)
BY GlobAssumption DEF Ok, PathMatch

-----------------------------------------------------------------------------
(* The segments that are asked about: those of a directory, or of the file.  *)
Here == SubSeq(path, 1, depth)
Searching == verdict = "walking" /\ k <= Len(patterns)

(* What the calls that have not returned can still answer: the innermost one *)
(* for the segments at hand, and each "**" once it absorbs more.             *)
Still(f) == f.upto <= depth /\ Rest(Pattern, path, depth, f.at, f.upto + 1)
Behind == \E n \in DOMAIN frames : Still(frames[n])
Ahead == (~failed /\ Rest(Pattern, path, depth, i, j)) \/ Behind

(* While a pattern is tried nothing is lost and nothing made up: it matches  *)
(* if and only if what is still to be tried does.                           *)
BarePending ==
  Searching /\ Len(Pattern) = 1 =>
    /\ i = 1 /\ failed = FALSE /\ frames = <<>>
    /\ Matches(Pattern, Here) <=> \E x \in j .. depth : PathMatch(Pattern[1], path[x])
Framed == \A n \in DOMAIN frames : frames[n].at <= Len(Pattern) /\ Pattern[frames[n].at] = Any
SlashedPending ==
  Searching /\ Len(Pattern) # 1 =>
    i <= Len(Pattern) + 1 /\ Framed /\ (Matches(Pattern, Here) <=> Ahead)

(* What was tried before matched nothing. *)
Tried ==
  verdict = "walking" =>
    /\ \A n \in 1 .. k - 1 : ~Matches(patterns[n], Here)
    /\ \A d \in 1 .. depth - 1 : ~MatchesOne(SubSeq(path, 1, d))

IInv == TypeOK /\ BarePending /\ SlashedPending /\ Tried /\ VerdictExact

LEMMA HereIs ==
  ASSUME TypeOK
  PROVE  depth \in Nat /\ DOMAIN Here = 1 .. depth /\ \A x \in 1 .. depth : Here[x] = path[x]
BY Inputs, SubSeqProperties, LenProperties DEF Here, TypeOK

(* A pattern tried from its start: all of it is ahead. *)
AtStart == i = 1 /\ j = 1 /\ failed = FALSE /\ frames = <<>>
LEMMA Fresh == TypeOK /\ AtStart => BarePending /\ SlashedPending
<1> USE DEF AtStart
<1> SUFFICES ASSUME TypeOK, AtStart, Searching PROVE BarePending /\ SlashedPending
  BY DEF BarePending, SlashedPending
<1>1. /\ Pattern \in Seq(Globs \cup {Any}) /\ Len(Pattern) \in Nat /\ Len(Pattern) >= 1
      /\ path \in Seq(Names) /\ depth \in 1 .. Len(path)
  BY Inputs DEF TypeOK, Searching, Pattern
<1>2. DOMAIN frames = {}
  BY EmptySeq
<1>3. CASE Len(Pattern) = 1
  <2>1. Matches(Pattern, Here) <=> \E x \in j .. depth : PathMatch(Pattern[1], path[x])
    BY <1>3, HereIs DEF Matches
  <2> QED BY <1>3, <2>1 DEF BarePending, SlashedPending
<1>4. CASE Len(Pattern) # 1
  <2>1. Matches(Pattern, Here) <=> Rest(Pattern, path, depth, i, j)
    BY <1>1, <1>4, RestWhole DEF Matches, Here
  <2>2. Matches(Pattern, Here) <=> Ahead
    BY <1>2, <2>1 DEF Ahead, Behind
  <2>3. Framed
    BY <1>2 DEF Framed
  <2> QED BY <1>1, <1>4, <2>2, <2>3 DEF BarePending, SlashedPending
<1> QED BY <1>3, <1>4

LEMMA InitInv == Init => IInv
<1> SUFFICES ASSUME Init PROVE IInv
  OBVIOUS
<1>1. TypeOK
  <2>1. Len(path) \in Nat /\ Len(path) >= 1 /\ Len(patterns) \in Nat
    <3>1. path \in Seq(Names) \ {<<>>} /\ patterns \in Seq(Seq(Globs \cup {Any}) \ {<<>>})
      BY GlobAssumption DEF Init
    <3> QED BY <3>1, LenProperties, EmptySeq
  <2>2. frames \in Seq([at : Nat \ {0}, upto : 1 .. depth + 1])
    BY EmptySeq DEF Init
  <2>3. /\ patterns \in PatternLists /\ path \in Paths /\ depth \in 1 .. Len(path)
        /\ k \in 1 .. Len(patterns) + 1 /\ i \in Nat \ {0} /\ j \in 1 .. depth + 1
    BY <2>1 DEF Init
  <2>4. failed \in BOOLEAN /\ verdict \in {"walking", "hidden", "taken"}
    BY Zenon DEF Init
  <2> QED BY <2>2, <2>3, <2>4, Zenon DEF TypeOK
<1>2. BarePending /\ SlashedPending
  BY <1>1, Fresh DEF Init, AtStart
<1>3. Tried /\ VerdictExact
  BY DEF Init, Tried, VerdictExact
<1> QED BY <1>1, <1>2, <1>3 DEF IInv

-----------------------------------------------------------------------------
(* A pattern that matches hides the file. *)
LEMMA HiddenInv ==
  ASSUME IInv, Searching, Matches(Pattern, Here), Hidden
  PROVE  IInv'
<1>1. TypeOK /\ depth \in DOMAIN path /\ k \in DOMAIN patterns
  BY Inputs DEF IInv, TypeOK, Searching
<1>2. MatchesOne(SubSeq(path, 1, depth))
  BY <1>1 DEF MatchesOne, Pattern, Here
<1>3. VerdictExact'
  <2>1. \E d \in DOMAIN path : MatchesOne(SubSeq(path, 1, d))
    BY <1>1, <1>2
  <2> QED BY <2>1 DEF VerdictExact, Hidden, MatchesOne
<1>4. TypeOK'
  BY <1>1 DEF TypeOK, Hidden
<1>5. BarePending' /\ SlashedPending' /\ Tried'
  BY DEF Hidden, BarePending, SlashedPending, Tried, Searching
<1> QED BY <1>3, <1>4, <1>5 DEF IInv

(* A pattern that does not match gives way to the next one. *)
LEMMA NextPatternInv ==
  ASSUME IInv, Searching, ~Matches(Pattern, Here),
         k' = k + 1, Restart, UNCHANGED <<patterns, path, depth, verdict>>
  PROVE  IInv'
<1>1. TypeOK /\ Tried /\ Len(patterns) \in Nat /\ depth \in Nat /\ depth >= 1
  BY Inputs DEF IInv, TypeOK
<1>2. TypeOK'
  <2>1. frames' \in Seq([at : Nat \ {0}, upto : 1 .. depth' + 1])
    BY EmptySeq DEF Restart
  <2>2. /\ patterns' \in PatternLists /\ path' \in Paths /\ depth' \in 1 .. Len(path')
        /\ k' \in 1 .. Len(patterns') + 1 /\ i' \in Nat \ {0} /\ j' \in 1 .. depth' + 1
    BY <1>1 DEF TypeOK, Searching, Restart
  <2>3. failed' \in BOOLEAN /\ verdict' \in {"walking", "hidden", "taken"}
    BY <1>1, Zenon DEF TypeOK, Restart
  <2> QED BY <2>1, <2>2, <2>3, Zenon DEF TypeOK
<1>3. (BarePending /\ SlashedPending)'
  <2>1. AtStart'
    BY DEF Restart, AtStart
  <2> QED BY <1>2, <2>1, Fresh, PTL
<1>4. Tried'
  <2> SUFFICES ASSUME verdict = "walking"
               PROVE  /\ \A n \in 1 .. k : ~Matches(patterns[n], Here)
                      /\ \A d \in 1 .. depth - 1 : ~MatchesOne(SubSeq(path, 1, d))
    BY <1>1 DEF Tried, Here, MatchesOne, TypeOK
  <2>1. ASSUME NEW n \in 1 .. k PROVE ~Matches(patterns[n], Here)
    BY <1>1 DEF Tried, Pattern, TypeOK
  <2> QED BY <1>1, <2>1 DEF Tried
<1>5. VerdictExact'
  BY DEF Searching, VerdictExact
<1> QED BY <1>2, <1>3, <1>4, <1>5 DEF IInv

(* While the same pattern is tried for the same segments. *)
LEMMA SameQuestion ==
  ASSUME IInv, Searching, UNCHANGED <<patterns, path, depth, k, verdict>>,
         i' \in Nat \ {0}, j' \in 1 .. depth + 1, failed' \in BOOLEAN,
         frames' \in Seq([at : Nat \ {0}, upto : 1 .. depth + 1]),
         BarePending', SlashedPending'
  PROVE  IInv'
<1>1. TypeOK'
  <2>1. frames' \in Seq([at : Nat \ {0}, upto : 1 .. depth' + 1]) /\ j' \in 1 .. depth' + 1
    OBVIOUS
  <2> QED BY <2>1, Zenon DEF IInv, TypeOK
<1>2. Tried' /\ VerdictExact'
  BY DEF IInv, Tried, VerdictExact, Searching, MatchesOne, Here
<1> QED BY <1>1, <1>2 DEF IInv

(* What is known while a pattern with "/" is tried. *)
LEMMA SlashedFacts ==
  ASSUME IInv, Trying, Len(Pattern) > 1
  PROVE  /\ Searching /\ Len(Pattern) \in Nat /\ depth \in Nat
         /\ i \in Nat \ {0} /\ i <= Len(Pattern) + 1 /\ j \in Nat \ {0} /\ j <= depth + 1
         /\ failed \in BOOLEAN /\ frames \in Seq([at : Nat \ {0}, upto : 1 .. depth + 1])
         /\ Len(frames) \in Nat /\ DOMAIN frames = 1 .. Len(frames)
         /\ \A n \in 1 .. Len(frames) :
              frames[n] \in [at : Nat \ {0}, upto : 1 .. depth + 1]
         /\ Framed /\ (Matches(Pattern, Here) <=> Ahead)
<1>1. TypeOK /\ SlashedPending
  BY DEF IInv
<1>2. Searching
  BY DEF Trying, Searching
<1>3. Len(Pattern) \in Nat /\ depth \in Nat /\ i \in Nat \ {0} /\ j \in Nat \ {0} /\ j <= depth + 1
  BY <1>1, <1>2, Inputs DEF TypeOK, Searching, Pattern
<1>4. /\ frames \in Seq([at : Nat \ {0}, upto : 1 .. depth + 1]) /\ failed \in BOOLEAN
  BY <1>1, Zenon DEF TypeOK
<1>5. /\ Len(frames) \in Nat /\ DOMAIN frames = 1 .. Len(frames)
      /\ \A n \in 1 .. Len(frames) : frames[n] \in [at : Nat \ {0}, upto : 1 .. depth + 1]
  BY <1>4, LenProperties, ElementOfSeq
<1>6. i <= Len(Pattern) + 1 /\ Framed /\ (Matches(Pattern, Here) <=> Ahead)
  <2>1. Len(Pattern) # 1
    <3> SUFFICES ASSUME Len(Pattern) = 1 PROVE FALSE
      OBVIOUS
    <3> QED OBVIOUS
  <2> QED BY <1>1, <1>2, <2>1, Zenon DEF SlashedPending
<1> QED BY <1>2, <1>3, <1>4, <1>5, <1>6, Zenon

(* A step of the search for a pattern with "/" loses nothing. *)
LEMMA SlashedStep ==
  ASSUME IInv, Trying, Len(Pattern) > 1, UNCHANGED <<patterns, path, depth, k, verdict>>,
         i' \in Nat \ {0}, i' <= Len(Pattern) + 1, j' \in 1 .. depth + 1, failed' \in BOOLEAN,
         frames' \in Seq([at : Nat \ {0}, upto : 1 .. depth + 1]), Framed', Ahead <=> Ahead'
  PROVE  IInv'
<1>1. Searching /\ (Matches(Pattern, Here) <=> Ahead) /\ Len(Pattern) \in Nat
  BY SlashedFacts
<1>2. Pattern' = Pattern /\ Here' = Here
  BY DEF Pattern, Here
<1>3. SlashedPending'
  BY <1>1, <1>2 DEF SlashedPending
<1>4. BarePending'
  BY <1>1, <1>2 DEF BarePending
<1> QED BY <1>1, <1>3, <1>4, SameQuestion

LEMMA DoubleStarInv == ASSUME IInv, DoubleStar PROVE IInv'
<1>1. /\ Trying /\ Len(Pattern) > 1 /\ ~failed /\ i <= Len(Pattern) /\ Pattern[i] = Any
      /\ UNCHANGED <<patterns, path, depth, k, verdict>>
  BY DEF DoubleStar, Slashed
<1>2. Pattern' = Pattern
  BY <1>1 DEF Pattern
<1> DEFINE f == [at |-> i, upto |-> j]
<1>3. /\ frames' = Append(frames, f) /\ i' = i + 1 /\ j' = j /\ failed' = failed
  <2>1. Loops(j + Fewest) /\ j + Fewest = j
    BY <1>1, SlashedFacts DEF Loops, Fewest
  <2> QED BY <2>1 DEF DoubleStar
<1>4. f \in [at : Nat \ {0}, upto : 1 .. depth + 1] /\ f.at = i /\ f.upto = j
  BY <1>1, SlashedFacts
<1> HIDE DEF f
<1>5. /\ frames' \in Seq([at : Nat \ {0}, upto : 1 .. depth + 1])
      /\ DOMAIN frames' = 1 .. Len(frames) + 1 /\ frames'[Len(frames) + 1] = f
      /\ \A n \in 1 .. Len(frames) : frames'[n] = frames[n]
  BY <1>1, <1>3, <1>4, SlashedFacts, AppendProperties, LenProperties
<1>6. Framed'
  <2> SUFFICES ASSUME NEW n \in 1 .. Len(frames) + 1
               PROVE  frames'[n].at <= Len(Pattern) /\ Pattern[frames'[n].at] = Any
    BY <1>2, <1>5 DEF Framed
  <2>1. CASE n = Len(frames) + 1
    BY <1>1, <1>4, <1>5, <2>1
  <2>2. CASE n # Len(frames) + 1
    <3>1. n \in 1 .. Len(frames)
      BY <1>1, <2>2, SlashedFacts
    <3> QED BY <1>1, <1>5, <3>1, SlashedFacts DEF Framed
  <2> QED BY <2>1, <2>2
<1>7. Still(f) <=> j <= depth /\ Rest(Pattern, path, depth, i, j + 1)
  BY <1>4 DEF Still
<1>8. Behind' <=> Behind \/ Still(f)
  <2>1. \A g : Still(g)' <=> Still(g)
    BY <1>1, <1>2 DEF Still
  <2>2. Behind' <=> \E n \in 1 .. Len(frames) + 1 : Still(frames'[n])
    BY <1>1, <1>2, <1>5 DEF Behind, Still
  <2>3. Behind <=> \E n \in 1 .. Len(frames) : Still(frames[n])
    BY <1>1, SlashedFacts DEF Behind
  <2>4. \A n \in 1 .. Len(frames) + 1 : n = Len(frames) + 1 \/ n \in 1 .. Len(frames)
    BY <1>1, SlashedFacts
  <2>5. Len(frames) + 1 \in 1 .. Len(frames) + 1 /\ 1 .. Len(frames) \subseteq 1 .. Len(frames) + 1
    BY <1>1, SlashedFacts
  <2> QED BY <1>5, <2>2, <2>3, <2>4, <2>5, Zenon
<1>9. Rest(Pattern, path, depth, i, j) <=> Rest(Pattern, path, depth, i + 1, j) \/ Still(f)
  BY <1>1, <1>7, SlashedFacts, RestStar
<1>10. Ahead' <=> Rest(Pattern, path, depth, i + 1, j) \/ Behind'
  BY <1>1, <1>2, <1>3 DEF Ahead
<1>11. Ahead <=> Rest(Pattern, path, depth, i, j) \/ Behind
  BY <1>1 DEF Ahead
<1>12. Ahead <=> Ahead'
  BY <1>8, <1>9, <1>10, <1>11, Zenon
<1>13. i' \in Nat \ {0} /\ i' <= Len(Pattern) + 1 /\ j' \in 1 .. depth + 1
  BY <1>1, <1>3, SlashedFacts
<1>14. failed' \in BOOLEAN
  BY <1>1, <1>3, SlashedFacts
<1> QED BY <1>1, <1>5, <1>6, <1>12, <1>13, <1>14, SlashedStep, Zenon

(* The same frames answer the same. *)
LEMMA SameFrames ==
  ASSUME UNCHANGED <<patterns, path, depth, k, frames>>
  PROVE  (Behind' <=> Behind) /\ (Framed' <=> Framed)
BY DEF Behind, Still, Framed, Pattern

LEMMA SegmentInv == ASSUME IInv, Segment PROVE IInv'
<1>1. /\ Trying /\ Len(Pattern) > 1 /\ ~failed /\ i <= Len(Pattern) /\ Pattern[i] # Any
      /\ UNCHANGED <<patterns, path, depth, k, frames, verdict>>
  BY DEF Segment, Slashed
<1>2. Pattern' = Pattern /\ (Behind' <=> Behind) /\ Framed'
  BY <1>1, SameFrames, SlashedFacts DEF Pattern
<1>3. Rest(Pattern, path, depth, i, j) <=>
        j <= depth /\ PathMatch(Pattern[i], path[j]) /\ Rest(Pattern, path, depth, i + 1, j + 1)
  BY <1>1, SlashedFacts, RestSegment
<1>4. Ahead <=> Rest(Pattern, path, depth, i, j) \/ Behind
  BY <1>1 DEF Ahead
<1>5. CASE j <= depth /\ Ok(Pattern[i], path[j])
  <2>1. i' = i + 1 /\ j' = j + 1 /\ failed' = failed
    BY <1>5 DEF Segment
  <2>2. Ahead' <=> Rest(Pattern, path, depth, i + 1, j + 1) \/ Behind'
    BY <1>1, <1>2, <2>1 DEF Ahead
  <2>3. PathMatch(Pattern[i], path[j])
    BY <1>5, OkMatches
  <2>4. Ahead <=> Ahead'
    BY <1>2, <1>3, <1>4, <1>5, <2>2, <2>3, Zenon
  <2>5. i' \in Nat \ {0} /\ i' <= Len(Pattern) + 1 /\ j' \in 1 .. depth + 1
    BY <1>1, <1>5, <2>1, SlashedFacts
  <2>6. failed' \in BOOLEAN
    BY <1>1, <2>1, SlashedFacts, Zenon
  <2>7. frames' \in Seq([at : Nat \ {0}, upto : 1 .. depth + 1])
    BY <1>1, SlashedFacts, Zenon
  <2> QED BY <1>1, <1>2, <2>4, <2>5, <2>6, <2>7, SlashedStep, Zenon
<1>6. CASE ~(j <= depth /\ Ok(Pattern[i], path[j]))
  <2>1. i' = i /\ j' = j
    BY <1>6 DEF Segment
  <2>2. failed' = TRUE
    BY <1>6, Zenon DEF Segment
  <2>3. Ahead' <=> Behind'
    BY <2>2, Zenon DEF Ahead
  <2>4. ~Rest(Pattern, path, depth, i, j)
    BY <1>3, <1>6, OkMatches
  <2>5. Ahead <=> Ahead'
    BY <1>2, <1>4, <2>3, <2>4, Zenon
  <2>6. i' \in Nat \ {0} /\ i' <= Len(Pattern) + 1 /\ j' \in 1 .. depth + 1
    BY <1>1, <2>1, SlashedFacts
  <2>7. failed' \in BOOLEAN
    BY <2>2, Zenon
  <2>8. frames' \in Seq([at : Nat \ {0}, upto : 1 .. depth + 1])
    BY <1>1, SlashedFacts, Zenon
  <2> QED BY <1>1, <1>2, <2>5, <2>6, <2>7, <2>8, SlashedStep, Zenon
<1> QED BY <1>5, <1>6

LEMMA PatternEndsInv == ASSUME IInv, PatternEnds PROVE IInv'
<1>1. /\ Trying /\ Len(Pattern) > 1 /\ ~failed /\ i > Len(Pattern)
  BY DEF PatternEnds, Slashed
<1>2. Rest(Pattern, path, depth, i, j) <=> j > depth
  BY <1>1, SlashedFacts, RestEnd
<1>3. Ahead <=> Rest(Pattern, path, depth, i, j) \/ Behind
  BY <1>1 DEF Ahead
<1>4. CASE j > depth
  <2>1. Hidden
    BY <1>4 DEF PatternEnds
  <2>2. Searching /\ Matches(Pattern, Here)
    BY <1>1, <1>2, <1>3, <1>4, SlashedFacts
  <2> QED BY <2>1, <2>2, HiddenInv
<1>5. CASE ~(j > depth)
  <2>1. UNCHANGED <<patterns, path, depth, k, i, j, frames, verdict>>
    BY <1>5 DEF PatternEnds
  <2>2. failed' = TRUE
    BY <1>5, Zenon DEF PatternEnds
  <2>3. (Behind' <=> Behind) /\ Framed'
    BY <1>1, <2>1, SameFrames, SlashedFacts
  <2>4. Ahead' <=> Behind'
    BY <2>2, Zenon DEF Ahead
  <2>5. Ahead <=> Ahead'
    BY <1>2, <1>3, <1>5, <2>3, <2>4, Zenon
  <2>6. i' \in Nat \ {0} /\ i' <= Len(Pattern) + 1 /\ j' \in 1 .. depth + 1
    BY <1>1, <2>1, SlashedFacts
  <2>7. failed' \in BOOLEAN
    BY <2>2, Zenon
  <2>8. frames' \in Seq([at : Nat \ {0}, upto : 1 .. depth + 1])
    BY <1>1, <2>1, SlashedFacts, Zenon
  <2> QED BY <1>1, <2>1, <2>3, <2>5, <2>6, <2>7, <2>8, SlashedStep, Zenon
<1> QED BY <1>4, <1>5

(* The search is back at the innermost "**" and looks past what it absorbed. *)
LEMMA AbsorbInv == ASSUME IInv, Absorb PROVE IInv'
<1> DEFINE last == Len(frames)
           top == frames[last]
           n == top.upto + 1
           next == [at |-> top.at, upto |-> n]
<1>1. /\ Trying /\ failed /\ frames # <<>> /\ Loops(n)
      /\ frames' = [frames EXCEPT ![last].upto = n]
      /\ i' = top.at + 1 /\ j' = n /\ failed' = FALSE
      /\ UNCHANGED <<patterns, path, depth, k, verdict>>
  BY DEF Absorb, OneMore
<1>2. IInv /\ Len(Pattern) > 1
  <2>1. Searching /\ TypeOK
    BY <1>1 DEF Trying, Searching, IInv
  <2>2. Len(Pattern) # 1
    BY <1>1, <2>1, Zenon DEF IInv, BarePending
  <2>3. Len(Pattern) \in Nat /\ Len(Pattern) >= 1
    BY <2>1, Inputs DEF Pattern, Searching, TypeOK
  <2> QED BY <2>2, <2>3
<1>3. Pattern' = Pattern
  BY <1>1 DEF Pattern
<1>4. /\ last \in 1 .. last /\ DOMAIN frames = 1 .. last
      /\ top \in [at : Nat \ {0}, upto : 1 .. depth + 1]
      /\ top.at \in Nat \ {0} /\ top.at <= Len(Pattern) /\ Pattern[top.at] = Any
      /\ top.upto \in Nat /\ n \in Nat /\ n <= depth + 1 /\ n >= 1 /\ top.upto <= depth
  <2>1. last \in Nat /\ last # 0 /\ DOMAIN frames = 1 .. last
    BY <1>1, <1>2, SlashedFacts, EmptySeq
  <2>2. last \in 1 .. last
    BY <2>1
  <2>3. top \in [at : Nat \ {0}, upto : 1 .. depth + 1]
    BY <1>1, <1>2, <2>2, SlashedFacts
  <2>4. top.at <= Len(Pattern) /\ Pattern[top.at] = Any
    BY <1>1, <1>2, <2>1, <2>2, SlashedFacts DEF Framed
  <2>5. depth \in Nat
    BY <1>1, <1>2, SlashedFacts
  <2> QED BY <1>1, <2>1, <2>2, <2>3, <2>4, <2>5 DEF Loops
<1>5. /\ DOMAIN frames' = 1 .. last /\ frames'[last] = next
      /\ \A m \in 1 .. last : m # last => frames'[m] = frames[m]
  BY <1>1, <1>4
<1>6. next \in [at : Nat \ {0}, upto : 1 .. depth + 1] /\ next.at = top.at /\ next.upto = n
  BY <1>4
<1>7. frames' \in Seq([at : Nat \ {0}, upto : 1 .. depth + 1])
  <2>1. frames' = [frames EXCEPT ![last] = next]
    <3>1. next = [frames[last] EXCEPT !.upto = n]
      BY <1>4
    <3>2. frames' = [frames EXCEPT ![last] = [frames[last] EXCEPT !.upto = n]]
      BY <1>1
    <3> QED BY <3>1, <3>2, Zenon
  <2>2. frames \in Seq([at : Nat \ {0}, upto : 1 .. depth + 1])
    BY <1>1, <1>2, SlashedFacts
  <2>3. next \in [at : Nat \ {0}, upto : 1 .. depth + 1]
    BY <1>6
  <2> HIDE DEF next
  <2> QED BY <1>4, <2>1, <2>2, <2>3, ExceptSeq
<1>8. Framed'
  <2> SUFFICES ASSUME NEW m \in 1 .. last
               PROVE  frames'[m].at <= Len(Pattern) /\ Pattern[frames'[m].at] = Any
    BY <1>3, <1>5 DEF Framed
  <2>1. CASE m = last
    BY <1>4, <1>5, <1>6, <2>1
  <2>2. CASE m # last
    BY <1>1, <1>2, <1>4, <1>5, <2>2, SlashedFacts DEF Framed
  <2> QED BY <2>1, <2>2
<1> HIDE DEF next
<1>9. Still(top) <=> Rest(Pattern, path, depth, top.at, n)
  BY <1>4 DEF Still
<1>10. Still(next) <=> n <= depth /\ Rest(Pattern, path, depth, top.at, n + 1)
  BY <1>6 DEF Still
<1>11. Still(top) <=> Rest(Pattern, path, depth, top.at + 1, n) \/ Still(next)
  <2>1. depth \in Nat /\ Len(Pattern) \in Nat
    BY <1>1, <1>2, SlashedFacts
  <2> QED BY <1>4, <1>9, <1>10, <2>1, RestStar
<1> HIDE DEF n, top, last
<1> DEFINE Others == \E m \in 1 .. last : m # last /\ Still(frames[m])
<1>12. Behind <=> Others \/ Still(top)
  <2>1. Behind <=> \E m \in 1 .. last : Still(frames[m])
    BY <1>4, Zenon DEF Behind
  <2> QED BY <1>4, <2>1 DEF top
<1>13. Behind' <=> Others \/ Still(next)
  <2>1. Behind' <=> \E m \in 1 .. last : Still(frames'[m])
    BY <1>1, <1>3, <1>5 DEF Behind, Still
  <2> QED BY <1>4, <1>5, <2>1
<1> HIDE DEF Others
<1>14. Ahead <=> Behind
  BY <1>1, Zenon DEF Ahead
<1>15. Ahead' <=> Rest(Pattern, path, depth, top.at + 1, n) \/ Behind'
  <2>1. ~failed' /\ path' = path /\ depth' = depth /\ i' = top.at + 1 /\ j' = n
    BY <1>1
  <2> QED BY <1>3, <2>1 DEF Ahead
<1>16. Ahead <=> Ahead'
  BY <1>11, <1>12, <1>13, <1>14, <1>15, Zenon
<1>17. i' \in Nat \ {0} /\ i' <= Len(Pattern) + 1 /\ j' \in 1 .. depth + 1
  <2>1. Len(Pattern) \in Nat /\ depth \in Nat
    BY <1>1, <1>2, SlashedFacts
  <2> QED BY <1>1, <1>4, <2>1
<1>18. failed' \in BOOLEAN
  BY <1>1, Zenon
<1> QED BY <1>1, <1>2, <1>7, <1>8, <1>16, <1>17, <1>18, SlashedStep, Zenon

(* The innermost "**" has no more to absorb: what it can answer is no.      *)
LEMMA GiveUpStarInv == ASSUME IInv, GiveUpStar PROVE IInv'
<1> DEFINE last == Len(frames)
           top == frames[last]
<1>1. /\ Trying /\ failed /\ frames # <<>> /\ ~Loops(top.upto + 1)
      /\ frames' = SubSeq(frames, 1, last - 1)
      /\ UNCHANGED <<patterns, path, depth, k, i, j, failed, verdict>>
  BY DEF GiveUpStar, OneMore
<1>2. Len(Pattern) > 1
  <2>1. Searching /\ TypeOK
    BY <1>1 DEF Trying, Searching, IInv
  <2>2. Len(Pattern) # 1
    BY <1>1, <2>1, Zenon DEF IInv, BarePending
  <2>3. Len(Pattern) \in Nat /\ Len(Pattern) >= 1
    BY <2>1, Inputs DEF Pattern, Searching, TypeOK
  <2> QED BY <2>2, <2>3
<1>3. last \in Nat /\ last # 0 /\ DOMAIN frames = 1 .. last /\ last \in 1 .. last
  <2>1. last \in Nat /\ last # 0 /\ DOMAIN frames = 1 .. last
    BY <1>1, <1>2, SlashedFacts, EmptySeq
  <2> QED BY <2>1
<1>4. top.upto \in Nat /\ ~(top.upto <= depth)
  <2>1. top \in [at : Nat \ {0}, upto : 1 .. depth + 1] /\ depth \in Nat
    BY <1>1, <1>2, <1>3, SlashedFacts
  <2> QED BY <1>1, <2>1 DEF Loops
<1>5. /\ frames' \in Seq([at : Nat \ {0}, upto : 1 .. depth + 1])
      /\ DOMAIN frames' = 1 .. last - 1
      /\ \A m \in 1 .. last - 1 : frames'[m] = frames[m] /\ m \in 1 .. last
  <2>1. frames \in Seq([at : Nat \ {0}, upto : 1 .. depth + 1])
    BY <1>1, <1>2, SlashedFacts
  <2>2. \A m \in 1 .. last - 1 : m \in 1 .. last
    BY <1>3
  <2> DEFINE S == [at : Nat \ {0}, upto : 1 .. depth + 1]
  <2>3. frames \in Seq(S) /\ 1 \in 1 .. Len(frames) + 1 /\ last - 1 \in 1 - 1 .. Len(frames)
    BY <1>3, <2>1
  <2> HIDE DEF S
  <2>4. /\ frames' \in Seq(S) /\ Len(frames') = last - 1
        /\ \A m \in 1 .. last - 1 : frames'[m] = frames[m]
    BY <1>1, <1>3, <2>3, SubSeqProperties
  <2>5. DOMAIN frames' = 1 .. last - 1
    BY <2>4, LenProperties
  <2> QED BY <2>2, <2>4, <2>5 DEF S
<1>6. Pattern' = Pattern
  BY <1>1 DEF Pattern
<1>7. Framed'
  <2> SUFFICES ASSUME NEW m \in 1 .. last - 1
               PROVE  frames'[m].at <= Len(Pattern) /\ Pattern[frames'[m].at] = Any
    BY <1>5, <1>6 DEF Framed
  <2>1. frames'[m] = frames[m] /\ m \in DOMAIN frames
    BY <1>3, <1>5
  <2>2. Framed
    BY <1>1, <1>2, SlashedFacts
  <2> QED BY <2>1, <2>2 DEF Framed
<1>8. Behind' <=> Behind
  <2>1. Behind' <=> \E m \in 1 .. last - 1 : Still(frames'[m])
    BY <1>1, <1>5, <1>6 DEF Behind, Still
  <2>2. Behind <=> \E m \in 1 .. last : Still(frames[m])
    BY <1>3, Zenon DEF Behind
  <2>3. ~Still(top)
    BY <1>4 DEF Still
  <2> HIDE DEF last
  <2>4. \A m \in 1 .. last : m = last \/ m \in 1 .. last - 1
    <3> SUFFICES ASSUME NEW m \in 1 .. last, m # last PROVE m \in 1 .. last - 1
      OBVIOUS
    <3> QED BY <1>3
  <2> QED BY <1>5, <2>1, <2>2, <2>3, <2>4
<1>9. Ahead <=> Behind
  BY <1>1, Zenon DEF Ahead
<1>10. Ahead' <=> Behind'
  BY <1>1, Zenon DEF Ahead
<1>11. Ahead <=> Ahead'
  BY <1>8, <1>9, <1>10, Zenon
<1>12. i' \in Nat \ {0} /\ i' <= Len(Pattern) + 1 /\ j' \in 1 .. depth + 1
  BY <1>1, <1>2, SlashedFacts
<1>13. failed' \in BOOLEAN
  BY <1>1, <1>2, SlashedFacts, Zenon
<1> QED BY <1>1, <1>2, <1>5, <1>7, <1>11, <1>12, <1>13, SlashedStep, Zenon

(* The outermost call has returned false: the pattern does not match.        *)
LEMMA NextPatternStep == ASSUME IInv, NextPattern PROVE IInv'
<1>1. /\ Trying /\ failed /\ frames = <<>> /\ k' = k + 1 /\ Restart
      /\ UNCHANGED <<patterns, path, depth, verdict>>
  BY DEF NextPattern
<1>2. Searching /\ TypeOK
  BY <1>1 DEF Trying, Searching, IInv
<1>3. Len(Pattern) > 1
  <2>1. Len(Pattern) # 1
    BY <1>1, <1>2, Zenon DEF IInv, BarePending
  <2>2. Len(Pattern) \in Nat /\ Len(Pattern) >= 1
    BY <1>2, Inputs DEF Pattern, Searching, TypeOK
  <2> QED BY <2>1, <2>2
<1>4. ~Behind
  BY <1>1, EmptySeq DEF Behind
<1>5. ~Ahead
  BY <1>1, <1>4, Zenon DEF Ahead
<1>6. ~Matches(Pattern, Here)
  BY <1>1, <1>3, <1>5, SlashedFacts
<1> QED BY <1>1, <1>2, <1>6, NextPatternInv

(* What is known while a pattern without "/" is tried. *)
LEMMA BareFacts ==
  ASSUME IInv, Bare
  PROVE  /\ Searching /\ depth \in Nat /\ j \in Nat \ {0} /\ j <= depth + 1
         /\ i = 1 /\ failed = FALSE /\ frames = <<>>
         /\ Matches(Pattern, Here) <=> \E x \in j .. depth : PathMatch(Pattern[1], path[x])
<1>1. Searching /\ Len(Pattern) = 1 /\ TypeOK
  BY DEF Bare, Trying, Searching, IInv
<1>2. depth \in Nat /\ j \in Nat \ {0} /\ j <= depth + 1
  BY <1>1, Inputs DEF TypeOK
<1> QED BY <1>1, <1>2, Zenon DEF IInv, BarePending

LEMMA BareHitInv == ASSUME IInv, BareHit PROVE IInv'
<1>1. Bare /\ j <= depth /\ PathMatch(Pattern[1], path[j]) /\ Hidden
  BY OkMatches DEF BareHit
<1>2. j \in j .. depth
  BY <1>1, BareFacts
<1>3. Searching /\ Matches(Pattern, Here)
  BY <1>1, <1>2, BareFacts, Zenon
<1> QED BY <1>1, <1>3, HiddenInv

LEMMA BareNextInv == ASSUME IInv, BareNext PROVE IInv'
<1>1. /\ Bare /\ j <= depth /\ ~PathMatch(Pattern[1], path[j]) /\ j' = j + 1
      /\ UNCHANGED <<patterns, path, depth, k, i, frames, failed, verdict>>
  BY OkMatches DEF BareNext
<1>2. /\ Searching /\ Len(Pattern) = 1 /\ Pattern' = Pattern /\ Here' = Here
  BY <1>1, BareFacts DEF Bare, Pattern, Here
<1>3. (\E x \in j .. depth : PathMatch(Pattern[1], path[x]))
        <=> \E x \in j + 1 .. depth : PathMatch(Pattern[1], path[x])
  <2>1. /\ \A x \in j .. depth : x = j \/ x \in j + 1 .. depth
        /\ \A x \in j + 1 .. depth : x \in j .. depth
    BY <1>1, BareFacts
  <2> QED BY <1>1, <2>1, Zenon
<1>4. Matches(Pattern, Here) <=> \E x \in j + 1 .. depth : PathMatch(Pattern[1], path[x])
  BY <1>1, <1>3, BareFacts, Zenon
<1>5. BarePending'
  <2>1. (Matches(Pattern, Here) <=> \E x \in j .. depth : PathMatch(Pattern[1], path[x]))'
    BY <1>1, <1>2, <1>4
  <2>2. i' = 1 /\ failed' = FALSE /\ frames' = <<>>
    BY <1>1, BareFacts, Zenon
  <2> QED BY <2>1, <2>2, Zenon DEF BarePending
<1>6. SlashedPending'
  BY <1>2 DEF SlashedPending
<1>7. i' \in Nat \ {0} /\ j' \in 1 .. depth + 1
  BY <1>1, BareFacts
<1>8. failed' \in BOOLEAN
  BY <1>1, BareFacts, Zenon
<1>9. frames' \in Seq([at : Nat \ {0}, upto : 1 .. depth + 1])
  BY <1>1, BareFacts, EmptySeq
<1> QED BY <1>1, <1>2, <1>5, <1>6, <1>7, <1>8, <1>9, SameQuestion

LEMMA BareMissInv == ASSUME IInv, BareMiss PROVE IInv'
<1>1. Bare /\ j > depth /\ k' = k + 1 /\ Restart /\ UNCHANGED <<patterns, path, depth, verdict>>
  BY DEF BareMiss
<1>2. j .. depth = {}
  BY <1>1, BareFacts
<1>3. Searching /\ ~Matches(Pattern, Here)
  BY <1>1, <1>2, BareFacts, Zenon
<1> QED BY <1>1, <1>3, NextPatternInv

(* No pattern is left for these segments. *)
LEMMA NoneMatches ==
  ASSUME IInv, verdict = "walking", k > Len(patterns)
  PROVE  /\ ~MatchesOne(Here) /\ \A d \in 1 .. depth : ~MatchesOne(SubSeq(path, 1, d))
         /\ TypeOK /\ depth \in Nat /\ depth >= 1 /\ depth <= Len(path)
         /\ DOMAIN path = 1 .. Len(path)
         /\ Len(path) \in Nat /\ Len(patterns) \in Nat
<1>1. /\ TypeOK /\ Tried /\ depth \in Nat /\ depth >= 1 /\ depth <= Len(path) /\ k \in Nat
      /\ DOMAIN path = 1 .. Len(path) /\ Len(path) \in Nat /\ Len(patterns) \in Nat
      /\ DOMAIN patterns = 1 .. Len(patterns)
  BY Inputs DEF IInv, TypeOK
<1>2. ~MatchesOne(Here)
  <2>1. \A n \in 1 .. Len(patterns) : n \in 1 .. k - 1
    BY <1>1
  <2> QED BY <1>1, <2>1 DEF Tried, MatchesOne
<1>3. ASSUME NEW d \in 1 .. depth PROVE ~MatchesOne(SubSeq(path, 1, d))
  <2>1. d = depth \/ d \in 1 .. depth - 1
    BY <1>1
  <2> QED BY <1>1, <1>2, <2>1 DEF Here, Tried
<1> QED BY <1>1, <1>2, <1>3

LEMMA EnterInv == ASSUME IInv, Enter PROVE IInv'
<1>1. /\ verdict = "walking" /\ k > Len(patterns) /\ depth < Len(path) /\ depth' = depth + 1
      /\ k' = 1 /\ Restart /\ UNCHANGED <<patterns, path, verdict>>
  BY DEF Enter
<1>2. TypeOK'
  <2>1. frames' \in Seq([at : Nat \ {0}, upto : 1 .. depth' + 1])
    BY <1>1, EmptySeq DEF Restart
  <2>2. /\ patterns' \in PatternLists /\ path' \in Paths /\ depth' \in 1 .. Len(path')
        /\ k' \in 1 .. Len(patterns') + 1 /\ i' \in Nat \ {0} /\ j' \in 1 .. depth' + 1
    BY <1>1, NoneMatches DEF TypeOK, Restart
  <2>3. failed' \in BOOLEAN /\ verdict' \in {"walking", "hidden", "taken"}
    BY <1>1, Zenon DEF Restart
  <2> QED BY <2>1, <2>2, <2>3, Zenon DEF TypeOK
<1>3. (BarePending /\ SlashedPending)'
  <2>1. AtStart'
    BY <1>1 DEF Restart, AtStart
  <2> QED BY <1>2, <2>1, Fresh, PTL
<1>4. Tried'
  <2>1. 1 .. k' - 1 = {} /\ depth' - 1 = depth
    BY <1>1, NoneMatches
  <2>2. \A d \in 1 .. depth : ~MatchesOne(SubSeq(path, 1, d))'
    BY <1>1, NoneMatches DEF MatchesOne
  <2> QED BY <1>1, <2>1, <2>2 DEF Tried
<1>5. VerdictExact'
  BY <1>1 DEF VerdictExact
<1> QED BY <1>2, <1>3, <1>4, <1>5 DEF IInv

LEMMA TakeInv == ASSUME IInv, Take PROVE IInv'
<1>1. /\ verdict = "walking" /\ k > Len(patterns) /\ depth = Len(path) /\ verdict' = "taken"
      /\ UNCHANGED <<patterns, path, depth, k, i, j, frames, failed>>
  BY DEF Take
<1>2. TypeOK'
  BY <1>1, NoneMatches DEF TypeOK
<1>3. VerdictExact'
  <2>1. ~\E d \in DOMAIN path : MatchesOne(SubSeq(path, 1, d))
    BY <1>1, NoneMatches
  <2> QED BY <1>1, <2>1 DEF VerdictExact, MatchesOne
<1>4. BarePending' /\ SlashedPending' /\ Tried'
  BY <1>1 DEF BarePending, SlashedPending, Tried, Searching
<1> QED BY <1>2, <1>3, <1>4 DEF IInv

LEMMA StepInv == IInv /\ [Next]_vars => IInv'
<1> SUFFICES ASSUME IInv, [Next]_vars PROVE IInv'
  OBVIOUS
<1>1. CASE MatchBare
  BY <1>1, BareHitInv, BareNextInv, BareMissInv DEF MatchBare
<1>2. CASE MatchSegments
  BY <1>2, DoubleStarInv, SegmentInv, PatternEndsInv, AbsorbInv, GiveUpStarInv, NextPatternStep
     DEF MatchSegments
<1>3. CASE Enter
  BY <1>3, EnterInv
<1>4. CASE Take
  BY <1>4, TakeInv
<1>5. CASE UNCHANGED vars
  BY <1>5 DEF vars, IInv, TypeOK, BarePending, SlashedPending, Tried, VerdictExact, Searching,
     Pattern, Here, Ahead, Behind, Still, Framed, MatchesOne
<1> QED BY <1>1, <1>2, <1>3, <1>4, <1>5 DEF Next, Step, Returned

LEMMA Invariance == Spec => []IInv
BY InitInv, StepInv, PTL DEF Spec

-----------------------------------------------------------------------------
(* The state is what the code's variables can hold, whatever the patterns    *)
(* and the path: the search never looks past the end of either.              *)
THEOREM TypesHold == Spec => []TypeOK
<1>1. IInv => TypeOK
  BY DEF IInv
<1> QED BY <1>1, Invariance, PTL

(* The search that backtracks finds a match if and only if there is one      *)
(* (glob.go:19-59), and the walk hides a file if and only if a pattern       *)
(* matches it or a directory above it (walk.go:101-109).                    *)
THEOREM VerdictIsExact == Spec => []VerdictExact
<1>1. IInv => VerdictExact
  BY DEF IInv
<1> QED BY <1>1, Invariance, PTL

-----------------------------------------------------------------------------
(* A pattern that ends in "**" matches every path it matches a prefix of.    *)
LEMMA RestOfMore ==
  ASSUME NEW p, NEW s, Len(p) \in Nat, Len(p) >= 1, p[Len(p)] = Any,
         NEW d \in Nat, NEW m \in Nat, d <= m, Rest(p, s, d, 1, 1)
  PROVE  Rest(p, s, m, 1, 1)
<1> DEFINE l == Len(p)
<1>1. PICK a \in [1 .. d -> 1 .. l] : Fits(a, p, s, d, 1, 1)
  BY DEF Rest
<1> DEFINE b == [x \in 1 .. m |-> IF x <= d THEN a[x] ELSE l]
<1>2. \A x \in 1 .. m : x <= d => x \in 1 .. d
  OBVIOUS
<1>3. \A x \in 1 .. d : x \in 1 .. m /\ b[x] = a[x] /\ a[x] \in 1 .. l
  BY <1>1
<1>4. \A x \in 1 .. m : ~(x <= d) => b[x] = l
  OBVIOUS
<1>5. b \in [1 .. m -> 1 .. l]
  <2> SUFFICES ASSUME NEW x \in 1 .. m PROVE (IF x <= d THEN a[x] ELSE l) \in 1 .. l
    OBVIOUS
  <2>1. CASE x <= d
    BY <1>1, <1>2, <2>1
  <2>2. CASE ~(x <= d)
    BY <2>2
  <2> QED BY <2>1, <2>2
<1> HIDE DEF b
<1>6. \A x, y \in 1 .. m : x < y => b[x] <= b[y]
  <2> SUFFICES ASSUME NEW x \in 1 .. m, NEW y \in 1 .. m, x < y PROVE b[x] <= b[y]
    OBVIOUS
  <2>1. CASE y <= d
    <3>1. x \in 1 .. d /\ y \in 1 .. d
      BY <2>1
    <3>2. a[x] <= a[y]
      BY <1>1, <3>1 DEF Fits
    <3> QED BY <1>3, <3>1, <3>2
  <2>2. CASE ~(y <= d)
    <3>1. b[x] \in 1 .. l
      BY <1>5
    <3> QED BY <1>4, <2>2, <3>1
  <2> QED BY <2>1, <2>2
<1>7. \A x \in 1 .. m : PathMatch(p[b[x]], s[x])
  <2> SUFFICES ASSUME NEW x \in 1 .. m PROVE PathMatch(p[b[x]], s[x])
    OBVIOUS
  <2>1. CASE x <= d
    BY <1>1, <1>2, <1>3, <2>1 DEF Fits
  <2>2. CASE ~(x <= d)
    BY <1>4, <2>2 DEF PathMatch
  <2> QED BY <2>1, <2>2
<1>8. ASSUME NEW n \in 1 .. l, p[n] # Any PROVE Once(b, 1, m, n)
  <2>1. PICK x \in 1 .. d : a[x] = n /\ \A y \in 1 .. d : a[y] = n => y = x
    BY <1>1, <1>8 DEF Fits, Once
  <2>2. x \in 1 .. m /\ b[x] = n
    BY <1>3, <2>1
  <2>3. ASSUME NEW y \in 1 .. m, b[y] = n PROVE y = x
    <3>1. y <= d
      BY <1>4, <1>8, <2>3
    <3> QED BY <1>2, <1>3, <2>1, <2>3, <3>1
  <2> QED BY <2>2, <2>3 DEF Once
<1>9. Fits(b, p, s, m, 1, 1)
  BY <1>6, <1>7, <1>8 DEF Fits
<1> QED BY <1>5, <1>9 DEF Rest

LEMMA PruneInv == TypeOK /\ VerdictExact => PruneHidesNoMore
<1> SUFFICES ASSUME TypeOK, VerdictExact, verdict # "walking",
                    \A n \in DOMAIN patterns : Hereditary(patterns[n])
             PROVE  verdict = "hidden" <=> MatchesOne(path)
  BY DEF PruneHidesNoMore
<1> DEFINE all == Len(path)
<1>1. /\ path \in Seq(Names) /\ all \in Nat /\ all >= 1 /\ DOMAIN path = 1 .. all
  BY Inputs
<1>2. SubSeq(path, 1, all) = path
  BY <1>1, SubSeqFull
<1>3. ASSUME NEW d \in 1 .. all, MatchesOne(SubSeq(path, 1, d)) PROVE MatchesOne(path)
  <2>1. PICK n \in DOMAIN patterns : Matches(patterns[n], SubSeq(path, 1, d))
    BY <1>3 DEF MatchesOne
  <2> DEFINE p == patterns[n]
  <2>2. p \in Seq(Globs \cup {Any}) /\ Len(p) \in Nat /\ Len(p) >= 1 /\ Hereditary(p)
    BY <2>1, Inputs
  <2> HIDE DEF p
  <2>3. Matches(p, path)
    <3>1. CASE Len(p) = 1
      <4>1. DOMAIN SubSeq(path, 1, d) = 1 .. d /\ \A x \in 1 .. d : SubSeq(path, 1, d)[x] = path[x]
        BY <1>1, SubSeqProperties, LenProperties
      <4>2. PICK x \in 1 .. d : PathMatch(p[1], path[x])
        BY <2>1, <3>1, <4>1 DEF Matches, p
      <4>3. x \in DOMAIN path
        BY <1>1, <4>2
      <4> QED BY <3>1, <4>2, <4>3 DEF Matches
    <3>2. CASE Len(p) # 1
      <4>1. Rest(p, path, d, 1, 1)
        BY <1>1, <2>1, <2>2, <3>2, RestWhole DEF Matches, p
      <4>2. p[Len(p)] = Any
        BY <2>2, <3>2 DEF Hereditary
      <4>3. Rest(p, path, all, 1, 1)
        BY <1>1, <2>2, <4>1, <4>2, RestOfMore
      <4>4. all \in 1 .. Len(path)
        BY <1>1
      <4>5. Aligned(p, SubSeq(path, 1, all))
        BY <1>1, <2>2, <4>3, <4>4, RestWhole
      <4> QED BY <1>2, <3>2, <4>5 DEF Matches
    <3> QED BY <3>1, <3>2
  <2> QED BY <2>3 DEF MatchesOne, p
<1>4. MatchesOne(path) => MatchesOne(SubSeq(path, 1, all)) /\ all \in DOMAIN path
  <2>1. all \in DOMAIN path
    BY <1>1
  <2> HIDE DEF all
  <2> QED BY <1>2, <2>1, Zenon
<1>5. verdict = "hidden" <=> \E d \in DOMAIN path : MatchesOne(SubSeq(path, 1, d))
  BY DEF VerdictExact
<1> HIDE DEF all
<1> QED BY <1>1, <1>3, <1>4, <1>5

(* With patterns that have no "/" or end in "**", pruning a directory hides  *)
(* exactly the files the patterns match (walk.go:101-109, glob.go:31-38).   *)
THEOREM PruningIsSound == Spec => []PruneHidesNoMore
<1>1. IInv => PruneHidesNoMore
  BY PruneInv DEF IInv
<1> QED BY <1>1, Invariance, PTL
=============================================================================
