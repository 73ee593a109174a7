--------------------------------- MODULE Glob ---------------------------------
(***************************************************************************)
(* The exclude patterns of internal/sweep/glob.go as the walk uses them: on  *)
(* its way down to a file it asks Excluded for every directory it enters and *)
(* at last for the file, and the first TRUE hides the file.  Excluded tries  *)
(* the patterns in turn.  matchSegments backtracks: each "**" is a frame of  *)
(* the recursion, with a loop over the segments it may absorb.               *)
(*                                                                         *)
(* A pattern and a path are split at "/"; what path.Match says of one        *)
(* segment is a relation.                                                   *)
(***************************************************************************)
EXTENDS Integers, Sequences

CONSTANTS
  Names,          \* path segments
  Globs,          \* pattern segments other than "**"
  Malformed,      \* those path.Match returns an error for
  Accepts,        \* path.Match: the <<glob, name>> it returns TRUE for
  PatternLists,   \* values of Options.Exclude
  Paths           \* the files of the tree, as paths relative to the root

Any == "**"       \* path.Match itself takes it for "*"
PathMatch(g, s) == g = Any \/ <<g, s>> \in Accepts

(* An error is a miss.  Mistake: only FALSE is. *)
OkUnlessFalse(g, s) == g \in Malformed \/ PathMatch(g, s)
Ok(g, s) == g \notin Malformed /\ PathMatch(g, s)

ASSUME GlobAssumption ==
  /\ Any \notin Globs /\ Malformed \subseteq Globs
  /\ Accepts \subseteq (Globs \ Malformed) \X Names
  /\ \A ps \in PatternLists : ps \in Seq(Seq(Globs \cup {Any}) \ {<<>>})
  /\ \A f \in Paths : f \in Seq(Names) \ {<<>>}

VARIABLES
  patterns, path,
  depth,      \* Excluded is asked for the first depth segments of path
  k,          \* the pattern Excluded tries
  i, j,       \* pat[0] and segs[0]: first segments not matched yet
  frames,     \* the calls that are at a "**": where it stands, what it absorbs up to
  failed,     \* the innermost call has returned false
  verdict     \* of the walk on the file

vars == <<patterns, path, depth, k, i, j, frames, failed, verdict>>

Init ==
  /\ patterns \in PatternLists /\ path \in Paths
  /\ depth = 1 /\ k = 1 /\ i = 1 /\ j = 1 /\ frames = <<>> /\ failed = FALSE
  /\ verdict = "walking"

Pattern == patterns[k]
Trying  == verdict = "walking" /\ k <= Len(patterns)
Bare    == Trying /\ Len(Pattern) = 1      \* no "/" in it
Slashed == Trying /\ Len(Pattern) > 1 /\ ~failed

Restart == i' = 1 /\ j' = 1 /\ frames' = <<>> /\ failed' = FALSE
Hidden  == verdict' = "hidden" /\ UNCHANGED <<patterns, path, depth, k, i, j, frames, failed>>

-----------------------------------------------------------------------------
(* Match on a pattern without "/": any one segment.                         *)
BareHit  == Bare /\ j <= depth /\ Ok(Pattern[1], path[j]) /\ Hidden
BareNext == /\ Bare /\ j <= depth /\ ~Ok(Pattern[1], path[j]) /\ j' = j + 1
            /\ UNCHANGED <<patterns, path, depth, k, i, frames, failed, verdict>>
BareMiss == /\ Bare /\ j > depth /\ k' = k + 1 /\ Restart
            /\ UNCHANGED <<patterns, path, depth, verdict>>

(* The bounds of the loop at a "**": how many segments it absorbs first, and *)
(* where it ends.  Mistakes: at least one; one turn too many. *)
AtLeastOne == 1
Fewest == 0
OneTooMany(n) == n <= depth + 2
Loops(n) == n <= depth + 1

(* "**": the loop calls matchSegments on what is left after fewer segments   *)
(* first; the loop does not start when there are not that many.              *)
DoubleStar ==
  /\ Slashed /\ i <= Len(Pattern) /\ Pattern[i] = Any
  /\ IF Loops(j + Fewest)
       THEN /\ frames' = Append(frames, [at |-> i, upto |-> j + Fewest])
            /\ i' = i + 1 /\ j' = j + Fewest /\ UNCHANGED failed
       ELSE failed' = TRUE /\ UNCHANGED <<frames, i, j>>
  /\ UNCHANGED <<patterns, path, depth, k, verdict>>

(* One segment against one segment. *)
Segment ==
  /\ Slashed /\ i <= Len(Pattern) /\ Pattern[i] # Any
  /\ IF j <= depth /\ Ok(Pattern[i], path[j])
       THEN i' = i + 1 /\ j' = j + 1 /\ UNCHANGED failed
       ELSE failed' = TRUE /\ UNCHANGED <<i, j>>
  /\ UNCHANGED <<patterns, path, depth, k, frames, verdict>>

(* The pattern is used up: a match needs the path used up too.               *)
PatternEnds ==
  /\ Slashed /\ i > Len(Pattern)
  /\ IF j > depth THEN Hidden
     ELSE failed' = TRUE /\ UNCHANGED <<patterns, path, depth, k, i, j, frames, verdict>>

(* A call returned false to the loop of the innermost "**", which absorbs    *)
(* one segment more, or returns false itself.  Mistake: the same again. *)
Unchanged(n) == n
OneMore(n) == n + 1
Absorb ==
  LET top == frames[Len(frames)]  n == OneMore(top.upto) IN
  /\ Trying /\ failed /\ frames # <<>> /\ Loops(n)
  /\ frames' = [frames EXCEPT ![Len(frames)].upto = n]
  /\ i' = top.at + 1 /\ j' = n /\ failed' = FALSE
  /\ UNCHANGED <<patterns, path, depth, k, verdict>>
GiveUpStar ==
  /\ Trying /\ failed /\ frames # <<>> /\ ~Loops(OneMore(frames[Len(frames)].upto))
  /\ frames' = SubSeq(frames, 1, Len(frames) - 1)
  /\ UNCHANGED <<patterns, path, depth, k, i, j, failed, verdict>>
NextPattern ==
  /\ Trying /\ failed /\ frames = <<>> /\ k' = k + 1 /\ Restart
  /\ UNCHANGED <<patterns, path, depth, verdict>>

(* No pattern matched: the walk enters the directory, or takes the file.     *)
Enter ==
  /\ verdict = "walking" /\ k > Len(patterns) /\ depth < Len(path)
  /\ depth' = depth + 1 /\ k' = 1 /\ Restart
  /\ UNCHANGED <<patterns, path, verdict>>
Take ==
  /\ verdict = "walking" /\ k > Len(patterns) /\ depth = Len(path) /\ verdict' = "taken"
  /\ UNCHANGED <<patterns, path, depth, k, i, j, frames, failed>>

Returned == verdict # "walking" /\ UNCHANGED vars

MatchBare  == BareHit \/ BareNext \/ BareMiss
MatchSegments == DoubleStar \/ Segment \/ PatternEnds \/ Absorb \/ GiveUpStar \/ NextPattern
Step == MatchBare \/ MatchSegments \/ Enter \/ Take
Next == Step \/ Returned

Spec == Init /\ [][Next]_vars
FairSpec == Spec /\ WF_vars(Step)      \* one goroutine, which nothing blocks

-----------------------------------------------------------------------------
TypeOK ==
  /\ patterns \in PatternLists /\ path \in Paths /\ depth \in 1 .. Len(path)
  /\ k \in 1 .. Len(patterns) + 1 /\ i \in Nat \ {0} /\ j \in 1 .. depth + 1
  /\ failed \in BOOLEAN /\ verdict \in {"walking", "hidden", "taken"}
  /\ frames \in Seq([at : Nat \ {0}, upto : 1 .. depth + 1])

(* What the comment of Match promises (glob.go:11-16), without a search: the *)
(* segments of the path are assigned in order to those of the pattern, every *)
(* one but "**" getting exactly one that it accepts.                         *)
Aligned(p, s) ==
  \E a \in [DOMAIN s -> DOMAIN p] :
    /\ \A x, y \in DOMAIN s : x < y => a[x] <= a[y]
    /\ \A x \in DOMAIN s : PathMatch(p[a[x]], s[x])
    /\ \A n \in DOMAIN p : p[n] # Any => \E x \in DOMAIN s : {y \in DOMAIN s : a[y] = n} = {x}
Matches(p, s) == IF Len(p) = 1 THEN \E x \in DOMAIN s : PathMatch(p[1], s[x]) ELSE Aligned(p, s)
MatchesOne(s) == \E n \in DOMAIN patterns : Matches(patterns[n], s)

(* The search finds a match when there is one and only then, for the file    *)
(* and for every directory above it, whatever was tried before: a file is    *)
(* hidden if and only if a pattern matches it or a directory on its way.     *)
VerdictExact ==
  verdict # "walking" =>
    (verdict = "hidden" <=> \E d \in DOMAIN path : MatchesOne(SubSeq(path, 1, d)))

(* Pruning a directory hides no more than the patterns say of the file       *)
(* itself, as long as each pattern has no "/" or ends in "**": "vendor/*" is *)
(* not such a pattern, as it matches vendor/x and not vendor/x/y             *)
(* (walk.go:101-109, glob.go:31-38).                                        *)
Hereditary(p) == Len(p) = 1 \/ p[Len(p)] = Any
PruneHidesNoMore ==
  verdict # "walking" /\ (\A n \in DOMAIN patterns : Hereditary(patterns[n])) =>
    (verdict = "hidden" <=> MatchesOne(path))

(* The search ends, for every pattern and path. *)
Returns == <>(verdict # "walking")
=============================================================================
