# Verification of keysweep

keysweep inventories the cryptographic material in a file tree: it walks the
tree, reads candidate files in a pool of goroutines, recognises private keys,
certificates, requests and containers in their bytes, and either prints the
inventory (`keysweep scan`) or gates on a policy (`keysweep check`). This
directory holds TLA+ models of that program, the TLC configurations that check
them on small instances, and proofs of some of their properties that TLAPS
checks for every instance.

`PROJECT.json` lists the runs, for every property a mutant of the model that
breaks it, the source lines every definition stands for, the hazards of the
code and the theorems.

    tlc -workers 2 -config MCSweepBusy.cfg MCSweep.tla     # one run
    tlapm SweepProofs.tla                                  # one module of proofs

## The system

| Part | Source (`src/`) | State it keeps | Operations | Model |
| --- | --- | --- | --- | --- |
| Walk and pool | `internal/sweep/walk.go` | candidates, skipped counter, slots, goroutines, the `work` channel | `Scan`, the `WalkDir` callback, `parseAll` | `Sweep` |
| Exclude globs | `internal/sweep/glob.go` | what is left of pattern and path, the recursion | `Excluded`, `Match`, `matchSegments` | `Glob` |
| Finding | `internal/finding/finding.go` | none: a value | `Sort`, `Expired`, `DaysLeft`, `LoosePerms` | in `Sweep` and `Gate` |
| PEM scanner | `internal/parse/pem.go` | `rest`, `base`, findings | `scanPEM`, `decodeIndented`, `classifyPEM` | `PemScan` (which blocks), `Dispatch` (what each is) |
| PuTTY keys | `internal/parse/ppk.go` | scanner position, blob, finding | `parsePPK` | `Ppk` |
| Dispatch, DER, PKCS#8, PKCS#12 | `internal/parse/{parse,keyinfo,der,pkcs8enc}.go` | the findings so far | `File`, `parseKeystore`, `scanDER`, the recognisers | `Dispatch` |
| OpenSSH keys, SSH wire | `internal/parse/{openssh,sshwire}.go` | buffer and offset of the reader in use | `parseOpenSSH`, `parseSSHPublicBlob`, `sshReader` | `Wire` |
| Policy gate | `internal/policy/policy.go` | breaches | `Evaluate` | `Gate` |
| Summary and reports | `internal/report/*.go` | counters | `Summarize`, `Text`, `JSON`, `Markdown` | `Gate` (counters and row marks), `CommandLine` (what is printed) |
| Command line | `internal/cli/*.go`, `cmd/keysweep` | arguments, flags, exit code | `Run`, `parseFlags`, `pathArg`, `runScan`, `runCheck` | `CommandLine`, with `Gate` after the sweep |
| Test keys | `internal/testkeys` | none | fixtures | none |

How they interact. A command calls `sweep.Scan`, then `time.Now`, then
`policy.Evaluate` or a renderer; they share the slice of findings and nothing
else. `Scan` calls `Excluded` for every entry of the walk, and its goroutines
call `parse.File`, which is a pure function of the bytes, and write to disjoint
elements of `slots`. The file system is shared with every other process, without
a lock. There is no persistent state of keysweep's own, so there is nothing to
recover after a crash, and no network, timeout or retry.

What is hard here:

- **Concurrency.** `slots` is written by goroutines and read by `Scan` with no
  lock. It is sound only because an index is received once and `Wait` stands
  before the loop that reads. The unbuffered channel can block both ends.
- **Staleness.** The type of a file is from `ReadDir`, its size and mode from a
  later `Info`, its content from a still later `ReadFile`, which is an open and
  several reads. Anything can change in between, and the file while it is read.
- **Partial failure.** Directories that cannot be listed, files that vanish and
  files that cannot be opened are counted, and the rest must be unaffected.
- **Skipping ahead.** `pem.Decode` looks for the *next* block from where it is
  pointed, so the loop of `scanPEM` may get back another block than the one it
  found the marker of. `parsePPK` takes as many lines as the file tells it to.
- **Lengths in the data.** `sshReader` is steered by 32-bit lengths it reads, and a
  container holds a reader of its own for the blob inside it.
- **Precedence.** Formats are tried in turn and a header, a block type and a container
  may each say something about protection; the last one asked wins.
- **Boundaries.** Days are cut towards zero on both sides of an expiry, durations
  saturate, hours are rounded to `float64`, and the same window is tested in three
  separate places.
- **Order.** `sort.Slice` is not stable, so reproducible reports need findings
  that never compare equal.

What makes each part correct:

- *Walk and pool*: it returns; no data race; every candidate is accounted for once;
  a file that does not change is reported exactly, whatever happens to its
  neighbours; nothing is invented; reports are in one strict order.
- *Globs*: the search finds a match if and only if there is one, and ends; pruning
  a directory hides no more than the pattern says.
- *PEM scanner*: damaged blocks and stray markers never hide a good block; no block
  is reported twice; findings have distinct lines; the loop returns.
- *PuTTY keys*: what stands from Private-Lines on changes nothing; an encrypted key
  is never reported as plaintext.
- *Dispatch*: no key of a bundle is lost to a damaged neighbour or to a format tried
  before; the protection reported is the one the block states.
- *SSH wire*: no length takes the reader out of its buffer, and a key is read exactly
  when the container holds one.
- *Gate and reports*: `check`, the summary and the marks of the rows agree at every
  instant; the window is what it says, up to the rounding of `Hours`; a tree that
  failed goes on failing as time passes.

## The modules

**`Sweep`** models `Scan` and `parseAll` as one process (`pc`) and a set of
goroutines (`worker`). One action stands for the code between two points at
which others can be noticed: the lstat of the root, `WalkDir`'s lstat of it, each
visit of a directory (callback, `ReadDir`) or of a file (callback, `Info`),
starting the pool, one hand-off, `close(work)`, the beginning of a `ReadFile`
(`OpenFile`) and the rest of it (`ReadRest`), one store, one goroutine's end, `Wait`, one turn of the collect loop, the sort. `pending` is the
set of entries `WalkDir` has listed and not visited, taken in `WalkOrder`. A send
on the unbuffered channel and the receive that takes it are the one action
`Handoff`. `Touch` is another process that gives a path another state: gone,
a regular file with another content or mode, a file that cannot be read, a link,
a directory, a directory that cannot be listed. `seen` is a history variable: every
state each path has been in. `Touch` is enabled from the first lstat to the end of
the pool, as before that it makes another initial tree and after it nothing
is read. A tree is a fixed set of paths (`Beneath`), a content a member of
`Contents`, and `Parse` what `parse.File` returns for it. What a read returns is one of
`Mixed` of the content the file had when it was opened and the one it has at the end:
either of them, if it was replaced or written in one go, or a text that was never there (`Texts`). The walk lists the
entries of a directory in name order and the report is in byte order of whole
paths; both orders are constants because they differ (`a/k` is met before `a.txt`
and sorts after it).

**`Inventory`** says what `Scan` promises without a walk, a pool or slots: every file in
scope is listed, examined and opened at most once, each at one moment and as it is at that
moment, and read to its end once, and the report holds exactly what was read, in order.
**`SweepInventory`** maps a state of `Sweep` to one of `Inventory`: the status of a file is read
off `pending`, the candidates, the goroutines and the slots. A file waits there until it is opened;
in `Sweep` it is handed to a goroutine first, and what was read is in the slot only a step later,
with others in between.

**`Glob`** models the walk's way down to one file: `Excluded` is asked for every
prefix of its path, over a list of patterns, and `matchSegments` is run as the
backtracking search it is, its recursion a stack of frames (one for each `**`).
The pruned names (`node_modules` and so on) are in `Sweep`. `Sweep` takes the
answers of `Excluded` as the constant `ExcludedPaths`.

**`PemScan`** models the loop of `scanPEM`. A line is what the loop and
`encoding/pem` tell apart in it: a BEGIN or END marker and whether it stands in
column 0, behind blanks or inside the line, an END marker behind a BEGIN one, a header
(`Proc-Type: 4,ENCRYPTED`), base64, or prose. `pem.Decode` is
defined declaratively (the first well-formed block), as the code relies on it;
the loop, the retry of `decodeIndented` and the arithmetic of `base` are the code.
Types are split into those `classifyPEM` makes a finding of and those it drops.

**`Ppk`** models `parsePPK` line by line, the inner loop over the public blob
included. What base64 and the SSH blob reader make of collected lines is a
function on sequences of texts. A line too long for `bufio.Scanner` ends the scan, but for one
case that the model has: when it ends the inner loop, the outer one calls `Scan` again and gets
the start of that line (`LongLine`).

**`Wire`** models `sshReader`, `parseOpenSSH` and `parseSSHPublicBlob`, one action a field:
`reader` is the buffer and the offset, and the blob gets a reader of its own. A buffer is a
sequence of bytes; how many bytes make a length, and what number they are, are constants.
The module has no `Spec`, as a container is only ever read for a block.

**`Dispatch`** extends `Wire` and models the rest of `parse`: `File` and the order in which
it tries formats, the blocks of a bundle one after the other, `classifyPEM` with its
`Proc-Type` header, the containers field by field, and the recognisers of bare DER. A DER
value is its outer SEQUENCE, element by element, and what `crypto/x509` finds in it.
`parsePPK` is the outcome that `Ppk` models in full, and the blocks are those
that `PemScan` shows to be found.

**`Gate`** holds what both commands do with a finished sweep: the predicates of `finding.go`,
and `Evaluate` and `Summarize` as loops, a finding a turn. Each of `Evaluate`, `Summarize` and the
row marks (`Flagged`) has its own test of the window, as in the code. Time is in clock units, `Day` of
them to a day, and `time.Duration` saturates at `MaxDuration`. `Days` models the way of a duration
through `float64`: the last `Early[k]` units before `k` days already count as `k`. It has no `Spec`.

**`CommandLine`** extends `Gate` to the whole program, from the arguments to the exit code:
`Announce` and `Dispatch` are the switch of `cli.Run`, `ParseFlag` and `FlagError` one turn
of `flag.FlagSet.Parse`, `Refuse` and `Accept` the checks of the path and of the format, then
the sweep, the loops of `Gate`, and `Report`. Every early return is an action that ends the
line. The flag package is modelled by what it does with an argument: `FlagName` says which
flag an argument names, `Inline` what stands behind its `=`, `Number` and `Truth` what it reads
as an int or a bool; that a flag without `=` takes the next argument whatever it looks like,
that `--` ends the flags and that a repeated flag keeps its last value, but for `--exclude`, are
in the actions. What is printed is a value: the sections and marked rows that `Text` and
`Markdown` build alike, the counters each of them prints (`TextReport` leaves out what is zero,
`MarkdownReport` does not), the fields of `JSON` by which a reader decides, and of `check` the verdict,
which `CheckText` and `CheckJSON` come to separately. A session is a tree that stays as it is and the lines run over it, one after the other,
while the clock moves; `ended` remembers every line with what it did and printed. The sweep
is one step here, `SweepReturns` or `SweepError`; its inside is `Sweep`.

Each module ends with its type invariant, its properties and, last, what the
documentation says and the code does not do. `MC*.tla` give the constants their
values. Definitions introduced by "Mistake" are mutated forms of the one below
them. No definition of a model uses them.

## The runs

| Run | Question | Distinct states |
| --- | --- | --- |
| `sweep_still` | On trees nobody changes: is the report exact and in strict order, are the counters exact, does `Scan` return? | 99 000 |
| `sweep_busy` | Two goroutines and two changes by others at any moment, in the middle of a read too: no race, everything accounted for, untouched files exact, nothing invented? Does `Sweep` implement `Inventory`? | 772 000 |
| `sweep_link` | Finding, see below | |
| `glob` | Does the search agree with a declarative definition of a match, and end? When is pruning faithful to the patterns? | 144 000 |
| `pem` | Are all strict blocks found, once, with distinct lines? Which indented ones are? Does the loop return? | 171 000 |
| `pem_every` | Finding | |
| `ppk` | Exact where the file's counts are honest or out of range; right about protection where not? | 179 000 |
| `ppk_secrets` | Finding | |
| `gate_series` | Does a command line end with the exit code and the output it owes? Do the same words mean the same sweep? Do gate, text, Markdown and JSON agree; is the window what it says; does a failure stay? | 271 000 |
| `gate_container` | Finding | |
| `dispatch` | Does the reader stay in its buffer and read exactly what is there? Is every key of a bundle listed, with the protection it states? Does the order of the DER recognisers matter? | 109 000 |
| `dispatch_openssh` | Finding | |

What the less obvious properties say:

- `StableFilesExact` and `NoPhantoms` share the work under concurrent changes. The
  first speaks of a file that nobody touches while its neighbours and parents
  change: it is reported with all its findings if eligible and not at all if not.
  (`seen` records a file as changed when a directory above it is closed or goes,
  since that takes it out of reach.) The second speaks of the others: a finding is in
  what a read can make of two contents the file had, and has a mode it had at some
  moment, though *not necessarily the same one*: that is as much as the code promises.
- `ImplementsInventory` says that the pool cannot be told from the outside: what was
  handed out, is held, stored or lost is at every moment the outcome of files opened and
  read one at a time. A goroutine that took another one's index breaks it.
- `CountsExact` pins the two numbers at the foot of a report to the tree itself.
- `StrictOrder` is why `sort.Slice` may be unstable. It needs that a file's findings
  have distinct lines, which `Sweep` assumes of `Parse` (`DataAssumption`) and
  `PemScan` shows (`LinesIncreasing`); every other parser returns one finding.
- `PruneHidesNoMore` states for which patterns a pruned directory hides only what the
  pattern matches anyway: those without `/` and those that end in `**`. With
  `vendor/*` the walk also hides `vendor/x/y`, which the pattern does not match.
- `VerdictExact` shows something about the final test of `matchSegments` as well: in
  the walk, a version that accepted a matching prefix of the path could not be told
  apart, because the directory the prefix names has been asked for before.
- `IndentedComplete` is what the code promises for blocks pasted with an indentation:
  they are found as long as no strict block stands further down.
- `Exact` compares the cursor of `sshReader` with a definition of the format that has none
  (`Contents`: where strings end, as sets of positions). Truncation at every byte,
  lengths that point into the next field, and the private section, which looks like
  more fields, are all covered by the one equation.
- `NoKeyLost` is about bundles: a block that does not parse, or a container that cannot
  be read, must neither take a key out of the inventory nor shift the others.
- `Unambiguous` shows that the comment "Order matters" (`der.go:72-74`) is more careful than
  it needs to be: at most one recogniser takes a value, so their order never decides.
- `ProtectionStated` says which of three statements about encryption wins: the container's
  cipher, the type `ENCRYPTED PRIVATE KEY`, or the header, in that order.
- `SameWordsSameSweep` compares lines: "scan" may be left out, and `check` sweeps what `scan`
  shows for the same flags. An implicit scan whose first argument were dropped, as if it were a
  command, breaks it.
- `ExitCodes` is what a script relies on: standard output is empty exactly when the code is 2 or
  3, 2 means that nothing was read, 1 is a failed gate and nothing else; and the verdict printed,
  `PASS` or `"pass": true`, is the one returned, though the formats decide it on lines of their own.
- `JSONDecides` and `FormatsAgree` are about two renderings of one sweep: whoever applies
  the policy to the fields of the JSON inventory concludes what `check` concludes, and the rows
  that text marks are those of which the JSON says that they are loose, expired or about to
  expire. The fields are there for some kinds only, and a certificate's
  day 0 lies on both sides of its expiry, so `days_left` alone does not decide. Containers are
  the exception that `FormatsAgree` names: the JSON says that one is loose and no row does,
  which is part of the finding `gate_container`.
- `WindowUpToRounding` is as much as holds of the window: `DaysLeft` goes through `float64`, so a
  certificate with a little less than `n` days left may be outside a window of `n` days.
  The table under "Seen while modelling" says how little.
- `FailStaysFailed` spans commands: a certificate leaves the window by expiring, and
  no instant may lie between the two rules.

Bounds, and why they are enough.

- `MCSweep`: the tree has a nested directory, a pruned one, an excluded file and the
  pair `a/k`, `a.txt`. `sweep_still` takes every combination of seven states of two
  files (one a link to a file, one a link to nothing), three of the directory and two of the excluded path, four kinds of root,
  both settings of `--all`, and pools of one and three goroutines (more than there are
  candidates on some trees). `sweep_busy` has two goroutines because the pool's
  hazards are between a pair; two changes (`MaxChanges`) are what it takes to replace
  a file and put it back, or to change its mode and its content apart. The cap is two
  bytes, so that one content is over it. The content "none" is a file
  without findings; a bundle that is rewritten while it is read may lose its second block.
  A read has two parts: that more parts show more contents than two is the abstraction.
- `MCGlob`: up to four segments hold two `**` with a name between or after them,
  which is what backtracking needs; two names tell a match from a miss, and `[` stands
  for every glob that accepts nothing.
- `MCPemScan`: four lines over twelve kinds, four over eight with markers behind a name, and
  five over seven, hold a block with a damaged one above it, two blocks, a block inside another's
  text, one with headers, a key written into one string, and two files joined without a newline.
- `MCPpk`: five lines and the header hold an Encryption line, a count, a blob,
  Private-Lines and what a trailing line would change; counts are right, too large and, above
  and below, out of range.
- `MCDispatch`: bytes are 0 to 7 and a length is two of them in base 8, so it can be up to
  63 while the longest container has less than 50 bytes: every container is cut off
  after each byte and has each byte replaced by each other, which makes every length too
  small, too large and far too large. Key counts are 0 to 4 with `MaxKeys` at 3. The DER
  values are all triples of element kinds, and the shapes with more elements. Bundles
  have up to three blocks out of seven: a container in order, an encrypted one and a damaged
  one, keys whose bodies do not parse, and a certificate that is no finding.
- `MCGate`: three sorts of session. Every line of up to two arguments out of 25 (each flag with
  and without `=`, texts that are a number, a bool, neither, words that are commands,
  unknown flags, `--`, `-`), all that put two behind `check`, and commands with three
  out of seven: a value that looks like a flag, a flag at the end without its value, two paths.
  Pairs that say the same with and without the command, or through both commands, or
  through the gate and the JSON, over trees of every kind. Gates in pairs, and a gate with a scan,
  with every set of rules: expiries run from well before to well after the window by single clock
  units with two units a day, so both sides of every cut are met; a duration saturates
  at three days so that it does, and `Early` takes one unit off three days, so that the windows
  of two, three and four days are an exact one, a rounded one and one beyond the saturation. The clock moves by `End` units. The properties
  compare two ended lines, so a longer session adds pairs that are already there.

Fairness. `Sweep` assumes weak fairness of `Scan`'s own steps and of each goroutine's: the
Go scheduler runs what can run, and every file system call of the model returns. A
read that never returns (a FIFO) is outside it; see the hazards. `Touch` has no
fairness: others may change the tree or leave it. `PemScan` and `Glob` are one loop
that nothing blocks, with weak fairness of its step. `Ppk`, `Dispatch` and `CommandLine` state no
liveness: the loops of the last are those of the `flag` package and ranges over slices. Deadlock is checked everywhere but in `CommandLine`, where a session ends. The
other modules have an explicit stuttering step once they have returned, so a
deadlock that TLC reports is a real one.

## What is proved

`SweepProofs` proves, for every tree, any number of goroutines, any
`MaxFileSize` and any number of changes by others:

- `TypeCorrect`: `TypeOK`, and with it that no directory becomes a candidate;
- `Stages`: `StageInv`, what each stage of `Scan` has handed out and gathered;
- `NoDataRace`: `DataRaceFree`;
- `EveryCandidateCounted`: `Accounting`;
- `SharedIsFrozen`: the action property `FrozenWhileShared`.

The inductive invariant is `IInv == TypeOK /\ StageInv /\ DataRaceFree`.
`DataRaceFree` alone is not inductive. That a hand-off gives a goroutine an index
nobody holds, of a slot nobody filled, follows only from `StageInv`: every index that is held or
filled is below `next`. That the indices in use stay inside `slots` needs that `slots` and `candidates` have one
length from the spawn on, which `StageInv` says too. `Accounting` follows from its last part, which counts
the filled slots below the cursor. `StageInv` is an invariant of `sweep_busy` as well.

`PemProofs` proves, for files of every length and any set of block types:

- `TypeCorrect`: `TypeOK`, the scan stays in the file;
- `DistinctLines`: `LinesIncreasing`, which discharges, for PEM files, what `Sweep`
  assumes of `Parse`;
- `NoDoubleReport`: `BlocksDisjoint`;
- `NoStrictBlockLost`: `StrictComplete`;
- `NoIndentedBlockLost`: `IndentedComplete`.

Here `IInv` adds to the type invariant `Behind` (all findings lie before `base`, one
after the other, and a finding's line is at or before its block), `StrictSoFar` (every strict block that
begins before `base` has its finding) and `AllSeen` (when the loop is done no marker is left). The
crux is that no step carries `base` past the beginning of a strict block it did not
report: `pem.Decode` returns the first one, blocks do not nest (`OneEnd`), and when it
returns none there is none below the marker (`NothingStrict`). For the indented ones `PastedSoFar`
says the same of every block that pem.Decode does not pass over: the dedented copy
of its lines holds it (`PastedDecodes`), up to the first END there is no other (`IndentedPasted`), and
a strict block found past it would be found from it as well (`StrictPasted`).

`PpkProofs` proves, for files of every length, any ciphers and any decodable blobs:

- `TypeCorrect`: `TypeOK`, no count the file gives takes the parse out of it;
- `ProtectionIsSound`: `ProtectionSound`;
- `HonestIsExact`: `HonestExact`.

The public lines are those above Private-Lines, a line too long and a count out of range (`Ends`). Its `IInv`
adds `Kept` (of the public lines read so far that stand above every count, none with a cipher was lost), `CipherStands` (a reported cipher stands in the file),
`BelowCount` (the inner loop, which takes lines unseen, runs only below a count) and `AllRead`
(the parse ends only when every line above the counts was read). `HonestInv` adds, for a file whose
counts are honest or out of range, that the finding says at every line what the public lines read so far say
(`CiphersSay`, `BlobsSay`), and where the inner loop stands in the blob it collects (`InBlob`), so that it is
never the one Scan ends in.

`DispatchProofs` proves, for any bytes, any width of a length, any files and any bundles:

- `TypeCorrect`: `TypeOK`, for the reader and the dispatch;
- `ReaderStaysInside`: `Inside`, which is why `sshReader` cannot panic;
- `EveryKeyListed`: `NoKeyLost`;
- `OrderNeverDecides`: `Unambiguous`;
- `ContainersReadExactly`: `Exact`;
- `ProtectionAsStated`: `ProtectionStated`.

Its `IInv` adds to `TypeOK` that a step which takes a field begins in the buffer and ends in
it, that the lines of the findings are those of blocks already passed (`Below`), that a file
that is not searched for PEM has none (`Fresh`), and that a container is open only for an
OPENSSH PRIVATE KEY block (`InContainer`). `NoKeyLost` is part of it.

For the last two, `WireInv` says at every step of the reader what is `Left`: what the container
states as a whole is what can still be read from the offset on, together with the texts already taken. A
read that succeeds hands that on to the next field, one that fails leaves nothing,
and the return finds either exactly one key or none. So no induction over the fields is needed, and neither the length
of the bytes nor the width of a length is bounded. `ReadInv` joins it with `IInv` and with what the dispatch
keeps of a block while its container is read (`ContainerOpen`), from which
`ProtectionStated` is kept by the one step that adds a finding (`ReportSays`).

`ReportProofs` goes on from `SweepProofs` to the report, again for every tree, pool and
change by others:

- `NothingInvented`: `NoPhantoms`;
- `OneOrder`: `StrictOrder`;
- `StableFilesReported`: `StableFilesExact`;
- `CountersExact`: `CountsExact`.

Its `RInv` follows a finding from the tree to the report: `seen` holds what each path is now
(`SeenNow`); the entries still to visit are in scope, their subtrees disjoint, so that
no path is met twice (`WalkScope`, `Unnested`); a candidate is in scope and has a mode its file had
(`CandidatesFromTree`); what a goroutine holds, and what a slot holds, is `Stamp` of what a read makes of two contents the file
had (`HeldSeen`, `SlotsSeen`); and what the collect loop has gathered is what the slots
below its cursor hold, slot after slot (`Gathered`). `OneOrder` needs `Unnested` (two findings of
one path are of one slot, hence of different lines) as well as `DataAssumption`. That a path is met once
needs that directories whose subtrees share a path are nested, which is the last part of `TreeAssumption`
about `Beneath`.

`RInv` says that nothing wrong gets into a report; `StableFilesReported` also needs that nothing gets
lost. `SInv` says so, of a file that has been one eligible thing so far: while the
walk runs it is a candidate already, or its own entry is pending, or that of a directory above it
(`NoneMissed`), and an index that was handed out is held by a goroutine, read, or was unreadable at some moment
(`Attended`). `VisitDir` keeps the first because the entries of a directory cover all that is below it:
the path the walk meets first, of those that lead to the file, is an entry (`EntryAbove`, by the
well-foundedness of the naturals, which is the use of `WalkOrder` in `TreeAssumption`), and
nothing above a file that can be seen is shut or gone (`OpenAbove`). That an ineligible file is not reported
is `EntryTypes` and `CandidatesFit`. `TouchMissed` is where a file that changes stops being spoken of.

`CountersExact` is about a tree nobody changes (`Still`). `CInv` says that the walk's `skipped` is at every step the
number of things in scope it has `Passed` over: files that are too large and directories that are shut, but for
those still `Due`, below an entry that is pending. A path is due below one entry only (`Unnested`), so a step
that passes one over takes exactly one from `Due`; what the goroutines could not read is counted by the
collect loop, slot by slot. `PathsCounted` turns counts of indices into counts of paths.

`InventoryProofs` proves

- `SweepImplementsInventory`: `ImplementsInventory`.

The initial states are mapped to initial states (`InitSim`), and there is a lemma for each action:
`VisitDir` lists files, `VisitFile` takes one or drops it, `OpenFile` begins one, `ReadRest` finishes it,
`Sort` publishes the report, and every other step, `Touch` apart, leaves `scope`, `status` and `report` alone
(`Touch` changes the view). The status of a path is defined with `CHOOSE`; `StatusFacts` and `ResultFacts`
say what it is in terms of the one candidate with that path and of the one goroutine that may hold
it, which rests on `Unnested` and `DataRaceFree`. The two counters of the report are
cardinalities of sets of paths there and of sets of indices here, which `PathsCounted` of `ReportProofs` shows
to be the same.

`GateProofs` proves, for every session: any findings, lines of any length over any flags
and texts, any length of a day, any saturation, any rounding of less than a day and any clock,

- `TypesHold`: `LineType`;
- `ExitCodesHold`: `ExitCodes`;
- `WindowHolds`: `WindowUpToRounding`;
- `FailuresStay`: `FailStaysFailed`;
- `ReportAgrees`: `GateAgreesWithReport`;
- `JSONSuffices`: `JSONDecides`;
- `FormatsTellTheSame`: `FormatsAgree`;
- `WordsDecide`: `SameWordsSameSweep`.

`Breaks(rule, f, t, r)` and `Counted(field, f, t, r)` say without a loop what a finding breaks and
what counts it. The invariant `IInv` says that the loop has gathered exactly that of the findings
before its cursor (`Running`, with `EvaluateLists`, `Extend`, `SummaryAdds` and
`CountMore` for one turn), that a chosen command has its flags with values of their types
(`Parsed`, which is why the rules are numbers and truth values), and that a line that has
ended printed and returned what was gathered (`Done`). The properties then are facts about
`Breaks` alone: `WholeDays` shows that a quotient that is rounded and cut is below a window exactly when the time
is below it by more than `Early`, `Window` adds the saturation, `StaysBroken` that time only moves a certificate from the window
to the expiry, and `Conclusions` that the JSON fields determine `Breaks`.

`TInv` adds what exactly a swept line printed (`Told`), so that text, Markdown and JSON can be compared: the
sections list every finding of their kind once (`OfKindLists`, by ranks in a finite set), hence their rows are
the findings and their lengths the counters, and a counter that `TextCounters` leaves out is zero.

`WordsDecide` compares two lines that ran at different times, and what the flag set does with one is a
loop of unbounded length: it is a statement about the function the loop computes, which would be an induction over data. It
is proved with closed sets instead. `Leads(nx, x, s)` says that `s` is in every set that holds `x` and is closed under
the function `nx`; `OneEnd` shows that a function leads from `x` to at most one state in which it stays.
`WInv` says that a line stands where its words lead, in two walks at once: the one of its command, and one that
knows every flag and keeps those both commands have (`Led`; `Here` relates the arguments to the words).
Both end where the flags end, so lines with the same words end their flags at the same word with the same
shared flags, whichever commands they are of (`SamePlace`). The breaches of `check` are compared in the same way (`Tally`,
`SameBreaches`), the counters of `scan` by what they count (`SameCounts`).

`GlobProofs` proves, for patterns and paths of every length and any answers of `path.Match`:

- `TypesHold`: `TypeOK`, neither a pattern nor a path is read past its end;
- `VerdictIsExact`: `VerdictExact`;
- `PruningIsSound`: `PruneHidesNoMore`.

`Rest(p, s, m, i, j)` says that the segments `j` to `m` of a path can be assigned to what the
pattern `p` holds from its segment `i` on, which is what a call of `matchSegments` is asked. Three
lemmas unfold it by one segment, as the code does: `RestEnd`, `RestSegment` and `RestStar` (a `**`
absorbs nothing more, or the next segment and perhaps more). The invariant is that nothing is
lost and nothing is made up while a pattern is tried: it matches if and only if what is still `Ahead`
does, the innermost call or a `**` that absorbs more. So a match ends in `hidden`, and when nothing
is ahead there is none. `RestOfMore`, that a pattern with `**` at its end matches whatever is below a match,
gives the last theorem.

The proofs assume the named assumptions of the modules (`TreeAssumption`,
`DataAssumption`, `OptionsAssumption`, `TypesAssumption`, `FilesAssumption`,
`PpkAssumption`, `GlobAssumption`, `WireAssumption`, `DispatchAssumption`, `GateAssumption`, `LineAssumption`), which
TLC evaluates in every run, and nothing else.

Every invariant, the action property and the refinement that a passing run checks are proved. Only model-checked are
the temporal properties `Returns` of `Sweep`, `PemScan` and `Glob`: liveness under
fairness is out of the prover's reach.

## Findings

Where the code and its documentation disagree; each has a run whose counterexample
shows it.

- `sweep_link`: a root that is a symbolic link is read through (`walk.go:80`), although
  "Symlinks are never followed".
- `pem_every`: an indented block with a strict one below it is never reported, although
  "every block in the file is classified".
- `ppk_secrets`: a `Public-Lines` count that is too large carries the parser past
  `Private-Lines`, although "the inventory never reads it".
- `gate_container`: `docs/formats.md:62-65` says that a container readable beyond its owner is
  flagged with `!` and that `check` fails on it. Neither is so: `check` has no rule for containers,
  which a test of the repository asserts (`policy_test.go:106-114`), and the tables of containers
  have no column for a mark, while the JSON has `loose_permissions`. The property asks for one of the
  two only, so its counterexample shows that both are missing.
- `dispatch_openssh`: a complete container with a public key of a type the parser does not know
  is reported as plaintext although it names a cipher: the error drops what was already read.

Seen while modelling, and not the subject of a run:

- "Negative if expired" (`finding.go:84`) is not true of the first day after the expiry, which is day 0.
- `DaysLeft` loses the last nanoseconds before a whole day to `float64`: with 365 days less one
  nanosecond left it says 365, and `--expiring 365` does not count the certificate. How many
  nanoseconds, by the days left (`Early` in the model, with the clock in nanoseconds):

  | from day | 1 | 171 | 342 | 683 | 1366 | 2735 | 5465 | 10925 | 21852 | 43692 | 87386 |
  | --- | --- | --- | --- | --- | --- | --- | --- | --- | --- | --- | --- |
  | ns | 0 | 1 | 3 | 6 | 13 | 26 | 52 | 104 | 209 | 419 | 838 |
- A PuTTY file with a line over 1 MiB inside its public blob (`--max-file-size` permitting): `parsePPK`
  calls `Scan` once more after it failed, and the start of that line is taken for a header.
- For a root that is a link the cap is compared with the size of the link, and the whole
  target is read (`walk.go:79`). A single-file root is not compared with the patterns.
- A stray marker above a block gives the finding the stray marker's line.
- The summary prints `expiring ≤Nd` for certificates with *fewer* than N days left
  (`text.go:95`, `summary.go:48`). With a window beyond 292 years every certificate is
  expiring, because `time.Time.Sub` saturates.
- The test `TestPPKParserNeverReadsPrivateLines` appends `Encryption: none` as a canary, but
  that line would change nothing if it were read (`ppk.go:66`).
- A file that begins with `PuTTY-User-Key-File-` and is not a valid PuTTY key is not searched
  for PEM, so a key block inside it is not reported. DER that happens to contain the PEM
  marker is only searched for PEM.
- A DER SEQUENCE of an AlgorithmIdentifier and an OCTET STRING, as a DigestInfo is, is taken for
  an encrypted key.
- The JSON of `check` has no `schema_version` (`check.go:52-64`), although `README.md:105` says that
  the envelope has it for both subcommands.
- `keysweep version --bogus` exits 0: what follows `version` or `help` is not looked at.
- `--max-file-size 0` means the default cap and not none; so does a negative one.
- A `Proc-Type: 4,ENCRYPTED` header without `DEK-Info` is reported as encrypted with no cipher; on
  a CERTIFICATE block it leaves a cipher in the finding.

## What is not modelled

- The inside of DER values, which `crypto/x509` and `encoding/asn1` read: a value of
  `Dispatch` says what they find. Names, dates, sizes of keys and the KDF of an
  envelope are left out, but for whether a size is known.
- The layout and the wording of text, JSON and Markdown, and errors of `json.MarshalIndent`,
  which has no value here that it cannot encode.
- A read of more than two parts; a directory that can be listed but not searched; two BEGIN markers
  on one line.
- `filepath.Rel` failing, which it cannot for a path `WalkDir` made from the root.
- Reads that block for ever, and directories that become files between `ReadDir` and
  the visit (a path is in `Files` or in `Dirs` for good).

## Plan

Written: `Sweep`, `PemScan`, `Glob`, `Gate` and `Ppk`, then `Wire` and `Dispatch`, the
abstract specification `Inventory` with the proof that `Sweep` implements it, the whole
program as `CommandLine`, and the proofs above. What is left, in order of what it adds:

1. proofs: for each loop, a measure that every step of it decreases, which is what termination rests on besides fairness;
2. models: a file whose type changes between directory and regular during the walk.

