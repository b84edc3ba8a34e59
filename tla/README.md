# Verification of the meeting translator's protocol core

TLA+ modules, TLC runs and TLAPS proofs about the code under `src/`. At this
commit the repository holds a protocol package (`protocol/`) and developer tools
(`tools/`); the services under `server/` and the client are empty directories.
What can be verified is therefore the part every service will share: the reducer
that turns events into the timeline, the log replay it is written for, the audio
frames and the timeline they are measured on, and the tools that guard the
evaluation data and the requirement matrix.

## 1. Inventory

| Component | State it keeps | Operations | Talks to |
|---|---|---|---|
| Projection reducer, `protocol/projection.py` | `SessionProjection`: segments, seen event ids, speaker aliases, conflicts | `apply`, `fold`, `seal`, `canonical_speaker`, `ordered_segments`, `compactable_segments` | fed by whoever reads the debug log; owned once per consumer |
| Event schema, `protocol/events.py`, `enums.py` | none | validation of incoming records | bounds what the reducer can be given |
| Identifiers, `protocol/identifiers.py` | an ordinal counter per allocator | `allocate`, `parse_ordinal`, `new_event_id` | ids of streams, segments, speakers, utterances, events; segment ids are a sort key of the timeline |
| Sample timeline, `protocol/timeline.py` | none | conversions, `SampleSpan`, `measure_gap` | used by a receiver of audio frames |
| Frame codec and version, `protocol/frame.py`, `version.py` | none | `encode_frame`, `decode_frame` and their header halves, the two compatibility rules | wire between client and gateway |
| Errors and limits | none | constants, which codes are fatal | all |
| Clip cutter, `tools/cut_clip.py` | clip files, `clips.yaml`, `docs/evaluation-log.md` | `main` | recordings and their manifest |
| Matrix sync, `tools/traceability_sync.py` | the traceability matrix on disk | parse, `sync`, `render`, `--check`, write | human editors of the same file and of the catalogue |
| File hasher, `tools/hash_file.py` | none | `inspect`, report, verify | whoever replaces the file meanwhile |
| `server/*`, `client` | empty at this commit | | |

**Interactions.** Events are written to a debug log. Four consumers (timeline,
live history, compaction, recovery) own a `SessionProjection` each and fold that
log with the same code. The orchestrator, not implemented here, calls `seal()`.
Speaker merges reach over the whole session; every other event is about one
segment. The cutter's invocations share three files and no lock.

**What is hard.**

* Asynchronous answers. A segment has four revision counters (content, language,
  speaker, translation). Translations echo two of them. Revisions, retries,
  failures and merges arrive in any order, repeated or late.
* Merges. They rewrite many segments, compare no revision, and leave an alias
  table behind that may form chains and cycles.
* Replay. Idempotence is by event id, and a refused event uses its id up.
  Seals are not events.
* Audio. Frames are lost, late, repeated and damaged, streams succeed each
  other, and a peer of a newer minor version has a longer header.
* The cutter. Several effects in a row, any of which can be the last one: a
  refusal, a crash, or a second invocation in between.
* The matrix. One file is input and output of a tool and edited by people; what
  is rendered must parse back as what it was.

**What makes each component correct.**

* Reducer: transcripts are never last-write-wins; a translation never outlives
  the text it was made from; speaker changes never cost a translation; sealed
  segments never move; only canonical speakers are shown; late answers change
  nothing.
* Timeline readers: the order is that of source time, ties in the order of
  allocation, and nothing that is sealed changes places.
* Replay: a projection is a function of the log, however it was delivered, and
  all consumers end up with the same one.
* Codec and gaps: every sample is recorded where it was captured, once, and
  missing audio keeps its duration; nothing but a broken stream is ended.
* Cutter: an entry describes the clip it names and cites the recording it was cut
  from; ids are unique; locked samples are read for an evaluation only and each
  time with a line in the log. Not all of this holds of the code: section 5.
* Matrix: no id disappears, no edit is lost, exit 0 of the gate is true. This too
  holds with the exceptions of section 5, and for one run at a time.
* Hasher: a report is about one file, and the length it gives is its length.

`PROJECT.json` lists the hazards at their lines, with the property that covers
each or the reason none does.

## 2. Modules

| Module | Models | Uses |
|---|---|---|
| `Reducer` | `SessionProjection` as a value; every handler as an operator | |
| `Projection` | one session driven by any events and seals | `Reducer` |
| `ContentLedger` | abstract: what the reducer promises about transcripts | |
| `Identifiers` | formatting, parsing, allocation and order of identifiers | |
| `History` | the timeline and the compaction that readers make of a session | `Projection`, `Identifiers` |
| `Replay` | several sessions of one log, with crashes and re-delivery | `Reducer` |
| `Timeline` | sample offsets, gaps, error codes | |
| `Frame` | the frame codec byte by byte, version compatibility | `Timeline` |
| `Stream` | frames from a client to the gateway's recording | `Frame`, `Identifiers` |
| `Tape` | abstract: what a recording promises | |
| `CutClip` | invocations of the clip cutter | |
| `MatrixSync` | runs of the matrix tool between human edits | |
| `Provenance` | runs of the file hasher while the file is replaced | |
| `MCProjection`, `MCReplay`, `MCStream`, `MCCutClip`, `MCMatrixSync`, `MCProvenance` | instances for TLC | |
| `ReducerProofs`, `ProjectionProofs` | theorems about the reducer, one session and its timeline | `Reducer`, `History` |
| `ReplayProofs`, `StreamProofs`, `CutClipProofs`, `MatrixSyncProofs`, `ProvenanceProofs` | theorems about the module they are named after | that module |
| `InductionLemmas` | induction and recursion on the naturals, finite sets in order, sequences put together, division and digits | the theorem modules of TLAPS |

### Reducer and Projection

The handlers of the code return values and never raise, so `Reducer` is a set of
operators from a session and an event to the session left behind and the reason
returned. `Apply` is `apply`: id check, dispatch, recording of the id (refused
events included), the conflict list, the segment. The comparison "behind is
stale, equal is a duplicate or a conflict, ahead replaces" that the code repeats
in four handlers is one operator, `Versioned`; each handler gives its own
revisions, its own notion of an equal payload and its own replacement. Handlers
that differ keep their difference: a merge compares no revision and resolves no
alias, a failed translation compares the content echo only.

`canonical_speaker` is its loop: `Walk` is the variable after n turns, `Stops`
the negated loop condition, and the result is the walk at the first turn at which
the loop stops.

`Projection` owns one session and an `outcome` (the reason of the last result),
and has one action per event class, plus `SealSegment`. An arriving event carries
an unused id or any used one, so retries of every event are explored; a used id
may arrive with any event, which the reducer must refuse unread.

Abstractions. `Text` and `Language` are sets of model values, a language being
the pair of id and status, a draft the pair of stable and unstable text. Fields
the reducer copies and never reads are left out. A segment id is its ordinal.

### History and Identifiers

An identifier is its prefix and its digits. Padding widens and never wraps, so
ids beyond it are unique but no longer sort in the order of allocation:
`Allocate` and `LexLess` keep both effects, and `TiesInAllocationOrder` says for
which segments the order holds ("the first million", `protocol/identifiers.py:29`).
`History` sorts as `ordered_segments` does, by start and then by the *string* of
the id, over the sessions `Projection` reaches. `InTimelineOrder` describes the
sort by its result, the one sequence that shows each segment once and goes up by
the key; that there is one is a theorem. The instance has radix 3, two digits and
the ordinals 2, 4 and 9: the first two sort wrongly without padding, and the
third ("100") is past it and sorts before the second ("11").

### Replay

`log` is a sequence of records, `position[c]` how many of them consumer `c` has
folded. The log's writer and the transport are not in the source and are
external: the writer may write a record twice, a consumer may be handed a record
it has folded, and may lose everything and start over. Consumers never skip a
record. `Sealers` are those on which `seal()` is called.

### Frame, Timeline, Stream, Tape

A buffer is a sequence of bytes; the number of values of a byte and the widths of
the fields are parameters, so a small instance (a byte is a bit, a header of 20)
reaches every edge while `decode_header` still makes each test, in the order of the code,
on bytes. A function that raises returns its error code. `Offset`, `Power` and
the value that `Unpack` reads are recursive functions, about which induction is
possible.

Client, transport and gateway are not implemented. `Stream` keeps them to what
the protocol fixes and marks them external: the client captures, encodes or
loses samples; a frame may get lost, arrive late, again, after its stream has
ended, or cut; a peer may send malformed buffers (`Foreign`), each of which
fails some test of the decoder. The gateway
decodes, ignores other streams' frames, measures the gap, records, and closes on
a fatal code. `Tape` is the abstract promise (`docs/protocol.md`, section 3): every
position is decided once, in order, as missing or as the sample captured there,
in this stream. `Recording` is the instance; client, wire and connection are
hidden by it.

### CutClip

One value of `pc` per step of `main()`: everything up to the locked-set check,
`verify_source`, reading the range and opening the clip, writing it, hashing it,
reading the manifest, truncating it, writing it; for locked samples, looking for
the audit log, opening a new one with its header where there is none (as at this
commit), appending the line. A file
opened for writing is `Torn` until it is written, because `wave.open(..., "wb")`
and `write_text` truncate first. `clips` is the set that holds what `clips.yaml`
says, a set of entries, and is empty while the file is torn; `Entries` is what a
reader finds. A hash is represented by what was hashed: `clip` of an entry is
what the clip's file held, `source` is the version whose hash the *manifest of
recordings* has, because `build_entry` copies it from there. Only
one recording is modelled; other recordings share nothing but the manifest file.
The history variable `overtaken` holds the invocations for which the recording was
replaced between `verify_source` and `cut_samples`; their entries cite a recording
they were not cut from, and `EntryDescribesItsClip` excepts them. It also says that
the file an entry names still holds the clip, with the one exception the code
makes (`Spoils`): a later cut under the same id opens the file before it is refused.
Bounds are given in samples or milliseconds, and only half of the properties
survive concurrency: the history variable `alone` says whether two invocations
ever overlapped or one was killed, and the other half is conditioned on it.

### MatrixSync

`main()` is four steps: read the catalogue; read the matrix, sync, validate and
render; compare (`--check`) or truncate; write. People edit either file between
any two of them, a kill ends a run anywhere, and one between truncation and
write leaves an empty file. Runs do not overlap, although `main()` takes no lock:
a second run that reads while the first is between truncation and write would find
no rows at all, so what is checked and proved holds for one run at a time. A row's
line is its id, its columns, and its evidence and its notes as
sequences of characters, which `render` escapes and `RowOf` unescapes; a pipe that
no backslash precedes splits the line (`Broken`). `Parse`
skips split rows and lets the last of several rows with one id win, as the
dictionary of the code does. `InOrder` is Python's `sorted`, described by its
result: the one sequence of the set's members that goes up by domain
(`DOMAIN_ORDER`, or the alphabet for the orphans) and number. Accepted exceptions are rendered twice, as `render`
does. History variables: `owed`, the ids once written, and `hand`, what a person
last entered for an id. An edit leaves `hand` when the code cannot keep it: a pipe
not escaped, a save into a run that is about to overwrite the file, a kill that
emptied it; nor does it hold an edit of the first of two lines of an accepted
exception. `HandEditsStand` and `NeverDeleted` are therefore not about these
losses, each of which is a hazard in `PROJECT.json`.

### Provenance

`inspect()` opens the path three times: hash, size, WAV header. The file may be
replaced or removed in between. What `wave` refuses leaves a note; a file that
breaks off in its header raises `EOFError`, which nobody catches. Seconds are
floats with `Precision` bits, rounded to nearest, ties to even (`Two` is the power
of two, as a recursive function); the canonical rate is
a parameter that, like 16000, is no power of two.

## 3. Runs

| Run | Question | Bounds |
|---|---|---|
| `text` | do revisions, failures and translations of one segment keep it consistent, does the reducer implement `ContentLedger`, and which revisions can fall? | 5 events, content revisions 0-2, language 0-1, translation 1-2, two texts |
| `speakers` | do assigns, splits and merges stay out of translations and sealed segments, is the display canonical when all merges go to one speaker, and does the timeline keep its order? | 4 events, 2 segments whose unpadded ids would sort the other way and a third past the padding, 3 speakers, speaker revisions 0-3 |
| `replay` | is an unsealed projection one clean pass over the log; is a seal nothing but a freeze; do consumers converge? | log of 4 records, 2 consumers, one of them sealed |
| `stream` | does the recording implement `Tape` whatever happens to frames, and what ends a connection? | 3 streams, 2 frames on the wire (each may arrive any number of times), 16 samples, 3 versions, 6 malformed buffers |
| `cuts` | which guarantees survive interleaving and a kill, and which only hold while nobody overlaps or is killed? | 3 invocations, 2 at once, 13 command lines, 1 kill, recording replaced once |
| `matrix` | does a run lose an id or an edit other than in the ways listed in section 2; is exit 0 true of the rows in the domain tables? | 3 ids in 2 domains, 2 texts, 4 edits of the catalogue, 2 of the matrix, 6 entries; runs and kills unbounded, one run at a time |
| `provenance` | is a report about one file, and how wrong can its length be? | 17 files, 6 rates and none, floats of 12 bits, one replacement |
| `late_failure`, `chain_merge`, `unlogged_cut`, `hand_edits`, `canonical_length` | findings, section 5 | as the run of their module, or smaller |

**Why the bounds are enough.** The only bound of `Projection` is the number of
distinct event ids. The reducer compares a revision with one other revision, so
"behind, equal, ahead" needs three values, and a contradiction needs two texts.
The sequence a stale translation needs is final, translation, new revision, late
result: four events; five leave room for one more. The interactions of segments
are through merges alone, which treat segments independently, so two segments
show one affected and one not. Two frames suffice for every order of arrival,
since the gateway remembers the last one only; three streams let the two-valued
stream field and the allocator run over. Two invocations of the cutter suffice
for every pair of steps; the third uses what the first two left. Four edits of a
catalogue withdraw and restore an id, or withdraw two. The lengths of
`provenance` include those that lose a sample and stay below the length at
which a float cannot count samples any more, half a year of audio in the code.
The theorems of section 4 remove the bounds for 35 of the 36 properties.

Faulty variants stand next to the definition they replace and give each property
something to catch: last-write-wins on an equal revision, a merge that forgets
seals, ids that are not recorded when an event is refused, audio read at a fixed
offset, an allocator that wraps, a cell that is not escaped, a locked-set test
that looks at the start only, and so on.

**Fairness.** `Replay` assumes `WF_vars(Deliver(c))` for every consumer: `fold` is a
`for` loop over the records that takes the next one without waiting for anybody.
`Converges` follows, provided that crashes end. Nothing else is fair: no other code
waits, retries or schedules, whether a log is written, a segment sealed or a frame
sent is decided by components that do not exist yet, and tools are started by
people. `CHECK_DEADLOCK FALSE` appears in the cutter's runs, since every
invocation ends, and in `stream`, where the last stream may be over.

## 4. Proofs

`tlapm` checks these theorems for every value of the constants: any sets of
segments, events, speakers, texts, consumers, invocations, files, identifiers and
cells of any length.

| Theorem | States |
|---|---|
| **`ProjectionProofs`** | |
| `TypeCorrect` | `TypeOK`: the types of the session, including a finite alias table |
| `TranslationsAreCurrent` | `NoStaleTranslation`, which excepts a partial that is ahead of an accepted final: it keeps both translation and echo (`projection.py:330`) |
| `PendingIsAccepted` | `PendingNeedsTranscript` |
| `CurrentTranslationsLand` | `OnlyCurrentTranslationLands` |
| `TranslationsLeaveTranscripts` | `TranscriptOutlivesTranslation` |
| `LanguagesMoveForward` | `LanguageMovesWithRevision` |
| `FailuresStepBack`, `MergesStepBack` | `OnlyFailuresStepBack`, `OnlyMergesStepBack` |
| `SpeakersAreIsolated` | `SpeakerChangeIsolated` |
| `SealsAreFinal` | `SealedIsFrozen` |
| `ImplementsContentLedger` | the refinement `ImplementsLedger` |
| `FlatMergesShowNoAlias` | `NoAliasOnDisplay`, if nothing is merged into what is merged away |
| `TimelinesAreTotal` | the timeline shows every segment once, and its order is determined |
| `SealedSegmentsStand` | `SealedOrderStands` |
| `TiesAreAllocationOrder` | `TiesInAllocationOrder` |
| **`ReducerProofs`** | |
| `LoopEnds` | `canonical_speaker` ends within as many turns as there are aliases |
| **`ReplayProofs`** | |
| `ReplayTypeCorrect` | `ReplayTypeOK` |
| `ReplaysAreExact` | `ReplayIsExact` |
| `SealsOnlyFreeze` | `SealOnlyFreezes` |
| **`StreamProofs`** | |
| `StreamTypes` | `StreamTypeOK` |
| `SentIsReadable` | `WireIsReadable`: decoding undoes encoding for frames of this build's major version, and refuses as `UNSUPPORTED_MAJOR` what the encoder lets out under another |
| `OnlyDisturbedEnds` | `NoFalseAlarm` |
| `RecordingIsTape` | the refinement `ImplementsTape` |
| `IdentifiersAreUnique` | parsing undoes allocation for every prefix, and no identifier is allocated twice |
| **`CutClipProofs`** | |
| `CutClipTypeCorrect` | `CutClipTypeOK` |
| `LockedIsForEvaluation` | `LockedNeedsEvaluation` |
| `IdsAreUnique` | `ClipIdsUnique` |
| `EntriesDescribeClips` | `EntryDescribesItsClip`: range; cited source, unless the recording was replaced after it was verified; file, unless a refused cut overwrote it |
| `EntriesAreKept`, `LockedIsLogged` | `NoEntryIsLost`, `LockedEntriesAreLogged`, both while invocations run one at a time and none is killed |
| **`MatrixSyncProofs`** | |
| `MatrixTypeCorrect` | `MatrixTypeOK` |
| `IdsAreNeverDeleted` | `NeverDeleted` |
| `EditsStand` | `HandEditsStand`, with the exceptions of section 2 |
| `SyncIsIdempotent` | `Idempotent` |
| `GateIsSound` | `GateIsHonest`, of the rows in the domain tables; orphaned rows are not validated |
| **`ProvenanceProofs`** | |
| `ProvenanceTypeCorrect` | `ProvenanceTypeOK` |
| `ReportsOneFile` | `ReportIsOfOneFile` |
| `LosesAtMostOne` | `LosesAtMostOneSample` |

### Assumptions

Each is declared with the constants it is about and evaluated by TLC on the
instances.

* `ReducerAssumption`, `EventsAssumption`, `ReplayAssumption`: segment ids are
  naturals, `""` is a text, `None` is not a speaker id, events satisfy the
  schema (pydantic validates them before the reducer sees them), `seal()` is
  called on consumers.
* `TimelineAssumption`, `FrameAssumption`, `IdentifiersAssumption`: a byte has at
  least two values, every field at least one byte, start samples are signed, the
  header's size fits its field, numbers have a radix and a padding.
* `StreamAssumption`: the same for a header of one more byte, and a full frame of
  it is below the frame limit (in the code `28 + 1 <= 255` and
  `28 + 1 + 8000 * 2 <= 16384`, `protocol/limits.py`); what a peer other than
  a client sends is a malformed sequence of bytes. A forged frame that is in order
  would be recorded, and no codec can tell.
* `CutClipAssumption`, `RequestsAssumption`, `TornAssumption`: lengths and bounds
  are integers, options are given or not (`argparse`), and an unfinished file is
  told from a finished one.
* `MatrixAssumption`: both orders list the same domains, an id has one of them,
  `|` is not `\`.
* `ProvenanceAssumption`: sizes and rates are naturals, and the rate and the
  scaled number of frames are below what the float counts exactly. A WAV header
  has 32 bits for either and the code's floats 53, and `2^32 * 16000 < 2^52`.

`FlatMergesShowNoAlias` has a hypothesis about the events: no merge goes to a
speaker that another merge takes away. It is the condition the `speakers` run
satisfies and the run `chain_merge` breaks, and it cannot be dropped.

### Arguments

**Reducer and session.** `ReducerProofs` shows, handler by handler (`PartialFolds`
to `FailedFolds`, joined by `DispatchFolds`, `ApplyFolds`, `SealFolds`), that a step
keeps the types and that its effect on the segments is one of a short list: some
segment opened fresh, one open segment revised in one of a few named ways, all
open segments reassigned by a merge, one sealed. `ProjectionProofs` then proves
every property by cases over that list only. `NoStaleTranslation` and
`PendingNeedsTranscript` are inductive together with `TypeOK`; the types matter
because without them a revision could compare as anything. The action properties
and the refinement need `TypeOK` alone. `NoAliasOnDisplay` needs that every alias
comes from some merge (`AliasesAreMerged`): under the hypothesis no chain has a
second link, so the walk of `canonical_speaker` stops after one turn.

`LoopEnds` needs no induction principle. The walk is a recursive function on
`Nat`; if the loop had not stopped within the size of the alias table, its first
turns would be an injection into the table's keys from a larger set, which the
cardinality theorems exclude.

**Timeline.** The strings of two ordinals differ: without its zeros each comes to
the ordinal it was made from (`SegmentDigitsAre`, `NumeralUnique`). So the sort key
is a strict total order (`LexTransitive`, `LexTotal`, `PrecedesOrders`), a finite set
of segments has exactly one listing by it (`TimelineSorted`, `SortedOnce`, with
`FiniteSegments` as a further invariant), and the place of one segment before
another depends on their two keys alone (`PlacesByKey`). `SealedSegmentsStand` follows, because a sealed
segment keeps its key. For `TiesAreAllocationOrder`, strings of one length compare
like the numbers they stand for (`NumeralOrder`), and padding gives ordinals that
fit it one length. An ordinal that fits and a wider one do not compare that way:
a property that let one of the two be wider has the counterexample 4 and 9 of
the instance, which is why both have to fit.

**Replay.** `ReplayIsExact` is not inductive: it says nothing about why a record
handed over a second time changes nothing, and nothing about sealed sessions. The
invariant `ReplayInv` says of every consumer that it *follows* the log
(`Follows`): the ids of the prefix it has read are seen, its segments are twins
of those of one clean pass except where sealed, and every sealed segment is as
some shorter clean pass left it. The core is a simulation, handler by handler:
fed the same event, a session with seals and its twin without stay twins,
because no handler looks at another segment than its own, except a merge, which
treats each by itself. An id once seen makes `apply` return before anything else.

**Codec.** Numbers are digits in base `Byte`: packing divides, unpacking is
Horner's rule, and `UnpackPack` shows that the second undoes the first for what fits
(`DividesTwice` is the step of that induction). `PackedAt` finds each field at its
offset, `FieldIs` and `RawIs` read it back, and `DecodeIs` follows the tests of
`decode_frame` for any buffer that begins with a header of this major and is as
long as it announces. `FrameOf` puts this together with what the encoder tests,
for this build's header and a longer one; `CutIsRefused` is the other direction, for every
cut, and `ForeignIsRefused` for every other major. Identifiers of every prefix parse as the ordinals they were allocated for, past the
padding too, so allocators never return one twice (`IdentifiersAreUnique`); `OrdinalIs`
is the instance the gateway relies on.

**Stream.** None of the four properties is inductive. `StreamInv` adds what is on
the wire (`Sent`: each entry a readable frame with its stream's ordinal and the
samples that stream captured at its position) and in which order (`OrderInv`):
the frames of the stream go up without overlap and end below what is captured,
those still to arrive belong to the current stream, and as long as nothing
disturbed it they begin where the recording ends or later. Without the last part
an overlap could come from a loss. Every arrival either leaves the recording alone or
records one entry of the wire (`Halts`, `Records`), so one lemma for each covers
frames in order, late, again and cut; `RecordedTape` says what a recorded frame
adds, which is a step of `Tape` or, for an empty frame without a gap, none.

**Cutter.** Five invariants, each for another degree of concurrency. `SourceInv`
(a clip file is torn or was read by an accepted invocation), `Checked` (what an
invocation read is the version `verify_source` accepted, unless it was overtaken)
and `IdsInv` (an invocation about to store holds unique ids without its own)
survive any interleaving and any kill; the last holds although two invocations can
lose each other's entries, since each rewrites the manifest from what it read. `AloneInv`
is conditional on the history variable `alone`: one writer at a time, the clip
hashed as written, the manifest equal to what was stored so far. `FileInv`, with it,
says that the file still holds what was hashed unless a cut under the same id has
opened it, which the manifest then refuses because the first entry is there.

**Matrix.** What carries everything is a round trip. `CellsRoundTrip`: a row
whose evidence and notes were escaped parses as what it was, whatever pipes,
backslashes and dashes they hold. `ReadsBack` and `RenderReads` lift this to
the file: `Parse` finds the rows that `sync` computed, with the later copy of an
accepted exception equal to the first. `RenderTwice` then gives idempotence.
`EditReads` says what a person's edit of one line does to what is found: that
row, and only when the id has a single line, is the edited one. `MatrixInv` puts
the pieces of a run in progress next to those at rest: what `job` holds was
rendered from a catalogue that is the current one unless touched (`ReadInv`,
`RenderedInv`, `SettledInv`), and both the file and what is about to replace it
list the ids owed (`OwedInv`) and keep what people entered (`HandInv`). Without the
second half a write could undo what the first half says.

**Hasher.** `ReportIsOfOneFile` needs `SeenIsOnDisk`: whatever is known so far is
of the file on disk while nobody replaced it. `LosesAtMostOneSample` is about
floats. The quotient frames / rate is rounded to a significand of `Precision`
bits, the product with the canonical rate is rounded again, and the result
truncated. `CanonicalIsNear` bounds both errors by half a unit in the last place
and shows that, with the product below `2^(Precision - 1)`, the sum stays below one
sample and never exceeds an integer it has not reached.

**Induction.** The library states induction with an operator for a parameter,
which the backends cannot instantiate. `InductionLemmas` therefore proves it for
sets (`Least`, `NatStep`: a set of naturals that holds 0 and every successor is
`Nat`; well-foundedness gives the least counterexample) and recursion likewise
(`RecursionExists`), from which what a recursive function computes can be shown
after all: `Walk`, `Two`, `Power`, packed numbers, the digits of an ordinal, the
escaping of cells, the last row with an id.

### Model-checked only

* `Converges`: liveness under fairness is out of the prover's reach.
* `NoAliasOnDisplay` without the hypothesis; it is false then.

## 5. What the checks found

Each is a run of its own that ends in a counterexample; `PROJECT.json` quotes
the sentence it contradicts.

1. `late_failure`. `translation.failed` compares no translation revision. A late
   failure of attempt 1 erases the text of attempt 2 and takes the revision back.
2. `chain_merge`. A merge into an id that was merged away displays the alias.
3. `unlogged_cut`. The cutter's audit line is its last step, so a refused
   evaluation cut has read locked samples and logged nothing.
4. `hand_edits`. An accepted exception is listed in its domain and again at the
   end of the matrix; the second copy wins, so an edit of the first, even one
   that ends the exception, is silently undone.
5. `canonical_length`. The length in canonical samples is computed through
   seconds: a 16 kHz file of 1001 frames is reported as 1000.

Seen while modelling, and kept in the models without a run of their own:

* A final rewrites the language of a segment and leaves its language revision;
  `LanguageMovesWithRevision` states what does hold.
* `translation.final` completes on segments that are not accepted; only
  `translation.started` tests the status (`PendingNeedsTranscript`).
* Seals are not in the log: a rebuild applies what the sealed live projection
  refused. `SealOnlyFreezes` bounds the difference, `Converges` excepts sealers.
* A merge writes its speaker revision without comparing it
  (`OnlyMergesStepBack`), as `docs/protocol.md:350` allows.
* The cutter opens the clip file before it asks whether the name is in use: the
  second cut is refused, and the first one's entry is left with the hash of audio
  that is gone (`tools/cut_clip.py:256`). `EntryDescribesItsClip` says that no
  other way leads there while invocations do not overlap.
* The recording is verified, then opened again to be cut, and the entry copies its
  hash from the manifest (`tools/cut_clip.py:294`): a recording replaced between
  the two is cut under the hash of the old one, against line 10. Again
  `EntryDescribesItsClip` says that no other way leads there.
* Only the rows of the domain tables are validated
  (`tools/traceability_sync.py:352`). An orphaned row may be marked tested
  without evidence and the gate exits 0, although
  `tests/conformance/test_traceability_sync.py:186` asserts the contrary of every
  row. `GateIsHonest` leaves orphaned rows out.
* `encode_header` accepts any major that fits its field (`protocol/frame.py:117`)
  and the decoder refuses all but its own, although line 113 says that encoding
  validates as strictly as decoding. `WireIsReadable` says that within this major
  what clients send is read, and that under another the refusal is
  `UNSUPPORTED_MAJOR`.
* Reserved flag bits, which `docs/protocol.md:151` wants zero, are tested by
  neither side.
* `record_locked_access` creates the log with `write_text`, so of two invocations
  that both find none the second may truncate the first one's line.
* A pipe that a person does not escape makes the matrix tool skip the row; if its
  id was withdrawn the row is deleted without a word.
* `read_wav_properties` promises an explanation for what it cannot read, but a
  file that ends inside its header raises `EOFError`.

## 6. Not modelled

The services and the client, which are empty directories; scripts. Of the event
schema, the length limits, the session and audio events that no code acts on,
and the fields without effect on the projection. Of the protocol package, what
tests one string or formats one number: `parse_version`, session id patterns,
conversions to milliseconds. Of the cutter, malformed YAML, clips outside
`data/clips` and a recording replaced by one of another format. Of the matrix
tool, runs that overlap, the columns that are carried like the evidence, pipes in
cells other than evidence and notes, a person's editor that
saves over a newer file, and a write torn in its middle. Of the hasher, a file
rewritten in place while it is read, channels and sample width.

## 7. Plan

All components with state are modelled, and every safety, action and refinement
property is proved. `Converges` is what remains: a proof needs the liveness rules that
the provers lack. When the services under `server/` and the client get code, the
external parts of `Stream` and `Replay` are the places where it has to be put in.
