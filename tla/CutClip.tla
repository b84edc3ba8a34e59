------------------------------ MODULE CutClip ------------------------------
(***************************************************************************)
(* tools/cut_clip.py: invocations of main() that cut clips from one source *)
(* recording.  Nothing locks the three things they share: the clip files   *)
(* under data/clips, the clip manifest clips.yaml, and the audit log of    *)
(* the locked evaluation set.  An invocation may be killed at any step,    *)
(* and the recording may be replaced on disk at any time.                  *)
(*                                                                         *)
(* A hash identifies what was hashed, so the model keeps the contents      *)
(* themselves: of the recording a version, of a clip the version and the   *)
(* sample range.  Of labels only their presence counts, reviewer and note  *)
(* decide nothing.  A file opened for writing is Torn until it is written. *)
(* A recording is replaced by one of the same format and length.           *)
(***************************************************************************)
EXTENDS Integers, FiniteSets

CONSTANTS Run,           \* invocations of main()
          Requests,      \* the command lines they may be given
          Frames,        \* length of the recording, in samples
          SampleRate,    \* samples in a second
          Millis,        \* milliseconds in a second
          LockedRanges,  \* the ranges of the split named "locked"
          Torn,          \* a file opened for writing and not yet written
          DefaultName,   \* no --name on the command line
          AtOnce,        \* bound: invocations under way at once
          MaxKills,      \* bound: invocations killed
          MaxReplaced    \* bound: times the recording is replaced

ASSUME CutClipAssumption ==
    /\ Frames \in Nat
    /\ SampleRate \in Nat /\ Millis \in Nat \ {0}
    /\ \A l \in LockedRanges : l.start \in Nat /\ l.end \in Nat
    /\ AtOnce \in Nat \ {0}
    /\ MaxKills \in Nat
    /\ MaxReplaced \in Nat

\* What argparse lets through: bounds are integers, options are given or not.
ASSUME RequestsAssumption ==
    \A r \in Requests :
        /\ \A bound \in {r.start, r.end} :
              bound.samples \subseteq Int /\ bound.ms \subseteq Int
        /\ {r.labelled, r.evaluation_run, r.purpose, r.dry_run} \subseteq BOOLEAN

\* The samples of a range of one version of the recording.
Contents == [version : 0..MaxReplaced, start : Nat, end : Nat]

ASSUME TornAssumption == Torn \notin Contents

VARIABLES pc,        \* run -> the next step of main
          request,   \* run -> its command line, once invoked
          payload,   \* run -> the samples it read from the recording
          hashed,    \* run -> what build_entry hashed
          document,  \* run -> the entries append_clip_entry read
          files,     \* clip id -> contents, for the clip files that exist
          clips,     \* {the entries of clips.yaml}, or {} while it is torn
          accesses,  \* {the runs with a line in the audit log}, or {}: no log
          source,    \* version of the recording on disk
          kills,     \* invocations killed so far
          alone,     \* no two invocations overlapped and none was killed
          overtaken  \* runs between whose check of the recording and reading
                     \* of it the recording was replaced

vars == <<pc, request, payload, hashed, document, files, clips, accesses,
          source, kills, alone, overtaken>>

Ended == {"done", "reported", "refused", "killed"}
Labels == Ended \cup {"idle", "verify", "cut", "write", "hash", "append",
                      "truncate", "store", "record", "header", "line"}
Active == {p \in Run : pc[p] \notin Ended \cup {"idle"}}

-----------------------------------------------------------------------------
(* What main() decides from the command line alone.                        *)

\* A bound is given in samples or in milliseconds, as the members of two sets.
Given(bound) == Cardinality(bound.samples) + Cardinality(bound.ms) = 1

Resolved(bound) ==
    IF bound.samples # {} THEN CHOOSE n \in bound.samples : TRUE
    ELSE ((CHOOSE n \in bound.ms : TRUE) * SampleRate) \div Millis

Bounds(r) == [start |-> Resolved(r.start), end |-> Resolved(r.end)]

\* The default clip id names the range: <source>-<start>-<end>.
ClipId(r) ==
    IF r.name = DefaultName THEN <<Bounds(r).start, Bounds(r).end>> ELSE r.name

\* Faulty variant: a start before the session start passes.
EndOK(r) ==
    /\ Given(r.start) /\ Given(r.end)
    /\ Bounds(r).start < Bounds(r).end /\ Bounds(r).end <= Frames

\* resolve_bounds raises on anything else.
BoundsOK(r) ==
    /\ Given(r.start) /\ Given(r.end)
    /\ 0 <= Bounds(r).start
    /\ Bounds(r).start < Bounds(r).end /\ Bounds(r).end <= Frames

\* Faulty variant: a range that only ends inside the locked one is let through.
StartsInside(l, range) == l.start <= range.start /\ range.start < l.end

\* SplitRange.intersects, for half-open ranges.
Intersects(l, range) == l.start < range.end /\ range.start < l.end

Locked(r) == \E l \in LockedRanges : Intersects(l, Bounds(r))

\* check_locked_set raises unless the cut is an evaluation with a purpose.
LockedSetAllows(r) == Locked(r) => r.evaluation_run /\ r.purpose

Acceptable(r) == r.labelled /\ BoundsOK(r) /\ LockedSetAllows(r)

\* The version whose hash the manifest of recordings holds.
ManifestVersion == 0

\* The hash of the clip is taken from its file, that of the source recording is
\* copied from the manifest.
Entry(p) == [ clip_id |-> ClipId(request[p]), source |-> ManifestVersion,
              start |-> Bounds(request[p]).start, end |-> Bounds(request[p]).end,
              clip |-> hashed[p] ]

\* The samples of its range, as an invocation reads them from the recording.
Samples(p) == [ version |-> source, start |-> Bounds(request[p]).start,
                end |-> Bounds(request[p]).end ]

\* What a reader of clips.yaml finds: nothing while it is torn.
Entries == UNION clips

\* The lines of the audit log, of which there is none before the first access.
Logged == UNION accesses

IdsIn(entries) == {entry.clip_id : entry \in entries}

-----------------------------------------------------------------------------
(* The steps of main.                                                      *)

Init ==
    /\ pc = [p \in Run |-> "idle"]
    /\ request = [p \in {} |-> p]
    /\ payload = [p \in {} |-> p]
    /\ hashed = [p \in {} |-> p]
    /\ document = [p \in {} |-> p]
    /\ files = [i \in {} |-> i]
    /\ clips = {{}}
    /\ accesses = {}
    /\ source = ManifestVersion
    /\ kills = 0
    /\ alone = TRUE
    /\ overtaken = {}

Goto(p, label) == pc' = [pc EXCEPT ![p] = label]
Bind(f, key, value) ==
    [k \in DOMAIN f \cup {key} |-> IF k = key THEN value ELSE f[k]]

\* Arguments, manifest, bounds and split: nothing is written.
Check(p, r) ==
    /\ pc[p] = "idle"
    /\ Cardinality(Active) < AtOnce
    /\ request' = Bind(request, p, r)
    /\ Goto(p, IF Acceptable(r) THEN "verify" ELSE "refused")
    /\ alone' = (alone /\ Active = {})
    /\ UNCHANGED <<payload, hashed, document, files, clips, accesses, source,
                   kills, overtaken>>

\* Faulty variant: the hash of the recording is not compared.
VerifyNothing(p) ==
    /\ pc[p] = "verify"
    /\ Goto(p, IF request[p].dry_run THEN "reported" ELSE "cut")
    /\ UNCHANGED <<request, payload, hashed, document, files, clips, accesses,
                   source, kills, alone, overtaken>>

\* verify_source, and the end of a dry run.
Verify(p) ==
    /\ pc[p] = "verify"
    /\ Goto(p, IF source # ManifestVersion THEN "refused"
               ELSE IF request[p].dry_run THEN "reported" ELSE "cut")
    /\ UNCHANGED <<request, payload, hashed, document, files, clips, accesses,
                   source, kills, alone, overtaken>>

\* cut_samples reads the range, then opens the destination, which it never
\* asks whether it exists.
OpenClip(p) ==
    /\ pc[p] = "cut"
    /\ payload' = Bind(payload, p, Samples(p))
    /\ files' = Bind(files, ClipId(request[p]), Torn)
    /\ Goto(p, "write")
    /\ UNCHANGED <<request, hashed, document, clips, accesses, source, kills,
                   alone, overtaken>>

WriteClip(p) ==
    /\ pc[p] = "write"
    /\ files' = Bind(files, ClipId(request[p]), payload[p])
    /\ Goto(p, "hash")
    /\ UNCHANGED <<request, payload, hashed, document, clips, accesses, source,
                   kills, alone, overtaken>>

\* build_entry reads the clip back from disk to hash it.
HashClip(p) ==
    /\ pc[p] = "hash"
    /\ hashed' = Bind(hashed, p, files[ClipId(request[p])])
    /\ Goto(p, "append")
    /\ UNCHANGED <<request, payload, document, files, clips, accesses, source,
                   kills, alone, overtaken>>

\* Faulty variant: the manifest is appended to without looking for the id.
AppendBlindly(p) ==
    /\ pc[p] = "append"
    /\ document' = Bind(document, p, Entries)
    /\ Goto(p, "truncate")
    /\ UNCHANGED <<request, payload, hashed, files, clips, accesses, source,
                   kills, alone, overtaken>>

\* Faulty variant: the document starts empty.
StartAfresh(p) ==
    /\ pc[p] = "append"
    /\ document' = Bind(document, p, {})
    /\ Goto(p, IF ClipId(request[p]) \in IdsIn(Entries) THEN "refused"
                                                        ELSE "truncate")
    /\ UNCHANGED <<request, payload, hashed, files, clips, accesses, source,
                   kills, alone, overtaken>>

\* append_clip_entry reads the manifest and refuses an id that is there.
ReadManifest(p) ==
    /\ pc[p] = "append"
    /\ document' = Bind(document, p, Entries)
    /\ Goto(p, IF ClipId(request[p]) \in IdsIn(Entries) THEN "refused"
                                                        ELSE "truncate")
    /\ UNCHANGED <<request, payload, hashed, files, clips, accesses, source,
                   kills, alone, overtaken>>

\* write_text opens the manifest for writing and then rewrites all of it.
TruncateManifest(p) ==
    /\ pc[p] = "truncate"
    /\ clips' = {}
    /\ Goto(p, "store")
    /\ UNCHANGED <<request, payload, hashed, document, files, accesses, source,
                   kills, alone, overtaken>>

\* Faulty variant: the audit line is left to a later run.
StoreAndEnd(p) ==
    /\ pc[p] = "store"
    /\ clips' = {document[p] \cup {Entry(p)}}
    /\ Goto(p, "done")
    /\ UNCHANGED <<request, payload, hashed, document, files, accesses, source,
                   kills, alone, overtaken>>

StoreManifest(p) ==
    /\ pc[p] = "store"
    /\ clips' = {document[p] \cup {Entry(p)}}
    /\ Goto(p, IF Locked(request[p]) THEN "record" ELSE "done")
    /\ UNCHANGED <<request, payload, hashed, document, files, accesses, source,
                   kills, alone, overtaken>>

\* record_locked_access looks for the log and, if there is none, opens a new one
\* with its header, over whatever another invocation has put there meanwhile.
FindLog(p) ==
    /\ pc[p] = "record"
    /\ Goto(p, IF accesses = {} THEN "header" ELSE "line")
    /\ UNCHANGED <<request, payload, hashed, document, files, clips, accesses,
                   source, kills, alone, overtaken>>

BeginLog(p) ==
    /\ pc[p] = "header"
    /\ accesses' = {{}}
    /\ Goto(p, "line")
    /\ UNCHANGED <<request, payload, hashed, document, files, clips, source,
                   kills, alone, overtaken>>

RecordAccess(p) ==
    /\ pc[p] = "line"
    /\ accesses' = {Logged \cup {p}}
    /\ Goto(p, "done")
    /\ UNCHANGED <<request, payload, hashed, document, files, clips, source,
                   kills, alone, overtaken>>

Kill(p) ==
    /\ p \in Active
    /\ kills < MaxKills
    /\ kills' = kills + 1
    /\ alone' = FALSE
    /\ Goto(p, "killed")
    /\ UNCHANGED <<request, payload, hashed, document, files, clips, accesses,
                   source, overtaken>>

ReplaceSource ==
    /\ source < MaxReplaced
    /\ source' = source + 1
    /\ overtaken' = overtaken \cup {p \in Run : pc[p] = "cut"}
    /\ UNCHANGED <<pc, request, payload, hashed, document, files, clips,
                   accesses, kills, alone>>

Next ==
    \/ \E p \in Run :
          \/ \E r \in Requests : Check(p, r)
          \/ Verify(p)
          \/ OpenClip(p)
          \/ WriteClip(p)
          \/ HashClip(p)
          \/ ReadManifest(p)
          \/ TruncateManifest(p)
          \/ StoreManifest(p)
          \/ FindLog(p)
          \/ BeginLog(p)
          \/ RecordAccess(p)
          \/ Kill(p)
    \/ ReplaceSource

Spec == Init /\ [][Next]_vars

-----------------------------------------------------------------------------
(* Properties.                                                             *)

CutClipTypeOK ==
    /\ pc \in [Run -> Labels]
    /\ \A p \in Run : pc[p] # "idle" <=> p \in DOMAIN request
    /\ \A p \in DOMAIN request : request[p] \in Requests
    /\ \A p \in DOMAIN payload : payload[p] \in Contents
    /\ \A i \in DOMAIN files : files[i] = Torn \/ files[i] \in Contents
    /\ \A p \in DOMAIN hashed : hashed[p] = Torn \/ hashed[p] \in Contents
    /\ Logged \subseteq Run
    /\ source \in 0..MaxReplaced
    /\ kills \in 0..MaxKills
    /\ alone \in BOOLEAN
    /\ overtaken \subseteq Run

\* "Clip identifiers are not reused": however invocations race and die, the
\* manifest never holds two entries with one id.
ClipIdsUnique ==
    \A a, b \in Entries : a.clip_id = b.clip_id => a = b

HoldsLockedSamples(range) ==
    \E l \in LockedRanges :
        (l.start .. l.end - 1) \cap (range.start .. range.end - 1) # {}

\* ADR-0012 D31: samples of the locked set leave the recording only in an
\* evaluation run with a purpose, and the samples in every clip file, also one
\* that no entry describes, were read by such a run.
LockedNeedsEvaluation ==
    \A i \in DOMAIN files :
        files[i] # Torn /\ HoldsLockedSamples(files[i]) =>
            \E p \in DOMAIN payload :
                /\ payload[p] = files[i]
                /\ request[p].evaluation_run
                /\ request[p].purpose

\* As long as invocations run one at a time and none is killed, an entry with
\* locked samples is in the audit log once the invocation that wrote it is over.
LockedEntriesAreLogged ==
    alone /\ Active = {} =>
        \A entry \in Entries :
            HoldsLockedSamples(entry) => \E p \in Logged : Entry(p) = entry

\* An invocation that has opened the clip file of this id, and whose entry under
\* the id append_clip_entry has not accepted, or not yet.
Spoils(p, id) ==
    /\ p \in DOMAIN payload
    /\ pc[p] \in {"write", "hash", "append", "refused"}
    /\ ClipId(request[p]) = id

\* As long as that is so, an entry describes a complete clip of that very range,
\* of the recording whose hash it cites, and the clip is in the file it names.
\* The citation fails only where the recording was replaced after verify_source
\* had read it, and the file only where another invocation has cut a clip under
\* the same id, for which it is refused or about to be.
EntryDescribesItsClip ==
    alone => \A entry \in Entries :
                /\ entry.clip # Torn
                /\ entry.clip.start = entry.start
                /\ entry.clip.end = entry.end
                /\ \/ entry.clip.version = entry.source
                   \/ \E p \in overtaken : Entry(p) = entry
                /\ \/ files[entry.clip_id] = entry.clip
                   \/ \E p \in Run : Spoils(p, entry.clip_id)

Stored == {p \in Run : pc[p] \in {"record", "header", "line", "done"}}

\* append_clip_entry appends: as long as that is so, an invocation that has
\* stored its entry keeps it, whole, whatever is cut or refused afterwards.
\* While the manifest is being rewritten the rewriter holds it.
NoEntryIsLost ==
    alone => \A p \in Stored :
            IF clips = {}
            THEN \E q \in Run : pc[q] = "store" /\ Entry(p) \in document[q]
            ELSE Entry(p) \in Entries

\* "The locked evaluation set refuses to be cut without an explicit flag, and
\* every such access is appended to docs/evaluation-log.md": an invocation
\* that is over and has read locked samples has its line in the log.
EveryLockedReadIsLogged ==
    \A p \in Run :
        pc[p] \in {"done", "refused"} /\ p \in DOMAIN payload
           /\ HoldsLockedSamples(Bounds(request[p])) => p \in Logged

=============================================================================
