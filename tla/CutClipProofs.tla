---------------------------- MODULE CutClipProofs ----------------------------
(***************************************************************************)
(* Theorems about any number of invocations of tools/cut_clip.py at once,  *)
(* for any command lines, recordings and locked ranges, and any number of  *)
(* kills and of replacements of the recording.                             *)
(***************************************************************************)
EXTENDS CutClip, FiniteSetTheorems, TLAPS

-----------------------------------------------------------------------------
(* Bounds.                                                                 *)

\* A bound that is given once is an integer.
LEMMA ResolvedType ==
    ASSUME NEW bound, bound.samples \subseteq Int, bound.ms \subseteq Int,
           Given(bound)
    PROVE  Resolved(bound) \in Int
<1>1. CASE bound.samples # {}
  BY <1>1 DEF Resolved
<1>2. CASE bound.samples = {}
  <2>1. Cardinality({}) = 0
    BY FS_EmptySet
  <2>2. bound.ms # {}
    BY <1>2, <2>1 DEF Given
  <2> DEFINE n == CHOOSE n \in bound.ms : TRUE
  <2>3. n \in Int
    BY <2>2
  <2>4. Resolved(bound) = (n * SampleRate) \div Millis
    BY <1>2 DEF Resolved
  <2> HIDE DEF n
  <2>5. n * SampleRate \in Int /\ Millis \in Nat \ {0}
    BY <2>3, CutClipAssumption
  <2> QED BY <2>4, <2>5
<1> QED
  BY <1>1, <1>2

\* The range of an accepted command line lies in the recording.
LEMMA AcceptableRange ==
    ASSUME NEW r \in Requests, Acceptable(r)
    PROVE  /\ Bounds(r).start \in Nat
           /\ Bounds(r).end \in Nat
<1>1. Given(r.start) /\ Given(r.end)
  BY DEF Acceptable, BoundsOK
<1>2. Resolved(r.start) \in Int /\ Resolved(r.end) \in Int
  BY <1>1, ResolvedType, RequestsAssumption
<1>3. Bounds(r) = [start |-> Resolved(r.start), end |-> Resolved(r.end)]
  BY DEF Bounds
<1>4. 0 <= Bounds(r).start /\ Bounds(r).start < Bounds(r).end
  BY DEF Acceptable, BoundsOK
<1> QED
  BY <1>2, <1>3, <1>4

\* SplitRange.intersects misses no sample that two half-open ranges share, so
\* an accepted range with locked samples was cut in an evaluation run.
LEMMA LockedIsSeen ==
    ASSUME NEW r \in Requests, Acceptable(r), NEW range,
           range.start = Bounds(r).start, range.end = Bounds(r).end,
           HoldsLockedSamples(range)
    PROVE  Locked(r) /\ r.evaluation_run /\ r.purpose
<1>1. range.start \in Nat /\ range.end \in Nat
  BY AcceptableRange
<1>2. PICK l \in LockedRanges :
         (l.start .. l.end - 1) \cap (range.start .. range.end - 1) # {}
  BY DEF HoldsLockedSamples
<1>3. l.start \in Nat /\ l.end \in Nat
  BY CutClipAssumption
<1>4. Intersects(l, Bounds(r))
  BY <1>1, <1>2, <1>3 DEF Intersects
<1>5. Locked(r)
  BY <1>4 DEF Locked
<1> QED
  BY <1>5 DEF Acceptable, LockedSetAllows

-----------------------------------------------------------------------------
(* Where samples come from.                                                *)

BeforeReading == {"idle", "verify", "cut"}
AfterReading == {"write", "hash", "append", "truncate", "store", "record",
                 "header", "line", "done"}

\* An invocation reads the recording once, after it was accepted, and what is
\* in a clip file was read by some invocation.
Sourced ==
    /\ \A p \in Run :
          /\ pc[p] \in BeforeReading => p \notin DOMAIN payload
          /\ pc[p] \in AfterReading =>
                p \in DOMAIN payload /\ ClipId(request[p]) \in DOMAIN files
          /\ pc[p] \in {"verify", "cut"} => Acceptable(request[p])
    /\ \A p \in DOMAIN payload :
          /\ p \in Run /\ p \in DOMAIN request
          /\ Acceptable(request[p])
          /\ payload[p].start = Bounds(request[p]).start
          /\ payload[p].end = Bounds(request[p]).end
    /\ \A i \in DOMAIN files :
          files[i] = Torn \/ \E p \in DOMAIN payload : payload[p] = files[i]

SourceInv == CutClipTypeOK /\ Sourced

LEMMA SourceInit == Init => SourceInv
  BY CutClipAssumption DEF Init, SourceInv, CutClipTypeOK, Sourced, Ended, Labels,
     Logged, ManifestVersion, BeforeReading, AfterReading

LEMMA SourceSteps == SourceInv /\ [Next]_vars => SourceInv'
<1> SUFFICES ASSUME SourceInv, [Next]_vars PROVE SourceInv'
  OBVIOUS
<1> USE DEF SourceInv, CutClipTypeOK, Sourced, Ended, BeforeReading, AfterReading,
            Goto, Bind, Labels, Logged
<1>1. ASSUME NEW p \in Run, NEW r \in Requests, Check(p, r) PROVE SourceInv'
  BY <1>1 DEF Check
<1>2. ASSUME NEW p \in Run, Verify(p) PROVE SourceInv'
  BY <1>2 DEF Verify
<1>3. ASSUME NEW p \in Run, OpenClip(p) PROVE SourceInv'
  <2>1. request[p] \in Requests /\ Acceptable(request[p])
    BY <1>3 DEF OpenClip
  <2>2. Samples(p) \in Contents
    BY <2>1, AcceptableRange DEF Samples, Contents
  <2>3. /\ Samples(p).start = Bounds(request[p]).start
        /\ Samples(p).end = Bounds(request[p]).end
    BY DEF Samples
  <2> QED BY <1>3, <2>1, <2>2, <2>3 DEF OpenClip
<1>4. ASSUME NEW p \in Run, WriteClip(p) PROVE SourceInv'
  BY <1>4 DEF WriteClip
<1>5. ASSUME NEW p \in Run, HashClip(p) PROVE SourceInv'
  BY <1>5 DEF HashClip
<1>6. ASSUME NEW p \in Run, ReadManifest(p) PROVE SourceInv'
  BY <1>6 DEF ReadManifest
<1>7. ASSUME NEW p \in Run, TruncateManifest(p) PROVE SourceInv'
  BY <1>7 DEF TruncateManifest
<1>8. ASSUME NEW p \in Run, StoreManifest(p) PROVE SourceInv'
  BY <1>8 DEF StoreManifest
<1>9. ASSUME NEW p \in Run, FindLog(p) \/ BeginLog(p) \/ RecordAccess(p)
      PROVE  SourceInv'
  BY <1>9 DEF FindLog, BeginLog, RecordAccess
<1>10. ASSUME NEW p \in Run, Kill(p) PROVE SourceInv'
  <2>1. pc[p] # "idle" /\ pc' = [pc EXCEPT ![p] = "killed"]
    BY <1>10 DEF Kill, Active
  <2>2. kills' \in 0..MaxKills
    <3>1. kills \in 0..MaxKills /\ kills < MaxKills /\ kills' = kills + 1
      BY <1>10 DEF Kill
    <3>2. MaxKills \in Nat
      BY CutClipAssumption
    <3> QED BY <3>1, <3>2
  <2>3. UNCHANGED <<request, payload, hashed, document, files, clips, accesses,
                    source, overtaken>>
    BY <1>10 DEF Kill
  <2>4. alone' = FALSE
    BY <1>10 DEF Kill
  <2>5. CutClipTypeOK'
    <3>1. pc' \in [Run -> Labels]
      BY <2>1
    <3>2. \A q \in Run : pc'[q] # "idle" <=> q \in DOMAIN request'
      BY <2>1, <2>3
    <3> QED BY <2>2, <2>3, <2>4, <3>1, <3>2
  <2>6. Sourced'
    BY <2>1, <2>3
  <2> QED BY <2>5, <2>6
<1>11. CASE ReplaceSource
  BY <1>11, CutClipAssumption DEF ReplaceSource
<1>12. CASE UNCHANGED vars
  BY <1>12 DEF vars
<1> QED
  BY <1>1, <1>2, <1>3, <1>4, <1>5, <1>6, <1>7, <1>8, <1>9, <1>10, <1>11, <1>12
     DEF Next

THEOREM SourcesAreKept == Spec => []SourceInv
BY SourceInit, SourceSteps, PTL DEF Spec

\* An invocation about to read has checked the recording, and what it reads is
\* what it checked, unless the recording was replaced in between.
Checked ==
    /\ \A p \in Run : pc[p] = "cut" /\ p \notin overtaken => source = ManifestVersion
    /\ \A p \in DOMAIN payload :
          p \notin overtaken => payload[p].version = ManifestVersion

LEMMA CheckedInit == Init => Checked
BY DEF Init, Checked

LEMMA CheckedSteps == SourceInv /\ Checked /\ [Next]_vars => Checked'
<1> SUFFICES ASSUME SourceInv, Checked, [Next]_vars PROVE Checked'
  OBVIOUS
<1>t. pc \in [Run -> Labels]
  BY DEF SourceInv, CutClipTypeOK
<1>1. ASSUME NEW p \in Run, NEW r \in Requests, Check(p, r) PROVE Checked'
  BY <1>1, <1>t DEF Check, Goto, Checked, ManifestVersion
<1>2. ASSUME NEW p \in Run, Verify(p) PROVE Checked'
  BY <1>2, <1>t DEF Verify, Goto, Checked, ManifestVersion
<1>3. ASSUME NEW p \in Run, OpenClip(p) PROVE Checked'
  <2>1. Samples(p).version = source
    BY DEF Samples
  <2>2. p \notin DOMAIN payload
    BY <1>3 DEF OpenClip, SourceInv, Sourced, BeforeReading
  <2> QED BY <1>3, <1>t, <2>1, <2>2 DEF OpenClip, Goto, Bind, Checked, ManifestVersion
<1>4. ASSUME NEW p \in Run,
             \/ WriteClip(p) \/ HashClip(p) \/ ReadManifest(p) \/ TruncateManifest(p)
             \/ StoreManifest(p) \/ FindLog(p) \/ BeginLog(p) \/ RecordAccess(p)
             \/ Kill(p)
      PROVE  Checked'
  <2>1. /\ payload' = payload /\ source' = source /\ overtaken' = overtaken
        /\ \E l \in Labels \ {"cut"} : pc' = [pc EXCEPT ![p] = l]
    BY <1>4 DEF WriteClip, HashClip, ReadManifest, TruncateManifest, StoreManifest,
                FindLog, BeginLog, RecordAccess, Kill, Goto, Labels, Ended
  <2> QED BY <2>1, <1>t DEF Checked, ManifestVersion
<1>5. CASE ReplaceSource
  BY <1>5 DEF ReplaceSource, Checked, ManifestVersion
<1>6. CASE UNCHANGED vars
  BY <1>6 DEF vars, Checked, ManifestVersion
<1> QED
  BY <1>1, <1>2, <1>3, <1>4, <1>5, <1>6 DEF Next

\* Whatever invocations overlap and die, every clip file is torn or holds a
\* range of samples of the recording.
THEOREM CutClipTypeCorrect == Spec => []CutClipTypeOK
<1>1. SourceInv => CutClipTypeOK
  BY DEF SourceInv
<1> QED
  BY <1>1, SourcesAreKept, PTL

\* Samples of the locked set leave the recording only in an evaluation run with
\* a purpose, for every split, every recording and every interleaving.
THEOREM LockedIsForEvaluation == Spec => []LockedNeedsEvaluation
<1>1. SourceInv => LockedNeedsEvaluation
  <2> SUFFICES ASSUME SourceInv, NEW i \in DOMAIN files, files[i] # Torn,
                      HoldsLockedSamples(files[i])
               PROVE  \E p \in DOMAIN payload :
                         /\ payload[p] = files[i]
                         /\ request[p].evaluation_run
                         /\ request[p].purpose
    BY DEF LockedNeedsEvaluation
  <2>1. PICK p \in DOMAIN payload : payload[p] = files[i]
    BY DEF SourceInv, Sourced
  <2>2. /\ request[p] \in Requests /\ Acceptable(request[p])
        /\ files[i].start = Bounds(request[p]).start
        /\ files[i].end = Bounds(request[p]).end
    BY <2>1 DEF SourceInv, Sourced, CutClipTypeOK
  <2>3. request[p].evaluation_run /\ request[p].purpose
    BY <2>2, LockedIsSeen
  <2> QED BY <2>1, <2>3
<1> QED
  BY <1>1, SourcesAreKept, PTL

-----------------------------------------------------------------------------
(* Clip ids.                                                               *)

UniqueIds(entries) == \A a, b \in entries : a.clip_id = b.clip_id => a = b

\* Entries with an id of their own, joined by one with a fresh id.
LEMMA FreshIdJoins ==
    ASSUME NEW entries, UniqueIds(entries), NEW e, e.clip_id \notin IdsIn(entries)
    PROVE  UniqueIds(entries \cup {e})
BY DEF UniqueIds, IdsIn

\* What is about to be written over the manifest has unique ids as well.
IdsInv ==
    /\ UniqueIds(Entries)
    /\ \A p \in Run : pc[p] \in {"truncate", "store"} =>
          /\ p \in DOMAIN document
          /\ UniqueIds(document[p])
          /\ ClipId(request[p]) \notin IdsIn(document[p])

LEMMA IdsInit == Init => IdsInv
BY DEF Init, IdsInv, UniqueIds, Entries

LEMMA IdsSteps == SourceInv /\ IdsInv /\ [Next]_vars => IdsInv'
<1> SUFFICES ASSUME SourceInv, IdsInv, [Next]_vars PROVE IdsInv'
  OBVIOUS
<1>t. pc \in [Run -> Labels]
  BY DEF SourceInv, CutClipTypeOK
<1> DEFINE
    Held(p) == /\ p \in DOMAIN document
               /\ UniqueIds(document[p])
               /\ ClipId(request[p]) \notin IdsIn(document[p])
<1>a. IdsInv' <=> /\ UniqueIds(Entries')
                  /\ \A p \in Run : pc'[p] \in {"truncate", "store"} => Held(p)'
  BY DEF IdsInv, UniqueIds, Entries, IdsIn
<1>b. /\ UniqueIds(Entries)
      /\ \A p \in Run : pc[p] \in {"truncate", "store"} => Held(p)
  BY DEF IdsInv
<1>c. ASSUME clips' = clips PROVE Entries' = Entries
  BY <1>c DEF Entries
<1>d. ASSUME NEW p \in Run, Held(p), request'[p] = request[p],
             document'[p] = document[p], p \in DOMAIN document'
      PROVE  Held(p)'
  BY <1>d DEF UniqueIds, IdsIn, ClipId, Bounds
<1>1. ASSUME NEW p \in Run, NEW r \in Requests, Check(p, r) PROVE IdsInv'
  BY <1>1, <1>a, <1>b, <1>c, <1>d, <1>t DEF Check, Goto, Bind, SourceInv, CutClipTypeOK
<1>2. ASSUME NEW p \in Run, \/ Verify(p) \/ OpenClip(p) \/ WriteClip(p)
                            \/ HashClip(p) \/ FindLog(p) \/ BeginLog(p)
                            \/ RecordAccess(p) \/ Kill(p)
      PROVE  IdsInv'
  <2>1. /\ request' = request /\ document' = document /\ clips' = clips
        /\ \E l \in Ended \cup {"cut", "write", "hash", "append", "header", "line"} :
              pc' = [pc EXCEPT ![p] = l]
    BY <1>2 DEF Verify, OpenClip, WriteClip, HashClip,
                FindLog, BeginLog, RecordAccess, Kill, Goto, Ended
  <2> QED BY <2>1, <1>a, <1>b, <1>c, <1>d, <1>t DEF Ended
<1>3. ASSUME NEW p \in Run, ReadManifest(p) PROVE IdsInv'
  <2>1. document'[p] = Entries /\ request' = request /\ p \in DOMAIN document'
    BY <1>3 DEF ReadManifest, Bind
  <2>2. ASSUME pc'[p] \in {"truncate", "store"} PROVE Held(p)'
    <3>1. ClipId(request[p]) \notin IdsIn(Entries)
      BY <1>3, <1>t, <2>2 DEF ReadManifest, Goto
    <3>2. ClipId(request[p])' = ClipId(request[p])
      BY <2>1 DEF ClipId, Bounds, Resolved
    <3>3. IdsIn(document[p])' = IdsIn(Entries)
      BY <2>1 DEF IdsIn
    <3>4. UniqueIds(document[p])'
      BY <2>1, <1>b DEF UniqueIds
    <3> QED BY <2>1, <3>1, <3>2, <3>3, <3>4
  <2>3. ASSUME NEW q \in Run, q # p, pc'[q] \in {"truncate", "store"}
        PROVE  Held(q)'
    <3>1. Held(q)
      BY <2>3, <1>3, <1>b, <1>t DEF ReadManifest, Goto
    <3>2. document'[q] = document[q] /\ q \in DOMAIN document'
      BY <2>3, <1>3, <3>1 DEF ReadManifest, Bind, Held
    <3> QED BY <2>3, <3>1, <3>2, <1>3, <1>d DEF ReadManifest
  <2> QED BY <1>3, <2>2, <2>3, <1>a, <1>b, <1>c DEF ReadManifest
<1>4. ASSUME NEW p \in Run, TruncateManifest(p) PROVE IdsInv'
  <2>1. UniqueIds(Entries')
    BY <1>4 DEF TruncateManifest, UniqueIds, Entries
  <2> QED BY <1>4, <2>1, <1>a, <1>b, <1>d, <1>t DEF TruncateManifest, Goto
<1>5. ASSUME NEW p \in Run, StoreManifest(p) PROVE IdsInv'
  <2>1. Entries' = document[p] \cup {Entry(p)}
    BY <1>5 DEF StoreManifest, Entries
  <2>2. Held(p) /\ Entry(p).clip_id = ClipId(request[p])
    BY <1>5, <1>b DEF StoreManifest, Entry
  <2>3. UniqueIds(Entries')
    BY <2>1, <2>2, FreshIdJoins DEF Held
  <2> QED BY <1>5, <2>3, <1>a, <1>b, <1>d, <1>t DEF StoreManifest, Goto
<1>6. CASE ReplaceSource
  BY <1>6, <1>a, <1>b, <1>c, <1>d DEF ReplaceSource
<1>7. CASE UNCHANGED vars
  BY <1>7, <1>a, <1>b, <1>c, <1>d DEF vars
<1> QED
  BY <1>1, <1>2, <1>3, <1>4, <1>5, <1>6, <1>7 DEF Next

\* The manifest never holds two entries with one id, however many invocations
\* read it before one of them writes it back.
THEOREM IdsAreUnique == Spec => []ClipIdsUnique
<1>1. IdsInv => ClipIdsUnique
  BY DEF IdsInv, UniqueIds, ClipIdsUnique
<1> QED
  BY <1>1, SourcesAreKept, IdsInit, IdsSteps, PTL DEF Spec

-----------------------------------------------------------------------------
(* Invocations that run one at a time.                                     *)

AfterHashing == {"append", "truncate", "store", "record",
                 "header", "line", "done"}

\* The manifest is torn exactly while the one invocation stores it, and is
\* rewritten from what it held.
OneWriter ==
    /\ \A p, q \in Active : p = q
    /\ clips = {} <=> \E q \in Run : pc[q] = "store"
    /\ \A p \in Run :
          /\ pc[p] \in {"truncate", "store"} => p \in DOMAIN document
          /\ pc[p] = "truncate" => document[p] = Entries

\* The clip is hashed as the invocation wrote it.
HashedIsRead ==
    \A p \in Run :
        /\ pc[p] = "hash" => files[ClipId(request[p])] = payload[p]
        /\ pc[p] \in AfterHashing => p \in DOMAIN hashed /\ hashed[p] = payload[p]

\* The manifest, or what is about to replace it, is what was stored so far.
Kept ==
    /\ \A entry \in Entries : \E q \in Stored : entry = Entry(q)
    /\ \A p \in Run : pc[p] = "store" =>
          /\ \A entry \in document[p] : \E q \in Stored : entry = Entry(q)
          /\ \A q \in Stored : Entry(q) \in document[p]
    /\ clips # {} => \A q \in Stored : Entry(q) \in Entries
    /\ \A p \in Run : pc[p] = "done" /\ Locked(request[p]) => p \in Logged
    /\ \A p \in Run : pc[p] = "header" => accesses = {}

AloneInv == alone => OneWriter /\ HashedIsRead /\ Kept

LEMMA AloneInit == Init => AloneInv
BY DEF Init, AloneInv, OneWriter, HashedIsRead, Kept, Active, Stored, Entries, Ended,
       AfterHashing

\* Nothing but the kills and the overlaps ends a time of single invocations,
\* and nothing brings it back.
LEMMA AloneBefore == [Next]_vars /\ alone' => alone
BY DEF Next, vars, Check, Verify, OpenClip, WriteClip, HashClip, ReadManifest,
       TruncateManifest, StoreManifest,
       FindLog, BeginLog, RecordAccess, Kill, ReplaceSource

\* The steps of an invocation under way, other than its end by a kill.
Advance(p) ==
    \/ Verify(p) \/ OpenClip(p) \/ WriteClip(p) \/ HashClip(p) \/ ReadManifest(p)
    \/ TruncateManifest(p) \/ StoreManifest(p) \/ FindLog(p) \/ BeginLog(p)
    \/ RecordAccess(p)

\* Whoever advances alone finds every other invocation over, or not begun, and
\* leaves what it was given and what it hashed as they are.
LEMMA OthersAreOver ==
    ASSUME SourceInv, OneWriter, NEW p \in Run, Advance(p), NEW q \in Run, q # p
    PROVE  /\ pc[q] \in Ended \cup {"idle"}
           /\ pc'[q] = pc[q]
           /\ q \in DOMAIN hashed => q \in DOMAIN hashed' /\ hashed'[q] = hashed[q]
           /\ q \in DOMAIN payload => payload'[q] = payload[q]
<1>1. p \in Active
  BY DEF Advance, Active, Ended, Verify, OpenClip, WriteClip, HashClip, ReadManifest,
         TruncateManifest, StoreManifest, FindLog, BeginLog, RecordAccess
<1>2. q \notin Active
  BY <1>1 DEF OneWriter
<1>3. pc[q] \in Ended \cup {"idle"}
  BY <1>2 DEF Active
<1>4. pc'[q] = pc[q]
  BY DEF Advance, Goto, SourceInv, CutClipTypeOK, Verify, OpenClip, WriteClip, HashClip,
         ReadManifest, TruncateManifest, StoreManifest, FindLog, BeginLog, RecordAccess
<1>5. /\ q \in DOMAIN hashed => q \in DOMAIN hashed' /\ hashed'[q] = hashed[q]
      /\ q \in DOMAIN payload => payload'[q] = payload[q]
  BY DEF Advance, Bind, Verify, OpenClip, WriteClip, HashClip, ReadManifest,
         TruncateManifest, StoreManifest, FindLog, BeginLog, RecordAccess
<1> QED
  BY <1>3, <1>4, <1>5

\* An entry is made of the command line and of the hash.
LEMMA SameEntry ==
    ASSUME NEW q \in Run, request'[q] = request[q], hashed'[q] = hashed[q]
    PROVE  Entry(q)' = Entry(q)
BY DEF Entry, ClipId, Bounds, Resolved

LEMMA OneWriterSteps ==
    ASSUME SourceInv, alone, OneWriter, [Next]_vars, alone'
    PROVE  OneWriter'
<1>t. pc \in [Run -> Labels]
  BY DEF SourceInv, CutClipTypeOK
<1>1. ASSUME NEW p \in Run, NEW r \in Requests, Check(p, r) PROVE OneWriter'
  <2>1. \A q \in Run : pc[q] \in Ended \cup {"idle"}
    BY <1>1 DEF Check, Active
  <2>2. \A q \in Run : q # p => pc'[q] = pc[q]
    BY <1>1, <1>t DEF Check, Goto
  <2>3. pc'[p] \in {"verify", "refused"}
    BY <1>1, <1>t DEF Check, Goto
  <2>4. clips' = clips /\ clips # {}
    BY <1>1, <2>1 DEF Check, OneWriter, Ended
  <2> QED BY <2>1, <2>2, <2>3, <2>4 DEF OneWriter, Active, Ended
<1>2. ASSUME NEW p \in Run, Advance(p) PROVE OneWriter'
  <2>1. \A q \in Run : q # p => pc[q] \in Ended \cup {"idle"} /\ pc'[q] = pc[q]
    BY <1>2, OthersAreOver
  <2>2. \A q, o \in Active' : q = o
    BY <2>1 DEF Active
  <2>3. \A q \in Run : q # p => pc'[q] \notin {"truncate", "store"}
    BY <2>1 DEF Ended
  <2>4. clips' = {} <=> pc'[p] = "store"
    <3>1. CASE TruncateManifest(p)
      BY <3>1, <1>t DEF TruncateManifest, Goto
    <3>2. CASE StoreManifest(p)
      BY <3>2, <1>t DEF StoreManifest, Goto
    <3>3. CASE ~TruncateManifest(p) /\ ~StoreManifest(p)
      <4>1. clips' = clips /\ pc[p] # "store" /\ pc'[p] # "store"
        BY <3>3, <1>2, <1>t DEF Advance, Goto, Verify, OpenClip, WriteClip, HashClip,
                                ReadManifest, FindLog, BeginLog, RecordAccess
      <4> QED BY <4>1, <2>1 DEF OneWriter, Ended
    <3> QED BY <3>1, <3>2, <3>3
  <2>5. ASSUME pc'[p] \in {"truncate", "store"}
        PROVE  p \in DOMAIN document' /\ (pc'[p] = "truncate" => document'[p] = Entries')
    <3>1. ReadManifest(p) \/ TruncateManifest(p)
      BY <1>2, <2>5, <1>t DEF Advance, Goto, Verify, OpenClip, WriteClip, HashClip,
                              StoreManifest, FindLog, BeginLog, RecordAccess
    <3>2. CASE ReadManifest(p)
      BY <3>2 DEF ReadManifest, Bind, Entries
    <3>3. CASE TruncateManifest(p)
      BY <3>3, <1>t DEF TruncateManifest, Goto, OneWriter
    <3> QED BY <3>1, <3>2, <3>3
  <2> QED BY <2>2, <2>3, <2>4, <2>5 DEF OneWriter
<1>3. ASSUME NEW p \in Run, Kill(p) PROVE OneWriter'
  BY <1>3 DEF Kill
<1>4. CASE ReplaceSource \/ UNCHANGED vars
  BY <1>4 DEF ReplaceSource, vars, OneWriter, Active, Entries
<1> QED
  BY <1>1, <1>2, <1>3, <1>4 DEF Next, Advance

LEMMA HashedSteps ==
    ASSUME SourceInv, alone, OneWriter, HashedIsRead, [Next]_vars, alone'
    PROVE  HashedIsRead'
<1>t. pc \in [Run -> Labels]
  BY DEF SourceInv, CutClipTypeOK
<1>1. ASSUME NEW p \in Run, NEW r \in Requests, Check(p, r) PROVE HashedIsRead'
  <2>1. ASSUME NEW q \in Run
        PROVE  /\ pc'[q] # "hash"
               /\ pc'[q] \in AfterHashing => pc'[q] = pc[q]
    BY <1>1, <1>t DEF Check, Active, Goto, AfterHashing, Ended
  <2> QED BY <1>1, <2>1 DEF Check, HashedIsRead
<1>2. ASSUME NEW p \in Run, Advance(p) PROVE HashedIsRead'
  <2>1. ASSUME NEW q \in Run, q # p
        PROVE  /\ pc'[q] # "hash"
               /\ pc'[q] \in AfterHashing =>
                     q \in DOMAIN hashed' /\ hashed'[q] = payload'[q]
    <3>1. /\ pc[q] \in Ended \cup {"idle"} /\ pc'[q] = pc[q]
          /\ q \in DOMAIN hashed => q \in DOMAIN hashed' /\ hashed'[q] = hashed[q]
          /\ q \in DOMAIN payload => payload'[q] = payload[q]
      BY <1>2, <2>1, OthersAreOver
    <3>2. pc[q] \in AfterHashing => q \in DOMAIN payload
      BY DEF SourceInv, Sourced, AfterReading, AfterHashing
    <3> QED BY <3>1, <3>2 DEF HashedIsRead, Ended
  <2>2. pc'[p] = "hash" => files'[ClipId(request[p])'] = payload'[p]
    <3>1. ASSUME pc'[p] = "hash" PROVE WriteClip(p)
      BY <1>2, <3>1, <1>t DEF Advance, Goto, Verify, OpenClip, HashClip, ReadManifest,
                              TruncateManifest, StoreManifest,
                              FindLog, BeginLog, RecordAccess
    <3>2. ASSUME WriteClip(p) PROVE files'[ClipId(request[p])'] = payload'[p]
      <4>1. files'[ClipId(request[p])] = payload[p]
        BY <3>2 DEF WriteClip, Bind
      <4>2. ClipId(request[p])' = ClipId(request[p]) /\ payload' = payload
        BY <3>2 DEF WriteClip, ClipId, Bounds, Resolved
      <4> QED BY <4>1, <4>2
    <3> QED BY <3>1, <3>2
  <2>3. pc'[p] \in AfterHashing => p \in DOMAIN hashed' /\ hashed'[p] = payload'[p]
    <3>1. CASE HashClip(p)
      BY <3>1 DEF HashClip, Bind, HashedIsRead
    <3>2. CASE ~HashClip(p)
      <4>1. pc'[p] \in AfterHashing =>
               /\ pc[p] \in AfterHashing
               /\ hashed' = hashed /\ payload' = payload
        BY <3>2, <1>2, <1>t
           DEF Advance, AfterHashing, Goto, Verify, OpenClip, WriteClip, ReadManifest,
               TruncateManifest, StoreManifest, FindLog, BeginLog, RecordAccess
      <4> QED BY <4>1 DEF HashedIsRead
    <3> QED BY <3>1, <3>2
  <2> QED BY <2>1, <2>2, <2>3 DEF HashedIsRead
<1>3. ASSUME NEW p \in Run, Kill(p) PROVE HashedIsRead'
  BY <1>3 DEF Kill
<1>4. CASE ReplaceSource \/ UNCHANGED vars
  <2>1. /\ pc' = pc /\ request' = request /\ files' = files
        /\ payload' = payload /\ hashed' = hashed
    BY <1>4 DEF ReplaceSource, vars
  <2>2. \A q \in Run : ClipId(request[q])' = ClipId(request[q])
    BY <2>1 DEF ClipId, Bounds, Resolved
  <2> QED BY <2>1, <2>2 DEF HashedIsRead
<1> QED
  BY <1>1, <1>2, <1>3, <1>4 DEF Next, Advance

LEMMA KeptSteps ==
    ASSUME SourceInv, alone, OneWriter, HashedIsRead, Kept, [Next]_vars, alone'
    PROVE  Kept'
<1>t. pc \in [Run -> Labels]
  BY DEF SourceInv, CutClipTypeOK
<1>1. ASSUME NEW p \in Run, NEW r \in Requests, Check(p, r) PROVE Kept'
  <2>1. Stored' = Stored
    BY <1>1, <1>t DEF Check, Goto, Stored
  <2>2. ASSUME NEW q \in Run, pc[q] # "idle"
        PROVE  request'[q] = request[q] /\ hashed'[q] = hashed[q]
    BY <1>1, <2>2 DEF Check, Bind, SourceInv, CutClipTypeOK
  <2>3. \A q \in Stored : Entry(q)' = Entry(q)
    BY <2>2, SameEntry DEF Stored
  <2>4. \A q \in Run : pc'[q] # "store"
    BY <1>1, <1>t DEF Check, Goto, Active, Ended
  <2>5. clips' = clips /\ Entries' = Entries
    BY <1>1 DEF Check, Entries
  <2>6. ASSUME NEW q \in Run, pc'[q] = "done", Locked(request[q])' PROVE q \in Logged'
    <3>1. pc[q] = "done"
      BY <1>1, <1>t, <2>6 DEF Check, Goto
    <3>2. Locked(request[q])
      BY <2>2, <2>6, <3>1 DEF Locked, Intersects, Bounds, Resolved
    <3> QED BY <1>1, <3>1, <3>2 DEF Check, Kept, Logged
  <2>7. \A q \in Run : pc'[q] # "header"
    BY <1>1, <1>t DEF Check, Goto, Active, Ended
  <2> QED BY <2>1, <2>3, <2>4, <2>5, <2>6, <2>7 DEF Kept
<1>2. ASSUME NEW p \in Run, Advance(p) PROVE Kept'
  <2>1. \A q \in Run : q # p => pc[q] \in Ended \cup {"idle"} /\ pc'[q] = pc[q]
    BY <1>2, OthersAreOver
  <2>2. request' = request
    BY <1>2 DEF Advance, Verify, OpenClip, WriteClip, HashClip, ReadManifest,
                TruncateManifest, StoreManifest, FindLog, BeginLog, RecordAccess
  <2>3. ASSUME NEW q \in Stored PROVE Entry(q)' = Entry(q)
    <3>1. q \in Run /\ q \in DOMAIN hashed
      BY DEF Stored, HashedIsRead, AfterHashing
    <3>2. CASE q = p
      <4>1. FindLog(p) \/ BeginLog(p) \/ RecordAccess(p)
        BY <3>2, <1>2 DEF Stored, Advance, Verify, OpenClip, WriteClip, HashClip,
                          ReadManifest, TruncateManifest, StoreManifest
      <4> QED BY <3>1, <3>2, <4>1, SameEntry DEF FindLog, BeginLog, RecordAccess
    <3>3. CASE q # p
      BY <3>1, <3>3, <1>2, <2>2, OthersAreOver, SameEntry
    <3> QED BY <3>2, <3>3
  <2>4. \A q \in Run : Locked(request[q])' <=> Locked(request[q])
    BY <2>2 DEF Locked, Intersects, Bounds, Resolved
  <2>5. \A q \in Run : q # p => pc'[q] # "store"
    BY <2>1 DEF Ended
  <2>h. ASSUME NEW q \in Run, pc'[q] = "header" PROVE accesses' = {}
    <3>1. q = p
      BY <2>1, <2>h DEF Ended
    <3>2. FindLog(p)
      BY <1>2, <1>t, <2>h, <3>1
         DEF Advance, Goto, Verify, OpenClip, WriteClip, HashClip, ReadManifest,
             TruncateManifest, StoreManifest, BeginLog, RecordAccess
    <3> QED BY <2>h, <3>1, <3>2, <1>t DEF FindLog, Goto
  <2>6. CASE StoreManifest(p)
    <3>1. Stored' = Stored \cup {p} /\ pc'[p] # "store"
      BY <2>6, <1>t DEF StoreManifest, Goto, Stored
    <3>2. Entry(p)' = Entry(p)
      BY <2>6, SameEntry DEF StoreManifest
    <3>3. Entries' = document[p] \cup {Entry(p)}
      BY <2>6 DEF StoreManifest, Entries
    <3>4. /\ \A entry \in document[p] : \E q \in Stored : entry = Entry(q)
          /\ \A q \in Stored : Entry(q) \in document[p]
      BY <2>6 DEF StoreManifest, Kept
    <3>5. ASSUME NEW q \in Run, pc'[q] = "done", Locked(request[q])
          PROVE  q \in Logged'
      BY <2>6, <3>5, <1>t DEF StoreManifest, Goto, Kept, Logged
    <3>6. \A entry \in Entries' : \E q \in Stored' : entry = Entry(q)'
      BY <2>3, <3>1, <3>2, <3>3, <3>4
    <3>7. \A q \in Stored' : Entry(q)' \in Entries'
      BY <2>3, <3>1, <3>2, <3>3, <3>4
    <3>8. \A q \in Run : pc'[q] # "store"
      BY <2>5, <3>1
    <3> QED BY <2>4, <2>h, <3>5, <3>6, <3>7, <3>8 DEF Kept
  <2>7. CASE ~StoreManifest(p)
    <3>1. Stored' = Stored
      BY <2>7, <1>2, <1>t DEF Advance, Goto, Stored, Verify, OpenClip, WriteClip,
                              HashClip, ReadManifest, TruncateManifest,
                              FindLog, BeginLog, RecordAccess
    <3>2. ASSUME NEW q \in Run, pc'[q] = "done", Locked(request[q])
          PROVE  q \in Logged'
      <4>1. CASE RecordAccess(p)
        BY <3>2, <4>1, <1>t DEF RecordAccess, Goto, Kept, Logged
      <4>2. CASE BeginLog(p)
        <5>1. accesses = {} /\ pc[q] = "done"
          BY <3>2, <4>2, <1>t DEF BeginLog, Goto, Kept
        <5> QED BY <3>2, <5>1 DEF Kept, Logged
      <4>3. CASE ~RecordAccess(p) /\ ~BeginLog(p)
        <5>1. pc[q] = "done" /\ accesses' = accesses
          BY <2>7, <1>2, <1>t, <3>2, <4>3
             DEF Advance, Goto, Verify, OpenClip, WriteClip, HashClip, ReadManifest,
                 TruncateManifest, FindLog
        <5> QED BY <3>2, <5>1 DEF Kept, Logged
      <4> QED BY <4>1, <4>2, <4>3
    <3>3. CASE TruncateManifest(p)
      <4>1. clips # {}
        BY <3>3, <2>1 DEF TruncateManifest, OneWriter, Ended
      <4>2. document[p] = Entries /\ document' = document
        BY <3>3 DEF TruncateManifest, OneWriter
      <4>3. clips' = {} /\ Entries' = {}
        BY <3>3 DEF TruncateManifest, Entries
      <4>4. /\ \A entry \in document'[p] : \E q \in Stored' : entry = Entry(q)'
            /\ \A q \in Stored' : Entry(q)' \in document'[p]
        BY <2>3, <3>1, <4>1, <4>2 DEF Kept
      <4> QED BY <2>4, <2>5, <2>h, <3>2, <4>3, <4>4 DEF Kept
    <3>4. CASE ~TruncateManifest(p)
      <4>1. clips' = clips /\ Entries' = Entries /\ pc'[p] # "store"
        BY <3>4, <2>7, <1>2, <1>t
           DEF Advance, Goto, Entries, Verify, OpenClip, WriteClip, HashClip,
               ReadManifest, FindLog, BeginLog, RecordAccess
      <4>2. \A entry \in Entries' : \E q \in Stored' : entry = Entry(q)'
        BY <2>3, <3>1, <4>1 DEF Kept
      <4>3. clips' # {} => \A q \in Stored' : Entry(q)' \in Entries'
        BY <2>3, <3>1, <4>1 DEF Kept
      <4>4. \A q \in Run : pc'[q] # "store"
        BY <2>5, <4>1
      <4> QED BY <2>4, <2>h, <3>2, <4>2, <4>3, <4>4 DEF Kept
    <3> QED BY <3>3, <3>4
  <2> QED BY <2>6, <2>7
<1>3. ASSUME NEW p \in Run, Kill(p) PROVE Kept'
  BY <1>3 DEF Kill
<1>4. CASE ReplaceSource \/ UNCHANGED vars
  <2>1. /\ pc' = pc /\ request' = request /\ hashed' = hashed
        /\ document' = document /\ clips' = clips /\ accesses' = accesses
    BY <1>4 DEF ReplaceSource, vars
  <2>2. Stored' = Stored /\ Entries' = Entries
    BY <2>1 DEF Stored, Entries
  <2>3. \A q \in Run : Entry(q)' = Entry(q)
    BY <2>1, SameEntry
  <2>4. \A q \in Stored : Entry(q)' = Entry(q)
    BY <2>3 DEF Stored
  <2>5. \A q \in Run : Locked(request[q])' <=> Locked(request[q])
    BY <2>1 DEF Locked, Intersects, Bounds, Resolved
  <2>6. Logged' = Logged
    BY <2>1 DEF Logged
  <2> QED BY <2>1, <2>2, <2>4, <2>5, <2>6 DEF Kept
<1> QED
  BY <1>1, <1>2, <1>3, <1>4 DEF Next, Advance

\* The file of a clip holds what was hashed, as long as no other invocation has
\* opened it under the same id.
InFile ==
    \A p \in Run :
        /\ pc[p] \in {"append", "truncate", "store"} =>
              files[ClipId(request[p])] = hashed[p]
        /\ p \in Stored =>
              \/ files[ClipId(request[p])] = hashed[p]
              \/ \E q \in Run : Spoils(q, ClipId(request[p]))

LEMMA InFileSteps ==
    ASSUME SourceInv, alone, OneWriter, HashedIsRead, Kept, InFile, [Next]_vars, alone'
    PROVE  InFile'
<1> DEFINE
    Spoilt(q, id) == /\ q \in DOMAIN payload'
                     /\ pc'[q] \in {"write", "hash", "append", "refused"}
                     /\ ClipId(request[q])' = id
<1>a. ASSUME \A q \in Run :
               /\ pc'[q] \in {"append", "truncate", "store"} =>
                     files'[ClipId(request[q])'] = hashed'[q]
               /\ pc'[q] \in {"record", "header", "line", "done"} =>
                     \/ files'[ClipId(request[q])'] = hashed'[q]
                     \/ \E o \in Run : Spoilt(o, ClipId(request[q])')
      PROVE  InFile'
  BY <1>a DEF InFile, Stored, Spoils
<1>t. pc \in [Run -> Labels]
  BY DEF SourceInv, CutClipTypeOK
<1>s. ASSUME request' = request
      PROVE  \A q \in Run : ClipId(request[q])' = ClipId(request[q])
  BY <1>s DEF ClipId, Bounds, Resolved
<1>1. ASSUME NEW p \in Run, NEW r \in Requests, Check(p, r) PROVE InFile'
  <2>1. /\ pc[p] = "idle" /\ pc'[p] \in {"verify", "refused"}
        /\ \A q \in Run \ {p} : pc'[q] = pc[q]
        /\ UNCHANGED <<files, hashed, payload>>
    BY <1>1, <1>t DEF Check, Goto
  <2>2. p \notin DOMAIN payload
    BY <2>1 DEF SourceInv, Sourced, BeforeReading
  <2>3. ASSUME NEW q \in Run, q # p, pc[q] # "idle"
        PROVE  ClipId(request[q])' = ClipId(request[q])
    <3>1. request'[q] = request[q]
      BY <1>1, <2>3 DEF Check, Bind, SourceInv, CutClipTypeOK
    <3> QED BY <3>1 DEF ClipId, Bounds, Resolved
  <2>4. ASSUME NEW q \in Run, NEW id, Spoils(q, id) PROVE Spoilt(q, id)
    <3>1. q # p /\ pc[q] # "idle"
      BY <2>2, <2>4 DEF Spoils
    <3> QED BY <2>1, <2>3, <2>4, <3>1 DEF Spoils
  <2>5. ASSUME NEW q \in Run, pc'[q] \in {"append", "truncate", "store"}
        PROVE  files'[ClipId(request[q])'] = hashed'[q]
    <3>1. q # p /\ pc[q] \in {"append", "truncate", "store"}
      BY <2>1, <2>5
    <3> QED BY <2>1, <2>3, <3>1 DEF InFile
  <2>6. ASSUME NEW q \in Run, pc'[q] \in {"record", "header", "line", "done"}
        PROVE  \/ files'[ClipId(request[q])'] = hashed'[q]
               \/ \E o \in Run : Spoilt(o, ClipId(request[q])')
    <3>1. q # p /\ q \in Stored /\ pc[q] # "idle"
      BY <2>1, <2>6 DEF Stored
    <3>2. ClipId(request[q])' = ClipId(request[q])
      BY <2>3, <3>1
    <3> QED BY <2>1, <2>4, <3>1, <3>2 DEF InFile
  <2> QED BY <2>5, <2>6, <1>a
<1>2. ASSUME NEW p \in Run, Advance(p) PROVE InFile'
  <2>1. \A q \in Run \ {p} :
           /\ pc[q] \in Ended \cup {"idle"} /\ pc'[q] = pc[q]
           /\ q \in DOMAIN hashed => hashed'[q] = hashed[q]
    BY <1>2, OthersAreOver
  <2>2. request' = request
    BY <1>2 DEF Advance, Verify, OpenClip, WriteClip, HashClip, ReadManifest,
                TruncateManifest, StoreManifest, FindLog, BeginLog, RecordAccess
  <2>3. \A q \in Run : ClipId(request[q])' = ClipId(request[q])
    BY <1>s, <2>2
  <2>4. DOMAIN payload \subseteq DOMAIN payload'
    BY <1>2 DEF Advance, Bind, Verify, OpenClip, WriteClip, HashClip, ReadManifest,
                TruncateManifest, StoreManifest, FindLog, BeginLog, RecordAccess
  <2>5. ASSUME NEW q \in Run \ {p}, NEW id, Spoils(q, id) PROVE Spoilt(q, id)
    BY <2>1, <2>3, <2>4, <2>5 DEF Spoils
  <2>6. ASSUME pc'[p] \in {"append", "truncate", "store"}
        PROVE  files'[ClipId(request[p])] = hashed'[p]
    <3>1. CASE HashClip(p)
      BY <3>1 DEF HashClip, Bind
    <3>2. CASE ~HashClip(p)
      <4>1. /\ pc[p] \in {"append", "truncate", "store"}
            /\ files' = files /\ hashed' = hashed
        BY <1>2, <1>t, <2>6, <3>2
           DEF Advance, Goto, Verify, OpenClip, WriteClip, ReadManifest,
               TruncateManifest, StoreManifest, FindLog, BeginLog, RecordAccess
      <4> QED BY <4>1 DEF InFile
    <3> QED BY <3>1, <3>2
  <2>7. ASSUME pc'[p] \in {"record", "header", "line", "done"}
        PROVE  \/ files'[ClipId(request[p])] = hashed'[p]
               \/ \E o \in Run : Spoilt(o, ClipId(request[p]))
    <3>1. /\ pc[p] \in {"store", "record", "header", "line"}
          /\ files' = files /\ hashed' = hashed
      BY <1>2, <1>t, <2>7
         DEF Advance, Goto, Verify, OpenClip, WriteClip, HashClip, ReadManifest,
             TruncateManifest, StoreManifest, FindLog, BeginLog, RecordAccess
    <3>2. ~Spoils(p, ClipId(request[p]))
      BY <3>1 DEF Spoils
    <3> QED BY <2>5, <3>1, <3>2 DEF InFile, Stored
  <2>8. ASSUME NEW q \in Run \ {p}, pc'[q] \in {"record", "header", "line", "done"}
        PROVE  \/ files'[ClipId(request[q])] = hashed'[q]
               \/ \E o \in Run : Spoilt(o, ClipId(request[q]))
    <3>1. pc[q] = "done" /\ q \in Stored
      BY <2>1, <2>8 DEF Ended, Stored
    <3>2. q \in DOMAIN hashed /\ hashed'[q] = hashed[q]
      BY <2>1, <3>1 DEF HashedIsRead, AfterHashing
    <3>3. \/ files[ClipId(request[q])] = hashed[q]
          \/ \E o \in Run : Spoils(o, ClipId(request[q]))
      BY <3>1 DEF InFile
    <3>4. CASE ClipId(request[p]) # ClipId(request[q])
      <4>1. files'[ClipId(request[q])] = files[ClipId(request[q])]
        <5>1. ClipId(request[q]) \in DOMAIN files
          BY <3>1 DEF SourceInv, Sourced, AfterReading
        <5> QED BY <1>2, <3>4, <5>1
             DEF Advance, Bind, Verify, OpenClip, WriteClip, HashClip, ReadManifest,
                 TruncateManifest, StoreManifest, FindLog, BeginLog, RecordAccess
      <4>2. ~Spoils(p, ClipId(request[q]))
        BY <3>4 DEF Spoils
      <4> QED BY <2>5, <3>2, <3>3, <4>1, <4>2
    <3>5. CASE ClipId(request[p]) = ClipId(request[q])
      <4>1. CASE OpenClip(p) \/ WriteClip(p) \/ HashClip(p)
        <5>1. pc'[p] \in {"write", "hash", "append"}
          BY <4>1, <1>t DEF OpenClip, WriteClip, HashClip, Goto
        <5>2. p \in DOMAIN payload'
          <6>1. CASE OpenClip(p)
            BY <6>1 DEF OpenClip, Bind
          <6>2. CASE WriteClip(p) \/ HashClip(p)
            <7>1. pc[p] \in AfterReading
              BY <6>2 DEF WriteClip, HashClip, AfterReading
            <7> QED BY <2>4, <7>1 DEF SourceInv, Sourced
          <6> QED BY <4>1, <6>1, <6>2
        <5>3. Spoilt(p, ClipId(request[q]))
          BY <2>3, <3>5, <5>1, <5>2 DEF Spoils
        <5> QED BY <2>3, <5>3
      <4>2. CASE ReadManifest(p)
        <5>1. clips # {}
          BY <2>1, <4>2 DEF OneWriter, ReadManifest, Ended
        <5>2. Entry(q) \in Entries
          BY <3>1, <5>1 DEF Kept
        <5>3. ClipId(request[q]) \in IdsIn(Entries)
          BY <5>2 DEF IdsIn, Entry
        <5>4. pc'[p] = "refused"
          BY <1>t, <3>5, <4>2, <5>3 DEF ReadManifest, Goto
        <5>5. p \in DOMAIN payload'
          <6>1. pc[p] \in AfterReading
            BY <4>2 DEF ReadManifest, AfterReading
          <6> QED BY <2>4, <6>1 DEF SourceInv, Sourced
        <5>6. Spoilt(p, ClipId(request[q]))
          BY <2>3, <3>5, <5>4, <5>5 DEF Spoils
        <5> QED BY <5>6
      <4>3. CASE ~OpenClip(p) /\ ~WriteClip(p) /\ ~HashClip(p) /\ ~ReadManifest(p)
        <5>1. /\ files' = files
              /\ pc[p] \in {"verify", "truncate", "store", "record", "header", "line"}
          BY <1>2, <4>3
             DEF Advance, Verify, TruncateManifest, StoreManifest, FindLog, BeginLog,
                 RecordAccess
        <5>2. ~Spoils(p, ClipId(request[q]))
          BY <5>1 DEF Spoils
        <5> QED BY <2>5, <3>2, <3>3, <5>1, <5>2
      <4> QED BY <4>1, <4>2, <4>3
    <3> QED BY <3>4, <3>5
  <2>9. \A q \in Run \ {p} : pc'[q] \notin {"append", "truncate", "store"}
    BY <2>1 DEF Ended
  <2>10. ASSUME NEW q \in Run
         PROVE  /\ pc'[q] \in {"append", "truncate", "store"} =>
                       files'[ClipId(request[q])] = hashed'[q]
                /\ pc'[q] \in {"record", "header", "line", "done"} =>
                       \/ files'[ClipId(request[q])] = hashed'[q]
                       \/ \E o \in Run : Spoilt(o, ClipId(request[q]))
    BY <2>6, <2>7, <2>8, <2>9
  <2> HIDE DEF Spoilt
  <2> QED BY <1>a, <2>3, <2>10
<1>3. ASSUME NEW p \in Run, Kill(p) PROVE InFile'
  BY <1>3 DEF Kill
<1>4. CASE ReplaceSource \/ UNCHANGED vars
  <2>1. /\ pc' = pc /\ request' = request /\ hashed' = hashed /\ files' = files
        /\ payload' = payload
    BY <1>4 DEF ReplaceSource, vars
  <2>2. \A q \in Run : ClipId(request[q])' = ClipId(request[q])
    BY <1>s, <2>1
  <2>3. \A q \in Run : \A id : Spoils(q, id) => Spoilt(q, id)
    BY <2>1, <2>2 DEF Spoils
  <2> HIDE DEF Spoilt
  <2> QED BY <1>a, <2>1, <2>2, <2>3 DEF InFile, Stored
<1> QED
  BY <1>1, <1>2, <1>3, <1>4 DEF Next, Advance

FileInv == alone => InFile

LEMMA FileInit == Init => FileInv
BY DEF Init, FileInv, InFile, Stored

THEOREM AloneIsKept == Spec => [](SourceInv /\ AloneInv /\ FileInv)
<1>1. SourceInv /\ AloneInv /\ [Next]_vars => AloneInv'
  BY AloneBefore, OneWriterSteps, HashedSteps, KeptSteps DEF AloneInv
<1>2. SourceInv /\ AloneInv /\ FileInv /\ [Next]_vars => FileInv'
  BY AloneBefore, InFileSteps DEF AloneInv, FileInv
<1> QED
  BY <1>1, <1>2, SourceInit, SourceSteps, AloneInit, FileInit, PTL DEF Spec

\* As long as invocations run one at a time and none is killed, an entry is made
\* of the complete clip of its own range; that was cut from the recording whose
\* hash it cites, unless that was replaced after it had been verified, and is in
\* the file the entry names, unless a cut that is refused has overwritten it.
THEOREM EntriesDescribeClips == Spec => []EntryDescribesItsClip
<1>1. SourceInv /\ AloneInv /\ FileInv /\ Checked => EntryDescribesItsClip
  <2> SUFFICES ASSUME SourceInv, AloneInv, FileInv, Checked, alone, NEW entry \in Entries
               PROVE  /\ entry.clip # Torn
                      /\ entry.clip.start = entry.start
                      /\ entry.clip.end = entry.end
                      /\ \/ entry.clip.version = entry.source
                         \/ \E p \in overtaken : Entry(p) = entry
                      /\ \/ files[entry.clip_id] = entry.clip
                         \/ \E p \in Run : Spoils(p, entry.clip_id)
    BY DEF EntryDescribesItsClip
  <2>1. PICK p \in Stored : entry = Entry(p)
    BY DEF AloneInv, Kept
  <2>2. p \in Run /\ p \in DOMAIN payload /\ hashed[p] = payload[p]
    BY DEF Stored, AloneInv, HashedIsRead, AfterHashing, SourceInv, Sourced, AfterReading
  <2>3. /\ payload[p] \in Contents
        /\ payload[p].start = Bounds(request[p]).start
        /\ payload[p].end = Bounds(request[p]).end
    BY <2>2 DEF SourceInv, CutClipTypeOK, Sourced
  <2>4. /\ entry.clip = hashed[p]
        /\ entry.clip_id = ClipId(request[p])
        /\ entry.source = ManifestVersion
        /\ entry.start = Bounds(request[p]).start
        /\ entry.end = Bounds(request[p]).end
    BY <2>1 DEF Entry
  <2>5. p \in overtaken \/ entry.clip.version = entry.source
    BY <2>2, <2>4 DEF Checked
  <2>6. \/ files[entry.clip_id] = entry.clip
        \/ \E q \in Run : Spoils(q, entry.clip_id)
    BY <2>2, <2>4 DEF FileInv, InFile
  <2> QED BY <2>1, <2>2, <2>3, <2>4, <2>5, <2>6, TornAssumption
<1> QED
  BY <1>1, AloneIsKept, SourcesAreKept, CheckedInit, CheckedSteps, PTL DEF Spec

\* As long as that is so, what one invocation stored is not lost to the next.
THEOREM EntriesAreKept == Spec => []NoEntryIsLost
<1>1. AloneInv => NoEntryIsLost
  <2> SUFFICES ASSUME AloneInv, alone, NEW p \in Stored
               PROVE  IF clips = {}
                      THEN \E q \in Run : pc[q] = "store" /\ Entry(p) \in document[q]
                      ELSE Entry(p) \in Entries
    BY DEF NoEntryIsLost, Stored
  <2>1. CASE clips = {}
    <3>1. PICK q \in Run : pc[q] = "store"
      BY <2>1 DEF AloneInv, OneWriter
    <3>2. Entry(p) \in document[q]
      BY <3>1 DEF AloneInv, Kept
    <3> QED BY <2>1, <3>1, <3>2
  <2>2. CASE clips # {}
    BY <2>2 DEF AloneInv, Kept
  <2> QED BY <2>1, <2>2
<1> QED
  BY <1>1, AloneIsKept, PTL

\* As long as that is so, once nothing is under way every entry with samples of
\* the locked set has its line in the audit log.
THEOREM LockedIsLogged == Spec => []LockedEntriesAreLogged
<1>1. SourceInv /\ AloneInv => LockedEntriesAreLogged
  <2> SUFFICES ASSUME SourceInv, AloneInv, alone, Active = {}, NEW entry \in Entries,
                      HoldsLockedSamples(entry)
               PROVE  \E p \in Logged : Entry(p) = entry
    BY DEF LockedEntriesAreLogged
  <2>1. PICK p \in Stored : entry = Entry(p)
    BY DEF AloneInv, Kept
  <2>2. p \in Run /\ pc[p] = "done"
    BY DEF Stored, Active, Ended
  <2>3. Acceptable(request[p]) /\ request[p] \in Requests
    BY <2>2 DEF SourceInv, Sourced, CutClipTypeOK, AfterReading
  <2>4. entry.start = Bounds(request[p]).start /\ entry.end = Bounds(request[p]).end
    BY <2>1 DEF Entry
  <2>5. Locked(request[p])
    BY <2>3, <2>4, LockedIsSeen
  <2>6. p \in Logged
    BY <2>2, <2>5 DEF AloneInv, Kept
  <2> QED BY <2>1, <2>6
<1> QED
  BY <1>1, AloneIsKept, PTL

=============================================================================
