------------------------------- MODULE Replay -------------------------------
(***************************************************************************)
(* One debug log, several projections of it.  The timeline on screen, the  *)
(* live history, the compaction and the rebuild after a crash each own a   *)
(* SessionProjection and fold the same log with the same reducer           *)
(* (projection.py, ADR-0008 D13).                                          *)
(*                                                                         *)
(* The writer of the log and the transport are not in the source: a record *)
(* may be written twice, a consumer may be handed again a record that it   *)
(* has folded, and it may crash and start over from the first record.  A   *)
(* consumer never skips a record.  Sealers are the consumers on which the  *)
(* orchestrator calls seal(), which writes no event.                       *)
(***************************************************************************)
EXTENDS Reducer, SequencesExt

CONSTANTS Events,     \* the events that may be logged
          Consumer,   \* the owners of a SessionProjection
          Sealers,    \* those on which seal() is called
          MaxLog      \* bound on the length of the log

ASSUME ReplayAssumption ==
    /\ Events \subseteq Event
    /\ Sealers \subseteq Consumer
    /\ MaxLog \in Nat

VARIABLES log,        \* the debug log: a sequence of [event_id, event]
          projection, \* consumer -> its SessionProjection
          position    \* consumer -> how many records it has folded

vars == <<log, projection, position>>

Record == [event_id : EventId, event : Events]

ReplayTypeOK ==
    /\ log \in Seq(Record)
    /\ position \in [Consumer -> 0..Len(log)]
    /\ DOMAIN projection = Consumer
    /\ \A c \in Consumer : IsSession(projection[c])

Init ==
    /\ log = <<>>
    /\ projection = [c \in Consumer |-> EmptySession]
    /\ position = [c \in Consumer |-> 0]

LoggedIds == {log[k].event_id : k \in DOMAIN log}

\* new_event_id: one unused id stands for all of them.
Emit(e) ==
    /\ Len(log) < MaxLog
    /\ EventId \ LoggedIds # {}
    /\ log' = Append(log, [ event_id |-> CHOOSE i \in EventId : i \notin LoggedIds,
                            event    |-> e ])
    /\ UNCHANGED <<projection, position>>

\* The writer retries a record that had reached the log.
EmitAgain(k) ==
    /\ Len(log) < MaxLog
    /\ log' = Append(log, log[k])
    /\ UNCHANGED <<projection, position>>

Folded(p, record) == Apply(p, record.event_id, record.event).session

\* Faulty variant: the loop ends at the first event that is refused.
DeliverApplied(c) ==
    /\ position[c] < Len(log)
    /\ LET record == log[position[c] + 1]
           result == Apply(projection[c], record.event_id, record.event)
       IN  /\ result.reason = "applied"
           /\ projection' = [projection EXCEPT ![c] = result.session]
    /\ position' = [position EXCEPT ![c] = @ + 1]
    /\ UNCHANGED log

\* One turn of fold's loop, which goes on whatever apply answers.
Deliver(c) ==
    /\ position[c] < Len(log)
    /\ position' = [position EXCEPT ![c] = @ + 1]
    /\ projection' = [projection EXCEPT ![c] = Folded(@, log[position[c] + 1])]
    /\ UNCHANGED log

\* A consumer is handed a record that it has folded already.
Redeliver(c, k) ==
    /\ k <= position[c]
    /\ projection' = [projection EXCEPT ![c] = Folded(@, log[k])]
    /\ UNCHANGED <<log, position>>

\* Projections live in memory: after a crash nothing is left but the log.
Restart(c) ==
    /\ position' = [position EXCEPT ![c] = 0]
    /\ projection' = [projection EXCEPT ![c] = EmptySession]
    /\ UNCHANGED log

SealSegment(c, i) ==
    /\ projection' = [projection EXCEPT ![c] = Seal(@, i).session]
    /\ UNCHANGED <<log, position>>

Next ==
    \/ \E e \in Events : Emit(e)
    \/ \E k \in DOMAIN log : EmitAgain(k)
    \/ \E c \in Consumer :
          \/ Deliver(c)
          \/ \E k \in DOMAIN log : Redeliver(c, k)
          \/ Restart(c)
    \/ \E c \in Sealers, i \in SegmentId : SealSegment(c, i)

\* fold is a for loop over the records: it takes the next one by itself.
Fairness == \A c \in Consumer : WF_vars(Deliver(c))

Spec == Init /\ [][Next]_vars /\ Fairness

-----------------------------------------------------------------------------
(* Properties.                                                             *)

\* fold: what one pass over the first n records makes of an empty session.
Replayed(n) == FoldLeft(Folded, EmptySession, SubSeq(log, 1, n))

\* Whatever was written twice, delivered twice or rebuilt after a crash, a
\* projection that nobody seals is one clean pass over the log: folding is
\* idempotent per event_id, for refused events as for applied ones (PROT-280).
ReplayIsExact ==
    \A c \in Consumer \ Sealers : projection[c] = Replayed(position[c])

\* A seal freezes its segment and does nothing else.  Every open segment of a
\* sealing consumer is what a clean pass makes of it, as are its aliases and
\* the ids it has seen; a sealed one is what a clean pass had made of it at an
\* earlier record.
SealOnlyFreezes ==
    \A c \in Consumer :
        LET p == projection[c]
            clean == Replayed(position[c])
        IN  /\ DOMAIN p.segments = DOMAIN clean.segments
            /\ p.speaker_aliases = clean.speaker_aliases
            /\ p.seen_event_ids = clean.seen_event_ids
            /\ \A i \in DOMAIN p.segments :
                  IF p.segments[i].sealed
                  THEN \E n \in 0..position[c] :
                          LET past == Replayed(n).segments
                          IN  i \in DOMAIN past
                                 /\ [past[i] EXCEPT !.sealed = TRUE] = p.segments[i]
                  ELSE p.segments[i] = clean.segments[i]

\* ADR-0008 D13: the timeline, the live history, the compaction and the
\* recovery rebuild agree by construction.  Once consumers crash no more, each
\* comes to hold, and keeps, what one pass over the whole log makes: refused
\* records do not hold it up and repeated ones do not move it on.
NoRestart == \A c \in Consumer : ~Restart(c)

Converges ==
    (<>[][NoRestart]_vars) =>
        <>[](\A c \in Consumer :
                /\ position[c] = Len(log)
                /\ c \notin Sealers => projection[c] = Replayed(Len(log)))

=============================================================================
