--------------------------- MODULE ContentLedger ---------------------------
(***************************************************************************)
(* What the reducer promises about transcripts, and all it promises: a     *)
(* ledger with one entry per segment, opened once, replaced only under a   *)
(* strictly higher revision, sealed once, and never touched again.  How    *)
(* languages, speakers and translations come and go is not visible here.   *)
(***************************************************************************)
EXTENDS Integers

CONSTANT SegmentId

VARIABLE ledger    \* segment id -> [revision, content, sealed]

Init == DOMAIN ledger = {}

OthersUnchanged(i) == \A j \in DOMAIN ledger \ {i} : ledger'[j] = ledger[j]

Open(i) ==
    /\ i \notin DOMAIN ledger
    /\ DOMAIN ledger' = DOMAIN ledger \cup {i}
    /\ ~ledger'[i].sealed
    /\ OthersUnchanged(i)

Replace(i) ==
    /\ i \in DOMAIN ledger
    /\ ~ledger[i].sealed
    /\ DOMAIN ledger' = DOMAIN ledger
    /\ ledger'[i].revision > ledger[i].revision
    /\ ~ledger'[i].sealed
    /\ OthersUnchanged(i)

Close(i) ==
    /\ i \in DOMAIN ledger
    /\ ~ledger[i].sealed
    /\ ledger' = [ledger EXCEPT ![i].sealed = TRUE]

Next == \E i \in SegmentId : Open(i) \/ Replace(i) \/ Close(i)

Spec == Init /\ [][Next]_ledger

=============================================================================
