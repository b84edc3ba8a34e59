----------------------------- MODULE MatrixSync -----------------------------
(***************************************************************************)
(* tools/traceability_sync.py: docs/traceability.md is regenerated from    *)
(* the catalogue docs/requirement-ids.md and from itself, while people     *)
(* edit both files.  main() reads the catalogue, reads the matrix, reads   *)
(* the matrix again to compare it, truncates it and writes it; nothing     *)
(* locks either file, and the tool may be killed between two steps.  One   *)
(* run at a time is modelled: a second one that read the matrix while the  *)
(* first has it truncated would take it for empty.                         *)
(*                                                                         *)
(* A requirement id is a record of its domain and number.  ADR, module,    *)
(* test and fixture are carried like the evidence and are left out.  The   *)
(* matrix is the rows of its tables and its status counts; one row's line  *)
(* is its id, its text and status and, as sequences of characters, its     *)
(* evidence and notes: a pipe in these separates columns unless a          *)
(* backslash precedes it.                                                  *)
(***************************************************************************)
EXTENDS Integers, Sequences, FiniteSets, SequencesExt

CONSTANTS Ids,              \* the requirement ids, as [domain, number]
          DomainOrder,      \* DOMAIN_ORDER: the order of the matrix
          Alphabet,         \* the domains in the order of their names
          Texts,            \* texts a requirement may have
          Characters,       \* of which cells are sequences
          Pipe, Slash, Dash, \* the characters | \ -
          Hands,            \* what a person may put into a row
          MaxCatalogued,    \* bound: edits of the catalogue
          MaxEdits          \* bound: edits of the matrix

ASSUME MatrixAssumption ==
    /\ MaxCatalogued \in Nat /\ MaxEdits \in Nat
    /\ DomainOrder \in Seq(STRING) /\ Alphabet \in Seq(STRING)
    /\ ToSet(DomainOrder) = ToSet(Alphabet)
    /\ Ids \subseteq [domain : ToSet(DomainOrder), number : Nat]
    /\ {Pipe, Slash, Dash} \subseteq Characters /\ Pipe # Slash
    /\ Hands \subseteq [evidence : Seq(Characters), status : STRING,
                       notes : Seq(Characters)]

VARIABLES catalogue,  \* the lines of requirement-ids.md, as [id, text]
          matrix,     \* traceability.md
          job,        \* the invocation of main(), with what it has read
          owed,       \* ids the matrix has to show: once written, never deleted
          hand,       \* id -> what a person last put into its row, and whether
                      \* the row was then listed twice
          settled,    \* the last run ended well and nothing was edited since
          edits       \* edits so far, of the catalogue and of the matrix

vars == <<catalogue, matrix, job, owed, hand, settled, edits>>

AllowedStatuses == { "planned", "implemented", "tested", "test_script_ready",
                     "blocked_environment", "blocked_real_fixture", "failed",
                     "accepted_exception" }

Empty == <<Dash>>
Blank == [counts |-> <<>>, domain |-> <<>>, orphans |-> <<>>, accepted |-> <<>>]
NoJob == [at |-> "idle"]

-----------------------------------------------------------------------------
(* Cells and rows.                                                         *)

\* Faulty variant: a cell is rendered as it is.
EscapeNothing(cell) == cell

Escape(cell) ==
    FlattenSeq([i \in DOMAIN cell |->
                  IF cell[i] = Pipe THEN <<Slash, Pipe>> ELSE <<cell[i]>>])

\* A backslash before a pipe goes; any other stays.
Unescape(cell) ==
    FlattenSeq([i \in DOMAIN cell |->
                  IF cell[i] = Slash /\ i < Len(cell) /\ cell[i + 1] = Pipe
                  THEN <<>> ELSE <<cell[i]>>])

\* CELL_SEPARATOR finds a pipe in the cell: the row has a column too many.
Splits(cell) ==
    \E i \in DOMAIN cell : cell[i] = Pipe /\ (i = 1 \/ cell[i - 1] # Slash)

Row(id, text) == [ id |-> id, requirement |-> text, evidence |-> Empty,
                   status |-> "planned", notes |-> Empty ]

\* The line of a row, and the row a reader finds in a line that is not broken.
Line(row) == [row EXCEPT !.evidence = Escape(@), !.notes = Escape(@)]
RowOf(line) == [line EXCEPT !.evidence = Unescape(@), !.notes = Unescape(@)]
Broken(line) == Splits(line.evidence) \/ Splits(line.notes)

Lines(rows) == [k \in DOMAIN rows |-> Line(rows[k])]
Tables(file) == file.domain \o file.orphans \o file.accepted

\* The rows a reader of the file finds, by id; of two with one id the last.
Parse(file) ==
    LET lines == Tables(file)
        Whole == {k \in DOMAIN lines : ~Broken(lines[k])}
        Latest(id) == CHOOSE k \in Whole :
                      /\ lines[k].id = id
                      /\ \A j \in Whole : lines[j].id = id => j <= k
    IN  [id \in {lines[k].id : k \in Whole} |->
            RowOf(lines[Latest(id)])]

-----------------------------------------------------------------------------
(* sync and render.                                                        *)

Rank(id, domains) == CHOOSE k \in DOMAIN domains : domains[k] = id.domain

Before(a, b, domains) ==
    \/ Rank(a, domains) < Rank(b, domains)
    \/ a.domain = b.domain /\ a.number < b.number

\* The members of a finite set in the order that Less gives them.
InOrder(S, Less(_, _)) ==
    CHOOSE s \in [1..Cardinality(S) -> S] :
        /\ ToSet(s) = S
        /\ \A j, k \in DOMAIN s : j < k => Less(s[j], s[k])

Sorted(ids, domains) == InOrder(ids, LAMBDA a, b : Before(a, b, domains))

\* The catalogue owns the requirement text, the row all else.
Retained(text, row) == [row EXCEPT !.requirement = text]

\* Faulty variant: the rows are in the order of the ids' names.
RowsByName(requirements, existing) ==
    LET ids == Sorted(DOMAIN requirements, Alphabet)
    IN  [k \in DOMAIN ids |->
            IF ids[k] \in DOMAIN existing
            THEN Retained(requirements[ids[k]], existing[ids[k]])
            ELSE Row(ids[k], requirements[ids[k]])]

Rows(requirements, existing) ==
    LET ids == Sorted(DOMAIN requirements, DomainOrder)
    IN  [k \in DOMAIN ids |->
            IF ids[k] \in DOMAIN existing
            THEN Retained(requirements[ids[k]], existing[ids[k]])
            ELSE Row(ids[k], requirements[ids[k]])]

\* Faulty variant: a row whose id was withdrawn goes with it.
NoneOrphaned(requirements, existing) == <<>>

Orphaned(requirements, existing) ==
    LET ids == Sorted(DOMAIN existing \ DOMAIN requirements, Alphabet)
    IN  [k \in DOMAIN ids |-> existing[ids[k]]]

Counts(rows) ==
    [s \in AllowedStatuses |-> Cardinality({k \in DOMAIN rows : rows[k].status = s})]

Accepted(rows) ==
    LET places == InOrder({k \in DOMAIN rows : rows[k].status = "accepted_exception"}, <)
    IN  [n \in DOMAIN places |-> rows[places[n]]]

\* An accepted exception is rendered in its domain and once more.
Render(requirements, existing) ==
    LET rows == Rows(requirements, existing)
    IN  [ counts |-> Counts(rows), domain |-> Lines(rows),
          orphans |-> Lines(Orphaned(requirements, existing)),
          accepted |-> Lines(Accepted(rows)) ]

\* Faulty variant: the empty marker passes for an evidence path.
ValidUnlessBlank(row) ==
    /\ row.status \in AllowedStatuses
    /\ ~(row.status = "tested" /\ row.evidence = <<>>)

Valid(row) ==
    /\ row.status \in AllowedStatuses
    /\ ~(row.status = "tested" /\ row.evidence \in {<<>>, Empty})

-----------------------------------------------------------------------------
(* main.                                                                   *)

Init ==
    /\ catalogue = {}
    /\ matrix = Blank
    /\ job = NoJob
    /\ owed = {}
    /\ hand = [id \in {} |-> id]
    /\ settled = FALSE
    /\ edits = [catalogue |-> 0, matrix |-> 0]

Catalogued == {line.id : line \in catalogue}
TextOf(id) == (CHOOSE line \in catalogue : line.id = id).text

\* An id twice, or none at all, ends the run in parse_requirement_ids.
Readable == catalogue # {} /\ \A a, b \in catalogue : a.id = b.id => a = b

Start(check) ==
    /\ job = NoJob
    /\ job' = IF ~Readable THEN NoJob
              ELSE [ at |-> "catalogue", check |-> check, touched |-> FALSE,
                     requirements |-> [id \in Catalogued |-> TextOf(id)] ]
    /\ UNCHANGED <<catalogue, matrix, owed, hand, settled, edits>>

\* parse_existing_matrix, sync, the checks of every row, and render.
ReadMatrix ==
    LET existing == Parse(matrix)
        rows == Rows(job.requirements, existing)
    IN  /\ job.at = "catalogue"
        /\ job' = IF \E k \in DOMAIN rows : ~Valid(rows[k]) THEN NoJob
                  ELSE [ at |-> "rendered", check |-> job.check,
                         touched |-> job.touched,
                         rendered |-> Render(job.requirements, existing) ]
        /\ UNCHANGED <<catalogue, matrix, owed, hand, settled, edits>>

\* --check: exit 0 if the file, as it is now, is the rendered one.
Compare ==
    /\ job.at = "rendered" /\ job.check
    /\ job' = NoJob
    /\ settled' = (settled \/ (job.rendered = matrix /\ ~job.touched))
    /\ UNCHANGED <<catalogue, matrix, owed, hand, edits>>

\* write_text opens the file for writing ...
Truncate ==
    /\ job.at = "rendered" /\ ~job.check
    /\ matrix' = Blank
    /\ job' = [job EXCEPT !.at = "truncated"]
    /\ settled' = FALSE
    /\ UNCHANGED <<catalogue, owed, hand, edits>>

\* ... and writes it.
Write ==
    /\ job.at = "truncated"
    /\ matrix' = job.rendered
    /\ owed' = owed \cup DOMAIN Parse(job.rendered)
    /\ settled' = ~job.touched
    /\ job' = NoJob
    /\ UNCHANGED <<catalogue, hand, edits>>

\* A kill takes what the file had with it, if it was open for writing.
Kill ==
    /\ job # NoJob
    /\ IF job.at = "truncated"
       THEN owed' = {} /\ hand' = [id \in {} |-> id]
       ELSE UNCHANGED <<owed, hand>>
    /\ job' = NoJob
    /\ UNCHANGED <<catalogue, matrix, settled, edits>>

-----------------------------------------------------------------------------
(* The people who edit the two files.                                      *)

Touched == IF job = NoJob THEN job ELSE [job EXCEPT !.touched = TRUE]

Recatalogue(lines) ==
    /\ edits.catalogue < MaxCatalogued
    /\ edits' = [edits EXCEPT !.catalogue = @ + 1]
    /\ catalogue' = lines
    /\ settled' = FALSE
    /\ job' = Touched
    /\ UNCHANGED <<matrix, owed, hand>>

Add(line) == line \notin catalogue /\ Recatalogue(catalogue \cup {line})
Withdraw(line) == line \in catalogue /\ Recatalogue(catalogue \ {line})

\* The places of the rows in the tables of the file.
Places == {place \in {"domain", "orphans", "accepted"} \X (1..Len(Tables(matrix))) :
              place[2] <= Len(matrix[place[1]])}
ListedTwice(id) == \E p, q \in Places : p # q /\ matrix[p[1]][p[2]].id = id
                                             /\ matrix[q[1]][q[2]].id = id

\* A person edits one line.  The edit is lost if a pipe in it is not escaped,
\* or if a run has read the matrix and is about to overwrite it.
Edit(place, h) ==
    LET id == matrix[place[1]][place[2]].id
        lost == Broken(h) \/ (job.at = "rendered" /\ ~job.check)
        value == [ evidence |-> RowOf(h).evidence, status |-> h.status,
                   notes |-> RowOf(h).notes, twice |-> ListedTwice(id) ]
    IN  /\ edits.matrix < MaxEdits
        /\ edits' = [edits EXCEPT !.matrix = @ + 1]
        /\ matrix' = [matrix EXCEPT ![place[1]][place[2]] =
                        [@ EXCEPT !.evidence = h.evidence, !.status = h.status,
                                  !.notes = h.notes]]
        /\ hand' = [i \in (DOMAIN hand \cup {id}) \ (IF lost THEN {id} ELSE {}) |->
                        IF i = id THEN value ELSE hand[i]]
        /\ owed' = IF Broken(h) THEN owed \ {id} ELSE owed
        /\ settled' = FALSE
        /\ job' = Touched
        /\ UNCHANGED catalogue

Next ==
    \/ \E check \in BOOLEAN : Start(check)
    \/ ReadMatrix
    \/ Compare
    \/ Truncate
    \/ Write
    \/ Kill
    \/ \E id \in Ids, text \in Texts :
          Add([id |-> id, text |-> text]) \/ Withdraw([id |-> id, text |-> text])
    \/ \E place \in Places, h \in Hands : Edit(place, h)

Spec == Init /\ [][Next]_vars

-----------------------------------------------------------------------------
(* Properties.                                                             *)

Ascending(lines, domains) ==
    \A j, k \in DOMAIN lines : j < k => Before(lines[j].id, lines[k].id, domains)

\* The tables of the matrix are in the order of DOMAIN_ORDER, the orphaned rows
\* in that of their names, each id once in each, whoever edited what.
MatrixTypeOK ==
    /\ \A line \in catalogue : line.id \in Ids /\ line.text \in Texts
    /\ Ascending(matrix.domain, DomainOrder)
    /\ Ascending(matrix.orphans, Alphabet)
    /\ Ascending(matrix.accepted, DomainOrder)
    /\ \A k \in DOMAIN Tables(matrix) : Tables(matrix)[k].requirement \in Texts
    /\ owed \subseteq Ids /\ DOMAIN hand \subseteq Ids
    /\ job.at \in {"idle", "catalogue", "rendered", "truncated"}
    /\ settled \in BOOLEAN

\* "An ID that has disappeared from requirement-ids.md is never deleted
\* silently": an id once written is listed after every later run, unless a
\* person broke its row with a pipe or a kill emptied the file.  Runs do not
\* overlap.
NeverDeleted ==
    job.at # "truncated" => owed \subseteq {Tables(matrix)[k].id : k \in DOMAIN Tables(matrix)}

\* What a person put into a row that was listed once is what a reader finds
\* there, after any runs that do not overlap, and after the id was withdrawn and
\* restored.  An edit is excepted when a pipe in it is not escaped, when it was
\* saved into a run about to overwrite the file, and when a kill emptied it.
HandEditsStand ==
    job.at # "truncated" =>
        \A id \in DOMAIN hand :
            ~hand[id].twice =>
                /\ id \in DOMAIN Parse(matrix)
                /\ \A column \in {"evidence", "status", "notes"} :
                      Parse(matrix)[id][column] = hand[id][column]

\* A run right after a run that ended well has nothing to change: what is
\* rendered is parsed back as what was rendered.
Idempotent ==
    settled => matrix = Render([id \in Catalogued |-> TextOf(id)], Parse(matrix))

\* The gate is honest about the catalogue: after a write, or an exit 0 of
\* --check, that no edit overlapped, every catalogued id has exactly one row in
\* the tables of the domains, with its text, and none of these rows claims a test
\* without evidence.  Orphaned rows are not among them.
GateIsHonest ==
    settled =>
        /\ {matrix.domain[k].id : k \in DOMAIN matrix.domain} = Catalogued
        /\ \A k \in DOMAIN matrix.domain :
              /\ matrix.domain[k].requirement = TextOf(matrix.domain[k].id)
              /\ matrix.domain[k].status = "tested" =>
                    RowOf(matrix.domain[k]).evidence \notin {<<>>, Empty}

\* "Rows that already exist keep every value a human or an earlier phase put
\* in them", also of a row that is listed twice: the last run did not overwrite
\* the last edit.
EveryHandEditStands ==
    job.at # "truncated" =>
        \A id \in DOMAIN hand :
            /\ id \in DOMAIN Parse(matrix)
            /\ job = NoJob /\ settled =>
                  \A column \in {"evidence", "status", "notes"} :
                      Parse(matrix)[id][column] = hand[id][column]

=============================================================================
