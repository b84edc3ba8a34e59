---------------------------- MODULE MCMatrixSync ----------------------------
(* Requirements whose domains the matrix and the alphabet order            *)
(* differently, and what people write into their rows.                     *)
EXTENDS MatrixSync, TLC

CONSTANTS letter

TwoIds == {[domain |-> "UI", number |-> 10], [domain |-> "ASR", number |-> 2]}
ThreeIds == TwoIds \cup {[domain |-> "ASR", number |-> 10]}
UIFirst == <<"UI", "ASR">>
ByName == <<"ASR", "UI">>

Written == {letter, Pipe, Slash, Dash}

Entered(status, evidence, notes) ==
    [status |-> status, evidence |-> evidence, notes |-> notes]

\* A claim with and without evidence, a misspelt status, an exception whose
\* note has an escaped pipe after a backslash, evidence with an escaped pipe and
\* evidence with one that nobody escaped.
Entries ==
    { Entered("tested", <<letter>>, <<letter>>), Entered("tested", Empty, Empty),
      Entered("tseted", <<>>, Empty),
      Entered("accepted_exception", Empty, <<Slash, Slash, Pipe>>),
      Entered("implemented", <<Slash, Pipe>>, <<letter, Slash, Pipe>>),
      Entered("planned", <<letter, Pipe>>, Empty) }

Wordings == Permutations(Texts)

=============================================================================
