----------------------------- MODULE Identifiers -----------------------------
(***************************************************************************)
(* protocol/identifiers.py: session-scoped identifiers are a prefix and an *)
(* ordinal.  An identifier is the record of its prefix and of its decimal  *)
(* digits, zero padded to a width that longer ordinals outgrow.            *)
(*                                                                         *)
(* The radix (10) and the widths (6, for streams 4) are parameters, so     *)
(* that small instances reach the ordinals that outgrow the padding.       *)
(***************************************************************************)
EXTENDS Integers, Sequences

CONSTANTS Radix,       \* of the digits
          OrdinalPad,  \* least digits of an ordinal
          StreamPad    \* least digits of a stream ordinal

ASSUME IdentifiersAssumption ==
    /\ Radix \in Nat /\ Radix >= 2
    /\ OrdinalPad \in Nat \ {0}
    /\ StreamPad \in Nat \ {0}

Prefix == {"stream-", "utt-", "seg-", "spk-turn-", "speaker-"}

\* The digits of an ordinal, most significant first, none of them padding.
Digits(ordinal) ==
    LET digits[n \in Nat] ==
            IF n < Radix THEN <<n>> ELSE Append(digits[n \div Radix], n % Radix)
    IN  digits[ordinal]

\* The format f"{ordinal:0{width}d}" widens past its padding, it never wraps.
Padded(digits, width) ==
    [k \in 1..(IF Len(digits) < width THEN width - Len(digits) ELSE 0) |-> 0]
        \o digits

Pad(prefix) == IF prefix = "stream-" THEN StreamPad ELSE OrdinalPad

\* Faulty variant: the ordinal as it is, without its padding.
FormatBare(prefix, ordinal) == [prefix |-> prefix, digits |-> Digits(ordinal)]

\* Section 15.1 writes speakers unpadded.
Format(prefix, ordinal) ==
    [ prefix |-> prefix,
      digits |-> IF prefix = "speaker-" THEN Digits(ordinal)
                 ELSE Padded(Digits(ordinal), Pad(prefix)) ]

\* int() of the digits that the pattern of the prefix matches.
ParseOrdinal(identifier) ==
    LET digits == identifier.digits
        value[k \in 0..Len(digits)] ==
            IF k = 0 THEN 0 ELSE value[k - 1] * Radix + digits[k]
    IN  value[Len(digits)]

\* Faulty variant: the ordinal wraps at the width of its padding.
AllocateWrapping(prefix, next) ==
    Format(prefix, IF prefix = "speaker-" THEN next + 1
                   ELSE next % Radix ^ Pad(prefix))

\* allocate() of the allocator that has issued `next' identifiers so far:
\* ordinals count from 0, speakers from 1.
Allocate(prefix, next) ==
    Format(prefix, IF prefix = "speaker-" THEN next + 1 ELSE next)

\* Python compares strings code by code, and a proper prefix is the smaller.
LexLess(d, e) ==
    \/ \E k \in DOMAIN d \cap DOMAIN e :
          /\ d[k] < e[k]
          /\ \A j \in 1..(k - 1) : d[j] = e[j]
    \/ /\ Len(d) < Len(e)
       /\ \A k \in DOMAIN d : d[k] = e[k]

=============================================================================
