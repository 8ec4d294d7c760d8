---------------------------- MODULE VersionOrder ----------------------------
(***************************************************************************)
(* The version handling of create_bwc_indexes.py: parse_version, the       *)
(* Python comparison `parse_version(a) < parse_version(b)` that main()     *)
(* uses to skip versions older than 2.3.0, and the decimal formatting that *)
(* turns a version number into the string the script is given.            *)
(*                                                                         *)
(* A string is a sequence of Unicode code points, as Python compares it:   *)
(* str < str is lexicographic on code points, list < list is lexicographic *)
(* on elements.  No RECURSIVE operator: the decimal conversion is a        *)
(* recursive function, so the module can be reasoned about with TLAPS.     *)
(***************************************************************************)
EXTENDS Naturals, Sequences, FiniteSets

\* Code points of the characters the version strings are made of.
Dot == 46
Dash == 45
Zero == 48
UpperA == 65
UpperZ == 90

\* The separators of re.split('[.-]', version).
IsSep(c) == c \in {Dot, Dash}

\* The qualifier that parse_version appends to a three-part version: 'GA'.
GA == <<71, 65>>

\* The lowest version that is not skipped: parse_version('2.3.0') in main().
MinVersion == <<Zero + 2, Dot, Zero + 3, Dot, Zero + 0>>

(***************************************************************************)
(* Decimal formatting of a natural number ('%d' / str(n)): the digits,     *)
(* most significant first.                                                 *)
(***************************************************************************)
Decimal[n \in Nat] ==
    IF n < 10 THEN <<Zero + n>> ELSE Decimal[n \div 10] \o <<Zero + (n % 10)>>

\* The string '%d.%d.%d' or '%d.%d.%d-%s' of a version record, the form the
\* script is given on its command line and finds in the archive names.
VersionString(t) ==
    Decimal[t.major] \o <<Dot>> \o Decimal[t.minor] \o <<Dot>> \o Decimal[t.patch]
        \o (IF t.qual = <<>> THEN <<>> ELSE <<Dash>> \o t.qual)

(***************************************************************************)
(* re.split('[.-]', s): the pieces between consecutive separators, an      *)
(* empty piece where two separators touch.  Cut(s, k) is the position of   *)
(* the k-th separator, with 0 and Len(s)+1 standing for the two ends.      *)
(***************************************************************************)
SepPositions(s) == {i \in 1..Len(s) : IsSep(s[i])}

NumPieces(s) == Cardinality(SepPositions(s)) + 1

Cut(s, k) ==
    IF k = 0 THEN 0
    ELSE IF k = NumPieces(s) THEN Len(s) + 1
    ELSE CHOOSE p \in SepPositions(s) :
            Cardinality({q \in SepPositions(s) : q <= p}) = k

Split(s) == [k \in 1..NumPieces(s) |-> SubSeq(s, Cut(s, k - 1) + 1, Cut(s, k) - 1)]

\* s.lower() on the ASCII letters a version string can hold.
Lower(s) == [i \in DOMAIN s |-> IF s[i] \in UpperA..UpperZ THEN s[i] + 32 ELSE s[i]]

(***************************************************************************)
(* parse_version(version): split, append 'GA' to a three-part version,     *)
(* lower-case every part.  ParseOK is its `assert len(splitted) == 4`.     *)
(***************************************************************************)
Padded(s) == IF Len(Split(s)) = 3 THEN Append(Split(s), GA) ELSE Split(s)

parse_version(s) == [i \in DOMAIN Padded(s) |-> Lower(Padded(s)[i])]

ParseOK(s) == Len(parse_version(s)) = 4

(***************************************************************************)
(* Python's ordering of sequences: a < b when a is a proper prefix of b,   *)
(* or at the first position where they differ a's element is smaller.      *)
(* Less is the ordering of the elements.                                   *)
(***************************************************************************)
SeqLess(a, b, Less(_, _)) ==
    \/ /\ Len(a) < Len(b)
       /\ a = SubSeq(b, 1, Len(a))
    \/ \E i \in 1..Len(a) :
          /\ i <= Len(b)
          /\ SubSeq(a, 1, i - 1) = SubSeq(b, 1, i - 1)
          /\ Less(a[i], b[i])

NatLess(x, y) == x < y

\* Variant: the first-difference case stops one position short of b's end.
StrLessOffByOne(a, b) ==
    \/ /\ Len(a) < Len(b)
       /\ a = SubSeq(b, 1, Len(a))
    \/ \E i \in 1..Len(a) :
          /\ i < Len(b)
          /\ SubSeq(a, 1, i - 1) = SubSeq(b, 1, i - 1)
          /\ a[i] < b[i]

\* str < str: code point by code point.
StrLess(a, b) == SeqLess(a, b, NatLess)

\* list < list, the comparison main() applies to two parse_version results.
VersionLess(a, b) == SeqLess(a, b, StrLess)

\* main(): `if parse_version(version) < parse_version('2.3.0'): continue`.
Skipped(s) == VersionLess(parse_version(s), parse_version(MinVersion))
=============================================================================
