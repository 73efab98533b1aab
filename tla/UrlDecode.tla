----------------------------- MODULE UrlDecode -----------------------------
(***************************************************************************)
(* urldecode.hh: the loop that decodes the path of a URL in place, one     *)
(* iteration per step.                                                     *)
(*                                                                         *)
(* A character is one of a few tokens.  The path is given as a sequence of *)
(* units, as HTTPParser's grammar builds it from pchar: a plain character, *)
(* a plus or a complete escape.                                            *)
(***************************************************************************)
EXTENDS Naturals, Sequences, SequencesExt

CONSTANTS
    Plain,      \* characters that stand for themselves, hexadecimal digits included
    Hex,        \* the hexadecimal digits
    MaxUnits    \* bound: length of the path in units

ASSUME TokensAssumption == {"+", "%", " "} \cap (Plain \cup Hex) = {}

VARIABLES
    units,      \* the path, as the grammar sees it; constant
    url,        \* the string being decoded
    i,          \* the iterator, as an index of url; Len(url) + 1 is end()
    status      \* "running", "done", "thrown", "crashed"

vars == <<units, url, i, status>>

\* The character an escape stands for, which may itself be a percent sign.
escape(h, l)  == <<"%", h, l>>
decoded(h, l) == IF h = "2" /\ l = "5" THEN "%" ELSE h \o l

PlainUnits  == {<<c>> : c \in Plain}
EscapeUnits == {escape(h, l) : h, l \in Hex}
Units       == PlainUnits \cup EscapeUnits \cup {<<"+">>}

Init ==
    /\ units \in BoundedSeq(Units, MaxUnits)
    /\ url = FlattenSeq(units)
    /\ i = 1 /\ status = "running"

-----------------------------------------------------------------------------
Goes(cond) == status = "running" /\ cond /\ UNCHANGED units

finish == Goes(i = Len(url) + 1) /\ status' = "done" /\ UNCHANGED <<url, i>>

plus ==
    /\ Goes(i <= Len(url) /\ url[i] = "+")
    /\ url' = [url EXCEPT ![i] = " "]
    /\ i' = i + 1
    /\ UNCHANGED status

other ==
    /\ Goes(i <= Len(url) /\ url[i] \notin {"+", "%"})
    /\ i' = i + 1
    /\ UNCHANGED <<url, status>>

\* Are the two characters behind position i hexadecimal digits?
two_digits == i + 2 <= Len(url) /\ url[i + 1] \in Hex /\ url[i + 2] \in Hex

\* url with the escape at position i replaced by its character
replaced == SubSeq(url, 1, i - 1) \o <<decoded(url[i + 1], url[i + 2])>> \o SubSeq(url, i + 3, Len(url))

\* Mutant: the escape's last digit stays.
MutantReplaceTwo ==
    /\ Goes(i <= Len(url) /\ url[i] = "%" /\ two_digits)
    /\ url' = SubSeq(replaced, 1, i) \o SubSeq(url, i + 2, Len(url))
    /\ i' = i + 3
    /\ UNCHANGED status

\* The iterator has been moved over the digits; the string shrinks by two
\* characters, and the iterator is not moved back.  (The exceptions for other
\* than two digits have no step: see EscapesComplete.)
escaped ==
    /\ Goes(i <= Len(url) /\ url[i] = "%" /\ two_digits)
    /\ url' = replaced
    /\ i' = i + 3
    /\ UNCHANGED status

\* Past end() the loop reads and writes foreign memory and never meets end()
\* again: it leaves by the exception for something that looks like an escape, or
\* by a fault.
beyond ==
    /\ Goes(i > Len(url) + 1)
    /\ status' \in {"thrown", "crashed"} /\ UNCHANGED <<url, i>>

Next == finish \/ plus \/ other \/ escaped \/ beyond

Spec == Init /\ [][Next]_vars

-----------------------------------------------------------------------------
(* Properties. *)

\* The reference: what each unit stands for.
Meaning(unit) == IF unit = <<"+">> THEN " "
                 ELSE IF unit \in EscapeUnits THEN decoded(unit[2], unit[3]) ELSE unit[1]
Reference == [k \in DOMAIN units |-> Meaning(units[k])]

\* Every escape is followed by two plain characters at least.
Spaced ==
    \A k \in DOMAIN units : units[k] \in EscapeUnits =>
        k + 2 <= Len(units) /\ units[k + 1] \in PlainUnits /\ units[k + 2] \in PlainUnits

\* What the loop does get right: paths whose escapes are each followed by two
\* plain characters are decoded as they should be.
SpacedDecoded == Spaced =>
    /\ status \notin {"thrown", "crashed"}
    /\ status = "done" => url = Reference

\* Every percent sign the loop meets inside the string begins a complete escape
\* of the path, never one that decoding produced: the exceptions for malformed
\* escapes cannot be thrown there.
EscapesComplete == status = "running" /\ i <= Len(url) /\ url[i] = "%" => two_digits

-----------------------------------------------------------------------------
\* "This should never happen as all URL stuff we see went through the HTTP
\* parser" (urldecode.hh:25): no path that the grammar accepts makes it throw.
NeverThrows == status # "thrown"

=============================================================================
