---------------------------- MODULE MCAutocomplete ----------------------------
(***************************************************************************)
(* Requests of a user who types, accepts what was suggested, and goes back.*)
(***************************************************************************)
EXTENDS Autocomplete, TLC

CONSTANTS r1, r2, a, b

TwoRequests == [r \in {r1, r2} |-> IF r = r1 THEN {<<a>>} ELSE {<<a, b>>, <<>>}]

\* In a pattern a is '_' and b is '%'. The prefix of the prompt is what stands before the
\* cursor, or has an a put before it.
Wild == [c \in {a, b} |-> IF c = a THEN {a, b} ELSE {c}]
Texts == [p \in {<<>>, <<a>>, <<a, b>>} |-> IF p = <<a, b>> THEN {<<b>>} ELSE {p}]

=============================================================================
