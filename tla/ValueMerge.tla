---------------------------- MODULE ValueMerge ----------------------------
(***************************************************************************)
(* How the Spanner client puts two parts of a value together (merge of     *)
(* partialResultSetDecoder, spanner/read.go).  A string is a sequence of   *)
(* characters, a list one of values, the last and the first of which may   *)
(* be parts themselves.                                                    *)
(***************************************************************************)
EXTENDS SequencesExt

CONSTANT None \* what parts make that do not fit

isMergeable(a) == a.kind \in {"string", "list"}

RECURSIVE merge(_, _)
merge(a, b) ==
  CASE ~isMergeable(a) \/ a.kind # b.kind -> None
    [] a.kind = "string" -> [a EXCEPT !.of = @ \o b.of]
    [] OTHER ->
         IF a.of = <<>> \/ b.of = <<>> THEN IF b.of = <<>> THEN a ELSE b
         ELSE IF ~isMergeable(Last(a.of)) THEN [a EXCEPT !.of = @ \o b.of]
         ELSE LET joined == merge(Last(a.of), b.of[1])
              IN IF joined = None THEN None
                 ELSE [a EXCEPT !.of = Front(@) \o <<joined>> \o Tail(b.of)]
=============================================================================
