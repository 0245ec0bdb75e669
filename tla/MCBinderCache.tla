--------------------------- MODULE MCBinderCache ---------------------------
(* Instances of BinderCache for TLC. *)
EXTENDS BinderCache

CONSTANTS a, b, a1, a2, b1, n1, n2

(* Two incarnations of pod a and one of pod b. *)
MCNameOf == [u \in {a1, a2, b1} |-> IF u = b1 THEN b ELSE a]
(* Two incarnations of pod a. *)
MCNameOfOne == [u \in {a1, a2} |-> a]
(* One incarnation each of pods a and b. *)
MCNameOfTwo == [u \in {a1, b1} |-> IF u = b1 THEN b ELSE a]
=============================================================================
