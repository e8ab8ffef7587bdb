----------------------------- MODULE MCCallers -----------------------------
(* Two calls at a time, of the same program or of two.  The first caller   *)
(* is the one whose mirror may serve another file.                         *)
EXTENDS Callers, TLC

CONSTANTS c1, c2

TwoCallers == {c1, c2}
Pairs == {<<"http", "cli">>, <<"batch", "c">>}
KindsOfTwo == {[c \in TwoCallers |-> IF c = c1 THEN pair[1] ELSE pair[2]] : pair \in Pairs}

\* Two parts, in two blocks or in one.
OneOrTwo == {1 :> 0 @@ 2 :> 1, 1 :> 0 @@ 2 :> 0}

=============================================================================
