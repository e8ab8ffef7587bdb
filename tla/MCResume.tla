------------------------------ MODULE MCResume ------------------------------
(* Files of a few bytes, in builds whose sizes differ or do not.           *)
EXTENDS Resume, TLC

\* Two builds of one size and a shorter one; one build.
SomeAlike == (1 :> 3) @@ (2 :> 3) @@ (3 :> 2)
OnlyOne == 1 :> 4

=============================================================================
