------------------------------ MODULE MCEngine ------------------------------
(***************************************************************************)
(* Small instances of Engine for TLC.                                      *)
(***************************************************************************)
EXTENDS Engine, TLC

CONSTANTS s1, s2, s3, la, lb

\* Two streams on lane la, one on lane lb.
TwoAndOne == (s1 :> la) @@ (s2 :> la) @@ (s3 :> lb)

\* One stream on each lane.
OneEach == (s1 :> la) @@ (s2 :> lb)

\* Blocks of two and of one unit; one block of two.
TwoOne == <<2, 1>>
Two == <<2>>

\* The rates to be measured: 1 makes any attempt slow, 4 makes none.
SlowOrFast == [l \in Lanes |-> {1, 4}]
AllSlow == [l \in Lanes |-> {1}]

Symmetric == Permutations({s1, s2})

=============================================================================
