----------------------- MODULE MCConfigurationStack ------------------------
(***************************************************************************)
(* A small client of ConfigurationStack: stacks on top of the start state, *)
(* tokens that fall into one bucket so that chains collide, a conflict of  *)
(* three alternatives.                                                     *)
(***************************************************************************)
EXTENDS ConfigurationStackProofs

\* A row as the generator lays them out: a conflict of three alternatives.
MCbaseAction == 0 :> 3 @@ 1 :> 5 @@ 2 :> 4 @@ 3 :> 0

\* Three siblings, inserted in any order.
MCStacks == {<<7, 8>>, <<7, 9>>, <<7, 10, 8>>}
=============================================================================
