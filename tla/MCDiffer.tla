------------------------------ MODULE MCDiffer ------------------------------
(***************************************************************************)
(* Two texts of one to four lines, of three kinds.                         *)
(***************************************************************************)
EXTENDS Differ

MCBuffers == UNION {[1 .. n -> {"a", "b", "c"}] : n \in 1 .. 4}
=============================================================================
