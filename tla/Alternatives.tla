---------------------------- MODULE Alternatives ----------------------------
(***************************************************************************)
(* The entries of a ConfigurationStack as its clients see them: a parse    *)
(* stack, the token it stands on, how long the log of actions was, and     *)
(* which alternative of the conflict row comes next.                       *)
(***************************************************************************)
EXTENDS Integers, Sequences, SequencesExt

CONSTANT baseAction   \* the table of actions: a conflict row ends with a 0

Entry(stack, curtok, conflict_index, action_length) ==
  [stack |-> stack, curtok |-> curtok, conflict_index |-> conflict_index,
   action_length |-> action_length]

(* The alternative that the top entry yields next.                         *)
NextAct(entries) == baseAction[Last(entries).conflict_index]

(* What is left of the entries once the top one has yielded it.            *)
AfterPop(entries) ==
  LET used == [Last(entries) EXCEPT !.conflict_index = @ + 1]
  IN  IF baseAction[used.conflict_index] = 0
      THEN Front(entries)
      ELSE Append(Front(entries), used)
=============================================================================
