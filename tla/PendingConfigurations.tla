----------------------- MODULE PendingConfigurations -----------------------
(***************************************************************************)
(* What a ConfigurationStack promises to the parsers that search with it.  *)
(*                                                                         *)
(* A configuration is a parse stack together with the token it stands on.  *)
(* The promise has two halves: a configuration that was pushed once is     *)
(* recognised for ever (`visited'), and the conflict alternatives still to *)
(* be tried come back in last-in first-out order, each one once and with   *)
(* the stack that was pushed (`pending').  Nothing is said here of state   *)
(* trees, hash tables or pointers.                                         *)
(***************************************************************************)
EXTENDS Alternatives

CONSTANTS
  Stacks,            \* the parse stacks the client may hold
  Curtoks,           \* the token indices the client may stand on
  ConflictIndices,   \* where the second alternative of a conflict row is
  ActionLengths      \* the sizes the action log may have

VARIABLES visited, pending, answer, restored

vars == <<visited, pending, answer, restored>>

-----------------------------------------------------------------------------
NoAnswer == [op |-> "none"]

Init ==
  /\ visited = {}
  /\ pending = <<>>
  /\ answer = NoAnswer
  /\ restored = <<>>

(* The client makes its next call: the last answer is used up.             *)
Begin ==
  /\ answer' = NoAnswer
  /\ restored' = <<>>
  /\ UNCHANGED <<visited, pending>>

Find(s, t) ==
  /\ answer = NoAnswer
  /\ answer' = [op |-> IF <<s, t>> \in visited THEN "found" ELSE "new",
                stack |-> s, curtok |-> t]
  /\ UNCHANGED <<visited, pending, restored>>

(* Only a configuration that was never pushed before is pushed.            *)
Push(s, t, ci, al) ==
  /\ answer = NoAnswer
  /\ <<s, t>> \notin visited
  /\ visited' = visited \cup {<<s, t>>}
  /\ pending' = Append(pending, Entry(s, t, ci, al))
  /\ answer' = [op |-> "pushed"]
  /\ UNCHANGED restored

Pop ==
  /\ restored' = <<>>
  /\ IF pending = <<>>
     THEN /\ answer' = [op |-> "empty"]
          /\ UNCHANGED pending
     ELSE /\ answer' = [op |-> "popped", act |-> NextAct(pending),
                        stack |-> Last(pending).stack,
                        curtok |-> Last(pending).curtok,
                        action_length |-> Last(pending).action_length]
          /\ pending' = AfterPop(pending)
  /\ UNCHANGED visited

(* The client takes the popped stack as its own.                           *)
Restore ==
  /\ answer.op = "popped"
  /\ restored = <<>>
  /\ restored' = answer.stack
  /\ UNCHANGED <<visited, pending, answer>>

(* top: the next alternative is shown and stays where it is.               *)
Peek ==
  /\ restored' = <<>>
  /\ answer' = IF pending = <<>> THEN [op |-> "empty"]
               ELSE [op |-> "peeked", act |-> NextAct(pending)]
  /\ UNCHANGED <<visited, pending>>

Next ==
  \/ Begin
  \/ \E s \in Stacks, t \in Curtoks : Find(s, t)
  \/ \E s \in Stacks, t \in Curtoks, ci \in ConflictIndices, al \in ActionLengths :
       Push(s, t, ci, al)
  \/ Pop
  \/ Restore
  \/ Peek

Spec == Init /\ [][Next]_vars
=============================================================================
