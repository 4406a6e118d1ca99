------------------------- MODULE BacktrackingParser -------------------------
(***************************************************************************)
(* BacktrackingParser::parseEntry as a whole: the search for a parse       *)
(* (BacktrackSearch), the repair of an error (ErrorTokenRecovery) and the  *)
(* replay of the log that runs the rule actions (parseActions).            *)
(***************************************************************************)
EXTENDS ErrorTokenRecovery

CONSTANT MaxErrorCounts   \* the arguments parseEntry may be called with

vars == <<searchVars, recoveryVars, replay>>

ParseInit ==
  /\ SearchInit
  /\ max_error_count \in {IF m > 0 THEN 0 ELSE m : m \in MaxErrorCounts}
  /\ ReplayInit
  /\ actionStack = <<>>
  /\ recovery_token = 0 /\ temp_stack = <<START_STATE>> /\ final_token = 0

-----------------------------------------------------------------------------
(* No error, or so it seems: the remaining tokens are added, the marker    *)
(* first and EOF last, and parseActions begins.                            *)
StartReplay ==
  /\ pc = "returned" /\ returned = 0
  /\ BeginReplay((IF initial_token = 0 THEN <<>> ELSE <<initial_token>>)
                 \o Remaining(start_token))

(* The loops of the repeated parse and of the replay ask the Monitor too.  *)
CancelLater ==
  /\ Monitored /\ pc \in {"upto", "replay"} /\ ~cancelled
  /\ cancelled' = TRUE
  /\ UNCHANGED <<stream, index, stack, action, act, curtok, error_token, locals,
                 configurations, pc, returned, recoveryVars, replay>>

ParseStep ==
  \/ Search /\ UNCHANGED <<recoveryVars, replay>>
  \/ Recover /\ UNCHANGED replay
  \/ (StartReplay \/ Replay) /\ UNCHANGED <<max_error_count, actionStack, repair>>

ParseNext ==
  \/ ParseStep
  \/ Cancel /\ UNCHANGED <<recoveryVars, replay>>
  \/ CancelLater

(* parseEntry runs on by itself; nobody has to cancel it.                  *)
ParseSpec == ParseInit /\ [][ParseNext]_vars /\ WF_vars(ParseStep)
-----------------------------------------------------------------------------
Ended == {"parsed", "bad_parse", "out_of_range", "assertion"}

(* backtrackParseUpToError keeps the log, the tokens and the top places in *)
(* step with the stack, although it knows a configuration by the number of *)
(* tokens taken and not by the token.                                      *)
UpToErrorIsConsistent ==
  pc \in {"upto", "find"} =>
    /\ StackAfter(Started, action) = stack
    /\ tokens = <<0>> \o [n \in 1 .. TokensTaken(action) + 1 |-> TokenTaken(n - 1)]
    /\ locationStack[Len(stack)] = Len(tokens)
    /\ actionStack[Len(stack)] = Len(action)

(* One alternative after the other is undone, in the search and once more  *)
(* when the search is repeated up to the error: what is left of the log,   *)
(* the tokens and the saved configurations always fits the stack.          *)
LogsBuildTheirStacks == LogBuildsStack /\ UpToErrorIsConsistent

(* The search finds the parse that plain search finds first, or the        *)
(* farthest error, and the repeated search stops on that token             *)
(* (BacktrackingParser.cpp:733: "assert(curtok == error_token)").          *)
FirstParseOrFarthestError ==
  /\ FirstParseIsFound
  /\ pc = "find" /\ ~cancelled => act = ERROR_ACTION /\ curtok = returned

(* errorRepair completes (BacktrackingParser.h:126: "When max_error is     *)
(* < 0, the number of error token recoveries is unlimited").               *)
RepairCompletes == pc # "out_of_range"

(* parse returns or throws.                                                *)
ParseEnds == <>(pc \in Ended)
=============================================================================
