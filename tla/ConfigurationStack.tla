------------------------- MODULE ConfigurationStack -------------------------
(***************************************************************************)
(* The ConfigurationStack of the backtracking parsers, pointer by pointer: *)
(* the tree of states that shares the pushed stacks (StateElement), the    *)
(* hash table of all configurations ever pushed (ConfigurationElement) and *)
(* the stack of the configurations that still have an alternative to try.  *)
(*                                                                         *)
(* One action is one iteration of a loop of the code.  Pointers are        *)
(* positions in the pools, allocated in order, and NULL is 0.  The arrays  *)
(* of the code start at 0 and the sequences here at 1, so stack_top + 1 is *)
(* Len(stack).  The client is every parser at once: it looks a             *)
(* configuration up, pushes it only if it is new, pops, and restores the   *)
(* popped stack, in any order that respects that protocol.                 *)
(***************************************************************************)
EXTENDS Integers, Sequences, SequencesExt

CONSTANTS
  baseAction,        \* conflict rows, each ended by a 0
  START_STATE,       \* the bottom of every parse stack
  TABLE_SIZE,        \* number of hash buckets (1021 in the code)
  Stacks,            \* the parse stacks the client may hold
  Curtoks,           \* the token indices the client may stand on
  ConflictIndices,   \* where the second alternative of a conflict row is
  ActionLengths,     \* the sizes the action log may have
  MaxConfigurations  \* bound: how many configurations are pushed

ASSUME StacksAssumption == Stacks \subseteq Seq(Int) \ {<<>>}

ASSUME CurtoksAssumption == Curtoks \subseteq Nat

ASSUME TableAssumption == TABLE_SIZE \in Nat \ {0} /\ START_STATE \in Int

(* A row of alternatives ends with a 0 inside the table, and what follows  *)
(* the first alternative of a conflict is at least one other alternative.  *)
ASSUME ConflictAssumption ==
  /\ baseAction \in [DOMAIN baseAction -> Int] /\ DOMAIN baseAction \subseteq Nat
  /\ \A i \in DOMAIN baseAction : baseAction[i] # 0 => i + 1 \in DOMAIN baseAction
  /\ ConflictIndices \subseteq DOMAIN baseAction
  /\ \A ci \in ConflictIndices : baseAction[ci] # 0

ASSUME LengthAssumption == ActionLengths \subseteq Nat /\ MaxConfigurations \in Nat

NULL == 0

VARIABLES
  number, parent, children, siblings,  \* the fields of state_pool, node by node
  pool,                 \* configuration_element_pool
  table,                \* the hash buckets: first configuration of each
  configuration_stack,  \* configurations with an alternative to try
  pc,                   \* where the current call is
  op, stack, curtok,    \* which call, and its arguments
  root, p, index,       \* the locals of the walk over the tree
  cursor,               \* the configuration the call is looking at
  buffer,               \* the client's stateStack while it is restored
  answer,               \* what the last call returned
  path                  \* history: the stack each node stood for when made

tree == <<number, parent, children, siblings, path>>
configurations == <<pool, table, configuration_stack>>
arguments == <<op, stack, curtok>>
walk == <<root, p, index>>

vars == <<tree, configurations, arguments, walk, pc, cursor, buffer, answer>>

-----------------------------------------------------------------------------
HashAddress(t) == t % TABLE_SIZE

(* findOrInsertStack is called on the root with the whole stack.           *)
StartWalk ==
  /\ pc' = "search"
  /\ root' = 1
  /\ p' = 1
  /\ index' = 1

(* A call returns to the client and its locals are gone.                   *)
Return(result) ==
  /\ pc' = "idle"
  /\ root' = NULL /\ p' = NULL /\ index' = 0
  /\ answer' = result

Init ==
  /\ number = <<START_STATE>>
  /\ parent = <<NULL>>
  /\ children = <<NULL>>
  /\ siblings = <<NULL>>
  /\ path = <<<<START_STATE>>>>
  /\ pool = <<>>
  /\ table = [h \in 0 .. TABLE_SIZE - 1 |-> NULL]
  /\ configuration_stack = <<>>
  /\ pc = "idle"
  /\ op = "none" /\ stack = <<>> /\ curtok = 0
  /\ root = NULL /\ p = NULL /\ index = 0
  /\ cursor = NULL
  /\ buffer = <<>>
  /\ answer = "none"

-----------------------------------------------------------------------------
(* The calls of the client.                                                *)

FindConfiguration(s, t) ==
  /\ pc = "idle"
  /\ op' = "find" /\ stack' = s /\ curtok' = t
  /\ StartWalk
  /\ answer' = "none" /\ cursor' = NULL /\ buffer' = <<>>
  /\ UNCHANGED <<tree, configurations>>

(* push links the new element into its bucket before it looks for the      *)
(* stack in the tree.                                                      *)
Push(ci, al) ==
  /\ pc = "idle" /\ answer = "new"
  /\ Len(pool) < MaxConfigurations
  /\ pool' = Append(pool, [next |-> table[HashAddress(curtok)],
                           last_element |-> NULL, stack_top |-> Len(stack),
                           conflict_index |-> ci, curtok |-> curtok,
                           action_length |-> al, act |-> 0])
  /\ table' = [table EXCEPT ![HashAddress(curtok)] = Len(pool) + 1]
  /\ op' = "push"
  /\ StartWalk
  /\ answer' = "none"
  /\ UNCHANGED <<tree, configuration_stack, stack, curtok, cursor, buffer>>

(* The element stays in the hash table; it leaves the stack when the       *)
(* alternative it yields is its last.                                      *)
DropWhenExhausted(ci) ==
  IF baseAction[ci] = 0 THEN Front(configuration_stack) ELSE configuration_stack

Pop ==
  /\ pc = "idle"
  /\ op' = "pop" /\ stack' = <<>> /\ curtok' = 0
  /\ IF configuration_stack = <<>>
     THEN /\ answer' = "empty" /\ cursor' = NULL /\ buffer' = <<>>
          /\ UNCHANGED <<pool, configuration_stack, pc, walk>>
     ELSE LET c == Last(configuration_stack)
              ci == pool[c].conflict_index
          IN  /\ pool' = [pool EXCEPT ![c].act = baseAction[ci],
                                      ![c].conflict_index = ci + 1]
              /\ configuration_stack' = DropWhenExhausted(ci + 1)
              /\ pc' = "retrieve"
              /\ cursor' = c
              /\ p' = pool[c].last_element
              /\ index' = pool[c].stack_top
              /\ buffer' = [i \in 1 .. pool[c].stack_top |-> 0]
              /\ answer' = "none"
              /\ UNCHANGED root
  /\ UNCHANGED <<tree, table>>

Top ==
  /\ pc = "idle"
  /\ op' = "top" /\ stack' = <<>> /\ curtok' = 0 /\ buffer' = <<>>
  /\ IF configuration_stack = <<>>
     THEN /\ answer' = "empty" /\ cursor' = NULL
          /\ UNCHANGED pool
     ELSE LET c == Last(configuration_stack)
          IN  /\ pool' = [pool EXCEPT ![c].act = baseAction[pool[c].conflict_index]]
              /\ cursor' = c
              /\ answer' = "peeked"
  /\ UNCHANGED <<tree, table, configuration_stack, pc, walk>>

-----------------------------------------------------------------------------
(* findOrInsertStack and makeStateList.                                    *)

NextSibling ==
  /\ pc = "search" /\ p # NULL /\ number[p] # stack[index]
  /\ p' = siblings[p]
  /\ UNCHANGED <<tree, configurations, arguments, root, index, pc, cursor, buffer, answer>>

Matches == pc = "search" /\ p # NULL /\ number[p] = stack[index]

LastMatches ==
  /\ Matches /\ index = Len(stack)
  /\ pc' = "located"
  /\ UNCHANGED <<tree, configurations, arguments, walk, cursor, buffer, answer>>

(* Mutant: the first child is stepped over.                                *)
DescendToSecond ==
  /\ Matches /\ index < Len(stack) /\ children[p] # NULL
  /\ root' = children[p]
  /\ p' = siblings[children[p]]
  /\ index' = index + 1
  /\ UNCHANGED <<tree, configurations, arguments, pc, cursor, buffer, answer>>

Descend ==
  /\ Matches /\ index < Len(stack) /\ children[p] # NULL
  /\ root' = children[p]
  /\ p' = children[p]
  /\ index' = index + 1
  /\ UNCHANGED <<tree, configurations, arguments, pc, cursor, buffer, answer>>

StartList ==
  /\ Matches /\ index < Len(stack) /\ children[p] = NULL
  /\ pc' = "make"
  /\ index' = index + 1
  /\ UNCHANGED <<tree, configurations, arguments, root, p, cursor, buffer, answer>>

AfterNode(i) == IF i = Len(stack) THEN "located" ELSE "make"

(* A node for the current state, with this parent, just behind root.       *)
InsertNode(up, behind) ==
  /\ pc = "search" /\ p = NULL
  /\ LET node == Len(number) + 1
     IN  /\ number' = Append(number, stack[index])
         /\ parent' = Append(parent, up)
         /\ children' = Append(children, NULL)
         /\ siblings' = Append([siblings EXCEPT ![root] = node], behind)
         /\ p' = node
  /\ path' = Append(path, SubSeq(stack, 1, index))
  /\ index' = index + 1
  /\ pc' = AfterNode(index)
  /\ UNCHANGED <<configurations, arguments, root, cursor, buffer, answer>>

(* Mutant: the new node closes a cycle.                                    *)
InsertCyclic == InsertNode(parent[root], root)

(* No sibling carries the state: a node goes in just behind the first one. *)
InsertSibling == InsertNode(parent[root], siblings[root])

MakeState ==
  /\ pc = "make"
  /\ LET state == Len(number) + 1
     IN  /\ number' = Append(number, stack[index])
         /\ parent' = Append(parent, p)
         /\ children' = Append([children EXCEPT ![p] = state], NULL)
         /\ siblings' = Append(siblings, NULL)
         /\ p' = state
  /\ path' = Append(path, SubSeq(stack, 1, index))
  /\ index' = index + 1
  /\ pc' = AfterNode(index)
  /\ UNCHANGED <<configurations, arguments, root, cursor, buffer, answer>>

-----------------------------------------------------------------------------
(* The rest of findConfiguration: the bucket is searched for the node.     *)

StartChain ==
  /\ pc = "located" /\ op = "find"
  /\ pc' = "chain"
  /\ cursor' = table[HashAddress(curtok)]
  /\ UNCHANGED <<tree, configurations, arguments, walk, buffer, answer>>

SameConfiguration(c) == pool[c].curtok = curtok /\ pool[c].last_element = p

ChainNext ==
  /\ pc = "chain" /\ cursor # NULL /\ ~SameConfiguration(cursor)
  /\ cursor' = pool[cursor].next
  /\ UNCHANGED <<tree, configurations, arguments, walk, pc, buffer, answer>>

FindReturns ==
  /\ pc = "chain"
  /\ \/ cursor = NULL /\ Return("new")
     \/ cursor # NULL /\ SameConfiguration(cursor) /\ Return("found")
  /\ cursor' = NULL
  /\ UNCHANGED <<tree, configurations, arguments, buffer>>

(* Mutant: the new element goes below the older ones.                      *)
PushAtBottom ==
  /\ pc = "located" /\ op = "push"
  /\ pool' = [pool EXCEPT ![Len(pool)].last_element = p]
  /\ configuration_stack' = <<Len(pool)>> \o configuration_stack
  /\ Return("pushed")
  /\ stack' = <<>> /\ curtok' = 0
  /\ UNCHANGED <<tree, table, op, cursor, buffer>>

(* The rest of push.                                                       *)
PushReturns ==
  /\ pc = "located" /\ op = "push"
  /\ pool' = [pool EXCEPT ![Len(pool)].last_element = p]
  /\ configuration_stack' = Append(configuration_stack, Len(pool))
  /\ Return("pushed")
  /\ stack' = <<>> /\ curtok' = 0
  /\ UNCHANGED <<tree, table, op, cursor, buffer>>

(* Mutant: the walk does not go up.                                        *)
RetrieveStays ==
  /\ pc = "retrieve" /\ index > 0
  /\ buffer' = [buffer EXCEPT ![index] = number[p]]
  /\ p' = p
  /\ index' = index - 1
  /\ UNCHANGED <<tree, configurations, arguments, root, pc, cursor, answer>>

(* retrieveStack of the popped configuration, from the top down.           *)
RetrieveState ==
  /\ pc = "retrieve" /\ index > 0
  /\ buffer' = [buffer EXCEPT ![index] = number[p]]
  /\ p' = parent[p]
  /\ index' = index - 1
  /\ UNCHANGED <<tree, configurations, arguments, root, pc, cursor, answer>>

RetrieveReturns ==
  /\ pc = "retrieve" /\ index = 0
  /\ Return("popped")
  /\ UNCHANGED <<tree, configurations, arguments, cursor, buffer>>

-----------------------------------------------------------------------------
Work ==
  \/ NextSibling \/ LastMatches \/ Descend \/ StartList \/ InsertSibling \/ MakeState
  \/ StartChain \/ ChainNext \/ FindReturns \/ PushReturns
  \/ RetrieveState \/ RetrieveReturns

Next ==
  \/ \E s \in Stacks, t \in Curtoks : FindConfiguration(s, t)
  \/ \E ci \in ConflictIndices, al \in ActionLengths : Push(ci, al)
  \/ Pop
  \/ Top
  \/ Work

(* A call that has begun runs to its end: the code holds no lock and waits *)
(* for nothing.                                                            *)
Spec == Init /\ [][Next]_vars /\ WF_vars(Work)

-----------------------------------------------------------------------------
(* The refinement mapping: a node of the tree is the stack it stands for,  *)
(* an element that has been given its node is a configuration.             *)

StackOf(c) == path[pool[c].last_element]

visitedBar ==
  {<<StackOf(c), pool[c].curtok>> : c \in {d \in DOMAIN pool : pool[d].last_element # NULL}}

entryBar(c) == [stack |-> StackOf(c), curtok |-> pool[c].curtok,
                conflict_index |-> pool[c].conflict_index,
                action_length |-> pool[c].action_length]

pendingBar == [i \in DOMAIN configuration_stack |-> entryBar(configuration_stack[i])]

answerBar ==
  CASE pc = "retrieve" \/ answer = "popped" ->
         [op |-> "popped", act |-> pool[cursor].act, stack |-> StackOf(cursor),
          curtok |-> pool[cursor].curtok, action_length |-> pool[cursor].action_length]
    [] answer = "peeked" -> [op |-> "peeked", act |-> pool[cursor].act]
    [] answer \in {"found", "new"} -> [op |-> answer, stack |-> stack, curtok |-> curtok]
    [] OTHER -> [op |-> answer]

restoredBar == IF answer = "popped" THEN buffer ELSE <<>>

Abs == INSTANCE PendingConfigurations
         WITH visited <- visitedBar, pending <- pendingBar,
              answer <- answerBar, restored <- restoredBar

-----------------------------------------------------------------------------
Nodes == DOMAIN number

Element ==
  [next : Nat, last_element : Nat, stack_top : Nat \ {0},
   conflict_index : DOMAIN baseAction, curtok : Nat,
   action_length : ActionLengths, act : Int]

(* The pools, pointers and locals have the types the code gives them.      *)
TypeOK ==
  /\ number \in Seq(Int) /\ parent \in Seq(Nat)
  /\ children \in Seq(Nat) /\ siblings \in Seq(Nat)
  /\ path \in Seq(Seq(Int))
  /\ Len(number) > 0
  /\ Len(parent) = Len(number) /\ Len(children) = Len(number)
  /\ Len(siblings) = Len(number) /\ Len(path) = Len(number)
  /\ pool \in Seq(Element)
  /\ table \in [0 .. TABLE_SIZE - 1 -> 0 .. Len(pool)]
  /\ configuration_stack \in Seq(DOMAIN pool)
  /\ pc \in {"idle", "search", "make", "located", "chain", "retrieve"}
  /\ op \in {"none", "find", "push", "pop", "top"}
  /\ stack \in Stacks \cup {<<>>}
  /\ curtok \in Nat
  /\ root \in Nat /\ p \in Nat /\ index \in Nat
  /\ cursor \in 0 .. Len(pool)
  /\ buffer \in Seq(Int)
  /\ answer \in {"none", "new", "found", "pushed", "popped", "empty", "peeked"}

(* The tree keeps the stacks apart and whole: no two nodes stand for the   *)
(* same stack, however many stacks with common prefixes were inserted by   *)
(* findOrInsertStack and makeStateList.                                    *)
TreeFaithful ==
  \A m, n \in Nodes : path[m] = path[n] => m = n

(* findConfiguration decides: no two elements that were pushed hold the    *)
(* same stack on the same token.  The search of the parsers terminates     *)
(* because of it.                                                          *)
NoConfigurationTwice ==
  \A c, d \in DOMAIN pool :
    /\ c # d
    /\ pool[c].last_element # NULL /\ pool[d].last_element # NULL
    /\ StackOf(c) = StackOf(d)
    => pool[c].curtok # pool[d].curtok

(* When retrieveStack is done the client holds the stack that was pushed,  *)
(* whatever was inserted into the shared tree in between.                  *)
RetrievedStackIsPushedStack ==
  answer = "popped" => buffer = StackOf(cursor)

(* A configuration is on the stack exactly while it has an alternative     *)
(* left, and the stack holds the configurations in the order of the        *)
(* pushes: pop drops an element neither too early nor too late.            *)
PendingUntilExhausted ==
  /\ \A c \in DOMAIN pool :
       pool[c].last_element # NULL =>
         ((\E i \in DOMAIN configuration_stack : configuration_stack[i] = c)
            <=> baseAction[pool[c].conflict_index] # 0)
  /\ \A i, j \in DOMAIN configuration_stack :
       i < j => configuration_stack[i] < configuration_stack[j]

(* push, pop, top and findConfiguration together do what                   *)
(* PendingConfigurations promises.                                         *)
Promise == Abs!Spec

(* Every call returns: the sibling lists, the child lists and the hash     *)
(* chains that the walks follow are finite and without cycles.             *)
CallsReturn == pc # "idle" ~> pc = "idle"
=============================================================================
