---------------------- MODULE ConfigurationStackProofs ----------------------
(***************************************************************************)
(* The inductive invariant of ConfigurationStack, part by part, and the    *)
(* proofs that its safety properties hold for every table, every set of    *)
(* stacks and tokens and every number of configurations.                   *)
(***************************************************************************)
EXTENDS ConfigurationStack, SequenceTheorems, TLAPS

(* A stack read off the tree: s is what a node of this depth stands for.   *)
IsPrefixOf(q, s, n) == Len(q) = n /\ n <= Len(s) /\ \A i \in 1 .. n : q[i] = s[i]

(* The node that starts its list of siblings.                              *)
First(n) == n = 1 \/ (parent[n] # NULL /\ children[parent[n]] = n)

(* A node stands for the stack of its parent with its own state on top.    *)
PathInv ==
  \A n \in Nodes :
    /\ Len(path[n]) > 0
    /\ number[n] = path[n][Len(path[n])]
    /\ parent[n] \in Nodes \cup {NULL}
    /\ IF parent[n] = NULL
       THEN Len(path[n]) = 1
       ELSE /\ Len(path[n]) = Len(path[parent[n]]) + 1
            /\ \A i \in 1 .. Len(path[parent[n]]) : path[n][i] = path[parent[n]][i]

(* The children of a node are its first child and the siblings behind it,  *)
(* newest first: whoever follows the list meets every one of them.         *)
ListInv ==
  /\ parent[1] = NULL
  /\ \A n \in Nodes :
       /\ siblings[n] # NULL => /\ siblings[n] \in Nodes
                                /\ parent[siblings[n]] = parent[n]
       /\ children[n] # NULL => children[n] \in Nodes /\ parent[children[n]] = n
       /\ children[n] = NULL => \A m \in Nodes : parent[m] # n
  /\ \A m, n \in Nodes :
       parent[m] = parent[n] /\ ~First(m) /\ (First(n) \/ m < n) => m <= siblings[n]

(* A bucket holds the elements of its address, newest first.               *)
HashInv ==
  /\ \A h \in 0 .. TABLE_SIZE - 1 :
       /\ table[h] # NULL => HashAddress(pool[table[h]].curtok) = h
       /\ \A d \in DOMAIN pool : HashAddress(pool[d].curtok) = h => d <= table[h]
  /\ \A c \in DOMAIN pool :
       /\ pool[c].next < c
       /\ pool[c].next # NULL =>
            HashAddress(pool[pool[c].next].curtok) = HashAddress(pool[c].curtok)
       /\ \A d \in DOMAIN pool :
            d < c /\ HashAddress(pool[d].curtok) = HashAddress(pool[c].curtok)
            => d <= pool[c].next

Inserting == op = "push" /\ pc \in {"search", "make", "located"}

(* Every element has its node, but for the one that push is inserting.     *)
ElementInv ==
  /\ \A c \in DOMAIN pool :
       IF pool[c].last_element = NULL
       THEN Inserting /\ c = Len(pool)
       ELSE pool[c].last_element \in Nodes /\ Len(StackOf(c)) = pool[c].stack_top
  /\ \A i \in DOMAIN configuration_stack :
       pool[configuration_stack[i]].last_element # NULL

(* No element that has its node is the configuration the client asks for.  *)
Unknown ==
  \A d \in DOMAIN pool :
    pool[d].last_element # NULL /\ pool[d].curtok = curtok => StackOf(d) # stack

PushInv ==
  /\ answer = "new" => stack \in Stacks /\ Unknown
  /\ Inserting => /\ Unknown
                  /\ Len(pool) > 0
                  /\ pool[Len(pool)].last_element = NULL
                  /\ pool[Len(pool)].stack_top = Len(stack)
                  /\ pool[Len(pool)].curtok = curtok
                  /\ baseAction[pool[Len(pool)].conflict_index] # 0

WalkInv ==
  /\ pc \in {"search", "make", "located", "chain"} =>
       stack \in Stacks /\ op \in {"find", "push"}
  /\ pc = "chain" => op = "find"

(* The walk has matched the stack below index, and has not stepped over    *)
(* the sibling that matches at index.                                      *)
SearchInv ==
  pc = "search" =>
    /\ index \in 1 .. Len(stack)
    /\ root \in Nodes /\ First(root)
    /\ p # NULL => p \in Nodes /\ parent[p] = parent[root]
    /\ IF index = 1 THEN parent[root] = NULL
       ELSE parent[root] # NULL /\ IsPrefixOf(path[parent[root]], stack, index - 1)
    /\ \A m \in Nodes :
         parent[m] = parent[root] /\ number[m] = stack[index] =>
           /\ p # NULL
           /\ m = p \/ (~First(m) /\ (First(p) \/ m < p))

(* The list is being made below a node that has no children yet.           *)
MakeInv ==
  pc = "make" =>
    /\ index \in 2 .. Len(stack)
    /\ p \in Nodes /\ children[p] = NULL
    /\ IsPrefixOf(path[p], stack, index - 1)

LocatedInv == pc \in {"located", "chain"} => p \in Nodes /\ path[p] = stack

(* The chain has not been followed past the configuration asked for.       *)
ChainInv ==
  pc = "chain" =>
    /\ cursor # NULL => HashAddress(pool[cursor].curtok) = HashAddress(curtok)
    /\ \A d \in DOMAIN pool :
         pool[d].curtok = curtok /\ StackOf(d) = stack => d <= cursor

(* What has been restored agrees with the pushed stack, and p is the node  *)
(* of what is still to be restored.                                        *)
RetrieveInv ==
  /\ pc = "retrieve" \/ answer = "popped" =>
       cursor # NULL /\ pool[cursor].last_element # NULL
  /\ pc = "retrieve" =>
       /\ op = "pop"
       /\ index \in 0 .. pool[cursor].stack_top
       /\ Len(buffer) = pool[cursor].stack_top
       /\ \A i \in index + 1 .. Len(buffer) : buffer[i] = StackOf(cursor)[i]
       /\ index > 0 => p \in Nodes /\ IsPrefixOf(path[p], StackOf(cursor), index)

AnswerInv == answer # "none" => pc = "idle"

IInv ==
  /\ TypeOK /\ PathInv /\ ListInv /\ HashInv /\ ElementInv /\ PushInv
  /\ WalkInv /\ SearchInv /\ MakeInv /\ LocatedInv /\ ChainInv
  /\ RetrieveInv /\ AnswerInv
  /\ TreeFaithful /\ NoConfigurationTwice
  /\ RetrievedStackIsPushedStack /\ PendingUntilExhausted
-----------------------------------------------------------------------------
(* Facts about sequences that every step below uses.                       *)

LEMMA AppendFacts ==
  ASSUME NEW S, NEW s \in Seq(S), NEW e \in S
  PROVE  /\ Append(s, e) \in Seq(S)
         /\ Len(Append(s, e)) = Len(s) + 1
         /\ DOMAIN Append(s, e) = 1 .. Len(s) + 1
         /\ \A i \in 1 .. Len(s) : Append(s, e)[i] = s[i]
         /\ Append(s, e)[Len(s) + 1] = e
  OBVIOUS

LEMMA FrontFacts ==
  ASSUME NEW S, NEW s \in Seq(S), s # <<>>
  PROVE  /\ Front(s) \in Seq(S)
         /\ Len(Front(s)) = Len(s) - 1
         /\ \A i \in 1 .. Len(s) - 1 : Front(s)[i] = s[i]
         /\ Last(s) = s[Len(s)] /\ Last(s) \in S /\ Len(s) > 0
<1>1. Len(s) \in Nat \ {0} /\ DOMAIN s = 1 .. Len(s)
  BY EmptySeq, LenProperties
<1>2. \A i \in 1 .. Len(s) : s[i] \in S
  BY ElementOfSeq
<1>3. /\ SubSeq(s, 1, Len(s) - 1) \in Seq(S)
      /\ Len(SubSeq(s, 1, Len(s) - 1)) = Len(s) - 1
      /\ \A i \in 1 .. Len(s) - 1 : SubSeq(s, 1, Len(s) - 1)[i] = s[i]
  BY <1>1, <1>2, SubSeqProperties
<1> QED
  BY <1>1, <1>2, <1>3 DEF Front, Last

LEMMA InitIInv == Init => IInv
<1> SUFFICES ASSUME Init PROVE IInv
  OBVIOUS
<1> USE TableAssumption, LengthAssumption, ConflictAssumption DEF Init, NULL
<1>1. TypeOK
  BY DEF TypeOK
<1>2. PathInv
  <2>1. Nodes = {1} /\ path[1] = <<START_STATE>> /\ parent[1] = 0 /\ number[1] = START_STATE
    BY DEF Nodes
  <2>2. \A q : q = <<START_STATE>> => Len(q) = 1 /\ q[1] = START_STATE
    OBVIOUS
  <2>3. Len(path[1]) = 1 /\ path[1][1] = START_STATE
    BY <2>1, <2>2
  <2>4. Nodes = {1} /\ parent[1] = 0 /\ number[1] = START_STATE
    BY <2>1
  <2> HIDE DEF Init
  <2> QED
    BY <2>3, <2>4 DEF PathInv
<1>3. ListInv
  BY DEF ListInv, First, Nodes
<1>4. HashInv
  BY DEF HashInv
<1>5. /\ ElementInv /\ PushInv /\ RetrieveInv /\ AnswerInv
      /\ WalkInv /\ SearchInv /\ MakeInv /\ LocatedInv /\ ChainInv
  BY DEF ElementInv, PushInv, WalkInv, SearchInv, MakeInv, LocatedInv, ChainInv,
     RetrieveInv, AnswerInv, Inserting
<1>6. TreeFaithful /\ NoConfigurationTwice
  BY DEF TreeFaithful, NoConfigurationTwice, Nodes
<1>7. RetrievedStackIsPushedStack /\ PendingUntilExhausted
  BY DEF RetrievedStackIsPushedStack, PendingUntilExhausted
<1> QED
  BY <1>1, <1>2, <1>3, <1>4, <1>5, <1>6, <1>7 DEF IInv

-----------------------------------------------------------------------------
(* What a step does not touch keeps its part of the invariant.             *)

LEMMA TreeUntouched ==
  ASSUME PathInv, ListInv, TreeFaithful, UNCHANGED tree
  PROVE  PathInv' /\ ListInv' /\ TreeFaithful'
  BY DEF PathInv, ListInv, TreeFaithful, First, Nodes, tree

LEMMA PoolUntouched ==
  ASSUME HashInv, NoConfigurationTwice, PendingUntilExhausted,
         UNCHANGED <<tree, configurations>>
  PROVE  HashInv' /\ NoConfigurationTwice' /\ PendingUntilExhausted'
  BY DEF HashInv, NoConfigurationTwice, PendingUntilExhausted, StackOf, HashAddress,
         tree, configurations

-----------------------------------------------------------------------------
LEMMA NodeFacts ==
  ASSUME TypeOK
  PROVE  /\ Nodes = 1 .. Len(number) /\ 1 \in Nodes /\ Len(number) \in Nat
         /\ Len(parent) = Len(number) /\ Len(children) = Len(number)
         /\ Len(siblings) = Len(number) /\ Len(path) = Len(number)
         /\ \A n \in Nodes : /\ number[n] \in Int /\ parent[n] \in Nat
                             /\ children[n] \in Nat /\ siblings[n] \in Nat
                             /\ path[n] \in Seq(Int)
<1>1. /\ number \in Seq(Int) /\ parent \in Seq(Nat) /\ children \in Seq(Nat)
      /\ siblings \in Seq(Nat) /\ path \in Seq(Seq(Int)) /\ Len(number) > 0
      /\ Len(parent) = Len(number) /\ Len(children) = Len(number)
      /\ Len(siblings) = Len(number) /\ Len(path) = Len(number)
  BY DEF TypeOK
<1>2. Nodes = 1 .. Len(number) /\ 1 \in Nodes /\ Len(number) \in Nat
  BY <1>1, LenProperties DEF Nodes
<1> QED
  BY <1>1, <1>2, ElementOfSeq

LEMMA PoolFacts ==
  ASSUME TypeOK
  PROVE  /\ DOMAIN pool = 1 .. Len(pool) /\ Len(pool) \in Nat
         /\ \A c \in DOMAIN pool :
              /\ pool[c] \in Element
              /\ pool[c].next \in Nat /\ pool[c].last_element \in Nat
              /\ pool[c].stack_top \in Nat \ {0} /\ pool[c].curtok \in Nat
              /\ pool[c].conflict_index \in DOMAIN baseAction
              /\ pool[c].action_length \in ActionLengths /\ pool[c].act \in Int
<1>1. DOMAIN pool = 1 .. Len(pool) /\ Len(pool) \in Nat
      /\ \A c \in DOMAIN pool : pool[c] \in Element
  BY DEF TypeOK
<1> QED
  BY <1>1 DEF Element

LEMMA StackFacts ==
  ASSUME TypeOK, stack \in Stacks
  PROVE  /\ stack \in Seq(Int) /\ Len(stack) \in Nat \ {0}
         /\ \A i \in 1 .. Len(stack) : stack[i] \in Int
  BY StacksAssumption, EmptySeq, ElementOfSeq

-----------------------------------------------------------------------------
(* The steps of the walk that only look at the tree.                       *)

LEMMA NextSiblingStep == IInv /\ NextSibling => IInv'
<1> SUFFICES ASSUME IInv, NextSibling PROVE IInv'
  OBVIOUS
<1> USE DEF IInv, NextSibling
<1>1. UNCHANGED <<tree, configurations>>
  OBVIOUS
<1>2. PathInv' /\ ListInv' /\ TreeFaithful' /\ HashInv' /\ NoConfigurationTwice' /\ PendingUntilExhausted'
  BY <1>1, TreeUntouched, PoolUntouched
<1>3. p \in Nodes /\ parent[p] = parent[root] /\ root \in Nodes
  BY DEF SearchInv
<1>4. TypeOK'
  BY <1>1, <1>3, NodeFacts DEF TypeOK, Element, tree, configurations, arguments, Nodes
<1>5. ElementInv' /\ PushInv' /\ RetrieveInv' /\ AnswerInv' /\ RetrievedStackIsPushedStack'
      /\ WalkInv' /\ MakeInv' /\ LocatedInv' /\ ChainInv'
  BY <1>1 DEF ElementInv, PushInv, RetrieveInv, AnswerInv, RetrievedStackIsPushedStack,
     Inserting, Unknown, StackOf, WalkInv, MakeInv, LocatedInv, ChainInv,
     tree, configurations, arguments, Nodes
<1>6. SearchInv'
  <2>1. siblings[p] # NULL => siblings[p] \in Nodes /\ parent[siblings[p]] = parent[root]
    BY <1>3 DEF ListInv
  <2>2. ASSUME NEW m \in Nodes, parent[m] = parent[root], number[m] = stack[index]
        PROVE  siblings[p] # NULL /\ (m = siblings[p] \/ (~First(m) /\ (First(siblings[p]) \/ m < siblings[p])))
    <3>1. ~First(m) /\ (First(p) \/ m < p)
      BY <2>2 DEF SearchInv
    <3>2. m <= siblings[p]
      BY <3>1, <2>2, <1>3 DEF ListInv
    <3> QED
      BY <3>1, <3>2, <1>3, NodeFacts DEF NULL
  <2> QED
    BY <1>1, <1>3, <2>1, <2>2 DEF SearchInv, First, IsPrefixOf, tree, arguments, Nodes
<1> QED
  BY <1>2, <1>4, <1>5, <1>6

(* A node whose parent stands for all but the last of k states.            *)
LEMMA PathBelow ==
  ASSUME PathInv, NEW n \in Nodes, parent[n] # NULL,
         NEW s, Len(s) \in Nat, NEW k \in 1 .. Len(s), number[n] = s[k],
         IsPrefixOf(path[parent[n]], s, k - 1)
  PROVE  IsPrefixOf(path[n], s, k)
<1>1. Len(path[parent[n]]) = k - 1 /\ \A i \in 1 .. k - 1 : path[parent[n]][i] = s[i]
  BY DEF IsPrefixOf
<1>2. /\ Len(path[n]) = Len(path[parent[n]]) + 1
      /\ \A i \in 1 .. Len(path[parent[n]]) : path[n][i] = path[parent[n]][i]
      /\ number[n] = path[n][Len(path[n])]
  BY DEF PathInv
<1>3. Len(path[n]) = k /\ path[n][k] = s[k] /\ \A i \in 1 .. k - 1 : path[n][i] = s[i]
  BY <1>1, <1>2
<1>4. \A i \in 1 .. k : i = k \/ i \in 1 .. k - 1
  OBVIOUS
<1> QED
  BY <1>3, <1>4 DEF IsPrefixOf

(* A matching sibling stands for the stack up to index.                    *)
LEMMA MatchedPath ==
  ASSUME IInv, Matches
  PROVE  p \in Nodes /\ IsPrefixOf(path[p], stack, index)
<1>1. p \in Nodes /\ parent[p] = parent[root] /\ number[p] = stack[index]
  BY DEF SearchInv, IInv, Matches
<1>2. index \in 1 .. Len(stack) /\ Len(stack) \in Nat
  BY StackFacts DEF SearchInv, WalkInv, IInv, Matches
<1>3. CASE index = 1
  <2>1. parent[p] = NULL
    BY <1>1, <1>3 DEF SearchInv, IInv, Matches
  <2> QED
    BY <2>1, <1>1, <1>2, <1>3 DEF PathInv, IsPrefixOf, IInv
<1>4. CASE index # 1
  <2>1. parent[p] # NULL /\ IsPrefixOf(path[parent[p]], stack, index - 1)
    BY <1>1, <1>4 DEF SearchInv, IInv, Matches
  <2> QED
    BY <2>1, <1>1, <1>2, PathBelow DEF IInv
<1> QED
  BY <1>3, <1>4

LEMMA LastMatchesStep == IInv /\ LastMatches => IInv'
<1> SUFFICES ASSUME IInv, LastMatches PROVE IInv'
  OBVIOUS
<1>1. p \in Nodes /\ path[p] = stack
  <2>1. p \in Nodes /\ IsPrefixOf(path[p], stack, Len(stack))
    BY MatchedPath DEF LastMatches
  <2>2. path[p] \in Seq(Int) /\ stack \in Seq(Int)
    BY <2>1, NodeFacts, StackFacts DEF IInv, WalkInv, LastMatches, Matches
  <2> QED
    BY <2>1, <2>2, SeqEqual DEF IsPrefixOf
<1> USE DEF IInv, LastMatches, Matches
<1>2. UNCHANGED <<tree, configurations>>
  OBVIOUS
<1>3. PathInv' /\ ListInv' /\ TreeFaithful' /\ HashInv' /\ NoConfigurationTwice' /\ PendingUntilExhausted'
  BY <1>2, TreeUntouched, PoolUntouched
<1>4. TypeOK'
  BY <1>2 DEF TypeOK, Element, tree, configurations, arguments, walk, Nodes
<1>5. ElementInv' /\ PushInv' /\ RetrieveInv' /\ AnswerInv' /\ RetrievedStackIsPushedStack'
      /\ WalkInv' /\ SearchInv' /\ MakeInv' /\ LocatedInv' /\ ChainInv'
  BY <1>1, <1>2 DEF ElementInv, PushInv, RetrieveInv, AnswerInv, RetrievedStackIsPushedStack,
     Inserting, Unknown, StackOf, WalkInv, SearchInv, MakeInv, LocatedInv, ChainInv,
     tree, configurations, arguments, walk, Nodes
<1> QED
  BY <1>3, <1>4, <1>5

LEMMA DescendStep == IInv /\ Descend => IInv'
<1> SUFFICES ASSUME IInv, Descend PROVE IInv'
  OBVIOUS
<1>1. p \in Nodes /\ p # NULL /\ IsPrefixOf(path[p], stack, index) /\ index \in 1 .. Len(stack) - 1
  BY MatchedPath, StackFacts DEF Descend, Matches, IInv, SearchInv, WalkInv
<1>2. children[p] \in Nodes /\ children[p] # NULL /\ parent[children[p]] = p
  BY <1>1 DEF Descend, IInv, ListInv
<1> USE DEF IInv, Descend, Matches
<1>3. UNCHANGED <<tree, configurations>>
  OBVIOUS
<1>4. PathInv' /\ ListInv' /\ TreeFaithful' /\ HashInv' /\ NoConfigurationTwice' /\ PendingUntilExhausted'
  BY <1>3, TreeUntouched, PoolUntouched
<1>5. TypeOK'
  <2>1. children[p] \in Nat /\ index + 1 \in Nat
    BY <1>1, NodeFacts, StackFacts DEF WalkInv
  <2> QED
    BY <1>3, <2>1 DEF TypeOK, tree, configurations, arguments
<1>6. ElementInv' /\ PushInv' /\ RetrieveInv' /\ AnswerInv' /\ RetrievedStackIsPushedStack'
      /\ WalkInv' /\ MakeInv' /\ LocatedInv' /\ ChainInv'
  BY <1>3 DEF ElementInv, PushInv, RetrieveInv, AnswerInv, RetrievedStackIsPushedStack,
     Inserting, Unknown, StackOf, WalkInv, MakeInv, LocatedInv, ChainInv,
     tree, configurations, arguments, walk, Nodes
<1>7. SearchInv'
  <2>1. ASSUME NEW m \in Nodes, parent[m] = p
        PROVE  m = children[p] \/ (~First(m) /\ First(children[p]))
    BY <2>1, <1>1, <1>2 DEF First, ListInv
  <2>2. index' = index + 1 /\ index + 1 \in 1 .. Len(stack) /\ (index + 1) - 1 = index /\ index + 1 # 1
    BY <1>1, StackFacts DEF WalkInv
  <2>3. First(children[p])
    BY <1>1, <1>2 DEF First
  <2> QED
    BY <1>1, <1>2, <1>3, <2>1, <2>2, <2>3 DEF SearchInv, First, IsPrefixOf, tree, arguments, Nodes
<1> QED
  BY <1>4, <1>5, <1>6, <1>7

LEMMA StartListStep == IInv /\ StartList => IInv'
<1> SUFFICES ASSUME IInv, StartList PROVE IInv'
  OBVIOUS
<1>1. p \in Nodes /\ IsPrefixOf(path[p], stack, index) /\ index \in 1 .. Len(stack) - 1
  BY MatchedPath, StackFacts DEF StartList, Matches, IInv, SearchInv, WalkInv
<1> USE DEF IInv, StartList, Matches
<1>2. UNCHANGED <<tree, configurations>>
  OBVIOUS
<1>3. PathInv' /\ ListInv' /\ TreeFaithful' /\ HashInv' /\ NoConfigurationTwice' /\ PendingUntilExhausted'
  BY <1>2, TreeUntouched, PoolUntouched
<1>4. TypeOK'
  BY <1>1, <1>2 DEF TypeOK, Element, tree, configurations, arguments, Nodes
<1>5. ElementInv' /\ PushInv' /\ RetrieveInv' /\ AnswerInv' /\ RetrievedStackIsPushedStack'
      /\ WalkInv' /\ SearchInv' /\ LocatedInv' /\ ChainInv'
  BY <1>2 DEF ElementInv, PushInv, RetrieveInv, AnswerInv, RetrievedStackIsPushedStack,
     Inserting, Unknown, StackOf, WalkInv, SearchInv, LocatedInv, ChainInv,
     tree, configurations, arguments, Nodes
<1>6. MakeInv'
  <2>1. index' = index + 1 /\ index + 1 \in 2 .. Len(stack) /\ (index + 1) - 1 = index
    BY <1>1, StackFacts DEF WalkInv
  <2> QED
    BY <1>1, <1>2, <2>1 DEF MakeInv, IsPrefixOf, tree, arguments, Nodes
<1> QED
  BY <1>3, <1>4, <1>5, <1>6

-----------------------------------------------------------------------------
(* The steps that add a node: it stands for the stack up to index, and its *)
(* parent q for the stack below index.                                     *)

NewNode == Len(number) + 1

Grow(q) ==
  /\ number' = Append(number, stack[index])
  /\ parent' = Append(parent, q)
  /\ path' = Append(path, SubSeq(stack, 1, index))

Below(q) ==
  /\ stack \in Stacks /\ index \in 1 .. Len(stack)
  /\ IF index = 1 THEN q = NULL
     ELSE q \in Nodes /\ q # NULL /\ IsPrefixOf(path[q], stack, index - 1)

LEMMA GrowFacts ==
  ASSUME TypeOK, NEW q, Below(q), Grow(q)
  PROVE  /\ q \in Nat
         /\ Nodes' = Nodes \cup {NewNode} /\ NewNode \notin Nodes /\ NewNode # NULL
         /\ \A n \in Nodes : n < NewNode
         /\ \A n \in Nodes : /\ number'[n] = number[n] /\ parent'[n] = parent[n]
                             /\ path'[n] = path[n]
         /\ number'[NewNode] = stack[index] /\ parent'[NewNode] = q
         /\ path'[NewNode] = SubSeq(stack, 1, index)
         /\ SubSeq(stack, 1, index) \in Seq(Int)
         /\ IsPrefixOf(path'[NewNode], stack, index)
         /\ number' \in Seq(Int) /\ parent' \in Seq(Nat) /\ path' \in Seq(Seq(Int))
         /\ Len(number') = NewNode /\ Len(parent') = NewNode /\ Len(path') = NewNode
<1> DEFINE prefix == SubSeq(stack, 1, index)
<1>1. /\ stack \in Seq(Int) /\ Len(stack) \in Nat /\ index \in 1 .. Len(stack)
      /\ \A i \in 1 .. Len(stack) : stack[i] \in Int
  BY StackFacts DEF Below
<1>2. /\ prefix \in Seq(Int) /\ Len(prefix) = index
      /\ \A i \in 1 .. index : prefix[i] = stack[i]
  BY <1>1, SubSeqProperties
<1>3. q \in Nat
  BY NodeFacts DEF Below, NULL
<1>4. /\ number \in Seq(Int) /\ parent \in Seq(Nat) /\ path \in Seq(Seq(Int))
      /\ Nodes = 1 .. Len(number) /\ Len(number) \in Nat
      /\ Len(parent) = Len(number) /\ Len(path) = Len(number)
  BY NodeFacts DEF TypeOK
<1> HIDE DEF prefix
<1>5. /\ number' \in Seq(Int) /\ Len(number') = NewNode /\ number'[NewNode] = stack[index]
      /\ DOMAIN number' = 1 .. NewNode
      /\ \A n \in Nodes : number'[n] = number[n]
  BY <1>1, <1>4, AppendFacts DEF Grow, NewNode
<1>6. /\ parent' \in Seq(Nat) /\ Len(parent') = NewNode /\ parent'[NewNode] = q
      /\ \A n \in Nodes : parent'[n] = parent[n]
  BY <1>3, <1>4, AppendFacts DEF Grow, NewNode
<1>7. /\ path' \in Seq(Seq(Int)) /\ Len(path') = NewNode /\ path'[NewNode] = prefix
      /\ \A n \in Nodes : path'[n] = path[n]
  BY <1>2, <1>4, AppendFacts DEF Grow, NewNode, prefix
<1>8. /\ Nodes' = Nodes \cup {NewNode} /\ NewNode \notin Nodes /\ NewNode # NULL
      /\ \A n \in Nodes : n < NewNode
  <2>1. Nodes' = 1 .. NewNode
    BY <1>5 DEF Nodes
  <2> QED
    BY <1>4, <2>1 DEF NewNode, NULL
<1>9. IsPrefixOf(path'[NewNode], stack, index)
  BY <1>1, <1>2, <1>7 DEF IsPrefixOf
<1> QED
  BY <1>2, <1>3, <1>5, <1>6, <1>7, <1>8, <1>9 DEF prefix

LEMMA GrownPath ==
  ASSUME TypeOK, PathInv, NEW q, Below(q), Grow(q)
  PROVE  PathInv'
<1>0. /\ Nodes' = Nodes \cup {NewNode} /\ NewNode \notin Nodes
      /\ \A n \in Nodes : /\ number'[n] = number[n] /\ parent'[n] = parent[n]
                          /\ path'[n] = path[n]
      /\ number'[NewNode] = stack[index] /\ parent'[NewNode] = q
  BY GrowFacts
<1>1. ASSUME NEW n \in Nodes
      PROVE  /\ Len(path'[n]) > 0
             /\ number'[n] = path'[n][Len(path'[n])]
             /\ parent'[n] \in Nodes' \cup {NULL}
             /\ IF parent'[n] = NULL
                THEN Len(path'[n]) = 1
                ELSE /\ Len(path'[n]) = Len(path'[parent'[n]]) + 1
                     /\ \A i \in 1 .. Len(path'[parent'[n]]) :
                          path'[n][i] = path'[parent'[n]][i]
  <2>1. /\ Len(path[n]) > 0 /\ number[n] = path[n][Len(path[n])]
        /\ parent[n] \in Nodes \cup {NULL}
        /\ IF parent[n] = NULL
           THEN Len(path[n]) = 1
           ELSE /\ Len(path[n]) = Len(path[parent[n]]) + 1
                /\ \A i \in 1 .. Len(path[parent[n]]) : path[n][i] = path[parent[n]][i]
    BY DEF PathInv
  <2>2. /\ number'[n] = number[n] /\ parent'[n] = parent[n] /\ path'[n] = path[n]
        /\ parent[n] # NULL => path'[parent[n]] = path[parent[n]]
    BY <1>0, <2>1
  <2> QED
    BY <1>0, <2>1, <2>2
<1>2. /\ Len(path'[NewNode]) = index /\ index > 0
      /\ \A i \in 1 .. index : path'[NewNode][i] = stack[i]
      /\ number'[NewNode] = stack[index] /\ parent'[NewNode] = q
  BY GrowFacts, StackFacts DEF IsPrefixOf, Below
<1>3. CASE index = 1
  BY <1>0, <1>1, <1>2, <1>3 DEF PathInv, Below
<1>4. CASE index # 1
  <2>1. /\ q \in Nodes /\ q # NULL /\ path'[q] = path[q] /\ Len(path[q]) = index - 1
        /\ \A i \in 1 .. index - 1 : path[q][i] = stack[i]
    BY <1>4, GrowFacts DEF Below, IsPrefixOf
  <2>2. index \in Nat /\ index = (index - 1) + 1 /\ 1 .. index - 1 \subseteq 1 .. index /\ index \in 1 .. index
    BY <1>2, StackFacts DEF Below
  <2>3. /\ Len(path'[NewNode]) = Len(path'[q]) + 1
        /\ \A i \in 1 .. Len(path'[q]) : path'[NewNode][i] = path'[q][i]
        /\ number'[NewNode] = path'[NewNode][Len(path'[NewNode])]
    BY <1>2, <2>1, <2>2
  <2>4. q \in Nodes' /\ parent'[NewNode] = q /\ Len(path'[NewNode]) > 0
    BY <1>0, <1>2, <2>1
  <2>5. SUFFICES ASSUME NEW n \in Nodes' PROVE PathInv!(n)'
    BY DEF PathInv
  <2>6. CASE n \in Nodes
    BY <1>1, <2>6
  <2>7. CASE n = NewNode
    BY <2>1, <2>3, <2>4, <2>7
  <2> QED
    BY <1>0, <2>6, <2>7
<1> QED
  BY <1>3, <1>4

LEMMA RootPath ==
  ASSUME TypeOK, PathInv, NEW n \in Nodes, Len(path[n]) = 1
  PROVE  parent[n] = NULL
<1>1. SUFFICES ASSUME parent[n] # NULL PROVE Len(path[n]) # 1
  OBVIOUS
<1>2. parent[n] \in Nodes /\ Len(path[n]) = Len(path[parent[n]]) + 1 /\ Len(path[parent[n]]) > 0
  BY <1>1 DEF PathInv
<1>3. Len(path[parent[n]]) \in Nat
  BY <1>2, NodeFacts
<1>4. \A l \in Nat : l > 0 => l + 1 # 1
  OBVIOUS
<1> QED
  BY <1>2, <1>3, <1>4

LEMMA GrownFaithful ==
  ASSUME TypeOK, PathInv, TreeFaithful, NEW q, Below(q), Grow(q),
         \A m \in Nodes : parent[m] = q => number[m] # stack[index]
  PROVE  TreeFaithful'
<1>1. /\ Len(path'[NewNode]) = index /\ index \in Nat \ {0}
      /\ \A i \in 1 .. index : path'[NewNode][i] = stack[i]
  BY GrowFacts, StackFacts DEF IsPrefixOf, Below
<1>2. ASSUME NEW n \in Nodes, path[n] = path'[NewNode]
      PROVE  FALSE
  <2>1. /\ Len(path[n]) = index /\ number[n] = stack[index]
        /\ \A i \in 1 .. index : path[n][i] = stack[i]
    BY <1>1, <1>2 DEF PathInv
  <2>2. CASE index = 1
    <3>1. parent[n] = NULL
      BY <2>1, <2>2, RootPath
    <3> QED
      BY <3>1, <2>1, <2>2 DEF Below
  <2>3. CASE index # 1
    <3>1. parent[n] # NULL
      BY <2>1, <2>3 DEF PathInv
    <3>2. /\ parent[n] \in Nodes /\ Len(path[n]) = Len(path[parent[n]]) + 1
          /\ \A i \in 1 .. Len(path[parent[n]]) : path[n][i] = path[parent[n]][i]
      BY <3>1 DEF PathInv
    <3>3. path[parent[n]] \in Seq(Int) /\ path[q] \in Seq(Int) /\ q \in Nodes
          /\ Len(path[parent[n]]) \in Nat
      BY <3>2, <2>3, NodeFacts, LenProperties DEF Below
    <3>4. Len(path[q]) = index - 1 /\ \A i \in 1 .. index - 1 : path[q][i] = stack[i]
      BY <2>3 DEF Below, IsPrefixOf
    <3>5. Len(path[parent[n]]) = index - 1
      BY <3>2, <3>3, <2>1, <1>1
    <3>6. \A i \in 1 .. index - 1 : path[parent[n]][i] = stack[i]
      BY <3>2, <3>5, <2>1, <1>1
    <3>7. /\ Len(path[parent[n]]) = Len(path[q])
          /\ \A i \in 1 .. Len(path[parent[n]]) : path[parent[n]][i] = path[q][i]
      BY <3>4, <3>5, <3>6
    <3>8. path[parent[n]] = path[q]
      BY <3>3, <3>7, SeqEqual
    <3> QED
      BY <3>2, <3>3, <3>8, <2>1 DEF TreeFaithful
  <2> QED
    BY <2>2, <2>3
<1>3. /\ Nodes' = Nodes \cup {NewNode} /\ NewNode \notin Nodes
      /\ \A n \in Nodes : path'[n] = path[n]
  BY GrowFacts
<1> QED
  BY <1>2, <1>3 DEF TreeFaithful

(* The configurations do not notice that the tree has grown.               *)
LEMMA GrownConfigurations ==
  ASSUME IInv, NEW q, Below(q), Grow(q), UNCHANGED <<configurations, arguments, answer, cursor, buffer>>,
         pc \in {"search", "make"}, pc' \in {"make", "located"}
  PROVE  /\ HashInv' /\ NoConfigurationTwice' /\ PendingUntilExhausted'
         /\ ElementInv' /\ PushInv' /\ WalkInv' /\ ChainInv' /\ RetrieveInv' /\ AnswerInv'
         /\ RetrievedStackIsPushedStack' /\ SearchInv'
<1> USE DEF IInv
<1>1. pool' = pool /\ table' = table /\ configuration_stack' = configuration_stack
      /\ stack' = stack /\ curtok' = curtok /\ op' = op /\ answer' = answer
  BY DEF configurations, arguments
<1>2. \A c \in DOMAIN pool :
        pool[c].last_element # NULL =>
          pool[c].last_element \in Nodes' /\ StackOf(c)' = StackOf(c)
  BY <1>1, GrowFacts DEF ElementInv, StackOf
<1>3. HashInv'
  BY <1>1 DEF HashInv, HashAddress
<1>4. NoConfigurationTwice' /\ PendingUntilExhausted'
  BY <1>1, <1>2 DEF NoConfigurationTwice, PendingUntilExhausted
<1>5. Inserting' = Inserting /\ answer = "none"
  BY <1>1 DEF Inserting, AnswerInv
<1>6. ElementInv'
  BY <1>1, <1>2, <1>5 DEF ElementInv
<1>7. PushInv'
  BY <1>1, <1>2, <1>5 DEF PushInv, Unknown
<1> QED
  BY <1>1, <1>3, <1>4, <1>5, <1>6, <1>7 DEF WalkInv, ChainInv, RetrieveInv, AnswerInv,
     RetrievedStackIsPushedStack, SearchInv

LEMMA InsertSiblingStep == IInv /\ InsertSibling => IInv'
<1> SUFFICES ASSUME IInv, InsertSibling PROVE IInv'
  OBVIOUS
<1> DEFINE q == parent[root]
<1>0. /\ parent[1] = NULL
      /\ \A n \in Nodes :
           /\ parent[n] \in Nodes \cup {NULL}
           /\ siblings[n] # NULL => siblings[n] \in Nodes /\ parent[siblings[n]] = parent[n]
           /\ children[n] # NULL => children[n] \in Nodes /\ parent[children[n]] = n
           /\ children[n] = NULL => \A m \in Nodes : parent[m] # n
  BY DEF IInv, PathInv, ListInv
<1>1. /\ root \in Nodes /\ First(root) /\ p = NULL /\ stack \in Stacks
      /\ pc = "search" /\ index \in 1 .. Len(stack)
      /\ \A m \in Nodes : parent[m] = q => number[m] # stack[index]
  BY DEF IInv, InsertSibling, InsertNode, SearchInv, WalkInv
<1>2. Below(q) /\ (q # NULL => q \in Nodes)
  <2>1. q \in Nodes \cup {NULL}
    BY <1>1 DEF IInv, PathInv
  <2>2. IF index = 1 THEN q = NULL ELSE q # NULL /\ IsPrefixOf(path[q], stack, index - 1)
    BY <1>1 DEF IInv, SearchInv
  <2> QED
    BY <1>1, <2>1, <2>2 DEF Below
<1>3. Grow(q)
  BY DEF InsertSibling, InsertNode, Grow
<1> HIDE DEF q
<1>4. /\ children' = Append(children, NULL)
      /\ siblings' = Append([siblings EXCEPT ![root] = NewNode], siblings[root])
      /\ p' = NewNode /\ index' = index + 1 /\ pc' = AfterNode(index) /\ root' = root
      /\ UNCHANGED <<configurations, arguments, answer, cursor, buffer>>
  BY DEF InsertSibling, InsertNode, NewNode
<1>5. /\ HashInv' /\ NoConfigurationTwice' /\ PendingUntilExhausted'
      /\ ElementInv' /\ PushInv' /\ WalkInv' /\ ChainInv' /\ RetrieveInv' /\ AnswerInv'
      /\ RetrievedStackIsPushedStack' /\ SearchInv'
  BY <1>1, <1>2, <1>3, <1>4, GrownConfigurations DEF AfterNode
<1>6. PathInv' /\ TreeFaithful'
  BY <1>1, <1>2, <1>3, GrownPath, GrownFaithful DEF IInv
<1>7. /\ Nodes' = Nodes \cup {NewNode} /\ NewNode \notin Nodes /\ NewNode # NULL
      /\ \A n \in Nodes : n < NewNode
      /\ \A n \in Nodes : number'[n] = number[n] /\ parent'[n] = parent[n] /\ path'[n] = path[n]
      /\ number'[NewNode] = stack[index] /\ parent'[NewNode] = q
  BY <1>2, <1>3, GrowFacts DEF IInv
<1>7a. /\ path'[NewNode] = SubSeq(stack, 1, index) /\ IsPrefixOf(path'[NewNode], stack, index)
      /\ number' \in Seq(Int) /\ parent' \in Seq(Nat) /\ path' \in Seq(Seq(Int))
      /\ Len(number') = NewNode /\ Len(parent') = NewNode /\ Len(path') = NewNode
  BY <1>2, <1>3, GrowFacts DEF IInv
<1>8. /\ Nodes = 1 .. Len(number) /\ Len(number) \in Nat /\ NewNode = Len(number) + 1 /\ 1 \in Nodes
      /\ children \in Seq(Nat) /\ Len(children) = Len(number)
      /\ siblings \in Seq(Nat) /\ Len(siblings) = Len(number)
      /\ \A n \in Nodes : children[n] \in Nat /\ siblings[n] \in Nat /\ parent[n] \in Nat
  BY NodeFacts DEF IInv, TypeOK, NewNode
<1>9. /\ children' \in Seq(Nat) /\ Len(children') = NewNode /\ children'[NewNode] = NULL
      /\ \A n \in Nodes : children'[n] = children[n]
  BY <1>4, <1>8, AppendFacts DEF NULL
<1>10. /\ siblings' \in Seq(Nat) /\ Len(siblings') = NewNode
       /\ siblings'[NewNode] = siblings[root] /\ siblings'[root] = NewNode
       /\ \A n \in Nodes : n # root => siblings'[n] = siblings[n]
  <2> DEFINE linked == [siblings EXCEPT ![root] = NewNode]
  <2>1. /\ linked \in Seq(Nat) /\ Len(linked) = Len(number)
        /\ \A n \in Nodes : linked[n] = IF n = root THEN NewNode ELSE siblings[n]
    BY <1>1, <1>8, ExceptSeq
  <2> HIDE DEF linked
  <2>2. siblings' = Append(linked, siblings[root]) /\ siblings[root] \in Nat
    BY <1>1, <1>4, <1>8 DEF linked
  <2> QED
    BY <1>1, <1>8, <2>1, <2>2, AppendFacts
<1>11. TypeOK'
  <2>1. p' \in Nat /\ index' \in Nat /\ root' \in Nat /\ pc' \in {"make", "located"}
    BY <1>1, <1>4, <1>8, StackFacts DEF AfterNode, IInv
  <2>2. Len(number') > 0
    BY <1>7a, <1>8
  <2> QED
    BY <1>4, <1>7a, <1>9, <1>10, <2>1, <2>2 DEF IInv, TypeOK, configurations, arguments
<1>12. ListInv'
  <2>1. \A n \in Nodes : First(n)' <=> First(n)
    BY <1>0, <1>7, <1>9 DEF First
  <2>2. \A n : n = NewNode => ~First(n)'
    <3>1. NewNode # 1
      BY <1>8, <1>7
    <3>2. q # NULL => children'[q] # NewNode
      BY <1>0, <1>2, <1>7, <1>9
    <3> QED
      BY <3>1, <3>2, <1>7 DEF First
  <2>3. parent'[1] = NULL
    BY <1>7, <1>8 DEF IInv, ListInv
  <2>4. ASSUME NEW n \in Nodes'
        PROVE  /\ siblings'[n] # NULL => siblings'[n] \in Nodes' /\ parent'[siblings'[n]] = parent'[n]
               /\ children'[n] # NULL => children'[n] \in Nodes' /\ parent'[children'[n]] = n
               /\ children'[n] = NULL => \A m \in Nodes' : parent'[m] # n
    <3>1. CASE n \in Nodes
      <4>1. siblings'[n] # NULL => siblings'[n] \in Nodes' /\ parent'[siblings'[n]] = parent'[n]
        <5>1. CASE n = root
          BY <5>1, <1>1, <1>7, <1>10 DEF q
        <5>2. CASE n # root
          <6>1. siblings'[n] = siblings[n] /\ parent'[n] = parent[n]
            BY <3>1, <5>2, <1>7, <1>10
          <6> QED
            BY <3>1, <6>1, <1>0, <1>7
        <5> QED
          BY <5>1, <5>2
      <4>2. children'[n] # NULL => children'[n] \in Nodes' /\ parent'[children'[n]] = n
        BY <3>1, <1>7, <1>9 DEF IInv, ListInv
      <4>3. children'[n] = NULL => \A m \in Nodes' : parent'[m] # n
        <5>1. children'[n] = NULL => children[n] = NULL /\ parent[root] # n
          BY <3>1, <1>0, <1>1, <1>9
        <5> QED
          BY <3>1, <5>1, <1>0, <1>7, <1>9 DEF q
      <4> QED
        BY <4>1, <4>2, <4>3
    <3>2. CASE n = NewNode
      <4>1. siblings'[n] # NULL => siblings'[n] \in Nodes' /\ parent'[siblings'[n]] = parent'[n]
        <5>1. siblings'[n] = siblings[root] /\ parent'[n] = parent[root]
          BY <3>2, <1>7, <1>10 DEF q
        <5>2. siblings[root] # NULL =>
                siblings[root] \in Nodes /\ parent[siblings[root]] = parent[root]
          BY <1>0, <1>1
        <5> QED
          BY <5>1, <5>2, <1>7
      <4>2. \A m \in Nodes' : parent'[m] # n
        BY <3>2, <1>0, <1>2, <1>7
      <4> QED
        BY <3>2, <1>9, <4>1, <4>2
    <3> QED
      BY <3>1, <3>2, <1>7
  <2>5. ASSUME NEW m \in Nodes', NEW n \in Nodes', parent'[m] = parent'[n], ~First(m)',
               First(n)' \/ m < n
        PROVE  m <= siblings'[n]
    <3>1. CASE m = NewNode
      <4>1. n \in Nodes /\ First(n) /\ parent[n] = q
        BY <3>1, <2>1, <2>2, <2>5, <1>7, <1>8
      <4>2. n = root
        BY <4>1, <1>1 DEF First, q, IInv, ListInv
      <4> QED
        BY <4>2, <3>1, <1>8, <1>10
    <3>2. CASE m \in Nodes /\ n = NewNode
      <4>1. parent[m] = parent[root] /\ ~First(m)
        BY <3>2, <2>1, <2>5, <1>7 DEF q
      <4>2. m <= siblings[root]
        BY <3>2, <4>1, <1>1 DEF IInv, ListInv
      <4> QED
        BY <3>2, <4>2, <1>10
    <3>3. CASE m \in Nodes /\ n \in Nodes
      <4>1. CASE n = root
        BY <3>3, <4>1, <1>7, <1>8, <1>10
      <4>2. CASE n # root
        BY <3>3, <4>2, <2>1, <2>5, <1>7, <1>10 DEF IInv, ListInv
      <4> QED
        BY <4>1, <4>2
    <3> QED
      BY <3>1, <3>2, <3>3, <1>7
  <2> QED
    BY <2>3, <2>4, <2>5 DEF ListInv
<1>13. MakeInv' /\ LocatedInv'
  <2>1. stack' = stack /\ index' = index + 1 /\ (index + 1) - 1 = index
        /\ p' \in Nodes' /\ children'[p'] = NULL /\ IsPrefixOf(path'[p'], stack, index)
        /\ stack \in Seq(Int) /\ Len(stack) \in Nat
    BY <1>1, <1>4, <1>7, <1>9, <1>7a, StackFacts DEF arguments, IInv
  <2>2. CASE index = Len(stack)
    BY <2>1, <2>2, <1>4, <1>7a, SubSeqFull DEF AfterNode, MakeInv, LocatedInv
  <2>3. CASE index # Len(stack)
    BY <2>1, <2>3, <1>1, <1>4 DEF AfterNode, MakeInv, LocatedInv
  <2> QED
    BY <2>2, <2>3
<1> QED
  BY <1>5, <1>6, <1>11, <1>12, <1>13 DEF IInv

LEMMA MakeStateStep == IInv /\ MakeState => IInv'
<1> SUFFICES ASSUME IInv, MakeState PROVE IInv'
  OBVIOUS
<1>0. /\ parent[1] = NULL
      /\ \A n \in Nodes :
           /\ parent[n] \in Nodes \cup {NULL}
           /\ siblings[n] # NULL => siblings[n] \in Nodes /\ parent[siblings[n]] = parent[n]
           /\ children[n] # NULL => children[n] \in Nodes /\ parent[children[n]] = n
           /\ children[n] = NULL => \A m \in Nodes : parent[m] # n
  BY DEF IInv, PathInv, ListInv
<1>1. /\ p \in Nodes /\ children[p] = NULL /\ stack \in Stacks
      /\ pc = "make" /\ index \in 2 .. Len(stack) /\ Len(stack) \in Nat /\ stack \in Seq(Int)
      /\ index \in 1 .. Len(stack) /\ index # 1
      /\ IsPrefixOf(path[p], stack, index - 1)
  <2>1. /\ pc = "make" /\ p \in Nodes /\ children[p] = NULL /\ stack \in Stacks
        /\ index \in 2 .. Len(stack) /\ IsPrefixOf(path[p], stack, index - 1)
    BY DEF IInv, MakeState, MakeInv, WalkInv
  <2>2. stack \in Seq(Int) /\ Len(stack) \in Nat
    BY <2>1, StackFacts DEF IInv
  <2> QED
    BY <2>1, <2>2
<1>2. Below(p) /\ p # NULL
  BY <1>1, NodeFacts DEF Below, IInv, NULL
<1>3. Grow(p)
  BY DEF MakeState, Grow
<1>4. /\ children' = Append([children EXCEPT ![p] = NewNode], NULL)
      /\ siblings' = Append(siblings, NULL)
      /\ p' = NewNode /\ index' = index + 1 /\ pc' = AfterNode(index) /\ root' = root
      /\ UNCHANGED <<configurations, arguments, answer, cursor, buffer>>
  BY DEF MakeState, NewNode
<1>5. /\ HashInv' /\ NoConfigurationTwice' /\ PendingUntilExhausted'
      /\ ElementInv' /\ PushInv' /\ WalkInv' /\ ChainInv' /\ RetrieveInv' /\ AnswerInv'
      /\ RetrievedStackIsPushedStack' /\ SearchInv'
  BY <1>1, <1>2, <1>3, <1>4, GrownConfigurations DEF AfterNode
<1>6. PathInv' /\ TreeFaithful'
  BY <1>0, <1>1, <1>2, <1>3, GrownPath, GrownFaithful DEF IInv
<1>7. /\ Nodes' = Nodes \cup {NewNode} /\ NewNode \notin Nodes /\ NewNode # NULL
      /\ \A n \in Nodes : n < NewNode
      /\ \A n \in Nodes : number'[n] = number[n] /\ parent'[n] = parent[n] /\ path'[n] = path[n]
      /\ number'[NewNode] = stack[index] /\ parent'[NewNode] = p
  BY <1>2, <1>3, GrowFacts DEF IInv
<1>7a. /\ path'[NewNode] = SubSeq(stack, 1, index) /\ IsPrefixOf(path'[NewNode], stack, index)
       /\ number' \in Seq(Int) /\ parent' \in Seq(Nat) /\ path' \in Seq(Seq(Int))
       /\ Len(number') = NewNode /\ Len(parent') = NewNode /\ Len(path') = NewNode
  BY <1>2, <1>3, GrowFacts DEF IInv
<1>8. /\ Nodes = 1 .. Len(number) /\ Len(number) \in Nat /\ NewNode = Len(number) + 1 /\ 1 \in Nodes
      /\ children \in Seq(Nat) /\ Len(children) = Len(number)
      /\ siblings \in Seq(Nat) /\ Len(siblings) = Len(number)
      /\ \A n \in Nodes : children[n] \in Nat /\ siblings[n] \in Nat /\ parent[n] \in Nat
  BY NodeFacts DEF IInv, TypeOK, NewNode
<1>9. /\ siblings' \in Seq(Nat) /\ Len(siblings') = NewNode /\ siblings'[NewNode] = NULL
      /\ \A n \in Nodes : siblings'[n] = siblings[n]
  BY <1>4, <1>8, AppendFacts DEF NULL
<1>10. /\ children' \in Seq(Nat) /\ Len(children') = NewNode
       /\ children'[NewNode] = NULL /\ children'[p] = NewNode
       /\ \A n \in Nodes : n # p => children'[n] = children[n]
  <2> DEFINE linked == [children EXCEPT ![p] = NewNode]
  <2>1. /\ linked \in Seq(Nat) /\ Len(linked) = Len(number)
        /\ \A n \in Nodes : linked[n] = IF n = p THEN NewNode ELSE children[n]
    <3>1. p \in 1 .. Len(children) /\ NewNode \in Nat
      BY <1>1, <1>8
    <3> QED
      BY <3>1, <1>8, ExceptSeq
  <2> HIDE DEF linked
  <2>2. children' = Append(linked, NULL) /\ NULL \in Nat
    BY <1>4 DEF linked, NULL
  <2>3. p \in 1 .. Len(linked) /\ linked[p] = NewNode
    BY <1>1, <1>8, <2>1
  <2> QED
    BY <1>8, <2>1, <2>2, <2>3, AppendFacts
<1>11. TypeOK'
  <2>1. p' \in Nat /\ index' \in Nat /\ root' \in Nat /\ pc' \in {"make", "located"}
    BY <1>1, <1>4, <1>8 DEF AfterNode, IInv, TypeOK
  <2>2. Len(number') > 0
    BY <1>7a, <1>8
  <2> QED
    BY <1>4, <1>7a, <1>9, <1>10, <2>1, <2>2 DEF IInv, TypeOK, configurations, arguments
<1>12. ListInv'
  <2>1. \A n \in Nodes : parent[n] # p /\ (First(n)' <=> First(n))
    BY <1>0, <1>1, <1>7, <1>10 DEF First
  <2>2. \A n : n = NewNode => First(n)'
    BY <1>2, <1>7, <1>10 DEF First
  <2>3. parent'[1] = NULL
    BY <1>7, <1>8, <1>0
  <2>4. ASSUME NEW n \in Nodes'
        PROVE  /\ siblings'[n] # NULL => siblings'[n] \in Nodes' /\ parent'[siblings'[n]] = parent'[n]
               /\ children'[n] # NULL => children'[n] \in Nodes' /\ parent'[children'[n]] = n
               /\ children'[n] = NULL => \A m \in Nodes' : parent'[m] # n
    <3>1. CASE n \in Nodes
      <4>1. siblings'[n] # NULL => siblings'[n] \in Nodes' /\ parent'[siblings'[n]] = parent'[n]
        BY <3>1, <1>0, <1>7, <1>9
      <4>2. CASE n = p
        BY <4>1, <4>2, <1>7, <1>10
      <4>3. CASE n # p
        <5>1. children'[n] = children[n]
          BY <3>1, <4>3, <1>10
        <5> QED
          BY <3>1, <4>1, <4>3, <5>1, <1>0, <1>7
      <4> QED
        BY <4>2, <4>3
    <3>2. CASE n = NewNode
      <4>1. \A m \in Nodes' : parent'[m] # n
        BY <3>2, <1>0, <1>1, <1>2, <1>7
      <4> QED
        BY <3>2, <1>9, <1>10, <4>1
    <3> QED
      BY <3>1, <3>2, <1>7
  <2>5. ASSUME NEW m \in Nodes', NEW n \in Nodes', parent'[m] = parent'[n], ~First(m)',
               First(n)' \/ m < n
        PROVE  m <= siblings'[n]
    <3>1. m \in Nodes
      BY <2>2, <2>5, <1>7
    <3>2. n \in Nodes
      BY <3>1, <2>1, <2>5, <1>7
    <3> QED
      BY <3>1, <3>2, <2>1, <2>5, <1>7, <1>9 DEF IInv, ListInv
  <2> QED
    BY <2>3, <2>4, <2>5 DEF ListInv
<1>13. MakeInv' /\ LocatedInv'
  <2>1. stack' = stack /\ index' = index + 1 /\ (index + 1) - 1 = index
        /\ p' \in Nodes' /\ children'[p'] = NULL /\ IsPrefixOf(path'[p'], stack, index)
    BY <1>1, <1>4, <1>7, <1>7a, <1>10 DEF arguments
  <2>2. CASE index = Len(stack)
    BY <2>1, <2>2, <1>1, <1>4, <1>7a, SubSeqFull DEF AfterNode, MakeInv, LocatedInv
  <2>3. CASE index # Len(stack)
    BY <2>1, <2>3, <1>1, <1>4 DEF AfterNode, MakeInv, LocatedInv
  <2> QED
    BY <2>2, <2>3
<1> QED
  BY <1>5, <1>6, <1>11, <1>12, <1>13 DEF IInv

-----------------------------------------------------------------------------
(* The steps of findConfiguration around the walk.                         *)

LEMMA HashRange == \A t \in Nat : HashAddress(t) \in 0 .. TABLE_SIZE - 1
  BY TableAssumption DEF HashAddress

(* The walk starts at the root of the tree, which is the first sibling.    *)
LEMMA StartOfWalk ==
  ASSUME TypeOK, ListInv, UNCHANGED tree, StartWalk, stack' \in Stacks
  PROVE  SearchInv' /\ MakeInv' /\ LocatedInv' /\ ChainInv'
<1>1. /\ 1 \in Nodes /\ parent[1] = NULL /\ First(1)
      /\ \A m \in Nodes : parent[m] = NULL => m = 1 \/ ~First(m)
  BY NodeFacts DEF ListInv, First
<1>2. Len(stack') \in Nat \ {0}
  BY StacksAssumption, EmptySeq
<1> QED
  BY <1>1, <1>2 DEF StartWalk, SearchInv, MakeInv, LocatedInv, ChainInv, First, Nodes, NULL, tree

LEMMA FindConfigurationStep ==
  ASSUME IInv, NEW s \in Stacks, NEW t \in Curtoks, FindConfiguration(s, t)
  PROVE  IInv'
<1> USE DEF IInv, FindConfiguration
<1>1. UNCHANGED <<tree, configurations>>
  OBVIOUS
<1>2. PathInv' /\ ListInv' /\ TreeFaithful' /\ HashInv' /\ NoConfigurationTwice' /\ PendingUntilExhausted'
  BY <1>1, TreeUntouched, PoolUntouched
<1>3. SearchInv' /\ MakeInv' /\ LocatedInv' /\ ChainInv'
  BY StartOfWalk
<1>4. TypeOK'
  <2>1. t \in Nat
    BY CurtoksAssumption
  <2> QED
    BY <1>1, <2>1 DEF TypeOK, StartWalk, tree, configurations, NULL
<1>5. ElementInv' /\ PushInv' /\ RetrieveInv' /\ AnswerInv' /\ RetrievedStackIsPushedStack' /\ WalkInv'
  BY <1>1 DEF ElementInv, PushInv, RetrieveInv, AnswerInv, RetrievedStackIsPushedStack, WalkInv,
     Inserting, StackOf, StartWalk, tree, configurations, Nodes
<1> QED
  BY <1>2, <1>3, <1>4, <1>5

LEMMA StartChainStep == IInv /\ StartChain => IInv'
<1> SUFFICES ASSUME IInv, StartChain PROVE IInv'
  OBVIOUS
<1> USE DEF IInv, StartChain
<1>1. UNCHANGED <<tree, configurations>>
  OBVIOUS
<1>2. PathInv' /\ ListInv' /\ TreeFaithful' /\ HashInv' /\ NoConfigurationTwice' /\ PendingUntilExhausted'
  BY <1>1, TreeUntouched, PoolUntouched
<1>3. HashAddress(curtok) \in 0 .. TABLE_SIZE - 1
  BY HashRange DEF TypeOK
<1>4. TypeOK'
  <2>1. table[HashAddress(curtok)] \in 0 .. Len(pool)
    BY <1>3 DEF TypeOK
  <2> QED
    BY <1>1, <2>1 DEF TypeOK, tree, configurations, arguments, walk
<1>5. ElementInv' /\ PushInv' /\ RetrieveInv' /\ AnswerInv' /\ RetrievedStackIsPushedStack'
      /\ WalkInv' /\ SearchInv' /\ MakeInv' /\ LocatedInv'
  BY <1>1 DEF ElementInv, PushInv, RetrieveInv, AnswerInv, RetrievedStackIsPushedStack,
     Inserting, Unknown, StackOf, WalkInv, SearchInv, MakeInv, LocatedInv,
     tree, configurations, arguments, walk, Nodes
<1>6. ChainInv'
  BY <1>1, <1>3 DEF ChainInv, HashInv, HashAddress, StackOf, tree, configurations, arguments, NULL
<1> QED
  BY <1>2, <1>4, <1>5, <1>6

LEMMA ChainNextStep == IInv /\ ChainNext => IInv'
<1> SUFFICES ASSUME IInv, ChainNext PROVE IInv'
  OBVIOUS
<1> USE DEF IInv, ChainNext
<1>1. UNCHANGED <<tree, configurations>>
  OBVIOUS
<1>2. PathInv' /\ ListInv' /\ TreeFaithful' /\ HashInv' /\ NoConfigurationTwice' /\ PendingUntilExhausted'
  BY <1>1, TreeUntouched, PoolUntouched
<1>3. cursor \in DOMAIN pool /\ DOMAIN pool = 1 .. Len(pool) /\ Len(pool) \in Nat
  BY PoolFacts DEF TypeOK, NULL
<1>4. pool[cursor].next \in 0 .. Len(pool) /\ pool[cursor].next < cursor
  BY <1>3, PoolFacts DEF HashInv
<1>5. TypeOK'
  BY <1>1, <1>4 DEF TypeOK, tree, configurations, arguments, walk
<1>6. ElementInv' /\ PushInv' /\ RetrieveInv' /\ AnswerInv' /\ RetrievedStackIsPushedStack'
      /\ WalkInv' /\ SearchInv' /\ MakeInv' /\ LocatedInv'
  BY <1>1 DEF ElementInv, PushInv, RetrieveInv, AnswerInv, RetrievedStackIsPushedStack,
     Inserting, Unknown, StackOf, WalkInv, SearchInv, MakeInv, LocatedInv,
     tree, configurations, arguments, walk, Nodes
<1>7. ChainInv'
  <2>1. ASSUME NEW d \in DOMAIN pool, pool[d].curtok = curtok, StackOf(d) = stack
        PROVE  d <= pool[cursor].next
    <3>1. d # cursor
      <4>1. SUFFICES ASSUME d = cursor PROVE FALSE
        OBVIOUS
      <4>2. pool[d].last_element # NULL
        BY DEF ElementInv, WalkInv, Inserting
      <4>3. pool[d].last_element \in Nodes /\ p \in Nodes /\ path[pool[d].last_element] = path[p]
        BY <2>1, <4>2 DEF ElementInv, LocatedInv, StackOf
      <4> QED
        BY <2>1, <4>1, <4>3 DEF TreeFaithful, SameConfiguration
    <3>2. d < cursor /\ HashAddress(pool[d].curtok) = HashAddress(pool[cursor].curtok)
      BY <2>1, <3>1, <1>3 DEF ChainInv
    <3> QED
      BY <3>2, <1>3 DEF HashInv
  <2>2. pool[cursor].next # NULL => HashAddress(pool[pool[cursor].next].curtok) = HashAddress(curtok)
    BY <1>3 DEF HashInv, ChainInv
  <2> QED
    BY <1>1, <2>1, <2>2 DEF ChainInv, HashAddress, StackOf, tree, configurations, arguments
<1> QED
  BY <1>2, <1>5, <1>6, <1>7

LEMMA FindReturnsStep == IInv /\ FindReturns => IInv'
<1> SUFFICES ASSUME IInv, FindReturns PROVE IInv'
  OBVIOUS
<1> USE DEF IInv, FindReturns, Return
<1>1. UNCHANGED <<tree, configurations>>
  OBVIOUS
<1>2. PathInv' /\ ListInv' /\ TreeFaithful' /\ HashInv' /\ NoConfigurationTwice' /\ PendingUntilExhausted'
  BY <1>1, TreeUntouched, PoolUntouched
<1>3. TypeOK'
  <2>1. /\ cursor' = 0 /\ root' = 0 /\ p' = 0 /\ index' = 0 /\ pc' = "idle"
        /\ answer' \in {"new", "found"} /\ Len(pool) \in Nat
        /\ UNCHANGED <<tree, configurations, arguments, buffer>>
    BY PoolFacts DEF NULL
  <2> QED
    BY <2>1 DEF TypeOK, tree, configurations, arguments
<1>4. ElementInv' /\ RetrieveInv' /\ AnswerInv' /\ RetrievedStackIsPushedStack'
      /\ WalkInv' /\ SearchInv' /\ MakeInv' /\ LocatedInv' /\ ChainInv'
  BY <1>1 DEF ElementInv, RetrieveInv, AnswerInv, RetrievedStackIsPushedStack,
     Inserting, StackOf, WalkInv, SearchInv, MakeInv, LocatedInv, ChainInv,
     tree, configurations, arguments, Nodes
<1>5. PushInv'
  <2>1. answer' = "new" => stack \in Stacks /\ Unknown
    <3>1. SUFFICES ASSUME answer' = "new" PROVE stack \in Stacks /\ Unknown
      OBVIOUS
    <3>2. cursor = 0 /\ stack \in Stacks
      BY <3>1 DEF WalkInv, NULL
    <3>3. \A d \in DOMAIN pool : d > 0
      BY PoolFacts
    <3> QED
      BY <3>2, <3>3, PoolFacts DEF ChainInv, Unknown
  <2> QED
    BY <1>1, <2>1 DEF PushInv, Inserting, Unknown, StackOf, tree, configurations, arguments
<1> QED
  BY <1>2, <1>3, <1>4, <1>5

-----------------------------------------------------------------------------
(* push.                                                                   *)

LEMMA PushStep ==
  ASSUME IInv, NEW ci \in ConflictIndices, NEW al \in ActionLengths, Push(ci, al)
  PROVE  IInv'
<1> DEFINE h == HashAddress(curtok)
           e == [next |-> table[h], last_element |-> NULL, stack_top |-> Len(stack),
                 conflict_index |-> ci, curtok |-> curtok, action_length |-> al, act |-> 0]
           new == Len(pool) + 1
<1>0. /\ TypeOK /\ HashInv /\ ElementInv /\ PushInv /\ NoConfigurationTwice
      /\ PendingUntilExhausted /\ PathInv /\ ListInv /\ TreeFaithful
  BY DEF IInv
<1>1. /\ UNCHANGED <<tree, configuration_stack, stack, curtok, cursor, buffer>>
      /\ pool' = Append(pool, e) /\ table' = [table EXCEPT ![h] = new]
      /\ op' = "push" /\ answer' = "none" /\ pc' = "search" /\ StartWalk
      /\ pc = "idle" /\ answer = "new"
  BY DEF Push, StartWalk
<1>2. PathInv' /\ ListInv' /\ TreeFaithful'
  BY <1>0, <1>1, TreeUntouched
<1>3. stack \in Stacks /\ Len(stack) \in Nat \ {0} /\ Unknown
  BY <1>0, <1>1, StackFacts DEF PushInv
<1>4. /\ h \in 0 .. TABLE_SIZE - 1 /\ table[h] \in 0 .. Len(pool) /\ Len(pool) \in Nat
      /\ DOMAIN pool = 1 .. Len(pool)
  BY <1>0, HashRange, PoolFacts DEF TypeOK
<1>5. e \in Element
  <2>1. /\ table[h] \in Nat /\ NULL \in Nat /\ ci \in DOMAIN baseAction /\ curtok \in Nat /\ 0 \in Int
    BY <1>0, <1>4, ConflictAssumption DEF NULL, TypeOK
  <2> QED
    BY <1>3, <2>1 DEF Element
<1>6. /\ pool' \in Seq(Element) /\ Len(pool') = new /\ DOMAIN pool' = 1 .. new
      /\ \A c \in DOMAIN pool : pool'[c] = pool[c]
      /\ pool'[new] = e
  <2>1. pool \in Seq(Element)
    BY <1>0 DEF TypeOK
  <2> HIDE DEF e
  <2> QED
    BY <1>1, <1>4, <1>5, <2>1, AppendFacts
<1>7. /\ pool'[new].next = table[h] /\ pool'[new].last_element = NULL
      /\ pool'[new].stack_top = Len(stack) /\ pool'[new].conflict_index = ci
      /\ pool'[new].curtok = curtok
  BY <1>6
<1> HIDE DEF e
<1>8. SearchInv' /\ MakeInv' /\ LocatedInv' /\ ChainInv'
  BY <1>0, <1>1, <1>3, StartOfWalk
<1>9. TypeOK'
  <2>1. table' \in [0 .. TABLE_SIZE - 1 -> 0 .. new]
    <3>1. table \in [0 .. TABLE_SIZE - 1 -> 0 .. Len(pool)]
      BY <1>0 DEF TypeOK
    <3>2. new \in 0 .. new /\ \A k \in 0 .. Len(pool) : k \in 0 .. new
      BY <1>4
    <3> HIDE DEF h, new
    <3> QED
      BY <1>1, <3>1, <3>2
  <2>2. cursor' \in 0 .. new
    BY <1>0, <1>1, <1>4 DEF TypeOK
  <2>3. configuration_stack' \in Seq(1 .. new)
    <3>1. configuration_stack \in Seq(1 .. Len(pool)) /\ 1 .. Len(pool) \subseteq 1 .. new
      BY <1>0, <1>4 DEF TypeOK
    <3> QED
      BY <3>1, <1>1, SeqMonotonic
  <2> HIDE DEF h, new
  <2> QED
    BY <1>0, <1>1, <1>6, <2>1, <2>2, <2>3 DEF TypeOK, StartWalk, tree
<1>10. HashInv'
  <2>1. \A d \in DOMAIN pool' : d = new \/ (d \in DOMAIN pool /\ d < new)
    BY <1>4, <1>6
  <2>2. \A k \in 0 .. TABLE_SIZE - 1 : table'[k] = IF k = h THEN new ELSE table[k]
    BY <1>0, <1>1, <1>4 DEF TypeOK
  <2>3. \A d \in DOMAIN pool' :
          /\ d # new => pool'[d] = pool[d]
          /\ d = new => HashAddress(pool'[d].curtok) = h /\ pool'[d].next = table[h]
    BY <1>6, <1>7, <2>1
  <2>4. ASSUME NEW k \in 0 .. TABLE_SIZE - 1
        PROVE  /\ table'[k] # NULL => HashAddress(pool'[table'[k]].curtok) = k
               /\ \A d \in DOMAIN pool' : HashAddress(pool'[d].curtok) = k => d <= table'[k]
    <3>1. CASE k = h
      <4>1. table'[k] = new /\ new \in DOMAIN pool'
        BY <2>2, <3>1, <1>4, <1>6
      <4>2. \A d \in DOMAIN pool' : d <= new
        BY <1>4, <1>6
      <4> QED
        BY <2>3, <3>1, <4>1, <4>2
    <3>2. CASE k # h
      <4>1. table'[k] = table[k] /\ table[k] \in 0 .. Len(pool)
        BY <2>2, <3>2, <1>0 DEF TypeOK
      <4>2. table[k] # NULL => HashAddress(pool'[table[k]].curtok) = k
        BY <1>0, <1>4, <1>6, <4>1 DEF HashInv, NULL
      <4> QED
        BY <1>0, <2>1, <2>3, <3>2, <4>1, <4>2 DEF HashInv
    <3> QED
      BY <3>1, <3>2
  <2>5. ASSUME NEW c \in DOMAIN pool'
        PROVE  /\ pool'[c].next < c
               /\ pool'[c].next # NULL =>
                    HashAddress(pool'[pool'[c].next].curtok) = HashAddress(pool'[c].curtok)
               /\ \A d \in DOMAIN pool' :
                    d < c /\ HashAddress(pool'[d].curtok) = HashAddress(pool'[c].curtok)
                    => d <= pool'[c].next
    <3>1. CASE c = new
      <4>1. pool'[c].next = table[h] /\ HashAddress(pool'[c].curtok) = h
        BY <2>3, <3>1
      <4>2. table[h] # NULL => table[h] \in DOMAIN pool /\ HashAddress(pool[table[h]].curtok) = h
        BY <1>0, <1>4 DEF HashInv, NULL
      <4>3. \A d \in DOMAIN pool : HashAddress(pool[d].curtok) = h => d <= table[h]
        BY <1>0, <1>4 DEF HashInv
      <4>4. table[h] < new
        BY <1>4
      <4> QED
        BY <1>6, <2>1, <3>1, <4>1, <4>2, <4>3, <4>4
    <3>2. CASE c # new
      <4>1. c \in DOMAIN pool /\ pool'[c] = pool[c] /\ c < new
        BY <2>1, <3>2, <1>6
      <4>2. /\ pool[c].next < c /\ pool[c].next \in Nat
            /\ pool[c].next # NULL =>
                 HashAddress(pool[pool[c].next].curtok) = HashAddress(pool[c].curtok)
            /\ \A d \in DOMAIN pool :
                 d < c /\ HashAddress(pool[d].curtok) = HashAddress(pool[c].curtok) => d <= pool[c].next
        BY <1>0, <4>1, PoolFacts DEF HashInv
      <4>3. pool[c].next # NULL => pool[c].next \in DOMAIN pool
        BY <1>4, <4>1, <4>2 DEF NULL
      <4>4. \A d \in DOMAIN pool' : d < c => d \in DOMAIN pool /\ pool'[d] = pool[d]
        BY <1>4, <1>6, <4>1
      <4> QED
        BY <1>6, <4>1, <4>2, <4>3, <4>4
    <3> QED
      BY <3>1, <3>2
  <2> QED
    BY <2>4, <2>5 DEF HashInv, HashAddress
<1>11. \A c \in DOMAIN pool : /\ pool[c].last_element # NULL /\ c # new
                             /\ c \in DOMAIN pool' /\ pool'[c] = pool[c]
                             /\ StackOf(c)' = StackOf(c)
  BY <1>0, <1>1, <1>4, <1>6 DEF ElementInv, Inserting, StackOf, tree
<1>12. \A c \in DOMAIN pool' : c \in DOMAIN pool \/ (c = new /\ pool'[c].last_element = NULL)
  BY <1>4, <1>6, <1>7
<1>13. ElementInv'
  <2>1. Inserting' /\ new = Len(pool') /\ Nodes' = Nodes
    BY <1>1, <1>6 DEF Inserting, Nodes, tree
  <2>2. \A i \in DOMAIN configuration_stack : configuration_stack[i] \in DOMAIN pool
    BY <1>0 DEF TypeOK
  <2> QED
    BY <1>0, <1>1, <1>11, <1>12, <2>1, <2>2 DEF ElementInv
<1>14. PushInv'
  <2>1. Unknown'
    BY <1>1, <1>3, <1>11, <1>12 DEF Unknown
  <2>2. baseAction[ci] # 0
    BY ConflictAssumption
  <2>3. Len(pool') = new /\ new > 0
    BY <1>4, <1>6
  <2> QED
    BY <1>1, <1>7, <2>1, <2>2, <2>3 DEF PushInv
<1>15. NoConfigurationTwice'
  BY <1>0, <1>11, <1>12 DEF NoConfigurationTwice
<1>16. PendingUntilExhausted'
  BY <1>0, <1>1, <1>11, <1>12 DEF PendingUntilExhausted
<1>17. RetrieveInv' /\ AnswerInv' /\ RetrievedStackIsPushedStack' /\ WalkInv'
  BY <1>1, <1>3 DEF RetrieveInv, AnswerInv, RetrievedStackIsPushedStack, WalkInv
<1> QED
  BY <1>2, <1>8, <1>9, <1>10, <1>13, <1>14, <1>15, <1>16, <1>17 DEF IInv

(* The buckets stay as they are when no element changes its token or link. *)
LEMMA HashKept ==
  ASSUME TypeOK, HashInv, UNCHANGED table, DOMAIN pool' = DOMAIN pool,
         \A d \in DOMAIN pool : pool'[d].curtok = pool[d].curtok /\ pool'[d].next = pool[d].next
  PROVE  HashInv'
<1>1. \A h \in 0 .. TABLE_SIZE - 1 : table[h] # NULL => table[h] \in DOMAIN pool
  <2>1. \A h \in 0 .. TABLE_SIZE - 1 : table[h] \in 0 .. Len(pool)
    BY DEF TypeOK
  <2> QED
    BY <2>1, PoolFacts DEF NULL
<1>2. \A d \in DOMAIN pool : pool[d].next # NULL => pool[d].next \in DOMAIN pool
  <2>1. \A d \in DOMAIN pool : pool[d].next < d /\ pool[d].next \in Nat
    BY PoolFacts DEF HashInv
  <2> QED
    BY <2>1, PoolFacts DEF NULL
<1>3. \A h \in 0 .. TABLE_SIZE - 1 :
        /\ table'[h] # NULL => HashAddress(pool'[table'[h]].curtok) = h
        /\ \A d \in DOMAIN pool' : HashAddress(pool'[d].curtok) = h => d <= table'[h]
  BY <1>1 DEF HashInv
<1>4. \A c \in DOMAIN pool' :
        /\ pool'[c].next < c
        /\ pool'[c].next # NULL =>
             HashAddress(pool'[pool'[c].next].curtok) = HashAddress(pool'[c].curtok)
        /\ \A d \in DOMAIN pool' :
             d < c /\ HashAddress(pool'[d].curtok) = HashAddress(pool'[c].curtok)
             => d <= pool'[c].next
  BY <1>2 DEF HashInv
<1> QED
  BY <1>3, <1>4 DEF HashInv, HashAddress

LEMMA PushReturnsStep == IInv /\ PushReturns => IInv'
<1> SUFFICES ASSUME IInv, PushReturns PROVE IInv'
  OBVIOUS
<1> DEFINE c == Len(pool)
<1>0. /\ TypeOK /\ HashInv /\ ElementInv /\ PushInv /\ NoConfigurationTwice
      /\ PendingUntilExhausted /\ PathInv /\ ListInv /\ TreeFaithful /\ LocatedInv /\ AnswerInv
  BY DEF IInv
<1>1. /\ UNCHANGED <<tree, table, op, cursor, buffer>>
      /\ pool' = [pool EXCEPT ![c].last_element = p]
      /\ configuration_stack' = Append(configuration_stack, c)
      /\ pc = "located" /\ op = "push" /\ pc' = "idle" /\ root' = NULL /\ p' = NULL /\ index' = 0
      /\ answer' = "pushed" /\ stack' = <<>> /\ curtok' = 0
  BY DEF PushReturns, Return
<1>2. PathInv' /\ ListInv' /\ TreeFaithful'
  BY <1>0, <1>1, TreeUntouched
<1>3. /\ Unknown /\ c > 0 /\ pool[c].last_element = NULL /\ pool[c].stack_top = Len(stack)
      /\ pool[c].curtok = curtok /\ baseAction[pool[c].conflict_index] # 0
      /\ p \in Nodes /\ path[p] = stack
  BY <1>0, <1>1 DEF PushInv, Inserting, LocatedInv
<1>4. c \in DOMAIN pool /\ DOMAIN pool = 1 .. c /\ c \in Nat /\ p \in Nat /\ p # NULL
  BY <1>0, <1>3, PoolFacts, NodeFacts DEF NULL
<1>5. /\ pool' \in Seq(Element) /\ Len(pool') = c /\ DOMAIN pool' = DOMAIN pool
      /\ \A d \in DOMAIN pool : d # c => pool'[d] = pool[d]
      /\ pool'[c].last_element = p
      /\ \A d \in DOMAIN pool : /\ pool'[d].stack_top = pool[d].stack_top
                               /\ pool'[d].conflict_index = pool[d].conflict_index
                               /\ pool'[d].curtok = pool[d].curtok
                               /\ pool'[d].next = pool[d].next
  <2> DEFINE e == [pool[c] EXCEPT !.last_element = p]
  <2>1. pool \in Seq(Element) /\ pool[c] \in Element
    BY <1>0, <1>4, PoolFacts DEF TypeOK
  <2>2. /\ e \in Element /\ e.last_element = p /\ e.stack_top = pool[c].stack_top
        /\ e.conflict_index = pool[c].conflict_index /\ e.curtok = pool[c].curtok /\ e.next = pool[c].next
    BY <1>4, <2>1 DEF Element
  <2>3. pool' = [pool EXCEPT ![c] = e]
    BY <1>1
  <2> HIDE DEF e, c
  <2>4. /\ pool' \in Seq(Element) /\ Len(pool') = Len(pool)
        /\ \A d \in 1 .. Len(pool) : pool'[d] = IF d = c THEN e ELSE pool[d]
    BY <1>4, <2>1, <2>2, <2>3, ExceptSeq DEF c
  <2>5. DOMAIN pool' = 1 .. Len(pool')
    BY <2>4, LenProperties
  <2> QED
    BY <1>4, <2>2, <2>4, <2>5 DEF c
<1>6. \A d \in DOMAIN pool : d # c => /\ pool[d].last_element # NULL /\ pool'[d] = pool[d]
                                    /\ StackOf(d)' = StackOf(d)
  BY <1>0, <1>1, <1>5 DEF ElementInv, StackOf, tree
<1>7. \A d : d = c => StackOf(d)' = stack
  BY <1>1, <1>3, <1>5 DEF StackOf, tree
<1>8. TypeOK'
  <2>1. configuration_stack' \in Seq(DOMAIN pool')
    BY <1>0, <1>1, <1>4, <1>5, AppendFacts DEF TypeOK
  <2>2. table' \in [0 .. TABLE_SIZE - 1 -> 0 .. Len(pool')] /\ cursor' \in 0 .. Len(pool')
    BY <1>0, <1>1, <1>5 DEF TypeOK
  <2> HIDE DEF c
  <2> QED
    BY <1>0, <1>1, <1>5, <2>1, <2>2 DEF TypeOK, tree, NULL
<1>9. HashInv'
  BY <1>0, <1>1, <1>5, HashKept
<1>10. /\ DOMAIN configuration_stack = 1 .. Len(configuration_stack)
       /\ Len(configuration_stack) \in Nat
       /\ \A i \in DOMAIN configuration_stack : configuration_stack[i] \in DOMAIN pool
       /\ DOMAIN configuration_stack' = 1 .. Len(configuration_stack) + 1
       /\ \A i \in DOMAIN configuration_stack : configuration_stack'[i] = configuration_stack[i]
       /\ configuration_stack'[Len(configuration_stack) + 1] = c
  <2>1. configuration_stack \in Seq(DOMAIN pool)
    BY <1>0 DEF TypeOK
  <2> QED
    BY <1>1, <1>4, <2>1, AppendFacts
<1>11. \A i \in DOMAIN configuration_stack : configuration_stack[i] # c /\ configuration_stack[i] < c
  <2>1. \A i \in DOMAIN configuration_stack : configuration_stack[i] # c
    BY <1>0, <1>3 DEF ElementInv
  <2> QED
    BY <2>1, <1>4, <1>10
<1>12. ElementInv'
  <2>1. Nodes' = Nodes
    BY <1>1 DEF Nodes, tree
  <2>2. ASSUME NEW d \in DOMAIN pool
        PROVE  /\ pool'[d].last_element # NULL /\ pool'[d].last_element \in Nodes
               /\ Len(StackOf(d)') = pool'[d].stack_top
    <3>1. CASE d = c
      BY <3>1, <1>3, <1>4, <1>5, <1>7
    <3>2. CASE d # c
      BY <3>2, <1>0, <1>6 DEF ElementInv
    <3> QED
      BY <3>1, <3>2
  <2>3. \A i \in DOMAIN configuration_stack' : configuration_stack'[i] \in DOMAIN pool
    BY <1>4, <1>10
  <2> QED
    BY <1>5, <2>1, <2>2, <2>3 DEF ElementInv
<1>13. NoConfigurationTwice'
  <2>1. \A d \in DOMAIN pool : d # c /\ pool[d].curtok = curtok => StackOf(d) # stack
    BY <1>3, <1>6 DEF Unknown
  <2>2. SUFFICES ASSUME NEW a \in DOMAIN pool, NEW b \in DOMAIN pool, a # b,
                        StackOf(a)' = StackOf(b)'
                 PROVE  pool'[a].curtok # pool'[b].curtok
    BY <1>5 DEF NoConfigurationTwice
  <2>3. CASE a = c
    BY <2>1, <2>2, <2>3, <1>3, <1>5, <1>6, <1>7
  <2>4. CASE b = c
    BY <2>1, <2>2, <2>4, <1>3, <1>5, <1>6, <1>7
  <2>5. CASE a # c /\ b # c
    BY <2>2, <2>5, <1>0, <1>5, <1>6 DEF NoConfigurationTwice
  <2> QED
    BY <2>3, <2>4, <2>5
<1>14. PendingUntilExhausted'
  <2>1. ASSUME NEW d \in DOMAIN pool
        PROVE  (\E i \in DOMAIN configuration_stack' : configuration_stack'[i] = d)
                 <=> baseAction[pool'[d].conflict_index] # 0
    <3>1. CASE d = c
      BY <3>1, <1>3, <1>5, <1>10
    <3>2. CASE d # c
      <4>1. (\E i \in DOMAIN configuration_stack' : configuration_stack'[i] = d)
              <=> (\E i \in DOMAIN configuration_stack : configuration_stack[i] = d)
        BY <3>2, <1>10
      <4> QED
        BY <3>2, <4>1, <1>0, <1>6 DEF PendingUntilExhausted
    <3> QED
      BY <3>1, <3>2
  <2>2. \A i, j \in DOMAIN configuration_stack' :
          i < j => configuration_stack'[i] < configuration_stack'[j]
    BY <1>0, <1>10, <1>11 DEF PendingUntilExhausted
  <2> QED
    BY <1>5, <2>1, <2>2 DEF PendingUntilExhausted
<1>15. PushInv' /\ RetrieveInv' /\ AnswerInv' /\ RetrievedStackIsPushedStack' /\ WalkInv'
       /\ SearchInv' /\ MakeInv' /\ LocatedInv' /\ ChainInv'
  BY <1>1 DEF PushInv, Inserting, RetrieveInv, AnswerInv, RetrievedStackIsPushedStack, WalkInv,
     SearchInv, MakeInv, LocatedInv, ChainInv
<1> QED
  BY <1>2, <1>8, <1>9, <1>12, <1>13, <1>14, <1>15, <1>0 DEF IInv

-----------------------------------------------------------------------------
(* pop and top.                                                            *)

(* An element that only gets another alternative is the same element.      *)
LEMMA AlternativeOf ==
  ASSUME TypeOK, UNCHANGED tree, NEW c \in DOMAIN pool, NEW e \in Element,
         e.last_element = pool[c].last_element, e.stack_top = pool[c].stack_top,
         e.curtok = pool[c].curtok, e.next = pool[c].next,
         pool' = [pool EXCEPT ![c] = e]
  PROVE  /\ pool' \in Seq(Element) /\ Len(pool') = Len(pool) /\ DOMAIN pool' = DOMAIN pool
         /\ \A d \in DOMAIN pool : /\ pool'[d].stack_top = pool[d].stack_top
                                  /\ pool'[d].curtok = pool[d].curtok
                                  /\ pool'[d].next = pool[d].next
                                  /\ pool'[d].last_element = pool[d].last_element
                                  /\ StackOf(d)' = StackOf(d)
         /\ \A d \in DOMAIN pool : pool'[d].conflict_index =
                                    IF d = c THEN e.conflict_index ELSE pool[d].conflict_index
<1>1. pool \in Seq(Element) /\ c \in 1 .. Len(pool) /\ DOMAIN pool = 1 .. Len(pool)
  BY PoolFacts DEF TypeOK
<1>2. /\ pool' \in Seq(Element) /\ Len(pool') = Len(pool)
      /\ \A d \in 1 .. Len(pool) : pool'[d] = IF d = c THEN e ELSE pool[d]
  BY <1>1, ExceptSeq
<1>3. DOMAIN pool' = 1 .. Len(pool')
  BY <1>2, LenProperties
<1>4. \A d \in DOMAIN pool : /\ pool'[d].stack_top = pool[d].stack_top
                            /\ pool'[d].curtok = pool[d].curtok
                            /\ pool'[d].next = pool[d].next
                            /\ pool'[d].last_element = pool[d].last_element
                            /\ pool'[d].conflict_index = IF d = c THEN e.conflict_index
                                                                  ELSE pool[d].conflict_index
  BY <1>1, <1>2
<1>5. \A d \in DOMAIN pool : StackOf(d)' = StackOf(d)
  BY <1>4 DEF StackOf, tree
<1> QED
  BY <1>1, <1>2, <1>3, <1>4, <1>5

LEMMA PendingTop ==
  ASSUME IInv, pc = "idle", configuration_stack # <<>>
  PROVE  LET c == Last(configuration_stack)
         IN  /\ c \in DOMAIN pool /\ Len(configuration_stack) > 0
             /\ c = configuration_stack[Len(configuration_stack)]
             /\ pool[c].conflict_index \in DOMAIN baseAction
             /\ baseAction[pool[c].conflict_index] # 0
             /\ baseAction[pool[c].conflict_index] \in Int
             /\ pool[c].conflict_index + 1 \in DOMAIN baseAction
             /\ pool[c].last_element \in Nodes /\ pool[c].last_element # NULL
             /\ Len(StackOf(c)) = pool[c].stack_top
<1> DEFINE c == Last(configuration_stack)
<1>1. configuration_stack \in Seq(DOMAIN pool)
  BY DEF IInv, TypeOK
<1>2. /\ c \in DOMAIN pool /\ Len(configuration_stack) > 0
      /\ c = configuration_stack[Len(configuration_stack)]
      /\ Len(configuration_stack) \in DOMAIN configuration_stack
  BY <1>1, FrontFacts, LenProperties
<1> HIDE DEF c
<1>3. pool[c].last_element # NULL
  BY <1>2 DEF IInv, ElementInv
<1>4. baseAction[pool[c].conflict_index] # 0 /\ pool[c].conflict_index \in DOMAIN baseAction
  BY <1>2, <1>3, PoolFacts DEF IInv, PendingUntilExhausted
<1>5. pool[c].last_element \in Nodes /\ Len(StackOf(c)) = pool[c].stack_top
  BY <1>2, <1>3 DEF IInv, ElementInv
<1> QED
  BY <1>2, <1>3, <1>4, <1>5, ConflictAssumption DEF c

LEMMA PopStep == IInv /\ Pop => IInv'
<1> SUFFICES ASSUME IInv, Pop PROVE IInv'
  OBVIOUS
<1>0. /\ TypeOK /\ HashInv /\ ElementInv /\ PushInv /\ NoConfigurationTwice
      /\ PendingUntilExhausted /\ PathInv /\ ListInv /\ TreeFaithful
  BY DEF IInv
<1>1. /\ UNCHANGED <<tree, table, root>> /\ pc = "idle"
      /\ op' = "pop" /\ stack' = <<>> /\ curtok' = 0
  BY DEF Pop, walk
<1>2. PathInv' /\ ListInv' /\ TreeFaithful'
  BY <1>0, <1>1, TreeUntouched
<1>3. CASE configuration_stack = <<>>
  <2>1. /\ UNCHANGED <<tree, configurations, walk>> /\ pc' = "idle"
        /\ answer' = "empty" /\ cursor' = 0 /\ buffer' = <<>>
    BY <1>1, <1>3 DEF Pop, configurations, NULL
  <2>2. HashInv' /\ NoConfigurationTwice' /\ PendingUntilExhausted'
    BY <1>0, <2>1, PoolUntouched
  <2>3. TypeOK'
    <3>1. Len(pool) \in Nat /\ 0 \in 0 .. Len(pool) /\ 0 \in Nat
      BY <1>0, PoolFacts
    <3> QED
      BY <1>0, <1>1, <2>1, <3>1 DEF TypeOK, tree, configurations, walk
  <2>4. \A d \in DOMAIN pool : pool[d].last_element # NULL
    BY <1>0, <1>1 DEF ElementInv, Inserting
  <2>5. ElementInv'
    BY <1>0, <2>1, <2>4 DEF ElementInv, StackOf, Nodes, tree, configurations
  <2>6. PushInv' /\ RetrieveInv' /\ AnswerInv' /\ RetrievedStackIsPushedStack' /\ WalkInv'
        /\ SearchInv' /\ MakeInv' /\ LocatedInv' /\ ChainInv'
    BY <1>1, <2>1 DEF PushInv, Inserting, RetrieveInv, AnswerInv, RetrievedStackIsPushedStack,
       WalkInv, SearchInv, MakeInv, LocatedInv, ChainInv
  <2> QED
    BY <1>2, <2>2, <2>3, <2>5, <2>6 DEF IInv
<1>4. CASE configuration_stack # <<>>
  <2> PICK c, ci : c = Last(configuration_stack) /\ ci = pool[c].conflict_index
    OBVIOUS
  <2>1. /\ pool' = [pool EXCEPT ![c] = [pool[c] EXCEPT !.act = baseAction[ci],
                                                       !.conflict_index = ci + 1]]
        /\ configuration_stack' = DropWhenExhausted(ci + 1)
        /\ pc' = "retrieve" /\ cursor' = c /\ answer' = "none"
        /\ p' = pool[c].last_element /\ index' = pool[c].stack_top
        /\ buffer' = [i \in 1 .. pool[c].stack_top |-> 0]
    BY <1>4 DEF Pop
  <2>2. /\ c \in DOMAIN pool /\ Len(configuration_stack) > 0
        /\ c = configuration_stack[Len(configuration_stack)]
        /\ ci \in DOMAIN baseAction /\ baseAction[ci] # 0
        /\ baseAction[ci] \in Int /\ ci + 1 \in DOMAIN baseAction
        /\ pool[c].last_element \in Nodes /\ pool[c].last_element # NULL
        /\ Len(StackOf(c)) = pool[c].stack_top
    BY <1>1, <1>4, PendingTop
  <2>3. pool[c].stack_top \in Nat \ {0} /\ pool[c].last_element \in Nat
        /\ DOMAIN pool = 1 .. Len(pool) /\ Len(pool) \in Nat
    BY <1>0, <2>2, PoolFacts
  <2>4. /\ configuration_stack \in Seq(DOMAIN pool) /\ Len(configuration_stack) \in Nat
        /\ DOMAIN configuration_stack = 1 .. Len(configuration_stack)
        /\ \A i \in DOMAIN configuration_stack : configuration_stack[i] \in DOMAIN pool
    BY <1>0 DEF TypeOK
  <2>5. /\ pool' \in Seq(Element) /\ Len(pool') = Len(pool) /\ DOMAIN pool' = DOMAIN pool
        /\ \A d \in DOMAIN pool : /\ pool'[d].stack_top = pool[d].stack_top
                                 /\ pool'[d].curtok = pool[d].curtok
                                 /\ pool'[d].next = pool[d].next
                                 /\ pool'[d].last_element = pool[d].last_element
                                 /\ StackOf(d)' = StackOf(d)
                                 /\ pool'[d].conflict_index =
                                      IF d = c THEN ci + 1 ELSE pool[d].conflict_index
    <3> PICK e : e = [pool[c] EXCEPT !.act = baseAction[ci], !.conflict_index = ci + 1]
      OBVIOUS
    <3>1. pool[c] \in Element
      BY <1>0, <2>2, PoolFacts
    <3>2. /\ e \in Element /\ e.last_element = pool[c].last_element
          /\ e.stack_top = pool[c].stack_top /\ e.conflict_index = ci + 1
          /\ e.curtok = pool[c].curtok /\ e.next = pool[c].next
      BY <2>2, <3>1 DEF Element
    <3>3. pool' = [pool EXCEPT ![c] = e]
      BY <2>1
    <3>4. UNCHANGED tree
      BY <1>1
    <3> QED
      BY <1>0, <2>2, <3>2, <3>3, <3>4, AlternativeOf
  <2>6. HashInv'
    BY <1>0, <1>1, <2>5, HashKept
  <2>7. NoConfigurationTwice'
    BY <1>0, <2>5 DEF NoConfigurationTwice
  <2>8. \A d \in DOMAIN pool : pool[d].last_element # NULL
    BY <1>0, <1>1 DEF ElementInv, Inserting
  <2>9. /\ configuration_stack' \in Seq(DOMAIN pool)
        /\ DOMAIN configuration_stack' = 1 .. Len(configuration_stack')
        /\ IF baseAction[ci + 1] = 0
           THEN Len(configuration_stack') = Len(configuration_stack) - 1
           ELSE configuration_stack' = configuration_stack
        /\ \A i \in DOMAIN configuration_stack' :
             i \in DOMAIN configuration_stack /\ configuration_stack'[i] = configuration_stack[i]
    <3>1. CASE baseAction[ci + 1] = 0
      <4>1. configuration_stack' = Front(configuration_stack)
        BY <2>1, <3>1 DEF DropWhenExhausted
      <4>2. /\ configuration_stack' \in Seq(DOMAIN pool)
            /\ Len(configuration_stack') = Len(configuration_stack) - 1
            /\ \A i \in 1 .. Len(configuration_stack) - 1 :
                 configuration_stack'[i] = configuration_stack[i]
        BY <1>4, <2>4, <4>1, FrontFacts
      <4>3. DOMAIN configuration_stack' = 1 .. Len(configuration_stack')
        BY <4>2, LenProperties
      <4> QED
        BY <2>4, <3>1, <4>2, <4>3
    <3>2. CASE baseAction[ci + 1] # 0
      BY <2>1, <2>4, <3>2 DEF DropWhenExhausted
    <3> QED
      BY <3>1, <3>2
  <2>10. TypeOK'
    <3>1. buffer' \in Seq(Int)
      <4>1. pool[c].stack_top \in Nat /\ 0 \in Int
        BY <2>3
      <4> QED
        BY <2>1, <4>1, IsASeq
    <3>2. table' \in [0 .. TABLE_SIZE - 1 -> 0 .. Len(pool')] /\ cursor' \in 0 .. Len(pool')
      <4>1. table \in [0 .. TABLE_SIZE - 1 -> 0 .. Len(pool)] /\ table' = table
        BY <1>0, <1>1 DEF TypeOK
      <4>2. c \in 0 .. Len(pool)
        BY <2>2, <2>3
      <4> QED
        BY <2>1, <2>5, <4>1, <4>2
    <3>3. configuration_stack' \in Seq(DOMAIN pool')
      BY <2>5, <2>9
    <3>4. p' \in Nat /\ index' \in Nat
      BY <2>1, <2>3
    <3> QED
      BY <1>0, <1>1, <2>1, <2>5, <3>1, <3>2, <3>3, <3>4 DEF TypeOK, tree
  <2>11. ElementInv'
    <3>1. Nodes' = Nodes
      BY <1>1 DEF Nodes, tree
    <3>2. \A d \in DOMAIN pool' :
            /\ pool'[d].last_element # NULL /\ pool'[d].last_element \in Nodes
            /\ Len(StackOf(d)') = pool'[d].stack_top
      BY <1>0, <2>5, <2>8 DEF ElementInv
    <3>3. \A i \in DOMAIN configuration_stack' : configuration_stack'[i] \in DOMAIN pool'
      BY <2>4, <2>5, <2>9
    <3> QED
      BY <3>1, <3>2, <3>3 DEF ElementInv
  <2>12. PendingUntilExhausted'
    <3>1. ASSUME NEW d \in DOMAIN pool
          PROVE  (\E i \in DOMAIN configuration_stack' : configuration_stack'[i] = d)
                   <=> baseAction[pool'[d].conflict_index] # 0
      <4>1. (\E i \in DOMAIN configuration_stack : configuration_stack[i] = d)
              <=> baseAction[pool[d].conflict_index] # 0
        BY <1>0, <2>8 DEF PendingUntilExhausted
      <4>2. CASE baseAction[ci + 1] # 0
        <5>1. configuration_stack' = configuration_stack
          BY <2>9, <4>2
        <5>2. CASE d = c
          BY <2>2, <2>4, <2>5, <4>2, <5>1, <5>2
        <5>3. CASE d # c
          BY <2>5, <4>1, <5>1, <5>3
        <5> QED
          BY <5>2, <5>3
      <4>3. CASE baseAction[ci + 1] = 0
        <5>1. Len(configuration_stack') = Len(configuration_stack) - 1
          BY <2>9, <4>3
        <5>2. CASE d = c
          <6>1. \A i \in DOMAIN configuration_stack' : configuration_stack'[i] # c
            <7>1. \A i \in DOMAIN configuration_stack' :
                    i \in DOMAIN configuration_stack /\ i < Len(configuration_stack)
              BY <2>4, <2>9, <5>1
            <7>2. \A i \in DOMAIN configuration_stack :
                    i < Len(configuration_stack) => configuration_stack[i] < c
              BY <1>0, <2>2, <2>4 DEF PendingUntilExhausted
            <7>3. ~(c < c)
              BY <2>2, <2>3
            <7> QED
              BY <2>9, <7>1, <7>2, <7>3
          <6> QED
            BY <2>5, <4>3, <5>2, <6>1
        <5>3. CASE d # c
          <6>1. \A i \in DOMAIN configuration_stack :
                  configuration_stack[i] = d => i \in DOMAIN configuration_stack'
            <7>1. \A i \in DOMAIN configuration_stack :
                    configuration_stack[i] = d => i # Len(configuration_stack)
              BY <2>2, <5>3
            <7> QED
              BY <2>4, <2>9, <5>1, <7>1
          <6> QED
            BY <2>5, <2>9, <4>1, <5>3, <6>1
        <5> QED
          BY <5>2, <5>3
      <4> QED
        BY <4>2, <4>3
    <3>2. \A i, j \in DOMAIN configuration_stack' :
            i < j => configuration_stack'[i] < configuration_stack'[j]
      BY <1>0, <2>9 DEF PendingUntilExhausted
    <3> QED
      BY <2>5, <3>1, <3>2 DEF PendingUntilExhausted
  <2>13. RetrieveInv'
    <3>1. pool'[c].last_element # NULL /\ pool'[c].stack_top = pool[c].stack_top
          /\ StackOf(c)' = StackOf(c) /\ StackOf(c) = path[pool[c].last_element]
          /\ cursor' # NULL
      BY <2>1, <2>2, <2>3, <2>5 DEF StackOf, NULL
    <3>2. Len(buffer') = pool[c].stack_top
      BY <2>1, <2>3
    <3>3. IsPrefixOf(path[pool[c].last_element], StackOf(c), pool[c].stack_top)
      BY <2>2, <2>3, <3>1 DEF IsPrefixOf
    <3>4. path' = path /\ Nodes' = Nodes
      BY <1>1 DEF Nodes, tree
    <3>5. StackOf(cursor)' = StackOf(c)
      BY <2>1, <3>1 DEF StackOf
    <3>6. /\ p' \in Nodes' /\ index' = pool[c].stack_top /\ pool'[cursor'].stack_top = pool[c].stack_top
          /\ pool'[cursor'].last_element # NULL /\ op' = "pop" /\ answer' = "none"
      BY <1>1, <2>1, <2>2, <2>5, <3>1, <3>4
    <3>7. \A i : i \notin index' + 1 .. Len(buffer')
      BY <2>3, <3>2, <3>6
    <3>8. IsPrefixOf(path[p], StackOf(cursor), index)'
      BY <2>1, <2>5, <2>2, <3>1, <3>3, <3>4, <3>5 DEF IsPrefixOf
    <3>9. index' \in 0 .. pool'[cursor'].stack_top
      BY <2>3, <3>6
    <3> QED
      BY <3>1, <3>2, <3>6, <3>7, <3>8, <3>9 DEF RetrieveInv
  <2>14. PushInv' /\ AnswerInv' /\ RetrievedStackIsPushedStack' /\ WalkInv'
         /\ SearchInv' /\ MakeInv' /\ LocatedInv' /\ ChainInv'
    BY <1>1, <2>1 DEF PushInv, Inserting, AnswerInv, RetrievedStackIsPushedStack,
       WalkInv, SearchInv, MakeInv, LocatedInv, ChainInv
  <2> QED
    BY <1>2, <2>6, <2>7, <2>10, <2>11, <2>12, <2>13, <2>14 DEF IInv
<1> QED
  BY <1>3, <1>4

LEMMA TopStep == IInv /\ Top => IInv'
<1> SUFFICES ASSUME IInv, Top PROVE IInv'
  OBVIOUS
<1>0. /\ TypeOK /\ HashInv /\ ElementInv /\ PushInv /\ NoConfigurationTwice
      /\ PendingUntilExhausted /\ PathInv /\ ListInv /\ TreeFaithful
  BY DEF IInv
<1>1. /\ UNCHANGED <<tree, table, configuration_stack, root, p, index>>
      /\ pc = "idle" /\ pc' = "idle"
      /\ op' = "top" /\ stack' = <<>> /\ curtok' = 0 /\ buffer' = <<>>
      /\ answer' \in {"empty", "peeked"}
  BY DEF Top, walk
<1>2. PathInv' /\ ListInv' /\ TreeFaithful'
  BY <1>0, <1>1, TreeUntouched
<1>3. PushInv' /\ RetrieveInv' /\ AnswerInv' /\ RetrievedStackIsPushedStack' /\ WalkInv'
      /\ SearchInv' /\ MakeInv' /\ LocatedInv' /\ ChainInv'
  BY <1>1 DEF PushInv, Inserting, RetrieveInv, AnswerInv, RetrievedStackIsPushedStack,
     WalkInv, SearchInv, MakeInv, LocatedInv, ChainInv
<1>4. \A d \in DOMAIN pool : pool[d].last_element # NULL
  BY <1>0, <1>1 DEF ElementInv, Inserting
<1>5. /\ pool' \in Seq(Element) /\ Len(pool') = Len(pool) /\ DOMAIN pool' = DOMAIN pool
      /\ cursor' \in 0 .. Len(pool)
      /\ \A d \in DOMAIN pool : /\ pool'[d].stack_top = pool[d].stack_top
                               /\ pool'[d].curtok = pool[d].curtok
                               /\ pool'[d].next = pool[d].next
                               /\ pool'[d].last_element = pool[d].last_element
                               /\ StackOf(d)' = StackOf(d)
                               /\ pool'[d].conflict_index = pool[d].conflict_index
  <2>1. CASE configuration_stack = <<>>
    <3>1. pool' = pool /\ cursor' = 0
      BY <2>1 DEF Top, NULL
    <3>2. pool \in Seq(Element) /\ 0 \in 0 .. Len(pool)
      BY <1>0, PoolFacts DEF TypeOK
    <3> QED
      BY <1>1, <3>1, <3>2 DEF StackOf, tree
  <2>2. CASE configuration_stack # <<>>
    <3> PICK c : c = Last(configuration_stack)
      OBVIOUS
    <3>1. c \in DOMAIN pool /\ baseAction[pool[c].conflict_index] \in Int
      BY <1>1, <2>2, PendingTop
    <3> PICK e : e = [pool[c] EXCEPT !.act = baseAction[pool[c].conflict_index]]
      OBVIOUS
    <3>2. pool' = [pool EXCEPT ![c] = e] /\ cursor' = c
      BY <2>2 DEF Top
    <3>3. /\ e \in Element /\ e.last_element = pool[c].last_element
          /\ e.stack_top = pool[c].stack_top /\ e.curtok = pool[c].curtok
          /\ e.next = pool[c].next /\ e.conflict_index = pool[c].conflict_index
      BY <1>0, <3>1, PoolFacts DEF Element
    <3>4. c \in 0 .. Len(pool)
      BY <1>0, <3>1, PoolFacts
    <3>5. UNCHANGED tree
      BY <1>1
    <3>6. /\ pool' \in Seq(Element) /\ Len(pool') = Len(pool) /\ DOMAIN pool' = DOMAIN pool
          /\ \A d \in DOMAIN pool : /\ pool'[d].stack_top = pool[d].stack_top
                                   /\ pool'[d].curtok = pool[d].curtok
                                   /\ pool'[d].next = pool[d].next
                                   /\ pool'[d].last_element = pool[d].last_element
                                   /\ StackOf(d)' = StackOf(d)
          /\ \A d \in DOMAIN pool : pool'[d].conflict_index =
                                    IF d = c THEN e.conflict_index ELSE pool[d].conflict_index
      BY <1>0, <3>1, <3>2, <3>3, <3>5, AlternativeOf
    <3> QED
      BY <3>2, <3>3, <3>4, <3>6
  <2> QED
    BY <2>1, <2>2
<1>6. HashInv'
  BY <1>0, <1>1, <1>5, HashKept
<1>7. NoConfigurationTwice'
  BY <1>0, <1>5 DEF NoConfigurationTwice
<1>8. PendingUntilExhausted'
  BY <1>0, <1>1, <1>5 DEF PendingUntilExhausted
<1>9. ElementInv'
  <2>1. Nodes' = Nodes
    BY <1>1 DEF Nodes, tree
  <2>2. \A d \in DOMAIN pool' :
          /\ pool'[d].last_element # NULL /\ pool'[d].last_element \in Nodes
          /\ Len(StackOf(d)') = pool'[d].stack_top
    BY <1>0, <1>4, <1>5 DEF ElementInv
  <2>3. \A i \in DOMAIN configuration_stack : configuration_stack[i] \in DOMAIN pool
    BY <1>0 DEF TypeOK
  <2> QED
    BY <1>1, <1>5, <2>1, <2>2, <2>3 DEF ElementInv
<1>10. TypeOK'
  <2>1. /\ table' \in [0 .. TABLE_SIZE - 1 -> 0 .. Len(pool')] /\ cursor' \in 0 .. Len(pool')
        /\ configuration_stack' \in Seq(DOMAIN pool')
    BY <1>0, <1>1, <1>5 DEF TypeOK
  <2> QED
    BY <1>0, <1>1, <1>5, <2>1 DEF TypeOK, tree
<1> QED
  BY <1>2, <1>3, <1>6, <1>7, <1>8, <1>9, <1>10 DEF IInv

-----------------------------------------------------------------------------
(* retrieveStack.                                                          *)

LEMMA RetrieveStateStep == IInv /\ RetrieveState => IInv'
<1> SUFFICES ASSUME IInv, RetrieveState PROVE IInv'
  OBVIOUS
<1>0. /\ TypeOK /\ HashInv /\ ElementInv /\ PushInv /\ NoConfigurationTwice
      /\ PendingUntilExhausted /\ PathInv /\ ListInv /\ TreeFaithful /\ AnswerInv /\ RetrieveInv
  BY DEF IInv
<1>1. /\ UNCHANGED <<tree, configurations, arguments, root, pc, cursor, answer>>
      /\ pc = "retrieve" /\ index > 0 /\ index' = index - 1 /\ p' = parent[p]
      /\ buffer' = [buffer EXCEPT ![index] = number[p]]
  BY DEF RetrieveState
<1>2. PathInv' /\ ListInv' /\ TreeFaithful' /\ HashInv' /\ NoConfigurationTwice' /\ PendingUntilExhausted'
  BY <1>0, <1>1, TreeUntouched, PoolUntouched
<1>3. ElementInv' /\ PushInv' /\ AnswerInv' /\ WalkInv' /\ SearchInv' /\ MakeInv' /\ LocatedInv'
      /\ ChainInv' /\ RetrievedStackIsPushedStack'
  BY <1>0, <1>1 DEF ElementInv, PushInv, AnswerInv, RetrievedStackIsPushedStack,
     Inserting, Unknown, StackOf, WalkInv, SearchInv, MakeInv, LocatedInv, ChainInv,
     tree, configurations, arguments, Nodes
<1>4. /\ op = "pop" /\ cursor # NULL /\ pool[cursor].last_element # NULL
      /\ index \in 0 .. pool[cursor].stack_top /\ Len(buffer) = pool[cursor].stack_top
      /\ \A i \in index + 1 .. Len(buffer) : buffer[i] = StackOf(cursor)[i]
      /\ p \in Nodes /\ IsPrefixOf(path[p], StackOf(cursor), index)
  BY <1>0, <1>1 DEF RetrieveInv
<1>5. /\ number[p] \in Int /\ parent[p] \in Nat /\ index \in 1 .. Len(buffer)
      /\ buffer \in Seq(Int) /\ index \in Nat
  BY <1>0, <1>1, <1>4, NodeFacts DEF TypeOK
<1>6. /\ buffer' \in Seq(Int) /\ Len(buffer') = Len(buffer) /\ Len(buffer) \in Nat
      /\ \A i \in 1 .. Len(buffer) : buffer'[i] = IF i = index THEN number[p] ELSE buffer[i]
  BY <1>1, <1>5, ExceptSeq, LenProperties
<1>7. TypeOK'
  <2>1. index - 1 \in Nat
    BY <1>5
  <2> QED
    BY <1>0, <1>1, <1>5, <1>6, <2>1 DEF TypeOK, tree, configurations, arguments
<1>8. /\ Len(path[p]) = index /\ number[p] = StackOf(cursor)[index]
      /\ \A i \in 1 .. index : path[p][i] = StackOf(cursor)[i]
      /\ index <= Len(StackOf(cursor))
  BY <1>0, <1>4, <1>5 DEF IsPrefixOf, PathInv
<1>9. \A i \in index .. Len(buffer) : buffer'[i] = StackOf(cursor)[i]
  <2>1. \A i \in index .. Len(buffer) :
          i \in 1 .. Len(buffer) /\ (i = index \/ i \in index + 1 .. Len(buffer))
    BY <1>5, <1>6
  <2> QED
    BY <2>1, <1>4, <1>6, <1>8
<1>10. index - 1 > 0 => parent[p] \in Nodes /\ IsPrefixOf(path[parent[p]], StackOf(cursor), index - 1)
  <2>1. SUFFICES ASSUME index - 1 > 0
                 PROVE  parent[p] \in Nodes /\ IsPrefixOf(path[parent[p]], StackOf(cursor), index - 1)
    OBVIOUS
  <2>2. parent[p] # NULL
    BY <1>0, <1>4, <1>5, <1>8, <2>1 DEF PathInv
  <2>3. parent[p] \in Nodes /\ Len(path[p]) = Len(path[parent[p]]) + 1
        /\ \A i \in 1 .. Len(path[parent[p]]) : path[p][i] = path[parent[p]][i]
    BY <1>0, <1>4, <2>2 DEF PathInv
  <2>4. Len(path[parent[p]]) \in Nat
    BY <1>0, <2>3, NodeFacts, LenProperties
  <2>5. Len(path[parent[p]]) = index - 1
    BY <1>5, <1>8, <2>3, <2>4
  <2>6. Len(StackOf(cursor)) = pool[cursor].stack_top
    <3>1. cursor \in DOMAIN pool
      BY <1>0, <1>4, PoolFacts DEF TypeOK, NULL
    <3> QED
      BY <1>0, <1>4, <3>1 DEF ElementInv
  <2>7. index - 1 <= Len(StackOf(cursor)) /\ \A i \in 1 .. index - 1 : i \in 1 .. index
    BY <1>4, <1>5, <2>6
  <2> QED
    BY <1>8, <2>3, <2>5, <2>7 DEF IsPrefixOf
<1>11. RetrieveInv'
  <2>1. UNCHANGED <<path, Nodes, pool, cursor, op>> /\ StackOf(cursor)' = StackOf(cursor)
    BY <1>1 DEF Nodes, StackOf, tree, configurations, arguments
  <2>2. index' \in 0 .. pool[cursor].stack_top
    BY <1>1, <1>4, <1>5
  <2>3. \A i \in index' + 1 .. Len(buffer') : buffer'[i] = StackOf(cursor)[i]
    <3>1. index' + 1 = index
      BY <1>1, <1>5
    <3> QED
      BY <1>6, <1>9, <3>1
  <2>4. index' > 0 => p' \in Nodes /\ IsPrefixOf(path[p'], StackOf(cursor), index')
    BY <1>1, <1>10
  <2> QED
    BY <1>4, <1>6, <2>1, <2>2, <2>3, <2>4 DEF RetrieveInv, IsPrefixOf
<1> QED
  BY <1>2, <1>3, <1>7, <1>11 DEF IInv

LEMMA RetrieveReturnsStep == IInv /\ RetrieveReturns => IInv'
<1> SUFFICES ASSUME IInv, RetrieveReturns PROVE IInv'
  OBVIOUS
<1>0. /\ TypeOK /\ HashInv /\ ElementInv /\ PushInv /\ NoConfigurationTwice
      /\ PendingUntilExhausted /\ PathInv /\ ListInv /\ TreeFaithful /\ AnswerInv /\ RetrieveInv
  BY DEF IInv
<1>1. /\ UNCHANGED <<tree, configurations, arguments, cursor, buffer>>
      /\ pc = "retrieve" /\ pc' = "idle" /\ index = 0 /\ answer' = "popped"
      /\ root' = NULL /\ p' = NULL /\ index' = 0
  BY DEF RetrieveReturns, Return
<1>2. PathInv' /\ ListInv' /\ TreeFaithful' /\ HashInv' /\ NoConfigurationTwice' /\ PendingUntilExhausted'
  BY <1>0, <1>1, TreeUntouched, PoolUntouched
<1>3. op = "pop" /\ cursor # NULL /\ pool[cursor].last_element # NULL
      /\ Len(buffer) = pool[cursor].stack_top
      /\ \A i \in 1 .. Len(buffer) : buffer[i] = StackOf(cursor)[i]
  BY <1>0, <1>1 DEF RetrieveInv
<1>4. TypeOK'
  BY <1>0, <1>1 DEF TypeOK, NULL, tree, configurations, arguments
<1>5. ElementInv' /\ PushInv' /\ AnswerInv' /\ WalkInv' /\ SearchInv' /\ MakeInv' /\ LocatedInv'
      /\ ChainInv' /\ RetrieveInv'
  BY <1>0, <1>1, <1>3 DEF ElementInv, PushInv, AnswerInv, RetrieveInv,
     Inserting, Unknown, StackOf, WalkInv, SearchInv, MakeInv, LocatedInv, ChainInv,
     tree, configurations, arguments, Nodes
<1>6. RetrievedStackIsPushedStack'
  <2>1. cursor \in DOMAIN pool
    BY <1>0, <1>3, PoolFacts DEF TypeOK, NULL
  <2>2. Len(StackOf(cursor)) = Len(buffer) /\ StackOf(cursor) \in Seq(Int)
    BY <1>0, <1>3, <2>1, NodeFacts DEF ElementInv, StackOf
  <2>3. buffer \in Seq(Int)
    BY <1>0 DEF TypeOK
  <2>4. buffer = StackOf(cursor)
    BY <1>3, <2>2, <2>3, SeqEqual
  <2> QED
    BY <1>1, <2>4 DEF RetrievedStackIsPushedStack, StackOf, tree, configurations
<1> QED
  BY <1>2, <1>4, <1>5, <1>6 DEF IInv

-----------------------------------------------------------------------------
LEMMA StutteringStep == IInv /\ UNCHANGED vars => IInv'
<1> SUFFICES ASSUME IInv, UNCHANGED vars PROVE IInv'
  OBVIOUS
<1>1. UNCHANGED <<tree, configurations, arguments, walk, pc, cursor, buffer, answer>>
  BY DEF vars
<1>2. PathInv' /\ ListInv' /\ TreeFaithful' /\ HashInv' /\ NoConfigurationTwice' /\ PendingUntilExhausted'
  BY <1>1, TreeUntouched, PoolUntouched DEF IInv
<1>3. TypeOK'
  BY <1>1 DEF IInv, TypeOK, tree, configurations, arguments, walk
<1>4. ElementInv' /\ PushInv' /\ AnswerInv' /\ WalkInv' /\ SearchInv' /\ MakeInv' /\ LocatedInv'
      /\ ChainInv' /\ RetrieveInv' /\ RetrievedStackIsPushedStack'
  BY <1>1 DEF IInv, ElementInv, PushInv, AnswerInv, RetrieveInv, RetrievedStackIsPushedStack,
     Inserting, Unknown, StackOf, WalkInv, SearchInv, MakeInv, LocatedInv, ChainInv,
     First, IsPrefixOf, HashAddress, tree, configurations, arguments, walk, Nodes
<1> QED
  BY <1>2, <1>3, <1>4 DEF IInv

(* The inductive invariant holds of every state of every behaviour.        *)
THEOREM Invariance == Spec => []IInv
<1>1. IInv /\ [Next]_vars => IInv'
  <2> SUFFICES ASSUME IInv, [Next]_vars PROVE IInv'
    OBVIOUS
  <2>1. ASSUME NEW s \in Stacks, NEW t \in Curtoks, FindConfiguration(s, t) PROVE IInv'
    BY <2>1, FindConfigurationStep
  <2>2. ASSUME NEW ci \in ConflictIndices, NEW al \in ActionLengths, Push(ci, al) PROVE IInv'
    BY <2>2, PushStep
  <2>3. CASE Pop
    BY <2>3, PopStep
  <2>4. CASE Top
    BY <2>4, TopStep
  <2>5. CASE Work
    BY <2>5, NextSiblingStep, LastMatchesStep, DescendStep, StartListStep, InsertSiblingStep,
       MakeStateStep, StartChainStep, ChainNextStep, FindReturnsStep, PushReturnsStep,
       RetrieveStateStep, RetrieveReturnsStep DEF Work
  <2>6. CASE UNCHANGED vars
    BY <2>6, StutteringStep
  <2> QED
    BY <2>1, <2>2, <2>3, <2>4, <2>5, <2>6 DEF Next
<1> QED
  BY InitIInv, <1>1, PTL DEF Spec

(* The pools, pointers and locals always have their types.                 *)
THEOREM TypeCorrect == Spec => []TypeOK
<1>1. IInv => TypeOK
  BY DEF IInv
<1> QED
  BY Invariance, <1>1, PTL

(* The shared tree never lets two nodes stand for one stack.               *)
THEOREM TreeIsFaithful == Spec => []TreeFaithful
<1>1. IInv => TreeFaithful
  BY DEF IInv
<1> QED
  BY Invariance, <1>1, PTL

(* No configuration is ever pushed twice.                                  *)
THEOREM ConfigurationsAreDistinct == Spec => []NoConfigurationTwice
<1>1. IInv => NoConfigurationTwice
  BY DEF IInv
<1> QED
  BY Invariance, <1>1, PTL

(* retrieveStack restores the stack of the popped configuration.           *)
THEOREM RetrievalIsExact == Spec => []RetrievedStackIsPushedStack
<1>1. IInv => RetrievedStackIsPushedStack
  BY DEF IInv
<1> QED
  BY Invariance, <1>1, PTL

(* pop gives up a configuration exactly when its alternatives are used up. *)
THEOREM AlternativesAreKept == Spec => []PendingUntilExhausted
<1>1. IInv => PendingUntilExhausted
  BY DEF IInv
<1> QED
  BY Invariance, <1>1, PTL


-----------------------------------------------------------------------------
(***************************************************************************)
(* ConfigurationStack implements PendingConfigurations: under the mapping  *)
(* visitedBar, pendingBar, answerBar, restoredBar every step of the        *)
(* pointer structure is a step of the promise, or changes nothing of it.   *)
(***************************************************************************)

(* The arguments of a call are those of the client until it returns.       *)
RequestInv ==
  /\ answer = "new" \/ pc \in {"search", "make", "located", "chain"} => curtok \in Curtoks
  /\ Inserting => pool[Len(pool)].conflict_index \in ConflictIndices

LEMMA RequestStep == IInv /\ RequestInv /\ [Next]_vars => RequestInv'
<1> SUFFICES ASSUME IInv, RequestInv, [Next]_vars PROVE RequestInv'
  OBVIOUS
<1> USE DEF RequestInv, Inserting
<1>1. ASSUME NEW s \in Stacks, NEW t \in Curtoks, FindConfiguration(s, t) PROVE RequestInv'
  BY <1>1 DEF FindConfiguration, StartWalk
<1>2. ASSUME NEW ci \in ConflictIndices, NEW al \in ActionLengths, Push(ci, al) PROVE RequestInv'
  <2> DEFINE e == [next |-> table[HashAddress(curtok)],
                   last_element |-> NULL, stack_top |-> Len(stack),
                   conflict_index |-> ci, curtok |-> curtok,
                   action_length |-> al, act |-> 0]
  <2>1. pool' = Append(pool, e) /\ answer = "new" /\ curtok' = curtok
    BY <1>2 DEF Push
  <2>2. e.conflict_index = ci
    OBVIOUS
  <2>3. pool \in Seq(Element)
    BY DEF IInv, TypeOK
  <2> HIDE DEF e
  <2>4. Len(pool') = Len(pool) + 1 /\ pool'[Len(pool) + 1] = e
    <3>1. pool \in Seq(Element \cup {e}) /\ e \in Element \cup {e}
      BY <2>3
    <3> QED
      BY <2>1, <3>1, AppendFacts
  <2> QED
    BY <2>1, <2>2, <2>4
<1>3. CASE Pop
  BY <1>3 DEF Pop
<1>4. CASE Top
  BY <1>4 DEF Top
<1>5. CASE FindReturns
  BY <1>5 DEF FindReturns, Return, configurations, arguments
<1>6. CASE PushReturns
  BY <1>6 DEF PushReturns, Return
<1>7. CASE Work /\ ~FindReturns /\ ~PushReturns
  <2>1. /\ UNCHANGED <<configurations, arguments>>
        /\ answer' = answer \/ answer' = "popped"
        /\ pc' \in {"search", "make", "located", "chain"} =>
             pc \in {"search", "make", "located", "chain"}
        /\ pc' \in {"search", "make", "located"} => pc \in {"search", "make", "located"}
    BY <1>7 DEF Work, NextSibling, LastMatches, Matches, Descend, StartList, InsertSibling,
       InsertNode, AfterNode, MakeState, StartChain, ChainNext, RetrieveState, RetrieveReturns, Return
  <2> QED
    BY <2>1 DEF configurations, arguments
<1>8. CASE UNCHANGED vars
  BY <1>8 DEF vars, configurations, arguments
<1> QED
  BY <1>1, <1>2, <1>3, <1>4, <1>5, <1>6, <1>7, <1>8 DEF Next, Work

-----------------------------------------------------------------------------
(* The mapping of what a step leaves alone.                                *)

LEMMA SameMapping ==
  ASSUME IInv, UNCHANGED <<pool, configuration_stack>>,
         \A c \in DOMAIN pool : pool[c].last_element # NULL => StackOf(c)' = StackOf(c)
  PROVE  visitedBar' = visitedBar /\ pendingBar' = pendingBar
<1>1. visitedBar' = visitedBar
  BY DEF visitedBar
<1>2. \A i \in DOMAIN configuration_stack :
        /\ configuration_stack[i] \in DOMAIN pool
        /\ pool[configuration_stack[i]].last_element # NULL
  BY DEF IInv, TypeOK, ElementInv
<1>3. \A i \in DOMAIN configuration_stack :
        entryBar(configuration_stack[i])' = entryBar(configuration_stack[i])
  BY <1>2 DEF entryBar
<1>4. pendingBar' = pendingBar
  BY <1>3 DEF pendingBar
<1> QED
  BY <1>1, <1>4

LEMMA TreeKept ==
  ASSUME UNCHANGED <<tree, pool>>
  PROVE  \A c : StackOf(c)' = StackOf(c)
  BY DEF StackOf, tree

(* While a call is under way its client has no answer.                     *)
LEMMA NoAnswerYet ==
  ASSUME answer = "none", pc # "retrieve"
  PROVE  answerBar = Abs!NoAnswer /\ restoredBar = <<>>
  BY DEF answerBar, restoredBar, Abs!NoAnswer

LEMMA InitMaps == Init => Abs!Init
<1> SUFFICES ASSUME Init PROVE Abs!Init
  OBVIOUS
<1>1. pool = <<>> /\ configuration_stack = <<>> /\ answer = "none" /\ pc = "idle"
  BY DEF Init
<1>2. visitedBar = {} /\ pendingBar = <<>>
  BY <1>1 DEF visitedBar, pendingBar
<1>3. answerBar = Abs!NoAnswer /\ restoredBar = <<>>
  BY <1>1, NoAnswerYet
<1> QED
  BY <1>2, <1>3 DEF Abs!Init

(* A step inside a call that does not answer: the client sees nothing.     *)
LEMMA InsideACall ==
  ASSUME IInv, pc \notin {"idle", "retrieve"}, pc' \notin {"idle", "retrieve"},
         UNCHANGED <<pool, configuration_stack, answer>>,
         \A c \in DOMAIN pool : pool[c].last_element # NULL => StackOf(c)' = StackOf(c)
  PROVE  UNCHANGED Abs!vars
<1>1. answer = "none" /\ answer' = "none"
  BY DEF IInv, AnswerInv
<1>2. answerBar = Abs!NoAnswer /\ restoredBar = <<>>
  BY <1>1, NoAnswerYet
<1>3. answerBar' = Abs!NoAnswer /\ restoredBar' = <<>>
  BY <1>1 DEF answerBar, restoredBar, Abs!NoAnswer
<1> QED
  BY <1>2, <1>3, SameMapping DEF Abs!vars

LEMMA WalkMaps ==
  ASSUME IInv, NextSibling \/ LastMatches \/ Descend \/ StartList \/ StartChain \/ ChainNext
  PROVE  UNCHANGED Abs!vars
<1>1. /\ pc \notin {"idle", "retrieve"} /\ pc' \notin {"idle", "retrieve"}
      /\ UNCHANGED <<tree, pool, configuration_stack, answer>>
  BY DEF NextSibling, LastMatches, Matches, Descend, StartList, StartChain, ChainNext, configurations
<1> QED
  BY <1>1, TreeKept, InsideACall

(* A new node does not change what the elements stand for.                 *)
LEMMA GrowthMaps ==
  ASSUME IInv, InsertSibling \/ MakeState
  PROVE  UNCHANGED Abs!vars
<1>1. /\ pc \notin {"idle", "retrieve"} /\ pc' \notin {"idle", "retrieve"}
      /\ UNCHANGED <<pool, configuration_stack, answer>>
      /\ path' = Append(path, SubSeq(stack, 1, index))
      /\ pc \in {"search", "make"}
  BY DEF InsertSibling, InsertNode, MakeState, AfterNode, configurations
<1>2. index \in 1 .. Len(stack) /\ stack \in Stacks
  BY <1>1, StackFacts DEF IInv, SearchInv, MakeInv, WalkInv
<1>3. SubSeq(stack, 1, index) \in Seq(Int)
  BY <1>2, StackFacts, SubSeqProperties DEF IInv
<1>4. path \in Seq(Seq(Int)) /\ Nodes = 1 .. Len(path)
  BY NodeFacts DEF IInv, TypeOK
<1>5. \A n \in Nodes : path'[n] = path[n]
  BY <1>1, <1>3, <1>4, AppendFacts
<1>6. \A c \in DOMAIN pool : pool[c].last_element # NULL => StackOf(c)' = StackOf(c)
  BY <1>1, <1>5 DEF IInv, ElementInv, StackOf
<1> QED
  BY <1>1, <1>6, InsideACall

(* findConfiguration and push begin: the last answer is used up.           *)
LEMMA FindConfigurationMaps ==
  ASSUME IInv, NEW s \in Stacks, NEW t \in Curtoks, FindConfiguration(s, t)
  PROVE  Abs!Begin
<1>1. answer' = "none" /\ pc' = "search" /\ UNCHANGED <<tree, pool, configuration_stack>>
  BY DEF FindConfiguration, StartWalk, configurations
<1>2. answerBar' = Abs!NoAnswer /\ restoredBar' = <<>>
  BY <1>1 DEF answerBar, restoredBar, Abs!NoAnswer
<1>3. visitedBar' = visitedBar /\ pendingBar' = pendingBar
  BY <1>1, TreeKept, SameMapping
<1> QED
  BY <1>2, <1>3 DEF Abs!Begin

(* What findConfiguration answers is whether the configuration was pushed. *)
LEMMA FindReturnsMaps ==
  ASSUME IInv, RequestInv, FindReturns
  PROVE  \E s \in Stacks, t \in Curtoks : Abs!Find(s, t)
<1>1. /\ pc = "chain" /\ pc' = "idle"
      /\ UNCHANGED <<tree, pool, configuration_stack, stack, curtok>>
      /\ answer' \in {"new", "found"}
      /\ answer' = "found" <=> cursor # NULL /\ SameConfiguration(cursor)
  BY DEF FindReturns, Return, configurations, arguments
<1>2. stack \in Stacks /\ curtok \in Curtoks /\ answer = "none" /\ op = "find"
  BY <1>1 DEF IInv, WalkInv, RequestInv, AnswerInv
<1>3. answerBar = Abs!NoAnswer /\ restoredBar = <<>>
  BY <1>1, <1>2, NoAnswerYet
<1>4. restoredBar' = <<>> /\ answerBar' = [op |-> answer', stack |-> stack, curtok |-> curtok]
  BY <1>1 DEF answerBar, restoredBar
<1>5. visitedBar' = visitedBar /\ pendingBar' = pendingBar
  BY <1>1, TreeKept, SameMapping
<1>6. p \in Nodes /\ path[p] = stack
  BY <1>1 DEF IInv, LocatedInv
<1>7. answer' = "found" => <<stack, curtok>> \in visitedBar
  <2>1. SUFFICES ASSUME cursor # NULL, SameConfiguration(cursor)
                 PROVE  <<stack, curtok>> \in visitedBar
    BY <1>1
  <2>2. cursor \in DOMAIN pool
    BY <2>1, PoolFacts DEF IInv, TypeOK, NULL
  <2>3. /\ pool[cursor].last_element = p /\ pool[cursor].curtok = curtok
        /\ StackOf(cursor) = stack
    BY <1>6, <2>1 DEF SameConfiguration, StackOf
  <2>4. pool[cursor].last_element # NULL
    BY <1>6, <2>3, NodeFacts DEF IInv, NULL
  <2> QED
    BY <2>2, <2>3, <2>4 DEF visitedBar
<1>8. <<stack, curtok>> \in visitedBar => answer' = "found"
  <2>1. SUFFICES ASSUME answer' = "new", NEW d \in DOMAIN pool, pool[d].last_element # NULL,
                        StackOf(d) = stack, pool[d].curtok = curtok
                 PROVE  FALSE
    BY <1>1 DEF visitedBar
  <2>2. pool[d].last_element = p
    BY <1>6, <2>1 DEF IInv, ElementInv, TreeFaithful, StackOf
  <2>3. d <= cursor
    BY <1>1, <2>1 DEF IInv, ChainInv
  <2>4. cursor # NULL => ~SameConfiguration(cursor)
    BY <1>1, <2>1
  <2>5. cursor # NULL
    BY <2>1, <2>3, PoolFacts DEF IInv, NULL
  <2>6. cursor = NULL
    BY <1>1, <2>1, <2>4 DEF FindReturns, Return
  <2> QED
    BY <2>5, <2>6
<1>9. answer' = IF <<stack, curtok>> \in visitedBar THEN "found" ELSE "new"
  BY <1>1, <1>7, <1>8
<1>10. Abs!Find(stack, curtok)
  BY <1>3, <1>4, <1>5, <1>9 DEF Abs!Find
<1> QED
  BY <1>2, <1>10

(* push begins: the element that has no node yet is not yet visited.       *)
LEMMA PushMaps ==
  ASSUME IInv, NEW ci \in ConflictIndices, NEW al \in ActionLengths, Push(ci, al)
  PROVE  Abs!Begin
<1> DEFINE e == [next |-> table[HashAddress(curtok)],
                 last_element |-> NULL, stack_top |-> Len(stack),
                 conflict_index |-> ci, curtok |-> curtok,
                 action_length |-> al, act |-> 0]
<1>1. /\ pool' = Append(pool, e) /\ pc' = "search" /\ answer' = "none"
      /\ UNCHANGED <<tree, configuration_stack>>
  BY DEF Push, StartWalk
<1>2. e.last_element = NULL
  OBVIOUS
<1> HIDE DEF e
<1>3. /\ DOMAIN pool = 1 .. Len(pool) /\ Len(pool) \in Nat
      /\ DOMAIN pool' = 1 .. Len(pool) + 1 /\ pool'[Len(pool) + 1] = e
      /\ \A c \in DOMAIN pool : pool'[c] = pool[c]
  <2>1. pool \in Seq(Element \cup {e}) /\ e \in Element \cup {e}
    BY DEF IInv, TypeOK
  <2> QED
    BY <1>1, <2>1, AppendFacts, PoolFacts DEF IInv
<1>4. \A c \in DOMAIN pool : StackOf(c)' = StackOf(c)
  BY <1>1, <1>3 DEF StackOf, tree
<1>5. visitedBar' = visitedBar
  <2>1. \A c : c \in DOMAIN pool' /\ pool'[c].last_element # NULL
               <=> c \in DOMAIN pool /\ pool[c].last_element # NULL
    BY <1>2, <1>3
  <2>2. {c \in DOMAIN pool' : pool'[c].last_element # NULL}
          = {c \in DOMAIN pool : pool[c].last_element # NULL}
    BY <2>1
  <2>3. \A c \in {d \in DOMAIN pool : pool[d].last_element # NULL} :
          <<StackOf(c), pool[c].curtok>>' = <<StackOf(c), pool[c].curtok>>
    BY <1>3, <1>4
  <2> QED
    BY <2>2, <2>3 DEF visitedBar
<1>6. pendingBar' = pendingBar
  <2>1. \A i \in DOMAIN configuration_stack : configuration_stack[i] \in DOMAIN pool
    BY DEF IInv, TypeOK
  <2>2. \A i \in DOMAIN configuration_stack :
          entryBar(configuration_stack[i])' = entryBar(configuration_stack[i])
    BY <1>1, <1>3, <1>4, <2>1 DEF entryBar
  <2> QED
    BY <1>1, <2>2 DEF pendingBar
<1>7. answerBar' = Abs!NoAnswer /\ restoredBar' = <<>>
  BY <1>1 DEF answerBar, restoredBar, Abs!NoAnswer
<1> QED
  BY <1>5, <1>6, <1>7 DEF Abs!Begin

(* push ends: the configuration is visited and the next to be tried.       *)
LEMMA PushReturnsMaps ==
  ASSUME IInv, RequestInv, PushReturns
  PROVE  \E s \in Stacks, t \in Curtoks, ci \in ConflictIndices, al \in ActionLengths :
           Abs!Push(s, t, ci, al)
<1> PICK c, ci, al : c = Len(pool) /\ ci = pool[c].conflict_index /\ al = pool[c].action_length
  OBVIOUS
<1>1. /\ UNCHANGED <<tree, table, op, cursor, buffer>>
      /\ pool' = [pool EXCEPT ![c].last_element = p]
      /\ configuration_stack' = Append(configuration_stack, c)
      /\ pc = "located" /\ op = "push" /\ pc' = "idle" /\ answer' = "pushed"
  BY DEF PushReturns, Return
<1>2. /\ Unknown /\ c > 0 /\ pool[c].last_element = NULL /\ pool[c].curtok = curtok
      /\ p \in Nodes /\ path[p] = stack /\ ci \in ConflictIndices
      /\ stack \in Stacks /\ curtok \in Curtoks /\ answer = "none"
  BY <1>1 DEF IInv, PushInv, Inserting, LocatedInv, WalkInv, RequestInv, AnswerInv
<1>3. /\ c \in DOMAIN pool /\ DOMAIN pool = 1 .. c /\ c \in Nat
      /\ p # NULL /\ p \in Nat /\ al \in ActionLengths
  <2>1. c \in DOMAIN pool /\ DOMAIN pool = 1 .. c /\ c \in Nat
    BY <1>2, PoolFacts DEF IInv
  <2>2. p # NULL /\ p \in Nat
    BY <1>2, NodeFacts DEF IInv, NULL
  <2> QED
    BY <2>1, <2>2, PoolFacts DEF IInv
<1>4. /\ DOMAIN pool' = DOMAIN pool
      /\ \A d \in DOMAIN pool : d # c => pool'[d] = pool[d]
      /\ pool'[c].last_element = p /\ pool'[c].curtok = curtok
      /\ pool'[c].conflict_index = ci /\ pool'[c].action_length = al
  <2> DEFINE e == [pool[c] EXCEPT !.last_element = p]
  <2>1. pool[c] \in Element /\ p \in Nat
    BY <1>2, <1>3, PoolFacts, NodeFacts DEF IInv, TypeOK
  <2>2. e.last_element = p /\ e.curtok = pool[c].curtok
        /\ e.conflict_index = ci /\ e.action_length = al
    BY <2>1 DEF Element
  <2>3. pool' = [pool EXCEPT ![c] = e]
    BY <1>1
  <2> HIDE DEF e
  <2> QED
    BY <1>2, <1>3, <2>2, <2>3
<1>5. /\ \A d \in DOMAIN pool : d # c => /\ pool[d].last_element # NULL
                                         /\ StackOf(d)' = StackOf(d)
                                         /\ pool'[d].curtok = pool[d].curtok
                                         /\ pool'[d].last_element = pool[d].last_element
                                         /\ entryBar(d)' = entryBar(d)
      /\ pool'[c].last_element # NULL
      /\ StackOf(c)' = stack
  BY <1>1, <1>2, <1>3, <1>4 DEF IInv, ElementInv, StackOf, entryBar, tree
<1>6. <<stack, curtok>> \notin visitedBar
  BY <1>2 DEF visitedBar, Unknown
<1>7. visitedBar' = visitedBar \cup {<<stack, curtok>>}
  <2>1. {d \in DOMAIN pool : pool[d].last_element # NULL} = DOMAIN pool \ {c}
    BY <1>2, <1>5
  <2>2. {d \in DOMAIN pool : pool[d].last_element # NULL}' = DOMAIN pool
    BY <1>4, <1>5
  <2>3. visitedBar = {<<StackOf(d), pool[d].curtok>> : d \in DOMAIN pool \ {c}}
    BY <2>1 DEF visitedBar
  <2>4. visitedBar' = {<<StackOf(d)', pool'[d].curtok>> : d \in DOMAIN pool}
    BY <2>2 DEF visitedBar
  <2> QED
    BY <1>3, <1>4, <1>5, <2>3, <2>4
<1>8. pendingBar' = Append(pendingBar, Abs!Entry(stack, curtok, ci, al))
  <2> PICK entry, n : entry = Abs!Entry(stack, curtok, ci, al) /\ n = Len(configuration_stack)
    OBVIOUS
  <2> DEFINE E == {entryBar(configuration_stack[i]) : i \in 1 .. n} \cup {entry}
  <2>1. configuration_stack \in Seq(DOMAIN pool) /\ c \in DOMAIN pool
    BY <1>3 DEF IInv, TypeOK
  <2>2. /\ n \in Nat /\ DOMAIN configuration_stack = 1 .. n
        /\ DOMAIN configuration_stack' = 1 .. n + 1
        /\ \A i \in 1 .. n : configuration_stack'[i] = configuration_stack[i]
        /\ configuration_stack'[n + 1] = c
        /\ \A i \in 1 .. n : configuration_stack[i] \in DOMAIN pool
    BY <1>1, <2>1, AppendFacts, LenProperties
  <2>3. \A i \in 1 .. n : configuration_stack[i] # c
    BY <1>2, <2>2 DEF IInv, ElementInv
  <2>4. entryBar(c)' = entry
    BY <1>4, <1>5 DEF entryBar, Abs!Entry
  <2>5. /\ pendingBar = [i \in 1 .. n |-> entryBar(configuration_stack[i])]
        /\ pendingBar' = [i \in 1 .. n + 1 |-> entryBar(configuration_stack[i])']
    BY <2>2 DEF pendingBar
  <2>6. /\ \A i \in 1 .. n : pendingBar'[i] = pendingBar[i]
        /\ pendingBar'[n + 1] = entry
    <3>1. ASSUME NEW i \in 1 .. n PROVE pendingBar'[i] = pendingBar[i]
      <4>1. i \in 1 .. n + 1
        BY <2>2
      <4>2. entryBar(configuration_stack[i])' = entryBar(configuration_stack[i])
        BY <1>5, <2>2, <2>3 DEF entryBar
      <4> QED
        BY <2>5, <4>1, <4>2
    <3>2. n + 1 \in 1 .. n + 1
      BY <2>2
    <3>3. entryBar(configuration_stack[n + 1])' = entry
      BY <2>2, <2>4 DEF entryBar
    <3> QED
      BY <2>5, <3>1, <3>2, <3>3
  <2>7. /\ pendingBar \in Seq(E) /\ Len(pendingBar) = n /\ entry \in E
        /\ pendingBar' \in Seq(E) /\ Len(pendingBar') = n + 1
    <3>1. n + 1 \in Nat /\ \A i \in 1 .. n + 1 : i = n + 1 \/ i \in 1 .. n
      BY <2>2
    <3>2. \A i \in 1 .. n : entryBar(configuration_stack[i]) \in E
      OBVIOUS
    <3>3. entry \in E
      OBVIOUS
    <3>4. \A i \in 1 .. n : pendingBar[i] \in E
      BY <2>5, <3>2
    <3>5. \A i \in 1 .. n + 1 : pendingBar'[i] \in E
      BY <2>6, <3>1, <3>3, <3>4
    <3> HIDE DEF E
    <3>6. pendingBar = [i \in 1 .. n |-> pendingBar[i]]
      BY <2>5
    <3>7. pendingBar' = [i \in 1 .. n + 1 |-> pendingBar'[i]]
      BY <2>5
    <3> QED
      BY <2>2, <3>1, <3>3, <3>4, <3>5, <3>6, <3>7, IsASeq
  <2> HIDE DEF E
  <2>8. /\ Append(pendingBar, entry) \in Seq(E) /\ Len(Append(pendingBar, entry)) = n + 1
        /\ \A i \in 1 .. n : Append(pendingBar, entry)[i] = pendingBar[i]
        /\ Append(pendingBar, entry)[n + 1] = entry
    BY <2>7, AppendFacts
  <2>9. \A i \in 1 .. n + 1 : pendingBar'[i] = Append(pendingBar, entry)[i]
    <3>1. \A i \in 1 .. n + 1 : i = n + 1 \/ i \in 1 .. n
      BY <2>2
    <3> QED
      BY <2>6, <2>8, <3>1
  <2>10. pendingBar' = Append(pendingBar, entry)
    BY <2>7, <2>8, <2>9, SeqEqual
  <2> QED
    BY <2>10
<1>9. /\ answerBar = Abs!NoAnswer /\ restoredBar = <<>>
      /\ answerBar' = [op |-> "pushed"] /\ restoredBar' = <<>>
  BY <1>1, <1>2 DEF answerBar, restoredBar, Abs!NoAnswer
<1>10. Abs!Push(stack, curtok, ci, al)
  BY <1>6, <1>7, <1>8, <1>9 DEF Abs!Push
<1> QED
  BY <1>2, <1>3, <1>10

-----------------------------------------------------------------------------
(* pop, top and retrieveStack.                                             *)

(* The entries to be tried, as a sequence.                                 *)
LEMMA PendingFacts ==
  ASSUME IInv
  PROVE  /\ Len(configuration_stack) \in Nat
         /\ DOMAIN configuration_stack = 1 .. Len(configuration_stack)
         /\ \A i \in 1 .. Len(configuration_stack) : configuration_stack[i] \in DOMAIN pool
         /\ pendingBar \in Seq({entryBar(c) : c \in DOMAIN pool})
         /\ Len(pendingBar) = Len(configuration_stack)
         /\ \A i \in 1 .. Len(configuration_stack) :
              pendingBar[i] = entryBar(configuration_stack[i])
         /\ pendingBar = <<>> <=> configuration_stack = <<>>
<1>1. configuration_stack \in Seq(DOMAIN pool)
  BY DEF IInv, TypeOK
<1> DEFINE n == Len(configuration_stack)
<1>2. /\ n \in Nat /\ DOMAIN configuration_stack = 1 .. n
      /\ \A i \in 1 .. n : configuration_stack[i] \in DOMAIN pool
  BY <1>1, LenProperties, ElementOfSeq
<1> DEFINE E == {entryBar(c) : c \in DOMAIN pool}
<1>3. \A i \in 1 .. n : entryBar(configuration_stack[i]) \in E
  BY <1>2
<1>4. pendingBar = [i \in 1 .. n |-> entryBar(configuration_stack[i])]
  BY <1>2 DEF pendingBar
<1> HIDE DEF E
<1>5. pendingBar \in Seq(E) /\ Len(pendingBar) = n
  BY <1>2, <1>3, <1>4, IsASeq
<1>6. \A i \in 1 .. n : pendingBar[i] = entryBar(configuration_stack[i])
  BY <1>4
<1>7. pendingBar = <<>> <=> configuration_stack = <<>>
  BY <1>1, <1>5, EmptySeq
<1> QED
  BY <1>2, <1>5, <1>6, <1>7 DEF E

LEMMA PopMaps ==
  ASSUME IInv, Pop
  PROVE  Abs!Pop
<1>1. UNCHANGED tree /\ pc = "idle"
  BY DEF Pop
<1>2. CASE configuration_stack = <<>>
  <2>1. /\ UNCHANGED <<pool, configuration_stack>> /\ pc' = "idle" /\ answer' = "empty"
    BY <1>1, <1>2 DEF Pop
  <2>2. visitedBar' = visitedBar /\ pendingBar' = pendingBar
    BY <1>1, <2>1, TreeKept, SameMapping
  <2>3. restoredBar' = <<>> /\ answerBar' = [op |-> "empty"]
    BY <2>1 DEF answerBar, restoredBar
  <2>4. pendingBar = <<>>
    BY <1>2, PendingFacts
  <2> QED
    BY <2>2, <2>3, <2>4 DEF Abs!Pop
<1>3. CASE configuration_stack # <<>>
  <2> PICK c, ci, n : /\ c = Last(configuration_stack) /\ ci = pool[c].conflict_index
                      /\ n = Len(configuration_stack)
    OBVIOUS
  <2>1. /\ pool' = [pool EXCEPT ![c] = [pool[c] EXCEPT !.act = baseAction[ci],
                                                       !.conflict_index = ci + 1]]
        /\ configuration_stack' = DropWhenExhausted(ci + 1)
        /\ pc' = "retrieve" /\ cursor' = c /\ answer' = "none"
    BY <1>3 DEF Pop
  <2>2. /\ c \in DOMAIN pool /\ n \in Nat /\ n > 0 /\ c = configuration_stack[n]
        /\ baseAction[ci] \in Int /\ ci + 1 \in DOMAIN baseAction
    BY <1>1, <1>3, PendingTop, PendingFacts
  <2>3. /\ DOMAIN configuration_stack = 1 .. n /\ n \in 1 .. n
        /\ \A i \in 1 .. n : configuration_stack[i] \in DOMAIN pool
        /\ pendingBar \in Seq({entryBar(d) : d \in DOMAIN pool})
        /\ Len(pendingBar) = n /\ pendingBar # <<>>
        /\ \A i \in 1 .. n : pendingBar[i] = entryBar(configuration_stack[i])
    BY <1>3, <2>2, PendingFacts
  <2>4. \A i \in 1 .. n : i # n => configuration_stack[i] # c
    <3>1. \A i \in 1 .. n : i # n => configuration_stack[i] < c
      BY <2>2, <2>3 DEF IInv, PendingUntilExhausted
    <3>2. c \in Nat
      BY <2>2, PoolFacts DEF IInv
    <3>3. ~(c < c)
      BY <3>2
    <3> QED
      BY <3>1, <3>3
  <2>5. /\ DOMAIN pool' = DOMAIN pool
        /\ \A d \in DOMAIN pool : d # c => pool'[d] = pool[d]
        /\ pool'[c].act = baseAction[ci] /\ pool'[c].conflict_index = ci + 1
        /\ pool'[c].curtok = pool[c].curtok /\ pool'[c].action_length = pool[c].action_length
        /\ pool'[c].last_element = pool[c].last_element
    <3>1. pool[c] \in Element
      BY <2>2, PoolFacts DEF IInv
    <3> PICK e : e = [pool[c] EXCEPT !.act = baseAction[ci], !.conflict_index = ci + 1]
      OBVIOUS
    <3>2. /\ e.act = baseAction[ci] /\ e.conflict_index = ci + 1 /\ e.curtok = pool[c].curtok
          /\ e.action_length = pool[c].action_length /\ e.last_element = pool[c].last_element
      BY <3>1 DEF Element
    <3> QED
      BY <2>1, <2>2, <3>2
  <2>6. \A d \in DOMAIN pool : /\ pool'[d].last_element = pool[d].last_element
                               /\ pool'[d].curtok = pool[d].curtok
                               /\ StackOf(d)' = StackOf(d)
                               /\ d # c => entryBar(d)' = entryBar(d)
    BY <1>1, <2>5 DEF StackOf, entryBar, tree
  <2>6a. ASSUME NEW i \in 1 .. n, i # n, configuration_stack'[i] = configuration_stack[i]
         PROVE  entryBar(configuration_stack[i])' = entryBar(configuration_stack[i])
    <3> PICK d : d = configuration_stack[i]
      OBVIOUS
    <3>1. d \in DOMAIN pool /\ d # c /\ d = configuration_stack'[i]
      BY <2>3, <2>4, <2>6a
    <3>2. entryBar(d)' = entryBar(d)
      BY <2>6, <3>1
    <3> QED
      BY <3>1, <3>2 DEF entryBar, StackOf
  <2>7. visitedBar' = visitedBar
    <3>1. {d \in DOMAIN pool : pool[d].last_element # NULL}'
            = {d \in DOMAIN pool : pool[d].last_element # NULL}
      BY <2>5, <2>6
    <3> QED
      BY <2>6, <3>1 DEF visitedBar
  <2>8. Abs!Last(pendingBar) = entryBar(c)
    BY <2>2, <2>3 DEF Abs!Last
  <2>9. answerBar' = [op |-> "popped", act |-> Abs!NextAct(pendingBar),
                      stack |-> Abs!Last(pendingBar).stack,
                      curtok |-> Abs!Last(pendingBar).curtok,
                      action_length |-> Abs!Last(pendingBar).action_length]
    <3>1. answerBar' = [op |-> "popped", act |-> pool'[c].act, stack |-> StackOf(c)',
                        curtok |-> pool'[c].curtok, action_length |-> pool'[c].action_length]
      BY <2>1 DEF answerBar, StackOf
    <3>2. /\ entryBar(c).stack = StackOf(c) /\ entryBar(c).curtok = pool[c].curtok
          /\ entryBar(c).action_length = pool[c].action_length
          /\ entryBar(c).conflict_index = ci
      BY <2>2 DEF entryBar
    <3>3. Abs!NextAct(pendingBar) = baseAction[ci]
      BY <2>8, <3>2 DEF Abs!NextAct
    <3>4. StackOf(c)' = StackOf(c)
      BY <2>2, <2>6
    <3> QED
      BY <2>5, <2>8, <3>1, <3>2, <3>3, <3>4
  <2>10. restoredBar' = <<>>
    BY <2>1 DEF restoredBar
  <2>11. pendingBar' = Abs!AfterPop(pendingBar)
    <3> PICK used : used = [entryBar(c) EXCEPT !.conflict_index = ci + 1]
      OBVIOUS
    <3>1. entryBar(c)' = used /\ used.conflict_index = ci + 1
      BY <2>2, <2>5, <2>6 DEF entryBar
    <3>2. Abs!AfterPop(pendingBar) = IF baseAction[ci + 1] = 0 THEN Abs!Front(pendingBar)
                                     ELSE Append(Abs!Front(pendingBar), used)
      BY <2>8, <3>1 DEF Abs!AfterPop, entryBar
    <3> DEFINE E == {entryBar(d) : d \in DOMAIN pool} \cup {used}
    <3>3. pendingBar \in Seq(E) /\ used \in E
      BY <2>3
    <3> HIDE DEF E
    <3>4. Abs!Front(pendingBar) = Front(pendingBar)
      BY DEF Abs!Front, Front
    <3>5. /\ Front(pendingBar) \in Seq(E) /\ Len(Front(pendingBar)) = n - 1
          /\ \A i \in 1 .. n - 1 : Front(pendingBar)[i] = pendingBar[i]
      BY <2>3, <3>3, FrontFacts
    <3>6. /\ DOMAIN pendingBar' = DOMAIN configuration_stack'
          /\ \A i \in DOMAIN configuration_stack' :
               pendingBar'[i] = entryBar(configuration_stack[i])'
      BY DEF pendingBar
    <3>7. \A i \in 1 .. n - 1 : /\ i \in 1 .. n /\ i # n
                                /\ configuration_stack[i] \in DOMAIN pool
                                /\ configuration_stack[i] # c
      BY <2>2, <2>3, <2>4
    <3>8. CASE baseAction[ci + 1] = 0
      <4>1. configuration_stack' = Front(configuration_stack)
        BY <2>1, <3>8 DEF DropWhenExhausted
      <4>2. /\ DOMAIN configuration_stack' = 1 .. n - 1
            /\ \A i \in 1 .. n - 1 : configuration_stack'[i] = configuration_stack[i]
        <5>1. configuration_stack \in Seq(DOMAIN pool)
          BY DEF IInv, TypeOK
        <5> QED
          BY <1>3, <4>1, <5>1, FrontFacts, LenProperties
      <4>3. \A i \in 1 .. n - 1 : pendingBar'[i] = Front(pendingBar)[i]
        BY <2>3, <2>6a, <3>5, <3>6, <3>7, <4>2
      <4>4. pendingBar' = [i \in 1 .. n - 1 |-> entryBar(configuration_stack[i])']
        BY <4>2 DEF pendingBar
      <4>5. Front(pendingBar) = [i \in 1 .. n - 1 |-> Front(pendingBar)[i]]
        BY <3>5, LenProperties
      <4>6. pendingBar' = [i \in 1 .. n - 1 |-> pendingBar'[i]]
        BY <4>4
      <4> QED
        BY <3>2, <3>4, <3>8, <4>3, <4>5, <4>6
    <3>9. CASE baseAction[ci + 1] # 0
      <4>1. configuration_stack' = configuration_stack
        BY <2>1, <3>9 DEF DropWhenExhausted
      <4>2. /\ Append(Front(pendingBar), used) \in Seq(E)
            /\ Len(Append(Front(pendingBar), used)) = n
            /\ \A i \in 1 .. n - 1 : Append(Front(pendingBar), used)[i] = pendingBar[i]
            /\ Append(Front(pendingBar), used)[n] = used
        <5>1. (n - 1) + 1 = n
          BY <2>2
        <5> QED
          BY <3>3, <3>5, <5>1, AppendFacts
      <4>3. \A i \in 1 .. n : pendingBar'[i] = Append(Front(pendingBar), used)[i]
        <5>1. \A i \in 1 .. n : i = n \/ i \in 1 .. n - 1
          BY <2>2
        <5>2. pendingBar'[n] = used
          BY <2>2, <2>3, <3>1, <3>6, <4>1 DEF entryBar
        <5>3. \A i \in 1 .. n - 1 : pendingBar'[i] = pendingBar[i]
          BY <2>3, <2>6a, <3>6, <3>7, <4>1
        <5> QED
          BY <4>2, <5>1, <5>2, <5>3
      <4>4. pendingBar' = [i \in 1 .. n |-> pendingBar'[i]]
        BY <2>3, <4>1 DEF pendingBar
      <4>5. Append(Front(pendingBar), used) = [i \in 1 .. n |-> Append(Front(pendingBar), used)[i]]
        BY <4>2, LenProperties
      <4> QED
        BY <3>2, <3>4, <3>9, <4>3, <4>4, <4>5
    <3> QED
      BY <3>8, <3>9
  <2> QED
    BY <2>3, <2>7, <2>9, <2>10, <2>11 DEF Abs!Pop
<1> QED
  BY <1>2, <1>3

LEMMA TopMaps ==
  ASSUME IInv, Top
  PROVE  Abs!Peek
<1>1. UNCHANGED <<tree, configuration_stack>> /\ pc = "idle" /\ pc' = "idle"
  BY DEF Top
<1>2. restoredBar' = <<>>
  BY DEF Top, restoredBar
<1>3. CASE configuration_stack = <<>>
  <2>1. pool' = pool /\ answer' = "empty"
    BY <1>3 DEF Top
  <2>2. visitedBar' = visitedBar /\ pendingBar' = pendingBar
    BY <1>1, <2>1, TreeKept, SameMapping
  <2>3. answerBar' = [op |-> "empty"]
    BY <1>1, <2>1 DEF answerBar
  <2>4. pendingBar = <<>>
    BY <1>3, PendingFacts
  <2> QED
    BY <1>2, <2>2, <2>3, <2>4 DEF Abs!Peek
<1>4. CASE configuration_stack # <<>>
  <2> PICK c, ci : c = Last(configuration_stack) /\ ci = pool[c].conflict_index
    OBVIOUS
  <2>1. /\ pool' = [pool EXCEPT ![c] = [pool[c] EXCEPT !.act = baseAction[ci]]]
        /\ cursor' = c /\ answer' = "peeked"
    BY <1>4 DEF Top
  <2>2. c \in DOMAIN pool /\ Len(configuration_stack) > 0
        /\ c = configuration_stack[Len(configuration_stack)] /\ baseAction[ci] \in Int
    BY <1>1, <1>4, PendingTop
  <2>3. /\ DOMAIN pool' = DOMAIN pool
        /\ pool'[c].act = baseAction[ci]
        /\ \A d \in DOMAIN pool : /\ pool'[d].last_element = pool[d].last_element
                                 /\ pool'[d].curtok = pool[d].curtok
                                 /\ pool'[d].conflict_index = pool[d].conflict_index
                                 /\ pool'[d].action_length = pool[d].action_length
    <3>1. pool[c] \in Element
      BY <2>2, PoolFacts DEF IInv
    <3> PICK e : e = [pool[c] EXCEPT !.act = baseAction[ci]]
      OBVIOUS
    <3>2. /\ e.act = baseAction[ci] /\ e.conflict_index = ci /\ e.curtok = pool[c].curtok
          /\ e.action_length = pool[c].action_length /\ e.last_element = pool[c].last_element
      BY <3>1 DEF Element
    <3> QED
      BY <2>1, <2>2, <3>2
  <2>4. \A d \in DOMAIN pool : StackOf(d)' = StackOf(d) /\ entryBar(d)' = entryBar(d)
    BY <1>1, <2>3 DEF StackOf, entryBar, tree
  <2>5. visitedBar' = visitedBar
    <3>1. {d \in DOMAIN pool : pool[d].last_element # NULL}'
            = {d \in DOMAIN pool : pool[d].last_element # NULL}
      BY <2>3
    <3> QED
      BY <2>3, <2>4, <3>1 DEF visitedBar
  <2>6. pendingBar' = pendingBar
    <3>1. \A i \in DOMAIN configuration_stack : configuration_stack[i] \in DOMAIN pool
      BY PendingFacts
    <3>2. \A i \in DOMAIN configuration_stack :
            entryBar(configuration_stack[i])' = entryBar(configuration_stack[i])
      BY <1>1, <2>3, <2>4, <3>1 DEF entryBar
    <3> QED
      BY <1>1, <3>2 DEF pendingBar
  <2>7. pendingBar # <<>> /\ Abs!Last(pendingBar) = entryBar(c)
    BY <1>4, <2>2, PendingFacts DEF Abs!Last
  <2>8. Abs!NextAct(pendingBar) = baseAction[ci]
    <3>1. entryBar(c).conflict_index = ci
      BY DEF entryBar
    <3> QED
      BY <2>7, <3>1 DEF Abs!NextAct
  <2>9. answerBar' = [op |-> "peeked", act |-> baseAction[ci]]
    BY <1>1, <2>1, <2>3 DEF answerBar
  <2> QED
    BY <1>2, <2>5, <2>6, <2>7, <2>8, <2>9 DEF Abs!Peek
<1> QED
  BY <1>3, <1>4

(* While the stack is restored the answer is known but not yet delivered.  *)
LEMMA RetrieveStateMaps ==
  ASSUME IInv, RetrieveState
  PROVE  UNCHANGED Abs!vars
<1>1. /\ UNCHANGED <<tree, pool, configuration_stack, cursor, answer>>
      /\ pc = "retrieve" /\ pc' = "retrieve"
  BY DEF RetrieveState, configurations
<1>2. answer = "none"
  BY <1>1 DEF IInv, AnswerInv
<1>3. visitedBar' = visitedBar /\ pendingBar' = pendingBar
  BY <1>1, TreeKept, SameMapping
<1>4. restoredBar' = restoredBar
  BY <1>1, <1>2 DEF restoredBar
<1>5. answerBar' = answerBar
  BY <1>1 DEF answerBar, StackOf, tree
<1> QED
  BY <1>3, <1>4, <1>5 DEF Abs!vars

LEMMA RetrieveReturnsMaps ==
  ASSUME IInv, IInv', RetrieveReturns
  PROVE  Abs!Restore
<1>1. /\ UNCHANGED <<tree, pool, configuration_stack, cursor, buffer>>
      /\ pc = "retrieve" /\ pc' = "idle" /\ answer' = "popped"
  BY DEF RetrieveReturns, Return, configurations
<1>2. answer = "none"
  BY <1>1 DEF IInv, AnswerInv
<1>3. visitedBar' = visitedBar /\ pendingBar' = pendingBar
  BY <1>1, TreeKept, SameMapping
<1>4. answerBar = [op |-> "popped", act |-> pool[cursor].act, stack |-> StackOf(cursor),
                   curtok |-> pool[cursor].curtok, action_length |-> pool[cursor].action_length]
  BY <1>1, <1>2 DEF answerBar
<1>5. answerBar' = answerBar
  <2>1. answerBar' = [op |-> "popped", act |-> pool[cursor].act, stack |-> StackOf(cursor),
                      curtok |-> pool[cursor].curtok,
                      action_length |-> pool[cursor].action_length]
    BY <1>1 DEF answerBar, StackOf, tree
  <2> QED
    BY <1>4, <2>1
<1>6. restoredBar = <<>> /\ restoredBar' = buffer
  BY <1>1, <1>2 DEF restoredBar
<1>7. buffer = StackOf(cursor)
  BY <1>1 DEF IInv, RetrievedStackIsPushedStack, StackOf, tree
<1> QED
  BY <1>3, <1>4, <1>5, <1>6, <1>7 DEF Abs!Restore

LEMMA StutterMaps ==
  ASSUME IInv, UNCHANGED vars
  PROVE  UNCHANGED Abs!vars
<1>1. UNCHANGED <<tree, pool, configuration_stack, pc, stack, curtok, cursor, buffer, answer>>
  BY DEF vars, configurations, arguments
<1>2. visitedBar' = visitedBar /\ pendingBar' = pendingBar
  BY <1>1, TreeKept, SameMapping
<1>3. answerBar' = answerBar /\ restoredBar' = restoredBar
  BY <1>1 DEF answerBar, restoredBar, StackOf, tree
<1> QED
  BY <1>2, <1>3 DEF Abs!vars

(* Every step of the code is a step of the promise or changes nothing.     *)
LEMMA StepMaps ==
  IInv /\ IInv' /\ RequestInv /\ [Next]_vars => [Abs!Next]_Abs!vars
<1> SUFFICES ASSUME IInv, IInv', RequestInv, [Next]_vars PROVE [Abs!Next]_Abs!vars
  OBVIOUS
<1>1. ASSUME NEW s \in Stacks, NEW t \in Curtoks, FindConfiguration(s, t) PROVE Abs!Next
  BY <1>1, FindConfigurationMaps DEF Abs!Next
<1>2. ASSUME NEW ci \in ConflictIndices, NEW al \in ActionLengths, Push(ci, al) PROVE Abs!Next
  BY <1>2, PushMaps DEF Abs!Next
<1>3. CASE Pop
  BY <1>3, PopMaps DEF Abs!Next
<1>4. CASE Top
  BY <1>4, TopMaps DEF Abs!Next
<1>5. CASE FindReturns
  BY <1>5, FindReturnsMaps DEF Abs!Next
<1>6. CASE PushReturns
  BY <1>6, PushReturnsMaps DEF Abs!Next
<1>7. CASE RetrieveReturns
  BY <1>7, RetrieveReturnsMaps DEF Abs!Next
<1>8. CASE NextSibling \/ LastMatches \/ Descend \/ StartList \/ StartChain \/ ChainNext
  BY <1>8, WalkMaps
<1>9. CASE InsertSibling \/ MakeState
  BY <1>9, GrowthMaps
<1>10. CASE RetrieveState
  BY <1>10, RetrieveStateMaps
<1>11. CASE UNCHANGED vars
  BY <1>11, StutterMaps
<1> QED
  BY <1>1, <1>2, <1>3, <1>4, <1>5, <1>6, <1>7, <1>8, <1>9, <1>10, <1>11 DEF Next, Work

-----------------------------------------------------------------------------
(* The tree, the hash table and the stack of elements together do what     *)
(* PendingConfigurations promises to the parsers that search: what was     *)
(* pushed once is recognised for ever, and the alternatives come back last *)
(* in first out, each once, with the stack that was pushed.                *)
THEOREM ImplementsPendingConfigurations == Spec => Promise
<1>1. Init => RequestInv
  BY DEF Init, RequestInv, Inserting
<1>2. Spec => []RequestInv
  BY <1>1, RequestStep, Invariance, PTL DEF Spec
<1>3. Spec => Abs!Spec
  BY InitMaps, StepMaps, Invariance, <1>2, PTL DEF Spec, Abs!Spec
<1> QED
  BY <1>3 DEF Promise

=============================================================================
