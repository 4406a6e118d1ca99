---------------------- MODULE BacktrackingParserProofs ----------------------
(***************************************************************************)
(* In both searches of parseEntry, the one for a parse and the one that is *)
(* repeated up to the error, the log builds the stack, also after any      *)
(* number of alternatives were tried and undone, for all tables, all       *)
(* inputs and whenever the parse is cancelled.                             *)
(*                                                                         *)
(* LogBuildsStack is not inductive: that a saved configuration fits the    *)
(* part of the log that is left when its turn comes needs the saved        *)
(* lengths to rise from the bottom of the configuration stack to its top,  *)
(* so that undoing the top never cuts into what those below rest on.       *)
(***************************************************************************)
EXTENDS BacktrackingParser, ParseTableProofs

(* The stream: its dummy token 0, its tokens from 1, a marker behind.      *)
StreamInv ==
  /\ len \in Nat /\ len >= 2 /\ start_token = 1
  /\ initial_token \in {0, len}

(* Configurations that were saved while the log grew to what it is.        *)
Saved(entries, log) ==
  /\ log \in Seq(Int)
  /\ \E S : entries \in Seq(S)
  /\ \A i \in DOMAIN entries :
       \E s, t, c : \E l \in 0 .. Len(log) : entries[i] = Entry(s, t, c, l)
  /\ \A i, j \in DOMAIN entries : i <= j => entries[i].action_length <= entries[j].action_length

(* Two entries for the same configuration.                                 *)
SameConfiguration(e, f) ==
  e.stack = f.stack /\ e.curtok = f.curtok /\ e.action_length = f.action_length

SearchInv ==
  InSearch =>
    /\ StreamInv
    /\ Saved(pending, action)
    /\ LogBuildsStack

-----------------------------------------------------------------------------
LEMMA EntryFields ==
  ASSUME NEW s, NEW t, NEW c, NEW l
  PROVE  /\ Entry(s, t, c, l).stack = s
         /\ Entry(s, t, c, l).curtok = t
         /\ Entry(s, t, c, l).conflict_index = c
         /\ Entry(s, t, c, l).action_length = l
BY DEF Entry

(* A log that grows keeps what was saved, and the parts that were saved.   *)
LEMMA SavedGrows ==
  ASSUME NEW entries, NEW log, Saved(entries, log), NEW a \in Int
  PROVE  /\ Saved(entries, Append(log, a))
         /\ \A i \in DOMAIN entries :
              /\ entries[i].action_length \in 0 .. Len(log)
              /\ SubSeq(Append(log, a), 1, entries[i].action_length) =
                   SubSeq(log, 1, entries[i].action_length)
<1>1. log \in Seq(Int) /\ Append(log, a) \in Seq(Int) /\ Len(Append(log, a)) = Len(log) + 1
  BY DEF Saved
<1>2. Len(log) \in Nat
  BY <1>1
<1>3. ASSUME NEW i \in DOMAIN entries
      PROVE  /\ \E s, t, c : \E l \in 0 .. Len(Append(log, a)) : entries[i] = Entry(s, t, c, l)
             /\ entries[i].action_length \in 0 .. Len(log)
  <2>1. PICK s, t, c : \E l \in 0 .. Len(log) : entries[i] = Entry(s, t, c, l)
    BY DEF Saved
  <2>2. PICK l \in 0 .. Len(log) : entries[i] = Entry(s, t, c, l)
    BY <2>1
  <2>3. l \in 0 .. Len(Append(log, a))
    BY <1>1, <1>2
  <2>4. entries[i].action_length = l
    BY <2>2, EntryFields
  <2> QED BY <2>2, <2>3, <2>4
<1>4. Saved(entries, Append(log, a))
  BY <1>1, <1>3 DEF Saved
<1>5. \A l \in 0 .. Len(log) : SubSeq(Append(log, a), 1, l) = SubSeq(log, 1, l)
  BY <1>1
<1> QED BY <1>3, <1>4, <1>5

(* A new entry at the end of the log.                                      *)
LEMMA SavedOneMore ==
  ASSUME NEW entries, NEW log, Saved(entries, log), NEW s, NEW t, NEW c
  PROVE  LET more == Append(entries, Entry(s, t, c, Len(log)))
         IN  /\ Saved(more, log)
             /\ DOMAIN more = DOMAIN entries \cup {Len(entries) + 1}
             /\ \A i \in DOMAIN entries : more[i] = entries[i]
             /\ more[Len(entries) + 1] = Entry(s, t, c, Len(log))
<1> DEFINE e == Entry(s, t, c, Len(log))
<1>0. PICK more : more = Append(entries, e)
  OBVIOUS
<1>1. PICK S : entries \in Seq(S)
  BY DEF Saved
<1>2. entries \in Seq(S \cup {e}) /\ e \in S \cup {e}
  BY <1>1
<1>3. e.action_length = Len(log) /\ Len(log) \in Nat
  BY EntryFields DEF Saved
<1> HIDE DEF e
<1>4. /\ more \in Seq(S \cup {e}) /\ Len(entries) \in Nat
      /\ DOMAIN entries = 1 .. Len(entries)
      /\ DOMAIN more = DOMAIN entries \cup {Len(entries) + 1}
      /\ \A i \in DOMAIN entries : more[i] = entries[i]
      /\ more[Len(entries) + 1] = e
  BY <1>0, <1>2 DEF e
<1>5. \A i \in DOMAIN more :
        \E s1, t1, c1 : \E l \in 0 .. Len(log) : more[i] = Entry(s1, t1, c1, l)
  <2>1. Len(log) \in 0 .. Len(log)
    BY <1>3
  <2> QED BY <1>4, <2>1 DEF Saved, e
<1>6. \A i \in DOMAIN entries : entries[i].action_length <= Len(log)
  <2> TAKE i \in DOMAIN entries
  <2>1. PICK s1, t1, c1 : \E l \in 0 .. Len(log) : entries[i] = Entry(s1, t1, c1, l)
    BY DEF Saved
  <2>2. PICK l \in 0 .. Len(log) : entries[i] = Entry(s1, t1, c1, l)
    BY <2>1
  <2>3. entries[i].action_length = l
    BY <2>2, EntryFields
  <2> QED BY <2>3, <1>3
<1>7. \A i, j \in DOMAIN more : i <= j => more[i].action_length <= more[j].action_length
  <2>1. \A i, j \in DOMAIN entries : i <= j => entries[i].action_length <= entries[j].action_length
    BY DEF Saved
  <2> TAKE i, j \in DOMAIN more
  <2> HAVE i <= j
  <2>2. CASE j = Len(entries) + 1
    <3>1. CASE i = Len(entries) + 1
      BY <3>1, <2>2, <1>3, <1>4
    <3>2. CASE i \in DOMAIN entries
      BY <3>2, <2>2, <1>3, <1>4, <1>6
    <3> QED BY <3>1, <3>2, <1>4
  <2>3. CASE j \in DOMAIN entries
    <3>1. i \in DOMAIN entries
      BY <2>3, <1>4
    <3> QED BY <2>1, <2>3, <3>1, <1>4
  <2> QED BY <2>2, <2>3, <1>4
<1>8. Saved(more, log)
  BY <1>4, <1>5, <1>7 DEF Saved
<1> QED BY <1>0, <1>4, <1>8 DEF e

(* Taking up the top entry cuts the log back to what the entry and those   *)
(* below it rest on.                                                       *)
LEMMA SavedIsUndone ==
  ASSUME NEW entries, NEW log, Saved(entries, log), entries # << >>
  PROVE  LET back == SubSeq(log, 1, Last(entries).action_length)
             rest == AfterPop(entries)
         IN  /\ Saved(rest, back)
             /\ Len(entries) \in DOMAIN entries /\ Last(entries) = entries[Len(entries)]
             /\ \A i \in DOMAIN rest :
                  /\ i \in DOMAIN entries
                  /\ SameConfiguration(rest[i], entries[i])
                  /\ SubSeq(back, 1, rest[i].action_length) =
                       SubSeq(log, 1, entries[i].action_length)
<1>a. PICK back : back = SubSeq(log, 1, Last(entries).action_length)
  OBVIOUS
<1>b. PICK rest : rest = AfterPop(entries)
  OBVIOUS
<1>1. PICK S : entries \in Seq(S)
  BY DEF Saved
<1>2. /\ Len(entries) \in Nat /\ Len(entries) # 0 /\ DOMAIN entries = 1 .. Len(entries)
      /\ Len(entries) \in DOMAIN entries
      /\ Last(entries) = entries[Len(entries)]
  BY <1>1 DEF Last
<1>3. PICK s, t, c : \E l \in 0 .. Len(log) : Last(entries) = Entry(s, t, c, l)
  BY <1>2 DEF Saved
<1>4. PICK l \in 0 .. Len(log) : Last(entries) = Entry(s, t, c, l)
  BY <1>3
<1>5. /\ Last(entries).stack = s /\ Last(entries).curtok = t
      /\ Last(entries).conflict_index = c /\ Last(entries).action_length = l
  BY <1>4, EntryFields
<1>6. PICK used : used = Entry(s, t, c + 1, l)
  OBVIOUS
<1>7. used = [Last(entries) EXCEPT !.conflict_index = @ + 1]
  BY <1>4, <1>6 DEF Entry
<1>8. /\ used.stack = s /\ used.curtok = t /\ used.action_length = l
  BY <1>6, EntryFields
<1>9. /\ Front(entries) \in Seq(S \cup {used})
      /\ Len(Front(entries)) = Len(entries) - 1
      /\ \A i \in 1 .. Len(entries) - 1 : Front(entries)[i] = entries[i]
  BY <1>1, <1>2 DEF Front
<1>10. rest = Front(entries) \/ rest = Append(Front(entries), used)
  BY <1>b, <1>7 DEF AfterPop
<1>11. /\ rest \in Seq(S \cup {used})
       /\ DOMAIN rest \subseteq DOMAIN entries
       /\ \A i \in DOMAIN rest : i # Len(entries) => rest[i] = entries[i]
       /\ \A i \in DOMAIN rest : i = Len(entries) => rest[i] = used
  <2>1. CASE rest = Front(entries)
    BY <2>1, <1>2, <1>9
  <2>2. CASE rest = Append(Front(entries), used)
    <3> DEFINE f == Front(entries)
               T == S \cup {used}
    <3>0. f \in Seq(T) /\ used \in T /\ rest = Append(f, used)
      BY <2>2, <1>9
    <3> HIDE DEF f, T
    <3>a. /\ rest \in Seq(T) /\ Len(rest) = Len(f) + 1
          /\ \A i \in 1 .. Len(f) : rest[i] = f[i]
          /\ rest[Len(f) + 1] = used
      BY ONLY <3>0, AppendProperties
    <3>1. /\ rest \in Seq(S \cup {used}) /\ Len(rest) = Len(entries)
          /\ \A i \in 1 .. Len(entries) - 1 : rest[i] = Front(entries)[i]
          /\ rest[Len(entries)] = used
      BY <3>a, <1>2, <1>9 DEF f, T
    <3>2. \A i \in DOMAIN rest : i \in 1 .. Len(entries)
      BY ONLY <3>1
    <3>3. \A i \in DOMAIN rest : i # Len(entries) => i \in 1 .. Len(entries) - 1
      BY ONLY <3>2, <1>2
    <3>4. DOMAIN rest \subseteq DOMAIN entries
      BY ONLY <3>2, <1>2
    <3>5. \A i \in DOMAIN rest : i # Len(entries) => rest[i] = entries[i]
      BY ONLY <3>1, <3>3, <1>9
    <3> QED BY ONLY <3>1, <3>4, <3>5
  <2> QED BY <1>10, <2>1, <2>2
<1>12. /\ log \in Seq(Int) /\ Len(log) \in Nat /\ l \in Nat
       /\ back \in Seq(Int) /\ Len(back) = l
       /\ \A n \in 0 .. l : SubSeq(back, 1, n) = SubSeq(log, 1, n)
  <2>1. log \in Seq(Int) /\ Len(log) \in Nat /\ l \in Nat /\ l <= Len(log)
    BY <1>4 DEF Saved
  <2>2. back = SubSeq(log, 1, l)
    BY <1>a, <1>5
  <2>3. back \in Seq(Int) /\ Len(back) = l
    <3>1. l \in Int /\ 1 \in Int /\ \A i \in 1 .. l : log[i] \in Int
      BY <2>1
    <3>2. /\ SubSeq(log, 1, l) \in Seq(Int)
          /\ Len(SubSeq(log, 1, l)) = IF 1 <= l THEN l - 1 + 1 ELSE 0
      BY ONLY <3>1, SubSeqProperties
    <3>3. PICK k : k = Len(SubSeq(log, 1, l))
      OBVIOUS
    <3>4. k = l
      BY <2>1, <3>2, <3>3
    <3> QED BY <2>2, <3>2, <3>3, <3>4, Zenon
  <2>4. \A n \in 0 .. l : SubSeq(back, 1, n) = SubSeq(log, 1, n)
    BY <2>1, <2>2, <2>3
  <2> QED BY <2>1, <2>3, <2>4
<1>13. ASSUME NEW i \in DOMAIN rest
       PROVE  /\ i \in DOMAIN entries /\ SameConfiguration(rest[i], entries[i])
              /\ \E s1, t1, c1 : \E n \in 0 .. l :
                    rest[i] = Entry(s1, t1, c1, n) /\ entries[i].action_length = n
  <2>1. CASE i = Len(entries)
    <3>1. rest[i] = used /\ i \in DOMAIN entries /\ l \in 0 .. l
      BY <2>1, <1>2, <1>11, <1>12
    <3>2. SameConfiguration(rest[i], entries[i]) /\ entries[i].action_length = l
      BY <2>1, <3>1, <1>2, <1>5, <1>8 DEF SameConfiguration
    <3> QED BY <3>1, <3>2, <1>6
  <2>2. CASE i # Len(entries)
    <3>1. rest[i] = entries[i] /\ i \in DOMAIN entries
      BY <2>2, <1>11
    <3>2. PICK s1, t1, c1 : \E n \in 0 .. Len(log) : entries[i] = Entry(s1, t1, c1, n)
      BY <3>1 DEF Saved
    <3>3. PICK n \in 0 .. Len(log) : entries[i] = Entry(s1, t1, c1, n)
      BY <3>2
    <3>4. entries[i].action_length = n
      BY <3>3, EntryFields
    <3>5. i <= Len(entries) /\ entries[i].action_length <= entries[Len(entries)].action_length
      BY <3>1, <1>2 DEF Saved
    <3>6. n \in 0 .. l
      BY <3>4, <3>5, <1>2, <1>5, <1>12
    <3> QED BY <3>1, <3>3, <3>4, <3>6 DEF SameConfiguration
  <2> QED BY <2>1, <2>2
<1>14. \A i \in DOMAIN rest : \E s1, t1, c1 : \E n \in 0 .. Len(back) : rest[i] = Entry(s1, t1, c1, n)
  BY <1>12, <1>13
<1>15. \A i, j \in DOMAIN rest : i <= j => rest[i].action_length <= rest[j].action_length
  BY <1>13 DEF Saved, SameConfiguration
<1>16. Saved(rest, back)
  BY <1>11, <1>12, <1>14, <1>15 DEF Saved
<1>17. ASSUME NEW i \in DOMAIN rest
       PROVE  SubSeq(back, 1, rest[i].action_length) = SubSeq(log, 1, entries[i].action_length)
  BY <1>12, <1>13 DEF SameConfiguration
<1> QED BY <1>a, <1>b, <1>2, <1>13, <1>16, <1>17

-----------------------------------------------------------------------------
(* The tokens are taken one after the other.                               *)
LEMMA NextTokenTaken ==
  ASSUME StreamInv, NEW n \in Nat, NEW t, NEW cursor,
         TokenTaken(n) = t,
         peek(cursor) = IF t = initial_token THEN start_token ELSE getNext(t)
  PROVE  /\ TokenTaken(n + 1) = getNext(cursor)
         /\ peek(getNext(cursor)) =
              IF getNext(cursor) = initial_token THEN start_token ELSE getNext(getNext(cursor))
BY DEF StreamInv, TokenTaken, peek, getNext

(* The stream stands behind the token on which a configuration was saved.  *)
LEMMA CursorIsBehind ==
  ASSUME StreamInv, NEW n \in Nat, NEW t, TokenTaken(n) = t
  PROVE  peek(CursorAt(t)) = IF t = initial_token THEN start_token ELSE getNext(t)
BY DEF StreamInv, TokenTaken, CursorAt, peek, getNext, getPrevious

(* The search starts with an empty log.                                    *)
LEMMA SearchInvInit == SearchInit => SearchInv
<1> SUFFICES ASSUME SearchInit PROVE SearchInv
  OBVIOUS
<1>1. StreamInv
  <2>1. PICK input \in Inputs : len = Len(input) + 1
    BY DEF SearchInit
  <2>2. Len(input) \in Nat /\ Len(input) # 0
    BY <2>1, InputsAssumption DEF InputsAssumption
  <2>3. start_token = 1
    BY <2>1, <2>2 DEF SearchInit, peek, getNext
  <2>4. initial_token \in {0, len}
    BY DEF SearchInit
  <2> QED BY <2>1, <2>2, <2>3, <2>4 DEF StreamInv
<1>2. action = << >> /\ pending = << >> /\ stack = Started
  BY DEF SearchInit, Started
<1>3. Saved(pending, action)
  <2>1. DOMAIN << >> = {} /\ << >> \in Seq(Int)
    OBVIOUS
  <2> QED BY <1>2, <2>1 DEF Saved
<1>4. Builds(action, stack, curtok)
  <2>1. TokenTaken(0) = FirstToken(initial_token, 0)
    BY <1>1 DEF StreamInv, TokenTaken, FirstToken, getNext
  <2>2. StackAfter(Started, << >>) = Started /\ TokensTaken(<< >>) = 0
    BY StackAfterNothing, TokensTakenByNothing
  <2>3. curtok = FirstToken(initial_token, 0)
    BY DEF SearchInit
  <2> QED BY <1>2, <2>1, <2>2, <2>3 DEF Builds
<1>5. peek(index) = IF curtok = initial_token THEN start_token ELSE getNext(curtok)
  <2>1. /\ curtok = FirstToken(initial_token, 0)
        /\ index = CursorBehind(initial_token, 0)
    BY DEF SearchInit
  <2> QED BY <1>1, <2>1 DEF StreamInv, FirstToken, CursorBehind, peek, getNext
<1>6. DOMAIN pending = {}
  BY <1>2
<1>7. LogBuildsStack
  BY <1>4, <1>5, <1>6 DEF LogBuildsStack
<1> QED BY <1>1, <1>3, <1>7 DEF SearchInv

-----------------------------------------------------------------------------
(* What the steps of the search need to know of the state before them.     *)
LEMMA SearchFacts ==
  ASSUME SearchInv, Searching
  PROVE  /\ StreamInv /\ Saved(pending, action) /\ InSearch
         /\ action \in Seq(Int)
         /\ StackAfter(Started, action) = stack
         /\ TokenTaken(TokensTaken(action)) = curtok
         /\ peek(index) = IF curtok = initial_token THEN start_token ELSE getNext(curtok)
         /\ \A i \in DOMAIN pending :
              Builds(SubSeq(action, 1, pending[i].action_length),
                     pending[i].stack, pending[i].curtok)
BY DEF Searching, SearchInv, InSearch, LogBuildsStack, Builds, Saved

(* An action is logged; it may take the lookahead.                         *)
LEMMA LogGrows ==
  ASSUME SearchInv, Searching, IsReduce(act) \/ IsShift(act) \/ IsShiftReduce(act),
         action' = Append(action, act), stack' = AfterAction(stack, act),
         IF IsReduce(act) THEN curtok' = curtok /\ index' = index ELSE NextToken,
         UNCHANGED <<stream, locals, configurations>>
  PROVE  SearchInv'
<1>1. /\ StreamInv /\ Saved(pending, action) /\ action \in Seq(Int)
      /\ StackAfter(Started, action) = stack
      /\ TokenTaken(TokensTaken(action)) = curtok
      /\ peek(index) = IF curtok = initial_token THEN start_token ELSE getNext(curtok)
      /\ \A i \in DOMAIN pending :
           Builds(SubSeq(action, 1, pending[i].action_length),
                  pending[i].stack, pending[i].curtok)
  BY SearchFacts
<1>2. /\ len' = len /\ start_token' = start_token /\ initial_token' = initial_token
      /\ pending' = pending
  BY DEF stream, locals, configurations
<1>3. act \in Int
  BY LoggedActions
<1>4. StreamInv'
  BY <1>1, <1>2 DEF StreamInv
<1>5. /\ Saved(pending, Append(action, act))
      /\ \A i \in DOMAIN pending :
           /\ pending[i].action_length \in 0 .. Len(action)
           /\ SubSeq(Append(action, act), 1, pending[i].action_length) =
                SubSeq(action, 1, pending[i].action_length)
  BY <1>1, <1>3, SavedGrows
<1>6. Saved(pending, action)'
  BY <1>2, <1>5 DEF Saved
<1>7. \A n : (TokenTaken(n))' = TokenTaken(n)
  BY <1>2 DEF TokenTaken
<1>8. StackAfter(Started, Append(action, act)) = AfterAction(stack, act)
  BY <1>1, <1>3, StackAfterOneMore
<1>9. /\ TokensTaken(action) \in Nat
      /\ TokensTaken(Append(action, act)) =
           IF IsReduce(act) THEN TokensTaken(action) ELSE TokensTaken(action) + 1
  BY <1>1, <1>3, TokensTakenByOneMore
<1>10. PICK n \in Nat : n = TokensTaken(action)
  BY <1>9
<1>11. TokenTaken(n + 1) = getNext(index)
       /\ peek(getNext(index)) = IF getNext(index) = initial_token THEN start_token
                                 ELSE getNext(getNext(index))
  BY <1>1, <1>10, NextTokenTaken
<1>12. TokenTaken(TokensTaken(Append(action, act))) = curtok'
  BY <1>1, <1>9, <1>10, <1>11 DEF NextToken
<1>13. (peek(index) = IF curtok = initial_token THEN start_token ELSE getNext(curtok))'
  BY <1>1, <1>2, <1>11 DEF NextToken, peek, getNext
<1>14. Builds(action, stack, curtok)'
  BY <1>2, <1>8, <1>12 DEF Builds, Started, TokenTaken
<1>15. ASSUME NEW i \in DOMAIN pending'
       PROVE  /\ (pending[i].action_length <= Len(action))'
              /\ Builds(SubSeq(action, 1, pending[i].action_length),
                        pending[i].stack, pending[i].curtok)'
  <2>1. /\ pending[i].action_length \in 0 .. Len(action)
        /\ SubSeq(action', 1, pending[i].action_length) =
             SubSeq(action, 1, pending[i].action_length)
    BY <1>2, <1>5
  <2>2. Len(action') = Len(action) + 1 /\ Len(action) \in Nat
    BY <1>1, <1>3
  <2>3. Builds(SubSeq(action, 1, pending[i].action_length), pending[i].stack, pending[i].curtok)
    BY <1>1, <1>2
  <2>4. pending[i].action_length <= Len(action')
    BY <2>1, <2>2
  <2> QED BY <1>2, <2>1, <2>3, <2>4 DEF Builds, Started, TokenTaken
<1>16. LogBuildsStack'
  BY <1>13, <1>14, <1>15 DEF LogBuildsStack
<1> QED BY <1>4, <1>6, <1>16 DEF SearchInv

LEMMA ReduceKeeps == SearchInv /\ Reduce => SearchInv'
<1> SUFFICES ASSUME SearchInv, Reduce PROVE SearchInv'
  OBVIOUS
<1>1. /\ Searching /\ IsReduce(act)
      /\ action' = Append(action, act) /\ stack' = AfterAction(stack, act)
      /\ curtok' = curtok /\ index' = index
      /\ UNCHANGED <<stream, locals, configurations>>
  BY ActionTaken DEF Reduce, Push
<1> QED BY <1>1, LogGrows

LEMMA TakeKeeps == SearchInv /\ (ShiftReduce \/ Shift) => SearchInv'
<1> SUFFICES ASSUME SearchInv, ShiftReduce \/ Shift PROVE SearchInv'
  OBVIOUS
<1>1. IsShift(act) => ~IsReduce(act) /\ ~IsShiftReduce(act)
  BY KindsAreDistinct
<1>2. IsShiftReduce(act) => ~IsReduce(act)
  BY KindsAreDistinct
<1>3. /\ Searching /\ (IsShift(act) \/ IsShiftReduce(act)) /\ ~IsReduce(act)
      /\ action' = Append(action, act) /\ stack' = AfterAction(stack, act)
      /\ NextToken
      /\ UNCHANGED <<stream, locals, configurations>>
  BY <1>1, <1>2, ActionTaken DEF ShiftReduce, Shift, Push
<1> QED BY <1>3, LogGrows

LEMMA ConflictKeeps == SearchInv /\ Conflict => SearchInv'
<1> SUFFICES ASSUME SearchInv, Conflict PROVE SearchInv'
  OBVIOUS
<1>1. Searching
  BY DEF Conflict
<1>2. /\ StreamInv /\ Saved(pending, action) /\ action \in Seq(Int)
      /\ StackAfter(Started, action) = stack
      /\ TokenTaken(TokensTaken(action)) = curtok
      /\ peek(index) = IF curtok = initial_token THEN start_token ELSE getNext(curtok)
      /\ \A i \in DOMAIN pending :
           Builds(SubSeq(action, 1, pending[i].action_length),
                  pending[i].stack, pending[i].curtok)
  BY <1>1, SearchFacts
<1>3. /\ len' = len /\ start_token' = start_token /\ initial_token' = initial_token
      /\ action' = action /\ stack' = stack /\ curtok' = curtok /\ index' = index
  BY DEF Conflict, stream, locals
<1>4. StreamInv'
  BY <1>2, <1>3 DEF StreamInv
<1>5. /\ Builds(action, stack, curtok)'
      /\ (peek(index) = IF curtok = initial_token THEN start_token ELSE getNext(curtok))'
  BY <1>2, <1>3 DEF Builds, Started, TokenTaken, peek, getNext
<1>6. /\ Saved(pending', action)
      /\ \A i \in DOMAIN pending' :
           /\ pending'[i].action_length <= Len(action)
           /\ Builds(SubSeq(action, 1, pending'[i].action_length),
                     pending'[i].stack, pending'[i].curtok)
  <2>1. \A i \in DOMAIN pending : pending[i].action_length <= Len(action)
    BY <1>1 DEF SearchInv, LogBuildsStack, Searching, InSearch
  <2>2. CASE pending' = pending
    BY <2>2, <2>1, <1>2
  <2>3. CASE pending' = Append(pending, Entry(stack, curtok, act + 1, Len(action)))
    <3> DEFINE top == Len(pending) + 1
    <3>1. /\ Saved(pending', action)
          /\ DOMAIN pending' = DOMAIN pending \cup {top}
          /\ \A i \in DOMAIN pending : pending'[i] = pending[i]
          /\ pending'[top] = Entry(stack, curtok, act + 1, Len(action))
      <4>1. PICK more : more = Append(pending, Entry(stack, curtok, act + 1, Len(action)))
        OBVIOUS
      <4>2. /\ Saved(more, action)
            /\ DOMAIN more = DOMAIN pending \cup {Len(pending) + 1}
            /\ \A i \in DOMAIN pending : more[i] = pending[i]
            /\ more[Len(pending) + 1] = Entry(stack, curtok, act + 1, Len(action))
        BY <1>2, <4>1, SavedOneMore
      <4> QED BY <2>3, <4>1, <4>2
    <3>2. /\ pending'[top].stack = stack /\ pending'[top].curtok = curtok
          /\ pending'[top].action_length = Len(action)
      BY <3>1, EntryFields
    <3>3. Len(action) \in Nat /\ SubSeq(action, 1, Len(action)) = action
      BY <1>2
    <3>4. Builds(action, stack, curtok)
      BY <1>2 DEF Builds
    <3> HIDE DEF top
    <3>5. ASSUME NEW i \in DOMAIN pending'
          PROVE  /\ pending'[i].action_length <= Len(action)
                 /\ Builds(SubSeq(action, 1, pending'[i].action_length),
                           pending'[i].stack, pending'[i].curtok)
      <4>1. CASE i = top
        <5>1. Len(action) <= Len(action)
          BY <3>3
        <5> QED BY <4>1, <5>1, <3>2, <3>3, <3>4
      <4>2. CASE i \in DOMAIN pending
        <5>1. pending'[i] = pending[i]
          BY <4>2, <3>1
        <5>2. /\ pending[i].action_length <= Len(action)
              /\ Builds(SubSeq(action, 1, pending[i].action_length),
                        pending[i].stack, pending[i].curtok)
          BY <4>2, <2>1, <1>2
        <5> QED BY <5>1, <5>2
      <4> QED BY <4>1, <4>2, <3>1
    <3> QED BY <3>1, <3>5
  <2> QED BY <2>2, <2>3 DEF Conflict, configurations
<1>7. Saved(pending, action)'
  BY <1>3, <1>6 DEF Saved
<1>8. LogBuildsStack'
  BY <1>3, <1>5, <1>6 DEF LogBuildsStack, Builds, Started, TokenTaken
<1> QED BY <1>4, <1>7, <1>8 DEF SearchInv

LEMMA BacktrackKeeps == SearchInv /\ Backtrack => SearchInv'
<1> SUFFICES ASSUME SearchInv, Backtrack PROVE SearchInv'
  OBVIOUS
<1>1. Searching /\ pending # << >>
  BY DEF Backtrack
<1>2. /\ StreamInv /\ Saved(pending, action) /\ action \in Seq(Int)
      /\ \A i \in DOMAIN pending :
           Builds(SubSeq(action, 1, pending[i].action_length),
                  pending[i].stack, pending[i].curtok)
  BY <1>1, SearchFacts
<1>3. /\ len' = len /\ start_token' = start_token /\ initial_token' = initial_token
      /\ action' = SubSeq(action, 1, Last(pending).action_length)
      /\ curtok' = Last(pending).curtok /\ index' = CursorAt(Last(pending).curtok)
      /\ stack' = Last(pending).stack
      /\ pending' = AfterPop(pending)
  BY DEF Backtrack, stream, locals
<1>4. StreamInv'
  BY <1>2, <1>3 DEF StreamInv
<1>5. /\ Saved(pending', action')
      /\ Len(pending) \in DOMAIN pending /\ Last(pending) = pending[Len(pending)]
      /\ \A i \in DOMAIN pending' :
           /\ i \in DOMAIN pending
           /\ SameConfiguration(pending'[i], pending[i])
           /\ SubSeq(action', 1, pending'[i].action_length) =
                SubSeq(action, 1, pending[i].action_length)
  <2>1. PICK back : back = SubSeq(action, 1, Last(pending).action_length)
    OBVIOUS
  <2>2. PICK rest : rest = AfterPop(pending)
    OBVIOUS
  <2>3. /\ Saved(rest, back)
        /\ Len(pending) \in DOMAIN pending /\ Last(pending) = pending[Len(pending)]
        /\ \A i \in DOMAIN rest :
             /\ i \in DOMAIN pending
             /\ SameConfiguration(rest[i], pending[i])
             /\ SubSeq(back, 1, rest[i].action_length) =
                  SubSeq(action, 1, pending[i].action_length)
    BY <1>1, <1>2, <2>1, <2>2, SavedIsUndone
  <2>4. rest = pending' /\ back = action'
    BY <1>3, <2>1, <2>2
  <2> QED BY <2>3, <2>4
<1>6. Builds(action', stack', curtok')
  BY <1>2, <1>3, <1>5
<1>7. TokensTaken(action') \in Nat /\ TokenTaken(TokensTaken(action')) = curtok'
  <2>1. action' \in Seq(Int) /\ 0 \in Int
    BY <1>5 DEF Saved
  <2> QED BY <1>6, <2>1, TokensTakenByOneMore DEF Builds
<1>8. peek(index') = IF curtok' = initial_token THEN start_token ELSE getNext(curtok')
  BY <1>2, <1>3, <1>7, CursorIsBehind
<1>9. (peek(index) = IF curtok = initial_token THEN start_token ELSE getNext(curtok))'
  BY <1>3, <1>8 DEF peek, getNext
<1>10. Builds(action, stack, curtok)'
  BY <1>3, <1>6 DEF Builds, Started, TokenTaken
<1>11. ASSUME NEW i \in DOMAIN pending'
       PROVE  /\ (pending[i].action_length <= Len(action))'
              /\ Builds(SubSeq(action, 1, pending[i].action_length),
                        pending[i].stack, pending[i].curtok)'
  <2>1. pending'[i].action_length <= Len(action')
    <3>1. PICK s, t, c : \E l \in 0 .. Len(action') : pending'[i] = Entry(s, t, c, l)
      BY <1>5 DEF Saved
    <3>2. PICK l \in 0 .. Len(action') : pending'[i] = Entry(s, t, c, l)
      BY <3>1
    <3>3. pending'[i].action_length = l
      BY <3>2, EntryFields
    <3>4. Len(action') \in Nat
      BY <1>5 DEF Saved
    <3> QED BY <3>3, <3>4
  <2>2. Builds(SubSeq(action', 1, pending'[i].action_length), pending'[i].stack, pending'[i].curtok)
    BY <1>2, <1>5 DEF SameConfiguration
  <2> QED BY <1>3, <2>1, <2>2 DEF Builds, Started, TokenTaken
<1>12. Saved(pending, action)'
  BY <1>5 DEF Saved
<1>13. LogBuildsStack'
  BY <1>9, <1>10, <1>11 DEF LogBuildsStack
<1> QED BY <1>4, <1>12, <1>13 DEF SearchInv

(* The search ends, is cancelled or stands still.                          *)
LEMMA RestKeeps ==
  ASSUME SearchInv, InSearch' => InSearch,
         UNCHANGED <<stream, index, stack, action, curtok, locals, configurations>>
  PROVE  SearchInv'
<1>1. /\ len' = len /\ start_token' = start_token /\ initial_token' = initial_token
      /\ action' = action /\ stack' = stack /\ curtok' = curtok /\ index' = index
      /\ pending' = pending
  BY DEF stream, locals, configurations
<1>2. SUFFICES ASSUME InSearch' PROVE StreamInv' /\ Saved(pending, action)' /\ LogBuildsStack'
  BY DEF SearchInv
<1>3. StreamInv /\ Saved(pending, action) /\ LogBuildsStack /\ InSearch
  BY <1>2 DEF SearchInv
<1>4. StreamInv'
  BY <1>1, <1>3 DEF StreamInv
<1>5. Saved(pending, action)'
  BY <1>1, <1>3 DEF Saved
<1>6. LogBuildsStack'
  BY <1>1, <1>3 DEF LogBuildsStack, Builds, Started, TokenTaken, peek, getNext
<1> QED BY <1>4, <1>5, <1>6

LEMMA EndKeeps == SearchInv /\ (Fail \/ Accept \/ Stop \/ Cancel) => SearchInv'
<1> SUFFICES ASSUME SearchInv, Fail \/ Accept \/ Stop \/ Cancel PROVE SearchInv'
  OBVIOUS
<1>1. pc = "search" /\ UNCHANGED <<stream, index, stack, action, curtok, locals, configurations>>
  BY DEF Fail, Accept, Stop, Cancel, Return, Searching
<1>2. InSearch
  BY <1>1 DEF InSearch
<1> QED BY <1>1, <1>2, RestKeeps

LEMMA SearchKeeps == SearchInv /\ (Search \/ Cancel) => SearchInv'
BY ReduceKeeps, TakeKeeps, ConflictKeeps, BacktrackKeeps, EndKeeps DEF Search

-----------------------------------------------------------------------------
(* The parser as a whole: backtrackParse, backtrackParseUpToError, repair  *)
(* and replay.                                                             *)

(* The tuple when n tokens were taken: the token before the first, those   *)
(* taken and the lookahead.                                                *)
TokensUpTo(n) == <<0>> \o [k \in 1 .. n + 1 |-> TokenTaken(k - 1)]

InUpTo == pc \in {"upto", "find"}

(* The repeated search; its entries say how long the tuple was.            *)
UpToInv ==
  InUpTo =>
    /\ StreamInv
    /\ Saved(pending, action)
    /\ StackAfter(Started, action) = stack
    /\ TokenTaken(TokensTaken(action)) = curtok
    /\ peek(index) = IF curtok = initial_token THEN start_token ELSE getNext(curtok)
    /\ tokens = TokensUpTo(TokensTaken(action))
    /\ locationStack[Len(stack)] = Len(tokens)
    /\ actionStack[Len(stack)] = Len(action)
    /\ \A i \in DOMAIN pending :
         LET part == SubSeq(action, 1, pending[i].action_length)
         IN  /\ StackAfter(Started, part) = pending[i].stack
             /\ pending[i].curtok = TokensTaken(part) + 2

IInv ==
  /\ SearchInv
  /\ InSearch => tokens = <<0>>
  /\ UpToInv

-----------------------------------------------------------------------------
LEMMA TokensAreNumbers ==
  ASSUME StreamInv
  PROVE  \A n \in Nat : TokenTaken(n) \in Int
BY DEF StreamInv, TokenTaken

LEMMA TupleFacts ==
  ASSUME StreamInv, NEW n \in Nat
  PROVE  /\ TokensUpTo(n) \in Seq(Int)
         /\ Len(TokensUpTo(n)) = n + 2
         /\ TokensUpTo(n)[1] = 0
         /\ \A k \in 2 .. n + 2 : TokensUpTo(n)[k] = TokenTaken(k - 2)
<1> DEFINE taken == [k \in 1 .. n + 1 |-> TokenTaken(k - 1)]
<1>1. \A k \in 1 .. n + 1 : TokenTaken(k - 1) \in Int
  BY TokensAreNumbers
<1>2. taken \in Seq(Int) /\ Len(taken) = n + 1
  BY <1>1
<1>3. \A k \in 1 .. n + 1 : taken[k] = TokenTaken(k - 1)
  OBVIOUS
<1> HIDE DEF taken
<1>4. <<0>> \in Seq(Int) /\ Len(<<0>>) = 1 /\ <<0>>[1] = 0
  OBVIOUS
<1>5. /\ <<0>> \o taken \in Seq(Int) /\ Len(<<0>> \o taken) = n + 2
      /\ (<<0>> \o taken)[1] = 0
      /\ \A k \in 2 .. n + 2 : (<<0>> \o taken)[k] = taken[k - 1]
  BY <1>2, <1>4
<1>6. \A k \in 2 .. n + 2 : taken[k - 1] = TokenTaken(k - 2)
  <2> TAKE k \in 2 .. n + 2
  <2>1. k - 1 \in 1 .. n + 1 /\ k - 1 - 1 = k - 2
    OBVIOUS
  <2> QED BY <2>1, <1>3
<1> QED BY <1>5, <1>6 DEF TokensUpTo, taken

(* One token more, and back to fewer.                                      *)
LEMMA TupleGrows ==
  ASSUME StreamInv, NEW n \in Nat
  PROVE  Append(TokensUpTo(n), TokenTaken(n + 1)) = TokensUpTo(n + 1)
<1> DEFINE now == TokensUpTo(n)
           then == TokensUpTo(n + 1)
           more == Append(now, TokenTaken(n + 1))
<1>1. /\ now \in Seq(Int) /\ Len(now) = n + 2
      /\ now[1] = 0 /\ \A k \in 2 .. n + 2 : now[k] = TokenTaken(k - 2)
  BY TupleFacts
<1>2. /\ then \in Seq(Int) /\ Len(then) = n + 3
      /\ then[1] = 0 /\ \A k \in 2 .. n + 3 : then[k] = TokenTaken(k - 2)
  BY TupleFacts
<1> HIDE DEF now, then
<1>3. TokenTaken(n + 1) \in Int
  BY TokensAreNumbers
<1>4. /\ more \in Seq(Int) /\ Len(more) = n + 3
      /\ \A k \in 1 .. n + 2 : more[k] = now[k]
      /\ more[n + 3] = TokenTaken(n + 1)
  BY <1>1, <1>3
<1> HIDE DEF more
<1>5. ASSUME NEW k \in 1 .. n + 3 PROVE more[k] = then[k]
  <2>1. CASE k = n + 3
    BY <2>1, <1>2, <1>4
  <2>2. CASE k # n + 3
    BY <2>2, <1>1, <1>2, <1>4
  <2> QED BY <2>1, <2>2
<1>6. more = then
  BY <1>2, <1>4, <1>5
<1> QED BY <1>6 DEF more, now, then

LEMMA TupleIsCut ==
  ASSUME StreamInv, NEW n \in Nat, NEW m \in 0 .. n
  PROVE  /\ SubSeq(TokensUpTo(n), 1, m + 2) = TokensUpTo(m)
         /\ Last(TokensUpTo(m)) = TokenTaken(m)
<1> DEFINE now == TokensUpTo(n)
           then == TokensUpTo(m)
           part == SubSeq(now, 1, m + 2)
<1>1. /\ now \in Seq(Int) /\ Len(now) = n + 2
      /\ now[1] = 0 /\ \A k \in 2 .. n + 2 : now[k] = TokenTaken(k - 2)
  BY TupleFacts
<1>2. /\ then \in Seq(Int) /\ Len(then) = m + 2
      /\ then[1] = 0 /\ \A k \in 2 .. m + 2 : then[k] = TokenTaken(k - 2)
  BY TupleFacts
<1> HIDE DEF now, then
<1>3. /\ part \in Seq(Int) /\ Len(part) = m + 2
      /\ \A k \in 1 .. m + 2 : part[k] = now[k]
  BY <1>1
<1> HIDE DEF part
<1>4. ASSUME NEW k \in 1 .. m + 2 PROVE part[k] = then[k]
  <2>1. CASE k = 1
    BY <2>1, <1>1, <1>2, <1>3
  <2>2. CASE k # 1
    <3>1. k \in 2 .. m + 2 /\ k \in 2 .. n + 2
      BY <2>2
    <3> QED BY <3>1, <1>1, <1>2, <1>3
  <2> QED BY <2>1, <2>2
<1>5. part = then
  BY <1>2, <1>3, <1>4
<1>6. Last(then) = TokenTaken(m)
  BY <1>2 DEF Last
<1> QED BY <1>5, <1>6 DEF part, now, then

LEMMA PlaceIsNoted ==
  ASSUME NEW array, NEW i, NEW value
  PROVE  SetAt(array, i, value)[i] = value
BY DEF SetAt

-----------------------------------------------------------------------------
LEMMA InvInit == ParseInit => IInv
<1> SUFFICES ASSUME ParseInit PROVE IInv
  OBVIOUS
<1>1. SearchInv
  BY SearchInvInit DEF ParseInit
<1>2. pc = "search"
  BY DEF ParseInit, SearchInit
<1>3. StreamInv
  BY <1>1, <1>2 DEF SearchInv, InSearch
<1>4. tokens = <<0>>
  BY <1>3 DEF ParseInit, ReplayInit, StreamInv, peek, getNext, getPrevious
<1> QED BY <1>1, <1>2, <1>4 DEF IInv, UpToInv, InUpTo

LEMMA SearchStep ==
  ASSUME IInv, Search \/ Cancel, UNCHANGED <<recoveryVars, replay>>
  PROVE  IInv'
<1>1. SearchInv'
  BY SearchKeeps DEF IInv
<1>2. InSearch /\ ~InUpTo'
  BY DEF Search, Reduce, ShiftReduce, Shift, Conflict, Backtrack, Fail, Accept, Stop, Cancel,
         Searching, Return, InSearch, InUpTo
<1>3. tokens' = tokens
  BY DEF recoveryVars
<1> QED BY <1>1, <1>2, <1>3 DEF IInv, UpToInv

(* The repeated search begins like the first one.                          *)
LEMMA StartStep ==
  ASSUME IInv, StartUpToError
  PROVE  IInv'
<1>1. /\ pc = "returned" /\ pc' = "upto"
      /\ action' = << >> /\ stack' = Started /\ pending' = << >>
      /\ index' = CursorBehind(initial_token, getPrevious(start_token))
      /\ curtok' = FirstToken(initial_token, getPrevious(start_token))
      /\ tokens' = Append(tokens, curtok')
      /\ locationStack' = SetAt(locationStack, 1, Len(tokens'))
      /\ actionStack' = SetAt(actionStack, 1, 0)
      /\ len' = len /\ start_token' = start_token /\ initial_token' = initial_token
  BY DEF StartUpToError, Started, stream, locals
<1>2. StreamInv /\ tokens = <<0>>
  BY <1>1 DEF IInv, SearchInv, InSearch
<1>3. StreamInv'
  BY <1>1, <1>2 DEF StreamInv
<1>4. Saved(<< >>, << >>)
  <2>1. DOMAIN << >> = {} /\ << >> \in Seq(Int)
    OBVIOUS
  <2> QED BY <2>1 DEF Saved
<1>5. /\ StackAfter(Started, << >>) = Started /\ TokensTaken(<< >>) = 0
  BY StackAfterNothing, TokensTakenByNothing
<1>6. TokenTaken(0) = curtok'
  BY <1>1, <1>2 DEF StreamInv, TokenTaken, FirstToken, getNext, getPrevious
<1>7. getNext(index') = IF curtok' = initial_token THEN start_token ELSE getNext(curtok')
  BY <1>1, <1>2 DEF StreamInv, FirstToken, CursorBehind, getNext, getPrevious
<1>8. tokens' = TokensUpTo(0)
  BY <1>1, <1>2, <1>6 DEF TokensUpTo
<1>9. Len(stack') = 1 /\ Len(action') = 0 /\ DOMAIN pending' = {}
  BY <1>1 DEF Started
<1>10. /\ locationStack'[Len(stack')] = Len(tokens')
       /\ actionStack'[Len(stack')] = Len(action')
  BY <1>1, <1>9, PlaceIsNoted
<1>11. (TokenTaken(0))' = TokenTaken(0) /\ (TokensUpTo(0))' = TokensUpTo(0)
  BY <1>1 DEF TokenTaken, TokensUpTo
<1>12. UpToInv'
  <2>1. Saved(pending, action)'
    BY <1>1, <1>4
  <2>2. (StackAfter(Started, action) = stack)' /\ (TokensTaken(action))' = 0
    BY <1>1, <1>5 DEF Started
  <2>3. (TokenTaken(TokensTaken(action)) = curtok)'
    BY <1>1, <1>6, <2>2 DEF TokenTaken
  <2>4. (tokens = TokensUpTo(TokensTaken(action)))'
    BY <1>1, <1>8, <2>2 DEF TokensUpTo, TokenTaken
  <2>5. (peek(index) = IF curtok = initial_token THEN start_token ELSE getNext(curtok))'
    BY <1>1, <1>7 DEF peek, getNext
  <2> QED BY <1>3, <1>9, <1>10, <2>1, <2>2, <2>3, <2>4, <2>5 DEF UpToInv
<1>13. ~InSearch'
  BY <1>1 DEF InSearch
<1> QED BY <1>12, <1>13 DEF IInv, SearchInv

-----------------------------------------------------------------------------
(* An action is logged; it may take the lookahead.                         *)
LEMMA UpToGrows ==
  ASSUME UpToInv, UpTo, IsReduce(act) \/ IsShift(act) \/ IsShiftReduce(act),
         action' = Append(action, act), stack' = AfterAction(stack, act),
         IF IsReduce(act) THEN curtok' = curtok /\ index' = index /\ tokens' = tokens
         ELSE NextToken /\ tokens' = Append(tokens, getNext(index)),
         locationStack'[Len(stack')] = Len(tokens'),
         actionStack'[Len(stack')] = Len(action'),
         UNCHANGED <<stream, locals, configurations>>
  PROVE  UpToInv'
<1>1. /\ StreamInv /\ Saved(pending, action) /\ action \in Seq(Int)
      /\ StackAfter(Started, action) = stack
      /\ TokenTaken(TokensTaken(action)) = curtok
      /\ peek(index) = IF curtok = initial_token THEN start_token ELSE getNext(curtok)
      /\ tokens = TokensUpTo(TokensTaken(action))
      /\ \A i \in DOMAIN pending :
           LET part == SubSeq(action, 1, pending[i].action_length)
           IN  /\ StackAfter(Started, part) = pending[i].stack
               /\ pending[i].curtok = TokensTaken(part) + 2
  BY DEF UpToInv, InUpTo, UpTo, Saved
<1>2. /\ len' = len /\ start_token' = start_token /\ initial_token' = initial_token
      /\ pending' = pending
  BY DEF stream, locals, configurations
<1>3. act \in Int
  BY LoggedActions
<1>4. StreamInv'
  BY <1>1, <1>2 DEF StreamInv
<1>5. /\ Saved(pending, Append(action, act))
      /\ \A i \in DOMAIN pending :
           SubSeq(Append(action, act), 1, pending[i].action_length) =
             SubSeq(action, 1, pending[i].action_length)
  BY <1>1, <1>3, SavedGrows
<1>6. Saved(pending, action)'
  BY <1>2, <1>5 DEF Saved
<1>7. StackAfter(Started, Append(action, act)) = AfterAction(stack, act)
  BY <1>1, <1>3, StackAfterOneMore
<1>8. /\ TokensTaken(action) \in Nat
      /\ TokensTaken(Append(action, act)) =
           IF IsReduce(act) THEN TokensTaken(action) ELSE TokensTaken(action) + 1
  BY <1>1, <1>3, TokensTakenByOneMore
<1>9. PICK n \in Nat : n = TokensTaken(action)
  BY <1>8
<1>10. /\ TokenTaken(n + 1) = getNext(index)
       /\ peek(getNext(index)) = IF getNext(index) = initial_token THEN start_token
                                 ELSE getNext(getNext(index))
  BY <1>1, <1>9, NextTokenTaken
<1>11. Append(TokensUpTo(n), TokenTaken(n + 1)) = TokensUpTo(n + 1)
  BY <1>1, TupleGrows
<1>12. /\ TokenTaken(TokensTaken(Append(action, act))) = curtok'
       /\ TokensUpTo(TokensTaken(Append(action, act))) = tokens'
  <2>1. CASE IsReduce(act)
    <3>1. /\ TokensTaken(Append(action, act)) = TokensTaken(action)
          /\ curtok' = curtok /\ tokens' = tokens
      BY <2>1, <1>8
    <3> QED BY <3>1, <1>1
  <2>2. CASE ~IsReduce(act)
    <3>1. /\ TokensTaken(Append(action, act)) = n + 1
          /\ curtok' = TokenTaken(n + 1)
      BY <2>2, <1>8, <1>9, <1>10 DEF NextToken
    <3>2. tokens' = Append(TokensUpTo(n), TokenTaken(n + 1))
      BY <2>2, <1>1, <1>9, <1>10
    <3> QED BY <3>1, <3>2, <1>11
  <2> QED BY <2>1, <2>2
<1>13. (peek(index) = IF curtok = initial_token THEN start_token ELSE getNext(curtok))'
  BY <1>1, <1>2, <1>10 DEF NextToken, peek, getNext
<1>14. /\ (StackAfter(Started, action) = stack)'
       /\ (TokenTaken(TokensTaken(action)) = curtok)'
       /\ (tokens = TokensUpTo(TokensTaken(action)))'
  BY <1>2, <1>7, <1>12 DEF Started, TokenTaken, TokensUpTo
<1>15. ASSUME NEW i \in DOMAIN pending'
       PROVE  (LET part == SubSeq(action, 1, pending[i].action_length)
               IN  /\ StackAfter(Started, part) = pending[i].stack
                   /\ pending[i].curtok = TokensTaken(part) + 2)'
  <2>1. SubSeq(action', 1, pending[i].action_length) = SubSeq(action, 1, pending[i].action_length)
    BY <1>2, <1>5
  <2> QED BY <1>1, <1>2, <2>1 DEF Started
<1> QED BY <1>4, <1>6, <1>13, <1>14, <1>15 DEF UpToInv

LEMMA UpToReduceStep == UpToInv /\ UpToReduce => UpToInv'
<1> SUFFICES ASSUME UpToInv, UpToReduce PROVE UpToInv'
  OBVIOUS
<1>1. /\ UpTo /\ IsReduce(act)
      /\ action' = Append(action, act) /\ stack' = AfterAction(stack, act)
      /\ curtok' = curtok /\ index' = index /\ tokens' = tokens
      /\ locationStack' = SetAt(locationStack, Len(stack'), Len(tokens'))
      /\ actionStack' = SetAt(actionStack, Len(stack'), Len(action'))
      /\ UNCHANGED <<stream, locals, configurations>>
  BY ActionTaken DEF UpToReduce, PushNoted, Push
<1>2. /\ locationStack'[Len(stack')] = Len(tokens')
      /\ actionStack'[Len(stack')] = Len(action')
  BY <1>1, PlaceIsNoted
<1> QED BY <1>1, <1>2, UpToGrows

LEMMA UpToTakeStep == UpToInv /\ (UpToShiftReduce \/ UpToShift) => UpToInv'
<1> SUFFICES ASSUME UpToInv, UpToShiftReduce \/ UpToShift PROVE UpToInv'
  OBVIOUS
<1>1. IsShift(act) => ~IsReduce(act) /\ ~IsShiftReduce(act)
  BY KindsAreDistinct
<1>2. IsShiftReduce(act) => ~IsReduce(act)
  BY KindsAreDistinct
<1>3. /\ UpTo /\ (IsShift(act) \/ IsShiftReduce(act)) /\ ~IsReduce(act)
      /\ action' = Append(action, act) /\ stack' = AfterAction(stack, act)
      /\ NextToken /\ tokens' = Append(tokens, getNext(index))
      /\ locationStack' = SetAt(locationStack, Len(stack'), Len(tokens'))
      /\ actionStack' = SetAt(actionStack, Len(stack'), Len(action'))
      /\ UNCHANGED <<stream, locals, configurations>>
  BY <1>1, <1>2, ActionTaken DEF UpToShiftReduce, UpToShift, UpToTake, PushNoted, Push
<1>4. /\ locationStack'[Len(stack')] = Len(tokens')
      /\ actionStack'[Len(stack')] = Len(action')
  BY <1>3, PlaceIsNoted
<1> QED BY <1>3, <1>4, UpToGrows

LEMMA UpToConflictStep == UpToInv /\ UpToConflict => UpToInv'
<1> SUFFICES ASSUME UpToInv, UpToConflict PROVE UpToInv'
  OBVIOUS
<1>1. /\ StreamInv /\ Saved(pending, action) /\ action \in Seq(Int)
      /\ StackAfter(Started, action) = stack
      /\ TokenTaken(TokensTaken(action)) = curtok
      /\ peek(index) = IF curtok = initial_token THEN start_token ELSE getNext(curtok)
      /\ tokens = TokensUpTo(TokensTaken(action))
      /\ locationStack[Len(stack)] = Len(tokens)
      /\ actionStack[Len(stack)] = Len(action)
      /\ \A i \in DOMAIN pending :
           LET part == SubSeq(action, 1, pending[i].action_length)
           IN  /\ StackAfter(Started, part) = pending[i].stack
               /\ pending[i].curtok = TokensTaken(part) + 2
  BY DEF UpToConflict, UpToInv, InUpTo, UpTo, Saved
<1>2. /\ len' = len /\ start_token' = start_token /\ initial_token' = initial_token
      /\ action' = action /\ stack' = stack /\ curtok' = curtok /\ index' = index
      /\ tokens' = tokens /\ locationStack' = locationStack /\ actionStack' = actionStack
  BY DEF UpToConflict, stream, locals, recoveryVars, places
<1>3. /\ Saved(pending', action)
      /\ \A i \in DOMAIN pending' :
           LET part == SubSeq(action, 1, pending'[i].action_length)
           IN  /\ StackAfter(Started, part) = pending'[i].stack
               /\ pending'[i].curtok = TokensTaken(part) + 2
  <2>1. CASE pending' = pending
    BY <2>1, <1>1
  <2>2. CASE pending' = Append(pending, Entry(stack, Len(tokens), act + 1, Len(action)))
    <3> DEFINE top == Len(pending) + 1
    <3>1. /\ Saved(pending', action)
          /\ DOMAIN pending' = DOMAIN pending \cup {top}
          /\ \A i \in DOMAIN pending : pending'[i] = pending[i]
          /\ pending'[top] = Entry(stack, Len(tokens), act + 1, Len(action))
      <4>1. PICK t : t = Len(tokens)
        OBVIOUS
      <4>2. PICK more : more = Append(pending, Entry(stack, t, act + 1, Len(action)))
        OBVIOUS
      <4>3. /\ Saved(more, action)
            /\ DOMAIN more = DOMAIN pending \cup {Len(pending) + 1}
            /\ \A i \in DOMAIN pending : more[i] = pending[i]
            /\ more[Len(pending) + 1] = Entry(stack, t, act + 1, Len(action))
        BY <1>1, <4>2, SavedOneMore
      <4> QED BY <2>2, <4>1, <4>2, <4>3
    <3>2. /\ pending'[top].stack = stack /\ pending'[top].curtok = Len(tokens)
          /\ pending'[top].action_length = Len(action)
      BY <3>1, EntryFields
    <3>3. SubSeq(action, 1, Len(action)) = action
      BY <1>1
    <3>4. Len(tokens) = TokensTaken(action) + 2
      <4>1. TokensTaken(action) \in Nat
        BY <1>1, TokensTakenByOneMore
      <4> QED BY <1>1, <4>1, TupleFacts
    <3> HIDE DEF top
    <3>5. ASSUME NEW i \in DOMAIN pending'
          PROVE  LET part == SubSeq(action, 1, pending'[i].action_length)
                 IN  /\ StackAfter(Started, part) = pending'[i].stack
                     /\ pending'[i].curtok = TokensTaken(part) + 2
      <4>1. CASE i = top
        BY <4>1, <3>2, <3>3, <3>4, <1>1
      <4>2. CASE i \in DOMAIN pending
        <5>1. pending'[i] = pending[i]
          BY <4>2, <3>1
        <5> QED BY <4>2, <5>1, <1>1
      <4> QED BY <4>1, <4>2, <3>1
    <3> QED BY <3>1, <3>5
  <2> QED BY <2>1, <2>2 DEF UpToConflict, configurations
<1>4. StreamInv'
  BY <1>1, <1>2 DEF StreamInv
<1>5. Saved(pending, action)'
  BY <1>2, <1>3 DEF Saved
<1>6. /\ (StackAfter(Started, action) = stack)'
      /\ (TokenTaken(TokensTaken(action)) = curtok)'
      /\ (tokens = TokensUpTo(TokensTaken(action)))'
      /\ (peek(index) = IF curtok = initial_token THEN start_token ELSE getNext(curtok))'
      /\ (locationStack[Len(stack)] = Len(tokens))'
      /\ (actionStack[Len(stack)] = Len(action))'
  BY <1>1, <1>2 DEF Started, TokenTaken, TokensUpTo, peek, getNext
<1>7. (\A i \in DOMAIN pending :
         LET part == SubSeq(action, 1, pending[i].action_length)
         IN  /\ StackAfter(Started, part) = pending[i].stack
             /\ pending[i].curtok = TokensTaken(part) + 2)'
  BY <1>2, <1>3 DEF Started
<1> QED BY <1>4, <1>5, <1>6, <1>7 DEF UpToInv

LEMMA UpToBacktrackStep == UpToInv /\ UpToBacktrack => UpToInv'
<1> SUFFICES ASSUME UpToInv, UpToBacktrack PROVE UpToInv'
  OBVIOUS
<1>1. /\ StreamInv /\ Saved(pending, action) /\ action \in Seq(Int)
      /\ tokens = TokensUpTo(TokensTaken(action))
      /\ pending # << >>
      /\ \A i \in DOMAIN pending :
           LET part == SubSeq(action, 1, pending[i].action_length)
           IN  /\ StackAfter(Started, part) = pending[i].stack
               /\ pending[i].curtok = TokensTaken(part) + 2
  BY DEF UpToBacktrack, UpToInv, InUpTo, UpTo, Saved
<1>2. /\ len' = len /\ start_token' = start_token /\ initial_token' = initial_token
      /\ action' = SubSeq(action, 1, Last(pending).action_length)
      /\ tokens' = SubSeq(tokens, 1, Last(pending).curtok)
      /\ curtok' = Last(tokens') /\ index' = CursorAt(curtok')
      /\ stack' = Last(pending).stack
      /\ locationStack' = SetAt(locationStack, Len(stack'), Len(tokens'))
      /\ actionStack' = SetAt(actionStack, Len(stack'), Len(action'))
      /\ pending' = AfterPop(pending)
  BY DEF UpToBacktrack, stream, locals
<1>3. StreamInv'
  BY <1>1, <1>2 DEF StreamInv
<1>4. /\ Saved(pending', action')
      /\ Len(pending) \in DOMAIN pending /\ Last(pending) = pending[Len(pending)]
      /\ \A i \in DOMAIN pending' :
           /\ i \in DOMAIN pending
           /\ SameConfiguration(pending'[i], pending[i])
           /\ SubSeq(action', 1, pending'[i].action_length) =
                SubSeq(action, 1, pending[i].action_length)
  <2>1. PICK back : back = SubSeq(action, 1, Last(pending).action_length)
    OBVIOUS
  <2>2. PICK rest : rest = AfterPop(pending)
    OBVIOUS
  <2>3. /\ Saved(rest, back)
        /\ Len(pending) \in DOMAIN pending /\ Last(pending) = pending[Len(pending)]
        /\ \A i \in DOMAIN rest :
             /\ i \in DOMAIN pending
             /\ SameConfiguration(rest[i], pending[i])
             /\ SubSeq(back, 1, rest[i].action_length) =
                  SubSeq(action, 1, pending[i].action_length)
    BY <1>1, <2>1, <2>2, SavedIsUndone
  <2>4. rest = pending' /\ back = action'
    BY <1>2, <2>1, <2>2
  <2> QED BY <2>3, <2>4
<1>5. StackAfter(Started, action') = stack' /\ Last(pending).curtok = TokensTaken(action') + 2
  BY <1>1, <1>2, <1>4
<1>6. PICK n, m : n = TokensTaken(action) /\ m = TokensTaken(action')
  OBVIOUS
<1>7. n \in Nat /\ m \in 0 .. n
  <2>1. Last(pending).action_length \in 0 .. Len(action)
    <3>1. 0 \in Int
      OBVIOUS
    <3> QED BY <1>1, <1>4, <3>1, SavedGrows
  <2>2. PICK l \in 0 .. Len(action) : l = Last(pending).action_length
    BY <2>1
  <2>3. /\ TokensTaken(SubSeq(action, 1, l)) \in Nat /\ TokensTaken(action) \in Nat
        /\ TokensTaken(SubSeq(action, 1, l)) <= TokensTaken(action)
    BY <1>1, TokensTakenByPart
  <2>4. m = TokensTaken(SubSeq(action, 1, l))
    BY <1>2, <1>6, <2>2
  <2> QED BY <1>6, <2>3, <2>4
<1>8. tokens' = TokensUpTo(m) /\ curtok' = TokenTaken(m)
  <2>1. SubSeq(TokensUpTo(n), 1, m + 2) = TokensUpTo(m) /\ Last(TokensUpTo(m)) = TokenTaken(m)
    BY <1>1, <1>7, TupleIsCut
  <2>2. tokens' = SubSeq(TokensUpTo(n), 1, m + 2)
    BY <1>1, <1>2, <1>5, <1>6
  <2> QED BY <2>1, <2>2, <1>2
<1>9. peek(index') = IF curtok' = initial_token THEN start_token ELSE getNext(curtok')
  BY <1>1, <1>2, <1>7, <1>8, CursorIsBehind
<1>10. /\ locationStack'[Len(stack')] = Len(tokens')
       /\ actionStack'[Len(stack')] = Len(action')
  <2>1. /\ locationStack' = SetAt(locationStack, Len(stack'), Len(tokens'))
        /\ actionStack' = SetAt(actionStack, Len(stack'), Len(action'))
    BY <1>2
  <2> QED BY ONLY <2>1, PlaceIsNoted
<1>11. Saved(pending, action)'
  BY <1>4 DEF Saved
<1>12. /\ (StackAfter(Started, action) = stack)'
       /\ (TokenTaken(TokensTaken(action)) = curtok)'
       /\ (tokens = TokensUpTo(TokensTaken(action)))'
       /\ (peek(index) = IF curtok = initial_token THEN start_token ELSE getNext(curtok))'
  BY <1>2, <1>5, <1>6, <1>8, <1>9 DEF Started, TokenTaken, TokensUpTo, peek, getNext
<1>13. ASSUME NEW i \in DOMAIN pending'
       PROVE  (LET part == SubSeq(action, 1, pending[i].action_length)
               IN  /\ StackAfter(Started, part) = pending[i].stack
                   /\ pending[i].curtok = TokensTaken(part) + 2)'
  BY <1>1, <1>4 DEF SameConfiguration, Started
<1> QED BY <1>3, <1>10, <1>11, <1>12, <1>13 DEF UpToInv

(* The repeated search stands still, ends or is cancelled.                 *)
LEMMA UpToRests ==
  ASSUME UpToInv, InUpTo,
         UNCHANGED <<stream, index, stack, action, curtok, locals, configurations, tokens, places>>
  PROVE  UpToInv'
<1>1. /\ len' = len /\ start_token' = start_token /\ initial_token' = initial_token
      /\ action' = action /\ stack' = stack /\ curtok' = curtok /\ index' = index
      /\ pending' = pending
      /\ tokens' = tokens /\ locationStack' = locationStack /\ actionStack' = actionStack
  BY DEF stream, locals, configurations, places
<1>2. (StreamInv /\ Saved(pending, action))'
  BY <1>1 DEF UpToInv, StreamInv, Saved
<1>3. /\ (StackAfter(Started, action) = stack)'
      /\ (TokenTaken(TokensTaken(action)) = curtok)'
      /\ (tokens = TokensUpTo(TokensTaken(action)))'
      /\ (peek(index) = IF curtok = initial_token THEN start_token ELSE getNext(curtok))'
      /\ (locationStack[Len(stack)] = Len(tokens))'
      /\ (actionStack[Len(stack)] = Len(action))'
  BY <1>1 DEF UpToInv, Started, TokenTaken, TokensUpTo, peek, getNext
<1>4. (\A i \in DOMAIN pending :
         LET part == SubSeq(action, 1, pending[i].action_length)
         IN  /\ StackAfter(Started, part) = pending[i].stack
             /\ pending[i].curtok = TokensTaken(part) + 2)'
  BY <1>1 DEF UpToInv, Started
<1> QED BY <1>2, <1>3, <1>4 DEF UpToInv

LEMMA UpToStep ==
  ASSUME IInv, UpToReduce \/ UpToShiftReduce \/ UpToShift \/ UpToConflict \/ UpToBacktrack \/ UpToStops
  PROVE  IInv'
<1>1. /\ InUpTo /\ ~InSearch'
  BY DEF UpToReduce, UpToShiftReduce, UpToShift, UpToTake, UpToConflict, UpToBacktrack, UpToStops,
         UpTo, InUpTo, InSearch
<1>2. UpToInv'
  <2>1. CASE UpToStops
    <3>1. UNCHANGED <<stream, index, stack, action, curtok, locals, configurations, tokens, places>>
      BY <2>1 DEF UpToStops, recoveryVars
    <3> QED BY <1>1, <3>1, UpToRests DEF IInv
  <2> QED BY <2>1, UpToReduceStep, UpToTakeStep, UpToConflictStep, UpToBacktrackStep DEF IInv
<1> QED BY <1>1, <1>2 DEF IInv, SearchInv

(* Neither search is going on any more.                                    *)
LEMMA LaterStep ==
  ASSUME ~InSearch', ~InUpTo'
  PROVE  IInv'
BY DEF IInv, SearchInv, UpToInv

LEMMA RepairStep ==
  ASSUME \/ TooManyErrors \/ FindFirstState \/ FindNextState \/ Attempt
         \/ TryReduce \/ TryShiftReduce \/ TryShift \/ TryConflict \/ TryBacktrack
         \/ TryAccept \/ TryFails \/ Repair
  PROVE  IInv'
<1>1. pc' \in {"bad_parse", "out_of_range", "attempt", "repairable", "repaired", "unrepairable",
              "error_token", "assertion"}
  BY DEF TooManyErrors, FindFirstState, FindNextState, FindState, Attempt, TryReduce, TryShiftReduce,
         TryShift, TryTake, TryConflict, TryBacktrack, TryAccept, TryFails, Repair, Trying
<1> QED BY <1>1, LaterStep DEF InSearch, InUpTo

LEMMA ReplayStep ==
  ASSUME StartReplay \/ Replay
  PROVE  IInv'
<1>1. pc' \in {"replay", "bad_parse", "parsed"}
  BY DEF StartReplay, BeginReplay, Replay, ReplayReduce, ReplayShiftReduce, ReplayShift, ReplayRefuses,
         ReplayReturns, Replaying
<1> QED BY <1>1, LaterStep DEF InSearch, InUpTo

LEMMA CancelStep ==
  ASSUME IInv, CancelLater
  PROVE  IInv'
<1>1. /\ pc \in {"upto", "replay"} /\ pc' = pc
      /\ UNCHANGED <<stream, index, stack, action, curtok, locals, configurations, tokens, places>>
  BY DEF CancelLater, recoveryVars
<1>2. CASE pc = "upto"
  <2>1. UpToInv'
    BY <1>1, <1>2, UpToRests DEF IInv, InUpTo
  <2> QED BY <1>1, <1>2, <2>1 DEF IInv, SearchInv, InSearch
<1>3. CASE pc = "replay"
  BY <1>1, <1>3, LaterStep DEF InSearch, InUpTo
<1> QED BY <1>1, <1>2, <1>3

LEMMA StutterStep ==
  ASSUME IInv, UNCHANGED vars
  PROVE  IInv'
<1>1. /\ UNCHANGED <<stream, index, stack, action, curtok, locals, configurations, tokens, places>>
      /\ pc' = pc
  BY DEF vars, searchVars, recoveryVars
<1>2. SearchInv'
  BY <1>1, RestKeeps DEF IInv, InSearch
<1>3. UpToInv'
  <2>1. CASE InUpTo
    BY <1>1, <2>1, UpToRests DEF IInv
  <2>2. CASE ~InUpTo
    BY <1>1, <2>2 DEF UpToInv, InUpTo
  <2> QED BY <2>1, <2>2
<1> QED BY <1>1, <1>2, <1>3 DEF IInv, InSearch

LEMMA NextKeeps == IInv /\ [ParseNext]_vars => IInv'
<1> SUFFICES ASSUME IInv, [ParseNext]_vars PROVE IInv'
  OBVIOUS
<1>1. CASE (Search \/ Cancel) /\ UNCHANGED <<recoveryVars, replay>>
  BY <1>1, SearchStep
<1>2. CASE Recover
  <2>1. CASE StartUpToError
    BY <2>1, StartStep
  <2>2. CASE UpToReduce \/ UpToShiftReduce \/ UpToShift \/ UpToConflict \/ UpToBacktrack \/ UpToStops
    BY <2>2, UpToStep
  <2> QED BY <1>2, <2>1, <2>2, RepairStep DEF Recover
<1>3. CASE StartReplay \/ Replay
  BY <1>3, ReplayStep
<1>4. CASE CancelLater
  BY <1>4, CancelStep
<1>5. CASE UNCHANGED vars
  BY <1>5, StutterStep
<1> QED BY <1>1, <1>2, <1>3, <1>4, <1>5 DEF ParseNext, ParseStep

(* The invariant of the two searches.                                      *)
THEOREM Invariance == ParseSpec => []IInv
<1>1. ParseInit => IInv
  BY InvInit
<1>2. IInv /\ [ParseNext]_vars => IInv'
  BY NextKeeps
<1> QED BY <1>1, <1>2, PTL DEF ParseSpec

(* For every table, every input, every marker and at whatever time the     *)
(* parse is cancelled: backtrackParse and backtrackParseUpToError undo     *)
(* exactly the actions, the tokens and the reads of the stream that belong *)
(* to the alternatives that failed.                                        *)
THEOREM LogsAlwaysBuildTheirStacks == ParseSpec => []LogsBuildTheirStacks
<1>1. IInv => LogsBuildTheirStacks
  <2> SUFFICES ASSUME IInv PROVE LogsBuildTheirStacks
    OBVIOUS
  <2>1. LogBuildsStack
    BY DEF IInv, SearchInv, LogBuildsStack
  <2>2. UpToErrorIsConsistent
    BY DEF IInv, UpToInv, InUpTo, UpToErrorIsConsistent, TokensUpTo
  <2> QED BY <2>1, <2>2 DEF LogsBuildTheirStacks
<1> QED BY <1>1, Invariance, PTL
=============================================================================
