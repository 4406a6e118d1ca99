------------------------------ MODULE Repairs -------------------------------
(***************************************************************************)
(* How DiagnoseParser looks for a repair: the trials on one configuration. *)
(* Each trial is a parse from a stack s, a few symbols of which may be     *)
(* dropped, with a symbol put before, instead of or for some of the tokens *)
(* around the error; the repair that gets farthest is kept.                *)
(*                                                                         *)
(* Symbols below NT_OFFSET are terminals.  Names and texts are sequences   *)
(* of characters in lower case.                                            *)
(***************************************************************************)
EXTENDS ScopeTrial, FiniteSets

CONSTANTS
  candidates,              \* state |-> its row of asr, the terminals to try
  nonterminalCandidates,   \* state |-> its row of nasr
  name,                    \* terminal |-> its name
  text,                    \* kind |-> the text of its tokens
  MAX_NAME_LENGTH, EOLT_SYMBOL

VARIABLE lines             \* the tokens that begin a line

afterEol(token) == token \in lines

INSERTION_CODE == 3
INVALID_CODE == 4
SUBSTITUTION_CODE == 5
SECONDARY_CODE == 5
DELETION_CODE == 6
MERGE_CODE == 7
MISPLACED_CODE == 8
SCOPE_CODE == 9
EOF_CODE == 10

-----------------------------------------------------------------------------
(* misspell: how much the text of a token looks like the name of a symbol. *)
Singletons ==
  {<<";", ",">>, <<",", ";">>, <<";", ":">>, <<":", ";">>, <<".", ",">>, <<",", ".">>,
   <<"'", "\"">>, <<"\"", "'">>}

Comparison == [i : Nat, j : Nat, count : Nat, prefix : Nat, errors : Nat]

misspell(sym, tok) ==
  LET s1 == name[sym]
      s2 == SubSeq(text[getKind(tok)], 1, Min({Len(text[getKind(tok)]), MAX_NAME_LENGTH}))
      n == Len(s1)
      m == Len(s2)
      \* Behind each stands a gate, which the scan may peek at.
      A(i) == IF i <= n THEN s1[i] ELSE ""
      B(j) == IF j <= m THEN s2[j] ELSE ""
      on(c, di, dj, errors) == [c EXCEPT !.i = @ + di, !.j = @ + dj, !.errors = @ + errors]
      scan[c \in Comparison] ==
        IF c.i > n \/ c.j > m THEN c
        ELSE IF A(c.i) = B(c.j)
        THEN scan[[on(c, 1, 1, 0) EXCEPT !.count = @ + 1,
                     !.prefix = IF c.errors = 0 THEN @ + 1 ELSE @]]
        ELSE IF A(c.i + 1) = B(c.j) /\ A(c.i) = B(c.j + 1)
        THEN scan[[on(c, 2, 2, 1) EXCEPT !.count = @ + 2]]
        ELSE IF A(c.i + 1) # B(c.j + 1) /\ n - c.i > m - c.j THEN scan[on(c, 1, 0, 1)]
        ELSE IF A(c.i + 1) # B(c.j + 1) /\ m - c.j > n - c.i THEN scan[on(c, 0, 1, 1)]
        ELSE scan[on(c, 1, 1, 1)]
      end == scan[[i |-> 1, j |-> 1, count |-> 0, prefix |-> 0, errors |-> 0]]
      num_errors == IF end.i <= n \/ end.j <= m THEN end.errors + 1 ELSE end.errors
      count == IF num_errors > Min({n, m}) \div 6 + 1 THEN end.prefix ELSE end.count
  IN  IF n = 1 /\ m = 1 /\ <<s1[1], s2[1]>> \in Singletons THEN 3
      ELSE (count * 10) \div (n + 1 + num_errors)

(* The text of two tokens, run together.                                   *)
Merged(first, position) ==
  text[getKind(Buffered(first, position))] \o text[getKind(Buffered(first, position + 1))]

(* mergeCandidate: the first candidate with a name as long as the merged   *)
(* text.  compare_nocase is not 0 when the two differ.                     *)
mergeCandidate(first, state, position) ==
  LET str == Merged(first, position)
      fit == SelectSeq(candidates[state], LAMBDA c : Len(name[c]) = Len(str) /\ str # name[c])
  IN  IF fit = <<>> THEN 0 ELSE fit[1]

-----------------------------------------------------------------------------
(* PrimaryRepairInfo.  A trial also leaves scopes behind (scopeIndex and   *)
(* scopePosition up to scopeStackTop), whether or not its repair is taken. *)
NoRepair == [distance |-> 0, misspell |-> 0, code |-> 0, position |-> 0, symbol |-> 0]

Better(r, distance, misspelt) ==
  \/ distance > r.distance
  \/ distance = r.distance /\ misspelt > r.misspell

(* scopeTrial as the primary and secondary phases call it.                 *)
Scoped(first, s, r, scopes) ==
  scopeTrial(first, r.position, s,
             [NoTrial EXCEPT !.distance = r.distance, !.scopes = scopes,
                             !.scoped = r.code = SCOPE_CODE],
             CursorBefore(Buffered(first, r.position)))

(* The terminals to try: those of the state that is reached when all       *)
(* reductions on the error token are done, then those of the state itself. *)
Candidates(first, s, position) ==
  LET tok == getKind(Buffered(first, position))
      cursor == CursorBefore(Buffered(first, position + 1))
      next_state == Last(ReducedFrom(s, <<>>, tAction(Last(s), tok, cursor), tok, cursor).stack)
      Usable(row) == SelectSeq(row, LAMBDA c : c \notin {EOFT_SYMBOL, ERROR_SYMBOL})
      reached == Usable(candidates[next_state])
  IN  reached \o SelectSeq(Usable(candidates[Last(s)]), LAMBDA c : ~Contains(reached, c))

checkPrimaryDistance(first, r0, s, scopes0) ==
  LET p == r0.position
      error == Buffered(first, p)
      Distance(symbol, position) == parseCheck(first, s, symbol, position).distance
      EndOfLine(symbol, position) ==
        symbol = EOLT_SYMBOL /\ afterEol(Buffered(first, position))
      Try(r, distance, misspelt, code, symbol) ==
        IF Better(r, distance, misspelt)
        THEN [r EXCEPT !.distance = distance, !.misspell = misspelt, !.code = code,
                       !.symbol = symbol]
        ELSE r
      Scope(trial) ==
        IF trial.distance > r0.distance
        THEN [r0 EXCEPT !.distance = trial.distance, !.misspell = 10, !.code = SCOPE_CODE]
        ELSE r0
      Merge(r, c) == IF c = 0 THEN r ELSE Try(r, Distance(c, p + 2), 10, MERGE_CODE, c)
      Delete(r) ==
        Try(r, Distance(getKind(Buffered(first, p + 1)), p + 2),
            IF EndOfLine(getKind(error), p + 1) THEN 10 ELSE 0, DELETION_CODE, r.symbol)
      Insert(r, c) == Try(r, Distance(c, p), IF EndOfLine(c, p) THEN 10 ELSE 0,
                          INSERTION_CODE, c)
      Substitute(r, c) ==
        Try(r, Distance(c, p + 1), IF EndOfLine(c, p + 1) THEN 10 ELSE misspell(c, error),
            SUBSTITUTION_CODE, c)
      Chosen(r, distance, code, symbol) ==
        [r EXCEPT !.distance = distance, !.misspell = 0, !.code = code, !.symbol = symbol]
      Instead(r, symbol, distance) ==
        IF distance > r.distance THEN Chosen(r, distance, INVALID_CODE, symbol) ELSE r
      Before(r, symbol, distance) ==
        IF distance > r.distance \/ (distance = r.distance /\ r.code = INVALID_CODE)
        THEN Chosen(r, distance, INSERTION_CODE, symbol) ELSE r
      Nonterminal(r, c) ==
        LET symbol == NT_OFFSET + c
        IN  Before(Instead(r, symbol, Distance(symbol, p + 1)), symbol, Distance(symbol, p))
      Terminals(r, tried) == FoldLeft(Substitute, FoldLeft(Insert, r, tried), tried)
      Behind(trial) ==
        [repair |->
           FoldLeft(Nonterminal,
                    Terminals(Delete(Merge(Scope(trial), mergeCandidate(first, Last(s), p))),
                              Candidates(first, s, p)),
                    nonterminalCandidates[Last(s)]),
         scopes |-> trial.scopes]
  IN  Behind(Scoped(first, s, r0, scopes0))

(* secondaryCheck: can a repair that drops a part of the stack, or one     *)
(* token and completes scopes, do better?                                  *)
secondaryCheck(first, s, p, r, scopes0) ==
  LET Exceeds(distance) == distance - p + 1 > MIN_DISTANCE /\ distance > r.distance
      misplaced ==
        \E n \in 1 .. Len(s) - 1 :
          Exceeds(parseCheck(first, SubSeq(s, 1, n), getKind(Buffered(first, p)), p + 1).distance)
      Behind(trial) ==
        [better |-> trial.distance - p > MIN_DISTANCE /\ trial.distance > r.distance,
         scopes |-> trial.scopes]
  IN  IF misplaced THEN [better |-> TRUE, scopes |-> scopes0]
      ELSE Behind(Scoped(first, s, [r EXCEPT !.position = p + 1], scopes0))

-----------------------------------------------------------------------------
(* SecondaryRepairInfo.                                                    *)
NoSecondary(deletions) ==
  [code |-> 0, distance |-> 0, position |-> 0, stackPosition |-> 0, numDeletions |-> deletions,
   symbol |-> 0, recoveryOnNextStack |-> FALSE]

(* Down the stack, which is cut off below the positions from `top' on: how *)
(* many of the symbols dropped began at different tokens.                  *)
Down(top) == [n \in 1 .. top + 1 |-> top + 1 - n]

Deletions(first, locations, from, top) ==
  Cardinality({n \in top .. from :
    locations[n] < IF n = from THEN Buffered(first, 2) ELSE locations[n + 1]})

(* The last token of the buffer that is not the end of the stream, and one.*)
LastIndex(first) ==
  1 + Max({0} \cup {n \in 1 .. MAX_DISTANCE - 1 : getKind(Buffered(first, n)) # EOFT_SYMBOL})

Gained(r) == r.distance - r.numDeletions

misplacementRecovery(first, r0, s, locations, last_index, flag) ==
  LET Chosen(r, top, distance, stack_deletions) ==
        LET j == IF distance >= MAX_DISTANCE THEN last_index ELSE distance
        IN  IF distance > MIN_DISTANCE /\ j - stack_deletions > Gained(r)
            THEN [r EXCEPT !.stackPosition = top, !.distance = j,
                           !.numDeletions = stack_deletions, !.recoveryOnNextStack = flag]
            ELSE r
      Try(r, top) ==
        Chosen(r, top,
               parseCheck(first, SubSeq(s, 1, top + 1), getKind(Buffered(first, 2)), 3).distance,
               Deletions(first, locations, Len(s) - 2, top))
  IN  FoldLeft(Try, r0, Down(Len(s) - 2))

secondaryRecovery(first, r0, s, locations, last_index, flag) ==
  LET Repaired(r, code, symbol, top, i, k, j) ==
        [code |-> code, distance |-> j, position |-> i, stackPosition |-> top,
         numDeletions |-> k, symbol |-> symbol, recoveryOnNextStack |-> flag]
      OnTop(r0_, top) ==
        LET base == SubSeq(s, 1, top + 1)
            stack_deletions == Deletions(first, locations, Len(s) - 1, top)
            Distance(symbol, position) == parseCheck(first, base, symbol, position).distance
            Upto(distance) == IF distance >= MAX_DISTANCE THEN last_index ELSE distance
            Enough(distance, i) == distance - i + 1 > MIN_DISTANCE
            Deleted(r, i, k, distance) ==
              LET j == Upto(distance)
              IN  IF /\ Enough(distance, i)
                     /\ \/ k < r.numDeletions
                        \/ j - k > Gained(r)
                        \/ r.code = SECONDARY_CODE /\ j - k = Gained(r)
                  THEN Repaired(r, DELETION_CODE, r.symbol, top, i, k, j) ELSE r
            Substituted(r, i, k, symbol, distance) ==
              LET j == Upto(distance)
              IN  IF Enough(distance, i) /\ (k < r.numDeletions \/ j - k > Gained(r))
                  THEN Repaired(r, SECONDARY_CODE, symbol, top, i, k, j) ELSE r
            Delete(r, i, k) == Deleted(r, i, k, Distance(getKind(Buffered(first, i)), i + 1))
            Substitute(r, i, k, c) ==
              Substituted(r, i, k, NT_OFFSET + c, Distance(NT_OFFSET + c, i))
            Try(r, i) ==
              LET k == stack_deletions + i - 1
              IN  IF r.numDeletions < k THEN r
                  ELSE FoldLeft(LAMBDA q, c : Substitute(q, i, k, c), Delete(r, i, k),
                                nonterminalCandidates[Last(base)])
        IN  FoldLeft(Try, r0_, [n \in 1 .. last_index - MIN_DISTANCE |-> n + 1])
  IN  FoldLeft(OnTop, r0, Down(Len(s) - 1))
=============================================================================
