# TLA+ models of the LPG C++ runtime

The repository is the run-time library of parsers that the LPG generator
writes: token streams, scanners and parsers that read generated tables, and the
error repair around them. It is a sequential library. What is hard in it is not
threads but **undo, memory and order**: searches that try one alternative after
another and have to restore what a failed one did; data that is shared between
alternatives; positions and lengths that are noted, kept and used later; logs
that are written by one pass and replayed by another; a Monitor that may cancel
in between.

Contents: the inventory of the system, the modules, the runs, the proofs, what
the checks found, what is left out, the plan.

## 1 Inventory

| Component | State | Operations | Talks to | Must hold |
|---|---|---|---|---|
| `ConfigurationStack` (`ConfigurationStack.cpp`, `LpgRuntime.cpp:28-36`) | tree of parse stacks, hash table of configurations, stack of those with an alternative left | `findConfiguration`, `push`, `pop`, `top`, `retrieveStack` | called by every search | a configuration is recognised exactly when it was pushed; alternatives come back once, last in first out, with the stack that was pushed; every walk ends |
| Parse tables (`ParseTableProxy.h`) | constant arrays | `tAction`, `ntAction`, `lookAhead`, `rhs`, `lhs` | read by all parsers | none of its own |
| `BacktrackingParser` | state stack, location and action stacks, tuple of tokens, action log | `parseEntry` = `backtrackParse`, then either `parseActions` or `backtrackParseUpToError` + `findRecoveryStateIndex` + `errorRepair`/`repairable` | token stream, configuration stack, rule actions, Monitor | finds the first parse there is or the farthest error; the log is the exact record of the successful search; the rule actions see the right tokens; repairs keep tokens, log and stacks in step |
| `DeterministicParser` | state stack, temporary stack, action log, marker | `parseEntry`, incremental `parse(sym, index)`, `errorReset`, `parseActions` | token stream, rule actions, Monitor | an error leaves the configuration alone; incremental and batch parse agree |
| `LexParser` | two stacks, log, current character | `scanNextToken`, `lexNextToken`, `parseActions` | character stream, rule actions | a character is consumed only if it can be shifted; every character belongs to a token or is reported |
| `RecoveryParser` | stack, log and tuple of its parser, the trial of scopes | `recover`, `fixError`, `acceptRecovery`, `completeScope` | `backtrackParse`, `scopeTrial`, token stream | log, tokens and stack stay in step over several repairs; a repair only inserts; every round gets farther |
| `DiagnoseParser` | previous, current and next stack with the places where they agree, one stack of locations, scope stacks, buffer of tokens, log | `diagnoseEntry`, `errorRecovery` = `primaryPhase`, `secondaryPhase`, panic mode; trials of scope, insertion, deletion, substitution, merging | token stream, messages, Monitor | the three stacks describe consecutive moments; a repair is applied to the stack it was found on; what is skipped is reported; every repair gets on |
| `GLRParser` | configurations that are alive, packed forest, chains of AST nodes, graph of stacks | `parseEntryNoRepair`, `stepConfig`, reductions, packing | tables, rule actions, `fuzzyParseEntry` | every derivation is in the forest, each once; rule actions see their own stack |
| Generated lexers (`LPGLexer.h`) | the text, a `LexParser` | `lexer`, `incrementalLexer` | `LexStream`, `PrsStream`, editor | an incremental scan makes of the text what a whole scan makes of it, returns what it has made, and ends |
| `PrsStream` | tokens, adjuncts, cursor, length | `makeToken`, `makeAdjunct`, `makeErrorToken`, `removeLastToken`, `incrementalResetAtCharacterOffset`, lookups | lexer, parsers | adjuncts belong to the token before them; indices are positions; an incremental reset returns exactly what it removes |
| `LexStream`, `Utf8LexStream` | characters, line offsets, cursor | `getLineNumberOfCharAt`, `getColumnOfCharAt`, cursor | lexer | line and column of every offset |
| `Differ` and its two clients | two sequences, list of changes | `init`, `compare`, `outputChanges` | token or line buffers | the changes turn one sequence into the other |
| `StoragePool` | table of segments, offset | `Alloc`, `Reset`, destructor | AST nodes | memory in use is never handed out again, is zero at first, and is deleted once |
| `Tuple`, `Array`, `Stacks` | segments, size, top | `add`, `reset`, `get`, `Resize` | everything | `reset` within the bounds |
| `Token`, `ErrorToken`, `Adjunct`, `Monitor`, characters and strings | records | accessors | everything | nothing of their own |

`PROJECT.json` lists all of them with their status, and under `hazards` what
can go wrong in this code that a test would hardly reach, line by line.

How they interact: a generated lexer drives `LexParser` over a `LexStream` and
fills a `PrsStream` with tokens and adjuncts; a parser reads the `PrsStream`
through its cursor and the tables through `ParseTableProxy`, and calls the
rule actions of the generated parser back, which ask it for tokens and nodes.
`BacktrackingParser::fuzzyParseEntry` asks `RecoveryParser` for repairs;
`GLRParser::parseEntry` falls back on `fuzzyParseEntry`. A `Monitor` is polled
in every loop.

## 2 Modules

    Alternatives ── PendingConfigurations  (abstract)
         │                  ▲ refines
         │          ConfigurationStack ── ConfigurationStackProofs ── MCConfigurationStack
         │
         ├── ParseTable ── TableAutomaton ── DeterministicParser, LexParser, GLRParser
         │
    ParseTable ── TokenStream ──┬── RuleActions ──┬── BacktrackSearch ── LogReplay ──┐
                                │                 │                                  │
                                │                 │     ErrorTokenRecovery ──────────┤
                                │                 │       └── BacktrackingParser ── MCBacktrackingParser
                                └── ParseCheck ── ScopeTrial ──┬── RecoveryParser ───┘
                                                  │            │       └── MCRecoveryParser
                                                  │            └── Repairs ── DiagnoseParser
                                                  │                    └── MCDiagnoseScope, MCDiagnoseParser
                                                  ├── DeterministicParser ── DeterministicParserProofs
                                                  │       └── MCDeterministicParser
                                                  ├── GLRParser ── MCGLRParser
                                                  └── LexParser ── LexParserProofs, MCLexParser

    LexStream ──┐
    PrsStream ──┴── IncrementalLexer ── MCIncrementalLexer

    StoragePool ── StoragePoolProofs, MCStoragePool          Differ ── DifferProofs, MCDiffer

    ParseTableProofs (RuleActions, TableAutomaton) ──┬── BacktrackingParserProofs
                                                     ├── DeterministicParserProofs
                                                     ├── LexParserProofs
                                                     └── GLRParserProofs

    (tables: MCStatementTable for MCBacktrackingParser, MCRecoveryTable for MCRecoveryParser and
    MCDiagnoseScope, MCExprTable for MCDiagnoseParser)

All arrays of the code start at 0; sequences here start at 1. A stack of the
code with its top index is a sequence whose last element is the top; only where
the code reads *above* the top (the location and action stacks, `parseStack`) is
that part kept too.

**`ConfigurationStack`** models `ConfigurationStack.cpp` pointer by pointer:
nodes of the tree and configuration elements are positions in their pools, in
the order of allocation, 0 is the null pointer. One action is one turn of a
loop of the code (`NextSibling`, `Descend`, `InsertSibling`, `MakeState`,
`ChainNext`, `RetrieveState`, ...), so that a pointer that is wrong for one turn
is a state. The client is any parser: it pushes only a configuration that it has just
looked up and that was new - that is how all three callers use it - and
otherwise calls in any order. The history `path` notes which stack a node was
made for; no guard reads it.

**`PendingConfigurations`** is the promise: the set of all configurations ever
pushed and the sequence of those with alternatives left. `Alternatives` holds
the few operators both share with the searches. The mapping is at the end of
`ConfigurationStack` (`Abs`): a node is its path; an element counts from the
moment it has its node.

**`ParseTable`** is the table layout: `baseAction`, `baseCheck`, `termAction`,
`termCheck`, the ranges of actions, goto-reductions, and what an action does to a
stack (`AfterAction`, `StackAfter`), which is also what the properties refer to.

**`TableAutomaton`** says what the generator makes a table of, and what the parsers therefore never look up in
vain: an LR automaton. It is external. An automaton is a set of edges (which state may be on top of which), of items (in
which state the parser may be how far into a rule for which nonterminal) and of answers of the table
(`IsAutomaton`); a stack that spells a path of it is viable (`IsViable`). `Automaton` computes that of a given table.

**`TokenStream`** is the part of `PrsStream` that parsers read by: the cursor and
the lookahead along it. **`RuleActions`** is what the drivers show to the rule
actions. Those are the user's code; they are taken to build a node from
everything that the parser shows them: the first and last token of each symbol
(`getToken`, `getLastToken`) and the entries of `parseStack`. A driver puts its
answers together (`Answering`); `process_reductions` finds the rules that
follow one another (`RulesOf`) and runs their actions in that order
(`RunRules`). The history `derived` notes what each symbol on the stack really
covers, and `SawItsTokens` compares the two.

**`BacktrackSearch`** is the loop of `backtrackParse`, one action per turn of
the loop and kind of action, with the cursor of `PrsStream`. It uses the
configuration stack by its promise, which the first run and the proofs justify.

**`ErrorTokenRecovery`** adds what `parseEntry` does with an error:
`backtrackParseUpToError` (`UpTo...`), `findRecoveryStateIndex`, and
`errorRepair` with `repairable` (`Attempt`, `Try...`, `Repair`).
`locationStack` and `actionStack` are kept as arrays, with what lies above the
top, because the code reads entries that a backtrack has left behind. The
arrays of `repairable` are the same as those of the search in the code too.

**`LogReplay`** is `parseActions`: the log of a search is replayed on the tuple of
tokens, and the rule actions run. It serves both entries. A token that stands
for a missing nonterminal becomes a node that the user's code makes up (`Placeholder`),
if it can for that symbol (`Prostheses`); otherwise the parse is a bad one (`ReplayRefuses`).

**`BacktrackingParser`** is `parseEntry` as a whole.

**`RecoveryParser`** is `fuzzyParseEntry` as a whole, with `recover` as it goes
round by round: `StartRecovery` and `NextRound` cut back the log, the `Fix...` actions are the
turns of `fixError`, `TryScopes` is its call of `scopeTrial` on the error token,
`CompleteScope` is one turn of `acceptRecovery` with `completeScope` in it, and `Resume` calls
`backtrackParse` again, whose actions are those of `BacktrackSearch`. The log,
the tuple and the stack are shared by all of them, as in the code. The scopes that were
reported are kept in `errors` (`addRecoveryError`).

**`ParseCheck`** is how far a parser would get: `parseCheck`, `parseForError` and `parseUpToError`, which differ
in where they stop and in what they return (`Ahead`). **`ScopeTrial`** is `scopeTrialCheck`, which tries scopes on top of each other. They
have no state of their own, so they are functions, from the stack and the last trial to a new one.
Where a trial leaves the cursor of the stream is a part of it, because `fixError` goes on from there.

**`Repairs`** is what is tried on one configuration: `checkPrimaryDistance` (scope, merging, deletion,
insertion and substitution of terminals, then of nonterminals, in the order of the code, which decides between repairs
that get equally far), `secondaryCheck`, `misplacementRecovery` and `secondaryRecovery`, with `misspell` and `mergeCandidate`.
The names of terminals and the texts of tokens are sequences of characters, as those two compare them.

**`DiagnoseParser`** is `diagnoseEntry`, turn by turn of its outer loop. `Turn` synchronizes the stacks and takes the log;
`ReduceOnCurrent`, `Take`, `ReduceOnNext` and `Advance` are the turns of the inner loops, in
which `tempStack`, `nextStack`, `stateStack` and `prevStack` are brought up to date above `pos`, `next_pos` and `prev_pos`. At
the error `Detect` looks at the limits, then `errorRecovery` goes from `PrimaryPhase` to `FirstSecondary`, `Panic` and `GiveUp`;
`Recovered` parses on with the candidate. The stacks and `locationStack` are arrays with all that earlier turns have left in
them. `scopes` is what the last trial has left in `scopeIndex` and `scopePosition`; that it need not be that of
the repair is the code's, see 5. The buffer is determined by its first token (`first`). A nonterminal
that the state on top does not know (`Gotos`) makes the code follow whatever the table holds at that place: `pc` is then `"lost"`, and
the model ends. The clock (`Timed`) may pass the limit at any error. The history `turns` notes what every turn began with.

**`GLRParser`** is `parseEntryNoRepair`. A configuration is a record with copies of its stacks.
One action is one turn of `stepConfig` (`Turn`), with all alternatives of a
conflict and the closure of reductions behind each; `EndStep` packs its results, `EndRound`, `Accept` and `BadParse` end a round.
`forest` has the four tables that all share. The key of a node in the packed forest is what
the code computes, so extents that collide there collide here.
Rule actions are those of `RuleActions`; `NoAction` is the set of rules without one, for which the generator leaves
the node of the right-hand side. The grammar (`Grammar`, `StartSymbol`) is for the properties only.

**`DeterministicParser`** is one parser object used in its two ways: `parseEntry`,
and the incremental `resetParserEntry`, `parse(sym, index)`, `errorReset` and
`parseActions`. One action is one turn of a loop. `parse(sym, index)` is modelled
with its two arrays and the border `pos` between them: it simulates the
reductions in `locationStack`, above the part of `stateStack` that they leave
alone. The client is external: it uses each way once, in either order, offers
the next `MAX_LA` tokens in a circular buffer, and when a token is refused it
gives up, replaces or removes a token, or calls `errorReset` and goes on with
an error token or, after a restart, with the rest of the tokens. The history
`stale` notes that `errorReset` has popped states that the log still builds; only
the client asks it, before it calls `parseActions`.

**`LexParser`** is the scanner in its two ways: `parseCharacters()`, which runs the
rule actions as it goes (`Turn`, `ScanReduce`, `StartReplay`, `ReplayReduce`,
`ParseShift`, ...), and `lexNextToken`, which keeps a log (`TakeSimulation`,
`LexShift`, ..., `ActionsTurn` for `parseActions`), for a range of the text or for one item per
call of `scanNextToken`. One action is one turn of a loop. `ScanFails` is the second
attempt, as if the text had ended, for which the cursor is moved and restored. The
characters are the tokens of `TokenStream` with EOF behind them: `LexStream` moves its cursor
the same way. A rule action for `START_SYMBOL` makes a token of the characters that
`getToken(1)` and `getLastToken()` give, as the generated lexers do; `items` lists
those and the errors that are reported. `Reduced` is the inner loop that the scanner has at five places, a reduction and the
goto-reductions behind it, until it stops at a rule for `START_SYMBOL`. A lexer builds no nodes; `RuleActions` uses their
numbers as names of the symbols only.

**`LexStream`** is the text and the table of line offsets: `binarySearch`,
`getLineNumberOfCharAt`, `getColumnOfCharAt` with its tabs, and
`computeLineOffsets`, whole and from an offset on. `LineEntryExists` is the
condition under which the latter does not throw.

**`PrsStream`** is the token stream as a lexer builds it. Tokens and adjuncts
are objects that the stream and the lexer's list of affected tokens point to and
that are *changed* when they are put back, so there is a `heap`, and a pointer
is a position in it; 0 is the null pointer. `tokens` and `adjuncts` interleave
by the indices that each object has into the tuples. The operators are
`makeToken`, `makeAdjunct`, putting old ones back, the lookup by offset, `incrementalResetAtCharacterOffset`
(`AffectedTokens`, `AdjunctsLeft`, `ResetThrows`), `getAdjuncts` and
`addTokensInRangeToList` (`TokensInRange`). It is not built on `TokenStream`:
parsers see kinds and positions only, and no stream changes while they read it.

**`IncrementalLexer`** is what is the same in every generated lexer: `lexer`
(`initializeLexer`, `parseCharacters` item by item, `addEOF`) and
`incrementalLexer`, one action for each of its parts and one for each turn of its loops:
`Edit` (the call), `ResetStream` or the exception, `RepairOffset`, `NewText`
(new characters, length and line offsets, or the exception),
`incrementalParseCharacters`, `NewRange`, `AppendAffected`, `Return`. Two things
are external. The editor replaces a part of the text; `start_change_offset` and
`end_change_offset` are the first and last offset of what it has put in. The
lexical rules: a word is a run of letters, a comment goes to the end of
the line, blanks are skipped, anything else is an error, which `LexStream::reportLexicalError`
only reports: no token is made. After an exception the stream is as the code leaves it, and the client scans
the whole text again. Histories: `edits`, `newObjects` (what the scan has made),
`intact` (how far no edit has reached).

**`StoragePool`** is the table of segments with `Alloc`, in its three cases (`AllocLarge`, `AllocNext`,
`AllocHere`), `Reset` and the destructor. Sizes are in cells. Whether a cell may have been written is
kept with its segment; objects are the history of what was handed out.

**`Differ`** is the comparison of two texts by lines: what they have in common at both ends
(`init`), the one change that is left (`compare`), the counts (`outputChanges`).
The map of equal lines is keyed by pointers, and the lines of the two texts
are different objects, so sections are never split, and there is nothing to move or
merge; that is why these operations are not there.

**`MCStatementTable`** and **`MCRecoveryTable`** are tables of small grammars in
the generator's layout, conflict rows, lookahead states, gotos, default
reductions, error productions and scopes included. They were computed by an LALR
construction and packed as the generator packs; the grammars are in their
headers. The first has null reductions in conflict, a real ambiguity, states
with two tokens of lookahead, and brackets that make a backtrack
leave places behind before an error that can be repaired. The second has constructs to
complete, inside of each other, and a conflict. **`MCExprTable`** is the table of the repository's own
example, `ExprParserprs.h`. `MCDeterministicParser`, `MCLexParser` and
`MCGLRParser` have tables of that kind; the first two without conflicts, each with a row of two tokens of lookahead.

## 3 Runs

| Run | Question | Bounds, and why they are enough |
|---|---|---|
| `config_stack` | Does the pointer structure keep the promise, and its invariants? Does every call return? | up to 2 pushes of three stacks that are siblings, one of them a state longer and ending with a number that another has further up; two tokens in one bucket of two; a conflict of three alternatives: all branches of the walks and chains, with collisions and with sibling lists in any order |
| `backtracking_parser` | Does the search find what plain depth-first search finds, and undo exactly what failed? Does the repeated parse end on the error token, in step? Do rule actions see their tokens and nodes, does `parseEntry` end? | all inputs of up to four simple tokens and eight longer ones, and all of up to five that open a bracket, with and without an entry marker, cancelled at any turn, `max_error_count` 0, 1 and unlimited: nested conflicts, a known configuration, errors far before the end, repairs |
| `repair_completes` | a comment that the code does not keep, see 5 | the inputs with brackets |
| `deterministic_parser` | Do the two ways of parsing agree, does a refused token change nothing, do rule actions see their tokens? | all inputs of up to two tokens and seven longer ones, with and without marker, one correction, cancelled at any turn: chains of up to three reductions that shrink and grow the stack, two tokens of lookahead across the end of the buffer, resets that pop and that restart |
| `recovery_parser` | Do log, tokens and stack stay one parse over the repairs? Does a repair only insert, and is the tree a derivation of what it makes? Does each round get as far as its trial said, and does the recovery end? | five sentences of up to eleven tokens, with none, any one or any two of them missing, and all inputs of up to two tokens, with and without a marker, cancelled at any turn: several rounds, scopes on top of scopes, scopes tried through a conflict and given up, an error at the end, nonterminals that nobody can make up |
| `glr_parser` | Is the packed forest exactly the set of derivations? Do the chains of AST nodes have all of it? Do rule actions see their stack, does the graph of stacks spell it, does the parse end? | all inputs of up to three tokens and ten longer ones at three entry points, cancelled between any two rounds: sums of four parts with their five trees, ambiguous names inside of them, empty symbols on either side, lists with a rule of three symbols |
| `diagnose` | Are the three configurations those before the last tokens? Does the parse go on from a stack that a parse can have? Is every token that is skipped reported? Does every repair get on, or does the diagnosis go round in circles? | all inputs of up to two tokens, four sentences of the second grammar with any one token missing, one with any token replaced, eight with a token repeated too often and four that need special repairs, with and without a marker, cancelled at any turn, `maxErrors` 0 and 1, the time over or not: all kinds of repairs on all three configurations, errors up to the end of the input, panic mode that recovers and that does not |
| `recovers_on_a_configuration` | a comment that the code does not keep, see 5 | one input of the Expr grammar, with the code's constants |
| `lex_parser` | Does a text fall apart into words and errors, one right behind the other with nothing left out (`TextIsItems`), each as long as the table can make it (`ItemsAreTheLongest`)? Do simulation, log and replay agree, do rule actions see their characters? Does the scan end? | all texts of up to three characters and fourteen longer ones, scanned by either way and in every range that begins with the first or second character: empty reductions in a row, a reduction chosen by the next character or by the next two, second attempts that succeed and that fail, empty tokens |
| `incremental_lexer` | Do tokens and adjuncts stay in order and in step through scans, resets and put-backs? Does an incremental scan that gets in step agree with a whole one, list what it has made, and end? Do lookups find the token, the line and the column? | all texts of up to two characters and five longer ones with several lines, comments and tabs; two edits anywhere, each replacing any part by one of six texts: edits inside, before, behind and across tokens and comments, of the first and the last line, and the second on a stream that the first has left |
| `storage_pool` | Does memory in use stay apart, is each segment deleted once, is memory zero? | segments of three cells, five sizes of which two are too large for a segment, a table that grows by two slots, six objects, two resets: segments filled exactly or not, swaps with full, half-full and missing neighbours, growth of the table by a large and by a small object, reuse after either reset |
| `differ` | Do the changes turn one text into the other? | all pairs of texts of one to four lines of three kinds: equal, empty rest on either side, repetitions that overlap |

Deadlock is checked in `config_stack`, whose client never stops, and in
`glr_parser`, which says that it stops only where `parse` has returned (`Returned`). The
other parsers and scans stop when they return, so their runs do not check it;
`ParseEnds`, `RecoveryEnds` and `ScansEnd` say that they stop only there. The
pool and the differ stop at their bounds. That the diagnosis stops is not checked as liveness: its steps cost too much to be
evaluated for fairness, too. Its argument is `EveryErrorIsFartherOn`: errors lie farther and farther on, and where
they need not, no turn begins as an earlier one.

Bounds by name: `MaxConfigurations` (pushes), `Stacks`, `Curtoks`,
`ConflictIndices`, `ActionLengths` (arguments of the client), `Inputs`,
`Markers`, `MaxErrorCounts` (arguments of `parseEntry`), `Calls` (of the scanner, with `Texts`), `MaxEdits` and
`Corrections` (what the client of the incremental parser may do); `LRAutomaton` is computed from the table of the run, in `deterministic_parser`, `lex_parser` and `glr_parser`; for the
lexer `Texts`, `Replacements` and `MaxEdits` (the texts and edits), and `tab_`, 3
instead of 8 so that a short line has several stops; `Sizes`, `MaxObjects` and `MaxResets` (requests to the pool), `Buffers` (texts to
compare). `TABLE_SIZE` is 2
instead of 1021 so that chains collide, `MAX_DISTANCE` 5 instead of 30 so that an input is longer than a trial looks;
in `diagnose` it is 6, so that an input of twelve tokens is long enough for panic mode.
`MIN_DISTANCE` is the code's 3. `STACK_SIZE` is more than the stacks take: the code lets them grow.
`MaxErrors` are the limits that the caller of the diagnosis may give. Of the bounds of the code, the guard of `stepConfig` is the code's (`NUM_STATES` of the table); its limit
on rounds is left out, because every round takes a token. Integers do not overflow at these sizes; the
one key of the code that is computed from several numbers (`SppfKey`) is computed, up to a factor that keeps symbols apart.

**Fairness.** A call that has begun runs on by itself: the code is sequential and
waits for nothing; the client of `scanNextToken` is part of it, as it calls until there is no more. So there is weak fairness on the steps of the code (`Work`,
`ParseStep`, `RecoveryStep`, `Turns`, `Step`), none on other calls of a client and none on the Monitor. In
`GLRParser` weak fairness is written out, because evaluating what enables a step costs as much as the step: some step is enabled
until the parse is done, which the deadlock check of its run shows.

Every property has a mutant of a mapped definition, a plausible slip in that
code (a cursor one token off, a log that is not cut back, a chain that is not
linked), under which the run finds it violated.

## 4 Proofs

`ConfigurationStackProofs` proves, for **all** tables, clients, numbers of
buckets and bounds that satisfy the named assumptions of `ConfigurationStack`:

| Theorem | Says |
|---|---|
| `Invariance` | `Spec => []IInv` |
| `TypeCorrect` | the pools, pointers and locals have their types |
| `TreeIsFaithful` | no two nodes of the tree stand for the same stack |
| `ConfigurationsAreDistinct` | no configuration is pushed twice: `findConfiguration` decides |
| `RetrievalIsExact` | `retrieveStack` gives back the stack that was pushed |
| `AlternativesAreKept` | an element is pending exactly while it has an alternative left, in order |

The assumptions: stacks are non-empty sequences of integers, tokens are
naturals, there is a bucket, and a row of alternatives ends with a 0 inside the
table and has an entry behind the first (`ConflictAssumption`; the generator writes a conflict
only for two actions or more). TLC evaluates them in the run `config_stack`.

The argument. None of the properties is inductive alone. That no two nodes
stand for the same stack depends on a walk missing no sibling, which depends on
the sibling lists being what the paths say; that no configuration is pushed
twice depends on the walk and on the chain having been searched in full since the
client's lookup. `IInv` therefore adds, part by part: the *tree* (`PathInv`: a
node's path is its parent's and its own number; `ListInv`: child and sibling
pointers go to nodes of the right parent, newest first, and pass none over),
the *chains* (`HashInv`, `ElementInv`), what the *walks* have established
(`SearchInv`, `MakeInv`, `LocatedInv`, `ChainInv`, `RetrieveInv`) and what the
client *knows* from the last answer (`PushInv`, `AnswerInv`). One lemma per
action shows that it keeps `IInv`; the lemmas `GrowFacts`, `GrownPath` and
`GrownFaithful` say once what a new node does to paths. The run checks what follows from `IInv`, not `IInv`
itself.

The second part of `ConfigurationStackProofs` proves, under the same assumptions:

| Theorem | Says |
|---|---|
| `ImplementsPendingConfigurations` | `Spec => Promise`: every step of the pointer structure is a step of `PendingConfigurations`, or leaves it alone |

The calls of the client take many steps. The mapping lets the configuration come into being at the one step at which its
element gets its node; until a call returns, `RequestInv` says that
the arguments are still those the client has called with. All other steps have to leave the stack of every
element alone, which is `RetrievedStackIsPushedStack` again: what `StackOf` reads is not moved by new nodes.

`DeterministicParserProofs` proves, for all tables, automata, streams and clients that
satisfy `TableAssumption` and the layout assumptions of `ParseTable`:

| Theorem | Says |
|---|---|
| `Invariance` | while `parse` simulates, the stack is the one it was called with and the log begins with the log it was called with |
| `RefusalChangesNothing` | a refused token leaves stack and log as they were |
| `StacksInvariance` | `Spec => []StacksInv` |
| `ParserStaysInTheTable` | no reduction of the incremental parser goes below the bottom of the stack or to a goto that the table does not have, and the table never asks for more tokens of lookahead than the client offers |
| `TwoStacksAreAlwaysOne` | what is simulated in two arrays is the stack that the logged reductions build; between calls the log builds the stack and has taken the tokens before the one on offer |
| `ActionsInvariance` | `Spec => []ActionsInv` |
| `RuleActionsAlwaysSeeTheirTokens` | in a batch parse and in a replay, each rule action sees the tokens and the nodes of exactly the symbols of its rule |

`ErrorLeavesConfiguration` alone is not inductive: that the log can be cut back depends on
every logged reduction having been appended behind `save_action_length`. The other
actions are there because a call of one of them between two calls of `parse`
could change what the saved length means.

`TwoStacksAreOne` depends on the table. The code pops without looking whether there is anything left to pop and follows a
goto without asking whether the table has it, and rightly so, because the generator has made the table of an automaton; with a table
that is not made so, the property may be false. `TableAssumption` therefore says that there is one, and no more than the proofs use:
below a state that is *k* symbols into a rule lie *k* states, the lowest of which has a goto for the rule's
nonterminal; what the table answers is an edge or an item; an answer that asks for one more token leads to another answer,
less than `lookahead` tokens deep; no nonterminal derives itself (its *rank* falls). TLC computes the automaton of the table of the run and
evaluates the assumption; taking out one edge or one item of it, or one token of lookahead less, makes it false. `StacksInv` says, besides
that the stream is well-formed, that both stacks are viable (`StackInv`, `TrialInv`), that the table has answered in the state
on top of the simulated one, that the simulation has written each place of `locationStack` above `pos` up to its top, and that
the log describes the stack unless `errorReset` has popped it (`DescribedInv`).

What a rule action sees rests on more than the step that shows it. `ActionsInv` says what a driver has before its next turn
(`Driving`): every symbol on the stack has its place in `locationStack`, the number of tokens that the symbols below it cover, and its
node, and the cursor stands behind all of them. A turn keeps that (`TurnDrives`) if the action is one the table answers on this stack,
for otherwise a rule might pop what is not there. In a batch parse the table is asked; in a replay it was asked when the
token was tried, on another stack, so `Builds` says of the log that each entry is the answer on the stack that the entries before it build,
and `BuiltInv` that it stays so while a token is tried, refused and cut off again. A replay takes no token that there
is not because its log takes those before the one on offer (`TokensTakenByPart`), and neither does a
batch parse, because the last one is EOF, which no state takes: two conjuncts of `TableAssumption`, which hold of what LPG generates.
An `errorReset` makes the log useless (`stale`); no replay follows one until the parser is reset.

What has nothing to do with the driver is in `ParseTableProofs`. `ProcessReductionsShow`: if the places are right
(`Showing`) and the stack is viable, a rule and the goto-reductions it sets off keep them right, arrive where the table says, and the
nodes they build saw their tokens (`ActionSees`). It rests on sums over parts of the stack (`CoveredPart`, `UntilOfPart`), which are
proved of the recursive function in `Covered`.

`LexParserProofs` proves, for all tables, automata, texts and calls that satisfy the same kind of assumption (a text is not
empty, of terminals of the automaton, and ends with `EOFT_SYMBOL`, which no state takes and no state looks behind; and only
the start state begins an item; these two hold of the tables of both lexers in `src/examples`, too). `EOFT_SYMBOL` is
nowhere else in a text: the generated lexers give it to U+FFFF, too (`LPGLexer.h:536`), which is no character of a text;
a scan would end there.

| Theorem | Says |
|---|---|
| `Invariance` | `Spec => []IInv` |
| `SimulationIsAlwaysTheStack` | what a character is taken on is the stack that was simulated: `parseNextCharacter` has carried out the simulated reductions, no more and no fewer, and the log of `lexNextToken` builds the stack |
| `ScannerStaysInTheTable` | when a character is taken the stack is viable, and what is done is what the table answers there |
| `CharactersInvariance` | `Spec => []CharactersInv` |
| `RuleActionsAlwaysSeeTheirCharacters` | each rule action sees the characters and the nodes of exactly the symbols of its rule, in `parseCharacters` and when the log of an item is replayed |
| `TilesInvariance` | `Spec => []TilesInv` |
| `TextIsAlwaysItems` | the items and the errors cover the text, one right behind the other, up to its end when the scan has come to it |

Two things are hard about it. `parseCharacters` keeps no log, so nothing in its state says which reductions it has simulated:
it starts again from the first action and must arrive at the same stack. `Leads` says that there is a chain of
reductions of the table from one stack to the other, none of which touches what is below `pos`, as the closure of one such reduction
(`ReducesTo`); while simulating it gets longer at its end, while replaying shorter at its beginning, because the next
reduction is determined by the stack, the character and the cursor (`LeadsOn` and the lemmas behind it), which stay the same. And
the loops stop at a rule for `START_SYMBOL` without a goto, which the table need not have: `Stopped` follows the same
chain as in `ParseTable` up to that rule (`TurnsStop`, `StopsWell`). That `tAction` answers, however many tokens of lookahead it takes, is
an induction over what `lookahead` still has to look at.

That rule actions see their characters is about time as well as place. `lexNextToken` scans an item to its end, tries once more as if the text ended
there, undoes that, and only then runs the rule actions from the log, on a stack that it builds a second time.
`CharactersInv` says where the cursor will be when such an attempt has been undone (`Position`), that it is as many characters behind the
beginning of the item as the log has taken (`Records`), and that the log is one of the table and completes an item with its last action
and not before (`Logged`), so that the replay neither stops early nor runs on into the next item. The rest is as for
`DeterministicParser`: every symbol of the stack lies where it begins (`Lies`), and the cursor stands behind what they cover
(`Reach`). That the rules stop where the simulation did, at the first rule for `START_SYMBOL`, is `TurnsStopAlike`.
A rule for `START_SYMBOL` inside an item would end the scan there; the assumption on the start state rules it out.

That items cover the text rests on that: a rule action for `START_SYMBOL` lists what lies between the place at the bottom of the
stack and the last token (`Lists`, part of the lemmas about the actions), and `CharactersInv` says that these are the characters up to the
cursor. `TilesInv` adds that the next item begins where the ones before it end (`NextStart`), that
an item begins before the end of the text to scan, and that its end is seen when the cursor is behind it and not before
(`EndInv`); in a range that is where `NextInText` goes on at the end of the text. A scan that fails as if at the end
of the text reports the item up to the cursor, which has been restored by then.

`GLRParserProofs` proves, for all tables, automata, inputs and entry points that satisfy `TableAssumption` (the same kind of
assumption; inputs end with `EOFT_SYMBOL`, which no state takes, alone or in a conflict, and no state looks behind; and each action of a
conflict row is an answer of the automaton by itself) and the layout assumptions of `ParseTable`:

| Theorem | Says |
|---|---|
| `Invariance` | `Spec => []IInv` |
| `GssAlwaysSpellsTheStack` | the chain of the shared graph at `gssTip` spells the stacks of every configuration |
| `RuleActionsAlwaysSeeTheirTokens` | each rule action sees the tokens and the nodes of exactly the symbols of its rule, on the stack of its own configuration |

That the graph spells the stack is inductive but for what a reduction takes off both: nothing in the code says that the
stack is as deep as the rule is long, so the table has to. `IInv` says of every configuration between two turns that it is
`Ready`: its stacks are equally deep, each place has its node of the graph (`Spelled`), its place in the stream and the node of its
symbol (`Counted`), the cursor stands behind what all symbols cover (`Reading`), and its stack with the action on top is
viable. Inside of a turn a copy is `Standing`: the state pushed last has no symbol until a token is taken or a reduction
ends there, and an empty rule puts one on a place that the graph does not have yet. The closure of reductions is a fold over the rules that
`RulesOf` chains; `ReducedStands` is one round of it, and that each rule finds its symbols on the stack and the last one leads to a goto
is `RulesOfStays` in `ParseTableProofs`, by `TurnInduction`. Actions of a conflict and results of a step are folded, too. As the induction
theorem of folds has operators for parameters, `FoldTrace` makes a function of what the fold has come to after each element, and the
inductions go along that. Nodes that are merged and chained (`Canonical`, `packConfig`) change no node that there is, only the links between
them, which `Healthy` says of what all configurations share.

Behind these three are the lemmas of `ParseTableProofs` about the definitions by recursion in `ParseTable`: that they are what they say
(`RunsExist`, `TailRecursion`: for a recursion that only goes on, a function is constructed that satisfies the
equation); what a log does when it grows and when it is cut back (`StackAfterOneMore`, `TokensTakenByOneMore`,
and others); and that on a viable stack the chain of goto-reductions arrives (`TurnsArrive`: of all turns
that do not, take the one lowest on the stack, and of those the nonterminal of least rank; the turn
after it is lower or has a smaller rank), at a viable stack (`AnswersAreViable`). Where an induction over the stack or the log
is needed, it is made over sets of numbers (`NatSetInduction`, `LeastElement`). `TurnInduction` is that argument in general, for
anything that is true of a turn if it is true of the next: `TurnsArrive` and `TurnsStop` are two uses of it.

`BacktrackingParserProofs` proves, for all tables, markers and inputs (`InputsAssumption`: not
empty, of natural numbers), with nothing assumed of the grammar, and even of what one action does to the stack:

| Theorem | Says |
|---|---|
| `Invariance` | `ParseSpec => []IInv` |
| `LogsAlwaysBuildTheirStacks` | in the search for a parse and in the one that is repeated up to the error, the log builds the stack and has taken the tokens up to the current one, the tuple of tokens has exactly those, and so it is for every pending configuration and its part of the log |

That a pending configuration fits its part of the log is kept only if undoing the top of the configuration stack never cuts into what those
below rest on. The saved lengths rise from bottom to top (`Saved`): a push saves the length of the log, and the log is not cut below
the length of the top entry before that is popped. In the repeated search the tuple is cut back by a length that was
saved as `curtok`, so `UpToInv` adds what the tuple is (`TokensUpTo`) and that the places of the top state are the ends
of log and tuple.

`StoragePoolProofs` proves, for all sizes of segments, increments of the table and
sequences of requests that satisfy `PoolAssumption` (sizes are positive, the mark of an empty slot is no segment):

| Theorem | Says |
|---|---|
| `PoolInvariant` | `Spec => []IInv` |
| `PoolKeepsObjectsApart` | objects in use do not overlap and lie inside segments that exist |
| `PoolOwnsEverySegmentOnce` | no segment is in two slots or deleted while in one; without a reset the destructor deletes all |
| `PoolZeroUntilReset` | what is handed out before a reset is zero |

That objects are apart is not inductive: it needs to be known where they lie. `IInv` adds that the slots up to
the current one are filled (`Filled`), that slots and segments are in step (`Owned`), and that every object lies in the
used part of the current segment or in a segment before it (`Placed`), which is what the swap in
`AllocLarge` must keep. The lemma `TableFacts` says what growing the table does.

That memory is zero needs to be known of the memory nobody has yet: in the current segment nothing from the offset on
has been written (`Clean`), as long as there was no reset and no large object came first (`Unspoiled`).

`DifferProofs` proves, for all texts (`BuffersAssumption`: they are sequences):

| Theorem | Says |
|---|---|
| `Invariance` | `Spec => []IInv` |
| `DifferenceIsTheWhole` | the change that is put out turns the old text into the new one, and the counts add up |

`IInv` says what `init` hands to `compare`: sections that begin at the same line, before which and behind which the texts
are the same (`Sections`), also when one of them is empty or what is the same at the end overlaps what is the same at the
beginning.

**Only model-checked**: liveness (that calls return), which TLAPS does not handle here under
fairness; what rule actions see in `parseActions` of the backtracking parser, whose log may come from a recovery;
what the error recoveries do (`RepairedLogBuildsStack`, `RestartsAsFarAsTried`, the properties of the diagnosis), which rests on trials
that are recursive over records; that searches find what there is (`FirstParseOrFarthestError`) and the
forest is complete, which compare with a definition by recursion over all inputs; that items are words and as long as
they can be (`ItemsAreTheLongest`), which compares with a list of the words of the table; and the
incremental lexer. TLAPS has no induction over data here: the induction theorems
of its library have operators as parameters, which the provers cannot instantiate. Induction over the natural numbers is possible, over a *set* of numbers, as above.

## 5 What the checks found

Two violation runs, each of a sentence of the repository. The details and
quotes are in `PROJECT.json` under `findings`.

- `repair_completes`: `errorRepair` cuts the tuple of tokens and then reads just
  behind its end; `Tuple::get` throws, so no repair ever completes.
- `recovers_on_a_configuration`: `primaryDiagnosis` sets the top of the stack to the position of the last scope that *any*
  trial has found. On `( ( i * * ( ( ) ( ) ) )` that is above the top of the stack that is repaired: the state
  to recover on is whatever the array holds there.

Because of `repair_completes`, what `parseEntry` does after a successful repair is not
reachable in this code and is not modelled.

Other disagreements that were met while modelling. The models follow the code; the
properties leave these cases out, by a condition that names them, and no run is spent on them:

- `backtrackParseUpToError` notes, when it takes up a configuration, the places of the top state only
  (`BacktrackingParser.cpp:707`); those below are of the abandoned alternative. `errorRepair` may then reset the
  log to a length it does not have, where `Tuple::reset` asserts that this does not happen (`tuple.h:300`).
  `UpToErrorIsConsistent`, a part of `LogsBuildTheirStacks`, speaks of the top places.
- `parseEntry` sets a positive `max_error_count` to 0 (`BacktrackingParser.cpp:334`).
- A cancelled search returns 0, which is success (`BacktrackingParser.cpp:543`);
  properties of results ask for `~cancelled`.
- `acceptRecovery` computes the action on a scope's lookahead before it puts the stream back
  (`RecoveryParser.cpp:266`, `294`). With more than one token of lookahead that may be another action than the trial's, and
  "At least one action should succeed!" (282) fails. The table of the run has one token of lookahead.
- A scope is favoured at the end of the input only in the first trial of a recovery: `repair.code` is never set back
  (`Diagnose.cpp:1731`, `scoped` in the model).
- Behind a shift-reduction in a conflict `completeScope` returns true, whatever is left of the
  suffix, although "assert(scopeRhs(scope_rhs_index + 1) == 0);" (`RecoveryParser.cpp:471`). On `( i` with the scope of
  `E -> ( T ) E` it shift-reduces by `E -> ( E )`; error tokens are made for both `)` and `E`, and the log has one
  action for them. The run `recovery_parser` leaves out that one scope of its grammar.
- `mergeCandidate` compares the wrong way round (`Diagnose.cpp:942`): `if (str.compare_nocase(name(i)))` is true when the
  two differ. It returns the first candidate of the same length that is spelled *differently*, and never "a candidate, whose
  string representaion is a merging of the two tokens" (`diagnose.h:268`).
- "If a scope repair is to be applied at the end of the input, accept it as valid repair only if after applying it the
  parser will accept the input" (`Diagnose.cpp:1235`): since the scopes of a trial are overwritten by the next one
  (line 1748), it is another trial's scope that is applied. On `( ( i * i` two scopes make the parser accept,
  and only one, which a later trial has left, is applied.
- A scope that the secondary phase closes behind dropped tokens is reported up to the token before those. The deletion is
  reported if `repair.stackPosition < stateStackTop` (`Diagnose.cpp:2065`), and the one has just been set to the other
  (line 1925). Panic mode does not report what lies between the error and the repair, either. `EverySkippedTokenIsReported` makes
  exceptions of both.
- `locationStack` serves `stateStack` and `nextStack`; what is pushed for the latter overwrites the
  locations of the former above `pos` (`Diagnose.cpp:214`), which secondary repairs on `stateStack` go by.
- At the end of the stream the token in error is found one too early, since `getPrevious(peek())` is the token before
  the last (`Diagnose.cpp:399`); `EveryErrorIsFartherOn` does not compare errors there.
- The innermost scope that is found when the input is given up is not reported (`Diagnose.cpp:764`).
- The guard of `stepConfig` counts turns; a list of single tokens that is longer than `NUM_STATES * 4 + 8` is parsed in one step and
  throws "cyclic/ε-loop grammar not supported by GLR v2" (`GLRParser.cpp:583`). The run `glr_parser` has such a list.
- `errorReset` may stop at a state that has the error symbol only as lookahead of another
  context (`DeterministicParser.cpp:319`), and pops the stack but not the log
  (`DeterministicParser.cpp:328`); the history `stale` marks such logs.
- The key of a node in the packed forest is `31 * left + right` for one symbol (`GLRParser.cpp:935`), so nodes of a list of
  33 tokens get mixed up; inputs of the run `glr_parser` are shorter. All edges of the graph of stacks are
  labelled 0 when they are made (`GssNode.h:9` says they carry the symbol); the labels are on the chain of each configuration.
- `StoragePool.h:14` promises zeroed memory; a segment that is used again after `Reset` is cleared
  with a length of 0 (line 88). A large object that comes first, or first after `Reset`, is in the way: the next small object gets the
  same memory. After a `Reset` the destructor deletes only the segments in use. `ZeroUntilReset`, `ObjectsAreApart` (`alone`) and `EverySegmentOnce` name these cases.
- `Differ::compare` looks for equal lines by pointers (`Differ.cpp:295`), so "Find largest subsection that matches" never finds one.
- `parseCharacters` runs the rule actions of an empty `START_SYMBOL` before it finds that this is
  an error (`LexParser.cpp:329`): in `TextIsItems` such an item takes no character (`EndOf`).
- When a word is broken off by the end of a range, `lexNextToken` takes the length of the stream for the position behind it, and the
  error goes to the end of the text (`LexParser.cpp:497`): in `TextIsItems` it ends at `Limit` (`EndOf`).
- `getLastToken` of a symbol that is empty at offset 0 is 0, as if it had the first character
  (`LexStream.h:261`); `RuleActionsSeeTheirCharacters` allows that.
- The incremental reset cuts the adjuncts off before it reads those behind the
  affected tokens (`PrsStream.cpp:470`); with a comment behind any of them `Tuple::get` throws, and the
  comments are gone; the client scans the whole text again.
- `computeLineOffsets(offset)` counts lines from 1 and indexes from 0 (`LexStream.cpp:59`): the old
  end of the edited line stays in the table, and in the last line it throws. `LookupsAreRight` asks for lines
  before any edit (`intact`).
- "Otherwise, we produce a bad token" (`LPGLexer.h:283`): nothing calls this `reportLexicalError` of the lexer.
  `LexParser` calls that of the stream it was given (`LexParser.cpp:250`, `257`, `489`, `498`), and the `LexStream` of an
  `LPGLexer` (line 71) only prints a message or hands it on (`LexStream.cpp:93`). So the characters of an error are in
  no token, and `ResynchronizedScanMatchesBatch` says so. (`ExprLexer` is a `LexStream` itself, so its method overrides the stream's.)
- `incrementalLexer` leaves its loop behind the damage, in step or not (`LPGLexer.h:236`); affected tokens that it has
  passed are dropped with the text behind the scan. `Resynchronized` asks that it be in step.
- An edit at the first character of a token, right behind another token, is scanned from its own
  offset, so a word that has become longer is cut in two (`PrsStream.cpp:416`, `428`):
  `Resynchronized` asks that the scan begin where an item begins.
- An old adjunct that is put back has its adjunct index set twice and its token index
  not at all (`PrsStream.cpp:193`), so `addTokensInRangeToList` may take it for a
  new one: `RangeListsTheNewItems` asks that no comment was put back behind the scan.
- `incrementalLexer` does not set the length of the stream (`LPGLexer.h:278`):
  the last part of `StreamInOrder` asks that it still be right.
- For an offset in the blanks before the first token `getTokenAtCharacter` returns the dummy token, 0
  being its own negation (`PrsStream.h:156`): part of `LookupsAreRight`.

## 6 Not modelled, and why

- The parts with status `not_modelled` in `PROJECT.json`, with the reason. Most of the repository's lines are
  examples: generated parsers, lexers, tables and AST classes.
- In `DiagnoseParser`: the wording of messages (`getTermIndex`, `getNtermIndex`, most of `emitError`; an
  insertion before the first token, `BEFORE_CODE`, is an insertion here), `reallocateStacks`, and the parse behind a
  goto that the table does not have.
- In the modelled parts: the reallocation of arrays (stacks are sequences),
  statistics, messages, the flag `taking_actions` and the queries that throw outside of rule actions.
- The exception of `packParseStacks` (`GLRParser.cpp:360`, `373`): `canPackParseStacks` has asked for every position of the
  two stacks before, so it takes two positions whose chains of alternatives meet.
- `removeLastToken`, which only the `reportLexicalError` of a generated lexer calls (section 5).
- `GLRParser::parseEntry` with repair: it calls `fuzzyParseEntry` of a new `BacktrackingParser`, which is modelled by itself.
- The contents of tokens: a token is its index and kind, in `PrsStream` also its
  place in the text.
- In the lexer and its streams: the keyword lexer, the scan of a part of the text
  (`lexer` with offsets), the mapping of kinds, `ErrorToken`s, encodings, includes. The
  scan of one item is a step of the lexical rules, which stand for `LexParser`; that is
  modelled by itself, with a table of its own.
- `DifferTokens`, which gives `Differ` tokens instead of lines; what `Differ` does with sections that it has split, which it never does.

## 7 Plan

Done: `ConfigurationStack` with its refinement, `DeterministicParser`, `LexParser`, `StoragePool`, the searches of `BacktrackingParser`,
the graph and the rule actions of `GLRParser`, and `Differ`, with proofs; `parseEntry` as a whole, both its recoveries,
`DiagnoseParser`, the packed forest, and the incremental lexer with its streams, model-checked. Open, in the order of
what would say most:

1. Proofs: what rule actions see in `parseActions` of `BacktrackingParser`. After a search that succeeds, the log is one of the table
   (as `Builds` says for `DeterministicParser`); after a recovery it has entries that no
   table has answered.
2. Proofs: `PrsStream`: that a token's index is its position (in `StreamInOrder`).
3. `LexParser` implements the lexical rules of `IncrementalLexer`, with a table for them.
4. `ThreeConfigurations` for all tables, which needs an induction over the log.
