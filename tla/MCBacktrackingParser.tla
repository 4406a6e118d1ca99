------------------------ MODULE MCBacktrackingParser ------------------------
(***************************************************************************)
(* parseEntry on the statement table, from the start and from the entry    *)
(* point of a single statement: every input of up to four simple tokens,   *)
(* longer ones in which conflicts nest before or behind an error, and      *)
(* those of up to five tokens, with some longer ones, that open a bracket. *)
(***************************************************************************)
EXTENDS BacktrackingParser, MCStatementTable

Words(tokenKinds, n) == UNION {[1 .. k -> tokenKinds] : k \in 0 .. n}

Simple == Words({1, 2, 3, 4}, 4)

Long == {<<1, 1, 2, 1, 2, 3>>, <<1, 2, 1, 3, 2, 3>>, <<2, 2, 2, 3, 4, 4>>, <<4, 4, 2, 1, 1, 3>>,
         <<1, 3, 4, 4, 3, 2>>, <<2, 1, 2, 2, 1, 4>>, <<3, 2, 1, 2>>, <<1, 4, 2, 4, 4, 3>>}

Bracketed == {<<5>> \o s : s \in Words({1, 5, 6, 7}, 4) \cup {<<1, 7, 1, 5, 6>>, <<1, 7, 1, 7, 7, 6>>, <<1, 7, 6, 5, 1, 7>>}}

MCMaxErrorCounts == {0, 1, -1}

MCInputs == {Append(s, EOFT_SYMBOL) : s \in Simple \cup Long \cup Bracketed}

MCUnlimited == {-1}

MCBracketed == {Append(s, EOFT_SYMBOL) : s \in Bracketed}
=============================================================================
