--------------------------- MODULE MCNotebookEdit ---------------------------
(* NotebookEdit on small notebooks: cells with and without ids.           *)
EXTENDS NotebookEdit

CONSTANTS a, b

InitialCell(m, id) ==
    [meta |-> m, id |-> id, src |-> {m}, out |-> None, stored |-> TRUE]

\* One cell has an id, the other none.
HalfBook == <<InitialCell(a, <<Human, 0, 1>>), InitialCell(b, None)>>

\* Every cell has its id.
FullBook == <<InitialCell(a, <<Human, 0, 1>>), InitialCell(b, <<Human, 0, 2>>)>>

SmallBooks == {HalfBook, None}
IdlessBooks == {HalfBook}
FullBooks == {FullBook}

CallSymmetry == Permutations(Calls)
=============================================================================
