---------------------------- MODULE NotebookEdit ----------------------------
(***************************************************************************)
(* The notebook tools of src/mcp/notebook.py on one .ipynb file, and the   *)
(* write-back of execute_code (jobs.py, local_jupyter._append_cell).  Each *)
(* tool reads the whole notebook (GET), changes its own copy and writes    *)
(* the whole notebook back (PUT); nothing in the server holds the file in  *)
(* between, so the calls of other clients, and the person at JupyterLab,   *)
(* may write between a call's GET and its PUT.                             *)
(*                                                                         *)
(* A step of a call is what it does between two awaits that matter: the    *)
(* GET together with all that is computed from its answer, or a PUT.  The  *)
(* requests of a call are chosen in its first step, as nothing the program *)
(* shares is read before the GET.                                          *)
(*                                                                         *)
(* A cell is its id, its source (a set of fragments, so that patch_cell's  *)
(* `old` occurs or does not), the call whose outputs it holds, and `meta`, *)
(* the type and metadata a cell keeps for life, which is what tells the    *)
(* properties that two cells are the same one.  The revision of a notebook *)
(* is a hash of its cells: here the sequence of its cells.                 *)
(*                                                                         *)
(* The Contents API normalises a notebook when it saves it                 *)
(* (docs/refactor/README.md:160-166), so what a PUT carries and what the   *)
(* next GET brings may differ in form, and in their hash, though not in    *)
(* what the cells hold.  A cell therefore says whether it is in the form   *)
(* it is stored in: a cell the server has changed may not be.              *)
(***************************************************************************)
EXTENDS Integers, Sequences, SequencesExt

CONSTANTS
    Calls,      \* the tool calls that may be made, each once
    Tools,      \* the tools they may use
    Human,      \* the person at JupyterLab
    Books,      \* the notebooks the file may hold at first
    Fragments,  \* the source fragments patch_cell may look for
    Rewritten,  \* the cells that, once changed, are saved in another form
    MaxSaves,   \* bound: saves by the person at JupyterLab
    None        \* no id, no revision, no outputs, no notebook

AllTools == {"read", "insert", "patch", "edit", "delete", "move",
             "execute", "append", "create"}

\* Who makes cells, and the cells the file may hold at first.
Names == Calls \cup {Human, None} \cup
         UNION {{cell.meta : cell \in ToSet(b)} : b \in Books \ {None}}

Dealt == (Calls \cup {Human}) \X (0..2) \X Nat

Ids == Dealt \cup {None}

Cell == [meta : Names \ {None}, id : Ids, src : SUBSET Names,
         out : Calls \cup {None}, stored : BOOLEAN]

ASSUME NotebookAssumption ==
    /\ Tools \subseteq AllTools
    /\ MaxSaves \in Nat
    /\ Human \notin Calls
    /\ None \notin Calls \cup {Human} /\ None \notin Dealt /\ None \notin Seq(Cell)

\* No call has run, or given a cell an id, before the first one, and the file
\* is as the Contents API has stored it.
ASSUME BooksAssumption ==
    \A b \in Books \ {None} :
        /\ b \in Seq(Cell)
        /\ \A i \in DOMAIN b : /\ b[i].out = None /\ b[i].stored
                               /\ b[i].id # None => b[i].id[1] = Human

VARIABLES
    file,    \* the cells of the notebook on disk, or None when there is no file
    phase,   \* where each call is
    request, \* its arguments
    nb,      \* its own copy of the notebook, which its next PUT carries
    view,    \* the notebook (so the ids and the rev) a read tool answered with
    ran,     \* the meta of the cell whose source an execution sent to the kernel
    current, \* the calls since whose last step nobody wrote: a history variable
    saves    \* how many times the person saved

vars == <<file, phase, request, nb, view, ran, current, saves>>

-----------------------------------------------------------------------------
(* Cells and notebooks *)

\* A cell the server has just changed, in the form it has in the server.
Changed(cell) == [cell EXCEPT !.stored = cell.meta \notin Rewritten]

\* What the Contents API makes of a notebook it saves.
Normal(book) == [i \in DOMAIN book |-> [book[i] EXCEPT !.stored = TRUE]]

NewCell(who, out) ==
    Changed([meta |-> who, id |-> <<who, 0, 1>>, src |-> {who}, out |-> out,
             stored |-> FALSE])

\* The cell with another source.
Resourced(cell, src) == Changed([cell EXCEPT !.src = src])

\* Every cell without an id, or with that of an earlier cell, gets a fresh one.
EnsureIds(c, nth, book) ==
    [i \in DOMAIN book |->
        IF book[i].id = None \/ \E j \in 1..(i - 1) : book[j].id = book[i].id
        THEN Changed([book[i] EXCEPT !.id = <<c, nth, i>>])
        ELSE book[i]]

Matches(book, id) == {i \in DOMAIN book : book[i].id = id}

\* The position a request addresses, 0 when it addresses no cell.
ResolveTarget(book, r) ==
    IF r.id # None
    THEN IF \E i \in DOMAIN book : Matches(book, r.id) = {i}
         THEN CHOOSE i \in DOMAIN book : Matches(book, r.id) = {i}
         ELSE 0
    ELSE IF r.index \in DOMAIN book THEN r.index ELSE 0

Clamp(i, low, high) == IF i < low THEN low ELSE IF i > high THEN high ELSE i

\* A wrong _check_rev: only the number of cells is compared.
RevMatchesLength(book, r) == r.rev # None => Len(book) = Len(r.rev)

RevMatches(book, r) == r.rev # None => book = r.rev

Editing == {"insert", "patch", "edit", "delete", "move"}

Accepted(book, r) ==
    /\ RevMatches(book, r)
    /\ r.tool # "insert" => ResolveTarget(book, r) # 0
    /\ r.tool = "patch" => r.old \in book[ResolveTarget(book, r)].src

\* The notebook an editing tool writes back.
Edited(c, book, r) ==
    LET i == ResolveTarget(book, r) IN
    CASE r.tool = "insert" ->
            InsertAt(book, Clamp(r.to, 1, Len(book) + 1), NewCell(c, None))
      [] r.tool = "patch" ->
            [book EXCEPT ![i] = Resourced(@, (@.src \ {r.old}) \cup {c})]
      [] r.tool = "edit" -> [book EXCEPT ![i] = Resourced(@, {c})]
      [] r.tool = "delete" -> RemoveAt(book, i)
      [] r.tool = "move" ->
            InsertAt(RemoveAt(book, i), Clamp(r.to, 1, Len(book)), book[i])

\* A wrong execute_cell: the outputs go to the position it found before it ran.
WithOutputsByPosition(c, book, r) ==
    [i \in DOMAIN book |->
        IF i = r.index THEN Changed([book[i] EXCEPT !.out = c]) ELSE book[i]]

\* The notebook execute_cell writes back: the outputs go to the cell it ran,
\* found again by id.
WithOutputs(c, book, r) ==
    [i \in DOMAIN book |->
        IF book[i].id = r.id /\ \A j \in 1..(i - 1) : book[j].id # r.id
        THEN Changed([book[i] EXCEPT !.out = c])
        ELSE book[i]]

-----------------------------------------------------------------------------
(* Requests *)

ReadNow == {c \in Calls : view[c] # None}

\* Callers address cells by the ids, and guard edits by the revs, that a read
\* tool gave them.
KnownIds == {cell.id : cell \in UNION {ToSet(view[c]) : c \in ReadNow}}

KnownRevs == {view[c] : c \in ReadNow}

Plain(tool) ==
    [tool |-> tool, index |-> 0, id |-> None, to |-> 1,
     old |-> None, rev |-> None]

Targets == {<<i, None>> : i \in 1..2} \cup {<<0, id>> : id \in KnownIds}

At(tool, t, rev) == [Plain(tool) EXCEPT !.index = t[1], !.id = t[2], !.rev = rev]

\* What the callers may ask for: insertions go to the front and moves past the
\* end (append and create take no argument of interest).
Requests ==
    LET revs == KnownRevs \cup {None} IN
    {Plain("read")}
    \cup {[Plain("insert") EXCEPT !.rev = rev] : rev \in revs}
    \cup {[At("patch", t, rev) EXCEPT !.old = f] :
             t \in Targets, rev \in revs, f \in Fragments}
    \cup {At(tool, t, rev) : tool \in {"edit", "delete"}, t \in Targets, rev \in revs}
    \cup {[At("move", t, rev) EXCEPT !.to = 9] : t \in Targets, rev \in revs}
    \cup {At("execute", t, None) : t \in Targets}

-----------------------------------------------------------------------------
(* Reading *)

Put(book) ==
    /\ file' = Normal(book)
    /\ current' = {}

\* What a call does with the notebook it has loaded, up to its next await.
\* A read tool answers with it.
Answer(c, r, book) ==
    /\ r.tool = "read"
    /\ phase' = [phase EXCEPT ![c] = "done"]
    /\ view' = [view EXCEPT ![c] = book]
    /\ UNCHANGED <<request, nb, ran>>

\* An editing tool refuses, or makes its edit, to be written next.
Refuse(c, r, book) ==
    /\ r.tool \in Editing
    /\ ~ Accepted(book, r)
    /\ phase' = [phase EXCEPT ![c] = "refused"]
    /\ request' = [request EXCEPT ![c] = r]
    /\ UNCHANGED <<nb, view, ran>>

Edit(c, r, book) ==
    /\ r.tool \in Editing
    /\ Accepted(book, r)
    /\ phase' = [phase EXCEPT ![c] = "writing"]
    /\ request' = [request EXCEPT ![c] = r]
    /\ nb' = [nb EXCEPT ![c] = Edited(c, book, r)]
    /\ UNCHANGED <<view, ran>>

\* execute_cell sends the source of the cell to the kernel and remembers its id.
RunCell(c, r, book) ==
    LET i == ResolveTarget(book, r) IN
    /\ r.tool = "execute"
    /\ ran[c] = None
    /\ IF i = 0
       THEN /\ phase' = [phase EXCEPT ![c] = "refused"]
            /\ UNCHANGED <<request, nb, ran>>
       ELSE /\ phase' = [phase EXCEPT ![c] = "running"]
            /\ request' = [request EXCEPT ![c] =
                              [r EXCEPT !.index = i, !.id = book[i].id]]
            /\ nb' = [nb EXCEPT ![c] = book]
            /\ ran' = [ran EXCEPT ![c] = book[i].meta]
    /\ UNCHANGED view

\* The kernel has answered and the notebook has been read again.
SaveOutputs(c, r, book) ==
    /\ r.tool = "execute"
    /\ ran[c] # None
    /\ IF Matches(book, r.id) = {}
       THEN /\ phase' = [phase EXCEPT ![c] = "done"]
            /\ UNCHANGED nb
       ELSE /\ phase' = [phase EXCEPT ![c] = "writing"]
            /\ nb' = [nb EXCEPT ![c] = WithOutputs(c, book, r)]
    /\ UNCHANGED <<request, view, ran>>

Proceed(c, r, book) ==
    \/ Answer(c, r, book)
    \/ Refuse(c, r, book)
    \/ Edit(c, r, book)
    \/ RunCell(c, r, book)
    \/ SaveOutputs(c, r, book)

\* A wrong _load_nb: the ids it deals are not written back.
LoadUnsaved(c, r, nth) ==
    /\ file # None
    /\ Proceed(c, r, EnsureIds(c, nth, file))
    /\ current' = current \cup {c}
    /\ UNCHANGED <<file, saves>>

\* _load_nb: the GET; a notebook with cells that have no id of their own is
\* written back with ids before anything is done with it.
Load(c, r, nth) ==
    LET book == EnsureIds(c, nth, file) IN
    /\ file # None
    /\ IF book = file
       THEN Proceed(c, r, book)
       ELSE /\ phase' = [phase EXCEPT ![c] = "assigning"]
            /\ request' = [request EXCEPT ![c] = r]
            /\ nb' = [nb EXCEPT ![c] = book]
            /\ UNCHANGED <<view, ran>>
    /\ current' = current \cup {c}
    /\ UNCHANGED <<file, saves>>

Start(c) ==
    /\ phase[c] = "idle"
    /\ \E r \in Requests :
        /\ r.tool \in Tools
        /\ Load(c, r, 1)

\* The call goes on with its own copy, which it does not read again.
PersistIds(c) ==
    /\ phase[c] = "assigning"
    /\ file' = Normal(nb[c])
    /\ current' = {c}
    /\ Proceed(c, request[c], nb[c])
    /\ UNCHANGED saves

\* A wrong Reread: the notebook loaded before the cell ran is written back.
RereadSkipped(c) ==
    /\ phase[c] = "running"
    /\ SaveOutputs(c, request[c], nb[c])
    /\ current' = current \cup {c}
    /\ UNCHANGED <<file, saves>>

\* The kernel's reply reaches execute_cell, which loads the notebook again.
Reread(c) ==
    /\ phase[c] = "running"
    /\ request[c].tool = "execute"
    /\ Load(c, request[c], 2)

-----------------------------------------------------------------------------
(* Writing *)

Write(c) ==
    /\ phase[c] = "writing"
    /\ Put(nb[c])
    /\ phase' = [phase EXCEPT ![c] = "done"]
    /\ UNCHANGED <<request, nb, view, ran, saves>>

\* execute_code: the kernel has run some code, and _append_cell reads the
\* notebook, without dealing ids, to add the cell at its end.
AppendCell(c) ==
    /\ phase[c] = "idle"
    /\ "append" \in Tools
    /\ request' = [request EXCEPT ![c] = Plain("append")]
    /\ ran' = [ran EXCEPT ![c] = c]
    /\ IF file = None
       THEN /\ phase' = [phase EXCEPT ![c] = "done"]
            /\ UNCHANGED nb
       ELSE /\ phase' = [phase EXCEPT ![c] = "writing"]
            /\ nb' = [nb EXCEPT ![c] = Append(file, NewCell(c, c))]
    /\ current' = current \cup {c}
    /\ UNCHANGED <<file, view, saves>>

\* create_notebook writes its cells over whatever the file holds.
CreateNotebook(c) ==
    /\ phase[c] = "idle"
    /\ "create" \in Tools
    /\ request' = [request EXCEPT ![c] = Plain("create")]
    /\ Put(<<NewCell(c, None)>>)
    /\ phase' = [phase EXCEPT ![c] = "done"]
    /\ UNCHANGED <<nb, view, ran, saves>>

\* The person saves from JupyterLab: a cell's source rewritten, a cell without
\* an id added, or a cell deleted.
HumanSaves ==
    /\ saves < MaxSaves
    /\ file # None
    /\ saves' = saves + 1
    /\ \/ \E i \in DOMAIN file : Put([file EXCEPT ![i] = Resourced(@, {Human})])
       \/ \E i \in DOMAIN file : Put(RemoveAt(file, i))
       \/ Put(Append(file, [NewCell(Human, None) EXCEPT !.id = None]))
    /\ UNCHANGED <<phase, request, nb, view, ran>>

Init ==
    /\ file \in Books
    /\ phase = [c \in Calls |-> "idle"]
    /\ request = [c \in Calls |-> Plain("read")]
    /\ nb = [c \in Calls |-> <<>>]
    /\ view = [c \in Calls |-> None]
    /\ ran = [c \in Calls |-> None]
    /\ current = {}
    /\ saves = 0

Next ==
    \/ \E c \in Calls : Start(c)
    \/ \E c \in Calls : PersistIds(c)
    \/ \E c \in Calls : Reread(c)
    \/ \E c \in Calls : Write(c)
    \/ \E c \in Calls : AppendCell(c)
    \/ \E c \in Calls : CreateNotebook(c)
    \/ HumanSaves

Spec == Init /\ [][Next]_vars

-----------------------------------------------------------------------------
(* Properties *)

Request == [tool : AllTools, index : Nat, id : Ids, to : Nat,
            old : Fragments \cup {None}, rev : Seq(Cell) \cup {None}]

\* Every notebook, on disk, in a call's hands or answered, is a sequence of
\* cells; the rest is in its range.
TypeOK ==
    /\ file \in Seq(Cell) \cup {None}
    /\ nb \in [Calls -> Seq(Cell)] /\ view \in [Calls -> Seq(Cell) \cup {None}]
    /\ phase \in [Calls -> {"idle", "assigning", "running", "writing", "done", "refused"}]
    /\ request \in [Calls -> Request]
    /\ ran \in [Calls -> Names]
    /\ current \subseteq Calls
    /\ saves \in 0..MaxSaves

\* The outputs of an execution are only ever in the cell whose source was sent
\* to the kernel, wherever that cell has been moved, whatever was inserted,
\* deleted or given a new id meanwhile (notebook.py:307).
OutputsLandInTheirCell ==
    \A b \in {file} \cup {nb[c] : c \in Calls} :
        b # None => \A i \in DOMAIN b : b[i].out # None => ran[b[i].out] = b[i].meta

\* The ids c deals.
Own(c) == {c} \X (0..2) \X Nat

\* Until somebody writes, the notebook a read tool answered with is the one on
\* disk but for the form it is stored in, ids included, as they are saved before
\* the answer (notebook.py:104-112, 127); and its rev is the file's own if the
\* call dealt no id.  Every notebook stays a sequence of cells.
IssuedRevDescribesFile ==
    /\ TypeOK
    /\ \A c \in current : view[c] # None =>
           /\ Normal(view[c]) = file
           /\ (\A i \in DOMAIN view[c] : view[c][i].id \notin Own(c)) => view[c] = file

\* The same of the rev whatever the call did: "a content hash - pass it as
\* `expected_rev` to an editing tool" (notebook.py:123-124).
IssuedRevIsTheFiles == \A c \in current : view[c] # None => view[c] = file

\* The id a read tool gave for a cell stays the id of that cell (notebook.py:105:
\* "assign+persist stable cell ids").
HandedOutIdsStay ==
    \A c \in ReadNow : \A i \in DOMAIN view[c] : \A j \in DOMAIN file :
        view[c][i].meta = file[j].meta => view[c][i].id = file[j].id

Writes(c) == phase[c] = "writing" /\ phase'[c] = "done"

\* Nobody wrote between the call's GET and its PUT, which now lands.
WritesUnraced(c) == Writes(c) /\ c \in current

Guarded(c) == request[c].rev # None

\* A call that was given expected_rev overwrites that revision, in the form it is
\* stored in, and no other, unless somebody wrote between its GET and its PUT
\* (notebook.py:5-6).
GuardedWriteOverwritesItsRev ==
    [][\A c \in Calls :
        WritesUnraced(c) /\ Guarded(c) => file = Normal(request[c].rev)]_vars

\* The same without the exception: a "concurrent Lab edit is never clobbered"
\* (README.md:111).
GuardedWriteNeverClobbers ==
    [][\A c \in Calls : Writes(c) /\ Guarded(c) => file = Normal(request[c].rev)]_vars

Outputs(book) == {<<cell.meta, cell.out>> : cell \in ToSet(book)}

ResourcesACell(c) == request[c].tool \in {"patch", "edit"}

Sources(book) == [i \in DOMAIN book |-> <<book[i].meta, book[i].src>>]

\* A write that nobody raced keeps what it is not about: patch_cell and edit_cell
\* the outputs of every cell (notebook.py:211, 233), execute_cell the cells and
\* their sources, edits made while its cell ran included (notebook.py:307).
WriteKeepsTheRest ==
    [][\A c \in Calls : WritesUnraced(c) =>
        /\ ResourcesACell(c) => Outputs(file') = Outputs(file)
        /\ request[c].tool = "execute" => Sources(file') = Sources(file)]_vars

\* The same without the exception: "Does not touch outputs" (notebook.py:211).
EditNeverTouchesOutputs ==
    [][\A c \in Calls :
        Writes(c) /\ ResourcesACell(c) => Outputs(file') = Outputs(file)]_vars
=============================================================================
