--------------------------- MODULE NotebookEditProofs ---------------------------
(***************************************************************************)
(* What the notebook tools keep, for any calls, tools, notebooks and saves *)
(* by the person at JupyterLab.                                            *)
(*                                                                         *)
(* Types and NotebookInv hold for every notebook: a call that nobody has   *)
(* overtaken works on the notebook on disk, but for the form the Contents  *)
(* API has stored it in.  That outputs land in their cell needs more: what *)
(* an id stands for.  An id that is in a notebook somewhere, or in the     *)
(* hands of an execution, stands for one cell (OneMeta), because every     *)
(* call deals each of its ids once and from one notebook (FreshInv).       *)
(***************************************************************************)
EXTENDS NotebookEdit, SequenceTheorems, TLAPS

\* The cells c has changed in the book are those it has dealt an id.
Dealing(c, book) == \A i \in DOMAIN book : book[i].stored \/ book[i].id \in Own(c)

\* How a call's phase fits what it has done and knows.
Phases ==
    \A c \in Calls :
        /\ phase[c] = "idle" => ran[c] = None
        /\ view[c] # None => phase[c] = "done"
        /\ request[c].rev # None => request[c].tool \in Editing
        /\ phase[c] = "assigning" => Dealing(c, nb[c])

\* What a call holds that nobody has overtaken.  The notebook it worked on is the
\* file's but for the form the Contents API has given it.
Unraced(c) ==
    /\ view[c] # None => Normal(view[c]) = file /\ Dealing(c, view[c])
    /\ phase[c] = "writing" => file # None
    /\ phase[c] = "writing" /\ request[c].tool \in Editing
         => \E book \in Seq(Cell) : /\ Normal(book) = file /\ Accepted(book, request[c])
                                   /\ nb[c] = Edited(c, book, request[c])
    /\ phase[c] = "writing" /\ request[c].tool = "execute"
         => \E book \in Seq(Cell) : Normal(book) = file /\ nb[c] = WithOutputs(c, book, request[c])

CurrentInv == \A c \in current : Unraced(c)

\* The file is in the form the Contents API stores it in.
StoredInv == file # None => Normal(file) = file

NotebookInv == TypeOK /\ Phases /\ CurrentInv /\ StoredInv

-----------------------------------------------------------------------------
(* Sequences.                                                              *)

LEMMA MappedSeq ==
    ASSUME NEW S, NEW T, NEW s \in Seq(S), NEW f, f \in [DOMAIN s -> T]
    PROVE  f \in Seq(T) /\ Len(f) = Len(s) /\ DOMAIN f = DOMAIN s
<1>1. DOMAIN s = 1..Len(s) /\ Len(s) \in Nat
    BY LenProperties
<1> QED
    BY <1>1

LEMMA RemoveFacts ==
    ASSUME NEW S, NEW s \in Seq(S), NEW i \in 1..Len(s)
    PROVE  /\ RemoveAt(s, i) \in Seq(S) /\ Len(RemoveAt(s, i)) = Len(s) - 1
           /\ \A k \in 1..(Len(s) - 1) : RemoveAt(s, i)[k] = s[k] \/ RemoveAt(s, i)[k] = s[k + 1]
<1> DEFINE h == SubSeq(s, 1, i - 1)
           t == SubSeq(s, i + 1, Len(s))
<1>0. Len(s) \in Nat /\ \A k \in 1..Len(s) : s[k] \in S
    BY LenProperties, ElementOfSeq
<1>1. h \in Seq(S) /\ Len(h) = i - 1 /\ \A k \in 1..(i - 1) : h[k] = s[k]
    BY <1>0, SubSeqProperties
<1>2. t \in Seq(S) /\ Len(t) = Len(s) - i /\ \A k \in 1..(Len(s) - i) : t[k] = s[i + k]
    BY <1>0, SubSeqProperties
<1> HIDE DEF h, t
<1>3. /\ h \o t \in Seq(S) /\ Len(h \o t) = Len(s) - 1
      /\ \A k \in 1..(Len(s) - 1) : (h \o t)[k] = IF k <= i - 1 THEN h[k] ELSE t[k - (i - 1)]
    BY <1>0, <1>1, <1>2, ConcatProperties
<1>4. ASSUME NEW k \in 1..(Len(s) - 1) PROVE (h \o t)[k] = s[k] \/ (h \o t)[k] = s[k + 1]
    <2>1. CASE k <= i - 1
        BY <1>0, <1>1, <1>3, <2>1
    <2>2. CASE ~ (k <= i - 1)
        <3>1. k - (i - 1) \in 1..(Len(s) - i) /\ i + (k - (i - 1)) = k + 1
            BY <1>0, <2>2
        <3>2. t[k - (i - 1)] = s[k + 1]
            BY <1>2, <3>1
        <3> QED
            BY <1>3, <2>2, <3>2
    <2> QED
        BY <2>1, <2>2
<1>5. RemoveAt(s, i) = h \o t
    BY DEF RemoveAt, h, t
<1> QED
    BY <1>3, <1>4, <1>5

LEMMA InsertFacts ==
    ASSUME NEW S, NEW s \in Seq(S), NEW i \in 1..(Len(s) + 1), NEW e \in S
    PROVE  /\ InsertAt(s, i, e) \in Seq(S) /\ Len(InsertAt(s, i, e)) = Len(s) + 1
           /\ \A k \in 1..(Len(s) + 1) :
                 \/ k = i /\ InsertAt(s, i, e)[k] = e
                 \/ k < i /\ k \in 1..Len(s) /\ InsertAt(s, i, e)[k] = s[k]
                 \/ k > i /\ k - 1 \in 1..Len(s) /\ InsertAt(s, i, e)[k] = s[k - 1]
<1> DEFINE h == SubSeq(s, 1, i - 1)
           m == <<e>>
           t == SubSeq(s, i, Len(s))
<1>0. Len(s) \in Nat /\ \A k \in 1..Len(s) : s[k] \in S
    BY LenProperties, ElementOfSeq
<1>1. h \in Seq(S) /\ Len(h) = i - 1 /\ \A k \in 1..(i - 1) : h[k] = s[k]
    BY <1>0, SubSeqProperties
<1>2. t \in Seq(S) /\ Len(t) = Len(s) - i + 1 /\ \A k \in 1..(Len(s) - i + 1) : t[k] = s[i + k - 1]
    BY <1>0, SubSeqProperties
<1>3. m \in Seq(S) /\ Len(m) = 1 /\ m[1] = e
    OBVIOUS
<1> HIDE DEF h, m, t
<1>4. /\ h \o m \in Seq(S) /\ Len(h \o m) = i
      /\ \A k \in 1..i : (h \o m)[k] = IF k <= i - 1 THEN h[k] ELSE m[k - (i - 1)]
    <2>1. /\ h \o m \in Seq(S) /\ Len(h \o m) = Len(h) + Len(m)
          /\ \A k \in 1..(Len(h) + Len(m)) : (h \o m)[k] = IF k <= Len(h) THEN h[k] ELSE m[k - Len(h)]
        BY <1>1, <1>3, ConcatProperties, Zenon
    <2>2. Len(h) + Len(m) = i /\ Len(h) = i - 1
        BY <1>0, <1>1, <1>3
    <2> QED
        BY <2>1, <2>2, Zenon
<1> DEFINE u == h \o m
<1>5. /\ u \in Seq(S) /\ Len(u) = i /\ u[i] = e
      /\ \A k \in 1..(i - 1) : u[k] = s[k]
    <2>1. i \in 1..i /\ ~ (i <= i - 1) /\ i - (i - 1) = 1 /\ 1..(i - 1) \subseteq 1..i
        BY <1>0
    <2>2. u[i] = m[1]
        BY <1>4, <2>1
    <2>3. ASSUME NEW k \in 1..(i - 1) PROVE u[k] = s[k]
        <3>1. k \in 1..i /\ k <= i - 1
            BY <1>0
        <3> QED
            BY <1>1, <1>4, <3>1
    <2> QED
        BY <1>3, <1>4, <2>2, <2>3
<1> HIDE DEF u
<1>6. /\ u \o t \in Seq(S) /\ Len(u \o t) = Len(s) + 1
      /\ \A k \in 1..(Len(s) + 1) : (u \o t)[k] = IF k <= i THEN u[k] ELSE t[k - i]
    <2>1. /\ u \o t \in Seq(S) /\ Len(u \o t) = Len(u) + Len(t)
          /\ \A k \in 1..(Len(u) + Len(t)) : (u \o t)[k] = IF k <= Len(u) THEN u[k] ELSE t[k - Len(u)]
        BY <1>2, <1>5, ConcatProperties, Zenon
    <2>2. Len(u) + Len(t) = Len(s) + 1 /\ Len(u) = i
        BY <1>0, <1>2, <1>5
    <2> QED
        BY <2>1, <2>2, Zenon
<1>7. ASSUME NEW k \in 1..(Len(s) + 1)
      PROVE  \/ k = i /\ (u \o t)[k] = e
             \/ k < i /\ k \in 1..Len(s) /\ (u \o t)[k] = s[k]
             \/ k > i /\ k - 1 \in 1..Len(s) /\ (u \o t)[k] = s[k - 1]
    <2>1. CASE k <= i
        BY <1>0, <1>5, <1>6, <2>1
    <2>2. CASE ~ (k <= i)
        <3>1. k - i \in 1..(Len(s) - i + 1) /\ i + (k - i) - 1 = k - 1
            BY <1>0, <2>2
        <3>2. t[k - i] = s[k - 1]
            BY <1>2, <3>1
        <3>3. k > i /\ k - 1 \in 1..Len(s)
            BY <1>0, <2>2
        <3>4. (u \o t)[k] = t[k - i]
            BY <1>6, <2>2, Zenon
        <3> QED
            BY <3>2, <3>3, <3>4
    <2> QED
        BY <2>1, <2>2
<1>8. InsertAt(s, i, e) = u \o t
    BY DEF InsertAt, u, h, m, t
<1> QED
    BY <1>6, <1>7, <1>8
-----------------------------------------------------------------------------
(* Cells and notebooks.                                                    *)

\* Two cells are the same but for the source, or but for the outputs.
SameBut(cell, other) == cell.meta = other.meta /\ cell.id = other.id

LEMMA NamesFacts == Calls \subseteq Names /\ Human \in Names /\ None \in Names /\ None \notin Calls
    BY NotebookAssumption DEF Names

LEMMA ChangedFacts ==
    ASSUME NEW cell \in Cell
    PROVE  /\ Changed(cell) \in Cell
           /\ Changed(cell).meta = cell.meta /\ Changed(cell).id = cell.id
           /\ Changed(cell).src = cell.src /\ Changed(cell).out = cell.out
    BY DEF Changed, Cell

\* A notebook in its stored form is saved as it is.
LEMMA StoredBook ==
    ASSUME NEW book \in Seq(Cell), \A i \in DOMAIN book : book[i].stored
    PROVE  Normal(book) = book
<1> DEFINE u == [i \in DOMAIN book |-> [book[i] EXCEPT !.stored = TRUE]]
<1>1. \A i \in DOMAIN book : book[i] \in Cell
    BY LenProperties, ElementOfSeq
<1>2. ASSUME NEW cell \in Cell, cell.stored PROVE [cell EXCEPT !.stored = TRUE] = cell
    BY <1>2 DEF Cell
<1>3. \A i \in DOMAIN book : [book[i] EXCEPT !.stored = TRUE] = book[i]
    BY <1>1, <1>2
<1>4. u = [i \in DOMAIN book |-> book[i]]
    BY <1>3
<1>5. book = [i \in DOMAIN book |-> book[i]]
    OBVIOUS
<1> QED
    BY <1>4, <1>5 DEF Normal

\* Saving a notebook changes the form of its cells only.
LEMMA NormalFacts ==
    ASSUME NEW book \in Seq(Cell)
    PROVE  /\ Normal(book) \in Seq(Cell) /\ DOMAIN Normal(book) = DOMAIN book
           /\ Normal(Normal(book)) = Normal(book)
           /\ \A i \in DOMAIN book :
                 /\ SameBut(Normal(book)[i], book[i]) /\ Normal(book)[i].src = book[i].src
                 /\ Normal(book)[i].out = book[i].out /\ Normal(book)[i].stored
           /\ (\A i \in DOMAIN book : book[i].stored) => Normal(book) = book
           /\ Normal(book) = book => \A i \in DOMAIN book : book[i].stored
<1>0. \A i \in DOMAIN book : book[i] \in Cell
    BY LenProperties, ElementOfSeq
<1> DEFINE u == Normal(book)
<1>1. DOMAIN u = DOMAIN book /\ \A i \in DOMAIN book : u[i] = [book[i] EXCEPT !.stored = TRUE]
    BY DEF Normal
<1>2. ASSUME NEW cell \in Cell
      PROVE  /\ [cell EXCEPT !.stored = TRUE] \in Cell /\ SameBut([cell EXCEPT !.stored = TRUE], cell)
             /\ [cell EXCEPT !.stored = TRUE].src = cell.src /\ [cell EXCEPT !.stored = TRUE].out = cell.out
             /\ [cell EXCEPT !.stored = TRUE].stored = TRUE
             /\ cell.stored => [cell EXCEPT !.stored = TRUE] = cell
    BY DEF Cell, SameBut
<1>3. ASSUME NEW i \in DOMAIN book
      PROVE  /\ u[i] \in Cell /\ SameBut(u[i], book[i]) /\ u[i].src = book[i].src
             /\ u[i].out = book[i].out /\ u[i].stored = TRUE
             /\ book[i].stored => u[i] = book[i]
    <2>1. book[i] \in Cell /\ u[i] = [book[i] EXCEPT !.stored = TRUE]
        BY <1>0, <1>1, <1>3
    <2> HIDE DEF u
    <2> QED
        BY <1>2, <2>1
<1>4. u \in [DOMAIN book -> Cell]
    BY <1>1, <1>3 DEF Normal
<1>5. u \in Seq(Cell)
    BY <1>4, MappedSeq
<1>6. (\A i \in DOMAIN book : book[i].stored) => u = book
    BY StoredBook
<1>7. Normal(u) = u
    <2> HIDE DEF u
    <2> QED
        BY <1>1, <1>3, <1>5, StoredBook
<1>8. u = book => \A i \in DOMAIN book : book[i].stored
    BY <1>3
<1> HIDE DEF u
<1>9. /\ u \in Seq(Cell) /\ DOMAIN u = DOMAIN book /\ Normal(u) = u
      /\ \A i \in DOMAIN book : /\ SameBut(u[i], book[i]) /\ u[i].src = book[i].src
                                /\ u[i].out = book[i].out /\ u[i].stored
      /\ (\A i \in DOMAIN book : book[i].stored) => u = book
      /\ u = book => \A i \in DOMAIN book : book[i].stored
    BY <1>1, <1>3, <1>5, <1>6, <1>7, <1>8
<1> QED
    BY <1>9 DEF u

LEMMA NewCellFacts ==
    ASSUME NEW c \in Calls \cup {Human}, NEW out \in Calls \cup {None}
    PROVE  /\ NewCell(c, out) \in Cell
           /\ NewCell(c, out).meta = c /\ NewCell(c, out).id = <<c, 0, 1>> /\ NewCell(c, out).out = out
<1>1. <<c, 0, 1>> \in Ids
    BY DEF Ids, Dealt
<1>2. c \in Names \ {None} /\ {c} \in SUBSET Names
    BY NamesFacts, NotebookAssumption
<1> DEFINE cell == [meta |-> c, id |-> <<c, 0, 1>>, src |-> {c}, out |-> out, stored |-> FALSE]
<1>3. cell \in Cell /\ cell.meta = c /\ cell.id = <<c, 0, 1>> /\ cell.out = out
    BY <1>1, <1>2 DEF Cell
<1>4. NewCell(c, out) = Changed(cell)
    BY DEF NewCell
<1> HIDE DEF cell
<1> QED
    BY <1>3, <1>4, ChangedFacts

LEMMA ChangedCell ==
    ASSUME NEW cell \in Cell
    PROVE  /\ \A src \in SUBSET Names : /\ Resourced(cell, src) \in Cell /\ SameBut(Resourced(cell, src), cell)
                                        /\ Resourced(cell, src).out = cell.out
           /\ \A id \in Ids : LET u == Changed([cell EXCEPT !.id = id]) IN
                              u \in Cell /\ u.id = id /\ u.meta = cell.meta /\ u.out = cell.out
           /\ \A c \in Calls : LET u == Changed([cell EXCEPT !.out = c]) IN
                               u \in Cell /\ u.out = c /\ SameBut(u, cell) /\ u.src = cell.src
<1>1. ASSUME NEW src \in SUBSET Names
      PROVE  /\ Resourced(cell, src) \in Cell /\ SameBut(Resourced(cell, src), cell)
             /\ Resourced(cell, src).out = cell.out
    <2> DEFINE v == [cell EXCEPT !.src = src]
    <2>1. v \in Cell /\ v.meta = cell.meta /\ v.id = cell.id /\ v.out = cell.out
        BY DEF Cell
    <2>2. Resourced(cell, src) = Changed(v)
        BY DEF Resourced
    <2> HIDE DEF v
    <2> QED
        BY <2>1, <2>2, ChangedFacts DEF SameBut
<1>2. ASSUME NEW id \in Ids
      PROVE  LET u == Changed([cell EXCEPT !.id = id]) IN
             u \in Cell /\ u.id = id /\ u.meta = cell.meta /\ u.out = cell.out
    <2> DEFINE v == [cell EXCEPT !.id = id]
    <2>1. v \in Cell /\ v.meta = cell.meta /\ v.id = id /\ v.out = cell.out
        BY DEF Cell
    <2> HIDE DEF v
    <2>2. Changed(v) \in Cell /\ Changed(v).id = id /\ Changed(v).meta = cell.meta /\ Changed(v).out = cell.out
        BY <2>1, ChangedFacts
    <2> QED
        BY <2>2 DEF v
<1>3. ASSUME NEW c \in Calls
      PROVE  LET u == Changed([cell EXCEPT !.out = c]) IN
             u \in Cell /\ u.out = c /\ SameBut(u, cell) /\ u.src = cell.src
    <2> DEFINE v == [cell EXCEPT !.out = c]
    <2>1. v \in Cell /\ v.meta = cell.meta /\ v.id = cell.id /\ v.out = c /\ v.src = cell.src
        BY DEF Cell
    <2> HIDE DEF v
    <2>2. Changed(v) \in Cell /\ Changed(v).out = c /\ SameBut(Changed(v), cell) /\ Changed(v).src = cell.src
        BY <2>1, ChangedFacts DEF SameBut
    <2> QED
        BY <2>2 DEF v
<1> QED
    BY <1>1, <1>2, <1>3

LEMMA EnsureFacts ==
    ASSUME NEW c \in Calls, NEW nth \in 0..2, NEW book \in Seq(Cell)
    PROVE  /\ EnsureIds(c, nth, book) \in Seq(Cell)
           /\ DOMAIN EnsureIds(c, nth, book) = DOMAIN book
           /\ \A i \in DOMAIN book :
                 /\ EnsureIds(c, nth, book)[i].meta = book[i].meta
                 /\ EnsureIds(c, nth, book)[i].out = book[i].out
                 /\ EnsureIds(c, nth, book)[i].id # None
                 /\ EnsureIds(c, nth, book)[i].id \in {book[i].id, <<c, nth, i>>}
                 /\ EnsureIds(c, nth, book)[i] = book[i] \/ EnsureIds(c, nth, book)[i].id \in Own(c)
<1> DEFINE u == EnsureIds(c, nth, book)
<1>0. DOMAIN book = 1..Len(book) /\ Len(book) \in Nat /\ \A i \in DOMAIN book : book[i] \in Cell
    BY LenProperties, ElementOfSeq
<1>1. DOMAIN u = DOMAIN book
    BY DEF EnsureIds
<1>2. ASSUME NEW i \in DOMAIN book
      PROVE  /\ u[i] \in Cell /\ u[i].meta = book[i].meta /\ u[i].out = book[i].out
             /\ u[i].id # None /\ u[i].id \in {book[i].id, <<c, nth, i>>}
             /\ u[i] = book[i] \/ u[i].id \in Own(c)
    <2>1. book[i] \in Cell /\ i \in Nat
        BY <1>0
    <2>2. <<c, nth, i>> \in Ids /\ <<c, nth, i>> # None /\ <<c, nth, i>> \in Own(c)
        BY <2>1, NotebookAssumption DEF Ids, Dealt, Own
    <2>3. \/ u[i] = Changed([book[i] EXCEPT !.id = <<c, nth, i>>])
          \/ u[i] = book[i] /\ book[i].id # None
        BY DEF EnsureIds
    <2>4. CASE u[i] = Changed([book[i] EXCEPT !.id = <<c, nth, i>>])
        BY <2>1, <2>2, <2>4, ChangedCell
    <2>5. CASE u[i] = book[i] /\ book[i].id # None
        BY <2>1, <2>5
    <2> QED
        BY <2>3, <2>4, <2>5
<1>3. u \in [DOMAIN book -> Cell]
    BY <1>1, <1>2 DEF EnsureIds
<1>4. u \in Seq(Cell)
    BY <1>3, MappedSeq
<1> HIDE DEF u
<1>5. /\ u \in Seq(Cell) /\ DOMAIN u = DOMAIN book
      /\ \A i \in DOMAIN book : /\ u[i].meta = book[i].meta /\ u[i].out = book[i].out
                                /\ u[i].id # None /\ u[i].id \in {book[i].id, <<c, nth, i>>}
                                /\ u[i] = book[i] \/ u[i].id \in Own(c)
    BY <1>1, <1>2, <1>4
<1> QED
    BY <1>5 DEF u

\* u is the book with outputs of c in cells of r's id at most.
Filled(c, u, book, r) ==
    /\ u \in Seq(Cell)
    /\ DOMAIN u = DOMAIN book
    /\ \A i \in DOMAIN book :
          /\ SameBut(u[i], book[i])
          /\ u[i].src = book[i].src
          /\ u[i].out = book[i].out \/ (u[i].out = c /\ book[i].id = r.id)

LEMMA WithOutputsFacts ==
    ASSUME NEW c \in Calls, NEW book \in Seq(Cell), NEW r
    PROVE  Filled(c, WithOutputs(c, book, r), book, r)
<1> DEFINE u == WithOutputs(c, book, r)
<1>0. \A i \in DOMAIN book : book[i] \in Cell
    BY LenProperties, ElementOfSeq
<1>1. DOMAIN u = DOMAIN book
    BY DEF WithOutputs
<1>2. ASSUME NEW i \in DOMAIN book
      PROVE  /\ u[i] \in Cell /\ SameBut(u[i], book[i]) /\ u[i].src = book[i].src
             /\ u[i].out = book[i].out \/ (u[i].out = c /\ book[i].id = r.id)
    <2>1. \/ u[i] = Changed([book[i] EXCEPT !.out = c]) /\ book[i].id = r.id
          \/ u[i] = book[i]
        BY DEF WithOutputs
    <2>2. CASE u[i] = Changed([book[i] EXCEPT !.out = c]) /\ book[i].id = r.id
        BY <1>0, <2>2, ChangedCell
    <2>3. CASE u[i] = book[i]
        BY <1>0, <2>3 DEF SameBut
    <2> QED
        BY <2>1, <2>2, <2>3
<1>3. u \in [DOMAIN book -> Cell]
    BY <1>1, <1>2 DEF WithOutputs
<1>4. u \in Seq(Cell)
    BY <1>3, MappedSeq
<1> HIDE DEF u
<1>5. /\ u \in Seq(Cell) /\ DOMAIN u = DOMAIN book
      /\ \A i \in DOMAIN book : /\ SameBut(u[i], book[i]) /\ u[i].src = book[i].src
                                /\ u[i].out = book[i].out \/ (u[i].out = c /\ book[i].id = r.id)
    BY <1>1, <1>2, <1>4
<1> QED
    BY <1>5 DEF u, Filled

LEMMA ResolvedFacts ==
    ASSUME NEW book \in Seq(Cell), NEW r, ResolveTarget(book, r) # 0
    PROVE  ResolveTarget(book, r) \in 1..Len(book)
<1>1. DOMAIN book = 1..Len(book)
    BY LenProperties
<1>2. CASE r.id # None
    <2>1. \E i \in DOMAIN book : Matches(book, r.id) = {i}
        BY <1>2 DEF ResolveTarget
    <2>2. ResolveTarget(book, r) = CHOOSE i \in DOMAIN book : Matches(book, r.id) = {i}
        BY <1>2, <2>1 DEF ResolveTarget
    <2> QED
        BY <1>1, <2>1, <2>2
<1>3. CASE r.id = None
    BY <1>1, <1>3 DEF ResolveTarget
<1> QED
    BY <1>2, <1>3

\* Every cell of the book an editing tool makes is one of the book it read, with
\* its id and its outputs, or the new cell.
Descends(c, u, book, r) ==
    /\ u \in Seq(Cell)
    /\ \A k \in DOMAIN u :
          \/ r.tool = "insert" /\ u[k] = NewCell(c, None)
          \/ \E j \in DOMAIN book : SameBut(u[k], book[j]) /\ u[k].out = book[j].out

LEMMA EditedFacts ==
    ASSUME NEW c \in Calls, NEW book \in Seq(Cell), NEW r \in Request, r.tool \in Editing, Accepted(book, r)
    PROVE  /\ Descends(c, Edited(c, book, r), book, r)
           /\ r.tool \in {"patch", "edit"} =>
                 /\ DOMAIN Edited(c, book, r) = DOMAIN book
                 /\ \A k \in DOMAIN book : SameBut(Edited(c, book, r)[k], book[k]) /\ Edited(c, book, r)[k].out = book[k].out
<1> DEFINE i == ResolveTarget(book, r)
<1>0. /\ DOMAIN book = 1..Len(book) /\ Len(book) \in Nat /\ \A k \in 1..Len(book) : book[k] \in Cell
      /\ r.to \in Nat
    BY LenProperties, ElementOfSeq DEF Request
<1>1. r.tool # "insert" => i \in 1..Len(book)
    BY ResolvedFacts DEF Accepted
<1> DEFINE new == NewCell(c, None)
<1>2. new \in Cell
    BY NewCellFacts
<1> HIDE DEF i, new
<1>3. CASE r.tool = "insert"
    <2> DEFINE p == Clamp(r.to, 1, Len(book) + 1)
    <2>1. p \in 1..(Len(book) + 1)
        BY <1>0 DEF Clamp
    <2> HIDE DEF p
    <2> DEFINE u == InsertAt(book, p, new)
    <2>2. /\ u \in Seq(Cell) /\ Len(u) = Len(book) + 1
          /\ \A k \in 1..(Len(book) + 1) :
                \/ u[k] = new
                \/ k \in 1..Len(book) /\ u[k] = book[k]
                \/ k - 1 \in 1..Len(book) /\ u[k] = book[k - 1]
        BY <1>2, <2>1, InsertFacts
    <2>3. Edited(c, book, r) = u
        BY <1>3 DEF Edited, p, new
    <2> HIDE DEF u
    <2>4. DOMAIN u = 1..(Len(book) + 1)
        BY <2>2, LenProperties
    <2>5. ASSUME NEW k \in DOMAIN u
          PROVE  u[k] = NewCell(c, None) \/ \E j \in DOMAIN book : SameBut(u[k], book[j]) /\ u[k].out = book[j].out
        BY <1>0, <2>2, <2>4 DEF SameBut, new
    <2> QED
        BY <1>3, <2>2, <2>3, <2>5 DEF Descends
<1>4. ASSUME NEW src \in SUBSET Names, r.tool \in {"patch", "edit"},
             Edited(c, book, r) = [book EXCEPT ![i] = Resourced(book[i], src)]
      PROVE  /\ Descends(c, Edited(c, book, r), book, r)
             /\ DOMAIN Edited(c, book, r) = DOMAIN book
             /\ \A k \in DOMAIN book : SameBut(Edited(c, book, r)[k], book[k]) /\ Edited(c, book, r)[k].out = book[k].out
    <2> DEFINE v == Resourced(book[i], src)
    <2>1. v \in Cell /\ SameBut(v, book[i]) /\ v.out = book[i].out /\ i \in 1..Len(book)
        BY <1>0, <1>1, <1>4, ChangedCell
    <2> HIDE DEF v
    <2> DEFINE u == [book EXCEPT ![i] = v]
    <2>2. u \in Seq(Cell) /\ Len(u) = Len(book) /\ \A k \in 1..Len(book) : u[k] = IF k = i THEN v ELSE book[k]
        BY <2>1, ExceptSeq
    <2>3. Edited(c, book, r) = u
        BY <1>4 DEF v
    <2> HIDE DEF u
    <2>4. DOMAIN u = DOMAIN book
        BY <1>0, <2>2, LenProperties
    <2>5. \A k \in DOMAIN book : SameBut(u[k], book[k]) /\ u[k].out = book[k].out
        BY <1>0, <2>1, <2>2 DEF SameBut
    <2>6. Descends(c, u, book, r)
        BY <2>2, <2>4, <2>5 DEF Descends
    <2> QED
        BY <2>3, <2>4, <2>5, <2>6
<1>5. CASE r.tool = "patch"
    <2>1. (book[i].src \ {r.old}) \cup {c} \in SUBSET Names
        BY <1>0, <1>1, <1>5, NamesFacts DEF Cell
    <2>2. Edited(c, book, r) = [book EXCEPT ![i] = Resourced(book[i], (book[i].src \ {r.old}) \cup {c})]
        BY <1>5 DEF Edited, i
    <2> QED
        BY <1>4, <1>5, <2>1, <2>2
<1>6. CASE r.tool = "edit"
    <2>1. {c} \in SUBSET Names
        BY NamesFacts
    <2>2. Edited(c, book, r) = [book EXCEPT ![i] = Resourced(book[i], {c})]
        BY <1>6 DEF Edited, i
    <2> QED
        BY <1>4, <1>6, <2>1, <2>2
<1> DEFINE w == RemoveAt(book, i)
<1>7. r.tool # "insert" =>
        /\ w \in Seq(Cell) /\ Len(w) = Len(book) - 1 /\ DOMAIN w = 1..(Len(book) - 1)
        /\ \A k \in DOMAIN w : \E j \in DOMAIN book : w[k] = book[j]
    <2> SUFFICES ASSUME r.tool # "insert"
                 PROVE  /\ w \in Seq(Cell) /\ Len(w) = Len(book) - 1 /\ DOMAIN w = 1..(Len(book) - 1)
                        /\ \A k \in DOMAIN w : \E j \in DOMAIN book : w[k] = book[j]
        OBVIOUS
    <2>1. /\ w \in Seq(Cell) /\ Len(w) = Len(book) - 1
          /\ \A k \in 1..(Len(book) - 1) : w[k] = book[k] \/ w[k] = book[k + 1]
        BY <1>1, RemoveFacts
    <2> HIDE DEF w
    <2>2. DOMAIN w = 1..(Len(book) - 1)
        BY <2>1, LenProperties
    <2>3. ASSUME NEW k \in 1..(Len(book) - 1) PROVE \E j \in DOMAIN book : w[k] = book[j]
        <3>1. k \in 1..Len(book) /\ k + 1 \in 1..Len(book)
            BY <1>0
        <3> QED
            BY <1>0, <2>1, <3>1
    <2> QED
        BY <2>1, <2>2, <2>3
<1>8. CASE r.tool = "delete"
    <2>1. Edited(c, book, r) = w
        BY <1>8 DEF Edited, i
    <2> HIDE DEF w
    <2> QED
        BY <1>7, <1>8, <2>1 DEF Descends, SameBut
<1>9. CASE r.tool = "move"
    <2> DEFINE p == Clamp(r.to, 1, Len(book))
    <2>1. p \in 1..(Len(w) + 1) /\ book[i] \in Cell
        BY <1>0, <1>1, <1>7, <1>9 DEF Clamp
    <2>2. Edited(c, book, r) = InsertAt(w, p, book[i])
        BY <1>9 DEF Edited, i
    <2> HIDE DEF w, p
    <2> DEFINE u == InsertAt(w, p, book[i])
    <2>3. /\ u \in Seq(Cell) /\ Len(u) = Len(w) + 1
          /\ \A k \in 1..(Len(w) + 1) :
                \/ u[k] = book[i]
                \/ k \in 1..Len(w) /\ u[k] = w[k]
                \/ k - 1 \in 1..Len(w) /\ u[k] = w[k - 1]
        <3>1. w \in Seq(Cell) /\ p \in 1..(Len(w) + 1) /\ book[i] \in Cell
            BY <1>7, <1>9, <2>1
        <3>2. /\ u \in Seq(Cell) /\ Len(u) = Len(w) + 1
              /\ \A k \in 1..(Len(w) + 1) :
                    \/ k = p /\ u[k] = book[i]
                    \/ k < p /\ k \in 1..Len(w) /\ u[k] = w[k]
                    \/ k > p /\ k - 1 \in 1..Len(w) /\ u[k] = w[k - 1]
            BY <3>1, InsertFacts, Zenon
        <3> HIDE DEF u
        <3> QED
            BY <3>2
    <2> HIDE DEF u
    <2>4. DOMAIN u = 1..(Len(w) + 1) /\ DOMAIN w = 1..Len(w)
        BY <1>7, <1>9, <2>3, LenProperties
    <2>5. ASSUME NEW k \in DOMAIN u
          PROVE  \E j \in DOMAIN book : u[k] = book[j]
        BY <1>0, <1>1, <1>7, <1>9, <2>3, <2>4
    <2> QED
        <3>1. Edited(c, book, r) = u
            BY <2>2 DEF u
        <3>2. Descends(c, u, book, r)
            BY <2>3, <2>5 DEF Descends, SameBut
        <3> QED
            BY <1>9, <3>1, <3>2
<1> QED
    BY <1>3, <1>5, <1>6, <1>8, <1>9 DEF Editing
-----------------------------------------------------------------------------
(* Types, and what the calls hold.                                         *)

\* r is a request that c may go on with.
Ready(c, r) ==
    /\ r \in Request /\ (r.rev # None => r.tool \in Editing)
    /\ phase[c] \in {"idle", "assigning", "running"}
    /\ ran[c] # None => r = request[c]

LEMMA RequestFacts ==
    ASSUME TypeOK, NEW r \in Requests
    PROVE  r \in Request /\ (r.rev # None => r.tool \in Editing)
<1>1. \A tool \in AllTools : /\ Plain(tool) \in Request /\ Plain(tool).rev = None /\ Plain(tool).tool = tool
    BY DEF Plain, Request, Ids
<1>2. KnownRevs \subseteq Seq(Cell)
    BY DEF KnownRevs, ReadNow, TypeOK
<1>3. KnownIds \subseteq Ids
    <2>1. ASSUME NEW c \in ReadNow, NEW i \in DOMAIN view[c] PROVE view[c][i].id \in Ids
        <3>1. view[c] \in Seq(Cell)
            BY DEF ReadNow, TypeOK
        <3>2. view[c][i] \in Cell
            BY <3>1, LenProperties, ElementOfSeq
        <3> QED
            BY <3>2 DEF Cell
    <2> QED
        BY <2>1 DEF KnownIds, ToSet
<1>4. ASSUME NEW t \in Targets PROVE t[1] \in Nat /\ t[2] \in Ids
    BY <1>3 DEF Targets, Ids
<1>5. ASSUME NEW tool \in AllTools, NEW t \in Targets, NEW rev \in KnownRevs \cup {None}
      PROVE  At(tool, t, rev) \in Request /\ At(tool, t, rev).tool = tool /\ At(tool, t, rev).rev = rev
    BY <1>2, <1>4 DEF At, Plain, Request
<1>6. CASE r = Plain("read")
    BY <1>1, <1>6 DEF AllTools
<1>7. ASSUME NEW rev \in KnownRevs \cup {None}, r = [Plain("insert") EXCEPT !.rev = rev]
      PROVE  r \in Request /\ r.tool = "insert"
    BY <1>2, <1>7 DEF Plain, Request, AllTools, Ids
<1>8. ASSUME NEW t \in Targets, NEW rev \in KnownRevs \cup {None}, NEW f \in Fragments,
             r = [At("patch", t, rev) EXCEPT !.old = f]
      PROVE  r \in Request /\ r.tool = "patch"
    <2>1. At("patch", t, rev) \in Request /\ At("patch", t, rev).tool = "patch"
        BY <1>5 DEF AllTools
    <2> QED
        BY <1>8, <2>1 DEF Request
<1>9. ASSUME NEW tool \in {"edit", "delete"}, NEW t \in Targets, NEW rev \in KnownRevs \cup {None}, r = At(tool, t, rev)
      PROVE  r \in Request /\ r.tool \in {"edit", "delete"}
    BY <1>5, <1>9 DEF AllTools
<1>10. ASSUME NEW t \in Targets, NEW rev \in KnownRevs \cup {None}, r = [At("move", t, rev) EXCEPT !.to = 9]
       PROVE  r \in Request /\ r.tool = "move"
    <2>1. At("move", t, rev) \in Request /\ At("move", t, rev).tool = "move"
        BY <1>5 DEF AllTools
    <2> QED
        BY <1>10, <2>1 DEF Request
<1>11. ASSUME NEW t \in Targets, r = At("execute", t, None)
       PROVE  r \in Request /\ r.rev = None
    BY <1>5, <1>11 DEF AllTools
<1> QED
    BY <1>6, <1>7, <1>8, <1>9, <1>10, <1>11 DEF Requests, Editing

LEMMA InitNotebook == Init => NotebookInv
<1> SUFFICES ASSUME Init PROVE NotebookInv
    OBVIOUS
<1>1. Plain("read") \in Request /\ Plain("read").rev = None
    BY DEF Plain, Request, AllTools, Ids
<1>2. <<>> \in Seq(Cell) /\ None \in Names
    BY NamesFacts
<1>3. file \in Seq(Cell) \cup {None}
    BY BooksAssumption DEF Init
<1>4. TypeOK
    BY <1>1, <1>2, <1>3, NotebookAssumption DEF Init, TypeOK
<1>5. Phases /\ CurrentInv
    BY <1>1 DEF Init, Phases, CurrentInv
<1>6. StoredInv
    BY BooksAssumption, StoredBook DEF Init, StoredInv
<1> QED
    BY <1>4, <1>5, <1>6 DEF NotebookInv

\* The notebook that is on disk after a step that has read or dealt ids is the
\* one the call goes on with, in its stored form.
LEMMA ProceedKeeps ==
    ASSUME NotebookInv, NEW c \in Calls, NEW r, Ready(c, r), NEW book \in Seq(Cell),
           Proceed(c, r, book), Dealing(c, book), file' = Normal(book), saves' = saves,
           \/ file' = file /\ current' = current \cup {c}
           \/ current' = {c}
    PROVE  NotebookInv'
<1>0. /\ phase \in [Calls -> {"idle", "assigning", "running", "writing", "done", "refused"}]
      /\ request \in [Calls -> Request] /\ nb \in [Calls -> Seq(Cell)]
      /\ view \in [Calls -> Seq(Cell) \cup {None}] /\ ran \in [Calls -> Names]
      /\ None \notin Seq(Cell) /\ current' \subseteq Calls /\ saves' \in 0..MaxSaves
    BY NotebookAssumption DEF NotebookInv, TypeOK
<1>1. view[c] = None
    BY DEF NotebookInv, Phases, Ready
<1>2. \A d \in Calls \ {c} : /\ phase'[d] = phase[d] /\ request'[d] = request[d] /\ nb'[d] = nb[d]
                             /\ view'[d] = view[d] /\ ran'[d] = ran[d]
    BY <1>0 DEF Proceed, Answer, Refuse, Edit, RunCell, SaveOutputs
<1>3. /\ phase' \in [Calls -> {"idle", "assigning", "running", "writing", "done", "refused"}]
      /\ request' \in [Calls -> Request] /\ nb' \in [Calls -> Seq(Cell)]
      /\ view' \in [Calls -> Seq(Cell) \cup {None}] /\ ran' \in [Calls -> Names]
      /\ phase'[c] \notin {"idle", "assigning"} /\ (view'[c] # None => phase'[c] = "done" /\ view'[c] = book)
      /\ request'[c].rev # None => request'[c].tool \in Editing
      /\ phase'[c] = "writing" /\ request'[c].tool \in Editing
           => Accepted(book, request'[c]) /\ nb'[c] = Edited(c, book, request'[c])
      /\ phase'[c] = "writing" /\ request'[c].tool = "execute" => nb'[c] = WithOutputs(c, book, request'[c])
    <2>1. CASE Answer(c, r, book)
        BY <1>0, <2>1 DEF Answer, NotebookInv, Phases
    <2>2. CASE Refuse(c, r, book)
        BY <1>0, <1>1, <2>2 DEF Refuse, Ready
    <2>3. CASE Edit(c, r, book)
        <3>1. Edited(c, book, r) \in Seq(Cell)
            BY <2>3, EditedFacts DEF Edit, Ready, Descends
        <3> QED
            BY <1>0, <1>1, <2>3, <3>1 DEF Edit, Ready, Editing
    <2>4. CASE RunCell(c, r, book)
        <3> DEFINE i == ResolveTarget(book, r)
        <3>1. CASE i = 0
            BY <1>0, <1>1, <2>4, <3>1 DEF RunCell, NotebookInv, Phases
        <3>2. CASE i # 0
            <4>1. i \in Nat /\ book[i] \in Cell
                BY <3>2, ResolvedFacts, LenProperties, ElementOfSeq
            <4>2. book[i].id \in Ids /\ book[i].meta \in Names
                BY <4>1 DEF Cell
            <4> DEFINE q == [r EXCEPT !.index = i, !.id = book[i].id]
            <4>3. r.rev = None /\ r \in Request /\ r.tool = "execute"
                BY <2>4 DEF RunCell, Ready, Editing
            <4>4. q \in Request /\ q.rev = None
                BY <4>1, <4>2, <4>3 DEF Request
            <4>5. /\ phase' = [phase EXCEPT ![c] = "running"] /\ request' = [request EXCEPT ![c] = q]
                  /\ nb' = [nb EXCEPT ![c] = book] /\ ran' = [ran EXCEPT ![c] = book[i].meta] /\ view' = view
                BY <2>4, <3>2 DEF RunCell
            <4> HIDE DEF q, i
            <4> QED
                BY <1>0, <1>1, <4>2, <4>4, <4>5
        <3> QED
            BY <3>1, <3>2
    <2>5. CASE SaveOutputs(c, r, book)
        <3>1. r = request[c] /\ r.tool = "execute" /\ "execute" \notin Editing
            BY <2>5 DEF SaveOutputs, Ready, Editing
        <3>2. WithOutputs(c, book, r) \in Seq(Cell)
            BY WithOutputsFacts DEF Filled
        <3> QED
            BY <1>0, <1>1, <2>5, <3>1, <3>2 DEF SaveOutputs, Ready
    <2> QED
        BY <2>1, <2>2, <2>3, <2>4, <2>5 DEF Proceed
<1>4. Normal(book) \in Seq(Cell) /\ Normal(Normal(book)) = Normal(book)
    BY NormalFacts
<1>5. TypeOK'
    BY <1>0, <1>3, <1>4 DEF TypeOK
<1>6. Phases'
    <2>1. ASSUME NEW d \in Calls, d # c, phase'[d] = "assigning" PROVE Dealing(d, nb'[d])
        BY <1>2, <2>1 DEF NotebookInv, Phases
    <2>2. \A d \in Calls : /\ phase'[d] = "idle" => ran'[d] = None
                           /\ view'[d] # None => phase'[d] = "done"
                           /\ request'[d].rev # None => request'[d].tool \in Editing
        BY <1>2, <1>3 DEF NotebookInv, Phases
    <2> QED
        BY <1>3, <2>1, <2>2 DEF Phases, Dealing, Own
<1>7. file' # None /\ StoredInv'
    BY <1>0, <1>4 DEF StoredInv
<1>8. ASSUME NEW d \in current' PROVE Unraced(d)'
    <2>1. CASE d = c
        <3>1. view'[c] # None => Normal(view'[c]) = file' /\ Dealing(c, view'[c])
            BY <1>3
        <3>2. phase'[c] = "writing" /\ request'[c].tool \in Editing
                => \E b \in Seq(Cell) : Normal(b) = file' /\ Accepted(b, request'[c]) /\ nb'[c] = Edited(c, b, request'[c])
            BY <1>3
        <3>3. phase'[c] = "writing" /\ request'[c].tool = "execute"
                => \E b \in Seq(Cell) : Normal(b) = file' /\ nb'[c] = WithOutputs(c, b, request'[c])
            BY <1>3
        <3> QED
            BY <1>7, <2>1, <3>1, <3>2, <3>3 DEF Unraced, Dealing, Own
    <2>2. CASE d # c
        <3>1. d \in current /\ file' = file /\ d \in Calls
            BY <1>0, <1>8, <2>2
        <3>2. Unraced(d)
            BY <3>1 DEF NotebookInv, CurrentInv
        <3> QED
            BY <1>2, <2>2, <3>1, <3>2 DEF Unraced, Dealing, Own
    <2> QED
        BY <2>1, <2>2
<1> QED
    BY <1>5, <1>6, <1>7, <1>8 DEF NotebookInv, CurrentInv

LEMMA LoadKeeps ==
    ASSUME NotebookInv, NEW c \in Calls, NEW r, Ready(c, r), NEW nth \in 0..2, Load(c, r, nth)
    PROVE  NotebookInv'
<1> DEFINE book == EnsureIds(c, nth, file)
<1>0. /\ phase \in [Calls -> {"idle", "assigning", "running", "writing", "done", "refused"}]
      /\ request \in [Calls -> Request] /\ nb \in [Calls -> Seq(Cell)]
      /\ view \in [Calls -> Seq(Cell) \cup {None}] /\ current \subseteq Calls
    BY DEF NotebookInv, TypeOK
<1>1. file \in Seq(Cell) /\ file' = file /\ current' = current \cup {c} /\ saves' = saves
    BY DEF Load, NotebookInv, TypeOK
<1>2. file # None /\ Normal(file) = file /\ \A i \in DOMAIN file : file[i].stored
    BY <1>1, NormalFacts DEF Load, NotebookInv, StoredInv
<1>3. book \in Seq(Cell) /\ Dealing(c, book)
    BY <1>1, <1>2, EnsureFacts DEF Dealing
<1>4. CASE book = file
    <2>1. Proceed(c, r, file) /\ Dealing(c, file)
        BY <1>3, <1>4 DEF Load
    <2> QED
        BY <1>1, <1>2, <2>1, ProceedKeeps
<1>5. CASE book # file
    <2>1. /\ phase' = [phase EXCEPT ![c] = "assigning"] /\ request' = [request EXCEPT ![c] = r]
          /\ nb' = [nb EXCEPT ![c] = book] /\ UNCHANGED <<view, ran>>
        BY <1>5 DEF Load
    <2> HIDE DEF book
    <2>2. view[c] = None /\ r \in Request /\ (r.rev # None => r.tool \in Editing)
        BY DEF NotebookInv, Phases, Ready
    <2>3. TypeOK'
        BY <1>0, <1>1, <1>3, <2>1, <2>2 DEF NotebookInv, TypeOK
    <2>4. Phases' /\ StoredInv'
        BY <1>0, <1>1, <1>3, <2>1, <2>2 DEF NotebookInv, Phases, StoredInv, Dealing, Own
    <2>5. ASSUME NEW d \in current' PROVE Unraced(d)'
        <3>1. CASE d = c
            BY <1>0, <2>1, <2>2, <3>1 DEF Unraced
        <3>2. CASE d # c
            <4>1. Unraced(d) /\ d \in Calls
                BY <1>0, <1>1, <2>5, <3>2 DEF NotebookInv, CurrentInv
            <4> QED
                BY <1>0, <1>1, <2>1, <3>2, <4>1 DEF Unraced, Dealing, Own
        <3> QED
            BY <3>1, <3>2
    <2> QED
        BY <2>3, <2>4, <2>5 DEF NotebookInv, CurrentInv
<1> QED
    BY <1>4, <1>5

\* A step that writes, or adds a cell without reading ids.
LEMMA WriteKeeps ==
    ASSUME NotebookInv, NEW c \in Calls, Write(c) \/ AppendCell(c) \/ CreateNotebook(c)
    PROVE  NotebookInv'
<1>0. /\ phase \in [Calls -> {"idle", "assigning", "running", "writing", "done", "refused"}]
      /\ request \in [Calls -> Request] /\ nb \in [Calls -> Seq(Cell)] /\ file \in Seq(Cell) \cup {None}
      /\ view \in [Calls -> Seq(Cell) \cup {None}] /\ current \subseteq Calls /\ ran \in [Calls -> Names]
    BY DEF NotebookInv, TypeOK
<1>1. CASE Write(c)
    <2>1. /\ file' = Normal(nb[c]) /\ current' = {} /\ phase' = [phase EXCEPT ![c] = "done"]
          /\ UNCHANGED <<request, nb, view, ran, saves>>
        BY <1>1 DEF Write, Put
    <2>2. file' \in Seq(Cell) /\ Normal(file') = file'
        BY <1>0, <2>1, NormalFacts
    <2>3. TypeOK'
        BY <1>0, <2>1, <2>2 DEF NotebookInv, TypeOK
    <2>4. Phases' /\ CurrentInv' /\ StoredInv'
        BY <1>0, <2>1, <2>2 DEF NotebookInv, Phases, CurrentInv, StoredInv, Dealing, Own
    <2> QED
        BY <2>3, <2>4 DEF NotebookInv
<1>2. ASSUME NEW q \in {Plain("append"), Plain("create")}
      PROVE  q \in Request /\ q.rev = None /\ q.tool \notin Editing \cup {"execute"}
    BY DEF Plain, Request, AllTools, Ids, Editing
<1>3. CASE AppendCell(c)
    <2>1. /\ phase[c] = "idle" /\ request' = [request EXCEPT ![c] = Plain("append")]
          /\ ran' = [ran EXCEPT ![c] = c] /\ file' = file /\ view' = view /\ saves' = saves
          /\ current' = current \cup {c}
        BY <1>3 DEF AppendCell
    <2>2. \/ file = None /\ phase' = [phase EXCEPT ![c] = "done"] /\ nb' = nb
          \/ /\ file # None /\ phase' = [phase EXCEPT ![c] = "writing"]
             /\ nb' = [nb EXCEPT ![c] = Append(file, NewCell(c, c))]
        BY <1>3 DEF AppendCell
    <2>3. view[c] = None
        BY <2>1 DEF NotebookInv, Phases
    <2>4. file # None => Append(file, NewCell(c, c)) \in Seq(Cell)
        BY <1>0, NewCellFacts, AppendProperties
    <2>5. nb' \in [Calls -> Seq(Cell)]
        BY <1>0, <2>2, <2>4
    <2>6. phase' \in [Calls -> {"idle", "assigning", "running", "writing", "done", "refused"}]
        BY <1>0, <2>2
    <2>7. /\ \A d \in Calls \ {c} : phase'[d] = phase[d] /\ nb'[d] = nb[d]
          /\ phase'[c] # "idle" /\ (phase'[c] = "writing" => file # None)
        BY <1>0, <2>2
    <2>8. phase'[c] # "assigning"
        BY <1>0, <2>2
    <2>9. TypeOK'
        BY <1>0, <1>2, <2>1, <2>5, <2>6, NamesFacts DEF NotebookInv, TypeOK
    <2>10. /\ \A d \in Calls \ {c} : request'[d] = request[d] /\ ran'[d] = ran[d]
          /\ request'[c].rev = None /\ request'[c].tool \notin Editing \cup {"execute"}
        BY <1>0, <1>2, <2>1
    <2>11. Phases' /\ StoredInv'
        BY <2>1, <2>3, <2>7, <2>8, <2>10 DEF NotebookInv, Phases, StoredInv, Dealing, Own
    <2>12. ASSUME NEW d \in current' PROVE Unraced(d)'
        <3>1. CASE d = c
            BY <2>1, <2>3, <2>7, <2>10, <3>1 DEF Unraced
        <3>2. CASE d # c
            <4>1. Unraced(d) /\ d \in Calls
                BY <1>0, <2>1, <2>12, <3>2 DEF NotebookInv, CurrentInv
            <4> QED
                BY <2>1, <2>7, <2>10, <3>2, <4>1 DEF Unraced, Dealing, Own
        <3> QED
            BY <3>1, <3>2
    <2> QED
        BY <2>9, <2>11, <2>12 DEF NotebookInv, CurrentInv
<1>4. CASE CreateNotebook(c)
    <2>1. /\ phase[c] = "idle" /\ request' = [request EXCEPT ![c] = Plain("create")]
          /\ file' = Normal(<<NewCell(c, None)>>) /\ current' = {} /\ phase' = [phase EXCEPT ![c] = "done"]
          /\ UNCHANGED <<nb, view, ran, saves>>
        BY <1>4 DEF CreateNotebook, Put
    <2>2. file' \in Seq(Cell) /\ Normal(file') = file'
        <3>1. NewCell(c, None) \in Cell
            BY NewCellFacts
        <3>2. <<NewCell(c, None)>> \in Seq(Cell)
            BY <3>1
        <3> QED
            BY <2>1, <3>2, NormalFacts
    <2>3. TypeOK'
        BY <1>0, <1>2, <2>1, <2>2 DEF NotebookInv, TypeOK
    <2>4. Phases' /\ CurrentInv' /\ StoredInv'
        BY <1>0, <1>2, <2>1, <2>2 DEF NotebookInv, Phases, CurrentInv, StoredInv, Dealing, Own
    <2> QED
        BY <2>3, <2>4 DEF NotebookInv
<1> QED
    BY <1>1, <1>3, <1>4

\* What a save by the person leaves: cells of the file, with their ids and
\* outputs, and perhaps one without an id.
LEMMA SavedFacts ==
    ASSUME file \in Seq(Cell), HumanSaves
    PROVE  /\ file' \in Seq(Cell) /\ Normal(file') = file'
           /\ \A k \in DOMAIN file' :
                 \/ file'[k].id = None /\ file'[k].out = None
                 \/ \E j \in DOMAIN file : SameBut(file'[k], file[j]) /\ file'[k].out = file[j].out
<1>0. /\ DOMAIN file = 1..Len(file) /\ Len(file) \in Nat
      /\ \A k \in DOMAIN file : file[k] \in Cell
    BY LenProperties, ElementOfSeq
<1>1. ASSUME NEW u, NEW i \in DOMAIN file, u = RemoveAt(file, i)
      PROVE  /\ u \in Seq(Cell)
             /\ \A k \in DOMAIN u :
                   \E j \in DOMAIN file : SameBut(u[k], file[j]) /\ u[k].out = file[j].out
    <2>0. i \in 1..Len(file)
        BY <1>0
    <2> DEFINE w == RemoveAt(file, i)
    <2>1. /\ w \in Seq(Cell) /\ Len(w) = Len(file) - 1
          /\ \A k \in 1..(Len(file) - 1) : w[k] = file[k] \/ w[k] = file[k + 1]
        BY <2>0, RemoveFacts
    <2> HIDE DEF w
    <2>2. /\ u \in Seq(Cell) /\ Len(u) = Len(file) - 1
          /\ \A k \in 1..(Len(file) - 1) : u[k] = file[k] \/ u[k] = file[k + 1]
        BY <1>1, <2>1 DEF w
    <2>3. DOMAIN u = 1..(Len(file) - 1)
        BY <2>2, LenProperties
    <2>4. ASSUME NEW k \in 1..(Len(file) - 1)
          PROVE  \E j \in DOMAIN file : SameBut(u[k], file[j]) /\ u[k].out = file[j].out
        <3>1. k \in DOMAIN file /\ k + 1 \in DOMAIN file
            BY <1>0
        <3> QED
            BY <2>2, <3>1 DEF SameBut
    <2> QED
        BY <2>2, <2>3, <2>4
<1> DEFINE v == [NewCell(Human, None) EXCEPT !.id = None]
<1>2. v \in Cell /\ v.id = None /\ v.out = None
    <2>1. Human \in Names \ {None} /\ {Human} \in SUBSET Names /\ None \in Ids
        BY NamesFacts, NotebookAssumption DEF Ids
    <2> DEFINE cell == NewCell(Human, None)
    <2>2. cell \in Cell /\ cell.out = None
        BY NewCellFacts
    <2> HIDE DEF cell
    <2>3. [cell EXCEPT !.id = None] \in Cell /\ [cell EXCEPT !.id = None].id = None
          /\ [cell EXCEPT !.id = None].out = None
        BY <2>1, <2>2 DEF Cell
    <2> QED
        BY <2>3 DEF cell
<1>3. ASSUME NEW u, u = Append(file, v)
      PROVE  /\ u \in Seq(Cell)
             /\ \A k \in DOMAIN u :
                   \/ u[k].id = None /\ u[k].out = None
                   \/ \E j \in DOMAIN file : SameBut(u[k], file[j]) /\ u[k].out = file[j].out
    <2> HIDE DEF v
    <2>1. /\ u \in Seq(Cell) /\ Len(u) = Len(file) + 1
          /\ \A k \in 1..Len(file) : u[k] = file[k]
          /\ u[Len(file) + 1] = v
        BY <1>2, <1>3, AppendProperties
    <2>2. DOMAIN u = 1..(Len(file) + 1)
        BY <2>1, LenProperties
    <2> QED
        BY <1>0, <1>2, <2>1, <2>2 DEF SameBut
<1>4. PICK u : /\ file' = Normal(u)
               /\ \/ \E i \in DOMAIN file : u = [file EXCEPT ![i] = Resourced(file[i], {Human})]
                  \/ \E i \in DOMAIN file : u = RemoveAt(file, i)
                  \/ u = Append(file, v)
    BY DEF HumanSaves, Put
<1> HIDE DEF v
<1>5. /\ u \in Seq(Cell)
      /\ \A k \in DOMAIN u :
            \/ u[k].id = None /\ u[k].out = None
            \/ \E j \in DOMAIN file : SameBut(u[k], file[j]) /\ u[k].out = file[j].out
    <2>1. CASE \E i \in DOMAIN file : u = [file EXCEPT ![i] = Resourced(file[i], {Human})]
        <3>1. PICK i \in DOMAIN file : u = [file EXCEPT ![i] = Resourced(file[i], {Human})]
            BY <2>1
        <3> DEFINE q == Resourced(file[i], {Human})
        <3>2. q \in Cell /\ SameBut(q, file[i]) /\ q.out = file[i].out
            BY <1>0, NamesFacts, ChangedCell
        <3>3. u = [file EXCEPT ![i] = q]
            BY <3>1
        <3> HIDE DEF q
        <3>4. /\ u \in Seq(Cell) /\ Len(u) = Len(file)
              /\ \A k \in 1..Len(file) : u[k] = IF k = i THEN q ELSE file[k]
            BY <1>0, <3>2, <3>3, ExceptSeq
        <3>5. DOMAIN u = DOMAIN file
            BY <3>3
        <3> QED
            BY <1>0, <3>2, <3>4, <3>5 DEF SameBut
    <2>2. CASE \E i \in DOMAIN file : u = RemoveAt(file, i)
        <3>1. PICK i \in DOMAIN file : u = RemoveAt(file, i)
            BY <2>2
        <3>2. /\ u \in Seq(Cell)
              /\ \A k \in DOMAIN u :
                    \E j \in DOMAIN file : SameBut(u[k], file[j]) /\ u[k].out = file[j].out
            BY <1>1, <3>1, Zenon
        <3> QED
            BY <3>2, Zenon
    <2>3. CASE u = Append(file, v)
        BY <1>3, <2>3, Zenon
    <2> QED
        BY <1>4, <2>1, <2>2, <2>3
<1> QED
    BY <1>4, <1>5, NormalFacts DEF SameBut

LEMMA NotebookStep == ASSUME NotebookInv, [Next]_vars PROVE NotebookInv'
<1>1. ASSUME NEW c \in Calls, Start(c) PROVE NotebookInv'
    <2>1. PICK r \in Requests : Load(c, r, 1)
        BY <1>1 DEF Start
    <2>2. Ready(c, r)
        BY <1>1, RequestFacts DEF Ready, Start, NotebookInv, Phases
    <2> QED
        BY <2>1, <2>2, LoadKeeps
<1>2. ASSUME NEW c \in Calls, PersistIds(c) PROVE NotebookInv'
    <2>1. Ready(c, request[c]) /\ nb[c] \in Seq(Cell) /\ Dealing(c, nb[c])
        BY <1>2 DEF PersistIds, Ready, NotebookInv, Phases, TypeOK
    <2>2. Proceed(c, request[c], nb[c]) /\ file' = Normal(nb[c]) /\ current' = {c} /\ saves' = saves
        BY <1>2 DEF PersistIds
    <2> QED
        BY <2>1, <2>2, ProceedKeeps
<1>3. ASSUME NEW c \in Calls, Reread(c) PROVE NotebookInv'
    <2>1. Ready(c, request[c])
        BY <1>3 DEF Reread, Ready, NotebookInv, Phases, TypeOK
    <2> QED
        BY <1>3, <2>1, LoadKeeps DEF Reread
<1>4. CASE HumanSaves
    <2>0. /\ file # None /\ current' = {} /\ saves < MaxSaves /\ saves' = saves + 1
          /\ UNCHANGED <<phase, request, nb, view, ran>>
        BY <1>4, Zenon DEF HumanSaves, Put
    <2>1. file \in Seq(Cell) /\ saves' \in 0..MaxSaves
        BY <2>0, NotebookAssumption DEF NotebookInv, TypeOK
    <2>2. file' \in Seq(Cell) /\ Normal(file') = file'
        BY <1>4, <2>1, SavedFacts
    <2>3. TypeOK' /\ CurrentInv' /\ StoredInv'
        BY <2>0, <2>1, <2>2 DEF NotebookInv, TypeOK, CurrentInv, StoredInv
    <2>4. Phases'
        BY <2>0 DEF NotebookInv, Phases, Dealing, Own
    <2> QED
        BY <2>3, <2>4 DEF NotebookInv
<1>5. CASE UNCHANGED vars
    BY <1>5 DEF vars, NotebookInv, TypeOK, Phases, CurrentInv, Unraced, StoredInv, Dealing, Own
<1> QED
    BY <1>1, <1>2, <1>3, <1>4, <1>5, WriteKeeps DEF Next
-----------------------------------------------------------------------------
(* What an id stands for.                                                  *)

\* c is between sending the source of a cell and saving its outputs.
Executing(c) == phase[c] \in {"running", "assigning"} /\ ran[c] # None

InBook(b, id, m) == \E i \in DOMAIN b : b[i].id = id /\ b[i].meta = m

\* Somewhere a cell of that meta has the id, or an execution knows it by the id.
Stands(id, m) ==
    \/ file # None /\ InBook(file, id, m)
    \/ \E c \in Calls : InBook(nb[c], id, m)
    \/ \E c \in Calls : Executing(c) /\ request[c].id = id /\ ran[c] = m

\* c has not dealt the ids of its new cell (0), of its first load (1), of the
\* load after its cell has run (2).
Undealt(c, n) ==
    \/ n = 0 /\ phase[c] \in {"idle", "assigning", "running"}
    \/ n = 1 /\ phase[c] = "idle"
    \/ n = 2 /\ (phase[c] \in {"idle", "running"} \/ (phase[c] = "assigning" /\ ran[c] = None))

OneMeta == \A id, m, o : id # None /\ Stands(id, m) /\ Stands(id, o) => m = o

FreshInv ==
    \A c \in Calls, n \in 0..2 : Undealt(c, n) => \A i \in Nat : \A m : ~ Stands(<<c, n, i>>, m)

ExecInv ==
    \A c \in Calls :
        /\ Executing(c) => request[c].tool = "execute" /\ request[c].id # None
        /\ phase[c] = "running" => ran[c] # None
        /\ phase[c] = "assigning" => \A i \in DOMAIN nb[c] : nb[c][i].id # None

IdInv == OneMeta /\ FreshInv

IdentityInv == IdInv /\ ExecInv /\ OutputsLandInTheirCell

\* In a notebook that holds every cell once, an id is that of one cell.
OneIdOneCell ==
    \A b \in Books \ {None} : \A i, j \in DOMAIN b :
        b[i].id = b[j].id /\ b[i].id # None => b[i].meta = b[j].meta

LEMMA SavedBook ==
    ASSUME NEW b \in Seq(Cell)
    PROVE  /\ \A id, m : InBook(Normal(b), id, m) <=> InBook(b, id, m)
           /\ DOMAIN Normal(b) = DOMAIN b
           /\ \A i \in DOMAIN b : Normal(b)[i].meta = b[i].meta /\ Normal(b)[i].out = b[i].out
<1> DEFINE v == Normal(b)
<1>1. DOMAIN v = DOMAIN b /\ \A i \in DOMAIN b : SameBut(v[i], b[i]) /\ v[i].out = b[i].out
    BY NormalFacts
<1> HIDE DEF v
<1>2. \A id, m : InBook(v, id, m) <=> InBook(b, id, m)
    BY <1>1 DEF InBook, SameBut
<1>3. \A i \in DOMAIN b : v[i].meta = b[i].meta /\ v[i].out = b[i].out
    BY <1>1 DEF SameBut
<1> QED
    BY <1>1, <1>2, <1>3 DEF v

LEMMA SameIds ==
    ASSUME IdInv, \A d \in Calls, k \in 0..2 : Undealt(d, k)' => Undealt(d, k),
           \A id, m : Stands(id, m)' => Stands(id, m) \/ id = None
    PROVE  IdInv'
<1>1. OneMeta'
    BY DEF IdInv, OneMeta
<1>2. \A d \in Calls, k \in 0..2, i \in Nat : <<d, k, i>> # None
    BY NotebookAssumption DEF Dealt
<1>3. FreshInv'
    BY <1>2 DEF IdInv, FreshInv
<1> QED
    BY <1>1, <1>3 DEF IdInv

\* c deals the ids <<c, n, _>>, each to one cell.
LEMMA NewIds ==
    ASSUME IdInv, \A d \in Calls, k \in 0..2 : Undealt(d, k)' => Undealt(d, k),
           NEW c \in Calls, NEW n \in 0..2, Undealt(c, n), ~ Undealt(c, n)', NEW M,
           \A id, m : Stands(id, m)' => \/ Stands(id, m) \/ id = None
                                        \/ \E i \in Nat : id = <<c, n, i>> /\ m = M[i]
    PROVE  IdInv'
<1>0. \A i \in Nat : \A m : ~ Stands(<<c, n, i>>, m)
    BY DEF IdInv, FreshInv
<1>1. ASSUME NEW id, NEW m, NEW o, id # None, Stands(id, m)', Stands(id, o)' PROVE m = o
    <2>1. CASE \E i \in Nat : id = <<c, n, i>>
        <3>1. PICK i \in Nat : id = <<c, n, i>>
            BY <2>1
        <3>2. ~ Stands(id, m) /\ ~ Stands(id, o)
            BY <1>0, <3>1
        <3>3. m = M[i] /\ o = M[i]
            BY <1>1, <3>1, <3>2
        <3> QED
            BY <3>3
    <2>2. CASE ~ \E i \in Nat : id = <<c, n, i>>
        BY <1>1, <2>2 DEF IdInv, OneMeta
    <2> QED
        BY <2>1, <2>2
<1>2. ASSUME NEW d \in Calls, NEW k \in 0..2, Undealt(d, k)', NEW i \in Nat, NEW m, Stands(<<d, k, i>>, m)' PROVE FALSE
    <2>1. <<d, k, i>> # None
        BY NotebookAssumption DEF Dealt
    <2>2. d # c \/ k # n
        BY <1>2
    <2>3. ~ Stands(<<d, k, i>>, m)
        BY <1>2 DEF IdInv, FreshInv
    <2> QED
        BY <1>2, <2>1, <2>2, <2>3
<1> QED
    BY <1>1, <1>2 DEF IdInv, OneMeta, FreshInv

LEMMA OutsOf ==
    ASSUME NotebookInv, OutputsLandInTheirCell, NEW b \in Seq(Cell),
           (b = file /\ file # None) \/ \E c \in Calls : b = nb[c], NEW i \in DOMAIN b
    PROVE  /\ b[i].out # None => ran[b[i].out] = b[i].meta
           /\ b[i].meta # None /\ b[i].out \in Calls \cup {None}
<1>1. b # None /\ b[i] \in Cell
    BY NotebookAssumption, LenProperties, ElementOfSeq
<1> QED
    BY <1>1 DEF OutputsLandInTheirCell, Cell

\* Only c moves: whatever stands for an id afterwards did before, or is in the
\* notebook c has now, or is what c has just begun to execute.
LEMMA MovedStands ==
    ASSUME NEW c \in Calls,
           \A d \in Calls \ {c} : /\ phase'[d] = phase[d] /\ request'[d] = request[d]
                                  /\ nb'[d] = nb[d] /\ ran'[d] = ran[d],
           NEW id, NEW m, Stands(id, m)'
    PROVE  \/ Stands(id, m)
           \/ file' # None /\ InBook(file', id, m)
           \/ InBook(nb'[c], id, m)
           \/ /\ phase'[c] \in {"running", "assigning"} /\ ran'[c] # None
              /\ request'[c].id = id /\ ran'[c] = m
<1>1. CASE file' # None /\ InBook(file', id, m)
    BY <1>1
<1>2. ASSUME NEW d \in Calls, InBook(nb'[d], id, m)
      PROVE  Stands(id, m) \/ InBook(nb'[c], id, m)
    BY <1>2 DEF Stands
<1>3. ASSUME NEW d \in Calls, phase'[d] \in {"running", "assigning"} /\ ran'[d] # None, request'[d].id = id, ran'[d] = m
      PROVE  \/ Stands(id, m)
             \/ /\ phase'[c] \in {"running", "assigning"} /\ ran'[c] # None
                /\ request'[c].id = id /\ ran'[c] = m
    <2>1. CASE d = c
        BY <1>3, <2>1
    <2>2. CASE d # c
        <3>1. Executing(d) /\ request[d].id = id /\ ran[d] = m
            BY <1>3, <2>2 DEF Executing
        <3> QED
            BY <3>1 DEF Stands
    <2> QED
        BY <2>1, <2>2
<1> QED
    BY <1>1, <1>2, <1>3 DEF Stands, Executing, InBook

LEMMA MovedUndealt ==
    ASSUME NEW c \in Calls,
           \A d \in Calls \ {c} : phase'[d] = phase[d] /\ ran'[d] = ran[d],
           \A k \in 0..2 : Undealt(c, k)' => Undealt(c, k)
    PROVE  \A d \in Calls, k \in 0..2 : Undealt(d, k)' => Undealt(d, k)
<1>1. ASSUME NEW d \in Calls \ {c}, NEW k \in 0..2, Undealt(d, k)' PROVE Undealt(d, k)
    BY <1>1 DEF Undealt
<1> QED
    BY <1>1

\* A notebook in hand whose cells all come from another one.
LEMMA DescendsIds ==
    ASSUME NEW c \in Calls, NEW u, NEW book, NEW r, Descends(c, u, book, r), NEW id, NEW m, InBook(u, id, m)
    PROVE  InBook(book, id, m) \/ (r.tool = "insert" /\ id = <<c, 0, 1>> /\ m = c)
<1>1. PICK k \in DOMAIN u : u[k].id = id /\ u[k].meta = m
    BY DEF InBook
<1>2. CASE r.tool = "insert" /\ u[k] = NewCell(c, None)
    BY <1>1, <1>2, NewCellFacts
<1>3. ASSUME NEW j \in DOMAIN book, SameBut(u[k], book[j]) PROVE InBook(book, id, m)
    BY <1>1, <1>3 DEF SameBut, InBook
<1> QED
    BY <1>2, <1>3 DEF Descends

LEMMA ProceedIds ==
    ASSUME NotebookInv, IdentityInv, NEW c \in Calls, NEW r, Ready(c, r), NEW book \in Seq(Cell),
           Proceed(c, r, book), file' = Normal(book), (book = file /\ file # None) \/ book = nb[c],
           \A i \in DOMAIN book : book[i].id # None
    PROVE  IdentityInv'
<1>0. /\ phase \in [Calls -> {"idle", "assigning", "running", "writing", "done", "refused"}]
      /\ request \in [Calls -> Request] /\ nb \in [Calls -> Seq(Cell)] /\ ran \in [Calls -> Names]
      /\ None \notin Seq(Cell)
    BY NotebookAssumption DEF NotebookInv, TypeOK
<1>1. \A d \in Calls \ {c} : /\ phase'[d] = phase[d] /\ request'[d] = request[d]
                             /\ nb'[d] = nb[d] /\ ran'[d] = ran[d]
    BY <1>0 DEF Proceed, Answer, Refuse, Edit, RunCell, SaveOutputs
<1>2. /\ file' # None /\ \A id, m : InBook(file', id, m) <=> InBook(book, id, m)
      /\ DOMAIN file' = DOMAIN book
      /\ \A i \in DOMAIN book : file'[i].meta = book[i].meta /\ file'[i].out = book[i].out
    <2>1. Normal(book) \in Seq(Cell)
        BY NormalFacts
    <2> QED
        BY <1>0, <2>1, SavedBook
<1>3. \A id, m : InBook(book, id, m) => Stands(id, m)
    BY <1>0 DEF Stands
<1>4. \A i \in DOMAIN book : /\ book[i].out # None => ran[book[i].out] = book[i].meta
                             /\ book[i].meta # None /\ book[i].out \in Calls \cup {None} /\ book[i] \in Cell
    BY OutsOf, LenProperties, ElementOfSeq DEF IdentityInv
<1>5. \A d \in Calls : \A i \in DOMAIN nb[d] :
          /\ nb[d][i].out # None => ran[nb[d][i].out] = nb[d][i].meta
          /\ nb[d][i].meta # None /\ nb[d][i].out \in Calls \cup {None}
    BY <1>0, OutsOf DEF IdentityInv
<1>6. ASSUME ran' = ran, \A i \in DOMAIN nb'[c] : nb'[c][i].out # None => ran[nb'[c][i].out] = nb'[c][i].meta
      PROVE  OutputsLandInTheirCell'
    <2>1. ASSUME NEW b \in {book} \cup {nb'[d] : d \in Calls}, NEW i \in DOMAIN b, b[i].out # None
          PROVE  ran[b[i].out] = b[i].meta
        <3>1. CASE b = book
            BY <1>4, <2>1, <3>1
        <3>2. ASSUME NEW d \in Calls, b = nb'[d] PROVE ran[b[i].out] = b[i].meta
            <4>1. CASE d = c
                BY <1>6, <2>1, <3>2, <4>1
            <4>2. CASE d # c
                BY <1>1, <1>5, <2>1, <3>2, <4>2
            <4> QED
                BY <4>1, <4>2
        <3> QED
            BY <3>1, <3>2
    <2>2. \A i \in DOMAIN file' : file'[i].out # None => ran[file'[i].out] = file'[i].meta
        BY <1>2, <2>1
    <2> QED
        BY <1>6, <2>1, <2>2 DEF OutputsLandInTheirCell
\* A call that leaves its notebook alone and executes no more.
<1>7. ASSUME phase'[c] \in {"done", "refused"}, nb' = nb, ran' = ran PROVE IdentityInv'
    <2>1. \A k \in 0..2 : Undealt(c, k)' => Undealt(c, k)
        BY <1>7 DEF Undealt
    <2>2. ASSUME NEW id, NEW m, Stands(id, m)' PROVE Stands(id, m)
        <3>1. InBook(nb'[c], id, m) => Stands(id, m)
            BY <1>7 DEF Stands
        <3> QED
            BY <1>1, <1>2, <1>3, <1>7, <2>2, <3>1, MovedStands
    <2>3. IdInv'
        BY <1>1, <2>1, <2>2, MovedUndealt, SameIds DEF IdentityInv
    <2>4. ExecInv'
        BY <1>1, <1>7 DEF IdentityInv, ExecInv, Executing
    <2>5. OutputsLandInTheirCell'
        BY <1>5, <1>6, <1>7
    <2> QED
        BY <2>3, <2>4, <2>5 DEF IdentityInv
<1>8. CASE Answer(c, r, book)
    BY <1>0, <1>7, <1>8 DEF Answer
<1>9. CASE Refuse(c, r, book)
    BY <1>0, <1>7, <1>9 DEF Refuse
<1>10. CASE Edit(c, r, book)
    <2> DEFINE u == Edited(c, book, r)
    <2>1. Descends(c, u, book, r) /\ u \in Seq(Cell)
        BY <1>10, EditedFacts DEF Edit, Ready, Descends
    <2> HIDE DEF u
    <2>2. phase'[c] = "writing" /\ nb'[c] = u /\ ran' = ran
        BY <1>0, <1>10 DEF Edit, u
    <2>3. /\ \A k \in 0..2 : Undealt(c, k)' => Undealt(c, k)
          /\ Undealt(c, 0) /\ ~ Undealt(c, 0)'
        BY <2>2 DEF Undealt, Ready
    <2> DEFINE M == [i \in {1} |-> c]
    <2>4. ASSUME NEW id, NEW m, Stands(id, m)'
          PROVE  Stands(id, m) \/ \E i \in Nat : id = <<c, 0, i>> /\ m = M[i]
        <3>1. CASE Stands(id, m) \/ InBook(book, id, m)
            BY <1>3, <3>1
        <3>2. CASE InBook(u, id, m)
            <4>1. InBook(book, id, m) \/ (id = <<c, 0, 1>> /\ m = c)
                BY <2>1, <3>2, DescendsIds
            <4>2. 1 \in Nat /\ M[1] = c
                OBVIOUS
            <4> QED
                BY <1>3, <4>1, <4>2
        <3> QED
            BY <1>1, <1>2, <2>2, <2>4, <3>1, <3>2, MovedStands
    <2> HIDE DEF M
    <2>5. IdInv'
        <3>1. \A d \in Calls, k \in 0..2 : Undealt(d, k)' => Undealt(d, k)
            BY <1>1, <2>3, MovedUndealt
        <3>2. \A id, m : Stands(id, m)' => Stands(id, m) \/ id = None \/ \E i \in Nat : id = <<c, 0, i>> /\ m = M[i]
            BY <2>4
        <3>3. IdInv /\ 0 \in 0..2
            BY DEF IdentityInv
        <3> QED
            BY <2>3, <3>1, <3>2, <3>3, NewIds
    <2>6. ExecInv'
        BY <1>1, <2>2 DEF IdentityInv, ExecInv, Executing
    <2>7. ASSUME NEW k \in DOMAIN u, u[k].out # None PROVE ran[u[k].out] = u[k].meta
        <3>1. u[k] # NewCell(c, None)
            BY <2>7, NewCellFacts
        <3> QED
            BY <1>4, <2>1, <2>7, <3>1 DEF Descends, SameBut
    <2>8. OutputsLandInTheirCell'
        BY <1>6, <2>2, <2>7
    <2> QED
        BY <2>5, <2>6, <2>8 DEF IdentityInv
<1>11. CASE RunCell(c, r, book)
    <2> DEFINE i == ResolveTarget(book, r)
    <2>1. CASE i = 0
        BY <1>0, <1>7, <1>11, <2>1 DEF RunCell
    <2>2. CASE i # 0
        <3>1. i \in DOMAIN book
            BY <2>2, ResolvedFacts, LenProperties
        <3>2. ran[c] = None /\ r.tool = "execute" /\ r \in Request
            BY <1>11 DEF RunCell, Ready
        <3> DEFINE q == [r EXCEPT !.index = i, !.id = book[i].id]
        <3>3. q.tool = "execute" /\ q.id = book[i].id
            BY <3>2 DEF Request
        <3>4. /\ phase' = [phase EXCEPT ![c] = "running"] /\ request' = [request EXCEPT ![c] = q]
              /\ nb' = [nb EXCEPT ![c] = book] /\ ran' = [ran EXCEPT ![c] = book[i].meta]
            BY <1>11, <2>2 DEF RunCell
        <3> HIDE DEF q, i
        <3>5. /\ phase'[c] = "running" /\ request'[c].tool = "execute" /\ request'[c].id = book[i].id
              /\ nb'[c] = book /\ ran'[c] = book[i].meta
            BY <1>0, <3>3, <3>4
        <3>6. book[i].meta # None /\ book[i].id # None
            BY <1>4, <3>1
        <3>7. \A k \in 0..2 : Undealt(c, k)' => Undealt(c, k)
            BY <3>2, <3>5, <3>6 DEF Undealt, Ready
        <3>8. ASSUME NEW id, NEW m, Stands(id, m)' PROVE Stands(id, m)
            <4>1. request'[c].id = id /\ ran'[c] = m => InBook(book, id, m)
                BY <3>1, <3>5 DEF InBook
            <4> QED
                BY <1>1, <1>2, <1>3, <3>5, <3>8, <4>1, MovedStands
        <3>9. IdInv'
            BY <1>1, <3>7, <3>8, MovedUndealt, SameIds DEF IdentityInv
        <3>10. ExecInv'
            BY <1>1, <3>5, <3>6 DEF IdentityInv, ExecInv, Executing
        <3>11. OutputsLandInTheirCell'
            <4>1. ASSUME NEW d \in Calls, d # c PROVE ran'[d] = ran[d]
                BY <1>1, <4>1
            <4>2. ASSUME NEW b \in {book} \cup {nb'[d] : d \in Calls}, NEW k \in DOMAIN b, b[k].out # None
                  PROVE  ran'[b[k].out] = b[k].meta
                <5>1. ran[b[k].out] = b[k].meta /\ b[k].meta # None /\ b[k].out \in Calls
                    <6>1. CASE b = book
                        BY <1>4, <4>2, <6>1
                    <6>2. ASSUME NEW d \in Calls, b = nb'[d], d # c
                          PROVE  ran[b[k].out] = b[k].meta /\ b[k].meta # None /\ b[k].out \in Calls
                        <7>1. b = nb[d]
                            BY <1>1, <6>2
                        <7> QED
                            BY <1>5, <4>2, <7>1
                    <6> QED
                        BY <3>5, <4>2, <6>1, <6>2
                <5>2. b[k].out # c
                    BY <3>2, <5>1
                <5> QED
                    BY <4>1, <5>1, <5>2
            <4>3. \A k \in DOMAIN file' : file'[k].out # None => ran'[file'[k].out] = file'[k].meta
                BY <1>2, <4>2
            <4> QED
                BY <4>2, <4>3 DEF OutputsLandInTheirCell
        <3> QED
            BY <3>9, <3>10, <3>11 DEF IdentityInv
    <2> QED
        BY <2>1, <2>2
<1>12. CASE SaveOutputs(c, r, book)
    <2>1. r = request[c] /\ ran[c] # None /\ ran' = ran /\ Executing(c)
        BY <1>12 DEF SaveOutputs, Ready, Executing, NotebookInv, Phases
    <2>2. CASE Matches(book, r.id) = {}
        BY <1>0, <1>7, <1>12, <2>2 DEF SaveOutputs
    <2>3. CASE Matches(book, r.id) # {}
        <3> DEFINE u == WithOutputs(c, book, r)
        <3>0. Filled(c, u, book, r)
            BY WithOutputsFacts
        <3> HIDE DEF u
        <3>1. /\ DOMAIN u = DOMAIN book
              /\ \A i \in DOMAIN book :
                    /\ SameBut(u[i], book[i])
                    /\ u[i].out = book[i].out \/ (u[i].out = c /\ book[i].id = r.id)
            BY <3>0 DEF Filled
        <3>2. phase'[c] = "writing" /\ nb'[c] = u
            BY <1>0, <1>12, <2>3 DEF SaveOutputs, u
        <3>3. \A k \in 0..2 : Undealt(c, k)' => Undealt(c, k)
            BY <3>2 DEF Undealt
        <3>4. ASSUME NEW id, NEW m, Stands(id, m)' PROVE Stands(id, m)
            <4>1. InBook(u, id, m) => InBook(book, id, m)
                BY <3>1 DEF InBook, SameBut
            <4> QED
                BY <1>1, <1>2, <1>3, <3>2, <3>4, <4>1, MovedStands
        <3>5. IdInv'
            BY <1>1, <3>3, <3>4, MovedUndealt, SameIds DEF IdentityInv
        <3>6. ExecInv'
            BY <1>1, <2>1, <3>2 DEF IdentityInv, ExecInv, Executing
        <3>7. ASSUME NEW i \in DOMAIN u, u[i].out # None PROVE ran[u[i].out] = u[i].meta
            <4>1. CASE u[i].out = book[i].out
                BY <1>4, <3>1, <3>7, <4>1 DEF SameBut
            <4>2. CASE u[i].out = c /\ book[i].id = r.id
                <5>1. Stands(r.id, ran[c]) /\ r.id # None
                    BY <2>1 DEF Stands, IdentityInv, ExecInv
                <5>2. Stands(r.id, book[i].meta)
                    BY <1>3, <3>1, <4>2 DEF InBook
                <5>3. book[i].meta = ran[c]
                    BY <5>1, <5>2 DEF IdentityInv, IdInv, OneMeta
                <5> QED
                    BY <3>1, <4>2, <5>3 DEF SameBut
            <4> QED
                BY <3>1, <4>1, <4>2
        <3>8. OutputsLandInTheirCell'
            BY <1>6, <2>1, <3>2, <3>7
        <3> QED
            BY <3>5, <3>6, <3>8 DEF IdentityInv
    <2> QED
        BY <2>2, <2>3
<1> QED
    BY <1>8, <1>9, <1>10, <1>11, <1>12 DEF Proceed

\* A call that loads the notebook, and deals the ids some cells lack.
LEMMA LoadIds ==
    ASSUME NotebookInv, IdentityInv, NEW c \in Calls, NEW r, Ready(c, r), NEW nth \in 0..2, Load(c, r, nth),
           \/ phase[c] = "idle" /\ nth = 1
           \/ phase[c] = "running" /\ nth = 2
    PROVE  IdentityInv'
<1> DEFINE book == EnsureIds(c, nth, file)
<1>0. /\ phase \in [Calls -> {"idle", "assigning", "running", "writing", "done", "refused"}]
      /\ request \in [Calls -> Request] /\ nb \in [Calls -> Seq(Cell)] /\ ran \in [Calls -> Names]
      /\ None \notin Seq(Cell)
    BY NotebookAssumption DEF NotebookInv, TypeOK
<1>1. file \in Seq(Cell) /\ file # None /\ file' = file
    BY DEF Load, NotebookInv, TypeOK
<1>2. /\ book \in Seq(Cell) /\ DOMAIN book = DOMAIN file
      /\ \A i \in DOMAIN file : /\ book[i].meta = file[i].meta /\ book[i].out = file[i].out
                                /\ book[i].id # None /\ book[i].id \in {file[i].id, <<c, nth, i>>}
    BY <1>1, EnsureFacts
<1>3. CASE book = file
    <2>1. Proceed(c, r, file)
        BY <1>3 DEF Load
    <2>2. \A i \in DOMAIN file : file[i].id # None
        BY <1>2, <1>3
    <2>3. file' = Normal(file)
        BY <1>1 DEF NotebookInv, StoredInv
    <2> HIDE DEF book
    <2> QED
        BY <1>1, <2>1, <2>2, <2>3, ProceedIds
<1>4. CASE book # file
    <2>1. /\ phase' = [phase EXCEPT ![c] = "assigning"] /\ request' = [request EXCEPT ![c] = r]
          /\ nb' = [nb EXCEPT ![c] = book] /\ ran' = ran
        BY <1>4 DEF Load
    <2> HIDE DEF book
    <2>2. /\ phase'[c] = "assigning" /\ request'[c] = r /\ nb'[c] = book
          /\ \A d \in Calls \ {c} : /\ phase'[d] = phase[d] /\ request'[d] = request[d]
                                    /\ nb'[d] = nb[d] /\ ran'[d] = ran[d]
        BY <1>0, <2>1
    <2>3. /\ phase[c] = "idle" => ran[c] = None
          /\ phase[c] = "running" => ran[c] # None
          /\ ran[c] # None => r = request[c]
        BY DEF NotebookInv, Phases, IdentityInv, ExecInv, Ready
    <2>4. Undealt(c, nth) /\ ~ Undealt(c, nth)'
        BY <2>1, <2>2, <2>3 DEF Undealt
    <2>5. \A k \in 0..2 : Undealt(c, k)' => Undealt(c, k)
        BY <2>1, <2>2, <2>3 DEF Undealt
    <2>6. \A d \in Calls, k \in 0..2 : Undealt(d, k)' => Undealt(d, k)
        BY <2>2, <2>5, MovedUndealt
    <2> DEFINE M == [i \in DOMAIN file |-> file[i].meta]
    <2>7. ASSUME NEW id, NEW m, InBook(book, id, m)
          PROVE  Stands(id, m) \/ \E i \in Nat : id = <<c, nth, i>> /\ m = M[i]
        <3>1. PICK i \in DOMAIN file : book[i].id = id /\ book[i].meta = m
            BY <1>2, <2>7 DEF InBook
        <3>2. i \in Nat /\ M[i] = m
            BY <1>1, <1>2, <3>1, LenProperties
        <3>3. CASE id = file[i].id
            BY <1>1, <1>2, <3>1, <3>3 DEF Stands, InBook
        <3>4. CASE id = <<c, nth, i>>
            BY <3>2, <3>4
        <3> QED
            BY <1>2, <3>1, <3>3, <3>4
    <2> HIDE DEF M
    <2>8. ASSUME NEW id, NEW m, Stands(id, m)'
          PROVE  Stands(id, m) \/ \E i \in Nat : id = <<c, nth, i>> /\ m = M[i]
        <3>1. CASE InBook(file, id, m)
            BY <1>1, <3>1 DEF Stands
        <3>2. CASE InBook(book, id, m)
            BY <2>7, <3>2
        <3>3. CASE ran'[c] # None /\ request'[c].id = id /\ ran'[c] = m
            BY <2>1, <2>2, <2>3, <3>3 DEF Stands, Executing
        <3> QED
            BY <1>1, <2>2, <2>8, <3>1, <3>2, <3>3, MovedStands
    <2>9. IdInv'
        <3>1. \A id, m : Stands(id, m)' => \/ Stands(id, m) \/ id = None
                                           \/ \E i \in Nat : id = <<c, nth, i>> /\ m = M[i]
            BY <2>8
        <3>2. IdInv
            BY DEF IdentityInv
        <3> QED
            BY <2>4, <2>6, <3>1, <3>2, NewIds
    <2>10. ExecInv'
        <3>1. ExecInv
            BY DEF IdentityInv
        <3>2. ran[c] # None => r.tool = "execute" /\ r.id # None
            BY <2>3, <3>1 DEF ExecInv, Executing
        <3>3. \A i \in DOMAIN book : book[i].id # None
            BY <1>2
        <3> QED
            BY <2>1, <2>2, <3>1, <3>2, <3>3 DEF ExecInv, Executing
    <2>11. OutputsLandInTheirCell'
        <3>1. ASSUME NEW i \in DOMAIN file, file[i].out # None PROVE ran[file[i].out] = file[i].meta
            BY <1>1, <3>1 DEF IdentityInv, OutputsLandInTheirCell
        <3>2. ASSUME NEW i \in DOMAIN book, book[i].out # None PROVE ran[book[i].out] = book[i].meta
            BY <1>2, <3>1, <3>2
        <3>3. ASSUME NEW d \in Calls, NEW i \in DOMAIN nb[d], nb[d][i].out # None
              PROVE  ran[nb[d][i].out] = nb[d][i].meta
            <4>1. nb[d] # None
                BY <1>0
            <4> QED
                BY <3>3, <4>1 DEF IdentityInv, OutputsLandInTheirCell
        <3>4. \A d \in Calls : nb'[d] = book \/ nb'[d] = nb[d]
            BY <2>2
        <3> QED
            BY <1>1, <2>1, <3>1, <3>2, <3>3, <3>4 DEF OutputsLandInTheirCell
    <2> QED
        BY <2>9, <2>10, <2>11 DEF IdentityInv
<1> QED
    BY <1>3, <1>4

\* A step of c that makes at most its new cell, and no execution.
LEMMA MadeIds ==
    ASSUME IdentityInv, NEW c \in Calls,
           \A d \in Calls \ {c} : /\ phase'[d] = phase[d] /\ request'[d] = request[d]
                                  /\ nb'[d] = nb[d] /\ ran'[d] = ran[d],
           phase[c] = "idle", phase'[c] \in {"writing", "done"},
           \A id, m : \/ file' # None /\ InBook(file', id, m)
                      \/ InBook(nb'[c], id, m)
                      => Stands(id, m) \/ (id = <<c, 0, 1>> /\ m = c)
    PROVE  IdInv' /\ ExecInv'
<1>1. \A k \in 0..2 : Undealt(c, k)' => Undealt(c, k)
    BY DEF Undealt
<1>2. \A d \in Calls, k \in 0..2 : Undealt(d, k)' => Undealt(d, k)
    BY <1>1, MovedUndealt
<1> DEFINE M == [i \in {1} |-> c]
<1>3. M[1] = c /\ 1 \in Nat
    OBVIOUS
<1> HIDE DEF M
<1>4. \A id, m : Stands(id, m)' => \/ Stands(id, m) \/ id = None
                                   \/ \E i \in Nat : id = <<c, 0, i>> /\ m = M[i]
    <2>1. ASSUME NEW id, NEW m, Stands(id, m)' PROVE Stands(id, m) \/ (id = <<c, 0, 1>> /\ m = c)
        BY <2>1, MovedStands
    <2> QED
        BY <1>3, <2>1
<1>5. IdInv /\ Undealt(c, 0) /\ ~ Undealt(c, 0)' /\ 0 \in 0..2
    BY DEF IdentityInv, Undealt
<1>6. IdInv'
    BY <1>2, <1>4, <1>5, NewIds
<1>7. ExecInv'
    BY DEF IdentityInv, ExecInv, Executing
<1> QED
    BY <1>6, <1>7

\* A step that writes, or adds a cell without reading ids.
LEMMA WriteIds ==
    ASSUME NotebookInv, IdentityInv, NEW c \in Calls, Write(c) \/ AppendCell(c) \/ CreateNotebook(c)
    PROVE  IdentityInv'
<1>0. /\ phase \in [Calls -> {"idle", "assigning", "running", "writing", "done", "refused"}]
      /\ request \in [Calls -> Request] /\ nb \in [Calls -> Seq(Cell)] /\ ran \in [Calls -> Names]
      /\ None \notin Seq(Cell) /\ file \in Seq(Cell) \cup {None}
    BY NotebookAssumption DEF NotebookInv, TypeOK
<1>1. /\ file # None => \A i \in DOMAIN file :
            /\ file[i].out # None => ran[file[i].out] = file[i].meta
            /\ file[i].meta # None /\ file[i].out \in Calls \cup {None}
      /\ \A d \in Calls : \A i \in DOMAIN nb[d] :
            /\ nb[d][i].out # None => ran[nb[d][i].out] = nb[d][i].meta
            /\ nb[d][i].meta # None /\ nb[d][i].out \in Calls \cup {None}
    BY <1>0, OutsOf DEF IdentityInv
<1>2. CASE Write(c)
    <2>1. /\ file' = Normal(nb[c]) /\ phase' = [phase EXCEPT ![c] = "done"] /\ request' = request
          /\ nb' = nb /\ ran' = ran
        BY <1>2 DEF Write, Put
    <2>2. /\ \A id, m : InBook(file', id, m) <=> InBook(nb[c], id, m)
          /\ DOMAIN file' = DOMAIN nb[c]
          /\ \A i \in DOMAIN nb[c] : file'[i].meta = nb[c][i].meta /\ file'[i].out = nb[c][i].out
        <3>1. nb[c] \in Seq(Cell)
            BY <1>0
        <3> QED
            BY <2>1, <3>1, SavedBook
    <2>3. phase'[c] = "done" /\ \A d \in Calls \ {c} : phase'[d] = phase[d]
        BY <1>0, <2>1
    <2>4. \A k \in 0..2 : Undealt(c, k)' => Undealt(c, k)
        BY <2>3 DEF Undealt
    <2>5. \A d \in Calls, k \in 0..2 : Undealt(d, k)' => Undealt(d, k)
        BY <2>1, <2>3, <2>4, MovedUndealt
    <2>6. ASSUME NEW id, NEW m, Stands(id, m)' PROVE Stands(id, m)
        <3>1. InBook(nb[c], id, m) => Stands(id, m)
            BY DEF Stands
        <3> QED
            BY <2>1, <2>2, <2>3, <2>6, <3>1, MovedStands
    <2>7. IdInv'
        BY <2>5, <2>6, SameIds DEF IdentityInv
    <2>8. ExecInv'
        BY <2>1, <2>3 DEF IdentityInv, ExecInv, Executing
    <2>9. OutputsLandInTheirCell'
        <3>1. \A i \in DOMAIN file' : file'[i].out # None => ran[file'[i].out] = file'[i].meta
            BY <1>1, <2>2
        <3> QED
            BY <1>1, <2>1, <3>1 DEF OutputsLandInTheirCell
    <2> QED
        BY <2>7, <2>8, <2>9 DEF IdentityInv
<1>3. CASE AppendCell(c)
    <2>1. /\ phase[c] = "idle" /\ request' = [request EXCEPT ![c] = Plain("append")]
          /\ ran' = [ran EXCEPT ![c] = c] /\ file' = file
        BY <1>3 DEF AppendCell
    <2>2. \/ file = None /\ phase' = [phase EXCEPT ![c] = "done"] /\ nb' = nb
          \/ /\ file # None /\ phase' = [phase EXCEPT ![c] = "writing"]
             /\ nb' = [nb EXCEPT ![c] = Append(file, NewCell(c, c))]
        BY <1>3 DEF AppendCell
    <2>3. ran[c] = None
        BY <2>1 DEF NotebookInv, Phases
    <2>4. /\ \A d \in Calls \ {c} : /\ phase'[d] = phase[d] /\ request'[d] = request[d]
                                    /\ nb'[d] = nb[d] /\ ran'[d] = ran[d]
          /\ phase'[c] \in {"writing", "done"} /\ ran'[c] = c
          /\ nb'[c] = nb[c] \/ (file # None /\ nb'[c] = Append(file, NewCell(c, c)))
        BY <1>0, <2>1, <2>2, NamesFacts
    <2> DEFINE u == Append(file, NewCell(c, c))
    <2>5. ASSUME file # None, NEW k \in DOMAIN u
          PROVE  \/ u[k].id = <<c, 0, 1>> /\ u[k].meta = c /\ u[k].out = c
                 \/ k \in DOMAIN file /\ u[k] = file[k]
        <3>1. file \in Seq(Cell) /\ NewCell(c, c) \in Cell
            BY <1>0, <2>5, NewCellFacts
        <3>2. k \in 1..(Len(file) + 1) /\ DOMAIN file = 1..Len(file) /\ Len(file) \in Nat
            BY <2>5, <3>1, AppendProperties, LenProperties
        <3>3. CASE k = Len(file) + 1
            <4>1. u[k] = NewCell(c, c)
                BY <3>1, <3>3, AppendProperties
            <4> QED
                BY <4>1, NewCellFacts
        <3>4. CASE k \in 1..Len(file)
            BY <3>1, <3>2, <3>4, AppendProperties
        <3> QED
            BY <3>2, <3>3, <3>4
    <2> HIDE DEF u
    <2>6. ASSUME NEW id, NEW m, (file' # None /\ InBook(file', id, m)) \/ InBook(nb'[c], id, m)
          PROVE  Stands(id, m) \/ (id = <<c, 0, 1>> /\ m = c)
        <3>1. CASE (file # None /\ InBook(file, id, m)) \/ InBook(nb[c], id, m)
            BY <3>1 DEF Stands
        <3>2. CASE file # None /\ InBook(u, id, m)
            BY <2>5, <3>2 DEF Stands, InBook
        <3> QED
            BY <2>1, <2>4, <2>6, <3>1, <3>2 DEF u
    <2>7. IdInv' /\ ExecInv'
        BY <2>1, <2>4, <2>6, MadeIds
    <2>8. OutputsLandInTheirCell'
        <3>1. ASSUME NEW o, NEW m, o # None => ran[o] = m, m # None, o \in Calls \cup {None}
              PROVE  o # None => ran'[o] = m
            BY <2>3, <2>4, <3>1
        <3>2. file # None => \A i \in DOMAIN file : file[i].out # None => ran'[file[i].out] = file[i].meta
            BY <1>1, <3>1
        <3>3. \A d \in Calls : \A i \in DOMAIN nb[d] : nb[d][i].out # None => ran'[nb[d][i].out] = nb[d][i].meta
            BY <1>1, <3>1
        <3>4. file # None => \A i \in DOMAIN u : u[i].out # None => ran'[u[i].out] = u[i].meta
            BY <2>4, <2>5, <3>2
        <3>5. \A d \in Calls : nb'[d] = nb[d] \/ (file # None /\ nb'[d] = u)
            BY <2>4 DEF u
        <3> QED
            BY <2>1, <3>2, <3>3, <3>4, <3>5 DEF OutputsLandInTheirCell
    <2> QED
        BY <2>7, <2>8 DEF IdentityInv
<1>4. CASE CreateNotebook(c)
    <2>1. /\ phase[c] = "idle" /\ request' = [request EXCEPT ![c] = Plain("create")]
          /\ file' = Normal(<<NewCell(c, None)>>) /\ phase' = [phase EXCEPT ![c] = "done"]
          /\ nb' = nb /\ ran' = ran
        BY <1>4 DEF CreateNotebook, Put
    <2>2. /\ \A d \in Calls \ {c} : /\ phase'[d] = phase[d] /\ request'[d] = request[d]
                                    /\ nb'[d] = nb[d] /\ ran'[d] = ran[d]
          /\ phase'[c] = "done"
        BY <1>0, <2>1
    <2>3. \A k \in DOMAIN file' : file'[k].id = <<c, 0, 1>> /\ file'[k].meta = c /\ file'[k].out = None
        <3> DEFINE b == <<NewCell(c, None)>>
        <3>1. NewCell(c, None) \in Cell /\ NewCell(c, None).meta = c /\ NewCell(c, None).id = <<c, 0, 1>>
              /\ NewCell(c, None).out = None
            BY NewCellFacts
        <3>2. b \in Seq(Cell) /\ DOMAIN b = {1} /\ b[1] = NewCell(c, None)
            BY <3>1
        <3> HIDE DEF b
        <3>3. DOMAIN Normal(b) = {1} /\ SameBut(Normal(b)[1], b[1]) /\ Normal(b)[1].out = b[1].out
            BY <3>2, NormalFacts
        <3>4. file' = Normal(b)
            BY <2>1 DEF b
        <3> QED
            BY <3>1, <3>2, <3>3, <3>4 DEF SameBut
    <2>4. ASSUME NEW id, NEW m, (file' # None /\ InBook(file', id, m)) \/ InBook(nb'[c], id, m)
          PROVE  Stands(id, m) \/ (id = <<c, 0, 1>> /\ m = c)
        <3>1. CASE InBook(nb[c], id, m)
            BY <3>1 DEF Stands
        <3>2. CASE InBook(file', id, m)
            BY <2>3, <3>2 DEF InBook
        <3> QED
            BY <2>1, <2>4, <3>1, <3>2
    <2>5. IdInv' /\ ExecInv'
        BY <2>1, <2>2, <2>4, MadeIds
    <2>6. OutputsLandInTheirCell'
        BY <1>1, <2>1, <2>3 DEF OutputsLandInTheirCell
    <2> QED
        BY <2>5, <2>6 DEF IdentityInv
<1> QED
    BY <1>2, <1>3, <1>4

LEMMA InitIdentity ==
    ASSUME OneIdOneCell, Init
    PROVE  IdentityInv
<1>1. ASSUME NEW id, NEW m, Stands(id, m) PROVE file # None /\ InBook(file, id, m)
    BY <1>1 DEF Init, Stands, Executing, InBook
<1>2. OneMeta
    <2>1. ASSUME NEW id, NEW m, NEW o, id # None, Stands(id, m), Stands(id, o) PROVE m = o
        <3>1. file \in Books \ {None} /\ InBook(file, id, m) /\ InBook(file, id, o)
            BY <1>1, <2>1 DEF Init
        <3> QED
            BY <2>1, <3>1 DEF InBook, OneIdOneCell
    <2> QED
        BY <2>1 DEF OneMeta
<1>3. FreshInv
    <2>1. ASSUME NEW c \in Calls, NEW n \in 0..2, NEW i \in Nat, NEW m, Stands(<<c, n, i>>, m) PROVE FALSE
        <3>1. file \in Books \ {None} /\ InBook(file, <<c, n, i>>, m)
            BY <1>1, <2>1 DEF Init
        <3>2. PICK k \in DOMAIN file : file[k].id = <<c, n, i>>
            BY <3>1 DEF InBook
        <3>3. <<c, n, i>> # None
            BY NotebookAssumption DEF Dealt
        <3>4. file[k].id[1] = Human
            BY <3>1, <3>2, <3>3, BooksAssumption
        <3> QED
            BY <3>2, <3>4, NotebookAssumption
    <2> QED
        BY <2>1 DEF FreshInv
<1>4. ExecInv
    BY DEF Init, ExecInv, Executing
<1>5. OutputsLandInTheirCell
    <2>1. file # None => \A i \in DOMAIN file : file[i].out = None
        BY BooksAssumption DEF Init
    <2>2. \A c \in Calls : nb[c] = <<>>
        BY DEF Init
    <2> QED
        BY <2>1, <2>2 DEF OutputsLandInTheirCell
<1> QED
    BY <1>2, <1>3, <1>4, <1>5 DEF IdentityInv, IdInv

LEMMA IdentityStep ==
    ASSUME NotebookInv, IdentityInv, [Next]_vars
    PROVE  IdentityInv'
<1>1. ASSUME NEW c \in Calls, Start(c) PROVE IdentityInv'
    <2>1. PICK r \in Requests : Load(c, r, 1)
        BY <1>1 DEF Start
    <2>2. Ready(c, r) /\ phase[c] = "idle"
        BY <1>1, RequestFacts DEF Ready, Start, NotebookInv, Phases
    <2> QED
        BY <2>1, <2>2, LoadIds
<1>2. ASSUME NEW c \in Calls, PersistIds(c) PROVE IdentityInv'
    <2>1. Ready(c, request[c]) /\ nb[c] \in Seq(Cell)
        BY <1>2 DEF PersistIds, Ready, NotebookInv, Phases, TypeOK
    <2>2. Proceed(c, request[c], nb[c]) /\ file' = Normal(nb[c]) /\ \A i \in DOMAIN nb[c] : nb[c][i].id # None
        BY <1>2 DEF PersistIds, IdentityInv, ExecInv
    <2> QED
        BY <2>1, <2>2, ProceedIds
<1>3. ASSUME NEW c \in Calls, Reread(c) PROVE IdentityInv'
    <2>1. Ready(c, request[c]) /\ phase[c] = "running"
        BY <1>3 DEF Reread, Ready, NotebookInv, Phases, TypeOK
    <2> QED
        BY <1>3, <2>1, LoadIds DEF Reread
<1>4. CASE HumanSaves
    <2>0. file # None /\ UNCHANGED <<phase, request, nb, view, ran>>
        BY <1>4, Zenon DEF HumanSaves
    <2>1. file \in Seq(Cell) /\ file # None /\ UNCHANGED <<phase, request, nb, view, ran>>
        BY <2>0 DEF NotebookInv, TypeOK
    <2>2. \A k \in DOMAIN file' :
              \/ file'[k].id = None /\ file'[k].out = None
              \/ \E j \in DOMAIN file : SameBut(file'[k], file[j]) /\ file'[k].out = file[j].out
        BY <1>4, <2>1, SavedFacts
    <2>3. ASSUME NEW id, NEW m, Stands(id, m)' PROVE Stands(id, m) \/ id = None
        <3>1. CASE InBook(file', id, m)
            BY <2>1, <2>2, <3>1 DEF InBook, SameBut, Stands
        <3>2. CASE \E c \in Calls : InBook(nb[c], id, m)
            BY <3>2 DEF Stands
        <3>3. CASE \E c \in Calls : Executing(c) /\ request[c].id = id /\ ran[c] = m
            BY <3>3 DEF Stands
        <3> QED
            BY <2>1, <2>3, <3>1, <3>2, <3>3 DEF Stands, InBook, Executing
    <2>4. \A d \in Calls, k \in 0..2 : Undealt(d, k)' => Undealt(d, k)
        BY <2>1 DEF Undealt
    <2>5. IdInv'
        BY <2>3, <2>4, SameIds DEF IdentityInv
    <2>6. ExecInv'
        BY <2>1 DEF IdentityInv, ExecInv, Executing
    <2>7. \A k \in DOMAIN file' : file'[k].out # None => ran[file'[k].out] = file'[k].meta
        BY <2>1, <2>2 DEF IdentityInv, OutputsLandInTheirCell, SameBut
    <2>8. OutputsLandInTheirCell'
        BY <2>1, <2>7 DEF IdentityInv, OutputsLandInTheirCell
    <2> QED
        BY <2>5, <2>6, <2>8 DEF IdentityInv
<1>5. CASE UNCHANGED vars
    <2>1. UNCHANGED <<file, phase, request, nb, ran>>
        BY <1>5 DEF vars
    <2>2. /\ \A d \in Calls, k \in 0..2 : Undealt(d, k)' => Undealt(d, k)
          /\ \A id, m : Stands(id, m)' => Stands(id, m)
        BY <2>1 DEF Undealt, Stands, InBook, Executing
    <2>3. IdInv'
        BY <2>2, SameIds DEF IdentityInv
    <2>4. ExecInv' /\ OutputsLandInTheirCell'
        BY <2>1 DEF IdentityInv, ExecInv, Executing, OutputsLandInTheirCell
    <2> QED
        BY <2>3, <2>4 DEF IdentityInv
<1> QED
    BY <1>1, <1>2, <1>3, <1>4, <1>5, WriteIds DEF Next
-----------------------------------------------------------------------------
(* The theorems.                                                           *)

\* A call's PUT is the step that ends its writing.
LEMMA OnlyWriteWrites ==
    ASSUME NotebookInv, [Next]_vars, NEW c \in Calls, Writes(c)
    PROVE  Write(c)
<1>0. phase \in [Calls -> {"idle", "assigning", "running", "writing", "done", "refused"}] /\ phase'[c] # phase[c]
      /\ phase[c] = "writing"
    BY DEF NotebookInv, TypeOK, Writes
<1>1. ASSUME NEW d \in Calls, phase[d] # "writing" PROVE ~ \E q : phase' = [phase EXCEPT ![d] = q]
    BY <1>0, <1>1
<1>2. ASSUME NEW d \in Calls, phase[d] # "writing", NEW r, NEW book PROVE ~ Proceed(d, r, book)
    BY <1>0, <1>1, <1>2 DEF Proceed, Answer, Refuse, Edit, RunCell, SaveOutputs
<1>3. ASSUME NEW d \in Calls, phase[d] # "writing", NEW r, NEW nth PROVE ~ Load(d, r, nth)
    BY <1>1, <1>2, <1>3 DEF Load
<1>4. ASSUME NEW d \in Calls, Start(d) \/ PersistIds(d) \/ Reread(d) PROVE FALSE
    BY <1>2, <1>3, <1>4 DEF Start, PersistIds, Reread
<1>5. ASSUME NEW d \in Calls, AppendCell(d) \/ CreateNotebook(d) PROVE FALSE
    BY <1>1, <1>5 DEF AppendCell, CreateNotebook
<1>6. ASSUME NEW d \in Calls, Write(d) PROVE Write(c)
    BY <1>0, <1>6 DEF Write
<1>7. ~ HumanSaves /\ ~ UNCHANGED vars
    BY <1>0 DEF HumanSaves, vars
<1> QED
    BY <1>4, <1>5, <1>6, <1>7 DEF Next

\* Until somebody writes, the notebook a read tool answered with is the file but
\* for the form the Contents API stores it in, and the file itself if the call
\* dealt no id (notebook.py:104-112, 127); and every notebook stays a sequence of
\* cells: whatever the calls, their number and the notebook they start from.
THEOREM IssuedRevs == Spec => []IssuedRevDescribesFile
<1>1. Init => NotebookInv
    BY InitNotebook
<1>2. NotebookInv /\ [Next]_vars => NotebookInv'
    BY NotebookStep
<1>3. NotebookInv => IssuedRevDescribesFile
    <2> SUFFICES ASSUME NotebookInv, NEW c \in current, view[c] # None
                 PROVE  /\ Normal(view[c]) = file
                        /\ (\A i \in DOMAIN view[c] : view[c][i].id \notin Own(c)) => view[c] = file
        BY DEF NotebookInv, IssuedRevDescribesFile
    <2>1. Normal(view[c]) = file /\ Dealing(c, view[c]) /\ view[c] \in Seq(Cell)
        BY DEF NotebookInv, CurrentInv, Unraced, TypeOK
    <2>2. (\A i \in DOMAIN view[c] : view[c][i].id \notin Own(c)) => Normal(view[c]) = view[c]
        BY <2>1, StoredBook DEF Dealing
    <2> QED
        BY <2>1, <2>2
<1> QED
    BY <1>1, <1>2, <1>3, PTL DEF Spec

\* A PUT under expected_rev that nobody overtook overwrites that revision, in the
\* form it is stored in (notebook.py:5-6, _check_rev).
THEOREM GuardedWrites == Spec => GuardedWriteOverwritesItsRev
<1>1. Init => NotebookInv
    BY InitNotebook
<1>2. NotebookInv /\ [Next]_vars => NotebookInv'
    BY NotebookStep
<1>3. ASSUME NotebookInv, NEW c \in Calls, WritesUnraced(c), Guarded(c)
      PROVE  file = Normal(request[c].rev)
    <2>1. Unraced(c) /\ phase[c] = "writing" /\ request[c].tool \in Editing /\ request[c].rev # None
        BY <1>3 DEF NotebookInv, Phases, CurrentInv, WritesUnraced, Writes, Guarded
    <2>2. PICK book \in Seq(Cell) : Normal(book) = file /\ Accepted(book, request[c])
        BY <2>1 DEF Unraced
    <2>3. book = request[c].rev
        BY <2>1, <2>2 DEF Accepted, RevMatches
    <2> QED
        BY <2>2, <2>3
<1>4. NotebookInv /\ [Next]_vars
        => [\A c \in Calls : WritesUnraced(c) /\ Guarded(c) => file = Normal(request[c].rev)]_vars
    BY <1>3
<1> QED
    BY <1>1, <1>2, <1>4, PTL DEF Spec, GuardedWriteOverwritesItsRev

\* A PUT that nobody overtook keeps what it is not about: the outputs when a
\* source was edited (notebook.py:211, 233), the sources when outputs were saved
\* (notebook.py:307).
THEOREM WritesKeepTheRest == Spec => WriteKeepsTheRest
<1> DEFINE Keeps(c) == /\ ResourcesACell(c) => Outputs(file') = Outputs(file)
                       /\ request[c].tool = "execute" => Sources(file') = Sources(file)
<1>1. Init => NotebookInv
    BY InitNotebook
<1>2. NotebookInv /\ [Next]_vars => NotebookInv'
    BY NotebookStep
<1>3. ASSUME NotebookInv, [Next]_vars, NEW c \in Calls, WritesUnraced(c) PROVE Keeps(c)
    <2>1. file' = Normal(nb[c]) /\ phase[c] = "writing" /\ Unraced(c)
        BY <1>3, OnlyWriteWrites DEF Write, Put, WritesUnraced, NotebookInv, CurrentInv
    <2>2. request[c] \in Request
        BY <1>3, <2>1 DEF NotebookInv, TypeOK
    <2>3. ASSUME NEW b \in Seq(Cell) PROVE Outputs(Normal(b)) = Outputs(b) /\ Sources(Normal(b)) = Sources(b)
        <3> DEFINE v == Normal(b)
        <3>1. DOMAIN v = DOMAIN b /\ \A k \in DOMAIN b : SameBut(v[k], b[k]) /\ v[k].src = b[k].src /\ v[k].out = b[k].out
            BY NormalFacts
        <3> HIDE DEF v
        <3>2. Outputs(v) = Outputs(b)
            BY <3>1 DEF Outputs, ToSet, SameBut
        <3>3. Sources(v) = Sources(b)
            BY <3>1 DEF Sources, SameBut
        <3> QED
            BY <3>2, <3>3 DEF v
    <2>4. CASE ResourcesACell(c)
        <3>1. request[c].tool \in {"patch", "edit"} /\ request[c].tool \in Editing
            BY <2>4 DEF ResourcesACell, Editing
        <3>2. PICK book \in Seq(Cell) :
                  Normal(book) = file /\ Accepted(book, request[c]) /\ nb[c] = Edited(c, book, request[c])
            BY <2>1, <3>1 DEF Unraced
        <3> DEFINE u == Edited(c, book, request[c])
        <3>3. /\ DOMAIN u = DOMAIN book /\ u \in Seq(Cell)
              /\ \A k \in DOMAIN book : SameBut(u[k], book[k]) /\ u[k].out = book[k].out
            BY <2>2, <3>1, <3>2, EditedFacts DEF Descends
        <3>4. file' = Normal(u)
            BY <2>1, <3>2
        <3> HIDE DEF u
        <3>5. Outputs(u) = Outputs(book)
            BY <3>3 DEF Outputs, ToSet, SameBut
        <3>6. Outputs(file') = Outputs(file)
            <4>1. Outputs(Normal(u)) = Outputs(u) /\ Outputs(Normal(book)) = Outputs(book)
                BY <2>3, <3>3
            <4> QED
                BY <3>2, <3>4, <3>5, <4>1
        <3>7. request[c].tool # "execute"
            BY <3>1
        <3> QED
            BY <3>6, <3>7
    <2>5. CASE request[c].tool = "execute"
        <3>1. PICK book \in Seq(Cell) : Normal(book) = file /\ nb[c] = WithOutputs(c, book, request[c])
            BY <2>1, <2>5 DEF Unraced
        <3> DEFINE u == WithOutputs(c, book, request[c])
        <3>2. Filled(c, u, book, request[c])
            BY WithOutputsFacts
        <3>3. file' = Normal(u)
            BY <2>1, <3>1
        <3> HIDE DEF u
        <3>4. Sources(u) = Sources(book) /\ u \in Seq(Cell)
            BY <3>2 DEF Filled, Sources, SameBut
        <3>5. Sources(file') = Sources(file)
            <4>1. Sources(Normal(u)) = Sources(u) /\ Sources(Normal(book)) = Sources(book)
                BY <2>3, <3>4
            <4> QED
                BY <3>1, <3>3, <3>4, <4>1
        <3>6. ~ ResourcesACell(c)
            BY <2>5 DEF ResourcesACell
        <3> QED
            BY <3>5, <3>6
    <2> QED
        BY <2>4, <2>5
<1>4. NotebookInv /\ [Next]_vars => [\A c \in Calls : WritesUnraced(c) => Keeps(c)]_vars
    BY <1>3
<1> QED
    BY <1>1, <1>2, <1>4, PTL DEF Spec, WriteKeepsTheRest

\* The outputs of an execution are only ever in the cell whose source was sent to
\* the kernel, in the file and in every call's copy, however the calls and the
\* person interleave (notebook.py:307): execute_cell finds the cell again by an
\* id, and an id stands for one cell if it did in the notebook at first.
THEOREM OutputsReachTheirCell ==
    ASSUME OneIdOneCell
    PROVE  Spec => []OutputsLandInTheirCell
<1>1. Init => NotebookInv /\ IdentityInv
    BY InitNotebook, InitIdentity
<1>2. NotebookInv /\ IdentityInv /\ [Next]_vars => NotebookInv' /\ IdentityInv'
    BY NotebookStep, IdentityStep
<1>3. IdentityInv => OutputsLandInTheirCell
    BY DEF IdentityInv
<1> QED
    BY <1>1, <1>2, <1>3, PTL DEF Spec
=============================================================================
