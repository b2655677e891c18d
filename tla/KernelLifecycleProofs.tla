---- MODULE KernelLifecycleProofs ----
(***************************************************************************)
(* Proofs about local kernels, for any kernels, calls and cap.             *)
(***************************************************************************)
EXTENDS KernelLifecycle, SequenceTheorems, FiniteSetTheorems, TLAPS

(***************************************************************************)
(* The inductive invariant.  A coroutine acts on rows that may be stale;   *)
(* what stays true of them is that their kernels once existed, so that one *)
(* that is not alive can never come back.                                  *)
(***************************************************************************)
Existed(k) == jup[k] # "none"

\* What a coroutine is about to delete existed, what it deleted is gone.
Acts(a) ==
  /\ \A k \in RowIds(a) : Existed(k)
  /\ cmd[a].pc \in {"delete", "deleted"} => cmd[a].on \in Kernels /\ Existed(cmd[a].on)
  /\ cmd[a].pc = "deleted" => jup[cmd[a].on] = "gone"
  /\ cmd[a].pc \in {"posted", "run", "running"} \/ (cmd[a].op = "exec" /\ cmd[a].pc # "done")
       => cmd[a].on \in Kernels
  /\ cmd[a].pc = "loop" => cmd[a].op = "reap"

\* What a start_kernel knows when nothing was created behind its list.
Room(t) ==
  /\ cmd[t].pc \in {"fetched", "delete", "deleted", "post"} => Alive \subseteq RowIds(t)
  /\ cmd[t].pc \in {"delete", "deleted"} => cmd[t].on \in RowIds(t)
  /\ cmd[t].pc = "post" => Len(cmd[t].rows) < MaxKernels \/ \E v \in RowIds(t) : v \notin Alive

StartsHaveRoom == \A t \in Tasks : cmd[t].op = "start" /\ t \notin raced => Room(t)

KernelInv == TypeOK /\ (\A a \in Agents : Acts(a)) /\ StartsHaveRoom

----
(* The types. *)

Points == {"idle", "fetch", "fetched", "loop", "delete", "deleted", "post", "posted", "run",
           "running", "done"}

\* Coroutine a is at pc now, and the others are where they were.
Becomes(a, op, on, pc, rows) ==
  /\ cmd' \in [Agents -> Coroutine]
  /\ \A b \in Agents \ {a} : cmd'[b] = cmd[b]
  /\ cmd'[a].op = op /\ cmd'[a].on = on /\ cmd'[a].pc = pc /\ cmd'[a].rows = rows

\* A coroutine that moves on, or ends, is one.
LEMMA MovesOn ==
  ASSUME NEW q \in Coroutine, NEW k \in Kernels \cup {Nothing}, NEW rows \in Seq(Row),
         NEW pc \in Points, NEW op \in {"none", "reap"} \cup ToolKinds
  PROVE  /\ [q EXCEPT !.pc = pc] \in Coroutine
         /\ [q EXCEPT !.on = k, !.pc = pc] \in Coroutine
         /\ [q EXCEPT !.pc = pc, !.rows = rows] \in Coroutine
         /\ [q EXCEPT !.rows = rows, !.on = k, !.pc = pc] \in Coroutine
         /\ [Idle EXCEPT !.op = op, !.on = k, !.pc = pc] \in Coroutine
         /\ [Idle EXCEPT !.op = op, !.pc = pc] \in Coroutine
         /\ Idle \in Coroutine
<1>1. <<>> \in Seq(Row)
  OBVIOUS
<1>2. Idle \in Coroutine
  BY <1>1 DEF Idle, Coroutine, Points
<1>3. /\ [q EXCEPT !.pc = pc] \in Coroutine
      /\ [q EXCEPT !.on = k, !.pc = pc] \in Coroutine
  BY DEF Coroutine, Points
<1>4. /\ [q EXCEPT !.pc = pc, !.rows = rows] \in Coroutine
      /\ [q EXCEPT !.rows = rows, !.on = k, !.pc = pc] \in Coroutine
  BY DEF Coroutine, Points
<1>5. /\ [Idle EXCEPT !.op = op, !.on = k, !.pc = pc] \in Coroutine
      /\ [Idle EXCEPT !.op = op, !.pc = pc] \in Coroutine
  <2> DEFINE e == Idle
  <2>1. e \in Coroutine BY <1>2
  <2> HIDE DEF e
  <2>2. [e EXCEPT !.op = op, !.on = k, !.pc = pc] \in Coroutine
    BY <2>1 DEF Coroutine, Points
  <2>3. [e EXCEPT !.op = op, !.pc = pc] \in Coroutine
    BY <2>1 DEF Coroutine, Points
  <2>4. QED BY <2>2, <2>3 DEF e
<1>6. QED
  BY <1>2, <1>3, <1>4, <1>5

\* The server's list loses the kernel that was shut down.
LEMMA RemovedOne ==
  ASSUME NEW s \in Seq(Kernels), IsInjective(s), NEW i \in DOMAIN s
  PROVE  /\ RemoveAt(s, i) \in Seq(Kernels)
         /\ Range(RemoveAt(s, i)) = Range(s) \ {s[i]}
         /\ IsInjective(RemoveAt(s, i))
<1> DEFINE front == SubSeq(s, 1, i - 1)
           rear == SubSeq(s, i + 1, Len(s))
           r == RemoveAt(s, i)
<1>1. i \in 1..Len(s) /\ Len(s) \in Nat
  OBVIOUS
<1>2. /\ front \in Seq(Kernels) /\ Len(front) = i - 1
      /\ \A j \in 1..(i - 1) : front[j] = s[j]
  BY <1>1
<1>3. /\ rear \in Seq(Kernels) /\ Len(rear) = Len(s) - i
      /\ \A j \in 1..(Len(s) - i) : rear[j] = s[i + j]
  BY <1>1
<1>4. r = front \o rear
  BY DEF RemoveAt
<1> HIDE DEF front, rear, r
<1>5. r \in Seq(Kernels) /\ Len(r) = Len(s) - 1
  BY <1>1, <1>2, <1>3, <1>4
<1>6. \A j \in 1..(Len(s) - 1) : r[j] = IF j < i THEN s[j] ELSE s[j + 1]
  <2> TAKE j \in 1..(Len(s) - 1)
  <2>1. CASE j < i BY <1>1, <1>2, <1>3, <1>4, <2>1
  <2>2. CASE ~(j < i)
    <3>1. r[j] = rear[j - (i - 1)]
      <4>1. j \in 1..(Len(front) + Len(rear)) /\ ~(j <= Len(front)) BY <1>1, <1>2, <1>3, <2>2
      <4>2. r[j] = rear[j - Len(front)] BY <1>2, <1>3, <1>4, <4>1, ConcatProperties
      <4>3. QED BY <1>2, <4>2
    <3>2. j - (i - 1) \in 1..(Len(s) - i) BY <1>1, <2>2
    <3>3. rear[j - (i - 1)] = s[i + (j - (i - 1))] BY <1>3, <3>2
    <3>4. i + (j - (i - 1)) = j + 1 BY <1>1
    <3>5. QED BY <2>2, <3>1, <3>3, <3>4
  <2>3. QED BY <2>1, <2>2
<1>7. DOMAIN r = 1..(Len(s) - 1) /\ DOMAIN s = 1..Len(s)
  BY <1>5
<1>8. IsInjective(r)
  BY <1>1, <1>6, <1>7 DEF IsInjective
<1>9. Range(r) = Range(s) \ {s[i]}
  <2>1. ASSUME NEW k \in Range(r) PROVE k \in Range(s) /\ k # s[i]
    <3>1. PICK j \in 1..(Len(s) - 1) : k = r[j] BY <1>7 DEF Range
    <3>2. CASE j < i BY <1>1, <1>6, <1>7, <3>1, <3>2 DEF Range, IsInjective
    <3>3. CASE ~(j < i) BY <1>1, <1>6, <1>7, <3>1, <3>3 DEF Range, IsInjective
    <3>4. QED BY <3>2, <3>3
  <2>2. ASSUME NEW k \in Range(s), k # s[i] PROVE k \in Range(r)
    <3>1. PICK j \in 1..Len(s) : k = s[j] BY <1>7 DEF Range
    <3>2. CASE j < i
      <4>1. j \in 1..(Len(s) - 1) /\ r[j] = k BY <1>1, <1>6, <3>1, <3>2
      <4>2. QED BY <1>7, <4>1 DEF Range
    <3>3. CASE j > i
      <4>1. j - 1 \in 1..(Len(s) - 1) /\ ~(j - 1 < i) /\ (j - 1) + 1 = j BY <1>1, <3>1, <3>3
      <4>2. r[j - 1] = k BY <1>6, <3>1, <4>1
      <4>3. QED BY <1>7, <4>1, <4>2 DEF Range
    <3>4. QED BY <1>1, <2>2, <3>1, <3>2, <3>3
  <2>3. QED BY <2>1, <2>2
<1>10. QED BY <1>5, <1>8, <1>9 DEF r

\* The server's three variables after a kernel was shut down.
LEMMA ShutFacts ==
  ASSUME TypeOK, NEW k \in Kernels, Shut(k)
  PROVE  /\ jup' \in [Kernels -> {"none", "idle", "busy", "gone"}]
         /\ created' \in Seq(Kernels) /\ Range(created') = Alive' /\ IsInjective(created')
         /\ quiet' \subseteq Alive'
         /\ Alive' = Alive \ {k}
         /\ jup'[k] = "gone" /\ \A j \in Kernels \ {k} : jup'[j] = jup[j]
<1>1. /\ jup' \in [Kernels -> {"none", "idle", "busy", "gone"}]
      /\ jup'[k] = "gone" /\ \A j \in Kernels \ {k} : jup'[j] = jup[j]
  BY DEF Shut, TypeOK
<1>2. Alive' = Alive \ {k}
  BY <1>1 DEF Alive
<1>3. quiet' \subseteq Alive'
  BY <1>2 DEF Shut, TypeOK
<1>4. CASE k \notin Alive /\ UNCHANGED created
  BY <1>1, <1>2, <1>3, <1>4 DEF TypeOK
<1>5. ASSUME NEW i \in DOMAIN created, created[i] = k, created' = RemoveAt(created, i)
      PROVE  created' \in Seq(Kernels) /\ Range(created') = Alive' /\ IsInjective(created')
  BY <1>2, <1>5, RemovedOne DEF TypeOK
<1>6. QED
  BY <1>1, <1>2, <1>3, <1>4, <1>5 DEF Shut

\* The same after one was created.
LEMMA CreateFacts ==
  ASSUME TypeOK, NEW k \in Kernels, Create(k)
  PROVE  /\ jup' \in [Kernels -> {"none", "idle", "busy", "gone"}]
         /\ created' \in Seq(Kernels) /\ Range(created') = Alive' /\ IsInjective(created')
         /\ quiet' \subseteq Alive'
         /\ Alive' = Alive \cup {k} /\ k \notin Alive
         /\ jup'[k] = "idle" /\ \A j \in Kernels \ {k} : jup'[j] = jup[j]
<1>1. /\ jup' \in [Kernels -> {"none", "idle", "busy", "gone"}] /\ jup[k] = "none"
      /\ jup'[k] = "idle" /\ \A j \in Kernels \ {k} : jup'[j] = jup[j]
  BY DEF Create, TypeOK
<1>2. Alive' = Alive \cup {k} /\ k \notin Alive
  BY <1>1 DEF Alive
<1>3. /\ created' \in Seq(Kernels) /\ Len(created') = Len(created) + 1
      /\ created'[Len(created) + 1] = k
      /\ \A i \in 1..Len(created) : created'[i] = created[i]
  BY DEF Create, TypeOK
<1>4. Len(created) \in Nat /\ DOMAIN created = 1..Len(created)
      /\ DOMAIN created' = 1..(Len(created) + 1)
  BY <1>3 DEF TypeOK
<1>5. \A i \in 1..Len(created) : created[i] \in Alive
  BY <1>4 DEF TypeOK, Range
<1>6. IsInjective(created')
  BY <1>2, <1>3, <1>4, <1>5 DEF IsInjective, TypeOK
<1>7. Range(created') = Range(created) \cup {k}
  <2>1. ASSUME NEW j \in Range(created') PROVE j \in Range(created) \cup {k}
    <3>1. PICK i \in 1..(Len(created) + 1) : j = created'[i] BY <1>4 DEF Range
    <3>2. i \in 1..Len(created) \/ i = Len(created) + 1 BY <1>4
    <3>3. QED BY <1>3, <1>4, <3>1, <3>2 DEF Range
  <2>2. ASSUME NEW j \in Range(created) PROVE j \in Range(created')
    <3>1. PICK i \in 1..Len(created) : j = created[i] BY <1>4 DEF Range
    <3>2. i \in 1..(Len(created) + 1) /\ created'[i] = j BY <1>3, <1>4, <3>1
    <3>3. QED BY <1>4, <3>2 DEF Range
  <2>3. Len(created) + 1 \in 1..(Len(created) + 1) BY <1>4
  <2>4. k \in Range(created') BY <1>3, <1>4, <2>3 DEF Range
  <2>5. QED BY <2>1, <2>2, <2>4
<1>8. quiet' \subseteq Alive'
  BY <1>2 DEF Create, TypeOK
<1>9. QED
  BY <1>1, <1>2, <1>3, <1>6, <1>7, <1>8 DEF TypeOK

\* Where a coroutine is after each way to move on.
LEMMA CoroutineFacts ==
  ASSUME TypeOK, NEW a \in Agents, NEW k \in Kernels \cup {Nothing}, NEW pc \in Points,
         NEW op \in {"none", "reap"} \cup ToolKinds
  PROVE  /\ Goto(a, pc) => Becomes(a, cmd[a].op, cmd[a].on, pc, cmd[a].rows)
         /\ Target(a, k, pc) => Becomes(a, cmd[a].op, k, pc, cmd[a].rows)
         /\ End(a) => Becomes(a, cmd[a].op, Nothing, "done", <<>>)
         /\ Call(a, op, k, pc) => Becomes(a, op, k, pc, <<>>)
         /\ cmd' = [cmd EXCEPT ![a] = Idle] => Becomes(a, "none", Nothing, "idle", <<>>)
<1>1. cmd \in [Agents -> Coroutine] /\ cmd[a] \in Coroutine
  BY DEF TypeOK
<1>2. cmd[a].op \in {"none", "reap"} \cup ToolKinds /\ "done" \in Points
  BY <1>1 DEF Coroutine, Points
<1>3. cmd[a].rows \in Seq(Row)
  BY <1>1 DEF Coroutine
<1>4. ASSUME Goto(a, pc) PROVE Becomes(a, cmd[a].op, cmd[a].on, pc, cmd[a].rows)
  <2>1. [cmd[a] EXCEPT !.pc = pc] \in Coroutine
    BY <1>1, <1>2, <1>3, MovesOn
  <2>2. QED BY <1>1, <1>4, <2>1 DEF Goto, Becomes, Coroutine
<1>5. ASSUME Target(a, k, pc) PROVE Becomes(a, cmd[a].op, k, pc, cmd[a].rows)
  <2>1. [cmd[a] EXCEPT !.on = k, !.pc = pc] \in Coroutine
    BY <1>1, <1>2, <1>3, MovesOn
  <2>2. QED BY <1>1, <1>5, <2>1 DEF Target, Becomes, Coroutine
<1>6. ASSUME End(a) PROVE Becomes(a, cmd[a].op, Nothing, "done", <<>>)
  <2>1. [Idle EXCEPT !.op = cmd[a].op, !.pc = "done"] \in Coroutine
    BY <1>1, <1>2, <1>3, MovesOn
  <2>2. QED BY <1>1, <1>6, <2>1 DEF End, Becomes, Idle
<1>7. ASSUME Call(a, op, k, pc) PROVE Becomes(a, op, k, pc, <<>>)
  <2>1. [Idle EXCEPT !.op = op, !.on = k, !.pc = pc] \in Coroutine
    BY <1>1, <1>2, <1>3, MovesOn
  <2>2. QED BY <1>1, <1>7, <2>1 DEF Call, Becomes, Idle
<1>8. ASSUME cmd' = [cmd EXCEPT ![a] = Idle] PROVE Becomes(a, "none", Nothing, "idle", <<>>)
  <2>1. Idle \in Coroutine
    BY <1>1, <1>2, <1>3, MovesOn
  <2>2. QED BY <1>1, <1>8, <2>1 DEF Becomes, Idle
<1>9. QED
  BY <1>4, <1>5, <1>6, <1>7, <1>8

\* A list shows the kernels that live when the server makes it.
LEMMA FetchFacts ==
  ASSUME TypeOK, NEW a \in Agents, Fetch(a)
  PROVE  /\ Becomes(a, cmd[a].op, cmd[a].on, "fetched", cmd'[a].rows)
         /\ cmd'[a].rows \in Seq(Row)
         /\ RowIds(a)' = Alive
<1> DEFINE list == [i \in DOMAIN created |-> [id |-> created[i], idle |-> jup[created[i]] = "idle",
                                             quiet |-> created[i] \in quiet]]
<1>1. created \in Seq(Kernels) /\ Range(created) = Alive /\ cmd[a] \in Coroutine
  BY DEF TypeOK
<1>2. list \in Seq(Row)
  <2>1. DOMAIN created = 1..Len(created) /\ Len(created) \in Nat
    BY <1>1
  <2>2. \A i \in 1..Len(created) : created[i] \in Kernels
    BY <1>1
  <2>3. list \in [1..Len(created) -> Row]
    BY <2>1, <2>2 DEF Row
  <2>4. QED
    <3> HIDE DEF list
    <3> QED BY <2>1, <2>3
<1>3. [cmd[a] EXCEPT !.pc = "fetched", !.rows = list] \in Coroutine
  <2> HIDE DEF list
  <2> QED BY <1>1, <1>2 DEF Coroutine
<1>4. cmd' = [cmd EXCEPT ![a] = [cmd[a] EXCEPT !.pc = "fetched", !.rows = list]]
  BY DEF Fetch
<1>5. cmd'[a] = [cmd[a] EXCEPT !.pc = "fetched", !.rows = list]
  BY <1>4 DEF TypeOK
<1>6. cmd'[a].rows = list /\ cmd'[a].op = cmd[a].op /\ cmd'[a].on = cmd[a].on
      /\ cmd'[a].pc = "fetched"
  <2> HIDE DEF list
  <2> QED BY <1>1, <1>5 DEF Coroutine
<1>7. Becomes(a, cmd[a].op, cmd[a].on, "fetched", cmd'[a].rows)
  <2> DEFINE q == [cmd[a] EXCEPT !.pc = "fetched", !.rows = list]
  <2>1. q \in Coroutine /\ cmd' = [cmd EXCEPT ![a] = q]
    BY <1>3, <1>4
  <2> HIDE DEF list, q
  <2>2. cmd' \in [Agents -> Coroutine] /\ \A b \in Agents \ {a} : cmd'[b] = cmd[b]
    BY <2>1 DEF TypeOK
  <2>3. QED BY <1>6, <2>2 DEF Becomes
<1>8. {r.id : r \in Range(list)} = Range(created)
  <2>1. DOMAIN list = DOMAIN created /\ \A i \in DOMAIN created : list[i].id = created[i]
    OBVIOUS
  <2> HIDE DEF list
  <2>2. QED BY <2>1 DEF Range
<1>9. RowIds(a)' = Alive
  <2> HIDE DEF list
  <2> QED BY <1>1, <1>6, <1>8 DEF RowIds
<1>10. QED
  <2> HIDE DEF list
  <2> QED BY <1>2, <1>6, <1>7, <1>9

\* An entry stays known unless it is forgotten.
LEMMA EntryFacts ==
  ASSUME TypeOK
  PROVE  /\ \A S : Track(S) => /\ reg' \in [Kernels -> Entry]
                              /\ \A k \in Kernels : reg[k].known => reg'[k].known
         /\ \A S : Adopt(S) => /\ reg' \in [Kernels -> Entry]
                              /\ \A k \in Kernels : reg[k].known => reg'[k].known
         /\ \A k \in Kernels : Forget(k) => /\ reg' \in [Kernels -> Entry] /\ old' \subseteq Kernels
                                           /\ \A j \in Kernels \ {k} : reg'[j] = reg[j]
<1>1. reg \in [Kernels -> Entry] /\ Absent \in Entry
  BY DEF TypeOK, Absent, Entry
<1>2. ASSUME NEW k \in Kernels PROVE Tracked(reg[k]) \in Entry /\ Tracked(reg[k]).known
  BY <1>1 DEF Tracked, Entry, Absent
<1>3. \A S : Track(S) => /\ reg' \in [Kernels -> Entry]
                        /\ \A k \in Kernels : reg[k].known => reg'[k].known
  BY <1>1, <1>2 DEF Track
<1>4. QED
  BY <1>1, <1>3 DEF Adopt, Forget, TypeOK

----
(* The invariant. *)

\* What existed has existed, and what is gone stays gone.
Older == \A k \in Kernels : (Existed(k) => Existed(k)') /\ (jup[k] = "gone" => jup'[k] = "gone")

LEMMA RowsNameKernels ==
  ASSUME TypeOK, NEW a \in Agents
  PROVE  RowIds(a) \subseteq Kernels
<1>1. cmd[a].rows \in Seq(Row)
  BY DEF TypeOK, Coroutine
<1>2. Range(cmd[a].rows) \subseteq Row
  BY <1>1 DEF Range
<1>3. QED
  BY <1>2 DEF RowIds, Row

\* A coroutine that did not move keeps what it may rely on.
LEMMA OthersAct ==
  ASSUME TypeOK, Older, NEW b \in Agents, cmd'[b] = cmd[b], Acts(b)
  PROVE  Acts(b)'
BY RowsNameKernels DEF Older, Acts, RowIds

LEMMA OneMoves ==
  ASSUME KernelInv, NEW a \in Agents, \A b \in Agents \ {a} : cmd'[b] = cmd[b],
         Older, Acts(a)', Alive' \subseteq Alive, raced \ {a} \subseteq raced',
         a \in Tasks /\ cmd'[a].op = "start" /\ a \notin raced' => Room(a)'
  PROVE  (\A b \in Agents : Acts(b)') /\ StartsHaveRoom'
<1>1. \A b \in Agents : Acts(b)'
  BY OthersAct DEF KernelInv
<1>2. ASSUME NEW t \in Tasks \ {a}, cmd'[t].op = "start", t \notin raced' PROVE Room(t)'
  <2>1. cmd'[t] = cmd[t] /\ t \notin raced
    BY <1>2 DEF Agents
  <2>2. Room(t)
    BY <1>2, <2>1 DEF KernelInv, StartsHaveRoom
  <2>3. QED
    BY <2>1, <2>2 DEF Room, RowIds
<1>3. QED
  BY <1>1, <1>2 DEF StartsHaveRoom

\* Whoever looked before a kernel was created is in raced from then on.
LEMMA OneIsCreated ==
  ASSUME KernelInv, NEW k \in Kernels, Create(k),
         NEW a \in Agents, \A b \in Agents \ {a} : cmd'[b] = cmd[b], Acts(a)',
         cmd'[a] = cmd[a] \/ cmd'[a].pc = "posted"
  PROVE  (\A b \in Agents : Acts(b)') /\ StartsHaveRoom'
<1>1. Older
  BY CreateFacts DEF Older, Existed, Create, KernelInv
<1>2. \A b \in Agents : Acts(b)'
  BY <1>1, OthersAct DEF KernelInv
<1>3. ASSUME NEW t \in Tasks, cmd'[t].op = "start", t \notin raced' PROVE Room(t)'
  <2>1. CASE cmd'[t] = cmd[t]
    <3>1. cmd'[t].pc \notin {"fetched", "delete", "deleted", "post"}
      BY <1>3, <2>1 DEF Create
    <3>2. QED BY <3>1 DEF Room
  <2>2. CASE cmd'[t].pc = "posted"
    BY <2>2 DEF Room
  <2>3. QED
    BY <2>1, <2>2 DEF Agents
<1>4. QED
  BY <1>2, <1>3 DEF StartsHaveRoom

LEMMA InitInv == Init => KernelInv
<1> SUFFICES ASSUME Init PROVE KernelInv
  OBVIOUS
<1> USE DEF Init
<1>1. Idle \in Coroutine /\ Absent \in Entry
  <2>1. <<>> \in Seq(Row) OBVIOUS
  <2>2. QED BY <2>1 DEF Coroutine, Idle, Absent, Entry
<1>2. <<>> \in Seq(Kernels) /\ Range(<<>>) = {} /\ IsInjective(<<>>)
  BY DEF Range, IsInjective
<1>3. TypeOK
  BY <1>1, <1>2 DEF TypeOK, Alive
<1>4. ASSUME NEW a \in Agents PROVE Acts(a) /\ cmd[a].op = "none"
  BY <1>2, <1>4 DEF Acts, Idle, RowIds
<1>5. StartsHaveRoom
  BY <1>4 DEF StartsHaveRoom, Agents
<1>6. QED
  BY <1>3, <1>4, <1>5 DEF KernelInv

Holds == TypeOK' /\ (\A b \in Agents : Acts(b)') /\ StartsHaveRoom'

\* A list arrives; a DELETE is sent, answered and followed up.
LEMMA DeletingSteps ==
  ASSUME KernelInv, NEW a \in Agents, Fetch(a) \/ Delete(a) \/ Deleted(a)
  PROVE  Holds
<1> DEFINE k == cmd[a].on
<1>1. TypeOK /\ Acts(a) /\ cmd[a] \in Coroutine
  BY DEF KernelInv, TypeOK
<1>2. a \in Tasks /\ cmd[a].op = "start" /\ a \notin raced => Room(a)
  BY DEF KernelInv, StartsHaveRoom
<1>3. CASE Fetch(a)
  <2>1. /\ Becomes(a, cmd[a].op, cmd[a].on, "fetched", cmd'[a].rows)
        /\ RowIds(a)' = Alive
    BY <1>1, <1>3, FetchFacts
  <2>2. Alive' = Alive /\ Older /\ raced \ {a} \subseteq raced'
    BY <1>3 DEF Fetch, server, Alive, Older, Existed
  <2>3. TypeOK'
    BY <1>1, <1>3, <2>1, <2>2 DEF Fetch, server, TypeOK, Becomes
  <2>4. Acts(a)'
    <3>1. \A j \in Alive : Existed(j)'
      BY <1>3 DEF Fetch, server, Alive, Existed
    <3>2. cmd[a].op = "exec" => cmd[a].on \in Kernels
      BY <1>1, <1>3 DEF Acts, Fetch
    <3>3. QED BY <2>1, <3>1, <3>2 DEF Acts, Becomes
  <2>5. Room(a)'
    BY <2>1, <2>2 DEF Room, Becomes
  <2>6. QED
    BY <2>1, <2>2, <2>3, <2>4, <2>5, OneMoves DEF Becomes, Holds
<1>4. CASE Delete(a)
  <2>1. k \in Kernels /\ Existed(k) /\ cmd[a].pc = "delete"
    BY <1>1, <1>4 DEF Delete, Acts
  <2>2. CASE k \in Undeletable \cap Alive
    <3>1. Becomes(a, "none", Nothing, "idle", <<>>) \/ Becomes(a, cmd[a].op, Nothing, "done", <<>>)
      BY <1>1, <1>4, <2>2, CoroutineFacts DEF Delete, Points
    <3>2. TypeOK' /\ Alive' = Alive /\ Older /\ raced' = raced
      BY <1>1, <1>4, <2>2, <3>1 DEF Delete, server, TypeOK, Becomes, Alive, Older, Existed
    <3>3. Range(<<>>) = {}
      BY DEF Range
    <3>4. Acts(a)' /\ Room(a)'
      BY <3>1, <3>3 DEF Acts, Room, RowIds, Becomes
    <3>5. QED
      BY <3>1, <3>2, <3>4, OneMoves DEF Becomes, Holds
  <2>3. CASE k \notin Undeletable \cap Alive
    <3>1. Becomes(a, cmd[a].op, cmd[a].on, "deleted", cmd[a].rows) /\ Shut(k)
      BY <1>1, <1>4, <2>3, CoroutineFacts DEF Delete, Points
    <3>2. TypeOK'
      BY <1>1, <1>4, <2>1, <3>1, ShutFacts DEF Delete, TypeOK, Becomes
    <3>3. Alive' \subseteq Alive /\ Older /\ raced' = raced /\ jup'[k] = "gone"
      BY <1>1, <1>4, <2>1, <3>1, ShutFacts DEF Delete, Older, Existed
    <3>4. RowIds(a)' = RowIds(a)
      BY <3>1 DEF RowIds, Becomes
    <3>5. Acts(a)'
      BY <1>1, <2>1, <3>1, <3>3, <3>4, RowsNameKernels DEF Acts, Becomes, Older, Existed
    <3>6. a \in Tasks /\ cmd'[a].op = "start" /\ a \notin raced' => Room(a)'
      BY <1>2, <2>1, <3>1, <3>3, <3>4 DEF Room, Becomes
    <3>7. QED
      BY <3>1, <3>2, <3>3, <3>5, <3>6, OneMoves DEF Becomes, Holds
  <2>4. QED BY <2>2, <2>3
<1>5. CASE Deleted(a)
  <2>1. k \in Kernels /\ jup[k] = "gone" /\ cmd[a].pc = "deleted"
    BY <1>1, <1>5 DEF Deleted, Acts
  <2>2. \/ cmd[a].op = "start" /\ Becomes(a, "start", Nothing, "post", cmd[a].rows)
        \/ cmd[a].op = "reap" /\ Becomes(a, "reap", Nothing, "loop", cmd[a].rows)
        \/ Becomes(a, cmd[a].op, Nothing, "done", <<>>)
    BY <1>1, <1>5, CoroutineFacts DEF Deleted, Points
  <2>3. cmd' \in [Agents -> Coroutine]
    BY <2>2 DEF Becomes
  <2>4. TypeOK' /\ Alive' = Alive /\ Older /\ raced' = raced /\ jup' = jup
    BY <1>1, <1>5, <2>1, <2>3, EntryFacts DEF Deleted, server, TypeOK, Alive, Older, Existed
  <2>5. Range(<<>>) = {}
    BY DEF Range
  <2>6. Acts(a)'
    BY <1>1, <2>2, <2>4, <2>5 DEF Acts, RowIds, Becomes, Existed
  <2>7. a \in Tasks /\ cmd'[a].op = "start" /\ a \notin raced' => Room(a)'
    <3>1. SUFFICES ASSUME a \in Tasks, cmd'[a].op = "start", a \notin raced' PROVE Room(a)'
      OBVIOUS
    <3>2. cmd[a].op = "start" /\ Room(a)
      BY <1>2, <2>2, <2>4, <3>1 DEF Becomes
    <3>3. k \notin Alive
      BY <2>1 DEF Alive
    <3>4. QED
      BY <2>1, <2>2, <2>4, <3>2, <3>3 DEF Room, RowIds, Becomes
  <2>8. QED
    BY <2>2, <2>4, <2>6, <2>7, OneMoves DEF Becomes, Holds
<1>6. QED BY <1>3, <1>4, <1>5

\* The steps that are left of start_kernel.
LEMMA StartingSteps ==
  ASSUME KernelInv, NEW a \in Agents,
         \/ a \in Tasks /\ Start(a)
         \/ Enforce(a) \/ PostFails(a) \/ Posted(a)
         \/ \E k \in Kernels : Post(a, k)
  PROVE  Holds
<1>1. TypeOK /\ Acts(a) /\ cmd[a] \in Coroutine
  BY DEF KernelInv, TypeOK
<1>2. a \in Tasks /\ cmd[a].op = "start" /\ a \notin raced => Room(a)
  BY DEF KernelInv, StartsHaveRoom
<1>3. Range(<<>>) = {}
  BY DEF Range
<1>4. CASE a \in Tasks /\ Start(a)
  <2>1. Becomes(a, "start", Nothing, "fetch", <<>>)
    BY <1>1, <1>4, CoroutineFacts DEF Start, Points, ToolKinds
  <2>2. TypeOK' /\ Alive' = Alive /\ Older /\ raced' = raced
    BY <1>1, <1>4, <2>1 DEF Start, server, TypeOK, Becomes, Alive, Older, Existed
  <2>3. Acts(a)' /\ Room(a)'
    BY <1>3, <2>1 DEF Acts, Room, RowIds, Becomes
  <2>4. QED
    BY <2>1, <2>2, <2>3, OneMoves DEF Becomes, Holds
<1>5. CASE Enforce(a)
  <2>1. cmd[a].op = "start" /\ cmd[a].pc = "fetched" /\ UNCHANGED <<server, reg, old, raced>>
    BY <1>5 DEF Enforce
  <2>2. Victims(a) \subseteq RowIds(a)
    BY DEF Victims, RowIds
  <2>3. \A v \in Victims(a) : v \in Kernels /\ Existed(v)
    BY <1>1, <2>2, RowsNameKernels DEF Acts
  <2>4. \/ Len(cmd[a].rows) < MaxKernels /\ Becomes(a, "start", Nothing, "post", cmd[a].rows)
        \/ \E v \in Victims(a) : Becomes(a, "start", v, "delete", cmd[a].rows)
        \/ Becomes(a, "start", Nothing, "done", <<>>)
    BY <1>1, <1>5, <2>1, <2>3, CoroutineFacts DEF Enforce, Points
  <2>5. cmd' \in [Agents -> Coroutine] /\ \A b \in Agents \ {a} : cmd'[b] = cmd[b]
    BY <2>4 DEF Becomes
  <2>6. TypeOK' /\ Alive' = Alive /\ Older /\ raced' = raced /\ jup' = jup
    BY <1>1, <2>1, <2>5 DEF server, TypeOK, Alive, Older, Existed
  <2>7. Acts(a)'
    BY <1>1, <1>3, <2>3, <2>4, <2>6 DEF Acts, RowIds, Becomes, Existed
  <2>8. a \in Tasks /\ a \notin raced' => Room(a)'
    BY <1>2, <1>3, <2>1, <2>2, <2>4, <2>6 DEF Room, RowIds, Becomes
  <2>9. QED
    BY <2>5, <2>6, <2>7, <2>8, OneMoves DEF Holds
<1>6. CASE PostFails(a) \/ Posted(a)
  <2>1. Becomes(a, cmd[a].op, Nothing, "done", <<>>)
    BY <1>1, <1>6, CoroutineFacts DEF PostFails, Posted, Points
  <2>2. TypeOK' /\ Alive' = Alive /\ Older /\ raced' = raced
    BY <1>1, <1>6, <2>1, EntryFacts
       DEF PostFails, Posted, server, TypeOK, Becomes, Alive, Older, Existed
  <2>3. Acts(a)' /\ Room(a)'
    BY <1>3, <2>1 DEF Acts, Room, RowIds, Becomes
  <2>4. QED
    BY <2>1, <2>2, <2>3, OneMoves DEF Becomes, Holds
<1>7. ASSUME NEW k \in Kernels, Post(a, k) PROVE Holds
  <2>1. Create(k) /\ Becomes(a, cmd[a].op, k, "posted", cmd[a].rows)
    BY <1>1, <1>7, CoroutineFacts DEF Post, Points
  <2>2. TypeOK'
    BY <1>1, <1>7, <2>1, CreateFacts DEF Post, Create, TypeOK, Becomes
  <2>3. \A j \in RowIds(a) : Existed(j)'
    BY <1>1, <2>1, CreateFacts, RowsNameKernels DEF Acts, Existed
  <2>4. Acts(a)'
    BY <2>1, <2>3 DEF Acts, RowIds, Becomes
  <2>5. QED
    BY <2>1, <2>2, <2>4, OneIsCreated DEF Becomes, Holds
<1>8. QED
  BY <1>4, <1>5, <1>6, <1>7

\* The steps of the other tools.
LEMMA ToolSteps ==
  ASSUME KernelInv, NEW a \in Agents,
         \/ /\ a \in Tasks
            /\ \/ List(a)
               \/ \E k \in Kernels : Stop(a, k) \/ Exec(a, k)
               \/ \E k \in Kernels, to \in BOOLEAN : Pin(a, k, to)
         \/ Routed(a) \/ Run(a) \/ RunEnds(a) \/ Listed(a)
  PROVE  Holds
<1>1. TypeOK /\ Acts(a) /\ cmd[a] \in Coroutine
  BY DEF KernelInv, TypeOK
<1>2. Range(<<>>) = {}
  BY DEF Range
<1>3. CASE a \in Tasks /\ List(a)
  <2>1. Becomes(a, "list", Nothing, "fetch", <<>>)
    BY <1>1, <1>3, CoroutineFacts DEF List, Points, ToolKinds
  <2>2. TypeOK' /\ Alive' = Alive /\ Older /\ raced' = raced
    BY <1>1, <1>3, <2>1 DEF List, server, TypeOK, Becomes, Alive, Older, Existed
  <2>3. Acts(a)' /\ Room(a)'
    BY <1>2, <2>1 DEF Acts, Room, RowIds, Becomes
  <2>4. QED
    BY <2>1, <2>2, <2>3, OneMoves DEF Becomes, Holds
<1>4. ASSUME NEW k \in Kernels, a \in Tasks, Stop(a, k) \/ Exec(a, k) PROVE Holds
  <2>1. /\ jup[k] # "none"
        /\ \/ Becomes(a, "stop", k, "delete", <<>>)
           \/ Becomes(a, "exec", k, "run", <<>>)
           \/ Becomes(a, "exec", k, "fetch", <<>>)
    BY <1>1, <1>4, CoroutineFacts DEF Stop, Exec, Points, ToolKinds
  <2>2. TypeOK' /\ Alive' = Alive /\ Older /\ raced' = raced /\ jup' = jup
    BY <1>1, <1>4, <2>1 DEF Stop, Exec, server, TypeOK, Becomes, Alive, Older, Existed
  <2>3. Acts(a)' /\ cmd'[a].op # "start"
    BY <1>2, <2>1, <2>2 DEF Acts, RowIds, Becomes, Existed
  <2>4. QED
    BY <2>1, <2>2, <2>3, OneMoves DEF Becomes, Holds
<1>5. ASSUME NEW k \in Kernels, NEW to \in BOOLEAN, a \in Tasks, Pin(a, k, to) PROVE Holds
  <2>1. Becomes(a, "pin", k, "done", <<>>)
    BY <1>1, <1>5, CoroutineFacts DEF Pin, Points, ToolKinds
  <2>2. reg' \in [Kernels -> Entry]
    BY <1>1, <1>5 DEF Pin, TypeOK, Entry
  <2>3. TypeOK' /\ Alive' = Alive /\ Older /\ raced' = raced
    BY <1>1, <1>5, <2>1, <2>2 DEF Pin, server, TypeOK, Becomes, Alive, Older, Existed
  <2>4. Acts(a)' /\ Room(a)'
    BY <1>2, <2>1 DEF Acts, Room, RowIds, Becomes
  <2>5. QED
    BY <2>1, <2>3, <2>4, OneMoves DEF Becomes, Holds
<1>6. CASE Routed(a)
  <2>1. /\ cmd[a].op = "exec" /\ cmd[a].on \in Kernels
        /\ \/ Becomes(a, "exec", cmd[a].on, "run", cmd[a].rows)
           \/ Becomes(a, "exec", Nothing, "done", <<>>)
    BY <1>1, <1>6, CoroutineFacts DEF Routed, Points, Acts
  <2>2. cmd' \in [Agents -> Coroutine] /\ reg' \in [Kernels -> Entry]
    BY <1>1, <1>6, <2>1, EntryFacts DEF Routed, Becomes, TypeOK
  <2>3. TypeOK' /\ Alive' = Alive /\ Older /\ raced' = raced /\ jup' = jup
    BY <1>1, <1>6, <2>2 DEF Routed, server, TypeOK, Alive, Older, Existed
  <2>4. Acts(a)' /\ cmd'[a].op # "start"
    BY <1>1, <1>2, <2>1, <2>3 DEF Acts, RowIds, Becomes, Existed
  <2>5. QED
    BY <2>1, <2>3, <2>4, OneMoves DEF Becomes, Holds
<1>7. CASE Run(a)
  <2>1. /\ cmd[a].op = "exec" /\ cmd[a].on \in Kernels
        /\ \/ Becomes(a, "exec", cmd[a].on, "running", cmd[a].rows)
           \/ Becomes(a, "exec", Nothing, "done", <<>>)
    BY <1>1, <1>7, CoroutineFacts DEF Run, Points, Acts
  <2>2. jup' \in [Kernels -> {"none", "idle", "busy", "gone"}] /\ Alive' = Alive /\ Older
    BY <1>1, <1>7, <2>1 DEF Run, server, TypeOK, Alive, Older, Existed
  <2>3. TypeOK' /\ raced' = raced
    BY <1>1, <1>7, <2>1, <2>2 DEF Run, server, TypeOK, Becomes
  <2>4. Acts(a)' /\ cmd'[a].op # "start"
    BY <1>1, <1>2, <2>1, <2>2, RowsNameKernels DEF Acts, RowIds, Becomes, Older
  <2>5. QED
    BY <2>1, <2>2, <2>3, <2>4, OneMoves DEF Becomes, Holds
<1>8. CASE RunEnds(a)
  <2>1. /\ cmd[a].op = "exec" /\ cmd[a].on \in Kernels
        /\ Becomes(a, "exec", Nothing, "done", <<>>)
    BY <1>1, <1>8, CoroutineFacts DEF RunEnds, Points, Acts
  <2>2. jup' \in [Kernels -> {"none", "idle", "busy", "gone"}] /\ Alive' = Alive /\ Older
    BY <1>1, <1>8, <2>1 DEF RunEnds, TypeOK, Alive, Older, Existed
  <2>3. TypeOK' /\ raced' = raced
    BY <1>1, <1>8, <2>1, <2>2 DEF RunEnds, TypeOK, Becomes
  <2>4. Acts(a)' /\ Room(a)'
    BY <1>2, <2>1 DEF Acts, Room, RowIds, Becomes
  <2>5. QED
    BY <2>1, <2>2, <2>3, <2>4, OneMoves DEF Becomes, Holds
<1>9. CASE Listed(a)
  <2>1. Becomes(a, cmd[a].op, Nothing, "done", <<>>)
    BY <1>1, <1>9, CoroutineFacts DEF Listed, Points
  <2>2. TypeOK' /\ Alive' = Alive /\ Older /\ raced' = raced
    BY <1>1, <1>9, <2>1, EntryFacts DEF Listed, server, TypeOK, Becomes, Alive, Older, Existed
  <2>3. Acts(a)' /\ Room(a)'
    BY <1>2, <2>1 DEF Acts, Room, RowIds, Becomes
  <2>4. QED
    BY <2>1, <2>2, <2>3, OneMoves DEF Becomes, Holds
<1>10. QED
  BY <1>3, <1>4, <1>5, <1>6, <1>7, <1>8, <1>9

\* The reaper's pass; it never starts a kernel.
LEMMA ReaperSteps ==
  ASSUME KernelInv, Reap
  PROVE  Holds
<1>1. Reaper \in Agents /\ Reaper \notin Tasks
  BY ReaperAssumption DEF Agents
<1>2. TypeOK /\ Acts(Reaper) /\ cmd[Reaper] \in Coroutine
  BY <1>1 DEF KernelInv, TypeOK
<1>3. Range(<<>>) = {}
  BY DEF Range
<1>4. CASE ReapPass
  <2>1. Becomes(Reaper, "reap", Nothing, "fetch", <<>>)
    <3> DEFINE q == [Idle EXCEPT !.op = "reap", !.pc = "fetch"]
    <3>1. q \in Coroutine
      <4>1. <<>> \in Seq(Row) OBVIOUS
      <4>2. QED BY <4>1 DEF Idle, Coroutine
    <3>2. q.op = "reap" /\ q.on = Nothing /\ q.pc = "fetch" /\ q.rows = <<>>
      BY DEF Idle
    <3>3. cmd' = [cmd EXCEPT ![Reaper] = q]
      BY <1>4 DEF ReapPass
    <3> HIDE DEF q
    <3>4. QED BY <1>1, <1>2, <3>1, <3>2, <3>3 DEF Becomes, TypeOK
  <2>2. TypeOK' /\ Alive' = Alive /\ Older /\ raced' = raced
    BY <1>2, <1>4, <2>1 DEF ReapPass, server, TypeOK, Becomes, Alive, Older, Existed
  <2>3. Acts(Reaper)'
    BY <1>3, <2>1 DEF Acts, RowIds, Becomes
  <2>4. QED
    BY <1>1, <2>1, <2>2, <2>3, OneMoves DEF Becomes, Holds
<1>5. CASE ReapList
  <2>1. Becomes(Reaper, "reap", cmd[Reaper].on, "loop", cmd[Reaper].rows)
    BY <1>1, <1>2, <1>5, CoroutineFacts DEF ReapList, Points
  <2>2. TypeOK' /\ Alive' = Alive /\ Older /\ raced' = raced /\ jup' = jup
    BY <1>2, <1>5, <2>1 DEF ReapList, server, TypeOK, Becomes, Alive, Older, Existed
  <2>3. Acts(Reaper)'
    BY <1>2, <2>1, <2>2 DEF Acts, RowIds, Becomes, Existed
  <2>4. QED
    BY <1>1, <2>1, <2>2, <2>3, OneMoves DEF Becomes, Holds
<1>6. CASE Visit
  <2> DEFINE rows == cmd[Reaper].rows
             r == Head(rows)
  <2>1. rows \in Seq(Row) /\ rows # <<>> /\ cmd[Reaper].pc = "loop"
    BY <1>2, <1>6 DEF Visit, Coroutine
  <2>2. r \in Row /\ r \in Range(rows) /\ Tail(rows) \in Seq(Row)
    <3>1. Len(rows) \in Nat /\ 1 \in 1..Len(rows) /\ r = rows[1]
      BY <2>1
    <3>2. QED BY <2>1, <3>1 DEF Range
  <2>3. Range(Tail(rows)) \subseteq Range(rows)
    <3>1. /\ Len(Tail(rows)) = Len(rows) - 1 /\ Len(rows) \in Nat
          /\ \A i \in 1..(Len(rows) - 1) : Tail(rows)[i] = rows[i + 1]
      BY <2>1
    <3>2. DOMAIN Tail(rows) = 1..(Len(rows) - 1) /\ DOMAIN rows = 1..Len(rows)
      BY <2>1, <2>2, <3>1
    <3>3. QED
      BY <3>1, <3>2 DEF Range
  <2>4. r.id \in RowIds(Reaper) /\ r.id \in Kernels /\ Existed(r.id)
    BY <1>1, <1>2, <2>2, RowsNameKernels DEF RowIds, Acts
  <2>5. \/ Becomes(Reaper, cmd[Reaper].op, r.id, "delete", Tail(rows))
        \/ Becomes(Reaper, cmd[Reaper].op, Nothing, "loop", Tail(rows))
    <3> DEFINE due == ReapTooOld(r.id) \/ ReapIdle(r)
               q == [cmd[Reaper] EXCEPT !.rows = Tail(rows),
                                        !.on = IF due THEN r.id ELSE Nothing,
                                        !.pc = IF due THEN "delete" ELSE "loop"]
    <3>1. cmd' = [cmd EXCEPT ![Reaper] = q]
      BY <1>6 DEF Visit
    <3>2. /\ q.op = cmd[Reaper].op /\ q.rows = Tail(rows)
          /\ \/ q.on = r.id /\ q.pc = "delete"
             \/ q.on = Nothing /\ q.pc = "loop"
      <4> HIDE DEF due
      <4> QED BY <1>2 DEF Coroutine
    <3>3. q \in Coroutine
      <4>1. (IF due THEN r.id ELSE Nothing) \in Kernels \cup {Nothing}
        BY <2>4
      <4>2. (IF due THEN "delete" ELSE "loop") \in Points
        BY DEF Points
      <4> HIDE DEF due, r, rows
      <4>3. QED BY <1>2, <2>2, <4>1, <4>2 DEF Coroutine, Points
    <3> HIDE DEF q, r, rows
    <3>4. cmd' \in [Agents -> Coroutine] /\ cmd'[Reaper] = q
          /\ \A b \in Agents \ {Reaper} : cmd'[b] = cmd[b]
      BY <1>1, <1>2, <3>1, <3>3 DEF TypeOK
    <3>5. QED BY <3>2, <3>4 DEF Becomes
  <2> HIDE DEF r
  <2>6. TypeOK' /\ Alive' = Alive /\ Older /\ raced' = raced /\ jup' = jup
    BY <1>2, <1>6, <2>5, EntryFacts DEF Visit, server, TypeOK, Becomes, Alive, Older, Existed
  <2>7. Acts(Reaper)'
    <3>1. /\ cmd'[Reaper].rows = Tail(rows)
          /\ \/ cmd'[Reaper].pc = "delete" /\ cmd'[Reaper].on = r.id
             \/ cmd'[Reaper].pc = "loop"
          /\ cmd'[Reaper].op = "reap"
      BY <1>2, <2>1, <2>5 DEF Becomes, Acts
    <3>2. RowIds(Reaper)' \subseteq RowIds(Reaper)
      BY <2>3, <3>1 DEF RowIds
    <3>3. QED BY <1>2, <2>4, <2>6, <3>1, <3>2 DEF Acts, Existed
  <2>8. QED
    BY <1>1, <2>5, <2>6, <2>7, OneMoves DEF Becomes, Holds
<1>7. CASE ReapEnds
  <2>1. Becomes(Reaper, "none", Nothing, "idle", <<>>)
    <3>1. "idle" \in Points /\ "none" \in {"none", "reap"} \cup ToolKinds
      BY DEF Points
    <3>2. QED BY <1>1, <1>2, <1>7, <3>1, CoroutineFacts DEF ReapEnds
  <2>2. TypeOK' /\ Alive' = Alive /\ Older /\ raced' = raced
    BY <1>2, <1>7, <2>1 DEF ReapEnds, server, TypeOK, Becomes, Alive, Older, Existed
  <2>3. Acts(Reaper)'
    BY <1>3, <2>1 DEF Acts, RowIds, Becomes
  <2>4. QED
    BY <1>1, <2>1, <2>2, <2>3, OneMoves DEF Becomes, Holds
<1>8. QED
  BY <1>4, <1>5, <1>6, <1>7 DEF Reap

\* JupyterLab's user and the clock.
LEMMA OutsideSteps ==
  ASSUME KernelInv, NEW k \in Kernels, Environment(k) \/ Ages(k)
  PROVE  Holds
<1>1. TypeOK /\ (\A a \in Agents : Acts(a)) /\ Reaper \in Agents /\ Reaper \notin Tasks
  BY ReaperAssumption DEF KernelInv, Agents
<1>2. CASE HumanStarts(k)
  <2>1. Create(k) /\ cmd' = cmd
    BY <1>2 DEF HumanStarts
  <2>2. TypeOK' /\ Older
    BY <1>1, <1>2, <2>1, CreateFacts DEF HumanStarts, Create, TypeOK, Older, Existed
  <2>3. Acts(Reaper)'
    BY <1>1, <2>1, <2>2, OthersAct
  <2>4. QED
    BY <1>1, <2>1, <2>2, <2>3, OneIsCreated DEF Holds
<1>3. CASE HumanShutsDown(k) \/ BecomesQuiet(k) \/ Ages(k)
  <2>1. TypeOK' /\ Older /\ Alive' \subseteq Alive /\ raced' = raced /\ cmd' = cmd
    <3>1. CASE HumanShutsDown(k)
      <4>1. Shut(k) /\ UNCHANGED <<reg, old, cmd, raced>> BY <3>1 DEF HumanShutsDown
      <4>2. TypeOK' BY <1>1, <4>1, ShutFacts DEF TypeOK
      <4>3. Older /\ Alive' \subseteq Alive BY <1>1, <3>1, <4>1, ShutFacts DEF Older, Existed
      <4>4. QED BY <4>1, <4>2, <4>3
    <3>2. CASE BecomesQuiet(k)
      BY <1>1, <3>2 DEF BecomesQuiet, TypeOK, Older, Alive, Existed
    <3>3. CASE Ages(k)
      BY <1>1, <3>3 DEF Ages, server, TypeOK, Older, Alive, Existed
    <3>4. QED BY <1>3, <3>1, <3>2, <3>3
  <2>2. Acts(Reaper)'
    BY <1>1, <2>1, OthersAct
  <2>3. QED
    BY <1>1, <2>1, <2>2, OneMoves DEF Holds
<1>4. QED
  BY <1>2, <1>3 DEF Environment

LEMMA NextInv == KernelInv /\ [Next]_vars => KernelInv'
<1> SUFFICES ASSUME KernelInv, [Next]_vars PROVE Holds
  BY DEF Holds, KernelInv
<1>1. ASSUME NEW t \in Tasks, ClientCall(t) PROVE Holds
  <2>1. t \in Agents BY DEF Agents
  <2>2. CASE Start(t) BY <2>1, <2>2, StartingSteps
  <2>3. CASE ~Start(t) BY <1>1, <2>1, <2>3, ToolSteps DEF ClientCall
  <2>4. QED BY <2>2, <2>3
<1>2. ASSUME NEW a \in Agents, Progress(a) PROVE Holds
  <2>1. CASE Fetch(a) \/ Delete(a) \/ Deleted(a) BY <2>1, DeletingSteps
  <2>2. CASE Enforce(a) \/ PostFails(a) \/ Posted(a) \/ \E k \in Kernels : Post(a, k)
    BY <2>2, StartingSteps
  <2>3. CASE Routed(a) \/ Run(a) \/ RunEnds(a) \/ Listed(a) BY <2>3, ToolSteps
  <2>4. QED BY <1>2, <2>1, <2>2, <2>3 DEF Progress
<1>3. CASE Reap BY <1>3, ReaperSteps
<1>4. ASSUME NEW k \in Kernels, Environment(k) \/ Ages(k) PROVE Holds
  BY <1>4, OutsideSteps
<1>5. CASE UNCHANGED vars
  BY <1>5 DEF Holds, KernelInv, vars, TypeOK, Alive, Acts, StartsHaveRoom, Room, RowIds, Existed
<1>6. QED
  BY <1>1, <1>2, <1>3, <1>4, <1>5 DEF Next

\* Every reachable state satisfies the invariant.
LEMMA Invariance == Spec => []KernelInv
<1>1. QED BY InitInv, NextInv, PTL DEF Spec

\* Every variable stays in its type; the server's list always names the living
\* kernels, each once (_kernels).
THEOREM TypeCorrect == Spec => []TypeOK
<1>1. KernelInv => TypeOK
  BY DEF KernelInv
<1>2. QED BY <1>1, Invariance, PTL

----
(* What the registry forgets. *)

\* Only the cleanup after an answered DELETE forgets.
LEMMA OnlyDeletedForgets ==
  ASSUME KernelInv, [Next]_vars, NEW k \in Kernels, reg[k].known, ~reg'[k].known
  PROVE  \E a \in Agents : Deleted(a) /\ cmd[a].on = k
<1>1. TypeOK
  BY DEF KernelInv
<1>2. reg' # reg
  OBVIOUS
<1>3. ~UNCHANGED vars
  BY <1>2 DEF vars
<1>4. ASSUME NEW t \in Tasks, ClientCall(t) PROVE FALSE
  <2>1. ASSUME NEW j \in Kernels, NEW to \in BOOLEAN, Pin(t, j, to) PROVE FALSE
    BY <1>1, <2>1 DEF Pin, TypeOK, Entry
  <2>2. QED BY <1>2, <1>4, <2>1 DEF ClientCall, Start, List, Stop, Exec
<1>5. ASSUME NEW a \in Agents, Progress(a), ~Deleted(a) PROVE FALSE
  <2>1. ~Posted(a) /\ ~Routed(a) /\ ~Listed(a)
    BY <1>1, <1>2, EntryFacts DEF Posted, Routed, Listed
  <2>2. QED
    BY <1>2, <1>5, <2>1 DEF Progress, Fetch, Delete, Enforce, PostFails, Run, RunEnds, Post
<1>6. ASSUME Reap PROVE FALSE
  BY <1>1, <1>2, <1>6, EntryFacts DEF Reap, ReapPass, ReapList, Visit, ReapEnds
<1>7. ASSUME NEW j \in Kernels, Environment(j) \/ Ages(j) PROVE FALSE
  BY <1>2, <1>7 DEF Environment, HumanStarts, HumanShutsDown, BecomesQuiet, Ages
<1>8. PICK a \in Agents : Deleted(a)
  BY <1>3, <1>4, <1>5, <1>6, <1>7 DEF Next
<1>9. cmd[a].on \in Kernels /\ Forget(cmd[a].on)
  BY <1>8 DEF Deleted, KernelInv, Acts
<1>10. QED
  BY <1>1, <1>8, <1>9, EntryFacts

\* A kernel loses its entry, and with it its age, only when it is gone, whoever
\* deleted it and whatever failed on the way (_delete_kernel).
THEOREM DeadAreForgotten == Spec => OnlyTheDeadAreForgotten
<1>1. KernelInv /\ [Next]_vars => ForgetsTheDead
  <2> SUFFICES ASSUME KernelInv, [Next]_vars, NEW k \in Kernels, reg[k].known, ~reg'[k].known
               PROVE  k \notin Alive
    BY DEF ForgetsTheDead
  <2>1. PICK a \in Agents : Deleted(a) /\ cmd[a].on = k
    BY OnlyDeletedForgets
  <2>2. jup[k] = "gone"
    BY <2>1 DEF Deleted, KernelInv, Acts
  <2>3. QED
    BY <2>2 DEF Alive
<1>2. KernelInv /\ [Next]_vars => [ForgetsTheDead]_vars
  BY <1>1
<1>3. QED
  BY <1>2, Invariance, PTL DEF Spec, OnlyTheDeadAreForgotten

----
(* The cap. *)

\* A list names no more kernels than it has rows.
LEMMA RowsBound ==
  ASSUME TypeOK, NEW a \in Agents
  PROVE  /\ IsFiniteSet(RowIds(a)) /\ Len(cmd[a].rows) \in Nat
         /\ Cardinality(RowIds(a)) \in Nat
         /\ Cardinality(RowIds(a)) <= Len(cmd[a].rows)
<1> DEFINE rows == cmd[a].rows
           n == Len(rows)
           f == [i \in 1..n |-> rows[i].id]
<1>1. rows \in Seq(Row) /\ n \in Nat /\ DOMAIN rows = 1..n
  BY DEF TypeOK, Coroutine
<1>2. RowIds(a) = {f[i] : i \in 1..n}
  BY <1>1 DEF RowIds, Range
<1>3. f \in Surjection(1..n, RowIds(a))
  BY <1>2 DEF Surjection
<1>4. IsFiniteSet(1..n) /\ Cardinality(1..n) = n
  BY <1>1, FS_Interval
<1> HIDE DEF f
<1>5. IsFiniteSet(RowIds(a)) /\ Cardinality(RowIds(a)) <= n
  BY <1>3, <1>4, FS_Surjection
<1>6. QED
  BY <1>1, <1>5, FS_CardinalityType

\* Only the POST of a start_kernel takes it to its readiness poll.
LEMMA OnlyPostPosts ==
  ASSUME KernelInv, [Next]_vars, NEW t \in Tasks, Posting(t)
  PROVE  \E k \in Kernels : Post(t, k)
<1>1. TypeOK /\ t \in Agents /\ cmd[t].pc = "post" /\ cmd'[t].pc = "posted" /\ cmd[t].op = "start"
  BY DEF KernelInv, Posting, Agents
<1>2. cmd' # cmd
  BY <1>1
<1>3. ~UNCHANGED vars
  BY <1>2 DEF vars
<1>4. ASSUME NEW s \in Tasks, ClientCall(s) PROVE FALSE
  <2>1. s \in Agents /\ cmd[s] = Idle
    BY <1>4 DEF ClientCall, Start, List, Stop, Exec, Pin, Call, Agents
  <2>2. s # t
    BY <1>1, <2>1 DEF Idle
  <2>3. cmd'[t] = cmd[t]
    BY <1>1, <1>4, <2>2 DEF ClientCall, Start, List, Stop, Exec, Pin, Call, TypeOK
  <2>4. QED BY <1>1, <2>3
<1>5. ASSUME NEW a \in Agents \ {t}, Progress(a) PROVE FALSE
  <2>1. cmd'[t] = cmd[t]
    BY <1>1, <1>5 DEF Progress, Fetch, Delete, Deleted, Enforce, PostFails, Posted, Routed, Run,
                      RunEnds, Listed, Post, Goto, Target, End, TypeOK
  <2>2. QED BY <1>1, <2>1
<1>6. ASSUME Progress(t), ~\E k \in Kernels : Post(t, k) PROVE FALSE
  <2>1. PostFails(t)
    BY <1>1, <1>6 DEF Progress, Fetch, Delete, Deleted, Enforce, Posted, Routed, Run, RunEnds, Listed
  <2>2. cmd'[t].pc = "done"
    BY <1>1, <2>1, CoroutineFacts DEF PostFails, Becomes, Points, ToolKinds
  <2>3. QED BY <1>1, <2>2
<1>7. ASSUME Reap PROVE FALSE
  <2>1. t # Reaper
    BY ReaperAssumption
  <2>2. cmd'[t] = cmd[t]
    BY <1>1, <1>7, <2>1 DEF Reap, ReapPass, ReapList, Visit, ReapEnds, Goto, TypeOK
  <2>3. QED BY <1>1, <2>2
<1>8. ASSUME NEW j \in Kernels, Environment(j) \/ Ages(j) PROVE FALSE
  BY <1>2, <1>8 DEF Environment, HumanStarts, HumanShutsDown, BecomesQuiet, Ages
<1>9. QED
  BY <1>3, <1>4, <1>5, <1>6, <1>7, <1>8 DEF Next

\* A start_kernel leaves no more kernels than MAX_KERNELS or than it found,
\* unless another one was created after it looked (_enforce_capacity).
THEOREM StartsKeepCap == Spec => StartKeepsCap
<1>1. KernelInv /\ [Next]_vars => KeepsCap
  <2> SUFFICES ASSUME KernelInv, [Next]_vars, NEW t \in Tasks, Posting(t), t \notin raced
               PROVE  Cardinality(Alive') <= Most(MaxKernels, Len(cmd[t].rows))
    BY DEF KeepsCap
  <2> DEFINE ids == RowIds(t)
             n == Len(cmd[t].rows)
  <2>1. PICK k \in Kernels : Create(k)
    BY OnlyPostPosts DEF Post
  <2>2. TypeOK /\ Alive' = Alive \cup {k} /\ k \notin Alive
    BY <2>1, CreateFacts DEF KernelInv
  <2>3. Alive \subseteq ids /\ (n < MaxKernels \/ \E v \in ids : v \notin Alive)
    BY DEF KernelInv, StartsHaveRoom, Room, Posting
  <2>4. IsFiniteSet(ids) /\ n \in Nat /\ Cardinality(ids) \in Nat /\ Cardinality(ids) <= n
    BY <2>2, RowsBound DEF Agents
  <2> HIDE DEF ids, n
  <2>5. IsFiniteSet(Alive) /\ Cardinality(Alive) \in Nat /\ Cardinality(Alive) <= Cardinality(ids)
    BY <2>3, <2>4, FS_Subset, FS_CardinalityType
  <2>6. Cardinality(Alive') = Cardinality(Alive) + 1
    BY <2>2, <2>5, FS_AddElement
  <2>7. CASE n < MaxKernels
    BY <2>4, <2>5, <2>6, <2>7, CapAssumption DEF Most, n
  <2>8. ASSUME NEW v \in ids, v \notin Alive PROVE Cardinality(Alive) < Cardinality(ids)
    <3>1. Alive # ids BY <2>8
    <3>2. Cardinality(Alive) # Cardinality(ids) BY <2>3, <2>4, <3>1, FS_Subset
    <3>3. QED BY <2>4, <2>5, <3>2
  <2>9. CASE \E v \in ids : v \notin Alive
    <3>1. Cardinality(Alive') <= n BY <2>4, <2>5, <2>6, <2>8, <2>9
    <3>2. QED BY <2>4, <2>5, <2>6, <3>1, CapAssumption DEF Most, n
  <2>10. QED BY <2>3, <2>7, <2>9
<1>2. KernelInv /\ [Next]_vars => [KeepsCap]_vars
  BY <1>1
<1>3. QED
  BY <1>2, Invariance, PTL DEF Spec, StartKeepsCap
====
