------------------------- MODULE FileTransferProofs -------------------------
(***************************************************************************)
(* Proofs about the transfers, for any calls, bodies, cap and failures.    *)
(***************************************************************************)
EXTENDS FileTransfer, TLAPS

Landed == {"close", "stat", "delete", "rename"}

\* The types without the bound that the cap puts on temporary files.
Types ==
    /\ target \in FileType
    /\ temp \in [Calls -> FileType]
    /\ tool \in [Calls -> AllTools]
    /\ overwrite \in [Calls -> BOOLEAN]
    /\ size \in [Calls -> 0..MaxPieces]
    /\ pc \in [Calls -> {"idle", "cleanup"} \cup Requests \cup Ended]
    /\ sent \in [Calls -> 0..(MaxPieces + 1)]
    /\ cancelled \subseteq Calls
    /\ touched \subseteq Calls

\* What a call has at the server when it makes a request: so many pieces as it
\* has sent, and the whole body once it is past the last one.
Progress(c) ==
    /\ pc[c] \in {"idle", "refused"} => temp[c] = Absent /\ sent[c] = 0
    /\ pc[c] = "piece" =>
         /\ tool[c] # "upload"
         /\ \/ sent[c] = 0 /\ temp[c] = Absent
            \/ sent[c] > 0 /\ sent[c] < size[c] /\ temp[c] = File(c, sent[c])
    /\ pc[c] \in Landed => temp[c] = File(c, size[c]) /\ sent[c] >= size[c]
    /\ pc[c] = "put" => tool[c] = "upload"

\* No temporary file outgrows the cap.
Capped(c) ==
    /\ pc[c] # "idle" /\ tool[c] = "download" => size[c] <= Cap
    /\ temp[c] # Absent => temp[c].pieces <= Cap

\* A call that has not started has left no trace, and one that transfers in
\* pieces touches the path only when all of them are sent.
Traces(c) ==
    /\ c \in touched => pc[c] # "idle"
    /\ c \in touched /\ tool[c] # "upload" => sent[c] >= size[c]
    /\ target # Absent /\ target.by = c => pc[c] # "idle"

TransferInv ==
    /\ Types
    /\ \A c \in Calls : Progress(c) /\ Capped(c) /\ Traces(c)
    /\ NeverPartial

LEMMA InvInit == Init => TransferInv
BY TransferAssumption
DEF Init, TransferInv, Types, Progress, Capped, Traces, NeverPartial, File, FileType,
    AllTools, Requests, Ended, Broken, Landed

-----------------------------------------------------------------------------
\* What a served request leaves: it disturbs the files of no other call, the path
\* gets nothing but a whole body, and only once that body is at the server.
LEMMA ServedEffect ==
    ASSUME TransferInv, NEW c \in Calls, Served(c)
    PROVE  /\ target' \in FileType
           /\ temp' \in [Calls -> FileType]
           /\ touched' \subseteq touched \cup {c}
           /\ \A d \in Calls \ {c} : temp'[d] = temp[d]
           /\ c \in touched' /\ tool[c] # "upload" => sent[c] >= size[c]
           /\ target' \in {Absent, target, File(c, size[c])}
           /\ temp'[c] # Absent => temp'[c].pieces <= Cap
           /\ pc[c] = "piece" =>
                /\ sent[c] < size[c] \/ (sent[c] = 0 /\ size[c] = 0)
                /\ temp'[c] = File(c, IF size[c] = 0 THEN 0 ELSE sent[c] + 1)
           /\ pc[c] \in {"close", "stat", "delete"} => temp'[c] = temp[c]
<1> USE TransferAssumption
<1> USE DEF Requests, AllTools, Ended, Broken
<1>0. /\ Types /\ Progress(c) /\ Capped(c) /\ Traces(c)
      /\ size[c] \in 0..MaxPieces /\ sent[c] \in 0..(MaxPieces + 1)
      /\ size[c] \in Nat /\ sent[c] \in Nat
  BY DEF TransferInv, Types
<1>1. CASE pc[c] = "piece" /\ InReach(c) /\ PieceServed(c)
  <2> DEFINE n == IF size[c] = 0 THEN 0 ELSE sent[c] + 1
  <2>1. sent[c] < size[c] \/ (sent[c] = 0 /\ size[c] = 0)
    BY <1>0, <1>1 DEF Progress
  <2>2. n \in 0..MaxPieces /\ n \in Nat
    BY <1>0, <2>1
  <2>3. n <= Cap
    <3>1. CASE tool[c] = "fetch" BY <1>0, <1>1, <2>1, <3>1 DEF InReach
    <3>2. CASE tool[c] # "fetch"
      <4>1. tool[c] = "download" BY <1>0, <1>1, <3>2 DEF Types, Progress
      <4>2. QED BY <1>0, <1>1, <2>1, <4>1 DEF Capped
    <3>3. QED BY <3>1, <3>2
  <2>4. temp' = [temp EXCEPT ![c] = File(c, n)]
    <3>1. CASE sent[c] = 0
      BY <1>0, <1>1, <3>1 DEF PieceServed, ChunkNumber, Types
    <3>2. CASE sent[c] # 0
      <4>1. temp[c] = File(c, sent[c]) /\ size[c] # 0
        BY <1>0, <1>1, <3>2 DEF Progress
      <4>2. temp[c] # Absent
        BY <1>0, <4>1 DEF File
      <4>3. temp[c].pieces = sent[c] /\ temp \in [Calls -> FileType] /\ ~ (sent[c] + 1 <= 1)
        BY <1>0, <3>2, <4>1 DEF File, Types
      <4>4. temp' = [temp EXCEPT ![c] = File(c, temp[c].pieces + 1)]
        BY <1>1, <4>2, <4>3 DEF PieceServed, ChunkNumber
      <4>5. QED BY <4>1, <4>3, <4>4
    <3>3. QED BY <3>1, <3>2
  <2>5. File(c, n) \in FileType /\ File(c, n).pieces = n
    BY <2>2 DEF File, FileType
  <2>6. QED
    BY <1>0, <1>1, <2>1, <2>3, <2>4, <2>5 DEF Types, PieceServed, Traces
<1>2. CASE pc[c] = "delete" /\ DeleteServed(c)
  BY <1>0, <1>2 DEF DeleteServed, Types, Progress, Capped, Landed, FileType
<1>3. CASE pc[c] = "rename" /\ RenameServed(c)
  <2>1. temp[c] = File(c, size[c]) /\ sent[c] >= size[c]
    BY <1>0, <1>3 DEF Progress, Landed
  <2>2. CASE target = Absent
    BY <1>0, <1>3, <2>1, <2>2 DEF RenameServed, Types, FileType
  <2>3. CASE target # Absent
    BY <1>0, <1>3, <2>1, <2>3 DEF RenameServed, Types, Capped
  <2>4. QED BY <2>2, <2>3
<1>4. CASE pc[c] = "put" /\ PutServed(c)
  BY <1>0, <1>4 DEF PutServed, Types, Progress, Capped, File, FileType
<1>5. CASE pc[c] \in {"close", "stat"} /\ UNCHANGED <<target, temp, touched>>
  BY <1>0, <1>5 DEF Types, Capped, Traces
<1>6. QED BY <1>1, <1>2, <1>3, <1>4, <1>5 DEF Served

\* A call that breaks off, its request served or not, leaves the invariant.
LEMMA BreakOff ==
    ASSUME TransferInv, NEW c \in Calls,
           Served(c) \/ UNCHANGED <<target, temp, touched>>,
           pc[c] # "idle", NEW r \in {"cleanup"} \cup Broken, pc' = [pc EXCEPT ![c] = r],
           UNCHANGED <<args, sent>>, cancelled' \subseteq Calls
    PROVE  TransferInv'
<1> USE TransferAssumption
<1>0. Types /\ (\A d \in Calls : Progress(d) /\ Capped(d) /\ Traces(d)) /\ NeverPartial
  BY DEF TransferInv
<1>1. /\ target' \in FileType
      /\ temp' \in [Calls -> FileType]
      /\ touched' \subseteq touched \cup {c}
      /\ \A d \in Calls \ {c} : temp'[d] = temp[d]
      /\ c \in touched' /\ tool[c] # "upload" => sent[c] >= size[c]
      /\ target' \in {Absent, target, File(c, size[c])}
      /\ temp'[c] # Absent => temp'[c].pieces <= Cap
  <2>1. CASE Served(c) BY <2>1, ServedEffect
  <2>2. CASE UNCHANGED <<target, temp, touched>>
    BY <1>0, <2>2 DEF Types, Traces, Capped
  <2>3. QED BY <2>1, <2>2
<1>2. pc'[c] \in {"cleanup"} \cup Broken /\ \A d \in Calls \ {c} : pc'[d] = pc[d]
  BY <1>0 DEF Types
<1>3. Types'
  BY <1>0, <1>1 DEF Types, args, Ended, Broken
<1>4. ASSUME NEW d \in Calls PROVE (Progress(d) /\ Capped(d) /\ Traces(d))'
  <2>1. CASE d = c
    BY <1>0, <1>1, <1>2, <2>1 DEF Progress, Capped, Traces, Landed, Broken, args
  <2>2. CASE d # c
    <3>1. /\ pc'[d] = pc[d] /\ temp'[d] = temp[d] /\ tool'[d] = tool[d] /\ size'[d] = size[d]
          /\ sent'[d] = sent[d] /\ (d \in touched' => d \in touched)
      BY <1>1, <1>2, <2>2 DEF args
    <3>2. target' # Absent /\ target'.by = d => target # Absent /\ target.by = d
      BY <1>1, <2>2 DEF File
    <3>3. QED BY <1>0, <3>1, <3>2 DEF Progress, Capped, Traces
  <2>3. QED BY <2>1, <2>2
<1>5. NeverPartial'
  BY <1>0, <1>1 DEF NeverPartial, File, args
<1>6. QED BY <1>3, <1>4, <1>5 DEF TransferInv

\* A call that gets its answer and goes on keeps the invariant when it keeps its
\* own part of it.
LEMMA GoesOn ==
    ASSUME TransferInv, NEW c \in Calls, Served(c), UNCHANGED <<args, cancelled>>,
           NEW r \in {"idle", "cleanup"} \cup Requests \cup Ended, pc' = [pc EXCEPT ![c] = r],
           NEW n \in 0..(MaxPieces + 1), sent' = [sent EXCEPT ![c] = n], n >= sent[c],
           r # "idle", (Progress(c) /\ Capped(c))'
    PROVE  TransferInv'
<1> USE TransferAssumption
<1>0. Types /\ (\A d \in Calls : Progress(d) /\ Capped(d) /\ Traces(d)) /\ NeverPartial
  BY DEF TransferInv
<1>1. /\ target' \in FileType
      /\ temp' \in [Calls -> FileType]
      /\ touched' \subseteq touched \cup {c}
      /\ \A d \in Calls \ {c} : temp'[d] = temp[d]
      /\ c \in touched' /\ tool[c] # "upload" => sent[c] >= size[c]
      /\ target' \in {Absent, target, File(c, size[c])}
  BY ServedEffect
<1>2. Types'
  BY <1>0, <1>1 DEF Types, args
<1>3. pc'[c] = r /\ sent'[c] = n /\ size'[c] = size[c] /\ tool'[c] = tool[c]
  BY <1>0 DEF Types, args
<1>4. ASSUME NEW d \in Calls PROVE (Progress(d) /\ Capped(d) /\ Traces(d))'
  <2>1. CASE d = c
    <3>1. sent[c] >= size[c] => n >= size[c]
      BY <1>0 DEF Types
    <3>2. QED BY <1>1, <1>3, <2>1, <3>1 DEF Traces
  <2>2. CASE d # c
    <3>1. /\ pc'[d] = pc[d] /\ temp'[d] = temp[d] /\ tool'[d] = tool[d] /\ size'[d] = size[d]
          /\ sent'[d] = sent[d] /\ (d \in touched' => d \in touched)
      BY <1>0, <1>1, <2>2 DEF args, Types
    <3>2. target' # Absent /\ target'.by = d => target # Absent /\ target.by = d
      BY <1>1, <2>2 DEF File
    <3>3. QED BY <1>0, <3>1, <3>2 DEF Progress, Capped, Traces
  <2>3. QED BY <2>1, <2>2
<1>5. NeverPartial'
  BY <1>0, <1>1 DEF NeverPartial, File, args
<1>6. QED BY <1>2, <1>4, <1>5 DEF TransferInv

LEMMA SucceedsKeeps == ASSUME TransferInv, NEW c \in Calls, Succeeds(c) PROVE TransferInv'
<1> USE TransferAssumption
<1> USE DEF Requests, Ended, Broken, AllTools
<1>0. /\ Types /\ Progress(c) /\ Capped(c) /\ Served(c)
      /\ size[c] \in Nat /\ sent[c] \in 0..(MaxPieces + 1) /\ size[c] <= MaxPieces
      /\ UNCHANGED <<args, cancelled>> /\ size'[c] = size[c] /\ tool'[c] = tool[c]
  BY DEF TransferInv, Types, Succeeds, args
<1>1. temp'[c] # Absent => temp'[c].pieces <= Cap
  BY <1>0, ServedEffect
<1>2. CASE pc[c] = "piece"
  <2>1. /\ sent[c] < size[c] \/ (sent[c] = 0 /\ size[c] = 0)
        /\ temp'[c] = File(c, IF size[c] = 0 THEN 0 ELSE sent[c] + 1)
    BY <1>0, <1>2, ServedEffect
  <2>2. /\ pc' = [pc EXCEPT ![c] = AfterPiece(c)] /\ sent' = [sent EXCEPT ![c] = sent[c] + 1]
        /\ tool[c] # "upload"
    BY <1>0, <1>2 DEF Succeeds, Answered, Progress, Types
  <2>3. sent[c] + 1 \in 0..(MaxPieces + 1) /\ sent[c] + 1 > 0 /\ sent[c] + 1 >= sent[c]
    BY <1>0, <2>1
  <2>4. pc'[c] = AfterPiece(c) /\ sent'[c] = sent[c] + 1
    BY <1>0, <2>2 DEF Types
  <2>5. AfterPiece(c) \in {"piece", "close", "stat", "rename"}
    BY DEF AfterPiece, Swap
  <2>6. AfterPiece(c) = "piece" => sent[c] + 1 < size[c] /\ size[c] # 0
    BY <1>0 DEF AfterPiece, BodySent, Swap
  <2>7. AfterPiece(c) # "piece" =>
          sent[c] + 1 >= size[c] /\ (size[c] # 0 => sent[c] + 1 = size[c])
    BY <1>0, <2>1 DEF AfterPiece, BodySent
  <2>8. Progress(c)'
    BY <1>0, <2>1, <2>2, <2>3, <2>4, <2>5, <2>6, <2>7 DEF Progress, Landed
  <2>9. Capped(c)'
    BY <1>0, <1>1, <1>2 DEF Capped
  <2>10. QED BY <1>0, <2>2, <2>3, <2>5, <2>8, <2>9, GoesOn
<1>3. CASE pc[c] # "piece"
  <2>1. pc[c] \in {"put", "close", "stat", "delete", "rename"}
    BY <1>3 DEF Succeeds
  <2>2. PICK r \in Requests \cup Ended \cup {"cleanup"} :
          /\ pc' = [pc EXCEPT ![c] = r]
          /\ pc[c] \in {"close", "stat", "delete"} => r \in {"stat", "delete", "rename"}
          /\ pc[c] \in {"put", "rename"} => r \in {"done", "cleanup"}
    <3>1. CASE pc[c] = "close" BY <3>1, <1>0 DEF Succeeds, Answered, Swap, Types
    <3>2. CASE pc[c] = "stat" BY <3>2, <1>0 DEF Succeeds, Answered, Types
    <3>3. CASE pc[c] = "delete" BY <3>3, <1>0 DEF Succeeds, Answered, Types
    <3>4. CASE pc[c] = "rename" BY <3>4, <1>0 DEF Succeeds, Answered, Types
    <3>5. CASE pc[c] = "put" BY <3>5, <1>0 DEF Succeeds, Answered, Types
    <3>6. QED BY <2>1, <3>1, <3>2, <3>3, <3>4, <3>5
  <2>3. sent' = [sent EXCEPT ![c] = sent[c]] /\ sent'[c] = sent[c] /\ pc'[c] = r
    BY <1>0, <1>3, <2>2 DEF Succeeds, Answered, Types
  <2>4. pc[c] \in {"close", "stat", "delete"} => temp'[c] = temp[c]
    BY <1>0, ServedEffect
  <2>5. Progress(c)'
    BY <1>0, <2>1, <2>2, <2>3, <2>4 DEF Progress, Landed
  <2>6. Capped(c)'
    BY <1>0, <1>1, <2>1 DEF Capped
  <2>7. sent[c] >= sent[c]
    BY <1>0
  <2>8. QED BY <1>0, <2>2, <2>3, <2>5, <2>6, <2>7, GoesOn
<1>4. QED BY <1>2, <1>3

LEMMA StartKeeps == ASSUME TransferInv, NEW c \in Calls, Start(c) PROVE TransferInv'
<1> USE TransferAssumption
<1>0. Types /\ (\A d \in Calls : Progress(d) /\ Capped(d) /\ Traces(d)) /\ NeverPartial
  BY DEF TransferInv
<1>1. PICK t \in Tools, o \in BOOLEAN, n \in 0..MaxPieces, r \in {"refused", "put", "piece"} :
        /\ pc[c] = "idle"
        /\ t = "download" => n <= Cap
        /\ tool' = [tool EXCEPT ![c] = t]
        /\ overwrite' = [overwrite EXCEPT ![c] = o]
        /\ size' = [size EXCEPT ![c] = n]
        /\ pc' = [pc EXCEPT ![c] = r]
        /\ r = "put" => t = "upload"
        /\ r = "piece" => t # "upload"
        /\ UNCHANGED <<target, temp, sent, cancelled, touched>>
  BY DEF Start
<1>2. Types'
  BY <1>0, <1>1 DEF Types, Requests, Ended, Broken
<1>3. ASSUME NEW d \in Calls PROVE (Progress(d) /\ Capped(d) /\ Traces(d))'
  <2>1. CASE d = c
    <3>1. /\ pc'[c] = r /\ tool'[c] = t /\ size'[c] = n /\ sent'[c] = sent[c]
          /\ temp'[c] = temp[c]
      BY <1>0, <1>1 DEF Types
    <3>2. temp[c] = Absent /\ sent[c] = 0 /\ c \notin touched
      BY <1>0, <1>1 DEF Progress, Traces
    <3>3. QED BY <1>0, <1>1, <2>1, <3>1, <3>2 DEF Progress, Capped, Traces, Landed
  <2>2. CASE d # c
    <3>1. /\ pc'[d] = pc[d] /\ tool'[d] = tool[d] /\ size'[d] = size[d]
          /\ sent' = sent /\ temp' = temp /\ touched' = touched /\ target' = target
      BY <1>0, <1>1, <2>2 DEF Types
    <3>2. QED BY <1>0, <3>1 DEF Progress, Capped, Traces
  <2>3. QED BY <2>1, <2>2
<1>4. NeverPartial'
  BY <1>0, <1>1 DEF NeverPartial, Traces, Types
<1>5. QED BY <1>2, <1>3, <1>4 DEF TransferInv

LEMMA CleanupKeeps ==
    ASSUME TransferInv, NEW c \in Calls, pc[c] = "cleanup",
           temp' = [temp EXCEPT ![c] = Absent], pc' = [pc EXCEPT ![c] = "raised"],
           UNCHANGED <<target, args, sent, cancelled, touched>>
    PROVE  TransferInv'
<1> USE TransferAssumption
<1>0. Types /\ (\A d \in Calls : Progress(d) /\ Capped(d) /\ Traces(d)) /\ NeverPartial
  BY DEF TransferInv
<1>1. Types'
  BY <1>0 DEF Types, args, Ended, Broken, FileType
<1>2. ASSUME NEW d \in Calls PROVE (Progress(d) /\ Capped(d) /\ Traces(d))'
  <2>1. /\ tool' = tool /\ size' = size /\ sent' = sent /\ touched' = touched
        /\ target' = target
    BY DEF args
  <2>2. CASE d = c
    <3>1. pc'[d] = "raised" /\ temp'[d] = Absent
      BY <1>0, <2>2 DEF Types
    <3>2. QED BY <1>0, <2>1, <2>2, <3>1 DEF Progress, Capped, Traces, Landed
  <2>3. CASE d # c
    <3>1. pc'[d] = pc[d] /\ temp'[d] = temp[d]
      BY <1>0, <2>3 DEF Types
    <3>2. QED BY <1>0, <2>1, <3>1 DEF Progress, Capped, Traces
  <2>4. QED BY <2>2, <2>3
<1>3. NeverPartial'
  BY <1>0 DEF NeverPartial, args
<1>4. QED BY <1>1, <1>2, <1>3 DEF TransferInv

LEMMA StepKeeps == TransferInv /\ [Next]_vars => TransferInv'
<1> SUFFICES ASSUME TransferInv, [Next]_vars PROVE TransferInv'
  OBVIOUS
<1>0. Types
  BY DEF TransferInv
<1>1. ASSUME NEW c \in Calls, Start(c) PROVE TransferInv'
  BY <1>1, StartKeeps
<1>2. ASSUME NEW c \in Calls, Succeeds(c) PROVE TransferInv'
  BY <1>2, SucceedsKeeps
<1>3. ASSUME NEW c \in Calls, Fails(c) PROVE TransferInv'
  <2>1. pc[c] # "idle" /\ cancelled' \subseteq Calls
    BY <1>0, <1>3, TransferAssumption DEF Fails, Requests, Types
  <2>2. QED BY <1>3, <2>1, BreakOff DEF Fails, Failed, Broken
<1>4. ASSUME NEW c \in Calls, SourceFails(c) PROVE TransferInv'
  <2>1. pc[c] # "idle" /\ cancelled' \subseteq Calls
    BY <1>0, <1>4 DEF SourceFails, Types
  <2>2. QED BY <1>4, <2>1, BreakOff DEF SourceFails, Failed, Broken
<1>5. ASSUME NEW c \in Calls, Deadline(c) PROVE TransferInv'
  <2>1. pc[c] # "idle" /\ cancelled' \subseteq Calls
    BY <1>0, <1>5, TransferAssumption DEF Deadline, Requests, Types
  <2>2. QED BY <1>5, <2>1, BreakOff DEF Deadline, Failed, Broken
<1>6. ASSUME NEW c \in Calls, Cleanup(c) PROVE TransferInv'
  BY <1>6, CleanupKeeps DEF Cleanup
<1>7. ASSUME NEW c \in Calls, CleanupFails(c) PROVE TransferInv'
  <2>1. pc[c] # "idle" /\ cancelled' \subseteq Calls
    BY <1>0, <1>7 DEF CleanupFails, Types
  <2>2. QED BY <1>7, <2>1, BreakOff DEF CleanupFails, Broken
<1>8. CASE UNCHANGED vars
  <2>1. /\ target' = target /\ temp' = temp /\ tool' = tool /\ overwrite' = overwrite
        /\ size' = size /\ pc' = pc /\ sent' = sent /\ cancelled' = cancelled
        /\ touched' = touched
    BY <1>8 DEF vars, args
  <2>2. QED BY <2>1 DEF TransferInv, Types, Progress, Capped, Traces, NeverPartial
<1>9. QED BY <1>1, <1>2, <1>3, <1>4, <1>5, <1>6, <1>7, <1>8 DEF Next

LEMMA TransferInvHolds == Spec => []TransferInv
<1>1. QED BY InvInit, StepKeeps, PTL DEF Spec

-----------------------------------------------------------------------------
\* Whatever fails, every variable stays in its range and no temporary file
\* outgrows MAX_FETCH_BYTES (workspace.py:378-388, local_jupyter.py:252).
THEOREM TypeCorrect == Spec => []TypeOK
<1>1. TransferInv => TypeOK
  BY DEF TransferInv, Types, Capped, TypeOK
<1>2. QED BY <1>1, TransferInvHolds, PTL

\* Whatever requests fail and however many calls race for the path, what is at
\* the path is the whole of somebody's file (local_jupyter.py:229).
THEOREM NothingPartialLands == Spec => []NeverPartial
<1>1. TransferInv => NeverPartial
  BY DEF TransferInv
<1>2. QED BY <1>1, TransferInvHolds, PTL

\* A transfer that breaks off before its whole body is at the server has left the
\* path alone (local_jupyter.py:228-229).
THEOREM BrokenTransfersTouchNothing == Spec => []AbortTouchesNothing
<1>1. TransferInv => AbortTouchesNothing
  BY DEF TransferInv, Types, Traces, Broken, AbortTouchesNothing
<1>2. QED BY <1>1, TransferInvHolds, PTL

-----------------------------------------------------------------------------
\* Only a call that was asked to replaces a file, and not before its body is there.
Asked(c) ==
    /\ pc[c] \in {"piece"} \cup Landed => tool[c] # "upload"
    /\ pc[c] \in {"stat", "delete"} => overwrite[c]

\* The call that deleted the file of the path last, and has not renamed.
Owes(c) ==
    /\ c \in touched /\ overwrite[c] /\ tool[c] # "upload" /\ sent[c] >= size[c]
    /\ pc[c] \in {"rename", "cleanup"} \cup Broken

SwapInv ==
    /\ \A c \in Calls : Asked(c)
    /\ touched # {} /\ target = Absent => \E c \in Calls : Owes(c)

\* Who can have emptied the path: a deletion just now, or somebody before.
LEMMA ServedEmpties ==
    ASSUME TransferInv, NEW c \in Calls, Served(c)
    PROVE  /\ touched \subseteq touched'
           /\ touched' # {} /\ target' = Absent =>
                \/ pc[c] = "delete" /\ c \in touched'
                \/ touched # {} /\ target = Absent /\ pc[c] # "rename"
<1>0. /\ Types /\ Progress(c) /\ size[c] \in Nat
      /\ File(c, size[c]) # Absent
  BY TransferAssumption DEF TransferInv, Types, File
<1>1. CASE pc[c] = "piece" /\ PieceServed(c)
  BY <1>1 DEF PieceServed
<1>2. CASE pc[c] = "delete" /\ DeleteServed(c)
  BY <1>2 DEF DeleteServed
<1>3. CASE pc[c] = "rename" /\ RenameServed(c)
  <2>1. temp[c] = File(c, size[c])
    BY <1>0, <1>3 DEF Progress, Landed
  <2>2. QED BY <1>0, <1>3, <2>1 DEF RenameServed
<1>4. CASE pc[c] = "put" /\ PutServed(c)
  BY <1>0, <1>4 DEF PutServed
<1>5. CASE pc[c] \in {"close", "stat"} /\ UNCHANGED <<target, temp, touched>>
  BY <1>5
<1>6. QED BY <1>1, <1>2, <1>3, <1>4, <1>5 DEF Served

\* A step of c that may have emptied the path leaves somebody who owes a file.
LEMMA SwapKept ==
    ASSUME TransferInv, SwapInv, NEW c \in Calls,
           Served(c) \/ UNCHANGED <<target, temp, touched>>,
           NEW r, pc' = [pc EXCEPT ![c] = r], UNCHANGED args,
           \A d \in Calls \ {c} : sent'[d] = sent[d],
           pc[c] = "delete" /\ Served(c) => r \in {"rename", "cleanup"} /\ sent'[c] = sent[c],
           pc[c] \in {"rename", "cleanup"} \cup Broken =>
             \/ r \in {"cleanup"} \cup Broken /\ sent'[c] = sent[c]
             \/ pc[c] = "rename" /\ Served(c),
           Asked(c)'
    PROVE  SwapInv'
<1>0. Types /\ \A d \in Calls : Asked(d) /\ Progress(d)
  BY DEF TransferInv, SwapInv
<1>1. pc'[c] = r /\ \A d \in Calls \ {c} : pc'[d] = pc[d]
  BY <1>0 DEF Types
<1>2. tool' = tool /\ overwrite' = overwrite /\ size' = size
  BY DEF args
<1>3. \A d \in Calls : Asked(d)'
  BY <1>0, <1>1, <1>2 DEF Asked
<1>4. /\ touched \subseteq touched'
      /\ touched' # {} /\ target' = Absent =>
           \/ pc[c] = "delete" /\ Served(c) /\ c \in touched'
           \/ touched # {} /\ target = Absent /\ ~ (pc[c] = "rename" /\ Served(c))
  <2>1. CASE Served(c)
    BY <2>1, ServedEmpties
  <2>2. CASE ~ Served(c)
    BY <2>2
  <2>3. QED BY <2>1, <2>2
<1>5. CASE pc[c] = "delete" /\ Served(c) /\ c \in touched'
  <2>1. overwrite[c] /\ tool[c] # "upload" /\ sent[c] >= size[c]
    BY <1>0, <1>5 DEF Asked, Progress, Landed
  <2>2. Owes(c)'
    BY <1>1, <1>2, <1>5, <2>1 DEF Owes
  <2>3. QED BY <1>3, <2>2 DEF SwapInv
<1>6. CASE touched # {} /\ target = Absent /\ ~ (pc[c] = "rename" /\ Served(c))
  <2>1. PICK d \in Calls : Owes(d)
    BY <1>6 DEF SwapInv
  <2>2. CASE d = c
    <3>1. r \in {"cleanup"} \cup Broken /\ sent'[c] = sent[c]
      BY <1>6, <2>1, <2>2 DEF Owes
    <3>2. Owes(d)'
      BY <1>1, <1>2, <1>4, <2>1, <2>2, <3>1 DEF Owes
    <3>3. QED BY <1>3, <3>2 DEF SwapInv
  <2>3. CASE d # c
    <3>1. pc'[d] = pc[d] /\ sent'[d] = sent[d]
      BY <1>1, <2>3
    <3>2. Owes(d)'
      BY <1>2, <1>4, <2>1, <3>1 DEF Owes
    <3>3. QED BY <1>3, <3>2 DEF SwapInv
  <2>4. QED BY <2>2, <2>3
<1>7. CASE touched' = {} \/ target' # Absent
  BY <1>3, <1>7 DEF SwapInv
<1>8. QED BY <1>4, <1>5, <1>6, <1>7

LEMMA SwapStart == ASSUME TransferInv, SwapInv, NEW c \in Calls, Start(c) PROVE SwapInv'
<1>0. Types /\ \A d \in Calls : Asked(d)
  BY DEF TransferInv, SwapInv
<1>1. PICK t \in Tools, o \in BOOLEAN, n \in 0..MaxPieces, r \in {"refused", "put", "piece"} :
        /\ pc[c] = "idle"
        /\ tool' = [tool EXCEPT ![c] = t]
        /\ overwrite' = [overwrite EXCEPT ![c] = o]
        /\ size' = [size EXCEPT ![c] = n]
        /\ pc' = [pc EXCEPT ![c] = r]
        /\ r = "piece" => t # "upload"
        /\ UNCHANGED <<target, temp, sent, cancelled, touched>>
  BY DEF Start
<1>2. \A d \in Calls \ {c} : pc'[d] = pc[d] /\ tool'[d] = tool[d] /\ overwrite'[d] = overwrite[d] /\ size'[d] = size[d]
  BY <1>0, <1>1 DEF Types
<1>3. pc'[c] = r /\ tool'[c] = t
  BY <1>0, <1>1 DEF Types
<1>4. \A d \in Calls : Asked(d)'
  BY <1>0, <1>1, <1>2, <1>3 DEF Asked, Landed
<1>5. ASSUME NEW d \in Calls, Owes(d) PROVE Owes(d)'
  <2>1. d # c
    BY <1>1, <1>5 DEF Owes, Broken
  <2>2. QED BY <1>1, <1>2, <1>5, <2>1 DEF Owes
<1>6. QED BY <1>1, <1>4, <1>5 DEF SwapInv

LEMMA SwapStep == TransferInv /\ SwapInv /\ [Next]_vars => SwapInv'
<1> SUFFICES ASSUME TransferInv, SwapInv, [Next]_vars PROVE SwapInv'
  OBVIOUS
<1>0. Types /\ \A c \in Calls : Asked(c)
  BY DEF TransferInv, SwapInv
<1>1. ASSUME NEW c \in Calls, Succeeds(c) PROVE SwapInv'
  <2>1. PICK r : /\ pc' = [pc EXCEPT ![c] = r]
                 /\ pc[c] = "piece" => r \in {"piece", "close", "stat", "rename"} /\ (r = "stat" => overwrite[c])
                 /\ pc[c] = "close" => r \in {"stat", "rename"} /\ (r = "stat" => overwrite[c])
                 /\ pc[c] = "stat" => r \in {"delete", "rename"}
                 /\ pc[c] = "delete" => r = "rename"
                 /\ pc[c] \in {"put", "rename"} => r \in {"done", "cleanup"}
    <3>1. CASE pc[c] = "piece" BY <1>0, <1>1, <3>1 DEF Succeeds, Answered, AfterPiece, Swap, Types
    <3>2. CASE pc[c] = "close" BY <1>0, <1>1, <3>2 DEF Succeeds, Answered, Swap, Types
    <3>3. CASE pc[c] = "stat" BY <1>0, <1>1, <3>3 DEF Succeeds, Answered, Types
    <3>4. CASE pc[c] = "delete" BY <1>0, <1>1, <3>4 DEF Succeeds, Answered, Types
    <3>5. CASE pc[c] = "rename" BY <1>0, <1>1, <3>5 DEF Succeeds, Answered, Types
    <3>6. CASE pc[c] = "put" BY <1>0, <1>1, <3>6 DEF Succeeds, Answered, Types
    <3>7. QED BY <1>1, <3>1, <3>2, <3>3, <3>4, <3>5, <3>6 DEF Succeeds, Requests
  <2>2. /\ Served(c) /\ UNCHANGED args /\ (\A d \in Calls \ {c} : sent'[d] = sent[d])
        /\ pc[c] # "piece" => sent'[c] = sent[c]
    BY <1>0, <1>1 DEF Succeeds, Answered, Types
  <2>3. pc[c] \in Requests /\ pc'[c] = r /\ tool' = tool /\ overwrite' = overwrite
    BY <1>0, <1>1, <2>1, <2>2 DEF Succeeds, Types, args
  <2>4. Asked(c)'
    BY <1>0, <2>1, <2>3 DEF Asked, Landed, Requests
  <2>5. pc[c] \notin {"cleanup"} \cup Broken
    BY <2>3 DEF Requests, Broken
  <2>6. QED BY <2>1, <2>2, <2>3, <2>4, <2>5, SwapKept
<1>2. ASSUME NEW c \in Calls, Failed(c), UNCHANGED <<args, sent>>, pc[c] \in Requests,
             Served(c) \/ UNCHANGED <<target, temp, touched>>
      PROVE  SwapInv'
  <2> DEFINE r == IF tool[c] = "upload" THEN "raised" ELSE "cleanup"
  <2>1. pc' = [pc EXCEPT ![c] = r] /\ pc'[c] = r /\ r \in {"cleanup", "raised"}
    BY <1>0, <1>2 DEF Failed, Types
  <2>2. Asked(c)'
    BY <2>1 DEF Asked, Landed
  <2>3. pc[c] = "delete" => r = "cleanup"
    BY <1>0 DEF Asked, Landed
  <2>4. r \in {"cleanup"} \cup Broken
    BY <2>1 DEF Broken
  <2> HIDE DEF r
  <2>5. QED BY <1>2, <2>1, <2>2, <2>3, <2>4, SwapKept
<1>3. ASSUME NEW c \in Calls, pc[c] = "cleanup", NEW r \in Broken, pc' = [pc EXCEPT ![c] = r],
             UNCHANGED <<target, args, sent, touched>>
      PROVE  SwapInv'
  <2>1. pc'[c] = r /\ \A d \in Calls \ {c} : pc'[d] = pc[d]
    BY <1>0, <1>3 DEF Types
  <2>2. tool' = tool /\ overwrite' = overwrite /\ size' = size
    BY <1>3 DEF args
  <2>3. \A d \in Calls : Asked(d)' /\ (Owes(d) => Owes(d)')
    BY <1>0, <1>3, <2>1, <2>2 DEF Asked, Owes, Landed, Broken
  <2>4. QED BY <1>3, <2>3 DEF SwapInv
<1>4. ASSUME NEW c \in Calls, Fails(c) \/ SourceFails(c) \/ Deadline(c) PROVE SwapInv'
  BY <1>2, <1>4, TransferAssumption DEF Fails, SourceFails, Deadline, Requests
<1>5. ASSUME NEW c \in Calls, Cleanup(c) \/ CleanupFails(c) PROVE SwapInv'
  BY <1>3, <1>5 DEF Cleanup, CleanupFails, Broken
<1>6. CASE UNCHANGED vars
  BY <1>6 DEF vars, args, SwapInv, Asked, Owes
<1>7. QED BY <1>1, <1>4, <1>5, <1>6, SwapStart DEF Next

\* Only a swap that broke off between the deletion and the rename loses the file
\* of a path, however many calls race for it (local_jupyter.py:229-230, 256).
THEOREM OnlyBrokenSwapsLose == Spec => []OnlySwapsLose
<1>1. Init => SwapInv
  BY DEF Init, SwapInv, Asked, Landed
<1>2. SwapInv => OnlySwapsLose
  BY DEF SwapInv, Owes, OnlySwapsLose, Swapping, SwapBroke, Broken
<1>3. QED BY <1>1, <1>2, SwapStep, TransferInvHolds, PTL DEF Spec
=============================================================================
