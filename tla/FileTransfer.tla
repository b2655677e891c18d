---------------------------- MODULE FileTransfer ----------------------------
(***************************************************************************)
(* Files brought into the workspace (src/mcp/workspace.py: upload_file,    *)
(* fetch_to_workspace, download_from_colab) through the Jupyter Contents   *)
(* API (_write_file_chunked in src/mcp/backends/local_jupyter.py): calls   *)
(* that all want the same path.  A fetch or a download sends its body in   *)
(* pieces to a temporary name and renames it into place; an upload is one  *)
(* PUT.                                                                    *)
(*                                                                         *)
(* A step is one request and what the program does with its answer.  A     *)
(* request that fails may have been served (the answer was lost) or not; a *)
(* fetch can also be cancelled in any of them, by its own deadline.        *)
(***************************************************************************)
EXTENDS Naturals, FiniteSets, TLC

CONSTANTS
    Calls,      \* the calls, each made once
    Tools,      \* the tools they may use
    MaxPieces,  \* bound: pieces in a body
    Cap,        \* MAX_FETCH_BYTES, in pieces
    FailPoints, \* the requests that may fail
    StrayFaults,\* may the deletion of a temporary file fail, or be cancelled?
    Outside,    \* who wrote the file that may be there at first
    Absent      \* no file

AllTools == {"upload", "fetch", "download"}
Requests == {"put", "piece", "close", "stat", "delete", "rename"}

ASSUME TransferAssumption ==
    /\ Tools \subseteq AllTools
    /\ MaxPieces \in Nat
    /\ Cap \in Nat
    /\ FailPoints \subseteq Requests
    /\ StrayFaults \in BOOLEAN
    /\ Outside \notin Calls
    /\ Absent \notin [by : Calls \cup {Outside}, pieces : Nat]

VARIABLES
    target,    \* the file at the path: who wrote it and how many pieces it has
    temp,      \* the temporary file of each call
    tool, overwrite, size, \* the arguments of a call, and the pieces of its body
    pc,        \* the request a call makes next, or how it ended
    sent,      \* pieces sent
    cancelled, \* calls whose deadline has passed
    touched    \* calls that have changed the target: a history variable

args == <<tool, overwrite, size>>
vars == <<target, temp, args, pc, sent, cancelled, touched>>

File(by, n) == [by |-> by, pieces |-> n]

-----------------------------------------------------------------------------
(* Starting *)

\* What a look at the path may say: an error answer reads as a free path.
Looks == {target # Absent} \cup IF "stat" \in FailPoints THEN {FALSE} ELSE {}

\* Without overwrite, upload_file and fetch_to_workspace refuse a path that is
\* taken; download_from_colab always overwrites, and has checked the size of
\* the body on its own disk.
Start(c) ==
    /\ pc[c] = "idle"
    /\ \E t \in Tools, o \in BOOLEAN, n \in 0..MaxPieces, taken \in Looks :
        /\ t = "download" => o /\ n <= Cap
        /\ tool' = [tool EXCEPT ![c] = t]
        /\ overwrite' = [overwrite EXCEPT ![c] = o]
        /\ size' = [size EXCEPT ![c] = n]
        /\ pc' = [pc EXCEPT ![c] =
                    IF ~ o /\ taken THEN "refused"
                    ELSE IF t = "upload" THEN "put" ELSE "piece"]
    /\ UNCHANGED <<target, temp, sent, cancelled, touched>>

-----------------------------------------------------------------------------
(* What each request does at the Jupyter server *)

\* The source has a piece to send: the next one is read before this one is sent,
\* and one that would exceed the cap is never given.
InReach(c) == tool[c] = "fetch" => size[c] <= Cap \/ sent[c] + 1 < Cap

\* The number a piece is sent under: 1 creates the file, the others append.
ChunkNumberFromZero(c) == sent[c]

ChunkNumber(c) == sent[c] + 1

PieceServed(c) ==
    /\ temp' = [temp EXCEPT ![c] =
                  IF ChunkNumber(c) <= 1 \/ @ = Absent
                  THEN File(c, IF size[c] = 0 THEN 0 ELSE 1)
                  ELSE File(c, @.pieces + 1)]
    /\ UNCHANGED <<target, touched>>

\* The path is freed; nothing happens when it is free already.
DeleteServed(c) ==
    /\ touched' = IF target = Absent THEN touched ELSE touched \cup {c}
    /\ target' = Absent
    /\ UNCHANGED temp

\* Rename refuses a destination that exists.
RenameServed(c) ==
    /\ IF target = Absent
       THEN /\ target' = temp[c]
            /\ temp' = [temp EXCEPT ![c] = Absent]
            /\ touched' = touched \cup {c}
       ELSE UNCHANGED <<target, temp, touched>>

PutServed(c) ==
    /\ target' = File(c, size[c])
    /\ touched' = touched \cup {c}
    /\ UNCHANGED temp

Served(c) ==
    \/ pc[c] = "piece" /\ InReach(c) /\ PieceServed(c)
    \/ pc[c] = "delete" /\ DeleteServed(c)
    \/ pc[c] = "rename" /\ RenameServed(c)
    \/ pc[c] = "put" /\ PutServed(c)
    \/ pc[c] \in {"close", "stat"} /\ UNCHANGED <<target, temp, touched>>

-----------------------------------------------------------------------------
(* What the call does with the answer *)

\* A wrong order: the rename does not wait for the last piece.
BodySentEarly(c) == sent[c] + 1 >= size[c] - 1

BodySent(c) == sent[c] + 1 >= size[c]

\* The body is in place under the temporary name.
Swap(c) == IF overwrite[c] THEN "stat" ELSE "rename"

AfterPiece(c) ==
    IF ~ BodySent(c) THEN "piece"
    ELSE IF size[c] = 1 THEN "close" ELSE Swap(c)

Answered(c) ==
    /\ \E taken \in IF pc[c] = "stat" THEN Looks ELSE {FALSE} :
        pc' = [pc EXCEPT ![c] =
                CASE @ = "piece" -> AfterPiece(c)
                  [] @ = "close" -> Swap(c)
                  [] @ = "stat" -> IF taken THEN "delete" ELSE "rename"
                  [] @ = "delete" -> "rename"
                  [] @ = "rename" -> IF target = Absent THEN "done" ELSE "cleanup"
                  [] @ = "put" -> "done"]
    /\ sent' = [sent EXCEPT ![c] = IF pc[c] = "piece" THEN @ + 1 ELSE @]

Succeeds(c) ==
    /\ pc[c] \in Requests
    /\ Served(c)
    /\ Answered(c)
    /\ UNCHANGED <<args, cancelled>>

\* upload_file has nothing to clean up; the others delete their temporary file.
Failed(c) ==
    pc' = [pc EXCEPT ![c] = IF tool[c] = "upload" THEN "raised" ELSE "cleanup"]

\* The request fails, before or after it was served.
Fails(c) ==
    /\ pc[c] \in FailPoints
    /\ \/ Served(c)
       \/ UNCHANGED <<target, temp, touched>>
    /\ Failed(c)
    /\ UNCHANGED <<args, sent, cancelled>>

\* The source fails, or gives more than the cap.
SourceFails(c) ==
    /\ pc[c] = "piece"
    /\ ~ InReach(c) \/ "piece" \in FailPoints
    /\ Failed(c)
    /\ UNCHANGED <<target, temp, touched, args, sent, cancelled>>

NoDeadline(c) == FALSE /\ UNCHANGED vars

\* fetch_to_workspace bounds the whole call: asyncio.timeout cancels it.
Deadline(c) ==
    /\ tool[c] = "fetch"
    /\ pc[c] \in FailPoints
    /\ \/ Served(c)
       \/ UNCHANGED <<target, temp, touched>>
    /\ Failed(c)
    /\ cancelled' = cancelled \cup {c}
    /\ UNCHANGED <<args, sent>>

\* A wrong handler: it deletes the path instead of the temporary file.
CleanupOfTarget(c) ==
    /\ pc[c] = "cleanup"
    /\ DeleteServed(c)
    /\ pc' = [pc EXCEPT ![c] = "raised"]
    /\ UNCHANGED <<args, sent, cancelled>>

\* A wrong handler: `except Exception` lets a cancellation through.
CleanupOfErrors(c) ==
    /\ pc[c] = "cleanup"
    /\ temp' = [temp EXCEPT ![c] = IF c \in cancelled THEN @ ELSE Absent]
    /\ pc' = [pc EXCEPT ![c] = "raised"]
    /\ UNCHANGED <<target, args, sent, cancelled, touched>>

Cleanup(c) ==
    /\ pc[c] = "cleanup"
    /\ temp' = [temp EXCEPT ![c] = Absent]
    /\ pc' = [pc EXCEPT ![c] = "raised"]
    /\ UNCHANGED <<target, args, sent, cancelled, touched>>

\* The deletion of the temporary file fails, or the call's deadline cancels it.
CleanupFails(c) ==
    /\ StrayFaults
    /\ pc[c] = "cleanup"
    /\ pc' = [pc EXCEPT ![c] = "stranded"]
    /\ UNCHANGED <<target, temp, args, sent, cancelled, touched>>

Init ==
    /\ target \in {Absent, File(Outside, 0)}
    /\ temp = [c \in Calls |-> Absent]
    /\ tool = [c \in Calls |-> "upload"]
    /\ overwrite = [c \in Calls |-> FALSE]
    /\ size = [c \in Calls |-> 0]
    /\ pc = [c \in Calls |-> "idle"]
    /\ sent = [c \in Calls |-> 0]
    /\ cancelled = {}
    /\ touched = {}

Next ==
    \/ \E c \in Calls : Start(c)
    \/ \E c \in Calls : Succeeds(c)
    \/ \E c \in Calls : Fails(c)
    \/ \E c \in Calls : SourceFails(c)
    \/ \E c \in Calls : Deadline(c)
    \/ \E c \in Calls : Cleanup(c)
    \/ \E c \in Calls : CleanupFails(c)

Spec == Init /\ [][Next]_vars

\* Requests to Jupyter end (the client has a timeout on each); the source of a
\* fetch may stall for ever, but its deadline passes.
Answering(c) ==
    /\ tool[c] = "fetch" => pc[c] # "piece"
    /\ Succeeds(c) \/ Fails(c)

Fairness ==
    \A c \in Calls :
        /\ WF_vars(Answering(c))
        /\ WF_vars(Deadline(c))
        /\ WF_vars(Cleanup(c))

FairSpec == Spec /\ Fairness

-----------------------------------------------------------------------------
(* Properties *)

Broken == {"raised", "stranded"}
Ended == {"refused", "done"} \cup Broken

FileType == [by : Calls \cup {Outside}, pieces : 0..MaxPieces] \cup {Absent}

\* The variables are in their range; no temporary file outgrows the cap.
TypeOK ==
    /\ target \in FileType
    /\ \A c \in Calls : temp[c] \in FileType /\ (temp[c] # Absent => temp[c].pieces <= Cap)
    /\ tool \in [Calls -> AllTools]
    /\ overwrite \in [Calls -> BOOLEAN]
    /\ size \in [Calls -> 0..MaxPieces]
    /\ pc \in [Calls -> {"idle", "cleanup"} \cup Requests \cup Ended]
    /\ sent \in [Calls -> 0..(MaxPieces + 1)]
    /\ cancelled \subseteq Calls
    /\ touched \subseteq Calls

\* What is at the path is the whole of somebody's file, whichever pieces failed
\* to arrive (local_jupyter.py:229: "no partial file masquerading as
\* content").
NeverPartial ==
    target # Absent /\ target.by \in Calls => target.pieces = size[target.by]

\* A call that has failed before its whole body was at the server has not
\* touched the path (local_jupyter.py:228-229).
AbortTouchesNothing ==
    \A c \in Calls :
        pc[c] \in {"cleanup"} \cup Broken /\ tool[c] # "upload" /\ sent[c] < size[c] =>
            c \notin touched

Swapping(c) == pc[c] = "rename" /\ overwrite[c]

\* The call's swap of the old file for the new one broke off half-way: its whole
\* body was at the server, and the file of the path was deleted for it.
SwapBroke(c) ==
    /\ pc[c] \in {"cleanup"} \cup Broken
    /\ tool[c] # "upload" /\ overwrite[c] /\ sent[c] >= size[c] /\ c \in touched

\* A path that held a file holds one, except while a call replaces it
\* (local_jupyter.py:229-230: "no good file clobbered by a failed overwrite").
FileSurvives ==
    touched # {} => target # Absent \/ \E c \in Calls : Swapping(c)

\* Nothing but a broken swap loses the file of a path: not a body that stopped
\* arriving, not the cleanup after it, not a call that may not overwrite.
OnlySwapsLose ==
    touched # {} /\ target = Absent => \E c \in Calls : Swapping(c) \/ SwapBroke(c)

\* Only a call told to overwrite replaces a file (workspace.py:251, 371).
NoOverwriteUnasked ==
    [][\A c \in Calls : c \in touched' \ touched /\ ~ overwrite[c] => target = Absent]_vars

\* A call that is over, a cancelled one included, and has left no temporary file
\* behind, unless its cleanup failed (ADR 0021: "leaves a stray <name>.partial-*
\* only if the best-effort delete also fails").
EndedCleanly(c) == pc[c] \in Ended /\ (temp[c] = Absent \/ pc[c] = "stranded")

\* Every call that starts ends so, a fetch from a source that stalls included.
TransferEnds == \A c \in Calls : pc[c] # "idle" ~> [](EndedCleanly(c))
=============================================================================
