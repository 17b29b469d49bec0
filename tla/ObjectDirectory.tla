--------------------------- MODULE ObjectDirectory ---------------------------
(* How a checkpoint writes its directories: the frames of the process        *)
(* directory in phase 2, and in phase 3 the entries of the working           *)
(* generation, into the generation header and then into frames that are      *)
(* filled, written and filled again until no entry is left. The checkpoint   *)
(* thread, the end-of-I/O handlers, the disk and whoever else allocates page *)
(* frames take turns. Sources: kern_Ckpt.c, kern_IOReq.c.                    *)
(*                                                                           *)
(* The entries are numbered in the order of the scan of the generation,      *)
(* which module LogDirectory is about.                                       *)
EXTENDS Integers, Sequences, FiniteSets

CONSTANTS
    NEntries,     \* entries of the working generation
    HdrRoom,      \* entries that fit in the generation header
    FrameRoom,    \* entries that fit in a frame
    NReserved,    \* page frames reserved by DoPhase1Work
    NProcFrames,  \* how many of them hold process descriptors
    NDirty,       \* KRO pages to be cleaned in phase 2
    NCleaning,    \* KTUNE_NIOREQS_CLEANING
    MaxLid        \* bound: number of log frames

ASSUME ConstantsAssumption ==
    /\ NEntries \in Nat \ {0} /\ HdrRoom \in Nat /\ FrameRoom \in Nat \ {0}
    /\ NReserved \in Nat /\ NProcFrames \in 0 .. NReserved
    /\ NDirty \in Nat /\ NCleaning \in Nat \ {0}
    /\ MaxLid \in Nat /\ MaxLid > NProcFrames + NDirty + NEntries

VARIABLES
    phase,         \* 2 to 4, and 5 when the generation header is on disk
    reservedPages,
    procWritten,   \* ProcDirFramesWritten: frames before it are enqueued
    numKRODirtyPages,
    content,       \* what each frame holds
    ioreq,         \* the frames whose pageH->ioreq is not NULL
    released,      \* the frames given back by ReleasePageFrame
    freeCleaning,  \* number of IORequests on freeIOReqsCleaning
    queue, served, \* requests on the IORQ, and whether the first is transferred
    disk,          \* what each log frame holds
    firstDirFrame, nDirFrames,  \* objectDir in the generation header
    hdrEntries,    \* entries put into the header
    saved,         \* entries scanned: numDirEntsToSave is NEntries - saved
    ckptWait,      \* what the checkpoint thread sleeps on
    logCursor

vars == <<phase, reservedPages, procWritten, numKRODirtyPages, content, ioreq,
          released, freeCleaning, queue, served, disk, firstDirFrame,
          nDirFrames, hdrEntries, saved, ckptWait, logCursor>>

Frame == 1 .. NReserved
Lid == 1 .. MaxLid
\* A page of entries lo .. hi, of process descriptors, or of something else.
Content == [kind : {"entries"}, lo : 1 .. NEntries, hi : 1 .. NEntries]
             \cup [kind : {"procs"}, lo : Frame, hi : Frame]
             \cup [kind : {"other"}, lo : {0}, hi : {0}]
Other == [kind |-> "other", lo |-> 0, hi |-> 0]
Request == [op : {"clean", "procs", "entries", "hdr"}, frame : 0 .. NReserved,
            lid : Lid]

TypeOK ==
    /\ phase \in 2 .. 5
    /\ reservedPages \in Seq(Frame)
    /\ procWritten \in 0 .. NProcFrames
    /\ numKRODirtyPages \in 0 .. NDirty
    /\ content \in [Frame -> Content]
    /\ ioreq \subseteq Frame
    /\ released \subseteq Frame
    /\ freeCleaning \in 0 .. NCleaning
    /\ queue \in Seq(Request)
    /\ served \in BOOLEAN
    /\ disk \in [Lid -> Content]
    /\ firstDirFrame \in 0 .. MaxLid /\ nDirFrames \in 0 .. NEntries
    /\ hdrEntries \in 0 .. NEntries
    /\ saved \in 0 .. NEntries
    /\ ckptWait \in {"none", "ioreq", "dirs", "hdr"}
    /\ logCursor \in 1 .. MaxLid + 1

(* The end of phase 1. The process directory has the first log frames, and   *)
(* the first of the reserved page frames.                                    *)
Init ==
    /\ phase = 2
    /\ reservedPages = [i \in Frame |-> i]
    /\ procWritten = 0
    /\ numKRODirtyPages = NDirty
    /\ content = [f \in Frame |-> IF f > NProcFrames THEN Other
                                  ELSE [kind |-> "procs", lo |-> f, hi |-> f]]
    /\ ioreq = {}
    /\ released = {}
    /\ freeCleaning = NCleaning
    /\ queue = <<>> /\ served = FALSE
    /\ disk = [l \in Lid |-> Other]
    /\ firstDirFrame = 0 /\ nDirFrames = 0
    /\ hdrEntries = 0
    /\ saved = 0
    /\ ckptWait = "none"
    /\ logCursor = NProcFrames + 1

numDirEntsToSave == NEntries - saved

\* The number of entries WriteDirEntsToPage puts into a page.
WriteDirEntsToPage(room) ==
    IF room < numDirEntsToSave THEN room ELSE numDirEntsToSave

Enqueue(op, f, l) == queue' = Append(queue, [op |-> op, frame |-> f, lid |-> l])
-----------------------------------------------------------------------------
(* Phase 2. A step that would wait for an IORequest is disabled until there  *)
(* is one: IOReqCleaning_AllocateOrWait is the first thing it does.          *)

WriteProcDirFrame ==
    /\ phase = 2 /\ procWritten < NProcFrames
    /\ freeCleaning > 0
    /\ LET f == reservedPages[procWritten + 1]
       IN /\ ioreq' = ioreq \cup {f}
          /\ Enqueue("procs", f, procWritten + 1)
    /\ procWritten' = procWritten + 1
    /\ freeCleaning' = freeCleaning - 1
    /\ UNCHANGED <<phase, reservedPages, numKRODirtyPages, content, released,
                   served, disk, firstDirFrame, nDirFrames, hdrEntries, saved,
                   ckptWait, logCursor>>

\* CleanAKROPage, for a page that is not zero.
CleanAKROPage ==
    /\ phase = 2 /\ procWritten = NProcFrames /\ numKRODirtyPages > 0
    /\ freeCleaning > 0
    /\ numKRODirtyPages' = numKRODirtyPages - 1
    /\ Enqueue("clean", 0, logCursor)
    /\ logCursor' = logCursor + 1
    /\ freeCleaning' = freeCleaning - 1
    /\ UNCHANGED <<phase, reservedPages, procWritten, content, ioreq, released,
                   served, disk, firstDirFrame, nDirFrames, hdrEntries, saved,
                   ckptWait>>

\* The rest of DoPhase2Work: the first entries go into the header.
EndPhase2 ==
    /\ phase = 2 /\ procWritten = NProcFrames /\ numKRODirtyPages = 0
    /\ hdrEntries' = WriteDirEntsToPage(HdrRoom)
    /\ saved' = WriteDirEntsToPage(HdrRoom)
    /\ phase' = 3
    /\ UNCHANGED <<reservedPages, procWritten, numKRODirtyPages, content, ioreq,
                   released, freeCleaning, queue, served, disk, firstDirFrame,
                   nDirFrames, ckptWait, logCursor>>
-----------------------------------------------------------------------------
(* Phase 3.                                                                  *)

\* objectDir.firstDirFrame is set for the first frame only.
FirstDirFrame_mutant == logCursor  \* mutant: the last frame's
FirstDirFrame == IF firstDirFrame = 0 THEN logCursor ELSE firstDirFrame

\* WriteAPageOfObDirEnts into frame f, with the requests that are left in q.
WriteAPageOfObDirEnts(f, q) ==
    LET n == WriteDirEntsToPage(FrameRoom)
    IN /\ content' = [content EXCEPT ![f] =
                        [kind |-> "entries", lo |-> saved + 1, hi |-> saved + n]]
       /\ saved' = saved + n
       /\ ioreq' = ioreq \cup {f}
       /\ firstDirFrame' = FirstDirFrame
       /\ nDirFrames' = nDirFrames + 1
       /\ queue' = Append(q, [op |-> "entries", frame |-> f, lid |-> logCursor])
       /\ logCursor' = logCursor + 1

\* The list after its first frame is unlinked.
Unlinked_mutant == reservedPages  \* mutant: it is left on the list
Unlinked == Tail(reservedPages)

\* The thread unlinks a reserved frame, gets an IORequest and fills the frame.
UseReservedFrame ==
    /\ phase = 3 /\ ckptWait = "none" /\ reservedPages # <<>>
    /\ numDirEntsToSave > 0 /\ freeCleaning > 0
    /\ reservedPages' = Unlinked
    /\ freeCleaning' = freeCleaning - 1
    /\ WriteAPageOfObDirEnts(Head(reservedPages), queue)
    /\ UNCHANGED <<phase, procWritten, numKRODirtyPages, released, served, disk,
                   hdrEntries, ckptWait>>

\* The frame is unlinked, there is no IORequest, and the thread Yields.
YieldWithFrame ==
    /\ phase = 3 /\ ckptWait = "none" /\ reservedPages # <<>>
    /\ numDirEntsToSave > 0 /\ freeCleaning = 0
    /\ reservedPages' = Unlinked
    /\ ckptWait' = "ioreq"
    /\ UNCHANGED <<phase, procWritten, numKRODirtyPages, content, ioreq,
                   released, freeCleaning, queue, served, disk, firstDirFrame,
                   nDirFrames, hdrEntries, saved, logCursor>>

ReleaseReservedFrame ==
    /\ phase = 3 /\ ckptWait = "none" /\ reservedPages # <<>>
    /\ numDirEntsToSave = 0
    /\ reservedPages' = Unlinked
    /\ released' = released \cup {Head(reservedPages)}
    /\ UNCHANGED <<phase, procWritten, numKRODirtyPages, content, ioreq,
                   freeCleaning, queue, served, disk, firstDirFrame, nDirFrames,
                   hdrEntries, saved, ckptWait, logCursor>>

\* The handlers write the rest: SleepOnPFHQueue(&WaitForObjDirWritten).
SleepForDirs ==
    /\ phase = 3 /\ ckptWait = "none" /\ reservedPages = <<>>
    /\ numDirEntsToSave > 0
    /\ ckptWait' = "dirs"
    /\ UNCHANGED <<phase, reservedPages, procWritten, numKRODirtyPages, content,
                   ioreq, released, freeCleaning, queue, served, disk,
                   firstDirFrame, nDirFrames, hdrEntries, saved, logCursor>>

\* The generation header is written, in a page of its own.
WriteGenHdr ==
    /\ phase = 3 /\ ckptWait = "none" /\ reservedPages = <<>>
    /\ numDirEntsToSave = 0 /\ freeCleaning > 0
    /\ freeCleaning' = freeCleaning - 1
    /\ Enqueue("hdr", 0, logCursor)
    /\ logCursor' = logCursor + 1
    /\ phase' = 4
    /\ ckptWait' = "hdr"
    /\ UNCHANGED <<reservedPages, procWritten, numKRODirtyPages, content, ioreq,
                   released, served, disk, firstDirFrame, nDirFrames,
                   hdrEntries, saved>>
-----------------------------------------------------------------------------
(* The disk takes the requests in order and reads the page when it does.     *)
Transfer ==
    /\ queue # <<>> /\ ~served
    /\ served' = TRUE
    /\ disk' = [disk EXCEPT ![Head(queue).lid] =
                  IF Head(queue).frame = 0 THEN Other
                  ELSE content[Head(queue).frame]]
    /\ UNCHANGED <<phase, reservedPages, procWritten, numKRODirtyPages, content,
                   ioreq, released, freeCleaning, queue, firstDirFrame,
                   nDirFrames, hdrEntries, saved, ckptWait, logCursor>>

Completed(op) ==
    /\ queue # <<>> /\ served
    /\ Head(queue).op = op
    /\ served' = FALSE

\* IOReq_Deallocate wakes a thread that waits for an IORequest.
IOReq_Deallocate ==
    /\ freeCleaning' = freeCleaning + 1
    /\ ckptWait' = IF ckptWait = "ioreq" THEN "none" ELSE ckptWait

IOReq_EndPageClean ==
    /\ Completed("clean")
    /\ queue' = Tail(queue)
    /\ IOReq_Deallocate
    /\ UNCHANGED <<phase, reservedPages, procWritten, numKRODirtyPages, content,
                   ioreq, released, disk, firstDirFrame, nDirFrames, hdrEntries,
                   saved, logCursor>>

\* A frame of the process directory has been written. It is not released.
IOReq_EndWrite ==
    /\ Completed("procs")
    /\ queue' = Tail(queue)
    /\ ioreq' = ioreq \ {Head(queue).frame}
    /\ IOReq_Deallocate
    /\ UNCHANGED <<phase, reservedPages, procWritten, numKRODirtyPages, content,
                   released, disk, firstDirFrame, nDirFrames, hdrEntries, saved,
                   logCursor>>

\* Who wakes the thread when the last entry has been put into a frame.
WakeForDirs_mutant == ckptWait  \* mutant: nobody
WakeForDirs == IF ckptWait = "dirs" THEN "none" ELSE ckptWait

\* IOReq_EndObDirWrite: there are entries left for the same page and request.
EndObDirWriteMore ==
    /\ Completed("entries")
    /\ numDirEntsToSave > 0
    /\ WriteAPageOfObDirEnts(Head(queue).frame, Tail(queue))
    /\ ckptWait' = IF numDirEntsToSave' = 0 THEN WakeForDirs ELSE ckptWait
    /\ UNCHANGED <<phase, reservedPages, procWritten, numKRODirtyPages,
                   released, freeCleaning, disk, hdrEntries>>

\* IOReq_EndObDirWrite: there are none.
EndObDirWriteLast ==
    /\ Completed("entries")
    /\ numDirEntsToSave = 0
    /\ queue' = Tail(queue)
    /\ ioreq' = ioreq \ {Head(queue).frame}
    /\ released' = released \cup {Head(queue).frame}
    /\ IOReq_Deallocate
    /\ UNCHANGED <<phase, reservedPages, procWritten, numKRODirtyPages, content,
                   disk, firstDirFrame, nDirFrames, hdrEntries, saved,
                   logCursor>>

IOReq_EndGenHdrWrite ==
    /\ Completed("hdr")
    /\ queue' = Tail(queue)
    /\ ckptWait' = "none"
    /\ phase' = 5
    /\ UNCHANGED <<reservedPages, procWritten, numKRODirtyPages, content, ioreq,
                   released, freeCleaning, disk, firstDirFrame, nDirFrames,
                   hdrEntries, saved, logCursor>>

\* objC_GrabPageFrame gives a released frame to someone else, who writes it.
GrabPageFrame(f) ==
    /\ f \in released
    /\ content[f] # Other
    /\ content' = [content EXCEPT ![f] = Other]
    /\ UNCHANGED <<phase, reservedPages, procWritten, numKRODirtyPages, ioreq,
                   released, freeCleaning, queue, served, disk, firstDirFrame,
                   nDirFrames, hdrEntries, saved, ckptWait, logCursor>>
-----------------------------------------------------------------------------
CheckpointThread ==
    \/ WriteProcDirFrame
    \/ CleanAKROPage
    \/ EndPhase2
    \/ UseReservedFrame
    \/ YieldWithFrame
    \/ ReleaseReservedFrame
    \/ SleepForDirs
    \/ WriteGenHdr

Disk ==
    \/ Transfer
    \/ IOReq_EndPageClean
    \/ IOReq_EndWrite
    \/ EndObDirWriteMore
    \/ EndObDirWriteLast
    \/ IOReq_EndGenHdrWrite

Next ==
    \/ CheckpointThread
    \/ Disk
    \/ \E f \in Frame : GrabPageFrame(f)

Spec == Init /\ [][Next]_vars

(* The checkpoint thread has high priority and the driver loops over its     *)
(* queue: neither is kept from running for ever.                             *)
FairSpec == Spec /\ WF_vars(CheckpointThread) /\ WF_vars(Disk)
-----------------------------------------------------------------------------
(* Properties.                                                               *)

\* The frames that restart reads, from those the header names.
DirFrames ==
    {disk[l] : l \in {k \in Lid : /\ firstDirFrame <= k
                                 /\ k < firstDirFrame + nDirFrames}}

(* When the generation header is on disk, restart finds every entry of the   *)
(* generation: the frames after firstDirFrame are consecutive in the log     *)
(* although two writers allocate them, the thread and the end-of-I/O         *)
(* handler, and none holds anything else. The first entries are in the       *)
(* header.                                                                   *)
DirectoryComplete ==
    phase = 5 =>
      /\ \A c \in DirFrames : c.kind = "entries"
      /\ UNION {c.lo .. c.hi : c \in DirFrames} = hdrEntries + 1 .. NEntries

(* A frame of the object directory is handed to the disk, refilled, and      *)
(* released in turn by two writers, but never while the disk may still read  *)
(* it: what a request has to write stays in its frame until it is            *)
(* transferred.                                                              *)
FramesHeld ==
    \A i, j \in 1 .. Len(queue) :
      queue[i].op = "entries" =>
        /\ queue[i].frame \notin released
        /\ i # j /\ queue[j].op = "entries" => queue[i].frame # queue[j].frame

(* Phase 3 ends: the thread is not left asleep on WaitForObjDirWritten, nor  *)
(* waiting for one of the IORequests that the frames hold.                   *)
DirectoryGetsWritten == <>(phase = 5)

(* DoPhase2Work says it "write[s] the process directory frames": when the    *)
(* header is on disk they are there too.                                     *)
ProcDirIntact ==
    phase = 5 =>
      \A i \in 1 .. NProcFrames :
        disk[i] = [kind |-> "procs", lo |-> i, hi |-> i]
=============================================================================
