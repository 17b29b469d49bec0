--------------------------- MODULE PageCheckpoint ---------------------------
(* The persistent pages of the object cache, the checkpoint thread, the log  *)
(* on disk with its two checkpoint roots, the disk driver, and power failure *)
(* followed by restart. Sources: kern_Ckpt.c, kern_ObjectCache.c,            *)
(* kern_ObjectHeader.c, kern_IOReq.c, kern_Restart.c, mk_IORQ.c and the disk *)
(* driver's service loop.                                                    *)
(*                                                                           *)
(* A kernel operation runs to completion or Yields without effect, so each   *)
(* stretch between two Yields is one action. The log does not wrap here and  *)
(* there is one LID range, served by one disk.                               *)
EXTENDS Integers, Sequences, FiniteSets

CONSTANTS
    Page,        \* OIDs of the persistent pages
    Value,       \* page contents
    Zero,        \* the contents of a page of zeros
    HomeValue,   \* what the home ranges hold
    NCleaning,   \* KTUNE_NIOREQS_CLEANING
    MaxLid,      \* bound: number of log frames that may be allocated
    Reserve,     \* bound: log frames kept free for a checkpoint to use
    MayFail,     \* bound: whether behaviours with power failures are explored
    Zeroable,    \* bound: the pages on which Page_zero is explored
    NoPicture    \* see PersistentStore

ASSUME ConstantsAssumption ==
    /\ IsFiniteSet(Page)
    /\ Zero \in Value
    /\ HomeValue \in [Page -> Value]
    /\ NCleaning \in Nat \ {0}
    /\ MaxLid \in Nat \ {0}
    /\ Reserve \in Nat
    /\ MayFail \in BOOLEAN
    /\ Zeroable \subseteq Page
    /\ NoPicture \notin [Page -> Value]

VARIABLES
    cached,      \* pages whose current version objH_Lookup finds in core
    fetching,    \* OFLG_Fetching
    val,         \* contents of the current version's frame
    dirty,       \* OFLG_DIRTY
    kro,         \* OFLG_KRO
    lid,         \* log frame the page is being written to, 0 when ioreq == NULL
    wcopy,       \* the ot_PtWorkingCopy frame of a page (always KRO), if any
    numKRODirtyPages,
    dir,         \* the log directory: generation and location, gen 0 if absent
    ckptState,   \* 0 is ckpt_NotActive, 1 to 5 the phases
    ckptWait,    \* what the checkpoint thread sleeps on
    nextRangeToSync, rangesSynced,
    genHdr,      \* the object directory placed in the generation header
    newRoot,     \* the checkpoint root being built in the same page
    workingGen,  \* workingGenerationNumber
    genLids,     \* unmigratedGenHdrLid from wkgUGHL on, newest first
    currentRoot, \* which of CKPT_ROOT_0 and CKPT_ROOT_1 currentRootLID names
    logCursor,
    freeCleaning,\* number of IORequests on freeIOReqsCleaning
    queue,       \* requests enqueued on the IORQ, oldest first
    served,      \* the device has transferred the oldest request
    logVal, logHdr,  \* contents of the log frames
    written,     \* log frames the device has accepted
    stable,      \* log frames on nonvolatile media
    root,        \* the two checkpoint roots on nonvolatile media
    rootVolatile,\* newRoot is in the device's cache
    halted,      \* an assertion failed: the kernel called fatal()
    snapshot, committed, astray  \* history: see PersistentStore

cacheVars == <<cached, fetching, val, dirty, kro, lid, wcopy, numKRODirtyPages>>
ckptVars == <<ckptState, ckptWait, nextRangeToSync, rangesSynced, genHdr,
              newRoot, workingGen, genLids, currentRoot>>
diskVars == <<logVal, logHdr, written, stable, root, rootVolatile>>
ghostVars == <<snapshot, committed, astray>>
vars == <<cacheVars, dir, ckptVars, logCursor, freeCleaning, queue, served,
          diskVars, halted, ghostVars>>

Lid == 1 .. MaxLid
NoEntry == -1                    \* the page has no entry in a generation
Copy == [val : Value, dirty : BOOLEAN, lid : 0 .. MaxLid]
NoCopy == [val |-> Zero, dirty |-> FALSE, lid |-> 0]  \* no such frame exists
DirEntry == [gen : Nat, loc : 0 .. MaxLid]            \* loc 0: a zero page
Saved == [Page -> NoEntry .. MaxLid]
Root == [gen : Nat, hdrs : Seq(Lid)]
InvalidRoot == [gen |-> 0, hdrs |-> <<>>]  \* ValidateCkptRoot rejects it
Request ==
    [op : {"write"}, page : Page, lid : Lid]
      \cup [op : {"read"}, page : Page, lid : 0 .. MaxLid]
      \cup [op : {"hdr"}, lid : Lid] \cup [op : {"root", "sync"}]

ckptIsActive == ckptState # 0
HasCopy(p) == wcopy[p] # NoCopy

TypeOK ==
    /\ cached \subseteq Page
    /\ fetching \subseteq cached
    /\ val \in [Page -> Value]
    /\ dirty \subseteq cached
    /\ kro \subseteq cached
    /\ lid \in [Page -> 0 .. MaxLid]
    /\ wcopy \in [Page -> Copy]
    /\ numKRODirtyPages \in Int
    /\ dir \in [Page -> DirEntry]
    /\ ckptState \in 0 .. 5
    /\ ckptWait \in {"none", "hdr", "root", "sync"}
    /\ nextRangeToSync \in {0, 1} /\ rangesSynced \in {0, 1}
    /\ genHdr \in Saved
    /\ newRoot \in Root
    /\ workingGen \in Nat \ {0}
    /\ genLids \in Seq(Lid)
    /\ currentRoot \in {0, 1}
    /\ logCursor \in 1 .. MaxLid + 1
    /\ freeCleaning \in Nat
    /\ queue \in Seq(Request)
    /\ served \in BOOLEAN
    /\ logVal \in [Lid -> Value]
    /\ logHdr \in [Lid -> Saved]
    /\ written \subseteq Lid /\ stable \subseteq Lid
    /\ root \in [{0, 1} -> Root]
    /\ rootVolatile \in BOOLEAN
    /\ halted \in BOOLEAN
    /\ snapshot \in [Page -> Value] \cup {NoPicture}
    /\ committed \in [Page -> Value]
    /\ astray \subseteq Page
-----------------------------------------------------------------------------
(* What a page holds where a directory entry says it is: the home range,     *)
(* nowhere (it is zero), or a log frame.                                     *)
Found(e, p) ==
    CASE e.gen = 0 -> HomeValue[p]
      [] e.gen # 0 /\ e.loc = 0 -> Zero
      [] OTHER -> logVal[e.loc]
Stored(p) == Found(dir[p], p)

\* What a process that reads the page gets.
Current ==
    [p \in Page |-> IF p \in cached \ fetching THEN val[p] ELSE Stored(p)]

\* ld_recordLocation in the working generation.
Record(p, loc) == [dir EXCEPT ![p] = [gen |-> workingGen, loc |-> loc]]

Enqueue(req) == queue' = Append(queue, req)

(* Initially the system has restarted from a generation 1 whose header, in   *)
(* the first log frame, lists no object: everything is in the home ranges.   *)
Init ==
    /\ cached = {} /\ fetching = {} /\ dirty = {} /\ kro = {}
    /\ val = [p \in Page |-> Zero]
    /\ lid = [p \in Page |-> 0]
    /\ wcopy = [p \in Page |-> NoCopy]
    /\ numKRODirtyPages = 0
    /\ dir = [p \in Page |-> [gen |-> 0, loc |-> 0]]
    /\ ckptState = 0 /\ ckptWait = "none"
    /\ nextRangeToSync = 0 /\ rangesSynced = 0
    /\ genHdr = [p \in Page |-> NoEntry]
    /\ newRoot = InvalidRoot
    /\ workingGen = 2
    /\ genLids = <<1>>
    /\ currentRoot = 0
    /\ logCursor = 2
    /\ freeCleaning = NCleaning
    /\ queue = <<>> /\ served = FALSE
    /\ logVal = [l \in Lid |-> Zero]
    /\ logHdr = [l \in Lid |-> [p \in Page |-> NoEntry]]
    /\ written = {1} /\ stable = {1}
    /\ root = [i \in {0, 1} |-> IF i = 0 THEN [gen |-> 1, hdrs |-> <<1>>]
                                ELSE InvalidRoot]
    /\ rootVolatile = FALSE
    /\ halted = FALSE
    /\ snapshot = NoPicture
    /\ committed = HomeValue
    /\ astray = {}
-----------------------------------------------------------------------------
(* Processes.                                                                *)

\* Where GetObject reads a page that is not zero: 0 is its home location.
Location(p) == IF dir[p].gen = 0 THEN 0 ELSE dir[p].loc

(* GetObject on a page that is not in core. A zero page is made at once, by  *)
(* CreateNewNullObject, and is dirty; any other is read, from the log or     *)
(* from the home range (lid 0).                                              *)
GetObject(p) ==
    /\ p \notin cached
    /\ cached' = cached \cup {p}
    /\ IF dir[p].gen # 0 /\ dir[p].loc = 0
         THEN /\ val' = [val EXCEPT ![p] = Zero]
              /\ dirty' = dirty \cup {p}
              /\ UNCHANGED <<fetching, queue>>
         ELSE /\ fetching' = fetching \cup {p}
              /\ Enqueue([op |-> "read", page |-> p, lid |-> Location(p)])
              /\ UNCHANGED <<val, dirty>>
    /\ UNCHANGED <<kro, lid, wcopy, numKRODirtyPages, dir, ckptVars, logCursor,
                   freeCleaning, served, diskVars, ghostVars>>

\* A store into a page that is writeable already.
StoreDirty(p, v) ==
    /\ p \in dirty \ kro
    /\ val' = [val EXCEPT ![p] = v]
    /\ UNCHANGED <<cached, fetching, dirty, kro, lid, wcopy, numKRODirtyPages,
                   dir, ckptVars, logCursor, freeCleaning, queue, served,
                   diskVars, ghostVars>>

\* objH_EnsureWritable on a clean page, then the store.
StoreClean(p, v) ==
    /\ p \in cached \ (dirty \cup kro \cup fetching)
    /\ dirty' = dirty \cup {p}
    /\ val' = [val EXCEPT ![p] = v]
    /\ UNCHANGED <<cached, fetching, kro, lid, wcopy, numKRODirtyPages, dir,
                   ckptVars, logCursor, freeCleaning, queue, served, diskVars,
                   ghostVars>>

(* pageH_MitigateKRO on a KRO page of zeros with no I/O: it is cleaned on    *)
(* the spot, and then dirtied by the store.                                  *)
MitigateZero(p, v) ==
    /\ p \in kro /\ val[p] = Zero /\ lid[p] = 0
    /\ numKRODirtyPages' = numKRODirtyPages - 1
    /\ dir' = Record(p, 0)
    /\ kro' = kro \ {p}
    /\ dirty' = dirty \cup {p}
    /\ val' = [val EXCEPT ![p] = v]
    /\ UNCHANGED <<cached, fetching, lid, wcopy, ckptVars, logCursor,
                   freeCleaning, queue, served, diskVars, ghostVars>>

(* pageH_MitigateKRO when the frame has I/O or is pinned: the old frame      *)
(* becomes the working copy, with its flags and its I/O, and the new frame   *)
(* the current version, dirty. The caller Yields and tries again.            *)
MitigateMove(p) ==
    /\ p \in kro
    /\ val[p] = Zero => lid[p] # 0
    /\ wcopy' = [wcopy EXCEPT ![p] =
                   [val |-> val[p], dirty |-> p \in dirty, lid |-> lid[p]]]
    /\ kro' = kro \ {p}
    /\ dirty' = dirty \cup {p}
    /\ lid' = [lid EXCEPT ![p] = 0]
    /\ UNCHANGED <<cached, fetching, val, numKRODirtyPages, dir, ckptVars,
                   logCursor, freeCleaning, queue, served, diskVars, ghostVars>>

(* pageH_MitigateKRO otherwise: the new frame is the working copy, the old   *)
(* one loses KRO and stays dirty, and the store follows.                     *)
MitigateCopy(p, v) ==
    /\ p \in kro /\ val[p] # Zero /\ lid[p] = 0
    /\ wcopy' = [wcopy EXCEPT ![p] = [val |-> val[p], dirty |-> TRUE, lid |-> 0]]
    /\ kro' = kro \ {p}
    /\ val' = [val EXCEPT ![p] = v]
    /\ UNCHANGED <<cached, fetching, dirty, lid, numKRODirtyPages, dir,
                   ckptVars, logCursor, freeCleaning, queue, served, diskVars,
                   ghostVars>>

(* OC_capros_Page_zero on a page that is not in core: a directory entry is   *)
(* made in the working generation, whatever the state of the checkpoint.     *)
(* Page_zero on a page in core is a store of Zero. While a checkpoint is     *)
(* being stabilized the working generation is the checkpoint's, which        *)
(* astray records.                                                           *)
ZeroPage(p) ==
    /\ p \in Zeroable \ cached
    /\ dir' = Record(p, 0)
    /\ astray' = IF ckptState \in 2 .. 5 THEN astray \cup {p} ELSE astray
    /\ UNCHANGED <<cacheVars, ckptVars, logCursor, freeCleaning, queue, served,
                   diskVars, snapshot, committed>>
-----------------------------------------------------------------------------
(* Cleaning.                                                                 *)

\* What cleaning a dirty page takes off numKRODirtyPages.
KROCount_mutant(p) == 1  \* mutant: pages that are not KRO are counted too
KROCount(p) == IF p \in kro THEN 1 ELSE 0

(* pageH_Clean on the frame of a current version. NextLogLoc allocates the   *)
(* log frame. The directory entry of a KRO page is created at once.          *)
pageH_Clean(p) ==
    /\ p \in dirty \ fetching /\ lid[p] = 0
    /\ freeCleaning > 0
    /\ dirty' = dirty \ {p}
    /\ numKRODirtyPages' = numKRODirtyPages - KROCount(p)
    /\ IF val[p] = Zero
         THEN /\ dir' = Record(p, 0)
              /\ kro' = kro \ {p}
              /\ UNCHANGED <<lid, logCursor, freeCleaning, queue>>
         ELSE /\ logCursor <= MaxLid
              /\ logCursor' = logCursor + 1
              /\ lid' = [lid EXCEPT ![p] = logCursor]
              /\ freeCleaning' = freeCleaning - 1
              /\ dir' = IF p \in kro THEN Record(p, logCursor) ELSE dir
              /\ Enqueue([op |-> "write", page |-> p, lid |-> logCursor])
              /\ UNCHANGED kro
    /\ UNCHANGED <<cached, fetching, val, wcopy, ckptVars, served, diskVars,
                   ghostVars>>

\* pageH_Clean on a working copy. A copy that is zero is released at once.
CleanCopy(p) ==
    /\ wcopy[p].dirty /\ wcopy[p].lid = 0
    /\ freeCleaning > 0
    /\ numKRODirtyPages' = numKRODirtyPages - 1
    /\ IF wcopy[p].val = Zero
         THEN /\ dir' = Record(p, 0)
              /\ wcopy' = [wcopy EXCEPT ![p] = NoCopy]
              /\ UNCHANGED <<logCursor, freeCleaning, queue>>
         ELSE /\ logCursor <= MaxLid
              /\ logCursor' = logCursor + 1
              /\ wcopy' = [wcopy EXCEPT ![p] = [val |-> wcopy[p].val,
                                               dirty |-> FALSE,
                                               lid |-> logCursor]]
              /\ freeCleaning' = freeCleaning - 1
              /\ dir' = Record(p, logCursor)
              /\ Enqueue([op |-> "write", page |-> p, lid |-> logCursor])
    /\ UNCHANGED <<cached, fetching, val, dirty, kro, lid, ckptVars, served,
                   diskVars, ghostVars>>

\* While a checkpoint is active, ageing cleans only the KRO pages.
MayAgeClean_mutant(p) == TRUE  \* mutant: the check is forgotten
MayAgeClean(p) == ckptIsActive => p \in kro

(* objC_AgePageFrames, age_Clean. Reserve stands for the reservation that    *)
(* objH_EnsureWritable makes before it lets a page become dirty.             *)
AgeClean(p) ==
    /\ MayAgeClean(p)
    /\ ~ckptIsActive => logCursor + Reserve < MaxLid
    /\ pageH_Clean(p)

\* A frame can be stolen when its page is clean and has no I/O.
Stealable_mutant(p) == p \notin dirty  \* mutant: does not look at ioreq
Stealable(p) == p \notin dirty /\ lid[p] = 0

\* objC_AgePageFrames, age_Steal.
AgeSteal(p) ==
    /\ p \in cached \ fetching
    /\ Stealable(p)
    /\ cached' = cached \ {p}
    /\ val' = [val EXCEPT ![p] = Zero]   \* the frame is released
    /\ UNCHANGED <<fetching, dirty, kro, lid, wcopy, numKRODirtyPages,
                   dir, ckptVars, logCursor, freeCleaning, queue, served,
                   diskVars, ghostVars>>
-----------------------------------------------------------------------------
(* The checkpoint thread. A step that would Yield for want of an IORequest   *)
(* is disabled until there is one.                                           *)

\* Reserve is used as in AgeClean.
DeclareDemarcationEvent ==
    /\ ~ckptIsActive
    /\ logCursor + Reserve <= MaxLid
    /\ ckptState' = 1
    /\ UNCHANGED <<cacheVars, dir, ckptWait, nextRangeToSync, rangesSynced,
                   genHdr, newRoot, workingGen, genLids, currentRoot,
                   logCursor, freeCleaning, queue, served, diskVars, ghostVars>>

\* CheckpointPage applies to a page that is dirty or being cleaned.
CheckpointPage_mutant(p) == p \in dirty  \* mutant: forgets the pages in I/O
CheckpointPage(p) == p \in dirty \/ (p \in cached \ fetching /\ lid[p] # 0)

(* The atomic part of DoPhase1Work: the moment of demarcation. A page being  *)
(* cleaned that is still clean gets its directory entry now.                 *)
DoPhase1Work ==
    /\ ckptState = 1
    /\ ckptState' = 2
    /\ kro' = {p \in cached : CheckpointPage(p)}
    /\ numKRODirtyPages' = numKRODirtyPages + Cardinality(dirty)
    /\ dir' = [p \in Page |->
                 IF p \in cached \ dirty /\ CheckpointPage(p)
                   THEN [gen |-> workingGen, loc |-> lid[p]] ELSE dir[p]]
    /\ snapshot' = Current
    /\ UNCHANGED <<cached, fetching, val, dirty, lid, wcopy, ckptWait,
                   nextRangeToSync, rangesSynced, genHdr, newRoot, workingGen,
                   genLids, currentRoot, logCursor, freeCleaning, queue,
                   served, diskVars, committed, astray>>

\* Phase 2 cleans KRO pages, in whatever order its cursor meets them.
CleanAKROPage(p) ==
    /\ ckptState = 2
    /\ \/ p \in kro /\ pageH_Clean(p)
       \/ CleanCopy(p)

\* The end of phase 2: the working generation's entries go into the header.
DoPhase2Work ==
    /\ ckptState = 2
    /\ numKRODirtyPages = 0
    /\ ckptState' = 3
    /\ genHdr' = [p \in Page |->
                    IF dir[p].gen = workingGen THEN dir[p].loc ELSE NoEntry]
    /\ nextRangeToSync' = 0 /\ rangesSynced' = 0
    /\ UNCHANGED <<cacheVars, dir, ckptWait, newRoot, workingGen, genLids,
                   currentRoot, logCursor, freeCleaning, queue, served,
                   diskVars, ghostVars>>

\* Phase 3 writes the generation header and sleeps until that is done.
DoPhase3Work ==
    /\ ckptState = 3
    /\ freeCleaning > 0
    /\ logCursor <= MaxLid
    /\ freeCleaning' = freeCleaning - 1
    /\ logCursor' = logCursor + 1
    /\ genLids' = <<logCursor>> \o genLids
    /\ Enqueue([op |-> "hdr", lid |-> logCursor])
    /\ ckptState' = 4 /\ ckptWait' = "hdr"
    /\ UNCHANGED <<cacheVars, dir, nextRangeToSync, rangesSynced, genHdr,
                   newRoot, workingGen, currentRoot, served, diskVars,
                   ghostVars>>

\* DoSync returns once every range has been synced.
AllSynced_mutant == TRUE  \* mutant: DoSync does not wait
AllSynced == nextRangeToSync = 1 /\ rangesSynced >= nextRangeToSync

\* DoSync of phases 4 and 5, with one LID range.
DoSync ==
    /\ ckptState \in {4, 5} /\ ckptWait = "none"
    /\ nextRangeToSync = 0
    /\ freeCleaning > 0
    /\ freeCleaning' = freeCleaning - 1
    /\ nextRangeToSync' = 1
    /\ Enqueue([op |-> "sync"])
    /\ ckptWait' = "sync"
    /\ UNCHANGED <<cacheVars, dir, ckptState, rangesSynced, genHdr, newRoot,
                   workingGen, genLids, currentRoot, logCursor, served,
                   diskVars, ghostVars>>

\* Switch root locations.
OtherRoot_mutant == currentRoot  \* mutant: the root in use is overwritten
OtherRoot == 1 - currentRoot

(* Phase 4 after the sync: the root goes to the location not in use, with    *)
(* the header's page and IORequest.                                          *)
DoPhase4Work ==
    /\ ckptState = 4 /\ ckptWait = "none"
    /\ AllSynced
    /\ newRoot' = [gen |-> workingGen, hdrs |-> genLids]
    /\ genHdr' = [p \in Page |-> NoEntry]
    /\ currentRoot' = OtherRoot
    /\ Enqueue([op |-> "root"])
    /\ nextRangeToSync' = 0 /\ rangesSynced' = 0
    /\ ckptState' = 5 /\ ckptWait' = "root"
    /\ UNCHANGED <<cacheVars, dir, workingGen, genLids, logCursor,
                   freeCleaning, served, diskVars, ghostVars>>

\* Phase 5 after the sync, with PostCheckpointProcessing.
DoPhase5Work ==
    /\ ckptState = 5 /\ ckptWait = "none"
    /\ AllSynced
    /\ workingGen' = workingGen + 1
    /\ ckptState' = 0
    /\ committed' = snapshot
    /\ snapshot' = NoPicture
    /\ UNCHANGED <<cacheVars, dir, ckptWait, nextRangeToSync, rangesSynced,
                   genHdr, newRoot, genLids, currentRoot, logCursor,
                   freeCleaning, queue, served, diskVars, astray>>
-----------------------------------------------------------------------------
(* The disk driver serves the oldest request: the device transfers the data, *)
(* and later the driver calls completeRequest, which runs the request's      *)
(* doneFn. synchronizeCache makes every accepted write nonvolatile.          *)

\* The frame a write request is for: the current version's or the copy's.
WriteData(req) ==
    IF lid[req.page] = req.lid THEN val[req.page] ELSE wcopy[req.page].val

Transfer ==
    /\ queue # <<>> /\ ~served
    /\ served' = TRUE
    /\ LET req == Head(queue)
       IN /\ logVal' = IF req.op = "write"
                         THEN [logVal EXCEPT ![req.lid] = WriteData(req)]
                         ELSE logVal
          /\ logHdr' = IF req.op = "hdr"
                         THEN [logHdr EXCEPT ![req.lid] = genHdr] ELSE logHdr
          /\ written' = IF req.op \in {"write", "hdr"}
                          THEN written \cup {req.lid} ELSE written
          /\ stable' = CASE req.op = "sync" -> written
                         [] req.op \in {"write", "hdr"} -> stable \ {req.lid}
                         [] OTHER -> stable
          /\ root' = IF req.op = "sync" /\ rootVolatile
                       THEN [root EXCEPT ![currentRoot] = newRoot] ELSE root
          /\ newRoot' = IF req.op = "sync" THEN InvalidRoot ELSE newRoot
          /\ rootVolatile' = CASE req.op = "root" -> TRUE
                               [] req.op = "sync" -> FALSE
                               [] OTHER -> rootVolatile
    /\ UNCHANGED <<cacheVars, dir, ckptState, ckptWait, nextRangeToSync,
                   rangesSynced, genHdr, workingGen, genLids, currentRoot,
                   logCursor, freeCleaning, queue,
                   ghostVars>>

Completed(op) ==
    /\ queue # <<>> /\ served
    /\ Head(queue).op = op
    /\ queue' = Tail(queue)
    /\ served' = FALSE

\* What a read returns: a frame that lost its contents may hold anything.
ReadResults(req) ==
    CASE req.lid = 0 -> {HomeValue[req.page]}
      [] req.lid \in written -> {logVal[req.lid]}
      [] OTHER -> Value

IOReq_EndReadPage ==
    /\ Completed("read")
    /\ LET p == Head(queue).page
       IN /\ fetching' = fetching \ {p}
          /\ \E v \in ReadResults(Head(queue)) : val' = [val EXCEPT ![p] = v]
    /\ UNCHANGED <<cached, dirty, kro, lid, wcopy, numKRODirtyPages, dir,
                   ckptVars, logCursor, freeCleaning, diskVars, ghostVars,
                   halted>>

(* IOReq_EndPageClean when its assertion holds: a page dirtied meanwhile     *)
(* gets no entry, a clean one that is not KRO gets it now, and DoneCleaning- *)
(* Page ends KRO, or releases the frame of a working copy.                   *)
IOReq_EndPageClean ==
    /\ Completed("write")
    /\ LET p == Head(queue).page
           l == Head(queue).lid
       IN \/ /\ lid[p] = l
             /\ ~(p \in dirty /\ p \in kro)
             /\ dir' = IF p \in dirty \cup kro THEN dir ELSE Record(p, l)
             /\ lid' = [lid EXCEPT ![p] = 0]
             /\ kro' = kro \ {p}
             /\ UNCHANGED wcopy
          \/ /\ wcopy[p].lid = l
             /\ ~wcopy[p].dirty
             /\ wcopy' = [wcopy EXCEPT ![p] = NoCopy]
             /\ UNCHANGED <<dir, lid, kro>>
    /\ freeCleaning' = freeCleaning + 1
    /\ UNCHANGED <<cached, fetching, val, dirty, numKRODirtyPages, ckptVars,
                   logCursor, diskVars, ghostVars, halted>>

\* IOReq_EndPageClean when assert(! objH_IsKRO(pObj)) fails.
EndPageCleanAsserts ==
    /\ Completed("write")
    /\ LET p == Head(queue).page
           l == Head(queue).lid
       IN \/ lid[p] = l /\ p \in dirty /\ p \in kro
          \/ wcopy[p].lid = l /\ wcopy[p].dirty
    /\ halted' = TRUE
    /\ UNCHANGED <<cacheVars, dir, ckptVars, logCursor, freeCleaning, diskVars,
                   ghostVars>>

\* The header's IORequest is kept for the root.
IOReq_EndGenHdrWrite ==
    /\ Completed("hdr")
    /\ ckptWait' = "none"
    /\ UNCHANGED <<cacheVars, dir, ckptState, nextRangeToSync, rangesSynced,
                   genHdr, newRoot, workingGen, genLids, currentRoot,
                   logCursor, freeCleaning, diskVars, ghostVars, halted>>

RootRequestFreed_mutant == 0  \* mutant: no IOReq_Deallocate
RootRequestFreed == 1

IOReq_EndCkptRootWrite ==
    /\ Completed("root")
    /\ ckptWait' = "none"
    /\ freeCleaning' = freeCleaning + RootRequestFreed
    /\ UNCHANGED <<cacheVars, dir, ckptState, nextRangeToSync, rangesSynced,
                   genHdr, newRoot, workingGen, genLids, currentRoot,
                   logCursor, diskVars, ghostVars, halted>>

\* IOReq_EndSync wakes the checkpoint thread after the last range.
WakeAfterSync_mutant ==  \* mutant: off by one
    IF rangesSynced + 1 > nextRangeToSync THEN "none" ELSE ckptWait
WakeAfterSync ==
    IF rangesSynced + 1 >= nextRangeToSync THEN "none" ELSE ckptWait

IOReq_EndSync ==
    /\ Completed("sync")
    /\ rangesSynced' = rangesSynced + 1
    /\ ckptWait' = WakeAfterSync
    /\ freeCleaning' = freeCleaning + 1
    /\ UNCHANGED <<cacheVars, dir, ckptState, nextRangeToSync, genHdr, newRoot,
                   workingGen, genLids, currentRoot, logCursor, diskVars,
                   ghostVars, halted>>
-----------------------------------------------------------------------------
(* Power failure and restart.                                                *)

\* A root write the device has begun may be found old, new or torn.
RootOutcomes ==
    IF rootVolatile \/ (queue # <<>> /\ Head(queue).op = "root")
      THEN {[root EXCEPT ![currentRoot] = r] :
              r \in {root[currentRoot], newRoot, InvalidRoot}}
      ELSE {root}

\* DoRestartPhaseWaitingRoot1: the valid root with the higher generation.
ChooseRoot_mutant(rt) == IF rt[0].gen # 0 THEN 0 ELSE 1  \* mutant: first valid
ChooseRoot(rt) == IF rt[0].gen > rt[1].gen THEN 0 ELSE 1

(* The log directory after IOReq_EndGenHdrRead of every header of root r,    *)
(* oldest first, so that the newest generation with an entry wins.           *)
LoadedDir(r) ==
    [p \in Page |->
       LET has == {i \in 1 .. Len(r.hdrs) : logHdr[r.hdrs[i]][p] # NoEntry}
           newest == CHOOSE i \in has : \A j \in has : i <= j
       IN IF has = {} THEN [gen |-> 0, loc |-> 0]
          ELSE [gen |-> r.gen + 1 - newest,
                loc |-> logHdr[r.hdrs[newest]][p]]]

(* Restart is one step: it writes nothing, so a failure during restart is    *)
(* the same as a failure before it. FinishRestart sets logCursor after the   *)
(* newest header. A frame that was not stable holds nothing to rely on.       *)
CrashRestart ==
    /\ MayFail
    /\ \E rt \in RootOutcomes :
      LET c == ChooseRoot(rt)
          r == rt[c]
      IN /\ root' = rt
         /\ currentRoot' = c
         /\ dir' = LoadedDir(r)
         /\ workingGen' = r.gen + 1
         /\ genLids' = r.hdrs
         /\ logCursor' = Head(r.hdrs) + 1
         /\ written' = stable
         /\ snapshot' = NoPicture
         /\ astray' = {}
         /\ rootVolatile' = FALSE
         /\ cached' = {} /\ fetching' = {} /\ dirty' = {} /\ kro' = {}
         /\ val' = [p \in Page |-> Zero]
         /\ lid' = [p \in Page |-> 0]
         /\ wcopy' = [p \in Page |-> NoCopy]
         /\ numKRODirtyPages' = 0
         /\ ckptState' = 0 /\ ckptWait' = "none"
         /\ nextRangeToSync' = 0 /\ rangesSynced' = 0
         /\ genHdr' = [p \in Page |-> NoEntry]
         /\ newRoot' = InvalidRoot
         /\ freeCleaning' = NCleaning
         /\ queue' = <<>> /\ served' = FALSE
         /\ halted' = FALSE
         /\ logVal' = [l \in Lid |-> IF l \in stable THEN logVal[l] ELSE Zero]
         /\ logHdr' = [l \in Lid |-> IF l \in stable THEN logHdr[l]
                                     ELSE [p \in Page |-> NoEntry]]
         /\ UNCHANGED stable
    /\ committed' = Current'
-----------------------------------------------------------------------------
Process(p) ==
    \/ GetObject(p)
    \/ \E v \in Value : \/ StoreDirty(p, v)
                        \/ StoreClean(p, v)
                        \/ MitigateZero(p, v)
                        \/ MitigateCopy(p, v)
    \/ MitigateMove(p)
    \/ ZeroPage(p)
    \/ AgeClean(p)
    \/ AgeSteal(p)

CheckpointThread ==
    \/ DoPhase1Work
    \/ \E p \in Page : CleanAKROPage(p)
    \/ DoPhase2Work
    \/ DoPhase3Work
    \/ DoSync
    \/ DoPhase4Work
    \/ DoPhase5Work

Disk ==
    \/ Transfer /\ UNCHANGED halted
    \/ IOReq_EndReadPage
    \/ IOReq_EndPageClean
    \/ EndPageCleanAsserts
    \/ IOReq_EndGenHdrWrite
    \/ IOReq_EndCkptRootWrite
    \/ IOReq_EndSync

Next ==
    \/ ~halted /\ (\E p \in Page : Process(p)) /\ UNCHANGED halted
    \/ ~halted /\ DeclareDemarcationEvent /\ UNCHANGED halted
    \/ ~halted /\ CheckpointThread /\ UNCHANGED halted
    \/ ~halted /\ Disk
    \/ CrashRestart

Spec == Init /\ [][Next]_vars

(* The checkpoint thread is a kernel activity of high priority and the disk  *)
(* driver loops over its queue: neither is kept from running for ever.       *)
FairSpec ==
    /\ Spec
    /\ WF_vars(~halted /\ CheckpointThread /\ UNCHANGED halted)
    /\ WF_vars(~halted /\ Disk)
-----------------------------------------------------------------------------
(* Properties.                                                               *)

Store == INSTANCE PersistentStore
           WITH Object <- Page, current <- Current, pending <- snapshot,
                forsaken <- astray

(* The cache, the log and the disk together implement the abstract store:    *)
(* copy on write, cleaning, eviction and fetching are invisible, all pages   *)
(* are caught at the same instant by DoPhase1Work, and a restart finds one   *)
(* whole picture, never older than the last one declared complete by         *)
(* DoPhase5Work. The store forsakes a page only when a process zeroes it,    *)
(* not being in core, while a checkpoint is being stabilized, and promises   *)
(* it anew at the next restart.                                              *)
ImplementsStore == Store!Spec

(* While a checkpoint is being stabilized, the version of each page caught   *)
(* by the demarcation event is still held somewhere: in the working copy     *)
(* made by pageH_MitigateKRO, in the KRO frame, or where the log directory   *)
(* says (the page was clean, or has been cleaned since). The pages that      *)
(* Page_zero recorded in the checkpoint's own generation are the exception.  *)
Picture(p) ==
    IF HasCopy(p) THEN wcopy[p].val ELSE IF p \in kro THEN val[p] ELSE Stored(p)
PictureKept ==
    ckptState \in 2 .. 5 => \A p \in Page \ astray : snapshot[p] = Picture(p)

(* ValidateNumKROPages: the count that DoPhase2Work waits on is the number   *)
(* of frames that are KRO and dirty, although cleaning, copy on write and    *)
(* the demarcation scan each keep it by hand.                                *)
KROCountExact ==
    ~halted => numKRODirtyPages =
      Cardinality(kro \cap dirty) + Cardinality({p \in Page : wcopy[p].dirty})

(* The table of page states at the head of kern_Ckpt.c: after the moment of  *)
(* demarcation a clean KRO frame is being written and has its directory      *)
(* entry; a page with a working copy is current in another frame, dirty and  *)
(* without I/O; a dirty page that is not KRO has no I/O.                     *)
PageStatesOfTable ==
    ckptState \in 2 .. 5 =>
      \A p \in Page :
        /\ p \in kro \ dirty => /\ lid[p] # 0 /\ val[p] # Zero
                                /\ dir[p] = [gen |-> workingGen, loc |-> lid[p]]
        /\ HasCopy(p) => p \in dirty \ kro /\ lid[p] = 0
        /\ p \in dirty \ kro => lid[p] = 0

(* Whatever the device's cache loses, the root that restart chooses leads to *)
(* headers and page frames that are all on nonvolatile media, and these      *)
(* yield the last complete picture, or the one being stabilized, of all the  *)
(* pages that are not astray.                                                *)
Recoverable ==
    \A rt \in RootOutcomes :
      LET r == rt[ChooseRoot(rt)]
          d == LoadedDir(r)
          promised == IF snapshot # NoPicture /\ r.gen = workingGen
                        THEN snapshot ELSE committed
      IN /\ r.gen # 0
         /\ \A i \in 1 .. Len(r.hdrs) : r.hdrs[i] \in stable
         /\ \A p \in Page : d[p].loc # 0 => d[p].loc \in stable
         /\ \A p \in Page \ astray : Found(d[p], p) = promised[p]

(* The root location being written is never the only valid one: while a new  *)
(* root is queued or not yet nonvolatile, the other location holds a root    *)
(* that ValidateCkptRoot accepts, and at all other times the current one     *)
(* does. Restart asserts that it finds a valid root.                         *)
RootPending ==
    rootVolatile \/ \E i \in 1 .. Len(queue) : queue[i].op = "root"
RootsSafe ==
    IF RootPending THEN root[1 - currentRoot].gen # 0
    ELSE root[currentRoot].gen # 0

(* The IORequests for cleaning are neither lost nor freed twice: each is     *)
(* free, queued, or kept with the generation header's page for the root.     *)
PoolConserved ==
    ~halted =>
      NCleaning = freeCleaning
        + Cardinality({i \in 1 .. Len(queue) : queue[i].op # "read"})
        + (IF ckptState = 4 /\ ckptWait # "hdr" THEN 1 ELSE 0)

(* A checkpoint that has been declared ends: it stabilizes, or the machine   *)
(* fails, or the kernel halts. In particular the thread is not left asleep   *)
(* on WaitForObjDirWritten or on an IORequest, and does not wait for ever    *)
(* for the IORequests that the cleaning of pages also uses.                  *)
CheckpointEnds == ckptIsActive ~> (~ckptIsActive \/ halted)

(* The table at the head of kern_Ckpt.c admits a page that is KRO, dirty and *)
(* being cleaned. The end of that I/O does not then halt the kernel.         *)
RedirtiedPageSurvives == ~halted

(* kern_LogDirectory.c says of the time a checkpoint takes to stabilize that *)
(* "any objects which are altered during this time period are part of the    *)
(* next generation": zeroing a page then leaves the picture as it was.       *)
AlteredInNextGeneration ==
    ckptState \in 2 .. 5 => \A p \in Page : snapshot[p] = Picture(p)
=============================================================================
