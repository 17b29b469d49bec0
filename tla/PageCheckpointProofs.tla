------------------------ MODULE PageCheckpointProofs ------------------------
(* Proofs about module PageCheckpoint, for every set of pages, every set of  *)
(* page contents, every number of IORequests and every length of the log.    *)
(* First the types and the two roots, then the frames and their requests,    *)
(* then the picture, what a restart finds and the refinement.                *)
EXTENDS PageCheckpoint, TLAPS, FiniteSetTheorems, SequenceTheorems,
        WellFoundedInduction

\* A KRO frame is waiting to be cleaned or is being cleaned.
KROFrames == \A p \in kro : p \in dirty \/ lid[p] # 0

\* At most one request of the checkpoint thread is queued: it sleeps on it.
Control == {"hdr", "root", "sync"}
ControlRequests ==
    /\ \A i \in 1 .. Len(queue) :
         queue[i].op \in Control => ckptWait = queue[i].op
    /\ \A i, j \in 1 .. Len(queue) :
         queue[i].op \in Control /\ queue[j].op \in Control => i = j
    /\ served => queue # <<>>

\* How the wait, the phase and the progress of DoSync go together.
SyncOrder ==
    /\ ckptState \notin {4, 5} => ckptWait = "none"
    /\ ckptWait = "hdr" => ckptState = 4 /\ nextRangeToSync = 0
    /\ ckptWait = "root" => ckptState = 5 /\ nextRangeToSync = 0
    /\ ckptWait = "sync" => nextRangeToSync = 1 /\ rangesSynced = 0
    /\ nextRangeToSync = 0 => rangesSynced = 0
    /\ ckptState = 3 => nextRangeToSync = 0
    /\ ckptState \in 2 .. 5 => snapshot # NoPicture

\* The new root is volatile only between its transfer and that of the sync.
RootOrder ==
    /\ rootVolatile => ckptState = 5 /\ rangesSynced = 0
    /\ served /\ Head(queue).op = "sync" => ~rootVolatile
    /\ served /\ Head(queue).op = "root" => rootVolatile
    /\ RootPending => newRoot.gen # 0

\* A valid root names at least one generation header, and no more headers
\* than there have been generations.
RootOK(r) == r.gen # 0 => r.hdrs # <<>> /\ Len(r.hdrs) <= r.gen
HeadersKnown ==
    /\ genLids # <<>>
    /\ Len(genLids) <= (IF ckptState \in {4, 5} THEN workingGen
                        ELSE workingGen - 1)
    /\ RootOK(newRoot)
    /\ \A i \in {0, 1} : RootOK(root[i])

\* What the checkpoint thread, the disk and restart keep among themselves.
ControlInv ==
    /\ ControlRequests
    /\ SyncOrder
    /\ RootOrder
    /\ HeadersKnown
    /\ RootsSafe

IndInv ==
    /\ TypeOK
    /\ KROFrames
    /\ ControlInv
-----------------------------------------------------------------------------
(* A nonempty set of natural numbers has a least element.                    *)
LEMMA SmallestElement ==
  ASSUME NEW T, T \subseteq Nat, T # {}
  PROVE  \E x \in T : \A y \in T : x <= y
<1> DEFINE Less == {ss \in Nat \X Nat : ss[1] < ss[2]}
<1>1. IsWellFoundedOn(Less, Nat)
  BY NatLessThanWellFounded, Zenon DEF OpToRel
<1>2. \E x \in T : \A y \in T : ~ (<<y, x>> \in Less)
  <2> HIDE DEF Less
  <2> QED
    BY <1>1, WFMin, Zenon
<1>3. PICK x \in T : \A y \in T : ~ (<<y, x>> \in Less)
  BY <1>2
<1>4. ASSUME NEW y \in T PROVE x <= y
  <2>1. <<y, x>> \in Nat \X Nat /\ ~ (y < x)
    BY <1>3
  <2> QED
    BY <2>1
<1> QED
  BY <1>4

(* Replacing a value of a function.                                          *)
LEMMA ExceptType ==
  ASSUME NEW S, NEW T, NEW f \in [S -> T], NEW x \in S, NEW e \in T
  PROVE  [f EXCEPT ![x] = e] \in [S -> T]
  OBVIOUS

(* The parts of a request of each kind.                                      *)
LEMMA RequestFields ==
  ASSUME NEW req \in Request
  PROVE  /\ req.op \in {"write", "read", "hdr", "root", "sync"}
         /\ req.op = "write" => req.page \in Page /\ req.lid \in Lid
         /\ req.op = "read" => req.page \in Page /\ req.lid \in 0 .. MaxLid
         /\ req.op = "hdr" => req.lid \in Lid
  BY DEF Request

(* The requests that the actions enqueue.                                    *)
LEMMA RequestKinds ==
  /\ \A p \in Page, l \in Lid :
       [op |-> "write", page |-> p, lid |-> l] \in Request
  /\ \A p \in Page, l \in 0 .. MaxLid :
       [op |-> "read", page |-> p, lid |-> l] \in Request
  /\ \A l \in Lid : [op |-> "hdr", lid |-> l] \in Request
  /\ [op |-> "root"] \in Request
  /\ [op |-> "sync"] \in Request
  BY DEF Request

(* There are finitely many dirty pages.                                      *)
LEMMA DirtyCount ==
  ASSUME TypeOK
  PROVE  Cardinality(dirty) \in Nat
  BY ConstantsAssumption, FS_Subset, FS_CardinalityType DEF TypeOK

(* Initially the invariant holds.                                            *)
LEMMA InitInv == Init => IndInv
<1> SUFFICES ASSUME Init PROVE IndInv
  OBVIOUS
<1> USE ConstantsAssumption
<1>1. TypeOK
  <2>1. NoCopy \in Copy
    BY DEF NoCopy, Copy
  <2>2. /\ <<1>> \in Seq(Lid)
        /\ InvalidRoot \in Root
        /\ [gen |-> 1, hdrs |-> <<1>>] \in Root
    BY DEF Lid, Root, InvalidRoot
  <2>3. [p \in Page |-> NoEntry] \in Saved
    BY DEF Saved, NoEntry
  <2>4. [gen |-> 0, loc |-> 0] \in DirEntry
    BY DEF DirEntry
  <2>5. root \in [{0, 1} -> Root]
    BY <2>2 DEF Init
  <2>6. wcopy \in [Page -> Copy] /\ dir \in [Page -> DirEntry]
    BY <2>1, <2>4 DEF Init
  <2>7. /\ val \in [Page -> Value] /\ lid \in [Page -> 0 .. MaxLid]
        /\ logVal \in [Lid -> Value] /\ logHdr \in [Lid -> Saved]
        /\ genHdr \in Saved
    BY <2>3 DEF Init
  <2>8. genLids \in Seq(Lid) /\ queue \in Seq(Request) /\ newRoot \in Root
    BY <2>2 DEF Init
  <2>9. served \in BOOLEAN /\ rootVolatile \in BOOLEAN /\ halted \in BOOLEAN
    BY Zenon DEF Init
  <2>10. /\ logCursor \in 1 .. MaxLid + 1
         /\ written \subseteq Lid /\ stable \subseteq Lid
    BY DEF Init, Lid
  <2>11. /\ snapshot \in [Page -> Value] \cup {NoPicture}
         /\ committed \in [Page -> Value] /\ astray \subseteq Page
    BY DEF Init
  <2>12. /\ cached \subseteq Page /\ fetching \subseteq cached
         /\ dirty \subseteq cached /\ kro \subseteq cached
         /\ ckptWait \in {"none", "hdr", "root", "sync"}
    BY DEF Init
  <2>13. /\ numKRODirtyPages \in Int /\ ckptState \in 0 .. 5
         /\ nextRangeToSync \in {0, 1} /\ rangesSynced \in {0, 1}
         /\ workingGen \in Nat \ {0} /\ currentRoot \in {0, 1}
         /\ freeCleaning \in Nat
    BY DEF Init
  <2> QED
    BY <2>5, <2>6, <2>7, <2>8, <2>9, <2>10, <2>11, <2>12, <2>13, Zenon
       DEF TypeOK
<1>2. KROFrames
  BY DEF Init, KROFrames
<1>3. ControlRequests /\ SyncOrder
  BY DEF Init, ControlRequests, SyncOrder
<1>4. ~RootPending
  BY DEF Init, RootPending
<1>5. RootOrder
  BY <1>4 DEF Init, RootOrder
<1>6. HeadersKnown
  <2>1. <<1>> # <<>> /\ Len(<<1>>) = 1
    OBVIOUS
  <2>2. /\ root[0].gen = 1 /\ root[0].hdrs = <<1>>
        /\ root[1].gen = 0 /\ newRoot.gen = 0
    BY DEF Init, InvalidRoot
  <2>3. RootOK(root[0]) /\ RootOK(root[1]) /\ RootOK(newRoot)
    BY <2>1, <2>2 DEF RootOK
  <2>4. genLids # <<>> /\ Len(genLids) <= workingGen - 1 /\ ckptState = 0
    BY <2>1 DEF Init
  <2> QED
    BY <2>3, <2>4 DEF HeadersKnown
<1>7. RootsSafe
  BY <1>4 DEF Init, RootsSafe
<1> QED
  BY <1>1, <1>2, <1>3, <1>5, <1>6, <1>7 DEF IndInv, ControlInv
-----------------------------------------------------------------------------
controlVars == <<ckptState, ckptWait, nextRangeToSync, rangesSynced, newRoot,
                 workingGen, genLids, currentRoot, served, root, rootVolatile,
                 snapshot>>

(* Steps of the processes and of the cleaning of pages leave the control     *)
(* state alone, but for a request they may add to the queue.                 *)
LEMMA ControlUnchanged ==
  ASSUME ControlInv, UNCHANGED controlVars, UNCHANGED queue
  PROVE  ControlInv'
<1> USE DEF controlVars
<1>1. ControlRequests' /\ SyncOrder'
  BY DEF ControlInv, ControlRequests, SyncOrder
<1>2. RootPending' = RootPending
  BY DEF RootPending
<1>3. RootOrder' /\ RootsSafe'
  BY <1>2 DEF ControlInv, RootOrder, RootsSafe
<1>4. HeadersKnown'
  BY DEF ControlInv, HeadersKnown, RootOK
<1> QED
  BY <1>1, <1>3, <1>4 DEF ControlInv

(* A request that is not the checkpoint thread's, added to the queue.        *)
LEMMA ControlAppend ==
  ASSUME TypeOK, ControlInv, UNCHANGED controlVars,
         NEW req \in Request, req.op \notin Control, Enqueue(req)
  PROVE  ControlInv'
<1> USE DEF controlVars
<1>1. /\ Len(queue') = Len(queue) + 1 /\ Len(queue) \in Nat
      /\ \A i \in 1 .. Len(queue) : queue'[i] = queue[i]
      /\ queue'[Len(queue) + 1] = req
      /\ queue' # <<>>
      /\ queue # <<>> => Head(queue') = Head(queue)
  BY DEF TypeOK, Enqueue
<1>2. ControlRequests'
  BY <1>1 DEF ControlInv, ControlRequests
<1>3. SyncOrder'
  BY DEF ControlInv, SyncOrder
<1>4. RootPending' = RootPending
  BY <1>1 DEF RootPending, Control
<1>5. RootOrder' /\ RootsSafe'
  BY <1>1, <1>4 DEF ControlInv, ControlRequests, RootOrder, RootsSafe
<1>6. HeadersKnown'
  BY DEF ControlInv, HeadersKnown, RootOK
<1> QED
  BY <1>2, <1>3, <1>5, <1>6 DEF ControlInv
-----------------------------------------------------------------------------
(* Cleaning a page, by ageing or by the checkpoint thread.                   *)
LEMMA CleanStep ==
  ASSUME IndInv, NEW p \in Page, pageH_Clean(p), UNCHANGED halted
  PROVE  IndInv'
<1> USE ConstantsAssumption DEF cacheVars, ckptVars, diskVars, ghostVars
<1> DEFINE req == [op |-> "write", page |-> p, lid |-> logCursor]
<1>0. TypeOK /\ KROFrames /\ ControlInv
  BY DEF IndInv
<1>1. UNCHANGED controlVars
  BY DEF pageH_Clean, controlVars
<1>2. CASE val[p] = Zero
  <2>1. TypeOK' /\ KROFrames'
    <3>1. /\ dir' = [dir EXCEPT ![p] = [gen |-> workingGen, loc |-> 0]]
          /\ kro' = kro \ {p} /\ dirty' = dirty \ {p} /\ lid' = lid
          /\ numKRODirtyPages' = numKRODirtyPages - KROCount(p)
      BY <1>2 DEF pageH_Clean, Record
    <3>2. [gen |-> workingGen, loc |-> 0] \in DirEntry /\ KROCount(p) \in Int
      BY <1>0 DEF TypeOK, DirEntry, KROCount
    <3>3. dir' \in [Page -> DirEntry] /\ numKRODirtyPages' \in Int
      BY <1>0, <3>1, <3>2 DEF TypeOK
    <3>4. TypeOK'
      BY <1>0, <1>2, <3>1, <3>3 DEF TypeOK, pageH_Clean
    <3>5. KROFrames'
      BY <1>0, <3>1 DEF KROFrames
    <3> QED
      BY <3>4, <3>5
  <2>2. UNCHANGED queue
    BY <1>2 DEF pageH_Clean
  <2> QED
    BY <1>0, <1>1, <2>1, <2>2, ControlUnchanged DEF IndInv
<1>3. CASE val[p] # Zero
  <2>1. logCursor \in Lid /\ logCursor # 0
    BY <1>0, <1>3 DEF TypeOK, pageH_Clean, Lid
  <2>2. req \in Request /\ req.op \notin Control
    BY <2>1, RequestKinds DEF Control
  <2>3. Enqueue(req)
    BY <1>3 DEF pageH_Clean
  <2>4. queue' \in Seq(Request)
    BY <1>0, <2>2, <2>3, AppendProperties DEF Enqueue, TypeOK
  <2>5. TypeOK'
    <3>1. [gen |-> workingGen, loc |-> logCursor] \in DirEntry
      BY <1>0, <2>1 DEF TypeOK, DirEntry, Lid
    <3>2. dir' \in [Page -> DirEntry]
      BY <1>0, <1>3, <3>1, ZenonT(40) DEF TypeOK, pageH_Clean, Record
    <3>3. /\ lid' = [lid EXCEPT ![p] = logCursor]
          /\ logCursor' = logCursor + 1 /\ freeCleaning' = freeCleaning - 1
          /\ freeCleaning > 0
          /\ numKRODirtyPages' = numKRODirtyPages - KROCount(p)
      BY <1>3 DEF pageH_Clean
    <3>5. /\ lid' \in [Page -> 0 .. MaxLid]
           /\ logCursor' \in 1 .. MaxLid + 1 /\ freeCleaning' \in Nat
           /\ numKRODirtyPages' \in Int
      BY <1>0, <2>1, <3>3 DEF TypeOK, KROCount, Lid
    <3>4. dirty' \subseteq cached /\ kro' \subseteq cached
      BY <1>0, <1>3 DEF TypeOK, pageH_Clean
    <3> QED
      BY <1>0, <2>4, <3>2, <3>5, <3>4, SMTT(30) DEF TypeOK, pageH_Clean
  <2>6. KROFrames'
    BY <1>0, <1>3, <2>1 DEF TypeOK, KROFrames, pageH_Clean, Lid
  <2> QED
    BY <1>0, <1>1, <2>2, <2>3, <2>5, <2>6, ControlAppend DEF IndInv
<1> QED
  BY <1>2, <1>3

(* Cleaning the working copy of a page that has been separated from it.      *)
LEMMA CleanCopyStep ==
  ASSUME IndInv, NEW p \in Page, CleanCopy(p), UNCHANGED halted
  PROVE  IndInv'
<1> USE ConstantsAssumption DEF cacheVars, ckptVars, diskVars, ghostVars
<1> DEFINE req == [op |-> "write", page |-> p, lid |-> logCursor]
<1>0. TypeOK /\ KROFrames /\ ControlInv
  BY DEF IndInv
<1>1. UNCHANGED controlVars
  BY DEF CleanCopy, controlVars
<1>2. KROFrames'
  BY <1>0 DEF KROFrames, CleanCopy
<1>3. CASE wcopy[p].val = Zero
  <2>1. TypeOK'
    <3>1. NoCopy \in Copy /\ [gen |-> workingGen, loc |-> 0] \in DirEntry
      BY <1>0 DEF TypeOK, Copy, NoCopy, DirEntry
    <3>2. wcopy \in [Page -> Copy] /\ dir \in [Page -> DirEntry]
      BY <1>0 DEF TypeOK
    <3>3. /\ wcopy' = [wcopy EXCEPT ![p] = NoCopy]
          /\ dir' = [dir EXCEPT ![p] = [gen |-> workingGen, loc |-> 0]]
      BY <1>3 DEF CleanCopy, Record
    <3>4. wcopy' \in [Page -> Copy] /\ dir' \in [Page -> DirEntry]
      BY <3>1, <3>2, <3>3, ExceptType
    <3> QED
      BY <1>0, <1>3, <3>4 DEF TypeOK, CleanCopy
  <2>2. UNCHANGED queue
    BY <1>3 DEF CleanCopy
  <2> QED
    BY <1>0, <1>1, <1>2, <2>1, <2>2, ControlUnchanged DEF IndInv
<1>4. CASE wcopy[p].val # Zero
  <2>1. logCursor \in Lid
    BY <1>0, <1>4 DEF TypeOK, CleanCopy, Lid
  <2>2. req \in Request /\ req.op \notin Control
    BY <2>1, RequestKinds DEF Control
  <2>3. Enqueue(req)
    BY <1>4 DEF CleanCopy
  <2>4. queue' \in Seq(Request)
    BY <1>0, <2>2, <2>3, AppendProperties DEF Enqueue, TypeOK
  <2>5. TypeOK'
    <3>1. [gen |-> workingGen, loc |-> logCursor] \in DirEntry
      BY <1>0, <2>1 DEF TypeOK, DirEntry, Lid
    <3>2. [val |-> wcopy[p].val, dirty |-> FALSE, lid |-> logCursor] \in Copy
      BY <1>0, <2>1 DEF TypeOK, Copy, Lid
    <3>3. wcopy \in [Page -> Copy] /\ dir \in [Page -> DirEntry]
      BY <1>0 DEF TypeOK
    <3>4. /\ dir' = [dir EXCEPT ![p] = [gen |-> workingGen, loc |-> logCursor]]
          /\ wcopy' = [wcopy EXCEPT ![p] = [val |-> wcopy[p].val,
                                            dirty |-> FALSE, lid |-> logCursor]]
      BY <1>4 DEF CleanCopy, Record
    <3>5. wcopy' \in [Page -> Copy] /\ dir' \in [Page -> DirEntry]
      BY <3>1, <3>2, <3>3, <3>4, ExceptType
    <3>6. /\ logCursor' \in 1 .. MaxLid + 1 /\ freeCleaning' \in Nat
          /\ numKRODirtyPages' \in Int
      BY <1>0, <1>4, <2>1, SMTT(30) DEF TypeOK, CleanCopy, Lid
    <3> QED
      BY <1>0, <2>4, <3>5, <3>6, SMTT(30) DEF TypeOK, CleanCopy
  <2> QED
    BY <1>0, <1>1, <1>2, <2>2, <2>3, <2>5, ControlAppend DEF IndInv
<1> QED
  BY <1>3, <1>4
-----------------------------------------------------------------------------
(* The steps of a process.                                                   *)
LEMMA ProcessStep ==
  ASSUME IndInv, NEW p \in Page, Process(p), UNCHANGED halted
  PROVE  IndInv'
<1> USE ConstantsAssumption DEF cacheVars, ckptVars, diskVars, ghostVars
<1>0. TypeOK /\ KROFrames /\ ControlInv
  BY DEF IndInv
<1>1. CASE GetObject(p)
  <2> DEFINE req == [op |-> "read", page |-> p, lid |-> Location(p)]
  <2>1. Location(p) \in 0 .. MaxLid
    BY <1>0 DEF TypeOK, Location, DirEntry
  <2>2. req \in Request
    BY <2>1, RequestKinds
  <2>3. queue' = queue \/ Enqueue(req)
    BY <1>1 DEF GetObject
  <2>4. queue' \in Seq(Request)
    <3> HIDE DEF req
    <3>1. queue \in Seq(Request)
      BY <1>0 DEF TypeOK
    <3> QED
      BY <2>2, <2>3, <3>1, AppendProperties DEF Enqueue
  <2>5. TypeOK'
    <3>1. val' \in [Page -> Value]
      BY <1>0, <1>1 DEF TypeOK, GetObject
    <3>2. cached' \subseteq Page /\ fetching' \subseteq cached'
      BY <1>0, <1>1 DEF TypeOK, GetObject
    <3>3. dirty' \subseteq cached' /\ kro' \subseteq cached'
      BY <1>0, <1>1 DEF TypeOK, GetObject
    <3> QED
      BY <1>0, <1>1, <2>4, <3>1, <3>2, <3>3 DEF TypeOK, GetObject
  <2>6. KROFrames'
    BY <1>0, <1>1 DEF KROFrames, GetObject
  <2>7. ControlInv'
    <3>1. UNCHANGED controlVars
      BY <1>1 DEF GetObject, controlVars
    <3>2. req.op \notin Control
      BY DEF Control
    <3> QED
      BY <1>0, <2>2, <2>3, <3>1, <3>2, ControlUnchanged, ControlAppend
  <2> QED
    BY <2>5, <2>6, <2>7 DEF IndInv
<1>2. ASSUME NEW v \in Value, StoreDirty(p, v) PROVE IndInv'
  <2>1. TypeOK' /\ KROFrames'
    BY <1>0, <1>2 DEF TypeOK, KROFrames, StoreDirty
  <2>2. UNCHANGED <<controlVars, queue>>
    BY <1>2 DEF StoreDirty, controlVars
  <2> QED
    BY <1>0, <2>1, <2>2, ControlUnchanged DEF IndInv
<1>3. ASSUME NEW v \in Value, StoreClean(p, v) PROVE IndInv'
  <2>1. TypeOK' /\ KROFrames'
    BY <1>0, <1>3 DEF TypeOK, KROFrames, StoreClean
  <2>2. UNCHANGED <<controlVars, queue>>
    BY <1>3 DEF StoreClean, controlVars
  <2> QED
    BY <1>0, <2>1, <2>2, ControlUnchanged DEF IndInv
<1>4. ASSUME NEW v \in Value, MitigateZero(p, v) PROVE IndInv'
  <2>1. TypeOK' /\ KROFrames'
    BY <1>0, <1>4 DEF TypeOK, KROFrames, MitigateZero, Record, DirEntry
  <2>2. UNCHANGED <<controlVars, queue>>
    BY <1>4 DEF MitigateZero, controlVars
  <2> QED
    BY <1>0, <2>1, <2>2, ControlUnchanged DEF IndInv
<1>5. ASSUME NEW v \in Value, MitigateCopy(p, v) PROVE IndInv'
  <2>1. TypeOK' /\ KROFrames'
    BY <1>0, <1>5 DEF TypeOK, KROFrames, MitigateCopy, Copy
  <2>2. UNCHANGED <<controlVars, queue>>
    BY <1>5 DEF MitigateCopy, controlVars
  <2> QED
    BY <1>0, <2>1, <2>2, ControlUnchanged DEF IndInv
<1>6. CASE MitigateMove(p)
  <2>1. TypeOK' /\ KROFrames'
    BY <1>0, <1>6 DEF TypeOK, KROFrames, MitigateMove, Copy
  <2>2. UNCHANGED <<controlVars, queue>>
    BY <1>6 DEF MitigateMove, controlVars
  <2> QED
    BY <1>0, <2>1, <2>2, ControlUnchanged DEF IndInv
<1>7. CASE AgeClean(p)
  BY <1>7, CleanStep DEF AgeClean
<1>8. CASE AgeSteal(p)
  <2>1. TypeOK' /\ KROFrames'
    BY <1>0, <1>8 DEF TypeOK, KROFrames, AgeSteal, Stealable
  <2>2. UNCHANGED <<controlVars, queue>>
    BY <1>8 DEF AgeSteal, controlVars
  <2> QED
    BY <1>0, <2>1, <2>2, ControlUnchanged DEF IndInv
<1>9. CASE ZeroPage(p)
  <2>1. TypeOK' /\ KROFrames'
    BY <1>0, <1>9 DEF TypeOK, KROFrames, ZeroPage, Record, DirEntry
  <2>2. UNCHANGED <<controlVars, queue>>
    BY <1>9 DEF ZeroPage, controlVars
  <2> QED
    BY <1>0, <2>1, <2>2, ControlUnchanged DEF IndInv
<1> QED
  BY <1>1, <1>2, <1>3, <1>4, <1>5, <1>6, <1>7, <1>8, <1>9 DEF Process
-----------------------------------------------------------------------------
(* A request of the checkpoint thread is queued when none is: it is then the *)
(* only one.                                                                 *)
LEMMA ControlEnqueue ==
  ASSUME TypeOK, ControlRequests, ckptWait = "none",
         NEW req \in Request, req.op \in Control, Enqueue(req),
         ckptWait' = req.op, UNCHANGED served
  PROVE  /\ ControlRequests'
         /\ queue' \in Seq(Request)
         /\ RootPending => rootVolatile
         /\ \A i \in 1 .. Len(queue') : queue'[i].op \in Control => queue'[i] = req
         /\ served => Head(queue') = Head(queue) /\ Head(queue).op \notin Control
         /\ \E i \in 1 .. Len(queue') : queue'[i] = req
<1>1. /\ Len(queue') = Len(queue) + 1 /\ Len(queue) \in Nat
      /\ \A i \in 1 .. Len(queue) : queue'[i] = queue[i]
      /\ queue'[Len(queue) + 1] = req
      /\ queue' # <<>>
      /\ queue # <<>> => Head(queue') = Head(queue) /\ Head(queue) = queue[1]
      /\ queue # <<>> => 1 \in 1 .. Len(queue)
      /\ queue' \in Seq(Request)
  BY DEF TypeOK, Enqueue
<1>2. \A i \in 1 .. Len(queue) : queue[i].op \notin Control
  BY DEF ControlRequests, Control
<1>3. \A i \in 1 .. Len(queue') : queue'[i].op \in Control => i = Len(queue) + 1
  BY <1>1, <1>2
<1>4. ControlRequests'
  BY <1>1, <1>3 DEF ControlRequests
<1>5. RootPending => rootVolatile
  BY <1>2 DEF RootPending, Control
<1> QED
  BY <1>1, <1>2, <1>3, <1>4, <1>5 DEF ControlRequests

(* The steps of the checkpoint thread.                                       *)
LEMMA CheckpointStep ==
  ASSUME IndInv, CheckpointThread \/ DeclareDemarcationEvent, UNCHANGED halted
  PROVE  IndInv'
<1> USE ConstantsAssumption DEF cacheVars, ckptVars, diskVars, ghostVars
<1>0. /\ TypeOK /\ KROFrames /\ ControlInv
      /\ ControlRequests /\ SyncOrder /\ RootOrder /\ HeadersKnown /\ RootsSafe
  BY DEF IndInv, ControlInv
<1>1. CASE DeclareDemarcationEvent
  <2>1. TypeOK' /\ KROFrames'
    BY <1>0, <1>1 DEF TypeOK, KROFrames, DeclareDemarcationEvent
  <2>2. RootPending' = RootPending
    BY <1>1 DEF DeclareDemarcationEvent, RootPending
  <2>3. ControlRequests' /\ SyncOrder' /\ RootOrder' /\ RootsSafe'
    BY <1>0, <1>1, <2>2 DEF ControlRequests, SyncOrder, RootOrder, RootsSafe,
       DeclareDemarcationEvent, ckptIsActive
  <2>4. HeadersKnown'
    BY <1>0, <1>1 DEF HeadersKnown, RootOK, DeclareDemarcationEvent,
       ckptIsActive
  <2> QED
    BY <2>1, <2>3, <2>4 DEF IndInv, ControlInv
<1>2. CASE DoPhase1Work
  <2>0. Current \in [Page -> Value]
    BY <1>0 DEF TypeOK, Current, Stored, Found, DirEntry, Lid
  <2>1. TypeOK'
    <3>1. numKRODirtyPages' \in Int
      BY <1>0, <1>2, DirtyCount DEF TypeOK, DoPhase1Work
    <3>2. ASSUME NEW p \in Page
          PROVE  [gen |-> workingGen, loc |-> lid[p]] \in DirEntry
      BY <1>0 DEF TypeOK, DirEntry
    <3>3. dir' \in [Page -> DirEntry]
      BY <1>0, <1>2, <3>2 DEF TypeOK, DoPhase1Work
    <3>4. kro' \subseteq cached
      BY <1>2 DEF DoPhase1Work
    <3> QED
      BY <1>0, <1>2, <2>0, <3>1, <3>3, <3>4 DEF TypeOK, DoPhase1Work
  <2>2. KROFrames'
    BY <1>2 DEF KROFrames, DoPhase1Work, CheckpointPage
  <2>3. RootPending' = RootPending
    BY <1>2 DEF DoPhase1Work, RootPending
  <2>4. ControlRequests' /\ SyncOrder' /\ RootOrder' /\ RootsSafe'
    BY <1>0, <1>2, <2>0, <2>3 DEF ControlRequests, SyncOrder, RootOrder, RootsSafe,
       DoPhase1Work
  <2>5. HeadersKnown'
    BY <1>0, <1>2 DEF HeadersKnown, RootOK, DoPhase1Work
  <2> QED
    BY <2>1, <2>2, <2>4, <2>5 DEF IndInv, ControlInv
<1>3. ASSUME NEW p \in Page, CleanAKROPage(p) PROVE IndInv'
  BY <1>3, CleanStep, CleanCopyStep DEF CleanAKROPage
<1>4. CASE DoPhase2Work
  <2>1. TypeOK'
    <3>1. genHdr' \in Saved
      BY <1>0, <1>4 DEF TypeOK, DoPhase2Work, Saved, DirEntry, NoEntry
    <3> QED
      BY <1>0, <1>4, <3>1 DEF TypeOK, DoPhase2Work
  <2>2. KROFrames'
    BY <1>0, <1>4 DEF KROFrames, DoPhase2Work
  <2>3. RootPending' = RootPending
    BY <1>4 DEF DoPhase2Work, RootPending
  <2>4. ControlRequests' /\ SyncOrder' /\ RootOrder' /\ RootsSafe'
    BY <1>0, <1>4, <2>3 DEF ControlRequests, SyncOrder, RootOrder, RootsSafe,
       DoPhase2Work
  <2>5. HeadersKnown'
    BY <1>0, <1>4 DEF HeadersKnown, RootOK, DoPhase2Work
  <2> QED
    BY <2>1, <2>2, <2>4, <2>5 DEF IndInv, ControlInv
<1>5. CASE DoPhase3Work
  <2> DEFINE req == [op |-> "hdr", lid |-> logCursor]
  <2>1. logCursor \in Lid
    BY <1>0, <1>5 DEF TypeOK, DoPhase3Work, Lid
  <2>2. req \in Request /\ req.op \in Control /\ req.op = "hdr"
    BY <2>1, RequestKinds DEF Control
  <2>3. Enqueue(req) /\ ckptWait' = req.op /\ ckptWait = "none"
    BY <1>0, <1>5 DEF DoPhase3Work, SyncOrder
  <2>32. UNCHANGED served
    BY <1>5 DEF DoPhase3Work
  <2> HIDE DEF req
  <2>4. /\ ControlRequests'
        /\ queue' \in Seq(Request)
        /\ RootPending => rootVolatile
        /\ \A i \in 1 .. Len(queue') : queue'[i].op \in Control => queue'[i] = req
        /\ served => Head(queue') = Head(queue) /\ Head(queue).op \notin Control
    BY <1>0, <2>2, <2>3, <2>32, ControlEnqueue
  <2>5. genLids' \in Seq(Lid) /\ genLids' # <<>> /\ Len(genLids') = Len(genLids) + 1
    BY <1>0, <1>5, <2>1 DEF TypeOK, DoPhase3Work
  <2>6. TypeOK'
    BY <1>0, <1>5, <2>1, <2>4, <2>5 DEF TypeOK, DoPhase3Work, Lid
  <2>7. KROFrames'
    BY <1>0, <1>5 DEF KROFrames, DoPhase3Work
  <2>8. ~RootPending /\ ~RootPending' /\ ~rootVolatile
    BY <1>0, <1>5, <2>2, <2>4 DEF RootOrder, RootPending, DoPhase3Work, Control
  <2>9. SyncOrder'
    BY <1>0, <1>5 DEF SyncOrder, DoPhase3Work
  <2>10. RootOrder' /\ RootsSafe'
    BY <1>0, <1>5, <2>4, <2>8 DEF RootOrder, RootsSafe, DoPhase3Work, Control
  <2>11. HeadersKnown'
    BY <1>0, <1>5, <2>5 DEF HeadersKnown, RootOK, DoPhase3Work, TypeOK
  <2> QED
    BY <2>4, <2>6, <2>7, <2>9, <2>10, <2>11 DEF IndInv, ControlInv
<1>6. CASE DoSync
  <2> DEFINE req == [op |-> "sync"]
  <2>2. req \in Request /\ req.op \in Control /\ req.op = "sync"
    BY RequestKinds DEF Control
  <2>3. Enqueue(req) /\ ckptWait' = req.op /\ ckptWait = "none" /\ UNCHANGED served
    BY <1>6 DEF DoSync
  <2> HIDE DEF req
  <2>4. /\ ControlRequests'
        /\ queue' \in Seq(Request)
        /\ RootPending => rootVolatile
        /\ \A i \in 1 .. Len(queue') : queue'[i].op \in Control => queue'[i] = req
        /\ served => Head(queue') = Head(queue) /\ Head(queue).op \notin Control
    BY <1>0, <2>2, <2>3, ControlEnqueue
  <2>6. TypeOK'
    BY <1>0, <1>6, <2>4 DEF TypeOK, DoSync
  <2>7. KROFrames'
    BY <1>0, <1>6 DEF KROFrames, DoSync
  <2>8. (RootPending <=> rootVolatile) /\ (RootPending' <=> rootVolatile)
    BY <1>6, <2>2, <2>4 DEF RootPending, DoSync, Control
  <2>9. SyncOrder'
    BY <1>0, <1>6 DEF SyncOrder, DoSync
  <2>10. RootOrder' /\ RootsSafe'
    BY <1>0, <1>6, <2>4, <2>8 DEF RootOrder, RootsSafe, DoSync, Control
  <2>11. HeadersKnown'
    BY <1>0, <1>6 DEF HeadersKnown, RootOK, DoSync
  <2> QED
    BY <2>4, <2>6, <2>7, <2>9, <2>10, <2>11 DEF IndInv, ControlInv
<1>7. CASE DoPhase4Work
  <2> DEFINE req == [op |-> "root"]
  <2>2. req \in Request /\ req.op \in Control /\ req.op = "root"
    BY RequestKinds DEF Control
  <2>3. Enqueue(req) /\ ckptWait' = req.op /\ ckptWait = "none" /\ UNCHANGED served
    BY <1>7 DEF DoPhase4Work
  <2> HIDE DEF req
  <2>4. /\ ControlRequests'
        /\ queue' \in Seq(Request)
        /\ RootPending => rootVolatile
        /\ served => Head(queue') = Head(queue) /\ Head(queue).op \notin Control
        /\ \E i \in 1 .. Len(queue') : queue'[i] = req
    BY <1>0, <2>2, <2>3, ControlEnqueue
  <2>5. newRoot' = [gen |-> workingGen, hdrs |-> genLids]
    BY <1>7 DEF DoPhase4Work
  <2>6. TypeOK'
    <3>1. newRoot' \in Root
      BY <1>0, <2>5 DEF TypeOK, Root
    <3>2. genHdr' \in Saved
      BY <1>7 DEF DoPhase4Work, Saved, NoEntry
    <3> QED
      BY <1>0, <1>7, <2>4, <3>1, <3>2 DEF TypeOK, DoPhase4Work, OtherRoot
  <2>7. KROFrames'
    BY <1>0, <1>7 DEF KROFrames, DoPhase4Work
  <2>8. ~RootPending /\ RootPending' /\ ~rootVolatile
    BY <1>0, <1>7, <2>2, <2>4 DEF RootOrder, RootPending, DoPhase4Work
  <2>9. SyncOrder'
    BY <1>0, <1>7 DEF SyncOrder, DoPhase4Work
  <2>10. RootOrder'
    BY <1>0, <1>7, <2>4, <2>5, <2>8 DEF RootOrder, DoPhase4Work, Control, TypeOK
  <2>11. RootsSafe'
    BY <1>0, <1>7, <2>8 DEF RootsSafe, DoPhase4Work, OtherRoot, TypeOK
  <2>12. HeadersKnown'
    BY <1>0, <1>7, <2>5 DEF HeadersKnown, RootOK, DoPhase4Work
  <2> QED
    BY <2>4, <2>6, <2>7, <2>9, <2>10, <2>11, <2>12 DEF IndInv, ControlInv
<1>8. CASE DoPhase5Work
  <2>1. snapshot # NoPicture
    BY <1>0, <1>8 DEF SyncOrder, DoPhase5Work
  <2>2. TypeOK'
    BY <1>0, <1>8, <2>1 DEF TypeOK, DoPhase5Work
  <2>3. KROFrames'
    BY <1>0, <1>8 DEF KROFrames, DoPhase5Work
  <2>4. ~rootVolatile
    BY <1>0, <1>8 DEF RootOrder, DoPhase5Work, AllSynced
  <2>5. RootPending' = RootPending
    BY <1>8 DEF DoPhase5Work, RootPending
  <2>6. ControlRequests' /\ SyncOrder' /\ RootOrder' /\ RootsSafe'
    BY <1>0, <1>8, <2>4, <2>5 DEF ControlRequests, SyncOrder, RootOrder, RootsSafe,
       DoPhase5Work
  <2>7. HeadersKnown'
    BY <1>0, <1>8 DEF HeadersKnown, RootOK, DoPhase5Work, TypeOK
  <2> QED
    BY <2>2, <2>3, <2>6, <2>7 DEF IndInv, ControlInv
<1> QED
  BY <1>1, <1>2, <1>3, <1>4, <1>5, <1>6, <1>7, <1>8 DEF CheckpointThread
-----------------------------------------------------------------------------
(* What the end of a request does to the queue.                              *)
LEMMA Dequeue ==
  ASSUME TypeOK, NEW op, Completed(op)
  PROVE  /\ Head(queue) \in Request /\ Head(queue) = queue[1]
         /\ Head(queue).op = op
         /\ queue # <<>> /\ 1 \in 1 .. Len(queue) /\ Len(queue) \in Nat
         /\ queue' \in Seq(Request)
         /\ Len(queue') = Len(queue) - 1
         /\ \A i \in 1 .. Len(queue') : queue'[i] = queue[i + 1]
         /\ served = TRUE /\ served' = FALSE
  BY DEF TypeOK, Completed

(* The end of a read or of the cleaning of a page.                           *)
LEMMA ControlDequeue ==
  ASSUME TypeOK, ControlInv, NEW op, op \notin Control, Completed(op),
         UNCHANGED <<ckptState, ckptWait, nextRangeToSync, rangesSynced,
                     newRoot, workingGen, genLids, currentRoot, root,
                     rootVolatile, snapshot>>
  PROVE  ControlInv'
<1>1. /\ Head(queue) = queue[1] /\ Head(queue).op = op
      /\ queue # <<>> /\ 1 \in 1 .. Len(queue) /\ Len(queue) \in Nat
      /\ Len(queue') = Len(queue) - 1
      /\ \A i \in 1 .. Len(queue') : queue'[i] = queue[i + 1]
      /\ served' = FALSE
  BY Dequeue
<1>2. ControlRequests'
  BY <1>1, SMTT(30) DEF ControlInv, ControlRequests
<1>3. \A i \in 1 .. Len(queue) : i # 1 => i - 1 \in 1 .. Len(queue')
                                          /\ queue'[i - 1] = queue[i]
  BY <1>1
<1>4. RootPending' <=> RootPending
  <2>1. \A i \in 1 .. Len(queue') : i + 1 \in 1 .. Len(queue)
    BY <1>1
  <2>2. queue[1].op # "root"
    BY <1>1 DEF Control
  <2>3. (\E i \in 1 .. Len(queue') : queue'[i].op = "root")
          => \E i \in 1 .. Len(queue) : queue[i].op = "root"
    BY <1>1, <2>1
  <2>4. (\E i \in 1 .. Len(queue) : queue[i].op = "root")
          => \E i \in 1 .. Len(queue') : queue'[i].op = "root"
    BY <1>3, <2>2
  <2> QED
    BY <2>3, <2>4 DEF RootPending
<1>5. SyncOrder' /\ RootOrder' /\ RootsSafe'
  BY <1>1, <1>4 DEF ControlInv, SyncOrder, RootOrder, RootsSafe
<1>6. HeadersKnown'
  BY DEF ControlInv, HeadersKnown, RootOK
<1> QED
  BY <1>2, <1>5, <1>6 DEF ControlInv

(* The end of a request of the checkpoint thread leaves none queued.         *)
LEMMA ControlDone ==
  ASSUME TypeOK, ControlRequests, NEW op, op \in Control, Completed(op)
  PROVE  /\ ckptWait = op
         /\ \A i \in 1 .. Len(queue') : queue'[i].op \notin Control
         /\ ControlRequests'
         /\ rootVolatile' \/ ~RootPending'
<1>1. /\ Head(queue) = queue[1] /\ Head(queue).op = op
      /\ queue # <<>> /\ 1 \in 1 .. Len(queue) /\ Len(queue) \in Nat
      /\ Len(queue') = Len(queue) - 1
      /\ \A i \in 1 .. Len(queue') : queue'[i] = queue[i + 1]
      /\ served' = FALSE
  BY Dequeue
<1>2. ckptWait = op
  BY <1>1 DEF ControlRequests
<1>3. \A i \in 1 .. Len(queue') : i + 1 \in 1 .. Len(queue) /\ i + 1 # 1
  BY <1>1
<1>4. \A i \in 1 .. Len(queue') : queue'[i].op \notin Control
  BY <1>1, <1>3 DEF ControlRequests
<1> QED
  BY <1>1, <1>2, <1>4 DEF ControlRequests, RootPending, Control

(* The transfer of the oldest request by the device.                         *)
LEMMA TransferStep ==
  ASSUME IndInv, Transfer, UNCHANGED halted
  PROVE  IndInv'
<1> USE ConstantsAssumption DEF cacheVars, ckptVars, diskVars, ghostVars
<1> DEFINE req == Head(queue)
<1>0. /\ TypeOK /\ KROFrames
      /\ ControlRequests /\ SyncOrder /\ RootOrder /\ HeadersKnown /\ RootsSafe
  BY DEF IndInv, ControlInv
<1>1. /\ req \in Request /\ req = queue[1] /\ 1 \in 1 .. Len(queue)
      /\ queue # <<>> /\ queue' = queue /\ served' = TRUE
  BY <1>0 DEF TypeOK, Transfer
<1>2. /\ req.op = "write" => req.page \in Page /\ req.lid \in Lid
      /\ req.op = "hdr" => req.lid \in Lid
  BY <1>1, RequestFields
<1>3. req.op = "write" => WriteData(req) \in Value
  BY <1>0, <1>2 DEF WriteData, TypeOK, Copy
<1>4. TypeOK'
  <2>1. logVal' \in [Lid -> Value]
    BY <1>0, <1>2, <1>3 DEF TypeOK, Transfer
  <2>2. logHdr' \in [Lid -> Saved]
    BY <1>0, <1>2 DEF TypeOK, Transfer
  <2>3. written' \subseteq Lid
    BY <1>0, <1>2 DEF TypeOK, Transfer
  <2>4. stable' \subseteq Lid
    BY <1>0 DEF TypeOK, Transfer
  <2>5. newRoot' \in Root /\ root' \in [{0, 1} -> Root]
    <3>1. InvalidRoot \in Root
      BY DEF InvalidRoot, Root
    <3> QED
      BY <1>0, <3>1 DEF TypeOK, Transfer
  <2>6. rootVolatile' \in BOOLEAN
    BY <1>0 DEF TypeOK, Transfer
  <2> QED
    BY <1>0, <2>1, <2>2, <2>3, <2>4, <2>5, <2>6 DEF TypeOK, Transfer
<1>5. KROFrames'
  BY <1>0 DEF KROFrames, Transfer
<1>6. ControlRequests' /\ SyncOrder'
  BY <1>0, <1>1 DEF ControlRequests, SyncOrder, Transfer
<1>7. CASE req.op = "sync"
  <2>1. /\ ckptWait = "sync"
        /\ \A i \in 1 .. Len(queue) : queue[i].op # "root"
    BY <1>0, <1>1, <1>7 DEF ControlRequests, Control
  <2>2. /\ ~rootVolatile' /\ newRoot' = InvalidRoot
        /\ root' = IF rootVolatile THEN [root EXCEPT ![currentRoot] = newRoot]
                   ELSE root
        /\ UNCHANGED <<currentRoot, genLids, workingGen, ckptState>>
    BY <1>7 DEF Transfer
  <2>3. ~RootPending' /\ (RootPending <=> rootVolatile)
    BY <1>1, <2>1, <2>2 DEF RootPending
  <2>4. RootOrder'
    BY <1>1, <1>7, <2>2, <2>3 DEF RootOrder
  <2>5. RootsSafe'
    BY <1>0, <2>2, <2>3 DEF RootsSafe, RootOrder, TypeOK
  <2>6. HeadersKnown'
    <3>1. RootOK(newRoot')
      BY <2>2 DEF RootOK, InvalidRoot
    <3>2. \A i \in {0, 1} : RootOK(root'[i])
      BY <1>0, <2>2 DEF HeadersKnown, TypeOK
    <3> QED
      BY <1>0, <2>2, <3>1, <3>2 DEF HeadersKnown
  <2> QED
    BY <1>4, <1>5, <1>6, <2>4, <2>5, <2>6 DEF IndInv, ControlInv
<1>8. CASE req.op = "root"
  <2>1. RootPending
    BY <1>1, <1>8 DEF RootPending
  <2>2. ckptWait = "root"
    BY <1>0, <1>1, <1>8 DEF ControlRequests, Control
  <2>3. /\ rootVolatile' = TRUE
        /\ UNCHANGED <<newRoot, root, currentRoot, genLids, workingGen,
                       ckptState, rangesSynced>>
    BY <1>8 DEF Transfer
  <2>4. RootPending'
    BY <2>3 DEF RootPending
  <2>5. RootOrder' /\ RootsSafe'
    BY <1>0, <1>1, <1>8, <2>1, <2>2, <2>3, <2>4 DEF RootOrder, RootsSafe, SyncOrder
  <2>6. HeadersKnown'
    BY <1>0, <2>3 DEF HeadersKnown, RootOK
  <2> QED
    BY <1>4, <1>5, <1>6, <2>5, <2>6 DEF IndInv, ControlInv
<1>9. CASE req.op \notin {"root", "sync"}
  <2>1. UNCHANGED <<newRoot, root, currentRoot, genLids, workingGen,
                    ckptState, rangesSynced, rootVolatile>>
    BY <1>9 DEF Transfer
  <2>2. RootPending' <=> RootPending
    BY <1>1, <2>1 DEF RootPending
  <2>3. RootOrder' /\ RootsSafe'
    BY <1>0, <1>1, <1>9, <2>1, <2>2 DEF RootOrder, RootsSafe
  <2>4. HeadersKnown'
    BY <1>0, <2>1 DEF HeadersKnown, RootOK
  <2> QED
    BY <1>4, <1>5, <1>6, <2>3, <2>4 DEF IndInv, ControlInv
<1> QED
  BY <1>7, <1>8, <1>9

(* The ends of requests.                                                     *)
LEMMA DiskStep ==
  ASSUME IndInv, Disk
  PROVE  IndInv'
<1> USE ConstantsAssumption DEF cacheVars, ckptVars, diskVars, ghostVars
<1>0. /\ TypeOK /\ KROFrames /\ ControlInv
      /\ ControlRequests /\ SyncOrder /\ RootOrder /\ HeadersKnown /\ RootsSafe
  BY DEF IndInv, ControlInv
<1>1. CASE Transfer /\ UNCHANGED halted
  BY <1>1, TransferStep
<1>2. CASE IOReq_EndReadPage
  <2> DEFINE req == Head(queue)
  <2>1. Completed("read") /\ "read" \notin Control
    BY <1>2 DEF IOReq_EndReadPage, Control
  <2>2. req \in Request /\ req.op = "read" /\ queue' \in Seq(Request)
    BY <1>0, <2>1, Dequeue
  <2>3. req.page \in Page /\ req.lid \in 0 .. MaxLid
    BY <2>2, RequestFields
  <2>4. ReadResults(req) \subseteq Value
    BY <1>0, <2>3 DEF ReadResults, TypeOK, Lid
  <2>5. TypeOK' /\ KROFrames'
    <3>1. PICK v \in ReadResults(req) : val' = [val EXCEPT ![req.page] = v]
      BY <1>2 DEF IOReq_EndReadPage
    <3>2. val' \in [Page -> Value]
      BY <1>0, <2>3, <2>4, <3>1 DEF TypeOK
    <3>3. fetching' \subseteq cached /\ served' \in BOOLEAN
      BY <1>0, <1>2 DEF TypeOK, IOReq_EndReadPage, Completed
    <3> QED
      BY <1>0, <1>2, <2>2, <3>2, <3>3 DEF TypeOK, KROFrames, IOReq_EndReadPage
  <2>6. ControlInv'
    BY <1>0, <1>2, <2>1, ControlDequeue DEF IOReq_EndReadPage
  <2> QED
    BY <2>5, <2>6 DEF IndInv
<1>3. CASE IOReq_EndPageClean
  <2> DEFINE req == Head(queue)
             p == req.page
             l == req.lid
  <2>1. Completed("write") /\ "write" \notin Control
    BY <1>3 DEF IOReq_EndPageClean, Control
  <2>2. req \in Request /\ req.op = "write" /\ queue' \in Seq(Request)
    BY <1>0, <2>1, Dequeue
  <2>3. p \in Page /\ l \in Lid
    BY <2>2, RequestFields
  <2>4. /\ freeCleaning' \in Nat /\ served' \in BOOLEAN
        /\ UNCHANGED <<cached, fetching, val, dirty, numKRODirtyPages, ckptVars,
                       logCursor, diskVars, ghostVars, halted>>
    <3>1. served' \in BOOLEAN
      BY <1>0, <2>1, Dequeue
    <3>2. freeCleaning' = freeCleaning + 1
      BY <1>3 DEF IOReq_EndPageClean
    <3>3. freeCleaning' \in Nat
      BY <1>0, <3>2 DEF TypeOK
    <3> QED
      BY <1>3, <3>1, <3>3 DEF IOReq_EndPageClean
  <2>5. CASE /\ dir' = IF p \in dirty \cup kro THEN dir ELSE Record(p, l)
             /\ lid' = [lid EXCEPT ![p] = 0]
             /\ kro' = kro \ {p}
             /\ UNCHANGED wcopy
    <3>1. [gen |-> workingGen, loc |-> l] \in DirEntry
      BY <1>0, <2>3 DEF TypeOK, DirEntry, Lid
    <3>2. dir' \in [Page -> DirEntry]
      BY <1>0, <2>3, <2>5, <3>1 DEF TypeOK, Record
    <3>3. lid' \in [Page -> 0 .. MaxLid] /\ kro' \subseteq cached
      BY <1>0, <2>3, <2>5 DEF TypeOK
    <3>4. TypeOK'
      BY <1>0, <2>2, <2>4, <2>5, <3>2, <3>3 DEF TypeOK
    <3>5. KROFrames'
      BY <1>0, <2>4, <2>5 DEF KROFrames, TypeOK
    <3> QED
      BY <1>0, <2>1, <2>4, <3>4, <3>5, ControlDequeue DEF IndInv
  <2>6. CASE /\ wcopy' = [wcopy EXCEPT ![p] = NoCopy]
             /\ UNCHANGED <<dir, lid, kro>>
    <3>1. wcopy' \in [Page -> Copy]
      BY <1>0, <2>3, <2>6 DEF TypeOK, Copy, NoCopy
    <3>2. TypeOK'
      BY <1>0, <2>2, <2>4, <2>6, <3>1 DEF TypeOK
    <3>3. KROFrames'
      BY <1>0, <2>4, <2>6 DEF KROFrames
    <3> QED
      BY <1>0, <2>1, <2>4, <3>2, <3>3, ControlDequeue DEF IndInv
  <2> QED
    BY <1>3, <2>5, <2>6 DEF IOReq_EndPageClean
<1>4. CASE EndPageCleanAsserts
  <2>1. Completed("write") /\ "write" \notin Control
    BY <1>4 DEF EndPageCleanAsserts, Control
  <2>2. queue' \in Seq(Request) /\ served' \in BOOLEAN
    BY <1>0, <2>1, Dequeue
  <2>3. TypeOK' /\ KROFrames'
    BY <1>0, <1>4, <2>2 DEF TypeOK, KROFrames, EndPageCleanAsserts
  <2> QED
    BY <1>0, <1>4, <2>1, <2>3, ControlDequeue DEF IndInv, EndPageCleanAsserts
<1>5. CASE IOReq_EndGenHdrWrite
  <2>1. Completed("hdr") /\ "hdr" \in Control
    BY <1>5 DEF IOReq_EndGenHdrWrite, Control
  <2>2. queue' \in Seq(Request) /\ served' = FALSE
    BY <1>0, <2>1, Dequeue
  <2>3. ControlRequests' /\ ckptWait = "hdr" /\ (rootVolatile' \/ ~RootPending')
    BY <1>0, <2>1, ControlDone
  <2>4. TypeOK' /\ KROFrames'
    BY <1>0, <1>5, <2>2 DEF TypeOK, KROFrames, IOReq_EndGenHdrWrite
  <2>5. ~rootVolatile /\ ~rootVolatile' /\ ~RootPending
    BY <1>0, <1>5, <2>3
       DEF SyncOrder, RootOrder, RootPending, ControlRequests, Control,
           IOReq_EndGenHdrWrite
  <2>6. SyncOrder' /\ RootOrder' /\ RootsSafe'
    BY <1>0, <1>5, <2>2, <2>3, <2>5
       DEF SyncOrder, RootOrder, RootsSafe, IOReq_EndGenHdrWrite
  <2>7. HeadersKnown'
    BY <1>0, <1>5 DEF HeadersKnown, RootOK, IOReq_EndGenHdrWrite
  <2> QED
    BY <2>3, <2>4, <2>6, <2>7 DEF IndInv, ControlInv
<1>6. CASE IOReq_EndCkptRootWrite
  <2>1. Completed("root") /\ "root" \in Control
    BY <1>6 DEF IOReq_EndCkptRootWrite, Control
  <2>2. /\ queue' \in Seq(Request) /\ served' = FALSE /\ served = TRUE
        /\ Head(queue).op = "root"
    BY <1>0, <2>1, Dequeue
  <2>3. ControlRequests' /\ ckptWait = "root"
    BY <1>0, <2>1, ControlDone
  <2>4. TypeOK' /\ KROFrames'
    <3>1. freeCleaning' = freeCleaning + 1
      BY <1>6 DEF IOReq_EndCkptRootWrite, RootRequestFreed
    <3>2. freeCleaning' \in Nat
      BY <1>0, <3>1 DEF TypeOK
    <3>3. served' \in BOOLEAN
      BY <2>2
    <3> QED
      BY <1>0, <1>6, <2>2, <3>2, <3>3 DEF TypeOK, KROFrames, IOReq_EndCkptRootWrite
  <2>5. rootVolatile /\ RootPending /\ RootPending'
    BY <1>0, <1>6, <2>2 DEF RootOrder, RootPending, IOReq_EndCkptRootWrite
  <2>6. SyncOrder' /\ RootOrder' /\ RootsSafe'
    BY <1>0, <1>6, <2>2, <2>3, <2>5
       DEF SyncOrder, RootOrder, RootsSafe, IOReq_EndCkptRootWrite
  <2>7. HeadersKnown'
    BY <1>0, <1>6 DEF HeadersKnown, RootOK, IOReq_EndCkptRootWrite
  <2> QED
    BY <2>3, <2>4, <2>6, <2>7 DEF IndInv, ControlInv
<1>7. CASE IOReq_EndSync
  <2>1. Completed("sync") /\ "sync" \in Control
    BY <1>7 DEF IOReq_EndSync, Control
  <2>2. /\ queue' \in Seq(Request) /\ served' = FALSE /\ served = TRUE
        /\ Head(queue).op = "sync"
    BY <1>0, <2>1, Dequeue
  <2>3. ControlRequests' /\ ckptWait = "sync" /\ (rootVolatile' \/ ~RootPending')
    BY <1>0, <2>1, ControlDone
  <2>4. ckptWait' = "none" /\ rangesSynced' = 1
    BY <1>0, <1>7, <2>3 DEF SyncOrder, IOReq_EndSync, WakeAfterSync
  <2>5. TypeOK' /\ KROFrames'
    <3>1. freeCleaning' = freeCleaning + 1
      BY <1>7 DEF IOReq_EndSync
    <3>2. freeCleaning' \in Nat
      BY <1>0, <3>1 DEF TypeOK
    <3>3. served' \in BOOLEAN
      BY <2>2
    <3> QED
      BY <1>0, <1>7, <2>2, <2>4, <3>2, <3>3
         DEF TypeOK, KROFrames, IOReq_EndSync
  <2>6. ~rootVolatile /\ ~rootVolatile' /\ ~RootPending
    BY <1>0, <1>7, <2>2, <2>3
       DEF RootOrder, RootPending, ControlRequests, Control, IOReq_EndSync
  <2>7. SyncOrder' /\ RootOrder' /\ RootsSafe'
    BY <1>0, <1>7, <2>2, <2>3, <2>4, <2>6
       DEF SyncOrder, RootOrder, RootsSafe, IOReq_EndSync
  <2>8. HeadersKnown'
    BY <1>0, <1>7 DEF HeadersKnown, RootOK, IOReq_EndSync
  <2> QED
    BY <2>3, <2>5, <2>7, <2>8 DEF IndInv, ControlInv
<1> QED
  BY <1>1, <1>2, <1>3, <1>4, <1>5, <1>6, <1>7 DEF Disk
-----------------------------------------------------------------------------
(* Whatever a power failure leaves of a root being written, the root chosen  *)
(* is valid, so it names a header.                                           *)
LEMMA ChosenRootValid ==
  ASSUME IndInv, NEW rt \in RootOutcomes
  PROVE  /\ rt \in [{0, 1} -> Root]
         /\ ChooseRoot(rt) \in {0, 1}
         /\ \A i \in {0, 1} : RootOK(rt[i])
         /\ rt[ChooseRoot(rt)].gen \in Nat \ {0}
         /\ rt[ChooseRoot(rt)].hdrs \in Seq(Lid)
<1>0. TypeOK /\ HeadersKnown /\ RootsSafe
  BY DEF IndInv, ControlInv
<1>1. InvalidRoot \in Root /\ RootOK(InvalidRoot)
  BY DEF InvalidRoot, Root, RootOK
<1>2. \/ rt = root
      \/ /\ RootPending
         /\ \E r \in {root[currentRoot], newRoot, InvalidRoot} :
              rt = [root EXCEPT ![currentRoot] = r]
  <2>1. queue # <<>> => Head(queue) = queue[1] /\ 1 \in 1 .. Len(queue)
    BY <1>0 DEF TypeOK
  <2> QED
    BY <2>1 DEF RootOutcomes, RootPending
<1>3. rt \in [{0, 1} -> Root] /\ \A i \in {0, 1} : RootOK(rt[i])
  <2>1. CASE rt = root
    BY <1>0, <2>1 DEF TypeOK, HeadersKnown
  <2>2. ASSUME NEW r \in {root[currentRoot], newRoot, InvalidRoot},
               rt = [root EXCEPT ![currentRoot] = r]
        PROVE  rt \in [{0, 1} -> Root] /\ \A i \in {0, 1} : RootOK(rt[i])
    <3>1. r \in Root /\ RootOK(r)
      BY <1>0, <1>1 DEF TypeOK, HeadersKnown
    <3>2. rt \in [{0, 1} -> Root]
      BY <1>0, <2>2, <3>1 DEF TypeOK
    <3>3. \A i \in {0, 1} : rt[i] = r \/ rt[i] = root[i]
      BY <1>0, <2>2 DEF TypeOK
    <3>4. \A i \in {0, 1} : RootOK(root[i])
      BY <1>0 DEF HeadersKnown
    <3> QED
      BY <3>1, <3>2, <3>3, <3>4
  <2> QED
    BY <1>2, <2>1, <2>2
<1>4. \E i \in {0, 1} : rt[i].gen # 0
  BY <1>0, <1>2, SMTT(30) DEF RootsSafe, TypeOK
<1>5. rt[0] \in Root /\ rt[1] \in Root
  BY <1>3
<1>6. rt[0].gen \in Nat /\ rt[1].gen \in Nat
      /\ rt[0].hdrs \in Seq(Lid) /\ rt[1].hdrs \in Seq(Lid)
  BY <1>5 DEF Root
<1> QED
  BY <1>3, <1>4, <1>6 DEF ChooseRoot

(* The directory that restart builds is well formed.                         *)
LEMMA LoadedDirType ==
  ASSUME TypeOK, NEW r, r.gen \in Nat, r.hdrs \in Seq(Lid), Len(r.hdrs) <= r.gen
  PROVE  LoadedDir(r) \in [Page -> DirEntry]
<1> DEFINE has(p) == {i \in 1 .. Len(r.hdrs) : logHdr[r.hdrs[i]][p] # NoEntry}
           newest(p) == CHOOSE i \in has(p) : \A j \in has(p) : i <= j
<1>1. ASSUME NEW p \in Page, has(p) # {}
      PROVE  [gen |-> r.gen + 1 - newest(p),
              loc |-> logHdr[r.hdrs[newest(p)]][p]] \in DirEntry
  <2>1. has(p) \subseteq Nat
    BY <1>1
  <2>2. \E i \in has(p) : \A j \in has(p) : i <= j
    <3> HIDE DEF has
    <3> QED
      BY <1>1, <2>1, SmallestElement
  <2>3. newest(p) \in has(p)
    <3> HIDE DEF has
    <3> QED
      BY <2>2
  <2> HIDE DEF newest
  <2>4. newest(p) \in 1 .. Len(r.hdrs) /\ logHdr[r.hdrs[newest(p)]][p] # NoEntry
    BY <2>3
  <2>5. r.hdrs[newest(p)] \in Lid
    BY <2>4
  <2>6. logHdr[r.hdrs[newest(p)]] \in Saved
    BY <2>5 DEF TypeOK
  <2>7. logHdr[r.hdrs[newest(p)]][p] \in 0 .. MaxLid
    BY <2>4, <2>6, ConstantsAssumption, SMTT(30) DEF Saved, NoEntry
  <2>8. r.gen + 1 - newest(p) \in Nat
    BY <2>4
  <2> QED
    BY <2>7, <2>8 DEF DirEntry
<1>2. [gen |-> 0, loc |-> 0] \in DirEntry
  BY ConstantsAssumption DEF DirEntry
<1> QED
  BY <1>1, <1>2 DEF LoadedDir

(* Power failure and restart.                                                *)
LEMMA CrashStep ==
  ASSUME IndInv, CrashRestart
  PROVE  IndInv'
<1> USE ConstantsAssumption
<1>0. TypeOK
  BY DEF IndInv
<1>1. PICK rt \in RootOutcomes :
        LET c == ChooseRoot(rt)
            r == rt[c]
        IN /\ root' = rt
           /\ currentRoot' = c
           /\ dir' = LoadedDir(r)
           /\ workingGen' = r.gen + 1
           /\ genLids' = r.hdrs
           /\ logCursor' = Head(r.hdrs) + 1
  BY DEF CrashRestart
<1> DEFINE r == rt[ChooseRoot(rt)]
<1>2. /\ written' = stable /\ stable' = stable
      /\ snapshot' = NoPicture /\ astray' = {} /\ committed' = Current'
      /\ rootVolatile' = FALSE /\ served' = FALSE /\ halted' = FALSE
      /\ cached' = {} /\ fetching' = {} /\ dirty' = {} /\ kro' = {}
      /\ val' = [p \in Page |-> Zero]
      /\ lid' = [p \in Page |-> 0]
      /\ wcopy' = [p \in Page |-> NoCopy]
      /\ numKRODirtyPages' = 0
      /\ ckptState' = 0 /\ ckptWait' = "none"
      /\ nextRangeToSync' = 0 /\ rangesSynced' = 0
      /\ genHdr' = [p \in Page |-> NoEntry]
      /\ newRoot' = InvalidRoot
      /\ freeCleaning' = NCleaning
      /\ queue' = <<>>
      /\ logVal' = [l \in Lid |-> IF l \in stable THEN logVal[l] ELSE Zero]
      /\ logHdr' = [l \in Lid |-> IF l \in stable THEN logHdr[l]
                                  ELSE [p \in Page |-> NoEntry]]
  BY DEF CrashRestart
<1>3. /\ rt \in [{0, 1} -> Root]
      /\ ChooseRoot(rt) \in {0, 1}
      /\ \A i \in {0, 1} : RootOK(rt[i])
      /\ r.gen \in Nat \ {0}
      /\ r.hdrs \in Seq(Lid)
  BY ChosenRootValid
<1>4. r.hdrs # <<>> /\ Len(r.hdrs) <= r.gen
  BY <1>3 DEF RootOK
<1>5. dir' \in [Page -> DirEntry]
  BY <1>0, <1>1, <1>3, <1>4, LoadedDirType
<1>6. TypeOK'
  <2>1. [p \in Page |-> NoEntry] \in Saved
    BY DEF Saved, NoEntry
  <2>2. NoCopy \in Copy /\ InvalidRoot \in Root
    BY DEF NoCopy, Copy, InvalidRoot, Root
  <2>3. logCursor' \in 1 .. MaxLid + 1
    BY <1>1, <1>3, <1>4 DEF Lid
  <2>4. committed' \in [Page -> Value]
    <3>1. logVal' \in [Lid -> Value] /\ HomeValue \in [Page -> Value] /\ Zero \in Value
      BY <1>0, <1>2 DEF TypeOK
    <3>2. ASSUME NEW p \in Page PROVE Stored(p)' \in Value
      <4>1. dir'[p].loc \in 0 .. MaxLid
        BY <1>5 DEF DirEntry
      <4>2. dir'[p].loc # 0 => dir'[p].loc \in Lid
        BY <4>1 DEF Lid
      <4>3. QED
        BY <3>1, <4>2 DEF Stored, Found
    <3>3. Current' = [p \in Page |-> Stored(p)']
      BY <1>2 DEF Current
    <3>4. QED
      BY <1>2, <3>2, <3>3
  <2>5. /\ wcopy' \in [Page -> Copy] /\ val' \in [Page -> Value]
        /\ lid' \in [Page -> 0 .. MaxLid] /\ genHdr' \in Saved
        /\ newRoot' \in Root /\ queue' \in Seq(Request)
    BY <1>2, <2>1, <2>2
  <2>6. logVal' \in [Lid -> Value] /\ logHdr' \in [Lid -> Saved]
    BY <1>0, <1>2, <2>1 DEF TypeOK
  <2>7. served' \in BOOLEAN /\ rootVolatile' \in BOOLEAN /\ halted' \in BOOLEAN
    BY <1>2
  <2>8. /\ cached' \subseteq Page /\ fetching' \subseteq cached'
        /\ dirty' \subseteq cached' /\ kro' \subseteq cached'
        /\ numKRODirtyPages' \in Int /\ ckptState' \in 0 .. 5
        /\ ckptWait' \in {"none", "hdr", "root", "sync"}
        /\ nextRangeToSync' \in {0, 1} /\ rangesSynced' \in {0, 1}
        /\ freeCleaning' \in Nat
    BY <1>2
  <2>9. /\ root' \in [{0, 1} -> Root] /\ currentRoot' \in {0, 1}
        /\ workingGen' \in Nat \ {0} /\ genLids' \in Seq(Lid)
    BY <1>1, <1>3
  <2>10. /\ written' \subseteq Lid /\ stable' \subseteq Lid
         /\ snapshot' \in [Page -> Value] \cup {NoPicture} /\ astray' \subseteq Page
    BY <1>0, <1>2 DEF TypeOK
  <2> QED
    BY <1>5, <2>3, <2>4, <2>5, <2>6, <2>7, <2>8, <2>9, <2>10 DEF TypeOK
<1>7. KROFrames'
  BY <1>2 DEF KROFrames
<1>8. ControlRequests' /\ SyncOrder' /\ ~RootPending'
  BY <1>2 DEF ControlRequests, SyncOrder, RootPending
<1>9. RootOrder'
  BY <1>2, <1>8 DEF RootOrder
<1>10. RootsSafe'
  BY <1>1, <1>3, <1>8 DEF RootsSafe
<1>11. HeadersKnown'
  <2>1. RootOK(newRoot')
    BY <1>2 DEF RootOK, InvalidRoot
  <2>2. /\ genLids' # <<>> /\ Len(genLids') <= workingGen' - 1
        /\ \A i \in {0, 1} : RootOK(root'[i])
    BY <1>1, <1>3, <1>4
  <2> QED
    BY <1>2, <2>1, <2>2 DEF HeadersKnown
<1> QED
  BY <1>6, <1>7, <1>8, <1>9, <1>10, <1>11 DEF IndInv, ControlInv
-----------------------------------------------------------------------------
(* The invariant is inductive.                                               *)
LEMMA NextInv == IndInv /\ [Next]_vars => IndInv'
<1> SUFFICES ASSUME IndInv, [Next]_vars PROVE IndInv'
  OBVIOUS
<1>1. ASSUME NEW p \in Page, Process(p), UNCHANGED halted PROVE IndInv'
  BY <1>1, ProcessStep
<1>2. CASE (CheckpointThread \/ DeclareDemarcationEvent) /\ UNCHANGED halted
  BY <1>2, CheckpointStep
<1>3. CASE Disk
  BY <1>3, DiskStep
<1>4. CASE CrashRestart
  BY <1>4, CrashStep
<1>5. CASE UNCHANGED vars
  <2> USE <1>5 DEF vars, cacheVars, ckptVars, diskVars, ghostVars
  <2>1. TypeOK' /\ KROFrames'
    BY DEF IndInv, TypeOK, KROFrames
  <2>2. UNCHANGED <<controlVars, queue>>
    BY DEF controlVars
  <2> QED
    BY <2>1, <2>2, ControlUnchanged DEF IndInv
<1> QED
  BY <1>1, <1>2, <1>3, <1>4, <1>5 DEF Next

(* The kernel's data about pages, the checkpoint in progress, the queue of   *)
(* requests and the log always have their types. In particular a dirty page  *)
(* or one kept read only for a checkpoint is never evicted by objC_AgePage-  *)
(* Frames, whatever the order of stores, I/O completions and phases.         *)
THEOREM TypeCorrect == Spec => []TypeOK
<1>1. Init => IndInv
  BY InitInv
<1>2. IndInv /\ [Next]_vars => IndInv'
  BY NextInv
<1>3. IndInv => TypeOK
  BY DEF IndInv
<1> QED
  BY <1>1, <1>2, <1>3, PTL DEF Spec

(* At every moment, including while a new root is being written, one of the  *)
(* two checkpoint root locations holds a valid root that is not being        *)
(* written: restart always finds one.                                        *)
THEOREM RootsAlwaysSafe == Spec => []RootsSafe
<1>1. Init => IndInv
  BY InitInv
<1>2. IndInv /\ [Next]_vars => IndInv'
  BY NextInv
<1>3. IndInv => RootsSafe
  BY DEF IndInv, ControlInv
<1> QED
  BY <1>1, <1>2, <1>3, PTL DEF Spec
-----------------------------------------------------------------------------
(* The frames of a page, their flags and the requests for them: the table of *)
(* page states at the head of kern_Ckpt.c (PageStatesOfTable), the count     *)
(* that phase 2 waits on (KROCountExact) and the pool of IORequests          *)
(* (PoolConserved). The inductive invariant has more parts, beside IndInv.   *)

WriteAt(i) == i \in 1 .. Len(queue) /\ queue[i].op = "write"
ReadAt(i) == i \in 1 .. Len(queue) /\ queue[i].op = "read"
WriteIn(q, p, l) == \E i \in 1 .. Len(q) :
                      q[i] = [op |-> "write", page |-> p, lid |-> l]

\* What the flags of a page say about its frames. A page that is KRO or has a
\* working copy belongs to the checkpoint being written; from the demarcation
\* on, only such pages are in I/O.
FrameState(p) ==
    /\ lid[p] # 0 => p \in cached \ fetching
    /\ p \in fetching => p \notin dirty \cup kro
    /\ p \in kro \/ HasCopy(p) => ckptState \in 2 .. 5
    /\ ckptState \in 2 .. 5 /\ lid[p] # 0 => p \in kro
    /\ lid[p] # 0 /\ p \notin dirty => val[p] # Zero
    /\ p \in kro \ dirty => dir[p] = [gen |-> workingGen, loc |-> lid[p]]
    /\ HasCopy(p) =>
         /\ p \in dirty \ kro /\ lid[p] = 0
         /\ ~wcopy[p].dirty =>
              /\ wcopy[p].lid # 0
              /\ dir[p] = [gen |-> workingGen, loc |-> wcopy[p].lid]
FrameStates == \A p \in Page : FrameState(p)

\* Every frame in I/O has its own request in the queue, and every request to
\* write a page its frame. Log frames are handed out once.
WriteRequests ==
    /\ \A i \in 1 .. Len(queue) : WriteAt(i) =>
         /\ queue[i].lid < logCursor
         /\ lid[queue[i].page] = queue[i].lid \/ wcopy[queue[i].page].lid = queue[i].lid
    /\ \A i, j \in 1 .. Len(queue) :
         WriteAt(i) /\ WriteAt(j) /\ queue[i].lid = queue[j].lid => i = j
    /\ ~halted =>
         \A p \in Page : /\ lid[p] # 0 => WriteIn(queue, p, lid[p])
                         /\ wcopy[p].lid # 0 => WriteIn(queue, p, wcopy[p].lid)

\* The generation header is written after the pages of the checkpoint, and
\* once it is written no page is.
HeaderAfterPages ==
    /\ ckptState \in 3 .. 5 =>
         ~halted /\ kro \cap dirty = {} /\ \A p \in Page : ~wcopy[p].dirty
    /\ \A i \in 1 .. Len(queue) :
         WriteAt(i) /\ ckptState \in {4, 5} => ckptWait = "hdr"
    /\ \A i, j \in 1 .. Len(queue) :
         WriteAt(i) /\ queue[j].op = "hdr" => i < j

\* A page being fetched has one request, which reads it where it is.
ReadRequests ==
    /\ \A i \in 1 .. Len(queue) : ReadAt(i) =>
         /\ queue[i].page \in fetching
         /\ queue[i].lid = Location(queue[i].page)
         /\ dir[queue[i].page].gen # 0 => dir[queue[i].page].loc # 0
    /\ \A i, j \in 1 .. Len(queue) :
         ReadAt(i) /\ ReadAt(j) /\ queue[i].page = queue[j].page => i = j

FrameInv ==
    /\ FrameStates
    /\ WriteRequests
    /\ HeaderAfterPages
    /\ ReadRequests
    /\ KROCountExact
    /\ PoolConserved

-----------------------------------------------------------------------------
(* Counting: the KRO dirty frames and the requests of the cleaning pool.     *)
KRODirty == kro \cap dirty
DirtyCopies == {p \in Page : wcopy[p].dirty}
Busy == {i \in 1 .. Len(queue) : queue[i].op # "read"}

(* These sets are finite.                                                    *)
LEMMA BusyFinite ==
  ASSUME NEW q \in Seq(Request)
  PROVE  IsFiniteSet({i \in 1 .. Len(q) : q[i].op # "read"})
<1>1. Len(q) \in Nat
  OBVIOUS
<1>2. IsFiniteSet(1 .. Len(q))
  BY <1>1, FS_Interval
<1>3. QED
  BY <1>2, FS_Subset

(* The counted sets are finite.                                              *)
LEMMA CountsFinite ==
  ASSUME TypeOK
  PROVE  /\ IsFiniteSet(KRODirty) /\ Cardinality(KRODirty) \in Nat
         /\ IsFiniteSet(DirtyCopies) /\ Cardinality(DirtyCopies) \in Nat
         /\ IsFiniteSet(Busy) /\ Cardinality(Busy) \in Nat
<1>1. KRODirty \in SUBSET Page /\ DirtyCopies \in SUBSET Page
  BY DEF TypeOK, KRODirty, DirtyCopies
<1>2. IsFiniteSet(KRODirty) /\ IsFiniteSet(DirtyCopies)
  BY <1>1, ConstantsAssumption, FS_Subset
<1>3. IsFiniteSet(Busy)
  BY BusyFinite DEF TypeOK, Busy
<1>4. QED
  BY <1>2, <1>3, FS_CardinalityType

(* The count of KRO dirty pages when their sets do not change.               *)
LEMMA KROCountSame ==
  ASSUME KROCountExact, KRODirty' = KRODirty, DirtyCopies' = DirtyCopies,
         UNCHANGED <<numKRODirtyPages, halted>>
  PROVE  KROCountExact'
  BY DEF KROCountExact, KRODirty, DirtyCopies

(* The count when one current frame is no longer KRO and dirty.              *)
LEMMA KROCountFrame ==
  ASSUME TypeOK, KROCountExact, NEW p \in KRODirty,
         KRODirty' = KRODirty \ {p}, DirtyCopies' = DirtyCopies,
         numKRODirtyPages' = numKRODirtyPages - 1, UNCHANGED halted
  PROVE  KROCountExact'
<1>1. Cardinality(KRODirty \ {p}) = Cardinality(KRODirty) - 1
  BY CountsFinite, FS_RemoveElement
<1>2. Cardinality(KRODirty) \in Nat /\ Cardinality(DirtyCopies) \in Nat
  BY CountsFinite
<1>3. KROCountExact <=>
        (~halted => numKRODirtyPages = Cardinality(KRODirty) + Cardinality(DirtyCopies))
  BY DEF KROCountExact, KRODirty, DirtyCopies
<1>4. KROCountExact' <=>
        (~halted' => numKRODirtyPages' = Cardinality(KRODirty') + Cardinality(DirtyCopies'))
  BY DEF KROCountExact, KRODirty, DirtyCopies
<1>5. QED
  BY <1>1, <1>2, <1>3, <1>4

(* The count when one working copy is no longer dirty.                       *)
LEMMA KROCountCopy ==
  ASSUME TypeOK, KROCountExact, NEW p \in DirtyCopies,
         KRODirty' = KRODirty, DirtyCopies' = DirtyCopies \ {p},
         numKRODirtyPages' = numKRODirtyPages - 1, UNCHANGED halted
  PROVE  KROCountExact'
<1>1. Cardinality(DirtyCopies \ {p}) = Cardinality(DirtyCopies) - 1
  BY CountsFinite, FS_RemoveElement
<1>2. Cardinality(KRODirty) \in Nat /\ Cardinality(DirtyCopies) \in Nat
  BY CountsFinite
<1>3. KROCountExact <=>
        (~halted => numKRODirtyPages = Cardinality(KRODirty) + Cardinality(DirtyCopies))
  BY DEF KROCountExact, KRODirty, DirtyCopies
<1>4. KROCountExact' <=>
        (~halted' => numKRODirtyPages' = Cardinality(KRODirty') + Cardinality(DirtyCopies'))
  BY DEF KROCountExact, KRODirty, DirtyCopies
<1>5. QED
  BY <1>1, <1>2, <1>3, <1>4

(* The count when a KRO dirty frame becomes a dirty working copy.            *)
LEMMA KROCountMove ==
  ASSUME TypeOK, KROCountExact, NEW p, p \in KRODirty, p \notin DirtyCopies,
         KRODirty' = KRODirty \ {p}, DirtyCopies' = DirtyCopies \cup {p},
         UNCHANGED <<numKRODirtyPages, halted>>
  PROVE  KROCountExact'
<1>1. /\ Cardinality(KRODirty \ {p}) = Cardinality(KRODirty) - 1
      /\ Cardinality(DirtyCopies \cup {p}) = Cardinality(DirtyCopies) + 1
  BY CountsFinite, FS_RemoveElement, FS_AddElement
<1>2. Cardinality(KRODirty) \in Nat /\ Cardinality(DirtyCopies) \in Nat
  BY CountsFinite
<1>3. KROCountExact <=>
        (~halted => numKRODirtyPages = Cardinality(KRODirty) + Cardinality(DirtyCopies))
  BY DEF KROCountExact, KRODirty, DirtyCopies
<1>4. KROCountExact' <=>
        (~halted' => numKRODirtyPages' = Cardinality(KRODirty') + Cardinality(DirtyCopies'))
  BY DEF KROCountExact, KRODirty, DirtyCopies
<1>5. QED
  BY <1>1, <1>2, <1>3, <1>4

(* The requests of the pool that are queued, when one is added ...           *)
LEMMA BusyAppend ==
  ASSUME TypeOK, NEW req \in Request, Enqueue(req)
  PROVE  Cardinality(Busy') =
           IF req.op = "read" THEN Cardinality(Busy) ELSE Cardinality(Busy) + 1
<1>1. /\ Len(queue) \in Nat /\ Len(queue') = Len(queue) + 1
      /\ \A i \in 1 .. Len(queue) : queue'[i] = queue[i]
      /\ queue'[Len(queue) + 1] = req
  BY DEF TypeOK, Enqueue
<1>2. CASE req.op = "read"
  <2>1. Busy' = Busy
    BY <1>1, <1>2 DEF Busy
  <2>2. QED
    BY <1>2, <2>1
<1>3. CASE req.op # "read"
  <2>1. Busy' = Busy \cup {Len(queue) + 1} /\ Len(queue) + 1 \notin Busy
    BY <1>1, <1>3 DEF Busy
  <2>2. QED
    BY <1>3, <2>1, CountsFinite, FS_AddElement
<1>4. QED
  BY <1>2, <1>3

(* ... and when the oldest one is removed.                                   *)
LEMMA BusyTail ==
  ASSUME TypeOK, TypeOK', NEW op, Completed(op)
  PROVE  Cardinality(Busy') =
           IF op = "read" THEN Cardinality(Busy) ELSE Cardinality(Busy) - 1
<1>0. /\ Len(queue) \in Nat /\ 1 \in 1 .. Len(queue)
      /\ Len(queue') = Len(queue) - 1
      /\ \A i \in 1 .. Len(queue') : queue'[i] = queue[i + 1]
      /\ queue[1].op = op
  BY Dequeue
<1>1. /\ Len(queue) \in Nat \ {0} /\ Len(queue') = Len(queue) - 1
      /\ \A i \in 1 .. Len(queue') : queue'[i] = queue[i + 1]
      /\ queue[1].op = op
  BY <1>0
<1> DEFINE shift == [i \in Busy' |-> i + 1]
<1>2. shift \in [Busy' -> Busy \ {1}]
  BY <1>1 DEF Busy
<1>3. \A i, j \in Busy' : shift[i] = shift[j] => i = j
  BY <1>1 DEF Busy
<1>4. \A j \in Busy \ {1} : \E i \in Busy' : shift[i] = j
  <2>1. SUFFICES ASSUME NEW j \in Busy \ {1}
                 PROVE  j - 1 \in Busy' /\ shift[j - 1] = j
    OBVIOUS
  <2>2. QED
    BY <1>1 DEF Busy
<1>5. shift \in Bijection(Busy', Busy \ {1})
  <2> HIDE DEF shift
  <2>1. DOMAIN shift = Busy'
    BY <1>2
  <2>2. QED
    BY <1>2, <1>3, <1>4, <2>1 DEF Bijection, Injection, IsInjective, Surjection
<1>6. IsFiniteSet(Busy')
  BY BusyFinite DEF TypeOK, Busy
<1>7. Cardinality(Busy \ {1}) = Cardinality(Busy')
  BY <1>5, <1>6, FS_Bijection DEF ExistsBijection
<1>8. 1 \in Busy <=> op # "read"
  BY <1>1 DEF Busy
<1>9. QED
  BY <1>7, <1>8, CountsFinite, FS_RemoveElement
-----------------------------------------------------------------------------
(* Each action preserves the invariant.                                      *)

(* The parts of a request to write a page.                                   *)
LEMMA WriteFields ==
  ASSUME TypeOK, NEW i, WriteAt(i)
  PROVE  /\ queue[i].page \in Page /\ queue[i].lid \in Lid
         /\ queue[i] = [op |-> "write", page |-> queue[i].page,
                        lid |-> queue[i].lid]
<1>1. queue[i] \in Request
  BY DEF WriteAt, TypeOK
<1>2. QED
  BY <1>1 DEF Request, WriteAt

(* A working copy that is dirty or in I/O.                                   *)
LEMMA CopyStates ==
  ASSUME FrameStates, NEW p \in Page, wcopy[p].dirty \/ wcopy[p].lid # 0
  PROVE  /\ HasCopy(p) /\ p \in dirty \ kro /\ p \notin fetching
         /\ lid[p] = 0 /\ ckptState \in 2 .. 5
<1>1. HasCopy(p)
  BY DEF HasCopy, NoCopy
<1>2. QED
  BY <1>1 DEF FrameStates, FrameState

(* A KRO page has no working copy.                                           *)
LEMMA KRONoCopy ==
  ASSUME FrameStates, NEW p \in Page, p \in kro
  PROVE  wcopy[p] = NoCopy /\ ~wcopy[p].dirty /\ wcopy[p].lid = 0
<1>1. wcopy[p] = NoCopy
  BY DEF FrameStates, FrameState, HasCopy
<1>2. QED
  BY <1>1 DEF NoCopy

(* A store into a writeable page.                                            *)
LEMMA StoreDirtyFrames ==
  ASSUME IndInv, FrameInv, ~halted, UNCHANGED halted, NEW p \in Page, NEW v \in Value,
         StoreDirty(p, v)
  PROVE  FrameInv'
<1> USE ConstantsAssumption DEF StoreDirty, cacheVars, ckptVars, diskVars, ghostVars
<1>0. /\ TypeOK /\ KROFrames /\ ControlInv
      /\ FrameStates /\ WriteRequests /\ HeaderAfterPages /\ ReadRequests
      /\ KROCountExact /\ PoolConserved
  BY DEF IndInv, FrameInv
<1>1. FrameStates'
  BY <1>0 DEF FrameStates, FrameState, TypeOK, KROFrames, HasCopy, NoCopy, Copy, DirEntry, Lid
<1>2. WriteRequests'
  BY <1>0 DEF WriteRequests, WriteAt, WriteIn, FrameStates, FrameState, HasCopy, NoCopy, TypeOK
<1>3. HeaderAfterPages'
  BY <1>0 DEF HeaderAfterPages, WriteAt, FrameStates, FrameState, HasCopy, NoCopy, TypeOK
<1>4. ReadRequests'
  BY <1>0 DEF ReadRequests, ReadAt, Location, FrameStates, FrameState, HasCopy, TypeOK
<1>5. KROCountExact'
  <2>1. KRODirty' = KRODirty /\ DirtyCopies' = DirtyCopies
    BY <1>0 DEF KRODirty, DirtyCopies, TypeOK
  <2>2. QED
    BY <1>0, <2>1, KROCountSame
<1>6. PoolConserved'
  BY <1>0 DEF PoolConserved
<1>7. QED
  BY <1>1, <1>2, <1>3, <1>4, <1>5, <1>6 DEF FrameInv

(* A store into a clean page.                                                *)
LEMMA StoreCleanFrames ==
  ASSUME IndInv, FrameInv, ~halted, UNCHANGED halted, NEW p \in Page, NEW v \in Value,
         StoreClean(p, v)
  PROVE  FrameInv'
<1> USE ConstantsAssumption DEF StoreClean, cacheVars, ckptVars, diskVars, ghostVars
<1>0. /\ TypeOK /\ KROFrames /\ ControlInv
      /\ FrameStates /\ WriteRequests /\ HeaderAfterPages /\ ReadRequests
      /\ KROCountExact /\ PoolConserved
  BY DEF IndInv, FrameInv
<1>1. FrameStates'
  BY <1>0 DEF FrameStates, FrameState, TypeOK, KROFrames, HasCopy, NoCopy, Copy, DirEntry, Lid
<1>2. WriteRequests'
  BY <1>0 DEF WriteRequests, WriteAt, WriteIn, FrameStates, FrameState, HasCopy, NoCopy, TypeOK
<1>3. HeaderAfterPages'
  BY <1>0 DEF HeaderAfterPages, WriteAt, FrameStates, FrameState, HasCopy, NoCopy, TypeOK
<1>4. ReadRequests'
  BY <1>0 DEF ReadRequests, ReadAt, Location, FrameStates, FrameState, HasCopy, TypeOK
<1>5. KROCountExact'
  <2>1. KRODirty' = KRODirty /\ DirtyCopies' = DirtyCopies
    BY <1>0 DEF KRODirty, DirtyCopies, TypeOK
  <2>2. QED
    BY <1>0, <2>1, KROCountSame
<1>6. PoolConserved'
  BY <1>0 DEF PoolConserved
<1>7. QED
  BY <1>1, <1>2, <1>3, <1>4, <1>5, <1>6 DEF FrameInv

(* A store into a KRO page of zeros.                                         *)
LEMMA MitigateZeroFrames ==
  ASSUME IndInv, FrameInv, ~halted, UNCHANGED halted, NEW p \in Page, NEW v \in Value,
         MitigateZero(p, v)
  PROVE  FrameInv'
<1> USE ConstantsAssumption DEF MitigateZero, Record, cacheVars, ckptVars, diskVars, ghostVars
<1>0. /\ TypeOK /\ KROFrames /\ ControlInv
      /\ FrameStates /\ WriteRequests /\ HeaderAfterPages /\ ReadRequests
      /\ KROCountExact /\ PoolConserved
  BY DEF IndInv, FrameInv
<1>1. FrameStates'
  BY <1>0 DEF FrameStates, FrameState, TypeOK, KROFrames, HasCopy, NoCopy, Copy, DirEntry, Lid
<1>2. WriteRequests'
  BY <1>0 DEF WriteRequests, WriteAt, WriteIn, FrameStates, FrameState, HasCopy, NoCopy, TypeOK
<1>3. HeaderAfterPages'
  BY <1>0 DEF HeaderAfterPages, WriteAt, FrameStates, FrameState, HasCopy, NoCopy, TypeOK
<1>4. ReadRequests'
  BY <1>0 DEF ReadRequests, ReadAt, Location, FrameStates, FrameState, HasCopy, TypeOK
<1>5. KROCountExact'
  <2>1. /\ p \in KRODirty /\ KRODirty' = KRODirty \ {p}
        /\ DirtyCopies' = DirtyCopies
    BY <1>0 DEF KRODirty, DirtyCopies, KROFrames, TypeOK
  <2>2. QED
    BY <1>0, <2>1, KROCountFrame
<1>6. PoolConserved'
  BY <1>0 DEF PoolConserved
<1>7. QED
  BY <1>1, <1>2, <1>3, <1>4, <1>5, <1>6 DEF FrameInv

(* A store into a KRO page that is in I/O: the frame becomes the copy.       *)
LEMMA MitigateMoveFrames ==
  ASSUME IndInv, FrameInv, ~halted, UNCHANGED halted, NEW p \in Page, MitigateMove(p)
  PROVE  FrameInv'
<1> USE ConstantsAssumption DEF MitigateMove, cacheVars, ckptVars, diskVars, ghostVars
<1>0. /\ TypeOK /\ KROFrames /\ ControlInv
      /\ FrameStates /\ WriteRequests /\ HeaderAfterPages /\ ReadRequests
      /\ KROCountExact /\ PoolConserved
  BY DEF IndInv, FrameInv
<1>1. FrameStates'
  BY <1>0, ZenonT(40) DEF FrameStates, FrameState, TypeOK, KROFrames, HasCopy, NoCopy, Copy, DirEntry, Lid
<1>2. WriteRequests'
  <2>1. /\ wcopy[p].lid = 0 /\ lid' = [lid EXCEPT ![p] = 0]
        /\ \A q \in Page : wcopy'[q].lid = IF q = p THEN lid[p] ELSE wcopy[q].lid
    BY <1>0, KRONoCopy DEF TypeOK
  <2>2. \A i \in 1 .. Len(queue) :
          WriteAt(i) => queue[i].page \in Page /\ queue[i].lid \in Lid
    BY <1>0, WriteFields
  <2>3. UNCHANGED <<queue, logCursor, halted>>
    OBVIOUS
  <2> HIDE DEF MitigateMove
  <2>4. \A i \in 1 .. Len(queue) : WriteAt(i) =>
          \/ lid'[queue[i].page] = queue[i].lid
          \/ wcopy'[queue[i].page].lid = queue[i].lid
    BY <1>0, <2>1, <2>2 DEF WriteRequests, TypeOK, Lid
  <2>5. \A q \in Page :
          /\ lid'[q] # 0 => WriteIn(queue, q, lid'[q])
          /\ wcopy'[q].lid # 0 => WriteIn(queue, q, wcopy'[q].lid)
    BY <1>0, <2>1 DEF WriteRequests, TypeOK
  <2>6. QED
    BY <1>0, <2>3, <2>4, <2>5 DEF WriteRequests, WriteAt, WriteIn
<1>3. HeaderAfterPages'
  BY <1>0 DEF HeaderAfterPages, WriteAt, FrameStates, FrameState, HasCopy, NoCopy, TypeOK
<1>4. ReadRequests'
  BY <1>0 DEF ReadRequests, ReadAt, Location, FrameStates, FrameState, HasCopy, TypeOK
<1>5. KROCountExact'
  <2>1. p \notin DirtyCopies
    BY <1>0, KRONoCopy DEF DirtyCopies
  <2>2. CASE p \in dirty
    <3>1. /\ p \in KRODirty /\ KRODirty' = KRODirty \ {p}
          /\ DirtyCopies' = DirtyCopies \cup {p}
      BY <1>0, <2>2, ZenonT(40) DEF KRODirty, DirtyCopies, TypeOK
    <3>2. QED
      BY <1>0, <2>1, <3>1, KROCountMove
  <2>3. CASE p \notin dirty
    <3>1. KRODirty' = KRODirty /\ DirtyCopies' = DirtyCopies
      BY <1>0, <2>1, <2>3 DEF KRODirty, DirtyCopies, TypeOK
    <3>2. QED
      BY <1>0, <3>1, KROCountSame
  <2>4. QED
    BY <2>2, <2>3
<1>6. PoolConserved'
  BY <1>0 DEF PoolConserved
<1>7. QED
  BY <1>1, <1>2, <1>3, <1>4, <1>5, <1>6 DEF FrameInv

(* A store into another KRO page: a copy is made.                            *)
LEMMA MitigateCopyFrames ==
  ASSUME IndInv, FrameInv, ~halted, UNCHANGED halted, NEW p \in Page, NEW v \in Value,
         MitigateCopy(p, v)
  PROVE  FrameInv'
<1> USE ConstantsAssumption DEF MitigateCopy, cacheVars, ckptVars, diskVars, ghostVars
<1>0. /\ TypeOK /\ KROFrames /\ ControlInv
      /\ FrameStates /\ WriteRequests /\ HeaderAfterPages /\ ReadRequests
      /\ KROCountExact /\ PoolConserved
  BY DEF IndInv, FrameInv
<1>1. FrameStates'
  BY <1>0, ZenonT(40) DEF FrameStates, FrameState, TypeOK, KROFrames, HasCopy, NoCopy, Copy, DirEntry, Lid
<1>2. WriteRequests'
  BY <1>0 DEF WriteRequests, WriteAt, WriteIn, FrameStates, FrameState, HasCopy, NoCopy, TypeOK
<1>3. HeaderAfterPages'
  BY <1>0 DEF HeaderAfterPages, KROFrames, WriteAt, TypeOK
<1>4. ReadRequests'
  BY <1>0 DEF ReadRequests, ReadAt, Location, FrameStates, FrameState, HasCopy, TypeOK
<1>5. KROCountExact'
  <2>1. p \notin DirtyCopies
    BY <1>0, KRONoCopy DEF DirtyCopies
  <2>2. /\ p \in KRODirty /\ KRODirty' = KRODirty \ {p}
        /\ DirtyCopies' = DirtyCopies \cup {p}
    BY <1>0 DEF KRODirty, DirtyCopies, KROFrames, TypeOK
  <2>3. QED
    BY <1>0, <2>1, <2>2, KROCountMove
<1>6. PoolConserved'
  BY <1>0 DEF PoolConserved
<1>7. QED
  BY <1>1, <1>2, <1>3, <1>4, <1>5, <1>6 DEF FrameInv

(* A page that is not in core is zeroed.                                     *)
LEMMA ZeroPageFrames ==
  ASSUME IndInv, FrameInv, ~halted, UNCHANGED halted, NEW p \in Page, ZeroPage(p)
  PROVE  FrameInv'
<1> USE ConstantsAssumption DEF ZeroPage, Record, cacheVars, ckptVars, diskVars, ghostVars
<1>0. /\ TypeOK /\ KROFrames /\ ControlInv
      /\ FrameStates /\ WriteRequests /\ HeaderAfterPages /\ ReadRequests
      /\ KROCountExact /\ PoolConserved
  BY DEF IndInv, FrameInv
<1>1. FrameStates'
  BY <1>0 DEF FrameStates, FrameState, TypeOK, KROFrames, HasCopy, NoCopy, Copy, DirEntry, Lid
<1>2. WriteRequests'
  BY <1>0 DEF WriteRequests, WriteAt, WriteIn, FrameStates, FrameState, HasCopy, NoCopy, TypeOK
<1>3. HeaderAfterPages'
  BY <1>0 DEF HeaderAfterPages, WriteAt, FrameStates, FrameState, HasCopy, NoCopy, TypeOK
<1>4. ReadRequests'
  BY <1>0 DEF ReadRequests, ReadAt, Location, FrameStates, FrameState, HasCopy, TypeOK
<1>5. KROCountExact'
  <2>1. KRODirty' = KRODirty /\ DirtyCopies' = DirtyCopies
    BY <1>0 DEF KRODirty, DirtyCopies, TypeOK
  <2>2. QED
    BY <1>0, <2>1, KROCountSame
<1>6. PoolConserved'
  BY <1>0 DEF PoolConserved
<1>7. QED
  BY <1>1, <1>2, <1>3, <1>4, <1>5, <1>6 DEF FrameInv

(* A frame is stolen.                                                        *)
LEMMA AgeStealFrames ==
  ASSUME IndInv, FrameInv, ~halted, UNCHANGED halted, NEW p \in Page, AgeSteal(p)
  PROVE  FrameInv'
<1> USE ConstantsAssumption DEF AgeSteal, Stealable, cacheVars, ckptVars, diskVars, ghostVars
<1>0. /\ TypeOK /\ KROFrames /\ ControlInv
      /\ FrameStates /\ WriteRequests /\ HeaderAfterPages /\ ReadRequests
      /\ KROCountExact /\ PoolConserved
  BY DEF IndInv, FrameInv
<1>1. FrameStates'
  BY <1>0 DEF FrameStates, FrameState, TypeOK, KROFrames, HasCopy, NoCopy, Copy, DirEntry, Lid
<1>2. WriteRequests'
  BY <1>0 DEF WriteRequests, WriteAt, WriteIn, FrameStates, FrameState, HasCopy, NoCopy, TypeOK
<1>3. HeaderAfterPages'
  BY <1>0 DEF HeaderAfterPages, WriteAt, FrameStates, FrameState, HasCopy, NoCopy, TypeOK
<1>4. ReadRequests'
  BY <1>0 DEF ReadRequests, ReadAt, Location, FrameStates, FrameState, HasCopy, TypeOK
<1>5. KROCountExact'
  <2>1. KRODirty' = KRODirty /\ DirtyCopies' = DirtyCopies
    BY <1>0 DEF KRODirty, DirtyCopies, TypeOK
  <2>2. QED
    BY <1>0, <2>1, KROCountSame
<1>6. PoolConserved'
  BY <1>0 DEF PoolConserved
<1>7. QED
  BY <1>1, <1>2, <1>3, <1>4, <1>5, <1>6 DEF FrameInv

(* A page of zeros is cleaned: it gets its directory entry.                  *)
LEMMA CleanZeroFrames ==
  ASSUME IndInv, FrameInv, ~halted, UNCHANGED halted, NEW p \in Page, pageH_Clean(p), val[p] = Zero,
         ckptIsActive => p \in kro
  PROVE  FrameInv'
<1> USE ConstantsAssumption DEF cacheVars, ckptVars, diskVars, ghostVars
<1>f. /\ p \in dirty \ fetching /\ lid[p] = 0 /\ (ckptState # 0 => p \in kro)
      /\ dirty' = dirty \ {p} /\ kro' = kro \ {p}
      /\ numKRODirtyPages' = numKRODirtyPages - KROCount(p)
      /\ dir' = [dir EXCEPT ![p] = [gen |-> workingGen, loc |-> 0]]
      /\ UNCHANGED <<cached, fetching, val, lid, wcopy, ckptVars, logCursor,
                     freeCleaning, queue, served, halted>>
  BY DEF pageH_Clean, Record, ckptIsActive
<1>0. /\ TypeOK /\ KROFrames /\ ControlInv
      /\ FrameStates /\ WriteRequests /\ HeaderAfterPages /\ ReadRequests
      /\ KROCountExact /\ PoolConserved
  BY DEF IndInv, FrameInv
<1>1. FrameStates'
  BY <1>0, <1>f, SMTT(30) DEF FrameStates, FrameState, TypeOK, KROFrames, HasCopy, NoCopy, Copy, DirEntry, Lid
<1>2. WriteRequests'
  BY <1>0, <1>f DEF WriteRequests, WriteAt, WriteIn, FrameStates, FrameState, HasCopy, NoCopy, TypeOK
<1>3. HeaderAfterPages'
  BY <1>0, <1>f DEF HeaderAfterPages, WriteAt, FrameStates, FrameState, HasCopy, NoCopy, TypeOK
<1>4. ReadRequests'
  BY <1>0, <1>f DEF ReadRequests, ReadAt, Location, FrameStates, FrameState, HasCopy, TypeOK
<1>5. KROCountExact'
  <2>1. DirtyCopies' = DirtyCopies /\ KRODirty' = KRODirty \ {p}
    BY <1>f DEF KRODirty, DirtyCopies
  <2>2. CASE p \in kro
    <3>1. p \in KRODirty /\ numKRODirtyPages' = numKRODirtyPages - 1
      BY <1>f, <2>2 DEF KRODirty, KROCount
    <3>2. QED
      BY <1>0, <1>f, <2>1, <3>1, KROCountFrame
  <2>3. CASE p \notin kro
    <3>1. p \notin KRODirty /\ numKRODirtyPages' = numKRODirtyPages
      BY <1>0, <1>f, <2>3 DEF KRODirty, KROCount, TypeOK
    <3>2. QED
      BY <1>0, <1>f, <2>1, <3>1, KROCountSame
  <2>4. QED
    BY <2>2, <2>3
<1>6. PoolConserved'
  BY <1>0, <1>f DEF PoolConserved
<1>7. QED
  BY <1>1, <1>2, <1>3, <1>4, <1>5, <1>6 DEF FrameInv

(* What a request added to the queue leaves as it was.                       *)
LEMMA EnqueueFacts ==
  ASSUME TypeOK, NEW req \in Request, Enqueue(req)
  PROVE  /\ Len(queue) \in Nat /\ Len(queue') = Len(queue) + 1
         /\ \A i \in 1 .. Len(queue) : queue'[i] = queue[i]
         /\ queue'[Len(queue) + 1] = req
  BY DEF TypeOK, Enqueue

(* Requests of the checkpoint thread are queued in phases 4 and 5 only.      *)
LEMMA NoHeaderQueued ==
  ASSUME ControlInv, ckptState \notin {4, 5}, NEW j \in 1 .. Len(queue)
  PROVE  queue[j].op \notin {"hdr", "root", "sync"}
  BY DEF ControlInv, ControlRequests, SyncOrder, Control

(* A page is written to a log frame that no queued request uses.             *)
LEMMA WritesDistinct ==
  ASSUME TypeOK, WriteRequests, NEW req \in Request, Enqueue(req),
         req.lid = logCursor
  PROVE  \A i, j \in 1 .. Len(queue') :
           WriteAt(i)' /\ WriteAt(j)' /\ queue'[i].lid = queue'[j].lid => i = j
<1>1. /\ Len(queue) \in Nat /\ Len(queue') = Len(queue) + 1
      /\ \A i \in 1 .. Len(queue) : queue'[i] = queue[i]
      /\ queue'[Len(queue) + 1] = req
  BY EnqueueFacts
<1>2. \A i \in 1 .. Len(queue) :
        WriteAt(i) => queue[i].lid < logCursor /\ queue[i].lid # req.lid
  <2>1. \A i \in 1 .. Len(queue) :
          WriteAt(i) => queue[i].lid \in Lid /\ queue[i].lid < logCursor
    BY WriteFields DEF WriteRequests
  <2>2. QED
    BY <2>1, ConstantsAssumption DEF TypeOK, Lid
<1>3. \A i \in 1 .. Len(queue') : WriteAt(i)' =>
        \/ i \in 1 .. Len(queue) /\ WriteAt(i) /\ queue'[i] = queue[i]
        \/ i = Len(queue) + 1 /\ queue'[i] = req
  BY <1>1 DEF WriteAt
<1>4. \A i, j \in 1 .. Len(queue) :
        WriteAt(i) /\ WriteAt(j) /\ queue[i].lid = queue[j].lid => i = j
  BY DEF WriteRequests
<1>5. QED
  BY <1>2, <1>3, <1>4

(* Any other page is cleaned: it is written to a log frame.                  *)
LEMMA CleanWriteFrames ==
  ASSUME IndInv, FrameInv, ~halted, UNCHANGED halted, NEW p \in Page, pageH_Clean(p), val[p] # Zero,
         ckptIsActive => p \in kro
  PROVE  FrameInv'
<1> USE ConstantsAssumption DEF cacheVars, ckptVars, diskVars, ghostVars
<1> DEFINE req == [op |-> "write", page |-> p, lid |-> logCursor]
<1>f. /\ p \in dirty \ fetching /\ lid[p] = 0 /\ (ckptState # 0 => p \in kro)
      /\ dirty' = dirty \ {p} /\ freeCleaning > 0 /\ logCursor \in Lid
      /\ numKRODirtyPages' = numKRODirtyPages - KROCount(p)
      /\ dir' = IF p \in kro
                  THEN [dir EXCEPT ![p] = [gen |-> workingGen, loc |-> logCursor]]
                  ELSE dir
      /\ lid' = [lid EXCEPT ![p] = logCursor] /\ logCursor' = logCursor + 1
      /\ freeCleaning' = freeCleaning - 1 /\ Enqueue(req) /\ req \in Request
      /\ UNCHANGED <<cached, fetching, val, kro, wcopy, ckptVars, served,
                     halted>>
  <2>1. logCursor \in Lid
    BY DEF IndInv, TypeOK, pageH_Clean, Lid
  <2>2. QED
    BY <2>1, RequestKinds DEF pageH_Clean, Record, ckptIsActive
<1>0. /\ TypeOK /\ KROFrames /\ ControlInv
      /\ FrameStates /\ WriteRequests /\ HeaderAfterPages /\ ReadRequests
      /\ KROCountExact /\ PoolConserved
  BY DEF IndInv, FrameInv
<1>e. /\ Len(queue) \in Nat /\ Len(queue') = Len(queue) + 1
      /\ \A i \in 1 .. Len(queue) : queue'[i] = queue[i]
      /\ queue'[Len(queue) + 1] = req
      /\ req.op = "write" /\ req.page = p /\ req.lid = logCursor
  BY <1>0, <1>f, EnqueueFacts
<1>t. /\ lid \in [Page -> 0 .. MaxLid] /\ wcopy \in [Page -> Copy]
      /\ dir \in [Page -> DirEntry] /\ logCursor \in Nat
      /\ dirty \subseteq cached
  BY <1>0 DEF TypeOK
<1> HIDE DEF req
<1>1. FrameStates'
  <2>1. SUFFICES ASSUME NEW q \in Page
                 PROVE  FrameState(q)'
    BY DEF FrameStates
  <2>2. FrameState(q)
    BY <1>0 DEF FrameStates
  <2>3. CASE q # p
    BY <1>f, <1>t, <2>2, <2>3 DEF FrameState, HasCopy
  <2>4. CASE q = p
    BY <1>f, <1>t, <2>2, <2>4 DEF FrameState, HasCopy, NoCopy, Lid
  <2>5. QED
    BY <2>3, <2>4
<1>2. WriteRequests'
  <2>1. \A i \in 1 .. Len(queue) :
          WriteAt(i) => queue[i].page \in Page /\ queue[i].lid \in Lid
    BY <1>0, WriteFields
  <2>2. \A i \in 1 .. Len(queue') : WriteAt(i)' =>
          \/ i \in 1 .. Len(queue) /\ WriteAt(i) /\ queue'[i] = queue[i]
          \/ i = Len(queue) + 1 /\ queue'[i] = req
    BY <1>e DEF WriteAt
  <2>3. \A q \in Page, l \in Lid : WriteIn(queue, q, l) => WriteIn(queue', q, l)
    BY <1>e DEF WriteIn
  <2>4. WriteIn(queue', p, logCursor)
    BY <1>e DEF WriteIn, req
  <2>w. \A q \in Page :
          /\ lid'[q] = IF q = p THEN logCursor ELSE lid[q]
          /\ wcopy'[q].lid = wcopy[q].lid
    BY <1>f, <1>t DEF Copy
  <2>5. \A i \in 1 .. Len(queue') : WriteAt(i)' =>
          /\ queue'[i].lid < logCursor'
          /\ \/ lid'[queue'[i].page] = queue'[i].lid
             \/ wcopy'[queue'[i].page].lid = queue'[i].lid
    <3>1. SUFFICES ASSUME NEW i \in 1 .. Len(queue'), WriteAt(i)'
                   PROVE  /\ queue'[i].lid < logCursor'
                          /\ \/ lid'[queue'[i].page] = queue'[i].lid
                             \/ wcopy'[queue'[i].page].lid = queue'[i].lid
      OBVIOUS
    <3>2. CASE i \in 1 .. Len(queue) /\ WriteAt(i) /\ queue'[i] = queue[i]
      <4>1. /\ queue[i].page \in Page /\ queue[i].lid \in Lid
            /\ queue[i].lid < logCursor
            /\ \/ lid[queue[i].page] = queue[i].lid
               \/ wcopy[queue[i].page].lid = queue[i].lid
        BY <1>0, <2>1, <3>2 DEF WriteRequests
      <4>2. QED
        BY <1>f, <1>t, <2>w, <3>2, <4>1 DEF Lid
    <3>3. CASE queue'[i] = req
      BY <1>e, <1>f, <1>t, <2>w, <3>3
    <3>4. QED
      BY <2>2, <3>1, <3>2, <3>3
  <2>6. \A i, j \in 1 .. Len(queue') :
          WriteAt(i)' /\ WriteAt(j)' /\ queue'[i].lid = queue'[j].lid => i = j
    BY <1>0, <1>e, <1>f, WritesDistinct
  <2>7. \A q \in Page :
          /\ lid'[q] # 0 => WriteIn(queue', q, lid'[q])
          /\ wcopy'[q].lid # 0 => WriteIn(queue', q, wcopy'[q].lid)
    BY <1>0, <1>f, <1>t, <2>3, <2>4, <2>w DEF WriteRequests, Lid, Copy
  <2>8. QED
    BY <1>0, <1>f, <2>5, <2>6, <2>7 DEF WriteRequests
<1>3. HeaderAfterPages'
  <2>1. ckptState \notin 3 .. 5
    BY <1>0, <1>f DEF HeaderAfterPages
  <2>2. \A j \in 1 .. Len(queue) : queue[j].op # "hdr"
    BY <1>0, <2>1, NoHeaderQueued
  <2>3. \A j \in 1 .. Len(queue') : queue'[j].op # "hdr"
    BY <1>e, <2>2
  <2>4. ckptState' \notin 3 .. 5
    BY <1>f, <2>1
  <2>5. QED
    BY <2>3, <2>4 DEF HeaderAfterPages
<1>4. ReadRequests'
  <2>1. \A i \in 1 .. Len(queue') : ReadAt(i)' =>
          i \in 1 .. Len(queue) /\ ReadAt(i) /\ queue'[i] = queue[i]
    BY <1>e DEF ReadAt
  <2>2. \A q \in Page : q # p => dir'[q] = dir[q]
    BY <1>f, <1>t
  <2>3. \A i \in 1 .. Len(queue) : ReadAt(i) =>
          queue[i].page \in Page /\ queue[i].page # p
    BY <1>0, <1>f DEF ReadRequests, TypeOK
  <2>4. QED
    BY <1>0, <1>f, <2>1, <2>2, <2>3, SMTT(30) DEF ReadRequests, Location
<1>5. KROCountExact'
  <2>1. DirtyCopies' = DirtyCopies /\ KRODirty' = KRODirty \ {p}
    BY <1>f DEF KRODirty, DirtyCopies
  <2>2. CASE p \in kro
    <3>1. p \in KRODirty /\ numKRODirtyPages' = numKRODirtyPages - 1
      BY <1>f, <2>2 DEF KRODirty, KROCount
    <3>2. QED
      BY <1>0, <1>f, <2>1, <3>1, KROCountFrame
  <2>3. CASE p \notin kro
    <3>1. p \notin KRODirty /\ numKRODirtyPages' = numKRODirtyPages
      BY <1>0, <1>f, <2>3 DEF KRODirty, KROCount, TypeOK
    <3>2. QED
      BY <1>0, <1>f, <2>1, <3>1, KROCountSame
  <2>4. QED
    BY <2>2, <2>3
<1>6. PoolConserved'
  <2>1. Cardinality(Busy') = Cardinality(Busy) + 1 /\ Cardinality(Busy) \in Nat
    BY <1>0, <1>e, <1>f, BusyAppend, CountsFinite
  <2>2. QED
    BY <1>0, <1>f, <2>1 DEF PoolConserved, Busy, TypeOK
<1>7. QED
  BY <1>1, <1>2, <1>3, <1>4, <1>5, <1>6 DEF FrameInv

(* A working copy of zeros is cleaned and released.                          *)
LEMMA CleanCopyZeroFrames ==
  ASSUME IndInv, FrameInv, ~halted, UNCHANGED halted, NEW p \in Page, CleanCopy(p),
         wcopy[p].val = Zero
  PROVE  FrameInv'
<1> USE ConstantsAssumption DEF cacheVars, ckptVars, diskVars, ghostVars
<1>f. /\ wcopy[p].dirty /\ wcopy[p].lid = 0
      /\ numKRODirtyPages' = numKRODirtyPages - 1
      /\ dir' = [dir EXCEPT ![p] = [gen |-> workingGen, loc |-> 0]]
      /\ wcopy' = [wcopy EXCEPT ![p] = NoCopy]
      /\ UNCHANGED <<cached, fetching, val, dirty, kro, lid, ckptVars,
                     logCursor, freeCleaning, queue, served, halted>>
      /\ p \in dirty \ kro /\ p \notin fetching /\ lid[p] = 0
  BY CopyStates DEF CleanCopy, Record, FrameInv
<1>0. /\ TypeOK /\ KROFrames /\ ControlInv
      /\ FrameStates /\ WriteRequests /\ HeaderAfterPages /\ ReadRequests
      /\ KROCountExact /\ PoolConserved
  BY DEF IndInv, FrameInv
<1>1. FrameStates'
  BY <1>0, <1>f, ZenonT(40) DEF FrameStates, FrameState, TypeOK, KROFrames, HasCopy, NoCopy, Copy, DirEntry, Lid
<1>2. WriteRequests'
  <2>1. \A q \in Page : wcopy'[q].lid = wcopy[q].lid
    BY <1>0, <1>f DEF NoCopy, TypeOK
  <2>2. \A i \in 1 .. Len(queue) : WriteAt(i) => queue[i].page \in Page
    <3>1. ASSUME NEW i \in 1 .. Len(queue), WriteAt(i)
          PROVE  queue[i].page \in Page
      <4>1. queue[i] \in Request /\ queue[i].op = "write"
        BY <1>0, <3>1 DEF WriteAt, TypeOK
      <4>2. QED
        BY <4>1 DEF Request
    <3>2. QED
      BY <3>1
  <2>3. QED
    BY <1>0, <1>f, <2>1, <2>2, SMTT(30) DEF WriteRequests, WriteAt, WriteIn
<1>3. HeaderAfterPages'
  BY <1>0, <1>f DEF HeaderAfterPages, WriteAt, FrameStates, FrameState, HasCopy, NoCopy, TypeOK
<1>4. ReadRequests'
  BY <1>0, <1>f DEF ReadRequests, ReadAt, Location, FrameStates, FrameState, HasCopy, TypeOK
<1>5. KROCountExact'
  <2>1. /\ p \in DirtyCopies /\ KRODirty' = KRODirty
        /\ DirtyCopies' = DirtyCopies \ {p}
    BY <1>0, <1>f DEF KRODirty, DirtyCopies, NoCopy, TypeOK
  <2>2. QED
    BY <1>0, <1>f, <2>1, KROCountCopy
<1>6. PoolConserved'
  BY <1>0, <1>f DEF PoolConserved
<1>7. QED
  BY <1>1, <1>2, <1>3, <1>4, <1>5, <1>6 DEF FrameInv

(* Any other working copy is cleaned.                                        *)
LEMMA CleanCopyWriteFrames ==
  ASSUME IndInv, FrameInv, ~halted, UNCHANGED halted, NEW p \in Page, CleanCopy(p),
         wcopy[p].val # Zero
  PROVE  FrameInv'
<1> USE ConstantsAssumption DEF cacheVars, ckptVars, diskVars, ghostVars
<1> DEFINE req == [op |-> "write", page |-> p, lid |-> logCursor]
<1>f. /\ wcopy[p].dirty /\ wcopy[p].lid = 0
      /\ freeCleaning > 0 /\ logCursor \in Lid
      /\ numKRODirtyPages' = numKRODirtyPages - 1
      /\ dir' = [dir EXCEPT ![p] = [gen |-> workingGen, loc |-> logCursor]]
      /\ wcopy' = [wcopy EXCEPT ![p] = [val |-> wcopy[p].val, dirty |-> FALSE,
                                        lid |-> logCursor]]
      /\ logCursor' = logCursor + 1
      /\ freeCleaning' = freeCleaning - 1 /\ Enqueue(req) /\ req \in Request
      /\ UNCHANGED <<cached, fetching, val, dirty, kro, lid, ckptVars, served,
                     halted>>
      /\ p \in dirty \ kro /\ p \notin fetching /\ lid[p] = 0
      /\ ckptState \in 2 .. 5
  <2>1. logCursor \in Lid
    BY DEF IndInv, TypeOK, CleanCopy, Lid
  <2>2. QED
    BY <2>1, RequestKinds, CopyStates DEF CleanCopy, Record, FrameInv
<1>0. /\ TypeOK /\ KROFrames /\ ControlInv
      /\ FrameStates /\ WriteRequests /\ HeaderAfterPages /\ ReadRequests
      /\ KROCountExact /\ PoolConserved
  BY DEF IndInv, FrameInv
<1>e. /\ Len(queue) \in Nat /\ Len(queue') = Len(queue) + 1
      /\ \A i \in 1 .. Len(queue) : queue'[i] = queue[i]
      /\ queue'[Len(queue) + 1] = req
      /\ req.op = "write" /\ req.page = p /\ req.lid = logCursor
  BY <1>0, <1>f, EnqueueFacts
<1>t. /\ lid \in [Page -> 0 .. MaxLid] /\ wcopy \in [Page -> Copy]
      /\ dir \in [Page -> DirEntry] /\ logCursor \in Nat
      /\ dirty \subseteq cached
  BY <1>0 DEF TypeOK
<1> HIDE DEF req
<1>1. FrameStates'
  <2>1. SUFFICES ASSUME NEW q \in Page
                 PROVE  FrameState(q)'
    BY DEF FrameStates
  <2>2. FrameState(q)
    BY <1>0 DEF FrameStates
  <2>3. CASE q # p
    BY <1>f, <1>t, <2>2, <2>3 DEF FrameState, HasCopy
  <2>4. CASE q = p
    BY <1>f, <1>t, <2>2, <2>4 DEF FrameState, HasCopy, NoCopy, Lid
  <2>5. QED
    BY <2>3, <2>4
<1>2. WriteRequests'
  <2>1. \A i \in 1 .. Len(queue) :
          WriteAt(i) => queue[i].page \in Page /\ queue[i].lid \in Lid
    BY <1>0, WriteFields
  <2>2. \A i \in 1 .. Len(queue') : WriteAt(i)' =>
          \/ i \in 1 .. Len(queue) /\ WriteAt(i) /\ queue'[i] = queue[i]
          \/ i = Len(queue) + 1 /\ queue'[i] = req
    BY <1>e DEF WriteAt
  <2>3. \A q \in Page, l \in Lid : WriteIn(queue, q, l) => WriteIn(queue', q, l)
    BY <1>e DEF WriteIn
  <2>4. WriteIn(queue', p, logCursor)
    BY <1>e DEF WriteIn, req
  <2>w. \A q \in Page :
          /\ lid'[q] = lid[q]
          /\ wcopy'[q].lid = IF q = p THEN logCursor ELSE wcopy[q].lid
    BY <1>f, <1>t DEF Copy
  <2>5. \A i \in 1 .. Len(queue') : WriteAt(i)' =>
          /\ queue'[i].lid < logCursor'
          /\ \/ lid'[queue'[i].page] = queue'[i].lid
             \/ wcopy'[queue'[i].page].lid = queue'[i].lid
    <3>1. SUFFICES ASSUME NEW i \in 1 .. Len(queue'), WriteAt(i)'
                   PROVE  /\ queue'[i].lid < logCursor'
                          /\ \/ lid'[queue'[i].page] = queue'[i].lid
                             \/ wcopy'[queue'[i].page].lid = queue'[i].lid
      OBVIOUS
    <3>2. CASE i \in 1 .. Len(queue) /\ WriteAt(i) /\ queue'[i] = queue[i]
      <4>1. /\ queue[i].page \in Page /\ queue[i].lid \in Lid
            /\ queue[i].lid < logCursor
            /\ \/ lid[queue[i].page] = queue[i].lid
               \/ wcopy[queue[i].page].lid = queue[i].lid
        BY <1>0, <2>1, <3>2 DEF WriteRequests
      <4>2. QED
        BY <1>f, <1>t, <2>w, <3>2, <4>1 DEF Lid
    <3>3. CASE queue'[i] = req
      BY <1>e, <1>f, <1>t, <2>w, <3>3
    <3>4. QED
      BY <2>2, <3>1, <3>2, <3>3
  <2>6. \A i, j \in 1 .. Len(queue') :
          WriteAt(i)' /\ WriteAt(j)' /\ queue'[i].lid = queue'[j].lid => i = j
    BY <1>0, <1>e, <1>f, WritesDistinct
  <2>7. \A q \in Page :
          /\ lid'[q] # 0 => WriteIn(queue', q, lid'[q])
          /\ wcopy'[q].lid # 0 => WriteIn(queue', q, wcopy'[q].lid)
    BY <1>0, <1>f, <1>t, <2>3, <2>4, <2>w DEF WriteRequests, Lid, Copy
  <2>8. QED
    BY <1>0, <1>f, <2>5, <2>6, <2>7 DEF WriteRequests
<1>3. HeaderAfterPages'
  <2>1. ckptState \notin 3 .. 5
    BY <1>0, <1>f DEF HeaderAfterPages
  <2>2. \A j \in 1 .. Len(queue) : queue[j].op # "hdr"
    BY <1>0, <2>1, NoHeaderQueued
  <2>3. \A j \in 1 .. Len(queue') : queue'[j].op # "hdr"
    BY <1>e, <2>2
  <2>4. ckptState' \notin 3 .. 5
    BY <1>f, <2>1
  <2>5. QED
    BY <2>3, <2>4 DEF HeaderAfterPages
<1>4. ReadRequests'
  <2>1. \A i \in 1 .. Len(queue') : ReadAt(i)' =>
          i \in 1 .. Len(queue) /\ ReadAt(i) /\ queue'[i] = queue[i]
    BY <1>e DEF ReadAt
  <2>2. \A q \in Page : q # p => dir'[q] = dir[q]
    BY <1>f, <1>t
  <2>3. \A i \in 1 .. Len(queue) : ReadAt(i) =>
          queue[i].page \in Page /\ queue[i].page # p
    BY <1>0, <1>f DEF ReadRequests, TypeOK
  <2>4. QED
    BY <1>0, <1>f, <2>1, <2>2, <2>3, SMTT(30) DEF ReadRequests, Location
<1>5. KROCountExact'
  <2>1. /\ p \in DirtyCopies /\ KRODirty' = KRODirty
        /\ DirtyCopies' = DirtyCopies \ {p}
    BY <1>0, <1>f DEF KRODirty, DirtyCopies, TypeOK
  <2>2. QED
    BY <1>0, <1>f, <2>1, KROCountCopy
<1>6. PoolConserved'
  <2>1. Cardinality(Busy') = Cardinality(Busy) + 1 /\ Cardinality(Busy) \in Nat
    BY <1>0, <1>e, <1>f, BusyAppend, CountsFinite
  <2>2. QED
    BY <1>0, <1>f, <2>1 DEF PoolConserved, Busy, TypeOK
<1>7. QED
  BY <1>1, <1>2, <1>3, <1>4, <1>5, <1>6 DEF FrameInv

-----------------------------------------------------------------------------
(* The requests for pages when another kind of request is queued.            *)
LEMMA WritesAppend ==
  ASSUME TypeOK, TypeOK', WriteRequests, NEW req \in Request, Enqueue(req),
         req.op # "write", logCursor' >= logCursor, UNCHANGED <<lid, wcopy, halted>>
  PROVE  WriteRequests'
<1>1. /\ Len(queue) \in Nat /\ Len(queue') = Len(queue) + 1
      /\ \A i \in 1 .. Len(queue) : queue'[i] = queue[i]
      /\ queue'[Len(queue) + 1] = req
  BY EnqueueFacts
<1>2. \A i \in 1 .. Len(queue') : WriteAt(i)' =>
        i \in 1 .. Len(queue) /\ WriteAt(i) /\ queue'[i] = queue[i]
  BY <1>1 DEF WriteAt
<1>3. \A p, l : WriteIn(queue, p, l) => WriteIn(queue', p, l)
  BY <1>1 DEF WriteIn
<1>4. \A i \in 1 .. Len(queue) : WriteAt(i) => queue[i].lid < logCursor'
  <2>1. \A i \in 1 .. Len(queue) :
          WriteAt(i) => queue[i].lid \in Lid /\ queue[i].lid < logCursor
    BY WriteFields DEF WriteRequests
  <2>2. QED
    BY <2>1, ConstantsAssumption DEF TypeOK, Lid
<1>5. QED
  BY <1>2, <1>3, <1>4 DEF WriteRequests

(* Nor does it disturb the requests to read pages.                           *)
LEMMA ReadsAppend ==
  ASSUME TypeOK, ReadRequests, NEW req \in Request, Enqueue(req),
         req.op # "read", UNCHANGED <<fetching, dir>>
  PROVE  ReadRequests'
<1>1. /\ Len(queue) \in Nat /\ Len(queue') = Len(queue) + 1
      /\ \A i \in 1 .. Len(queue) : queue'[i] = queue[i]
      /\ queue'[Len(queue) + 1] = req
  BY EnqueueFacts
<1>2. \A i \in 1 .. Len(queue') : ReadAt(i)' =>
        i \in 1 .. Len(queue) /\ ReadAt(i) /\ queue'[i] = queue[i]
  BY <1>1 DEF ReadAt
<1>3. QED
  BY <1>2 DEF ReadRequests, Location

(* ... and when the oldest request is done.                                  *)
LEMMA WritesTail ==
  ASSUME TypeOK, NEW op, Completed(op)
  PROVE  /\ \A i \in 1 .. Len(queue') : WriteAt(i)' =>
              i + 1 \in 2 .. Len(queue) /\ WriteAt(i + 1)
              /\ queue'[i] = queue[i + 1]
         /\ \A p, l : WriteIn(queue, p, l)
              /\ queue[1] # [op |-> "write", page |-> p, lid |-> l]
              => WriteIn(queue', p, l)
<1>1. /\ 1 \in 1 .. Len(queue) /\ Len(queue) \in Nat
      /\ Len(queue') = Len(queue) - 1
      /\ \A i \in 1 .. Len(queue') : queue'[i] = queue[i + 1]
  BY Dequeue
<1>2. \A i \in 1 .. Len(queue) : i # 1 => i - 1 \in 1 .. Len(queue')
                                          /\ queue'[i - 1] = queue[i]
  BY <1>1
<1>3. \A i \in 1 .. Len(queue') : i + 1 \in 2 .. Len(queue) /\ i + 1 \in 1 .. Len(queue)
  BY <1>1
<1>4. \A i \in 1 .. Len(queue') : WriteAt(i)' => WriteAt(i + 1)
  BY <1>1, <1>3 DEF WriteAt
<1>5. ASSUME NEW p, NEW l, WriteIn(queue, p, l),
             queue[1] # [op |-> "write", page |-> p, lid |-> l]
      PROVE  WriteIn(queue', p, l)
  <2>1. PICK i \in 1 .. Len(queue) :
          queue[i] = [op |-> "write", page |-> p, lid |-> l]
    BY <1>5 DEF WriteIn
  <2>2. i # 1
    BY <1>5, <2>1
  <2>3. QED
    BY <1>2, <2>1, <2>2 DEF WriteIn
<1>6. QED
  BY <1>1, <1>3, <1>4, <1>5

(* The requests to write pages after one of another kind is done.            *)
LEMMA WritesDone ==
  ASSUME TypeOK, WriteRequests, NEW op, op # "write", Completed(op),
         UNCHANGED <<lid, wcopy, logCursor, halted>>
  PROVE  WriteRequests'
<1>1. /\ \A i \in 1 .. Len(queue') : WriteAt(i)' =>
           i + 1 \in 2 .. Len(queue) /\ WriteAt(i + 1)
           /\ queue'[i] = queue[i + 1]
      /\ \A p, l : WriteIn(queue, p, l)
           /\ queue[1] # [op |-> "write", page |-> p, lid |-> l]
           => WriteIn(queue', p, l)
  BY WritesTail
<1>2. \A p, l : queue[1] # [op |-> "write", page |-> p, lid |-> l]
  <2>1. queue[1].op # "write"
    BY Dequeue
  <2>2. QED
    BY <2>1
<1>3. \A p, l : WriteIn(queue, p, l) => WriteIn(queue', p, l)
  BY <1>1, <1>2
<1>4. \A i \in 2 .. Len(queue) : i \in 1 .. Len(queue)
  BY Dequeue
<1>5. \A i, j \in 1 .. Len(queue') :
        WriteAt(i)' /\ WriteAt(j)' /\ queue'[i].lid = queue'[j].lid => i = j
  <2>1. SUFFICES ASSUME NEW i \in 1 .. Len(queue'), NEW j \in 1 .. Len(queue'),
                        WriteAt(i)', WriteAt(j)', queue'[i].lid = queue'[j].lid
                 PROVE  i = j
    OBVIOUS
  <2>2. i + 1 = j + 1
    BY <1>1, <1>4, <2>1 DEF WriteRequests
  <2>3. QED
    BY <2>2
<1>6. QED
  BY <1>1, <1>3, <1>4, <1>5 DEF WriteRequests

(* The requests to read pages after one of another kind is done.             *)
LEMMA ReadsDone ==
  ASSUME TypeOK, ReadRequests, NEW op, op # "read", Completed(op),
         UNCHANGED fetching, \A p \in fetching : dir'[p] = dir[p]
  PROVE  ReadRequests'
<1>1. /\ 1 \in 1 .. Len(queue) /\ Len(queue) \in Nat
      /\ Len(queue') = Len(queue) - 1
      /\ \A i \in 1 .. Len(queue') : queue'[i] = queue[i + 1]
  BY Dequeue
<1>2. \A i \in 1 .. Len(queue') : ReadAt(i)' =>
        i + 1 \in 1 .. Len(queue) /\ ReadAt(i + 1) /\ queue'[i] = queue[i + 1]
  BY <1>1 DEF ReadAt
<1>3. \A i, j \in 1 .. Len(queue') :
        ReadAt(i)' /\ ReadAt(j)' /\ queue'[i].page = queue'[j].page => i = j
  <2>1. SUFFICES ASSUME NEW i \in 1 .. Len(queue'), NEW j \in 1 .. Len(queue'),
                        ReadAt(i)', ReadAt(j)', queue'[i].page = queue'[j].page
                 PROVE  i = j
    OBVIOUS
  <2>2. i + 1 = j + 1
    BY <1>2, <2>1 DEF ReadRequests
  <2>3. QED
    BY <2>2
<1>4. QED
  BY <1>2, <1>3, SMTT(30) DEF ReadRequests, Location

(* A zero page is made.                                                      *)
LEMMA GetZeroFrames ==
  ASSUME IndInv, FrameInv, ~halted, UNCHANGED halted, NEW p \in Page, GetObject(p),
         dir[p].gen # 0 /\ dir[p].loc = 0
  PROVE  FrameInv'
<1> USE ConstantsAssumption DEF GetObject, cacheVars, ckptVars, diskVars, ghostVars
<1>0. /\ TypeOK /\ KROFrames /\ ControlInv
      /\ FrameStates /\ WriteRequests /\ HeaderAfterPages /\ ReadRequests
      /\ KROCountExact /\ PoolConserved
  BY DEF IndInv, FrameInv
<1>1. FrameStates'
  BY <1>0 DEF FrameStates, FrameState, TypeOK, KROFrames, HasCopy, NoCopy, Copy, DirEntry, Lid
<1>2. WriteRequests'
  BY <1>0 DEF WriteRequests, WriteAt, WriteIn, FrameStates, FrameState, HasCopy, NoCopy, TypeOK
<1>3. HeaderAfterPages'
  BY <1>0 DEF HeaderAfterPages, WriteAt, FrameStates, FrameState, HasCopy, NoCopy, TypeOK
<1>4. ReadRequests'
  BY <1>0 DEF ReadRequests, ReadAt, Location, FrameStates, FrameState, HasCopy, TypeOK
<1>5. KROCountExact'
  <2>1. KRODirty' = KRODirty /\ DirtyCopies' = DirtyCopies
    BY <1>0 DEF KRODirty, DirtyCopies, TypeOK
  <2>2. QED
    BY <1>0, <2>1, KROCountSame
<1>6. PoolConserved'
  BY <1>0 DEF PoolConserved
<1>7. QED
  BY <1>1, <1>2, <1>3, <1>4, <1>5, <1>6 DEF FrameInv

(* Any other page is fetched.                                                *)
LEMMA GetReadFrames ==
  ASSUME IndInv, FrameInv, ~halted, UNCHANGED halted, IndInv', NEW p \in Page, GetObject(p),
         ~(dir[p].gen # 0 /\ dir[p].loc = 0)
  PROVE  FrameInv'
<1> USE ConstantsAssumption DEF cacheVars, ckptVars, diskVars, ghostVars
<1> DEFINE req == [op |-> "read", page |-> p, lid |-> Location(p)]
<1>f. /\ p \notin cached /\ cached' = cached \cup {p}
      /\ fetching' = fetching \cup {p}
      /\ dir[p].gen # 0 => dir[p].loc # 0
      /\ Enqueue(req) /\ req \in Request
      /\ UNCHANGED <<val, dirty, kro, lid, wcopy, numKRODirtyPages, dir,
                     ckptVars, logCursor, freeCleaning, served, halted>>
  <2>1. Location(p) \in 0 .. MaxLid
    BY DEF IndInv, TypeOK, Location, DirEntry
  <2>2. QED
    BY <2>1, RequestKinds DEF GetObject
<1>0. /\ TypeOK /\ KROFrames /\ ControlInv
      /\ FrameStates /\ WriteRequests /\ HeaderAfterPages /\ ReadRequests
      /\ KROCountExact /\ PoolConserved
  BY DEF IndInv, FrameInv
<1>e. /\ Len(queue) \in Nat /\ Len(queue') = Len(queue) + 1
      /\ \A i \in 1 .. Len(queue) : queue'[i] = queue[i]
      /\ queue'[Len(queue) + 1] = req /\ req.op = "read"
  BY <1>0, <1>f, EnqueueFacts
<1>t. TypeOK' /\ logCursor \in Nat
  BY <1>0, SMTT(30) DEF TypeOK, IndInv
<1> HIDE DEF req
<1>1. FrameStates'
  BY <1>0, <1>f DEF FrameStates, FrameState, HasCopy, TypeOK
<1>2. WriteRequests'
  <2>1. logCursor' >= logCursor
    BY <1>f, <1>t
  <2>2. QED
    BY <1>0, <1>e, <1>f, <1>t, <2>1, WritesAppend
<1>3. HeaderAfterPages'
  <2>1. \A j \in 1 .. Len(queue') : WriteAt(j)' \/ queue'[j].op = "hdr" =>
          j \in 1 .. Len(queue) /\ queue'[j] = queue[j] /\ (WriteAt(j)' => WriteAt(j))
    BY <1>e DEF WriteAt
  <2>2. QED
    BY <1>0, <1>f, <2>1 DEF HeaderAfterPages
<1>4. ReadRequests'
  <2>1. \A i \in 1 .. Len(queue') : ReadAt(i)' =>
          \/ i \in 1 .. Len(queue) /\ ReadAt(i) /\ queue'[i] = queue[i]
          \/ i = Len(queue) + 1 /\ queue'[i] = req
    BY <1>e DEF ReadAt
  <2>2. \A i \in 1 .. Len(queue) : ReadAt(i) => queue[i].page # p
    BY <1>0, <1>f DEF ReadRequests, TypeOK
  <2>3. req.page = p /\ req.lid = Location(p)
    BY DEF req
  <2>4. \A q : Location(q)' = Location(q)
    BY <1>f DEF Location
  <2>5. QED
    BY <1>0, <1>f, <2>1, <2>2, <2>3, <2>4 DEF ReadRequests
<1>5. KROCountExact'
  <2>1. KRODirty' = KRODirty /\ DirtyCopies' = DirtyCopies
    BY <1>0, <1>f DEF KRODirty, DirtyCopies, TypeOK
  <2>2. QED
    BY <1>0, <1>f, <2>1, KROCountSame
<1>6. PoolConserved'
  <2>1. /\ Cardinality(Busy') = Cardinality(Busy) + 0
        /\ Cardinality(Busy) \in Nat
    BY <1>0, <1>e, <1>f, BusyAppend, CountsFinite
  <2>2. QED
    BY <1>0, <1>f, <2>1 DEF PoolConserved, Busy, TypeOK, ControlInv, SyncOrder
<1>7. QED
  BY <1>1, <1>2, <1>3, <1>4, <1>5, <1>6 DEF FrameInv

(* A checkpoint is declared.                                                 *)
LEMMA DeclareFrames ==
  ASSUME IndInv, FrameInv, ~halted, UNCHANGED halted, DeclareDemarcationEvent
  PROVE  FrameInv'
<1> USE ConstantsAssumption DEF DeclareDemarcationEvent, ckptIsActive, cacheVars, ckptVars, diskVars, ghostVars
<1>0. /\ TypeOK /\ KROFrames /\ ControlInv
      /\ FrameStates /\ WriteRequests /\ HeaderAfterPages /\ ReadRequests
      /\ KROCountExact /\ PoolConserved
  BY DEF IndInv, FrameInv
<1>1. FrameStates'
  BY <1>0 DEF FrameStates, FrameState, TypeOK, KROFrames, HasCopy, NoCopy, Copy, DirEntry, Lid
<1>2. WriteRequests'
  BY <1>0 DEF WriteRequests, WriteAt, WriteIn, FrameStates, FrameState, HasCopy, NoCopy, TypeOK
<1>3. HeaderAfterPages'
  BY <1>0 DEF HeaderAfterPages, WriteAt, FrameStates, FrameState, HasCopy, NoCopy, TypeOK
<1>4. ReadRequests'
  BY <1>0 DEF ReadRequests, ReadAt, Location, FrameStates, FrameState, HasCopy, TypeOK
<1>5. KROCountExact'
  <2>1. KRODirty' = KRODirty /\ DirtyCopies' = DirtyCopies
    BY <1>0 DEF KRODirty, DirtyCopies, TypeOK
  <2>2. QED
    BY <1>0, <2>1, KROCountSame
<1>6. PoolConserved'
  BY <1>0 DEF PoolConserved
<1>7. QED
  BY <1>1, <1>2, <1>3, <1>4, <1>5, <1>6 DEF FrameInv

(* The moment of demarcation.                                                *)
LEMMA Phase1Frames ==
  ASSUME IndInv, FrameInv, ~halted, UNCHANGED halted, DoPhase1Work
  PROVE  FrameInv'
<1> USE ConstantsAssumption DEF cacheVars, ckptVars, diskVars, ghostVars
<1>f. /\ ckptState = 1 /\ ckptState' = 2
      /\ kro' = {p \in cached : p \in dirty \/ (p \in cached \ fetching /\ lid[p] # 0)}
      /\ numKRODirtyPages' = numKRODirtyPages + Cardinality(dirty)
      /\ dir' = [p \in Page |->
                   IF p \in cached \ dirty /\ p \in cached \ fetching /\ lid[p] # 0
                     THEN [gen |-> workingGen, loc |-> lid[p]] ELSE dir[p]]
      /\ UNCHANGED <<cached, fetching, val, dirty, lid, wcopy, ckptWait,
                     workingGen, logCursor, freeCleaning, queue, served, halted>>
  BY DEF DoPhase1Work, CheckpointPage
<1>0. /\ TypeOK /\ KROFrames /\ ControlInv
      /\ FrameStates /\ WriteRequests /\ HeaderAfterPages /\ ReadRequests
      /\ KROCountExact /\ PoolConserved
  BY DEF IndInv, FrameInv
<1>1. FrameStates'
  BY <1>0, <1>f DEF FrameStates, FrameState, HasCopy, TypeOK
<1>2. WriteRequests'
  BY <1>0, <1>f DEF WriteRequests, WriteAt, WriteIn, FrameStates, FrameState, HasCopy, NoCopy, TypeOK
<1>3. HeaderAfterPages'
  BY <1>0, <1>f DEF HeaderAfterPages, WriteAt, FrameStates, FrameState, HasCopy, NoCopy, TypeOK
<1>4. ReadRequests'
  BY <1>0, <1>f DEF ReadRequests, ReadAt, Location, FrameStates, FrameState, HasCopy, TypeOK
<1>5. KROCountExact'
  <2>1. KRODirty = {} /\ DirtyCopies = {}
    BY <1>0, <1>f, CopyStates DEF KRODirty, DirtyCopies, FrameStates, FrameState, TypeOK
  <2>2. KRODirty' = dirty /\ DirtyCopies' = {}
    <3>1. DirtyCopies' = DirtyCopies
      BY <1>f DEF DirtyCopies
    <3>2. KRODirty' = dirty
      BY <1>0, <1>f DEF KRODirty, TypeOK
    <3>3. QED
      BY <2>1, <3>1, <3>2
  <2>3. Cardinality({}) = 0 /\ Cardinality(dirty) \in Nat
    BY <1>0, FS_EmptySet, DirtyCount
  <2>4. numKRODirtyPages = Cardinality(KRODirty) + Cardinality(DirtyCopies)
    BY <1>0 DEF KROCountExact, KRODirty, DirtyCopies
  <2>5. numKRODirtyPages' = Cardinality(KRODirty') + Cardinality(DirtyCopies')
    BY <1>f, <2>1, <2>2, <2>3, <2>4
  <2>6. QED
    BY <2>5 DEF KROCountExact, KRODirty, DirtyCopies
<1>6. PoolConserved'
  BY <1>0, <1>f DEF PoolConserved
<1>7. QED
  BY <1>1, <1>2, <1>3, <1>4, <1>5, <1>6 DEF FrameInv

(* The end of phase 2: nothing is KRO and dirty.                             *)
LEMMA Phase2Frames ==
  ASSUME IndInv, FrameInv, ~halted, UNCHANGED halted, DoPhase2Work
  PROVE  FrameInv'
<1> USE ConstantsAssumption DEF cacheVars, ckptVars, diskVars, ghostVars
<1>f. /\ ckptState = 2 /\ ckptState' = 3 /\ numKRODirtyPages = 0
      /\ UNCHANGED <<cacheVars, dir, ckptWait, workingGen, logCursor,
                     freeCleaning, queue, served, halted>>
  BY DEF DoPhase2Work
<1>0. /\ TypeOK /\ KROFrames /\ ControlInv
      /\ FrameStates /\ WriteRequests /\ HeaderAfterPages /\ ReadRequests
      /\ KROCountExact /\ PoolConserved
  BY DEF IndInv, FrameInv
<1>1. FrameStates'
  BY <1>0, <1>f DEF FrameStates, FrameState, HasCopy
<1>2. WriteRequests'
  BY <1>0, <1>f DEF WriteRequests, WriteAt, WriteIn, FrameStates, FrameState, HasCopy, NoCopy, TypeOK
<1>3. HeaderAfterPages'
  <2>1. Cardinality(KRODirty) = 0 /\ Cardinality(DirtyCopies) = 0
    BY <1>0, <1>f, CountsFinite DEF KROCountExact, KRODirty, DirtyCopies
  <2>2. KRODirty = {} /\ DirtyCopies = {}
    BY <1>0, <2>1, CountsFinite, FS_EmptySet
  <2>3. QED
    BY <1>0, <1>f, <2>2 DEF HeaderAfterPages, KRODirty, DirtyCopies, WriteAt
<1>4. ReadRequests'
  BY <1>0, <1>f DEF ReadRequests, ReadAt, Location, FrameStates, FrameState, HasCopy, TypeOK
<1>5. KROCountExact'
  <2>1. KRODirty' = KRODirty /\ DirtyCopies' = DirtyCopies
    BY <1>0, <1>f DEF KRODirty, DirtyCopies, TypeOK
  <2>2. QED
    BY <1>0, <1>f, <2>1, KROCountSame
<1>6. PoolConserved'
  BY <1>0, <1>f DEF PoolConserved
<1>7. QED
  BY <1>1, <1>2, <1>3, <1>4, <1>5, <1>6 DEF FrameInv

(* Phase 3 writes the generation header.                                     *)
LEMMA Phase3Frames ==
  ASSUME IndInv, FrameInv, ~halted, UNCHANGED halted, IndInv', DoPhase3Work
  PROVE  FrameInv'
<1> USE ConstantsAssumption DEF cacheVars, ckptVars, diskVars, ghostVars
<1> DEFINE req == [op |-> "hdr", lid |-> logCursor]
<1>f. /\ ckptState = 3 /\ ckptState' = 4 /\ ckptWait' = "hdr"
      /\ freeCleaning > 0 /\ freeCleaning' = freeCleaning - 1
      /\ logCursor' = logCursor + 1 /\ Enqueue(req) /\ req \in Request
      /\ UNCHANGED <<cacheVars, dir, workingGen, served, halted>>
  <2>1. logCursor \in Lid
    BY DEF IndInv, TypeOK, DoPhase3Work, Lid
  <2>2. QED
    BY <2>1, RequestKinds DEF DoPhase3Work
<1>0. /\ TypeOK /\ KROFrames /\ ControlInv
      /\ FrameStates /\ WriteRequests /\ HeaderAfterPages /\ ReadRequests
      /\ KROCountExact /\ PoolConserved
  BY DEF IndInv, FrameInv
<1>e. /\ Len(queue) \in Nat /\ Len(queue') = Len(queue) + 1
      /\ \A i \in 1 .. Len(queue) : queue'[i] = queue[i]
      /\ queue'[Len(queue) + 1] = req /\ req.op = "hdr"
  BY <1>0, <1>f, EnqueueFacts
<1>t. TypeOK' /\ logCursor \in Nat
  BY <1>0 DEF TypeOK, IndInv
<1> HIDE DEF req
<1>1. FrameStates'
  BY <1>0, <1>f DEF FrameStates, FrameState, HasCopy
<1>2. WriteRequests'
  <2>1. logCursor' >= logCursor
    BY <1>f, <1>t
  <2>2. QED
    BY <1>0, <1>e, <1>f, <1>t, <2>1, WritesAppend
<1>3. HeaderAfterPages'
  <2>1. \A j \in 1 .. Len(queue) : queue[j].op # "hdr"
    BY <1>0, <1>f, NoHeaderQueued
  <2>2. \A j \in 1 .. Len(queue') :
          /\ WriteAt(j)' => j \in 1 .. Len(queue)
          /\ queue'[j].op = "hdr" => j = Len(queue) + 1
    BY <1>e, <2>1 DEF WriteAt
  <2>3. \A i, j \in 1 .. Len(queue') :
          WriteAt(i)' /\ queue'[j].op = "hdr" => i < j
    BY <1>e, <2>2
  <2>4. QED
    BY <1>0, <1>f, <2>3 DEF HeaderAfterPages
<1>4. ReadRequests'
  BY <1>0, <1>e, <1>f, <1>t, ReadsAppend
<1>5. KROCountExact'
  <2>1. KRODirty' = KRODirty /\ DirtyCopies' = DirtyCopies
    BY <1>0, <1>f DEF KRODirty, DirtyCopies, TypeOK
  <2>2. QED
    BY <1>0, <1>f, <2>1, KROCountSame
<1>6. PoolConserved'
  <2>1. /\ Cardinality(Busy') = Cardinality(Busy) + 1
        /\ Cardinality(Busy) \in Nat
    BY <1>0, <1>e, <1>f, BusyAppend, CountsFinite
  <2>2. QED
    BY <1>0, <1>f, <2>1 DEF PoolConserved, Busy, TypeOK, ControlInv, SyncOrder
<1>7. QED
  BY <1>1, <1>2, <1>3, <1>4, <1>5, <1>6 DEF FrameInv

(* A synchronizeCache is queued.                                             *)
LEMMA SyncFrames ==
  ASSUME IndInv, FrameInv, ~halted, UNCHANGED halted, IndInv', DoSync
  PROVE  FrameInv'
<1> USE ConstantsAssumption DEF cacheVars, ckptVars, diskVars, ghostVars
<1> DEFINE req == [op |-> "sync"]
<1>f. /\ ckptState \in {4, 5} /\ ckptWait = "none" /\ ckptWait' = "sync"
      /\ freeCleaning > 0 /\ freeCleaning' = freeCleaning - 1
      /\ Enqueue(req) /\ req \in Request
      /\ UNCHANGED <<cacheVars, dir, ckptState, logCursor, workingGen, served, halted>>
  BY RequestKinds DEF DoSync
<1>0. /\ TypeOK /\ KROFrames /\ ControlInv
      /\ FrameStates /\ WriteRequests /\ HeaderAfterPages /\ ReadRequests
      /\ KROCountExact /\ PoolConserved
  BY DEF IndInv, FrameInv
<1>e. /\ Len(queue) \in Nat /\ Len(queue') = Len(queue) + 1
      /\ \A i \in 1 .. Len(queue) : queue'[i] = queue[i]
      /\ queue'[Len(queue) + 1] = req /\ req.op = "sync"
  BY <1>0, <1>f, EnqueueFacts
<1>t. TypeOK' /\ logCursor \in Nat
  BY <1>0 DEF TypeOK, IndInv
<1> HIDE DEF req
<1>1. FrameStates'
  BY <1>0, <1>f DEF FrameStates, FrameState, HasCopy
<1>2. WriteRequests'
  <2>1. logCursor' >= logCursor
    BY <1>f, <1>t
  <2>2. QED
    BY <1>0, <1>e, <1>f, <1>t, <2>1, WritesAppend
<1>3. HeaderAfterPages'
  <2>1. \A i \in 1 .. Len(queue) : ~WriteAt(i)
    BY <1>0, <1>f DEF HeaderAfterPages
  <2>2. \A i \in 1 .. Len(queue') : ~WriteAt(i)'
    BY <1>e, <2>1 DEF WriteAt
  <2>3. QED
    BY <1>0, <1>f, <2>2 DEF HeaderAfterPages
<1>4. ReadRequests'
  BY <1>0, <1>e, <1>f, <1>t, ReadsAppend
<1>5. KROCountExact'
  <2>1. KRODirty' = KRODirty /\ DirtyCopies' = DirtyCopies
    BY <1>0, <1>f DEF KRODirty, DirtyCopies, TypeOK
  <2>2. QED
    BY <1>0, <1>f, <2>1, KROCountSame
<1>6. PoolConserved'
  <2>1. /\ Cardinality(Busy') = Cardinality(Busy) + 1
        /\ Cardinality(Busy) \in Nat
    BY <1>0, <1>e, <1>f, BusyAppend, CountsFinite
  <2>2. QED
    BY <1>0, <1>f, <2>1 DEF PoolConserved, Busy, TypeOK, ControlInv, SyncOrder
<1>7. QED
  BY <1>1, <1>2, <1>3, <1>4, <1>5, <1>6 DEF FrameInv

(* Phase 4 writes the root.                                                  *)
LEMMA Phase4Frames ==
  ASSUME IndInv, FrameInv, ~halted, UNCHANGED halted, IndInv', DoPhase4Work
  PROVE  FrameInv'
<1> USE ConstantsAssumption DEF cacheVars, ckptVars, diskVars, ghostVars
<1> DEFINE req == [op |-> "root"]
<1>f. /\ ckptState = 4 /\ ckptWait = "none" /\ ckptState' = 5
      /\ ckptWait' = "root" /\ Enqueue(req) /\ req \in Request
      /\ UNCHANGED <<cacheVars, dir, logCursor, workingGen, freeCleaning, served, halted>>
  BY RequestKinds DEF DoPhase4Work
<1>0. /\ TypeOK /\ KROFrames /\ ControlInv
      /\ FrameStates /\ WriteRequests /\ HeaderAfterPages /\ ReadRequests
      /\ KROCountExact /\ PoolConserved
  BY DEF IndInv, FrameInv
<1>e. /\ Len(queue) \in Nat /\ Len(queue') = Len(queue) + 1
      /\ \A i \in 1 .. Len(queue) : queue'[i] = queue[i]
      /\ queue'[Len(queue) + 1] = req /\ req.op = "root"
  BY <1>0, <1>f, EnqueueFacts
<1>t. TypeOK' /\ logCursor \in Nat
  BY <1>0 DEF TypeOK, IndInv
<1> HIDE DEF req
<1>1. FrameStates'
  BY <1>0, <1>f DEF FrameStates, FrameState, HasCopy
<1>2. WriteRequests'
  <2>1. logCursor' >= logCursor
    BY <1>f, <1>t
  <2>2. QED
    BY <1>0, <1>e, <1>f, <1>t, <2>1, WritesAppend
<1>3. HeaderAfterPages'
  <2>1. \A i \in 1 .. Len(queue) : ~WriteAt(i)
    BY <1>0, <1>f DEF HeaderAfterPages
  <2>2. \A i \in 1 .. Len(queue') : ~WriteAt(i)'
    BY <1>e, <2>1 DEF WriteAt
  <2>3. QED
    BY <1>0, <1>f, <2>2 DEF HeaderAfterPages
<1>4. ReadRequests'
  BY <1>0, <1>e, <1>f, <1>t, ReadsAppend
<1>5. KROCountExact'
  <2>1. KRODirty' = KRODirty /\ DirtyCopies' = DirtyCopies
    BY <1>0, <1>f DEF KRODirty, DirtyCopies, TypeOK
  <2>2. QED
    BY <1>0, <1>f, <2>1, KROCountSame
<1>6. PoolConserved'
  <2>1. /\ Cardinality(Busy') = Cardinality(Busy) + 1
        /\ Cardinality(Busy) \in Nat
    BY <1>0, <1>e, <1>f, BusyAppend, CountsFinite
  <2>2. QED
    BY <1>0, <1>f, <2>1 DEF PoolConserved, Busy, TypeOK, ControlInv, SyncOrder
<1>7. QED
  BY <1>1, <1>2, <1>3, <1>4, <1>5, <1>6 DEF FrameInv

(* The end of the checkpoint: all its pages are written.                     *)
LEMMA Phase5Frames ==
  ASSUME IndInv, FrameInv, ~halted, UNCHANGED halted, DoPhase5Work
  PROVE  FrameInv'
<1> USE ConstantsAssumption DEF cacheVars, ckptVars, diskVars, ghostVars
<1>f. /\ ckptState = 5 /\ ckptWait = "none" /\ ckptState' = 0
      /\ UNCHANGED <<cacheVars, dir, ckptWait, logCursor, freeCleaning, queue,
                     served, halted>>
  BY DEF DoPhase5Work
<1>0. /\ TypeOK /\ KROFrames /\ ControlInv
      /\ FrameStates /\ WriteRequests /\ HeaderAfterPages /\ ReadRequests
      /\ KROCountExact /\ PoolConserved
  BY DEF IndInv, FrameInv
<1>1. FrameStates'
  <2>1. \A i \in 1 .. Len(queue) : ~WriteAt(i)
    BY <1>0, <1>f DEF HeaderAfterPages
  <2>2. \A p \in Page : lid[p] = 0 /\ wcopy[p].lid = 0
    <3>1. \A p, l : ~WriteIn(queue, p, l)
      BY <2>1 DEF WriteIn, WriteAt
    <3>2. QED
      BY <1>0, <3>1 DEF WriteRequests
  <2>3. kro \cap dirty = {} /\ \A p \in Page : ~wcopy[p].dirty
    BY <1>0, <1>f DEF HeaderAfterPages
  <2>4. \A p \in Page : p \notin kro
    BY <1>0, <2>2, <2>3 DEF KROFrames
  <2>5. \A p \in Page : ~HasCopy(p)
    BY <1>0, <2>2, <2>3 DEF FrameStates, FrameState
  <2>6. \A p \in Page : ~HasCopy(p)'
    BY <1>f, <2>5 DEF HasCopy
  <2>7. QED
    BY <1>0, <1>f, <2>2, <2>4, <2>6 DEF FrameStates, FrameState
<1>2. WriteRequests'
  BY <1>0, <1>f DEF WriteRequests, WriteAt, WriteIn, FrameStates, FrameState, HasCopy, NoCopy, TypeOK
<1>3. HeaderAfterPages'
  BY <1>0, <1>f DEF HeaderAfterPages, WriteAt, FrameStates, FrameState, HasCopy, NoCopy, TypeOK
<1>4. ReadRequests'
  BY <1>0, <1>f DEF ReadRequests, ReadAt, Location, FrameStates, FrameState, HasCopy, TypeOK
<1>5. KROCountExact'
  <2>1. KRODirty' = KRODirty /\ DirtyCopies' = DirtyCopies
    BY <1>0, <1>f DEF KRODirty, DirtyCopies, TypeOK
  <2>2. QED
    BY <1>0, <1>f, <2>1, KROCountSame
<1>6. PoolConserved'
  BY <1>0, <1>f DEF PoolConserved
<1>7. QED
  BY <1>1, <1>2, <1>3, <1>4, <1>5, <1>6 DEF FrameInv

(* The device transfers the oldest request.                                  *)
LEMMA TransferFrames ==
  ASSUME IndInv, FrameInv, ~halted, UNCHANGED halted, Transfer
  PROVE  FrameInv'
<1> USE ConstantsAssumption DEF cacheVars, ckptVars, diskVars, ghostVars
<1>f. UNCHANGED <<cacheVars, dir, ckptState, ckptWait, workingGen,
                logCursor, freeCleaning, queue, halted>>
  BY DEF Transfer
<1>0. /\ TypeOK /\ KROFrames /\ ControlInv
      /\ FrameStates /\ WriteRequests /\ HeaderAfterPages /\ ReadRequests
      /\ KROCountExact /\ PoolConserved
  BY DEF IndInv, FrameInv
<1>1. FrameStates'
  BY <1>0, <1>f DEF FrameStates, FrameState, HasCopy
<1>2. WriteRequests'
  BY <1>0, <1>f DEF WriteRequests, WriteAt, WriteIn, FrameStates, FrameState, HasCopy, NoCopy, TypeOK
<1>3. HeaderAfterPages'
  BY <1>0, <1>f DEF HeaderAfterPages, WriteAt, FrameStates, FrameState, HasCopy, NoCopy, TypeOK
<1>4. ReadRequests'
  BY <1>0, <1>f DEF ReadRequests, ReadAt, Location, FrameStates, FrameState, HasCopy, TypeOK
<1>5. KROCountExact'
  <2>1. KRODirty' = KRODirty /\ DirtyCopies' = DirtyCopies
    BY <1>0, <1>f DEF KRODirty, DirtyCopies, TypeOK
  <2>2. QED
    BY <1>0, <1>f, <2>1, KROCountSame
<1>6. PoolConserved'
  BY <1>0, <1>f DEF PoolConserved
<1>7. QED
  BY <1>1, <1>2, <1>3, <1>4, <1>5, <1>6 DEF FrameInv

(* A page has been read.                                                     *)
LEMMA EndReadFrames ==
  ASSUME IndInv, FrameInv, ~halted, UNCHANGED halted, IndInv', IOReq_EndReadPage
  PROVE  FrameInv'
<1> USE ConstantsAssumption DEF cacheVars, ckptVars, diskVars, ghostVars
<1> DEFINE p == Head(queue).page
<1>f. /\ Completed("read") /\ fetching' = fetching \ {p}
      /\ \E v : val' = [val EXCEPT ![p] = v]
      /\ UNCHANGED <<cached, dirty, kro, lid, wcopy, numKRODirtyPages, dir,
                     ckptVars, logCursor, freeCleaning, halted>>
  BY DEF IOReq_EndReadPage
<1>0. /\ TypeOK /\ KROFrames /\ ControlInv
      /\ FrameStates /\ WriteRequests /\ HeaderAfterPages /\ ReadRequests
      /\ KROCountExact /\ PoolConserved
  BY DEF IndInv, FrameInv
<1>e. /\ 1 \in 1 .. Len(queue) /\ Len(queue) \in Nat
      /\ Len(queue') = Len(queue) - 1 /\ Head(queue) = queue[1]
      /\ \A i \in 1 .. Len(queue') : queue'[i] = queue[i + 1]
                                     /\ i + 1 \in 1 .. Len(queue)
      /\ queue[1].op = "read"
  <2>1. /\ 1 \in 1 .. Len(queue) /\ Len(queue) \in Nat
        /\ Len(queue') = Len(queue) - 1 /\ Head(queue) = queue[1]
        /\ \A i \in 1 .. Len(queue') : queue'[i] = queue[i + 1]
        /\ queue[1].op = "read"
    BY <1>0, <1>f, Dequeue
  <2>2. \A i \in 1 .. Len(queue') : i + 1 \in 1 .. Len(queue)
    BY <2>1
  <2>3. QED
    BY <2>1, <2>2
<1>t. TypeOK'
  BY DEF IndInv
<1>1. FrameStates'
  <2>1. p \in fetching
    BY <1>0, <1>e DEF ReadRequests, ReadAt
  <2>2. PICK v : val' = [val EXCEPT ![p] = v]
    BY <1>f
  <2> HIDE DEF p
  <2>3. \A q \in Page : q # p => val'[q] = val[q]
    BY <1>0, <2>2 DEF TypeOK
  <2>4. SUFFICES ASSUME NEW q \in Page
                 PROVE  FrameState(q)'
    BY DEF FrameStates
  <2>5. FrameState(q)
    BY <1>0 DEF FrameStates
  <2>6. CASE q # p
    BY <1>f, <2>3, <2>5, <2>6 DEF FrameState, HasCopy
  <2>7. CASE q = p
    BY <1>f, <2>1, <2>5, <2>7 DEF FrameState, HasCopy
  <2>8. QED
    BY <2>6, <2>7
<1>2. WriteRequests'
  BY <1>0, <1>f, WritesDone
<1>3. HeaderAfterPages'
  <2>1. \A i \in 1 .. Len(queue') : WriteAt(i)' => WriteAt(i + 1)
    BY <1>e DEF WriteAt
  <2>2. \A i, j \in 1 .. Len(queue') :
          WriteAt(i)' /\ queue'[j].op = "hdr" => i < j
    <3>1. SUFFICES ASSUME NEW i \in 1 .. Len(queue'), NEW j \in 1 .. Len(queue'),
                          WriteAt(i)', queue'[j].op = "hdr"
                   PROVE  i < j
      OBVIOUS
    <3>2. i + 1 < j + 1
      BY <1>0, <1>e, <2>1, <3>1 DEF HeaderAfterPages
    <3>3. QED
      BY <3>2
  <2>3. QED
    BY <1>0, <1>e, <1>f, <2>1, <2>2 DEF HeaderAfterPages
<1>4. ReadRequests'
  <2>1. \A i \in 1 .. Len(queue') : ReadAt(i)' => ReadAt(i + 1)
    BY <1>e DEF ReadAt
  <2>2. ReadAt(1)
    BY <1>e DEF ReadAt
  <2>3. \A i \in 1 .. Len(queue') : ReadAt(i)' => queue'[i].page # queue[1].page
    <3>1. \A i \in 1 .. Len(queue') : i + 1 # 1
      BY <1>e
    <3>2. QED
      BY <1>0, <1>e, <2>1, <2>2, <3>1 DEF ReadRequests
  <2>4. \A i, j \in 1 .. Len(queue') :
          ReadAt(i)' /\ ReadAt(j)' /\ queue'[i].page = queue'[j].page => i = j
    <3>1. SUFFICES ASSUME NEW i \in 1 .. Len(queue'), NEW j \in 1 .. Len(queue'),
                          ReadAt(i)', ReadAt(j)', queue'[i].page = queue'[j].page
                   PROVE  i = j
      OBVIOUS
    <3>2. i + 1 = j + 1
      BY <1>0, <1>e, <2>1, <3>1 DEF ReadRequests
    <3>3. QED
      BY <3>2
  <2>5. \A q : Location(q)' = Location(q)
    BY <1>f DEF Location
  <2>6. QED
    BY <1>0, <1>e, <1>f, <2>1, <2>3, <2>4, <2>5 DEF ReadRequests
<1>5. KROCountExact'
  <2>1. KRODirty' = KRODirty /\ DirtyCopies' = DirtyCopies
    BY <1>0, <1>f DEF KRODirty, DirtyCopies, TypeOK
  <2>2. QED
    BY <1>0, <1>f, <2>1, KROCountSame
<1>6. PoolConserved'
  <2>1. /\ Cardinality(Busy') = Cardinality(Busy) - 0
        /\ Cardinality(Busy) \in Nat
    BY <1>0, <1>f, <1>t, BusyTail, CountsFinite
  <2>2. QED
    BY <1>0, <1>f, <2>1 DEF PoolConserved, Busy, TypeOK
<1>7. QED
  BY <1>1, <1>2, <1>3, <1>4, <1>5, <1>6 DEF FrameInv

(* A page has been written.                                                  *)
LEMMA EndCleanFrames ==
  ASSUME IndInv, FrameInv, ~halted, UNCHANGED halted, IndInv', IOReq_EndPageClean,
         lid[Head(queue).page] = Head(queue).lid
  PROVE  FrameInv'
<1> USE ConstantsAssumption DEF cacheVars, ckptVars, diskVars, ghostVars
<1> DEFINE p == Head(queue).page
           l == Head(queue).lid
<1>f. /\ Completed("write") /\ lid[p] = l /\ ~(p \in dirty /\ p \in kro)
      /\ dir' = IF p \in dirty \cup kro THEN dir
                ELSE [dir EXCEPT ![p] = [gen |-> workingGen, loc |-> l]]
      /\ lid' = [lid EXCEPT ![p] = 0] /\ kro' = kro \ {p}
      /\ UNCHANGED <<cached, fetching, val, dirty, wcopy, numKRODirtyPages,
                     ckptVars, logCursor, halted>>
      /\ freeCleaning' = freeCleaning + 1
  <2>1. WriteAt(1) /\ Head(queue) = queue[1] /\ TypeOK /\ FrameStates
    BY Dequeue DEF WriteAt, IOReq_EndPageClean, IndInv, FrameInv
  <2>2. lid[p] = l /\ l # 0 /\ p \in Page
    <3>1. queue[1].page \in Page /\ queue[1].lid \in Lid
      BY <2>1, WriteFields
    <3>2. QED
      BY <2>1, <3>1 DEF Lid
  <2>3. wcopy[p].lid = 0
    BY <2>1, <2>2, CopyStates
  <2>4. QED
    BY <2>2, <2>3 DEF IOReq_EndPageClean, Record
<1>0. /\ TypeOK /\ KROFrames /\ ControlInv
      /\ FrameStates /\ WriteRequests /\ HeaderAfterPages /\ ReadRequests
      /\ KROCountExact /\ PoolConserved
  BY DEF IndInv, FrameInv
<1>e. /\ 1 \in 1 .. Len(queue) /\ Len(queue) \in Nat
      /\ Len(queue') = Len(queue) - 1 /\ Head(queue) = queue[1]
      /\ \A i \in 1 .. Len(queue') : queue'[i] = queue[i + 1]
                                     /\ i + 1 \in 1 .. Len(queue)
      /\ queue[1].op = "write"
  <2>1. /\ 1 \in 1 .. Len(queue) /\ Len(queue) \in Nat
        /\ Len(queue') = Len(queue) - 1 /\ Head(queue) = queue[1]
        /\ \A i \in 1 .. Len(queue') : queue'[i] = queue[i + 1]
        /\ queue[1].op = "write"
    BY <1>0, <1>f, Dequeue
  <2>2. \A i \in 1 .. Len(queue') : i + 1 \in 1 .. Len(queue)
    BY <2>1
  <2>3. QED
    BY <2>1, <2>2
<1>t. TypeOK'
  BY DEF IndInv
<1>p. p \in Page /\ l \in Lid
  <2>1. WriteAt(1)
    BY <1>e DEF WriteAt
  <2>2. QED
    BY <1>0, <1>e, <2>1, WriteFields
<1>1. FrameStates'
  <2> HIDE DEF p, l
  <2>1. SUFFICES ASSUME NEW q \in Page
                 PROVE  FrameState(q)'
    BY DEF FrameStates
  <2>2. FrameState(q)
    BY <1>0 DEF FrameStates
  <2>t. /\ lid \in [Page -> 0 .. MaxLid] /\ wcopy \in [Page -> Copy]
        /\ dir \in [Page -> DirEntry]
    BY <1>0 DEF TypeOK
  <2>3. CASE q # p
    BY <1>f, <1>p, <2>2, <2>3, <2>t DEF FrameState, HasCopy
  <2>4. CASE q = p
    BY <1>f, <1>p, <2>2, <2>4, <2>t DEF FrameState, HasCopy, NoCopy, Lid
  <2>5. QED
    BY <2>3, <2>4
<1>2. WriteRequests'
  <2>1. /\ \A i \in 1 .. Len(queue') : WriteAt(i)' =>
             i + 1 \in 2 .. Len(queue) /\ WriteAt(i + 1)
             /\ queue'[i] = queue[i + 1]
        /\ \A q, k : WriteIn(queue, q, k)
             /\ queue[1] # [op |-> "write", page |-> q, lid |-> k]
             => WriteIn(queue', q, k)
    BY <1>0, <1>f, WritesTail
  <2>2. /\ WriteAt(1) /\ queue[1] = [op |-> "write", page |-> p, lid |-> l]
        /\ p \in Page /\ l \in Lid
    <3>1. WriteAt(1)
      BY <1>e DEF WriteAt
    <3>2. QED
      BY <1>0, <1>e, <3>1, WriteFields
  <2> HIDE DEF p, l
  <2>3. \A i \in 1 .. Len(queue') : WriteAt(i)' =>
          /\ queue'[i].page \in Page /\ queue'[i].lid # l
          /\ queue'[i].lid \in Lid /\ queue'[i].lid < logCursor
          /\ \/ lid[queue'[i].page] = queue'[i].lid
             \/ wcopy[queue'[i].page].lid = queue'[i].lid
    <3>1. SUFFICES ASSUME NEW i \in 1 .. Len(queue'), WriteAt(i)'
                   PROVE  /\ queue'[i].page \in Page /\ queue'[i].lid # l
                          /\ queue'[i].lid \in Lid /\ queue'[i].lid < logCursor
                          /\ \/ lid[queue'[i].page] = queue'[i].lid
                             \/ wcopy[queue'[i].page].lid = queue'[i].lid
      OBVIOUS
    <3>2. /\ WriteAt(i + 1) /\ queue'[i] = queue[i + 1] /\ i + 1 # 1
          /\ i + 1 \in 1 .. Len(queue) /\ queue[1].lid = l
      BY <1>e, <2>1, <2>2, <3>1
    <3>3. queue[i + 1].lid # queue[1].lid
      BY <1>0, <1>e, <2>2, <3>2 DEF WriteRequests
    <3>4. queue[i + 1].page \in Page /\ queue[i + 1].lid \in Lid
      BY <1>0, <3>2, WriteFields
    <3>5. QED
      BY <1>0, <3>2, <3>3, <3>4 DEF WriteRequests
  <2>4. \A i, j \in 1 .. Len(queue') :
          WriteAt(i)' /\ WriteAt(j)' /\ queue'[i].lid = queue'[j].lid => i = j
    <3>1. SUFFICES ASSUME NEW i \in 1 .. Len(queue'), NEW j \in 1 .. Len(queue'),
                          WriteAt(i)', WriteAt(j)', queue'[i].lid = queue'[j].lid
                   PROVE  i = j
      OBVIOUS
    <3>2. i + 1 = j + 1
      BY <1>0, <1>e, <2>1, <3>1 DEF WriteRequests
    <3>3. QED
      BY <3>2
  <2>5. \A q \in Page : lid[q] # 0 /\ (q # p \/ lid[q] # l) => WriteIn(queue', q, lid[q])
    <3>1. SUFFICES ASSUME NEW q \in Page, lid[q] # 0, q # p \/ lid[q] # l
                   PROVE  WriteIn(queue', q, lid[q])
      OBVIOUS
    <3>2. queue[1] # [op |-> "write", page |-> q, lid |-> lid[q]]
      BY <2>2, <3>1
    <3>3. QED
      BY <1>0, <2>1, <3>1, <3>2 DEF WriteRequests
  <2>6. \A q \in Page : wcopy[q].lid # 0 /\ (q # p \/ wcopy[q].lid # l)
                          => WriteIn(queue', q, wcopy[q].lid)
    <3>1. SUFFICES ASSUME NEW q \in Page, wcopy[q].lid # 0,
                          q # p \/ wcopy[q].lid # l
                   PROVE  WriteIn(queue', q, wcopy[q].lid)
      OBVIOUS
    <3>2. queue[1] # [op |-> "write", page |-> q, lid |-> wcopy[q].lid]
      BY <2>2, <3>1
    <3>3. QED
      BY <1>0, <2>1, <3>1, <3>2 DEF WriteRequests
  <2>7. /\ \A q \in Page : lid'[q] = IF q = p THEN 0 ELSE lid[q]
        /\ wcopy[p].lid = 0 \/ wcopy[p].lid # l
    BY <1>0, <1>f, <2>2, CopyStates DEF TypeOK, Lid
  <2>8. QED
    BY <1>f, <2>2, <2>3, <2>4, <2>5, <2>6, <2>7 DEF WriteRequests
<1>3. HeaderAfterPages'
  <2>1. \A i \in 1 .. Len(queue') : WriteAt(i)' => WriteAt(i + 1)
    BY <1>e DEF WriteAt
  <2>2. \A i, j \in 1 .. Len(queue') :
          WriteAt(i)' /\ queue'[j].op = "hdr" => i < j
    <3>1. SUFFICES ASSUME NEW i \in 1 .. Len(queue'), NEW j \in 1 .. Len(queue'),
                          WriteAt(i)', queue'[j].op = "hdr"
                   PROVE  i < j
      OBVIOUS
    <3>2. i + 1 < j + 1
      BY <1>0, <1>e, <2>1, <3>1 DEF HeaderAfterPages
    <3>3. QED
      BY <3>2
  <2>3. QED
    BY <1>0, <1>e, <1>f, <2>1, <2>2, SMTT(30) DEF HeaderAfterPages
<1>4. ReadRequests'
  <2>1. \A q \in fetching : dir'[q] = dir[q]
    <3> HIDE DEF p, l
    <3>1. p \notin fetching
      <4>1. l # 0
        BY <1>p DEF Lid
      <4>2. lid[p] # 0 \/ wcopy[p].lid # 0
        BY <1>f, <4>1
      <4>3. QED
        BY <1>0, <1>p, <4>2, CopyStates DEF FrameStates, FrameState
    <3>2. QED
      BY <1>0, <1>f, <3>1 DEF TypeOK
  <2>2. QED
    BY <1>0, <1>f, <2>1, ReadsDone
<1>5. KROCountExact'
  <2>1. KRODirty' = KRODirty /\ DirtyCopies' = DirtyCopies
    <3> HIDE DEF p, l
    <3>1. QED
      BY <1>f DEF KRODirty, DirtyCopies
  <2>2. QED
    BY <1>0, <1>f, <2>1, KROCountSame
<1>6. PoolConserved'
  <2>1. /\ Cardinality(Busy') = Cardinality(Busy) - 1
        /\ Cardinality(Busy) \in Nat
    BY <1>0, <1>f, <1>t, BusyTail, CountsFinite
  <2>2. QED
    BY <1>0, <1>f, <2>1 DEF PoolConserved, Busy, TypeOK
<1>7. QED
  BY <1>1, <1>2, <1>3, <1>4, <1>5, <1>6 DEF FrameInv

(* A working copy has been written.                                          *)
LEMMA EndCopyFrames ==
  ASSUME IndInv, FrameInv, ~halted, UNCHANGED halted, IndInv', IOReq_EndPageClean,
         lid[Head(queue).page] # Head(queue).lid
  PROVE  FrameInv'
<1> USE ConstantsAssumption DEF cacheVars, ckptVars, diskVars, ghostVars
<1> DEFINE p == Head(queue).page
           l == Head(queue).lid
<1>f. /\ Completed("write") /\ wcopy[p].lid = l /\ ~wcopy[p].dirty
      /\ wcopy' = [wcopy EXCEPT ![p] = NoCopy]
      /\ UNCHANGED <<cached, fetching, val, dirty, kro, lid, dir,
                     numKRODirtyPages, ckptVars, logCursor, halted>>
      /\ freeCleaning' = freeCleaning + 1 /\ lid[p] # l
  BY DEF IOReq_EndPageClean
<1>0. /\ TypeOK /\ KROFrames /\ ControlInv
      /\ FrameStates /\ WriteRequests /\ HeaderAfterPages /\ ReadRequests
      /\ KROCountExact /\ PoolConserved
  BY DEF IndInv, FrameInv
<1>e. /\ 1 \in 1 .. Len(queue) /\ Len(queue) \in Nat
      /\ Len(queue') = Len(queue) - 1 /\ Head(queue) = queue[1]
      /\ \A i \in 1 .. Len(queue') : queue'[i] = queue[i + 1]
                                     /\ i + 1 \in 1 .. Len(queue)
      /\ queue[1].op = "write"
  <2>1. /\ 1 \in 1 .. Len(queue) /\ Len(queue) \in Nat
        /\ Len(queue') = Len(queue) - 1 /\ Head(queue) = queue[1]
        /\ \A i \in 1 .. Len(queue') : queue'[i] = queue[i + 1]
        /\ queue[1].op = "write"
    BY <1>0, <1>f, Dequeue
  <2>2. \A i \in 1 .. Len(queue') : i + 1 \in 1 .. Len(queue)
    BY <2>1
  <2>3. QED
    BY <2>1, <2>2
<1>t. TypeOK'
  BY DEF IndInv
<1>p. p \in Page /\ l \in Lid
  <2>1. WriteAt(1)
    BY <1>e DEF WriteAt
  <2>2. QED
    BY <1>0, <1>e, <2>1, WriteFields
<1>1. FrameStates'
  <2> HIDE DEF p, l
  <2>1. SUFFICES ASSUME NEW q \in Page
                 PROVE  FrameState(q)'
    BY DEF FrameStates
  <2>2. FrameState(q)
    BY <1>0 DEF FrameStates
  <2>t. /\ lid \in [Page -> 0 .. MaxLid] /\ wcopy \in [Page -> Copy]
        /\ dir \in [Page -> DirEntry]
    BY <1>0 DEF TypeOK
  <2>3. CASE q # p
    BY <1>f, <1>p, <2>2, <2>3, <2>t DEF FrameState, HasCopy
  <2>4. CASE q = p
    BY <1>f, <1>p, <2>2, <2>4, <2>t DEF FrameState, HasCopy, NoCopy, Lid
  <2>5. QED
    BY <2>3, <2>4
<1>2. WriteRequests'
  <2>1. /\ \A i \in 1 .. Len(queue') : WriteAt(i)' =>
             i + 1 \in 2 .. Len(queue) /\ WriteAt(i + 1)
             /\ queue'[i] = queue[i + 1]
        /\ \A q, k : WriteIn(queue, q, k)
             /\ queue[1] # [op |-> "write", page |-> q, lid |-> k]
             => WriteIn(queue', q, k)
    BY <1>0, <1>f, WritesTail
  <2>2. /\ WriteAt(1) /\ queue[1] = [op |-> "write", page |-> p, lid |-> l]
        /\ p \in Page /\ l \in Lid
    <3>1. WriteAt(1)
      BY <1>e DEF WriteAt
    <3>2. QED
      BY <1>0, <1>e, <3>1, WriteFields
  <2> HIDE DEF p, l
  <2>3. \A i \in 1 .. Len(queue') : WriteAt(i)' =>
          /\ queue'[i].page \in Page /\ queue'[i].lid # l
          /\ queue'[i].lid \in Lid /\ queue'[i].lid < logCursor
          /\ \/ lid[queue'[i].page] = queue'[i].lid
             \/ wcopy[queue'[i].page].lid = queue'[i].lid
    <3>1. SUFFICES ASSUME NEW i \in 1 .. Len(queue'), WriteAt(i)'
                   PROVE  /\ queue'[i].page \in Page /\ queue'[i].lid # l
                          /\ queue'[i].lid \in Lid /\ queue'[i].lid < logCursor
                          /\ \/ lid[queue'[i].page] = queue'[i].lid
                             \/ wcopy[queue'[i].page].lid = queue'[i].lid
      OBVIOUS
    <3>2. /\ WriteAt(i + 1) /\ queue'[i] = queue[i + 1] /\ i + 1 # 1
          /\ i + 1 \in 1 .. Len(queue) /\ queue[1].lid = l
      BY <1>e, <2>1, <2>2, <3>1
    <3>3. queue[i + 1].lid # queue[1].lid
      BY <1>0, <1>e, <2>2, <3>2 DEF WriteRequests
    <3>4. queue[i + 1].page \in Page /\ queue[i + 1].lid \in Lid
      BY <1>0, <3>2, WriteFields
    <3>5. QED
      BY <1>0, <3>2, <3>3, <3>4 DEF WriteRequests
  <2>4. \A i, j \in 1 .. Len(queue') :
          WriteAt(i)' /\ WriteAt(j)' /\ queue'[i].lid = queue'[j].lid => i = j
    <3>1. SUFFICES ASSUME NEW i \in 1 .. Len(queue'), NEW j \in 1 .. Len(queue'),
                          WriteAt(i)', WriteAt(j)', queue'[i].lid = queue'[j].lid
                   PROVE  i = j
      OBVIOUS
    <3>2. i + 1 = j + 1
      BY <1>0, <1>e, <2>1, <3>1, SMTT(30) DEF WriteRequests
    <3>3. QED
      BY <3>2
  <2>5. \A q \in Page : lid[q] # 0 /\ (q # p \/ lid[q] # l) => WriteIn(queue', q, lid[q])
    <3>1. SUFFICES ASSUME NEW q \in Page, lid[q] # 0, q # p \/ lid[q] # l
                   PROVE  WriteIn(queue', q, lid[q])
      OBVIOUS
    <3>2. queue[1] # [op |-> "write", page |-> q, lid |-> lid[q]]
      BY <2>2, <3>1
    <3>3. QED
      BY <1>0, <2>1, <3>1, <3>2 DEF WriteRequests
  <2>6. \A q \in Page : wcopy[q].lid # 0 /\ (q # p \/ wcopy[q].lid # l)
                          => WriteIn(queue', q, wcopy[q].lid)
    <3>1. SUFFICES ASSUME NEW q \in Page, wcopy[q].lid # 0,
                          q # p \/ wcopy[q].lid # l
                   PROVE  WriteIn(queue', q, wcopy[q].lid)
      OBVIOUS
    <3>2. queue[1] # [op |-> "write", page |-> q, lid |-> wcopy[q].lid]
      BY <2>2, <3>1
    <3>3. QED
      BY <1>0, <2>1, <3>1, <3>2 DEF WriteRequests
  <2>7. \A q \in Page : wcopy'[q].lid = IF q = p THEN 0 ELSE wcopy[q].lid
    BY <1>0, <1>f, <2>2 DEF TypeOK, NoCopy
  <2>8. QED
    BY <1>f, <2>2, <2>3, <2>4, <2>5, <2>6, <2>7 DEF WriteRequests
<1>3. HeaderAfterPages'
  <2>0. \A q \in Page : ~wcopy[q].dirty => ~wcopy'[q].dirty
    <3> HIDE DEF p, l
    <3>1. wcopy \in [Page -> Copy]
      BY <1>0 DEF TypeOK
    <3>2. QED
      BY <1>f, <1>p, <3>1 DEF NoCopy
  <2>1. \A i \in 1 .. Len(queue') : WriteAt(i)' => WriteAt(i + 1)
    BY <1>e DEF WriteAt
  <2>2. \A i, j \in 1 .. Len(queue') :
          WriteAt(i)' /\ queue'[j].op = "hdr" => i < j
    <3>1. SUFFICES ASSUME NEW i \in 1 .. Len(queue'), NEW j \in 1 .. Len(queue'),
                          WriteAt(i)', queue'[j].op = "hdr"
                   PROVE  i < j
      OBVIOUS
    <3>2. i + 1 < j + 1
      BY <1>0, <1>e, <2>1, <3>1 DEF HeaderAfterPages
    <3>3. QED
      BY <3>2
  <2>3. QED
    BY <1>0, <1>e, <1>f, <2>0, <2>1, <2>2 DEF HeaderAfterPages
<1>4. ReadRequests'
  <2>1. \A q \in fetching : dir'[q] = dir[q]
    <3> HIDE DEF p, l
    <3>1. p \notin fetching
      <4>1. l # 0
        BY <1>p DEF Lid
      <4>2. lid[p] # 0 \/ wcopy[p].lid # 0
        BY <1>f, <4>1
      <4>3. QED
        BY <1>0, <1>p, <4>2, CopyStates DEF FrameStates, FrameState
    <3>2. QED
      BY <1>0, <1>f, <3>1 DEF TypeOK
  <2>2. QED
    BY <1>0, <1>f, <2>1, ReadsDone
<1>5. KROCountExact'
  <2>1. KRODirty' = KRODirty /\ DirtyCopies' = DirtyCopies
    <3> HIDE DEF p, l
    <3>1. wcopy \in [Page -> Copy]
      BY <1>0 DEF TypeOK
    <3>2. QED
      BY <1>f, <1>p, <3>1 DEF KRODirty, DirtyCopies, NoCopy
  <2>2. QED
    BY <1>0, <1>f, <2>1, KROCountSame
<1>6. PoolConserved'
  <2>1. /\ Cardinality(Busy') = Cardinality(Busy) - 1
        /\ Cardinality(Busy) \in Nat
    BY <1>0, <1>f, <1>t, BusyTail, CountsFinite
  <2>2. QED
    BY <1>0, <1>f, <2>1 DEF PoolConserved, Busy, TypeOK
<1>7. QED
  BY <1>1, <1>2, <1>3, <1>4, <1>5, <1>6 DEF FrameInv

(* The assertion of IOReq_EndPageClean fails: the kernel stops.              *)
LEMMA AssertFrames ==
  ASSUME IndInv, FrameInv, ~halted, IndInv', EndPageCleanAsserts
  PROVE  FrameInv'
<1> USE ConstantsAssumption DEF cacheVars, ckptVars, diskVars, ghostVars
<1> DEFINE p == Head(queue).page
           l == Head(queue).lid
<1>f. /\ Completed("write") /\ halted' = TRUE
      /\ (lid[p] = l /\ p \in dirty /\ p \in kro) \/ (wcopy[p].lid = l /\ wcopy[p].dirty)
      /\ UNCHANGED <<cacheVars, dir, ckptVars, logCursor, freeCleaning>>
  BY DEF EndPageCleanAsserts
<1>0. /\ TypeOK /\ KROFrames /\ ControlInv
      /\ FrameStates /\ WriteRequests /\ HeaderAfterPages /\ ReadRequests
      /\ KROCountExact /\ PoolConserved
  BY DEF IndInv, FrameInv
<1>e. /\ 1 \in 1 .. Len(queue) /\ Len(queue) \in Nat
      /\ Len(queue') = Len(queue) - 1 /\ Head(queue) = queue[1]
      /\ \A i \in 1 .. Len(queue') : queue'[i] = queue[i + 1]
                                     /\ i + 1 \in 1 .. Len(queue)
      /\ queue[1].op = "write"
  <2>1. /\ 1 \in 1 .. Len(queue) /\ Len(queue) \in Nat
        /\ Len(queue') = Len(queue) - 1 /\ Head(queue) = queue[1]
        /\ \A i \in 1 .. Len(queue') : queue'[i] = queue[i + 1]
        /\ queue[1].op = "write"
    BY <1>0, <1>f, Dequeue
  <2>2. \A i \in 1 .. Len(queue') : i + 1 \in 1 .. Len(queue)
    BY <2>1
  <2>3. QED
    BY <2>1, <2>2
<1>t. TypeOK'
  BY DEF IndInv
<1>p. p \in Page /\ l \in Lid
  <2>1. WriteAt(1)
    BY <1>e DEF WriteAt
  <2>2. QED
    BY <1>0, <1>e, <2>1, WriteFields
<1>1. FrameStates'
  BY <1>0, <1>f DEF FrameStates, FrameState, HasCopy
<1>2. WriteRequests'
  <2>1. /\ \A i \in 1 .. Len(queue') : WriteAt(i)' =>
             i + 1 \in 2 .. Len(queue) /\ WriteAt(i + 1)
             /\ queue'[i] = queue[i + 1]
        /\ \A q, k : WriteIn(queue, q, k)
             /\ queue[1] # [op |-> "write", page |-> q, lid |-> k]
             => WriteIn(queue', q, k)
    BY <1>0, <1>f, WritesTail
  <2>2. /\ WriteAt(1) /\ queue[1] = [op |-> "write", page |-> p, lid |-> l]
        /\ p \in Page /\ l \in Lid
    <3>1. WriteAt(1)
      BY <1>e DEF WriteAt
    <3>2. QED
      BY <1>0, <1>e, <3>1, WriteFields
  <2> HIDE DEF p, l
  <2>3. \A i \in 1 .. Len(queue') : WriteAt(i)' =>
          /\ queue'[i].page \in Page /\ queue'[i].lid # l
          /\ queue'[i].lid \in Lid /\ queue'[i].lid < logCursor
          /\ \/ lid[queue'[i].page] = queue'[i].lid
             \/ wcopy[queue'[i].page].lid = queue'[i].lid
    <3>1. SUFFICES ASSUME NEW i \in 1 .. Len(queue'), WriteAt(i)'
                   PROVE  /\ queue'[i].page \in Page /\ queue'[i].lid # l
                          /\ queue'[i].lid \in Lid /\ queue'[i].lid < logCursor
                          /\ \/ lid[queue'[i].page] = queue'[i].lid
                             \/ wcopy[queue'[i].page].lid = queue'[i].lid
      OBVIOUS
    <3>2. /\ WriteAt(i + 1) /\ queue'[i] = queue[i + 1] /\ i + 1 # 1
          /\ i + 1 \in 1 .. Len(queue) /\ queue[1].lid = l
      BY <1>e, <2>1, <2>2, <3>1
    <3>3. queue[i + 1].lid # queue[1].lid
      BY <1>0, <1>e, <2>2, <3>2 DEF WriteRequests
    <3>4. queue[i + 1].page \in Page /\ queue[i + 1].lid \in Lid
      BY <1>0, <3>2, WriteFields
    <3>5. QED
      BY <1>0, <3>2, <3>3, <3>4 DEF WriteRequests
  <2>4. \A i, j \in 1 .. Len(queue') :
          WriteAt(i)' /\ WriteAt(j)' /\ queue'[i].lid = queue'[j].lid => i = j
    <3>1. SUFFICES ASSUME NEW i \in 1 .. Len(queue'), NEW j \in 1 .. Len(queue'),
                          WriteAt(i)', WriteAt(j)', queue'[i].lid = queue'[j].lid
                   PROVE  i = j
      OBVIOUS
    <3>2. i + 1 = j + 1
      BY <1>0, <1>e, <2>1, <3>1 DEF WriteRequests
    <3>3. QED
      BY <3>2
  <2>5. QED
    BY <1>f, <2>3, <2>4 DEF WriteRequests
<1>3. HeaderAfterPages'
  <2>1. \A i \in 1 .. Len(queue') : WriteAt(i)' => WriteAt(i + 1)
    BY <1>e DEF WriteAt
  <2>2. \A i, j \in 1 .. Len(queue') :
          WriteAt(i)' /\ queue'[j].op = "hdr" => i < j
    <3>1. SUFFICES ASSUME NEW i \in 1 .. Len(queue'), NEW j \in 1 .. Len(queue'),
                          WriteAt(i)', queue'[j].op = "hdr"
                   PROVE  i < j
      OBVIOUS
    <3>2. i + 1 < j + 1
      BY <1>0, <1>e, <2>1, <3>1 DEF HeaderAfterPages
    <3>3. QED
      BY <3>2
  <2> HIDE DEF p, l
  <2>3. ckptState \notin 3 .. 5
    BY <1>0, <1>f, <1>p DEF HeaderAfterPages
  <2>4. QED
    BY <1>f, <2>2, <2>3 DEF HeaderAfterPages
<1>4. ReadRequests'
  BY <1>0, <1>f, ReadsDone
<1>5. KROCountExact' /\ PoolConserved'
  BY <1>f DEF KROCountExact, PoolConserved
<1>6. QED
  BY <1>1, <1>2, <1>3, <1>4, <1>5 DEF FrameInv

(* The generation header has been written.                                   *)
LEMMA EndHdrFrames ==
  ASSUME IndInv, FrameInv, ~halted, UNCHANGED halted, IndInv', IOReq_EndGenHdrWrite
  PROVE  FrameInv'
<1> USE ConstantsAssumption DEF cacheVars, ckptVars, diskVars, ghostVars
<1>f. /\ Completed("hdr") /\ ckptWait' = "none"
      /\ UNCHANGED <<cacheVars, dir, ckptState, workingGen, logCursor,
                     freeCleaning, halted>>
  BY DEF IOReq_EndGenHdrWrite
<1>0. /\ TypeOK /\ KROFrames /\ ControlInv
      /\ FrameStates /\ WriteRequests /\ HeaderAfterPages /\ ReadRequests
      /\ KROCountExact /\ PoolConserved
  BY DEF IndInv, FrameInv
<1>e. /\ 1 \in 1 .. Len(queue) /\ Len(queue) \in Nat
      /\ Len(queue') = Len(queue) - 1 /\ Head(queue) = queue[1]
      /\ \A i \in 1 .. Len(queue') : queue'[i] = queue[i + 1]
                                     /\ i + 1 \in 1 .. Len(queue)
      /\ queue[1].op = "hdr"
  <2>1. /\ 1 \in 1 .. Len(queue) /\ Len(queue) \in Nat
        /\ Len(queue') = Len(queue) - 1 /\ Head(queue) = queue[1]
        /\ \A i \in 1 .. Len(queue') : queue'[i] = queue[i + 1]
        /\ queue[1].op = "hdr"
    BY <1>0, <1>f, Dequeue
  <2>2. \A i \in 1 .. Len(queue') : i + 1 \in 1 .. Len(queue)
    BY <2>1
  <2>3. QED
    BY <2>1, <2>2
<1>t. TypeOK'
  BY DEF IndInv
<1>c. ckptWait = "hdr"
  BY <1>0, <1>f, ControlDone DEF Control, ControlInv
<1>s. ckptState = 4
  BY <1>0, <1>c DEF ControlInv, SyncOrder
<1>1. FrameStates'
  BY <1>0, <1>f DEF FrameStates, FrameState, HasCopy
<1>2. WriteRequests'
  BY <1>0, <1>f, WritesDone
<1>3. HeaderAfterPages'
  <2>1. \A i \in 1 .. Len(queue) : ~WriteAt(i)
    <3>1. \A i \in 1 .. Len(queue) : WriteAt(i) => i < 1
      BY <1>0, <1>e DEF HeaderAfterPages
    <3>2. QED
      BY <3>1
  <2>2. \A i \in 1 .. Len(queue') : ~WriteAt(i)'
    BY <1>e, <2>1 DEF WriteAt
  <2>3. QED
    BY <1>0, <1>f, <2>2 DEF HeaderAfterPages
<1>4. ReadRequests'
  BY <1>0, <1>f, ReadsDone
<1>5. KROCountExact'
  <2>1. KRODirty' = KRODirty /\ DirtyCopies' = DirtyCopies
    BY <1>0, <1>f DEF KRODirty, DirtyCopies, TypeOK
  <2>2. QED
    BY <1>0, <1>f, <2>1, KROCountSame
<1>6. PoolConserved'
  <2>1. /\ Cardinality(Busy') = Cardinality(Busy) - 1
        /\ Cardinality(Busy) \in Nat
    BY <1>0, <1>f, <1>t, BusyTail, CountsFinite
  <2>2. QED
    BY <1>0, <1>c, <1>f, <1>s, <2>1 DEF PoolConserved, Busy, TypeOK
<1>7. QED
  BY <1>1, <1>2, <1>3, <1>4, <1>5, <1>6 DEF FrameInv

(* The root has been written.                                                *)
LEMMA EndRootFrames ==
  ASSUME IndInv, FrameInv, ~halted, UNCHANGED halted, IndInv', IOReq_EndCkptRootWrite
  PROVE  FrameInv'
<1> USE ConstantsAssumption DEF cacheVars, ckptVars, diskVars, ghostVars
<1>f. /\ Completed("root") /\ ckptWait' = "none"
      /\ freeCleaning' = freeCleaning + 1
      /\ UNCHANGED <<cacheVars, dir, ckptState, workingGen, logCursor, halted>>
  BY DEF IOReq_EndCkptRootWrite, RootRequestFreed
<1>0. /\ TypeOK /\ KROFrames /\ ControlInv
      /\ FrameStates /\ WriteRequests /\ HeaderAfterPages /\ ReadRequests
      /\ KROCountExact /\ PoolConserved
  BY DEF IndInv, FrameInv
<1>e. /\ 1 \in 1 .. Len(queue) /\ Len(queue) \in Nat
      /\ Len(queue') = Len(queue) - 1 /\ Head(queue) = queue[1]
      /\ \A i \in 1 .. Len(queue') : queue'[i] = queue[i + 1]
                                     /\ i + 1 \in 1 .. Len(queue)
      /\ queue[1].op = "root"
  <2>1. /\ 1 \in 1 .. Len(queue) /\ Len(queue) \in Nat
        /\ Len(queue') = Len(queue) - 1 /\ Head(queue) = queue[1]
        /\ \A i \in 1 .. Len(queue') : queue'[i] = queue[i + 1]
        /\ queue[1].op = "root"
    BY <1>0, <1>f, Dequeue
  <2>2. \A i \in 1 .. Len(queue') : i + 1 \in 1 .. Len(queue)
    BY <2>1
  <2>3. QED
    BY <2>1, <2>2
<1>t. TypeOK'
  BY DEF IndInv
<1>c. ckptWait = "root"
  BY <1>0, <1>f, ControlDone DEF Control, ControlInv
<1>s. ckptState = 5
  BY <1>0, <1>c DEF ControlInv, SyncOrder
<1>1. FrameStates'
  BY <1>0, <1>f DEF FrameStates, FrameState, HasCopy
<1>2. WriteRequests'
  BY <1>0, <1>f, WritesDone
<1>3. HeaderAfterPages'
  <2>1. \A i \in 1 .. Len(queue) : ~WriteAt(i)
    BY <1>0, <1>c, <1>s, <1>e DEF HeaderAfterPages
  <2>2. \A i \in 1 .. Len(queue') : ~WriteAt(i)'
    BY <1>e, <2>1 DEF WriteAt
  <2>3. QED
    BY <1>0, <1>f, <2>2 DEF HeaderAfterPages
<1>4. ReadRequests'
  BY <1>0, <1>f, ReadsDone
<1>5. KROCountExact'
  <2>1. KRODirty' = KRODirty /\ DirtyCopies' = DirtyCopies
    BY <1>0, <1>f DEF KRODirty, DirtyCopies, TypeOK
  <2>2. QED
    BY <1>0, <1>f, <2>1, KROCountSame
<1>6. PoolConserved'
  <2>1. /\ Cardinality(Busy') = Cardinality(Busy) - 1
        /\ Cardinality(Busy) \in Nat
    BY <1>0, <1>f, <1>t, BusyTail, CountsFinite
  <2>2. QED
    BY <1>0, <1>c, <1>f, <1>s, <2>1 DEF PoolConserved, Busy, TypeOK
<1>7. QED
  BY <1>1, <1>2, <1>3, <1>4, <1>5, <1>6 DEF FrameInv

(* The cache of the disk has been synchronized.                              *)
LEMMA EndSyncFrames ==
  ASSUME IndInv, FrameInv, ~halted, UNCHANGED halted, IndInv', IOReq_EndSync
  PROVE  FrameInv'
<1> USE ConstantsAssumption DEF cacheVars, ckptVars, diskVars, ghostVars
<1>f. /\ Completed("sync") /\ ckptWait' \in {"none", ckptWait}
      /\ freeCleaning' = freeCleaning + 1
      /\ UNCHANGED <<cacheVars, dir, ckptState, workingGen, logCursor, halted>>
  BY DEF IOReq_EndSync, WakeAfterSync
<1>0. /\ TypeOK /\ KROFrames /\ ControlInv
      /\ FrameStates /\ WriteRequests /\ HeaderAfterPages /\ ReadRequests
      /\ KROCountExact /\ PoolConserved
  BY DEF IndInv, FrameInv
<1>e. /\ 1 \in 1 .. Len(queue) /\ Len(queue) \in Nat
      /\ Len(queue') = Len(queue) - 1 /\ Head(queue) = queue[1]
      /\ \A i \in 1 .. Len(queue') : queue'[i] = queue[i + 1]
                                     /\ i + 1 \in 1 .. Len(queue)
      /\ queue[1].op = "sync"
  <2>1. /\ 1 \in 1 .. Len(queue) /\ Len(queue) \in Nat
        /\ Len(queue') = Len(queue) - 1 /\ Head(queue) = queue[1]
        /\ \A i \in 1 .. Len(queue') : queue'[i] = queue[i + 1]
        /\ queue[1].op = "sync"
    BY <1>0, <1>f, Dequeue
  <2>2. \A i \in 1 .. Len(queue') : i + 1 \in 1 .. Len(queue)
    BY <2>1
  <2>3. QED
    BY <2>1, <2>2
<1>t. TypeOK'
  BY DEF IndInv
<1>c. ckptWait = "sync"
  BY <1>0, <1>f, ControlDone DEF Control, ControlInv
<1>s. ckptState \in {4, 5}
  BY <1>0, <1>c DEF ControlInv, SyncOrder
<1>1. FrameStates'
  BY <1>0, <1>f DEF FrameStates, FrameState, HasCopy
<1>2. WriteRequests'
  BY <1>0, <1>f, WritesDone
<1>3. HeaderAfterPages'
  <2>1. \A i \in 1 .. Len(queue) : ~WriteAt(i)
    BY <1>0, <1>c, <1>s, <1>e DEF HeaderAfterPages
  <2>2. \A i \in 1 .. Len(queue') : ~WriteAt(i)'
    BY <1>e, <2>1 DEF WriteAt
  <2>3. QED
    BY <1>0, <1>f, <2>2 DEF HeaderAfterPages
<1>4. ReadRequests'
  BY <1>0, <1>f, ReadsDone
<1>5. KROCountExact'
  <2>1. KRODirty' = KRODirty /\ DirtyCopies' = DirtyCopies
    BY <1>0, <1>f DEF KRODirty, DirtyCopies, TypeOK
  <2>2. QED
    BY <1>0, <1>f, <2>1, KROCountSame
<1>6. PoolConserved'
  <2>1. /\ Cardinality(Busy') = Cardinality(Busy) - 1
        /\ Cardinality(Busy) \in Nat
    BY <1>0, <1>f, <1>t, BusyTail, CountsFinite
  <2>2. QED
    BY <1>0, <1>c, <1>f, <1>s, <2>1 DEF PoolConserved, Busy, TypeOK
<1>7. QED
  BY <1>1, <1>2, <1>3, <1>4, <1>5, <1>6 DEF FrameInv

-----------------------------------------------------------------------------
(* After a restart no frame is in core and no request is queued.             *)
LEMMA CrashFrames ==
  ASSUME CrashRestart
  PROVE  FrameInv'
<1>f. /\ cached' = {} /\ fetching' = {} /\ dirty' = {} /\ kro' = {}
      /\ lid' = [p \in Page |-> 0] /\ wcopy' = [p \in Page |-> NoCopy]
      /\ numKRODirtyPages' = 0 /\ ckptState' = 0 /\ ckptWait' = "none"
      /\ freeCleaning' = NCleaning /\ queue' = <<>>
  BY DEF CrashRestart
<1>1. Len(<<>>) = 0
  OBVIOUS
<1>2. 1 .. 0 = {}
  OBVIOUS
<1>3. FrameStates'
  BY <1>f DEF FrameStates, FrameState, HasCopy
<1>4. WriteRequests' /\ HeaderAfterPages' /\ ReadRequests'
  BY <1>f, <1>1, <1>2 DEF WriteRequests, HeaderAfterPages, ReadRequests, NoCopy
<1>5. KROCountExact'
  <2>1. kro' \cap dirty' = {} /\ {p \in Page : wcopy'[p].dirty} = {}
    BY <1>f DEF NoCopy
  <2>2. Cardinality({}) = 0 /\ 0 = 0 + 0
    BY FS_EmptySet
  <2>3. QED
    BY <1>f, <2>1, <2>2, Zenon DEF KROCountExact
<1>6. PoolConserved'
  <2>1. {i \in 1 .. Len(queue') : queue'[i].op # "read"} = {}
    BY <1>f, <1>1, <1>2
  <2>2. QED
    BY <1>f, <2>1, FS_EmptySet, ConstantsAssumption DEF PoolConserved
<1>7. QED
  BY <1>3, <1>4, <1>5, <1>6 DEF FrameInv

(* Nor is one initially.                                                     *)
LEMMA InitFrames == Init => FrameInv
<1> SUFFICES ASSUME Init PROVE FrameInv
  OBVIOUS
<1>f. /\ cached = {} /\ fetching = {} /\ dirty = {} /\ kro = {}
      /\ lid = [p \in Page |-> 0] /\ wcopy = [p \in Page |-> NoCopy]
      /\ numKRODirtyPages = 0 /\ ckptState = 0 /\ ckptWait = "none"
      /\ freeCleaning = NCleaning /\ queue = <<>>
  BY DEF Init
<1>1. Len(<<>>) = 0 /\ 1 .. 0 = {}
  OBVIOUS
<1>2. FrameStates
  BY <1>f DEF FrameStates, FrameState, HasCopy
<1>3. WriteRequests /\ HeaderAfterPages /\ ReadRequests
  BY <1>f, <1>1 DEF WriteRequests, HeaderAfterPages, ReadRequests, NoCopy
<1>4. KROCountExact
  <2>1. kro \cap dirty = {} /\ {p \in Page : wcopy[p].dirty} = {}
    BY <1>f DEF NoCopy
  <2>2. Cardinality({}) = 0 /\ 0 = 0 + 0
    BY FS_EmptySet
  <2>3. QED
    BY <1>f, <2>1, <2>2, Zenon DEF KROCountExact
<1>5. PoolConserved
  <2>1. {i \in 1 .. Len(queue) : queue[i].op # "read"} = {}
    BY <1>f, <1>1
  <2>2. QED
    BY <1>f, <2>1, FS_EmptySet, ConstantsAssumption DEF PoolConserved
<1>6. QED
  BY <1>2, <1>3, <1>4, <1>5 DEF FrameInv

(* Every step preserves the invariant.                                       *)
LEMMA NextFrames == IndInv /\ FrameInv /\ [Next]_vars => FrameInv'
<1> SUFFICES ASSUME IndInv, FrameInv, [Next]_vars PROVE FrameInv'
  OBVIOUS
<1>0. IndInv'
  BY NextInv
<1>1. CASE UNCHANGED vars
  <2>1. UNCHANGED <<cached, fetching, val, dirty, kro, lid, wcopy,
                    numKRODirtyPages, dir, ckptState, ckptWait, workingGen,
                    logCursor, freeCleaning, queue, halted>>
    BY <1>1 DEF vars, cacheVars, ckptVars
  <2>2. FrameStates' /\ WriteRequests' /\ HeaderAfterPages' /\ ReadRequests'
    BY <2>1 DEF FrameInv, FrameStates, FrameState, HasCopy, WriteRequests,
       WriteAt, HeaderAfterPages, ReadRequests, ReadAt, Location
  <2>3. KROCountExact' /\ PoolConserved'
    BY <2>1 DEF FrameInv, KROCountExact, PoolConserved
  <2>4. QED
    BY <2>2, <2>3 DEF FrameInv
<1>2. ASSUME NEW p \in Page, pageH_Clean(p), ~halted, UNCHANGED halted,
             ckptIsActive => p \in kro
      PROVE  FrameInv'
  <2>1. CASE val[p] = Zero
    BY <1>2, <2>1, CleanZeroFrames
  <2>2. CASE val[p] # Zero
    BY <1>2, <2>2, CleanWriteFrames
  <2>3. QED
    BY <2>1, <2>2
<1>3. CASE ~halted /\ (\E p \in Page : Process(p)) /\ UNCHANGED halted
  <2>1. PICK p \in Page : Process(p)
    BY <1>3
  <2>2. CASE GetObject(p)
    <3>1. CASE dir[p].gen # 0 /\ dir[p].loc = 0
      BY <1>3, <2>2, <3>1, GetZeroFrames
    <3>2. CASE ~(dir[p].gen # 0 /\ dir[p].loc = 0)
      BY <1>0, <1>3, <2>2, <3>2, GetReadFrames
    <3>3. QED
      BY <3>1, <3>2
  <2>3. ASSUME NEW v \in Value,
               \/ StoreDirty(p, v) \/ StoreClean(p, v)
               \/ MitigateZero(p, v) \/ MitigateCopy(p, v)
        PROVE  FrameInv'
    BY <1>3, <2>3, StoreDirtyFrames, StoreCleanFrames, MitigateZeroFrames,
       MitigateCopyFrames
  <2>4. CASE MitigateMove(p)
    BY <1>3, <2>4, MitigateMoveFrames
  <2>5. CASE ZeroPage(p)
    BY <1>3, <2>5, ZeroPageFrames
  <2>6. CASE AgeClean(p)
    BY <1>2, <1>3, <2>6 DEF AgeClean, MayAgeClean
  <2>7. CASE AgeSteal(p)
    BY <1>3, <2>7, AgeStealFrames
  <2>8. QED
    BY <2>1, <2>2, <2>3, <2>4, <2>5, <2>6, <2>7 DEF Process
<1>4. CASE ~halted /\ DeclareDemarcationEvent /\ UNCHANGED halted
  BY <1>4, DeclareFrames
<1>5. CASE ~halted /\ CheckpointThread /\ UNCHANGED halted
  <2>1. ASSUME NEW p \in Page, CleanAKROPage(p)
        PROVE  FrameInv'
    <3>1. CASE p \in kro /\ pageH_Clean(p)
      BY <1>2, <1>5, <3>1
    <3>2. CASE CleanCopy(p) /\ wcopy[p].val = Zero
      BY <1>5, <3>2, CleanCopyZeroFrames
    <3>3. CASE CleanCopy(p) /\ wcopy[p].val # Zero
      BY <1>5, <3>3, CleanCopyWriteFrames
    <3>4. QED
      BY <2>1, <3>1, <3>2, <3>3 DEF CleanAKROPage
  <2>2. QED
    BY <1>0, <1>5, <2>1, Phase1Frames, Phase2Frames, Phase3Frames, SyncFrames,
       Phase4Frames, Phase5Frames DEF CheckpointThread
<1>6. CASE ~halted /\ Disk
  <2>1. CASE IOReq_EndPageClean
    <3>1. UNCHANGED halted
      BY <2>1 DEF IOReq_EndPageClean
    <3>2. QED
      BY <1>0, <1>6, <2>1, <3>1, EndCleanFrames, EndCopyFrames
  <2>2. CASE IOReq_EndReadPage
    <3>1. UNCHANGED halted
      BY <2>2 DEF IOReq_EndReadPage
    <3>2. QED
      BY <1>0, <1>6, <2>2, <3>1, EndReadFrames
  <2>3. CASE IOReq_EndGenHdrWrite
    <3>1. UNCHANGED halted
      BY <2>3 DEF IOReq_EndGenHdrWrite
    <3>2. QED
      BY <1>0, <1>6, <2>3, <3>1, EndHdrFrames
  <2>4. CASE IOReq_EndCkptRootWrite
    <3>1. UNCHANGED halted
      BY <2>4 DEF IOReq_EndCkptRootWrite
    <3>2. QED
      BY <1>0, <1>6, <2>4, <3>1, EndRootFrames
  <2>5. CASE IOReq_EndSync
    <3>1. UNCHANGED halted
      BY <2>5 DEF IOReq_EndSync
    <3>2. QED
      BY <1>0, <1>6, <2>5, <3>1, EndSyncFrames
  <2>6. QED
    BY <1>0, <1>6, <2>1, <2>2, <2>3, <2>4, <2>5, TransferFrames, AssertFrames
       DEF Disk
<1>7. CASE CrashRestart
  BY <1>7, CrashFrames
<1>8. QED
  BY <1>1, <1>3, <1>4, <1>5, <1>6, <1>7 DEF Next
-----------------------------------------------------------------------------
(* The invariant gives the table of page states.                             *)
LEMMA FramesTable == IndInv /\ FrameInv => PageStatesOfTable
  BY DEF IndInv, FrameInv, PageStatesOfTable, KROFrames, FrameStates, FrameState

(* The count of KRO dirty pages that DoPhase2Work waits on is exact in every *)
(* reachable state, for every number of pages.                               *)
THEOREM KROCountCorrect == Spec => []KROCountExact
<1>1. Init => IndInv /\ FrameInv
  BY InitInv, InitFrames
<1>2. IndInv /\ FrameInv /\ [Next]_vars => (IndInv /\ FrameInv)'
  BY NextInv, NextFrames
<1>3. IndInv /\ FrameInv => KROCountExact
  BY DEF FrameInv
<1>4. QED
  BY <1>1, <1>2, <1>3, PTL DEF Spec

(* The flags of a page, its frames and its I/O are always in a state of the  *)
(* table at the head of kern_Ckpt.c.                                         *)
THEOREM PageStatesCorrect == Spec => []PageStatesOfTable
<1>1. Init => IndInv /\ FrameInv
  BY InitInv, InitFrames
<1>2. IndInv /\ FrameInv /\ [Next]_vars => (IndInv /\ FrameInv)'
  BY NextInv, NextFrames
<1>3. IndInv /\ FrameInv => PageStatesOfTable
  BY FramesTable
<1>4. QED
  BY <1>1, <1>2, <1>3, PTL DEF Spec

(* No IORequest of the cleaning pool is lost or freed twice, for every size  *)
(* of the pool and every length of the queue.                                *)
THEOREM PoolCorrect == Spec => []PoolConserved
<1>1. Init => IndInv /\ FrameInv
  BY InitInv, InitFrames
<1>2. IndInv /\ FrameInv /\ [Next]_vars => (IndInv /\ FrameInv)'
  BY NextInv, NextFrames
<1>3. IndInv /\ FrameInv => PoolConserved
  BY DEF FrameInv
<1>4. QED
  BY <1>1, <1>2, <1>3, PTL DEF Spec
-----------------------------------------------------------------------------
(* The contents of pages: the picture caught by the demarcation event is     *)
(* kept (PictureKept), a restart finds the whole of it or of the one before  *)
(* (Recoverable), and the cache, the log and the disk implement              *)
(* PersistentStore (ImplementsStore).                                        *)


\* The frame the directory names has not been written yet: it will be from a
\* KRO frame or a working copy.
Pending(p) ==
    \/ p \in kro /\ lid[p] = dir[p].loc
    \/ HasCopy(p) /\ wcopy[p].lid = dir[p].loc

\* A clean page in core agrees with where the directory says it is stored; an
\* entry names an allocated log frame that has been written or will be.
PageData(p) ==
    /\ p \in cached \ fetching /\ p \notin dirty /\ lid[p] = 0
         => val[p] = Stored(p)
    /\ dir[p].loc # 0 =>
         /\ dir[p].gen # 0
         /\ dir[p].loc < logCursor
         /\ dir[p].loc \in written \/ Pending(p)
    /\ ckptState \in 2 .. 5 /\ p \notin astray => snapshot[p] = Picture(p)
PagesHeld == \A p \in Page : PageData(p)

\* No directory entry names a frame about to be written, but that of the page
\* written there when it belongs to the checkpoint.
WritesApart ==
    \A i \in 1 .. Len(queue), q \in Page :
      WriteAt(i) /\ dir[q].loc = queue[i].lid =>
        q = queue[i].page /\ (q \in kro \/ HasCopy(q))

\* A page transferred to the log and not changed since is there.
Transferred ==
    served /\ Head(queue).op = "write" =>
      LET p == Head(queue).page
          l == Head(queue).lid
      IN /\ l \in written
         /\ lid[p] = l /\ p \notin dirty => logVal[l] = val[p]
         /\ wcopy[p].lid = l /\ ~wcopy[p].dirty => logVal[l] = wcopy[p].val

\* There is a picture only while a checkpoint is being stabilized.
PictureOpen == ckptState \notin 2 .. 5 => snapshot = NoPicture

DataInv ==
    /\ PagesHeld
    /\ WritesApart
    /\ Transferred
    /\ PictureOpen
-----------------------------------------------------------------------------
(* Steps that leave a page, or the requests to write pages, as they are.     *)

SamePage(q) ==
    /\ q \in cached' <=> q \in cached
    /\ q \in fetching' <=> q \in fetching
    /\ q \in dirty' <=> q \in dirty
    /\ q \in kro' <=> q \in kro
    /\ val'[q] = val[q] /\ lid'[q] = lid[q]
    /\ wcopy'[q] = wcopy[q] /\ dir'[q] = dir[q]

WritesKept ==
    \A i \in 1 .. Len(queue') : WriteAt(i)' =>
      \E k \in 1 .. Len(queue) : WriteAt(k) /\ queue'[i] = queue[k]

(* A page that a step leaves alone keeps its data.                           *)
LEMMA OtherPage ==
  ASSUME TypeOK, TypeOK', NEW q \in Page, PageData(q), SamePage(q),
         UNCHANGED logVal, written \subseteq written',
         logCursor' >= logCursor,
         ckptState' \in 2 .. 5 =>
           /\ ckptState \in 2 .. 5 /\ snapshot' = snapshot
           /\ q \notin astray' => q \notin astray
  PROVE  PageData(q)'
<1>1. Stored(q)' = Stored(q)
  BY DEF SamePage, Stored, Found
<1>2. Pending(q)' <=> Pending(q)
  BY DEF SamePage, Pending, HasCopy
<1>3. Picture(q)' = Picture(q)
  BY <1>1 DEF SamePage, Picture, HasCopy
<1>4. /\ dir[q].loc \in Nat /\ logCursor \in Nat /\ logCursor' \in Nat
  BY ConstantsAssumption DEF TypeOK, DirEntry
<1>5. QED
  BY <1>1, <1>2, <1>3, <1>4 DEF PageData, SamePage

(* The requests to write pages are the same or fewer.                        *)
LEMMA KeptAppend ==
  ASSUME TypeOK, NEW req \in Request, Enqueue(req), req.op # "write"
  PROVE  WritesKept
  BY EnqueueFacts DEF WritesKept, WriteAt

(* So it is when the oldest request is done.                                 *)
LEMMA KeptTail ==
  ASSUME TypeOK, NEW op, Completed(op)
  PROVE  WritesKept
<1>1. \A i \in 1 .. Len(queue') : WriteAt(i)' =>
        WriteAt(i + 1) /\ queue'[i] = queue[i + 1]
  BY WritesTail
<1>2. QED
  BY <1>1 DEF WritesKept, WriteAt

(* WritesApart holds on when entries become zero or stay, and pages of the   *)
(* checkpoint remain so.                                                     *)
LEMMA WritesApartKept ==
  ASSUME TypeOK, WritesApart, WritesKept,
         \A q \in Page :
           \/ dir'[q].loc = 0
           \/ /\ dir'[q].loc = dir[q].loc
              /\ q \in kro \/ HasCopy(q) => q \in kro' \/ HasCopy(q)'
  PROVE  WritesApart'
<1>1. SUFFICES ASSUME NEW i \in 1 .. Len(queue'), NEW q \in Page, WriteAt(i)',
                      dir'[q].loc = queue'[i].lid
               PROVE  q = queue'[i].page /\ (q \in kro' \/ HasCopy(q)')
  BY DEF WritesApart
<1>2. PICK k \in 1 .. Len(queue) : WriteAt(k) /\ queue'[i] = queue[k]
  BY <1>1 DEF WritesKept
<1>3. queue[k].lid # 0
  <2>1. queue[k].lid \in Lid
    BY <1>2, WriteFields
  <2>2. QED
    BY <2>1 DEF Lid
<1>4. dir'[q].loc = dir[q].loc /\ (q \in kro \/ HasCopy(q) => q \in kro' \/ HasCopy(q)')
  BY <1>1, <1>2, <1>3
<1>5. QED
  BY <1>1, <1>2, <1>4 DEF WritesApart

(* Transferred holds on when a frame being written is not changed, unless    *)
(* the page becomes dirty, or becomes a working copy.                        *)
LEMMA TransferredKept ==
  ASSUME TypeOK, Transferred, WriteRequests,
         served' => served /\ Head(queue') = Head(queue) /\ queue # <<>>,
         UNCHANGED logVal, written \subseteq written',
         \A q \in Page, l \in Lid : l < logCursor =>
           /\ lid'[q] = l /\ q \notin dirty' =>
                lid[q] = l /\ q \notin dirty /\ val'[q] = val[q]
           /\ wcopy'[q].lid = l /\ ~wcopy'[q].dirty =>
                \/ /\ wcopy[q].lid = l /\ ~wcopy[q].dirty
                   /\ wcopy'[q].val = wcopy[q].val
                \/ lid[q] = l /\ q \notin dirty /\ wcopy'[q].val = val[q]
  PROVE  Transferred'
<1>1. SUFFICES ASSUME served', Head(queue').op = "write"
               PROVE  Transferred'
  BY DEF Transferred
<1>2. /\ served /\ Head(queue') = Head(queue) /\ Head(queue) = queue[1]
      /\ 1 \in 1 .. Len(queue)
  BY <1>1 DEF TypeOK
<1>3. WriteAt(1)
  BY <1>1, <1>2 DEF WriteAt
<1> DEFINE p == queue[1].page
           l == queue[1].lid
<1>4. p \in Page /\ l \in Lid /\ l < logCursor
  BY <1>2, <1>3, WriteFields DEF WriteRequests
<1>5. /\ l \in written
      /\ lid[p] = l /\ p \notin dirty => logVal[l] = val[p]
      /\ wcopy[p].lid = l /\ ~wcopy[p].dirty => logVal[l] = wcopy[p].val
  BY <1>1, <1>2 DEF Transferred
<1> HIDE DEF p, l
<1>6. /\ l \in written'
      /\ lid'[p] = l /\ p \notin dirty' => logVal'[l] = val'[p]
      /\ wcopy'[p].lid = l /\ ~wcopy'[p].dirty => logVal'[l] = wcopy'[p].val
  BY <1>4, <1>5
<1>7. QED
  BY <1>2, <1>6 DEF Transferred, p, l

(* A request added to the queue leaves the oldest one where it is.           *)
LEMMA HeadKept ==
  ASSUME IndInv, NEW req, Enqueue(req), UNCHANGED served
  PROVE  served' => served /\ Head(queue') = Head(queue) /\ queue # <<>>
<1>1. served => queue # <<>>
  BY DEF IndInv, ControlInv, ControlRequests
<1>2. queue # <<>> => Head(queue') = Head(queue)
  BY DEF IndInv, TypeOK, Enqueue
<1>3. QED
  BY <1>1, <1>2
-----------------------------------------------------------------------------
(* Each action keeps the contents of pages.                                  *)

(* A store into a writeable page.                                            *)
LEMMA StoreDirtyData ==
  ASSUME IndInv, FrameInv, DataInv, IndInv', ~halted, UNCHANGED halted,
         NEW p \in Page, NEW v \in Value, StoreDirty(p, v)
  PROVE  DataInv'
<1> USE ConstantsAssumption
<1>f. /\ p \in dirty \ kro /\ val' = [val EXCEPT ![p] = v]
      /\ UNCHANGED <<cached, fetching, dirty, kro, lid, wcopy, dir, logCursor, queue>>
      /\ UNCHANGED <<ckptState, workingGen, served, logVal, written, snapshot, astray>>
  BY DEF StoreDirty, cacheVars, ckptVars, diskVars, ghostVars
<1>0. /\ TypeOK /\ TypeOK' /\ FrameStates /\ WriteRequests /\ FrameState(p)
      /\ PagesHeld /\ PageData(p) /\ WritesApart /\ Transferred /\ PictureOpen
  BY DEF IndInv, FrameInv, DataInv, PagesHeld, FrameStates
<1>k. p \in kro => p \in dirty \/ lid[p] # 0
  BY DEF IndInv, KROFrames
<1>t. /\ lid \in [Page -> 0 .. MaxLid] /\ wcopy \in [Page -> Copy]
      /\ dir \in [Page -> DirEntry] /\ val \in [Page -> Value]
      /\ logCursor \in Nat /\ workingGen \in Nat \ {0}
      /\ dirty \subseteq cached /\ kro \subseteq cached /\ fetching \subseteq cached
  BY <1>0, SMTT(30) DEF TypeOK
<1>h. served' => served /\ Head(queue') = Head(queue) /\ queue # <<>>
  BY <1>f DEF IndInv, ControlInv, ControlRequests
<1>1. PagesHeld'
  <2>1. SUFFICES ASSUME NEW q \in Page PROVE PageData(q)'
    BY DEF PagesHeld
  <2>2. CASE q # p
    <3>1. SamePage(q)
      BY <1>f, <1>t, <2>2 DEF SamePage
    <3>2. PageData(q) /\ logCursor' >= logCursor /\ written \subseteq written'
      BY <1>0, <1>f, <1>t DEF PagesHeld
    <3>3. QED
      BY <1>0, <1>f, <3>1, <3>2, OtherPage
  <2>3. PageData(p)'
    BY <1>0, <1>f, <1>k, <1>t DEF PageData, FrameState, Stored, Found, Picture, Pending, HasCopy, NoCopy, PictureOpen, Copy, Lid
  <2>4. QED
    BY <2>2, <2>3
<1>2. WritesApart'
  <2>1. WritesKept
    BY <1>f DEF WritesKept, WriteAt
  <2>2. QED
    BY <1>0, <1>f, <1>k, <1>t, <2>1, WritesApartKept DEF FrameState, HasCopy, NoCopy
<1>3. Transferred'
  <2>1. ASSUME NEW q \in Page, NEW l \in Lid, l < logCursor
        PROVE  /\ lid'[q] = l /\ q \notin dirty' =>
                    lid[q] = l /\ q \notin dirty /\ val'[q] = val[q]
               /\ wcopy'[q].lid = l /\ ~wcopy'[q].dirty =>
                    \/ /\ wcopy[q].lid = l /\ ~wcopy[q].dirty
                       /\ wcopy'[q].val = wcopy[q].val
                    \/ lid[q] = l /\ q \notin dirty /\ wcopy'[q].val = val[q]
    BY <1>0, <1>f, <1>t, <2>1 DEF Lid, FrameState, NoCopy
  <2>2. UNCHANGED logVal /\ written \subseteq written'
    BY <1>f
  <2>3. QED
    BY <1>0, <1>h, <2>1, <2>2, TransferredKept
<1>4. PictureOpen'
  BY <1>0, <1>f DEF PictureOpen
<1>5. QED
  BY <1>1, <1>2, <1>3, <1>4 DEF DataInv

(* A store into a clean page.                                                *)
LEMMA StoreCleanData ==
  ASSUME IndInv, FrameInv, DataInv, IndInv', ~halted, UNCHANGED halted,
         NEW p \in Page, NEW v \in Value, StoreClean(p, v)
  PROVE  DataInv'
<1> USE ConstantsAssumption
<1>f. /\ p \in cached \ (dirty \cup kro \cup fetching) /\ dirty' = dirty \cup {p}
      /\ val' = [val EXCEPT ![p] = v]
      /\ UNCHANGED <<cached, fetching, kro, lid, wcopy, dir, logCursor, queue>>
      /\ UNCHANGED <<ckptState, workingGen, served, logVal, written, snapshot, astray>>
  BY DEF StoreClean, cacheVars, ckptVars, diskVars, ghostVars
<1>0. /\ TypeOK /\ TypeOK' /\ FrameStates /\ WriteRequests /\ FrameState(p)
      /\ PagesHeld /\ PageData(p) /\ WritesApart /\ Transferred /\ PictureOpen
  BY DEF IndInv, FrameInv, DataInv, PagesHeld, FrameStates
<1>k. p \in kro => p \in dirty \/ lid[p] # 0
  BY DEF IndInv, KROFrames
<1>t. /\ lid \in [Page -> 0 .. MaxLid] /\ wcopy \in [Page -> Copy]
      /\ dir \in [Page -> DirEntry] /\ val \in [Page -> Value]
      /\ logCursor \in Nat /\ workingGen \in Nat \ {0}
      /\ dirty \subseteq cached /\ kro \subseteq cached /\ fetching \subseteq cached
  BY <1>0, SMTT(30) DEF TypeOK
<1>h. served' => served /\ Head(queue') = Head(queue) /\ queue # <<>>
  BY <1>f DEF IndInv, ControlInv, ControlRequests
<1>1. PagesHeld'
  <2>1. SUFFICES ASSUME NEW q \in Page PROVE PageData(q)'
    BY DEF PagesHeld
  <2>2. CASE q # p
    <3>1. SamePage(q)
      BY <1>f, <1>t, <2>2 DEF SamePage
    <3>2. PageData(q) /\ logCursor' >= logCursor /\ written \subseteq written'
      BY <1>0, <1>f, <1>t DEF PagesHeld
    <3>3. QED
      BY <1>0, <1>f, <3>1, <3>2, OtherPage
  <2>3. PageData(p)'
    BY <1>0, <1>f, <1>k, <1>t DEF PageData, FrameState, Stored, Found, Picture, Pending, HasCopy, NoCopy, PictureOpen, Copy, Lid
  <2>4. QED
    BY <2>2, <2>3
<1>2. WritesApart'
  <2>1. WritesKept
    BY <1>f DEF WritesKept, WriteAt
  <2>2. QED
    BY <1>0, <1>f, <1>k, <1>t, <2>1, WritesApartKept DEF FrameState, HasCopy, NoCopy
<1>3. Transferred'
  <2>1. ASSUME NEW q \in Page, NEW l \in Lid, l < logCursor
        PROVE  /\ lid'[q] = l /\ q \notin dirty' =>
                    lid[q] = l /\ q \notin dirty /\ val'[q] = val[q]
               /\ wcopy'[q].lid = l /\ ~wcopy'[q].dirty =>
                    \/ /\ wcopy[q].lid = l /\ ~wcopy[q].dirty
                       /\ wcopy'[q].val = wcopy[q].val
                    \/ lid[q] = l /\ q \notin dirty /\ wcopy'[q].val = val[q]
    BY <1>0, <1>f, <1>t, <2>1 DEF Lid, FrameState, NoCopy
  <2>2. UNCHANGED logVal /\ written \subseteq written'
    BY <1>f
  <2>3. QED
    BY <1>0, <1>h, <2>1, <2>2, TransferredKept
<1>4. PictureOpen'
  BY <1>0, <1>f DEF PictureOpen
<1>5. QED
  BY <1>1, <1>2, <1>3, <1>4 DEF DataInv

(* A store into a KRO page of zeros: the entry is the picture.               *)
LEMMA MitigateZeroData ==
  ASSUME IndInv, FrameInv, DataInv, IndInv', ~halted, UNCHANGED halted,
         NEW p \in Page, NEW v \in Value, MitigateZero(p, v)
  PROVE  DataInv'
<1> USE ConstantsAssumption
<1>f. /\ p \in kro /\ val[p] = Zero /\ lid[p] = 0 /\ kro' = kro \ {p}
      /\ dir' = [dir EXCEPT ![p] = [gen |-> workingGen, loc |-> 0]]
      /\ dirty' = dirty \cup {p} /\ val' = [val EXCEPT ![p] = v]
      /\ UNCHANGED <<cached, fetching, lid, wcopy, logCursor, queue>>
      /\ UNCHANGED <<ckptState, workingGen, served, logVal, written, snapshot, astray>>
  BY DEF MitigateZero, Record, cacheVars, ckptVars, diskVars, ghostVars
<1>0. /\ TypeOK /\ TypeOK' /\ FrameStates /\ WriteRequests /\ FrameState(p)
      /\ PagesHeld /\ PageData(p) /\ WritesApart /\ Transferred /\ PictureOpen
  BY DEF IndInv, FrameInv, DataInv, PagesHeld, FrameStates
<1>k. p \in kro => p \in dirty \/ lid[p] # 0
  BY DEF IndInv, KROFrames
<1>t. /\ lid \in [Page -> 0 .. MaxLid] /\ wcopy \in [Page -> Copy]
      /\ dir \in [Page -> DirEntry] /\ val \in [Page -> Value]
      /\ logCursor \in Nat /\ workingGen \in Nat \ {0}
      /\ dirty \subseteq cached /\ kro \subseteq cached /\ fetching \subseteq cached
  BY <1>0, SMTT(30) DEF TypeOK
<1>h. served' => served /\ Head(queue') = Head(queue) /\ queue # <<>>
  BY <1>f DEF IndInv, ControlInv, ControlRequests
<1>1. PagesHeld'
  <2>1. SUFFICES ASSUME NEW q \in Page PROVE PageData(q)'
    BY DEF PagesHeld
  <2>2. CASE q # p
    <3>1. SamePage(q)
      BY <1>f, <1>t, <2>2 DEF SamePage
    <3>2. PageData(q) /\ logCursor' >= logCursor /\ written \subseteq written'
      BY <1>0, <1>f, <1>t DEF PagesHeld
    <3>3. QED
      BY <1>0, <1>f, <3>1, <3>2, OtherPage
  <2>3. PageData(p)'
    BY <1>0, <1>f, <1>k, <1>t DEF PageData, FrameState, Stored, Found, Picture, Pending, HasCopy, NoCopy, PictureOpen, Copy, Lid
  <2>4. QED
    BY <2>2, <2>3
<1>2. WritesApart'
  <2>1. WritesKept
    BY <1>f DEF WritesKept, WriteAt
  <2>2. QED
    BY <1>0, <1>f, <1>k, <1>t, <2>1, WritesApartKept DEF FrameState, HasCopy, NoCopy
<1>3. Transferred'
  <2>1. ASSUME NEW q \in Page, NEW l \in Lid, l < logCursor
        PROVE  /\ lid'[q] = l /\ q \notin dirty' =>
                    lid[q] = l /\ q \notin dirty /\ val'[q] = val[q]
               /\ wcopy'[q].lid = l /\ ~wcopy'[q].dirty =>
                    \/ /\ wcopy[q].lid = l /\ ~wcopy[q].dirty
                       /\ wcopy'[q].val = wcopy[q].val
                    \/ lid[q] = l /\ q \notin dirty /\ wcopy'[q].val = val[q]
    BY <1>0, <1>f, <1>t, <2>1 DEF Lid, FrameState, NoCopy
  <2>2. UNCHANGED logVal /\ written \subseteq written'
    BY <1>f
  <2>3. QED
    BY <1>0, <1>h, <2>1, <2>2, TransferredKept
<1>4. PictureOpen'
  BY <1>0, <1>f DEF PictureOpen
<1>5. QED
  BY <1>1, <1>2, <1>3, <1>4 DEF DataInv

(* A store into a KRO page in I/O: the frame becomes the copy.               *)
LEMMA MitigateMoveData ==
  ASSUME IndInv, FrameInv, DataInv, IndInv', ~halted, UNCHANGED halted,
         NEW p \in Page, MitigateMove(p)
  PROVE  DataInv'
<1> USE ConstantsAssumption
<1>f. /\ p \in kro /\ kro' = kro \ {p} /\ dirty' = dirty \cup {p}
      /\ wcopy' = [wcopy EXCEPT ![p] =
                     [val |-> val[p], dirty |-> p \in dirty, lid |-> lid[p]]]
      /\ lid' = [lid EXCEPT ![p] = 0]
      /\ UNCHANGED <<cached, fetching, val, dir, logCursor, queue>>
      /\ UNCHANGED <<ckptState, workingGen, served, logVal, written, snapshot, astray>>
  BY DEF MitigateMove, cacheVars, ckptVars, diskVars, ghostVars
<1>0. /\ TypeOK /\ TypeOK' /\ FrameStates /\ WriteRequests /\ FrameState(p)
      /\ PagesHeld /\ PageData(p) /\ WritesApart /\ Transferred /\ PictureOpen
  BY DEF IndInv, FrameInv, DataInv, PagesHeld, FrameStates
<1>k. p \in kro => p \in dirty \/ lid[p] # 0
  BY DEF IndInv, KROFrames
<1>t. /\ lid \in [Page -> 0 .. MaxLid] /\ wcopy \in [Page -> Copy]
      /\ dir \in [Page -> DirEntry] /\ val \in [Page -> Value]
      /\ logCursor \in Nat /\ workingGen \in Nat \ {0}
      /\ dirty \subseteq cached /\ kro \subseteq cached /\ fetching \subseteq cached
  BY <1>0 DEF TypeOK
<1>h. served' => served /\ Head(queue') = Head(queue) /\ queue # <<>>
  BY <1>f DEF IndInv, ControlInv, ControlRequests
<1>1. PagesHeld'
  <2>1. SUFFICES ASSUME NEW q \in Page PROVE PageData(q)'
    BY DEF PagesHeld
  <2>2. CASE q # p
    <3>1. SamePage(q)
      BY <1>f, <1>t, <2>2 DEF SamePage
    <3>2. PageData(q) /\ logCursor' >= logCursor /\ written \subseteq written'
      BY <1>0, <1>f, <1>t DEF PagesHeld
    <3>3. QED
      BY <1>0, <1>f, <3>1, <3>2, OtherPage
  <2>3. PageData(p)'
    BY <1>0, <1>f, <1>k, <1>t DEF PageData, FrameState, Stored, Found, Picture, Pending, HasCopy, NoCopy, PictureOpen, Copy, Lid
  <2>4. QED
    BY <2>2, <2>3
<1>2. WritesApart'
  <2>1. WritesKept
    BY <1>f DEF WritesKept, WriteAt
  <2>2. QED
    BY <1>0, <1>f, <1>k, <1>t, <2>1, WritesApartKept DEF FrameState, HasCopy, NoCopy
<1>3. Transferred'
  <2>1. ASSUME NEW q \in Page, NEW l \in Lid, l < logCursor
        PROVE  /\ lid'[q] = l /\ q \notin dirty' =>
                    lid[q] = l /\ q \notin dirty /\ val'[q] = val[q]
               /\ wcopy'[q].lid = l /\ ~wcopy'[q].dirty =>
                    \/ /\ wcopy[q].lid = l /\ ~wcopy[q].dirty
                       /\ wcopy'[q].val = wcopy[q].val
                    \/ lid[q] = l /\ q \notin dirty /\ wcopy'[q].val = val[q]
    BY <1>0, <1>f, <1>t, <2>1 DEF Lid, FrameState, NoCopy
  <2>2. UNCHANGED logVal /\ written \subseteq written'
    BY <1>f
  <2>3. QED
    BY <1>0, <1>h, <2>1, <2>2, TransferredKept
<1>4. PictureOpen'
  BY <1>0, <1>f DEF PictureOpen
<1>5. QED
  BY <1>1, <1>2, <1>3, <1>4 DEF DataInv

(* A store into another KRO page: a copy keeps the picture.                  *)
LEMMA MitigateCopyData ==
  ASSUME IndInv, FrameInv, DataInv, IndInv', ~halted, UNCHANGED halted,
         NEW p \in Page, NEW v \in Value, MitigateCopy(p, v)
  PROVE  DataInv'
<1> USE ConstantsAssumption
<1>f. /\ p \in kro /\ val[p] # Zero /\ lid[p] = 0 /\ kro' = kro \ {p}
      /\ wcopy' = [wcopy EXCEPT ![p] = [val |-> val[p], dirty |-> TRUE, lid |-> 0]]
      /\ val' = [val EXCEPT ![p] = v]
      /\ UNCHANGED <<cached, fetching, dirty, lid, dir, logCursor, queue>>
      /\ UNCHANGED <<ckptState, workingGen, served, logVal, written, snapshot, astray>>
  BY DEF MitigateCopy, cacheVars, ckptVars, diskVars, ghostVars
<1>0. /\ TypeOK /\ TypeOK' /\ FrameStates /\ WriteRequests /\ FrameState(p)
      /\ PagesHeld /\ PageData(p) /\ WritesApart /\ Transferred /\ PictureOpen
  BY DEF IndInv, FrameInv, DataInv, PagesHeld, FrameStates
<1>k. p \in kro => p \in dirty \/ lid[p] # 0
  BY DEF IndInv, KROFrames
<1>t. /\ lid \in [Page -> 0 .. MaxLid] /\ wcopy \in [Page -> Copy]
      /\ dir \in [Page -> DirEntry] /\ val \in [Page -> Value]
      /\ logCursor \in Nat /\ workingGen \in Nat \ {0}
      /\ dirty \subseteq cached /\ kro \subseteq cached /\ fetching \subseteq cached
  BY <1>0, SMTT(30) DEF TypeOK
<1>h. served' => served /\ Head(queue') = Head(queue) /\ queue # <<>>
  BY <1>f DEF IndInv, ControlInv, ControlRequests
<1>1. PagesHeld'
  <2>1. SUFFICES ASSUME NEW q \in Page PROVE PageData(q)'
    BY DEF PagesHeld
  <2>2. CASE q # p
    <3>1. SamePage(q)
      BY <1>f, <1>t, <2>2 DEF SamePage
    <3>2. PageData(q) /\ logCursor' >= logCursor /\ written \subseteq written'
      BY <1>0, <1>f, <1>t DEF PagesHeld
    <3>3. QED
      BY <1>0, <1>f, <3>1, <3>2, OtherPage
  <2>3. PageData(p)'
    BY <1>0, <1>f, <1>k, <1>t DEF PageData, FrameState, Stored, Found, Picture, Pending, HasCopy, NoCopy, PictureOpen, Copy, Lid
  <2>4. QED
    BY <2>2, <2>3
<1>2. WritesApart'
  <2>1. WritesKept
    BY <1>f DEF WritesKept, WriteAt
  <2>2. QED
    BY <1>0, <1>f, <1>k, <1>t, <2>1, WritesApartKept DEF FrameState, HasCopy, NoCopy
<1>3. Transferred'
  <2>1. ASSUME NEW q \in Page, NEW l \in Lid, l < logCursor
        PROVE  /\ lid'[q] = l /\ q \notin dirty' =>
                    lid[q] = l /\ q \notin dirty /\ val'[q] = val[q]
               /\ wcopy'[q].lid = l /\ ~wcopy'[q].dirty =>
                    \/ /\ wcopy[q].lid = l /\ ~wcopy[q].dirty
                       /\ wcopy'[q].val = wcopy[q].val
                    \/ lid[q] = l /\ q \notin dirty /\ wcopy'[q].val = val[q]
    BY <1>0, <1>f, <1>t, <2>1 DEF Lid, FrameState, NoCopy
  <2>2. UNCHANGED logVal /\ written \subseteq written'
    BY <1>f
  <2>3. QED
    BY <1>0, <1>h, <2>1, <2>2, TransferredKept
<1>4. PictureOpen'
  BY <1>0, <1>f DEF PictureOpen
<1>5. QED
  BY <1>1, <1>2, <1>3, <1>4 DEF DataInv

(* A page not in core is zeroed. It goes astray after the demarcation.       *)
LEMMA ZeroPageData ==
  ASSUME IndInv, FrameInv, DataInv, IndInv', ~halted, UNCHANGED halted,
         NEW p \in Page, ZeroPage(p)
  PROVE  DataInv'
<1> USE ConstantsAssumption
<1>f. /\ p \notin cached
      /\ astray' = IF ckptState \in 2 .. 5 THEN astray \cup {p} ELSE astray
      /\ dir' = [dir EXCEPT ![p] = [gen |-> workingGen, loc |-> 0]]
      /\ UNCHANGED <<cached, fetching, val, dirty, kro, lid, wcopy, logCursor, queue>>
      /\ UNCHANGED <<ckptState, workingGen, served, logVal, written, snapshot>>
  BY DEF ZeroPage, Record, cacheVars, ckptVars, diskVars, ghostVars
<1>0. /\ TypeOK /\ TypeOK' /\ FrameStates /\ WriteRequests /\ FrameState(p)
      /\ PagesHeld /\ PageData(p) /\ WritesApart /\ Transferred /\ PictureOpen
  BY DEF IndInv, FrameInv, DataInv, PagesHeld, FrameStates
<1>k. p \in kro => p \in dirty \/ lid[p] # 0
  BY DEF IndInv, KROFrames
<1>t. /\ lid \in [Page -> 0 .. MaxLid] /\ wcopy \in [Page -> Copy]
      /\ dir \in [Page -> DirEntry] /\ val \in [Page -> Value]
      /\ logCursor \in Nat /\ workingGen \in Nat \ {0}
      /\ dirty \subseteq cached /\ kro \subseteq cached /\ fetching \subseteq cached
  BY <1>0 DEF TypeOK
<1>h. served' => served /\ Head(queue') = Head(queue) /\ queue # <<>>
  BY <1>f DEF IndInv, ControlInv, ControlRequests
<1>1. PagesHeld'
  <2>1. SUFFICES ASSUME NEW q \in Page PROVE PageData(q)'
    BY DEF PagesHeld
  <2>2. CASE q # p
    <3>1. SamePage(q)
      BY <1>f, <1>t, <2>2 DEF SamePage
    <3>2. PageData(q) /\ logCursor' >= logCursor /\ written \subseteq written'
      BY <1>0, <1>f, <1>t DEF PagesHeld
    <3>3. QED
      BY <1>0, <1>f, <3>1, <3>2, OtherPage
  <2>3. PageData(p)'
    BY <1>0, <1>f, <1>k, <1>t DEF PageData, FrameState, Stored, Found, Picture, Pending, HasCopy, NoCopy, PictureOpen, Copy, Lid
  <2>4. QED
    BY <2>2, <2>3
<1>2. WritesApart'
  <2>1. WritesKept
    BY <1>f DEF WritesKept, WriteAt
  <2>2. QED
    BY <1>0, <1>f, <1>k, <1>t, <2>1, WritesApartKept DEF FrameState, HasCopy, NoCopy
<1>3. Transferred'
  <2>1. ASSUME NEW q \in Page, NEW l \in Lid, l < logCursor
        PROVE  /\ lid'[q] = l /\ q \notin dirty' =>
                    lid[q] = l /\ q \notin dirty /\ val'[q] = val[q]
               /\ wcopy'[q].lid = l /\ ~wcopy'[q].dirty =>
                    \/ /\ wcopy[q].lid = l /\ ~wcopy[q].dirty
                       /\ wcopy'[q].val = wcopy[q].val
                    \/ lid[q] = l /\ q \notin dirty /\ wcopy'[q].val = val[q]
    BY <1>0, <1>f, <1>t, <2>1 DEF Lid, FrameState, NoCopy
  <2>2. UNCHANGED logVal /\ written \subseteq written'
    BY <1>f
  <2>3. QED
    BY <1>0, <1>h, <2>1, <2>2, TransferredKept
<1>4. PictureOpen'
  BY <1>0, <1>f DEF PictureOpen
<1>5. QED
  BY <1>1, <1>2, <1>3, <1>4 DEF DataInv

(* A frame is stolen.                                                        *)
LEMMA AgeStealData ==
  ASSUME IndInv, FrameInv, DataInv, IndInv', ~halted, UNCHANGED halted,
         NEW p \in Page, AgeSteal(p)
  PROVE  DataInv'
<1> USE ConstantsAssumption
<1>f. /\ p \in cached \ fetching /\ p \notin dirty /\ lid[p] = 0
      /\ cached' = cached \ {p} /\ val' = [val EXCEPT ![p] = Zero]
      /\ UNCHANGED <<fetching, dirty, kro, lid, wcopy, dir, logCursor, queue>>
      /\ UNCHANGED <<ckptState, workingGen, served, logVal, written, snapshot, astray>>
  BY DEF AgeSteal, Stealable, cacheVars, ckptVars, diskVars, ghostVars
<1>0. /\ TypeOK /\ TypeOK' /\ FrameStates /\ WriteRequests /\ FrameState(p)
      /\ PagesHeld /\ PageData(p) /\ WritesApart /\ Transferred /\ PictureOpen
  BY DEF IndInv, FrameInv, DataInv, PagesHeld, FrameStates
<1>k. p \in kro => p \in dirty \/ lid[p] # 0
  BY DEF IndInv, KROFrames
<1>t. /\ lid \in [Page -> 0 .. MaxLid] /\ wcopy \in [Page -> Copy]
      /\ dir \in [Page -> DirEntry] /\ val \in [Page -> Value]
      /\ logCursor \in Nat /\ workingGen \in Nat \ {0}
      /\ dirty \subseteq cached /\ kro \subseteq cached /\ fetching \subseteq cached
  BY <1>0 DEF TypeOK
<1>h. served' => served /\ Head(queue') = Head(queue) /\ queue # <<>>
  BY <1>f DEF IndInv, ControlInv, ControlRequests
<1>1. PagesHeld'
  <2>1. SUFFICES ASSUME NEW q \in Page PROVE PageData(q)'
    BY DEF PagesHeld
  <2>2. CASE q # p
    <3>1. SamePage(q)
      BY <1>f, <1>t, <2>2 DEF SamePage
    <3>2. PageData(q) /\ logCursor' >= logCursor /\ written \subseteq written'
      BY <1>0, <1>f, <1>t DEF PagesHeld
    <3>3. QED
      BY <1>0, <1>f, <3>1, <3>2, OtherPage
  <2>3. PageData(p)'
    BY <1>0, <1>f, <1>k, <1>t DEF PageData, FrameState, Stored, Found, Picture, Pending, HasCopy, NoCopy, PictureOpen, Copy, Lid
  <2>4. QED
    BY <2>2, <2>3
<1>2. WritesApart'
  <2>1. WritesKept
    BY <1>f DEF WritesKept, WriteAt
  <2>2. QED
    BY <1>0, <1>f, <1>k, <1>t, <2>1, WritesApartKept DEF FrameState, HasCopy, NoCopy
<1>3. Transferred'
  <2>1. ASSUME NEW q \in Page, NEW l \in Lid, l < logCursor
        PROVE  /\ lid'[q] = l /\ q \notin dirty' =>
                    lid[q] = l /\ q \notin dirty /\ val'[q] = val[q]
               /\ wcopy'[q].lid = l /\ ~wcopy'[q].dirty =>
                    \/ /\ wcopy[q].lid = l /\ ~wcopy[q].dirty
                       /\ wcopy'[q].val = wcopy[q].val
                    \/ lid[q] = l /\ q \notin dirty /\ wcopy'[q].val = val[q]
    BY <1>0, <1>f, <1>t, <2>1 DEF Lid, FrameState, NoCopy
  <2>2. UNCHANGED logVal /\ written \subseteq written'
    BY <1>f
  <2>3. QED
    BY <1>0, <1>h, <2>1, <2>2, TransferredKept
<1>4. PictureOpen'
  BY <1>0, <1>f DEF PictureOpen
<1>5. QED
  BY <1>1, <1>2, <1>3, <1>4 DEF DataInv

(* A zero page is made.                                                      *)
LEMMA GetZeroData ==
  ASSUME IndInv, FrameInv, DataInv, IndInv', ~halted, UNCHANGED halted,
         NEW p \in Page, GetObject(p),
         dir[p].gen # 0 /\ dir[p].loc = 0
  PROVE  DataInv'
<1> USE ConstantsAssumption
<1>f. /\ p \notin cached /\ cached' = cached \cup {p} /\ val' = [val EXCEPT ![p] = Zero]
      /\ dir[p].gen # 0 /\ dir[p].loc = 0
      /\ dirty' = dirty \cup {p} /\ UNCHANGED <<fetching, kro, lid, wcopy, dir, logCursor, queue>>
      /\ UNCHANGED <<ckptState, workingGen, served, logVal, written, snapshot, astray>>
  BY DEF GetObject, cacheVars, ckptVars, diskVars, ghostVars
<1>0. /\ TypeOK /\ TypeOK' /\ FrameStates /\ WriteRequests /\ FrameState(p)
      /\ PagesHeld /\ PageData(p) /\ WritesApart /\ Transferred /\ PictureOpen
  BY DEF IndInv, FrameInv, DataInv, PagesHeld, FrameStates
<1>k. p \in kro => p \in dirty \/ lid[p] # 0
  BY DEF IndInv, KROFrames
<1>t. /\ lid \in [Page -> 0 .. MaxLid] /\ wcopy \in [Page -> Copy]
      /\ dir \in [Page -> DirEntry] /\ val \in [Page -> Value]
      /\ logCursor \in Nat /\ workingGen \in Nat \ {0}
      /\ dirty \subseteq cached /\ kro \subseteq cached /\ fetching \subseteq cached
  BY <1>0 DEF TypeOK
<1>h. served' => served /\ Head(queue') = Head(queue) /\ queue # <<>>
  BY <1>f DEF IndInv, ControlInv, ControlRequests
<1>1. PagesHeld'
  <2>1. SUFFICES ASSUME NEW q \in Page PROVE PageData(q)'
    BY DEF PagesHeld
  <2>2. CASE q # p
    <3>1. SamePage(q)
      BY <1>f, <1>t, <2>2 DEF SamePage
    <3>2. PageData(q) /\ logCursor' >= logCursor /\ written \subseteq written'
      BY <1>0, <1>f, <1>t DEF PagesHeld
    <3>3. QED
      BY <1>0, <1>f, <3>1, <3>2, OtherPage
  <2>3. PageData(p)'
    BY <1>0, <1>f, <1>k, <1>t DEF PageData, FrameState, Stored, Found, Picture, Pending, HasCopy, NoCopy, PictureOpen, Copy, Lid
  <2>4. QED
    BY <2>2, <2>3
<1>2. WritesApart'
  <2>1. WritesKept
    BY <1>f DEF WritesKept, WriteAt
  <2>2. QED
    BY <1>0, <1>f, <1>k, <1>t, <2>1, WritesApartKept DEF FrameState, HasCopy, NoCopy
<1>3. Transferred'
  <2>1. ASSUME NEW q \in Page, NEW l \in Lid, l < logCursor
        PROVE  /\ lid'[q] = l /\ q \notin dirty' =>
                    lid[q] = l /\ q \notin dirty /\ val'[q] = val[q]
               /\ wcopy'[q].lid = l /\ ~wcopy'[q].dirty =>
                    \/ /\ wcopy[q].lid = l /\ ~wcopy[q].dirty
                       /\ wcopy'[q].val = wcopy[q].val
                    \/ lid[q] = l /\ q \notin dirty /\ wcopy'[q].val = val[q]
    BY <1>0, <1>f, <1>t, <2>1 DEF Lid, FrameState, NoCopy
  <2>2. UNCHANGED logVal /\ written \subseteq written'
    BY <1>f
  <2>3. QED
    BY <1>0, <1>h, <2>1, <2>2, TransferredKept
<1>4. PictureOpen'
  BY <1>0, <1>f DEF PictureOpen
<1>5. QED
  BY <1>1, <1>2, <1>3, <1>4 DEF DataInv

(* Any other page is fetched.                                                *)
LEMMA GetReadData ==
  ASSUME IndInv, FrameInv, DataInv, IndInv', ~halted, UNCHANGED halted,
         NEW p \in Page, GetObject(p),
         ~(dir[p].gen # 0 /\ dir[p].loc = 0)
  PROVE  DataInv'
<1> USE ConstantsAssumption
<1> DEFINE req == [op |-> "read", page |-> p, lid |-> Location(p)]
<1>f. /\ p \notin cached /\ cached' = cached \cup {p}
      /\ fetching' = fetching \cup {p} /\ Enqueue(req) /\ req \in Request
      /\ UNCHANGED <<val, dirty, kro, lid, wcopy, dir, logCursor>>
      /\ UNCHANGED <<ckptState, workingGen, served, logVal, written, snapshot, astray>>
  <2>1. Location(p) \in 0 .. MaxLid
    BY DEF IndInv, TypeOK, Location, DirEntry
  <2>2. QED
    BY <2>1, RequestKinds DEF GetObject, cacheVars, ckptVars, diskVars, ghostVars
<1>0. /\ TypeOK /\ TypeOK' /\ FrameStates /\ WriteRequests /\ FrameState(p)
      /\ PagesHeld /\ PageData(p) /\ WritesApart /\ Transferred /\ PictureOpen
  BY DEF IndInv, FrameInv, DataInv, PagesHeld, FrameStates
<1>k. p \in kro => p \in dirty \/ lid[p] # 0
  BY DEF IndInv, KROFrames
<1>t. /\ lid \in [Page -> 0 .. MaxLid] /\ wcopy \in [Page -> Copy]
      /\ dir \in [Page -> DirEntry] /\ val \in [Page -> Value]
      /\ logCursor \in Nat /\ workingGen \in Nat \ {0}
      /\ dirty \subseteq cached /\ kro \subseteq cached /\ fetching \subseteq cached
  BY <1>0 DEF TypeOK
<1>e. /\ Len(queue) \in Nat /\ Len(queue') = Len(queue) + 1
      /\ \A i \in 1 .. Len(queue) : queue'[i] = queue[i]
      /\ queue'[Len(queue) + 1] = req
      /\ req.op = "read"
  BY <1>0, <1>f, EnqueueFacts
<1>h. served' => served /\ Head(queue') = Head(queue) /\ queue # <<>>
  BY <1>f, HeadKept
<1> HIDE DEF req
<1>1. PagesHeld'
  <2>1. SUFFICES ASSUME NEW q \in Page PROVE PageData(q)'
    BY DEF PagesHeld
  <2>2. CASE q # p
    <3>1. SamePage(q)
      BY <1>f, <1>t, <2>2 DEF SamePage
    <3>2. PageData(q) /\ logCursor' >= logCursor /\ written \subseteq written'
      BY <1>0, <1>f, <1>t DEF PagesHeld
    <3>3. QED
      BY <1>0, <1>f, <3>1, <3>2, OtherPage
  <2>3. PageData(p)'
    BY <1>0, <1>f, <1>k, <1>t DEF PageData, FrameState, Stored, Found, Picture, Pending, HasCopy, NoCopy, PictureOpen, Copy, Lid
  <2>4. QED
    BY <2>2, <2>3
<1>2. WritesApart'
  <2>1. WritesKept
    BY <1>0, <1>e, <1>f, KeptAppend
  <2>2. QED
    BY <1>0, <1>f, <1>t, <2>1, WritesApartKept DEF HasCopy
<1>3. Transferred'
  <2>1. ASSUME NEW q \in Page, NEW l \in Lid, l < logCursor
        PROVE  /\ lid'[q] = l /\ q \notin dirty' =>
                    lid[q] = l /\ q \notin dirty /\ val'[q] = val[q]
               /\ wcopy'[q].lid = l /\ ~wcopy'[q].dirty =>
                    \/ /\ wcopy[q].lid = l /\ ~wcopy[q].dirty
                       /\ wcopy'[q].val = wcopy[q].val
                    \/ lid[q] = l /\ q \notin dirty /\ wcopy'[q].val = val[q]
    BY <1>0, <1>f, <1>t, <2>1 DEF Lid, FrameState, NoCopy
  <2>2. UNCHANGED logVal /\ written \subseteq written'
    BY <1>f
  <2>3. QED
    BY <1>0, <1>h, <2>1, <2>2, TransferredKept
<1>4. PictureOpen'
  BY <1>0, <1>f DEF PictureOpen
<1>5. QED
  BY <1>1, <1>2, <1>3, <1>4 DEF DataInv

(* A page of zeros is cleaned.                                               *)
LEMMA CleanZeroData ==
  ASSUME IndInv, FrameInv, DataInv, IndInv', ~halted, UNCHANGED halted,
         NEW p \in Page, pageH_Clean(p), val[p] = Zero,
         ckptIsActive => p \in kro
  PROVE  DataInv'
<1> USE ConstantsAssumption
<1>f. /\ p \in dirty \ fetching /\ lid[p] = 0 /\ (ckptState # 0 => p \in kro)
      /\ val[p] = Zero /\ dirty' = dirty \ {p} /\ kro' = kro \ {p}
      /\ dir' = [dir EXCEPT ![p] = [gen |-> workingGen, loc |-> 0]]
      /\ UNCHANGED <<cached, fetching, val, lid, wcopy, logCursor, queue>>
      /\ UNCHANGED <<ckptState, workingGen, served, logVal, written, snapshot, astray>>
  BY DEF pageH_Clean, Record, ckptIsActive, cacheVars, ckptVars, diskVars, ghostVars
<1>0. /\ TypeOK /\ TypeOK' /\ FrameStates /\ WriteRequests /\ FrameState(p)
      /\ PagesHeld /\ PageData(p) /\ WritesApart /\ Transferred /\ PictureOpen
  BY DEF IndInv, FrameInv, DataInv, PagesHeld, FrameStates
<1>k. p \in kro => p \in dirty \/ lid[p] # 0
  BY DEF IndInv, KROFrames
<1>t. /\ lid \in [Page -> 0 .. MaxLid] /\ wcopy \in [Page -> Copy]
      /\ dir \in [Page -> DirEntry] /\ val \in [Page -> Value]
      /\ logCursor \in Nat /\ workingGen \in Nat \ {0}
      /\ dirty \subseteq cached /\ kro \subseteq cached /\ fetching \subseteq cached
  BY <1>0 DEF TypeOK
<1>h. served' => served /\ Head(queue') = Head(queue) /\ queue # <<>>
  BY <1>f DEF IndInv, ControlInv, ControlRequests
<1>1. PagesHeld'
  <2>1. SUFFICES ASSUME NEW q \in Page PROVE PageData(q)'
    BY DEF PagesHeld
  <2>2. CASE q # p
    <3>1. SamePage(q)
      BY <1>f, <1>t, <2>2 DEF SamePage
    <3>2. PageData(q) /\ logCursor' >= logCursor /\ written \subseteq written'
      BY <1>0, <1>f, <1>t DEF PagesHeld
    <3>3. QED
      BY <1>0, <1>f, <3>1, <3>2, OtherPage
  <2>3. PageData(p)'
    BY <1>0, <1>f, <1>k, <1>t DEF PageData, FrameState, Stored, Found, Picture, Pending, HasCopy, NoCopy, PictureOpen, Copy, Lid
  <2>4. QED
    BY <2>2, <2>3
<1>2. WritesApart'
  <2>1. WritesKept
    BY <1>f DEF WritesKept, WriteAt
  <2>2. QED
    BY <1>0, <1>f, <1>k, <1>t, <2>1, WritesApartKept DEF FrameState, HasCopy, NoCopy
<1>3. Transferred'
  <2>1. ASSUME NEW q \in Page, NEW l \in Lid, l < logCursor
        PROVE  /\ lid'[q] = l /\ q \notin dirty' =>
                    lid[q] = l /\ q \notin dirty /\ val'[q] = val[q]
               /\ wcopy'[q].lid = l /\ ~wcopy'[q].dirty =>
                    \/ /\ wcopy[q].lid = l /\ ~wcopy[q].dirty
                       /\ wcopy'[q].val = wcopy[q].val
                    \/ lid[q] = l /\ q \notin dirty /\ wcopy'[q].val = val[q]
    BY <1>0, <1>f, <1>t, <2>1 DEF Lid, FrameState, NoCopy
  <2>2. UNCHANGED logVal /\ written \subseteq written'
    BY <1>f
  <2>3. QED
    BY <1>0, <1>h, <2>1, <2>2, TransferredKept
<1>4. PictureOpen'
  BY <1>0, <1>f DEF PictureOpen
<1>5. QED
  BY <1>1, <1>2, <1>3, <1>4 DEF DataInv

(* Any other page is cleaned.                                                *)
LEMMA CleanWriteData ==
  ASSUME IndInv, FrameInv, DataInv, IndInv', ~halted, UNCHANGED halted,
         NEW p \in Page, pageH_Clean(p), val[p] # Zero,
         ckptIsActive => p \in kro
  PROVE  DataInv'
<1> USE ConstantsAssumption
<1> DEFINE req == [op |-> "write", page |-> p, lid |-> logCursor]
<1>f. /\ p \in dirty \ fetching /\ lid[p] = 0 /\ (ckptState # 0 => p \in kro)
      /\ dirty' = dirty \ {p} /\ logCursor \in Lid
      /\ dir' = IF p \in kro
                  THEN [dir EXCEPT ![p] = [gen |-> workingGen, loc |-> logCursor]]
                  ELSE dir
      /\ lid' = [lid EXCEPT ![p] = logCursor] /\ logCursor' = logCursor + 1
      /\ Enqueue(req) /\ req \in Request
      /\ UNCHANGED <<cached, fetching, val, kro, wcopy>>
      /\ UNCHANGED <<ckptState, workingGen, served, logVal, written, snapshot, astray>>
  <2>1. logCursor \in Lid
    BY DEF IndInv, TypeOK, pageH_Clean, Lid
  <2>2. QED
    BY <2>1, RequestKinds DEF pageH_Clean, Record, ckptIsActive, cacheVars, ckptVars, diskVars, ghostVars
<1>0. /\ TypeOK /\ TypeOK' /\ FrameStates /\ WriteRequests /\ FrameState(p)
      /\ PagesHeld /\ PageData(p) /\ WritesApart /\ Transferred /\ PictureOpen
  BY DEF IndInv, FrameInv, DataInv, PagesHeld, FrameStates
<1>k. p \in kro => p \in dirty \/ lid[p] # 0
  BY DEF IndInv, KROFrames
<1>t. /\ lid \in [Page -> 0 .. MaxLid] /\ wcopy \in [Page -> Copy]
      /\ dir \in [Page -> DirEntry] /\ val \in [Page -> Value]
      /\ logCursor \in Nat /\ workingGen \in Nat \ {0}
      /\ dirty \subseteq cached /\ kro \subseteq cached /\ fetching \subseteq cached
  BY <1>0, SMTT(30) DEF TypeOK
<1>e. /\ Len(queue) \in Nat /\ Len(queue') = Len(queue) + 1
      /\ \A i \in 1 .. Len(queue) : queue'[i] = queue[i]
      /\ queue'[Len(queue) + 1] = req
      /\ req.op = "write" /\ req.page = p /\ req.lid = logCursor
  BY <1>0, <1>f, EnqueueFacts
<1>h. served' => served /\ Head(queue') = Head(queue) /\ queue # <<>>
  BY <1>f, HeadKept
<1> HIDE DEF req
<1>m. \A q \in Page : HasCopy(q)' <=> HasCopy(q)
  BY <1>f DEF HasCopy
<1>1. PagesHeld'
  <2>1. SUFFICES ASSUME NEW q \in Page PROVE PageData(q)'
    BY DEF PagesHeld
  <2>2. CASE q # p
    <3>1. SamePage(q)
      BY <1>f, <1>t, <2>2 DEF SamePage
    <3>2. PageData(q) /\ logCursor' >= logCursor /\ written \subseteq written'
      BY <1>0, <1>f, <1>t DEF PagesHeld
    <3>3. QED
      BY <1>0, <1>f, <3>1, <3>2, OtherPage
  <2>3. PageData(p)'
    <3>1. CASE p \in kro
      <4>1. /\ dir'[p].gen = workingGen /\ dir'[p].loc = logCursor
            /\ lid'[p] = logCursor /\ p \in kro' /\ wcopy'[p] = wcopy[p]
            /\ val'[p] = val[p] /\ logCursor # 0
        BY <1>f, <1>t, <3>1 DEF Lid
      <4>2. Pending(p)' /\ Picture(p)' = Picture(p)
        BY <3>1, <4>1 DEF Pending, Picture, HasCopy
      <4>3. QED
        BY <1>0, <1>f, <1>t, <4>1, <4>2 DEF PageData
    <3>2. CASE p \notin kro
      <4>1. ckptState = 0 /\ ~Pending(p)
        BY <1>0, <1>f, <3>2 DEF FrameState, Pending
      <4>2. lid'[p] # 0 /\ dir' = dir
        BY <1>f, <1>t, <3>2 DEF Lid
      <4>3. QED
        BY <1>0, <1>f, <1>t, <4>1, <4>2 DEF PageData, DirEntry
    <3>3. QED
      BY <3>1, <3>2
  <2>4. QED
    BY <2>2, <2>3
<1>2. WritesApart'
  <2>1. SUFFICES ASSUME NEW i \in 1 .. Len(queue'), NEW q \in Page, WriteAt(i)',
                        dir'[q].loc = queue'[i].lid
                 PROVE  q = queue'[i].page /\ (q \in kro' \/ HasCopy(q)')
    BY DEF WritesApart
  <2>2. dir[q].loc < logCursor \/ dir[q].loc = 0
    BY <1>0 DEF PagesHeld, PageData
  <2>3. CASE i \in 1 .. Len(queue)
    <3>1. WriteAt(i) /\ queue'[i] = queue[i]
      BY <1>e, <2>1, <2>3 DEF WriteAt
    <3>2. queue[i].lid < logCursor /\ queue[i].lid \in Nat
      <4>1. queue[i].lid \in Lid
        BY <1>0, <3>1, WriteFields
      <4>2. QED
        BY <1>0, <2>3, <3>1, <4>1 DEF WriteRequests, Lid
    <3>3. dir'[q].loc = dir[q].loc
      BY <1>f, <1>t, <2>1, <3>1, <3>2
    <3>4. q = queue[i].page /\ (q \in kro \/ HasCopy(q))
      BY <1>0, <2>1, <2>3, <3>1, <3>3 DEF WritesApart
    <3>5. QED
      BY <1>f, <1>m, <3>1, <3>4
  <2>4. CASE i = Len(queue) + 1
    <3>1. dir'[q].loc = logCursor /\ queue'[i].page = p
      BY <1>e, <2>1, <2>4
    <3>2. q = p /\ (p \in kro' \/ HasCopy(p)')
      BY <1>f, <1>m, <1>t, <2>2, <3>1 DEF DirEntry, Lid
    <3>3. QED
      BY <3>1, <3>2
  <2>5. QED
    BY <1>e, <2>3, <2>4
<1>3. Transferred'
  <2>1. ASSUME NEW q \in Page, NEW l \in Lid, l < logCursor
        PROVE  /\ lid'[q] = l /\ q \notin dirty' =>
                    lid[q] = l /\ q \notin dirty /\ val'[q] = val[q]
               /\ wcopy'[q].lid = l /\ ~wcopy'[q].dirty =>
                    \/ /\ wcopy[q].lid = l /\ ~wcopy[q].dirty
                       /\ wcopy'[q].val = wcopy[q].val
                    \/ lid[q] = l /\ q \notin dirty /\ wcopy'[q].val = val[q]
    BY <1>0, <1>f, <1>t, <2>1 DEF Lid, FrameState, NoCopy
  <2>2. UNCHANGED logVal /\ written \subseteq written'
    BY <1>f
  <2>3. QED
    BY <1>0, <1>h, <2>1, <2>2, TransferredKept
<1>4. PictureOpen'
  BY <1>0, <1>f DEF PictureOpen
<1>5. QED
  BY <1>1, <1>2, <1>3, <1>4 DEF DataInv

(* A working copy of zeros is cleaned.                                       *)
LEMMA CleanCopyZeroData ==
  ASSUME IndInv, FrameInv, DataInv, IndInv', ~halted, UNCHANGED halted,
         NEW p \in Page, CleanCopy(p),
         wcopy[p].val = Zero
  PROVE  DataInv'
<1> USE ConstantsAssumption
<1>f. /\ wcopy[p].dirty /\ wcopy[p].lid = 0 /\ wcopy[p].val = Zero
      /\ dir' = [dir EXCEPT ![p] = [gen |-> workingGen, loc |-> 0]]
      /\ wcopy' = [wcopy EXCEPT ![p] = NoCopy]
      /\ UNCHANGED <<cached, fetching, val, dirty, kro, lid, logCursor, queue>>
      /\ UNCHANGED <<ckptState, workingGen, served, logVal, written, snapshot, astray>>
      /\ p \in dirty \ kro /\ p \notin fetching /\ lid[p] = 0 /\ HasCopy(p)
  BY CopyStates DEF CleanCopy, Record, FrameInv, cacheVars, ckptVars, diskVars, ghostVars
<1>0. /\ TypeOK /\ TypeOK' /\ FrameStates /\ WriteRequests /\ FrameState(p)
      /\ PagesHeld /\ PageData(p) /\ WritesApart /\ Transferred /\ PictureOpen
  BY DEF IndInv, FrameInv, DataInv, PagesHeld, FrameStates
<1>k. p \in kro => p \in dirty \/ lid[p] # 0
  BY DEF IndInv, KROFrames
<1>t. /\ lid \in [Page -> 0 .. MaxLid] /\ wcopy \in [Page -> Copy]
      /\ dir \in [Page -> DirEntry] /\ val \in [Page -> Value]
      /\ logCursor \in Nat /\ workingGen \in Nat \ {0}
      /\ dirty \subseteq cached /\ kro \subseteq cached /\ fetching \subseteq cached
  BY <1>0 DEF TypeOK
<1>h. served' => served /\ Head(queue') = Head(queue) /\ queue # <<>>
  BY <1>f DEF IndInv, ControlInv, ControlRequests
<1>1. PagesHeld'
  <2>1. SUFFICES ASSUME NEW q \in Page PROVE PageData(q)'
    BY DEF PagesHeld
  <2>2. CASE q # p
    <3>1. SamePage(q)
      BY <1>f, <1>t, <2>2 DEF SamePage
    <3>2. PageData(q) /\ logCursor' >= logCursor /\ written \subseteq written'
      BY <1>0, <1>f, <1>t DEF PagesHeld
    <3>3. QED
      BY <1>0, <1>f, <3>1, <3>2, OtherPage
  <2>3. PageData(p)'
    BY <1>0, <1>f, <1>k, <1>t DEF PageData, FrameState, Stored, Found, Picture, Pending, HasCopy, NoCopy, PictureOpen, Copy, Lid
  <2>4. QED
    BY <2>2, <2>3
<1>2. WritesApart'
  <2>1. WritesKept
    BY <1>f DEF WritesKept, WriteAt
  <2>2. QED
    BY <1>0, <1>f, <1>k, <1>t, <2>1, WritesApartKept DEF FrameState, HasCopy, NoCopy
<1>3. Transferred'
  <2>1. ASSUME NEW q \in Page, NEW l \in Lid, l < logCursor
        PROVE  /\ lid'[q] = l /\ q \notin dirty' =>
                    lid[q] = l /\ q \notin dirty /\ val'[q] = val[q]
               /\ wcopy'[q].lid = l /\ ~wcopy'[q].dirty =>
                    \/ /\ wcopy[q].lid = l /\ ~wcopy[q].dirty
                       /\ wcopy'[q].val = wcopy[q].val
                    \/ lid[q] = l /\ q \notin dirty /\ wcopy'[q].val = val[q]
    BY <1>0, <1>f, <1>t, <2>1 DEF Lid, FrameState, NoCopy
  <2>2. UNCHANGED logVal /\ written \subseteq written'
    BY <1>f
  <2>3. QED
    BY <1>0, <1>h, <2>1, <2>2, TransferredKept
<1>4. PictureOpen'
  BY <1>0, <1>f DEF PictureOpen
<1>5. QED
  BY <1>1, <1>2, <1>3, <1>4 DEF DataInv

(* Any other working copy is cleaned.                                        *)
LEMMA CleanCopyWriteData ==
  ASSUME IndInv, FrameInv, DataInv, IndInv', ~halted, UNCHANGED halted,
         NEW p \in Page, CleanCopy(p),
         wcopy[p].val # Zero
  PROVE  DataInv'
<1> USE ConstantsAssumption
<1> DEFINE req == [op |-> "write", page |-> p, lid |-> logCursor]
<1>f. /\ wcopy[p].dirty /\ wcopy[p].lid = 0 /\ logCursor \in Lid
      /\ dir' = [dir EXCEPT ![p] = [gen |-> workingGen, loc |-> logCursor]]
      /\ wcopy' = [wcopy EXCEPT ![p] = [val |-> wcopy[p].val, dirty |-> FALSE,
                                        lid |-> logCursor]]
      /\ logCursor' = logCursor + 1
      /\ Enqueue(req) /\ req \in Request
      /\ UNCHANGED <<cached, fetching, val, dirty, kro, lid>>
      /\ UNCHANGED <<ckptState, workingGen, served, logVal, written, snapshot, astray>>
      /\ p \in dirty \ kro /\ p \notin fetching /\ lid[p] = 0 /\ HasCopy(p)
  <2>1. logCursor \in Lid
    BY DEF IndInv, TypeOK, CleanCopy, Lid
  <2>2. QED
    BY <2>1, RequestKinds, CopyStates DEF CleanCopy, Record, FrameInv, cacheVars, ckptVars, diskVars, ghostVars
<1>0. /\ TypeOK /\ TypeOK' /\ FrameStates /\ WriteRequests /\ FrameState(p)
      /\ PagesHeld /\ PageData(p) /\ WritesApart /\ Transferred /\ PictureOpen
  BY DEF IndInv, FrameInv, DataInv, PagesHeld, FrameStates
<1>k. p \in kro => p \in dirty \/ lid[p] # 0
  BY DEF IndInv, KROFrames
<1>t. /\ lid \in [Page -> 0 .. MaxLid] /\ wcopy \in [Page -> Copy]
      /\ dir \in [Page -> DirEntry] /\ val \in [Page -> Value]
      /\ logCursor \in Nat /\ workingGen \in Nat \ {0}
      /\ dirty \subseteq cached /\ kro \subseteq cached /\ fetching \subseteq cached
  BY <1>0 DEF TypeOK
<1>e. /\ Len(queue) \in Nat /\ Len(queue') = Len(queue) + 1
      /\ \A i \in 1 .. Len(queue) : queue'[i] = queue[i]
      /\ queue'[Len(queue) + 1] = req
      /\ req.op = "write" /\ req.page = p /\ req.lid = logCursor
  BY <1>0, <1>f, EnqueueFacts
<1>h. served' => served /\ Head(queue') = Head(queue) /\ queue # <<>>
  BY <1>f, HeadKept
<1> HIDE DEF req
<1>m. \A q \in Page : HasCopy(q)' <=> HasCopy(q)
  <2>1. HasCopy(p)'
    BY <1>f, <1>t DEF HasCopy, NoCopy, Lid
  <2>2. \A q \in Page : q # p => (HasCopy(q)' <=> HasCopy(q))
    BY <1>f, <1>t DEF HasCopy
  <2>3. QED
    BY <1>f, <2>1, <2>2
<1>1. PagesHeld'
  <2>1. SUFFICES ASSUME NEW q \in Page PROVE PageData(q)'
    BY DEF PagesHeld
  <2>2. CASE q # p
    <3>1. SamePage(q)
      BY <1>f, <1>t, <2>2 DEF SamePage
    <3>2. PageData(q) /\ logCursor' >= logCursor /\ written \subseteq written'
      BY <1>0, <1>f, <1>t DEF PagesHeld
    <3>3. QED
      BY <1>0, <1>f, <3>1, <3>2, OtherPage
  <2>3. PageData(p)'
    BY <1>0, <1>f, <1>k, <1>t DEF PageData, FrameState, Stored, Found, Picture, Pending, HasCopy, NoCopy, PictureOpen, Copy, Lid
  <2>4. QED
    BY <2>2, <2>3
<1>2. WritesApart'
  <2>1. SUFFICES ASSUME NEW i \in 1 .. Len(queue'), NEW q \in Page, WriteAt(i)',
                        dir'[q].loc = queue'[i].lid
                 PROVE  q = queue'[i].page /\ (q \in kro' \/ HasCopy(q)')
    BY DEF WritesApart
  <2>2. dir[q].loc < logCursor \/ dir[q].loc = 0
    BY <1>0 DEF PagesHeld, PageData
  <2>3. CASE i \in 1 .. Len(queue)
    <3>1. WriteAt(i) /\ queue'[i] = queue[i]
      BY <1>e, <2>1, <2>3 DEF WriteAt
    <3>2. queue[i].lid < logCursor /\ queue[i].lid \in Nat
      <4>1. queue[i].lid \in Lid
        BY <1>0, <3>1, WriteFields
      <4>2. QED
        BY <1>0, <2>3, <3>1, <4>1 DEF WriteRequests, Lid
    <3>3. dir'[q].loc = dir[q].loc
      BY <1>f, <1>t, <2>1, <3>1, <3>2
    <3>4. q = queue[i].page /\ (q \in kro \/ HasCopy(q))
      BY <1>0, <2>1, <2>3, <3>1, <3>3 DEF WritesApart
    <3>5. QED
      BY <1>f, <1>m, <3>1, <3>4
  <2>4. CASE i = Len(queue) + 1
    <3>1. dir'[q].loc = logCursor /\ queue'[i].page = p
      BY <1>e, <2>1, <2>4
    <3>2. q = p /\ (p \in kro' \/ HasCopy(p)')
      BY <1>f, <1>m, <1>t, <2>2, <3>1 DEF DirEntry, Lid
    <3>3. QED
      BY <3>1, <3>2
  <2>5. QED
    BY <1>e, <2>3, <2>4
<1>3. Transferred'
  <2>1. ASSUME NEW q \in Page, NEW l \in Lid, l < logCursor
        PROVE  /\ lid'[q] = l /\ q \notin dirty' =>
                    lid[q] = l /\ q \notin dirty /\ val'[q] = val[q]
               /\ wcopy'[q].lid = l /\ ~wcopy'[q].dirty =>
                    \/ /\ wcopy[q].lid = l /\ ~wcopy[q].dirty
                       /\ wcopy'[q].val = wcopy[q].val
                    \/ lid[q] = l /\ q \notin dirty /\ wcopy'[q].val = val[q]
    BY <1>0, <1>f, <1>t, <2>1 DEF Lid, FrameState, NoCopy
  <2>2. UNCHANGED logVal /\ written \subseteq written'
    BY <1>f
  <2>3. QED
    BY <1>0, <1>h, <2>1, <2>2, TransferredKept
<1>4. PictureOpen'
  BY <1>0, <1>f DEF PictureOpen
<1>5. QED
  BY <1>1, <1>2, <1>3, <1>4 DEF DataInv

(* Steps of the checkpoint thread and of the disk that leave the pages and   *)
(* the directory alone.                                                      *)
LEMMA QuietData ==
  ASSUME TypeOK, TypeOK', WriteRequests, DataInv, WritesKept,
         UNCHANGED <<cacheVars, dir, logVal>>, written \subseteq written',
         logCursor' >= logCursor,
         served' => served /\ Head(queue') = Head(queue) /\ queue # <<>>,
         ckptState' \in 2 .. 5 =>
           ckptState \in 2 .. 5 /\ snapshot' = snapshot /\ astray' = astray,
         ckptState' \notin 2 .. 5 => snapshot' = NoPicture
  PROVE  DataInv'
<1>1. PagesHeld'
  <2>1. \A q \in Page : SamePage(q) /\ PageData(q)
    BY DEF SamePage, cacheVars, DataInv, PagesHeld
  <2>2. QED
    BY <2>1, OtherPage DEF PagesHeld
<1>2. WritesApart'
  BY WritesApartKept DEF DataInv, cacheVars, HasCopy
<1>3. Transferred'
  BY TransferredKept DEF DataInv, cacheVars
<1>4. PictureOpen'
  BY DEF PictureOpen
<1>5. QED
  BY <1>1, <1>2, <1>3, <1>4 DEF DataInv

(* A checkpoint is declared, or a phase of it ends.                          *)
LEMMA PhaseData ==
  ASSUME IndInv, FrameInv, DataInv, IndInv',
         \/ DeclareDemarcationEvent \/ DoPhase2Work \/ DoPhase5Work
         \/ UNCHANGED vars
  PROVE  DataInv'
<1>1. TypeOK /\ TypeOK' /\ WriteRequests /\ PictureOpen
  BY DEF IndInv, FrameInv, DataInv
<1>2. /\ UNCHANGED <<cacheVars, dir, logVal, written, logCursor, queue, served>>
      /\ ckptState' \in 2 .. 5 =>
           ckptState \in 2 .. 5 /\ snapshot' = snapshot /\ astray' = astray
      /\ ckptState' \notin 2 .. 5 => snapshot' = NoPicture
  BY <1>1 DEF DeclareDemarcationEvent, DoPhase2Work, DoPhase5Work, PictureOpen,
     ckptIsActive, vars, ckptVars, diskVars, ghostVars
<1>3. WritesKept /\ logCursor' >= logCursor
  BY <1>1, <1>2 DEF WritesKept, WriteAt, TypeOK
<1>4. served => queue # <<>>
  BY DEF IndInv, ControlInv, ControlRequests
<1>5. QED
  BY <1>1, <1>2, <1>3, <1>4, QuietData

(* The checkpoint thread queues a request of its own.                        *)
LEMMA RequestData ==
  ASSUME IndInv, FrameInv, DataInv, IndInv',
         DoPhase3Work \/ DoSync \/ DoPhase4Work
  PROVE  DataInv'
<1>1. TypeOK /\ TypeOK' /\ WriteRequests /\ PictureOpen
  BY DEF IndInv, FrameInv, DataInv
<1>2. PICK req \in Request : Enqueue(req) /\ req.op # "write"
  <2>1. DoPhase3Work => logCursor \in Lid
    BY <1>1 DEF DoPhase3Work, TypeOK, Lid
  <2>2. QED
    BY <2>1, RequestKinds DEF DoPhase3Work, DoSync, DoPhase4Work
<1>3. /\ UNCHANGED <<cacheVars, dir, logVal, written, served, snapshot, astray>>
      /\ logCursor' = logCursor \/ logCursor' = logCursor + 1
      /\ ckptState \in 2 .. 5 /\ ckptState' \in 2 .. 5
  BY DEF DoPhase3Work, DoSync, DoPhase4Work, diskVars, ghostVars
<1>4. logCursor' >= logCursor
  BY <1>1, <1>3 DEF TypeOK
<1>5. served' => served /\ Head(queue') = Head(queue) /\ queue # <<>>
  BY <1>2, <1>3, HeadKept
<1>6. WritesKept
  BY <1>1, <1>2, KeptAppend
<1>7. QED
  BY <1>1, <1>3, <1>4, <1>5, <1>6, QuietData

(* A request of the checkpoint thread is done, or the kernel stops.          *)
LEMMA DoneData ==
  ASSUME IndInv, FrameInv, DataInv, IndInv',
         \/ IOReq_EndGenHdrWrite \/ IOReq_EndCkptRootWrite \/ IOReq_EndSync
         \/ EndPageCleanAsserts
  PROVE  DataInv'
<1>1. TypeOK /\ TypeOK' /\ WriteRequests /\ PictureOpen
  BY DEF IndInv, FrameInv, DataInv
<1>2. PICK op : Completed(op)
  BY DEF IOReq_EndGenHdrWrite, IOReq_EndCkptRootWrite, IOReq_EndSync,
     EndPageCleanAsserts
<1>3. UNCHANGED <<cacheVars, dir, logVal, written, logCursor, snapshot, astray, ckptState>>
  BY DEF IOReq_EndGenHdrWrite, IOReq_EndCkptRootWrite, IOReq_EndSync,
     EndPageCleanAsserts, diskVars, ghostVars, ckptVars
<1>4. WritesKept /\ served' = FALSE
  BY <1>1, <1>2, KeptTail, Dequeue
<1>5. logCursor' >= logCursor
  BY <1>1, <1>3 DEF TypeOK
<1>6. QED
  BY <1>1, <1>3, <1>4, <1>5, QuietData DEF PictureOpen

(* The moment of demarcation: what the processes see becomes the picture.    *)
LEMMA Phase1Data ==
  ASSUME IndInv, FrameInv, DataInv, IndInv', ~halted, DoPhase1Work
  PROVE  DataInv'
<1>f. /\ ckptState = 1 /\ ckptState' = 2
      /\ kro' = {p \in cached : p \in dirty \/ (p \in cached \ fetching /\ lid[p] # 0)}
      /\ dir' = [p \in Page |->
                   IF p \in cached \ dirty /\ p \in cached \ fetching /\ lid[p] # 0
                     THEN [gen |-> workingGen, loc |-> lid[p]] ELSE dir[p]]
      /\ snapshot' = Current
      /\ UNCHANGED <<cached, fetching, val, dirty, lid, wcopy, workingGen,
                     logCursor, queue, served, logVal, written>>
  BY DEF DoPhase1Work, CheckpointPage, diskVars
<1>0. /\ TypeOK /\ FrameStates /\ WriteRequests
      /\ PagesHeld /\ WritesApart /\ Transferred
  BY DEF IndInv, FrameInv, DataInv
<1>t. /\ lid \in [Page -> 0 .. MaxLid] /\ dir \in [Page -> DirEntry]
      /\ logCursor \in Nat /\ workingGen \in Nat \ {0} /\ dirty \subseteq cached
  BY <1>0, ConstantsAssumption DEF TypeOK
<1>n. \A q \in Page : ~HasCopy(q) /\ ~HasCopy(q)' /\ q \notin kro
  <2>1. ckptState \notin 2 .. 5 /\ wcopy' = wcopy
    BY <1>f
  <2>2. \A q \in Page : ~HasCopy(q) /\ q \notin kro
    BY <1>0, <2>1 DEF FrameStates, FrameState
  <2>3. QED
    BY <2>1, <2>2 DEF HasCopy
<1>l. \A q \in Page : lid[q] # 0 => lid[q] < logCursor /\ lid[q] \in Lid
                                    /\ WriteIn(queue, q, lid[q])
  <2>1. SUFFICES ASSUME NEW q \in Page, lid[q] # 0
                 PROVE  lid[q] < logCursor /\ WriteIn(queue, q, lid[q])
    BY <1>t, ConstantsAssumption DEF Lid
  <2>2. WriteIn(queue, q, lid[q])
    BY <1>0, <2>1 DEF WriteRequests
  <2>3. PICK i \in 1 .. Len(queue) :
          queue[i] = [op |-> "write", page |-> q, lid |-> lid[q]]
    BY <2>2 DEF WriteIn
  <2>4. WriteAt(i) /\ queue[i].lid = lid[q]
    BY <2>3 DEF WriteAt
  <2>5. QED
    BY <1>0, <2>2, <2>4 DEF WriteRequests
<1>1. PagesHeld'
  <2>1. SUFFICES ASSUME NEW q \in Page PROVE PageData(q)'
    BY DEF PagesHeld
  <2>2. PageData(q) /\ FrameState(q)
    BY <1>0 DEF PagesHeld, FrameStates
  <2>3. snapshot'[q] = IF q \in cached \ fetching THEN val[q] ELSE Stored(q)
    BY <1>f DEF Current
  <2>4. CASE q \in kro' /\ q \notin dirty
    <3>1. /\ lid[q] # 0 /\ q \in cached \ fetching
          /\ dir'[q].gen = workingGen /\ dir'[q].loc = lid[q]
      BY <1>f, <1>t, <2>4
    <3>2. Pending(q)' /\ Picture(q)' = val[q]
      BY <1>f, <1>n, <2>4, <3>1 DEF Pending, Picture
    <3>3. lid[q] < logCursor
      BY <1>l, <3>1
    <3>4. QED
      BY <1>f, <1>t, <2>3, <3>1, <3>2, <3>3 DEF PageData
  <2>5. CASE q \notin kro' \/ q \in dirty
    <3>1. dir'[q] = dir[q] /\ Stored(q)' = Stored(q)
      BY <1>f, <2>5 DEF Stored, Found
    <3>2. ~Pending(q)
      BY <1>n DEF Pending
    <3>3. Picture(q)' = IF q \in kro' THEN val[q] ELSE Stored(q)
      BY <1>f, <1>n, <3>1 DEF Picture
    <3>4. snapshot'[q] = Picture(q)'
      BY <1>f, <1>t, <2>2, <2>3, <3>3 DEF PageData, FrameState
    <3>5. QED
      BY <1>f, <2>2, <3>1, <3>2, <3>4 DEF PageData
  <2>6. QED
    BY <2>4, <2>5
<1>2. WritesApart'
  <2>1. SUFFICES ASSUME NEW i \in 1 .. Len(queue), NEW q \in Page, WriteAt(i),
                        dir'[q].loc = queue[i].lid
                 PROVE  q = queue[i].page /\ (q \in kro' \/ HasCopy(q)')
    BY <1>f DEF WritesApart, WriteAt
  <2>2. CASE dir'[q] = dir[q]
    BY <1>0, <1>n, <2>1, <2>2 DEF WritesApart
  <2>3. CASE dir'[q] # dir[q]
    <3>1. lid[q] # 0 /\ dir'[q].loc = lid[q] /\ q \in kro'
      BY <1>f, <1>t, <2>3
    <3>2. PICK j \in 1 .. Len(queue) :
            queue[j] = [op |-> "write", page |-> q, lid |-> lid[q]]
      BY <1>l, <3>1 DEF WriteIn
    <3>3. WriteAt(j) /\ queue[j].lid = queue[i].lid /\ queue[j].page = q
      BY <2>1, <3>1, <3>2 DEF WriteAt
    <3>4. i = j
      BY <1>0, <2>1, <3>3 DEF WriteRequests
    <3>5. QED
      BY <3>1, <3>3, <3>4
  <2>4. QED
    BY <2>2, <2>3
<1>3. Transferred'
  BY <1>0, <1>f DEF Transferred
<1>4. QED
  BY <1>1, <1>2, <1>3, <1>f DEF DataInv, PictureOpen

(* The device transfers the oldest request. When it writes a page to the     *)
(* log, that page's picture and current version are both still in core.      *)
LEMMA TransferData ==
  ASSUME IndInv, FrameInv, DataInv, IndInv', Transfer
  PROVE  DataInv'
<1> DEFINE req == Head(queue)
<1>f. /\ queue # <<>> /\ served'
      /\ logVal' = IF req.op = "write"
                     THEN [logVal EXCEPT ![req.lid] = WriteData(req)] ELSE logVal
      /\ written' = IF req.op \in {"write", "hdr"}
                      THEN written \cup {req.lid} ELSE written
      /\ UNCHANGED <<cached, fetching, val, dirty, kro, lid, wcopy, dir,
                     ckptState, logCursor, queue, snapshot, astray>>
  BY DEF Transfer, cacheVars, ghostVars
<1>0. /\ TypeOK /\ TypeOK' /\ KROFrames /\ FrameStates /\ WriteRequests
      /\ PagesHeld /\ WritesApart /\ PictureOpen
  BY DEF IndInv, FrameInv, DataInv
<1>1. req = queue[1] /\ 1 \in 1 .. Len(queue) /\ written \subseteq written'
      /\ logCursor' >= logCursor
  BY <1>0, <1>f DEF TypeOK
<1>2. \A q \in Page : Stored(q)' = Stored(q) \/ q \in kro \/ HasCopy(q)
  <2>1. SUFFICES ASSUME NEW q \in Page, q \notin kro, ~HasCopy(q)
                 PROVE  Stored(q)' = Stored(q)
    OBVIOUS
  <2>2. CASE req.op = "write"
    <3>1. WriteAt(1)
      BY <1>1, <2>2 DEF WriteAt
    <3>2. req.lid \in Lid /\ req.lid # 0
      <4>1. req.lid \in Lid
        BY <1>0, <1>1, <3>1, WriteFields
      <4>2. QED
        BY <4>1 DEF Lid
    <3>3. dir[q].loc # req.lid
      BY <1>0, <1>1, <2>1, <3>1 DEF WritesApart
    <3>4. dir[q].loc # 0 => dir[q].loc \in Lid
      BY <1>0, ConstantsAssumption DEF TypeOK, DirEntry, Lid
    <3> HIDE DEF req
    <3>5. dir[q].loc # 0 => logVal'[dir[q].loc] = logVal[dir[q].loc]
      BY <1>0, <1>f, <2>2, <3>2, <3>3, <3>4 DEF TypeOK
    <3>6. dir' = dir
      BY <1>f
    <3>7. QED
      BY <3>5, <3>6 DEF Stored, Found
  <2>3. CASE req.op # "write"
    BY <1>f, <2>3 DEF Stored, Found
  <2>4. QED
    BY <2>2, <2>3
<1>3. PagesHeld'
  <2>1. SUFFICES ASSUME NEW q \in Page PROVE PageData(q)'
    BY DEF PagesHeld
  <2>2. PageData(q) /\ FrameState(q)
    BY <1>0 DEF PagesHeld, FrameStates
  <2>3. Picture(q)' = Picture(q)
    BY <1>2, <1>f DEF Picture, HasCopy
  <2>4. Pending(q)' <=> Pending(q)
    BY <1>f DEF Pending, HasCopy
  <2>5. q \in cached \ fetching /\ q \notin dirty /\ lid[q] = 0
          => Stored(q)' = Stored(q)
    BY <1>0, <1>2, <2>2 DEF FrameState, KROFrames
  <2>6. QED
    BY <1>1, <1>f, <2>2, <2>3, <2>4, <2>5 DEF PageData
<1>4. WritesApart'
  BY <1>0, <1>f DEF WritesApart, WriteAt, HasCopy
<1>5. Transferred'
  <2>1. SUFFICES ASSUME req.op = "write"
                 PROVE  Transferred'
    BY <1>f DEF Transferred
  <2> DEFINE p == req.page
             l == req.lid
  <2>2. WriteAt(1)
    BY <1>1, <2>1 DEF WriteAt
  <2>3. p \in Page /\ l \in Lid
    BY <1>0, <1>1, <2>2, WriteFields
  <2>4. logVal'[l] = WriteData(req) /\ l \in written'
    BY <1>0, <1>f, <2>1, <2>3 DEF TypeOK
  <2>5. lid[p] = l => wcopy[p].lid # l
    BY <1>0, <2>3, CopyStates DEF Lid
  <2>6. /\ lid[p] = l => logVal'[l] = val[p]
        /\ wcopy[p].lid = l => logVal'[l] = wcopy[p].val
    BY <2>4, <2>5 DEF WriteData
  <2>7. QED
    BY <1>f, <2>4, <2>6 DEF Transferred
<1>6. QED
  BY <1>0, <1>3, <1>4, <1>5, <1>f DEF DataInv, PictureOpen

(* A page has been read: it agrees with where it is stored.                  *)
LEMMA EndReadData ==
  ASSUME IndInv, FrameInv, DataInv, IndInv', IOReq_EndReadPage
  PROVE  DataInv'
<1>a. PICK p : p = Head(queue).page
  OBVIOUS
<1>f. /\ Completed("read") /\ fetching' = fetching \ {p}
      /\ \E v \in ReadResults(Head(queue)) : val' = [val EXCEPT ![p] = v]
      /\ UNCHANGED <<cached, dirty, kro, lid, wcopy, dir, ckptState, logCursor,
                     logVal, written, snapshot, astray>>
  BY <1>a DEF IOReq_EndReadPage, ckptVars, diskVars, ghostVars
<1>0. /\ TypeOK /\ TypeOK' /\ KROFrames /\ FrameStates /\ WriteRequests
      /\ PagesHeld /\ WritesApart /\ Transferred /\ PictureOpen /\ ReadRequests
  BY DEF IndInv, FrameInv, DataInv
<1>t. /\ lid \in [Page -> 0 .. MaxLid] /\ wcopy \in [Page -> Copy]
      /\ dir \in [Page -> DirEntry] /\ val \in [Page -> Value]
      /\ logCursor \in Nat /\ workingGen \in Nat \ {0}
      /\ dirty \subseteq cached /\ kro \subseteq cached /\ fetching \subseteq cached
  BY <1>0, ConstantsAssumption DEF TypeOK
<1>e. /\ 1 \in 1 .. Len(queue) /\ Head(queue) = queue[1]
      /\ queue[1].op = "read" /\ served = TRUE /\ served' = FALSE
  BY <1>0, <1>f, Dequeue
<1>r. /\ p \in fetching /\ p \in Page /\ queue[1].lid = Location(p)
      /\ dir[p].gen # 0 => dir[p].loc # 0
  <2>1. ReadAt(1)
    BY <1>e DEF ReadAt
  <2>2. QED
    BY <1>0, <1>a, <1>e, <2>1 DEF ReadRequests, TypeOK
<1>s. ReadResults(Head(queue)) = {Stored(p)}
  <2>1. PageData(p) /\ FrameState(p)
    BY <1>0, <1>r DEF PagesHeld, FrameStates
  <2>2. ~Pending(p)
    BY <1>r, <2>1 DEF Pending, FrameState
  <2>3. dir[p].loc # 0 => dir[p].gen # 0 /\ dir[p].loc \in written
    BY <2>1, <2>2 DEF PageData
  <2>4. QED
    <3>1. CASE dir[p].gen = 0
      <4>1. 0 \notin written /\ queue[1].lid = 0
        BY <1>0, <1>r, <3>1 DEF TypeOK, Lid, Location
      <4>2. QED
        BY <1>a, <1>e, <3>1, <4>1 DEF ReadResults, Stored, Found
    <3>2. CASE dir[p].gen # 0
      BY <1>a, <1>e, <1>r, <2>3, <3>2 DEF ReadResults, Location, Stored, Found
    <3>3. QED
      BY <3>1, <3>2
<1>v. val' = [val EXCEPT ![p] = Stored(p)]
  BY <1>f, <1>s
<1>1. PagesHeld'
  <2>1. SUFFICES ASSUME NEW q \in Page PROVE PageData(q)'
    BY DEF PagesHeld
  <2>2. CASE q # p
    <3>1. SamePage(q)
      BY <1>f, <1>v, <1>t, <2>2 DEF SamePage
    <3>2. PageData(q) /\ logCursor' >= logCursor /\ written \subseteq written'
      BY <1>0, <1>f, <1>t DEF PagesHeld
    <3>3. QED
      BY <1>0, <1>f, <3>1, <3>2, OtherPage
  <2>3. PageData(p)'
    <3>1. PageData(p) /\ FrameState(p) /\ p \notin kro /\ ~HasCopy(p)
      BY <1>0, <1>r DEF PagesHeld, FrameStates, FrameState
    <3>2. Stored(p)' = Stored(p) /\ val'[p] = Stored(p)
      BY <1>f, <1>r, <1>t, <1>v DEF Stored, Found
    <3>3. ~HasCopy(p)' /\ ~Pending(p)
      BY <1>f, <3>1 DEF HasCopy, Pending
    <3>4. QED
      BY <1>f, <3>1, <3>2, <3>3 DEF PageData, Picture
  <2>4. QED
    BY <2>2, <2>3
<1>2. WritesApart'
  <2>1. WritesKept
    BY <1>0, <1>f, KeptTail
  <2>2. QED
    BY <1>0, <1>f, <2>1, WritesApartKept DEF HasCopy
<1>3. Transferred' /\ PictureOpen'
  BY <1>0, <1>e, <1>f DEF Transferred, PictureOpen
<1>4. QED
  BY <1>1, <1>2, <1>3 DEF DataInv

(* A page has been written: its picture, if it has one, is in the log.       *)
LEMMA EndCleanData ==
  ASSUME IndInv, FrameInv, DataInv, IndInv', IOReq_EndPageClean,
         lid[Head(queue).page] = Head(queue).lid
  PROVE  DataInv'
<1>a. PICK p, l : p = Head(queue).page /\ l = Head(queue).lid
  OBVIOUS
<1>f. /\ Completed("write") /\ lid[p] = l /\ ~(p \in dirty /\ p \in kro)
      /\ dir' = IF p \in dirty \cup kro THEN dir
                ELSE [dir EXCEPT ![p] = [gen |-> workingGen, loc |-> l]]
      /\ lid' = [lid EXCEPT ![p] = 0] /\ kro' = kro \ {p}
      /\ UNCHANGED <<cached, fetching, val, dirty, wcopy, ckptState, logCursor,
                     logVal, written, snapshot, astray>>
  <2>1. WriteAt(1) /\ Head(queue) = queue[1] /\ TypeOK /\ FrameStates
    BY Dequeue DEF WriteAt, IOReq_EndPageClean, IndInv, FrameInv
  <2>2. lid[p] = l /\ l # 0 /\ p \in Page
    <3>1. queue[1].page \in Page /\ queue[1].lid \in Lid
      BY <2>1, WriteFields
    <3>2. QED
      BY <1>a, <2>1, <3>1 DEF Lid
  <2>3. wcopy[p].lid = 0
    BY <2>1, <2>2, CopyStates
  <2>4. QED
    BY <1>a, <2>2, <2>3 DEF IOReq_EndPageClean, Record, ckptVars, diskVars, ghostVars
<1>0. /\ TypeOK /\ TypeOK' /\ KROFrames /\ FrameStates /\ WriteRequests
      /\ PagesHeld /\ WritesApart /\ Transferred /\ PictureOpen /\ ReadRequests
  BY DEF IndInv, FrameInv, DataInv
<1>t. /\ lid \in [Page -> 0 .. MaxLid] /\ wcopy \in [Page -> Copy]
      /\ dir \in [Page -> DirEntry] /\ val \in [Page -> Value]
      /\ logCursor \in Nat /\ workingGen \in Nat \ {0}
      /\ dirty \subseteq cached /\ kro \subseteq cached /\ fetching \subseteq cached
  BY <1>0, ConstantsAssumption, SMTT(30) DEF TypeOK
<1>e. /\ 1 \in 1 .. Len(queue) /\ Head(queue) = queue[1]
      /\ queue[1].op = "write" /\ served = TRUE /\ served' = FALSE
  BY <1>0, <1>f, Dequeue
<1>p. p \in Page /\ l \in Lid /\ l < logCursor /\ l # 0 /\ WriteAt(1)
  <2>1. WriteAt(1)
    BY <1>e DEF WriteAt
  <2>2. p \in Page /\ l \in Lid
    BY <1>0, <1>a, <1>e, <2>1, WriteFields
  <2>3. l < logCursor
    BY <1>0, <1>a, <1>e, <2>1 DEF WriteRequests
  <2>4. QED
    BY <2>1, <2>2, <2>3 DEF Lid
<1>w. /\ l \in written
      /\ lid[p] = l /\ p \notin dirty => logVal[l] = val[p]
      /\ wcopy[p].lid = l /\ ~wcopy[p].dirty => logVal[l] = wcopy[p].val
  BY <1>0, <1>a, <1>e DEF Transferred
<1>1. PagesHeld'
  <2>1. SUFFICES ASSUME NEW q \in Page PROVE PageData(q)'
    BY DEF PagesHeld
  <2>2. CASE q # p
    <3>1. SamePage(q)
      BY <1>f, <1>p, <1>t, <2>2 DEF SamePage
    <3>2. PageData(q) /\ logCursor' >= logCursor /\ written \subseteq written'
      BY <1>0, <1>f, <1>t DEF PagesHeld
    <3>3. QED
      BY <1>0, <1>f, <3>1, <3>2, OtherPage
  <2>3. PageData(p)'
    <3>1. PageData(p) /\ FrameState(p)
      BY <1>0, <1>p DEF PagesHeld, FrameStates
    <3>2. ~HasCopy(p) /\ ~HasCopy(p)' /\ p \notin kro' /\ lid'[p] = 0
      BY <1>f, <1>p, <1>t, <3>1 DEF FrameState, HasCopy
    <3>3. CASE p \in dirty
      <4>1. dir' = dir /\ p \notin kro /\ ~Pending(p)
        BY <1>f, <3>2, <3>3 DEF Pending
      <4>2. Stored(p)' = Stored(p)
        BY <1>f, <4>1 DEF Stored, Found
      <4>3. ckptState \notin 2 .. 5
        BY <1>f, <1>p, <3>1, <4>1 DEF FrameState
      <4>4. QED
        BY <1>f, <3>1, <3>3, <4>1, <4>2, <4>3 DEF PageData
    <3>4. CASE p \notin dirty
      <4>1. dir'[p].gen = workingGen /\ dir'[p].loc = l
        BY <1>f, <1>p, <1>t, <3>1, <3>4 DEF FrameState
      <4>2. Stored(p)' = val[p]
        BY <1>f, <1>p, <1>t, <1>w, <3>4, <4>1 DEF Stored, Found
      <4>3. Picture(p)' = val[p]
        BY <3>2, <4>2 DEF Picture
      <4>4. ckptState \in 2 .. 5 => Picture(p) = val[p]
        BY <1>f, <1>p, <3>1, <3>2 DEF FrameState, Picture
      <4>5. QED
        BY <1>f, <1>p, <1>t, <1>w, <3>1, <4>1, <4>2, <4>3, <4>4 DEF PageData
    <3>5. QED
      BY <3>3, <3>4
  <2>4. QED
    BY <2>2, <2>3
<1>2. WritesApart'
  <2>1. SUFFICES ASSUME NEW i \in 1 .. Len(queue'), NEW q \in Page, WriteAt(i)',
                        dir'[q].loc = queue'[i].lid
                 PROVE  q = queue'[i].page /\ (q \in kro' \/ HasCopy(q)')
    BY DEF WritesApart
  <2>2. /\ i + 1 \in 1 .. Len(queue) /\ i + 1 # 1 /\ WriteAt(i + 1)
        /\ queue'[i] = queue[i + 1]
    <3>1. i + 1 \in 2 .. Len(queue) /\ WriteAt(i + 1) /\ queue'[i] = queue[i + 1]
      BY <1>0, <1>f, <2>1, WritesTail
    <3>2. QED
      BY <1>e, <3>1 DEF WriteAt
  <2>3. queue'[i].lid # l
    <3>1. queue[i + 1].lid # queue[1].lid
      BY <1>0, <1>e, <1>p, <2>2 DEF WriteRequests
    <3>2. QED
      BY <1>a, <1>e, <2>2, <3>1
  <2>4. dir'[q] = dir[q] /\ (q = p => dir[p].loc # l)
    BY <1>f, <1>t, <1>p, <2>1, <2>3
  <2>5. q = queue[i + 1].page /\ (q \in kro \/ HasCopy(q))
    BY <1>0, <2>1, <2>2, <2>4 DEF WritesApart
  <2>6. q = p => (q \in kro \/ HasCopy(q) => q \in kro' \/ HasCopy(q)')
    BY <1>0, <1>f, <1>p, <1>t, <2>4 DEF FrameStates, FrameState, HasCopy
  <2>7. q # p => (q \in kro \/ HasCopy(q) => q \in kro' \/ HasCopy(q)')
    BY <1>f, <1>p, <1>t DEF HasCopy
  <2>8. QED
    BY <2>2, <2>5, <2>6, <2>7
<1>3. Transferred' /\ PictureOpen'
  BY <1>0, <1>e, <1>f DEF Transferred, PictureOpen
<1>4. QED
  BY <1>1, <1>2, <1>3 DEF DataInv

(* A working copy has been written.                                          *)
LEMMA EndCopyData ==
  ASSUME IndInv, FrameInv, DataInv, IndInv', IOReq_EndPageClean,
         lid[Head(queue).page] # Head(queue).lid
  PROVE  DataInv'
<1>a. PICK p, l : p = Head(queue).page /\ l = Head(queue).lid
  OBVIOUS
<1>f. /\ Completed("write") /\ wcopy[p].lid = l /\ ~wcopy[p].dirty
      /\ wcopy' = [wcopy EXCEPT ![p] = NoCopy]
      /\ UNCHANGED <<cached, fetching, val, dirty, kro, lid, dir, ckptState,
                     logCursor, logVal, written, snapshot, astray>>
  BY <1>a DEF IOReq_EndPageClean, ckptVars, diskVars, ghostVars
<1>0. /\ TypeOK /\ TypeOK' /\ KROFrames /\ FrameStates /\ WriteRequests
      /\ PagesHeld /\ WritesApart /\ Transferred /\ PictureOpen /\ ReadRequests
  BY DEF IndInv, FrameInv, DataInv
<1>t. /\ lid \in [Page -> 0 .. MaxLid] /\ wcopy \in [Page -> Copy]
      /\ dir \in [Page -> DirEntry] /\ val \in [Page -> Value]
      /\ logCursor \in Nat /\ workingGen \in Nat \ {0}
      /\ dirty \subseteq cached /\ kro \subseteq cached /\ fetching \subseteq cached
  BY <1>0, ConstantsAssumption DEF TypeOK
<1>e. /\ 1 \in 1 .. Len(queue) /\ Head(queue) = queue[1]
      /\ queue[1].op = "write" /\ served = TRUE /\ served' = FALSE
  BY <1>0, <1>f, Dequeue
<1>p. p \in Page /\ l \in Lid /\ l < logCursor /\ l # 0 /\ WriteAt(1)
  <2>1. WriteAt(1)
    BY <1>e DEF WriteAt
  <2>2. p \in Page /\ l \in Lid
    BY <1>0, <1>a, <1>e, <2>1, WriteFields
  <2>3. l < logCursor
    BY <1>0, <1>a, <1>e, <2>1 DEF WriteRequests
  <2>4. QED
    BY <2>1, <2>2, <2>3 DEF Lid
<1>w. /\ l \in written
      /\ lid[p] = l /\ p \notin dirty => logVal[l] = val[p]
      /\ wcopy[p].lid = l /\ ~wcopy[p].dirty => logVal[l] = wcopy[p].val
  BY <1>0, <1>a, <1>e DEF Transferred
<1>1. PagesHeld'
  <2>1. SUFFICES ASSUME NEW q \in Page PROVE PageData(q)'
    BY DEF PagesHeld
  <2>2. CASE q # p
    <3>1. SamePage(q)
      BY <1>f, <1>p, <1>t, <2>2 DEF SamePage
    <3>2. PageData(q) /\ logCursor' >= logCursor /\ written \subseteq written'
      BY <1>0, <1>f, <1>t DEF PagesHeld
    <3>3. QED
      BY <1>0, <1>f, <3>1, <3>2, OtherPage
  <2>3. PageData(p)'
    <3>1. PageData(p) /\ HasCopy(p) /\ p \in dirty \ kro
      BY <1>0, <1>f, <1>p, CopyStates DEF PagesHeld
    <3>2. dir[p] = [gen |-> workingGen, loc |-> l]
      BY <1>0, <1>f, <1>p, <3>1 DEF FrameStates, FrameState
    <3>3. ~HasCopy(p)' /\ Stored(p)' = Stored(p) /\ Stored(p) = wcopy[p].val
      BY <1>f, <1>p, <1>t, <1>w, <3>2 DEF HasCopy, Stored, Found
    <3>4. Picture(p) = wcopy[p].val /\ Picture(p)' = wcopy[p].val
      BY <1>f, <3>1, <3>3 DEF Picture
    <3>5. QED
      BY <1>f, <1>p, <1>t, <1>w, <3>1, <3>2, <3>4 DEF PageData
  <2>4. QED
    BY <2>2, <2>3
<1>2. WritesApart'
  <2>1. SUFFICES ASSUME NEW i \in 1 .. Len(queue'), NEW q \in Page, WriteAt(i)',
                        dir'[q].loc = queue'[i].lid
                 PROVE  q = queue'[i].page /\ (q \in kro' \/ HasCopy(q)')
    BY DEF WritesApart
  <2>2. /\ i + 1 \in 1 .. Len(queue) /\ i + 1 # 1 /\ WriteAt(i + 1)
        /\ queue'[i] = queue[i + 1]
    <3>1. i + 1 \in 2 .. Len(queue) /\ WriteAt(i + 1) /\ queue'[i] = queue[i + 1]
      BY <1>0, <1>f, <2>1, WritesTail
    <3>2. QED
      BY <1>e, <3>1 DEF WriteAt
  <2>3. queue'[i].lid # l
    <3>1. queue[i + 1].lid # queue[1].lid
      BY <1>0, <1>e, <1>p, <2>2 DEF WriteRequests
    <3>2. QED
      BY <1>a, <1>e, <2>2, <3>1
  <2>4. dir'[q] = dir[q] /\ (q = p => dir[p].loc # l)
    BY <1>f, <1>t, <1>p, <2>1, <2>3
  <2>5. q = queue[i + 1].page /\ (q \in kro \/ HasCopy(q))
    BY <1>0, <2>1, <2>2, <2>4 DEF WritesApart
  <2>6. q = p => (q \in kro \/ HasCopy(q) => q \in kro' \/ HasCopy(q)')
    BY <1>0, <1>f, <1>p, <1>t, <2>4 DEF FrameStates, FrameState, HasCopy
  <2>7. q # p => (q \in kro \/ HasCopy(q) => q \in kro' \/ HasCopy(q)')
    BY <1>f, <1>p, <1>t DEF HasCopy
  <2>8. QED
    BY <2>2, <2>5, <2>6, <2>7
<1>3. Transferred' /\ PictureOpen'
  BY <1>0, <1>e, <1>f DEF Transferred, PictureOpen
<1>4. QED
  BY <1>1, <1>2, <1>3 DEF DataInv

-----------------------------------------------------------------------------
(* What the disk holds. The root of the last complete checkpoint leads to    *)
(* the committed picture; the root that the checkpoint in progress will      *)
(* write leads to the picture being stabilized.                              *)

\* LoadedDir for log headers h, and what a restart finds for a page whose
\* directory entry is e in a log with contents v.
Loaded(h, r) ==
    [p \in Page |->
       LET has == {i \in 1 .. Len(r.hdrs) : h[r.hdrs[i]][p] # NoEntry}
           newest == CHOOSE i \in has : \A j \in has : i <= j
       IN IF has = {} THEN [gen |-> 0, loc |-> 0]
          ELSE [gen |-> r.gen + 1 - newest, loc |-> h[r.hdrs[newest]][p]]]
FoundIn(v, e, p) == CASE e.gen = 0 -> HomeValue[p]
                    [] e.gen # 0 /\ e.loc = 0 -> Zero
                    [] OTHER -> v[e.loc]

\* Root r leads to picture c through stable frames only, and all of them were
\* allocated before the newest header. The pages in bad may be found otherwise.
RootHolds(h, v, st, r, c, bad) ==
    /\ \A i \in 1 .. Len(r.hdrs) :
         r.hdrs[i] \in st /\ r.hdrs[i] <= Head(r.hdrs)
    /\ \A p \in Page : Loaded(h, r)[p].loc # 0 =>
         Loaded(h, r)[p].loc \in st /\ Loaded(h, r)[p].loc < Head(r.hdrs)
    /\ \A p \in Page \ bad : FoundIn(v, Loaded(h, r)[p], p) = c[p]

\* The last complete checkpoint, and the one in progress.
OldLids == IF ckptState \in {4, 5} THEN Tail(genLids) ELSE genLids
OldRoot == [gen |-> workingGen - 1, hdrs |-> OldLids]
NextRoot == [gen |-> workingGen, hdrs |-> genLids]
Base == Head(OldLids)

RootsHold ==
    /\ OldLids # <<>> /\ workingGen > 1
    /\ ckptState # 5 => /\ root[currentRoot] = OldRoot
                        /\ root[1 - currentRoot].gen < workingGen - 1
    /\ ckptState = 5 => /\ root[1 - currentRoot] = OldRoot
                        /\ RootPending =>
                             /\ newRoot = NextRoot
                             /\ root[currentRoot].gen < workingGen - 1
                        /\ ~RootPending => root[currentRoot] = NextRoot

OldHolds ==
    /\ RootHolds(logHdr, logVal, stable, OldRoot, committed, astray)
    /\ Base < logCursor
    /\ stable \subseteq written

\* The directory in core: entries of the working generation, over those that
\* the last complete checkpoint holds, but for the pages astray.
DirHolds ==
    \A p \in Page :
      /\ dir[p].gen <= workingGen
      /\ dir[p].gen # workingGen /\ p \notin astray
           => dir[p] = Loaded(logHdr, OldRoot)[p]

\* Frames being written are younger than the last complete checkpoint, and
\* those of the checkpoint in progress are older than its header.
FramesNew ==
    /\ \A i \in 1 .. Len(queue) :
         /\ queue[i].op \in {"write", "hdr"} => queue[i].lid > Base
         /\ queue[i].op = "hdr" => queue[i].lid = Head(genLids)
    /\ ckptState \in {4, 5} =>
         /\ Base < Head(genLids) /\ Head(genLids) < logCursor
         /\ \A p \in Page : dir[p].gen = workingGen => dir[p].loc < Head(genLids)

\* The object directory of the working generation, when it has reached the
\* log, and when that is stable with the pages it names.
SavedDir == [p \in Page |->
               IF dir[p].gen = workingGen THEN dir[p].loc ELSE NoEntry]
HeaderWritten ==
    \/ ckptState = 5
    \/ ckptState = 4 /\ (ckptWait # "hdr" \/ (served /\ Head(queue).op = "hdr"))
HeaderStable ==
    \/ ckptState = 5
    \/ ckptState = 4 /\ (rangesSynced = 1 \/ (served /\ Head(queue).op = "sync"))
\* The header being built, or written. Its entries are those of the directory,
\* but for the pages astray, and name frames allocated before it that are
\* written or will be.
Header == IF ckptState = 5 THEN logHdr[Head(genLids)] ELSE genHdr
HeaderEntry(p) ==
    /\ p \notin astray => Header[p] = SavedDir[p]
    /\ Header[p] \notin {NoEntry, 0} =>
         /\ Header[p] < logCursor
         /\ ckptState \in {4, 5} => Header[p] < Head(genLids)
         /\ \/ Header[p] \in written
            \/ dir[p] = [gen |-> workingGen, loc |-> Header[p]]
NewHolds ==
    /\ HeaderWritten => Head(genLids) \in written
    /\ ckptState = 4 /\ HeaderWritten => logHdr[Head(genLids)] = genHdr
    /\ ckptState \in 3 .. 5 => \A p \in Page : HeaderEntry(p)
    /\ HeaderStable =>
         /\ Head(genLids) \in stable
         /\ \A p \in Page : Header[p] \notin {NoEntry, 0} => Header[p] \in stable

DiskInv ==
    /\ RootsHold
    /\ OldHolds
    /\ DirHolds
    /\ FramesNew
    /\ NewHolds
-----------------------------------------------------------------------------
(* Restart's directory is a function of the headers.                         *)
LEMMA LoadedIs ==
  ASSUME NEW r
  PROVE  LoadedDir(r) = Loaded(logHdr, r)
  BY Zenon DEF LoadedDir, Loaded

(* So is what is stored for a page, of the directory and the log.            *)
LEMMA StoredIs ==
  ASSUME NEW p
  PROVE  Stored(p) = FoundIn(logVal, dir[p], p)
  BY DEF Stored, Found, FoundIn

(* The least element of a set of numbers is the one that CHOOSE finds.       *)
LEMMA NewestIs ==
  ASSUME NEW S, S \subseteq Nat, NEW x \in S, \A j \in S : x <= j
  PROVE  (CHOOSE i \in S : \A j \in S : i <= j) = x
<1> DEFINE c == CHOOSE i \in S : \A j \in S : i <= j
<1>1. c \in S /\ \A j \in S : c <= j
  OBVIOUS
<1>2. c <= x /\ x <= c /\ c \in Nat /\ x \in Nat
  BY <1>1
<1>3. QED
  BY <1>2

(* Frames that are stable, and no younger than a root's newest header, are   *)
(* all that the root depends on.                                             *)
LEMMA RootHoldsKept ==
  ASSUME NEW h, NEW h2, NEW v, NEW v2, NEW st, NEW st2, NEW r, NEW c,
         NEW bad, NEW bad2, bad \subseteq bad2,
         RootHolds(h, v, st, r, c, bad),
         \A l \in st : l <= Head(r.hdrs) \/ l < Head(r.hdrs) =>
           h2[l] = h[l] /\ v2[l] = v[l] /\ l \in st2
  PROVE  RootHolds(h2, v2, st2, r, c, bad2) /\ Loaded(h2, r) = Loaded(h, r)
<1>1. \A i \in 1 .. Len(r.hdrs) :
        /\ r.hdrs[i] \in st2 /\ r.hdrs[i] <= Head(r.hdrs)
        /\ h2[r.hdrs[i]] = h[r.hdrs[i]]
  BY DEF RootHolds
<1>2. ASSUME NEW p \in Page
      PROVE  Loaded(h2, r)[p] = Loaded(h, r)[p]
  <2> DEFINE has(g) == {i \in 1 .. Len(r.hdrs) : g[r.hdrs[i]][p] # NoEntry}
             newest(g) == CHOOSE i \in has(g) : \A j \in has(g) : i <= j
  <2>1. has(h2) = has(h)
    BY <1>1
  <2>2. newest(h2) = newest(h)
    BY <2>1
  <2>3. CASE has(h) = {}
    BY <2>1, <2>3 DEF Loaded
  <2>4. CASE has(h) # {}
    <3>1. \E i \in has(h) : \A j \in has(h) : i <= j
      <4>1. has(h) \subseteq Nat
        OBVIOUS
      <4> HIDE DEF has
      <4>2. QED
        BY <2>4, <4>1, SmallestElement
    <3>2. newest(h) \in has(h)
      <4> HIDE DEF has
      <4>1. QED
        BY <3>1
    <3>3. h2[r.hdrs[newest(h)]] = h[r.hdrs[newest(h)]]
      <4>1. newest(h) \in 1 .. Len(r.hdrs)
        BY <3>2
      <4> HIDE DEF newest
      <4>2. QED
        BY <1>1, <4>1
    <3>4. /\ Loaded(h, r)[p] = [gen |-> r.gen + 1 - newest(h),
                                loc |-> h[r.hdrs[newest(h)]][p]]
          /\ Loaded(h2, r)[p] = [gen |-> r.gen + 1 - newest(h2),
                                 loc |-> h2[r.hdrs[newest(h2)]][p]]
      BY <2>1, <2>4 DEF Loaded
    <3>5. QED
      <4> HIDE DEF newest
      <4>1. QED
        BY <2>2, <3>3, <3>4
  <2>5. QED
    BY <2>3, <2>4
<1>3. Loaded(h2, r) = Loaded(h, r)
  <2>1. DOMAIN Loaded(h, r) = Page /\ DOMAIN Loaded(h2, r) = Page
        /\ Loaded(h, r) = [p \in Page |-> Loaded(h, r)[p]]
        /\ Loaded(h2, r) = [p \in Page |-> Loaded(h2, r)[p]]
    BY DEF Loaded
  <2>2. QED
    BY <1>2, <2>1
<1>4. \A p \in Page : Loaded(h, r)[p].loc # 0 =>
        /\ Loaded(h, r)[p].loc \in st2 /\ Loaded(h, r)[p].loc < Head(r.hdrs)
        /\ v2[Loaded(h, r)[p].loc] = v[Loaded(h, r)[p].loc]
  BY DEF RootHolds
<1>5. \A p \in Page :
        FoundIn(v2, Loaded(h, r)[p], p) = FoundIn(v, Loaded(h, r)[p], p)
  BY <1>4 DEF FoundIn
<1>6. QED
  BY <1>1, <1>3, <1>4, <1>5 DEF RootHolds

(* The directory that the next root will yield: the entries in its own       *)
(* header over the directory of the last complete checkpoint.                *)
LEMMA LoadedNext ==
  ASSUME NEW h, NEW g, g \in Seq(Lid), g # <<>>, NEW n \in Nat, NEW p \in Page
  PROVE  Loaded(h, [gen |-> n, hdrs |-> g])[p] =
           IF h[Head(g)][p] # NoEntry THEN [gen |-> n, loc |-> h[Head(g)][p]]
           ELSE Loaded(h, [gen |-> n - 1, hdrs |-> Tail(g)])[p]
<1> DEFINE new == {i \in 1 .. Len(g) : h[g[i]][p] # NoEntry}
           old == {i \in 1 .. Len(Tail(g)) : h[Tail(g)[i]][p] # NoEntry}
           least(S) == CHOOSE i \in S : \A j \in S : i <= j
<1>1. /\ Len(g) \in Nat \ {0} /\ Len(Tail(g)) = Len(g) - 1 /\ g[1] = Head(g)
      /\ \A i \in 1 .. Len(Tail(g)) : Tail(g)[i] = g[i + 1]
  OBVIOUS
<1>2. Loaded(h, [gen |-> n, hdrs |-> g])[p] =
        IF new = {} THEN [gen |-> 0, loc |-> 0]
        ELSE [gen |-> n + 1 - least(new), loc |-> h[g[least(new)]][p]]
  BY DEF Loaded
<1>3. Loaded(h, [gen |-> n - 1, hdrs |-> Tail(g)])[p] =
        IF old = {} THEN [gen |-> 0, loc |-> 0]
        ELSE [gen |-> n - 1 + 1 - least(old), loc |-> h[Tail(g)[least(old)]][p]]
  BY DEF Loaded
<1>4. new \subseteq Nat /\ old \subseteq Nat
  OBVIOUS
<1>5. CASE h[Head(g)][p] # NoEntry
  <2>1. 1 \in new /\ \A j \in new : 1 <= j
    BY <1>1, <1>5
  <2>2. least(new) = 1
    <3> HIDE DEF new
    <3>1. QED
      BY <1>4, <2>1, NewestIs
  <2> HIDE DEF least, new
  <2>3. n + 1 - 1 = n
    OBVIOUS
  <2>4. QED
    BY <1>1, <1>2, <1>5, <2>1, <2>2, <2>3
<1>6. CASE h[Head(g)][p] = NoEntry
  <2>1. \A i \in old : i + 1 \in new
    BY <1>1
  <2>2. \A j \in new : j - 1 \in old /\ j \in Nat
    <3>1. SUFFICES ASSUME NEW j \in new PROVE j - 1 \in old
      OBVIOUS
    <3>2. j # 1
      BY <1>1, <1>6
    <3>3. j - 1 \in 1 .. Len(Tail(g)) /\ Tail(g)[j - 1] = g[j - 1 + 1] /\ j - 1 + 1 = j
      BY <1>1, <3>2
    <3>4. QED
      BY <3>3
  <2>3. CASE old = {}
    <3>1. new = {}
      BY <2>2, <2>3
    <3> HIDE DEF least, new, old
    <3>2. QED
      BY <1>2, <1>3, <1>6, <2>3, <3>1
  <2>4. CASE old # {}
    <3>1. PICK k \in old : \A j \in old : k <= j
      <4> HIDE DEF old
      <4>1. QED
        BY <1>4, <2>4, SmallestElement
    <3>2. least(old) = k
      <4> HIDE DEF old
      <4>1. QED
        BY <1>4, <3>1, NewestIs
    <3>3. k + 1 \in new /\ \A j \in new : k + 1 <= j
      <4>1. k + 1 \in new /\ k \in Nat
        BY <1>4, <2>1
      <4>2. ASSUME NEW j \in new PROVE k + 1 <= j
        <5>1. j - 1 \in old /\ j \in Nat
          BY <2>2
        <5>2. k <= j - 1
          BY <3>1, <5>1
        <5>3. QED
          BY <4>1, <5>1, <5>2
      <4>3. QED
        BY <4>1, <4>2
    <3>4. least(new) = k + 1
      <4> HIDE DEF new
      <4>1. QED
        BY <1>4, <3>3, NewestIs
    <3>5. Tail(g)[k] = g[k + 1] /\ n + 1 - (k + 1) = n - 1 + 1 - k
      BY <1>1, <1>4
    <3> HIDE DEF least, new, old
    <3>6. QED
      BY <1>2, <1>3, <1>6, <2>4, <3>2, <3>3, <3>4, <3>5
  <2>5. QED
    BY <2>3, <2>4
<1>7. QED
  BY <1>5, <1>6

(* Once the header is written nothing of the checkpoint is left in core.     *)
LEMMA NoneLeft ==
  ASSUME IndInv, FrameInv, ckptState \in {4, 5}, ckptWait # "hdr"
  PROVE  /\ \A i \in 1 .. Len(queue) : ~WriteAt(i)
         /\ \A p \in Page : p \notin kro /\ ~HasCopy(p) /\ lid[p] = 0
<1>0. KROFrames /\ FrameStates /\ WriteRequests /\ HeaderAfterPages
  BY DEF IndInv, FrameInv
<1>1. ckptState \in 3 .. 5
  OBVIOUS
<1>2. \A i \in 1 .. Len(queue) : ~WriteAt(i)
  BY <1>0 DEF HeaderAfterPages
<1>3. \A p, l : ~WriteIn(queue, p, l)
  BY <1>2 DEF WriteIn, WriteAt
<1>4. /\ ~halted /\ kro \cap dirty = {} /\ \A p \in Page : ~wcopy[p].dirty
  BY <1>0, <1>1 DEF HeaderAfterPages
<1>5. \A p \in Page : lid[p] = 0 /\ wcopy[p].lid = 0
  BY <1>0, <1>3, <1>4 DEF WriteRequests
<1>6. \A p \in Page : p \notin kro
  BY <1>0, <1>4, <1>5 DEF KROFrames
<1>7. \A p \in Page : ~HasCopy(p)
  BY <1>0, <1>4, <1>5 DEF FrameStates, FrameState
<1>8. QED
  BY <1>2, <1>5, <1>6, <1>7

(* The log frames that the roots begin with.                                 *)
LEMMA LidTypes ==
  ASSUME IndInv, DiskInv
  PROVE  /\ genLids \in Seq(Lid) /\ genLids # <<>> /\ Head(genLids) \in Lid
         /\ OldLids \in Seq(Lid) /\ OldLids # <<>> /\ Base \in Lid
         /\ logCursor \in Nat /\ workingGen \in Nat /\ Lid \subseteq Nat
<1>1. genLids \in Seq(Lid) /\ genLids # <<>> /\ OldLids # <<>>
  BY DEF IndInv, ControlInv, HeadersKnown, TypeOK, DiskInv, RootsHold
<1>2. OldLids \in Seq(Lid)
  BY <1>1 DEF OldLids
<1>3. Head(genLids) \in Lid /\ Head(OldLids) \in Lid
  BY <1>1, <1>2
<1>4. logCursor \in Nat /\ workingGen \in Nat /\ Lid \subseteq Nat
  BY ConstantsAssumption DEF IndInv, TypeOK, Lid
<1>5. QED
  BY <1>1, <1>2, <1>3, <1>4 DEF Base

\* A page that goes astray once the header has been built.
Strayed(p) ==
    /\ p \in astray' /\ dir'[p] = [gen |-> workingGen, loc |-> 0]
    /\ dir[p].loc # 0 => dir[p].loc \in written

(* Steps that leave the disk and its roots alone: the directory gets entries *)
(* of the working generation, and once the header is being built only those  *)
(* of pages that go astray; frames are allocated at the cursor.              *)
LEMMA QuietDisk ==
  ASSUME IndInv, IndInv', DiskInv,
         UNCHANGED <<logHdr, logVal, written, stable, root, currentRoot,
                     newRoot, workingGen, genLids, committed>>,
         RootPending' <=> RootPending, logCursor' >= logCursor,
         ckptState \in {4, 5} \/ ckptState' \in {4, 5} => ckptState' = ckptState,
         astray \subseteq astray',
         ckptState' \in 3 .. 5 => \A p \in Page : dir'[p] = dir[p] \/ Strayed(p),
         \A p \in Page : dir'[p] = dir[p] \/ dir'[p].gen = workingGen,
         \A i \in 1 .. Len(queue') : queue'[i].op \in {"write", "hdr"} =>
           \/ \E k \in 1 .. Len(queue) : queue'[i] = queue[k]
           \/ queue'[i].op = "write" /\ queue'[i].lid = logCursor,
         \/ ckptState' \notin {3, 4}
         \/ ckptState' = ckptState /\ genHdr' = genHdr
         \/ ckptState' = 3 /\ \A p \in Page : HeaderEntry(p)',
         HeaderWritten' => HeaderWritten, HeaderStable' => HeaderStable
  PROVE  DiskInv'
<1>0. RootsHold /\ OldHolds /\ DirHolds /\ FramesNew /\ NewHolds
  BY DEF DiskInv
<1>t. /\ Base \in Nat /\ logCursor \in Nat /\ workingGen \in Nat
      /\ Head(genLids) \in Nat /\ logCursor' \in Nat
  BY LidTypes, ConstantsAssumption DEF IndInv, TypeOK
<1>1. OldLids' = OldLids /\ OldRoot' = OldRoot /\ NextRoot' = NextRoot /\ Base' = Base
  BY DEF OldLids, OldRoot, NextRoot, Base
<1>2. RootsHold'
  BY <1>0, <1>1 DEF RootsHold
<1>3. OldHolds'
  <2>1. RootHolds(logHdr, logVal, stable, OldRoot, committed, astray')
    BY <1>0 DEF OldHolds, RootHolds
  <2>2. QED
    BY <1>0, <1>1, <1>t, <2>1 DEF OldHolds
<1>4. DirHolds'
  BY <1>0, <1>1, <1>t DEF DirHolds
<1>5. FramesNew'
  <2>1. \A i \in 1 .. Len(queue') :
          /\ queue'[i].op \in {"write", "hdr"} => queue'[i].lid > Base
          /\ queue'[i].op = "hdr" => queue'[i].lid = Head(genLids)
    BY <1>0, <1>t DEF FramesNew, OldHolds
  <2>2. ckptState' \in {4, 5} =>
          /\ Base < Head(genLids) /\ Head(genLids) < logCursor'
          /\ \A p \in Page : dir'[p].gen = workingGen => dir'[p].loc < Head(genLids)
    <3>1. SUFFICES ASSUME ckptState' \in {4, 5}, NEW p \in Page,
                          dir'[p].gen = workingGen
                   PROVE  dir'[p].loc < Head(genLids)
      BY <1>0, <1>t DEF FramesNew
    <3>2. CASE dir'[p] = dir[p]
      BY <1>0, <3>1, <3>2 DEF FramesNew
    <3>3. CASE Strayed(p)
      BY <1>0, <1>t, <3>1, <3>3 DEF FramesNew, Strayed
    <3>4. QED
      BY <3>1, <3>2, <3>3
  <2>3. QED
    BY <1>1, <2>1, <2>2 DEF FramesNew
<1>6. NewHolds'
  <2>1. SUFFICES ASSUME ckptState' \in 3 .. 5 PROVE NewHolds'
    BY DEF NewHolds, HeaderWritten, HeaderStable
  <2>2. CASE ckptState' = ckptState /\ (ckptState' # 5 => genHdr' = genHdr)
    <3>1. Header' = Header
      BY <2>2 DEF Header
    <3>2. ASSUME NEW p \in Page PROVE HeaderEntry(p)'
      <4>1. HeaderEntry(p)
        BY <1>0, <2>1, <2>2 DEF NewHolds
      <4>2. p \notin astray' => SavedDir'[p] = SavedDir[p] /\ p \notin astray
        BY <2>1 DEF SavedDir, Strayed
      <4>3. Header[p] \notin {NoEntry, 0} /\ dir[p] = [gen |-> workingGen, loc |-> Header[p]]
              => Header[p] \in written \/ dir'[p] = dir[p]
        BY <2>1 DEF Strayed
      <4>4. Header[p] < logCursor /\ Header[p] \notin {NoEntry, 0} => Header[p] < logCursor'
        <5>1. Header[p] \in NoEntry .. MaxLid
          <6>1. /\ Head(genLids) \in Lid /\ genHdr \in Saved
                /\ logHdr \in [Lid -> Saved]
            BY LidTypes DEF IndInv, TypeOK
          <6>2. QED
            BY <6>1 DEF Header, Saved
        <5>2. QED
          BY <1>t, <5>1, ConstantsAssumption DEF NoEntry
      <4>5. QED
        BY <2>2, <3>1, <4>1, <4>2, <4>3, <4>4 DEF HeaderEntry
    <3>3. QED
      BY <1>0, <2>1, <2>2, <3>1, <3>2 DEF NewHolds
  <2>3. CASE ckptState' = 3 /\ \A p \in Page : HeaderEntry(p)'
    BY <2>3 DEF NewHolds, HeaderWritten, HeaderStable
  <2>4. QED
    BY <2>1, <2>2, <2>3
<1>7. QED
  BY <1>2, <1>3, <1>4, <1>5, <1>6 DEF DiskInv

(* Steps of processes and of the cleaning of pages.                          *)
LEMMA CacheDisk ==
  ASSUME IndInv, IndInv', DiskInv,
         UNCHANGED <<diskVars, ckptVars, committed, served>>,
         logCursor' >= logCursor,
         \/ UNCHANGED queue
         \/ \E req \in Request :
              /\ Enqueue(req)
              /\ req.op = "read" \/ (req.op = "write" /\ req.lid = logCursor),
         astray \subseteq astray',
         ckptState \in 3 .. 5 => \A p \in Page : dir'[p] = dir[p] \/ Strayed(p),
         \A p \in Page : dir'[p] = dir[p] \/ dir'[p].gen = workingGen
  PROVE  DiskInv'
<1>1. UNCHANGED <<logHdr, logVal, written, stable, root, currentRoot, newRoot,
                  workingGen, genLids, committed, ckptState, ckptWait, genHdr,
                  rangesSynced, rootVolatile, served>>
  BY DEF diskVars, ckptVars
<1>2. served' => served /\ Head(queue') = Head(queue)
  BY <1>1, HeadKept
<1>3. \A i \in 1 .. Len(queue') : queue'[i].op # "read" =>
        \/ i \in 1 .. Len(queue) /\ queue'[i] = queue[i]
        \/ queue'[i].op = "write" /\ queue'[i].lid = logCursor
  <2>1. ASSUME NEW req \in Request, Enqueue(req),
               req.op = "read" \/ (req.op = "write" /\ req.lid = logCursor)
        PROVE  \A i \in 1 .. Len(queue') : queue'[i].op # "read" =>
                 \/ i \in 1 .. Len(queue) /\ queue'[i] = queue[i]
                 \/ queue'[i].op = "write" /\ queue'[i].lid = logCursor
    BY <2>1, EnqueueFacts DEF IndInv
  <2>2. QED
    BY <2>1
<1>4. RootPending' <=> RootPending
  <2>1. ASSUME NEW i \in 1 .. Len(queue), queue[i].op = "root"
        PROVE  i \in 1 .. Len(queue') /\ queue'[i] = queue[i]
    <3>1. ASSUME NEW req \in Request, Enqueue(req)
          PROVE  i \in 1 .. Len(queue') /\ queue'[i] = queue[i]
      BY <3>1, EnqueueFacts DEF IndInv
    <3>2. QED
      BY <3>1
  <2>2. QED
    BY <1>1, <1>3, <2>1 DEF RootPending
<1>5. HeaderWritten' => HeaderWritten
  BY <1>1, <1>2 DEF HeaderWritten
<1>6. HeaderStable' => HeaderStable
  BY <1>1, <1>2 DEF HeaderStable
<1>7. QED
  BY <1>1, <1>3, <1>4, <1>5, <1>6, QuietDisk

(* Cleaning a page. In phases 3 to 5 there is none left to clean.            *)
LEMMA CleanDisk ==
  ASSUME IndInv, IndInv', FrameInv, DiskInv, NEW p \in Page, pageH_Clean(p),
         ckptIsActive => p \in kro
  PROVE  DiskInv'
<1>0. TypeOK /\ HeaderAfterPages
  BY DEF IndInv, FrameInv
<1>1. ckptState \notin 3 .. 5
  BY <1>0 DEF pageH_Clean, HeaderAfterPages, ckptIsActive
<1>2. UNCHANGED <<diskVars, ckptVars, committed, astray, served>>
  BY DEF pageH_Clean, ghostVars
<1>3. \A q \in Page : dir'[q] = dir[q] \/ dir'[q].gen = workingGen
  BY <1>0 DEF pageH_Clean, Record, TypeOK
<1>4. CASE val[p] = Zero
  <2>1. UNCHANGED <<queue, logCursor>> /\ logCursor' >= logCursor
    BY <1>0, <1>4 DEF pageH_Clean, TypeOK
  <2>2. QED
    BY <1>1, <1>2, <1>3, <2>1, CacheDisk
<1>5. CASE val[p] # Zero
  <2>1. /\ Enqueue([op |-> "write", page |-> p, lid |-> logCursor])
        /\ logCursor \in Lid /\ logCursor' >= logCursor
    BY <1>0, <1>5 DEF pageH_Clean, TypeOK, Lid
  <2>2. QED
    BY <1>1, <1>2, <1>3, <2>1, CacheDisk, RequestKinds
<1>6. QED
  BY <1>4, <1>5

(* Cleaning a working copy.                                                  *)
LEMMA CleanCopyDisk ==
  ASSUME IndInv, IndInv', FrameInv, DiskInv, NEW p \in Page, CleanCopy(p)
  PROVE  DiskInv'
<1>0. TypeOK /\ HeaderAfterPages
  BY DEF IndInv, FrameInv
<1>1. ckptState \notin 3 .. 5
  BY <1>0 DEF CleanCopy, HeaderAfterPages
<1>2. UNCHANGED <<diskVars, ckptVars, committed, astray, served>>
  BY DEF CleanCopy, ghostVars
<1>3. \A q \in Page : dir'[q] = dir[q] \/ dir'[q].gen = workingGen
  BY <1>0 DEF CleanCopy, Record, TypeOK
<1>4. CASE wcopy[p].val = Zero
  <2>1. UNCHANGED <<queue, logCursor>> /\ logCursor' >= logCursor
    BY <1>0, <1>4 DEF CleanCopy, TypeOK
  <2>2. QED
    BY <1>1, <1>2, <1>3, <2>1, CacheDisk
<1>5. CASE wcopy[p].val # Zero
  <2>1. /\ Enqueue([op |-> "write", page |-> p, lid |-> logCursor])
        /\ logCursor \in Lid /\ logCursor' >= logCursor
    BY <1>0, <1>5 DEF CleanCopy, TypeOK, Lid
  <2>2. QED
    BY <1>1, <1>2, <1>3, <2>1, CacheDisk, RequestKinds
<1>6. QED
  BY <1>4, <1>5

(* The other steps of processes.                                             *)
LEMMA ProcessDisk ==
  ASSUME IndInv, IndInv', FrameInv, DataInv, DiskInv, NEW p \in Page, Process(p)
  PROVE  DiskInv'
<1>0. TypeOK /\ HeaderAfterPages /\ KROFrames
  BY DEF IndInv, FrameInv
<1>1. CASE GetObject(p)
  <2>1. UNCHANGED <<diskVars, ckptVars, committed, astray, served, dir, logCursor>>
        /\ logCursor' >= logCursor
    BY <1>0, <1>1 DEF GetObject, ghostVars, TypeOK
  <2>2. \/ UNCHANGED queue
        \/ Enqueue([op |-> "read", page |-> p, lid |-> Location(p)])
    BY <1>1 DEF GetObject
  <2>3. Location(p) \in 0 .. MaxLid
    BY <1>0, ConstantsAssumption DEF Location, TypeOK, DirEntry
  <2>4. QED
    BY <2>1, <2>2, <2>3, CacheDisk, RequestKinds
<1>2. ASSUME NEW v \in Value, MitigateZero(p, v)
      PROVE  DiskInv'
  <2>1. /\ UNCHANGED <<diskVars, ckptVars, committed, astray, served, queue, logCursor>>
        /\ logCursor' >= logCursor
    BY <1>0, <1>2 DEF MitigateZero, ghostVars, TypeOK
  <2>2. \A q \in Page : dir'[q] = dir[q] \/ dir'[q].gen = workingGen
    BY <1>0, <1>2 DEF MitigateZero, Record, TypeOK
  <2>3. ckptState \notin 3 .. 5
    BY <1>0, <1>2 DEF MitigateZero, KROFrames, HeaderAfterPages
  <2>4. QED
    BY <2>1, <2>2, <2>3, CacheDisk
<1>3. CASE ZeroPage(p)
  <2>1. /\ UNCHANGED <<diskVars, ckptVars, committed, served, queue, logCursor>>
        /\ logCursor' >= logCursor /\ astray \subseteq astray'
        /\ p \notin cached /\ (ckptState \in 2 .. 5 => p \in astray')
    BY <1>0, <1>3 DEF ZeroPage, TypeOK
  <2>2. \A q \in Page : dir'[q] = IF q = p THEN [gen |-> workingGen, loc |-> 0]
                                 ELSE dir[q]
    BY <1>0, <1>3 DEF ZeroPage, Record, TypeOK
  <2>3. dir[p].loc # 0 => dir[p].loc \in written
    <3>1. FrameState(p) /\ PageData(p)
      BY DEF FrameInv, FrameStates, DataInv, PagesHeld
    <3>2. ~Pending(p)
      BY <1>0, <2>1, <3>1 DEF Pending, FrameState, TypeOK
    <3>3. QED
      BY <3>1, <3>2 DEF PageData
  <2>4. ckptState \in 3 .. 5 => \A q \in Page : dir'[q] = dir[q] \/ Strayed(q)
    BY <2>1, <2>2, <2>3 DEF Strayed
  <2>5. QED
    BY <2>1, <2>2, <2>4, CacheDisk
<1>4. CASE AgeClean(p)
  BY <1>4, CleanDisk DEF AgeClean, MayAgeClean
<1>5. CASE \/ \E v \in Value : \/ StoreDirty(p, v) \/ StoreClean(p, v)
                               \/ MitigateCopy(p, v)
           \/ MitigateMove(p) \/ AgeSteal(p)
  <2>1. UNCHANGED <<diskVars, ckptVars, committed, astray, served, queue, logCursor, dir>>
        /\ logCursor' >= logCursor
    BY <1>0, <1>5 DEF StoreDirty, StoreClean, MitigateCopy, MitigateMove, AgeSteal,
       ghostVars, TypeOK
  <2>2. QED
    BY <2>1, CacheDisk
<1>6. QED
  BY <1>1, <1>2, <1>3, <1>4, <1>5 DEF Process

(* A checkpoint is declared; the moment of demarcation; the end of phase 2,  *)
(* which puts the directory of the working generation in the header.         *)
LEMMA PhaseDisk ==
  ASSUME IndInv, IndInv', FrameInv, DataInv, DiskInv,
         \/ DeclareDemarcationEvent \/ DoPhase1Work \/ DoPhase2Work
         \/ UNCHANGED vars
  PROVE  DiskInv'
<1>0. TypeOK
  BY DEF IndInv
<1>1. CASE DeclareDemarcationEvent \/ DoPhase1Work \/ DoPhase2Work
  <2>1. /\ UNCHANGED <<logHdr, logVal, written, stable, root, currentRoot,
                       newRoot, workingGen, genLids, committed, astray,
                       rootVolatile,
                       queue, logCursor>>
        /\ ckptState \in 0 .. 2 /\ ckptState' \in 1 .. 3
        /\ ckptState' = 3 => dir' = dir /\ genHdr' = SavedDir
    BY <1>1 DEF DeclareDemarcationEvent, DoPhase1Work, DoPhase2Work, diskVars,
       ghostVars, ckptIsActive, SavedDir
  <2>2. \A p \in Page : dir'[p] = dir[p] \/ dir'[p].gen = workingGen
    BY <1>1 DEF DeclareDemarcationEvent, DoPhase1Work, DoPhase2Work
  <2>3. RootPending' <=> RootPending
    BY <2>1 DEF RootPending
  <2>4. ~HeaderWritten' /\ ~HeaderStable' /\ logCursor' >= logCursor
    BY <1>0, <2>1 DEF HeaderWritten, HeaderStable, TypeOK
  <2>5. /\ ckptState \notin {4, 5} /\ ckptState' \notin {4, 5}
        /\ ckptState' \in 3 .. 5 \/ ckptState' \in {3, 4} => ckptState' = 3
    BY <2>1
  <2>6. ASSUME ckptState' = 3, NEW p \in Page
        PROVE  HeaderEntry(p)'
    <3>1. UNCHANGED <<dir, workingGen>> /\ genHdr' = SavedDir
      BY <2>1, <2>6
    <3>2. Header' = SavedDir /\ SavedDir' = SavedDir
      BY <2>6, <3>1 DEF Header, SavedDir
    <3>3. SavedDir[p] # NoEntry => dir[p] = [gen |-> workingGen, loc |-> SavedDir[p]]
      BY <1>0 DEF SavedDir, TypeOK, DirEntry
    <3>4. dir[p].loc # 0 => dir[p].loc < logCursor
      BY DEF DataInv, PagesHeld, PageData
    <3>5. SavedDir[p] \notin {NoEntry, 0} => SavedDir[p] < logCursor
      BY <3>3, <3>4
    <3>6. QED
      BY <2>1, <2>6, <3>1, <3>2, <3>3, <3>5 DEF HeaderEntry
  <2>7. QED
    BY <2>1, <2>2, <2>3, <2>4, <2>5, <2>6, QuietDisk
<1>2. CASE UNCHANGED vars
  <2>1. UNCHANGED <<diskVars, ckptVars, committed, astray, served, queue, logCursor, dir>>
        /\ logCursor' >= logCursor
    BY <1>0, <1>2 DEF vars, ghostVars, TypeOK
  <2>2. QED
    BY <2>1, CacheDisk
<1>3. QED
  BY <1>1, <1>2

(* A request is done.                                                        *)
LEMMA DoneDisk ==
  ASSUME IndInv, IndInv', FrameInv, DiskInv, Disk, ~Transfer
  PROVE  DiskInv'
<1>0. TypeOK /\ FrameStates /\ ControlRequests /\ SyncOrder /\ RootOrder
  BY DEF IndInv, FrameInv, ControlInv
<1>1. PICK op : Completed(op) /\ op \in {"read", "write", "hdr", "root", "sync"}
  BY DEF Disk, IOReq_EndReadPage, IOReq_EndPageClean, EndPageCleanAsserts,
     IOReq_EndGenHdrWrite, IOReq_EndCkptRootWrite, IOReq_EndSync
<1>2. /\ Head(queue) = queue[1] /\ queue[1].op = op /\ served
      /\ 1 \in 1 .. Len(queue) /\ Len(queue) \in Nat
      /\ Len(queue') = Len(queue) - 1 /\ served' = FALSE
      /\ \A i \in 1 .. Len(queue') : queue'[i] = queue[i + 1]
  BY <1>0, <1>1, Dequeue
<1>3. UNCHANGED <<logHdr, logVal, written, stable, root, currentRoot, newRoot,
                  workingGen, genLids, committed, astray, ckptState,
                  rootVolatile, genHdr, logCursor>>
  BY DEF Disk, IOReq_EndReadPage, IOReq_EndPageClean, EndPageCleanAsserts,
     IOReq_EndGenHdrWrite, IOReq_EndCkptRootWrite, IOReq_EndSync, diskVars,
     ghostVars, ckptVars
<1>4. \A i \in 1 .. Len(queue') : \E k \in 1 .. Len(queue) : queue'[i] = queue[k]
  <2>1. \A i \in 1 .. Len(queue') : i + 1 \in 1 .. Len(queue)
    BY <1>2
  <2>2. QED
    BY <1>2, <2>1
<1>5. RootPending' <=> RootPending
  <2>1. CASE op = "root"
    BY <1>0, <1>2, <1>3, <2>1 DEF RootOrder, RootPending
  <2>2. CASE op # "root"
    <3>1. ASSUME NEW i \in 1 .. Len(queue), queue[i].op = "root"
          PROVE  i - 1 \in 1 .. Len(queue') /\ queue'[i - 1].op = "root"
      <4>1. i # 1
        BY <1>2, <2>2, <3>1
      <4>2. i - 1 \in 1 .. Len(queue') /\ i - 1 + 1 = i
        BY <1>2, <4>1
      <4>3. QED
        BY <1>2, <3>1, <4>2
    <3>2. QED
      BY <1>3, <1>4, <3>1 DEF RootPending
  <2>3. QED
    BY <2>1, <2>2
<1>6. dir' = dir \/ IOReq_EndPageClean
  BY DEF Disk, IOReq_EndReadPage, EndPageCleanAsserts,
     IOReq_EndGenHdrWrite, IOReq_EndCkptRootWrite, IOReq_EndSync
<1>7. /\ ckptState \in 3 .. 5 => dir' = dir
      /\ \A q \in Page : dir'[q] = dir[q] \/ dir'[q].gen = workingGen
  <2>1. SUFFICES ASSUME IOReq_EndPageClean, dir' # dir
                 PROVE  /\ ckptState \notin 3 .. 5
                        /\ \A q \in Page : dir'[q] = dir[q] \/ dir'[q].gen = workingGen
    BY <1>6
  <2>2. PICK p, l : p = Head(queue).page /\ l = Head(queue).lid
    OBVIOUS
  <2>3. /\ lid[p] = l /\ p \notin dirty \cup kro /\ queue[1].op = "write"
        /\ dir' = [dir EXCEPT ![p] = [gen |-> workingGen, loc |-> l]]
    BY <1>0, <2>1, <2>2, Dequeue DEF IOReq_EndPageClean, Record
  <2>4. p \in Page /\ l # 0
    <3>1. WriteAt(1)
      BY <1>2, <2>3 DEF WriteAt
    <3>2. queue[1].page \in Page /\ queue[1].lid \in Lid
      BY <1>0, <3>1, WriteFields
    <3>3. QED
      BY <1>2, <2>2, <3>2 DEF Lid
  <2>5. ckptState \notin 2 .. 5
    BY <1>0, <2>3, <2>4 DEF FrameStates, FrameState
  <2>6. QED
    BY <1>0, <2>3, <2>4, <2>5 DEF TypeOK
<1>8. HeaderWritten' => HeaderWritten
  <2>1. CASE op = "hdr"
    BY <1>2, <1>3, <2>1 DEF HeaderWritten
  <2>2. CASE op \in {"root", "sync"}
    <3>1. ckptWait = op
      BY <1>0, <1>2, <2>2 DEF ControlRequests, Control
    <3>2. QED
      BY <1>3, <2>2, <3>1 DEF HeaderWritten
  <2>3. CASE op \in {"read", "write"}
    <3>1. IOReq_EndReadPage \/ IOReq_EndPageClean \/ EndPageCleanAsserts
      BY <1>2, <2>3 DEF Disk, IOReq_EndGenHdrWrite, IOReq_EndCkptRootWrite,
         IOReq_EndSync, Completed
    <3>2. ckptWait' = ckptWait
      BY <3>1 DEF IOReq_EndReadPage, IOReq_EndPageClean, EndPageCleanAsserts,
         ckptVars
    <3>3. QED
      BY <1>2, <1>3, <3>2 DEF HeaderWritten
  <2>4. QED
    BY <1>1, <2>1, <2>2, <2>3
<1>9. HeaderStable' => HeaderStable
  <2>1. rangesSynced' = rangesSynced \/ op = "sync"
    BY <1>1, <1>2 DEF Disk, IOReq_EndReadPage, IOReq_EndPageClean,
       EndPageCleanAsserts, IOReq_EndGenHdrWrite, IOReq_EndCkptRootWrite,
       IOReq_EndSync, Completed, ckptVars
  <2>2. QED
    BY <1>2, <1>3, <2>1 DEF HeaderStable
<1>10. logCursor' >= logCursor
  BY <1>0, <1>3 DEF TypeOK
<1>11. QED
  BY <1>3, <1>4, <1>5, <1>7, <1>8, <1>9, <1>10, QuietDisk

(* A synchronizeCache is queued.                                             *)
LEMMA SyncDisk ==
  ASSUME IndInv, IndInv', FrameInv, DiskInv, DoSync
  PROVE  DiskInv'
<1>0. TypeOK /\ FrameStates /\ ControlRequests /\ SyncOrder /\ RootOrder
  BY DEF IndInv, FrameInv, ControlInv
<1> DEFINE req == [op |-> "sync"]
<1>1. /\ Enqueue(req) /\ req \in Request /\ ckptState \in {4, 5}
      /\ ckptWait = "none"
      /\ UNCHANGED <<logHdr, logVal, written, stable, root, currentRoot, newRoot,
                     workingGen, genLids, committed, astray, ckptState,
                     rootVolatile, genHdr, logCursor, dir, served, rangesSynced>>
  BY RequestKinds DEF DoSync, diskVars, ghostVars
<1>2. /\ Len(queue) \in Nat /\ Len(queue') = Len(queue) + 1
      /\ \A i \in 1 .. Len(queue) : queue'[i] = queue[i]
      /\ queue'[Len(queue) + 1] = req /\ req.op = "sync"
  BY <1>0, <1>1, EnqueueFacts
<1>3. served' => served /\ Head(queue') = Head(queue)
  BY <1>1, HeadKept
<1> HIDE DEF req
<1>4. \A i \in 1 .. Len(queue') : queue'[i].op # "sync" =>
        i \in 1 .. Len(queue) /\ queue'[i] = queue[i]
  BY <1>2
<1>5. RootPending' <=> RootPending
  <2>1. \A i \in 1 .. Len(queue) : i \in 1 .. Len(queue')
    BY <1>2
  <2>2. QED
    BY <1>1, <1>2, <1>4, <2>1 DEF RootPending
<1>6. HeaderWritten
  BY <1>1 DEF HeaderWritten
<1>7. HeaderStable' => HeaderStable
  BY <1>1, <1>3 DEF HeaderStable
<1>8. logCursor' >= logCursor
  BY <1>0, <1>1 DEF TypeOK
<1>9. QED
  BY <1>1, <1>4, <1>5, <1>6, <1>7, <1>8, QuietDisk

(* The generation header is queued, for a frame younger than all others.     *)
LEMMA Phase3Disk ==
  ASSUME IndInv, IndInv', FrameInv, DataInv, DiskInv, DoPhase3Work
  PROVE  DiskInv'
<1>0. /\ TypeOK /\ ControlInv /\ SyncOrder /\ PagesHeld
      /\ RootsHold /\ OldHolds /\ DirHolds /\ FramesNew /\ NewHolds
  BY DEF IndInv, ControlInv, DataInv, DiskInv
<1> DEFINE req == [op |-> "hdr", lid |-> logCursor]
<1>1. /\ Enqueue(req) /\ ckptState = 3 /\ ckptState' = 4 /\ ckptWait' = "hdr"
      /\ logCursor <= MaxLid /\ logCursor' = logCursor + 1
      /\ genLids' = <<logCursor>> \o genLids
      /\ UNCHANGED <<logHdr, logVal, written, stable, root, currentRoot, newRoot,
                     workingGen, committed, astray, rootVolatile, genHdr, dir,
                     served, rangesSynced>>
  BY DEF DoPhase3Work, diskVars, ghostVars
<1>t. /\ Base \in Nat /\ logCursor \in Nat /\ workingGen \in Nat
      /\ logCursor \in Lid /\ genLids \in Seq(Lid)
  BY <1>0, <1>1, LidTypes DEF TypeOK, Lid
<1>2. /\ Len(queue) \in Nat /\ Len(queue') = Len(queue) + 1
      /\ \A i \in 1 .. Len(queue) : queue'[i] = queue[i]
      /\ queue'[Len(queue) + 1] = req /\ req.op = "hdr" /\ req.lid = logCursor
  BY <1>0, <1>1, <1>t, EnqueueFacts, RequestKinds
<1>3. \A j \in 1 .. Len(queue) : queue[j].op \notin {"hdr", "root", "sync"}
  <2>1. ckptState \notin {4, 5}
    BY <1>1
  <2>2. QED
    BY <1>0, <2>1, NoHeaderQueued
<1>4. genLids' # <<>> /\ Head(genLids') = logCursor /\ Tail(genLids') = genLids
  BY <1>1, <1>t
<1>5. /\ OldLids' = OldLids /\ OldRoot' = OldRoot /\ Base' = Base
  <2>1. OldLids = genLids /\ OldLids' = genLids
    BY <1>1, <1>4 DEF OldLids
  <2>2. QED
    BY <1>1, <2>1 DEF OldRoot, Base
<1> HIDE DEF req
<1>6. RootsHold'
  BY <1>0, <1>1, <1>5 DEF RootsHold
<1>7. OldHolds' /\ DirHolds'
  BY <1>0, <1>1, <1>5, <1>t DEF OldHolds, DirHolds
<1>8. FramesNew'
  <2>1. Base < logCursor
    BY <1>0 DEF OldHolds
  <2>2. ASSUME NEW i \in 1 .. Len(queue')
        PROVE  /\ queue'[i].op \in {"write", "hdr"} => queue'[i].lid > Base
               /\ queue'[i].op = "hdr" => queue'[i].lid = logCursor
    <3>1. CASE i = Len(queue) + 1
      BY <1>2, <1>t, <2>1, <3>1
    <3>2. CASE i # Len(queue) + 1
      <4>1. i \in 1 .. Len(queue)
        BY <1>2, <3>2
      <4>2. QED
        BY <1>0, <1>2, <1>3, <4>1 DEF FramesNew
    <3>3. QED
      BY <3>1, <3>2
  <2>3. ASSUME NEW p \in Page
        PROVE  dir[p].loc < logCursor
    <3>1. dir[p].loc \in Nat /\ logCursor > 0
      BY <1>0, <1>t, ConstantsAssumption DEF TypeOK, DirEntry
    <3>2. QED
      BY <1>0, <1>t, <3>1 DEF PagesHeld, PageData
  <2>4. logCursor < logCursor'
    BY <1>1, <1>t
  <2>5. QED
    BY <1>1, <1>4, <1>5, <2>1, <2>2, <2>3, <2>4 DEF FramesNew
<1>9. NewHolds'
  <2>1. served => Head(queue') = Head(queue) /\ queue # <<>>
    BY <1>1, HeadKept
  <2>2. served => Head(queue').op \notin {"hdr", "sync"}
    <3>1. queue # <<>> => Head(queue) = queue[1] /\ 1 \in 1 .. Len(queue)
      BY <1>0 DEF TypeOK
    <3>2. QED
      BY <1>3, <2>1, <3>1
  <2>3. rangesSynced = 0
    BY <1>0, <1>1 DEF SyncOrder
  <2>4. ~HeaderWritten' /\ ~HeaderStable'
    BY <1>1, <2>2, <2>3 DEF HeaderWritten, HeaderStable
  <2>5. SavedDir' = SavedDir /\ Header' = Header
    BY <1>1 DEF SavedDir, Header
  <2>6. ASSUME NEW p \in Page
        PROVE  HeaderEntry(p)'
    <3>1. HeaderEntry(p)
      BY <1>0, <1>1 DEF NewHolds
    <3>2. Header[p] \in NoEntry .. MaxLid
      BY <1>0, <1>1 DEF TypeOK, Header, Saved
    <3>3. Header[p] < logCursor /\ Header[p] \notin {NoEntry, 0}
            => Header[p] < logCursor'
      BY <1>1, <1>t, <3>2, ConstantsAssumption DEF NoEntry
    <3>4. QED
      BY <1>1, <1>4, <2>5, <3>1, <3>3 DEF HeaderEntry
  <2>7. QED
    BY <1>1, <2>4, <2>6 DEF NewHolds
<1>10. QED
  BY <1>6, <1>7, <1>8, <1>9 DEF DiskInv

(* The new root is queued: its header, and all that this names, are stable.  *)
LEMMA Phase4Disk ==
  ASSUME IndInv, IndInv', FrameInv, DiskInv, DoPhase4Work
  PROVE  DiskInv'
<1>0. /\ TypeOK /\ RootsHold /\ OldHolds /\ DirHolds /\ FramesNew /\ NewHolds
  BY DEF IndInv, DiskInv
<1> DEFINE req == [op |-> "root"]
<1>1. /\ Enqueue(req) /\ ckptState = 4 /\ ckptState' = 5 /\ ckptWait = "none"
      /\ rangesSynced >= 1 /\ newRoot' = NextRoot /\ currentRoot' = 1 - currentRoot
      /\ UNCHANGED <<logHdr, logVal, written, stable, root, genLids, logCursor,
                     workingGen, committed, astray, rootVolatile, dir, served>>
  BY DEF DoPhase4Work, AllSynced, OtherRoot, NextRoot, diskVars, ghostVars
<1>2. /\ Len(queue) \in Nat /\ Len(queue') = Len(queue) + 1
      /\ \A i \in 1 .. Len(queue) : queue'[i] = queue[i]
      /\ queue'[Len(queue) + 1] = req /\ req.op = "root"
  BY <1>0, <1>1, EnqueueFacts, RequestKinds
<1> HIDE DEF req
<1>3. OldLids' = OldLids /\ OldRoot' = OldRoot /\ Base' = Base /\ NextRoot' = NextRoot
  BY <1>1 DEF OldLids, OldRoot, Base, NextRoot
<1>4. HeaderWritten /\ HeaderStable
  BY <1>0, <1>1 DEF HeaderWritten, HeaderStable, TypeOK
<1>5. RootsHold'
  <2>1. currentRoot \in {0, 1} /\ 1 - currentRoot' = currentRoot
    BY <1>0, <1>1 DEF TypeOK
  <2>2. RootPending'
    <3>1. Len(queue) + 1 \in 1 .. Len(queue')
      BY <1>2
    <3>2. QED
      BY <1>2, <3>1 DEF RootPending
  <2>3. root[currentRoot] = OldRoot /\ root[1 - currentRoot].gen < workingGen - 1
    BY <1>0, <1>1 DEF RootsHold
  <2>4. OldLids # <<>> /\ workingGen > 1
    BY <1>0 DEF RootsHold
  <2>5. QED
    BY <1>1, <1>3, <2>1, <2>2, <2>3, <2>4 DEF RootsHold
<1>6. OldHolds' /\ DirHolds'
  BY <1>0, <1>1, <1>3 DEF OldHolds, DirHolds
<1>7. FramesNew'
  <2>1. \A i \in 1 .. Len(queue') : queue'[i].op # "root" =>
          i \in 1 .. Len(queue) /\ queue'[i] = queue[i]
    BY <1>2
  <2>2. QED
    BY <1>0, <1>1, <1>3, <2>1 DEF FramesNew
<1>8. NewHolds'
  <2>1. SavedDir' = SavedDir
    BY <1>1 DEF SavedDir
  <2>2. Header' = Header
    BY <1>0, <1>1, <1>4 DEF Header, NewHolds
  <2>3. \A p \in Page : HeaderEntry(p)'
    BY <1>0, <1>1, <2>1, <2>2 DEF NewHolds, HeaderEntry
  <2>4. QED
    BY <1>0, <1>1, <1>4, <2>2, <2>3 DEF NewHolds
<1>9. QED
  BY <1>5, <1>6, <1>7, <1>8 DEF DiskInv

(* From phase 5 on the new root leads to the picture being stabilized, and   *)
(* to the directory in core.                                                 *)
LEMMA NewRootHolds ==
  ASSUME IndInv, FrameInv, DataInv, DiskInv, ckptState = 5
  PROVE  /\ RootHolds(logHdr, logVal, stable, NextRoot, snapshot, astray)
         /\ \A p \in Page \ astray : Loaded(logHdr, NextRoot)[p] = dir[p]
<1>0. /\ TypeOK /\ SyncOrder /\ PagesHeld
      /\ OldHolds /\ DirHolds /\ FramesNew /\ NewHolds
  BY DEF IndInv, ControlInv, DataInv, DiskInv
<1>t. /\ genLids \in Seq(Lid) /\ genLids # <<>> /\ Head(genLids) \in Nat
      /\ Tail(genLids) = OldLids /\ Base \in Nat /\ workingGen \in Nat
      /\ dir \in [Page -> DirEntry] /\ Lid \subseteq Nat
  BY <1>0, LidTypes DEF TypeOK, OldLids
<1>1. ckptWait # "hdr"
  BY <1>0 DEF SyncOrder
<1>2. \A p \in Page : p \notin kro /\ ~HasCopy(p)
  BY <1>1, NoneLeft
<1>3. /\ Header = logHdr[Head(genLids)] /\ Head(genLids) \in stable
      /\ \A p \in Page : HeaderEntry(p)
      /\ \A p \in Page : Header[p] \notin {NoEntry, 0} => Header[p] \in stable
  BY <1>0 DEF NewHolds, HeaderStable, Header
<1>4. Base < Head(genLids)
  BY <1>0 DEF FramesNew
<1>5. RootHolds(logHdr, logVal, stable, OldRoot, committed, astray)
  BY <1>0 DEF OldHolds
<1>6. ASSUME NEW p \in Page
      PROVE  Loaded(logHdr, NextRoot)[p] =
               IF Header[p] # NoEntry THEN [gen |-> workingGen, loc |-> Header[p]]
               ELSE Loaded(logHdr, OldRoot)[p]
  <2>1. Loaded(logHdr, [gen |-> workingGen, hdrs |-> genLids])[p] =
          IF logHdr[Head(genLids)][p] # NoEntry
            THEN [gen |-> workingGen, loc |-> logHdr[Head(genLids)][p]]
            ELSE Loaded(logHdr, [gen |-> workingGen - 1,
                                 hdrs |-> Tail(genLids)])[p]
    <3>1. genLids \in Seq(Lid) /\ genLids # <<>> /\ workingGen \in Nat
      BY <1>t
    <3>2. QED
      BY <3>1, LoadedNext, ZenonT(60)
  <2>2. NextRoot = [gen |-> workingGen, hdrs |-> genLids]
        /\ OldRoot = [gen |-> workingGen - 1, hdrs |-> Tail(genLids)]
    BY <1>t DEF NextRoot, OldRoot
  <2>3. QED
    BY <1>3, <2>1, <2>2
<1>7. ASSUME NEW p \in Page \ astray
      PROVE  Loaded(logHdr, NextRoot)[p] = dir[p]
  <2>1. Header[p] = SavedDir[p]
    BY <1>3 DEF HeaderEntry
  <2>2. dir[p] \in DirEntry
    BY <1>t
  <2>3. dir[p].loc # NoEntry /\ dir[p] = [gen |-> dir[p].gen, loc |-> dir[p].loc]
    BY <2>2, ConstantsAssumption DEF DirEntry, NoEntry
  <2>4. CASE dir[p].gen = workingGen
    <3>1. SavedDir[p] = dir[p].loc
      BY <2>4 DEF SavedDir
    <3>2. QED
      BY <1>6, <2>1, <2>3, <2>4, <3>1
  <2>5. CASE dir[p].gen # workingGen
    <3>1. SavedDir[p] = NoEntry
      BY <2>5 DEF SavedDir
    <3>2. QED
      BY <1>0, <1>6, <2>1, <2>5, <3>1 DEF DirHolds
  <2>6. QED
    BY <2>4, <2>5
<1>8. NextRoot.hdrs = genLids /\ OldRoot.hdrs = OldLids
  BY DEF NextRoot, OldRoot
<1>9. ASSUME NEW i \in 1 .. Len(genLids)
      PROVE  genLids[i] \in stable /\ genLids[i] <= Head(genLids)
  <2>1. CASE i = 1
    BY <1>3, <1>t, <2>1
  <2>2. CASE i # 1
    <3>1. i - 1 \in 1 .. Len(OldLids) /\ OldLids[i - 1] = genLids[i]
      <4>1. Len(Tail(genLids)) = Len(genLids) - 1 /\ Len(genLids) \in Nat
            /\ \A k \in 1 .. Len(Tail(genLids)) : Tail(genLids)[k] = genLids[k + 1]
        BY <1>t
      <4>2. i - 1 \in 1 .. Len(Tail(genLids)) /\ i - 1 + 1 = i
        BY <2>2, <4>1
      <4>3. QED
        BY <1>t, <4>1, <4>2
    <3>2. OldLids[i - 1] \in stable /\ OldLids[i - 1] <= Base
      BY <1>5, <1>8, <3>1 DEF RootHolds, Base
    <3>3. genLids[i] \in Nat
      <4>1. genLids \in Seq(Lid)
        BY <1>t
      <4>2. genLids[i] \in Lid
        BY <4>1
      <4>3. QED
        BY <1>t, <4>2
    <3>4. QED
      BY <1>4, <1>t, <3>1, <3>2, <3>3
  <2>3. QED
    BY <2>1, <2>2
<1>10. ASSUME NEW p \in Page, Loaded(logHdr, NextRoot)[p].loc # 0
       PROVE  /\ Loaded(logHdr, NextRoot)[p].loc \in stable
              /\ Loaded(logHdr, NextRoot)[p].loc < Head(genLids)
  <2>1. CASE Header[p] # NoEntry
    <3>1. Loaded(logHdr, NextRoot)[p].loc = Header[p]
      <4>1. Loaded(logHdr, NextRoot)[p] = [gen |-> workingGen, loc |-> Header[p]]
        BY <1>6, <2>1, Zenon
      <4>2. QED
        BY <4>1
    <3>2. Header[p] # 0
      BY <1>10, <3>1
    <3>3. Header[p] \notin {NoEntry, 0} /\ HeaderEntry(p)
      BY <1>3, <2>1, <3>2
    <3>4. Header[p] \in stable /\ Header[p] < Head(genLids)
      BY <1>3, <3>3 DEF HeaderEntry
    <3>5. QED
      BY <3>1, <3>4
  <2>2. CASE Header[p] = NoEntry
    <3>1. Loaded(logHdr, NextRoot)[p] = Loaded(logHdr, OldRoot)[p]
      BY <1>6, <2>2
    <3> DEFINE l == Loaded(logHdr, OldRoot)[p].loc
    <3>2. l \in stable /\ l < Base
      BY <1>5, <1>8, <1>10, <3>1 DEF RootHolds, Base
    <3>3. l \in Nat
      BY <1>0, <1>t, <3>2 DEF TypeOK
    <3> HIDE DEF l
    <3>4. l < Head(genLids)
      BY <1>4, <1>t, <3>2, <3>3
    <3>5. QED
      BY <3>1, <3>2, <3>4 DEF l
  <2>3. QED
    BY <2>1, <2>2
<1>11. ASSUME NEW p \in Page \ astray
       PROVE  FoundIn(logVal, Loaded(logHdr, NextRoot)[p], p) = snapshot[p]
  <2>1. snapshot[p] = Picture(p)
    BY <1>0 DEF PagesHeld, PageData
  <2>2. Picture(p) = Stored(p)
    BY <1>2 DEF Picture
  <2>3. QED
    BY <1>7, <2>1, <2>2, StoredIs
<1>12. QED
  BY <1>7, <1>8, <1>9, <1>10, <1>11 DEF RootHolds

(* The checkpoint is complete: its picture is the committed one.             *)
LEMMA Phase5Disk ==
  ASSUME IndInv, IndInv', FrameInv, DataInv, DiskInv, DoPhase5Work
  PROVE  DiskInv'
<1>0. /\ TypeOK /\ ControlRequests /\ RootOrder
      /\ RootsHold /\ OldHolds /\ DirHolds /\ FramesNew /\ NewHolds
  BY DEF IndInv, ControlInv, DiskInv
<1>1. /\ ckptState = 5 /\ ckptState' = 0 /\ ckptWait = "none"
      /\ rangesSynced >= 1 /\ workingGen' = workingGen + 1
      /\ committed' = snapshot
      /\ UNCHANGED <<logHdr, logVal, written, stable, root, genLids, logCursor,
                     rootVolatile, dir, served, queue, newRoot, currentRoot,
                     astray>>
  BY DEF DoPhase5Work, AllSynced, diskVars
<1>t. workingGen \in Nat /\ genLids # <<>> /\ Head(genLids) \in Nat
  BY LidTypes
<1>2. \A i \in 1 .. Len(queue) : queue[i].op \notin {"write", "hdr", "root"}
  <2>1. \A i \in 1 .. Len(queue) : ~WriteAt(i)
    BY <1>1, NoneLeft
  <2>2. QED
    BY <1>0, <1>1, <2>1 DEF ControlRequests, Control, WriteAt
<1>3. ~RootPending
  BY <1>0, <1>1, <1>2 DEF RootPending, RootOrder
<1>4. OldLids' = genLids /\ OldRoot' = NextRoot /\ Base' = Head(genLids)
  <2>1. OldLids' = genLids
    BY <1>1 DEF OldLids
  <2>2. workingGen' - 1 = workingGen
    BY <1>1, <1>t
  <2>3. QED
    BY <2>1, <2>2 DEF OldRoot, NextRoot, Base
<1>5. /\ RootHolds(logHdr, logVal, stable, NextRoot, snapshot, astray)
      /\ \A p \in Page \ astray : Loaded(logHdr, NextRoot)[p] = dir[p]
  BY <1>1, NewRootHolds
<1>6. RootsHold'
  <2>1. root[currentRoot] = NextRoot /\ root[1 - currentRoot] = OldRoot
    BY <1>0, <1>1, <1>3 DEF RootsHold
  <2>2. root[1 - currentRoot].gen < workingGen' - 1 /\ workingGen' > 1
    BY <1>0, <1>1, <1>t, <2>1 DEF OldRoot, RootsHold
  <2>3. QED
    BY <1>1, <1>4, <1>t, <2>1, <2>2 DEF RootsHold
<1>7. OldHolds'
  <2>1. Head(genLids) < logCursor /\ stable \subseteq written
    BY <1>0, <1>1 DEF FramesNew, OldHolds
  <2>2. QED
    BY <1>1, <1>4, <1>5, <2>1 DEF OldHolds
<1>8. DirHolds'
  <2>1. \A p \in Page : dir[p].gen <= workingGen /\ dir[p].gen \in Nat
    BY <1>0 DEF DirHolds, TypeOK, DirEntry
  <2>2. \A p \in Page : dir[p].gen <= workingGen'
    BY <1>1, <1>t, <2>1
  <2>3. QED
    BY <1>1, <1>4, <1>5, <2>2 DEF DirHolds
<1>9. FramesNew'
  BY <1>1, <1>2 DEF FramesNew
<1>10. NewHolds'
  BY <1>1 DEF NewHolds, HeaderWritten, HeaderStable
<1>11. QED
  BY <1>6, <1>7, <1>8, <1>9, <1>10 DEF DiskInv

(* The device transfers the oldest request. What the last complete root      *)
(* leads to is not touched.                                                  *)
LEMMA TransferDisk ==
  ASSUME IndInv, IndInv', FrameInv, DataInv, DiskInv, Transfer
  PROVE  DiskInv'
<1>0. /\ TypeOK /\ ControlRequests /\ SyncOrder /\ RootOrder /\ PagesHeld
      /\ RootsHold /\ OldHolds /\ DirHolds /\ FramesNew /\ NewHolds
  BY DEF IndInv, ControlInv, DataInv, DiskInv
<1>1. PICK req : req = Head(queue)
  OBVIOUS
<1>2. /\ queue # <<>> /\ ~served /\ served' = TRUE
      /\ UNCHANGED <<ckptState, ckptWait, rangesSynced, genHdr, workingGen,
                     genLids, currentRoot, logCursor, queue, dir, committed,
                     astray>>
  BY DEF Transfer, ghostVars
<1>3. /\ logVal' = IF req.op = "write"
                     THEN [logVal EXCEPT ![req.lid] = WriteData(req)] ELSE logVal
      /\ logHdr' = IF req.op = "hdr"
                     THEN [logHdr EXCEPT ![req.lid] = genHdr] ELSE logHdr
      /\ written' = IF req.op \in {"write", "hdr"}
                      THEN written \cup {req.lid} ELSE written
      /\ stable' = CASE req.op = "sync" -> written
                     [] req.op \in {"write", "hdr"} -> stable \ {req.lid}
                     [] OTHER -> stable
      /\ root' = IF req.op = "sync" /\ rootVolatile
                   THEN [root EXCEPT ![currentRoot] = newRoot] ELSE root
      /\ newRoot' = IF req.op = "sync" THEN InvalidRoot ELSE newRoot
      /\ rootVolatile' = CASE req.op = "root" -> TRUE
                           [] req.op = "sync" -> FALSE
                           [] OTHER -> rootVolatile
  BY <1>1 DEF Transfer
<1>4. /\ req = queue[1] /\ 1 \in 1 .. Len(queue) /\ req \in Request
      /\ req.op \in {"read", "write", "hdr", "root", "sync"}
  <2>1. req = queue[1] /\ 1 \in 1 .. Len(queue) /\ req \in Request
    BY <1>0, <1>1, <1>2 DEF TypeOK
  <2>2. QED
    BY <2>1, RequestFields
<1>t. /\ Base \in Nat /\ Head(genLids) \in Lid /\ workingGen \in Nat
      /\ stable \subseteq Lid /\ Lid \subseteq Nat
      /\ logVal \in [Lid -> Value] /\ logHdr \in [Lid -> Saved]
      /\ root \in [{0, 1} -> Root] /\ currentRoot \in {0, 1}
  BY <1>0, LidTypes DEF TypeOK
<1>5. /\ OldLids' = OldLids /\ OldRoot' = OldRoot /\ Base' = Base
      /\ NextRoot' = NextRoot /\ SavedDir' = SavedDir
  BY <1>2 DEF OldLids, OldRoot, Base, NextRoot, SavedDir
<1>w. req.op \in {"write", "hdr"} => req.lid > Base /\ req.lid \in Lid
  <2>1. req.op \in {"write", "hdr"} => req.lid \in Lid
    BY <1>4, RequestFields
  <2>2. QED
    BY <1>0, <1>4, <2>1 DEF FramesNew
<1>c. req.op \in Control => ckptWait = req.op /\ ckptState \in {4, 5}
  BY <1>0, <1>4 DEF ControlRequests, Control, SyncOrder
<1>6. \A l \in stable : l <= Base \/ l < Base =>
        logHdr'[l] = logHdr[l] /\ logVal'[l] = logVal[l] /\ l \in stable'
  <2>1. SUFFICES ASSUME NEW l \in stable, l <= Base
                 PROVE  logHdr'[l] = logHdr[l] /\ logVal'[l] = logVal[l]
                        /\ l \in stable'
    BY <1>t
  <2>2. l \in Lid /\ l \in Nat /\ l \in written
    BY <1>0, <1>t DEF OldHolds
  <2>3. CASE req.op \in {"write", "hdr"}
    <3>1. l # req.lid
      BY <1>t, <1>w, <2>1, <2>2, <2>3
    <3>2. logHdr'[l] = logHdr[l]
      BY <1>3, <1>t, <2>2, <3>1
    <3>3. logVal'[l] = logVal[l]
      BY <1>3, <1>t, <2>2, <3>1
    <3>4. l \in stable'
      BY <1>3, <2>3, <3>1
    <3>5. QED
      BY <3>2, <3>3, <3>4
  <2>4. CASE req.op \notin {"write", "hdr"}
    BY <1>3, <2>2, <2>4
  <2>5. QED
    BY <2>3, <2>4
<1>7. /\ RootHolds(logHdr', logVal', stable', OldRoot, committed, astray)
      /\ Loaded(logHdr', OldRoot) = Loaded(logHdr, OldRoot)
  <2>1. OldRoot.hdrs = OldLids
    BY DEF OldRoot
  <2>2. QED
    BY <1>0, <1>6, <2>1, RootHoldsKept DEF OldHolds, Base
<1>8. OldHolds' /\ DirHolds'
  <2>1. stable' \subseteq written'
    BY <1>0, <1>3, <1>4 DEF OldHolds
  <2>2. OldHolds'
    BY <1>0, <1>2, <1>5, <1>7, <2>1 DEF OldHolds
  <2>3. DirHolds'
    BY <1>0, <1>2, <1>5, <1>7 DEF DirHolds
  <2>4. QED
    BY <2>2, <2>3
<1>9. FramesNew'
  BY <1>0, <1>2, <1>5 DEF FramesNew
<1>10. RootsHold'
  <2>0. OldLids # <<>> /\ workingGen > 1
    BY <1>0 DEF RootsHold
  <2>1. CASE req.op = "sync"
    <3>1. ~RootPending'
      <4>1. \A i \in 1 .. Len(queue) : queue[i].op # "root"
        BY <1>0, <1>4, <2>1 DEF ControlRequests, Control
      <4>2. rootVolatile' = FALSE
        BY <1>3, <2>1
      <4>3. QED
        BY <1>2, <4>1, <4>2 DEF RootPending
    <3>2. CASE rootVolatile
      <4>1. ckptState = 5 /\ RootPending
        BY <1>0, <3>2 DEF RootOrder, RootPending
      <4>2. newRoot = NextRoot /\ root[1 - currentRoot] = OldRoot
        BY <1>0, <4>1 DEF RootsHold
      <4>3. root' = [root EXCEPT ![currentRoot] = newRoot]
        BY <1>3, <2>1, <3>2
      <4>4. /\ 1 - currentRoot \in {0, 1} /\ 1 - currentRoot # currentRoot
        BY <1>t
      <4>5. root'[currentRoot] = NextRoot /\ root'[1 - currentRoot] = OldRoot
        BY <1>t, <4>2, <4>3, <4>4
      <4>6. QED
        BY <1>2, <1>5, <2>0, <3>1, <4>1, <4>5 DEF RootsHold
    <3>3. CASE ~rootVolatile
      <4>1. root' = root
        BY <1>3, <3>3
      <4>2. ~RootPending
        BY <1>0, <1>4, <2>1, <3>3 DEF RootPending, ControlRequests, Control
      <4>3. QED
        BY <1>0, <1>2, <1>5, <3>1, <4>1, <4>2 DEF RootsHold
    <3>4. QED
      BY <3>2, <3>3
  <2>2. CASE req.op # "sync"
    <3>1. root' = root /\ newRoot' = newRoot
      BY <1>3, <2>2
    <3>2. RootPending' <=> RootPending
      <4>1. CASE req.op = "root"
        BY <1>2, <1>4, <4>1 DEF RootPending
      <4>2. CASE req.op # "root"
        <5>1. rootVolatile' = rootVolatile
          BY <1>3, <2>2, <4>2
        <5>2. QED
          BY <1>2, <5>1 DEF RootPending
      <4>3. QED
        BY <4>1, <4>2
    <3>3. QED
      BY <1>0, <1>2, <1>5, <3>1, <3>2 DEF RootsHold
  <2>3. QED
    BY <2>1, <2>2
<1>h. req.op = "hdr" => req.lid = Head(genLids) /\ ckptState = 4
  <2>1. SUFFICES ASSUME req.op = "hdr" PROVE ckptState = 4 /\ req.lid = Head(genLids)
    OBVIOUS
  <2>2. req.lid = Head(genLids)
    BY <1>0, <1>4, <2>1 DEF FramesNew
  <2>3. ckptState = 4
    BY <1>0, <1>c, <2>1 DEF Control, SyncOrder
  <2>4. QED
    BY <2>2, <2>3
<1>11. Header' = Header /\ written \subseteq written'
  <2>1. logHdr' = logHdr \/ ckptState = 4
    BY <1>3, <1>h
  <2>2. QED
    BY <1>2, <1>3, <2>1 DEF Header
<1>12. /\ HeaderWritten' => Head(genLids) \in written'
       /\ ckptState = 4 /\ HeaderWritten' => logHdr'[Head(genLids)] = genHdr
  <2>1. CASE req.op = "hdr"
    BY <1>3, <1>t, <1>h, <2>1
  <2>2. CASE req.op # "hdr"
    <3>1. HeaderWritten' => HeaderWritten
      BY <1>1, <1>2, <2>2 DEF HeaderWritten
    <3>2. logHdr' = logHdr
      BY <1>3, <2>2
    <3>3. QED
      BY <1>0, <1>11, <3>1, <3>2 DEF NewHolds
  <2>3. QED
    BY <2>1, <2>2
<1>13. HeaderStable' =>
         /\ Head(genLids) \in stable'
         /\ \A p \in Page : Header[p] \notin {NoEntry, 0} => Header[p] \in stable'
  <2>1. CASE req.op = "sync"
    <3>1. ckptWait # "hdr" /\ ckptState \in {4, 5} /\ stable' = written
      BY <1>3, <1>c, <2>1 DEF Control
    <3>2. HeaderWritten
      BY <3>1 DEF HeaderWritten
    <3>3. Head(genLids) \in written
      BY <1>0, <3>2 DEF NewHolds
    <3>4. \A p \in Page : ~Pending(p)
      BY <3>1, NoneLeft DEF Pending
    <3>5. \A p \in Page : dir[p].loc # 0 => dir[p].loc \in written
      BY <1>0, <3>4 DEF PagesHeld, PageData
    <3>6. \A p \in Page : HeaderEntry(p)
      BY <1>0, <3>1 DEF NewHolds
    <3>7. ASSUME NEW p \in Page, Header[p] \notin {NoEntry, 0}
          PROVE  Header[p] \in written
      <4>1. \/ Header[p] \in written
            \/ dir[p] = [gen |-> workingGen, loc |-> Header[p]]
        BY <3>6, <3>7 DEF HeaderEntry
      <4>2. Header[p] # 0 /\ (dir[p].loc # 0 => dir[p].loc \in written)
        BY <3>5, <3>7
      <4>3. QED
        BY <4>1, <4>2
    <3>8. QED
      BY <3>1, <3>3, <3>7
  <2>2. CASE req.op \in {"write", "hdr"}
    <3>1. ckptState \in {4, 5} => ckptWait = "hdr"
      <4>1. CASE req.op = "write"
        <5>1. WriteAt(1)
          BY <1>4, <4>1 DEF WriteAt
        <5>2. QED
          BY <5>1, <1>4, NoneLeft
      <4>2. CASE req.op = "hdr"
        BY <1>c, <4>2 DEF Control
      <4>3. QED
        BY <2>2, <4>1, <4>2
    <3>2. ~HeaderStable'
      <4>1. Head(queue').op # "sync"
        BY <1>1, <1>2, <2>2
      <4>2. ckptWait = "hdr" => ckptState = 4 /\ rangesSynced = 0
        BY <1>0 DEF SyncOrder
      <4>3. QED
        BY <1>2, <3>1, <4>1, <4>2 DEF HeaderStable
    <3>3. QED
      BY <3>2
  <2>3. CASE req.op \in {"read", "root"}
    <3>1. HeaderStable' => HeaderStable
      BY <1>1, <1>2, <2>3 DEF HeaderStable
    <3>2. stable' = stable
      BY <1>3, <2>3
    <3>3. QED
      BY <1>0, <3>1, <3>2 DEF NewHolds
  <2>4. QED
    BY <1>4, <2>1, <2>2, <2>3
<1>14. ckptState \in 3 .. 5 => \A p \in Page : HeaderEntry(p)'
  BY <1>0, <1>2, <1>5, <1>11 DEF NewHolds, HeaderEntry
<1>15. NewHolds'
  BY <1>2, <1>11, <1>12, <1>13, <1>14 DEF NewHolds
<1>16. QED
  BY <1>8, <1>9, <1>10, <1>15 DEF DiskInv

-----------------------------------------------------------------------------
(* Power failure.                                                            *)

\* The picture that a restart from root r resumes.
Resumed(r) == IF snapshot # NoPicture /\ r.gen = workingGen
                THEN snapshot ELSE committed

(* Whatever a failure leaves of a root being written, restart chooses the    *)
(* last complete one, or the next once its header and pages are stable.      *)
LEMMA ChosenRoot ==
  ASSUME IndInv, DiskInv, NEW rt \in RootOutcomes
  PROVE  /\ \/ rt[ChooseRoot(rt)] = OldRoot
            \/ ckptState = 5 /\ rt[ChooseRoot(rt)] = NextRoot
         /\ rt[1 - ChooseRoot(rt)].gen < rt[ChooseRoot(rt)].gen
<1>0. TypeOK /\ ControlRequests /\ SyncOrder /\ RootOrder /\ RootsHold
  BY DEF IndInv, ControlInv, DiskInv
<1>1. \/ rt = root
      \/ /\ RootPending
         /\ \E x \in {root[currentRoot], newRoot, InvalidRoot} :
              rt = [root EXCEPT ![currentRoot] = x]
  <2>1. queue # <<>> => Head(queue) = queue[1] /\ 1 \in 1 .. Len(queue)
    BY <1>0 DEF TypeOK
  <2>2. QED
    BY <2>1 DEF RootOutcomes, RootPending
<1>2. RootPending => ckptState = 5
  BY <1>0 DEF RootPending, RootOrder, ControlRequests, Control, SyncOrder
<1>t. /\ root \in [{0, 1} -> Root] /\ currentRoot \in {0, 1}
      /\ workingGen \in Nat /\ workingGen > 1
      /\ OldRoot.gen = workingGen - 1 /\ NextRoot.gen = workingGen
      /\ InvalidRoot.gen = 0 /\ root[0].gen \in Nat /\ root[1].gen \in Nat
  BY <1>0 DEF TypeOK, RootsHold, OldRoot, NextRoot, InvalidRoot, Root
<1>3. PICK a, b : a = rt[currentRoot] /\ b = rt[1 - currentRoot]
  OBVIOUS
<1>4. \/ a = OldRoot /\ b.gen < a.gen /\ b.gen \in Nat
      \/ ckptState = 5 /\ a = NextRoot /\ b.gen < a.gen /\ b.gen \in Nat
      \/ b = OldRoot /\ a.gen < b.gen /\ a.gen \in Nat
  <2>1. CASE ckptState # 5
    BY <1>0, <1>1, <1>2, <1>3, <1>t, <2>1 DEF RootsHold
  <2>2. CASE ckptState = 5 /\ ~RootPending
    BY <1>0, <1>1, <1>3, <1>t, <2>2 DEF RootsHold
  <2>3. CASE ckptState = 5 /\ RootPending
    <3>1. /\ root[1 - currentRoot] = OldRoot /\ newRoot = NextRoot
          /\ root[currentRoot].gen < workingGen - 1
      BY <1>0, <2>3 DEF RootsHold
    <3>2. PICK x \in {root[currentRoot], newRoot, InvalidRoot} :
            rt = [root EXCEPT ![currentRoot] = x]
      BY <1>1, <1>t
    <3>3. a = x /\ b = OldRoot
      <4>1. 1 - currentRoot \in {0, 1} /\ 1 - currentRoot # currentRoot
        BY <1>t
      <4>2. QED
        BY <1>3, <1>t, <3>1, <3>2, <4>1
    <3>4. QED
      BY <1>t, <2>3, <3>1, <3>2, <3>3
  <2>4. QED
    BY <2>1, <2>2, <2>3
<1>5. /\ b.gen < a.gen /\ b.gen \in Nat /\ a.gen \in Nat => ChooseRoot(rt) = currentRoot
      /\ a.gen < b.gen /\ a.gen \in Nat /\ b.gen \in Nat => ChooseRoot(rt) = 1 - currentRoot
  BY <1>3, <1>t DEF ChooseRoot
<1>6. 1 - (1 - currentRoot) = currentRoot
  BY <1>t
<1>7. a.gen \in Nat /\ b.gen \in Nat
  BY <1>4, <1>t
<1>8. QED
  BY <1>3, <1>4, <1>5, <1>6, <1>7

(* The root chosen leads to the whole of one picture.                        *)
LEMMA ChosenHolds ==
  ASSUME IndInv, FrameInv, DataInv, DiskInv, NEW rt \in RootOutcomes, NEW r,
         r = rt[ChooseRoot(rt)]
  PROVE  RootHolds(logHdr, logVal, stable, r, Resumed(r), astray)
<1>0. TypeOK /\ SyncOrder /\ OldHolds
  BY DEF IndInv, ControlInv, DiskInv
<1>1. CASE r = OldRoot
  <2>1. Resumed(r) = committed
    <3>1. r.gen # workingGen
      BY <1>0, <1>1 DEF OldRoot, TypeOK
    <3>2. QED
      BY <3>1 DEF Resumed
  <2>2. QED
    BY <1>0, <1>1, <2>1 DEF OldHolds
<1>2. CASE ckptState = 5 /\ r = NextRoot
  <2>1. Resumed(r) = snapshot
    BY <1>0, <1>2 DEF Resumed, NextRoot, SyncOrder
  <2>2. QED
    BY <1>2, <2>1, NewRootHolds
<1>3. QED
  BY <1>1, <1>2, ChosenRoot

(* The generations of the directory that restart builds.                     *)
LEMMA LoadedGens ==
  ASSUME NEW h, NEW r, r.gen \in Nat, r.hdrs \in Seq(Lid), Len(r.hdrs) <= r.gen,
         NEW p \in Page
  PROVE  /\ Loaded(h, r)[p].gen <= r.gen
         /\ Loaded(h, r)[p].loc # 0 => Loaded(h, r)[p].gen # 0
<1> DEFINE has == {i \in 1 .. Len(r.hdrs) : h[r.hdrs[i]][p] # NoEntry}
           newest == CHOOSE i \in has : \A j \in has : i <= j
<1>1. CASE has = {}
  <2>1. Loaded(h, r)[p] = [gen |-> 0, loc |-> 0]
    BY <1>1 DEF Loaded
  <2>2. QED
    BY <2>1
<1>2. CASE has # {}
  <2>1. Loaded(h, r)[p] = [gen |-> r.gen + 1 - newest, loc |-> h[r.hdrs[newest]][p]]
    BY <1>2 DEF Loaded
  <2>2. has \subseteq Nat /\ has \subseteq 1 .. Len(r.hdrs)
    OBVIOUS
  <2>3. newest \in has
    <3> HIDE DEF has
    <3>1. \E i \in has : \A j \in has : i <= j
      BY <1>2, <2>2, SmallestElement
    <3>2. QED
      BY <3>1
  <2>4. newest \in 1 .. Len(r.hdrs)
    BY <2>2, <2>3
  <2> HIDE DEF newest, has
  <2>5. Len(r.hdrs) \in Nat
    OBVIOUS
  <2>6. QED
    BY <2>1, <2>4, <2>5
<1>3. QED
  BY <1>1, <1>2

(* What a failure and the restart after it leave: the root chosen is the     *)
(* last complete one, and the directory is the one it leads to.              *)
LEMMA CrashRecovers ==
  ASSUME IndInv, FrameInv, DataInv, DiskInv, CrashRestart
  PROVE  /\ DataInv' /\ DiskInv'
         /\ \E c \in {committed, snapshot} \ {NoPicture} :
              \A p \in Page \ astray : Current'[p] = c[p]
<1>0. TypeOK /\ TypeOK' /\ IndInv'
  BY CrashStep DEF IndInv
<1>1. PICK rt \in RootOutcomes :
        LET c == ChooseRoot(rt)
            r == rt[c]
        IN /\ root' = rt
           /\ currentRoot' = c
           /\ dir' = LoadedDir(r)
           /\ workingGen' = r.gen + 1
           /\ genLids' = r.hdrs
           /\ logCursor' = Head(r.hdrs) + 1
  BY DEF CrashRestart
<1>2. PICK r : r = rt[ChooseRoot(rt)]
  OBVIOUS
<1>3. /\ written' = stable /\ stable' = stable /\ snapshot' = NoPicture
      /\ astray' = {} /\ committed' = Current'
      /\ rootVolatile' = FALSE /\ served' = FALSE
      /\ cached' = {} /\ ckptState' = 0 /\ queue' = <<>>
      /\ logVal' = [l \in Lid |-> IF l \in stable THEN logVal[l] ELSE Zero]
      /\ logHdr' = [l \in Lid |-> IF l \in stable THEN logHdr[l]
                                  ELSE [p \in Page |-> NoEntry]]
  BY DEF CrashRestart
<1>4. /\ root' = rt /\ root'[currentRoot'] = r /\ dir' = Loaded(logHdr, r)
      /\ workingGen' = r.gen + 1 /\ genLids' = r.hdrs
      /\ logCursor' = Head(r.hdrs) + 1
  BY <1>1, <1>2, LoadedIs
<1>5. /\ r \in Root /\ r.gen \in Nat \ {0} /\ r.hdrs \in Seq(Lid)
      /\ r.hdrs # <<>> /\ Len(r.hdrs) <= r.gen
      /\ Head(r.hdrs) \in Lid /\ Lid \subseteq Nat
  <2>1. /\ rt \in [{0, 1} -> Root] /\ ChooseRoot(rt) \in {0, 1}
        /\ \A i \in {0, 1} : RootOK(rt[i])
        /\ r.gen \in Nat \ {0} /\ r.hdrs \in Seq(Lid)
    BY <1>2, ChosenRootValid
  <2>2. r \in Root /\ RootOK(r)
    BY <1>2, <2>1
  <2>3. r.hdrs # <<>> /\ Len(r.hdrs) <= r.gen
    BY <2>1, <2>2 DEF RootOK
  <2>4. Head(r.hdrs) \in Lid /\ Lid \subseteq Nat
    <3>1. Head(r.hdrs) \in Lid
      BY <2>1, <2>3
    <3>2. QED
      BY <3>1 DEF Lid
  <2>5. QED
    BY <2>1, <2>2, <2>3, <2>4
<1>6. RootHolds(logHdr, logVal, stable, r, Resumed(r), astray)
  BY <1>2, ChosenHolds
<1>7. /\ RootHolds(logHdr', logVal', stable', r, Resumed(r), astray)
      /\ Loaded(logHdr', r) = dir'
  <2>1. \A l \in stable :
          logHdr'[l] = logHdr[l] /\ logVal'[l] = logVal[l] /\ l \in stable'
    <3>1. stable \subseteq Lid
      BY <1>0 DEF TypeOK
    <3>2. QED
      BY <1>3, <3>1
  <2>2. QED
    BY <1>4, <1>6, <2>1, RootHoldsKept
<1>c. ASSUME NEW p \in Page
      PROVE  Current'[p] = FoundIn(logVal', dir'[p], p)
  <2>1. Current'[p] = Stored(p)'
    BY <1>3 DEF Current
  <2>2. Stored(p)' = FoundIn(logVal', dir'[p], p)
    BY DEF Stored, Found, FoundIn
  <2>3. QED
    BY <2>1, <2>2
<1>d. RootHolds(logHdr', logVal', stable', r, committed', astray')
  BY <1>3, <1>7, <1>c DEF RootHolds
<1>8. ~RootPending'
  BY <1>3 DEF RootPending
<1>9. OldLids' = r.hdrs /\ OldRoot' = r /\ Base' = Head(r.hdrs)
  <2>1. OldLids' = r.hdrs
    BY <1>3, <1>4 DEF OldLids
  <2>2. workingGen' - 1 = r.gen /\ r = [gen |-> r.gen, hdrs |-> r.hdrs]
    BY <1>4, <1>5 DEF Root
  <2>3. QED
    BY <2>1, <2>2 DEF OldRoot, Base
<1>10. RootsHold'
  <2>1. root'[1 - currentRoot'].gen < r.gen
    BY <1>1, <1>2, ChosenRoot
  <2>2. workingGen' > 1 /\ workingGen' - 1 = r.gen
    BY <1>4, <1>5
  <2>3. QED
    BY <1>3, <1>4, <1>5, <1>9, <2>1, <2>2 DEF RootsHold
<1>11. OldHolds'
  <2>1. Head(r.hdrs) < logCursor' /\ stable' \subseteq written'
    <3>1. Head(r.hdrs) \in Nat /\ logCursor' = Head(r.hdrs) + 1
      BY <1>4, <1>5
    <3>2. QED
      BY <1>3, <3>1
  <2>2. QED
    BY <1>d, <1>9, <2>1 DEF OldHolds
<1>12. \A p \in Page : /\ dir'[p].gen <= r.gen /\ dir'[p].gen \in Nat
                       /\ dir'[p].loc # 0 => dir'[p].gen # 0
  <2>1. dir' \in [Page -> DirEntry]
    BY <1>0 DEF TypeOK
  <2>2. \A p \in Page : dir'[p].gen \in Nat
    BY <2>1 DEF DirEntry
  <2>3. QED
    BY <1>4, <1>5, <2>2, LoadedGens
<1>13. DirHolds'
  <2>1. \A p \in Page : dir'[p].gen <= workingGen'
    BY <1>4, <1>5, <1>12
  <2>2. QED
    BY <1>7, <1>9, <2>1 DEF DirHolds
<1>14. FramesNew' /\ NewHolds'
  BY <1>3 DEF FramesNew, NewHolds, HeaderWritten, HeaderStable
<1>15. PagesHeld'
  <2>1. SUFFICES ASSUME NEW p \in Page PROVE PageData(p)'
    BY DEF PagesHeld
  <2>2. dir'[p].loc # 0 => /\ dir'[p].gen # 0 /\ dir'[p].loc < logCursor'
                           /\ dir'[p].loc \in written'
    <3>1. SUFFICES ASSUME dir'[p].loc # 0
                   PROVE  dir'[p].loc < logCursor' /\ dir'[p].loc \in written'
      BY <1>12
    <3>2. dir'[p].loc \in stable' /\ dir'[p].loc < Head(r.hdrs)
      BY <1>7, <3>1 DEF RootHolds
    <3>3. dir'[p].loc \in Nat
      BY <1>0, ConstantsAssumption DEF TypeOK, DirEntry
    <3>4. Head(r.hdrs) \in Nat /\ logCursor' = Head(r.hdrs) + 1
      BY <1>4, <1>5
    <3>5. QED
      BY <1>3, <3>2, <3>3, <3>4
  <2>3. QED
    BY <1>3, <2>2 DEF PageData
<1>16. WritesApart' /\ Transferred' /\ PictureOpen'
  BY <1>3 DEF WritesApart, Transferred, PictureOpen
<1>17. \A p \in Page \ astray : Current'[p] = Resumed(r)[p]
  BY <1>7, <1>c DEF RootHolds
<1>18. Resumed(r) \in {committed, snapshot} \ {NoPicture}
  BY <1>0, ConstantsAssumption DEF Resumed, TypeOK
<1>19. QED
  BY <1>10, <1>11, <1>13, <1>14, <1>15, <1>16, <1>17, <1>18 DEF DataInv, DiskInv

-----------------------------------------------------------------------------
(* The invariant.                                                            *)
RecoveryInv == IndInv /\ FrameInv /\ DataInv /\ DiskInv

(* Initially everything is in the home ranges, and generation 1 is empty.    *)
LEMMA InitRecovery == Init => RecoveryInv
<1> SUFFICES ASSUME Init PROVE DataInv /\ DiskInv
  BY InitInv, InitFrames DEF RecoveryInv
<1>f. /\ cached = {} /\ ckptState = 0 /\ workingGen = 2 /\ genLids = <<1>>
      /\ currentRoot = 0 /\ logCursor = 2 /\ queue = <<>> /\ served = FALSE
      /\ snapshot = NoPicture /\ committed = HomeValue /\ astray = {}
      /\ written = {1} /\ stable = {1}
      /\ dir = [p \in Page |-> [gen |-> 0, loc |-> 0]]
      /\ logHdr = [l \in Lid |-> [p \in Page |-> NoEntry]]
      /\ root = [i \in {0, 1} |-> IF i = 0 THEN [gen |-> 1, hdrs |-> <<1>>]
                                  ELSE InvalidRoot]
      /\ ~RootPending
  BY DEF Init, RootPending
<1>1. DataInv
  BY <1>f DEF DataInv, PagesHeld, PageData, WritesApart, Transferred, PictureOpen
<1>2. /\ <<1>> # <<>> /\ Len(<<1>>) = 1 /\ Head(<<1>>) = 1 /\ <<1>>[1] = 1
      /\ 1 .. 1 = {1} /\ 1 \in Lid /\ 2 - 1 = 1
  BY ConstantsAssumption DEF Lid
<1>3. /\ OldLids = <<1>> /\ OldRoot = [gen |-> 1, hdrs |-> <<1>>] /\ Base = 1
  <2>1. OldLids = <<1>>
    BY <1>f DEF OldLids
  <2>2. QED
    BY <1>2, <1>f, <2>1 DEF OldRoot, Base
<1>4. RootsHold
  <2>1. root[0] = OldRoot /\ root[1].gen = 0
    BY <1>3, <1>f DEF InvalidRoot
  <2>2. QED
    BY <1>2, <1>3, <1>f, <2>1 DEF RootsHold
<1>5. \A p \in Page : Loaded(logHdr, OldRoot)[p] = [gen |-> 0, loc |-> 0]
  <2>1. SUFFICES ASSUME NEW p \in Page
                 PROVE  Loaded(logHdr, OldRoot)[p] = [gen |-> 0, loc |-> 0]
    OBVIOUS
  <2>2. {i \in 1 .. Len(OldRoot.hdrs) : logHdr[OldRoot.hdrs[i]][p] # NoEntry} = {}
    BY <1>2, <1>3, <1>f
  <2>3. QED
    BY <2>2 DEF Loaded
<1>6. OldHolds
  <2>1. \A i \in 1 .. Len(OldRoot.hdrs) :
          OldRoot.hdrs[i] \in stable /\ OldRoot.hdrs[i] <= Head(OldRoot.hdrs)
    BY <1>2, <1>3, <1>f
  <2>2. \A p \in Page : FoundIn(logVal, Loaded(logHdr, OldRoot)[p], p) = committed[p]
    BY <1>5, <1>f DEF FoundIn
  <2>3. RootHolds(logHdr, logVal, stable, OldRoot, committed, astray)
    BY <1>5, <2>1, <2>2 DEF RootHolds
  <2>4. QED
    BY <1>3, <1>f, <2>3 DEF OldHolds
<1>7. DirHolds
  BY <1>5, <1>f DEF DirHolds
<1>8. FramesNew /\ NewHolds
  BY <1>f DEF FramesNew, NewHolds, HeaderWritten, HeaderStable
<1>9. QED
  BY <1>1, <1>4, <1>6, <1>7, <1>8 DEF DiskInv

(* Every step keeps the contents of pages.                                   *)
LEMMA NextData ==
  ASSUME RecoveryInv, [Next]_vars
  PROVE  DataInv'
<1>0. IndInv /\ FrameInv /\ DataInv /\ DiskInv /\ IndInv'
  BY NextInv DEF RecoveryInv
<1>1. CASE UNCHANGED vars
  BY <1>0, <1>1, PhaseData
<1>2. ASSUME NEW p \in Page, pageH_Clean(p), ~halted, UNCHANGED halted,
             ckptIsActive => p \in kro
      PROVE  DataInv'
  BY <1>0, <1>2, CleanZeroData, CleanWriteData
<1>3. CASE ~halted /\ (\E p \in Page : Process(p)) /\ UNCHANGED halted
  <2>1. PICK p \in Page : Process(p)
    BY <1>3
  <2>2. CASE GetObject(p)
    BY <1>0, <1>3, <2>2, GetZeroData, GetReadData
  <2>3. ASSUME NEW v \in Value,
               \/ StoreDirty(p, v) \/ StoreClean(p, v)
               \/ MitigateZero(p, v) \/ MitigateCopy(p, v)
        PROVE  DataInv'
    BY <1>0, <1>3, <2>3, StoreDirtyData, StoreCleanData, MitigateZeroData,
       MitigateCopyData
  <2>4. CASE MitigateMove(p) \/ ZeroPage(p) \/ AgeSteal(p)
    BY <1>0, <1>3, <2>4, MitigateMoveData, ZeroPageData, AgeStealData
  <2>5. CASE AgeClean(p)
    BY <1>2, <1>3, <2>5 DEF AgeClean, MayAgeClean
  <2>6. QED
    BY <2>1, <2>2, <2>3, <2>4, <2>5 DEF Process
<1>4. CASE DeclareDemarcationEvent
  BY <1>0, <1>4, PhaseData
<1>5. CASE ~halted /\ CheckpointThread /\ UNCHANGED halted
  <2>1. ASSUME NEW p \in Page, CleanAKROPage(p)
        PROVE  DataInv'
    BY <1>0, <1>2, <1>5, <2>1, CleanCopyZeroData, CleanCopyWriteData
       DEF CleanAKROPage
  <2>2. QED
    BY <1>0, <1>5, <2>1, Phase1Data, PhaseData, RequestData DEF CheckpointThread
<1>6. CASE Disk
  BY <1>0, <1>6, TransferData, EndReadData, EndCleanData, EndCopyData, DoneData
     DEF Disk
<1>7. CASE CrashRestart
  BY <1>0, <1>7, CrashRecovers
<1>8. QED
  BY <1>1, <1>3, <1>4, <1>5, <1>6, <1>7 DEF Next

(* Every step keeps what the disk holds.                                     *)
LEMMA NextDisk ==
  ASSUME RecoveryInv, [Next]_vars
  PROVE  DiskInv'
<1>0. IndInv /\ FrameInv /\ DataInv /\ DiskInv /\ IndInv'
  BY NextInv DEF RecoveryInv
<1>1. CASE UNCHANGED vars \/ DeclareDemarcationEvent
  BY <1>0, <1>1, PhaseDisk
<1>2. CASE \E p \in Page : Process(p)
  BY <1>0, <1>2, ProcessDisk
<1>3. CASE CheckpointThread
  <2>1. ASSUME NEW p \in Page, CleanAKROPage(p)
        PROVE  DiskInv'
    BY <1>0, <2>1, CleanDisk, CleanCopyDisk DEF CleanAKROPage
  <2>2. QED
    BY <1>0, <1>3, <2>1, PhaseDisk, Phase3Disk, SyncDisk, Phase4Disk, Phase5Disk
       DEF CheckpointThread
<1>4. CASE Disk
  BY <1>0, <1>4, TransferDisk, DoneDisk
<1>5. CASE CrashRestart
  BY <1>0, <1>5, CrashRecovers
<1>6. QED
  BY <1>1, <1>2, <1>3, <1>4, <1>5 DEF Next

(* The invariant is inductive.                                               *)
LEMMA NextRecovery ==
  ASSUME RecoveryInv, [Next]_vars
  PROVE  RecoveryInv'
  BY NextInv, NextFrames, NextData, NextDisk DEF RecoveryInv

(* It says that the picture is kept.                                         *)
LEMMA InvPicture == RecoveryInv => PictureKept
  BY DEF RecoveryInv, DataInv, PagesHeld, PageData, Picture, PictureKept

(* It says that a restart finds one whole picture.                           *)
LEMMA InvRecoverable == RecoveryInv => Recoverable
<1> SUFFICES ASSUME RecoveryInv, NEW rt \in RootOutcomes
             PROVE  LET r == rt[ChooseRoot(rt)]
                        d == LoadedDir(r)
                    IN /\ r.gen # 0
                       /\ \A i \in 1 .. Len(r.hdrs) : r.hdrs[i] \in stable
                       /\ \A p \in Page : d[p].loc # 0 => d[p].loc \in stable
                       /\ \A p \in Page \ astray : Found(d[p], p) = Resumed(r)[p]
  BY DEF Recoverable, Resumed
<1>1. PICK r, d : r = rt[ChooseRoot(rt)] /\ d = LoadedDir(r)
  OBVIOUS
<1>2. d = Loaded(logHdr, r)
  BY <1>1, LoadedIs
<1>3. RootHolds(logHdr, logVal, stable, r, Resumed(r), astray)
  BY <1>1, ChosenHolds DEF RecoveryInv
<1>4. r.gen # 0
  BY <1>1, ChosenRootValid DEF RecoveryInv
<1>5. /\ \A i \in 1 .. Len(r.hdrs) : r.hdrs[i] \in stable
      /\ \A p \in Page : d[p].loc # 0 => d[p].loc \in stable
      /\ \A p \in Page \ astray : FoundIn(logVal, d[p], p) = Resumed(r)[p]
  BY <1>2, <1>3 DEF RootHolds
<1>6. \A p : Found(d[p], p) = FoundIn(logVal, d[p], p)
  BY DEF Found, FoundIn
<1>7. QED
  BY <1>1, <1>4, <1>5, <1>6

-----------------------------------------------------------------------------
(* The refinement. What the processes see is unchanged when pages in core    *)
(* keep their contents and the others stay where they are stored.            *)
LEMMA CurrentKept ==
  ASSUME \A q \in Page :
           /\ q \in cached' \ fetching' <=> q \in cached \ fetching
           /\ q \in cached \ fetching => val'[q] = val[q]
           /\ q \notin cached \ fetching => Stored(q)' = Stored(q)
  PROVE  Current' = Current
<1>1. \A q \in Page :
        (IF q \in cached' \ fetching' THEN val'[q] ELSE Stored(q)')
          = (IF q \in cached \ fetching THEN val[q] ELSE Stored(q))
  OBVIOUS
<1>2. QED
  BY <1>1 DEF Current

(* It changes at one page when that page's contents change.                  *)
LEMMA CurrentStored ==
  ASSUME NEW p \in Page, NEW v,
         p \in cached' \ fetching' => val'[p] = v,
         p \notin cached' \ fetching' => Stored(p)' = v,
         \A q \in Page \ {p} :
           /\ q \in cached' \ fetching' <=> q \in cached \ fetching
           /\ val'[q] = val[q] /\ Stored(q)' = Stored(q)
  PROVE  Current' = [Current EXCEPT ![p] = v]
<1>1. \A q \in Page :
        (IF q \in cached' \ fetching' THEN val'[q] ELSE Stored(q)')
          = (IF q = p THEN v
             ELSE IF q \in cached \ fetching THEN val[q] ELSE Stored(q))
  OBVIOUS
<1>2. [Current EXCEPT ![p] = v] =
        [q \in Page |-> IF q = p THEN v
                        ELSE IF q \in cached \ fetching THEN val[q] ELSE Stored(q)]
  BY DEF Current
<1>3. Current' = [q \in Page |-> IF q \in cached' \ fetching' THEN val'[q]
                                 ELSE Stored(q)']
  BY DEF Current
<1>4. QED
  BY <1>1, <1>2, <1>3

\* What the processes see is a state of the abstract store.
LEMMA CurrentType ==
  ASSUME TypeOK
  PROVE  Current \in [Page -> Value]
<1>1. /\ val \in [Page -> Value] /\ dir \in [Page -> DirEntry]
      /\ logVal \in [Lid -> Value] /\ HomeValue \in [Page -> Value] /\ Zero \in Value
  BY ConstantsAssumption DEF TypeOK
<1>2. ASSUME NEW p \in Page PROVE Stored(p) \in Value
  <2>1. /\ dir[p].gen # 0 /\ dir[p].loc # 0 => dir[p].loc \in Lid
    BY <1>1, ConstantsAssumption DEF DirEntry, Lid
  <2>2. QED
    BY <1>1, <2>1 DEF Stored, Found
<1>3. QED
  BY <1>1, <1>2 DEF Current

(* A store by a process, into a page in core or one it zeroes.               *)
LEMMA StoreStep ==
  ASSUME RecoveryInv, NEW p \in Page, NEW v \in Value,
         \/ StoreDirty(p, v) \/ StoreClean(p, v) \/ MitigateZero(p, v)
         \/ MitigateCopy(p, v) \/ (v = Zero /\ ZeroPage(p))
  PROVE  Store!Write(p, v) \/ Store!Forsake({p}, p, v)
<1>0. TypeOK /\ FrameState(p)
  BY DEF RecoveryInv, IndInv, FrameInv, FrameStates
<1>t. /\ val \in [Page -> Value] /\ dir \in [Page -> DirEntry]
      /\ dirty \subseteq cached /\ kro \subseteq cached /\ workingGen # 0
  BY <1>0 DEF TypeOK
<1>1. UNCHANGED <<snapshot, committed, logVal, cached, fetching>>
  BY DEF StoreDirty, StoreClean, MitigateZero, MitigateCopy, ZeroPage, ghostVars,
     diskVars, cacheVars
<1>2. CASE v = Zero /\ ZeroPage(p)
  <2>1. /\ p \notin cached /\ UNCHANGED <<val, logVal>>
        /\ dir' = [dir EXCEPT ![p] = [gen |-> workingGen, loc |-> 0]]
    BY <1>2 DEF ZeroPage, Record, cacheVars, diskVars
  <2>2. Stored(p)' = Zero
    BY <1>t, <2>1 DEF Stored, Found
  <2>3. \A q \in Page \ {p} : Stored(q)' = Stored(q)
    BY <1>t, <2>1 DEF Stored, Found
  <2>4. Current' = [Current EXCEPT ![p] = v]
    BY <1>1, <1>2, <2>1, <2>2, <2>3, CurrentStored
  <2>5. UNCHANGED astray \/ astray' = astray \cup {p}
    BY <1>2 DEF ZeroPage
  <2>6. /\ Current' \in [Page -> Value] /\ Current'[p] = v
        /\ \A q \in Page \ {p} : Current'[q] = Current[q]
    <3>1. Current \in [Page -> Value]
      BY <1>0, CurrentType
    <3>2. QED
      BY <2>4, <3>1
  <2>7. CASE UNCHANGED astray
    BY <1>1, <2>4, <2>7 DEF Store!Write
  <2>8. CASE astray' = astray \cup {p}
    BY <1>1, <2>6, <2>8 DEF Store!Forsake, Store!State
  <2>9. QED
    BY <2>5, <2>7, <2>8
<1>3. CASE ~(v = Zero /\ ZeroPage(p))
  <2>1. /\ p \in cached \ fetching /\ val' = [val EXCEPT ![p] = v]
        /\ \A q \in Page \ {p} : dir'[q] = dir[q]
    BY <1>0, <1>3, <1>t DEF StoreDirty, StoreClean, MitigateZero, MitigateCopy,
       Record, FrameState
  <2>2. \A q \in Page \ {p} : val'[q] = val[q] /\ Stored(q)' = Stored(q)
    BY <1>1, <1>t, <2>1 DEF Stored, Found
  <2>3. val'[p] = v
    BY <1>t, <2>1
  <2>4. Current' = [Current EXCEPT ![p] = v]
    BY <1>1, <2>1, <2>2, <2>3, CurrentStored
  <2>5. UNCHANGED astray
    BY <1>3 DEF StoreDirty, StoreClean, MitigateZero, MitigateCopy, ghostVars
  <2>6. QED
    BY <1>1, <2>4, <2>5 DEF Store!Write
<1>4. QED
  BY <1>2, <1>3

(* Fetching, copying, cleaning and evicting a page are not seen.             *)
LEMMA HiddenStep ==
  ASSUME RecoveryInv, NEW p \in Page,
         \/ GetObject(p) \/ MitigateMove(p) \/ AgeClean(p) \/ AgeSteal(p)
         \/ CleanAKROPage(p)
  PROVE  UNCHANGED <<Current, snapshot, committed, astray>>
<1>0. TypeOK /\ FrameState(p) /\ PageData(p)
  BY DEF RecoveryInv, IndInv, FrameInv, FrameStates, DataInv, PagesHeld
<1>t. /\ val \in [Page -> Value] /\ dir \in [Page -> DirEntry]
      /\ dirty \subseteq cached /\ kro \subseteq cached /\ fetching \subseteq cached
  BY <1>0 DEF TypeOK
<1>1. UNCHANGED <<snapshot, committed, astray, logVal>>
  BY DEF GetObject, MitigateMove, AgeClean, AgeSteal, CleanAKROPage, pageH_Clean,
     CleanCopy, ghostVars, diskVars
<1>2. CASE GetObject(p)
  <2>1. p \notin cached /\ cached' = cached \cup {p} /\ dir' = dir
    BY <1>2 DEF GetObject
  <2>2. \A q \in Page : Stored(q)' = Stored(q)
    BY <1>1, <2>1 DEF Stored, Found
  <2>3. CASE dir[p].gen # 0 /\ dir[p].loc = 0
    <3>1. val' = [val EXCEPT ![p] = Zero] /\ fetching' = fetching
      BY <1>2, <2>3 DEF GetObject
    <3>2. Stored(p) = Zero
      BY <2>3 DEF Stored, Found
    <3>3. \A q \in Page :
            (IF q \in cached' \ fetching' THEN val'[q] ELSE Stored(q)')
              = (IF q \in cached \ fetching THEN val[q] ELSE Stored(q))
      BY <1>t, <2>1, <2>2, <3>1, <3>2
    <3>4. QED
      BY <1>1, <3>3 DEF Current
  <2>4. CASE ~(dir[p].gen # 0 /\ dir[p].loc = 0)
    <3>1. val' = val /\ fetching' = fetching \cup {p}
      BY <1>2, <2>4 DEF GetObject
    <3>2. QED
      BY <1>1, <2>1, <2>2, <3>1, CurrentKept
  <2>5. QED
    BY <2>3, <2>4
<1>3. CASE MitigateMove(p)
  <2>1. UNCHANGED <<cached, fetching, val, dir>>
    BY <1>3 DEF MitigateMove
  <2>2. \A q \in Page : Stored(q)' = Stored(q)
    BY <1>1, <2>1 DEF Stored, Found
  <2>3. QED
    BY <1>1, <2>1, <2>2, CurrentKept
<1>4. CASE AgeSteal(p)
  <2>1. /\ p \in cached \ fetching /\ p \notin dirty /\ lid[p] = 0
        /\ cached' = cached \ {p} /\ val' = [val EXCEPT ![p] = Zero]
        /\ UNCHANGED <<fetching, dir>>
    BY <1>4 DEF AgeSteal, Stealable
  <2>2. \A q \in Page : Stored(q)' = Stored(q)
    BY <1>1, <2>1 DEF Stored, Found
  <2>3. val[p] = Stored(p)
    BY <1>0, <2>1 DEF PageData
  <2>4. \A q \in Page :
          (IF q \in cached' \ fetching' THEN val'[q] ELSE Stored(q)')
            = (IF q \in cached \ fetching THEN val[q] ELSE Stored(q))
    BY <1>t, <2>1, <2>2, <2>3
  <2>5. QED
    BY <1>1, <2>4 DEF Current
<1>5. CASE pageH_Clean(p) \/ CleanCopy(p)
  <2>1. p \in cached \ fetching
    <3>1. CASE pageH_Clean(p)
      BY <1>t, <3>1 DEF pageH_Clean
    <3>2. CASE CleanCopy(p)
      <4>1. HasCopy(p)
        BY <3>2 DEF CleanCopy, HasCopy, NoCopy
      <4>2. QED
        BY <1>0, <1>t, <4>1 DEF FrameState
    <3>3. QED
      BY <1>5, <3>1, <3>2
  <2>2. UNCHANGED <<cached, fetching, val>> /\ \A q \in Page \ {p} : dir'[q] = dir[q]
    BY <1>5, <1>t DEF pageH_Clean, CleanCopy, Record
  <2>3. \A q \in Page \ {p} : Stored(q)' = Stored(q)
    BY <1>1, <2>2 DEF Stored, Found
  <2>4. QED
    BY <1>1, <2>1, <2>2, <2>3, CurrentKept
<1>6. QED
  BY <1>2, <1>3, <1>4, <1>5 DEF AgeClean, CleanAKROPage

(* The moment of demarcation catches all the pages at once.                  *)
LEMMA DemarcateStep ==
  ASSUME RecoveryInv, DoPhase1Work
  PROVE  Store!Demarcate
<1>1. /\ ckptState = 1 /\ snapshot' = Current
      /\ UNCHANGED <<cached, fetching, val, logVal, committed, astray>>
      /\ dir' = [p \in Page |->
                   IF p \in cached \ dirty /\ CheckpointPage(p)
                     THEN [gen |-> workingGen, loc |-> lid[p]] ELSE dir[p]]
  BY DEF DoPhase1Work, diskVars
<1>2. snapshot = NoPicture
  BY <1>1 DEF RecoveryInv, DataInv, PictureOpen
<1>3. ASSUME NEW q \in Page, q \notin cached \ fetching
      PROVE  Stored(q)' = Stored(q)
  <2>1. dir'[q] = dir[q]
    BY <1>1, <1>3 DEF CheckpointPage
  <2>2. QED
    BY <1>1, <2>1 DEF Stored, Found
<1>4. Current' = Current
  BY <1>1, <1>3, CurrentKept
<1>5. QED
  BY <1>1, <1>2, <1>4 DEF Store!Demarcate

(* The checkpoint thread otherwise: phase 5 ends in a new committed picture. *)
LEMMA ThreadStep ==
  ASSUME RecoveryInv,
         \/ DeclareDemarcationEvent \/ DoPhase2Work \/ DoPhase3Work \/ DoSync
         \/ DoPhase4Work \/ DoPhase5Work \/ UNCHANGED vars
  PROVE  Store!Stabilize \/ UNCHANGED <<Current, snapshot, committed, astray>>
<1>1. UNCHANGED <<cached, fetching, val, dir, logVal>>
  BY DEF DeclareDemarcationEvent, DoPhase2Work, DoPhase3Work, DoSync,
     DoPhase4Work, DoPhase5Work, vars, cacheVars, diskVars
<1>2. Current' = Current
  <2>1. \A q \in Page : Stored(q)' = Stored(q)
    BY <1>1 DEF Stored, Found
  <2>2. QED
    BY <1>1, <2>1, CurrentKept
<1>3. CASE DoPhase5Work
  <2>1. snapshot # NoPicture
    BY <1>3 DEF DoPhase5Work, RecoveryInv, IndInv, ControlInv, SyncOrder
  <2>2. committed' = snapshot /\ snapshot' = NoPicture /\ astray' = astray
    BY <1>3 DEF DoPhase5Work
  <2>3. QED
    BY <1>2, <2>1, <2>2 DEF Store!Stabilize
<1>4. CASE ~DoPhase5Work
  <2>1. UNCHANGED <<snapshot, committed, astray>>
    BY <1>4 DEF DeclareDemarcationEvent, DoPhase2Work, DoPhase3Work, DoSync,
       DoPhase4Work, vars, ghostVars
  <2>2. QED
    BY <1>2, <2>1
<1>5. QED
  BY <1>3, <1>4

(* The disk is not seen: a page is written while its frame is in core, and   *)
(* is read from where the directory says.                                    *)
LEMMA DiskHidden ==
  ASSUME RecoveryInv, DataInv', Disk
  PROVE  UNCHANGED <<Current, snapshot, committed, astray>>
<1>0. /\ TypeOK /\ FrameStates /\ ReadRequests /\ WritesApart
  BY DEF RecoveryInv, IndInv, FrameInv, DataInv
<1>t. /\ val \in [Page -> Value] /\ dir \in [Page -> DirEntry]
      /\ dirty \subseteq cached /\ kro \subseteq cached
      /\ logVal \in [Lid -> Value] /\ lid \in [Page -> 0 .. MaxLid]
  BY <1>0 DEF TypeOK
<1>1. UNCHANGED <<snapshot, committed, astray, cached>>
  BY DEF Disk, Transfer, IOReq_EndReadPage, IOReq_EndPageClean,
     EndPageCleanAsserts, IOReq_EndGenHdrWrite, IOReq_EndCkptRootWrite,
     IOReq_EndSync, ghostVars, cacheVars
<1>2. CASE Transfer
  <2>1. UNCHANGED <<cached, fetching, val, dir, queue>> /\ queue # <<>>
    BY <1>2 DEF Transfer, cacheVars
  <2>2. PICK req : req = Head(queue)
    OBVIOUS
  <2>3. req = queue[1] /\ 1 \in 1 .. Len(queue)
    BY <1>0, <2>1, <2>2 DEF TypeOK
  <2>4. logVal' = IF req.op = "write"
                    THEN [logVal EXCEPT ![req.lid] = WriteData(req)] ELSE logVal
    BY <1>2, <2>2 DEF Transfer
  <2>5. ASSUME NEW q \in Page, q \notin cached \ fetching
        PROVE  Stored(q)' = Stored(q)
    <3>1. q \notin kro /\ ~HasCopy(q)
      BY <1>0, <1>t, <2>5 DEF FrameStates, FrameState
    <3>2. dir[q].loc # 0 => dir[q].loc \in Lid
      BY <1>t, ConstantsAssumption DEF DirEntry, Lid
    <3>3. req.op = "write" => dir[q].loc # req.lid
      BY <1>0, <2>3, <3>1 DEF WritesApart, WriteAt
    <3>4. dir[q].loc # 0 => logVal'[dir[q].loc] = logVal[dir[q].loc]
      BY <1>t, <2>4, <3>2, <3>3
    <3>5. QED
      BY <2>1, <3>4 DEF Stored, Found
  <2>6. QED
    BY <1>1, <2>1, <2>5, CurrentKept
<1>3. CASE IOReq_EndReadPage
  <2>1. PICK p : p = Head(queue).page
    OBVIOUS
  <2>2. /\ Completed("read") /\ fetching' = fetching \ {p}
        /\ \E v : val' = [val EXCEPT ![p] = v]
        /\ UNCHANGED <<dirty, lid, dir, logVal>>
    BY <1>3, <2>1 DEF IOReq_EndReadPage, diskVars
  <2>3. p \in fetching /\ p \in Page
    <3>1. Head(queue) = queue[1] /\ 1 \in 1 .. Len(queue) /\ Head(queue).op = "read"
      BY <1>0, <2>2, Dequeue
    <3>2. QED
      BY <1>0, <2>1, <3>1 DEF ReadRequests, ReadAt, TypeOK
  <2>4. \A q \in Page : Stored(q)' = Stored(q)
    BY <2>2 DEF Stored, Found
  <2>5. val'[p] = Stored(p)
    <3>1. lid[p] = 0 /\ p \notin dirty /\ p \in cached
      BY <1>0, <2>3 DEF FrameStates, FrameState, TypeOK
    <3>2. PageData(p)'
      BY <2>3 DEF DataInv, PagesHeld
    <3>3. val'[p] = Stored(p)'
      BY <1>1, <2>2, <2>3, <3>1, <3>2 DEF PageData
    <3>4. QED
      BY <2>3, <2>4, <3>3
  <2>6. \A q \in Page \ {p} : val'[q] = val[q]
    BY <1>t, <2>2
  <2>7. \A q \in Page :
          (IF q \in cached' \ fetching' THEN val'[q] ELSE Stored(q)')
            = (IF q \in cached \ fetching THEN val[q] ELSE Stored(q))
    BY <1>1, <2>2, <2>3, <2>4, <2>5, <2>6
  <2>8. QED
    BY <1>1, <2>7 DEF Current
<1>4. CASE IOReq_EndPageClean
  <2>1. PICK p, l : p = Head(queue).page /\ l = Head(queue).lid
    OBVIOUS
  <2>2. /\ Completed("write") /\ UNCHANGED <<fetching, val, logVal>>
        /\ \/ lid[p] = l /\ (dir' = dir \/ dir' = Record(p, l))
           \/ dir' = dir
    BY <1>4, <2>1 DEF IOReq_EndPageClean, diskVars
  <2>3. p \in Page /\ l # 0
    <3>1. Head(queue) = queue[1] /\ WriteAt(1)
      BY <1>0, <2>2, Dequeue DEF WriteAt
    <3>2. p \in Page /\ l \in Lid
      BY <1>0, <2>1, <3>1, WriteFields
    <3>3. QED
      BY <3>2 DEF Lid
  <2>4. ASSUME NEW q \in Page, q \notin cached \ fetching
        PROVE  Stored(q)' = Stored(q)
    <3>1. lid[q] = 0
      BY <1>0, <2>4 DEF FrameStates, FrameState
    <3>2. dir'[q] = dir[q]
      BY <1>t, <2>2, <2>3, <3>1 DEF Record
    <3>3. QED
      BY <2>2, <3>2 DEF Stored, Found
  <2>5. QED
    BY <1>1, <2>2, <2>4, CurrentKept
<1>5. CASE \/ EndPageCleanAsserts \/ IOReq_EndGenHdrWrite
           \/ IOReq_EndCkptRootWrite \/ IOReq_EndSync
  <2>1. UNCHANGED <<cached, fetching, val, dir, logVal>>
    BY <1>5 DEF EndPageCleanAsserts, IOReq_EndGenHdrWrite,
       IOReq_EndCkptRootWrite, IOReq_EndSync, cacheVars, diskVars
  <2>2. \A q \in Page : Stored(q)' = Stored(q)
    BY <2>1 DEF Stored, Found
  <2>3. QED
    BY <1>1, <2>1, <2>2, CurrentKept
<1>6. QED
  BY <1>2, <1>3, <1>4, <1>5 DEF Disk

(* A restart resumes one whole picture.                                      *)
LEMMA RestartStep ==
  ASSUME RecoveryInv, CrashRestart
  PROVE  Store!Restart
<1>1. \E c \in {committed, snapshot} \ {NoPicture} :
        \A p \in Page \ astray : Current'[p] = c[p]
  BY CrashRecovers DEF RecoveryInv
<1>2. snapshot' = NoPicture /\ astray' = {} /\ committed' = Current'
  BY DEF CrashRestart
<1>3. committed' \in [Page -> Value]
  BY CrashStep DEF RecoveryInv, IndInv, TypeOK
<1>4. QED
  BY <1>1, <1>2, <1>3 DEF Store!Restart, Store!State

(* Initially the processes see the committed picture.                        *)
LEMMA InitStore == Init => Store!Init
<1> SUFFICES ASSUME Init PROVE Store!Init
  OBVIOUS
<1>1. /\ cached = {} /\ dir = [p \in Page |-> [gen |-> 0, loc |-> 0]]
      /\ snapshot = NoPicture /\ committed = HomeValue /\ astray = {}
  BY DEF Init
<1>2. \A p \in Page : Stored(p) = HomeValue[p]
  BY <1>1 DEF Stored, Found
<1>3. HomeValue \in [Page -> Value]
  BY ConstantsAssumption
<1>4. Current = HomeValue
  <2>1. Current = [p \in Page |-> HomeValue[p]]
    BY <1>1, <1>2 DEF Current
  <2>2. QED
    BY <1>3, <2>1
<1>5. QED
  BY <1>1, <1>3, <1>4 DEF Store!Init, Store!State

(* Every step is a step of the abstract store, or is not seen there.         *)
LEMMA NextStore ==
  ASSUME RecoveryInv, [Next]_vars
  PROVE  Store!Next \/ UNCHANGED <<Current, snapshot, committed, astray>>
<1>0. DataInv'
  BY NextData
<1>1. ASSUME NEW p \in Page, Process(p)
      PROVE  Store!Next \/ UNCHANGED <<Current, snapshot, committed, astray>>
  <2>1. ASSUME NEW v \in Value,
               \/ StoreDirty(p, v) \/ StoreClean(p, v)
               \/ MitigateZero(p, v) \/ MitigateCopy(p, v)
        PROVE  Store!Next
    <3>1. Store!Write(p, v) \/ Store!Forsake({p}, p, v)
      BY <2>1, StoreStep
    <3>2. QED
      BY <3>1 DEF Store!Next
  <2>2. CASE ZeroPage(p)
    <3>1. (Store!Write(p, Zero) \/ Store!Forsake({p}, p, Zero)) /\ Zero \in Value
      BY <2>2, StoreStep, ConstantsAssumption
    <3>2. QED
      BY <3>1 DEF Store!Next
  <2>3. CASE GetObject(p) \/ MitigateMove(p) \/ AgeClean(p) \/ AgeSteal(p)
    BY <2>3, HiddenStep
  <2>4. QED
    BY <1>1, <2>1, <2>2, <2>3 DEF Process
<1>2. CASE CheckpointThread
  <2>1. CASE DoPhase1Work
    BY <2>1, DemarcateStep DEF Store!Next
  <2>2. CASE \E p \in Page : CleanAKROPage(p)
    BY <2>2, HiddenStep
  <2>3. CASE \/ DoPhase2Work \/ DoPhase3Work \/ DoSync \/ DoPhase4Work
             \/ DoPhase5Work
    BY <2>3, ThreadStep DEF Store!Next
  <2>4. QED
    BY <1>2, <2>1, <2>2, <2>3 DEF CheckpointThread
<1>3. CASE DeclareDemarcationEvent \/ UNCHANGED vars
  BY <1>3, ThreadStep DEF Store!Next
<1>4. CASE Disk
  BY <1>0, <1>4, DiskHidden
<1>5. CASE CrashRestart
  BY <1>5, RestartStep DEF Store!Next
<1>6. QED
  BY <1>1, <1>2, <1>3, <1>4, <1>5 DEF Next
-----------------------------------------------------------------------------
(* The theorems. They say of every behaviour which pages are kept: all but   *)
(* those that OC_capros_Page_zero recorded, not being in core, while a       *)
(* checkpoint was being stabilized.                                          *)

(* The version of each page caught by DoPhase1Work is kept until the         *)
(* checkpoint is complete, in its working copy, its KRO frame, or the log,   *)
(* unless Page_zero leads the page astray.                                   *)
THEOREM PictureAlwaysKept ==
  Spec => []PictureKept
<1>1. RecoveryInv /\ [Next]_vars => RecoveryInv'
  BY NextRecovery
<1>2. QED
  BY <1>1, InitRecovery, InvPicture, PTL DEF Spec

(* Whenever the power fails, and whatever the device's cache loses or a root *)
(* being written becomes, the root that restart chooses leads to the whole   *)
(* of the last complete picture, or of the one being stabilized, of all the  *)
(* pages that are not astray.                                                *)
THEOREM AlwaysRecoverable ==
  Spec => []Recoverable
<1>1. RecoveryInv /\ [Next]_vars => RecoveryInv'
  BY NextRecovery
<1>2. QED
  BY <1>1, InitRecovery, InvRecoverable, PTL DEF Spec

(* The object cache, the checkpoint thread, the log and restart implement    *)
(* PersistentStore: one current state, instantaneous pictures, and restarts  *)
(* from a whole picture never older than the last stabilized. A page is      *)
(* forsaken only by Page_zero in phases 2 to 5, and until the next restart.  *)
THEOREM StoreImplemented ==
  Spec => ImplementsStore
<1>1. RecoveryInv /\ [Next]_vars => RecoveryInv'
  BY NextRecovery
<1>2. RecoveryInv /\ [Next]_vars => [Store!Next]_(Store!vars)
  BY NextStore DEF Store!vars
<1>3. QED
  BY <1>1, <1>2, InitRecovery, InitStore, PTL DEF Spec, ImplementsStore, Store!Spec
=============================================================================
