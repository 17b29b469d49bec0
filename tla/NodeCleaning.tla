---------------------------- MODULE NodeCleaning ----------------------------
(* The nodes of the object cache and how they get to the log. A dirty node   *)
(* is a candidate on the list nodesToClean until enough of them are there to *)
(* fill a pot, a page of the log; then all are written together. The list is *)
(* filled by ageing, by processes that must write a KRO node, and by the     *)
(* checkpoint thread. Sources: kern_ObjectCache.c, kern_ObjectHeader.c,      *)
(* kern_IOReq.c, kern_ObjectSource.c, kern_Ckpt.c.                           *)
(*                                                                           *)
(* One action is one stretch of the kernel between two Yields, loops         *)
(* included: its steps are operators on a record w of the variables that     *)
(* cleaning changes. Phases 3 to 5, the subject of module PageCheckpoint,    *)
(* are one action here. Ages are reduced to old or not (age_Steal), and      *)
(* pinned nodes and those of active processes, which are not aged, are left  *)
(* out.                                                                      *)
EXTENDS Integers, Sequences, FiniteSets, Functions

CONSTANTS
    Oid,           \* OIDs of the persistent nodes
    Value,         \* contents of a node
    Null,          \* the contents of a null node
    HomeValue,     \* what the home ranges hold
    NFrames,       \* objC_nNodes
    PotSize,       \* DISK_NODES_PER_PAGE
    NCleaning,     \* KTUNE_NIOREQS_CLEANING
    MaxLid,        \* bound: log frames for pots
    MaxStores,     \* bound: stores by processes
    MaxGrab,       \* bound: page frames at hand when an operation begins
    NoOid,         \* the frame is free (ot_NtFreeFrame)
    NoPicture      \* see PersistentStore

ASSUME ConstantsAssumption ==
    /\ IsFiniteSet(Oid) /\ NoOid \notin Oid
    /\ Null \in Value /\ HomeValue \in [Oid -> Value]
    /\ NFrames \in Nat \ {0} /\ PotSize \in Nat \ {0} /\ MaxStores \in Nat
    /\ NCleaning \in Nat /\ MaxLid \in Nat /\ MaxGrab \in Nat
    /\ NoPicture \notin [Oid -> Value]

VARIABLES
    node,          \* the node frames: OID, contents, OFLG_DIRTY, OFLG_KRO, age
    nodesToClean,
    KRONodeCleanCursor,
    numKRONodes,
    dir,           \* the log directory: where each node is
    pot,           \* contents of the log pots in core
    inCore,        \* the pots in core (ot_PtLogPot) since they were filled
    queued,        \* pots whose write is queued (pageH->ioreq)
    disk,          \* contents of the log frames on disk
    logCursor,
    freeCleaning,  \* number of IORequests on freeIOReqsCleaning
    ckptState,     \* 0 is ckpt_NotActive, 1 and 2 the phases, 3 the rest
    potsKRO,       \* pots in core that have OFLG_KRO
    halted,        \* a failed assertion or fatal()
    saved,         \* what the root on disk leads to: directory and logCursor
    stores,        \* number of stores by processes, for the bound MaxStores
    snapshot, committed, \* history: see PersistentStore
    astray         \* history: nodes put where no checkpoint looks for them,
                   \* see GoneAstray

vars == <<node, nodesToClean, KRONodeCleanCursor, numKRONodes, dir, pot, inCore,
          queued, disk, logCursor, freeCleaning, ckptState, potsKRO, halted,
          saved, stores, snapshot, committed, astray>>

Frame == 1 .. NFrames
Lid == 1 .. MaxLid
Pot == [1 .. PotSize -> Value]
NullPot == [i \in 1 .. PotSize |-> Null]
NodeFrame == [oid : Oid \cup {NoOid}, val : Value, dirty : BOOLEAN,
              kro : BOOLEAN, old : BOOLEAN]
FreeFrame == [oid |-> NoOid, val |-> Null, dirty |-> FALSE, kro |-> FALSE,
              old |-> FALSE]
\* A LID of a node is its pot and its index there.
Home == [lid |-> 0, idx |-> 1]      \* no entry in the log directory
NullPlace == [lid |-> 0, idx |-> 0] \* logLoc 0: a null node
Place == {Home, NullPlace} \cup [lid : Lid, idx : 1 .. PotSize]
ckptIsActive == ckptState # 0

TypeOK ==
    /\ node \in [Frame -> NodeFrame]
    /\ \A f \in Frame :
         /\ node[f].kro => node[f].dirty
         /\ node[f].oid = NoOid => node[f] = FreeFrame
         /\ \A g \in Frame :
              node[f].oid = node[g].oid /\ f # g => node[f].oid = NoOid
    /\ nodesToClean \in Seq(Frame) /\ Len(nodesToClean) <= PotSize
    /\ Cardinality(Range(nodesToClean)) = Len(nodesToClean)
    /\ KRONodeCleanCursor \in 1 .. NFrames + 1
    /\ numKRONodes \in Nat
    /\ dir \in [Oid -> Place]
    /\ pot \in [Lid -> Pot] /\ disk \in [Lid -> Pot]
    /\ queued \subseteq inCore /\ inCore \subseteq Lid
    /\ logCursor \in 1 .. MaxLid + 1
    /\ freeCleaning \in 0 .. NCleaning
    /\ ckptState \in 0 .. 3
    /\ potsKRO \subseteq Lid
    /\ halted \in BOOLEAN
    /\ saved \in [dir : [Oid -> Place], logCursor : 1 .. MaxLid + 1]
    /\ stores \in 0 .. MaxStores
    /\ snapshot \in [Oid -> Value] \cup {NoPicture}
    /\ committed \in [Oid -> Value]
    /\ astray \subseteq Oid

Init ==
    /\ node = [f \in Frame |-> FreeFrame]
    /\ nodesToClean = <<>>
    /\ KRONodeCleanCursor = 1
    /\ numKRONodes = 0
    /\ dir = [o \in Oid |-> Home]
    /\ pot = [l \in Lid |-> NullPot] /\ disk = pot
    /\ inCore = {} /\ queued = {}
    /\ logCursor = 1
    /\ freeCleaning = NCleaning
    /\ ckptState = 0
    /\ potsKRO = {}
    /\ halted = FALSE
    /\ saved = [dir |-> dir, logCursor |-> 1]
    /\ stores = 0
    /\ snapshot = NoPicture
    /\ committed = HomeValue
    /\ astray = {}
-----------------------------------------------------------------------------
(* Cleaning. w.st says how far an operation got: it goes on, it Yielded, it  *)
(* took a frame for its caller, an assertion failed, or the log is at the    *)
(* bound. w.ret is the value returned, w.grab the page frames still at hand, *)
(* w.first the frame in nodesToClean[0]. w.saving says whether the moment of *)
(* demarcation of the working generation has passed.                         *)

Work(grab) ==
    [node |-> node, list |-> nodesToClean, cursor |-> KRONodeCleanCursor,
     nKRO |-> numKRONodes, dir |-> dir, pot |-> pot, inCore |-> inCore,
     queued |-> queued, log |-> logCursor, free |-> freeCleaning,
     grab |-> grab, st |-> "run", ret |-> TRUE, first |-> 1,
     saving |-> ckptState \in {2, 3}, astray |-> astray]

\* The end of a stretch of the kernel.
Done(w) ==
    /\ w.st # "log full"
    /\ nodesToClean' = w.list
    /\ KRONodeCleanCursor' = w.cursor
    /\ numKRONodes' = w.nKRO
    /\ dir' = w.dir
    /\ pot' = w.pot /\ inCore' = w.inCore /\ queued' = w.queued
    /\ logCursor' = w.log
    /\ freeCleaning' = w.free
    /\ halted' = (w.st = "halt")
    /\ astray' = w.astray

Going(w) == w.st = "run"

\* node_ClearDirty, for the nodes in the frames F.
KRORemoved_mutant(w, F) ==  \* mutant: once for the pot
    IF \E f \in F : w.node[f].kro THEN 1 ELSE 0
KRORemoved(w, F) == Cardinality({f \in F : w.node[f].kro})
node_ClearDirty(w, F) ==
    [w EXCEPT
      !.node = [f \in Frame |->
                  IF f \in F THEN [@[f] EXCEPT !.dirty = FALSE, !.kro = FALSE]
                  ELSE @[f]],
      !.nKRO = @ - KRORemoved(w, F)]

\* A node on the list is still to be cleaned.
Candidate_mutant(w, f) == w.node[f].oid # NoOid /\ w.node[f].old  \* mutant: not KRO
Candidate(w, f) ==
    w.node[f].oid # NoOid /\ (w.node[f].old \/ w.node[f].kro)

AllCandidates(w, list) == \A i \in 1 .. Len(list) : Candidate(w, list[i])

\* The last entry takes the place of the first that is no candidate.
WithoutFirst(w, list) ==
    LET n == Len(list)
        i == CHOOSE k \in 1 .. n : /\ ~Candidate(w, list[k])
                                   /\ \A j \in 1 .. k - 1 : Candidate(w, list[j])
    IN [j \in 1 .. n - 1 |-> IF j = i THEN list[n] ELSE list[j]]

\* So for one after the other, until only candidates are left.
Pruned(w) ==
    LET run[n \in 0 .. Len(w.list)] ==
          IF n = 0 THEN w.list
          ELSE IF AllCandidates(w, run[n - 1]) THEN run[n - 1]
          ELSE WithoutFirst(w, run[n - 1])
    IN run[Len(w.list)]

\* The write of a pot is queued if there is an IORequest for it.
CleanLogPot(w, l) ==
    IF w.free = 0 THEN w
    ELSE [w EXCEPT !.queued = @ \cup {l}, !.free = @ - 1]

\* Where in the pot the i-th node of the list is recorded to be: lid + i.
PotIndex_mutant(i) == 1  \* mutant: lid
PotIndex(i) == i

(* The nodes on the list that filling a pot loses. Without an IORequest the  *)
(* pot is not written: nothing marks it dirty, so pageH_Clean never gets it. *)
(* And CleanAPotOfNodes does not look at ckptIsActive as objC_AgeNodeFrames  *)
(* does: a node that stayed on the list, because it became null or its frame *)
(* was freed, and was written by a process during a checkpoint and grew old, *)
(* goes to the generation being saved.                                       *)
GoneAstray(w) ==
    {w.node[f].oid : f \in {g \in Range(w.list) :
       w.free = 0 \/ (w.saving /\ w.node[g].dirty /\ ~w.node[g].kro)}}

\* The nodes on the list are copied to a pot and recorded.
FillPot(w) ==
    LET n == Len(w.list)
        l == w.log
        c == node_ClearDirty(w, Range(w.list))
    IN IF l > MaxLid THEN [w EXCEPT !.st = "log full"]
       ELSE CleanLogPot(
              [c EXCEPT
                !.dir = [o \in Oid |->
                  IF \E i \in 1 .. n : w.node[w.list[i]].oid = o
                  THEN [lid |-> l,
                        idx |-> PotIndex(CHOOSE i \in 1 .. n :
                                           w.node[w.list[i]].oid = o)]
                  ELSE @[o]],
                !.pot[l] = [i \in 1 .. PotSize |->
                              IF i <= n THEN w.node[w.list[i]].val ELSE Null],
                !.inCore = @ \cup {l},
                !.log = @ + 1,
                !.grab = @ - 1,
                !.list = <<>>,
                !.first = IF n = 0 THEN @ ELSE w.list[1],
                !.astray = @ \cup GoneAstray(w),
                !.ret = TRUE], l)

CleanAPotOfNodes(w, force) ==
    IF Len(w.list) < PotSize /\ ~force THEN [w EXCEPT !.ret = FALSE]
    ELSE IF ~force /\ ~AllCandidates(w, w.list)
      THEN [w EXCEPT !.list = WithoutFirst(w, w.list), !.ret = FALSE]
    ELSE IF w.grab = 0 THEN [w EXCEPT !.list = Pruned(w), !.st = "yield"]
    ELSE FillPot([w EXCEPT !.list = Pruned(w)])

\* It may be on the list already. That there is room is asserted in node_Clean.
AddNodeToClean(list, f) == IF f \in Range(list) THEN list ELSE Append(list, f)

node_Clean(w, f) ==
    IF w.node[f].val = Null
    THEN [node_ClearDirty(w, {f}) EXCEPT
            !.dir[w.node[f].oid] = NullPlace, !.ret = TRUE]
    ELSE IF Len(w.list) >= PotSize \/ ~w.node[f].dirty
      THEN [w EXCEPT !.st = "halt"]
    ELSE CleanAPotOfNodes(
           [w EXCEPT !.list = AddNodeToClean(@, f)], FALSE)

\* Of the KRO nodes from the cursor on.
CleanAKRONode(w) ==
    LET K == {f \in Frame : f >= w.cursor /\ w.node[f].kro}
        f == CHOOSE f \in K : \A g \in K : f <= g
        e == [w EXCEPT !.cursor = NFrames + 1]
        x == IF w.list = <<>> THEN e ELSE CleanAPotOfNodes(e, TRUE)
    IN IF Len(w.list) >= PotSize THEN [w EXCEPT !.st = "halt"]
       ELSE IF K # {}
         THEN [node_Clean([w EXCEPT !.cursor = f + 1], f) EXCEPT !.ret = TRUE]
       ELSE IF Going(x) /\ x.nKRO # 0 THEN [x EXCEPT !.st = "halt"]
       ELSE [x EXCEPT !.ret = FALSE]

\* while (objH_IsKRO(pObj)) CleanAKRONode();
CleanUntil(w, f) ==
    LET run[n \in 0 .. NFrames + 1] ==
          IF n = 0 THEN w
          ELSE IF Going(run[n - 1]) /\ run[n - 1].node[f].kro
            THEN CleanAKRONode(run[n - 1])
          ELSE run[n - 1]
    IN run[NFrames + 1]

node_MitigateKRO(w, f) ==
    LET a == CleanAPotOfNodes(w, FALSE)
        b == node_Clean(a, f)
    IN IF ~(Going(a) /\ a.node[f].kro) THEN a
       ELSE IF ~Going(b) \/ b.ret THEN b
       ELSE CleanUntil(b, f)
-----------------------------------------------------------------------------
(* Node frames.                                                              *)

\* ReleaseNodeFrame.
Stolen(w, f) ==
    IF w.node[f].dirty THEN [w EXCEPT !.st = "halt"]
    ELSE [w EXCEPT !.node[f] = FreeFrame, !.st = "stolen"]

\* During a checkpoint only the working version may be cleaned.
MayAgeClean_mutant(w, f) == TRUE  \* mutant: any version
MayAgeClean(w, f) == ckptIsActive => w.node[f].kro

\* One frame in the scan of objC_AgeNodeFrames.
Visit(w, f) ==
    IF ~w.node[f].old THEN [w EXCEPT !.node[f].old = TRUE]
    ELSE IF ~w.node[f].dirty THEN Stolen(w, f)
    ELSE IF ~MayAgeClean(w, f) THEN w
    ELSE LET x == node_Clean(w, f)
         IN IF Going(x) /\ x.ret THEN Stolen(x, f) ELSE x

objC_AgeNodeFrames(w, curNode) ==
    LET a == CleanAPotOfNodes(w, FALSE)
        run[n \in 0 .. 2 * NFrames] ==
          IF n = 0 THEN a
          ELSE IF Going(run[n - 1])
            THEN Visit(run[n - 1], ((curNode + n) % NFrames) + 1)
          ELSE run[n - 1]
        z == run[2 * NFrames]
    IN IF ~Going(a) THEN a
       ELSE IF a.ret THEN Stolen(a, a.first)
       ELSE IF Going(z) THEN [z EXCEPT !.st = "halt"] ELSE z

Frames(w) == {f \in Frame : w.node[f].oid = NoOid}
Cached(o) == \E f \in Frame : node[f].oid = o
FrameOf(o) == CHOOSE f \in Frame : node[f].oid = o

\* What the log directory, the pots and the home ranges hold for a node.
Logged(o) ==
    IF dir[o] = Home THEN HomeValue[o]
    ELSE IF dir[o] = NullPlace THEN Null
    ELSE IF dir[o].lid \in inCore THEN pot[dir[o].lid][dir[o].idx]
    ELSE disk[dir[o].lid][dir[o].idx]

\* What the processes see.
Current == [o \in Oid |-> IF Cached(o) THEN node[FrameOf(o)].val ELSE Logged(o)]

\* objC_GrabNodeFrame, with which an operation begins.
GrabNodeFrame(grab, curNode) ==
    LET w == Work(grab)
    IN IF Frames(w) # {} THEN w ELSE objC_AgeNodeFrames(w, curNode)

(* GetObject; a null node is created dirty. A pot that is not in core is     *)
(* fetched (objRange_FetchPot): the copy is the same as that on disk, and is *)
(* not kept in inCore.                                                       *)
GetObject(o) ==
    /\ ~halted /\ ~Cached(o)
    /\ \E grab \in 0 .. MaxGrab, curNode \in Frame :
         LET w == GrabNodeFrame(grab, curNode)
             n == [oid |-> o, val |-> Logged(o), dirty |-> dir[o] = NullPlace,
                   kro |-> FALSE, old |-> FALSE]
         IN /\ Done(w)
            /\ IF w.st \in {"run", "stolen"}
               THEN \E f \in Frames(w) : node' = [w.node EXCEPT ![f] = n]
               ELSE node' = w.node
    /\ UNCHANGED <<disk, ckptState, potsKRO, saved, snapshot, stores, committed>>

\* A frame is taken for a non-persistent node, which is released some time.
GrabForOther ==
    /\ ~halted /\ \A f \in Frame : node[f].oid # NoOid
    /\ \E grab \in 0 .. MaxGrab, curNode \in Frame :
         LET w == GrabNodeFrame(grab, curNode)
         IN Done(w) /\ node' = w.node
    /\ UNCHANGED <<disk, ckptState, potsKRO, saved, snapshot, stores, committed>>

\* A pot's frame is taken by objC_AgePageFrames: pots are never marked dirty.
StealPot(l) ==
    /\ ~halted /\ l \in inCore \ queued
    /\ inCore' = inCore \ {l}
    /\ pot' = [pot EXCEPT ![l] = NullPot]
    /\ potsKRO' = potsKRO \ {l}
    /\ UNCHANGED <<node, nodesToClean, KRONodeCleanCursor, numKRONodes, dir,
                   queued, disk, logCursor, freeCleaning, ckptState, halted,
                   saved, snapshot, stores, committed, astray>>

\* A process uses a node without writing it.
Reference(f) ==
    /\ ~halted /\ node[f].old
    /\ node' = [node EXCEPT ![f].old = FALSE]
    /\ UNCHANGED <<nodesToClean, KRONodeCleanCursor, numKRONodes, dir, pot,
                   inCore, queued, disk, logCursor, freeCleaning, ckptState,
                   potsKRO, halted, saved, snapshot, stores, committed, astray>>

\* objH_EnsureWritable and a store, by a process that has used the node.
Store(f, v) ==
    /\ ~halted /\ node[f].oid # NoOid /\ ~node[f].old
    /\ v # node[f].val /\ stores < MaxStores
    /\ \E grab \in 0 .. MaxGrab :
         LET w == Work(grab)
             a == IF node[f].kro THEN node_MitigateKRO(w, f) ELSE w
         IN /\ Done(a)
            /\ node' = IF Going(a)
                       THEN [a.node EXCEPT ![f].val = v, ![f].dirty = TRUE]
                       ELSE a.node
    /\ stores' = IF node'[f].val = v THEN stores + 1 ELSE stores
    /\ UNCHANGED <<disk, ckptState, potsKRO, saved, snapshot, committed>>
-----------------------------------------------------------------------------
(* The checkpoint, the disk and power failure.                               *)

DeclareDemarcationEvent ==
    /\ ~halted /\ ckptState = 0
    /\ ckptState' = 1
    /\ UNCHANGED <<node, nodesToClean, KRONodeCleanCursor, numKRONodes, dir, pot,
                   inCore, queued, disk, logCursor, freeCleaning, potsKRO, halted,
                   saved, snapshot, stores, committed, astray>>

(* The moment of demarcation: every dirty node becomes KRO. So do the pots   *)
(* being written, which CheckpointPage takes for pages being cleaned; that   *)
(* no pot in core has OFLG_KRO already is asserted.                          *)
MadeKRO(n) == n.dirty
DoPhase1Work ==
    /\ ~halted /\ ckptState = 1
    /\ KRONodeCleanCursor' = 1
    /\ node' = [f \in Frame |-> [node[f] EXCEPT !.kro = MadeKRO(node[f])]]
    /\ numKRONodes' = numKRONodes + Cardinality({f \in Frame : MadeKRO(node[f])})
    /\ potsKRO' = potsKRO \cup queued
    /\ halted' = (potsKRO # {})
    /\ ckptState' = 2
    /\ snapshot' = Current
    /\ UNCHANGED <<nodesToClean, dir, pot, inCore, queued, disk, logCursor,
                   freeCleaning, saved, stores, committed, astray>>

\* while (CleanAKRONode()) {}
CleanKRONodes(w) ==
    LET run[n \in 0 .. NFrames + 1] ==
          IF n = 0 THEN w
          ELSE IF Going(run[n - 1]) /\ run[n - 1].ret THEN CleanAKRONode(run[n - 1])
          ELSE run[n - 1]
    IN run[NFrames + 1]

DoPhase2Work ==
    /\ ~halted /\ ckptState = 2
    /\ \E grab \in 0 .. MaxGrab :
         LET a == CleanKRONodes(Work(grab))
         IN /\ Done(a)
            /\ node' = a.node
            /\ ckptState' = IF Going(a) THEN 3 ELSE 2
    /\ UNCHANGED <<disk, potsKRO, saved, snapshot, stores, committed>>

(* Phases 3 to 5: when the log writes are synchronized the generation header *)
(* and the root are written, and the checkpoint is over.                     *)
AllWritten_mutant == TRUE  \* mutant: does not wait
AllWritten == queued = {}
Stabilize ==
    /\ ~halted /\ ckptState = 3
    /\ AllWritten
    /\ saved' = [dir |-> dir, logCursor |-> logCursor]
    /\ ckptState' = 0
    /\ committed' = snapshot
    /\ snapshot' = NoPicture
    /\ UNCHANGED <<node, nodesToClean, KRONodeCleanCursor, numKRONodes, dir, pot,
                   inCore, queued, disk, logCursor, freeCleaning, potsKRO, halted,
                   stores, astray>>

\* The disk writes a pot: IOReq_EndWrite. It leaves OFLG_KRO as it is.
IOReq_EndWrite(l) ==
    /\ ~halted /\ l \in queued
    /\ disk' = [disk EXCEPT ![l] = pot[l]]
    /\ queued' = queued \ {l}
    /\ freeCleaning' = freeCleaning + 1
    /\ UNCHANGED <<node, nodesToClean, KRONodeCleanCursor, numKRONodes, dir, pot,
                   inCore, logCursor, ckptState, potsKRO, halted, saved, stores,
                   snapshot, committed, astray>>

LoadedDir_mutant == dir  \* mutant: also what was recorded later
LoadedDir == saved.dir

(* What is in core is lost; the directory and the cursor are those of the    *)
(* root. What is found is what the next restart must find.                   *)
CrashRestart ==
    /\ node' = [f \in Frame |-> FreeFrame]
    /\ nodesToClean' = <<>>
    /\ KRONodeCleanCursor' = 1
    /\ numKRONodes' = 0
    /\ dir' = LoadedDir
    /\ pot' = [l \in Lid |-> NullPot]
    /\ inCore' = {} /\ queued' = {}
    /\ logCursor' = saved.logCursor
    /\ freeCleaning' = NCleaning
    /\ ckptState' = 0
    /\ potsKRO' = {}
    /\ halted' = FALSE
    /\ snapshot' = NoPicture
    /\ UNCHANGED <<disk, saved, stores>>
    /\ committed' = Current'
    /\ astray' = {}

Next ==
    \/ \E o \in Oid : GetObject(o)
    \/ GrabForOther
    \/ \E l \in Lid : StealPot(l) \/ IOReq_EndWrite(l)
    \/ \E f \in Frame : Reference(f)
    \/ \E f \in Frame, v \in Value : Store(f, v)
    \/ DeclareDemarcationEvent
    \/ DoPhase1Work
    \/ DoPhase2Work
    \/ Stabilize
    \/ CrashRestart

Spec == Init /\ [][Next]_vars
-----------------------------------------------------------------------------
(* Properties.                                                               *)

PS == INSTANCE PersistentStore
        WITH Object <- Oid, current <- Current, pending <- snapshot,
             forsaken <- astray

(* The nodes as processes see them, the picture caught in phase 1 and what a *)
(* restart finds behave as PersistentStore says: a restart resumes from the  *)
(* whole picture of the last stable checkpoint, but for the nodes that went  *)
(* astray since the restart before.                                          *)
ImplementsStore == PS!Spec

(* Cleaning, stealing and refetching are invisible: whichever of the three   *)
(* cleaners puts a node into which pot, what the processes see of the nodes  *)
(* that did not go astray changes only by a store, in one node, and by a     *)
(* restart.                                                                  *)
OnlyStoresChange ==
    [][\/ \A o \in Oid \ astray' : Current'[o] = Current[o]
       \/ /\ stores' = stores + 1
          /\ \E o \in Oid : \A q \in Oid \ (astray' \cup {o}) :
               Current'[q] = Current[q]
       \/ CrashRestart]_vars

(* numKRONodes, counted up in kern_Ckpt.c and down in kern_ObjectCache.c, is *)
(* the number of KRO nodes, and phase 2 has left none (ValidateNumKRONodes). *)
KRONodesExact ==
    ~halted =>
      /\ numKRONodes = Cardinality({f \in Frame : node[f].kro})
      /\ ckptState = 3 => numKRONodes = 0

(* Phase 2 starts again where KRONodeCleanCursor is after every Yield, and   *)
(* processes that must write a KRO node move it too. As kern_Ckpt.c says of  *)
(* the cursor, the nodes before it are not KRO or are queued to be cleaned,  *)
(* so that none is left behind.                                              *)
CursorSkipsNone ==
    ~halted => \A f \in 1 .. KRONodeCleanCursor - 1 :
                 node[f].kro => f \in Range(nodesToClean)

\* The version of a node that the checkpoint caught.
Picture(o) ==
    IF Cached(o) /\ node[FrameOf(o)].kro THEN node[FrameOf(o)].val ELSE Logged(o)

(* Until the checkpoint is stable, the version of each node that it caught   *)
(* is in the KRO frame or where the log directory says, unless the node went *)
(* astray.                                                                   *)
PictureKept ==
    snapshot # NoPicture => \A o \in Oid \ astray : snapshot[o] = Picture(o)

\* What would be found on disk, were the power to fail now.
OnDisk(o) ==
    IF saved.dir[o] = Home THEN HomeValue[o]
    ELSE IF saved.dir[o] = NullPlace THEN Null
    ELSE disk[saved.dir[o].lid][saved.dir[o].idx]

(* Were the power to fail now, every node would be found on disk as it was   *)
(* in the last stable picture, unless it went astray.                        *)
Recoverable == \A o \in Oid \ astray : OnDisk(o) = committed[o]

(* pageH_Clean says of log pots that they "are cleaned as soon as they are   *)
(* dirtied, if possible. If not, we clean them here": when a checkpoint is   *)
(* stable, the pots it refers to have been written.                          *)
LogPotsCleaned == \A o \in Oid : OnDisk(o) = committed[o]

(* objC_AgeNodeFrames: "During a checkpoint, the current version can't be    *)
(* cleaned; it must go into the next generation." What is recorded in the    *)
(* generation being saved is the picture caught in phase 1.                  *)
CurrentVersionWaits ==
    snapshot # NoPicture => \A o \in Oid : snapshot[o] = Picture(o)

(* DoPhase1Work asserts that no pot in core has OFLG_KRO when a checkpoint   *)
(* begins: the flag that the one before gave the pots being written must be  *)
(* gone.                                                                     *)
PotsNotKRO == ckptState = 1 => potsKRO = {}
=============================================================================
