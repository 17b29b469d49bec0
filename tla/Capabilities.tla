---------------------------- MODULE Capabilities ----------------------------
(* The capabilities to an object: kern_Key.c, kern_KeyRing.c, the rescinding *)
(* of kern_ObjectHeader.c, getCap and rescind of pk_RangeKey.c, the          *)
(* releasing, fetching and cleaning of the object and of the nodes that hold *)
(* the capabilities, and the counts of non-persistent objects at a restart.  *)
(*                                                                           *)
(* A capability that is prepared is on the key ring of its object and names  *)
(* no allocation count; unprepared it names a count, and designates the      *)
(* object if the counts agree. OFLG_AllocCntUsed says that an unprepared     *)
(* capability may have the current count, so that rescinding need not use up *)
(* a count when there is none. Neither a change of the flag nor the voiding  *)
(* of a capability marks anything dirty: that it all agrees, in core, on     *)
(* disk and in a checkpoint, is what this module is about.                   *)
(*                                                                           *)
(* The module follows one object: capabilities to two objects have nothing   *)
(* to do with each other but that one replaces the other in a slot, and any  *)
(* that is not to the object counts as void. A holder stands for a node with *)
(* one slot. Resume capabilities are in module Invocation.                   *)
EXTENDS Naturals, FiniteSets

CONSTANTS
    Holder,         \* the nodes that hold capabilities
    NPHolder,       \* those that are not persistent, and so always in core
    Kinds,          \* the kinds of object to consider, of those below
    MaxCount,       \* bound: the allocation count a rescission may reach
    MaxEvents       \* bound: the number of demarcations and restarts

\* A Node or Page capability designates a node or page as it is, a Forwarder
\* or GPT capability ("gpt") a node that getCap has initialized.
Kind == [type : {"node", "page", "gpt"}, persistent : BOOLEAN]

ASSUME ConstantsAssumption ==
    /\ IsFiniteSet(Holder) /\ NPHolder \subseteq Holder
    /\ Kinds \subseteq Kind
    /\ MaxCount \in Nat /\ MaxEvents \in Nat

VARIABLES
    kind,       \* what the object is
    slot,       \* the capability in each holder that is in core
    at,         \* where the current version of each holder is
    objAt,      \* where the current version of the object is
    count,      \* ObjectHeader.allocCount, while the object is in core
    used,       \* OFLG_AllocCntUsed, while the object is in core
    blank,      \* the object in core has no data and no capabilities
    disk,       \* the newest version of everything in the log or at home
    image,      \* the checkpoint the system would be restarted from
    active,     \* ckptIsActive(): a checkpoint is being written
    demarc,     \* history: the holders that designated the object at the
                \* last demarcation
    maxNPCount, \* maxNPCount
    events      \* the number of demarcations and restarts so far

objVars == <<objAt, count, used, blank>>
ckptVars == <<image, active, demarc, maxNPCount, events>>
vars == <<kind, slot, at, objVars, disk, ckptVars>>

PHolder == Holder \ NPHolder
Location == {"out", "clean", "dirty", "kro"}

Void == [type |-> "void", count |-> 0]
Prepared == [type |-> "prepared", count |-> 0]
Unprepared(c) == [type |-> "unprepared", count |-> c]
Key == [type : {"void", "prepared", "unprepared"}, count : Nat]

Version == [slot : [PHolder -> Key], count : Nat, blank : BOOLEAN]

CapTypeOK ==
    /\ kind \in Kinds
    /\ slot \in [Holder -> Key]
    /\ at \in [Holder -> Location] /\ \A h \in NPHolder : at[h] = "dirty"
    /\ objAt \in Location /\ (~kind.persistent => objAt = "dirty")
    /\ count \in Nat /\ used \in BOOLEAN /\ blank \in BOOLEAN
    /\ disk \in Version
    /\ image \in [version : Version, np : Nat, held : SUBSET PHolder]
    /\ active \in BOOLEAN
    /\ demarc \subseteq PHolder
    /\ maxNPCount \in Nat
    /\ events \in Nat

InCore(h) == at[h] # "out"
ObjInCore == objAt # "out"
Writable(location) == location \in {"clean", "dirty"}

-----------------------------------------------------------------------------
(* What a capability designates.                                             *)

\* GetObjectCount: from the header if the object is in core, else from the
\* log directory, a tag pot or an object pot.
GetObjectCount == IF ObjInCore THEN count ELSE disk.count

\* CheckTypeAndAllocCount
Fits(k) == k = Prepared \/ k = Unprepared(GetObjectCount)

Current(h) == IF InCore(h) THEN slot[h] ELSE disk.slot[h]
Designates(h) == Fits(Current(h))
Designating == {h \in PHolder : Designates(h)}

\* The prepared keys: those on the key ring of the object.
KeyRing == {h \in Holder : slot[h] = Prepared}

\* key_MakeUnpreparedCopy and key_NH_Unprepare, which set OFLG_AllocCntUsed.
MakeUnpreparedCopy(k) == IF k = Prepared THEN Unprepared(count) ELSE k
SetsUsed(k) == k = Prepared

-----------------------------------------------------------------------------
Init ==
    /\ kind \in Kinds
    /\ slot = [h \in Holder |-> Void]
    /\ at = [h \in Holder |-> IF h \in NPHolder THEN "dirty" ELSE "out"]
    /\ objAt = IF kind.persistent THEN "out" ELSE "dirty"
    /\ count = 0 /\ used = FALSE /\ blank = ~kind.persistent
    /\ disk = [slot |-> [h \in PHolder |-> Void], count |-> 0, blank |-> TRUE]
    /\ image = [version |-> disk, np |-> 0, held |-> {}]
    /\ active = FALSE /\ demarc = {}
    /\ maxNPCount = 0
    /\ events = 0

\* key_NH_Set in a holder that objH_EnsureWritable has made dirty; one that is
\* Kernel Read Only must be cleaned first.
Put(h, k) ==
    /\ Writable(at[h])
    /\ slot' = [slot EXCEPT ![h] = k]
    /\ at' = [at EXCEPT ![h] = "dirty"]

\* MakeObjectKey for a node or a page: the capability is made unprepared, with
\* the current count, whether or not the object is in core.
GetCap(h) ==
    /\ kind.type # "gpt"
    /\ Put(h, Unprepared(GetObjectCount))
    /\ UNCHANGED <<kind, objVars, disk, ckptVars>>

\* MakeObjectKey for a forwarder or a GPT: the object is fetched, given its
\* number capability or its l2v, and the capability is made prepared.
GetCapInitialized(h) ==
    /\ kind.type = "gpt"
    /\ ObjInCore /\ (blank => Writable(objAt))
    /\ Put(h, Prepared)
    /\ objAt' = IF blank THEN "dirty" ELSE objAt
    /\ blank' = FALSE
    /\ UNCHANGED <<kind, count, used, disk, ckptVars>>

\* key_NH_Set, of a capability to the object or to something else.
Copy(g, h) ==
    /\ InCore(g)
    /\ Put(h, slot[g])
    /\ UNCHANGED <<kind, objVars, disk, ckptVars>>

\* key_DoPrepare: the capability is voided if the counts differ; else the
\* object is fetched, an action of its own as the code Yields, and the
\* capability goes on its ring.
DoPrepare(h) ==
    /\ InCore(h) /\ slot[h].type = "unprepared"
    /\ Fits(slot[h]) => ObjInCore
    /\ slot' = [slot EXCEPT ![h] = IF Fits(@) THEN Prepared ELSE Void]
    /\ UNCHANGED <<kind, at, objVars, disk, ckptVars>>

\* The object is written through a capability.
Write ==
    /\ KeyRing # {} /\ blank /\ Writable(objAt)
    /\ blank' = FALSE
    /\ objAt' = "dirty"
    /\ UNCHANGED <<kind, slot, at, count, used, disk, ckptVars>>

\* objH_Rescind: the count afterwards.
RescindedCount == IF used THEN count + 1 ELSE count

\* ... and the largest count of a non-persistent object.
TrackedCount_mutant == maxNPCount \* mutant: it is not tracked
TrackedCount ==
    IF ~kind.persistent /\ RescindedCount > maxNPCount
    THEN RescindedCount ELSE maxNPCount

\* OC_capros_Range_rescind: objH_EnsureWritable, objH_Rescind with
\* keyR_RescindAll, objH_ClearObj.
Rescind ==
    /\ KeyRing # {} /\ Writable(objAt)
    /\ RescindedCount <= MaxCount
    /\ slot' = [h \in Holder |-> IF h \in KeyRing THEN Void ELSE slot[h]]
    /\ count' = RescindedCount
    /\ used' = FALSE
    /\ blank' = TRUE
    /\ objAt' = "dirty"
    /\ maxNPCount' = TrackedCount
    /\ UNCHANGED <<kind, at, disk, image, active, demarc, events>>

-----------------------------------------------------------------------------
(* The object cache.                                                         *)

\* ReleaseNodeFrame and ReleaseObjPageFrame of the object when it is clean:
\* keyR_UnprepareAll of its ring.
ReleaseObject ==
    /\ objAt = "clean"
    /\ slot' = [h \in Holder |-> MakeUnpreparedCopy(slot[h])]
    /\ objAt' = "out"
    /\ count' = 0 /\ used' = FALSE /\ blank' = FALSE
    /\ UNCHANGED <<kind, at, disk, ckptVars>>

\* ReleaseNodeFrame of a clean holder: the key in its slot is unprepared.
ReleaseHolder(h) ==
    /\ at[h] = "clean"
    /\ used' = (used \/ SetsUsed(slot[h]))
    /\ slot' = [slot EXCEPT ![h] = Void]
    /\ at' = [at EXCEPT ![h] = "out"]
    /\ UNCHANGED <<kind, objAt, count, blank, disk, ckptVars>>

\* node_SetEqualTo assumes the flag is set; objRange_FetchPage leaves it and
\* the count zero; CreateNewNullObject makes a null object anew, and dirty.
FetchedUsed_mutant == FALSE \* mutant: the flag is not set for a node either
FetchedUsed == ~disk.blank /\ kind.type # "page"
FetchedCount == IF ~disk.blank /\ kind.type = "page" THEN 0 ELSE disk.count

FetchObject ==
    /\ objAt = "out"
    /\ objAt' = IF disk.blank THEN "dirty" ELSE "clean"
    /\ count' = FetchedCount
    /\ used' = FetchedUsed
    /\ blank' = disk.blank
    /\ UNCHANGED <<kind, slot, at, disk, ckptVars>>

FetchHolder(h) ==
    /\ at[h] = "out"
    /\ at' = [at EXCEPT ![h] = IF disk.slot[h] = Void THEN "dirty" ELSE "clean"]
    /\ slot' = [slot EXCEPT ![h] = disk.slot[h]]
    /\ UNCHANGED <<kind, objVars, disk, ckptVars>>

\* What is Kernel Read Only is cleaned for the checkpoint, the rest only while
\* none is being written.
Cleanable(location) == location = "kro" \/ (location = "dirty" /\ ~active)

\* node_CopyToDiskNode
CleanHolder_mutant(h) == \* mutant: cleaning does not set OFLG_AllocCntUsed
    /\ h \in PHolder /\ Cleanable(at[h])
    /\ disk' = [disk EXCEPT !.slot[h] = MakeUnpreparedCopy(slot[h])]
    /\ at' = [at EXCEPT ![h] = "clean"]
    /\ UNCHANGED <<kind, slot, objVars, ckptVars>>
CleanHolder(h) ==
    /\ h \in PHolder /\ Cleanable(at[h])
    /\ disk' = [disk EXCEPT !.slot[h] = MakeUnpreparedCopy(slot[h])]
    /\ used' = (used \/ SetsUsed(slot[h]))
    /\ at' = [at EXCEPT ![h] = "clean"]
    /\ UNCHANGED <<kind, slot, objAt, count, blank, ckptVars>>

CleanObject ==
    /\ kind.persistent /\ Cleanable(objAt)
    /\ disk' = [disk EXCEPT !.count = count, !.blank = blank]
    /\ objAt' = "clean"
    /\ UNCHANGED <<kind, slot, at, count, used, blank, ckptVars>>

-----------------------------------------------------------------------------
(* Checkpoint and restart.                                                   *)

\* DeclareDemarcationEvent and DoPhase1Work: all that is dirty becomes Kernel
\* Read Only.
ReadOnly(location) == IF location = "dirty" THEN "kro" ELSE location

Demarcation ==
    /\ ~active /\ active' = TRUE
    /\ events < MaxEvents /\ events' = events + 1
    /\ at' = [h \in Holder |-> IF h \in PHolder THEN ReadOnly(at[h]) ELSE at[h]]
    /\ objAt' = IF kind.persistent THEN ReadOnly(objAt) ELSE objAt
    /\ demarc' = Designating
    /\ UNCHANGED <<kind, slot, count, used, blank, disk, image, maxNPCount>>

\* DoPhase4Work, when all is cleaned: the root is written, with maxNPCount.
Stabilize ==
    /\ active /\ active' = FALSE
    /\ objAt # "kro" /\ \A h \in Holder : at[h] # "kro"
    /\ image' = [version |-> disk, np |-> maxNPCount, held |-> demarc]
    /\ demarc' = {}
    /\ UNCHANGED <<kind, slot, at, objVars, disk, maxNPCount, events>>

\* AdjustNPCounts: non-persistent objects, preloaded anew with count zero, get
\* a count above all those in the checkpoint.
RestartCount_mutant == image.np \* mutant: without the + 1
RestartCount == image.np + 1

\* A crash and a restart. The code adds the new count to the counts of what the
\* preloaded world has come to by then, objects and capabilities alike; here
\* that world is at its beginning, where all its counts are zero.
Restart ==
    /\ events < MaxEvents /\ events' = events + 1
    /\ slot' = [h \in Holder |-> Void]
    /\ at' = [h \in Holder |-> IF h \in NPHolder THEN "dirty" ELSE "out"]
    /\ objAt' = IF kind.persistent THEN "out" ELSE "dirty"
    /\ count' = IF kind.persistent THEN 0 ELSE RestartCount
    /\ used' = FALSE /\ blank' = ~kind.persistent
    /\ disk' = image.version
    /\ active' = FALSE /\ demarc' = {}
    /\ maxNPCount' = RestartCount
    /\ UNCHANGED <<kind, image>>

Next ==
    \/ \E h \in Holder : GetCap(h) \/ GetCapInitialized(h) \/ DoPrepare(h)
                         \/ ReleaseHolder(h) \/ FetchHolder(h) \/ CleanHolder(h)
    \/ \E g, h \in Holder : Copy(g, h)
    \/ Write \/ Rescind \/ ReleaseObject \/ FetchObject \/ CleanObject
    \/ Demarcation \/ Stabilize \/ Restart

Spec == Init /\ [][Next]_vars

-----------------------------------------------------------------------------
(* Properties.                                                               *)

PutsCap(h) == GetCap(h) \/ GetCapInitialized(h) \/ \E g \in Holder : Copy(g, h)
KeepsAuthority(h) == Designates(h)' = (Designates(h) /\ ~Rescind)

\* A holder of a forwarder or GPT capability designates the object until it is
\* rescinded, and from then on nothing: whatever is released, fetched, cleaned
\* or checkpointed in between, with the capability prepared or not. Only a
\* capability put in the holder, or a restart, changes that.
AuthorityExact ==
    [][kind.type = "gpt" =>
         \A h \in Holder : Restart \/ PutsCap(h) \/ KeepsAuthority(h)]_vars

\* "To prevent this, every object has an associated allocation count": the same
\* of the capabilities to any object.
RescindedForGood ==
    [][\A h \in Holder : Restart \/ PutsCap(h) \/ KeepsAuthority(h)]_vars

\* A restart gives a forwarder or GPT capability to no holder that did not have
\* it at the demarcation, and leaves none to a non-persistent object.
RestartGivesNoMore ==
    [][Restart => /\ kind.type = "gpt" => Designating' \subseteq image.held
                  /\ ~kind.persistent => Designating' = {}]_vars

\* "When the system restarts, it is initialized to the state at a demarcation
\* event": the holders that designated the object then designate it again.
RestoredExactly ==
    [][Restart /\ kind.persistent => Designating' = image.held]_vars

\* OFLG_AllocCntUsed of a forwarder or GPT: while it is off, no unprepared
\* capability that could still be read has the current count, so that rescinding
\* need not change it.
CountUsedExact ==
    kind.type = "gpt" /\ ObjInCore /\ ~used =>
      \A h \in Holder :
        /\ slot[h] # Unprepared(count)
        /\ at[h] \in {"out", "clean"} => disk.slot[h] # Unprepared(count)

\* CkptRoot.maxNPCount: no capability in the checkpoint to a non-persistent
\* object has a larger count.
NPCountBound ==
    ~kind.persistent =>
      \A h \in PHolder : image.version.slot[h].count <= image.np
=============================================================================
