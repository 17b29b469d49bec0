--------------------------- MODULE ProcessRestart ---------------------------
(* The processes and the Resume capabilities of Invocation over a            *)
(* checkpoint and a restart: the demarcation in DoPhase1Work, the cleaning   *)
(* of the process nodes, the checkpoint root, and what kern_Restart.c does   *)
(* with them. What of the nodes goes where on the disk is in NodeCleaning    *)
(* and ObjectDirectory, the process directory itself in ProcessDirectory.    *)
EXTENDS Invocation

CONSTANTS
    MaxRestarts     \* bound: the number of restarts

ASSUME RestartAssumption == MaxRestarts \in Nat

VARIABLES
    image,      \* the checkpoint: what has been written of it
    phase,      \* "none", "writing" after the demarcation, or "stable"
    restarts,   \* the number of restarts so far
    saved       \* the Resume capability in the copy on disk of a process's
                \* nodes, if they have not been altered since

restartVars == <<image, phase, restarts, saved>>
allVars == <<vars, restartVars>>

NonPersistent == Proc \ Persistent
Dirty == [dirty |-> TRUE]   \* no copy on disk is up to date

\* A process descriptor in the process directory; "none" for no descriptor.
Entry == [haz : Hazard \cup {"none"}, count : Nat]

(* promised is history: the persistent processes that run, sleep, or wait    *)
(* for an answer of the non-persistent world at the demarcation; live are    *)
(* the holders of a Resume capability made for the current wait.             *)
ImageOK(i) ==
    /\ i.runState \in [Persistent -> RunState]
    /\ i.count \in [Persistent -> Nat]
    /\ i.resume \in [Persistent -> Key]
    /\ i.entry \in [Persistent -> Entry]
    /\ i.maxNPCount \in Nat
    /\ i.promised \subseteq Persistent /\ i.live \subseteq Persistent

NoImage ==
    [runState |-> [q \in Persistent |-> "Available"],
     count |-> [q \in Persistent |-> 0],
     resume |-> [q \in Persistent |-> Void],
     entry |-> [q \in Persistent |-> [haz |-> "none", count |-> 0]],
     maxNPCount |-> 0, promised |-> {}, live |-> {}]

RestartTypeOK ==
    /\ TypeOK /\ ImageOK(image)
    /\ phase \in {"none", "writing", "stable"}
    /\ restarts \in 0 .. MaxRestarts
    /\ saved \in [Persistent -> Key \cup {Dirty}]
-----------------------------------------------------------------------------
\* The Resume capabilities to q in non-persistent nodes, by their counts.
CountOf(k) == IF k.prep THEN callCount[k.to] ELSE k.count
OutsideCounts_mutant(q) == \* mutant: not those in loaded key registers
    {CountOf(resume[h]) : h \in {g \in NonPersistent :
                                   resume[g].to = q /\ ctx[g] = "out"}}
OutsideCounts(q) ==
    {CountOf(resume[h]) : h \in {g \in NonPersistent : resume[g].to = q}}

\* StoreProcessInfo, first for those capabilities and then for the Activity.
Highest(S) == CHOOSE m \in S : \A n \in S : n <= m
Stored_mutant(q) == \* mutant: sleepers are started as they are
    LET A == {a \in Activity \ Free : act[a].of = q}
    IN IF A # {} THEN [haz |-> act[CHOOSE a \in A : TRUE].haz, count |-> 0]
       ELSE IF OutsideCounts(q) # {}
              THEN [haz |-> "WakeResume", count |-> Highest(OutsideCounts(q))]
       ELSE [haz |-> "none", count |-> 0]
Stored(q) ==
    LET A == {a \in Activity \ Free : act[a].of = q}
        resumed == {a \in A : act[a].haz = "WakeResume"}
        counts == OutsideCounts(q) \cup {act[a].count : a \in resumed}
        Saved(a) == IF act[a].state = "Sleeping" THEN "WakeRestart" ELSE act[a].haz
    IN IF A # resumed
         THEN [haz |-> Saved(CHOOSE a \in A \ resumed : TRUE), count |-> 0]
       ELSE IF counts # {} THEN [haz |-> "WakeResume", count |-> Highest(counts)]
       ELSE [haz |-> "none", count |-> 0]

Promised ==
    {q \in Persistent :
       \/ \E a \in Activity \ Free : act[a].of = q /\ ~IsStale(a)
       \/ \E h \in NonPersistent : resume[h].to = q /\ resume[h].live}

(* Running a process, or rescinding it, makes its nodes dirty. Zapping the   *)
(* Resume capability in a node does not, so that the copy on disk may hold   *)
(* one that is Void in core.                                                 *)
Dirties(h) == ctx'[h] \in {"runnable", "hzSchedule"} \/ \E p \in Proc : Rescind(p, h)
Saving == saved' = [h \in Persistent |-> IF Dirties(h) THEN Dirty ELSE saved[h]]

(* The structure of a process is taken, as in Unload but whatever its call   *)
(* count is: without a prepared Resume capability to it that bound is not    *)
(* needed. Only for AgeClean, so not after the demarcation.                  *)
Evict(h) ==
    /\ phase = "none" /\ restarts < MaxRestarts
    /\ ~HasPrepared(resume, h)
    /\ proc_Unload(h)
    /\ UNCHANGED <<kro, restartVars>>

(* A node is cleaned by ageing, which leaves the nodes of a loaded process   *)
(* alone. Only what was cleaned before the demarcation matters for the       *)
(* checkpoint, and the copies are not told apart later. The call counts are  *)
(* bound as in UnprepareKey.                                                 *)
AgeClean(h) ==
    LET k == resume[h]
    IN /\ halted = "no" /\ phase = "none" /\ restarts < MaxRestarts
       /\ ctx[h] = "out" /\ saved[h] = Dirty
       /\ k.prep => callCount[k.to] <= MaxCount
       /\ saved' = [saved EXCEPT ![h] = Unprepared(k, Proc)]
       /\ callCntUsed' = IF k.prep THEN [callCntUsed EXCEPT ![k.to] = TRUE]
                         ELSE callCntUsed
       /\ UNCHANGED <<procVars, actVars, resume, callCount, maxNPCount, halted, kro,
                      image, phase, restarts>>

(* The demarcation. Dirty nodes become Kernel Read Only; of the others the   *)
(* checkpoint has the copy on disk. A node with a process loaded is dirty,   *)
(* one that is only prepared as a process root may be; the process is        *)
(* unloaded. The kernel's own Activity runs this, so that no user's does.    *)
Demarc ==
    /\ halted = "no" /\ cur = None /\ phase = "none"
    /\ restarts < MaxRestarts
    /\ LET dirty == {q \in Persistent : saved[q] = Dirty}
           U == {q \in dirty : ctx[q] # "out"}
       IN IF \E q \in U : HazardOf(q) # None
              THEN HaltAs("hazardUnloaded") /\ UNCHANGED <<kro, restartVars>>
              ELSE
              /\ \E s \in Orders(UnloadWakes(U)) : UnloadAll(U, s)
              /\ kro' = dirty
              /\ phase' = "writing"
              /\ image' = [runState |-> [q \in Persistent |-> runState[q]],
                           count |-> [q \in Persistent |-> callCount[q]],
                           resume |-> [q \in Persistent |->
                                         IF q \in dirty THEN Void ELSE saved[q]],
                           entry |-> [q \in Persistent |-> Stored(q)],
                           maxNPCount |-> 0,
                           promised |-> Promised,
                           live |-> {q \in Persistent : resume[q].live}]
              /\ saved' = [q \in Persistent |-> Dirty]
              /\ UNCHANGED restarts

(* The nodes of a process are cleaned: in turn by the checkpoint, or because *)
(* they are needed for writing. The capability goes out as it is now; one    *)
(* that is prepared counts as used (key_MakeUnpreparedCopy).                 *)
CleanNode(h) ==
    LET k == resume[h]
    IN /\ halted = "no" /\ h \in kro
       /\ image' = [image EXCEPT !.resume[h] = Unprepared(k, Proc)]
       /\ callCntUsed' = IF k.prep THEN [callCntUsed EXCEPT ![k.to] = TRUE]
                         ELSE callCntUsed
       /\ kro' = kro \ {h}
       /\ UNCHANGED <<procVars, actVars, resume, callCount, maxNPCount, halted,
                      phase, restarts, saved>>

\* The checkpoint root is written with maxNPCount as it is now.
Stabilize ==
    /\ halted = "no" /\ phase = "writing" /\ kro = {}
    /\ phase' = "stable"
    /\ image' = [image EXCEPT !.maxNPCount = maxNPCount]
    /\ UNCHANGED <<vars, restarts, saved>>

(* A crash, and the restart from the checkpoint: AdjustNPCounts gives the    *)
(* non-persistent world, which begins anew, counts no capability has, and    *)
(* AddProcDescriptor starts the processes of the directory. The code adds    *)
(* the new count to all counts of a non-persistent world that may have run   *)
(* for a while, so that those that were equal stay so; here that world is at *)
(* its beginning.                                                            *)
RestartCount_mutant == image.maxNPCount \* mutant: without the + 1
RestartCount == image.maxNPCount + 1
Restart ==
    LET again == {q \in Persistent : image.entry[q].haz # "none"}
                   \cup (Started \ Persistent)
        Begin(p) == IF p \in Persistent
                      THEN Starting(p, image.entry[p].count, image.entry[p].haz)
                      ELSE Starting(p, 0, "None")
        Key0(p) == LET k == image.resume[p]
                   IN [k EXCEPT !.live = /\ p \in image.live
                                         /\ k.to \in Persistent]
    IN /\ phase = "stable" /\ restarts < MaxRestarts
       /\ \E f \in [again -> Activity] :
            /\ \A p, q \in again : f[p] = f[q] => p = q
            /\ act' = [a \in Activity |->
                         IF \E p \in again : f[p] = a
                           THEN Begin(CHOOSE p \in again : f[p] = a) ELSE FreeAct]
            /\ readyQ' \in Orders({f[p] : p \in again})
       /\ runState' = [p \in Proc |->
                         IF p \in Persistent THEN image.runState[p]
                         ELSE IF p \in Started THEN "Running" ELSE "Available"]
       /\ ctx' = [p \in Proc |-> "out"]
       /\ curActivity' = [p \in Proc |-> None]
       /\ stallQ' = [p \in Proc |-> <<>>]
       /\ cur' = None
       /\ resume' = [p \in Proc |-> IF p \in Persistent THEN Key0(p) ELSE Void]
       /\ callCount' = [p \in Proc |-> IF p \in Persistent THEN image.count[p]
                                       ELSE RestartCount]
       /\ callCntUsed' = [p \in Proc |-> TRUE]
       /\ maxNPCount' = RestartCount
       /\ halted' = "no" /\ kro' = {} /\ phase' = "none"
       /\ restarts' = restarts + 1
       /\ saved' = [h \in Persistent |-> IF restarts' < MaxRestarts THEN image.resume[h]
                                        ELSE Dirty]
       /\ image' = NoImage

RestartInit ==
    /\ Init
    /\ image = NoImage
    /\ phase = "none" /\ restarts = 0
    /\ saved = [h \in Persistent |-> Void]

\* Bound: what is done between the checkpoint root and the crash leaves the
\* image as it is, so that nothing is done then.
RestartNext ==
    \/ phase # "stable" /\ Next /\ Saving /\ UNCHANGED <<image, phase, restarts>>
    \/ Demarc \/ Stabilize \/ Restart
    \/ \E h \in Persistent : Evict(h) \/ AgeClean(h) \/ CleanNode(h)

RestartSpec == RestartInit /\ [][RestartNext]_allVars
-----------------------------------------------------------------------------
(* A persistent process that runs, sleeps, or waits for an answer of the     *)
(* non-persistent world at the demarcation has an Activity after a restart   *)
(* from that checkpoint, one that will be dispatched: it does not hang for   *)
(* ever because what it waited for is gone.                                  *)
NobodyStranded ==
    [][restarts' # restarts =>
         \A q \in image.promised :
           \E a \in Activity : act'[a].of = q /\ ~IsStale(a)']_allVars

(* What Activity.h says of actHaz_WakeResume: an Activity whose call count   *)
(* is stale is deleted. It does not stop the kernel.                         *)
StaleActivityDeleted == halted # "staleActivity"
=============================================================================
