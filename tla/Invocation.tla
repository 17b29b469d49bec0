----------------------------- MODULE Invocation -----------------------------
(* Processes, the Activities that run them and the capabilities by which     *)
(* they invoke each other: kern_Invoke.c, pk_GateKey.c, kern_Process.c,      *)
(* kern_Activity.c, kern_SysTimer.c, mk_SleepKey.c and the operations of     *)
(* pk_ProcessKey.c and pk_RangeKey.c that change the state of a process.     *)
(*                                                                           *)
(* The kernel runs on one processor and is not preempted: an action is one   *)
(* entry into the kernel, or one part of it that ends where the code may     *)
(* Yield, which abandons the entry and repeats the invocation later. So the  *)
(* preparation of a capability or of a process is an action of its own, and  *)
(* an invocation is enabled when everything it needs is prepared.            *)
(*                                                                           *)
(* A program keeps one Resume capability, received in slot 3 with a message  *)
(* through its Start capability; a reply leaves the register alone. Every    *)
(* process may invoke the Start and Process capabilities of the others.      *)
(* There is one priority. What a message says is left out.                   *)
EXTENDS Integers, Sequences, FiniteSets

CONSTANTS
    Proc,           \* processes, named by the OID of the root node
    Persistent,     \* those in the persistent store
    Started,        \* those that have an Activity at the start
    Activity,       \* the Activity table
    None,           \* no Activity, or no process
    Operations,     \* bound: which of some rare operations the programs use
    MaxCount        \* bound: the call count of a process

ASSUME ConstantsAssumption ==
    /\ IsFiniteSet(Proc) /\ IsFiniteSet(Activity)
    /\ Cardinality(Activity) >= Cardinality(Proc)
    /\ Persistent \subseteq Proc /\ Started \subseteq Proc
    /\ None \notin Proc /\ None \notin Activity
    /\ Operations \subseteq {"send", "makeResumeKey", "rescind", "swapSchedule"}
    /\ MaxCount \in Nat

VARIABLES
    runState,    \* Process.runState, kept in the root node while out of core
    ctx,         \* the Process structure: none, newly allocated with all its
                 \* hazards, with hz_Schedule only, or runnable
    curActivity, \* Process.curActivity
    stallQ,      \* Process.stallQ
    act,         \* the Activity structures
    readyQ,      \* the ready queue
    cur,         \* act_curActivity
    resume,      \* the Resume capability each process holds
    callCount,   \* Node.callCount of the root
    callCntUsed, \* OFLG_CallCntUsed of the root
    maxNPCount,  \* maxNPCount
    halted,      \* the fatal() or failed assertion that stopped the kernel
    kro          \* persistent processes whose nodes are Kernel Read Only and
                 \* must be cleaned before they are written (ProcessRestart)

procVars == <<runState, ctx, curActivity, stallQ>>
actVars == <<act, readyQ, cur>>
countVars == <<callCount, callCntUsed, maxNPCount>>
vars == <<procVars, actVars, resume, countVars, halted, kro>>

RunState == {"Available", "Running", "Waiting"}
Ctx == {"out", "hzDomRoot", "hzSchedule", "runnable"}
Hazard == {"None", "WakeOK", "WakeRestart", "WakeResume"}
Halt == {"no", "staleActivity", "hazardUnloaded"}

(* While a Resume capability is prepared it is on the key ring of the        *)
(* process and count means nothing. live is history: the process has not     *)
(* stopped waiting since the capability was made.                            *)
Key == [to : Proc \cup {None}, prep : BOOLEAN, count : Nat, live : BOOLEAN]
Void == [to |-> None, prep |-> FALSE, count |-> 0, live |-> FALSE]

FreeAct == [state |-> "Free", of |-> None, hasProcess |-> FALSE,
            haz |-> "None", count |-> 0]
ActRecord == [state : {"Free", "Ready", "Running", "Stall", "Sleeping"},
              of : Proc \cup {None}, hasProcess : BOOLEAN,
              haz : Hazard, count : Nat]

TypeOK ==
    /\ runState \in [Proc -> RunState]
    /\ ctx \in [Proc -> Ctx]
    /\ curActivity \in [Proc -> Activity \cup {None}]
    /\ stallQ \in [Proc -> Seq(Activity)]
    /\ act \in [Activity -> ActRecord]
    /\ readyQ \in Seq(Activity)
    /\ cur \in Activity \cup {None}
    /\ resume \in [Proc -> Key]
    /\ callCount \in [Proc -> Nat]
    /\ callCntUsed \in [Proc -> BOOLEAN]
    /\ maxNPCount \in Nat
    /\ halted \in Halt
    /\ kro \subseteq Persistent
-----------------------------------------------------------------------------
(* Activities.                                                               *)

Elements(s) == {s[i] : i \in 1 .. Len(s)}
Orders(S) == {s \in [1 .. Cardinality(S) -> S] : Elements(s) = S}

Free == {a \in Activity : act[a].state = "Free"}

\* StartActivity, for a process that is not in core.
Starting(p, count, haz) ==
    [state |-> "Ready", of |-> p, hasProcess |-> FALSE,
     haz |-> haz, count |-> count]

\* act_AssignTo, for an Activity that begins to run a message's receiver.
Assigned(f, a, p, state) ==
    [f EXCEPT ![a] = [state |-> state, of |-> p, hasProcess |-> TRUE,
                      haz |-> "None", count |-> 0]]

\* act_DeleteActivity and act_Dequeue; None stands for no Activity.
Deleted(f, a) == [b \in Activity |-> IF b = a THEN FreeAct ELSE f[b]]
Dequeued(s, a) ==
    IF a \notin Elements(s) THEN s
    ELSE LET i == CHOOSE n \in 1 .. Len(s) : s[n] = a
         IN [n \in 1 .. Len(s) - 1 |-> IF n < i THEN s[n] ELSE s[n + 1]]

\* sq_WakeAll: what becomes of the Activities in a sequence.
Woken(f, s) ==
    [a \in Activity |->
       IF a \in Elements(s) THEN [f[a] EXCEPT !.state = "Ready"] ELSE f[a]]

\* act_FindByOid: the Activities of a process that is not in core.
Found_mutant(p) == {} \* mutant: the Activity table is not searched
Found(p) == {a \in Activity \ Free : ~act[a].hasProcess /\ act[a].of = p}
OrNone(A) == IF A = {} THEN {None} ELSE A
IsStale(a) == act[a].haz = "WakeResume" /\ act[a].count # callCount[act[a].of]
Checked(haz) == IF haz = "WakeResume" THEN "WakeRestart" ELSE haz

(* The program that runs: its process is runnable and in user mode.          *)
Runs(p) == /\ halted = "no" /\ cur # None
           /\ curActivity[p] = cur /\ ctx[p] = "runnable"
-----------------------------------------------------------------------------
(* Resume capabilities.                                                      *)

Fits(k) == k.to # None /\ (k.prep \/ k.count = callCount[k.to])

\* proc_BuildResumeKey.
ResumeKey(p) == [to |-> p, prep |-> TRUE, count |-> 0, live |-> TRUE]

\* keyR_ZapResumeKeys, keyR_RescindAll. The process stops waiting.
Zapped(keys, p) ==
    [h \in Proc |-> IF keys[h].to # p THEN keys[h]
                    ELSE IF keys[h].prep THEN Void
                    ELSE [keys[h] EXCEPT !.live = FALSE]]

\* node_BumpCallCount, for the processes P.
BumpCallCount_mutant(P) ==  \* mutant: the call count is never bumped
    /\ callCntUsed' = [q \in Proc |-> callCntUsed[q] /\ q \notin P]
    /\ UNCHANGED <<callCount, maxNPCount>>
BumpCallCount(P) ==
    LET bumped == [q \in Proc |-> IF q \in P /\ callCntUsed[q]
                                    THEN callCount[q] + 1 ELSE callCount[q]]
        higher == {bumped[q] : q \in Proc \ Persistent} \cup {maxNPCount}
    IN /\ callCount' = bumped
       /\ callCntUsed' = [q \in Proc |-> callCntUsed[q] /\ q \notin P]
       /\ maxNPCount' = CHOOSE m \in higher : \A n \in higher : n <= m

\* key_NH_Unprepare, for the prepared capabilities to the processes P.
Unprepared(k, P) ==
    IF k.prep /\ k.to \in P
      THEN [k EXCEPT !.prep = FALSE, !.count = callCount[k.to]] ELSE k
HasPrepared(keys, p) == \E h \in Proc : keys[h].prep /\ keys[h].to = p

(* proc_ZapResumeKeys also deletes an Activity with a hazard, which is like  *)
(* the kernel holding a Resume capability.                                   *)
HazardOf(p) ==
    IF curActivity[p] # None /\ act[curActivity[p]].haz # "None"
      THEN curActivity[p] ELSE None
-----------------------------------------------------------------------------
(* A message through a gate capability: GateKey with inv_Commit and          *)
(* MigrateAllocatedActivity.                                                 *)

\* What a CALL by p does to p and to q, which gets the message.
HandTo(p, q, h) ==
    /\ runState' = [runState EXCEPT ![p] = "Waiting", ![q] = "Running"]
    /\ curActivity' = [curActivity EXCEPT ![p] = None, ![q] = cur]
    /\ act' = Assigned(Deleted(act, h), cur, q, "Running")
    /\ readyQ' = Dequeued(readyQ, h)
    /\ UNCHANGED <<ctx, stallQ, cur, halted>>

\* CALL of a Start capability.
CallStart(p, q) ==
    /\ Runs(p)
    /\ ctx[q] = "runnable" /\ runState[q] = "Available"
    /\ HandTo(p, q, None)
    /\ resume' = [resume EXCEPT ![q] = ResumeKey(p)]
    /\ UNCHANGED countVars

\* CALL of a Resume capability, as coroutines do: the process that gets the
\* reply may receive the caller's Resume capability with it.
CallResume(p) ==
    LET q == resume[p].to
    IN /\ Runs(p)
       /\ resume[p].prep /\ ctx[q] = "runnable"
       /\ HandTo(p, q, HazardOf(q))
       /\ \/ resume' = [Zapped(resume, q) EXCEPT ![q] = ResumeKey(p)]
          \/ resume' = Zapped(resume, q)
       /\ BumpCallCount({q})

\* Any invocation of a Start capability to a process that is not available,
\* the invoker's own included: it will be repeated.
StallOn(p, q) ==
    /\ Runs(p)
    /\ ctx[q] = "runnable" /\ runState[q] # "Available"
    /\ act' = [act EXCEPT ![cur].state = "Stall"]
    /\ stallQ' = [stallQ EXCEPT ![q] = Append(@, cur)]
    /\ cur' = None
    /\ UNCHANGED <<runState, ctx, curActivity, readyQ, resume, countVars, halted>>

(* What a RETURN by p does to p and to those who wait for it, and what the   *)
(* return to q through a Resume capability does: proc_ZapResumeKeys deletes  *)
(* the Activity h.                                                           *)
Migrate(p, q, h, state) ==
    /\ act' = Assigned(Deleted(Woken(act, stallQ[p]), h), cur, q, "Running")
    /\ readyQ' = Dequeued(readyQ \o stallQ[p], h)
    /\ stallQ' = [stallQ EXCEPT ![p] = <<>>]
    /\ runState' = [runState EXCEPT ![p] = state, ![q] = "Running"]
    /\ curActivity' = [curActivity EXCEPT ![p] = None, ![q] = cur]
    /\ UNCHANGED <<ctx, cur, halted>>

\* RETURN to the Resume capability, or to a kernel capability with the Resume
\* capability in slot 3 (ReturnMessage).
ReturnResume(p) ==
    LET q == resume[p].to
    IN /\ Runs(p)
       /\ resume[p].prep /\ ctx[q] = "runnable"
       /\ Migrate(p, q, HazardOf(q), "Available")
       /\ resume' = Zapped(resume, q)
       /\ BumpCallCount({q})

\* RETURN to a Start capability, passing on a copy of the Resume capability.
ReturnStart(p, q) ==
    /\ Runs(p)
    /\ ctx[q] = "runnable" /\ runState[q] = "Available"
    /\ Migrate(p, q, None, "Available")
    /\ \E k \in {resume[p], Void} : resume' = [resume EXCEPT ![q] = k]
    /\ UNCHANGED countVars

\* RETURN to nobody: ReturnMessage without an invokee, act_DeleteCurrent.
ReturnNone_mutant(p) == \* mutant: those who wait are not woken
    /\ Runs(p)
    /\ act' = Deleted(act, cur)
    /\ runState' = [runState EXCEPT ![p] = "Available"]
    /\ curActivity' = [curActivity EXCEPT ![p] = None]
    /\ cur' = None
    /\ UNCHANGED <<ctx, readyQ, stallQ, resume, countVars, halted>>
ReturnNone(p) ==
    /\ Runs(p)
    /\ act' = Deleted(Woken(act, stallQ[p]), cur)
    /\ readyQ' = readyQ \o stallQ[p]
    /\ stallQ' = [stallQ EXCEPT ![p] = <<>>]
    /\ runState' = [runState EXCEPT ![p] = "Available"]
    /\ curActivity' = [curActivity EXCEPT ![p] = None]
    /\ cur' = None
    /\ UNCHANGED <<ctx, resume, countVars, halted>>

\* SEND: the receiver gets an Activity of the free list.
SendTo(q, h) ==
    \E a \in Free :
      /\ act' = Assigned(Deleted(act, h), a, q, "Ready")
      /\ readyQ' = Append(Dequeued(readyQ, h), a)
      /\ runState' = [runState EXCEPT ![q] = "Running"]
      /\ curActivity' = [curActivity EXCEPT ![q] = a]
      /\ UNCHANGED <<ctx, stallQ, cur, halted>>

SendStart(p, q) ==
    /\ Runs(p)
    /\ ctx[q] = "runnable" /\ runState[q] = "Available"
    /\ SendTo(q, None)
    /\ \E k \in {resume[p], Void} : resume' = [resume EXCEPT ![q] = k]
    /\ UNCHANGED countVars

SendResume(p) ==
    LET q == resume[p].to
    IN /\ Runs(p)
       /\ resume[p].prep /\ ctx[q] = "runnable"
       /\ SendTo(q, HazardOf(q))
       /\ resume' = Zapped(resume, q)
       /\ BumpCallCount({q})
-----------------------------------------------------------------------------
(* Kernel capabilities.                                                      *)

\* CALL of the Sleep capability: SleepInvokee.
SleepCall(p) ==
    /\ Runs(p)
    /\ runState' = [runState EXCEPT ![p] = "Waiting"]
    /\ act' = [act EXCEPT ![cur].state = "Sleeping"]
    /\ cur' = None
    /\ UNCHANGED <<ctx, curActivity, stallQ, readyQ, resume, countVars, halted>>

\* The timer: sysT_WakeupAt, which returns from the sleep at once when the
\* process is runnable.
Timer(a) ==
    LET p == act[a].of
        now == act[a].hasProcess /\ ctx[p] = "runnable"
    IN /\ halted = "no" /\ act[a].state = "Sleeping"
       /\ readyQ' = Append(readyQ, a)
       /\ act' = [act EXCEPT ![a].state = "Ready",
                             ![a].haz = IF now THEN "None" ELSE "WakeOK"]
       /\ IF now
            THEN /\ runState' = [runState EXCEPT ![p] = "Running"]
                 /\ resume' = Zapped(resume, p)
                 /\ BumpCallCount({p})
            ELSE UNCHANGED <<runState, resume, countVars>>
       /\ UNCHANGED <<ctx, curActivity, stallQ, cur, halted>>

\* CALL of makeResumeKey of another process, which loses its Activity.
MakeResumeKey(p, q) ==
    LET a == curActivity[q]
    IN /\ Runs(p)
       /\ q # p /\ ctx[q] = "runnable"
       /\ resume' = [Zapped(resume, q) EXCEPT ![p] = ResumeKey(q)]
       /\ BumpCallCount({q})
       /\ act' = Deleted(act, a)
       /\ readyQ' = Dequeued(readyQ, a)
       /\ stallQ' = [r \in Proc |-> Dequeued(stallQ[r], a)]
       /\ curActivity' = [curActivity EXCEPT ![q] = None]
       /\ runState' = [runState EXCEPT ![q] = "Waiting"]
       /\ UNCHANGED <<ctx, cur, halted>>

\* The same CALL of the process itself: the capability the kernel would
\* return by is zapped, and nobody receives the new one.
MakeResumeKeySelf(p) ==
    /\ Runs(p)
    /\ resume' = Zapped(resume, p)
    /\ BumpCallCount({p})
    /\ act' = Deleted(act, cur)
    /\ curActivity' = [curActivity EXCEPT ![p] = None]
    /\ runState' = [runState EXCEPT ![p] = "Waiting"]
    /\ cur' = None
    /\ UNCHANGED <<ctx, stallQ, readyQ, halted>>

\* The same with RETURN, which gives the new capability to another process.
ReturnMakeResumeKey(p) ==
    LET q == resume[p].to
    IN /\ Runs(p)
       /\ resume[p].prep /\ ctx[q] = "runnable"
       /\ Migrate(p, q, HazardOf(q), "Waiting")
       /\ resume' = Zapped([Zapped(resume, p) EXCEPT ![q] = ResumeKey(p)], q)
       /\ BumpCallCount({p, q})

\* The same with SEND: the process loses its Activity and stays as it was for
\* those who wait for it; the receiver gets an Activity of the free list.
SendMakeResumeKey(p) ==
    LET q == resume[p].to
    IN /\ Runs(p)
       /\ resume[p].prep /\ ctx[q] = "runnable"
       /\ \E a \in Free :
            /\ act' = Assigned(Deleted(Deleted(act, HazardOf(q)), cur), a, q, "Ready")
            /\ readyQ' = Append(Dequeued(readyQ, HazardOf(q)), a)
            /\ curActivity' = [curActivity EXCEPT ![p] = None, ![q] = a]
       /\ runState' = [runState EXCEPT ![p] = "Waiting", ![q] = "Running"]
       /\ cur' = None
       /\ resume' = Zapped([Zapped(resume, p) EXCEPT ![q] = ResumeKey(p)], q)
       /\ BumpCallCount({p, q})
       /\ UNCHANGED <<ctx, stallQ, halted>>

\* Rescission of the root node through a range capability, and what follows
\* from it: objH_Rescind, objH_ClearObj and node_Unprepare.
Rescind(p, q) ==
    \E a \in IF curActivity[q] # None THEN {curActivity[q]} ELSE OrNone(Found(q)) :
      /\ Runs(p) /\ q # p /\ q \notin kro
      /\ resume' = [Zapped(resume, q) EXCEPT ![q] = Void]
      /\ BumpCallCount({q})
      /\ act' = Deleted(Woken(act, stallQ[q]), a)
      /\ readyQ' = Dequeued(readyQ \o stallQ[q], a)
      /\ stallQ' = [r \in Proc |-> IF r = q THEN <<>> ELSE Dequeued(stallQ[r], a)]
      /\ curActivity' = [curActivity EXCEPT ![q] = None]
      /\ runState' = [runState EXCEPT ![q] = "Available"]
      /\ ctx' = [ctx EXCEPT ![q] = "out"]
      /\ UNCHANGED <<cur, halted>>
-----------------------------------------------------------------------------
(* What the kernel brings into core and takes out of it.                     *)

\* node_GetProcess: a Process structure for the root node.
LoadProcess(p, q) ==
    /\ Runs(p) /\ ctx[q] = "out"
    /\ ctx' = [ctx EXCEPT ![q] = "hzDomRoot"]
    /\ UNCHANGED <<runState, curActivity, stallQ, actVars, resume, countVars, halted>>

\* key_Prepare of a Resume capability. A stale one becomes Void.
PrepareKey(p) ==
    LET k == resume[p]
    IN /\ Runs(p) /\ k.to # None /\ ~k.prep
       /\ resume' = [resume EXCEPT ![p] =
                       IF Fits(k) THEN [k EXCEPT !.prep = TRUE, !.count = 0]
                       ELSE Void]
       /\ ctx' = IF Fits(k) /\ ctx[k.to] = "out"
                   THEN [ctx EXCEPT ![k.to] = "hzDomRoot"] ELSE ctx
       /\ UNCHANGED <<runState, curActivity, stallQ, actVars, countVars, halted>>

\* key_NH_Unprepare, when the node that holds the capability leaves core.
UnprepareKey(h) ==
    /\ halted = "no" /\ ctx[h] = "out" /\ resume[h].prep
    /\ callCount[resume[h].to] < MaxCount
    /\ resume' = [resume EXCEPT ![h] = Unprepared(@, Proc)]
    /\ callCntUsed' = [callCntUsed EXCEPT ![resume[h].to] = TRUE]
    /\ UNCHANGED <<procVars, actVars, callCount, maxNPCount, halted>>

(* proc_DoPrepare of a process that is not the current one. If it has an     *)
(* Activity that does not know the process, that one is found now; a Ready   *)
(* one goes to the end of the queue of its priority.                         *)
PrepareProcess(p, q) ==
    \E a \in IF ctx[q] = "hzDomRoot" /\ curActivity[q] = None
                /\ runState[q] # "Available"
             THEN OrNone(Found(q)) ELSE {curActivity[q]} :
      LET mine == IF a # None /\ IsStale(a) THEN None ELSE a
          ready == mine # None /\ act[a].state = "Ready"
          woken == Woken(act, stallQ[q])
      IN /\ Runs(p) /\ q # p /\ ctx[q] \in {"hzDomRoot", "hzSchedule"}
         /\ q \notin kro
         /\ ctx' = [ctx EXCEPT ![q] = "runnable"]
         /\ act' = IF mine # a THEN Deleted(woken, a)
                   ELSE [b \in Activity |->
                           IF b = a THEN [woken[b] EXCEPT !.hasProcess = TRUE,
                                                          !.haz = Checked(@)]
                           ELSE woken[b]]
         /\ curActivity' = [curActivity EXCEPT ![q] = mine]
         /\ readyQ' = Dequeued(readyQ, a) \o (IF ready THEN <<a>> ELSE <<>>)
                      \o stallQ[q]
         /\ stallQ' = [stallQ EXCEPT ![q] = <<>>]
         /\ UNCHANGED <<runState, cur, resume, countVars, halted>>

\* swapSchedule through a Process capability.
FlushSchedule(p, q) ==
    /\ Runs(p) /\ ctx[q] = "runnable"
    /\ ctx' = [ctx EXCEPT ![q] = "hzSchedule"]
    /\ UNCHANGED <<runState, curActivity, stallQ, actVars, resume, countVars, halted>>

(* proc_Unload of the processes P, except the current one. Those who wait    *)
(* for one of them are woken in the order s. act_UnloadProcess asserts that  *)
(* the Activity has no hazard.                                               *)
Unloadable == {q \in Proc : ctx[q] # "out" /\ (cur = None \/ curActivity[q] # cur)}
UnloadWakes_mutant(P) == {} \* mutant: those who wait are not woken
UnloadWakes(P) == UNION {Elements(stallQ[q]) : q \in P}
UnloadAll(P, s) ==
    /\ act' = [a \in Activity |->
                 IF act[a].hasProcess /\ act[a].of \in P
                   THEN [Woken(act, s)[a] EXCEPT !.hasProcess = FALSE]
                   ELSE Woken(act, s)[a]]
    /\ readyQ' = readyQ \o s
    /\ stallQ' = [q \in Proc |-> IF q \in P THEN <<>> ELSE stallQ[q]]
    /\ curActivity' = [q \in Proc |-> IF q \in P THEN None ELSE curActivity[q]]
    /\ ctx' = [q \in Proc |-> IF q \in P THEN "out" ELSE ctx[q]]
    /\ resume' = [h \in Proc |-> Unprepared(resume[h], P)]
    /\ callCntUsed' = [q \in Proc |-> callCntUsed[q]
                                      \/ (q \in P /\ HasPrepared(resume, q))]
    /\ UNCHANGED <<runState, cur, callCount, maxNPCount, halted>>

HaltAs(why) ==
    /\ halted' = why
    /\ UNCHANGED <<procVars, actVars, resume, countVars>>

proc_Unload(q) ==
    /\ halted = "no" /\ q \in Unloadable
    /\ IF HazardOf(q) # None THEN HaltAs("hazardUnloaded")
       ELSE \E s \in Orders(UnloadWakes({q})) : UnloadAll({q}, s)

\* The process's structure is taken for another one.
Unload(q) == callCount[q] < MaxCount /\ proc_Unload(q)
-----------------------------------------------------------------------------
(* The dispatcher.                                                           *)

\* The end of the quantum: readyq_Timeout.
Preempt ==
    /\ halted = "no" /\ cur # None
    /\ act' = [act EXCEPT ![cur].state = "Ready"]
    /\ readyQ' = Append(readyQ, cur)
    /\ cur' = None
    /\ UNCHANGED <<procVars, resume, countVars, halted>>

\* act_EnsureRunnable, when the kernel has taken something from the current
\* process: proc_DoPrepare.
PrepareCurrent ==
    LET p == act[cur].of
    IN /\ halted = "no" /\ cur # None /\ ctx[p] # "runnable"
       /\ ctx' = [ctx EXCEPT ![p] = "runnable"]
       /\ act' = Woken(act, stallQ[p])
       /\ readyQ' = readyQ \o stallQ[p]
       /\ stallQ' = [stallQ EXCEPT ![p] = <<>>]
       /\ UNCHANGED <<runState, curActivity, cur, resume, countVars, halted>>

(* act_ChooseNewCurrentActivity and PrepareCurrentActivity.                  *)
Dispatch ==
    LET a == Head(readyQ)
        p == act[a].of
        haz == Checked(act[a].haz)
        woken == IF ctx[p] = "runnable" THEN <<>> ELSE stallQ[p]
    IN /\ halted = "no" /\ cur = None /\ readyQ # <<>>
       /\ IF ~act[a].hasProcess /\ IsStale(a) THEN HaltAs("staleActivity")
          ELSE
          /\ p \notin kro
          /\ cur' = a
          /\ act' = [Woken(act, woken) EXCEPT
                       ![a] = [@ EXCEPT !.state = "Running", !.hasProcess = TRUE,
                                        !.haz = "None", !.count = 0]]
          /\ readyQ' = Tail(readyQ) \o woken
          /\ stallQ' = [stallQ EXCEPT ![p] = IF woken = <<>> THEN @ ELSE <<>>]
          /\ curActivity' = [curActivity EXCEPT ![p] = a]
          /\ ctx' = [ctx EXCEPT ![p] = "runnable"]
          /\ IF haz = "None" THEN UNCHANGED <<runState, resume, countVars>>
             ELSE /\ runState' = [runState EXCEPT ![p] = "Running"]
                  /\ resume' = Zapped(resume, p)
                  /\ BumpCallCount({p})
          /\ UNCHANGED halted

(* The same when proc_DoPrepare Yields for an object that is not in core:    *)
(* the Activity knows its process and will be dispatched again.              *)
DispatchYields ==
    LET a == Head(readyQ)
        p == act[a].of
    IN /\ halted = "no" /\ cur = None /\ readyQ # <<>>
       /\ ~act[a].hasProcess /\ ~IsStale(a)
       /\ act' = [act EXCEPT ![a].hasProcess = TRUE, ![a].haz = Checked(@)]
       /\ readyQ' = Append(Tail(readyQ), a)
       /\ curActivity' = [curActivity EXCEPT ![p] = a]
       /\ ctx' = [ctx EXCEPT ![p] = IF @ = "out" THEN "hzDomRoot" ELSE @]
       /\ UNCHANGED <<runState, stallQ, cur, resume, countVars, halted>>
-----------------------------------------------------------------------------
Init ==
    \E f \in [Started -> Activity] :
      /\ \A p, q \in Started : f[p] = f[q] => p = q
      /\ act = [a \in Activity |->
                  IF \E p \in Started : f[p] = a
                    THEN Starting(CHOOSE p \in Started : f[p] = a, 0, "None")
                    ELSE FreeAct]
      /\ readyQ \in Orders({f[p] : p \in Started})
      /\ runState = [p \in Proc |->
                       IF p \in Started THEN "Running" ELSE "Available"]
      /\ ctx = [p \in Proc |-> "out"]
      /\ curActivity = [p \in Proc |-> None]
      /\ stallQ = [p \in Proc |-> <<>>]
      /\ cur = None
      /\ resume = [p \in Proc |-> Void]
      /\ callCount = [p \in Proc |-> 0]
      /\ callCntUsed = [p \in Proc |-> TRUE]
      /\ maxNPCount = 0
      /\ halted = "no"
      /\ kro = {}

Program ==
    \E p \in Proc :
      \/ CallResume(p) \/ ReturnResume(p) \/ ReturnNone(p)
      \/ SleepCall(p) \/ PrepareKey(p)
      \/ "send" \in Operations /\ SendResume(p)
      \/ "makeResumeKey" \in Operations
         /\ (MakeResumeKeySelf(p) \/ ReturnMakeResumeKey(p) \/ SendMakeResumeKey(p))
      \/ \E q \in Proc :
           \/ CallStart(p, q) \/ StallOn(p, q) \/ ReturnStart(p, q)
           \/ LoadProcess(p, q) \/ PrepareProcess(p, q)
           \/ "send" \in Operations /\ SendStart(p, q)
           \/ "makeResumeKey" \in Operations /\ MakeResumeKey(p, q)
           \/ "rescind" \in Operations /\ Rescind(p, q)
           \/ "swapSchedule" \in Operations /\ FlushSchedule(p, q)

Kernel ==
    \/ \E q \in Proc : UnprepareKey(q) \/ Unload(q)
    \/ \E a \in Activity : Timer(a)
    \/ Preempt \/ PrepareCurrent \/ Dispatch \/ DispatchYields

Next == (Program \/ Kernel) /\ UNCHANGED kro

Spec == Init /\ [][Next]_vars
-----------------------------------------------------------------------------
(* A process has at most one Activity, in core or not, one whose call count  *)
(* is stale apart: ValidateAllActivitys.                                     *)
(* The Process structure and the Activity point to each other.               *)
OneActivityEach ==
    /\ \A a, b \in Activity \ Free :
         act[a].of = act[b].of /\ ~IsStale(a) /\ ~IsStale(b) => a = b
    /\ \A a \in Activity, p \in Proc :
         (curActivity[p] = a) <=> (act[a].hasProcess /\ act[a].of = p)

(* The table of Activity.h, for processes out of core as well: a process is  *)
(* Running exactly when it has an Activity that runs it, that is, one that   *)
(* neither sleeps nor has a message to deliver first; an available process   *)
(* has none that could wake it. An Activity is on the queue its state says.  *)
StatesAgree ==
    /\ \A p \in Proc : (runState[p] = "Running") <=>
         \E a \in Activity : /\ act[a].of = p /\ act[a].haz = "None"
                             /\ act[a].state \in {"Ready", "Running", "Stall"}
    /\ \A a \in Activity \ Free :
         LET p == act[a].of
         IN /\ act[a].state = "Sleeping" =>
                 runState[p] = "Waiting" /\ act[a].haz = "None"
            /\ runState[p] = "Available" => IsStale(a)
    /\ \A a \in Activity :
         /\ (act[a].state = "Running") <=> (cur = a)
         /\ (act[a].state = "Ready") <=> (a \in Elements(readyQ))
         /\ (act[a].state = "Stall") <=> \E q \in Proc : a \in Elements(stallQ[q])
    /\ Len(readyQ) = Cardinality(Elements(readyQ))

(* A Resume capability gives the right to one return: one that still fits    *)
(* its process, prepared or by its count, was made for the wait the process  *)
(* is in, whatever was unprepared, evicted, rescinded and reused meanwhile;  *)
(* and one made for that wait has not been lost.                             *)
ResumeKeysExact ==
    \A h \in Proc :
      LET k == resume[h]
      IN /\ Fits(k) <=> k.live
         /\ k.live => runState[k.to] = "Waiting"
         /\ k.prep => ctx[k.to] # "out"

(* Nobody waits on the queue of a process that could take the message, or    *)
(* on one whose Process structure has gone to another process.               *)
NoLostWakeUp ==
    \A q \in Proc : stallQ[q] # <<>> =>
      ctx[q] # "out" /\ runState[q] # "Available"
=============================================================================
