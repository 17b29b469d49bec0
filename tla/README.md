# Verification of the CapROS kernel

CapROS is a capability operating system in which every process, page and
capability is *persistent*: from time to time the kernel takes an instantaneous
picture of the whole system and writes it to a log on disk, while execution goes
on; after a power failure the system resumes from the last complete picture.
Applications have no other persistence, and no other protection than
capabilities, so everything rests on four mechanisms of the kernel: the
checkpoint, the invocation of one process by another, the rescinding of
capabilities, and the memory maps that are derived from them. They are also the
parts that tests reach least: a thread that abandons its stack at every wait,
handlers that run at the end of disk writes, users who alter the very objects
being saved, counts that stand for capabilities nobody can find, page faults
that destroy what they are building, and a power switch.

This directory holds TLA+ models of these mechanisms, the TLC configurations that
check them on small instances, and proofs that TLAPS checks.

    tlc -workers 2 -config PageCheckpoint.cfg MCPageCheckpoint
    tlapm PageCheckpointProofs.tla

`PROJECT.json` lists components, runs, mutants, hazards, findings, theorems and
the correspondence between definitions and source lines. All paths below are
relative to `src/src/sys`.

## 1. Inventory of the system

| Part | State | Operations | Hard behaviour | What makes it correct |
|---|---|---|---|---|
| Checkpoint (`kernel/kern_Ckpt.c`) | phase, generation header page, reserved frames, LIDs of unmigrated generations, current root, counts of KRO objects | demarcation event, phases 1 to 5, the end-of-I/O handlers of headers, roots, directory frames and synchronizations | every wait unwinds the stack and restarts the phase; handlers run in between | what a restart finds is the picture of one demarcation event |
| Object cache (`kern_ObjectCache.c`, `kern_ObjectHeader.c`) | frames with type, dirty, KRO, fetching and I/O state, age; log pots | make writable, copy on write of KRO objects, clean, age, steal, collect nodes into pots | writers against cleaners against the checkpoint | the current version is never lost; the working version is saved as caught |
| I/O requests (`kern_IOReq.c`, `key/mk_IORQ.c`, disk drivers) | two pools, queues per device | allocate or sleep, enqueue, complete, deallocate | small fixed pools shared by all writers | no request lost or freed twice; synchronization covers what came before |
| Restart (`kern_Restart.c`) | roots and headers read, directory frames in flight | choose the root, load directories, recreate activities | half-written roots, frames reused while reading | resumes from the newest complete picture |
| Log directory (`kern_LogDirectory.c`) | red-black tree by OID, one circular chain and cursor per generation, free list, retired generation | record, find, scan, remove, clear, retire, count | entries change generation during a scan; previous locations go stale | every object is found where it was last written |
| Migration (`kern_Migr.c`) | migrated generation | none yet: the thread sleeps | | |
| Object sources and ranges (`kern_ObjectSource.c`, `key/pk_RangeKey.c`) | ranges, allocation counts, frame types | get, retype, rescind | retyping while a checkpoint is active | an object has one type and one count |
| Processes, invocation, IPC (`kern_Process.c`, `kern_Invoke.c`, `key/`) | process run state, call counts, prepared state, stall queues | invoke gate, resume, forwarder and kernel capabilities | Yield and retry of the whole invocation before the commit point | a resume capability is used at most once; no effect before the commit point |
| Activities and scheduling (`kern_Activity.c`, `kern_CpuReserve.c`, `kern_SysTimer.c`) | activity states, ready and stall queues, reserves, timers | sleep, wake, yield, dispatch, migrate to a process | wake-ups against sleeps, timer interrupts | no lost wake-up |
| Capabilities, nodes, memory mapping (`kern_Key.c`, `kern_KeyRing.c`, `kern_Node.c`, `kern_GPT.c`, `kern_Depend.c`) | key rings, prepared capabilities, depend entries | prepare, rescind, walk, invalidate | cached state derived from capabilities | no mapping outlives the capability it came from |
| Space bank and other domains (`src/src/base/domain`) | trees of banks, constructors, pipes, timers | one request at a time | servers that keep callers waiting | space is conserved; callers are answered |
| Host tools, drivers, network, window system, architecture code | | | | outside these models |

How they interact. User code that touches a page or node goes through
`objH_EnsureWritable`, which may declare a demarcation event, may have to copy a
page that the checkpoint still needs, and counts what the next checkpoint will
have to write. The checkpoint thread marks objects KRO (kernel read only) in
phase 1, cleans them in phase 2 through the same `pageH_Clean` as ageing uses,
writes directories in phase 3, the generation header in phase 4 and the root in
phase 5, each after the disk has synchronized. Each write holds an IORequest; the
disk driver, a user process, takes it from the queue and completes it, which runs
a handler in the kernel. Handlers record locations in the log directory, refill
directory frames and wake the thread. Restart reads back what these wrote.

The section *hazards* of `PROJECT.json` lists, at its line, what in this code is
hard to test, with the properties that would catch it going wrong.

Processes hold capabilities in nodes and registers. Invoking one prepares it, that
is, ties it to its object in core; a gate capability moves the invoker's Activity
to the process it names, and a Resume capability brings it back, once. What is
prepared has to be found when the object is rescinded or evicted; what is not
prepared is told apart by a count. The address space of a process is a tree of
capabilities, and the hardware's tables are caches of it. The checkpoint reads all
of this: it unloads processes, writes nodes with their counts, and stores which
processes have to be started again.

## 2. Plan

1. `PageCheckpoint`, with `PersistentStore` as its abstract specification: the
   phases, the roots, cleaning, copy on write, power failure. *Done; all its
   invariants and the refinement proved.*
2. `LogDirectory`: chains, cursors, counts, and the previous locations that no
   part of the kernel asks for yet. *Done; its invariants proved.*
3. `ProcessDirectory` and `ObjectDirectory`: what phases 1 to 4 write beside the
   objects. *Done; their invariants proved.*
4. `NodeCleaning`: KRO nodes, `nodesToClean`, log pots, a pot that must wait for
   an IORequest; refines `PersistentStore` too. *Done; its invariants, its action
   property and the refinement proved.*
5. `Invocation`, and `ProcessRestart`, which composes it with a checkpoint and a
   restart. *Done; the invariants of Invocation proved.*
6. `Capabilities`: preparation, counts and rescinding, over cleaning, eviction
   and restart. *Done; all its properties proved.*
7. `MemoryMap`: GPT trees, the depend table and the ARM mapping tables. *Done; its
   invariants proved.*
8. Theorems about processes over a restart (ProcessRestart). *Left to TLC.*

The proofs about a module are in the module of its name with `Proofs` added.

A module for the circular log (reservation by `objH_EnsureWritable`, the ring of
unmigrated generations) is not worth writing while the migrator does not exist:
no generation is ever given back, so the log does not wrap. What was read there is
under *Met while modelling*.

## 3. The modules and the code

The kernel is not preemptible: an invocation or a step of the checkpoint thread
runs until it returns or until it Yields, and a Yield abandons the stack, so that
the thread starts its phase again from the beginning. Therefore one action is one
stretch between two Yields, and the state a thread keeps over a Yield is exactly
its global variables. End-of-I/O handlers run when the driver invokes
`IOReqQ_completeRequest`, between other actions.

### PersistentStore
What the mechanism promises. `current` is what processes see, `pending` the
picture of the active checkpoint, `committed` the picture a restart is guaranteed
to find. A restart may also find the pending picture (the root had reached the
disk); it never finds a mixture and never anything older than `committed`.

In a few places the code puts an object where the checkpoint does not look for it
(see the refuted configurations in section 4). These are neither left out of the
models nor excused by a hypothesis: the store has a step `Forsake` for them, and
`forsaken` is the set of objects of which nothing is promised until the next
restart, when it becomes empty. The modules that implement the store have a history
variable `astray`, which their actions extend exactly where the code does this, and
which no action looks at. So the properties and theorems say what becomes of all other
objects, in the same runs and at the same time.

### PageCheckpoint
State: for each persistent page the frame of its current version (`cached`,
`fetching`, `val`, `dirty`, `kro`, `lid`, the last one the log frame it is being
written to) and the frame of a working copy that was separated from it (`wcopy`);
the log directory as a function from pages to generation and location; the
variables of `kern_Ckpt.c`; the pool and the queue of requests; and the disk, which
has a volatile cache: a frame is `written` when the device has it and `stable`
after a synchronization. `snapshot`, `committed` and `astray` are history variables; a
page goes astray when Page_zero is applied to it, out of core, in phases 2 to 5.

| Actions | Code |
|---|---|
| GetObject, IOReq_EndReadPage | fetching a page from where the directory or the home range has it |
| StoreDirty, StoreClean, MitigateZero, MitigateMove, MitigateCopy | objH_EnsureWritable and pageH_MitigateKRO: the cases for a KRO page are zero, moved into a new frame, or copied |
| ZeroPage | Page_zero on a page that is not in core |
| AgeClean, AgeSteal, CleanCopy, CleanAKROPage | pageH_Clean from ageing and from the checkpoint thread, and stealing |
| DeclareDemarcationEvent, DoPhase1Work to DoPhase5Work, DoSync | kern_Ckpt.c |
| Transfer, IOReq_End... | the driver's loop and the handlers |
| EndPageCleanAsserts | the handler whose assertion fails: the kernel stops |
| CrashRestart | power failure, the choice of the root, loading of the headers, FinishRestart |

A power failure may leave of a root that is being written the old contents, the
new, or something that ValidateCkptRoot rejects. Log frames that are written but
not stable may hold anything, and are treated as lost.

Abstractions: the object directory fits into the generation header (beyond that,
see ObjectDirectory); one LID range on one disk; the log does not wrap; a page's
contents are a value of a small set with `Zero` set apart, since zero pages are
not written. `Zeroable` bounds the pages that somebody holds a capability for
zeroing to; zeroing is possible in every phase.

### LogDirectory
The tree is the function it represents; chains are sequences from their head;
cursors are the OID under them, `NoCursor`, or `Dangling` when the code leaves
them on a node that is no longer on the chain. `tree_remove_node` may splice out
another node and copy it over, which moves a node on its chain: a choice, since
it depends on the tree's shape. `halted` records which fatal error or assertion
stopped the kernel. The recorded pp data of a free node is stale memory
(`StaleLoc`).

### ProcessDirectory
One action is one call of `StoreProcessInfo`: for the Resume capabilities held by
non-persistent nodes and then for the Activities. Descriptors are kept in
`pages`, the first being the generation header.

### ObjectDirectory
Phases 2 to 4 with the entries of the generation numbered in scan order. The
thread fills reserved frames; the handler at the end of a write refills its frame
or releases it; whoever grabs a released frame overwrites it. `YieldWithFrame` is
the wait for an IORequest after the page has been unlinked.

### NodeCleaning
Nodes are smaller than a disk frame, so dirty nodes are collected on the list
`nodesToClean` until they fill a *pot*, a frame of the log. State: the node frames
with dirty and KRO flags and an age, the list, `KRONodeCleanCursor`,
`numKRONodes`, the log directory as a function from nodes to pot and index, the
pots in core, those whose write is queued, and the disk. A call that may Yield in
the middle of several steps (`CleanAPotOfNodes`, `node_Clean`, `CleanAKRONode`,
`node_MitigateKRO`, `objC_AgeNodeFrames`) is an operator from a record of these
variables to the record after it, with `st` telling whether it goes on, Yielded or
failed an assertion; what it changed before a Yield stays changed.

| Actions | Code |
|---|---|
| GetObject, GrabForOther | objC_GrabNodeFrame, which ages and steals, for a persistent and for another node |
| Store, Reference | objH_EnsureWritable with node_MitigateKRO; node_SetReferenced |
| StealPot, IOReq_EndWrite | the frame of a pot is stolen; its write ends |
| DeclareDemarcationEvent, DoPhase1Work, DoPhase2Work | the parts of the phases that concern nodes |
| Stabilize | phases 3 to 5 as one step, once the writes are done (their steps are PageCheckpoint's) |
| CrashRestart | the directory and the log cursor of the last root |

Ages are reduced to old or not, pinned nodes and those of active processes are
left out, and a page frame is or is not at hand (`MaxGrab`) when an operation
begins. `GoneAstray` names the nodes that filling a pot loses: all of them if no
IORequest is free for it (NodeCleaningPots.cfg), and those that were written after
the demarcation while they stood on the list (NodeCleaningStale.cfg). `potsKRO` are the
pots to which phase 1 gave OFLG_KRO (`kern_Ckpt.c:686-690`) because they were being
written; IOReq_EndWrite (`kern_IOReq.c:282-291`) does not take the flag away, and phase 1 of the
next checkpoint stops the kernel if such a pot is still in core (NodeCleaningPotsKRO.cfg).

### Invocation
State: of each process its run state, the Process structure if it has one (`ctx`:
newly allocated with its hazards, with only the schedule hazard, or runnable), its
Activity and its stall queue; the Activity table with state, process, hazard and
call count; the ready queue and the current Activity; the Resume capability that
each process holds, prepared or with a count; of each root node the call count and
OFLG_CallCntUsed; `maxNPCount`. The field `live` of a capability is history.

| Actions | Code |
|---|---|
| CallStart, CallResume, StallOn, ReturnStart, SendStart | pk_GateKey.c, inv_Commit and MigrateAllocatedActivity for a Start capability, and a CALL of a Resume capability |
| ReturnResume, SendResume, ReturnNone | the same for a Resume capability, and ReturnMessage |
| SleepCall, Timer | mk_SleepKey.c, sysT_WakeupAt |
| MakeResumeKey, MakeResumeKeySelf, ReturnMakeResumeKey, SendMakeResumeKey, FlushSchedule | pk_ProcessKey.c |
| Rescind | rescission of a root node, with node_Unprepare |
| LoadProcess, PrepareKey, PrepareProcess | node_GetProcess, key_DoPrepare, proc_DoPrepare with act_FindByOid |
| UnprepareKey, Unload | eviction of a holder, proc_Unload with act_UnloadProcess |
| Dispatch, DispatchYields, PrepareCurrent, Preempt | kern_Activity.c |

An invocation that Yields is repeated from its start, so that an invocation is
enabled when all it needs is prepared, and the preparations are actions of their
own. Left out: keepers and faults, forwarders, what messages carry besides one
capability, priorities and reserves, the lack of Activities. Of makeResumeKey
(`key/pk_ProcessKey.c:254-348`) all cases are there but a SEND or RETURN of it for another
process than the invoker. A SEND or RETURN to
the Sleep capability is left out as well, see *Met while modelling*.

### ProcessRestart
EXTENDS Invocation with the picture that a checkpoint takes: `Demarc` unloads the
processes whose nodes are dirty and stores a descriptor for each process that has an Activity
or is waited for by a Resume capability in a non-persistent node; `CleanNode`
writes the capability a node holds when it is cleaned, which may be after other
processes have gone on; `Stabilize` writes the root with `maxNPCount`; `Restart`
starts the processes of the directory, and the non-persistent ones anew with a
count that no capability has. A node that ageing cleaned before the demarcation
(`Evict`, `AgeClean`, `saved`) is not written again: the checkpoint has the copy on disk, which
may hold a Resume capability that was zapped in core since, as zapping does not make a
node dirty.

`Restart`, here and in Capabilities, puts a non-persistent world at its beginning.
AdjustNPCounts (`kern_Restart.c:169-188`) adds the new count to the objects and capabilities of a
world that may have run for a while; adding the same number to all of them keeps
every comparison between them, and that they are above those of the checkpoint.

### Capabilities
One object, and the nodes that may hold a capability to it, of which some are
persistent. A capability is void, prepared or unprepared with a count. The object
and the holders are out of core, clean, dirty or KRO; `disk` is what a fetch finds,
`image` what a restart finds. `GetCap` and `GetCapInitialized` are the two ways in
which MakeObjectKey makes a capability, unprepared for nodes and pages, prepared
for forwarders and GPTs. `Rescind` changes the count only if `used`
(OFLG_AllocCntUsed) says that an unprepared capability may have it.

### MemoryMap
State: the tree (`tree`, one key per slot), the objects in core, and `map`, a record
of everything derived: hazarded slots, one bucket of the depend table in the order
of its LRU cursor, the small space of each process, the small spaces, the first level table, the
coarse page tables with what they were made for, their entries, cacheAddr of each
page, and the dirty pages. It is one record because a page fault changes it many
times, and what an earlier part did may be undone by a later part before the fault
ends: each part is an operator from a walk, with the map so far, to a walk.

| Actions | Code |
|---|---|
| Fault | PageFault, proc_DoPageFault with GetFirstLevelMappingTable, GetCPT and FillPTE, WalkSeg, Depend_AddKey and NewDependEntry |
| SetSlot, Rescind | node_SetSlot, keyR_RescindAll: node_ClearHazard and Depend_InvalidateKey |
| CleanPage | pageH_Clean: KeyDependEntry_TrackDirty |
| AgeObject, AgeTable, StealTable | ageing at age_Invalidate, pageH_mdType_Aging |
| Evict, Fetch | stealing of a frame with objH_InvalidateProducts and keyR_UnprepareAll |

Addresses are numbers of pages. `Span`, `SectionSize` and `SpaceSize` are the sizes
2^l2v, 2^L1D_ADDR_SHIFT and 2^PID_SHIFT in pages, of which the model needs only that the smaller
divides the larger. A GPT may span more than a small space: if its upper slots are void
(`UpperSlots`) it produces a small space, and these slots are hazarded so that setting
one of them releases the space (`OutgrownSpaces`, node_ClearGPTHazard); otherwise the
page fault is fatal() in the code (`IsLarge`) and the step is not taken. A walk carries traverseCount in its field `count`, which the
three walks of one page fault share; `MaxDepth` is MAX_SEG_DEPTH. Operations that
the code performs for each member of a list, in an order that is no matter
(ReleaseSmallSpace and Release2ndLevelMappingTable from objH_InvalidateProducts), are one operator on
a set. Left out: guards, windows, background and keeper slots,
the change of l2v, domains (there are enough), large spaces (fatal in the code),
the page versions of a checkpoint, and the flushing of TLB and cache.

Two histories mark where the code departs from what the properties say. `missed` is
set when MapTab_ClearRefs leaves an entry that refers to the table being stolen (the run
*tables*); from there on the hardware walks a frame that anything may be stored in, and
the model stops. The field `blind` of a page table entry says that it was made valid again
after ageing without a walk (MemoryMapAged.cfg).

Three simplifications without effect on the properties. A free coarse page table is
cleared at once; the code does so when it is allocated (`Mapping.c:794`, `PageFault.c:834`), and in between
it is seen only by an entry that was missed. When there is no free table a fault Yields;
AllocateCPT (`Mapping.c:737-752`) runs the ager within the fault, which steals tables of objects other
than those being walked, as the latter are locked. `NSteal` small spaces
are given up together, the number the code has as KTUNE_NSSSTEAL.

## 4. Runs

Passing:

* **pages** (MCPageCheckpoint, PageCheckpoint.cfg): one page, zero and another
  value, zeroing in any phase, log of five frames, power failures at every state. PictureKept: until
  it is on disk the picture is still somewhere, in the frame, in the working copy
  or in the log. KROCountExact: the counter kept by hand in three files is the
  number of dirty KRO frames. PageStatesOfTable: during a checkpoint a page is in
  one of the states of the table in kern_Ckpt.c. Recoverable: were the power to
  fail now, the root chosen leads to synchronized frames only, and to a whole
  picture. The liveness property CheckpointEnds is checked with them.
* **store** (PageCheckpointStore.cfg): two pages, so that a mixture of two
  pictures is possible; one of them may be zeroed out of core at any moment, and the
  other must not suffer from it. ImplementsStore is the refinement; RootsSafe and
  PoolConserved are checked with it.
* **directory** (LogDirectory.cfg): three objects of which one may be rescinded and
  so have two versions, generations 1 to 3 in a table of two rows, so that rows are
  reused. ChainsExact, QuietScanComplete (a scan returns everything if no entry
  leaves the generation) and AvailableExact.
* **processes** (ProcessDirectory.cfg): six processes and four Activities, header with one
  descriptor, frames with two, up to three Resume capabilities, call counts up to
  two, so that there may be more descriptors than frames were reserved for.
  OneEntryEach, WakesRight, and AssertionsHold: the kernel stops only if more processes
  are to be saved than there are Activities.
* **objects** (ObjectDirectory.cfg): eleven entries, two in the header and two per
  frame, four reserved frames of which one holds process descriptors, three
  IORequests, four pages to clean. DirectoryComplete, FramesHeld and, under
  fairness, DirectoryGetsWritten.
* **nodes** (NodeCleaning.cfg): three nodes, three frames, pots of two, three log
  frames, three stores, one IORequest, power failures at every state. OnlyStoresChange: cleaning,
  stealing and refetching never change what processes see. CursorSkipsNone and
  KRONodesExact: the cursor shared by the thread and the writers passes no KRO node
  that is not queued, and the counter is exact. PictureKept, Recoverable and
  ImplementsStore as for pages.
* **invocation** (Invocation.cfg): three processes, one of them persistent and one
  started by the kernel, three Activities, all operations, call counts up to one
  more than `MaxCount`. OneActivityEach: a process never has two Activities, in core
  or out. StatesAgree: run states, Activities and queues agree with the table of
  Activity.h. ResumeKeysExact: a Resume capability fits exactly while the process
  is in the wait it was made for, whether the capability is prepared, evicted or in
  a node that was rescinded. NoLostWakeUp: nobody is on the stall queue of a process
  that is available or has lost its Process structure.
* **proc_restart** (ProcessRestart.cfg): two persistent processes and one that is
  not, a checkpoint and a restart at any moment. NobodyStranded: who ran, slept or
  waited for the non-persistent world at the demarcation has an Activity after the
  restart. StatesAgree and ResumeKeysExact hold over the restart, the second because
  of the counts that non-persistent processes start with.
* **capabilities** (Capabilities.cfg): a persistent and a non-persistent holder, an
  object that is a persistent or non-persistent GPT or a non-persistent node, up to
  three demarcations and restarts. AuthorityExact: a holder designates the object
  until it is rescinded and never after, whatever is cleaned, evicted and fetched in
  between. CountUsedExact is the fact about the flag that this rests on.
  RestartGivesNoMore: no holder gains authority by a restart. NPCountBound: no
  capability on disk has a larger count than the checkpoint root says.
* **mapping** (MemoryMap.cfg): two processes, three GPTs, two pages, two small
  spaces, two coarse page tables, a bucket of three depend entries.
  MappingsJustified: what the hardware allows a process, the tree gives it now, and
  a page that can be written is marked dirty. DependComplete: every slot behind a
  valid entry is hazarded and has a depend entry that covers it. NoStaleTable: a
  first level entry refers to a table made for what the tree has there.
  SmallSpacesFit: a process that uses a small space has nothing beyond it in its
  address space. CacheCoherent: a page written through the cache at one address is not
  cached at another.

These show a disagreement between the code and what the code's own comments or
assertions say; details are in *findings*:

* **redirty**: clean a page, write to it, demarcation event, end of the I/O: the
  handler asserts that a dirty page is not KRO.
* **tables** (MemoryMapTables.cfg): a table for the second section of a small space
  is stolen, and the first level entry of that section still refers to it, because
  MapTab_ClearRefs invalidates the entry of the first section only.

Further configurations, not among the runs, each of which TLC refutes; they show
other disagreements, and what the history variables and bounds of the passing runs stand for:

| Configuration, property | What TLC shows |
|---|---|
| PageCheckpointZero.cfg, AlteredInNextGeneration | Page_zero of an absent page during a checkpoint records the zero in the working generation (`key/pk_PageKey.c:108`), while `kern_LogDirectory.c:1201` says "Any objects which are altered during this time period are part of the next generation." Retyping of an absent frame does the same (`key/pk_RangeKey.c:729`) |
| ObjectDirectoryProcs.cfg, ProcDirIntact | phase 3 refills a frame of the process directory while its write is queued (`kern_Ckpt.c:937`) |
| NodeCleaningPots.cfg, LogPotsCleaned | a pot for which there is no IORequest is not marked dirty and never written; the checkpoint becomes stable without it (`kern_ObjectCache.c:544`; `:1000` says it is cleaned later) |
| NodeCleaningStale.cfg, CurrentVersionWaits | a null node stays on the list and its next version goes into the generation being saved (`kern_ObjectCache.c:502`, against `:670`) |
| NodeCleaningPotsKRO.cfg, PotsNotKRO | a log pot that is being written in phase 1 gets OFLG_KRO and keeps it; phase 1 of the next checkpoint asserts that none has it (`kern_Ckpt.c:687`) |
| LogDirectoryJournal.cfg, JournalDescribed | for an object whose newest location is older than the generation asked for, ld_findObjectForJournal returns the location before it (`kern_LogDirectory.c:1075-1076`) where its description promises "the most recent location" (`:1050-1056`); only the unit test of the file calls it (`:1430`) |
| ProcessRestartStale.cfg, StaleActivityDeleted | after a restart an Activity with WakeResume whose call count is stale stops the kernel, "Current activity no longer runnable" (`kern_Activity.c:659`), where Activity.h says that it is deleted |
| CapabilitiesRescind.cfg, RescindedForGood | MakeObjectKey makes a node or page capability unprepared without setting OFLG_AllocCntUsed (`key/pk_RangeKey.c:215-224`), so that a rescission need not change the count and the capability survives it, against `kerninc/ObjectHeader.h:134` |
| CapabilitiesRestored.cfg, RestoredExactly | keyR_RescindAll voids prepared capabilities in KRO nodes, so that the picture loses a capability that existed at the demarcation event, against `docs/design-notes/Checkpoint.html:165-169` |
| MemoryMapAged.cfg, WritesAllowed | a page-table entry made invalid by ageing is made valid again with the access of the fault, without a look at the tree (`arch/arm/kernel/PageFault.c:1065-1073`): a read-only mapping becomes writable |
| MemoryMapUncached.cfg, UncachedPages | PTE_TrackDirty sets PTE_CACHEABLE in an entry of an uncached page (`arch/arm/kernel/Mapping.c:213-226`), against state 5 of `arch/arm/arch-kerninc/PageHeader.h` |

One more configuration passes: LogDirectoryPrevious.cfg checks JournalSound, what
ld_findObjectForJournal does as described (the newest location is of the generation asked
for or of a later one), with two locations, of which one is also stale memory.

Met while modelling, without a configuration of their own:

* `StoreProcessInfo` does not reset `dpdsInCurrentPage` when it begins a new page,
  so the counts stored with the second and later pages are too large
  (`kern_Ckpt.c:432`);
* phase 3 unlinks a reserved page before it waits for an IORequest and so forgets
  it when it has to wait (`kern_Ckpt.c:941`; the action `YieldWithFrame`);
* entries of retired generations are counted as available, but recording an object
  stops the kernel when the free list is empty (`kern_LogDirectory.c:149`);
* the table of generations has 15 rows but the checkpoint root allows 20 unmigrated
  generations: the sixteenth is fatal (`kern_LogDirectory.c:131`);
* `unchain_node` leaves the cursor of a chain that becomes empty on the removed node
  (`kern_LogDirectory.c:257`): nothing in the kernel moves entries during a scan;
* `CleanAKRONode` asserts that the list is not full, which fails after a Yield for
  want of a page frame (`kern_ObjectCache.c:761`);
* `act_UnloadProcess` asserts that the Activity has no hazard, which fails for a
  process that another has prepared while a wake-up was pending (`kern_Activity.c:392`;
  `halted = "hazardUnloaded"`);
* a SEND or RETURN to the Sleep capability with somebody else's Resume capability
  leaves the other copies of it valid, and using one gives the process a second
  Activity (the FIXME in `keyR_ZapResumeKeys`); `makeResumeKey` of a running process that
  expects a message leaves PF_ExpectingMessage set (`kern_Invoke.c:627`);
* `makeResumeKey` or a rescission after the demarcation event can leave a process of
  the picture waiting for a capability that was never saved;
* fetched pages and null objects have OFLG_AllocCntUsed off and count zero
  (`kern_IOReq.c:309-337`), against the comment at `kern_Key.c:462`;
* the migrator sleeps for ever (`kern_Migr.c:53-57`), the counts of dirty objects only
  grow (`kern_ObjectHeader.c:181-291`), the limit of unmigrated generations is looked at
  only when an object becomes dirty during a checkpoint (`:265`), the room in
  the log is zero both when it is full and when it is empty (`kern_Ckpt.c:183`), and
  CreateNewNullObject makes a dirty object without a reservation;
* page frames are needed to clean objects and objects must be cleaned to get page
  frames; when nothing can be cleaned the kernel stops (`kern_ObjectCache.c:1398`);
* `FLMTE_TrackDirty` and `FLMTE_MakeRO` are `assert(false)` (`arch/arm/kernel/Mapping.c:142-152`);
  a domain that is stolen may be left with two small spaces (`:572-585`).

The type invariant of each module states what its variables range over. Only that of
PageCheckpoint, which is proved, is among the properties of a run.

### Bounds, and why they are enough
`MaxLid`, `MaxGen`, `MaxCount`, `MaxResume`, `MaxStores`, `MaxRestarts` and `MaxEvents` bound what grows;
`VersionsOf`, `Operations`, `KeysOf` and `VaOf` bound the inputs. `MaxLid` with
`Reserve` allows two complete checkpoints in *pages* and one with an earlier
generation in *store*: root switching needs two, and the interference of a
checkpoint with the cleaning of the previous one needs cleaning before, during
and after a demarcation event, all of which occur. `NCleaning = 2` is the least
with which a checkpoint can end: the generation header's request is kept through
the synchronization, which needs another (the kernel has 60). Three entries per
chain are needed for a cursor in the middle; two rows for reuse; header and frames
of small capacity make every page boundary occur. In *nodes* three dirty nodes and
pots of two make a pot fill up in the middle of a scan and leave a remainder to be
forced out, and three stores allow a node to have a version before, in and after a
picture; one IORequest for up to three pots makes pots wait and get lost.

In *invocation* three processes are the least with which one waits for a second
while a third unloads, rescinds or makes a capability for one of them. A call count
that is bumped once makes a stale capability fit if the bump is missed; that counts go on
to be bumped, and OFLG_CallCntUsed set again, is what *proc_restart* and the theorems
have (with `MaxCount` = 2 *invocation* is too large for TLC). In
*proc_restart* the rare operations are left out to pay for the checkpoint; two
persistent processes let one go on while the other's node is still to be cleaned.
With `MaxCount` = 0 a process structure is taken there only by the demarcation and, before it,
by `Evict`; nothing is done between the checkpoint root and the crash, as it would leave
the image alone.
One persistent and one non-persistent holder give all four ways in which a
capability and its object leave core, and three events a checkpoint, a restart and
another checkpoint. *mapping* has fewer depend entries than one page fault needs
for two levels and the space, so that entries are reused within a fault, and two
spaces and tables for two processes that share a GPT; `MaxEvents` = 2 changes of the tree,
cleanings, agings or evictions with any number of page faults between them. There a
GPT has two slots, a section two pages and a small space two sections; `MaxDepth` is 3, as
no tree considered is deeper. `Aged` are the objects whose use the ager looks
for, `Quiet` those that are pinned and never rescinded, which keeps the number of states down.
A slot of the GPT *ga* spans a small space, so that its other slot is beyond it. What the
refuted configurations show happens in the passing runs too, as states in which the kernel
stops or as objects astray, except in *capabilities* (left out by `Kinds`), *proc_restart* (by
`Operations`) and *mapping* (where `VaOf` stays in the first section).

### Fairness
FairSpec of PageCheckpoint and of ObjectDirectory assumes weak fairness of the
checkpoint thread, which has a priority above that of user processes, and of the
disk driver, a loop that takes the next request whenever there is one. Nothing is
assumed of users, ageing, or whoever grabs page frames, and power failures may go
on for ever; CheckpointEnds counts a restart, after which no checkpoint is active,
as the end of one.

Deadlock is checked for PageCheckpoint and NodeCleaning. The other modules end when their bounded
input is used up, in a kernel that stopped, or with everybody waiting for everybody,
which programs are free to do.

## 5. Proofs

Each theorem holds for every value of the constants that `ConstantsAssumption` of
its module admits, so for any number of pages, processes, Activities, requests and
generations; the runs show the same on small instances. Each rests on an inductive
invariant, which was checked with TLC under the configuration of the run before it
was proved, and the proof has one lemma per action or group of actions.

### PageCheckpoint
`PageCheckpointProofs` has three parts, each of which builds on the one before.

First, **TypeCorrect** (TypeOK) and **RootsAlwaysSafe** (RootsSafe,
from `IndInv = TypeOK /\ KROFrames /\ ControlInv`). The typing is not free: that a
frame with I/O in progress or a KRO frame is never stolen is part of it. RootsSafe
alone is not inductive: that `IOReq_EndCkptRootWrite` and the synchronization leave a
valid root in the current location depends on which request is in the queue when.
ControlInv says that at most one request of the checkpoint thread is queued and that
the thread sleeps on it (ControlRequests), how phase, wait and progress of DoSync go
together (SyncOrder), that the new root is volatile only between its transfer and that
of the next synchronization (RootOrder), and that valid roots name headers
(HeadersKnown), which restart needs to load a directory.

Second, **KROCountCorrect** (KROCountExact), **PageStatesCorrect**
(PageStatesOfTable) and **PoolCorrect** (PoolConserved). `FrameInv` adds that every
frame in I/O has exactly one request and every request its frame (WriteRequests,
ReadRequests), what the flags of a page say about its frames (FrameStates), and that
the generation header is queued behind the pages (HeaderAfterPages). Without the
correspondence of frames and requests the count could be decremented for a page that
a completion has already counted.

Third, **PictureAlwaysKept** (PictureKept), **AlwaysRecoverable**
(Recoverable) and **StoreImplemented** (ImplementsStore: initial states map to initial
states of PersistentStore, and each step to a step or a stutter). `DataInv` says where
the version caught by the demarcation event is and that a clean page agrees with where
the directory says it is stored; that no directory entry names a frame about to be
overwritten (WritesApart) is what keeps it true. `DiskInv` says that the last complete
checkpoint is on stable log frames older than any being written, and when the header
and the pages of the new one have become stable, which is what makes the write of the
root the moment of commitment. A page zeroed out of core in phases 2 to 5 is exempt as one
that is astray; that zeroing it harms no other page, and that nothing of it is left after a restart,
is part of what is proved.

### LogDirectory
`LogDirectoryProofs`: **TypeCorrect**, **ChainsAlwaysExact** (ChainsExact),
**QuietScansComplete** (QuietScanComplete), **AvailableAlwaysExact** (AvailableExact)
and **JournalAlwaysSound** (JournalSound, of which no run but LogDirectoryPrevious.cfg speaks;
it leaves out objects whose newest location is older than the generation asked for, where the code
contradicts its description). The operations are sequences of small steps on
a record of the tables (`unchain_node`, `chain_node`, `tree_remove_node`, which may move
another node), so the invariant is stated of such a record and each small step is shown
to keep it. That a chain lists every node of its generation *once* is needed for all
the others: removing a node from a chain that had it twice would leave it there.
Clearing and retiring a generation remove one node after the other until its chain is
empty; that this ends with the invariant intact, and that adding up the lengths of the
chains gives the number of nodes, is shown by induction (see below).

### NodeCleaning
`NodeCleaningProofs`: **TypeCorrect** (TypeOK), **KRONodesAlwaysExact** (KRONodesExact),
**CursorNeverSkips** (CursorSkipsNone), **OnlyStoresDo** (OnlyStoresChange),
**PictureAlwaysKept** (PictureKept), **AlwaysRecoverable** (Recoverable) and
**StoreImplemented** (ImplementsStore), for any number of IORequests, one included, and with
stale entries on the list. The last four exempt the nodes astray; part of the proof is that a pot
that is never written, or a node saved in the wrong checkpoint, takes no other node with it. The invariant `Good` is a predicate on the record that the cleaners work on
together with what they do not touch, because a call may Yield after any of its
steps and what it has done by then stays: every cleaner is shown to map good records to
good records, whether it goes on or Yields. It says beside the typing that the
count is exact, that KRO nodes before the cursor are on the list, that a clean node
agrees with what the directory says of it, that pots named by the directory of the saved
checkpoint are on disk and never overwritten, and that the version caught by the
demarcation event is in the frame or the pot.

### Induction
The library's induction theorems have an operator as a parameter and cannot be used.
`LogDirectoryProofs`, `NodeCleaningProofs` and `MemoryMapProofs` begin with lemmas that get induction
from the well-foundedness of the naturals as a *set*: the
counterexamples to what is to be shown are a set of numbers, and a nonempty one has
a least element. The loops of these modules are recursive functions from the number of
turns; `RunExists` says that such a function exists and satisfies its equation, `AllInSet`
that every turn keeps a set of good states. The first two have also the facts about
sequences without repetition that the chains and the list of nodes need.

### ProcessDirectory and ObjectDirectory
`ProcessDirectoryProofs`: **TypeCorrect**, **EntriesCorrect** (OneEntryEach),
**WakingCorrect** (WakesRight) and **AssertionsCorrect** (AssertionsHold). The invariant
ties the descriptors to the processes met so far (EntriesAll, EntriesDistinct,
EntriesRight); that the reserved frames suffice needs that a page is left only when
full and that descriptors are counted right (PagesFull, AllCounted). AssertionsCorrect
has no hypothesis on the number of processes: it says that a kernel that stopped had found more
processes to save than there are Activities, from whose number the code computes its reservation.

`ObjectDirectoryProofs`: **TypeCorrect**, **FramesCorrect** (FramesHeld) and
**DirectoryCorrect** (DirectoryComplete). The invariant says that a frame is reserved,
in the queue or released and never two of these (FramesApart); that the log frames of
the directory are consecutive whoever allocates them and that nothing else is written
there (Counts, LidsApart); that the disk's order puts the header last (HeaderLast); and
that the pages, those on disk and those still in a frame (PageAt), hold between them
exactly the entries scanned so far (EntriesHeld).

### Capabilities
`CapabilitiesProofs`: **TypeCorrect**, **CountUsedCorrect** (CountUsedExact),
**NPCountCorrect** (NPCountBound), and the action properties **AuthorityCorrect**
(AuthorityExact) and **RestartCorrect** (RestartGivesNoMore). None of them can be seen
from what is in core alone: `CapInv` relates the counts and keys in core to those on
disk, in the checkpoint being written and in the one that a restart would use.

### Invocation
`InvocationProofs`: **OneActivityCorrect** (OneActivityEach), **StatesCorrect**
(StatesAgree), **ResumeKeysCorrect** (ResumeKeysExact) and **NoLostWakeUpCorrect**
(NoLostWakeUp). They share one invariant because they need each other. A return gives
the returner's Activity to the process its Resume capability names, which has none of
its own only if a capability that fits implies that it waits for a return and not for
the timer (Waits). An unprepared capability stops fitting because the call count is
bumped, which happens only if OFLG_CallCntUsed is on, so KeyOK says that it is on while
such a capability exists. A queue is woken or an Activity taken off it as a sequence, so
QueueInv says that each queue lists its set once and that the stall queues are disjoint.

### MemoryMap
`MemoryMapProofs`: **MapTypes** (MapTypeOK), **DependTheorem** (DependComplete),
**TablesTheorem** (NoStaleTable), **SmallSpacesTheorem** (SmallSpacesFit), **CacheTheorem**
(CacheCoherent) and **MappingsTheorem** (MappingsJustified), for any tree, sizes of GPTs up to that of
the top of the walk, addresses, read-only keys, ageing, tags of slots, size of the depend table and
number of events.

DependComplete, NoStaleTable, MappingsJustified and CacheCoherent are about the states before a
reference to a stolen table is missed: after that nothing is known of what the table's frame holds.
`missed` is set for entries other than the first of a small space of the table's own object, and
nothing else; the proof shows that no reference is left in any other way. Releasing an object
(Rescind, Evict) does not, because it releases the small spaces that the object produces as well.
An entry that was made valid without a walk (`blind`) is exempt from the access of the
tree, and from nothing else.

The invariant `Inv` is a predicate on the maps, the tree and the objects in core, because a
page fault is a chain of operators on maps, any of which may
invalidate what an earlier one built: each part of a page fault is shown to take good
maps to good maps. For each kind of map there is one conjunct. ProcOK: the small space of
a process is that of the key in its slot, and the slot is covered by a
depend entry. SpaceOK: the slots beyond a small space are void and hazarded, in every
step of a page fault too (`Clings`). FlptOK: the walk of the tree from the space arrives at what the
coarse page table was made for, and every slot on the way is covered. An entry whose walk is not
empty goes with the hazards of the slots that lead to the object; one whose walk is
empty is in a small space of the object itself, and of these MapTab_ClearRefs finds
only the first, so that `ReleaseTablesOK` has the maps right if no entry refers to the table any more,
or if the object has no small space. CptOK: a table is made for a GPT of pages. PteOK: what FlptOK
says, of the entries of a table and the pages they name. CacheOK: where a page is mapped agrees with its cacheAddr. An entry of
the depend table that is reused takes with it everything that it covered (`Shrinks`:
maps only lose entries, and what is left is still covered), so that the walk
is done when the entry under construction is still PTE_IN_PROGRESS or has lost nothing. The
hardest step is that the maps follow the tree at *two* walks, of which the
second begins where the first, perhaps of an earlier fault and at another depth, ended: the
traces compose (`Trace` of 2 * MaxDepth steps, shown by induction to have stopped).
Changing or rescinding a slot changes the traces of exactly the entries that it covers.

### Only model-checked
* Liveness (CheckpointEnds, DirectoryGetsWritten): the prover has neither ENABLED nor
  fairness.
* The properties of ProcessRestart. The invariant of Invocation does not hold after a
  restart, which makes Activities with other hazards than the timer's; and the
  range of `maxNPCount`, the last conjunct of Invocation's type, is not part of it.

## 6. Not modelled

In storage: the reservation of log space, several LID ranges and disks, errors
reported by the disk (the kernel prints them and goes on, so no durability property
would hold), migration (does not exist yet), retyping of frames, the reservation of
page frames for page-fault handlers, the frames and requests that restart shares
between its reads.

In the rest of the kernel: keepers and the delivery of faults, forwarders, data
transfer, the process registers (a process is unloaded as a whole), priorities, CPU
reserves and the lack of Activities, domains and large spaces of the ARM port, the
i486 port, boot and kernel memory.

Outside the kernel: the space bank, constructors and the other domains are
sequential servers; drivers, network and window system are ports of other code or
hardware code. `PROJECT.json` lists them with reasons.
