-------------------------- MODULE ProcessDirectory --------------------------
(* The process directory of a generation: what DoPhase1Work saves, at the    *)
(* moment of demarcation, of the persistent processes that must run again    *)
(* after a restart, and what restart reads back. Sources: kern_Ckpt.c        *)
(* (StoreProcessInfo, DoPhase1Work) and kern_Restart.c.                      *)
(*                                                                           *)
(* DoPhase1Work does not Yield: it first scans the non-persistent nodes for  *)
(* Resume capabilities to persistent processes, then the Activities. One     *)
(* action is one call of StoreProcessInfo, the unit by which the directory   *)
(* grows.                                                                    *)
EXTENDS Integers, Sequences, FiniteSets

CONSTANTS
    Oid,          \* OIDs of persistent processes
    MaxCount,     \* bound: call counts are 0 .. MaxCount
    MaxResume,    \* bound: number of Resume capabilities found by the scan
    HdrRoom,      \* descriptors that fit in the generation header
    FrameRoom,    \* descriptors that fit in a directory frame
    NActivity,    \* KTUNE_NACTIVITY
    MinReserved   \* the least number of frames reserved, 2

ASSUME ConstantsAssumption ==
    /\ IsFiniteSet(Oid)
    /\ MaxCount \in Nat /\ MaxResume \in Nat /\ NActivity \in Nat
    /\ MinReserved \in Nat
    /\ HdrRoom \in Nat \ {0} /\ FrameRoom \in Nat \ {0}

VARIABLES
    stage,        \* which scan DoPhase1Work is in, or "saved"
    pages,        \* the descriptors in the header and in each frame used
    counts,       \* the number of descriptors stored with each
    dpdsInCurrentPage,
    halted,       \* a failed assertion
    resumes,      \* history: calls made for Resume capabilities
    best,         \* history: newest call count seen for a process, -1 if none
    acts          \* history: hazard saved from the Activity of a process

vars == <<stage, pages, counts, dpdsInCurrentPage, halted, resumes, best, acts>>

Count == 0 .. MaxCount
Hazard == {"None", "WakeOK", "WakeRestart", "WakeResume"}
Descr == [oid : Oid, callCount : Count, actHazard : Hazard]
Room(i) == IF i = 1 THEN HdrRoom ELSE FrameRoom

TypeOK ==
    /\ stage \in {"nodes", "activities", "saved"}
    /\ pages \in Seq(Seq(Descr)) /\ pages # <<>>
    /\ \A i \in 1 .. Len(pages) : Len(pages[i]) <= Room(i)
    /\ counts \in Seq(Nat) /\ Len(counts) = Len(pages)
    /\ dpdsInCurrentPage \in Nat
    /\ halted \in BOOLEAN
    /\ resumes \in 0 .. MaxResume
    /\ best \in [Oid -> {-1} \cup Count]
    /\ acts \in [Oid -> Hazard \cup {"no"}]

Init ==
    /\ stage = "nodes"
    /\ pages = <<<<>>>>
    /\ counts = <<0>>
    /\ dpdsInCurrentPage = 0
    /\ halted = FALSE
    /\ resumes = 0
    /\ best = [o \in Oid |-> -1]
    /\ acts = [o \in Oid |-> "no"]
-----------------------------------------------------------------------------
\* The number of frames needed besides the header.
maxProcDirFrames_mutant ==  \* mutant: does not round up
    IF NActivity <= HdrRoom THEN 0 ELSE (NActivity - HdrRoom) \div FrameRoom
maxProcDirFrames ==
    IF NActivity <= HdrRoom THEN 0
    ELSE (NActivity - HdrRoom + FrameRoom - 1) \div FrameRoom

NReserved ==
    IF maxProcDirFrames < MinReserved THEN MinReserved ELSE maxProcDirFrames

Last == Len(pages)

\* There is room for another descriptor in the current page.
HasRoom == Len(pages[Last]) < Room(Last)

\* Where ProcFindDuplicate looks: in every page filled so far.
Searched_mutant == {1}  \* mutant: does not go on to the frames
Searched == 1 .. Last

\* The places of the entries ProcFindDuplicate finds for a process.
ProcFindDuplicate(o) ==
    {p \in Searched \X (1 .. HdrRoom + FrameRoom) :
       p[2] <= Len(pages[p[1]]) /\ pages[p[1]][p[2]].oid = o}

(* The entry after another call for its process: the newest call count is    *)
(* kept, and a hazard from an Activity replaces that of Resume capabilities. *)
Merged_mutant(d, c, h) ==  \* mutant: the hazard is not replaced
    [d EXCEPT !.callCount = IF c > @ THEN c ELSE @]
Merged(d, c, h) ==
    IF h = "WakeResume" THEN [d EXCEPT !.callCount = IF c > @ THEN c ELSE @]
    ELSE [d EXCEPT !.actHazard = h]

\* There is an entry already.
UpdateInfo(o, c, h) ==
    /\ \E p \in ProcFindDuplicate(o) :
         /\ pages[p[1]][p[2]].actHazard = "WakeResume"
         /\ pages' = [pages EXCEPT ![p[1]][p[2]] = Merged(@, c, h)]
    /\ UNCHANGED <<counts, dpdsInCurrentPage, halted>>

\* assert(dpdCursor->actHazard == actHaz_WakeResume) fails.
UpdateHalts(o) ==
    /\ \E p \in ProcFindDuplicate(o) : pages[p[1]][p[2]].actHazard # "WakeResume"
    /\ halted' = TRUE
    /\ UNCHANGED <<pages, counts, dpdsInCurrentPage>>

\* There is room in the current page.
AppendInfo(o, c, h) ==
    /\ ProcFindDuplicate(o) = {}
    /\ HasRoom
    /\ pages' = [pages EXCEPT ![Last] =
                   Append(@, [oid |-> o, callCount |-> c, actHazard |-> h])]
    /\ dpdsInCurrentPage' = dpdsInCurrentPage + 1
    /\ UNCHANGED <<counts, halted>>

(* The current page is finished and the next reserved frame begun.           *)
(* dpdsInCurrentPage goes on from what it was.                               *)
NextPage(o, c, h) ==
    /\ ProcFindDuplicate(o) = {}
    /\ ~HasRoom
    /\ Last <= NReserved
    /\ counts' = Append([counts EXCEPT ![Last] = dpdsInCurrentPage], 0)
    /\ pages' = Append(pages, <<[oid |-> o, callCount |-> c, actHazard |-> h]>>)
    /\ dpdsInCurrentPage' = dpdsInCurrentPage + 1
    /\ UNCHANGED halted

\* assert(pageH) fails: not enough frames were reserved.
NextPageHalts(o) ==
    /\ ProcFindDuplicate(o) = {}
    /\ ~HasRoom
    /\ Last > NReserved
    /\ halted' = TRUE
    /\ UNCHANGED <<pages, counts, dpdsInCurrentPage>>

StoreProcessInfo(o, c, h) ==
    \/ UpdateInfo(o, c, h)
    \/ UpdateHalts(o)
    \/ AppendInfo(o, c, h)
    \/ NextPage(o, c, h)
    \/ NextPageHalts(o)

\* The scan of the nodes meets a Resume capability to process o.
SaveResume(o, c) ==
    /\ stage = "nodes" /\ resumes < MaxResume /\ ~halted
    /\ StoreProcessInfo(o, c, "WakeResume")
    /\ resumes' = resumes + 1
    /\ best' = [best EXCEPT ![o] = IF c > @ THEN c ELSE @]
    /\ UNCHANGED <<stage, acts>>

ScanActivities ==
    /\ stage = "nodes" /\ ~halted
    /\ stage' = "activities"
    /\ UNCHANGED <<pages, counts, dpdsInCurrentPage, halted, resumes, best, acts>>

(* The Activity of process o: a process has one, and there are KTUNE_NACTIVITY *)
(* of them. Sleepers are saved as actHaz_WakeRestart. The call count is used *)
(* only with actHaz_WakeResume.                                              *)
SaveActivity(o, c, h) ==
    /\ stage = "activities" /\ acts[o] = "no" /\ ~halted
    /\ Cardinality({q \in Oid : acts[q] # "no"}) < NActivity
    /\ h # "WakeResume" => c = 0
    /\ StoreProcessInfo(o, c, h)
    /\ acts' = [acts EXCEPT ![o] = h]
    /\ best' = [best EXCEPT ![o] = IF h = "WakeResume" /\ c > @ THEN c ELSE @]
    /\ UNCHANGED <<stage, resumes>>

\* "Finish the last page."
FinishPhase1 ==
    /\ stage = "activities" /\ ~halted
    /\ stage' = "saved"
    /\ counts' = [counts EXCEPT ![Last] = dpdsInCurrentPage]
    /\ UNCHANGED <<pages, dpdsInCurrentPage, halted, resumes, best, acts>>

Next ==
    \/ \E o \in Oid, c \in Count : SaveResume(o, c)
    \/ ScanActivities
    \/ \E o \in Oid, c \in Count, h \in Hazard : SaveActivity(o, c, h)
    \/ FinishPhase1

Spec == Init /\ [][Next]_vars
-----------------------------------------------------------------------------
(* Properties.                                                               *)

\* The descriptors of a process in all the pages.
EntriesOf(o) ==
    {p \in (1 .. Last) \X (1 .. HdrRoom + FrameRoom) :
       p[2] <= Len(pages[p[1]]) /\ pages[p[1]][p[2]].oid = o}

(* ProcFindDuplicate walks the header and the frames by hand: a process that *)
(* has been stored is found again wherever it is, so that no process gets    *)
(* two descriptors (restart would start two Activities for it), and none is  *)
(* dropped.                                                                  *)
OneEntryEach ==
    ~halted => \A o \in Oid :
      Cardinality(EntriesOf(o)) =
        IF best[o] # -1 \/ acts[o] # "no" THEN 1 ELSE 0

(* What restart will do with a process is decided by its Activity, if it has *)
(* one that need not resume; otherwise it is woken for the newest call count *)
(* of all the Resume capabilities that will be lost.                         *)
WakesRight ==
    ~halted => \A o \in Oid : \A p \in EntriesOf(o) :
      LET d == pages[p[1]][p[2]]
      IN IF acts[o] \notin {"no", "WakeResume"} THEN d.actHazard = acts[o]
         ELSE d.actHazard = "WakeResume" /\ d.callCount = best[o]

\* The processes that a Resume capability or an Activity has been met for.
Known == {o \in Oid : best[o] # -1 \/ acts[o] # "no"}

(* StoreProcessInfo asserts that a duplicate is a process stored for a       *)
(* Resume capability, "because we store actHaz_WakeResume's first", and that *)
(* enough frames were reserved: maxProcDirFrames is enough for as many       *)
(* processes as there are Activities. A process that only waits for a Resume *)
(* capability has a descriptor and no Activity, so more than that may be     *)
(* met; that is the one way in which an assertion can fail.                  *)
AssertionsHold == halted => Cardinality(Known) > NActivity
=============================================================================
