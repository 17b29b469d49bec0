----------------------------- MODULE MemoryMap -----------------------------
(* The memory maps of the ARM kernel: kern_Depend.c, the walk of kern_GPT.c, *)
(* and the mapping tables of arch/arm/kernel/Mapping.c and PageFault.c.      *)
(*                                                                           *)
(* The address space of a process is a tree of GPTs whose leaves are pages.  *)
(* Mapping tables are caches of it: the small space a process uses (the      *)
(* first level table, FLPT_FCSE, is shared by all small spaces), the entries *)
(* of a small space in the first level table, which refer to coarse page     *)
(* tables (CPTs), and the entries of those. Whatever was built from a slot   *)
(* of the tree must go when the slot changes. That is what the depend table  *)
(* is for, but it is a cache too: an entry that is reused first invalidates  *)
(* what it stood for, which may be what the same page fault is building.     *)
(*                                                                           *)
(* The kernel does not preempt itself, so a page fault is one step, which    *)
(* ends in success, in a fault that the keeper gets, or by Yielding: then    *)
(* what it did so far stays and the process faults again.                    *)
(*                                                                           *)
(* A page fault that needs a large space is fatal() in the code: the step is *)
(* not taken. Left out: guards, window keys, background and keeper slots,    *)
(* GPTs of 2^32 bytes a slot, domains (there are enough), the page versions  *)
(* of a checkpoint, and the flushing of TLB and cache before user mode.      *)
EXTENDS Naturals, FiniteSetsExt

CONSTANTS
    Proc, Gpt, Page,
    Cpt,        \* the coarse page tables there is room for
    Flpt,       \* the first level table, as a table of the depend entries
    None,
    PidInProgress,  \* PID_IN_PROGRESS
    Span,       \* 2^l2v: what a slot of each GPT spans, in pages
    NSlots,     \* EROS_NODE_SIZE: the slots of a GPT
    SectionSize,\* 2^L1D_ADDR_SHIFT: what an entry of the first level spans
    SpaceSize,  \* 2^PID_SHIFT: what a small space spans
    NSpaces,    \* bound: the number of small spaces
    NSteal,     \* KTUNE_NSSSTEAL
    BucketSize, \* KeyBucketSize
    SlotTag,    \* SLOT_TAG of each slot, by which depend entries are found
    KeysOf,     \* bound: the keys to consider for each slot
    InitTree,   \* the tree at first
    VaOf,       \* bound: the addresses (pages) that each process refers to
    MaxDepth,   \* MAX_SEG_DEPTH
    Aged,       \* the objects whose use the ager looks for
    Quiet,      \* the objects that are pinned and that nobody rescinds
    MaxEvents   \* bound: the number of steps other than page faults

Obj == Gpt \cup Page
SlotIx == 0 .. NSlots - 1
Slot == (Gpt \X SlotIx) \cup (Proc \X {0})    \* of a process: ProcAddrSpace
Key == [obj : Obj \cup {None}, ro : BOOLEAN]
VoidKey == [obj |-> None, ro |-> FALSE]

SectionsInSpace == SpaceSize \div SectionSize
Space == 0 .. NSpaces - 1
FlptIx == 0 .. NSpaces * SectionsInSpace - 1
PageIx == 0 .. SectionSize - 1

TopSize == 2 * SpaceSize    \* 2^walk_root_l2v, which is 2^32

\* Sizes are powers of two, so that the smaller divides the larger. Pages are
\* in GPTs that are not walked at the first level: a page where a table is
\* expected fails an assert() of the code.
ASSUME ConstantsAssumption ==
    /\ Gpt \cap Page = {} /\ Gpt \cap Proc = {}
    /\ Flpt \notin Proc \cup Cpt /\ Proc \cap Cpt = {}
    /\ None \notin Obj \cup Proc \cup Cpt \cup {Flpt}
    /\ PidInProgress # None /\ {None, PidInProgress} \cap Space = {}
    /\ NSlots \in Nat \ {0} /\ NSpaces \in Nat \ {0} /\ NSteal \in Nat
    /\ SectionSize \in Nat \ {0} /\ SpaceSize \in Nat \ {0}
    /\ SpaceSize % SectionSize = 0
    /\ Span \in [Gpt -> Nat \ {0}]
    /\ \A g \in Gpt : /\ Span[g] < TopSize
                      /\ Span[g] >= SectionSize => Span[g] % SectionSize = 0
    /\ SlotTag \in [Slot -> Nat]
    /\ \A s \in Slot : KeysOf[s] \subseteq Key
    /\ \A s \in Slot : \A k \in KeysOf[s] :
        k.obj \in Page => s[1] \in Gpt /\ Span[s[1]] < SectionSize
    /\ InitTree \in [Slot -> Key]
    /\ \A s \in Slot : InitTree[s] \in KeysOf[s]
    /\ BucketSize \in Nat \ {0} /\ MaxDepth \in Nat
    /\ \A p \in Proc : VaOf[p] \subseteq 0 .. SpaceSize - 1
    /\ Aged \subseteq Obj /\ Quiet \subseteq Obj /\ MaxEvents \in Nat

VARIABLES
    tree,   \* the key in each slot
    core,   \* the objects that are in core
    map,    \* the maps, a record (below) that one step changes many times
    events, \* the number of steps other than page faults
    missed  \* history: a table was released though a later entry of a small
            \* space refers to it, see StealTable

vars == <<tree, core, map, events, missed>>

(***************************************************************************)
(* Entries, tables and the depend table. blind is history: the entry was   *)
(* made valid again after ageing, without a walk.                          *)
(***************************************************************************)
Zapped == [st |-> "zapped", to |-> None, w |-> FALSE, cached |-> FALSE,
           blind |-> FALSE]
InProgress == [Zapped EXCEPT !.st = "progress"]
NoEntry == [tag |-> 0, tab |-> None, lo |-> 0, hi |-> 0]
NoSpace == [obj |-> None, ro |-> FALSE]
NoTable == [obj |-> None, ro |-> FALSE, ndx |-> 0, addr |-> 0]
CacheNone == [class |-> "none", at |-> 0]

EmptyMap ==
    [ hz    |-> {},                             \* write hazarded slots
      dep   |-> [k \in 1 .. BucketSize |-> NoEntry], \* one bucket, listed
                                                \* from KeyDependLRU on
      md    |-> [p \in Proc |-> None],          \* md.firstLevelMappingTable, pid
      ss    |-> [s \in Space |-> NoSpace],      \* SmallSpaces
      flpt  |-> [x \in FlptIx |-> Zapped],
      cpt   |-> [c \in Cpt |-> NoTable],        \* the MapTabHeaders
      pte   |-> [c \in Cpt |-> [j \in PageIx |-> Zapped]],
      ca    |-> [x \in Page |-> CacheNone],     \* cacheAddr
      dirty |-> {} ]

Referenced(t) == IF t.st = "valid" THEN [t EXCEPT !.st = "lru"] ELSE t
\* PTE_TrackDirty sets PTE_CACHEABLE, whatever it was.
ReadOnly(t) == IF t.st = "valid" /\ t.w
                 THEN [t EXCEPT !.w = FALSE, !.cached = TRUE] ELSE t

\* What KeyDependEntry_Invalidate, _TrackReferenced and _TrackDirty do to an
\* entry of the first level and to one of a coarse page table.
Flmte(how, t) == CASE how = "invalidate" -> Zapped
                   [] how = "trackReferenced" -> Referenced(t)
                   [] how = "trackDirty" -> t
Pte(how, t) == CASE how = "invalidate" -> Zapped
                 [] how = "trackReferenced" -> Referenced(t)
                 [] how = "trackDirty" -> ReadOnly(t)

\* KeyDependEntry_Track, for a set of depend entries: a process that is one of
\* them loses its table in every case.
Track(m, E, how) ==
    LET Hit(tab, ix) == \E e \in E : e.tab = tab /\ ix \in e.lo .. e.hi
    IN  [m EXCEPT
          !.md = [p \in Proc |-> IF Hit(p, 0) THEN None ELSE m.md[p]],
          !.flpt = [x \in FlptIx |->
                      IF Hit(Flpt, x) THEN Flmte(how, m.flpt[x]) ELSE m.flpt[x]],
          !.pte = [c \in Cpt |-> [j \in PageIx |->
                      IF Hit(c, j) THEN Pte(how, m.pte[c][j]) ELSE m.pte[c][j]]]]

EntriesOf(m, S) ==
    {k \in 1 .. BucketSize : m.dep[k] # NoEntry
                             /\ \E s \in S : m.dep[k].tag = SlotTag[s]}

\* Depend_VisitEntries for the hazarded ones of a set of slots.
Visit(m, S, how) ==
    Track(m, {m.dep[k] : k \in EntriesOf(m, S \cap m.hz)}, how)

\* Depend_InvalidateKey (through node_ClearHazard) for a set of slots.
ClearHazards(m, S) ==
    LET gone == EntriesOf(m, S \cap m.hz)
    IN  [Visit(m, S, "invalidate") EXCEPT
          !.dep = [k \in 1 .. BucketSize |->
                     IF k \in gone THEN NoEntry ELSE m.dep[k]],
          !.hz = @ \ S]

\* Mutant: what the entry was used for before stays valid.
NewDependEntry_mutant(m, s, tab, ix) ==
    LET entry == [tag |-> SlotTag[s], tab |-> tab, lo |-> ix, hi |-> ix]
    IN  [m EXCEPT !.dep = [k \in 1 .. BucketSize |->
                             IF k < BucketSize THEN m.dep[k + 1] ELSE entry]]

\* NewDependEntry: what the entry was used for before is invalidated.
NewDependEntry(m, s, tab, ix) ==
    LET n == IF m.dep[1] = NoEntry THEN m
             ELSE Track(m, {m.dep[1]}, "invalidate")
        entry == [tag |-> SlotTag[s], tab |-> tab, lo |-> ix, hi |-> ix]
    IN  [n EXCEPT !.dep = [k \in 1 .. BucketSize |->
                             IF k < BucketSize THEN m.dep[k + 1] ELSE entry]]

\* Depend_AddKey, which merges entries of the same tag and table.
AddKey(m, s, tab, ix) ==
    LET n == [m EXCEPT !.hz = @ \cup {s}]
        same == {k \in 1 .. BucketSize : m.dep[k].tag = SlotTag[s]
                                         /\ m.dep[k].tab = tab}
        k == Min(same)
        wider == [m.dep[k] EXCEPT !.lo = Min({@, ix}), !.hi = Max({@, ix})]
    IN  IF same = {} THEN NewDependEntry(n, s, tab, ix)
        ELSE [n EXCEPT !.dep[k] = wider]

KeysTo(o) == {s \in Slot : tree[s].obj = o}     \* the hazarded are on its ring

(***************************************************************************)
(* Releasing what an object produces.                                      *)
(***************************************************************************)
SectionsOf(s) == s * SectionsInSpace .. (s + 1) * SectionsInSpace - 1

\* ReleaseSmallSpace, for a set of them.
ReleaseSpaces(m, S) ==
    [m EXCEPT
      !.md = [p \in Proc |-> IF m.md[p] \in S THEN None ELSE m.md[p]],
      !.flpt = [x \in FlptIx |->
                  IF \E s \in S : x \in SectionsOf(s) THEN Zapped ELSE m.flpt[x]],
      !.ss = [s \in Space |-> IF s \in S THEN NoSpace ELSE m.ss[s]]]

\* The first entry of every small space that an object produces.
FirstEntries(m, o) ==
    {x \in FlptIx : \E s \in Space : m.ss[s].obj = o
                                     /\ x = s * SectionsInSpace}

\* And the other entries of those spaces.
LaterEntries(m, o) ==
    {x \in FlptIx : \E s \in Space : m.ss[s].obj = o /\ x \in SectionsOf(s)}
      \ FirstEntries(m, o)

\* Mutant: the small spaces that the same object produces are forgotten.
ClearRefs_mutant(m, o) == ClearHazards(m, KeysTo(o))

\* MapTab_ClearRefs for the coarse page tables that an object produces.
ClearRefs(m, o) ==
    LET n == ClearHazards(m, KeysTo(o))
    IN  [n EXCEPT !.flpt = [x \in FlptIx |->
            IF x \in FirstEntries(m, o) THEN Zapped ELSE n.flpt[x]]]

\* Release2ndLevelMappingTable for tables of one object. Nobody sees the
\* entries of a free table, as kzero() clears it when it is allocated: here it
\* is cleared at once.
ReleaseTables(m, C, o) ==
    LET n == ClearRefs(m, o)
    IN  [n EXCEPT
          !.cpt = [c \in Cpt |-> IF c \in C THEN NoTable ELSE n.cpt[c]],
          !.pte = [c \in Cpt |-> [j \in PageIx |->
                     IF c \in C THEN Zapped ELSE n.pte[c][j]]]]

\* objH_InvalidateProducts; the order is that of the list, and is no matter.
InvalidateProducts(m, o) ==
    LET n == ReleaseSpaces(m, {s \in Space : m.ss[s].obj = o})
        C == {c \in Cpt : m.cpt[c].obj = o}
    IN  IF C = {} THEN n ELSE ReleaseTables(n, C, o)

(***************************************************************************)
(* The walk. A walk w has the maps so far, the object and offset it got to *)
(* and how it goes: "walk", or "ok", "fault" or "yield" when it has ended. *)
(***************************************************************************)
Ended(w, how) == [w EXCEPT !.res = how]

\* processKey and the Depend_AddKey after it. A key is prepared first, which
\* Yields if its object has to be fetched.
ProcessKey(w, s, off, write, tab, ix) ==
    LET ro == w.ro \/ tree[s].ro
    IN  CASE tree[s] = VoidKey -> Ended(w, "fault")
          [] tree[s] # VoidKey /\ tree[s].obj \notin core -> Ended(w, "yield")
          [] tree[s].obj \in core /\ ro /\ write -> Ended(w, "fault")
          [] OTHER -> [w EXCEPT !.obj = tree[s].obj, !.off = off, !.ro = ro,
                                !.m = AddKey(@, s, tab, ix)]

\* One turn of the loop of WalkSeg. count is traverseCount, of all walks of
\* a page fault together.
WalkStep(w, stop, write, tab, ix) ==
    LET span == Span[w.obj]
        ndx == w.off \div span
    IN  CASE w.res # "walk" -> w
          [] w.res = "walk" /\ w.obj \in Page ->
               Ended(w, IF w.off = 0 THEN "ok" ELSE "fault")
          [] w.res = "walk" /\ w.obj \in Gpt /\ span < stop -> Ended(w, "ok")
          [] w.res = "walk" /\ w.obj \in Gpt /\ span >= stop
               /\ (w.count + 1 >= MaxDepth \/ ndx \notin SlotIx) ->
               Ended(w, "fault")
          [] OTHER -> ProcessKey([w EXCEPT !.count = @ + 1], <<w.obj, ndx>>,
                                 w.off % span, write, tab, ix)

WalkSeg(w, stop, write, tab, ix) ==
    LET W[n \in 0 .. MaxDepth] ==
          IF n = 0 THEN [w EXCEPT !.res = "walk"]
          ELSE WalkStep(W[n - 1], stop, write, tab, ix)
        end == W[MaxDepth]
    IN  IF end.res = "walk" THEN Ended(end, "fault") ELSE end

(***************************************************************************)
(* A page fault of process p at va. s is the small space AllocateSmallSpace *)
(* takes, if one is needed; calm says that the last change of the address a *)
(* page is cached at was not too recent.                                    *)
(***************************************************************************)
FreeSpaces(m) == {s \in Space : m.ss[s] = NoSpace}
FreeTables(m) == {c \in Cpt : m.cpt[c] = NoTable}

\* The slots that are beyond what a small space spans.
UpperSlots(g) == {<<g, i>> : i \in {n \in SlotIx : n * Span[g] >= SpaceSize}}

\* A GPT whose address space does not fit a small space.
IsLarge(g) == Span[g] > SpaceSize
              \/ \E s \in UpperSlots(g) : tree[s] # VoidKey

\* The small spaces that are given up when none is free, from s downwards.
Stolen(s) == {x \in Space : \E i \in 0 .. NSteal - 1 : (x + i) % NSpaces = s}

\* AllocateSmallSpace, InitMapTabHeader and AssignSSToProc. The void keys that
\* make the space a small one are hazarded.
UseSpace(w, p, s) ==
    LET found == {x \in Space : w.m.ss[x] = [obj |-> w.obj, ro |-> w.ro]}
        n == ReleaseSpaces(w.m, {s} \cup IF FreeSpaces(w.m) = {} THEN Stolen(s)
                                         ELSE {})
    IN  IF found # {} THEN [w EXCEPT !.m.md[p] = Min(found)]
        ELSE IF IsLarge(w.obj) THEN Ended(w, "fatal")
        ELSE [w EXCEPT !.m = [n EXCEPT !.ss[s] = [obj |-> w.obj, ro |-> w.ro],
                                       !.md[p] = s,
                                       !.hz = @ \cup UpperSlots(w.obj)]]

GetFirstLevelMappingTable(m, p, va, write, s) ==
    LET w == [m |-> m, obj |-> None, off |-> va, ro |-> FALSE, count |-> 0,
              res |-> "walk"]
        has == m.ss[m.md[p]]
        k == ProcessKey(w, <<p, 0>>, va, write, p, 0)
        r == WalkSeg([k EXCEPT !.m.md[p] = PidInProgress], TopSize, write, p, 0)
    IN  CASE m.md[p] \in Space -> [w EXCEPT !.obj = has.obj, !.ro = has.ro]
          [] m.md[p] \notin Space /\ k.res # "walk" -> k
          [] m.md[p] \notin Space /\ k.res = "walk" /\ r.res # "ok" -> r
          [] OTHER -> IF r.m.md[p] # PidInProgress THEN Ended(r, "yield")
                      ELSE UseSpace(r, p, s)

\* Mutant: a table is shared whatever the address it is used at.
FindTable_mutant(w, x) ==
    {c \in Cpt : /\ w.m.cpt[c] # NoTable
                 /\ w.m.cpt[c].obj = w.obj /\ w.m.cpt[c].ro = w.ro
                 /\ w.m.cpt[c].ndx = w.off \div SectionSize}

\* FindProduct for a coarse page table: one that can be written through has
\* to be for this place, as its pages are cached by their virtual address.
FindTable(w, x) ==
    {c \in Cpt : /\ w.m.cpt[c] # NoTable
                 /\ w.m.cpt[c].obj = w.obj /\ w.m.cpt[c].ro = w.ro
                 /\ w.m.cpt[c].ndx = w.off \div SectionSize
                 /\ ~w.ro => w.m.cpt[c].addr = x}

\* AllocateCPT and InitMapTabHeader; when no frame is to be had the ager runs.
UseTable(w, x) ==
    LET found == FindTable(w, x)
        free == FreeTables(w.m)
        c == CHOOSE t \in found : TRUE
        n == CHOOSE t \in free : TRUE
        entry(t) == [Zapped EXCEPT !.st = "valid", !.to = t]
    IN  CASE found # {} -> [w EXCEPT !.m.flpt[x] = entry(c)]
          [] found = {} /\ free = {} -> Ended(w, "yield")
          [] OTHER ->
               [w EXCEPT
                 !.m.cpt[n] = [obj |-> w.obj, ro |-> w.ro, addr |-> x,
                               ndx |-> w.off \div SectionSize],
                 !.m.flpt[x] = entry(n)]

GetCPT(w, x, write) ==
    LET f == w.m.flpt[x]
        t == w.m.cpt[f.to]
        r == WalkSeg([w EXCEPT !.m.flpt[x] = InProgress],
                     SectionSize, write, Flpt, x)
    IN  IF f.st \in {"valid", "lru"}
          THEN [w EXCEPT !.m.flpt[x].st = "valid", !.obj = t.obj, !.ro = t.ro,
                         !.off = (@ % SectionSize) + t.ndx * SectionSize,
                         !.res = "ok"]
        ELSE IF r.res # "ok" THEN r
        ELSE IF r.m.flpt[x] # InProgress THEN Ended(r, "yield")
        ELSE UseTable(r, x)

\* The cache class of the page, and what has to be unmapped for it: the part
\* of FillPTE that is about cacheAddr. mva is the address in all of the small
\* spaces; pageH_ConsiderUncached decides by the time (calm).
Cache(m, x, mva, ro, write, calm) ==
    LET a == m.ca[x]
        here == ~ro /\ a.at = mva
        unmapped == ClearHazards(m, KeysTo(x))      \* pageH_UnmapOldAddrs
        Class(n, class) == [n EXCEPT !.ca[x] = [class |-> class, at |-> mva]]
        Shared(n, class) == [n EXCEPT !.ca[x] = [class |-> class, at |-> 0]]
        fromNone(n) == IF write THEN Class(n, "writeable")
                       ELSE IF ro THEN Shared(n, "readers")
                       ELSE Class(n, "onereader")
        consider == IF calm THEN fromNone(unmapped)
                    ELSE Shared(unmapped, "uncached")
    IN  CASE a.class = "none" -> fromNone(m)
          [] a.class = "onereader" ->
               IF here THEN (IF write THEN Class(m, "writeable") ELSE m)
               ELSE IF write THEN consider ELSE Shared(m, "readers")
          [] a.class = "writeable" -> IF here THEN m ELSE consider
          [] a.class = "readers" -> IF write THEN fromNone(unmapped) ELSE m
          [] a.class = "uncached" -> m

\* Mutant: the entry is filled in though it was zapped in the meantime.
FillPTE_mutant(w, c, j, x, write, calm, blind) ==
    LET dirtied == [w.m EXCEPT !.dirty = IF write THEN @ \cup {w.obj} ELSE @]
        n == Cache(dirtied, w.obj, x * SectionSize + j, w.m.cpt[c].ro,
                   write, calm)
    IN  [n EXCEPT !.pte[c][j] =
           [st |-> "valid", to |-> w.obj, w |-> write, blind |-> blind,
            cached |-> n.ca[w.obj].class # "uncached"]]

FillPTE(w, c, j, x, write, calm, blind) ==
    LET dirtied == [w.m EXCEPT !.dirty = IF write THEN @ \cup {w.obj} ELSE @]
        n == Cache(dirtied, w.obj, x * SectionSize + j, w.m.cpt[c].ro,
                   write, calm)
    IN  IF n.pte[c][j].st = "zapped" THEN n
        ELSE [n EXCEPT !.pte[c][j] =
                [st |-> "valid", to |-> w.obj, w |-> write, blind |-> blind,
                 cached |-> n.ca[w.obj].class # "uncached"]]

\* The rest of proc_DoPageFault: an entry that is only made invalid to see
\* whether the page is used is made valid again without a walk, if it has
\* PTE_CACHEABLE.
GetPage(w, c, j, x, write, calm) ==
    LET t == w.m.pte[c][j]
        r == WalkSeg(IF t = Zapped THEN [w EXCEPT !.m.pte[c][j] = InProgress]
                     ELSE w, 0, write, c, j)
    IN  IF t.st = "lru" /\ t.cached
          THEN FillPTE([w EXCEPT !.obj = t.to], c, j, x, write, calm, TRUE)
        ELSE IF r.res # "ok" THEN r.m
        ELSE FillPTE(r, c, j, x, write, calm, FALSE)

DoPageFault(m, p, va, write, s, calm) ==
    LET w1 == GetFirstLevelMappingTable(m, p, va, write, s)
        x == w1.m.md[p] * SectionsInSpace + va \div SectionSize
        w2 == GetCPT(w1, x, write)
    IN  IF w1.res \in {"fault", "yield", "fatal"} THEN w1.m
        ELSE IF w2.res # "ok" THEN w2.m
        ELSE GetPage(w2, w2.m.flpt[x].to, va % SectionSize, x, write, calm)

\* What the hardware finds for an address.
Entry(m, p, va) ==
    LET f == m.flpt[m.md[p] * SectionsInSpace + va \div SectionSize]
    IN  IF m.md[p] \in Space /\ f.st = "valid"
          THEN m.pte[f.to][va % SectionSize] ELSE Zapped

Allows(t, write) == t.st = "valid" /\ (write => t.w)

Fault(p, va, write) ==
    /\ ~Allows(Entry(map, p, va), write)
    /\ \E calm \in BOOLEAN :
         \E s \in IF FreeSpaces(map) = {} THEN Space
                  ELSE {Min(FreeSpaces(map))} :
           /\ GetFirstLevelMappingTable(map, p, va, write, s).res # "fatal"
           /\ map' = DoPageFault(map, p, va, write, s, calm)
    /\ UNCHANGED <<tree, core, events, missed>>

(***************************************************************************)
(* What else touches the tree, the objects and the tables.                 *)
(***************************************************************************)
\* Mutant: the small spaces stay.
OutgrownSpaces_mutant(s) == {}

\* node_ClearGPTHazard: the small spaces that a GPT produces because this slot,
\* a hazarded one beyond them, is void. (Whoever clears all hazards of a GPT
\* releases all that it produces.)
OutgrownSpaces(s) ==
    {x \in Space : /\ s \in map.hz /\ tree[s] = VoidKey
                   /\ map.ss[x].obj = s[1] /\ s \in UpperSlots(s[1])}

\* node_SetSlot, and swapSlot of a process for its address space.
SetSlot(s, k) ==
    /\ s[1] \in Gpt => s[1] \in core
    /\ k # tree[s]
    /\ tree' = [tree EXCEPT ![s] = k]
    /\ map' = ReleaseSpaces(ClearHazards(map, {s}), OutgrownSpaces(s))
    /\ UNCHANGED <<core, missed>>

\* keyR_RescindAll and objH_ClearObj.
Rescind(o) ==
    LET own == {s \in Slot : s[1] = o}
        n == ClearHazards(map, KeysTo(o))
    IN  /\ o \in core \ Quiet
        /\ tree' = [s \in Slot |-> IF s \in own \cup KeysTo(o) THEN VoidKey
                                   ELSE tree[s]]
        /\ map' = InvalidateProducts(ClearHazards(n, own), o)
        /\ UNCHANGED <<core, missed>>

\* pageH_Clean: the page may not be written any more without being dirtied.
CleanPage(x) ==
    /\ x \in map.dirty
    /\ map' = [Visit(map, KeysTo(x), "trackDirty") EXCEPT
                 !.dirty = @ \ {x}]
    /\ UNCHANGED <<tree, core, missed>>

\* Ageing at age_Invalidate: will the object be used through a map?
AgeObject(o) ==
    /\ o \in core \cap Aged
    /\ map' = Visit(map, KeysTo(o), "trackReferenced")
    /\ UNCHANGED <<tree, core, missed>>

\* pageH_mdType_Aging of a mapping table: MapTab_TrackReferenced.
AgeTable(c) ==
    LET o == map.cpt[c].obj
        n == Visit(map, KeysTo(o), "trackReferenced")
    IN  /\ map.cpt[c] # NoTable /\ o \in Aged
        /\ map' = [n EXCEPT !.flpt = [x \in FlptIx |->
                     IF x \in FirstEntries(map, o) THEN Referenced(n.flpt[x])
                     ELSE n.flpt[x]]]
        /\ UNCHANGED <<tree, core, missed>>

\* pageH_mdType_Aging at age_MTSteal. MapTab_ClearRefs looks only at the first
\* entry of a small space of the same object and may leave a later one, that
\* refers to the table though it is released (TablesReleased). There the model
\* stops: what the hardware and page faults find in a free table is anything.
StealTable(c) ==
    /\ map.cpt[c] # NoTable /\ map.cpt[c].obj \notin Quiet
    /\ map' = ReleaseTables(map, {c}, map.cpt[c].obj)
    /\ missed' = \E x \in LaterEntries(map, map.cpt[c].obj) :
                   map'.flpt[x].st \in {"valid", "lru"} /\ map'.flpt[x].to = c
    /\ UNCHANGED <<tree, core>>

\* Ageing at age_Steal: node_Unprepare, objH_InvalidateProducts and
\* keyR_UnprepareAll. A frame is got for a page when it is fetched, and
\* pageH_MDInitDataPage then says that it is mapped nowhere.
Evict(o) ==
    LET own == {s \in Slot : s[1] = o}
        n == InvalidateProducts(ClearHazards(map, own), o)
    IN  /\ o \in core \ (Quiet \cup map.dirty)
        /\ core' = core \ {o}
        /\ map' = [ClearHazards(n, KeysTo(o)) EXCEPT
                     !.ca = [x \in Page |-> IF x = o THEN CacheNone ELSE @[x]]]
        /\ UNCHANGED <<tree, missed>>

Fetch(o) ==
    /\ o \notin core
    /\ core' = core \cup {o}
    /\ UNCHANGED <<tree, map, events, missed>>

Init ==
    /\ tree = InitTree /\ core = Obj /\ map = EmptyMap
    /\ events = 0 /\ missed = FALSE

Step ==
    \/ \E p \in Proc, write \in BOOLEAN : \E va \in VaOf[p] : Fault(p, va, write)
    \/ /\ events < MaxEvents /\ events' = events + 1
       /\ \/ \E s \in Slot : \E k \in KeysOf[s] : SetSlot(s, k)
          \/ \E x \in Page : CleanPage(x)
          \/ \E o \in Obj : Rescind(o) \/ AgeObject(o) \/ Evict(o)
          \/ \E c \in Cpt : AgeTable(c) \/ StealTable(c)
    \/ \E o \in Obj : Fetch(o)

Next == ~missed /\ Step

Spec == Init /\ [][Next]_vars

(***************************************************************************)
(* Properties.                                                             *)
(***************************************************************************)
TableEntry(S) == [st : {"zapped", "progress", "valid", "lru"},
                  to : S \cup {None}, w : BOOLEAN, cached : BOOLEAN,
                  blind : BOOLEAN]

\* Everything has its type: no process is left with a small space that does
\* not exist, and only tables and pages are in the entries of the tables.
MapTypeOK ==
    /\ tree \in [Slot -> Key] /\ core \subseteq Obj
    /\ map.hz \subseteq Slot
    /\ \A k \in 1 .. BucketSize :
         map.dep[k].tab \in Proc \cup Cpt \cup {Flpt, None}
    /\ \A p \in Proc : map.md[p] \in {None, PidInProgress}
                       \/ map.ss[map.md[p]] # NoSpace
    /\ map.flpt \in [FlptIx -> TableEntry(Cpt)]
    /\ map.pte \in [Cpt -> [PageIx -> TableEntry(Page)]]
    /\ map.dirty \subseteq Page /\ events \in 0 .. MaxEvents /\ missed \in BOOLEAN

\* The slots that are walked from an object, and where the walk ends: what
\* the tree says, without any map.
TraceStep(tr, t, stop) ==
    LET s == <<t.obj, t.off \div Span[t.obj]>>
    IN  IF t.obj \notin Gpt \/ (t.obj \in Gpt /\ Span[t.obj] < stop) THEN t
        ELSE IF s \notin Slot THEN [t EXCEPT !.obj = None]
        ELSE [obj |-> tr[s].obj, off |-> t.off % Span[t.obj],
              ro |-> t.ro \/ tr[s].ro, slots |-> t.slots \cup {s}]

Steps(tr, obj, off, stop) ==
    LET T[n \in 0 .. 2 * MaxDepth] ==
          IF n = 0 THEN [obj |-> obj, off |-> off, ro |-> FALSE, slots |-> {}]
          ELSE TraceStep(tr, T[n - 1], stop)
    IN  T

\* The first level may have been walked by one page fault and the second by
\* another, each of them to the depth of MaxDepth.
Trace(tr, obj, off, stop) == Steps(tr, obj, off, stop)[2 * MaxDepth]

\* Whatever a process can reach through its maps, the tree of its address
\* space gives it at that moment: the page is the one at that address, it is
\* in core, and if it can be written then the page is marked dirty and no key
\* on the way is read-only, unless the entry was made valid again without a
\* walk. (pte_Invalidate and pte_Reduce wherever a key, a page or a table
\* changes; the check of PTE_IN_PROGRESS in PageFault.c.)
MappingsJustified ==
    ~missed => \A p \in Proc : \A va \in VaOf[p] :
      LET t == Entry(map, p, va)
          k == tree[<<p, 0>>]
          path == Trace(tree, k.obj, va, 0)
      IN  t.st = "valid" =>
            /\ path.obj = t.to /\ t.to \in core
            /\ t.w => /\ t.to \in map.dirty
                      /\ t.blind \/ (~k.ro /\ ~path.ro)

\* No process can write through a read-only key.
WritesAllowed ==
    ~missed => \A p \in Proc : \A va \in VaOf[p] :
      LET t == Entry(map, p, va)
      IN  t.st = "valid" /\ t.w =>
            ~tree[<<p, 0>>].ro /\ ~Trace(tree, tree[<<p, 0>>].obj, va, 0).ro

\* A process that uses a small space has nothing beyond it in its address
\* space: "We must produce a large space if the space has anything mapped
\* above 0x01ffffff." (PageFault.c; node_ClearGPTHazard.)
SmallSpacesFit ==
    \A p \in Proc : map.md[p] \in Space /\ tree[<<p, 0>>].obj \in Gpt =>
      ~IsLarge(tree[<<p, 0>>].obj)

Covers(m, s, tab, ix) ==
    /\ s \in m.hz
    /\ \E k \in 1 .. BucketSize :
         /\ m.dep[k].tag = SlotTag[s] /\ m.dep[k].tab = tab
         /\ ix \in m.dep[k].lo .. m.dep[k].hi

\* Every slot that a table entry was built from is hazarded and has a depend
\* entry for it, also where no process uses the table at the moment, so that
\* a change of the slot finds the table entry. (Depend_AddKey, NewDependEntry.)
DependComplete ==
    ~missed =>
    /\ \A p \in Proc : map.md[p] \in Space => Covers(map, <<p, 0>>, p, 0)
    /\ \A s \in Space, x \in FlptIx :
         map.ss[s] # NoSpace /\ x \in SectionsOf(s)
           /\ map.flpt[x].st \in {"valid", "lru"} =>
           \A e \in Trace(tree, map.ss[s].obj,
                          (x % SectionsInSpace) * SectionSize,
                          SectionSize).slots : Covers(map, e, Flpt, x)
    /\ \A c \in Cpt, j \in PageIx :
         map.cpt[c] # NoTable /\ map.pte[c][j].st \in {"valid", "lru"} =>
           \A e \in Trace(tree, map.cpt[c].obj,
                          map.cpt[c].ndx * SectionSize + j,
                          0).slots : Covers(map, e, c, j)

\* An entry of the first level never refers to a table that was released, or
\* was allocated again for something else than what the tree has there.
\* (MapTab_ClearRefs: "Zap all references to this mapping table.")
NoStaleTable ==
    ~missed => \A s \in Space, x \in FlptIx :
      x \in SectionsOf(s) /\ map.flpt[x].st \in {"valid", "lru"} =>
        LET off == (x % SectionsInSpace) * SectionSize
            path == Trace(tree, map.ss[s].obj, off, SectionSize)
            t == map.cpt[map.flpt[x].to]
        IN  /\ t # NoTable /\ t.obj = path.obj
            /\ t.ndx = path.off \div SectionSize
            /\ t.ro = (map.ss[s].ro \/ path.ro)

\* "Zap all references to this mapping table" (MapTab_ClearRefs): once a
\* table is released no entry refers to it any more.
TablesReleased ==
    \A x \in FlptIx : map.flpt[x].st \in {"valid", "lru"} =>
                        map.cpt[map.flpt[x].to] # NoTable

\* The addresses at which a page is mapped so that the cache is used.
CachedAt(x, needWrite) ==
    {a \in FlptIx \X PageIx :
       /\ map.flpt[a[1]].st = "valid"
       /\ LET t == map.pte[map.flpt[a[1]].to][a[2]]
          IN  t.st = "valid" /\ t.to = x /\ t.cached /\ (needWrite => t.w)}

\* A page that can be written through the cache at one address is not cached
\* at another, as the cache is found by virtual addresses. (FillPTE and the
\* states in PageHeader.h.)
CacheCoherent ==
    ~missed => \A x \in Page : CachedAt(x, TRUE) # {} => Cardinality(CachedAt(x, FALSE)) = 1

\* "cacheAddr has CACHEADDR_UNCACHED. ... The cache has no entries for the
\* page" (PageHeader.h, state 5): no entry for such a page allows caching.
UncachedPages ==
    \A x \in Page : map.ca[x].class = "uncached" => CachedAt(x, FALSE) = {}
=============================================================================
