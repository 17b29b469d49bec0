---------------------------- MODULE LogDirectory ----------------------------
(* The log directory, kern_LogDirectory.c: where each persistent object was  *)
(* last written in the log. The nodes are found by OID through a red-black   *)
(* tree, and those of one generation are on a circular chain with a cursor   *)
(* that scans it. The tree is abstracted to the function it represents; the  *)
(* one trace its shape leaves, which node tree_remove_node splices out, is a *)
(* choice. A chain is the sequence of its nodes from the head on.            *)
EXTENDS Integers, Sequences, FiniteSets, Functions

CONSTANTS
    MaxOid,         \* bound: OIDs are 1 .. MaxOid
    Version,        \* allocation count, call count and type, taken together
    VersionsOf,     \* bound: the versions that each object gets
    Loc,            \* LIDs
    StaleLoc,       \* bound: what a free node may hold as its ppLogLoc
    MaxGen,         \* bound: the highest generation number explored
    NumGenerations, \* LD_MAX_GENERATIONS
    NumEntries      \* numLogDirEntries

ASSUME ConstantsAssumption ==
    /\ MaxOid \in Nat /\ MaxGen \in Nat /\ NumEntries \in Nat
    /\ NumGenerations \in Nat \ {0}
    /\ 0 \notin Loc /\ Loc # {} /\ Version # {}
    /\ \A o \in 1 .. MaxOid : VersionsOf[o] \subseteq Version
    /\ StaleLoc \subseteq Loc \cup {0} /\ StaleLoc # {}

VARIABLES
    node,       \* the tree: OID to TreeNode, with generation 0 if absent
    chain,      \* the chains of generation_table, by generation
    cursor,     \* the cursors of generation_table, 0 for NULL
    highest,    \* highest_generation
    retired,    \* last_retired_generation
    halted,     \* the fatal() or failed assertion, "no" while there is none
    recorded,   \* history: the unretired locations of the present version
    todo,       \* history: what a scan has still to return
    quiet       \* history: no node has left the generation since ld_resetScan

vars == <<node, chain, cursor, highest, retired, halted, recorded, todo, quiet>>

Oid == 1 .. MaxOid
Gen == 1 .. MaxGen
NoLoc == 0
NoCursor == 0
Dangling == MaxOid + 1  \* a cursor left on a node that is no more on its chain
Node == [gen : 0 .. MaxGen, loc : Loc \cup {NoLoc}, ver : Version,
         ppDelta : 0 .. MaxGen, ppLoc : Loc \cup {NoLoc}]
Absent == [gen |-> 0, loc |-> NoLoc, ver |-> CHOOSE v \in Version : TRUE,
           ppDelta |-> 0, ppLoc |-> NoLoc]

Present == {o \in Oid : node[o].gen # 0}

TypeOK ==
    /\ node \in [Oid -> Node]
    /\ chain \in [Gen -> Seq(Oid)]
    /\ cursor \in [Gen -> Oid \cup {NoCursor, Dangling}]
    /\ highest \in 0 .. MaxGen
    /\ retired \in 0 .. highest
    /\ halted \in {"no", "generations", "nodes", "cursor"}
    /\ recorded \in [Oid -> [Gen -> Loc \cup {NoLoc}]]
    /\ todo \in [Gen -> SUBSET Oid]
    /\ quiet \in [Gen -> BOOLEAN]

Init ==
    /\ node = [o \in Oid |-> Absent]
    /\ chain = [g \in Gen |-> <<>>]
    /\ cursor = [g \in Gen |-> NoCursor]
    /\ highest = 0 /\ retired = 0
    /\ halted = "no"
    /\ recorded = [o \in Oid |-> [g \in Gen |-> NoLoc]]
    /\ todo = [g \in Gen |-> {}]
    /\ quiet = [g \in Gen |-> TRUE]

\* Generations that get_generation_index accepts.
InTable(g) == g <= highest /\ highest - g < NumGenerations
-----------------------------------------------------------------------------
(* Chains. A table is a record of the chains and the cursors.                *)
Table == [chain |-> chain, cursor |-> cursor]

\* chain_node: the new node goes after the head.
chain_node(t, o, g) ==
    [t EXCEPT !.chain[g] = IF @ = <<>> THEN <<o>>
                           ELSE <<Head(@), o>> \o Tail(@)]

PositionOn(c, o) == CHOOSE i \in 1 .. Len(c) : c[i] = o

\* What follows a node on a circular chain.
NextOnChain(c, o) ==
    LET i == PositionOn(c, o)
    IN IF i = Len(c) THEN c[1] ELSE c[i + 1]

\* The chain without a node: when that is the head, its predecessor is.
WithoutNode(c, o) ==
    LET n == Len(c)
        i == PositionOn(c, o)
    IN [j \in 1 .. n - 1 |-> IF i = 1 THEN IF j = 1 THEN c[n] ELSE c[j]
                             ELSE IF j < i THEN c[j] ELSE c[j + 1]]

(* unchain_node. A cursor on the node moves on, and a cursor that has then   *)
(* come round to the head ends the scan. A node that was alone has no other  *)
(* to leave the cursor on.                                                   *)
unchain_node(t, o, g) ==
    LET c == t.chain[g]
        rest == WithoutNode(c, o)
        cur == IF t.cursor[g] = o THEN NextOnChain(c, o) ELSE t.cursor[g]
    IN [t EXCEPT !.chain[g] = rest,
                 !.cursor[g] = IF rest = <<>> THEN IF @ = o THEN Dangling ELSE @
                               ELSE IF cur = rest[1] THEN NoCursor ELSE cur]

SetTable(t) == chain' = t.chain /\ cursor' = t.cursor
-----------------------------------------------------------------------------
(* ld_recordLocation.                                                        *)

\* The generation table is moved for generation g: the oldest rows go.
Moved(g) ==
    [chain |-> chain,
     cursor |-> [h \in Gen |-> IF h + NumGenerations <= g THEN NoCursor
                              ELSE cursor[h]]]

\* The fatal error of the move: a row that goes is not empty.
TooManyGenerations_mutant(g) ==  \* mutant: one row too few is looked at
    \E h \in Gen : h + NumGenerations < g /\ chain[h] # <<>>
TooManyGenerations(g) ==
    \E h \in Gen : h + NumGenerations <= g /\ chain[h] # <<>>

\* When the location a node has is worth keeping as the previous one.
KeepsPrevious(n, g, v) == g > n.gen /\ n.gen > retired /\ n.ver = v

\* ppGenerationDelta of a kept location.
PreviousDelta(n, g) == g - n.gen

\* binary_insert finds the object: its node changes chain.
Update(o, g, v, l) ==
    /\ o \in Present
    /\ SetTable(chain_node(unchain_node(Moved(g), o, node[o].gen), o, g))
    /\ node' = [node EXCEPT ![o] =
                  IF KeepsPrevious(@, g, v)
                    THEN [gen |-> g, loc |-> l, ver |-> v,
                          ppDelta |-> PreviousDelta(@, g), ppLoc |-> @.loc]
                    ELSE [gen |-> g, loc |-> l, ver |-> v,
                          ppDelta |-> 0, ppLoc |-> @.ppLoc]]
    /\ quiet' = [quiet EXCEPT ![node[o].gen] = FALSE]
    /\ todo' = [todo EXCEPT ![node[o].gen] = @ \ {o}]

\* binary_insert adds a node. Its ppLogLoc is what the last use left there.
Insert(o, g, v, l) ==
    /\ o \notin Present
    /\ Cardinality(Present) < NumEntries
    /\ SetTable(chain_node(Moved(g), o, g))
    /\ \E pp \in StaleLoc :
         node' = [node EXCEPT ![o] = [gen |-> g, loc |-> l, ver |-> v,
                                      ppDelta |-> 0, ppLoc |-> pp]]
    /\ UNCHANGED <<quiet, todo>>

\* The caller records in ascending order of generations.
ld_recordLocation(o, g, v, l) ==
    /\ halted = "no"
    /\ g >= highest
    /\ ~TooManyGenerations(g)
    /\ highest' = g
    /\ Update(o, g, v, l) \/ Insert(o, g, v, l)
    /\ recorded' = [recorded EXCEPT ![o] =
         [h \in Gen |-> IF h = g THEN l
                        ELSE IF o \in Present /\ node[o].ver = v THEN @[h]
                        ELSE NoLoc]]
    /\ UNCHANGED <<retired, halted>>

\* alloc_node finds the free list empty, or there are too many generations.
RecordHalts(o, g) ==
    /\ halted = "no"
    /\ g >= highest
    /\ \/ TooManyGenerations(g) /\ halted' = "generations"
       \/ /\ ~TooManyGenerations(g)
          /\ o \notin Present /\ Cardinality(Present) = NumEntries
          /\ halted' = "nodes"
    /\ UNCHANGED <<node, chain, cursor, highest, retired, recorded, todo, quiet>>
-----------------------------------------------------------------------------
(* Scans.                                                                    *)

ld_resetScan(g) ==
    /\ halted = "no"
    /\ InTable(g)
    /\ cursor' = [cursor EXCEPT ![g] = IF chain[g] = <<>> THEN NoCursor
                                      ELSE chain[g][1]]
    /\ todo' = [todo EXCEPT ![g] = Range(chain[g])]
    /\ quiet' = [quiet EXCEPT ![g] = TRUE]
    /\ UNCHANGED <<node, chain, highest, retired, halted, recorded>>

\* Where the cursor goes: the scan ends before it comes back to the head.
Advance_mutant(c, o) ==  \* mutant: the node itself is compared with the head
    IF o = c[1] THEN NoCursor ELSE NextOnChain(c, o)
Advance(c, o) ==
    IF NextOnChain(c, o) = c[1] THEN NoCursor ELSE NextOnChain(c, o)

(* ld_findNextObject while there is more to return. A cursor that has been   *)
(* left on a node of no or of another chain follows that node's links.       *)
ld_findNextObject(g) ==
    /\ halted = "no"
    /\ InTable(g)
    /\ cursor[g] # NoCursor
    /\ \E c \in IF cursor[g] # Dangling THEN {Advance(chain[g], cursor[g])}
               ELSE Range(chain[g]) \cup {NoCursor, Dangling} :
         cursor' = [cursor EXCEPT ![g] = c]
    /\ todo' = [todo EXCEPT ![g] = @ \ {cursor[g]}]
    /\ UNCHANGED <<node, chain, highest, retired, halted, recorded, quiet>>
-----------------------------------------------------------------------------
(* Removal.                                                                  *)

(* The node tree_remove_node splices out of the tree: the one to be removed, *)
(* or its successor if it has two children.                                  *)
SplicedOut(o) ==
    LET above == {y \in Present : y > o}
    IN {o} \cup (IF \E x \in Present : x < o
                   THEN {y \in above : \A z \in above : y <= z} ELSE {})

(* tree_remove_node with successor y: o takes y's place on its chain and is  *)
(* then put back, before it goes.                                            *)
Swapped(o, y) ==
    LET g == node[o].gen
        h == node[y].gen
        lent == chain_node(unchain_node(Table, o, g), o, h)
    IN IF y = o THEN Table ELSE chain_node(unchain_node(lent, o, h), o, g)

ld_removeObjectEntry(o) ==
    /\ halted = "no"
    /\ o \in Present
    /\ \E y \in SplicedOut(o) :
         /\ SetTable(unchain_node(Swapped(o, y), o, node[o].gen))
         /\ quiet' = [quiet EXCEPT ![node[o].gen] = FALSE, ![node[y].gen] = FALSE]
    /\ todo' = [todo EXCEPT ![node[o].gen] = @ \ {o}]
    /\ node' = [node EXCEPT ![o] = Absent]
    /\ recorded' = [recorded EXCEPT ![o] = [g \in Gen |-> NoLoc]]
    /\ UNCHANGED <<highest, retired, halted>>

(* ld_clearGeneration removes the rows from g on to the oldest. Taking the   *)
(* nodes off a row ends its scan, unless the cursor is on its only node or   *)
(* dangles; but a removal that borrows a row, for the successor of its node, *)
(* ends a scan that is still at the row's head. A borrowing is possible if   *)
(* the node removed can have two children.                                   *)
Old(g) == {o \in Present : node[o].gen <= g}

Borrowable(h, g) ==
    /\ chain[h] # <<>> /\ cursor[h] = chain[h][1]
    /\ \E x \in Present, z \in Old(g), y \in Range(chain[h]) :
         x < z /\ z < y /\ (h > g \/ node[z].gen > h)

CursorStays(h) ==
    \/ chain[h] # <<>> /\ cursor[h] = Dangling
    \/ Len(chain[h]) = 1 /\ cursor[h] = chain[h][1]

CursorMayEnd(h, g) ==
    Borrowable(h, g) \/ (cursor[h] = Dangling /\ Len(chain[h]) > 1)

ld_clearGeneration(g) ==
    /\ halted = "no"
    /\ InTable(g)
    /\ \A h \in 1 .. g : CursorStays(h) => CursorMayEnd(h, g)
    /\ \E ended \in SUBSET {h \in g + 1 .. MaxGen : Borrowable(h, g)} :
         /\ cursor' = [h \in Gen |->
              IF h \in ended \/ (h <= g /\ chain[h] # <<>>) THEN NoCursor
              ELSE cursor[h]]
         /\ quiet' = [h \in Gen |-> quiet[h] /\ h \notin ended /\ h > g]
    /\ node' = [o \in Oid |-> IF o \in Old(g) THEN Absent ELSE node[o]]
    /\ recorded' = [o \in Oid |-> IF o \in Old(g) THEN [h \in Gen |-> NoLoc]
                                  ELSE recorded[o]]
    /\ chain' = [h \in Gen |-> IF h <= g THEN <<>> ELSE chain[h]]
    /\ todo' = [h \in Gen |-> IF h <= g THEN {} ELSE todo[h]]
    /\ UNCHANGED <<highest, retired, halted>>

\* assert(generation_table[gti].cursor == NULL) fails.
ClearHalts(g) ==
    /\ halted = "no"
    /\ InTable(g)
    /\ \E h \in 1 .. g : CursorStays(h)
    /\ halted' = "cursor"
    /\ UNCHANGED <<node, chain, cursor, highest, retired, recorded, todo, quiet>>

ld_generationRetired(g) ==
    /\ halted = "no"
    /\ g >= retired /\ g <= highest
    /\ retired' = g
    /\ recorded' = [o \in Oid |-> [h \in Gen |-> IF h <= g THEN NoLoc
                                               ELSE recorded[o][h]]]
    /\ UNCHANGED <<node, chain, cursor, highest, halted, todo, quiet>>
-----------------------------------------------------------------------------
Next ==
    \/ \E o \in Oid, g \in Gen, l \in Loc : \E v \in VersionsOf[o] :
         ld_recordLocation(o, g, v, l)
    \/ \E o \in Oid, g \in Gen : RecordHalts(o, g)
    \/ \E g \in Gen : ld_resetScan(g)
    \/ \E g \in Gen : ld_findNextObject(g)
    \/ \E g \in Gen : ld_clearGeneration(g)
    \/ \E g \in Gen : ClearHalts(g)
    \/ \E g \in Gen : ld_generationRetired(g)
    \/ \E o \in Oid : ld_removeObjectEntry(o)

Spec == Init /\ [][Next]_vars
-----------------------------------------------------------------------------
(* Queries.                                                                  *)

\* ld_findObjectForJournal.
ld_findObjectForJournal(o, g) ==
    LET n == node[o]
        pg == n.gen - n.ppDelta
    IN IF n.gen = 0 THEN NoLoc
       ELSE IF g > n.gen /\ n.gen > retired THEN n.ppLoc
       ELSE IF n.ppDelta # 0 /\ g > pg /\ pg > retired THEN n.ppLoc
       ELSE NoLoc

\* ld_numAvailableEntries, from the counts of the rows it visits.
Visited_mutant(g) == {h \in Gen : InTable(h) /\ h >= g}  \* mutant: one row more
Visited(g) == {h \in Gen : InTable(h) /\ h > g}
ld_numAvailableEntries(g) ==
    LET count[h \in 0 .. MaxGen] ==
          IF h = 0 THEN 0
          ELSE count[h - 1] + (IF h \in Visited(g) THEN Len(chain[h]) ELSE 0)
    IN NumEntries - count[MaxGen]
-----------------------------------------------------------------------------
(* Properties.                                                               *)

(* chains_validate: after any sequence of recordings, updates, removals and  *)
(* clearings every node is on the chain of its generation, once, and on no   *)
(* other, and only the generations of the table have nodes.                  *)
ChainsExact ==
    /\ \A g \in Gen :
         /\ Range(chain[g]) = {o \in Present : node[o].gen = g}
         /\ Len(chain[g]) = Cardinality(Range(chain[g]))
    /\ \A o \in Present : InTable(node[o].gen)

\* What a scan will still return.
Remaining(g) ==
    IF cursor[g] \notin Range(chain[g]) THEN {}
    ELSE {chain[g][i] : i \in {j \in 1 .. Len(chain[g]) :
             \E k \in 1 .. j : chain[g][k] = cursor[g]}}

(* A scan by ld_resetScan and ld_findNextObject reaches every node that was  *)
(* there at its start and has not been returned, as long as no node leaves   *)
(* the generation; nodes may join it. DoPhase2Work and the writing of the    *)
(* object directory count on it: they assert that the entries do not run out *)
(* before their count does.                                                  *)
QuietScanComplete == \A g \in Gen : quiet[g] => todo[g] \subseteq Remaining(g)

(* ld_numAvailableEntries is the number of entries not used for a generation *)
(* newer than the one given: objH_EnsureWritable reserves by it.             *)
AvailableExact ==
    \A g \in Gen : InTable(g) =>
      ld_numAvailableEntries(g) =
        NumEntries - Cardinality({o \in Present : node[o].gen > g})

\* The newest location of the present version in generations a < h < b.
Newest(o, a, b) ==
    LET hs == {h \in Gen : a < h /\ h < b /\ recorded[o][h] # NoLoc}
    IN IF hs = {} THEN NoLoc
       ELSE recorded[o][CHOOSE h \in hs : \A k \in hs : k <= h]

(* When the primary location is of the working generation g or later, what   *)
(* ld_findObjectForJournal returns is the location a restart would use: the  *)
(* newest one of this version of the object that is older than g and not     *)
(* retired. It may return NULL instead, never a location that is stale or    *)
(* that belongs to an object destroyed since.                                *)
JournalSound ==
    \A o \in Present, g \in Gen :
      node[o].gen >= g =>
        ld_findObjectForJournal(o, g) \in {NoLoc, Newest(o, retired, g)}

(* The same for every generation, as the description of the function has it. *)
(* It fails: when the primary location is itself older than g, the function  *)
(* returns the previous one, which is older still or left by another object. *)
JournalDescribed ==
    \A o \in Present, g \in Gen :
      ld_findObjectForJournal(o, g) \in {NoLoc, Newest(o, retired, g)}
=============================================================================
