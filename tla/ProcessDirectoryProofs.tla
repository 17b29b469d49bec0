----------------------- MODULE ProcessDirectoryProofs -----------------------
(* Theorems about module ProcessDirectory, for any set of processes, any     *)
(* number of Resume capabilities and any room in the header and in a frame:  *)
(* a process that must run again has one descriptor (OneEntryEach), which    *)
(* wakes it as it must be woken (WakesRight), and an assertion of            *)
(* StoreProcessInfo fails only when more processes than there are Activities *)
(* have been met (AssertionsHold).                                           *)
(*                                                                           *)
(* The two properties of the entries need each other and the way in which    *)
(* the pages are filled: the search finds a process wherever it was put. The *)
(* assertion about the reserved frames needs in addition that as many        *)
(* descriptors have been stored as there are processes known, and that a     *)
(* page is left only when it is full.                                        *)
EXTENDS ProcessDirectory, FiniteSetTheorems, SequenceTheorems, TLAPS

-----------------------------------------------------------------------------
(* The inductive invariant.                                                  *)

\* The process has been met by one of the scans.
Stored(o) == best[o] # -1 \/ acts[o] # "no"

\* No two descriptors are for the same process.
EntriesDistinct ==
    \A i, k \in 1 .. Len(pages) :
      \A j \in 1 .. Len(pages[i]), l \in 1 .. Len(pages[k]) :
        pages[i][j].oid = pages[k][l].oid => i = k /\ j = l

\* The processes met are the ones that have a descriptor.
EntriesAll ==
    \A o \in Oid :
      Stored(o) <=> \E i \in 1 .. Len(pages) : \E j \in 1 .. Len(pages[i]) :
                      pages[i][j].oid = o

\* The descriptor wakes a process with that newest call count and Activity.
Wakes(d, b, a) ==
    IF a \notin {"no", "WakeResume"} THEN d.actHazard = a
    ELSE d.actHazard = "WakeResume" /\ d.callCount = b

EntriesRight ==
    \A i \in 1 .. Len(pages) : \A j \in 1 .. Len(pages[i]) :
      Wakes(pages[i][j], best[pages[i][j].oid], acts[pages[i][j].oid])

\* The nodes are scanned before the Activities.
NodesFirst == stage = "nodes" => \A o \in Oid : acts[o] = "no"

\* A page is left only when it is full, so that the number of descriptors is
\* that of the full pages and what is in the last one.
PagesFull ==
    dpdsInCurrentPage =
      IF Len(pages) = 1 THEN Len(pages[1])
      ELSE HdrRoom + (Len(pages) - 2) * FrameRoom + Len(pages[Len(pages)])

\* There are as many descriptors as processes met.
AllCounted == dpdsInCurrentPage = Cardinality({o \in Oid : Stored(o)})

DirInv ==
    /\ EntriesDistinct
    /\ EntriesAll
    /\ EntriesRight
    /\ NodesFirst
    /\ PagesFull
    /\ AllCounted

-----------------------------------------------------------------------------
(* What the three ways of storing a descriptor do to the pages.              *)

\* The pages are sequences of descriptors.
LEMMA PageTyped ==
    ASSUME TypeOK
    PROVE  /\ Len(pages) \in Nat \ {0}
           /\ DOMAIN pages = 1 .. Len(pages)
           /\ \A i \in 1 .. Len(pages) :
                /\ pages[i] \in Seq(Descr)
                /\ Len(pages[i]) \in Nat
                /\ DOMAIN pages[i] = 1 .. Len(pages[i])
                /\ \A j \in 1 .. Len(pages[i]) :
                     /\ pages[i][j] \in Descr
                     /\ pages[i][j].oid \in Oid
                     /\ pages[i][j].callCount \in Count
                     /\ pages[i][j].actHazard \in Hazard
<1>1. pages \in Seq(Seq(Descr)) /\ pages # <<>>
  BY DEF TypeOK
<1>2. Len(pages) \in Nat \ {0} /\ DOMAIN pages = 1 .. Len(pages)
  BY <1>1, LenProperties, EmptySeq
<1>3. ASSUME NEW i \in 1 .. Len(pages)
      PROVE  /\ pages[i] \in Seq(Descr)
             /\ Len(pages[i]) \in Nat
             /\ DOMAIN pages[i] = 1 .. Len(pages[i])
  <2>1. pages[i] \in Seq(Descr)
    BY <1>1, ElementOfSeq
  <2> QED
    BY <2>1, LenProperties
<1>4. ASSUME NEW i \in 1 .. Len(pages), NEW j \in 1 .. Len(pages[i])
      PROVE  pages[i][j] \in Descr
  BY <1>3, ElementOfSeq
<1>5. \A d \in Descr : d.oid \in Oid /\ d.callCount \in Count /\ d.actHazard \in Hazard
  BY DEF Descr
<1> QED
  BY <1>2, <1>3, <1>4, <1>5

\* Only the descriptor at that place is changed.
Replaced(i, j, d) ==
    /\ pages' \in Seq(Seq(Descr)) /\ Len(pages') = Len(pages)
    /\ \A k \in 1 .. Len(pages) :
         /\ Len(pages'[k]) = Len(pages[k])
         /\ \A l \in 1 .. Len(pages[k]) :
              pages'[k][l] = IF k = i /\ l = j THEN d ELSE pages[k][l]

\* A descriptor is changed in its place.
LEMMA PagesUpdated ==
    ASSUME TypeOK, NEW i \in 1 .. Len(pages), NEW j \in 1 .. Len(pages[i]),
           NEW d \in Descr, pages' = [pages EXCEPT ![i][j] = d]
    PROVE  Replaced(i, j, d)
<1> DEFINE q == [pages[i] EXCEPT ![j] = d]
<1>1. pages[i] \in Seq(Descr) /\ pages \in Seq(Seq(Descr))
  BY PageTyped DEF TypeOK
<1>2. /\ q \in Seq(Descr) /\ Len(q) = Len(pages[i])
      /\ \A l \in 1 .. Len(pages[i]) : q[l] = IF l = j THEN d ELSE pages[i][l]
  BY <1>1, ExceptSeq
<1>3. pages' = [pages EXCEPT ![i] = q]
  OBVIOUS
<1> HIDE DEF q
<1>4. ASSUME NEW s, s = [pages EXCEPT ![i] = q]
      PROVE  /\ s \in Seq(Seq(Descr)) /\ Len(s) = Len(pages)
             /\ \A k \in 1 .. Len(pages) : s[k] = IF k = i THEN q ELSE pages[k]
  BY <1>1, <1>2, <1>4, ExceptSeq
<1> QED
  BY <1>2, <1>3, <1>4 DEF Replaced

\* A descriptor is added to the last page.
LEMMA PagesAppended ==
    ASSUME TypeOK, NEW d \in Descr,
           pages' = [pages EXCEPT ![Len(pages)] = Append(@, d)]
    PROVE  /\ pages' \in Seq(Seq(Descr)) /\ Len(pages') = Len(pages)
           /\ \A k \in 1 .. Len(pages) :
                /\ Len(pages'[k]) = IF k = Len(pages) THEN Len(pages[k]) + 1 ELSE Len(pages[k])
                /\ \A l \in 1 .. Len(pages[k]) : pages'[k][l] = pages[k][l]
           /\ pages'[Len(pages)][Len(pages[Len(pages)]) + 1] = d
<1> DEFINE n == Len(pages)
           q == Append(pages[n], d)
<1>1. n \in 1 .. n /\ pages[n] \in Seq(Descr) /\ pages \in Seq(Seq(Descr))
  BY PageTyped DEF TypeOK
<1>2. /\ q \in Seq(Descr) /\ Len(q) = Len(pages[n]) + 1
      /\ \A l \in 1 .. Len(pages[n]) : q[l] = pages[n][l]
      /\ q[Len(pages[n]) + 1] = d
  <2>1. ASSUME NEW s \in Seq(Descr), NEW e \in Descr
        PROVE  /\ Append(s, e) \in Seq(Descr) /\ Len(Append(s, e)) = Len(s) + 1
               /\ \A l \in 1 .. Len(s) : Append(s, e)[l] = s[l]
               /\ Append(s, e)[Len(s) + 1] = e
    BY AppendProperties
  <2> QED
    BY <1>1, <2>1, Zenon
<1>3. pages' = [pages EXCEPT ![n] = q]
  OBVIOUS
<1> HIDE DEF q
<1>4. ASSUME NEW s, s = [pages EXCEPT ![n] = q]
      PROVE  /\ s \in Seq(Seq(Descr)) /\ Len(s) = Len(pages)
             /\ \A k \in 1 .. Len(pages) : s[k] = IF k = n THEN q ELSE pages[k]
  BY <1>1, <1>2, <1>4, ExceptSeq
<1>5. /\ pages' \in Seq(Seq(Descr)) /\ Len(pages') = Len(pages)
      /\ \A k \in 1 .. Len(pages) : pages'[k] = IF k = n THEN q ELSE pages[k]
  BY <1>3, <1>4
<1>6. pages'[n][Len(pages[n]) + 1] = d
  BY <1>1, <1>2, <1>5
<1>7. ASSUME NEW k \in 1 .. n
      PROVE  /\ Len(pages'[k]) = IF k = n THEN Len(pages[k]) + 1 ELSE Len(pages[k])
             /\ \A l \in 1 .. Len(pages[k]) : pages'[k][l] = pages[k][l]
  <2>1. Len(pages[k]) \in Nat
    BY PageTyped
  <2>2. pages'[k] = IF k = n THEN q ELSE pages[k]
    BY <1>5
  <2>3. CASE k = n
    BY <1>2, <2>2, <2>3
  <2>4. CASE k # n
    BY <2>1, <2>2, <2>4
  <2> QED
    BY <2>3, <2>4
<1> QED
  BY <1>5, <1>6, <1>7

\* A page with one descriptor is added.
LEMMA PagesExtended ==
    ASSUME TypeOK, NEW d \in Descr, pages' = Append(pages, <<d>>)
    PROVE  /\ pages' \in Seq(Seq(Descr)) /\ Len(pages') = Len(pages) + 1
           /\ \A k \in 1 .. Len(pages) : pages'[k] = pages[k]
           /\ Len(pages'[Len(pages) + 1]) = 1
           /\ pages'[Len(pages) + 1][1] = d
<1>1. <<d>> \in Seq(Descr) /\ Len(<<d>>) = 1 /\ <<d>>[1] = d
  OBVIOUS
<1>2. pages \in Seq(Seq(Descr))
  BY DEF TypeOK
<1> QED
  BY <1>1, <1>2, AppendProperties

\* ProcFindDuplicate finds every descriptor of the process and no other.
LEMMA Found ==
    ASSUME TypeOK, NEW o \in Oid
    PROVE  /\ \A p \in ProcFindDuplicate(o) :
                /\ p[1] \in 1 .. Len(pages) /\ p[2] \in 1 .. Len(pages[p[1]])
                /\ pages[p[1]][p[2]].oid = o
                /\ p = <<p[1], p[2]>>
           /\ \A i \in 1 .. Len(pages) : \A j \in 1 .. Len(pages[i]) :
                pages[i][j].oid = o => <<i, j>> \in ProcFindDuplicate(o)
<1>1. \A i \in 1 .. Len(pages) : Len(pages[i]) \in Nat /\ Len(pages[i]) <= HdrRoom + FrameRoom
  <2>1. HdrRoom \in Nat /\ FrameRoom \in Nat
    BY ConstantsAssumption
  <2>2. \A i \in 1 .. Len(pages) : Len(pages[i]) <= Room(i)
    BY DEF TypeOK
  <2> QED
    BY <2>1, <2>2, PageTyped DEF Room
<1>2. HdrRoom + FrameRoom \in Nat
  BY ConstantsAssumption
<1>3. ASSUME NEW p \in ProcFindDuplicate(o)
      PROVE  /\ p[1] \in 1 .. Len(pages) /\ p[2] \in 1 .. Len(pages[p[1]])
             /\ pages[p[1]][p[2]].oid = o
             /\ p = <<p[1], p[2]>>
  BY <1>1, <1>2 DEF ProcFindDuplicate, Searched, Last
<1>4. ASSUME NEW i \in 1 .. Len(pages), NEW j \in 1 .. Len(pages[i]), pages[i][j].oid = o
      PROVE  <<i, j>> \in ProcFindDuplicate(o)
  <2>1. j \in 1 .. HdrRoom + FrameRoom /\ j <= Len(pages[i])
    BY <1>1, <1>2
  <2> QED
    BY <1>4, <2>1 DEF ProcFindDuplicate, Searched, Last
<1> QED
  BY <1>3, <1>4

-----------------------------------------------------------------------------
(* Type correctness.                                                         *)

\* A new descriptor is one.
LEMMA NewDescr ==
    ASSUME NEW o \in Oid, NEW c \in Count, NEW h \in Hazard
    PROVE  [oid |-> o, callCount |-> c, actHazard |-> h] \in Descr
BY DEF Descr

\* A merged descriptor is one of the same process.
LEMMA MergedDescr ==
    ASSUME NEW d \in Descr, NEW c \in Count, NEW h \in Hazard
    PROVE  /\ Merged(d, c, h) \in Descr
           /\ Merged(d, c, h).oid = d.oid
           /\ h = "WakeResume" => /\ Merged(d, c, h).actHazard = d.actHazard
                                  /\ Merged(d, c, h).callCount =
                                       IF c > d.callCount THEN c ELSE d.callCount
           /\ h # "WakeResume" => Merged(d, c, h).actHazard = h
BY DEF Merged, Descr

\* UpdateInfo, with its place named.
LEMMA UpdatePlace ==
    ASSUME TypeOK, NEW o \in Oid, NEW c \in Count, NEW h \in Hazard,
           UpdateInfo(o, c, h)
    PROVE  \E i \in 1 .. Len(pages) : \E j \in 1 .. Len(pages[i]) :
             /\ pages[i][j].oid = o
             /\ pages[i][j].actHazard = "WakeResume"
             /\ Merged(pages[i][j], c, h) \in Descr
             /\ Replaced(i, j, Merged(pages[i][j], c, h))
<1>1. PICK p \in ProcFindDuplicate(o) :
         /\ pages[p[1]][p[2]].actHazard = "WakeResume"
         /\ pages' = [pages EXCEPT ![p[1]][p[2]] = Merged(pages[p[1]][p[2]], c, h)]
  BY Zenon DEF UpdateInfo
<1>2. /\ p[1] \in 1 .. Len(pages) /\ p[2] \in 1 .. Len(pages[p[1]])
      /\ pages[p[1]][p[2]].oid = o
  BY Found
<1>3. Merged(pages[p[1]][p[2]], c, h) \in Descr
  BY <1>2, PageTyped, MergedDescr
<1>4. Replaced(p[1], p[2], Merged(pages[p[1]][p[2]], c, h))
  BY <1>1, <1>2, <1>3, PagesUpdated
<1> QED
  BY <1>1, <1>2, <1>3, <1>4, Zenon

\* What TypeOK says of the pages and the counts.
PagesTyped ==
    /\ pages \in Seq(Seq(Descr)) /\ pages # <<>>
    /\ \A i \in 1 .. Len(pages) : Len(pages[i]) <= Room(i)
    /\ counts \in Seq(Nat) /\ Len(counts) = Len(pages)
    /\ dpdsInCurrentPage \in Nat

\* StoreProcessInfo keeps the pages well typed.
LEMMA StoreTyped ==
    ASSUME TypeOK, NEW o \in Oid, NEW c \in Count, NEW h \in Hazard,
           StoreProcessInfo(o, c, h)
    PROVE  PagesTyped' /\ halted' \in BOOLEAN
<1>0. PagesTyped /\ halted \in BOOLEAN
  BY DEF TypeOK, PagesTyped
<1>1. CASE UpdateInfo(o, c, h)
  <2>1. UNCHANGED <<counts, dpdsInCurrentPage, halted>>
    BY <1>1 DEF UpdateInfo
  <2>2. /\ pages' \in Seq(Seq(Descr)) /\ Len(pages') = Len(pages)
        /\ \A k \in 1 .. Len(pages) : Len(pages'[k]) = Len(pages[k])
    BY <1>1, UpdatePlace DEF Replaced
  <2>3. pages' # <<>>
    BY <2>2, PageTyped, EmptySeq
  <2> QED
    BY <1>0, <2>1, <2>2, <2>3 DEF PagesTyped
<1>2. CASE UpdateHalts(o)
  <2>1. halted' = TRUE /\ UNCHANGED <<pages, counts, dpdsInCurrentPage>>
    BY <1>2 DEF UpdateHalts
  <2> QED
    BY <1>0, <2>1 DEF PagesTyped
<1>3. CASE AppendInfo(o, c, h)
  <2> DEFINE d == [oid |-> o, callCount |-> c, actHazard |-> h]
  <2>0. d \in Descr
    BY NewDescr
  <2>1. /\ Len(pages[Len(pages)]) < Room(Len(pages))
        /\ pages' = [pages EXCEPT ![Len(pages)] = Append(pages[Len(pages)], d)]
        /\ dpdsInCurrentPage' = dpdsInCurrentPage + 1
        /\ UNCHANGED <<counts, halted>>
    BY <1>3 DEF AppendInfo, HasRoom, Last
  <2> HIDE DEF d
  <2>2. /\ pages' \in Seq(Seq(Descr)) /\ Len(pages') = Len(pages)
        /\ \A k \in 1 .. Len(pages) :
             Len(pages'[k]) = IF k = Len(pages) THEN Len(pages[k]) + 1 ELSE Len(pages[k])
    BY <2>0, <2>1, PagesAppended, Zenon
  <2>3. \A k \in 1 .. Len(pages) : Len(pages[k]) \in Nat /\ Room(k) \in Nat
    BY PageTyped, ConstantsAssumption DEF Room
  <2>4. \A k \in 1 .. Len(pages') : Len(pages'[k]) <= Room(k)
    BY <1>0, <2>1, <2>2, <2>3 DEF PagesTyped
  <2>5. pages' # <<>>
    BY <2>2, PageTyped, EmptySeq
  <2> QED
    BY <1>0, <2>1, <2>2, <2>4, <2>5 DEF PagesTyped, Room
<1>4. CASE NextPage(o, c, h)
  <2> DEFINE d == [oid |-> o, callCount |-> c, actHazard |-> h]
  <2>0. d \in Descr
    BY NewDescr
  <2>1. /\ pages' = Append(pages, <<d>>)
        /\ counts' = Append([counts EXCEPT ![Len(pages)] = dpdsInCurrentPage], 0)
        /\ dpdsInCurrentPage' = dpdsInCurrentPage + 1
        /\ UNCHANGED halted
    BY <1>4 DEF NextPage, Last
  <2> HIDE DEF d
  <2>2. /\ pages' \in Seq(Seq(Descr)) /\ Len(pages') = Len(pages) + 1
        /\ \A k \in 1 .. Len(pages) : pages'[k] = pages[k]
        /\ Len(pages'[Len(pages) + 1]) = 1
    BY <2>0, <2>1, PagesExtended, Zenon
  <2>3. Len(pages) \in Nat \ {0} /\ \A k \in Nat : Room(k) \in Nat \ {0}
    BY PageTyped, ConstantsAssumption DEF Room
  <2>4. \A k \in 1 .. Len(pages') : Len(pages'[k]) <= Room(k)
    <3> SUFFICES ASSUME NEW k \in 1 .. Len(pages) + 1 PROVE Len(pages'[k]) <= Room(k)
      BY <2>2
    <3>1. CASE k \in 1 .. Len(pages)
      BY <1>0, <2>2, <3>1 DEF PagesTyped
    <3>2. CASE k = Len(pages) + 1
      <4>1. Room(k) \in Nat \ {0}
        BY <2>3
      <4>2. Len(pages'[k]) = 1
        BY <2>2, <3>2
      <4> QED
        BY <4>1, <4>2
    <3> QED
      BY <2>3, <3>1, <3>2
  <2>5. pages' # <<>>
    BY <2>2, <2>3, EmptySeq
  <2>6. counts' \in Seq(Nat) /\ Len(counts') = Len(pages')
    <3>1. /\ counts \in Seq(Nat) /\ Len(counts) = Len(pages)
          /\ Len(pages) \in 1 .. Len(counts) /\ dpdsInCurrentPage \in Nat
      BY <1>0, <2>3 DEF PagesTyped
    <3>2. ASSUME NEW s, s = [counts EXCEPT ![Len(pages)] = dpdsInCurrentPage]
          PROVE  s \in Seq(Nat) /\ Len(s) = Len(pages)
      BY <3>1, <3>2, ExceptSeq
    <3>3. PICK s : s = [counts EXCEPT ![Len(pages)] = dpdsInCurrentPage]
      OBVIOUS
    <3>4. s \in Seq(Nat) /\ Len(s) = Len(pages) /\ counts' = Append(s, 0)
      BY <2>1, <3>2, <3>3
    <3> QED
      BY <2>2, <3>4, AppendProperties
  <2>7. dpdsInCurrentPage' \in Nat /\ halted' \in BOOLEAN
    BY <1>0, <2>1 DEF PagesTyped
  <2> QED
    BY <2>2, <2>4, <2>5, <2>6, <2>7 DEF PagesTyped, Room
<1>5. CASE NextPageHalts(o)
  <2>1. halted' = TRUE /\ UNCHANGED <<pages, counts, dpdsInCurrentPage>>
    BY <1>5 DEF NextPageHalts
  <2> QED
    BY <1>0, <2>1 DEF PagesTyped
<1> QED
  BY <1>1, <1>2, <1>3, <1>4, <1>5 DEF StoreProcessInfo

\* Every step keeps TypeOK.
LEMMA NextTyped ==
    ASSUME TypeOK, [Next]_vars
    PROVE  TypeOK'
<1>1. ASSUME NEW o \in Oid, NEW c \in Count, SaveResume(o, c)
      PROVE  TypeOK'
  <2>1. PagesTyped' /\ halted' \in BOOLEAN
    BY <1>1, StoreTyped DEF SaveResume, Hazard
  <2>2. /\ resumes' \in 0 .. MaxResume /\ stage' = stage /\ acts' = acts
        /\ best' \in [Oid -> {-1} \cup Count]
    BY <1>1, ConstantsAssumption DEF SaveResume, TypeOK
  <2> QED
    BY <2>1, <2>2 DEF TypeOK, PagesTyped
<1>2. ASSUME NEW o \in Oid, NEW c \in Count, NEW h \in Hazard, SaveActivity(o, c, h)
      PROVE  TypeOK'
  <2>1. PagesTyped' /\ halted' \in BOOLEAN
    BY <1>2, StoreTyped DEF SaveActivity
  <2>2. /\ resumes' = resumes /\ stage' = stage
        /\ acts' \in [Oid -> Hazard \cup {"no"}]
        /\ best' \in [Oid -> {-1} \cup Count]
    BY <1>2 DEF SaveActivity, TypeOK
  <2> QED
    BY <2>1, <2>2 DEF TypeOK, PagesTyped
<1>3. CASE ScanActivities
  BY <1>3 DEF ScanActivities, TypeOK, Room
<1>4. CASE FinishPhase1
  <2>1. /\ stage' = "saved" /\ counts' = [counts EXCEPT ![Len(pages)] = dpdsInCurrentPage]
        /\ UNCHANGED <<pages, dpdsInCurrentPage, halted, resumes, best, acts>>
    BY <1>4 DEF FinishPhase1, Last
  <2>2. /\ counts \in Seq(Nat) /\ Len(counts) = Len(pages)
        /\ Len(pages) \in 1 .. Len(counts) /\ dpdsInCurrentPage \in Nat
    BY PageTyped DEF TypeOK
  <2>3. ASSUME NEW s, s = [counts EXCEPT ![Len(pages)] = dpdsInCurrentPage]
        PROVE  s \in Seq(Nat) /\ Len(s) = Len(pages)
    BY <2>2, <2>3, ExceptSeq
  <2> QED
    BY <2>1, <2>3 DEF TypeOK, Room
<1>5. CASE UNCHANGED vars
  BY <1>5 DEF vars, TypeOK, Room
<1> QED
  BY <1>1, <1>2, <1>3, <1>4, <1>5 DEF Next

-----------------------------------------------------------------------------
(* The entries.                                                              *)

\* What the two scans record about the process they store.
Met(o, c, h) ==
    /\ acts[o] = "no"
    /\ stage' = stage
    /\ best' = [best EXCEPT ![o] = IF h = "WakeResume" /\ c > best[o] THEN c ELSE best[o]]
    /\ \/ stage = "nodes" /\ h = "WakeResume" /\ acts' = acts
       \/ stage # "nodes" /\ acts' = [acts EXCEPT ![o] = h]

\* Only the process met is changed, and it then is one that is stored once it
\* has a descriptor.
LEMMA MetFacts ==
    ASSUME TypeOK, NEW o \in Oid, NEW c \in Count, NEW h \in Hazard, Met(o, c, h)
    PROVE  /\ \A x \in Oid \ {o} : best'[x] = best[x] /\ acts'[x] = acts[x]
           /\ h # "WakeResume" => acts'[o] = h /\ best'[o] = best[o]
           /\ h = "WakeResume" => /\ acts'[o] \in {"no", "WakeResume"}
                                  /\ best'[o] = IF c > best[o] THEN c ELSE best[o]
           /\ Stored(o)'
           /\ \A x \in Oid \ {o} : Stored(x)' <=> Stored(x)
<1>1. /\ best \in [Oid -> {-1} \cup Count] /\ acts \in [Oid -> Hazard \cup {"no"}]
      /\ MaxCount \in Nat
  BY ConstantsAssumption DEF TypeOK
<1>2. \A x \in Oid \ {o} : best'[x] = best[x] /\ acts'[x] = acts[x]
  BY <1>1 DEF Met
<1>3. h # "WakeResume" => acts'[o] = h /\ best'[o] = best[o]
  BY <1>1 DEF Met
<1>4. h = "WakeResume" => /\ acts'[o] \in {"no", "WakeResume"}
                          /\ best'[o] = IF c > best[o] THEN c ELSE best[o]
  BY <1>1 DEF Met
<1>5. h # "WakeResume" => h # "no"
  BY DEF Hazard
<1>6. h = "WakeResume" => best'[o] # -1
  BY <1>1, <1>4 DEF Count
<1>7. Stored(o)'
  BY <1>3, <1>5, <1>6 DEF Stored
<1>8. \A x \in Oid \ {o} : Stored(x)' <=> Stored(x)
  BY <1>2 DEF Stored
<1> QED
  BY <1>2, <1>3, <1>4, <1>7, <1>8

\* A merged descriptor wakes the process as it must then be woken.
LEMMA MergedWakes ==
    ASSUME TypeOK, NEW o \in Oid, NEW c \in Count, NEW h \in Hazard, Met(o, c, h),
           NEW d \in Descr, d.oid = o, d.actHazard = "WakeResume",
           Wakes(d, best[o], acts[o])
    PROVE  Wakes(Merged(d, c, h), best'[o], acts'[o])
<1>1. d.callCount = best[o]
  BY DEF Wakes, Met
<1>2. CASE h = "WakeResume"
  BY <1>1, <1>2, MergedDescr, MetFacts DEF Wakes
<1>3. CASE h # "WakeResume"
  <2>1. acts'[o] = h /\ Merged(d, c, h).actHazard = h
    BY <1>3, MergedDescr, MetFacts
  <2>2. h \notin {"no", "WakeResume"}
    BY <1>3 DEF Hazard
  <2> QED
    BY <2>1, <2>2 DEF Wakes
<1> QED
  BY <1>2, <1>3

\* A new descriptor wakes a process that was not stored as it must be woken.
LEMMA NewWakes ==
    ASSUME TypeOK, NEW o \in Oid, NEW c \in Count, NEW h \in Hazard, Met(o, c, h),
           ~Stored(o)
    PROVE  Wakes([oid |-> o, callCount |-> c, actHazard |-> h], best'[o], acts'[o])
<1>1. best[o] = -1
  BY DEF Stored
<1>2. c > -1
  BY ConstantsAssumption DEF Count
<1>3. CASE h = "WakeResume"
  BY <1>1, <1>2, <1>3, MetFacts DEF Wakes
<1>4. CASE h # "WakeResume"
  <2>1. acts'[o] = h
    BY <1>4, MetFacts
  <2>2. h \notin {"no", "WakeResume"}
    BY <1>4 DEF Hazard
  <2> QED
    BY <2>1, <2>2 DEF Wakes
<1> QED
  BY <1>3, <1>4

\* NodesFirst goes on to hold.
LEMMA NodesStep ==
    ASSUME TypeOK, NEW o \in Oid, NEW c \in Count, NEW h \in Hazard, Met(o, c, h),
           NodesFirst
    PROVE  NodesFirst'
BY DEF Met, NodesFirst

\* UpdateInfo keeps the invariant.
LEMMA UpdateKeeps ==
    ASSUME TypeOK, DirInv, NEW o \in Oid, NEW c \in Count, NEW h \in Hazard,
           Met(o, c, h), UpdateInfo(o, c, h)
    PROVE  DirInv'
<1>1. PICK i \in 1 .. Len(pages) : \E j \in 1 .. Len(pages[i]) :
        /\ pages[i][j].oid = o
        /\ pages[i][j].actHazard = "WakeResume"
        /\ Merged(pages[i][j], c, h) \in Descr
        /\ Replaced(i, j, Merged(pages[i][j], c, h))
  BY UpdatePlace
<1>2. PICK j \in 1 .. Len(pages[i]) :
        /\ pages[i][j].oid = o
        /\ pages[i][j].actHazard = "WakeResume"
        /\ Merged(pages[i][j], c, h) \in Descr
        /\ Replaced(i, j, Merged(pages[i][j], c, h))
  BY <1>1
<1>3. PICK d : d = Merged(pages[i][j], c, h)
  OBVIOUS
<1>4. d \in Descr /\ d.oid = o /\ Replaced(i, j, d) /\ pages[i][j] \in Descr
  BY <1>2, <1>3, MergedDescr, PageTyped
<1>5. /\ Len(pages') = Len(pages)
      /\ \A k \in 1 .. Len(pages) :
           /\ Len(pages'[k]) = Len(pages[k])
           /\ \A l \in 1 .. Len(pages[k]) :
                pages'[k][l] = IF k = i /\ l = j THEN d ELSE pages[k][l]
  BY <1>4 DEF Replaced
<1>6. \A k \in 1 .. Len(pages) : \A l \in 1 .. Len(pages[k]) :
        pages'[k][l].oid = pages[k][l].oid
  BY <1>2, <1>4, <1>5
<1>7. EntriesDistinct'
  BY <1>5, <1>6 DEF DirInv, EntriesDistinct
<1>8. \A x \in Oid : Stored(x)' <=> Stored(x)
  <2>1. Stored(o)
    BY <1>2 DEF DirInv, EntriesAll
  <2> QED
    BY <2>1, MetFacts
<1>9. EntriesAll'
  <2> SUFFICES ASSUME NEW x \in Oid
               PROVE  Stored(x)' <=> \E k \in 1 .. Len(pages) : \E l \in 1 .. Len(pages[k]) :
                                       pages'[k][l].oid = x
    BY <1>5 DEF EntriesAll
  <2>1. Stored(x) <=> \E k \in 1 .. Len(pages) : \E l \in 1 .. Len(pages[k]) :
                        pages[k][l].oid = x
    BY DEF DirInv, EntriesAll
  <2> QED
    BY <1>6, <1>8, <2>1
<1>10. EntriesRight'
  <2> SUFFICES ASSUME NEW k \in 1 .. Len(pages), NEW l \in 1 .. Len(pages[k])
               PROVE  Wakes(pages'[k][l], best'[pages'[k][l].oid], acts'[pages'[k][l].oid])
    BY <1>5 DEF EntriesRight
  <2>1. Wakes(pages[k][l], best[pages[k][l].oid], acts[pages[k][l].oid])
    BY DEF DirInv, EntriesRight
  <2>2. CASE k = i /\ l = j
    <3>1. Wakes(d, best'[o], acts'[o])
      BY <1>2, <1>3, <1>4, <2>1, <2>2, MergedWakes
    <3> QED
      BY <1>4, <1>5, <2>2, <3>1
  <2>3. CASE ~(k = i /\ l = j)
    <3>1. pages'[k][l] = pages[k][l]
      BY <1>5, <2>3
    <3>2. pages[k][l].oid \in Oid \ {o}
      BY <1>2, <2>3, PageTyped DEF DirInv, EntriesDistinct
    <3>3. /\ best'[pages[k][l].oid] = best[pages[k][l].oid]
          /\ acts'[pages[k][l].oid] = acts[pages[k][l].oid]
      BY <3>2, MetFacts
    <3> QED
      BY <2>1, <3>1, <3>3
  <2> QED
    BY <2>2, <2>3
<1>11. NodesFirst'
  BY NodesStep DEF DirInv
<1>12. dpdsInCurrentPage' = dpdsInCurrentPage
  BY DEF UpdateInfo
<1>13. PagesFull'
  BY <1>5, <1>12, PageTyped DEF DirInv, PagesFull
<1>14. AllCounted'
  <2>1. {x \in Oid : Stored(x)'} = {x \in Oid : Stored(x)}
    BY <1>8
  <2> QED
    BY <1>12, <2>1 DEF DirInv, AllCounted
<1> QED
  BY <1>7, <1>9, <1>10, <1>11, <1>13, <1>14 DEF DirInv

\* One descriptor is added, at that place, and the others stay where they are.
Added(n, m, d) ==
    /\ n \in 1 .. Len(pages') /\ m \in 1 .. Len(pages'[n]) /\ pages'[n][m] = d
    /\ \A k \in 1 .. Len(pages) : \A l \in 1 .. Len(pages[k]) :
         /\ k \in 1 .. Len(pages') /\ l \in 1 .. Len(pages'[k])
         /\ pages'[k][l] = pages[k][l]
    /\ \A k \in 1 .. Len(pages') : \A l \in 1 .. Len(pages'[k]) :
         ~(k = n /\ l = m) => k \in 1 .. Len(pages) /\ l \in 1 .. Len(pages[k])

\* What an added descriptor does to the entries.
LEMMA AddedKeeps ==
    ASSUME TypeOK, DirInv, NEW o \in Oid, NEW c \in Count, NEW h \in Hazard,
           Met(o, c, h), ProcFindDuplicate(o) = {},
           NEW n, NEW m, Added(n, m, [oid |-> o, callCount |-> c, actHazard |-> h]),
           dpdsInCurrentPage' = dpdsInCurrentPage + 1
    PROVE  /\ EntriesDistinct' /\ EntriesAll' /\ EntriesRight' /\ NodesFirst'
           /\ AllCounted'
<1>1. PICK d : d = [oid |-> o, callCount |-> c, actHazard |-> h]
  OBVIOUS
<1>2. Added(n, m, d) /\ d.oid = o
  BY <1>1
<1>3. \A k \in 1 .. Len(pages) : \A l \in 1 .. Len(pages[k]) : pages[k][l].oid # o
  BY Found, ZenonT(40)
<1>4. ~Stored(o)
  BY <1>3 DEF DirInv, EntriesAll
<1>5. Wakes(d, best'[o], acts'[o])
  BY <1>1, <1>4, NewWakes
<1>6. EntriesDistinct'
  <2> SUFFICES ASSUME NEW i \in 1 .. Len(pages'), NEW k \in 1 .. Len(pages'),
                      NEW j \in 1 .. Len(pages'[i]), NEW l \in 1 .. Len(pages'[k]),
                      pages'[i][j].oid = pages'[k][l].oid
               PROVE  i = k /\ j = l
    BY DEF EntriesDistinct
  <2>0. /\ i = n /\ j = m => pages'[i][j].oid = o
        /\ k = n /\ l = m => pages'[k][l].oid = o
        /\ ~(i = n /\ j = m) => /\ i \in 1 .. Len(pages) /\ j \in 1 .. Len(pages[i])
                                /\ pages'[i][j] = pages[i][j]
        /\ ~(k = n /\ l = m) => /\ k \in 1 .. Len(pages) /\ l \in 1 .. Len(pages[k])
                                /\ pages'[k][l] = pages[k][l]
    BY <1>2 DEF Added
  <2>1. CASE i = n /\ j = m /\ ~(k = n /\ l = m)
    BY <1>3, <2>0, <2>1
  <2>2. CASE k = n /\ l = m /\ ~(i = n /\ j = m)
    BY <1>3, <2>0, <2>2
  <2>3. CASE ~(k = n /\ l = m) /\ ~(i = n /\ j = m)
    BY <2>0, <2>3, SMTT(30) DEF DirInv, EntriesDistinct
  <2> QED
    BY <2>1, <2>2, <2>3
<1>7. EntriesAll'
  <2> SUFFICES ASSUME NEW x \in Oid
               PROVE  Stored(x)' <=> \E k \in 1 .. Len(pages') : \E l \in 1 .. Len(pages'[k]) :
                                       pages'[k][l].oid = x
    BY DEF EntriesAll
  <2>1. CASE x = o
    BY <1>2, <2>1, MetFacts DEF Added
  <2>2. CASE x # o
    <3>1. Stored(x) <=> \E k \in 1 .. Len(pages) : \E l \in 1 .. Len(pages[k]) :
                          pages[k][l].oid = x
      BY DEF DirInv, EntriesAll
    <3>2. Stored(x)' <=> Stored(x)
      BY <2>2, MetFacts
    <3>3. ASSUME NEW k \in 1 .. Len(pages), NEW l \in 1 .. Len(pages[k]), pages[k][l].oid = x
          PROVE  k \in 1 .. Len(pages') /\ l \in 1 .. Len(pages'[k]) /\ pages'[k][l].oid = x
      BY <1>2, <3>3 DEF Added
    <3>4. ASSUME NEW k \in 1 .. Len(pages'), NEW l \in 1 .. Len(pages'[k]), pages'[k][l].oid = x
          PROVE  k \in 1 .. Len(pages) /\ l \in 1 .. Len(pages[k]) /\ pages[k][l].oid = x
      BY <1>2, <2>2, <3>4 DEF Added
    <3> QED
      BY <3>1, <3>2, <3>3, <3>4
  <2> QED
    BY <2>1, <2>2
<1>8. EntriesRight'
  <2> SUFFICES ASSUME NEW k \in 1 .. Len(pages'), NEW l \in 1 .. Len(pages'[k])
               PROVE  Wakes(pages'[k][l], best'[pages'[k][l].oid], acts'[pages'[k][l].oid])
    BY DEF EntriesRight
  <2>1. CASE k = n /\ l = m
    BY <1>2, <1>5, <2>1 DEF Added
  <2>2. CASE ~(k = n /\ l = m)
    <3>1. k \in 1 .. Len(pages) /\ l \in 1 .. Len(pages[k]) /\ pages'[k][l] = pages[k][l]
      BY <1>2, <2>2 DEF Added
    <3>2. pages[k][l].oid \in Oid \ {o}
      BY <1>3, <3>1, PageTyped
    <3>3. /\ best'[pages[k][l].oid] = best[pages[k][l].oid]
          /\ acts'[pages[k][l].oid] = acts[pages[k][l].oid]
      BY <3>2, MetFacts
    <3>4. Wakes(pages[k][l], best[pages[k][l].oid], acts[pages[k][l].oid])
      BY <3>1 DEF DirInv, EntriesRight
    <3> QED
      BY <3>1, <3>3, <3>4
  <2> QED
    BY <2>1, <2>2
<1>9. NodesFirst'
  BY NodesStep DEF DirInv
<1>10. AllCounted'
  <2>1. PICK S : S = {x \in Oid : Stored(x)}
    OBVIOUS
  <2>2. IsFiniteSet(S) /\ o \notin S /\ dpdsInCurrentPage = Cardinality(S)
    BY <1>4, <2>1, FS_Subset, ConstantsAssumption DEF DirInv, AllCounted
  <2>3. {x \in Oid : Stored(x)'} = S \cup {o}
    BY <2>1, MetFacts
  <2>4. Cardinality(S \cup {o}) = Cardinality(S) + 1
    BY <2>2, FS_AddElement
  <2> QED
    BY <2>2, <2>3, <2>4 DEF AllCounted
<1> QED
  BY <1>6, <1>7, <1>8, <1>9, <1>10

\* AppendInfo keeps the invariant.
LEMMA AppendKeeps ==
    ASSUME TypeOK, DirInv, NEW o \in Oid, NEW c \in Count, NEW h \in Hazard,
           Met(o, c, h), AppendInfo(o, c, h)
    PROVE  DirInv'
<1>1. PICK d : d = [oid |-> o, callCount |-> c, actHazard |-> h]
  OBVIOUS
<1>2. /\ d \in Descr /\ pages' = [pages EXCEPT ![Len(pages)] = Append(pages[Len(pages)], d)]
      /\ ProcFindDuplicate(o) = {} /\ dpdsInCurrentPage' = dpdsInCurrentPage + 1
  BY <1>1, NewDescr DEF AppendInfo, Last
<1>3. /\ Len(pages') = Len(pages)
      /\ \A k \in 1 .. Len(pages) :
           /\ Len(pages'[k]) = IF k = Len(pages) THEN Len(pages[k]) + 1 ELSE Len(pages[k])
           /\ \A l \in 1 .. Len(pages[k]) : pages'[k][l] = pages[k][l]
      /\ pages'[Len(pages)][Len(pages[Len(pages)]) + 1] = d
  BY <1>2, PagesAppended, Zenon
<1>4. /\ Len(pages) \in Nat \ {0} /\ Len(pages) \in 1 .. Len(pages)
      /\ \A k \in 1 .. Len(pages) : Len(pages[k]) \in Nat
  BY PageTyped
<1>5. PICK n \in 1 .. Len(pages) : n = Len(pages)
  BY <1>4
<1>6. PICK m \in Nat : m = Len(pages[n])
  BY <1>4
<1>7. Added(n, m + 1, d)
  <2>1. n \in 1 .. Len(pages') /\ m + 1 \in 1 .. Len(pages'[n]) /\ pages'[n][m + 1] = d
    BY <1>3, <1>4, <1>5, <1>6
  <2>2. ASSUME NEW k \in 1 .. Len(pages), NEW l \in 1 .. Len(pages[k])
        PROVE  /\ k \in 1 .. Len(pages') /\ l \in 1 .. Len(pages'[k])
               /\ pages'[k][l] = pages[k][l]
    BY <1>3, <1>4
  <2>3. ASSUME NEW k \in 1 .. Len(pages'), NEW l \in 1 .. Len(pages'[k]),
               ~(k = n /\ l = m + 1)
        PROVE  k \in 1 .. Len(pages) /\ l \in 1 .. Len(pages[k])
    <3>1. CASE k = n
      BY <1>3, <1>4, <1>5, <1>6, <2>3, <3>1
    <3>2. CASE k # n
      BY <1>3, <1>4, <1>5, <2>3, <3>2
    <3> QED
      BY <3>1, <3>2
  <2> QED
    BY <2>1, <2>2, <2>3 DEF Added
<1>8. PagesFull'
  <2>1. Len(pages'[n]) = m + 1
    BY <1>3, <1>5, <1>6
  <2>2. dpdsInCurrentPage = IF n = 1 THEN m ELSE HdrRoom + (n - 2) * FrameRoom + m
    BY <1>5, <1>6 DEF DirInv, PagesFull
  <2>3. HdrRoom + (n - 2) * FrameRoom \in Int
    BY ConstantsAssumption, <1>4
  <2>4. dpdsInCurrentPage' = IF n = 1 THEN m + 1 ELSE HdrRoom + (n - 2) * FrameRoom + (m + 1)
    BY <1>2, <2>2, <2>3
  <2> QED
    BY <1>3, <1>5, <2>1, <2>4 DEF PagesFull
<1> QED
  BY <1>1, <1>2, <1>7, <1>8, AddedKeeps DEF DirInv

\* NextPage keeps the invariant.
LEMMA NextPageKeeps ==
    ASSUME TypeOK, DirInv, NEW o \in Oid, NEW c \in Count, NEW h \in Hazard,
           Met(o, c, h), NextPage(o, c, h)
    PROVE  DirInv'
<1>1. PICK d : d = [oid |-> o, callCount |-> c, actHazard |-> h]
  OBVIOUS
<1>2. /\ d \in Descr /\ pages' = Append(pages, <<d>>)
      /\ ProcFindDuplicate(o) = {} /\ dpdsInCurrentPage' = dpdsInCurrentPage + 1
      /\ ~(Len(pages[Len(pages)]) < Room(Len(pages)))
  BY <1>1, NewDescr DEF NextPage, HasRoom, Last
<1>3. /\ Len(pages') = Len(pages) + 1
      /\ \A k \in 1 .. Len(pages) : pages'[k] = pages[k]
      /\ Len(pages'[Len(pages) + 1]) = 1
      /\ pages'[Len(pages) + 1][1] = d
  BY <1>2, PagesExtended, Zenon
<1>4. /\ Len(pages) \in Nat \ {0}
      /\ \A k \in 1 .. Len(pages) : Len(pages[k]) \in Nat
  BY PageTyped
<1>5. PICK n \in Nat \ {0} : n = Len(pages)
  BY <1>4
<1>6. Added(n + 1, 1, d)
  <2>1. n + 1 \in 1 .. Len(pages') /\ 1 \in 1 .. Len(pages'[n + 1]) /\ pages'[n + 1][1] = d
    BY <1>3, <1>5
  <2>2. ASSUME NEW k \in 1 .. Len(pages), NEW l \in 1 .. Len(pages[k])
        PROVE  /\ k \in 1 .. Len(pages') /\ l \in 1 .. Len(pages'[k])
               /\ pages'[k][l] = pages[k][l]
    BY <1>3, <1>4
  <2>3. ASSUME NEW k \in 1 .. Len(pages'), NEW l \in 1 .. Len(pages'[k]),
               ~(k = n + 1 /\ l = 1)
        PROVE  k \in 1 .. Len(pages) /\ l \in 1 .. Len(pages[k])
    <3>1. CASE k = n + 1
      <4>1. Len(pages'[k]) = 1
        BY <1>3, <1>5, <3>1
      <4>2. l = 1
        BY <4>1
      <4> QED
        BY <2>3, <3>1, <4>2
    <3>2. CASE k # n + 1
      <4>1. k \in 1 .. Len(pages)
        BY <1>3, <1>5, <3>2
      <4> QED
        BY <1>3, <4>1
    <3> QED
      BY <3>1, <3>2
  <2> QED
    BY <2>1, <2>2, <2>3 DEF Added
<1>7. PagesFull'
  <2>1. Len(pages[n]) = Room(n)
    <3>1. Len(pages[n]) \in Nat /\ Len(pages[n]) <= Room(n)
      BY <1>4, <1>5 DEF TypeOK
    <3>2. Room(n) \in Nat
      BY ConstantsAssumption DEF Room
    <3> QED
      BY <1>2, <1>5, <3>1, <3>2
  <2>2. dpdsInCurrentPage = HdrRoom + (n - 1) * FrameRoom
    <3>1. dpdsInCurrentPage =
            IF n = 1 THEN HdrRoom ELSE HdrRoom + (n - 2) * FrameRoom + FrameRoom
      BY <1>5, <2>1 DEF DirInv, PagesFull, Room
    <3>2. (n - 2) * FrameRoom + FrameRoom = (n - 1) * FrameRoom
      BY ConstantsAssumption
    <3>3. 0 * FrameRoom = 0 /\ (n - 2) * FrameRoom \in Int
      BY ConstantsAssumption
    <3>4. CASE n = 1
      BY <3>1, <3>3, <3>4, ConstantsAssumption
    <3>5. CASE n # 1
      BY <3>1, <3>2, <3>3, <3>5, ConstantsAssumption
    <3> QED
      BY <3>4, <3>5
  <2>3. dpdsInCurrentPage' = HdrRoom + ((n + 1) - 2) * FrameRoom + 1
    <3>1. (n + 1) - 2 = n - 1
      OBVIOUS
    <3> QED
      BY <1>2, <2>2, <3>1
  <2> QED
    BY <1>3, <1>5, <2>3 DEF PagesFull
<1> QED
  BY <1>1, <1>2, <1>6, <1>7, AddedKeeps DEF DirInv

-----------------------------------------------------------------------------
(* The invariant and the theorems.                                           *)

Inv == TypeOK /\ (~halted => DirInv)

\* The invariant holds at the beginning.
LEMMA InitInv ==
    ASSUME Init
    PROVE  Inv
<1>1. /\ <<>> \in Seq(Descr) /\ Len(<<>>) = 0
      /\ <<<<>>>> \in Seq(Seq(Descr)) /\ Len(<<<<>>>>) = 1 /\ <<<<>>>>[1] = <<>>
  OBVIOUS
<1>2. /\ stage = "nodes" /\ pages = <<<<>>>> /\ counts = <<0>> /\ dpdsInCurrentPage = 0
      /\ halted = FALSE /\ resumes = 0
      /\ best = [o \in Oid |-> -1] /\ acts = [o \in Oid |-> "no"]
  BY DEF Init
<1>3. pages \in Seq(Seq(Descr)) /\ Len(pages) = 1 /\ Len(pages[1]) = 0 /\ pages # <<>>
  BY <1>1, <1>2
<1>4. TypeOK
  <2>1. \A i \in 1 .. Len(pages) : Len(pages[i]) <= Room(i)
    BY <1>3, ConstantsAssumption DEF Room
  <2>2. counts \in Seq(Nat) /\ Len(counts) = Len(pages) /\ dpdsInCurrentPage \in Nat
    BY <1>2, <1>3
  <2>3. /\ resumes \in 0 .. MaxResume /\ best \in [Oid -> {-1} \cup Count]
        /\ acts \in [Oid -> Hazard \cup {"no"}]
    BY <1>2, ConstantsAssumption
  <2> QED
    BY <1>2, <1>3, <2>1, <2>2, <2>3 DEF TypeOK
<1>5. \A o \in Oid : ~Stored(o)
  BY <1>2 DEF Stored
<1>6. AllCounted
  <2>1. {o \in Oid : Stored(o)} = {}
    BY <1>5
  <2> QED
    BY <1>2, <2>1, FS_EmptySet DEF AllCounted
<1>7. EntriesDistinct /\ EntriesAll /\ EntriesRight /\ NodesFirst /\ PagesFull
  BY <1>2, <1>3, <1>5 DEF EntriesDistinct, EntriesAll, EntriesRight, NodesFirst, PagesFull
<1> QED
  BY <1>4, <1>6, <1>7 DEF Inv, DirInv

\* StoreProcessInfo keeps the invariant, unless an assertion fails.
LEMMA StoreKeeps ==
    ASSUME TypeOK, DirInv, NEW o \in Oid, NEW c \in Count, NEW h \in Hazard,
           Met(o, c, h), StoreProcessInfo(o, c, h), ~halted'
    PROVE  DirInv'
<1>1. ~UpdateHalts(o) /\ ~NextPageHalts(o)
  BY DEF UpdateHalts, NextPageHalts
<1> QED
  BY <1>1, UpdateKeeps, AppendKeeps, NextPageKeeps DEF StoreProcessInfo

\* What the invariant is about does not change.
LEMMA SameEntries ==
    ASSUME DirInv, UNCHANGED <<pages, dpdsInCurrentPage, best, acts>>,
           stage' = "nodes" => stage = "nodes"
    PROVE  DirInv'
<1>1. EntriesDistinct' /\ EntriesRight' /\ NodesFirst' /\ PagesFull'
  BY DEF DirInv, EntriesDistinct, EntriesRight, NodesFirst, PagesFull
<1>2. \A o \in Oid : Stored(o)' <=> Stored(o)
  BY DEF Stored
<1>3. EntriesAll'
  BY <1>2 DEF DirInv, EntriesAll
<1>4. AllCounted'
  <2>1. {o \in Oid : Stored(o)'} = {o \in Oid : Stored(o)}
    BY <1>2
  <2> QED
    BY <2>1 DEF DirInv, AllCounted
<1> QED
  BY <1>1, <1>3, <1>4 DEF DirInv

\* Every step keeps the invariant.
LEMMA NextInv ==
    ASSUME Inv, [Next]_vars
    PROVE  Inv'
<1> SUFFICES ASSUME ~halted' PROVE DirInv'
  BY NextTyped DEF Inv
<1>0. TypeOK
  BY DEF Inv
<1>1. ASSUME NEW o \in Oid, NEW c \in Count, SaveResume(o, c)
      PROVE  DirInv'
  <2>1. DirInv /\ StoreProcessInfo(o, c, "WakeResume") /\ "WakeResume" \in Hazard
    BY <1>1 DEF Inv, SaveResume, Hazard
  <2>2. Met(o, c, "WakeResume")
    BY <1>1, <2>1 DEF SaveResume, Met, DirInv, NodesFirst
  <2> QED
    BY <1>0, <2>1, <2>2, StoreKeeps
<1>2. ASSUME NEW o \in Oid, NEW c \in Count, NEW h \in Hazard, SaveActivity(o, c, h)
      PROVE  DirInv'
  <2>1. DirInv /\ StoreProcessInfo(o, c, h)
    BY <1>2 DEF Inv, SaveActivity
  <2>2. Met(o, c, h)
    BY <1>2 DEF SaveActivity, Met
  <2> QED
    BY <1>0, <2>1, <2>2, StoreKeeps
<1>3. CASE ScanActivities
  BY <1>3, SameEntries DEF ScanActivities, Inv
<1>4. CASE FinishPhase1
  BY <1>4, SameEntries DEF FinishPhase1, Inv
<1>5. CASE UNCHANGED vars
  BY <1>5, SameEntries DEF vars, Inv
<1> QED
  BY <1>1, <1>2, <1>3, <1>4, <1>5 DEF Next

\* The invariant holds in every reachable state.
LEMMA InvAlways ==
    Spec => []Inv
<1>1. Init => Inv
  BY InitInv
<1>2. Inv /\ [Next]_vars => Inv'
  BY NextInv
<1> QED
  BY <1>1, <1>2, PTL DEF Spec

(* The process directory is always well typed: no page holds more            *)
(* descriptors than fit in it.                                               *)
THEOREM TypeCorrect ==
    Spec => []TypeOK
<1>1. Inv => TypeOK
  BY DEF Inv
<1> QED
  BY <1>1, InvAlways, PTL

(* StoreProcessInfo gives a process that must run again exactly one          *)
(* descriptor, however many Resume capabilities and Activities lead to it    *)
(* and wherever in the header and the frames its descriptor is.              *)
THEOREM EntriesCorrect ==
    Spec => []OneEntryEach
<1>1. ASSUME Inv, ~halted, NEW o \in Oid
      PROVE  Cardinality(EntriesOf(o)) = IF best[o] # -1 \/ acts[o] # "no" THEN 1 ELSE 0
  <2>0. TypeOK /\ EntriesDistinct /\ EntriesAll
    BY <1>1 DEF Inv, DirInv
  <2>1. EntriesOf(o) = ProcFindDuplicate(o)
    BY DEF EntriesOf, ProcFindDuplicate, Searched
  <2>2. CASE Stored(o)
    <3>1. PICK i \in 1 .. Len(pages) : \E j \in 1 .. Len(pages[i]) : pages[i][j].oid = o
      BY <2>0, <2>2 DEF EntriesAll
    <3>2. PICK j \in 1 .. Len(pages[i]) : pages[i][j].oid = o
      BY <3>1
    <3>3. <<i, j>> \in EntriesOf(o)
      BY <2>0, <2>1, <3>2, Found
    <3>4. ASSUME NEW p \in EntriesOf(o)
          PROVE  p = <<i, j>>
      <4>1. /\ p[1] \in 1 .. Len(pages) /\ p[2] \in 1 .. Len(pages[p[1]])
            /\ pages[p[1]][p[2]].oid = o /\ p = <<p[1], p[2]>>
        BY <2>0, <2>1, Found
      <4>2. p[1] = i /\ p[2] = j
        BY <2>0, <3>2, <4>1 DEF EntriesDistinct
      <4> QED
        BY <4>1, <4>2
    <3>5. EntriesOf(o) = {<<i, j>>}
      BY <3>3, <3>4
    <3> QED
      BY <2>2, <3>5, FS_Singleton DEF Stored
  <2>3. CASE ~Stored(o)
    <3>1. EntriesOf(o) = {}
      BY <2>0, <2>1, <2>3, Found DEF EntriesAll
    <3> QED
      BY <2>3, <3>1, FS_EmptySet DEF Stored
  <2> QED
    BY <2>2, <2>3
<1>2. Inv => OneEntryEach
  BY <1>1 DEF OneEntryEach
<1> QED
  BY <1>2, InvAlways, PTL

(* The descriptor of a process wakes it as its Activity says, or else for    *)
(* the newest call count of the Resume capabilities to it, in whatever order *)
(* the scan of DoPhase1Work met them.                                        *)
THEOREM WakingCorrect ==
    Spec => []WakesRight
<1>1. ASSUME Inv, ~halted, NEW o \in Oid, NEW p \in EntriesOf(o)
      PROVE  Wakes(pages[p[1]][p[2]], best[o], acts[o])
  <2>0. TypeOK /\ EntriesRight
    BY <1>1 DEF Inv, DirInv
  <2>1. p \in ProcFindDuplicate(o)
    BY DEF EntriesOf, ProcFindDuplicate, Searched
  <2>2. /\ p[1] \in 1 .. Len(pages) /\ p[2] \in 1 .. Len(pages[p[1]])
        /\ pages[p[1]][p[2]].oid = o
    BY <2>0, <2>1, Found
  <2> QED
    BY <2>0, <2>2 DEF EntriesRight
<1>2. Inv => WakesRight
  BY <1>1 DEF WakesRight, Wakes
<1> QED
  BY <1>2, InvAlways, PTL

\* The header and the frames reserved have room for every Activity.
LEMMA RoomForAll ==
    /\ NReserved \in Nat
    /\ HdrRoom + NReserved * FrameRoom >= NActivity
<1>0. /\ NActivity \in Nat /\ HdrRoom \in Nat /\ FrameRoom \in Nat \ {0}
      /\ MinReserved \in Nat
  BY ConstantsAssumption
<1>1. CASE NActivity <= HdrRoom
  <2>1. NReserved \in Nat
    BY <1>0, <1>1 DEF NReserved, maxProcDirFrames
  <2>2. NReserved * FrameRoom \in Nat
    BY <1>0, <2>1
  <2> QED
    BY <1>0, <1>1, <2>1, <2>2
<1>2. CASE NActivity > HdrRoom
  <2>1. PICK x \in Nat : x = NActivity - HdrRoom + FrameRoom - 1
    BY <1>0, <1>2
  <2>2. PICK q \in Nat : q = x \div FrameRoom /\ x < q * FrameRoom + FrameRoom
    BY <1>0
  <2>3. NReserved \in Nat /\ NReserved >= q
    BY <1>0, <1>2, <2>1, <2>2 DEF NReserved, maxProcDirFrames
  <2>4. /\ NReserved * FrameRoom >= q * FrameRoom
        /\ NReserved * FrameRoom \in Nat /\ q * FrameRoom \in Nat
    BY <1>0, <2>3
  <2> QED
    BY <1>0, <2>1, <2>2, <2>3, <2>4
<1> QED
  BY <1>0, <1>1, <1>2

(* An assertion of StoreProcessInfo fails only when more processes than      *)
(* there are Activities have been met: a duplicate is always one stored for  *)
(* a Resume capability, and the frames reserved are not used up before as    *)
(* many descriptors as there are Activities are in use. The case is real: a  *)
(* process that only waits for a Resume capability has a descriptor but no   *)
(* Activity.                                                                 *)
THEOREM AssertionsCorrect == Spec => []AssertionsHold
<1>1. ASSUME TypeOK, DirInv, NEW o \in Oid, acts[o] = "no"
      PROVE  /\ ~UpdateHalts(o)
             /\ NextPageHalts(o) => o \notin Known /\ Cardinality(Known) >= NActivity
  <2>1. ~UpdateHalts(o)
    <3>1. ASSUME NEW p \in ProcFindDuplicate(o)
          PROVE  pages[p[1]][p[2]].actHazard = "WakeResume"
      <4>1. /\ p[1] \in 1 .. Len(pages) /\ p[2] \in 1 .. Len(pages[p[1]])
            /\ pages[p[1]][p[2]].oid = o
        BY <1>1, Found
      <4> QED
        BY <1>1, <4>1 DEF DirInv, EntriesRight, Wakes
    <3> QED
      BY <3>1 DEF UpdateHalts
  <2>2. ASSUME NextPageHalts(o)
        PROVE  o \notin Known /\ Cardinality(Known) >= NActivity
    <3>1. /\ ProcFindDuplicate(o) = {} /\ Len(pages) > NReserved
          /\ ~(Len(pages[Len(pages)]) < Room(Len(pages)))
      BY <2>2 DEF NextPageHalts, HasRoom, Last
    <3>2. PICK n \in Nat \ {0} : n = Len(pages)
      BY <1>1, PageTyped
    <3>3. dpdsInCurrentPage = HdrRoom + (n - 1) * FrameRoom
      <4>1. Len(pages[n]) \in Nat /\ Len(pages[n]) <= Room(n)
        BY <1>1, <3>2, PageTyped DEF TypeOK
      <4>2. Room(n) \in Nat
        BY ConstantsAssumption DEF Room
      <4>3. Len(pages[n]) = Room(n)
        BY <3>1, <3>2, <4>1, <4>2
      <4>4. dpdsInCurrentPage =
              IF n = 1 THEN HdrRoom ELSE HdrRoom + (n - 2) * FrameRoom + FrameRoom
        BY <1>1, <3>2, <4>3 DEF DirInv, PagesFull, Room
      <4>5. (n - 2) * FrameRoom + FrameRoom = (n - 1) * FrameRoom
        BY ConstantsAssumption
      <4>6. 0 * FrameRoom = 0 /\ (n - 2) * FrameRoom \in Int
        BY ConstantsAssumption
      <4>7. CASE n = 1
        BY <4>4, <4>6, <4>7, ConstantsAssumption
      <4>8. CASE n # 1
        BY <4>4, <4>5, <4>6, <4>8, ConstantsAssumption
      <4> QED
        BY <4>7, <4>8
    <3>4. dpdsInCurrentPage >= NActivity
      <4>1. NReserved \in Nat /\ n - 1 \in Nat /\ n - 1 >= NReserved
        BY <3>1, <3>2, RoomForAll
      <4>2. /\ (n - 1) * FrameRoom >= NReserved * FrameRoom
            /\ (n - 1) * FrameRoom \in Nat /\ NReserved * FrameRoom \in Nat
        BY <4>1, ConstantsAssumption
      <4> QED
        BY <3>3, <4>2, RoomForAll, ConstantsAssumption
    <3>6. ~Stored(o)
      <4>1. \A i \in 1 .. Len(pages) : \A j \in 1 .. Len(pages[i]) : pages[i][j].oid # o
        BY <1>1, <3>1, Found, ZenonT(40)
      <4> QED
        BY <1>1, <4>1 DEF DirInv, EntriesAll
    <3>7. dpdsInCurrentPage = Cardinality(Known)
      BY <1>1 DEF DirInv, AllCounted, Stored, Known
    <3> QED
      BY <3>4, <3>6, <3>7 DEF Known, Stored
  <2> QED
    BY <2>1, <2>2
<1>2. ASSUME Inv, AssertionsHold, [Next]_vars
      PROVE  AssertionsHold'
  <2>1. ASSUME ~halted, NEW o \in Oid, NEW c \in Count, NEW h \in Hazard,
               Met(o, c, h), StoreProcessInfo(o, c, h), halted'
        PROVE  Cardinality(Known') > NActivity
    <3>0. TypeOK /\ DirInv /\ acts[o] = "no"
      BY <1>2, <2>1 DEF Inv, Met
    <3>1. NextPageHalts(o)
      BY <1>1, <2>1, <3>0 DEF StoreProcessInfo, UpdateInfo, AppendInfo, NextPage
    <3>2. o \notin Known /\ Cardinality(Known) >= NActivity
      BY <1>1, <3>0, <3>1
    <3>3. Known' = Known \cup {o}
      BY <2>1, <3>0, MetFacts DEF Known, Stored
    <3>4. IsFiniteSet(Known)
      BY ConstantsAssumption, FS_Subset DEF Known
    <3>5. PICK K : K = Known
      OBVIOUS
    <3>6. Cardinality(K \cup {o}) = Cardinality(K) + 1 /\ Cardinality(K) \in Nat
      BY <3>2, <3>4, <3>5, FS_AddElement, FS_CardinalityType
    <3> QED
      BY <3>2, <3>3, <3>5, <3>6, ConstantsAssumption
  <2>2. ASSUME NEW o \in Oid, NEW c \in Count, SaveResume(o, c)
        PROVE  AssertionsHold'
    <3>1. /\ ~halted /\ "WakeResume" \in Hazard
          /\ StoreProcessInfo(o, c, "WakeResume")
      BY <2>2 DEF SaveResume, Hazard
    <3>2. Met(o, c, "WakeResume")
      BY <1>2, <2>2, <3>1 DEF SaveResume, Met, Inv, DirInv, NodesFirst
    <3> QED
      BY <2>1, <3>1, <3>2 DEF AssertionsHold
  <2>3. ASSUME NEW o \in Oid, NEW c \in Count, NEW h \in Hazard, SaveActivity(o, c, h)
        PROVE  AssertionsHold'
    <3>1. ~halted /\ StoreProcessInfo(o, c, h) /\ Met(o, c, h)
      BY <2>3 DEF SaveActivity, Met
    <3> QED
      BY <2>1, <3>1 DEF AssertionsHold
  <2>4. CASE ScanActivities \/ FinishPhase1 \/ UNCHANGED vars
    BY <1>2, <2>4 DEF ScanActivities, FinishPhase1, vars, AssertionsHold, Known
  <2> QED
    BY <1>2, <2>2, <2>3, <2>4 DEF Next
<1>3. Init => AssertionsHold
  BY DEF Init, AssertionsHold
<1> QED
  BY <1>2, <1>3, InvAlways, PTL DEF Spec

=============================================================================
