-------------------------- MODULE MemoryMapProofs --------------------------
(* Proofs about module MemoryMap, for any processes, GPTs, pages and tables, *)
(* any trees, sizes, tags of slots and any size of the depend table.         *)
EXTENDS MemoryMap, Integers, FiniteSetTheorems, SequenceTheorems, TLAPS

-----------------------------------------------------------------------------
(* Recursive functions on an interval. Induction is on the set of the        *)
(* numbers for which something holds, and the step of a recursion is a       *)
(* function, not an operator, so that the lemmas can be cited for any.       *)

\* A set of naturals that is not empty has a least member.
LEMMA Smallest ==
    ASSUME NEW T, T \subseteq Nat, T # {}
    PROVE  \E x \in T : \A y \in T : x <= y
<1>1. PICK R : R = OpToRel(<, Nat)
  OBVIOUS
<1>2. IsWellFoundedOn(R, Nat)
  BY <1>1, NatLessThanWellFounded
<1>3. PICK x \in T : \A y \in T : ~(<<y, x>> \in R)
  BY <1>2, WFMin
<1>4. ASSUME NEW y \in T PROVE x <= y
  <2>1. ~(<<y, x>> \in R)
    BY <1>3
  <2>2. R = {ss \in Nat \X Nat : ss[1] < ss[2]}
    BY <1>1 DEF OpToRel
  <2> QED
    BY <2>1, <2>2
<1> QED
  BY <1>4

\* Induction on 0 .. N.
LEMMA UpToN ==
    ASSUME NEW N \in Nat, NEW T, 0 \in T, \A n \in 1 .. N : n - 1 \in T => n \in T
    PROVE  0 .. N \subseteq T
<1> SUFFICES ASSUME 0 .. N \ T # {} PROVE FALSE
  OBVIOUS
<1>1. PICK U : U = 0 .. N \ T
  OBVIOUS
<1>2. U \subseteq Nat /\ U # {}
  BY <1>1
<1>3. PICK x \in U : \A y \in U : x <= y
  BY <1>2, Smallest
<1>4. x \in 1 .. N /\ x - 1 \in 0 .. N /\ x \notin T
  BY <1>1, <1>3
<1>5. x - 1 \notin U
  BY <1>3, <1>4
<1> QED
  BY <1>1, <1>4, <1>5

\* What a function on 0 .. N has at 0, and has at n if it has it at n - 1, it
\* has everywhere.
LEMMA AllInSet ==
    ASSUME NEW N \in Nat, NEW f, NEW S, f[0] \in S,
           \A n \in 1 .. N : f[n - 1] \in S => f[n] \in S
    PROVE  \A n \in 0 .. N : f[n] \in S
<1>1. PICK T : T = {n \in 0 .. N : f[n] \in S}
  OBVIOUS
<1>2. 0 \in T
  BY <1>1
<1>3. \A n \in 1 .. N : n - 1 \in T => n \in T
  BY <1>1
<1>4. 0 .. N \subseteq T
  BY <1>2, <1>3, UpToN
<1> QED
  BY <1>1, <1>4

\* The functions that begin with c and go on by F, up to n.
Runs(S, c, F, n) ==
    {g \in [0 .. n -> S] : g[0] = c /\ \A k \in 1 .. n : g[k] = F[<<g[k - 1], k>>]}

IsStep(S, F, N) == F \in [S \X (1 .. N) -> S]

\* There is a function that begins with c and goes on by F.
LEMMA RunExists ==
    ASSUME NEW N \in Nat, NEW S, NEW c \in S, NEW F, IsStep(S, F, N)
    PROVE  Runs(S, c, F, N) # {}
<1>0. F \in [S \X (1 .. N) -> S]
  BY DEF IsStep
<1>1. PICK T : T = {n \in 0 .. N : Runs(S, c, F, n) # {}}
  OBVIOUS
<1>2. 0 \in T
  <2>1. PICK g : g = [k \in 0 .. 0 |-> c]
    OBVIOUS
  <2>2. g \in Runs(S, c, F, 0)
    BY <2>1 DEF Runs
  <2> QED
    BY <1>1, <2>2
<1>3. ASSUME NEW n \in 1 .. N, n - 1 \in T PROVE n \in T
  <2>1. PICK g : g \in Runs(S, c, F, n - 1)
    BY <1>1, <1>3
  <2>2. /\ g \in [0 .. n - 1 -> S] /\ g[0] = c
        /\ \A k \in 1 .. n - 1 : g[k] = F[<<g[k - 1], k>>]
    BY <2>1 DEF Runs
  <2>3. F[<<g[n - 1], n>>] \in S
    <3>1. g[n - 1] \in S
      BY <2>2
    <3> QED
      BY <1>0, <3>1
  <2>4. PICK h : h = [k \in 0 .. n |-> IF k = n THEN F[<<g[n - 1], n>>] ELSE g[k]]
    OBVIOUS
  <2>5. h \in [0 .. n -> S] /\ h[0] = c
    BY <2>2, <2>3, <2>4
  <2>6. ASSUME NEW k \in 1 .. n PROVE h[k] = F[<<h[k - 1], k>>]
    <3>1. h[k - 1] = g[k - 1]
      <4>1. k - 1 \in 0 .. n /\ k - 1 # n
        OBVIOUS
      <4> QED
        BY <2>4, <4>1
    <3>2. CASE k = n
      <4>1. n \in 0 .. n
        OBVIOUS
      <4>2. h[n] = F[<<g[n - 1], n>>]
        BY <2>4, <4>1
      <4> QED
        BY <3>1, <3>2, <4>2
    <3>3. CASE k # n
      <4>1. k \in 1 .. n - 1 /\ h[k] = g[k]
        BY <2>4, <3>3
      <4> QED
        BY <2>2, <3>1, <4>1
    <3> QED
      BY <3>2, <3>3
  <2>7. h \in Runs(S, c, F, n)
    BY <2>5, <2>6 DEF Runs
  <2> QED
    BY <1>1, <2>7
<1>4. 0 .. N \subseteq T
  BY <1>2, <1>3, UpToN
<1> QED
  BY <1>1, <1>4

-----------------------------------------------------------------------------
(* The invariant, of maps m, a tree tr and the set co of objects in core.    *)

Live(t) == t.st \in {"valid", "lru"}

\* A walk has come to a page, or to a GPT where it was to stop.
AtEnd(t, stop) == t.obj \in Page \/ (t.obj \in Gpt /\ Span[t.obj] < stop)
Arrived(tr, obj, off, stop) ==
    \E n \in 0 .. MaxDepth : AtEnd(Steps(tr, obj, off, stop)[n], stop)

Tab == Proc \cup Cpt \cup {Flpt}
DepSet == [tag : Nat, tab : Tab \cup {None}, lo : Nat, hi : Nat]
TableSet == [obj : Gpt \cup {None}, ro : BOOLEAN, ndx : Nat, addr : Nat]
CacheSet == [class : {"none", "onereader", "writeable", "readers", "uncached"},
             at : Nat]
MapSet ==
    [hz : SUBSET Slot, dep : [1 .. BucketSize -> DepSet],
     md : [Proc -> Space \cup {None, PidInProgress}],
     ss : [Space -> [obj : Gpt \cup {None}, ro : BOOLEAN]],
     flpt : [FlptIx -> TableEntry(Cpt)], cpt : [Cpt -> TableSet],
     pte : [Cpt -> [PageIx -> TableEntry(Page)]],
     ca : [Page -> CacheSet], dirty : SUBSET Page]

TreeOK(tr) ==
    tr \in [Slot -> Key] /\ \A s \in Slot : tr[s] \in KeysOf[s] \cup {VoidKey}

\* The small space of a process is that of the key to its address space.
ProcSpace(m, tr, p) ==
    m.md[p] \in Space =>
      m.ss[m.md[p]] = tr[<<p, 0>>] /\ tr[<<p, 0>>].obj \in Gpt

ProcOK(m, tr, p) ==
    m.md[p] \in Space =>
      /\ Covers(m, <<p, 0>>, p, 0)
      /\ m.ss[m.md[p]] = tr[<<p, 0>>] /\ tr[<<p, 0>>].obj \in Gpt

\* What is beyond a small space is void, and its slots are hazarded.
SpaceOK(m, tr, s) ==
    m.ss[s].obj \in Gpt =>
      /\ Span[m.ss[s].obj] <= SpaceSize
      /\ \A e \in UpperSlots(m.ss[s].obj) : e \in m.hz /\ tr[e] = VoidKey
SpacesOK(m, tr) == \A s \in Space : SpaceOK(m, tr, s)

SpaceOf(x) == x \div SectionsInSpace
OffsetOf(x) == (x % SectionsInSpace) * SectionSize

\* An entry of the first level is for the table that the tree has there.
FlptOK(m, tr, x) ==
    LET o == m.ss[SpaceOf(x)].obj
        path == Trace(tr, o, OffsetOf(x), SectionSize)
        t == m.cpt[m.flpt[x].to]
    IN  Live(m.flpt[x]) =>
          /\ o \in Gpt /\ Arrived(tr, o, OffsetOf(x), SectionSize)
          /\ \A e \in path.slots : Covers(m, e, Flpt, x)
          /\ m.flpt[x].to \in Cpt
          /\ path.obj \in Gpt /\ t.obj = path.obj /\ t.ndx = path.off \div SectionSize
          /\ t.ro = (m.ss[SpaceOf(x)].ro \/ path.ro)
          /\ ~t.ro => t.addr = x

CptOK(m, c) ==
    m.cpt[c] # NoTable => m.cpt[c].obj \in Gpt /\ Span[m.cpt[c].obj] < SectionSize

\* An entry of a coarse page table is for the page that the tree has there.
PteOK(m, tr, co, c, j) ==
    LET t == m.pte[c][j]
        off == m.cpt[c].ndx * SectionSize + j
        path == Trace(tr, m.cpt[c].obj, off, 0)
    IN  /\ m.cpt[c] = NoTable => t = Zapped
        /\ Live(t) =>
             /\ Arrived(tr, m.cpt[c].obj, off, 0)
             /\ \A e \in path.slots : Covers(m, e, c, j)
             /\ path.obj = t.to /\ t.to \in Page \cap co
             /\ t.st = "valid" /\ t.w => t.to \in m.dirty
             /\ t.st = "valid" /\ t.w /\ ~t.blind => ~m.cpt[c].ro /\ ~path.ro

\* Where and how a page is mapped agrees with its cacheAddr.
CacheOK(m, c, j) ==
    LET t == m.pte[c][j]
        a == m.ca[t.to]
        here == ~m.cpt[c].ro /\ m.cpt[c].addr * SectionSize + j = a.at
        writes == t.st = "valid" /\ t.w
    IN  Live(t) =>
          /\ a.class # "none"
          /\ a.class = "onereader" => here /\ ~writes
          /\ a.class = "writeable" => here
          /\ a.class = "readers" => ~writes
          /\ a.class = "uncached" => ~(writes /\ t.cached)

MapOK(m, tr, co) ==
    /\ \A p \in Proc : ProcOK(m, tr, p)
    /\ \A x \in FlptIx : FlptOK(m, tr, x)
    /\ \A c \in Cpt : CptOK(m, c)
    /\ \A c \in Cpt, j \in PageIx : PteOK(m, tr, co, c, j)
    /\ \A c \in Cpt, j \in PageIx : CacheOK(m, c, j)

\* The maps are right unless a reference to a table was missed when the table
\* was released. Types and small spaces are right even then.
Inv ==
    /\ TreeOK(tree) /\ core \subseteq Obj /\ events \in 0 .. MaxEvents
    /\ missed \in BOOLEAN /\ map \in MapSet
    /\ \A p \in Proc : ProcSpace(map, tree, p)
    /\ SpacesOK(map, tree)
    /\ ~missed => MapOK(map, tree, core)
-----------------------------------------------------------------------------
(* Arithmetic: sections, spaces and offsets.                                 *)

\* Quotient and remainder.
LEMMA Division ==
    ASSUME NEW d \in Nat \ {0}, NEW y \in Nat
    PROVE  /\ y = d * (y \div d) + (y % d)
           /\ y % d \in 0 .. d - 1 /\ y \div d \in Nat
OBVIOUS

LEMMA DivisionUnique ==
    ASSUME NEW d \in Nat \ {0}, NEW a \in Nat, NEW e \in 0 .. d - 1
    PROVE  (d * a + e) \div d = a /\ (d * a + e) % d = e
OBVIOUS

LEMMA Multiples ==
    ASSUME NEW d \in Nat, NEW a \in Nat, NEW b \in Nat
    PROVE  /\ d * a \in Nat /\ a * d = d * a
           /\ a < b => d * a + d <= d * b
           /\ a <= b => d * a <= d * b
OBVIOUS

LEMMA Sizes ==
    /\ SectionSize \in Nat \ {0} /\ SectionsInSpace \in Nat \ {0}
    /\ SpaceSize = SectionSize * SectionsInSpace /\ SpaceSize \in Nat \ {0}
    /\ NSpaces \in Nat \ {0} /\ NSlots \in Nat \ {0}
    /\ \A g \in Gpt : Span[g] \in Nat \ {0} /\ Span[g] < TopSize
    /\ TopSize \in Nat /\ MaxDepth \in Nat /\ BucketSize \in Nat \ {0}
<1>1. /\ SectionSize \in Nat \ {0} /\ SpaceSize \in Nat \ {0} /\ NSlots \in Nat \ {0}
      /\ SpaceSize % SectionSize = 0 /\ NSpaces \in Nat \ {0}
      /\ MaxDepth \in Nat /\ BucketSize \in Nat \ {0}
  BY ConstantsAssumption
<1>2. /\ SpaceSize = SectionSize * SectionsInSpace /\ SectionsInSpace \in Nat
  BY <1>1, Division DEF SectionsInSpace
<1>3. SectionsInSpace # 0
  BY <1>1, <1>2
<1>4. ASSUME NEW g \in Gpt
      PROVE  Span[g] \in Nat \ {0} /\ Span[g] < TopSize
  BY ConstantsAssumption
<1> QED
  BY <1>1, <1>2, <1>3, <1>4 DEF TopSize

\* An entry of the first level belongs to one space.
LEMMA EntrySpace ==
    ASSUME NEW x \in FlptIx
    PROVE  /\ SpaceOf(x) \in Space /\ x \in Nat /\ OffsetOf(x) \in Nat
           /\ \A s \in Space : x \in SectionsOf(s) <=> s = SpaceOf(x)
           /\ \A s \in Space : x = s * SectionsInSpace
                                 <=> s = SpaceOf(x) /\ x % SectionsInSpace = 0
<1>1. PICK d : d = SectionsInSpace
  OBVIOUS
<1>2. d \in Nat \ {0} /\ NSpaces \in Nat \ {0} /\ SectionSize \in Nat
  BY <1>1, Sizes
<1>3. x \in 0 .. NSpaces * d - 1 /\ NSpaces * d \in Nat
  BY <1>1, <1>2, Multiples DEF FlptIx
<1>4. PICK q : q = x \div d
  OBVIOUS
<1>5. PICK r : r = x % d
  OBVIOUS
<1>6. x = d * q + r /\ r \in 0 .. d - 1 /\ q \in Nat
  <2>1. x \in Nat
    BY <1>3
  <2>2. x = d * (x \div d) + (x % d) /\ x % d \in 0 .. d - 1 /\ x \div d \in Nat
    BY ONLY <1>2, <2>1, Division
  <2> QED
    BY <1>4, <1>5, <2>2
<1>7. q < NSpaces
  <2>1. NSpaces <= q => d * NSpaces <= d * q
    BY <1>2, <1>6, Multiples
  <2>2. d * NSpaces = NSpaces * d /\ d * q \in Nat /\ d * NSpaces \in Nat
    BY <1>2, <1>6, Multiples
  <2> QED
    BY <1>2, <1>3, <1>6, <2>1, <2>2
<1>8. ASSUME NEW s \in Space
      PROVE  /\ x \in SectionsOf(s) <=> s = q
             /\ x = s * d <=> s = q /\ r = 0
  <2>1. s \in Nat
    BY <1>2 DEF Space
  <2>2. /\ (s + 1) * d = d * s + d /\ s * d = d * s /\ d * s \in Nat
        /\ d * q \in Nat
    BY <1>2, <1>6, <2>1, Multiples
  <2>3. s < q => d * s + d <= d * q
    BY <1>2, <1>6, <2>1, Multiples
  <2>4. q < s => d * q + d <= d * s
    BY <1>2, <1>6, <2>1, Multiples
  <2>5. x \in SectionsOf(s) <=> d * s <= x /\ x < d * s + d
    BY <1>1, <1>2, <1>3, <2>1, <2>2 DEF SectionsOf
  <2> QED
    BY <1>2, <1>3, <1>6, <2>1, <2>2, <2>3, <2>4, <2>5
<1>9. q \in Space
  BY <1>2, <1>6, <1>7 DEF Space
<1>10. r * SectionSize \in Nat
  BY <1>2, <1>6, Multiples
<1> QED
  BY <1>1, <1>3, <1>4, <1>5, <1>8, <1>9, <1>10 DEF SpaceOf, OffsetOf

\* The entry for an address in a space.
LEMMA AddressEntry ==
    ASSUME NEW s \in Space, NEW va \in 0 .. SpaceSize - 1, NEW x,
           x = s * SectionsInSpace + va \div SectionSize
    PROVE  /\ x \in FlptIx /\ SpaceOf(x) = s
           /\ x % SectionsInSpace = va \div SectionSize
           /\ va = OffsetOf(x) + (va % SectionSize)
           /\ va % SectionSize \in PageIx /\ va \in Nat
<1>1. PICK d : d = SectionsInSpace
  OBVIOUS
<1>2. PICK z : z = SectionSize
  OBVIOUS
<1>3. d \in Nat \ {0} /\ z \in Nat \ {0} /\ SpaceSize = z * d /\ NSpaces \in Nat \ {0}
  BY <1>1, <1>2, Sizes
<1>4. PICK q : q = va \div z
  OBVIOUS
<1>5. PICK r : r = va % z
  OBVIOUS
<1>6. z * d \in Nat /\ s \in Nat /\ s < NSpaces
  BY <1>3, Multiples DEF Space
<1>7. va \in Nat /\ va < z * d
  BY <1>3, <1>6
<1>8. va = z * q + r /\ r \in 0 .. z - 1 /\ q \in Nat
  BY <1>3, <1>4, <1>5, <1>7, Division
<1>9. q < d
  <2>1. d <= q => z * d <= z * q
    BY <1>3, <1>8, Multiples
  <2>2. z * q \in Nat
    BY <1>3, <1>8, Multiples
  <2> QED
    BY <1>3, <1>6, <1>7, <1>8, <2>1, <2>2
<1>10. x = d * s + q /\ d * s \in Nat
  <2>1. d * s = s * d /\ d * s \in Nat
    BY <1>3, <1>6, Multiples
  <2> QED
    BY <1>1, <1>2, <1>4, <2>1
<1>11. x \div d = s /\ x % d = q
  <2>1. q \in 0 .. d - 1
    BY <1>3, <1>8, <1>9
  <2>2. (d * s + q) \div d = s /\ (d * s + q) % d = q
    BY ONLY <1>3, <1>6, <2>1, DivisionUnique
  <2> QED
    BY <1>10, <2>2
<1>12. x \in FlptIx
  <2>1. d * s + d <= d * NSpaces /\ d * NSpaces = NSpaces * d /\ d * NSpaces \in Nat
    BY <1>3, <1>6, Multiples
  <2> QED
    BY <1>1, <1>3, <1>8, <1>9, <1>10, <2>1 DEF FlptIx
<1>13. va = q * z + r
  <2>1. q * z = z * q
    BY <1>3, <1>8, Multiples
  <2> QED
    BY <1>8, <2>1
<1> QED
  BY <1>1, <1>2, <1>4, <1>5, <1>7, <1>8, <1>11, <1>12, <1>13 DEF SpaceOf, OffsetOf, PageIx

\* In a GPT that spans sections the place in the section does not matter.
LEMMA InSection ==
    ASSUME NEW g \in Gpt, Span[g] >= SectionSize,
           NEW b \in Nat, b % SectionSize = 0, NEW r \in 0 .. SectionSize - 1
    PROVE  /\ (b + r) \div Span[g] = b \div Span[g]
           /\ (b + r) % Span[g] = (b % Span[g]) + r
           /\ (b % Span[g]) % SectionSize = 0 /\ b % Span[g] \in Nat
<1>1. PICK z : z = SectionSize
  OBVIOUS
<1>2. PICK n : n = Span[g]
  OBVIOUS
<1>3. z \in Nat \ {0} /\ n \in Nat \ {0} /\ n % z = 0
  BY <1>1, <1>2, ConstantsAssumption
<1>4. PICK q : q = n \div z
  OBVIOUS
<1>5. n = z * q /\ q \in Nat
  BY <1>3, <1>4, Division
<1>6. q # 0
  BY <1>3, <1>5
<1>7. PICK k : k = b \div z
  OBVIOUS
<1>8. b = z * k /\ k \in Nat
  <2>1. b = z * (b \div z) + (b % z) /\ b \div z \in Nat
    BY ONLY <1>3, b \in Nat, Division
  <2>2. z * k \in Nat
    BY <1>3, <1>7, <2>1, Multiples
  <2> QED
    BY <1>1, <1>7, <2>1, <2>2
<1>9. PICK a : a = k \div q
  OBVIOUS
<1>10. PICK c : c = k % q
  OBVIOUS
<1>11. k = q * a + c /\ c \in 0 .. q - 1 /\ a \in Nat
  BY <1>5, <1>6, <1>8, <1>9, <1>10, Division
<1>12. z * k = n * a + z * c
  <2>1. z * (q * a + c) = (z * q) * a + z * c
    BY <1>3, <1>5, <1>11
  <2> QED
    BY <1>5, <1>11, <2>1
<1>13. z * c + z <= n /\ z * c \in Nat
  BY <1>3, <1>5, <1>6, <1>11, Multiples
<1>14. /\ b = n * a + z * c /\ z * c \in 0 .. n - 1
       /\ b + r = n * a + (z * c + r) /\ z * c + r \in 0 .. n - 1
  <2>1. n * a \in Nat
    BY <1>3, <1>11, Multiples
  <2> QED
    BY <1>1, <1>3, <1>8, <1>12, <1>13, <2>1
<1>15. b \div n = a /\ b % n = z * c
  <2>1. (n * a + z * c) \div n = a /\ (n * a + z * c) % n = z * c
    BY <1>3, <1>11, <1>14, DivisionUnique
  <2> QED
    BY <1>14, <2>1
<1>16. (b + r) \div n = a /\ (b + r) % n = z * c + r
  <2>1. PICK e : e = z * c + r
    OBVIOUS
  <2>2. e \in 0 .. n - 1 /\ b + r = n * a + e
    BY <1>14, <2>1
  <2>3. (n * a + e) \div n = a /\ (n * a + e) % n = e
    BY ONLY <1>3, <1>11, <2>2, DivisionUnique
  <2> QED
    BY <2>1, <2>2, <2>3
<1>17. (z * c + 0) % z = 0
  BY <1>3, <1>5, <1>6, <1>11, DivisionUnique
<1> QED
  BY <1>1, <1>2, <1>13, <1>15, <1>16, <1>17
-----------------------------------------------------------------------------
(* Walks of the tree.                                                        *)

TraceSet == [obj : Obj \cup {None}, off : Nat, ro : BOOLEAN, slots : SUBSET Slot]
Begin(obj, off) == [obj |-> obj, off |-> off, ro |-> FALSE, slots |-> {}]
IsRun(T, tr, obj, off, stop) ==
    /\ T \in [0 .. 2 * MaxDepth -> TraceSet] /\ T[0] = Begin(obj, off)
    /\ \A n \in 1 .. 2 * MaxDepth : T[n] = TraceStep(tr, T[n - 1], stop)

LEMMA SlotFacts ==
    /\ \A g \in Gpt : \A i : <<g, i>> \in Slot <=> i \in SlotIx
    /\ \A p \in Proc : <<p, 0>> \in Slot
    /\ \A g \in Gpt : g \notin Page /\ g # None /\ g \notin Proc
    /\ \A x \in Page : x # None /\ x \notin Gpt
    /\ None \notin Obj
BY ConstantsAssumption DEF Slot, Obj

LEMMA StepType ==
    ASSUME NEW tr \in [Slot -> Key], NEW t \in TraceSet, NEW stop \in Nat
    PROVE  TraceStep(tr, t, stop) \in TraceSet
<1>1. PICK s : s = <<t.obj, t.off \div Span[t.obj]>>
  OBVIOUS
<1>2. CASE t.obj \notin Gpt \/ (t.obj \in Gpt /\ Span[t.obj] < stop)
  BY <1>2 DEF TraceStep
<1>3. CASE ~(t.obj \notin Gpt \/ (t.obj \in Gpt /\ Span[t.obj] < stop)) /\ s \notin Slot
  <2>1. TraceStep(tr, t, stop) = [t EXCEPT !.obj = None]
    BY <1>1, <1>3 DEF TraceStep
  <2> QED
    BY <2>1 DEF TraceSet
<1>4. CASE ~(t.obj \notin Gpt \/ (t.obj \in Gpt /\ Span[t.obj] < stop)) /\ s \in Slot
  <2>1. TraceStep(tr, t, stop) = [obj |-> tr[s].obj, off |-> t.off % Span[t.obj],
              ro |-> t.ro \/ tr[s].ro, slots |-> t.slots \cup {s}]
    BY <1>1, <1>4 DEF TraceStep
  <2>2. tr[s] \in Key
    BY <1>4
  <2>3. tr[s].obj \in Obj \cup {None} /\ tr[s].ro \in BOOLEAN
    BY <2>2 DEF Key
  <2>4. t.off % Span[t.obj] \in Nat
    <3>1. t.off \in Nat /\ Span[t.obj] \in Nat \ {0}
      BY <1>4, Sizes DEF TraceSet
    <3>2. t.off % Span[t.obj] \in 0 .. Span[t.obj] - 1
      BY <3>1, Division
    <3> QED
      BY <3>1, <3>2
  <2>5. t.slots \cup {s} \in SUBSET Slot /\ (t.ro \/ tr[s].ro) \in BOOLEAN
    BY <1>4 DEF TraceSet
  <2> QED
    BY <2>1, <2>3, <2>4, <2>5 DEF TraceSet
<1> QED
  BY <1>2, <1>3, <1>4

LEMMA StepsRun ==
    ASSUME NEW tr \in [Slot -> Key], NEW obj \in Obj \cup {None}, NEW off \in Nat,
           NEW stop \in Nat
    PROVE  IsRun(Steps(tr, obj, off, stop), tr, obj, off, stop)
<1>1. PICK N : N = 2 * MaxDepth
  OBVIOUS
<1>2. N \in Nat
  BY <1>1, Sizes
<1>3. PICK b : b = Begin(obj, off)
  OBVIOUS
<1>4. b \in TraceSet
  BY <1>3 DEF Begin, TraceSet
<1>7. PICK F : F = [a \in TraceSet \X (1 .. N) |-> TraceStep(tr, a[1], stop)]
  OBVIOUS
<1>8. F \in [TraceSet \X (1 .. N) -> TraceSet]
  BY <1>7, StepType
<1>9. PICK g \in [0 .. N -> TraceSet] :
        g[0] = b /\ \A n \in 1 .. N : g[n] = F[<<g[n - 1], n>>]
  <2>1. IsStep(TraceSet, F, N)
    BY <1>8 DEF IsStep
  <2>2. Runs(TraceSet, b, F, N) # {}
    BY ONLY <2>1, <1>2, <1>4, RunExists
  <2> QED
    BY <2>2 DEF Runs
<1>10. ASSUME NEW n \in 1 .. N
       PROVE  F[<<g[n - 1], n>>] = TraceStep(tr, g[n - 1], stop)
  <2>1. g[n - 1] \in TraceSet
    BY <1>2
  <2>2. <<g[n - 1], n>> \in TraceSet \X (1 .. N)
    BY <2>1
  <2> QED
    BY <1>7, <2>2
<1>11. g = [n \in 0 .. N |-> IF n = 0 THEN b ELSE TraceStep(tr, g[n - 1], stop)]
  <2>1. ASSUME NEW n \in 0 .. N
        PROVE  g[n] = IF n = 0 THEN b ELSE TraceStep(tr, g[n - 1], stop)
    <3>1. CASE n = 0
      BY <1>9, <3>1
    <3>2. CASE n # 0
      <4>1. n \in 1 .. N
        BY <3>2
      <4> QED
        BY <1>9, <1>10, <3>2, <4>1, Zenon
    <3> QED
      BY <3>1, <3>2
  <2>2. g = [n \in 0 .. N |-> g[n]]
    OBVIOUS
  <2> QED
    BY <2>1, <2>2, Zenon
<1>12. PICK f : f = CHOOSE h : h = [n \in 0 .. N |->
                      IF n = 0 THEN b ELSE TraceStep(tr, h[n - 1], stop)]
  OBVIOUS
<1>13. f = [n \in 0 .. N |-> IF n = 0 THEN b ELSE TraceStep(tr, f[n - 1], stop)]
  BY <1>11, <1>12, Zenon
<1>14. f = Steps(tr, obj, off, stop)
  BY <1>1, <1>3, <1>12 DEF Steps, Begin
<1>15. f[0] = b
  BY <1>2, <1>13
<1>16. \A n \in 1 .. N : f[n] = TraceStep(tr, f[n - 1], stop)
  BY <1>2, <1>13
<1>17. \A n \in 0 .. N : f[n] \in TraceSet
  <2>1. \A n \in 1 .. N : f[n - 1] \in TraceSet => f[n] \in TraceSet
    BY <1>16, StepType
  <2> QED
    BY ONLY <1>2, <1>4, <1>15, <2>1, AllInSet
<1>18. f \in [0 .. N -> TraceSet]
  <2>1. f = [n \in 0 .. N |-> f[n]]
    BY <1>13
  <2> QED
    BY <1>17, <2>1
<1> QED
  BY <1>1, <1>3, <1>14, <1>15, <1>16, <1>18 DEF IsRun

\* What the beginning has and a step keeps, all of a walk has.
LEMMA RunAll ==
    ASSUME NEW T, NEW tr, NEW obj, NEW off, NEW stop, IsRun(T, tr, obj, off, stop),
           NEW S, Begin(obj, off) \in S,
           \A t \in TraceSet : t \in S => TraceStep(tr, t, stop) \in S
    PROVE  \A n \in 0 .. 2 * MaxDepth : T[n] \in S
<1>1. PICK N : N = 2 * MaxDepth
  OBVIOUS
<1>2. N \in Nat
  BY <1>1, Sizes
<1>3. T[0] \in S /\ T \in [0 .. N -> TraceSet]
      /\ \A n \in 1 .. N : T[n] = TraceStep(tr, T[n - 1], stop)
  BY <1>1 DEF IsRun
<1>4. ASSUME NEW n \in 1 .. N, T[n - 1] \in S PROVE T[n] \in S
  <2>1. n - 1 \in 0 .. N
    BY <1>2
  <2>2. T[n - 1] \in TraceSet
    BY <1>3, <2>1
  <2> QED
    BY <1>3, <1>4, <2>2
<1>5. \A n \in 0 .. N : T[n] \in S
  BY ONLY <1>2, <1>3, <1>4, AllInSet
<1> QED
  BY <1>1, <1>5

\* At its end a walk stays.
LEMMA RunEnd ==
    ASSUME NEW T, NEW tr, NEW obj, NEW off, NEW stop, IsRun(T, tr, obj, off, stop),
           NEW n \in 0 .. 2 * MaxDepth, AtEnd(T[n], stop)
    PROVE  \A k \in n .. 2 * MaxDepth : T[k] = T[n]
<1>1. PICK N : N = 2 * MaxDepth
  OBVIOUS
<1>2. N \in Nat /\ n \in 0 .. N
  BY <1>1, Sizes
<1>3. \A k \in 1 .. N : T[k] = TraceStep(tr, T[k - 1], stop)
  BY <1>1 DEF IsRun
<1>4. TraceStep(tr, T[n], stop) = T[n]
  BY SlotFacts DEF TraceStep, AtEnd
<1>5. PICK K : K = {k \in 0 .. N : k < n \/ T[k] = T[n]}
  OBVIOUS
<1>6. 0 \in K
  BY <1>2, <1>5
<1>7. ASSUME NEW k \in 1 .. N, k - 1 \in K PROVE k \in K
  <2>1. CASE k < n
    BY <1>2, <1>5, <2>1
  <2>2. CASE k = n
    BY <1>2, <1>5, <2>2
  <2>3. CASE k > n
    <3>1. T[k - 1] = T[n]
      BY <1>2, <1>5, <1>7, <2>3
    <3>2. T[k] = T[n]
      BY <1>3, <1>4, <3>1
    <3> QED
      BY <1>2, <1>5, <3>2
  <2> QED
    BY <1>2, <2>1, <2>2, <2>3
<1>8. 0 .. N \subseteq K
  BY ONLY <1>2, <1>6, <1>7, UpToN
<1>9. ASSUME NEW k \in n .. N PROVE T[k] = T[n]
  <2>1. k \in 0 .. N /\ ~(k < n)
    BY <1>2
  <2> QED
    BY <1>5, <1>8, <2>1
<1> QED
  BY <1>1, <1>9

\* The slots of a walk only become more.
LEMMA RunSlots ==
    ASSUME NEW T, NEW tr, NEW obj, NEW off, NEW stop, IsRun(T, tr, obj, off, stop),
           NEW n \in 0 .. 2 * MaxDepth
    PROVE  T[n].slots \subseteq T[2 * MaxDepth].slots
<1>1. PICK N : N = 2 * MaxDepth
  OBVIOUS
<1>2. N \in Nat /\ n \in 0 .. N
  BY <1>1, Sizes
<1>3. /\ \A k \in 1 .. N : T[k] = TraceStep(tr, T[k - 1], stop)
      /\ \A k \in 0 .. N : T[k] \in TraceSet
  BY <1>1 DEF IsRun
<1>4. PICK K : K = {k \in 0 .. N : k < n \/ T[n].slots \subseteq T[k].slots}
  OBVIOUS
<1>5. 0 \in K
  BY <1>2, <1>4
<1>6. ASSUME NEW k \in 1 .. N, k - 1 \in K PROVE k \in K
  <2>1. CASE k < n
    BY <1>2, <1>4, <2>1
  <2>2. CASE k = n
    BY <1>2, <1>4, <2>2
  <2>3. CASE k > n
    <3>1. T[n].slots \subseteq T[k - 1].slots
      BY <1>2, <1>4, <1>6, <2>3
    <3>2. T[k - 1] \in TraceSet
      BY <1>2, <1>3
    <3>3. T[k - 1].slots \subseteq TraceStep(tr, T[k - 1], stop).slots
      BY <3>2 DEF TraceStep, TraceSet
    <3> QED
      BY <1>2, <1>3, <1>4, <3>1, <3>3
  <2> QED
    BY <1>2, <2>1, <2>2, <2>3
<1>7. 0 .. N \subseteq K
  BY ONLY <1>2, <1>5, <1>6, UpToN
<1>8. N \in K /\ ~(N < n)
  BY <1>2, <1>7
<1> QED
  BY <1>1, <1>4, <1>8

\* A tree with the same keys in the slots of a walk has the same walk.
LEMMA RunSame ==
    ASSUME NEW T, NEW tr, NEW obj, NEW off, NEW stop, IsRun(T, tr, obj, off, stop),
           NEW U, NEW ur, IsRun(U, ur, obj, off, stop),
           \A s \in T[2 * MaxDepth].slots : ur[s] = tr[s]
    PROVE  \A n \in 0 .. 2 * MaxDepth : U[n] = T[n]
<1>1. PICK N : N = 2 * MaxDepth
  OBVIOUS
<1>2. N \in Nat
  BY <1>1, Sizes
<1>3. /\ \A k \in 1 .. N : T[k] = TraceStep(tr, T[k - 1], stop)
      /\ \A k \in 0 .. N : T[k] \in TraceSet
      /\ \A k \in 1 .. N : U[k] = TraceStep(ur, U[k - 1], stop)
      /\ U[0] = T[0]
  BY <1>1 DEF IsRun
<1>4. PICK K : K = {k \in 0 .. N : U[k] = T[k]}
  OBVIOUS
<1>5. 0 \in K
  BY <1>2, <1>3, <1>4
<1>6. ASSUME NEW k \in 1 .. N, k - 1 \in K PROVE k \in K
  <2>1. k - 1 \in 0 .. N /\ k \in 0 .. N
    BY <1>2
  <2>2. PICK t \in TraceSet : t = T[k - 1]
    BY <1>3, <2>1
  <2>3. U[k - 1] = t /\ T[k] = TraceStep(tr, t, stop) /\ U[k] = TraceStep(ur, t, stop)
    BY <1>3, <1>4, <1>6, <2>2
  <2>4. PICK s : s = <<t.obj, t.off \div Span[t.obj]>>
    OBVIOUS
  <2>5. T[k].slots \subseteq T[N].slots
    BY <1>1, <2>1, RunSlots
  <2>6. CASE t.obj \notin Gpt \/ (t.obj \in Gpt /\ Span[t.obj] < stop)
    <3>1. TraceStep(tr, t, stop) = t /\ TraceStep(ur, t, stop) = t
      BY <2>6 DEF TraceStep
    <3> QED
      BY <1>4, <2>1, <2>3, <3>1
  <2>7. CASE ~(t.obj \notin Gpt \/ (t.obj \in Gpt /\ Span[t.obj] < stop))
    <3>1. CASE s \notin Slot
      <4>1. TraceStep(tr, t, stop) = [t EXCEPT !.obj = None]
            /\ TraceStep(ur, t, stop) = [t EXCEPT !.obj = None]
        BY <2>4, <2>7, <3>1 DEF TraceStep
      <4> QED
        BY <1>4, <2>1, <2>3, <4>1
    <3>2. CASE s \in Slot
      <4>1. TraceStep(tr, t, stop) = [obj |-> tr[s].obj, off |-> t.off % Span[t.obj],
              ro |-> t.ro \/ tr[s].ro, slots |-> t.slots \cup {s}]
        BY <2>4, <2>7, <3>2 DEF TraceStep
      <4>2. TraceStep(ur, t, stop) = [obj |-> ur[s].obj, off |-> t.off % Span[t.obj],
              ro |-> t.ro \/ ur[s].ro, slots |-> t.slots \cup {s}]
        BY <2>4, <2>7, <3>2 DEF TraceStep
      <4>3. s \in T[k].slots
        BY <2>3, <4>1
      <4>4. ur[s] = tr[s]
        BY <1>1, <2>5, <4>3
      <4> QED
        BY <1>4, <2>1, <2>3, <4>1, <4>2, <4>4
    <3> QED
      BY <3>1, <3>2
  <2> QED
    BY <2>6, <2>7
<1>7. 0 .. N \subseteq K
  BY ONLY <1>2, <1>5, <1>6, UpToN
<1> QED
  BY <1>1, <1>4, <1>7

LEMMA TraceFacts ==
    ASSUME NEW tr \in [Slot -> Key], NEW obj \in Obj \cup {None}, NEW off \in Nat,
           NEW stop \in Nat
    PROVE  /\ Trace(tr, obj, off, stop) \in TraceSet
           /\ \A n \in 0 .. MaxDepth : AtEnd(Steps(tr, obj, off, stop)[n], stop) =>
                Steps(tr, obj, off, stop)[n] = Trace(tr, obj, off, stop)
           /\ Arrived(tr, obj, off, stop) => AtEnd(Trace(tr, obj, off, stop), stop)
<1>1. PICK T : T = Steps(tr, obj, off, stop)
  OBVIOUS
<1>2. IsRun(T, tr, obj, off, stop)
  BY <1>1, StepsRun
<1>3. Trace(tr, obj, off, stop) = T[2 * MaxDepth]
  BY <1>1 DEF Trace
<1>4. 2 * MaxDepth \in 0 .. 2 * MaxDepth /\ MaxDepth \in Nat
      /\ 2 * MaxDepth \in MaxDepth .. 2 * MaxDepth
  BY Sizes
<1>5. T[2 * MaxDepth] \in TraceSet
  BY <1>2, <1>4 DEF IsRun
<1>6. ASSUME NEW n \in 0 .. MaxDepth, AtEnd(T[n], stop)
      PROVE  T[n] = T[2 * MaxDepth]
  <2>1. n \in 0 .. 2 * MaxDepth /\ 2 * MaxDepth \in n .. 2 * MaxDepth
    BY <1>4
  <2>2. \A k \in n .. 2 * MaxDepth : T[k] = T[n]
    BY ONLY <1>2, <1>6, <2>1, RunEnd
  <2> QED
    BY <2>1, <2>2
<1>7. Arrived(tr, obj, off, stop) => AtEnd(T[2 * MaxDepth], stop)
  BY <1>1, <1>6 DEF Arrived
<1> QED
  BY <1>1, <1>3, <1>5, <1>6, <1>7

\* Where a walk comes to, the key of one of its slots leads, if it goes on.
LEMMA RunLast ==
    ASSUME NEW tr \in [Slot -> Key], NEW obj \in Obj \cup {None}, NEW off \in Nat,
           NEW stop \in Nat
    PROVE  LET t == Trace(tr, obj, off, stop)
           IN  \/ t.obj = None
               \/ t = Begin(obj, off)
               \/ \E s \in t.slots : tr[s].obj = t.obj
<1>1. PICK T : T = Steps(tr, obj, off, stop)
  OBVIOUS
<1>2. IsRun(T, tr, obj, off, stop)
  BY <1>1, StepsRun
<1>3. Trace(tr, obj, off, stop) = T[2 * MaxDepth]
  BY <1>1 DEF Trace
<1>4. PICK S : S = {t \in TraceSet : t.obj = None \/ t = Begin(obj, off)
                                     \/ \E s \in t.slots : tr[s].obj = t.obj}
  OBVIOUS
<1>5. Begin(obj, off) \in S
  BY <1>4 DEF Begin, TraceSet
<1>6. ASSUME NEW t \in TraceSet, t \in S PROVE TraceStep(tr, t, stop) \in S
  <2>1. PICK s : s = <<t.obj, t.off \div Span[t.obj]>>
    OBVIOUS
  <2>2. TraceStep(tr, t, stop) \in TraceSet
    BY StepType
  <2>3. CASE TraceStep(tr, t, stop) = t
    BY <1>6, <2>3
  <2>4. CASE TraceStep(tr, t, stop) = [t EXCEPT !.obj = None]
    BY <1>4, <2>2, <2>4 DEF TraceSet
  <2>5. CASE TraceStep(tr, t, stop) =
               [obj |-> tr[s].obj, off |-> t.off % Span[t.obj],
                ro |-> t.ro \/ tr[s].ro, slots |-> t.slots \cup {s}]
    BY <1>4, <2>2, <2>5
  <2> QED
    BY <2>1, <2>3, <2>4, <2>5 DEF TraceStep
<1>7. \A n \in 0 .. 2 * MaxDepth : T[n] \in S
  BY ONLY <1>2, <1>5, <1>6, RunAll
<1>8. 2 * MaxDepth \in 0 .. 2 * MaxDepth
  BY Sizes
<1> QED
  BY <1>3, <1>4, <1>7, <1>8

\* A walk of the first level does not come to a page.
LEMMA RunNoPage ==
    ASSUME NEW tr, TreeOK(tr), NEW obj \in Gpt, NEW off \in Nat
    PROVE  /\ Trace(tr, obj, off, SectionSize).obj \notin Page
           /\ \A n \in 0 .. 2 * MaxDepth :
                Steps(tr, obj, off, SectionSize)[n].obj \notin Page
<1>0. tr \in [Slot -> Key] /\ obj \in Obj \cup {None} /\ SectionSize \in Nat
  BY Sizes DEF TreeOK, Obj
<1>1. PICK T : T = Steps(tr, obj, off, SectionSize)
  OBVIOUS
<1>2. IsRun(T, tr, obj, off, SectionSize)
  BY <1>0, <1>1, StepsRun
<1>3. Trace(tr, obj, off, SectionSize) = T[2 * MaxDepth]
  BY <1>1 DEF Trace
<1>4. PICK S : S = {t \in TraceSet : t.obj \notin Page}
  OBVIOUS
<1>5. Begin(obj, off) \in S
  BY <1>4, SlotFacts DEF Begin, TraceSet, Obj
<1>6. ASSUME NEW t \in TraceSet, t \in S PROVE TraceStep(tr, t, SectionSize) \in S
  <2>1. PICK s : s = <<t.obj, t.off \div Span[t.obj]>>
    OBVIOUS
  <2>2. TraceStep(tr, t, SectionSize) \in TraceSet
    BY <1>0, StepType
  <2>3. CASE t.obj \notin Gpt \/ (t.obj \in Gpt /\ Span[t.obj] < SectionSize)
    <3>1. TraceStep(tr, t, SectionSize) = t
      BY <2>3 DEF TraceStep
    <3> QED
      BY <1>6, <3>1
  <2>4. CASE ~(t.obj \notin Gpt \/ (t.obj \in Gpt /\ Span[t.obj] < SectionSize))
             /\ s \notin Slot
    <3>1. TraceStep(tr, t, SectionSize) = [t EXCEPT !.obj = None]
      BY <2>1, <2>4 DEF TraceStep
    <3>2. TraceStep(tr, t, SectionSize).obj = None
      BY <3>1 DEF TraceSet
    <3> QED
      BY <1>4, <2>2, <3>2, SlotFacts
  <2>5. CASE ~(t.obj \notin Gpt \/ (t.obj \in Gpt /\ Span[t.obj] < SectionSize))
             /\ s \in Slot
    <3>1. TraceStep(tr, t, SectionSize) =
               [obj |-> tr[s].obj, off |-> t.off % Span[t.obj],
                ro |-> t.ro \/ tr[s].ro, slots |-> t.slots \cup {s}]
      BY <2>1, <2>5 DEF TraceStep
    <3>2. s[1] = t.obj /\ ~(Span[s[1]] < SectionSize)
      BY <2>1, <2>5
    <3>3. tr[s] \in KeysOf[s] \cup {VoidKey}
      BY <2>5 DEF TreeOK
    <3>4. \A k \in KeysOf[s] : k.obj \in Page => Span[s[1]] < SectionSize
      BY <2>5, ConstantsAssumption
    <3>5. VoidKey.obj \notin Page
      BY SlotFacts DEF VoidKey
    <3>6. tr[s].obj \notin Page
      BY <3>2, <3>3, <3>4, <3>5
    <3> QED
      BY <1>4, <2>2, <3>1, <3>6
  <2> QED
    BY <2>3, <2>4, <2>5
<1>7. \A n \in 0 .. 2 * MaxDepth : T[n] \in S
  BY ONLY <1>2, <1>5, <1>6, RunAll
<1>8. 2 * MaxDepth \in 0 .. 2 * MaxDepth
  BY Sizes
<1> QED
  BY <1>1, <1>3, <1>4, <1>7, <1>8

\* a and b are walks to the same section, and a to the page r of it.
Beside(a, b, r) ==
    /\ a.obj = b.obj /\ a.off = b.off + r /\ a.ro = b.ro /\ a.slots = b.slots
    /\ b.off % SectionSize = 0

LEMMA BesideStep ==
    ASSUME NEW tr \in [Slot -> Key], NEW a \in TraceSet, NEW b \in TraceSet,
           NEW r \in 0 .. SectionSize - 1, Beside(a, b, r),
           NEW stop \in Nat, stop <= SectionSize,
           stop = SectionSize \/ ~(b.obj \in Gpt /\ Span[b.obj] < SectionSize)
    PROVE  Beside(TraceStep(tr, a, stop), TraceStep(tr, b, SectionSize), r)
<1>0. /\ a.obj = b.obj /\ a.off = b.off + r /\ a.ro = b.ro /\ a.slots = b.slots
      /\ b.off % SectionSize = 0 /\ b.off \in Nat
  BY DEF Beside, TraceSet
<1>1. CASE b.obj \notin Gpt \/ (b.obj \in Gpt /\ Span[b.obj] < SectionSize)
  <2>1. TraceStep(tr, a, stop) = a /\ TraceStep(tr, b, SectionSize) = b
    BY <1>0, <1>1 DEF TraceStep
  <2> QED
    BY <2>1
<1>2. CASE b.obj \in Gpt /\ Span[b.obj] >= SectionSize
  <2>0. PICK n : n = Span[b.obj]
    OBVIOUS
  <2>1. /\ (b.off + r) \div n = b.off \div n
        /\ (b.off + r) % n = (b.off % n) + r
        /\ (b.off % n) % SectionSize = 0
    BY ONLY <1>0, <1>2, <2>0, r \in 0 .. SectionSize - 1, InSection
  <2>2. PICK s : s = <<b.obj, b.off \div n>>
    OBVIOUS
  <2>3. s = <<a.obj, a.off \div Span[a.obj]>>
    BY <1>0, <2>0, <2>1, <2>2
  <2>4. ~(a.obj \notin Gpt \/ (a.obj \in Gpt /\ Span[a.obj] < stop))
        /\ ~(b.obj \notin Gpt \/ (b.obj \in Gpt /\ Span[b.obj] < SectionSize))
    BY <1>0, <1>2, Sizes
  <2>5. CASE s \notin Slot
    <3>1. TraceStep(tr, a, stop) = [a EXCEPT !.obj = None]
          /\ TraceStep(tr, b, SectionSize) = [b EXCEPT !.obj = None]
      BY <2>0, <2>2, <2>3, <2>4, <2>5 DEF TraceStep
    <3>2. PICK u : u = TraceStep(tr, a, stop)
      OBVIOUS
    <3>3. PICK v : v = TraceStep(tr, b, SectionSize)
      OBVIOUS
    <3>4. u.obj = None /\ u.off = a.off /\ u.ro = a.ro /\ u.slots = a.slots
      BY <3>1, <3>2 DEF TraceSet
    <3>5. v.obj = None /\ v.off = b.off /\ v.ro = b.ro /\ v.slots = b.slots
      BY <3>1, <3>3 DEF TraceSet
    <3> QED
      BY <1>0, <3>2, <3>3, <3>4, <3>5 DEF Beside
  <2>6. CASE s \in Slot
    <3>1. TraceStep(tr, a, stop) =
               [obj |-> tr[s].obj, off |-> a.off % n,
                ro |-> a.ro \/ tr[s].ro, slots |-> a.slots \cup {s}]
      BY <1>0, <2>0, <2>3, <2>4, <2>6 DEF TraceStep
    <3>2. TraceStep(tr, b, SectionSize) =
               [obj |-> tr[s].obj, off |-> b.off % n,
                ro |-> b.ro \/ tr[s].ro, slots |-> b.slots \cup {s}]
      BY <2>0, <2>2, <2>4, <2>6 DEF TraceStep
    <3> QED
      BY <1>0, <2>1, <3>1, <3>2 DEF Beside
  <2> QED
    BY <2>5, <2>6
<1> QED
  BY <1>1, <1>2, Sizes DEF TraceSet

LEMMA BesideBegin ==
    ASSUME NEW obj, NEW b \in Nat, b % SectionSize = 0, NEW r
    PROVE  Beside(Begin(obj, b + r), Begin(obj, b), r)
BY DEF Beside, Begin

\* Two walks of the first level to the same section are the same walk.
LEMMA SameSection ==
    ASSUME NEW tr \in [Slot -> Key], NEW obj \in Obj, NEW b \in Nat,
           b % SectionSize = 0, NEW r \in 0 .. SectionSize - 1
    PROVE  \A n \in 0 .. 2 * MaxDepth :
             Beside(Steps(tr, obj, b + r, SectionSize)[n],
                    Steps(tr, obj, b, SectionSize)[n], r)
<1>1. PICK N : N = 2 * MaxDepth
  OBVIOUS
<1>2. N \in Nat /\ SectionSize \in Nat /\ b + r \in Nat /\ r \in Nat
  BY <1>1, Sizes
<1>3. PICK A : A = Steps(tr, obj, b + r, SectionSize)
  OBVIOUS
<1>4. PICK B : B = Steps(tr, obj, b, SectionSize)
  OBVIOUS
<1>5. IsRun(A, tr, obj, b + r, SectionSize) /\ IsRun(B, tr, obj, b, SectionSize)
  BY <1>2, <1>3, <1>4, StepsRun
<1>6. /\ \A n \in 0 .. N : A[n] \in TraceSet /\ B[n] \in TraceSet
      /\ A[0] = Begin(obj, b + r) /\ B[0] = Begin(obj, b)
      /\ \A n \in 1 .. N : A[n] = TraceStep(tr, A[n - 1], SectionSize)
      /\ \A n \in 1 .. N : B[n] = TraceStep(tr, B[n - 1], SectionSize)
  BY <1>1, <1>5 DEF IsRun
<1>7. PICK K : K = {n \in 0 .. N : Beside(A[n], B[n], r)}
  OBVIOUS
<1>8. 0 \in K
  <2>1. Beside(Begin(obj, b + r), Begin(obj, b), r)
    BY BesideBegin
  <2> QED
    BY <1>2, <1>6, <1>7, <2>1
<1>9. ASSUME NEW n \in 1 .. N, n - 1 \in K PROVE n \in K
  <2>1. n - 1 \in 0 .. N
    BY <1>2
  <2>2. PICK u \in TraceSet : u = A[n - 1]
    BY <1>6, <2>1
  <2>3. PICK v \in TraceSet : v = B[n - 1]
    BY <1>6, <2>1
  <2>4. Beside(u, v, r)
    BY <1>7, <1>9, <2>2, <2>3
  <2>5. Beside(TraceStep(tr, u, SectionSize), TraceStep(tr, v, SectionSize), r)
    BY <1>2, <2>4, BesideStep
  <2> QED
    BY <1>6, <1>7, <2>2, <2>3, <2>5
<1>10. 0 .. N \subseteq K
  BY ONLY <1>2, <1>8, <1>9, UpToN
<1> QED
  BY <1>1, <1>3, <1>4, <1>7, <1>10

\* A walk to a page is one to its section and one from there.
LEMMA Compose ==
    ASSUME NEW tr \in [Slot -> Key], NEW obj \in Obj, NEW b \in Nat,
           b % SectionSize = 0, NEW r \in 0 .. SectionSize - 1,
           Arrived(tr, obj, b, SectionSize),
           NEW t, t = Trace(tr, obj, b, SectionSize), t.obj \in Gpt,
           Arrived(tr, t.obj, t.off + r, 0),
           NEW u, u = Trace(tr, t.obj, t.off + r, 0)
    PROVE  LET a == Trace(tr, obj, b + r, 0)
           IN  a.obj = u.obj /\ a.ro = (t.ro \/ u.ro)
<1>1. PICK N : N = 2 * MaxDepth
  OBVIOUS
<1>2. N \in Nat /\ SectionSize \in Nat /\ b + r \in Nat /\ r \in Nat /\ MaxDepth \in Nat
      /\ 0 \in Nat
  BY <1>1, Sizes
<1>3. PICK A : A = Steps(tr, obj, b + r, 0)
  OBVIOUS
<1>4. PICK B : B = Steps(tr, obj, b, SectionSize)
  OBVIOUS
<1>5. IsRun(A, tr, obj, b + r, 0) /\ IsRun(B, tr, obj, b, SectionSize)
  BY <1>2, <1>3, <1>4, StepsRun
<1>6. /\ \A n \in 0 .. N : A[n] \in TraceSet /\ B[n] \in TraceSet
      /\ A[0] = Begin(obj, b + r) /\ B[0] = Begin(obj, b)
      /\ \A n \in 1 .. N : A[n] = TraceStep(tr, A[n - 1], 0)
      /\ \A n \in 1 .. N : B[n] = TraceStep(tr, B[n - 1], SectionSize)
  BY <1>1, <1>5 DEF IsRun
<1>7. PICK E : E = {n \in 0 .. MaxDepth : AtEnd(B[n], SectionSize)}
  OBVIOUS
<1>8. E # {} /\ E \subseteq Nat
  BY <1>2, <1>4, <1>7 DEF Arrived
<1>9. PICK n1 \in E : \A n \in E : n1 <= n
  BY ONLY <1>8, Smallest
<1>10. n1 \in 0 .. MaxDepth /\ n1 \in 0 .. N /\ AtEnd(B[n1], SectionSize) /\ t = B[n1]
  <2>1. n1 \in 0 .. MaxDepth /\ AtEnd(B[n1], SectionSize)
    BY <1>7, <1>9
  <2>2. B[n1] = Trace(tr, obj, b, SectionSize)
    BY <1>2, <1>4, <2>1, TraceFacts
  <2> QED
    BY <1>1, <1>2, <2>1, <2>2
<1>11. \A n \in 0 .. n1 - 1 : ~AtEnd(B[n], SectionSize)
  BY <1>2, <1>7, <1>9, <1>10
<1>12. Beside(A[n1], B[n1], r)
  <2>1. PICK K : K = {n \in 0 .. n1 : Beside(A[n], B[n], r)}
    OBVIOUS
  <2>2. 0 \in K
    <3>1. Beside(Begin(obj, b + r), Begin(obj, b), r)
      BY BesideBegin
    <3>2. 0 \in 0 .. n1
      BY <1>10
    <3> QED
      BY <1>6, <2>1, <3>1, <3>2
  <2>3. ASSUME NEW n \in 1 .. n1, n - 1 \in K PROVE n \in K
    <3>1. n - 1 \in 0 .. N /\ n \in 1 .. N /\ n - 1 \in 0 .. n1 - 1
      BY <1>2, <1>10
    <3>2. PICK x \in TraceSet : x = A[n - 1]
      BY <1>6, <3>1
    <3>3. PICK y \in TraceSet : y = B[n - 1]
      BY <1>6, <3>1
    <3>4. Beside(x, y, r) /\ ~(y.obj \in Gpt /\ Span[y.obj] < SectionSize)
      BY <1>11, <2>1, <2>3, <3>1, <3>2, <3>3 DEF AtEnd
    <3>5. Beside(TraceStep(tr, x, 0), TraceStep(tr, y, SectionSize), r)
      BY <1>2, <3>4, BesideStep
    <3> QED
      BY <1>6, <1>10, <2>1, <3>1, <3>2, <3>3, <3>5
  <2>4. n1 \in Nat
    BY <1>10
  <2>5. 0 .. n1 \subseteq K
    BY ONLY <2>2, <2>3, <2>4, UpToN
  <2>6. n1 \in 0 .. n1
    BY <2>4
  <2> QED
    BY <2>1, <2>5, <2>6
<1>13. A[n1].obj = t.obj /\ A[n1].off = t.off + r /\ A[n1].ro = t.ro
  BY <1>10, <1>12 DEF Beside
<1>14. PICK C : C = Steps(tr, t.obj, t.off + r, 0)
  OBVIOUS
<1>15. t \in TraceSet /\ t.off + r \in Nat /\ t.obj \in Obj \cup {None}
  <2>1. t \in TraceSet
    BY <1>6, <1>10
  <2>2. t.off \in Nat
    BY <2>1 DEF TraceSet
  <2> QED
    BY <1>2, <2>1, <2>2 DEF Obj
<1>16. IsRun(C, tr, t.obj, t.off + r, 0)
  BY <1>2, <1>14, <1>15, StepsRun
<1>17. /\ \A n \in 0 .. N : C[n] \in TraceSet
       /\ C[0] = Begin(t.obj, t.off + r)
       /\ \A n \in 1 .. N : C[n] = TraceStep(tr, C[n - 1], 0)
  BY <1>1, <1>16 DEF IsRun
<1>18. \A k \in 0 .. MaxDepth : /\ A[n1 + k].obj = C[k].obj /\ A[n1 + k].off = C[k].off
                                /\ A[n1 + k].ro = (t.ro \/ C[k].ro)
  <2>1. PICK K : K = {k \in 0 .. MaxDepth :
                        /\ A[n1 + k].obj = C[k].obj /\ A[n1 + k].off = C[k].off
                        /\ A[n1 + k].ro = (t.ro \/ C[k].ro)}
    OBVIOUS
  <2>2. 0 \in K
    <3>1. n1 + 0 = n1
      BY <1>10
    <3>2. C[0].obj = t.obj /\ C[0].off = t.off + r /\ C[0].ro = FALSE
      BY <1>17 DEF Begin
    <3>3. t.ro \in BOOLEAN
      BY <1>15 DEF TraceSet
    <3>4. A[n1 + 0].ro = (t.ro \/ C[0].ro)
      BY <1>13, <3>1, <3>2, <3>3
    <3>5. A[n1 + 0].obj = C[0].obj /\ A[n1 + 0].off = C[0].off /\ 0 \in 0 .. MaxDepth
      BY <1>2, <1>13, <3>1, <3>2
    <3> QED
      BY <2>1, <3>4, <3>5
  <2>3. ASSUME NEW k \in 1 .. MaxDepth, k - 1 \in K PROVE k \in K
    <3>1. /\ n1 + k \in 1 .. N /\ n1 + (k - 1) \in 0 .. N /\ k \in 1 .. N /\ k - 1 \in 0 .. N
          /\ (n1 + k) - 1 = n1 + (k - 1)
      BY <1>1, <1>2, <1>10
    <3>2. PICK x \in TraceSet : x = A[n1 + (k - 1)]
      BY <1>6, <3>1
    <3>3. PICK y \in TraceSet : y = C[k - 1]
      BY <1>17, <3>1
    <3>4. A[n1 + k] = TraceStep(tr, x, 0) /\ C[k] = TraceStep(tr, y, 0)
      BY <1>6, <1>17, <3>1, <3>2, <3>3
    <3>5. x.obj = y.obj /\ x.off = y.off /\ x.ro = (t.ro \/ y.ro)
      BY <2>1, <2>3, <3>2, <3>3
    <3>6. PICK s : s = <<x.obj, x.off \div Span[x.obj]>>
      OBVIOUS
    <3>7. CASE x.obj \notin Gpt \/ (x.obj \in Gpt /\ Span[x.obj] < 0)
      <4>1. TraceStep(tr, x, 0) = x /\ TraceStep(tr, y, 0) = y
        BY <3>5, <3>7 DEF TraceStep
      <4> QED
        BY <2>1, <3>1, <3>4, <3>5, <4>1
    <3>8. CASE ~(x.obj \notin Gpt \/ (x.obj \in Gpt /\ Span[x.obj] < 0)) /\ s \notin Slot
      <4>1. TraceStep(tr, x, 0) = [x EXCEPT !.obj = None]
            /\ TraceStep(tr, y, 0) = [y EXCEPT !.obj = None]
        BY <3>5, <3>6, <3>8 DEF TraceStep
      <4>2. A[n1 + k].obj = None /\ A[n1 + k].off = x.off /\ A[n1 + k].ro = x.ro
        BY <3>4, <4>1 DEF TraceSet
      <4>3. C[k].obj = None /\ C[k].off = y.off /\ C[k].ro = y.ro
        BY <3>4, <4>1 DEF TraceSet
      <4> QED
        BY <2>1, <3>5, <4>2, <4>3
    <3>9. CASE ~(x.obj \notin Gpt \/ (x.obj \in Gpt /\ Span[x.obj] < 0)) /\ s \in Slot
      <4>1. TraceStep(tr, x, 0) =
              [obj |-> tr[s].obj, off |-> x.off % Span[x.obj],
               ro |-> x.ro \/ tr[s].ro, slots |-> x.slots \cup {s}]
        BY <3>6, <3>9 DEF TraceStep
      <4>2. TraceStep(tr, y, 0) =
              [obj |-> tr[s].obj, off |-> y.off % Span[y.obj],
               ro |-> y.ro \/ tr[s].ro, slots |-> y.slots \cup {s}]
        BY <3>5, <3>6, <3>9 DEF TraceStep
      <4>3. A[n1 + k].obj = C[k].obj /\ A[n1 + k].off = C[k].off
        BY <3>4, <3>5, <4>1, <4>2
      <4>4. A[n1 + k].ro = (x.ro \/ tr[s].ro) /\ C[k].ro = (y.ro \/ tr[s].ro)
        BY <3>4, <4>1, <4>2
      <4>5. A[n1 + k].ro = (t.ro \/ C[k].ro)
        BY <3>5, <4>4
      <4> QED
        BY <2>1, <4>3, <4>5
    <3> QED
      BY <3>7, <3>8, <3>9
  <2>4. 0 .. MaxDepth \subseteq K
    BY ONLY <1>2, <2>2, <2>3, UpToN
  <2> QED
    BY <2>1, <2>4
<1>19. PICK n2 \in 0 .. MaxDepth : AtEnd(C[n2], 0)
  BY <1>14 DEF Arrived
<1>20. C[n2] = u
  BY <1>2, <1>14, <1>15, <1>19, TraceFacts
<1>21. /\ A[n1 + n2].obj = u.obj /\ A[n1 + n2].ro = (t.ro \/ u.ro)
       /\ n1 + n2 \in 0 .. N /\ N \in n1 + n2 .. N
  BY <1>1, <1>2, <1>10, <1>18, <1>20
<1>22. AtEnd(A[n1 + n2], 0)
  BY <1>19, <1>20, <1>21 DEF AtEnd
<1>23. A[N] = A[n1 + n2]
  BY <1>1, <1>5, <1>21, <1>22, RunEnd
<1> QED
  BY <1>1, <1>3, <1>21, <1>23 DEF Trace
-----------------------------------------------------------------------------
(* The maps as places: a place is a table and an index, as depend entries    *)
(* have them.                                                                *)

Place == (Proc \X {0}) \cup ({Flpt} \X FlptIx) \cup (Cpt \X PageIx)
At(m, l) == IF l[1] \in Proc THEN m.md[l[1]]
            ELSE IF l[1] = Flpt THEN m.flpt[l[2]] ELSE m.pte[l[1]][l[2]]
Gone(l) == IF l[1] \in Proc THEN None ELSE Zapped
HitBy(E, l) == \E e \in E : e.tab = l[1] /\ l[2] \in e.lo .. e.hi
Keeps(m, n, l) ==
    \A e \in Slot : Covers(m, e, l[1], l[2]) => Covers(n, e, l[1], l[2])

\* n is m with places invalidated, and the others as well covered as before.
Shrinks(m, n) ==
    /\ n \in MapSet /\ n.hz \subseteq Slot
    /\ n.ss = m.ss /\ n.cpt = m.cpt /\ n.ca = m.ca /\ n.dirty = m.dirty
    /\ \A l \in Place : At(n, l) = Gone(l) \/ (At(n, l) = At(m, l) /\ Keeps(m, n, l))

\* And no slot is not hazarded any more.
Narrows(m, n) == Shrinks(m, n) /\ m.hz \subseteq n.hz

LEMMA PlaceFacts ==
    /\ \A p \in Proc : /\ <<p, 0>> \in Place /\ Gone(<<p, 0>>) = None
                       /\ \A m : At(m, <<p, 0>>) = m.md[p]
    /\ \A x \in FlptIx : /\ <<Flpt, x>> \in Place /\ Gone(<<Flpt, x>>) = Zapped
                         /\ \A m : At(m, <<Flpt, x>>) = m.flpt[x]
    /\ \A c \in Cpt, j \in PageIx :
         /\ <<c, j>> \in Place /\ Gone(<<c, j>>) = Zapped
         /\ \A m : At(m, <<c, j>>) = m.pte[c][j]
    /\ \A l \in Place : l[1] \in Tab /\ l[1] # None /\ l[2] \in Nat
                        /\ l = <<l[1], l[2]>>
<1>1. Flpt \notin Proc /\ Flpt \notin Cpt /\ Proc \cap Cpt = {} /\ None \notin Proc
      /\ None \notin Cpt /\ None # Flpt
  BY ConstantsAssumption
<1>2. FlptIx \subseteq Nat /\ PageIx \subseteq Nat
  BY EntrySpace, Sizes DEF PageIx
<1>3. ASSUME NEW p \in Proc
      PROVE  /\ <<p, 0>> \in Place /\ Gone(<<p, 0>>) = None
             /\ \A m : At(m, <<p, 0>>) = m.md[p]
  BY DEF Place, Gone, At
<1>4. ASSUME NEW x \in FlptIx
      PROVE  /\ <<Flpt, x>> \in Place /\ Gone(<<Flpt, x>>) = Zapped
             /\ \A m : At(m, <<Flpt, x>>) = m.flpt[x]
  BY <1>1 DEF Place, Gone, At
<1>5. ASSUME NEW c \in Cpt, NEW j \in PageIx
      PROVE  /\ <<c, j>> \in Place /\ Gone(<<c, j>>) = Zapped
             /\ \A m : At(m, <<c, j>>) = m.pte[c][j]
  <2>1. c \notin Proc /\ c # Flpt
    BY <1>1
  <2> QED
    BY <2>1 DEF Place, Gone, At
<1>6. ASSUME NEW l \in Place
      PROVE  l[1] \in Tab /\ l[1] # None /\ l[2] \in Nat /\ l = <<l[1], l[2]>>
  <2>1. CASE l \in Proc \X {0}
    BY <1>1, <2>1 DEF Tab
  <2>2. CASE l \in {Flpt} \X FlptIx
    <3>1. PICK x \in FlptIx : l = <<Flpt, x>>
      BY <2>2
    <3> QED
      BY <1>1, <1>2, <3>1 DEF Tab
  <2>3. CASE l \in Cpt \X PageIx
    <3>1. PICK c \in Cpt, j \in PageIx : l = <<c, j>>
      BY <2>3
    <3> QED
      BY <1>1, <1>2, <3>1 DEF Tab
  <2> QED
    BY <2>1, <2>2, <2>3 DEF Place
<1> QED
  BY <1>3, <1>4, <1>5, <1>6

LEMMA MapFields ==
    ASSUME NEW m \in MapSet
    PROVE  /\ m.hz \subseteq Slot /\ m.dep \in [1 .. BucketSize -> DepSet]
           /\ m.md \in [Proc -> Space \cup {None, PidInProgress}]
           /\ m.ss \in [Space -> [obj : Gpt \cup {None}, ro : BOOLEAN]]
           /\ m.flpt \in [FlptIx -> TableEntry(Cpt)] /\ m.cpt \in [Cpt -> TableSet]
           /\ m.pte \in [Cpt -> [PageIx -> TableEntry(Page)]]
           /\ m.ca \in [Page -> CacheSet] /\ m.dirty \subseteq Page
BY DEF MapSet

\* Maps are known by their fields.
LEMMA MapBuilt ==
    ASSUME NEW hz \in SUBSET Slot, NEW dep \in [1 .. BucketSize -> DepSet],
           NEW md \in [Proc -> Space \cup {None, PidInProgress}],
           NEW ss \in [Space -> [obj : Gpt \cup {None}, ro : BOOLEAN]],
           NEW flpt \in [FlptIx -> TableEntry(Cpt)], NEW cpt \in [Cpt -> TableSet],
           NEW pte \in [Cpt -> [PageIx -> TableEntry(Page)]],
           NEW ca \in [Page -> CacheSet], NEW dirty \in SUBSET Page, NEW n,
           n = [hz |-> hz, dep |-> dep, md |-> md, ss |-> ss, flpt |-> flpt,
                cpt |-> cpt, pte |-> pte, ca |-> ca, dirty |-> dirty]
    PROVE  n \in MapSet
BY DEF MapSet

LEMMA EntryFacts ==
    /\ \A S : Zapped \in TableEntry(S) /\ InProgress \in TableEntry(S)
    /\ InProgress # Zapped /\ ~Live(Zapped) /\ ~Live(InProgress)
    /\ Zapped.st = "zapped" /\ InProgress.st = "progress"
    /\ NoEntry \in DepSet /\ NoEntry.tab = None
    /\ NoTable \in TableSet /\ NoTable.obj = None
    /\ CacheNone \in CacheSet
    /\ None \notin Space /\ PidInProgress \notin Space /\ PidInProgress # None
<1>1. \A S : Zapped \in TableEntry(S)
  BY DEF Zapped, TableEntry
<1>2. \A S : InProgress \in TableEntry(S)
  BY DEF Zapped, InProgress, TableEntry
<1>3. /\ InProgress # Zapped /\ ~Live(Zapped) /\ ~Live(InProgress)
      /\ Zapped.st = "zapped" /\ InProgress.st = "progress"
  BY DEF Zapped, InProgress, Live
<1>4. NoEntry \in DepSet /\ NoEntry.tab = None
  BY DEF NoEntry, DepSet
<1>5. NoTable \in TableSet /\ NoTable.obj = None
  BY DEF NoTable, TableSet
<1>6. CacheNone \in CacheSet
  BY DEF CacheNone, CacheSet
<1>7. None \notin Space /\ PidInProgress \notin Space /\ PidInProgress # None
  BY ConstantsAssumption
<1> QED
  BY <1>1, <1>2, <1>3, <1>4, <1>5, <1>6, <1>7

Hows == {"invalidate", "trackReferenced", "trackDirty"}

LEMMA EntryTypes ==
    ASSUME NEW S, NEW t \in TableEntry(S), NEW how \in Hows
    PROVE  /\ Flmte(how, t) \in TableEntry(S) /\ Pte(how, t) \in TableEntry(S)
           /\ Referenced(t) \in TableEntry(S)
<1>1. Referenced(t) \in TableEntry(S)
  BY DEF Referenced, TableEntry
<1>2. ReadOnly(t) \in TableEntry(S)
  BY DEF ReadOnly, TableEntry
<1>3. Zapped \in TableEntry(S)
  BY EntryFacts
<1> QED
  BY <1>1, <1>2, <1>3 DEF Flmte, Pte, Hows

\* KeyDependEntry_Track.
LEMMA TrackFields ==
    ASSUME NEW m \in MapSet, NEW E, NEW how \in Hows, NEW n, n = Track(m, E, how)
    PROVE  /\ n \in MapSet /\ n.hz = m.hz /\ n.dep = m.dep /\ n.ss = m.ss
           /\ n.cpt = m.cpt /\ n.ca = m.ca /\ n.dirty = m.dirty
           /\ \A p \in Proc :
                n.md[p] = IF HitBy(E, <<p, 0>>) THEN None ELSE m.md[p]
           /\ \A x \in FlptIx :
                n.flpt[x] = IF HitBy(E, <<Flpt, x>>) THEN Flmte(how, m.flpt[x])
                            ELSE m.flpt[x]
           /\ \A c \in Cpt, j \in PageIx :
                n.pte[c][j] = IF HitBy(E, <<c, j>>) THEN Pte(how, m.pte[c][j])
                              ELSE m.pte[c][j]
<1>1. PICK a : a = [p \in Proc |-> IF HitBy(E, <<p, 0>>) THEN None ELSE m.md[p]]
  OBVIOUS
<1>2. PICK b : b = [x \in FlptIx |-> IF HitBy(E, <<Flpt, x>>)
                                    THEN Flmte(how, m.flpt[x]) ELSE m.flpt[x]]
  OBVIOUS
<1>3. PICK d : d = [c \in Cpt |-> [j \in PageIx |->
                      IF HitBy(E, <<c, j>>) THEN Pte(how, m.pte[c][j])
                      ELSE m.pte[c][j]]]
  OBVIOUS
<1>4. a \in [Proc -> Space \cup {None, PidInProgress}]
  BY <1>1, MapFields
<1>5. b \in [FlptIx -> TableEntry(Cpt)]
  BY <1>2, MapFields, EntryTypes
<1>6. d \in [Cpt -> [PageIx -> TableEntry(Page)]]
  <2>1. ASSUME NEW c \in Cpt, NEW j \in PageIx
        PROVE  (IF HitBy(E, <<c, j>>) THEN Pte(how, m.pte[c][j]) ELSE m.pte[c][j])
                 \in TableEntry(Page)
    <3>1. m.pte[c][j] \in TableEntry(Page)
      BY MapFields
    <3> QED
      BY <3>1, EntryTypes
  <2> QED
    BY <1>3, <2>1
<1>7. n = [m EXCEPT !.md = a, !.flpt = b, !.pte = d]
  BY <1>1, <1>2, <1>3 DEF Track, HitBy
<1>8. n \in MapSet /\ n.md = a /\ n.flpt = b /\ n.pte = d
      /\ n.hz = m.hz /\ n.dep = m.dep /\ n.ss = m.ss
      /\ n.cpt = m.cpt /\ n.ca = m.ca /\ n.dirty = m.dirty
  BY ONLY m \in MapSet, <1>4, <1>5, <1>6, <1>7 DEF MapSet
<1> QED
  BY <1>1, <1>2, <1>3, <1>8

Tracked(m, n, E, how) ==
    \A c \in Cpt, j \in PageIx :
      n.pte[c][j] = IF HitBy(E, <<c, j>>) THEN Pte(how, m.pte[c][j]) ELSE m.pte[c][j]

LEMMA TrackPtes ==
    ASSUME NEW m \in MapSet, NEW E, NEW how \in Hows
    PROVE  Tracked(m, Track(m, E, how), E, how)
<1>1. PICK n : n = Track(m, E, how)
  OBVIOUS
<1>2. /\ n \in MapSet /\ n.hz = m.hz /\ n.dep = m.dep /\ n.ss = m.ss
      /\ n.cpt = m.cpt /\ n.ca = m.ca /\ n.dirty = m.dirty
      /\ \A p \in Proc :
           n.md[p] = IF HitBy(E, <<p, 0>>) THEN None ELSE m.md[p]
      /\ \A x \in FlptIx :
           n.flpt[x] = IF HitBy(E, <<Flpt, x>>) THEN Flmte(how, m.flpt[x])
                       ELSE m.flpt[x]
      /\ \A c \in Cpt, j \in PageIx :
           n.pte[c][j] = IF HitBy(E, <<c, j>>) THEN Pte(how, m.pte[c][j])
                         ELSE m.pte[c][j]
  BY <1>1, TrackFields
<1> QED
  BY <1>1, <1>2 DEF Tracked

LEMMA InvalidateAt ==
    ASSUME NEW m \in MapSet, NEW E, NEW n, n = Track(m, E, "invalidate")
    PROVE  \A l \in Place : At(n, l) = IF HitBy(E, l) THEN Gone(l) ELSE At(m, l)
<1>1. /\ \A p \in Proc :
           n.md[p] = IF HitBy(E, <<p, 0>>) THEN None ELSE m.md[p]
      /\ \A x \in FlptIx :
           n.flpt[x] = IF HitBy(E, <<Flpt, x>>) THEN Zapped ELSE m.flpt[x]
      /\ \A c \in Cpt, j \in PageIx :
           n.pte[c][j] = IF HitBy(E, <<c, j>>) THEN Zapped ELSE m.pte[c][j]
  <2>1. "invalidate" \in Hows
    BY DEF Hows
  <2>2. \A t : Flmte("invalidate", t) = Zapped /\ Pte("invalidate", t) = Zapped
    BY DEF Flmte, Pte
  <2> QED
    BY <2>1, <2>2, TrackFields
<1>2. ASSUME NEW l \in Place
      PROVE  At(n, l) = IF HitBy(E, l) THEN Gone(l) ELSE At(m, l)
  <2>1. CASE \E p \in Proc : l = <<p, 0>>
    BY <1>1, <2>1, PlaceFacts
  <2>2. CASE \E x \in FlptIx : l = <<Flpt, x>>
    BY <1>1, <2>2, PlaceFacts
  <2>3. CASE \E c \in Cpt, j \in PageIx : l = <<c, j>>
    BY <1>1, <2>3, PlaceFacts
  <2> QED
    BY <2>1, <2>2, <2>3 DEF Place
<1> QED
  BY <1>2

LEMMA ShrinksSame == ASSUME NEW m \in MapSet PROVE Shrinks(m, m)
BY MapFields DEF Shrinks, Keeps

LEMMA NarrowsSame == ASSUME NEW m \in MapSet PROVE Narrows(m, m)
BY ShrinksSame DEF Narrows

LEMMA ShrinksMore ==
    ASSUME NEW m, NEW n, NEW o, Shrinks(m, n), Shrinks(n, o)
    PROVE  Shrinks(m, o)
<1>1. ASSUME NEW l \in Place
      PROVE  At(o, l) = Gone(l) \/ (At(o, l) = At(m, l) /\ Keeps(m, o, l))
  BY DEF Shrinks, Keeps
<1> QED
  BY <1>1 DEF Shrinks

LEMMA NarrowsMore ==
    ASSUME NEW m, NEW n, NEW o, Narrows(m, n), Narrows(n, o)
    PROVE  Narrows(m, o)
BY ShrinksMore DEF Narrows

\* Depend_InvalidateKey.
LEMMA ClearShrinks ==
    ASSUME NEW m \in MapSet, NEW S, NEW n, n = ClearHazards(m, S)
    PROVE  Shrinks(m, n) /\ n.hz = m.hz \ S
<1>1. PICK K : K = EntriesOf(m, S \cap m.hz)
  OBVIOUS
<1>2. PICK E : E = {m.dep[k] : k \in K}
  OBVIOUS
<1>3. PICK v : v = Track(m, E, "invalidate")
  OBVIOUS
<1>4. v \in MapSet /\ v.hz = m.hz /\ v.dep = m.dep /\ v.ss = m.ss
      /\ v.cpt = m.cpt /\ v.ca = m.ca /\ v.dirty = m.dirty
  <2>1. "invalidate" \in Hows
    BY DEF Hows
  <2> QED
    BY <1>3, <2>1, TrackFields
<1>5. \A l \in Place : At(v, l) = IF HitBy(E, l) THEN Gone(l) ELSE At(m, l)
  BY <1>3, InvalidateAt
<1>6. PICK d : d = [k \in 1 .. BucketSize |-> IF k \in K THEN NoEntry ELSE m.dep[k]]
  OBVIOUS
<1>7. d \in [1 .. BucketSize -> DepSet]
  BY <1>6, MapFields, EntryFacts
<1>8. n = [v EXCEPT !.dep = d, !.hz = v.hz \ S]
  BY <1>1, <1>2, <1>3, <1>6 DEF ClearHazards, Visit
<1>9. n \in MapSet /\ n.hz = m.hz \ S /\ n.dep = d /\ n.md = v.md /\ n.flpt = v.flpt
      /\ n.pte = v.pte /\ n.ss = v.ss /\ n.cpt = v.cpt /\ n.ca = v.ca /\ n.dirty = v.dirty
  <2>1. v.hz \ S \in SUBSET Slot
    BY <1>4, MapFields
  <2> QED
    BY ONLY <1>4, <1>7, <1>8, <2>1 DEF MapSet
<1>10. ASSUME NEW l \in Place, ~HitBy(E, l) PROVE Keeps(m, n, l)
  <2> SUFFICES ASSUME NEW e \in Slot, Covers(m, e, l[1], l[2])
               PROVE  Covers(n, e, l[1], l[2])
    BY DEF Keeps
  <2>1. PICK k \in 1 .. BucketSize :
          m.dep[k].tag = SlotTag[e] /\ m.dep[k].tab = l[1]
          /\ l[2] \in m.dep[k].lo .. m.dep[k].hi
    BY DEF Covers
  <2>2. e \in m.hz /\ k \notin K
    BY <1>2, <1>10, <2>1 DEF Covers, HitBy
  <2>3. m.dep[k] # NoEntry
    BY <2>1, PlaceFacts, EntryFacts
  <2>4. e \notin S
    BY <1>1, <2>1, <2>2, <2>3 DEF EntriesOf
  <2>5. n.dep[k] = m.dep[k] /\ e \in n.hz
    BY <1>6, <1>9, <2>2, <2>4
  <2> QED
    BY <2>1, <2>5 DEF Covers
<1>11. \A l \in Place : At(n, l) = At(v, l)
  BY <1>9 DEF At
<1>12. \A l \in Place : At(n, l) = Gone(l) \/ (At(n, l) = At(m, l) /\ Keeps(m, n, l))
  BY <1>5, <1>10, <1>11
<1>13. n.hz \subseteq Slot
  BY <1>9, MapFields
<1> QED
  BY <1>4, <1>9, <1>12, <1>13 DEF Shrinks

LEMMA LeastOf ==
    ASSUME NEW S, S \subseteq Nat, S # {}
    PROVE  Min(S) \in S /\ \A y \in S : Min(S) <= y
<1>1. \E x \in S : \A y \in S : x <= y
  BY Smallest
<1> QED
  BY <1>1 DEF Min

LEMMA MostOfTwo ==
    ASSUME NEW a \in Nat, NEW b \in Nat
    PROVE  Max({a, b}) \in Nat /\ a <= Max({a, b}) /\ b <= Max({a, b})
<1>1. \E x \in {a, b} : \A y \in {a, b} : x >= y
  OBVIOUS
<1>2. Max({a, b}) \in {a, b} /\ \A y \in {a, b} : Max({a, b}) >= y
  BY <1>1 DEF Max
<1> QED
  BY <1>2

\* Depend_AddKey.
LEMMA AddKeyShrinks ==
    ASSUME NEW m \in MapSet, NEW s \in Slot, NEW l \in Place, NEW n,
           n = AddKey(m, s, l[1], l[2])
    PROVE  Narrows(m, n) /\ Covers(n, s, l[1], l[2])
<1>1. l[1] \in Tab /\ l[1] # None /\ l[2] \in Nat
  BY PlaceFacts
<1>2. PICK h : h = [m EXCEPT !.hz = m.hz \cup {s}]
  OBVIOUS
<1>3. h \in MapSet /\ h.hz = m.hz \cup {s} /\ h.dep = m.dep /\ h.md = m.md
      /\ h.ss = m.ss /\ h.flpt = m.flpt /\ h.cpt = m.cpt /\ h.pte = m.pte
      /\ h.ca = m.ca /\ h.dirty = m.dirty
  <2>1. m.hz \cup {s} \in SUBSET Slot
    BY MapFields
  <2> QED
    BY ONLY m \in MapSet, <1>2, <2>1 DEF MapSet
<1>4. SlotTag[s] \in Nat /\ BucketSize \in Nat \ {0}
  BY ConstantsAssumption
<1>5. PICK Q : Q = {k \in 1 .. BucketSize : m.dep[k].tag = SlotTag[s]
                                          /\ m.dep[k].tab = l[1]}
  OBVIOUS
<1>6. n = IF Q = {} THEN NewDependEntry(h, s, l[1], l[2])
          ELSE [h EXCEPT !.dep[Min(Q)] =
                 [m.dep[Min(Q)] EXCEPT !.lo = Min({@, l[2]}), !.hi = Max({@, l[2]})]]
  BY <1>2, <1>5 DEF AddKey
<1>7. \A k \in 1 .. BucketSize : m.dep[k] \in DepSet
  BY MapFields
<1>8. CASE Q = {}
  <2>1. PICK E : E = IF h.dep[1] = NoEntry THEN {} ELSE {h.dep[1]}
    OBVIOUS
  <2>2. PICK v : v = IF h.dep[1] = NoEntry THEN h ELSE Track(h, {h.dep[1]}, "invalidate")
    OBVIOUS
  <2>3. v \in MapSet /\ v.hz = h.hz /\ v.ss = m.ss
        /\ v.cpt = m.cpt /\ v.ca = m.ca /\ v.dirty = m.dirty
    <3>1. "invalidate" \in Hows
      BY DEF Hows
    <3>2. PICK w : w = Track(h, {h.dep[1]}, "invalidate")
      OBVIOUS
    <3>3. w \in MapSet /\ w.hz = h.hz /\ w.ss = h.ss
        /\ w.cpt = h.cpt /\ w.ca = h.ca /\ w.dirty = h.dirty
      BY <1>3, <3>1, <3>2, TrackFields
    <3> QED
      BY <1>3, <2>2, <3>2, <3>3
  <2>4. \A q \in Place : At(v, q) = IF HitBy(E, q) THEN Gone(q) ELSE At(m, q)
    <3>1. CASE h.dep[1] = NoEntry
      BY <1>3, <2>1, <2>2, <3>1 DEF HitBy, At
    <3>2. CASE h.dep[1] # NoEntry
      <4>1. \A q \in Place : At(v, q) = IF HitBy(E, q) THEN Gone(q) ELSE At(h, q)
        BY <1>3, <2>1, <2>2, <3>2, InvalidateAt
      <4>2. \A q \in Place : At(h, q) = At(m, q)
        BY <1>3 DEF At
      <4> QED
        BY <4>1, <4>2
    <3> QED
      BY <3>1, <3>2
  <2>5. PICK t : t = [tag |-> SlotTag[s], tab |-> l[1], lo |-> l[2], hi |-> l[2]]
    OBVIOUS
  <2>6. t \in DepSet
    BY <1>1, <1>4, <2>5 DEF DepSet
  <2>7. PICK d : d = [k \in 1 .. BucketSize |->
                        IF k < BucketSize THEN m.dep[k + 1] ELSE t]
    OBVIOUS
  <2>8. d \in [1 .. BucketSize -> DepSet]
    BY <1>4, <1>7, <2>6, <2>7
  <2>9. n = [v EXCEPT !.dep = d]
    BY <1>3, <1>6, <1>8, <2>2, <2>5, <2>7 DEF NewDependEntry
  <2>10. n \in MapSet /\ n.hz = v.hz /\ n.dep = d /\ n.md = v.md /\ n.flpt = v.flpt
      /\ n.pte = v.pte /\ n.ss = v.ss /\ n.cpt = v.cpt /\ n.ca = v.ca /\ n.dirty = v.dirty
    BY ONLY <2>3, <2>8, <2>9 DEF MapSet
  <2>11. Covers(n, s, l[1], l[2])
    <3>1. s \in n.hz
      BY <1>3, <2>3, <2>10
    <3>2. BucketSize \in 1 .. BucketSize /\ n.dep[BucketSize] = t
      BY <1>4, <2>7, <2>10
    <3>3. t.tag = SlotTag[s] /\ t.tab = l[1] /\ l[2] \in t.lo .. t.hi
      BY <1>1, <2>5
    <3> QED
      BY <3>1, <3>2, <3>3 DEF Covers
  <2>12. ASSUME NEW q \in Place, ~HitBy(E, q) PROVE Keeps(m, n, q)
    <3> SUFFICES ASSUME NEW e \in Slot, Covers(m, e, q[1], q[2])
                 PROVE  Covers(n, e, q[1], q[2])
      BY DEF Keeps
    <3>1. PICK k \in 1 .. BucketSize :
            m.dep[k].tag = SlotTag[e] /\ m.dep[k].tab = q[1]
            /\ q[2] \in m.dep[k].lo .. m.dep[k].hi
      BY DEF Covers
    <3>2. m.dep[k] # NoEntry
      BY <3>1, PlaceFacts, EntryFacts
    <3>3. k # 1
      BY <1>3, <2>1, <2>12, <3>1, <3>2 DEF HitBy
    <3>4. k - 1 \in 1 .. BucketSize /\ k - 1 < BucketSize /\ (k - 1) + 1 = k
      BY <1>4, <3>3
    <3>5. n.dep[k - 1] = m.dep[k]
      BY <2>7, <2>10, <3>4
    <3>6. e \in n.hz
      BY <1>3, <2>3, <2>10 DEF Covers
    <3> QED
      BY <3>1, <3>4, <3>5, <3>6 DEF Covers
  <2>13. \A q \in Place : At(n, q) = At(v, q)
    BY <2>10 DEF At
  <2>14. \A q \in Place : At(n, q) = Gone(q) \/ (At(n, q) = At(m, q) /\ Keeps(m, n, q))
    BY <2>4, <2>12, <2>13
  <2>15. n.hz \subseteq Slot
    BY <2>10, MapFields
  <2> QED
    BY <1>3, <2>3, <2>10, <2>11, <2>14, <2>15 DEF Shrinks, Narrows
<1>9. CASE Q # {}
  <2>1. PICK k : k = Min(Q)
    OBVIOUS
  <2>2. k \in Q /\ k \in 1 .. BucketSize
    <3>1. Q \subseteq Nat
      BY <1>4, <1>5
    <3>2. Min(Q) \in Q
      BY ONLY <1>9, <3>1, LeastOf
    <3> QED
      BY <1>5, <2>1, <3>2
  <2>3. PICK t \in DepSet : t = m.dep[k]
    BY <1>7, <2>2
  <2>4. t.tag = SlotTag[s] /\ t.tab = l[1] /\ t.lo \in Nat /\ t.hi \in Nat
    BY <1>5, <2>2, <2>3 DEF DepSet
  <2>5. PICK a : a = Min({t.lo, l[2]})
    OBVIOUS
  <2>6. PICK b : b = Max({t.hi, l[2]})
    OBVIOUS
  <2>7. a \in Nat /\ a <= t.lo /\ a <= l[2]
    <3>1. {t.lo, l[2]} \subseteq Nat /\ {t.lo, l[2]} # {}
      BY <1>1, <2>4
    <3>2. Min({t.lo, l[2]}) \in {t.lo, l[2]}
          /\ \A y \in {t.lo, l[2]} : Min({t.lo, l[2]}) <= y
      BY ONLY <3>1, LeastOf
    <3> QED
      BY <2>5, <3>1, <3>2
  <2>8. b \in Nat /\ t.hi <= b /\ l[2] <= b
    BY <1>1, <2>4, <2>6, MostOfTwo
  <2>9. PICK u : u = [t EXCEPT !.lo = a, !.hi = b]
    OBVIOUS
  <2>10. u \in DepSet /\ u.tag = t.tag /\ u.tab = t.tab /\ u.lo = a /\ u.hi = b
    BY ONLY t \in DepSet, <2>7, <2>8, <2>9 DEF DepSet
  <2>11. PICK d : d = [m.dep EXCEPT ![k] = u]
    OBVIOUS
  <2>12. d \in [1 .. BucketSize -> DepSet] /\ d[k] = u
         /\ \A i \in 1 .. BucketSize : i # k => d[i] = m.dep[i]
    BY <2>2, <2>10, <2>11, MapFields
  <2>13. n = [h EXCEPT !.dep = d]
    <3>1. h.dep[k] = t /\ h.dep = m.dep
      BY <1>3, <2>3
    <3>2. n = [h EXCEPT !.dep[k] =
                 [m.dep[k] EXCEPT !.lo = Min({@, l[2]}), !.hi = Max({@, l[2]})]]
      BY <1>6, <1>9, <2>1
    <3>3. u = [m.dep[k] EXCEPT !.lo = Min({@, l[2]}), !.hi = Max({@, l[2]})]
      BY ONLY t \in DepSet, <2>3, <2>5, <2>6, <2>9 DEF DepSet
    <3> QED
      BY <2>11, <3>1, <3>2, <3>3
  <2>14. n \in MapSet /\ n.hz = h.hz /\ n.dep = d /\ n.md = m.md /\ n.flpt = m.flpt
      /\ n.pte = m.pte /\ n.ss = m.ss /\ n.cpt = m.cpt /\ n.ca = m.ca /\ n.dirty = m.dirty
    BY ONLY <1>3, <2>12, <2>13 DEF MapSet
  <2>15. Covers(n, s, l[1], l[2])
    <3>1. s \in n.hz
      BY <1>3, <2>14
    <3>2. n.dep[k] = u /\ u.tag = SlotTag[s] /\ u.tab = l[1] /\ l[2] \in u.lo .. u.hi
      BY <1>1, <2>4, <2>7, <2>8, <2>10, <2>12, <2>14
    <3> QED
      BY <2>2, <3>1, <3>2 DEF Covers
  <2>16. ASSUME NEW q \in Place PROVE Keeps(m, n, q)
    <3> SUFFICES ASSUME NEW e \in Slot, Covers(m, e, q[1], q[2])
                 PROVE  Covers(n, e, q[1], q[2])
      BY DEF Keeps
    <3>1. PICK i \in 1 .. BucketSize :
            m.dep[i].tag = SlotTag[e] /\ m.dep[i].tab = q[1]
            /\ q[2] \in m.dep[i].lo .. m.dep[i].hi
      BY DEF Covers
    <3>2. e \in n.hz
      BY <1>3, <2>14 DEF Covers
    <3>3. n.dep[i].tag = m.dep[i].tag /\ n.dep[i].tab = m.dep[i].tab
          /\ q[2] \in n.dep[i].lo .. n.dep[i].hi
      <4>1. CASE i # k
        BY <2>12, <2>14, <3>1, <4>1
      <4>2. CASE i = k
        <5>1. n.dep[i] = u /\ m.dep[i] = t
          BY <2>3, <2>12, <2>14, <4>2
        <5>2. q[2] \in Nat
          BY PlaceFacts
        <5>3. q[2] \in u.lo .. u.hi
          BY <2>4, <2>7, <2>8, <2>10, <3>1, <5>1, <5>2
        <5> QED
          BY <2>10, <5>1, <5>3
      <4> QED
        BY <4>1, <4>2
    <3> QED
      BY <3>1, <3>2, <3>3 DEF Covers
  <2>17. \A q \in Place : At(n, q) = At(m, q)
    BY <2>14 DEF At
  <2>18. n.hz \subseteq Slot
    BY <2>14, MapFields
  <2> QED
    BY <1>3, <2>14, <2>15, <2>16, <2>17, <2>18 DEF Shrinks, Narrows
<1> QED
  BY <1>8, <1>9
-----------------------------------------------------------------------------
(* What keeps the maps right: to have less of them.                          *)

Writes(t) == t.st = "valid" /\ t.w

Fades(m, n) ==
    /\ n \in MapSet /\ n.ca = m.ca /\ n.dirty = m.dirty
    /\ \A s \in Space : n.ss[s] = m.ss[s] \/ n.ss[s] = NoSpace
    /\ \A c \in Cpt : n.cpt[c] = m.cpt[c] \/ n.cpt[c] = NoTable
    /\ \A p \in Proc : n.md[p] \in Space =>
         n.md[p] = m.md[p] /\ n.ss[n.md[p]] = m.ss[m.md[p]] /\ Keeps(m, n, <<p, 0>>)
    /\ \A x \in FlptIx : Live(n.flpt[x]) =>
         /\ Live(m.flpt[x]) /\ n.flpt[x].to = m.flpt[x].to
         /\ n.ss[SpaceOf(x)] = m.ss[SpaceOf(x)]
         /\ n.cpt[n.flpt[x].to] = m.cpt[m.flpt[x].to] /\ Keeps(m, n, <<Flpt, x>>)
    /\ \A c \in Cpt, j \in PageIx :
         /\ n.cpt[c] = NoTable => n.pte[c][j] = Zapped
         /\ Live(n.pte[c][j]) =>
              /\ Live(m.pte[c][j]) /\ n.pte[c][j].to = m.pte[c][j].to
              /\ n.cpt[c] = m.cpt[c] /\ Keeps(m, n, <<c, j>>)
              /\ Writes(n.pte[c][j]) =>
                   /\ Writes(m.pte[c][j]) /\ n.pte[c][j].cached = m.pte[c][j].cached
                   /\ n.pte[c][j].blind = m.pte[c][j].blind

\* The walks that the entries of the tables stand for.
LEMMA WalkTypes ==
    ASSUME NEW m \in MapSet, NEW tr, TreeOK(tr)
    PROVE  /\ tr \in [Slot -> Key]
           /\ \A x \in FlptIx :
                /\ m.ss[SpaceOf(x)].obj \in Obj \cup {None} /\ OffsetOf(x) \in Nat
                /\ Trace(tr, m.ss[SpaceOf(x)].obj, OffsetOf(x), SectionSize) \in TraceSet
                /\ Trace(tr, m.ss[SpaceOf(x)].obj, OffsetOf(x), SectionSize).slots
                     \subseteq Slot
           /\ \A c \in Cpt, j \in PageIx :
                /\ m.cpt[c].obj \in Obj \cup {None} /\ m.cpt[c].ndx * SectionSize + j \in Nat
                /\ Trace(tr, m.cpt[c].obj, m.cpt[c].ndx * SectionSize + j, 0) \in TraceSet
                /\ Trace(tr, m.cpt[c].obj, m.cpt[c].ndx * SectionSize + j, 0).slots
                     \subseteq Slot
<1>1. tr \in [Slot -> Key] /\ SectionSize \in Nat /\ 0 \in Nat
  BY Sizes DEF TreeOK
<1>2. ASSUME NEW x \in FlptIx
      PROVE  /\ m.ss[SpaceOf(x)].obj \in Obj \cup {None} /\ OffsetOf(x) \in Nat
             /\ Trace(tr, m.ss[SpaceOf(x)].obj, OffsetOf(x), SectionSize) \in TraceSet
             /\ Trace(tr, m.ss[SpaceOf(x)].obj, OffsetOf(x), SectionSize).slots
                  \subseteq Slot
  <2>1. SpaceOf(x) \in Space /\ OffsetOf(x) \in Nat
    BY EntrySpace
  <2>2. m.ss[SpaceOf(x)] \in [obj : Gpt \cup {None}, ro : BOOLEAN]
    BY <2>1, MapFields
  <2>3. m.ss[SpaceOf(x)].obj \in Obj \cup {None}
    BY <2>2 DEF Obj
  <2>4. PICK t : t = Trace(tr, m.ss[SpaceOf(x)].obj, OffsetOf(x), SectionSize)
    OBVIOUS
  <2>5. t \in TraceSet
    BY <1>1, <2>1, <2>3, <2>4, TraceFacts
  <2>6. t.slots \subseteq Slot
    BY <2>5 DEF TraceSet
  <2> QED
    BY <2>1, <2>3, <2>4, <2>5, <2>6
<1>3. ASSUME NEW c \in Cpt, NEW j \in PageIx
      PROVE  /\ m.cpt[c].obj \in Obj \cup {None} /\ m.cpt[c].ndx * SectionSize + j \in Nat
             /\ Trace(tr, m.cpt[c].obj, m.cpt[c].ndx * SectionSize + j, 0) \in TraceSet
             /\ Trace(tr, m.cpt[c].obj, m.cpt[c].ndx * SectionSize + j, 0).slots
                  \subseteq Slot
  <2>1. m.cpt[c] \in TableSet
    BY MapFields
  <2>2. m.cpt[c].obj \in Obj \cup {None} /\ m.cpt[c].ndx \in Nat /\ j \in Nat
    BY <1>1, <2>1 DEF TableSet, Obj, PageIx
  <2>3. m.cpt[c].ndx * SectionSize \in Nat
    BY <1>1, <2>2, Multiples
  <2>4. PICK y : y = m.cpt[c].ndx * SectionSize + j
    OBVIOUS
  <2>5. y \in Nat
    BY <2>2, <2>3, <2>4
  <2>6. PICK t : t = Trace(tr, m.cpt[c].obj, y, 0)
    OBVIOUS
  <2>7. t \in TraceSet
    BY <1>1, <2>2, <2>5, <2>6, TraceFacts
  <2>8. t.slots \subseteq Slot
    BY <2>7 DEF TraceSet
  <2> QED
    BY <2>2, <2>4, <2>5, <2>6, <2>7, <2>8
<1> QED
  BY <1>1, <1>2, <1>3

LEMMA FadesOK ==
    ASSUME NEW m \in MapSet, NEW tr, TreeOK(tr), NEW co, MapOK(m, tr, co),
           NEW n, Fades(m, n)
    PROVE  MapOK(n, tr, co)
<1>0. n \in MapSet /\ n.ca = m.ca /\ n.dirty = m.dirty
  BY DEF Fades
<1>1. ASSUME NEW p \in Proc PROVE ProcOK(n, tr, p)
  <2> SUFFICES ASSUME n.md[p] \in Space
               PROVE  /\ Covers(n, <<p, 0>>, p, 0)
                      /\ n.ss[n.md[p]] = tr[<<p, 0>>] /\ tr[<<p, 0>>].obj \in Gpt
    BY DEF ProcOK
  <2>1. n.md[p] = m.md[p] /\ n.ss[n.md[p]] = m.ss[m.md[p]] /\ Keeps(m, n, <<p, 0>>)
    BY DEF Fades
  <2>2. /\ Covers(m, <<p, 0>>, p, 0)
        /\ m.ss[m.md[p]] = tr[<<p, 0>>] /\ tr[<<p, 0>>].obj \in Gpt
    BY <2>1 DEF MapOK, ProcOK
  <2>3. Covers(n, <<p, 0>>, p, 0)
    BY <2>1, <2>2, SlotFacts DEF Keeps
  <2> QED
    BY <2>1, <2>2, <2>3
<1>2. ASSUME NEW x \in FlptIx PROVE FlptOK(n, tr, x)
  <2> SUFFICES ASSUME Live(n.flpt[x]) PROVE FlptOK(n, tr, x)
    BY DEF FlptOK
  <2>1. /\ Live(m.flpt[x]) /\ n.flpt[x].to = m.flpt[x].to
        /\ n.ss[SpaceOf(x)] = m.ss[SpaceOf(x)]
        /\ n.cpt[n.flpt[x].to] = m.cpt[m.flpt[x].to] /\ Keeps(m, n, <<Flpt, x>>)
    BY DEF Fades
  <2>2. FlptOK(m, tr, x)
    BY DEF MapOK
  <2>3. PICK t : t = Trace(tr, m.ss[SpaceOf(x)].obj, OffsetOf(x), SectionSize)
    OBVIOUS
  <2>4. t.slots \subseteq Slot
    BY <2>3, WalkTypes
  <2>5. \A e \in t.slots : Covers(m, e, Flpt, x)
    BY <2>1, <2>2, <2>3 DEF FlptOK
  <2>6. \A e \in t.slots : Covers(n, e, Flpt, x)
    BY <2>1, <2>4, <2>5 DEF Keeps
  <2> QED
    BY <2>1, <2>2, <2>3, <2>6 DEF FlptOK
<1>3. ASSUME NEW c \in Cpt PROVE CptOK(n, c)
  <2>1. n.cpt[c] = m.cpt[c] \/ n.cpt[c] = NoTable
    BY DEF Fades
  <2> QED
    BY <2>1 DEF MapOK, CptOK
<1>4. ASSUME NEW c \in Cpt, NEW j \in PageIx
      PROVE  PteOK(n, tr, co, c, j) /\ CacheOK(n, c, j)
  <2>1. n.cpt[c] = NoTable => n.pte[c][j] = Zapped
    BY DEF Fades
  <2>2. CASE ~Live(n.pte[c][j])
    BY <2>1, <2>2 DEF PteOK, CacheOK
  <2>3. CASE Live(n.pte[c][j])
    <3>1. PICK t : t = m.pte[c][j]
      OBVIOUS
    <3>2. PICK u : u = n.pte[c][j]
      OBVIOUS
    <3>3. /\ Live(t) /\ u.to = t.to /\ n.cpt[c] = m.cpt[c] /\ Keeps(m, n, <<c, j>>)
          /\ Writes(u) => Writes(t) /\ u.cached = t.cached /\ u.blind = t.blind
      BY <2>3, <3>1, <3>2 DEF Fades
    <3>4. PteOK(m, tr, co, c, j) /\ CacheOK(m, c, j)
      BY DEF MapOK
    <3>5. PICK y : y = m.cpt[c].ndx * SectionSize + j
      OBVIOUS
    <3>6. PICK T : T = Trace(tr, m.cpt[c].obj, y, 0)
      OBVIOUS
    <3>7. T.slots \subseteq Slot
      BY <3>5, <3>6, WalkTypes
    <3>8. /\ Arrived(tr, m.cpt[c].obj, y, 0)
          /\ \A e \in T.slots : Covers(m, e, c, j)
          /\ T.obj = t.to /\ t.to \in Page \cap co
          /\ Writes(t) => t.to \in m.dirty
          /\ Writes(t) /\ ~t.blind => ~m.cpt[c].ro /\ ~T.ro
      BY <3>1, <3>3, <3>4, <3>5, <3>6 DEF PteOK, Writes
    <3>9. \A e \in T.slots : Covers(n, e, c, j)
      BY <3>3, <3>7, <3>8 DEF Keeps
    <3>12. /\ Arrived(tr, n.cpt[c].obj, y, 0)
           /\ \A e \in T.slots : Covers(n, e, c, j)
           /\ T.obj = u.to /\ u.to \in Page \cap co
           /\ Writes(u) => u.to \in n.dirty
           /\ Writes(u) /\ ~u.blind => ~n.cpt[c].ro /\ ~T.ro
      BY <1>0, <3>3, <3>8, <3>9
    <3>13. PteOK(n, tr, co, c, j)
      BY <2>1, <3>2, <3>3, <3>5, <3>6, <3>12 DEF PteOK, Writes
    <3>14. CacheOK(n, c, j)
      BY <1>0, <3>1, <3>2, <3>3, <3>4 DEF CacheOK, Writes
    <3> QED
      BY <3>13, <3>14
  <2> QED
    BY <2>2, <2>3
<1> QED
  BY <1>1, <1>2, <1>3, <1>4 DEF MapOK

\* Whatever is invalidated.
LEMMA ShrinksFades ==
    ASSUME NEW m \in MapSet, NEW n, Shrinks(m, n),
           \A c \in Cpt, j \in PageIx : m.cpt[c] = NoTable => m.pte[c][j] = Zapped
    PROVE  Fades(m, n)
<1>0. /\ n \in MapSet /\ n.ss = m.ss /\ n.cpt = m.cpt /\ n.ca = m.ca
      /\ n.dirty = m.dirty
  BY DEF Shrinks
<1>1. ASSUME NEW p \in Proc, n.md[p] \in Space
      PROVE  n.md[p] = m.md[p] /\ Keeps(m, n, <<p, 0>>)
  BY <1>1, PlaceFacts, EntryFacts DEF Shrinks
<1>2. ASSUME NEW x \in FlptIx, Live(n.flpt[x])
      PROVE  n.flpt[x] = m.flpt[x] /\ Keeps(m, n, <<Flpt, x>>)
  BY <1>2, PlaceFacts, EntryFacts DEF Shrinks
<1>3. ASSUME NEW c \in Cpt, NEW j \in PageIx
      PROVE  n.pte[c][j] = Zapped \/ (n.pte[c][j] = m.pte[c][j] /\ Keeps(m, n, <<c, j>>))
  BY PlaceFacts DEF Shrinks
<1>4. ASSUME NEW c \in Cpt, NEW j \in PageIx, Live(n.pte[c][j])
      PROVE  n.pte[c][j] = m.pte[c][j] /\ Keeps(m, n, <<c, j>>)
  BY <1>3, <1>4, EntryFacts
<1> QED
  BY <1>0, <1>1, <1>2, <1>3, <1>4 DEF Fades

LEMMA ShrinksOK ==
    ASSUME NEW m \in MapSet, NEW tr, TreeOK(tr), NEW co, MapOK(m, tr, co),
           NEW n, Shrinks(m, n)
    PROVE  n \in MapSet /\ MapOK(n, tr, co)
<1>1. \A c \in Cpt, j \in PageIx : m.cpt[c] = NoTable => m.pte[c][j] = Zapped
  BY DEF MapOK, PteOK
<1>2. Fades(m, n)
  BY <1>1, ShrinksFades
<1> QED
  BY <1>2, FadesOK DEF Fades
-----------------------------------------------------------------------------
(* Changes of the tree and of what is in core.                               *)

\* Slots that are not hazarded may change.
LEMMA TreeChange ==
    ASSUME NEW m \in MapSet, NEW tr, TreeOK(tr), NEW co, MapOK(m, tr, co),
           NEW ur, TreeOK(ur), \A e \in m.hz : ur[e] = tr[e]
    PROVE  MapOK(m, ur, co)
<1>1. ASSUME NEW p \in Proc PROVE ProcOK(m, ur, p)
  <2>1. ProcOK(m, tr, p)
    BY DEF MapOK
  <2> QED
    BY <2>1 DEF ProcOK, Covers
<1>2. ASSUME NEW obj \in Obj \cup {None}, NEW off \in Nat, NEW stop \in Nat,
             \A e \in Trace(tr, obj, off, stop).slots : e \in m.hz
      PROVE  /\ Trace(ur, obj, off, stop) = Trace(tr, obj, off, stop)
             /\ Arrived(tr, obj, off, stop) => Arrived(ur, obj, off, stop)
  <2>1. PICK T : T = Steps(tr, obj, off, stop)
    OBVIOUS
  <2>2. PICK U : U = Steps(ur, obj, off, stop)
    OBVIOUS
  <2>3. IsRun(T, tr, obj, off, stop) /\ IsRun(U, ur, obj, off, stop)
    BY <2>1, <2>2, StepsRun DEF TreeOK
  <2>4. \A e \in T[2 * MaxDepth].slots : ur[e] = tr[e]
    BY <1>2, <2>1 DEF Trace
  <2>5. \A n \in 0 .. 2 * MaxDepth : U[n] = T[n]
    BY ONLY <2>3, <2>4, RunSame
  <2>6. 2 * MaxDepth \in 0 .. 2 * MaxDepth /\ 0 .. MaxDepth \subseteq 0 .. 2 * MaxDepth
    BY Sizes
  <2>7. U[2 * MaxDepth] = T[2 * MaxDepth] /\ \A n \in 0 .. MaxDepth : U[n] = T[n]
    BY <2>5, <2>6
  <2>8. (\E n \in 0 .. MaxDepth : AtEnd(T[n], stop))
          => \E n \in 0 .. MaxDepth : AtEnd(U[n], stop)
    BY <2>7
  <2> QED
    BY <2>1, <2>2, <2>7, <2>8 DEF Trace, Arrived
<1>3. ASSUME NEW x \in FlptIx PROVE FlptOK(m, ur, x)
  <2> SUFFICES ASSUME Live(m.flpt[x]) PROVE FlptOK(m, ur, x)
    BY DEF FlptOK
  <2>1. FlptOK(m, tr, x)
    BY DEF MapOK
  <2>2. PICK o : o = m.ss[SpaceOf(x)].obj
    OBVIOUS
  <2>3. o \in Obj \cup {None} /\ OffsetOf(x) \in Nat /\ SectionSize \in Nat
    BY <2>2, WalkTypes, Sizes
  <2>4. \A e \in Trace(tr, o, OffsetOf(x), SectionSize).slots : e \in m.hz
    BY <2>1, <2>2 DEF FlptOK, Covers
  <2>5. /\ Trace(ur, o, OffsetOf(x), SectionSize) = Trace(tr, o, OffsetOf(x), SectionSize)
        /\ Arrived(tr, o, OffsetOf(x), SectionSize) => Arrived(ur, o, OffsetOf(x), SectionSize)
    BY <1>2, <2>3, <2>4
  <2> QED
    BY <2>1, <2>2, <2>5 DEF FlptOK
<1>4. ASSUME NEW c \in Cpt, NEW j \in PageIx PROVE PteOK(m, ur, co, c, j)
  <2>1. PteOK(m, tr, co, c, j)
    BY DEF MapOK
  <2>2. CASE ~Live(m.pte[c][j])
    BY <2>1, <2>2 DEF PteOK
  <2>3. CASE Live(m.pte[c][j])
    <3>1. PICK y : y = m.cpt[c].ndx * SectionSize + j
      OBVIOUS
    <3>2. m.cpt[c].obj \in Obj \cup {None} /\ y \in Nat /\ 0 \in Nat
      BY <3>1, WalkTypes
    <3>3. \A e \in Trace(tr, m.cpt[c].obj, y, 0).slots : e \in m.hz
      BY <2>1, <2>3, <3>1 DEF PteOK, Covers
    <3>4. /\ Trace(ur, m.cpt[c].obj, y, 0) = Trace(tr, m.cpt[c].obj, y, 0)
          /\ Arrived(tr, m.cpt[c].obj, y, 0) => Arrived(ur, m.cpt[c].obj, y, 0)
      BY <1>2, <3>2, <3>3
    <3> QED
      BY <2>1, <3>1, <3>4 DEF PteOK
  <2> QED
    BY <2>2, <2>3
<1> QED
  BY <1>1, <1>3, <1>4 DEF MapOK

\* The entries for a page are found through the slots with keys to it.
LEMMA PteSlot ==
    ASSUME NEW m \in MapSet, NEW tr, TreeOK(tr), NEW co, MapOK(m, tr, co),
           NEW c \in Cpt, NEW j \in PageIx, Live(m.pte[c][j])
    PROVE  /\ m.pte[c][j].to \in Page
           /\ \E e \in Slot : tr[e].obj = m.pte[c][j].to /\ Covers(m, e, c, j)
<1>1. PICK y : y = m.cpt[c].ndx * SectionSize + j
  OBVIOUS
<1>2. PICK T : T = Trace(tr, m.cpt[c].obj, y, 0)
  OBVIOUS
<1>3. /\ tr \in [Slot -> Key] /\ m.cpt[c].obj \in Obj \cup {None} /\ y \in Nat
      /\ T.slots \subseteq Slot /\ 0 \in Nat
  BY <1>1, <1>2, WalkTypes
<1>4. /\ \A e \in T.slots : Covers(m, e, c, j)
      /\ T.obj = m.pte[c][j].to /\ T.obj \in Page
  BY <1>1, <1>2 DEF MapOK, PteOK
<1>5. m.cpt[c].obj \in Gpt
  <2>1. m.cpt[c] # NoTable
    BY EntryFacts DEF MapOK, PteOK
  <2> QED
    BY <2>1 DEF MapOK, CptOK
<1>6. T.obj # None /\ T # Begin(m.cpt[c].obj, y)
  <2>1. Begin(m.cpt[c].obj, y).obj = m.cpt[c].obj
    BY DEF Begin
  <2> QED
    BY <1>4, <1>5, <2>1, SlotFacts
<1>7. \E e \in T.slots : tr[e].obj = T.obj
  BY <1>2, <1>3, <1>6, RunLast
<1> QED
  BY <1>3, <1>4, <1>7

\* The entries for a table are found through the slots with keys to its GPT,
\* or are those of a small space that the same GPT produces.
LEMMA FlptSlot ==
    ASSUME NEW m \in MapSet, NEW tr, TreeOK(tr), NEW co, MapOK(m, tr, co),
           NEW x \in FlptIx, Live(m.flpt[x]), NEW o, o = m.cpt[m.flpt[x].to].obj
    PROVE  \/ \E e \in Slot : tr[e].obj = o /\ Covers(m, e, Flpt, x)
           \/ m.ss[SpaceOf(x)].obj = o
<1>1. PICK g : g = m.ss[SpaceOf(x)].obj
  OBVIOUS
<1>2. PICK T : T = Trace(tr, g, OffsetOf(x), SectionSize)
  OBVIOUS
<1>3. /\ tr \in [Slot -> Key] /\ g \in Obj \cup {None} /\ OffsetOf(x) \in Nat
      /\ T.slots \subseteq Slot /\ SectionSize \in Nat
  BY <1>1, <1>2, WalkTypes, Sizes
<1>4. /\ \A e \in T.slots : Covers(m, e, Flpt, x)
      /\ T.obj \in Gpt /\ T.obj = o
  BY <1>1, <1>2 DEF MapOK, FlptOK
<1>5. T.obj # None
  BY <1>4, SlotFacts
<1>6. CASE T = Begin(g, OffsetOf(x))
  BY <1>1, <1>4, <1>6 DEF Begin
<1>7. CASE \E e \in T.slots : tr[e].obj = T.obj
  BY <1>3, <1>4, <1>7
<1> QED
  BY <1>2, <1>3, <1>5, <1>6, <1>7, RunLast

\* When a page is not mapped, it may leave, and its cacheAddr may change.
LEMMA PageLeaves ==
    ASSUME NEW m \in MapSet, NEW tr, TreeOK(tr), NEW co, MapOK(m, tr, co),
           NEW z, \A c \in Cpt, j \in PageIx : Live(m.pte[c][j]) => m.pte[c][j].to # z,
           NEW n \in MapSet, n.hz = m.hz, n.dep = m.dep, n.md = m.md, n.ss = m.ss,
           n.flpt = m.flpt, n.cpt = m.cpt, n.pte = m.pte, n.dirty = m.dirty,
           \A y \in Page : y # z => n.ca[y] = m.ca[y]
    PROVE  MapOK(n, tr, co \ {z}) /\ MapOK(n, tr, co)
<1>0. \A e, tab, ix : Covers(n, e, tab, ix) <=> Covers(m, e, tab, ix)
  BY DEF Covers
<1>1. ASSUME NEW p \in Proc PROVE ProcOK(n, tr, p)
  BY <1>0 DEF MapOK, ProcOK
<1>2. ASSUME NEW x \in FlptIx PROVE FlptOK(n, tr, x)
  <2>1. FlptOK(m, tr, x)
    BY DEF MapOK
  <2> QED
    BY <1>0, <2>1 DEF FlptOK
<1>3. ASSUME NEW c \in Cpt PROVE CptOK(n, c)
  BY DEF MapOK, CptOK
<1>4. ASSUME NEW c \in Cpt, NEW j \in PageIx
      PROVE  PteOK(n, tr, co \ {z}, c, j) /\ PteOK(n, tr, co, c, j)
  <2>1. PteOK(m, tr, co, c, j)
    BY DEF MapOK
  <2>2. Live(n.pte[c][j]) => n.pte[c][j].to # z
    OBVIOUS
  <2> QED
    BY <1>0, <2>1, <2>2 DEF PteOK
<1>5. ASSUME NEW c \in Cpt, NEW j \in PageIx PROVE CacheOK(n, c, j)
  <2>1. CacheOK(m, c, j)
    BY DEF MapOK
  <2>2. CASE ~Live(m.pte[c][j])
    BY <2>2 DEF CacheOK
  <2>3. CASE Live(m.pte[c][j])
    <3>1. m.pte[c][j].to \in Page /\ m.pte[c][j].to # z
      BY <2>3, PteSlot
    <3>2. n.ca[m.pte[c][j].to] = m.ca[m.pte[c][j].to]
      BY <3>1
    <3> QED
      BY <2>1, <3>2 DEF CacheOK
  <2> QED
    BY <2>2, <2>3
<1> QED
  BY <1>1, <1>2, <1>3, <1>4, <1>5 DEF MapOK

\* A page that nobody can write is not dirty any more, or one more is dirty.
LEMMA DirtyChange ==
    ASSUME NEW m \in MapSet, NEW tr, NEW co, MapOK(m, tr, co),
           NEW n \in MapSet, n.hz = m.hz, n.dep = m.dep, n.md = m.md, n.ss = m.ss,
           n.flpt = m.flpt, n.cpt = m.cpt, n.pte = m.pte, n.ca = m.ca,
           \A c \in Cpt, j \in PageIx :
             Writes(m.pte[c][j]) /\ m.pte[c][j].to \in m.dirty => m.pte[c][j].to \in n.dirty
    PROVE  MapOK(n, tr, co)
<1>0. \A e, tab, ix : Covers(n, e, tab, ix) <=> Covers(m, e, tab, ix)
  BY DEF Covers
<1>1. ASSUME NEW p \in Proc PROVE ProcOK(n, tr, p)
  BY <1>0 DEF MapOK, ProcOK
<1>2. ASSUME NEW x \in FlptIx PROVE FlptOK(n, tr, x)
  <2>1. FlptOK(m, tr, x)
    BY DEF MapOK
  <2> QED
    BY <1>0, <2>1 DEF FlptOK
<1>3. ASSUME NEW c \in Cpt PROVE CptOK(n, c)
  BY DEF MapOK, CptOK
<1>4. ASSUME NEW c \in Cpt, NEW j \in PageIx PROVE PteOK(n, tr, co, c, j)
  <2>1. PteOK(m, tr, co, c, j)
    BY DEF MapOK
  <2>2. Writes(m.pte[c][j]) /\ m.pte[c][j].to \in m.dirty => m.pte[c][j].to \in n.dirty
    OBVIOUS
  <2> QED
    BY <1>0, <2>1, <2>2 DEF PteOK, Writes
<1>5. ASSUME NEW c \in Cpt, NEW j \in PageIx PROVE CacheOK(n, c, j)
  <2>1. CacheOK(m, c, j)
    BY DEF MapOK
  <2> QED
    BY ONLY <2>1, n.pte = m.pte, n.cpt = m.cpt, n.ca = m.ca DEF CacheOK
<1> QED
  BY <1>1, <1>2, <1>3, <1>4, <1>5 DEF MapOK

\* More may be in core.
LEMMA CoreGrows ==
    ASSUME NEW m, NEW tr, NEW co, MapOK(m, tr, co), NEW do, co \subseteq do
    PROVE  MapOK(m, tr, do)
<1>1. ASSUME NEW c \in Cpt, NEW j \in PageIx PROVE PteOK(m, tr, do, c, j)
  <2>1. PteOK(m, tr, co, c, j)
    BY DEF MapOK
  <2> QED
    BY <2>1 DEF PteOK
<1> QED
  BY <1>1 DEF MapOK
-----------------------------------------------------------------------------
(* Releasing spaces and tables, and ageing.                                  *)

LEMMA SameDepend ==
    ASSUME NEW m, NEW n, n.hz = m.hz, n.dep = m.dep
    PROVE  \A l \in Place : Keeps(m, n, l)
BY DEF Keeps, Covers

\* ReleaseSmallSpace.
LEMMA ReleaseSpacesOK ==
    ASSUME NEW m \in MapSet, NEW tr, TreeOK(tr), NEW co, MapOK(m, tr, co),
           NEW S \in SUBSET Space, NEW n, n = ReleaseSpaces(m, S)
    PROVE  /\ n \in MapSet /\ MapOK(n, tr, co) /\ n.hz = m.hz /\ n.dep = m.dep
           /\ n.cpt = m.cpt /\ n.pte = m.pte /\ n.ca = m.ca /\ n.dirty = m.dirty
           /\ \A s \in Space : n.ss[s] = IF s \in S THEN NoSpace ELSE m.ss[s]
           /\ \A p \in Proc : n.md[p] = IF m.md[p] \in S THEN None ELSE m.md[p]
           /\ \A x \in FlptIx : n.flpt[x] = IF SpaceOf(x) \in S THEN Zapped ELSE m.flpt[x]
<1>1. PICK a : a = [p \in Proc |-> IF m.md[p] \in S THEN None ELSE m.md[p]]
  OBVIOUS
<1>2. PICK b : b = [x \in FlptIx |->
                     IF \E s \in S : x \in SectionsOf(s) THEN Zapped ELSE m.flpt[x]]
  OBVIOUS
<1>3. PICK d : d = [s \in Space |-> IF s \in S THEN NoSpace ELSE m.ss[s]]
  OBVIOUS
<1>4. a \in [Proc -> Space \cup {None, PidInProgress}]
  BY <1>1, MapFields
<1>5. b \in [FlptIx -> TableEntry(Cpt)]
  BY <1>2, MapFields, EntryFacts
<1>6. d \in [Space -> [obj : Gpt \cup {None}, ro : BOOLEAN]]
  <2>1. NoSpace \in [obj : Gpt \cup {None}, ro : BOOLEAN]
    BY DEF NoSpace
  <2> QED
    BY <1>3, <2>1, MapFields
<1>7. n = [m EXCEPT !.md = a, !.flpt = b, !.ss = d]
  BY <1>1, <1>2, <1>3 DEF ReleaseSpaces
<1>8. n \in MapSet /\ n.md = a /\ n.flpt = b /\ n.ss = d
      /\ n.hz = m.hz /\ n.dep = m.dep /\ n.pte = m.pte
      /\ n.cpt = m.cpt /\ n.ca = m.ca /\ n.dirty = m.dirty
  BY ONLY m \in MapSet, <1>4, <1>5, <1>6, <1>7 DEF MapSet
<1>9. \A x \in FlptIx : n.flpt[x] = IF SpaceOf(x) \in S THEN Zapped ELSE m.flpt[x]
  <2>1. \A x \in FlptIx : (\E s \in S : x \in SectionsOf(s)) <=> SpaceOf(x) \in S
    BY EntrySpace
  <2> QED
    BY <1>2, <1>8, <2>1
<1>10. /\ \A s \in Space : n.ss[s] = IF s \in S THEN NoSpace ELSE m.ss[s]
       /\ \A p \in Proc : n.md[p] = IF m.md[p] \in S THEN None ELSE m.md[p]
  BY <1>1, <1>3, <1>8
<1>11. \A l \in Place : Keeps(m, n, l)
  BY <1>8, SameDepend
<1>12. ASSUME NEW p \in Proc, n.md[p] \in Space
       PROVE  n.md[p] = m.md[p] /\ n.ss[n.md[p]] = m.ss[m.md[p]] /\ Keeps(m, n, <<p, 0>>)
  BY <1>10, <1>11, <1>12, EntryFacts, PlaceFacts
<1>13. ASSUME NEW x \in FlptIx, Live(n.flpt[x])
       PROVE  n.flpt[x] = m.flpt[x] /\ n.ss[SpaceOf(x)] = m.ss[SpaceOf(x)]
              /\ Keeps(m, n, <<Flpt, x>>)
  <2>1. SpaceOf(x) \notin S /\ n.flpt[x] = m.flpt[x]
    BY <1>9, <1>13, EntryFacts
  <2> QED
    BY <1>10, <1>11, <2>1, EntrySpace, PlaceFacts
<1>14. \A c \in Cpt, j \in PageIx : m.cpt[c] = NoTable => m.pte[c][j] = Zapped
  BY DEF MapOK, PteOK
<1>15. \A c \in Cpt, j \in PageIx : Keeps(m, n, <<c, j>>)
  BY <1>11, PlaceFacts
<1>16. Fades(m, n)
  BY <1>8, <1>10, <1>12, <1>13, <1>14, <1>15 DEF Fades
<1>17. MapOK(n, tr, co)
  BY <1>16, FadesOK
<1> QED
  BY <1>8, <1>9, <1>10, <1>17

SpacesHeld(m, n) == \A p \in Proc : n.md[p] \in Space => n.md[p] = m.md[p]
Unreferenced(n, C) == \A x \in FlptIx : Live(n.flpt[x]) => n.flpt[x].to \notin C
TablesOf(m, C, o) == C \in SUBSET Cpt /\ \A c \in C : m.cpt[c].obj = o
TablesGone(m, n, C, o, co) ==
    /\ n \in MapSet /\ n.hz = m.hz \ KeysTo(o) /\ n.ss = m.ss
    /\ SpacesHeld(m, n)
    /\ Unreferenced(n, C) => MapOK(n, tree, co)
    /\ \A x \in FlptIx : Live(n.flpt[x]) /\ n.flpt[x].to \in C => x \in LaterEntries(m, o)

\* Release2ndLevelMappingTable.
LEMMA ReleaseTablesOK ==
    ASSUME NEW m \in MapSet, TreeOK(tree), NEW co, MapOK(m, tree, co),
           NEW C, NEW o, TablesOf(m, C, o), NEW n, n = ReleaseTables(m, C, o)
    PROVE  TablesGone(m, n, C, o, co)
<1>0. C \in SUBSET Cpt /\ \A c \in C : m.cpt[c].obj = o
  BY DEF TablesOf
<1>1. PICK v : v = ClearHazards(m, KeysTo(o))
  OBVIOUS
<1>2. Shrinks(m, v) /\ v.hz = m.hz \ KeysTo(o)
  BY <1>1, ClearShrinks
<1>3. v \in MapSet /\ MapOK(v, tree, co)
  BY <1>2, ShrinksOK
<1>4. PICK F : F = FirstEntries(m, o)
  OBVIOUS
<1>6. PICK b : b = [x \in FlptIx |-> IF x \in F THEN Zapped ELSE v.flpt[x]]
  OBVIOUS
<1>7. PICK d : d = [c \in Cpt |-> IF c \in C THEN NoTable ELSE v.cpt[c]]
  OBVIOUS
<1>8. PICK e : e = [c \in Cpt |-> [j \in PageIx |->
                     IF c \in C THEN Zapped ELSE v.pte[c][j]]]
  OBVIOUS
<1>9. b \in [FlptIx -> TableEntry(Cpt)] /\ d \in [Cpt -> TableSet]
  BY <1>3, <1>6, <1>7, MapFields, EntryFacts
<1>10. e \in [Cpt -> [PageIx -> TableEntry(Page)]]
  BY <1>3, <1>8, MapFields, EntryFacts
<1>11. n = [v EXCEPT !.flpt = b, !.cpt = d, !.pte = e]
  <2>1. PICK u : u = ClearRefs(m, o)
    OBVIOUS
  <2>2. u = [v EXCEPT !.flpt = b]
    BY <1>1, <1>4, <1>6, <2>1 DEF ClearRefs
  <2>3. u.cpt = v.cpt /\ u.pte = v.pte
    BY ONLY <1>3, <2>2 DEF MapSet
  <2>4. n = [u EXCEPT !.cpt = d, !.pte = e]
    BY <1>7, <1>8, <2>1, <2>3 DEF ReleaseTables
  <2> QED
    BY <2>2, <2>4
<1>12. n \in MapSet /\ n.flpt = b /\ n.cpt = d /\ n.pte = e
      /\ n.hz = v.hz /\ n.dep = v.dep /\ n.ss = v.ss /\ n.md = v.md
      /\ n.ca = v.ca /\ n.dirty = v.dirty
  BY ONLY <1>3, <1>9, <1>10, <1>11 DEF MapSet
<1>13. \A l \in Place : Keeps(v, n, l)
  BY <1>12, SameDepend
<1>14. ASSUME NEW x \in FlptIx, Live(n.flpt[x])
       PROVE  /\ n.flpt[x] = v.flpt[x] /\ v.flpt[x].to \in Cpt /\ Keeps(v, n, <<Flpt, x>>)
              /\ x \notin F
  <2>1. x \notin F /\ n.flpt[x] = v.flpt[x]
    BY <1>6, <1>12, <1>14, EntryFacts
  <2>2. v.flpt[x].to \in Cpt
    BY <1>3, <1>14, <2>1 DEF MapOK, FlptOK
  <2> QED
    BY <1>13, <2>1, <2>2, PlaceFacts
<1>15. ASSUME NEW p \in Proc, n.md[p] \in Space
       PROVE  n.md[p] = v.md[p] /\ n.ss[n.md[p]] = v.ss[v.md[p]] /\ Keeps(v, n, <<p, 0>>)
  BY <1>12, <1>13, PlaceFacts
<1>16. \A c \in Cpt : n.cpt[c] = v.cpt[c] \/ n.cpt[c] = NoTable
  BY <1>7, <1>12
<1>17. ASSUME NEW c \in Cpt, NEW j \in PageIx
       PROVE  /\ n.cpt[c] = NoTable => n.pte[c][j] = Zapped
              /\ Live(n.pte[c][j]) => /\ n.pte[c][j] = v.pte[c][j] /\ n.cpt[c] = v.cpt[c]
                                      /\ Keeps(v, n, <<c, j>>)
  <2>1. v.cpt[c] = NoTable => v.pte[c][j] = Zapped
    BY <1>3 DEF MapOK, PteOK
  <2>2. n.cpt[c] = IF c \in C THEN NoTable ELSE v.cpt[c]
    BY <1>7, <1>12
  <2>3. n.pte[c][j] = IF c \in C THEN Zapped ELSE v.pte[c][j]
    BY <1>8, <1>12
  <2>4. Keeps(v, n, <<c, j>>)
    BY <1>13, PlaceFacts
  <2> QED
    BY <2>1, <2>2, <2>3, <2>4, EntryFacts
<1>18. ASSUME \A x \in FlptIx : Live(n.flpt[x]) => n.flpt[x].to \notin C
       PROVE  MapOK(n, tree, co)
  <2>1. ASSUME NEW x \in FlptIx, Live(n.flpt[x])
        PROVE  /\ n.flpt[x] = v.flpt[x] /\ n.cpt[n.flpt[x].to] = v.cpt[v.flpt[x].to]
               /\ Keeps(v, n, <<Flpt, x>>)
    BY <1>7, <1>12, <1>14, <1>18, <2>1
  <2>2. Fades(v, n)
    BY <1>12, <1>15, <1>16, <1>17, <2>1 DEF Fades
  <2> QED
    BY <1>3, <2>2, FadesOK
<1>19. ASSUME NEW x \in FlptIx, Live(n.flpt[x]), n.flpt[x].to \in C
       PROVE  x \in LaterEntries(m, o)
  <2>1. Live(v.flpt[x]) /\ v.flpt[x].to \in C
    BY <1>14, <1>19
  <2>2. v.cpt[v.flpt[x].to].obj = o /\ v.ss = m.ss
    BY <1>0, <1>2, <2>1 DEF Shrinks
  <2>3. \/ \E a \in Slot : tree[a].obj = o /\ Covers(v, a, Flpt, x)
        \/ v.ss[SpaceOf(x)].obj = o
    BY <1>3, <2>1, <2>2, FlptSlot
  <2>4. ~ \E a \in Slot : tree[a].obj = o /\ a \in v.hz
    BY <1>2 DEF KeysTo
  <2>5. m.ss[SpaceOf(x)].obj = o
    BY <2>2, <2>3, <2>4 DEF Covers
  <2>6. SpaceOf(x) \in Space /\ x \in SectionsOf(SpaceOf(x))
    BY EntrySpace
  <2>7. x \notin FirstEntries(m, o)
    BY <1>4, <1>14, <1>19
  <2> QED
    BY <2>5, <2>6, <2>7 DEF LaterEntries
<1>20. ASSUME NEW p \in Proc, n.md[p] \in Space PROVE n.md[p] = m.md[p]
  <2>1. PICK l \in Place : l = <<p, 0>>
    BY PlaceFacts
  <2>2. At(v, l) = v.md[p] /\ At(m, l) = m.md[p] /\ Gone(l) = None
    BY <2>1, PlaceFacts
  <2>3. None \notin Space
    BY ConstantsAssumption
  <2>4. At(v, l) = Gone(l) \/ At(v, l) = At(m, l)
    BY <1>2 DEF Shrinks
  <2>5. v.md[p] \in Space
    BY <1>12, <1>20
  <2> QED
    BY <1>12, <2>2, <2>3, <2>4, <2>5
<1>21. n.ss = m.ss
  BY <1>2, <1>12 DEF Shrinks
<1> QED
  BY <1>2, <1>12, <1>18, <1>19, <1>20, <1>21 DEF TablesGone, SpacesHeld, Unreferenced

\* objH_InvalidateProducts.
LEMMA ProductsOK ==
    ASSUME NEW m \in MapSet, TreeOK(tree), NEW co, MapOK(m, tree, co), NEW o,
           o \in Obj, NEW n, n = InvalidateProducts(m, o)
    PROVE  /\ n \in MapSet /\ MapOK(n, tree, co)
           /\ n.hz \subseteq m.hz /\ m.hz \ KeysTo(o) \subseteq n.hz
           /\ \A s \in Space : n.ss[s] = IF m.ss[s].obj = o THEN NoSpace ELSE m.ss[s]
<1>1. PICK S : S = {s \in Space : m.ss[s].obj = o}
  OBVIOUS
<1>2. PICK v : v = ReleaseSpaces(m, S)
  OBVIOUS
<1>3. /\ v \in MapSet /\ MapOK(v, tree, co) /\ v.hz = m.hz /\ v.cpt = m.cpt
      /\ \A s \in Space : v.ss[s] = IF s \in S THEN NoSpace ELSE m.ss[s]
  <2>1. S \in SUBSET Space
    BY <1>1
  <2> QED
    BY <1>2, <2>1, ReleaseSpacesOK
<1>31. \A s \in Space : v.ss[s] = IF m.ss[s].obj = o THEN NoSpace ELSE m.ss[s]
  BY <1>1, <1>3
<1>4. PICK C : C = {c \in Cpt : m.cpt[c].obj = o}
  OBVIOUS
<1>5. n = IF C = {} THEN v ELSE ReleaseTables(v, C, o)
  BY <1>1, <1>2, <1>4 DEF InvalidateProducts
<1>6. CASE C = {}
  BY <1>3, <1>31, <1>5, <1>6
<1>7. CASE C # {}
  <2>1. TablesOf(v, C, o)
    BY <1>3, <1>4 DEF TablesOf
  <2>2. \A s \in Space : v.ss[s].obj # o
    BY <1>31, SlotFacts DEF NoSpace
  <2>3. n = ReleaseTables(v, C, o)
    BY <1>5, <1>7
  <2>4. TablesGone(v, n, C, o, co)
    BY <1>3, <2>1, <2>3, ReleaseTablesOK
  <2>41. LaterEntries(v, o) = {}
    BY <2>2 DEF LaterEntries
  <2>42. Unreferenced(n, C)
    BY <2>4, <2>41 DEF TablesGone, Unreferenced
  <2>5. n \in MapSet /\ n.hz = v.hz \ KeysTo(o) /\ n.ss = v.ss /\ MapOK(n, tree, co)
    BY <2>4, <2>42 DEF TablesGone
  <2> QED
    BY <1>3, <1>31, <2>5
<1> QED
  BY <1>6, <1>7

\* KeyDependEntry_TrackReferenced and KeyDependEntry_TrackDirty.
LEMMA TrackOK ==
    ASSUME NEW m \in MapSet, NEW tr, TreeOK(tr), NEW co, MapOK(m, tr, co), NEW E,
           NEW how \in {"trackReferenced", "trackDirty"},
           NEW n, n = Track(m, E, how)
    PROVE  n \in MapSet /\ MapOK(n, tr, co) /\ n.hz = m.hz /\ n.ss = m.ss
<1>0. how \in Hows
  BY DEF Hows
<1>1. /\ n \in MapSet /\ n.hz = m.hz /\ n.dep = m.dep /\ n.ss = m.ss
      /\ n.cpt = m.cpt /\ n.ca = m.ca /\ n.dirty = m.dirty
      /\ \A p \in Proc :
           n.md[p] = IF HitBy(E, <<p, 0>>) THEN None ELSE m.md[p]
      /\ \A x \in FlptIx :
           n.flpt[x] = IF HitBy(E, <<Flpt, x>>) THEN Flmte(how, m.flpt[x])
                       ELSE m.flpt[x]
      /\ \A c \in Cpt, j \in PageIx :
           n.pte[c][j] = IF HitBy(E, <<c, j>>) THEN Pte(how, m.pte[c][j])
                         ELSE m.pte[c][j]
  BY <1>0, TrackFields
<1>2. \A l \in Place : Keeps(m, n, l)
  BY <1>1, SameDepend
<1>3. ASSUME NEW p \in Proc, n.md[p] \in Space
      PROVE  n.md[p] = m.md[p] /\ n.ss[n.md[p]] = m.ss[m.md[p]] /\ Keeps(m, n, <<p, 0>>)
  BY <1>1, <1>2, <1>3, EntryFacts, PlaceFacts
<1>4. ASSUME NEW S, NEW t \in TableEntry(S), NEW u,
             u = t \/ u = Referenced(t) \/ u = ReadOnly(t), Live(u)
      PROVE  Live(t) /\ u.to = t.to /\ (Writes(u) => u = t)
  BY <1>4 DEF TableEntry, Referenced, ReadOnly, Live, Writes
<1>5. ASSUME NEW x \in FlptIx, Live(n.flpt[x])
      PROVE  /\ Live(m.flpt[x]) /\ n.flpt[x].to = m.flpt[x].to
             /\ Keeps(m, n, <<Flpt, x>>)
  <2>1. m.flpt[x] \in TableEntry(Cpt)
    BY MapFields
  <2>2. n.flpt[x] = m.flpt[x] \/ n.flpt[x] = Referenced(m.flpt[x])
    BY <1>1 DEF Flmte
  <2> QED
    BY <1>2, <1>4, <1>5, <2>1, <2>2, PlaceFacts
<1>6. ASSUME NEW c \in Cpt, NEW j \in PageIx
      PROVE  /\ n.cpt[c] = NoTable => n.pte[c][j] = Zapped
             /\ Live(n.pte[c][j]) =>
                  /\ Live(m.pte[c][j]) /\ n.pte[c][j].to = m.pte[c][j].to
                  /\ n.cpt[c] = m.cpt[c] /\ Keeps(m, n, <<c, j>>)
                  /\ Writes(n.pte[c][j]) => n.pte[c][j] = m.pte[c][j]
  <2>1. m.pte[c][j] \in TableEntry(Page)
    BY MapFields
  <2>2. PICK t \in TableEntry(Page) : t = m.pte[c][j]
    BY <2>1
  <2>3. PICK u : u = n.pte[c][j]
    OBVIOUS
  <2>4. \/ u = t
        \/ u = Referenced(t) /\ how = "trackReferenced"
        \/ u = ReadOnly(t) /\ how = "trackDirty"
    BY <1>1, <2>2, <2>3 DEF Pte
  <2>5. n.cpt[c] = NoTable => t = Zapped
    BY <1>1, <2>2 DEF MapOK, PteOK
  <2>6. t = Zapped => u = Zapped
    BY <2>4, EntryFacts DEF Referenced, ReadOnly
  <2>7. Live(u) => Live(t) /\ u.to = t.to /\ (Writes(u) => u = t)
    BY <1>4, <2>4
  <2>10. Keeps(m, n, <<c, j>>)
    BY <1>2, PlaceFacts
  <2> QED
    BY <1>1, <2>2, <2>3, <2>5, <2>6, <2>7, <2>10
<1>7. Fades(m, n)
  BY <1>1, <1>3, <1>5, <1>6 DEF Fades
<1> QED
  BY <1>1, <1>7, FadesOK
-----------------------------------------------------------------------------
(* The actions that are not page faults.                                     *)

Maps == /\ TreeOK(tree) /\ core \subseteq Obj /\ map \in MapSet
        /\ MapOK(map, tree, core) /\ SpacesOK(map, tree)

LEMMA UpperFacts ==
    ASSUME NEW g \in Gpt, NEW e \in UpperSlots(g)
    PROVE  e \in Slot /\ e[1] = g
BY SlotFacts DEF UpperSlots

\* Small spaces stay right if what is beyond those that stay does.
LEMMA SpacesKept ==
    ASSUME NEW m, NEW tr, SpacesOK(m, tr), NEW n, NEW ur,
           \A s \in Space :
             \/ n.ss[s] = NoSpace
             \/ /\ n.ss[s] = m.ss[s]
                /\ m.ss[s].obj \in Gpt =>
                     \A e \in UpperSlots(m.ss[s].obj) :
                       e \in m.hz /\ tr[e] = VoidKey => e \in n.hz /\ ur[e] = VoidKey
    PROVE  SpacesOK(n, ur)
<1> SUFFICES ASSUME NEW s \in Space, n.ss[s].obj \in Gpt
             PROVE  /\ Span[n.ss[s].obj] <= SpaceSize
                    /\ \A e \in UpperSlots(n.ss[s].obj) : e \in n.hz /\ ur[e] = VoidKey
  BY DEF SpacesOK, SpaceOK
<1>1. n.ss[s] # NoSpace
  BY SlotFacts DEF NoSpace
<1>2. /\ n.ss[s] = m.ss[s]
      /\ \A e \in UpperSlots(m.ss[s].obj) :
            e \in m.hz /\ tr[e] = VoidKey => e \in n.hz /\ ur[e] = VoidKey
  BY <1>1
<1>3. /\ Span[m.ss[s].obj] <= SpaceSize
      /\ \A e \in UpperSlots(m.ss[s].obj) : e \in m.hz /\ tr[e] = VoidKey
  BY <1>2 DEF SpacesOK, SpaceOK
<1> QED
  BY <1>2, <1>3

\* The small spaces are the same, and what is void is as hazarded as before.
Clings(m, n) ==
    n.ss = m.ss /\ \A e \in m.hz : tree[e] = VoidKey => e \in n.hz

LEMMA ClingsOK ==
    ASSUME NEW m, NEW n, Clings(m, n), SpacesOK(m, tree)
    PROVE  SpacesOK(n, tree)
BY SpacesKept DEF Clings

LEMMA ClingsMore ==
    ASSUME NEW m, NEW n, NEW o, Clings(m, n), Clings(n, o)
    PROVE  Clings(m, o)
BY DEF Clings

LEMMA NarrowsClings == ASSUME NEW m, NEW n, Narrows(m, n) PROVE Clings(m, n)
BY DEF Narrows, Shrinks, Clings

LEMMA VoidKeys == ASSUME NEW o \in Obj PROVE \A e \in KeysTo(o) : tree[e] # VoidKey
BY SlotFacts DEF KeysTo, VoidKey

LEMMA InitMaps == Init => Maps
<1> SUFFICES ASSUME Init PROVE Maps
  OBVIOUS
<1>1. tree = InitTree /\ core = Obj /\ map = EmptyMap
  BY DEF Init
<1>2. TreeOK(tree)
  BY <1>1, ConstantsAssumption DEF TreeOK
<1>3. /\ map.hz = {} /\ map.dep = [k \in 1 .. BucketSize |-> NoEntry]
      /\ map.md = [p \in Proc |-> None] /\ map.ss = [s \in Space |-> NoSpace]
      /\ map.flpt = [x \in FlptIx |-> Zapped] /\ map.cpt = [c \in Cpt |-> NoTable]
      /\ map.pte = [c \in Cpt |-> [j \in PageIx |-> Zapped]]
      /\ map.ca = [x \in Page |-> CacheNone] /\ map.dirty = {}
  BY <1>1 DEF EmptyMap
<1>4. map \in MapSet
  <2>1. NoSpace \in [obj : Gpt \cup {None}, ro : BOOLEAN]
    BY DEF NoSpace
  <2>2. Zapped \in TableEntry(Cpt) /\ Zapped \in TableEntry(Page) /\ NoEntry \in DepSet
        /\ NoTable \in TableSet /\ CacheNone \in CacheSet
    BY EntryFacts
  <2>3. /\ [k \in 1 .. BucketSize |-> NoEntry] \in [1 .. BucketSize -> DepSet]
        /\ [p \in Proc |-> None] \in [Proc -> Space \cup {None, PidInProgress}]
        /\ [s \in Space |-> NoSpace] \in [Space -> [obj : Gpt \cup {None}, ro : BOOLEAN]]
        /\ [x \in FlptIx |-> Zapped] \in [FlptIx -> TableEntry(Cpt)]
        /\ [c \in Cpt |-> NoTable] \in [Cpt -> TableSet]
        /\ [c \in Cpt |-> [j \in PageIx |-> Zapped]] \in [Cpt -> [PageIx -> TableEntry(Page)]]
        /\ [x \in Page |-> CacheNone] \in [Page -> CacheSet]
    BY <2>1, <2>2
  <2> QED
    BY <1>1, <2>3 DEF EmptyMap, MapSet
<1>5. /\ \A p \in Proc : map.md[p] \notin Space
      /\ \A x \in FlptIx : ~Live(map.flpt[x])
      /\ \A c \in Cpt : map.cpt[c] = NoTable
      /\ \A c \in Cpt, j \in PageIx : map.pte[c][j] = Zapped
      /\ \A s \in Space : map.ss[s] = NoSpace
  BY <1>3, EntryFacts
<1>6. MapOK(map, tree, core)
  <2>1. \A p \in Proc : ProcOK(map, tree, p)
    BY <1>5 DEF ProcOK
  <2>2. \A x \in FlptIx : FlptOK(map, tree, x)
    BY <1>5 DEF FlptOK
  <2>3. \A c \in Cpt : CptOK(map, c)
    BY <1>5 DEF CptOK
  <2>4. \A c \in Cpt, j \in PageIx : PteOK(map, tree, core, c, j) /\ CacheOK(map, c, j)
    <3>1. ~Live(Zapped)
      BY EntryFacts
    <3> QED
      BY ONLY <1>5, <3>1 DEF PteOK, CacheOK
  <2> QED
    BY <2>1, <2>2, <2>3, <2>4 DEF MapOK
<1>7. SpacesOK(map, tree)
  BY <1>5, SlotFacts DEF SpacesOK, SpaceOK, NoSpace
<1> QED
  BY <1>1, <1>2, <1>4, <1>6, <1>7 DEF Maps

LEMMA SetSlotMaps ==
    ASSUME Maps, NEW s \in Slot, NEW k \in KeysOf[s], SetSlot(s, k)
    PROVE  Maps'
<1>0. PICK S : S = OutgrownSpaces(s)
  OBVIOUS
<1>1. PICK n : n = ClearHazards(map, {s})
  OBVIOUS
<1>2. tree' = [tree EXCEPT ![s] = k] /\ map' = ReleaseSpaces(n, S) /\ core' = core
  BY <1>0, <1>1 DEF SetSlot
<1>3. Shrinks(map, n) /\ n.hz = map.hz \ {s}
  BY <1>1, ClearShrinks DEF Maps
<1>4. n \in MapSet /\ MapOK(n, tree, core) /\ n.ss = map.ss
  BY <1>3, ShrinksOK DEF Maps, Shrinks
<1>5. S \in SUBSET Space
  BY <1>0 DEF OutgrownSpaces
<1>6. /\ map' \in MapSet /\ MapOK(map', tree, core) /\ map'.hz = n.hz
      /\ \A q \in Space : map'.ss[q] = IF q \in S THEN NoSpace ELSE n.ss[q]
  BY <1>2, <1>4, <1>5, ReleaseSpacesOK DEF Maps
<1>7. TreeOK(tree')
  <2>1. k \in Key
    BY ConstantsAssumption
  <2> QED
    BY <1>2, <2>1 DEF Maps, TreeOK
<1>8. \A e \in map'.hz : tree'[e] = tree[e]
  BY <1>2, <1>3, <1>6, MapFields DEF Maps, TreeOK
<1>9. MapOK(map', tree', core)
  BY <1>6, <1>7, <1>8, TreeChange DEF Maps
<1>10. ASSUME NEW q \in Space, map'.ss[q] # NoSpace, map.ss[q].obj \in Gpt,
              NEW e \in UpperSlots(map.ss[q].obj), e \in map.hz, tree[e] = VoidKey
       PROVE  e \in map'.hz /\ tree'[e] = VoidKey
  <2>1. q \notin S
    BY <1>6, <1>10
  <2>2. e \in Slot /\ e[1] = map.ss[q].obj
    BY <1>10, UpperFacts
  <2>3. e # s
    BY <1>0, <1>10, <2>1, <2>2 DEF OutgrownSpaces
  <2>4. e \in map'.hz
    BY <1>3, <1>6, <1>10, <2>3
  <2> QED
    BY <1>8, <1>10, <2>4
<1>11. \A q \in Space : map'.ss[q] = NoSpace \/ map'.ss[q] = map.ss[q]
  BY <1>4, <1>6
<1>12. SpacesOK(map', tree')
  BY <1>10, <1>11, SpacesKept DEF Maps
<1> QED
  BY <1>2, <1>6, <1>7, <1>9, <1>12 DEF Maps

LEMMA RescindMaps ==
    ASSUME Maps, NEW o \in Obj, Rescind(o)
    PROVE  Maps'
<1>1. PICK own : own = {s \in Slot : s[1] = o}
  OBVIOUS
<1>2. PICK n : n = ClearHazards(map, KeysTo(o))
  OBVIOUS
<1>3. PICK v : v = ClearHazards(n, own)
  OBVIOUS
<1>4. /\ tree' = [s \in Slot |-> IF s \in own \cup KeysTo(o) THEN VoidKey ELSE tree[s]]
      /\ map' = InvalidateProducts(v, o) /\ core' = core
  BY <1>1, <1>2, <1>3 DEF Rescind
<1>5. n \in MapSet /\ MapOK(n, tree, core) /\ n.hz = map.hz \ KeysTo(o) /\ n.ss = map.ss
  BY <1>2, ClearShrinks, ShrinksOK DEF Maps, Shrinks
<1>6. v \in MapSet /\ MapOK(v, tree, core) /\ v.hz = n.hz \ own /\ v.ss = map.ss
  BY <1>3, <1>5, ClearShrinks, ShrinksOK DEF Maps, Shrinks
<1>7. /\ map' \in MapSet /\ MapOK(map', tree, core)
      /\ map'.hz \subseteq v.hz /\ v.hz \ KeysTo(o) \subseteq map'.hz
      /\ \A s \in Space : map'.ss[s] = IF map.ss[s].obj = o THEN NoSpace ELSE map.ss[s]
  <2>1. /\ map' \in MapSet /\ MapOK(map', tree, core)
        /\ map'.hz \subseteq v.hz /\ v.hz \ KeysTo(o) \subseteq map'.hz
        /\ \A s \in Space : map'.ss[s] = IF v.ss[s].obj = o THEN NoSpace ELSE v.ss[s]
    BY <1>4, <1>6, ProductsOK DEF Maps
  <2> QED
    BY <1>6, <2>1
<1>8. TreeOK(tree')
  <2>1. VoidKey \in Key
    BY DEF VoidKey, Key
  <2> QED
    BY <1>4, <2>1 DEF Maps, TreeOK
<1>9. \A e \in map'.hz : tree'[e] = tree[e]
  BY <1>4, <1>5, <1>6, <1>7, MapFields
<1>10. MapOK(map', tree', core)
  BY <1>7, <1>8, <1>9, TreeChange DEF Maps
<1>11. ASSUME NEW s \in Space, map'.ss[s] # NoSpace, map.ss[s].obj \in Gpt,
              NEW e \in UpperSlots(map.ss[s].obj), e \in map.hz, tree[e] = VoidKey
       PROVE  e \in map'.hz /\ tree'[e] = VoidKey
  <2>1. map.ss[s].obj # o
    BY <1>7, <1>11
  <2>2. e \in Slot /\ e[1] = map.ss[s].obj
    BY <1>11, UpperFacts
  <2>3. e \notin own /\ e \notin KeysTo(o)
    BY <1>1, <1>11, <2>1, <2>2, VoidKeys
  <2>4. e \in map'.hz
    BY <1>5, <1>6, <1>7, <1>11, <2>3
  <2> QED
    BY <1>9, <1>11, <2>4
<1>12. \A s \in Space : map'.ss[s] = NoSpace \/ map'.ss[s] = map.ss[s]
  BY <1>7
<1>13. SpacesOK(map', tree')
  BY <1>11, <1>12, SpacesKept DEF Maps
<1> QED
  BY <1>4, <1>7, <1>8, <1>10, <1>13 DEF Maps

\* When the keys to a page are not hazarded it is not mapped.
LEMMA Unreached ==
    ASSUME NEW m \in MapSet, NEW tr, TreeOK(tr), NEW co, MapOK(m, tr, co), NEW z,
           \A e \in Slot : tr[e].obj = z => e \notin m.hz
    PROVE  \A c \in Cpt, j \in PageIx : Live(m.pte[c][j]) => m.pte[c][j].to # z
<1> SUFFICES ASSUME NEW c \in Cpt, NEW j \in PageIx, Live(m.pte[c][j]),
                    m.pte[c][j].to = z
             PROVE  FALSE
  OBVIOUS
<1>1. PICK e \in Slot : tr[e].obj = z /\ Covers(m, e, c, j)
  BY PteSlot
<1> QED
  BY <1>1 DEF Covers

LEMMA EvictMaps ==
    ASSUME Maps, NEW o \in Obj, Evict(o)
    PROVE  Maps'
<1>1. PICK own : own = {s \in Slot : s[1] = o}
  OBVIOUS
<1>2. PICK v : v = ClearHazards(map, own)
  OBVIOUS
<1>3. PICK n : n = InvalidateProducts(v, o)
  OBVIOUS
<1>4. PICK u : u = ClearHazards(n, KeysTo(o))
  OBVIOUS
<1>5. PICK a : a = [x \in Page |-> IF x = o THEN CacheNone ELSE u.ca[x]]
  OBVIOUS
<1>6. map' = [u EXCEPT !.ca = a] /\ core' = core \ {o} /\ tree' = tree
  BY <1>1, <1>2, <1>3, <1>4, <1>5 DEF Evict
<1>7. v \in MapSet /\ MapOK(v, tree, core) /\ v.hz = map.hz \ own /\ v.ss = map.ss
  BY <1>2, ClearShrinks, ShrinksOK DEF Maps, Shrinks
<1>8. /\ n \in MapSet /\ MapOK(n, tree, core) /\ v.hz \ KeysTo(o) \subseteq n.hz
      /\ \A s \in Space : n.ss[s] = IF v.ss[s].obj = o THEN NoSpace ELSE v.ss[s]
  BY <1>3, <1>7, ProductsOK DEF Maps
<1>9. u \in MapSet /\ MapOK(u, tree, core) /\ u.hz = n.hz \ KeysTo(o) /\ u.ss = n.ss
  BY <1>4, <1>8, ClearShrinks, ShrinksOK DEF Maps, Shrinks
<1>10. \A c \in Cpt, j \in PageIx : Live(u.pte[c][j]) => u.pte[c][j].to # o
  <2>1. \A e \in Slot : tree[e].obj = o => e \notin u.hz
    BY <1>9 DEF KeysTo
  <2> QED
    BY <1>9, <2>1, Unreached DEF Maps
<1>11. a \in [Page -> CacheSet]
  BY <1>5, <1>9, MapFields, EntryFacts
<1>12. /\ map' \in MapSet /\ map'.hz = u.hz /\ map'.dep = u.dep /\ map'.md = u.md
       /\ map'.ss = u.ss /\ map'.flpt = u.flpt /\ map'.cpt = u.cpt /\ map'.pte = u.pte
       /\ map'.dirty = u.dirty /\ map'.ca = a
  BY ONLY <1>6, <1>9, <1>11 DEF MapSet
<1>13. \A y \in Page : y # o => map'.ca[y] = u.ca[y]
  BY <1>5, <1>12
<1>14. MapOK(map', tree, core \ {o})
  BY <1>9, <1>10, <1>12, <1>13, PageLeaves DEF Maps
<1>15. \A s \in Space : map'.ss[s] = IF map.ss[s].obj = o THEN NoSpace ELSE map.ss[s]
  BY <1>7, <1>8, <1>9, <1>12
<1>16. ASSUME NEW s \in Space, map'.ss[s] # NoSpace, map.ss[s].obj \in Gpt,
              NEW e \in UpperSlots(map.ss[s].obj), e \in map.hz, tree[e] = VoidKey
       PROVE  e \in map'.hz
  <2>1. map.ss[s].obj # o
    BY <1>15, <1>16
  <2>2. e \in Slot /\ e[1] = map.ss[s].obj
    BY <1>16, UpperFacts
  <2>3. e \notin own /\ e \notin KeysTo(o)
    BY <1>1, <1>16, <2>1, <2>2, VoidKeys
  <2> QED
    BY <1>7, <1>8, <1>9, <1>12, <1>16, <2>3
<1>17. SpacesOK(map', tree)
  BY <1>15, <1>16, SpacesKept DEF Maps
<1> QED
  BY <1>6, <1>12, <1>14, <1>17 DEF Maps

LEMMA FetchMaps ==
    ASSUME Maps, NEW o \in Obj, Fetch(o)
    PROVE  Maps'
<1>1. core' = core \cup {o} /\ tree' = tree /\ map' = map
  BY DEF Fetch
<1>2. MapOK(map, tree, core \cup {o})
  BY CoreGrows DEF Maps
<1> QED
  BY <1>1, <1>2 DEF Maps

LEMMA CleanPageMaps ==
    ASSUME Maps, NEW z \in Page, CleanPage(z)
    PROVE  Maps'
<1>1. PICK E : E = {map.dep[k] : k \in EntriesOf(map, KeysTo(z) \cap map.hz)}
  OBVIOUS
<1>2. PICK v : v = Track(map, E, "trackDirty")
  OBVIOUS
<1>3. map' = [v EXCEPT !.dirty = v.dirty \ {z}] /\ core' = core /\ tree' = tree
  BY <1>1, <1>2 DEF CleanPage, Visit
<1>4. v \in MapSet /\ MapOK(v, tree, core) /\ v.hz = map.hz /\ v.ss = map.ss
  BY <1>2, TrackOK DEF Maps
<1>5. \A c \in Cpt, j \in PageIx :
        v.pte[c][j] = IF HitBy(E, <<c, j>>) THEN Pte("trackDirty", map.pte[c][j])
                      ELSE map.pte[c][j]
  <2>1. Tracked(map, v, E, "trackDirty")
    BY <1>2, TrackPtes DEF Maps, Hows
  <2> QED
    BY <2>1 DEF Tracked
<1>6. ASSUME NEW c \in Cpt, NEW j \in PageIx, Writes(v.pte[c][j])
      PROVE  v.pte[c][j].to # z
  <2>1. map.pte[c][j] \in TableEntry(Page)
    BY MapFields DEF Maps
  <2>2. ~Writes(ReadOnly(map.pte[c][j]))
    BY <2>1 DEF ReadOnly, Writes, TableEntry
  <2>3. ~HitBy(E, <<c, j>>) /\ v.pte[c][j] = map.pte[c][j]
    BY <1>5, <1>6, <2>2 DEF Pte
  <2>4. Live(map.pte[c][j])
    BY <1>6, <2>3 DEF Writes, Live
  <2>5. PICK e \in Slot : tree[e].obj = map.pte[c][j].to /\ Covers(map, e, c, j)
    BY <2>4, PteSlot DEF Maps
  <2>6. PICK k \in 1 .. BucketSize :
          map.dep[k].tag = SlotTag[e] /\ map.dep[k].tab = c
          /\ j \in map.dep[k].lo .. map.dep[k].hi
    BY <2>5 DEF Covers
  <2>7. map.dep[k] # NoEntry
    <3>1. c # None
      BY ConstantsAssumption
    <3> QED
      BY <2>6, <3>1, EntryFacts
  <2>8. k \notin EntriesOf(map, KeysTo(z) \cap map.hz)
    BY <1>1, <2>3, <2>6 DEF HitBy
  <2>9. e \notin KeysTo(z) \cap map.hz
    BY <2>6, <2>7, <2>8 DEF EntriesOf
  <2> QED
    BY <2>3, <2>5, <2>9 DEF KeysTo, Covers
<1>7. /\ map' \in MapSet /\ map'.hz = v.hz /\ map'.dep = v.dep /\ map'.md = v.md
      /\ map'.ss = v.ss /\ map'.flpt = v.flpt /\ map'.cpt = v.cpt /\ map'.pte = v.pte
      /\ map'.ca = v.ca /\ map'.dirty = v.dirty \ {z}
  <2>1. v.dirty \ {z} \in SUBSET Page
    BY <1>4, MapFields
  <2> QED
    BY ONLY <1>3, <1>4, <2>1 DEF MapSet
<1>8. MapOK(map', tree, core)
  BY <1>4, <1>6, <1>7, DirtyChange
<1>9. SpacesOK(map', tree)
  BY <1>4, <1>7, ClingsOK DEF Maps, Clings
<1> QED
  BY <1>3, <1>7, <1>8, <1>9 DEF Maps

LEMMA AgeObjectMaps ==
    ASSUME Maps, NEW o \in Obj, AgeObject(o)
    PROVE  Maps'
<1>1. PICK E : E = {map.dep[k] : k \in EntriesOf(map, KeysTo(o) \cap map.hz)}
  OBVIOUS
<1>2. map' = Track(map, E, "trackReferenced") /\ core' = core /\ tree' = tree
  BY <1>1 DEF AgeObject, Visit
<1>3. map' \in MapSet /\ MapOK(map', tree, core) /\ map'.hz = map.hz /\ map'.ss = map.ss
  BY <1>2, TrackOK DEF Maps
<1>4. SpacesOK(map', tree)
  BY <1>3, ClingsOK DEF Maps, Clings
<1> QED
  BY <1>2, <1>3, <1>4 DEF Maps

LEMMA AgeTableMaps ==
    ASSUME Maps, NEW c \in Cpt, AgeTable(c)
    PROVE  Maps'
<1>1. PICK o : o = map.cpt[c].obj
  OBVIOUS
<1>2. PICK E : E = {map.dep[k] : k \in EntriesOf(map, KeysTo(o) \cap map.hz)}
  OBVIOUS
<1>3. PICK v : v = Track(map, E, "trackReferenced")
  OBVIOUS
<1>4. PICK b : b = [x \in FlptIx |-> IF x \in FirstEntries(map, o)
                                   THEN Referenced(v.flpt[x]) ELSE v.flpt[x]]
  OBVIOUS
<1>5. map' = [v EXCEPT !.flpt = b] /\ core' = core /\ tree' = tree
  BY <1>1, <1>2, <1>3, <1>4 DEF AgeTable, Visit
<1>7. v \in MapSet /\ MapOK(v, tree, core) /\ v.hz = map.hz /\ v.ss = map.ss
  BY <1>3, TrackOK DEF Maps
<1>8. b \in [FlptIx -> TableEntry(Cpt)]
  <2>1. ASSUME NEW x \in FlptIx
        PROVE  v.flpt[x] \in TableEntry(Cpt) /\ Referenced(v.flpt[x]) \in TableEntry(Cpt)
    <3>1. v.flpt[x] \in TableEntry(Cpt)
      BY <1>7, MapFields
    <3> QED
      BY <3>1 DEF Referenced, TableEntry
  <2> QED
    BY <1>4, <2>1
<1>9. /\ map' \in MapSet /\ map'.hz = v.hz /\ map'.dep = v.dep /\ map'.md = v.md
      /\ map'.ss = v.ss /\ map'.flpt = b /\ map'.cpt = v.cpt /\ map'.pte = v.pte
      /\ map'.ca = v.ca /\ map'.dirty = v.dirty
  BY ONLY <1>5, <1>7, <1>8 DEF MapSet
<1>10. \A l \in Place : Keeps(v, map', l)
  BY <1>9, SameDepend
<1>11. ASSUME NEW x \in FlptIx, Live(map'.flpt[x])
       PROVE  Live(v.flpt[x]) /\ map'.flpt[x].to = v.flpt[x].to
  <2>1. v.flpt[x] \in TableEntry(Cpt)
    BY <1>7, MapFields
  <2>2. map'.flpt[x] = v.flpt[x] \/ map'.flpt[x] = Referenced(v.flpt[x])
    BY <1>4, <1>9
  <2> QED
    BY <1>11, <2>1, <2>2 DEF Referenced, TableEntry, Live
<1>12. \A d \in Cpt, j \in PageIx : v.cpt[d] = NoTable => v.pte[d][j] = Zapped
  BY <1>7 DEF MapOK, PteOK
<1>13. /\ \A p \in Proc : Keeps(v, map', <<p, 0>>)
       /\ \A x \in FlptIx : Keeps(v, map', <<Flpt, x>>)
       /\ \A d \in Cpt, j \in PageIx : Keeps(v, map', <<d, j>>)
  BY <1>10, PlaceFacts
<1>14. Fades(v, map')
  BY <1>9, <1>11, <1>12, <1>13 DEF Fades
<1>15. MapOK(map', tree, core)
  BY <1>7, <1>14, FadesOK DEF Maps
<1>16. SpacesOK(map', tree)
  BY <1>7, <1>9, ClingsOK DEF Maps, Clings
<1> QED
  BY <1>5, <1>9, <1>15, <1>16 DEF Maps

\* Release2ndLevelMappingTable by the ager, which may miss a reference.
LEMMA StealTableMaps ==
    ASSUME Maps, NEW c \in Cpt, StealTable(c)
    PROVE  /\ tree' = tree /\ core' = core /\ missed' \in BOOLEAN /\ map' \in MapSet
           /\ \A p \in Proc : ProcSpace(map', tree, p)
           /\ SpacesOK(map', tree) /\ (~missed' => MapOK(map', tree, core))
<1>1. PICK o : o = map.cpt[c].obj
  OBVIOUS
<1>2. /\ map' = ReleaseTables(map, {c}, o) /\ core' = core /\ tree' = tree
      /\ missed' = \E x \in LaterEntries(map, o) : Live(map'.flpt[x]) /\ map'.flpt[x].to = c
  BY <1>1 DEF StealTable, Live
<1>3. TablesOf(map, {c}, o)
  BY <1>1 DEF TablesOf
<1>31. map \in MapSet /\ TreeOK(tree) /\ MapOK(map, tree, core)
  BY DEF Maps
<1>4. /\ map' \in MapSet /\ map'.hz = map.hz \ KeysTo(o) /\ map'.ss = map.ss
      /\ SpacesHeld(map, map') /\ (Unreferenced(map', {c}) => MapOK(map', tree, core))
      /\ \A x \in FlptIx : Live(map'.flpt[x]) /\ map'.flpt[x].to \in {c}
                            => x \in LaterEntries(map, o)
  <2>1. TablesGone(map, map', {c}, o, core)
    BY <1>2, <1>3, <1>31, ReleaseTablesOK
  <2> QED
    BY <2>1 DEF TablesGone
<1>5. ASSUME NEW p \in Proc PROVE ProcSpace(map', tree, p)
  <2>1. ProcOK(map, tree, p)
    BY DEF Maps, MapOK
  <2> QED
    BY <1>4, <2>1 DEF ProcOK, ProcSpace, SpacesHeld
<1>6. o \in Obj
  <2>1. map.cpt[c] # NoTable
    BY DEF StealTable
  <2> QED
    BY <1>1, <2>1 DEF Maps, MapOK, CptOK, Obj
<1>7. SpacesOK(map', tree)
  BY <1>4, <1>6, VoidKeys, ClingsOK DEF Maps, Clings
<1>8. ~missed' => Unreferenced(map', {c})
  BY <1>2, <1>4 DEF Unreferenced
<1>9. missed' \in BOOLEAN
  BY <1>2, Zenon
<1> QED
  BY <1>2, <1>4, <1>5, <1>7, <1>8, <1>9
-----------------------------------------------------------------------------
(* The walk of a page fault.                                                 *)

WalkSet == [m : MapSet, obj : Obj \cup {None}, off : Nat, ro : BOOLEAN, count : Nat,
            res : {"walk", "ok", "fault", "yield", "fatal"}]

LEMMA EndedFields ==
    ASSUME NEW w \in WalkSet, NEW how \in {"walk", "ok", "fault", "yield", "fatal"}
    PROVE  /\ Ended(w, how) \in WalkSet /\ Ended(w, how).res = how
           /\ Ended(w, how).m = w.m /\ Ended(w, how).obj = w.obj
           /\ Ended(w, how).off = w.off /\ Ended(w, how).ro = w.ro
BY DEF Ended, WalkSet

\* processKey and Depend_AddKey.
LEMMA KeyStep ==
    ASSUME TreeOK(tree), core \subseteq Obj, NEW w \in WalkSet, w.res = "walk",
           NEW s \in Slot, NEW off \in Nat, NEW write \in BOOLEAN, NEW l \in Place,
           NEW k, k = ProcessKey(w, s, off, write, l[1], l[2])
    PROVE  /\ k \in WalkSet /\ Narrows(w.m, k.m) /\ k.res # "ok"
           /\ k.res = "walk" =>
                /\ k.obj = tree[s].obj /\ k.obj \in core /\ k.off = off
                /\ k.ro = (w.ro \/ tree[s].ro) /\ ~(k.ro /\ write)
                /\ Covers(k.m, s, l[1], l[2])
<1>1. PICK ro : ro = (w.ro \/ tree[s].ro)
  OBVIOUS
<1>2. w.m \in MapSet /\ w.ro \in BOOLEAN
  BY DEF WalkSet
<1>3. tree[s] \in Key
  BY DEF TreeOK
<1>4. tree[s].obj \in Obj \cup {None} /\ tree[s].ro \in BOOLEAN
  BY <1>3 DEF Key
<1>5. ro \in BOOLEAN
  BY <1>1, <1>2, <1>4
<1>6. Narrows(w.m, w.m)
  BY <1>2, NarrowsSame
<1>7. CASE k = Ended(w, "fault") \/ k = Ended(w, "yield")
  BY <1>6, <1>7, EndedFields
<1>8. CASE ~(tree[s] = VoidKey) /\ tree[s].obj \in core /\ ~(ro /\ write)
  <2>1. PICK a : a = AddKey(w.m, s, l[1], l[2])
    OBVIOUS
  <2>2. Narrows(w.m, a) /\ Covers(a, s, l[1], l[2])
    BY <1>2, <2>1, AddKeyShrinks
  <2>3. a \in MapSet
    BY <2>2 DEF Narrows, Shrinks
  <2>4. k = [w EXCEPT !.obj = tree[s].obj, !.off = off, !.ro = ro, !.m = a]
    BY <1>1, <1>8, <2>1 DEF ProcessKey
  <2>5. k \in WalkSet /\ k.obj = tree[s].obj /\ k.off = off /\ k.ro = ro /\ k.m = a
        /\ k.res = w.res
    BY ONLY w \in WalkSet, off \in Nat, <1>4, <1>5, <2>3, <2>4 DEF WalkSet
  <2> QED
    BY <1>1, <1>8, <2>2, <2>5
<1>9. CASE ~(~(tree[s] = VoidKey) /\ tree[s].obj \in core /\ ~(ro /\ write))
  <2>1. k = Ended(w, "fault") \/ k = Ended(w, "yield")
    <3>1. CASE tree[s] = VoidKey
      <4>1. tree[s].obj \notin core
        BY <3>1, SlotFacts DEF VoidKey
      <4> QED
        BY <3>1, <4>1 DEF ProcessKey
    <3>2. CASE tree[s] # VoidKey /\ tree[s].obj \notin core
      BY <3>2 DEF ProcessKey
    <3>3. CASE tree[s] # VoidKey /\ tree[s].obj \in core /\ ro /\ write
      BY <1>1, <3>3 DEF ProcessKey
    <3> QED
      BY <1>9, <3>1, <3>2, <3>3
  <2> QED
    BY <1>7, <2>1
<1> QED
  BY <1>8, <1>9

\* v has got to where t is in the tree, from a walk that began read-only (ro).
Follows(v, t, ro, write, l) ==
    /\ v.obj = t.obj /\ v.off = t.off /\ v.ro = (ro \/ t.ro)
    /\ At(v.m, l) = Gone(l) \/ \A e \in t.slots : Covers(v.m, e, l[1], l[2])
    /\ t.slots # {} => t.obj \in core /\ ~(v.ro /\ write)

LEMMA FollowStep ==
    ASSUME TreeOK(tree), core \subseteq Obj, NEW v \in WalkSet, v.obj \in Obj,
           v.res = "walk", NEW stop \in Nat, NEW write \in BOOLEAN, NEW l \in Place,
           NEW ro \in BOOLEAN, NEW t \in TraceSet, Follows(v, t, ro, write, l),
           NEW n, n = WalkStep(v, stop, write, l[1], l[2])
    PROVE  /\ n \in WalkSet /\ Narrows(v.m, n.m)
           /\ n.res = "walk" => /\ Follows(n, TraceStep(tree, t, stop), ro, write, l)
                                /\ n.obj \in Obj
           /\ n.res = "ok" => /\ Follows(n, t, ro, write, l) /\ AtEnd(t, stop)
                              /\ n.obj \in Page => n.off = 0
<1>0. v.m \in MapSet /\ v.off \in Nat /\ v.count \in Nat
  BY DEF WalkSet
<1>1. Narrows(v.m, v.m)
  BY <1>0, NarrowsSame
<1>2. v.obj = t.obj /\ v.off = t.off /\ v.ro = (ro \/ t.ro)
  BY DEF Follows
<1>3. CASE n = Ended(v, "fault")
  BY <1>1, <1>3, EndedFields
<1>4. CASE /\ n = Ended(v, "ok") /\ AtEnd(t, stop) /\ (v.obj \in Page => v.off = 0)
  <2>1. /\ n \in WalkSet /\ n.res = "ok" /\ n.m = v.m /\ n.obj = v.obj /\ n.off = v.off
        /\ n.ro = v.ro
    BY <1>4, EndedFields
  <2>2. Follows(n, t, ro, write, l)
    BY <2>1 DEF Follows
  <2> QED
    BY <1>1, <1>4, <2>1, <2>2
<1>5. CASE v.obj \in Page
  <2>1. n = Ended(v, IF v.off = 0 THEN "ok" ELSE "fault")
    BY <1>5, SlotFacts DEF WalkStep
  <2>2. AtEnd(t, stop)
    BY <1>2, <1>5 DEF AtEnd
  <2>3. CASE v.off = 0
    <3>1. n = Ended(v, "ok")
      BY <2>1, <2>3
    <3> QED
      BY <1>4, <2>2, <2>3, <3>1, Zenon
  <2>4. CASE v.off # 0
    <3>1. n = Ended(v, "fault")
      BY <2>1, <2>4
    <3> QED
      BY <1>3, <3>1, Zenon
  <2> QED
    BY <2>3, <2>4
<1>6. CASE v.obj \in Gpt /\ Span[v.obj] < stop
  <2>1. n = Ended(v, "ok")
    <3>1. v.obj \notin Page /\ ~(Span[v.obj] >= stop)
      BY <1>6, SlotFacts, Sizes
    <3> QED
      BY <1>6, <3>1 DEF WalkStep
  <2>2. AtEnd(t, stop) /\ v.obj \notin Page
    BY <1>2, <1>6, SlotFacts DEF AtEnd
  <2> QED
    BY <1>4, <2>1, <2>2, Zenon
<1>7. PICK span : span = Span[v.obj]
  OBVIOUS
<1>8. PICK ndx : ndx = v.off \div span
  OBVIOUS
<1>9. CASE v.obj \in Gpt /\ span >= stop /\ (v.count + 1 >= MaxDepth \/ ndx \notin SlotIx)
  <2>1. n = Ended(v, "fault")
    <3>1. v.obj \notin Page /\ ~(span < stop)
      BY <1>7, <1>9, SlotFacts, Sizes
    <3> QED
      BY <1>7, <1>8, <1>9, <3>1 DEF WalkStep
  <2> QED
    BY <1>3, <2>1
<1>10. CASE v.obj \in Gpt /\ span >= stop
            /\ ~(v.count + 1 >= MaxDepth \/ ndx \notin SlotIx)
  <2>1. PICK c : c = [v EXCEPT !.count = v.count + 1]
    OBVIOUS
  <2>2. c \in WalkSet /\ c.m = v.m /\ c.ro = v.ro /\ c.res = v.res
    BY <1>0, <2>1 DEF WalkSet
  <2>3. PICK s : s = <<v.obj, ndx>>
    OBVIOUS
  <2>4. s \in Slot
    BY <1>10, <2>3, SlotFacts
  <2>5. v.off % span \in Nat
    <3>1. span \in Nat \ {0}
      BY <1>7, <1>10, Sizes
    <3>2. v.off % span \in 0 .. span - 1
      BY <1>0, <3>1, Division
    <3> QED
      BY <3>1, <3>2
  <2>6. ~(span < stop)
    BY <1>7, <1>10, Sizes
  <2>7. n = ProcessKey(c, s, v.off % span, write, l[1], l[2])
    <3>1. v.obj \notin Page
      BY <1>10, SlotFacts
    <3> QED
      BY <1>7, <1>8, <1>10, <2>1, <2>3, <2>6, <3>1 DEF WalkStep
  <2>8. /\ n \in WalkSet /\ Narrows(v.m, n.m) /\ n.res # "ok"
        /\ n.res = "walk" =>
             /\ n.obj = tree[s].obj /\ n.obj \in core /\ n.off = v.off % span
             /\ n.ro = (v.ro \/ tree[s].ro) /\ ~(n.ro /\ write)
             /\ Covers(n.m, s, l[1], l[2])
    <3>1. PICK y \in Nat : y = v.off % span
      BY <2>5
    <3>2. n = ProcessKey(c, s, y, write, l[1], l[2])
      BY <2>7, <3>1
    <3>3. /\ n \in WalkSet /\ Narrows(c.m, n.m) /\ n.res # "ok"
          /\ n.res = "walk" =>
             /\ n.obj = tree[s].obj /\ n.obj \in core /\ n.off = y
             /\ n.ro = (c.ro \/ tree[s].ro) /\ ~(n.ro /\ write)
             /\ Covers(n.m, s, l[1], l[2])
      BY <2>2, <2>4, <3>2, KeyStep
    <3> QED
      BY <2>2, <3>1, <3>3
  <2>9. ASSUME n.res = "walk"
        PROVE  Follows(n, TraceStep(tree, t, stop), ro, write, l) /\ n.obj \in Obj
    <3>1. PICK u : u = TraceStep(tree, t, stop)
      OBVIOUS
    <3>2. u = [obj |-> tree[s].obj, off |-> t.off % Span[t.obj],
               ro |-> t.ro \/ tree[s].ro, slots |-> t.slots \cup {s}]
      BY <1>2, <1>7, <1>8, <1>10, <2>3, <2>4, <2>6, <3>1 DEF TraceStep
    <3>3. n.obj = u.obj /\ n.off = u.off
      BY <1>2, <1>7, <2>8, <2>9, <3>2
    <3>4. n.ro = (ro \/ u.ro)
      <4>1. u.ro = (t.ro \/ tree[s].ro) /\ n.ro = (v.ro \/ tree[s].ro)
        BY <2>8, <2>9, <3>2
      <4> QED
        BY <1>2, <4>1
    <3>5. At(n.m, l) = Gone(l) \/ \A e \in u.slots : Covers(n.m, e, l[1], l[2])
      <4>1. SUFFICES ASSUME At(n.m, l) # Gone(l)
                     PROVE  \A e \in u.slots : Covers(n.m, e, l[1], l[2])
        OBVIOUS
      <4>2. At(n.m, l) = At(v.m, l) /\ Keeps(v.m, n.m, l)
        BY <2>8, <4>1 DEF Narrows, Shrinks
      <4>3. \A e \in t.slots : Covers(v.m, e, l[1], l[2])
        BY <4>1, <4>2 DEF Follows
      <4>4. t.slots \subseteq Slot
        BY DEF TraceSet
      <4>5. \A e \in t.slots : Covers(n.m, e, l[1], l[2])
        BY <4>2, <4>3, <4>4 DEF Keeps
      <4>6. u.slots = t.slots \cup {s}
        BY <3>2
      <4> QED
        BY <2>8, <2>9, <4>5, <4>6
    <3>6. u.obj \in core /\ ~(n.ro /\ write)
      BY <2>8, <2>9, <3>3
    <3> QED
      BY <3>1, <3>3, <3>4, <3>5, <3>6 DEF Follows
  <2> QED
    BY <2>8, <2>9
<1>11. v.obj \in Page \/ v.obj \in Gpt
  BY DEF Obj
<1>12. v.obj \in Gpt => Span[v.obj] < stop \/ span >= stop
  BY <1>7, Sizes
<1> QED
  BY <1>5, <1>6, <1>9, <1>10, <1>11, <1>12

\* WalkSeg takes steps until it has ended.
LEMMA WalkRun ==
    ASSUME TreeOK(tree), core \subseteq Obj, NEW w \in WalkSet, w.obj \in Obj,
           NEW stop \in Nat, NEW write \in BOOLEAN, NEW l \in Place
    PROVE  \E W : /\ W[0] = [w EXCEPT !.res = "walk"]
                  /\ \A n \in 1 .. MaxDepth :
                       W[n] = WalkStep(W[n - 1], stop, write, l[1], l[2])
                  /\ WalkSeg(w, stop, write, l[1], l[2]) =
                       IF W[MaxDepth].res = "walk" THEN Ended(W[MaxDepth], "fault")
                       ELSE W[MaxDepth]
<1>1. PICK N : N = MaxDepth
  OBVIOUS
<1>2. N \in Nat
  BY <1>1, Sizes
<1>3. PICK b : b = [w EXCEPT !.res = "walk"]
  OBVIOUS
<1>4. PICK t : t = l[1]
  OBVIOUS
<1>5. PICK i : i = l[2]
  OBVIOUS
<1>6. PICK S : S = {v \in WalkSet : v.res = "walk" => v.obj \in Obj}
  OBVIOUS
<1>7. b \in S
  BY <1>3, <1>6 DEF WalkSet
<1>8. ASSUME NEW v \in S PROVE WalkStep(v, stop, write, t, i) \in S
  <2>1. v \in WalkSet /\ (v.res = "walk" => v.obj \in Obj)
    BY <1>6
  <2>2. CASE v.res # "walk"
    <3>1. WalkStep(v, stop, write, t, i) = v
      BY <2>2 DEF WalkStep
    <3> QED
      BY <3>1
  <2>3. CASE v.res = "walk"
    <3>1. PICK a : a = Begin(v.obj, v.off)
      OBVIOUS
    <3>2. a \in TraceSet /\ a.obj = v.obj /\ a.off = v.off /\ a.ro = FALSE /\ a.slots = {}
      BY <2>1, <3>1 DEF Begin, TraceSet, WalkSet
    <3>3. v.ro \in BOOLEAN
      BY <2>1 DEF WalkSet
    <3>4. Follows(v, a, v.ro, write, l)
      BY <3>2, <3>3 DEF Follows
    <3>5. PICK n : n = WalkStep(v, stop, write, t, i)
      OBVIOUS
    <3>6. n \in WalkSet /\ (n.res = "walk" => n.obj \in Obj)
      BY <1>4, <1>5, <2>1, <2>3, <3>2, <3>3, <3>4, <3>5, FollowStep
    <3> QED
      BY <1>6, <3>5, <3>6
  <2> QED
    BY <2>2, <2>3
<1>9. PICK F : F = [a \in S \X (1 .. N) |-> WalkStep(a[1], stop, write, t, i)]
  OBVIOUS
<1>10. F \in [S \X (1 .. N) -> S]
  BY <1>8, <1>9
<1>11. PICK g \in [0 .. N -> S] :
        g[0] = b /\ \A n \in 1 .. N : g[n] = F[<<g[n - 1], n>>]
  <2>1. IsStep(S, F, N)
    BY <1>10 DEF IsStep
  <2>2. Runs(S, b, F, N) # {}
    BY ONLY <2>1, <1>2, <1>7, RunExists
  <2> QED
    BY <2>2 DEF Runs
<1>12. ASSUME NEW n \in 1 .. N
       PROVE  F[<<g[n - 1], n>>] = WalkStep(g[n - 1], stop, write, t, i)
  <2>1. g[n - 1] \in S
    BY <1>2
  <2>2. <<g[n - 1], n>> \in S \X (1 .. N)
    BY <2>1
  <2> QED
    BY <1>9, <2>2
<1>13. g = [n \in 0 .. N |-> IF n = 0 THEN b ELSE WalkStep(g[n - 1], stop, write, t, i)]
  <2>1. ASSUME NEW n \in 0 .. N
        PROVE  g[n] = IF n = 0 THEN b ELSE WalkStep(g[n - 1], stop, write, t, i)
    <3>1. CASE n = 0
      BY <1>11, <3>1
    <3>2. CASE n # 0
      <4>1. n \in 1 .. N
        BY <3>2
      <4> QED
        BY <1>11, <1>12, <3>2, <4>1, Zenon
    <3> QED
      BY <3>1, <3>2
  <2>2. g = [n \in 0 .. N |-> g[n]]
    OBVIOUS
  <2> QED
    BY <2>1, <2>2, Zenon
<1>14. PICK f : f = CHOOSE h : h = [n \in 0 .. N |->
                      IF n = 0 THEN b ELSE WalkStep(h[n - 1], stop, write, t, i)]
  OBVIOUS
<1>15. f = [n \in 0 .. N |-> IF n = 0 THEN b ELSE WalkStep(f[n - 1], stop, write, t, i)]
  BY <1>13, <1>14, Zenon
<1>16. WalkSeg(w, stop, write, t, i) =
         IF f[N].res = "walk" THEN Ended(f[N], "fault") ELSE f[N]
  BY <1>1, <1>3, <1>14 DEF WalkSeg
<1>17. f[0] = b
  BY <1>2, <1>15
<1>18. \A n \in 1 .. N : f[n] = WalkStep(f[n - 1], stop, write, t, i)
  BY <1>2, <1>15
<1> QED
  BY <1>1, <1>3, <1>4, <1>5, <1>16, <1>17, <1>18

LEMMA WalkSegOK ==
    ASSUME TreeOK(tree), core \subseteq Obj, NEW w \in WalkSet, w.obj \in Obj,
           NEW stop \in Nat, NEW write \in BOOLEAN, NEW l \in Place,
           NEW r, r = WalkSeg(w, stop, write, l[1], l[2]),
           NEW t, t = Trace(tree, w.obj, w.off, stop)
    PROVE  /\ r \in WalkSet /\ Narrows(w.m, r.m) /\ r.res # "walk"
           /\ r.res = "ok" =>
                /\ Arrived(tree, w.obj, w.off, stop) /\ AtEnd(t, stop)
                /\ Follows(r, t, w.ro, write, l)
                /\ r.obj \in Page => r.off = 0
<1>0. w.m \in MapSet /\ w.off \in Nat /\ w.ro \in BOOLEAN /\ tree \in [Slot -> Key]
      /\ w.obj \in Obj \cup {None}
  BY DEF WalkSet, TreeOK
<1>1. PICK W : /\ W[0] = [w EXCEPT !.res = "walk"]
               /\ \A n \in 1 .. MaxDepth :
                    W[n] = WalkStep(W[n - 1], stop, write, l[1], l[2])
               /\ r = IF W[MaxDepth].res = "walk" THEN Ended(W[MaxDepth], "fault")
                      ELSE W[MaxDepth]
  BY WalkRun
<1>2. PICK T : T = Steps(tree, w.obj, w.off, stop)
  OBVIOUS
<1>3. IsRun(T, tree, w.obj, w.off, stop)
  BY <1>0, <1>2, StepsRun
<1>4. MaxDepth \in Nat /\ 0 .. MaxDepth \subseteq 0 .. 2 * MaxDepth
  BY Sizes
<1>5. /\ \A n \in 0 .. MaxDepth : T[n] \in TraceSet
      /\ T[0] = Begin(w.obj, w.off)
      /\ \A n \in 1 .. MaxDepth : T[n] = TraceStep(tree, T[n - 1], stop)
  <2>1. 1 .. MaxDepth \subseteq 1 .. 2 * MaxDepth
    BY <1>4
  <2> QED
    BY <1>3, <1>4, <2>1 DEF IsRun
<1>6. PICK K : K = {n \in 0 .. MaxDepth :
         /\ W[n] \in WalkSet /\ Narrows(w.m, W[n].m)
         /\ W[n].res = "walk" => Follows(W[n], T[n], w.ro, write, l) /\ W[n].obj \in Obj
         /\ W[n].res = "ok" => \E i \in 0 .. MaxDepth :
              /\ Follows(W[n], T[i], w.ro, write, l) /\ AtEnd(T[i], stop)
              /\ W[n].obj \in Page => W[n].off = 0}
  OBVIOUS
<1>7. 0 \in K
  <2>1. /\ W[0] \in WalkSet /\ W[0].m = w.m /\ W[0].obj = w.obj /\ W[0].off = w.off
        /\ W[0].ro = w.ro /\ W[0].res = "walk"
    BY <1>1 DEF WalkSet
  <2>2. T[0].obj = w.obj /\ T[0].off = w.off /\ T[0].ro = FALSE /\ T[0].slots = {}
    BY <1>5 DEF Begin
  <2>3. Follows(W[0], T[0], w.ro, write, l)
    BY <1>0, <2>1, <2>2 DEF Follows
  <2>4. Narrows(w.m, W[0].m)
    BY <1>0, <2>1, NarrowsSame
  <2> QED
    BY <1>4, <1>6, <2>1, <2>3, <2>4
<1>8. ASSUME NEW n \in 1 .. MaxDepth, n - 1 \in K PROVE n \in K
  <2>0. n - 1 \in 0 .. MaxDepth /\ n \in 0 .. MaxDepth
    BY <1>4
  <2>1. PICK v \in WalkSet : v = W[n - 1]
    BY <1>6, <1>8
  <2>2. W[n] = WalkStep(v, stop, write, l[1], l[2])
    BY <1>1, <2>1
  <2>3. /\ Narrows(w.m, v.m)
        /\ v.res = "walk" => Follows(v, T[n - 1], w.ro, write, l) /\ v.obj \in Obj
        /\ v.res = "ok" => \E i \in 0 .. MaxDepth :
              /\ Follows(v, T[i], w.ro, write, l) /\ AtEnd(T[i], stop)
              /\ v.obj \in Page => v.off = 0
    BY <1>6, <1>8, <2>1
  <2>4. CASE v.res # "walk"
    <3>1. W[n] = v
      BY <2>2, <2>4 DEF WalkStep
    <3> QED
      BY <1>6, <2>0, <2>3, <2>4, <3>1
  <2>5. CASE v.res = "walk"
    <3>1. PICK u \in TraceSet : u = T[n - 1]
      BY <1>5, <2>0
    <3>2. PICK x : x = W[n]
      OBVIOUS
    <3>3. /\ x \in WalkSet /\ Narrows(v.m, x.m)
          /\ x.res = "walk" => /\ Follows(x, TraceStep(tree, u, stop), w.ro, write, l)
                               /\ x.obj \in Obj
          /\ x.res = "ok" => /\ Follows(x, u, w.ro, write, l) /\ AtEnd(u, stop)
                             /\ x.obj \in Page => x.off = 0
      BY <1>0, <2>2, <2>3, <2>5, <3>1, <3>2, FollowStep
    <3>4. Narrows(w.m, x.m)
      BY <2>3, <3>3, NarrowsMore
    <3>5. T[n] = TraceStep(tree, u, stop)
      BY <1>5, <3>1
    <3> QED
      BY <1>6, <2>0, <3>1, <3>2, <3>3, <3>4, <3>5
  <2> QED
    BY <2>4, <2>5
<1>9. 0 .. MaxDepth \subseteq K
  BY ONLY <1>4, <1>7, <1>8, UpToN
<1>10. MaxDepth \in K
  BY <1>4, <1>9
<1>11. PICK z \in WalkSet : z = W[MaxDepth]
  BY <1>6, <1>10
<1>12. /\ Narrows(w.m, z.m)
       /\ z.res = "ok" => \E i \in 0 .. MaxDepth :
              /\ Follows(z, T[i], w.ro, write, l) /\ AtEnd(T[i], stop)
              /\ z.obj \in Page => z.off = 0
  BY <1>6, <1>10, <1>11
<1>13. CASE z.res = "walk"
  <2>1. r = Ended(z, "fault")
    BY <1>1, <1>11, <1>13
  <2>2. r \in WalkSet /\ r.m = z.m /\ r.res = "fault"
    BY <2>1, EndedFields
  <2> QED
    BY <1>12, <2>2
<1>14. CASE z.res # "walk"
  <2>1. r = z
    BY <1>1, <1>11, <1>14
  <2>2. ASSUME r.res = "ok"
        PROVE  /\ Arrived(tree, w.obj, w.off, stop) /\ AtEnd(t, stop)
               /\ Follows(r, t, w.ro, write, l)
               /\ r.obj \in Page => r.off = 0
    <3>1. PICK i \in 0 .. MaxDepth :
              /\ Follows(z, T[i], w.ro, write, l) /\ AtEnd(T[i], stop)
              /\ z.obj \in Page => z.off = 0
      BY <1>12, <2>1, <2>2
    <3>2. Arrived(tree, w.obj, w.off, stop)
      BY <1>2, <3>1 DEF Arrived
    <3>3. T[i] = t
      BY <1>0, <1>2, <3>1, TraceFacts
    <3> QED
      BY <2>1, <3>1, <3>2, <3>3
  <2> QED
    BY <1>12, <1>14, <2>1, <2>2
<1> QED
  BY <1>13, <1>14
-----------------------------------------------------------------------------
(* The first level: the small space of the process.                          *)

\* n is m but for the small space of p.
ProcOnly(m, n, p, s) ==
    /\ n \in MapSet /\ n.hz = m.hz /\ n.dep = m.dep /\ n.ss = m.ss
    /\ n.flpt = m.flpt /\ n.cpt = m.cpt /\ n.pte = m.pte /\ n.ca = m.ca
    /\ n.dirty = m.dirty /\ n.md[p] = s
    /\ \A q \in Proc : q # p => n.md[q] = m.md[q]

LEMMA ProcChanged ==
    ASSUME NEW m \in MapSet, NEW p \in Proc, NEW s \in Space \cup {None, PidInProgress}
    PROVE  ProcOnly(m, [m EXCEPT !.md = [m.md EXCEPT ![p] = s]], p, s)
<1>1. PICK a : a = [m.md EXCEPT ![p] = s]
  OBVIOUS
<1>2. /\ a \in [Proc -> Space \cup {None, PidInProgress}] /\ a[p] = s
      /\ \A q \in Proc : q # p => a[q] = m.md[q]
  BY <1>1, MapFields
<1>3. PICK n : n = [m EXCEPT !.md = a]
  OBVIOUS
<1>4. n \in MapSet /\ n.md = a /\ n.hz = m.hz /\ n.dep = m.dep /\ n.ss = m.ss
      /\ n.flpt = m.flpt /\ n.cpt = m.cpt /\ n.pte = m.pte /\ n.ca = m.ca
      /\ n.dirty = m.dirty
  BY ONLY m \in MapSet, <1>2, <1>3 DEF MapSet
<1>5. ProcOnly(m, n, p, s)
  BY <1>2, <1>4 DEF ProcOnly
<1> QED
  BY <1>1, <1>3, <1>5

LEMMA MarkProc ==
    ASSUME NEW m \in MapSet, NEW tr, NEW co, MapOK(m, tr, co), NEW p \in Proc,
           NEW n, ProcOnly(m, n, p, PidInProgress)
    PROVE  MapOK(n, tr, co)
<1>3. n \in MapSet /\ n.hz = m.hz /\ n.dep = m.dep /\ n.ss = m.ss
      /\ n.flpt = m.flpt /\ n.cpt = m.cpt /\ n.pte = m.pte /\ n.ca = m.ca
      /\ n.dirty = m.dirty /\ n.md[p] = PidInProgress
      /\ \A q \in Proc : q # p => n.md[q] = m.md[q]
  BY DEF ProcOnly
<1>4. \A e, tab, ix : Covers(n, e, tab, ix) <=> Covers(m, e, tab, ix)
  BY <1>3 DEF Covers
<1>5. ASSUME NEW q \in Proc PROVE ProcOK(n, tr, q)
  <2>1. ProcOK(m, tr, q)
    BY DEF MapOK
  <2> QED
    BY <1>3, <1>4, <2>1, EntryFacts DEF ProcOK
<1>6. ASSUME NEW x \in FlptIx PROVE FlptOK(n, tr, x)
  <2>1. FlptOK(m, tr, x)
    BY DEF MapOK
  <2> QED
    BY <1>3, <1>4, <2>1 DEF FlptOK
<1>7. ASSUME NEW c \in Cpt, NEW j \in PageIx
      PROVE  CptOK(n, c) /\ PteOK(n, tr, co, c, j) /\ CacheOK(n, c, j)
  <2>1. CptOK(m, c) /\ PteOK(m, tr, co, c, j) /\ CacheOK(m, c, j)
    BY DEF MapOK
  <2> QED
    BY <1>3, <1>4, <2>1 DEF CptOK, PteOK, CacheOK
<1>8. ASSUME NEW c \in Cpt PROVE CptOK(n, c)
  BY <1>3 DEF MapOK, CptOK
<1> QED
  BY <1>3, <1>5, <1>6, <1>7, <1>8 DEF MapOK

\* AssignSSToProc.
LEMMA ProcGets ==
    ASSUME NEW m \in MapSet, NEW tr, NEW co, MapOK(m, tr, co), NEW p \in Proc,
           NEW s \in Space, Covers(m, <<p, 0>>, p, 0), m.ss[s] = tr[<<p, 0>>],
           tr[<<p, 0>>].obj \in Gpt,
           NEW n, ProcOnly(m, n, p, s)
    PROVE  MapOK(n, tr, co)
<1>3. n \in MapSet /\ n.hz = m.hz /\ n.dep = m.dep /\ n.ss = m.ss
      /\ n.flpt = m.flpt /\ n.cpt = m.cpt /\ n.pte = m.pte /\ n.ca = m.ca
      /\ n.dirty = m.dirty /\ n.md[p] = s
      /\ \A q \in Proc : q # p => n.md[q] = m.md[q]
  BY DEF ProcOnly
<1>4. \A e, tab, ix : Covers(n, e, tab, ix) <=> Covers(m, e, tab, ix)
  BY <1>3 DEF Covers
<1>5. ASSUME NEW q \in Proc PROVE ProcOK(n, tr, q)
  <2>1. ProcOK(m, tr, q)
    BY DEF MapOK
  <2>2. CASE q = p
    BY <1>3, <1>4, <2>2 DEF ProcOK
  <2>3. CASE q # p
    BY <1>3, <1>4, <2>1, <2>3 DEF ProcOK
  <2> QED
    BY <2>2, <2>3
<1>6. ASSUME NEW x \in FlptIx PROVE FlptOK(n, tr, x)
  <2>1. FlptOK(m, tr, x)
    BY DEF MapOK
  <2> QED
    BY <1>3, <1>4, <2>1 DEF FlptOK
<1>7. ASSUME NEW c \in Cpt, NEW j \in PageIx
      PROVE  PteOK(n, tr, co, c, j) /\ CacheOK(n, c, j)
  <2>1. PteOK(m, tr, co, c, j) /\ CacheOK(m, c, j)
    BY DEF MapOK
  <2> QED
    BY <1>3, <1>4, <2>1 DEF PteOK, CacheOK
<1>8. ASSUME NEW c \in Cpt PROVE CptOK(n, c)
  BY <1>3 DEF MapOK, CptOK
<1> QED
  BY <1>3, <1>5, <1>6, <1>7, <1>8 DEF MapOK

\* InitMapTabHeader of a small space that nobody uses.
LEMMA SpaceGets ==
    ASSUME NEW m \in MapSet, NEW tr, NEW co, MapOK(m, tr, co), NEW s \in Space,
           \A p \in Proc : m.md[p] # s,
           \A x \in FlptIx : SpaceOf(x) = s => ~Live(m.flpt[x]),
           NEW k, k \in [obj : Gpt \cup {None}, ro : BOOLEAN],
           NEW n, n \in MapSet, n.hz = m.hz, n.dep = m.dep, n.md = m.md,
           n.flpt = m.flpt, n.cpt = m.cpt, n.pte = m.pte, n.ca = m.ca,
           n.dirty = m.dirty, n.ss[s] = k, \A q \in Space : q # s => n.ss[q] = m.ss[q]
    PROVE  MapOK(n, tr, co)
<1>4. \A e, tab, ix : Covers(n, e, tab, ix) <=> Covers(m, e, tab, ix)
  BY DEF Covers
<1>5. ASSUME NEW q \in Proc PROVE ProcOK(n, tr, q)
  <2>1. ProcOK(m, tr, q) /\ m.md[q] # s
    BY DEF MapOK
  <2> QED
    BY <1>4, <2>1 DEF ProcOK
<1>6. ASSUME NEW x \in FlptIx PROVE FlptOK(n, tr, x)
  <2>1. FlptOK(m, tr, x)
    BY DEF MapOK
  <2>2. CASE SpaceOf(x) = s
    BY <2>2 DEF FlptOK
  <2>3. CASE SpaceOf(x) # s
    <3>1. n.ss[SpaceOf(x)] = m.ss[SpaceOf(x)]
      BY <2>3, EntrySpace
    <3> QED
      BY <1>4, <2>1, <3>1 DEF FlptOK
  <2> QED
    BY <2>2, <2>3
<1>7. ASSUME NEW c \in Cpt, NEW j \in PageIx
      PROVE  PteOK(n, tr, co, c, j) /\ CacheOK(n, c, j)
  <2>1. PteOK(m, tr, co, c, j) /\ CacheOK(m, c, j)
    BY DEF MapOK
  <2> QED
    BY <1>4, <2>1 DEF PteOK, CacheOK
<1>8. ASSUME NEW c \in Cpt PROVE CptOK(n, c)
  BY DEF MapOK, CptOK
<1> QED
  BY <1>5, <1>6, <1>7, <1>8 DEF MapOK

\* More slots are hazarded.
LEMMA MoreHazards ==
    ASSUME NEW m \in MapSet, NEW U \in SUBSET Slot
    PROVE  LET n == [m EXCEPT !.hz = m.hz \cup U]
           IN  /\ Shrinks(m, n) /\ n.hz = m.hz \cup U /\ n.dep = m.dep
               /\ n.ss = m.ss /\ n.md = m.md
<1>1. PICK n : n = [m EXCEPT !.hz = m.hz \cup U]
  OBVIOUS
<1>2. PICK z : z = m.hz \cup U
  OBVIOUS
<1>3. z \in SUBSET Slot
  BY <1>2, MapFields
<1>4. n \in MapSet /\ n.hz = z /\ n.dep = m.dep /\ n.md = m.md /\ n.flpt = m.flpt
      /\ n.pte = m.pte /\ n.ss = m.ss /\ n.cpt = m.cpt /\ n.ca = m.ca /\ n.dirty = m.dirty
  BY ONLY m \in MapSet, <1>1, <1>2, <1>3 DEF MapSet
<1>5. ASSUME NEW q \in Place PROVE At(n, q) = At(m, q) /\ Keeps(m, n, q)
  <2>1. At(n, q) = At(m, q)
    BY <1>4 DEF At
  <2>2. Keeps(m, n, q)
    BY <1>2, <1>4 DEF Keeps, Covers
  <2> QED
    BY <2>1, <2>2
<1>6. Shrinks(m, n)
  BY <1>3, <1>4, <1>5 DEF Shrinks
<1> QED
  BY <1>1, <1>2, <1>4, <1>6

LEMMA UseSpaceOK ==
    ASSUME TreeOK(tree), NEW co, NEW w \in WalkSet, MapOK(w.m, tree, co),
           SpacesOK(w.m, tree), NEW p \in Proc, NEW s \in Space, Covers(w.m, <<p, 0>>, p, 0),
           w.obj = tree[<<p, 0>>].obj, w.ro = tree[<<p, 0>>].ro, w.obj \in Gpt,
           NEW r, r = UseSpace(w, p, s)
    PROVE  /\ r \in WalkSet /\ MapOK(r.m, tree, co) /\ SpacesOK(r.m, tree)
           /\ r.obj = w.obj /\ r.off = w.off /\ r.ro = w.ro
           /\ r.res # "fatal" => /\ r.m.md[p] \in Space
                                 /\ r.m.ss[r.m.md[p]] = [obj |-> r.obj, ro |-> r.ro]
<1>1. PICK k : k = [obj |-> w.obj, ro |-> w.ro]
  OBVIOUS
<1>2. k = tree[<<p, 0>>] /\ k \in [obj : Gpt \cup {None}, ro : BOOLEAN]
      /\ tree[<<p, 0>>].obj \in Gpt
  <2>1. <<p, 0>> \in Slot
    BY SlotFacts
  <2>2. tree[<<p, 0>>] \in Key /\ tree[<<p, 0>>] \in KeysOf[<<p, 0>>] \cup {VoidKey}
    BY <2>1 DEF TreeOK
  <2>3. k = tree[<<p, 0>>]
    BY <1>1, <2>2 DEF Key
  <2>4. w.ro \in BOOLEAN
    BY DEF WalkSet
  <2> QED
    BY <1>1, <2>3, <2>4
<1>3. PICK m \in MapSet : m = w.m
  BY DEF WalkSet
<1>4. PICK F : F = {x \in Space : m.ss[x] = k}
  OBVIOUS
<1>5. CASE F # {}
  <2>1. PICK y : y = Min(F)
    OBVIOUS
  <2>2. y \in F
    <3>1. F \subseteq Nat
      BY <1>4, Sizes DEF Space
    <3> QED
      BY <1>5, <2>1, <3>1, LeastOf
  <2>3. PICK n : n = [m EXCEPT !.md = [m.md EXCEPT ![p] = y]]
    OBVIOUS
  <2>4. y \in Space /\ m.ss[y] = tree[<<p, 0>>]
    BY <1>2, <1>4, <2>2
  <2>5. n \in MapSet /\ MapOK(n, tree, co) /\ n.md[p] = y /\ n.ss = m.ss /\ n.hz = m.hz
    <3>1. ProcOnly(m, n, p, y)
      BY <2>3, <2>4, ProcChanged
    <3> QED
      BY <1>2, <1>3, <2>4, <3>1, ProcGets DEF ProcOnly
  <2>6. r = [w EXCEPT !.m = n]
    BY <1>1, <1>3, <1>4, <1>5, <2>1, <2>3 DEF UseSpace
  <2>7. r \in WalkSet /\ r.m = n /\ r.obj = w.obj /\ r.off = w.off /\ r.ro = w.ro
    BY ONLY w \in WalkSet, <2>5, <2>6 DEF WalkSet
  <2>8. n.ss[y] = k
    BY <1>4, <2>2, <2>5
  <2>9. SpacesOK(n, tree)
    BY <1>3, <2>5, ClingsOK DEF Clings
  <2> QED
    BY <1>1, <2>4, <2>5, <2>7, <2>8, <2>9
<1>6. CASE F = {} /\ IsLarge(w.obj)
  <2>1. r = Ended(w, "fatal")
    BY <1>1, <1>3, <1>4, <1>6 DEF UseSpace
  <2>2. r \in WalkSet /\ r.res = "fatal" /\ r.m = w.m /\ r.obj = w.obj /\ r.off = w.off
        /\ r.ro = w.ro
    BY <2>1, EndedFields
  <2> QED
    BY <2>2
<1>7. CASE F = {} /\ ~IsLarge(w.obj)
  <2>0. PICK S : S = {s} \cup IF FreeSpaces(w.m) = {} THEN Stolen(s) ELSE {}
    OBVIOUS
  <2>1. PICK u : u = ReleaseSpaces(m, S)
    OBVIOUS
  <2>2. S \in SUBSET Space /\ s \in S
    BY <2>0 DEF Stolen
  <2>3. /\ u \in MapSet /\ MapOK(u, tree, co) /\ u.hz = m.hz /\ u.dep = m.dep
        /\ \A q \in Space : u.ss[q] = IF q \in S THEN NoSpace ELSE m.ss[q]
        /\ \A q \in Proc : u.md[q] = IF m.md[q] \in S THEN None ELSE m.md[q]
        /\ \A x \in FlptIx : u.flpt[x] = IF SpaceOf(x) \in S THEN Zapped ELSE m.flpt[x]
    BY <1>3, <2>1, <2>2, ReleaseSpacesOK
  <2>4. (\A q \in Proc : u.md[q] # s) /\ \A x \in FlptIx : SpaceOf(x) = s => ~Live(u.flpt[x])
    BY <2>2, <2>3, EntryFacts
  <2>5. PICK v : v = [u EXCEPT !.ss = [u.ss EXCEPT ![s] = k]]
    OBVIOUS
  <2>6. v \in MapSet /\ MapOK(v, tree, co) /\ v.ss[s] = k /\ v.md = u.md
        /\ v.hz = u.hz /\ v.dep = u.dep /\ \A q \in Space : q # s => v.ss[q] = u.ss[q]
    <3>1. PICK a : a = [u.ss EXCEPT ![s] = k]
      OBVIOUS
    <3>2. /\ a \in [Space -> [obj : Gpt \cup {None}, ro : BOOLEAN]] /\ a[s] = k
          /\ \A q \in Space : q # s => a[q] = u.ss[q]
      BY <1>2, <2>3, <3>1, MapFields
    <3>3. v \in MapSet /\ v.ss = a /\ v.hz = u.hz /\ v.dep = u.dep /\ v.md = u.md
          /\ v.flpt = u.flpt /\ v.cpt = u.cpt /\ v.pte = u.pte /\ v.ca = u.ca
          /\ v.dirty = u.dirty
      BY ONLY <2>3, <2>5, <3>1, <3>2 DEF MapSet
    <3>4. v.ss[s] = k /\ \A q \in Space : q # s => v.ss[q] = u.ss[q]
      BY <3>2, <3>3
    <3>5. MapOK(v, tree, co)
      BY <1>2, <2>3, <2>4, <3>3, <3>4, SpaceGets
    <3> QED
      BY <3>3, <3>4, <3>5
  <2>7. PICK U : U = UpperSlots(w.obj)
    OBVIOUS
  <2>8. PICK h : h = [v EXCEPT !.hz = v.hz \cup U]
    OBVIOUS
  <2>9. h \in MapSet /\ MapOK(h, tree, co) /\ h.hz = v.hz \cup U /\ h.dep = v.dep
        /\ h.ss = v.ss /\ h.md = v.md
    <3>1. U \in SUBSET Slot
      BY <2>7, UpperFacts
    <3>2. Shrinks(v, h) /\ h.hz = v.hz \cup U /\ h.dep = v.dep /\ h.ss = v.ss /\ h.md = v.md
      BY <2>6, <2>8, <3>1, MoreHazards
    <3> QED
      BY <2>6, <3>2, ShrinksOK
  <2>10. PICK n : n = [h EXCEPT !.md = [h.md EXCEPT ![p] = s]]
    OBVIOUS
  <2>11. Covers(h, <<p, 0>>, p, 0)
    BY <1>3, <2>3, <2>6, <2>9 DEF Covers
  <2>12. n \in MapSet /\ MapOK(n, tree, co) /\ n.md[p] = s /\ n.ss = v.ss /\ n.hz = h.hz
    <3>1. ProcOnly(h, n, p, s)
      BY <2>9, <2>10, ProcChanged
    <3> QED
      BY <1>2, <2>6, <2>9, <2>11, <3>1, ProcGets DEF ProcOnly
  <2>13. r = [w EXCEPT !.m = n]
    <3>1. r = [w EXCEPT !.m = [u EXCEPT !.ss[s] = k, !.md[p] = s, !.hz = @ \cup U]]
      BY <1>1, <1>3, <1>4, <1>7, <2>0, <2>1, <2>7 DEF UseSpace
    <3>2. [u EXCEPT !.ss[s] = k, !.md[p] = s, !.hz = @ \cup U] = n
      BY ONLY <2>3, <2>5, <2>8, <2>10 DEF MapSet
    <3> QED
      BY <3>1, <3>2
  <2>14. r \in WalkSet /\ r.m = n /\ r.obj = w.obj /\ r.off = w.off /\ r.ro = w.ro
    BY ONLY w \in WalkSet, <2>12, <2>13 DEF WalkSet
  <2>15. ASSUME NEW q \in Space, n.ss[q].obj \in Gpt
         PROVE  /\ Span[n.ss[q].obj] <= SpaceSize
                /\ \A e \in UpperSlots(n.ss[q].obj) : e \in n.hz /\ tree[e] = VoidKey
    <3>1. CASE q = s
      <4>1. n.ss[q].obj = w.obj
        BY <1>1, <2>6, <2>12, <3>1
      <4>2. Span[w.obj] <= SpaceSize
        <5>1. Span[w.obj] \in Nat /\ SpaceSize \in Nat
          BY Sizes
        <5> QED
          BY <1>7, <5>1 DEF IsLarge
      <4>3. \A e \in U : tree[e] = VoidKey
        BY <1>7, <2>7 DEF IsLarge
      <4> QED
        BY <2>7, <2>9, <2>12, <4>1, <4>2, <4>3
    <3>2. CASE q # s
      <4>1. n.ss[q] = u.ss[q]
        BY <2>6, <2>12, <3>2
      <4>2. u.ss[q] = m.ss[q]
        BY <2>3, <2>15, <4>1, SlotFacts DEF NoSpace
      <4>3. /\ Span[m.ss[q].obj] <= SpaceSize
            /\ \A e \in UpperSlots(m.ss[q].obj) : e \in m.hz /\ tree[e] = VoidKey
        BY <1>3, <2>15, <4>1, <4>2 DEF SpacesOK, SpaceOK
      <4> QED
        BY <2>3, <2>6, <2>9, <2>12, <4>1, <4>2, <4>3
    <3> QED
      BY <3>1, <3>2
  <2>16. SpacesOK(n, tree)
    BY <2>15 DEF SpacesOK, SpaceOK
  <2> QED
    BY <1>1, <2>6, <2>12, <2>14, <2>16
<1> QED
  BY <1>5, <1>6, <1>7

LEMMA FirstLevelOK ==
    ASSUME Maps, NEW p \in Proc, NEW va \in VaOf[p], NEW write \in BOOLEAN,
           NEW s \in Space,
           NEW r, r = GetFirstLevelMappingTable(map, p, va, write, s)
    PROVE  /\ r \in WalkSet /\ MapOK(r.m, tree, core) /\ SpacesOK(r.m, tree)
           /\ r.res \notin {"fault", "yield", "fatal"} =>
                /\ r.m.md[p] \in Space /\ r.obj \in Gpt /\ r.off = va
                /\ r.m.ss[r.m.md[p]] = [obj |-> r.obj, ro |-> r.ro]
<1>0. TreeOK(tree) /\ core \subseteq Obj /\ map \in MapSet /\ MapOK(map, tree, core)
      /\ SpacesOK(map, tree) /\ <<p, 0>> \in Slot /\ va \in Nat /\ TopSize \in Nat
  <2>1. va \in 0 .. SpaceSize - 1
    BY ConstantsAssumption
  <2> QED
    BY <2>1, SlotFacts, Sizes DEF Maps
<1>1. PICK w : w = [m |-> map, obj |-> None, off |-> va, ro |-> FALSE, count |-> 0,
                    res |-> "walk"]
  OBVIOUS
<1>2. w \in WalkSet /\ w.m = map /\ w.ro = FALSE /\ w.res = "walk" /\ w.off = va
  BY <1>0, <1>1 DEF WalkSet
<1>3. CASE map.md[p] \in Space
  <2>1. PICK h : h = map.ss[map.md[p]]
    OBVIOUS
  <2>2. r = [w EXCEPT !.obj = h.obj, !.ro = h.ro]
    BY <1>1, <1>3, <2>1 DEF GetFirstLevelMappingTable
  <2>3. h \in [obj : Gpt \cup {None}, ro : BOOLEAN]
    BY <1>0, <1>3, <2>1, MapFields
  <2>4. h.obj \in Gpt /\ h.ro \in BOOLEAN /\ h = [obj |-> h.obj, ro |-> h.ro]
    <3>1. ProcOK(map, tree, p)
      BY <1>0 DEF MapOK
    <3> QED
      BY <1>3, <2>1, <2>3, <3>1 DEF ProcOK
  <2>5. r \in WalkSet /\ r.m = map /\ r.obj = h.obj /\ r.ro = h.ro /\ r.off = va
    BY <1>2, <2>2, <2>4 DEF WalkSet, Obj
  <2> QED
    BY <1>0, <1>3, <2>1, <2>4, <2>5
<1>4. CASE map.md[p] \notin Space
  <2>1. PICK l : l = <<p, 0>>
    OBVIOUS
  <2>2. l \in Place /\ l[1] = p /\ l[2] = 0
    BY <2>1, PlaceFacts
  <2>3. PICK k : k = ProcessKey(w, <<p, 0>>, va, write, p, 0)
    OBVIOUS
  <2>4. /\ k \in WalkSet /\ Narrows(map, k.m) /\ k.res # "ok"
        /\ k.res = "walk" =>
             /\ k.obj = tree[<<p, 0>>].obj /\ k.obj \in core /\ k.off = va
             /\ k.ro = (w.ro \/ tree[<<p, 0>>].ro) /\ Covers(k.m, <<p, 0>>, p, 0)
    <3>1. k = ProcessKey(w, <<p, 0>>, va, write, l[1], l[2])
      BY <2>2, <2>3
    <3>2. /\ k \in WalkSet /\ Narrows(w.m, k.m) /\ k.res # "ok"
          /\ k.res = "walk" =>
             /\ k.obj = tree[<<p, 0>>].obj /\ k.obj \in core /\ k.off = va
             /\ k.ro = (w.ro \/ tree[<<p, 0>>].ro) /\ Covers(k.m, <<p, 0>>, l[1], l[2])
      BY <1>0, <1>2, <2>2, <3>1, KeyStep
    <3> QED
      BY <1>2, <2>2, <3>2
  <2>5. k.m \in MapSet /\ MapOK(k.m, tree, core) /\ SpacesOK(k.m, tree)
    BY <1>0, <2>4, ShrinksOK, NarrowsClings, ClingsOK DEF Narrows
  <2>6. CASE k.res # "walk"
    <3>1. r = k
      BY <1>1, <1>4, <2>3, <2>6 DEF GetFirstLevelMappingTable
    <3>2. k.res \in {"fault", "yield", "fatal"}
      BY <2>4, <2>6 DEF WalkSet
    <3> QED
      BY <2>4, <2>5, <3>1, <3>2
  <2>7. CASE k.res = "walk"
    <3>1. PICK n : n = [k.m EXCEPT !.md = [k.m.md EXCEPT ![p] = PidInProgress]]
      OBVIOUS
    <3>2. n \in MapSet /\ MapOK(n, tree, core) /\ n.md[p] = PidInProgress
          /\ n.hz = k.m.hz /\ n.dep = k.m.dep /\ SpacesOK(n, tree)
      <4>1. ProcOnly(k.m, n, p, PidInProgress)
        BY <2>5, <3>1, ProcChanged
      <4> QED
        BY <2>5, <4>1, MarkProc, ClingsOK DEF ProcOnly, Clings
    <3>3. PICK z : z = [k EXCEPT !.m = n]
      OBVIOUS
    <3>4. z \in WalkSet /\ z.m = n /\ z.obj = k.obj /\ z.off = k.off /\ z.ro = k.ro
      BY ONLY <2>4, <3>2, <3>3 DEF WalkSet
    <3>5. PICK y : y = WalkSeg(z, TopSize, write, p, 0)
      OBVIOUS
    <3>6. PICK t : t = Trace(tree, z.obj, z.off, TopSize)
      OBVIOUS
    <3>7. /\ y \in WalkSet /\ Narrows(n, y.m) /\ y.res # "walk"
          /\ y.res = "ok" => Follows(y, t, z.ro, write, l)
      <4>1. z.obj \in Obj
        BY <1>0, <2>4, <2>7, <3>4
      <4>2. y = WalkSeg(z, TopSize, write, l[1], l[2])
        BY <2>2, <3>5
      <4>3. /\ y \in WalkSet /\ Narrows(z.m, y.m) /\ y.res # "walk"
            /\ y.res = "ok" => Follows(y, t, z.ro, write, l)
        BY <1>0, <2>2, <3>4, <3>6, <4>1, <4>2, WalkSegOK
      <4> QED
        BY <3>4, <4>3
    <3>8. y.m \in MapSet /\ MapOK(y.m, tree, core) /\ SpacesOK(y.m, tree)
      BY <1>0, <3>2, <3>7, ShrinksOK, NarrowsClings, ClingsOK DEF Narrows
    <3>9. CASE y.res # "ok"
      <4>1. r = y
        BY <1>1, <1>4, <2>3, <2>7, <3>1, <3>3, <3>5, <3>9 DEF GetFirstLevelMappingTable
      <4>2. y.res \in {"fault", "yield", "fatal"}
        BY <3>7, <3>9 DEF WalkSet
      <4> QED
        BY <3>7, <3>8, <4>1, <4>2
    <3>10. CASE y.res = "ok" /\ y.m.md[p] # PidInProgress
      <4>1. r = Ended(y, "yield")
        BY <1>1, <1>4, <2>3, <2>7, <3>1, <3>3, <3>5, <3>10 DEF GetFirstLevelMappingTable
      <4>2. r \in WalkSet /\ r.res = "yield" /\ r.m = y.m
        BY <3>7, <4>1, EndedFields
      <4> QED
        BY <3>8, <4>2
    <3>11. CASE y.res = "ok" /\ y.m.md[p] = PidInProgress
      <4>1. r = UseSpace(y, p, s)
        BY <1>1, <1>4, <2>3, <2>7, <3>1, <3>3, <3>5, <3>11 DEF GetFirstLevelMappingTable
      <4>2. z.obj \in Gpt
        <5>1. tree[<<p, 0>>] \in KeysOf[<<p, 0>>] \cup {VoidKey}
          BY <1>0 DEF TreeOK
        <5>2. \A q \in KeysOf[<<p, 0>>] : q.obj \in Page => <<p, 0>>[1] \in Gpt
          BY <1>0, ConstantsAssumption
        <5>3. <<p, 0>>[1] \notin Gpt
          BY ConstantsAssumption
        <5>4. z.obj = tree[<<p, 0>>].obj /\ z.obj \in Obj
          BY <1>0, <2>4, <2>7, <3>4
        <5>5. VoidKey.obj \notin Obj
          BY SlotFacts DEF VoidKey
        <5> QED
          BY <5>1, <5>2, <5>3, <5>4, <5>5 DEF Obj
      <4>3. t = Begin(z.obj, z.off)
        <5>1. tree \in [Slot -> Key] /\ z.obj \in Obj \cup {None} /\ z.off \in Nat
          BY <1>0, <3>4 DEF TreeOK, WalkSet
        <5>2. PICK T : T = Steps(tree, z.obj, z.off, TopSize)
          OBVIOUS
        <5>3. T[0] = Begin(z.obj, z.off)
          <6>1. IsRun(T, tree, z.obj, z.off, TopSize)
            BY <1>0, <5>1, <5>2, StepsRun
          <6> QED
            BY <6>1 DEF IsRun
        <5>4. T[0].obj = z.obj
          BY <5>3 DEF Begin
        <5>5. AtEnd(T[0], TopSize)
          BY <4>2, <5>4, Sizes DEF AtEnd
        <5>6. 0 \in 0 .. MaxDepth
          BY Sizes
        <5> QED
          BY <1>0, <3>6, <5>1, <5>2, <5>3, <5>5, <5>6, TraceFacts
      <4>4. t.obj = z.obj /\ t.off = z.off /\ t.ro = FALSE
        BY <4>3 DEF Begin
      <4>5. y.obj = z.obj /\ y.off = z.off /\ y.ro = (z.ro \/ t.ro)
        BY <3>7, <3>11, <4>4 DEF Follows
      <4>6. y.ro = tree[<<p, 0>>].ro
        <5>1. tree[<<p, 0>>] \in Key
          BY <1>0 DEF TreeOK
        <5>2. tree[<<p, 0>>].ro \in BOOLEAN
          BY <5>1 DEF Key
        <5>3. z.ro = (w.ro \/ tree[<<p, 0>>].ro)
          BY <2>4, <2>7, <3>4
        <5> QED
          BY <1>2, <4>4, <4>5, <5>2, <5>3
      <4>7. Covers(y.m, <<p, 0>>, p, 0)
        <5>1. Covers(n, <<p, 0>>, p, 0)
          BY <2>4, <2>7, <3>2 DEF Covers
        <5>2. At(y.m, l) # Gone(l)
          BY <2>1, <3>11, PlaceFacts, EntryFacts
        <5>3. Keeps(n, y.m, l)
          BY <2>2, <3>7, <5>2 DEF Narrows, Shrinks
        <5> QED
          BY <1>0, <2>2, <5>1, <5>3 DEF Keeps
      <4>8. y.obj = tree[<<p, 0>>].obj /\ y.off = va
        BY <2>4, <2>7, <3>4, <4>5
      <4>9. /\ r \in WalkSet /\ MapOK(r.m, tree, core) /\ SpacesOK(r.m, tree)
            /\ r.obj = y.obj /\ r.off = y.off /\ r.ro = y.ro
            /\ r.res # "fatal" => /\ r.m.md[p] \in Space
                                  /\ r.m.ss[r.m.md[p]] = [obj |-> r.obj, ro |-> r.ro]
        BY <1>0, <3>7, <3>8, <4>1, <4>2, <4>5, <4>6, <4>7, <4>8, UseSpaceOK
      <4> QED
        BY <4>2, <4>5, <4>8, <4>9
    <3> QED
      BY <3>9, <3>10, <3>11
  <2> QED
    BY <2>6, <2>7
<1> QED
  BY <1>3, <1>4
-----------------------------------------------------------------------------
(* The second level: the coarse page table of a section.                     *)

\* n is m but for one entry of the first level.
FlptOnly(m, n, x, t) ==
    /\ n \in MapSet /\ n.hz = m.hz /\ n.dep = m.dep /\ n.md = m.md /\ n.ss = m.ss
    /\ n.cpt = m.cpt /\ n.pte = m.pte /\ n.ca = m.ca /\ n.dirty = m.dirty
    /\ n.flpt[x] = t /\ \A y \in FlptIx : y # x => n.flpt[y] = m.flpt[y]

LEMMA FlptChanged ==
    ASSUME NEW m \in MapSet, NEW x \in FlptIx, NEW t \in TableEntry(Cpt)
    PROVE  FlptOnly(m, [m EXCEPT !.flpt = [m.flpt EXCEPT ![x] = t]], x, t)
<1>1. PICK a : a = [m.flpt EXCEPT ![x] = t]
  OBVIOUS
<1>2. /\ a \in [FlptIx -> TableEntry(Cpt)] /\ a[x] = t
      /\ \A y \in FlptIx : y # x => a[y] = m.flpt[y]
  BY <1>1, MapFields
<1>3. PICK n : n = [m EXCEPT !.flpt = a]
  OBVIOUS
<1>4. n \in MapSet /\ n.flpt = a /\ n.hz = m.hz /\ n.dep = m.dep /\ n.ss = m.ss
      /\ n.md = m.md /\ n.cpt = m.cpt /\ n.pte = m.pte /\ n.ca = m.ca
      /\ n.dirty = m.dirty
  BY ONLY m \in MapSet, <1>2, <1>3 DEF MapSet
<1>5. FlptOnly(m, n, x, t)
  BY <1>2, <1>4 DEF FlptOnly
<1> QED
  BY <1>1, <1>3, <1>5

LEMMA FlptGets ==
    ASSUME NEW m \in MapSet, NEW tr, NEW co, MapOK(m, tr, co), NEW x \in FlptIx,
           NEW t, NEW n, FlptOnly(m, n, x, t), FlptOK(n, tr, x)
    PROVE  MapOK(n, tr, co)
<1>1. n.hz = m.hz /\ n.dep = m.dep /\ n.md = m.md /\ n.ss = m.ss
      /\ n.cpt = m.cpt /\ n.pte = m.pte /\ n.ca = m.ca /\ n.dirty = m.dirty
      /\ \A y \in FlptIx : y # x => n.flpt[y] = m.flpt[y]
  BY DEF FlptOnly
<1>2. \A e, tab, ix : Covers(n, e, tab, ix) <=> Covers(m, e, tab, ix)
  BY <1>1 DEF Covers
<1>3. ASSUME NEW q \in Proc PROVE ProcOK(n, tr, q)
  <2>1. ProcOK(m, tr, q)
    BY DEF MapOK
  <2> QED
    BY <1>1, <1>2, <2>1 DEF ProcOK
<1>4. ASSUME NEW y \in FlptIx, y # x PROVE FlptOK(n, tr, y)
  <2>1. FlptOK(m, tr, y) /\ n.flpt[y] = m.flpt[y]
    BY <1>1, <1>4 DEF MapOK
  <2> QED
    BY <1>1, <1>2, <2>1 DEF FlptOK
<1>5. ASSUME NEW c \in Cpt, NEW j \in PageIx
      PROVE  PteOK(n, tr, co, c, j) /\ CacheOK(n, c, j)
  <2>1. PteOK(m, tr, co, c, j) /\ CacheOK(m, c, j)
    BY DEF MapOK
  <2> QED
    BY <1>1, <1>2, <2>1 DEF PteOK, CacheOK
<1>6. ASSUME NEW c \in Cpt PROVE CptOK(n, c)
  BY <1>1 DEF MapOK, CptOK
<1> QED
  BY <1>1, <1>3, <1>4, <1>5, <1>6 DEF MapOK

\* An entry is marked, or made valid again.
LEMMA FlptMarked ==
    ASSUME NEW m \in MapSet, NEW tr, NEW co, MapOK(m, tr, co), NEW x \in FlptIx,
           NEW t, ~Live(t) \/ (Live(m.flpt[x]) /\ t.to = m.flpt[x].to),
           NEW n, FlptOnly(m, n, x, t)
    PROVE  MapOK(n, tr, co)
<1>1. n.hz = m.hz /\ n.dep = m.dep /\ n.ss = m.ss /\ n.cpt = m.cpt /\ n.flpt[x] = t
  BY DEF FlptOnly
<1>2. \A e, tab, ix : Covers(n, e, tab, ix) <=> Covers(m, e, tab, ix)
  BY <1>1 DEF Covers
<1>3. FlptOK(m, tr, x)
  BY DEF MapOK
<1>4. FlptOK(n, tr, x)
  BY <1>1, <1>2, <1>3 DEF FlptOK
<1> QED
  BY <1>4, FlptGets

\* InitMapTabHeader of a coarse page table that was free.
LEMMA CptGets ==
    ASSUME NEW m \in MapSet, NEW tr, NEW co, MapOK(m, tr, co), NEW c \in Cpt,
           m.cpt[c] = NoTable,
           NEW k \in TableSet, k.obj \in Gpt, Span[k.obj] < SectionSize,
           NEW n, n \in MapSet, n.hz = m.hz, n.dep = m.dep, n.md = m.md, n.ss = m.ss,
           n.flpt = m.flpt, n.pte = m.pte, n.ca = m.ca, n.dirty = m.dirty,
           n.cpt[c] = k, \A d \in Cpt : d # c => n.cpt[d] = m.cpt[d]
    PROVE  MapOK(n, tr, co)
<1>1. \A e, tab, ix : Covers(n, e, tab, ix) <=> Covers(m, e, tab, ix)
  BY DEF Covers
<1>2. ASSUME NEW q \in Proc PROVE ProcOK(n, tr, q)
  <2>1. ProcOK(m, tr, q)
    BY DEF MapOK
  <2> QED
    BY <1>1, <2>1 DEF ProcOK
<1>3. ASSUME NEW y \in FlptIx PROVE FlptOK(n, tr, y)
  <2>1. FlptOK(m, tr, y)
    BY DEF MapOK
  <2>2. CASE ~Live(m.flpt[y])
    BY <2>2 DEF FlptOK
  <2>3. CASE Live(m.flpt[y])
    <3>1. m.flpt[y].to \in Cpt /\ m.cpt[m.flpt[y].to].obj \in Gpt
      BY <2>1, <2>3 DEF FlptOK
    <3>2. m.flpt[y].to # c
      BY <3>1, EntryFacts, SlotFacts
    <3>3. n.cpt[n.flpt[y].to] = m.cpt[m.flpt[y].to]
      BY <3>1, <3>2
    <3> QED
      BY <1>1, <2>1, <3>3 DEF FlptOK
  <2> QED
    BY <2>2, <2>3
<1>4. ASSUME NEW d \in Cpt PROVE CptOK(n, d)
  <2>1. CptOK(m, d)
    BY DEF MapOK
  <2>2. CASE d = c
    BY <2>2 DEF CptOK
  <2>3. CASE d # c
    BY <2>1, <2>3 DEF CptOK
  <2> QED
    BY <2>2, <2>3
<1>5. k # NoTable
  BY EntryFacts, SlotFacts
<1>6. ASSUME NEW d \in Cpt, NEW j \in PageIx
      PROVE  PteOK(n, tr, co, d, j) /\ CacheOK(n, d, j)
  <2>1. PteOK(m, tr, co, d, j) /\ CacheOK(m, d, j)
    BY DEF MapOK
  <2>2. CASE d = c
    <3>1. n.pte[d][j] = Zapped
      BY <2>1, <2>2 DEF PteOK
    <3> QED
      BY <1>5, <2>2, <3>1, EntryFacts DEF PteOK, CacheOK
  <2>3. CASE d # c
    BY <1>1, <2>1, <2>3 DEF PteOK, CacheOK
  <2> QED
    BY <2>2, <2>3
<1> QED
  BY <1>2, <1>3, <1>4, <1>6 DEF MapOK

LEMMA TableEntryFacts ==
    ASSUME NEW c \in Cpt, NEW t, t = [Zapped EXCEPT !.st = "valid", !.to = c]
    PROVE  t \in TableEntry(Cpt) /\ Live(t) /\ t.to = c
BY DEF Zapped, TableEntry, Live

\* What UseTable is called with once the walk to the section has ended, and
\* what it returns.
TableSought(w, x, h, path, co) ==
    /\ w \in WalkSet /\ MapOK(w.m, tree, co) /\ x \in FlptIx
    /\ h = w.m.ss[SpaceOf(x)] /\ h.obj \in Gpt
    /\ path = Trace(tree, h.obj, OffsetOf(x), SectionSize)
    /\ Arrived(tree, h.obj, OffsetOf(x), SectionSize)
    /\ \A e \in path.slots : Covers(w.m, e, Flpt, x)
    /\ w.obj = path.obj /\ w.obj \in Gpt /\ Span[w.obj] < SectionSize
    /\ w.off \div SectionSize = path.off \div SectionSize
    /\ w.ro = (h.ro \/ path.ro)

TableUsed(r, w, x, co) ==
    /\ r \in WalkSet /\ MapOK(r.m, tree, co) /\ Clings(w.m, r.m)
    /\ r.obj = w.obj /\ r.off = w.off /\ r.ro = w.ro
    /\ \/ r.res = "yield"
       \/ LET c == r.m.flpt[x].to
          IN  /\ c \in Cpt /\ r.m.cpt[c].obj = w.obj /\ r.m.cpt[c].ro = w.ro
              /\ r.m.cpt[c].ndx = w.off \div SectionSize
              /\ ~w.ro => r.m.cpt[c].addr = x

LEMMA UseTableOK ==
    ASSUME TreeOK(tree), NEW co, NEW w, NEW x, NEW h, NEW path,
           TableSought(w, x, h, path, co), NEW r, r = UseTable(w, x)
    PROVE  TableUsed(r, w, x, co)
<1> SUFFICES /\ r \in WalkSet /\ MapOK(r.m, tree, co) /\ Clings(w.m, r.m)
             /\ r.obj = w.obj /\ r.off = w.off /\ r.ro = w.ro
             /\ \/ r.res = "yield"
                \/ LET c == r.m.flpt[x].to
                   IN  /\ c \in Cpt /\ r.m.cpt[c].obj = w.obj /\ r.m.cpt[c].ro = w.ro
                       /\ r.m.cpt[c].ndx = w.off \div SectionSize
                       /\ ~w.ro => r.m.cpt[c].addr = x
  BY DEF TableUsed
<1>0. /\ w \in WalkSet /\ MapOK(w.m, tree, co) /\ x \in FlptIx
      /\ h = w.m.ss[SpaceOf(x)] /\ h.obj \in Gpt
      /\ path = Trace(tree, h.obj, OffsetOf(x), SectionSize)
      /\ Arrived(tree, h.obj, OffsetOf(x), SectionSize)
      /\ \A e \in path.slots : Covers(w.m, e, Flpt, x)
      /\ w.obj = path.obj /\ w.obj \in Gpt /\ Span[w.obj] < SectionSize
      /\ w.off \div SectionSize = path.off \div SectionSize
      /\ w.ro = (h.ro \/ path.ro)
  BY ONLY TableSought(w, x, h, path, co) DEF TableSought
<1> USE <1>0
<1>1. PICK m \in MapSet : m = w.m
  BY DEF WalkSet
<1>2. PICK d : d = w.off \div SectionSize
  OBVIOUS
<1>3. d \in Nat /\ w.ro \in BOOLEAN /\ w.off \in Nat
  <2>1. w.off \in Nat /\ w.ro \in BOOLEAN
    BY DEF WalkSet
  <2> QED
    BY <1>2, <2>1, Sizes, Division
<1>4. ASSUME NEW u \in MapSet, MapOK(u, tree, co), u.hz = m.hz, u.dep = m.dep,
             u.ss = m.ss, NEW c \in Cpt, u.cpt[c].obj = w.obj, u.cpt[c].ro = w.ro,
             u.cpt[c].ndx = d, ~w.ro => u.cpt[c].addr = x,
             NEW t, t.to = c, NEW n, FlptOnly(u, n, x, t)
      PROVE  /\ n \in MapSet /\ MapOK(n, tree, co) /\ n.flpt[x].to = c
             /\ n.cpt = u.cpt /\ n.ss = m.ss /\ n.hz = m.hz
  <2>2. n \in MapSet /\ n.flpt[x] = t /\ n.hz = m.hz /\ n.dep = m.dep /\ n.ss = m.ss
        /\ n.cpt = u.cpt
    BY <1>4 DEF FlptOnly
  <2>3. \A e, tab, ix : Covers(n, e, tab, ix) <=> Covers(w.m, e, tab, ix)
    BY <1>1, <2>2 DEF Covers
  <2>4. FlptOK(n, tree, x)
    BY <1>1, <1>2, <1>4, <2>2, <2>3 DEF FlptOK
  <2> QED
    BY <1>4, <2>2, <2>4, FlptGets
<1>5. PICK F : F = FindTable(w, x)
  OBVIOUS
<1>6. PICK G : G = FreeTables(m)
  OBVIOUS
<1>7. CASE F # {}
  <2>1. PICK c : c = CHOOSE t \in F : TRUE
    OBVIOUS
  <2>2. c \in F
    BY <1>7, <2>1
  <2>3. c \in Cpt /\ m.cpt[c].obj = w.obj /\ m.cpt[c].ro = w.ro
        /\ m.cpt[c].ndx = d /\ (~w.ro => m.cpt[c].addr = x)
    BY <1>1, <1>2, <1>5, <2>2 DEF FindTable
  <2>4. PICK e : e = [Zapped EXCEPT !.st = "valid", !.to = c]
    OBVIOUS
  <2>5. PICK n : n = [m EXCEPT !.flpt = [m.flpt EXCEPT ![x] = e]]
    OBVIOUS
  <2>6. FlptOnly(m, n, x, e)
    BY <2>3, <2>4, <2>5, FlptChanged, TableEntryFacts
  <2>61. e.to = c
    BY <2>3, <2>4, TableEntryFacts
  <2>7. n \in MapSet /\ MapOK(n, tree, co) /\ n.flpt[x].to = c /\ n.cpt = m.cpt
        /\ n.ss = m.ss /\ n.hz = m.hz
    <3>1. MapOK(m, tree, co) /\ m \in MapSet
      BY <1>1
    <3> QED
      BY ONLY <1>4, <2>3, <2>6, <2>61, <3>1
  <2>8. r = [w EXCEPT !.m = n]
    BY <1>1, <1>5, <1>7, <2>1, <2>4, <2>5 DEF UseTable
  <2>9. r \in WalkSet /\ r.m = n /\ r.obj = w.obj /\ r.off = w.off /\ r.ro = w.ro
    BY ONLY w \in WalkSet, <2>7, <2>8 DEF WalkSet
  <2>10. Clings(w.m, r.m)
    BY ONLY <1>1, <2>7, <2>9 DEF Clings
  <2> QED
    BY <1>2, <2>3, <2>7, <2>9, <2>10
<1>8. CASE F = {} /\ G = {}
  <2>1. r = Ended(w, "yield")
    BY <1>1, <1>5, <1>6, <1>8 DEF UseTable
  <2> QED
    <3>1. /\ r \in WalkSet /\ r.res = "yield" /\ r.m = w.m
          /\ r.obj = w.obj /\ r.off = w.off /\ r.ro = w.ro
      BY ONLY <2>1, w \in WalkSet, EndedFields
    <3> QED
      BY ONLY <3>1, MapOK(w.m, tree, co) DEF Clings
<1>9. CASE F = {} /\ G # {}
  <2>1. PICK c : c = CHOOSE t \in G : TRUE
    OBVIOUS
  <2>2. c \in G
    BY <1>9, <2>1
  <2>3. c \in Cpt /\ m.cpt[c] = NoTable
    BY <1>6, <2>2 DEF FreeTables
  <2>4. PICK k : k = [obj |-> w.obj, ro |-> w.ro, addr |-> x, ndx |-> d]
    OBVIOUS
  <2>5. k \in TableSet /\ k.obj = w.obj /\ k.ro = w.ro /\ k.addr = x /\ k.ndx = d
    <3>1. x \in Nat
      BY EntrySpace
    <3> QED
      BY <1>3, <2>4, <3>1 DEF TableSet
  <2>6. PICK u : u = [m EXCEPT !.cpt = [m.cpt EXCEPT ![c] = k]]
    OBVIOUS
  <2>7. u \in MapSet /\ MapOK(u, tree, co) /\ u.cpt[c] = k /\ u.hz = m.hz
        /\ u.dep = m.dep /\ u.ss = m.ss
    <3>1. PICK a : a = [m.cpt EXCEPT ![c] = k]
      OBVIOUS
    <3>2. a \in [Cpt -> TableSet] /\ a[c] = k /\ \A q \in Cpt : q # c => a[q] = m.cpt[q]
      BY <2>3, <2>5, <3>1, MapFields
    <3>3. u \in MapSet /\ u.cpt = a /\ u.hz = m.hz /\ u.dep = m.dep /\ u.md = m.md
          /\ u.ss = m.ss /\ u.flpt = m.flpt /\ u.pte = m.pte /\ u.ca = m.ca
          /\ u.dirty = m.dirty
      BY ONLY m \in MapSet, <2>6, <3>1, <3>2 DEF MapSet
    <3>4. u.cpt[c] = k /\ \A q \in Cpt : q # c => u.cpt[q] = m.cpt[q]
      BY <3>2, <3>3
    <3>5. MapOK(u, tree, co)
      BY <1>1, <2>3, <2>5, <3>3, <3>4, CptGets
    <3> QED
      BY <3>3, <3>4, <3>5
  <2>8. PICK e : e = [Zapped EXCEPT !.st = "valid", !.to = c]
    OBVIOUS
  <2>9. PICK n : n = [u EXCEPT !.flpt = [u.flpt EXCEPT ![x] = e]]
    OBVIOUS
  <2>10. FlptOnly(u, n, x, e)
    BY <2>3, <2>7, <2>8, <2>9, FlptChanged, TableEntryFacts
  <2>101. e.to = c
    BY <2>3, <2>8, TableEntryFacts
  <2>11. n \in MapSet /\ MapOK(n, tree, co) /\ n.flpt[x].to = c /\ n.cpt = u.cpt
         /\ n.ss = m.ss /\ n.hz = m.hz
    <3>1. /\ c \in Cpt /\ u.cpt[c].obj = w.obj /\ u.cpt[c].ro = w.ro
          /\ u.cpt[c].ndx = d /\ (~w.ro => u.cpt[c].addr = x)
      BY ONLY <2>3, <2>5, <2>7
    <3> QED
      BY ONLY <1>4, <2>7, <2>10, <2>101, <3>1
  <2>12. r \in WalkSet /\ r.m = n /\ r.obj = w.obj /\ r.off = w.off /\ r.ro = w.ro
    <3>1. r = [w EXCEPT !.m.cpt[c] = k, !.m.flpt[x] = e]
      BY <1>1, <1>2, <1>5, <1>6, <1>9, <2>1, <2>4, <2>8 DEF UseTable
    <3>2. PICK v : v = [w EXCEPT !.m.cpt[c] = k]
      OBVIOUS
    <3>3. v = [w EXCEPT !.m = u]
      BY <1>1, <2>6, <3>2
    <3>4. v \in WalkSet /\ v.m = u /\ v.obj = w.obj /\ v.off = w.off /\ v.ro = w.ro
      BY ONLY w \in WalkSet, <2>7, <3>3 DEF WalkSet
    <3>5. r = [v EXCEPT !.m = [v.m EXCEPT !.flpt = [v.m.flpt EXCEPT ![x] = e]]]
      BY <3>1, <3>2
    <3>6. r = [v EXCEPT !.m = n]
      BY <2>9, <3>4, <3>5
    <3> QED
      BY ONLY <2>11, <3>4, <3>6 DEF WalkSet
  <2>13. Clings(w.m, r.m)
    BY ONLY <1>1, <2>11, <2>12 DEF Clings
  <2> QED
    BY <1>2, <2>3, <2>5, <2>7, <2>11, <2>12, <2>13
<1> QED
  BY <1>7, <1>8, <1>9

\* The quotient and the remainder of an address, from those of its section.
LEMMA Within ==
    ASSUME NEW b \in Nat, b % SectionSize = 0, NEW r \in PageIx
    PROVE  /\ (b + r) \div SectionSize = b \div SectionSize
           /\ (b + r) % SectionSize = r
           /\ b = (b \div SectionSize) * SectionSize /\ b \div SectionSize \in Nat
<1>1. PICK z : z = SectionSize
  OBVIOUS
<1>2. PICK q : q = b \div z
  OBVIOUS
<1>3. z \in Nat \ {0} /\ r \in 0 .. z - 1
  BY <1>1, Sizes DEF PageIx
<1>4. b = z * q /\ q \in Nat
  <2>1. b = z * (b \div z) + (b % z) /\ b \div z \in Nat
    BY ONLY <1>3, b \in Nat, Division
  <2>2. z * q \in Nat
    BY <1>2, <1>3, <2>1, Multiples
  <2> QED
    BY <1>1, <1>2, <2>1, <2>2
<1>5. (z * q + r) \div z = q /\ (z * q + r) % z = r
  BY ONLY <1>3, <1>4, DivisionUnique
<1>6. q * z = z * q
  BY <1>3, <1>4, Multiples
<1> QED
  BY <1>1, <1>2, <1>4, <1>5, <1>6

LEMMA OffsetFacts ==
    ASSUME NEW x \in FlptIx
    PROVE  OffsetOf(x) \in Nat /\ OffsetOf(x) % SectionSize = 0
<1>1. PICK z : z = SectionSize
  OBVIOUS
<1>2. PICK q : q = x % SectionsInSpace
  OBVIOUS
<1>3. z \in Nat \ {0} /\ q \in Nat
  <2>1. x \in Nat /\ SectionsInSpace \in Nat \ {0} /\ z \in Nat \ {0}
    BY <1>1, EntrySpace, Sizes
  <2>2. x % SectionsInSpace \in 0 .. SectionsInSpace - 1
    BY ONLY <2>1, Division
  <2> QED
    BY <1>2, <2>1, <2>2
<1>4. q * z = z * q /\ z * q \in Nat
  BY <1>3, Multiples
<1>5. (z * q + 0) % z = 0
  <2>1. 0 \in 0 .. z - 1
    BY <1>3
  <2> QED
    BY ONLY <1>3, <2>1, DivisionUnique
<1> QED
  BY <1>1, <1>2, <1>4, <1>5 DEF OffsetOf

\* The walk at the first level finds what it would for the section.
LEMMA SectionWalk ==
    ASSUME TreeOK(tree), NEW obj \in Gpt, NEW b \in Nat, b % SectionSize = 0,
           NEW r \in PageIx, Arrived(tree, obj, b + r, SectionSize),
           NEW t, t = Trace(tree, obj, b + r, SectionSize),
           NEW u, u = Trace(tree, obj, b, SectionSize)
    PROVE  /\ Arrived(tree, obj, b, SectionSize) /\ Beside(t, u, r)
           /\ t.obj \in Gpt /\ Span[t.obj] < SectionSize
           /\ u.off \in Nat /\ u.off % SectionSize = 0 /\ u.ro \in BOOLEAN
<1>1. /\ tree \in [Slot -> Key] /\ SectionSize \in Nat /\ obj \in Obj
      /\ obj \in Obj \cup {None} /\ b + r \in Nat /\ r \in 0 .. SectionSize - 1
  BY Sizes DEF TreeOK, Obj, PageIx
<1>2. \A n \in 0 .. 2 * MaxDepth :
             Beside(Steps(tree, obj, b + r, SectionSize)[n],
                    Steps(tree, obj, b, SectionSize)[n], r)
  BY <1>1, SameSection
<1>3. MaxDepth \in Nat /\ 2 * MaxDepth \in 0 .. 2 * MaxDepth
      /\ 0 .. MaxDepth \subseteq 0 .. 2 * MaxDepth
  BY Sizes
<1>4. Beside(t, u, r)
  BY <1>2, <1>3 DEF Trace
<1>5. Arrived(tree, obj, b, SectionSize)
  <2>1. PICK n \in 0 .. MaxDepth : AtEnd(Steps(tree, obj, b + r, SectionSize)[n], SectionSize)
    BY DEF Arrived
  <2>2. Steps(tree, obj, b + r, SectionSize)[n].obj = Steps(tree, obj, b, SectionSize)[n].obj
    BY <1>2, <1>3 DEF Beside
  <2> QED
    BY <2>1, <2>2 DEF Arrived, AtEnd
<1>6. AtEnd(t, SectionSize) /\ t.obj \notin Page
  <2>1. AtEnd(t, SectionSize)
    BY <1>1, TraceFacts
  <2>2. t.obj \notin Page
    BY <1>1, RunNoPage
  <2> QED
    BY <2>1, <2>2
<1>7. u \in TraceSet
  BY <1>1, TraceFacts
<1> QED
  BY <1>4, <1>5, <1>6, <1>7 DEF AtEnd, Beside, TraceSet

\* What GetCPT is called with once the space is known, and what it returns.
SectionSought(w, x, i) ==
    /\ w \in WalkSet /\ MapOK(w.m, tree, core) /\ x \in FlptIx /\ i \in PageIx
    /\ w.off = OffsetOf(x) + i /\ w.obj \in Gpt
    /\ w.m.ss[SpaceOf(x)] = [obj |-> w.obj, ro |-> w.ro]

SectionFound(r, w, x, i) ==
    /\ r \in WalkSet /\ MapOK(r.m, tree, core) /\ Clings(w.m, r.m)
    /\ r.res = "ok" =>
         LET c == r.m.flpt[x].to
         IN  /\ c \in Cpt /\ r.obj \in Gpt /\ r.m.cpt[c].obj = r.obj
             /\ r.m.cpt[c].ro = r.ro
             /\ r.off = r.m.cpt[c].ndx * SectionSize + i
             /\ ~r.ro => r.m.cpt[c].addr = x

LEMMA SecondLevelOK ==
    ASSUME TreeOK(tree), core \subseteq Obj, NEW w, NEW x, NEW i, SectionSought(w, x, i),
           NEW write \in BOOLEAN, NEW r, r = GetCPT(w, x, write)
    PROVE  SectionFound(r, w, x, i)
<1> SUFFICES /\ r \in WalkSet /\ MapOK(r.m, tree, core) /\ Clings(w.m, r.m)
             /\ r.res = "ok" =>
                  LET c == r.m.flpt[x].to
                  IN  /\ c \in Cpt /\ r.obj \in Gpt /\ r.m.cpt[c].obj = r.obj
                      /\ r.m.cpt[c].ro = r.ro
                      /\ r.off = r.m.cpt[c].ndx * SectionSize + i
                      /\ ~r.ro => r.m.cpt[c].addr = x
  BY DEF SectionFound
<1>0. /\ w \in WalkSet /\ MapOK(w.m, tree, core) /\ x \in FlptIx /\ i \in PageIx
      /\ w.off = OffsetOf(x) + i /\ w.obj \in Gpt
      /\ w.m.ss[SpaceOf(x)] = [obj |-> w.obj, ro |-> w.ro]
  BY ONLY SectionSought(w, x, i) DEF SectionSought
<1> USE <1>0
<1>1. PICK m \in MapSet : m = w.m
  BY DEF WalkSet
<1>2. PICK f \in TableEntry(Cpt) : f = m.flpt[x]
  BY MapFields
<1>3. w.off \in Nat /\ OffsetOf(x) \in Nat /\ OffsetOf(x) % SectionSize = 0
      /\ w.off % SectionSize = i /\ w.ro \in BOOLEAN /\ SectionSize \in Nat
  <2>1. OffsetOf(x) \in Nat /\ OffsetOf(x) % SectionSize = 0
    BY OffsetFacts
  <2>2. (OffsetOf(x) + i) % SectionSize = i
    BY <2>1, Within
  <2>3. w.off \in Nat /\ w.ro \in BOOLEAN /\ SectionSize \in Nat
    BY Sizes DEF WalkSet
  <2> QED
    BY <2>1, <2>2, <2>3
<1>4. CASE Live(f)
  <2>1. PICK t : t = m.cpt[f.to]
    OBVIOUS
  <2>2. f.to \in Cpt /\ t.obj \in Gpt /\ (~t.ro => t.addr = x) /\ t \in TableSet
    <3>1. FlptOK(m, tree, x)
      BY <1>1 DEF MapOK
    <3>2. f.to \in Cpt /\ t.obj \in Gpt /\ (~t.ro => t.addr = x)
      BY <1>2, <1>4, <2>1, <3>1 DEF FlptOK
    <3> QED
      BY <2>1, <3>2, MapFields
  <2>3. PICK e : e = [f EXCEPT !.st = "valid"]
    OBVIOUS
  <2>4. e \in TableEntry(Cpt) /\ e.to = f.to
    BY <2>3 DEF TableEntry
  <2>5. PICK n : n = [m EXCEPT !.flpt = [m.flpt EXCEPT ![x] = e]]
    OBVIOUS
  <2>6. FlptOnly(m, n, x, e)
    BY <2>4, <2>5, FlptChanged
  <2>7. n \in MapSet /\ MapOK(n, tree, core) /\ n.flpt[x] = e /\ n.cpt = m.cpt
        /\ n.ss = m.ss /\ n.hz = m.hz
    <3>1. MapOK(n, tree, core)
      BY <1>1, <1>2, <1>4, <2>4, <2>6, FlptMarked
    <3> QED
      BY <2>6, <3>1 DEF FlptOnly
  <2>8. PICK o : o = (w.off % SectionSize) + t.ndx * SectionSize
    OBVIOUS
  <2>9. o \in Nat /\ o = t.ndx * SectionSize + i
    <3>1. t.ndx \in Nat /\ i \in Nat
      BY <2>2, Sizes DEF TableSet, PageIx
    <3>2. t.ndx * SectionSize \in Nat
      BY <1>3, <3>1, Multiples
    <3> QED
      BY <1>3, <2>8, <3>1, <3>2
  <2>10. r = [w EXCEPT !.m = n, !.obj = t.obj, !.ro = t.ro, !.off = o, !.res = "ok"]
    <3>1. r = [w EXCEPT !.m.flpt[x].st = "valid", !.obj = t.obj, !.ro = t.ro,
                        !.off = (@ % SectionSize) + t.ndx * SectionSize, !.res = "ok"]
      BY <1>1, <1>2, <1>4, <2>1 DEF GetCPT, Live
    <3> QED
      BY <1>1, <1>2, <2>3, <2>5, <2>8, <3>1
  <2>11. t.ro \in BOOLEAN /\ t.obj \in Obj \cup {None}
    BY <2>2 DEF TableSet, Obj
  <2>12. r \in WalkSet /\ r.m = n /\ r.obj = t.obj /\ r.ro = t.ro /\ r.off = o
    BY ONLY w \in WalkSet, <2>7, <2>9, <2>10, <2>11 DEF WalkSet
  <2>13. Clings(w.m, r.m)
    BY ONLY <1>1, <2>7, <2>12 DEF Clings
  <2> QED
    BY <2>1, <2>2, <2>4, <2>7, <2>9, <2>12, <2>13
<1>5. CASE ~Live(f)
  <2>1. PICK n : n = [m EXCEPT !.flpt = [m.flpt EXCEPT ![x] = InProgress]]
    OBVIOUS
  <2>2. FlptOnly(m, n, x, InProgress)
    BY <2>1, FlptChanged, EntryFacts
  <2>3. n \in MapSet /\ MapOK(n, tree, core) /\ n.ss = m.ss /\ n.hz = m.hz
    <3>1. MapOK(n, tree, core)
      BY <1>1, <2>2, FlptMarked, EntryFacts
    <3> QED
      BY <2>2, <3>1 DEF FlptOnly
  <2>4. PICK z : z = [w EXCEPT !.m = n]
    OBVIOUS
  <2>5. z \in WalkSet /\ z.m = n /\ z.obj = w.obj /\ z.off = w.off /\ z.ro = w.ro
    BY ONLY w \in WalkSet, <2>3, <2>4 DEF WalkSet
  <2>6. PICK y : y = WalkSeg(z, SectionSize, write, Flpt, x)
    OBVIOUS
  <2>7. PICK l : l = <<Flpt, x>>
    OBVIOUS
  <2>8. l \in Place /\ l[1] = Flpt /\ l[2] = x
    BY <2>7, PlaceFacts
  <2>9. PICK t : t = Trace(tree, w.obj, w.off, SectionSize)
    OBVIOUS
  <2>10. /\ y \in WalkSet /\ Narrows(n, y.m) /\ y.res # "walk"
         /\ y.res = "ok" => /\ Arrived(tree, w.obj, w.off, SectionSize)
                            /\ Follows(y, t, w.ro, write, l)
    <3>1. z.obj \in Obj
      BY <2>5 DEF Obj
    <3>2. y = WalkSeg(z, SectionSize, write, l[1], l[2])
      BY <2>6, <2>8
    <3>3. t = Trace(tree, z.obj, z.off, SectionSize)
      BY <2>5, <2>9
    <3>4. /\ y \in WalkSet /\ Narrows(z.m, y.m) /\ y.res # "walk"
          /\ y.res = "ok" => /\ Arrived(tree, z.obj, z.off, SectionSize)
                             /\ Follows(y, t, z.ro, write, l)
      BY <1>3, <2>5, <2>8, <3>1, <3>2, <3>3, WalkSegOK
    <3> QED
      BY <2>5, <3>4
  <2>11. y.m \in MapSet /\ MapOK(y.m, tree, core) /\ y.m.ss = m.ss /\ Clings(w.m, y.m)
    <3>1. y.m \in MapSet /\ MapOK(y.m, tree, core)
      BY <2>3, <2>10, ShrinksOK DEF Narrows
    <3> QED
      BY <1>1, <2>3, <2>10, <3>1 DEF Narrows, Shrinks, Clings
  <2>12. r = IF y.res # "ok" THEN y
             ELSE IF y.m.flpt[x] # InProgress THEN Ended(y, "yield") ELSE UseTable(y, x)
    BY <1>1, <1>2, <1>5, <2>1, <2>4, <2>6 DEF GetCPT, Live
  <2>13. CASE y.res # "ok"
    BY <2>10, <2>11, <2>12, <2>13
  <2>14. CASE y.res = "ok" /\ y.m.flpt[x] # InProgress
    <3>1. r = Ended(y, "yield")
      BY <2>12, <2>14
    <3>2. r \in WalkSet /\ r.res = "yield" /\ r.m = y.m
      BY <2>10, <3>1, EndedFields
    <3> QED
      BY <2>11, <3>2
  <2>15. CASE y.res = "ok" /\ y.m.flpt[x] = InProgress
    <3>1. r = UseTable(y, x)
      BY <2>12, <2>15
    <3>2. PICK u : u = Trace(tree, w.obj, OffsetOf(x), SectionSize)
      OBVIOUS
    <3>3. /\ Arrived(tree, w.obj, OffsetOf(x), SectionSize) /\ Beside(t, u, i)
          /\ t.obj \in Gpt /\ Span[t.obj] < SectionSize
          /\ u.off \in Nat /\ u.off % SectionSize = 0 /\ u.ro \in BOOLEAN
      BY <1>3, <2>9, <2>10, <2>15, <3>2, SectionWalk
    <3>4. /\ y.obj = u.obj /\ y.off = u.off + i /\ y.ro = (w.ro \/ u.ro)
          /\ t.slots = u.slots /\ y.obj \in Gpt /\ Span[y.obj] < SectionSize
      BY <2>10, <2>15, <3>3 DEF Follows, Beside
    <3>5. \A e \in u.slots : Covers(y.m, e, Flpt, x)
      <4>1. At(y.m, l) # Gone(l)
        BY <2>7, <2>15, PlaceFacts, EntryFacts
      <4> QED
        BY <2>8, <2>10, <2>15, <3>4, <4>1 DEF Follows
    <3>6. y.off \div SectionSize = u.off \div SectionSize /\ u.off \div SectionSize \in Nat
          /\ u.off = (u.off \div SectionSize) * SectionSize
      BY <3>3, <3>4, Within
    <3>7. PICK h : h = y.m.ss[SpaceOf(x)]
      OBVIOUS
    <3>8. h.obj = w.obj /\ h.ro = w.ro
      BY <1>1, <2>11, <3>7
    <3>9. /\ r \in WalkSet /\ MapOK(r.m, tree, core) /\ Clings(y.m, r.m)
           /\ r.obj = y.obj /\ r.off = y.off /\ r.ro = y.ro
           /\ \/ r.res = "yield"
              \/ LET c == r.m.flpt[x].to
                 IN  /\ c \in Cpt /\ r.m.cpt[c].obj = y.obj /\ r.m.cpt[c].ro = y.ro
                     /\ r.m.cpt[c].ndx = y.off \div SectionSize
                     /\ ~y.ro => r.m.cpt[c].addr = x
      <4>1. /\ y \in WalkSet /\ MapOK(y.m, tree, core) /\ x \in FlptIx
            /\ h.obj \in Gpt
        BY <2>10, <2>11, <3>8
      <4>2. /\ u = Trace(tree, h.obj, OffsetOf(x), SectionSize)
            /\ Arrived(tree, h.obj, OffsetOf(x), SectionSize)
            /\ y.ro = (h.ro \/ u.ro)
        BY ONLY <3>2, <3>3, <3>4, <3>8
      <4>3. /\ y.obj = u.obj /\ y.obj \in Gpt /\ Span[y.obj] < SectionSize
            /\ y.off \div SectionSize = u.off \div SectionSize
        BY ONLY <3>4, <3>6
      <4>4. TableSought(y, x, h, u, core)
        BY ONLY <4>1, <4>2, <4>3, <3>5, <3>7 DEF TableSought
      <4>5. TableUsed(r, y, x, core)
        BY ONLY TreeOK(tree), <3>1, <4>4, UseTableOK
      <4> QED
        BY ONLY <4>5 DEF TableUsed
    <3>10. Clings(w.m, r.m)
      BY <2>11, <3>9, ClingsMore
    <3> QED
      BY <3>4, <3>6, <3>9, <3>10
  <2> QED
    BY <2>13, <2>14, <2>15
<1> QED
  BY <1>4, <1>5
-----------------------------------------------------------------------------
(* The entry of the page.                                                    *)

\* n is m but for one entry of a coarse page table.
PteOnly(m, n, c, j, t) ==
    /\ n \in MapSet /\ n.hz = m.hz /\ n.dep = m.dep /\ n.md = m.md /\ n.ss = m.ss
    /\ n.flpt = m.flpt /\ n.cpt = m.cpt /\ n.ca = m.ca /\ n.dirty = m.dirty
    /\ n.pte[c][j] = t
    /\ \A d \in Cpt, i \in PageIx : d # c \/ i # j => n.pte[d][i] = m.pte[d][i]

LEMMA PteChanged ==
    ASSUME NEW m \in MapSet, NEW c \in Cpt, NEW j \in PageIx, NEW t \in TableEntry(Page)
    PROVE  PteOnly(m, [m EXCEPT !.pte = [m.pte EXCEPT ![c] = [m.pte[c] EXCEPT ![j] = t]]],
                   c, j, t)
<1>0. m.pte \in [Cpt -> [PageIx -> TableEntry(Page)]]
  BY MapFields
<1>1. PICK b : b = [m.pte[c] EXCEPT ![j] = t]
  OBVIOUS
<1>2. /\ b \in [PageIx -> TableEntry(Page)] /\ b[j] = t
      /\ \A i \in PageIx : i # j => b[i] = m.pte[c][i]
  BY <1>0, <1>1
<1>3. PICK a : a = [m.pte EXCEPT ![c] = b]
  OBVIOUS
<1>4. /\ a \in [Cpt -> [PageIx -> TableEntry(Page)]] /\ a[c] = b
      /\ \A d \in Cpt : d # c => a[d] = m.pte[d]
  BY <1>0, <1>2, <1>3
<1>5. PICK n : n = [m EXCEPT !.pte = a]
  OBVIOUS
<1>6. n \in MapSet /\ n.pte = a /\ n.hz = m.hz /\ n.dep = m.dep /\ n.ss = m.ss
      /\ n.md = m.md /\ n.cpt = m.cpt /\ n.flpt = m.flpt /\ n.ca = m.ca
      /\ n.dirty = m.dirty
  BY ONLY m \in MapSet, <1>4, <1>5 DEF MapSet
<1>7. PteOnly(m, n, c, j, t)
  BY <1>2, <1>4, <1>6 DEF PteOnly
<1> QED
  BY <1>1, <1>3, <1>5, <1>7

LEMMA PteGets ==
    ASSUME NEW m \in MapSet, NEW tr, NEW co, MapOK(m, tr, co), NEW c \in Cpt,
           NEW j \in PageIx, NEW t, NEW n, PteOnly(m, n, c, j, t),
           PteOK(n, tr, co, c, j), CacheOK(n, c, j)
    PROVE  MapOK(n, tr, co)
<1>1. n.hz = m.hz /\ n.dep = m.dep /\ n.md = m.md /\ n.ss = m.ss
      /\ n.flpt = m.flpt /\ n.cpt = m.cpt /\ n.ca = m.ca /\ n.dirty = m.dirty
      /\ \A d \in Cpt, i \in PageIx : d # c \/ i # j => n.pte[d][i] = m.pte[d][i]
  BY DEF PteOnly
<1>2. \A e, tab, ix : Covers(n, e, tab, ix) <=> Covers(m, e, tab, ix)
  BY <1>1 DEF Covers
<1>3. ASSUME NEW q \in Proc PROVE ProcOK(n, tr, q)
  <2>1. ProcOK(m, tr, q)
    BY DEF MapOK
  <2> QED
    BY <1>1, <1>2, <2>1 DEF ProcOK
<1>4. ASSUME NEW y \in FlptIx PROVE FlptOK(n, tr, y)
  <2>1. FlptOK(m, tr, y)
    BY DEF MapOK
  <2> QED
    BY <1>1, <1>2, <2>1 DEF FlptOK
<1>5. ASSUME NEW d \in Cpt, NEW i \in PageIx, d # c \/ i # j
      PROVE  PteOK(n, tr, co, d, i) /\ CacheOK(n, d, i)
  <2>1. PteOK(m, tr, co, d, i) /\ CacheOK(m, d, i) /\ n.pte[d][i] = m.pte[d][i]
    BY <1>1, <1>5 DEF MapOK
  <2> QED
    BY <1>1, <1>2, <2>1 DEF PteOK, CacheOK
<1>6. ASSUME NEW d \in Cpt PROVE CptOK(n, d)
  BY <1>1 DEF MapOK, CptOK
<1>7. ASSUME NEW d \in Cpt, NEW i \in PageIx
      PROVE  PteOK(n, tr, co, d, i) /\ CacheOK(n, d, i)
  BY <1>5
<1> QED
  BY <1>1, <1>3, <1>4, <1>6, <1>7 DEF MapOK

\* n is m but for the cacheAddr of one page.
CacheOnly(m, n, x, k) ==
    /\ n \in MapSet /\ n.hz = m.hz /\ n.dep = m.dep /\ n.md = m.md /\ n.ss = m.ss
    /\ n.flpt = m.flpt /\ n.cpt = m.cpt /\ n.pte = m.pte /\ n.dirty = m.dirty
    /\ n.ca[x] = k /\ \A y \in Page : y # x => n.ca[y] = m.ca[y]

LEMMA CacheChanged ==
    ASSUME NEW m \in MapSet, NEW x \in Page, NEW k \in CacheSet
    PROVE  CacheOnly(m, [m EXCEPT !.ca = [m.ca EXCEPT ![x] = k]], x, k)
<1>1. PICK a : a = [m.ca EXCEPT ![x] = k]
  OBVIOUS
<1>2. /\ a \in [Page -> CacheSet] /\ a[x] = k
      /\ \A y \in Page : y # x => a[y] = m.ca[y]
  BY <1>1, MapFields
<1>3. PICK n : n = [m EXCEPT !.ca = a]
  OBVIOUS
<1>4. n \in MapSet /\ n.ca = a /\ n.hz = m.hz /\ n.dep = m.dep /\ n.ss = m.ss
      /\ n.md = m.md /\ n.cpt = m.cpt /\ n.flpt = m.flpt /\ n.pte = m.pte
      /\ n.dirty = m.dirty
  BY ONLY m \in MapSet, <1>2, <1>3 DEF MapSet
<1>5. CacheOnly(m, n, x, k)
  BY <1>2, <1>4 DEF CacheOnly
<1> QED
  BY <1>1, <1>3, <1>5

\* What an entry of the page x may be, given its cacheAddr.
Permits(m, a, c, j, writes) ==
    LET here == ~m.cpt[c].ro /\ m.cpt[c].addr * SectionSize + j = a.at
    IN  /\ a.class # "none"
        /\ a.class = "onereader" => here /\ ~writes
        /\ a.class = "writeable" => here
        /\ a.class = "readers" => ~writes

LEMMA CacheGets ==
    ASSUME NEW m \in MapSet, NEW tr, TreeOK(tr), NEW co, MapOK(m, tr, co),
           NEW x \in Page, NEW k,
           \A c \in Cpt, j \in PageIx : Live(m.pte[c][j]) /\ m.pte[c][j].to = x =>
             Permits(m, k, c, j, Writes(m.pte[c][j])) /\ k.class # "uncached",
           NEW n, CacheOnly(m, n, x, k)
    PROVE  MapOK(n, tr, co)
<1>1. n.hz = m.hz /\ n.dep = m.dep /\ n.md = m.md /\ n.ss = m.ss
      /\ n.flpt = m.flpt /\ n.cpt = m.cpt /\ n.pte = m.pte /\ n.dirty = m.dirty
      /\ n.ca[x] = k /\ \A y \in Page : y # x => n.ca[y] = m.ca[y]
  BY DEF CacheOnly
<1>2. \A e, tab, ix : Covers(n, e, tab, ix) <=> Covers(m, e, tab, ix)
  BY <1>1 DEF Covers
<1>3. ASSUME NEW q \in Proc PROVE ProcOK(n, tr, q)
  <2>1. ProcOK(m, tr, q)
    BY DEF MapOK
  <2> QED
    BY <1>1, <1>2, <2>1 DEF ProcOK
<1>4. ASSUME NEW y \in FlptIx PROVE FlptOK(n, tr, y)
  <2>1. FlptOK(m, tr, y)
    BY DEF MapOK
  <2> QED
    BY <1>1, <1>2, <2>1 DEF FlptOK
<1>5. ASSUME NEW d \in Cpt, NEW i \in PageIx
      PROVE  PteOK(n, tr, co, d, i) /\ CacheOK(n, d, i)
  <2>1. PteOK(m, tr, co, d, i) /\ CacheOK(m, d, i)
    BY DEF MapOK
  <2>2. PteOK(n, tr, co, d, i)
    BY <1>1, <1>2, <2>1 DEF PteOK
  <2>3. CASE ~Live(m.pte[d][i])
    BY <1>1, <2>2, <2>3 DEF CacheOK
  <2>4. CASE Live(m.pte[d][i]) /\ m.pte[d][i].to = x
    <3>1. Permits(m, k, d, i, Writes(m.pte[d][i])) /\ k.class # "uncached"
      BY <2>4
    <3> QED
      BY <1>1, <2>2, <2>4, <3>1 DEF CacheOK, Permits, Writes
  <2>5. CASE Live(m.pte[d][i]) /\ m.pte[d][i].to # x
    <3>1. n.ca[m.pte[d][i].to] = m.ca[m.pte[d][i].to]
      BY <1>1, <2>5, PteSlot
    <3> QED
      BY <1>1, <2>1, <2>2, <3>1 DEF CacheOK
  <2> QED
    BY <2>2, <2>3, <2>4, <2>5
<1>6. ASSUME NEW d \in Cpt PROVE CptOK(n, d)
  BY <1>1 DEF MapOK, CptOK
<1> QED
  BY <1>1, <1>3, <1>4, <1>5, <1>6 DEF MapOK

\* The classes of a page that no entry is for.
FromNone(m, x, mva, ro, write) ==
    IF write THEN [m EXCEPT !.ca[x] = [class |-> "writeable", at |-> mva]]
    ELSE IF ro THEN [m EXCEPT !.ca[x] = [class |-> "readers", at |-> 0]]
    ELSE [m EXCEPT !.ca[x] = [class |-> "onereader", at |-> mva]]

\* n is m but for the class of x, and is right.
Recached(m, n, x) ==
    \E k \in CacheSet : CacheOnly(m, n, x, k) /\ MapOK(n, tree, core)

LEMMA CacheKeys ==
    ASSUME NEW at \in Nat,
           NEW class \in {"none", "onereader", "writeable", "readers", "uncached"},
           NEW k, k = [class |-> class, at |-> at]
    PROVE  k \in CacheSet /\ k.class = class /\ k.at = at
BY DEF CacheSet

LEMMA FreshClass ==
    ASSUME TreeOK(tree), NEW m \in MapSet, MapOK(m, tree, core), NEW x \in Page,
           \A d \in Cpt, i \in PageIx : Live(m.pte[d][i]) => m.pte[d][i].to # x,
           NEW k \in CacheSet, NEW n, CacheOnly(m, n, x, k)
    PROVE  Recached(m, n, x) /\ n.ca[x] = k
<1>1. MapOK(n, tree, core)
  BY CacheGets
<1> QED
  BY <1>1 DEF Recached, CacheOnly

LEMMA FromNoneOK ==
    ASSUME TreeOK(tree), NEW m \in MapSet, MapOK(m, tree, core), NEW x \in Page,
           \A d \in Cpt, i \in PageIx : Live(m.pte[d][i]) => m.pte[d][i].to # x,
           NEW mva \in Nat, NEW c \in Cpt, NEW j \in PageIx,
           ~m.cpt[c].ro => mva = m.cpt[c].addr * SectionSize + j,
           NEW write \in BOOLEAN, NEW n, n = FromNone(m, x, mva, m.cpt[c].ro, write)
    PROVE  /\ Recached(m, n, x)
           /\ ~(m.cpt[c].ro /\ write) => Permits(m, n.ca[x], c, j, write)
<1>1. CASE write
  <2>1. PICK k : k = [class |-> "writeable", at |-> mva]
    OBVIOUS
  <2>2. k \in CacheSet /\ k.class = "writeable" /\ k.at = mva
    BY <2>1, CacheKeys
  <2>3. n = [m EXCEPT !.ca = [m.ca EXCEPT ![x] = k]]
    BY <1>1, <2>1 DEF FromNone
  <2>31. CacheOnly(m, n, x, k)
    BY <2>2, <2>3, CacheChanged
  <2>4. Recached(m, n, x) /\ n.ca[x] = k
    BY <2>2, <2>31, FreshClass
  <2> QED
    BY <1>1, <2>2, <2>4 DEF Permits
<1>2. CASE ~write /\ m.cpt[c].ro
  <2>1. PICK k : k = [class |-> "readers", at |-> 0]
    OBVIOUS
  <2>2. k \in CacheSet /\ k.class = "readers"
    BY <2>1, CacheKeys
  <2>3. n = [m EXCEPT !.ca = [m.ca EXCEPT ![x] = k]]
    BY <1>2, <2>1 DEF FromNone
  <2>31. CacheOnly(m, n, x, k)
    BY <2>2, <2>3, CacheChanged
  <2>4. Recached(m, n, x) /\ n.ca[x] = k
    BY <2>2, <2>31, FreshClass
  <2> QED
    BY <1>2, <2>2, <2>4 DEF Permits
<1>3. CASE ~write /\ ~m.cpt[c].ro
  <2>1. PICK k : k = [class |-> "onereader", at |-> mva]
    OBVIOUS
  <2>2. k \in CacheSet /\ k.class = "onereader" /\ k.at = mva
    BY <2>1, CacheKeys
  <2>3. n = [m EXCEPT !.ca = [m.ca EXCEPT ![x] = k]]
    BY <1>3, <2>1 DEF FromNone
  <2>31. CacheOnly(m, n, x, k)
    BY <2>2, <2>3, CacheChanged
  <2>4. Recached(m, n, x) /\ n.ca[x] = k
    BY <2>2, <2>31, FreshClass
  <2> QED
    BY <1>3, <2>2, <2>4 DEF Permits
<1> QED
  BY <1>1, <1>2, <1>3

\* pageH_UnmapOldAddrs: nothing is mapped to the page, the entry for it neither.
LEMMA UnmapOK ==
    ASSUME TreeOK(tree), NEW m \in MapSet, MapOK(m, tree, core), NEW x \in Page,
           NEW c \in Cpt, NEW j \in PageIx,
           m.pte[c][j] = Zapped \/ \E e \in Slot : tree[e].obj = x /\ Covers(m, e, c, j),
           NEW n, n = ClearHazards(m, KeysTo(x))
    PROVE  /\ n \in MapSet /\ MapOK(n, tree, core) /\ n.pte[c][j] = Zapped
           /\ n.cpt = m.cpt /\ n.dirty = m.dirty /\ Clings(m, n)
           /\ \A d \in Cpt, i \in PageIx : Live(n.pte[d][i]) => n.pte[d][i].to # x
<1>1. Shrinks(m, n) /\ n.hz = m.hz \ KeysTo(x)
  BY ClearShrinks
<1>2. n \in MapSet /\ MapOK(n, tree, core)
  BY <1>1, ShrinksOK
<1>3. \A e \in Slot : tree[e].obj = x => e \notin n.hz
  BY <1>1 DEF KeysTo
<1>4. \A d \in Cpt, i \in PageIx : Live(n.pte[d][i]) => n.pte[d][i].to # x
  BY <1>2, <1>3, Unreached
<1>5. PICK l : l = <<c, j>>
  OBVIOUS
<1>6. l \in Place /\ l[1] = c /\ l[2] = j /\ Gone(l) = Zapped
      /\ At(n, l) = n.pte[c][j] /\ At(m, l) = m.pte[c][j]
  BY <1>5, PlaceFacts
<1>7. n.pte[c][j] = Zapped
  <2>1. CASE m.pte[c][j] = Zapped
    BY <1>1, <1>6, <2>1 DEF Shrinks
  <2>2. CASE \E e \in Slot : tree[e].obj = x /\ Covers(m, e, c, j)
    <3>1. PICK e \in Slot : tree[e].obj = x /\ Covers(m, e, c, j)
      BY <2>2
    <3>2. ~Covers(n, e, c, j)
      BY <1>3, <3>1 DEF Covers
    <3>3. ~Keeps(m, n, l)
      BY <1>6, <3>1, <3>2 DEF Keeps
    <3> QED
      BY <1>1, <1>6, <3>3 DEF Shrinks
  <2> QED
    BY <2>1, <2>2
<1>8. Clings(m, n)
  <2>1. \A e \in KeysTo(x) : tree[e] # VoidKey
    BY VoidKeys DEF Obj
  <2> QED
    BY <1>1, <2>1 DEF Shrinks, Clings
<1> QED
  BY <1>1, <1>2, <1>4, <1>7, <1>8 DEF Shrinks

\* What FillPTE needs and does about cacheAddr.
LEMMA CacheStep ==
    ASSUME TreeOK(tree), NEW m \in MapSet, MapOK(m, tree, core), NEW x \in Page,
           NEW c \in Cpt, NEW j \in PageIx,
           m.pte[c][j] = Zapped \/ \E e \in Slot : tree[e].obj = x /\ Covers(m, e, c, j),
           NEW mva \in Nat, ~m.cpt[c].ro => mva = m.cpt[c].addr * SectionSize + j,
           NEW write \in BOOLEAN, NEW calm \in BOOLEAN,
           m.cpt[c].ro /\ write => Live(m.pte[c][j]) /\ m.pte[c][j].to = x,
           NEW n, n = Cache(m, x, mva, m.cpt[c].ro, write, calm)
    PROVE  /\ n \in MapSet /\ MapOK(n, tree, core) /\ n.cpt = m.cpt /\ n.dirty = m.dirty
           /\ Clings(m, n)
           /\ \/ n.pte[c][j] = Zapped
              \/ /\ n.hz = m.hz /\ n.dep = m.dep /\ n.pte = m.pte
                 /\ Permits(n, n.ca[x], c, j, write)
<1>1. PICK a : a = m.ca[x]
  OBVIOUS
<1>2. a \in CacheSet
  BY <1>1, MapFields
<1>3. PICK ro \in BOOLEAN : ro = m.cpt[c].ro
  <2>1. m.cpt[c] \in TableSet
    BY MapFields
  <2> QED
    BY <2>1 DEF TableSet
<1>4. PICK u : u = ClearHazards(m, KeysTo(x))
  OBVIOUS
<1>5. PICK uncached : uncached = [class |-> "uncached", at |-> 0]
  OBVIOUS
<1>6. PICK readers : readers = [class |-> "readers", at |-> 0]
  OBVIOUS
<1>7. PICK writeable : writeable = [class |-> "writeable", at |-> mva]
  OBVIOUS
<1>8. /\ uncached \in CacheSet /\ readers \in CacheSet /\ writeable \in CacheSet
      /\ readers.class = "readers" /\ writeable.class = "writeable" /\ writeable.at = mva
  <2>1. uncached \in CacheSet
    BY <1>5, CacheKeys
  <2>2. readers \in CacheSet /\ readers.class = "readers"
    BY <1>6, CacheKeys
  <2>3. writeable \in CacheSet /\ writeable.class = "writeable" /\ writeable.at = mva
    BY <1>7, CacheKeys
  <2> QED
    BY <2>1, <2>2, <2>3
<1>9. PICK consider :
        consider = IF calm THEN FromNone(u, x, mva, ro, write)
                   ELSE [u EXCEPT !.ca = [u.ca EXCEPT ![x] = uncached]]
  OBVIOUS
<1>10. n = CASE a.class = "none" -> FromNone(m, x, mva, ro, write)
             [] a.class = "onereader" ->
                  IF ~ro /\ a.at = mva
                  THEN IF write THEN [m EXCEPT !.ca = [m.ca EXCEPT ![x] = writeable]] ELSE m
                  ELSE IF write THEN consider
                       ELSE [m EXCEPT !.ca = [m.ca EXCEPT ![x] = readers]]
             [] a.class = "writeable" -> IF ~ro /\ a.at = mva THEN m ELSE consider
             [] a.class = "readers" -> IF write THEN FromNone(u, x, mva, ro, write) ELSE m
             [] a.class = "uncached" -> m
  BY <1>1, <1>3, <1>4, <1>5, <1>6, <1>7, <1>9 DEF Cache, FromNone
<1>11. /\ u \in MapSet /\ MapOK(u, tree, core) /\ u.pte[c][j] = Zapped
       /\ u.cpt = m.cpt /\ u.dirty = m.dirty /\ Clings(m, u)
       /\ \A d \in Cpt, i \in PageIx : Live(u.pte[d][i]) => u.pte[d][i].to # x
  BY <1>4, UnmapOK
<1>12. ASSUME NEW b, Recached(u, b, x)
       PROVE  /\ b \in MapSet /\ MapOK(b, tree, core) /\ b.cpt = m.cpt
              /\ b.dirty = m.dirty /\ b.pte[c][j] = Zapped /\ Clings(m, b)
  BY <1>11, <1>12 DEF Recached, CacheOnly, Clings
<1>13. Recached(u, FromNone(u, x, mva, ro, write), x)
  <2>1. ~u.cpt[c].ro => mva = u.cpt[c].addr * SectionSize + j
    BY <1>11
  <2>2. u.cpt[c].ro = ro
    BY <1>3, <1>11
  <2> QED
    BY <1>11, <2>1, <2>2, FromNoneOK
<1>14. Recached(u, consider, x)
  <2>1. CASE calm
    BY <1>9, <1>13, <2>1
  <2>2. CASE ~calm
    <3>1. consider = [u EXCEPT !.ca = [u.ca EXCEPT ![x] = uncached]]
      BY <1>9, <2>2
    <3>2. CacheOnly(u, consider, x, uncached)
      BY <1>8, <1>11, <3>1, CacheChanged
    <3> QED
      BY <1>8, <1>11, <3>2, FreshClass
  <2> QED
    BY <2>1, <2>2
<1>15. ASSUME NEW d \in Cpt, NEW i \in PageIx, Live(m.pte[d][i]), m.pte[d][i].to = x
       PROVE  Permits(m, a, d, i, Writes(m.pte[d][i]))
  <2>1. CacheOK(m, d, i)
    BY DEF MapOK
  <2> QED
    BY <1>1, <1>15, <2>1 DEF CacheOK, Permits, Writes
<1>16. CASE a.class = "none"
  <2>1. n = FromNone(m, x, mva, m.cpt[c].ro, write)
    BY <1>3, <1>10, <1>16
  <2>2. \A d \in Cpt, i \in PageIx : Live(m.pte[d][i]) => m.pte[d][i].to # x
    BY <1>15, <1>16 DEF Permits
  <2>3. Recached(m, n, x) /\ (~(m.cpt[c].ro /\ write) => Permits(m, n.ca[x], c, j, write))
    BY <2>1, <2>2, FromNoneOK
  <2>4. ~(m.cpt[c].ro /\ write)
    BY <2>2
  <2> QED
    BY <2>3, <2>4 DEF Recached, CacheOnly, Permits, Clings
<1>17. CASE a.class = "onereader" /\ ~ro /\ a.at = mva /\ write
  <2>1. n = [m EXCEPT !.ca = [m.ca EXCEPT ![x] = writeable]]
    BY <1>10, <1>17
  <2>2. CacheOnly(m, n, x, writeable)
    BY <1>8, <2>1, CacheChanged
  <2>3. ASSUME NEW d \in Cpt, NEW i \in PageIx, Live(m.pte[d][i]), m.pte[d][i].to = x
        PROVE  Permits(m, writeable, d, i, Writes(m.pte[d][i]))
               /\ writeable.class # "uncached"
    <3>1. Permits(m, a, d, i, Writes(m.pte[d][i]))
      BY <1>15, <2>3
    <3> QED
      BY <1>8, <1>17, <3>1 DEF Permits
  <2>4. MapOK(n, tree, core)
    BY <2>2, <2>3, CacheGets
  <2>5. n \in MapSet /\ n.cpt = m.cpt /\ n.dirty = m.dirty /\ n.hz = m.hz
        /\ n.dep = m.dep /\ n.pte = m.pte /\ n.ca[x] = writeable /\ Clings(m, n)
    BY <2>2 DEF CacheOnly, Clings
  <2>6. Permits(n, n.ca[x], c, j, write)
    BY <1>3, <1>8, <1>17, <2>5 DEF Permits
  <2> QED
    BY <2>4, <2>5, <2>6
<1>18. CASE a.class = "onereader" /\ ~(~ro /\ a.at = mva) /\ ~write
  <2>1. n = [m EXCEPT !.ca = [m.ca EXCEPT ![x] = readers]]
    BY <1>10, <1>18
  <2>2. CacheOnly(m, n, x, readers)
    BY <1>8, <2>1, CacheChanged
  <2>3. ASSUME NEW d \in Cpt, NEW i \in PageIx, Live(m.pte[d][i]), m.pte[d][i].to = x
        PROVE  Permits(m, readers, d, i, Writes(m.pte[d][i]))
               /\ readers.class # "uncached"
    <3>1. Permits(m, a, d, i, Writes(m.pte[d][i]))
      BY <1>15, <2>3
    <3> QED
      BY <1>8, <1>18, <3>1 DEF Permits
  <2>4. MapOK(n, tree, core)
    BY <2>2, <2>3, CacheGets
  <2>5. n \in MapSet /\ n.cpt = m.cpt /\ n.dirty = m.dirty /\ n.hz = m.hz
        /\ n.dep = m.dep /\ n.pte = m.pte /\ n.ca[x] = readers /\ Clings(m, n)
    BY <2>2 DEF CacheOnly, Clings
  <2>6. Permits(n, n.ca[x], c, j, write)
    BY <1>8, <1>18, <2>5 DEF Permits
  <2> QED
    BY <2>4, <2>5, <2>6
<1>19. CASE n = consider \/ n = FromNone(u, x, mva, ro, write)
  BY <1>12, <1>13, <1>14, <1>19
<1>20. CASE n = m /\ Permits(m, a, c, j, write)
  BY <1>1, <1>20 DEF Clings
<1>21. CASE a.class = "onereader" /\ ~ro /\ a.at = mva /\ ~write
  <2>1. n = m
    BY <1>10, <1>21
  <2>2. Permits(m, a, c, j, write)
    BY <1>3, <1>21 DEF Permits
  <2> QED
    BY <1>20, <2>1, <2>2
<1>22. CASE a.class = "onereader" /\ ~(~ro /\ a.at = mva) /\ write
  <2>1. n = consider
    BY <1>10, <1>22
  <2> QED
    BY <1>19, <2>1
<1>23. CASE a.class = "writeable"
  <2>1. CASE ~ro /\ a.at = mva
    <3>1. n = m
      BY <1>10, <1>23, <2>1
    <3>2. Permits(m, a, c, j, write)
      BY <1>3, <1>23, <2>1 DEF Permits
    <3> QED
      BY <1>20, <3>1, <3>2
  <2>2. CASE ~(~ro /\ a.at = mva)
    <3>1. n = consider
      BY <1>10, <1>23, <2>2
    <3> QED
      BY <1>19, <3>1
  <2> QED
    BY <2>1, <2>2
<1>24. CASE a.class = "readers"
  <2>1. CASE write
    <3>1. n = FromNone(u, x, mva, ro, write)
      BY <1>10, <1>24, <2>1
    <3> QED
      BY <1>19, <3>1
  <2>2. CASE ~write
    <3>1. n = m
      BY <1>10, <1>24, <2>2
    <3>2. Permits(m, a, c, j, write)
      BY <1>24, <2>2 DEF Permits
    <3> QED
      BY <1>20, <3>1, <3>2
  <2> QED
    BY <2>1, <2>2
<1>25. CASE a.class = "uncached"
  <2>1. n = m
    BY <1>10, <1>25
  <2>2. Permits(m, a, c, j, write)
    BY <1>25 DEF Permits
  <2> QED
    BY <1>20, <2>1, <2>2
<1>26. a.class \in {"none", "onereader", "writeable", "readers", "uncached"}
  BY <1>2 DEF CacheSet
<1> QED
  BY <1>16, <1>17, <1>18, <1>21, <1>22, <1>23, <1>24, <1>25, <1>26

\* The tree has the page y where the entry is, and nothing forbids to fill it in.
Ready(m, c, j, y, write, blind) ==
    LET off == m.cpt[c].ndx * SectionSize + j
        path == Trace(tree, m.cpt[c].obj, off, 0)
    IN  /\ m.cpt[c] # NoTable
        /\ Arrived(tree, m.cpt[c].obj, off, 0) /\ path.obj = y /\ y \in Page \cap core
        /\ m.pte[c][j] = Zapped \/ \A e \in path.slots : Covers(m, e, c, j)
        /\ write /\ ~blind => ~m.cpt[c].ro /\ ~path.ro
        /\ write /\ m.cpt[c].ro => Live(m.pte[c][j]) /\ m.pte[c][j].to = y

LEMMA FillOK ==
    ASSUME TreeOK(tree), NEW w \in WalkSet, MapOK(w.m, tree, core),
           NEW c \in Cpt, NEW j \in PageIx, NEW x \in FlptIx,
           ~w.m.cpt[c].ro => w.m.cpt[c].addr = x,
           NEW write \in BOOLEAN, NEW calm \in BOOLEAN, NEW blind \in BOOLEAN,
           Ready(w.m, c, j, w.obj, write, blind),
           NEW r, r = FillPTE(w, c, j, x, write, calm, blind)
    PROVE  r \in MapSet /\ MapOK(r, tree, core) /\ Clings(w.m, r)
<1>1. PICK m \in MapSet : m = w.m
  BY DEF WalkSet
<1>2. PICK y : y = w.obj
  OBVIOUS
<1>3. PICK path : path = Trace(tree, m.cpt[c].obj, m.cpt[c].ndx * SectionSize + j, 0)
  OBVIOUS
<1>4. /\ m.cpt[c] # NoTable
      /\ Arrived(tree, m.cpt[c].obj, m.cpt[c].ndx * SectionSize + j, 0)
      /\ path.obj = y /\ y \in Page \cap core
      /\ m.pte[c][j] = Zapped \/ \A e \in path.slots : Covers(m, e, c, j)
      /\ write /\ ~blind => ~m.cpt[c].ro /\ ~path.ro
      /\ write /\ m.cpt[c].ro => Live(m.pte[c][j]) /\ m.pte[c][j].to = y
  BY <1>1, <1>2, <1>3 DEF Ready
<1>5. PICK D : D = IF write THEN m.dirty \cup {y} ELSE m.dirty
  OBVIOUS
<1>6. D \subseteq Page /\ m.dirty \subseteq D /\ (write => y \in D)
  BY <1>4, <1>5, MapFields
<1>7. PICK u : u = [m EXCEPT !.dirty = D]
  OBVIOUS
<1>8. u \in MapSet /\ u.dirty = D /\ u.hz = m.hz /\ u.dep = m.dep /\ u.md = m.md
      /\ u.ss = m.ss /\ u.flpt = m.flpt /\ u.cpt = m.cpt /\ u.pte = m.pte /\ u.ca = m.ca
  BY ONLY m \in MapSet, <1>6, <1>7 DEF MapSet
<1>9. MapOK(u, tree, core)
  BY <1>1, <1>6, <1>8, DirtyChange
<1>10. \A e, tab, ix : Covers(u, e, tab, ix) <=> Covers(m, e, tab, ix)
  BY <1>8 DEF Covers
<1>11. PICK mva : mva = x * SectionSize + j
  OBVIOUS
<1>12. mva \in Nat
  <2>1. x \in Nat /\ SectionSize \in Nat /\ j \in Nat
    BY EntrySpace, Sizes DEF PageIx
  <2>2. x * SectionSize \in Nat
    BY <2>1, Multiples
  <2> QED
    BY <1>11, <2>1, <2>2
<1>13. PICK n : n = Cache(u, y, mva, u.cpt[c].ro, write, calm)
  OBVIOUS
<1>14. u.pte[c][j] = Zapped \/ \E e \in Slot : tree[e].obj = y /\ Covers(u, e, c, j)
  <2>1. /\ tree \in [Slot -> Key] /\ m.cpt[c].obj \in Obj \cup {None} /\ 0 \in Nat
        /\ m.cpt[c].ndx * SectionSize + j \in Nat /\ path.slots \subseteq Slot
    BY <1>3, WalkTypes
  <2>2. path.obj = None \/ path = Begin(m.cpt[c].obj, m.cpt[c].ndx * SectionSize + j)
        \/ \E s \in path.slots : tree[s].obj = path.obj
    BY <1>3, <2>1, RunLast
  <2>3. m.cpt[c].obj \in Gpt
    BY <1>1, <1>4 DEF MapOK, CptOK
  <2>4. Begin(m.cpt[c].obj, m.cpt[c].ndx * SectionSize + j).obj = m.cpt[c].obj
    BY DEF Begin
  <2>5. \E s \in path.slots : tree[s].obj = y
    BY <1>4, <2>2, <2>3, <2>4, SlotFacts
  <2> QED
    BY <1>4, <1>8, <1>10, <2>1, <2>5
<1>15. /\ n \in MapSet /\ MapOK(n, tree, core) /\ n.cpt = u.cpt /\ n.dirty = u.dirty
       /\ Clings(u, n)
       /\ \/ n.pte[c][j] = Zapped
          \/ /\ n.hz = u.hz /\ n.dep = u.dep /\ n.pte = u.pte
             /\ Permits(n, n.ca[y], c, j, write)
  <2>1. ~u.cpt[c].ro => mva = u.cpt[c].addr * SectionSize + j
    BY <1>1, <1>8, <1>11
  <2>2. u.cpt[c].ro /\ write => Live(u.pte[c][j]) /\ u.pte[c][j].to = y
    BY <1>4, <1>8
  <2>3. y \in Page
    BY <1>4
  <2> QED
    BY <1>8, <1>9, <1>12, <1>13, <1>14, <2>1, <2>2, <2>3, CacheStep
<1>16. PICK cached \in BOOLEAN : cached = (n.ca[y].class # "uncached")
  OBVIOUS
<1>17. PICK t : t = [st |-> "valid", to |-> y, w |-> write, blind |-> blind,
                     cached |-> cached]
  OBVIOUS
<1>18. r = IF n.pte[c][j].st = "zapped" THEN n
           ELSE [n EXCEPT !.pte = [n.pte EXCEPT ![c] = [n.pte[c] EXCEPT ![j] = t]]]
  <2>1. [w.m EXCEPT !.dirty = IF write THEN @ \cup {w.obj} ELSE @] = u
    BY <1>1, <1>2, <1>5, <1>7
  <2>2. Cache(u, w.obj, x * SectionSize + j, w.m.cpt[c].ro, write, calm) = n
    BY <1>1, <1>2, <1>8, <1>11, <1>13
  <2>3. [st |-> "valid", to |-> w.obj, w |-> write, blind |-> blind,
         cached |-> n.ca[w.obj].class # "uncached"] = t
    BY ONLY <1>2, <1>16, <1>17, Zenon
  <2> QED
    BY ONLY r = FillPTE(w, c, j, x, write, calm, blind), <2>1, <2>2, <2>3, Zenon DEF FillPTE
<1>181. Clings(w.m, n)
  BY <1>1, <1>8, <1>15 DEF Clings
<1>19. CASE n.pte[c][j].st = "zapped"
  BY <1>15, <1>18, <1>181, <1>19
<1>20. CASE n.pte[c][j].st # "zapped"
  <2>1. n.pte[c][j] # Zapped
    BY <1>20, EntryFacts
  <2>2. /\ n.hz = u.hz /\ n.dep = u.dep /\ n.pte = u.pte
        /\ Permits(n, n.ca[y], c, j, write)
    BY <1>15, <2>1
  <2>3. t \in TableEntry(Page) /\ t.to = y /\ Live(t) /\ t.st = "valid" /\ t.w = write
        /\ t.cached = cached /\ t.blind = blind
    BY <1>4, <1>17 DEF TableEntry, Live
  <2>4. r = [n EXCEPT !.pte = [n.pte EXCEPT ![c] = [n.pte[c] EXCEPT ![j] = t]]]
    BY <1>18, <1>20
  <2>5. PteOnly(n, r, c, j, t)
    BY <1>15, <2>3, <2>4, PteChanged
  <2>6. r \in MapSet /\ r.hz = m.hz /\ r.dep = m.dep /\ r.cpt = m.cpt /\ r.pte[c][j] = t
        /\ r.ca = n.ca /\ r.dirty = D /\ r.ss = n.ss
    BY <1>8, <1>15, <2>2, <2>5 DEF PteOnly
  <2>7. \A e \in path.slots : Covers(r, e, c, j)
    <3>1. \A e \in path.slots : Covers(m, e, c, j)
      BY <1>4, <1>8, <2>1, <2>2
    <3> QED
      BY <2>6, <3>1 DEF Covers
  <2>8. PteOK(r, tree, core, c, j)
    BY <1>3, <1>4, <1>6, <2>3, <2>6, <2>7 DEF PteOK
  <2>9. CacheOK(r, c, j)
    <3>1. Permits(r, n.ca[y], c, j, write)
      BY <1>8, <1>15, <2>2, <2>6 DEF Permits
    <3> QED
      BY <1>16, <2>3, <2>6, <3>1 DEF CacheOK, Permits
  <2>10. Clings(w.m, r)
    BY <1>181, <2>5 DEF Clings, PteOnly
  <2> QED
    BY <1>15, <2>5, <2>6, <2>8, <2>9, <2>10, PteGets
<1> QED
  BY <1>19, <1>20

LEMMA GetPageOK ==
    ASSUME TreeOK(tree), core \subseteq Obj, NEW w \in WalkSet, MapOK(w.m, tree, core),
           NEW c \in Cpt, NEW j \in PageIx, NEW x \in FlptIx, w.obj \in Gpt,
           w.m.cpt[c].obj = w.obj, w.m.cpt[c].ro = w.ro,
           w.off = w.m.cpt[c].ndx * SectionSize + j, ~w.ro => w.m.cpt[c].addr = x,
           NEW write \in BOOLEAN, NEW calm \in BOOLEAN,
           NEW r, r = GetPage(w, c, j, x, write, calm)
    PROVE  r \in MapSet /\ MapOK(r, tree, core) /\ Clings(w.m, r)
<1>1. PICK m \in MapSet : m = w.m
  BY DEF WalkSet
<1>2. PICK t \in TableEntry(Page) : t = m.pte[c][j]
  BY MapFields
<1>3. m.cpt[c] # NoTable /\ w.obj \notin Page /\ w.ro \in BOOLEAN /\ w.obj \in Obj
  <2>1. w.ro \in BOOLEAN
    BY DEF WalkSet
  <2> QED
    BY <1>1, <2>1, EntryFacts, SlotFacts DEF Obj
<1>4. PICK path : path = Trace(tree, w.obj, w.off, 0)
  OBVIOUS
<1>5. CASE t.st = "lru" /\ t.cached
  <2>1. PICK z : z = [w EXCEPT !.obj = t.to]
    OBVIOUS
  <2>2. r = FillPTE(z, c, j, x, write, calm, TRUE)
    BY <1>1, <1>2, <1>5, <2>1 DEF GetPage
  <2>3. PteOK(m, tree, core, c, j)
    BY <1>1 DEF MapOK
  <2>4. Live(t)
    BY <1>5 DEF Live
  <2>5. /\ Arrived(tree, w.obj, w.off, 0) /\ \A e \in path.slots : Covers(m, e, c, j)
        /\ path.obj = t.to /\ t.to \in Page \cap core
    BY <1>1, <1>2, <1>4, <1>5, <2>3, <2>4 DEF PteOK
  <2>6. z \in WalkSet /\ z.m = m /\ z.obj = t.to
    <3>1. t.to \in Obj \cup {None}
      BY <2>5 DEF Obj
    <3> QED
      BY ONLY w \in WalkSet, <1>1, <2>1, <3>1 DEF WalkSet
  <2>7. Ready(m, c, j, t.to, write, TRUE)
    BY <1>1, <1>2, <1>3, <1>4, <2>4, <2>5 DEF Ready
  <2> QED
    BY <1>1, <2>2, <2>6, <2>7, FillOK
<1>6. CASE ~(t.st = "lru" /\ t.cached)
  <2>1. PICK n : n = IF t = Zapped
                     THEN [m EXCEPT !.pte = [m.pte EXCEPT ![c] = [m.pte[c] EXCEPT ![j] = InProgress]]]
                     ELSE m
    OBVIOUS
  <2>2. n \in MapSet /\ MapOK(n, tree, core) /\ n.cpt = m.cpt /\ Clings(m, n)
    <3>1. CASE t = Zapped
      <4>1. PteOnly(m, n, c, j, InProgress)
        BY <2>1, <3>1, PteChanged, EntryFacts
      <4>2. n \in MapSet /\ n.cpt = m.cpt /\ n.pte[c][j] = InProgress /\ Clings(m, n)
        BY <4>1 DEF PteOnly, Clings
      <4>3. PteOK(n, tree, core, c, j) /\ CacheOK(n, c, j)
        BY <1>3, <4>2, EntryFacts DEF PteOK, CacheOK
      <4> QED
        BY <1>1, <4>1, <4>2, <4>3, PteGets
    <3>2. CASE t # Zapped
      BY <1>1, <2>1, <3>2 DEF Clings
    <3> QED
      BY <3>1, <3>2
  <2>3. PICK z : z = IF t = Zapped THEN [w EXCEPT !.m.pte[c][j] = InProgress] ELSE w
    OBVIOUS
  <2>4. z \in WalkSet /\ z.m = n /\ z.obj = w.obj /\ z.off = w.off /\ z.ro = w.ro
    <3>1. CASE t = Zapped
      <4>1. z = [w EXCEPT !.m = n]
        BY <1>1, <2>1, <2>3, <3>1
      <4> QED
        BY ONLY w \in WalkSet, <2>2, <4>1 DEF WalkSet
    <3>2. CASE t # Zapped
      BY <1>1, <2>1, <2>3, <3>2
    <3> QED
      BY <3>1, <3>2
  <2>5. PICK y : y = WalkSeg(z, 0, write, c, j)
    OBVIOUS
  <2>6. PICK l : l = <<c, j>>
    OBVIOUS
  <2>7. l \in Place /\ l[1] = c /\ l[2] = j
    BY <2>6, PlaceFacts
  <2>8. /\ y \in WalkSet /\ Narrows(n, y.m)
        /\ y.res = "ok" => /\ Arrived(tree, w.obj, w.off, 0) /\ AtEnd(path, 0)
                           /\ Follows(y, path, w.ro, write, l)
    <3>1. y = WalkSeg(z, 0, write, l[1], l[2])
      BY <2>5, <2>7
    <3>2. path = Trace(tree, z.obj, z.off, 0) /\ z.obj \in Obj
      BY <1>3, <1>4, <2>4
    <3>3. /\ y \in WalkSet /\ Narrows(z.m, y.m)
          /\ y.res = "ok" => /\ Arrived(tree, z.obj, z.off, 0) /\ AtEnd(path, 0)
                             /\ Follows(y, path, z.ro, write, l)
      BY <2>4, <2>7, <3>1, <3>2, WalkSegOK
    <3> QED
      BY <2>4, <3>3
  <2>9. y.m \in MapSet /\ MapOK(y.m, tree, core) /\ y.m.cpt = m.cpt /\ Clings(w.m, y.m)
    <3>1. y.m \in MapSet /\ MapOK(y.m, tree, core)
      BY <2>2, <2>8, ShrinksOK DEF Narrows
    <3>2. Clings(m, y.m)
      BY <2>2, <2>8, NarrowsClings, ClingsMore
    <3> QED
      BY <1>1, <2>2, <2>8, <3>1, <3>2 DEF Narrows, Shrinks
  <2>10. r = IF y.res # "ok" THEN y.m ELSE FillPTE(y, c, j, x, write, calm, FALSE)
    BY <1>1, <1>2, <1>6, <2>3, <2>5 DEF GetPage
  <2>11. CASE y.res # "ok"
    BY <2>9, <2>10, <2>11
  <2>12. CASE y.res = "ok"
    <3>1. path.obj \in Page
      <4>1. \A g \in Gpt : ~(Span[g] < 0)
        BY Sizes
      <4> QED
        BY <2>8, <2>12, <4>1 DEF AtEnd
    <3>2. path.slots # {}
      <4>1. tree \in [Slot -> Key] /\ w.obj \in Obj \cup {None} /\ w.off \in Nat /\ 0 \in Nat
        BY <1>3 DEF TreeOK, WalkSet
      <4>2. path.obj = None \/ path = Begin(w.obj, w.off)
            \/ \E s \in path.slots : tree[s].obj = path.obj
        BY <1>4, <4>1, RunLast
      <4>3. Begin(w.obj, w.off).obj = w.obj
        BY DEF Begin
      <4> QED
        BY <1>3, <3>1, <4>2, <4>3, SlotFacts
    <3>3. /\ y.obj = path.obj /\ y.ro = (w.ro \/ path.ro) /\ y.obj \in core
          /\ ~(y.ro /\ write)
          /\ At(y.m, l) = Gone(l) \/ \A e \in path.slots : Covers(y.m, e, l[1], l[2])
      BY <2>8, <2>12, <3>2 DEF Follows
    <3>4. y.m.pte[c][j] = Zapped \/ \A e \in path.slots : Covers(y.m, e, c, j)
      BY <2>6, <2>7, <3>3, PlaceFacts
    <3>5. Ready(y.m, c, j, y.obj, write, FALSE)
      <4>1. write => ~w.ro /\ ~path.ro
        BY <3>3
      <4>2. path = Trace(tree, y.m.cpt[c].obj, y.m.cpt[c].ndx * SectionSize + j, 0)
            /\ Arrived(tree, y.m.cpt[c].obj, y.m.cpt[c].ndx * SectionSize + j, 0)
        BY <1>1, <1>4, <2>8, <2>9, <2>12
      <4>3. y.m.cpt[c] # NoTable /\ y.m.cpt[c].ro = w.ro
        BY <1>1, <1>3, <2>9
      <4> QED
        BY <3>1, <3>3, <3>4, <4>1, <4>2, <4>3 DEF Ready
    <3>6. ~y.m.cpt[c].ro => y.m.cpt[c].addr = x
      BY <1>1, <2>9
    <3>7. r = FillPTE(y, c, j, x, write, calm, FALSE)
      BY <2>10, <2>12
    <3>8. r \in MapSet /\ MapOK(r, tree, core) /\ Clings(y.m, r)
      BY <2>8, <2>9, <3>5, <3>6, <3>7, FillOK
    <3> QED
      BY <2>9, <3>8, ClingsMore
  <2> QED
    BY <2>11, <2>12
<1> QED
  BY <1>5, <1>6
-----------------------------------------------------------------------------
(* A page fault as a whole.                                                  *)

LEMMA PageFaultOK ==
    ASSUME Maps, NEW p \in Proc, NEW va \in VaOf[p], NEW write \in BOOLEAN,
           NEW s \in Space, NEW calm \in BOOLEAN,
           NEW n, n = DoPageFault(map, p, va, write, s, calm)
    PROVE  n \in MapSet /\ MapOK(n, tree, core) /\ SpacesOK(n, tree)
<1>0. TreeOK(tree) /\ core \subseteq Obj /\ va \in 0 .. SpaceSize - 1
      /\ <<p, 0>> \in Slot
  BY ConstantsAssumption, SlotFacts DEF Maps
<1>1. PICK w : w = GetFirstLevelMappingTable(map, p, va, write, s)
  OBVIOUS
<1>2. /\ w \in WalkSet /\ MapOK(w.m, tree, core) /\ SpacesOK(w.m, tree)
      /\ w.res \notin {"fault", "yield", "fatal"} =>
           /\ w.m.md[p] \in Space /\ w.obj \in Gpt /\ w.off = va
           /\ w.m.ss[w.m.md[p]] = [obj |-> w.obj, ro |-> w.ro]
  BY <1>1, FirstLevelOK
<1>3. CASE w.res \in {"fault", "yield", "fatal"}
  <2>1. n = w.m
    BY <1>1, <1>3 DEF DoPageFault
  <2> QED
    BY <1>2, <2>1 DEF WalkSet
<1>4. CASE w.res \notin {"fault", "yield", "fatal"}
  <2>1. PICK x : x = w.m.md[p] * SectionsInSpace + va \div SectionSize
    OBVIOUS
  <2>2. PICK i : i = va % SectionSize
    OBVIOUS
  <2>3. /\ x \in FlptIx /\ SpaceOf(x) = w.m.md[p]
        /\ x % SectionsInSpace = va \div SectionSize
        /\ va = OffsetOf(x) + i /\ i \in PageIx
    BY <1>0, <1>2, <1>4, <2>1, <2>2, AddressEntry
  <2>4. PICK v : v = GetCPT(w, x, write)
    OBVIOUS
  <2>5. PICK c : c = v.m.flpt[x].to
    OBVIOUS
  <2>6. /\ v \in WalkSet /\ MapOK(v.m, tree, core) /\ Clings(w.m, v.m)
        /\ v.res = "ok" =>
             /\ c \in Cpt /\ v.obj \in Gpt /\ v.m.cpt[c].obj = v.obj
             /\ v.m.cpt[c].ro = v.ro
             /\ v.off = v.m.cpt[c].ndx * SectionSize + i
             /\ ~v.ro => v.m.cpt[c].addr = x
    <3>1. /\ TreeOK(tree) /\ core \subseteq Obj /\ w \in WalkSet /\ MapOK(w.m, tree, core)
          /\ w.off = OffsetOf(x) + i /\ w.obj \in Gpt
          /\ w.m.ss[SpaceOf(x)] = [obj |-> w.obj, ro |-> w.ro]
      BY <1>0, <1>2, <1>4, <2>3
    <3>2. x \in FlptIx /\ i \in PageIx
      BY <2>3
    <3>3. SectionSought(w, x, i)
      BY ONLY <3>1, <3>2 DEF SectionSought
    <3>4. SectionFound(v, w, x, i)
      BY ONLY <3>1, <3>3, <2>4, write \in BOOLEAN, SecondLevelOK
    <3> QED
      BY ONLY <3>4, <2>5 DEF SectionFound
  <2>7. n = IF v.res # "ok" THEN v.m ELSE GetPage(v, c, i, x, write, calm)
    BY <1>1, <1>4, <2>1, <2>2, <2>4, <2>5 DEF DoPageFault
  <2>8. CASE v.res # "ok"
    BY <1>2, <2>6, <2>7, <2>8, ClingsOK DEF WalkSet
  <2>9. CASE v.res = "ok"
    <3>1. n = GetPage(v, c, i, x, write, calm)
      BY <2>7, <2>9
    <3>2. n \in MapSet /\ MapOK(n, tree, core) /\ Clings(v.m, n)
      BY <1>0, <2>3, <2>6, <2>9, <3>1, GetPageOK
    <3> QED
      BY <1>2, <2>6, <3>2, ClingsMore, ClingsOK
  <2> QED
    BY <2>8, <2>9
<1> QED
  BY <1>3, <1>4

LEMMA FaultMaps ==
    ASSUME Maps, NEW p \in Proc, NEW va \in VaOf[p], NEW write \in BOOLEAN,
           Fault(p, va, write)
    PROVE  Maps'
<1>1. PICK calm \in BOOLEAN :
        \E s \in IF FreeSpaces(map) = {} THEN Space ELSE {Min(FreeSpaces(map))} :
          map' = DoPageFault(map, p, va, write, s, calm)
  BY DEF Fault
<1>2. PICK s \in IF FreeSpaces(map) = {} THEN Space ELSE {Min(FreeSpaces(map))} :
        map' = DoPageFault(map, p, va, write, s, calm)
  BY <1>1
<1>3. s \in Space
  <2>1. CASE FreeSpaces(map) = {}
    BY <2>1
  <2>2. CASE FreeSpaces(map) # {}
    <3>1. FreeSpaces(map) \subseteq Nat
      BY Sizes DEF FreeSpaces, Space
    <3>2. Min(FreeSpaces(map)) \in FreeSpaces(map)
      BY <2>2, <3>1, LeastOf
    <3> QED
      BY <2>2, <3>2 DEF FreeSpaces
  <2> QED
    BY <2>1, <2>2
<1>4. map' \in MapSet /\ MapOK(map', tree, core) /\ SpacesOK(map', tree)
  BY <1>2, <1>3, PageFaultOK
<1>5. tree' = tree /\ core' = core
  BY DEF Fault
<1> QED
  BY <1>4, <1>5 DEF Maps

-----------------------------------------------------------------------------
(* The invariant.                                                            *)

LEMMA MapsInv ==
    ASSUME Maps, events \in 0 .. MaxEvents, missed \in BOOLEAN PROVE Inv
<1>1. ASSUME NEW p \in Proc PROVE ProcSpace(map, tree, p)
  <2>1. ProcOK(map, tree, p)
    BY DEF Maps, MapOK
  <2> QED
    BY <2>1 DEF ProcOK, ProcSpace
<1> QED
  BY <1>1 DEF Maps, Inv

LEMMA InitInv == Init => Inv
<1> SUFFICES ASSUME Init PROVE Inv
  OBVIOUS
<1>1. Maps
  BY InitMaps
<1>2. events \in 0 .. MaxEvents
  BY ConstantsAssumption DEF Init
<1>3. missed \in BOOLEAN
  BY Zenon DEF Init
<1> QED
  BY <1>1, <1>2, <1>3, MapsInv

LEMMA NextInv == Inv /\ [Next]_vars => Inv'
<1> SUFFICES ASSUME Inv, [Next]_vars PROVE Inv'
  OBVIOUS
<1>1. CASE UNCHANGED vars
  BY <1>1 DEF vars, Inv
<1>2. CASE Next
  <2>1. ~missed /\ Step
    BY <1>2 DEF Next
  <2>2. Maps /\ events \in 0 .. MaxEvents /\ missed \in BOOLEAN
    BY <2>1 DEF Inv, Maps
  <2>3. ASSUME Maps', events' \in 0 .. MaxEvents, missed' = missed PROVE Inv'
    <3>1. ASSUME NEW p \in Proc PROVE ProcSpace(map', tree', p)
      <4>1. ProcOK(map', tree', p)
        BY <2>3 DEF Maps, MapOK
      <4> QED
        BY <4>1 DEF ProcOK, ProcSpace
    <3> QED
      BY <2>2, <2>3, <3>1 DEF Maps, Inv
  <2>4. ASSUME NEW p \in Proc, NEW write \in BOOLEAN, NEW va \in VaOf[p],
               Fault(p, va, write)
        PROVE  Inv'
    <3>1. Maps'
      BY <2>2, <2>4, FaultMaps
    <3>2. events' = events /\ missed' = missed
      BY <2>4 DEF Fault
    <3> QED
      BY <2>2, <2>3, <3>1, <3>2
  <2>5. ASSUME events < MaxEvents, events' = events + 1,
               \/ \E s \in Slot : \E k \in KeysOf[s] : SetSlot(s, k)
               \/ \E x \in Page : CleanPage(x)
               \/ \E o \in Obj : Rescind(o) \/ AgeObject(o) \/ Evict(o)
               \/ \E c \in Cpt : AgeTable(c) \/ StealTable(c)
        PROVE  Inv'
    <3>1. events' \in 0 .. MaxEvents
      BY <2>2, <2>5, ConstantsAssumption
    <3>2. ASSUME NEW s \in Slot, NEW k \in KeysOf[s], SetSlot(s, k)
          PROVE  Maps' /\ missed' = missed
      BY <2>2, <3>2, SetSlotMaps DEF SetSlot
    <3>3. ASSUME NEW x \in Page, CleanPage(x) PROVE Maps' /\ missed' = missed
      BY <2>2, <3>3, CleanPageMaps DEF CleanPage
    <3>4. ASSUME NEW o \in Obj, Rescind(o) PROVE Maps' /\ missed' = missed
      BY <2>2, <3>4, RescindMaps DEF Rescind
    <3>5. ASSUME NEW o \in Obj, AgeObject(o) PROVE Maps' /\ missed' = missed
      BY <2>2, <3>5, AgeObjectMaps DEF AgeObject
    <3>6. ASSUME NEW o \in Obj, Evict(o) PROVE Maps' /\ missed' = missed
      BY <2>2, <3>6, EvictMaps DEF Evict
    <3>7. ASSUME NEW c \in Cpt, AgeTable(c) PROVE Maps' /\ missed' = missed
      BY <2>2, <3>7, AgeTableMaps DEF AgeTable
    <3>8. ASSUME NEW c \in Cpt, StealTable(c) PROVE Inv'
      <4>1. /\ tree' = tree /\ core' = core /\ missed' \in BOOLEAN /\ map' \in MapSet
            /\ \A p \in Proc : ProcSpace(map', tree, p)
            /\ SpacesOK(map', tree) /\ (~missed' => MapOK(map', tree, core))
        BY <2>2, <3>8, StealTableMaps
      <4> QED
        BY <2>2, <3>1, <4>1 DEF Maps, Inv
    <3> QED
      BY <2>3, <2>5, <3>1, <3>2, <3>3, <3>4, <3>5, <3>6, <3>7, <3>8
  <2>6. ASSUME NEW o \in Obj, Fetch(o) PROVE Inv'
    <3>1. Maps'
      BY <2>2, <2>6, FetchMaps
    <3>2. events' = events /\ missed' = missed
      BY <2>6 DEF Fetch
    <3> QED
      BY <2>2, <2>3, <3>1, <3>2
  <2> QED
    BY <2>1, <2>4, <2>5, <2>6 DEF Step
<1> QED
  BY <1>1, <1>2

LEMMA SpecInv == Spec => []Inv
<1>1. Init => Inv
  BY InitInv
<1>2. Inv /\ [Next]_vars => Inv'
  BY NextInv
<1> QED
  BY <1>1, <1>2, PTL DEF Spec

-----------------------------------------------------------------------------
(* The properties.                                                           *)

\* Everything has its type, whatever the sizes and the trees are: a process is
\* left with no small space that does not exist any more (ReleaseSmallSpace,
\* AssignSSToProc), and the entries of the tables are for tables and pages.
THEOREM MapTypes == Spec => []MapTypeOK
<1>1. Inv => MapTypeOK
  <2> SUFFICES ASSUME Inv PROVE MapTypeOK
    OBVIOUS
  <2>1. TreeOK(tree) /\ core \subseteq Obj /\ events \in 0 .. MaxEvents
        /\ missed \in BOOLEAN /\ map \in MapSet /\ \A p \in Proc : ProcSpace(map, tree, p)
    BY DEF Inv
  <2>2. /\ map.hz \subseteq Slot /\ map.dep \in [1 .. BucketSize -> DepSet]
        /\ map.md \in [Proc -> Space \cup {None, PidInProgress}]
        /\ map.flpt \in [FlptIx -> TableEntry(Cpt)]
        /\ map.pte \in [Cpt -> [PageIx -> TableEntry(Page)]] /\ map.dirty \subseteq Page
    BY <2>1, MapFields
  <2>3. ASSUME NEW k \in 1 .. BucketSize
        PROVE  map.dep[k].tab \in Proc \cup Cpt \cup {Flpt, None}
    <3>1. map.dep[k] \in DepSet
      BY <2>2
    <3> QED
      BY <3>1 DEF DepSet, Tab
  <2>4. ASSUME NEW p \in Proc
        PROVE  map.md[p] \in {None, PidInProgress} \/ map.ss[map.md[p]] # NoSpace
    <3>1. CASE map.md[p] \notin Space
      BY <2>2, <3>1
    <3>2. CASE map.md[p] \in Space
      <4>1. map.ss[map.md[p]].obj \in Gpt
        BY <2>1, <3>2 DEF ProcSpace
      <4> QED
        BY <4>1, SlotFacts DEF NoSpace
    <3> QED
      BY <3>1, <3>2
  <2> QED
    BY <2>1, <2>2, <2>3, <2>4 DEF MapTypeOK, TreeOK
<1>2. Spec => []Inv
  BY SpecInv
<1> QED
  BY <1>1, <1>2, PTL

\* Whatever the size of the depend table and the tags of the slots, every slot
\* that an entry of a mapping table was built from is hazarded and has a depend
\* entry that leads to it: what Depend_AddKey merges or takes away from another
\* use never leaves an entry that a change of its slot would not find.
THEOREM DependTheorem == Spec => []DependComplete
<1>1. Inv => DependComplete
  <2> SUFFICES ASSUME Inv, ~missed PROVE DependComplete
    BY DEF DependComplete
  <2>1. MapOK(map, tree, core)
    BY DEF Inv
  <2>2. ASSUME NEW p \in Proc, map.md[p] \in Space PROVE Covers(map, <<p, 0>>, p, 0)
    BY <2>1, <2>2 DEF MapOK, ProcOK
  <2>3. ASSUME NEW s \in Space, NEW x \in FlptIx, x \in SectionsOf(s),
               map.flpt[x].st \in {"valid", "lru"},
               NEW e \in Trace(tree, map.ss[s].obj, (x % SectionsInSpace) * SectionSize,
                               SectionSize).slots
        PROVE  Covers(map, e, Flpt, x)
    <3>1. s = SpaceOf(x)
      BY <2>3, EntrySpace
    <3>2. FlptOK(map, tree, x) /\ Live(map.flpt[x])
      BY <2>1, <2>3 DEF MapOK, Live
    <3> QED
      BY <2>3, <3>1, <3>2 DEF FlptOK, OffsetOf
  <2>4. ASSUME NEW c \in Cpt, NEW j \in PageIx, map.pte[c][j].st \in {"valid", "lru"},
               NEW e \in Trace(tree, map.cpt[c].obj,
                               map.cpt[c].ndx * SectionSize + j, 0).slots
        PROVE  Covers(map, e, c, j)
    <3>1. PteOK(map, tree, core, c, j) /\ Live(map.pte[c][j])
      BY <2>1, <2>4 DEF MapOK, Live
    <3> QED
      BY <2>4, <3>1 DEF PteOK
  <2> QED
    BY <2>2, <2>3, <2>4 DEF DependComplete
<1>2. Spec => []Inv
  BY SpecInv
<1> QED
  BY <1>1, <1>2, PTL

\* Until the ager releases a table that MapTab_ClearRefs leaves a reference to,
\* no entry of the first level refers to a table that was released or that is
\* for something else than what the tree has there, however large the address
\* spaces are and whatever slots, objects and tables come and go.
THEOREM TablesTheorem == Spec => []NoStaleTable
<1>1. Inv => NoStaleTable
  <2> SUFFICES ASSUME Inv, ~missed, NEW s \in Space, NEW x \in FlptIx, x \in SectionsOf(s),
                      map.flpt[x].st \in {"valid", "lru"}, NEW path,
                      path = Trace(tree, map.ss[s].obj,
                                   (x % SectionsInSpace) * SectionSize, SectionSize),
                      NEW t, t = map.cpt[map.flpt[x].to]
               PROVE  /\ t # NoTable /\ t.obj = path.obj
                      /\ t.ndx = path.off \div SectionSize
                      /\ t.ro = (map.ss[s].ro \/ path.ro)
    BY DEF NoStaleTable
  <2>1. s = SpaceOf(x)
    BY EntrySpace
  <2>2. FlptOK(map, tree, x) /\ Live(map.flpt[x])
    BY DEF Inv, MapOK, Live
  <2>3. /\ path.obj \in Gpt /\ t.obj = path.obj /\ t.ndx = path.off \div SectionSize
        /\ t.ro = (map.ss[s].ro \/ path.ro)
    BY <2>1, <2>2 DEF FlptOK, OffsetOf
  <2> QED
    BY <2>3, EntryFacts, SlotFacts
<1>2. Spec => []Inv
  BY SpecInv
<1> QED
  BY <1>1, <1>2, PTL

LEMMA CachedMore ==
    ASSUME NEW x \in Page, NEW read \in BOOLEAN, NEW write \in BOOLEAN, read => write,
           NEW a \in CachedAt(x, write)
    PROVE  a \in CachedAt(x, read)
BY DEF CachedAt

LEMMA CachedFacts ==
    ASSUME Inv, ~missed, NEW x \in Page, NEW write \in BOOLEAN, NEW a, a \in CachedAt(x, write)
    PROVE  LET c == map.flpt[a[1]].to
           IN  /\ a[1] \in FlptIx /\ a[2] \in PageIx /\ a = <<a[1], a[2]>>
               /\ c \in Cpt /\ Live(map.pte[c][a[2]]) /\ map.pte[c][a[2]].to = x
               /\ write => Writes(map.pte[c][a[2]]) /\ map.pte[c][a[2]].cached
               /\ ~map.cpt[c].ro => map.cpt[c].addr = a[1]
               /\ CacheOK(map, c, a[2])
<1>1. PICK f \in FlptIx, j \in PageIx : a = <<f, j>>
  <2>1. a \in FlptIx \X PageIx
    BY ONLY a \in CachedAt(x, write) DEF CachedAt
  <2> QED
    BY ONLY <2>1
<1>2. PICK c : c = map.flpt[f].to
  OBVIOUS
<1>3. PICK t : t = map.pte[c][j]
  OBVIOUS
<1>4. /\ map.flpt[f].st = "valid" /\ t.st = "valid" /\ t.to = x /\ t.cached
      /\ write => t.w
  BY <1>1, <1>2, <1>3 DEF CachedAt
<1>5. FlptOK(map, tree, f) /\ Live(map.flpt[f])
  BY <1>4 DEF Inv, MapOK, Live
<1>6. c \in Cpt /\ (~map.cpt[c].ro => map.cpt[c].addr = f)
  BY <1>2, <1>5 DEF FlptOK
<1>7. CacheOK(map, c, j)
  BY <1>6 DEF Inv, MapOK
<1> QED
  BY <1>1, <1>2, <1>3, <1>4, <1>6, <1>7 DEF Live, Writes

\* A page that can be written through the cache at some address is cached at no
\* other, for any number of spaces, tables and processes that share it: the
\* classes of cacheAddr that FillPTE goes through keep the cache, which is
\* found by virtual addresses, without synonyms.
THEOREM CacheTheorem == Spec => []CacheCoherent
<1>1. Inv => CacheCoherent
  <2> SUFFICES ASSUME Inv, ~missed, NEW x \in Page, CachedAt(x, TRUE) # {}
               PROVE  Cardinality(CachedAt(x, FALSE)) = 1
    BY DEF CacheCoherent
  <2>1. PICK z : z = map.ca[x]
    OBVIOUS
  <2>2. ASSUME NEW a \in CachedAt(x, TRUE)
        PROVE  /\ z.class = "writeable" /\ a \in CachedAt(x, FALSE)
    <3>1. PICK c : c = map.flpt[a[1]].to
      OBVIOUS
    <3>2. /\ Live(map.pte[c][a[2]]) /\ map.pte[c][a[2]].to = x
          /\ Writes(map.pte[c][a[2]]) /\ map.pte[c][a[2]].cached
          /\ CacheOK(map, c, a[2])
      BY <3>1, CachedFacts
    <3>3. z.class \in {"none", "onereader", "writeable", "readers", "uncached"}
      <4>1. z \in CacheSet
        BY <2>1, MapFields DEF Inv
      <4> QED
        BY <4>1 DEF CacheSet
    <3>4. z.class = "writeable"
      BY <2>1, <3>2, <3>3 DEF CacheOK, Writes
    <3>5. a \in CachedAt(x, FALSE)
      BY CachedMore
    <3> QED
      BY <3>4, <3>5
  <2>3. z.class = "writeable"
    BY <2>2
  <2>4. ASSUME NEW a \in CachedAt(x, FALSE)
        PROVE  /\ a[1] \in Nat /\ a[2] \in 0 .. SectionSize - 1 /\ a = <<a[1], a[2]>>
               /\ z.at = SectionSize * a[1] + a[2]
    <3>1. PICK c : c = map.flpt[a[1]].to
      OBVIOUS
    <3>2. /\ a[1] \in FlptIx /\ a[2] \in PageIx /\ a = <<a[1], a[2]>>
          /\ c \in Cpt /\ Live(map.pte[c][a[2]]) /\ map.pte[c][a[2]].to = x
          /\ ~map.cpt[c].ro => map.cpt[c].addr = a[1]
          /\ CacheOK(map, c, a[2])
      BY <3>1, CachedFacts, ZenonT(40)
    <3>3. ~map.cpt[c].ro /\ map.cpt[c].addr * SectionSize + a[2] = z.at
      BY <2>1, <2>3, <3>2 DEF CacheOK
    <3>4. a[1] \in Nat /\ SectionSize \in Nat
      BY <3>2, EntrySpace, Sizes
    <3>5. a[1] * SectionSize = SectionSize * a[1]
      BY <3>4, Multiples
    <3> QED
      BY <3>2, <3>3, <3>4, <3>5 DEF PageIx
  <2>5. PICK b \in CachedAt(x, TRUE) : TRUE
    OBVIOUS
  <2>6. b \in CachedAt(x, FALSE)
    BY <2>2
  <2>7. ASSUME NEW a \in CachedAt(x, FALSE) PROVE a = b
    <3>1. /\ a[1] \in Nat /\ a[2] \in 0 .. SectionSize - 1 /\ a = <<a[1], a[2]>>
          /\ z.at = SectionSize * a[1] + a[2]
      BY <2>4
    <3>2. /\ b[1] \in Nat /\ b[2] \in 0 .. SectionSize - 1 /\ b = <<b[1], b[2]>>
          /\ z.at = SectionSize * b[1] + b[2]
      BY <2>4, <2>6
    <3>3. SectionSize \in Nat \ {0}
      BY Sizes
    <3>4. z.at \div SectionSize = a[1] /\ z.at % SectionSize = a[2]
      <4>1. (SectionSize * a[1] + a[2]) \div SectionSize = a[1]
            /\ (SectionSize * a[1] + a[2]) % SectionSize = a[2]
        BY ONLY <3>1, <3>3, DivisionUnique
      <4> QED
        BY <3>1, <4>1
    <3>5. z.at \div SectionSize = b[1] /\ z.at % SectionSize = b[2]
      <4>1. (SectionSize * b[1] + b[2]) \div SectionSize = b[1]
            /\ (SectionSize * b[1] + b[2]) % SectionSize = b[2]
        BY ONLY <3>2, <3>3, DivisionUnique
      <4> QED
        BY <3>2, <4>1
    <3> QED
      BY <3>1, <3>2, <3>4, <3>5
  <2>8. CachedAt(x, FALSE) = {b}
    BY <2>6, <2>7
  <2> QED
    BY <2>8, FS_Singleton
<1>2. Spec => []Inv
  BY SpecInv
<1> QED
  BY <1>1, <1>2, PTL

LEMMA InvMappings ==
    ASSUME Inv, ~missed, NEW p \in Proc, NEW va \in VaOf[p],
           NEW t, t = Entry(map, p, va), t.st = "valid",
           NEW k, k = tree[<<p, 0>>], NEW way, way = Trace(tree, k.obj, va, 0)
    PROVE  /\ way.obj = t.to /\ t.to \in core /\ (t.w => t.to \in map.dirty)
           /\ t.w /\ ~t.blind => ~k.ro /\ ~way.ro
<1>1. TreeOK(tree) /\ map \in MapSet /\ MapOK(map, tree, core)
      /\ tree \in [Slot -> Key] /\ va \in 0 .. SpaceSize - 1
  BY ConstantsAssumption DEF Inv, TreeOK
<1>2. PICK x : x = map.md[p] * SectionsInSpace + va \div SectionSize
  OBVIOUS
<1>3. PICK j : j = va % SectionSize
  OBVIOUS
<1>4. PICK c : c = map.flpt[x].to
  OBVIOUS
<1>5. map.md[p] \in Space /\ map.flpt[x].st = "valid" /\ t = map.pte[c][j]
  BY <1>2, <1>3, <1>4, EntryFacts DEF Entry
<1>6. /\ x \in FlptIx /\ SpaceOf(x) = map.md[p]
      /\ va = OffsetOf(x) + j /\ j \in PageIx
  BY <1>1, <1>2, <1>3, <1>5, AddressEntry
<1>7. map.ss[SpaceOf(x)] = k /\ k.obj \in Gpt
  BY <1>1, <1>5, <1>6 DEF MapOK, ProcOK
<1>8. PICK b : b = OffsetOf(x)
  OBVIOUS
<1>9. b \in Nat /\ b % SectionSize = 0
  BY <1>6, <1>8, OffsetFacts
<1>10. PICK u : u = Trace(tree, k.obj, b, SectionSize)
  OBVIOUS
<1>11. /\ Arrived(tree, k.obj, b, SectionSize) /\ c \in Cpt
       /\ u.obj \in Gpt /\ map.cpt[c].obj = u.obj
       /\ map.cpt[c].ndx = u.off \div SectionSize
       /\ map.cpt[c].ro = (k.ro \/ u.ro)
  <2>1. FlptOK(map, tree, x) /\ Live(map.flpt[x])
    BY <1>1, <1>5, <1>6 DEF MapOK, Live
  <2> QED
    BY <1>4, <1>7, <1>8, <1>10, <2>1 DEF FlptOK
<1>12. u.off \in Nat /\ u.off % SectionSize = 0 /\ u.ro \in BOOLEAN
  <2>1. k.obj \in Obj /\ k.obj \in Obj \cup {None} /\ SectionSize \in Nat
        /\ 0 \in 0 .. SectionSize - 1 /\ 2 * MaxDepth \in 0 .. 2 * MaxDepth
    BY <1>7, Sizes DEF Obj
  <2>2. u \in TraceSet
    BY <1>1, <1>9, <1>10, <2>1, TraceFacts
  <2>3. Beside(Steps(tree, k.obj, b + 0, SectionSize)[2 * MaxDepth],
               Steps(tree, k.obj, b, SectionSize)[2 * MaxDepth], 0)
    BY <1>1, <1>9, <2>1, SameSection
  <2> QED
    BY <1>10, <2>2, <2>3 DEF Beside, TraceSet, Trace
<1>13. map.cpt[c].ndx * SectionSize + j = u.off + j
  <2>1. 0 \in PageIx
    BY Sizes DEF PageIx
  <2>2. u.off = (u.off \div SectionSize) * SectionSize
    BY <1>12, <2>1, Within
  <2> QED
    BY <1>11, <2>2
<1>14. PICK v : v = Trace(tree, u.obj, u.off + j, 0)
  OBVIOUS
<1>15. /\ Arrived(tree, u.obj, u.off + j, 0) /\ v.obj = t.to /\ t.to \in core
       /\ t.w => t.to \in map.dirty
       /\ t.w /\ ~t.blind => ~map.cpt[c].ro /\ ~v.ro
  <2>1. PteOK(map, tree, core, c, j) /\ Live(map.pte[c][j])
    BY <1>1, <1>5, <1>6, <1>11 DEF MapOK, Live
  <2> QED
    BY <1>5, <1>11, <1>13, <1>14, <2>1 DEF PteOK
<1>16. way.obj = v.obj /\ way.ro = (u.ro \/ v.ro)
  <2>1. k.obj \in Obj /\ j \in 0 .. SectionSize - 1
    BY <1>6, <1>7 DEF Obj, PageIx
  <2>2. way = Trace(tree, k.obj, b + j, 0)
    BY <1>6, <1>8
  <2>3. LET a == Trace(tree, k.obj, b + j, 0)
        IN  a.obj = v.obj /\ a.ro = (u.ro \/ v.ro)
    BY <1>1, <1>9, <1>10, <1>11, <1>14, <1>15, <2>1, Compose
  <2> QED
    BY <2>2, <2>3
<1>17. t.w /\ ~t.blind => ~k.ro /\ ~u.ro
  <2>1. <<p, 0>> \in Slot
    BY SlotFacts
  <2>2. k \in Key
    BY <1>1, <2>1
  <2>3. k.ro \in BOOLEAN
    BY <2>2 DEF Key
  <2> QED
    BY <1>11, <1>12, <1>15, <2>3
<1> QED
  BY <1>15, <1>16, <1>17

\* Whatever the trees, the sizes and the depend table are, and whatever is aged,
\* released or fetched: the page that a process reaches through its maps is the
\* one that its tree has at that address, it is in core, and if it can be
\* written it is marked dirty and was reached through no read-only key, unless
\* the ager had made the entry invalid and it was made valid again without a
\* walk. (pte_Invalidate at every change; PTE_IN_PROGRESS in PageFault.c.)
THEOREM MappingsTheorem == Spec => []MappingsJustified
<1>1. Inv => MappingsJustified
  <2> SUFFICES ASSUME Inv, ~missed, NEW p \in Proc, NEW va \in VaOf[p],
                      NEW t, t = Entry(map, p, va), t.st = "valid",
                      NEW k, k = tree[<<p, 0>>], NEW way, way = Trace(tree, k.obj, va, 0)
               PROVE  /\ way.obj = t.to /\ t.to \in core
                      /\ t.w => /\ t.to \in map.dirty
                                /\ t.blind \/ (~k.ro /\ ~way.ro)
    BY DEF MappingsJustified
  <2> QED
    BY InvMappings
<1>2. Spec => []Inv
  BY SpecInv
<1> QED
  BY <1>1, <1>2, PTL

\* No process uses a small space while its address space has anything beyond
\* it, whatever becomes of the slots, the GPTs and the tables: the hazard on
\* each void slot beyond the space lasts as long as the space does, and
\* node_ClearGPTHazard releases the space when such a slot is used.
THEOREM SmallSpacesTheorem == Spec => []SmallSpacesFit
<1>1. Inv => SmallSpacesFit
  <2> SUFFICES ASSUME Inv, NEW p \in Proc, map.md[p] \in Space, NEW g \in Gpt,
                      g = tree[<<p, 0>>].obj
               PROVE  ~IsLarge(g)
    BY DEF SmallSpacesFit
  <2>1. map.ss[map.md[p]] = tree[<<p, 0>>]
    BY DEF Inv, ProcSpace
  <2>2. SpaceOK(map, tree, map.md[p])
    BY DEF Inv, SpacesOK
  <2>3. Span[g] <= SpaceSize /\ \A e \in UpperSlots(g) : tree[e] = VoidKey
    BY <2>1, <2>2 DEF SpaceOK
  <2>4. Span[g] \in Nat /\ SpaceSize \in Nat
    BY Sizes
  <2> QED
    BY <2>3, <2>4 DEF IsLarge
<1>2. Spec => []Inv
  BY SpecInv
<1> QED
  BY <1>1, <1>2, PTL
=============================================================================
