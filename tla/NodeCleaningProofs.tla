------------------------- MODULE NodeCleaningProofs -------------------------
(* Proofs about NodeCleaning. Whatever the three cleaners do between two     *)
(* Yields is a sequence of a few steps on the record w: entries of the list  *)
(* change, the nodes of a set of frames are logged, a frame is freed, a node *)
(* grows old. Good(w, e) is what all of them keep: e is what they leave      *)
(* alone (the disk, the phase of the checkpoint), and what the processes and *)
(* the checkpoint must go on seeing. The loops are recursive functions, and  *)
(* keep Good by induction.                                                   *)
EXTENDS NodeCleaning, FiniteSetTheorems, SequenceTheorems, TLAPS

-----------------------------------------------------------------------------
(* Sequences.                                                                *)

Distinct(s) == \A i, j \in 1 .. Len(s) : s[i] = s[j] => i = j

\* A sequence has its members at its positions.
LEMMA SeqFacts ==
    ASSUME NEW S, NEW s \in Seq(S)
    PROVE  /\ Len(s) \in Nat
           /\ DOMAIN s = 1 .. Len(s)
           /\ \A i \in 1 .. Len(s) : s[i] \in S
           /\ s = <<>> <=> Len(s) = 0
BY LenProperties, ElementOfSeq, EmptySeq

\* The members of a sequence.
LEMMA RangeFacts ==
    ASSUME NEW S, NEW s \in Seq(S)
    PROVE  /\ \A x : x \in Range(s) <=> \E i \in 1 .. Len(s) : s[i] = x
           /\ Range(s) \subseteq S
           /\ s = <<>> <=> Range(s) = {}
<1>1. DOMAIN s = 1 .. Len(s) /\ Len(s) \in Nat /\ (s = <<>> <=> Len(s) = 0)
      /\ \A i \in 1 .. Len(s) : s[i] \in S
  BY SeqFacts
<1>2. \A x : x \in Range(s) <=> \E i \in 1 .. Len(s) : s[i] = x
  BY <1>1 DEF Range
<1>3. Range(s) \subseteq S
  BY <1>1, <1>2
<1>4. s # <<>> => Range(s) # {}
  BY <1>1, <1>2
<1>5. s = <<>> => Range(s) = {}
  BY <1>1, <1>2
<1> QED
  BY <1>2, <1>3, <1>4, <1>5

\* A function on an interval is a sequence.
LEMMA FunctionSeq ==
    ASSUME NEW S, NEW n \in Nat, NEW s \in [1 .. n -> S]
    PROVE  s \in Seq(S) /\ Len(s) = n
<1>1. s \in Seq(S)
  BY IsASeq
<1>2. DOMAIN s = 1 .. n /\ DOMAIN s = 1 .. Len(s) /\ Len(s) \in Nat
  BY <1>1, SeqFacts
<1> QED
  BY <1>1, <1>2

\* A sequence without repetitions is as long as the set of its members.
LEMMA DistinctLength ==
    ASSUME NEW S, NEW s \in Seq(S), Distinct(s)
    PROVE  /\ IsFiniteSet(Range(s)) /\ Len(s) = Cardinality(Range(s))
           /\ Len(s) \in Nat
<1>0. /\ Len(s) \in Nat /\ DOMAIN s = 1 .. Len(s)
      /\ \A x : x \in Range(s) <=> \E i \in 1 .. Len(s) : s[i] = x
  BY SeqFacts, RangeFacts
<1>1. PICK D : D = 1 .. Len(s)
  OBVIOUS
<1>2. PICK R : R = Range(s)
  OBVIOUS
<1>3. s \in [D -> R]
  <2>1. s = [i \in 1 .. Len(s) |-> s[i]]
    BY <1>0
  <2>2. \A i \in 1 .. Len(s) : s[i] \in R
    BY <1>0, <1>2
  <2> QED
    BY <1>1, <2>1, <2>2
<1>4. s \in Bijection(D, R)
  BY <1>0, <1>1, <1>2, <1>3 DEF Bijection, Injection, Surjection, Distinct, IsInjective
<1>5. IsFiniteSet(D) /\ Cardinality(D) = Len(s)
  BY <1>0, <1>1, FS_Interval
<1>6. ExistsBijection(D, R)
  BY <1>4 DEF ExistsBijection
<1>7. IsFiniteSet(R) /\ Cardinality(R) = Cardinality(D)
  BY ONLY <1>5, <1>6, FS_Bijection
<1> QED
  BY <1>0, <1>2, <1>5, <1>7

-----------------------------------------------------------------------------
(* Recursive functions on an interval. Induction is on the set of the        *)
(* numbers for which something holds, and the step of a recursion is a       *)
(* function, not an operator, so that the lemmas can be cited for any.       *)

\* A set of naturals that is not empty has a least member.
LEMMA Smallest ==
    ASSUME NEW T, T \subseteq Nat, T # {}
    PROVE  \E x \in T : \A y \in T : x <= y
<1>1. PICK R : R = OpToRel(<, Nat)
  OBVIOUS
<1>2. IsWellFoundedOn(R, Nat)
  BY <1>1, NatLessThanWellFounded
<1>3. PICK x \in T : \A y \in T : ~(<<y, x>> \in R)
  BY <1>2, WFMin
<1>4. ASSUME NEW y \in T PROVE x <= y
  <2>1. ~(<<y, x>> \in R)
    BY <1>3
  <2>2. R = {ss \in Nat \X Nat : ss[1] < ss[2]}
    BY <1>1 DEF OpToRel
  <2> QED
    BY <2>1, <2>2
<1> QED
  BY <1>4

\* Induction on 0 .. N.
LEMMA UpToN ==
    ASSUME NEW N \in Nat, NEW T, 0 \in T, \A n \in 1 .. N : n - 1 \in T => n \in T
    PROVE  0 .. N \subseteq T
<1> SUFFICES ASSUME 0 .. N \ T # {} PROVE FALSE
  OBVIOUS
<1>1. PICK U : U = 0 .. N \ T
  OBVIOUS
<1>2. U \subseteq Nat /\ U # {}
  BY <1>1
<1>3. PICK x \in U : \A y \in U : x <= y
  BY <1>2, Smallest
<1>4. x \in 1 .. N /\ x - 1 \in 0 .. N /\ x \notin T
  BY <1>1, <1>3
<1>5. x - 1 \notin U
  BY <1>3, <1>4
<1> QED
  BY <1>1, <1>4, <1>5

\* What a function on 0 .. N has at 0, and has at n if it has it at n - 1, it
\* has everywhere.
LEMMA AllInSet ==
    ASSUME NEW N \in Nat, NEW f, NEW S, f[0] \in S,
           \A n \in 1 .. N : f[n - 1] \in S => f[n] \in S
    PROVE  \A n \in 0 .. N : f[n] \in S
<1>1. PICK T : T = {n \in 0 .. N : f[n] \in S}
  OBVIOUS
<1>2. 0 \in T
  BY <1>1
<1>3. \A n \in 1 .. N : n - 1 \in T => n \in T
  BY <1>1
<1>4. 0 .. N \subseteq T
  BY <1>2, <1>3, UpToN
<1> QED
  BY <1>1, <1>4

\* The functions that begin with c and go on by F, up to n.
Runs(S, c, F, n) ==
    {g \in [0 .. n -> S] : g[0] = c /\ \A k \in 1 .. n : g[k] = F[<<g[k - 1], k>>]}

IsStep(S, F, N) == F \in [S \X (1 .. N) -> S]

\* There is a function that begins with c and goes on by F.
LEMMA RunExists ==
    ASSUME NEW N \in Nat, NEW S, NEW c \in S, NEW F, IsStep(S, F, N)
    PROVE  Runs(S, c, F, N) # {}
<1>0. F \in [S \X (1 .. N) -> S]
  BY DEF IsStep
<1>1. PICK T : T = {n \in 0 .. N : Runs(S, c, F, n) # {}}
  OBVIOUS
<1>2. 0 \in T
  <2>1. PICK g : g = [k \in 0 .. 0 |-> c]
    OBVIOUS
  <2>2. g \in Runs(S, c, F, 0)
    BY <2>1 DEF Runs
  <2> QED
    BY <1>1, <2>2
<1>3. ASSUME NEW n \in 1 .. N, n - 1 \in T PROVE n \in T
  <2>1. PICK g : g \in Runs(S, c, F, n - 1)
    BY <1>1, <1>3
  <2>2. /\ g \in [0 .. n - 1 -> S] /\ g[0] = c
        /\ \A k \in 1 .. n - 1 : g[k] = F[<<g[k - 1], k>>]
    BY <2>1 DEF Runs
  <2>3. F[<<g[n - 1], n>>] \in S
    <3>1. g[n - 1] \in S
      BY <2>2
    <3> QED
      BY <1>0, <3>1
  <2>4. PICK h : h = [k \in 0 .. n |-> IF k = n THEN F[<<g[n - 1], n>>] ELSE g[k]]
    OBVIOUS
  <2>5. h \in [0 .. n -> S] /\ h[0] = c
    BY <2>2, <2>3, <2>4
  <2>6. ASSUME NEW k \in 1 .. n PROVE h[k] = F[<<h[k - 1], k>>]
    <3>1. h[k - 1] = g[k - 1]
      <4>1. k - 1 \in 0 .. n /\ k - 1 # n
        OBVIOUS
      <4> QED
        BY <2>4, <4>1
    <3>2. CASE k = n
      <4>1. n \in 0 .. n
        OBVIOUS
      <4>2. h[n] = F[<<g[n - 1], n>>]
        BY <2>4, <4>1
      <4> QED
        BY <3>1, <3>2, <4>2
    <3>3. CASE k # n
      <4>1. k \in 1 .. n - 1 /\ h[k] = g[k]
        BY <2>4, <3>3
      <4> QED
        BY <2>2, <3>1, <4>1
    <3> QED
      BY <3>2, <3>3
  <2>7. h \in Runs(S, c, F, n)
    BY <2>5, <2>6 DEF Runs
  <2> QED
    BY <1>1, <2>7
<1>4. 0 .. N \subseteq T
  BY <1>2, <1>3, UpToN
<1> QED
  BY <1>1, <1>4

-----------------------------------------------------------------------------
(* The invariant.                                                            *)

WorkSet ==
    [node : [Frame -> NodeFrame], list : Seq(Frame), cursor : 1 .. NFrames + 1,
     nKRO : Nat, dir : [Oid -> Place], pot : [Lid -> Pot], inCore : SUBSET Lid,
     queued : SUBSET Lid, log : 1 .. MaxLid + 1, free : Nat, grab : Nat,
     st : {"run", "yield", "stolen", "halt", "log full"}, ret : BOOLEAN,
     first : Frame, saving : BOOLEAN, astray : SUBSET Oid]

EnvSet ==
    [disk : [Lid -> Pot], ckpt : 0 .. 3, base : 1 .. MaxLid + 1,
     cur : [Oid -> Value], pic : [Oid -> Value] \cup {NoPicture},
     kro : SUBSET Frame, gone : SUBSET Oid]

\* The node frames n.
FramesOK(n) ==
    \A f \in Frame :
      /\ n[f].kro => n[f].dirty
      /\ n[f].oid = NoOid => n[f] = FreeFrame
      /\ \A g \in Frame : n[f].oid = n[g].oid /\ f # g => n[f].oid = NoOid

ListOK(s) == Len(s) <= PotSize /\ Distinct(s)

KROFrames(n) == {f \in Frame : n[f].kro}

\* Frames before the cursor that hold KRO nodes are on the list.
Skips(w) == \A f \in Frame : f < w.cursor /\ w.node[f].kro => f \in Range(w.list)

\* The pots and the frames of the log.
LogOK(w, e) ==
    /\ w.queued \subseteq w.inCore
    /\ w.free = NCleaning - Cardinality(w.queued)
    /\ \A l \in w.inCore : l < w.log
    /\ \A l \in w.queued : e.base <= l
    /\ e.base \in Nat /\ e.base <= w.log
    /\ \A o \in Oid : w.dir[o].lid < w.log

\* What a pot holds, in core or on the disk d.
PotAt(w, d, l) == IF l \in w.inCore THEN w.pot[l] ELSE d[l]

\* What is in the log, or at home.
LoggedAt(w, d, o) ==
    IF w.dir[o] = Home THEN HomeValue[o]
    ELSE IF w.dir[o] = NullPlace THEN Null
    ELSE PotAt(w, d, w.dir[o].lid)[w.dir[o].idx]

\* Pots that are not to be written are on the disk, if they hold a node that did
\* not go astray.
WrittenOut(w, e) ==
    \A o \in Oid \ w.astray :
      w.dir[o].lid \in w.inCore \ w.queued =>
        e.disk[w.dir[o].lid] = w.pot[w.dir[o].lid]

\* The processes see e.cur: a node that is not dirty in core is in the log.
Seen(w, e) ==
    /\ \A f \in Frame : w.node[f].oid # NoOid => w.node[f].val = e.cur[w.node[f].oid]
    /\ \A o \in Oid \ w.astray :
         (\A f \in Frame : w.node[f].oid = o => ~w.node[f].dirty) =>
           LoggedAt(w, e.disk, o) = e.cur[o]

\* The picture e.pic is in KRO frames and in the log.
Pictured(w, e) ==
    /\ \A f \in Frame : w.node[f].kro => w.node[f].val = e.pic[w.node[f].oid]
    /\ \A o \in Oid \ w.astray :
         (\A f \in Frame : w.node[f].oid = o => ~w.node[f].kro) =>
           LoggedAt(w, e.disk, o) = e.pic[o]

Fine(w, e) ==
    /\ w \in WorkSet /\ FramesOK(w.node) /\ ListOK(w.list) /\ LogOK(w, e)
    /\ w.nKRO = Cardinality(KROFrames(w.node)) /\ KROFrames(w.node) \subseteq e.kro
    /\ w.saving <=> e.ckpt \in {2, 3}
    /\ e.gone \subseteq w.astray
    /\ WrittenOut(w, e) /\ Seen(w, e)
    /\ e.ckpt \in {2, 3} => Pictured(w, e)

Good(w, e) == Fine(w, e) /\ (w.st # "halt" => Skips(w))

\* The state as the next operation finds it.
Now == [node |-> node, list |-> nodesToClean, cursor |-> KRONodeCleanCursor,
        nKRO |-> numKRONodes, dir |-> dir, pot |-> pot, inCore |-> inCore,
        queued |-> queued, log |-> logCursor, free |-> freeCleaning,
        grab |-> 0, st |-> IF halted THEN "halt" ELSE "run", ret |-> TRUE, first |-> 1,
        saving |-> ckptState \in {2, 3}, astray |-> astray]
Env == [disk |-> disk, ckpt |-> ckptState, base |-> saved.logCursor,
        cur |-> Current, pic |-> snapshot, kro |-> KROFrames(node), gone |-> astray]

\* The checkpoint.
Phases ==
    /\ snapshot \in IF ckptState \in {2, 3} THEN [Oid -> Value] ELSE {NoPicture}
    /\ ckptState # 2 => KROFrames(node) = {}

\* What a restart finds.
Stable ==
    /\ saved \in [dir : [Oid -> Place], logCursor : 1 .. MaxLid + 1]
    /\ \A o \in Oid : saved.dir[o].lid < saved.logCursor
    /\ committed \in [Oid -> Value]
    /\ Recoverable

Inv ==
    /\ Good(Now, Env) /\ Env \in EnvSet
    /\ halted \in BOOLEAN /\ stores \in 0 .. MaxStores /\ potsKRO \subseteq Lid
    /\ Phases /\ Stable
-----------------------------------------------------------------------------
(* Frames.                                                                   *)

LEMMA FrameFacts ==
    /\ IsFiniteSet(Frame) /\ Frame \subseteq Nat /\ Frame # {} /\ 1 \in Frame
    /\ NFrames \in Nat \ {0} /\ PotSize \in Nat \ {0} /\ MaxLid \in Nat
    /\ NCleaning \in Nat
    /\ \A n : KROFrames(n) \subseteq Frame /\ IsFiniteSet(KROFrames(n))
                /\ Cardinality(KROFrames(n)) \in Nat
<1>1. /\ NFrames \in Nat \ {0} /\ PotSize \in Nat \ {0} /\ MaxLid \in Nat
      /\ NCleaning \in Nat
  BY ConstantsAssumption
<1>2. IsFiniteSet(Frame) /\ Frame \subseteq Nat /\ 1 \in Frame
  BY <1>1, FS_Interval DEF Frame
<1>3. ASSUME NEW n
      PROVE  /\ KROFrames(n) \subseteq Frame /\ IsFiniteSet(KROFrames(n))
             /\ Cardinality(KROFrames(n)) \in Nat
  <2>1. PICK A : A = KROFrames(n)
    OBVIOUS
  <2>2. A \in SUBSET Frame
    BY <2>1 DEF KROFrames
  <2>3. IsFiniteSet(A)
    BY ONLY <1>2, <2>2, FS_Subset
  <2>4. Cardinality(A) \in Nat
    BY ONLY <2>3, FS_CardinalityType
  <2> QED
    BY <2>1, <2>2, <2>3, <2>4
<1> QED
  BY <1>1, <1>2, <1>3

\* Everything but the list and how far the operation got is the same.
SameStore(w, v) ==
    /\ v.node = w.node /\ v.dir = w.dir /\ v.pot = w.pot /\ v.inCore = w.inCore
    /\ v.queued = w.queued /\ v.log = w.log /\ v.free = w.free /\ v.nKRO = w.nKRO
    /\ v.saving = w.saving /\ v.astray = w.astray

\* The list changes.
LEMMA ListStep ==
    ASSUME NEW w, NEW e, Fine(w, e), NEW v \in WorkSet, SameStore(w, v),
           ListOK(v.list)
    PROVE  Fine(v, e)
<1>1. FramesOK(v.node) /\ v.nKRO = Cardinality(KROFrames(v.node))
      /\ KROFrames(v.node) \subseteq e.kro
  BY DEF Fine, SameStore
<1>2. LogOK(v, e)
  BY DEF Fine, SameStore, LogOK
<1>3. \A o : LoggedAt(v, e.disk, o) = LoggedAt(w, e.disk, o)
  BY DEF SameStore, LoggedAt, PotAt
<1>4. WrittenOut(v, e)
  BY DEF Fine, SameStore, WrittenOut
<1>5. Seen(v, e)
  BY <1>3 DEF Fine, SameStore, Seen
<1>6. e.ckpt \in {2, 3} => Pictured(v, e)
  BY <1>3 DEF Fine, SameStore, Pictured
<1>7. (v.saving <=> e.ckpt \in {2, 3}) /\ e.gone \subseteq v.astray
  BY DEF Fine, SameStore
<1> QED
  BY <1>1, <1>2, <1>4, <1>5, <1>6, <1>7 DEF Fine

\* An operation ends in the middle, or goes on.
LEMMA ControlStep ==
    ASSUME NEW w, NEW e, Fine(w, e), NEW v \in WorkSet, SameStore(w, v),
           v.list = w.list
    PROVE  /\ Fine(v, e)
           /\ v.cursor = w.cursor /\ Skips(w) => Skips(v)
<1>1. ListOK(v.list)
  BY DEF Fine
<1>2. Fine(v, e)
  BY <1>1, ListStep
<1>3. v.cursor = w.cursor /\ Skips(w) => Skips(v)
  BY DEF Skips, SameStore
<1> QED
  BY <1>2, <1>3
-----------------------------------------------------------------------------
(* The list nodesToClean.                                                    *)

\* d has of the members of s at least the candidates, each once.
Keeps(w, s, d) ==
    /\ d \in Seq(Frame) /\ Distinct(d) /\ Len(d) \in Nat
    /\ Range(d) \subseteq Range(s)
    /\ \A f \in Range(s) : Candidate(w, f) => f \in Range(d)

LEMMA WithoutFirstKeeps ==
    ASSUME NEW w, NEW s \in Seq(Frame), Distinct(s), ~AllCandidates(w, s),
           NEW d, d = WithoutFirst(w, s)
    PROVE  Keeps(w, s, d) /\ Len(d) = Len(s) - 1
<1>0. /\ Len(s) \in Nat /\ (\A i \in 1 .. Len(s) : s[i] \in Frame)
      /\ \A x : x \in Range(s) <=> \E i \in 1 .. Len(s) : s[i] = x
  BY SeqFacts, RangeFacts
<1>1. PICK n : n = Len(s)
  OBVIOUS
<1>2. PICK i : i = CHOOSE k \in 1 .. n :
                     /\ ~Candidate(w, s[k])
                     /\ \A j \in 1 .. k - 1 : Candidate(w, s[j])
  OBVIOUS
<1>3. i \in 1 .. n /\ ~Candidate(w, s[i])
  <2>1. PICK T : T = {k \in 1 .. n : ~Candidate(w, s[k])}
    OBVIOUS
  <2>2. T \subseteq Nat /\ T # {}
    BY <1>0, <1>1, <2>1 DEF AllCandidates
  <2>3. PICK x \in T : \A y \in T : x <= y
    BY <2>2, Smallest
  <2>4. x \in 1 .. n /\ ~Candidate(w, s[x])
    BY <2>1
  <2>5. ASSUME NEW j \in 1 .. x - 1 PROVE Candidate(w, s[j])
    <3>1. j \in 1 .. n /\ ~(x <= j)
      BY <1>0, <1>1, <2>4
    <3> QED
      BY <2>1, <2>3, <3>1
  <2> QED
    BY <1>2, <2>4, <2>5
<1>4. PICK to : to = [j \in 1 .. n - 1 |-> IF j = i THEN n ELSE j]
  OBVIOUS
<1>5. n \in Nat \ {0} /\ n - 1 \in Nat
  BY <1>0, <1>1, <1>3
<1>6. \A j \in 1 .. n - 1 : to[j] \in 1 .. n
  BY <1>4, <1>5
<1>7. \A j, k \in 1 .. n - 1 : to[j] = to[k] => j = k
  BY <1>4, <1>5
<1>8. \A m \in 1 .. n : m # i => \E j \in 1 .. n - 1 : to[j] = m
  <2> SUFFICES ASSUME NEW m \in 1 .. n, m # i PROVE \E j \in 1 .. n - 1 : to[j] = m
    OBVIOUS
  <2>1. CASE m = n
    <3>1. i \in 1 .. n - 1 /\ to[i] = m
      BY <1>3, <1>4, <1>5, <2>1
    <3> QED
      BY <3>1
  <2>2. CASE m # n
    <3>1. m \in 1 .. n - 1 /\ to[m] = m
      BY <1>4, <1>5, <2>2
    <3> QED
      BY <3>1
  <2> QED
    BY <2>1, <2>2
<1>9. d = [j \in 1 .. n - 1 |-> s[to[j]]]
  <2>1. d = [j \in 1 .. n - 1 |-> IF j = i THEN s[n] ELSE s[j]]
    BY <1>1, <1>2 DEF WithoutFirst
  <2> QED
    BY <1>4, <2>1
<1>10. d \in Seq(Frame) /\ Len(d) = n - 1
  <2>1. d \in [1 .. n - 1 -> Frame]
    BY <1>0, <1>1, <1>6, <1>9
  <2> QED
    BY ONLY <1>5, <2>1, FunctionSeq
<1>11. Distinct(d)
  <2> SUFFICES ASSUME NEW j \in 1 .. n - 1, NEW k \in 1 .. n - 1, d[j] = d[k]
               PROVE  j = k
    BY <1>10 DEF Distinct
  <2>1. to[j] \in 1 .. n /\ to[k] \in 1 .. n /\ s[to[j]] = s[to[k]]
    BY <1>6, <1>9
  <2>2. to[j] = to[k]
    BY <1>1, <2>1 DEF Distinct
  <2> QED
    BY <1>7, <2>2
<1>12. \A x : x \in Range(d) <=> \E j \in 1 .. Len(d) : d[j] = x
  BY <1>10, RangeFacts
<1>13. Range(d) \subseteq Range(s)
  BY <1>0, <1>1, <1>6, <1>9, <1>10, <1>12
<1>14. ASSUME NEW f \in Range(s), Candidate(w, f) PROVE f \in Range(d)
  <2>1. PICK m \in 1 .. n : s[m] = f
    BY <1>0, <1>1
  <2>2. m # i
    BY <1>3, <1>14, <2>1
  <2>3. PICK j \in 1 .. n - 1 : to[j] = m
    BY <1>8, <2>2
  <2> QED
    BY <1>9, <1>10, <1>12, <2>1, <2>3
<1> QED
  BY <1>1, <1>5, <1>10, <1>11, <1>13, <1>14 DEF Keeps

LEMMA PrunedKeeps ==
    ASSUME NEW w, w.list \in Seq(Frame), Distinct(w.list), NEW d, d = Pruned(w)
    PROVE  Keeps(w, w.list, d) /\ Len(d) <= Len(w.list) /\ AllCandidates(w, d)
<1>1. PICK s : s = w.list
  OBVIOUS
<1>2. PICK N : N = Len(s)
  OBVIOUS
<1>3. s \in Seq(Frame) /\ Distinct(s) /\ N \in Nat
  BY <1>1, <1>2, SeqFacts
<1>4. PICK S : S = {t \in Seq(Frame) : Keeps(w, s, t) /\ Len(t) <= N}
  OBVIOUS
<1>5. s \in S
  BY <1>2, <1>3, <1>4 DEF Keeps
<1>6. ASSUME NEW t \in S, ~AllCandidates(w, t)
      PROVE  WithoutFirst(w, t) \in S /\ Len(WithoutFirst(w, t)) = Len(t) - 1
  <2>1. t \in Seq(Frame) /\ Keeps(w, s, t) /\ Len(t) <= N /\ Distinct(t) /\ Len(t) \in Nat
    BY <1>4 DEF Keeps
  <2>2. PICK u : u = WithoutFirst(w, t)
    OBVIOUS
  <2>3. Keeps(w, t, u) /\ Len(u) = Len(t) - 1
    BY <1>6, <2>1, <2>2, WithoutFirstKeeps
  <2>4. Keeps(w, s, u)
    BY <2>1, <2>3 DEF Keeps
  <2>5. Len(u) <= N
    BY <1>3, <2>1, <2>3
  <2> QED
    BY <1>4, <2>2, <2>3, <2>4, <2>5 DEF Keeps
<1>7. PICK F : F = [p \in S \X (1 .. N) |->
                     IF AllCandidates(w, p[1]) THEN p[1] ELSE WithoutFirst(w, p[1])]
  OBVIOUS
<1>8. F \in [S \X (1 .. N) -> S]
  BY <1>6, <1>7
<1>9. PICK g \in [0 .. N -> S] : g[0] = s /\ \A n \in 1 .. N : g[n] = F[<<g[n - 1], n>>]
  <2>1. N \in Nat /\ IsStep(S, F, N)
    BY <1>3, <1>8 DEF IsStep
  <2>2. Runs(S, s, F, N) # {}
    BY <2>1, <1>5, RunExists
  <2> QED
    BY <2>2 DEF Runs
<1>10. \A n \in 1 .. N : F[<<g[n - 1], n>>] =
          IF AllCandidates(w, g[n - 1]) THEN g[n - 1] ELSE WithoutFirst(w, g[n - 1])
  <2> SUFFICES ASSUME NEW n \in 1 .. N
               PROVE  F[<<g[n - 1], n>>] =
          IF AllCandidates(w, g[n - 1]) THEN g[n - 1] ELSE WithoutFirst(w, g[n - 1])
    OBVIOUS
  <2>1. g[n - 1] \in S
    BY <1>3
  <2>2. <<g[n - 1], n>> \in S \X (1 .. N)
    BY <2>1
  <2> QED
    BY <1>7, <2>2
<1>11. g = [n \in 0 .. N |->
              IF n = 0 THEN s
              ELSE IF AllCandidates(w, g[n - 1]) THEN g[n - 1]
              ELSE WithoutFirst(w, g[n - 1])]
  <2>1. ASSUME NEW n \in 0 .. N
        PROVE  g[n] = IF n = 0 THEN s
                      ELSE IF AllCandidates(w, g[n - 1]) THEN g[n - 1]
                      ELSE WithoutFirst(w, g[n - 1])
    <3>1. CASE n = 0
      BY <1>9, <3>1
    <3>2. CASE n # 0
      <4>1. n \in 1 .. N
        BY <3>2
      <4> QED
        BY <1>9, <1>10, <3>2, <4>1, Zenon
    <3> QED
      BY <3>1, <3>2
  <2>2. g = [n \in 0 .. N |-> g[n]]
    OBVIOUS
  <2> QED
    BY <2>1, <2>2, Zenon
<1>12. PICK f : f = CHOOSE h : h = [n \in 0 .. N |->
              IF n = 0 THEN s
              ELSE IF AllCandidates(w, h[n - 1]) THEN h[n - 1]
              ELSE WithoutFirst(w, h[n - 1])]
  OBVIOUS
<1>13. f = [n \in 0 .. N |->
              IF n = 0 THEN s
              ELSE IF AllCandidates(w, f[n - 1]) THEN f[n - 1]
              ELSE WithoutFirst(w, f[n - 1])]
  BY <1>11, <1>12, Zenon
<1>14. d = f[N]
  BY <1>1, <1>2, <1>12 DEF Pruned
<1>15. f[0] = s
  BY <1>3, <1>13
<1>16. \A n \in 1 .. N : f[n] = IF AllCandidates(w, f[n - 1]) THEN f[n - 1]
                               ELSE WithoutFirst(w, f[n - 1])
  BY <1>3, <1>13
<1>17. \A n \in 0 .. N : f[n] \in S
  <2>1. \A n \in 1 .. N : f[n - 1] \in S => f[n] \in S
    BY <1>6, <1>16
  <2> QED
    BY <1>3, <1>5, <1>15, <2>1, AllInSet
<1>18. PICK T : T = {n \in 0 .. N : AllCandidates(w, f[n]) \/ Len(f[n]) <= N - n}
  OBVIOUS
<1>19. 0 .. N \subseteq T
  <2>1. 0 \in T
    BY <1>2, <1>3, <1>15, <1>18
  <2>2. ASSUME NEW n \in 1 .. N, n - 1 \in T PROVE n \in T
    <3>1. n - 1 \in 0 .. N /\ n \in 0 .. N /\ f[n - 1] \in S
      BY <1>3, <1>17
    <3>2. CASE AllCandidates(w, f[n - 1])
      BY <1>16, <1>18, <3>1, <3>2
    <3>3. CASE ~AllCandidates(w, f[n - 1])
      <4>1. f[n] = WithoutFirst(w, f[n - 1]) /\ Len(f[n]) = Len(f[n - 1]) - 1
        BY <1>6, <1>16, <3>1, <3>3
      <4>2. Len(f[n - 1]) <= N - (n - 1) /\ Len(f[n - 1]) \in Nat
        BY <1>4, <1>18, <2>2, <3>1, <3>3 DEF Keeps
      <4>3. Len(f[n]) <= N - n
        BY <1>3, <4>1, <4>2
      <4> QED
        BY <1>18, <3>1, <4>3
    <3> QED
      BY <3>2, <3>3
  <2> QED
    BY ONLY <1>3, <2>1, <2>2, UpToN
<1>20. N \in 0 .. N
  BY <1>3
<1>21. Keeps(w, s, d) /\ Len(d) <= N
  BY <1>4, <1>14, <1>17, <1>20
<1>22. AllCandidates(w, d)
  <2>1. AllCandidates(w, d) \/ Len(d) <= 0
    BY <1>3, <1>14, <1>18, <1>19, <1>20
  <2>2. Len(d) \in Nat
    BY <1>21 DEF Keeps
  <2> QED
    BY <2>1, <2>2 DEF AllCandidates
<1> QED
  BY <1>1, <1>2, <1>21, <1>22
-----------------------------------------------------------------------------
(* Logging.                                                                  *)

\* The frames n when those of F have been cleaned.
Cleared(n, F) ==
    [f \in Frame |-> IF f \in F THEN [n[f] EXCEPT !.dirty = FALSE, !.kro = FALSE]
                     ELSE n[f]]

NodeFrames == [Frame -> NodeFrame]

\* What cleaning the frames F changes.
CleanedFrom(n, F, c) ==
    /\ c \in [Frame -> NodeFrame] /\ FramesOK(c)
    /\ \A f \in Frame : /\ c[f].oid = n[f].oid /\ c[f].val = n[f].val
                        /\ c[f].old = n[f].old
                        /\ f \in F => ~c[f].dirty /\ ~c[f].kro
                        /\ f \notin F => c[f] = n[f]
    /\ Cardinality(KROFrames(c)) =
         Cardinality(KROFrames(n)) - Cardinality({f \in F : n[f].kro})
    /\ KROFrames(c) \subseteq KROFrames(n)

LEMMA ClearedFacts ==
    ASSUME NEW n \in NodeFrames, FramesOK(n), NEW F, F \subseteq Frame,
           NEW c, c = Cleared(n, F)
    PROVE  CleanedFrom(n, F, c)
<1>1. ASSUME NEW f \in Frame
      PROVE  /\ c[f] \in NodeFrame
             /\ c[f].oid = n[f].oid /\ c[f].val = n[f].val /\ c[f].old = n[f].old
             /\ f \in F => ~c[f].dirty /\ ~c[f].kro
             /\ f \notin F => c[f] = n[f]
             /\ n[f] = FreeFrame => c[f] = FreeFrame
  <2>1. n[f] \in NodeFrame
    BY DEF NodeFrames
  <2>2. c[f] = IF f \in F THEN [n[f] EXCEPT !.dirty = FALSE, !.kro = FALSE] ELSE n[f]
    BY DEF Cleared
  <2>3. CASE f \in F
    <3>1. PICK r : r = n[f]
      OBVIOUS
    <3>2. c[f] = [r EXCEPT !.dirty = FALSE, !.kro = FALSE] /\ r \in NodeFrame
      BY <2>1, <2>2, <2>3, <3>1
    <3>3. /\ c[f] \in NodeFrame /\ c[f].oid = r.oid /\ c[f].val = r.val
          /\ c[f].old = r.old /\ c[f].dirty = FALSE /\ c[f].kro = FALSE
      BY ONLY <3>2 DEF NodeFrame
    <3>4. r = FreeFrame => c[f] = FreeFrame
      <4>1. c[f] = [oid |-> r.oid, val |-> r.val, dirty |-> FALSE, kro |-> FALSE,
                    old |-> r.old]
        BY ONLY <3>2 DEF NodeFrame
      <4> QED
        BY ONLY <4>1 DEF FreeFrame
    <3> QED
      BY <2>3, <3>1, <3>3, <3>4
  <2>4. CASE f \notin F
    BY <2>1, <2>2, <2>4
  <2> QED
    BY <2>3, <2>4
<1>2. c \in [Frame -> NodeFrame]
  <2>1. c = [f \in Frame |-> c[f]]
    BY DEF Cleared
  <2> QED
    BY <1>1, <2>1
<1>3. FramesOK(c)
  BY <1>1 DEF FramesOK
<1>4. PICK A : A = KROFrames(n)
  OBVIOUS
<1>5. PICK B : B = {f \in F : n[f].kro}
  OBVIOUS
<1>6. KROFrames(c) = A \ B /\ A \cap B = B
  BY <1>1, <1>4, <1>5 DEF KROFrames
<1>7. IsFiniteSet(A)
  BY <1>4, FrameFacts
<1>8. Cardinality(A \ B) = Cardinality(A) - Cardinality(A \cap B)
  BY ONLY <1>7, FS_Difference
<1> QED
  BY <1>1, <1>2, <1>3, <1>4, <1>5, <1>6, <1>8 DEF CleanedFrom

\* The nodes in the frames F are cleaned, and the log has their contents.
LEMMA LoggingStep ==
    ASSUME NEW w, NEW e, Fine(w, e), NEW F, F \subseteq Frame,
           \A f \in F : w.node[f].oid # NoOid,
           NEW v \in WorkSet, v.node = Cleared(w.node, F),
           w.astray \subseteq v.astray, v.saving = w.saving,
           e.ckpt \in {2, 3} =>
             \A f \in F : \/ w.node[f].kro \/ ~w.node[f].dirty
                         \/ w.node[f].oid \in v.astray,
           v.nKRO = w.nKRO - KRORemoved(w, F),
           ListOK(v.list), LogOK(v, e), WrittenOut(v, e),
           \A f \in F : LoggedAt(v, e.disk, w.node[f].oid) = w.node[f].val,
           \A o \in Oid : (\A f \in F : w.node[f].oid # o) =>
                            LoggedAt(v, e.disk, o) = LoggedAt(w, e.disk, o)
    PROVE  Fine(v, e)
<1>0. /\ w.node \in [Frame -> NodeFrame] /\ FramesOK(w.node)
      /\ w.nKRO = Cardinality(KROFrames(w.node)) /\ KROFrames(w.node) \subseteq e.kro
  BY DEF Fine, WorkSet
<1>1. PICK n : n = w.node
  OBVIOUS
<1>2. PICK c : c = v.node
  OBVIOUS
<1>3. /\ c \in [Frame -> NodeFrame] /\ FramesOK(c)
      /\ \A f \in Frame : /\ c[f].oid = n[f].oid /\ c[f].val = n[f].val
                          /\ c[f].old = n[f].old
                          /\ f \in F => ~c[f].dirty /\ ~c[f].kro
                          /\ f \notin F => c[f] = n[f]
      /\ Cardinality(KROFrames(c)) =
           Cardinality(KROFrames(n)) - Cardinality({f \in F : n[f].kro})
      /\ KROFrames(c) \subseteq KROFrames(n)
  <2>1. n \in NodeFrames
    BY <1>0, <1>1 DEF NodeFrames
  <2>2. FramesOK(n) /\ c = Cleared(n, F) /\ F \subseteq Frame
    BY <1>0, <1>1, <1>2
  <2>3. CleanedFrom(n, F, c)
    BY ONLY <2>1, <2>2, ClearedFacts
  <2> QED
    BY <2>3 DEF CleanedFrom
<1>4. v.nKRO = Cardinality(KROFrames(c))
  BY <1>0, <1>1, <1>3 DEF KRORemoved
<1>5. \A f \in Frame : n[f].oid \in Oid \cup {NoOid}
  BY <1>0, <1>1 DEF NodeFrame
<1>6. Seen(v, e)
  <2>0. Seen(w, e)
    BY DEF Fine
  <2>1. ASSUME NEW f \in Frame, c[f].oid # NoOid PROVE c[f].val = e.cur[c[f].oid]
    BY <1>1, <1>3, <2>0, <2>1 DEF Seen
  <2>2. ASSUME NEW o \in Oid \ v.astray, \A f \in Frame : c[f].oid = o => ~c[f].dirty
        PROVE  LoggedAt(v, e.disk, o) = e.cur[o]
    <3>0. o \in Oid \ w.astray
      OBVIOUS
    <3>1. CASE \E f \in F : n[f].oid = o
      <4>1. PICK f \in F : n[f].oid = o
        BY <3>1
      <4>2. LoggedAt(v, e.disk, o) = n[f].val /\ n[f].oid # NoOid
        BY <1>1, <4>1
      <4>3. n[f].val = e.cur[o]
        BY <1>1, <2>0, <4>1, <4>2 DEF Seen
      <4> QED
        BY <4>2, <4>3
    <3>2. CASE \A f \in F : n[f].oid # o
      <4>1. LoggedAt(v, e.disk, o) = LoggedAt(w, e.disk, o)
        BY <1>1, <3>2
      <4>2. ASSUME NEW f \in Frame, n[f].oid = o PROVE ~n[f].dirty
        <5>1. f \notin F
          BY <3>2, <4>2
        <5> QED
          BY <1>3, <2>2, <4>2, <5>1
      <4> QED
        BY <1>1, <2>0, <3>0, <4>1, <4>2 DEF Seen
    <3> QED
      BY <3>1, <3>2
  <2> QED
    BY <1>2, <2>1, <2>2 DEF Seen
<1>7. ASSUME e.ckpt \in {2, 3} PROVE Pictured(v, e)
  <2>0. Pictured(w, e) /\ Seen(w, e)
    BY <1>7 DEF Fine
  <2>1. ASSUME NEW f \in Frame, c[f].kro PROVE c[f].val = e.pic[c[f].oid]
    BY <1>1, <1>3, <2>0, <2>1 DEF Pictured
  <2>2. ASSUME NEW o \in Oid \ v.astray, \A f \in Frame : c[f].oid = o => ~c[f].kro
        PROVE  LoggedAt(v, e.disk, o) = e.pic[o]
    <3>0. o \in Oid \ w.astray
      OBVIOUS
    <3>1. CASE \E f \in F : n[f].oid = o
      <4>1. PICK f \in F : n[f].oid = o
        BY <3>1
      <4>2. LoggedAt(v, e.disk, o) = n[f].val /\ n[f].oid # NoOid /\ f \in Frame
        BY <1>1, <4>1
      <4>3. CASE n[f].kro
        BY <1>1, <2>0, <4>1, <4>2, <4>3 DEF Pictured
      <4>4. CASE ~n[f].kro
        <5>1. ~n[f].dirty
          BY <1>1, <1>7, <4>1, <4>4
        <5>2. \A g \in Frame : n[g].oid = o => g = f
          BY <1>0, <1>1, <4>1, <4>2 DEF FramesOK
        <5>3. LoggedAt(w, e.disk, o) = e.cur[o]
          BY <1>1, <2>0, <3>0, <5>1, <5>2 DEF Seen
        <5>4. LoggedAt(w, e.disk, o) = e.pic[o]
          BY <1>1, <2>0, <3>0, <4>4, <5>2 DEF Pictured
        <5>5. n[f].val = e.cur[o]
          BY <1>1, <2>0, <4>1, <4>2 DEF Seen
        <5> QED
          BY <4>2, <5>3, <5>4, <5>5
      <4> QED
        BY <4>3, <4>4
    <3>2. CASE \A f \in F : n[f].oid # o
      <4>1. LoggedAt(v, e.disk, o) = LoggedAt(w, e.disk, o)
        BY <1>1, <3>2
      <4>2. ASSUME NEW f \in Frame, n[f].oid = o PROVE ~n[f].kro
        <5>1. f \notin F
          BY <3>2, <4>2
        <5> QED
          BY <1>3, <2>2, <4>2, <5>1
      <4> QED
        BY <1>1, <2>0, <3>0, <4>1, <4>2 DEF Pictured
    <3> QED
      BY <3>1, <3>2
  <2> QED
    BY <1>2, <2>1, <2>2 DEF Pictured
<1>8. (v.saving <=> e.ckpt \in {2, 3}) /\ e.gone \subseteq v.astray
  <2>1. (w.saving <=> e.ckpt \in {2, 3}) /\ e.gone \subseteq w.astray
    BY DEF Fine
  <2> QED
    BY <2>1
<1> QED
  BY <1>0, <1>1, <1>2, <1>3, <1>4, <1>6, <1>7, <1>8 DEF Fine

\* A null node is recorded as such.
LEMMA NullStep ==
    ASSUME NEW w, NEW e, Fine(w, e), NEW f \in Frame, w.node[f].oid # NoOid,
           w.node[f].val = Null,
           e.ckpt \in {2, 3} => w.node[f].kro \/ ~w.node[f].dirty,
           NEW v, v = [node_ClearDirty(w, {f}) EXCEPT
                         !.dir[w.node[f].oid] = NullPlace, !.ret = TRUE]
    PROVE  /\ Fine(v, e) /\ v.node = Cleared(w.node, {f}) /\ v.list = w.list
           /\ v.cursor = w.cursor /\ v.st = w.st /\ v.ret
<1>0. /\ w \in WorkSet /\ FramesOK(w.node) /\ ListOK(w.list) /\ LogOK(w, e)
      /\ w.nKRO = Cardinality(KROFrames(w.node)) /\ w.log \in Nat \ {0}
      /\ w.dir \in [Oid -> Place]
  <2>1. /\ w \in WorkSet /\ FramesOK(w.node) /\ ListOK(w.list) /\ LogOK(w, e)
        /\ w.nKRO = Cardinality(KROFrames(w.node))
    BY DEF Fine
  <2>2. w.log \in 1 .. MaxLid + 1 /\ w.dir \in [Oid -> Place]
    BY <2>1 DEF WorkSet
  <2>3. w.log \in Nat \ {0}
    BY <2>2, ConstantsAssumption
  <2> QED
    BY <2>1, <2>2, <2>3
<1>1. PICK n : n = w.node
  OBVIOUS
<1>2. PICK c : c = Cleared(n, {f})
  OBVIOUS
<1>3. n \in NodeFrames /\ FramesOK(n) /\ {f} \subseteq Frame
  BY <1>0, <1>1 DEF WorkSet, NodeFrames
<1>4. CleanedFrom(n, {f}, c)
  BY ONLY <1>2, <1>3, ClearedFacts
<1>5. PICK k : k = w.nKRO - KRORemoved(w, {f})
  OBVIOUS
<1>6. k \in Nat
  BY <1>0, <1>1, <1>4, <1>5, FrameFacts DEF CleanedFrom, KRORemoved
<1>7. PICK o : o = n[f].oid
  OBVIOUS
<1>8. o \in Oid /\ o # NoOid
  BY <1>1, <1>3, <1>7 DEF NodeFrames, NodeFrame
<1>9. PICK D : D = [w.dir EXCEPT ![o] = NullPlace]
  OBVIOUS
<1>10. node_ClearDirty(w, {f}) = [w EXCEPT !.node = c, !.nKRO = k]
  <2>1. c = [h \in Frame |-> IF h \in {f}
                             THEN [w.node[h] EXCEPT !.dirty = FALSE, !.kro = FALSE]
                             ELSE w.node[h]]
    BY <1>1, <1>2 DEF Cleared
  <2> QED
    BY ONLY <1>0, <1>5, <2>1 DEF node_ClearDirty, WorkSet
<1>11. v = [w EXCEPT !.node = c, !.nKRO = k, !.dir = D, !.ret = TRUE]
  BY ONLY <1>0, <1>1, <1>7, <1>9, <1>10,
     v = [node_ClearDirty(w, {f}) EXCEPT !.dir[w.node[f].oid] = NullPlace, !.ret = TRUE]
     DEF WorkSet
<1>12. D \in [Oid -> Place] /\ NullPlace.lid = 0
  BY <1>0, <1>9 DEF Place, NullPlace
<1>13. /\ v \in WorkSet /\ v.node = c /\ v.nKRO = k /\ v.dir = D /\ v.ret
       /\ v.list = w.list /\ v.cursor = w.cursor /\ v.st = w.st /\ v.pot = w.pot
       /\ v.inCore = w.inCore /\ v.queued = w.queued /\ v.log = w.log
       /\ v.free = w.free /\ v.astray = w.astray /\ v.saving = w.saving
  <2>1. c \in [Frame -> NodeFrame]
    BY <1>4 DEF CleanedFrom
  <2> QED
    BY ONLY <1>0, <1>6, <1>11, <1>12, <2>1 DEF WorkSet
<1>14. LogOK(v, e)
  <2>1. \A r \in Oid : D[r].lid < w.log
    BY <1>0, <1>9, <1>12 DEF LogOK
  <2> QED
    BY <1>0, <1>13, <2>1 DEF LogOK
<1>15. WrittenOut(v, e)
  <2>1. ASSUME NEW r \in Oid \ w.astray, D[r].lid \in w.inCore \ w.queued
        PROVE  e.disk[D[r].lid] = w.pot[D[r].lid]
    <3>1. 0 \notin w.inCore
      <4>1. w.inCore \subseteq Lid
        BY ONLY <1>0 DEF WorkSet
      <4> QED
        BY <4>1, ConstantsAssumption DEF Lid
    <3>2. D[r] = w.dir[r]
      BY <1>0, <1>9, <1>12, <2>1, <3>1
    <3> QED
      BY <2>1, <3>2 DEF Fine, WrittenOut
  <2>2. v.astray = w.astray /\ v.dir = D /\ v.inCore = w.inCore /\ v.queued = w.queued
        /\ v.pot = w.pot
    BY <1>13
  <2> QED
    BY ONLY <2>1, <2>2 DEF WrittenOut
<1>16. LoggedAt(v, e.disk, o) = Null
  <2>1. D[o] = NullPlace /\ NullPlace # Home
    BY <1>0, <1>8, <1>9 DEF NullPlace, Home
  <2> QED
    BY <1>13, <2>1 DEF LoggedAt
<1>17. \A r \in Oid : r # o => LoggedAt(v, e.disk, r) = LoggedAt(w, e.disk, r)
  <2>1. \A r \in Oid : r # o => D[r] = w.dir[r]
    BY <1>0, <1>9
  <2>2. ASSUME NEW r \in Oid, r # o
        PROVE  LoggedAt(v, e.disk, r) = LoggedAt(w, e.disk, r)
    <3>1. v.dir[r] = w.dir[r]
      BY <1>13, <2>1, <2>2
    <3> QED
      BY ONLY <1>13, <3>1 DEF LoggedAt, PotAt
  <2> QED
    BY <2>2
<1>18. Fine(v, e)
  <2>1. PICK F : F = {f}
    OBVIOUS
  <2>2. /\ F \subseteq Frame /\ \A g \in F : w.node[g].oid # NoOid
        /\ e.ckpt \in {2, 3} =>
             \A g \in F : \/ w.node[g].kro \/ ~w.node[g].dirty
                         \/ w.node[g].oid \in v.astray
        /\ v.node = Cleared(w.node, F) /\ v.nKRO = w.nKRO - KRORemoved(w, F)
    BY <1>1, <1>2, <1>5, <1>13, <2>1
  <2>3. ListOK(v.list) /\ w.astray \subseteq v.astray
    BY <1>0, <1>13
  <2>4. \A g \in F : LoggedAt(v, e.disk, w.node[g].oid) = w.node[g].val
    BY <1>1, <1>7, <1>16, <2>1
  <2>5. \A r \in Oid : (\A g \in F : w.node[g].oid # r) =>
                         LoggedAt(v, e.disk, r) = LoggedAt(w, e.disk, r)
    BY <1>1, <1>7, <1>17, <2>1
  <2> QED
    BY ONLY Fine(w, e), <1>13, <1>14, <1>15, <2>2, <2>3, <2>4, <2>5, LoggingStep
<1> QED
  BY <1>1, <1>2, <1>13, <1>18

\* What FillPot records where.
PotDir(w, l) ==
    [o \in Oid |->
       IF \E i \in 1 .. Len(w.list) : w.node[w.list[i]].oid = o
       THEN [lid |-> l, idx |-> CHOOSE i \in 1 .. Len(w.list) : w.node[w.list[i]].oid = o]
       ELSE w.dir[o]]
PotOf(w) == [i \in 1 .. PotSize |-> IF i <= Len(w.list) THEN w.node[w.list[i]].val ELSE Null]

\* The fields that FillPot changes.
LEMMA FillPotFields ==
    ASSUME NEW w \in WorkSet, FramesOK(w.node), ListOK(w.list), w.log <= MaxLid,
           w.grab # 0, w.nKRO = Cardinality(KROFrames(w.node)),
           GoneAstray(w) \subseteq Oid, NEW v, v = FillPot(w)
    PROVE  /\ v \in WorkSet /\ v.node = Cleared(w.node, Range(w.list))
           /\ v.nKRO = w.nKRO - KRORemoved(w, Range(w.list))
           /\ v.dir = PotDir(w, w.log) /\ v.pot = [w.pot EXCEPT ![w.log] = PotOf(w)]
           /\ v.inCore = w.inCore \cup {w.log} /\ v.log = w.log + 1
           /\ v.list = <<>> /\ v.cursor = w.cursor /\ v.st = w.st /\ v.ret
           /\ v.saving = w.saving /\ v.astray = w.astray \cup GoneAstray(w)
           /\ \/ w.free = 0 /\ v.queued = w.queued /\ v.free = w.free
              \/ w.free # 0 /\ v.queued = w.queued \cup {w.log} /\ v.free = w.free - 1
<1>0. /\ w.node \in [Frame -> NodeFrame] /\ w.list \in Seq(Frame)
      /\ w.log \in Lid /\ w.log \in Nat /\ w.log + 1 \in 1 .. MaxLid + 1
      /\ w.dir \in [Oid -> Place] /\ w.pot \in [Lid -> Pot] /\ w.inCore \subseteq Lid
      /\ w.queued \subseteq Lid /\ w.free \in Nat /\ w.grab - 1 \in Nat
      /\ w.first \in Frame /\ PotSize \in Nat /\ Len(w.list) \in Nat
  <2>1. /\ w.node \in [Frame -> NodeFrame] /\ w.list \in Seq(Frame)
        /\ w.log \in 1 .. MaxLid + 1 /\ w.dir \in [Oid -> Place]
        /\ w.pot \in [Lid -> Pot] /\ w.inCore \subseteq Lid
        /\ w.queued \subseteq Lid /\ w.free \in Nat /\ w.grab \in Nat
        /\ w.first \in Frame
    BY DEF WorkSet
  <2>2. Len(w.list) \in Nat
    BY <2>1, SeqFacts
  <2>3. PotSize \in Nat /\ MaxLid \in Nat
    BY ConstantsAssumption
  <2> QED
    BY <2>1, <2>2, <2>3 DEF Lid
<1>1. PICK F : F = Range(w.list)
  OBVIOUS
<1>2. PICK c : c = Cleared(w.node, F)
  OBVIOUS
<1>3. F \subseteq Frame
  BY <1>0, <1>1, RangeFacts
<1>4. CleanedFrom(w.node, F, c)
  <2>1. PICK n : n = w.node
    OBVIOUS
  <2>2. n \in NodeFrames /\ FramesOK(n) /\ c = Cleared(n, F)
    BY <1>0, <1>2, <2>1 DEF NodeFrames
  <2>3. CleanedFrom(n, F, c)
    BY ONLY <1>3, <2>2, ClearedFacts
  <2> QED
    BY <2>1, <2>3
<1>5. PICK k : k = w.nKRO - KRORemoved(w, F)
  OBVIOUS
<1>6. k \in Nat /\ c \in [Frame -> NodeFrame]
  BY <1>4, <1>5, FrameFacts DEF CleanedFrom, KRORemoved
<1>7. PICK a : a = node_ClearDirty(w, F)
  OBVIOUS
<1>8. a = [w EXCEPT !.node = c, !.nKRO = k]
  <2>1. c = [h \in Frame |-> IF h \in F
                             THEN [w.node[h] EXCEPT !.dirty = FALSE, !.kro = FALSE]
                             ELSE w.node[h]]
    BY <1>2 DEF Cleared
  <2> QED
    BY ONLY w \in WorkSet, <1>5, <1>7, <2>1 DEF node_ClearDirty, WorkSet
<1>9. PICK D : D = PotDir(w, w.log)
  OBVIOUS
<1>10. PICK P : P = PotOf(w)
  OBVIOUS
<1>11. PICK g : g = IF Len(w.list) = 0 THEN w.first ELSE w.list[1]
  OBVIOUS
<1>12. PICK u : u = [a EXCEPT !.dir = D, !.pot = [w.pot EXCEPT ![w.log] = P],
                              !.inCore = w.inCore \cup {w.log}, !.log = w.log + 1,
                              !.grab = w.grab - 1, !.list = <<>>, !.first = g,
                              !.astray = w.astray \cup GoneAstray(w), !.ret = TRUE]
  OBVIOUS
<1>13. v = CleanLogPot(u, w.log)
  <2>1. ~(w.log > MaxLid)
    BY <1>0, ConstantsAssumption
  <2>2. /\ a.dir = w.dir /\ a.pot = w.pot /\ a.inCore = w.inCore /\ a.log = w.log
        /\ a.grab = w.grab /\ a.first = w.first /\ a.astray = w.astray /\ a \in WorkSet
    BY ONLY w \in WorkSet, <1>6, <1>8 DEF WorkSet
  <2>3. [a EXCEPT
                !.dir = [o \in Oid |->
                  IF \E i \in 1 .. Len(w.list) : w.node[w.list[i]].oid = o
                  THEN [lid |-> w.log,
                        idx |-> PotIndex(CHOOSE i \in 1 .. Len(w.list) :
                                           w.node[w.list[i]].oid = o)]
                  ELSE @[o]],
                !.pot[w.log] = [i \in 1 .. PotSize |->
                              IF i <= Len(w.list) THEN w.node[w.list[i]].val ELSE Null],
                !.inCore = @ \cup {w.log},
                !.log = @ + 1,
                !.grab = @ - 1,
                !.list = <<>>,
                !.first = IF Len(w.list) = 0 THEN @ ELSE w.list[1],
                !.astray = @ \cup GoneAstray(w),
                !.ret = TRUE] = u
    <3>1. D = [o \in Oid |->
                  IF \E i \in 1 .. Len(w.list) : w.node[w.list[i]].oid = o
                  THEN [lid |-> w.log,
                        idx |-> PotIndex(CHOOSE i \in 1 .. Len(w.list) :
                                           w.node[w.list[i]].oid = o)]
                  ELSE w.dir[o]]
      BY <1>9 DEF PotDir, PotIndex
    <3> QED
      BY ONLY <1>10, <1>11, <1>12, <2>2, <3>1, ZenonT(40) DEF PotOf, WorkSet
  <2> QED
    BY <1>1, <1>7, <2>1, <2>3 DEF FillPot
<1>14. D \in [Oid -> Place]
  <2> SUFFICES ASSUME NEW o \in Oid PROVE D[o] \in Place
    BY <1>9 DEF PotDir
  <2>1. CASE \E i \in 1 .. Len(w.list) : w.node[w.list[i]].oid = o
    <3>1. PICK i : i = CHOOSE z \in 1 .. Len(w.list) : w.node[w.list[z]].oid = o
      OBVIOUS
    <3>2. i \in 1 .. Len(w.list)
      BY <2>1, <3>1
    <3>3. i \in 1 .. PotSize
      BY <1>0, <3>2 DEF ListOK
    <3>4. D[o] = [lid |-> w.log, idx |-> i]
      BY <1>9, <2>1, <3>1 DEF PotDir
    <3> QED
      BY <1>0, <3>3, <3>4 DEF Place
  <2>2. CASE ~\E i \in 1 .. Len(w.list) : w.node[w.list[i]].oid = o
    BY <1>0, <1>9, <2>2 DEF PotDir
  <2> QED
    BY <2>1, <2>2
<1>15. P \in Pot
  <2> SUFFICES ASSUME NEW i \in 1 .. PotSize PROVE P[i] \in Value
    BY <1>10 DEF Pot, PotOf
  <2>1. CASE i <= Len(w.list)
    <3>1. w.list[i] \in Frame
      BY <1>0, <2>1, SeqFacts
    <3> QED
      BY <1>0, <1>10, <2>1, <3>1 DEF PotOf, NodeFrame
  <2>2. CASE ~(i <= Len(w.list))
    BY <1>10, <2>2, ConstantsAssumption DEF PotOf
  <2> QED
    BY <2>1, <2>2
<1>16. g \in Frame
  <2>1. CASE Len(w.list) = 0
    BY <1>0, <1>11, <2>1
  <2>2. CASE Len(w.list) # 0
    <3>1. 1 \in 1 .. Len(w.list)
      BY <1>0, <2>2
    <3> QED
      BY <1>0, <1>11, <2>2, <3>1, SeqFacts
  <2> QED
    BY <2>1, <2>2
<1>17. [w.pot EXCEPT ![w.log] = P] \in [Lid -> Pot] /\ w.inCore \cup {w.log} \subseteq Lid
       /\ <<>> \in Seq(Frame)
  BY <1>0, <1>15
<1>18. /\ u \in WorkSet /\ u.node = c /\ u.nKRO = k /\ u.dir = D
       /\ u.pot = [w.pot EXCEPT ![w.log] = P] /\ u.inCore = w.inCore \cup {w.log}
       /\ u.log = w.log + 1 /\ u.list = <<>> /\ u.cursor = w.cursor /\ u.st = w.st
       /\ u.ret /\ u.queued = w.queued /\ u.free = w.free
       /\ u.saving = w.saving /\ u.astray = w.astray \cup GoneAstray(w)
  <2>0. PICK aa : aa = w.astray \cup GoneAstray(w)
    OBVIOUS
  <2>1. PICK pp : pp = [w.pot EXCEPT ![w.log] = P]
    OBVIOUS
  <2>2. PICK ii : ii = w.inCore \cup {w.log}
    OBVIOUS
  <2>3. pp \in [Lid -> Pot] /\ ii \in SUBSET Lid /\ <<>> \in Seq(Frame)
        /\ aa \in SUBSET Oid
    <3>1. w.astray \in SUBSET Oid
      BY DEF WorkSet
    <3> QED
      BY <1>17, <2>0, <2>1, <2>2, <3>1
  <2>4. u = [w EXCEPT !.node = c, !.nKRO = k, !.dir = D, !.pot = pp, !.inCore = ii,
                      !.log = w.log + 1, !.grab = w.grab - 1, !.list = <<>>,
                      !.first = g, !.astray = aa, !.ret = TRUE]
    BY ONLY w \in WorkSet, <1>8, <1>12, <2>0, <2>1, <2>2 DEF WorkSet
  <2>5. w.log + 1 \in 1 .. MaxLid + 1 /\ w.grab - 1 \in Nat
    BY <1>0
  <2>6. /\ u \in WorkSet /\ u.node = c /\ u.nKRO = k /\ u.dir = D
        /\ u.pot = pp /\ u.inCore = ii
        /\ u.log = w.log + 1 /\ u.list = <<>> /\ u.cursor = w.cursor /\ u.st = w.st
        /\ u.ret /\ u.queued = w.queued /\ u.free = w.free
        /\ u.saving = w.saving /\ u.astray = aa
    BY ONLY w \in WorkSet, <1>6, <1>14, <1>16, <2>3, <2>4, <2>5 DEF WorkSet
  <2> QED
    BY <2>0, <2>1, <2>2, <2>6
<1>19. CASE w.free = 0
  <2>1. v = u
    BY <1>13, <1>18, <1>19 DEF CleanLogPot
  <2> QED
    BY <1>1, <1>2, <1>5, <1>9, <1>10, <1>18, <1>19, <2>1
<1>20. CASE w.free # 0
  <2>1. v = [u EXCEPT !.queued = @ \cup {w.log}, !.free = @ - 1]
    BY <1>13, <1>18, <1>20 DEF CleanLogPot
  <2>2. w.free - 1 \in Nat /\ w.queued \cup {w.log} \in SUBSET Lid
    BY <1>0, <1>20
  <2>3. /\ v \in WorkSet /\ v.node = u.node /\ v.nKRO = u.nKRO /\ v.dir = u.dir
        /\ v.pot = u.pot /\ v.inCore = u.inCore /\ v.log = u.log /\ v.list = u.list
        /\ v.cursor = u.cursor /\ v.st = u.st /\ v.ret = u.ret
        /\ v.saving = u.saving /\ v.astray = u.astray
        /\ v.queued = w.queued \cup {w.log} /\ v.free = w.free - 1
    BY ONLY <1>18, <2>1, <2>2 DEF WorkSet
  <2> QED
    BY <1>1, <1>2, <1>5, <1>9, <1>10, <1>18, <1>20, <2>3
<1> QED
  BY <1>19, <1>20

\* The nodes are where they were, some of them cleaned.
Alike(w, v) ==
    \A f \in Frame :
      /\ v.node[f].oid = w.node[f].oid /\ v.node[f].val = w.node[f].val
      /\ v.node[f].old = w.node[f].old
      /\ v.node[f].kro => w.node[f].kro

LEMMA AlikeTransitive ==
    ASSUME NEW w, NEW u, NEW v, Alike(w, u), Alike(u, v)
    PROVE  Alike(w, v)
BY DEF Alike

\* The places in a pot.
LEMMA FillPotPlaces ==
    ASSUME NEW w, NEW e, Fine(w, e), w.log <= MaxLid, AllCandidates(w, w.list),
           NEW v \in WorkSet, v.dir = PotDir(w, w.log),
           v.pot = [w.pot EXCEPT ![w.log] = PotOf(w)],
           v.inCore = w.inCore \cup {w.log}
    PROVE  /\ \A o \in Oid : v.dir[o].lid < w.log + 1
           /\ \A f \in Range(w.list) : w.node[f].oid \in Oid
           /\ \A f \in Range(w.list) :
                LoggedAt(v, e.disk, w.node[f].oid) = w.node[f].val
           /\ \A o \in Oid : (\A f \in Range(w.list) : w.node[f].oid # o) =>
                               LoggedAt(v, e.disk, o) = LoggedAt(w, e.disk, o)
<1>0. /\ w \in WorkSet /\ w.node \in [Frame -> NodeFrame] /\ w.list \in Seq(Frame)
      /\ w.dir \in [Oid -> Place] /\ w.pot \in [Lid -> Pot] /\ w.log \in 1 .. MaxLid + 1
      /\ FramesOK(w.node) /\ ListOK(w.list) /\ LogOK(w, e)
  BY DEF Fine, WorkSet
<1>1. PICK l : l = w.log
  OBVIOUS
<1>2. l \in Lid /\ l \in Nat \ {0}
  BY <1>0, <1>1, ConstantsAssumption DEF Lid
<1>3. PICK s : s = w.list
  OBVIOUS
<1>4. /\ Len(s) \in Nat /\ Len(s) <= PotSize /\ PotSize \in Nat /\ Distinct(s)
      /\ \A i \in 1 .. Len(s) : s[i] \in Frame
      /\ \A x : x \in Range(s) <=> \E i \in 1 .. Len(s) : s[i] = x
  <2>1. s \in Seq(Frame) /\ Len(s) <= PotSize /\ Distinct(s)
    BY <1>0, <1>3 DEF ListOK
  <2> QED
    BY <2>1, SeqFacts, RangeFacts, ConstantsAssumption
<1>5. \A i \in 1 .. Len(s) : w.node[s[i]].oid \in Oid
  <2> SUFFICES ASSUME NEW i \in 1 .. Len(s) PROVE w.node[s[i]].oid \in Oid
    OBVIOUS
  <2>1. Candidate(w, s[i]) /\ s[i] \in Frame
    BY <1>3, <1>4 DEF AllCandidates
  <2> QED
    BY <1>0, <2>1 DEF Candidate, NodeFrame
<1>6. \A f \in Range(s) : w.node[f].oid \in Oid
  BY <1>4, <1>5
<1>7. ASSUME NEW o \in Oid, \E i \in 1 .. Len(s) : w.node[s[i]].oid = o
      PROVE  \E i \in 1 .. Len(s) : w.node[s[i]].oid = o /\ v.dir[o] = [lid |-> l, idx |-> i]
  <2>1. PICK i : i = CHOOSE z \in 1 .. Len(s) : w.node[s[z]].oid = o
    OBVIOUS
  <2>2. i \in 1 .. Len(s) /\ w.node[s[i]].oid = o
    BY <1>7, <2>1
  <2>3. v.dir[o] = [lid |-> l, idx |-> i]
    BY <1>1, <1>3, <1>7, <2>1 DEF PotDir
  <2> QED
    BY <2>2, <2>3
<1>8. ASSUME NEW o \in Oid, ~\E i \in 1 .. Len(s) : w.node[s[i]].oid = o
      PROVE  v.dir[o] = w.dir[o]
  BY <1>3, <1>8 DEF PotDir
<1>9. ASSUME NEW o \in Oid PROVE v.dir[o].lid < l + 1
  <2>1. CASE \E i \in 1 .. Len(s) : w.node[s[i]].oid = o
    <3>0. PICK i \in 1 .. Len(s) : v.dir[o] = [lid |-> l, idx |-> i]
      BY <1>7, <2>1
    <3>1. v.dir[o].lid = l
      BY <3>0
    <3> QED
      BY <1>2, <3>1
  <2>2. CASE ~\E i \in 1 .. Len(s) : w.node[s[i]].oid = o
    <3>1. v.dir[o] = w.dir[o] /\ w.dir[o].lid < l
      BY <1>0, <1>1, <1>8, <2>2 DEF LogOK
    <3>2. w.dir[o].lid \in Nat
      BY <1>0, ConstantsAssumption DEF Place, Home, NullPlace, Lid
    <3> QED
      BY <1>2, <3>1, <3>2
  <2> QED
    BY <2>1, <2>2
<1>10. ASSUME NEW f \in Range(s) PROVE LoggedAt(v, e.disk, w.node[f].oid) = w.node[f].val
  <2>1. PICK j \in 1 .. Len(s) : s[j] = f
    BY <1>4
  <2>2. PICK o : o = w.node[f].oid
    OBVIOUS
  <2>3. o \in Oid /\ o # NoOid
    BY <1>6, <2>2, ConstantsAssumption
  <2>4. PICK i \in 1 .. Len(s) : w.node[s[i]].oid = o /\ v.dir[o] = [lid |-> l, idx |-> i]
    BY <1>7, <2>1, <2>2, <2>3
  <2>5. s[i] = f
    BY <1>0, <1>4, <2>1, <2>2, <2>3, <2>4 DEF FramesOK
  <2>6. v.dir[o] # Home /\ v.dir[o] # NullPlace /\ v.dir[o].lid = l /\ v.dir[o].idx = i
    BY <1>2, <2>4 DEF Home, NullPlace
  <2>7. PotAt(v, e.disk, l) = PotOf(w)
    BY <1>0, <1>1, <1>2 DEF PotAt
  <2>8. PotOf(w)[i] = w.node[s[i]].val
    <3>1. i \in 1 .. PotSize /\ i <= Len(s)
      BY <1>4
    <3> QED
      BY <1>3, <3>1 DEF PotOf
  <2>9. LoggedAt(v, e.disk, o) = w.node[f].val
    BY <2>5, <2>6, <2>7, <2>8 DEF LoggedAt
  <2> QED
    BY <2>2, <2>9
<1>11. ASSUME NEW o \in Oid, \A f \in Range(s) : w.node[f].oid # o
       PROVE  LoggedAt(v, e.disk, o) = LoggedAt(w, e.disk, o)
  <2>1. v.dir[o] = w.dir[o]
    BY <1>4, <1>8, <1>11
  <2>2. w.dir[o].lid # l
    <3>1. w.dir[o].lid < l
      BY <1>0, <1>1 DEF LogOK
    <3>2. w.dir[o].lid \in Nat
      BY <1>0, ConstantsAssumption DEF Place, Home, NullPlace, Lid
    <3> QED
      BY <1>2, <3>1, <3>2
  <2>3. PotAt(v, e.disk, w.dir[o].lid) = PotAt(w, e.disk, w.dir[o].lid)
       \/ w.dir[o].lid \notin Lid
    BY <1>0, <1>1, <1>2, <2>2 DEF PotAt
  <2>4. w.dir[o] \in {Home, NullPlace} \/ w.dir[o].lid \in Lid
    BY <1>0 DEF Place
  <2> QED
    BY ONLY <2>1, <2>3, <2>4 DEF LoggedAt
<1> QED
  BY <1>1, <1>3, <1>6, <1>9, <1>10, <1>11

\* FillPot.
LEMMA FillPotFine ==
    ASSUME NEW w, NEW e, Fine(w, e), w.grab # 0, AllCandidates(w, w.list),
           NEW v, v = FillPot(w)
    PROVE  /\ Fine(v, e) /\ v.cursor = w.cursor /\ Alike(w, v)
           /\ Skips(w) => Skips(v)
           /\ \/ v.st = "log full"
              \/ v.st = w.st /\ v.ret /\ \A f \in Range(w.list) : ~v.node[f].kro
<1>0. /\ w \in WorkSet /\ w.node \in [Frame -> NodeFrame] /\ w.list \in Seq(Frame)
      /\ w.dir \in [Oid -> Place] /\ w.pot \in [Lid -> Pot] /\ w.log \in 1 .. MaxLid + 1
      /\ FramesOK(w.node) /\ ListOK(w.list) /\ LogOK(w, e)
      /\ w.nKRO = Cardinality(KROFrames(w.node))
  BY DEF Fine, WorkSet
<1>1. CASE w.log > MaxLid
  <2>1. v = [w EXCEPT !.st = "log full"]
    BY <1>1 DEF FillPot
  <2>2. /\ v \in WorkSet /\ SameStore(w, v) /\ v.list = w.list /\ v.cursor = w.cursor
        /\ v.st = "log full"
    BY <1>0, <2>1 DEF WorkSet, SameStore
  <2>3. Fine(v, e) /\ (Skips(w) => Skips(v))
    BY <2>2, ControlStep
  <2> QED
    BY <2>2, <2>3 DEF Alike, SameStore
<1>2. CASE ~(w.log > MaxLid)
  <2>0. w.log <= MaxLid /\ w.log \in Nat \ {0} /\ w.log \in Lid
    BY <1>0, <1>2, ConstantsAssumption DEF Lid
  <2>1. /\ v \in WorkSet /\ v.node = Cleared(w.node, Range(w.list))
        /\ v.nKRO = w.nKRO - KRORemoved(w, Range(w.list))
        /\ v.dir = PotDir(w, w.log) /\ v.pot = [w.pot EXCEPT ![w.log] = PotOf(w)]
        /\ v.inCore = w.inCore \cup {w.log} /\ v.log = w.log + 1
        /\ v.list = <<>> /\ v.cursor = w.cursor /\ v.st = w.st /\ v.ret
        /\ v.saving = w.saving /\ v.astray = w.astray \cup GoneAstray(w)
        /\ \/ w.free = 0 /\ v.queued = w.queued /\ v.free = w.free
           \/ w.free # 0 /\ v.queued = w.queued \cup {w.log} /\ v.free = w.free - 1
    <3>1. Range(w.list) \subseteq Frame
      BY <1>0, RangeFacts
    <3>2. \A f \in Range(w.list) : Candidate(w, f)
      BY <1>0, RangeFacts DEF AllCandidates
    <3>3. \A f \in Range(w.list) : w.node[f].oid \in Oid
      BY <1>0, <3>1, <3>2 DEF Candidate, NodeFrame
    <3>4. GoneAstray(w) \subseteq Oid
      BY <3>3 DEF GoneAstray
    <3> QED
      BY <1>0, <2>0, <3>4, FillPotFields
  <2>2. /\ \A o \in Oid : v.dir[o].lid < w.log + 1
        /\ \A f \in Range(w.list) : w.node[f].oid \in Oid
        /\ \A f \in Range(w.list) :
             LoggedAt(v, e.disk, w.node[f].oid) = w.node[f].val
        /\ \A o \in Oid : (\A f \in Range(w.list) : w.node[f].oid # o) =>
                            LoggedAt(v, e.disk, o) = LoggedAt(w, e.disk, o)
    <3>1. v \in WorkSet /\ v.dir = PotDir(w, w.log) /\ v.inCore = w.inCore \cup {w.log}
          /\ v.pot = [w.pot EXCEPT ![w.log] = PotOf(w)]
      BY <2>1
    <3> QED
      BY ONLY <2>0, <3>1, Fine(w, e), AllCandidates(w, w.list), FillPotPlaces
  <2>3. PICK F : F = Range(w.list)
    OBVIOUS
  <2>4. F \subseteq Frame /\ \A f \in F : w.node[f].oid # NoOid
    <3>1. F \subseteq Frame
      BY <1>0, <2>3, RangeFacts
    <3> QED
      BY <2>2, <2>3, <3>1, ConstantsAssumption
  <2>5. w.inCore \subseteq Lid /\ w.queued \subseteq Lid /\ w.free \in Nat
        /\ w.queued \subseteq w.inCore /\ \A l \in w.inCore : l < w.log /\ l # w.log
    <3>1. w.inCore \subseteq Lid /\ w.queued \subseteq Lid /\ w.free \in Nat
      BY <1>0 DEF WorkSet
    <3>2. w.queued \subseteq w.inCore /\ \A l \in w.inCore : l < w.log
      BY <1>0 DEF LogOK
    <3>3. \A l \in Lid : l < w.log => l # w.log
      BY <2>0 DEF Lid
    <3> QED
      BY <3>1, <3>2, <3>3
  <2>6. LogOK(v, e)
    <3>1. v.free = NCleaning - Cardinality(v.queued)
      <4>1. w.free = NCleaning - Cardinality(w.queued)
        BY <1>0 DEF LogOK
      <4>2. PICK Q : Q = w.queued
        OBVIOUS
      <4>3. IsFiniteSet(Lid) /\ Q \in SUBSET Lid
        <5>1. 1 \in Int /\ MaxLid \in Int
          BY ConstantsAssumption
        <5>2. IsFiniteSet(1 .. MaxLid)
          BY ONLY <5>1, FS_Interval
        <5> QED
          BY <2>5, <4>2, <5>2 DEF Lid
      <4>4. IsFiniteSet(Q)
        BY ONLY <4>3, FS_Subset
      <4>5. w.log \notin Q
        BY <2>5, <4>2
      <4>6. Cardinality(Q \cup {w.log}) = Cardinality(Q) + 1 /\ Cardinality(Q) \in Nat
        BY ONLY <4>4, <4>5, FS_AddElement, FS_CardinalityType
      <4>7. NCleaning \in Nat
        BY ConstantsAssumption
      <4>8. CASE v.queued = w.queued /\ v.free = w.free
        BY <4>1, <4>8
      <4>9. CASE v.queued = w.queued \cup {w.log} /\ v.free = w.free - 1
        BY <4>1, <4>2, <4>6, <4>7, <4>9
      <4> QED
        BY <2>1, <4>8, <4>9
    <3>2. v.queued \subseteq v.inCore /\ \A l \in v.inCore : l < v.log
      <4>1. \A l \in w.inCore : l < w.log + 1
        BY <2>0, <2>5 DEF Lid
      <4>2. w.log < w.log + 1
        BY <2>0
      <4> QED
        BY <2>1, <2>5, <4>1, <4>2
    <3>3. e.base <= w.log /\ \A l \in w.queued : e.base <= l
      BY <1>0 DEF LogOK
    <3>5. e.base \in Nat
      BY <1>0 DEF LogOK
    <3>4. (\A l \in v.queued : e.base <= l) /\ e.base <= v.log
      <4>1. e.base <= w.log + 1
        BY <2>0, <3>3, <3>5
      <4> QED
        BY <2>1, <3>3, <4>1
    <3> QED
      BY <2>1, <2>2, <3>1, <3>2, <3>4, <3>5 DEF LogOK
  <2>7. WrittenOut(v, e)
    <3> SUFFICES ASSUME NEW o \in Oid \ v.astray,
                        v.dir[o].lid \in v.inCore \ v.queued
                 PROVE  e.disk[v.dir[o].lid] = v.pot[v.dir[o].lid]
      BY DEF WrittenOut
    <3>1. CASE \E i \in 1 .. Len(w.list) : w.node[w.list[i]].oid = o
      <4>1. PICK i \in 1 .. Len(w.list) : w.node[w.list[i]].oid = o
        BY <3>1
      <4>2. w.list[i] \in Range(w.list)
        BY <1>0, <4>1, RangeFacts
      <4>3. w.free = 0 => o \in GoneAstray(w)
        BY <4>1, <4>2 DEF GoneAstray
      <4>4. w.free # 0 /\ v.queued = w.queued \cup {w.log}
        BY <2>1, <4>3
      <4>5. v.dir[o].lid = w.log
        BY <2>1, <3>1 DEF PotDir
      <4> QED
        BY <4>4, <4>5
    <3>2. CASE ~\E i \in 1 .. Len(w.list) : w.node[w.list[i]].oid = o
      <4>1. v.dir[o] = w.dir[o] /\ o \in Oid \ w.astray
        BY <2>1, <3>2 DEF PotDir
      <4>2. w.dir[o].lid < w.log /\ w.dir[o].lid \in Nat
        BY <1>0, ConstantsAssumption DEF LogOK, Place, Home, NullPlace, Lid
      <4>3. w.dir[o].lid # w.log
        BY <2>0, <4>2
      <4>4. w.dir[o].lid \in w.inCore \ w.queued
        BY <2>1, <4>1, <4>3
      <4>5. v.pot[w.dir[o].lid] = w.pot[w.dir[o].lid]
        BY <1>0, <2>1, <2>5, <4>3, <4>4
      <4> QED
        BY <4>1, <4>4, <4>5 DEF Fine, WrittenOut
    <3> QED
      BY <3>1, <3>2
  <2>8. ASSUME e.ckpt \in {2, 3}, NEW f \in F
        PROVE  w.node[f].kro \/ ~w.node[f].dirty \/ w.node[f].oid \in v.astray
    <3>1. w.saving
      BY <2>8 DEF Fine
    <3>2. w.node[f].dirty /\ ~w.node[f].kro => w.node[f].oid \in GoneAstray(w)
      BY <2>3, <3>1 DEF GoneAstray
    <3> QED
      BY <2>1, <3>2
  <2>9. ListOK(v.list)
    <3>1. <<>> \in Seq(Frame) /\ Len(<<>>) = 0
      OBVIOUS
    <3> QED
      BY <2>1, <3>1, ConstantsAssumption DEF ListOK, Distinct
  <2>10. Fine(v, e)
    <3>1. /\ v.node = Cleared(w.node, F) /\ v.nKRO = w.nKRO - KRORemoved(w, F)
          /\ \A f \in F : LoggedAt(v, e.disk, w.node[f].oid) = w.node[f].val
          /\ \A o \in Oid : (\A f \in F : w.node[f].oid # o) =>
                              LoggedAt(v, e.disk, o) = LoggedAt(w, e.disk, o)
          /\ v \in WorkSet /\ v.saving = w.saving /\ w.astray \subseteq v.astray
      BY <2>1, <2>2, <2>3
    <3>2. e.ckpt \in {2, 3} =>
            \A f \in F : \/ w.node[f].kro \/ ~w.node[f].dirty
                        \/ w.node[f].oid \in v.astray
      BY <2>8
    <3> QED
      BY ONLY Fine(w, e), <2>4, <2>6, <2>7, <2>9, <3>1, <3>2, LoggingStep
  <2>11. CleanedFrom(w.node, F, v.node)
    <3>1. PICK n : n = w.node
      OBVIOUS
    <3>2. PICK c : c = v.node
      OBVIOUS
    <3>3. n \in NodeFrames /\ FramesOK(n) /\ c = Cleared(n, F)
      BY <1>0, <2>1, <2>3, <3>1, <3>2 DEF NodeFrames
    <3>4. CleanedFrom(n, F, c)
      BY ONLY <2>4, <3>3, ClearedFacts
    <3> QED
      BY <3>1, <3>2, <3>4
  <2>12. Alike(w, v) /\ \A f \in Range(w.list) : ~v.node[f].kro
    BY <2>3, <2>4, <2>11 DEF CleanedFrom, Alike
  <2>13. Skips(w) => Skips(v)
    BY <2>1, <2>3, <2>11 DEF CleanedFrom, Skips
  <2> QED
    BY <2>1, <2>10, <2>12, <2>13
<1> QED
  BY <1>1, <1>2

\* Entries of the list that are no candidates are dropped.
LEMMA PruneStep ==
    ASSUME NEW w, NEW e, Fine(w, e), NEW v \in WorkSet, SameStore(w, v),
           v.cursor = w.cursor, Keeps(w, w.list, v.list), Len(v.list) <= PotSize
    PROVE  /\ Fine(v, e) /\ (Skips(w) => Skips(v)) /\ Alike(w, v)
           /\ \A f \in Range(w.list) : w.node[f].kro => f \in Range(v.list)
<1>0. /\ w.node \in [Frame -> NodeFrame] /\ FramesOK(w.node) /\ w.list \in Seq(Frame)
      /\ v.node = w.node
  BY DEF Fine, WorkSet, SameStore
<1>1. \A f \in Frame : w.node[f].kro => Candidate(w, f)
  <2>1. ~FreeFrame.dirty
    BY DEF FreeFrame
  <2> QED
    BY <1>0, <2>1 DEF FramesOK, Candidate
<1>2. ListOK(v.list)
  BY DEF ListOK, Keeps
<1>4. Fine(v, e)
  BY <1>2, ListStep
<1>5. Range(w.list) \subseteq Frame
  BY <1>0, RangeFacts
<1>6. \A f \in Range(w.list) : w.node[f].kro => f \in Range(v.list)
  BY <1>1, <1>5 DEF Keeps
<1>7. Skips(w) => Skips(v)
  BY <1>0, <1>6 DEF Skips
<1> QED
  BY <1>0, <1>4, <1>6, <1>7 DEF Alike

\* What a cleaner of the nodes on the list leaves.
PotCleaned(w, v, force) ==
    /\ v.cursor = w.cursor /\ Alike(w, v)
    /\ v.st \in {"run", "yield", "log full"}
    /\ Going(v) /\ force => v.ret
    /\ Going(v) /\ v.ret => \A f \in Range(w.list) : ~v.node[f].kro

LEMMA CleanAPotGood ==
    ASSUME NEW w, NEW e, Good(w, e), Going(w), NEW force \in BOOLEAN,
           NEW v, v = CleanAPotOfNodes(w, force)
    PROVE  Good(v, e) /\ PotCleaned(w, v, force)
<1>0. /\ w \in WorkSet /\ Fine(w, e) /\ Skips(w) /\ w.st = "run"
      /\ w.list \in Seq(Frame) /\ Distinct(w.list) /\ Len(w.list) <= PotSize
      /\ Len(w.list) \in Nat /\ PotSize \in Nat
  <2>1. w \in WorkSet /\ Fine(w, e) /\ w.st = "run" /\ ListOK(w.list)
    BY DEF Good, Fine, Going
  <2>2. Skips(w) /\ w.list \in Seq(Frame)
    BY <2>1 DEF Good, WorkSet
  <2> QED
    BY <2>1, <2>2, SeqFacts, ConstantsAssumption DEF ListOK
<1>1. CASE Len(w.list) < PotSize /\ ~force
  <2>1. v = [w EXCEPT !.ret = FALSE]
    BY <1>1 DEF CleanAPotOfNodes
  <2>2. /\ v \in WorkSet /\ SameStore(w, v) /\ v.list = w.list /\ v.cursor = w.cursor
        /\ v.st = "run" /\ ~v.ret
    BY <1>0, <2>1 DEF WorkSet, SameStore
  <2>3. Fine(v, e) /\ Skips(v)
    BY <1>0, <2>2, ControlStep
  <2> QED
    BY <1>1, <2>2, <2>3 DEF Good, PotCleaned, Alike, SameStore
<1>2. CASE ~(Len(w.list) < PotSize /\ ~force) /\ ~force /\ ~AllCandidates(w, w.list)
  <2>1. PICK d : d = WithoutFirst(w, w.list)
    OBVIOUS
  <2>2. v = [w EXCEPT !.list = d, !.ret = FALSE]
    BY <1>2, <2>1 DEF CleanAPotOfNodes
  <2>3. Keeps(w, w.list, d) /\ Len(d) = Len(w.list) - 1
    BY <1>0, <1>2, <2>1, WithoutFirstKeeps
  <2>4. d \in Seq(Frame) /\ Len(d) <= PotSize
    BY <1>0, <2>3 DEF Keeps
  <2>5. /\ v \in WorkSet /\ SameStore(w, v) /\ v.list = d /\ v.cursor = w.cursor
        /\ v.st = "run" /\ ~v.ret
    BY <1>0, <2>2, <2>4 DEF WorkSet, SameStore
  <2>6. Fine(v, e) /\ Skips(v) /\ Alike(w, v)
    BY <1>0, <2>3, <2>4, <2>5, PruneStep
  <2> QED
    BY <1>2, <2>5, <2>6 DEF Good, PotCleaned
<1>3. CASE ~(Len(w.list) < PotSize /\ ~force) /\ ~(~force /\ ~AllCandidates(w, w.list))
  <2>1. PICK d : d = Pruned(w)
    OBVIOUS
  <2>2. Keeps(w, w.list, d) /\ Len(d) <= Len(w.list) /\ AllCandidates(w, d)
    BY <1>0, <2>1, PrunedKeeps
  <2>3. d \in Seq(Frame) /\ Len(d) <= PotSize
    BY <1>0, <2>2 DEF Keeps
  <2>4. CASE w.grab = 0
    <3>1. v = [w EXCEPT !.list = d, !.st = "yield"]
      BY <1>3, <2>1, <2>4 DEF CleanAPotOfNodes
    <3>2. /\ v \in WorkSet /\ SameStore(w, v) /\ v.list = d /\ v.cursor = w.cursor
          /\ v.st = "yield"
      BY <1>0, <2>3, <3>1 DEF WorkSet, SameStore
    <3>3. Fine(v, e) /\ Skips(v) /\ Alike(w, v)
      BY <1>0, <2>2, <2>3, <3>2, PruneStep
    <3> QED
      BY <3>2, <3>3 DEF Good, PotCleaned, Going
  <2>5. CASE w.grab # 0
    <3>1. PICK u : u = [w EXCEPT !.list = d]
      OBVIOUS
    <3>2. v = FillPot(u)
      BY <1>3, <2>1, <2>5, <3>1 DEF CleanAPotOfNodes
    <3>3. /\ u \in WorkSet /\ SameStore(w, u) /\ u.list = d /\ u.cursor = w.cursor
          /\ u.st = "run" /\ u.grab # 0
      BY <1>0, <2>3, <2>5, <3>1 DEF WorkSet, SameStore
    <3>4. /\ Fine(u, e) /\ Skips(u) /\ Alike(w, u)
          /\ \A f \in Range(w.list) : w.node[f].kro => f \in Range(u.list)
      BY <1>0, <2>2, <2>3, <3>3, PruneStep
    <3>5. AllCandidates(u, u.list)
      BY <2>2, <3>3 DEF AllCandidates, Candidate, SameStore
    <3>6. /\ Fine(v, e) /\ v.cursor = u.cursor /\ Alike(u, v) /\ Skips(v)
          /\ \/ v.st = "log full"
             \/ v.st = u.st /\ v.ret /\ \A f \in Range(u.list) : ~v.node[f].kro
      BY <3>2, <3>3, <3>4, <3>5, FillPotFine
    <3>7. Alike(w, v)
      BY ONLY <3>4, <3>6, AlikeTransitive
    <3>8. v.st # "log full" => v.ret /\ \A f \in Range(w.list) : ~v.node[f].kro
      <4>1. Range(w.list) \subseteq Frame
        BY <1>0, RangeFacts
      <4> QED
        BY <3>4, <3>6, <3>7, <4>1 DEF Alike
    <3> QED
      BY <3>3, <3>6, <3>7, <3>8 DEF Good, PotCleaned, Going
  <2> QED
    BY <2>4, <2>5
<1> QED
  BY <1>1, <1>2, <1>3
-----------------------------------------------------------------------------
(* The cleaners.                                                             *)

\* A node that is dirty is in its frame.
LEMMA DirtyHeld ==
    ASSUME NEW w, NEW e, Fine(w, e), NEW f \in Frame,
           w.node[f].dirty \/ w.node[f].kro
    PROVE  w.node[f].dirty /\ w.node[f].oid # NoOid /\ w.node[f].oid \in Oid
<1>1. w.node \in [Frame -> NodeFrame] /\ FramesOK(w.node)
  BY DEF Fine, WorkSet
<1>2. ~FreeFrame.dirty
  BY DEF FreeFrame
<1>3. w.node[f].dirty /\ w.node[f].oid # NoOid
  BY <1>1, <1>2 DEF FramesOK
<1> QED
  BY <1>1, <1>3 DEF NodeFrame

\* AddNodeToClean puts a frame on the list once.
LEMMA AddedToList ==
    ASSUME NEW s \in Seq(Frame), Distinct(s), NEW f \in Frame, NEW d,
           d = AddNodeToClean(s, f)
    PROVE  /\ d \in Seq(Frame) /\ Distinct(d) /\ Len(d) <= Len(s) + 1
           /\ Range(d) = Range(s) \cup {f}
<1>0. /\ Len(s) \in Nat /\ (\A i \in 1 .. Len(s) : s[i] \in Frame)
      /\ \A x : x \in Range(s) <=> \E i \in 1 .. Len(s) : s[i] = x
  BY SeqFacts, RangeFacts
<1>1. CASE f \in Range(s)
  BY <1>0, <1>1 DEF AddNodeToClean
<1>2. CASE f \notin Range(s)
  <2>1. d = Append(s, f)
    BY <1>2 DEF AddNodeToClean
  <2>2. /\ d \in Seq(Frame) /\ Len(d) = Len(s) + 1 /\ d[Len(s) + 1] = f
        /\ \A i \in 1 .. Len(s) : d[i] = s[i]
    BY <2>1, AppendProperties
  <2>3. \A i \in 1 .. Len(s) + 1 : i = Len(s) + 1 \/ i \in 1 .. Len(s)
    BY <1>0
  <2>4. Distinct(d)
    <3> SUFFICES ASSUME NEW i \in 1 .. Len(s) + 1, NEW j \in 1 .. Len(s) + 1, d[i] = d[j]
                 PROVE  i = j
      BY <2>2 DEF Distinct
    <3>1. CASE i = Len(s) + 1 /\ j \in 1 .. Len(s)
      BY <1>0, <1>2, <2>2, <3>1
    <3>2. CASE j = Len(s) + 1 /\ i \in 1 .. Len(s)
      BY <1>0, <1>2, <2>2, <3>2
    <3>3. CASE i \in 1 .. Len(s) /\ j \in 1 .. Len(s)
      BY <2>2, <3>3 DEF Distinct
    <3> QED
      BY <2>3, <3>1, <3>2, <3>3
  <2>5. \A x : x \in Range(d) <=> \E i \in 1 .. Len(s) + 1 : d[i] = x
    BY <2>2, RangeFacts
  <2>6. Len(s) + 1 \in 1 .. Len(s) + 1 /\ 1 .. Len(s) \subseteq 1 .. Len(s) + 1
    BY <1>0
  <2>7. \A x : x \in Range(d) <=> x \in Range(s) \/ x = f
    BY <1>0, <2>2, <2>3, <2>5, <2>6
  <2>8. Range(d) = Range(s) \cup {f}
    BY <2>7
  <2> QED
    BY <1>0, <2>2, <2>4, <2>8
<1> QED
  BY <1>1, <1>2

\* As Skips, but for the frame f.
SkipsBut(w, f) ==
    \A g \in Frame : g < w.cursor /\ w.node[g].kro /\ g # f => g \in Range(w.list)

NodeCleaned(w, v, f) ==
    /\ v.cursor = w.cursor /\ Alike(w, v)
    /\ v.st \in {"run", "yield", "halt", "log full"}
    /\ Going(v) /\ v.ret => ~v.node[f].kro

LEMMA NodeCleanGood ==
    ASSUME NEW w, NEW e, Fine(w, e), Going(w), NEW f \in Frame, SkipsBut(w, f),
           w.node[f].dirty, e.ckpt \in {2, 3} => w.node[f].kro,
           NEW v, v = node_Clean(w, f)
    PROVE  Good(v, e) /\ NodeCleaned(w, v, f)
<1>0. /\ w \in WorkSet /\ w.st = "run" /\ FramesOK(w.node) /\ w.node \in [Frame -> NodeFrame]
      /\ w.list \in Seq(Frame) /\ Distinct(w.list)
      /\ Len(w.list) \in Nat /\ PotSize \in Nat
      /\ w.node[f].oid # NoOid
  <2>1. /\ w \in WorkSet /\ w.st = "run" /\ ListOK(w.list) /\ FramesOK(w.node)
    BY DEF Fine, Going
  <2>2. w.list \in Seq(Frame) /\ w.node \in [Frame -> NodeFrame]
    BY <2>1 DEF WorkSet
  <2>3. w.node[f].oid # NoOid
    BY DirtyHeld
  <2> QED
    BY <2>1, <2>2, <2>3, SeqFacts, ConstantsAssumption DEF ListOK
<1>1. CASE w.node[f].val = Null
  <2>1. v = [node_ClearDirty(w, {f}) EXCEPT
               !.dir[w.node[f].oid] = NullPlace, !.ret = TRUE]
    BY <1>1 DEF node_Clean
  <2>2. /\ Fine(v, e) /\ v.node = Cleared(w.node, {f}) /\ v.list = w.list
        /\ v.cursor = w.cursor /\ v.st = w.st /\ v.ret
    BY <1>0, <1>1, <2>1, NullStep
  <2>3. CleanedFrom(w.node, {f}, v.node)
    <3>1. PICK n : n = w.node
      OBVIOUS
    <3>2. PICK c : c = v.node
      OBVIOUS
    <3>3. n \in NodeFrames /\ FramesOK(n) /\ c = Cleared(n, {f}) /\ {f} \subseteq Frame
      BY <1>0, <2>2, <3>1, <3>2 DEF NodeFrames
    <3>4. CleanedFrom(n, {f}, c)
      BY ONLY <3>3, ClearedFacts
    <3> QED
      BY <3>1, <3>2, <3>4
  <2>4. Alike(w, v) /\ ~v.node[f].kro
    BY <2>3 DEF CleanedFrom, Alike
  <2>5. Skips(v)
    BY <2>2, <2>4 DEF Skips, SkipsBut, Alike
  <2> QED
    BY <1>0, <2>2, <2>4, <2>5 DEF Good, NodeCleaned
<1>2. CASE w.node[f].val # Null /\ (Len(w.list) >= PotSize \/ ~w.node[f].dirty)
  <2>1. v = [w EXCEPT !.st = "halt"]
    BY <1>2 DEF node_Clean
  <2>2. /\ v \in WorkSet /\ SameStore(w, v) /\ v.list = w.list /\ v.cursor = w.cursor
        /\ v.st = "halt"
    BY <1>0, <2>1 DEF WorkSet, SameStore
  <2>3. Fine(v, e)
    BY <2>2, ControlStep
  <2> QED
    BY <2>2, <2>3 DEF Good, NodeCleaned, Alike, SameStore, Going
<1>3. CASE w.node[f].val # Null /\ ~(Len(w.list) >= PotSize \/ ~w.node[f].dirty)
  <2>1. PICK d : d = AddNodeToClean(w.list, f)
    OBVIOUS
  <2>2. PICK u : u = [w EXCEPT !.list = d]
    OBVIOUS
  <2>3. v = CleanAPotOfNodes(u, FALSE)
    <3>1. [w EXCEPT !.list = AddNodeToClean(@, f)] = u
      BY <2>1, <2>2
    <3> QED
      BY <1>3, <3>1 DEF node_Clean
  <2>4. /\ d \in Seq(Frame) /\ Distinct(d) /\ Len(d) <= Len(w.list) + 1
        /\ Range(d) = Range(w.list) \cup {f}
    BY <1>0, <2>1, AddedToList
  <2>5. /\ u \in WorkSet /\ SameStore(w, u) /\ u.list = d /\ u.cursor = w.cursor
        /\ u.st = "run" /\ u.node = w.node
    BY <1>0, <2>2, <2>4 DEF WorkSet, SameStore
  <2>6. ListOK(u.list)
    <3>1. Len(d) \in Nat
      BY <2>4, SeqFacts
    <3>2. Len(d) <= PotSize
      BY <1>0, <1>3, <2>4, <3>1
    <3> QED
      BY <2>4, <2>5, <3>2 DEF ListOK
  <2>8. Fine(u, e)
    BY <2>5, <2>6, ListStep
  <2>9. Skips(u)
    BY <2>4, <2>5 DEF Skips, SkipsBut
  <2>10. Good(u, e) /\ Going(u)
    BY <2>5, <2>8, <2>9 DEF Good, Going
  <2>11. Good(v, e) /\ PotCleaned(u, v, FALSE)
    BY <2>3, <2>10, CleanAPotGood
  <2>12. f \in Range(u.list) /\ Alike(w, u)
    BY <2>4, <2>5 DEF Alike
  <2>13. Alike(w, v)
    BY <2>11, <2>12, AlikeTransitive DEF PotCleaned
  <2> QED
    BY <2>5, <2>11, <2>12, <2>13 DEF NodeCleaned, PotCleaned
<1> QED
  BY <1>1, <1>2, <1>3

\* What CleanAKRONode leaves: the cursor is further on, or no node is KRO.
KROCleaned(w, v) ==
    /\ Alike(w, v) /\ v.st \in {"run", "yield", "halt", "log full"}
    /\ Going(v) => \/ v.ret /\ v.cursor > w.cursor
                   \/ ~v.ret /\ KROFrames(v.node) = {}

LEMMA CleanAKROGood ==
    ASSUME NEW w, NEW e, Good(w, e), Going(w), NEW v, v = CleanAKRONode(w)
    PROVE  Good(v, e) /\ KROCleaned(w, v)
<1>0. /\ w \in WorkSet /\ Fine(w, e) /\ Skips(w) /\ w.st = "run"
      /\ w.cursor \in Nat /\ NFrames \in Nat \ {0}
      /\ w.cursor \in 1 .. NFrames + 1 /\ w.list \in Seq(Frame)
  <2>1. w \in WorkSet /\ Fine(w, e) /\ w.st = "run" /\ Skips(w)
    BY DEF Good, Fine, Going
  <2>2. w.cursor \in 1 .. NFrames + 1 /\ w.list \in Seq(Frame)
    BY <2>1 DEF WorkSet
  <2>3. NFrames \in Nat \ {0}
    BY ConstantsAssumption
  <2> QED
    BY <2>1, <2>2, <2>3
<1>1. PICK K : K = {f \in Frame : f >= w.cursor /\ w.node[f].kro}
  OBVIOUS
<1>2. CASE Len(w.list) >= PotSize
  <2>1. v = [w EXCEPT !.st = "halt"]
    BY <1>2 DEF CleanAKRONode
  <2>2. /\ v \in WorkSet /\ SameStore(w, v) /\ v.list = w.list /\ v.cursor = w.cursor
        /\ v.st = "halt"
    BY <1>0, <2>1 DEF WorkSet, SameStore
  <2>3. Fine(v, e)
    BY <1>0, <2>2, ControlStep
  <2> QED
    BY <2>2, <2>3 DEF Good, KROCleaned, Alike, SameStore, Going
<1>3. CASE ~(Len(w.list) >= PotSize) /\ K # {}
  <2>1. PICK f : f = CHOOSE h \in K : \A g \in K : h <= g
    OBVIOUS
  <2>2. f \in K /\ \A g \in K : f <= g
    <3>1. K \subseteq Nat
      BY <1>1, FrameFacts
    <3>2. \E x \in K : \A y \in K : x <= y
      BY ONLY <1>3, <3>1, Smallest
    <3> QED
      BY <2>1, <3>2
  <2>3. f \in Frame /\ f \in Nat /\ f >= w.cursor /\ w.node[f].kro
    BY <1>1, <2>2, FrameFacts
  <2>4. PICK u : u = [w EXCEPT !.cursor = f + 1]
    OBVIOUS
  <2>5. PICK x : x = node_Clean(u, f)
    OBVIOUS
  <2>6. v = [x EXCEPT !.ret = TRUE]
    BY <1>1, <1>3, <2>1, <2>4, <2>5 DEF CleanAKRONode
  <2>7. f + 1 \in 1 .. NFrames + 1
    BY <1>0, <2>3 DEF Frame
  <2>8. /\ u \in WorkSet /\ SameStore(w, u) /\ u.list = w.list /\ u.cursor = f + 1
        /\ u.st = "run" /\ u.node = w.node
    BY <1>0, <2>4, <2>7 DEF WorkSet, SameStore
  <2>9. Fine(u, e) /\ Going(u)
    BY <1>0, <2>8, ControlStep DEF Going
  <2>10. SkipsBut(u, f)
    <3> SUFFICES ASSUME NEW g \in Frame, g < f + 1, w.node[g].kro, g # f
                 PROVE  g \in Range(w.list)
      BY <2>8 DEF SkipsBut
    <3>0. g \in Nat
      BY FrameFacts
    <3>1. g \in Nat /\ g < f
      BY <2>3, <3>0
    <3>2. g \notin K
      BY <2>2, <2>3, <3>1
    <3>3. g < w.cursor
      BY <1>0, <1>1, <3>1, <3>2
    <3> QED
      BY <1>0, <3>3 DEF Skips
  <2>11. u.node[f].dirty /\ u.node[f].kro
    BY <2>3, <2>8, <2>9, DirtyHeld
  <2>12. Good(x, e) /\ NodeCleaned(u, x, f)
    BY <2>3, <2>5, <2>9, <2>10, <2>11, NodeCleanGood
  <2>13. x \in WorkSet /\ Fine(x, e) /\ (x.st # "halt" => Skips(x))
    BY <2>12 DEF Good, Fine
  <2>14. /\ v \in WorkSet /\ SameStore(x, v) /\ v.list = x.list /\ v.cursor = x.cursor
         /\ v.st = x.st /\ v.ret
    BY <2>6, <2>13 DEF WorkSet, SameStore
  <2>15. Fine(v, e) /\ (v.st # "halt" => Skips(v))
    BY <2>13, <2>14, ControlStep
  <2>16. Alike(w, u) /\ Alike(x, v)
    BY <2>8, <2>14 DEF Alike, SameStore
  <2>17. Alike(w, v)
    BY <2>12, <2>16, AlikeTransitive DEF NodeCleaned
  <2>18. v.cursor > w.cursor
    <3>1. v.cursor = f + 1
      BY <2>8, <2>12, <2>14 DEF NodeCleaned
    <3> QED
      BY <1>0, <2>3, <3>1
  <2> QED
    BY <2>12, <2>14, <2>15, <2>17, <2>18 DEF Good, KROCleaned, NodeCleaned
<1>4. CASE ~(Len(w.list) >= PotSize) /\ K = {}
  <2>1. PICK u : u = [w EXCEPT !.cursor = NFrames + 1]
    OBVIOUS
  <2>2. PICK x : x = IF w.list = <<>> THEN u ELSE CleanAPotOfNodes(u, TRUE)
    OBVIOUS
  <2>3. v = IF Going(x) /\ x.nKRO # 0 THEN [x EXCEPT !.st = "halt"]
            ELSE [x EXCEPT !.ret = FALSE]
    BY <1>1, <1>4, <2>1, <2>2 DEF CleanAKRONode
  <2>4. NFrames + 1 \in 1 .. NFrames + 1
    BY <1>0
  <2>5. /\ u \in WorkSet /\ SameStore(w, u) /\ u.list = w.list /\ u.cursor = NFrames + 1
        /\ u.st = "run" /\ u.node = w.node
    BY <1>0, <2>1, <2>4 DEF WorkSet, SameStore
  <2>6. \A f \in Frame : w.node[f].kro => f \in Range(w.list)
    <3> SUFFICES ASSUME NEW f \in Frame, w.node[f].kro PROVE f \in Range(w.list)
      OBVIOUS
    <3>1. f \in Nat /\ ~(f >= w.cursor)
      BY <1>1, <1>4, FrameFacts
    <3> QED
      BY <1>0, <3>1 DEF Skips
  <2>7. Fine(u, e) /\ Skips(u)
    BY <1>0, <2>5, <2>6, ControlStep DEF Skips
  <2>8. Good(u, e) /\ Going(u)
    BY <2>5, <2>7 DEF Good, Going
  <2>9. /\ Good(x, e) /\ Alike(w, x) /\ x.st \in {"run", "yield", "log full"}
        /\ Going(x) => KROFrames(x.node) = {}
    <3>0. Alike(w, u)
      BY <2>5 DEF Alike
    <3>1. CASE w.list = <<>>
      <4>1. Range(w.list) = {}
        BY <1>0, <3>1, RangeFacts
      <4> QED
        BY <2>2, <2>5, <2>6, <2>8, <3>0, <3>1, <4>1 DEF KROFrames
    <3>2. CASE w.list # <<>>
      <4>1. x = CleanAPotOfNodes(u, TRUE)
        BY <2>2, <3>2
      <4>2. Good(x, e) /\ PotCleaned(u, x, TRUE)
        BY <2>8, <4>1, CleanAPotGood
      <4>3. Alike(w, x)
        BY <3>0, <4>2, AlikeTransitive DEF PotCleaned
      <4>4. Going(x) => \A f \in Range(w.list) : ~x.node[f].kro
        BY <2>5, <4>2 DEF PotCleaned
      <4>5. Going(x) => KROFrames(x.node) = {}
        BY <2>6, <4>3, <4>4 DEF KROFrames, Alike
      <4> QED
        BY <4>2, <4>3, <4>5 DEF PotCleaned
    <3> QED
      BY <3>1, <3>2
  <2>10. x \in WorkSet /\ Fine(x, e) /\ Skips(x) /\ x.nKRO = Cardinality(KROFrames(x.node))
    BY <2>9 DEF Good, Fine
  <2>11. Going(x) => x.nKRO = 0
    BY <2>9, <2>10, FS_EmptySet
  <2>12. v = [x EXCEPT !.ret = FALSE]
    BY <2>3, <2>11
  <2>13. /\ v \in WorkSet /\ SameStore(x, v) /\ v.list = x.list /\ v.cursor = x.cursor
         /\ v.st = x.st /\ ~v.ret /\ v.node = x.node
    BY <2>10, <2>12 DEF WorkSet, SameStore
  <2>14. Fine(v, e) /\ Skips(v)
    BY <2>10, <2>13, ControlStep
  <2>15. Alike(w, v)
    BY <2>9, <2>13 DEF Alike
  <2> QED
    BY <2>9, <2>13, <2>14, <2>15 DEF Good, KROCleaned, Going
<1> QED
  BY <1>2, <1>3, <1>4

\* The loop of a process that must write the KRO node in f.
LEMMA CleanUntilGood ==
    ASSUME NEW w, NEW e, Good(w, e), w.st # "stolen", NEW f \in Frame,
           NEW v, v = CleanUntil(w, f)
    PROVE  /\ Good(v, e) /\ Alike(w, v) /\ v.st # "stolen"
           /\ Going(v) => ~v.node[f].kro
<1>1. PICK N : N = NFrames + 1
  OBVIOUS
<1>2. N \in Nat /\ NFrames \in Nat
  BY <1>1, ConstantsAssumption
<1>3. PICK S : S = {u \in WorkSet : Good(u, e) /\ Alike(w, u) /\ u.st # "stolen"}
  OBVIOUS
<1>4. w \in S
  BY <1>3 DEF Good, Fine, Alike, Going
<1>5. ASSUME NEW u \in S, Going(u), u.node[f].kro
      PROVE  CleanAKRONode(u) \in S /\ KROCleaned(u, CleanAKRONode(u))
  <2>1. PICK x : x = CleanAKRONode(u)
    OBVIOUS
  <2>2. Good(u, e) /\ Alike(w, u)
    BY <1>3
  <2>3. Good(x, e) /\ KROCleaned(u, x)
    BY <1>5, <2>1, <2>2, CleanAKROGood
  <2>4. Alike(w, x)
    BY <2>2, <2>3, AlikeTransitive DEF KROCleaned
  <2>5. x \in WorkSet /\ x.st # "stolen"
    BY <2>3 DEF Good, Fine, KROCleaned
  <2> QED
    BY <1>3, <2>1, <2>3, <2>4, <2>5
<1>6. PICK F : F = [p \in S \X (1 .. N) |->
                     IF Going(p[1]) /\ p[1].node[f].kro THEN CleanAKRONode(p[1])
                     ELSE p[1]]
  OBVIOUS
<1>7. F \in [S \X (1 .. N) -> S]
  BY <1>5, <1>6
<1>8. PICK g \in [0 .. N -> S] : g[0] = w /\ \A n \in 1 .. N : g[n] = F[<<g[n - 1], n>>]
  <2>1. N \in Nat /\ IsStep(S, F, N)
    BY <1>2, <1>7 DEF IsStep
  <2>2. Runs(S, w, F, N) # {}
    BY <2>1, <1>4, RunExists
  <2> QED
    BY <2>2 DEF Runs
<1>9. \A n \in 1 .. N : F[<<g[n - 1], n>>] =
        IF Going(g[n - 1]) /\ g[n - 1].node[f].kro THEN CleanAKRONode(g[n - 1])
        ELSE g[n - 1]
  <2> SUFFICES ASSUME NEW n \in 1 .. N
               PROVE  F[<<g[n - 1], n>>] =
                        IF Going(g[n - 1]) /\ g[n - 1].node[f].kro
                        THEN CleanAKRONode(g[n - 1]) ELSE g[n - 1]
    OBVIOUS
  <2>1. g[n - 1] \in S
    BY <1>2
  <2>2. <<g[n - 1], n>> \in S \X (1 .. N)
    BY <2>1
  <2> QED
    BY <1>6, <2>2
<1>10. g = [n \in 0 .. N |->
              IF n = 0 THEN w
              ELSE IF Going(g[n - 1]) /\ g[n - 1].node[f].kro
                THEN CleanAKRONode(g[n - 1])
              ELSE g[n - 1]]
  <2>1. ASSUME NEW n \in 0 .. N
        PROVE  g[n] = IF n = 0 THEN w
                      ELSE IF Going(g[n - 1]) /\ g[n - 1].node[f].kro
                        THEN CleanAKRONode(g[n - 1])
                      ELSE g[n - 1]
    <3>1. CASE n = 0
      BY <1>8, <3>1
    <3>2. CASE n # 0
      <4>1. n \in 1 .. N
        BY <3>2
      <4> QED
        BY <1>8, <1>9, <3>2, <4>1, Zenon
    <3> QED
      BY <3>1, <3>2
  <2>2. g = [n \in 0 .. N |-> g[n]]
    OBVIOUS
  <2> QED
    BY <2>1, <2>2, Zenon
<1>11. PICK r : r = CHOOSE q : q = [n \in 0 .. N |->
              IF n = 0 THEN w
              ELSE IF Going(q[n - 1]) /\ q[n - 1].node[f].kro
                THEN CleanAKRONode(q[n - 1])
              ELSE q[n - 1]]
  OBVIOUS
<1>12. r = [n \in 0 .. N |->
              IF n = 0 THEN w
              ELSE IF Going(r[n - 1]) /\ r[n - 1].node[f].kro
                THEN CleanAKRONode(r[n - 1])
              ELSE r[n - 1]]
  BY <1>10, <1>11, Zenon
<1>13. v = r[N]
  BY <1>1, <1>11 DEF CleanUntil
<1>14. r[0] = w
  BY <1>2, <1>12
<1>15. \A n \in 1 .. N : r[n] = IF Going(r[n - 1]) /\ r[n - 1].node[f].kro
                                THEN CleanAKRONode(r[n - 1]) ELSE r[n - 1]
  BY <1>2, <1>12
<1>16. \A n \in 0 .. N : r[n] \in S
  <2>1. \A n \in 1 .. N : r[n - 1] \in S => r[n] \in S
    BY <1>5, <1>15
  <2> QED
    BY <1>2, <1>4, <1>14, <2>1, AllInSet
<1>17. \A u \in S : u.cursor \in 1 .. NFrames + 1
  BY <1>3 DEF WorkSet
<1>18. PICK T : T = {n \in 0 .. N : Going(r[n]) => r[n].cursor >= n + 1 \/ ~r[n].node[f].kro}
  OBVIOUS
<1>19. 0 .. N \subseteq T
  <2>1. 0 \in T
    <3>1. w.cursor \in 1 .. NFrames + 1
      BY <1>4, <1>17
    <3>2. w.cursor >= 0 + 1
      BY <1>2, <3>1
    <3> QED
      BY <1>2, <1>14, <1>18, <3>2
  <2>2. ASSUME NEW n \in 1 .. N, n - 1 \in T PROVE n \in T
    <3>1. n - 1 \in 0 .. N /\ n \in 0 .. N /\ r[n - 1] \in S /\ r[n] \in S
      BY <1>2, <1>16
    <3>2. CASE Going(r[n - 1]) /\ r[n - 1].node[f].kro
      <4>1. r[n] = CleanAKRONode(r[n - 1]) /\ KROCleaned(r[n - 1], r[n])
        BY <1>5, <1>15, <3>1, <3>2
      <4>2. r[n - 1].cursor >= (n - 1) + 1
        BY <1>18, <2>2, <3>1, <3>2
      <4>3. r[n - 1].cursor \in Nat /\ r[n].cursor \in Nat /\ n \in Nat
        BY <1>2, <1>17, <3>1
      <4>4. Going(r[n]) => r[n].cursor > r[n - 1].cursor \/ KROFrames(r[n].node) = {}
        BY <4>1 DEF KROCleaned
      <4>5. Going(r[n]) => r[n].cursor >= n + 1 \/ KROFrames(r[n].node) = {}
        BY <4>2, <4>3, <4>4
      <4> QED
        BY <1>18, <3>1, <4>1, <4>5 DEF KROFrames, KROCleaned
    <3>3. CASE Going(r[n - 1]) /\ ~r[n - 1].node[f].kro
      BY <1>3, <1>15, <1>18, <3>1, <3>3
    <3>4. CASE ~Going(r[n - 1])
      BY <1>15, <1>18, <3>1, <3>4
    <3> QED
      BY <3>2, <3>3, <3>4
  <2> QED
    BY ONLY <1>2, <2>1, <2>2, UpToN
<1>20. N \in 0 .. N
  BY <1>2
<1>21. v \in S
  BY <1>13, <1>16, <1>20
<1>22. Going(v) => ~v.node[f].kro
  <2>1. N \in T
    BY <1>19, <1>20
  <2>2. Going(v) => v.cursor >= N + 1 \/ ~v.node[f].kro
    BY <1>13, <1>18, <2>1
  <2>3. v.cursor \in 1 .. NFrames + 1
    BY <1>17, <1>21
  <2>4. ~(v.cursor >= N + 1)
    BY <1>1, <1>2, <2>3
  <2> QED
    BY <2>2, <2>4
<1> QED
  BY <1>3, <1>21, <1>22

\* The loop of the checkpoint.
LEMMA CleanKROGood ==
    ASSUME NEW w, NEW e, Good(w, e), Going(w), w.ret,
           NEW v, v = CleanKRONodes(w)
    PROVE  /\ Good(v, e) /\ Alike(w, v) /\ v.st # "stolen"
           /\ Going(v) => KROFrames(v.node) = {}
<1>1. PICK N : N = NFrames + 1
  OBVIOUS
<1>2. N \in Nat /\ NFrames \in Nat
  BY <1>1, ConstantsAssumption
<1>3. PICK S : S = {u \in WorkSet : Good(u, e) /\ Alike(w, u) /\ u.st # "stolen" /\ (Going(u) => u.ret \/ KROFrames(u.node) = {})}
  OBVIOUS
<1>4. w \in S
  BY <1>3 DEF Good, Fine, Alike, Going
<1>5. ASSUME NEW u \in S, Going(u), u.ret
      PROVE  CleanAKRONode(u) \in S /\ KROCleaned(u, CleanAKRONode(u))
  <2>1. PICK x : x = CleanAKRONode(u)
    OBVIOUS
  <2>2. Good(u, e) /\ Alike(w, u)
    BY <1>3
  <2>3. Good(x, e) /\ KROCleaned(u, x)
    BY <1>5, <2>1, <2>2, CleanAKROGood
  <2>4. Alike(w, x)
    BY <2>2, <2>3, AlikeTransitive DEF KROCleaned
  <2>5. x \in WorkSet /\ x.st # "stolen" /\ (Going(x) => x.ret \/ KROFrames(x.node) = {})
    BY <2>3 DEF Good, Fine, KROCleaned
  <2> QED
    BY <1>3, <2>1, <2>3, <2>4, <2>5
<1>6. PICK F : F = [p \in S \X (1 .. N) |->
                     IF Going(p[1]) /\ p[1].ret THEN CleanAKRONode(p[1])
                     ELSE p[1]]
  OBVIOUS
<1>7. F \in [S \X (1 .. N) -> S]
  BY <1>5, <1>6
<1>8. PICK g \in [0 .. N -> S] : g[0] = w /\ \A n \in 1 .. N : g[n] = F[<<g[n - 1], n>>]
  <2>1. N \in Nat /\ IsStep(S, F, N)
    BY <1>2, <1>7 DEF IsStep
  <2>2. Runs(S, w, F, N) # {}
    BY <2>1, <1>4, RunExists
  <2> QED
    BY <2>2 DEF Runs
<1>9. \A n \in 1 .. N : F[<<g[n - 1], n>>] =
        IF Going(g[n - 1]) /\ g[n - 1].ret THEN CleanAKRONode(g[n - 1])
        ELSE g[n - 1]
  <2> SUFFICES ASSUME NEW n \in 1 .. N
               PROVE  F[<<g[n - 1], n>>] =
                        IF Going(g[n - 1]) /\ g[n - 1].ret
                        THEN CleanAKRONode(g[n - 1]) ELSE g[n - 1]
    OBVIOUS
  <2>1. g[n - 1] \in S
    BY <1>2
  <2>2. <<g[n - 1], n>> \in S \X (1 .. N)
    BY <2>1
  <2> QED
    BY <1>6, <2>2
<1>10. g = [n \in 0 .. N |->
              IF n = 0 THEN w
              ELSE IF Going(g[n - 1]) /\ g[n - 1].ret
                THEN CleanAKRONode(g[n - 1])
              ELSE g[n - 1]]
  <2>1. ASSUME NEW n \in 0 .. N
        PROVE  g[n] = IF n = 0 THEN w
                      ELSE IF Going(g[n - 1]) /\ g[n - 1].ret
                        THEN CleanAKRONode(g[n - 1])
                      ELSE g[n - 1]
    <3>1. CASE n = 0
      BY <1>8, <3>1
    <3>2. CASE n # 0
      <4>1. n \in 1 .. N
        BY <3>2
      <4> QED
        BY <1>8, <1>9, <3>2, <4>1, Zenon
    <3> QED
      BY <3>1, <3>2
  <2>2. g = [n \in 0 .. N |-> g[n]]
    OBVIOUS
  <2> QED
    BY <2>1, <2>2, Zenon
<1>11. PICK r : r = CHOOSE q : q = [n \in 0 .. N |->
              IF n = 0 THEN w
              ELSE IF Going(q[n - 1]) /\ q[n - 1].ret
                THEN CleanAKRONode(q[n - 1])
              ELSE q[n - 1]]
  OBVIOUS
<1>12. r = [n \in 0 .. N |->
              IF n = 0 THEN w
              ELSE IF Going(r[n - 1]) /\ r[n - 1].ret
                THEN CleanAKRONode(r[n - 1])
              ELSE r[n - 1]]
  BY <1>10, <1>11, Zenon
<1>13. v = r[N]
  BY <1>1, <1>11 DEF CleanKRONodes
<1>14. r[0] = w
  BY <1>2, <1>12
<1>15. \A n \in 1 .. N : r[n] = IF Going(r[n - 1]) /\ r[n - 1].ret
                                THEN CleanAKRONode(r[n - 1]) ELSE r[n - 1]
  BY <1>2, <1>12
<1>16. \A n \in 0 .. N : r[n] \in S
  <2>1. \A n \in 1 .. N : r[n - 1] \in S => r[n] \in S
    BY <1>5, <1>15
  <2> QED
    BY <1>2, <1>4, <1>14, <2>1, AllInSet
<1>17. \A u \in S : u.cursor \in 1 .. NFrames + 1
  BY <1>3 DEF WorkSet
<1>18. PICK T : T = {n \in 0 .. N : Going(r[n]) => r[n].cursor >= n + 1 \/ (~r[n].ret /\ KROFrames(r[n].node) = {})}
  OBVIOUS
<1>19. 0 .. N \subseteq T
  <2>1. 0 \in T
    <3>1. w.cursor \in 1 .. NFrames + 1
      BY <1>4, <1>17
    <3>2. w.cursor >= 0 + 1
      BY <1>2, <3>1
    <3> QED
      BY <1>2, <1>14, <1>18, <3>2
  <2>2. ASSUME NEW n \in 1 .. N, n - 1 \in T PROVE n \in T
    <3>1. n - 1 \in 0 .. N /\ n \in 0 .. N /\ r[n - 1] \in S /\ r[n] \in S
      BY <1>2, <1>16
    <3>2. CASE Going(r[n - 1]) /\ r[n - 1].ret
      <4>1. r[n] = CleanAKRONode(r[n - 1]) /\ KROCleaned(r[n - 1], r[n])
        BY <1>5, <1>15, <3>1, <3>2
      <4>2. r[n - 1].cursor >= (n - 1) + 1
        BY <1>18, <2>2, <3>1, <3>2
      <4>3. r[n - 1].cursor \in Nat /\ r[n].cursor \in Nat /\ n \in Nat
        BY <1>2, <1>17, <3>1
      <4>4. Going(r[n]) => r[n].cursor > r[n - 1].cursor \/ (~r[n].ret /\ KROFrames(r[n].node) = {})
        BY <4>1 DEF KROCleaned
      <4>5. Going(r[n]) => r[n].cursor >= n + 1 \/ (~r[n].ret /\ KROFrames(r[n].node) = {})
        BY <4>2, <4>3, <4>4
      <4> QED
        BY <1>18, <3>1, <4>1, <4>5 DEF KROFrames, KROCleaned
    <3>3. CASE Going(r[n - 1]) /\ ~r[n - 1].ret
      BY <1>3, <1>15, <1>18, <3>1, <3>3
    <3>4. CASE ~Going(r[n - 1])
      BY <1>15, <1>18, <3>1, <3>4
    <3> QED
      BY <3>2, <3>3, <3>4
  <2> QED
    BY ONLY <1>2, <2>1, <2>2, UpToN
<1>20. N \in 0 .. N
  BY <1>2
<1>21. v \in S
  BY <1>13, <1>16, <1>20
<1>22. Going(v) => KROFrames(v.node) = {}
  <2>1. N \in T
    BY <1>19, <1>20
  <2>2. Going(v) => v.cursor >= N + 1 \/ KROFrames(v.node) = {}
    BY <1>13, <1>18, <2>1
  <2>3. v.cursor \in 1 .. NFrames + 1
    BY <1>17, <1>21
  <2>4. ~(v.cursor >= N + 1)
    BY <1>1, <1>2, <2>3
  <2> QED
    BY <2>2, <2>4
<1> QED
  BY <1>3, <1>21, <1>22

\* What node_MitigateKRO leaves: the node may be written.
LEMMA MitigateGood ==
    ASSUME NEW w, NEW e, Good(w, e), Going(w), NEW f \in Frame,
           NEW v, v = node_MitigateKRO(w, f)
    PROVE  /\ Good(v, e) /\ Alike(w, v) /\ v.st # "stolen"
           /\ Going(v) => ~v.node[f].kro
<1>1. PICK a : a = CleanAPotOfNodes(w, FALSE)
  OBVIOUS
<1>2. Good(a, e) /\ Alike(w, a) /\ a.st # "stolen"
  BY <1>1, CleanAPotGood DEF PotCleaned
<1>3. CASE ~(Going(a) /\ a.node[f].kro)
  BY <1>1, <1>2, <1>3 DEF node_MitigateKRO
<1>4. CASE Going(a) /\ a.node[f].kro
  <2>1. PICK b : b = node_Clean(a, f)
    OBVIOUS
  <2>2. Fine(a, e) /\ Skips(a)
    BY <1>2, <1>4 DEF Good, Going
  <2>3. SkipsBut(a, f)
    BY <2>2 DEF Skips, SkipsBut
  <2>4. a.node[f].dirty
    BY <1>4, <2>2, DirtyHeld
  <2>5. Good(b, e) /\ NodeCleaned(a, b, f)
    BY <1>4, <2>1, <2>2, <2>3, <2>4, NodeCleanGood
  <2>6. Alike(w, b)
    BY <1>2, <2>5, AlikeTransitive DEF NodeCleaned
  <2>7. CASE ~Going(b) \/ b.ret
    <3>1. v = b
      BY <1>1, <1>4, <2>1, <2>7 DEF node_MitigateKRO
    <3> QED
      BY <2>5, <2>6, <2>7, <3>1 DEF NodeCleaned
  <2>8. CASE ~(~Going(b) \/ b.ret)
    <3>1. v = CleanUntil(b, f)
      BY <1>1, <1>4, <2>1, <2>8 DEF node_MitigateKRO
    <3>2. b.st # "stolen"
      BY <2>5 DEF NodeCleaned
    <3>3. Good(v, e) /\ Alike(b, v) /\ v.st # "stolen" /\ (Going(v) => ~v.node[f].kro)
      BY <2>5, <3>1, <3>2, CleanUntilGood
    <3> QED
      BY <2>6, <3>3, AlikeTransitive
  <2> QED
    BY <2>7, <2>8
<1> QED
  BY <1>3, <1>4
-----------------------------------------------------------------------------
(* The node frames.                                                          *)

\* Only the node frames change.
SameLists(w, v) ==
    /\ v.list = w.list /\ v.cursor = w.cursor /\ v.dir = w.dir /\ v.pot = w.pot
    /\ v.inCore = w.inCore /\ v.queued = w.queued /\ v.log = w.log /\ v.free = w.free
    /\ v.nKRO = w.nKRO /\ v.saving = w.saving /\ v.astray = w.astray

\* The environment d differs from e in what processes see of the node o.
SameBut(e, d, o) ==
    /\ d.disk = e.disk /\ d.ckpt = e.ckpt /\ d.base = e.base /\ d.pic = e.pic
    /\ d.kro = e.kro /\ d.gone = e.gone
    /\ \A p \in Oid : p # o => d.cur[p] = e.cur[p]

\* The frame f may get the contents r.
FitsFrame(w, f, r) ==
    /\ r \in NodeFrame /\ r.kro = w.node[f].kro /\ (r.kro => r.dirty)
    /\ r.kro => r.oid = w.node[f].oid /\ r.val = w.node[f].val
    /\ r.oid = NoOid => r = FreeFrame
    /\ r.oid # NoOid => \A g \in Frame : g # f => w.node[g].oid # r.oid
    /\ w.node[f].oid \notin {r.oid, NoOid} => ~w.node[f].dirty

FitsSeen(w, d, r) ==
    r.oid # NoOid => /\ r.val = d.cur[r.oid]
                     /\ ~r.dirty /\ r.oid \notin w.astray =>
                          LoggedAt(w, d.disk, r.oid) = d.cur[r.oid]

FrameChanged(w, v, f, r) ==
    \A g \in Frame : v.node[g] = IF g = f THEN r ELSE w.node[g]

\* One frame gets other contents.
LEMMA FrameStep ==
    ASSUME NEW w, NEW e, Fine(w, e), NEW f \in Frame, NEW r, FitsFrame(w, f, r),
           NEW d, SameBut(e, d, r.oid), FitsSeen(w, d, r),
           NEW v \in WorkSet, SameLists(w, v), FrameChanged(w, v, f, r)
    PROVE  Fine(v, d) /\ (Skips(w) => Skips(v))
<1>0. /\ w.node \in [Frame -> NodeFrame] /\ FramesOK(w.node)
      /\ w.nKRO = Cardinality(KROFrames(w.node)) /\ KROFrames(w.node) \subseteq e.kro
      /\ ListOK(w.list) /\ LogOK(w, e)
  BY DEF Fine, WorkSet
<1>1. PICK n : n = w.node
  OBVIOUS
<1>2. PICK c : c = v.node
  OBVIOUS
<1>3. c[f] = r /\ \A g \in Frame : g # f => c[g] = n[g]
  BY <1>1, <1>2 DEF FrameChanged
<1>4. \A g \in Frame : n[g].oid \in Oid \cup {NoOid}
  BY <1>0, <1>1 DEF NodeFrame
<1>5. \A g \in Frame : c[g].kro <=> n[g].kro
  <2>1. \A g \in Frame : g # f => (c[g].kro <=> n[g].kro)
    BY <1>3
  <2>2. c[f].kro <=> n[f].kro
    BY <1>1, <1>3 DEF FitsFrame
  <2> QED
    BY <2>1, <2>2
<1>6. KROFrames(c) = KROFrames(n)
  BY <1>5 DEF KROFrames
<1>7. FramesOK(c)
  <2>1. ASSUME NEW g \in Frame
        PROVE  (c[g].kro => c[g].dirty) /\ (c[g].oid = NoOid => c[g] = FreeFrame)
    <3>1. CASE g = f
      BY <1>3, <3>1 DEF FitsFrame
    <3>2. CASE g # f
      BY <1>0, <1>1, <1>3, <3>2 DEF FramesOK
    <3> QED
      BY <3>1, <3>2
  <2>2. ASSUME NEW g \in Frame, NEW h \in Frame, c[g].oid = c[h].oid, g # h
        PROVE  c[g].oid = NoOid
    <3>1. CASE g = f
      BY <1>1, <1>3, <2>2, <3>1 DEF FitsFrame
    <3>2. CASE h = f
      BY <1>1, <1>3, <2>2, <3>2 DEF FitsFrame
    <3>3. CASE g # f /\ h # f
      BY <1>0, <1>1, <1>3, <2>2, <3>3 DEF FramesOK
    <3> QED
      BY <3>1, <3>2, <3>3
  <2> QED
    BY <2>1, <2>2 DEF FramesOK
<1>8. LogOK(v, d)
  BY <1>0 DEF LogOK, SameLists, SameBut
<1>9. \A o : LoggedAt(v, d.disk, o) = LoggedAt(w, e.disk, o)
  BY DEF LoggedAt, PotAt, SameLists, SameBut
<1>10. WrittenOut(v, d)
  BY DEF Fine, WrittenOut, SameLists, SameBut
<1>11. Seen(v, d)
  <2>0. Seen(w, e) /\ v.astray = w.astray
    BY DEF Fine, SameLists
  <2>1. ASSUME NEW g \in Frame, c[g].oid # NoOid PROVE c[g].val = d.cur[c[g].oid]
    <3>1. CASE g = f
      BY <1>3, <2>1, <3>1 DEF FitsSeen
    <3>2. CASE g # f
      <4>1. c[g] = n[g] /\ n[g].oid \in Oid
        BY <1>3, <1>4, <2>1, <3>2
      <4>2. n[g].oid # r.oid
        BY <1>1, <2>1, <3>2, <4>1 DEF FitsFrame
      <4>3. n[g].val = e.cur[n[g].oid]
        BY <1>1, <2>0, <2>1, <4>1 DEF Seen
      <4> QED
        BY <4>1, <4>2, <4>3 DEF SameBut
    <3> QED
      BY <3>1, <3>2
  <2>2. ASSUME NEW o \in Oid \ w.astray, \A g \in Frame : c[g].oid = o => ~c[g].dirty
        PROVE  LoggedAt(v, d.disk, o) = d.cur[o]
    <3>0. o # NoOid
      BY ConstantsAssumption
    <3>1. CASE o = r.oid
      <4>1. ~r.dirty
        BY <1>3, <2>2, <3>1
      <4>2. LoggedAt(w, d.disk, o) = d.cur[o]
        BY <3>0, <3>1, <4>1 DEF FitsSeen
      <4>3. d.disk = e.disk
        BY DEF SameBut
      <4> QED
        BY <1>9, <4>2, <4>3
    <3>2. CASE o # r.oid
      <4>1. ASSUME NEW g \in Frame, n[g].oid = o PROVE ~n[g].dirty
        <5>1. CASE g = f
          BY <1>1, <3>0, <3>2, <4>1, <5>1 DEF FitsFrame
        <5>2. CASE g # f
          BY <1>3, <2>2, <4>1, <5>2
        <5> QED
          BY <5>1, <5>2
      <4>2. LoggedAt(w, e.disk, o) = e.cur[o]
        BY <1>1, <2>0, <4>1 DEF Seen
      <4>3. d.cur[o] = e.cur[o]
        BY <3>2 DEF SameBut
      <4> QED
        BY <1>9, <4>2, <4>3
    <3> QED
      BY <3>1, <3>2
  <2> QED
    BY <1>2, <2>0, <2>1, <2>2 DEF Seen
<1>12. ASSUME d.ckpt \in {2, 3} PROVE Pictured(v, d)
  <2>0. Pictured(w, e) /\ d.pic = e.pic /\ v.astray = w.astray
    BY <1>12 DEF Fine, SameBut, SameLists
  <2>1. ASSUME NEW g \in Frame, c[g].kro PROVE c[g].val = d.pic[c[g].oid]
    <3>1. n[g].kro /\ c[g].val = n[g].val /\ c[g].oid = n[g].oid
      BY <1>1, <1>3, <1>5, <2>1 DEF FitsFrame
    <3> QED
      BY <1>1, <2>0, <3>1 DEF Pictured
  <2>2. ASSUME NEW o \in Oid \ w.astray, \A g \in Frame : c[g].oid = o => ~c[g].kro
        PROVE  LoggedAt(v, d.disk, o) = d.pic[o]
    <3>1. ASSUME NEW g \in Frame, n[g].oid = o PROVE ~n[g].kro
      <4>1. CASE g = f
        BY <1>1, <1>3, <1>5, <2>2, <3>1, <4>1 DEF FitsFrame
      <4>2. CASE g # f
        BY <1>3, <2>2, <3>1, <4>2
      <4> QED
        BY <4>1, <4>2
    <3> QED
      BY <1>1, <1>9, <2>0, <3>1 DEF Pictured
  <2> QED
    BY <1>2, <2>0, <2>1, <2>2 DEF Pictured
<1>13. v.nKRO = Cardinality(KROFrames(v.node)) /\ KROFrames(v.node) \subseteq d.kro
  BY <1>0, <1>1, <1>2, <1>6 DEF SameLists, SameBut
<1>14. ListOK(v.list)
  BY <1>0 DEF SameLists
<1>17. (v.saving <=> d.ckpt \in {2, 3}) /\ d.gone \subseteq v.astray
  BY DEF Fine, SameLists, SameBut
<1>15. Fine(v, d)
  BY <1>2, <1>7, <1>8, <1>10, <1>11, <1>12, <1>13, <1>14, <1>17 DEF Fine
<1>16. Skips(w) => Skips(v)
  BY <1>1, <1>2, <1>5 DEF Skips, SameLists
<1> QED
  BY <1>15, <1>16

\* Frames are emptied.
Less(w, v) == \A f \in Frame : v.node[f].oid \in {w.node[f].oid, NoOid}

\* ReleaseNodeFrame.
LEMMA StealGood ==
    ASSUME NEW w, NEW e, Good(w, e), Going(w), NEW f \in Frame, NEW v, v = Stolen(w, f)
    PROVE  Good(v, e) /\ Less(w, v) /\ v.st \in {"halt", "stolen"}
<1>0. /\ w \in WorkSet /\ Fine(w, e) /\ Skips(w) /\ w.node \in [Frame -> NodeFrame]
      /\ FramesOK(w.node)
  <2>1. w \in WorkSet /\ Fine(w, e) /\ FramesOK(w.node) /\ Skips(w)
    BY DEF Good, Fine, Going
  <2> QED
    BY <2>1 DEF WorkSet
<1>1. CASE w.node[f].dirty
  <2>1. v = [w EXCEPT !.st = "halt"]
    BY <1>1 DEF Stolen
  <2>2. v \in WorkSet /\ SameStore(w, v) /\ v.list = w.list /\ v.st = "halt"
    BY <1>0, <2>1 DEF WorkSet, SameStore
  <2>3. Fine(v, e)
    BY <1>0, <2>2, ControlStep
  <2> QED
    BY <2>2, <2>3 DEF Good, Less, SameStore
<1>2. CASE ~w.node[f].dirty
  <2>1. PICK c : c = [w.node EXCEPT ![f] = FreeFrame]
    OBVIOUS
  <2>2. v = [w EXCEPT !.node = c, !.st = "stolen"]
    BY <1>0, <1>2, <2>1 DEF Stolen, WorkSet
  <2>3. FreeFrame \in NodeFrame /\ ~FreeFrame.kro /\ ~FreeFrame.dirty /\ FreeFrame.oid = NoOid
    BY ConstantsAssumption DEF FreeFrame, NodeFrame
  <2>4. c \in [Frame -> NodeFrame] /\ \A g \in Frame : c[g] = IF g = f THEN FreeFrame ELSE w.node[g]
    BY <1>0, <2>1, <2>3
  <2>5. v \in WorkSet /\ SameLists(w, v) /\ v.node = c /\ v.st = "stolen"
    BY <1>0, <2>2, <2>4 DEF WorkSet, SameLists
  <2>6. FitsFrame(w, f, FreeFrame)
    <3>1. w.node[f].kro \in BOOLEAN /\ FreeFrame.kro = FALSE /\ ~w.node[f].kro
      BY <1>0, <1>2 DEF FreeFrame, NodeFrame, FramesOK
    <3>2. FreeFrame.kro = w.node[f].kro
      BY <3>1
    <3> QED
      BY <1>2, <2>3, <3>2 DEF FitsFrame
  <2>7. SameBut(e, e, FreeFrame.oid) /\ FitsSeen(w, e, FreeFrame)
    BY <2>3 DEF SameBut, FitsSeen
  <2>8. FrameChanged(w, v, f, FreeFrame)
    BY <2>4, <2>5 DEF FrameChanged
  <2>9. Fine(v, e) /\ Skips(v)
    BY <1>0, <2>3, <2>5, <2>6, <2>7, <2>8, FrameStep
  <2>10. Less(w, v)
    BY <2>3, <2>4, <2>5 DEF Less
  <2> QED
    BY <2>5, <2>9, <2>10 DEF Good
<1> QED
  BY <1>1, <1>2

NoFree(w) == \A f \in Frame : w.node[f].oid # NoOid

\* One frame in the scan.
LEMMA VisitGood ==
    ASSUME NEW w, NEW e, Good(w, e), Going(w), NoFree(w), e.ckpt = ckptState,
           NEW f \in Frame, NEW v, v = Visit(w, f)
    PROVE  Good(v, e) /\ Less(w, v) /\ (Going(v) => NoFree(v))
<1>0. /\ w \in WorkSet /\ Fine(w, e) /\ Skips(w) /\ w.node \in [Frame -> NodeFrame]
      /\ FramesOK(w.node) /\ w.st = "run"
  <2>1. w \in WorkSet /\ Fine(w, e) /\ FramesOK(w.node) /\ Skips(w) /\ w.st = "run"
    BY DEF Good, Fine, Going
  <2> QED
    BY <2>1 DEF WorkSet
<1>1. CASE v = w
  BY <1>1 DEF Less
<1>2. CASE ~w.node[f].old /\ v # w
  <2>0. PICK r : r = [w.node[f] EXCEPT !.old = TRUE]
    OBVIOUS
  <2>1. PICK c : c = [w.node EXCEPT ![f] = r]
    OBVIOUS
  <2>2. v = [w EXCEPT !.node = c]
    BY <1>0, <1>2, <2>0, <2>1 DEF Visit, WorkSet
  <2>4. /\ r \in NodeFrame /\ r.oid = w.node[f].oid /\ r.val = w.node[f].val
        /\ r.dirty = w.node[f].dirty /\ r.kro = w.node[f].kro
    <3>1. PICK q : q = w.node[f]
      OBVIOUS
    <3>2. q \in NodeFrame
      BY <1>0, <3>1
    <3> QED
      BY <2>0, <3>1, <3>2 DEF NodeFrame
  <2>5. c \in [Frame -> NodeFrame] /\ \A g \in Frame : c[g] = IF g = f THEN r ELSE w.node[g]
    BY <1>0, <2>1, <2>4
  <2>6. v \in WorkSet /\ SameLists(w, v) /\ v.node = c /\ v.st = "run"
    BY <1>0, <2>2, <2>5 DEF WorkSet, SameLists
  <2>7. FitsFrame(w, f, r)
    BY <1>0, <2>4 DEF FitsFrame, FramesOK, NoFree
  <2>8. FitsSeen(w, e, r)
    <3>1. Seen(w, e)
      BY <1>0 DEF Fine
    <3>2. r.oid # NoOid /\ r.oid \in Oid
      BY <1>0, <2>4 DEF NoFree, NodeFrame
    <3>3. r.val = e.cur[r.oid]
      BY <2>4, <3>1, <3>2 DEF Seen
    <3>4. \A g \in Frame : w.node[g].oid = r.oid => g = f
      BY <1>0, <2>4, <3>2 DEF FramesOK
    <3>5. ~r.dirty /\ r.oid \notin w.astray => LoggedAt(w, e.disk, r.oid) = e.cur[r.oid]
      BY <2>4, <3>1, <3>2, <3>4 DEF Seen
    <3> QED
      BY <3>3, <3>5 DEF FitsSeen
  <2>9. SameBut(e, e, r.oid) /\ FrameChanged(w, v, f, r)
    BY <2>5, <2>6 DEF SameBut, FrameChanged
  <2>11. Fine(v, e) /\ Skips(v)
    BY <1>0, <2>6, <2>7, <2>8, <2>9, FrameStep
  <2>12. Less(w, v) /\ NoFree(v)
    BY <2>4, <2>5, <2>6 DEF Less, NoFree
  <2> QED
    BY <2>11, <2>12 DEF Good
<1>3. CASE w.node[f].old /\ ~w.node[f].dirty
  <2>1. v = Stolen(w, f)
    BY <1>3 DEF Visit
  <2> QED
    BY <2>1, StealGood DEF Going
<1>4. CASE w.node[f].old /\ w.node[f].dirty /\ v # w
  <2>1. MayAgeClean(w, f)
    BY <1>4 DEF Visit
  <2>2. PICK x : x = node_Clean(w, f)
    OBVIOUS
  <2>3. v = IF Going(x) /\ x.ret THEN Stolen(x, f) ELSE x
    BY <1>4, <2>1, <2>2 DEF Visit
  <2>4. SkipsBut(w, f)
    BY <1>0 DEF Skips, SkipsBut
  <2>5. e.ckpt \in {2, 3} => w.node[f].kro
    BY <2>1 DEF MayAgeClean, ckptIsActive
  <2>6. Good(x, e) /\ NodeCleaned(w, x, f)
    BY <1>0, <1>4, <2>2, <2>4, <2>5, NodeCleanGood
  <2>7. Less(w, x) /\ NoFree(x)
    BY <2>6 DEF NodeCleaned, Alike, Less, NoFree
  <2>8. CASE Going(x) /\ x.ret
    <3>1. Good(v, e) /\ Less(x, v) /\ v.st \in {"halt", "stolen"}
      BY <2>3, <2>6, <2>8, StealGood
    <3> QED
      BY <2>7, <3>1 DEF Less, Going
  <2>9. CASE ~(Going(x) /\ x.ret)
    BY <2>3, <2>6, <2>7, <2>9
  <2> QED
    BY <2>8, <2>9
<1> QED
  BY <1>1, <1>2, <1>3, <1>4

\* objC_AgeNodeFrames.
LEMMA AgeGood ==
    ASSUME NEW w, NEW e, Good(w, e), Going(w), NoFree(w), e.ckpt = ckptState,
           NEW curNode \in Frame, NEW v, v = objC_AgeNodeFrames(w, curNode)
    PROVE  Good(v, e) /\ Less(w, v) /\ ~Going(v)
<1>1. PICK a : a = CleanAPotOfNodes(w, FALSE)
  OBVIOUS
<1>2. Good(a, e) /\ Alike(w, a) /\ a.st # "stolen"
  BY <1>1, CleanAPotGood DEF PotCleaned
<1>3. Less(w, a) /\ NoFree(a) /\ a \in WorkSet
  BY <1>2 DEF Alike, Less, NoFree, Good, Fine
<1>4. PICK N : N = 2 * NFrames
  OBVIOUS
<1>5. N \in Nat /\ NFrames \in Nat \ {0} /\ curNode \in Nat
  BY <1>4, ConstantsAssumption DEF Frame
<1>6. \A n \in 1 .. N : ((curNode + n) % NFrames) + 1 \in Frame
  <2> SUFFICES ASSUME NEW n \in 1 .. N PROVE ((curNode + n) % NFrames) + 1 \in Frame
    OBVIOUS
  <2>1. curNode + n \in Nat
    BY <1>5
  <2>2. (curNode + n) % NFrames \in 0 .. NFrames - 1
    BY <1>5, <2>1
  <2> QED
    BY <1>5, <2>2 DEF Frame
<1>7. PICK S : S = {u \in WorkSet : Good(u, e) /\ Less(w, u) /\ (Going(u) => NoFree(u))}
  OBVIOUS
<1>8. a \in S
  BY <1>2, <1>3, <1>7
<1>9. ASSUME NEW u \in S, Going(u), NEW n \in 1 .. N
      PROVE  Visit(u, ((curNode + n) % NFrames) + 1) \in S
  <2>1. PICK f : f = ((curNode + n) % NFrames) + 1
    OBVIOUS
  <2>2. f \in Frame
    BY <1>6, <2>1
  <2>3. PICK x : x = Visit(u, f)
    OBVIOUS
  <2>4. Good(u, e) /\ NoFree(u) /\ Less(w, u)
    BY <1>7, <1>9
  <2>5. Good(x, e) /\ Less(u, x) /\ (Going(x) => NoFree(x))
    BY <1>9, <2>2, <2>3, <2>4, VisitGood
  <2>6. Less(w, x) /\ x \in WorkSet
    BY <2>4, <2>5 DEF Less, Good, Fine
  <2> QED
    BY <1>7, <2>1, <2>3, <2>5, <2>6
<1>10. PICK F : F = [p \in S \X (1 .. N) |->
                     IF Going(p[1]) THEN Visit(p[1], ((curNode + p[2]) % NFrames) + 1)
                     ELSE p[1]]
  OBVIOUS
<1>11. F \in [S \X (1 .. N) -> S]
  BY <1>9, <1>10
<1>12. PICK g \in [0 .. N -> S] : g[0] = a /\ \A n \in 1 .. N : g[n] = F[<<g[n - 1], n>>]
  <2>1. N \in Nat /\ IsStep(S, F, N)
    BY <1>5, <1>11 DEF IsStep
  <2>2. Runs(S, a, F, N) # {}
    BY <2>1, <1>8, RunExists
  <2> QED
    BY <2>2 DEF Runs
<1>13. \A n \in 1 .. N : F[<<g[n - 1], n>>] =
        IF Going(g[n - 1]) THEN Visit(g[n - 1], ((curNode + n) % NFrames) + 1)
        ELSE g[n - 1]
  <2> SUFFICES ASSUME NEW n \in 1 .. N
               PROVE  F[<<g[n - 1], n>>] =
                        IF Going(g[n - 1])
                        THEN Visit(g[n - 1], ((curNode + n) % NFrames) + 1)
                        ELSE g[n - 1]
    OBVIOUS
  <2>1. g[n - 1] \in S
    BY <1>5
  <2>2. <<g[n - 1], n>> \in S \X (1 .. N)
    BY <2>1
  <2> QED
    BY <1>10, <2>2
<1>14. g = [n \in 0 .. N |->
              IF n = 0 THEN a
              ELSE IF Going(g[n - 1])
                THEN Visit(g[n - 1], ((curNode + n) % NFrames) + 1)
              ELSE g[n - 1]]
  <2>1. ASSUME NEW n \in 0 .. N
        PROVE  g[n] = IF n = 0 THEN a
                      ELSE IF Going(g[n - 1])
                        THEN Visit(g[n - 1], ((curNode + n) % NFrames) + 1)
                      ELSE g[n - 1]
    <3>1. CASE n = 0
      BY <1>12, <3>1
    <3>2. CASE n # 0
      <4>1. n \in 1 .. N
        BY <3>2
      <4> QED
        BY <1>12, <1>13, <3>2, <4>1, Zenon
    <3> QED
      BY <3>1, <3>2
  <2>2. g = [n \in 0 .. N |-> g[n]]
    OBVIOUS
  <2> QED
    BY <2>1, <2>2, Zenon
<1>15. PICK r : r = CHOOSE q : q = [n \in 0 .. N |->
              IF n = 0 THEN a
              ELSE IF Going(q[n - 1])
                THEN Visit(q[n - 1], ((curNode + n) % NFrames) + 1)
              ELSE q[n - 1]]
  OBVIOUS
<1>16. r = [n \in 0 .. N |->
              IF n = 0 THEN a
              ELSE IF Going(r[n - 1])
                THEN Visit(r[n - 1], ((curNode + n) % NFrames) + 1)
              ELSE r[n - 1]]
  BY <1>14, <1>15, Zenon
<1>17. r[0] = a
  BY <1>5, <1>16
<1>18. \A n \in 1 .. N : r[n] = IF Going(r[n - 1])
                                THEN Visit(r[n - 1], ((curNode + n) % NFrames) + 1)
                                ELSE r[n - 1]
  BY <1>5, <1>16
<1>19. \A n \in 0 .. N : r[n] \in S
  <2>1. ASSUME NEW n \in 1 .. N, r[n - 1] \in S PROVE r[n] \in S
    BY <1>9, <1>18, <2>1
  <2> QED
    BY <1>5, <1>8, <1>17, <2>1, AllInSet
<1>20. PICK z : z = r[N]
  OBVIOUS
<1>21. v = IF ~Going(a) THEN a
           ELSE IF a.ret THEN Stolen(a, a.first)
           ELSE IF Going(z) THEN [z EXCEPT !.st = "halt"] ELSE z
  BY <1>1, <1>4, <1>15, <1>20 DEF objC_AgeNodeFrames
<1>22. z \in S
  BY <1>5, <1>19, <1>20
<1>23. CASE ~Going(a)
  BY <1>2, <1>3, <1>21, <1>23
<1>24. CASE Going(a) /\ a.ret
  <2>1. a.first \in Frame
    BY <1>3 DEF WorkSet
  <2>2. Good(v, e) /\ Less(a, v) /\ v.st \in {"halt", "stolen"}
    BY <1>2, <1>21, <1>24, <2>1, StealGood
  <2> QED
    BY <1>3, <2>2 DEF Less, Going
<1>25. CASE Going(a) /\ ~a.ret /\ Going(z)
  <2>1. z \in WorkSet /\ Fine(z, e) /\ Less(w, z)
    BY <1>7, <1>22 DEF Good
  <2>2. v = [z EXCEPT !.st = "halt"]
    BY <1>21, <1>25
  <2>3. v \in WorkSet /\ SameStore(z, v) /\ v.list = z.list /\ v.st = "halt"
    BY <2>1, <2>2 DEF WorkSet, SameStore
  <2>4. Fine(v, e)
    BY <2>1, <2>3, ControlStep
  <2> QED
    BY <2>1, <2>3, <2>4 DEF Good, Less, SameStore, Going
<1>26. CASE Going(a) /\ ~a.ret /\ ~Going(z)
  BY <1>7, <1>21, <1>22, <1>26
<1> QED
  BY <1>23, <1>24, <1>25, <1>26
-----------------------------------------------------------------------------
(* The end of a stretch of the kernel.                                       *)

\* What the processes see, of the record w and the disk d.
CurrentAt(w, d) ==
    [o \in Oid |-> IF \E f \in Frame : w.node[f].oid = o
                   THEN w.node[CHOOSE f \in Frame : w.node[f].oid = o].val
                   ELSE LoggedAt(w, d, o)]

LEMMA LoggedValue ==
    ASSUME NEW w \in WorkSet, NEW d, d \in [Lid -> Pot], NEW o \in Oid
    PROVE  LoggedAt(w, d, o) \in Value
<1>0. w.dir \in [Oid -> Place] /\ w.pot \in [Lid -> Pot]
  BY DEF WorkSet
<1>1. CASE w.dir[o] = Home
  BY <1>1, ConstantsAssumption DEF LoggedAt
<1>2. CASE w.dir[o] # Home /\ w.dir[o] = NullPlace
  BY <1>2, ConstantsAssumption DEF LoggedAt
<1>3. CASE w.dir[o] # Home /\ w.dir[o] # NullPlace
  <2>1. w.dir[o].lid \in Lid /\ w.dir[o].idx \in 1 .. PotSize
    BY <1>0, <1>3 DEF Place
  <2>2. PotAt(w, d, w.dir[o].lid) \in Pot
    BY <1>0, <2>1 DEF PotAt
  <2> QED
    BY <1>3, <2>1, <2>2 DEF LoggedAt, Pot
<1> QED
  BY <1>1, <1>2, <1>3

LEMMA CurrentValue ==
    ASSUME NEW w \in WorkSet, NEW d, d \in [Lid -> Pot]
    PROVE  CurrentAt(w, d) \in [Oid -> Value]
<1> SUFFICES ASSUME NEW o \in Oid PROVE CurrentAt(w, d)[o] \in Value
  BY DEF CurrentAt
<1>1. CASE \E f \in Frame : w.node[f].oid = o
  <2>1. PICK f : f = CHOOSE h \in Frame : w.node[h].oid = o
    OBVIOUS
  <2>2. f \in Frame
    BY <1>1, <2>1
  <2>3. w.node[f].val \in Value
    BY <2>2 DEF WorkSet, NodeFrame
  <2> QED
    BY <1>1, <2>1, <2>3 DEF CurrentAt
<1>2. CASE ~\E f \in Frame : w.node[f].oid = o
  BY <1>2, LoggedValue DEF CurrentAt
<1> QED
  BY <1>1, <1>2

\* Processes see what the invariant says.
LEMMA SeenIsCurrent ==
    ASSUME NEW w \in WorkSet, NEW e, e.cur \in [Oid -> Value], Seen(w, e)
    PROVE  \A o \in Oid : o \notin w.astray \/ (\E f \in Frame : w.node[f].oid = o) =>
                           CurrentAt(w, e.disk)[o] = e.cur[o]
<1>1. ASSUME NEW o \in Oid, o \notin w.astray \/ \E f \in Frame : w.node[f].oid = o
      PROVE  CurrentAt(w, e.disk)[o] = e.cur[o]
  <2>0. o # NoOid
    BY ConstantsAssumption
  <2>1. CASE \E f \in Frame : w.node[f].oid = o
    <3>1. PICK f : f = CHOOSE h \in Frame : w.node[h].oid = o
      OBVIOUS
    <3>2. f \in Frame /\ w.node[f].oid = o
      BY <2>1, <3>1
    <3>3. w.node[f].val = e.cur[o]
      BY <2>0, <3>2 DEF Seen
    <3> QED
      BY <2>1, <3>1, <3>3 DEF CurrentAt
  <2>2. CASE ~\E f \in Frame : w.node[f].oid = o
    BY <1>1, <2>2 DEF CurrentAt, Seen
  <2> QED
    BY <2>1, <2>2
<1> QED
  BY <1>1

\* The next operation finds v where the last one left w.
SameEnd(w, v) ==
    /\ SameStore(w, v) /\ v.list = w.list /\ v.cursor = w.cursor
    /\ v.st = "halt" <=> w.st = "halt"
SameEnv(e, d) ==
    /\ d.disk = e.disk /\ d.base = e.base /\ d.pic = e.pic
    /\ d.ckpt \in {2, 3} <=> e.ckpt \in {2, 3}

LEMMA Settled ==
    ASSUME NEW w, NEW e, Good(w, e), e.cur \in [Oid -> Value], e.disk \in [Lid -> Pot],
           NEW v \in WorkSet, SameEnd(w, v), NEW d, SameEnv(e, d),
           d.cur = CurrentAt(v, d.disk), d.kro = KROFrames(v.node), d.gone = v.astray
    PROVE  /\ Good(v, d) /\ d.cur \in [Oid -> Value]
           /\ \A o \in Oid \ v.astray : d.cur[o] = e.cur[o]
           /\ e.gone \subseteq v.astray
<1>1. Fine(v, e) /\ (v.st # "halt" => Skips(v))
  BY ControlStep DEF Good, SameEnd
<1>2. \A o \in Oid : o \notin v.astray \/ (\E f \in Frame : v.node[f].oid = o) =>
                     d.cur[o] = e.cur[o]
  <2>1. Seen(v, e) /\ d.disk = e.disk
    BY <1>1 DEF Fine, SameEnv
  <2> QED
    BY <2>1, SeenIsCurrent
<1>3. d.cur \in [Oid -> Value]
  BY CurrentValue DEF SameEnv
<1>4. LogOK(v, d)
  BY <1>1 DEF Fine, LogOK, SameEnv
<1>5. WrittenOut(v, d)
  BY <1>1 DEF Fine, WrittenOut, SameEnv
<1>8. Seen(v, d)
  <2>0. Seen(v, e) /\ d.disk = e.disk /\ \A f \in Frame : v.node[f].oid \in Oid \cup {NoOid}
    BY <1>1 DEF Fine, SameEnv, WorkSet, NodeFrame
  <2>1. ASSUME NEW f \in Frame, v.node[f].oid # NoOid
        PROVE  v.node[f].val = d.cur[v.node[f].oid]
    <3>1. v.node[f].val = e.cur[v.node[f].oid] /\ v.node[f].oid \in Oid
      BY <2>0, <2>1 DEF Seen
    <3> QED
      BY <1>2, <3>1
  <2>2. ASSUME NEW o \in Oid \ v.astray,
               \A f \in Frame : v.node[f].oid = o => ~v.node[f].dirty
        PROVE  LoggedAt(v, d.disk, o) = d.cur[o]
    BY <1>2, <2>0, <2>2 DEF Seen
  <2> QED
    BY <2>1, <2>2 DEF Seen
<1>6. d.ckpt \in {2, 3} => Pictured(v, d)
  BY <1>1 DEF Fine, Pictured, SameEnv
<1>9. v.saving <=> d.ckpt \in {2, 3}
  BY <1>1 DEF Fine, SameEnv
<1>7. Fine(v, d)
  BY <1>1, <1>4, <1>5, <1>6, <1>8, <1>9 DEF Fine
<1>10. e.gone \subseteq v.astray
  BY <1>1 DEF Fine
<1> QED
  BY <1>1, <1>2, <1>3, <1>7, <1>10 DEF Good
-----------------------------------------------------------------------------
(* The actions keep the invariant.                                           *)

LEMMA CurrentNow == CurrentAt(Now, disk) = Current /\ \A o : LoggedAt(Now, disk, o) = Logged(o)
<1>1. \A o : LoggedAt(Now, disk, o) = Logged(o)
  BY DEF Now, LoggedAt, PotAt, Logged
<1>2. Now.node = node
  BY DEF Now
<1> QED
  BY <1>1, <1>2 DEF CurrentAt, Current, Cached, FrameOf

LEMMA CurrentNext ==
    /\ CurrentAt(Now', disk') = Current'
    /\ \A o : LoggedAt(Now', disk', o) = Logged(o)'
<1>1. \A o : LoggedAt(Now', disk', o) = Logged(o)'
  BY DEF Now, LoggedAt, PotAt, Logged
<1>2. (Now').node = node'
  BY DEF Now
<1> QED
  BY <1>1, <1>2 DEF CurrentAt, Current, Cached, FrameOf

\* The fields of the invariant's records.
LEMMA NowFields ==
    /\ Now.node = node /\ Now.list = nodesToClean /\ Now.cursor = KRONodeCleanCursor
    /\ Now.nKRO = numKRONodes /\ Now.dir = dir /\ Now.pot = pot /\ Now.inCore = inCore
    /\ Now.queued = queued /\ Now.log = logCursor /\ Now.free = freeCleaning
    /\ Now.st = IF halted THEN "halt" ELSE "run"
    /\ Now.saving = (ckptState \in {2, 3}) /\ Now.astray = astray
BY DEF Now

LEMMA NowNextFields ==
    /\ (Now').node = node' /\ (Now').list = nodesToClean'
    /\ (Now').cursor = KRONodeCleanCursor' /\ (Now').nKRO = numKRONodes'
    /\ (Now').dir = dir' /\ (Now').pot = pot' /\ (Now').inCore = inCore'
    /\ (Now').queued = queued' /\ (Now').log = logCursor' /\ (Now').free = freeCleaning'
    /\ (Now').st = IF halted' THEN "halt" ELSE "run"
    /\ (Now').saving = (ckptState' \in {2, 3}) /\ (Now').astray = astray'
BY DEF Now

LEMMA EnvFields ==
    /\ Env.disk = disk /\ Env.ckpt = ckptState /\ Env.base = saved.logCursor
    /\ Env.cur = Current /\ Env.pic = snapshot /\ Env.kro = KROFrames(node)
    /\ Env.gone = astray
BY DEF Env

LEMMA EnvNextFields ==
    /\ (Env').disk = disk' /\ (Env').ckpt = ckptState' /\ (Env').base = (saved').logCursor
    /\ (Env').cur = Current' /\ (Env').pic = snapshot' /\ (Env').kro = KROFrames(node')
    /\ (Env').gone = astray'
BY DEF Env

\* The variables are in their sets.
VariableSets ==
    /\ node \in [Frame -> NodeFrame] /\ nodesToClean \in Seq(Frame)
    /\ KRONodeCleanCursor \in 1 .. NFrames + 1 /\ numKRONodes \in Nat
    /\ dir \in [Oid -> Place] /\ pot \in [Lid -> Pot] /\ inCore \subseteq Lid
    /\ queued \subseteq Lid /\ logCursor \in 1 .. MaxLid + 1 /\ freeCleaning \in Nat
    /\ astray \subseteq Oid

LEMMA NowInSet == VariableSets => Now \in WorkSet
<1>1. 1 \in Frame /\ 0 \in Nat /\ TRUE \in BOOLEAN
  BY FrameFacts
<1> QED
  BY <1>1 DEF VariableSets, Now, WorkSet

LEMMA NowNextInSet == VariableSets' => Now' \in WorkSet
<1>1. 1 \in Frame /\ 0 \in Nat /\ TRUE \in BOOLEAN
  BY FrameFacts
<1> QED
  BY <1>1 DEF VariableSets, Now, WorkSet

LEMMA InvFacts ==
    ASSUME Inv
    PROVE  /\ Now \in WorkSet /\ Fine(Now, Env) /\ VariableSets
           /\ ~halted => Good(Now, Env) /\ Going(Now) /\ Skips(Now)
           /\ disk \in [Lid -> Pot] /\ ckptState \in 0 .. 3 /\ Current \in [Oid -> Value]
           /\ snapshot \in [Oid -> Value] \cup {NoPicture}
           /\ saved \in [dir : [Oid -> Place], logCursor : 1 .. MaxLid + 1]
<1>1. Fine(Now, Env) /\ Env \in EnvSet /\ Good(Now, Env) /\ Stable
  BY DEF Inv, Good
<1>2. Now \in WorkSet
  BY <1>1 DEF Fine
<1>3. VariableSets
  <2>1. PICK w : w = Now
    OBVIOUS
  <2>2. w \in WorkSet
    BY <1>2, <2>1
  <2>3. /\ w.node \in [Frame -> NodeFrame] /\ w.list \in Seq(Frame)
        /\ w.cursor \in 1 .. NFrames + 1 /\ w.nKRO \in Nat
        /\ w.dir \in [Oid -> Place] /\ w.pot \in [Lid -> Pot] /\ w.inCore \subseteq Lid
        /\ w.queued \subseteq Lid /\ w.log \in 1 .. MaxLid + 1 /\ w.free \in Nat
        /\ w.astray \subseteq Oid
    BY ONLY <2>2 DEF WorkSet
  <2> QED
    BY <2>1, <2>3, NowFields DEF VariableSets
<1>4. ~halted => Going(Now) /\ Skips(Now)
  BY <1>1, NowFields DEF Going, Good
<1>5. /\ disk \in [Lid -> Pot] /\ ckptState \in 0 .. 3 /\ Current \in [Oid -> Value]
      /\ snapshot \in [Oid -> Value] \cup {NoPicture}
  <2>1. PICK e : e = Env
    OBVIOUS
  <2>2. e \in EnvSet
    BY <1>1, <2>1
  <2>3. /\ e.disk \in [Lid -> Pot] /\ e.ckpt \in 0 .. 3 /\ e.cur \in [Oid -> Value]
        /\ e.pic \in [Oid -> Value] \cup {NoPicture}
    BY ONLY <2>2 DEF EnvSet
  <2> QED
    BY <2>1, <2>3, EnvFields
<1> QED
  BY <1>1, <1>2, <1>3, <1>4, <1>5 DEF Stable

\* How the phase may change when the picture does not.
PhaseKept(c) ==
    \/ ckptState' = ckptState
    \/ ckptState = 0 /\ ckptState' = 1
    \/ ckptState = 2 /\ ckptState' = 3 /\ KROFrames(c) = {}

\* The processes go on seeing c, but for nodes that went astray.
StillSeen(c) ==
    (\A o \in Oid \ astray' : Current'[o] = c[o]) /\ astray \subseteq astray'

\* An operation ends as u says, in the environment e.
LEMMA Ended ==
    ASSUME Inv, NEW u, NEW e, Good(u, e), Done(u), node' = u.node,
           UNCHANGED <<disk, saved, snapshot, committed>>, potsKRO' \subseteq potsKRO,
           PhaseKept(u.node),
           stores' \in 0 .. MaxStores,
           e.disk = disk, e.ckpt = ckptState, e.base = saved.logCursor,
           e.pic = snapshot, e.kro = KROFrames(node), e.gone = astray,
           e.cur \in [Oid -> Value]
    PROVE  Inv' /\ StillSeen(e.cur)
<1>0. u \in WorkSet /\ Fine(u, e) /\ KROFrames(u.node) \subseteq KROFrames(node)
  BY DEF Good, Fine
<1>1. VariableSets'
  <2>1. /\ u.node \in [Frame -> NodeFrame] /\ u.list \in Seq(Frame)
        /\ u.cursor \in 1 .. NFrames + 1 /\ u.nKRO \in Nat
        /\ u.dir \in [Oid -> Place] /\ u.pot \in [Lid -> Pot] /\ u.inCore \subseteq Lid
        /\ u.queued \subseteq Lid /\ u.log \in 1 .. MaxLid + 1 /\ u.free \in Nat
        /\ u.astray \subseteq Oid
    BY ONLY <1>0 DEF WorkSet
  <2> QED
    BY <2>1 DEF VariableSets, Done
<1>2. PICK v : v = Now'
  OBVIOUS
<1>3. PICK d : d = Env'
  OBVIOUS
<1>4. v \in WorkSet
  BY <1>1, <1>2, NowNextInSet
<1>5. SameEnd(u, v)
  <2>1. halted' = (u.st = "halt")
    BY DEF Done
  <2>4. v.saving = u.saving
    <3>1. u.saving <=> ckptState \in {2, 3}
      BY <1>0 DEF Fine
    <3>2. v.saving <=> ckptState' \in {2, 3}
      BY <1>2, NowNextFields
    <3>3. ckptState \in {2, 3} <=> ckptState' \in {2, 3}
      BY DEF PhaseKept
    <3>4. u.saving \in BOOLEAN /\ v.saving \in BOOLEAN
      BY <1>0, <1>4 DEF WorkSet
    <3> QED
      BY ONLY <3>1, <3>2, <3>3, <3>4
  <2>2. SameStore(u, v) /\ v.list = u.list /\ v.cursor = u.cursor
    BY <1>2, <2>4, NowNextFields DEF Done, SameStore
  <2>3. v.st = "halt" <=> u.st = "halt"
    BY <1>2, <2>1, NowNextFields
  <2> QED
    BY <2>2, <2>3 DEF SameEnd
<1>6. /\ d.disk = disk' /\ d.ckpt = ckptState' /\ d.base = (saved').logCursor
      /\ d.cur = Current' /\ d.pic = snapshot' /\ d.kro = KROFrames(node')
      /\ d.gone = astray'
  BY <1>3, EnvNextFields
<1>7. SameEnv(e, d)
  BY <1>6 DEF SameEnv, PhaseKept
<1>8. d.cur = CurrentAt(v, d.disk) /\ d.kro = KROFrames(v.node) /\ d.gone = v.astray
  BY <1>2, <1>6, CurrentNext, NowNextFields
<1>9. e.disk \in [Lid -> Pot]
  BY InvFacts
<1>10. /\ Good(v, d) /\ d.cur \in [Oid -> Value] /\ e.gone \subseteq v.astray
       /\ \A o \in Oid \ v.astray : d.cur[o] = e.cur[o]
  BY ONLY Good(u, e), e.cur \in [Oid -> Value], <1>4, <1>5, <1>7, <1>8, <1>9, Settled
<1>11. Env' \in EnvSet
  <2>1. ckptState' \in 0 .. 3
    BY InvFacts DEF PhaseKept
  <2>2. disk' \in [Lid -> Pot] /\ (saved').logCursor \in 1 .. MaxLid + 1
        /\ snapshot' \in [Oid -> Value] \cup {NoPicture}
    BY InvFacts
  <2>3. KROFrames(node') \in SUBSET Frame /\ Current' \in [Oid -> Value]
        /\ astray' \in SUBSET Oid
    BY <1>1, <1>6, <1>10, FrameFacts DEF VariableSets
  <2> QED
    BY <2>1, <2>2, <2>3 DEF Env, EnvSet
<1>12. Phases'
  <2>0. Phases
    BY DEF Inv
  <2>1. snapshot' \in IF ckptState' \in {2, 3} THEN [Oid -> Value] ELSE {NoPicture}
    BY <2>0 DEF Phases, PhaseKept
  <2>2. ckptState' # 2 => KROFrames(node') = {}
    BY <1>0, <2>0 DEF Phases, PhaseKept
  <2> QED
    BY <2>1, <2>2 DEF Phases
<1>15. StillSeen(e.cur)
  <2>1. v.astray = astray'
    BY <1>2, NowNextFields
  <2> QED
    BY <1>6, <1>10, <2>1 DEF StillSeen
<1>13. Stable'
  <2>1. Stable
    BY DEF Inv
  <2>2. Recoverable'
    BY <1>15, <2>1 DEF Stable, Recoverable, OnDisk, StillSeen
  <2> QED
    BY <2>1, <2>2 DEF Stable
<1>14. halted' \in BOOLEAN /\ potsKRO' \subseteq Lid
  BY DEF Done, Inv
<1> QED
  BY <1>2, <1>3, <1>10, <1>11, <1>12, <1>13, <1>14, <1>15 DEF Inv

\* An operation begins.
LEMMA WorkGood ==
    ASSUME Inv, ~halted, NEW grab \in 0 .. MaxGrab, NEW w, w = Work(grab)
    PROVE  Good(w, Env) /\ Going(w) /\ w.ret /\ w.node = node /\ w \in WorkSet
<1>0. grab \in Nat /\ 1 \in Frame
  BY FrameFacts, ConstantsAssumption
<1>1. w \in WorkSet
  <2>1. VariableSets /\ TRUE \in BOOLEAN /\ (ckptState \in {2, 3}) \in BOOLEAN
    BY InvFacts
  <2>2. PICK b \in BOOLEAN : b = (ckptState \in {2, 3})
    BY <2>1, Zenon
  <2>3. w = [node |-> node, list |-> nodesToClean, cursor |-> KRONodeCleanCursor,
             nKRO |-> numKRONodes, dir |-> dir, pot |-> pot, inCore |-> inCore,
             queued |-> queued, log |-> logCursor, free |-> freeCleaning,
             grab |-> grab, st |-> "run", ret |-> TRUE, first |-> 1,
             saving |-> b, astray |-> astray]
    BY <2>2, Zenon DEF Work
  <2> QED
    BY ONLY <1>0, <2>1, <2>2, <2>3 DEF WorkSet, VariableSets
<1>2. /\ w.st = "run" /\ w.ret /\ w.node = node /\ SameStore(Now, w)
      /\ w.list = Now.list /\ w.cursor = Now.cursor
  BY DEF Work, Now, SameStore
<1>3. Fine(w, Env) /\ Skips(w)
  BY <1>1, <1>2, InvFacts, ControlStep
<1> QED
  BY <1>1, <1>2, <1>3 DEF Good, Going

LEMMA GrabGood ==
    ASSUME Inv, ~halted, NEW grab \in 0 .. MaxGrab, NEW curNode \in Frame,
           NEW v, v = GrabNodeFrame(grab, curNode)
    PROVE  /\ Good(v, Env) /\ v \in WorkSet
           /\ \A f \in Frame : v.node[f].oid \in {node[f].oid, NoOid}
<1>1. PICK w : w = Work(grab)
  OBVIOUS
<1>2. Good(w, Env) /\ Going(w) /\ w.node = node /\ w \in WorkSet
  BY <1>1, WorkGood
<1>3. CASE Frames(w) # {}
  <2>1. v = w
    BY <1>1, <1>3 DEF GrabNodeFrame
  <2> QED
    BY <1>2, <2>1
<1>4. CASE Frames(w) = {}
  <2>1. v = objC_AgeNodeFrames(w, curNode)
    BY <1>1, <1>4 DEF GrabNodeFrame
  <2>2. NoFree(w)
    BY <1>4 DEF Frames, NoFree
  <2>3. PICK e : e = Env
    OBVIOUS
  <2>4. e.ckpt = ckptState /\ Good(w, e)
    BY <1>2, <2>3, EnvFields
  <2>5. Good(v, e) /\ Less(w, v)
    BY <1>2, <2>1, <2>2, <2>4, AgeGood
  <2> QED
    BY <1>2, <2>3, <2>5 DEF Less, Good, Fine
<1> QED
  BY <1>3, <1>4

LEMMA GetObjectInv ==
    ASSUME Inv, NEW o \in Oid, GetObject(o)
    PROVE  Inv' /\ StillSeen(Current)
<1>0. /\ ~halted /\ ~Cached(o)
      /\ UNCHANGED <<disk, ckptState, potsKRO, saved, snapshot, stores, committed>>
  BY DEF GetObject
<1>1. PICK grab \in 0 .. MaxGrab, curNode \in Frame :
        LET w == GrabNodeFrame(grab, curNode)
            n == [oid |-> o, val |-> Logged(o), dirty |-> dir[o] = NullPlace,
                  kro |-> FALSE, old |-> FALSE]
        IN /\ Done(w)
           /\ IF w.st \in {"run", "stolen"}
              THEN \E f \in Frames(w) : node' = [w.node EXCEPT ![f] = n]
              ELSE node' = w.node
  BY DEF GetObject
<1>2. PICK w : w = GrabNodeFrame(grab, curNode)
  OBVIOUS
<1>3. PICK n : n = [oid |-> o, val |-> Logged(o), dirty |-> dir[o] = NullPlace,
                    kro |-> FALSE, old |-> FALSE]
  OBVIOUS
<1>4. /\ Done(w)
      /\ IF w.st \in {"run", "stolen"}
         THEN \E f \in Frames(w) : node' = [w.node EXCEPT ![f] = n]
         ELSE node' = w.node
  BY <1>1, <1>2, <1>3
<1>5. /\ Good(w, Env) /\ w \in WorkSet
      /\ \A f \in Frame : w.node[f].oid \in {node[f].oid, NoOid}
  BY <1>0, <1>2, GrabGood
<1>6. PICK e : e = Env
  OBVIOUS
<1>7. /\ e.disk = disk /\ e.ckpt = ckptState /\ e.base = saved.logCursor
      /\ e.pic = snapshot /\ e.kro = KROFrames(node) /\ e.cur = Current
      /\ e.cur \in [Oid -> Value] /\ Good(w, e) /\ e.gone = astray
  BY <1>5, <1>6, EnvFields, InvFacts
<1>8. stores' \in 0 .. MaxStores
  BY <1>0 DEF Inv
<1>9. CASE w.st \notin {"run", "stolen"}
  <2>1. node' = w.node /\ PhaseKept(w.node)
    BY <1>0, <1>4, <1>9 DEF PhaseKept
  <2> QED
    BY <1>0, <1>4, <1>7, <1>8, <2>1, Ended
<1>10. CASE w.st \in {"run", "stolen"}
  <2>1. PICK f \in Frames(w) : node' = [w.node EXCEPT ![f] = n]
    BY <1>4, <1>10
  <2>2. /\ f \in Frame /\ w.node[f].oid = NoOid /\ Fine(w, e) /\ FramesOK(w.node)
        /\ w.node \in [Frame -> NodeFrame] /\ Skips(w)
    <3>1. f \in Frame /\ w.node[f].oid = NoOid
      BY DEF Frames
    <3>2. Fine(w, e) /\ FramesOK(w.node)
      BY <1>7 DEF Good, Fine
    <3>3. Skips(w)
      BY <1>7, <1>10 DEF Good
    <3>4. w.node \in [Frame -> NodeFrame]
      BY <1>5 DEF WorkSet
    <3> QED
      BY <3>1, <3>2, <3>3, <3>4
  <2>3. w.node[f] = FreeFrame
    BY <2>2 DEF FramesOK
  <2>4. o # NoOid /\ \A g \in Frame : node[g].oid # o
    BY <1>0, ConstantsAssumption DEF Cached
  <2>5. \A g \in Frame : w.node[g].oid # o
    BY <1>5, <2>4
  <2>6. LoggedAt(Now, disk, o) = Logged(o) /\ Logged(o) \in Value
    <3>1. LoggedAt(Now, disk, o) = Logged(o)
      BY CurrentNow
    <3>2. PICK x : x = Now
      OBVIOUS
    <3>3. x \in WorkSet /\ disk \in [Lid -> Pot]
      BY <3>2, InvFacts
    <3>4. LoggedAt(x, disk, o) \in Value
      BY <3>3, LoggedValue
    <3> QED
      BY <3>1, <3>2, <3>4
  <2>7. /\ n \in NodeFrame /\ n.oid = o /\ n.val = Logged(o) /\ n.kro = FALSE /\ ~n.old
    BY <1>3, <2>6 DEF NodeFrame
  <2>8. FitsFrame(w, f, n)
    <3>1. FreeFrame.kro = FALSE /\ FreeFrame.oid = NoOid
      BY DEF FreeFrame
    <3> QED
      BY <2>3, <2>4, <2>5, <2>7, <3>1 DEF FitsFrame
  <2>9. FitsSeen(w, e, n)
    <3>1. Seen(w, e)
      BY <2>2 DEF Fine
    <3>2. o \notin w.astray => LoggedAt(w, e.disk, o) = e.cur[o]
      BY <2>5, <3>1 DEF Seen
    <3>3. Current[o] = Logged(o)
      BY <1>0 DEF Current
    <3> QED
      BY <1>7, <2>7, <3>2, <3>3 DEF FitsSeen
  <2>10. PICK c : c = [w.node EXCEPT ![f] = n]
    OBVIOUS
  <2>11. c \in [Frame -> NodeFrame] /\ \A g \in Frame : c[g] = IF g = f THEN n ELSE w.node[g]
    BY <2>2, <2>7, <2>10
  <2>12. PICK u : u = [w EXCEPT !.node = c]
    OBVIOUS
  <2>13. /\ u \in WorkSet /\ SameLists(w, u) /\ u.node = c /\ u.st = w.st
    BY <1>5, <2>11, <2>12 DEF WorkSet, SameLists
  <2>14. SameBut(e, e, n.oid) /\ FrameChanged(w, u, f, n)
    BY <2>11, <2>13 DEF SameBut, FrameChanged
  <2>15. Fine(u, e) /\ Skips(u)
    BY <2>2, <2>7, <2>8, <2>9, <2>13, <2>14, FrameStep
  <2>16. Good(u, e)
    BY <2>15 DEF Good
  <2>17. Done(u) /\ node' = u.node /\ PhaseKept(u.node)
    BY <1>0, <1>4, <2>1, <2>10, <2>13 DEF Done, SameLists, PhaseKept
  <2> QED
    BY <1>0, <1>7, <1>8, <2>16, <2>17, Ended
<1> QED
  BY <1>9, <1>10

LEMMA GrabForOtherInv ==
    ASSUME Inv, GrabForOther
    PROVE  Inv' /\ StillSeen(Current)
<1>0. ~halted /\ UNCHANGED <<disk, ckptState, potsKRO, saved, snapshot, stores, committed>>
  BY DEF GrabForOther
<1>1. PICK grab \in 0 .. MaxGrab, curNode \in Frame :
        LET w == GrabNodeFrame(grab, curNode) IN Done(w) /\ node' = w.node
  BY DEF GrabForOther
<1>2. PICK w : w = GrabNodeFrame(grab, curNode)
  OBVIOUS
<1>3. PICK e : e = Env
  OBVIOUS
<1>4. Done(w) /\ node' = w.node /\ Good(w, e) /\ PhaseKept(w.node)
  BY <1>0, <1>1, <1>2, <1>3, GrabGood DEF PhaseKept
<1>5. /\ e.disk = disk /\ e.ckpt = ckptState /\ e.base = saved.logCursor
      /\ e.pic = snapshot /\ e.kro = KROFrames(node) /\ e.cur = Current
      /\ e.cur \in [Oid -> Value] /\ e.gone = astray
  BY <1>3, EnvFields, InvFacts
<1>6. stores' \in 0 .. MaxStores
  BY <1>0 DEF Inv
<1> QED
  BY <1>0, <1>4, <1>5, <1>6, Ended

LEMMA DoPhase2WorkInv ==
    ASSUME Inv, DoPhase2Work
    PROVE  Inv' /\ StillSeen(Current)
<1>0. /\ ~halted /\ ckptState = 2
      /\ UNCHANGED <<disk, potsKRO, saved, snapshot, stores, committed>>
  BY DEF DoPhase2Work
<1>1. PICK grab \in 0 .. MaxGrab :
        LET a == CleanKRONodes(Work(grab))
        IN Done(a) /\ node' = a.node /\ ckptState' = IF Going(a) THEN 3 ELSE 2
  BY DEF DoPhase2Work
<1>2. PICK w : w = Work(grab)
  OBVIOUS
<1>3. PICK a : a = CleanKRONodes(w)
  OBVIOUS
<1>4. Done(a) /\ node' = a.node /\ ckptState' = IF Going(a) THEN 3 ELSE 2
  BY <1>1, <1>2, <1>3
<1>5. PICK e : e = Env
  OBVIOUS
<1>6. Good(w, e) /\ Going(w) /\ w.ret
  BY <1>0, <1>2, <1>5, WorkGood
<1>7. Good(a, e) /\ (Going(a) => KROFrames(a.node) = {})
  BY <1>3, <1>6, CleanKROGood
<1>8. PhaseKept(a.node)
  BY <1>0, <1>4, <1>7 DEF PhaseKept
<1>9. /\ e.disk = disk /\ e.ckpt = ckptState /\ e.base = saved.logCursor
      /\ e.pic = snapshot /\ e.kro = KROFrames(node) /\ e.cur = Current
      /\ e.cur \in [Oid -> Value] /\ e.gone = astray
  BY <1>5, EnvFields, InvFacts
<1>10. stores' \in 0 .. MaxStores
  BY <1>0 DEF Inv
<1> QED
  BY <1>0, <1>4, <1>7, <1>8, <1>9, <1>10, Ended

LEMMA DeclareInv ==
    ASSUME Inv, DeclareDemarcationEvent
    PROVE  Inv' /\ Current' = Current
<1>0. /\ ~halted /\ ckptState = 0 /\ ckptState' = 1
      /\ UNCHANGED <<node, nodesToClean, KRONodeCleanCursor, numKRONodes, dir, pot,
                     inCore, queued, disk, logCursor, freeCleaning, potsKRO, halted,
                     saved, snapshot, stores, committed, astray>>
  BY DEF DeclareDemarcationEvent
<1>1. PICK u : u = Now
  OBVIOUS
<1>2. PICK e : e = Env
  OBVIOUS
<1>3. Good(u, e)
  BY <1>0, <1>1, <1>2, InvFacts
<1>4. Done(u) /\ node' = u.node /\ PhaseKept(u.node)
  <2>1. u.st = "run"
    BY <1>0, <1>1, NowFields
  <2> QED
    BY <1>0, <1>1, <2>1, NowFields DEF Done, PhaseKept, Inv
<1>5. /\ e.disk = disk /\ e.ckpt = ckptState /\ e.base = saved.logCursor
      /\ e.pic = snapshot /\ e.kro = KROFrames(node) /\ e.cur = Current
      /\ e.cur \in [Oid -> Value] /\ e.gone = astray
  BY <1>2, EnvFields, InvFacts
<1>6. stores' \in 0 .. MaxStores
  BY <1>0 DEF Inv
<1>7. Inv'
  BY <1>0, <1>3, <1>4, <1>5, <1>6, Ended
<1>8. Current' = Current
  BY <1>0 DEF Current, Cached, FrameOf, Logged
<1> QED
  BY <1>7, <1>8

LEMMA ReferenceInv ==
    ASSUME Inv, NEW f \in Frame, Reference(f)
    PROVE  Inv' /\ StillSeen(Current)
<1>0. /\ ~halted /\ node[f].old /\ node' = [node EXCEPT ![f].old = FALSE]
      /\ UNCHANGED <<nodesToClean, KRONodeCleanCursor, numKRONodes, dir, pot,
                     inCore, queued, disk, logCursor, freeCleaning, ckptState,
                     potsKRO, halted, saved, snapshot, stores, committed, astray>>
  BY DEF Reference
<1>1. PICK w : w = Now
  OBVIOUS
<1>2. PICK e : e = Env
  OBVIOUS
<1>3. /\ w \in WorkSet /\ Fine(w, e) /\ Skips(w) /\ w.node = node /\ w.st = "run"
      /\ node \in [Frame -> NodeFrame] /\ FramesOK(node)
  <2>1. w \in WorkSet /\ Fine(w, e) /\ Skips(w) /\ node \in [Frame -> NodeFrame]
    BY <1>0, <1>1, <1>2, InvFacts DEF VariableSets
  <2>2. w.node = node /\ w.st = "run"
    BY <1>0, <1>1, NowFields
  <2> QED
    BY <2>1, <2>2 DEF Fine
<1>4. PICK r : r = [node[f] EXCEPT !.old = FALSE]
  OBVIOUS
<1>5. /\ r \in NodeFrame /\ r.oid = node[f].oid /\ r.val = node[f].val
      /\ r.dirty = node[f].dirty /\ r.kro = node[f].kro /\ ~r.old
  <2>1. PICK q : q = node[f]
    OBVIOUS
  <2>2. q \in NodeFrame
    BY <1>3, <2>1
  <2> QED
    BY <1>4, <2>1, <2>2 DEF NodeFrame
<1>6. node[f].oid # NoOid
  <2>1. ~FreeFrame.old
    BY DEF FreeFrame
  <2> QED
    BY <1>0, <1>3, <2>1 DEF FramesOK
<1>7. FitsFrame(w, f, r)
  BY <1>3, <1>5, <1>6 DEF FitsFrame, FramesOK
<1>8. FitsSeen(w, e, r)
  <2>1. Seen(w, e)
    BY <1>3 DEF Fine
  <2>2. r.oid \in Oid
    BY <1>3, <1>5, <1>6 DEF NodeFrame
  <2>3. r.val = e.cur[r.oid]
    BY <1>3, <1>5, <1>6, <2>1 DEF Seen
  <2>4. \A g \in Frame : node[g].oid = r.oid => g = f
    BY <1>3, <1>5, <1>6 DEF FramesOK
  <2>5. ~r.dirty /\ r.oid \notin w.astray => LoggedAt(w, e.disk, r.oid) = e.cur[r.oid]
    BY <1>3, <1>5, <2>1, <2>2, <2>4 DEF Seen
  <2> QED
    BY <2>3, <2>5 DEF FitsSeen
<1>9. PICK c : c = [node EXCEPT ![f] = r]
  OBVIOUS
<1>10. c \in [Frame -> NodeFrame] /\ \A g \in Frame : c[g] = IF g = f THEN r ELSE node[g]
  BY <1>3, <1>5, <1>9
<1>11. PICK u : u = [w EXCEPT !.node = c]
  OBVIOUS
<1>12. u \in WorkSet /\ SameLists(w, u) /\ u.node = c /\ u.st = "run"
  BY <1>3, <1>10, <1>11 DEF WorkSet, SameLists
<1>13. SameBut(e, e, r.oid) /\ FrameChanged(w, u, f, r)
  BY <1>3, <1>10, <1>12 DEF SameBut, FrameChanged
<1>14. Fine(u, e) /\ Skips(u)
  BY <1>3, <1>5, <1>7, <1>8, <1>12, <1>13, FrameStep
<1>15. node' = u.node /\ PhaseKept(u.node)
  BY <1>0, <1>4, <1>9, <1>12 DEF PhaseKept
<1>16. Done(u)
  <2>1. /\ u.list = nodesToClean /\ u.cursor = KRONodeCleanCursor /\ u.nKRO = numKRONodes
        /\ u.dir = dir /\ u.pot = pot /\ u.inCore = inCore /\ u.queued = queued
        /\ u.log = logCursor /\ u.free = freeCleaning /\ u.astray = astray
    BY <1>1, <1>12, NowFields DEF SameLists
  <2>2. halted' = FALSE
    BY <1>0 DEF Inv
  <2> QED
    BY <1>0, <1>12, <2>1, <2>2 DEF Done
<1>17. /\ e.disk = disk /\ e.ckpt = ckptState /\ e.base = saved.logCursor
      /\ e.pic = snapshot /\ e.kro = KROFrames(node) /\ e.cur = Current
      /\ e.cur \in [Oid -> Value] /\ e.gone = astray
  BY <1>2, EnvFields, InvFacts
<1>18. stores' \in 0 .. MaxStores
  BY <1>0 DEF Inv
<1>19. Good(u, e)
  BY <1>14 DEF Good
<1> QED
  BY <1>0, <1>15, <1>16, <1>17, <1>18, <1>19, Ended

LEMMA StealPotInv ==
    ASSUME Inv, NEW l \in Lid, StealPot(l)
    PROVE  Inv' /\ StillSeen(Current)
<1>0. /\ ~halted /\ l \in inCore \ queued /\ inCore' = inCore \ {l}
      /\ pot' = [pot EXCEPT ![l] = NullPot]
      /\ potsKRO' = potsKRO \ {l}
      /\ UNCHANGED <<node, nodesToClean, KRONodeCleanCursor, numKRONodes, dir,
                     queued, disk, logCursor, freeCleaning, ckptState, halted,
                     saved, snapshot, stores, committed, astray>>
  BY DEF StealPot
<1>1. PICK w : w = Now
  OBVIOUS
<1>2. PICK e : e = Env
  OBVIOUS
<1>3. /\ w \in WorkSet /\ Fine(w, e) /\ Skips(w) /\ w.st = "run"
      /\ w.pot = pot /\ w.inCore = inCore /\ w.queued = queued
      /\ pot \in [Lid -> Pot] /\ inCore \subseteq Lid
  <2>1. w \in WorkSet /\ Fine(w, e) /\ Skips(w) /\ pot \in [Lid -> Pot] /\ inCore \subseteq Lid
    BY <1>0, <1>1, <1>2, InvFacts DEF VariableSets
  <2>2. w.st = "run" /\ w.pot = pot /\ w.inCore = inCore /\ w.queued = queued
    BY <1>0, <1>1, NowFields
  <2> QED
    BY <2>1, <2>2
<1>4. PICK P : P = [pot EXCEPT ![l] = NullPot]
  OBVIOUS
<1>5. PICK I : I = inCore \ {l}
  OBVIOUS
<1>6. P \in [Lid -> Pot] /\ I \in SUBSET Lid
  <2>1. NullPot \in Pot
    BY ConstantsAssumption DEF NullPot, Pot
  <2> QED
    BY <1>3, <1>4, <1>5, <2>1
<1>7. PICK u : u = [w EXCEPT !.pot = P, !.inCore = I]
  OBVIOUS
<1>8. /\ u \in WorkSet /\ u.node = w.node /\ u.list = w.list /\ u.cursor = w.cursor
      /\ u.nKRO = w.nKRO /\ u.dir = w.dir /\ u.pot = P /\ u.inCore = I
      /\ u.queued = w.queued /\ u.log = w.log /\ u.free = w.free /\ u.st = "run"
      /\ u.saving = w.saving /\ u.astray = w.astray
  BY <1>3, <1>6, <1>7 DEF WorkSet
<1>9. LogOK(u, e)
  BY <1>0, <1>3, <1>5, <1>8 DEF Fine, LogOK
<1>10. ASSUME NEW o \in Oid \ w.astray, w.dir[o].lid \in Lid
       PROVE  PotAt(u, e.disk, w.dir[o].lid) = PotAt(w, e.disk, w.dir[o].lid)
  <2>1. PICK k : k = w.dir[o].lid
    OBVIOUS
  <2>2. CASE k = l
    <3>1. e.disk[l] = pot[l]
      BY <1>0, <1>3, <2>1, <2>2 DEF Fine, WrittenOut
    <3> QED
      BY <1>0, <1>3, <1>5, <1>8, <2>1, <2>2, <3>1 DEF PotAt
  <2>3. CASE k # l
    BY <1>3, <1>4, <1>5, <1>8, <1>10, <2>1, <2>3 DEF PotAt
  <2> QED
    BY <2>2, <2>3
<1>11. ASSUME NEW o \in Oid \ w.astray
       PROVE  LoggedAt(u, e.disk, o) = LoggedAt(w, e.disk, o)
  <2>1. w.dir[o] \in {Home, NullPlace} \/ w.dir[o].lid \in Lid
    <3>1. w.dir[o] \in Place
      BY <1>3 DEF WorkSet
    <3> QED
      BY <3>1 DEF Place
  <2> QED
    BY <1>8, <1>10, <2>1 DEF LoggedAt
<1>12. WrittenOut(u, e) /\ Seen(u, e)
  <2>1. WrittenOut(w, e) /\ Seen(w, e)
    BY <1>3 DEF Fine
  <2>2. WrittenOut(u, e)
    BY <1>3, <1>4, <1>5, <1>8, <2>1 DEF WrittenOut
  <2>3. Seen(u, e)
    BY <1>8, <1>11, <2>1 DEF Seen
  <2> QED
    BY <2>2, <2>3
<1>13. e.ckpt \in {2, 3} => Pictured(u, e)
  BY <1>3, <1>8, <1>11 DEF Fine, Pictured
<1>14. Fine(u, e)
  BY <1>3, <1>8, <1>9, <1>12, <1>13 DEF Fine
<1>15. Good(u, e)
  BY <1>3, <1>8, <1>14 DEF Good, Skips
<1>16. Done(u) /\ node' = u.node /\ PhaseKept(u.node)
  <2>1. /\ w.list = nodesToClean /\ w.cursor = KRONodeCleanCursor /\ w.nKRO = numKRONodes
        /\ w.dir = dir /\ w.queued = queued /\ w.log = logCursor /\ w.free = freeCleaning
        /\ w.node = node /\ w.astray = astray
    BY <1>1, NowFields
  <2>2. halted' = FALSE
    BY <1>0 DEF Inv
  <2> QED
    BY <1>0, <1>4, <1>5, <1>8, <2>1, <2>2 DEF Done, PhaseKept
<1>17. /\ e.disk = disk /\ e.ckpt = ckptState /\ e.base = saved.logCursor
      /\ e.pic = snapshot /\ e.kro = KROFrames(node) /\ e.cur = Current
      /\ e.cur \in [Oid -> Value] /\ e.gone = astray
  BY <1>2, EnvFields, InvFacts
<1>18. stores' \in 0 .. MaxStores
  BY <1>0 DEF Inv
<1> QED
  BY <1>0, <1>15, <1>16, <1>17, <1>18, Ended

LEMMA StoreInv ==
    ASSUME Inv, NEW f \in Frame, NEW x \in Value, Store(f, x)
    PROVE  /\ Inv'
           /\ \/ StillSeen(Current)
              \/ /\ stores' = stores + 1 /\ node[f].oid \in Oid
                 /\ StillSeen([Current EXCEPT ![node[f].oid] = x])
<1>0. /\ ~halted /\ node[f].oid # NoOid /\ ~node[f].old /\ x # node[f].val
      /\ stores < MaxStores
      /\ UNCHANGED <<disk, ckptState, potsKRO, saved, snapshot, committed>>
      /\ stores' = IF node'[f].val = x THEN stores + 1 ELSE stores
  BY DEF Store
<1>1. PICK grab \in 0 .. MaxGrab :
        LET w == Work(grab)
            a == IF node[f].kro THEN node_MitigateKRO(w, f) ELSE w
        IN /\ Done(a)
           /\ node' = IF Going(a)
                      THEN [a.node EXCEPT ![f].val = x, ![f].dirty = TRUE]
                      ELSE a.node
  BY DEF Store
<1>2. PICK w : w = Work(grab)
  OBVIOUS
<1>3. PICK a : a = IF node[f].kro THEN node_MitigateKRO(w, f) ELSE w
  OBVIOUS
<1>4. /\ Done(a)
      /\ node' = IF Going(a) THEN [a.node EXCEPT ![f].val = x, ![f].dirty = TRUE]
                 ELSE a.node
  BY <1>1, <1>2, <1>3
<1>5. PICK e : e = Env
  OBVIOUS
<1>6. /\ e.disk = disk /\ e.ckpt = ckptState /\ e.base = saved.logCursor
      /\ e.pic = snapshot /\ e.kro = KROFrames(node) /\ e.cur = Current
      /\ e.cur \in [Oid -> Value] /\ Current \in [Oid -> Value] /\ e.gone = astray
  BY <1>5, EnvFields, InvFacts
<1>7. Good(w, e) /\ Going(w) /\ w.node = node /\ w \in WorkSet
  BY <1>0, <1>2, <1>5, WorkGood
<1>8. Good(a, e) /\ Alike(w, a) /\ (Going(a) => ~a.node[f].kro)
  <2>1. CASE node[f].kro
    <3>1. a = node_MitigateKRO(w, f)
      BY <1>3, <2>1
    <3> QED
      BY <1>7, <3>1, MitigateGood
  <2>2. CASE ~node[f].kro
    BY <1>3, <1>7, <2>2 DEF Alike
  <2> QED
    BY <2>1, <2>2
<1>9. /\ a \in WorkSet /\ Fine(a, e) /\ a.node \in [Frame -> NodeFrame]
      /\ FramesOK(a.node)
  <2>1. a \in WorkSet /\ Fine(a, e) /\ FramesOK(a.node)
    BY <1>8 DEF Good, Fine
  <2> QED
    BY <2>1 DEF WorkSet
<1>10. a.node[f].oid = node[f].oid /\ a.node[f].val = node[f].val /\ ~a.node[f].old
  BY <1>0, <1>7, <1>8 DEF Alike
<1>11. stores \in 0 .. MaxStores /\ MaxStores \in Nat
  BY ConstantsAssumption DEF Inv
<1>12. stores' \in 0 .. MaxStores
  BY <1>0, <1>11
<1>13. CASE ~Going(a)
  <2>1. node' = a.node /\ PhaseKept(a.node)
    BY <1>0, <1>4, <1>13 DEF PhaseKept
  <2>2. Inv' /\ StillSeen(e.cur)
    BY <1>0, <1>4, <1>6, <1>8, <1>12, <2>1, Ended
  <2> QED
    BY <1>6, <2>2
<1>14. CASE Going(a)
  <2>1. PICK o : o = node[f].oid
    OBVIOUS
  <2>2. o \in Oid /\ o # NoOid
    BY <1>0, <1>9, <1>10, <2>1 DEF NodeFrame
  <2>3. PICK r : r = [a.node[f] EXCEPT !.val = x, !.dirty = TRUE]
    OBVIOUS
  <2>4. /\ r \in NodeFrame /\ r.oid = o /\ r.val = x /\ r.dirty
        /\ r.kro = a.node[f].kro /\ ~r.old
    <3>1. PICK q : q = a.node[f]
      OBVIOUS
    <3>2. q \in NodeFrame
      BY <1>9, <3>1
    <3> QED
      BY <1>10, <2>1, <2>3, <3>1, <3>2 DEF NodeFrame
  <2>5. PICK E : E = [e.cur EXCEPT ![o] = x]
    OBVIOUS
  <2>6. E \in [Oid -> Value] /\ E[o] = x /\ \A p \in Oid : p # o => E[p] = e.cur[p]
    BY <1>6, <2>2, <2>5
  <2>7. PICK d : d = [e EXCEPT !.cur = E]
    OBVIOUS
  <2>8. /\ d.disk = e.disk /\ d.ckpt = e.ckpt /\ d.base = e.base /\ d.pic = e.pic
        /\ d.kro = e.kro /\ d.cur = E /\ d.gone = e.gone
    BY <1>5, <2>7 DEF Env
  <2>9. SameBut(e, d, r.oid)
    BY <2>4, <2>6, <2>8 DEF SameBut
  <2>10. FitsFrame(a, f, r)
    <3>1. ~r.kro
      BY <1>8, <1>14, <2>4
    <3> QED
      BY <1>9, <1>10, <2>1, <2>2, <2>4, <3>1 DEF FitsFrame, FramesOK
  <2>11. FitsSeen(a, d, r)
    BY <2>4, <2>6, <2>8 DEF FitsSeen
  <2>12. PICK c : c = [a.node EXCEPT ![f] = r]
    OBVIOUS
  <2>13. c \in [Frame -> NodeFrame] /\ \A g \in Frame : c[g] = IF g = f THEN r ELSE a.node[g]
    BY <1>9, <2>4, <2>12
  <2>14. PICK u : u = [a EXCEPT !.node = c]
    OBVIOUS
  <2>15. u \in WorkSet /\ SameLists(a, u) /\ u.node = c /\ u.st = a.st
    BY <1>9, <2>13, <2>14 DEF WorkSet, SameLists
  <2>16. FrameChanged(a, u, f, r)
    BY <2>13, <2>15 DEF FrameChanged
  <2>17. Fine(u, d) /\ (Skips(a) => Skips(u))
    BY <1>9, <2>4, <2>9, <2>10, <2>11, <2>15, <2>16, FrameStep
  <2>18. Good(u, d)
    BY <1>8, <2>15, <2>17 DEF Good
  <2>19. node' = c
    <3>1. node' = [a.node EXCEPT ![f].val = x, ![f].dirty = TRUE]
      BY <1>4, <1>14
    <3> QED
      BY <1>9, <2>3, <2>12, <3>1
  <2>20. Done(u) /\ node' = u.node /\ PhaseKept(u.node)
    BY <1>0, <1>4, <2>15, <2>19 DEF Done, SameLists, PhaseKept
  <2>21. Inv' /\ StillSeen(d.cur)
    BY <1>0, <1>6, <1>12, <2>6, <2>8, <2>18, <2>20, Ended
  <2>22. stores' = stores + 1
    <3>1. node'[f].val = x
      BY <2>4, <2>13, <2>19
    <3> QED
      BY <1>0, <3>1
  <2> QED
    BY <1>6, <2>1, <2>2, <2>5, <2>8, <2>21, <2>22
<1> QED
  BY <1>13, <1>14

\* The next state is as the record v says, in the environment e.
LEMMA EndedWith ==
    ASSUME NEW v, v = Now', v \in WorkSet, NEW e, Good(v, e),
           e.disk = disk', e.disk \in [Lid -> Pot], e.base = (saved').logCursor,
           e.base \in 1 .. MaxLid + 1, e.pic = snapshot', e.ckpt = ckptState',
           e.ckpt \in 0 .. 3, e.pic \in [Oid -> Value] \cup {NoPicture},
           e.cur \in [Oid -> Value]
    PROVE  /\ (Good(Now, Env) /\ Env \in EnvSet)'
           /\ \A o \in Oid \ astray' : Current'[o] = e.cur[o]
<1>1. PICK d : d = Env'
  OBVIOUS
<1>2. /\ d.disk = disk' /\ d.ckpt = ckptState' /\ d.base = (saved').logCursor
      /\ d.cur = Current' /\ d.pic = snapshot' /\ d.kro = KROFrames(node')
      /\ d.gone = astray'
  BY <1>1, EnvNextFields
<1>3. SameEnv(e, d) /\ SameEnd(v, v)
  BY <1>2 DEF SameEnv, SameEnd, SameStore
<1>4. /\ d.cur = CurrentAt(v, d.disk) /\ d.kro = KROFrames(v.node)
      /\ d.gone = v.astray /\ v.astray = astray'
  BY <1>2, CurrentNext, NowNextFields
<1>5. /\ Good(v, d) /\ d.cur \in [Oid -> Value]
      /\ \A o \in Oid \ v.astray : d.cur[o] = e.cur[o]
  BY <1>3, <1>4, Settled
<1>6. Env' \in EnvSet
  <2>1. KROFrames(node') \in SUBSET Frame /\ astray' \in SUBSET Oid
    BY <1>4, FrameFacts DEF WorkSet
  <2> QED
    BY <1>2, <1>5, <2>1 DEF Env, EnvSet
<1> QED
  BY <1>1, <1>2, <1>4, <1>5, <1>6

LEMMA DoPhase1WorkInv ==
    ASSUME Inv, DoPhase1Work
    PROVE  Inv' /\ StillSeen(Current)
<1>0. /\ ~halted /\ ckptState = 1 /\ KRONodeCleanCursor' = 1
      /\ node' = [f \in Frame |-> [node[f] EXCEPT !.kro = MadeKRO(node[f])]]
      /\ numKRONodes' = numKRONodes + Cardinality({f \in Frame : MadeKRO(node[f])})
      /\ potsKRO' = potsKRO \cup queued /\ halted' \in BOOLEAN
      /\ ckptState' = 2 /\ snapshot' = Current
      /\ UNCHANGED <<nodesToClean, dir, pot, inCore, queued, disk, logCursor,
                     freeCleaning, saved, stores, committed, astray>>
  BY DEF DoPhase1Work
<1>1. PICK w : w = Now
  OBVIOUS
<1>2. PICK e : e = Env
  OBVIOUS
<1>3. PICK v : v = Now'
  OBVIOUS
<1>4. PICK d : d = [disk |-> disk, ckpt |-> 2, base |-> saved.logCursor, cur |-> Current,
                    pic |-> Current, kro |-> KROFrames(node'), gone |-> astray]
  OBVIOUS
<1>5. /\ d.disk = disk /\ d.ckpt = 2 /\ d.base = saved.logCursor /\ d.cur = Current
      /\ d.pic = Current /\ d.kro = KROFrames(node') /\ d.gone = astray
  BY <1>4
<1>6. /\ e.disk = disk /\ e.ckpt = ckptState /\ e.base = saved.logCursor
      /\ e.cur = Current
  BY <1>2, EnvFields
<1>7. /\ w \in WorkSet /\ Fine(w, e) /\ w.node = node /\ node \in [Frame -> NodeFrame]
      /\ FramesOK(node) /\ w.nKRO = numKRONodes /\ VariableSets
  <2>1. w \in WorkSet /\ Fine(w, e) /\ VariableSets
    BY <1>1, <1>2, InvFacts
  <2>2. w.node = node /\ w.nKRO = numKRONodes
    BY <1>1, NowFields
  <2> QED
    BY <2>1, <2>2 DEF Fine, VariableSets
<1>8. ASSUME NEW f \in Frame
      PROVE  /\ node'[f] \in NodeFrame /\ node'[f].oid = node[f].oid
             /\ node'[f].val = node[f].val /\ node'[f].dirty = node[f].dirty
             /\ node'[f].kro = node[f].dirty /\ node'[f].old = node[f].old
             /\ node[f] = FreeFrame => node'[f] = FreeFrame
  <2>1. PICK q : q = node[f]
    OBVIOUS
  <2>2. q \in NodeFrame /\ node'[f] = [q EXCEPT !.kro = q.dirty]
    BY <1>0, <1>7, <2>1 DEF MadeKRO
  <2>3. /\ node'[f] \in NodeFrame /\ node'[f].oid = q.oid
        /\ node'[f].val = q.val /\ node'[f].dirty = q.dirty
        /\ node'[f].kro = q.dirty /\ node'[f].old = q.old
    BY ONLY <2>2 DEF NodeFrame
  <2>4. q = FreeFrame => node'[f] = FreeFrame
    <3>1. node'[f] = [oid |-> q.oid, val |-> q.val, dirty |-> q.dirty, kro |-> q.dirty,
                      old |-> q.old]
      BY ONLY <2>2 DEF NodeFrame
    <3> QED
      BY ONLY <3>1 DEF FreeFrame
  <2> QED
    BY <2>1, <2>3, <2>4
<1>9. node' \in [Frame -> NodeFrame]
  <2>1. node' = [f \in Frame |-> node'[f]]
    BY <1>0
  <2> QED
    BY <1>8, <2>1
<1>10. FramesOK(node')
  BY <1>7, <1>8 DEF FramesOK
<1>11. numKRONodes' = Cardinality(KROFrames(node')) /\ numKRONodes' \in Nat
  <2>1. KROFrames(node) = {}
    BY <1>0 DEF Inv, Phases
  <2>2. numKRONodes = 0
    <3>1. numKRONodes = Cardinality(KROFrames(node))
      BY <1>7 DEF Fine
    <3> QED
      BY <2>1, <3>1, FS_EmptySet
  <2>3. {f \in Frame : MadeKRO(node[f])} = KROFrames(node')
    <3>1. \A f \in Frame : MadeKRO(node[f]) <=> node'[f].kro
      BY <1>8 DEF MadeKRO
    <3> QED
      BY <3>1 DEF KROFrames
  <2>4. Cardinality(KROFrames(node')) \in Nat
    BY FrameFacts
  <2> QED
    <3>1. numKRONodes' = 0 + Cardinality(KROFrames(node'))
      BY <1>0, <2>2, <2>3
    <3> QED
      BY <2>4, <3>1
<1>12. v \in WorkSet
  <2>1. 1 \in 1 .. NFrames + 1
    BY ConstantsAssumption
  <2>2. VariableSets'
    BY <1>0, <1>7, <1>9, <1>11, <2>1 DEF VariableSets
  <2> QED
    BY <1>3, <2>2, NowNextInSet
<1>13. /\ v.node = node' /\ v.list = w.list /\ v.cursor = 1 /\ v.nKRO = numKRONodes'
       /\ v.dir = w.dir /\ v.pot = w.pot /\ v.inCore = w.inCore /\ v.queued = w.queued
       /\ v.log = w.log /\ v.free = w.free /\ v.astray = w.astray /\ v.astray = astray
       /\ v.saving
  BY <1>0, <1>1, <1>3, NowFields, NowNextFields
<1>14. Good(v, d)
  <2>1. LogOK(v, d)
    BY <1>5, <1>6, <1>7, <1>13 DEF Fine, LogOK
  <2>2. \A o : LoggedAt(v, d.disk, o) = LoggedAt(w, e.disk, o)
    BY <1>5, <1>6, <1>13 DEF LoggedAt, PotAt
  <2>3. WrittenOut(v, d) /\ Seen(v, d)
    <3>1. WrittenOut(w, e) /\ Seen(w, e)
      BY <1>7 DEF Fine
    <3>2. WrittenOut(v, d)
      BY <1>5, <1>6, <1>13, <3>1 DEF WrittenOut
    <3>3. ASSUME NEW f \in Frame, node'[f].oid # NoOid
          PROVE  node'[f].val = d.cur[node'[f].oid]
      BY <1>5, <1>6, <1>7, <1>8, <3>1, <3>3 DEF Seen
    <3>4. ASSUME NEW o \in Oid \ w.astray,
                 \A f \in Frame : node'[f].oid = o => ~node'[f].dirty
          PROVE  LoggedAt(v, d.disk, o) = d.cur[o]
      BY <1>5, <1>6, <1>7, <1>8, <2>2, <3>1, <3>4 DEF Seen
    <3> QED
      BY <1>13, <3>2, <3>3, <3>4 DEF Seen
  <2>4. Pictured(v, d)
    <3>0. Seen(v, d)
      BY <2>3
    <3>1. ASSUME NEW f \in Frame, node'[f].kro
          PROVE  node'[f].val = d.pic[node'[f].oid]
      <4>1. node'[f].oid # NoOid
        <5>1. ~FreeFrame.kro
          BY DEF FreeFrame
        <5> QED
          BY <1>10, <3>1, <5>1 DEF FramesOK
      <4> QED
        BY <1>5, <1>13, <3>0, <4>1 DEF Seen
    <3>2. ASSUME NEW o \in Oid \ v.astray,
                 \A f \in Frame : node'[f].oid = o => ~node'[f].kro
          PROVE  LoggedAt(v, d.disk, o) = d.pic[o]
      <4>1. \A f \in Frame : node'[f].oid = o => ~node'[f].dirty
        BY <1>8, <3>2
      <4> QED
        BY <1>5, <1>13, <3>0, <4>1 DEF Seen
    <3> QED
      BY <1>13, <3>1, <3>2 DEF Pictured
  <2>5. Skips(v)
    <3>1. \A f \in Frame : ~(f < 1)
      BY DEF Frame
    <3> QED
      BY <1>13, <3>1 DEF Skips
  <2>6. ListOK(v.list)
    BY <1>7, <1>13 DEF Fine
  <2>8. (v.saving <=> d.ckpt \in {2, 3}) /\ d.gone \subseteq v.astray
    BY <1>5, <1>13
  <2>7. Fine(v, d)
    BY <1>5, <1>10, <1>11, <1>12, <1>13, <2>1, <2>3, <2>4, <2>6, <2>8 DEF Fine
  <2> QED
    BY <2>5, <2>7 DEF Good
<1>15. /\ (Good(Now, Env) /\ Env \in EnvSet)'
       /\ \A o \in Oid \ astray' : Current'[o] = Current[o]
  <2>1. disk \in [Lid -> Pot] /\ saved.logCursor \in 1 .. MaxLid + 1
        /\ Current \in [Oid -> Value]
    BY InvFacts
  <2>2. /\ d.disk = disk' /\ d.base = (saved').logCursor /\ d.pic = snapshot'
        /\ d.ckpt = ckptState' /\ d.ckpt \in 0 .. 3
    BY <1>0, <1>5
  <2> QED
    BY <1>3, <1>5, <1>12, <1>14, <2>1, <2>2, EndedWith
<1>16. Phases'
  BY <1>0, InvFacts DEF Phases
<1>17. Stable'
  <2>1. Stable
    BY DEF Inv
  <2> QED
    BY <1>0, <2>1 DEF Stable, Recoverable, OnDisk
<1>18. halted' \in BOOLEAN /\ stores' \in 0 .. MaxStores /\ potsKRO' \subseteq Lid
  BY <1>0, <1>7 DEF Inv, VariableSets
<1>19. StillSeen(Current)
  BY <1>0, <1>15 DEF StillSeen
<1> QED
  BY <1>15, <1>16, <1>17, <1>18, <1>19 DEF Inv

LEMMA StabilizeInv ==
    ASSUME Inv, Stabilize
    PROVE  Inv' /\ Current' = Current
<1>0. /\ ~halted /\ ckptState = 3 /\ queued = {}
      /\ saved' = [dir |-> dir, logCursor |-> logCursor]
      /\ ckptState' = 0 /\ committed' = snapshot /\ snapshot' = NoPicture
      /\ UNCHANGED <<node, nodesToClean, KRONodeCleanCursor, numKRONodes, dir, pot,
                     inCore, queued, disk, logCursor, freeCleaning, potsKRO, halted,
                     stores, astray>>
  BY DEF Stabilize, AllWritten
<1>1. PICK w : w = Now
  OBVIOUS
<1>2. PICK e : e = Env
  OBVIOUS
<1>3. PICK v : v = Now'
  OBVIOUS
<1>4. PICK d : d = [disk |-> disk, ckpt |-> 0, base |-> logCursor, cur |-> Current,
                    pic |-> NoPicture, kro |-> KROFrames(node), gone |-> astray]
  OBVIOUS
<1>5. /\ d.disk = disk /\ d.ckpt = 0 /\ d.base = logCursor /\ d.cur = Current
      /\ d.pic = NoPicture /\ d.kro = KROFrames(node) /\ d.gone = astray
  BY <1>4
<1>6. /\ e.disk = disk /\ e.ckpt = ckptState /\ e.base = saved.logCursor
      /\ e.cur = Current /\ e.pic = snapshot /\ e.kro = KROFrames(node)
  BY <1>2, EnvFields
<1>7. /\ w \in WorkSet /\ Fine(w, e) /\ Skips(w) /\ VariableSets
      /\ disk \in [Lid -> Pot] /\ Current \in [Oid -> Value]
  BY <1>0, <1>1, <1>2, InvFacts
<1>8. /\ w.node = node /\ w.queued = {} /\ w.log = logCursor /\ w.dir = dir
      /\ w.inCore = inCore /\ w.pot = pot /\ w.astray = astray
  BY <1>0, <1>1, NowFields
<1>18. /\ v.node = w.node /\ v.queued = w.queued /\ v.log = w.log /\ v.dir = w.dir
       /\ v.inCore = w.inCore /\ v.pot = w.pot /\ v.astray = w.astray /\ v.list = w.list
       /\ v.cursor = w.cursor /\ v.nKRO = w.nKRO /\ v.free = w.free /\ v.st = w.st
       /\ ~v.saving
  <2>1. ckptState' \notin {2, 3}
    BY <1>0
  <2>2. v.saving = (ckptState' \in {2, 3})
    BY <1>3, NowNextFields, Zenon
  <2>3. ~v.saving
    BY <2>1, <2>2, Zenon
  <2> QED
    BY <1>0, <1>1, <1>3, <2>3, NowFields, NowNextFields
<1>19. v \in WorkSet
  <2>1. VariableSets'
    BY <1>0, <1>7 DEF VariableSets
  <2> QED
    BY <1>3, <2>1, NowNextInSet
<1>9. logCursor \in 1 .. MaxLid + 1 /\ logCursor \in Nat
  <2>1. logCursor \in 1 .. MaxLid + 1 /\ MaxLid \in Nat
    BY <1>7, ConstantsAssumption DEF VariableSets
  <2> QED
    BY <2>1
<1>10. Good(v, d)
  <2>1. LogOK(v, d)
    <3>1. LogOK(w, e)
      BY <1>7 DEF Fine
    <3>2. d.base \in Nat /\ d.base <= w.log
      BY <1>5, <1>8, <1>9
    <3> QED
      BY <1>8, <1>18, <3>1, <3>2 DEF LogOK
  <2>0. \A o : LoggedAt(v, d.disk, o) = LoggedAt(w, e.disk, o)
    BY <1>5, <1>6, <1>18 DEF LoggedAt, PotAt
  <2>2. WrittenOut(v, d) /\ Seen(v, d)
    BY <1>5, <1>6, <1>7, <1>18, <2>0 DEF Fine, WrittenOut, Seen
  <2>3. Fine(v, d)
    <3>1. d.ckpt \notin {2, 3} /\ d.gone \subseteq v.astray
      BY <1>5, <1>8, <1>18
    <3>2. /\ FramesOK(v.node) /\ ListOK(v.list)
          /\ v.nKRO = Cardinality(KROFrames(v.node)) /\ KROFrames(v.node) \subseteq d.kro
      BY <1>5, <1>7, <1>8, <1>18 DEF Fine
    <3> QED
      BY <1>18, <1>19, <2>1, <2>2, <3>1, <3>2 DEF Fine
  <2>4. Skips(v)
    BY <1>7, <1>18 DEF Skips
  <2> QED
    BY <2>3, <2>4 DEF Good
<1>11. (Good(Now, Env) /\ Env \in EnvSet)'
  <2>1. /\ d.disk = disk' /\ d.disk \in [Lid -> Pot] /\ d.base = (saved').logCursor
        /\ d.base \in 1 .. MaxLid + 1 /\ d.pic = snapshot' /\ d.ckpt = ckptState'
        /\ d.ckpt \in 0 .. 3 /\ d.pic \in [Oid -> Value] \cup {NoPicture}
        /\ d.cur \in [Oid -> Value]
    BY <1>0, <1>5, <1>7, <1>9
  <2> QED
    BY <1>3, <1>10, <1>19, <2>1, EndedWith
<1>12. KROFrames(node) = {} /\ snapshot \in [Oid -> Value]
  BY <1>0 DEF Inv, Phases
<1>13. Phases'
  BY <1>0, <1>12 DEF Phases
<1>14. Recoverable'
  <2> SUFFICES ASSUME NEW o \in Oid \ w.astray PROVE OnDisk(o)' = committed'[o]
    BY <1>0, <1>8 DEF Recoverable
  <2>1. Pictured(w, e) /\ WrittenOut(w, e)
    BY <1>0, <1>6, <1>7 DEF Fine
  <2>2. LoggedAt(w, disk, o) = snapshot[o]
    <3>1. \A f \in Frame : ~node[f].kro
      BY <1>12 DEF KROFrames
    <3> QED
      BY <1>6, <1>8, <2>1, <3>1 DEF Pictured
  <2>3. (saved').dir = dir
    BY <1>0
  <2>4. CASE dir[o] \in {Home, NullPlace}
    BY <1>0, <1>8, <2>2, <2>3, <2>4 DEF OnDisk, LoggedAt
  <2>5. CASE dir[o] \notin {Home, NullPlace}
    <3>1. PICK k : k = dir[o].lid
      OBVIOUS
    <3>2. PotAt(w, disk, k) = disk[k]
      BY <1>6, <1>8, <2>1, <3>1 DEF PotAt, WrittenOut
    <3>3. LoggedAt(w, disk, o) = disk[k][dir[o].idx]
      BY <1>8, <2>5, <3>1, <3>2 DEF LoggedAt
    <3> QED
      BY <1>0, <2>2, <2>3, <2>5, <3>1, <3>3 DEF OnDisk
  <2> QED
    BY <2>4, <2>5
<1>15. Stable'
  <2>1. saved' \in [dir : [Oid -> Place], logCursor : 1 .. MaxLid + 1]
    BY <1>0, <1>7, <1>9 DEF VariableSets
  <2>2. \A o \in Oid : (saved').dir[o].lid < (saved').logCursor
    <3>1. (saved').dir = dir /\ (saved').logCursor = logCursor
      BY <1>0
    <3>2. \A o \in Oid : dir[o].lid < logCursor
      BY <1>7, <1>8 DEF Fine, LogOK
    <3> QED
      BY <3>1, <3>2
  <2> QED
    BY <1>0, <1>12, <1>14, <2>1, <2>2 DEF Stable
<1>16. halted' \in BOOLEAN /\ stores' \in 0 .. MaxStores /\ potsKRO' \subseteq Lid
  BY <1>0 DEF Inv
<1>17. Current' = Current
  BY <1>0 DEF Current, Cached, FrameOf, Logged
<1> QED
  BY <1>11, <1>13, <1>15, <1>16, <1>17 DEF Inv

LEMMA EndWriteInv ==
    ASSUME Inv, NEW l \in Lid, IOReq_EndWrite(l)
    PROVE  Inv' /\ StillSeen(Current)
<1>0. /\ ~halted /\ l \in queued /\ disk' = [disk EXCEPT ![l] = pot[l]]
      /\ queued' = queued \ {l} /\ freeCleaning' = freeCleaning + 1
      /\ UNCHANGED <<node, nodesToClean, KRONodeCleanCursor, numKRONodes, dir, pot,
                     inCore, logCursor, ckptState, potsKRO, halted, saved, stores,
                     snapshot, committed, astray>>
  BY DEF IOReq_EndWrite
<1>1. PICK w : w = Now
  OBVIOUS
<1>2. PICK e : e = Env
  OBVIOUS
<1>3. PICK v : v = Now'
  OBVIOUS
<1>4. PICK d : d = [disk |-> disk', ckpt |-> ckptState, base |-> saved.logCursor,
                    cur |-> Current, pic |-> snapshot, kro |-> KROFrames(node),
                    gone |-> astray]
  OBVIOUS
<1>5. /\ d.disk = disk' /\ d.ckpt = ckptState /\ d.base = saved.logCursor
      /\ d.cur = Current /\ d.pic = snapshot /\ d.kro = KROFrames(node)
      /\ d.gone = astray
  BY <1>4
<1>6. /\ e.disk = disk /\ e.ckpt = ckptState /\ e.base = saved.logCursor
      /\ e.cur = Current /\ e.pic = snapshot /\ e.kro = KROFrames(node)
  BY <1>2, EnvFields
<1>7. /\ w \in WorkSet /\ Fine(w, e) /\ Skips(w) /\ VariableSets
      /\ disk \in [Lid -> Pot] /\ Current \in [Oid -> Value] /\ ckptState \in 0 .. 3
      /\ snapshot \in [Oid -> Value] \cup {NoPicture} /\ LogOK(w, e)
      /\ saved \in [dir : [Oid -> Place], logCursor : 1 .. MaxLid + 1]
  BY <1>0, <1>1, <1>2, InvFacts DEF Fine
<1>8. /\ pot \in [Lid -> Pot] /\ queued \subseteq Lid /\ inCore \subseteq Lid
      /\ freeCleaning \in Nat
  BY <1>7 DEF VariableSets
<1>9. disk' \in [Lid -> Pot] /\ \A k \in Lid : disk'[k] = IF k = l THEN pot[k] ELSE disk[k]
  BY <1>0, <1>7, <1>8
<1>10. v \in WorkSet
  <2>1. VariableSets'
    BY <1>0, <1>7, <1>8 DEF VariableSets
  <2> QED
    BY <1>3, <2>1, NowNextInSet
<1>11. /\ v.node = w.node /\ v.list = w.list /\ v.cursor = w.cursor /\ v.nKRO = w.nKRO
       /\ v.dir = w.dir /\ v.pot = w.pot /\ v.inCore = w.inCore /\ v.log = w.log
       /\ v.queued = w.queued \ {l} /\ v.free = w.free + 1
       /\ w.node = node /\ w.inCore = inCore /\ w.queued = queued /\ w.pot = pot
       /\ w.free = freeCleaning /\ v.st = w.st /\ w.dir = dir
       /\ v.astray = w.astray /\ w.astray = astray
  BY <1>0, <1>1, <1>3, NowFields, NowNextFields
<1>12. l \in inCore
  BY <1>0, <1>7, <1>11 DEF LogOK
<1>13. LogOK(v, d)
  <2>1. v.free = NCleaning - Cardinality(v.queued)
    <3>1. PICK Q : Q = w.queued
      OBVIOUS
    <3>2. IsFiniteSet(Lid) /\ Q \in SUBSET Lid /\ l \in Q
      BY <1>0, <1>8, <1>11, <3>1, ConstantsAssumption, FS_Interval DEF Lid
    <3>3. IsFiniteSet(Q)
      BY ONLY <3>2, FS_Subset
    <3>4. Cardinality(Q \ {l}) = Cardinality(Q) - 1 /\ Cardinality(Q) \in Nat
      BY ONLY <3>2, <3>3, FS_RemoveElement, FS_CardinalityType
    <3>5. w.free = NCleaning - Cardinality(Q)
      BY <1>7, <3>1 DEF LogOK
    <3>6. NCleaning \in Nat
      BY ConstantsAssumption
    <3>7. v.free = w.free + 1 /\ v.queued = Q \ {l}
      BY <1>11, <3>1
    <3> QED
      BY <3>4, <3>5, <3>6, <3>7
  <2>2. v.queued \subseteq v.inCore /\ \A k \in v.queued : d.base <= k
    BY <1>5, <1>6, <1>7, <1>11 DEF LogOK
  <2> QED
    BY <1>5, <1>6, <1>7, <1>11, <2>1, <2>2 DEF LogOK
<1>14. \A k \in Lid : PotAt(v, d.disk, k) = PotAt(w, e.disk, k)
  <2> SUFFICES ASSUME NEW k \in Lid PROVE PotAt(v, d.disk, k) = PotAt(w, e.disk, k)
    OBVIOUS
  <2>1. CASE k = l
    BY <1>11, <1>12, <2>1 DEF PotAt
  <2>2. CASE k # l
    BY <1>5, <1>6, <1>9, <1>11, <2>2 DEF PotAt
  <2> QED
    BY <2>1, <2>2
<1>15. \A o \in Oid : LoggedAt(v, d.disk, o) = LoggedAt(w, e.disk, o)
  <2> SUFFICES ASSUME NEW o \in Oid PROVE LoggedAt(v, d.disk, o) = LoggedAt(w, e.disk, o)
    OBVIOUS
  <2>1. w.dir[o] \in {Home, NullPlace} \/ w.dir[o].lid \in Lid
    <3>1. w.dir[o] \in Place
      BY <1>7 DEF WorkSet
    <3> QED
      BY <3>1 DEF Place
  <2> QED
    BY <1>11, <1>14, <2>1 DEF LoggedAt
<1>16. Good(v, d)
  <2>1. WrittenOut(v, d)
    <3> SUFFICES ASSUME NEW o \in Oid \ w.astray,
                        dir[o].lid \in inCore \ (queued \ {l})
                 PROVE  disk'[dir[o].lid] = pot[dir[o].lid]
      BY <1>5, <1>11 DEF WrittenOut
    <3>0. PICK k : k = dir[o].lid
      OBVIOUS
    <3>1. k \in Lid /\ k \in inCore \ (queued \ {l})
      BY <1>8, <3>0
    <3>2. CASE k = l
      BY <1>9, <3>0, <3>1, <3>2
    <3>3. CASE k # l
      <4>1. WrittenOut(w, e)
        BY <1>7 DEF Fine
      <4>2. e.disk[k] = w.pot[k]
        BY <1>11, <3>0, <3>1, <3>3, <4>1 DEF WrittenOut
      <4> QED
        BY <1>6, <1>9, <1>11, <3>0, <3>1, <3>3, <4>2
    <3> QED
      BY <3>2, <3>3
  <2>2. Seen(v, d)
    <3>1. Seen(w, e)
      BY <1>7 DEF Fine
    <3> QED
      BY <1>5, <1>6, <1>11, <1>15, <3>1 DEF Seen
  <2>3. d.ckpt \in {2, 3} => Pictured(v, d)
    <3>1. e.ckpt \in {2, 3} => Pictured(w, e)
      BY <1>7 DEF Fine
    <3> QED
      BY <1>5, <1>6, <1>11, <1>15, <3>1 DEF Pictured
  <2>6. (v.saving <=> d.ckpt \in {2, 3}) /\ d.gone \subseteq v.astray
    <3>1. v.saving = (ckptState' \in {2, 3})
      BY <1>3, NowNextFields
    <3> QED
      BY <1>0, <1>5, <1>11, <3>1
  <2>4. /\ FramesOK(v.node) /\ ListOK(v.list)
        /\ v.nKRO = Cardinality(KROFrames(v.node)) /\ KROFrames(v.node) \subseteq d.kro
    BY <1>5, <1>6, <1>7, <1>11 DEF Fine
  <2>5. Fine(v, d)
    BY <1>10, <1>13, <2>1, <2>2, <2>3, <2>4, <2>6 DEF Fine
  <2> QED
    BY <1>7, <1>11, <2>5 DEF Good, Skips
<1>17. /\ (Good(Now, Env) /\ Env \in EnvSet)'
       /\ \A o \in Oid \ astray' : Current'[o] = Current[o]
  <2>1. /\ d.disk = disk' /\ d.disk \in [Lid -> Pot] /\ d.base = (saved').logCursor
        /\ d.base \in 1 .. MaxLid + 1 /\ d.pic = snapshot' /\ d.ckpt = ckptState'
        /\ d.ckpt \in 0 .. 3 /\ d.pic \in [Oid -> Value] \cup {NoPicture}
        /\ d.cur \in [Oid -> Value]
    BY <1>0, <1>5, <1>7, <1>9
  <2> QED
    BY <1>3, <1>5, <1>10, <1>16, <2>1, EndedWith
<1>18. Phases'
  BY <1>0 DEF Inv, Phases
<1>19. Stable'
  <2>1. Stable
    BY DEF Inv
  <2>2. ASSUME NEW o \in Oid PROVE OnDisk(o)' = OnDisk(o)
    <3>1. CASE saved.dir[o] \in {Home, NullPlace}
      BY <1>0, <3>1 DEF OnDisk
    <3>2. CASE saved.dir[o] \notin {Home, NullPlace}
      <4>1. PICK k : k = saved.dir[o].lid
        OBVIOUS
      <4>2. k \in Lid
        BY <1>7, <3>2, <4>1 DEF Place
      <4>3. k < saved.logCursor /\ saved.logCursor <= l
        BY <1>0, <1>6, <1>7, <1>11, <2>1, <4>1 DEF Stable, LogOK
      <4>4. saved.logCursor \in Int /\ k \in Int /\ l \in Int
        BY <1>7, <4>2 DEF Lid
      <4>5. k # l
        BY <4>3, <4>4
      <4>6. disk'[k] = disk[k]
        BY <1>9, <4>2, <4>5
      <4> QED
        BY <1>0, <3>2, <4>1, <4>6 DEF OnDisk
    <3> QED
      BY <3>1, <3>2
  <2> QED
    BY <1>0, <2>1, <2>2 DEF Stable, Recoverable
<1>20. halted' \in BOOLEAN /\ stores' \in 0 .. MaxStores /\ potsKRO' \subseteq Lid
  BY <1>0 DEF Inv
<1>21. StillSeen(Current)
  BY <1>0, <1>17 DEF StillSeen
<1> QED
  BY <1>17, <1>18, <1>19, <1>20, <1>21 DEF Inv

\* A cache that is empty is seen as what is in the log.
LEMMA EmptyGood ==
    ASSUME NEW v \in WorkSet, v.node = [f \in Frame |-> FreeFrame], v.list = <<>>,
           v.cursor = 1, v.nKRO = 0, v.inCore = {}, v.queued = {}, v.free = NCleaning,
           \A o \in Oid : v.dir[o].lid < v.log,
           ~v.saving, NEW e, e.base = v.log, e.ckpt = 0, e.cur = CurrentAt(v, e.disk),
           e.gone = {}
    PROVE  Good(v, e) /\ \A o \in Oid : CurrentAt(v, e.disk)[o] = LoggedAt(v, e.disk, o)
<1>1. \A f \in Frame : v.node[f] = FreeFrame
  OBVIOUS
<1>2. ~FreeFrame.kro /\ ~FreeFrame.dirty /\ FreeFrame.oid = NoOid
  BY DEF FreeFrame
<1>3. FramesOK(v.node)
  BY <1>1, <1>2 DEF FramesOK
<1>4. KROFrames(v.node) = {}
  BY <1>1, <1>2 DEF KROFrames
<1>5. ListOK(v.list)
  <2>1. <<>> \in Seq(Frame) /\ Len(<<>>) = 0
    OBVIOUS
  <2> QED
    BY <2>1, ConstantsAssumption DEF ListOK, Distinct
<1>6. LogOK(v, e)
  <2>1. Cardinality({}) = 0
    BY FS_EmptySet
  <2>2. v.log \in 1 .. MaxLid + 1 /\ MaxLid \in Nat /\ NCleaning \in Nat
    BY ConstantsAssumption DEF WorkSet
  <2>3. v.log \in Nat /\ v.log <= v.log /\ NCleaning = NCleaning - 0
    BY <2>2
  <2> QED
    BY <2>1, <2>3 DEF LogOK
<1>7. \A o \in Oid : CurrentAt(v, e.disk)[o] = LoggedAt(v, e.disk, o)
  BY <1>1, <1>2, ConstantsAssumption DEF CurrentAt
<1>8. WrittenOut(v, e) /\ Seen(v, e)
  BY <1>1, <1>2, <1>7 DEF WrittenOut, Seen
<1>9. v.nKRO = Cardinality(KROFrames(v.node))
  BY <1>4, FS_EmptySet
<1>10. e.ckpt \notin {2, 3}
  OBVIOUS
<1>11. Fine(v, e)
  BY <1>3, <1>4, <1>5, <1>6, <1>8, <1>9, <1>10 DEF Fine
<1>12. Skips(v)
  BY <1>1, <1>2 DEF Skips
<1> QED
  BY <1>7, <1>11, <1>12 DEF Good

LEMMA EmptySets ==
    /\ [f \in Frame |-> FreeFrame] \in [Frame -> NodeFrame] /\ <<>> \in Seq(Frame)
    /\ 1 \in 1 .. NFrames + 1 /\ 0 \in Nat /\ [l \in Lid |-> NullPot] \in [Lid -> Pot]
    /\ NCleaning \in Nat /\ 1 \in 1 .. MaxLid + 1 /\ 0 \in 0 .. MaxStores
<1>1. FreeFrame \in NodeFrame /\ NullPot \in Pot
  BY ConstantsAssumption DEF FreeFrame, NodeFrame, NullPot, Pot
<1>2. NFrames \in Nat /\ MaxLid \in Nat /\ MaxStores \in Nat /\ NCleaning \in Nat
  BY ConstantsAssumption
<1> QED
  BY <1>1, <1>2

\* A restart resumes from what is on disk.
LEMMA CrashRestartInv ==
    ASSUME Inv, CrashRestart
    PROVE  /\ Inv' /\ committed' = Current' /\ astray' = {}
           /\ \A o \in Oid \ astray : Current'[o] = committed[o]
<1>0. /\ node' = [f \in Frame |-> FreeFrame] /\ nodesToClean' = <<>>
      /\ KRONodeCleanCursor' = 1 /\ numKRONodes' = 0 /\ dir' = saved.dir
      /\ pot' = [l \in Lid |-> NullPot] /\ inCore' = {} /\ queued' = {}
      /\ logCursor' = saved.logCursor /\ freeCleaning' = NCleaning
      /\ ckptState' = 0 /\ potsKRO' = {} /\ halted' = FALSE /\ snapshot' = NoPicture
      /\ committed' = Current' /\ astray' = {} /\ UNCHANGED <<disk, saved, stores>>
  BY DEF CrashRestart, LoadedDir
<1>1. PICK v : v = Now'
  OBVIOUS
<1>2. PICK d : d = [disk |-> disk, ckpt |-> 0, base |-> saved.logCursor,
                    cur |-> CurrentAt(v, disk), pic |-> NoPicture, kro |-> {},
                    gone |-> {}]
  OBVIOUS
<1>3. /\ d.disk = disk /\ d.ckpt = 0 /\ d.base = saved.logCursor
      /\ d.cur = CurrentAt(v, disk) /\ d.pic = NoPicture /\ d.gone = {}
  BY <1>2
<1>4. /\ saved.dir \in [Oid -> Place] /\ saved.logCursor \in 1 .. MaxLid + 1
      /\ disk \in [Lid -> Pot] /\ Stable
      /\ \A o \in Oid : saved.dir[o].lid < saved.logCursor
  BY InvFacts DEF Inv, Stable
<1>5. v \in WorkSet
  <2>1. VariableSets'
    BY <1>0, <1>4, EmptySets DEF VariableSets
  <2> QED
    BY <1>1, <2>1, NowNextInSet
<1>6. /\ v.node = [f \in Frame |-> FreeFrame] /\ v.list = <<>> /\ v.cursor = 1
      /\ v.nKRO = 0 /\ v.inCore = {} /\ v.queued = {} /\ v.free = NCleaning
      /\ v.dir = saved.dir /\ v.log = saved.logCursor /\ ~v.saving
  <2>1. ckptState' \notin {2, 3}
    BY <1>0
  <2>2. v.saving = (ckptState' \in {2, 3})
    BY <1>1, NowNextFields, Zenon
  <2>3. ~v.saving
    BY <2>1, <2>2, Zenon
  <2> QED
    BY <1>0, <1>1, <2>3, NowNextFields
<1>7. Good(v, d) /\ \A o \in Oid : CurrentAt(v, disk)[o] = LoggedAt(v, disk, o)
  <2>1. (\A o \in Oid : v.dir[o].lid < v.log) /\ d.base = v.log
        /\ d.cur = CurrentAt(v, d.disk)
    BY <1>3, <1>4, <1>6
  <2> QED
    BY <1>3, <1>5, <1>6, <2>1, EmptyGood
<1>8. (Good(Now, Env) /\ Env \in EnvSet)'
  <2>1. d.cur \in [Oid -> Value]
    BY <1>3, <1>4, <1>5, CurrentValue
  <2>2. /\ d.disk = disk' /\ d.disk \in [Lid -> Pot] /\ d.base = (saved').logCursor
        /\ d.base \in 1 .. MaxLid + 1 /\ d.pic = snapshot' /\ d.ckpt = ckptState'
        /\ d.ckpt \in 0 .. 3 /\ d.pic \in [Oid -> Value] \cup {NoPicture}
    BY <1>0, <1>3, <1>4
  <2> QED
    BY <1>1, <1>5, <1>7, <2>1, <2>2, EndedWith
<1>9. Phases'
  <2>1. KROFrames(node') = {}
    BY <1>0 DEF KROFrames, FreeFrame
  <2> QED
    BY <1>0, <2>1 DEF Phases
<1>10. Current' = CurrentAt(v, disk) /\ Current' \in [Oid -> Value]
  BY <1>0, <1>1, <1>4, <1>5, CurrentNext, CurrentValue
<1>11. \A o \in Oid : Current'[o] = OnDisk(o)
  <2>1. \A o \in Oid : LoggedAt(v, disk, o) = OnDisk(o)
    BY <1>6 DEF LoggedAt, PotAt, OnDisk
  <2> QED
    BY <1>7, <1>10, <2>1
<1>12. Stable'
  <2>1. \A o : OnDisk(o)' = OnDisk(o)
    BY <1>0 DEF OnDisk
  <2>2. Recoverable'
    BY <1>0, <1>11, <2>1 DEF Recoverable
  <2> QED
    BY <1>0, <1>4, <1>10, <2>2 DEF Stable
<1>13. halted' \in BOOLEAN /\ stores' \in 0 .. MaxStores /\ potsKRO' \subseteq Lid
  BY <1>0 DEF Inv
<1>14. \A o \in Oid \ astray : Current'[o] = committed[o]
  BY <1>4, <1>11 DEF Stable, Recoverable
<1> QED
  BY <1>0, <1>8, <1>9, <1>12, <1>13, <1>14 DEF Inv
-----------------------------------------------------------------------------
(* The invariant holds.                                                      *)

LEMMA InitInv == Init => Inv
<1> SUFFICES ASSUME Init PROVE Inv
  OBVIOUS
<1>0. /\ node = [f \in Frame |-> FreeFrame] /\ nodesToClean = <<>>
      /\ KRONodeCleanCursor = 1 /\ numKRONodes = 0 /\ dir = [o \in Oid |-> Home]
      /\ pot = [l \in Lid |-> NullPot] /\ disk = pot /\ inCore = {} /\ queued = {}
      /\ logCursor = 1 /\ freeCleaning = NCleaning /\ ckptState = 0 /\ halted = FALSE
      /\ saved = [dir |-> dir, logCursor |-> 1] /\ stores = 0
      /\ snapshot = NoPicture /\ committed = HomeValue /\ potsKRO = {} /\ astray = {}
  BY DEF Init
<1>1. PICK w : w = Now
  OBVIOUS
<1>2. PICK e : e = Env
  OBVIOUS
<1>3. /\ dir \in [Oid -> Place] /\ Home.lid = 0 /\ \A o \in Oid : dir[o] = Home
  BY <1>0 DEF Place, Home
<1>4. w \in WorkSet
  <2>1. VariableSets
    BY <1>0, <1>3, EmptySets DEF VariableSets
  <2> QED
    BY <1>1, <2>1, NowInSet
<1>5. /\ w.node = [f \in Frame |-> FreeFrame] /\ w.list = <<>> /\ w.cursor = 1
      /\ w.nKRO = 0 /\ w.inCore = {} /\ w.queued = {} /\ w.free = NCleaning
      /\ w.dir = dir /\ w.log = 1 /\ ~w.saving
  <2>1. ckptState \notin {2, 3} /\ w.saving = (ckptState \in {2, 3})
    <3>1. ckptState \notin {2, 3}
      BY <1>0
    <3> QED
      BY <1>1, <3>1, NowFields, Zenon
  <2>2. ~w.saving
    BY <2>1, Zenon
  <2> QED
    BY <1>0, <1>1, <2>2, NowFields
<1>6. /\ e.disk = disk /\ e.ckpt = 0 /\ e.base = 1 /\ e.cur = CurrentAt(w, disk)
      /\ e.pic = NoPicture /\ disk \in [Lid -> Pot] /\ e.gone = {}
  BY <1>0, <1>1, <1>2, EnvFields, CurrentNow, EmptySets
<1>7. Good(w, e)
  <2>1. \A o \in Oid : w.dir[o].lid < w.log
    BY <1>3, <1>5
  <2> QED
    BY <1>4, <1>5, <1>6, <2>1, EmptyGood
<1>8. Env \in EnvSet
  <2>1. Current \in [Oid -> Value]
    BY <1>1, <1>4, <1>6, CurrentValue, CurrentNow
  <2>2. KROFrames(node) \in SUBSET Frame
    BY FrameFacts
  <2>3. saved.logCursor \in 1 .. MaxLid + 1 /\ ckptState \in 0 .. 3
        /\ snapshot \in [Oid -> Value] \cup {NoPicture}
    BY <1>0, EmptySets
  <2>4. astray \in SUBSET Oid
    BY <1>0
  <2> QED
    BY <1>6, <2>1, <2>2, <2>3, <2>4 DEF Env, EnvSet
<1>9. Phases
  <2>1. KROFrames(node) = {}
    BY <1>0 DEF KROFrames, FreeFrame
  <2> QED
    BY <1>0, <2>1 DEF Phases
<1>10. Stable
  <2>1. saved.dir = dir /\ saved.logCursor = 1
    BY <1>0
  <2>2. saved \in [dir : [Oid -> Place], logCursor : 1 .. MaxLid + 1]
    BY <1>0, <1>3, EmptySets
  <2>3. \A o \in Oid : saved.dir[o].lid < saved.logCursor
    BY <1>3, <2>1
  <2>4. committed \in [Oid -> Value]
    BY <1>0, ConstantsAssumption
  <2>5. Recoverable
    BY <1>0, <1>3, <2>1 DEF Recoverable, OnDisk
  <2> QED
    BY <2>2, <2>3, <2>4, <2>5 DEF Stable
<1>11. halted \in BOOLEAN /\ stores \in 0 .. MaxStores /\ potsKRO \subseteq Lid
  BY <1>0, EmptySets
<1> QED
  BY <1>1, <1>2, <1>7, <1>8, <1>9, <1>10, <1>11 DEF Inv

LEMMA StutterInv ==
    ASSUME Inv, UNCHANGED vars
    PROVE  Inv' /\ Current' = Current
<1>0. UNCHANGED <<node, nodesToClean, KRONodeCleanCursor, numKRONodes, dir, pot, inCore,
          queued, disk, logCursor, freeCleaning, ckptState, potsKRO, halted, saved,
          stores, snapshot, committed, astray>>
  BY DEF vars
<1>1. Current' = Current
  BY <1>0 DEF Current, Cached, FrameOf, Logged
<1>2. Now' = Now
  BY <1>0 DEF Now
<1>3. Env' = Env
  BY <1>0, <1>1 DEF Env
<1>4. Phases' /\ Stable'
  BY <1>0 DEF Inv, Phases, Stable, Recoverable, OnDisk
<1> QED
  BY <1>0, <1>1, <1>2, <1>3, <1>4 DEF Inv

\* Every step keeps the invariant, and what it does to what processes see.
LEMMA NextInv ==
    ASSUME Inv, [Next]_vars
    PROVE  /\ Inv'
           /\ \/ StillSeen(Current)
              \/ \E f \in Frame, x \in Value :
                   /\ Store(f, x) /\ stores' = stores + 1
                   /\ node[f].oid \in Oid
                   /\ StillSeen([Current EXCEPT ![node[f].oid] = x])
              \/ CrashRestart
<1>1. CASE \E o \in Oid : GetObject(o)
  BY <1>1, GetObjectInv
<1>2. CASE GrabForOther
  BY <1>2, GrabForOtherInv
<1>3. CASE \E l \in Lid : StealPot(l)
  BY <1>3, StealPotInv
<1>4. CASE \E l \in Lid : IOReq_EndWrite(l)
  BY <1>4, EndWriteInv
<1>5. CASE \E f \in Frame : Reference(f)
  BY <1>5, ReferenceInv
<1>6. CASE \E f \in Frame, x \in Value : Store(f, x)
  <2>1. PICK f \in Frame, x \in Value : Store(f, x)
    BY <1>6
  <2>2. /\ Inv'
        /\ \/ StillSeen(Current)
           \/ /\ stores' = stores + 1 /\ node[f].oid \in Oid
              /\ StillSeen([Current EXCEPT ![node[f].oid] = x])
    BY <2>1, StoreInv
  <2> QED
    BY <2>1, <2>2
<1>7. CASE DeclareDemarcationEvent
  BY <1>7, DeclareInv DEF StillSeen, DeclareDemarcationEvent
<1>8. CASE DoPhase1Work
  BY <1>8, DoPhase1WorkInv
<1>9. CASE DoPhase2Work
  BY <1>9, DoPhase2WorkInv
<1>10. CASE Stabilize
  BY <1>10, StabilizeInv DEF StillSeen, Stabilize
<1>11. CASE CrashRestart
  BY <1>11, CrashRestartInv
<1>12. CASE UNCHANGED vars
  BY <1>12, StutterInv DEF StillSeen, vars
<1> QED
  BY <1>1, <1>2, <1>3, <1>4, <1>5, <1>6, <1>7, <1>8, <1>9, <1>10, <1>11, <1>12 DEF Next

LEMMA InvAlways == Spec => []Inv
<1>1. Inv /\ [Next]_vars => Inv'
  BY NextInv
<1> QED
  BY <1>1, InitInv, PTL DEF Spec

LEMMA InvType == Inv => TypeOK
<1> SUFFICES ASSUME Inv PROVE TypeOK
  OBVIOUS
<1>1. /\ Fine(Now, Env) /\ VariableSets /\ disk \in [Lid -> Pot] /\ ckptState \in 0 .. 3
      /\ snapshot \in [Oid -> Value] \cup {NoPicture}
      /\ saved \in [dir : [Oid -> Place], logCursor : 1 .. MaxLid + 1]
      /\ halted \in BOOLEAN /\ stores \in 0 .. MaxStores /\ committed \in [Oid -> Value]
      /\ potsKRO \subseteq Lid
  BY InvFacts DEF Inv, Stable
<1>2. FramesOK(node) /\ ListOK(nodesToClean) /\ LogOK(Now, Env)
  BY <1>1, NowFields DEF Fine
<1>3. Cardinality(Range(nodesToClean)) = Len(nodesToClean)
  <2>1. nodesToClean \in Seq(Frame) /\ Distinct(nodesToClean)
    BY <1>1, <1>2 DEF VariableSets, ListOK
  <2> QED
    BY <2>1, DistinctLength
<1>4. freeCleaning \in 0 .. NCleaning
  <2>1. PICK Q : Q = queued
    OBVIOUS
  <2>2. freeCleaning = NCleaning - Cardinality(Q) /\ freeCleaning \in Nat /\ Q \in SUBSET Lid
    BY <1>1, <1>2, <2>1, NowFields DEF LogOK, VariableSets
  <2>3. IsFiniteSet(Lid) /\ NCleaning \in Nat
    BY ConstantsAssumption, FS_Interval DEF Lid
  <2>4. IsFiniteSet(Q)
    BY ONLY <2>2, <2>3, FS_Subset
  <2>5. Cardinality(Q) \in Nat
    BY ONLY <2>4, FS_CardinalityType
  <2> QED
    BY <2>2, <2>3, <2>5
<1>5. queued \subseteq inCore
  BY <1>2, NowFields DEF LogOK
<1> QED
  BY <1>1, <1>2, <1>3, <1>4, <1>5 DEF TypeOK, VariableSets, FramesOK, ListOK

LEMMA InvKRO == Inv => KRONodesExact
<1> SUFFICES ASSUME Inv PROVE KRONodesExact
  OBVIOUS
<1>1. numKRONodes = Cardinality({f \in Frame : node[f].kro})
  BY InvFacts, NowFields DEF Fine, KROFrames
<1>2. ckptState = 3 => {f \in Frame : node[f].kro} = {}
  BY DEF Inv, Phases, KROFrames
<1> QED
  BY <1>1, <1>2, FS_EmptySet DEF KRONodesExact

LEMMA InvCursor == Inv => CursorSkipsNone
<1> SUFFICES ASSUME Inv, ~halted, NEW f \in 1 .. KRONodeCleanCursor - 1, node[f].kro
             PROVE  f \in Range(nodesToClean)
  BY DEF CursorSkipsNone
<1>1. Skips(Now) /\ KRONodeCleanCursor \in 1 .. NFrames + 1 /\ NFrames \in Nat
  BY InvFacts, ConstantsAssumption DEF VariableSets
<1>2. f \in Frame /\ f < KRONodeCleanCursor
  BY <1>1 DEF Frame
<1> QED
  BY <1>1, <1>2, NowFields DEF Skips

LEMMA InvPicture == Inv => PictureKept
<1> SUFFICES ASSUME Inv, snapshot # NoPicture, NEW o \in Oid \ astray
             PROVE  snapshot[o] = IF Cached(o) /\ node[FrameOf(o)].kro
                                  THEN node[FrameOf(o)].val ELSE Logged(o)
  BY DEF PictureKept, Picture
<1>1. ckptState \in {2, 3}
  BY DEF Inv, Phases
<1>2. Pictured(Now, Env) /\ FramesOK(node)
  BY <1>1, InvFacts, EnvFields, NowFields DEF Fine
<1>3. /\ \A f \in Frame : node[f].kro => node[f].val = snapshot[node[f].oid]
      /\ (\A f \in Frame : node[f].oid = o => ~node[f].kro) => Logged(o) = snapshot[o]
  BY <1>2, EnvFields, NowFields, CurrentNow DEF Pictured
<1>4. CASE Cached(o)
  <2>1. FrameOf(o) \in Frame /\ node[FrameOf(o)].oid = o
    BY <1>4 DEF Cached, FrameOf
  <2>2. o # NoOid
    BY ConstantsAssumption
  <2>3. \A f \in Frame : node[f].oid = o => f = FrameOf(o)
    BY <1>2, <2>1, <2>2 DEF FramesOK
  <2> QED
    BY <1>3, <1>4, <2>1, <2>3
<1>5. CASE ~Cached(o)
  BY <1>3, <1>5 DEF Cached
<1> QED
  BY <1>4, <1>5
-----------------------------------------------------------------------------
(* PersistentStore is implemented.                                           *)

LEMMA InitStore == Init => PS!Init
<1> SUFFICES ASSUME Init PROVE PS!Init
  OBVIOUS
<1>1. /\ node = [f \in Frame |-> FreeFrame] /\ dir = [o \in Oid |-> Home]
      /\ snapshot = NoPicture /\ committed = HomeValue /\ astray = {}
  BY DEF Init
<1>2. \A o \in Oid : Logged(o) = HomeValue[o] /\ ~Cached(o)
  BY <1>1, ConstantsAssumption DEF Logged, Cached, FreeFrame
<1>3. HomeValue \in [Oid -> Value]
  BY ConstantsAssumption
<1>4. Current = HomeValue
  <2>1. Current = [o \in Oid |-> HomeValue[o]]
    BY <1>2 DEF Current
  <2> QED
    BY <1>3, <2>1
<1> QED
  BY <1>1, <1>3, <1>4 DEF PS!Init, PS!State

\* The same of the next state as InvFacts.
LEMMA NextFacts ==
    ASSUME Inv'
    PROVE  Current' \in [Oid -> Value] /\ astray' \subseteq Oid
<1>1. PICK e : e = Env'
  OBVIOUS
<1>2. e \in EnvSet
  BY <1>1 DEF Inv
<1>3. e.cur \in [Oid -> Value] /\ e.gone \subseteq Oid
  BY ONLY <1>2 DEF EnvSet
<1> QED
  BY <1>1, <1>3, EnvNextFields

\* The moment of demarcation is not seen.
LEMMA DoPhase1Unseen ==
    ASSUME Inv, DoPhase1Work
    PROVE  Current' = Current
<1>1. /\ node' = [f \in Frame |-> [node[f] EXCEPT !.kro = MadeKRO(node[f])]]
      /\ UNCHANGED <<dir, pot, inCore, disk>> /\ node \in [Frame -> NodeFrame]
  BY InvFacts DEF DoPhase1Work, VariableSets
<1>2. \A f \in Frame : node'[f].oid = node[f].oid /\ node'[f].val = node[f].val
  BY <1>1 DEF NodeFrame
<1>3. \A o : Logged(o)' = Logged(o)
  BY <1>1 DEF Logged
<1>4. \A o : Cached(o)' = Cached(o) /\ FrameOf(o)' = FrameOf(o)
  BY <1>2 DEF Cached, FrameOf
<1>5. \A o \in Oid : Cached(o) => FrameOf(o) \in Frame
  BY DEF Cached, FrameOf
<1> QED
  BY <1>2, <1>3, <1>4, <1>5 DEF Current

\* What is seen without a store, or with one, is allowed by PersistentStore.
LEMMA ForsakeStep ==
    ASSUME Inv, Inv', UNCHANGED <<snapshot, committed>>, NEW o \in Oid, NEW x \in Value,
           (StillSeen(Current) /\ x = Current[o]) \/ StillSeen([Current EXCEPT ![o] = x])
    PROVE  PS!Next
<1>1. Current \in [Oid -> Value] /\ astray \subseteq Oid
  BY InvFacts DEF VariableSets
<1>2. Current' \in [Oid -> Value] /\ astray' \subseteq Oid
  BY NextFacts
<1>3. PICK F : F = astray'
  OBVIOUS
<1>4. F \in SUBSET Oid /\ astray' = astray \cup F
  BY <1>2, <1>3 DEF StillSeen
<1>5. \A q \in Oid \ astray' : Current'[q] = IF q = o THEN x ELSE Current[q]
  BY <1>1 DEF StillSeen
<1>6. PS!Forsake(F, o, x)
  BY <1>2, <1>4, <1>5 DEF PS!Forsake, PS!State
<1> QED
  BY <1>4, <1>6 DEF PS!Next

LEMMA NextStore ==
    ASSUME Inv, [Next]_vars
    PROVE  PS!Next \/ UNCHANGED <<Current, snapshot, committed, astray>>
<1>0. Inv'
  BY NextInv
<1>1. CASE DoPhase1Work
  <2>1. Current' = Current
    BY <1>1, DoPhase1Unseen
  <2>2. snapshot = NoPicture /\ snapshot' = Current /\ UNCHANGED <<committed, astray>>
    BY <1>1 DEF DoPhase1Work, Inv, Phases
  <2>3. PS!Demarcate
    BY <2>1, <2>2 DEF PS!Demarcate
  <2> QED
    BY <2>3 DEF PS!Next
<1>2. CASE Stabilize
  <2>1. Current' = Current
    BY <1>2, StabilizeInv
  <2>2. /\ snapshot \in [Oid -> Value] /\ NoPicture \notin [Oid -> Value]
        /\ committed' = snapshot /\ snapshot' = NoPicture /\ astray' = astray
    BY <1>2, ConstantsAssumption DEF Stabilize, Inv, Phases
  <2>3. PS!Stabilize
    BY <2>1, <2>2 DEF PS!Stabilize
  <2> QED
    BY <2>3 DEF PS!Next
<1>3. CASE CrashRestart
  <2>1. /\ committed' = Current' /\ astray' = {}
        /\ \A o \in Oid \ astray : Current'[o] = committed[o]
    BY <1>3, CrashRestartInv
  <2>2. /\ committed \in [Oid -> Value] /\ NoPicture \notin [Oid -> Value]
        /\ Current' \in [Oid -> Value]
    BY <1>0, ConstantsAssumption, NextFacts DEF Inv, Stable
  <2>3. snapshot' = NoPicture
    BY <1>3 DEF CrashRestart
  <2>4. committed \in {committed, snapshot} \ {NoPicture}
    BY <2>2
  <2>5. PS!Restart
    BY <2>1, <2>2, <2>3, <2>4 DEF PS!Restart, PS!State
  <2> QED
    BY <2>5 DEF PS!Next
<1>4. CASE ~(DoPhase1Work \/ Stabilize \/ CrashRestart)
  <2>1. UNCHANGED <<snapshot, committed>>
    BY <1>4 DEF Next, GetObject, GrabForOther, StealPot, IOReq_EndWrite, Reference,
                Store, DeclareDemarcationEvent, DoPhase2Work, vars
  <2>2. CASE StillSeen(Current)
    <3>1. Current \in [Oid -> Value] /\ astray \subseteq Oid
      BY InvFacts DEF VariableSets
    <3>2. Current' \in [Oid -> Value] /\ astray' \subseteq Oid
      BY <1>0, NextFacts
    <3>3. CASE Oid = {}
      BY <2>1, <3>1, <3>2, <3>3
    <3>4. CASE Oid # {}
      <4>1. PICK o \in Oid : TRUE
        BY <3>4
      <4>2. PICK x \in Value : x = Current[o]
        BY <3>1
      <4> QED
        BY <1>0, <2>1, <2>2, <4>2, ForsakeStep
    <3> QED
      BY <3>3, <3>4
  <2>3. CASE ~StillSeen(Current)
    <3>1. PICK f \in Frame, x \in Value :
            node[f].oid \in Oid /\ StillSeen([Current EXCEPT ![node[f].oid] = x])
      BY <1>4, <2>3, NextInv
    <3>2. PICK o : o = node[f].oid
      OBVIOUS
    <3>3. o \in Oid /\ StillSeen([Current EXCEPT ![o] = x])
      BY <3>1, <3>2
    <3> QED
      BY <1>0, <2>1, <3>3, ForsakeStep
  <2> QED
    BY <2>2, <2>3
<1> QED
  BY <1>1, <1>2, <1>3, <1>4
-----------------------------------------------------------------------------
(* The theorems, without any assumption but ConstantsAssumption.             *)

(* The frames of the cache hold each node once, the list holds each frame    *)
(* once and fits a pot, a KRO node is dirty, and a pot whose write is queued *)
(* is in core.                                                               *)
THEOREM TypeCorrect == Spec => []TypeOK
BY InvAlways, InvType, PTL

(* numKRONodes is the number of KRO nodes, and phase 2 ends with none.       *)
THEOREM KRONodesAlwaysExact == Spec => []KRONodesExact
BY InvAlways, InvKRO, PTL

(* The KRO nodes before KRONodeCleanCursor are on the list, whichever of the *)
(* three cleaners moved the cursor or took nodes from the list.              *)
THEOREM CursorNeverSkips == Spec => []CursorSkipsNone
BY InvAlways, InvCursor, PTL

(* Cleaning, stealing and refetching nodes are invisible to the processes:   *)
(* of the nodes that CleanAPotOfNodes did not lead astray, only a store and  *)
(* a restart change what is seen.                                            *)
THEOREM OnlyStoresDo == Spec => OnlyStoresChange
<1> DEFINE Step == \/ \A o \in Oid \ astray' : Current'[o] = Current[o]
                   \/ /\ stores' = stores + 1
                      /\ \E o \in Oid : \A q \in Oid \ (astray' \cup {o}) :
                           Current'[q] = Current[q]
                   \/ CrashRestart
<1>1. ASSUME Inv, [Next]_vars PROVE Step
  <2>1. CASE StillSeen(Current)
    BY <2>1 DEF StillSeen
  <2>2. CASE \E f \in Frame, x \in Value :
               /\ stores' = stores + 1 /\ node[f].oid \in Oid
               /\ StillSeen([Current EXCEPT ![node[f].oid] = x])
    <3>1. PICK f \in Frame, x \in Value :
               /\ stores' = stores + 1 /\ node[f].oid \in Oid
               /\ StillSeen([Current EXCEPT ![node[f].oid] = x])
      BY <2>2
    <3>2. PICK o : o = node[f].oid
      OBVIOUS
    <3>3. Current \in [Oid -> Value]
      BY <1>1, InvFacts
    <3>4. \A q \in Oid \ (astray' \cup {o}) : Current'[q] = Current[q]
      BY <3>1, <3>2, <3>3 DEF StillSeen
    <3> QED
      BY <3>1, <3>2, <3>4
  <2>3. CASE CrashRestart
    BY <2>3
  <2> QED
    BY <1>1, <2>1, <2>2, <2>3, NextInv
<1>2. Inv /\ [Next]_vars => [Step]_vars
  BY <1>1
<1>3. Spec => [][Step]_vars
  BY <1>2, InvAlways, PTL DEF Spec
<1> QED
  BY <1>3 DEF OnlyStoresChange

(* The version of each node caught by DoPhase1Work is in its KRO frame or in *)
(* the log until the checkpoint is stable, whatever is cleaned, written and  *)
(* stolen meanwhile, except for the nodes that went astray.                  *)
THEOREM PictureAlwaysKept == Spec => []PictureKept
BY InvAlways, InvPicture, PTL

(* Whenever the power fails, the last stable picture is found in the log and *)
(* the home ranges, in every node that did not go astray.                    *)
THEOREM AlwaysRecoverable == Spec => []Recoverable
<1>1. Inv => Recoverable
  BY DEF Inv, Stable
<1> QED
  BY <1>1, InvAlways, PTL

(* The node cache, its three cleaners, the checkpoint and restart implement  *)
(* PersistentStore, the nodes that went astray being those it forsakes.      *)
THEOREM StoreImplemented == Spec => ImplementsStore
<1>1. Inv /\ [Next]_vars => [PS!Next]_(PS!vars)
  BY NextStore DEF PS!vars
<1> QED
  BY <1>1, InvAlways, InitStore, PTL DEF Spec, ImplementsStore, PS!Spec
=============================================================================
