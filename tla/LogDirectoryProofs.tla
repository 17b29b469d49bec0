------------------------- MODULE LogDirectoryProofs -------------------------
(* Proofs about LogDirectory. The invariant is in three parts that hardly    *)
(* depend on each other. The chains list the nodes of their generations, and *)
(* the cursors stay on the chains (Listed): this is shown of chain_node and  *)
(* unchain_node for any table, so that an operation, which is a sequence of  *)
(* these, need only be followed by the sets of nodes on its chains. What a   *)
(* quiet scan has still to return is on the chain from the cursor on         *)
(* (ScansRight). The two locations of a node are the two newest ones of its  *)
(* version that are not retired (LocationsRight).                            *)
EXTENDS LogDirectory, FiniteSetTheorems, SequenceTheorems, TLAPS

-----------------------------------------------------------------------------
(* Sequences.                                                                *)

Distinct(s) == \A i, j \in 1 .. Len(s) : s[i] = s[j] => i = j

\* A sequence has its members at its positions.
LEMMA SeqFacts ==
    ASSUME NEW S, NEW s \in Seq(S)
    PROVE  /\ Len(s) \in Nat
           /\ DOMAIN s = 1 .. Len(s)
           /\ \A i \in 1 .. Len(s) : s[i] \in S
           /\ s = <<>> <=> Len(s) = 0
BY LenProperties, ElementOfSeq, EmptySeq

\* The members of a sequence.
LEMMA RangeFacts ==
    ASSUME NEW S, NEW s \in Seq(S)
    PROVE  /\ \A x : x \in Range(s) <=> \E i \in 1 .. Len(s) : s[i] = x
           /\ Range(s) \subseteq S
           /\ s = <<>> <=> Range(s) = {}
<1>1. DOMAIN s = 1 .. Len(s) /\ Len(s) \in Nat /\ (s = <<>> <=> Len(s) = 0)
      /\ \A i \in 1 .. Len(s) : s[i] \in S
  BY SeqFacts
<1>2. \A x : x \in Range(s) <=> \E i \in 1 .. Len(s) : s[i] = x
  BY <1>1 DEF Range
<1>3. Range(s) \subseteq S
  BY <1>1, <1>2
<1>4. s # <<>> => Range(s) # {}
  BY <1>1, <1>2
<1>5. s = <<>> => Range(s) = {}
  BY <1>1, <1>2
<1> QED
  BY <1>2, <1>3, <1>4, <1>5

\* A function on an interval is a sequence.
LEMMA FunctionSeq ==
    ASSUME NEW S, NEW n \in Nat, NEW s \in [1 .. n -> S]
    PROVE  s \in Seq(S) /\ Len(s) = n
<1>1. s \in Seq(S)
  BY IsASeq
<1>2. DOMAIN s = 1 .. n /\ DOMAIN s = 1 .. Len(s) /\ Len(s) \in Nat
  BY <1>1, SeqFacts
<1> QED
  BY <1>1, <1>2

\* A sequence without repetitions is as long as the set of its members.
LEMMA DistinctLength ==
    ASSUME NEW S, NEW s \in Seq(S), Distinct(s)
    PROVE  /\ IsFiniteSet(Range(s)) /\ Len(s) = Cardinality(Range(s))
           /\ Len(s) \in Nat
<1>0. /\ Len(s) \in Nat /\ DOMAIN s = 1 .. Len(s)
      /\ \A x : x \in Range(s) <=> \E i \in 1 .. Len(s) : s[i] = x
  BY SeqFacts, RangeFacts
<1>1. PICK D : D = 1 .. Len(s)
  OBVIOUS
<1>2. PICK R : R = Range(s)
  OBVIOUS
<1>3. s \in [D -> R]
  <2>1. s = [i \in 1 .. Len(s) |-> s[i]]
    BY <1>0
  <2>2. \A i \in 1 .. Len(s) : s[i] \in R
    BY <1>0, <1>2
  <2> QED
    BY <1>1, <2>1, <2>2
<1>4. s \in Bijection(D, R)
  BY <1>0, <1>1, <1>2, <1>3 DEF Bijection, Injection, Surjection, Distinct, IsInjective
<1>5. IsFiniteSet(D) /\ Cardinality(D) = Len(s)
  BY <1>0, <1>1, FS_Interval
<1>6. ExistsBijection(D, R)
  BY <1>4 DEF ExistsBijection
<1>7. IsFiniteSet(R) /\ Cardinality(R) = Cardinality(D)
  BY ONLY <1>5, <1>6, FS_Bijection
<1> QED
  BY <1>0, <1>2, <1>5, <1>7

-----------------------------------------------------------------------------
(* Induction. It is on the set of the numbers for which something holds.     *)

\* A set of naturals that is not empty has a least member.
LEMMA Smallest ==
    ASSUME NEW T, T \subseteq Nat, T # {}
    PROVE  \E x \in T : \A y \in T : x <= y
<1>1. PICK R : R = OpToRel(<, Nat)
  OBVIOUS
<1>2. IsWellFoundedOn(R, Nat)
  BY <1>1, NatLessThanWellFounded
<1>3. PICK x \in T : \A y \in T : ~(<<y, x>> \in R)
  BY <1>2, WFMin
<1>4. ASSUME NEW y \in T PROVE x <= y
  <2>1. ~(<<y, x>> \in R)
    BY <1>3
  <2>2. R = {ss \in Nat \X Nat : ss[1] < ss[2]}
    BY <1>1 DEF OpToRel
  <2> QED
    BY <2>1, <2>2
<1> QED
  BY <1>4

\* Induction on 0 .. N.
LEMMA UpToN ==
    ASSUME NEW N \in Nat, NEW T, 0 \in T, \A n \in 1 .. N : n - 1 \in T => n \in T
    PROVE  0 .. N \subseteq T
<1> SUFFICES ASSUME 0 .. N \ T # {} PROVE FALSE
  OBVIOUS
<1>1. PICK U : U = 0 .. N \ T
  OBVIOUS
<1>2. U \subseteq Nat /\ U # {}
  BY <1>1
<1>3. PICK x \in U : \A y \in U : x <= y
  BY <1>2, Smallest
<1>4. x \in 1 .. N /\ x - 1 \in 0 .. N /\ x \notin T
  BY <1>1, <1>3
<1>5. x - 1 \notin U
  BY <1>3, <1>4
<1> QED
  BY <1>1, <1>4, <1>5

-----------------------------------------------------------------------------
(* The invariant.                                                            *)

\* A chain that lists the nodes of a set, each once.
Row(c, S) == c \in Seq(Oid) /\ Range(c) = S /\ Distinct(c)

Rows == [chain : [Gen -> Seq(Oid)], cursor : [Gen -> Oid \cup {NoCursor, Dangling}]]

\* A table whose chains list the nodes of the sets S.
Listed(t, S) ==
    /\ t \in Rows
    /\ \A g \in Gen : /\ Row(t.chain[g], S[g])
                      /\ t.cursor[g] \in S[g] \cup {NoCursor, Dangling}

\* The nodes of each generation.
Nodes == [g \in Gen |-> {o \in Oid : node[o].gen = g}]

\* x is on the chain c, at the node k or after it.
From(c, k, x) ==
    \E i, j \in 1 .. Len(c) : i <= j /\ c[i] = k /\ c[j] = x

ScansRight ==
    \A g \in Gen : quiet[g] => \A x \in todo[g] : From(chain[g], cursor[g], x)

Bounds == \A o \in Present : InTable(node[o].gen)

\* The generation of the previous location of a node.
Previous(n) == n.gen - n.ppDelta

LocationsRight ==
    \A o \in Present :
      /\ \A h \in Gen : recorded[o][h] # NoLoc => h <= node[o].gen
      /\ node[o].loc \in Loc
      /\ node[o].gen > retired => recorded[o][node[o].gen] = node[o].loc
      /\ node[o].ppDelta # 0 =>
           /\ Previous(node[o]) \in Gen
           /\ Previous(node[o]) > retired =>
                /\ node[o].ppLoc \in Loc
                /\ recorded[o][Previous(node[o])] = node[o].ppLoc
                /\ \A h \in Gen : Previous(node[o]) < h /\ h < node[o].gen =>
                     recorded[o][h] = NoLoc

Inv ==
    /\ TypeOK
    /\ Listed(Table, Nodes)
    /\ Bounds
    /\ ScansRight
    /\ LocationsRight

-----------------------------------------------------------------------------
(* Sequences.                                                                *)

\* What chain_node makes of a chain.
LEMMA AfterHead ==
    ASSUME NEW c \in Seq(Oid), NEW o \in Oid, c # <<>>,
           NEW d, d = <<Head(c), o>> \o Tail(c)
    PROVE  /\ d \in Seq(Oid) /\ Len(d) = Len(c) + 1 /\ Len(c) \in Nat \ {0}
           /\ d[1] = c[1] /\ d[2] = o
           /\ \A i \in 2 .. Len(c) : d[i + 1] = c[i]
<1>1. /\ Len(c) \in Nat \ {0} /\ Head(c) = c[1] /\ c[1] \in Oid
      /\ Tail(c) \in Seq(Oid) /\ Len(Tail(c)) = Len(c) - 1
      /\ \A i \in 1 .. Len(Tail(c)) : Tail(c)[i] = c[i + 1]
  BY HeadTailProperties, SeqFacts
<1>2. PICK a : a = <<c[1], o>>
  OBVIOUS
<1>3. a \in Seq(Oid) /\ Len(a) = 2 /\ a[1] = c[1] /\ a[2] = o
  BY <1>1, <1>2
<1>4. PICK b : b = Tail(c)
  OBVIOUS
<1>5. d = a \o b
  BY <1>1, <1>2, <1>4
<1>6. /\ d \in Seq(Oid) /\ Len(d) = Len(a) + Len(b)
      /\ \A i \in 1 .. Len(a) : d[i] = a[i]
      /\ \A i \in Len(a) + 1 .. Len(a) + Len(b) : d[i] = b[i - Len(a)]
  BY <1>1, <1>3, <1>4, <1>5, ConcatProperties
<1>7. ASSUME NEW i \in 2 .. Len(c) PROVE d[i + 1] = c[i]
  <2>1. i + 1 \in Len(a) + 1 .. Len(a) + Len(b) /\ i - 1 \in 1 .. Len(b)
        /\ (i + 1) - Len(a) = i - 1 /\ (i - 1) + 1 = i
    BY <1>1, <1>3, <1>4
  <2> QED
    BY <1>1, <1>4, <1>6, <2>1
<1> QED
  BY <1>1, <1>3, <1>4, <1>6, <1>7
-----------------------------------------------------------------------------
(* Chains.                                                                   *)

\* The chain with a node added after its head.
WithNode(c, o) == IF c = <<>> THEN <<o>> ELSE <<Head(c), o>> \o Tail(c)

\* A node is added to a chain: what was on the chain from a node on still is.
LEMMA RowChained ==
    ASSUME NEW c, NEW S, Row(c, S), NEW o \in Oid, o \notin S,
           NEW d, d = WithNode(c, o)
    PROVE  /\ Row(d, S \cup {o}) /\ d # <<>>
           /\ \A k, x : From(c, k, x) => From(d, k, x)
<1>0. c \in Seq(Oid) /\ Range(c) = S /\ Distinct(c) /\ Len(c) \in Nat
      /\ \A x : x \in S <=> \E i \in 1 .. Len(c) : c[i] = x
  BY SeqFacts, RangeFacts DEF Row
<1>1. CASE c = <<>>
  <2>1. d \in Seq(Oid) /\ Len(d) = 1 /\ d[1] = o
    BY <1>1 DEF WithNode
  <2>2. S = {} /\ Len(c) = 0
    BY <1>0, <1>1, RangeFacts, SeqFacts
  <2>3. \A x : x \in Range(d) <=> \E i \in 1 .. Len(d) : d[i] = x
    <3>1. d \in Seq(Oid)
      BY <2>1
    <3> QED
      BY ONLY <3>1, RangeFacts
  <2>4. Range(d) = S \cup {o}
    BY <2>1, <2>2, <2>3
  <2>5. \A k, x : ~From(c, k, x)
    BY <2>2 DEF From
  <2> QED
    BY <2>1, <2>4, <2>5, SeqFacts, SMTT(30) DEF Row, Distinct
<1>2. CASE c # <<>>
  <2>0. d = <<Head(c), o>> \o Tail(c)
    BY <1>2 DEF WithNode
  <2>1. /\ d \in Seq(Oid) /\ Len(d) = Len(c) + 1 /\ Len(c) \in Nat \ {0}
        /\ d[1] = c[1] /\ d[2] = o
        /\ \A i \in 2 .. Len(c) : d[i + 1] = c[i]
    BY <1>0, <1>2, <2>0, AfterHead
  <2>2. \A i \in 1 .. Len(d) :
          \/ i = 2 /\ d[i] = o
          \/ i = 1 /\ i \in 1 .. Len(c) /\ d[i] = c[i]
          \/ i > 2 /\ i - 1 \in 1 .. Len(c) /\ d[i] = c[i - 1]
    <3> SUFFICES ASSUME NEW i \in 1 .. Len(d)
                 PROVE  \/ i = 2 /\ d[i] = o
                        \/ i = 1 /\ i \in 1 .. Len(c) /\ d[i] = c[i]
                        \/ i > 2 /\ i - 1 \in 1 .. Len(c) /\ d[i] = c[i - 1]
      OBVIOUS
    <3>1. CASE i \in {1, 2}
      BY <2>1, <3>1
    <3>2. CASE i > 2
      <4>1. i - 1 \in 2 .. Len(c) /\ (i - 1) + 1 = i
        BY <2>1, <3>2
      <4> QED
        BY <2>1, <3>2, <4>1
    <3> QED
      BY <2>1, <3>1, <3>2
  <2>3. \A x : x \in Range(d) <=> \E i \in 1 .. Len(d) : d[i] = x
    <3>1. d \in Seq(Oid)
      BY <2>1
    <3> QED
      BY ONLY <3>1, RangeFacts
  <2>4. \A i \in 1 .. Len(c) : \E j \in 1 .. Len(d) :
          d[j] = c[i] /\ j = IF i = 1 THEN 1 ELSE i + 1
    <3> SUFFICES ASSUME NEW i \in 1 .. Len(c)
                 PROVE  \E j \in 1 .. Len(d) : d[j] = c[i] /\ j = IF i = 1 THEN 1 ELSE i + 1
      OBVIOUS
    <3>1. CASE i = 1
      BY <2>1, <3>1
    <3>2. CASE i # 1
      <4>1. i \in 2 .. Len(c) /\ i + 1 \in 1 .. Len(d)
        BY <2>1, <3>2
      <4> QED
        BY <2>1, <3>2, <4>1
    <3> QED
      BY <3>1, <3>2
  <2>5. Range(d) = S \cup {o}
    <3>1. o \in Range(d)
      <4>1. 2 \in 1 .. Len(d)
        BY <2>1
      <4> QED
        BY <2>1, <2>3, <4>1
    <3>2. ASSUME NEW x \in S PROVE x \in Range(d)
      <4>1. PICK i \in 1 .. Len(c) : c[i] = x
        BY <1>0
      <4>2. PICK j \in 1 .. Len(d) : d[j] = x
        BY <2>4, <4>1
      <4> QED
        BY <2>3, <4>2
    <3>3. ASSUME NEW x \in Range(d) PROVE x \in S \cup {o}
      <4>1. PICK i \in 1 .. Len(d) : d[i] = x
        BY <2>3
      <4> QED
        BY <1>0, <2>2, <4>1
    <3> QED
      BY <3>1, <3>2, <3>3
  <2>6. Distinct(d)
    <3> SUFFICES ASSUME NEW i \in 1 .. Len(d), NEW j \in 1 .. Len(d), d[i] = d[j]
                 PROVE  i = j
      BY DEF Distinct
    <3>1. \A k \in 1 .. Len(c) : c[k] # o
      BY <1>0
    <3>2. \A k, l \in 1 .. Len(c) : c[k] = c[l] => k = l
      BY <1>0 DEF Distinct
    <3>3. CASE i = 2 \/ j = 2
      BY <2>2, <3>1, <3>3
    <3>4. CASE i # 2 /\ j # 2
      <4>1. PICK k \in 1 .. Len(c) : d[i] = c[k] /\ k = IF i = 1 THEN 1 ELSE i - 1
        BY <2>2, <3>4
      <4>2. PICK l \in 1 .. Len(c) : d[j] = c[l] /\ l = IF j = 1 THEN 1 ELSE j - 1
        BY <2>2, <3>4
      <4>3. k = l
        BY <3>2, <4>1, <4>2
      <4> QED
        BY <3>4, <4>1, <4>2, <4>3
    <3> QED
      BY <3>3, <3>4
  <2>7. ASSUME NEW k, NEW x, From(c, k, x) PROVE From(d, k, x)
    <3>1. PICK i \in 1 .. Len(c), j \in 1 .. Len(c) : i <= j /\ c[i] = k /\ c[j] = x
      BY <2>7 DEF From
    <3>2. PICK m \in 1 .. Len(d) : d[m] = k /\ m = IF i = 1 THEN 1 ELSE i + 1
      BY <2>4, <3>1
    <3>3. PICK n \in 1 .. Len(d) : d[n] = x /\ n = IF j = 1 THEN 1 ELSE j + 1
      BY <2>4, <3>1
    <3>4. m <= n
      BY <3>1, <3>2, <3>3
    <3> QED
      BY <3>2, <3>3, <3>4 DEF From
  <2>8. d # <<>>
    BY <2>1, SeqFacts
  <2> QED
    BY <2>1, <2>5, <2>6, <2>7, <2>8 DEF Row
<1> QED
  BY <1>1, <1>2

\* Where a node is on its chain, and what follows it there.
LEMMA OnRow ==
    ASSUME NEW c, NEW S, Row(c, S), NEW o \in S
    PROVE  /\ Len(c) \in Nat \ {0} /\ c[1] \in S
           /\ PositionOn(c, o) \in 1 .. Len(c) /\ c[PositionOn(c, o)] = o
           /\ NextOnChain(c, o) \in S
           /\ S # {o} => NextOnChain(c, o) # o
<1>0. c \in Seq(Oid) /\ Distinct(c) /\ Len(c) \in Nat
      /\ \A x : x \in S <=> \E i \in 1 .. Len(c) : c[i] = x
  BY SeqFacts, RangeFacts DEF Row
<1>1. \E i \in 1 .. Len(c) : c[i] = o
  BY <1>0
<1>2. PositionOn(c, o) \in 1 .. Len(c) /\ c[PositionOn(c, o)] = o
  BY <1>1 DEF PositionOn
<1>3. PICK i : i = PositionOn(c, o)
  OBVIOUS
<1>4. i \in 1 .. Len(c) /\ c[i] = o
  BY <1>2, <1>3
<1>5. NextOnChain(c, o) = IF i = Len(c) THEN c[1] ELSE c[i + 1]
  BY <1>3 DEF NextOnChain
<1>6. PICK m \in 1 .. Len(c) : NextOnChain(c, o) = c[m] /\ m = IF i = Len(c) THEN 1 ELSE i + 1
  BY <1>0, <1>4, <1>5
<1>7. ASSUME c[m] = o PROVE S = {o}
  <2>1. m = i
    BY <1>0, <1>4, <1>6, <1>7 DEF Distinct
  <2>2. Len(c) = 1
    BY <1>0, <1>4, <1>6, <2>1
  <2> QED
    BY <1>0, <1>4, <2>2
<1>8. c[1] \in S /\ c[m] \in S /\ Len(c) \in Nat \ {0}
  BY <1>0, <1>4
<1> QED
  BY <1>2, <1>6, <1>7, <1>8

\* A node is taken off its chain.
LEMMA RowUnchained ==
    ASSUME NEW c, NEW S, Row(c, S), NEW o \in S, NEW d, d = WithoutNode(c, o)
    PROVE  /\ Row(d, S \ {o})
           /\ d = <<>> <=> S = {o}
           /\ d # <<>> => d[1] \in S \ {o}
<1>0. c \in Seq(Oid) /\ Distinct(c) /\ Len(c) \in Nat /\ S \subseteq Oid
      /\ (\A x : x \in S <=> \E i \in 1 .. Len(c) : c[i] = x)
      /\ (\A i \in 1 .. Len(c) : c[i] \in Oid)
  BY SeqFacts, RangeFacts DEF Row
<1>1. PICK i : i = PositionOn(c, o)
  OBVIOUS
<1>2. i \in 1 .. Len(c) /\ c[i] = o /\ Len(c) \in Nat \ {0}
  BY <1>1, OnRow
<1>3. PICK n : n = Len(c)
  OBVIOUS
<1>4. PICK to : to = [j \in 1 .. n - 1 |-> IF i = 1 THEN IF j = 1 THEN n ELSE j
                                           ELSE IF j < i THEN j ELSE j + 1]
  OBVIOUS
<1>5. n \in Nat \ {0} /\ n - 1 \in Nat
  BY <1>2, <1>3
<1>6. \A j \in 1 .. n - 1 : to[j] \in 1 .. n /\ to[j] # i
  BY <1>2, <1>3, <1>4
<1>7. \A j, k \in 1 .. n - 1 : to[j] = to[k] => j = k
  <2> SUFFICES ASSUME NEW j \in 1 .. n - 1, NEW k \in 1 .. n - 1, to[j] = to[k]
               PROVE  j = k
    OBVIOUS
  <2>1. CASE i = 1
    BY <1>4, <1>5, <2>1
  <2>2. CASE i # 1
    BY <1>4, <1>5, <1>2, <2>2
  <2> QED
    BY <2>1, <2>2
<1>8. \A m \in 1 .. n : m # i => \E j \in 1 .. n - 1 : to[j] = m
  <2> SUFFICES ASSUME NEW m \in 1 .. n, m # i PROVE \E j \in 1 .. n - 1 : to[j] = m
    OBVIOUS
  <2>1. CASE i = 1 /\ m = n
    <3>1. 1 \in 1 .. n - 1 /\ to[1] = m
      BY <1>4, <1>5, <2>1
    <3> QED
      BY <3>1
  <2>2. CASE i = 1 /\ m # n
    <3>1. m \in 1 .. n - 1 /\ to[m] = m
      BY <1>4, <1>5, <2>2
    <3> QED
      BY <3>1
  <2>3. CASE i # 1 /\ m < i
    <3>1. m \in 1 .. n - 1 /\ to[m] = m
      BY <1>2, <1>3, <1>4, <1>5, <2>3
    <3> QED
      BY <3>1
  <2>4. CASE i # 1 /\ m > i
    <3>1. m - 1 \in 1 .. n - 1 /\ to[m - 1] = m
      BY <1>2, <1>3, <1>4, <1>5, <2>4
    <3> QED
      BY <3>1
  <2> QED
    BY <1>2, <1>3, <2>1, <2>2, <2>3, <2>4
<1>9. d = [j \in 1 .. n - 1 |-> c[to[j]]]
  <2>1. d = [j \in 1 .. n - 1 |-> IF i = 1 THEN IF j = 1 THEN c[n] ELSE c[j]
                                  ELSE IF j < i THEN c[j] ELSE c[j + 1]]
    BY <1>1, <1>3 DEF WithoutNode
  <2> QED
    BY <1>4, <2>1
<1>10. d \in Seq(Oid) /\ Len(d) = n - 1
  <2>1. d \in [1 .. n - 1 -> Oid]
    BY <1>0, <1>3, <1>6, <1>9
  <2> QED
    BY <1>5, <2>1, FunctionSeq
<1>11. \A j \in 1 .. Len(d) : d[j] = c[to[j]] /\ to[j] \in 1 .. Len(c) /\ to[j] # i
  BY <1>3, <1>6, <1>9, <1>10
<1>12. Distinct(d)
  BY <1>0, <1>7, <1>10, <1>11, SMTT(30) DEF Distinct
<1>13. \A x : x \in Range(d) <=> \E j \in 1 .. Len(d) : d[j] = x
  BY <1>10, RangeFacts
<1>14. Range(d) = S \ {o}
  <2>1. ASSUME NEW x \in Range(d) PROVE x \in S \ {o}
    <3>1. PICK j \in 1 .. Len(d) : d[j] = x
      BY <1>13
    <3>2. PICK m \in 1 .. Len(c) : x = c[m] /\ m # i
      BY <1>11, <3>1
    <3> QED
      BY <1>0, <1>2, <3>2 DEF Distinct
  <2>2. ASSUME NEW x \in S \ {o} PROVE x \in Range(d)
    <3>1. PICK m \in 1 .. Len(c) : c[m] = x
      BY <1>0
    <3>2. m # i
      BY <1>2, <3>1
    <3>3. PICK j \in 1 .. n - 1 : to[j] = m
      BY <1>3, <1>8, <3>1, <3>2
    <3> QED
      BY <1>9, <1>10, <1>13, <3>1, <3>3
  <2> QED
    BY <2>1, <2>2
<1>15. d = <<>> <=> Range(d) = {}
  BY <1>10, RangeFacts
<1>16. d # <<>> => d[1] \in Range(d)
  <2>1. d # <<>> => 1 \in 1 .. Len(d)
    BY <1>10, SeqFacts
  <2> QED
    BY <1>13, <2>1
<1> QED
  BY <1>10, <1>12, <1>14, <1>15, <1>16 DEF Row
-----------------------------------------------------------------------------
(* Tables.                                                                   *)

\* chain_node: one row changes, and no cursor.
LEMMA Chained ==
    ASSUME NEW t, NEW S, Listed(t, S), NEW o \in Oid, NEW g \in Gen, o \notin S[g],
           NEW u, u = chain_node(t, o, g), NEW T,
           T[g] = S[g] \cup {o}, \A h \in Gen : h # g => T[h] = S[h]
    PROVE  /\ Listed(u, T) /\ u.cursor = t.cursor
           /\ \A h \in Gen : h # g => u.chain[h] = t.chain[h]
           /\ \A k, x : From(t.chain[g], k, x) => From(u.chain[g], k, x)
<1>0. t \in Rows /\ t.chain \in [Gen -> Seq(Oid)] /\ Row(t.chain[g], S[g])
  BY DEF Listed, Rows
<1>1. PICK c : c = t.chain[g]
  OBVIOUS
<1>2. PICK d : d = WithNode(c, o)
  OBVIOUS
<1>3. u = [t EXCEPT !.chain[g] = d]
  BY <1>1, <1>2 DEF chain_node, WithNode
<1>4. Row(c, S[g])
  BY <1>0, <1>1
<1>5. Row(d, T[g]) /\ \A k, x : From(c, k, x) => From(d, k, x)
  <2>1. PICK R : R = S[g]
    OBVIOUS
  <2>2. Row(c, R) /\ o \notin R /\ o \in Oid
    BY <1>4, <2>1
  <2>3. Row(d, R \cup {o}) /\ \A k, x : From(c, k, x) => From(d, k, x)
    BY ONLY <1>2, <2>2, RowChained
  <2> QED
    BY <2>1, <2>3
<1>6. d \in Seq(Oid)
  BY <1>5 DEF Row
<1>7. /\ u \in Rows /\ u.cursor = t.cursor /\ u.chain[g] = d
      /\ \A h \in Gen : h # g => u.chain[h] = t.chain[h]
  BY <1>0, <1>3, <1>6, ZenonT(30) DEF Rows
<1>8. ASSUME NEW h \in Gen
      PROVE  Row(u.chain[h], T[h]) /\ u.cursor[h] \in T[h] \cup {NoCursor, Dangling}
  <2>1. Row(t.chain[h], S[h]) /\ t.cursor[h] \in S[h] \cup {NoCursor, Dangling}
    BY DEF Listed
  <2>2. CASE h = g
    BY <1>5, <1>7, <2>1, <2>2
  <2>3. CASE h # g
    BY <1>7, <2>1, <2>3
  <2> QED
    BY <2>2, <2>3
<1> QED
  BY <1>1, <1>5, <1>7, <1>8 DEF Listed

\* unchain_node: one row changes.
LEMMA Unchained ==
    ASSUME NEW t, NEW S, Listed(t, S), NEW g \in Gen, NEW o \in S[g],
           NEW u, u = unchain_node(t, o, g), NEW T,
           T[g] = S[g] \ {o}, \A h \in Gen : h # g => T[h] = S[h]
    PROVE  /\ Listed(u, T)
           /\ \A h \in Gen : h # g => /\ u.chain[h] = t.chain[h]
                                      /\ u.cursor[h] = t.cursor[h]
<1>0. /\ t \in Rows /\ Row(t.chain[g], S[g])
      /\ t.cursor[g] \in S[g] \cup {NoCursor, Dangling}
  BY DEF Listed
<1>1. PICK c : c = t.chain[g]
  OBVIOUS
<1>2. PICK d : d = WithoutNode(c, o)
  OBVIOUS
<1>3. PICK k : k = t.cursor[g]
  OBVIOUS
<1>4. PICK m : m = IF k = o THEN NextOnChain(c, o) ELSE k
  OBVIOUS
<1>5. PICK n : n = IF d = <<>> THEN IF k = o THEN Dangling ELSE k
                   ELSE IF m = d[1] THEN NoCursor ELSE m
  OBVIOUS
<1>6. u = [t EXCEPT !.chain[g] = d, !.cursor[g] = n]
  BY <1>0, <1>1, <1>2, <1>3, <1>4, <1>5 DEF unchain_node, Rows
<1>7. Row(c, S[g])
  BY <1>0, <1>1
<1>8. /\ Row(d, S[g] \ {o}) /\ (d = <<>> <=> S[g] = {o})
  BY <1>2, <1>7, RowUnchained
<1>9. NextOnChain(c, o) \in S[g] /\ (S[g] # {o} => NextOnChain(c, o) # o)
  BY <1>7, OnRow
<1>10. k \in S[g] \cup {NoCursor, Dangling}
  BY <1>0, <1>3
<1>11. n \in T[g] \cup {NoCursor, Dangling}
  <2>1. CASE d = <<>>
    BY <1>5, <1>8, <1>10, <2>1
  <2>2. CASE d # <<>>
    <3>1. m \in T[g] \cup {NoCursor, Dangling}
      BY <1>4, <1>8, <1>9, <1>10, <2>2
    <3> QED
      BY <1>5, <2>2, <3>1
  <2> QED
    BY <2>1, <2>2
<1>12. d \in Seq(Oid) /\ T[g] \subseteq Oid
  BY <1>8, RangeFacts DEF Row
<1>13. /\ u \in Rows /\ u.chain[g] = d /\ u.cursor[g] = n
       /\ \A h \in Gen : h # g => /\ u.chain[h] = t.chain[h]
                                  /\ u.cursor[h] = t.cursor[h]
  <2>1. n \in Oid \cup {NoCursor, Dangling} /\ d \in Seq(Oid)
    BY <1>11, <1>12
  <2> QED
    BY ONLY <1>0, <1>6, <2>1 DEF Rows
<1>14. ASSUME NEW h \in Gen
       PROVE  Row(u.chain[h], T[h]) /\ u.cursor[h] \in T[h] \cup {NoCursor, Dangling}
  <2>1. Row(t.chain[h], S[h]) /\ t.cursor[h] \in S[h] \cup {NoCursor, Dangling}
    BY DEF Listed
  <2>2. CASE h = g
    BY <1>8, <1>11, <1>13, <2>2
  <2>3. CASE h # g
    BY <1>13, <2>1, <2>3
  <2> QED
    BY <2>2, <2>3
<1> QED
  BY <1>13, <1>14 DEF Listed
-----------------------------------------------------------------------------
(* The initial state.                                                        *)

LEMMA InitInv == Init => Inv
<1> SUFFICES ASSUME Init PROVE Inv
  OBVIOUS
<1> USE ConstantsAssumption DEF Init
<1>1. Absent \in Node /\ Absent.gen = 0
  BY DEF Absent, Node, NoLoc
<1>2. Present = {}
  BY <1>1 DEF Present
<1>3. <<>> \in Seq(Oid) /\ Len(<<>>) = 0
  OBVIOUS
<1>4. TypeOK
  BY <1>1, <1>3 DEF TypeOK, NoLoc, NoCursor
<1>5. Listed(Table, Nodes)
  <2>1. Table \in Rows
    BY <1>3 DEF Table, Rows
  <2>2. ASSUME NEW g \in Gen
        PROVE  Row(Table.chain[g], Nodes[g])
               /\ Table.cursor[g] \in Nodes[g] \cup {NoCursor, Dangling}
    <3>1. Nodes[g] = {}
      BY <1>1 DEF Nodes, Gen
    <3>2. Table.chain[g] = <<>> /\ Table.cursor[g] = NoCursor
      BY DEF Table
    <3>3. Range(<<>>) = {}
      BY <1>3, RangeFacts
    <3>4. Row(<<>>, {})
      BY <1>3, <3>3 DEF Row, Distinct
    <3> QED
      BY <3>1, <3>2, <3>4
  <2> QED
    BY <2>1, <2>2 DEF Listed
<1> QED
  BY <1>2, <1>4, <1>5 DEF Inv, Bounds, ScansRight, LocationsRight

-----------------------------------------------------------------------------
(* ld_recordLocation.                                                        *)

\* The rows that go are empty.
LEMMA MovedFacts ==
    ASSUME Listed(Table, Nodes), NEW g \in Gen, ~TooManyGenerations(g)
    PROVE  /\ Listed(Moved(g), Nodes) /\ Moved(g).chain = chain
           /\ \A h \in Gen : \A x : From(chain[h], cursor[h], x) =>
                                      From(chain[h], Moved(g).cursor[h], x)
<1>0. /\ chain \in [Gen -> Seq(Oid)]
      /\ cursor \in [Gen -> Oid \cup {NoCursor, Dangling}]
  BY DEF Listed, Rows, Table
<1>1. \A h \in Gen : Moved(g).cursor[h] = cursor[h]
                     \/ (chain[h] = <<>> /\ Moved(g).cursor[h] = NoCursor)
  BY DEF Moved, TooManyGenerations
<1>2. Moved(g) \in Rows /\ Moved(g).chain = chain
  BY <1>0 DEF Moved, Rows
<1>3. \A h \in Gen : /\ Row(chain[h], Nodes[h])
                     /\ cursor[h] \in Nodes[h] \cup {NoCursor, Dangling}
  BY DEF Listed, Table
<1>4. ASSUME NEW h \in Gen, NEW x, From(chain[h], cursor[h], x)
      PROVE  From(chain[h], Moved(g).cursor[h], x)
  <2>1. Len(<<>>) = 0
    OBVIOUS
  <2>2. chain[h] # <<>>
    BY <1>4, <2>1 DEF From
  <2> QED
    BY <1>1, <1>4, <2>2
<1> QED
  BY <1>1, <1>2, <1>3, <1>4 DEF Listed

\* binary_insert finds the object.
LEMMA UpdateTable ==
    ASSUME TypeOK, Listed(Table, Nodes), ScansRight,
           NEW o \in Oid, NEW g \in Gen, NEW v \in Version, NEW l \in Loc,
           ~TooManyGenerations(g), Update(o, g, v, l)
    PROVE  /\ Listed(Table', Nodes') /\ ScansRight'
           /\ todo' \in [Gen -> SUBSET Oid] /\ quiet' \in [Gen -> BOOLEAN]
<1>0. /\ node \in [Oid -> Node] /\ todo \in [Gen -> SUBSET Oid]
      /\ quiet \in [Gen -> BOOLEAN]
  BY DEF TypeOK
<1>1. PICK k : k = node[o].gen
  OBVIOUS
<1>2. k \in Gen /\ o \in Nodes[k]
  BY <1>0, <1>1 DEF Update, Present, Node, Gen, Nodes
<1>3. PICK m : m = Moved(g)
  OBVIOUS
<1>4. /\ Listed(m, Nodes) /\ m.chain = chain
      /\ \A h \in Gen : \A x : From(chain[h], cursor[h], x) =>
                                 From(chain[h], m.cursor[h], x)
  BY <1>3, MovedFacts
<1>5. PICK T : T = [h \in Gen |-> IF h = k THEN Nodes[k] \ {o} ELSE Nodes[h]]
  OBVIOUS
<1>6. T[k] = Nodes[k] \ {o} /\ \A h \in Gen : h # k => T[h] = Nodes[h]
  BY <1>2, <1>5
<1>7. PICK u : u = unchain_node(m, o, k)
  OBVIOUS
<1>8. /\ Listed(u, T)
      /\ \A h \in Gen : h # k => u.chain[h] = m.chain[h] /\ u.cursor[h] = m.cursor[h]
  BY <1>2, <1>4, <1>6, <1>7, Unchained
<1>9. o \notin T[g]
  BY <1>1, <1>6 DEF Nodes
<1>10. /\ node'[o].gen = g
       /\ \A r \in Oid : r # o => node'[r] = node[r]
  BY <1>0 DEF Update
<1>11. Nodes'[g] = T[g] \cup {o} /\ \A h \in Gen : h # g => Nodes'[h] = T[h]
  <2>1. \A h \in Gen : Nodes'[h] = {r \in Oid : node'[r].gen = h}
    BY DEF Nodes
  <2>2. \A h \in Gen : Nodes[h] = {r \in Oid : node[r].gen = h}
    BY DEF Nodes
  <2>3. \A h \in Gen : T[h] = {r \in Oid : node[r].gen = h} \ {o}
    BY <1>1, <1>5, <2>2
  <2>4. ASSUME NEW h \in Gen, h # g PROVE Nodes'[h] = T[h]
    <3>1. \A r \in Oid : node'[r].gen = h <=> node[r].gen = h /\ r # o
      BY <1>10, <2>4
    <3> QED
      BY <2>1, <2>3, <3>1, ZenonT(30)
  <2>5. Nodes'[g] = T[g] \cup {o}
    BY <1>10, <2>1, <2>3
  <2> QED
    BY <2>4, <2>5
<1>12. PICK w : w = chain_node(u, o, g)
  OBVIOUS
<1>13. PICK N : N = Nodes'
  OBVIOUS
<1>14. /\ Listed(w, N) /\ w.cursor = u.cursor
       /\ \A h \in Gen : h # g => w.chain[h] = u.chain[h]
       /\ \A y, x : From(u.chain[g], y, x) => From(w.chain[g], y, x)
  <2>1. N[g] = T[g] \cup {o} /\ \A h \in Gen : h # g => N[h] = T[h]
    BY <1>11, <1>13
  <2>2. Listed(u, T)
    BY <1>8
  <2> QED
    BY ONLY o \in Oid, g \in Gen, <2>2, <1>9, <1>12, <2>1, Chained, SMTT(30)
<1>15. chain' = w.chain /\ cursor' = w.cursor
  BY <1>1, <1>3, <1>7, <1>12 DEF Update, SetTable
<1>16. Table' = w
  <2>1. w \in Rows
    BY <1>14 DEF Listed
  <2>2. Table' = [chain |-> w.chain, cursor |-> w.cursor]
    BY <1>15 DEF Table
  <2> QED
    BY <2>1, <2>2 DEF Rows
<1>17. Listed(Table', Nodes')
  BY <1>13, <1>14, <1>16
<1>18. /\ quiet' = [quiet EXCEPT ![k] = FALSE]
       /\ todo' = [todo EXCEPT ![k] = @ \ {o}]
  BY <1>1 DEF Update
<1>19. ASSUME NEW h \in Gen, quiet'[h], NEW x \in todo'[h]
       PROVE  From(chain'[h], cursor'[h], x)
  <2>1. h # k /\ quiet[h] /\ x \in todo[h]
    BY <1>0, <1>18, <1>19
  <2>2. From(chain[h], m.cursor[h], x)
    BY <1>4, <2>1 DEF ScansRight
  <2>3. From(u.chain[h], u.cursor[h], x)
    BY <1>4, <1>8, <2>1, <2>2
  <2>4. From(w.chain[h], u.cursor[h], x)
    BY <1>14, <2>3
  <2> QED
    BY <1>14, <1>15, <2>4
<1> QED
  BY <1>0, <1>17, <1>18, <1>19 DEF ScansRight

\* binary_insert adds a node.
LEMMA InsertTable ==
    ASSUME TypeOK, Listed(Table, Nodes), ScansRight,
           NEW o \in Oid, NEW g \in Gen, NEW v \in Version, NEW l \in Loc,
           ~TooManyGenerations(g), Insert(o, g, v, l)
    PROVE  /\ Listed(Table', Nodes') /\ ScansRight'
           /\ todo' \in [Gen -> SUBSET Oid] /\ quiet' \in [Gen -> BOOLEAN]
<1>0. /\ node \in [Oid -> Node] /\ todo \in [Gen -> SUBSET Oid]
      /\ quiet \in [Gen -> BOOLEAN]
  BY DEF TypeOK
<1>1. node[o].gen = 0 /\ o \notin Nodes[g]
  BY DEF Insert, Present, Nodes, Gen
<1>3. PICK m : m = Moved(g)
  OBVIOUS
<1>4. /\ Listed(m, Nodes) /\ m.chain = chain
      /\ \A h \in Gen : \A x : From(chain[h], cursor[h], x) =>
                                 From(chain[h], m.cursor[h], x)
  BY <1>3, MovedFacts
<1>10. /\ node'[o].gen = g
       /\ \A r \in Oid : r # o => node'[r] = node[r]
  BY <1>0 DEF Insert
<1>11. Nodes'[g] = Nodes[g] \cup {o} /\ \A h \in Gen : h # g => Nodes'[h] = Nodes[h]
  <2>1. \A h \in Gen : Nodes'[h] = {r \in Oid : node'[r].gen = h}
    BY DEF Nodes
  <2>2. \A h \in Gen : Nodes[h] = {r \in Oid : node[r].gen = h}
    BY DEF Nodes
  <2>3. \A h \in Gen : h # 0
    BY DEF Gen
  <2>4. ASSUME NEW h \in Gen, h # g PROVE Nodes'[h] = Nodes[h]
    <3>1. \A r \in Oid : node'[r].gen = h <=> node[r].gen = h
      BY <1>1, <1>10, <2>3, <2>4
    <3> QED
      BY <2>1, <2>2, <3>1, ZenonT(30)
  <2>5. Nodes'[g] = Nodes[g] \cup {o}
    BY <1>10, <2>1, <2>2
  <2> QED
    BY <2>4, <2>5
<1>12. PICK w : w = chain_node(m, o, g)
  OBVIOUS
<1>13. PICK N : N = Nodes'
  OBVIOUS
<1>14. /\ Listed(w, N) /\ w.cursor = m.cursor
       /\ \A h \in Gen : h # g => w.chain[h] = m.chain[h]
       /\ \A y, x : From(m.chain[g], y, x) => From(w.chain[g], y, x)
  <2>1. PICK T : T = Nodes
    OBVIOUS
  <2>2. /\ N[g] = T[g] \cup {o} /\ \A h \in Gen : h # g => N[h] = T[h]
        /\ Listed(m, T) /\ o \notin T[g]
    BY <1>1, <1>4, <1>11, <1>13, <2>1
  <2> QED
    BY ONLY o \in Oid, g \in Gen, <1>12, <2>2, Chained
<1>15. chain' = w.chain /\ cursor' = w.cursor /\ quiet' = quiet /\ todo' = todo
  BY <1>3, <1>12 DEF Insert, SetTable
<1>16. Table' = w
  <2>1. w \in Rows
    BY <1>14 DEF Listed
  <2>2. Table' = [chain |-> w.chain, cursor |-> w.cursor]
    BY <1>15 DEF Table
  <2> QED
    BY <2>1, <2>2 DEF Rows
<1>17. Listed(Table', Nodes')
  BY <1>13, <1>14, <1>16
<1>19. ASSUME NEW h \in Gen, quiet'[h], NEW x \in todo'[h]
       PROVE  From(chain'[h], cursor'[h], x)
  <2>1. quiet[h] /\ x \in todo[h]
    BY <1>15, <1>19
  <2>2. From(m.chain[h], m.cursor[h], x)
    BY <1>4, <2>1 DEF ScansRight
  <2>4. From(w.chain[h], m.cursor[h], x)
    BY <1>14, <2>2
  <2> QED
    BY <1>14, <1>15, <2>4
<1> QED
  BY <1>0, <1>15, <1>17, <1>19 DEF ScansRight
\* What is recorded of the object, in its node and in the history.
LEMMA RecordedNode ==
    ASSUME TypeOK, Bounds, LocationsRight,
           NEW o \in Oid, NEW g \in Gen, NEW v \in Version, NEW l \in Loc,
           g >= highest, ld_recordLocation(o, g, v, l)
    PROVE  /\ node' \in [Oid -> Node] /\ node'[o].gen = g
           /\ \A r \in Oid : r # o => node'[r] = node[r]
           /\ LocationsRight'
<1> USE ConstantsAssumption
<1>0. /\ node \in [Oid -> Node] /\ retired \in Nat
      /\ recorded \in [Oid -> [Gen -> Loc \cup {NoLoc}]]
      /\ Gen \subseteq Nat /\ 0 \notin Gen
  BY DEF TypeOK, Gen
<1>1. PICK n : n = node[o]
  OBVIOUS
<1>2. n \in Node /\ n.gen \in 0 .. MaxGen /\ n.loc \in Loc \cup {NoLoc}
      /\ n.ppDelta \in 0 .. MaxGen /\ n.ppLoc \in Loc \cup {NoLoc}
  BY <1>0, <1>1 DEF Node
<1>3. PICK f : f = [h \in Gen |-> IF h = g THEN l
                                  ELSE IF o \in Present /\ n.ver = v THEN recorded[o][h]
                                  ELSE NoLoc]
  OBVIOUS
<1>4. recorded' = [recorded EXCEPT ![o] = f] /\ retired' = retired
  BY <1>0, <1>1, <1>3 DEF ld_recordLocation
<1>5. \E x \in Node :
        /\ node' = [node EXCEPT ![o] = x] /\ x.gen = g /\ x.loc = l
        /\ \/ x.ppDelta = 0
           \/ /\ o \in Present /\ KeepsPrevious(n, g, v)
              /\ x.ppDelta = g - n.gen /\ x.ppLoc = n.loc
  <2>1. CASE Update(o, g, v, l) /\ KeepsPrevious(n, g, v)
    <3>1. PICK x : x = [gen |-> g, loc |-> l, ver |-> v,
                        ppDelta |-> g - n.gen, ppLoc |-> n.loc]
      OBVIOUS
    <3>2. node' = [node EXCEPT ![o] = x] /\ o \in Present
      BY <1>0, <1>1, <2>1, <3>1 DEF Update, PreviousDelta
    <3>3. x \in Node
      BY <1>2, <2>1, <3>1 DEF Node, KeepsPrevious, Gen
    <3> QED
      BY <2>1, <3>1, <3>2, <3>3
  <2>2. CASE Update(o, g, v, l) /\ ~KeepsPrevious(n, g, v)
    <3>1. PICK x : x = [gen |-> g, loc |-> l, ver |-> v, ppDelta |-> 0,
                        ppLoc |-> n.ppLoc]
      OBVIOUS
    <3>2. node' = [node EXCEPT ![o] = x]
      BY <1>0, <1>1, <2>2, <3>1 DEF Update
    <3>3. x \in Node
      BY <1>2, <3>1 DEF Node, Gen
    <3> QED
      BY <3>1, <3>2, <3>3
  <2>3. CASE Insert(o, g, v, l)
    <3>1. PICK pp \in StaleLoc :
            node' = [node EXCEPT ![o] = [gen |-> g, loc |-> l, ver |-> v,
                                         ppDelta |-> 0, ppLoc |-> pp]]
      BY <2>3 DEF Insert
    <3>2. PICK x : x = [gen |-> g, loc |-> l, ver |-> v, ppDelta |-> 0, ppLoc |-> pp]
      OBVIOUS
    <3>3. x \in Node
      BY <3>1, <3>2 DEF Node, Gen, NoLoc
    <3> QED
      BY <3>1, <3>2, <3>3
  <2> QED
    BY <2>1, <2>2, <2>3 DEF ld_recordLocation
<1>6. PICK x \in Node :
        /\ node' = [node EXCEPT ![o] = x] /\ x.gen = g /\ x.loc = l
        /\ \/ x.ppDelta = 0
           \/ /\ o \in Present /\ KeepsPrevious(n, g, v)
              /\ x.ppDelta = g - n.gen /\ x.ppLoc = n.loc
  BY <1>5
<1>7. /\ node' \in [Oid -> Node] /\ node'[o] = x
      /\ \A r \in Oid : r # o => node'[r] = node[r] /\ recorded'[r] = recorded[r]
      /\ recorded'[o] = f
  BY <1>0, <1>4, <1>6
<1>8. ASSUME NEW h \in Gen, f[h] # NoLoc, h # g
      PROVE  o \in Present /\ f[h] = recorded[o][h] /\ h <= n.gen /\ n.gen <= g
  <2>1. o \in Present /\ f[h] = recorded[o][h]
    BY <1>3, <1>8
  <2>2. h <= n.gen
    BY <1>1, <1>8, <2>1 DEF LocationsRight
  <2>3. n.gen <= g
    <3>1. n.gen <= highest
      BY <1>1, <2>1 DEF Bounds, InTable
    <3> QED
      BY <1>0, <1>2, <3>1 DEF TypeOK
  <2> QED
    BY <2>1, <2>2, <2>3
<1>9. ASSUME NEW r \in Oid, r # o, r \in Present'
      PROVE  /\ r \in Present /\ node'[r] = node[r] /\ recorded'[r] = recorded[r]
  BY <1>7, <1>9 DEF Present
<1>10. \A h \in Gen : f[h] # NoLoc => h <= g
  BY <1>0, <1>2, <1>8
<1>11. f[g] = l /\ l # NoLoc
  BY <1>3 DEF NoLoc
<1>12. ASSUME x.ppDelta # 0
       PROVE  /\ Previous(x) \in Gen /\ Previous(x) = n.gen /\ n.gen < g
              /\ x.ppLoc \in Loc /\ f[n.gen] = x.ppLoc
              /\ \A h \in Gen : n.gen < h /\ h < g => f[h] = NoLoc
  <2>1. /\ o \in Present /\ g > n.gen /\ n.gen > retired /\ n.ver = v
        /\ x.ppDelta = g - n.gen /\ x.ppLoc = n.loc
    BY <1>6, <1>12 DEF KeepsPrevious
  <2>2. n.gen \in Gen /\ Previous(x) = n.gen
    BY <1>0, <1>2, <1>6, <2>1 DEF Previous, Gen
  <2>3. n.loc \in Loc /\ recorded[o][n.gen] = n.loc
    BY <1>1, <2>1 DEF LocationsRight
  <2>4. f[n.gen] = n.loc
    <3>1. n.gen # g
      BY <1>0, <1>2, <2>1
    <3> QED
      BY <1>3, <2>1, <2>2, <2>3, <3>1
  <2>5. ASSUME NEW h \in Gen, n.gen < h, h < g PROVE f[h] = NoLoc
    <3>1. ~(h <= n.gen) /\ h # g
      BY <1>0, <1>2, <2>5
    <3> QED
      BY <1>8, <3>1
  <2> QED
    BY <2>1, <2>2, <2>3, <2>4, <2>5
<1>13. LocationsRight'
  <2> SUFFICES ASSUME NEW r \in Present'
               PROVE
      /\ \A h \in Gen : recorded'[r][h] # NoLoc => h <= node'[r].gen
      /\ node'[r].loc \in Loc
      /\ node'[r].gen > retired' => recorded'[r][node'[r].gen] = node'[r].loc
      /\ node'[r].ppDelta # 0 =>
           /\ Previous(node'[r]) \in Gen
           /\ Previous(node'[r]) > retired' =>
                /\ node'[r].ppLoc \in Loc
                /\ recorded'[r][Previous(node'[r])] = node'[r].ppLoc
                /\ \A h \in Gen : Previous(node'[r]) < h /\ h < node'[r].gen =>
                     recorded'[r][h] = NoLoc
    BY DEF LocationsRight
  <2>0. r \in Oid
    BY DEF Present
  <2>1. CASE r = o
    BY <1>6, <1>7, <1>10, <1>11, <1>12, <2>1
  <2>2. CASE r # o
    <3>1. r \in Present /\ node'[r] = node[r] /\ recorded'[r] = recorded[r]
      BY <1>9, <2>0, <2>2
    <3> QED
      BY <1>4, <3>1 DEF LocationsRight
  <2> QED
    BY <2>1, <2>2
<1> QED
  BY <1>6, <1>7, <1>13

\* ld_recordLocation.
LEMMA RecordInv ==
    ASSUME Inv, NEW o \in Oid, NEW g \in Gen, NEW v \in VersionsOf[o], NEW l \in Loc,
           ld_recordLocation(o, g, v, l)
    PROVE  Inv'
<1> USE ConstantsAssumption
<1>0. /\ TypeOK /\ Listed(Table, Nodes) /\ Bounds /\ ScansRight /\ LocationsRight
      /\ v \in Version /\ ~TooManyGenerations(g) /\ g >= highest
      /\ highest' = g /\ retired' = retired /\ halted' = halted
  BY DEF Inv, ld_recordLocation, Oid
<1>1. /\ node' \in [Oid -> Node] /\ node'[o].gen = g
      /\ \A r \in Oid : r # o => node'[r] = node[r]
      /\ LocationsRight'
  BY <1>0, RecordedNode
<1>2. /\ Listed(Table', Nodes') /\ ScansRight'
      /\ todo' \in [Gen -> SUBSET Oid] /\ quiet' \in [Gen -> BOOLEAN]
  <2>1. CASE Update(o, g, v, l)
    BY <1>0, <2>1, UpdateTable
  <2>2. CASE Insert(o, g, v, l)
    BY <1>0, <2>2, InsertTable
  <2> QED
    BY <2>1, <2>2 DEF ld_recordLocation
<1>3. /\ chain' \in [Gen -> Seq(Oid)]
      /\ cursor' \in [Gen -> Oid \cup {NoCursor, Dangling}]
  BY <1>2 DEF Listed, Rows, Table
<1>4. recorded' \in [Oid -> [Gen -> Loc \cup {NoLoc}]]
  <2>1. PICK f : f = [h \in Gen |-> IF h = g THEN l
                                   ELSE IF o \in Present /\ node[o].ver = v
                                          THEN recorded[o][h] ELSE NoLoc]
    OBVIOUS
  <2>2. recorded \in [Oid -> [Gen -> Loc \cup {NoLoc}]]
    BY <1>0 DEF TypeOK
  <2>3. recorded' = [recorded EXCEPT ![o] = f]
    BY <2>1, <2>2 DEF ld_recordLocation
  <2>4. f \in [Gen -> Loc \cup {NoLoc}]
    BY <2>1, <2>2
  <2> QED
    BY <2>2, <2>3, <2>4
<1>5. highest' \in 0 .. MaxGen /\ retired' \in 0 .. highest'
  BY <1>0 DEF TypeOK, Gen
<1>6. TypeOK'
  BY <1>0, <1>1, <1>2, <1>3, <1>4, <1>5 DEF TypeOK
<1>7. Bounds'
  <2> SUFFICES ASSUME NEW r \in Present'
               PROVE  node'[r].gen <= highest' /\ highest' - node'[r].gen < NumGenerations
    BY DEF Bounds, InTable
  <2>0. r \in Oid
    BY DEF Present
  <2>1. CASE r = o
    BY <1>0, <1>1, <2>1 DEF Gen
  <2>2. CASE r # o
    <3>1. PICK h : h = node[r].gen
      OBVIOUS
    <3>2. node'[r].gen = h /\ h \in Gen /\ h <= highest /\ r \in Nodes[h]
      BY <1>0, <1>1, <2>0, <2>2, <3>1 DEF Present, Bounds, InTable, TypeOK, Node, Gen, Nodes
    <3>3. Row(chain[h], Nodes[h])
      BY <1>0, <3>2 DEF Listed, Table
    <3>4. chain[h] # <<>>
      BY <3>2, <3>3, RangeFacts DEF Row
    <3>5. ~(h + NumGenerations <= g)
      BY <1>0, <3>2, <3>4 DEF TooManyGenerations
    <3> QED
      BY <1>0, <3>2, <3>5 DEF Gen, TypeOK
  <2> QED
    BY <2>1, <2>2
<1> QED
  BY <1>1, <1>2, <1>6, <1>7 DEF Inv
-----------------------------------------------------------------------------
(* Scans.                                                                    *)

\* The cursor moves on: only the node that it leaves is behind it then.
LEMMA Advanced ==
    ASSUME NEW c, NEW S, Row(c, S), NEW o \in S
    PROVE  /\ Advance(c, o) \in S \cup {NoCursor}
           /\ \A x : From(c, o, x) /\ x # o => From(c, Advance(c, o), x)
<1>0. c \in Seq(Oid) /\ Len(c) \in Nat /\ Distinct(c)
  BY SeqFacts DEF Row
<1>1. PICK i : i = PositionOn(c, o)
  OBVIOUS
<1>2. i \in 1 .. Len(c) /\ c[i] = o /\ NextOnChain(c, o) \in S
  BY <1>1, OnRow
<1>3. NextOnChain(c, o) = IF i = Len(c) THEN c[1] ELSE c[i + 1]
  BY <1>1 DEF NextOnChain
<1>4. ASSUME NEW x, From(c, o, x), x # o PROVE From(c, Advance(c, o), x)
  <2>1. PICK a \in 1 .. Len(c), b \in 1 .. Len(c) : a <= b /\ c[a] = o /\ c[b] = x
    BY <1>4 DEF From
  <2>2. a = i
    BY <1>0, <1>2, <2>1 DEF Distinct
  <2>3. b # i
    BY <1>2, <1>4, <2>1
  <2>4. i + 1 \in 1 .. Len(c) /\ i + 1 <= b /\ 1 \in 1 .. Len(c) /\ i + 1 # 1 /\ i # Len(c)
    BY <1>0, <1>2, <2>1, <2>2, <2>3
  <2>5. c[i + 1] # c[1]
    BY <1>0, <2>4 DEF Distinct
  <2>6. Advance(c, o) = c[i + 1]
    BY <1>3, <2>4, <2>5 DEF Advance
  <2> QED
    BY <2>1, <2>4, <2>6 DEF From
<1> QED
  BY <1>2, <1>4 DEF Advance

\* ld_resetScan.
LEMMA ResetInv ==
    ASSUME Inv, NEW g \in Gen, ld_resetScan(g)
    PROVE  Inv'
<1>0. /\ TypeOK /\ Listed(Table, Nodes) /\ Bounds /\ ScansRight /\ LocationsRight
  BY DEF Inv
<1>1. PICK k : k = IF chain[g] = <<>> THEN NoCursor ELSE chain[g][1]
  OBVIOUS
<1>2. /\ cursor' = [cursor EXCEPT ![g] = k]
      /\ todo' = [todo EXCEPT ![g] = Range(chain[g])]
      /\ quiet' = [quiet EXCEPT ![g] = TRUE]
      /\ UNCHANGED <<node, chain, highest, retired, halted, recorded>>
  BY <1>1 DEF ld_resetScan
<1>3. Row(chain[g], Nodes[g])
  BY <1>0 DEF Listed, Table
<1>4. chain[g] # <<>> => chain[g][1] \in Nodes[g]
  <2>1. chain[g] # <<>> => 1 \in 1 .. Len(chain[g])
    BY <1>3, SeqFacts DEF Row
  <2> QED
    BY <1>3, <2>1, RangeFacts DEF Row
<1>5. k \in Nodes[g] \cup {NoCursor} /\ Nodes[g] \subseteq Oid
  BY <1>1, <1>4 DEF Nodes
<1>6. cursor' \in [Gen -> Oid \cup {NoCursor, Dangling}]
  BY <1>0, <1>2, <1>5 DEF TypeOK
<1>7. Range(chain[g]) \subseteq Oid
  BY <1>3, RangeFacts DEF Row
<1>8. TypeOK'
  BY <1>0, <1>2, <1>6, <1>7 DEF TypeOK
<1>9. Listed(Table', Nodes')
  <2>1. Nodes' = Nodes /\ chain' = chain
    BY <1>2 DEF Nodes
  <2>2. Table' = [chain |-> chain, cursor |-> cursor']
    BY <2>1 DEF Table
  <2>3. \A h \in Gen : /\ Row(chain[h], Nodes[h])
                       /\ cursor'[h] \in Nodes[h] \cup {NoCursor, Dangling}
    BY <1>0, <1>2, <1>5 DEF Listed, Table, TypeOK
  <2>4. Table' \in Rows
    BY <1>0, <1>6, <2>2 DEF Rows, TypeOK
  <2> QED
    BY <2>1, <2>2, <2>3, <2>4 DEF Listed
<1>10. ScansRight'
  <2> SUFFICES ASSUME NEW h \in Gen, quiet'[h], NEW x \in todo'[h]
               PROVE  From(chain'[h], cursor'[h], x)
    BY DEF ScansRight
  <2>1. CASE h = g
    <3>1. x \in Range(chain[g]) /\ cursor'[g] = k /\ chain' = chain
      BY <1>0, <1>2, <2>1 DEF TypeOK
    <3>2. PICK j \in 1 .. Len(chain[g]) : chain[g][j] = x
      BY <1>3, <3>1, RangeFacts DEF Row
    <3>3. chain[g] # <<>> /\ 1 \in 1 .. Len(chain[g]) /\ 1 <= j
      BY <1>3, <3>2, SeqFacts DEF Row
    <3>4. k = chain[g][1]
      BY <1>1, <3>3
    <3> QED
      BY <2>1, <3>1, <3>2, <3>3, <3>4 DEF From
  <2>2. CASE h # g
    <3>1. quiet[h] /\ x \in todo[h] /\ cursor'[h] = cursor[h] /\ chain' = chain
      BY <1>0, <1>2, <2>2 DEF TypeOK
    <3> QED
      BY <1>0, <3>1 DEF ScansRight
  <2> QED
    BY <2>1, <2>2
<1>11. Bounds' /\ LocationsRight'
  BY <1>0, <1>2 DEF Bounds, LocationsRight, Present, InTable
<1> QED
  BY <1>8, <1>9, <1>10, <1>11 DEF Inv

\* ld_findNextObject.
LEMMA FindNextInv ==
    ASSUME Inv, NEW g \in Gen, ld_findNextObject(g)
    PROVE  Inv'
<1>0. /\ TypeOK /\ Listed(Table, Nodes) /\ Bounds /\ ScansRight /\ LocationsRight
  BY DEF Inv
<1>1. PICK o : o = cursor[g]
  OBVIOUS
<1>2. PICK c : /\ c \in IF o # Dangling THEN {Advance(chain[g], o)}
                        ELSE Range(chain[g]) \cup {NoCursor, Dangling}
               /\ cursor' = [cursor EXCEPT ![g] = c]
  BY <1>1 DEF ld_findNextObject
<1>3. /\ todo' = [todo EXCEPT ![g] = @ \ {o}] /\ o # NoCursor
      /\ UNCHANGED <<node, chain, highest, retired, halted, recorded, quiet>>
  BY <1>1 DEF ld_findNextObject
<1>4. /\ Row(chain[g], Nodes[g]) /\ o \in Nodes[g] \cup {NoCursor, Dangling}
  BY <1>0, <1>1 DEF Listed, Table
<1>5. PICK S : S = Nodes[g]
  OBVIOUS
<1>6. /\ c \in S \cup {NoCursor, Dangling}
      /\ \A x : From(chain[g], o, x) /\ x # o => From(chain[g], c, x)
  <2>1. CASE o # Dangling
    <3>1. o \in S /\ Row(chain[g], S) /\ c = Advance(chain[g], o)
      BY <1>2, <1>3, <1>4, <1>5, <2>1
    <3> QED
      BY <3>1, Advanced
  <2>2. CASE o = Dangling
    <3>1. c \in S \cup {NoCursor, Dangling}
      BY <1>2, <1>4, <1>5, <2>2 DEF Row
    <3>2. \A x : ~From(chain[g], o, x)
      <4>1. \A i \in 1 .. Len(chain[g]) : chain[g][i] \in Oid
        BY <1>4, SeqFacts DEF Row
      <4>2. o \notin Oid
        BY <2>2, ConstantsAssumption DEF Dangling, Oid
      <4> QED
        BY <4>1, <4>2 DEF From
    <3> QED
      BY <3>1, <3>2
  <2> QED
    BY <2>1, <2>2
<1>7. S \subseteq Oid
  BY <1>5 DEF Nodes
<1>8. cursor' \in [Gen -> Oid \cup {NoCursor, Dangling}]
  BY <1>0, <1>2, <1>6, <1>7 DEF TypeOK
<1>9. TypeOK'
  BY <1>0, <1>3, <1>8 DEF TypeOK
<1>10. Listed(Table', Nodes')
  <2>1. Nodes' = Nodes /\ chain' = chain
    BY <1>3 DEF Nodes
  <2>2. Table' = [chain |-> chain, cursor |-> cursor']
    BY <2>1 DEF Table
  <2>3. \A h \in Gen : /\ Row(chain[h], Nodes[h])
                       /\ cursor'[h] \in Nodes[h] \cup {NoCursor, Dangling}
    BY <1>0, <1>2, <1>5, <1>6 DEF Listed, Table, TypeOK
  <2>4. Table' \in Rows
    BY <1>0, <1>8, <2>2 DEF Rows, TypeOK
  <2> QED
    BY <2>1, <2>2, <2>3, <2>4 DEF Listed
<1>11. ScansRight'
  <2> SUFFICES ASSUME NEW h \in Gen, quiet'[h], NEW x \in todo'[h]
               PROVE  From(chain'[h], cursor'[h], x)
    BY DEF ScansRight
  <2>1. CASE h = g
    <3>1. x \in todo[g] \ {o} /\ cursor'[g] = c /\ chain' = chain /\ quiet[g]
      BY <1>0, <1>2, <1>3, <2>1 DEF TypeOK
    <3>2. From(chain[g], o, x)
      BY <1>0, <1>1, <3>1 DEF ScansRight
    <3> QED
      BY <1>6, <2>1, <3>1, <3>2
  <2>2. CASE h # g
    <3>1. quiet[h] /\ x \in todo[h] /\ cursor'[h] = cursor[h] /\ chain' = chain
      BY <1>0, <1>2, <1>3, <2>2 DEF TypeOK
    <3> QED
      BY <1>0, <3>1 DEF ScansRight
  <2> QED
    BY <2>1, <2>2
<1>12. Bounds' /\ LocationsRight'
  BY <1>0, <1>3 DEF Bounds, LocationsRight, Present, InTable
<1> QED
  BY <1>9, <1>10, <1>11, <1>12 DEF Inv
-----------------------------------------------------------------------------
(* Removal.                                                                  *)

\* Rows other than g and h are as they were.
SameRows(t, u, g, h) ==
    \A k \in Gen : k # g /\ k # h =>
      u.chain[k] = t.chain[k] /\ u.cursor[k] = t.cursor[k]

\* A removal that borrows the row of the successor: the node is on the chain
\* of generation g, then on that of h, then back on that of g.
LEMMA SwappedListed ==
    ASSUME NEW t, NEW S, Listed(t, S), NEW g \in Gen, NEW h \in Gen,
           NEW o \in Oid, o \in S[g], h # g => o \notin S[h],
           NEW u, u = chain_node(unchain_node(chain_node(unchain_node(t, o, g), o, h), o, h), o, g)
    PROVE  Listed(u, S) /\ SameRows(t, u, g, h)
<1>1. PICK T : T = [k \in Gen |-> IF k = g THEN S[g] \ {o} ELSE S[k]]
  OBVIOUS
<1>2. T[g] = S[g] \ {o} /\ \A k \in Gen : k # g => T[k] = S[k]
  BY <1>1
<1>3. PICK U : U = [k \in Gen |-> IF k = h THEN T[h] \cup {o} ELSE T[k]]
  OBVIOUS
<1>4. U[h] = T[h] \cup {o} /\ \A k \in Gen : k # h => U[k] = T[k]
  BY <1>3
<1>5. o \notin T[h] /\ o \notin T[g]
  BY <1>2
<1>6. PICK a : a = unchain_node(t, o, g)
  OBVIOUS
<1>7. Listed(a, T) /\ \A k \in Gen : k # g => /\ a.chain[k] = t.chain[k]
                                              /\ a.cursor[k] = t.cursor[k]
  BY <1>2, <1>6, Unchained
<1>8. PICK b : b = chain_node(a, o, h)
  OBVIOUS
<1>9. /\ Listed(b, U) /\ b.cursor = a.cursor
      /\ \A k \in Gen : k # h => b.chain[k] = a.chain[k]
  <2>1. Listed(a, T)
    BY <1>7
  <2> QED
    BY ONLY <2>1, o \in Oid, h \in Gen, <1>4, <1>5, <1>8, Chained
<1>10. PICK c : c = unchain_node(b, o, h)
  OBVIOUS
<1>11. Listed(c, T) /\ \A k \in Gen : k # h => /\ c.chain[k] = b.chain[k]
                                               /\ c.cursor[k] = b.cursor[k]
  <2>1. T[h] = U[h] \ {o} /\ (\A k \in Gen : k # h => T[k] = U[k]) /\ o \in U[h]
    BY <1>4, <1>5
  <2>2. Listed(b, U)
    BY <1>9
  <2> QED
    BY ONLY <2>2, h \in Gen, <1>10, <2>1, Unchained
<1>12. u = chain_node(c, o, g)
  BY <1>6, <1>8, <1>10
<1>13. /\ Listed(u, S) /\ u.cursor = c.cursor
       /\ \A k \in Gen : k # g => u.chain[k] = c.chain[k]
  <2>1. S[g] = T[g] \cup {o} /\ \A k \in Gen : k # g => S[k] = T[k]
    BY <1>2
  <2>2. Listed(c, T)
    BY <1>11
  <2> QED
    BY ONLY <2>2, o \in Oid, g \in Gen, <1>5, <1>12, <2>1, Chained
<1> QED
  BY <1>7, <1>9, <1>11, <1>13 DEF SameRows

\* ld_removeObjectEntry.
LEMMA RemoveInv ==
    ASSUME Inv, NEW o \in Oid, ld_removeObjectEntry(o)
    PROVE  Inv'
<1> USE ConstantsAssumption
<1>0. /\ TypeOK /\ Listed(Table, Nodes) /\ Bounds /\ ScansRight /\ LocationsRight
      /\ node \in [Oid -> Node] /\ quiet \in [Gen -> BOOLEAN]
      /\ todo \in [Gen -> SUBSET Oid]
  BY DEF Inv, TypeOK
<1>1. PICK y \in SplicedOut(o) :
        /\ SetTable(unchain_node(Swapped(o, y), o, node[o].gen))
        /\ quiet' = [quiet EXCEPT ![node[o].gen] = FALSE, ![node[y].gen] = FALSE]
  BY DEF ld_removeObjectEntry
<1>2. o \in Present /\ y \in Present
  BY DEF ld_removeObjectEntry, SplicedOut
<1>3. PICK g : g = node[o].gen
  OBVIOUS
<1>4. PICK h : h = node[y].gen
  OBVIOUS
<1>5. g \in Gen /\ h \in Gen /\ o \in Nodes[g] /\ (h # g => o \notin Nodes[h])
  BY <1>0, <1>2, <1>3, <1>4 DEF Present, Node, Gen, Nodes
<1>6. PICK s : s = Swapped(o, y)
  OBVIOUS
<1>7. PICK t : t = Table
  OBVIOUS
<1>8. PICK S : S = Nodes
  OBVIOUS
<1>9. Listed(s, S) /\ SameRows(t, s, g, h)
  <2>0. Listed(t, S) /\ o \in S[g] /\ (h # g => o \notin S[h])
    BY <1>0, <1>5, <1>7, <1>8
  <2>1. CASE y = o
    <3>1. s = t
      BY <1>6, <1>7, <2>1 DEF Swapped
    <3> QED
      BY <2>0, <3>1 DEF SameRows
  <2>2. CASE y # o
    <3>1. s = chain_node(unchain_node(chain_node(unchain_node(t, o, g), o, h), o, h), o, g)
      BY <1>3, <1>4, <1>6, <1>7, <2>2 DEF Swapped
    <3> QED
      BY ONLY <2>0, <1>5, <3>1, o \in Oid, SwappedListed
  <2> QED
    BY <2>1, <2>2
<1>10. PICK u : u = unchain_node(s, o, g)
  OBVIOUS
<1>11. node' = [node EXCEPT ![o] = Absent] /\ Absent \in Node /\ Absent.gen = 0
  BY DEF ld_removeObjectEntry, Absent, Node, NoLoc
<1>12. /\ node' \in [Oid -> Node] /\ node'[o].gen = 0
       /\ \A r \in Oid : r # o => node'[r] = node[r]
  BY <1>0, <1>11
<1>13. PICK N : N = Nodes'
  OBVIOUS
<1>14. N[g] = S[g] \ {o} /\ \A k \in Gen : k # g => N[k] = S[k]
  <2>1. \A k \in Gen : N[k] = {r \in Oid : node'[r].gen = k}
    BY <1>13 DEF Nodes
  <2>2. \A k \in Gen : S[k] = {r \in Oid : node[r].gen = k}
    BY <1>8 DEF Nodes
  <2>3. 0 \notin Gen
    BY DEF Gen
  <2>4. ASSUME NEW k \in Gen, k # g PROVE N[k] = S[k]
    <3>1. \A r \in Oid : node'[r].gen = k <=> node[r].gen = k
      BY <1>3, <1>12, <2>3, <2>4
    <3> QED
      BY <2>1, <2>2, <3>1
  <2>5. N[g] = S[g] \ {o}
    <3>1. \A r \in Oid : node'[r].gen = g <=> node[r].gen = g /\ r # o
      BY <1>5, <1>12, <2>3
    <3> QED
      BY <1>5, <2>1, <2>2, <3>1
  <2> QED
    BY <2>4, <2>5
<1>15. Listed(u, N) /\ \A k \in Gen : k # g => /\ u.chain[k] = s.chain[k]
                                               /\ u.cursor[k] = s.cursor[k]
  <2>1. Listed(s, S) /\ o \in S[g]
    BY <1>5, <1>8, <1>9
  <2> QED
    BY ONLY <2>1, <1>5, <1>10, <1>14, Unchained
<1>16. chain' = u.chain /\ cursor' = u.cursor
  BY <1>1, <1>3, <1>6, <1>10 DEF SetTable
<1>17. Table' = u
  <2>1. u \in Rows
    BY <1>15 DEF Listed
  <2>2. Table' = [chain |-> u.chain, cursor |-> u.cursor]
    BY <1>16 DEF Table
  <2> QED
    BY <2>1, <2>2 DEF Rows
<1>18. Listed(Table', Nodes')
  BY <1>13, <1>15, <1>17
<1>19. /\ quiet' = [quiet EXCEPT ![g] = FALSE, ![h] = FALSE]
       /\ todo' = [todo EXCEPT ![g] = @ \ {o}]
       /\ recorded' = [recorded EXCEPT ![o] = [k \in Gen |-> NoLoc]]
       /\ UNCHANGED <<highest, retired, halted>>
  BY <1>1, <1>3, <1>4 DEF ld_removeObjectEntry
<1>20. ASSUME NEW k \in Gen, quiet'[k], NEW x \in todo'[k]
       PROVE  From(chain'[k], cursor'[k], x)
  <2>1. k # g /\ k # h /\ quiet[k] /\ x \in todo[k]
    BY <1>0, <1>5, <1>19, <1>20
  <2>2. From(t.chain[k], t.cursor[k], x)
    BY <1>0, <1>7, <2>1 DEF ScansRight, Table
  <2> QED
    BY <1>9, <1>15, <1>16, <2>1, <2>2 DEF SameRows
<1>21. /\ chain' \in [Gen -> Seq(Oid)]
       /\ cursor' \in [Gen -> Oid \cup {NoCursor, Dangling}]
  BY <1>18 DEF Listed, Rows, Table
<1>22. quiet' \in [Gen -> BOOLEAN] /\ todo' \in [Gen -> SUBSET Oid]
  BY <1>0, <1>5, <1>19
<1>23. recorded' \in [Oid -> [Gen -> Loc \cup {NoLoc}]]
  BY <1>0, <1>19 DEF TypeOK
<1>24. TypeOK'
  BY <1>0, <1>12, <1>19, <1>21, <1>22, <1>23 DEF TypeOK
<1>25. ASSUME NEW r \in Present'
       PROVE  r \in Present /\ node'[r] = node[r] /\ recorded'[r] = recorded[r]
  <2>1. r \in Oid /\ r # o /\ recorded \in [Oid -> [Gen -> Loc \cup {NoLoc}]]
    BY <1>0, <1>12 DEF Present, TypeOK
  <2> QED
    BY <1>12, <1>19, <2>1 DEF Present
<1>26. Bounds'
  BY <1>0, <1>19, <1>25 DEF Bounds, InTable
<1>27. LocationsRight'
  BY <1>0, <1>19, <1>25 DEF LocationsRight
<1> QED
  BY <1>18, <1>20, <1>24, <1>26, <1>27 DEF Inv, ScansRight

\* ld_clearGeneration.
LEMMA ClearInv ==
    ASSUME Inv, NEW g \in Gen, ld_clearGeneration(g)
    PROVE  Inv'
<1> USE ConstantsAssumption
<1>0. /\ TypeOK /\ Listed(Table, Nodes) /\ Bounds /\ ScansRight /\ LocationsRight
      /\ node \in [Oid -> Node] /\ quiet \in [Gen -> BOOLEAN]
      /\ todo \in [Gen -> SUBSET Oid] /\ chain \in [Gen -> Seq(Oid)]
      /\ cursor \in [Gen -> Oid \cup {NoCursor, Dangling}]
      /\ recorded \in [Oid -> [Gen -> Loc \cup {NoLoc}]]
  BY DEF Inv, TypeOK
<1>1. PICK ended \in SUBSET {h \in g + 1 .. MaxGen : Borrowable(h, g)} :
        /\ cursor' = [h \in Gen |->
              IF h \in ended \/ (h <= g /\ chain[h] # <<>>) THEN NoCursor
              ELSE cursor[h]]
        /\ quiet' = [h \in Gen |-> quiet[h] /\ h \notin ended /\ h > g]
  BY DEF ld_clearGeneration
<1>2. /\ node' = [o \in Oid |-> IF o \in Old(g) THEN Absent ELSE node[o]]
      /\ recorded' = [o \in Oid |-> IF o \in Old(g) THEN [h \in Gen |-> NoLoc]
                                    ELSE recorded[o]]
      /\ chain' = [h \in Gen |-> IF h <= g THEN <<>> ELSE chain[h]]
      /\ todo' = [h \in Gen |-> IF h <= g THEN {} ELSE todo[h]]
      /\ UNCHANGED <<highest, retired, halted>>
  BY DEF ld_clearGeneration
<1>3. Absent \in Node /\ Absent.gen = 0 /\ <<>> \in Seq(Oid) /\ 0 \notin Gen
  BY DEF Absent, Node, NoLoc, Gen
<1>4. \A o \in Oid : node'[o] = (IF o \in Old(g) THEN Absent ELSE node[o])
  BY <1>2
<1>5. node' \in [Oid -> Node]
  BY <1>0, <1>2, <1>3
<1>6. /\ chain' \in [Gen -> Seq(Oid)]
      /\ cursor' \in [Gen -> Oid \cup {NoCursor, Dangling}]
  BY <1>0, <1>1, <1>2, <1>3
<1>7. /\ todo' \in [Gen -> SUBSET Oid]
      /\ recorded' \in [Oid -> [Gen -> Loc \cup {NoLoc}]]
  BY <1>0, <1>2
<1>8. quiet' \in [Gen -> BOOLEAN]
  BY <1>0, <1>1
<1>9. TypeOK'
  BY <1>0, <1>2, <1>5, <1>6, <1>7, <1>8 DEF TypeOK
<1>10. \A k \in Gen : Nodes'[k] = {r \in Oid : node'[r].gen = k}
                      /\ Nodes[k] = {r \in Oid : node[r].gen = k}
  BY DEF Nodes
<1>11. ASSUME NEW k \in Gen
       PROVE  /\ Row(chain'[k], Nodes'[k])
              /\ cursor'[k] \in Nodes'[k] \cup {NoCursor, Dangling}
  <2>0. Row(chain[k], Nodes[k]) /\ cursor[k] \in Nodes[k] \cup {NoCursor, Dangling}
    BY <1>0 DEF Listed, Table
  <2>1. CASE k <= g
    <3>1. ASSUME NEW r \in Oid PROVE node'[r].gen # k
      <4>1. CASE r \in Old(g)
        BY <1>3, <1>4, <4>1
      <4>2. CASE r \notin Old(g)
        <5>1. ~(node[r].gen <= g) \/ node[r].gen = 0
          BY <4>2 DEF Old, Present
        <5> QED
          BY <1>3, <1>4, <2>1, <4>2, <5>1
      <4> QED
        BY <4>1, <4>2
    <3>2. Nodes'[k] = {} /\ chain'[k] = <<>>
      BY <1>2, <1>10, <2>1, <3>1
    <3>3. Range(<<>>) = {} /\ Len(<<>>) = 0
      BY <1>3, RangeFacts
    <3>4. Row(<<>>, {})
      BY <1>3, <3>3 DEF Row, Distinct
    <3>5. cursor'[k] \in {NoCursor, Dangling}
      <4>1. CASE chain[k] = <<>>
        <5>1. Nodes[k] = {}
          BY <2>0, <3>3, <4>1 DEF Row
        <5> QED
          BY <1>1, <2>0, <5>1
      <4>2. CASE chain[k] # <<>>
        BY <1>1, <2>1, <4>2
      <4> QED
        BY <4>1, <4>2
    <3> QED
      BY <3>2, <3>4, <3>5
  <2>2. CASE ~(k <= g)
    <3>1. \A r \in Oid : node'[r].gen = k <=> node[r].gen = k
      BY <1>3, <1>4, <2>2 DEF Old
    <3>2. Nodes'[k] = Nodes[k] /\ chain'[k] = chain[k]
      BY <1>2, <1>10, <2>2, <3>1
    <3>3. cursor'[k] \in {cursor[k], NoCursor}
      BY <1>1
    <3> QED
      BY <2>0, <3>2, <3>3
  <2> QED
    BY <2>1, <2>2
<1>12. Listed(Table', Nodes')
  <2>1. Table' = [chain |-> chain', cursor |-> cursor']
    BY DEF Table
  <2>2. Table' \in Rows
    BY <1>6, <2>1 DEF Rows
  <2> QED
    BY <1>11, <2>1, <2>2 DEF Listed
<1>13. ASSUME NEW k \in Gen, quiet'[k], NEW x \in todo'[k]
       PROVE  From(chain'[k], cursor'[k], x)
  <2>1. quiet[k] /\ k \notin ended /\ k > g
    BY <1>1, <1>13
  <2>2. ~(k <= g)
    BY <2>1 DEF Gen
  <2>3. chain'[k] = chain[k] /\ cursor'[k] = cursor[k] /\ x \in todo[k]
    BY <1>1, <1>2, <1>13, <2>1, <2>2
  <2> QED
    BY <1>0, <2>1, <2>3 DEF ScansRight
<1>14. ASSUME NEW r \in Present'
       PROVE  r \in Present /\ node'[r] = node[r] /\ recorded'[r] = recorded[r]
  <2>1. r \in Oid /\ r \notin Old(g)
    BY <1>3, <1>4 DEF Present
  <2> QED
    BY <1>2, <1>4, <2>1 DEF Present
<1>15. Bounds'
  BY <1>0, <1>2, <1>14 DEF Bounds, InTable
<1>16. LocationsRight'
  <2>1. retired' = retired
    BY <1>2
  <2>2. \A r \in Present' : r \in Present /\ node'[r] = node[r] /\ recorded'[r] = recorded[r]
    BY <1>14
  <2>3. LocationsRight
    BY <1>0
  <2> QED
    BY ONLY <2>1, <2>2, <2>3 DEF LocationsRight
<1> QED
  BY <1>9, <1>12, <1>13, <1>15, <1>16 DEF Inv, ScansRight

\* ld_generationRetired.
LEMMA RetiredInv ==
    ASSUME Inv, NEW g \in Gen, ld_generationRetired(g)
    PROVE  Inv'
<1>0. /\ TypeOK /\ Listed(Table, Nodes) /\ Bounds /\ ScansRight /\ LocationsRight
      /\ node \in [Oid -> Node] /\ retired \in Nat /\ g \in Nat
      /\ recorded \in [Oid -> [Gen -> Loc \cup {NoLoc}]]
  BY ConstantsAssumption DEF Inv, TypeOK, Gen
<1>1. /\ retired' = g /\ g >= retired /\ g <= highest
      /\ recorded' = [o \in Oid |-> [h \in Gen |-> IF h <= g THEN NoLoc
                                               ELSE recorded[o][h]]]
      /\ UNCHANGED <<node, chain, cursor, highest, halted, todo, quiet>>
  BY DEF ld_generationRetired
<1>2. recorded' \in [Oid -> [Gen -> Loc \cup {NoLoc}]]
  BY <1>0, <1>1
<1>3. TypeOK'
  BY <1>0, <1>1, <1>2 DEF TypeOK
<1>4. Table' = Table /\ Nodes' = Nodes /\ Present' = Present
  BY <1>1 DEF Table, Nodes, Present
<1>5. Bounds' /\ ScansRight'
  BY <1>0, <1>1, <1>4 DEF Bounds, InTable, ScansRight
<1>6. \A o \in Oid : \A h \in Gen :
        /\ h > g => recorded'[o][h] = recorded[o][h]
        /\ recorded'[o][h] \in {NoLoc, recorded[o][h]}
  BY <1>0, <1>1 DEF Gen
<1>7. ASSUME NEW o \in Present
      PROVE
      /\ \A h \in Gen : recorded'[o][h] # NoLoc => h <= node[o].gen
      /\ node[o].loc \in Loc
      /\ node[o].gen > g => recorded'[o][node[o].gen] = node[o].loc
      /\ node[o].ppDelta # 0 =>
           /\ Previous(node[o]) \in Gen
           /\ Previous(node[o]) > g =>
                /\ node[o].ppLoc \in Loc
                /\ recorded'[o][Previous(node[o])] = node[o].ppLoc
                /\ \A h \in Gen : Previous(node[o]) < h /\ h < node[o].gen =>
                     recorded'[o][h] = NoLoc
  <2>0. o \in Oid /\ node[o].gen \in Gen
    BY <1>0 DEF Present, Node, Gen
  <2>1. PICK p : p = Previous(node[o])
    OBVIOUS
  <2>2. /\ \A h \in Gen : recorded[o][h] # NoLoc => h <= node[o].gen
        /\ node[o].loc \in Loc
        /\ node[o].gen > retired => recorded[o][node[o].gen] = node[o].loc
        /\ node[o].ppDelta # 0 =>
           /\ p \in Gen
           /\ p > retired =>
                /\ node[o].ppLoc \in Loc
                /\ recorded[o][p] = node[o].ppLoc
                /\ \A h \in Gen : p < h /\ h < node[o].gen => recorded[o][h] = NoLoc
    BY <1>0, <2>1 DEF LocationsRight
  <2>3. \A h \in Gen : h > g => h > retired
    BY <1>0, <1>1 DEF Gen
  <2> QED
    BY <1>6, <2>0, <2>1, <2>2, <2>3
<1>8. LocationsRight'
  BY <1>1, <1>4, <1>7 DEF LocationsRight
<1> QED
  BY <1>0, <1>3, <1>4, <1>5, <1>8 DEF Inv
-----------------------------------------------------------------------------
(* The invariant holds of the specification.                                 *)

\* A step that leaves everything but halted as it was.
LEMMA SameInv ==
    ASSUME Inv, halted' \in {"no", "generations", "nodes", "cursor"},
           UNCHANGED <<node, chain, cursor, highest, retired, recorded, todo, quiet>>
    PROVE  Inv'
BY DEF Inv, TypeOK, Listed, Table, Nodes, Bounds, ScansRight, LocationsRight, Present,
       InTable

\* Every step keeps the invariant.
LEMMA NextInv == Inv /\ [Next]_vars => Inv'
<1> SUFFICES ASSUME Inv, [Next]_vars PROVE Inv'
  OBVIOUS
<1>1. ASSUME NEW o \in Oid, NEW g \in Gen, NEW l \in Loc, NEW v \in VersionsOf[o],
             ld_recordLocation(o, g, v, l)
      PROVE  Inv'
  BY <1>1, RecordInv
<1>2. ASSUME NEW o \in Oid, NEW g \in Gen, RecordHalts(o, g) PROVE Inv'
  BY <1>2, SameInv DEF RecordHalts
<1>3. ASSUME NEW g \in Gen, ld_resetScan(g) PROVE Inv'
  BY <1>3, ResetInv
<1>4. ASSUME NEW g \in Gen, ld_findNextObject(g) PROVE Inv'
  BY <1>4, FindNextInv
<1>5. ASSUME NEW g \in Gen, ld_clearGeneration(g) PROVE Inv'
  BY <1>5, ClearInv
<1>6. ASSUME NEW g \in Gen, ClearHalts(g) PROVE Inv'
  BY <1>6, SameInv DEF ClearHalts
<1>7. ASSUME NEW g \in Gen, ld_generationRetired(g) PROVE Inv'
  BY <1>7, RetiredInv
<1>8. ASSUME NEW o \in Oid, ld_removeObjectEntry(o) PROVE Inv'
  BY <1>8, RemoveInv
<1>9. CASE UNCHANGED vars
  BY <1>9, SameInv DEF vars, Inv, TypeOK
<1> QED
  BY <1>1, <1>2, <1>3, <1>4, <1>5, <1>6, <1>7, <1>8, <1>9 DEF Next

\* The invariant holds in every state.
LEMMA InvAlways == Spec => []Inv
<1> QED
  BY InitInv, NextInv, PTL DEF Spec
-----------------------------------------------------------------------------
(* What the directory promises.                                              *)

\* A chain is as long as the set it lists.
LEMMA RowLength ==
    ASSUME NEW c, NEW S, Row(c, S)
    PROVE  IsFiniteSet(S) /\ Len(c) = Cardinality(S) /\ Len(c) \in Nat
BY DistinctLength DEF Row

\* The invariant gives ChainsExact.
LEMMA ChainsExactHolds == Inv => ChainsExact
<1> SUFFICES ASSUME Inv PROVE ChainsExact
  OBVIOUS
<1>1. ASSUME NEW g \in Gen
      PROVE  /\ Range(chain[g]) = {o \in Present : node[o].gen = g}
             /\ Len(chain[g]) = Cardinality(Range(chain[g]))
  <2>1. Row(chain[g], Nodes[g])
    BY DEF Inv, Listed, Table
  <2>2. Nodes[g] = {o \in Present : node[o].gen = g}
    BY ConstantsAssumption DEF Nodes, Present, Gen
  <2>3. Range(chain[g]) = Nodes[g]
    BY <2>1 DEF Row
  <2>4. PICK S : S = Nodes[g]
    OBVIOUS
  <2>5. PICK c : c = chain[g]
    OBVIOUS
  <2>6. Row(c, S)
    BY <2>1, <2>4, <2>5
  <2>7. Len(c) = Cardinality(S)
    BY ONLY <2>6, RowLength
  <2> QED
    BY <2>2, <2>3, <2>4, <2>5, <2>7
<1> QED
  BY <1>1 DEF ChainsExact, Inv, Bounds

\* The invariant gives QuietScanComplete.
LEMMA QuietScanHolds == Inv => QuietScanComplete
<1> SUFFICES ASSUME Inv, NEW g \in Gen, quiet[g], NEW x \in todo[g]
             PROVE  x \in Remaining(g)
  BY DEF QuietScanComplete
<1>1. From(chain[g], cursor[g], x)
  BY DEF Inv, ScansRight
<1>2. PICK i \in 1 .. Len(chain[g]), j \in 1 .. Len(chain[g]) :
        i <= j /\ chain[g][i] = cursor[g] /\ chain[g][j] = x
  BY <1>1 DEF From
<1>3. chain[g] \in Seq(Oid) /\ Len(chain[g]) \in Nat
  BY SeqFacts DEF Inv, TypeOK
<1>4. cursor[g] \in Range(chain[g])
  BY <1>2, <1>3, RangeFacts
<1>5. i \in 1 .. j
  BY <1>2, <1>3
<1> QED
  BY <1>2, <1>4, <1>5 DEF Remaining

\* The invariant gives JournalSound.
LEMMA JournalHolds == Inv => JournalSound
<1> SUFFICES ASSUME Inv, NEW o \in Present, NEW g \in Gen, node[o].gen >= g
             PROVE  ld_findObjectForJournal(o, g) \in {NoLoc, Newest(o, retired, g)}
  BY DEF JournalSound
<1>0. /\ TypeOK /\ LocationsRight /\ retired \in Nat /\ g \in Nat
      /\ node[o].gen \in Nat \ {0} /\ node[o].ppDelta \in Nat /\ Gen \subseteq Nat
      /\ o \in Oid
  BY ConstantsAssumption DEF Inv, TypeOK, Gen, Present, Node
<1>1. PICK n : n = node[o]
  OBVIOUS
<1>2. PICK p : p = Previous(n)
  OBVIOUS
<1>3. ~(g > n.gen) /\ n.gen # 0
  BY <1>0, <1>1
<1>4. CASE n.ppDelta # 0 /\ g > p /\ p > retired
  <2>1. /\ p \in Gen /\ n.ppLoc \in Loc /\ recorded[o][p] = n.ppLoc
        /\ \A h \in Gen : p < h /\ h < n.gen => recorded[o][h] = NoLoc
    BY <1>0, <1>1, <1>2, <1>4 DEF LocationsRight
  <2>2. PICK hs : hs = {h \in Gen : retired < h /\ h < g /\ recorded[o][h] # NoLoc}
    OBVIOUS
  <2>3. p \in hs
    <3>1. n.ppLoc # NoLoc
      BY <2>1, ConstantsAssumption DEF NoLoc
    <3> QED
      BY <1>0, <1>4, <2>1, <2>2, <3>1
  <2>4. \A k \in hs : k <= p
    BY <1>0, <1>1, <2>1, <2>2
  <2>5. (CHOOSE h \in hs : \A k \in hs : k <= h) = p
    <3>1. \A h \in hs : (\A k \in hs : k <= h) => h = p
      BY <1>0, <2>2, <2>3, <2>4
    <3> QED
      BY <2>3, <2>4, <3>1
  <2>6. Newest(o, retired, g) = recorded[o][p]
    BY <2>2, <2>3, <2>5 DEF Newest
  <2>7. ld_findObjectForJournal(o, g) = n.ppLoc
    BY <1>1, <1>2, <1>3, <1>4 DEF ld_findObjectForJournal, Previous
  <2> QED
    BY <2>1, <2>6, <2>7
<1>5. CASE ~(n.ppDelta # 0 /\ g > p /\ p > retired)
  <2>1. ld_findObjectForJournal(o, g) = NoLoc
    BY <1>1, <1>2, <1>3, <1>5 DEF ld_findObjectForJournal, Previous
  <2> QED
    BY <2>1
<1> QED
  BY <1>4, <1>5

\* The number of nodes of the generations above g up to k.
UpTo(g, k) == {o \in Present : node[o].gen > g /\ node[o].gen <= k}

\* The rows that ld_numAvailableEntries visits.
LEMMA RowCount ==
    ASSUME Inv, NEW g \in Gen, InTable(g), NEW k \in Gen
    PROVE  /\ IsFiniteSet(UpTo(g, k)) /\ IsFiniteSet(UpTo(g, k - 1))
           /\ Cardinality(UpTo(g, k)) = Cardinality(UpTo(g, k - 1))
                + (IF k \in Visited(g) THEN Len(chain[k]) ELSE 0)
<1>0. /\ node \in [Oid -> Node] /\ highest \in Nat /\ Gen \subseteq Nat /\ g \in Nat
      /\ k \in Nat \ {0} /\ NumGenerations \in Nat /\ Present \subseteq Oid
      /\ \A o \in Present : node[o].gen \in Nat
  BY ConstantsAssumption DEF Inv, TypeOK, Gen, Present, Node
<1>1. IsFiniteSet(Oid)
  BY ConstantsAssumption, FS_Interval DEF Oid
<1>2. PICK A : A = UpTo(g, k - 1)
  OBVIOUS
<1>3. PICK B : B = UpTo(g, k)
  OBVIOUS
<1>4. A \in SUBSET Oid /\ B \in SUBSET Oid
  BY <1>0, <1>2, <1>3 DEF UpTo
<1>5. IsFiniteSet(A) /\ IsFiniteSet(B)
  BY ONLY <1>1, <1>4, FS_Subset
<1>6. CASE k \in Visited(g)
  <2>1. PICK C : C = Nodes[k]
    OBVIOUS
  <2>2. PICK c : c = chain[k]
    OBVIOUS
  <2>3. Row(c, C)
    BY <2>1, <2>2 DEF Inv, Listed, Table
  <2>4. IsFiniteSet(C) /\ Len(c) = Cardinality(C) /\ Len(c) \in Nat
    BY ONLY <2>3, RowLength
  <2>5. k > g
    BY <1>6 DEF Visited
  <2>6. B = A \cup C /\ A \cap C = {}
    <3>1. C = {o \in Present : node[o].gen = k}
      BY <2>1 DEF Nodes, Present, Gen
    <3>2. \A o \in Present : node[o].gen <= k <=> node[o].gen <= k - 1 \/ node[o].gen = k
      BY <1>0
    <3>3. \A o \in Present : ~(node[o].gen = k /\ node[o].gen <= k - 1)
      BY <1>0
    <3> QED
      BY <1>2, <1>3, <2>5, <3>1, <3>2, <3>3 DEF UpTo
  <2>7. Cardinality(B) = Cardinality(A) + Cardinality(C) - Cardinality(A \cap C)
    BY ONLY <1>5, <2>4, <2>6, FS_Union
  <2>8. Cardinality(A \cap C) = 0 /\ Cardinality(A) \in Nat
    BY ONLY <1>5, <2>6, FS_EmptySet, FS_CardinalityType
  <2>9. Cardinality(B) = Cardinality(A) + Len(c)
    BY <2>4, <2>7, <2>8
  <2> QED
    BY <1>2, <1>3, <1>5, <1>6, <2>2, <2>9
<1>7. CASE k \notin Visited(g)
  <2>1. \A o \in Present : node[o].gen > g => node[o].gen # k
    BY <1>7 DEF Inv, Bounds, Visited
  <2>2. \A o \in Present : node[o].gen > g =>
          (node[o].gen <= k <=> node[o].gen <= k - 1)
    BY <1>0, <2>1
  <2>3. B = A
    BY <1>2, <1>3, <2>2 DEF UpTo
  <2>4. Cardinality(A) \in Nat
    BY <1>5, FS_CardinalityType
  <2> QED
    BY <1>2, <1>3, <1>5, <1>7, <2>3, <2>4
<1> QED
  BY <1>6, <1>7

\* The invariant gives AvailableExact.
LEMMA AvailableHolds == Inv => AvailableExact
<1> SUFFICES ASSUME Inv, NEW g \in Gen, InTable(g)
             PROVE  ld_numAvailableEntries(g) =
                      NumEntries - Cardinality({o \in Present : node[o].gen > g})
  BY DEF AvailableExact
<1>0. MaxGen \in Nat
  BY ConstantsAssumption
<1>1. PICK w : w = [k \in 0 .. MaxGen |-> Cardinality(UpTo(g, k))]
  OBVIOUS
<1>2. PICK s : s = [k \in Gen |-> IF k \in Visited(g) THEN Len(chain[k]) ELSE 0]
  OBVIOUS
<1>3. w[0] = 0
  <2>1. \A o \in Present : node[o].gen \in Nat /\ node[o].gen # 0
    BY <1>0 DEF Inv, TypeOK, Present, Node
  <2>2. \A o \in Present : ~(node[o].gen <= 0)
    BY <2>1
  <2>3. UpTo(g, 0) = {}
    BY <2>2 DEF UpTo
  <2>4. Cardinality({}) = 0
    BY FS_EmptySet
  <2>5. 0 \in 0 .. MaxGen
    BY <1>0
  <2>6. w[0] = Cardinality(UpTo(g, 0))
    BY <1>1, <2>5
  <2> QED
    BY <2>3, <2>4, <2>6
<1>4. ASSUME NEW k \in 1 .. MaxGen PROVE w[k] = w[k - 1] + s[k]
  <2>1. k \in Gen /\ k \in 0 .. MaxGen /\ k - 1 \in 0 .. MaxGen
    BY <1>0 DEF Gen
  <2>2. Cardinality(UpTo(g, k)) = Cardinality(UpTo(g, k - 1))
                + (IF k \in Visited(g) THEN Len(chain[k]) ELSE 0)
    BY <2>1, RowCount
  <2> QED
    BY <1>1, <1>2, <2>1, <2>2
<1>5. w = [k \in 0 .. MaxGen |-> IF k = 0 THEN 0 ELSE w[k - 1] + s[k]]
  <2>1. \A k \in 0 .. MaxGen : w[k] = IF k = 0 THEN 0 ELSE w[k - 1] + s[k]
    BY <1>0, <1>3, <1>4
  <2>2. w = [k \in 0 .. MaxGen |-> w[k]]
    BY <1>1
  <2> QED
    BY <2>1, <2>2
<1>6. PICK f : f = CHOOSE h : h = [k \in 0 .. MaxGen |->
                               IF k = 0 THEN 0 ELSE h[k - 1] + s[k]]
  OBVIOUS
<1>7. f = [k \in 0 .. MaxGen |-> IF k = 0 THEN 0 ELSE f[k - 1] + s[k]]
  BY <1>5, <1>6
<1>8. f[MaxGen] = w[MaxGen]
  <2>1. f[0] = w[0]
    BY <1>0, <1>3, <1>7
  <2>2. \A k \in 1 .. MaxGen : f[k - 1] = w[k - 1] => f[k] = w[k]
    BY <1>0, <1>4, <1>7
  <2>3. PICK T : T = {k \in 0 .. MaxGen : f[k] = w[k]}
    OBVIOUS
  <2>4. 0 \in T
    BY <1>0, <2>1, <2>3
  <2>5. \A k \in 1 .. MaxGen : k - 1 \in T => k \in T
    BY <1>0, <2>2, <2>3
  <2>6. 0 .. MaxGen \subseteq T
    BY <1>0, <2>4, <2>5, UpToN
  <2> QED
    BY <1>0, <2>3, <2>6
<1>9. ld_numAvailableEntries(g) = NumEntries - f[MaxGen]
  <2>1. f = CHOOSE c : c = [k \in 0 .. MaxGen |->
              IF k = 0 THEN 0
              ELSE c[k - 1] + (IF k \in Visited(g) THEN Len(chain[k]) ELSE 0)]
    <3>1. \A k \in 0 .. MaxGen : k # 0 =>
            s[k] = IF k \in Visited(g) THEN Len(chain[k]) ELSE 0
      BY <1>0, <1>2 DEF Gen
    <3>2. ASSUME NEW c
          PROVE  [k \in 0 .. MaxGen |-> IF k = 0 THEN 0 ELSE c[k - 1] + s[k]]
               = [k \in 0 .. MaxGen |-> IF k = 0 THEN 0 ELSE c[k - 1]
                    + (IF k \in Visited(g) THEN Len(chain[k]) ELSE 0)]
      BY <3>1
    <3> QED
      BY <1>6, <3>2, Zenon
  <2> QED
    BY <2>1 DEF ld_numAvailableEntries
<1>10. UpTo(g, MaxGen) = {o \in Present : node[o].gen > g}
  BY <1>0 DEF Inv, TypeOK, UpTo, Present, Node
<1>11. w[MaxGen] = Cardinality(UpTo(g, MaxGen))
  BY <1>0, <1>1
<1> QED
  BY <1>8, <1>9, <1>10, <1>11
-----------------------------------------------------------------------------
(* Theorems.                                                                 *)

\* Type correctness of the log directory, for any numbers of objects,
\* generations and entries.
THEOREM TypeCorrect == Spec => []TypeOK
<1>1. Inv => TypeOK
  BY DEF Inv
<1> QED
  BY <1>1, InvAlways, PTL

\* What chains_validate looks for never fails: whatever is recorded, updated,
\* removed and cleared, every node is once on the chain of its generation and
\* on no other, and the generations that have nodes are in the table.
THEOREM ChainsAlwaysExact == Spec => []ChainsExact
BY ChainsExactHolds, InvAlways, PTL

\* A scan by ld_resetScan and ld_findNextObject misses no node that was there
\* at its start, as long as none leaves the generation, however many join it.
THEOREM QuietScansComplete == Spec => []QuietScanComplete
BY QuietScanHolds, InvAlways, PTL

\* ld_numAvailableEntries, which adds up the counts of the rows it visits, is
\* the number of entries not used for newer generations.
THEOREM AvailableAlwaysExact == Spec => []AvailableExact
BY AvailableHolds, InvAlways, PTL

\* ld_findObjectForJournal returns the location that a restart would use, or
\* NULL: never a location that is stale or of another version.
THEOREM JournalAlwaysSound == Spec => []JournalSound
BY JournalHolds, InvAlways, PTL
=============================================================================
