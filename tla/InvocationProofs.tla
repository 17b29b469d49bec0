-------------------------- MODULE InvocationProofs --------------------------
(* Theorems about module Invocation, for any processes, any number of        *)
(* Activities and any call counts: a process has one Activity, whichever of  *)
(* the two knows of the other (OneActivityEach), the run states, the states  *)
(* of the Activities and the queues agree (StatesAgree), a Resume capability *)
(* fits its process for one wait and no longer (ResumeKeysExact), and nobody *)
(* is left on the stall queue of a process that could take the message or is *)
(* not there (NoLostWakeUp).                                                 *)
(*                                                                           *)
(* The four need each other. A return gives the returner's Activity to the   *)
(* process that the Resume capability names, so that this process does not   *)
(* get a second one only if a capability that fits implies that it waits     *)
(* without any (Waits); that holds because a process that gets an Activity   *)
(* by another way loses its Resume capabilities, the unprepared ones by the  *)
(* call count.                                                               *)
EXTENDS Invocation, FiniteSetTheorems, SequenceTheorems, TLAPS

-----------------------------------------------------------------------------
(* The inductive invariant.                                                  *)

TypeInv ==
    /\ runState \in [Proc -> RunState]
    /\ ctx \in [Proc -> Ctx]
    /\ curActivity \in [Proc -> Activity \cup {None}]
    /\ stallQ \in [Proc -> Seq(Activity)]
    /\ act \in [Activity -> ActRecord]
    /\ readyQ \in Seq(Activity)
    /\ cur \in Activity \cup {None}
    /\ resume \in [Proc -> Key]
    /\ callCount \in [Proc -> Nat]
    /\ callCntUsed \in [Proc -> BOOLEAN]

\* Without a checkpoint and a restart, the timer is the only one who gives an
\* Activity a hazard. Its process is in the state that the Activity's state and
\* hazard say.
ActOK(a) ==
    /\ act[a].state = "Free" <=> act[a].of = None
    /\ act[a].haz \in {"None", "WakeOK"}
    /\ act[a].haz # "None" => act[a].state = "Ready"
    /\ act[a].state = "Running" <=> cur = a
    /\ act[a].state = "Running" => act[a].hasProcess
    /\ act[a].of # None =>
         /\ runState[act[a].of] =
              IF act[a].state = "Sleeping" \/ act[a].haz # "None" THEN "Waiting"
              ELSE "Running"
         /\ act[a].hasProcess => ctx[act[a].of] # "out" /\ curActivity[act[a].of] = a
         /\ ~act[a].hasProcess => /\ ctx[act[a].of] \in {"out", "hzDomRoot"}
                                  /\ curActivity[act[a].of] = None

\* The process points to an Activity that points to it, and has one if it runs.
ProcOK(p) ==
    /\ curActivity[p] # None => /\ act[curActivity[p]].of = p
                                /\ act[curActivity[p]].hasProcess
    /\ runState[p] = "Running" => \E a \in Activity : act[a].of = p

ActInv ==
    /\ \A a, b \in Activity : act[a].of # None /\ act[a].of = act[b].of => a = b
    /\ \A a \in Activity : ActOK(a)
    /\ \A p \in Proc : ProcOK(p)

\* The sequence lists the members of the set, each once.
Lists(s, S) ==
    /\ s \in Seq(Activity)
    /\ \A i, j \in 1 .. Len(s) : s[i] = s[j] => i = j
    /\ Elements(s) = S

QueueInv ==
    /\ Lists(readyQ, {a \in Activity : act[a].state = "Ready"})
    /\ \A q \in Proc : Lists(stallQ[q], Elements(stallQ[q]))
    /\ \A q, r \in Proc : \A a \in Elements(stallQ[q]) :
         a \in Elements(stallQ[r]) => q = r
    /\ \A a \in Activity :
         act[a].state = "Stall" <=> \E q \in Proc : a \in Elements(stallQ[q])
    /\ NoLostWakeUp

\* An unprepared capability fits by its count, which is then known to be used.
KeyOK(k) ==
    /\ k.to = None => k = Void
    /\ k.to # None /\ k.prep => k.live
    /\ k.to # None /\ ~k.prep =>
         /\ k.count <= callCount[k.to]
         /\ k.live <=> k.count = callCount[k.to]
         /\ k.live => callCntUsed[k.to]

\* The process waits for a return, not for the timer.
Waits(p) == runState[p] = "Waiting" /\ \A a \in Activity : act[a].of # p

\* A live capability is to a process that waits, a prepared one to one in core.
KeyWaits(k) ==
    /\ k.live => Waits(k.to)
    /\ k.prep => ctx[k.to] # "out"

KeyInv == \A h \in Proc : KeyOK(resume[h]) /\ KeyWaits(resume[h])

Inv == TypeInv /\ ActInv /\ QueueInv /\ KeyInv

-----------------------------------------------------------------------------
(* Queues as sets: what each operation on a queue does to the set it lists.  *)

\* The positions and members of a sequence.
LEMMA SeqFacts ==
    ASSUME NEW s \in Seq(Activity)
    PROVE  /\ Len(s) \in Nat /\ DOMAIN s = 1 .. Len(s)
           /\ \A i \in 1 .. Len(s) : s[i] \in Activity /\ s[i] \in Elements(s)
           /\ \A a \in Elements(s) : \E i \in 1 .. Len(s) : s[i] = a
           /\ Elements(s) \subseteq Activity
           /\ None \notin Elements(s)
           /\ s = <<>> <=> Elements(s) = {}
<1>1. /\ Len(s) \in Nat /\ DOMAIN s = 1 .. Len(s)
      /\ \A i \in 1 .. Len(s) : s[i] \in Activity
  BY LenProperties, ElementOfSeq
<1>2. /\ \A i \in 1 .. Len(s) : s[i] \in Elements(s)
      /\ \A a \in Elements(s) : \E i \in 1 .. Len(s) : s[i] = a
  BY DEF Elements
<1>3. Elements(s) \subseteq Activity /\ None \notin Elements(s)
  BY <1>1, <1>2, ConstantsAssumption
<1>4. s = <<>> => Elements(s) = {}
  BY <1>2
<1>5. s # <<>> => s[1] \in Elements(s)
  BY <1>1, <1>2, EmptySeq
<1> QED
  BY <1>1, <1>2, <1>3, <1>4, <1>5

\* The empty queue.
LEMMA ListsEmpty == Lists(<<>>, {})
BY DEF Lists, Elements

\* sq_WakeAll puts those of one queue behind those of another.
LEMMA ListsConcat ==
    ASSUME NEW s, NEW S, NEW t, NEW T, Lists(s, S), Lists(t, T), S \cap T = {}
    PROVE  Lists(s \o t, S \cup T)
<1>1. s \in Seq(Activity) /\ t \in Seq(Activity) /\ Elements(s) = S /\ Elements(t) = T
  BY DEF Lists
<1>2. /\ s \o t \in Seq(Activity)
      /\ Len(s \o t) = Len(s) + Len(t)
      /\ \A i \in 1 .. Len(s) + Len(t) :
           (s \o t)[i] = IF i <= Len(s) THEN s[i] ELSE t[i - Len(s)]
      /\ Len(s) \in Nat /\ Len(t) \in Nat
  BY <1>1, ConcatProperties, LenProperties
<1>3. PICK u : u = s \o t
  OBVIOUS
<1>4. \A i \in 1 .. Len(u) :
        \/ i \in 1 .. Len(s) /\ u[i] = s[i] /\ u[i] \in S
        \/ i - Len(s) \in 1 .. Len(t) /\ u[i] = t[i - Len(s)] /\ u[i] \in T
  BY <1>1, <1>2, <1>3 DEF Elements
<1>5. \A i, j \in 1 .. Len(u) : u[i] = u[j] => i = j
  <2> SUFFICES ASSUME NEW i \in 1 .. Len(u), NEW j \in 1 .. Len(u), u[i] = u[j]
               PROVE  i = j
    OBVIOUS
  <2>1. CASE i \in 1 .. Len(s) /\ u[i] = s[i] /\ u[i] \in S
    <3>1. j \in 1 .. Len(s) /\ u[j] = s[j]
      BY <1>4, <2>1
    <3> QED
      BY <2>1, <3>1 DEF Lists
  <2>2. CASE i - Len(s) \in 1 .. Len(t) /\ u[i] = t[i - Len(s)] /\ u[i] \in T
    <3>1. j - Len(s) \in 1 .. Len(t) /\ u[j] = t[j - Len(s)]
      BY <1>4, <2>2
    <3>2. i - Len(s) = j - Len(s)
      BY <2>2, <3>1 DEF Lists
    <3> QED
      BY <1>2, <1>3, <3>2
  <2> QED
    BY <1>4, <2>1, <2>2
<1>6. Elements(u) \subseteq S \cup T
  BY <1>4 DEF Elements
<1>7. ASSUME NEW a \in S PROVE a \in Elements(u)
  <2>1. PICK i \in 1 .. Len(s) : s[i] = a
    BY <1>1 DEF Elements
  <2>2. i \in 1 .. Len(u) /\ u[i] = a
    BY <1>2, <1>3, <2>1
  <2> QED
    BY <2>2 DEF Elements
<1>8. ASSUME NEW a \in T PROVE a \in Elements(u)
  <2>1. PICK i \in 1 .. Len(t) : t[i] = a
    BY <1>1 DEF Elements
  <2>2. i + Len(s) \in 1 .. Len(u) /\ u[i + Len(s)] = a
    BY <1>2, <1>3, <2>1
  <2> QED
    BY <2>2 DEF Elements
<1>9. Elements(u) = S \cup T
  BY <1>6, <1>7, <1>8
<1> QED
  BY <1>2, <1>3, <1>5, <1>9 DEF Lists

\* A queue of one.
LEMMA ListsOne ==
    ASSUME NEW a \in Activity
    PROVE  Lists(<<a>>, {a})
BY DEF Lists, Elements

\* An Activity is put at the end of a queue.
LEMMA ListsAppend ==
    ASSUME NEW s, NEW S, Lists(s, S), NEW a \in Activity, a \notin S
    PROVE  Lists(Append(s, a), S \cup {a})
<1>1. Append(s, a) = s \o <<a>>
  BY AppendIsConcat DEF Lists
<1>2. Lists(<<a>>, {a})
  BY ListsOne
<1> QED
  BY <1>1, <1>2, ListsConcat

\* act_Dequeue takes an Activity out of a queue.
LEMMA ListsDequeued ==
    ASSUME NEW s, NEW S, Lists(s, S), NEW a
    PROVE  Lists(Dequeued(s, a), S \ {a})
<1>1. CASE a \notin S
  BY <1>1 DEF Lists, Dequeued
<1>2. CASE a \in S
  <2>1. /\ s \in Seq(Activity) /\ Elements(s) = S /\ Len(s) \in Nat
        /\ \A n, m \in 1 .. Len(s) : s[n] = s[m] => n = m
        /\ \A n \in 1 .. Len(s) : s[n] \in Activity
    BY SeqFacts DEF Lists
  <2>2. PICK i : i = CHOOSE n \in 1 .. Len(s) : s[n] = a
    OBVIOUS
  <2>3. i \in 1 .. Len(s) /\ s[i] = a
    BY <1>2, <2>1, <2>2 DEF Elements
  <2>4. PICK k \in Nat : k = Len(s) - 1
    BY <2>1, <2>3
  <2>5. PICK u : u = [n \in 1 .. k |-> IF n < i THEN s[n] ELSE s[n + 1]]
    OBVIOUS
  <2>6. Dequeued(s, a) = u
    BY <1>2, <2>1, <2>2, <2>4, <2>5 DEF Dequeued
  <2>7. u \in [1 .. k -> Activity]
    BY <2>1, <2>3, <2>4, <2>5
  <2>8. u \in Seq(Activity)
    BY <2>7, SeqDef
  <2>9. Len(u) = k
    BY <2>7, <2>8, LenProperties
  <2>10. \A n \in 1 .. k :
           \/ n < i /\ n \in 1 .. Len(s) /\ n # i /\ u[n] = s[n]
           \/ n >= i /\ n + 1 \in 1 .. Len(s) /\ n + 1 # i /\ u[n] = s[n + 1]
    BY <2>1, <2>3, <2>4, <2>5
  <2>11. \A n, m \in 1 .. Len(u) : u[n] = u[m] => n = m
    BY <2>1, <2>3, <2>9, <2>10, SMTT(30)
  <2>12. ASSUME NEW b \in Elements(u) PROVE b \in S \ {a}
    <3>1. PICK n \in 1 .. k : u[n] = b
      BY <2>9 DEF Elements
    <3> QED
      BY <2>1, <2>3, <2>10, <3>1 DEF Elements
  <2>13. ASSUME NEW b \in S \ {a} PROVE b \in Elements(u)
    <3>1. PICK n \in 1 .. Len(s) : s[n] = b
      BY <2>1 DEF Elements
    <3>2. CASE n < i
      <4>1. n \in 1 .. k /\ u[n] = b
        BY <2>1, <2>3, <2>4, <2>5, <3>1, <3>2
      <4> QED
        BY <2>9, <4>1 DEF Elements
    <3>3. CASE n > i
      <4>1. n - 1 \in 1 .. k /\ u[n - 1] = b
        BY <2>1, <2>3, <2>4, <2>5, <3>1, <3>3
      <4> QED
        BY <2>9, <4>1 DEF Elements
    <3> QED
      BY <2>1, <2>3, <3>1, <3>2, <3>3
  <2> QED
    BY <2>6, <2>8, <2>11, <2>12, <2>13 DEF Lists
<1> QED
  BY <1>1, <1>2

\* Nothing is taken out of a queue for no Activity.
LEMMA DequeuedNone ==
    ASSUME NEW s \in Seq(Activity)
    PROVE  Dequeued(s, None) = s
BY SeqFacts DEF Dequeued

\* The first Activity of a queue leaves it.
LEMMA ListsTail ==
    ASSUME NEW s, NEW S, Lists(s, S), s # <<>>
    PROVE  Head(s) \in S /\ Lists(Tail(s), S \ {Head(s)})
<1>1. /\ s \in Seq(Activity) /\ Elements(s) = S /\ Len(s) \in Nat \ {0}
      /\ \A n, m \in 1 .. Len(s) : s[n] = s[m] => n = m
  BY SeqFacts, EmptySeq DEF Lists
<1>2. PICK u : u = Tail(s)
  OBVIOUS
<1>3. /\ Head(s) = s[1] /\ u \in Seq(Activity) /\ Len(u) = Len(s) - 1
      /\ \A n \in 1 .. Len(u) : u[n] = s[n + 1]
  BY <1>1, <1>2, HeadTailProperties
<1>4. Head(s) \in S
  BY <1>1, <1>3 DEF Elements
<1>5. \A n, m \in 1 .. Len(u) : u[n] = u[m] => n = m
  BY <1>1, <1>3
<1>6. ASSUME NEW b \in Elements(u) PROVE b \in S \ {Head(s)}
  <2>1. PICK n \in 1 .. Len(u) : u[n] = b
    BY DEF Elements
  <2>2. n + 1 \in 1 .. Len(s) /\ s[n + 1] = b /\ n + 1 # 1
    BY <1>1, <1>3, <2>1
  <2>3. 1 \in 1 .. Len(s)
    BY <1>1
  <2>4. b # s[1]
    BY <1>1, <2>2, <2>3
  <2> QED
    BY <1>1, <1>3, <2>2, <2>4 DEF Elements
<1>7. ASSUME NEW b \in S \ {Head(s)} PROVE b \in Elements(u)
  <2>1. PICK n \in 1 .. Len(s) : s[n] = b
    BY <1>1 DEF Elements
  <2>2. n - 1 \in 1 .. Len(u) /\ u[n - 1] = b
    BY <1>1, <1>3, <2>1
  <2> QED
    BY <2>2 DEF Elements
<1> QED
  BY <1>2, <1>3, <1>4, <1>5, <1>6, <1>7 DEF Lists

\* An order of a set of Activities lists it.
LEMMA ListsOrder ==
    ASSUME NEW S \in SUBSET Activity, NEW s \in Orders(S)
    PROVE  Lists(s, S)
<1>1. IsFiniteSet(S) /\ Cardinality(S) \in Nat
  BY FS_Subset, FS_CardinalityType, ConstantsAssumption
<1>2. PICK n \in Nat : n = Cardinality(S)
  BY <1>1
<1>3. s \in [1 .. n -> S] /\ Elements(s) = S
  BY <1>2 DEF Orders
<1>4. s \in Seq(S) /\ s \in Seq(Activity)
  <2>1. s \in [1 .. n -> Activity]
    BY <1>3
  <2> QED
    BY <1>3, <2>1, SeqDef
<1>5. Len(s) = n
  BY <1>3, <1>4, LenProperties
<1>6. \A i, j \in 1 .. n : s[i] = s[j] => i = j
  <2>1. s \in Surjection(1 .. n, S)
    BY <1>3, <1>5 DEF Surjection, Elements
  <2>2. IsFiniteSet(1 .. n) /\ Cardinality(1 .. n) = n
    <3>1. 1 \in Int /\ n \in Int
      OBVIOUS
    <3>2. IsFiniteSet(1 .. n) /\ Cardinality(1 .. n) = IF 1 > n THEN 0 ELSE n - 1 + 1
      BY <3>1, FS_Interval
    <3> QED
      BY <3>2
  <2>3. s \in Injection(1 .. n, S)
    BY <1>2, <2>1, <2>2, FS_SurjSameCardinalityImpliesInj
  <2> QED
    BY <2>3 DEF Injection, IsInjective
<1> QED
  BY <1>3, <1>4, <1>5, <1>6 DEF Lists

\* A queue is as long as the set it lists is large.
LEMMA ListsLen ==
    ASSUME NEW s, NEW S, Lists(s, S)
    PROVE  Len(s) = Cardinality(S)
<1>1. s \in Seq(Activity) /\ Elements(s) = S
  BY DEF Lists
<1>2. Len(s) \in Nat /\ s \in [1 .. Len(s) -> Activity]
  BY <1>1, LenProperties
<1>3. PICK n \in Nat : n = Len(s)
  BY <1>2
<1>4. s \in Surjection(1 .. n, S)
  BY <1>1, <1>2, <1>3 DEF Surjection, Elements
<1>5. s \in Injection(1 .. n, S)
  BY <1>3, <1>4 DEF Lists, Surjection, Injection, IsInjective
<1>6. IsFiniteSet(1 .. n) /\ Cardinality(1 .. n) = n
  <2>1. 1 \in Int /\ n \in Int
    OBVIOUS
  <2>2. IsFiniteSet(1 .. n) /\ Cardinality(1 .. n) = IF 1 > n THEN 0 ELSE n - 1 + 1
    BY <2>1, FS_Interval
  <2> QED
    BY <2>2
<1>7. Cardinality(S) = Cardinality(1 .. n)
  BY <1>4, <1>5, <1>6, FS_Surjection
<1> QED
  BY <1>3, <1>6, <1>7

-----------------------------------------------------------------------------
(* Activities and processes.                                                 *)

\* The fields of an Activity and of a Process.
LEMMA Fields ==
    ASSUME TypeInv
    PROVE  /\ \A a \in Activity :
                /\ act[a] \in ActRecord
                /\ act[a].state \in {"Free", "Ready", "Running", "Stall", "Sleeping"}
                /\ act[a].of \in Proc \cup {None}
                /\ act[a].hasProcess \in BOOLEAN
                /\ act[a].haz \in Hazard
                /\ act[a].count \in Nat
           /\ \A p \in Proc :
                /\ runState[p] \in RunState /\ ctx[p] \in Ctx
                /\ curActivity[p] \in Activity \cup {None}
                /\ stallQ[p] \in Seq(Activity)
                /\ resume[p] \in Key
                /\ callCount[p] \in Nat /\ callCntUsed[p] \in BOOLEAN
           /\ cur \in Activity \cup {None} /\ readyQ \in Seq(Activity)
           /\ None \notin Proc /\ None \notin Activity
<1>1. ASSUME NEW a \in Activity PROVE act[a] \in ActRecord
  BY DEF TypeInv
<1>2. \A r \in ActRecord :
        /\ r.state \in {"Free", "Ready", "Running", "Stall", "Sleeping"}
        /\ r.of \in Proc \cup {None} /\ r.hasProcess \in BOOLEAN
        /\ r.haz \in Hazard /\ r.count \in Nat
  BY DEF ActRecord
<1>3. ASSUME NEW p \in Proc
      PROVE  /\ runState[p] \in RunState /\ ctx[p] \in Ctx
             /\ curActivity[p] \in Activity \cup {None}
             /\ stallQ[p] \in Seq(Activity)
             /\ resume[p] \in Key
             /\ callCount[p] \in Nat /\ callCntUsed[p] \in BOOLEAN
  BY DEF TypeInv
<1>4. cur \in Activity \cup {None} /\ readyQ \in Seq(Activity)
  BY DEF TypeInv
<1> QED
  BY <1>1, <1>2, <1>3, <1>4, ConstantsAssumption

\* The Activity is left alone or is woken from a stall queue.
WokenOrSame(b) ==
    /\ act'[b].of = act[b].of
    /\ act'[b].hasProcess = act[b].hasProcess
    /\ act'[b].haz = act[b].haz
    /\ \/ act'[b].state = act[b].state
       \/ act[b].state = "Stall" /\ act'[b].state = "Ready"

\* What Woken does.
LEMMA WokenFacts ==
    ASSUME TypeInv, NEW s \in Seq(Activity)
    PROVE  /\ Woken(act, s) \in [Activity -> ActRecord]
           /\ \A a \in Activity :
                /\ Woken(act, s)[a].of = act[a].of
                /\ Woken(act, s)[a].hasProcess = act[a].hasProcess
                /\ Woken(act, s)[a].haz = act[a].haz
                /\ Woken(act, s)[a].count = act[a].count
                /\ Woken(act, s)[a].state =
                     IF a \in Elements(s) THEN "Ready" ELSE act[a].state
<1>1. PICK w : w = Woken(act, s)
  OBVIOUS
<1>2. /\ DOMAIN w = Activity
      /\ w = [a \in Activity |->
                IF a \in Elements(s) THEN [act[a] EXCEPT !.state = "Ready"] ELSE act[a]]
  BY <1>1 DEF Woken
<1>3. ASSUME NEW a \in Activity
      PROVE  /\ w[a] \in ActRecord
             /\ w[a].of = act[a].of /\ w[a].hasProcess = act[a].hasProcess
             /\ w[a].haz = act[a].haz /\ w[a].count = act[a].count
             /\ w[a].state = IF a \in Elements(s) THEN "Ready" ELSE act[a].state
  <2>1. act[a] \in ActRecord
    BY Fields
  <2>2. CASE a \in Elements(s)
    <3>1. w[a] = [act[a] EXCEPT !.state = "Ready"]
      BY <1>2, <2>2
    <3> QED
      BY <2>1, <2>2, <3>1 DEF ActRecord
  <2>3. CASE a \notin Elements(s)
    BY <1>2, <2>1, <2>3
  <2> QED
    BY <2>2, <2>3
<1>4. w \in [Activity -> ActRecord]
  BY <1>2, <1>3
<1> QED
  BY <1>1, <1>3, <1>4

(* A step that changes the Activities A and the processes P, which no other  *)
(* Activity is for; others may only be woken.                                *)
LEMMA ActSteps ==
    ASSUME TypeInv, ActInv, NEW P \in SUBSET Proc, NEW A \in SUBSET Activity,
           \A b \in Activity \ A :
             WokenOrSame(b) /\ (cur' = b <=> cur = b) /\ act[b].of \notin P,
           \A q \in Proc \ P : /\ runState'[q] = runState[q] /\ ctx'[q] = ctx[q]
                               /\ curActivity'[q] = curActivity[q],
           \A a \in A : /\ act[a].of \in P \cup {None}
                        /\ act'[a].of \in P \cup {None}
                        /\ ActOK(a)',
           \A a, b \in A : act'[a].of # None /\ act'[a].of = act'[b].of => a = b,
           \A q \in P : ProcOK(q)'
    PROVE  /\ ActInv'
           /\ \A q \in Proc \ P : Waits(q) => Waits(q)'
<1>0. None \notin Proc /\ None \notin Activity
  BY Fields
<1>1. \A b \in Activity \ A : act'[b].of = act[b].of /\ act[b].of \notin P
  BY DEF WokenOrSame
<1>2. \A b, d \in Activity : act'[b].of # None /\ act'[b].of = act'[d].of => b = d
  BY <1>1 DEF ActInv
<1>3. ASSUME NEW b \in Activity PROVE ActOK(b)'
  <2>1. CASE b \in A
    BY <2>1
  <2>2. CASE b \notin A
    <3>1. WokenOrSame(b) /\ (cur' = b <=> cur = b) /\ act[b].of \notin P
      BY <2>2
    <3>2. ActOK(b) /\ act[b].of \in Proc \cup {None}
      BY Fields DEF ActInv
    <3>3. act[b].of # None => /\ runState'[act[b].of] = runState[act[b].of]
                              /\ ctx'[act[b].of] = ctx[act[b].of]
                              /\ curActivity'[act[b].of] = curActivity[act[b].of]
      BY <3>1, <3>2
    <3> QED
      BY <3>1, <3>2, <3>3 DEF ActOK, WokenOrSame
  <2> QED
    BY <2>1, <2>2
<1>4. ASSUME NEW q \in Proc PROVE ProcOK(q)'
  <2>1. CASE q \in P
    BY <2>1
  <2>2. CASE q \notin P
    <3>1. /\ runState'[q] = runState[q] /\ curActivity'[q] = curActivity[q]
          /\ ProcOK(q) /\ curActivity[q] \in Activity \cup {None}
      BY <2>2, Fields DEF ActInv
    <3>2. ASSUME NEW b \in Activity, act[b].of = q
          PROVE  act'[b].of = q /\ act'[b].hasProcess = act[b].hasProcess
      <4>1. b \notin A
        BY <1>0, <2>2, <3>2
      <4> QED
        BY <3>2, <4>1 DEF WokenOrSame
    <3>3. curActivity[q] # None => /\ act'[curActivity[q]].of = q
                                   /\ act'[curActivity[q]].hasProcess
      BY <3>1, <3>2 DEF ProcOK
    <3>4. runState[q] = "Running" => \E b \in Activity : act'[b].of = q
      BY <3>1, <3>2 DEF ProcOK
    <3> QED
      BY <3>1, <3>3, <3>4 DEF ProcOK
  <2> QED
    BY <2>1, <2>2
<1>5. ASSUME NEW q \in Proc \ P, Waits(q) PROVE Waits(q)'
  <2>1. ASSUME NEW b \in Activity PROVE act'[b].of # q
    <3>1. CASE b \in A
      BY <1>0, <3>1
    <3>2. CASE b \notin A
      BY <1>1, <1>5, <3>2 DEF Waits
    <3> QED
      BY <3>1, <3>2
  <2> QED
    BY <1>5, <2>1 DEF Waits
<1> QED
  BY <1>2, <1>3, <1>4, <1>5 DEF ActInv

\* The same for one Activity, or none.
LEMMA ActStep ==
    ASSUME TypeInv, ActInv, NEW P \in SUBSET Proc, NEW a \in Activity \cup {None},
           \A b \in Activity \ {a} :
             WokenOrSame(b) /\ (cur' = b <=> cur = b) /\ act[b].of \notin P,
           \A q \in Proc \ P : /\ runState'[q] = runState[q] /\ ctx'[q] = ctx[q]
                               /\ curActivity'[q] = curActivity[q],
           a \in Activity => /\ act[a].of \in P \cup {None}
                             /\ act'[a].of \in P \cup {None}
                             /\ ActOK(a)',
           \A q \in P : ProcOK(q)'
    PROVE  /\ ActInv'
           /\ \A q \in Proc \ P : Waits(q) => Waits(q)'
<1>1. PICK A \in SUBSET Activity : A = {a} \cap Activity
  OBVIOUS
<1>2. \A b \in Activity \ A :
        WokenOrSame(b) /\ (cur' = b <=> cur = b) /\ act[b].of \notin P
  BY <1>1
<1>3. \A b \in A : /\ act[b].of \in P \cup {None} /\ act'[b].of \in P \cup {None}
                   /\ ActOK(b)'
  BY <1>1
<1>4. \A b, d \in A : act'[b].of # None /\ act'[b].of = act'[d].of => b = d
  BY <1>1
<1> QED
  BY <1>2, <1>3, <1>4, ActSteps

(* What a step does to the queues: the Activities A may change their state,  *)
(* but not to Stall, and those who wait for a process e are woken.           *)
LEMMA QueueSteps ==
    ASSUME TypeInv, QueueInv, NEW A \in SUBSET Activity, NEW e \in Proc \cup {None},
           \A b \in Activity \ A :
             act'[b].state = IF e # None /\ b \in Elements(stallQ[e]) THEN "Ready"
                             ELSE act[b].state,
           \A a \in A : act'[a].state # "Stall",
           \A r \in Proc :
             Lists(stallQ'[r], IF r = e THEN {} ELSE Elements(stallQ[r]) \ A),
           Lists(readyQ', {b \in Activity : act'[b].state = "Ready"}),
           \A r \in Proc \ {e} :
             stallQ[r] # <<>> => ctx'[r] # "out" /\ runState'[r] # "Available"
    PROVE  QueueInv'
<1>0. None \notin Proc /\ None \notin Activity
  BY Fields
<1>1. \A r \in Proc : Elements(stallQ'[r]) = IF r = e THEN {} ELSE Elements(stallQ[r]) \ A
  BY DEF Lists
<1>2. \A r \in Proc : Lists(stallQ'[r], Elements(stallQ'[r])) /\ stallQ'[r] \in Seq(Activity)
  BY <1>1 DEF Lists
<1>3. \A q, r \in Proc : \A b \in Elements(stallQ'[q]) :
        b \in Elements(stallQ'[r]) => q = r
  <2>1. \A q \in Proc : Elements(stallQ'[q]) \subseteq Elements(stallQ[q])
    BY <1>1
  <2>2. \A q, r \in Proc : \A b \in Elements(stallQ[q]) :
          b \in Elements(stallQ[r]) => q = r
    BY DEF QueueInv
  <2> QED
    BY <2>1, <2>2
<1>4. ASSUME NEW b \in Activity
      PROVE  act'[b].state = "Stall" <=> \E q \in Proc : b \in Elements(stallQ'[q])
  <2>1. CASE b \in A
    BY <1>1, <2>1
  <2>2. CASE b \notin A
    <3>1. act[b].state = "Stall" <=> \E q \in Proc : b \in Elements(stallQ[q])
      BY DEF QueueInv
    <3>2. \A q, r \in Proc : b \in Elements(stallQ[q]) /\ b \in Elements(stallQ[r]) => q = r
      BY DEF QueueInv
    <3>3. CASE e # None /\ b \in Elements(stallQ[e])
      <4>1. e \in Proc /\ act'[b].state = "Ready"
        BY <2>2, <3>3
      <4> QED
        BY <1>1, <3>2, <3>3, <4>1
    <3>4. CASE ~(e # None /\ b \in Elements(stallQ[e]))
      <4>1. act'[b].state = act[b].state
        BY <2>2, <3>4
      <4>2. \A q \in Proc : b \in Elements(stallQ'[q]) <=> b \in Elements(stallQ[q])
        BY <1>0, <1>1, <2>2, <3>4
      <4> QED
        BY <3>1, <4>1, <4>2
    <3> QED
      BY <3>3, <3>4
  <2> QED
    BY <2>1, <2>2
<1>5. NoLostWakeUp'
  <2> SUFFICES ASSUME NEW r \in Proc, stallQ'[r] # <<>>
               PROVE  ctx'[r] # "out" /\ runState'[r] # "Available"
    BY DEF NoLostWakeUp
  <2>1. Elements(stallQ'[r]) # {}
    BY <1>2, SeqFacts
  <2>2. r # e /\ Elements(stallQ[r]) # {}
    BY <1>1, <2>1
  <2>3. stallQ[r] # <<>>
    BY <2>2, Fields, SeqFacts
  <2> QED
    BY <2>2, <2>3
<1> QED
  BY <1>2, <1>3, <1>4, <1>5 DEF QueueInv

\* The same for one Activity, or none.
LEMMA QueueStep ==
    ASSUME TypeInv, QueueInv, NEW a \in Activity \cup {None}, NEW e \in Proc \cup {None},
           \A b \in Activity \ {a} :
             act'[b].state = IF e # None /\ b \in Elements(stallQ[e]) THEN "Ready"
                             ELSE act[b].state,
           a \in Activity => act'[a].state # "Stall",
           \A r \in Proc :
             Lists(stallQ'[r], IF r = e THEN {} ELSE Elements(stallQ[r]) \ {a}),
           Lists(readyQ', {b \in Activity : act'[b].state = "Ready"}),
           \A r \in Proc \ {e} :
             stallQ[r] # <<>> => ctx'[r] # "out" /\ runState'[r] # "Available"
    PROVE  QueueInv'
<1>1. PICK A \in SUBSET Activity : A = {a} \cap Activity
  OBVIOUS
<1>2. \A r \in Proc : Elements(stallQ[r]) \subseteq Activity
  BY Fields, SeqFacts
<1>3. \A r \in Proc : Elements(stallQ[r]) \ {a} = Elements(stallQ[r]) \ A
  BY <1>1, <1>2
<1>4. \A b \in Activity \ A :
        act'[b].state = IF e # None /\ b \in Elements(stallQ[e]) THEN "Ready"
                        ELSE act[b].state
  BY <1>1
<1>5. \A b \in A : act'[b].state # "Stall"
  BY <1>1
<1>6. \A r \in Proc :
        Lists(stallQ'[r], IF r = e THEN {} ELSE Elements(stallQ[r]) \ A)
  BY <1>3
<1> QED
  BY <1>4, <1>5, <1>6, QueueSteps

-----------------------------------------------------------------------------
(* Resume capabilities.                                                      *)

\* The fields of a capability.
LEMMA KeyFields ==
    ASSUME NEW k \in Key
    PROVE  /\ k.to \in Proc \cup {None} /\ k.prep \in BOOLEAN
           /\ k.count \in Nat /\ k.live \in BOOLEAN
           /\ [k EXCEPT !.live = FALSE] \in Key
           /\ [k EXCEPT !.live = FALSE].to = k.to
           /\ [k EXCEPT !.live = FALSE].prep = k.prep
           /\ [k EXCEPT !.live = FALSE].count = k.count
           /\ [k EXCEPT !.live = FALSE].live = FALSE
BY DEF Key

\* Void and a new Resume capability.
LEMMA NewKeys ==
    /\ Void \in Key /\ Void.to = None /\ Void.prep = FALSE /\ Void.live = FALSE
    /\ \A p \in Proc : /\ ResumeKey(p) \in Key /\ ResumeKey(p).to = p
                       /\ ResumeKey(p).prep = TRUE /\ ResumeKey(p).live = TRUE
BY DEF Void, Key, ResumeKey

\* node_BumpCallCount makes the capabilities to the processes P stale and
\* leaves the others as they are.
LEMMA Bumped ==
    ASSUME TypeInv, NEW P \in SUBSET Proc, BumpCallCount(P)
    PROVE  /\ callCount' \in [Proc -> Nat] /\ callCntUsed' \in [Proc -> BOOLEAN]
           /\ \A k \in Key : KeyOK(k) /\ k.to \notin P => KeyOK(k)'
           /\ \A k \in Key : KeyOK(k) /\ k.to \in P /\ ~k.prep =>
                               KeyOK([k EXCEPT !.live = FALSE])'
<1>1. /\ \A q \in Proc : callCount[q] \in Nat /\ callCntUsed[q] \in BOOLEAN
      /\ None \notin Proc
  BY Fields
<1>2. /\ callCount' = [q \in Proc |-> IF q \in P /\ callCntUsed[q]
                                        THEN callCount[q] + 1 ELSE callCount[q]]
      /\ callCntUsed' = [q \in Proc |-> callCntUsed[q] /\ q \notin P]
  BY DEF BumpCallCount
<1>3. callCount' \in [Proc -> Nat]
  BY <1>1, <1>2
<1>4. callCntUsed' \in [Proc -> BOOLEAN]
  BY <1>2
<1>5. ASSUME NEW k \in Key, KeyOK(k), k.to \notin P PROVE KeyOK(k)'
  <2>1. k.to # None => /\ callCount'[k.to] = callCount[k.to]
                       /\ callCntUsed'[k.to] = callCntUsed[k.to]
    <3> SUFFICES ASSUME k.to # None
                 PROVE  /\ callCount'[k.to] = callCount[k.to]
                        /\ callCntUsed'[k.to] = callCntUsed[k.to]
      OBVIOUS
    <3>1. k.to \in Proc
      BY KeyFields
    <3>2. callCount'[k.to] = callCount[k.to]
      BY <1>2, <1>5, <3>1
    <3>3. callCntUsed'[k.to] = (callCntUsed[k.to] /\ k.to \notin P)
      BY <1>2, <3>1, Zenon
    <3> QED
      BY <1>1, <1>5, <3>1, <3>2, <3>3
  <2> QED
    BY <1>5, <2>1 DEF KeyOK
<1>6. ASSUME NEW k \in Key, KeyOK(k), k.to \in P, ~k.prep
      PROVE  KeyOK([k EXCEPT !.live = FALSE])'
  <2>1. PICK j \in Key : j = [k EXCEPT !.live = FALSE]
    BY KeyFields
  <2>2. j.to = k.to /\ j.prep = k.prep /\ j.count = k.count /\ j.live = FALSE
    BY <2>1, KeyFields
  <2>3. /\ k.to \in Proc /\ k.to # None /\ k.count \in Nat
        /\ callCount'[k.to] = IF callCntUsed[k.to] THEN callCount[k.to] + 1
                              ELSE callCount[k.to]
    BY <1>1, <1>2, <1>6, KeyFields
  <2>4. k.count <= callCount'[k.to] /\ k.count # callCount'[k.to]
    BY <1>1, <1>6, <2>3 DEF KeyOK
  <2>5. KeyOK(j)'
    BY <1>6, <2>2, <2>3, <2>4 DEF KeyOK
  <2> QED
    BY <2>1, <2>5
<1> QED
  BY <1>3, <1>4, <1>5, <1>6

\* The counts do not change.
LEMMA CountsSame ==
    ASSUME TypeInv, UNCHANGED <<callCount, callCntUsed>>
    PROVE  \A k \in Key : KeyOK(k) => KeyOK(k)'
BY DEF KeyOK

\* What keyR_ZapResumeKeys leaves of a capability.
LEMMA ZappedFacts ==
    ASSUME NEW keys \in [Proc -> Key], NEW p \in Proc
    PROVE  /\ Zapped(keys, p) \in [Proc -> Key]
           /\ \A h \in Proc :
                \/ keys[h].to # p /\ Zapped(keys, p)[h] = keys[h]
                \/ Zapped(keys, p)[h] = Void
                \/ /\ keys[h].to = p /\ ~keys[h].prep
                   /\ Zapped(keys, p)[h] = [keys[h] EXCEPT !.live = FALSE]
<1>1. PICK z : z = Zapped(keys, p)
  OBVIOUS
<1>2. /\ z = [h \in Proc |-> IF keys[h].to # p THEN keys[h]
                             ELSE IF keys[h].prep THEN Void
                             ELSE [keys[h] EXCEPT !.live = FALSE]]
      /\ DOMAIN z = Proc
  BY <1>1 DEF Zapped
<1>3. ASSUME NEW h \in Proc
      PROVE  /\ z[h] \in Key
             /\ \/ keys[h].to # p /\ z[h] = keys[h]
                \/ z[h] = Void
                \/ /\ keys[h].to = p /\ ~keys[h].prep
                   /\ z[h] = [keys[h] EXCEPT !.live = FALSE]
  <2>1. keys[h] \in Key
    OBVIOUS
  <2>2. [keys[h] EXCEPT !.live = FALSE] \in Key
    BY <2>1, KeyFields
  <2>3. z[h] = IF keys[h].to # p THEN keys[h]
               ELSE IF keys[h].prep THEN Void ELSE [keys[h] EXCEPT !.live = FALSE]
    BY <1>2
  <2> QED
    BY <2>1, <2>2, <2>3, NewKeys
<1>4. z \in [Proc -> Key]
  BY <1>2, <1>3
<1> QED
  BY <1>1, <1>3, <1>4

\* What a step may make of a capability while the processes P stop waiting: a
\* copy of one to another process, none, one that has become stale, or a new
\* one to a process that begins to wait.
KeyLeft(k, P) ==
    \/ k = Void
    \/ \E g \in Proc : k = resume[g] /\ resume[g].to \notin P
    \/ \E g \in Proc : /\ resume[g].to \in P /\ ~resume[g].prep
                       /\ k = [resume[g] EXCEPT !.live = FALSE]
    \/ \E x \in Proc : k = ResumeKey(x) /\ Waits(x)' /\ ctx'[x] # "out"

\* The capabilities after a step.
LEMMA KeysStep ==
    ASSUME TypeInv, KeyInv, NEW P \in SUBSET Proc,
           \A k \in Key : KeyOK(k) /\ k.to \notin P => KeyOK(k)',
           \A k \in Key : KeyOK(k) /\ k.to \in P /\ ~k.prep =>
                            KeyOK([k EXCEPT !.live = FALSE])',
           \A h \in Proc : KeyLeft(resume'[h], P),
           \A q \in Proc \ P : Waits(q) => Waits(q)',
           \A q \in Proc \ P : ctx[q] # "out" => ctx'[q] # "out"
    PROVE  KeyInv'
<1> SUFFICES ASSUME NEW h \in Proc PROVE KeyOK(resume[h])' /\ KeyWaits(resume[h])'
  BY DEF KeyInv
<1>0. None \notin Proc /\ \A g \in Proc : resume[g] \in Key
  BY Fields
<1>1. PICK k : k = resume'[h]
  OBVIOUS
<1>2. CASE k = Void
  <2>1. KeyOK(k)' /\ KeyWaits(k)'
    BY <1>2, NewKeys DEF KeyOK, KeyWaits
  <2> QED
    BY <1>1, <2>1
<1>3. ASSUME NEW g \in Proc, k = resume[g], resume[g].to \notin P
      PROVE  KeyOK(resume[h])' /\ KeyWaits(resume[h])'
  <2>1. k \in Key /\ KeyOK(k) /\ KeyWaits(k)
    BY <1>0, <1>3 DEF KeyInv
  <2>2. KeyOK(k)'
    BY <1>3, <2>1
  <2>3. k.to = None => k = Void
    BY <2>1 DEF KeyOK
  <2>4. k.to # None => k.to \in Proc \ P
    BY <1>3, <2>1, KeyFields
  <2>5. k.to # None => (Waits(k.to) => Waits(k.to)') /\ (ctx[k.to] # "out" => ctx'[k.to] # "out")
    BY <2>4
  <2>6. KeyWaits(k)'
    <3>1. CASE k.to = None
      BY <2>3, <3>1, NewKeys DEF KeyWaits
    <3>2. CASE k.to # None
      BY <2>1, <2>5, <3>2 DEF KeyWaits
    <3> QED
      BY <3>1, <3>2
  <2> QED
    BY <1>1, <2>2, <2>6
<1>4. ASSUME NEW g \in Proc, resume[g].to \in P, ~resume[g].prep,
             k = [resume[g] EXCEPT !.live = FALSE]
      PROVE  KeyOK(resume[h])' /\ KeyWaits(resume[h])'
  <2>1. resume[g] \in Key /\ KeyOK(resume[g])
    BY <1>0, <1>4 DEF KeyInv
  <2>2. PICK j \in Key : j = resume[g]
    BY <2>1
  <2>3. KeyOK([j EXCEPT !.live = FALSE])'
    BY <1>4, <2>1, <2>2
  <2>4. k = [j EXCEPT !.live = FALSE] /\ k.live = FALSE /\ k.prep = FALSE
    BY <1>4, <2>1, <2>2, KeyFields
  <2>5. KeyOK(k)'
    BY <2>3, <2>4
  <2>6. KeyWaits(k)'
    BY <2>4 DEF KeyWaits
  <2> QED
    BY <1>1, <2>5, <2>6
<1>5. ASSUME NEW x \in Proc, k = ResumeKey(x), Waits(x)', ctx'[x] # "out"
      PROVE  KeyOK(resume[h])' /\ KeyWaits(resume[h])'
  <2>1. k.to = x /\ k.prep = TRUE /\ k.live = TRUE /\ x # None
    BY <1>0, <1>5, NewKeys
  <2>2. KeyOK(k)' /\ KeyWaits(k)'
    BY <1>5, <2>1 DEF KeyOK, KeyWaits
  <2> QED
    BY <1>1, <2>2
<1> QED
  BY <1>1, <1>2, <1>3, <1>4, <1>5 DEF KeyLeft

\* The capabilities and the counts do not change.
LEMMA KeysSame ==
    ASSUME TypeInv, KeyInv, UNCHANGED <<resume, callCount, callCntUsed>>,
           \A q \in Proc : Waits(q) => Waits(q)',
           \A q \in Proc : ctx[q] # "out" => ctx'[q] # "out"
    PROVE  KeyInv'
<1>1. \A k \in Key : KeyOK(k) => KeyOK(k)'
  BY CountsSame
<1>2. \A h \in Proc : KeyLeft(resume'[h], {})
  BY DEF KeyLeft
<1> QED
  BY <1>1, <1>2, KeysStep

\* proc_ZapResumeKeys for a process.
LEMMA KeysZapped ==
    ASSUME TypeInv, NEW q \in Proc
    PROVE  /\ Zapped(resume, q) \in [Proc -> Key]
           /\ \A h \in Proc : KeyLeft(Zapped(resume, q)[h], {q})
<1>1. resume \in [Proc -> Key]
  BY DEF TypeInv
<1>2. ASSUME NEW h \in Proc PROVE KeyLeft(Zapped(resume, q)[h], {q})
  <2>1. PICK k : k = Zapped(resume, q)[h]
    OBVIOUS
  <2>2. \/ resume[h].to # q /\ k = resume[h]
        \/ k = Void
        \/ resume[h].to = q /\ ~resume[h].prep /\ k = [resume[h] EXCEPT !.live = FALSE]
    BY <1>1, <2>1, ZappedFacts, SMTT(30)
  <2>3. KeyLeft(k, {q})
    BY <2>2 DEF KeyLeft
  <2> QED
    BY <2>1, <2>3
<1> QED
  BY <1>1, <1>2, ZappedFacts

-----------------------------------------------------------------------------
(* What is known of the processes a step is about.                           *)

\* The program that runs.
LEMMA RunsFacts ==
    ASSUME TypeInv, ActInv, NEW p \in Proc, Runs(p)
    PROVE  /\ cur \in Activity /\ curActivity[p] = cur
           /\ act[cur].of = p /\ act[cur].state = "Running"
           /\ act[cur].hasProcess /\ act[cur].haz = "None"
           /\ runState[p] = "Running" /\ ctx[p] = "runnable"
           /\ \A b \in Activity \ {cur} : act[b].of # p
<1>1. cur \in Activity /\ curActivity[p] = cur /\ ctx[p] = "runnable" /\ p # None
  BY Fields DEF Runs
<1>2. act[cur].of = p /\ act[cur].hasProcess
  BY <1>1, Fields DEF ActInv, ProcOK
<1>3. ActOK(cur)
  BY <1>1 DEF ActInv
<1>4. act[cur].state = "Running"
  BY <1>3 DEF ActOK
<1>5. act[cur].haz = "None" /\ runState[p] = "Running"
  BY <1>1, <1>2, <1>3, <1>4 DEF ActOK
<1>6. \A b \in Activity \ {cur} : act[b].of # p
  BY <1>1, <1>2 DEF ActInv
<1> QED
  BY <1>1, <1>2, <1>4, <1>5, <1>6

\* An available process has no Activity, as one that waits for a return.
LEMMA Alone ==
    ASSUME TypeInv, ActInv, NEW q \in Proc, Waits(q) \/ runState[q] = "Available"
    PROVE  /\ \A a \in Activity : act[a].of # q
           /\ curActivity[q] = None /\ HazardOf(q) = None
<1>1. ASSUME NEW a \in Activity, act[a].of = q PROVE FALSE
  <2>1. ActOK(a) /\ q # None
    BY Fields DEF ActInv
  <2>2. runState[q] # "Available"
    BY <1>1, <2>1 DEF ActOK
  <2> QED
    BY <1>1, <2>2 DEF Waits
<1>2. curActivity[q] = None
  BY <1>1, Fields DEF ActInv, ProcOK
<1> QED
  BY <1>1, <1>2 DEF HazardOf

\* A prepared Resume capability is to a process that waits for a return.
LEMMA Prepared ==
    ASSUME TypeInv, KeyInv, NEW p \in Proc, resume[p].prep
    PROVE  resume[p].to \in Proc /\ Waits(resume[p].to)
<1>1. KeyOK(resume[p]) /\ KeyWaits(resume[p]) /\ resume[p] \in Key
  BY Fields DEF KeyInv
<1>2. resume[p].to # None
  BY <1>1, NewKeys DEF KeyOK
<1>3. resume[p].to \in Proc
  BY <1>1, <1>2, KeyFields
<1> QED
  BY <1>1, <1>2, <1>3 DEF KeyOK, KeyWaits

\* An Activity on a stall queue is stalled, one on the ready queue is ready.
LEMMA Queued ==
    ASSUME TypeInv, QueueInv
    PROVE  /\ \A q \in Proc : \A a \in Elements(stallQ[q]) :
                a \in Activity /\ act[a].state = "Stall"
           /\ \A q \in Proc : Lists(stallQ[q], Elements(stallQ[q]))
           /\ \A a \in Activity : act[a].state # "Stall" =>
                \A q \in Proc : Elements(stallQ[q]) \ {a} = Elements(stallQ[q])
           /\ \A q \in Proc : Elements(stallQ[q]) \ {None} = Elements(stallQ[q])
<1>1. ASSUME NEW q \in Proc PROVE Elements(stallQ[q]) \subseteq Activity /\ None \notin Elements(stallQ[q])
  BY Fields, SeqFacts
<1>2. \A q \in Proc : \A a \in Elements(stallQ[q]) : a \in Activity /\ act[a].state = "Stall"
  BY <1>1 DEF QueueInv
<1>3. \A q \in Proc : Lists(stallQ[q], Elements(stallQ[q]))
  BY DEF QueueInv
<1> QED
  BY <1>1, <1>2, <1>3

-----------------------------------------------------------------------------
(* Steps that only bring something into core or take it out.                 *)

\* A process may be loaded, or lose its schedule.
CtxChange ==
    \A q \in Proc : \/ ctx'[q] = ctx[q]
                    \/ ctx[q] = "out" /\ ctx'[q] = "hzDomRoot"
                    \/ ctx[q] = "runnable" /\ ctx'[q] = "hzSchedule"

\* Nothing but the Process structures, the capabilities and the counts change.
LEMMA CtxStep ==
    ASSUME TypeInv, ActInv, QueueInv, CtxChange,
           UNCHANGED <<runState, curActivity, stallQ, act, readyQ, cur>>
    PROVE  /\ ActInv' /\ QueueInv'
           /\ \A q \in Proc : Waits(q) => Waits(q)'
           /\ \A q \in Proc : ctx[q] # "out" => ctx'[q] # "out"
<1>1. ASSUME NEW a \in Activity PROVE ActOK(a)'
  <2>1. ActOK(a) /\ act[a].of \in Proc \cup {None}
    BY Fields DEF ActInv
  <2>2. act[a].of # None => \/ ctx'[act[a].of] = ctx[act[a].of]
                            \/ ctx[act[a].of] = "out" /\ ctx'[act[a].of] = "hzDomRoot"
                            \/ ctx[act[a].of] = "runnable" /\ ctx'[act[a].of] = "hzSchedule"
    BY <2>1 DEF CtxChange
  <2> QED
    BY <2>1, <2>2 DEF ActOK
<1>2. \A p \in Proc : ProcOK(p)'
  BY DEF ActInv, ProcOK
<1>3. ActInv'
  BY <1>1, <1>2 DEF ActInv
<1>4. NoLostWakeUp'
  BY DEF QueueInv, NoLostWakeUp, CtxChange
<1>5. QueueInv'
  BY <1>4 DEF QueueInv
<1>6. \A q \in Proc : Waits(q) => Waits(q)'
  BY DEF Waits
<1>7. \A q \in Proc : ctx[q] # "out" => ctx'[q] # "out"
  BY DEF CtxChange
<1> QED
  BY <1>3, <1>5, <1>6, <1>7

\* node_GetProcess.
LEMMA LoadProcessInv ==
    ASSUME Inv, NEW p \in Proc, NEW q \in Proc, LoadProcess(p, q)
    PROVE  Inv'
<1>0. TypeInv /\ ActInv /\ QueueInv /\ KeyInv
  BY DEF Inv
<1>1. /\ ctx[q] = "out" /\ ctx' = [ctx EXCEPT ![q] = "hzDomRoot"]
      /\ UNCHANGED <<runState, curActivity, stallQ, act, readyQ, cur>>
      /\ UNCHANGED <<resume, callCount, callCntUsed>>
  BY DEF LoadProcess, actVars, countVars
<1>2. CtxChange
  BY <1>0, <1>1 DEF CtxChange, TypeInv
<1>3. TypeInv'
  BY <1>0, <1>1 DEF TypeInv, Ctx
<1> QED
  BY <1>0, <1>1, <1>2, <1>3, CtxStep, KeysSame DEF Inv

\* swapSchedule.
LEMMA FlushScheduleInv ==
    ASSUME Inv, NEW p \in Proc, NEW q \in Proc, FlushSchedule(p, q)
    PROVE  Inv'
<1>0. TypeInv /\ ActInv /\ QueueInv /\ KeyInv
  BY DEF Inv
<1>1. /\ ctx[q] = "runnable" /\ ctx' = [ctx EXCEPT ![q] = "hzSchedule"]
      /\ UNCHANGED <<runState, curActivity, stallQ, act, readyQ, cur>>
      /\ UNCHANGED <<resume, callCount, callCntUsed>>
  BY DEF FlushSchedule, actVars, countVars
<1>2. CtxChange
  BY <1>0, <1>1 DEF CtxChange, TypeInv
<1>3. TypeInv'
  BY <1>0, <1>1 DEF TypeInv, Ctx
<1> QED
  BY <1>0, <1>1, <1>2, <1>3, CtxStep, KeysSame DEF Inv

\* key_Prepare.
LEMMA PrepareKeyInv ==
    ASSUME Inv, NEW p \in Proc, PrepareKey(p)
    PROVE  Inv'
<1>0. TypeInv /\ ActInv /\ QueueInv /\ KeyInv
  BY DEF Inv
<1>1. PICK k \in Key : k = resume[p]
  BY <1>0, Fields
<1>2. PICK j : j = IF Fits(k) THEN [k EXCEPT !.prep = TRUE, !.count = 0] ELSE Void
  OBVIOUS
<1>3. /\ k.to # None /\ ~k.prep
      /\ resume' = [resume EXCEPT ![p] = j]
      /\ ctx' = IF Fits(k) /\ ctx[k.to] = "out" THEN [ctx EXCEPT ![k.to] = "hzDomRoot"] ELSE ctx
      /\ UNCHANGED <<runState, curActivity, stallQ, act, readyQ, cur>>
      /\ UNCHANGED <<callCount, callCntUsed>>
  BY <1>1, <1>2 DEF PrepareKey, actVars, countVars
<1>4. k.to \in Proc /\ j \in Key
  <2>1. k.to \in Proc
    BY <1>3, KeyFields
  <2>2. [k EXCEPT !.prep = TRUE, !.count = 0] \in Key
    BY DEF Key
  <2> QED
    BY <1>2, <2>1, <2>2, NewKeys
<1>5. CtxChange
  BY <1>0, <1>3, <1>4 DEF CtxChange, TypeInv
<1>6. TypeInv'
  <2>1. resume' \in [Proc -> Key]
    BY <1>0, <1>3, <1>4 DEF TypeInv
  <2>2. ctx' \in [Proc -> Ctx]
    BY <1>0, <1>3, <1>4 DEF TypeInv, Ctx
  <2> QED
    BY <1>0, <1>3, <2>1, <2>2 DEF TypeInv
<1>7. /\ ActInv' /\ QueueInv'
      /\ \A q \in Proc : Waits(q) => Waits(q)'
      /\ \A q \in Proc : ctx[q] # "out" => ctx'[q] # "out"
  BY <1>0, <1>3, <1>5, CtxStep
<1>8. KeyOK(k) /\ KeyWaits(k)
  BY <1>0, <1>1 DEF KeyInv
<1>9. KeyOK(j)' /\ KeyWaits(j)'
  <2>1. CASE Fits(k)
    <3>1. j.to = k.to /\ j.prep = TRUE /\ j.live = k.live
      BY <1>2, <2>1 DEF Key
    <3>2. k.live = TRUE
      BY <1>3, <1>8, <2>1, KeyFields DEF KeyOK, Fits
    <3>3. Waits(k.to)'
      BY <1>4, <1>7, <1>8, <3>2 DEF KeyWaits
    <3>4. ctx'[k.to] # "out"
      BY <1>0, <1>3, <1>4, <2>1 DEF TypeInv
    <3>5. KeyOK(j)'
      BY <1>3, <3>1, <3>2 DEF KeyOK
    <3>6. KeyWaits(j)'
      BY <3>1, <3>3, <3>4 DEF KeyWaits
    <3> QED
      BY <3>5, <3>6
  <2>2. CASE ~Fits(k)
    BY <1>2, <2>2, NewKeys DEF KeyOK, KeyWaits
  <2> QED
    BY <2>1, <2>2
<1>10. KeyInv'
  <2> SUFFICES ASSUME NEW h \in Proc PROVE KeyOK(resume[h])' /\ KeyWaits(resume[h])'
    BY DEF KeyInv
  <2>1. PICK i : i = resume'[h]
    OBVIOUS
  <2>2. CASE h = p
    <3>1. i = j
      BY <1>0, <1>3, <2>1, <2>2 DEF TypeInv
    <3> QED
      BY <1>9, <2>1, <3>1
  <2>3. CASE h # p
    <3>1. i = resume[h] /\ i \in Key /\ KeyOK(i) /\ KeyWaits(i)
      BY <1>0, <1>3, <2>1, <2>3, Fields DEF TypeInv, KeyInv
    <3>2. KeyOK(i)'
      BY <1>0, <1>3, <3>1, CountsSame
    <3>3. i.to # None => i.to \in Proc
      BY <3>1, KeyFields
    <3>4. i.to = None => i.live = FALSE /\ i.prep = FALSE
      BY <3>1, NewKeys DEF KeyOK
    <3>5. KeyWaits(i)'
      BY <1>7, <3>1, <3>3, <3>4 DEF KeyWaits
    <3> QED
      BY <2>1, <3>2, <3>5
  <2> QED
    BY <2>2, <2>3
<1> QED
  BY <1>6, <1>7, <1>10 DEF Inv

\* key_NH_Unprepare.
LEMMA UnprepareKeyInv ==
    ASSUME Inv, NEW p \in Proc, UnprepareKey(p)
    PROVE  Inv'
<1>0. TypeInv /\ ActInv /\ QueueInv /\ KeyInv
  BY DEF Inv
<1>1. PICK k \in Key : k = resume[p]
  BY <1>0, Fields
<1>2. PICK j : j = Unprepared(k, Proc)
  OBVIOUS
<1>3. /\ k.prep
      /\ resume' = [resume EXCEPT ![p] = j]
      /\ callCntUsed' = [callCntUsed EXCEPT ![k.to] = TRUE]
      /\ UNCHANGED <<runState, ctx, curActivity, stallQ, act, readyQ, cur, callCount>>
  BY <1>1, <1>2 DEF UnprepareKey, actVars, procVars
<1>4. k.to \in Proc /\ KeyOK(k) /\ KeyWaits(k)
  BY <1>0, <1>1, <1>3, Prepared DEF KeyInv
<1>5. /\ j \in Key /\ j.to = k.to /\ j.prep = FALSE /\ j.live = k.live
      /\ j.count = callCount[k.to]
  <2>1. j = [k EXCEPT !.prep = FALSE, !.count = callCount[k.to]]
    BY <1>2, <1>3, <1>4 DEF Unprepared
  <2>2. callCount[k.to] \in Nat
    BY <1>0, <1>4, Fields
  <2> QED
    BY <2>1, <2>2 DEF Key
<1>6. CtxChange
  BY <1>3 DEF CtxChange
<1>7. TypeInv'
  <2>1. resume' \in [Proc -> Key] /\ callCntUsed' \in [Proc -> BOOLEAN]
    BY <1>0, <1>3, <1>4, <1>5 DEF TypeInv
  <2> QED
    BY <1>0, <1>3, <2>1 DEF TypeInv
<1>8. /\ ActInv' /\ QueueInv'
      /\ \A q \in Proc : Waits(q) => Waits(q)'
  BY <1>0, <1>3, <1>6, CtxStep
<1>9. KeyOK(j)' /\ KeyWaits(j)'
  <2>1. k.live = TRUE /\ Waits(k.to)'
    BY <1>0, <1>3, <1>4, <1>8, Fields, KeyFields DEF KeyOK, KeyWaits
  <2>2. callCntUsed'[k.to] = TRUE /\ callCount'[k.to] = callCount[k.to]
    BY <1>0, <1>3, <1>4 DEF TypeInv
  <2>3. callCount[k.to] \in Nat /\ k.to # None
    BY <1>0, <1>4, Fields
  <2> QED
    BY <1>5, <2>1, <2>2, <2>3 DEF KeyOK, KeyWaits
<1>10. \A i \in Key : KeyOK(i) => KeyOK(i)'
  <2> SUFFICES ASSUME NEW i \in Key, KeyOK(i) PROVE KeyOK(i)'
    OBVIOUS
  <2>1. i.to # None => (callCntUsed[i.to] => callCntUsed'[i.to])
    BY <1>0, <1>3, <1>4, KeyFields DEF TypeInv
  <2> QED
    BY <1>3, <2>1 DEF KeyOK
<1>11. KeyInv'
  <2> SUFFICES ASSUME NEW h \in Proc PROVE KeyOK(resume[h])' /\ KeyWaits(resume[h])'
    BY DEF KeyInv
  <2>1. PICK i : i = resume'[h]
    OBVIOUS
  <2>2. CASE h = p
    <3>1. i = j
      BY <1>0, <1>3, <2>1, <2>2 DEF TypeInv
    <3> QED
      BY <1>9, <2>1, <3>1
  <2>3. CASE h # p
    <3>1. i = resume[h] /\ i \in Key /\ KeyOK(i) /\ KeyWaits(i)
      BY <1>0, <1>3, <2>1, <2>3, Fields DEF TypeInv, KeyInv
    <3>2. KeyOK(i)'
      BY <1>10, <3>1
    <3>3. i.to # None => i.to \in Proc
      BY <3>1, KeyFields
    <3>4. i.to = None => i.live = FALSE /\ i.prep = FALSE
      BY <3>1, NewKeys DEF KeyOK
    <3>5. KeyWaits(i)'
      BY <1>3, <1>8, <3>1, <3>3, <3>4 DEF KeyWaits
    <3> QED
      BY <2>1, <3>2, <3>5
  <2> QED
    BY <2>2, <2>3
<1> QED
  BY <1>7, <1>8, <1>11 DEF Inv

-----------------------------------------------------------------------------
(* Messages.                                                                 *)

\* What TypeInv says of all but the capabilities.
TypeActs ==
    /\ runState \in [Proc -> RunState]
    /\ ctx \in [Proc -> Ctx]
    /\ curActivity \in [Proc -> Activity \cup {None}]
    /\ stallQ \in [Proc -> Seq(Activity)]
    /\ act \in [Activity -> ActRecord]
    /\ readyQ \in Seq(Activity)
    /\ cur \in Activity \cup {None}

\* The queues are sequences when they list something.
LEMMA ListsTyped ==
    ASSUME NEW s, NEW S, Lists(s, S)
    PROVE  s \in Seq(Activity) /\ Elements(s) = S
BY DEF Lists

\* The Activity tables.
ActTable == [Activity -> ActRecord]

\* What act_AssignTo makes of an Activity that goes on running.
RunnerOf(p) ==
    [state |-> "Running", of |-> p, hasProcess |-> TRUE, haz |-> "None", count |-> 0]

\* It runs and belongs to the process.
LEMMA RunnerFacts ==
    ASSUME NEW p \in Proc
    PROVE  /\ RunnerOf(p) \in ActRecord /\ RunnerOf(p).state = "Running"
           /\ RunnerOf(p).of = p /\ RunnerOf(p).hasProcess = TRUE
           /\ RunnerOf(p).haz = "None"
BY DEF RunnerOf, ActRecord, Hazard

\* What it makes of a free Activity.
ReadyFor(p) ==
    [state |-> "Ready", of |-> p, hasProcess |-> TRUE, haz |-> "None", count |-> 0]

\* It is ready and belongs to the process.
LEMMA ReadyFacts ==
    ASSUME NEW p \in Proc
    PROVE  /\ ReadyFor(p) \in ActRecord /\ ReadyFor(p).state = "Ready"
           /\ ReadyFor(p).of = p /\ ReadyFor(p).hasProcess = TRUE
           /\ ReadyFor(p).haz = "None"
BY DEF ReadyFor, ActRecord, Hazard

\* act_DeleteActivity.
LEMMA DeletedFacts ==
    ASSUME NEW f \in ActTable, NEW a
    PROVE  /\ Deleted(f, a) \in ActTable
           /\ a \in Activity => /\ Deleted(f, a)[a].state = "Free"
                                /\ Deleted(f, a)[a].of = None
                                /\ Deleted(f, a)[a].hasProcess = FALSE
                                /\ Deleted(f, a)[a].haz = "None"
           /\ \A b \in Activity \ {a} : Deleted(f, a)[b] = f[b]
<1>1. FreeAct \in ActRecord
  BY DEF FreeAct, ActRecord, Hazard
<1>2. /\ FreeAct.state = "Free" /\ FreeAct.of = None
      /\ FreeAct.hasProcess = FALSE /\ FreeAct.haz = "None"
  BY DEF FreeAct
<1>3. Deleted(f, a) = [b \in Activity |-> IF b = a THEN FreeAct ELSE f[b]]
  BY DEF Deleted
<1> QED
  BY <1>1, <1>2, <1>3 DEF ActTable

\* The Activity of p goes on to run q, which has none.
LEMMA HandOver ==
    ASSUME TypeInv, ActInv, NEW p \in Proc, NEW q \in Proc, Runs(p),
           \A a \in Activity : act[a].of # q, ctx[q] = "runnable",
           NEW st \in {"Available", "Waiting"},
           runState' = [runState EXCEPT ![p] = st, ![q] = "Running"],
           curActivity' = [curActivity EXCEPT ![p] = None, ![q] = cur],
           UNCHANGED <<ctx, cur>>,
           act' \in ActTable,
           act'[cur].state = "Running", act'[cur].of = q,
           act'[cur].hasProcess = TRUE, act'[cur].haz = "None",
           \A b \in Activity \ {cur} : WokenOrSame(b)
    PROVE  /\ ActInv'
           /\ runState' \in [Proc -> RunState]
           /\ curActivity' \in [Proc -> Activity \cup {None}]
           /\ \A r \in Proc \ {p, q} : Waits(r) => Waits(r)'
           /\ st = "Waiting" => Waits(p)'
           /\ p # q /\ runState'[p] = st /\ runState'[q] = "Running"
           /\ \A r \in Proc \ {p, q} : runState'[r] = runState[r]
<1>1. /\ cur \in Activity /\ curActivity[p] = cur
      /\ act[cur].of = p /\ \A b \in Activity \ {cur} : act[b].of # p
  BY RunsFacts
<1>2. p # q /\ p # None /\ q # None /\ None \notin Activity
  BY <1>1, Fields
<1>3. /\ runState' \in [Proc -> RunState] /\ runState'[p] = st /\ runState'[q] = "Running"
      /\ \A r \in Proc \ {p, q} : runState'[r] = runState[r]
  BY <1>2 DEF TypeInv, RunState
<1>4. /\ curActivity' \in [Proc -> Activity \cup {None}]
      /\ curActivity'[p] = None /\ curActivity'[q] = cur
      /\ \A r \in Proc \ {p, q} : curActivity'[r] = curActivity[r]
  BY <1>1, <1>2 DEF TypeInv
<1>5. ActOK(cur)'
  BY <1>2, <1>3, <1>4 DEF ActOK
<1>6. ProcOK(p)'
  BY <1>3, <1>4 DEF ProcOK
<1>7. ProcOK(q)'
  BY <1>1, <1>3, <1>4 DEF ProcOK
<1>8. \A b \in Activity \ {cur} : act[b].of \notin {p, q}
  BY <1>1
<1>9. ActInv' /\ \A r \in Proc \ {p, q} : Waits(r) => Waits(r)'
  <2>1. PICK P \in SUBSET Proc : P = {p, q}
    OBVIOUS
  <2>2. PICK c \in Activity : c = cur
    BY <1>1
  <2>3. \A b \in Activity \ {c} :
          WokenOrSame(b) /\ (cur' = b <=> cur = b) /\ act[b].of \notin P
    BY <1>8, <2>1, <2>2
  <2>4. \A r \in Proc \ P : /\ runState'[r] = runState[r] /\ ctx'[r] = ctx[r]
                            /\ curActivity'[r] = curActivity[r]
    BY <1>3, <1>4, <2>1
  <2>5. ActOK(c)'
    BY <1>5, <2>2
  <2>6. act[c].of \in P \cup {None} /\ act'[c].of \in P \cup {None}
    BY <1>1, <2>1, <2>2
  <2>7. \A r \in P : ProcOK(r)'
    BY <1>6, <1>7, <2>1
  <2>8. ActInv' /\ \A r \in Proc \ P : Waits(r) => Waits(r)'
    BY <2>3, <2>4, <2>5, <2>6, <2>7, ActStep
  <2> QED
    BY <2>1, <2>8
<1>10. st = "Waiting" => Waits(p)'
  <2>1. \A b \in Activity : act'[b].of # p
    BY <1>1, <1>2 DEF WokenOrSame
  <2> QED
    BY <1>3, <2>1 DEF Waits
<1> QED
  BY <1>2, <1>3, <1>4, <1>9, <1>10

\* What a CALL does to Activities and queues.
LEMMA HandToStep ==
    ASSUME TypeInv, ActInv, QueueInv, NEW p \in Proc, NEW q \in Proc, Runs(p),
           Waits(q) \/ runState[q] = "Available", ctx[q] = "runnable",
           NEW h, h = None, HandTo(p, q, h)
    PROVE  /\ ActInv' /\ QueueInv' /\ TypeActs'
           /\ \A r \in Proc \ {p, q} : Waits(r) => Waits(r)'
           /\ ~Waits(p) /\ Waits(p)'
           /\ p # q /\ ctx' = ctx /\ ctx[p] = "runnable"
<1>0. None \notin Proc /\ None \notin Activity
  BY Fields
<1>1. /\ runState' = [runState EXCEPT ![p] = "Waiting", ![q] = "Running"]
      /\ curActivity' = [curActivity EXCEPT ![p] = None, ![q] = cur]
      /\ act' = Assigned(Deleted(act, None), cur, q, "Running")
      /\ readyQ' = Dequeued(readyQ, None)
      /\ UNCHANGED <<ctx, stallQ, cur>>
  BY DEF HandTo
<1>2. /\ cur \in Activity /\ act[cur].state = "Running" /\ runState[p] = "Running"
      /\ ctx[p] = "runnable"
  BY RunsFacts
<1>3. \A a \in Activity : act[a].of # q
  BY Alone
<1>4. PICK d : d = Deleted(act, None)
  OBVIOUS
<1>5. d \in ActTable /\ \A b \in Activity : d[b] = act[b]
  <2>1. act \in ActTable /\ Activity \ {None} = Activity
    BY <1>0 DEF ActTable, TypeInv
  <2> QED
    BY <1>4, <2>1, DeletedFacts
<1>6. /\ act' \in ActTable
      /\ act'[cur].state = "Running" /\ act'[cur].of = q
      /\ act'[cur].hasProcess = TRUE /\ act'[cur].haz = "None"
      /\ \A b \in Activity \ {cur} : act'[b] = act[b]
  <2>1. PICK r \in ActRecord :
          /\ r = RunnerOf(q)
          /\ r.state = "Running" /\ r.of = q /\ r.hasProcess = TRUE /\ r.haz = "None"
    BY RunnerFacts
  <2>2. act' = [d EXCEPT ![cur] = r]
    BY <1>1, <1>4, <2>1 DEF Assigned, RunnerOf
  <2> QED
    BY <1>2, <1>5, <2>1, <2>2 DEF ActTable
<1>7. \A b \in Activity \ {cur} : WokenOrSame(b)
  BY <1>6 DEF WokenOrSame
<1>8. /\ ActInv'
      /\ runState' \in [Proc -> RunState]
      /\ curActivity' \in [Proc -> Activity \cup {None}]
      /\ \A r \in Proc \ {p, q} : Waits(r) => Waits(r)'
      /\ Waits(p)'
      /\ p # q /\ runState'[p] = "Waiting" /\ runState'[q] = "Running"
      /\ \A r \in Proc \ {p, q} : runState'[r] = runState[r]
  BY <1>1, <1>3, <1>6, <1>7, HandOver
<1>9. readyQ' = readyQ
  BY <1>1, ListsTyped, DequeuedNone DEF QueueInv
<1>10. QueueInv'
  <2>1. PICK e \in Proc \cup {None} : e = None
    OBVIOUS
  <2>2. \A b \in Activity \ {cur} :
          act'[b].state = IF e # None /\ b \in Elements(stallQ[e]) THEN "Ready"
                          ELSE act[b].state
    BY <1>6, <2>1
  <2>3. {b \in Activity : act'[b].state = "Ready"} = {b \in Activity : act[b].state = "Ready"}
    BY <1>2, <1>6
  <2>4. Lists(readyQ', {b \in Activity : act'[b].state = "Ready"})
    BY <1>9, <2>3 DEF QueueInv
  <2>5. \A r \in Proc :
          Lists(stallQ'[r], IF r = e THEN {} ELSE Elements(stallQ[r]) \ {cur})
    BY <1>0, <1>1, <1>2, <2>1, Queued
  <2>6. \A r \in Proc \ {e} :
          stallQ[r] # <<>> => ctx'[r] # "out" /\ runState'[r] # "Available"
    BY <1>1, <1>8 DEF QueueInv, NoLostWakeUp
  <2> QED
    BY <1>2, <1>6, <2>2, <2>4, <2>5, <2>6, QueueStep
<1>11. TypeActs'
  BY <1>1, <1>6, <1>8, <1>9 DEF TypeActs, TypeInv, ActTable
<1>12. ~Waits(p)
  BY <1>2 DEF Waits
<1> QED
  BY <1>1, <1>2, <1>8, <1>10, <1>11, <1>12

\* What a RETURN does to Activities and queues.
LEMMA MigrateStep ==
    ASSUME TypeInv, ActInv, QueueInv, NEW p \in Proc, NEW q \in Proc, Runs(p),
           Waits(q) \/ runState[q] = "Available", ctx[q] = "runnable",
           NEW st \in {"Available", "Waiting"},
           NEW h, h = None, Migrate(p, q, h, st)
    PROVE  /\ ActInv' /\ QueueInv' /\ TypeActs'
           /\ \A r \in Proc \ {p, q} : Waits(r) => Waits(r)'
           /\ ~Waits(p)
           /\ st = "Waiting" => Waits(p)'
           /\ p # q /\ ctx' = ctx /\ ctx[p] = "runnable"
<1>0. None \notin Proc /\ None \notin Activity
  BY Fields
<1>1. /\ act' = Assigned(Deleted(Woken(act, stallQ[p]), None), cur, q, "Running")
      /\ readyQ' = Dequeued(readyQ \o stallQ[p], None)
      /\ stallQ' = [stallQ EXCEPT ![p] = <<>>]
      /\ runState' = [runState EXCEPT ![p] = st, ![q] = "Running"]
      /\ curActivity' = [curActivity EXCEPT ![p] = None, ![q] = cur]
      /\ UNCHANGED <<ctx, cur>>
  BY DEF Migrate
<1>2. /\ cur \in Activity /\ act[cur].state = "Running" /\ runState[p] = "Running"
      /\ ctx[p] = "runnable"
  BY RunsFacts
<1>3. \A a \in Activity : act[a].of # q
  BY Alone
<1>4. PICK w : w = Woken(act, stallQ[p])
  OBVIOUS
<1>5. /\ w \in [Activity -> ActRecord]
      /\ \A b \in Activity :
           /\ w[b].of = act[b].of /\ w[b].hasProcess = act[b].hasProcess
           /\ w[b].haz = act[b].haz
           /\ w[b].state = IF b \in Elements(stallQ[p]) THEN "Ready" ELSE act[b].state
  BY <1>4, WokenFacts, Fields
<1>6. PICK d : d = Deleted(w, None)
  OBVIOUS
<1>7. d \in ActTable /\ \A b \in Activity : d[b] = w[b]
  <2>1. w \in ActTable /\ Activity \ {None} = Activity
    BY <1>0, <1>5 DEF ActTable
  <2> QED
    BY <1>6, <2>1, DeletedFacts, ZenonT(40)
<1>8. act' = Assigned(d, cur, q, "Running")
  BY <1>1, <1>4, <1>6
<1>9. /\ act' \in ActTable
      /\ act'[cur].state = "Running" /\ act'[cur].of = q
      /\ act'[cur].hasProcess = TRUE /\ act'[cur].haz = "None"
      /\ \A b \in Activity \ {cur} : act'[b] = w[b]
  <2>1. cur \in Activity /\ d \in ActTable
    BY <1>2, <1>7
  <2>2. PICK r \in ActRecord :
          /\ r = RunnerOf(q)
          /\ r.state = "Running" /\ r.of = q /\ r.hasProcess = TRUE /\ r.haz = "None"
    BY RunnerFacts
  <2>3. act' = [d EXCEPT ![cur] = r]
    BY <1>8, <2>2 DEF Assigned, RunnerOf
  <2> QED
    BY <1>7, <2>1, <2>2, <2>3 DEF ActTable
<1>10. \A b \in Activity \ {cur} : WokenOrSame(b)
  BY <1>5, <1>9, Queued DEF WokenOrSame
<1>11. /\ ActInv'
       /\ runState' \in [Proc -> RunState]
       /\ curActivity' \in [Proc -> Activity \cup {None}]
       /\ \A r \in Proc \ {p, q} : Waits(r) => Waits(r)'
       /\ st = "Waiting" => Waits(p)'
       /\ p # q /\ runState'[p] = st /\ runState'[q] = "Running"
       /\ \A r \in Proc \ {p, q} : runState'[r] = runState[r]
  BY <1>1, <1>3, <1>9, <1>10, HandOver
<1>12. /\ readyQ' = readyQ \o stallQ[p]
       /\ Lists(readyQ', {b \in Activity : act'[b].state = "Ready"})
  <2>1. PICK R : R = {b \in Activity : act[b].state = "Ready"}
    OBVIOUS
  <2>2. Lists(readyQ, R) /\ Lists(stallQ[p], Elements(stallQ[p]))
    BY <2>1 DEF QueueInv
  <2>3. R \cap Elements(stallQ[p]) = {}
    BY <2>1, Queued
  <2>4. Lists(readyQ \o stallQ[p], R \cup Elements(stallQ[p]))
    BY <2>2, <2>3, ListsConcat
  <2>5. readyQ' = readyQ \o stallQ[p]
    BY <1>1, <2>4, ListsTyped, DequeuedNone
  <2>6. {b \in Activity : act'[b].state = "Ready"} = R \cup Elements(stallQ[p])
    <3>1. \A b \in Elements(stallQ[p]) : b \in Activity /\ act[b].state = "Stall"
      BY Queued
    <3> QED
      BY <1>2, <1>5, <1>9, <2>1, <3>1
  <2> QED
    BY <2>4, <2>5, <2>6
<1>13. QueueInv'
  <2>1. \A b \in Activity \ {cur} :
          act'[b].state = IF p # None /\ b \in Elements(stallQ[p]) THEN "Ready"
                          ELSE act[b].state
    BY <1>0, <1>5, <1>9
  <2>2. \A r \in Proc :
          Lists(stallQ'[r], IF r = p THEN {} ELSE Elements(stallQ[r]) \ {cur})
    BY <1>1, <1>2, Queued, ListsEmpty DEF TypeInv
  <2>3. \A r \in Proc \ {p} :
          stallQ[r] # <<>> => ctx'[r] # "out" /\ runState'[r] # "Available"
    BY <1>1, <1>11 DEF QueueInv, NoLostWakeUp
  <2> QED
    BY <1>2, <1>9, <1>12, <2>1, <2>2, <2>3, QueueStep, ZenonT(90)
<1>14. TypeActs'
  <2>1. stallQ' \in [Proc -> Seq(Activity)]
    BY <1>1 DEF TypeInv
  <2>2. readyQ' \in Seq(Activity)
    BY <1>12, ListsTyped
  <2> QED
    BY <1>1, <1>9, <1>11, <2>1, <2>2 DEF TypeActs, TypeInv, ActTable
<1>15. ~Waits(p)
  BY <1>2 DEF Waits
<1> QED
  BY <1>1, <1>2, <1>11, <1>13, <1>14, <1>15

\* What a step that ends the wait of q makes of the capabilities.
LEMMA KeysZapStep ==
    ASSUME TypeInv, KeyInv, NEW P \in SUBSET Proc, BumpCallCount(P),
           \A h \in Proc : KeyLeft(resume'[h], P),
           \A r \in Proc \ P : Waits(r) => Waits(r)',
           \A r \in Proc \ P : ctx[r] # "out" => ctx'[r] # "out"
    PROVE  /\ KeyInv'
           /\ callCount' \in [Proc -> Nat] /\ callCntUsed' \in [Proc -> BOOLEAN]
<1>1. /\ callCount' \in [Proc -> Nat] /\ callCntUsed' \in [Proc -> BOOLEAN]
      /\ \A k \in Key : KeyOK(k) /\ k.to \notin P => KeyOK(k)'
      /\ \A k \in Key : KeyOK(k) /\ k.to \in P /\ ~k.prep =>
                          KeyOK([k EXCEPT !.live = FALSE])'
  BY Bumped
<1> QED
  BY <1>1, KeysStep

\* A process passes on its Resume capability, or none.
LEMMA KeysCopied ==
    ASSUME TypeInv, NEW p \in Proc, NEW q \in Proc, NEW k \in {resume[p], Void},
           resume' = [resume EXCEPT ![q] = k]
    PROVE  resume' \in [Proc -> Key] /\ \A h \in Proc : KeyLeft(resume'[h], {})
<1>1. resume \in [Proc -> Key] /\ resume[p] \in Key /\ Void \in Key
  BY NewKeys DEF TypeInv
<1>2. ASSUME NEW h \in Proc PROVE KeyLeft(resume'[h], {})
  <2>1. PICK j : j = resume'[h]
    OBVIOUS
  <2>2. j = resume[h] \/ j = resume[p] \/ j = Void
    BY <1>1, <2>1
  <2>3. KeyLeft(j, {})
    BY <2>2 DEF KeyLeft
  <2> QED
    BY <2>1, <2>3
<1> QED
  BY <1>1, <1>2

\* The parts of TypeInv together.
LEMMA Typed ==
    ASSUME TypeActs', resume' \in [Proc -> Key],
           callCount' \in [Proc -> Nat], callCntUsed' \in [Proc -> BOOLEAN]
    PROVE  TypeInv'
BY DEF TypeActs, TypeInv

\* CALL of a Start capability.
LEMMA CallStartInv ==
    ASSUME Inv, NEW p \in Proc, NEW q \in Proc, CallStart(p, q)
    PROVE  Inv'
<1>0. TypeInv /\ ActInv /\ QueueInv /\ KeyInv
  BY DEF Inv
<1>1. /\ Runs(p) /\ ctx[q] = "runnable" /\ runState[q] = "Available"
      /\ HandTo(p, q, None)
      /\ resume' = [resume EXCEPT ![q] = ResumeKey(p)]
      /\ UNCHANGED <<callCount, callCntUsed>>
  BY DEF CallStart, countVars
<1>2. /\ ActInv' /\ QueueInv' /\ TypeActs'
      /\ \A r \in Proc \ {p, q} : Waits(r) => Waits(r)'
      /\ ~Waits(p) /\ Waits(p)' /\ p # q /\ ctx' = ctx /\ ctx[p] = "runnable"
  BY <1>0, <1>1, HandToStep
<1>3. resume' \in [Proc -> Key] /\ \A h \in Proc : KeyLeft(resume'[h], {})
  <2>1. resume' \in [Proc -> Key]
    BY <1>0, <1>1, NewKeys DEF TypeInv
  <2>2. ASSUME NEW h \in Proc PROVE KeyLeft(resume'[h], {})
    <3>1. PICK k : k = resume'[h]
      OBVIOUS
    <3>2. k = resume[h] \/ k = ResumeKey(p)
      BY <1>0, <1>1, <3>1 DEF TypeInv
    <3>3. KeyLeft(k, {})
      BY <1>2, <3>2 DEF KeyLeft
    <3> QED
      BY <3>1, <3>3
  <2> QED
    BY <2>1, <2>2
<1>4. KeyInv'
  <2>1. \A k \in Key : KeyOK(k) => KeyOK(k)'
    BY <1>0, <1>1, CountsSame
  <2>2. \A r \in Proc : Waits(r) => Waits(r)'
    <3>1. ~Waits(q)
      BY <1>1 DEF Waits
    <3> QED
      BY <1>2, <3>1
  <2> QED
    BY <1>0, <1>2, <1>3, <2>1, <2>2, KeysStep
<1>5. callCount' \in [Proc -> Nat] /\ callCntUsed' \in [Proc -> BOOLEAN]
  BY <1>0, <1>1 DEF TypeInv
<1> QED
  BY <1>2, <1>3, <1>4, <1>5, Typed DEF Inv

\* CALL of a Resume capability.
LEMMA CallResumeInv ==
    ASSUME Inv, NEW p \in Proc, CallResume(p)
    PROVE  Inv'
<1>0. TypeInv /\ ActInv /\ QueueInv /\ KeyInv
  BY DEF Inv
<1>1. Runs(p) /\ resume[p].prep
  BY DEF CallResume
<1>2. PICK q \in Proc : q = resume[p].to /\ Waits(q)
  BY <1>0, <1>1, Prepared
<1>3. HazardOf(q) = None
  BY <1>0, <1>2, Alone
<1>4. /\ ctx[q] = "runnable" /\ HandTo(p, q, None) /\ BumpCallCount({q})
      /\ \/ resume' = [Zapped(resume, q) EXCEPT ![q] = ResumeKey(p)]
         \/ resume' = Zapped(resume, q)
  BY <1>2, <1>3 DEF CallResume
<1>5. /\ ActInv' /\ QueueInv' /\ TypeActs'
      /\ \A r \in Proc \ {p, q} : Waits(r) => Waits(r)'
      /\ ~Waits(p) /\ Waits(p)' /\ p # q /\ ctx' = ctx /\ ctx[p] = "runnable"
  BY <1>0, <1>1, <1>2, <1>4, HandToStep
<1>6. resume' \in [Proc -> Key] /\ \A h \in Proc : KeyLeft(resume'[h], {q})
  <2>1. PICK z : z = Zapped(resume, q)
    OBVIOUS
  <2>2. z \in [Proc -> Key] /\ \A h \in Proc : KeyLeft(z[h], {q})
    BY <1>0, <2>1, KeysZapped
  <2>3. (resume' = [z EXCEPT ![q] = ResumeKey(p)] \/ resume' = z) /\ ResumeKey(p) \in Key
    BY <1>4, <2>1, NewKeys
  <2>4. ASSUME NEW h \in Proc PROVE KeyLeft(resume'[h], {q})
    <3>1. PICK k : k = resume'[h]
      OBVIOUS
    <3>2. k = z[h] \/ k = ResumeKey(p)
      BY <2>2, <2>3, <3>1
    <3>3. k = ResumeKey(p) => KeyLeft(k, {q})
      BY <1>5 DEF KeyLeft
    <3> QED
      BY <2>2, <3>1, <3>2, <3>3
  <2> QED
    BY <2>2, <2>3, <2>4
<1>7. /\ KeyInv'
      /\ callCount' \in [Proc -> Nat] /\ callCntUsed' \in [Proc -> BOOLEAN]
  <2>1. PICK P \in SUBSET Proc : P = {q}
    OBVIOUS
  <2>2. BumpCallCount(P) /\ \A h \in Proc : KeyLeft(resume'[h], P)
    BY <1>4, <1>6, <2>1
  <2>3. /\ \A r \in Proc \ P : Waits(r) => Waits(r)'
        /\ \A r \in Proc \ P : ctx[r] # "out" => ctx'[r] # "out"
    BY <1>5, <2>1
  <2> QED
    BY <1>0, <2>2, <2>3, KeysZapStep
<1> QED
  BY <1>5, <1>6, <1>7, Typed DEF Inv

\* RETURN to a Resume capability.
LEMMA ReturnResumeInv ==
    ASSUME Inv, NEW p \in Proc, ReturnResume(p)
    PROVE  Inv'
<1>0. TypeInv /\ ActInv /\ QueueInv /\ KeyInv
  BY DEF Inv
<1>1. Runs(p) /\ resume[p].prep
  BY DEF ReturnResume
<1>2. PICK q \in Proc : q = resume[p].to /\ Waits(q)
  BY <1>0, <1>1, Prepared
<1>3. HazardOf(q) = None
  BY <1>0, <1>2, Alone
<1>4. /\ ctx[q] = "runnable" /\ Migrate(p, q, None, "Available")
      /\ resume' = Zapped(resume, q) /\ BumpCallCount({q})
  BY <1>2, <1>3 DEF ReturnResume
<1>5. /\ ActInv' /\ QueueInv' /\ TypeActs'
      /\ \A r \in Proc \ {p, q} : Waits(r) => Waits(r)'
      /\ ~Waits(p) /\ ctx' = ctx
  BY <1>0, <1>1, <1>2, <1>4, MigrateStep
<1>6. resume' \in [Proc -> Key] /\ \A h \in Proc : KeyLeft(resume'[h], {q})
  BY <1>0, <1>4, KeysZapped
<1>7. /\ KeyInv'
      /\ callCount' \in [Proc -> Nat] /\ callCntUsed' \in [Proc -> BOOLEAN]
  <2>1. PICK P \in SUBSET Proc : P = {q}
    OBVIOUS
  <2>2. BumpCallCount(P) /\ \A h \in Proc : KeyLeft(resume'[h], P)
    BY <1>4, <1>6, <2>1
  <2>3. /\ \A r \in Proc \ P : Waits(r) => Waits(r)'
        /\ \A r \in Proc \ P : ctx[r] # "out" => ctx'[r] # "out"
    BY <1>5, <2>1
  <2> QED
    BY <1>0, <2>2, <2>3, KeysZapStep
<1> QED
  BY <1>5, <1>6, <1>7, Typed DEF Inv

\* RETURN to a Start capability.
LEMMA ReturnStartInv ==
    ASSUME Inv, NEW p \in Proc, NEW q \in Proc, ReturnStart(p, q)
    PROVE  Inv'
<1>0. TypeInv /\ ActInv /\ QueueInv /\ KeyInv
  BY DEF Inv
<1>1. /\ Runs(p) /\ ctx[q] = "runnable" /\ runState[q] = "Available"
      /\ Migrate(p, q, None, "Available")
      /\ UNCHANGED <<callCount, callCntUsed>>
  BY DEF ReturnStart, countVars
<1>2. PICK k \in {resume[p], Void} : resume' = [resume EXCEPT ![q] = k]
  BY DEF ReturnStart
<1>3. /\ ActInv' /\ QueueInv' /\ TypeActs'
      /\ \A r \in Proc \ {p, q} : Waits(r) => Waits(r)'
      /\ ~Waits(p) /\ ctx' = ctx
  BY <1>0, <1>1, MigrateStep
<1>4. ~Waits(q)
  BY <1>1 DEF Waits
<1>5. resume' \in [Proc -> Key] /\ \A h \in Proc : KeyLeft(resume'[h], {})
  BY <1>0, <1>2, KeysCopied
<1>6. KeyInv'
  <2>1. \A i \in Key : KeyOK(i) => KeyOK(i)'
    BY <1>0, <1>1, CountsSame
  <2>2. \A r \in Proc : Waits(r) => Waits(r)'
    BY <1>3, <1>4
  <2> QED
    BY <1>0, <1>3, <1>5, <2>1, <2>2, KeysStep
<1>7. callCount' \in [Proc -> Nat] /\ callCntUsed' \in [Proc -> BOOLEAN]
  BY <1>0, <1>1 DEF TypeInv
<1> QED
  BY <1>3, <1>5, <1>6, <1>7, Typed DEF Inv

\* makeResumeKey of a process that stops running: the new capability goes to
\* q, which stops waiting.
LEMMA KeysPassed ==
    ASSUME TypeInv, NEW p \in Proc, NEW q \in Proc, p # q, Waits(p)', ctx'[p] # "out",
           resume' = Zapped([Zapped(resume, p) EXCEPT ![q] = ResumeKey(p)], q)
    PROVE  resume' \in [Proc -> Key] /\ \A h \in Proc : KeyLeft(resume'[h], {p, q})
<1>1. PICK y : y = Zapped(resume, p)
  OBVIOUS
<1>2. /\ y \in [Proc -> Key]
      /\ \A h \in Proc :
           \/ resume[h].to # p /\ y[h] = resume[h]
           \/ y[h] = Void
           \/ resume[h].to = p /\ ~resume[h].prep /\ y[h] = [resume[h] EXCEPT !.live = FALSE]
  <2>1. resume \in [Proc -> Key]
    BY DEF TypeInv
  <2> QED
    BY ONLY <1>1, <2>1, p \in Proc, ZappedFacts
<1>3. PICK z : z = [y EXCEPT ![q] = ResumeKey(p)]
  OBVIOUS
<1>4. z \in [Proc -> Key] /\ \A h \in Proc : z[h] = y[h] \/ z[h] = ResumeKey(p)
  BY <1>2, <1>3, NewKeys
<1>5. /\ resume' \in [Proc -> Key]
       /\ \A h \in Proc :
           \/ z[h].to # q /\ resume'[h] = z[h]
           \/ resume'[h] = Void
           \/ z[h].to = q /\ ~z[h].prep /\ resume'[h] = [z[h] EXCEPT !.live = FALSE]
  <2>1. resume' = Zapped(z, q)
    BY <1>1, <1>3
  <2>2. z \in [Proc -> Key]
    BY <1>4
  <2>3. /\ Zapped(z, q) \in [Proc -> Key]
        /\ \A h \in Proc :
            \/ z[h].to # q /\ Zapped(z, q)[h] = z[h]
            \/ Zapped(z, q)[h] = Void
            \/ /\ z[h].to = q /\ ~z[h].prep
               /\ Zapped(z, q)[h] = [z[h] EXCEPT !.live = FALSE]
    BY <2>2, ZappedFacts
  <2> QED
    BY <2>1, <2>3
<1>6. ASSUME NEW h \in Proc PROVE KeyLeft(resume'[h], {p, q})
  <2>1. PICK k : k = resume'[h]
    OBVIOUS
  <2>2. ResumeKey(p).to = p /\ Void.to = None /\ q # None /\ resume[h] \in Key
    BY NewKeys, Fields
  <2>3. CASE k = Void
    BY <2>1, <2>3 DEF KeyLeft
  <2>4. CASE z[h] = ResumeKey(p) /\ k = z[h]
    <3>1. KeyLeft(k, {p, q})
      BY <2>4 DEF KeyLeft
    <3> QED
      BY <2>1, <3>1
  <2>5. CASE z[h] = y[h] /\ z[h].to # q /\ k = z[h]
    <3>1. KeyLeft(k, {p, q})
      BY <1>2, <2>5 DEF KeyLeft
    <3> QED
      BY <2>1, <3>1
  <2>6. CASE z[h] = y[h] /\ z[h].to = q /\ ~z[h].prep /\ k = [z[h] EXCEPT !.live = FALSE]
    <3>1. y[h] = resume[h]
      <4>1. [resume[h] EXCEPT !.live = FALSE].to = resume[h].to
        BY <2>2, KeyFields
      <4> QED
        BY <1>2, <2>2, <2>6, <4>1
    <3>2. KeyLeft(k, {p, q})
      BY <2>6, <3>1 DEF KeyLeft
    <3> QED
      BY <2>1, <3>2
  <2> QED
    BY <1>4, <1>5, <2>1, <2>2, <2>3, <2>4, <2>5, <2>6
<1> QED
  BY <1>5, <1>6

\* makeResumeKey of the returner itself.
LEMMA ReturnMakeResumeKeyInv ==
    ASSUME Inv, NEW p \in Proc, ReturnMakeResumeKey(p)
    PROVE  Inv'
<1>0. TypeInv /\ ActInv /\ QueueInv /\ KeyInv
  BY DEF Inv
<1>1. Runs(p) /\ resume[p].prep
  BY DEF ReturnMakeResumeKey
<1>2. PICK q \in Proc : q = resume[p].to /\ Waits(q)
  BY <1>0, <1>1, Prepared
<1>3. HazardOf(q) = None
  BY <1>0, <1>2, Alone
<1>4. /\ ctx[q] = "runnable" /\ Migrate(p, q, None, "Waiting")
      /\ resume' = Zapped([Zapped(resume, p) EXCEPT ![q] = ResumeKey(p)], q)
      /\ BumpCallCount({p, q})
  BY <1>2, <1>3 DEF ReturnMakeResumeKey
<1>5. /\ ActInv' /\ QueueInv' /\ TypeActs'
      /\ \A r \in Proc \ {p, q} : Waits(r) => Waits(r)'
      /\ Waits(p)' /\ p # q /\ ctx' = ctx /\ ctx[p] = "runnable"
  BY <1>0, <1>1, <1>2, <1>4, MigrateStep
<1>6. resume' \in [Proc -> Key] /\ \A h \in Proc : KeyLeft(resume'[h], {p, q})
  BY <1>0, <1>4, <1>5, KeysPassed
<1>7. /\ KeyInv'
       /\ callCount' \in [Proc -> Nat] /\ callCntUsed' \in [Proc -> BOOLEAN]
  <2>1. PICK P \in SUBSET Proc : P = {p, q}
    OBVIOUS
  <2>2. BumpCallCount(P) /\ \A h \in Proc : KeyLeft(resume'[h], P)
    BY <1>4, <1>6, <2>1
  <2>3. /\ \A r \in Proc \ P : Waits(r) => Waits(r)'
        /\ \A r \in Proc \ P : ctx[r] # "out" => ctx'[r] # "out"
    BY <1>5, <2>1
  <2> QED
    BY <1>0, <2>2, <2>3, KeysZapStep
<1> QED
  BY <1>5, <1>6, <1>7, Typed DEF Inv

\* What a SEND does to Activities and queues.
LEMMA SendStep ==
    ASSUME TypeInv, ActInv, QueueInv, NEW q \in Proc,
           Waits(q) \/ runState[q] = "Available", ctx[q] = "runnable",
           SendTo(q, None)
    PROVE  /\ ActInv' /\ QueueInv' /\ TypeActs'
           /\ \A r \in Proc \ {q} : Waits(r) => Waits(r)'
           /\ ctx' = ctx
<1>0. None \notin Proc /\ None \notin Activity
  BY Fields
<1>1. PICK a \in Free :
        /\ act' = Assigned(Deleted(act, None), a, q, "Ready")
        /\ readyQ' = Append(Dequeued(readyQ, None), a)
        /\ runState' = [runState EXCEPT ![q] = "Running"]
        /\ curActivity' = [curActivity EXCEPT ![q] = a]
        /\ UNCHANGED <<ctx, stallQ, cur>>
  BY DEF SendTo
<1>2. a \in Activity /\ act[a].state = "Free" /\ act[a].of = None /\ cur # a
  BY DEF Free, ActInv, ActOK
<1>3. \A b \in Activity : act[b].of # q
  BY Alone
<1>4. PICK d : d = Deleted(act, None)
  OBVIOUS
<1>5. d \in ActTable /\ \A b \in Activity : d[b] = act[b]
  <2>1. act \in ActTable /\ Activity \ {None} = Activity
    BY <1>0 DEF ActTable, TypeInv
  <2> QED
    BY <1>4, <2>1, DeletedFacts
<1>6. PICK r \in ActRecord :
        /\ r = ReadyFor(q)
        /\ r.state = "Ready" /\ r.of = q /\ r.hasProcess = TRUE /\ r.haz = "None"
  BY ReadyFacts
<1>7. act' = [d EXCEPT ![a] = r]
  BY <1>1, <1>4, <1>6 DEF Assigned, ReadyFor
<1>8. /\ act' \in ActTable
      /\ act'[a].state = "Ready" /\ act'[a].of = q
      /\ act'[a].hasProcess = TRUE /\ act'[a].haz = "None"
      /\ \A b \in Activity \ {a} : act'[b] = act[b]
  BY <1>2, <1>5, <1>6, <1>7 DEF ActTable
<1>9. /\ runState' \in [Proc -> RunState] /\ runState'[q] = "Running"
      /\ \A x \in Proc \ {q} : runState'[x] = runState[x]
  BY <1>1 DEF TypeInv, RunState
<1>10. /\ curActivity' \in [Proc -> Activity \cup {None}] /\ curActivity'[q] = a
       /\ \A x \in Proc \ {q} : curActivity'[x] = curActivity[x]
  BY <1>1, <1>2 DEF TypeInv
<1>11. ActInv' /\ \A x \in Proc \ {q} : Waits(x) => Waits(x)'
  <2>1. PICK P \in SUBSET Proc : P = {q}
    OBVIOUS
  <2>2. \A b \in Activity \ {a} :
          WokenOrSame(b) /\ (cur' = b <=> cur = b) /\ act[b].of \notin P
    BY <1>1, <1>3, <1>8, <2>1 DEF WokenOrSame
  <2>3. \A x \in Proc \ P : /\ runState'[x] = runState[x] /\ ctx'[x] = ctx[x]
                            /\ curActivity'[x] = curActivity[x]
    BY <1>1, <1>9, <1>10, <2>1
  <2>4. ActOK(a)'
    BY <1>0, <1>1, <1>2, <1>8, <1>9, <1>10 DEF ActOK
  <2>5. act[a].of \in P \cup {None} /\ act'[a].of \in P \cup {None}
    BY <1>2, <1>8, <2>1
  <2>6. \A x \in P : ProcOK(x)'
    BY <1>2, <1>8, <1>10, <2>1 DEF ProcOK
  <2>7. ActInv' /\ \A x \in Proc \ P : Waits(x) => Waits(x)'
    BY <1>2, <2>2, <2>3, <2>4, <2>5, <2>6, ActStep
  <2> QED
    BY <2>1, <2>7
<1>12. Lists(readyQ', {b \in Activity : act'[b].state = "Ready"})
  <2>1. PICK R : R = {b \in Activity : act[b].state = "Ready"}
    OBVIOUS
  <2>2. Lists(readyQ, R)
    BY <2>1 DEF QueueInv
  <2>3. readyQ' = Append(readyQ, a)
    BY <1>1, <2>2, ListsTyped, DequeuedNone
  <2>4. Lists(readyQ', R \cup {a})
    BY <1>2, <2>1, <2>2, <2>3, ListsAppend
  <2>5. {b \in Activity : act'[b].state = "Ready"} = R \cup {a}
    BY <1>2, <1>8, <2>1
  <2> QED
    BY <2>4, <2>5
<1>13. QueueInv'
  <2>1. PICK e \in Proc \cup {None} : e = None
    OBVIOUS
  <2>2. \A b \in Activity \ {a} :
          act'[b].state = IF e # None /\ b \in Elements(stallQ[e]) THEN "Ready"
                          ELSE act[b].state
    BY <1>8, <2>1
  <2>3. \A x \in Proc :
          Lists(stallQ'[x], IF x = e THEN {} ELSE Elements(stallQ[x]) \ {a})
    BY <1>0, <1>1, <1>2, <2>1, Queued
  <2>4. \A x \in Proc \ {e} :
          stallQ[x] # <<>> => ctx'[x] # "out" /\ runState'[x] # "Available"
    BY <1>1, <1>9 DEF QueueInv, NoLostWakeUp
  <2>5. a \in Activity \cup {None} /\ act'[a].state # "Stall"
    BY <1>2, <1>8
  <2> QED
    BY <1>12, <2>2, <2>3, <2>4, <2>5, QueueStep
<1>14. TypeActs'
  <2>1. readyQ' \in Seq(Activity)
    BY <1>12, ListsTyped
  <2> QED
    BY <1>1, <1>8, <1>9, <1>10, <2>1 DEF TypeActs, TypeInv, ActTable
<1> QED
  BY <1>1, <1>11, <1>13, <1>14

\* SEND to a Start capability.
LEMMA SendStartInv ==
    ASSUME Inv, NEW p \in Proc, NEW q \in Proc, SendStart(p, q)
    PROVE  Inv'
<1>0. TypeInv /\ ActInv /\ QueueInv /\ KeyInv
  BY DEF Inv
<1>1. /\ ctx[q] = "runnable" /\ runState[q] = "Available" /\ SendTo(q, None)
      /\ UNCHANGED <<callCount, callCntUsed>>
  BY DEF SendStart, countVars
<1>2. PICK k \in {resume[p], Void} : resume' = [resume EXCEPT ![q] = k]
  BY DEF SendStart
<1>3. /\ ActInv' /\ QueueInv' /\ TypeActs'
      /\ \A r \in Proc \ {q} : Waits(r) => Waits(r)'
      /\ ctx' = ctx
  BY <1>0, <1>1, SendStep
<1>4. ~Waits(q)
  BY <1>1 DEF Waits
<1>5. resume' \in [Proc -> Key] /\ \A h \in Proc : KeyLeft(resume'[h], {})
  BY <1>0, <1>2, KeysCopied
<1>6. KeyInv'
  <2>1. \A i \in Key : KeyOK(i) => KeyOK(i)'
    BY <1>0, <1>1, CountsSame
  <2>2. \A r \in Proc : Waits(r) => Waits(r)'
    BY <1>3, <1>4
  <2> QED
    BY <1>0, <1>3, <1>5, <2>1, <2>2, KeysStep
<1>7. callCount' \in [Proc -> Nat] /\ callCntUsed' \in [Proc -> BOOLEAN]
  BY <1>0, <1>1 DEF TypeInv
<1> QED
  BY <1>3, <1>5, <1>6, <1>7, Typed DEF Inv

\* SEND to a Resume capability.
LEMMA SendResumeInv ==
    ASSUME Inv, NEW p \in Proc, SendResume(p)
    PROVE  Inv'
<1>0. TypeInv /\ ActInv /\ QueueInv /\ KeyInv
  BY DEF Inv
<1>1. resume[p].prep
  BY DEF SendResume
<1>2. PICK q \in Proc : q = resume[p].to /\ Waits(q)
  BY <1>0, <1>1, Prepared
<1>3. HazardOf(q) = None
  BY <1>0, <1>2, Alone
<1>4. /\ ctx[q] = "runnable" /\ SendTo(q, None)
      /\ resume' = Zapped(resume, q) /\ BumpCallCount({q})
  BY <1>2, <1>3 DEF SendResume
<1>5. /\ ActInv' /\ QueueInv' /\ TypeActs'
      /\ \A r \in Proc \ {q} : Waits(r) => Waits(r)'
      /\ ctx' = ctx
  BY <1>0, <1>2, <1>4, SendStep
<1>6. resume' \in [Proc -> Key] /\ \A h \in Proc : KeyLeft(resume'[h], {q})
  BY <1>0, <1>4, KeysZapped
<1>7. /\ KeyInv'
      /\ callCount' \in [Proc -> Nat] /\ callCntUsed' \in [Proc -> BOOLEAN]
  <2>1. PICK P \in SUBSET Proc : P = {q}
    OBVIOUS
  <2>2. BumpCallCount(P) /\ \A h \in Proc : KeyLeft(resume'[h], P)
    BY <1>4, <1>6, <2>1
  <2>3. /\ \A r \in Proc \ P : Waits(r) => Waits(r)'
        /\ \A r \in Proc \ P : ctx[r] # "out" => ctx'[r] # "out"
    BY <1>5, <2>1
  <2> QED
    BY <1>0, <2>2, <2>3, KeysZapStep
<1> QED
  BY <1>5, <1>6, <1>7, Typed DEF Inv
-----------------------------------------------------------------------------
(* The current Activity stops.                                               *)

\* Nobody waits on the stall queue for nobody: QueueStep without a wake up.
LEMMA QueueQuiet ==
    ASSUME TypeInv, QueueInv, NEW a \in Activity, act[a].state # "Stall",
           \A b \in Activity \ {a} : act'[b].state = act[b].state,
           act'[a].state # "Stall", stallQ' = stallQ,
           Lists(readyQ', {b \in Activity : act'[b].state = "Ready"}),
           \A r \in Proc :
             stallQ[r] # <<>> => ctx'[r] # "out" /\ runState'[r] # "Available"
    PROVE  QueueInv'
<1>0. None \notin Proc
  BY Fields
<1>1. PICK e \in Proc \cup {None} : e = None
  OBVIOUS
<1>2. \A b \in Activity \ {a} :
        act'[b].state = IF e # None /\ b \in Elements(stallQ[e]) THEN "Ready"
                        ELSE act[b].state
  BY <1>1
<1>3. \A x \in Proc :
        Lists(stallQ'[x], IF x = e THEN {} ELSE Elements(stallQ[x]) \ {a})
  BY <1>0, <1>1, Queued
<1> QED
  BY <1>2, <1>3, QueueStep

\* The current Activity, of a process p, stops running it but stays its own.
LEMMA CurStops ==
    ASSUME TypeInv, ActInv, NEW c \in Activity, c = cur, NEW p \in Proc, act[c].of = p,
           cur' = None, UNCHANGED <<ctx, curActivity>>,
           runState' \in [Proc -> RunState],
           \A x \in Proc \ {p} : runState'[x] = runState[x],
           NEW st \in {"Ready", "Stall", "Sleeping"},
           act' = [act EXCEPT ![c].state = st],
           runState'[p] = IF st = "Sleeping" THEN "Waiting" ELSE "Running"
    PROVE  /\ act' \in [Activity -> ActRecord]
           /\ act'[c].state = st /\ \A b \in Activity \ {c} : act'[b] = act[b]
           /\ ActInv' /\ \A x \in Proc : Waits(x) => Waits(x)'
<1>0. None \notin Proc /\ None \notin Activity
  BY Fields
<1>1. act[c] \in ActRecord /\ ActOK(c) /\ act[c].state = "Running" /\ act[c].haz = "None"
  BY Fields DEF ActInv, ActOK
<1>2. PICK r : r = [act[c] EXCEPT !.state = st]
  OBVIOUS
<1>3. /\ r \in ActRecord /\ r.state = st /\ r.of = p
      /\ r.hasProcess = act[c].hasProcess /\ r.haz = act[c].haz
  BY <1>1, <1>2 DEF ActRecord
<1>4. act' = [act EXCEPT ![c] = r] /\ act \in [Activity -> ActRecord]
  BY <1>2 DEF TypeInv
<1>5. /\ act' \in [Activity -> ActRecord]
      /\ act'[c] = r /\ \A b \in Activity \ {c} : act'[b] = act[b]
  BY <1>3, <1>4
<1>6. \A b \in Activity \ {c} : act[b].of # p
  BY <1>0 DEF ActInv
<1>7. ActInv' /\ \A x \in Proc \ {p} : Waits(x) => Waits(x)'
  <2>1. PICK P \in SUBSET Proc : P = {p}
    OBVIOUS
  <2>2. \A b \in Activity \ {c} :
          WokenOrSame(b) /\ (cur' = b <=> cur = b) /\ act[b].of \notin P
    BY <1>0, <1>5, <1>6, <2>1 DEF WokenOrSame
  <2>3. \A x \in Proc \ P : /\ runState'[x] = runState[x] /\ ctx'[x] = ctx[x]
                            /\ curActivity'[x] = curActivity[x]
    BY <2>1
  <2>4. ActOK(c)'
    BY <1>0, <1>1, <1>3, <1>5 DEF ActOK
  <2>5. act[c].of \in P \cup {None} /\ act'[c].of \in P \cup {None}
    BY <1>3, <1>5, <2>1
  <2>6. \A x \in P : ProcOK(x)'
    <3>1. curActivity[p] # None => curActivity[p] = c /\ act[c].hasProcess
      BY <1>6, Fields DEF ActInv, ProcOK
    <3>2. ProcOK(p)'
      BY <1>3, <1>5, <3>1 DEF ProcOK
    <3> QED
      BY <2>1, <3>2
  <2>7. ActInv' /\ \A x \in Proc \ P : Waits(x) => Waits(x)'
    BY <2>2, <2>3, <2>4, <2>5, <2>6, ActStep
  <2> QED
    BY <2>1, <2>7
<1>8. ~Waits(p)
  BY DEF Waits
<1> QED
  BY <1>3, <1>5, <1>7, <1>8

\* CALL of the Sleep capability.
LEMMA SleepCallInv ==
    ASSUME Inv, NEW p \in Proc, SleepCall(p)
    PROVE  Inv'
<1>0. TypeInv /\ ActInv /\ QueueInv /\ KeyInv /\ None \notin Activity
  BY Fields DEF Inv
<1>1. /\ Runs(p) /\ runState' = [runState EXCEPT ![p] = "Waiting"]
      /\ act' = [act EXCEPT ![cur].state = "Sleeping"]
      /\ cur' = None
      /\ UNCHANGED <<ctx, curActivity, stallQ, readyQ, resume, callCount, callCntUsed>>
  BY DEF SleepCall, countVars
<1>2. PICK c \in Activity : c = cur /\ act[c].of = p /\ act[c].state = "Running"
  BY <1>0, <1>1, RunsFacts
<1>3. /\ runState' \in [Proc -> RunState] /\ runState'[p] = "Waiting"
      /\ \A x \in Proc \ {p} : runState'[x] = runState[x]
  BY <1>0, <1>1 DEF TypeInv, RunState
<1>4. /\ act' \in [Activity -> ActRecord]
      /\ act'[c].state = "Sleeping" /\ \A b \in Activity \ {c} : act'[b] = act[b]
      /\ ActInv' /\ \A x \in Proc : Waits(x) => Waits(x)'
  BY <1>0, <1>1, <1>2, <1>3, CurStops
<1>5. QueueInv'
  <2>1. {b \in Activity : act'[b].state = "Ready"} = {b \in Activity : act[b].state = "Ready"}
    BY <1>2, <1>4
  <2>2. Lists(readyQ', {b \in Activity : act'[b].state = "Ready"})
    BY <1>0, <1>1, <2>1 DEF QueueInv
  <2>3. \A r \in Proc :
          stallQ[r] # <<>> => ctx'[r] # "out" /\ runState'[r] # "Available"
    BY <1>0, <1>1, <1>3 DEF QueueInv, NoLostWakeUp
  <2>4. /\ \A b \in Activity \ {c} : act'[b].state = act[b].state
        /\ act[c].state # "Stall" /\ act'[c].state # "Stall" /\ stallQ' = stallQ
    BY <1>1, <1>2, <1>4
  <2> QED
    BY <1>0, <2>2, <2>3, <2>4, QueueQuiet
<1>6. KeyInv'
  BY <1>0, <1>1, <1>4, KeysSame
<1>7. TypeInv'
  BY <1>0, <1>1, <1>3, <1>4 DEF TypeInv
<1> QED
  BY <1>4, <1>5, <1>6, <1>7 DEF Inv

\* The end of the quantum.
LEMMA PreemptInv ==
    ASSUME Inv, Preempt
    PROVE  Inv'
<1>0. TypeInv /\ ActInv /\ QueueInv /\ KeyInv /\ None \notin Activity
  BY Fields DEF Inv
<1>1. /\ cur # None /\ act' = [act EXCEPT ![cur].state = "Ready"]
      /\ readyQ' = Append(readyQ, cur) /\ cur' = None
      /\ UNCHANGED <<runState, ctx, curActivity, stallQ, resume, callCount, callCntUsed>>
  BY DEF Preempt, procVars, countVars
<1>2. PICK c \in Activity : c = cur
  BY <1>0, <1>1, Fields
<1>3. ActOK(c) /\ act[c].state = "Running" /\ act[c].haz = "None"
  BY <1>0, <1>2 DEF ActInv, ActOK
<1>4. PICK p \in Proc : p = act[c].of
  BY <1>0, <1>3, Fields DEF ActOK
<1>5. runState'[p] = "Running" /\ runState' \in [Proc -> RunState]
  <2>1. p # None
    BY <1>0, Fields
  <2>2. runState[p] = "Running"
    BY <1>3, <1>4, <2>1 DEF ActOK
  <2> QED
    BY <1>0, <1>1, <2>2 DEF TypeInv
<1>6. /\ act' \in [Activity -> ActRecord]
      /\ act'[c].state = "Ready" /\ \A b \in Activity \ {c} : act'[b] = act[b]
      /\ ActInv' /\ \A x \in Proc : Waits(x) => Waits(x)'
  BY <1>0, <1>1, <1>2, <1>4, <1>5, CurStops
<1>7. Lists(readyQ', {b \in Activity : act'[b].state = "Ready"})
  <2>1. PICK R : R = {b \in Activity : act[b].state = "Ready"}
    OBVIOUS
  <2>2. Lists(readyQ, R) /\ readyQ' = Append(readyQ, c)
    BY <1>0, <1>1, <1>2, <2>1 DEF QueueInv
  <2>3. Lists(readyQ', R \cup {c})
    BY <1>3, <2>1, <2>2, ListsAppend
  <2>4. {b \in Activity : act'[b].state = "Ready"} = R \cup {c}
    BY <1>6, <2>1
  <2> QED
    BY <2>3, <2>4
<1>8. QueueInv'
  <2>1. \A r \in Proc :
          stallQ[r] # <<>> => ctx'[r] # "out" /\ runState'[r] # "Available"
    BY <1>0, <1>1 DEF QueueInv, NoLostWakeUp
  <2>2. /\ \A b \in Activity \ {c} : act'[b].state = act[b].state
        /\ act[c].state # "Stall" /\ act'[c].state # "Stall" /\ stallQ' = stallQ
    BY <1>1, <1>3, <1>6
  <2> QED
    BY <1>0, <1>7, <2>1, <2>2, QueueQuiet
<1>9. KeyInv'
  BY <1>0, <1>1, <1>6, KeysSame
<1>10. TypeInv'
  <2>1. readyQ' \in Seq(Activity)
    BY <1>7, ListsTyped
  <2> QED
    BY <1>0, <1>1, <1>5, <1>6, <2>1 DEF TypeInv
<1> QED
  BY <1>6, <1>8, <1>9, <1>10 DEF Inv

\* The invoker of a process that is not available waits on its stall queue.
LEMMA StallOnInv ==
    ASSUME Inv, NEW p \in Proc, NEW q \in Proc, StallOn(p, q)
    PROVE  Inv'
<1>0. TypeInv /\ ActInv /\ QueueInv /\ KeyInv /\ None \notin Activity
  BY Fields DEF Inv
<1>1. /\ Runs(p) /\ ctx[q] = "runnable" /\ runState[q] # "Available"
      /\ act' = [act EXCEPT ![cur].state = "Stall"]
      /\ stallQ' = [stallQ EXCEPT ![q] = Append(@, cur)] /\ cur' = None
      /\ UNCHANGED <<runState, ctx, curActivity, readyQ, resume, callCount, callCntUsed>>
  BY DEF StallOn, countVars
<1>2. PICK c \in Activity : /\ c = cur /\ act[c].of = p /\ act[c].state = "Running"
                            /\ runState[p] = "Running"
  BY <1>0, <1>1, RunsFacts
<1>3. /\ runState' \in [Proc -> RunState] /\ runState'[p] = "Running"
      /\ \A x \in Proc \ {p} : runState'[x] = runState[x]
  BY <1>0, <1>1, <1>2 DEF TypeInv
<1>4. /\ act' \in [Activity -> ActRecord]
      /\ act'[c].state = "Stall" /\ \A b \in Activity \ {c} : act'[b] = act[b]
      /\ ActInv' /\ \A x \in Proc : Waits(x) => Waits(x)'
  BY <1>0, <1>1, <1>2, <1>3, CurStops
<1>5. \A x \in Proc : c \notin Elements(stallQ[x])
  BY <1>0, <1>2, Queued
<1>6. /\ Lists(stallQ'[q], Elements(stallQ[q]) \cup {c})
      /\ \A x \in Proc \ {q} : stallQ'[x] = stallQ[x]
  <2>1. Lists(stallQ[q], Elements(stallQ[q]))
    BY <1>0, Queued
  <2>2. stallQ'[q] = Append(stallQ[q], c) /\ \A x \in Proc \ {q} : stallQ'[x] = stallQ[x]
    BY <1>0, <1>1, <1>2 DEF TypeInv
  <2> QED
    BY <1>5, <2>1, <2>2, ListsAppend
<1>7. /\ Elements(stallQ'[q]) = Elements(stallQ[q]) \cup {c}
      /\ stallQ'[q] \in Seq(Activity)
      /\ Lists(stallQ'[q], Elements(stallQ'[q]))
  BY <1>6, ListsTyped
<1>8. QueueInv'
  <2>1. Lists(readyQ', {b \in Activity : act'[b].state = "Ready"})
    <3>1. {b \in Activity : act'[b].state = "Ready"} = {b \in Activity : act[b].state = "Ready"}
      BY <1>2, <1>4
    <3> QED
      BY <1>0, <1>1, <3>1 DEF QueueInv
  <2>2. \A x \in Proc : Lists(stallQ'[x], Elements(stallQ'[x]))
    BY <1>0, <1>6, <1>7, Queued
  <2>3. \A x, y \in Proc : \A b \in Elements(stallQ'[x]) :
          b \in Elements(stallQ'[y]) => x = y
    <3>1. \A x, y \in Proc : \A b \in Elements(stallQ[x]) :
            b \in Elements(stallQ[y]) => x = y
      BY <1>0 DEF QueueInv
    <3> QED
      BY <1>5, <1>6, <1>7, <3>1
  <2>4. ASSUME NEW b \in Activity
        PROVE  act'[b].state = "Stall" <=> \E x \in Proc : b \in Elements(stallQ'[x])
    <3>1. CASE b = c
      BY <1>4, <1>7, <3>1
    <3>2. CASE b # c
      <4>1. act[b].state = "Stall" <=> \E x \in Proc : b \in Elements(stallQ[x])
        BY <1>0 DEF QueueInv
      <4>2. \A x \in Proc : b \in Elements(stallQ'[x]) <=> b \in Elements(stallQ[x])
        BY <1>6, <1>7, <3>2
      <4>3. act'[b].state = act[b].state
        BY <1>4, <3>2
      <4> QED
        BY <4>1, <4>2, <4>3
    <3> QED
      BY <3>1, <3>2
  <2>5. NoLostWakeUp'
    BY <1>0, <1>1, <1>6 DEF QueueInv, NoLostWakeUp
  <2> QED
    BY <2>1, <2>2, <2>3, <2>4, <2>5 DEF QueueInv
<1>9. KeyInv'
  BY <1>0, <1>1, <1>4, KeysSame
<1>10. TypeInv'
  <2>1. stallQ' \in [Proc -> Seq(Activity)]
    <3>1. PICK s \in Seq(Activity) : s = stallQ'[q]
      BY <1>7
    <3>2. stallQ' = [stallQ EXCEPT ![q] = s]
      BY <1>0, <1>1, <3>1 DEF TypeInv
    <3> QED
      BY <1>0, <3>2 DEF TypeInv
  <2> QED
    BY <1>0, <1>1, <1>3, <1>4, <2>1 DEF TypeInv
<1> QED
  BY <1>4, <1>8, <1>9, <1>10 DEF Inv
-----------------------------------------------------------------------------
(* A process loses its Activity.                                             *)

\* The Activity a of q, or none if there is none, is deleted.
LEMMA ActGone ==
    ASSUME TypeInv, ActInv, NEW q \in Proc, NEW a \in Activity \cup {None},
           a \in Activity => /\ act[a].of = q
                             /\ act'[a].state = "Free" /\ act'[a].of = None
                             /\ act'[a].haz = "None",
           \A b \in Activity \ {a} :
             WokenOrSame(b) /\ (cur' = b <=> cur = b) /\ act[b].of # q,
           a \in Activity => cur' # a,
           \A x \in Proc \ {q} : /\ runState'[x] = runState[x] /\ ctx'[x] = ctx[x]
                                 /\ curActivity'[x] = curActivity[x],
           runState'[q] # "Running", curActivity'[q] = None
    PROVE  /\ ActInv'
           /\ \A x \in Proc \ {q} : Waits(x) => Waits(x)'
           /\ runState'[q] = "Waiting" => Waits(q)'
<1>0. None \notin Proc /\ None \notin Activity
  BY Fields
<1>1. PICK P \in SUBSET Proc : P = {q}
  OBVIOUS
<1>2. \A b \in Activity \ {a} :
        WokenOrSame(b) /\ (cur' = b <=> cur = b) /\ act[b].of \notin P
  BY <1>1
<1>3. \A x \in Proc \ P : /\ runState'[x] = runState[x] /\ ctx'[x] = ctx[x]
                          /\ curActivity'[x] = curActivity[x]
  BY <1>1
<1>4. a \in Activity => /\ act[a].of \in P \cup {None}
                        /\ act'[a].of \in P \cup {None}
                        /\ ActOK(a)'
  BY <1>0, <1>1 DEF ActOK
<1>5. \A x \in P : ProcOK(x)'
  BY <1>1 DEF ProcOK
<1>6. ActInv' /\ \A x \in Proc \ P : Waits(x) => Waits(x)'
  BY <1>2, <1>3, <1>4, <1>5, ActStep
<1>7. \A b \in Activity : act'[b].of # q
  BY <1>0 DEF WokenOrSame
<1> QED
  BY <1>1, <1>6, <1>7 DEF Waits

\* The Activity of a process: the one the process knows, or, when it knows
\* none, the one act_FindByOid finds.
LEMMA HisActivity ==
    ASSUME TypeInv, ActInv, NEW q \in Proc,
           NEW a \in IF curActivity[q] # None THEN {curActivity[q]}
                     ELSE OrNone(Found(q))
    PROVE  /\ a \in Activity \cup {None}
           /\ a \in Activity => act[a].of = q
           /\ \A b \in Activity \ {a} : act[b].of # q
<1>0. None \notin Proc /\ None \notin Activity
  BY Fields
<1>1. \A b, d \in Activity : act[b].of = q /\ act[d].of = q => b = d
  BY <1>0 DEF ActInv
<1>2. CASE curActivity[q] # None
  <2>1. a \in Activity /\ act[a].of = q
    BY <1>2, Fields DEF ActInv, ProcOK
  <2> QED
    BY <1>1, <2>1
<1>3. CASE curActivity[q] = None
  <2>1. ASSUME NEW b \in Activity, act[b].of = q PROVE b \in Found(q)
    <3>1. ActOK(b)
      BY DEF ActInv
    <3>2. ~act[b].hasProcess /\ act[b].state # "Free"
      BY <1>0, <1>3, <2>1, <3>1 DEF ActOK
    <3> QED
      BY <2>1, <3>2 DEF Found, Free
  <2>2. \A b \in Found(q) : b \in Activity /\ act[b].of = q
    BY DEF Found
  <2>3. CASE Found(q) = {}
    BY <1>0, <1>3, <2>1, <2>3 DEF OrNone
  <2>4. CASE Found(q) # {}
    <3>1. a \in Found(q)
      BY <1>3, <2>4 DEF OrNone
    <3> QED
      BY <1>1, <2>2, <3>1
  <2> QED
    BY <2>3, <2>4
<1> QED
  BY <1>2, <1>3

\* In core with a schedule, a process knows its Activity.
LEMMA KnowsActivity ==
    ASSUME TypeInv, ActInv, NEW q \in Proc, ctx[q] \in {"hzSchedule", "runnable"}
    PROVE  /\ curActivity[q] \in Activity => act[curActivity[q]].of = q
           /\ \A b \in Activity : act[b].of = q => curActivity[q] = b
<1>0. None \notin Proc /\ None \notin Activity
  BY Fields
<1>1. curActivity[q] \in Activity => act[curActivity[q]].of = q
  BY <1>0 DEF ActInv, ProcOK
<1>2. ASSUME NEW b \in Activity, act[b].of = q PROVE curActivity[q] = b
  <2>1. ActOK(b) /\ act[b].hasProcess \in BOOLEAN
    BY Fields DEF ActInv
  <2> QED
    BY <1>0, <1>2, <2>1 DEF ActOK
<1> QED
  BY <1>1, <1>2

\* The table and the ready queue when a is deleted and those on a stall queue
\* s are woken.
LEMMA GoneQueue ==
    ASSUME TypeInv, QueueInv, NEW a \in Activity \cup {None}, NEW s, NEW S,
           Lists(s, S), \A b \in S : act[b].state = "Stall",
           act' = Deleted(Woken(act, s), a),
           readyQ' = Dequeued(readyQ \o s, a)
    PROVE  /\ act' \in [Activity -> ActRecord] /\ readyQ' \in Seq(Activity)
           /\ a \in Activity => /\ act'[a].state = "Free" /\ act'[a].of = None
                                /\ act'[a].haz = "None"
           /\ \A b \in Activity \ {a} :
                /\ WokenOrSame(b)
                /\ act'[b].state = IF b \in S THEN "Ready" ELSE act[b].state
           /\ Lists(readyQ', {b \in Activity : act'[b].state = "Ready"})
<1>0. None \notin Activity /\ s \in Seq(Activity) /\ Elements(s) = S
  BY Fields, ListsTyped
<1>1. PICK w : w = Woken(act, s)
  OBVIOUS
<1>2. /\ w \in [Activity -> ActRecord]
      /\ \A b \in Activity :
           /\ w[b].of = act[b].of /\ w[b].hasProcess = act[b].hasProcess
           /\ w[b].haz = act[b].haz
           /\ w[b].state = IF b \in S THEN "Ready" ELSE act[b].state
  BY <1>0, <1>1, WokenFacts
<1>3. /\ act' \in [Activity -> ActRecord]
      /\ a \in Activity => /\ act'[a].state = "Free" /\ act'[a].of = None
                           /\ act'[a].haz = "None"
      /\ \A b \in Activity \ {a} : act'[b] = w[b]
  <2>1. w \in ActTable /\ act' = Deleted(w, a)
    BY <1>1, <1>2 DEF ActTable
  <2>2. /\ act' \in ActTable
        /\ a \in Activity => /\ act'[a].state = "Free" /\ act'[a].of = None
                             /\ act'[a].haz = "None"
        /\ \A b \in Activity \ {a} : act'[b] = w[b]
    <3>1. /\ Deleted(w, a) \in ActTable
          /\ a \in Activity => /\ Deleted(w, a)[a].state = "Free"
                               /\ Deleted(w, a)[a].of = None
                               /\ Deleted(w, a)[a].haz = "None"
          /\ \A b \in Activity \ {a} : Deleted(w, a)[b] = w[b]
      BY <2>1, DeletedFacts
    <3> QED
      BY <2>1, <3>1
  <2> QED
    BY <2>2 DEF ActTable
<1>4. \A b \in Activity \ {a} :
        /\ WokenOrSame(b)
        /\ act'[b].state = IF b \in S THEN "Ready" ELSE act[b].state
  BY <1>2, <1>3 DEF WokenOrSame
<1>5. Lists(readyQ', {b \in Activity : act'[b].state = "Ready"})
  <2>1. PICK R : R = {b \in Activity : act[b].state = "Ready"}
    OBVIOUS
  <2>2. Lists(readyQ, R)
    BY <2>1 DEF QueueInv
  <2>3. R \cap S = {} /\ S \subseteq Activity
    BY <1>0, <2>1, SeqFacts
  <2>4. Lists(readyQ \o s, R \cup S)
    BY <2>2, <2>3, ListsConcat
  <2>5. Lists(readyQ', (R \cup S) \ {a})
    BY <2>4, ListsDequeued
  <2>6. {b \in Activity : act'[b].state = "Ready"} = (R \cup S) \ {a}
    BY <1>3, <1>4, <2>1, <2>3
  <2> QED
    BY <2>5, <2>6
<1>6. readyQ' \in Seq(Activity)
  BY <1>5, ListsTyped
<1> QED
  BY <1>3, <1>4, <1>5, <1>6

\* Waking nobody changes nothing.
LEMMA WokenNone ==
    ASSUME TypeInv
    PROVE  Woken(act, <<>>) = act /\ readyQ \o <<>> = readyQ
<1>1. \A a \in Activity : a \notin Elements(<<>>)
  BY DEF Elements
<1>2. Woken(act, <<>>) = [a \in Activity |-> act[a]]
  BY <1>1 DEF Woken
<1>3. act = [a \in Activity |-> act[a]]
  BY DEF TypeInv
<1>4. readyQ \o <<>> = readyQ
  BY ConcatEmptySeq DEF TypeInv
<1> QED
  BY <1>2, <1>3, <1>4

\* RETURN to nobody.
LEMMA ReturnNoneInv ==
    ASSUME Inv, NEW p \in Proc, ReturnNone(p)
    PROVE  Inv'
<1>0. TypeInv /\ ActInv /\ QueueInv /\ KeyInv /\ None \notin Activity /\ None \notin Proc
  BY Fields DEF Inv
<1>1. /\ Runs(p) /\ act' = Deleted(Woken(act, stallQ[p]), cur)
      /\ readyQ' = readyQ \o stallQ[p]
      /\ stallQ' = [stallQ EXCEPT ![p] = <<>>]
      /\ runState' = [runState EXCEPT ![p] = "Available"]
      /\ curActivity' = [curActivity EXCEPT ![p] = None]
      /\ cur' = None
      /\ UNCHANGED <<ctx, resume, callCount, callCntUsed>>
  BY DEF ReturnNone, countVars
<1>2. PICK c \in Activity : /\ c = cur /\ act[c].of = p /\ act[c].state = "Running"
                            /\ runState[p] = "Running"
                            /\ \A b \in Activity \ {c} : act[b].of # p
  BY <1>0, <1>1, RunsFacts
<1>3. PICK S : S = Elements(stallQ[p])
  OBVIOUS
<1>4. PICK s : s = stallQ[p]
  OBVIOUS
<1>5. Lists(s, S) /\ \A b \in S : b \in Activity /\ act[b].state = "Stall"
  BY <1>0, <1>3, <1>4, Queued
<1>6. readyQ' = Dequeued(readyQ \o s, c) /\ act' = Deleted(Woken(act, s), c)
  <2>1. PICK R : R = {b \in Activity : act[b].state = "Ready"}
    OBVIOUS
  <2>2. Lists(readyQ, R) /\ R \cap S = {} /\ c \notin R \cup S
    BY <1>0, <1>2, <1>5, <2>1 DEF QueueInv
  <2>3. Lists(readyQ \o s, R \cup S)
    BY <1>5, <2>2, ListsConcat
  <2>4. c \notin Elements(readyQ \o s)
    BY <2>2, <2>3, ListsTyped
  <2> QED
    BY <1>1, <1>2, <1>4, <2>4 DEF Dequeued
<1>7. /\ act' \in [Activity -> ActRecord] /\ readyQ' \in Seq(Activity)
      /\ act'[c].state = "Free" /\ act'[c].of = None /\ act'[c].haz = "None"
      /\ \A b \in Activity \ {c} :
           /\ WokenOrSame(b)
           /\ act'[b].state = IF b \in S THEN "Ready" ELSE act[b].state
      /\ Lists(readyQ', {b \in Activity : act'[b].state = "Ready"})
  <2>1. c \in Activity \cup {None} /\ \A b \in S : act[b].state = "Stall"
    BY <1>5
  <2>2. /\ act' \in [Activity -> ActRecord] /\ readyQ' \in Seq(Activity)
        /\ c \in Activity => /\ act'[c].state = "Free" /\ act'[c].of = None
                             /\ act'[c].haz = "None"
        /\ \A b \in Activity \ {c} :
             /\ WokenOrSame(b)
             /\ act'[b].state = IF b \in S THEN "Ready" ELSE act[b].state
        /\ Lists(readyQ', {b \in Activity : act'[b].state = "Ready"})
    <3>1. TypeInv /\ QueueInv /\ Lists(s, S)
      BY <1>0, <1>5
    <3> QED
      BY <1>6, <2>1, <3>1, GoneQueue, Zenon
  <2> QED
    BY <2>2
<1>8. /\ runState' \in [Proc -> RunState] /\ runState'[p] = "Available"
      /\ \A x \in Proc \ {p} : runState'[x] = runState[x]
  BY <1>0, <1>1 DEF TypeInv, RunState
<1>9. /\ curActivity' \in [Proc -> Activity \cup {None}] /\ curActivity'[p] = None
      /\ \A x \in Proc \ {p} : curActivity'[x] = curActivity[x]
  BY <1>0, <1>1 DEF TypeInv
<1>10. ActInv' /\ \A x \in Proc \ {p} : Waits(x) => Waits(x)'
  <2>1. \A b \in Activity \ {c} :
          WokenOrSame(b) /\ (cur' = b <=> cur = b) /\ act[b].of # p
    BY <1>0, <1>1, <1>2, <1>7
  <2>2. \A x \in Proc \ {p} : /\ runState'[x] = runState[x] /\ ctx'[x] = ctx[x]
                              /\ curActivity'[x] = curActivity[x]
    BY <1>1, <1>8, <1>9
  <2>3. cur' # c /\ runState'[p] # "Running"
    BY <1>0, <1>1, <1>8
  <2> QED
    BY <1>0, <1>2, <1>7, <1>9, <2>1, <2>2, <2>3, ActGone
<1>11. QueueInv'
  <2>1. \A b \in Activity \ {c} :
          act'[b].state = IF p # None /\ b \in Elements(stallQ[p]) THEN "Ready"
                          ELSE act[b].state
    BY <1>0, <1>3, <1>7
  <2>2. \A x \in Proc :
          Lists(stallQ'[x], IF x = p THEN {} ELSE Elements(stallQ[x]) \ {c})
    BY <1>0, <1>1, <1>2, Queued, ListsEmpty DEF TypeInv
  <2>3. \A x \in Proc \ {p} :
          stallQ[x] # <<>> => ctx'[x] # "out" /\ runState'[x] # "Available"
    BY <1>0, <1>1, <1>8 DEF QueueInv, NoLostWakeUp
  <2>4. act'[c].state # "Stall"
    BY <1>7
  <2> QED
    BY <1>0, <1>7, <2>1, <2>2, <2>3, <2>4, QueueStep
<1>12. KeyInv'
  <2>1. ~Waits(p)
    BY <1>2 DEF Waits
  <2> QED
    BY <1>0, <1>1, <1>10, <2>1, KeysSame
<1>13. TypeInv'
  <2>1. stallQ' \in [Proc -> Seq(Activity)]
    BY <1>0, <1>1 DEF TypeInv
  <2> QED
    BY <1>0, <1>1, <1>7, <1>8, <1>9, <2>1 DEF TypeInv
<1> QED
  BY <1>10, <1>11, <1>12, <1>13 DEF Inv
\* Nothing is taken out of a queue the Activity is not on.
LEMMA DequeuedSame ==
    ASSUME NEW s, NEW a, a \notin Elements(s)
    PROVE  Dequeued(s, a) = s
BY DEF Dequeued

\* A process loses its Activity, if it has one, and waits for a return.
LEMMA GoneWaiting ==
    ASSUME TypeInv, ActInv, QueueInv, NEW q \in Proc, NEW a \in Activity \cup {None},
           a \in Activity => act[a].of = q,
           \A b \in Activity \ {a} : act[b].of # q /\ (cur' = b <=> cur = b),
           a \in Activity => cur' # a, cur' \in Activity \cup {None},
           act' = Deleted(act, a), readyQ' = Dequeued(readyQ, a),
           \A r \in Proc : stallQ'[r] = Dequeued(stallQ[r], a),
           stallQ' = [r \in Proc |-> stallQ'[r]],
           curActivity' = [curActivity EXCEPT ![q] = None],
           runState' = [runState EXCEPT ![q] = "Waiting"], ctx' = ctx
    PROVE  /\ ActInv' /\ QueueInv' /\ TypeActs'
           /\ \A x \in Proc \ {q} : Waits(x) => Waits(x)'
           /\ Waits(q)'
<1>0. None \notin Activity /\ None \notin Proc
  BY Fields
<1>1. PICK S : S = {}
  OBVIOUS
<1>2. PICK s : s = <<>>
  OBVIOUS
<1>3. /\ act' = Deleted(Woken(act, s), a) /\ readyQ' = Dequeued(readyQ \o s, a)
      /\ Lists(s, S) /\ \A b \in S : act[b].state = "Stall"
  BY <1>1, <1>2, WokenNone, ListsEmpty
<1>4. /\ act' \in [Activity -> ActRecord] /\ readyQ' \in Seq(Activity)
      /\ a \in Activity => /\ act'[a].state = "Free" /\ act'[a].of = None
                           /\ act'[a].haz = "None"
      /\ \A b \in Activity \ {a} :
           /\ WokenOrSame(b)
           /\ act'[b].state = IF b \in S THEN "Ready" ELSE act[b].state
      /\ Lists(readyQ', {b \in Activity : act'[b].state = "Ready"})
  BY <1>3, GoneQueue, Zenon
<1>5. /\ runState' \in [Proc -> RunState] /\ runState'[q] = "Waiting"
      /\ \A x \in Proc \ {q} : runState'[x] = runState[x]
  BY DEF TypeInv, RunState
<1>6. /\ curActivity' \in [Proc -> Activity \cup {None}] /\ curActivity'[q] = None
      /\ \A x \in Proc \ {q} : curActivity'[x] = curActivity[x]
  BY DEF TypeInv
<1>7. ActInv' /\ Waits(q)' /\ \A x \in Proc \ {q} : Waits(x) => Waits(x)'
  <2>1. \A b \in Activity \ {a} :
          WokenOrSame(b) /\ (cur' = b <=> cur = b) /\ act[b].of # q
    BY <1>4
  <2>2. \A x \in Proc \ {q} : /\ runState'[x] = runState[x] /\ ctx'[x] = ctx[x]
                              /\ curActivity'[x] = curActivity[x]
    BY <1>5, <1>6
  <2>3. a \in Activity => /\ act[a].of = q
                          /\ act'[a].state = "Free" /\ act'[a].of = None
                          /\ act'[a].haz = "None"
    BY <1>4
  <2>4. runState'[q] # "Running" /\ runState'[q] = "Waiting" /\ curActivity'[q] = None
    BY <1>5, <1>6
  <2> QED
    BY <2>1, <2>2, <2>3, <2>4, ActGone
<1>8. QueueInv'
  <2>1. PICK e \in Proc \cup {None} : e = None
    OBVIOUS
  <2>2. \A b \in Activity \ {a} :
          act'[b].state = IF e # None /\ b \in Elements(stallQ[e]) THEN "Ready"
                          ELSE act[b].state
    BY <1>1, <1>4, <2>1
  <2>3. \A x \in Proc :
          Lists(stallQ'[x], IF x = e THEN {} ELSE Elements(stallQ[x]) \ {a})
    BY <1>0, <2>1, Queued, ListsDequeued
  <2>4. \A x \in Proc \ {e} :
          stallQ[x] # <<>> => ctx'[x] # "out" /\ runState'[x] # "Available"
    BY <1>5 DEF QueueInv, NoLostWakeUp
  <2>5. a \in Activity => act'[a].state # "Stall"
    BY <1>4
  <2> QED
    BY <1>4, <2>2, <2>3, <2>4, <2>5, QueueStep
<1>9. TypeActs'
  <2>1. \A x \in Proc : stallQ'[x] \in Seq(Activity)
    <3>1. \A x \in Proc : Lists(stallQ'[x], Elements(stallQ[x]) \ {a})
      BY Queued, ListsDequeued
    <3> QED
      BY <3>1, ListsTyped
  <2>2. stallQ' \in [Proc -> Seq(Activity)]
    BY <2>1
  <2>3. ctx' \in [Proc -> Ctx]
    BY DEF TypeInv
  <2> QED
    BY <1>4, <1>5, <1>6, <2>2, <2>3 DEF TypeActs
<1> QED
  BY <1>7, <1>8, <1>9

\* makeResumeKey of the process that calls.
LEMMA MakeResumeKeySelfInv ==
    ASSUME Inv, NEW p \in Proc, MakeResumeKeySelf(p)
    PROVE  Inv'
<1>0. TypeInv /\ ActInv /\ QueueInv /\ KeyInv /\ None \notin Activity /\ None \notin Proc
  BY Fields DEF Inv
<1>1. /\ Runs(p) /\ resume' = Zapped(resume, p) /\ BumpCallCount({p})
      /\ act' = Deleted(act, cur)
      /\ curActivity' = [curActivity EXCEPT ![p] = None]
      /\ runState' = [runState EXCEPT ![p] = "Waiting"]
      /\ cur' = None
      /\ UNCHANGED <<ctx, stallQ, readyQ>>
  BY DEF MakeResumeKeySelf
<1>2. PICK c \in Activity : /\ c = cur /\ act[c].of = p /\ act[c].state = "Running"
                            /\ \A b \in Activity \ {c} : act[b].of # p
  BY <1>0, <1>1, RunsFacts
<1>3. readyQ' = Dequeued(readyQ, c)
  <2>1. Lists(readyQ, {b \in Activity : act[b].state = "Ready"})
    BY <1>0 DEF QueueInv
  <2>2. c \notin Elements(readyQ)
    BY <1>2, <2>1, ListsTyped
  <2> QED
    BY <1>1, <2>2, DequeuedSame
<1>4. \A r \in Proc : stallQ'[r] = Dequeued(stallQ[r], c)
  <2>1. \A r \in Proc : c \notin Elements(stallQ[r])
    BY <1>0, <1>2, Queued
  <2> QED
    BY <1>1, <2>1, DequeuedSame
<1>5. /\ stallQ' = [r \in Proc |-> stallQ'[r]] /\ act' = Deleted(act, c)
      /\ cur' # c /\ cur' \in Activity \cup {None} /\ ctx' = ctx
      /\ \A b \in Activity \ {c} : act[b].of # p /\ (cur' = b <=> cur = b)
  BY <1>0, <1>1, <1>2 DEF TypeInv
<1>6. /\ ActInv' /\ QueueInv' /\ TypeActs'
      /\ \A x \in Proc \ {p} : Waits(x) => Waits(x)'
  BY <1>0, <1>1, <1>2, <1>3, <1>4, <1>5, GoneWaiting, ZenonT(40)
<1>7. resume' \in [Proc -> Key] /\ \A h \in Proc : KeyLeft(resume'[h], {p})
  BY <1>0, <1>1, KeysZapped
<1>8. /\ KeyInv'
      /\ callCount' \in [Proc -> Nat] /\ callCntUsed' \in [Proc -> BOOLEAN]
  <2>1. PICK P \in SUBSET Proc : P = {p}
    OBVIOUS
  <2>2. BumpCallCount(P) /\ \A h \in Proc : KeyLeft(resume'[h], P)
    BY <1>1, <1>7, <2>1
  <2>3. /\ \A r \in Proc \ P : Waits(r) => Waits(r)'
        /\ \A r \in Proc \ P : ctx[r] # "out" => ctx'[r] # "out"
    BY <1>1, <1>6, <2>1
  <2> QED
    BY <1>0, <2>2, <2>3, KeysZapStep
<1> QED
  BY <1>6, <1>7, <1>8, Typed DEF Inv

\* makeResumeKey of the process that sends.
LEMMA SendMakeResumeKeyInv ==
    ASSUME Inv, NEW p \in Proc, SendMakeResumeKey(p)
    PROVE  Inv'
<1>0. TypeInv /\ ActInv /\ QueueInv /\ KeyInv /\ None \notin Activity /\ None \notin Proc
  BY Fields DEF Inv
<1>1. Runs(p) /\ resume[p].prep
  BY DEF SendMakeResumeKey
<1>2. PICK q \in Proc : q = resume[p].to /\ Waits(q)
  BY <1>0, <1>1, Prepared
<1>3. HazardOf(q) = None /\ \A b \in Activity : act[b].of # q
  BY <1>0, <1>2, Alone
<1>4. PICK c \in Activity : /\ c = cur /\ act[c].of = p /\ act[c].state = "Running"
                            /\ \A b \in Activity \ {c} : act[b].of # p
                            /\ runState[p] = "Running" /\ ctx[p] = "runnable"
  BY <1>0, <1>1, RunsFacts
<1>5. p # q
  BY <1>2, <1>4 DEF Waits
<1>6. PICK a \in Free :
        /\ act' = Assigned(Deleted(Deleted(act, None), c), a, q, "Ready")
        /\ readyQ' = Append(Dequeued(readyQ, None), a)
        /\ curActivity' = [curActivity EXCEPT ![p] = None, ![q] = a]
  BY <1>2, <1>3, <1>4 DEF SendMakeResumeKey
<1>7. /\ runState' = [runState EXCEPT ![p] = "Waiting", ![q] = "Running"]
      /\ cur' = None /\ UNCHANGED <<ctx, stallQ>>
      /\ resume' = Zapped([Zapped(resume, p) EXCEPT ![q] = ResumeKey(p)], q)
      /\ BumpCallCount({p, q}) /\ ctx[q] = "runnable"
  BY <1>2, <1>3 DEF SendMakeResumeKey
<1>8. a \in Activity /\ act[a].state = "Free" /\ act[a].of = None /\ a # c
  BY <1>0, <1>4 DEF Free, ActInv, ActOK
<1>9. /\ act' \in ActTable
      /\ act'[a].state = "Ready" /\ act'[a].of = q
      /\ act'[a].hasProcess = TRUE /\ act'[a].haz = "None"
      /\ act'[c].state = "Free" /\ act'[c].of = None
      /\ act'[c].hasProcess = FALSE /\ act'[c].haz = "None"
      /\ \A b \in Activity \ {a, c} : act'[b] = act[b]
  <2>1. PICK d : d = Deleted(act, None)
    OBVIOUS
  <2>2. d \in ActTable /\ \A b \in Activity : d[b] = act[b]
    <3>1. act \in ActTable /\ Activity \ {None} = Activity
      BY <1>0 DEF ActTable, TypeInv
    <3> QED
      BY <2>1, <3>1, DeletedFacts
  <2>3. PICK e : e = Deleted(d, c)
    OBVIOUS
  <2>4. /\ e \in ActTable /\ e[c].state = "Free" /\ e[c].of = None
        /\ e[c].hasProcess = FALSE /\ e[c].haz = "None"
        /\ \A b \in Activity \ {c} : e[b] = d[b]
    BY <2>2, <2>3, DeletedFacts
  <2>5. PICK r \in ActRecord :
          /\ r = ReadyFor(q)
          /\ r.state = "Ready" /\ r.of = q /\ r.hasProcess = TRUE /\ r.haz = "None"
    BY ReadyFacts
  <2>6. act' = [e EXCEPT ![a] = r]
    BY <1>6, <2>1, <2>3, <2>5 DEF Assigned, ReadyFor
  <2> QED
    BY <1>8, <2>2, <2>4, <2>5, <2>6 DEF ActTable
<1>10. /\ runState' \in [Proc -> RunState]
       /\ runState'[p] = "Waiting" /\ runState'[q] = "Running"
       /\ \A x \in Proc \ {p, q} : runState'[x] = runState[x]
  BY <1>0, <1>5, <1>7 DEF TypeInv, RunState
<1>11. /\ curActivity' \in [Proc -> Activity \cup {None}]
       /\ curActivity'[p] = None /\ curActivity'[q] = a
       /\ \A x \in Proc \ {p, q} : curActivity'[x] = curActivity[x]
  BY <1>0, <1>5, <1>6, <1>8 DEF TypeInv
<1>12. PICK A \in SUBSET Activity : A = {a, c}
  BY <1>8
<1>13. ActInv' /\ \A x \in Proc \ {p, q} : Waits(x) => Waits(x)'
  <2>1. PICK P \in SUBSET Proc : P = {p, q}
    OBVIOUS
  <2>2. \A b \in Activity \ A :
          WokenOrSame(b) /\ (cur' = b <=> cur = b) /\ act[b].of \notin P
    BY <1>0, <1>3, <1>4, <1>7, <1>9, <1>12, <2>1 DEF WokenOrSame
  <2>3. \A x \in Proc \ P : /\ runState'[x] = runState[x] /\ ctx'[x] = ctx[x]
                            /\ curActivity'[x] = curActivity[x]
    BY <1>7, <1>10, <1>11, <2>1
  <2>4. ActOK(a)'
    BY <1>0, <1>7, <1>8, <1>9, <1>10, <1>11 DEF ActOK
  <2>5. ActOK(c)'
    BY <1>0, <1>7, <1>9 DEF ActOK
  <2>6. \A b \in A : /\ act[b].of \in P \cup {None} /\ act'[b].of \in P \cup {None}
                     /\ ActOK(b)'
    BY <1>4, <1>8, <1>9, <1>12, <2>1, <2>4, <2>5
  <2>7. \A b, d \in A : act'[b].of # None /\ act'[b].of = act'[d].of => b = d
    BY <1>9, <1>12
  <2>8. ProcOK(p)'
    BY <1>10, <1>11 DEF ProcOK
  <2>9. ProcOK(q)'
    BY <1>8, <1>9, <1>11 DEF ProcOK
  <2>10. \A x \in P : ProcOK(x)'
    BY <2>1, <2>8, <2>9
  <2>11. ActInv' /\ \A x \in Proc \ P : Waits(x) => Waits(x)'
    BY <1>0, <2>2, <2>3, <2>6, <2>7, <2>10, ActSteps
  <2> QED
    BY <2>1, <2>11
<1>14. Waits(p)'
  BY <1>4, <1>5, <1>8, <1>9, <1>10 DEF Waits
<1>15. Lists(readyQ', {b \in Activity : act'[b].state = "Ready"})
  <2>1. PICK R : R = {b \in Activity : act[b].state = "Ready"}
    OBVIOUS
  <2>2. Lists(readyQ, R)
    BY <1>0, <2>1 DEF QueueInv
  <2>3. readyQ' = Append(readyQ, a)
    BY <1>6, <2>2, ListsTyped, DequeuedNone
  <2>4. Lists(readyQ', R \cup {a})
    BY <1>8, <2>1, <2>2, <2>3, ListsAppend
  <2>5. {b \in Activity : act'[b].state = "Ready"} = R \cup {a}
    BY <1>4, <1>8, <1>9, <2>1
  <2> QED
    BY <2>4, <2>5
<1>16. QueueInv'
  <2>1. PICK e \in Proc \cup {None} : e = None
    OBVIOUS
  <2>2. \A b \in Activity \ A :
          act'[b].state = IF e # None /\ b \in Elements(stallQ[e]) THEN "Ready"
                          ELSE act[b].state
    BY <1>9, <1>12, <2>1
  <2>3. \A x \in Proc : Elements(stallQ[x]) \ A = Elements(stallQ[x])
    BY <1>0, <1>4, <1>8, <1>12, Queued
  <2>4. \A x \in Proc :
          Lists(stallQ'[x], IF x = e THEN {} ELSE Elements(stallQ[x]) \ A)
    BY <1>0, <1>7, <2>1, <2>3, Queued
  <2>5. \A x \in Proc \ {e} :
          stallQ[x] # <<>> => ctx'[x] # "out" /\ runState'[x] # "Available"
    BY <1>0, <1>7, <1>10 DEF QueueInv, NoLostWakeUp
  <2>6. \A b \in A : act'[b].state # "Stall"
    BY <1>9, <1>12
  <2> QED
    BY <1>0, <1>15, <2>2, <2>4, <2>5, <2>6, QueueSteps
<1>17. TypeActs'
  <2>1. readyQ' \in Seq(Activity)
    BY <1>15, ListsTyped
  <2> QED
    BY <1>0, <1>7, <1>9, <1>10, <1>11, <2>1 DEF TypeActs, TypeInv, ActTable
<1>18. resume' \in [Proc -> Key] /\ \A h \in Proc : KeyLeft(resume'[h], {p, q})
  BY <1>0, <1>4, <1>5, <1>7, <1>14, KeysPassed
<1>19. /\ KeyInv'
       /\ callCount' \in [Proc -> Nat] /\ callCntUsed' \in [Proc -> BOOLEAN]
  <2>1. PICK P \in SUBSET Proc : P = {p, q}
    OBVIOUS
  <2>2. BumpCallCount(P) /\ \A h \in Proc : KeyLeft(resume'[h], P)
    BY <1>7, <1>18, <2>1
  <2>3. /\ \A r \in Proc \ P : Waits(r) => Waits(r)'
        /\ \A r \in Proc \ P : ctx[r] # "out" => ctx'[r] # "out"
    BY <1>7, <1>13, <2>1
  <2> QED
    BY <1>0, <2>2, <2>3, KeysZapStep
<1> QED
  BY <1>13, <1>16, <1>17, <1>18, <1>19, Typed DEF Inv

\* makeResumeKey of another process.
LEMMA MakeResumeKeyInv ==
    ASSUME Inv, NEW p \in Proc, NEW q \in Proc, MakeResumeKey(p, q)
    PROVE  Inv'
<1>0. TypeInv /\ ActInv /\ QueueInv /\ KeyInv /\ None \notin Activity /\ None \notin Proc
  BY Fields DEF Inv
<1>1. PICK a \in Activity \cup {None} : a = curActivity[q]
  BY <1>0, Fields
<1>2. /\ Runs(p) /\ q # p /\ ctx[q] = "runnable"
      /\ resume' = [Zapped(resume, q) EXCEPT ![p] = ResumeKey(q)]
      /\ BumpCallCount({q})
      /\ act' = Deleted(act, a) /\ readyQ' = Dequeued(readyQ, a)
      /\ stallQ' = [r \in Proc |-> Dequeued(stallQ[r], a)]
      /\ curActivity' = [curActivity EXCEPT ![q] = None]
      /\ runState' = [runState EXCEPT ![q] = "Waiting"]
      /\ UNCHANGED <<ctx, cur>>
  BY <1>1 DEF MakeResumeKey
<1>3. /\ a \in Activity => act[a].of = q
      /\ \A b \in Activity \ {a} : act[b].of # q
  BY <1>0, <1>1, <1>2, KnowsActivity
<1>4. a \in Activity => cur # a
  BY <1>0, <1>2, <1>3, RunsFacts
<1>5. /\ \A r \in Proc : stallQ'[r] = Dequeued(stallQ[r], a)
      /\ stallQ' = [r \in Proc |-> stallQ'[r]]
      /\ (a \in Activity => cur' # a) /\ cur' \in Activity \cup {None} /\ ctx' = ctx
      /\ \A b \in Activity \ {a} : act[b].of # q /\ (cur' = b <=> cur = b)
  BY <1>0, <1>2, <1>3, <1>4 DEF TypeInv
<1>6. /\ ActInv' /\ QueueInv' /\ TypeActs'
      /\ \A x \in Proc \ {q} : Waits(x) => Waits(x)'
      /\ Waits(q)'
  BY <1>0, <1>2, <1>3, <1>5, GoneWaiting
<1>7. resume' \in [Proc -> Key] /\ \A h \in Proc : KeyLeft(resume'[h], {q})
  <2>1. PICK z : z = Zapped(resume, q)
    OBVIOUS
  <2>2. z \in [Proc -> Key] /\ \A h \in Proc : KeyLeft(z[h], {q})
    BY <1>0, <2>1, KeysZapped
  <2>3. resume' = [z EXCEPT ![p] = ResumeKey(q)] /\ ResumeKey(q) \in Key
    BY <1>2, <2>1, NewKeys
  <2>4. ASSUME NEW h \in Proc PROVE KeyLeft(resume'[h], {q})
    <3>1. PICK k : k = resume'[h]
      OBVIOUS
    <3>2. k = z[h] \/ k = ResumeKey(q)
      BY <2>2, <2>3, <3>1
    <3>3. k = ResumeKey(q) => KeyLeft(k, {q})
      BY <1>2, <1>6 DEF KeyLeft
    <3> QED
      BY <2>2, <3>1, <3>2, <3>3
  <2> QED
    BY <2>2, <2>3, <2>4
<1>8. /\ KeyInv'
      /\ callCount' \in [Proc -> Nat] /\ callCntUsed' \in [Proc -> BOOLEAN]
  <2>1. PICK P \in SUBSET Proc : P = {q}
    OBVIOUS
  <2>2. BumpCallCount(P) /\ \A h \in Proc : KeyLeft(resume'[h], P)
    BY <1>2, <1>7, <2>1
  <2>3. /\ \A r \in Proc \ P : Waits(r) => Waits(r)'
        /\ \A r \in Proc \ P : ctx[r] # "out" => ctx'[r] # "out"
    BY <1>2, <1>6, <2>1
  <2> QED
    BY <1>0, <2>2, <2>3, KeysZapStep
<1> QED
  BY <1>6, <1>7, <1>8, Typed DEF Inv

\* Rescission of the root node.
LEMMA RescindInv ==
    ASSUME Inv, NEW p \in Proc, NEW q \in Proc, Rescind(p, q)
    PROVE  Inv'
<1>0. TypeInv /\ ActInv /\ QueueInv /\ KeyInv /\ None \notin Activity /\ None \notin Proc
  BY Fields DEF Inv
<1>1. PICK a \in IF curActivity[q] # None THEN {curActivity[q]} ELSE OrNone(Found(q)) :
        /\ Runs(p) /\ q # p
        /\ resume' = [Zapped(resume, q) EXCEPT ![q] = Void]
        /\ BumpCallCount({q})
        /\ act' = Deleted(Woken(act, stallQ[q]), a)
        /\ readyQ' = Dequeued(readyQ \o stallQ[q], a)
        /\ stallQ' = [r \in Proc |-> IF r = q THEN <<>> ELSE Dequeued(stallQ[r], a)]
        /\ curActivity' = [curActivity EXCEPT ![q] = None]
        /\ runState' = [runState EXCEPT ![q] = "Available"]
        /\ ctx' = [ctx EXCEPT ![q] = "out"]
        /\ UNCHANGED cur
  BY DEF Rescind
<1>2. /\ a \in Activity \cup {None}
      /\ a \in Activity => act[a].of = q
      /\ \A b \in Activity \ {a} : act[b].of # q
  BY <1>0, HisActivity
<1>3. a \in Activity => cur # a
  BY <1>0, <1>1, <1>2, RunsFacts
<1>4. PICK S : S = Elements(stallQ[q])
  OBVIOUS
<1>5. PICK s : s = stallQ[q]
  OBVIOUS
<1>6. /\ Lists(s, S) /\ (\A b \in S : act[b].state = "Stall")
      /\ act' = Deleted(Woken(act, s), a) /\ readyQ' = Dequeued(readyQ \o s, a)
  BY <1>0, <1>1, <1>4, <1>5, Queued
<1>7. /\ act' \in [Activity -> ActRecord] /\ readyQ' \in Seq(Activity)
      /\ a \in Activity => /\ act'[a].state = "Free" /\ act'[a].of = None
                           /\ act'[a].haz = "None"
      /\ \A b \in Activity \ {a} :
           /\ WokenOrSame(b)
           /\ act'[b].state = IF b \in S THEN "Ready" ELSE act[b].state
      /\ Lists(readyQ', {b \in Activity : act'[b].state = "Ready"})
  <2>1. TypeInv /\ QueueInv /\ a \in Activity \cup {None}
    BY <1>0, <1>2
  <2> QED
    BY <1>6, <2>1, GoneQueue, Zenon
<1>8. /\ runState' \in [Proc -> RunState] /\ runState'[q] = "Available"
      /\ \A x \in Proc \ {q} : runState'[x] = runState[x]
  BY <1>0, <1>1 DEF TypeInv, RunState
<1>9. /\ curActivity' \in [Proc -> Activity \cup {None}] /\ curActivity'[q] = None
      /\ \A x \in Proc \ {q} : curActivity'[x] = curActivity[x]
  BY <1>0, <1>1 DEF TypeInv
<1>10. ctx' \in [Proc -> Ctx] /\ \A x \in Proc \ {q} : ctx'[x] = ctx[x]
  BY <1>0, <1>1 DEF TypeInv, Ctx
<1>11. ActInv' /\ \A x \in Proc \ {q} : Waits(x) => Waits(x)'
  <2>1. \A b \in Activity \ {a} :
          WokenOrSame(b) /\ (cur' = b <=> cur = b) /\ act[b].of # q
    BY <1>1, <1>2, <1>7
  <2>2. \A x \in Proc \ {q} : /\ runState'[x] = runState[x] /\ ctx'[x] = ctx[x]
                              /\ curActivity'[x] = curActivity[x]
    BY <1>8, <1>9, <1>10
  <2>3. a \in Activity => /\ act[a].of = q
                          /\ act'[a].state = "Free" /\ act'[a].of = None
                          /\ act'[a].haz = "None"
    BY <1>2, <1>7
  <2>4. /\ runState'[q] # "Running" /\ curActivity'[q] = None
        /\ a \in Activity => cur' # a
    BY <1>1, <1>3, <1>8, <1>9
  <2> QED
    BY <1>0, <1>2, <2>1, <2>2, <2>3, <2>4, ActGone
<1>12. \A x \in Proc :
         Lists(stallQ'[x], IF x = q THEN {} ELSE Elements(stallQ[x]) \ {a})
  <2>1. \A x \in Proc : stallQ'[x] = IF x = q THEN <<>> ELSE Dequeued(stallQ[x], a)
    BY <1>1
  <2>2. \A x \in Proc : Lists(Dequeued(stallQ[x], a), Elements(stallQ[x]) \ {a})
    BY <1>0, Queued, ListsDequeued
  <2> QED
    BY <2>1, <2>2, ListsEmpty
<1>13. QueueInv'
  <2>1. \A b \in Activity \ {a} :
          act'[b].state = IF q # None /\ b \in Elements(stallQ[q]) THEN "Ready"
                          ELSE act[b].state
    BY <1>0, <1>4, <1>7
  <2>2. \A x \in Proc \ {q} :
          stallQ[x] # <<>> => ctx'[x] # "out" /\ runState'[x] # "Available"
    BY <1>0, <1>8, <1>10 DEF QueueInv, NoLostWakeUp
  <2>3. a \in Activity => act'[a].state # "Stall"
    BY <1>7
  <2> QED
    BY <1>0, <1>2, <1>7, <1>12, <2>1, <2>2, <2>3, QueueStep
<1>14. resume' \in [Proc -> Key] /\ \A h \in Proc : KeyLeft(resume'[h], {q})
  <2>1. PICK z : z = Zapped(resume, q)
    OBVIOUS
  <2>2. z \in [Proc -> Key] /\ \A h \in Proc : KeyLeft(z[h], {q})
    BY <1>0, <2>1, KeysZapped
  <2>3. resume' = [z EXCEPT ![q] = Void] /\ Void \in Key
    BY <1>1, <2>1, NewKeys
  <2>4. ASSUME NEW h \in Proc PROVE KeyLeft(resume'[h], {q})
    <3>1. PICK k : k = resume'[h]
      OBVIOUS
    <3>2. k = z[h] \/ k = Void
      BY <2>2, <2>3, <3>1
    <3>3. k = Void => KeyLeft(k, {q})
      BY DEF KeyLeft
    <3> QED
      BY <2>2, <3>1, <3>2, <3>3
  <2> QED
    BY <2>2, <2>3, <2>4
<1>15. /\ KeyInv'
       /\ callCount' \in [Proc -> Nat] /\ callCntUsed' \in [Proc -> BOOLEAN]
  <2>1. PICK P \in SUBSET Proc : P = {q}
    OBVIOUS
  <2>2. BumpCallCount(P) /\ \A h \in Proc : KeyLeft(resume'[h], P)
    BY <1>1, <1>14, <2>1
  <2>3. /\ \A r \in Proc \ P : Waits(r) => Waits(r)'
        /\ \A r \in Proc \ P : ctx[r] # "out" => ctx'[r] # "out"
    BY <1>10, <1>11, <2>1
  <2> QED
    BY <1>0, <2>2, <2>3, KeysZapStep
<1>16. TypeActs'
  <2>1. stallQ' \in [Proc -> Seq(Activity)]
    <3>1. \A x \in Proc : stallQ'[x] \in Seq(Activity)
      BY <1>12, ListsTyped
    <3>2. stallQ' = [x \in Proc |-> stallQ'[x]]
      BY <1>1
    <3> QED
      BY <3>1, <3>2
  <2>2. cur' \in Activity \cup {None}
    BY <1>0, <1>1 DEF TypeInv
  <2> QED
    BY <1>7, <1>8, <1>9, <1>10, <2>1, <2>2 DEF TypeActs
<1> QED
  BY <1>11, <1>13, <1>14, <1>15, <1>16, Typed DEF Inv
-----------------------------------------------------------------------------
(* A process keeps its Activity.                                             *)

\* Only the process q and its Activity a change, if it has one.
LEMMA ActKept ==
    ASSUME TypeInv, ActInv, NEW q \in Proc, NEW a \in Activity \cup {None},
           a \in Activity => act[a].of = q /\ act'[a].of = q /\ ActOK(a)',
           \A b \in Activity \ {a} :
             WokenOrSame(b) /\ (cur' = b <=> cur = b) /\ act[b].of # q,
           \A x \in Proc \ {q} : /\ runState'[x] = runState[x] /\ ctx'[x] = ctx[x]
                                 /\ curActivity'[x] = curActivity[x],
           ProcOK(q)', a \in Activity \/ runState'[q] = runState[q]
    PROVE  ActInv' /\ \A x \in Proc : Waits(x) => Waits(x)'
<1>0. None \notin Proc /\ None \notin Activity
  BY Fields
<1>1. PICK P \in SUBSET Proc : P = {q}
  OBVIOUS
<1>2. \A b \in Activity \ {a} :
        WokenOrSame(b) /\ (cur' = b <=> cur = b) /\ act[b].of \notin P
  BY <1>1
<1>3. \A x \in Proc \ P : /\ runState'[x] = runState[x] /\ ctx'[x] = ctx[x]
                          /\ curActivity'[x] = curActivity[x]
  BY <1>1
<1>4. a \in Activity => /\ act[a].of \in P \cup {None}
                        /\ act'[a].of \in P \cup {None}
                        /\ ActOK(a)'
  BY <1>1
<1>5. \A x \in P : ProcOK(x)'
  BY <1>1
<1>6. ActInv' /\ \A x \in Proc \ P : Waits(x) => Waits(x)'
  BY <1>2, <1>3, <1>4, <1>5, ActStep
<1>7. Waits(q) => Waits(q)'
  <2>1. CASE a \in Activity
    BY <2>1 DEF Waits
  <2>2. CASE a \notin Activity
    <3>1. \A b \in Activity : act'[b].of # q
      BY <2>2 DEF WokenOrSame
    <3> QED
      BY <2>2, <3>1 DEF Waits
  <2> QED
    BY <2>1, <2>2
<1> QED
  BY <1>1, <1>6, <1>7

\* The timer.
LEMMA TimerInv ==
    ASSUME Inv, NEW a \in Activity, Timer(a)
    PROVE  Inv'
<1>0. TypeInv /\ ActInv /\ QueueInv /\ KeyInv /\ None \notin Activity /\ None \notin Proc
  BY Fields DEF Inv
<1>1. act[a].state = "Sleeping" /\ readyQ' = Append(readyQ, a)
      /\ UNCHANGED <<ctx, curActivity, stallQ, cur>>
  BY DEF Timer
<1>2. /\ ActOK(a) /\ act[a] \in ActRecord /\ act[a].haz = "None"
      /\ act[a].of \in Proc /\ cur # a
  BY <1>0, <1>1, Fields DEF ActInv, ActOK
<1>3. PICK p \in Proc : p = act[a].of
  BY <1>2
<1>4. runState[p] = "Waiting" /\ \A b \in Activity \ {a} : act[b].of # p
  BY <1>0, <1>1, <1>2, <1>3 DEF ActOK, ActInv
<1>5. PICK now : now = (act[a].hasProcess /\ ctx[p] = "runnable")
  OBVIOUS
<1>6. /\ act' = [act EXCEPT ![a].state = "Ready",
                            ![a].haz = IF now THEN "None" ELSE "WakeOK"]
      /\ IF now THEN /\ runState' = [runState EXCEPT ![p] = "Running"]
                     /\ resume' = Zapped(resume, p)
                     /\ BumpCallCount({p})
         ELSE UNCHANGED <<runState, resume, callCount, callCntUsed>>
  BY <1>3, <1>5 DEF Timer, countVars
<1>7. PICK hz : hz = IF now THEN "None" ELSE "WakeOK"
  OBVIOUS
<1>8. /\ act' \in [Activity -> ActRecord]
      /\ act'[a].state = "Ready" /\ act'[a].haz = hz /\ act'[a].of = p
      /\ act'[a].hasProcess = act[a].hasProcess
      /\ \A b \in Activity \ {a} : act'[b] = act[b]
  <2>1. PICK r : r = [act[a] EXCEPT !.state = "Ready", !.haz = hz]
    OBVIOUS
  <2>2. act' = [act EXCEPT ![a] = r] /\ act \in [Activity -> ActRecord]
    BY <1>0, <1>6, <1>7, <2>1 DEF TypeInv
  <2>3. hz \in Hazard
    BY <1>7 DEF Hazard
  <2>4. /\ r \in ActRecord /\ r.state = "Ready" /\ r.haz = hz /\ r.of = p
        /\ r.hasProcess = act[a].hasProcess
    BY <1>2, <1>3, <2>1, <2>3 DEF ActRecord
  <2> QED
    BY <2>2, <2>4
<1>9. /\ runState' \in [Proc -> RunState]
      /\ runState'[p] = IF now THEN "Running" ELSE "Waiting"
      /\ \A x \in Proc \ {p} : runState'[x] = runState[x]
  BY <1>0, <1>4, <1>6 DEF TypeInv, RunState
<1>10. ActInv' /\ \A x \in Proc : Waits(x) => Waits(x)'
  <2>1. \A b \in Activity \ {a} :
          WokenOrSame(b) /\ (cur' = b <=> cur = b) /\ act[b].of # p
    BY <1>1, <1>4, <1>8 DEF WokenOrSame
  <2>2. \A x \in Proc \ {p} : /\ runState'[x] = runState[x] /\ ctx'[x] = ctx[x]
                              /\ curActivity'[x] = curActivity[x]
    BY <1>1, <1>9
  <2>3. ActOK(a)'
    <3>1. /\ act[a].hasProcess => ctx[p] # "out" /\ curActivity[p] = a
          /\ ~act[a].hasProcess => ctx[p] \in {"out", "hzDomRoot"} /\ curActivity[p] = None
      BY <1>0, <1>2, <1>3 DEF ActOK
    <3> QED
      BY <1>0, <1>1, <1>2, <1>7, <1>8, <1>9, <3>1 DEF ActOK
  <2>4. ProcOK(p)'
    <3>1. curActivity[p] # None => curActivity[p] = a /\ act[a].hasProcess
      BY <1>0, <1>4, Fields DEF ActInv, ProcOK
    <3> QED
      BY <1>1, <1>8, <3>1 DEF ProcOK
  <2>5. act[a].of = p /\ act'[a].of = p
    BY <1>3, <1>8
  <2> QED
    BY <1>0, <2>1, <2>2, <2>3, <2>4, <2>5, ActKept
<1>11. Lists(readyQ', {b \in Activity : act'[b].state = "Ready"})
  <2>1. PICK R : R = {b \in Activity : act[b].state = "Ready"}
    OBVIOUS
  <2>2. Lists(readyQ, R) /\ a \notin R
    BY <1>0, <1>1, <2>1 DEF QueueInv
  <2>3. Lists(readyQ', R \cup {a})
    BY <1>1, <2>2, ListsAppend
  <2>4. {b \in Activity : act'[b].state = "Ready"} = R \cup {a}
    BY <1>8, <2>1
  <2> QED
    BY <2>3, <2>4
<1>12. QueueInv'
  <2>1. \A r \in Proc :
          stallQ[r] # <<>> => ctx'[r] # "out" /\ runState'[r] # "Available"
    BY <1>0, <1>1, <1>9 DEF QueueInv, NoLostWakeUp
  <2>2. /\ \A b \in Activity \ {a} : act'[b].state = act[b].state
        /\ act[a].state # "Stall" /\ act'[a].state # "Stall" /\ stallQ' = stallQ
    BY <1>1, <1>8
  <2> QED
    BY <1>0, <1>11, <2>1, <2>2, QueueQuiet
<1>13. TypeActs'
  <2>1. readyQ' \in Seq(Activity)
    BY <1>11, ListsTyped
  <2> QED
    BY <1>0, <1>1, <1>8, <1>9, <2>1 DEF TypeActs, TypeInv
<1>14. CASE now
  <2>1. resume' = Zapped(resume, p) /\ BumpCallCount({p})
    BY <1>6, <1>14
  <2>2. resume' \in [Proc -> Key] /\ \A h \in Proc : KeyLeft(resume'[h], {p})
    BY <1>0, <2>1, KeysZapped
  <2>3. PICK P \in SUBSET Proc : P = {p}
    OBVIOUS
  <2>4. /\ BumpCallCount(P) /\ \A h \in Proc : KeyLeft(resume'[h], P)
        /\ \A r \in Proc \ P : Waits(r) => Waits(r)'
        /\ \A r \in Proc \ P : ctx[r] # "out" => ctx'[r] # "out"
    BY <1>1, <1>10, <2>1, <2>2, <2>3
  <2>5. /\ KeyInv'
        /\ callCount' \in [Proc -> Nat] /\ callCntUsed' \in [Proc -> BOOLEAN]
    BY <1>0, <2>4, KeysZapStep
  <2> QED
    BY <1>10, <1>12, <1>13, <2>2, <2>5, Typed DEF Inv
<1>15. CASE ~now
  <2>1. UNCHANGED <<resume, callCount, callCntUsed>>
    BY <1>6, <1>15
  <2>2. KeyInv'
    BY <1>0, <1>1, <1>10, <2>1, KeysSame
  <2>3. /\ resume' \in [Proc -> Key]
        /\ callCount' \in [Proc -> Nat] /\ callCntUsed' \in [Proc -> BOOLEAN]
    BY <1>0, <2>1 DEF TypeInv
  <2> QED
    BY <1>10, <1>12, <1>13, <2>2, <2>3, Typed DEF Inv
<1> QED
  BY <1>14, <1>15

ReadySet == {b \in Activity : act[b].state = "Ready"}
Stalled(S) == \A b \in S : b \in Activity /\ act[b].state = "Stall"

\* The table f is the Activity table with those in S woken.
WokenTable(f, S) ==
    /\ f \in ActTable
    /\ \A b \in Activity :
         /\ f[b].of = act[b].of /\ f[b].hasProcess = act[b].hasProcess
         /\ f[b].haz = act[b].haz /\ f[b].count = act[b].count
         /\ f[b].state = IF b \in S THEN "Ready" ELSE act[b].state

\* The queues and the table when those on a stall queue are woken.
LEMMA WokenQueue ==
    ASSUME TypeInv, QueueInv, NEW s, NEW S, Lists(s, S), Stalled(S)
    PROVE  /\ Lists(readyQ, ReadySet) /\ ReadySet \cap S = {}
           /\ Lists(readyQ \o s, ReadySet \cup S)
           /\ WokenTable(Woken(act, s), S)
<1>1. s \in Seq(Activity) /\ Elements(s) = S
  BY ListsTyped
<1>2. Lists(readyQ, ReadySet) /\ ReadySet \cap S = {}
  BY DEF QueueInv, ReadySet, Stalled
<1>3. Lists(readyQ \o s, ReadySet \cup S)
  BY <1>2, ListsConcat
<1>4. WokenTable(Woken(act, s), S)
  BY <1>1, WokenFacts DEF WokenTable, ActTable
<1> QED
  BY <1>2, <1>3, <1>4

\* A stall queue lists Activities that are stalled.
LEMMA StallQueue ==
    ASSUME TypeInv, QueueInv, NEW q \in Proc
    PROVE  Lists(stallQ[q], Elements(stallQ[q])) /\ Stalled(Elements(stallQ[q]))
BY Queued DEF Stalled

\* act_EnsureRunnable prepares the current process.
LEMMA PrepareCurrentInv ==
    ASSUME Inv, PrepareCurrent
    PROVE  Inv'
<1>0. TypeInv /\ ActInv /\ QueueInv /\ KeyInv /\ None \notin Activity /\ None \notin Proc
  BY Fields DEF Inv
<1>1. PICK c \in Activity : c = cur
  BY <1>0, Fields DEF PrepareCurrent
<1>2. /\ ActOK(c) /\ act[c].state = "Running" /\ act[c].haz = "None"
      /\ act[c].hasProcess
  BY <1>0, <1>1 DEF ActInv, ActOK
<1>3. PICK p \in Proc : p = act[c].of
  BY <1>0, <1>2, Fields DEF ActOK
<1>4. /\ ctx' = [ctx EXCEPT ![p] = "runnable"]
      /\ act' = Woken(act, stallQ[p])
      /\ readyQ' = readyQ \o stallQ[p]
      /\ stallQ' = [stallQ EXCEPT ![p] = <<>>]
      /\ UNCHANGED <<runState, curActivity, cur, resume, callCount, callCntUsed>>
  BY <1>1, <1>3 DEF PrepareCurrent, countVars
<1>5. /\ runState[p] = "Running" /\ curActivity[p] = c
      /\ \A b \in Activity \ {c} : act[b].of # p
  BY <1>0, <1>2, <1>3 DEF ActOK, ActInv
<1>6. PICK R : R = ReadySet
  OBVIOUS
<1>7. PICK S : S = Elements(stallQ[p])
  OBVIOUS
<1>8. PICK s : s = stallQ[p]
  OBVIOUS
<1>9. Lists(s, S) /\ Stalled(S)
  BY <1>0, <1>7, <1>8, StallQueue
<1>10. /\ Lists(readyQ', R \cup S) /\ act' \in [Activity -> ActRecord]
       /\ \A b \in Activity :
            /\ act'[b].of = act[b].of /\ act'[b].hasProcess = act[b].hasProcess
            /\ act'[b].haz = act[b].haz
            /\ act'[b].state = IF b \in S THEN "Ready" ELSE act[b].state
  <2>1. Lists(readyQ', R \cup S) /\ WokenTable(Woken(act, s), S) /\ act' = Woken(act, s)
    BY <1>0, <1>4, <1>6, <1>8, <1>9, WokenQueue
  <2> QED
    BY <2>1 DEF WokenTable, ActTable
<1>11. ctx' \in [Proc -> Ctx] /\ ctx'[p] = "runnable" /\ \A x \in Proc \ {p} : ctx'[x] = ctx[x]
  BY <1>0, <1>4 DEF TypeInv, Ctx
<1>12. ActInv' /\ \A x \in Proc : Waits(x) => Waits(x)'
  <2>1. \A b \in Activity \ {c} :
          WokenOrSame(b) /\ (cur' = b <=> cur = b) /\ act[b].of # p
    BY <1>4, <1>5, <1>9, <1>10 DEF WokenOrSame, Stalled
  <2>2. \A x \in Proc \ {p} : /\ runState'[x] = runState[x] /\ ctx'[x] = ctx[x]
                              /\ curActivity'[x] = curActivity[x]
    BY <1>4, <1>11
  <2>3. act'[c].state = "Running" /\ act'[c].hasProcess /\ act'[c].haz = "None" /\ act'[c].of = p
    BY <1>2, <1>3, <1>9, <1>10 DEF Stalled
  <2>4. ActOK(c)'
    BY <1>0, <1>1, <1>4, <1>5, <1>11, <2>3 DEF ActOK
  <2>5. ProcOK(p)'
    BY <1>4, <1>5, <2>3 DEF ProcOK
  <2>6. act[c].of = p /\ act'[c].of = p
    BY <1>3, <2>3
  <2> QED
    BY <1>0, <2>1, <2>2, <2>4, <2>5, <2>6, ActKept
<1>13. {b \in Activity : act'[b].state = "Ready"} = R \cup S
  BY <1>6, <1>9, <1>10 DEF ReadySet, Stalled
<1>14. QueueInv'
  <2>1. PICK a \in Activity \cup {None} : a = None
    OBVIOUS
  <2>2. \A b \in Activity \ {a} :
          act'[b].state = IF p # None /\ b \in Elements(stallQ[p]) THEN "Ready"
                          ELSE act[b].state
    BY <1>0, <1>7, <1>10
  <2>3. \A x \in Proc :
          Lists(stallQ'[x], IF x = p THEN {} ELSE Elements(stallQ[x]) \ {a})
    <3>1. \A x \in Proc : stallQ'[x] = IF x = p THEN <<>> ELSE stallQ[x]
      BY <1>0, <1>4 DEF TypeInv
    <3>2. \A x \in Proc : Lists(stallQ[x], Elements(stallQ[x]) \ {a})
      BY <1>0, <2>1, Queued
    <3> QED
      BY <3>1, <3>2, ListsEmpty
  <2>4. \A x \in Proc \ {p} :
          stallQ[x] # <<>> => ctx'[x] # "out" /\ runState'[x] # "Available"
    BY <1>0, <1>4, <1>11 DEF QueueInv, NoLostWakeUp
  <2>5. Lists(readyQ', {b \in Activity : act'[b].state = "Ready"})
    BY <1>10, <1>13
  <2>6. a \in Activity => act'[a].state # "Stall"
    BY <1>0, <2>1
  <2> QED
    BY <1>0, <2>2, <2>3, <2>4, <2>5, <2>6, QueueStep
<1>15. KeyInv'
  BY <1>0, <1>4, <1>11, <1>12, KeysSame
<1>16. TypeInv'
  <2>1. stallQ' \in [Proc -> Seq(Activity)] /\ readyQ' \in Seq(Activity)
    BY <1>0, <1>4, <1>10, ListsTyped DEF TypeInv
  <2> QED
    BY <1>0, <1>4, <1>10, <1>11, <2>1 DEF TypeInv
<1> QED
  BY <1>12, <1>14, <1>15, <1>16 DEF Inv
\* Without a restart, no Activity has a stale call count.
LEMMA NoneStale ==
    ASSUME ActInv, NEW a \in Activity
    PROVE  ~IsStale(a) /\ Checked(act[a].haz) = act[a].haz
BY DEF ActInv, ActOK, IsStale, Checked

\* proc_DoPrepare of another process.
LEMMA PrepareProcessInv ==
    ASSUME Inv, NEW p \in Proc, NEW q \in Proc, PrepareProcess(p, q)
    PROVE  Inv'
<1>0. TypeInv /\ ActInv /\ QueueInv /\ KeyInv /\ None \notin Activity /\ None \notin Proc
  BY Fields DEF Inv
<1>1. PICK a \in IF ctx[q] = "hzDomRoot" /\ curActivity[q] = None /\ runState[q] # "Available"
                 THEN OrNone(Found(q)) ELSE {curActivity[q]} :
        LET mine == IF a # None /\ IsStale(a) THEN None ELSE a
            ready == mine # None /\ act[a].state = "Ready"
            woken == Woken(act, stallQ[q])
        IN /\ Runs(p) /\ q # p /\ ctx[q] \in {"hzDomRoot", "hzSchedule"}
           /\ ctx' = [ctx EXCEPT ![q] = "runnable"]
           /\ act' = IF mine # a THEN Deleted(woken, a)
                     ELSE [b \in Activity |->
                             IF b = a THEN [woken[b] EXCEPT !.hasProcess = TRUE,
                                                            !.haz = Checked(@)]
                             ELSE woken[b]]
           /\ curActivity' = [curActivity EXCEPT ![q] = mine]
           /\ readyQ' = Dequeued(readyQ, a) \o (IF ready THEN <<a>> ELSE <<>>)
                        \o stallQ[q]
           /\ stallQ' = [stallQ EXCEPT ![q] = <<>>]
           /\ UNCHANGED <<runState, cur, resume, callCount, callCntUsed>>
  BY DEF PrepareProcess, countVars
<1>2. /\ a \in Activity \cup {None}
      /\ a \in Activity => act[a].of = q
      /\ \A b \in Activity \ {a} : act[b].of # q
  <2>1. CASE curActivity[q] # None
    BY <1>0, <2>1, HisActivity
  <2>2. CASE ctx[q] = "hzDomRoot" /\ curActivity[q] = None /\ runState[q] # "Available"
    BY <1>0, <2>2, HisActivity
  <2>3. CASE curActivity[q] = None /\ ctx[q] # "hzDomRoot"
    <3>1. ctx[q] \in {"hzSchedule", "runnable"} /\ a = None
      <4>1. ctx[q] \in {"hzDomRoot", "hzSchedule"}
        BY DEF PrepareProcess
      <4> QED
        BY <2>3, <4>1
    <3>2. \A b \in Activity : act[b].of = q => curActivity[q] = b
      BY <1>0, <3>1, KnowsActivity
    <3> QED
      BY <1>0, <2>3, <3>1, <3>2
  <2>4. CASE curActivity[q] = None /\ runState[q] = "Available"
    <3>1. a = None
      BY <2>4
    <3>2. \A b \in Activity : act[b].of # q
      BY <1>0, <2>4, Alone
    <3> QED
      BY <1>0, <3>1, <3>2
  <2> QED
    BY <2>1, <2>2, <2>3, <2>4
<1>3. ~(a # None /\ IsStale(a)) /\ (a \in Activity => Checked(act[a].haz) = act[a].haz)
  BY <1>0, <1>2, NoneStale
<1>4. PICK w : w = Woken(act, stallQ[q])
  OBVIOUS
<1>5. PICK t : t = IF a # None /\ act[a].state = "Ready" THEN <<a>> ELSE <<>>
  OBVIOUS
<1>6. /\ Runs(p) /\ q # p /\ ctx[q] \in {"hzDomRoot", "hzSchedule"}
      /\ ctx' = [ctx EXCEPT ![q] = "runnable"]
      /\ act' = [b \in Activity |->
                   IF b = a THEN [w[b] EXCEPT !.hasProcess = TRUE, !.haz = Checked(@)]
                   ELSE w[b]]
      /\ curActivity' = [curActivity EXCEPT ![q] = a]
      /\ readyQ' = Dequeued(readyQ, a) \o t \o stallQ[q]
      /\ stallQ' = [stallQ EXCEPT ![q] = <<>>]
      /\ UNCHANGED <<runState, cur, resume, callCount, callCntUsed>>
  BY <1>1, <1>3, <1>4, <1>5
<1>7. PICK S : S = Elements(stallQ[q])
  OBVIOUS
<1>8. PICK s : s = stallQ[q]
  OBVIOUS
<1>9. Lists(s, S) /\ Stalled(S)
  BY <1>0, <1>7, <1>8, StallQueue
<1>10. /\ Lists(readyQ, ReadySet) /\ ReadySet \cap S = {} /\ WokenTable(w, S)
  BY <1>0, <1>4, <1>8, <1>9, WokenQueue
<1>11. /\ act' \in [Activity -> ActRecord]
       /\ \A b \in Activity \ {a} : act'[b] = w[b]
       /\ a \in Activity => /\ act'[a].of = q /\ act'[a].hasProcess = TRUE
                            /\ act'[a].haz = act[a].haz
                            /\ act'[a].state = IF a \in S THEN "Ready" ELSE act[a].state
  <2>1. \A b \in Activity : w[b] \in ActRecord
    BY <1>10 DEF WokenTable, ActTable
  <2>2. ASSUME a \in Activity
        PROVE  /\ act'[a] \in ActRecord
               /\ act'[a].of = q /\ act'[a].hasProcess = TRUE
               /\ act'[a].haz = act[a].haz
               /\ act'[a].state = IF a \in S THEN "Ready" ELSE act[a].state
    <3>1. PICK r \in ActRecord : r = w[a]
      BY <2>1, <2>2
    <3>2. /\ r.of = q /\ r.haz = act[a].haz
          /\ r.state = IF a \in S THEN "Ready" ELSE act[a].state
      BY <1>2, <1>10, <2>2, <3>1 DEF WokenTable
    <3>3. act'[a] = [r EXCEPT !.hasProcess = TRUE, !.haz = Checked(r.haz)]
      BY <1>6, <2>2, <3>1
    <3>4. Checked(r.haz) = r.haz /\ r.haz \in Hazard
      BY <1>3, <2>2, <3>2 DEF ActRecord
    <3>5. act'[a] = [r EXCEPT !.hasProcess = TRUE, !.haz = r.haz]
      BY <3>3, <3>4
    <3> QED
      BY <3>2, <3>5 DEF ActRecord
  <2>3. \A b \in Activity \ {a} : act'[b] = w[b]
    BY <1>6
  <2>4. \A b \in Activity : act'[b] \in ActRecord
    BY <2>1, <2>2, <2>3
  <2>5. act' = [b \in Activity |-> act'[b]]
    BY <1>6
  <2> QED
    BY <2>2, <2>3, <2>4, <2>5
<1>12. \A b \in Activity :
         act'[b].state = IF b \in S THEN "Ready" ELSE act[b].state
  BY <1>10, <1>11 DEF WokenTable
<1>13. ctx' \in [Proc -> Ctx] /\ ctx'[q] = "runnable" /\ \A x \in Proc \ {q} : ctx'[x] = ctx[x]
  BY <1>0, <1>6 DEF TypeInv, Ctx
<1>14. /\ curActivity' \in [Proc -> Activity \cup {None}] /\ curActivity'[q] = a
       /\ \A x \in Proc \ {q} : curActivity'[x] = curActivity[x]
  BY <1>0, <1>2, <1>6 DEF TypeInv
<1>15. ActInv' /\ \A x \in Proc : Waits(x) => Waits(x)'
  <2>1. \A b \in Activity \ {a} :
          WokenOrSame(b) /\ (cur' = b <=> cur = b) /\ act[b].of # q
    BY <1>2, <1>6, <1>9, <1>10, <1>11 DEF WokenOrSame, WokenTable, Stalled
  <2>2. \A x \in Proc \ {q} : /\ runState'[x] = runState[x] /\ ctx'[x] = ctx[x]
                              /\ curActivity'[x] = curActivity[x]
    BY <1>6, <1>13, <1>14
  <2>3. ASSUME a \in Activity PROVE ActOK(a)'
    <3>1. ActOK(a) /\ act[a].of = q /\ q # None
      BY <1>0, <1>2, <2>3 DEF ActInv
    <3>2. a \in S => act[a].state = "Stall"
      BY <1>9 DEF Stalled
    <3>3. act[a].state # "Running" /\ cur' # a
      <4>1. cur # a
        BY <1>0, <1>6, <3>1, RunsFacts
      <4> QED
        BY <1>6, <3>1, <4>1 DEF ActOK
    <3>4. /\ act'[a].state # "Running" /\ act'[a].state # "Free"
          /\ act[a].haz # "None" => act'[a].state = "Ready"
          /\ act'[a].state = "Sleeping" <=> act[a].state = "Sleeping"
      BY <1>0, <1>12, <2>3, <3>1, <3>2, <3>3 DEF ActOK
    <3>5. /\ runState'[q] = IF act[a].state = "Sleeping" \/ act[a].haz # "None" THEN "Waiting"
                            ELSE "Running"
          /\ act[a].haz \in {"None", "WakeOK"}
      BY <1>6, <3>1 DEF ActOK
    <3> QED
      BY <1>0, <1>11, <1>13, <1>14, <2>3, <3>1, <3>3, <3>4, <3>5 DEF ActOK
  <2>4. ProcOK(q)'
    <3>1. runState[q] = "Running" => a \in Activity
      BY <1>0, <1>2 DEF ActInv, ProcOK
    <3> QED
      BY <1>0, <1>2, <1>6, <1>11, <1>14, <3>1 DEF ProcOK
  <2>5. a \in Activity => act[a].of = q /\ act'[a].of = q /\ ActOK(a)'
    BY <1>2, <1>11, <2>3
  <2>6. runState'[q] = runState[q]
    BY <1>6
  <2> QED
    BY <1>0, <1>2, <2>1, <2>2, <2>4, <2>5, <2>6, ActKept
<1>16. Lists(readyQ', {b \in Activity : act'[b].state = "Ready"})
  <2>1. PICK T : T = IF a # None /\ act[a].state = "Ready" THEN {a} ELSE {}
    OBVIOUS
  <2>2. Lists(t, T)
    <3>1. CASE a # None /\ act[a].state = "Ready"
      BY <1>2, <1>5, <2>1, <3>1, ListsOne
    <3>2. CASE ~(a # None /\ act[a].state = "Ready")
      BY <1>5, <2>1, <3>2, ListsEmpty
    <3> QED
      BY <3>1, <3>2
  <2>3. PICK R : R = ReadySet
    OBVIOUS
  <2>4. (R \ {a}) \cup T = R /\ (R \ {a}) \cap T = {} /\ R \cap S = {}
    BY <1>0, <1>2, <1>10, <2>1, <2>3 DEF ReadySet
  <2>5. PICK d : d = Dequeued(readyQ, a)
    OBVIOUS
  <2>6. Lists(d, R \ {a})
    BY <1>10, <2>3, <2>5, ListsDequeued
  <2>7. Lists(d \o t, R)
    <3>1. Lists(d \o t, (R \ {a}) \cup T)
      BY <2>2, <2>4, <2>6, ListsConcat
    <3> QED
      BY <2>4, <3>1
  <2>8. PICK u : u = d \o t
    OBVIOUS
  <2>9. Lists(u \o s, R \cup S)
    BY <1>9, <2>4, <2>7, <2>8, ListsConcat
  <2>10. readyQ' = u \o s
    BY <1>6, <1>8, <2>5, <2>8
  <2>11. {b \in Activity : act'[b].state = "Ready"} = R \cup S
    BY <1>9, <1>12, <2>3 DEF ReadySet, Stalled
  <2> QED
    BY <2>9, <2>10, <2>11
<1>17. QueueInv'
  <2>1. PICK d \in Activity \cup {None} : d = None
    OBVIOUS
  <2>2. \A b \in Activity \ {d} :
          act'[b].state = IF q # None /\ b \in Elements(stallQ[q]) THEN "Ready"
                          ELSE act[b].state
    BY <1>0, <1>7, <1>12
  <2>3. \A x \in Proc :
          Lists(stallQ'[x], IF x = q THEN {} ELSE Elements(stallQ[x]) \ {d})
    <3>1. \A x \in Proc : stallQ'[x] = IF x = q THEN <<>> ELSE stallQ[x]
      BY <1>0, <1>6 DEF TypeInv
    <3>2. \A x \in Proc : Lists(stallQ[x], Elements(stallQ[x]) \ {d})
      BY <1>0, <2>1, Queued
    <3> QED
      BY <3>1, <3>2, ListsEmpty
  <2>4. \A x \in Proc \ {q} :
          stallQ[x] # <<>> => ctx'[x] # "out" /\ runState'[x] # "Available"
    BY <1>0, <1>6, <1>13 DEF QueueInv, NoLostWakeUp
  <2>5. d \in Activity => act'[d].state # "Stall"
    BY <1>0, <2>1
  <2> QED
    BY <1>0, <1>16, <2>2, <2>3, <2>4, <2>5, QueueStep
<1>18. KeyInv'
  <2>1. UNCHANGED <<resume, callCount, callCntUsed>>
    BY <1>6
  <2>2. \A x \in Proc : ctx[x] # "out" => ctx'[x] # "out"
    BY <1>13
  <2> QED
    BY <1>0, <1>15, <2>1, <2>2, KeysSame
<1>19. TypeInv'
  <2>1. stallQ' \in [Proc -> Seq(Activity)] /\ readyQ' \in Seq(Activity)
    <3>1. readyQ' \in Seq(Activity)
      BY <1>16, ListsTyped
    <3>2. stallQ' = [stallQ EXCEPT ![q] = <<>>]
      BY <1>6
    <3> QED
      BY <1>0, <3>1, <3>2 DEF TypeInv
  <2>2. UNCHANGED <<runState, cur, resume, callCount, callCntUsed>>
    BY <1>6
  <2> QED
    BY <1>0, <1>11, <1>13, <1>14, <2>1, <2>2 DEF TypeInv
<1> QED
  BY <1>15, <1>17, <1>18, <1>19 DEF Inv

\* Nothing of what the invariant speaks of changes.
LEMMA SameInv ==
    ASSUME Inv, UNCHANGED <<runState, ctx, curActivity, stallQ, act, readyQ, cur,
                            resume, callCount, callCntUsed>>
    PROVE  Inv'
<1>0. TypeInv /\ ActInv /\ QueueInv /\ KeyInv
  BY DEF Inv
<1>1. TypeInv'
  BY <1>0 DEF TypeInv
<1>2. CtxChange
  BY DEF CtxChange
<1>3. /\ ActInv' /\ QueueInv'
      /\ \A q \in Proc : Waits(q) => Waits(q)'
      /\ \A q \in Proc : ctx[q] # "out" => ctx'[q] # "out"
  BY <1>0, <1>2, CtxStep
<1>4. KeyInv'
  BY <1>0, <1>3, KeysSame
<1> QED
  BY <1>1, <1>3, <1>4 DEF Inv
\* proc_Unload: the capabilities to the process are unprepared with its call
\* count, which is then in use.
LEMMA KeysUnloaded ==
    ASSUME TypeInv, KeyInv, NEW q \in Proc,
           resume' = [h \in Proc |-> Unprepared(resume[h], {q})],
           callCntUsed' = [r \in Proc |-> callCntUsed[r]
                                          \/ (r \in {q} /\ HasPrepared(resume, r))],
           callCount' = callCount,
           \A x \in Proc : Waits(x) => Waits(x)',
           \A x \in Proc \ {q} : ctx'[x] = ctx[x]
    PROVE  /\ KeyInv' /\ resume' \in [Proc -> Key] /\ callCntUsed' \in [Proc -> BOOLEAN]
<1>0. None \notin Proc
  BY Fields
<1>1. callCntUsed' \in [Proc -> BOOLEAN]
  OBVIOUS
<1>2. ASSUME NEW r \in Proc PROVE callCntUsed[r] => callCntUsed'[r]
  <2>1. callCntUsed'[r] = (callCntUsed[r] \/ (r \in {q} /\ HasPrepared(resume, r)))
    BY Zenon
  <2> QED
    BY <2>1
<1>3. ASSUME NEW h \in Proc
      PROVE  resume'[h] \in Key /\ KeyOK(resume[h])' /\ KeyWaits(resume[h])'
  <2>1. PICK k \in Key : k = resume[h]
    BY Fields
  <2>2. PICK j : j = resume'[h]
    OBVIOUS
  <2>3. j = Unprepared(k, {q})
    BY <2>1, <2>2
  <2>4. KeyOK(k) /\ KeyWaits(k)
    BY <2>1 DEF KeyInv
  <2>5. k.to # None => k.to \in Proc /\ callCount[k.to] \in Nat
    BY KeyFields, Fields
  <2>6. CASE k.prep /\ k.to = q
    <3>1. j = [k EXCEPT !.prep = FALSE, !.count = callCount[q]] /\ callCount[q] \in Nat
      BY <2>3, <2>6, Fields DEF Unprepared
    <3>2. j \in Key /\ j.to = q /\ j.prep = FALSE /\ j.count = callCount[q] /\ j.live = k.live
      BY <2>6, <3>1 DEF Key
    <3>3. k.live = TRUE /\ Waits(q)'
      BY <1>0, <2>4, <2>6, KeyFields DEF KeyOK, KeyWaits
    <3>4. callCntUsed'[q]
      <4>1. HasPrepared(resume, q)
        BY <2>1, <2>6 DEF HasPrepared
      <4>2. callCntUsed'[q] = (callCntUsed[q] \/ (q \in {q} /\ HasPrepared(resume, q)))
        BY Zenon
      <4> QED
        BY <4>1, <4>2
    <3>5. KeyOK(j)' /\ KeyWaits(j)'
      BY <1>0, <3>1, <3>2, <3>3, <3>4 DEF KeyOK, KeyWaits
    <3> QED
      BY <2>2, <3>2, <3>5
  <2>7. CASE ~(k.prep /\ k.to = q)
    <3>1. j = k
      BY <2>3, <2>7 DEF Unprepared
    <3>2. KeyOK(k)'
      BY <1>2, <2>4, <2>5 DEF KeyOK
    <3>3. KeyWaits(k)'
      <4>1. CASE k.to = None
        BY <2>4, <4>1, NewKeys DEF KeyOK, KeyWaits
      <4>2. CASE k.to # None
        BY <2>4, <2>5, <2>7, <4>2 DEF KeyWaits
      <4> QED
        BY <4>1, <4>2
    <3> QED
      BY <2>2, <3>1, <3>2, <3>3
  <2> QED
    BY <2>6, <2>7
<1>4. resume' \in [Proc -> Key]
  BY <1>3
<1> QED
  BY <1>1, <1>3, <1>4 DEF KeyInv

\* proc_Unload.
LEMMA UnloadInv ==
    ASSUME Inv, NEW q \in Proc, Unload(q)
    PROVE  Inv'
<1>0. TypeInv /\ ActInv /\ QueueInv /\ KeyInv /\ None \notin Activity /\ None \notin Proc
  BY Fields DEF Inv
<1>1. CASE HazardOf(q) # None
  BY <1>1, SameInv DEF Unload, proc_Unload, HaltAs, procVars, actVars, countVars
<1>2. CASE HazardOf(q) = None
  <2>1. PICK S : S = Elements(stallQ[q])
    OBVIOUS
  <2>2. UnloadWakes({q}) = S
    BY <2>1 DEF UnloadWakes
  <2>3. cur = None \/ curActivity[q] # cur
    BY DEF Unload, proc_Unload, Unloadable
  <2>4. PICK s \in Orders(S) : UnloadAll({q}, s)
    BY <1>2, <2>2 DEF Unload, proc_Unload
  <2>5. PICK w : w = Woken(act, s)
    OBVIOUS
  <2>6. /\ act' = [b \in Activity |-> IF act[b].hasProcess /\ act[b].of \in {q}
                                        THEN [w[b] EXCEPT !.hasProcess = FALSE] ELSE w[b]]
        /\ readyQ' = readyQ \o s
        /\ stallQ' = [x \in Proc |-> IF x \in {q} THEN <<>> ELSE stallQ[x]]
        /\ curActivity' = [x \in Proc |-> IF x \in {q} THEN None ELSE curActivity[x]]
        /\ ctx' = [x \in Proc |-> IF x \in {q} THEN "out" ELSE ctx[x]]
        /\ resume' = [h \in Proc |-> Unprepared(resume[h], {q})]
        /\ callCntUsed' = [r \in Proc |-> callCntUsed[r]
                                          \/ (r \in {q} /\ HasPrepared(resume, r))]
        /\ UNCHANGED <<runState, cur, callCount>>
    BY <2>4, <2>5 DEF UnloadAll
  <2>7. Lists(s, S) /\ Stalled(S)
    <3>1. Stalled(S) /\ S \in SUBSET Activity
      BY <1>0, <2>1, StallQueue DEF Stalled
    <3> QED
      BY <3>1, ListsOrder
  <2>8. PICK R : R = ReadySet
    OBVIOUS
  <2>9. Lists(readyQ', R \cup S) /\ WokenTable(w, S)
    BY <1>0, <2>5, <2>6, <2>7, <2>8, WokenQueue
  <2>10. PICK a \in IF curActivity[q] # None THEN {curActivity[q]} ELSE OrNone(Found(q)) : TRUE
    BY DEF OrNone
  <2>11. /\ a \in Activity \cup {None}
         /\ a \in Activity => act[a].of = q
         /\ \A b \in Activity \ {a} : act[b].of # q
    BY <1>0, <2>10, HisActivity
  <2>12. \A b \in Activity : w[b] \in ActRecord /\ act[b].hasProcess \in BOOLEAN
    BY <1>0, <2>9, Fields DEF WokenTable, ActTable
  <2>13. \A b \in Activity \ {a} : act'[b] = w[b]
    BY <2>6, <2>11
  <2>14. ASSUME a \in Activity
         PROVE  /\ act'[a] \in ActRecord
                /\ act'[a].of = q /\ act'[a].hasProcess = FALSE
                /\ act'[a].haz = act[a].haz
                /\ act'[a].state = IF a \in S THEN "Ready" ELSE act[a].state
    <3>1. PICK r \in ActRecord : r = w[a]
      BY <2>12, <2>14
    <3>2. /\ r.of = q /\ r.hasProcess = act[a].hasProcess /\ r.haz = act[a].haz
          /\ r.state = IF a \in S THEN "Ready" ELSE act[a].state
      BY <2>9, <2>11, <2>14, <3>1 DEF WokenTable
    <3>3. act'[a] = IF act[a].hasProcess THEN [r EXCEPT !.hasProcess = FALSE] ELSE r
      BY <2>6, <2>11, <2>14, <3>1
    <3>4. act[a].hasProcess \in BOOLEAN
      BY <2>12, <2>14
    <3> QED
      BY <3>2, <3>3, <3>4 DEF ActRecord
  <2>15. act' \in [Activity -> ActRecord]
    <3>1. \A b \in Activity : act'[b] \in ActRecord
      BY <2>12, <2>13, <2>14
    <3>2. act' = [b \in Activity |-> act'[b]]
      BY <2>6
    <3> QED
      BY <3>1, <3>2
  <2>16. \A b \in Activity : act'[b].state = IF b \in S THEN "Ready" ELSE act[b].state
    BY <2>9, <2>13, <2>14 DEF WokenTable
  <2>17. /\ ctx' \in [Proc -> Ctx] /\ ctx'[q] = "out"
         /\ \A x \in Proc \ {q} : ctx'[x] = ctx[x]
    BY <1>0, <2>6 DEF TypeInv, Ctx
  <2>18. /\ curActivity' \in [Proc -> Activity \cup {None}] /\ curActivity'[q] = None
         /\ \A x \in Proc \ {q} : curActivity'[x] = curActivity[x]
    BY <1>0, <2>6 DEF TypeInv
  <2>19. ActInv' /\ \A x \in Proc : Waits(x) => Waits(x)'
    <3>1. \A b \in Activity \ {a} :
            WokenOrSame(b) /\ (cur' = b <=> cur = b) /\ act[b].of # q
      BY <2>6, <2>7, <2>9, <2>11, <2>13 DEF WokenOrSame, WokenTable, Stalled
    <3>2. \A x \in Proc \ {q} : /\ runState'[x] = runState[x] /\ ctx'[x] = ctx[x]
                                /\ curActivity'[x] = curActivity[x]
      BY <2>6, <2>17, <2>18
    <3>3. ASSUME a \in Activity PROVE ActOK(a)'
      <4>1. ActOK(a) /\ act[a].of = q /\ q # None
        BY <1>0, <2>11, <3>3 DEF ActInv
      <4>2. a \in S => act[a].state = "Stall"
        BY <2>7 DEF Stalled
      <4>3. act[a].state # "Running" /\ cur' # a
        <5>1. act[a].hasProcess => cur # a
          BY <1>0, <2>3, <3>3, <4>1 DEF ActOK
        <5>2. ~act[a].hasProcess => act[a].state # "Running"
          BY <4>1 DEF ActOK
        <5> QED
          BY <2>6, <4>1, <5>1, <5>2 DEF ActOK
      <4>4. /\ act'[a].state # "Running" /\ act'[a].state # "Free"
            /\ act[a].haz # "None" => act'[a].state = "Ready"
            /\ act'[a].state = "Sleeping" <=> act[a].state = "Sleeping"
        BY <1>0, <2>16, <3>3, <4>1, <4>2, <4>3 DEF ActOK
      <4>5. /\ runState'[q] = IF act[a].state = "Sleeping" \/ act[a].haz # "None" THEN "Waiting"
                              ELSE "Running"
            /\ act[a].haz \in {"None", "WakeOK"}
        BY <2>6, <4>1 DEF ActOK
      <4> QED
        BY <1>0, <2>14, <2>17, <2>18, <3>3, <4>1, <4>3, <4>4, <4>5 DEF ActOK
    <3>4. ProcOK(q)'
      <4>1. runState[q] = "Running" => a \in Activity
        BY <1>0, <2>11 DEF ActInv, ProcOK
      <4> QED
        BY <2>6, <2>14, <2>18, <4>1 DEF ProcOK
    <3>5. a \in Activity => act[a].of = q /\ act'[a].of = q /\ ActOK(a)'
      BY <2>11, <2>14, <3>3
    <3>6. runState'[q] = runState[q]
      BY <2>6
    <3> QED
      BY <1>0, <2>11, <3>1, <3>2, <3>4, <3>5, <3>6, ActKept
  <2>20. Lists(readyQ', {b \in Activity : act'[b].state = "Ready"})
    <3>1. {b \in Activity : act'[b].state = "Ready"} = R \cup S
      BY <2>7, <2>8, <2>16 DEF ReadySet, Stalled
    <3> QED
      BY <2>9, <3>1
  <2>21. \A x \in Proc : stallQ'[x] = IF x = q THEN <<>> ELSE stallQ[x]
    BY <2>6
  <2>22. QueueInv'
    <3>1. PICK d \in Activity \cup {None} : d = None
      OBVIOUS
    <3>2. \A b \in Activity \ {d} :
            act'[b].state = IF q # None /\ b \in Elements(stallQ[q]) THEN "Ready"
                            ELSE act[b].state
      BY <1>0, <2>1, <2>16
    <3>3. \A x \in Proc :
            Lists(stallQ'[x], IF x = q THEN {} ELSE Elements(stallQ[x]) \ {d})
      <4>1. \A x \in Proc : Lists(stallQ[x], Elements(stallQ[x]) \ {d})
        BY <1>0, <3>1, Queued
      <4> QED
        BY <2>21, <4>1, ListsEmpty
    <3>4. \A x \in Proc \ {q} :
            stallQ[x] # <<>> => ctx'[x] # "out" /\ runState'[x] # "Available"
      <4>1. runState' = runState
        BY <2>6
      <4> QED
        BY <1>0, <2>17, <4>1 DEF QueueInv, NoLostWakeUp
    <3>5. d \in Activity => act'[d].state # "Stall"
      BY <1>0, <3>1
    <3> QED
      BY <1>0, <2>20, <3>2, <3>3, <3>4, <3>5, QueueStep
  <2>23. /\ KeyInv' /\ resume' \in [Proc -> Key] /\ callCntUsed' \in [Proc -> BOOLEAN]
    <3>1. resume' = [h \in Proc |-> Unprepared(resume[h], {q})] /\ callCount' = callCount
      BY <2>6
    <3>2. callCntUsed' = [r \in Proc |-> callCntUsed[r]
                                         \/ (r \in {q} /\ HasPrepared(resume, r))]
      BY <2>6, Zenon
    <3>3. \A x \in Proc \ {q} : ctx'[x] = ctx[x]
      BY <2>17
    <3>4. TypeInv /\ KeyInv /\ \A x \in Proc : Waits(x) => Waits(x)'
      BY <1>0, <2>19
    <3> QED
      BY <3>1, <3>2, <3>3, <3>4, KeysUnloaded, Zenon
  <2>24. TypeActs'
    <3>1. stallQ' \in [Proc -> Seq(Activity)]
      <4>1. \A x \in Proc : stallQ[x] \in Seq(Activity)
        BY <1>0, Fields
      <4>2. \A x \in Proc : stallQ'[x] \in Seq(Activity)
        BY <2>21, <4>1, EmptySeq
      <4>3. stallQ' = [x \in Proc |-> stallQ'[x]]
        BY <2>6
      <4> QED
        BY <4>2, <4>3
    <3>2. readyQ' \in Seq(Activity)
      BY <2>20, ListsTyped
    <3>3. runState' = runState /\ cur' = cur
      BY <2>6
    <3> QED
      BY <1>0, <2>15, <2>17, <2>18, <3>1, <3>2, <3>3 DEF TypeActs, TypeInv
  <2>25. callCount' \in [Proc -> Nat]
    BY <1>0, <2>6 DEF TypeInv
  <2> QED
    BY <2>19, <2>22, <2>23, <2>24, <2>25, Typed DEF Inv
<1> QED
  BY <1>1, <1>2
-----------------------------------------------------------------------------
(* The dispatcher.                                                           *)

\* The first of the ready queue.
LEMMA FirstReady ==
    ASSUME TypeInv, ActInv, QueueInv, readyQ # <<>>, NEW a, a = Head(readyQ)
    PROVE  /\ a \in Activity /\ act[a].state = "Ready" /\ act[a].of \in Proc
           /\ act[a].haz \in {"None", "WakeOK"} /\ cur # a
           /\ \A b \in Activity \ {a} : act[b].of # act[a].of
           /\ runState[act[a].of] = IF act[a].haz # "None" THEN "Waiting" ELSE "Running"
           /\ Lists(Tail(readyQ), ReadySet \ {a})
<1>0. None \notin Activity /\ None \notin Proc
  BY Fields
<1>1. Lists(readyQ, ReadySet)
  BY DEF QueueInv, ReadySet
<1>2. a \in ReadySet /\ Lists(Tail(readyQ), ReadySet \ {a})
  BY <1>1, ListsTail
<1>3. a \in Activity /\ act[a].state = "Ready"
  BY <1>2 DEF ReadySet
<1>4. ActOK(a) /\ act[a].of \in Proc \cup {None}
  BY <1>3, Fields DEF ActInv
<1>5. act[a].of \in Proc /\ act[a].haz \in {"None", "WakeOK"} /\ cur # a
  BY <1>3, <1>4 DEF ActOK
<1>6. runState[act[a].of] = IF act[a].haz # "None" THEN "Waiting" ELSE "Running"
  BY <1>0, <1>3, <1>4, <1>5 DEF ActOK
<1>7. \A b \in Activity \ {a} : act[b].of # act[a].of
  BY <1>0, <1>3, <1>5 DEF ActInv
<1> QED
  BY <1>2, <1>3, <1>5, <1>6, <1>7

\* The first Activity of the ready queue runs.
LEMMA DispatchInv ==
    ASSUME Inv, Dispatch
    PROVE  Inv'
<1>0. TypeInv /\ ActInv /\ QueueInv /\ KeyInv /\ None \notin Activity /\ None \notin Proc
  BY Fields DEF Inv
<1>1. cur = None /\ readyQ # <<>>
  BY DEF Dispatch
<1>2. PICK a : a = Head(readyQ)
  OBVIOUS
<1>3. /\ a \in Activity /\ act[a].state = "Ready" /\ act[a].of \in Proc
      /\ act[a].haz \in {"None", "WakeOK"} /\ cur # a
      /\ \A b \in Activity \ {a} : act[b].of # act[a].of
      /\ runState[act[a].of] = IF act[a].haz # "None" THEN "Waiting" ELSE "Running"
      /\ Lists(Tail(readyQ), ReadySet \ {a})
  BY <1>0, <1>1, <1>2, FirstReady
<1>4. PICK p \in Proc : p = act[a].of
  BY <1>3
<1>5. ~IsStale(a) /\ Checked(act[a].haz) = act[a].haz
  BY <1>0, <1>3, NoneStale
<1>6. PICK s : s = IF ctx[p] = "runnable" THEN <<>> ELSE stallQ[p]
  OBVIOUS
<1>7. PICK w : w = Woken(act, s)
  OBVIOUS
<1>8. /\ cur' = a
      /\ act' = [w EXCEPT ![a] = [@ EXCEPT !.state = "Running", !.hasProcess = TRUE,
                                           !.haz = "None", !.count = 0]]
      /\ readyQ' = Tail(readyQ) \o s
      /\ stallQ' = [stallQ EXCEPT ![p] = IF s = <<>> THEN @ ELSE <<>>]
      /\ curActivity' = [curActivity EXCEPT ![p] = a]
      /\ ctx' = [ctx EXCEPT ![p] = "runnable"]
      /\ IF act[a].haz = "None" THEN UNCHANGED <<runState, resume, callCount, callCntUsed>>
         ELSE /\ runState' = [runState EXCEPT ![p] = "Running"]
              /\ resume' = Zapped(resume, p)
              /\ BumpCallCount({p})
  BY <1>2, <1>4, <1>5, <1>6, <1>7 DEF Dispatch, countVars
<1>9. PICK S : S = IF ctx[p] = "runnable" THEN {} ELSE Elements(stallQ[p])
  OBVIOUS
<1>10. Lists(s, S) /\ Stalled(S)
  BY <1>0, <1>6, <1>9, StallQueue, ListsEmpty DEF Stalled
<1>11. WokenTable(w, S) /\ ReadySet \cap S = {}
  BY <1>0, <1>7, <1>10, WokenQueue
<1>12. /\ act' \in [Activity -> ActRecord]
       /\ act'[a].state = "Running" /\ act'[a].hasProcess = TRUE
       /\ act'[a].haz = "None" /\ act'[a].of = p
       /\ \A b \in Activity \ {a} : act'[b] = w[b]
  <2>1. w \in [Activity -> ActRecord] /\ w[a].of = p
    BY <1>3, <1>4, <1>11 DEF WokenTable, ActTable
  <2>2. PICK r : r = [w[a] EXCEPT !.state = "Running", !.hasProcess = TRUE,
                                  !.haz = "None", !.count = 0]
    OBVIOUS
  <2>3. w[a] \in ActRecord
    BY <1>3, <2>1
  <2>4. /\ r \in ActRecord /\ r.state = "Running" /\ r.hasProcess = TRUE
        /\ r.haz = "None" /\ r.of = p
    BY <2>1, <2>2, <2>3 DEF ActRecord, Hazard
  <2>5. act' = [w EXCEPT ![a] = r]
    BY <1>8, <2>2
  <2> QED
    BY <1>3, <2>1, <2>4, <2>5
<1>13. \A b \in Activity \ {a} :
         act'[b].state = IF b \in S THEN "Ready" ELSE act[b].state
  BY <1>11, <1>12 DEF WokenTable
<1>14. ctx' \in [Proc -> Ctx] /\ ctx'[p] = "runnable" /\ \A x \in Proc \ {p} : ctx'[x] = ctx[x]
  BY <1>0, <1>8 DEF TypeInv, Ctx
<1>15. /\ curActivity' \in [Proc -> Activity \cup {None}] /\ curActivity'[p] = a
       /\ \A x \in Proc \ {p} : curActivity'[x] = curActivity[x]
  BY <1>0, <1>3, <1>8 DEF TypeInv
<1>16. /\ runState' \in [Proc -> RunState] /\ runState'[p] = "Running"
       /\ \A x \in Proc \ {p} : runState'[x] = runState[x]
  <2>1. CASE act[a].haz = "None"
    BY <1>0, <1>3, <1>4, <1>8, <2>1 DEF TypeInv
  <2>2. CASE act[a].haz # "None"
    BY <1>0, <1>8, <2>2 DEF TypeInv, RunState
  <2> QED
    BY <2>1, <2>2
<1>17. ActInv' /\ \A x \in Proc : Waits(x) => Waits(x)'
  <2>1. \A b \in Activity \ {a} :
          WokenOrSame(b) /\ (cur' = b <=> cur = b) /\ act[b].of # p
    <3>1. \A b \in Activity \ {a} : cur' # b /\ cur # b
      BY <1>0, <1>1, <1>8
    <3>2. \A b \in Activity \ {a} : WokenOrSame(b)
      BY <1>10, <1>11, <1>12 DEF WokenOrSame, WokenTable, Stalled
    <3> QED
      BY <1>3, <1>4, <3>1, <3>2
  <2>2. \A x \in Proc \ {p} : /\ runState'[x] = runState[x] /\ ctx'[x] = ctx[x]
                              /\ curActivity'[x] = curActivity[x]
    BY <1>14, <1>15, <1>16
  <2>3. ActOK(a)'
    <3>1. cur' = a /\ p # None
      BY <1>0, <1>8
    <3> QED
      BY <1>12, <1>14, <1>15, <1>16, <3>1 DEF ActOK
  <2>4. ProcOK(p)'
    BY <1>3, <1>12, <1>15 DEF ProcOK
  <2>5. act[a].of = p /\ act'[a].of = p
    BY <1>4, <1>12
  <2> QED
    BY <1>0, <1>3, <2>1, <2>2, <2>3, <2>4, <2>5, ActKept
<1>18. Lists(readyQ', {b \in Activity : act'[b].state = "Ready"})
  <2>1. PICK R : R = ReadySet
    OBVIOUS
  <2>2. PICK u : u = Tail(readyQ)
    OBVIOUS
  <2>3. Lists(u, R \ {a}) /\ (R \ {a}) \cap S = {}
    BY <1>3, <1>11, <2>1, <2>2
  <2>4. Lists(u \o s, (R \ {a}) \cup S) /\ readyQ' = u \o s
    BY <1>8, <1>10, <2>2, <2>3, ListsConcat
  <2>5. {b \in Activity : act'[b].state = "Ready"} = (R \ {a}) \cup S
    <3>1. a \notin S /\ \A b \in S : b \in Activity
      BY <1>3, <1>10 DEF Stalled
    <3> QED
      BY <1>12, <1>13, <2>1, <3>1 DEF ReadySet
  <2> QED
    BY <2>4, <2>5
<1>19. PICK e \in Proc \cup {None} : e = IF ctx[p] = "runnable" THEN None ELSE p
  OBVIOUS
<1>20. \A x \in Proc : stallQ'[x] = IF x = e THEN <<>> ELSE stallQ[x]
  <2>1. stallQ' = [stallQ EXCEPT ![p] = IF s = <<>> THEN stallQ[p] ELSE <<>>]
    BY <1>8
  <2>2. stallQ'[p] = IF s = <<>> THEN stallQ[p] ELSE <<>>
    BY <1>0, <2>1 DEF TypeInv
  <2>3. \A x \in Proc \ {p} : stallQ'[x] = stallQ[x]
    BY <1>0, <2>1 DEF TypeInv
  <2>4. CASE ctx[p] = "runnable"
    BY <1>0, <1>6, <1>19, <2>2, <2>3, <2>4
  <2>5. CASE ctx[p] # "runnable"
    BY <1>0, <1>6, <1>19, <2>2, <2>3, <2>5
  <2> QED
    BY <2>4, <2>5
<1>21. QueueInv'
  <2>1. \A b \in Activity \ {a} :
          act'[b].state = IF e # None /\ b \in Elements(stallQ[e]) THEN "Ready"
                          ELSE act[b].state
    BY <1>0, <1>9, <1>13, <1>19
  <2>2. \A x \in Proc :
          Lists(stallQ'[x], IF x = e THEN {} ELSE Elements(stallQ[x]) \ {a})
    <3>1. \A x \in Proc : Lists(stallQ[x], Elements(stallQ[x]) \ {a})
      BY <1>0, <1>3, Queued
    <3> QED
      BY <1>20, <3>1, ListsEmpty
  <2>3. \A x \in Proc \ {e} :
          stallQ[x] # <<>> => ctx'[x] # "out" /\ runState'[x] # "Available"
    BY <1>0, <1>14, <1>16 DEF QueueInv, NoLostWakeUp
  <2>4. a \in Activity \cup {None} /\ act'[a].state # "Stall"
    BY <1>3, <1>12
  <2> QED
    BY <1>0, <1>18, <2>1, <2>2, <2>3, <2>4, QueueStep
<1>22. TypeActs'
  <2>1. readyQ' \in Seq(Activity)
    BY <1>18, ListsTyped
  <2>2. stallQ' \in [Proc -> Seq(Activity)]
    <3>1. \A x \in Proc : stallQ[x] \in Seq(Activity)
      BY <1>0, Fields
    <3>2. \A x \in Proc : stallQ'[x] \in Seq(Activity)
      BY <1>20, <3>1, EmptySeq
    <3>3. stallQ' = [x \in Proc |-> stallQ'[x]]
      BY <1>0, <1>8 DEF TypeInv
    <3> QED
      BY <3>2, <3>3
  <2>3. cur' \in Activity \cup {None}
    BY <1>3, <1>8
  <2> QED
    BY <1>12, <1>14, <1>15, <1>16, <2>1, <2>2, <2>3 DEF TypeActs
<1>23. CASE act[a].haz # "None"
  <2>1. resume' = Zapped(resume, p) /\ BumpCallCount({p})
    BY <1>8, <1>23
  <2>2. resume' \in [Proc -> Key] /\ \A h \in Proc : KeyLeft(resume'[h], {p})
    BY <1>0, <2>1, KeysZapped
  <2>3. PICK P \in SUBSET Proc : P = {p}
    OBVIOUS
  <2>4. /\ BumpCallCount(P) /\ \A h \in Proc : KeyLeft(resume'[h], P)
        /\ \A r \in Proc \ P : Waits(r) => Waits(r)'
        /\ \A r \in Proc \ P : ctx[r] # "out" => ctx'[r] # "out"
    BY <1>14, <1>17, <2>1, <2>2, <2>3
  <2>5. /\ KeyInv'
        /\ callCount' \in [Proc -> Nat] /\ callCntUsed' \in [Proc -> BOOLEAN]
    BY <1>0, <2>4, KeysZapStep
  <2> QED
    BY <1>17, <1>21, <1>22, <2>2, <2>5, Typed DEF Inv
<1>24. CASE act[a].haz = "None"
  <2>1. UNCHANGED <<resume, callCount, callCntUsed>>
    BY <1>8, <1>24
  <2>2. \A x \in Proc : ctx[x] # "out" => ctx'[x] # "out"
    BY <1>14
  <2>3. KeyInv'
    BY <1>0, <1>17, <2>1, <2>2, KeysSame
  <2>4. /\ resume' \in [Proc -> Key]
        /\ callCount' \in [Proc -> Nat] /\ callCntUsed' \in [Proc -> BOOLEAN]
    BY <1>0, <2>1 DEF TypeInv
  <2> QED
    BY <1>17, <1>21, <1>22, <2>3, <2>4, Typed DEF Inv
<1> QED
  BY <1>23, <1>24

\* The first Activity finds its process but must wait for an object.
LEMMA DispatchYieldsInv ==
    ASSUME Inv, DispatchYields
    PROVE  Inv'
<1>0. TypeInv /\ ActInv /\ QueueInv /\ KeyInv /\ None \notin Activity /\ None \notin Proc
  BY Fields DEF Inv
<1>1. readyQ # <<>>
  BY DEF DispatchYields
<1>2. PICK a : a = Head(readyQ)
  OBVIOUS
<1>3. /\ a \in Activity /\ act[a].state = "Ready" /\ act[a].of \in Proc
      /\ act[a].haz \in {"None", "WakeOK"} /\ cur # a
      /\ \A b \in Activity \ {a} : act[b].of # act[a].of
      /\ runState[act[a].of] = IF act[a].haz # "None" THEN "Waiting" ELSE "Running"
      /\ Lists(Tail(readyQ), ReadySet \ {a})
  BY <1>0, <1>1, <1>2, FirstReady
<1>4. PICK p \in Proc : p = act[a].of
  BY <1>3
<1>5. Checked(act[a].haz) = act[a].haz
  BY <1>0, <1>3, NoneStale
<1>6. /\ ~act[a].hasProcess
      /\ act' = [act EXCEPT ![a].hasProcess = TRUE, ![a].haz = Checked(@)]
      /\ readyQ' = Append(Tail(readyQ), a)
      /\ curActivity' = [curActivity EXCEPT ![p] = a]
      /\ ctx' = [ctx EXCEPT ![p] = IF @ = "out" THEN "hzDomRoot" ELSE @]
      /\ UNCHANGED <<runState, stallQ, cur, resume, callCount, callCntUsed>>
  BY <1>2, <1>4 DEF DispatchYields, countVars
<1>7. /\ act' \in [Activity -> ActRecord]
      /\ act'[a].state = "Ready" /\ act'[a].hasProcess = TRUE
      /\ act'[a].haz = act[a].haz /\ act'[a].of = p
      /\ \A b \in Activity \ {a} : act'[b] = act[b]
  <2>1. act[a] \in ActRecord /\ act \in [Activity -> ActRecord]
    BY <1>0, <1>3 DEF TypeInv
  <2>2. PICK r : r = [act[a] EXCEPT !.hasProcess = TRUE, !.haz = act[a].haz]
    OBVIOUS
  <2>3. /\ r \in ActRecord /\ r.state = "Ready" /\ r.hasProcess = TRUE
        /\ r.haz = act[a].haz /\ r.of = p
    BY <1>3, <1>4, <2>1, <2>2 DEF ActRecord
  <2>4. act' = [act EXCEPT ![a] = r]
    BY <1>3, <1>5, <1>6, <2>1, <2>2
  <2> QED
    BY <1>3, <2>1, <2>3, <2>4
<1>8. ActOK(a) /\ ctx[p] \in {"out", "hzDomRoot"}
  BY <1>0, <1>3, <1>4, <1>6 DEF ActInv, ActOK
<1>9. ctx' \in [Proc -> Ctx] /\ ctx'[p] = "hzDomRoot" /\ \A x \in Proc \ {p} : ctx'[x] = ctx[x]
  BY <1>0, <1>6, <1>8 DEF TypeInv, Ctx
<1>10. /\ curActivity' \in [Proc -> Activity \cup {None}] /\ curActivity'[p] = a
       /\ \A x \in Proc \ {p} : curActivity'[x] = curActivity[x]
  BY <1>0, <1>3, <1>6 DEF TypeInv
<1>11. ActInv' /\ \A x \in Proc : Waits(x) => Waits(x)'
  <2>1. \A b \in Activity \ {a} :
          WokenOrSame(b) /\ (cur' = b <=> cur = b) /\ act[b].of # p
    BY <1>3, <1>4, <1>6, <1>7 DEF WokenOrSame
  <2>2. \A x \in Proc \ {p} : /\ runState'[x] = runState[x] /\ ctx'[x] = ctx[x]
                              /\ curActivity'[x] = curActivity[x]
    BY <1>6, <1>9, <1>10
  <2>3. ActOK(a)'
    <3>1. /\ cur' # a /\ p # None
          /\ runState'[p] = IF act[a].haz # "None" THEN "Waiting" ELSE "Running"
      BY <1>0, <1>3, <1>4, <1>6
    <3> QED
      BY <1>3, <1>7, <1>9, <1>10, <3>1 DEF ActOK
  <2>4. ProcOK(p)'
    BY <1>3, <1>7, <1>10 DEF ProcOK
  <2>5. act[a].of = p /\ act'[a].of = p
    BY <1>4, <1>7
  <2> QED
    BY <1>0, <1>3, <2>1, <2>2, <2>3, <2>4, <2>5, ActKept
<1>12. Lists(readyQ', {b \in Activity : act'[b].state = "Ready"})
  <2>1. PICK R : R = ReadySet
    OBVIOUS
  <2>2. PICK u : u = Tail(readyQ)
    OBVIOUS
  <2>3. Lists(u, R \ {a}) /\ readyQ' = Append(u, a)
    BY <1>3, <1>6, <2>1, <2>2
  <2>4. Lists(readyQ', (R \ {a}) \cup {a})
    BY <1>3, <2>3, ListsAppend
  <2>5. {b \in Activity : act'[b].state = "Ready"} = (R \ {a}) \cup {a}
    BY <1>3, <1>7, <2>1 DEF ReadySet
  <2> QED
    BY <2>4, <2>5
<1>13. QueueInv'
  <2>1. \A r \in Proc :
          stallQ[r] # <<>> => ctx'[r] # "out" /\ runState'[r] # "Available"
    BY <1>0, <1>6, <1>9 DEF QueueInv, NoLostWakeUp
  <2>2. /\ \A b \in Activity \ {a} : act'[b].state = act[b].state
        /\ act[a].state # "Stall" /\ act'[a].state # "Stall" /\ stallQ' = stallQ
    BY <1>3, <1>6, <1>7
  <2> QED
    BY <1>0, <1>3, <1>12, <2>1, <2>2, QueueQuiet
<1>14. KeyInv'
  <2>1. UNCHANGED <<resume, callCount, callCntUsed>>
    BY <1>6
  <2>2. \A x \in Proc : ctx[x] # "out" => ctx'[x] # "out"
    BY <1>9
  <2> QED
    BY <1>0, <1>11, <2>1, <2>2, KeysSame
<1>15. TypeInv'
  <2>1. readyQ' \in Seq(Activity)
    BY <1>12, ListsTyped
  <2>2. UNCHANGED <<runState, stallQ, cur, resume, callCount, callCntUsed>>
    BY <1>6
  <2> QED
    BY <1>0, <1>7, <1>9, <1>10, <2>1, <2>2 DEF TypeInv
<1> QED
  BY <1>11, <1>13, <1>14, <1>15 DEF Inv
-----------------------------------------------------------------------------
(* The invariant of the specification.                                       *)

\* act_Init, StartActivity: each Activity in use runs one of the processes that
\* are started, which is not in core, and is on the ready queue.
LEMMA InitInv == Init => Inv
<1> SUFFICES ASSUME Init PROVE Inv
  OBVIOUS
<1>1. PICK f \in [Started -> Activity] :
        /\ \A p, q \in Started : f[p] = f[q] => p = q
        /\ act = [a \in Activity |->
                    IF \E p \in Started : f[p] = a
                      THEN Starting(CHOOSE p \in Started : f[p] = a, 0, "None")
                      ELSE FreeAct]
        /\ readyQ \in Orders({f[p] : p \in Started})
        /\ runState = [p \in Proc |->
                         IF p \in Started THEN "Running" ELSE "Available"]
        /\ ctx = [p \in Proc |-> "out"]
        /\ curActivity = [p \in Proc |-> None]
        /\ stallQ = [p \in Proc |-> <<>>]
        /\ cur = None
        /\ resume = [p \in Proc |-> Void]
        /\ callCount = [p \in Proc |-> 0]
        /\ callCntUsed = [p \in Proc |-> TRUE]
  BY DEF Init
<1>2. \A p \in Started : p \in Proc /\ f[p] \in Activity /\ act[f[p]] = Starting(p, 0, "None")
  <2> SUFFICES ASSUME NEW p \in Started
               PROVE  p \in Proc /\ f[p] \in Activity /\ act[f[p]] = Starting(p, 0, "None")
    OBVIOUS
  <2>1. p \in Proc /\ f[p] \in Activity
    BY <1>1, ConstantsAssumption
  <2>2. (CHOOSE q \in Started : f[q] = f[p]) = p
    BY <1>1
  <2> QED
    BY <1>1, <2>1, <2>2
<1>3. \A a \in Activity : (\E p \in Started : f[p] = a) \/ act[a] = FreeAct
  BY <1>1
<1>4. ASSUME NEW a \in Activity
      PROVE  \/ act[a] = FreeAct
             \/ /\ act[a].of \in Started /\ f[act[a].of] = a
                /\ act[a] = Starting(act[a].of, 0, "None")
  <2>1. ASSUME NEW p \in Started, f[p] = a
        PROVE  act[a] = Starting(p, 0, "None") /\ act[a].of = p
    BY <1>2, <2>1 DEF Starting
  <2> QED
    BY <1>3, <2>1
<1>5. TypeInv
  <2>1. act \in [Activity -> ActRecord]
    <3>1. ASSUME NEW a \in Activity PROVE act[a] \in ActRecord
      <4>1. FreeAct \in ActRecord
        BY DEF ActRecord, FreeAct, Hazard
      <4>2. \A p \in Proc : Starting(p, 0, "None") \in ActRecord
        BY DEF ActRecord, Starting, Hazard
      <4>3. act[a] = FreeAct \/ (act[a].of \in Proc /\ act[a] = Starting(act[a].of, 0, "None"))
        BY <1>4, ConstantsAssumption
      <4> QED
        BY <4>1, <4>2, <4>3
    <3> QED
      BY <1>1, <3>1
  <2>2. Lists(readyQ, {f[p] : p \in Started})
    BY <1>1, ListsOrder
  <2>3. /\ runState \in [Proc -> RunState] /\ ctx \in [Proc -> Ctx]
        /\ curActivity \in [Proc -> Activity \cup {None}] /\ cur \in Activity \cup {None}
        /\ callCount \in [Proc -> Nat] /\ callCntUsed \in [Proc -> BOOLEAN]
    BY <1>1 DEF RunState, Ctx
  <2>4. resume \in [Proc -> Key]
    BY <1>1 DEF Key, Void
  <2>5. stallQ \in [Proc -> Seq(Activity)]
    BY <1>1, ListsEmpty DEF Lists
  <2> QED
    BY <2>1, <2>2, <2>3, <2>4, <2>5 DEF TypeInv, Lists
<1>6. ActInv
  <2>1. \A a, b \in Activity : act[a].of # None /\ act[a].of = act[b].of => a = b
    <3>1. \A a \in Activity : act[a].of # None => act[a].of \in Started /\ f[act[a].of] = a
      BY <1>4 DEF FreeAct
    <3> QED
      BY <3>1
  <2>2. ASSUME NEW a \in Activity PROVE ActOK(a)
    <3>1. CASE act[a] = FreeAct
      BY <1>1, <3>1, ConstantsAssumption DEF ActOK, FreeAct
    <3>2. ASSUME NEW p \in Started, act[a] = Starting(p, 0, "None") PROVE ActOK(a)
      BY <1>1, <3>2, ConstantsAssumption DEF ActOK, Starting
    <3> QED
      BY <1>4, <3>1, <3>2
  <2>3. ASSUME NEW p \in Proc PROVE ProcOK(p)
    BY <1>1, <1>2 DEF ProcOK, Starting
  <2> QED
    BY <2>1, <2>2, <2>3 DEF ActInv
<1>7. QueueInv
  <2>1. {f[p] : p \in Started} = {a \in Activity : act[a].state = "Ready"}
    <3>1. \A a \in Activity : act[a].state = "Ready" => \E p \in Started : f[p] = a
      <4> SUFFICES ASSUME NEW a \in Activity, act[a].state = "Ready"
                   PROVE  \E p \in Started : f[p] = a
        OBVIOUS
      <4>1. act[a] # FreeAct
        BY DEF FreeAct
      <4> QED
        BY <1>4, <4>1
    <3>2. ASSUME NEW p \in Started PROVE f[p] \in Activity /\ act[f[p]].state = "Ready"
      <4>1. Starting(p, 0, "None").state = "Ready"
        BY DEF Starting
      <4> QED
        BY <1>2, <4>1
    <3> QED
      BY <3>1, <3>2
  <2>2. Lists(readyQ, {a \in Activity : act[a].state = "Ready"})
    BY <1>1, <2>1, ListsOrder
  <2>3. \A q \in Proc : stallQ[q] = <<>> /\ Elements(stallQ[q]) = {}
    BY <1>1 DEF Elements
  <2>4. \A q \in Proc : Lists(stallQ[q], Elements(stallQ[q]))
    BY <2>3, ListsEmpty
  <2>5. ASSUME NEW a \in Activity PROVE act[a].state # "Stall"
    <3>1. FreeAct.state # "Stall" /\ Starting(act[a].of, 0, "None").state # "Stall"
      BY DEF FreeAct, Starting
    <3> QED
      BY <1>4, <3>1
  <2>6. NoLostWakeUp
    BY <2>3 DEF NoLostWakeUp
  <2> QED
    BY <2>2, <2>3, <2>4, <2>5, <2>6, Zenon DEF QueueInv
<1>8. KeyInv
  BY <1>1 DEF KeyInv, KeyOK, KeyWaits, Void
<1> QED
  BY <1>5, <1>6, <1>7, <1>8 DEF Inv

\* Each operation of a program and of the kernel keeps the invariant.
LEMMA NextInv == Inv /\ [Next]_vars => Inv'
<1> SUFFICES ASSUME Inv, [Next]_vars PROVE Inv'
  OBVIOUS
<1>1. CASE UNCHANGED vars
  BY <1>1, SameInv DEF vars, procVars, actVars, countVars
<1>2. CASE Program
  <2>1. PICK p \in Proc :
          \/ ReturnResume(p) \/ ReturnNone(p) \/ SleepCall(p) \/ PrepareKey(p)
          \/ SendResume(p) \/ MakeResumeKeySelf(p) \/ ReturnMakeResumeKey(p)
          \/ CallResume(p) \/ SendMakeResumeKey(p)
          \/ \E q \in Proc :
               \/ CallStart(p, q) \/ StallOn(p, q) \/ ReturnStart(p, q)
               \/ LoadProcess(p, q) \/ PrepareProcess(p, q)
               \/ SendStart(p, q) \/ MakeResumeKey(p, q)
               \/ Rescind(p, q) \/ FlushSchedule(p, q)
    BY <1>2, Zenon DEF Program
  <2>2. CASE ReturnResume(p)
    BY <2>2, ReturnResumeInv
  <2>3. CASE ReturnNone(p)
    BY <2>3, ReturnNoneInv
  <2>4. CASE SleepCall(p)
    BY <2>4, SleepCallInv
  <2>5. CASE PrepareKey(p)
    BY <2>5, PrepareKeyInv
  <2>6. CASE SendResume(p)
    BY <2>6, SendResumeInv
  <2>7. CASE MakeResumeKeySelf(p)
    BY <2>7, MakeResumeKeySelfInv
  <2>8. CASE ReturnMakeResumeKey(p)
    BY <2>8, ReturnMakeResumeKeyInv
  <2>9. ASSUME NEW q \in Proc, CallStart(p, q) PROVE Inv'
    BY <2>9, CallStartInv
  <2>10. ASSUME NEW q \in Proc, StallOn(p, q) PROVE Inv'
    BY <2>10, StallOnInv
  <2>11. ASSUME NEW q \in Proc, ReturnStart(p, q) PROVE Inv'
    BY <2>11, ReturnStartInv
  <2>12. ASSUME NEW q \in Proc, LoadProcess(p, q) PROVE Inv'
    BY <2>12, LoadProcessInv
  <2>13. ASSUME NEW q \in Proc, PrepareProcess(p, q) PROVE Inv'
    BY <2>13, PrepareProcessInv
  <2>14. ASSUME NEW q \in Proc, SendStart(p, q) PROVE Inv'
    BY <2>14, SendStartInv
  <2>15. ASSUME NEW q \in Proc, MakeResumeKey(p, q) PROVE Inv'
    BY <2>15, MakeResumeKeyInv
  <2>16. ASSUME NEW q \in Proc, Rescind(p, q) PROVE Inv'
    BY <2>16, RescindInv
  <2>17. ASSUME NEW q \in Proc, FlushSchedule(p, q) PROVE Inv'
    BY <2>17, FlushScheduleInv
  <2>18. CASE CallResume(p)
    BY <2>18, CallResumeInv
  <2>19. CASE SendMakeResumeKey(p)
    BY <2>19, SendMakeResumeKeyInv
  <2> QED
    BY <2>1, <2>2, <2>3, <2>4, <2>5, <2>6, <2>7, <2>8, <2>9, <2>10, <2>11, <2>12,
       <2>13, <2>14, <2>15, <2>16, <2>17, <2>18, <2>19, Zenon
<1>3. CASE Kernel
  <2>1. ASSUME NEW q \in Proc, UnprepareKey(q) PROVE Inv'
    BY <2>1, UnprepareKeyInv
  <2>2. ASSUME NEW q \in Proc, Unload(q) PROVE Inv'
    BY <2>2, UnloadInv
  <2>3. ASSUME NEW a \in Activity, Timer(a) PROVE Inv'
    BY <2>3, TimerInv
  <2>4. CASE Preempt
    BY <2>4, PreemptInv
  <2>5. CASE PrepareCurrent
    BY <2>5, PrepareCurrentInv
  <2>6. CASE Dispatch
    BY <2>6, DispatchInv
  <2>7. CASE DispatchYields
    BY <2>7, DispatchYieldsInv
  <2> QED
    BY <1>3, <2>1, <2>2, <2>3, <2>4, <2>5, <2>6, <2>7, Zenon DEF Kernel
<1> QED
  BY <1>1, <1>2, <1>3, Zenon DEF Next

\* The invariant holds in every reachable state.
LEMMA InvAlways == Spec => []Inv
BY InitInv, NextInv, PTL DEF Spec

-----------------------------------------------------------------------------
(* What the invariant says.                                                  *)

\* A process has at most one Activity, whether or not it is in core, and the
\* Process and the Activity point to each other, whatever is called, sent,
\* rescinded or unloaded between: ValidateAllActivitys never fails.
THEOREM OneActivityCorrect == Spec => []OneActivityEach
<1>1. ASSUME Inv PROVE OneActivityEach
  <2>1. TypeInv /\ ActInv
    BY <1>1 DEF Inv
  <2>2. \A a, b \in Activity \ Free : act[a].of = act[b].of => a = b
    BY <2>1 DEF ActInv, ActOK, Free
  <2>3. ASSUME NEW a \in Activity, NEW p \in Proc
        PROVE  (curActivity[p] = a) <=> (act[a].hasProcess /\ act[a].of = p)
    <3>1. curActivity[p] = a => act[a].hasProcess /\ act[a].of = p
      BY <2>1, ConstantsAssumption DEF ActInv, ProcOK
    <3>2. act[a].hasProcess /\ act[a].of = p => curActivity[p] = a
      BY <2>1, ConstantsAssumption DEF ActInv, ActOK
    <3> QED
      BY <3>1, <3>2
  <2> QED
    BY <2>2, <2>3 DEF OneActivityEach
<1> QED
  BY <1>1, InvAlways, PTL

\* The run state of each process is the one that its Activity says, and each
\* Activity is on the one queue that its own state says, once.
THEOREM StatesCorrect == Spec => []StatesAgree
<1>1. ASSUME Inv PROVE StatesAgree
  <2>1. TypeInv /\ ActInv /\ QueueInv
    BY <1>1 DEF Inv
  <2>2. \A p \in Proc : (runState[p] = "Running") <=>
          \E a \in Activity : /\ act[a].of = p /\ act[a].haz = "None"
                              /\ act[a].state \in {"Ready", "Running", "Stall"}
    <3> SUFFICES ASSUME NEW p \in Proc
                 PROVE  (runState[p] = "Running") <=>
                          \E a \in Activity : /\ act[a].of = p /\ act[a].haz = "None"
                                              /\ act[a].state \in {"Ready", "Running", "Stall"}
      OBVIOUS
    <3>1. ASSUME runState[p] = "Running"
          PROVE  \E a \in Activity : /\ act[a].of = p /\ act[a].haz = "None"
                                     /\ act[a].state \in {"Ready", "Running", "Stall"}
      <4>1. PICK a \in Activity : act[a].of = p
        BY <2>1, <3>1 DEF ActInv, ProcOK
      <4>2. ActOK(a) /\ p # None
        BY <2>1, ConstantsAssumption DEF ActInv
      <4>3. act[a].haz = "None" /\ act[a].state # "Sleeping" /\ act[a].state # "Free"
        BY <3>1, <4>1, <4>2 DEF ActOK
      <4> QED
        BY <2>1, <4>1, <4>3, Fields
    <3>2. ASSUME NEW a \in Activity, act[a].of = p, act[a].haz = "None",
                 act[a].state \in {"Ready", "Running", "Stall"}
          PROVE  runState[p] = "Running"
      <4>1. ActOK(a) /\ p # None
        BY <2>1, ConstantsAssumption DEF ActInv
      <4> QED
        BY <3>2, <4>1 DEF ActOK
    <3> QED
      BY <3>1, <3>2
  <2>3. \A a \in Activity \ Free :
          /\ act[a].state = "Sleeping" =>
               runState[act[a].of] = "Waiting" /\ act[a].haz = "None"
          /\ runState[act[a].of] # "Available"
    BY <2>1 DEF ActInv, ActOK, Free
  <2>4. \A a \in Activity :
          /\ (act[a].state = "Running") <=> (cur = a)
          /\ (act[a].state = "Ready") <=> (a \in Elements(readyQ))
          /\ (act[a].state = "Stall") <=> \E q \in Proc : a \in Elements(stallQ[q])
    BY <2>1, Zenon DEF ActInv, ActOK, QueueInv, Lists
  <2>5. Len(readyQ) = Cardinality(Elements(readyQ))
    <3>1. Lists(readyQ, Elements(readyQ))
      BY <2>1 DEF QueueInv, Lists
    <3> QED
      BY <3>1, ListsLen
  <2> QED
    BY <2>2, <2>3, <2>4, <2>5 DEF StatesAgree
<1> QED
  BY <1>1, InvAlways, PTL

\* A Resume capability that fits its process was made for the wait that the
\* process is in, and one made for that wait still fits.
THEOREM ResumeKeysCorrect == Spec => []ResumeKeysExact
<1>1. ASSUME Inv PROVE ResumeKeysExact
  <2> SUFFICES ASSUME NEW h \in Proc
               PROVE  /\ Fits(resume[h]) <=> resume[h].live
                      /\ resume[h].live => runState[resume[h].to] = "Waiting"
                      /\ resume[h].prep => ctx[resume[h].to] # "out"
    BY DEF ResumeKeysExact
  <2>1. PICK k : k = resume[h]
    OBVIOUS
  <2>2. KeyOK(k) /\ KeyWaits(k)
    BY <1>1, <2>1 DEF Inv, KeyInv
  <2>3. Fits(k) <=> k.live
    BY <2>2 DEF KeyOK, Fits, Void
  <2> QED
    BY <2>1, <2>2, <2>3 DEF KeyWaits, Waits
<1> QED
  BY <1>1, InvAlways, PTL

\* Nobody is left on the stall queue of a process that could take the message,
\* or that is no longer in core.
THEOREM NoLostWakeUpCorrect == Spec => []NoLostWakeUp
<1>1. Inv => NoLostWakeUp
  BY DEF Inv, QueueInv
<1> QED
  BY <1>1, InvAlways, PTL


=============================================================================
