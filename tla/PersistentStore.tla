--------------------------- MODULE PersistentStore ---------------------------
(* What the checkpoint mechanism of the kernel promises to the persistent    *)
(* objects, whatever the disk, the cache and the log do: execution proceeds  *)
(* on one current state; a demarcation event fixes an instantaneous picture  *)
(* of all the objects at once; when the checkpoint stabilizes, that picture  *)
(* replaces the previous one; and a restart resumes from one whole picture,  *)
(* never from a mixture and never from one older than the last stabilized.   *)
(* What the kernel does to some objects behind the checkpoint's back is said *)
(* too: such an object is forsaken, and until the next restart nothing is    *)
(* promised of it.                                                           *)
EXTENDS Integers

CONSTANTS
    Object,      \* the OIDs of the persistent objects
    Value,       \* what an object may contain
    NoPicture    \* no demarcation event is being stabilized

VARIABLES
    current,     \* [Object -> Value], what the processes see
    pending,     \* the picture taken by the active checkpoint, or NoPicture
    committed,   \* the picture a restart is guaranteed to find
    forsaken     \* objects of which it is not guaranteed

vars == <<current, pending, committed, forsaken>>

State == [Object -> Value]

TypeOK ==
    /\ current \in State
    /\ pending \in State \cup {NoPicture}
    /\ committed \in State
    /\ forsaken \subseteq Object

Init ==
    /\ current \in State
    /\ pending = NoPicture
    /\ committed = current
    /\ forsaken = {}

\* A process stores into one object.
Write(o, v) ==
    /\ current' = [current EXCEPT ![o] = v]
    /\ UNCHANGED <<pending, committed, forsaken>>

\* The kernel does to the objects F what no checkpoint will save as it should;
\* a store may be part of it. Of the objects forsaken nothing is promised.
Forsake(F, o, v) ==
    /\ forsaken' = forsaken \cup F
    /\ current' \in State
    /\ \A q \in Object \ forsaken' : current'[q] = IF q = o THEN v ELSE current[q]
    /\ UNCHANGED <<pending, committed>>

\* The moment of demarcation: all the objects are caught at once.
Demarcate ==
    /\ pending = NoPicture
    /\ pending' = current
    /\ UNCHANGED <<current, committed, forsaken>>

\* The checkpoint is stabilized.
Stabilize ==
    /\ pending # NoPicture
    /\ committed' = pending
    /\ pending' = NoPicture
    /\ UNCHANGED <<current, forsaken>>

\* The machine stops and restarts. The checkpoint in progress, if there is
\* one, is either all there or not there at all.
Restart ==
    /\ current' \in State
    /\ \E picture \in {committed, pending} \ {NoPicture} :
         \A o \in Object \ forsaken : current'[o] = picture[o]
    /\ committed' = current'
    /\ pending' = NoPicture
    /\ forsaken' = {}

Next ==
    \/ \E o \in Object, v \in Value : Write(o, v)
    \/ \E F \in SUBSET Object, o \in Object, v \in Value : Forsake(F, o, v)
    \/ Demarcate
    \/ Stabilize
    \/ Restart

Spec == Init /\ [][Next]_vars
=============================================================================
