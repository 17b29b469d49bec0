------------------------- MODULE CapabilitiesProofs -------------------------
(* Theorems about module Capabilities, for any number of holders, any count  *)
(* and any number of demarcations and restarts: a capability designates the  *)
(* object until it is rescinded and never again (AuthorityExact), a restart  *)
(* gives nobody a capability it did not have (RestartGivesNoMore), and the   *)
(* two invariants the kernel relies on for that, of OFLG_AllocCntUsed        *)
(* (CountUsedExact) and of CkptRoot.maxNPCount (NPCountBound).               *)
(*                                                                           *)
(* None of them is inductive: each relies on what cannot be seen in core at  *)
(* the moment, the capabilities and the count on disk, in the checkpoint     *)
(* being written and in the one the system would be restarted from. CapInv   *)
(* says how those agree with what is in core.                                *)
EXTENDS Capabilities, TLAPS

-----------------------------------------------------------------------------
(* The inductive invariant.                                                  *)

\* A key that was written is not prepared; only keys in core are, and only
\* while the object is in core too.
StoredKey(k) == k = Void \/ k.type = "unprepared"

KeysWellFormed ==
    /\ \A h \in Holder : StoredKey(slot[h]) \/ slot[h] = Prepared
    /\ \A h \in Holder : slot[h] = Prepared => ObjInCore
    /\ \A h \in Holder : ~InCore(h) => slot[h] = Void
    /\ \A h \in PHolder : StoredKey(disk.slot[h])
    /\ \A h \in PHolder : StoredKey(image.version.slot[h])

\* No capability to a non-persistent object, wherever it is, has a count that
\* maxNPCount or the checkpoint's copy of it does not cover.
NPCounts ==
    ~kind.persistent =>
      /\ count <= maxNPCount
      /\ \A h \in Holder : slot[h].count <= maxNPCount
      /\ \A h \in PHolder : disk.slot[h].count <= maxNPCount
      /\ \A h \in PHolder : image.version.slot[h].count <= image.np

\* No capability has a count that the object is still to get.
CountsPast ==
    /\ \A h \in Holder : slot[h].count <= GetObjectCount
    /\ \A h \in PHolder : disk.slot[h].count <= GetObjectCount

\* What is clean agrees with the disk, a key in what it designates.
CleanAgrees ==
    /\ objAt = "clean" => disk.count = count /\ disk.blank = blank
    /\ \A h \in Holder :
         at[h] = "clean" => (Fits(slot[h]) <=> Fits(disk.slot[h]))

\* Nobody designates an object that is still to be initialized.
CurrentBlank == IF ObjInCore THEN blank ELSE disk.blank
BlankUnheld == CurrentBlank => \A h \in Holder : ~Designates(h)

\* What the checkpoint being written will hold of the object and of a holder.
CkptCount == IF objAt = "kro" THEN count ELSE disk.count
CkptBlank == IF objAt = "kro" THEN blank ELSE disk.blank
CkptKey(h) == IF at[h] = "kro" THEN slot[h] ELSE disk.slot[h]
CkptFits(h) == CkptKey(h) = Prepared \/ CkptKey(h) = Unprepared(CkptCount)

\* That checkpoint is sound: a key in it that designates the object was held
\* at the demarcation. A key that is still prepared will be given the count the
\* object has then, so that must be the checkpoint's.
CkptSound ==
    active /\ kind.persistent =>
      /\ CkptCount <= GetObjectCount
      /\ \A h \in PHolder :
           /\ CkptKey(h).count <= CkptCount
           /\ CkptKey(h) = Prepared => CkptCount = GetObjectCount
           /\ CkptFits(h) => h \in demarc /\ ~CkptBlank

\* The same of the checkpoint that the system would be restarted from.
ImageSound ==
    kind.persistent =>
      \A h \in PHolder :
        /\ image.version.slot[h].count <= image.version.count
        /\ image.version.slot[h] = Unprepared(image.version.count) =>
             h \in image.held /\ ~image.version.blank

GptInv ==
    kind.type = "gpt" =>
      /\ CountsPast
      /\ CleanAgrees
      /\ BlankUnheld
      /\ CkptSound
      /\ ImageSound

CapInv ==
    /\ CapTypeOK
    /\ KeysWellFormed
    /\ NPCounts
    /\ GptInv
    /\ CountUsedExact

-----------------------------------------------------------------------------
(* Each action preserves the invariant.                                      *)

\* The kind of the object is one of Kind, so that its fields are known.
LEMMA KindType ==
    ASSUME CapTypeOK
    PROVE  kind \in [type : {"node", "page", "gpt"}, persistent : BOOLEAN]
  BY ConstantsAssumption DEF CapTypeOK, Kind

\* What cleaning a holder makes of the version on disk.
LEMMA VersionSlot ==
    ASSUME NEW v \in Version, NEW h \in PHolder, NEW k \in Key
    PROVE  /\ [v EXCEPT !.slot[h] = k] \in Version
           /\ [v EXCEPT !.slot[h] = k] =
                [slot |-> [v.slot EXCEPT ![h] = k], count |-> v.count,
                 blank |-> v.blank]
<1>1. [v EXCEPT !.slot[h] = k] =
        [slot |-> [v.slot EXCEPT ![h] = k], count |-> v.count, blank |-> v.blank]
  BY DEF Version
<1>2. QED
  BY <1>1 DEF Version

\* getCap of a node or a page.
LEMMA GetCapStep ==
    ASSUME CapInv, NEW h \in Holder, GetCap(h)
    PROVE  CapInv'
<1> USE DEF CapInv, CapTypeOK, Key, Location, PHolder, InCore, ObjInCore, Void,
            Prepared, Unprepared, KeysWellFormed, StoredKey, objVars, ckptVars,
            GetCap, Put, Writable, GetObjectCount
<1>1. CapTypeOK'
  BY DEF Version
<1>2. KeysWellFormed'
  BY DEF Version
<1>3. NPCounts'
  BY DEF NPCounts, Version
<1>4. ASSUME kind.type = "gpt"
      PROVE  CountsPast'
  BY <1>4 DEF CountsPast, GptInv, GetObjectCount, Version
<1>5. ASSUME kind.type = "gpt"
      PROVE  CleanAgrees'
  BY <1>5 DEF CleanAgrees, GptInv, GetObjectCount, Fits, Version
<1>6. ASSUME kind.type = "gpt"
      PROVE  BlankUnheld'
  BY <1>6 DEF BlankUnheld, GptInv, GetObjectCount, Fits, Designates,
            Current, CurrentBlank, Version
<1>7. ASSUME kind.type = "gpt"
      PROVE  CkptSound'
  BY <1>7 DEF CkptSound, GptInv, GetObjectCount, CkptCount, CkptKey, CkptFits,
            CkptBlank, Version
<1>8. ASSUME kind.type = "gpt"
      PROVE  ImageSound'
  BY <1>8 DEF ImageSound, GptInv, Version
<1>9. CountUsedExact'
  BY DEF CountUsedExact, Version
<1>10. QED
  BY <1>1, <1>2, <1>3, <1>4, <1>5, <1>6, <1>7, <1>8, <1>9 DEF GptInv

\* getCap of a forwarder or a GPT.
LEMMA GetCapInitializedStep ==
    ASSUME CapInv, NEW h \in Holder, GetCapInitialized(h)
    PROVE  CapInv'
<1> USE DEF CapInv, CapTypeOK, Key, Location, PHolder, InCore, ObjInCore, Void,
            Prepared, Unprepared, KeysWellFormed, StoredKey, objVars, ckptVars,
            GetCapInitialized, Put, Writable
<1>1. CapTypeOK'
  <2>1. blank \in BOOLEAN /\ blank' \in BOOLEAN
    OBVIOUS
  <2>2. objAt' \in Location /\ (~kind.persistent => objAt' = "dirty")
    OBVIOUS
  <2>3. QED
    BY <2>1, <2>2 DEF Version
<1>2. KeysWellFormed'
  BY DEF Version
<1>3. NPCounts'
  BY DEF NPCounts, Version
<1>4. ASSUME kind.type = "gpt"
      PROVE  CountsPast'
  BY <1>4 DEF CountsPast, GptInv, GetObjectCount, Version
<1>5. ASSUME kind.type = "gpt"
      PROVE  CleanAgrees'
  BY <1>5 DEF CleanAgrees, GptInv, GetObjectCount, Fits, Version
<1>6. ASSUME kind.type = "gpt"
      PROVE  BlankUnheld'
  BY <1>6 DEF BlankUnheld, GptInv, GetObjectCount, Fits, Designates,
            Current, CurrentBlank, Version
<1>7. ASSUME kind.type = "gpt"
      PROVE  CkptSound'
  BY <1>7 DEF CkptSound, GptInv, GetObjectCount, CkptCount, CkptKey, CkptFits,
            CkptBlank, Version
<1>8. ASSUME kind.type = "gpt"
      PROVE  ImageSound'
  BY <1>8 DEF ImageSound, GptInv, Version
<1>9. CountUsedExact'
  BY DEF CountUsedExact, Version
<1>10. QED
  BY <1>1, <1>2, <1>3, <1>4, <1>5, <1>6, <1>7, <1>8, <1>9 DEF GptInv

\* A capability is copied from one slot to another.
LEMMA CopyStep ==
    ASSUME CapInv, NEW g \in Holder, NEW h \in Holder, Copy(g, h)
    PROVE  CapInv'
<1> USE DEF CapInv, CapTypeOK, Key, Location, PHolder, InCore, ObjInCore, Void,
            Prepared, Unprepared, KeysWellFormed, StoredKey, objVars, ckptVars,
            Copy, Put, Writable
<1>1. CapTypeOK'
  BY DEF Version
<1>2. KeysWellFormed'
  BY DEF Version
<1>3. NPCounts'
  BY DEF NPCounts, Version
<1>4. ASSUME kind.type = "gpt"
      PROVE  CountsPast'
  BY <1>4 DEF CountsPast, GptInv, GetObjectCount, Version
<1>5. ASSUME kind.type = "gpt"
      PROVE  CleanAgrees'
  BY <1>5 DEF CleanAgrees, GptInv, GetObjectCount, Fits, Version
<1>6. ASSUME kind.type = "gpt"
      PROVE  BlankUnheld'
  BY <1>6 DEF BlankUnheld, GptInv, GetObjectCount, Fits, Designates,
            Current, CurrentBlank, Version
<1>7. ASSUME kind.type = "gpt"
      PROVE  CkptSound'
  BY <1>7 DEF CkptSound, GptInv, GetObjectCount, CkptCount, CkptKey, CkptFits,
            CkptBlank, Version
<1>8. ASSUME kind.type = "gpt"
      PROVE  ImageSound'
  BY <1>8 DEF ImageSound, GptInv, Version
<1>9. CountUsedExact'
  BY DEF CountUsedExact, Version
<1>10. QED
  BY <1>1, <1>2, <1>3, <1>4, <1>5, <1>6, <1>7, <1>8, <1>9 DEF GptInv

\* A capability is prepared, or found to be void.
LEMMA DoPrepareStep ==
    ASSUME CapInv, NEW h \in Holder, DoPrepare(h)
    PROVE  CapInv'
<1> USE DEF CapInv, CapTypeOK, Key, Location, PHolder, InCore, ObjInCore, Void,
            Prepared, Unprepared, KeysWellFormed, StoredKey, objVars, ckptVars,
            DoPrepare, Fits, GetObjectCount
<1>1. CapTypeOK'
  BY DEF Version
<1>2. KeysWellFormed'
  BY DEF Version
<1>3. NPCounts'
  BY DEF NPCounts, Version
<1>4. ASSUME kind.type = "gpt"
      PROVE  CountsPast'
  BY <1>4 DEF CountsPast, GptInv, GetObjectCount, Version
<1>5. ASSUME kind.type = "gpt"
      PROVE  CleanAgrees'
  BY <1>5 DEF CleanAgrees, GptInv, GetObjectCount, Fits, Version
<1>6. ASSUME kind.type = "gpt"
      PROVE  BlankUnheld'
  BY <1>6 DEF BlankUnheld, GptInv, GetObjectCount, Fits, Designates,
            Current, CurrentBlank, Version
<1>7. ASSUME kind.type = "gpt"
      PROVE  CkptSound'
  <2>1. CkptSound
    BY <1>7 DEF GptInv
  <2>2. SUFFICES ASSUME active, kind.persistent, NEW g \in PHolder
                 PROVE  /\ CkptKey(g)'.count <= CkptCount
                        /\ CkptKey(g)' = Prepared => CkptCount = GetObjectCount
                        /\ CkptFits(g)' => g \in demarc /\ ~CkptBlank
    BY <2>1 DEF CkptSound, CkptCount, CkptBlank
  <2>3. CASE g # h \/ at[g] # "kro"
    <3>1. CkptKey(g)' = CkptKey(g)
      BY <2>3 DEF CkptKey
    <3>2. QED
      BY <2>1, <2>2, <3>1 DEF CkptSound, CkptFits, CkptCount
  <2>4. CASE g = h /\ at[g] = "kro"
    <3>1. CkptKey(g) = slot[h] /\ CkptKey(g)' = slot'[h]
      BY <2>4 DEF CkptKey
    <3>2. CASE Fits(slot[h])
      <4>1. slot[h].count = GetObjectCount /\ slot'[h] = Prepared
        BY <3>2
      <4>2. CkptCount = GetObjectCount
        <5>1. GetObjectCount <= CkptCount /\ CkptCount <= GetObjectCount
          BY <2>1, <2>2, <3>1, <4>1 DEF CkptSound
        <5>2. GetObjectCount \in Nat /\ CkptCount \in Nat
          BY DEF CkptCount, Version
        <5> HIDE DEF GetObjectCount
        <5>3. QED
          BY <5>1, <5>2
      <4>3. CkptFits(g)
        BY <3>1, <3>2, <4>2 DEF CkptFits
      <4>4. QED
        BY <2>1, <2>2, <3>1, <4>1, <4>2, <4>3 DEF CkptSound, CkptCount, Version
    <3>3. CASE ~Fits(slot[h])
      BY <2>2, <3>1, <3>3 DEF CkptFits, CkptCount, Version
    <3>4. QED
      BY <3>2, <3>3
  <2>5. QED
    BY <2>3, <2>4
<1>8. ASSUME kind.type = "gpt"
      PROVE  ImageSound'
  BY <1>8 DEF ImageSound, GptInv, Version
<1>9. CountUsedExact'
  BY DEF CountUsedExact, Version
<1>10. QED
  BY <1>1, <1>2, <1>3, <1>4, <1>5, <1>6, <1>7, <1>8, <1>9 DEF GptInv

\* The object is written through a capability.
LEMMA WriteStep ==
    ASSUME CapInv, Write
    PROVE  CapInv'
<1> USE DEF CapInv, CapTypeOK, Key, Location, PHolder, InCore, ObjInCore, Void,
            Prepared, Unprepared, KeysWellFormed, StoredKey, objVars, ckptVars,
            Write, KeyRing, Writable
<1>1. CapTypeOK'
  BY DEF Version
<1>2. KeysWellFormed'
  BY DEF Version
<1>3. NPCounts'
  BY DEF NPCounts, Version
<1>4. ASSUME kind.type = "gpt"
      PROVE  CountsPast'
  BY <1>4 DEF CountsPast, GptInv, GetObjectCount, Version
<1>5. ASSUME kind.type = "gpt"
      PROVE  CleanAgrees'
  BY <1>5 DEF CleanAgrees, GptInv, GetObjectCount, Fits, Version
<1>6. ASSUME kind.type = "gpt"
      PROVE  BlankUnheld'
  BY <1>6 DEF BlankUnheld, GptInv, GetObjectCount, Fits, Designates,
            Current, CurrentBlank, Version
<1>7. ASSUME kind.type = "gpt"
      PROVE  CkptSound'
  BY <1>7 DEF CkptSound, GptInv, GetObjectCount, CkptCount, CkptKey, CkptFits,
            CkptBlank, Version
<1>8. ASSUME kind.type = "gpt"
      PROVE  ImageSound'
  BY <1>8 DEF ImageSound, GptInv, Version
<1>9. CountUsedExact'
  BY DEF CountUsedExact, Version
<1>10. QED
  BY <1>1, <1>2, <1>3, <1>4, <1>5, <1>6, <1>7, <1>8, <1>9 DEF GptInv

\* The object is rescinded.
LEMMA RescindStep ==
    ASSUME CapInv, Rescind
    PROVE  CapInv'
<1> USE DEF CapInv, CapTypeOK, Key, Location, PHolder, InCore, ObjInCore, Void,
            Prepared, Unprepared, KeysWellFormed, StoredKey, objVars, ckptVars,
            Rescind, KeyRing, RescindedCount, TrackedCount, Writable
<1>1. CapTypeOK'
  <2>1. RescindedCount \in Nat
    OBVIOUS
  <2>2. TrackedCount \in Nat
    BY <2>1
  <2>3. /\ slot' \in [Holder -> Key] /\ count' \in Nat /\ maxNPCount' \in Nat
        /\ used' \in BOOLEAN /\ blank' \in BOOLEAN /\ objAt' = "dirty"
    BY <2>1, <2>2
  <2>4. QED
    BY <2>3
<1>2. KeysWellFormed'
  BY DEF Version
<1>3. NPCounts'
  BY DEF NPCounts, Version
<1>4. ASSUME kind.type = "gpt"
      PROVE  CountsPast'
  BY <1>4 DEF CountsPast, GptInv, GetObjectCount, Version
<1>5. ASSUME kind.type = "gpt"
      PROVE  CleanAgrees'
  BY <1>5 DEF CleanAgrees, CountsPast, CountUsedExact, GptInv, GetObjectCount,
            Fits, Version
<1>6. ASSUME kind.type = "gpt"
      PROVE  BlankUnheld'
  BY <1>6 DEF BlankUnheld, CountsPast, CountUsedExact, GptInv, GetObjectCount,
            Fits, Designates, Current, CurrentBlank, Version
<1>7. ASSUME kind.type = "gpt"
      PROVE  CkptSound'
  BY <1>7 DEF CkptSound, GptInv, GetObjectCount, CkptCount, CkptKey, CkptFits,
            CkptBlank, Version
<1>8. ASSUME kind.type = "gpt"
      PROVE  ImageSound'
  BY <1>8 DEF ImageSound, GptInv, Version
<1>9. CountUsedExact'
  <2>1. SUFFICES ASSUME kind.type = "gpt", NEW h \in Holder
                 PROVE  /\ slot'[h] # Unprepared(count')
                        /\ at[h] \in {"out", "clean"} =>
                             disk.slot[h] # Unprepared(count')
    BY DEF CountUsedExact
  <2>2. CASE used
    BY <2>1, <2>2 DEF CountsPast, GptInv, GetObjectCount, Version
  <2>3. CASE ~used
    BY <2>1, <2>3 DEF CountUsedExact
  <2>4. QED
    BY <2>2, <2>3
<1>10. QED
  BY <1>1, <1>2, <1>3, <1>4, <1>5, <1>6, <1>7, <1>8, <1>9 DEF GptInv

\* The frame of the object is released.
LEMMA ReleaseObjectStep ==
    ASSUME CapInv, ReleaseObject
    PROVE  CapInv'
<1> USE DEF CapInv, CapTypeOK, Key, Location, PHolder, InCore, ObjInCore, Void,
            Prepared, Unprepared, KeysWellFormed, StoredKey, objVars, ckptVars,
            ReleaseObject, MakeUnpreparedCopy
<1>1. CapTypeOK'
  BY DEF Version
<1>2. KeysWellFormed'
  BY DEF Version
<1>3. NPCounts'
  BY DEF NPCounts, Version
<1>4. ASSUME kind.type = "gpt"
      PROVE  CountsPast'
  BY <1>4 DEF CountsPast, CleanAgrees, GptInv, GetObjectCount, Version
<1>5. ASSUME kind.type = "gpt"
      PROVE  CleanAgrees'
  BY <1>5 DEF CleanAgrees, GptInv, GetObjectCount, Fits, Version
<1>6. ASSUME kind.type = "gpt"
      PROVE  BlankUnheld'
  BY <1>6 DEF BlankUnheld, CleanAgrees, GptInv, GetObjectCount, Fits, Designates,
            Current, CurrentBlank, Version
<1>7. ASSUME kind.type = "gpt"
      PROVE  CkptSound'
  BY <1>7 DEF CkptSound, GptInv, GetObjectCount, CkptCount, CkptKey, CkptFits,
            CkptBlank, Version
<1>8. ASSUME kind.type = "gpt"
      PROVE  ImageSound'
  BY <1>8 DEF ImageSound, GptInv, Version
<1>9. CountUsedExact'
  BY DEF CountUsedExact, Version
<1>10. QED
  BY <1>1, <1>2, <1>3, <1>4, <1>5, <1>6, <1>7, <1>8, <1>9 DEF GptInv

\* The frame of a holder is released.
LEMMA ReleaseHolderStep ==
    ASSUME CapInv, NEW h \in Holder, ReleaseHolder(h)
    PROVE  CapInv'
<1> USE DEF CapInv, CapTypeOK, Key, Location, PHolder, InCore, ObjInCore, Void,
            Prepared, Unprepared, KeysWellFormed, StoredKey, objVars, ckptVars,
            ReleaseHolder, SetsUsed
<1>1. CapTypeOK'
  BY DEF Version
<1>2. KeysWellFormed'
  BY DEF Version
<1>3. NPCounts'
  BY DEF NPCounts, Version
<1>4. ASSUME kind.type = "gpt"
      PROVE  CountsPast'
  BY <1>4 DEF CountsPast, GptInv, GetObjectCount, Version
<1>5. ASSUME kind.type = "gpt"
      PROVE  CleanAgrees'
  BY <1>5 DEF CleanAgrees, GptInv, GetObjectCount, Fits, Version
<1>6. ASSUME kind.type = "gpt"
      PROVE  BlankUnheld'
  BY <1>6 DEF BlankUnheld, CleanAgrees, GptInv, GetObjectCount, Fits, Designates,
            Current, CurrentBlank, Version
<1>7. ASSUME kind.type = "gpt"
      PROVE  CkptSound'
  BY <1>7 DEF CkptSound, GptInv, GetObjectCount, CkptCount, CkptKey, CkptFits,
            CkptBlank, Version
<1>8. ASSUME kind.type = "gpt"
      PROVE  ImageSound'
  BY <1>8 DEF ImageSound, GptInv, Version
<1>9. CountUsedExact'
  BY DEF CountUsedExact, Version
<1>10. QED
  BY <1>1, <1>2, <1>3, <1>4, <1>5, <1>6, <1>7, <1>8, <1>9 DEF GptInv

\* The object is fetched.
LEMMA FetchObjectStep ==
    ASSUME CapInv, FetchObject
    PROVE  CapInv'
<1> USE DEF CapInv, CapTypeOK, Key, Location, PHolder, InCore, ObjInCore, Void,
            Prepared, Unprepared, KeysWellFormed, StoredKey, objVars, ckptVars,
            FetchObject, FetchedUsed, FetchedCount
<1>1. CapTypeOK'
  BY KindType DEF Version
<1>2. KeysWellFormed'
  BY DEF Version
<1>3. NPCounts'
  BY DEF NPCounts, Version
<1>4. ASSUME kind.type = "gpt"
      PROVE  CountsPast'
  BY <1>4 DEF CountsPast, GptInv, GetObjectCount, Version
<1>5. ASSUME kind.type = "gpt"
      PROVE  CleanAgrees'
  BY <1>5 DEF CleanAgrees, GptInv, GetObjectCount, Fits, Version
<1>6. ASSUME kind.type = "gpt"
      PROVE  BlankUnheld'
  BY <1>6 DEF BlankUnheld, GptInv, GetObjectCount, Fits, Designates,
            Current, CurrentBlank, Version
<1>7. ASSUME kind.type = "gpt"
      PROVE  CkptSound'
  BY <1>7 DEF CkptSound, GptInv, GetObjectCount, CkptCount, CkptKey, CkptFits,
            CkptBlank, Version
<1>8. ASSUME kind.type = "gpt"
      PROVE  ImageSound'
  BY <1>8 DEF ImageSound, GptInv, Version
<1>9. CountUsedExact'
  <2>1. SUFFICES ASSUME kind.type = "gpt", ~used', NEW h \in Holder
                 PROVE  /\ slot[h] # Unprepared(count')
                        /\ at[h] \in {"out", "clean"} =>
                             disk.slot[h] # Unprepared(count')
    BY DEF CountUsedExact
  <2>2. disk.blank /\ count' = disk.count
    BY <2>1
  <2>3. ~Designates(h) /\ (at[h] = "clean" => ~Fits(disk.slot[h]))
    BY <2>1, <2>2 DEF BlankUnheld, CleanAgrees, GptInv, CurrentBlank, Designates,
            Current
  <2>4. QED
    BY <2>2, <2>3 DEF Designates, Current, Fits, GetObjectCount
<1>10. QED
  BY <1>1, <1>2, <1>3, <1>4, <1>5, <1>6, <1>7, <1>8, <1>9 DEF GptInv

\* A holder is fetched.
LEMMA FetchHolderStep ==
    ASSUME CapInv, NEW h \in Holder, FetchHolder(h)
    PROVE  CapInv'
<1> USE DEF CapInv, CapTypeOK, Key, Location, PHolder, InCore, ObjInCore, Void,
            Prepared, Unprepared, KeysWellFormed, StoredKey, objVars, ckptVars,
            FetchHolder
<1>1. CapTypeOK'
  BY DEF Version
<1>2. KeysWellFormed'
  BY DEF Version
<1>3. NPCounts'
  BY DEF NPCounts, Version
<1>4. ASSUME kind.type = "gpt"
      PROVE  CountsPast'
  BY <1>4 DEF CountsPast, GptInv, GetObjectCount, Version
<1>5. ASSUME kind.type = "gpt"
      PROVE  CleanAgrees'
  BY <1>5 DEF CleanAgrees, GptInv, GetObjectCount, Fits, Version
<1>6. ASSUME kind.type = "gpt"
      PROVE  BlankUnheld'
  BY <1>6 DEF BlankUnheld, GptInv, GetObjectCount, Fits, Designates,
            Current, CurrentBlank, Version
<1>7. ASSUME kind.type = "gpt"
      PROVE  CkptSound'
  BY <1>7 DEF CkptSound, GptInv, GetObjectCount, CkptCount, CkptKey, CkptFits,
            CkptBlank, Version
<1>8. ASSUME kind.type = "gpt"
      PROVE  ImageSound'
  BY <1>8 DEF ImageSound, GptInv, Version
<1>9. CountUsedExact'
  BY DEF CountUsedExact, Version
<1>10. QED
  BY <1>1, <1>2, <1>3, <1>4, <1>5, <1>6, <1>7, <1>8, <1>9 DEF GptInv

\* A holder is cleaned.
LEMMA CleanHolderStep ==
    ASSUME CapInv, NEW h \in Holder, CleanHolder(h)
    PROVE  CapInv'
<1> USE DEF CapInv, CapTypeOK, Key, Location, PHolder, InCore, ObjInCore, Void,
            Prepared, Unprepared, KeysWellFormed, StoredKey, objVars, ckptVars,
            MakeUnpreparedCopy, SetsUsed, Cleanable
<1>1. /\ h \in PHolder /\ Cleanable(at[h])
      /\ disk' = [slot |-> [disk.slot EXCEPT ![h] = MakeUnpreparedCopy(slot[h])],
                  count |-> disk.count, blank |-> disk.blank]
      /\ disk' \in Version
      /\ used' = (used \/ SetsUsed(slot[h]))
      /\ at' = [at EXCEPT ![h] = "clean"]
      /\ UNCHANGED <<kind, slot, objAt, count, blank, ckptVars>>
  <2>1. /\ MakeUnpreparedCopy(slot[h]) \in Key
        /\ h \in PHolder /\ disk \in Version
    BY DEF CleanHolder
  <2>2. QED
    BY <2>1, VersionSlot DEF CleanHolder
<1>2. CapTypeOK'
  BY <1>1 DEF Version
<1>3. KeysWellFormed'
  BY <1>1 DEF Version
<1>4. NPCounts'
  BY <1>1 DEF NPCounts, Version
<1>5. ASSUME kind.type = "gpt"
      PROVE  CountsPast'
  BY <1>1, <1>5 DEF CountsPast, GptInv, GetObjectCount, Version
<1>6. ASSUME kind.type = "gpt"
      PROVE  CleanAgrees'
  BY <1>1, <1>6 DEF CleanAgrees, GptInv, GetObjectCount, Fits, Version
<1>7. ASSUME kind.type = "gpt"
      PROVE  BlankUnheld'
  BY <1>1, <1>7 DEF BlankUnheld, GptInv, GetObjectCount, Fits, Designates,
            Current, CurrentBlank, Version
<1>8. ASSUME kind.type = "gpt"
      PROVE  CkptSound'
  BY <1>1, <1>8 DEF CkptSound, GptInv, GetObjectCount, CkptCount, CkptKey, CkptFits,
            CkptBlank, Version
<1>9. ASSUME kind.type = "gpt"
      PROVE  ImageSound'
  BY <1>1, <1>9 DEF ImageSound, GptInv, Version
<1>10. CountUsedExact'
  <2>1. ~used' => ~used /\ slot[h] # Prepared
    BY <1>1, Zenon
  <2>2. QED
    BY <1>1, <2>1 DEF CountUsedExact, Version
<1>11. QED
  BY <1>1, <1>2, <1>3, <1>4, <1>5, <1>6, <1>7, <1>8, <1>9, <1>10 DEF GptInv

\* The object is cleaned.
LEMMA CleanObjectStep ==
    ASSUME CapInv, CleanObject
    PROVE  CapInv'
<1> USE DEF CapInv, CapTypeOK, Key, Location, PHolder, InCore, ObjInCore, Void,
            Prepared, Unprepared, KeysWellFormed, StoredKey, objVars, ckptVars,
            CleanObject, Cleanable
<1>1. CapTypeOK'
  BY DEF Version
<1>2. KeysWellFormed'
  BY DEF Version
<1>3. NPCounts'
  BY DEF NPCounts, Version
<1>4. ASSUME kind.type = "gpt"
      PROVE  CountsPast'
  BY <1>4 DEF CountsPast, GptInv, GetObjectCount, Version
<1>5. ASSUME kind.type = "gpt"
      PROVE  CleanAgrees'
  BY <1>5 DEF CleanAgrees, GptInv, GetObjectCount, Fits, Version
<1>6. ASSUME kind.type = "gpt"
      PROVE  BlankUnheld'
  BY <1>6 DEF BlankUnheld, GptInv, GetObjectCount, Fits, Designates,
            Current, CurrentBlank, Version
<1>7. ASSUME kind.type = "gpt"
      PROVE  CkptSound'
  BY <1>7 DEF CkptSound, GptInv, GetObjectCount, CkptCount, CkptKey, CkptFits,
            CkptBlank, Version
<1>8. ASSUME kind.type = "gpt"
      PROVE  ImageSound'
  BY <1>8 DEF ImageSound, GptInv, Version
<1>9. CountUsedExact'
  BY DEF CountUsedExact, Version
<1>10. QED
  BY <1>1, <1>2, <1>3, <1>4, <1>5, <1>6, <1>7, <1>8, <1>9 DEF GptInv

\* A checkpoint begins.
LEMMA DemarcationStep ==
    ASSUME CapInv, Demarcation
    PROVE  CapInv'
<1> USE DEF CapInv, CapTypeOK, Key, Location, PHolder, InCore, ObjInCore, Void,
            Prepared, Unprepared, KeysWellFormed, StoredKey, objVars, ckptVars,
            Demarcation, ReadOnly, Designating, Designates, Current
<1>1. CapTypeOK'
  <2>1. /\ at' \in [Holder -> Location]
        /\ \A h \in NPHolder : at'[h] = "dirty"
    BY ConstantsAssumption
  <2>2. objAt' \in Location /\ (~kind.persistent => objAt' = "dirty")
    OBVIOUS
  <2>3. demarc' \subseteq PHolder
    OBVIOUS
  <2>4. QED
    BY <2>1, <2>2, <2>3
<1>2. KeysWellFormed'
  BY DEF Version
<1>3. NPCounts'
  BY DEF NPCounts, Version
<1>4. ASSUME kind.type = "gpt"
      PROVE  CountsPast'
  BY <1>4 DEF CountsPast, GptInv, GetObjectCount, Version
<1>5. ASSUME kind.type = "gpt"
      PROVE  CleanAgrees'
  BY <1>5 DEF CleanAgrees, GptInv, GetObjectCount, Fits, Version
<1>6. ASSUME kind.type = "gpt"
      PROVE  BlankUnheld'
  BY <1>6 DEF BlankUnheld, GptInv, GetObjectCount, Fits, Designates,
            Current, CurrentBlank, Version
<1>7. ASSUME kind.type = "gpt"
      PROVE  CkptSound'
  <2>1. CountsPast /\ CleanAgrees /\ BlankUnheld
    BY <1>7 DEF GptInv
  <2>2. QED
    BY <2>1, <1>7 DEF CountsPast, CleanAgrees, BlankUnheld, CkptSound,
            GetObjectCount, Fits, CurrentBlank, CkptCount, CkptKey, CkptFits,
            CkptBlank, Version
<1>8. ASSUME kind.type = "gpt"
      PROVE  ImageSound'
  BY <1>8 DEF ImageSound, GptInv, Version
<1>9. CountUsedExact'
  BY DEF CountUsedExact, Version
<1>10. QED
  BY <1>1, <1>2, <1>3, <1>4, <1>5, <1>6, <1>7, <1>8, <1>9 DEF GptInv

\* A checkpoint ends.
LEMMA StabilizeStep ==
    ASSUME CapInv, Stabilize
    PROVE  CapInv'
<1> USE DEF CapInv, CapTypeOK, Key, Location, PHolder, InCore, ObjInCore, Void,
            Prepared, Unprepared, KeysWellFormed, StoredKey, objVars, ckptVars,
            Stabilize
<1>1. CapTypeOK'
  BY DEF Version
<1>2. KeysWellFormed'
  BY DEF Version
<1>3. NPCounts'
  BY DEF NPCounts, Version
<1>4. ASSUME kind.type = "gpt"
      PROVE  CountsPast'
  BY <1>4 DEF CountsPast, GptInv, GetObjectCount, Version
<1>5. ASSUME kind.type = "gpt"
      PROVE  CleanAgrees'
  BY <1>5 DEF CleanAgrees, GptInv, GetObjectCount, Fits, Version
<1>6. ASSUME kind.type = "gpt"
      PROVE  BlankUnheld'
  BY <1>6 DEF BlankUnheld, GptInv, GetObjectCount, Fits, Designates,
            Current, CurrentBlank, Version
<1>7. ASSUME kind.type = "gpt"
      PROVE  CkptSound'
  BY <1>7 DEF CkptSound, GptInv, GetObjectCount, CkptCount, CkptKey, CkptFits,
            CkptBlank, Version
<1>8. ASSUME kind.type = "gpt"
      PROVE  ImageSound'
  BY <1>8 DEF ImageSound, CkptSound, GptInv, CkptCount, CkptKey, CkptFits,
            CkptBlank, Version
<1>9. CountUsedExact'
  BY DEF CountUsedExact, Version
<1>10. QED
  BY <1>1, <1>2, <1>3, <1>4, <1>5, <1>6, <1>7, <1>8, <1>9 DEF GptInv

\* The system is restarted.
LEMMA RestartStep ==
    ASSUME CapInv, Restart
    PROVE  CapInv'
<1> USE DEF CapInv, CapTypeOK, Key, Location, PHolder, InCore, ObjInCore, Void,
            Prepared, Unprepared, KeysWellFormed, StoredKey, objVars, ckptVars,
            Restart, RestartCount
<1>1. CapTypeOK'
  <2>1. slot' \in [Holder -> Key] /\ disk' \in Version
    OBVIOUS
  <2>2. /\ at' \in [Holder -> Location]
        /\ \A h \in NPHolder : at'[h] = "dirty"
    BY ConstantsAssumption
  <2>3. /\ objAt' \in Location /\ (~kind.persistent => objAt' = "dirty")
        /\ count' \in Nat /\ maxNPCount' \in Nat
    OBVIOUS
  <2>4. demarc' \subseteq PHolder /\ events' \in Nat
    BY SMT
  <2>5. used' \in BOOLEAN /\ active' \in BOOLEAN /\ blank' \in BOOLEAN
    BY Zenon
  <2>6. UNCHANGED <<kind, image>>
    OBVIOUS
  <2>7. QED
    BY <2>1, <2>2, <2>3, <2>4, <2>5, <2>6
<1>2. KeysWellFormed'
  BY DEF Version
<1>3. NPCounts'
  BY DEF NPCounts, Version
<1>4. ASSUME kind.type = "gpt"
      PROVE  CountsPast'
  BY <1>4, KindType DEF CountsPast, ImageSound, NPCounts, GptInv, GetObjectCount,
            Version
<1>5. ASSUME kind.type = "gpt"
      PROVE  CleanAgrees'
  BY <1>5 DEF CleanAgrees, GptInv, GetObjectCount, Fits, Version
<1>6. ASSUME kind.type = "gpt"
      PROVE  BlankUnheld'
  BY <1>6, KindType DEF BlankUnheld, ImageSound, NPCounts, GptInv, GetObjectCount,
            Fits, Designates, Current, CurrentBlank, Version
<1>7. ASSUME kind.type = "gpt"
      PROVE  CkptSound'
  BY <1>7 DEF CkptSound, GptInv, GetObjectCount, CkptCount, CkptKey, CkptFits,
            CkptBlank, Version
<1>8. ASSUME kind.type = "gpt"
      PROVE  ImageSound'
  BY <1>8 DEF ImageSound, GptInv, Version
<1>9. CountUsedExact'
  BY KindType DEF CountUsedExact, ImageSound, NPCounts, GptInv,
            GetObjectCount, Version
<1>10. QED
  BY <1>1, <1>2, <1>3, <1>4, <1>5, <1>6, <1>7, <1>8, <1>9 DEF GptInv

-----------------------------------------------------------------------------
(* The theorems.                                                             *)

\* The initial states satisfy the invariant.
LEMMA InitInv ==
    Init => CapInv
<1> SUFFICES ASSUME Init
             PROVE  CapInv
  OBVIOUS
<1> USE ConstantsAssumption DEF Init, Key, Location, PHolder, InCore, ObjInCore,
            Void, Prepared, Unprepared, Version
<1>1. CapTypeOK
  <2>1. blank \in BOOLEAN
    BY Zenon
  <2>2. kind.persistent \in BOOLEAN
    BY DEF Kind
  <2>3. /\ disk \in Version
        /\ image \in [version : Version, np : Nat, held : SUBSET PHolder]
    OBVIOUS
  <2>4. QED
    BY <2>1, <2>2, <2>3 DEF CapTypeOK
<1>2. KeysWellFormed
  BY DEF KeysWellFormed, StoredKey
<1>3. NPCounts
  BY DEF NPCounts
<1>4. CountsPast /\ CleanAgrees /\ CkptSound /\ ImageSound
  BY DEF CountsPast, CleanAgrees, CkptSound, ImageSound, GetObjectCount, Fits
<1>5. BlankUnheld
  BY DEF BlankUnheld, Designates, Fits, Current
<1>6. CountUsedExact
  BY DEF CountUsedExact
<1>7. QED
  BY <1>1, <1>2, <1>3, <1>4, <1>5, <1>6 DEF CapInv, GptInv

\* Every step preserves the invariant.
LEMMA NextInv ==
    CapInv /\ [Next]_vars => CapInv'
<1> SUFFICES ASSUME CapInv, [Next]_vars
             PROVE  CapInv'
  OBVIOUS
<1>1. ASSUME NEW h \in Holder,
             \/ GetCap(h) \/ GetCapInitialized(h) \/ DoPrepare(h)
             \/ ReleaseHolder(h) \/ FetchHolder(h) \/ CleanHolder(h)
      PROVE  CapInv'
  BY <1>1, GetCapStep, GetCapInitializedStep, DoPrepareStep, ReleaseHolderStep,
     FetchHolderStep, CleanHolderStep
<1>2. ASSUME NEW g \in Holder, NEW h \in Holder, Copy(g, h)
      PROVE  CapInv'
  BY <1>2, CopyStep
<1>3. CASE Write \/ Rescind \/ ReleaseObject \/ FetchObject \/ CleanObject
  BY <1>3, WriteStep, RescindStep, ReleaseObjectStep, FetchObjectStep,
     CleanObjectStep
<1>4. CASE Demarcation \/ Stabilize \/ Restart
  BY <1>4, DemarcationStep, StabilizeStep, RestartStep
<1>5. CASE UNCHANGED vars
  BY <1>5 DEF vars, objVars, ckptVars, CapInv, CapTypeOK, KeysWellFormed,
     InCore, ObjInCore, NPCounts, GptInv, CountsPast, CleanAgrees, BlankUnheld,
     CkptSound, ImageSound, CountUsedExact, GetObjectCount, Fits, CurrentBlank,
     Designates, Current, CkptCount, CkptBlank, CkptKey, CkptFits, Version
<1>6. QED
  BY <1>1, <1>2, <1>3, <1>4, <1>5 DEF Next

\* The invariant holds in every reachable state.
LEMMA InvCorrect == Spec => []CapInv
  BY InitInv, NextInv, PTL DEF Spec

\* Every variable has its type: a non-persistent object and the non-persistent
\* holders never leave core, and all that is on disk is a version of the
\* persistent ones.
THEOREM TypeCorrect == Spec => []CapTypeOK
  BY InvCorrect, PTL DEF CapInv

\* objH_Rescind may keep the allocation count when OFLG_AllocCntUsed is off: no
\* unprepared capability that could still be read has that count.
THEOREM CountUsedCorrect == Spec => []CountUsedExact
  BY InvCorrect, PTL DEF CapInv

\* AdjustNPCounts may begin at CkptRoot.maxNPCount: no capability in the
\* checkpoint to a non-persistent object has a larger count.
THEOREM NPCountCorrect == Spec => []NPCountBound
<1>1. CapInv => NPCountBound
  BY DEF CapInv, NPCounts, NPCountBound
<1>2. QED
  BY <1>1, InvCorrect, PTL

-----------------------------------------------------------------------------
(* What the steps do to the authority of a holder.                           *)

\* Only a rescission and what puts a capability in a holder change whether the
\* holder designates the object, and the former ends it for all.
LEMMA AuthorityKept ==
    ASSUME CapInv, Next, kind.type = "gpt", NEW h \in Holder,
           ~Restart, ~PutsCap(h)
    PROVE  KeepsAuthority(h)
<1> USE DEF CapInv, CapTypeOK, Key, Location, PHolder, InCore, ObjInCore, Void,
            Prepared, Unprepared, Designates, Current, Fits, GetObjectCount,
            objVars, ckptVars
<1>1. CASE Rescind
  <2>1. CapInv'
    BY <1>1, RescindStep
  <2>2. (kind.type = "gpt")' /\ CurrentBlank'
    BY <1>1 DEF Rescind, CurrentBlank
  <2>3. ~Designates(h)'
    BY <2>1, <2>2 DEF GptInv, BlankUnheld
  <2>4. QED
    BY <1>1, <2>3, Zenon DEF KeepsAuthority
<1>2. CASE ~Rescind
  <2>1. SUFFICES Designates(h)' <=> Designates(h)
    BY <1>2, Zenon DEF KeepsAuthority
  <2>2. ASSUME NEW g \in Holder, GetCap(g) \/ GetCapInitialized(g)
        PROVE  Designates(h)' <=> Designates(h)
    BY <2>2 DEF PutsCap, GetCap, GetCapInitialized, Put, Writable
  <2>3. ASSUME NEW f \in Holder, NEW g \in Holder, Copy(f, g)
        PROVE  Designates(h)' <=> Designates(h)
    BY <2>3 DEF PutsCap, Copy, Put, Writable
  <2>4. ASSUME NEW g \in Holder, DoPrepare(g)
        PROVE  Designates(h)' <=> Designates(h)
    BY <2>4 DEF DoPrepare
  <2>5. ASSUME NEW g \in Holder, ReleaseHolder(g)
        PROVE  Designates(h)' <=> Designates(h)
    BY <2>5 DEF ReleaseHolder, GptInv, CleanAgrees
  <2>6. ASSUME NEW g \in Holder, FetchHolder(g)
        PROVE  Designates(h)' <=> Designates(h)
    BY <2>6 DEF FetchHolder
  <2>7. ASSUME NEW g \in Holder, CleanHolder(g)
        PROVE  Designates(h)' <=> Designates(h)
    BY <2>7 DEF CleanHolder, Cleanable
  <2>8. CASE Write
    BY <2>8 DEF Write, Writable
  <2>9. CASE ReleaseObject
    BY <2>9 DEF ReleaseObject, MakeUnpreparedCopy, GptInv, CleanAgrees,
         KeysWellFormed, StoredKey
  <2>10. CASE FetchObject
    BY <2>10 DEF FetchObject, FetchedCount
  <2>11. CASE CleanObject
    BY <2>11 DEF CleanObject, Cleanable
  <2>12. CASE Demarcation
    BY <2>12 DEF Demarcation, ReadOnly
  <2>13. CASE Stabilize
    BY <2>13 DEF Stabilize
  <2>14. QED
    BY <1>2, <2>2, <2>3, <2>4, <2>5, <2>6, <2>7, <2>8, <2>9, <2>10, <2>11,
       <2>12, <2>13 DEF Next
<1>3. QED
  BY <1>1, <1>2

\* A holder of a forwarder or GPT capability designates the object until it is
\* rescinded, and nothing from then on, through any releasing, fetching,
\* cleaning and checkpointing of the object and of the holder.
THEOREM AuthorityCorrect == Spec => AuthorityExact
<1>1. CapInv /\ [Next]_vars =>
        [kind.type = "gpt" =>
           \A h \in Holder : Restart \/ PutsCap(h) \/ KeepsAuthority(h)]_vars
  BY AuthorityKept
<1>2. QED
  BY <1>1, InvCorrect, PTL DEF Spec, AuthorityExact

\* A restart gives a forwarder or GPT capability to no holder that did not have
\* it at the demarcation, and none to a non-persistent object to anybody.
THEOREM RestartCorrect == Spec => RestartGivesNoMore
<1>1. ASSUME CapInv, Restart
      PROVE  /\ kind.type = "gpt" => Designating' \subseteq image.held
             /\ ~kind.persistent => Designating' = {}
  <2> USE DEF CapInv, CapTypeOK, Key, Location, PHolder, InCore, ObjInCore, Void,
              Prepared, Unprepared, KeysWellFormed, StoredKey, Version
  <2>1. \A h \in PHolder : ~InCore(h)' /\ disk'.slot[h] = image.version.slot[h]
    BY <1>1 DEF Restart
  <2>2. \A h \in PHolder :
          Designates(h)' <=> image.version.slot[h] = Unprepared(GetObjectCount')
    BY <1>1, <2>1 DEF Designates, Current, Fits
  <2>3. ASSUME ~kind.persistent
        PROVE  Designating' = {}
    <3>1. GetObjectCount' = image.np + 1
      BY <1>1, <2>3 DEF Restart, RestartCount, GetObjectCount
    <3>2. QED
      BY <1>1, <2>2, <2>3, <3>1 DEF Designating, NPCounts
  <2>4. ASSUME kind.persistent, kind.type = "gpt"
        PROVE  Designating' \subseteq image.held
    <3>1. GetObjectCount' = image.version.count
      BY <1>1, <2>4 DEF Restart, GetObjectCount
    <3>2. QED
      BY <1>1, <2>2, <2>4, <3>1 DEF Designating, GptInv, ImageSound
  <2>5. QED
    BY <2>3, <2>4
<1>2. CapInv /\ [Next]_vars =>
        [Restart => /\ kind.type = "gpt" => Designating' \subseteq image.held
                    /\ ~kind.persistent => Designating' = {}]_vars
  BY <1>1
<1>3. QED
  BY <1>2, InvCorrect, PTL DEF Spec, RestartGivesNoMore
=============================================================================
