------------------------ MODULE ObjectDirectoryProofs ------------------------
(* Theorems about module ObjectDirectory, for any number of entries, frames  *)
(* and IORequests and any room in the header and in a frame: a frame of the  *)
(* object directory is neither refilled nor released while the disk may      *)
(* still read it (FramesHeld), and when the generation header is on disk     *)
(* restart finds all entries from it (DirectoryComplete).                    *)
(*                                                                           *)
(* The second needs the first, that the thread and the handlers allocate     *)
(* consecutive log frames although they take turns, and that the disk takes  *)
(* the requests in order, so that the header is the last to be written.      *)
EXTENDS ObjectDirectory, SequenceTheorems, TLAPS

-----------------------------------------------------------------------------
(* The inductive invariant.                                                  *)

\* The request at position i writes a page of entries.
WritesEntries(i) == i \in 1 .. Len(queue) /\ queue[i].op = "entries"

\* A frame is reserved, or being written, or released, and not two of them.
FramesApart ==
    /\ \A i, j \in 1 .. Len(reservedPages) :
         reservedPages[i] = reservedPages[j] => i = j
    /\ \A i \in 1 .. Len(reservedPages) : reservedPages[i] \notin released
    /\ \A i \in 1 .. Len(queue) : WritesEntries(i) =>
         /\ queue[i].frame \in Frame \ released
         /\ \A j \in 1 .. Len(reservedPages) : reservedPages[j] # queue[i].frame
    /\ \A i, j \in 1 .. Len(queue) :
         WritesEntries(i) /\ WritesEntries(j) /\ queue[i].frame = queue[j].frame => i = j

\* The log frames of the object directory.
DirLids == firstDirFrame .. firstDirFrame + nDirFrames - 1

\* Each of them is written once, and nothing else is written there.
LidsApart ==
    /\ \A i \in 1 .. Len(queue) :
         /\ queue[i].op = "entries" => queue[i].lid \in DirLids
         /\ queue[i].op \in {"clean", "procs"} =>
              queue[i].lid < IF nDirFrames = 0 THEN logCursor ELSE firstDirFrame
         /\ queue[i].op = "hdr" => queue[i].lid >= firstDirFrame + nDirFrames
    /\ \A i, j \in 1 .. Len(queue) :
         WritesEntries(i) /\ WritesEntries(j) /\ queue[i].lid = queue[j].lid => i = j

\* What phase, entries saved and log frames allocated have to do with each other.
Counts ==
    /\ freeCleaning + Len(queue) <= NCleaning
    /\ phase = 2 => /\ Len(reservedPages) = NReserved
                    /\ saved = 0 /\ hdrEntries = 0 /\ nDirFrames = 0
    /\ phase > 3 => saved = NEntries
    /\ hdrEntries <= saved /\ nDirFrames <= saved
    /\ nDirFrames = 0 <=> firstDirFrame = 0
    /\ nDirFrames > 0 /\ phase = 3 => logCursor = firstDirFrame + nDirFrames
    /\ nDirFrames > 0 /\ phase > 3 => logCursor > firstDirFrame + nDirFrames
    /\ logCursor = NProcFrames + 1 + (NDirty - numKRODirtyPages) + nDirFrames
                   + (IF phase > 3 THEN 1 ELSE 0)

\* The generation header is the last request, and there is none after it.
HeaderLast ==
    /\ \A i \in 1 .. Len(queue) : queue[i].op = "hdr" => i = Len(queue) /\ phase = 4
    /\ phase = 4 => queue # <<>> /\ queue[Len(queue)].op = "hdr"
    /\ phase = 5 => queue = <<>>

\* A page of entries that has been transferred is on disk.
TransferredRight ==
    served => /\ queue # <<>>
              /\ queue[1].op = "entries" =>
                   disk[queue[1].lid] = content[queue[1].frame]

\* The page that a log frame of the directory holds or will hold.
PageAt(l) ==
    IF \E i \in 1 .. Len(queue) : WritesEntries(i) /\ queue[i].lid = l
      THEN content[queue[CHOOSE i \in 1 .. Len(queue) :
                           WritesEntries(i) /\ queue[i].lid = l].frame]
      ELSE disk[l]

\* These pages hold the entries scanned so far that are not in the header.
EntriesHeld ==
    /\ \A l \in DirLids : PageAt(l).kind = "entries"
    /\ \A e \in 1 .. NEntries :
         (\E l \in DirLids : e \in PageAt(l).lo .. PageAt(l).hi)
           <=> (hdrEntries < e /\ e <= saved)

Inv ==
    /\ TypeOK
    /\ FramesApart
    /\ LidsApart
    /\ Counts
    /\ HeaderLast
    /\ TransferredRight
    /\ EntriesHeld

-----------------------------------------------------------------------------
(* Sequences.                                                                *)

\* A sequence has its members at its positions.
LEMMA SeqFacts ==
    ASSUME NEW S, NEW s \in Seq(S)
    PROVE  /\ Len(s) \in Nat
           /\ \A i \in 1 .. Len(s) : s[i] \in S
           /\ s = <<>> <=> Len(s) = 0
BY LenProperties, ElementOfSeq, EmptySeq

\* A request put at the end of the queue of the disk.
LEMMA AppendFacts ==
    ASSUME NEW S, NEW s \in Seq(S), NEW r \in S, NEW t, t = Append(s, r)
    PROVE  /\ t \in Seq(S) /\ Len(s) \in Nat
           /\ Len(t) = Len(s) + 1
           /\ \A i \in 1 .. Len(s) : t[i] = s[i]
           /\ t[Len(s) + 1] = r
BY AppendProperties, LenProperties

\* The queue once the request at its head is taken off.
LEMMA TailFacts ==
    ASSUME NEW S, NEW s \in Seq(S), s # <<>>, NEW t, t = Tail(s)
    PROVE  /\ t \in Seq(S) /\ Len(s) \in Nat \ {0}
           /\ Len(t) = Len(s) - 1
           /\ \A i \in 1 .. Len(t) : t[i] = s[i + 1] /\ i + 1 \in 1 .. Len(s)
           /\ Head(s) = s[1] /\ 1 \in 1 .. Len(s) /\ s[1] \in S
BY HeadTailProperties, LenProperties, EmptySeq, ElementOfSeq

-----------------------------------------------------------------------------
(* The pages of the directory.                                               *)

\* A page that is to be written is in its frame, since no other request is for
\* the same log frame.
LEMMA PageInFrame ==
    ASSUME LidsApart, NEW i \in 1 .. Len(queue), WritesEntries(i)
    PROVE  PageAt(queue[i].lid) = content[queue[i].frame]
<1>1. PICK j : j = CHOOSE k \in 1 .. Len(queue) :
                     WritesEntries(k) /\ queue[k].lid = queue[i].lid
  OBVIOUS
<1>2. j \in 1 .. Len(queue) /\ WritesEntries(j) /\ queue[j].lid = queue[i].lid
  BY <1>1
<1>3. j = i
  BY <1>2 DEF LidsApart
<1> QED
  BY <1>1, <1>2, <1>3 DEF PageAt

\* A page that is not to be written is on disk.
LEMMA PageOnDisk ==
    ASSUME NEW l, \A i \in 1 .. Len(queue) : WritesEntries(i) => queue[i].lid # l
    PROVE  PageAt(l) = disk[l]
BY DEF PageAt

\* The same after a step.
LEMMA PageInFrameNext ==
    ASSUME LidsApart', NEW l,
           NEW i \in 1 .. Len(queue'), WritesEntries(i)', queue'[i].lid = l
    PROVE  PageAt(l)' = content'[queue'[i].frame]
<1>1. PICK k : k = CHOOSE n \in 1 .. Len(queue') :
                     WritesEntries(n)' /\ queue'[n].lid = l
  OBVIOUS
<1>2. k \in 1 .. Len(queue') /\ WritesEntries(k)' /\ queue'[k].lid = l
  BY <1>1
<1>3. k = i
  BY <1>2 DEF LidsApart
<1> QED
  BY <1>1, <1>3 DEF PageAt

\* A step keeps a page if a request for it was there before, with the same page
\* in its frame, or if there is none and the page is on disk.
LEMMA PageKept ==
    ASSUME NEW l, LidsApart, LidsApart',
           \A i \in 1 .. Len(queue') : WritesEntries(i)' /\ queue'[i].lid = l =>
             \E j \in 1 .. Len(queue) :
               /\ WritesEntries(j) /\ queue[j].lid = l
               /\ content[queue[j].frame] = content'[queue'[i].frame],
           (\A i \in 1 .. Len(queue') : WritesEntries(i)' => queue'[i].lid # l)
             => disk'[l] = PageAt(l)
    PROVE  PageAt(l)' = PageAt(l)
<1>1. CASE \E i \in 1 .. Len(queue') : WritesEntries(i)' /\ queue'[i].lid = l
  <2>1. PICK i \in 1 .. Len(queue') : WritesEntries(i)' /\ queue'[i].lid = l
    BY <1>1
  <2>2. PICK j \in 1 .. Len(queue) :
          /\ WritesEntries(j) /\ queue[j].lid = l
          /\ content[queue[j].frame] = content'[queue'[i].frame]
    BY <2>1
  <2>3. PageAt(l) = content[queue[j].frame]
    BY <2>2, PageInFrame
  <2>4. PageAt(l)' = content'[queue'[i].frame]
    BY <2>1, PageInFrameNext
  <2> QED
    BY <2>2, <2>3, <2>4
<1>2. CASE ~\E i \in 1 .. Len(queue') : WritesEntries(i)' /\ queue'[i].lid = l
  BY <1>2 DEF PageAt
<1> QED
  BY <1>1, <1>2

\* A step that keeps all pages keeps what they hold together.
LEMMA EntriesKept ==
    ASSUME EntriesHeld, UNCHANGED <<firstDirFrame, nDirFrames, hdrEntries, saved>>,
           \A l \in DirLids : PageAt(l)' = PageAt(l)
    PROVE  EntriesHeld'
<1>1. DirLids' = DirLids
  BY DEF DirLids
<1>2. \A l \in DirLids' : PageAt(l)' = PageAt(l)
  BY <1>1
<1> QED
  BY <1>1, <1>2 DEF EntriesHeld

-----------------------------------------------------------------------------
(* Each step preserves the invariant.                                        *)

\* The state in which the directory begins to be written satisfies the invariant.
LEMMA InitInv == Init => Inv
<1> SUFFICES ASSUME Init PROVE Inv
  OBVIOUS
<1>1. /\ queue = <<>> /\ Len(queue) = 0 /\ nDirFrames = 0 /\ firstDirFrame = 0
      /\ saved = 0 /\ hdrEntries = 0 /\ phase = 2 /\ released = {} /\ served = FALSE
      /\ reservedPages = [i \in Frame |-> i] /\ logCursor = NProcFrames + 1
      /\ numKRODirtyPages = NDirty /\ freeCleaning = NCleaning
  BY DEF Init
<1>2. reservedPages \in Seq(Frame) /\ Len(reservedPages) = NReserved
  <2>1. reservedPages \in [1 .. NReserved -> Frame]
    BY <1>1 DEF Frame
  <2>2. reservedPages \in Seq(Frame)
    BY <2>1, ConstantsAssumption, SeqDef
  <2> QED
    BY <2>1, <2>2, ConstantsAssumption, LenProperties
<1>3. content \in [Frame -> Content]
  BY ConstantsAssumption DEF Init, Content, Frame, Other
<1>4. TypeOK
  <2>1. queue \in Seq(Request)
    BY <1>1
  <2>2. disk \in [Lid -> Content]
    BY DEF Init, Content, Other
  <2>3. ioreq \subseteq Frame /\ ckptWait = "none" /\ procWritten = 0
    BY DEF Init
  <2>4. /\ phase \in 2 .. 5 /\ procWritten \in 0 .. NProcFrames
        /\ numKRODirtyPages \in 0 .. NDirty /\ freeCleaning \in 0 .. NCleaning
        /\ firstDirFrame \in 0 .. MaxLid /\ nDirFrames \in 0 .. NEntries
        /\ hdrEntries \in 0 .. NEntries /\ saved \in 0 .. NEntries
        /\ logCursor \in 1 .. MaxLid + 1
    BY <1>1, <2>3, ConstantsAssumption
  <2> QED
    BY <1>1, <1>2, <1>3, <2>1, <2>2, <2>3, <2>4 DEF TypeOK
<1>5. FramesApart
  <2>1. \A i \in 1 .. Len(reservedPages) : reservedPages[i] = i
    BY <1>1, <1>2 DEF Frame
  <2> QED
    BY <1>1, <2>1 DEF FramesApart
<1>6. DirLids = {}
  BY <1>1 DEF DirLids
<1>7. EntriesHeld
  BY <1>1, <1>6 DEF EntriesHeld
<1>8. LidsApart /\ HeaderLast /\ TransferredRight
  BY <1>1 DEF LidsApart, HeaderLast, TransferredRight
<1>9. Counts
  BY <1>1, <1>2, ConstantsAssumption DEF Counts
<1> QED
  BY <1>4, <1>5, <1>7, <1>8, <1>9 DEF Inv

\* What a step that leaves requests, frames and disk alone need show.
LEMMA QuietStep ==
    ASSUME Inv, UNCHANGED <<queue, served, content, disk, firstDirFrame, nDirFrames,
                            hdrEntries, saved>>
    PROVE  TransferredRight' /\ EntriesHeld'
<1>1. TransferredRight'
  BY DEF Inv, TransferredRight
<1>2. \A l \in DirLids : PageAt(l)' = PageAt(l)
  BY DEF PageAt, WritesEntries
<1> QED
  BY <1>1, <1>2, EntriesKept DEF Inv

\* DoPhase2Work fills the header when it ends.
LEMMA EndPhase2Inv ==
    ASSUME Inv, EndPhase2
    PROVE  Inv'
<1>1. /\ phase = 2 /\ phase' = 3 /\ hdrEntries' = WriteDirEntsToPage(HdrRoom)
      /\ saved' = WriteDirEntsToPage(HdrRoom)
      /\ UNCHANGED <<reservedPages, procWritten, numKRODirtyPages, content, ioreq,
                     released, freeCleaning, queue, served, disk, firstDirFrame,
                     nDirFrames, ckptWait, logCursor>>
  BY DEF EndPhase2
<1>2. hdrEntries' = saved' /\ saved' \in 0 .. NEntries
  BY <1>1, ConstantsAssumption DEF Inv, TypeOK, WriteDirEntsToPage, numDirEntsToSave
<1>3. nDirFrames = 0 /\ firstDirFrame = 0 /\ DirLids' = {}
  BY <1>1 DEF Inv, TypeOK, Counts, DirLids
<1>4. TypeOK'
  BY <1>1, <1>2 DEF Inv, TypeOK
<1>5. FramesApart' /\ LidsApart'
  BY <1>1, <1>3 DEF Inv, FramesApart, LidsApart, WritesEntries, DirLids
<1>6. Counts'
  BY <1>1, <1>2, <1>3, ConstantsAssumption DEF Inv, Counts, TypeOK
<1>7. HeaderLast' /\ TransferredRight'
  BY <1>1 DEF Inv, HeaderLast, TransferredRight
<1>8. EntriesHeld'
  BY <1>2, <1>3 DEF EntriesHeld
<1> QED
  BY <1>4, <1>5, <1>6, <1>7, <1>8 DEF Inv

\* The thread sleeps until the handlers have written the rest.
LEMMA SleepForDirsInv ==
    ASSUME Inv, SleepForDirs
    PROVE  Inv'
<1>1. /\ ckptWait' = "dirs"
      /\ UNCHANGED <<phase, reservedPages, procWritten, numKRODirtyPages, content,
                     ioreq, released, freeCleaning, queue, served, disk,
                     firstDirFrame, nDirFrames, hdrEntries, saved, logCursor>>
  BY DEF SleepForDirs
<1>2. TypeOK'
  BY <1>1 DEF Inv, TypeOK
<1>3. FramesApart' /\ LidsApart' /\ Counts' /\ HeaderLast'
  BY <1>1 DEF Inv, FramesApart, LidsApart, WritesEntries, DirLids, Counts, HeaderLast
<1> QED
  BY <1>1, <1>2, <1>3, QuietStep DEF Inv

\* The first reserved frame leaves the list, to be released or to be lost.
LEMMA UnlinkInv ==
    ASSUME Inv, YieldWithFrame \/ ReleaseReservedFrame
    PROVE  Inv'
<1>1. /\ phase = 3 /\ reservedPages # <<>> /\ reservedPages' = Tail(reservedPages)
      /\ released' = released \/ released' = released \cup {Head(reservedPages)}
      /\ ckptWait' = "ioreq" \/ ckptWait' = ckptWait
      /\ UNCHANGED <<phase, procWritten, numKRODirtyPages, content, ioreq,
                     freeCleaning, queue, served, disk, firstDirFrame, nDirFrames,
                     hdrEntries, saved, logCursor>>
  BY DEF YieldWithFrame, ReleaseReservedFrame, Unlinked
<1>2. reservedPages \in Seq(Frame)
  BY DEF Inv, TypeOK
<1>3. /\ reservedPages' \in Seq(Frame) /\ Len(reservedPages) \in Nat
      /\ \A i \in 1 .. Len(reservedPages') :
           reservedPages'[i] = reservedPages[i + 1] /\ i + 1 \in 1 .. Len(reservedPages)
      /\ Head(reservedPages) = reservedPages[1] /\ 1 \in 1 .. Len(reservedPages)
      /\ reservedPages[1] \in Frame
      /\ Len(reservedPages') = Len(reservedPages) - 1
  BY <1>1, <1>2, TailFacts
<1>4. TypeOK'
  BY <1>1, <1>3 DEF Inv, TypeOK
<1>5. FramesApart'
  <2>0. FramesApart
    BY DEF Inv
  <2>1. \A i, j \in 1 .. Len(reservedPages') :
          reservedPages'[i] = reservedPages'[j] => i = j
    BY <1>3, <2>0 DEF FramesApart
  <2>2. \A i \in 1 .. Len(reservedPages') : reservedPages'[i] # reservedPages[1]
    BY <1>3, <2>0 DEF FramesApart
  <2>3. \A i \in 1 .. Len(reservedPages') : reservedPages'[i] \notin released'
    BY <1>1, <1>3, <2>0, <2>2 DEF FramesApart
  <2>4. \A i \in 1 .. Len(queue') : WritesEntries(i)' =>
          /\ queue'[i].frame \in Frame \ released'
          /\ \A j \in 1 .. Len(reservedPages') : reservedPages'[j] # queue'[i].frame
    BY <1>1, <1>3, <2>0 DEF FramesApart, WritesEntries
  <2>5. \A i, j \in 1 .. Len(queue') : WritesEntries(i)' /\ WritesEntries(j)'
          /\ queue'[i].frame = queue'[j].frame => i = j
    BY <1>1, <2>0 DEF FramesApart, WritesEntries
  <2> QED
    BY <2>1, <2>3, <2>4, <2>5 DEF FramesApart
<1>6. LidsApart' /\ HeaderLast'
  BY <1>1 DEF Inv, LidsApart, WritesEntries, DirLids, HeaderLast
<1>7. Counts'
  BY <1>1 DEF Inv, Counts
<1> QED
  BY <1>1, <1>4, <1>5, <1>6, <1>7, QuietStep DEF Inv

\* Someone else gets a released frame and changes it.
LEMMA GrabPageFrameInv ==
    ASSUME Inv, NEW f \in Frame, GrabPageFrame(f)
    PROVE  Inv'
<1>1. /\ f \in released /\ content' = [content EXCEPT ![f] = Other]
      /\ UNCHANGED <<phase, reservedPages, procWritten, numKRODirtyPages, ioreq,
                     released, freeCleaning, queue, served, disk, firstDirFrame,
                     nDirFrames, hdrEntries, saved, ckptWait, logCursor>>
  BY DEF GrabPageFrame
<1>2. content \in [Frame -> Content]
  BY DEF Inv, TypeOK
<1>3. content' \in [Frame -> Content]
  BY <1>1, <1>2 DEF Content, Other
<1>4. TypeOK'
  BY <1>1, <1>3 DEF Inv, TypeOK
<1>5. FramesApart' /\ LidsApart' /\ HeaderLast' /\ Counts'
  BY <1>1 DEF Inv, FramesApart, LidsApart, WritesEntries, DirLids, HeaderLast, Counts
<1>6. \A i \in 1 .. Len(queue) : WritesEntries(i) =>
        content'[queue[i].frame] = content[queue[i].frame]
  BY <1>1, <1>2 DEF Inv, FramesApart
<1>7. TransferredRight'
  <2>1. served => 1 \in 1 .. Len(queue)
    BY SeqFacts DEF Inv, TransferredRight, TypeOK
  <2> QED
    BY <1>1, <1>6, <2>1 DEF Inv, TransferredRight, WritesEntries
<1>8. ASSUME NEW l \in DirLids PROVE PageAt(l)' = PageAt(l)
  <2>1. LidsApart /\ LidsApart'
    BY <1>5 DEF Inv
  <2>2. \A i \in 1 .. Len(queue') : WritesEntries(i)' /\ queue'[i].lid = l =>
          \E j \in 1 .. Len(queue) :
            /\ WritesEntries(j) /\ queue[j].lid = l
            /\ content[queue[j].frame] = content'[queue'[i].frame]
    BY <1>1, <1>6 DEF WritesEntries
  <2>3. (\A i \in 1 .. Len(queue') : WritesEntries(i)' => queue'[i].lid # l)
           => disk'[l] = PageAt(l)
    BY <1>1, PageOnDisk DEF WritesEntries
  <2> QED
    BY <2>1, <2>2, <2>3, PageKept
<1>9. EntriesHeld'
  BY <1>1, <1>8, EntriesKept DEF Inv
<1> QED
  BY <1>4, <1>5, <1>7, <1>9 DEF Inv

\* A request for something else than entries is put at the end of the queue.
LEMMA Enqueued ==
    ASSUME Inv, NEW r \in Request, r.op # "entries", queue' = Append(queue, r),
           logCursor \in Nat, logCursor' \in Nat, logCursor' >= logCursor,
           r.op \in {"clean", "procs"} => nDirFrames = 0 /\ r.lid < logCursor',
           r.op = "hdr" => r.lid >= firstDirFrame + nDirFrames,
           UNCHANGED <<reservedPages, released, served, content, disk,
                       firstDirFrame, nDirFrames, hdrEntries, saved>>
    PROVE  /\ queue' \in Seq(Request) /\ Len(queue') = Len(queue) + 1
           /\ \A i \in 1 .. Len(queue) : queue'[i] = queue[i]
           /\ queue'[Len(queue')] = r
           /\ FramesApart' /\ LidsApart' /\ TransferredRight' /\ EntriesHeld'
<1>0. /\ TypeOK /\ FramesApart /\ LidsApart /\ TransferredRight /\ EntriesHeld
      /\ queue \in Seq(Request)
  BY DEF Inv, TypeOK
<1>1. /\ queue' \in Seq(Request) /\ Len(queue) \in Nat
      /\ Len(queue') = Len(queue) + 1
      /\ \A i \in 1 .. Len(queue) : queue'[i] = queue[i]
      /\ queue'[Len(queue) + 1] = r
  BY <1>0, AppendFacts
<1>2. \A i \in 1 .. Len(queue') : \/ i \in 1 .. Len(queue) /\ queue'[i] = queue[i]
                                  \/ i = Len(queue) + 1 /\ queue'[i] = r
  BY <1>1
<1>3. \A i \in 1 .. Len(queue') :
        WritesEntries(i)' => /\ i \in 1 .. Len(queue) /\ WritesEntries(i)
                             /\ queue'[i] = queue[i]
  BY <1>2 DEF WritesEntries
<1>4. FramesApart'
  BY <1>0, <1>3 DEF FramesApart
<1>5. LidsApart'
  <2>1. DirLids' = DirLids
    BY DEF DirLids
  <2>2. ASSUME NEW i \in 1 .. Len(queue')
        PROVE  /\ queue'[i].op = "entries" => queue'[i].lid \in DirLids
               /\ queue'[i].op \in {"clean", "procs"} =>
                    queue'[i].lid < IF nDirFrames = 0 THEN logCursor' ELSE firstDirFrame
               /\ queue'[i].op = "hdr" => queue'[i].lid >= firstDirFrame + nDirFrames
    <3>1. CASE i \in 1 .. Len(queue) /\ queue'[i] = queue[i]
      <4>1. queue[i].lid \in Nat
        <5>1. queue[i] \in Request
          BY <1>0, <3>1, SeqFacts
        <5> QED
          BY <5>1, ConstantsAssumption, SMTT(30) DEF Request, Lid
      <4>2. /\ queue[i].op = "entries" => queue[i].lid \in DirLids
            /\ queue[i].op \in {"clean", "procs"} =>
                 queue[i].lid < IF nDirFrames = 0 THEN logCursor ELSE firstDirFrame
            /\ queue[i].op = "hdr" => queue[i].lid >= firstDirFrame + nDirFrames
        BY <1>0, <3>1 DEF LidsApart
      <4>3. queue[i].lid < logCursor => queue[i].lid < logCursor'
        BY <4>1
      <4> QED
        BY <3>1, <4>2, <4>3
    <3>2. CASE queue'[i] = r
      BY <3>2
    <3> QED
      BY <1>2, <3>1, <3>2
  <2>3. \A i, j \in 1 .. Len(queue') :
          WritesEntries(i)' /\ WritesEntries(j)' /\ queue'[i].lid = queue'[j].lid => i = j
    BY <1>0, <1>3 DEF LidsApart
  <2> QED
    BY <2>1, <2>2, <2>3 DEF LidsApart
<1>6. TransferredRight'
  <2>1. served => 1 \in 1 .. Len(queue) /\ queue'[1] = queue[1] /\ queue' # <<>>
    <3>1. served => Len(queue) > 0
      BY <1>0, SeqFacts DEF TransferredRight
    <3> QED
      BY <1>1, <3>1, SeqFacts
  <2> QED
    BY <1>0, <2>1 DEF TransferredRight
<1>7. ASSUME NEW l \in DirLids PROVE PageAt(l)' = PageAt(l)
  <2>1. \A i \in 1 .. Len(queue') : WritesEntries(i)' /\ queue'[i].lid = l =>
          \E j \in 1 .. Len(queue) :
            /\ WritesEntries(j) /\ queue[j].lid = l
            /\ content[queue[j].frame] = content'[queue'[i].frame]
    BY <1>3
  <2>2. \A i \in 1 .. Len(queue) :
          WritesEntries(i) => WritesEntries(i)' /\ queue'[i] = queue[i] /\ i \in 1 .. Len(queue')
    BY <1>1 DEF WritesEntries
  <2>3. (\A i \in 1 .. Len(queue') : WritesEntries(i)' => queue'[i].lid # l)
           => disk'[l] = PageAt(l)
    BY <2>2, PageOnDisk
  <2> QED
    BY <1>0, <1>5, <2>1, <2>3, PageKept
<1>8. EntriesHeld'
  BY <1>0, <1>7, EntriesKept
<1> QED
  BY <1>1, <1>4, <1>5, <1>6, <1>8

\* The first request is complete and leaves the queue. If it wrote a page of
\* entries, its frame may be released.
LEMMA Dequeued ==
    ASSUME Inv, queue # <<>>, served, served' = FALSE, queue' = Tail(queue),
           \/ released' = released
           \/ queue[1].op = "entries" /\ released' = released \cup {queue[1].frame},
           UNCHANGED <<reservedPages, content, disk, firstDirFrame, nDirFrames,
                       hdrEntries, saved, logCursor>>
    PROVE  /\ queue' \in Seq(Request) /\ Len(queue) \in Nat \ {0}
           /\ Len(queue') = Len(queue) - 1
           /\ \A i \in 1 .. Len(queue') : queue'[i] = queue[i + 1] /\ i + 1 \in 1 .. Len(queue)
           /\ queue[1] \in Request
           /\ FramesApart' /\ LidsApart' /\ TransferredRight' /\ EntriesHeld'
<1>0. /\ TypeOK /\ FramesApart /\ LidsApart /\ TransferredRight /\ EntriesHeld
      /\ queue \in Seq(Request)
  BY DEF Inv, TypeOK
<1>1. /\ queue' \in Seq(Request) /\ Len(queue) \in Nat \ {0}
      /\ Len(queue') = Len(queue) - 1
      /\ \A i \in 1 .. Len(queue') : queue'[i] = queue[i + 1] /\ i + 1 \in 1 .. Len(queue)
      /\ 1 \in 1 .. Len(queue) /\ queue[1] \in Request
  BY <1>0, TailFacts
<1>2. \A i \in 1 .. Len(queue') :
        WritesEntries(i)' => /\ i + 1 \in 1 .. Len(queue) /\ WritesEntries(i + 1)
                             /\ queue'[i] = queue[i + 1]
  BY <1>1 DEF WritesEntries
<1>3. FramesApart'
  <2>1. \A i \in 1 .. Len(queue') : WritesEntries(i)' =>
          /\ queue'[i].frame \in Frame \ released
          /\ queue[1].op = "entries" => queue'[i].frame # queue[1].frame
          /\ \A j \in 1 .. Len(reservedPages) : reservedPages[j] # queue'[i].frame
    BY <1>0, <1>1, <1>2 DEF FramesApart, WritesEntries
  <2>2. queue[1].op = "entries" =>
          \A j \in 1 .. Len(reservedPages) : reservedPages[j] # queue[1].frame
    BY <1>0, <1>1 DEF FramesApart, WritesEntries
  <2>3. \A i, j \in 1 .. Len(queue') : WritesEntries(i)' /\ WritesEntries(j)'
          /\ queue'[i].frame = queue'[j].frame => i = j
    BY <1>0, <1>1, <1>2 DEF FramesApart
  <2> QED
    BY <1>0, <2>1, <2>2, <2>3 DEF FramesApart
<1>4. LidsApart'
  <2>1. DirLids' = DirLids
    BY DEF DirLids
  <2>2. \A i, j \in 1 .. Len(queue') : WritesEntries(i)' /\ WritesEntries(j)'
          /\ queue'[i].lid = queue'[j].lid => i = j
    BY <1>0, <1>1, <1>2 DEF LidsApart
  <2>3. ASSUME NEW i \in 1 .. Len(queue')
        PROVE  /\ queue'[i].op = "entries" => queue'[i].lid \in DirLids
               /\ queue'[i].op \in {"clean", "procs"} =>
                    queue'[i].lid < IF nDirFrames = 0 THEN logCursor ELSE firstDirFrame
               /\ queue'[i].op = "hdr" => queue'[i].lid >= firstDirFrame + nDirFrames
    <3>1. PICK k \in 1 .. Len(queue) : queue'[i] = queue[k]
      BY <1>1, <2>3
    <3> QED
      BY <1>0, <3>1 DEF LidsApart
  <2>4. /\ nDirFrames' = nDirFrames /\ logCursor' = logCursor
        /\ firstDirFrame' = firstDirFrame
    OBVIOUS
  <2>5. \A i \in 1 .. Len(queue') :
               /\ queue'[i].op = "entries" => queue'[i].lid \in DirLids'
               /\ queue'[i].op \in {"clean", "procs"} =>
                    queue'[i].lid < IF nDirFrames' = 0 THEN logCursor' ELSE firstDirFrame'
               /\ queue'[i].op = "hdr" => queue'[i].lid >= firstDirFrame' + nDirFrames'
    BY <2>1, <2>3, <2>4
  <2> QED
    BY <2>2, <2>5 DEF LidsApart
<1>5. TransferredRight'
  BY DEF TransferredRight
<1>6. ASSUME NEW l \in DirLids PROVE PageAt(l)' = PageAt(l)
  <2>1. \A i \in 1 .. Len(queue') : WritesEntries(i)' /\ queue'[i].lid = l =>
          \E j \in 1 .. Len(queue) :
            /\ WritesEntries(j) /\ queue[j].lid = l
            /\ content[queue[j].frame] = content'[queue'[i].frame]
    BY <1>2
  <2>2. ASSUME \A i \in 1 .. Len(queue') : WritesEntries(i)' => queue'[i].lid # l
        PROVE  disk'[l] = PageAt(l)
    <3>1. \A j \in 1 .. Len(queue) : WritesEntries(j) /\ queue[j].lid = l => j = 1
      <4> SUFFICES ASSUME NEW j \in 1 .. Len(queue), WritesEntries(j), queue[j].lid = l, j # 1
                   PROVE  FALSE
        OBVIOUS
      <4>1. j - 1 \in 1 .. Len(queue') /\ queue'[j - 1] = queue[j]
        BY <1>1
      <4>2. WritesEntries(j - 1)'
        BY <4>1 DEF WritesEntries
      <4> QED
        BY <2>2, <4>1, <4>2
    <3>2. CASE WritesEntries(1) /\ queue[1].lid = l
      <4>1. PageAt(l) = content[queue[1].frame]
        BY <1>0, <1>1, <3>2, PageInFrame
      <4>2. disk[l] = content[queue[1].frame]
        BY <1>0, <3>2 DEF TransferredRight, WritesEntries
      <4> QED
        BY <4>1, <4>2
    <3>3. CASE ~(WritesEntries(1) /\ queue[1].lid = l)
      BY <3>1, <3>3, PageOnDisk
    <3> QED
      BY <3>2, <3>3
  <2> QED
    BY <1>0, <1>4, <2>1, <2>2, PageKept
<1>7. EntriesHeld'
  BY <1>0, <1>6, EntriesKept
<1> QED
  BY <1>1, <1>3, <1>4, <1>5, <1>7


\* DoPhase2Work writes a frame of the process directory, which keeps its place
\* on the list of reserved frames.
LEMMA WriteProcDirFrameInv ==
    ASSUME Inv, WriteProcDirFrame
    PROVE  Inv'
<1>0. TypeOK /\ Counts /\ HeaderLast /\ queue \in Seq(Request) /\ LidsApart
  BY DEF Inv, TypeOK
<1>1. PICK r : r = [op |-> "procs", frame |-> reservedPages[procWritten + 1],
                    lid |-> procWritten + 1]
  OBVIOUS
<1>2. /\ phase = 2 /\ procWritten < NProcFrames /\ freeCleaning > 0
      /\ ioreq' = ioreq \cup {reservedPages[procWritten + 1]}
      /\ queue' = Append(queue, r)
      /\ procWritten' = procWritten + 1 /\ freeCleaning' = freeCleaning - 1
      /\ UNCHANGED <<phase, reservedPages, numKRODirtyPages, content, released,
                     served, disk, firstDirFrame, nDirFrames, hdrEntries, saved,
                     ckptWait, logCursor>>
  BY <1>1 DEF WriteProcDirFrame, Enqueue
<1>3. /\ procWritten \in Nat /\ procWritten + 1 \in 1 .. NProcFrames
      /\ NProcFrames \in Nat /\ NProcFrames <= NReserved
      /\ NReserved \in Nat /\ MaxLid \in Nat /\ NProcFrames < MaxLid
  BY <1>0, <1>2, ConstantsAssumption DEF TypeOK
<1>4. reservedPages[procWritten + 1] \in Frame
  <2>1. procWritten + 1 \in 1 .. Len(reservedPages)
    BY <1>0, <1>2, <1>3 DEF Counts
  <2> QED
    BY <1>0, <2>1, SeqFacts DEF TypeOK
<1>5. r \in Request /\ r.op = "procs" /\ r.lid = procWritten + 1
  BY <1>1, <1>3, <1>4 DEF Request, Lid, Frame
<1>6. /\ nDirFrames = 0 /\ logCursor \in Nat /\ r.lid < logCursor
  <2>1. nDirFrames = 0 /\ NDirty - numKRODirtyPages \in Nat
    BY <1>0, <1>2, ConstantsAssumption DEF Counts, TypeOK
  <2>2. logCursor = NProcFrames + 1 + (NDirty - numKRODirtyPages)
    BY <1>0, <1>2, <1>3, <2>1 DEF Counts
  <2> QED
    BY <1>3, <1>5, <2>1, <2>2
<1>7. /\ queue' \in Seq(Request) /\ Len(queue') = Len(queue) + 1
      /\ \A i \in 1 .. Len(queue) : queue'[i] = queue[i]
      /\ queue'[Len(queue')] = r
      /\ FramesApart' /\ LidsApart' /\ TransferredRight' /\ EntriesHeld'
  BY <1>2, <1>5, <1>6, Enqueued
<1>8. Len(queue) \in Nat /\ Len(queue') \in Nat
  BY <1>0, <1>7, SeqFacts
<1>9. TypeOK'
  <2>1. freeCleaning' \in 0 .. NCleaning /\ procWritten' \in 0 .. NProcFrames
    BY <1>0, <1>2, <1>3, ConstantsAssumption DEF TypeOK
  <2>2. ioreq' \subseteq Frame
    BY <1>0, <1>2, <1>4 DEF TypeOK
  <2> QED
    BY <1>0, <1>2, <1>7, <2>1, <2>2 DEF TypeOK
<1>10. Counts'
  <2>1. freeCleaning' + Len(queue') <= NCleaning
    BY <1>0, <1>2, <1>7, <1>8, ConstantsAssumption DEF Counts, TypeOK
  <2> QED
    BY <1>0, <1>2, <2>1 DEF Counts
<1>11. HeaderLast'
  <2>1. \A i \in 1 .. Len(queue) : queue[i].op # "hdr"
    BY <1>0, <1>2 DEF HeaderLast
  <2>2. \A i \in 1 .. Len(queue') : queue'[i].op # "hdr"
    BY <1>5, <1>7, <1>8, <2>1
  <2> QED
    BY <1>2, <2>2 DEF HeaderLast
<1> QED
  BY <1>7, <1>9, <1>10, <1>11 DEF Inv

\* CleanAKROPage allocates the next log frame.
LEMMA CleanAKROPageInv ==
    ASSUME Inv, CleanAKROPage
    PROVE  Inv'
<1>0. TypeOK /\ Counts /\ HeaderLast /\ queue \in Seq(Request) /\ LidsApart
  BY DEF Inv, TypeOK
<1>1. PICK r : r = [op |-> "clean", frame |-> 0, lid |-> logCursor]
  OBVIOUS
<1>2. /\ phase = 2 /\ numKRODirtyPages > 0 /\ freeCleaning > 0
      /\ numKRODirtyPages' = numKRODirtyPages - 1
      /\ queue' = Append(queue, r)
      /\ logCursor' = logCursor + 1 /\ freeCleaning' = freeCleaning - 1
      /\ UNCHANGED <<phase, reservedPages, procWritten, content, ioreq, released,
                     served, disk, firstDirFrame, nDirFrames, hdrEntries, saved,
                     ckptWait>>
  BY <1>1 DEF CleanAKROPage, Enqueue
<1>3. /\ nDirFrames = 0 /\ logCursor \in 1 .. MaxLid /\ MaxLid \in Nat
      /\ numKRODirtyPages' \in 0 .. NDirty
      /\ logCursor = NProcFrames + 1 + (NDirty - numKRODirtyPages)
  <2>1. /\ nDirFrames = 0 /\ numKRODirtyPages \in 1 .. NDirty /\ NDirty \in Nat
        /\ NProcFrames \in Nat /\ MaxLid \in Nat /\ NEntries \in Nat
        /\ NProcFrames + NDirty + NEntries < MaxLid
    BY <1>0, <1>2, ConstantsAssumption DEF Counts, TypeOK
  <2>2. logCursor = NProcFrames + 1 + (NDirty - numKRODirtyPages)
    BY <1>0, <1>2, <2>1 DEF Counts
  <2> QED
    BY <1>2, <2>1, <2>2
<1>4. /\ r \in Request /\ r.op = "clean" /\ r.lid < logCursor'
      /\ logCursor \in Nat /\ logCursor' \in Nat /\ logCursor' >= logCursor
  BY <1>1, <1>2, <1>3, ConstantsAssumption DEF Request, Lid
<1>5. /\ queue' \in Seq(Request) /\ Len(queue') = Len(queue) + 1
      /\ \A i \in 1 .. Len(queue) : queue'[i] = queue[i]
      /\ queue'[Len(queue')] = r
      /\ FramesApart' /\ LidsApart' /\ TransferredRight' /\ EntriesHeld'
  BY <1>2, <1>3, <1>4, Enqueued
<1>6. Len(queue) \in Nat /\ Len(queue') \in Nat
  BY <1>0, <1>5, SeqFacts
<1>7. TypeOK'
  <2>1. freeCleaning' \in 0 .. NCleaning /\ logCursor' \in 1 .. MaxLid + 1
    BY <1>0, <1>2, <1>3, ConstantsAssumption DEF TypeOK
  <2> QED
    BY <1>0, <1>2, <1>3, <1>5, <2>1 DEF TypeOK
<1>8. Counts'
  <2>1. freeCleaning' + Len(queue') <= NCleaning
    BY <1>0, <1>2, <1>5, <1>6, ConstantsAssumption DEF Counts, TypeOK
  <2>2. logCursor' = NProcFrames + 1 + (NDirty - numKRODirtyPages') + nDirFrames'
                     + (IF phase' > 3 THEN 1 ELSE 0)
    BY <1>0, <1>2, <1>3, ConstantsAssumption DEF TypeOK
  <2> QED
    BY <1>0, <1>2, <1>3, <2>1, <2>2 DEF Counts
<1>9. HeaderLast'
  <2>1. \A i \in 1 .. Len(queue) : queue[i].op # "hdr"
    BY <1>0, <1>2 DEF HeaderLast
  <2>2. \A i \in 1 .. Len(queue') : queue'[i].op # "hdr"
    BY <1>4, <1>5, <1>6, <2>1
  <2> QED
    BY <1>2, <2>2 DEF HeaderLast
<1> QED
  BY <1>5, <1>7, <1>8, <1>9 DEF Inv

\* The generation header is put behind all other requests.
LEMMA WriteGenHdrInv ==
    ASSUME Inv, WriteGenHdr
    PROVE  Inv'
<1>0. TypeOK /\ Counts /\ HeaderLast /\ queue \in Seq(Request) /\ LidsApart
  BY DEF Inv, TypeOK
<1>1. PICK r : r = [op |-> "hdr", frame |-> 0, lid |-> logCursor]
  OBVIOUS
<1>2. /\ phase = 3 /\ phase' = 4 /\ freeCleaning > 0 /\ numDirEntsToSave = 0
      /\ queue' = Append(queue, r) /\ ckptWait' = "hdr"
      /\ logCursor' = logCursor + 1 /\ freeCleaning' = freeCleaning - 1
      /\ UNCHANGED <<reservedPages, procWritten, numKRODirtyPages, content, ioreq,
                     released, served, disk, firstDirFrame, nDirFrames,
                     hdrEntries, saved>>
  BY <1>1 DEF WriteGenHdr, Enqueue
<1>3. /\ saved = NEntries /\ logCursor \in 1 .. MaxLid /\ MaxLid \in Nat
      /\ firstDirFrame + nDirFrames <= logCursor
      /\ logCursor = NProcFrames + 1 + (NDirty - numKRODirtyPages) + nDirFrames
  <2>1. /\ numKRODirtyPages \in 0 .. NDirty /\ NDirty \in Nat
        /\ NProcFrames \in Nat /\ MaxLid \in Nat /\ NEntries \in Nat
        /\ NProcFrames + NDirty + NEntries < MaxLid
        /\ nDirFrames \in 0 .. NEntries /\ saved \in 0 .. NEntries
        /\ firstDirFrame \in 0 .. MaxLid
    BY <1>0, <1>2, ConstantsAssumption DEF TypeOK
  <2>2. logCursor = NProcFrames + 1 + (NDirty - numKRODirtyPages) + nDirFrames
    BY <1>0, <1>2, <2>1 DEF Counts
  <2>3. firstDirFrame + nDirFrames <= logCursor
    BY <1>0, <1>2, <2>1, <2>2 DEF Counts
  <2>4. saved = NEntries
    BY <1>2, <2>1 DEF numDirEntsToSave
  <2> QED
    BY <1>2, <2>1, <2>2, <2>3, <2>4
<1>4. /\ r \in Request /\ r.op = "hdr" /\ r.lid >= firstDirFrame + nDirFrames
      /\ logCursor \in Nat /\ logCursor' \in Nat /\ logCursor' >= logCursor
  BY <1>1, <1>2, <1>3, ConstantsAssumption DEF Request, Lid
<1>5. /\ queue' \in Seq(Request) /\ Len(queue') = Len(queue) + 1
      /\ \A i \in 1 .. Len(queue) : queue'[i] = queue[i]
      /\ queue'[Len(queue')] = r
      /\ FramesApart' /\ LidsApart' /\ TransferredRight' /\ EntriesHeld'
  BY <1>2, <1>4, Enqueued
<1>6. Len(queue) \in Nat /\ Len(queue') \in Nat
  BY <1>0, <1>5, SeqFacts
<1>7. TypeOK'
  <2>1. freeCleaning' \in 0 .. NCleaning /\ logCursor' \in 1 .. MaxLid + 1
    BY <1>0, <1>2, <1>3, ConstantsAssumption DEF TypeOK
  <2> QED
    BY <1>0, <1>2, <1>3, <1>5, <2>1 DEF TypeOK
<1>8. Counts'
  <2>1. freeCleaning' + Len(queue') <= NCleaning
    BY <1>0, <1>2, <1>5, <1>6, ConstantsAssumption DEF Counts, TypeOK
  <2>2. logCursor' = NProcFrames + 1 + (NDirty - numKRODirtyPages') + nDirFrames'
                     + (IF phase' > 3 THEN 1 ELSE 0)
    BY <1>0, <1>2, <1>3, ConstantsAssumption DEF TypeOK
  <2>3. logCursor' > firstDirFrame + nDirFrames
    BY <1>0, <1>2, <1>3, ConstantsAssumption DEF TypeOK
  <2> QED
    BY <1>0, <1>2, <1>3, <2>1, <2>2, <2>3 DEF Counts
<1>9. HeaderLast'
  <2>1. \A i \in 1 .. Len(queue) : queue[i].op # "hdr"
    BY <1>0, <1>2 DEF HeaderLast
  <2>2. \A i \in 1 .. Len(queue') : queue'[i].op = "hdr" => i = Len(queue')
    BY <1>5, <1>6, <2>1
  <2>3. queue' # <<>>
    BY <1>5, <1>6, SeqFacts
  <2> QED
    BY <1>2, <1>4, <1>5, <2>2, <2>3 DEF HeaderLast
<1> QED
  BY <1>5, <1>7, <1>8, <1>9 DEF Inv


\* The disk reads the page of the first request.
LEMMA TransferInv ==
    ASSUME Inv, Transfer
    PROVE  Inv'
<1>0. /\ TypeOK /\ FramesApart /\ LidsApart /\ Counts /\ HeaderLast /\ EntriesHeld
      /\ queue \in Seq(Request)
  BY DEF Inv, TypeOK
<1>1. PICK c : c = IF Head(queue).frame = 0 THEN Other ELSE content[Head(queue).frame]
  OBVIOUS
<1>2. /\ queue # <<>> /\ served' = TRUE
      /\ disk' = [disk EXCEPT ![Head(queue).lid] = c]
      /\ UNCHANGED <<phase, reservedPages, procWritten, numKRODirtyPages, content,
                     ioreq, released, freeCleaning, queue, firstDirFrame,
                     nDirFrames, hdrEntries, saved, ckptWait, logCursor>>
  BY <1>1 DEF Transfer
<1>3. /\ Head(queue) = queue[1] /\ 1 \in 1 .. Len(queue) /\ queue[1] \in Request
  BY <1>0, <1>2, TailFacts
<1>4. /\ queue[1].lid \in Lid /\ disk \in [Lid -> Content]
      /\ queue[1].frame # 0 => queue[1].frame \in Frame
  BY <1>0, <1>3, ConstantsAssumption DEF TypeOK, Request, Frame
<1>5. c \in Content
  BY <1>0, <1>1, <1>3, <1>4 DEF TypeOK, Content, Other
<1>6. /\ disk' \in [Lid -> Content] /\ disk'[queue[1].lid] = c
      /\ \A l : l # queue[1].lid => disk'[l] = disk[l]
  BY <1>2, <1>3, <1>4, <1>5
<1>7. TypeOK'
  BY <1>0, <1>2, <1>6 DEF TypeOK
<1>8. FramesApart' /\ LidsApart' /\ HeaderLast' /\ Counts'
  BY <1>0, <1>2 DEF FramesApart, LidsApart, WritesEntries, DirLids, HeaderLast, Counts
<1>9. queue[1].op = "entries" => c = content[queue[1].frame]
  <2>1. queue[1].op = "entries" => queue[1].frame \in Frame
    BY <1>0, <1>3 DEF FramesApart, WritesEntries
  <2> QED
    BY <1>1, <1>3, <2>1, ConstantsAssumption DEF Frame
<1>10. TransferredRight'
  BY <1>2, <1>6, <1>9 DEF TransferredRight
<1>11. ASSUME NEW l \in DirLids PROVE PageAt(l)' = PageAt(l)
  <2>1. \A i \in 1 .. Len(queue') : WritesEntries(i)' /\ queue'[i].lid = l =>
          \E j \in 1 .. Len(queue) :
            /\ WritesEntries(j) /\ queue[j].lid = l
            /\ content[queue[j].frame] = content'[queue'[i].frame]
    BY <1>2 DEF WritesEntries
  <2>2. ASSUME \A i \in 1 .. Len(queue') : WritesEntries(i)' => queue'[i].lid # l
        PROVE  disk'[l] = PageAt(l)
    <3>1. \A i \in 1 .. Len(queue) : WritesEntries(i) => queue[i].lid # l
      BY <1>2, <2>2 DEF WritesEntries
    <3>2. PageAt(l) = disk[l]
      BY <3>1, PageOnDisk
    <3>3. queue[1].lid # l
      <4>1. CASE queue[1].op = "entries"
        BY <1>3, <3>1, <4>1 DEF WritesEntries
      <4>2. CASE queue[1].op # "entries"
        <5>1. /\ l \in Int /\ firstDirFrame <= l /\ l < firstDirFrame + nDirFrames
              /\ nDirFrames # 0 /\ queue[1].lid \in Int
          BY <1>0, <1>4, ConstantsAssumption DEF DirLids, TypeOK, Lid
        <5>2. queue[1].op \in {"clean", "procs", "hdr"}
          BY <1>3, <4>2 DEF Request
        <5>3. queue[1].lid < firstDirFrame \/ queue[1].lid >= firstDirFrame + nDirFrames
          BY <1>0, <1>3, <5>1, <5>2 DEF LidsApart
        <5> QED
          BY <1>0, <5>1, <5>3 DEF TypeOK
      <4> QED
        BY <4>1, <4>2
    <3> QED
      BY <1>6, <3>2, <3>3
  <2> QED
    BY <1>0, <1>8, <2>1, <2>2, PageKept
<1>12. EntriesHeld'
  BY <1>0, <1>2, <1>11, EntriesKept
<1> QED
  BY <1>7, <1>8, <1>10, <1>12 DEF Inv

\* The end of a write other than one that is followed by more entries.
LEMMA EndWriteInv ==
    ASSUME Inv, \/ IOReq_EndPageClean \/ IOReq_EndWrite \/ EndObDirWriteLast
                \/ IOReq_EndGenHdrWrite
    PROVE  Inv'
<1>0. TypeOK /\ Counts /\ HeaderLast /\ queue \in Seq(Request)
  BY DEF Inv, TypeOK
<1>1. /\ queue # <<>> /\ served /\ served' = FALSE /\ queue' = Tail(queue)
      /\ UNCHANGED <<reservedPages, procWritten, numKRODirtyPages, content, disk,
                     firstDirFrame, nDirFrames, hdrEntries, saved, logCursor>>
  BY DEF IOReq_EndPageClean, IOReq_EndWrite, EndObDirWriteLast, IOReq_EndGenHdrWrite,
         Completed
<1>2. Head(queue) = queue[1] /\ 1 \in 1 .. Len(queue) /\ queue[1] \in Request
  BY <1>0, <1>1, TailFacts
<1>3. /\ \/ released' = released
         \/ queue[1].op = "entries" /\ released' = released \cup {queue[1].frame}
      /\ ioreq' = ioreq \/ ioreq' = ioreq \ {queue[1].frame}
      /\ IF queue[1].op = "hdr"
           THEN phase' = 5 /\ freeCleaning' = freeCleaning /\ ckptWait' = "none"
           ELSE phase' = phase /\ IOReq_Deallocate
  BY <1>2 DEF IOReq_EndPageClean, IOReq_EndWrite, EndObDirWriteLast,
              IOReq_EndGenHdrWrite, Completed
<1>4. /\ queue' \in Seq(Request) /\ Len(queue) \in Nat \ {0}
      /\ Len(queue') = Len(queue) - 1
      /\ \A i \in 1 .. Len(queue') : queue'[i] = queue[i + 1] /\ i + 1 \in 1 .. Len(queue)
      /\ FramesApart' /\ LidsApart' /\ TransferredRight' /\ EntriesHeld'
  BY <1>1, <1>3, Dequeued
<1>5. /\ freeCleaning' = freeCleaning \/ freeCleaning' = freeCleaning + 1
      /\ ckptWait' = "none" \/ ckptWait' = ckptWait
  BY <1>3 DEF IOReq_Deallocate
<1>6. freeCleaning' \in 0 .. NCleaning /\ freeCleaning' + Len(queue') <= NCleaning
  BY <1>0, <1>4, <1>5, ConstantsAssumption DEF Counts, TypeOK
<1>7. queue[1].op = "hdr" => phase = 4 /\ Len(queue) = 1
  BY <1>0, <1>2 DEF HeaderLast
<1>8. TypeOK'
  <2>1. phase' \in 2 .. 5
    BY <1>0, <1>3 DEF TypeOK
  <2>2. ioreq' \subseteq Frame
    BY <1>0, <1>3 DEF TypeOK
  <2>3. released' \subseteq Frame
    <3>1. queue[1].op = "entries" => queue[1].frame \in Frame
      BY <1>2 DEF Inv, FramesApart, WritesEntries
    <3> QED
      BY <1>0, <1>3, <3>1 DEF TypeOK
  <2>4. ckptWait' \in {"none", "ioreq", "dirs", "hdr"}
    BY <1>0, <1>5 DEF TypeOK
  <2> QED
    BY <1>0, <1>1, <1>4, <1>6, <2>1, <2>2, <2>3, <2>4 DEF TypeOK
<1>9. Counts'
  <2>1. phase' = phase \/ (phase = 4 /\ phase' = 5)
    BY <1>3, <1>7
  <2> QED
    BY <1>0, <1>1, <1>6, <2>1 DEF Counts
<1>10. HeaderLast'
  <2>1. CASE queue[1].op = "hdr"
    <3>1. Len(queue') = 0 /\ phase' = 5
      <4>1. phase' = 5
        BY <1>3, <2>1
      <4>2. Len(queue) = 1
        BY <1>7, <2>1
      <4> QED
        BY <1>4, <4>1, <4>2
    <3>2. queue' = <<>>
      BY <1>4, <3>1, SeqFacts
    <3> QED
      BY <3>1, <3>2 DEF HeaderLast
  <2>2. CASE queue[1].op # "hdr"
    <3>1. phase' = phase /\ phase # 5
      BY <1>0, <1>1, <1>3, <2>2 DEF HeaderLast
    <3>2. \A i \in 1 .. Len(queue') : queue'[i].op = "hdr" => i = Len(queue') /\ phase' = 4
      <4> SUFFICES ASSUME NEW i \in 1 .. Len(queue'), queue'[i].op = "hdr"
                   PROVE  i = Len(queue') /\ phase' = 4
        OBVIOUS
      <4>1. i + 1 = Len(queue) /\ phase = 4
        BY <1>0, <1>4 DEF HeaderLast
      <4> QED
        BY <1>4, <3>1, <4>1
    <3>3. ASSUME phase' = 4 PROVE queue' # <<>> /\ queue'[Len(queue')].op = "hdr"
      <4>1. queue[Len(queue)].op = "hdr"
        BY <1>0, <3>1, <3>3 DEF HeaderLast
      <4>2. Len(queue) # 1
        BY <2>2, <4>1
      <4>3. Len(queue') \in 1 .. Len(queue') /\ Len(queue') + 1 = Len(queue)
        BY <1>4, <4>2
      <4>4. queue'[Len(queue')] = queue[Len(queue)]
        BY <1>4, <4>3
      <4>5. queue' # <<>>
        BY <1>4, <4>3, SeqFacts
      <4> QED
        BY <4>1, <4>4, <4>5
    <3> QED
      BY <3>1, <3>2, <3>3 DEF HeaderLast
  <2> QED
    BY <2>1, <2>2
<1> QED
  BY <1>4, <1>8, <1>9, <1>10 DEF Inv


-----------------------------------------------------------------------------
(* A page of entries is written, by the thread or, when the first request is *)
(* complete, by its handler: d is the number of requests taken away.         *)

\* The numbers: at least one entry goes into the page, and its log frame is the
\* next after those of the directory.
LEMMA PageNumbers ==
    ASSUME TypeOK, Counts, phase = 3, numDirEntsToSave > 0,
           NEW n, n = WriteDirEntsToPage(FrameRoom)
    PROVE  /\ n \in Nat \ {0} /\ saved + n \in 1 .. NEntries /\ saved + 1 \in 1 .. NEntries
           /\ logCursor \in Lid /\ logCursor + 1 \in 1 .. MaxLid + 1
           /\ nDirFrames + 1 \in 0 .. NEntries /\ nDirFrames + 1 <= saved + n
           /\ FirstDirFrame \in 1 .. MaxLid
           /\ FirstDirFrame + nDirFrames = logCursor
           /\ nDirFrames # 0 => FirstDirFrame = firstDirFrame
           /\ nDirFrames = 0 => FirstDirFrame = logCursor
<1>1. /\ NEntries \in Nat /\ FrameRoom \in Nat \ {0} /\ NProcFrames \in Nat
      /\ NDirty \in Nat /\ MaxLid \in Nat /\ NProcFrames + NDirty + NEntries < MaxLid
  BY ConstantsAssumption
<1>2. /\ saved \in 0 .. NEntries /\ saved < NEntries /\ nDirFrames \in 0 .. saved
      /\ numKRODirtyPages \in 0 .. NDirty /\ firstDirFrame \in 0 .. MaxLid
  BY <1>1 DEF TypeOK, Counts, numDirEntsToSave
<1>3. n \in Nat \ {0} /\ saved + n \in 1 .. NEntries /\ saved + 1 \in 1 .. NEntries
  BY <1>1, <1>2 DEF WriteDirEntsToPage, numDirEntsToSave
<1>4. logCursor = NProcFrames + 1 + (NDirty - numKRODirtyPages) + nDirFrames
  BY <1>1, <1>2 DEF Counts
<1>5. logCursor \in Lid /\ logCursor + 1 \in 1 .. MaxLid + 1
  BY <1>1, <1>2, <1>4 DEF Lid
<1>6. CASE nDirFrames = 0
  <2>1. FirstDirFrame = logCursor
    BY <1>6 DEF Counts, FirstDirFrame
  <2> QED
    BY <1>1, <1>2, <1>3, <1>5, <1>6, <2>1 DEF Lid
<1>7. CASE nDirFrames # 0
  <2>1. FirstDirFrame = firstDirFrame /\ logCursor = firstDirFrame + nDirFrames
        /\ firstDirFrame # 0
    BY <1>2, <1>7 DEF Counts, FirstDirFrame
  <2> QED
    BY <1>1, <1>2, <1>3, <1>5, <1>7, <2>1
<1> QED
  BY <1>6, <1>7


\* Intervals.
LEMMA IntervalEnd ==
    ASSUME NEW a \in Nat, NEW b \in Nat, a <= b
    PROVE  a .. b = (a .. b - 1) \cup {b} /\ b \notin a .. b - 1
OBVIOUS

\* The entries of a new frame follow the entries of the frames before it.
LEMMA IntervalsJoin ==
    ASSUME NEW e \in Nat, NEW h \in Nat, NEW s \in Nat, NEW n \in Nat, h <= s
    PROVE  (e \in s + 1 .. s + n \/ (h < e /\ e <= s)) <=> (h < e /\ e <= s + n)
OBVIOUS

(* A position of a queue that one request was appended to is an old position *)
(* or the last one.                                                          *)
LEMMA NewOrOld ==
    ASSUME NEW k \in Nat, NEW m, m = k + 1, NEW i \in 1 .. m
    PROVE  i \in 1 .. k \/ i = k + 1
  OBVIOUS

\* What the step does.
LEMMA PageWritten ==
    ASSUME Inv, phase = 3, phase' = 3, numDirEntsToSave > 0,
           NEW f \in Frame, NEW q \in Seq(Request), NEW d \in {0, 1},
           Len(q) = Len(queue) - d,
           \A i \in 1 .. Len(q) : i + d \in 1 .. Len(queue) /\ q[i] = queue[i + d],
           WriteAPageOfObDirEnts(f, q),
           \A i \in 1 .. Len(q) : q[i].op = "entries" => q[i].frame # f,
           f \notin released,
           d = 1 => /\ queue # <<>> /\ served /\ served' = FALSE /\ queue[1].op = "entries"
                    /\ queue[1].frame = f,
           d = 0 => served' = served,
           \A i \in 1 .. Len(reservedPages') :
             /\ \E j \in 1 .. Len(reservedPages) : reservedPages'[i] = reservedPages[j]
             /\ reservedPages'[i] # f,
           \A i, j \in 1 .. Len(reservedPages') :
             reservedPages'[i] = reservedPages'[j] => i = j,
           reservedPages' \in Seq(Frame),
           freeCleaning' \in 0 .. NCleaning, freeCleaning' + Len(q) + 1 <= NCleaning,
           ckptWait' \in {"none", "ioreq", "dirs", "hdr"},
           UNCHANGED <<procWritten, numKRODirtyPages, released, disk, hdrEntries>>
    PROVE  Inv'
<1>0. /\ TypeOK /\ FramesApart /\ LidsApart /\ Counts /\ HeaderLast /\ TransferredRight
      /\ EntriesHeld /\ queue \in Seq(Request) /\ content \in [Frame -> Content]
      /\ Len(queue) \in Nat /\ Len(q) \in Nat
  BY SeqFacts DEF Inv, TypeOK
<1>1. PICK n : n = WriteDirEntsToPage(FrameRoom)
  OBVIOUS
<1>2. PICK r : r = [op |-> "entries", frame |-> f, lid |-> logCursor]
  OBVIOUS
<1>3. PICK c : c = [kind |-> "entries", lo |-> saved + 1, hi |-> saved + n]
  OBVIOUS
<1>4. /\ content' = [content EXCEPT ![f] = c]
      /\ saved' = saved + n
      /\ ioreq' = ioreq \cup {f}
      /\ firstDirFrame' = FirstDirFrame
      /\ nDirFrames' = nDirFrames + 1
      /\ queue' = Append(q, r)
      /\ logCursor' = logCursor + 1
  BY <1>1, <1>2, <1>3 DEF WriteAPageOfObDirEnts
<1>5. /\ n \in Nat \ {0} /\ saved + n \in 1 .. NEntries /\ saved + 1 \in 1 .. NEntries
      /\ logCursor \in Lid /\ logCursor + 1 \in 1 .. MaxLid + 1
      /\ nDirFrames + 1 \in 0 .. NEntries /\ nDirFrames + 1 <= saved + n
      /\ FirstDirFrame \in 1 .. MaxLid
      /\ FirstDirFrame + nDirFrames = logCursor
      /\ nDirFrames # 0 => FirstDirFrame = firstDirFrame
      /\ nDirFrames = 0 => FirstDirFrame = logCursor
  BY <1>0, <1>1, PageNumbers
<1>6. r \in Request /\ r.op = "entries" /\ r.frame = f /\ r.lid = logCursor
  BY <1>2, <1>5, ConstantsAssumption DEF Request, Frame
<1>7. /\ queue' \in Seq(Request) /\ Len(queue') = Len(q) + 1
      /\ \A i \in 1 .. Len(q) : queue'[i] = q[i]
      /\ queue'[Len(q) + 1] = r
  BY <1>4, <1>6, AppendFacts, SMTT(30)
<1>8. \A i \in 1 .. Len(queue') :
        \/ /\ i \in 1 .. Len(q) /\ i + d \in 1 .. Len(queue)
           /\ queue'[i] = queue[i + d] /\ queue'[i] = q[i]
        \/ i = Len(q) + 1 /\ queue'[i] = r
  <2> SUFFICES ASSUME NEW i \in 1 .. Len(queue')
               PROVE  \/ /\ i \in 1 .. Len(q) /\ i + d \in 1 .. Len(queue)
                         /\ queue'[i] = queue[i + d] /\ queue'[i] = q[i]
                      \/ i = Len(q) + 1 /\ queue'[i] = r
    OBVIOUS
  <2>1. i \in 1 .. Len(q) \/ i = Len(q) + 1
    BY <1>0, <1>7, NewOrOld
  <2>2. CASE i \in 1 .. Len(q)
    BY <1>7, <2>2, ZenonT(40)
  <2>3. CASE i = Len(q) + 1
    BY <1>7, <2>3, ZenonT(40)
  <2> QED
    BY <2>1, <2>2, <2>3, ZenonT(40)
<1>9. /\ content' \in [Frame -> Content] /\ content'[f] = c
      /\ \A g \in Frame : g # f => content'[g] = content[g]
  BY <1>0, <1>3, <1>4, <1>5 DEF Content
<1>10. TypeOK'
  <2>1. saved' \in 0 .. NEntries /\ firstDirFrame' \in 0 .. MaxLid /\ phase' \in 2 .. 5
    BY <1>4, <1>5, ConstantsAssumption
  <2>2. ioreq' \subseteq Frame
    BY <1>0, <1>4 DEF TypeOK
  <2>3. served' \in BOOLEAN
    <3>1. CASE d = 0
      BY <1>0, <3>1 DEF TypeOK
    <3>2. CASE d = 1
      BY <3>2
    <3> QED
      BY <3>1, <3>2
  <2> QED
    BY <1>0, <1>4, <1>5, <1>7, <1>9, <2>1, <2>2, <2>3 DEF TypeOK
<1>11. DirLids' = DirLids \cup {logCursor} /\ logCursor \notin DirLids
  <2>1. /\ firstDirFrame \in Nat /\ nDirFrames \in Nat /\ logCursor \in Nat
        /\ FirstDirFrame \in Nat
        /\ nDirFrames = 0 <=> firstDirFrame = 0
    BY <1>0, <1>5, ConstantsAssumption DEF TypeOK, Counts, Lid
  <2>2. DirLids' = FirstDirFrame .. logCursor
    BY <1>4, <1>5, <2>1 DEF DirLids
  <2>3. CASE nDirFrames = 0
    BY <1>5, <2>1, <2>2, <2>3, SMTT(30) DEF DirLids
  <2>4. CASE nDirFrames # 0
    <3>1. DirLids = firstDirFrame .. logCursor - 1 /\ FirstDirFrame = firstDirFrame
      BY <1>5, <2>1, <2>4 DEF DirLids
    <3>2. firstDirFrame <= logCursor
      BY <1>5, <2>1, <2>4
    <3> QED
      BY <2>1, <2>2, <3>1, <3>2, IntervalEnd
  <2> QED
    BY <2>3, <2>4
<1>12. \A i \in 1 .. Len(queue') : WritesEntries(i)' /\ i # Len(q) + 1 =>
         /\ i + d \in 1 .. Len(queue) /\ WritesEntries(i + d)
         /\ queue'[i] = queue[i + d] /\ queue'[i].frame # f
         /\ queue'[i].frame \in Frame /\ queue'[i].lid \in DirLids
  <2> SUFFICES ASSUME NEW i \in 1 .. Len(queue'), WritesEntries(i)', i # Len(q) + 1
               PROVE  /\ i + d \in 1 .. Len(queue) /\ WritesEntries(i + d)
                      /\ queue'[i] = queue[i + d] /\ queue'[i].frame # f
                      /\ queue'[i].frame \in Frame /\ queue'[i].lid \in DirLids
    OBVIOUS
  <2>1. /\ i \in 1 .. Len(q) /\ i + d \in 1 .. Len(queue)
        /\ queue'[i] = queue[i + d] /\ queue'[i] = q[i] /\ queue'[i].op = "entries"
    BY <1>8, ZenonT(40) DEF WritesEntries
  <2>2. PICK k \in 1 .. Len(queue) : k = i + d
    BY <2>1
  <2>3. WritesEntries(k) /\ queue'[i] = queue[k]
    BY <2>1, <2>2 DEF WritesEntries
  <2>4. queue[k].frame \in Frame /\ queue[k].lid \in DirLids
    BY <1>0, <2>3 DEF WritesEntries, FramesApart, LidsApart
  <2> QED
    BY <2>1, <2>2, <2>3, <2>4
<1>13. FramesApart'
  <2>1. \A i \in 1 .. Len(reservedPages') : reservedPages'[i] \notin released'
    BY <1>0 DEF FramesApart
  <2>2. \A i \in 1 .. Len(queue') : WritesEntries(i)' =>
          /\ queue'[i].frame \in Frame \ released'
          /\ \A j \in 1 .. Len(reservedPages') : reservedPages'[j] # queue'[i].frame
    <3> SUFFICES ASSUME NEW i \in 1 .. Len(queue'), WritesEntries(i)'
                 PROVE  /\ queue'[i].frame \in Frame \ released'
                        /\ \A j \in 1 .. Len(reservedPages') :
                             reservedPages'[j] # queue'[i].frame
      OBVIOUS
    <3>1. CASE i = Len(q) + 1
      BY <1>6, <1>7, <3>1
    <3>2. CASE i # Len(q) + 1
      <4>1. PICK k \in 1 .. Len(queue) : WritesEntries(k) /\ queue'[i] = queue[k]
        BY <1>12, <3>2
      <4>2. /\ queue[k].frame \in Frame \ released
            /\ \A j \in 1 .. Len(reservedPages) : reservedPages[j] # queue[k].frame
        BY <1>0, <4>1 DEF FramesApart
      <4> QED
        BY <4>1, <4>2
    <3> QED
      BY <3>1, <3>2
  <2>3. \A i, j \in 1 .. Len(queue') : WritesEntries(i)' /\ WritesEntries(j)'
          /\ queue'[i].frame = queue'[j].frame => i = j
    <3> SUFFICES ASSUME NEW i \in 1 .. Len(queue'), NEW j \in 1 .. Len(queue'),
                        WritesEntries(i)', WritesEntries(j)',
                        queue'[i].frame = queue'[j].frame
                 PROVE  i = j
      OBVIOUS
    <3>1. CASE i = Len(q) + 1 \/ j = Len(q) + 1
      BY <1>6, <1>7, <1>12, <3>1
    <3>2. CASE i # Len(q) + 1 /\ j # Len(q) + 1
      <4>1. i + d = j + d
        BY <1>0, <1>12, <3>2 DEF FramesApart
      <4> QED
        BY <1>7, <4>1
    <3> QED
      BY <3>1, <3>2
  <2> QED
    BY <2>1, <2>2, <2>3 DEF FramesApart
<1>14. \A i \in 1 .. Len(queue') : queue'[i].op # "hdr"
  <2>1. \A i \in 1 .. Len(queue) : queue[i].op # "hdr"
    BY <1>0 DEF HeaderLast
  <2> QED
    BY <1>6, <1>8, <2>1, ZenonT(40)
<1>15. LidsApart'
  <2>1. ASSUME NEW i \in 1 .. Len(queue')
        PROVE  /\ queue'[i].op = "entries" => queue'[i].lid \in DirLids'
               /\ queue'[i].op \in {"clean", "procs"} => queue'[i].lid < FirstDirFrame
    <3>1. CASE i = Len(q) + 1
      BY <1>6, <1>7, <1>11, <3>1
    <3>2. CASE i + d \in 1 .. Len(queue) /\ queue'[i] = queue[i + d]
      BY <1>0, <1>5, <1>11, <3>2 DEF LidsApart
    <3> QED
      BY <1>8, <3>1, <3>2
  <2>2. \A i, j \in 1 .. Len(queue') : WritesEntries(i)' /\ WritesEntries(j)'
          /\ queue'[i].lid = queue'[j].lid => i = j
    <3> SUFFICES ASSUME NEW i \in 1 .. Len(queue'), NEW j \in 1 .. Len(queue'),
                        WritesEntries(i)', WritesEntries(j)',
                        queue'[i].lid = queue'[j].lid
                 PROVE  i = j
      OBVIOUS
    <3>1. CASE i = Len(q) + 1 \/ j = Len(q) + 1
      BY <1>6, <1>7, <1>11, <1>12, <3>1
    <3>2. CASE i # Len(q) + 1 /\ j # Len(q) + 1
      <4>1. i + d = j + d
        BY <1>0, <1>12, <3>2, ZenonT(40) DEF LidsApart
      <4> QED
        BY <1>7, <4>1, SMTT(60)
    <3> QED
      BY <3>1, <3>2
  <2>3. nDirFrames' # 0
    BY <1>0, <1>4 DEF TypeOK
  <2> QED
    BY <1>4, <1>14, <2>1, <2>2, <2>3 DEF LidsApart
<1>16. Counts'
  <2>1. freeCleaning' + Len(queue') <= NCleaning
    BY <1>0, <1>7, ConstantsAssumption
  <2>2. hdrEntries' <= saved' /\ nDirFrames' <= saved'
    BY <1>0, <1>4, <1>5 DEF TypeOK, Counts
  <2>3. /\ nDirFrames' # 0 /\ firstDirFrame' # 0
        /\ logCursor' = firstDirFrame' + nDirFrames'
    BY <1>0, <1>4, <1>5, ConstantsAssumption, SMTT(30) DEF TypeOK, Lid
  <2>4. logCursor' = NProcFrames + 1 + (NDirty - numKRODirtyPages') + nDirFrames'
                     + (IF phase' > 3 THEN 1 ELSE 0)
    BY <1>0, <1>4, ConstantsAssumption DEF TypeOK, Counts
  <2> QED
    BY <2>1, <2>2, <2>3, <2>4 DEF Counts
<1>17. HeaderLast'
  BY <1>14 DEF HeaderLast
<1>18. TransferredRight'
  <2>1. CASE d = 1
    BY <2>1 DEF TransferredRight
  <2>2. CASE d = 0
    <3> SUFFICES ASSUME served
                 PROVE  /\ queue' # <<>>
                        /\ queue'[1].op = "entries" =>
                             disk[queue'[1].lid] = content'[queue'[1].frame]
      BY <2>2 DEF TransferredRight
    <3>1. 1 \in 1 .. Len(queue) /\ 1 \in 1 .. Len(q) /\ q[1] = queue[1]
      <4>1. Len(queue) # 0
        BY <1>0, SeqFacts DEF TransferredRight
      <4> QED
        BY <1>0, <2>2, <4>1
    <3>2. queue' # <<>> /\ queue'[1] = queue[1]
      BY <1>0, <1>7, <3>1, SeqFacts
    <3>3. queue[1].op = "entries" =>
            queue[1].frame # f /\ queue[1].frame \in Frame
      <4>1. queue[1].op = "entries" => queue[1].frame \in Frame
        BY <1>0, <3>1 DEF FramesApart, WritesEntries
      <4>2. queue[1].op = "entries" => queue[1].frame # f
        BY <3>1
      <4> QED
        BY <4>1, <4>2
    <3> QED
      BY <1>0, <1>9, <3>2, <3>3 DEF TransferredRight
  <2> QED
    BY <2>1, <2>2
<1>19. ASSUME NEW l \in DirLids PROVE PageAt(l)' = PageAt(l)
  <2>1. ASSUME NEW i \in 1 .. Len(queue'), WritesEntries(i)', queue'[i].lid = l
        PROVE  \E j \in 1 .. Len(queue) :
                 /\ WritesEntries(j) /\ queue[j].lid = l
                 /\ content[queue[j].frame] = content'[queue'[i].frame]
    <3>1. i # Len(q) + 1
      BY <1>6, <1>7, <1>11, <2>1
    <3>2. PICK j \in 1 .. Len(queue) :
            /\ WritesEntries(j) /\ queue'[i] = queue[j]
            /\ queue'[i].frame # f /\ queue'[i].frame \in Frame
      BY <1>12, <2>1, <3>1
    <3> QED
      BY <1>9, <2>1, <3>2
  <2>2. ASSUME \A i \in 1 .. Len(queue') : WritesEntries(i)' => queue'[i].lid # l
        PROVE  disk'[l] = PageAt(l)
    <3>1. \A j \in 1 .. Len(queue) : WritesEntries(j) /\ queue[j].lid = l => d = 1 /\ j = 1
      <4> SUFFICES ASSUME NEW j \in 1 .. Len(queue), WritesEntries(j), queue[j].lid = l,
                          ~(d = 1 /\ j = 1)
                   PROVE  FALSE
        OBVIOUS
      <4>1. j - d \in 1 .. Len(q)
        BY <1>0
      <4>2. j - d \in 1 .. Len(queue') /\ queue'[j - d] = queue[j]
        <5>1. PICK k \in 1 .. Len(q) : k = j - d
          BY <4>1
        <5>2. k + d = j /\ k \in 1 .. Len(queue')
          BY <1>0, <1>7, <5>1
        <5>3. queue'[k] = q[k] /\ q[k] = queue[k + d]
          BY <1>7
        <5> QED
          BY <5>1, <5>2, <5>3
      <4>3. WritesEntries(j - d)'
        BY <4>2 DEF WritesEntries
      <4> QED
        BY <2>2, <4>2, <4>3
    <3>2. CASE d = 1 /\ WritesEntries(1) /\ queue[1].lid = l
      <4>1. 1 \in 1 .. Len(queue)
        BY <3>2 DEF WritesEntries
      <4>2. PageAt(l) = content[queue[1].frame]
        BY <1>0, <3>2, <4>1, PageInFrame
      <4>3. disk[l] = content[queue[1].frame]
        BY <1>0, <3>2 DEF TransferredRight, WritesEntries
      <4> QED
        BY <4>2, <4>3
    <3>3. CASE ~(d = 1 /\ WritesEntries(1) /\ queue[1].lid = l)
      <4>1. \A j \in 1 .. Len(queue) : WritesEntries(j) => queue[j].lid # l
        BY <3>1, <3>3
      <4> QED
        BY <4>1, PageOnDisk
    <3> QED
      BY <3>2, <3>3
  <2> QED
    BY <1>0, <1>15, <2>1, <2>2, PageKept
<1>20. ASSUME NEW l, l = logCursor PROVE PageAt(l)' = c
  <2>1. PICK k : k = Len(q) + 1
    OBVIOUS
  <2>2. k \in 1 .. Len(queue') /\ queue'[k] = r /\ WritesEntries(k)'
    BY <1>0, <1>6, <1>7, <2>1, SMTT(30) DEF WritesEntries
  <2> QED
    BY <1>6, <1>9, <1>15, <1>20, <2>2, PageInFrameNext
<1>21. EntriesHeld'
  <2>1. \A l \in DirLids' : IF l = logCursor THEN PageAt(l)' = c
                             ELSE l \in DirLids /\ PageAt(l)' = PageAt(l)
    BY <1>11, <1>19, <1>20
  <2>2. ASSUME NEW l \in DirLids' PROVE PageAt(l)'.kind = "entries"
    <3>1. CASE l = logCursor
      BY <1>3, <2>1, <3>1
    <3>2. CASE l # logCursor
      BY <1>0, <2>1, <3>2 DEF EntriesHeld
    <3> QED
      BY <3>1, <3>2
  <2>3. ASSUME NEW e \in 1 .. NEntries
        PROVE  (\E l \in DirLids' : e \in PageAt(l)'.lo .. PageAt(l)'.hi)
                 <=> (hdrEntries' < e /\ e <= saved')
    <3>1. (\E l \in DirLids' : e \in PageAt(l)'.lo .. PageAt(l)'.hi)
            <=> \/ e \in saved + 1 .. saved + n
                \/ \E l \in DirLids : e \in PageAt(l).lo .. PageAt(l).hi
      <4>1. c.lo = saved + 1 /\ c.hi = saved + n
        BY <1>3
      <4>2. ASSUME NEW l \in DirLids', e \in PageAt(l)'.lo .. PageAt(l)'.hi
            PROVE  \/ e \in saved + 1 .. saved + n
                   \/ \E k \in DirLids : e \in PageAt(k).lo .. PageAt(k).hi
        <5>1. CASE l = logCursor
          BY <2>1, <4>1, <4>2, <5>1
        <5>2. CASE l # logCursor
          BY <2>1, <4>2, <5>2
        <5> QED
          BY <5>1, <5>2
      <4>3. ASSUME e \in saved + 1 .. saved + n
            PROVE  \E l \in DirLids' : e \in PageAt(l)'.lo .. PageAt(l)'.hi
        <5>1. PICK l : l = logCursor
          OBVIOUS
        <5>2. l \in DirLids' /\ PageAt(l)' = c
          BY <1>11, <1>20, <5>1
        <5> QED
          BY <4>1, <4>3, <5>2
      <4>4. ASSUME NEW l \in DirLids, e \in PageAt(l).lo .. PageAt(l).hi
            PROVE  \E k \in DirLids' : e \in PageAt(k)'.lo .. PageAt(k)'.hi
        <5>1. l \in DirLids' /\ PageAt(l)' = PageAt(l)
          BY <1>11, <1>19
        <5> QED
          BY <4>4, <5>1
      <4> QED
        BY <4>2, <4>3, <4>4
    <3>2. (\E l \in DirLids : e \in PageAt(l).lo .. PageAt(l).hi)
            <=> (hdrEntries < e /\ e <= saved)
      BY <1>0 DEF EntriesHeld
    <3>3. /\ hdrEntries \in Nat /\ saved \in Nat /\ hdrEntries <= saved /\ e \in Nat
          /\ saved' = saved + n /\ hdrEntries' = hdrEntries
      BY <1>0, <1>4 DEF TypeOK, Counts
    <3>4. (e \in saved + 1 .. saved + n \/ (hdrEntries < e /\ e <= saved))
            <=> (hdrEntries' < e /\ e <= saved')
      BY <1>5, <3>3, IntervalsJoin, SMTT(30)
    <3> QED
      BY <3>1, <3>2, <3>4
  <2> QED
    BY <2>2, <2>3 DEF EntriesHeld
<1> QED
  BY <1>10, <1>13, <1>15, <1>16, <1>17, <1>18, <1>21 DEF Inv


\* DoPhase3Work fills a reserved frame.
LEMMA UseReservedFrameInv ==
    ASSUME Inv, UseReservedFrame
    PROVE  Inv'
<1>0. /\ TypeOK /\ FramesApart /\ Counts /\ queue \in Seq(Request)
      /\ reservedPages \in Seq(Frame) /\ Len(queue) \in Nat
  BY SeqFacts DEF Inv, TypeOK
<1>1. /\ phase = 3 /\ numDirEntsToSave > 0 /\ reservedPages # <<>> /\ freeCleaning > 0
      /\ reservedPages' = Tail(reservedPages) /\ freeCleaning' = freeCleaning - 1
      /\ WriteAPageOfObDirEnts(Head(reservedPages), queue)
      /\ UNCHANGED <<phase, procWritten, numKRODirtyPages, released, served, disk,
                     hdrEntries, ckptWait>>
  BY DEF UseReservedFrame, Unlinked
<1>2. PICK f : f = Head(reservedPages)
  OBVIOUS
<1>3. PICK q : q = queue
  OBVIOUS
<1>4. /\ reservedPages' \in Seq(Frame) /\ Len(reservedPages) \in Nat \ {0}
      /\ \A i \in 1 .. Len(reservedPages') :
           reservedPages'[i] = reservedPages[i + 1] /\ i + 1 \in 1 .. Len(reservedPages)
      /\ f = reservedPages[1] /\ 1 \in 1 .. Len(reservedPages) /\ f \in Frame
      /\ Len(reservedPages') = Len(reservedPages) - 1
  BY <1>0, <1>1, <1>2, TailFacts
<1>5. \A i \in 1 .. Len(reservedPages') :
        /\ \E j \in 1 .. Len(reservedPages) : reservedPages'[i] = reservedPages[j]
        /\ reservedPages'[i] # f
  BY <1>0, <1>4 DEF FramesApart
<1>6. \A i, j \in 1 .. Len(reservedPages') :
        reservedPages'[i] = reservedPages'[j] => i = j
  BY <1>0, <1>4 DEF FramesApart
<1>7. /\ f \notin released
      /\ \A i \in 1 .. Len(q) : q[i].op = "entries" => q[i].frame # f
  BY <1>0, <1>3, <1>4 DEF FramesApart, WritesEntries
<1>8. /\ freeCleaning' \in 0 .. NCleaning /\ freeCleaning' + Len(q) + 1 <= NCleaning
      /\ ckptWait' \in {"none", "ioreq", "dirs", "hdr"}
  BY <1>0, <1>1, <1>3, ConstantsAssumption DEF TypeOK, Counts
<1>9. PICK d \in {0, 1} : d = 0
  OBVIOUS
<1>10. /\ Len(q) = Len(queue) - d /\ q \in Seq(Request)
       /\ \A i \in 1 .. Len(q) : i + d \in 1 .. Len(queue) /\ q[i] = queue[i + d]
  BY <1>0, <1>3, <1>9
<1>11. /\ WriteAPageOfObDirEnts(f, q) /\ phase' = 3
       /\ d = 1 => /\ queue # <<>> /\ served /\ served' = FALSE /\ queue[1].op = "entries"
                   /\ queue[1].frame = f
       /\ d = 0 => served' = served
  BY <1>1, <1>2, <1>3, <1>9
<1> QED
  BY <1>1, <1>4, <1>5, <1>6, <1>7, <1>8, <1>10, <1>11, PageWritten

\* IOReq_EndObDirWrite fills the same frame again.
LEMMA EndObDirWriteMoreInv ==
    ASSUME Inv, EndObDirWriteMore
    PROVE  Inv'
<1>0. /\ TypeOK /\ FramesApart /\ Counts /\ LidsApart /\ HeaderLast
      /\ queue \in Seq(Request)
      /\ reservedPages \in Seq(Frame) /\ Len(queue) \in Nat
  BY SeqFacts DEF Inv, TypeOK
<1>1. /\ queue # <<>> /\ served /\ served' = FALSE /\ Head(queue).op = "entries"
      /\ numDirEntsToSave > 0
      /\ WriteAPageOfObDirEnts(Head(queue).frame, Tail(queue))
      /\ ckptWait' = IF numDirEntsToSave' = 0 THEN WakeForDirs ELSE ckptWait
      /\ UNCHANGED <<phase, reservedPages, procWritten, numKRODirtyPages,
                     released, freeCleaning, disk, hdrEntries>>
  BY DEF EndObDirWriteMore, Completed
<1>2. PICK f : f = Head(queue).frame
  OBVIOUS
<1>3. PICK q : q = Tail(queue)
  OBVIOUS
<1>4. /\ q \in Seq(Request) /\ Len(queue) \in Nat \ {0}
      /\ Len(q) = Len(queue) - 1
      /\ \A i \in 1 .. Len(q) : q[i] = queue[i + 1] /\ i + 1 \in 1 .. Len(queue)
      /\ Head(queue) = queue[1] /\ 1 \in 1 .. Len(queue) /\ queue[1] \in Request
  BY <1>0, <1>1, <1>3, TailFacts
<1>5. /\ queue[1].op = "entries" /\ queue[1].frame = f /\ WritesEntries(1)
      /\ f \in Frame \ released
      /\ \A i \in 1 .. Len(reservedPages) : reservedPages[i] # f
  BY <1>0, <1>1, <1>2, <1>4 DEF FramesApart, WritesEntries
<1>6. phase = 3
  <2>1. nDirFrames # 0
    <3>1. queue[1].lid \in DirLids
      BY <1>0, <1>4, <1>5 DEF LidsApart
    <3> QED
      BY <1>0, <3>1, SMTT(30) DEF DirLids, TypeOK
  <2>2. saved # NEntries
    BY <1>0, <1>1, ConstantsAssumption DEF numDirEntsToSave
  <2> QED
    BY <1>0, <2>1, <2>2 DEF Counts, TypeOK
<1>7. \A i \in 1 .. Len(q) : q[i].op = "entries" => q[i].frame # f
  <2> SUFFICES ASSUME NEW i \in 1 .. Len(q), q[i].op = "entries", q[i].frame = f
               PROVE  FALSE
    OBVIOUS
  <2>1. i + 1 \in 1 .. Len(queue) /\ WritesEntries(i + 1) /\ queue[i + 1].frame = f
    BY <1>4 DEF WritesEntries
  <2>2. i + 1 = 1
    BY <1>0, <1>4, <1>5, <2>1 DEF FramesApart
  <2> QED
    BY <1>4, <2>2
<1>8. /\ freeCleaning' \in 0 .. NCleaning /\ freeCleaning' + Len(q) + 1 <= NCleaning
  BY <1>0, <1>1, <1>4, ConstantsAssumption DEF TypeOK, Counts
<1>9. ckptWait' \in {"none", "ioreq", "dirs", "hdr"}
  BY <1>0, <1>1 DEF TypeOK, WakeForDirs
<1>10. PICK d \in {0, 1} : d = 1
  OBVIOUS
<1>11. /\ Len(q) = Len(queue) - d
       /\ \A i \in 1 .. Len(q) : i + d \in 1 .. Len(queue) /\ q[i] = queue[i + d]
  BY <1>4, <1>10
<1>12. /\ WriteAPageOfObDirEnts(f, q) /\ phase' = 3
       /\ d = 1 => /\ queue # <<>> /\ served /\ served' = FALSE /\ queue[1].op = "entries"
                   /\ queue[1].frame = f
       /\ d = 0 => served' = served
  BY <1>1, <1>2, <1>3, <1>5, <1>6, <1>10
<1>13. /\ \A i \in 1 .. Len(reservedPages') :
            /\ \E j \in 1 .. Len(reservedPages) : reservedPages'[i] = reservedPages[j]
            /\ reservedPages'[i] # f
       /\ \A i, j \in 1 .. Len(reservedPages') :
            reservedPages'[i] = reservedPages'[j] => i = j
       /\ reservedPages' \in Seq(Frame)
  <2>1. reservedPages' = reservedPages
    BY <1>1
  <2>2. \A i \in 1 .. Len(reservedPages) :
          /\ \E j \in 1 .. Len(reservedPages) : reservedPages[i] = reservedPages[j]
          /\ reservedPages[i] # f
    BY <1>5
  <2>3. \A i, j \in 1 .. Len(reservedPages) : reservedPages[i] = reservedPages[j] => i = j
    BY <1>0 DEF FramesApart
  <2>4. reservedPages' \in Seq(Frame)
    BY <1>0, <2>1
  <2> QED
    BY <2>1, <2>2, <2>3, <2>4
<1>14. /\ f \in Frame /\ f \notin released /\ q \in Seq(Request)
       /\ numDirEntsToSave > 0
       /\ UNCHANGED <<procWritten, numKRODirtyPages, released, disk, hdrEntries>>
  BY <1>1, <1>4, <1>5
<1> QED
  BY <1>6, <1>7, <1>8, <1>9, <1>11, <1>12, <1>13, <1>14, PageWritten

-----------------------------------------------------------------------------
(* The invariant of the specification.                                       *)

\* Every step keeps the invariant.
LEMMA NextInv == Inv /\ [Next]_vars => Inv'
<1> SUFFICES ASSUME Inv, [Next]_vars PROVE Inv'
  OBVIOUS
<1>1. CASE UNCHANGED vars
  <2>1. TypeOK' /\ FramesApart' /\ LidsApart' /\ Counts' /\ HeaderLast'
    BY <1>1 DEF Inv, vars, TypeOK, FramesApart, LidsApart, WritesEntries, DirLids,
                Counts, HeaderLast
  <2>2. TransferredRight' /\ EntriesHeld'
    BY <1>1, QuietStep DEF vars
  <2> QED
    BY <2>1, <2>2 DEF Inv
<1>2. CASE WriteProcDirFrame
  BY <1>2, WriteProcDirFrameInv
<1>3. CASE CleanAKROPage
  BY <1>3, CleanAKROPageInv
<1>4. CASE EndPhase2
  BY <1>4, EndPhase2Inv
<1>5. CASE UseReservedFrame
  BY <1>5, UseReservedFrameInv
<1>6. CASE YieldWithFrame \/ ReleaseReservedFrame
  BY <1>6, UnlinkInv
<1>7. CASE SleepForDirs
  BY <1>7, SleepForDirsInv
<1>8. CASE WriteGenHdr
  BY <1>8, WriteGenHdrInv
<1>9. CASE Transfer
  BY <1>9, TransferInv
<1>10. CASE \/ IOReq_EndPageClean \/ IOReq_EndWrite \/ EndObDirWriteLast
            \/ IOReq_EndGenHdrWrite
  BY <1>10, EndWriteInv
<1>11. CASE EndObDirWriteMore
  BY <1>11, EndObDirWriteMoreInv
<1>12. ASSUME NEW f \in Frame, GrabPageFrame(f) PROVE Inv'
  BY <1>12, GrabPageFrameInv
<1> QED
  BY <1>1, <1>2, <1>3, <1>4, <1>5, <1>6, <1>7, <1>8, <1>9, <1>10, <1>11, <1>12, Zenon
  DEF Next, CheckpointThread, Disk

\* The invariant holds in every reachable state.
LEMMA InvAlways == Spec => []Inv
BY InitInv, NextInv, PTL DEF Spec

\* The counters stay in their ranges whoever takes turns: IORequests are not
\* freed twice, no page of the directory is empty, and no more log frames are
\* used than one for each process frame, dirty page and entry and the header.
THEOREM TypeCorrect == Spec => []TypeOK
<1>1. Inv => TypeOK
  BY DEF Inv
<1> QED
  BY <1>1, InvAlways, PTL

\* A frame handed to the disk by DoPhase3Work or refilled by
\* IOReq_EndObDirWrite is neither filled nor released again before the disk
\* has read it.
THEOREM FramesCorrect == Spec => []FramesHeld
<1>1. Inv => FramesHeld
  BY DEF Inv, FramesApart, WritesEntries, FramesHeld
<1> QED
  BY <1>1, InvAlways, PTL

\* When the generation header is on disk, restart finds every entry of the
\* generation in the header or in the frames that it names.
THEOREM DirectoryCorrect == Spec => []DirectoryComplete
<1>1. ASSUME Inv PROVE DirectoryComplete
  <2> SUFFICES ASSUME phase = 5
               PROVE  /\ \A c \in DirFrames : c.kind = "entries"
                      /\ UNION {c.lo .. c.hi : c \in DirFrames} = hdrEntries + 1 .. NEntries
    BY DEF DirectoryComplete
  <2>0. TypeOK /\ Counts /\ HeaderLast /\ EntriesHeld
    BY <1>1 DEF Inv
  <2>1. saved = NEntries /\ queue = <<>> /\ Len(queue) = 0
    BY <2>0 DEF Counts, HeaderLast
  <2>2. \A l : PageAt(l) = disk[l]
    BY <2>1, PageOnDisk
  <2>3. {k \in Lid : firstDirFrame <= k /\ k < firstDirFrame + nDirFrames} = DirLids
    <3>1. /\ firstDirFrame \in Nat /\ nDirFrames \in Nat /\ MaxLid \in Nat
          /\ logCursor \in 1 .. MaxLid + 1
          /\ nDirFrames > 0 =>
               firstDirFrame > 0 /\ logCursor > firstDirFrame + nDirFrames
      BY <2>0, ConstantsAssumption DEF TypeOK, Counts
    <3> QED
      BY <3>1 DEF DirLids, Lid
  <2>4. DirFrames = {disk[l] : l \in DirLids}
    BY <2>3 DEF DirFrames
  <2>5. \A c \in DirFrames : c.kind = "entries"
    BY <2>0, <2>2, <2>4 DEF EntriesHeld
  <2>6. \A c \in DirFrames : c.lo \in 1 .. NEntries /\ c.hi \in 1 .. NEntries
    <3>1. \A c \in DirFrames : c \in Content
      BY <2>0, <2>3, <2>4 DEF TypeOK
    <3> QED
      BY <2>5, <3>1 DEF Content
  <2>7. \A e \in 1 .. NEntries : (\E c \in DirFrames : e \in c.lo .. c.hi) <=> hdrEntries < e
    <3> SUFFICES ASSUME NEW e \in 1 .. NEntries
                 PROVE  (\E c \in DirFrames : e \in c.lo .. c.hi) <=> hdrEntries < e
      OBVIOUS
    <3>1. (\E l \in DirLids : e \in disk[l].lo .. disk[l].hi) <=> hdrEntries < e
      BY <2>0, <2>1, <2>2, ConstantsAssumption DEF EntriesHeld
    <3> QED
      BY <2>4, <3>1
  <2>8. \A c \in DirFrames : \A e \in c.lo .. c.hi : e \in 1 .. NEntries
    BY <2>6, ConstantsAssumption
  <2>9. hdrEntries \in Nat /\ NEntries \in Nat
    BY <2>0, ConstantsAssumption DEF TypeOK
  <2>10. UNION {c.lo .. c.hi : c \in DirFrames} = hdrEntries + 1 .. NEntries
    <3>1. ASSUME NEW e \in UNION {c.lo .. c.hi : c \in DirFrames}
          PROVE  e \in hdrEntries + 1 .. NEntries
      <4>1. PICK c \in DirFrames : e \in c.lo .. c.hi
        OBVIOUS
      <4>2. e \in 1 .. NEntries /\ hdrEntries < e
        BY <2>7, <2>8, <4>1
      <4> QED
        BY <2>9, <4>2
    <3>2. ASSUME NEW e \in hdrEntries + 1 .. NEntries
          PROVE  e \in UNION {c.lo .. c.hi : c \in DirFrames}
      <4>1. e \in 1 .. NEntries /\ hdrEntries < e
        BY <2>9
      <4>2. PICK c \in DirFrames : e \in c.lo .. c.hi
        BY <2>7, <4>1
      <4> QED
        BY <4>2
    <3> QED
      BY <3>1, <3>2
  <2> QED
    BY <2>5, <2>10
<1> QED
  BY <1>1, InvAlways, PTL
=============================================================================
