------------------------- MODULE EventBufferProofs -------------------------
(***************************************************************************)
(* Proofs about the event buffer, for every size, watershed and bound, and *)
(* for both builds: as long as no interval record has overlapped a batch   *)
(* or a read (raced), the buffer keeps what was added, the batches in it   *)
(* are whole, and nobody sleeps near its end; and the buffer implements a  *)
(* log to which a batch is added in one step.                              *)
(***************************************************************************)
EXTENDS EventBuffer, SequenceTheorems, TLAPS

(* The types alone; TypeOK also says where the position is.                *)
Types ==
  /\ event_buffer \in [0 .. BufferSize - 1 -> Entries]
  /\ buffer_pos \in Nat
  /\ buffer_ready \in BOOLEAN /\ buffer_dump \in BOOLEAN
  /\ opened \in BOOLEAN /\ started \in BOOLEAN /\ faulted \in BOOLEAN /\ raced \in BOOLEAN
  /\ buffer_sem \in {"free", "sync", "daemon"}
  /\ control \in {"idle", "start", "adapt", "stop"}
  /\ left \in [Writers -> Nat]
  /\ entry \in [Writers -> Entries]
  /\ slot \in [Writers -> Nat \cup {NoSlot}]
  /\ daemon \in {"idle", "wait", "check", "lock", "copy", "reset"}
  /\ result \in {"none", "data", "EINTR", "EAGAIN", "EFAULT"}
  /\ batches \in 0 .. MaxBatches /\ failures \in 0 .. MaxFailures
  /\ copied \in Nat /\ unread \in Seq(Entries)

(* A writer with an entry in its slot still has to count it.               *)
SlotsCounted == \A w \in Writers : slot[w] # NoSlot => left[w] > 0

(* Who adds or reads holds buffer_sem, but for the interval record.        *)
SemHeld ==
  /\ left["sync"] > 0 => buffer_sem = "sync"
  /\ daemon \in {"copy", "reset"} <=> buffer_sem = "daemon"
  /\ left["control"] > 0 => control # "idle"

(* That one ran while nobody held it.                                      *)
OneAtATime == left["control"] > 0 => buffer_sem = "free"

(* The array is what was added, and the entry of a slot is the next.       *)
ArrayKept ==
  /\ buffer_pos <= BufferSize
  /\ Len(unread) = buffer_pos
  /\ \A i \in 1 .. buffer_pos : unread[i] = event_buffer[i - 1]
  /\ \A w \in Writers : slot[w] # NoSlot =>
       /\ slot[w] = buffer_pos
       /\ buffer_pos < BufferSize
       /\ event_buffer[buffer_pos] = entry[w]
  /\ daemon = "reset" => copied = buffer_pos

(* What a writer adds next goes on where its batch is, or is lost.         *)
BatchGoesOn ==
  /\ \A k \in 1 .. Len(unread) : unread[k].place > 1 => k > 1 /\ unread[k] = NextPlace(unread[k - 1])
  /\ \A w \in Writers : left[w] > 0 =>
       \/ entry[w].place <= 1
       \/ buffer_pos = BufferSize
       \/ Len(unread) > 0 /\ entry[w] = NextPlace(unread[Len(unread)])

(* Near the end the daemon has been called, unless it is reading.          *)
Called == faulted \/ (NearTheEnd /\ buffer_sem # "daemon" => buffer_ready)

Locked == SlotsCounted /\ SemHeld
KeptInv == OneAtATime /\ ArrayKept /\ BatchGoesOn /\ Called
Kept    == raced \/ KeptInv

BufferInv == Types /\ Locked /\ Kept

-----------------------------------------------------------------------------
LEMMA EntryTyped ==
  ASSUME Types, NEW w \in Writers
  PROVE  /\ entry[w] \in Entries
         /\ [entry EXCEPT ![w] = NextPlace(@)] \in [Writers -> Entries]
<1>1. entry[w] \in Entries
  BY DEF Types
<1>2. NextPlace(entry[w]) \in Entries
  BY <1>1 DEF NextPlace, Entries
<1> QED
  BY <1>1, <1>2 DEF Types

LEMMA BatchTyped ==
  ASSUME Types, NEW w \in Writers, NEW length \in Nat, batches < MaxBatches, Batch(w, length)
  PROVE  /\ batches' \in 0 .. MaxBatches
         /\ left' \in [Writers -> Nat] /\ entry' \in [Writers -> Entries] /\ slot' = slot
<1>1. batches + 1 \in 0 .. MaxBatches
  BY EventBufferAssumption DEF Types
<1>2. [by |-> w, batch |-> batches + 1, place |-> 1] \in Entries
  BY <1>1 DEF Entries
<1> QED
  BY <1>1, <1>2 DEF Batch, Types

LEMMA TypesInitially == Init => Types
<1> SUFFICES ASSUME Init PROVE Types
  OBVIOUS
<1>1. Blank \in Entries
  BY EventBufferAssumption DEF Blank, Entries, Writers
<1>2. batches \in 0 .. MaxBatches /\ failures \in 0 .. MaxFailures
  BY EventBufferAssumption DEF Init
<1> QED
  BY <1>1, <1>2, EmptySeq DEF Init, Types

LEMMA TypesKept == Types /\ SlotsCounted /\ [Next]_vars => Types'
<1> SUFFICES ASSUME Types, SlotsCounted, [Next]_vars PROVE Types'
  OBVIOUS
<1> USE DEF bufferVars, flagVars, sessionVars, writerVars, readerVars, NotRead
<1>1. ASSUME NEW length \in 1 .. MaxBatch, BeginSync(length) PROVE Types'
  <2>1. length \in Nat /\ "sync" \in Writers
    BY DEF Writers
  <2> QED
    BY <1>1, <2>1, BatchTyped DEF BeginSync, Types
<1>2. ASSUME NEW function \in {"start", "adapt", "stop"}, BeginControl(function) PROVE Types'
  <2>1. IntervalRecord \in Nat /\ "control" \in Writers
    BY DEF IntervalRecord, Writers
  <2>2. /\ batches' \in 0 .. MaxBatches /\ left' \in [Writers -> Nat]
        /\ entry' \in [Writers -> Entries] /\ slot' = slot
    BY <1>2, <2>1, BatchTyped DEF BeginControl, Types
  <2>3. raced' \in BOOLEAN /\ started' \in BOOLEAN
    BY <1>2 DEF BeginControl, Types
  <2>4. control' \in {"idle", "start", "adapt", "stop"}
    BY <1>2 DEF BeginControl
  <2> QED
    BY <1>2, <2>2, <2>3, <2>4 DEF BeginControl, Types
<1>3. CASE Dump
  BY <1>3, EventBufferAssumption DEF Dump, WakeUp, Types
<1>4. CASE Open
  <2>1. opened' \in BOOLEAN /\ buffer_dump' \in BOOLEAN
    BY <1>4 DEF Open
  <2> QED
    BY <1>4, <2>1 DEF Open, Types
<1>5. CASE Release
  BY <1>5, EmptySeq DEF Release, Types
<1>6. ASSUME NEW w \in Writers, AddEventEntry(w) PROVE Types'
  <2>1. CASE LoseEntry(w)
    BY <2>1, EntryTyped DEF LoseEntry, NextEntry, Types
  <2>2. CASE StoreEntry(w)
    <3>1. slot' \in [Writers -> Nat \cup {NoSlot}]
      BY <2>2 DEF StoreEntry, Types
    <3>2. event_buffer' \in [0 .. BufferSize - 1 -> Entries]
      BY <2>2, EntryTyped DEF StoreEntry, Types
    <3> QED
      BY <2>2, <3>1, <3>2 DEF StoreEntry, Types
  <2>3. CASE AdvancePos(w)
    <3>1. slot[w] \in Nat
      BY <2>3 DEF AdvancePos, Types
    <3>2. Append(unread, entry[w]) \in Seq(Entries)
      BY EntryTyped DEF Types
    <3>3. buffer_pos' \in Nat /\ buffer_ready' \in BOOLEAN
      BY <2>3, <3>1 DEF AdvancePos, WakePoint, Types
    <3>4. left' \in [Writers -> Nat]
      BY <2>3 DEF AdvancePos, NextEntry, Types, SlotsCounted
    <3>5. entry' \in [Writers -> Entries]
      BY <2>3, EntryTyped DEF AdvancePos, NextEntry
    <3>6. slot' \in [Writers -> Nat \cup {NoSlot}]
      BY <2>3 DEF AdvancePos, Types
    <3> QED
      BY <2>3, <3>2, <3>3, <3>4, <3>5, <3>6 DEF AdvancePos, NextEntry, Types
  <2> QED
    BY <1>6, <2>1, <2>2, <2>3 DEF AddEventEntry
<1>7. CASE EndSync
  BY <1>7 DEF EndSync, Types
<1>8. CASE EndStart
  <2>1. buffer_dump' \in BOOLEAN
    BY <1>8 DEF EndStart
  <2> QED
    BY <1>8, <2>1 DEF EndStart, Types
<1>9. CASE EndStop
  BY <1>9, EventBufferAssumption DEF EndStop, WakeUp, Types
<1>10. CASE Read \/ Wake \/ CheckReady \/ Copy
  BY <1>10 DEF Read, Wake, CheckReady, Copy, Types
<1>11. CASE Lock
  <2>1. raced' \in BOOLEAN
    BY <1>11 DEF Lock
  <2> QED
    BY <1>11, <2>1 DEF Lock, Types
<1>12. CASE Reset
  <2>1. SubSeq(unread, copied + 1, Len(unread)) \in Seq(Entries)
    BY DEF Types
  <2> QED
    BY <1>12, <2>1 DEF Reset, Types
<1>13. CASE Signal \/ CopyFault
  <2>1. failures' \in 0 .. MaxFailures
    BY <1>13, EventBufferAssumption DEF Signal, CopyFault, Types
  <2>2. CASE Signal
    BY <2>1, <2>2 DEF Signal, Types
  <2>3. CASE CopyFault
    BY <2>1, <2>3 DEF CopyFault, Types
  <2> QED
    BY <1>13, <2>2, <2>3
<1>14. CASE UNCHANGED vars
  BY <1>14 DEF vars, Types
<1> QED
  BY <1>1, <1>2, <1>3, <1>5, <1>6, <1>7, <1>8, <1>10, <1>12, <1>13, <1>14, <1>9,
     <1>11, <1>4 DEF Next, Request, SyncStep, ControlStep, ReadStep, Writers

-----------------------------------------------------------------------------
LEMMA LockedInitially == Init => Locked
BY DEF Init, Locked, SlotsCounted, SemHeld, Writers

LEMMA LockedKept == Types /\ Locked /\ [Next]_vars => Locked'
<1> SUFFICES ASSUME Types, Locked, [Next]_vars PROVE Locked'
  OBVIOUS
<1> USE DEF bufferVars, flagVars, sessionVars, writerVars, readerVars, NotRead,
            Locked, SlotsCounted, SemHeld
<1>1. ASSUME NEW length \in 1 .. MaxBatch, BeginSync(length) PROVE Locked'
  BY <1>1 DEF BeginSync, Batch, Types, Writers
<1>2. ASSUME NEW function \in {"start", "adapt", "stop"}, BeginControl(function) PROVE Locked'
  <2>1. CASE Batch("control", IntervalRecord)
    BY <1>2, <2>1 DEF BeginControl, Batch, IntervalRecord, Types, Writers
  <2>2. CASE UNCHANGED writerVars
    BY <1>2, <2>2 DEF BeginControl, Types
  <2> QED
    BY <1>2, <2>1, <2>2 DEF BeginControl
<1>3. CASE Dump \/ Open \/ Release
  BY <1>3 DEF Dump, WakeUp, Open, Release
<1>4. ASSUME NEW w \in Writers, AddEventEntry(w) PROVE Locked'
  <2>1. CASE LoseEntry(w)
    BY <2>1 DEF LoseEntry, NextEntry, Types, Writers
  <2>2. CASE StoreEntry(w)
    BY <2>2 DEF StoreEntry, Types, Writers
  <2>3. CASE AdvancePos(w)
    BY <2>3 DEF AdvancePos, NextEntry, Types, Writers
  <2> QED
    BY <1>4, <2>1, <2>2, <2>3 DEF AddEventEntry
<1>5. CASE EndSync
  BY <1>5 DEF EndSync, Types
<1>6. CASE EndStart \/ EndStop
  BY <1>6 DEF EndStart, EndStop, WakeUp, Types
<1>7. CASE Read \/ Wake \/ CheckReady \/ Copy \/ Signal
  BY <1>7 DEF Read, Wake, CheckReady, Copy, Signal
<1>8. CASE Lock \/ Reset \/ CopyFault
  BY <1>8 DEF Lock, Reset, CopyFault, Types
<1>9. CASE UNCHANGED vars
  BY <1>9 DEF vars
<1> QED
  BY <1>1, <1>2, <1>3, <1>4, <1>5, <1>6, <1>7, <1>8, <1>9
     DEF Next, Request, SyncStep, ControlStep, ReadStep, Writers

-----------------------------------------------------------------------------
LEMMA KeptInitially == Init => KeptInv
<1> SUFFICES ASSUME Init PROVE KeptInv
  OBVIOUS
<1>1. ArrayKept
  BY EventBufferAssumption DEF Init, ArrayKept
<1>2. Called
  BY EventBufferAssumption DEF Init, Called, NearTheEnd
<1>3. OneAtATime /\ BatchGoesOn
  BY DEF Init, OneAtATime, BatchGoesOn, Writers
<1> QED
  BY <1>1, <1>2, <1>3 DEF KeptInv

(* Adding an entry appends it, behind the rest of its batch.               *)
LEMMA AddKeepsAll ==
  ASSUME Types, Locked, KeptInv, NEW w \in Writers, AddEventEntry(w)
  PROVE  KeptInv'
<1> USE DEF bufferVars, flagVars, sessionVars, readerVars
<1>1. entry[w] \in Entries /\ left[w] > 0 /\ left[w] \in Nat
  BY DEF AddEventEntry, LoseEntry, StoreEntry, AdvancePos, Locked, SlotsCounted, Types
<1>2. \A v \in Writers : left[v] > 0 => v = w
  BY <1>1 DEF KeptInv, OneAtATime, Locked, SemHeld, Writers
<1>3. daemon # "reset" /\ buffer_sem # "daemon"
  BY <1>1 DEF KeptInv, OneAtATime, Locked, SemHeld, Writers
<1>4. OneAtATime'
  BY <1>1 DEF AddEventEntry, LoseEntry, StoreEntry, AdvancePos, NextEntry, KeptInv, OneAtATime,
              Types, Writers
<1>5. CASE LoseEntry(w)
  <2>1. ArrayKept'
    BY <1>1, <1>2, <1>3, <1>5
       DEF LoseEntry, NextEntry, KeptInv, ArrayKept, Locked, SlotsCounted, Types
  <2>2. BatchGoesOn'
    BY <1>2, <1>5 DEF LoseEntry, BufferFull, NextEntry, KeptInv, BatchGoesOn, Types
  <2>3. Called'
    BY <1>5 DEF LoseEntry, KeptInv, Called, NearTheEnd
  <2> QED
    BY <1>4, <2>1, <2>2, <2>3 DEF KeptInv
<1>6. CASE StoreEntry(w)
  <2>1. buffer_pos < BufferSize /\ buffer_pos \in 0 .. BufferSize - 1
    BY <1>6, EventBufferAssumption DEF StoreEntry, BufferFull, KeptInv, ArrayKept, Types
  <2>2. /\ event_buffer' = [event_buffer EXCEPT ![buffer_pos] = entry[w]]
        /\ slot' = [slot EXCEPT ![w] = buffer_pos]
        /\ UNCHANGED << buffer_pos, unread, entry, left, daemon, copied >>
    BY <1>6, <2>1 DEF StoreEntry
  <2>3. event_buffer'[buffer_pos] = entry[w] /\ \A i \in 1 .. buffer_pos :
          event_buffer'[i - 1] = event_buffer[i - 1]
    BY <2>1, <2>2, EventBufferAssumption DEF Types
  <2>4. \A v \in Writers : slot'[v] # NoSlot => v = w /\ slot'[v] = buffer_pos
    BY <1>2, <2>2 DEF Locked, SlotsCounted, Types
  <2>5. ArrayKept'
    BY <1>3, <2>1, <2>2, <2>3, <2>4 DEF KeptInv, ArrayKept
  <2>6. BatchGoesOn'
    BY <2>2 DEF KeptInv, BatchGoesOn
  <2>7. Called'
    BY <1>6 DEF StoreEntry, KeptInv, Called, NearTheEnd
  <2> QED
    BY <1>4, <2>5, <2>6, <2>7 DEF KeptInv
<1>7. CASE AdvancePos(w)
  <2>1. /\ slot[w] = buffer_pos /\ buffer_pos < BufferSize
        /\ event_buffer[buffer_pos] = entry[w] /\ Len(unread) = buffer_pos
    BY <1>7 DEF AdvancePos, KeptInv, ArrayKept
  <2>2. /\ buffer_pos' = buffer_pos + 1
        /\ buffer_ready' = (buffer_ready \/ WakePoint(buffer_pos + 1))
        /\ unread' = Append(unread, entry[w])
        /\ slot' = [slot EXCEPT ![w] = NoSlot]
        /\ entry' = [entry EXCEPT ![w] = NextPlace(@)]
        /\ left' = [left EXCEPT ![w] = @ - 1]
        /\ UNCHANGED << event_buffer, daemon, copied, buffer_sem, faulted >>
    BY <1>7, <2>1 DEF AdvancePos, NextEntry
  <2>3. /\ Len(unread') = Len(unread) + 1 /\ unread'[Len(unread) + 1] = entry[w]
        /\ \A k \in 1 .. Len(unread) : unread'[k] = unread[k]
    BY <1>1, <2>2, AppendProperties DEF Types
  <2>4. ArrayKept'
    <3>1. \A i \in 1 .. buffer_pos' : unread'[i] = event_buffer'[i - 1]
      BY <2>1, <2>2, <2>3 DEF KeptInv, ArrayKept, Types
    <3>2. \A v \in Writers : slot'[v] = NoSlot
      BY <1>2, <2>2 DEF Locked, SlotsCounted, Types
    <3> QED
      BY <1>3, <2>1, <2>2, <2>3, <3>1, <3>2, EventBufferAssumption DEF ArrayKept, Types
  <2>5. BatchGoesOn'
    <3>1. entry[w].place > 1 => Len(unread) > 0 /\ entry[w] = NextPlace(unread[Len(unread)])
      BY <1>1, <2>1, EventBufferAssumption DEF KeptInv, BatchGoesOn, Types, Entries
    <3>2. \A k \in 1 .. Len(unread') :
            unread'[k].place > 1 => k > 1 /\ unread'[k] = NextPlace(unread'[k - 1])
      <4> SUFFICES ASSUME NEW k \in 1 .. Len(unread'), unread'[k].place > 1
                   PROVE  k > 1 /\ unread'[k] = NextPlace(unread'[k - 1])
        OBVIOUS
      <4>1. Len(unread) \in Nat
        BY <2>1 DEF Types
      <4>2. CASE k = Len(unread) + 1
        BY <2>3, <3>1, <4>1, <4>2
      <4>3. CASE k \in 1 .. Len(unread)
        BY <2>3, <4>1, <4>3 DEF KeptInv, BatchGoesOn
      <4> QED
        BY <2>3, <4>1, <4>2, <4>3
    <3>3. \A v \in Writers : left'[v] > 0 =>
            Len(unread') > 0 /\ entry'[v] = NextPlace(unread'[Len(unread')])
      BY <1>1, <1>2, <2>1, <2>2, <2>3 DEF Types
    <3> QED
      BY <3>2, <3>3 DEF BatchGoesOn
  <2>6. Called'
    <3>1. NearTheEnd' => NearTheEnd \/ WakePoint(buffer_pos + 1)
      BY <2>2, EventBufferAssumption DEF NearTheEnd, WakePoint, Types
    <3>2. faulted \/ (NearTheEnd => buffer_ready)
      BY <1>3 DEF KeptInv, Called
    <3>3. faulted \/ (NearTheEnd' => buffer_ready')
      BY <2>2, <3>1, <3>2
    <3> QED
      BY <2>2, <3>3 DEF Called
  <2> QED
    BY <1>4, <2>4, <2>5, <2>6 DEF KeptInv
<1> QED
  BY <1>5, <1>6, <1>7 DEF AddEventEntry

LEMMA KeptKept == Types /\ Locked /\ Kept /\ [Next]_vars => Kept'
<1> SUFFICES ASSUME Types, Locked, KeptInv, ~raced, ~raced', [Next]_vars PROVE KeptInv'
  <2>1. [Next]_vars /\ ~raced' => ~raced
    BY DEF Next, Request, SyncStep, ControlStep, ReadStep, AddEventEntry, LoseEntry, StoreEntry,
           AdvancePos, BeginSync, EndSync, BeginControl, EndStart, EndStop, Dump, Open, Release,
           Read, Wake, Signal, CheckReady, Lock, Copy, CopyFault, Reset, NotRead, vars
  <2> QED
    BY <2>1 DEF Kept
<1> USE DEF bufferVars, flagVars, sessionVars, writerVars, readerVars, NotRead
<1>1. ASSUME NEW length \in 1 .. MaxBatch, BeginSync(length) PROVE KeptInv'
  <2>1. ~(left["control"] > 0)
    BY <1>1 DEF BeginSync
  <2>2. left["control"] = 0
    BY <2>1 DEF Types, Writers
  <2>3. /\ entry' = [entry EXCEPT !["sync"] = [by |-> "sync", batch |-> batches + 1, place |-> 1]]
        /\ left' = [left EXCEPT !["sync"] = length]
        /\ buffer_sem = "free" /\ buffer_sem' = "sync"
        /\ UNCHANGED << event_buffer, buffer_pos, unread, slot, daemon, copied, buffer_ready,
                        faulted >>
    BY <1>1 DEF BeginSync, Batch
  <2>4. slot["sync"] = NoSlot /\ slot["control"] = NoSlot
    BY <2>3, <2>2 DEF Locked, SlotsCounted, SemHeld, Types, Writers
  <2>5. OneAtATime' /\ Called'
    BY <2>3, <2>2 DEF KeptInv, OneAtATime, Called, NearTheEnd, Types, Writers
  <2>6. ArrayKept'
    BY <2>3, <2>4 DEF KeptInv, ArrayKept, Writers
  <2>7. BatchGoesOn'
    BY <2>3, <2>2 DEF KeptInv, BatchGoesOn, Types, Writers
  <2> QED
    BY <2>5, <2>6, <2>7 DEF KeptInv
<1>2. ASSUME NEW function \in {"start", "adapt", "stop"}, BeginControl(function) PROVE KeptInv'
  <2>1. UNCHANGED << event_buffer, buffer_pos, unread, slot, daemon, copied, buffer_ready,
                     buffer_sem, faulted >>
    BY <1>2 DEF BeginControl, Batch
  <2>2. Called'
    BY <2>1 DEF KeptInv, Called, NearTheEnd
  <2>3. CASE UNCHANGED writerVars
    BY <2>1, <2>2, <2>3 DEF KeptInv, OneAtATime, ArrayKept, BatchGoesOn
  <2>4. CASE /\ Batch("control", IntervalRecord)
             /\ buffer_sem = "free"
    <3>1. slot["sync"] = NoSlot /\ slot["control"] = NoSlot /\ left["sync"] = 0
      BY <1>2, <2>4 DEF BeginControl, Locked, SlotsCounted, SemHeld, Types, Writers
    <3>2. ArrayKept'
      BY <2>1, <3>1 DEF KeptInv, ArrayKept, Writers
    <3>3. OneAtATime' /\ BatchGoesOn'
      BY <2>1, <2>4, <3>1 DEF Batch, KeptInv, OneAtATime, BatchGoesOn, Types, Writers
    <3> QED
      BY <2>2, <3>2, <3>3 DEF KeptInv
  <2> QED
    BY <1>2, <2>3, <2>4 DEF BeginControl
<1>3. CASE Dump
  BY <1>3 DEF Dump, WakeUp, KeptInv, OneAtATime, ArrayKept, BatchGoesOn, Called, NearTheEnd
<1>4. CASE Open
  BY <1>4 DEF Open, KeptInv, OneAtATime, ArrayKept, BatchGoesOn, Called, NearTheEnd
<1>5. CASE Release
  <2>1. \A w \in Writers : left[w] = 0 /\ slot[w] = NoSlot
    BY <1>5 DEF Release, Locked, SlotsCounted, SemHeld, Types, Writers
  <2>2. ArrayKept'
    BY <1>5, <2>1, EventBufferAssumption DEF Release, ArrayKept
  <2>3. OneAtATime' /\ BatchGoesOn'
    BY <1>5, <2>1 DEF Release, OneAtATime, BatchGoesOn, Writers
  <2>4. Called'
    BY <1>5, EventBufferAssumption DEF Release, Called, NearTheEnd
  <2> QED
    BY <2>2, <2>3, <2>4 DEF KeptInv
<1>6. ASSUME NEW w \in Writers, AddEventEntry(w) PROVE KeptInv'
  BY <1>6, AddKeepsAll
<1>7. CASE EndSync
  <2>1. left["control"] = 0 \/ left["control"] > 0
    BY DEF Types, Writers
  <2> QED
    BY <1>7, <2>1 DEF EndSync, KeptInv, OneAtATime, ArrayKept, BatchGoesOn, Called, NearTheEnd
<1>8. CASE EndStart
  BY <1>8 DEF EndStart, KeptInv, OneAtATime, ArrayKept, BatchGoesOn, Called, NearTheEnd
<1>9. CASE EndStop
  BY <1>9 DEF EndStop, WakeUp, KeptInv, OneAtATime, ArrayKept, BatchGoesOn, Called, NearTheEnd
<1>10. CASE Read \/ Wake \/ CheckReady \/ Signal
  BY <1>10 DEF Read, Wake, CheckReady, Signal, KeptInv, OneAtATime, ArrayKept, BatchGoesOn,
               Called, NearTheEnd
<1>11. CASE Lock
  <2>1. ~(left["control"] > 0)
    BY <1>11 DEF Lock
  <2>2. UNCHANGED << event_buffer, buffer_pos, unread, left, entry, slot >>
    BY <1>11 DEF Lock
  <2> QED
    BY <1>11, <2>1, <2>2 DEF Lock, KeptInv, OneAtATime, ArrayKept, BatchGoesOn, Called
<1>12. CASE Copy
  BY <1>12 DEF Copy, KeptInv, OneAtATime, ArrayKept, BatchGoesOn, Called, NearTheEnd
<1>13. CASE CopyFault
  BY <1>13 DEF CopyFault, KeptInv, OneAtATime, ArrayKept, BatchGoesOn, Called
<1>14. CASE Reset
  <2>1. \A w \in Writers : left[w] = 0 /\ slot[w] = NoSlot
    BY <1>14 DEF Reset, KeptInv, OneAtATime, Locked, SlotsCounted, SemHeld, Types, Writers
  <2>2. Len(unread) = copied /\ Len(unread') = 0
    BY <1>14 DEF Reset, KeptInv, ArrayKept, Types
  <2>3. ArrayKept'
    BY <1>14, <2>1, <2>2, EventBufferAssumption DEF Reset, ArrayKept
  <2>4. OneAtATime' /\ BatchGoesOn'
    BY <1>14, <2>1, <2>2 DEF Reset, OneAtATime, BatchGoesOn, Writers
  <2>5. Called'
    BY <1>14, EventBufferAssumption DEF Reset, Called, NearTheEnd
  <2> QED
    BY <2>3, <2>4, <2>5 DEF KeptInv
<1>15. CASE UNCHANGED vars
  BY <1>15 DEF vars, KeptInv, OneAtATime, ArrayKept, BatchGoesOn, Called, NearTheEnd
<1> QED
  BY <1>1, <1>2, <1>3, <1>4, <1>5, <1>6, <1>7, <1>8, <1>9, <1>10, <1>11, <1>12, <1>13, <1>14,
     <1>15 DEF Next, Request, SyncStep, ControlStep, ReadStep, Writers

-----------------------------------------------------------------------------
LEMMA BufferInvariant == Spec => []BufferInv
<1>1. Init => BufferInv
  BY TypesInitially, LockedInitially, KeptInitially DEF BufferInv, Kept
<1>2. BufferInv /\ [Next]_vars => BufferInv'
  BY TypesKept, LockedKept, KeptKept DEF BufferInv, Locked
<1> QED
  BY <1>1, <1>2, PTL DEF Spec

(* The state has its types, and the position never leaves the array that   *)
(* alloc_event_buffer() asked for unless an interval record races.         *)
THEOREM TypeCorrect == Spec => []TypeOK
<1>1. BufferInv => TypeOK
  BY DEF BufferInv, Types, Kept, KeptInv, ArrayKept, TypeOK
<1> QED
  BY BufferInvariant, <1>1, PTL

(* add_event_entry() and event_buffer_read() neither lose, repeat nor      *)
(* overwrite an entry, but for a racing interval record.                   *)
THEOREM NothingLost == Spec => []EntriesKeptUnlessRaced
<1>1. BufferInv => EntriesKeptUnlessRaced
  <2> SUFFICES ASSUME BufferInv, ~raced PROVE Contents = unread
    BY DEF EntriesKeptUnlessRaced, EntriesKept
  <2>1. /\ buffer_pos \in Nat /\ buffer_pos <= BufferSize /\ Len(unread) = buffer_pos
        /\ \A i \in 1 .. buffer_pos : unread[i] = event_buffer[i - 1]
        /\ unread \in Seq(Entries)
    BY DEF BufferInv, Types, Kept, KeptInv, ArrayKept
  <2>2. unread = [i \in 1 .. buffer_pos |-> unread[i]]
    BY <2>1
  <2>3. Contents = [i \in 1 .. buffer_pos |-> event_buffer[i - 1]]
    BY <2>1, EventBufferAssumption DEF Contents
  <2> QED
    BY <2>1, <2>2, <2>3
<1> QED
  BY BufferInvariant, <1>1, PTL

(* The batches of sync_buffer() and the interval records are not mixed,    *)
(* and a full buffer loses the end of one, not its middle.                 *)
THEOREM NothingMixed == Spec => []BatchesUnmixed
<1>1. BufferInv => BatchesUnmixed
  BY DEF BufferInv, Kept, KeptInv, BatchGoesOn, BatchesUnmixed
<1> QED
  BY BufferInvariant, <1>1, PTL

(* Nobody sleeps in event_buffer_read() while the buffer is nearly full.   *)
THEOREM SleepersAreCalled == Spec => []NobodySleepsUnlessFaulted
<1>1. BufferInv => NobodySleepsUnlessFaulted
  BY DEF BufferInv, Kept, KeptInv, Called, NobodySleepsUnlessFaulted, NobodySleepsNearTheEnd
<1> QED
  BY BufferInvariant, <1>1, PTL

-----------------------------------------------------------------------------
(* One sequence after another, entry by entry.                             *)
LEMMA ConcatIs ==
  ASSUME NEW S, NEW c \in Seq(S), NEW d \in Seq(S), NEW g \in Seq(S),
         Len(g) = Len(c) + Len(d),
         \A i \in 1 .. Len(c) : g[i] = c[i],
         \A j \in 1 .. Len(d) : g[Len(c) + j] = d[j]
  PROVE  g = c \o d
<1>1. /\ c \o d \in Seq(S) /\ Len(c \o d) = Len(c) + Len(d)
      /\ \A i \in 1 .. Len(c) + Len(d) :
           (c \o d)[i] = IF i <= Len(c) THEN c[i] ELSE d[i - Len(c)]
  BY ConcatProperties
<1>2. Len(c) \in Nat /\ Len(d) \in Nat
  OBVIOUS
<1>3. ASSUME NEW i \in 1 .. Len(g) PROVE g[i] = (c \o d)[i]
  <2>1. CASE i <= Len(c)
    BY <1>1, <1>2, <2>1
  <2>2. CASE ~(i <= Len(c))
    <3>1. i - Len(c) \in 1 .. Len(d) /\ Len(c) + (i - Len(c)) = i
      BY <1>2, <2>2
    <3>2. g[i] = d[i - Len(c)]
      BY <3>1
    <3> QED
      BY <1>1, <1>2, <2>2, <3>2
  <2> QED
    BY <2>1, <2>2
<1> QED
  BY <1>1, <1>3, SeqEqual

(* A step that starts a race is left to the exception.                     *)
LEMMA RacedStays == [Next]_vars /\ raced => raced'
BY DEF Next, Request, SyncStep, ControlStep, ReadStep, AddEventEntry, LoseEntry, StoreEntry,
       AdvancePos, BeginSync, EndSync, BeginControl, EndStart, EndStop, Dump, Open, Release,
       Read, Wake, Signal, CheckReady, Lock, Copy, CopyFault, Reset, NotRead, vars

(* Every entry of a batch is one.                                          *)
LEMMA EntriesTyped ==
  ASSUME Types, NEW w \in Writers, NEW n \in Nat
  PROVE  EntryAfter(entry[w], n) \in Entries
<1>1. entry[w] \in Entries
  BY EntryTyped
<1> QED
  BY <1>1 DEF EntryAfter, Entries

(* The length of the log and its entries.                                  *)
LogLen == IF buffer_pos + left[Adding] < BufferSize THEN buffer_pos + left[Adding] ELSE BufferSize

LogEntry(i) == IF i <= buffer_pos THEN event_buffer[i - 1]
               ELSE EntryAfter(entry[Adding], i - buffer_pos - 1)

LEMMA LogIs ==
  ASSUME Types
  PROVE  /\ EntriesToBe = [i \in 1 .. LogLen |-> LogEntry(i)]
         /\ EntriesToBe \in Seq(Entries) /\ Len(EntriesToBe) = LogLen
         /\ LogLen \in Nat /\ Adding \in Writers /\ left[Adding] \in Nat
<1>1. Adding \in Writers /\ left[Adding] \in Nat
  BY DEF Adding, Writers, Types
<1>2. LogLen \in Nat /\ LogLen <= BufferSize /\ buffer_pos \in Nat
  BY <1>1, EventBufferAssumption DEF LogLen, Types
<1>3. ASSUME NEW i \in 1 .. LogLen PROVE LogEntry(i) \in Entries
  <2>1. CASE i <= buffer_pos
    <3>1. i - 1 \in 0 .. BufferSize - 1
      BY <1>2, EventBufferAssumption
    <3> QED
      BY <2>1, <3>1 DEF LogEntry, Types
  <2>2. CASE ~(i <= buffer_pos)
    <3>1. i - buffer_pos - 1 \in Nat
      BY <1>2, <2>2
    <3> QED
      BY <1>1, <2>2, <3>1, EntriesTyped DEF LogEntry
  <2> QED
    BY <2>1, <2>2
<1>4. EntriesToBe = [i \in 1 .. LogLen |-> LogEntry(i)]
  BY DEF EntriesToBe, LogLen, LogEntry
<1>5. EntriesToBe \in Seq(Entries) /\ Len(EntriesToBe) = LogLen
  BY <1>2, <1>3, <1>4
<1> QED
  BY <1>1, <1>2, <1>4, <1>5

(* The types of LogIs, in a form that can be primed.                       *)
LEMMA LogTyped == Types => EntriesToBe \in Seq(Entries) /\ Len(EntriesToBe) = LogLen
BY LogIs

(* To leave the log alone is to leave its entries alone.                   *)
LEMMA SameLog ==
  ASSUME Types, Types', LogLen' = LogLen, \A i \in 1 .. LogLen : LogEntry(i)' = LogEntry(i)
  PROVE  EntriesToBe' = EntriesToBe
<1>1. EntriesToBe = [i \in 1 .. LogLen |-> LogEntry(i)]
  BY LogIs
<1>2. EntriesToBe' = [i \in 1 .. LogLen' |-> LogEntry(i)']
  BY DEF EntriesToBe, LogLen, LogEntry
<1> HIDE DEF LogEntry, LogLen
<1> QED
  BY <1>1, <1>2

(* Nobody adds: the log is what the buffer holds.                          *)
LEMMA LogAtRest ==
  ASSUME Types, Kept, ~raced, \A w \in Writers : left[w] = 0
  PROVE  LogLen = buffer_pos /\ \A i \in 1 .. LogLen : LogEntry(i) = event_buffer[i - 1]
<1>1. buffer_pos \in Nat /\ buffer_pos <= BufferSize
  BY DEF Types, Kept, KeptInv, ArrayKept
<1>2. LogLen = buffer_pos
  BY <1>1, EventBufferAssumption DEF LogLen, Adding, Writers
<1> QED
  BY <1>1, <1>2 DEF LogEntry

(* A batch begins: what will fit of it is in the log.                      *)
LEMMA BatchIsPut ==
  ASSUME Types, Types', Kept, ~raced, \A v \in Writers : left[v] = 0, opened,
         NEW w \in Writers, NEW length \in Nat \ {0}, Batch(w, length),
         UNCHANGED << event_buffer, buffer_pos, result, opened >>
  PROVE  Log!Put(w, length)
<1>1. /\ batches' = batches + 1 /\ batches' \in 0 .. MaxBatches
      /\ left' = [left EXCEPT ![w] = length]
      /\ entry'[w] = [by |-> w, batch |-> batches + 1, place |-> 1]
  BY DEF Batch, Types
<1>2. Adding' = w /\ left'[w] = length
  BY <1>1 DEF Adding, Writers, Types
<1>3. /\ LogLen = buffer_pos /\ buffer_pos \in Nat /\ buffer_pos <= BufferSize
      /\ \A i \in 1 .. LogLen : LogEntry(i) = event_buffer[i - 1]
  BY LogAtRest DEF Types, Kept, KeptInv, ArrayKept
<1> DEFINE n == IF length < BufferSize - buffer_pos THEN length ELSE BufferSize - buffer_pos
           e(i) == [by |-> w, batch |-> batches', place |-> i]
           d == [i \in 1 .. n |-> e(i)]
<1>4. n \in Nat /\ LogLen' = buffer_pos + n
  BY <1>2, <1>3, EventBufferAssumption DEF LogLen
<1>5. d \in Seq(Entries) /\ Len(d) = n
  <2>1. \A i \in 1 .. n : e(i) \in Entries
    BY <1>1 DEF Entries
  <2> HIDE DEF n, e
  <2> QED
    BY <1>4, <2>1
<1>6. \A i \in 1 .. buffer_pos : EntriesToBe'[i] = EntriesToBe[i]
  <2>1. \A i \in 1 .. buffer_pos : EntriesToBe[i] = event_buffer[i - 1]
    BY <1>3, LogIs
  <2>2. \A i \in 1 .. LogLen' : i <= buffer_pos => EntriesToBe'[i] = event_buffer[i - 1]
    BY DEF EntriesToBe, LogLen
  <2>3. \A i \in 1 .. buffer_pos : i \in 1 .. LogLen' /\ i <= buffer_pos
    <3> HIDE DEF n
    <3> QED
      BY <1>3, <1>4
  <2> QED
    BY <2>1, <2>2, <2>3
<1>7. \A j \in 1 .. n : EntriesToBe'[buffer_pos + j] = d[j]
  <2> SUFFICES ASSUME NEW j \in 1 .. n PROVE EntriesToBe'[buffer_pos + j] = e(j)
    OBVIOUS
  <2> HIDE DEF n
  <2> DEFINE k == buffer_pos + j
  <2>1. k \in 1 .. LogLen' /\ ~(k <= buffer_pos) /\ k - buffer_pos - 1 = j - 1 /\ 1 + (j - 1) = j
    BY <1>3, <1>4
  <2> HIDE DEF k
  <2>2. \A i \in 1 .. LogLen' : ~(i <= buffer_pos)
          => EntriesToBe'[i] = EntryAfter(entry'[w], i - buffer_pos - 1)
    BY <1>2 DEF EntriesToBe, LogLen, EntryAfter
  <2>3. EntriesToBe'[k] = EntryAfter(entry'[w], j - 1)
    BY <2>1, <2>2
  <2>4. EntryAfter(entry'[w], j - 1) = e(j)
    BY <1>1, <2>1 DEF EntryAfter
  <2> QED
    BY <2>3, <2>4 DEF k
<1> HIDE DEF d
<1>8. EntriesToBe' = EntriesToBe \o d
  <2>1. /\ EntriesToBe \in Seq(Entries) /\ Len(EntriesToBe) = buffer_pos
        /\ EntriesToBe' \in Seq(Entries) /\ Len(EntriesToBe') = buffer_pos + n
    <3>1. EntriesToBe' \in Seq(Entries) /\ Len(EntriesToBe') = LogLen'
      <4>1. (Types => EntriesToBe \in Seq(Entries) /\ Len(EntriesToBe) = LogLen)'
        BY LogTyped, PTL
      <4> QED
        BY <4>1
    <3> QED
      BY <1>3, <1>4, <3>1, LogIs
  <2> HIDE DEF n
  <2> QED
    BY <1>5, <1>6, <1>7, <2>1, ConcatIs
<1>9. EntriesToBe' = EntriesToBe \o [i \in 1 .. Log!Smaller(length, BufferSize - Len(EntriesToBe))
                                       |-> [by |-> w, batch |-> batches', place |-> i]]
  <2>1. Len(EntriesToBe) = buffer_pos
    BY <1>3, LogIs
  <2>2. Log!Smaller(length, BufferSize - Len(EntriesToBe)) = n
    BY <2>1 DEF Log!Smaller
  <2> HIDE DEF n
  <2> QED
    BY <1>8, <2>2 DEF d
<1> QED
  BY <1>1, <1>9 DEF Log!Put

(* An entry is added, or lost: nothing that the log did not have.          *)
LEMMA AddIsKept ==
  ASSUME BufferInv, BufferInv', ~raced, ~raced', NEW w \in Writers, AddEventEntry(w)
  PROVE  EntriesToBe' = EntriesToBe
<1>1. Types /\ Types' /\ Locked /\ KeptInv
  BY DEF BufferInv, Kept
<1>2. entry[w] \in Entries /\ left[w] > 0 /\ left[w] \in Nat
  BY <1>1 DEF AddEventEntry, LoseEntry, StoreEntry, AdvancePos, Locked, SlotsCounted, Types
<1>3. \A v \in Writers : v # w => left[v] = 0
  BY <1>1, <1>2 DEF KeptInv, OneAtATime, Locked, SemHeld, Types, Writers
<1>4. Adding = w
  BY <1>2, <1>3 DEF Adding, Writers
<1>5. buffer_pos \in Nat /\ buffer_pos <= BufferSize /\ buffer_pos' \in Nat
  BY <1>1 DEF KeptInv, ArrayKept, Types
<1>6. CASE StoreEntry(w)
  <2>1. /\ UNCHANGED << buffer_pos, left, entry >>
        /\ event_buffer' = [event_buffer EXCEPT ![buffer_pos] = entry[w]]
    BY <1>5, <1>6, EventBufferAssumption DEF StoreEntry, BufferFull, bufferVars
  <2>2. LogLen' = LogLen
    BY <2>1 DEF LogLen, Adding
  <2>3. \A i \in 1 .. LogLen : i <= buffer_pos => event_buffer'[i - 1] = event_buffer[i - 1]
    BY <1>1, <1>5, <2>1, LogIs, EventBufferAssumption DEF Types
  <2>4. \A i \in 1 .. LogLen : LogEntry(i)' = LogEntry(i)
    BY <2>1, <2>3 DEF LogEntry, Adding
  <2> QED
    BY <1>1, <2>2, <2>4, SameLog
<1>7. CASE LoseEntry(w)
  <2>1. /\ UNCHANGED << buffer_pos, event_buffer >> /\ buffer_pos = BufferSize
        /\ left' = [left EXCEPT ![w] = @ - 1]
    BY <1>7 DEF LoseEntry, BufferFull, NextEntry, bufferVars
  <2>2. LogLen = BufferSize /\ LogLen' = BufferSize
    <3>1. left[Adding] \in Nat /\ left'[Adding'] \in Nat
      BY <1>1, LogIs DEF Adding, Types, Writers
    <3> QED
      BY <2>1, <3>1, EventBufferAssumption DEF LogLen
  <2>3. \A i \in 1 .. LogLen : LogEntry(i)' = LogEntry(i)
    BY <2>1, <2>2, EventBufferAssumption DEF LogEntry
  <2> QED
    BY <1>1, <2>2, <2>3, SameLog
<1>8. CASE AdvancePos(w)
  <2>1. /\ buffer_pos < BufferSize /\ event_buffer[buffer_pos] = entry[w]
        /\ buffer_pos' = buffer_pos + 1 /\ event_buffer' = event_buffer
        /\ entry' = [entry EXCEPT ![w] = NextPlace(@)]
        /\ left' = [left EXCEPT ![w] = @ - 1]
    BY <1>1, <1>8 DEF AdvancePos, NextEntry, KeptInv, ArrayKept
  <2>2. left'[w] = left[w] - 1 /\ entry'[w] = NextPlace(entry[w])
    BY <1>1, <2>1 DEF Types
  <2>3. buffer_pos' + left'[Adding'] = buffer_pos + left[w]
    <3>1. \A v \in Writers : v # w => left'[v] = 0
      BY <1>1, <1>3, <2>1 DEF Types
    <3>2. left'[w] # 0 => Adding' = w
      BY <1>2, <2>2, <3>1 DEF Adding, Writers
    <3>3. left'[Adding'] = left'[w]
      BY <2>2, <3>1, <3>2 DEF Adding, Writers
    <3> QED
      BY <1>2, <1>5, <2>1, <2>2, <3>3
  <2>4. LogLen' = LogLen
    BY <1>4, <2>3 DEF LogLen
  <2>5. ASSUME NEW i \in 1 .. LogLen PROVE LogEntry(i)' = LogEntry(i)
    <3>1. i \in Nat /\ i >= 1
      BY <1>1, LogIs
    <3>2. CASE i <= buffer_pos
      BY <1>5, <2>1, <3>1, <3>2 DEF LogEntry
    <3>3. CASE i = buffer_pos + 1
      <4>1. LogEntry(i) = EntryAfter(entry[w], 0)
        BY <1>4, <1>5, <3>3 DEF LogEntry
      <4>2. EntryAfter(entry[w], 0) = entry[w]
        BY <1>2 DEF EntryAfter, Entries
      <4>3. LogEntry(i)' = event_buffer[buffer_pos]
        BY <1>5, <2>1, <3>3 DEF LogEntry
      <4> QED
        BY <2>1, <4>1, <4>2, <4>3
    <3>4. CASE i > buffer_pos + 1
      <4>1. Adding' = w
        <5>1. i <= buffer_pos' + left'[Adding']
          BY <1>1, <1>2, <1>4, <1>5, <2>1, <2>3, <3>1, EventBufferAssumption DEF LogLen
        <5>2. left'[w] # 0
          BY <1>2, <1>5, <2>2, <2>3, <3>1, <3>4, <5>1
        <5> QED
          BY <1>1, <1>2, <1>3, <2>1, <2>2, <5>2 DEF Adding, Writers, Types
      <4>2. LogEntry(i)' = EntryAfter(NextPlace(entry[w]), i - buffer_pos - 2)
        <5>1. ~(i <= buffer_pos') /\ i - buffer_pos' - 1 = i - buffer_pos - 2
          BY <1>5, <2>1, <3>1, <3>4
        <5> QED
          BY <2>2, <4>1, <5>1 DEF LogEntry
      <4>3. LogEntry(i) = EntryAfter(entry[w], i - buffer_pos - 1)
        BY <1>4, <1>5, <3>1, <3>4 DEF LogEntry
      <4>4. EntryAfter(NextPlace(entry[w]), i - buffer_pos - 2)
              = EntryAfter(entry[w], i - buffer_pos - 1)
        BY <1>2, <1>5, <3>1 DEF EntryAfter, NextPlace, Entries
      <4> QED
        BY <4>2, <4>3, <4>4
    <3> QED
      BY <1>5, <3>1, <3>2, <3>3, <3>4
  <2> QED
    BY <1>1, <2>4, <2>5, SameLog
<1> QED
  BY <1>6, <1>7, <1>8 DEF AddEventEntry

(* Nobody adds while the daemon reads, or the file is closed.              *)
LEMMA EmptyLog ==
  ASSUME Types, Types', \A w \in Writers : left[w] = 0, left' = left, buffer_pos' = 0
  PROVE  EntriesToBe' = << >>
<1>1. left'[Adding'] = 0
  BY DEF Adding, Writers
<1>2. LogLen' = 0
  BY <1>1, EventBufferAssumption DEF LogLen
<1>3. (Types => EntriesToBe \in Seq(Entries) /\ Len(EntriesToBe) = LogLen)'
  BY LogTyped, PTL
<1> QED
  BY <1>2, <1>3

(* Every step is a step of the log, or leaves it alone.                    *)
LEMMA LogStep ==
  ASSUME BufferInv, BufferInv', [Next]_vars
  PROVE  [Log!Next]_(Log!logVars)
<1> USE DEF bufferVars, flagVars, sessionVars, writerVars, readerVars, NotRead
<1>0. Types /\ Types' /\ Locked /\ Kept
  BY DEF BufferInv
<1>1. CASE raced'
  BY <1>1 DEF Log!Next, Log!Spoil
<1>2. CASE ~raced'
  <2>1. ~raced
    BY <1>2, RacedStays
  <2>2. OneAtATime /\ left["sync"] \in Nat /\ left["control"] \in Nat
    BY <1>0, <2>1 DEF Kept, KeptInv, Types, Writers
  <2>3. ASSUME NEW length \in 1 .. MaxBatch, BeginSync(length)
        PROVE  Log!Next
    <3>1. /\ opened /\ buffer_sem = "free" /\ Batch("sync", length) /\ length \in Nat \ {0}
          /\ UNCHANGED << event_buffer, buffer_pos, result, opened >>
      BY <2>3 DEF BeginSync
    <3>2. ~(left["control"] > 0)
      BY <1>2, <2>3 DEF BeginSync
    <3>3. \A v \in Writers : left[v] = 0
      BY <1>0, <2>2, <3>1, <3>2 DEF Locked, SemHeld, Writers
    <3>4. Log!Put("sync", length)
      BY <1>0, <2>1, <3>1, <3>3, BatchIsPut DEF Writers
    <3> QED
      BY <3>4 DEF Log!Next
  <2>4. ASSUME NEW function \in {"start", "adapt", "stop"}, BeginControl(function)
        PROVE  Log!Next
    <3>1. opened /\ control = "idle" /\ UNCHANGED << event_buffer, buffer_pos, result, opened >>
      BY <2>4 DEF BeginControl
    <3>2. CASE Batch("control", IntervalRecord) /\ raced' = (raced \/ buffer_sem # "free")
      <4>1. \A v \in Writers : left[v] = 0
        <5>1. buffer_sem = "free"
          BY <1>2, <3>2, Zenon
        <5> QED
          BY <1>0, <2>2, <3>1, <5>1 DEF Locked, SemHeld, Writers
      <4>2. Log!Put("control", IntervalRecord)
        BY <1>0, <2>1, <3>1, <3>2, <4>1, BatchIsPut DEF Writers, IntervalRecord
      <4> QED
        BY <4>2 DEF Log!Next
    <3>3. CASE UNCHANGED writerVars
      BY <3>1, <3>3 DEF EntriesToBe, Adding, EntryAfter, Log!Next, Log!Keep
    <3> QED
      BY <2>4, <3>2, <3>3 DEF BeginControl
  <2>5. ASSUME NEW w \in Writers, AddEventEntry(w)
        PROVE  [Log!Next]_(Log!logVars)
    <3>1. EntriesToBe' = EntriesToBe
      BY <1>2, <2>1, <2>5, AddIsKept
    <3>2. UNCHANGED << batches, result, opened, raced >>
      BY <2>5 DEF AddEventEntry, LoseEntry, StoreEntry, AdvancePos, NextEntry
    <3> QED
      BY <3>1, <3>2 DEF Log!logVars
  <2>6. ASSUME \/ Dump \/ EndSync \/ EndStart \/ EndStop \/ Open
               \/ Read \/ Wake \/ Signal \/ CheckReady \/ Lock \/ Copy \/ CopyFault
        PROVE  Log!Next
    <3>1. /\ UNCHANGED << event_buffer, buffer_pos, left, entry, batches >>
          /\ opened => opened'
          /\ result' = "data" => result = "data"
      BY <2>6 DEF Dump, WakeUp, EndSync, EndStart, EndStop, Open, Read, Wake, Signal, CheckReady,
                  Lock, Copy, CopyFault
    <3>2. EntriesToBe' = EntriesToBe
      BY <3>1 DEF EntriesToBe, Adding, EntryAfter
    <3> QED
      BY <3>1, <3>2 DEF Log!Next, Log!Keep
  <2>7. CASE Release
    <3>1. \A w \in Writers : left[w] = 0
      BY <1>0, <2>2, <2>7 DEF Release, Locked, SemHeld, Writers
    <3>2. left' = left /\ buffer_pos' = 0 /\ opened /\ ~opened' /\ batches' = batches
      BY <2>7 DEF Release
    <3>3. EntriesToBe' = << >>
      BY <1>0, <3>1, <3>2, EmptyLog
    <3> QED
      BY <3>2, <3>3 DEF Log!Next, Log!Close
  <2>8. CASE Reset
    <3>1. \A w \in Writers : left[w] = 0
      BY <1>0, <2>2, <2>8 DEF Reset, OneAtATime, Locked, SemHeld, Writers
    <3>2. left' = left /\ buffer_pos' = 0 /\ result' = "data" /\ opened' = opened
          /\ batches' = batches
      BY <2>8 DEF Reset
    <3>3. EntriesToBe' = << >>
      BY <1>0, <3>1, <3>2, EmptyLog
    <3> QED
      BY <3>2, <3>3 DEF Log!Next, Log!Take
  <2>9. CASE UNCHANGED vars
    BY <2>9 DEF vars, EntriesToBe, Adding, EntryAfter, Log!logVars
  <2> QED
    BY <2>3, <2>4, <2>5, <2>6, <2>7, <2>8, <2>9
       DEF Next, Request, SyncStep, ControlStep, ReadStep, Writers
<1> QED
  BY <1>1, <1>2

(* The array, the position and the semaphore implement a log to which a    *)
(* batch is added in one step and which a read takes as a whole, for every *)
(* size and both builds, until an interval record overlaps a batch or a    *)
(* read.                                                                   *)
THEOREM BufferImplementsLog == Spec => ImplementsLog
<1>1. Init => Log!Init
  <2> SUFFICES ASSUME Init PROVE Log!Init
    OBVIOUS
  <2>1. Types /\ (\A w \in Writers : left[w] = 0) /\ buffer_pos = 0
    BY TypesInitially DEF Init
  <2>2. left[Adding] = 0
    BY <2>1 DEF Adding, Writers
  <2>3. LogLen = 0
    BY <2>1, <2>2, EventBufferAssumption DEF LogLen
  <2>4. EntriesToBe = << >>
    BY <2>1, <2>3, LogIs
  <2> QED
    BY <2>4 DEF Init, Log!Init
<1>2. BufferInv /\ BufferInv' /\ [Next]_vars => [Log!Next]_(Log!logVars)
  BY LogStep
<1> QED
  BY <1>1, <1>2, BufferInvariant, PTL DEF Spec, ImplementsLog, Log!Spec

(* Without interval records nothing ever overlaps: that build has none of  *)
(* the exceptions.                                                         *)
LEMMA NeverRaced == ASSUME ~RRPROFILE PROVE Spec => []~raced
<1> DEFINE Alone == ~raced /\ left["control"] = 0
<1>1. Init => Alone
  BY DEF Init, Writers
<1>2. BufferInv /\ Alone /\ [Next]_vars => Alone'
  <2> SUFFICES ASSUME BufferInv, Alone, [Next]_vars PROVE Alone'
    OBVIOUS
  <2> USE DEF bufferVars, flagVars, sessionVars, writerVars, readerVars, NotRead
  <2>0. Types /\ ~(left["control"] > 0)
    BY DEF BufferInv
  <2>1. ASSUME NEW length \in 1 .. MaxBatch, BeginSync(length) PROVE Alone'
    BY <2>0, <2>1 DEF BeginSync, Batch, Types, Writers
  <2>2. ASSUME NEW function \in {"start", "adapt", "stop"}, BeginControl(function) PROVE Alone'
    BY <2>2 DEF BeginControl
  <2>3. ASSUME NEW w \in Writers, AddEventEntry(w) PROVE Alone'
    <3>1. w # "control"
      <4>1. left[w] > 0
        BY <2>3 DEF AddEventEntry, LoseEntry, StoreEntry, AdvancePos, BufferInv, Locked, SlotsCounted
      <4> QED
        BY <2>0, <4>1
    <3> QED
      BY <2>0, <2>3, <3>1 DEF AddEventEntry, LoseEntry, StoreEntry, AdvancePos, NextEntry, Types,
                              Writers
  <2>4. CASE \/ Dump \/ EndSync \/ EndStart \/ EndStop \/ Open \/ Release \/ Read \/ Wake
             \/ Signal \/ CheckReady \/ Copy \/ CopyFault \/ Reset
    BY <2>4 DEF Dump, WakeUp, EndSync, EndStart, EndStop, Open, Release, Read, Wake, Signal,
                CheckReady, Copy, CopyFault, Reset
  <2>5. CASE Lock
    BY <2>0, <2>5 DEF Lock
  <2>6. CASE UNCHANGED vars
    BY <2>6 DEF vars
  <2> QED
    BY <2>1, <2>2, <2>3, <2>4, <2>5, <2>6
       DEF Next, Request, SyncStep, ControlStep, ReadStep, Writers
<1> QED
  BY <1>1, <1>2, BufferInvariant, PTL DEF Spec

(* In the build without interval records the buffer holds what was added   *)
(* and not yet read, with no exception.                                    *)
THEOREM VanillaKeepsEntries == ASSUME ~RRPROFILE PROVE Spec => []EntriesKept
<1>1. EntriesKeptUnlessRaced /\ ~raced => EntriesKept
  BY DEF EntriesKeptUnlessRaced
<1> QED
  BY <1>1, NothingLost, NeverRaced, PTL
=============================================================================
