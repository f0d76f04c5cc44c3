----------------------------- MODULE EventBuffer -----------------------------
(***************************************************************************)
(* The event buffer (driver/event_buffer.c): one array that sync_buffer()  *)
(* and the control files append to and the daemon reads as a whole.        *)
(*                                                                         *)
(* Three parties meet here.                                                *)
(*   "sync"     whoever runs sync_buffer() or oprofile_put_buff(): it adds *)
(*              a batch of entries under buffer_sem.                       *)
(*   "control"  oprofile_start(), _adapt() and _stop(), one at a time      *)
(*              under start_sem.  With RRPROFILE they add the three        *)
(*              entries of an interval record, without buffer_sem.         *)
(*   the daemon read(), which takes buffer_sem to copy and reset.          *)
(* Adding an entry is two steps: the compiler loads buffer_pos, stores the *)
(* entry there, and later stores the next position.                        *)
(***************************************************************************)
EXTENDS Integers, Sequences

CONSTANTS
  RRPROFILE,    \* which of the two builds
  BufferSize,   \* buffer_size
  Watershed,    \* buffer_watershed
  MaxBatch,     \* bound: entries sync_buffer() adds in one go
  MaxBatches,   \* bound: batches and interval records in one behaviour
  MaxFailures   \* bound: reads that a signal or a fault ends

(* alloc_event_buffer() returns -EINVAL for a watershed of this size.      *)
ASSUME EventBufferAssumption ==
  /\ RRPROFILE \in BOOLEAN
  /\ BufferSize \in Nat /\ Watershed \in Nat /\ Watershed < BufferSize
  /\ MaxBatch \in Nat \ {0} /\ MaxBatches \in Nat /\ MaxFailures \in Nat

VARIABLES
  event_buffer,   \* the array
  buffer_pos,     \* entries in it
  buffer_ready,   \* what a reader sleeps on
  buffer_dump,    \* RRPROFILE: do not sleep, there was a request to dump
  buffer_sem,     \* who holds it
  opened,         \* buffer_opened and is_setup
  started,        \* oprofile_started
  control,        \* the control function that runs, or "idle"
  left,           \* entries a writer still has to add
  entry,          \* the entry it adds next
  slot,           \* the position it has loaded and stored to; NoSlot: none
  daemon,         \* where read() is
  result,         \* how the last read() ended
  batches, failures,  \* what has been used of the bounds
  copied,         \* how many entries the reader has copied
  unread,         \* history: entries added that no read has returned
  faulted,        \* history: no read has succeeded since one had a fault
  raced           \* history: an interval record overlapped a lock holder

bufferVars  == << event_buffer, buffer_pos, unread >>
flagVars    == << buffer_ready, buffer_dump >>
sessionVars == << opened, started, control >>
writerVars  == << left, entry, slot, batches >>
readerVars  == << daemon, result, copied, failures, faulted >>
vars == << raced, bufferVars, buffer_sem, flagVars, sessionVars, writerVars, readerVars >>

Writers == {"sync", "control"}
NoSlot  == -1

(* An entry is known by its writer, its batch and its place in the batch.  *)
Entries == [by : Writers, batch : 0 .. MaxBatches, place : Nat]
Blank   == [by |-> "sync", batch |-> 0, place |-> 0]

IntervalRecord == 3      \* ESCAPE_CODE, RR_ADAPT_SAMPLING_INTERVAL_CODE, value

Contents ==
  [i \in 1 .. (IF buffer_pos < BufferSize THEN buffer_pos ELSE BufferSize)
     |-> event_buffer[i - 1]]

NearTheEnd == buffer_pos >= BufferSize - Watershed

(* The module is loaded and nobody has opened the buffer.                  *)
Init ==
  /\ event_buffer = [i \in 0 .. BufferSize - 1 |-> Blank]
  /\ buffer_pos = 0
  /\ buffer_ready = FALSE /\ buffer_dump = FALSE
  /\ buffer_sem = "free"
  /\ opened = FALSE /\ started = FALSE /\ control = "idle"
  /\ left = [w \in Writers |-> 0]
  /\ entry = [w \in Writers |-> Blank]
  /\ slot = [w \in Writers |-> NoSlot]
  /\ daemon = "idle" /\ result = "none"
  /\ batches = 0 /\ failures = 0
  /\ copied = 0 /\ unread = << >>
  /\ faulted = FALSE /\ raced = FALSE

-----------------------------------------------------------------------------
(* add_event_entry()                                                       *)

Batch(w, length) ==
  /\ batches' = batches + 1
  /\ left' = [left EXCEPT ![w] = length]
  /\ entry' = [entry EXCEPT ![w] = [by |-> w, batch |-> batches + 1, place |-> 1]]
  /\ UNCHANGED slot

NextPlace(e) == [by |-> e.by, batch |-> e.batch, place |-> e.place + 1]

(* The writer is done with its entry.                                      *)
NextEntry(w) ==
  /\ left' = [left EXCEPT ![w] = @ - 1]
  /\ entry' = [entry EXCEPT ![w] = NextPlace(@)]
  /\ UNCHANGED batches

(* Mutant: finds the buffer full one entry late.                           *)
BufferFullLate == buffer_pos = BufferSize + 1

BufferFull == buffer_pos = BufferSize

(* event_lost_overflow                                                     *)
LoseEntry(w) ==
  /\ left[w] > 0 /\ slot[w] = NoSlot
  /\ BufferFull
  /\ NextEntry(w)
  /\ UNCHANGED << raced, bufferVars, buffer_sem, flagVars, sessionVars,
                  slot, readerVars >>

StoreEntry(w) ==
  /\ left[w] > 0 /\ slot[w] = NoSlot
  /\ ~BufferFull
  /\ slot' = [slot EXCEPT ![w] = buffer_pos]
  /\ event_buffer' = IF buffer_pos < BufferSize
                     THEN [event_buffer EXCEPT ![buffer_pos] = entry[w]]
                     ELSE event_buffer      \* a store outside the array
  /\ UNCHANGED << raced, buffer_pos, unread, buffer_sem, flagVars, sessionVars, left, entry,
                  batches, readerVars >>

(* Mutant: wakes the daemon one entry before the watershed.                *)
WakePointPassed(pos) == pos = BufferSize - Watershed + 1

WakePoint(pos) == pos = BufferSize - Watershed

(* The build may have kept the position it loaded or load it again; that   *)
(* makes a difference only to writers that race.                           *)
AdvancePos(w) ==
  /\ slot[w] # NoSlot
  /\ \E pos \in {slot[w], buffer_pos} :
       /\ buffer_pos' = pos + 1
       /\ buffer_ready' = (buffer_ready \/ WakePoint(pos + 1))
  /\ unread' = Append(unread, entry[w])
  /\ slot' = [slot EXCEPT ![w] = NoSlot]
  /\ NextEntry(w)
  /\ UNCHANGED << raced, event_buffer, buffer_sem, buffer_dump, sessionVars, readerVars >>

AddEventEntry(w) == LoseEntry(w) \/ StoreEntry(w) \/ AdvancePos(w)

-----------------------------------------------------------------------------
(* sync_buffer(), oprofile_put_buff()                                      *)

(* Mutant: does not wait for buffer_sem.                                   *)
BeginSyncUnlocked(length) ==
  /\ opened
  /\ buffer_sem' = "sync"
  /\ batches < MaxBatches
  /\ Batch("sync", length)
  /\ raced' = (raced \/ left["control"] > 0)
  /\ UNCHANGED << bufferVars, flagVars, sessionVars, readerVars >>

BeginSync(length) ==
  /\ opened
  /\ buffer_sem = "free"
  /\ buffer_sem' = "sync"
  /\ batches < MaxBatches
  /\ Batch("sync", length)
  /\ raced' = (raced \/ left["control"] > 0)
  /\ UNCHANGED << bufferVars, flagVars, sessionVars, readerVars >>

EndSync ==
  /\ buffer_sem = "sync"
  /\ left["sync"] = 0
  /\ buffer_sem' = "free"
  /\ UNCHANGED << raced, bufferVars, flagVars, sessionVars, writerVars,
                  readerVars >>

-----------------------------------------------------------------------------
(* The control files                                                       *)

(* wake_up_buffer_waiter(), whole: the daemon looks at the two flags       *)
(* without the semaphore, but needs it before it does anything.            *)
WakeUp ==
  /\ buffer_sem = "free"
  /\ buffer_ready' = TRUE
  /\ buffer_dump' = RRPROFILE

(* A write to the dump file, or to the buffer file itself.                 *)
Dump ==
  /\ WakeUp
  /\ UNCHANGED << raced, bufferVars, buffer_sem, sessionVars, writerVars,
                  readerVars >>

(* oprofile_start(), oprofile_stop() and, with RRPROFILE, oprofile_adapt() *)
(* pass their early returns; their interval record, if they write one      *)
(* (adapt does when a counter could be changed).                           *)
BeginControl(function) ==
  /\ opened
  /\ control = "idle"
  /\ started = (function # "start")
  /\ function = "adapt" => RRPROFILE
  /\ control' = function
  /\ started' = (started /\ function # "stop")
  /\ \/ /\ RRPROFILE
        /\ batches < MaxBatches
        /\ Batch("control", IntervalRecord)
        /\ raced' = (raced \/ buffer_sem # "free")
     \/ /\ ~RRPROFILE \/ function = "adapt"
        /\ UNCHANGED << writerVars, raced >>
  /\ UNCHANGED << bufferVars, buffer_sem, flagVars, opened,
                  readerVars >>

(* Back from oprofile_ops.start(), which may fail.                         *)
EndStart ==
  /\ control \in {"start", "adapt"}
  /\ left["control"] = 0
  /\ control' = "idle"
  /\ started' \in BOOLEAN
  /\ buffer_dump' = (buffer_dump /\ ~(control = "start" /\ started'))
  /\ UNCHANGED << raced, bufferVars, buffer_sem, buffer_ready, opened,
                  writerVars, readerVars >>

EndStop ==
  /\ control = "stop"
  /\ left["control"] = 0
  /\ control' = "idle"
  /\ WakeUp
  /\ UNCHANGED << raced, bufferVars, buffer_sem, opened, started,
                  writerVars, readerVars >>

(* event_buffer_open(); oprofile_setup() may fail.                         *)
Open ==
  /\ ~opened
  /\ opened' \in BOOLEAN
  /\ buffer_dump' = FALSE
  /\ UNCHANGED << raced, bufferVars, buffer_sem, buffer_ready, started,
                  control, writerVars, readerVars >>

(* The end of event_buffer_release(), after oprofile_stop() and            *)
(* oprofile_shutdown(); what the daemon has not read is gone.              *)
Release ==
  /\ opened
  /\ ~started /\ control = "idle"
  /\ daemon = "idle" /\ buffer_sem = "free"
  /\ opened' = FALSE
  /\ buffer_pos' = 0
  /\ buffer_ready' = FALSE
  /\ unread' = << >> /\ faulted' = FALSE
  /\ result' = "none"
  /\ UNCHANGED << raced, event_buffer, buffer_sem, buffer_dump, started, control, writerVars,
                  daemon, copied, failures >>

-----------------------------------------------------------------------------
(* event_buffer_read()                                                     *)

NotRead == << raced, bufferVars, buffer_sem, flagVars, sessionVars, writerVars >>

Read ==
  /\ opened
  /\ daemon = "idle"
  /\ daemon' = IF RRPROFILE /\ buffer_dump THEN "check" ELSE "wait"
  /\ result' = "none"
  /\ UNCHANGED << NotRead, copied, failures, faulted >>

(* wait_event_interruptible() finds its condition true.                    *)
Wake ==
  /\ daemon = "wait"
  /\ buffer_ready
  /\ daemon' = "check"
  /\ UNCHANGED << NotRead, result, copied, failures, faulted >>

(* Mutant: buffer_ready is cleared before the look at the signals.         *)
SignalClearsReady ==
  /\ daemon \in {"wait", "check"}
  /\ failures < MaxFailures
  /\ failures' = failures + 1
  /\ daemon' = "idle" /\ result' = "EINTR"
  /\ buffer_ready' = FALSE
  /\ UNCHANGED << raced, event_buffer, buffer_pos, buffer_sem, unread, buffer_dump, sessionVars,
                  writerVars, copied, faulted >>

Signal ==
  /\ daemon \in {"wait", "check"}
  /\ failures < MaxFailures
  /\ failures' = failures + 1
  /\ daemon' = "idle" /\ result' = "EINTR"
  /\ UNCHANGED << NotRead, copied, faulted >>

CheckReady ==
  /\ daemon = "check"
  /\ \/ /\ buffer_ready
        /\ daemon' = "lock"
        /\ UNCHANGED result
     \/ /\ ~buffer_ready
        /\ daemon' = "idle" /\ result' = "EAGAIN"
  /\ UNCHANGED << NotRead, copied, failures, faulted >>

Lock ==
  /\ daemon = "lock"
  /\ buffer_sem = "free"
  /\ buffer_sem' = "daemon"
  /\ buffer_ready' = FALSE
  /\ daemon' = "copy"
  /\ raced' = (raced \/ left["control"] > 0)
  /\ UNCHANGED << bufferVars, buffer_dump, sessionVars, writerVars,
                  result, copied, failures, faulted >>

Copy ==
  /\ daemon = "copy"
  /\ daemon' = "reset"
  /\ copied' = buffer_pos
  /\ UNCHANGED << NotRead, result, failures, faulted >>

(* Mutant: the buffer is emptied before the copy is known to be whole.     *)
CopyFaultEmpties ==
  /\ daemon = "copy"
  /\ failures < MaxFailures
  /\ failures' = failures + 1
  /\ daemon' = "idle" /\ result' = "EFAULT"
  /\ faulted' = TRUE
  /\ buffer_sem' = "free"
  /\ buffer_pos' = 0 /\ unread' = << >>
  /\ UNCHANGED << raced, event_buffer, flagVars, sessionVars, writerVars, copied >>

CopyFault ==
  /\ daemon = "copy"
  /\ failures < MaxFailures
  /\ failures' = failures + 1
  /\ daemon' = "idle" /\ result' = "EFAULT"
  /\ faulted' = TRUE
  /\ buffer_sem' = "free"
  /\ UNCHANGED << raced, bufferVars, flagVars, sessionVars, writerVars,
                  copied >>

(* Mutant: the buffer is not emptied.                                      *)
ResetForgotten ==
  /\ daemon = "reset"
  /\ unread' = SubSeq(unread, copied + 1, Len(unread))
  /\ daemon' = "idle" /\ result' = "data"
  /\ copied' = 0 /\ faulted' = FALSE
  /\ buffer_sem' = "free"
  /\ UNCHANGED << raced, event_buffer, buffer_pos, flagVars, sessionVars, writerVars, failures >>

Reset ==
  /\ daemon = "reset"
  /\ buffer_pos' = 0
  /\ unread' = SubSeq(unread, copied + 1, Len(unread))
  /\ daemon' = "idle" /\ result' = "data"
  /\ copied' = 0 /\ faulted' = FALSE
  /\ buffer_sem' = "free"
  /\ UNCHANGED << raced, event_buffer, flagVars, sessionVars, writerVars, failures >>

-----------------------------------------------------------------------------
ReadStep == Wake \/ CheckReady \/ Lock \/ Copy \/ Reset

SyncStep == AddEventEntry("sync") \/ EndSync

ControlStep == AddEventEntry("control") \/ EndStart \/ EndStop

(* Whoever calls for something; nothing is owed to them.                  *)
Request ==
  \/ \E length \in 1 .. MaxBatch : BeginSync(length)
  \/ \E function \in {"start", "adapt", "stop"} : BeginControl(function)
  \/ Dump \/ Open \/ Release

Next ==
  \/ Request
  \/ SyncStep \/ ControlStep
  \/ Read \/ ReadStep \/ Signal \/ CopyFault

(* The daemon reads in a loop, and what has started goes on: nothing here  *)
(* waits but the daemon for buffer_ready and everybody for buffer_sem,     *)
(* whose waiters the kernel queues.                                        *)
Fairness ==
  /\ WF_vars(SyncStep)
  /\ WF_vars(ControlStep)
  /\ WF_vars(Read \/ ReadStep)

Spec == Init /\ [][Next]_vars /\ Fairness

-----------------------------------------------------------------------------
(* Properties                                                              *)

(* Types; the position stays inside the array that alloc_event_buffer()    *)
(* asked for.                                                              *)
TypeOK ==
  /\ event_buffer \in [0 .. BufferSize - 1 -> Entries]
  /\ buffer_pos \in Nat
  /\ raced \/ buffer_pos <= BufferSize
  /\ buffer_ready \in BOOLEAN /\ buffer_dump \in BOOLEAN
  /\ opened \in BOOLEAN /\ started \in BOOLEAN /\ faulted \in BOOLEAN /\ raced \in BOOLEAN
  /\ buffer_sem \in {"free", "sync", "daemon"}
  /\ control \in {"idle", "start", "adapt", "stop"}
  /\ left \in [Writers -> Nat]
  /\ entry \in [Writers -> Entries]
  /\ slot \in [Writers -> Nat \cup {NoSlot}]
  /\ daemon \in {"idle", "wait", "check", "lock", "copy", "reset"}
  /\ result \in {"none", "data", "EINTR", "EAGAIN", "EFAULT"}
  /\ batches \in 0 .. MaxBatches /\ failures \in 0 .. MaxFailures
  /\ copied \in Nat /\ unread \in Seq(Entries)

(* "Add data to the event buffer" (event_buffer.h): the buffer holds the   *)
(* entries that were added and that no read has returned, in the order     *)
(* they were added: none is lost, returned twice or overwritten.           *)
EntriesKept == Contents = unread

(* So it is unless an interval record, which takes no semaphore, overlaps  *)
(* a batch or a read; never in the build that has no interval records.     *)
EntriesKeptUnlessRaced == raced \/ EntriesKept

(* The daemon parses a stream without lengths or checksums: a batch is not *)
(* mixed with another writer's entries, and what a full buffer loses of a  *)
(* batch is its end, also when a read makes room.                          *)
BatchesUnmixed ==
  \/ raced
  \/ \A k \in 1 .. Len(unread) :
       unread[k].place > 1 => k > 1 /\ unread[k] = NextPlace(unread[k - 1])

(* "When we get near to the end we wake up the process sleeping on the     *)
(* read()" (add_event_entry()): nobody sleeps while the buffer is past its *)
(* watershed, or full.                                                     *)
NobodySleepsNearTheEnd ==
  daemon = "wait" /\ buffer_sem = "free" /\ NearTheEnd => buffer_ready

(* So it is until a read has cleared buffer_ready and then not emptied the *)
(* buffer, or an unlocked position update has stepped over the watershed.  *)
NobodySleepsUnlessFaulted == faulted \/ raced \/ NobodySleepsNearTheEnd

(* Whatever is in the buffer when the daemon is called, by the watershed,  *)
(* a dump or oprofile_stop(), is read (or given up by a release): a read   *)
(* that clears buffer_ready late does not undo a later call.               *)
CalledDaemonReads ==
  opened /\ buffer_ready /\ buffer_pos > 0 ~> buffer_pos = 0 \/ faulted \/ raced

-----------------------------------------------------------------------------
(* The buffer as a log to which batches are added at once: when the writer *)
(* begins, all that will fit is as good as added.                          *)
Adding == IF left["sync"] > 0 THEN "sync" ELSE "control"

EntryAfter(e, n) == [by |-> e.by, batch |-> e.batch, place |-> e.place + n]

EntriesToBe ==
  LET all == buffer_pos + left[Adding]
  IN  [i \in 1 .. (IF all < BufferSize THEN all ELSE BufferSize) |->
         IF i <= buffer_pos THEN event_buffer[i - 1]
         ELSE EntryAfter(entry[Adding], i - buffer_pos - 1)]

Log == INSTANCE EventLog
         WITH Capacity <- BufferSize,
              Lengths <- [sync |-> 1 .. MaxBatch, control |-> {IntervalRecord}],
              log <- EntriesToBe, count <- batches, answer <- result,
              open <- opened, spoilt <- raced

(* A batch of sync_buffer() and an interval record are added as if in one  *)
(* step, and lose entries only at their end and only if the buffer is      *)
(* full; a read that returns data returns all there is, and one that fails *)
(* loses nothing.                                                          *)
ImplementsLog == Log!Spec
=============================================================================
