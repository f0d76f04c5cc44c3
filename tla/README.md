# RRProfile in TLA+

RRProfile is a Linux kernel module, derived from OProfile, that samples what
the machine executes. Interrupts (a timer, or the overflow of a hardware
counter) log samples into a buffer of their CPU; workers move them into one
event buffer; a daemon in user space reads that buffer through a file. This
directory holds TLA+ models of the module, configurations that check them with
TLC, and theorems about them that TLAPS checks.

The sources hold two builds. The Makefile always defines `RRPROFILE`; without
it the code is close to the OProfile it comes from. Where both matter a model
has a constant `RRPROFILE`.

## The system

| part | state | operations | what makes it correct |
|---|---|---|---|
| per-CPU buffer, `driver/cpu_buffer.c` | ring with `head_pos` and `tail_pos`, `last_task`, `last_is_kernel`, `tracing`, counters, a delayed work item | log a sample with its notes, stamps and frames; count free slots; start and end the work | the ring is a FIFO, never overrun; the work item does not outlive the ring |
| synchronisation, `driver/buffer_sync.c` | locals of `sync_buffer()`: `state`, `in_kernel`, `mm`, `tgid`; mortuary lists | drain one ring, decode entries, append records | each sample is recorded under the context it was taken in, each frame under its sample |
| event buffer, `driver/event_buffer.c` | array, `buffer_pos`, `buffer_ready`, `buffer_dump`, `buffer_opened`, `buffer_sem` | add, wake, open, read, release | what is added is read once and in order; the daemon is woken |
| session, `driver/oprof.c` | `is_setup`, `oprofile_started`, `oprofile_ops`, `oprofile_adapt_value`, `start_sem` | setup, start, stop, adapt, shutdown, change of mode | interrupts and workers run only while what they use exists; calls return |
| control files, `driver/oprofile_files.c`, `oprofilefs.c` | parameters | parse, check, call the session | a check still holds when it is acted upon |
| timer, `driver/timer_int_*.c` | `timer_pop`, `start_timestamp`, `ctr_running` | start, stop, tick, CPU hotplug, adapt | no tick after stop |
| x86 session, `x86/nmi_int.c` | `nmi_enabled`, `ctr_running`, saved registers | setup, start, stop, shutdown, suspend, resume, adapt | registers come back as they were; what a late NMI starts is stopped |
| x86 counters, `x86/op_model_*.c` | control and counter registers, `reset_value` | setup, start, stop, check and re-arm | an overflow is logged once and its counter re-armed |
| x86 idle loop, `x86/process.c` | `pm_idle`, `poll_idle_enabled` | install, take back | the kernel's own loop comes back |
| x86 backtrace, `x86/backtrace.c` | none | walk frames | ends; frames go up |
| powerpc, `powerpc/*.c` | `oprofile_running`, `reset_value` | as x86; walk frames | as x86 |

How they interact. An interrupt handler calls `oprofile_add_sample_start()`,
`_stop()` and `oprofile_add_sample()`, which write the ring of their CPU without
a lock. Every tenth of a second `wq_sync_buffer()` of each CPU, and on a stop
or an adapt the control function itself, calls `sync_buffer()`, which empties
one ring into the event buffer under `buffer_sem`. The daemon sleeps in
`event_buffer_read()` and takes `buffer_sem` to copy. Control functions exclude
each other by `start_sem`; opening and closing the buffer file sets the session
up and shuts it down. The session calls the operations of an architecture, which
run on every CPU by an interprocessor interrupt and program the counters; the
handler of a counter's overflow walks the stack of what it interrupted.

What is hard. The ring is shared between an interrupt and a reader without a
lock. Notes in the ring are relative to what was noted before, and the reader
resets that memory. The event buffer is appended to with and without its
semaphore. Work items re-add themselves while they are being cancelled. Checks
are made before the semaphore that protects what they check. CPUs come and go.
An NMI interrupts everything, the loop that stops its counters too, and comes
when its counters have been stopped.
Tasks die while a ring refers to them.
The list in `PROJECT.json` ("hazards") gives the lines.

## The modules

| module | models | extends |
|---|---|---|
| `SampleFifo` | what a ring promises: a bounded queue | |
| `EventLog` | what the event buffer promises: a log that batches join whole | |
| `CpuBuffer` | one ring, the handler that fills it and the reader's side of it | |
| `SyncBuffer` | `sync_buffer()`: the decoder on top of that reader | `CpuBuffer` |
| `EventBuffer` | the event buffer, its writers and the daemon | |
| `Oprof` | the session, its control functions, the work items, hotplug | |
| `CounterModels` | what a counter model does to the registers of a CPU | |
| `CounterSession` | the counters of all CPUs over sessions, and their interrupts | `CounterModels` |
| `Mortuary` | who frees a task that rings still refer to | |
| `P4Registers` | the registers that two threads of a Pentium 4 share | |
| `Backtrace` | one walk of a stack | |
| `CpuBufferProofs`, `SyncBufferProofs` | theorems | the module named |
| `EventBufferProofs`, `OprofProofs` | theorems | the module named |
| `CounterSessionProofs`, `MortuaryProofs` | theorems | the module named |
| `BacktraceProofs`, `P4RegistersProofs` | theorems | the module named |
| `MCSyncBuffer`, `MCEventBuffer`, `MCOprof`, `MCCounterSession` | instances for TLC | the module named |
| `MCDetails` | one instance for the three modules | `Mortuary`, `P4Registers`, `Backtrace` |

**CpuBuffer.** `buffer`, `head_pos`, `tail_pos`, `last_task`, `last_is_kernel`
and `tracing` are the fields of `struct oprofile_cpu_buffer`; `stats` holds its
four counters. The handler is a sequence of steps, `wpc` says where it is: each
step fills at most one slot, so the reader can see every state of the ring that
the processor's stores produce in order (the code has barriers for that order).
One step is one place of the code: `BeginTrace` is `oprofile_begin_trace()`,
`LogSample` the early returns of `log_sample()`, `NoteKernel`, `NoteTask` and
`NoteTid` its notes, `AddSample` the sample, `AddTrace` a call of
`oprofile_add_trace()` by the unwinder. The reader is `GetSlots`, the two stores
of `cpu_buffer_reset()`, one `Drain` per iteration, `EndSync`. `SameCpu` says
that the reader runs on the CPU whose ring it drains: then the handler
interrupts it, and never waits half way. An entry of the model carries the
interrupt it comes from. The decoder looks only at what the C entry has; `id`
and `hole` are for the properties.

**SyncBuffer.** `sb` has the locals of `sync_buffer()`, and beside them what the
records written so far tell the daemon: the last mode, the last context, the
interrupt whose sample the current frames belong to. `out` is the record of the
last step. `Decode` is the body of the loop. Whether a user address has a
mapping is a choice.

**EventBuffer.** Entries have an identity (writer, batch, place), so a lost,
repeated or misplaced one is seen. `add_event_entry()` is two steps: store the
entry, store the position. The second may use the position loaded before the
store or load it again, because the C code allows both; the two differ only if
writers race. `sync_buffer()` and `oprofile_put_buff()` add a batch under
`buffer_sem`; `start`, `adapt` and `stop` add three entries without it, under
`start_sem` (`control`). The daemon goes through `event_buffer_read()` step by
step: wait, the look at signals, the look at `buffer_ready`, the semaphore, the
copy, the reset; a signal or a fault ends it early. Histories: `unread` is what
was added and not returned; `faulted` is set by a failed copy until a copy
succeeds; `raced` by an interval record that overlaps a holder of `buffer_sem`.
`ImplementsLog` needs none of them but `raced`: the array, the position and what
the writer has left to add (`EntriesToBe`) are a log that a batch joins in one
step, at the moment its writer begins, cut only if the log is full. A read that
returns data takes all of it; one that a signal or a fault ends takes nothing.

**Oprof.** `section` is what runs under `start_sem` and how far it is: setup
(`alloc`, `setup`, `sync_start`), stop and adapt (one ring at a time in
`SyncOne`), shutdown (`cancel`, `flush`, `free`). `daemon` is where the opening
or closing process is; between `oprofile_stop()` and `oprofile_shutdown()` of a
release nobody holds the semaphore. A work item is idle, on its timer, queued,
past `sync_buffer()`, past the look at `work_enabled`: `wq_sync_buffer()` is
several steps so that `end_cpu_work()` can come between any two. `ops` is
`oprofile_ops`, `armed` the operations whose `setup()` ran, `sampling` those
whose interrupts are on, `running` the CPUs that take them. `oops` records a use
of buffers that are not there, or `INIT_DELAYED_WORK` on an item in use; both
are undefined, and the model stops there. This is the `RRPROFILE` build on
Linux 3.3 or later on x86; `ops.start()` of both modes cannot fail, so that
branch matters only in `EndAdapt`, where it changes the state.

**CounterModels.** The registers of a CPU are a record: which counters have
overflowed, which controls name an event, which counters are let count, where
LVTPC sends the interrupt, and with what period each counter was loaded. The
models look at one bit of a counter, so its value is kept only as overflowed or
not; `X86Over` and `PowerPCOver` say what that bit is right after a load. Each
function of a model (`setup_ctrs`, `start`, `stop`, `check_ctrs` of ppro, athlon
and p4; `reg_setup`, `cpu_setup`, `start`, `stop`, `handle_interrupt` of power4,
7450 and rs64) is an operator from registers to registers. `p4_setup_ctrs` keeps
the early returns of the code: nothing is programmed where the PMC is not
available (`available`), and no event for a counter whose event is out of range or
has no binding to it (`bound`). `athlon_stop` and `p4_stop` are whole in a handler,
which nothing interrupts; in the control function they are a loop (`StopOne`,
`StopLast`).

**CounterSession.** One control thread; `section` is the operation it is in and
`todo` the CPUs whose handler has not returned, so that the handlers of
`on_each_cpu()` run in any order. `oprofile_add_start()` and
`oprofile_add_stop()` are separate steps of a handler (`at`), because an NMI may
come between them and the registers. `Count` is the hardware: a counter
overflows and sends its interrupt, which is taken later (`pend`).
`profile_exceptions_notify()` is two steps: `NmiEnter` reads `ctr_running`, and
`NmiCheck` or `NmiStop` does what was read (`nmi` is the branch taken), so that
`nmi_stop()` on another CPU may clear the flag and return in between. The loop of
`athlon_stop()` and `p4_stop()` in an IPI is one step per counter (`StopCounter`,
and `StopCpu` for the last; `passed` are those done), with NMIs in between.
`PmcInterrupt` is the powerpc handler, which waits
while a handler of `on_each_cpu()` runs. An NMI suspends the IPI handler of its own
CPU; the control thread may run on any other. `model` and `pmc` (the CPUs of a P4
whose PMC the firmware has made available) are chosen once, at load. `Decay` is apart from `CanAdapt`: the
counts are looked at and then multiplied while the user may write them.
`Suspend` costs all CPUs but the last their registers; `Resume` starts the
counters without asking. `pm_idle` is which idle loop is installed. Exceptions
are histories: `late` (an interrupt taken by a CPU whose counters were stopped),
`restarted` (an NMI handled inside the loop of `athlon_stop()` or `p4_stop()`, whose
`check_ctrs()` starts what the loop has passed), `resumed`, `slept`,
`reconfigured`, `decayed`, `raced`.

What is coarser than the code there, and why it loses nothing the properties tell
apart: the loop of `start()` is one step, since an NMI inside it ends with the same
`start()`; the read and the write of one control register are one step; the
handler reads `reset_value`, which only setup and adapt write, in the step in which
it loads the counters; the order in which a loop visits the counters is arbitrary.

**Mortuary.** `refs` are the tasks the ring of a CPU refers to, `batch` those of
the entries that `sync_buffer()` has acquired. A task that dies goes to `dying`,
to `dead` and to `freed`, or, with the notifiers not registered, is freed at
once. `MarkDone` is `mark_done()` with `process_task_mortuary()`. A stop
unregisters the notifiers (`Unregister`), ends the work (`EndCpuWork`), empties the
two lists (`EndSync`, twice) and frees the buffers. Any set of work items may
outlive `EndCpuWork`: those a worker adds again after the cancel (`Oprof` shows how
that comes) and those of CPUs that are offline; they may still sync while the lists
are emptied (`late`). Any CPU but the last may go offline and come back at any time.

**P4Registers.** The event table, the address lists and the loops of
`op_model_p4.c` with their stagger, over one core: a thread saves and restores
its list of registers, clears and programs others, and siblings run the same
operation in any order. `Settings` is what the user may ask of the counters, as
functions from enabled counters to events, and `Configs` those of them that name
only counters the model has. `EveryControlFilled` counts the list against the
allocation.

**Backtrace.** One action is one iteration of a loop in `x86/backtrace.c` or
`powerpc/backtrace.c`. Memory is a back chain word for each frame; frames may be
unreadable, `Write` is another thread of the task changing one. `Chain` is the
chain of frames as memory has it, and `Records` says of each place in it whether
it belongs into the trace.

## The runs

| run | question | result |
|---|---|---|
| `sync_vanilla` | Without `RRPROFILE`: is the ring a FIFO, is it never overrun, do samples keep their context and frames their sample? | holds |
| `sync_rr` | With `RRPROFILE`, reader on the ring's CPU: the last two, and do TGID and TID stay together? | holds |
| `ring_overrun_rr` | With `RRPROFILE`: is the ring never overrun? | no |
| `event_buffer` | Is the buffer a log that batches join whole, is what is added read once and in order, and is the daemon woken? | holds |
| `event_unlocked` | The same without excepting interval records that overlap a batch or a read | no |
| `event_fault` | Is a sleeper woken near the end, after a failed copy too? | no |
| `oprof` | Do buffers outlive their users, does stop leave nothing, are rings drained, do calls return? | holds |
| `oprof_late_work` | Is there no work item after the buffers are freed? | no |
| `oprof_two_clients` | With several clients: do only operations that were set up start? | no |
| `counters` | Six counter models: are counters off between sessions, are samples, periods, registers and the idle loop as they should be? | holds |
| `counters_left_on` | Does `athlon_stop()` leave all counters off, if no interrupt comes after it? | no |
| `details` | Are dead tasks freed late enough, and at all? Do siblings share registers safely? Is a walk bounded, and complete? | holds |

What the failing runs show, each also in `PROJECT.json` ("findings"):

- `ring_overrun_rr`: `log_sample()` asks for three free slots; with `RRPROFILE`
  it can write four entries, and two stamps before that without asking. The
  head meets the tail and a full ring reads as empty.
- `event_unlocked`: the interval record of start, stop and adapt is added
  without `buffer_sem`; two writers use the same position.
- `event_fault`: `buffer_ready` is cleared before the copy; if the copy fails
  the position stays past the one value that wakes the reader.
- `oprof_late_work`: a worker tests `work_enabled`, `end_cpu_work()` clears it,
  finds nothing to cancel and waits for the worker, which re-adds its item.
- `oprof_two_clients`: `timer_write()` looks at `buffer_opened` before it has
  `start_sem`; the operations change under a session that was set up with
  others.
- `counters_left_on`: an NMI inside the loop of `athlon_stop()` or `p4_stop()` finds
  `ctr_running` set, and `check_ctrs()` starts the counters the loop has passed.
  They count on until their next overflow, whose NMI stops them
  (`LateCountersCanBeStopped`).

### What the passing runs except

A property of a passing run names the cases in which the code does not keep it,
as histories (`overrun`, `raced`, `faulted`, `late`, `resumed` and the others in its
comment), and the run shows that there are no others. Some are the failing runs
above. Taken out of its property, each of the rest gives TLC a counterexample too:

- a late NMI. A handler that has read `ctr_running` logs after `nmi_stop()` on
  another CPU has cleared it and returned (`NoSampleAfterStop` allows it this much).
  So `OpsStop` of `Oprof`, which waits for handlers, is the timer's; in event mode
  such an NMI may be last, and what it logs is left in the ring. One on its way
  interrupts `oprofile_add_stop()` of its CPU and writes to the same ring
  (`OneWriter`). `model->stop()`, the answer to a late one, leaves LVTPC masked, and
  `start()` does not unmask it (`SessionCounts`).
- `resumed`: `nmi_resume()` starts the counters of a session that is set up and not
  profiling (`CountersOffBetweenSessions`, `IdleRestored`, with a late NMI
  `RestoredAfterShutdown`; `PeriodAsAnnounced` needs two changes, `MaxChanges` 2).
- settings: changed between setup and start (`reconfigured`), or still multiplied
  from an adapted session before (`decayed`); `slept` registers lost in a suspend.
- tasks (`NoUseAfterFree`): one dies after `sync_stop()` has unregistered the notifier
  and before the syncs are over (`direct`); a CPU goes offline with entries in its
  ring (`unplugged`); a late work item syncs while the lists are emptied (`late`).
- `unplugged` CPUs in `Oprof`: only `start_cpu_work()` gives a CPU its work item. One
  that comes online later is sampled by the timer and drained by nobody, not by a
  stop either if it is offline then.
- the window that the comment in `get_slots()` describes (`hole`). With a reader on
  another CPU, TGID and TID may fall into two batches, and the second begins with
  TGID 0 (`ContextPairsMatch` has `SameCpu`).
- a second client. Besides `oprof_two_clients`, a start by it between the stop and the
  shutdown of `event_buffer_release()` is not noticed by the shutdown, which frees
  the rings (`NoUseAfterFreeUnlessLate`).

`raced` in `CountsFit` is not needed in the instance, whose counts start at one: a
count written between the test and the multiplication would have to be larger.
`TypeOK` and the liveness properties of `event_buffer` and `oprof` also stop at
`raced` and `oops`. A read after a dump may reach the branch of
`event_buffer_read()` that its comment calls impossible (`EAGAIN`): `buffer_dump`
stays set, so that it does not wait. The model has it, and it takes nothing.

### Bounds

- `BufferSize` of a ring: six without `RRPROFILE`, ten with it. A sample with a
  backtrace takes up to five entries (begin, mode, task, sample, frame) or
  eight with stamps and two task entries, so these rings hold one such sample
  and part of the next: they wrap, fill up, refuse, and with stamps overrun.
  Twelve in `ring_overrun_rr` shows that the overrun does not need a ring too
  small for a sample.
- `MaxInterrupts` three (two): a sample before, in and after a batch. Two tasks,
  so that a context changes; the tasks are symmetric. `MaxDepth` one: a trace
  with a frame, with none, with one refused, and no backtraces at all.
- Event buffer of five entries, watershed two: batches cross the watershed, fill
  the buffer exactly and overflow it. Four batches or records; two failed reads.
- Two CPUs, one of which is always there; rings of two samples, so that one is
  empty, partly filled or full. Sessions are not bounded.
- `counters`: two CPUs and two counters, so that handlers of one operation and
  interrupts overlap and a loop of `stop()` has a middle; the counters are
  symmetric. `Models` are all six. `Top` stands for 2^31: with
  `Top` 7 and `Factor` 3 a count of one is multiplied once and then refused;
  two counters of which one is enabled tell settings apart. `Choices`: off, on, and
  on with an event for which the counter has no binding (P4 only). `Firmware`: the
  PMC of a P4 available on one CPU and not on the other; two CPUs that both stop in
  a loop are the Athlon's, two whose LVTPC is masked the Pentium Pro's. `Garbage` is what `kmalloc()`
  leaves in `reset_value` of ppro. `MaxChanges` one: one suspend or one change of a
  setting in a behaviour, in every place. `MaxAdapt` two lets a session adapt once
  and a second session find the cap; it bounds the case in which no counter is
  enabled, where nothing in the code does.
- `counters_left_on`: one model, and no changes, so that its trace is about one
  thing.
- `details`: two CPUs that come and go and two tasks, so that one task is on
  each list; on one counter of a P4 any event from 0 to 40, which is all of the
  table and one beyond, and event 14, which has one binding only, on another;
  with and without hyper-threading, on old and new models, PMC enabled or not;
  three frames, depths up to `Limit` 5 where the unsigned depth wraps, and one
  write by another thread. The three parts share no state; a behaviour is of one.
- `VIEW LiveState` leaves out slots, entries and locals that nothing reads any
  more, and in `counters` the difference between histories that the properties
  except alike, with the periods once they are excepted. Every property depends
  only on the rest. `CONSTRAINT NotRaced` stops
  `event_buffer` at the first race, after which its properties promise nothing.
- `CHECK_DEADLOCK FALSE`: bounded interrupts, batches and failures come to an
  end, and the session model stops at an `oops`.

### Fairness

`EventBuffer`: a started batch or control function goes on, and the daemon reads
in a loop. The three are separate threads and wait only for `buffer_sem`, whose
waiters the kernel queues. Signals, faults, dumps and calls are not fair.
`Oprof`: a function that holds `start_sem` goes on, the release that has stopped
profiling goes on to shut down, and the delayed work of each CPU runs: timers
expire and the workqueue has a thread. Clients, samples and hotplug are not
fair. `Mortuary`: a sync that has begun ends (`MarkDone`), a stop that has begun
goes on (`EndCpuWork`, `EndSync`), each weakly; and the worker of each CPU gets
its turn (`WorkerSync`, strongly, because a notifier may take `buffer_mutex`
before it any number of times, but the mutex queues who waits). The other
modules state safety only.

## The proofs

TLAPS checks each theorem for every value of the constants that the named
assumptions of the module allow: any ring size, set of CPUs, tasks or frames,
depth, number of interrupts. Every type invariant of a module with theorems is
one of them (`TypeCorrect`). The theorems make the same exceptions as the
properties they state.

The ring, `CpuBuffer`:

1. `TypeCorrect` (`CpuBufferProofs`): `Spec => []TypeOK`, in both builds. The
   type invariant is inductive as it stands. That the two indices stay inside
   the buffer is part of it; `add_sample()` and `sync_buffer()` rely on it.
2. `RingNeverOverruns` (`CpuBufferProofs`): without `RRPROFILE`, `NoOverrun`. It is
   not inductive: the handler checks once and writes up to three entries later.
   `RingInv` (`RingSafe`) is: `RoomLeft` says what is left of the room at each
   place of the handler, and `available <= SlotsUsed` that the reader takes only
   what is there. The steps rest on three lemmas about the indices: `SlotsAddUp` (free
   and used slots are all but one), `WriteTakesOneSlot` and `DrainFreesOneSlot`
   (a step of one side changes both counts by one, and the reader only adds
   room).
3. `RingImplementsFifo` (`CpuBufferProofs`): without `RRPROFILE`,
   `Spec => ImplementsFifo`. The queue is the function from 1 to `SlotsUsed`
   into the ring from `tail_pos` on. `WriteIsPut` and `DrainIsGet` show that a
   slot filled is a `Put` and an iteration of the reader a `Get`, given
   `RingInv`; every other step leaves the queue alone (`RingStep`).

`ring_overrun_rr` shows that all but the first fail with `RRPROFILE`, so they
assume its absence.

The decoder, `SyncBuffer` (`SyncBufferProofs`), in both builds and with the
reader on any CPU:

4. `RecordsAttributed`, `FramesAttributed`, `PairsMatch`: `Attribution`,
   `FramesFollowTheirSample` and `ContextPairsMatch`. What an entry means depends
   on the entries before it, so the invariant (`NotesInv`) speaks of places of
   the ring: of each place from `tail_pos` on, whether a reader that gets there
   knows the mode (`ModeKnown`), the two halves of the context (`TgidKnown`,
   `ContextKnown`) and the trace it is in (`TraceBegun`, `TraceOf`). `EntryOK`
   says this of every entry, `HandlerOK` of the entry the handler will write
   next, `LastOK` of what `last_task` and `last_is_kernel` let it leave out,
   `ReaderOK` of the record just written. `KnownStays`, `KnownNew` and
   `KnownMoves` carry the knowledge over a write, a reset and an iteration of the
   reader. A new entry and a freed slot are the only two changes of the ring
   (`RingGrows`, `RingStays`). Once the ring has overrun nothing is claimed.
   `SyncIsRing` shows that `SyncSpec` implies the `Spec` of the ring, so that its
   type invariant carries over.

The event buffer, `EventBuffer` (`EventBufferProofs`), in both builds:

5. `NothingLost`, `NothingMixed`, `SleepersAreCalled`: `EntriesKeptUnlessRaced`,
   `BatchesUnmixed`, `NobodySleepsUnlessFaulted`. Until an interval record races,
   only one writer is between its two stores (`OneAtATime`), the array up to
   `buffer_pos` is `unread` (`ArrayKept`), the next entry of a writer continues
   the last one added or the buffer is full (`BatchGoesOn`), and past the
   watershed `buffer_ready` is set unless the daemon holds the semaphore
   (`Called`). The equality test of the watershed is enough because positions
   are then taken one by one. `VanillaKeepsEntries`: without `RRPROFILE` nothing
   ever races (`NeverRaced`), and `EntriesKept` has no exception.
6. `BufferImplementsLog`: `ImplementsLog`, from the same invariant. `BatchIsPut`
   shows that beginning a batch is a `Put` of all of it that will fit, `AddIsKept`
   that adding or losing an entry changes nothing that the log did not have,
   `EmptyLog` that a read or a release leaves it empty because nobody adds then.
   A step that begins a race is the exception of `EventLog` (`Spoil`).

The session, `Oprof` (`OprofProofs`):

7. `StopDrains`: `StopLeavesNothing`, with any number of clients. What the loop
   has passed is empty, and no interrupt is on to fill it (`PassedAreEmpty`,
   `Quiet`).
8. `StartsWhatIsSetUp`, `WorkOutlivedOnlyLate`, `BuffersOutliveTheirUsers`:
   `SetUpBeforeStart`, `NoWorkAfterFreeUnlessLate`, `NoUseAfterFreeUnlessLate`,
   for one client at a time (`~OtherClients`; `oprof_two_clients` shows that the
   first needs it). `Stages` ties what is allocated, set up and started to where
   the daemon is; `WorkEndsInTime` says that work which is left when the flush
   has passed its CPU is late.

The counters, `CounterSession` (`CounterSessionProofs`), for all six models:

9. `IdleLoopReturns`, `CountersAreOff`, `RingHasOneWriter`, `NothingAfterStop`:
   NMIs come at any time, inside a loop of `stop()` and between the two steps of a
   handler. `Rest` says for each operation which CPUs have been started (`on`) and that
   one that writes its mark has not; `OffCountNothing` that only counters of
   started CPUs count, also in the saved registers, and, unless an NMI was
   handled inside the loop, that a counter the loop has passed is off. An
   interrupt taken by a CPU that is not started is late by definition. A handler
   that has read `ctr_running` (`nmi[c] = "check"`) when nothing is profiled can
   only be one on a CPU that has been stopped, since an IPI waits for the NMI that
   suspends it: that is what `NothingAfterStop` adds.
10. `CountsStayBelowTop`: the cap tested by `CanAdapt` still holds in `Decay`, and
   a count below `(Top - 1) \div Factor` times `Factor` is below `Top`.
11. `RegistersComeBack`, `LateCountersAreStopped`: a CPU is bare from its restore
    to its next setup (`Bare`); `CpuInv` says of each CPU what its saved and bare
    registers are, and that a counter that counts without being able to interrupt
    has its interrupt on its way or was started. What a model does to events and
    LVTPC are lemmas of their own (`SetupEvents`, `CheckEvents`, ...).
12. `PeriodsAreAnnounced`: `PeriodAsAnnounced`. As long as the settings have not
    changed, what the model loads into a counter (`reset_value`) and what is in it
    is the count in `config`, and that is the count asked for times
    `adapt_value` wherever an interrupt can find it; an adapt multiplies both in
    one operation, in which no counter of a started CPU runs.
13. `SessionsCount`: `SessionCounts`. Live counters of a started CPU, those that
    count and can interrupt or have an interrupt on its way, stay live over every
    operation and interrupt (`LiveInvariant`). `StartOpens` and `PowerPCStarts` say
    of each model that a start lets every counter granted to the user count,
    `X86LiveKept` and `PowerPCLiveKept` that its handler keeps them so. Granted are
    the enabled counters with a count, on a P4 only those with a binding, on the CPUs
    whose PMC is available: the counters that the early returns of
    `p4_setup_ctrs()` leave without an event are not (`GrantedIsBelow`).

The mortuary, `Mortuary` (`MortuaryProofs`), and the walk, `Backtrace`
(`BacktraceProofs`):

14. `NeverFollowsFreed`, `MarkedAreClean`: `NoUseAfterFree`, `MarkedHoldNoDead`.
    `RefsAlive` says that a CPU that is marked or being synced refers to no dead
    task, hence an unmarked one to no freed one. Nothing is claimed of a sync that
    begins after `EndCpuWork` (`late`): an item may be left, and the two lists are
    emptied meanwhile.
15. `WalkStaysInBounds`: `TraceInBounds`. What is left of the depth bounds the
    length (`DepthLeft`), and the next head lies above all frames so far
    (`Upwards`).
16. `WholeChainIsWalked`: `WholeChainWalked`. While nobody writes, the head is the
    next frame of the chain and the trace lists the frames to record among those
    passed (`WalkedSoFar`, `InPlace`); above a frame that cannot be read there is
    none (`ChainEnds`), so a walk that stops has passed all. That the chain,
    which is defined by recursion, exists at all is shown with the least length
    at which there would be none (`PrefixExists`).

The registers of the Pentium 4, `P4Registers` (`P4RegistersProofs`), for every
setting of the counters, on old and new models, with and without siblings:

17. `ControlsFit`: `EveryControlFilled`. Each loop of `p4_fill_in_addresses()` fills
    a known set of addresses and a known number of entries (`Fills`,
    `StaggeredFills`, `FillsBoth`), and the numbers add up.
18. `RegistersRestored`: `P4RegistersRestored`. Setup writes nothing that the
    thread has not saved (`WrittenAreSaved`), a copy holds the firmware's values
    because saving is over on all CPUs before setup begins (`CopiesAreBoot`), and a
    register outside its copies has not been written (`OthersAreBoot`).
19. `EventsProgrammed`: `P4EventsProgrammed`. What a thread clears or programs is on
    its side of the stagger (`SiblingLeaves`), an ESCR in the event table
    is for one counter (`EscrDecides`, by cases) and no two counters of the core are
    the same (`OwnCounters`, `OwnBinding`), so what one has programmed stays
    (`BoundInv`, `ActiveInv`).

Every invariant and action property that a passing run checks is proved, and both
refinements. Model-checked
only are the liveness properties (`CalledDaemonReads`, `RingsDrained`,
`ControlReturns`, `MortuaryProgresses`), because the prover does not handle
fairness and `ENABLED`.

## Not modelled, and the plan

Out of scope: the virtual file system (`oprofilefs.c`), statistics files, the
parameter files that only store or print a number, module load and the choice of
a model by CPU family, installation scripts, and the NMI timer that this build
does not use.

Left, by what can go wrong:

1. `timer_int_2.6.9.c`: the timer of old kernels, whose handler and `timer_pop`
   differ from the hrtimer version.
2. `op_model_fsl_booke.c`, as a seventh counter model; its table has no
   `cpu_setup`.
3. The search of a task's mappings for a cookie and the module notifier in
   `buffer_sync.c`, now one choice (mapped or not).
4. The allocation failures of `nmi_setup()`, and the page-table checks of
   `backtrace.c` on old kernels.
5. The composition of `CounterSession` with `CpuBuffer`: the writer that is
   second on a ring (`clash`) is a history flag in one and is excluded in the
   other.
6. Abstract specifications of the session (`Oprof`) and of the mortuary, and
   proofs that they are implemented.
