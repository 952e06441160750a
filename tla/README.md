# Weakly-hard FreeRTOS simulator: models, checks and proofs

This directory holds TLA+ modules for the program in `src/`: a FreeRTOS kernel
(V202112.00, Posix port) modified to run *periodic tasks* with *weakly-hard
constraints* under one of three algorithms, and the application around it that
generates a task set, runs it for one hyperperiod and reports how many deadlines
were missed.

Paths below are relative to `src/FreeRTOSv202112.00/FreeRTOS/`; `tasks.c`,
`list.c`, `timers.c`, `queue.c` are in `Source/`, `port.c` in
`Source/portable/ThirdParty/GCC/Posix/`, `taskSetGenerator.c`, `main_blinky.c`,
`FreeRTOSConfig.h` in `Demo/Posix_GCC/`.

## 1. The system

A *task set* is generated by `startTaskSetGenerator`: each task has a period, a
duration (ticks of processor time per job) and a constraint. Constraint 0 means
that no deadline may be missed, constraint n that one job in n may be.
`main_demo_periodic` creates the tasks, all of priority 1, and starts the
scheduler. A task body is an endless loop: a *job* is nothing but the ticks that
`xTaskIncrementTick` charges to the task it interrupts. At every tick the
handler

1. charges the running task; a job with no ticks left is reported met
   (`setReport`) and its task goes to `xWaitTaskList`;
2. at the hyperperiod calls `exit_function`, which counts, writes a line to the
   report file and exits;
3. `killTasks`: moves every ready job that can no longer meet its deadline to
   the wait list, and lowers the flag `weakly_hard` if that breaks a constraint;
4. `wakeTasks`: releases a job of every waiting task whose period starts;
5. switches to the head of the highest non-empty ready list.

The algorithm, a compile-time switch, only shows in `prvAddTaskToReadyList` and
in `wakeTasks`: **EDF** sorts the ready list by absolute deadline; **BWP** puts
behind all others the jobs that may be missed (*blue* jobs); **RTO** does not
release such jobs at all.

### Components

| component | state | operations | modelled in |
|---|---|---|---|
| periodic tick handling (`tasks.c`) | `xTickCount`, two lists, `pxCurrentTCB`, per task `xRemainingTicks`, `start_time`, list key, `previous_deadline_met` | tick, kill, wake, skip, switch | `PeriodicScheduler` (per tick), `PeriodicKernel` (per list operation) |
| kernel lists (`list.c`, `list.h`) | order of items, `pxIndex` | insert sorted, insert at end, remove, walk | `KernelList` |
| task creation, scheduler start | the same lists, before any tick | `xTaskCreatePeriodic`, `vTaskStartScheduler` | `PeriodicKernel` |
| scheduler suspension, timer daemon (`tasks.c`, `timers.c`) | `uxSchedulerSuspended`, `xPendedTicks`, `xYieldPending` | suspend, pend, replay, resume, block, yield | `PeriodicKernel` |
| Posix port (`port.c`, `wait_for_event.c`) | signal masks, `uxCriticalNesting`, one thread and event per task | tick signal, critical section, yield, thread hand-off, deletion | `PosixThreads`; the masks also in the guards of `PeriodicKernel` |
| exit report (`taskSetGenerator.c`) | `report`, `missed_deadlines`, `weakly_hard_broken` | count, sum, write | `ExitReport` |
| task set generator (`taskSetGenerator.c`) | `Task_Set` | draw, test, compute | `TaskSetGenerator` |
| blocked tasks (`tasks.c`) | the two delayed lists, the pending-ready and suspended lists, `xNextTaskUnblockTime`, `xPendedTicks` | delay, block, abort, suspend, resume, wake from an interrupt, tick, replay, catch up | `DelayedTasks`, `TimedWaits` |
| time outs (`tasks.c`) | `TimeOut_t`, `xNumOfOverflows` | set, check | `TimeOut` |
| `xTaskDelayUntil` (`tasks.c`) | the wake time a task keeps | delay until | `DelayUntil` |
| queues (`queue.c`) | the circular buffer; two event lists, two locks | send, receive, peek, overwrite, reset, from tasks and from interrupts | `QueueStorage`, `MessageQueue`, `QueueBlocking` |
| mutexes, event groups, stream buffers, co-routines, notifications, priority changes, statistics, heap, trace recorder, console, demos, experiment scripts | | | not modelled (section 6) |

The last four modelled parts are kernel code the simulator links but hardly
runs: its periodic tasks make no kernel call. They are modelled as the kernel
offers them to any application built on this tree.

The parts interact by calls from the tick signal handler into the kernel, from
the kernel into the application (`setReport`, `weaklyHardBroken`,
`exit_function`), and through the TCBs. Concurrency is that of an interrupt
with the code it interrupts: the tick signal may come between any two steps of
the timer daemon outside its critical sections, and of a periodic task, whose
steps change nothing.

### What is hard, and which property looks at it

The full list, with source lines, is `hazards` in `PROJECT.json`. In short:

* order of completion, kill and release on one tick: `OneList`,
  `CountsFromPeriodStart`, `NeverPastDeadline`, `EveryJobAccounted`;
* walking a list by `pxIndex` while unlinking items from it: `WalkStaysInList`,
  `ListsWellFormed`, `ImplementsScheduler`;
* list keys computed at release and used later: `RunsMostUrgent`,
  `OnlyRedJobsBreak`;
* the weakly-hard flag kept by one 8-bit counter per task: `FlagComplete`,
  `FlagCompleteAtExit`, `FlagSound`;
* ticks that pend and are replayed, and an end that is an equality test:
  `NoTickLost`, `Exits`;
* `start_time` read before it is written: `NeverVeryBad`;
* two counts of broken constraints that need not agree: `SoftBreaksCounted`,
  `HardMissesCounted`;
* whether the algorithms deliver what the theory promises:
  `FeasibleSetsNeverBreak`;
* int overflow, rounding and loops that may never end in the generator:
  `GeneratesWellFormed` (with `HiperperiodIsLcm` and `UtilizationKept`),
  `ReportFits`, `Generates`;
* a hand-off between two host threads that both run for a moment, and threads
  cancelled and freed meanwhile: `OneRunner`, `WakeUpComes`, `CancelledStays`;
* one global nesting counter and signal masks that belong to threads:
  `NestingIsOwn`, `TickOnCurrent`;
* a task that finds a queue full, and an interrupt that uses the queue before
  the task is in the event list: `NoWakeUpLost`, `BlockedAreListed`;
  woken for nothing, it waits for the
  rest: `FailsOnlyInTime`, `WaitsForTheRest`;
* a tick count that wraps, a cached head of a list, ticks that pend:
  `NoTaskPassedBy`, `ImplementsTimedWaits`, `NeverLate`, `EndsOnlyInTime`,
  `DelaysToSchedule`.

## 2. The modules

* `PeriodicTasks`: the constants, the task set (`WellFormed` is what the kernel
  relies on) and the ready key, shared by the two kernel modules.
* `PeriodicScheduler`: the abstract specification. One action per tick (`Tick`,
  or `ExitTick` at the hyperperiod) and `TimerBlocks`, when the timer daemon
  first gives up the processor. The stages of a tick are state functions in the
  order of the code: `Charged`, `Completed`, `Killed`, `Due`, `Skipped`,
  `Released`. Lists are sets; ties between equal keys are left open.
* `KernelList`: `List_t` as the sequence of owners and the position of
  `pxIndex`, with the operations of `list.c` and `list.h`.
* `PeriodicKernel`: the detailed specification. Task creation in order of ids;
  the handler as `vPortSystemTickHandler` (or `ReplayTick`), then one action per
  task visited by `killTasks` and `wakeTasks`, then the switch; the timer daemon
  step by step, with `PendTick` when a tick meets the suspended scheduler. Its
  property `ImplementsScheduler` is `PeriodicScheduler!Spec` under a refinement
  mapping: between ticks the state itself, during a handler the history
  variable `saved`, the state in which the tick began.
* `ExitReport`: the loops of `countMissedDeadlines` and `countWeaklyHardBroken`,
  one job per step, over any report.
* `TaskSetGenerator`: `startTaskSetGenerator`, an action per iteration of its
  three loops and one for what follows them. Ints wrap past `INT_MAX`; a
  utilization is a number of `1/Scale`. What it ends with is compared with
  `PeriodicTasks!WellFormed`, which the kernel modules assume.
* `PosixThreads`: one host thread per task and that of `main`. `pc` says where
  a thread is, at the grain at which threads and the tick signal interleave:
  the stages of `event_wait` and `event_signal`, of the signal handler, of
  `vPortEnterCritical` and `prvSwitchThread`. Which task
  `vTaskSwitchContext` picks is left open.
* `MessageQueue` is what a queue promises, a sequence; `QueueStorage` the
  circular buffer, with `ImplementsMessageQueue` as the refinement.
  `QueueBlocking` is the rest of `queue.c`: an action per critical section or
  statement outside of one, the tick as tick, hook and switch. It counts
  messages and leaves their order to `QueueStorage`.
* `TickCount`: the wrapping tick count that the next three share.
* `TimedWaits` is what the kernel promises a task that blocks for n ticks;
  `DelayedTasks` the two delayed lists, with `ImplementsTimedWaits` as the
  refinement. `TimeOut` is `vTaskSetTimeOutState` and `xTaskCheckForTimeOut`,
  `DelayUntil` one task paced by `xTaskDelayUntil`.
* `MCQueue`, `KernelTime`: two compositions of parts that share nothing, or
  only the tick count. One part moves in each behaviour, the others stand
  still, so that TLC does not multiply their states; every part is explored.
* `SmallTaskSets`, `MCPeriodicScheduler`, `MCPeriodicKernel`: task sets and
  constants for TLC.
* `PeriodicSchedulerProofs`, `PeriodicKernelProofs`, `ExitReportProofs`,
  `TaskSetGeneratorProofs`, `PosixThreadsProofs`, `QueueProofs`,
  `KernelTimeProofs`: the proofs, each module about the component it is named
  after; `QueueProofs` about the storage, the blocking and their composition,
  `KernelTimeProofs` likewise about `TimeOut`, `DelayedTasks` and `DelayUntil`.
  `ArithmeticLemmas` is what several of them need: quotients, induction, sums.

A definition that nothing else uses, placed before another one (for example
`KilledOnceLate` before `Killed`), is a plausible bug of the latter:
`PROJECT.json` pairs each property with one that breaks it.

### How the code is abstracted

* `TickType_t` is unsigned: subtraction and addition in the kill test and the
  deadline test wrap at `TickModulus`. `previous_deadline_met` is a `uint8_t`
  and wraps at `CounterModulus`; its value matters only against the constraint.
* The key: BWP sets bit 31 in every key and bit 30 in blue ones, so a key is a
  record of the colour and the deadline, ordered by `Precedes`.
* `report` is the set of marked indexes.
* `start_time` is not written by `xTaskCreatePeriodic`: its initial value is any
  in `UninitStartTime`. C leaves the memory of `pvPortMalloc` indeterminate; the
  fresh memory of most C libraries is zero, which is `UninitStartTime = {0}`.
* The TCBs of the idle task and the daemon are static buffers smaller than
  `TCB_t` (the assertion that compares the sizes is commented out). Their
  `xTaskPeriod`, past the end of the buffer, is taken to be 0, as it is in the
  padding the default build leaves there.
* The tick handler and the replay of pended ticks run with all signals blocked,
  so nothing interleaves with their steps. `PeriodicKernel` takes the port's
  thread switch for atomic, which `OneRunner` of `PosixThreads` justifies.
* `calculateHiperperiod` has no return statement; the unoptimised build returns
  the value last computed.
* In `PosixThreads`, `pthread_cond_wait` may return without a signal
  (`SpuriousWakeup`), and the mutex of an event is held from `"held"` on.
* In `DelayedTasks`, a list sorted by wake time is the set of its members. The
  two critical sections of `vTaskSuspend` are two actions, as are the read and
  the write of `xPendedTicks` in `xTaskCatchUpTicks`.
* In `QueueBlocking`, which of several ready tasks of one priority comes first
  is left open; `wakeIn` is the distance to the wake time, whose wrap is the
  business of `DelayedTasks`.
* Left out of the two kernel modules: delayed tasks and event lists (always
  empty but for the daemon), the mutex of the console, logging.

## 3. The runs

| run | question | bounds |
|---|---|---|
| `scheduler` | does every tick keep lists, timing, flag, report and processor right? | every set of 2 tasks, periods 1..4, all durations that fit, constraints 0..3, the three algorithms, at most one tick before the daemon blocks; `CounterModulus` 4, so the skip counter wraps |
| `feasible` | does a task set within the demand bound of its algorithm ever break a constraint? | sets of 3 tasks, periods 2..4, constraints 0, 2, 3, utilization up to 160%, no start-up tick |
| `kernel` | does the list-level kernel walk safely, implement the scheduler, lose no tick and end? | 3 tasks, periods 2 and 3, constraints 0 and 2, utilization 100..150%, up to 2 ticks during start-up, `start_time` 0 or garbage, `CounterModulus` 3, so `previous_deadline_met` wraps |
| `exit_report` | do the final loops count what they should? | 2 tasks, up to 4 periods, constraints 0, 1, 2, 4, every report |
| `generator` | do the loops end, with a task set the kernel can run? | 3 tasks, periods 6..9, an `INT_MAX` of 63, so that products overflow to both signs; total utilization 1.5 in tenths |
| `posix_threads` | do the threads make one processor and lose no wake-up? | the idle task and two that may delete each other, two nested critical sections, a tick at any unmasked moment, any number of spurious wake-ups |
| `queue` | is the buffer a sequence; does a blocked task miss a wake-up, get passed over or miscount its block time? | buffers of 1 and 3 slots, two messages; a queue of length 1 with two receivers of different priority and a sender that may reset, one of length 2 with two senders; block times 0, 2 and for ever; two ticks per suspension |
| `kernel_time` | do waits, time outs and paced tasks last as long as they are to, and end? | a tick count of 5 values, started anywhere; two tasks and the idle task; two pended ticks; looks at a time out up to a turn of the count apart; a wrap counter of 3 values |
| `very_bad_branch`, `flag_at_exit`, `flag_first_job`, `hard_misses` | what a comment says and the code does not do (section 5) | small instances of the same modules |

Why these bounds are enough to be interesting: a task set is simulated for
exactly one hyperperiod, so runs are complete, not cut off. Two tasks with
periods up to 4 give every relation of a release to a deadline (before, on,
after), overload in every degree, and up to 12 ticks, in which a task with
constraint 2 or 3 meets, misses, is skipped and recovers; constraint 1 is the
degenerate one where every job may be missed. Three tasks are needed for the
list walks: two tasks unlinked in one walk with a third between or behind them,
and for three deadlines to compete. `MaxStartupTicks` bounds how long the
daemon takes before it blocks (in the program, microseconds against a tick of a
millisecond); 2 lets a tick pend and another come during or after the replay.

A tick count of 5 values wraps within the longest wait, so every relation of
capture, wake time, wrap and look occurs. A buffer of 3 slots has states in
which each end has wrapped and the other has not; length 1 is the only one that
may be overwritten. With three tasks one of two blocked tasks is woken while the
third races it. Three threads are needed for a switch to pass through a thread
that is itself still on its way into the wait.

Deadlock checking is off in the runs of the simulator because it stops:
`exit_function` ends it, as `"done"` ends the generator. The last three runs of
the table that pass check for deadlock.

**Fairness.** `PeriodicKernel!FairSpec` has weak fairness of four groups: the
interval timer keeps firing (`Tick`), and the code that holds the processor, of
`main` (`Boot`), a handler (`Handler`) or the daemon (`Daemon`), goes on. The
daemon is the highest-priority thread, and while it waits to run after a tick
switched it out it needs no step. `Exits` depends on it.

`TaskSetGenerator!FairSpec` has strong fairness of the draws a loop accepts:
they have positive probability, and each loop draws until then. `Generates`
depends on it, and on a total that leaves an acceptable split.

`KernelTimeSpec` has weak fairness of the tick and of the code that has
suspended the scheduler (`xTaskResumeAll`, the replay, the write of
`xTaskCatchUpTicks`): it runs at the highest level and never blocks there.
`WaitsEnd` depends on it.

Liveness of `PosixThreads` and `QueueBlocking` is stated as safety: a wake-up
that is due is always on its way (`WakeUpComes`, `NoWakeUpLost`), and the wait
in store for a task is what is left of its time
(`WaitsForTheRest`). This says more than that the wait ends, and needs no
assumption on the host's scheduler.

## 4. The proofs

Every theorem below holds for every value of the constants that satisfies the
named assumptions of its module; TLC evaluates those assumptions in the runs.
What the models bound (ticks per suspension, ticks before the daemon blocks) is
a constant too, so the theorems hold for every such bound.

### The scheduler: `PeriodicSchedulerProofs`

For any number of tasks, any task set that is `WellFormed`, any algorithm and
any widths of the counters:

* `TypeCorrect` (`TypeOK`), `EveryTaskInOneList` (`OneList`);
* `OnlyRedJobsBreakAlways` (`OnlyRedJobsBreak`): under BWP and RTO only a job
  that was queued red lowers the flag;
* with `UninitStartTime = {0}`: `PeriodStarts` (`CountsFromPeriodStart`),
  `ReadyJobsFit` (`NeverPastDeadline`), `VeryBadUnreachable` (`NeverVeryBad`),
  `ReportInRange` (`ReportWithinPeriods`), `MostUrgentRuns`
  (`RunsMostUrgent`), `FlagMissesNothing` (`FlagComplete`) and `JobsAddUp`
  (`EveryJobAccounted`);
* `ServiceNeverExceedsTime` (`ServiceFitsTime`), whatever `start_time` holds:
  what is reported as executed fits the ticks counted;
* with `UninitStartTime = {0}` and `MaxStartupTicks = 0`:
  `FeasibleTaskSetsNeverBreak` (`FeasibleSetsNeverBreak`) and
  `EdfMeetsAllDeadlines`: EDF meets every deadline of a task set of utilization
  at most 1.

Neither of the timing properties is inductive alone, so they are proved together
in `OnTime`. If every task counts from the start of its current period, the
elapsed time in the kill test is the time in the period (`ElapsedInPeriod`), and
with `2 * hiperperiod < TickModulus` the sum does not wrap (`ReadyDemand`). A
job that passes the kill test then has ticks left and room for them
(`SurvivorFits`), so it cannot be ready on the tick its next period starts: on
that tick the task is waiting, `wakeTasks` finds it, and it counts from the new
period. `JobOfThisPeriod` adds that before the hyperperiod the index `start_time
/ period` is one of the hyperperiod's.

The keys are computed at a release and compared ticks later. `KeysCurrent` says
that the colour in a key is still what the counter says (the counter of a task
changes only when its job leaves the list) and `DeadlinesCurrent` that the
deadline is the end of the pending job's period; with `HeadRuns` they are
`Queued`, from which `MostUrgentRuns` follows.

The flag is kept from one wrapping counter per task, the properties speak of
the whole history of jobs. `Ledger` relates them: with `met` in the counter of
a task that may miss jobs, its last `met` decided jobs have been met, and while
the flag is up any two misses are as far apart as the constraint asks.
Only with the number of decided
jobs (`Decided`), which the code never computes, can a step be followed through
completion, kill, skip and release.

`ServiceFitsTime` rests on `Serving`, that a pending job has between one tick
and its duration left: a tick then serves the task it interrupted, by at most
one tick, and a kill or a release serves nobody.

Feasibility is the optimality argument of EDF, carried out on what the code does
in its place: keys set at the releases, kills by lookahead once a tick, jobs
that may be missed skipped or queued behind. `DemandFits` is inductive: for
every tick d to come, what the processor owes by d is at most the ticks until d.
`Owed` is what a task has left of a pending job that must be met, and the jobs
of it that start and must be met by d when from now on it misses every one it
may (`Must`, counted from the jobs met so far). At a tick there are two cases
(`TickDemandFits`). If some pending job must be met by d, then the processor was
with such a job (`CurrentRed`, from `RunsMostUrgent`) and the debt shrinks with
the time; jobs that are done, skipped or started only move between the terms of
a task (`OwedStep`). If none must be, only jobs that start later count, and
`Feasible`, the demand bound for every prefix of the hyperperiod, bounds them by
the ticks left, wherever in their periods the tasks are (`LeftAfterTick`). Under
`DemandFits` no job is killed that must be met: it would owe more than the ticks
to its own deadline (`RedSurvives`). `EdfMeetsAllDeadlines` adds that
utilization at most 1 makes a set `Feasible` under EDF (`UtilizationSuffices`)
and that a job that is over and was not killed is marked in the report.

The two hypotheses are needed: a tick that interrupts the daemon serves no job,
and garbage in `start_time` lets the first jobs be killed early.

### The kernel: `PeriodicKernelProofs`

For any number of tasks, any number of ticks during start-up, any order of
ticks and daemon steps and any garbage in `start_time`:

* `ListsStayWellFormed` (`ListsWellFormed`), `WalksStayInList`
  (`WalkStaysInList`), `TicksAreReplayed` (`NoTickLost`);
* `KernelImplementsScheduler` (`ImplementsScheduler`): the kernel implements
  `PeriodicScheduler`. The theorems of `PeriodicSchedulerProofs` therefore hold
  of the kernel under the refinement mapping.

`NoTickLost` is an equation: the ticks counted and those still to be replayed
grow by one when a signal of the timer arrives, and at no other step. That no
signal arrives during the replay is in the guard of the signal (`TickSignal`),
as the critical section of `xTaskResumeAll` has it, and not a result.

`StructureInv` carries the first three. `DaemonInv` says who holds the processor
and when ticks pend; `ListsInv` that no item is in two places and the ready
list is sorted; `WalkInv` that a walk has as many items to go as lie between
`pxIndex` and the end, which is what unlinking the item at hand and linking it
behind must not change. `TypesInv` and `RunInv` give the keys that sorting
compares.

The refinement needs to know, in the middle of a handler, how far it has come:
`ProgressInv` describes each stage by the state functions of `PeriodicScheduler`
evaluated in the saved state. `KillInv` says that the tasks the walk has passed
are treated as `Killed` says and those ahead are untouched, `WakeInv` the same
of `Due`, `Skipped` and `Released`; that the tasks meet the walk in the order of
the list and not all at once is thereby shown to make no difference.
`CurrentInv` tracks the place of the interrupted task in the sorted list, on
which the choice between the head and the interrupted task depends. The
assumptions are `TasksAssumption`, that the tasks are finitely many, and
`KernelAssumption`, that `Nobody`, the walk's empty hand, is none of them.

### The exit report: `ExitReportProofs`

`MissedAreCounted` (`MissedCounted`) and `SoftBreaksAreCounted`
(`SoftBreaksCounted`) for any number of tasks, periods and constraints and any
report, under `ReportAssumption`. Each loop has an invariant on the part of the
report it has scanned (`MissedSoFar`, `BrokenSoFar`); `LastMiss` is what the
local `prevoius_solved` means in the middle of it. The sums in the line written
then count the jobs of all tasks (`PairsCounted`) and are ordered as counts of
breaks, misses and jobs should be (`SumMonotonic`).

### The generator: `TaskSetGeneratorProofs`

For any number of tasks, any ranges of periods and constraints and any
`INT_MAX`, under `GeneratorAssumption`, whose last four lines are what the
constants of `taskSetGenerator.h` and the kernel's types satisfy:

* `ReportsHaveRoom` (`ReportFits`): whatever the products wrap to, a task set
  whose hyperperiod is accepted has room in its reports;
* `GeneratedSetsAreWellFormed` (`GeneratesWellFormed`): where some common
  multiple of the periods is an int (`FitsInt`), the set is one the kernel
  modules assume, and its hyperperiod the least common multiple.

The second needs `FitsInt`: the loop only notices a negative product, and one
that wraps to a positive number is accepted. The proof is in three parts. `GCD`
recurses to smaller second arguments, so it exists and is the greatest common
divisor (`GcdExists`, `GcdGreatest`), and `LCM`, which divides first, is the
least common multiple if that is an int (`LeastMultiple`). By induction over the
loop of `calculateHiperperiod` each `temp` is the least common multiple of the
periods so far; it divides every later one, so none is negative
(`ProductIsLeastMultiple`). Last, `IInv` of the state machine says which test
the values of each stage have passed, and `RoundedValue` that rounding keeps a
duration in 1..period and within half a tick of the utilization.

### The port: `PosixThreadsProofs`

`OneProcessor` (`OneRunner`), `TickHandledOnCurrent` (`TickOnCurrent`),
`NestingKept` (`NestingIsOwn`), `NoThreadWakeUpLost` (`WakeUpComes`) and
`CancelledForGood` (`CancelledStays`), for any number of tasks and any nesting,
under `ThreadsAssumption`. The processor is a token (`Turn`): the thread of the
current task has it, or its event holds it, or exactly one other thread is about
to set that event. The token alone is not inductive, because a tick on a thread
that gave it away would make a second one: `Nesting` says that every thread on
its way into `event_wait` blocks the signal, so that ticks come only where the
current task is outside any critical section, and `Deletion` that a thread is
cancelled only where it waits for a token that never comes.

### Queues: `QueueProofs`

The storage: for every set of messages and every length, `EndsAlwaysMeet` and
`BufferIsASequence` (`ImplementsMessageQueue`). `EndsMeet` is inductive with the
type invariant; the refinement then follows from how slots shift when an end
moves (`SlotShift`), without induction over the contents.

The blocking: for any tasks, priorities, lengths, block times and uses
of the queue, any number of ticks and of calls from the interrupt,

* `BlockedTasksAreListed` (`BlockedAreListed`), `WaitsAreForTheRest`
  (`WaitsForTheRest`), `FailuresAreInTime` (`FailsOnlyInTime`);
* `WakeUpsOfReceivers` (`ReceiversWoken`), and under `SingleSenderIfReset`
  `WakeUpsAreKept` (`NoWakeUpLost`) and `HighestGoesFirst` (`HighestFirst`);
* `QueueStaysConsistent` (`QueueConsistent`), with the storage.

The first three follow from `IInv`: `ListsInv` (event lists hold nobody twice
and are in the order of priority), `TypesInv`, `HoldInv` (ticks pend, tasks are
pending and the queue is locked only while a task holds the scheduler, and a
lock counts at most one call per pended tick, which is why it cannot overflow),
`RunInv` (a task out of the ready list is in the middle of blocking or of its
yield), `ClockInv` (what is left of the block time, as
`xTaskCheckForTimeOut` will compute it) and `BlockedInv`.

`NoWakeUpLost` is not inductive: a task on its way may be of the lowest
priority, be overtaken, block again and leave the others with a message that
nobody comes for. The strengthening, `ReceiversServed` and `SendersServed`, is
that the wake-ups keep to the order of priority: for *each* blocked task, as
many tasks *of at least its priority* are on their way, or counted by the lock,
as there are messages (free slots). `HighInv` says that the task that runs is of
the highest priority among the ready ones, `PlaceInv` that a task about to join
the event list found nothing there but what the lock counts, that is what an
interrupt did since `prvLockQueue`. Together they also give `HighestFirst`.

`SingleSenderIfReset` excludes the uses in which a reset is called and more than
one task sends. It is needed: a reset frees all slots and wakes one sender
(section 5). The half about receivers does without it. `QueueAssumption` says
that tasks are finitely many, of priority above the idle task's, lengths above
0, block times no more than `portMAX_DELAY`.

### Time: `KernelTimeProofs`

`TimeOutNeverLate` (`NeverLate`) and `TimeOutEndsOnlyInTime` (`EndsOnlyInTime`)
for every width of the tick count, under `MaxGap <= TickModulus`: no two looks
are more than one turn apart. The strengthening is `PairTellsTime`, that the
count and the number of wraps determine the ticks since the capture, and
`LeftIsExact`.

`ListsSplitTime` (`TypeOK`, `SwitchedEmpty`, `NoTaskPassedBy`) and
`DelaysAreTimedWaits` (`ImplementsTimedWaits`) for any number of tasks and any
width. `SwitchedEmpty`, the assertion of `taskSWITCH_DELAYED_LISTS` that the
delayed list is empty when the count wraps, follows from `NoTaskPassedBy`. The
strengthening adds that every task in the overflow list wakes at a value below
the count now, that is after the wrap, and what the suspended scheduler's
variables have to do with each other; every operation then keeps it and is a
step, or none, of the abstract waits. Those wait for some n: that a task is not
in the delayed list past its wake time is `NoTaskPassedBy`, not the refinement.

`DelayUntilIsExact` (`DelaysToSchedule`): the wake time kept is where the tick
count was or will be at distance `ahead` (`WakeTimeIsAhead`), from which the two
comparisons decide right.

`TickCountsStayInRange` (`KernelTimeTypeOK`) puts the three together, as the run
`kernel_time` does: nothing that `tasks.c` computes leaves `TickType_t`. The
assumptions are `TickAssumption` (at least two values) and those of the three
modules.

### Induction and sums: `ArithmeticLemmas`

The provers cannot apply an induction scheme that takes a predicate, so it is
stated on sets: a set that has 0 and is closed under successor up to n has all
of 0..n (`InductionUpTo`), one that has `{}` and is closed under adding a member
has every finite set (`SubsetInduction`), each from the least counterexample
(`LeastOf`). The folds of the community modules and the recursive functions of
`TaskSetGenerator` are then shown to exist and to satisfy their equations
(`FoldExists`, `LoopExists`), and the rest follows from those: how a sum changes
with one term, compares term by term, scales, counts pairs.

### Only model-checked

* Liveness: `Exits`, `Generates`, `WaitsEnd`. The prover has no rule for weak or
  strong fairness and `ENABLED`.
* The four properties of section 5, which do not hold.

## 5. Where the code and its comments disagree

* `very_bad_branch`: `start_time` of a new TCB is indeterminate, so the branch
  of `xTaskIncrementTick` commented "TU NEBI VISE NIKAD TREBO UCI" can be
  entered in the first period. From zeroed memory it cannot (proved).
* `flag_at_exit`: `exit_function` runs before `killTasks` on the last tick, so
  a job missed in the last period does not lower the flag that is reported,
  although "if this varijable is 1 then weakly hard conditions are OK".
  `FlagComplete` states what does hold: every miss decided before.
* `flag_first_job`: `previous_deadline_met` starts at 0, so missing only the
  first job counts as a break, against "task can be skipped once in every n
  period interval". `countWeaklyHardBroken` lets it pass.
* `hard_misses`: `countWeaklyHardBroken` never counts a miss of a task with
  constraint 0, a "task that must meet al deadlines".

Seen while modelling, without a run of their own:

* The generator's loop over constraints tests `check_nessery_condition` before
  any duration is computed, so every draw passes, and
  `taskSetGenerator.c:270` draws again, untested: the task set need not satisfy
  the condition the loop asks for.
* `xQueueGenericReset` wakes one of the senders blocked on the queue it has
  emptied (`queue.c:295`); the others wait on a queue with room until somebody
  receives. The run therefore resets only the queue with a single sender;
  with two senders `SendersWoken`, a part of `NoWakeUpLost`, would not hold, and
  the theorems on senders exclude it (`SingleSenderIfReset`).
* `xTaskCatchUpTicks` adds to `xPendedTicks` outside a critical section
  (`tasks.c:3108`): a tick in between is lost. The model has the race.
* A task whose `xTaskDelayUntil` was cut short keeps a wake time ahead of the
  count, which the next call takes for a wrap: it does not delay, although
  `task.h` says a task is only not delayed "if the next expected wake time is in
  the past". `DelaysToSchedule` is about tasks that are on time or late.
* `prvTaskIsTaskSuspended` tells a task suspended by `vTaskSuspend` from one
  blocked for ever by its event item alone, so `vTaskResume` also wakes a task
  that waits for ever on a notification.

## 6. Plan

Done, in this order: `PeriodicTasks`, `PeriodicScheduler`, `KernelList`,
`PeriodicKernel` and its refinement, `ExitReport`, the timing proofs;
`TaskSetGenerator`, `PosixThreads`, the queue modules, the time modules and
the proofs about all of them. What could follow:

1. `Simulator`: the generator's result, `PeriodicScheduler` and `ExitReport`
   composed, so that the written line is related to what happened: the flag
   against the count of breaks.
2. `LinkedList`: `list.c` at the level of `pxNext`, `pxPrevious` and `pxIndex`,
   with `KernelList` as its abstraction.
3. Mutexes: priority inheritance in `queue.c` and `tasks.c`; event groups and
   stream buffers over `DelayedTasks`; software timers over `QueueBlocking`.
4. Theorems: under RTO and BWP, a bound on the utilization of the jobs left
   that implies `Feasible`, as `UtilizationSuffices` does for EDF.

### Not modelled

Mutexes and priority inheritance, queue sets, event groups, stream buffers,
co-routines, notifications, priority changes and statistics are unmodified
FreeRTOS code that nothing here calls; they could be modelled and are not yet.
Software timers: the simulator creates none, so the daemon only blocks.
`heap_3.c` wraps `malloc`; what it leaves in a TCB is `UninitStartTime`.
`vPortEndScheduler` and `event_wait_timed` are never reached. The console, the
trace recorder and the experiment scripts only format output or rewrite files.
Nearly all the lines of the tree are vendored demos, third-party libraries
(TLS, TCP/IP, trace) and ports for other processors, which are neither this
program's nor built into it.
