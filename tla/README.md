# A verification project for Omnidroid

Omnidroid runs Android apps as desktop processes. `omnidroid aosp` boots an
Android *device* (a host process with an emulated kernel, a translated CPU and
the framework on top); the *app* keeps a pool of devices, places launches on
them and gives each instance of an app a user and a window of its own. This
directory holds TLA+ models of the parts whose correctness is about order and
ownership, the TLC runs that check them, and proofs of what holds for every size.

Five systems are modelled: the **device pool** of the app, the **app host** that
keeps one pool for every window, the **pthread objects** the host gives guest
threads, the **kernel objects** of guest processes (record locks, pipes, futexes,
their processes' ends), and the **binder driver**.

## The system

| part | state it keeps | operations | what makes it correct |
|---|---|---|---|
| **device pool** `omni-pool/src/pool.rs` | devices, instances, ids, cold flag (one mutex); a turn per device; a `pool.cold` file | launch, warm, restart, close, clear, kill, quit; the ticker (boots and deaths, windows, logs, idle, warm, spare users); threads of launches, ends, stops, countdowns, questions | one owner of every user and display; a turn given back on every path; nobody stranded; a close stays a close |
| **plan** `omni-pool/src/plan.rs` | none | `place`, `to_close`, `to_warm` | a running build is never replaced; limits |
| **device commands** `omni-pool/src/device.rs` | the device's | boot, install, users, displays, start, stop, cards | what a failed one leaves behind |
| **composer displays** `omni-linux/src/hal/composer.rs` | displays by id | add, remove, show | an id is the highest plus one, so a removed one is soon another's |
| **bionic objects** `omni-bionic` | guest words of mutexes, rwlocks, semaphores, onces; host tables of owners, recursion and waiting writers; waiters of conditions | the pthread and `sem_` calls | exclusion; no wake or signal lost; once is once; a stop reaches every call |
| **host futex** `omni-android/src/bionic/runtime.rs` | parking lots by address, the stop flag | wait, wake, stop, join | compare and sleep are one; a stop wakes all and refuses the rest |
| **record locks** `omni-linux/src/locks.rs` | one table of ranges for all processes | `fcntl`, `flock`, release by close, last close and end | no byte held against another; split exactly |
| **pipes** `omni-linux/src/pipe.rs` | bytes, ends open | read, write, drop | end of file is true; a killed end is told |
| **guest futexes** `omni-linux/src/futex.rs` | queues per process and address, marks of the woken | wait, wake, requeue, priority-inheritance lock | a counted wake is answered; a queue holds who waits |
| **processes** `omni-linux/src/process.rs`, `sys.rs`, `fd.rs` | tasks, pending signals, descriptors, children | exit, exit_group, kill, wait4, signals | an ending process ends, and its parent is told |
| **binder** `omni-linux/src/binder.rs` | one broker: nodes, handles, queues per process and thread, buffers; receive areas | the commands and the read of an ioctl, release, thread exit | each call has one answer; one oneway of a node at a time; objects in use are held; a looper is told of work |
| **app host** `omnidroid/src/app/host.rs` | the file `pool.host`; leases of windows, whether one ever came, its MCP server | claim, listen, attach, state, detach, reap, done, shutdown; a window's search for a host | two hosts come to one; it stays while a window is heard or an agent uses it, and then ends |
| warm control channel `omni-warm` | request and answer files, markers | find, ask, install, stop | an answer is its request's |
| guest memory `omni-mem` | address spaces, pager, budget, page cache | map, fault, evict | a page is in one place; the budget holds |
| APKs and their cache `omni-apk` | a directory shared by processes | read, extract, reuse | a half-written entry is never used |
| crash diagnosis, extras, settings; app screens, MCP, launcher, plugins | views, text | requests to the pool | the pool's |
| CPU, graphics, ELF, framework emulation, debugging tools | large | translation and emulation | not a protocol; out of reach |

They meet like this. A person, the MCP server or a plugin asks the pool; the
pool's threads send commands down a device's control channel into its guest;
windows and devices answer by marker files and log lines which the pool's ticker
reads once a second. Inside a device, guest processes are threads of the host:
each task runs translated code and calls the kernel objects, and processes call
each other through binder. In the other way of running an app, without a device,
its native code calls bionic's functions on the host.

Hard in all of them: state read under a lock and used after it, a thread that
ends what another started meanwhile, a wake that meets a deadline or an end, ids
given again, a process that dies between two steps of somebody else's.
`PROJECT.json` lists these at their lines, with the properties that cover them.

## Modules

| module | what it is |
|---|---|
| `Plan` | the pure decisions of `plan.rs`, over sets of views |
| `Pool` | the pool and the guests it drives, a step at a time |
| `Tenancy` | what the pool promises the apps it runs: an abstract specification |
| `PoolProperties`, `MCPool` | its properties, refinement and fairness; instances for TLC |
| `AddressFutex` | the host futex of the bionic objects, and the stop of an instance |
| `BionicMutex`, `BionicCond`, `BionicRwLock`, `BionicSem`, `BionicOnce` | one object each, on `AddressFutex` |
| `Bionic` | guest threads with programs over all of them |
| `BionicProperties`, `MCBionic` | properties; instances |
| `KernelTasks` | tasks, their calls, descriptors and signals |
| `KernelLocks` | record locks and `flock`; its table as a mode per byte |
| `ByteLocks` | what is promised of record locks: an abstract specification |
| `KernelPipe`, `KernelFutex` | pipes; futexes with requeue and priority inheritance |
| `Kernel` | processes over the three: programs, signals, kills, ends, `wait4` |
| `KernelProperties`, `MCKernel` | properties and refinement; instances |
| `Broker` | what binder's driver keeps under its one lock, as operators on a record |
| `BinderDriver` | the driver's system calls, a critical section at a time |
| `Binder` | processes that make those calls the way `libbinder` does |
| `BinderProperties`, `MCBinder` | properties; instances |
| `Host` | hosts and windows: the file, the loop, the leases |
| `HostProperties`, `MCHost` | properties; instances |
| `PoolProofs`, `PoolThreadProofs` | the pool's types; its turns, countdowns, questions and users made ahead, proved |
| `HostProofs` | a window that is heard keeps its host, proved |
| `BionicProofs` | who holds a mutex or a lock; that sleepers are woken, routines run once and no signal is lost, proved |
| `KernelProofs` | locks and what they implement; waits and wakes of futexes; the end of a pipe, proved |
| `FoldProofs` | what a fold over a sequence keeps, for any operation |
| `BrokerProofs` | the binder invariant, and what each operator of `Broker` keeps of it, proved |
| `BinderProofs` | each step of driver and guest; loopers asked for, and a node's oneway calls, proved |

Everywhere the grain is the code's: an action is a section under a lock, an
atomic access of shared memory, or a command to a device, so whatever can come
between two of these in the code can come between two actions.

### How `Pool` corresponds to the code

* `dev`, `inst`, `next`, `cold` are `State`; `stopping` the atomic flag;
  `coldFile` the file. A device that is gone keeps the state `"gone"` (the code
  drops its record; every look at it is guarded by `There`). An instance
  forgotten keeps only the build its id had.
* `job` is the threads: a program counter, the instance and what the thread
  took with it out of the lock. `busy` is the one lock held across steps, the
  device's turn. Where a turn is taken for one command only (`cleanup`, `halt`,
  a spare user's making), that is one action which waits for it. A countdown's
  id is the thread that follows it.
* `phase`, `bytes`, `made`, `app`, `shown`, `card`, `mark` are the guest: what
  the commands do to a device. `hurt` is history: instances another one's thread
  stopped or closed.
* `left` bounds the environment: how many crashes, deaths, failed commands,
  closes, restarts ... a run has. A run names the budgets it allows.

Device commands fail because the device is gone or for a reason of their own
(`"fail"`), and then may have done part of their work: an install may leave the
package out or in, a user may have been made, a display added, an app started.

Left out, and why: time (a delay is over, a limit passed or an app missed twice
whenever the step that asks finds it so: more behaviours than the code has); a
launch of several at once (several launches in a row, but for sharing one
warm-up); links and their turns (`follow_link`); grants, details, the text of
cards, cookie and link extras (what fails in them is a step); users and builds a
found device may have (it starts empty); a failing stop or display removal on a
device that is up, which the code only logs. `remove_cards` is a thread per
display, not one for all. The two sections that end a spare user's making, and
the marking of idle devices after a step, are one with the step before them.

### How `Host` corresponds

* A process of `Windows` is a window (`at`, `link`) and the host it may start
  (`pc`, `tries`); one of `Servers` is `omnidroid serve`. `file` is `pool.host`:
  who made it, and whether its port is written. A host that writes its port into
  a file somebody removed writes into nothing, as an unlinked file does.
* `claim` is four steps (make, look, look again, remove): a file that is young is
  looked at twice, and which files are young is left open, as time is. `running`
  (read the file, ask `hello`) is one step.
* `done` is a step for each thing it looks at; `reap` comes before it in some
  rounds of the loop. `clients` is the map of leases, `lapsed` the windows
  silent for longer than `LEASE`; `claimed` also holds a host older than
  `UNCLAIMED`. `attach` is two steps, as its handler is.
* The control server answers in `Loop` and `Ending`: from before the port is
  written until `control.stop`.
* An instance is `none`, `alive` or a card shown; one stands for all.

Left out: the commands of a line (they are the pool's), one-shot commands, the
log, an MCP server that cannot start, the rules of Windows for files open
elsewhere, a process whose id or port is another's later.

### How the bionic modules correspond

* `word` is each object's guest word, `queue` the parking lot of its address,
  oldest first; `owners` and `depth` the host table of a mutex that checks;
  `writers` a lock's count of waiting writers; `waiting` and `marked` a
  condition's registry. `th[t].at` is the place in a call; loads,
  compare-and-swaps, stores and table accesses are actions of their own.
* The futex compares the word and queues the thread in one section, as the
  parking lot's callback does. A deadline may pass at any time after the sleep
  began; the self-healing slices of the loops are such deadlines, and liveness may
  use them as the code does. `NoLostWake` is what holds without their help.
* The stop of an instance (`stage`, `sweep`) sets its flag, then the futex's,
  then wakes every address shard by shard, then the conditions.
* Guest programs are lists of calls; `await` and `set` are the loop around a
  condition wait and the section that makes its predicate true. An object is of
  one kind (`KindsAssumption`), the calls fit the kind (`Call`,
  `ScenariosAssumption`), a condition is used under one mutex (`CondsAssumption`,
  POSIX's rule), and what is not held is not released, nor a read-write
  lock locked twice by one thread (`Held`): what POSIX leaves undefined is not
  modelled.
* A once-routine may fail in any call of it (`RoutineFails`). The word is DONE
  after it and the losers are woken, as the handler does (`handlers.rs` 1536); the
  thread that failed ends. The comment there says no guest code observes that
  DONE; the losers on other threads do, so `OnceOrdered` excuses them.

* `SignalKept` counts: an item put under the mutex and signalled has a thread that
  will look for it, or nobody waits unmarked. It is claimed while the instance is
  up: a stop may halt a marked waiter before its look, and TLC finds that.

Left out: object creation and destruction, attributes, timed waits on
semaphores and read-write locks, weak memory (the accesses are `SeqCst` or
acquire and release pairs on one word).

### How the kernel modules correspond

* `locks` is the table, a set of ranges: `Given` is the splitting loop of
  `fcntl`. `Closed`, `Reaped` and `Drop` are `closed`, `released` and
  `process_ended`. An open file lives as long as a descriptor or a call has it.
* `bytes` of a pipe keeps how many bytes and by whom; what matters is that there
  are some and whether a writer is left.
* `queue[p][o]` is a futex's queue in a process, `woken` the mark a wake sets
  under the queue's lock, `parked` and `token` the host's park and unpark, which
  come after it (`unpark` of the record). A deadline, a 50 ms slice and a signal
  end a wait alike (`FutexLate`), each by removing the waiter first.
* `group_exit`, `interrupted`, `listed`, `children`, `dropped` are the fields of
  `Process` that its end goes through, in the order of `end_group`, `run` and
  `ended`: `EndGroup` notes the end, `HaltAll` asks the tasks to stop,
  `InterruptAll` wakes their waits. The five seconds after which an ending process
  gives its tasks up may pass at any time.
* `halt` holds the tasks with a halt request outstanding (`HaltHandle`): those
  sent a signal (`Posted`), those of an ending process (`HaltAll`, and again by its
  main task, `HaltAgain`). A task in guest code sees the request at any later step
  there, one in a call after it. `run_task` then reads `group_exit` (`Halted`), and
  if the process is not ending clears the request (`Cleared`) and delivers: three
  steps, so that a request made between the first two is erased, as in the code.
* A guest's word is one thing (`Fits`): a priority-inheritance lock of one
  process's tasks (`PiWords`, `home`), or a word tasks wait on; a program that used
  one as the other would break itself. `Refused` is the answer of a read or a write
  whose descriptor is no such end of a pipe; files of other kinds are left out.

Left out: `clone`, `fork`, `exec` (the tasks and what a fork shared are there
from the start), signal handlers' frames, process groups, `O_NONBLOCK`, splice,
FIFOs by name, `wake_op`, robust lists, `poll` on these objects.

### How the binder modules correspond

* `st` is the broker's state under its lock: nodes with their held, acquiring
  and deferred marks, `async_todo` and watchers; handles of each process; the
  queues `todo` and `own`; `serving` and `awaiting` of each thread; buffers'
  records. `waiting`, `watching` and `woken` are the part of `poll.rs` a looper
  depends on: which of those that wait for a process's work one queueing wakes.
* `area` is the receive areas, under a lock of their own: a delivery takes work
  under the first, places it under the second and records it under the first
  again, and `BC_FREE_BUFFER` goes the other way; both orders are modelled.
* A read may fail to reach its caller's memory (of a process of another host
  process that ended: `remote`), a transaction may find no room, a wait may be
  interrupted by a signal.
* `Binder` is external: the commands `libbinder` writes and how it understands
  what it reads, which the driver's code and its comments rely on. A thread that
  waits serves the calls it is given meanwhile, one inside another. What a scenario
  may be is `ScenarioAssumption`: programs of the operations in `Ops`; and a thread
  of the pool that is started when a looper is asked for registers first, and no
  other thread registers (`Spare`).
* `CanCarry` is `translate_ref` without its errors: a thread carries a handle it has,
  and there is room in `MaxNode` and `MaxHandle` for what the translation makes.

Left out: the translation of payloads with its errors (`EINVAL` of a handle that is
none), descriptors and
scatter-gather objects, weak counts, the context manager, services of the host,
taps, relayouts of flushed windows, processes that poll the driver.

## Runs

All runs set `CHECK_DEADLOCK FALSE`: a run stops when its programs have ended or
its budget is spent, and a thread that should not be left waiting is what
`CallsReturn`, `NobodyStranded` and the like are about.

| run | instance | what it asks | states |
|---|---|---|---|
| `crashes` | 2 instances; a crash and one of: restart, clear, failure | ownership, turns, builds, nobody stranded, the refinement of `Tenancy` | 127 k |
| `closes` | 2 instances; a device's death, or a crash and one of: close, window closed, restart, clear, kill, spare user, idle device | displays have one owner, none left behind; a spare user is nobody's early | 567 k |
| `live` | 1 instance; death, kill+restart, window+show, crash+quit, two crashes+warm, two crashes+restart+failure; questions asked; fair | types, countdowns followed, answers noted; launches settle, countdowns and closings come to their end | 138 k |
| `bionic` | 3 threads, 14 scenarios: mutexes of each kind, conditions, rwlock, semaphore, once with a routine that may fail, a raw futex, and a stop at any step | exclusion, owners, wakes, signals, once; calls return, a stop ends all | 114 k |
| `kernel` | 2 processes, 4 tasks, 21 scenarios over record locks, a pipe of two bytes, two futex words, signals and ends | no conflict, the refinement of `ByteLocks`, end of file, queues, wakes; calls return, ends are told | 35 k |
| `binder` | 3 processes, 6 threads, 3 objects, 10 scenarios | answers, oneways, references, loopers; calls return | 96 k |
| `host` | 2 windows and a server; a crash, a failed start, a window suspended or dead, a launch, `mcp off` | of two hosts one ends; a host nobody needs ends; a window that is heard keeps its host | 136 k |
| `close_undone` | 1 instance, a close | `set_state(Installing)` undoes a close | violated |
| `rw_spin` | a reader, a writer, a stop | the rwlock's loops do not ask for the stop | violated |
| `killed_waits` | a child killed while it waits for a lock | its end waits for a wait that looks at signals alone | violated |
| `lost_halt` | a child sent a signal and then killed | its main task, halted for the signal, erases the kill's halt request and runs on | violated |
| `late_window` | 1 window | a window attaches after `done` looked for windows | violated |

The five violated ones are disagreements between the code and its own comments,
quoted under `findings`. The passing runs leave their situation out by their
scenarios (no stop with a read-write lock, no kill of a lock's waiter, no end of a
process whose main task may be halted for a signal, no death inside a call back), by
the property's form (`Answerable` bounds answers from above only while no remote
process is ending; `HeardKeeps` is about a window that attached before the look;
`LaunchSettles` and `RestartGoes` are about pools that nobody quits, the first also
about devices that neither die nor are killed under a launch), or, the pool's, by
their budgets: each run's events are those its properties hold with, and what the
code does with others is told under "Known behaviours".

**Bounds.** *Pool:* one package with two builds reaches each of `place`'s four
answers; two devices, users and displays each, and five threads. Two instances
are what a conflict takes; a third meets the same records. *Bionic:* three
threads give a holder, a sleeper and one that comes between; each scenario is a
question about one object, since objects share nothing but the parking shards
(two, so that the sweep of a stop has a between). *Kernel:* three ranges of a
three-byte file are the ways one range meets another; three open files are a
process's own, another's and one shared by a fork; a pipe of two bytes is full,
half full and empty; two words are the source and target of a requeue, and a
third is the one priority-inheritance lock.
*Binder:* `MaxNode` and `MaxHandle` guard what is carried (`CanCarry`) and are never
reached where a scenario could go on (each makes at most three); two buffers are
one in use and one to be placed.
*Host:* two processes are what a race for the file takes, one that removes and
one that is removed; a server beside a window is the host that no window ends.

### Fairness

* *Pool:* weak fairness of each thread (`Thread(j)`, but not of steps that spend
  a budget: nothing must fail), of the ticker's boots, deaths, windows and ends.
  Threads are scheduled by the host, a `parking_lot` mutex is fair in the long
  run, every wait on a device has a limit, and the ticker goes on each second
  until the app quits. The person, the environment and launches are not fair.
* *Bionic:* weak fairness of each thread and of the stop once begun; strong
  fairness of `GuestHalt`, since guest code that calls again and again comes to
  the end of a run window between two calls, where the switch is read.
* *Kernel:* weak fairness of each task and of `Drop`, and strong fairness of `Halted`:
  a request stays set until it is cleared (`HaltHandle`), and guest code that makes
  calls again and again is back at a look between two of them, where a request
  outstanding is seen. Nothing is assumed of a request that was erased: a task with
  none outstanding is never owed a look at `group_exit`, which is what
  `lost_halt` shows.
* *Host:* weak fairness of a host's steps and of time (`Age`, `Lapse`), strong
  fairness of a round of the loop that reaps: each fourth one does. Windows,
  agents and faults are not fair; a claim and a loop never wait for another.
* *Binder:* weak fairness of each thread's steps and of a released process, but
  not of a wait's slice: what is queued must be told (`FairSpec`). `binder` runs
  under `CanSpec`, the same formula with its `ENABLED` written out
  (`[]<>~CanStep(t) \/ []<><<Step(t)>>_vars`), because TLC takes very long to find
  whether these deeply nested operators are enabled; that `CanStep(t)` is
  `ENABLED Step(t)` was checked as an invariant, one scenario at a time.

### Refinements

`Tenancy` knows neither threads nor turns nor records: users of devices with one
tenant each, an instance brought up only when its last app is out, an app put
out only by the decision to bring it down, its device's end, or its own crash.
`KeepsTenancy` maps the guest's `app` to the tenants and to `up` the instances
whose record says starting or running, or whose launch, called off, has yet to
undo what it started.

`ByteLocks` knows no ranges: a mode per file, holder and byte, a lock taken over
a range when it is compatible with the others' modes, holders losing all they
have of a file. `LocksByBytes` maps each byte to the strongest lock of the table
over it. Both hold of every step of their runs, and the second is proved.

## Proofs

Assumptions are the named `ASSUME`s of the constants (`ConstantsOK` in `Pool`;
`TasksAssumption`, `LocksAssumption` and the like in the kernel modules; of binder
`BrokerAssumption`, with finitely many processes and threads, `BuffersAssumption` and
`ScenarioAssumption`), which TLC evaluates in every run.

* `TypeCorrect`: `Spec => []TypeOK` of `Pool`. `TypeOK` is inductive as it stands
  once `JobRec` says that a thread past its start has an instance and that an
  offer has a user, which the indexing of the other steps needs. One lemma per
  action; the helpers (`Released`, `IdleMarked`, `EndCounted`, ...) once.
* `TurnsKept`: `Spec => []TurnKept` of `Pool`. The invariant is
  `TypeOK /\ MadeBefore /\ TurnThere /\ TurnKept`: a device booked anew gets a
  fresh record whose turn is free, so no thread may hold the turn of an id not
  yet given. A step takes a turn that is free, gives back its own, or touches
  none: a lemma for each kind, and one per action.
* `CountdownsFollowed` and `QuestionsAnswered`: `Spec => []RestartFollowed` and
  `[]AskingAnswered` of `Pool`. `WatchInv` says where the thread is that somebody
  waits for: an instance counting down has its countdown's thread in the count, or
  at the relaunch with no stop of its user under way (a stop is counted only where
  a new countdown begins or the instance ends, so it cannot begin in between); one
  being asked about has a thread at its question. `RecordsGo` is all that a step may make
  of the records for that to stay so, `WatchersStay` that it leaves those threads
  alone: most steps write neither, threads begin in free slots, and the few that
  begin countdowns begin the thread with it, for each instance of a device that
  died a slot of its own. Only the watchers' own steps are then looked at.
* `SparesKept`: `Spec /\ []OneLaunch => []SpareUntouched` of `Pool`. A launch
  chooses its user in one section and records it in another (`Pick`, `Record`), and
  a user made ahead is offered long after it was made. `SpareInv` says of every user
  that a device offers, a record names or a launch has chosen that it was made and is
  none being made ahead (`UsersKept`), that those are one thread's each (`SparesOK`),
  and that a launch is at the device its instance's record names (`OnDevice`). The
  last needs the hypothesis: a second launch of the instance may place it on another
  device while the first goes on with the one it read, and records that one's user.
  `SparesFramed` says what a step may do; most do less (`SparesStay`), and a choice,
  a record, a placement, a spare and its offer have a lemma each. `OneLaunch` is
  what the run `crashes` checks, for its budgets.
* `LocksExclusive`: `Spec => []NoConflict` of `Kernel`. The lock a call asks for
  is read from the call's record at every look at the table, so `LockInv` adds
  `TasksOK` (a task at a lock's step made a lock's call, on a file that is open)
  and that the table's locks are ranges of numbers whose holder fits the file.
  The heart is `GivenOK`: what the split leaves of a holder's locks are parts of
  them (`GivenSmaller`), and the new one conflicts with none, because the look
  that found no conflict is the same section.
* `LocksKeepPromise`: `Spec => LocksByBytes`, on the same invariant. `GivenCovers`
  says what the split table says of each byte; `WholeLeft` that forgetting all
  of a holder's locks on a file is a release; `RangeFree` that no conflict of
  ranges means compatible modes of bytes. Every action is then one of the
  promise's, or a stutter.
* `WokenAnswer`: `Spec => WokenAnswers`, an action property: only a waiter takes
  its own mark back, and only where it answers.
* `QueuesHold`: `Spec => []QueuesTrue`, in `WaitInv`. A waiter is looked for where
  its call is, so every task at a step of a call made one that fits its words
  (`CallsOK`, which needs `WordsAssumption`: each scenario's programs do). A waiter
  is in one queue of its process alone (`RowOK`), or a wait that is over would leave
  another behind; a lock's waiters have every bit and are of its own process, or an
  unlock would leave some with the lock free (`WaitOK`); and a mark is of somebody
  asleep, or one who comes to sleep would be woken already (`QueuesOK`). What
  `Without`, `Woken` and a requeue's cut and join do to a queue is said once for
  sequences (`Cut`, `Behind`, `RowWithout`, `RowMoved`).
* `EndOfFile`: `Spec => []EofTrue`, in `EofInv`. An open file that nothing holds is
  never held again: what a step puts in a descriptor or a call was in one before it
  (`FilesFrom`, `FewerLive`), so a pipe's writers are only ever fewer; and bytes
  come of a write alone, whose own call holds a write end (`CallsOK`).
* `WindowsKeepHosts`: `Spec => HeardKeeps` of `Host`, an action property. The
  invariant (`HostInvariant`) adds to the types that a window with a host has one
  that answers or is gone for good (`LinksOK`), that a heard window's lease is
  held and has not lapsed (`LeasesOK`: what `reap` takes is only the silent's),
  and that a window that has not looked has started no host (`StartsOK`).

* `HoldersAlone` and `HoldersKnown`: `Spec => []Exclusive` and `[]OwnersTrue` of
  `Bionic`. Neither is inductive: who holds a mutex is the guest's account, and the
  code knows only a word. `IInv` ties them together: one thread at most has the
  word of a mutex (`HasWord`: it holds it, or has won the word and not entered
  itself, or has left and not set it free); the word is then not free, it counts the
  depth of a recursive mutex, and the table names the holder from the entry to the
  clear (`HolderOK`); a step of a condition wait's loop is the holder's. The word of
  a read-write lock is `WRITER`, or counts the readers (`RwInv`, by cardinality).
  `QueueInv`: a queue holds exactly the threads asleep at its address, each once, so
  a wake moves only sleepers; `StepOK` gives each step the kind of its object. A
  lemma says what a step may do to threads that are not its own (`Moved`: nothing,
  or wake them), and each object's steps are proved against the others once.
* `SleepersRescued`: `Spec => []NoLostWake`, in `WInv`. Three facts carry it: only
  the unlock's publish sets a word free, and that thread is at its wake next
  (`FreedBy`); a queue grows only by a thread that compared the word in the same
  section and found it held (`QueueGrows`, `SleepsHeld`); and a rescuer that acts
  wakes another, takes the word, or was not needed. A thread whose deadline ended
  its sleep is no rescuer, so no timer is relied on.
* `RoutineFirst`: `Spec => []OnceOrdered`. `OInv` adds to `IInv` that a routine in
  progress has one runner at most, whose completion is the only one, that a word
  which is `DONE` has a completion or a failed run behind it (`OnceInv`), and that a
  call of `once` is in its steps or back after `DONE` (`Called`).
* `SignalsKept`: `Spec => []SignalKept`, in `CInv`, which adds to `IInv`, while the
  instance is up, that a registered thread is registered once, is in its wait and
  not marked (`Registry`); that a caller's place, mutex and condition are its
  program's (`PlaceOK`, `InCall`); and that who goes to wait found nothing
  (`EmptyAtWait`: it holds the mutex, and by `CondsAssumption` whoever puts holds
  the same one). `Counted` is the account: unless nobody waits unmarked or a
  broadcast is to come, the items are no more than the threads that will look and
  those about to signal. A wait registers with no item there, a take ends one look
  and one item, a put adds an item and a signal, and a signal turns an unmarked
  waiter into one that will look; a deadline's leaving adds a look. Steps of the
  other objects leave a condition's callers where they are (`Goes`, `Follows`).

* `SpawnsCounted` and `OneWaysOut`: `Spec => []SpawnCounted` and `[]OneWayOut` of
  `Binder`, from one inductive invariant (`Inv` of `BrokerProofs`), which TLC found
  true of every state of the run `binder` before it was proved. `SpawnsOK` says where
  a thread can owe a looper (a read that asked and has not come back, or the guest
  told to start one) and that a thread registers once. `AreasOK` and `RecordsOK`
  follow the places of a receive area: each in use is once in one thread's hands
  (read into, served, or to be freed) or nobody's, and has one record at most; without
  it a buffer freed twice would let out a second oneway of its node. `Good` is the
  broker's record with the threads' hands: its types, and of each node of a process that
  is not dead, `has_async` exactly if one of its oneways is in the process's queue, in a
  thread's hands on the way to a buffer, or in a buffer's record, never two of them
  (`OneOut`). A free and a failed delivery are sections that are done with one
  and take the next: between the two the node is `DueNext`. `Steady` is what most operators do
  with the record: anything but to a node's oneways, the counts and the records of
  buffers; a release is steady for all processes but its own.
* `FoldRuns`, `FoldKeeps` of `FoldProofs`: a fold over a sequence goes through it in
  order, one step from the base at each element; and what each step keeps the fold
  keeps. `FoldLeft` is a function defined by itself on sets of indices (`FoldOf` is
  its definition written out). That there is such a function, and the two facts, are
  proved once, by the least index at which they could fail (`WFMin`), for an
  operation and a predicate that are constants of the module; each loop of the
  driver that goes through a list in one section (`Unpinned`, `WorkDropped`,
  `Released` and the rest) is an instance of it.

What TLC alone shows: every other invariant, the refinement of `Tenancy`, and
liveness (out of the prover's reach, with `ENABLED`). The pool's `OneLaunch`,
`NobodyStranded`, `NobodyHurt`, `DisplaysOwned` and `DisplaysKept`, and its
refinement `KeepsTenancy`, are not true of every budget (next section), so no
theorem can state them for all; nor is `SpareUntouched` without its hypothesis.
Binder's
`Answerable` and `ObjectsHeld` stay with TLC too: they are not true of every scenario
(a thread that exits after an answer meant for another wait, an `acquire` lost with
a read that fails), so they need hypotheses on the guest that are yet to be found.
Induction over data is not a rule the prover can use; `FoldProofs` is its one use
here, in the form above. No module has a recursive operator.

## Known behaviours no run shows

Met while modelling, each by the code's text alone or by a run too long to keep:

* a card may reach another launch's display (`pool.rs` 1542, 1814, 1945: sent off
  the lock), `pool.cold` may be written after a later launch removed it (2022),
  a display whose enabling fails is left (`device.rs` 153), a device may boot
  past `max_devices` when the ticker warms from old views (2232);
* a launch looks at its instance only between polls (`pool.rs` 1108-1117), and
  then sets the state whatever it became (1120). An instance closed and restarted
  within one look of its launch's boot is worked on by two launches (a close and a
  restart break `OneLaunch`); one closed in the gap is set installing after it
  ended, and when its start then fails, an end that finds it closed leaves it so
  (a close and a failure break `NobodyStranded`). TLC found both with
  such budgets, so the two invariants hold as far as the runs' budgets go, which
  give no close together with a restart or a failure. The same launch, gone on after
  a close and a restart, breaks `DisplaysOwned` with a crash, a failure or the
  device's death, and `DisplaysKept` with a clear or that death. A kill and a
  restart break `DisplaysOwned` alone: the first launch records the display it made on
  the killed device when the second has placed the instance anew. The display whose
  enabling fails breaks `DisplaysKept` by itself;
* with two instances a close alone is enough to put two builds on one device: an
  instance closed between its launch's look and `set_state` ends, another build is
  placed over its own, and the launch goes on installing (`OneBuild` in `NobodyHurt`,
  and `KeepsTenancy`, which a close with a restart or with a failure breaks too). A
  launch whose device is stopped or dies between its choice of a user and its record,
  while the instance is restarted and set installing on another device by a second
  launch, records the first device's user there (`SpareUntouched`, with a kill or a
  death, a restart and a spare). TLC found each with such budgets, which the runs
  leave out;
* `writers_pending` of an rwlock counts a writer until it has taken the lock, so
  readers are held back a moment longer than the doc at `rwlock.rs` 11 says; an
  rwlock's word that returns to an old value between a look and a sleep is left
  to the slice (253-265), as a semaphore's cleared flag is (`sem.rs` 189);
* binder: after a process of another host process ended, `undeliver` answers the
  caller of a call under way although `release` did (`binder.rs` 2255-2260); a
  process that dies inside a call back into its caller has the outer call's
  failure read as the inner reply's end, and the outer wait hears nothing more
  (1355-1363). Both were shown by runs no longer kept;
* a task asked to freeze for a fork (`freeze_others`, `process.rs` 1218) is asked by the same
  flag, so the end of its process may be lost there too, as `lost_halt` shows of a
  signal; another task than the main one is asked again (1143-1146);
* the host: a `claim` that finds a file stale, or looked at a young one too
  early, removes whatever file is there by then, so two hosts may run for a moment
  (`host.rs` 10-11 says one; `HostsSettle` says they come to one); a control server
  that cannot start removes the file whosever it is (786), and the third removal of
  a claim leaves no file at all (711-735); `done` looks at the cards before the
  instances, so an app that ends between leaves its card unseen (247-251);
* a once-routine that fails leaves its word DONE, and a loser on another thread
  then returns 0 though the routine never ended (`handlers.rs` 1536-1546, whose
  comment says nobody sees it; `Failed` in `BionicProperties`);
* a pipe write interrupted half way answers `EINTR`, and its retry repeats bytes
  (`pipe.rs` 132-154); two threads that `flock` through one open file leave two
  locks in the table (`locks.rs` 221-251); nobody is told `EDEADLK`;
* binder's `CLEAR_DEATH_NOTIFICATION_DONE` may come before a death queued earlier
  (`binder.rs` 1594-1617); a late reply of a host service makes the state of a
  dead thread anew (1798-1804).

## Not modelled

Text, formats and framing (crash diagnosis, settings, extras, MCP, ELF, APK),
translation and graphics (no protocol), the framework's emulation (breadth
without shared state of its own), and what each section above lists as left out.
The warm control channel, the memory budget with its pager and the
APK cache have protocols worth modelling and are next.

## Plan

1. *Done*: `Plan`, `Pool`, `Tenancy`; the bionic objects; the kernel objects and
   their processes; binder; the app host; eighteen theorems.
2. Links and their turns in `Pool`.
3. Proofs: the pool's other invariants, under a hypothesis on the budget where TLC
   finds one that is enough; binder's `Answerable` and `ObjectsHeld`, under one on guests.
4. `Warm`: the control channel's requests and answers; `omni-mem`'s budget and
   pager; the APK cache.
5. Binder's translation errors and the polled driver.
