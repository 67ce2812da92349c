# POSIXThreadLabs in TLA+

The repository is a set of exercises in POSIX threads: some two dozen small C and
C++ programs ("labs"), each a program of its own, with a shared URL parser and two
shared queues. It has no documentation and no tests. What the programs are for is
said by their names, their messages and their code, and that is what the
properties here are taken from. This directory holds TLA+ models of the programs in
which something can go wrong that a test would hardly reach, the TLC
configurations that check them, and TLAPS proofs of what matters most.

Contents: [Inventory](#inventory) · [Modules](#modules) · [Runs](#runs) ·
[Bounds](#bounds) · [Fairness](#fairness) · [Proofs](#proofs) ·
[Disagreements found](#disagreements-found) ·
[Not modelled](#what-is-not-modelled-and-why) · [Plan](#plan)

## Inventory

For each component: its state, its operations, how it interacts, what is hard
about it, and what makes it correct.

**lab23: message queue with three semaphores** (`myMsgQueue.cpp`, `main.cpp`).
A doubly linked list, two counting semaphores (`first_sem`: free places,
`last_sem`: messages), a third used as a lock, and a flag `destroying`.
Operations `put`, `get`, `drop`; producer and consumer threads loop over put and
get until they return 0, main sleeps, calls `drop` and joins everybody. Hard:
`destroying` is written without the lock; `drop` posts each semaphore once and
every thread it wakes must wake the next; the permits and the list are two records
of the same thing; a get goes on with its node after it has given up the lock; a
failing `malloc` calls `drop` with the lock held. Correct when: the queue is a
bounded FIFO channel; get never finds the list empty; nothing is touched or freed
after it is freed, and nothing leaks; after `drop` everybody is joined.

**lab24: the same queue with a mutex and a condition variable.** The flag, a
`count`, the list; one condition variable for both directions. Hard: `if` where a
`while` is needed around `pthread_cond_wait`; the broadcast of `drop` is made
without the mutex; one signal per message may wake a thread of the wrong kind. Two
of these do go wrong (see below); the models say what remains true.

**lab9: dining philosophers.** A mutex per fork, a mutex around the counter of
dishes, a counting semaphore that seats one philosopher fewer than there are
forks. Hard: the circle of waits, and the seat that is given back before the forks
are put down. Correct when nobody shares a fork or a dish, somebody can always
move, all dishes served are eaten, and main destroys the semaphore after its last
use.

**lab26: page viewer with `select`.** One thread, a ring buffer with two offsets and
two flags, a line counter that stops the output until SPACE is pressed. Events:
the socket, the terminal, standard output. **lab28: the same with two threads**, a
mutex and a condition variable around the offsets, the array itself read and written
without the mutex. **lab27: the same with asynchronous requests**, one each for
keyboard, screen and socket, and the queue of `common/queuebuffer.h` instead of the
ring. Hard: full against empty, offsets wrapping at different moments, short writes,
the end of the connection before, while and after the rest is shown, SIGINT anywhere;
in lab28 what each thread evaluates after it has unlocked, and what it holds when it is
cancelled; in lab27 telling a request that has ended from one that was never made, and a
byte that is looked at after its node was freed. Correct when the bytes come out in
order, each once, a screenful at a time, and the program ends when all is shown.

**lab6: recursive copy of a directory.** A detached thread per directory and per file;
descriptors and threads may run out, and then a thread sleeps and tries again. Hard:
who waits for what while holding what, the ways out after a failure, that "Copied" is
said by threads nobody joins. Correct when no descriptor is lost, nobody works in a
directory that does not exist yet, what is called copied is whole unless a call
failed for it, and the copy ends.

**lab8: pi until SIGINT.** Threads add up blocks of terms of a series; the handler
sets a flag; under a mutex each thread compares itself with the furthest one and
stops only when level. Correct when all stop at the same iteration, so that the
sum is a partial sum of the series, and they do stop. **lab7** is the same with one
block and no stop rule.

**lab10, lab12, lab13, lab15: two parties take turns printing** with three mutexes,
a condition variable without a predicate, two semaphores, and two named semaphores
between two processes. Hard: who begins, the hand-over of mutexes, what is destroyed
when, the last signal; in lab15, names that outlive a run which was killed or left early
after a failed call. **lab11** has two
mutexes, each unlocked by the thread that did not lock it; its lines need not
alternate, but neither side gets more than one ahead.

**lab22: production line.** Three threads make parts, one joins an a and a b, main
joins the result with a c; the stocks are semaphores. Hard: a is made faster than it
is used, so its semaphore meets its limit, and the failure cancels every thread,
wherever it is. Correct when no part is used twice, only what a cancelled thread holds is
lost, and parts become pieces.

**lab1-lab5, `lab26/getRequest.h`, `common/queue.c`, `EdUrlParser`**: see
[below](#what-is-not-modelled-and-why).

## Modules

| module | models | role |
|---|---|---|
| `MsgChannel` | what a `MyMsgQueue` promises | abstract: a bounded FIFO channel that can be shut |
| `MsgQueueSem` | lab23: queue, producers, consumers, main | detailed; implements `MsgChannel` |
| `MsgQueueCond` | lab24: the same with mutex and condition | detailed; implements `MsgChannel` for one producer and one consumer |
| `MsgList` | the linked list of both, pointer by pointer | data structure, with `get`'s late frees and `drop`'s loop interleaved |
| `Dinner` | what lab9 promises | abstract |
| `Philosophers` | lab9 | detailed; implements `Dinner` |
| `CyclicalBuf` | offsets and flags of the ring | operators used by lab26 and lab28 |
| `Pager` | what a page viewer promises | abstract |
| `PageWorld` | server, user, screen | the surroundings of the three viewers |
| `PagerSelect`, `PagerThreads`, `PagerAio` | lab26; lab28; lab27 with `queuebuffer.h` | detailed; implement `Pager` |
| `Viewers` | labs 26, 27, 28 | puts them together with `PageWorld`: one of them is run |
| `DirCopy` | lab6 | detailed |
| `TakingTurns` | what labs 10, 12, 13, 15 show | abstract |
| `MutexHandoff`, `CondHandoff`, `SemHandoff` | lab10 and lab11; lab12; lab13 and lab15 | detailed; implement `TakingTurns` (lab11 does not) |
| `PiThreads` | lab7 and lab8 | detailed |
| `Widgets` | lab22 | detailed |
| `SmallLabs` | labs 7, 8, 10-13, 15, 22 and `MsgList` | puts the last five and the list together: one of them is run |
| `MsgQueueSem_proofs`, `MsgQueueCond_proofs`, `MsgList_proofs`, `Philosophers_proofs`, `DirCopy_proofs`, `PiThreads_proofs`, `SmallLabs_proofs`, `Viewers_proofs` | | proofs about the module each is named after |
| `MC_*` | | instances for TLC, with their symmetry |

How state and actions correspond to the code. Variables keep the names of the code
(`first_sem`, `destroying`, `maxGlobalIteration`, `sock_end`, `lines_on_screen`).
A thread's place is a string or a number per thread that stands for the call it
is about to make; places at which nothing shared happens are not told apart. One step
is the code between two points at which another thread can interfere: one call that
can block, one read of a variable that is written without a lock, or a section under
a lock that no one can look into. Messages, texts and bytes of the page are members
of small sets or numbers; byte k of the page is the number k. Comments in the
modules name the places where that division is not obvious:

- `MsgQueueSem`: each `sem_wait` and `sem_post` is a step, and so is each read of
  `destroying`; what lies between lock and unlock is one step, except in `drop`.
- `MsgQueueCond`: `pthread_cond_wait` is three steps (release and sleep, be woken,
  take the mutex again).
- `PagerSelect`: a step is one handler of the loop; the server, the user and SIGINT act
  between the handlers too. `stdin` is what `getchar` has taken from the terminal and
  keeps for itself, where `select` cannot see it. After SIGINT (`gone`) the array has
  no meaning and the closed socket makes `select` and `read` fail.
- `PagerAio`: a step is one function of the loop; requests are carried out by somebody
  else at any moment (`StdinEnds`, `StdoutEnds`, `SocketEnds`, `RequestFails`). A
  request's `aio_nbytes` is 0 once its result has been looked at, its `error` is
  what `aio_error` says. `lost` counts results that nobody has looked at, and bytes
  for which there was no memory. `check_stdout_write` looks at the last byte of the line
  after the node it lies in may have been freed, and what it then sees is either answer
  (`LastByteReadsAsNewline`); `missed` records a newline that was not counted for it.
- `PageWorld`: byte k of the page is the number k, and whether it is a newline is
  decided when it is sent.
- `DirCopy`: a thread is named by the directory or file it copies. Its steps are its
  calls; one that finds no descriptor or no thread cannot go on until there is one.
  `hurt` is the history of nodes for which a call has failed.
- `PagerThreads`: a step is what a thread does between taking the mutex and giving it
  back, with one exception. The reader evaluates `down - up` after it has unlocked
  (`ReaderSize`), and may see `down` between `down += ret` and its wrap-around; the place
  `wrap` of the user's thread is there for that. A thread that is cancelled in
  `pthread_cond_wait` takes the mutex back and dies with it (place `holding`), since
  there is no cleanup handler; the other may then wait for the mutex for ever, and main
  for the other (`Stuck`). `destroyed` says that the SIGINT handler has destroyed the
  mutex, which it cannot do while it is held or given up for a wait. `cut` records a read
  of no bytes that was taken for the end of the page.
- `MutexHandoff`: the two loop bodies are given as sequences of operations (`Script`,
  and `LooseScript` for lab11), one operation a step. An unlock makes a mutex free,
  whoever holds it, which is what the C library does with the default kind.
- `SemHandoff`: `named` tells lab15 from lab13. `Kill` is an interrupt from the
  terminal, which ends both processes; `Rerun` starts the program again in a system
  where the names that were not unlinked still exist. `sem_open`, `fork`, `sem_wait`,
  `sem_post` and `sem_unlink` may fail, with the way out that the code takes then;
  `mishap` records that, or a kill. One party may be left waiting for the other, which has
  failed (`Abandoned`); it never moves again, and the program may be run again beside it.
- `Widgets`: `hand` is what the ab thread holds; it is empty again when that thread is over,
  so that what a cancelled or failed thread had in hand is missing from the accounts.
- `PiThreads`: a part of pi is the set of the indices of the terms added to it.
- `SmallLabs`: `program` is chosen in the initial state; the state of the other
  programs stays as it was. Small independent programs are thus checked together;
  `Viewers` does the same for the three viewers.

## Runs

| run | instance | what it shows |
|---|---|---|
| `sem_safety` | 2 producers, 2 consumers, 2 places, 4 cells, failing malloc | the lock, the permits, the list and the heap of lab23 agree in every interleaving with a `drop` at any moment; the queue implements `MsgChannel`; after a failed malloc nothing is touched any more (the program hangs, it does not damage) |
| `sem_live` | 2 and 2, 1 place, enough memory | once `drop` has begun main joins every thread; before that every message moves |
| `cond_queue` | up to 2 and up to 2, 2 places, spurious wake-ups, failing malloc | what holds in lab24: mutex discipline, the count, the life of the list, no signal lost; and, with one producer and one consumer and no spurious wake-up, bounded FIFO and messages that keep arriving |
| `cond_join`, `cond_two_consumers` | 1 and 1; 1 and 2 | two disagreements, below |
| `phil_dinner` | 4 philosophers, 3 seats, 4 dishes | lab9 implements `Dinner`; forks and seats are accounted for, somebody can always move, and the dinner ends |
| `viewers` | ring of 3, pages of 4; in lab27 reads of 2, pages of 3 | each viewer implements `Pager`, loses, repeats and reorders nothing, has shown the whole page when it ends by itself, and ends; lab28's threads never touch the same place of the array; while lab27's loop runs its terminal is switched over only with a full screen, and always when it waits in front of one |
| `pager_threads_read`, `aio_key` | the same, one program each | two disagreements, below |
| `dir_copy` | every tree of 2 directories, 2 files of 3 bytes and something else; up to 5 descriptors, 4 threads | lab6 loses no descriptor, works below existing directories only, calls copied what is whole, and ends with the whole tree if the limits are not too small |
| `dir_starves` | 2 files, at most 2 descriptors (one is enough), no failures | a disagreement, below |
| `small_labs` | see the `.cfg` | turns are taken and all lines printed; mutexes are unlocked by their owners (but in lab11), nobody is left at lab12's condition variable or lab13's semaphores when they are destroyed; lab15 is refused only after a run was killed or a call failed; lab7 and lab8 end level with a partial sum; lab22 uses no part twice and loses only what `create_ab` held at its end; the list keeps its shape, nothing dangles, `drop` and the late gets free everything exactly once |

Each module that models a program has a type invariant, `TypeOK`; those of
`MsgQueueSem`, `MsgQueueCond`, `Philosophers`, `DirCopy`, `PiThreads` and `MsgList` are
proved, alone or as a part of the inductive invariant. Those of the viewers and of the
other small labs hold in the instances above (put `TypeOK` under INVARIANTS to see it);
the parts of them that the proofs need are parts of the invariants proved. None is a
property of a run.

What follows from a property of a run by itself is no property of the run: that the
queue of lab23 stays within its bound follows from `FifoChannel` and is proved as
`BoundedQueue`; no dish in two hands, no circular wait, every dish eaten and the
semaphore's life in lab9 are proved as `DishesApart`, `NoCircle`, `CompleteDinner` and
`DestroyedLast`.

Properties with a condition state it because the code gives no more:

- `FrozenAfterNoMemory`: lab23 hangs when malloc fails. The property says that this
  is all that happens.
- `FifoChannel` and `ConsumersServed` of lab24 hold while `Alone` does: one producer,
  one consumer, nobody woken without a signal. With more, an `if` is not enough.
- `ShowsThePage` allows a viewer to be excused from some point on (`Pager!Excuse`): lab26
  when SIGINT has freed its memory, lab27 when the result of a request has been
  overlooked or a newline, looked for in freed memory, was not counted (`missed`), lab28
  when it is cancelled, or when the thread that wakes with an empty
  buffer at the end of the connection does not look at the test again and shows what
  lay in the array. Up to that point nothing is excused.
- `BytesInOrder` speaks of lab26 until its memory is freed, of lab27 as long as no result is
  overlooked, and of lab28 as long as the connection lasts.
- `AllShown`: a program that ends by itself has shown every byte the server sent before it
  closed the connection, in order. lab27 unless a result was overlooked; lab28 unless it
  took a read of no bytes (`cut`: `down - up` was 0 when it was evaluated after the unlock)
  for the end of the page. In lab28 stale bytes may follow the page, but only there and at
  most as many as the array has.
- `TerminalFollowsScreen` speaks of lab27 while its loop runs. SIGINT, a failure, or a page
  whose last line fills the screen end the program with the terminal still switched over,
  and the code has nothing against that.
- `Ends` is not claimed of lab27 once a result was overlooked or a request has failed:
  a failed request keeps its `aio_error` for ever, none of the checks looks at it, and
  the loop spins. Of lab28 it allows that the program, once cancelled, hangs (`Hangs`):
  a thread cancelled in `pthread_cond_wait` keeps the mutex and main never joins the one
  that waits for it, or a thread goes on trying to sleep with a mutex that is destroyed.
  It takes a user who presses SPACE again and again, so that in lab26 a single press may
  well go unanswered.
- `CopyEnds` is claimed for limits that are `Enough`: more threads than directories and
  more descriptors than threads, or a thread for every node and more descriptors than
  files. `WaitingEnds`, without them, fails.
- `TakesTurns` for lab12 holds up to the first wake-up that nobody signalled, because
  there is no predicate. `TurnsEnd`, a part of `ProgramsEnd`, speaks for lab12 of the
  runs main begins: if the
  thread gets the mutex first, its last line is followed by no signal and main waits
  for ever. For lab13 and lab15 it speaks of the runs in which no call fails and that
  nobody kills (`mishap`), for lab10 and lab11 of those in which the thread was created.
- `RefusedAfterMishapOnly` (lab15): the names are left behind by a kill, but also by every
  way out before `sem_unlink`: a `sem_open` that fails for another reason than that the
  name exists, a failed `fork`, a failed `sem_wait` or `sem_post`, and by `sem_unlink`
  itself. After any of these all later runs are refused. The property says that
  there is no other way to be refused, and that without them a run leaves no name.
- `PartsAccounted` (lab22): an a, or an a and a b, may be missing once the ab thread is over,
  as it held them when it was cancelled or its own post failed. Nothing else ever is.
- `CopiedMeansWhole` excuses a short write, after which the rest of the chunk is lost
  (`hurt`).
- `UsedInOrder` says of lab12 that nobody sleeps on the condition variable when it is
  destroyed. It says nothing of the mutex: main does not join its thread, which may
  still have to take the mutex back when main destroys it.
- `CrewsMade` (lab22), also a part of `ProgramsEnd`, holds until a semaphore meets its limit; then all threads are
  cancelled and main waits for ever in `create_screw`, so that the joins and the
  `sem_destroy` calls after it are never reached.

Deadlock is checked in `phil_dinner`, `viewers`, `sem_live` and `small_labs`, where the
ways a program may come to rest are part of the next-state relation (`Over`,
`Stopped`). `sem_safety` and the runs of lab24 and lab6 do without: these
programs really stop, after a failed malloc, a lost wake-up or at the end of the copy.

## Bounds

- Threads: two of a kind are the least with which threads of one kind can get in each
  other's way; with one place or two, puts wait as gets do. Lab9 has four
  philosophers, so that there are both neighbours and a philosopher across the
  table. What the proofs cover holds for any number.
- `Nodes` bounds the heap and is never smaller than what can be in use.
  `QueueBound` bounds lab24's list, which overfills without limit once `count` has
  passed ten.
- A ring of three is the least in which `up` can lie strictly inside the array and below
  `down`; a page of four (`Total`) goes once round it and further. A screen of one line (`MaxLines`)
  is full before the end of the page, again and again. `MaxKeys` bounds the keys
  typed and not yet read; with two, one of them can be left in lab26's stdio buffer, where
  `select` does not see it. In lab26 keys are typed when the screen is full, since
  earlier ones are not looked at before; in lab27 when the keyboard is being read, since
  `TCSAFLUSH` discards earlier ones. In lab27 reads of two (`AioSize`) and a page of three (`AioTotal`) give queues
  of up to three nodes and nodes of more than one byte; lab27 is followed until `MaxLost`
  results are lost, here one: nothing is claimed after it.
- `dir_copy`: a directory with a directory in it, two files that compete, and a file of
  one and a half buffers; `OpenMax` and `ThreadMax` bound the limits, and every value up to them
  is tried, from too small to more than enough.
- `small_labs`: three lines have a first, a middle and a last; three threads and
  blocks of four terms, which three does not divide; `MaxIteration` bounds the blocks;
  semaphores up to two, which three parts (`MaxParts`) exceed; three runs of lab15
  (`MaxRuns`): one killed or failed, one refused, one more; three list cells, one put and two gets,
  so that two copies overlap.

## Fairness

Weak fairness of each thread says only that a thread that can go on does so in the
end; the scheduler gives that. No lock, semaphore or condition variable is taken to
be fair. What goes beyond it, and why:

- lab10, strong fairness of the thread's first lock (`LockTwoFirst`): main takes and
  gives back that mutex in a loop until the thread has it. Without it main may spin for
  ever; the code relies on it.
- The viewers: the server sends or closes in the end, and a user who is asked
  again and again presses SPACE. Without a server and a user the program rightly
  waits. The requests of lab27 are carried out, as the C library does; that one fails is
  only bound to happen if the connection is broken.
- lab6: every thread is scheduled, but a thread that waits for a descriptor is neither
  preferred nor bound to fail instead.
- `cond_join` assumes that main's `drop` is called (`DropSpec`), which main does
  after its sleep.

Nothing is assumed of SIGINT, of spurious wake-ups, of the interrupt that kills
lab15, of failing calls or of when `drop` comes.

## Proofs

Every safety property that a passing run checks, and every refinement of an abstract
specification, is proved by TLAPS as a theorem of the specification, for every value of
the constants that satisfies the module's named assumption (`ConstantsAssumption` in
`MsgQueueSem`, `MsgQueueCond` and `Philosophers`, `CopyAssumption`,
`SmallLabsAssumption`; for the viewers `ViewersAssumption`, `PagerAssumption` and
`BufferAssumption`). `PiThreads` and `MsgList` have none: the theorems that need one say
so (`Sizes`, `Heap`), and `SmallLabsAssumption` implies both. The assumptions
say that sets are finite and disjoint, that sizes are numbers, and that there is room for
something. `PROJECT.json` lists each theorem with the property it states.

- `MsgQueueSem_proofs`: type correctness, mutual exclusion, conservation of places and
  of messages, the bound, "get finds a message", no use of `q` after it is freed, no leak, and
  nothing damaged after a failed malloc. The inductive invariant adds to the
  properties above the order of `drop`'s steps and, in the two balances, the
  permits that are neither in a semaphore nor in the list but owed by a thread at a
  certain place: `first_sem + taken + filled + owed = Capacity`. Without the owed
  permits no step of put or get preserves the balance; with them the bound and "get
  finds a message" are consequences, although no code compares a length with ten.
  The refinement of `MsgChannel` (`ImplementsChannel`) needs one thing more: a thread in
  the code that returns 0 has seen `destroying` (`QuitOrder`). That `Accept` finds room is
  again the balance.
- `MsgQueueCond_proofs`: type correctness, the mutex and its owner, `count` and the list,
  no use of `q` after it is freed, no lost wake-up, and, for a program with one producer and one
  consumer in which nobody is woken without a signal, the refinement of `MsgChannel`.
  That somebody is awake is not inductive. What is: some created thread `Drives`, that
  is, is awake and bound either to change the list and then signal, or to find `count`
  away from its own bound so that it need not sleep. Whoever goes to sleep has seen
  `count` at a bound (`CountSeen`), and then a thread of the other kind drives. For the
  refinement, `PairOK` says that a call past its test still finds what it tested, asleep or
  not: a second producer, a second consumer or a wake-up that nobody signalled breaks
  just that.
- `MsgList_proofs`: the pointers of the list, for any number of cells. The invariant is that
  there is a sequence of cells which `prev` leads through in one direction and `next` in
  the other, so that `drop`'s loop, which follows `next` only, has a prefix of it left to
  free; late gets free cells outside it. `Order`, which `ListShape` and `FifoList` are
  about, is defined by a recursive function; that there is such a function, and that it
  yields that sequence, is proved by taking the least counterexample.
- `Philosophers_proofs`: type correctness, forks and dishes in one hand, the number of
  seats, the semaphore's life, the complete dinner, no circular wait, no deadlock, and
  that every step is a step of `Dinner` or none. Here the invariant must count those
  who have given their seat back and still hold forks, since the code posts the
  semaphore first; the pigeonhole argument that fewer seats than forks leave somebody
  a fork rests on it.
- `DirCopy_proofs`: type correctness and the limits, the account of descriptors, "nobody
  below a directory that is not there", "what is copied is whole", for any finite tree.
  The invariant says which descriptors a thread has open by its place (`OneOpen`,
  `TwoOpen`), what a file's thread has read, holds in its buffer and has written, with
  what has been lost noted in `hurt` (`FileBytes`), and that a directory from which
  entries are being taken is there and its thread is the only one to start theirs.
- `PiThreads_proofs`: whoever has stopped stands at the recorded maximum, was told to
  stop, and nobody is beyond it. The second part is needed because it is what keeps
  the others from moving the maximum: a thread level with it would have to stop. And
  the sum: each thread has added its blocks up to its iteration (`Summed`); every term
  lies in one block and belongs to one thread, so that when all are level nothing is
  missing and nothing is counted twice (`SumIsWhole`).
- `SmallLabs_proofs`: one inductive invariant per program, as if it ran alone, and one
  lemma that the others' variables stay. lab22: what is in the hands of the ab thread
  follows from its place until the thread is over, and each kind's account is kept through
  cancellation but for what went with that thread. lab13 and
  lab15: one `Token` is in a semaphore or with a party, or was lost with a party whose call
  failed, and says whose line was last.
  lab10: the owner of each mutex and whose line was last follow from the two places.
  lab11: though nobody owns a mutex, none is locked more than once more than it has been
  unlocked (`LockedOnce`), which bounds the lead by one. lab12: who printed last sleeps,
  until woken. From these the lines alternate (`AlternatesIn`), whence both `TakesTurns` and
  `Abreast`. lab7, lab8 and the list are carried over from `PiThreads_proofs` and
  `MsgList_proofs`, instantiated here, by citing the lemmas of their steps.
- `Viewers_proofs`: the bytes keep their order, a viewer that ends by itself has shown the
  whole page, lab28's threads never touch the same place of the array, lab27's terminal
  follows its screen while the loop runs, and each viewer implements `Pager`, with the
  conditions listed under [Runs](#runs). The ring rests on
  lemmas about `Stored`, `Settled` and the place of the k-th byte, which lab26 and lab28
  share. lab28's invariant speaks of the ring as it will be after the wrap that the
  user's thread may be about to make (`Kept`): seen so, the room that the reader
  computes without the mutex is never more than what is free, even when it is wrong.
  It promises nothing once the connection has ended and the ring is empty (`Dry`), when
  everything has been shown. `LinesInv` says that a line being shown is counted already
  if it will be complete, which is what makes a short write harmless but for the
  excuses `Pager` allows. lab27's queue is a run of consecutive bytes cut into nodes
  (`Queue`); its lemmas say what a read adds, a write removes and a node's end drops,
  and that the line written stays the line although newlines of later bytes arrive.
  The length of a line is the least element of a set, by the order of the numbers.
  That the whole page was shown needs the way to the end: lab27's loop is over only
  after the end was read with the queue empty, and in lab28 the end that the reader saw
  was the server's, or `cut` is set, and what the user's thread has shown by then is
  everything read. For the terminal the invariant follows the key's request from
  `stdin_read` to `check_stdin_read`, which alone takes it back.

Proof attempts that failed for a good reason changed the models: an ambiguous choice in
`MsgQueueCond`'s initial state, which TLC resolves silently, is written as IF; `DirCopy`'s
account of descriptors is stated by place, and `PagerAio`'s order of the bytes node by
node, without flattening the queue.

Only model-checked: liveness, that is, `EveryThreadJoined`, `MessagesMove`,
`ConsumersServed`, `DinnerEnds`, `Ends`, `CopyEnds` and `ProgramsEnd`. Temporal reasoning
under fairness and ENABLED are out of the prover's reach; that a lab ends is known for the
instances of the runs. There is no RECURSIVE operator in the modules.

## Disagreements found

1. **lab24, `drop` can leave a thread asleep** (`cond_join`). `destroying` is set and the
   broadcast made without the mutex; a get or put between its test and its wait misses
   both, and main's join does not return.
2. **lab24 with two consumers** (`cond_two_consumers`). `if` instead of `while` around the
   wait: a woken get finds the list emptied by another and follows a null pointer.
3. **lab28, the reader can fail with a healthy connection** (`pager_threads_read`).
   `buffer->down - buffer->up` is evaluated after the unlock; when the other thread
   wraps `down` to 0 in between the count is negative, `read` fails, and the program
   reports a failed socket and cancels everything. When the difference is zero `read`
   returns 0, which is taken for the end of the page.

4. **lab27 may not notice SPACE** (`aio_key`). `stdin_read` makes a new request whenever the
   last one has ended, whether or not its result has been looked at; a key that arrives
   after `check_stdin_read` in one round and before `stdin_read` in the next is lost.
   `stdout_write` and `socket_read` do the same, and then bytes are shown twice or lost.
5. **lab6 may wait for ever** (`dir_starves`). Each file's thread holds its input while it
   waits for a descriptor for its output; with as many such threads as descriptors
   there is none left to wait for.

Further behaviour of this kind that the models contain and properties exclude by their
condition: lab27 spins once a request has failed, which its test for -1 never sees
(`RequestFails`), shows more than a screenful when it misses a newline in freed memory
(`missed`), and may leave the terminal switched over; lab28 may take a read of no bytes
for the end of the page (`cut`), and hang when it is cancelled (`Stuck`); lab12 hangs if
the thread begins, lab22 after a semaphore's limit, lab23 after a failed malloc; lab15 is
refused for good after a run that left its names (`mishap`), and one of its processes, or
lab13's threads, waits for ever if the other fails (`Abandoned`).

## What is not modelled, and why

- lab1-lab5: threads without shared state; the order of their lines is left open by the
  programs themselves.
- `lab26/getRequest.h` and the same code in lab28: straight-line library calls. It copies
  strings without their terminating zero, so that what is read after them does not
  follow from the source.
- `EdUrlParser`: third-party text scanning. `common/queue.c`: not used by any program.
- What a program does with memory it has freed: the SIGINT handlers of lab26 and lab28
  free what the interrupted code goes on to use, and lab28 frees twice after a failure.
  That the handlers run, what they close and cancel, is modelled.
- lab26: the end of file on the terminal. lab11: that main destroys the mutexes while
  its thread may still need them. lab6: a tree that changes while it is copied, and an output
  inside the input. `queuebuffer_clear`, which runs alone at lab27's end, and the locks
  of `queuebuffer.h`, which no program compiles.
- lab23 and lab24: the node whose length `put` returns after it has given up the lock (lab23
  line 82, lab24 line 78), and which a get may have freed by then. That number is never 0,
  and the callers ask for nothing else. "No use after free" speaks of `q` and of what the
  list links.
- lab10, lab12, lab13: a failed `pthread_create`. The code tests for -1, which it does not
  return, and goes on without the thread; main then waits for it for ever, or spins (lab10).
- lab22: a failing `sem_wait`; the semaphores are valid and no signal has a handler.
- lab7 and lab8: that a term could be added twice by one thread: a part of pi is a set.
- Wording of messages, sleeping times, floating point.

## Plan

Every program with behaviour worth checking is modelled, and every safety property of the
runs is proved. What is left: the type invariants of `Viewers` and of the small labs as
theorems of their own; safety lemmas that liveness rests on and the prover can reach, that
is, that a program which has not ended has a step to take (as `DeadlockFreedom` says of
lab9): for lab23 while nobody is out of memory, for lab10, lab11 and lab13, and for lab28's
two threads on one condition variable.
