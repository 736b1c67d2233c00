# Specifications of the 415F operating-systems programs

TLA+ specifications of the concurrent programs and of the container library in
this repository, the TLC configurations that check them, and TLAPS proofs about
all of the concurrent ones and all of the containers. `PROJECT.json` holds the same information in a form for tools: the
component list, the runs, which source lines each definition stands for, the
mutants (a plausible bug for each property, under which the property must fail),
the findings and the hazards.

1. [The system](#1-the-system)
2. [Modules](#2-modules)
3. [What each run checks](#3-what-each-run-checks)
4. [Bounds and fairness](#4-bounds-and-fairness)
5. [What is proved](#5-what-is-proved)
6. [Findings](#6-findings)
7. [What is not modelled](#7-what-is-not-modelled)
8. [Plan](#8-plan)

To run: `tlc -config DiskDriver.cfg DiskDriver`, and so on for the table of
section 3; `tlapm DiskDriverProofs.tla`, and so on for `QueueLemmas` and the
modules that end in `Proofs` (`LinesProofs` takes six minutes, `KeyedProofs` sixteen,
`ContainersProofs` nineteen, all together three quarters of an hour).

## 1. The system

The repository holds the projects and labs of an operating-systems course. They
are separate programs that share one library of abstract data types.

| part | state | operations | interacts through |
|---|---|---|---|
| **Disk driver**, `P2/diskdriver.c` | 30 vouchers (descriptor, status, direction, mutex, condition variable), the queue of free vouchers, one request queue per direction | `blocking_`/`nonblocking_` `read_`/`write_sector`, `redeem_voucher`, one worker thread per direction | bounded buffers, per-voucher mutex and condition variable, the device, the descriptor store |
| **Ticket free list**, `labs/L4/lab5/boundedfreelist.c` | a linked list of tickets, a counter, `shutdown` | `blockingGetTicket`, `nonblockingGetTicket`, `putTicket`, thread loop, `onint` | one mutex, one condition variable, a signal |
| **Producer/consumer**, `labs/L5/labs6/prodcons.c` | a bounded buffer of lines, `prodDone` | the two thread functions | the buffer; `prodDone` without a lock |
| **Work queue**, `labs/L7/lab8/lab8.c` | a queue of items, main's array of pointers to them, `active` | main cancels, the worker requeues or frees | one mutex; `active` read without it |
| **Process harness**, `P1/THv1.c`, `THv2.c`, `thv4.c` (the other four files of `P1` with these names are copies) | options and environment, the words of the command, the pids, `USR1_seen` in each child, the report | options, fork, signal, suspend, resume, wait, report; handlers `onusr1`, `onchld` | signals, process status |
| **String functions of project 1**, `P1/p1fxns.c` | none | words, lines, numbers | calls only |
| **SIGCHLD handler**, `labs/L3/lab4start/chldhandler.c` | `nprocesses` | fork loop, `onchld`, `pause` loop | signals; `nprocesses` without protection |
| **ADT library**, `P3/P3start/adts` | the private data of each container | the methods of each dispatch table | calls only; one client at a time |
| **Hash bag**, `PO/hashbag.c` | buckets of counted entries | the methods of its dispatch table | calls only |
| **Broker**, `P3/P3start/psbv*.c` | the buffers of the request thread, the queue of channels (`psbv3.c`), `killprog` | start, request thread, `onint`, cleanup | BXP messages; the queue without a lock |
| **Clients of the broker**: `publisher.c`, `subscriber.c`, `listchannels.c`, `listsubscribers.c`, `echoclient.c` | the call in progress | connect, call, SIGINT | BXP messages |
| **Callback RPC**, `labs/L6/lab7` | the call in progress, the client's thread | request, call back, answer | BXP messages, both ways |
| **Strings**, `P3/P3start/adts/stringADT.c`; **iterators**, `iterator.c`; **merge sort**, `P3/P3start/sort.c` | a buffer with its length and size; a cursor over an array; none | the methods; `next`, `hasNext`; `sort` | calls only |
| **Simple file system**, `P4/P4startINTEL/simplefs.c` | inodes, free blocks | mostly stubs | the disk driver's binary |
| **Workloads**, small exercises | – | sequential functions | – |

### What is hard, and what makes each part correct

*Disk driver.* Three queues, a mutex and a condition variable per voucher, and
any number of callers. A queueing call goes on writing `status` after the worker
can already see the voucher. A refused nonblocking request must undo what it did.
The recycling of a voucher writes to a bounded queue with a lock held. It is
correct when vouchers and descriptors are neither lost nor duplicated, the device
is only ever given the request of the thread that queued it, critical sections
exclude, every queued request reaches the device, a nonblocking call does not
block, and `redeem_voucher` returns the outcome of the request.

*Ticket free list.* The blocking get trusts the counter and dereferences the
list; the nonblocking one trusts the list. Wake-ups go to everybody, and a
blocked thread does not look at `shutdown`. It is correct when list, counter and
holders always agree, no thread sleeps while there is a ticket, and all threads
end after SIGINT.

*Producer/consumer.* A flag is tested before a call that blocks. It is correct
when lines come out in order, with `-b` all of them, each copy is freed once, and
both threads end.

*Work queue.* Two threads hold pointers to the same items; one frees them. The
loops of both end on a counter that is read without the lock. It is correct when
nothing is used after it was freed, the counter is exact, only cancelled items
are freed, and the program ends.

*Harness and SIGCHLD handler.* Signals are delivered late, overtake each other,
merge, and interrupt main between any two instructions. It is correct when no
process of the workload is killed or left suspended, every child is reaped, and
the parent returns, not before its last child. What it runs is decided before,
from options, environment and a command line that is cut into words by hand: as
many processes must run as were asked for, and the words must be those of the
line.

*Containers.* Ring indices wrap while an array grows, `realloc` or `malloc` may
fail halfway, a sequence number keeps the heap stable, the load that triggers a
resize is kept incrementally, elements are freed through a client's function. A
container is correct when any sequence of calls gives what the abstract sequence,
priority queue, dictionary, multiset or text gives, and nothing is leaked or freed
twice. An iterator lives on while its container changes. Sizes that the code keeps
beside an array (the capacity of a trimmed list, the size of a copied string, the
length of an iterator) have to be those of the array.

*Broker.* One thread serves all requests from one set of buffers, so that what a
client is told can be what another was told before; main destroys the queue the
thread uses, and comes to the same cleanup from a start that failed. It is correct
when every answer is made from the request it answers, SIGINT ends it and every
call returns.

*Callback RPC.* Two processes are each other's server. It is correct when the
line has reached the client's thread before the call returns, and when neither
waits for the other for ever, also if one of them dies.

## 2. Modules

| module | stands for | |
|---|---|---|
| `DiskDriver` | `P2/diskdriver.c` | state machine |
| `DiskDriverProofs` | | proofs about it |
| `QueueLemmas` | | lemmas on sequences, rings, chains of nodes and rows of buckets for the proof modules |
| `TicketPool` | what a free list promises | abstract specification |
| `BoundedFreeList` | `labs/L4/lab5/boundedfreelist.c` | state machine, implements `TicketPool` |
| `ProdCons` | `labs/L5/labs6/prodcons.c` | state machine |
| `WorkQueue` | `labs/L7/lab8/lab8.c` | state machine |
| `MCThreads` | a behaviour of one of these three, with small numbers of threads, lines and items | composes them |
| `ThreadsProofs` | | proofs about these three, with the refinement |
| `P1Fxns` | `P1/p1fxns.c` | operators on texts |
| `Harness`, `HarnessProofs` | `P1/THv1.c`, `THv2.c`, `thv4.c`: options, words and report, and the processes | state machine over `P1Fxns`, proofs |
| `MCHarness` | the inputs `Harness` is checked with | |
| `ChldHandler` | `labs/L3/lab4start/chldhandler.c` | state machine |
| `Broker` | `P3/P3start/psbv1.c`, `psbv2_curr.c`, `psbv2.c`, `psbv3.c` and the five clients | state machine |
| `Callback` | `labs/L6/lab7`: `client.c` with `server.c`, `cbclient.c` with `cbserver.c` | state machine |
| `ProcessesProofs` | | proofs about these two and `ChldHandler` |
| `MCServices` | a behaviour of one of these three, with small sets of clients, requests and children | composes them |
| `Line`, `StableQueue`, `Dictionary`, `Multiset`, `Text` | the headers `queue.h`, `stack.h`, `deque.h`, `arraylist.h`; `prioqueue.h`; `map.h`; `bag.h`; `stringADT.h` | abstract specifications |
| `StringADT` | `stringADT.c` | implements `Text` |
| `ArrayQueue`, `LListQueue`, `ArrayStack`, `LListStack`, `ArrayDeque`, `LListDeque`, `ArrayList` | the file of that name under `P3/P3start/adts` | implement `Line` |
| `Linked` | the loops over the nodes of a list and over the buckets of a table | operators of the linked containers |
| `Object` | what a client sees of an object: the dispatch table, the private data, the last call | declarations |
| `Lines` | a client of any one of these seven | composes them |
| `LinesProofs` | | proofs about the seven |
| `HeapPrioQueue`, `LListPrioQueue` | the file of that name | implement `StableQueue` |
| `HashMap`, `LListMap` | likewise | implement `Dictionary` |
| `HashCSKMap`, `LListCSKMap` | likewise; each takes the operators it shares with the map above from it | implement `Dictionary` with keys of their own |
| `HashBag` | `PO/hashbag.c` | implements `Multiset` |
| `Keyed` | a client of any one of these seven; `P3/P3start/sort.c` (the same functions as in `PO`) | composes them; recursive functions |
| `KeyedProofs` | | lemmas about the priority queues, the hashed maps, the bag and the merge sort |
| `Containers`, `ContainersProofs` | a client of any one of the fourteen, of its iterator (`iterator.c`, and what each container's `itCreate` gives it), of a string, and of `sort` | composes them, over `Lines` and `Keyed`; lemmas about the maps on a ring, strings and iterators, and the theorems of all containers |

### How the models correspond to the code

**Steps.** In the concurrent models a step is one access to what others share: a
call of a bounded buffer, a read or write of an unprotected variable, getting a
mutex, or a critical section. `x++` on shared data is a load and a store. What a
thread does to its own data between two such accesses belongs to the step before.
Mutex acquisition is a step whose guard is that the mutex is free;
`pthread_cond_wait` releases the mutex and joins the wait set in one step, leaves
the set by a broadcast or spuriously, and then competes for the mutex again.

**DiskDriver.** `vsd`, `status`, `request_t`, `v_lock`, `waiting` are the fields
of `vouchers[]` (`waiting[v]` is the wait set of `status_flag`). The control `pc`
of an application thread walks through a queueing call (`assign`, `fill`,
`blockingWrite` or `nonblockingWrite`, `load`, `store`), `redeem_voucher`
(`redeem`, `test`, `wait`) and `voucherRecyle` (`recycle`, `put`, `unlock`). The
worker's `wpc` walks through one turn of its loop. The two directions differ only
in the queue and the device function, so one action stands for both; likewise the
blocking and the nonblocking call share everything up to the write. The bounded
buffers, the descriptor store and the device are known only by their headers and
binaries: a buffer is a bounded FIFO whose operations are atomic, the store a set,
the device an outcome 3 or -1. The application is the loop of the repository's
demonstration program. `redeem_voucher`'s uninitialized `value` is a choice.

**BoundedFreeList.** `next` and `freeList` are the pointers themselves, so the
list can be broken in the model as in C. The test of the blocking get is on
`freeTickets`, that of the nonblocking one on `freeList`, as in the code.

**ProdCons.** Line *k* of stdin is the number *k*. Delays are not modelled: every
relative speed is possible.

**WorkQueue.** `heap[i]` records whether the storage of an item is live or freed
and becomes `"error"` when it is touched or freed afterwards. `CreateItem` is one
turn of main's first loop: `malloc` may fail, whose answer nobody tests (`"crashed"`),
and so may `enqueue`, whose answer nobody tests either: the item is counted in
`active` but on no queue (`refused`), and the program never ends.

**Harness.** One specification for the three texts of the program; `version` says
which. Signals are sets of pending signals per process with the kernel's rules
(stated at the head of the module). The handler blocks main's steps while it runs.
The first step takes the options and the environment of one of the inputs in
`MCHarness`; the words and the report are those `Words` and `Report` compute.

**P1Fxns.** A text is a sequence of characters, of which only blanks,
quotes, newlines, digits and a few letters are told apart. The functions that
copy a text as it is have no operator.

**Broker.** One specification for four texts; `version` says which. `mpc` walks
through main (`options`, `signal`, `read`, `offer`, `create`, `wait`, `destroy`,
`free`, `cancel`, `join`), in the order of each version (`After`), and `goto
cleanup` leads to the same last steps. `tpc` is the request thread. A request is
its command (empty when the line has no words), the number of its arguments, the
first of them, the bars before it that strtok skips and whether the line still has
its newline; an answer is its first character and the request it was made from.
`response` and `reply` keep their contents between requests. `text` is what
`queryDble` holds at the places where names of channels were found (`Offsets`): a
channel's name is a pointer to one of them, the place depends on the bars, and each
request that is copied there changes what all of them read (`TextAfter`). What is
undefined (a pointer never set, freed storage, a first word that is NULL, an array or
a buffer that is too small) ends the program or does nothing (`AtRisk`,
`HandleCrashes`); no property says that it may not.

**Callback.** A request is the client it came from, which is what the server
reads from its words. Any process may be killed at any moment.

**ChldHandler.** `nprocesses++` in main is split; the handler, which interrupts
main anywhere, is not interrupted by it. `pause()` begins and ends separately.

**Strings, iterators, sort.** Like the containers: a buffer with `len` and `size`
for a string; for an iterator, the array `itCreate` copied and the length it was
told. `msort` and `merge` are recursive functions on arrays.

**Containers.** `self` is the private data: a record with the fields of the C
structure, arrays as functions from indices with `garbage` in slots that were
never written, lists as functions from node addresses. `malloc` and `realloc` may
fail wherever they are called. Each method is an action that ends with `ret`, its
result and what it freed. Each container's module says how `self` represents an
abstract sequence, queue, dictionary or multiset (its refinement mapping), and
`Containers` checks every step of every container against its abstraction.

## 3. What each run checks

| run | module, configuration | distinct states | what it shows |
|---|---|---|---|
| `driver` | `DiskDriver`, `DiskDriver.cfg` | 147 000 | safety and liveness of the driver, below |
| `driver_redeem` | `DiskDriver`, `DiskDriver_redeem.cfg` | – | **violated**: `redeem_voucher` returns |
| `driver_outcome` | `DiskDriver`, `DiskDriver_outcome.cfg` | – | **violated**: the recorded outcome is kept until it is redeemed |
| `threads` | `MCThreads`, `Threads.cfg` | 41 000 | the free list is sound, implements `TicketPool`, and shuts down; lines come out in order, all of them, each freed once; no item is used after it was freed, the counter is exact, everything is freed at the end |
| `prodcons_hang` | `ProdCons`, `ProdCons_hang.cfg` | – | **violated**: both threads end |
| `harness` | `MCHarness`, `Harness.cfg` | 34 000 | the words of a line without quotes are its arguments, numbers keep their value; as many processes as asked for; in `THv1.c` and `THv2.c` none is killed and the clock stops after the last; the harness returns |
| `chldhandler_returns` | `ChldHandler`, `ChldHandler_returns.cfg` | – | **violated**: main, when its count is exact, returns |
| `containers` | `Containers`, `Containers.cfg` | 191 000 | every container and the string implement their abstraction, and their structure stays sound; iterators give all elements; `sort` sorts and is stable |
| `containers_deque` | `Containers`, `Containers_deque.cfg` | – | **violated**: the length told with an array is that of the array |
| `containers_storage` | `Containers`, `Containers_storage.cfg` | – | **violated**: a list's array and a string's buffer are as large as they are taken to be |
| `services` | `MCServices`, `Services.cfg` | 182 000 | right requests and those that are no command are answered each for itself, the broker ends and calls return; the call back comes first; the racy count of lab 4 never falls short and every child is harvested |
| `services_answers` | `MCServices`, `Services_answers.cfg` | – | **violated**: every answer is made from the request it answers |

### The properties that carry the weight

* `VoucherConservation` – at every moment a voucher is once in the free queue or
  with exactly one thread. A refused request and a request whose voucher is on its
  way through the worker have to keep it. Redeemed ones are recycled by the same
  code, but `redeem_voucher` never returns (section 6), so that in the runs only
  refused requests put a voucher back; likewise for `DeviceServesOwner`.
* `LockExclusion`, `EveryRequestServed` – exclusion in the critical sections of a
  voucher, and that each queued request reaches the device. Neither says that a
  redeemer is woken: the worker broadcasts after it unlocked, and what a redeemer
  that is woken does is the subject of `RedeemReturns`, which is violated.
* `DeviceServesOwner` – whatever the worker has taken or will take from a queue
  still carries the descriptor and the direction of the thread that queued it,
  and appears there once. This is what makes it safe that the worker takes
  the voucher and looks at its contents only later.
* `NonblockingReturns` – a nonblocking call begins with a *blocking* read of the
  free queue. It returns as long as the store holds no more descriptors than there
  are vouchers, since a thread needs a descriptor before it needs a voucher.
* `FreeListSound` – following the pointers visits exactly the tickets nobody has,
  each once, and the counter is their number. The blocking get, which follows the
  pointer on the word of the counter, is safe for that reason alone.
* `ImplementsPool` – and therefore the list is a ticket pool.
* `ShutdownCompletes` – blocked threads do not test `shutdown`. They end since
  those that hold a ticket return it before they look, and the broadcast goes to all.
* `OrderKept`, `FreedOnce`, `AllPrinted` – the hand-over of a line from producer
  to consumer through two loops with different reads.
* `ActiveCounts`, `NoUseAfterFree`, `AllCancelledAndFreed` – why the unlocked reads
  of `active` are harmless, and why main's pointers never dangle when they are used.
  The third says that the program ends when `enqueue` took every item.
* `NoneKilled`, `ElapsedCoversAll`, `HarnessReturns` – any order of delivery of
  SIGUSR1, SIGSTOP and SIGCONT is survived, from before a child has reached its
  loop to after exec; handler and `wait` may compete for the children. The first two
  except `thv4.c`, where a SIGUSR2 that the parent's handler sends (39-41) can kill a
  workload, and where the clock stops after one `wait`; the third excepts the pause
  of `THv1.c` after a failed `fork` and the children that `THv2.c` then leaves.
* `ArgumentsAreWords` – the arguments of every short command line without quotes
  begin with its words, and are its words when it does not end in a blank. What the
  harness adds to a line that does is not required.
* `NeverShort` – an increment that loses a concurrent decrement can only leave the
  count too high, so main never leaves before every child is harvested.
* `SequencesAreLines`, `PrioritiesAreStable`, `MapsAreDictionaries`,
  `BagsAreMultisets`, `StringsAreTexts` – step-by-step refinement of the five
  abstractions by fifteen structures, with failed allocations, and with what is
  freed as part of the result.
* `IteratorsGiveAll` – an iterator gives what the container held when it was
  created, whatever happens to the container meanwhile. Not required are the end of
  an array deque's iterator, which `LengthsTold` is about, and what a map's iterator
  reads through a pointer to an entry that has been freed.
* `AnswersAreOwn` – in every order of the requests of several clients a right request
  and one that is no command get the answer made from them, and a 1 answers only a
  right one. It is silent about the other requests, and about the names in a list;
  `AnswersAreTrue`, which is not, is violated.
* `CallbackFirst` – the order the pair of lab 7 exists for: a client whose call has
  returned has the line in its thread. That the thread has *printed* it is not
  promised: an input that ends takes the last line with it.
* `EveryCallReturns` – no client waits for ever, whether the broker shuts down,
  crashes or aborts, and although server and client of lab 7 call each other.

## 4. Bounds and fairness

| run | bounds | why they are enough |
|---|---|---|
| `driver` | 1 reader, 2 writers, 2 descriptors, 2 vouchers, queues of 1 | two threads compete for one queue (full and refused), the third for vouchers; both workers run; three threads and two vouchers let a voucher be reused while another is outstanding. As many descriptors as vouchers is what `NonblockingReturns` needs; the demonstration program has fewer than the driver's 30 |
| `driver_redeem`, `driver_outcome` | 2 writers | short counterexamples |
| `threads`, free list | 3 blocking threads, 1 nonblocking, 2 tickets | two threads can wait at once for one put, and a get can overtake both; lists of length 0, 1 and 2 |
| `threads`, lines; `prodcons_hang` | at most 5 lines, a buffer of 2, with and without `-b` | the buffer fills and empties more than once; 0 to 5 lines includes the empty input |
| `threads`, items | 4 items | items before and after the cancelled one on the queue, and one more than main can have in flight; the queue may refuse any of them |
| `harness` | 3 processes; a dozen command lines and environments; texts of up to 6 characters over 4 to 6 kinds | one child that ended, one suspended, one not yet signalled, at the same time; every combination of blank, quote and letter at the beginning, in the middle and at the end |
| `services`, broker | 2 clients of 4 pairs of programs (`MCCasts`), at most 2 calls each, 6 requests of `echoclient` (`MCEchoLines`) besides those of the other programs | two requests of different clients share the buffers in both orders; a command with the right and with a wrong number of arguments, one with its newline, one unknown and too long, a line without words; two channels whose names begin at two places. Each version meets the pairs whose requests it tells apart (`Meets`) |
| `services`, lab 7 | 2 clients, at most 2 lines each | one client dies while the other waits |
| `services`, lab 4; `chldhandler_returns` | 3 children; 1 | two ends in one SIGCHLD and one after it |
| `containers` | 2 values, capacities 0 (default), 1 and 3, a default of 2, at most 4 elements; 4 nodes; 2 priorities, heaps of up to 8, sequence numbers up to 5 in integers up to 7; 3 names in 2 copies (2 names where keys are strings, `StringNames`; in the bag one name with two copies, `EqualNames`, and two with one, `SingleNames`), tables of 1 and 3 growing to at most 4; texts of up to `MAXTEXT` 3 characters, a buffer that grows by `INCREMENT` 1; arrays of up to `MAXLEN` 4 elements to sort | every ring wraps, grows at least twice and grows while wrapped; heaps reach three levels; a resize separates names that shared a bucket and brings others together |

The bounds on calls (`MAXSIZE`, `MAXSEQ`, `HEAPSIZE`, `MAX_CAPACITY`, `MaxLines`,
`MaxCalls`) are guards of the inserting actions and are named in the modules. `INT_MAX` and
`MAXSEQ` together stay in the range in which the comparison of sequence numbers,
a difference of two `long`s truncated to `int`, is exact: 2^31 insertions in the
code. `UNITS` makes the load factor an integer. No symmetry is used, since most
runs check temporal properties.

Fairness says that the scheduler goes on running runnable threads, and no more:

* `DiskDriver`, and the free list in `MCThreads`: weak fairness of each thread's steps
  as a whole. A thread that waits for a contended mutex is not promised to get it
  (that would be strong fairness); the properties hold without. POSIX lets a wait
  return spuriously; it is assumed that it does so finitely often.
* In `DiskDriver` an application's queueing, redeeming and recycling steps are one
  weakly fair unit, and its external steps another, since a program must not
  sleep for ever on a descriptor that stays available.
* `ProdCons`, also in `MCThreads`: both threads run and stdin ends.
* The work queue in `MCThreads`: both threads run, and `random()` selects every item infinitely
  often if main selects infinitely often (strong fairness of `Select(i)`), the
  only strong fairness there is.
* `Harness`, `ChldHandler`, also in `MCServices`: the parent, its handler and each child run; the
  workload programs end. SIGCHLD does not queue, and nothing is assumed about
  when a signal is delivered.
* `MCServices`: main and the thread of the broker, the server and the clients'
  threads of lab 7 run, and a call that can return does. A client need not send a
  request, and neither SIGINT nor a death need come.

Deadlock is checked except where the program may stop: `Harness`, `ChldHandler`
and the services end. `BoundedFreeList`, `WorkQueue` and the producer/consumer in
`MCThreads` have an explicit step for having ended, the last also for a consumer that
hangs (a finding).

## 5. What is proved

TLAPS checks the theorems for every value of the constants that satisfies the
assumptions at the head of the module (positive sizes, disjoint sets of threads;
in the driver nothing relates the numbers of threads, descriptors and vouchers).

**`DiskDriverProofs`**: `TypeOK`, `VoucherConservation`, `DeviceServesOwner`,
`LockExclusion`, `DescriptorExclusive`, `NoOutcomeRedeemed` hold in every reachable
state, from one inductive invariant

    IInv == TypeOK /\ SdInv /\ NoOutcomeRedeemed
            /\ VoucherConservation /\ LockInv /\ DeviceServesOwner /\ Filled

* `VoucherConservation` is inductive by itself once types are known: each step
  moves a voucher between the free queue and one thread.
* `SdInv` says that a thread has a descriptor exactly between getting and
  releasing it, that the store has none of them, and that no two threads have
  the same; `DescriptorExclusive` follows with `DeviceServesOwner`.
* `LockInv` says that whoever is in a critical section of a voucher is named by
  its mutex. `LockExclusion` follows, since a mutex has one name.
* `DeviceServesOwner` is not inductive without `VoucherConservation` (no other
  thread refills a voucher), `Filled` (the contents are right already before the
  voucher is queued) and `NoOutcomeRedeemed` (no voucher is recycled while its
  request is pending).
* `NoOutcomeRedeemed` rests on one fact of arithmetic, that `s > -1 \/ s < 3` is
  true of every integer: lemma `StillWaitingForever`. When the loop of
  `redeem_voucher` is repaired, this conjunct, and with it the proof of
  `DeviceServesOwner`, has to be replaced by an argument about the outcome: that
  a thread leaves the loop only when its request is no longer pending.

**`ThreadsProofs`, free list**: `TypeOK`, `FreeListSound`, `OneHolder` and
`NoLostWakeup`, for any number of threads and tickets, from

    FreeListInv == TypeOK /\ ControlInv /\ OneHolder /\ NoLostWakeup /\ FreeListSound

and that the list implements `TicketPool` (`FreeListImplementsPool`): a get that
unlinks is `Get`, a put is `Put`, and every other step is a stutter. `ControlInv`
ties control to data: the lock is held by whoever is in a critical section, a
thread has a ticket when it is about to return one and none before it got one,
and only a waiting thread is in the wait set. The heart is
`FreeListSound`, whose witness, the sequence of tickets on the list, is shortened
by `UnlinkList` and extended by `LinkList`, two lemmas about pointers alone.

**`ThreadsProofs`, work queue**: `NoUseAfterFree` and `ActiveCounts` for any number of
items, whichever of them the queue refuses. The two are inductive together with types
and two facts more. `Forgotten`: main has no pointer to an item that is cancelled. It
is why main finds a live item behind every pointer it still has, and why the worker may
free. `Creating`: while main creates items there are as many as `active` says, and
the worker, which could find one cancelled, does not exist.

**`ThreadsProofs`, producer/consumer**: `FreedOnce` and `OrderKept` for an input of any length and a
buffer of any size. `Places` says that every line that was read is in exactly one
place: with the producer, in the buffer, with the consumer, or freed. `Control`
adds that the consumer drains only when the producer is done, so that an empty
buffer stays empty. `OrderKept` follows from how a step changes the sequence of
lines on their way (`PassedNext`): the producer appends its line, every other step
leaves the sequence as it is.

**`ProcessesProofs`, `ChldHandler`**: `NeverShort` for any number of children. Main's increment
can overwrite decrements, and `Counted` is what survives: the count is short of the
children that are left by at most the one main is about to count, and the value in
its register is never less than the count.

**`ProcessesProofs`, broker**: `AnswersAreOwn` for any number of clients, any
assignment of the five programs to them and any set of requests. `Transit` says that
a client has one request at the broker while it waits, the last one it sent, and none
while it could send; `Buffer` that `psbv2.c` and `psbv3.c` never leave a 1 in the
buffer that was not earned by a right request. The theorem says nothing of the
requests that `AnswersAreOwn` leaves out, nor of a broker that ended.

**`ProcessesProofs`, callback**: `CallbackFirst` for any number of clients and lines, from
`LastLine`, which follows the last line of a client from the request through the
server's call to the client's thread.

**`HarnessProofs`**: `NoneKilled` and `ElapsedCoversAll` for any number of processes
and any command line, from

    IInv == Types /\ Control /\ Created /\ Harmless /\ OneAtATime /\ Counted

`Harmless` says why no signal kills: in `THv2.c` a SIGUSR1 is pending only where the
handler was installed before the fork, in `THv1.c` there is none. `Counted` is for
the clock of `THv2.c`: the calls of `wait` that are left are at least as many as the
children nobody has waited for; in `THv1.c` that child is one, `OneAtATime`. The
proof takes nothing from what the harness makes of texts.

**`LinesProofs`, `ContainersProofs`**: `LinesAreSound` and `LinesKeepTheirOrder`, for
the three queues, stacks and deques in arrays, the three that are linked, and the
array list; for any capacities, nodes and values, and whichever `malloc` or
`realloc` fails. The inductive invariant is `LinesSound`, the part of
`StructuresSound` that is about them, and needs no strengthening. It says of an array
list that was trimmed when empty that it has no array; the elements of an
`ArrayDeque` are compared, and not the length it tells for them (section 6). The argument has
three layers.

* The data are a sequence: `RingHolds` for the rings (the j-th element is in slot
  `(out + j - 1) % size`), an array filled from its start, `Chained` for the nodes of
  a list, `Doubly` for links in both directions.
* A change of the data is a change of the sequence: `RingAppend`, `RingCons`,
  `RingTail`, `RingFront`, `RingGrow` (a wrapped ring is copied straight),
  `ChainAppend`, `ChainTail`, `DoublyPut`, and so on. These are arithmetic modulo the
  size, or induction along the links.
* A call of a method is such a change: one lemma per method and outcome.

The walk along a list, `Linked!Chain`, is a recursive function whose value the
prover must know for lists of every length. The induction theorems of the library
take an operator as parameter and cannot be used, but an induction over a *set* of
numbers can: `NatLeast` (a set of numbers that is not empty has a least element, from
the well-foundedness of the strict subsets of a finite set) gives `NatInduct`, and
that `ChainIs`, that the walk gives exactly the sequence that follows the links.

`QueueLemmas` has what these need about sequences, rings and chains.

**`KeyedProofs`, `ContainersProofs`, the merge sort**: `SortStays`, that `sort` puts an array of any
length in order, loses nothing and keeps the order of equal elements. `SortDefined`
and `MergeTaken` give the two recursive functions their equations, the first by
induction over the length of a stretch. `TakenCounts` says that after `n` turns of
`merge` the elements come from the first so many of either half, and `MergeInOrder`
that what is placed later is greater: within a half because the half is in order,
across the halves because `merge` takes the left element unless the right one is
less, and of two equal elements the left one stood before. That is why the induction
needs `Stood`: equal elements of the array are in the order of their origin, which
holds of a new array, `sort` keeps, and therefore is the invariant of the client.

**`KeyedProofs`, `ContainersProofs`, the priority queues**: `PrioQueuesAreSound` and
`PrioritiesStay`, the whole of `PrioritiesAreStable`, for any priorities, values and
number of nodes.

On a list the invariant is `ListOK`: the nodes are a chain as in `LinesProofs`, and
their entries are in the order of their priorities. `PlaceIs` says where the search of
`pq_insert` stops: behind the first `k` nodes, for some `k` such that no priority up to
there is greater and all after it are; this is where the order of the list is needed.
`ChainWith` is the chain with a node behind the first `k`, `WithInPriority` that it is
still in order, and `StableQueue!Insert` says the same of the entries.

In a heap the invariant is `HeapOK`, "postcondition: heap(1,last)" of `siftup` with the
sequence numbers: each entry has one of its own, less than the next to be given out.
The loops have the classical invariants: all of the array is in order but for entry
`i` and its parent (`Rising`) or its children (`Sinking`), and the parent of `i` is not
greater than its children (`Bridged`), without which the swap would break the order
one level away. `siftup` and `siftdown` are recursive functions of the number of
turns; that there are fewer turns than entries, so that the last turn found nothing to
do, is part of the induction. The abstract queue is the sequence of the entries in the
order of `realCmp`: `Enumerates(u, h)` says that `u` is it, `RootIsLeast` that it
begins with `heap[1]`, and an insertion and a removal change it as `StableQueue` says.
`realCmp` casts a difference of sequence numbers to `int`, which is right while there
were at most `INT_MAX` insertions in the queue's life; `MAXSEQ \in 0..INT_MAX` is
therefore an assumption, and the code has no other guard either.

**`KeyedProofs`, `ContainersProofs`, the maps and the bag**: `MapsAreSound`,
`MapsStayDictionaries` and `BagsStayMultisets`, for any keys, values, capacities,
load factor and number of nodes, and whichever allocation fails. The invariant is
`MapsSound`, as the run checks it.

In a table it is `TableOK` and `LoadIsSizeByCapacity`: what is in a bucket is hashed
to it, nothing is there twice, and `load`, which each insertion and removal changes
by `1/capacity` and a resize by another amount, is still `size/capacity`. The lemmas
work on the *set* of the entries of all buckets: an insertion adds one (`TableInsert`),
a replacement exchanges one (`TableReplace`), an unlinking takes one away
(`TableUnlink`), a resize changes no entry but all the places (`TableResized`), and
the search of `findEntry` finds the one entry of the name when there is one
(`TableFind`: an equal name is in the bucket it is hashed to). From there
`Dictionary` follows without another look at buckets: `MapWith`, `MapWithout`,
`MapSame`, and `MapLists` for `keyArray` and `entryArray`. The bag does the same with
members and counts.

In a list the invariant is `Ring`: forwards and backwards from the sentinel are the
same nodes in opposite orders, and these are all the nodes there are. A node can be
unlinked from the middle (`RingDrops`), and all of its neighbours' links, of which two
may be the sentinel's, have to be right afterwards.

The maps with string keys own their copies of them. `OwnTable` and `OwnRing` add that
the strings the map has allocated are exactly the keys of its entries; no two entries
share one, so a removal frees the one key that has no entry any more.

**`ContainersProofs`, strings**: `StringsFit`, that a text never outgrows its buffer, for
texts of any length over the characters of the model, any increment and whichever
`realloc` fails. The pieces a client passes (`Passed`) are those of `StringADT`. The
one hard call is `replace`, which computes the new size before it copies: `Grown` says
that the result has grown in proportion to the matches found so far, `NewSizeIsEnough`
that the size computed beforehand, from the length divided by that of the pattern, is
enough for all of them. `BufferOK` excepts the copy of a string with room to spare,
whose `size` is not that of its buffer (section 6): nothing is proved of the room in
that one. Recursive functions over a
text are shown to exist by `FallsExist`, by the same induction over a set of numbers.

**`ContainersProofs`, all structures**: `StructuresStaySound`, the whole invariant
`StructuresSound` of the run, from the four parts above and with their exceptions.

**`ContainersProofs`, iterators**: `IteratorsGiveTheElements`, that `IteratorsGiveAll`
holds whatever is called on the container after the iterator was created, from

    IterInv: the array is the one that `itCreate` made, with its length (`Made`) or,
             of an `ArrayDeque`, with at least that;
             what was given is the first `next` slots of it;
             each pointer of a map's iterator leads to an entry of the map (`Live`)
             or to one that was freed since

It needs the two results before it. That `itCreate` copies as many elements as it says
follows from the soundness of the container at that moment (`CallMakes`, with one lemma
for each of the fourteen). That a pointer which leads nowhere any more is counted as freed
follows from what the call answers: an entry leaves the map only with a call that
names it among what it freed (`CallKeeps`), which is what the refinement of
`Dictionary` says.

**Only model-checked**: all liveness properties (fairness and `ENABLED` are
outside what the prover handles), and

* `StringsAreTexts`, `AnswersAreOfTheText`, `ArgumentsAreWords`,
  `TextsKeepTheirMeaning`: what many recursive functions compute of a text, for
  every text, is an induction over data for each of them. `StringsFit` is that
  induction for the lengths only;
* `RunsAsAsked`: it compares the numbers of the options with what their texts mean,
  which is so for the texts of digits in `MCHarness` and not for every text.

The theorems about `Broker` and `Callback` are about each by itself; `MCServices`
only chooses which of them runs.

## 6. Findings

1. **`redeem_voucher` never returns** (`P2/diskdriver.c:213`): the loop waits
   while `v->status > -1 || v->status < 3`, which every integer satisfies. The
   comment at line 205 says that the caller is blocked until the operation has
   completed. Run `driver_redeem`; theorem `RedeemNeverAnswers`.
2. **The outcome is overwritten** (`P2/diskdriver.c:190`): the second `status++` of
   a queueing call runs without `v_lock` after the voucher has been queued. When
   the worker has finished in the meantime, success 3 becomes 4 and failure -1
   becomes 0; when it finishes between the load and the store, the outcome is
   replaced by 2. The comment at line 30 lists what `status` means. Run
   `driver_outcome`.
3. **The consumer can hang** (`labs/L5/labs6/prodcons.c:80`): it tests `prodDone`
   and then blocks in a read; when the producer finishes in between, nobody writes
   any more, and main's join (line 13: wait for both threads to terminate) never
   returns. Run `prodcons_hang`; one line of input is enough. No line is lost
   by it: `AllPrinted` holds.
4. **A lost wake-up** (`labs/L3/lab4start/chldhandler.c:70`): when the last child ends
   between main's test of `nprocesses` and its `pause()`, both the SIGCHLD and the
   SIGUSR2 sent to wake the pause (line 5) come before the pause begins. Run
   `chldhandler_returns`; one child is enough. The run supposes that the count is
   right: that `nprocesses++` (line 63) can lose the handler's decrement is another
   defect with the same effect, which `NeverShort` leaves room for.
5. **The length of a deque** (`adts/arraydeque.c:219, 229`): `d_toArray` and
   `d_itCreate` take the capacity for the number of elements, although `deque.h:116`
   says that `*len` is the length of the array. Run `containers_deque`.
6. **Trimming an empty list** (`adts/arraylist.c:211`): `realloc` of 0 bytes frees the
   array and answers NULL; the list keeps the freed pointer and its capacity.
   `arraylist.h:141` says that the capacity becomes the size, and knows no failure but
   of `malloc`. Run `containers_storage`, whose property a copied string breaks too:
   it takes over the size of the original but not its buffer (`stringADT.c:84`).
7. **Answers to other requests** (`psbv2.c:95` and its like): a command with a number
   of arguments other than the one tested leaves `response` as it was, and
   `psbv2.c:140, 149` test for Subscribe and Unsubscribe the numbers of the other, so
   that `subscriber.c` is always in that case. `psbv2.c:79-81` asks for a 1 or a 0 in
   front of the query. Run `services_answers`. `psbv3.c:182` adds to it that all
   channels' names point into the buffer of the next request.

Disagreements of code and comments that the text of one line decides, without a run of
their own:

* `THv2.c:97` and `THv1.c:76` promise the words of the command "just as you would
  present it to bash": a command that ends in a blank gets its last character as
  another argument (`THv2.c:264`), and quotes are kept out of words while what follows
  one sticks to the next word. `ArgumentsAreWords` speaks of neither.
* `THv2.c:69` has `dsecs` for the decimal part of the seconds; line 373 packs the
  seconds into the report in its place. `TextsKeepTheirMeaning` leaves the field open.
* `thv4.c:340` says that each process is waited for; 341 waits once. Its handler sends
  SIGUSR2 to whatever child stopped or went on (39-41), which ends a workload that has
  no handler for it. `NoneKilled` and `ElapsedCoversAll` except `thv4.c`.
* `deque.h:102` says that `removeFirst` "returns true if successful, true if the deque
  is empty"; both deques return false then, as `removeLast` is said to, and `Line`
  follows the code.
* `stringADT.h:105` gives one reason for `insert` to return false, a position beyond
  the end; a buffer that cannot grow is another. The header calls `isAlpha`
  alphanumeric; the code asks `isalpha`.

* `psbv2.c:210` says that the broker exits for three reasons only, a failed
  initialization, a file that cannot be opened and SIGINT. A request without words
  (of bars alone, or empty) ends `psbv2.c`, `psbv2_curr.c` and `psbv3.c` (lines 86,
  69, 166: the first word is NULL), and so does one with more words than `words` has
  room for; `HandleCrashes` has both.

Noticed, without a document that says otherwise:

* `THv1.c:323`: after a failed `fork` main pauses until its local `npro` is 0, which
  nothing changes. `TH_NPROCESSES=0` is accepted where `-p 0` is refused.
* `lab8.c:69-75`: an item that `enqueue` refused is counted all the same.
* `sort.c:33` does not look at what `malloc` returns.
* `psbv3.c` sorts an array that was never set (216), appends names to what
  the last answer left, without a limit (219), enqueues no name of the file (342), and
  destroys the queue while the thread runs (372). `psbv2_curr.c:184` reads from no file
  without `-f`. In all four, a start that fails cancels a thread that was never
  created, and the loop that frees the names begins with one that was never set.
* `cbserver.c:39`: a client that dies can end the server by the assertion on
  `bxp_response`; `cbclient.c:45`: the end of input can come before the thread has
  printed the last line.

## 7. What is not modelled

* **BXP, the bounded buffer, the device, the descriptor store**: external, and
  present in the models of the programs that use them by what these rely on.
* **The subscriber's thread for messages** and its SIGINT during the first call: no
  version of the broker ever sends a message, and what `bxp_call` inside `bxp_call`
  does, only the library could tell.
* **The simple file system**: `sf_init`, without which nothing else can run,
  dereferences the pointer `head` (`simplefs.c:133`) before anything is assigned to
  it, and most operations are empty in this commit.
* **Sizes of buffers**: 4096 characters in the harness, which 99 processes fill with
  their report, 25 words in a request, the clients' answers.
* **`P2startINTEL/diskdriver.c`**: an earlier copy of the driver whose
  `voucherRecyle` also broadcasts. **`freelist.c`, `freelistBounded.c`**: earlier stages of the free list.
* **Workloads, formatting, lab exercises** without shared state.
* **`ArrayList` positions below zero**: outside the documented use. **Calls that use the
  freed array** of a list that was trimmed when empty: undefined in C; the model's
  calls need an array where the code goes to it.

## 8. Plan

Done: every concurrent program of the repository is modelled and checked, and its
safety properties are proved but for what the harness makes of texts; the container
library is checked against its abstractions, with iterators, strings and merge
sort; queues, stacks, deques, lists, priority queues, maps and the bag are proved to
implement theirs, all structures to stay sound, iterators to give what they were made
with, and the sort to be stable.

Left, in this order:

1. What the functions of `stringADT.c` compute (`StringsAreTexts`, `AnswersAreOfTheText`),
   with the lemmas of `StringsFit` as a beginning.
2. The same for the words, numbers and report of the harness.
3. The file system's free-block list, when `sf_init` can run.
