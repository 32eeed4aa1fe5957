# CCC: a TLA+ model of the runtime and of what is built on it

CCC compiles the Clipper dialect to C++ and runs the result on a
multi-threaded runtime with a garbage collector.  This directory holds TLA+
modules for the parts of it in which the order of events matters, TLC
configurations that check them on small instances, and theorems about them
that TLAPS checks for every instance.  Paths are relative to the root of the
repository.

## The system

| component | state it keeps | operations | what is hard | what makes it correct |
|---|---|---|---|---|
| memory tables and collector cycle (`ccclib/src/variable.cpp`, `usr/include/varsync.h`) | the oref and vref tables, the free list through them, `ofree`, `gc_count` | `oref_new`, `vref_new`, the collector thread, `__gc` | takers and sweep work on one list under different locks; signals are sent without the mutex of the condition, by try-lock | no slot is lost, doubled or freed in use; a starving thread gets a slot or the program is aborted with reason |
| marking (`variable.cpp`, `push.cpp`, `array.cpp`) | colors, the mark stack, `mark_phase` | shade, `mark`, `mark_lk`, the barriers, the operations that move values | threads are never stopped, only kept from taking locks; with `CCC_MARKSYNC=enabled` they run while objects are marked | what a stack reaches is not freed |
| striped locks (`usr/include/varlock.h`) | 42 mutexes for values, as many for marking, 12 for the sweep | lock one, two, one more, or all of them | lock order; a captured variable has two mutexes | references are read whole, nobody waits in a circle, what the scan relies on does not change |
| thread pool (`ccctools/build/threadpool.prg`) | job queue, number of active threads, list of threads | `addjob`, `wait`, `wait_job`, `wait_act`, `exit`, `addthread` | four mutexes, three conditions shared by threads with different aims | `wait` returns when everything is done; every job is run once |
| exceptions (`ccclib/src/break.cpp`, `ccctools/ppo2cpp/codegen.cpp`) | jump records, the stack of recover types, stack and trace positions | begin, break, recover, finally, and return, loop, exit out of a sequence | generated code counts at compile time what the runtime keeps on stacks; breaks in recovers and finallys | control arrives where the language says, every finally runs once, the stacks are restored |
| B-tree files (`tabobj/tbbtbtx/btree`) | pages, chains and free lists, the table of orders, a cursor | put, delete, search, step, add and drop an order | splits, pages that leave the tree and come back elsewhere, a cursor on them | an order is a set of keys, no page is lost |
| record locks, table modification (`tabobj/tbbtbtx/db*.prg`) | the file, record locks, per process a position, a record buffer and flags | seek, goto, lock, unlock, write a field, commit, append, insert, delete | other processes between two steps; kill | no lost update, index and records agree |
| transactions (`tabobj/common.src/transact.prg`) | pending updates, nesting positions, locks of the transaction | begin, commit, rollback, synchronise, delete on rollback | holes in the list of updates, old keys, locks by position in a list | reads see the own updates, a rollback restores, a commit keeps what was seen |
| XML-RPC wrapper and library (`tools/xmlrpc-framework/server/rpcwrapper`, `tools/xmlrpc`) | connections, queued calls, servers and the client each works for | accept, register, forward, answer, close, time out | either side may end at any time, or call again | every call is answered once, by its answer or an error |
| threads (`ccclib/src/thread.cpp`) | the list of `thread_data`, Prg-level mutexes and conditions | `thread_create`, mutex and cond functions, fork | start handshake, fork with other threads | arguments arrive, no thread data is lost |
| build tool (`ccctools/build`) | dependency graph, file times | scan, compare, run jobs on the thread pool | jobs in parallel | rounds do not overlap |
| XML-RPC sessions (`tools/xmlrpc-framework/server/rpcsession`) | a list of sessions | login, validate, logout | serves one call at a time | a session is valid until it ends |
| preprocessor and compiler (`ccctools/prg2ppo`, `ppo2cpp`) | rules, syntax trees | preprocess, parse, generate | sequential, data-heavy | the text generated |
| object system, library, screen (`ccclib`) | class tables, files, screen buffer | method calls, strings, numbers, files, drawing | sequential, or I/O | results |
| terminals (`terminal`, `jt`) | screens, sockets | draw, key input | I/O | protocol |

`setup/` is generated C++ for the bootstrap and vendored flex and lemon;
`tutor/` holds samples.

The components meet in the runtime: compiled code calls the stack operations
(`push.cpp`), these take the striped locks and run the write barrier, objects
are made by `oref_new`, whose table the collector thread sweeps after it has
marked from the stacks.  Prg code runs on top of it.  The thread pool uses
Prg-level mutexes.  A table object (`Table`) keeps its orders in a B-tree file
(`Btree`), whose header lock makes a commit one step for other processes; a
transaction (`Transaction`) stands between the two, so that a commit of a
record goes to the list of pending updates instead.  The wrapper and its
servers are programs with sockets.  Any of these may break out of any depth
(`Sequence`).

## Modules

| module | models |
|---|---|
| `VarTab` | one table (oref or vref), free list, collector cycle, signals |
| `VarTabProofs` | types, no live slot freed, freshness; the counter agrees with the list, an abort has a reason, the list stays whole |
| `Mark` | shading, mark stack, barriers, and the program beside the collector |
| `MarkProofs` | types; in both modes, no live object freed, nothing left unvisited |
| `ValueLock` | the mutexes and the two words of a value, as instruction sequences, in the build of the repository |
| `ValueLockProofs` | types, order of the mutexes, no circle of waiting, frozen scan, whole references |
| `ThreadPool` | the thread pool of the build tool |
| `ThreadPoolProofs` | types, soundness of `wait`, jobs neither lost nor doubled |
| `KeySet` | abstract: orders as sets of keys, a cursor that steps to the next key |
| `Btree` | the pages and lists of an index file; implements `KeySet` |
| `Table` | a table shared by processes that lock, write, append, insert, delete, die |
| `TableProofs` | index and records agree, no lost update, commits find their keys, writes under locks |
| `Transaction` | nested transactions of one process beside others |
| `TransactionProofs` | types, index and notes on keys agree, own updates are read, a commit keeps what was seen |
| `RpcWrapper` | the wrapper with the programs on either side |
| `RpcWrapperProofs` | a call is in one place, answers match, busy servers work |
| `Unwinding` | where a break, return, loop or exit ends and stops, from the nesting alone |
| `Exceptions` | abstract: control leaves sequences by way of their finallys |
| `Sequence` | jump records, recover types, compile-time counters; implements `Exceptions` |
| `SequenceProofs` | slots, records, stack and trace follow the nesting of the program |
| `MC...` | instances of these for TLC |

### VarTab

A slot is free (its `link` names the next free slot), in use (`link=-1`) or the
dummy at the tail of the list.  `onext`, `olast` and the unsigned counter
`ofree` (`% WORD` in the model) are as in the code.  A thread of the program is
somewhere in `oref_new`, `vref_new` or `__gc` (`pc`), or runs: then it drops
references (`pop`) and copies them from thread to thread (`PUSH`).  The
collector waits, marks under all locks and sweeps slot by slot; each
assignment to a shared variable of the sweep that other threads can see is a
step of its own.  `MarkScan` colors what a stack reaches at that moment: this
module takes the marking for granted, `Mark` is about it.

### Mark

Objects hold sets of nodes, vrefs one value, strings nothing; colors are
relative to `gc_count`, so `Start` turns black into white.  Each operation of
the program is one step where it runs under a lock that the marking takes, too
(`Unlocked`), and several steps where it does not (`aadd`, the return through
`*base=*TOP()`, `push_symbol_ref`, `blkenv`).  That an operation under an
assign lock may be taken for one step rests on `ValueLock`'s `ScanFrozen`: while
the collector scans, variables, the values of vrefs and the elements of the
object it visits do not change.  The threads are not stopped: `pop`, numbers and
NIL on top of a stack, the mark-locked array functions and `blkenv` take no assign
lock and go on during the scan, as in the code (the comment `variable.cpp:431`,
by which `CCC_MARKSYNC=enabled` lets the threads run, is about those that need an
assign lock).

### ValueLock

Every thread executes a sequence of instructions: lock, free, unlock; copy the
type, copy the data of a value (`type`, `data`), or write one of them without
reading any (`put`: `PUSHNIL`, numbers, `blkenv`, the new NIL of `ains`).  At some
points the rest of the sequence depends on what is found: `test` reads the type of a
variable and `follow` its reference (`push_symbol`, `assign`,
`vartab_shade_lk`, `vartab_shade`), `capture` looks whether the top of the stack
is a reference already, `take` takes a slot of the vref table (or waits), `scan` and
`visit` choose a value the collector shades.  The operators have the names of the
functions they stand for; `Stripe` is the hash of the address.

The module is the build of the repository: `FINE_GRAINED_LOCK` is defined in
`variable.cpp` and not where `push.cpp` is compiled, so `push_symbol` and
`assign` have no second mutex.  Elements are moved by `aadd`, `ains`,
`adel` and `asort` under the mark mutex of their array, while `idxr` and
attributes use their value mutexes; a thread writes the top of its stack without a
mutex, except where it copies a value.  One value stands for the stack of a thread,
which is all an operation has in common with the collector.

### ThreadPool

`owner` and `waiting` are the four mutexes and three conditions.  A critical
section that takes no other mutex is one step; the others (`slpmutx` and
`jobmutx` in the worker, `actmutx` in `wait`, `thrmutx` in `exit`) are spread
over several.  `thread_cond_signal` is a broadcast (`thread.cpp`), and any
wait may end spuriously.  The job a worker runs may itself add jobs.

### Btree and KeySet

A call of `bt_*.cpp` is one step, because it holds the lock of page 0 and reads
its pages anew (`mpool.cpp` keeps none between calls).  Inside the step the
operators do what the functions do: `search`, `put` with its splits up to a new
root, `delete` with the pages that become empty, `newx` and `new` with the three
sources of a page.  The cursor is a page, an index and the key; `NextPos` and
`PrevPos` look whether the key is still there and search for it otherwise, as
`bt_seq.cpp` does.  Keys are numbers of one size, so a page holds `Cap` entries.

`Abs == INSTANCE KeySet` maps an order to the set of keys in its leaves and the
cursor to its key.  `ImplementsKeySet` is the refinement; `CallsImplement` says
in addition which abstract call each concrete one implements.

### Table

Every process has a table object: position, buffer, `TAB_MODIF`, `TAB_MODIFKEY`,
`TAB_MODIFAPP` and the old key of the index (`curkey`, that is `IND_CURKEY`).
The file is records, the orders `recno` and `deleted` and one index, which are
sets of keys here, as `Btree` shows.  A commit (`Written`) is one step since it
runs with the header locked and signals disabled; every call begins with one.
`tabAppend` with undelete and `tabInsert` are taken apart at the places where
another process can come in between: choose a deleted record, lock it, take it
out of `deleted`; seek, append, commit, seek again, delete again.  `Crash`
drops the locks of a process at any point between two steps.  `Reusers` are the
processes that use deleted records again.

### Transaction

One process with its table object, the list of pending updates and the positions
at which the levels begin; other processes lock, change and delete the records
that are free.  A commit of a record appends to the list, reading shows the last
update of the record.  `tranSynchronizeRecord` writes the updates of one record
and leaves holes.  The outermost commit is a step per update, so others are seen
in between.  `hist` keeps what the properties speak about (what the process saw at the begin
of each level, the locks held before); no action reads it.

### RpcWrapper

`wrap.link` has the connections with the messages under way in both directions,
`wrap.con` the list of the wrapper's connection objects, `wrap.queue` the calls
that wait for a server.  `Accept`, `Read`, `ReadFails` and `Idle` are what the
select loop does with a connection; `forwardCall`, `forwardAnswer`, `destruct`,
`FailQueued`, `findsrv`, `down` are the methods of the same or a similar name.
The programs run the library: a client connects where it has no usable socket,
writes, waits and reads everything there is, of which it takes the first
message; a server registers, takes a call, may call another module, answers.  A
program that dies closes its sockets.  Clients may give up (`Timeout`), be
disconnected (`Idle`) or speak HTTP/1.0 (`Old`), where the wrapper closes after
the answer.

### Sequence, Exceptions and Unwinding

`Sequence` has two kinds of state, which the code keeps apart as well.  What the
program does is `frames`: functions, loops and sequences with the part that runs
(expressions of the recovers, body, recover, finally).  What the runtime knows of
it is the jump records, the slots of recover types and the stacks; it does not
know the nesting.  `break` is `_clp_break`: search the slots, find the
record, look for an END, jump.  The generated code contributes the counters
`RetDepth` and `LoopDepth` and what follows a finally (`Dispatch`).

`Exceptions` has only the nesting.  Leaving is an outcome, computed when it begins
(`Break`, `Return`, `Jump` of `Unwinding`), and `Arrive` says where control
is next: in the innermost finally on the way, or at the end.  `ImplementsExceptions`
maps the jump value on which a finally continues to the outcome it stands for.

## Runs

| run | instance | shows |
|---|---|---|
| `vartab_oref` | 2 threads, 3 slots, collector | types, free list, no live slot freed, no abort without reason |
| `vartab_vref` | 2 threads, 2 slots, `vref_new`'s late count, fair | the counter agrees with the list; a starving thread is served or the program aborted |
| `mark_all` | 1 thread, `CCC_MARKSYNC` on, all operations but `aadd` | what the barrier pushes beside and after `mark_lk` is visited before the sweep |
| `mark_sync` | 2 threads, `CCC_MARKSYNC` on, without `blkenv` and loads from vrefs | the barriers suffice, stacks are scanned one after the other |
| `vlock_locks` | 2 threads, a variable, 2 elements of an array, a vref, mutex 0 and 2 stripes, `CCC_MARKSYNC` on, without `push`, `assign2`, `asort` | order of the mutexes, no circle of waiting, whole references, frozen scan |
| `pool` | 2 workers, 1 client, 2 jobs, all methods, fair | `wait` means done, jobs accounted for, jobs are run, calls return |
| `btree` | 4 uses of a file with 2 orders, 3 entries per page, up to 8 pages | ordered, levels chained, no page lost, refinement of `KeySet` call by call |
| `table` | 2 processes, 3 uses of a file of up to 3 records | index and records agree, locked is fresh, commits find their keys, writes under the lock only |
| `transaction` | 8 programs, 2 records, 2 levels, up to 3 pending updates | the notes on keys hold, reads see own updates, rollback, commit and locks are exact |
| `rpc` | 2 clients, 2 servers, 5 uses with deaths, timeouts, shutdowns, nested calls, fair | a call is in one place, answers match, busy servers work, calls end |
| `sequence` | 3 programs, 3 types of exceptions, 6 begin statements, 5 frames | slots and stacks exact, refinement of `Exceptions` |
| `sequence_reject` (violated) | a rejecting break block between a finally and a recover | a sequence that has rejected an exception catches it |

A violated run states what a comment of the repository says; `PROJECT.json`
quotes it.  A run whose module has `Uses` chooses one of them at the start, so
that one run has several instances whose operations do not multiply each other.

Every property of a passing run has a mutant in `PROJECT.json`: a definition
changed as a bug in the code would change it (the definition just before it in
the module), with which TLC finds the property violated.

### Bounds

- `VarTab`: three slots are the dummy, one that is free and one in use, the
  least with which the head and the tail of the list can meet, cross and
  separate (two are enough for a table that runs empty); two threads can race for
  a slot and with the sweep.  `WORD` bounds the counter so that it wraps within
  reach.
- `Mark`: the stack depth (`DEPTH`) and the number of nodes bound the heap.
  Two objects and a vref are enough for an object that hides another one, and for
  indirection.  `mark_all` has one thread, which is enough for the barrier to
  push an object between the end of `mark_lk` and the relock, since loads from
  vrefs and `blkenv` bring it white values; `aadd` is in `mark_sync`.  Both runs
  have `CCC_MARKSYNC=enabled`: without it the barrier is off and the marking is one
  block under locks; that mode is covered by the theorems, which are about both.
- `ValueLock`: two stripes beside mutex 0 give every order of two addresses,
  equal ones included: the variable and its vref have different ones, the vref the
  smaller.  Every thread begins one operation after the other for ever, so
  operations follow and overlap in all ways.  A vref is reached through the
  variable and directly (`push_blkenv`), which is where its own mutex matters.
  The two elements share an array and have different mutexes.  With one vref,
  taking one while it is in use waits, and a captured variable that was assigned by
  `operator=` frees it.  One type beside `ref` and one datum beside the address of the
  vref suffice, as the properties ask whether a word is a reference.  `push` and
  `assign2` are not among the operations of the run, they take the steps of
  `push_blkenv` and `method`; `asort` is not for finding 13.
- `ThreadPool`: `MaxJobs` jobs, `MaxNil` NILs in the queue at a time.  A
  worker asleep on the queue, one at work that adds a job, and a client that waits
  for the queue to shorten are all that share a condition.  After `exit` has
  dismissed every worker nothing is promised (`Deserted`).
- `Btree`: six keys in pages of three give three levels; the other uses have
  two orders and a data page take pages from each other, where either may split,
  and a cursor over keys that come and go.
- `Table`: three records allow one from the start, one appended and one taken
  over; two processes, of which one can be killed.
- `Transaction`: two records and two levels, three updates: the least for a hole
  between two updates of other records, and for an update forgotten with its
  level after another one of the same record.
- `RpcWrapper`: `MaxLink` connections in all, one or two calls a client.  Two
  clients for one server queue; two servers of one module or of two cover
  takeover and nesting.
- `Sequence`: five frames hold two nested sequences with a call or a loop
  around, between and inside them.  `View` drops what lies above the tops of
  the two stacks where it is never read.

### Disciplines

Some modules take parameters for what a program may do, and the runs leave out
what the code cannot stand; each is a fact about the code, listed with the others
under "What the checks found".

- `Table`: a program looks at `tabDeleted` after it has locked a record, and ends
  when an error is raised (`Recovers = FALSE`).
- `Transaction`: `free`, not `freeany`: with `tranSynchronizeRecord(.t.)` a program
  gives back only locks taken in the transaction, of records not inserted in it.
- `RpcWrapper`: `late = FALSE`, a module is not called while a server registers
  for it; a client closes its connection after a timeout.
- `Sequence`: `calls = FALSE`, the expression of a recover calls no function with
  a sequence; `leaks = FALSE`, a finally that ends a break or a return is not left
  by loop or exit; blocks that reject and finallys do not occur in one program.

### Fairness

- `VarTab`: threads and collector go on.  `MarkLock` and the signal of a forced
  gc are strongly fair, since the holders of these mutexes spend most of their
  time in a timed wait.  `RetryBeatsTimeout` says that of the retries of a
  thread that starves for good one after the other finds the collector
  waiting: a starving thread retries every 100 ms, the collector's wait lasts
  30 s.  No signal is assumed to arrive.
- `ThreadPool`: strong fairness for every worker and for a client inside a
  call, since a thread whose mutex is taken and released again and again gets
  it some time (Linux mutexes promise no more than that in practice); no client
  need call, no job need add another, and no spurious wake-up is relied on.
- `RpcWrapper`: weak fairness only.  The wrapper serves every connection that is
  readable, since it goes through all that `select` returned before it selects
  again; programs that wait read, servers go on with what they have.  No program
  need call, die or give up, no timeout and no idle wrapper is relied on.

`Btree`, `Table`, `Transaction` and `Sequence` are about safety: their programs
may stop at any time.

## Proofs

`VarTabProofs`, for any number of threads and slots and any counter width:

- `TypeCorrect`: `[]TypeOK`.
- `LiveStaysInUse`: `[]LiveNotFree`.  The argument is that a slot some stack
  reaches is black once its stack was scanned and stays in use until the next
  cycle, and that the sweep frees what is white only.
- `AllocationIsFresh`: `[]NewIsFresh`, from the table lock: between taking the
  lock and unlinking the head nobody else can take it.
- `CounterAgrees`: `[]Accounting`.  `ofree` is decremented by a thread some time
  after it took the slot, in `vref_new` under another lock than the one it was taken
  with, and incremented by the sweep after it appended one.  The invariant
  (`CountInv`) is that `ofree` is the `Balance` of free slots, takers and the slot
  just appended, or `WORD - 1` where that is -1.  It needs that the takers have different
  slots, none of them free (`HeldInv`: a thread holds on to the slot it took until it
  returns), since only then free slots and takers together are at most
  `SIZE - 1` (`TakersBound`) and the counter wraps in no other place.
- `OverflowIsJustified`: `[]OverflowJustified`, from `KeptInv`: as long as the sweep has
  freed nothing, every slot it has passed is free or black.
- `ListStaysWhole`: `[]FreeListWhole`.  The invariant (`ChainInv`) is that there is a chain
  from `onext` to `olast` along the links that meets no slot twice and passes
  exactly the free ones.  Taking the head shortens it (`UnlinkChain`); the three assignments
  of the sweep extend it (`LinkChain`, `LastChain`).  `FreeListWhole` speaks of the
  recursive function `Walk`; that the chain is that walk (`WalkUnique`) is shown from the least
  place at which two walks would differ.

`MarkProofs`: `TypeCorrect`, for both modes and all operations.  Further, for both modes, as
long as the program keeps to the loads that the barrier covers (`LoadsShaded`: `blkenv` is not used, and with
`CCC_MARKSYNC=enabled` nothing is pushed out of a vref; both conditions are needed,
findings 10 and 11):

- `LiveIsKept`: `[]LiveKept`.
- `AllVisited`: `[]NoGrayLeft`.
- `BarredVisited`: `[]NoGrayLeft` under another condition, that the program does not
  use `aadd`; what it loads does not matter.  The invariant, `Barred`, is that whatever is
  gray is on the mark stack and nothing becomes gray once the locks are held again:
  the barrier looks at `mark_phase` and shades within one assign lock.
- `NoBlackToWhite`: `[]TriColor`.

`LiveKept` is about reachability, which is no inductive property.  The
inductive invariant `Safe` (`SafeAlways`) has ten parts: `Typed` (the types, and
vrefs do not hold vrefs), `Phases` (the barrier is on exactly while the marking runs
without the locks, and one object is visited at a time), `StacksInUse` and
`HeapInUse` (what a stack or a node in use holds is in use), `IdleBlack` (between two
cycles everything in use is black), `GrayStacked` (gray nodes are on the
mark stack), `NoneVisited` (nothing has been visited during the scan),
`BlackClosed` (what a black object holds is not white, except the rest of the
object being visited), `Scanned` (what scanned threads hold is not white) and
`StacksMarked` (no stack holds anything white from the end of the scan to
the sweep).

`Scanned` is the hard one without the concurrent phase: threads push no object
during the scan, since that takes an assign lock, so their stacks only shrink or
exchange values that are shaded.  `StacksMarked` is the hard one with it: threads load
and store beside `mark_lk`, and what they load is not white because the load
shades it (`array_index`, `assign`), or because it comes from their own stack.  `IdleBlack` is needed for
`aadd`, which shades its element after it has let go of the array: when the cycle has
ended in between, the late shade must not put anything on the mark stack.  With
these the sweep, which frees white nodes, frees nothing that a node kept or
a stack holds, and reachability follows because the set of nodes in use is
closed.

`ValueLockProofs`, for any number of threads, variables, elements and vrefs, any
`PRIME` and any hash (`Stripe`), with and without `CCC_MARKSYNC`:

- `TypeCorrect`: `[]TypeOK`.
- `ReferencesWhole`: `[]RefsWhole`.  The address in a captured variable is followed
  after its type has been read, and another thread may have written only one of the two.
- `ZeroIsHeld`: `[]ZeroHeld`.
- `NoCircleWaits`: `[]NoDeadlock`, unless the program sorts with a block (finding 13).
- `ScanIsFrozen`: `ScanFrozen`.

The state is the code every thread has still to execute.  The invariant
(`DisciplineKept`, `[]LInv`) checks that code against a monitor, one for each thread.
Its state (`States`) is the set of mutexes held, the reference written half and what is
known of the values read: that the top of the stack is no reference, which variables
are references.  `Leads` says which instruction the discipline allows in which
state (`MayLock`, `MayWrite`, `MayRead`, `MayMove`, `MayTest`, `MayFollow`),
`Runs` that a sequence leads from one state to another.  There is a lemma for each
operation, that it leads from nothing held to nothing held, composed as the operators
are composed of each other.  `LInv` says that for each thread there is a state of its
monitor that is true (it holds what the monitor says, and the values are as known) and
from which the code left leads to nothing held; executing an instruction is one step of the
monitor, and what the monitors of the others know stays true because they hold the
mutexes of what they know.

References are whole because every reference in a variable is written under
the value mutex of the variable, and one on a stack under a value mutex or, by
`vref_new`, under the lock of the table of vrefs, which the collector has while it
scans.  The scan is frozen because whoever writes a variable holds its value mutex, a vref's
value is written under a value mutex or the lock of the table, and an element
under its value mutex or the mark mutex of its array.

The argument against circles: in a circle somebody holds something, so somebody holds
mutex 0 (who holds anything else waits for mutex 0 or holds it); the mutex that one waits for is a
value mutex, held by a thread without mutex 0, which can only be the collector; but
the collector has value mutexes only together with mutex 0.

`ThreadPoolProofs`, for any finite set of workers, any clients, limits and
number of jobs, and whatever methods they call:

- `TypeCorrect`: `[]TypeOK`.
- `WaitSound`: `[]WaitMeansDone`.  `wait` looks at the number of active threads
  under one mutex and at the queue under another, and a job is in neither for a while.
  The inductive invariant `IInv` says that `active` is the number of the workers
  between `Count` and `Finish` (`CountInv`), that a worker counts itself while the
  job is still in the queue and `jobmutx` is held (`LockInv`, `WorkInv`), that
  nobody is active as long as a caller of `wait` holds `actmutx` (`IdleInv`:
  `Count` and `Finish` need that mutex), and that an added job is queued, with a
  counted worker, or done (`JobInv`).  Then an empty queue seen with `actmutx`
  held leaves only "done".
- `JobsInOnePlace`: `[]JobsAccounted`, from `IInv` and `ApartInv`: the number of a
  job that is added is new, and `Take`, under `jobmutx`, moves the first element
  of the queue.

`TableProofs`, for any number of processes, keys and records, whatever the programs
do and wherever they are killed, as long as they end at an error (`Recovers = FALSE`,
the condition of each of its theorems):

- `TypeCorrect`: `[]TypeOK`.
- `IndexStays`: `[]IndexMatches`, `NoLostUpdate`: `[]LockedIsFresh`,
  `CommitCompletes`: `[]CommitFindsKeys`, `UnderLock`: `WrittenUnderLock`.

None of these is inductive alone: that a commit leaves index and records in
agreement needs the old key the object has noted, which needs that nobody else
has written the record since.  The invariant `IInv` says of every process what it
knows of the file (`Knows`): an object with something to commit stands on a record
it has the lock of and has noted its key there (`Noted`), one without it that has
the lock has the record as it is, and between the steps of `tabAppend` and
`tabInsert` it knows which record is its own.  All this is about records the process
has the lock of.  So a step of `p` is shown to change only such records, locks
and objects as are its own, or new (`Step`), and from that alone follows that what
the others know stays true (`KnowsStays`, `StepKeeps`).  There is one lemma
for each kind of operation that it makes such a `Step`, over lemmas about commit
(`Writes`, `Commit`) and movement (`Movement`).

`TransactionProofs`, for any keys, any number of records, levels and pending updates,
whatever the program calls (`freeany` included) and whatever other processes do:

- `TransactionType`: `[]TypeOK`.
- `IndexAlwaysMatches`: `[]IndexMatches`, `UpdatesFindKeys`: `[]CommitFindsKeys`,
  `OwnUpdatesRead`: `[]ReadsOwnUpdates`, `CommitKeepsTheView`: `CommitKeepsView`.

The invariant (`TransactionInductive`, `[]IInv`) is about the updates that are still to be
written.  They are a chain: each one follows the last one of its record before it, or the
record of the file where there is none (`Chain`, `Continues`, `Follows`), and what the
process sees of a record is the end of its chain (`Shows`).  An object with something to
commit is the next link, and one without is what is seen (`TabSound`).  The code
does to a chain one of four things: it adds to the end (`ChainAppend`), cuts the end off (a
rollback, `ChainPrefix`), takes the first update of a record out and writes it to the file (the
outermost commit and, with a hole left in its place, `tranSynchronizeRecord`: `ChainWrite`), or
changes the file elsewhere (`ChainElsewhere`).  Writing one out leaves what is seen
(`ShowsWrite`), and this gives `CommitKeepsView`: in the middle of a commit the rest of the
updates over the file still shows the records as they were seen when it was called
(`SavesHold`).  `Sound`, the part of the invariant without the levels, is a property of the
state between two operators of the model, for a given set of records others have locked:
`tabInsert` goes through up to ten of them in one step, so there is a lemma for each operator, that
what it returns is `Sound` and how many updates it adds, and one for each action.

`RpcWrapperProofs`, for any number of clients, servers, modules, connections and calls,
whoever dies, gives up, is disconnected or shut down:

- `EveryCallInOnePlace`: `[]CallInOnePlace`, `EveryAnswerMatches`: `[]AnswersMatch`,
  `EveryBusyServerWorks`: `[]BusyServersWork`.

Their condition is `Disciplined`, the two disciplines above: no use has `late` or goes on with
a connection after a timeout.  The three are shown from one invariant, `Inv`.  It says of
every connection what may be on its way on it (`Ups`, `Downs`), of a call the wrapper or a server
has that it is nowhere else (`Holding`), of a message that it belongs to the call its client waits
for (`Matches`), of a waiting program that its call is somewhere (`Callers`), and of a server where
it is between its registration and its next answer (`Registers`, `Serves`).  That a server which
registers is not sent a request needs that nobody calls its module by then (`NoCalls`): this is
where `late = FALSE` is used.

One round of the wrapper moves several calls: an answer goes to its client, whose
connection may be closed with it, which may end a server, whose calls fail with those queued for its
module, and the server that has become free takes the next call.  Between these the calls
are in no place that can be seen.  The invariant therefore has a parameter `X`, the clients
whose calls are in the hands of the wrapper; it is empty between two steps.  There are small
operations, each with a lemma that `Good` is kept while a call goes into or out of `X`
(`TakeUp`, `TakeAnswer`, `Give`, `Assign`, `Dequeue`, `Enqueue`, `Shut`), and
`destruct`, `FailQueued`, `TakeNext`, `forwardCall` and `forwardAnswer` are composed of
them.  `FailQueued` is a fold from the end of the queue; since an induction over it would need a
property as a parameter, that the function behind the fold exists (`FoldExists`) and that every
step of it keeps the invariant (`FailAll`) are shown from the least place at which they could
fail.

`SequenceProofs`, for any exceptions, classes and begin statements, any depth of the program,
break blocks that reject and finallys together:

- `SlotsAreExact`: `[]SlotsExact`, `StackIsExact`: `[]StackExact`.

Their condition is `Disciplined`: no program has `calls` or `leaks` (findings 2 and 3).  Both
properties relate what the runtime keeps to the nesting of the program, and neither is
inductive.  The invariant (`SequenceInductive`, `[]IInv`) has these parts.  Each record says how
many cells the frames below its sequence have on the stack and how many of them are calls
(`RecordSound`), so what a jump restores is what the frame it goes to expects.  The records are
those of the sequences in a body or a recover, in the order of the frames; the slots of each
begin where those below end and are the ones of its text (`Records`).  Then the record `break`
finds is that of the sequence the recover belongs to, or of one above it that has a finally
(`Found`, `Between`, `Recovering`).  A sequence about to begin has its record and the slots
written so far above the tops (`Prepared`).  The jump on which a finally goes on is possible
where it stands (`Goes`): for a return there is a function below it, for a loop or an exit a
loop with nothing between that is still on the stack, which is where `leaks = FALSE` is needed.
A step cuts frames off and changes the one it stops at: `Below` says that the records of the
frames that stay are kept, and `Landed`, `Recorded`, `Dropped` and `Pushed` are the four ways to
end.  The end of a finally may do any of these, so `BreakExact`, `ReturnExact` and `JumpExact`
are about operators, and the lemmas for the actions (`...Step`) cite them.

The assumptions are the named `ASSUME`s of `VarTab`, `Mark`, `ValueLock`,
`ThreadPool`, `Table`, `Transaction`, `RpcWrapper` (a program calls or serves, NIL is no
message) and `Sequence` (END is no type of exceptions, a program has the statements and
exceptions of the module); TLC evaluates them in every run.  Where a theorem has a condition
of its own (`LoadsShaded`, no `aadd`, no `asort`, `Recovers = FALSE`, `Disciplined`), a finding
below shows that it is false without.

Model-checked only:

- `Btree` with its refinement.  Its operators are selections from sequences and walks over
  chains of pages of any length, so the lemmas about them are inductions over data, which the
  installed provers cannot instantiate.
- The refinement of `Exceptions` by `Sequence`.  It holds only where break blocks that reject
  and finallys do not meet (finding 1), and what `break` finds in the slots must be shown to be
  what the nesting says: the position of the slot in the text, not only the sequence it is of.
- `RollbackRestores` and `LocksExact` of `Transaction`.  Both are false for some uses
  (findings 5 and 7), so they need invariants about these: what the records were at each
  level, and the place from which the locks are the transaction's.
- All liveness properties, `CallsEnd` of `RpcWrapper` among them, which TLAPS does not prove.

## What the checks found

The runs above keep to what holds; where the code has an exception, the
instance that shows it is named here.

1. A `BEGIN SEQUENCE` between a finally and the sequence that catches an exception
   may catch it although its break block has just rejected it, since after the
   finally `_clp_break0` searches again and asks no break blocks
   (`codegen.cpp:2113`, against the comment `break.cpp:88-90`).  Run
   `sequence_reject`.
2. The expression of a recover is evaluated when the slots below it are written
   and the tops not yet moved: a sequence in a function it calls overwrites them and
   the jump record (`codegen.cpp:2020`).  `MCExpression` violates `SlotsExact`.
3. Loop and exit in a finally that ends a break or a return leave the exception or
   the value on the stack (`codegen.cpp:2247`).  `MCLeaks` violates `StackExact`.
4. Two processes may both insert a key with `tabInsert`, since the record
   appended first may be committed last; the comment `dbmodif.prg:491-493` says that a
   record that is not unique is deleted again.  `MCInsert` violates `UniqueInsert`.
5. In a transaction a record that `tabInsert` withdraws is deleted by a pending
   update, and what is synchronised is the record the object has moved to: after a
   rollback the doubled key is in the table (`dbmodif.prg:530-531`).
   `MCWithdrawn` violates `RollbackRestores`.
6. `TAB_MODIF` is set before the lock is tested (`dbcolumn.prg:172`): a program that
   catches "record lock required" writes the next time without a test and its
   next call commits without a lock.  `MCUnlocked` with `Recovers = TRUE` violates
   `WrittenUnderLock`.
7. `tranSynchronizeRecord(.t.)` of a record locked before the transaction shifts
   the position from which `tranClearTransactionID` drops locks: locks of the transaction
   stay, against `common.hu.ver:44-45`.  A use with `freeany` violates
   `LocksExact`.
8. The wrapper may send a request right after the reply to a registration, and
   `recvall` reads both (`http_io.prg:204`, against the comment at `:182`): the
   server registers again and the wrapper gives that registration to the client as the
   answer.  `MCLate` violates `AnswersMatch`.
9. A client that goes on with its connection after a timeout may take the late
   answer for that of its next call (`rpc_client.prg:163`).  `MCReuse` violates
   `CallInOnePlace`.
10. `CCC_MARKSYNC=enabled`: `push_symbol`, `PUSH` and `push_blkenv` load a value
    out of a vref without shading it (`push.cpp:32`).  `Unshaded`, with one thread
    and `DEPTH = 3`, violates `LiveKept`; `Shaded` with the same bounds does not.
11. `blkenv` moves an oref between two slots without the locks of the scan
    (`blkenv.cpp:58`).  `AllOps` violates `LiveKept`; without `blkenv` (`Locked`,
    where `push` covers the loads of `local`) it holds.  With `AllOps` and
    `CCC_MARKSYNC=enabled` a white value of either kind may also reach `aadd`, whose late
    shade leaves it gray for the sweep: `NoGrayLeft` fails.
12. `FINE_GRAINED_LOCK` is defined in `variable.cpp` only
    (`CHANGELOG_vermes:49` has the choice moved there), so the locks of vref
    values in `push.cpp` are not compiled (`push.cpp:52`, `:151`).  Two variables
    that share a vref have different mutexes: `push_symbol` of one beside `assign` of
    the other, or beside `push_blkenv` or the shading of the vref (which have
    the mutex of its value), may read the type of one value with the data of another.
    `ValueLock` has these steps, and no property excludes them; what it does promise is
    that the reference itself is whole (`RefsWhole`).
13. `asort` and `asortkey` take value mutexes with a mark mutex held
    (`asort.cpp:78`).  With `asort` among the operations `NoDeadlock` fails.
14. `__gc(1)` may never return: its signal is lost when the collector is not
    waiting (`variable.cpp:994`).  `FairSpec` violates `ForcedGcReturns`.

Seen while modelling, without an instance: `__gc(1)` may return while the cycle it
waits for is still under way, since `gc_count` changes at its start
(`variable.cpp:372`, `:997`); `exit` of the thread pool counts the threads that
have entered themselves, so started ones that have not yet done so stay;
an insert that is synchronised with `.t.` and rolled back ends in "record lock
required"; a nested rollback leaves the record of a `tabInsert` when the outer
level commits; the semaphore of a transaction is given back before its pending
updates are written (`transact.prg:341-343`), and `tsema` takes two of its locks in
another order than programs do; `tranCommit` breaks on a timeout where
`CHANGELOG_vermes:331-332` says it rolls back; a record that was
appended or taken out of `deleted` is in no order when the program is killed or
rolls back before the commit, and its place is lost; a call queued for a module
is left waiting when the busy server dies and a free one has registered since
(`rpcwrapper.prg:316-318`); the stack of jump records (64) and that of
recover types (512) are never tested for overflow (`clp2cpp.h:137`); `idxr` and
attributes lock the element they read, and `aadd`, `ains`, `adel` and `asort`
move elements under the mark mutex of the array (`array.cpp:383-396`, `:513`,
`:550`), so a thread may read an element half moved; two threads that capture one
static variable at the same time may make two vrefs (`push.cpp:73-76`); the
collector reads type and data of the top of a stack one after the other
(`variable.cpp:541-581`) while the thread may pop it and push a number there.

## Not modelled

`PROJECT.json` lists every component with its status.

In the modelled ones these are left out: the static stack (statics are roots as the
stack of a thread is, and shared), the beginning and end of threads during a cycle,
buffers of arrays as memory of their own (the new buffers of `aadd` and `asize`, `aclone`; so
a reader with a stale element address is not seen), the mutexes of the sweep and of the mark stack (leaves: nobody waits
while holding them), `fork`, the handshake of `thread_create`, Windows; memo pages and
building an order from sorted keys; the lock of a whole file, `tabALock`, exclusive
use, filters; the transaction semaphore and its timers, several tables in one
transaction; the blocking check of a session in `system.down`, two requests
merged in one read, the end of the wrapper itself, SSL.

Simplified in them: `Table`'s `AppendNew` is `_db_append` and the lock of the new record in
one step (`dbmodif.prg:385`, `:393`) and takes the lock for granted, where the code sets the
flags even without it; a write of a key field without the lock does not leave `TAB_MODIFKEY`
set, only that of another field leaves `TAB_MODIF` (finding 6).  In `Transaction`, which is
about one process, `tabInsert` (`dbmodif.prg:503-538`) is one step, and `tranRollback` leaves the
position where it was, also where `tabGoto` (`transact.prg:123`) moves it.  In
`RpcWrapper` a server registers until it succeeds, where `xmlrpc_register` gives up after
199 tries half a second apart (`register.prg:69`); `Timeout` closes the connection, which the
library leaves to the program (`rpc_client.prg:163-171`, finding 9).  In `Sequence` a break block
is a test: a break in it or in the expression that yields it (`codegen.cpp:2323`) is left out.

Left out as components: the preprocessor, the expressions and names of the compiler,
frames and argument passing, classes, the library, screen and terminals, table
definitions and conversion are sequential, and what can go wrong in them is the
text or value they compute, which unit tests reach; XML-RPC sessions are a server of the
wrapper that works on one call at a time; the build tool is a client of the thread
pool; `setup` and `tutor` are generated, vendored or samples.  These make up nearly
all of the lines of the repository.

What could be added within these limits, in the order of use: buffers of arrays in
`ValueLock`; the release of records in
`Transaction`; the semaphore of transactions beside several processes;
`thread_create` beside the scan.
