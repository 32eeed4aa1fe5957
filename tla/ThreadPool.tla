----------------------------- MODULE ThreadPool -----------------------------
(***************************************************************************)
(* The thread pool of the build tool (ccctools/build/threadpool.prg):      *)
(* worker threads take jobs from a queue, clients add jobs and wait for    *)
(* them, and make threads leave with NIL jobs.                             *)
(*                                                                         *)
(* Steps are delimited by the mutexes: a critical section that takes no    *)
(* other mutex is one step.  thread_cond_signal of the runtime is          *)
(* pthread_cond_broadcast (ccclib/src/thread.cpp:195-197).  A wait on a    *)
(* condition may end for no reason, as POSIX allows.                       *)
(***************************************************************************)
EXTENDS Integers, Sequences, FiniteSets

CONSTANTS
  Worker,       (* threads of the pool                                     *)
  Initial,      (* those initialize starts, the others wait for addthread  *)
  Client,       (* threads that use the pool                               *)
  NoOne,        (* owner of a free mutex                                   *)
  Ops,          (* which of AllOps the clients call                        *)
  Lwm,          (* the limits they pass to wait_job, wait_act and exit     *)
  MaxJobs,      (* bound: jobs added                                       *)
  MaxNil        (* bound: NIL jobs in the queue                            *)

AllOps == {"addjob", "wait", "wait_job", "wait_act", "exit", "addthread"}

Actor == Worker \cup Client

ASSUME PoolAssumption == /\ Initial \subseteq Worker /\ IsFiniteSet(Worker)
                         /\ Worker \cap Client = {}
                         /\ NoOne \notin Actor
ASSUME UseAssumption == /\ Ops \subseteq AllOps
                        /\ Lwm \subseteq Nat
                        /\ MaxJobs \in Nat /\ MaxNil \in Nat

VARIABLES
  owner,        (* who holds slpmutx, jobmutx, actmutx and thrmutx         *)
  waiting,      (* who waits for jobcond, actcond and thrcond              *)
  jobs,         (* the queue of jobs                                       *)
  active,       (* number of active threads                                *)
  threads,      (* the threads that have entered themselves                *)
  pc,           (* where a thread is                                       *)
  job,          (* the job a worker has taken                              *)
  lwm,          (* argument of the call a client is in                     *)
  added,        (* jobs are numbered as they are added: how many there are *)
  done,         (* the jobs that were run                                  *)
  mark          (* value of added when a client called wait                *)

vars == <<owner, waiting, jobs, active, threads, pc, job, lwm, added, done, mark>>

NIL == 0
Job == 1..MaxJobs

TypeOK ==
  /\ owner \in [{"slp", "job", "act", "thr"} -> Actor \cup {NoOne}]
  /\ waiting \in [{"job", "act", "thr"} -> SUBSET Actor]
  /\ jobs \in Seq(Job \cup {NIL})
  /\ active \in Nat
  /\ threads \in SUBSET Worker
  /\ pc \in [Actor -> {"new", "register", "sleep", "lockjob", "count", "take",
                       "telljob", "run", "added", "unregister", "finish",
                       "tellact", "gone", "idle", "wait", "try", "waited",
                       "wait_job", "wait_act", "exit", "addnil", "tellnil",
                       "exited"}]
  /\ job \in [Worker -> Job \cup {NIL}]
  /\ lwm \in [Client -> Nat]
  /\ added \in 0..MaxJobs
  /\ done \in SUBSET Job
  /\ mark \in [Client -> 0..MaxJobs]

Init ==
  /\ owner = [x \in {"slp", "job", "act", "thr"} |-> NoOne]
  /\ waiting = [x \in {"job", "act", "thr"} |-> {}]
  /\ jobs = <<>>
  /\ active = 0
  /\ threads = {}
  /\ pc = [a \in Actor |-> IF a \in Client THEN "idle"
                           ELSE IF a \in Initial THEN "register" ELSE "new"]
  /\ job = [w \in Worker |-> NIL]
  /\ lwm = [c \in Client |-> 0]
  /\ added = 0
  /\ done = {}
  /\ mark = [c \in Client |-> 0]

-----------------------------------------------------------------------------
Go(a, from, to) == pc[a] = from /\ pc' = [pc EXCEPT ![a] = to]

Free(x) == owner[x] = NoOne
Acquire(x, a) == Free(x) /\ owner' = [owner EXCEPT ![x] = a]
Release(x) == owner' = [owner EXCEPT ![x] = NoOne]

(* thread_cond_wait lets the mutex go; the thread locks it again when it is *)
(* woken and tests its condition once more.                                 *)
Await(x, a) == waiting' = [waiting EXCEPT ![x] = @ \cup {a}]
Awake(x, a) == a \notin waiting[x]

(* Mutant of Signal: pthread_cond_signal, which wakes one thread.           *)
SignalOne(x) ==
  IF waiting[x] = {} THEN UNCHANGED waiting
  ELSE \E a \in waiting[x] : waiting' = [waiting EXCEPT ![x] = @ \ {a}]

Signal(x) == waiting' = [waiting EXCEPT ![x] = {}]

Spurious(x, a) ==
  /\ a \in waiting[x]
  /\ waiting' = [waiting EXCEPT ![x] = @ \ {a}]
  /\ UNCHANGED <<owner, jobs, active, threads, pc, job, lwm, added, done, mark>>

(* addjob, up to its signal.                                                *)
Add(j) == Free("job") /\ jobs' = Append(jobs, j)

AddNext == added < MaxJobs /\ Add(added+1) /\ added' = added+1

-----------------------------------------------------------------------------
(* thread(this), the program of a worker.                                   *)

Register(w) ==
  /\ Go(w, "register", "sleep")
  /\ Free("thr")
  /\ threads' = threads \cup {w}
  /\ UNCHANGED <<owner, waiting, jobs, active, job, lwm, added, done, mark>>

(* Only one worker at a time looks at the queue, the others wait for slp.   *)
Sleep(w) ==
  /\ Go(w, "sleep", "lockjob")
  /\ Acquire("slp", w)
  /\ UNCHANGED <<waiting, jobs, active, threads, job, lwm, added, done, mark>>

LockJob(w) ==
  /\ pc[w] = "lockjob"
  /\ Awake("job", w)
  /\ Free("job")
  /\ IF jobs = <<>>
     THEN Await("job", w) /\ UNCHANGED <<owner, pc>>
     ELSE Acquire("job", w) /\ Go(w, "lockjob", "count") /\ UNCHANGED waiting
  /\ UNCHANGED <<jobs, active, threads, job, lwm, added, done, mark>>

Count(w) ==
  /\ Go(w, "count", "take")
  /\ Free("act")
  /\ active' = active + 1
  /\ UNCHANGED <<owner, waiting, jobs, threads, job, lwm, added, done, mark>>

(* Mutant of Take: the queue is not shortened.                              *)
TakeLeft(w) ==
  /\ Go(w, "take", "telljob")
  /\ job' = [job EXCEPT ![w] = Head(jobs)]
  /\ Release("job")
  /\ UNCHANGED <<waiting, jobs, active, threads, lwm, added, done, mark>>

Take(w) ==
  /\ Go(w, "take", "telljob")
  /\ job' = [job EXCEPT ![w] = Head(jobs)]
  /\ jobs' = Tail(jobs)
  /\ Release("job")
  /\ UNCHANGED <<waiting, active, threads, lwm, added, done, mark>>

TellJob(w) ==
  /\ Go(w, "telljob", IF job[w] = NIL THEN "unregister" ELSE "run")
  /\ Signal("job")
  /\ Release("slp")
  /\ UNCHANGED <<jobs, active, threads, job, lwm, added, done, mark>>

Unregister(w) ==
  /\ Go(w, "unregister", "finish")
  /\ Free("thr")
  /\ threads' = threads \ {w}
  /\ Signal("thr")
  /\ UNCHANGED <<owner, jobs, active, job, lwm, added, done, mark>>

(* A job may add jobs.                                                      *)
RunAdds(w) ==
  /\ Go(w, "run", "added")
  /\ AddNext
  /\ UNCHANGED <<owner, waiting, active, threads, job, lwm, done, mark>>

RunAdded(w) ==
  /\ Go(w, "added", "run")
  /\ Signal("job")
  /\ UNCHANGED <<owner, jobs, active, threads, job, lwm, added, done, mark>>

RunEnds(w) ==
  /\ Go(w, "run", "finish")
  /\ done' = done \cup {job[w]}
  /\ UNCHANGED <<owner, waiting, jobs, active, threads, job, lwm, added, mark>>

Finish(w) ==
  /\ Go(w, "finish", "tellact")
  /\ Free("act")
  /\ active' = active - 1
  /\ UNCHANGED <<owner, waiting, jobs, threads, job, lwm, added, done, mark>>

(* Mutant of TellAct: the signal is forgotten.                              *)
TellActSilent(w) ==
  /\ Go(w, "tellact", IF job[w] = NIL THEN "gone" ELSE "sleep")
  /\ job' = [job EXCEPT ![w] = NIL]
  /\ UNCHANGED <<owner, waiting, jobs, active, threads, lwm, added, done, mark>>

TellAct(w) ==
  /\ Go(w, "tellact", IF job[w] = NIL THEN "gone" ELSE "sleep")
  /\ Signal("act")
  /\ job' = [job EXCEPT ![w] = NIL]
  /\ UNCHANGED <<owner, jobs, active, threads, lwm, added, done, mark>>

WorkerStep(w) ==
  \/ Register(w) \/ Sleep(w) \/ LockJob(w) \/ Count(w) \/ Take(w) \/ TellJob(w)
  \/ Unregister(w) \/ RunAdded(w) \/ RunEnds(w) \/ Finish(w) \/ TellAct(w)

-----------------------------------------------------------------------------
(* The methods of the pool.                                                 *)

addjob(c) ==
  /\ "addjob" \in Ops
  /\ Go(c, "idle", "added")
  /\ AddNext
  /\ UNCHANGED <<owner, waiting, active, threads, job, lwm, done, mark>>

AddEnds(c) ==
  /\ Go(c, "added", "idle")
  /\ Signal("job")
  /\ UNCHANGED <<owner, jobs, active, threads, job, lwm, added, done, mark>>

addthread(w) ==
  /\ "addthread" \in Ops
  /\ Go(w, "new", "register")
  /\ UNCHANGED <<owner, waiting, jobs, active, threads, job, lwm, added, done, mark>>

wait(c) ==
  /\ "wait" \in Ops
  /\ Go(c, "idle", "wait")
  /\ mark' = [mark EXCEPT ![c] = added]
  /\ UNCHANGED <<owner, waiting, jobs, active, threads, job, lwm, added, done>>

(* Mutant of WaitIdle: actmutx is not kept while the queue is looked at.    *)
WaitIdleUnlocked(c) ==
  /\ pc[c] = "wait"
  /\ Awake("act", c)
  /\ Free("act")
  /\ IF active > 0
     THEN Await("act", c) /\ UNCHANGED <<owner, pc>>
     ELSE Go(c, "wait", "try") /\ UNCHANGED <<owner, waiting>>
  /\ UNCHANGED <<jobs, active, threads, job, lwm, added, done, mark>>

WaitIdle(c) ==
  /\ pc[c] = "wait"
  /\ Awake("act", c)
  /\ Free("act")
  /\ IF active > 0
     THEN Await("act", c) /\ UNCHANGED <<owner, pc>>
     ELSE Acquire("act", c) /\ Go(c, "wait", "try") /\ UNCHANGED waiting
  /\ UNCHANGED <<jobs, active, threads, job, lwm, added, done, mark>>

(* trylock: workers lock act while they hold job, so wait must not insist.  *)
WaitTry(c) ==
  /\ Go(c, "try", IF Free("job") /\ jobs = <<>> THEN "waited" ELSE "wait")
  /\ Release("act")
  /\ UNCHANGED <<waiting, jobs, active, threads, job, lwm, added, done, mark>>

wait_job(c) ==
  /\ "wait_job" \in Ops
  /\ Go(c, "idle", "wait_job")
  /\ \E x \in Lwm : lwm' = [lwm EXCEPT ![c] = x]
  /\ UNCHANGED <<owner, waiting, jobs, active, threads, job, added, done, mark>>

WaitJobTest(c) ==
  /\ pc[c] = "wait_job"
  /\ Awake("job", c)
  /\ Free("job")
  /\ IF Len(jobs) > lwm[c]
     THEN Await("job", c) /\ UNCHANGED pc
     ELSE Go(c, "wait_job", "idle") /\ UNCHANGED waiting
  /\ UNCHANGED <<owner, jobs, active, threads, job, lwm, added, done, mark>>

wait_act(c) ==
  /\ "wait_act" \in Ops
  /\ Go(c, "idle", "wait_act")
  /\ \E x \in Lwm : lwm' = [lwm EXCEPT ![c] = x]
  /\ UNCHANGED <<owner, waiting, jobs, active, threads, job, added, done, mark>>

WaitActTest(c) ==
  /\ pc[c] = "wait_act"
  /\ Awake("act", c)
  /\ Free("act")
  /\ IF active > lwm[c]
     THEN Await("act", c) /\ UNCHANGED pc
     ELSE Go(c, "wait_act", "idle") /\ UNCHANGED waiting
  /\ UNCHANGED <<owner, jobs, active, threads, job, lwm, added, done, mark>>

exit(c) ==
  /\ "exit" \in Ops
  /\ Go(c, "idle", "exit")
  /\ \E x \in Lwm : lwm' = [lwm EXCEPT ![c] = x]
  /\ UNCHANGED <<owner, waiting, jobs, active, threads, job, added, done, mark>>

ExitTest(c) ==
  /\ pc[c] = "exit"
  /\ Awake("thr", c)
  /\ Free("thr")
  /\ IF Cardinality(threads) > lwm[c]
     THEN /\ Len(SelectSeq(jobs, LAMBDA j : j = NIL)) < MaxNil
          /\ Acquire("thr", c)
          /\ Go(c, "exit", "addnil")
     ELSE Go(c, "exit", "exited") /\ UNCHANGED owner
  /\ UNCHANGED <<waiting, jobs, active, threads, job, lwm, added, done, mark>>

ExitAdd(c) ==
  /\ Go(c, "addnil", "tellnil")
  /\ Add(NIL)
  /\ UNCHANGED <<owner, waiting, active, threads, job, lwm, added, done, mark>>

(* The signal of addjob, then the wait: the mutex of the one is the mutex   *)
(* of the other.                                                            *)
ExitWait(c) ==
  /\ Go(c, "tellnil", "exit")
  /\ waiting' = [waiting EXCEPT !["job"] = {}, !["thr"] = @ \cup {c}]
  /\ Release("thr")
  /\ UNCHANGED <<jobs, active, threads, job, lwm, added, done, mark>>

(* The client goes on.                                                      *)
Return(c) ==
  /\ pc[c] \in {"waited", "exited"}
  /\ pc' = [pc EXCEPT ![c] = "idle"]
  /\ UNCHANGED <<owner, waiting, jobs, active, threads, job, lwm, added, done, mark>>

ClientStep(c) ==
  \/ AddEnds(c) \/ WaitIdle(c) \/ WaitTry(c) \/ WaitJobTest(c) \/ WaitActTest(c)
  \/ ExitTest(c) \/ ExitAdd(c) \/ ExitWait(c)

Call(c) == addjob(c) \/ wait(c) \/ wait_job(c) \/ wait_act(c) \/ exit(c)

Next ==
  \/ \E w \in Worker : WorkerStep(w) \/ RunAdds(w) \/ addthread(w)
  \/ \E c \in Client : ClientStep(c) \/ Call(c) \/ Return(c)
  \/ \E x \in {"job", "act", "thr"}, a \in Actor : Spurious(x, a)

Spec == Init /\ [][Next]_vars

(* Threads and calls go on, and who waits for a mutex gets it now and then. *)
(* No client need call anything and no job need add another.                *)
Fairness ==
  /\ \A w \in Worker : SF_vars(WorkerStep(w))
  /\ \A c \in Client : SF_vars(ClientStep(c))

FairSpec == Spec /\ Fairness

-----------------------------------------------------------------------------
(* wait: "egyszerre mindkettonek uresnek kell lennie", queue and active     *)
(* must be empty at once (threadpool.prg:117-120).  When it returns, every  *)
(* job added before the call is done, whatever workers and jobs do.         *)
WaitMeansDone == \A c \in Client : pc[c] = "waited" => 1..mark[c] \subseteq done

(* Every job is in one place: in the queue, with one worker, or done; and   *)
(* none is run again.                                                       *)
Queued == {jobs[i] : i \in 1..Len(jobs)}
Held == {w \in Worker : job[w] # NIL /\ pc[w] \in {"telljob", "run", "added"}}
JobsAccounted ==
  /\ (Queued \ {NIL}) \cup {job[w] : w \in Held} \cup done = 1..added
  /\ \A i, k \in 1..Len(jobs) : jobs[i] = jobs[k] /\ jobs[i] # NIL => i = k
  /\ \A v, w \in Held : job[v] = job[w] => v = w
  /\ \A w \in Held : job[w] \notin Queued \cup done
  /\ Queued \cap done = {}

(* Nobody is there to run jobs, and nobody is on the way.                   *)
Deserted == \A w \in Worker : pc[w] \in {"new", "gone"}

(* Every job added is run, with the workers and the clients of wait_job     *)
(* waiting for one and the same condition, unless exit has dismissed all.   *)
JobsDone == \A j \in Job : (added >= j) ~> (j \in done \/ Deserted)

(* A call returns, unless all workers are dismissed while it waits for jobs *)
(* to be run.                                                               *)
WaitReturns ==
  \A c \in Client :
    (pc[c] \in {"wait", "try", "wait_job", "wait_act", "exit", "addnil", "tellnil"})
      ~> (pc[c] \in {"waited", "exited", "idle"} \/ Deserted)
=============================================================================
