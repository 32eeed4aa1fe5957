-------------------------- MODULE ThreadPoolProofs --------------------------
(***************************************************************************)
(* Proofs about ThreadPool: for any number of workers and clients, and     *)
(* whatever they call, wait returns only when the jobs added before the    *)
(* call are done, and every job is in one place.                           *)
(*                                                                         *)
(* wait sees the queue and the number of active threads under two mutexes, *)
(* and a job is for a while in neither of the two.  What makes it sound is *)
(* that a worker counts itself while it holds job, with the job still in   *)
(* the queue, and needs act to do so, which the caller of wait holds.      *)
(***************************************************************************)
EXTENDS ThreadPool, FiniteSetTheorems, TLAPS

(* The workers the pool counts as active.                                  *)
Busy == {w \in Worker : pc[w] \in {"take", "telljob", "run", "added", "unregister", "finish"}}

(* A worker runs the program of a worker, a client calls methods.          *)
RoleInv ==
  /\ \A w \in Worker : pc[w] \in {"new", "register", "sleep", "lockjob", "count", "take", "telljob",
                                  "run", "added", "unregister", "finish", "tellact", "gone"}
  /\ \A c \in Client : pc[c] \in {"added", "idle", "wait", "try", "waited", "wait_job", "wait_act",
                                  "exit", "addnil", "tellnil", "exited"}

LockInv ==
  /\ \A w \in Worker : pc[w] \in {"count", "take"} => owner["job"] = w
  /\ \A c \in Client : pc[c] = "try" => owner["act"] = c

(* What a worker relies on when it takes and runs a job.                   *)
WorkInv ==
  \A w \in Worker : /\ pc[w] \in {"count", "take"} => jobs # <<>>
                    /\ pc[w] \in {"run", "added"} => job[w] # NIL

CountInv == active = Cardinality(Busy)

(* Nobody becomes active while wait looks at the queue.                    *)
IdleInv == \A c \in Client : pc[c] = "try" => active = 0

Kept(j) ==
  \/ \E i \in 1..Len(jobs) : jobs[i] = j
  \/ \E w \in Worker : job[w] = j /\ pc[w] \in {"telljob", "run", "added"}
  \/ j \in done

(* No job is lost.                                                         *)
JobInv == \A j \in 1..added : Kept(j)

MarkInv == \A c \in Client : mark[c] <= added

IInv == /\ TypeOK /\ RoleInv /\ LockInv /\ WorkInv /\ CountInv /\ IdleInv
        /\ JobInv /\ MarkInv /\ WaitMeansDone
-----------------------------------------------------------------------------
LEMMA BusyFinite == TypeOK => IsFiniteSet(Busy) /\ Cardinality(Busy) \in Nat
BY FS_Subset, FS_CardinalityType, PoolAssumption DEF Busy

LEMMA InitIInv == Init => IInv
<1> SUFFICES ASSUME Init PROVE IInv
  OBVIOUS
<1>1. TypeOK
  BY PoolAssumption, UseAssumption DEF Init, TypeOK, Actor, Job, NIL
<1>2. Busy = {}
  BY PoolAssumption DEF Init, Busy, Actor
<1>3. CountInv
  BY <1>2, FS_EmptySet DEF Init, CountInv
<1>4. RoleInv
  BY PoolAssumption DEF Init, RoleInv, Actor
<1>5. LockInv /\ WorkInv /\ IdleInv /\ JobInv /\ MarkInv /\ WaitMeansDone
  BY <1>4, PoolAssumption DEF Init, LockInv, WorkInv, IdleInv, JobInv, MarkInv, WaitMeansDone, Actor
<1> QED
  BY <1>1, <1>3, <1>4, <1>5 DEF IInv

(* A queue to which something is added holds what it held.                 *)
LEMMA Added ==
  ASSUME NEW j, NEW k, jobs \in Seq(Job \cup {NIL}), j \in Job \cup {NIL}, jobs' = Append(jobs, j),
         k = j \/ \E i \in 1..Len(jobs) : jobs[i] = k
  PROVE  /\ jobs' \in Seq(Job \cup {NIL}) /\ jobs' # <<>>
         /\ \E i \in 1..Len(jobs') : jobs'[i] = k
<1>1. Len(jobs') = Len(jobs) + 1 /\ Len(jobs) \in Nat
  OBVIOUS
<1>2. \A i \in 1..Len(jobs) : jobs'[i] = jobs[i]
  OBVIOUS
<1>3. jobs'[Len(jobs) + 1] = j
  OBVIOUS
<1> QED
  BY <1>1, <1>2, <1>3

(* What is not at the head stays when the head is taken.                   *)
LEMMA Taken ==
  ASSUME jobs \in Seq(Job \cup {NIL}), jobs # <<>>, jobs' = Tail(jobs)
  PROVE  /\ Head(jobs) \in Job \cup {NIL} /\ jobs' \in Seq(Job \cup {NIL})
         /\ \A i \in 1..Len(jobs) : jobs[i] = Head(jobs) \/ \E k \in 1..Len(jobs') : jobs'[k] = jobs[i]
<1>1. Len(jobs) \in Nat \ {0} /\ Len(jobs') = Len(jobs) - 1
  OBVIOUS
<1>2. \A i \in 2..Len(jobs) : jobs'[i-1] = jobs[i] /\ i - 1 \in 1..Len(jobs')
  BY <1>1
<1>3. \A i \in 1..Len(jobs) : i = 1 \/ i \in 2..Len(jobs)
  BY <1>1
<1> QED
  BY <1>2, <1>3

(* A step of a worker.  Only Count and Finish change the counter, only Take *)
(* and RunAdds the queue.                                                  *)
LEMMA WorkerQuiet ==
  ASSUME IInv, NEW w \in Worker,
         \/ Register(w) \/ Sleep(w) \/ LockJob(w) \/ TellJob(w) \/ Unregister(w)
         \/ RunAdded(w) \/ RunEnds(w) \/ TellAct(w) \/ addthread(w)
  PROVE  IInv'
<1> w \in Actor /\ w \notin Client /\ w # NoOne /\ Client \subseteq Actor /\ Worker \subseteq Actor
  BY PoolAssumption DEF Actor
<1> USE DEF IInv, Go
<1>1. CASE Register(w)
  <2>1. TypeOK' /\ RoleInv'
    BY <1>1 DEF Register, Free, TypeOK, RoleInv
  <2>2. Busy' = Busy /\ UNCHANGED <<active, jobs, added, mark>>
    BY <1>1 DEF Register, Free, Busy, TypeOK, RoleInv
  <2>3. LockInv' /\ WorkInv' /\ IdleInv' /\ CountInv' /\ MarkInv'
    BY <1>1, <2>2 DEF Register, Free, TypeOK, RoleInv, LockInv, WorkInv, IdleInv, CountInv, MarkInv
  <2>4. JobInv' /\ WaitMeansDone'
    BY <1>1, <2>2 DEF Register, Free, TypeOK, RoleInv, JobInv, Kept, WaitMeansDone, NIL
  <2> QED
    BY <2>1, <2>3, <2>4
<1>2. CASE Sleep(w)
  <2>1. TypeOK' /\ RoleInv'
    BY <1>2 DEF Sleep, Acquire, Free, TypeOK, RoleInv
  <2>2. Busy' = Busy /\ UNCHANGED <<active, jobs, added, mark>>
    BY <1>2 DEF Sleep, Acquire, Free, Busy, TypeOK, RoleInv
  <2>3. LockInv' /\ WorkInv' /\ IdleInv' /\ CountInv' /\ MarkInv'
    BY <1>2, <2>2 DEF Sleep, Acquire, Free, TypeOK, RoleInv, LockInv, WorkInv, IdleInv, CountInv, MarkInv
  <2>4. JobInv' /\ WaitMeansDone'
    BY <1>2, <2>2 DEF Sleep, Acquire, Free, TypeOK, RoleInv, JobInv, Kept, WaitMeansDone, NIL
  <2> QED
    BY <2>1, <2>3, <2>4
<1>3. CASE LockJob(w)
  <2>1. TypeOK' /\ RoleInv'
    <3>1. CASE jobs = <<>>
      BY <1>3, <3>1 DEF LockJob, Acquire, Free, Await, Awake, TypeOK, RoleInv
    <3>2. CASE jobs # <<>>
      <4>1. /\ owner' = [owner EXCEPT !["job"] = w] /\ pc' = [pc EXCEPT ![w] = "count"]
            /\ UNCHANGED <<waiting, jobs, active, threads, job, lwm, added, done, mark>>
        BY <1>3, <3>2 DEF LockJob, Acquire, Free, Await, Awake
      <4>2. TypeOK'
        BY <4>1 DEF TypeOK
      <4>3. RoleInv'
        BY <4>1 DEF TypeOK, RoleInv
      <4> QED
        BY <4>2, <4>3
    <3> QED
      BY <3>1, <3>2
  <2>2. Busy' = Busy /\ UNCHANGED <<active, jobs, added, mark>>
    BY <1>3 DEF LockJob, Acquire, Free, Await, Awake, Busy, TypeOK, RoleInv
  <2>3. LockInv' /\ WorkInv' /\ IdleInv' /\ CountInv' /\ MarkInv'
    <3>1. CASE jobs = <<>>
      BY <1>3, <2>2, <3>1 DEF LockJob, Acquire, Free, Await, Awake, TypeOK, RoleInv, LockInv, WorkInv, IdleInv, CountInv, MarkInv
    <3>2. CASE jobs # <<>>
      <4>1. LockInv'
        <5>1. /\ owner["job"] = NoOne /\ owner' = [owner EXCEPT !["job"] = w]
              /\ pc' = [pc EXCEPT ![w] = "count"]
          BY <1>3, <3>2 DEF LockJob, Acquire, Free, Await, Awake
        <5>2. \A v \in Worker : pc[v] \notin {"count", "take"}
          BY <5>1, PoolAssumption DEF LockInv, Actor
        <5> QED
          BY <5>1, <5>2 DEF TypeOK, LockInv
      <4>2. WorkInv' /\ IdleInv' /\ CountInv' /\ MarkInv'
        BY <1>3, <2>2, <3>2 DEF LockJob, Acquire, Free, Await, Awake, TypeOK, RoleInv, WorkInv, IdleInv, CountInv, MarkInv
      <4> QED
        BY <4>1, <4>2
    <3> QED
      BY <3>1, <3>2
  <2>4. JobInv' /\ WaitMeansDone'
    BY <1>3, <2>2 DEF LockJob, Acquire, Free, Await, Awake, TypeOK, RoleInv, JobInv, Kept, WaitMeansDone, NIL
  <2> QED
    BY <2>1, <2>3, <2>4
<1>4. CASE TellJob(w)
  <2>1. TypeOK' /\ RoleInv'
    BY <1>4 DEF TellJob, Signal, Release, TypeOK, RoleInv
  <2>2. Busy' = Busy /\ UNCHANGED <<active, jobs, added, mark>>
    BY <1>4 DEF TellJob, Signal, Release, Busy, TypeOK, RoleInv
  <2>3. LockInv' /\ WorkInv' /\ IdleInv' /\ CountInv' /\ MarkInv'
    BY <1>4, <2>2 DEF TellJob, Signal, Release, TypeOK, RoleInv, LockInv, WorkInv, IdleInv, CountInv, MarkInv
  <2>4. JobInv'
    <3> SUFFICES ASSUME NEW j \in 1..added PROVE Kept(j)'
      BY <2>2 DEF JobInv
    <3>1. Kept(j) /\ j # NIL
      BY DEF JobInv, NIL
    <3>2. \A v \in Worker : job[v] = j /\ pc[v] \in {"telljob", "run", "added"}
                             => pc'[v] \in {"telljob", "run", "added"}
      BY <1>4, <3>1 DEF TellJob, Signal, Release, TypeOK
    <3> QED
      BY <1>4, <2>2, <3>1, <3>2 DEF TellJob, Kept
  <2>5. WaitMeansDone'
    BY <1>4, <2>2 DEF TellJob, Signal, Release, TypeOK, RoleInv, WaitMeansDone
  <2> QED
    BY <2>1, <2>3, <2>4, <2>5
<1>5. CASE Unregister(w)
  <2>1. TypeOK' /\ RoleInv'
    BY <1>5 DEF Unregister, Free, Signal, TypeOK, RoleInv
  <2>2. Busy' = Busy /\ UNCHANGED <<active, jobs, added, mark>>
    BY <1>5 DEF Unregister, Free, Signal, Busy, TypeOK, RoleInv
  <2>3. LockInv' /\ WorkInv' /\ IdleInv' /\ CountInv' /\ MarkInv'
    BY <1>5, <2>2 DEF Unregister, Free, Signal, TypeOK, RoleInv, LockInv, WorkInv, IdleInv, CountInv, MarkInv
  <2>4. JobInv' /\ WaitMeansDone'
    BY <1>5, <2>2 DEF Unregister, Free, Signal, TypeOK, RoleInv, JobInv, Kept, WaitMeansDone, NIL
  <2> QED
    BY <2>1, <2>3, <2>4
<1>6. CASE RunAdded(w)
  <2>1. TypeOK' /\ RoleInv'
    BY <1>6 DEF RunAdded, Signal, TypeOK, RoleInv
  <2>2. Busy' = Busy /\ UNCHANGED <<active, jobs, added, mark>>
    BY <1>6 DEF RunAdded, Signal, Busy, TypeOK, RoleInv
  <2>3. LockInv' /\ WorkInv' /\ IdleInv' /\ CountInv' /\ MarkInv'
    BY <1>6, <2>2 DEF RunAdded, Signal, TypeOK, RoleInv, LockInv, WorkInv, IdleInv, CountInv, MarkInv
  <2>4. JobInv' /\ WaitMeansDone'
    BY <1>6, <2>2 DEF RunAdded, Signal, TypeOK, RoleInv, JobInv, Kept, WaitMeansDone, NIL
  <2> QED
    BY <2>1, <2>3, <2>4
<1>7. CASE RunEnds(w)
  <2>1. TypeOK' /\ RoleInv'
    BY <1>7 DEF RunEnds, TypeOK, RoleInv, WorkInv, NIL, Job
  <2>2. Busy' = Busy /\ UNCHANGED <<active, jobs, added, mark>>
    BY <1>7 DEF RunEnds, Busy, TypeOK, RoleInv
  <2>3. LockInv' /\ WorkInv' /\ IdleInv' /\ CountInv' /\ MarkInv'
    BY <1>7, <2>2 DEF RunEnds, TypeOK, RoleInv, LockInv, WorkInv, IdleInv, CountInv, MarkInv
  <2>4. JobInv' /\ WaitMeansDone'
    BY <1>7, <2>2 DEF RunEnds, TypeOK, RoleInv, JobInv, Kept, WaitMeansDone, NIL
  <2> QED
    BY <2>1, <2>3, <2>4
<1>8. CASE TellAct(w)
  <2>1. TypeOK' /\ RoleInv'
    BY <1>8 DEF TellAct, Signal, TypeOK, RoleInv
  <2>2. Busy' = Busy /\ UNCHANGED <<active, jobs, added, mark>>
    BY <1>8 DEF TellAct, Signal, Busy, TypeOK, RoleInv
  <2>3. LockInv' /\ WorkInv' /\ IdleInv' /\ CountInv' /\ MarkInv'
    BY <1>8, <2>2 DEF TellAct, Signal, TypeOK, RoleInv, LockInv, WorkInv, IdleInv, CountInv, MarkInv
  <2>4. JobInv' /\ WaitMeansDone'
    BY <1>8, <2>2 DEF TellAct, Signal, TypeOK, RoleInv, JobInv, Kept, WaitMeansDone, NIL
  <2> QED
    BY <2>1, <2>3, <2>4
<1>9. CASE addthread(w)
  <2>1. TypeOK' /\ RoleInv'
    BY <1>9 DEF addthread, TypeOK, RoleInv
  <2>2. Busy' = Busy /\ UNCHANGED <<active, jobs, added, mark>>
    BY <1>9 DEF addthread, Busy, TypeOK, RoleInv
  <2>3. LockInv' /\ WorkInv' /\ IdleInv' /\ CountInv' /\ MarkInv'
    BY <1>9, <2>2 DEF addthread, TypeOK, RoleInv, LockInv, WorkInv, IdleInv, CountInv, MarkInv
  <2>4. JobInv' /\ WaitMeansDone'
    BY <1>9, <2>2 DEF addthread, TypeOK, RoleInv, JobInv, Kept, WaitMeansDone, NIL
  <2> QED
    BY <2>1, <2>3, <2>4
<1> QED
  BY <1>1, <1>2, <1>3, <1>4, <1>5, <1>6, <1>7, <1>8, <1>9

(* A worker that counts itself holds job, and no caller of wait holds act. *)
LEMMA CountStep == ASSUME IInv, NEW w \in Worker, Count(w) PROVE IInv'
<1> w \in Actor /\ w \notin Client /\ Client \subseteq Actor /\ Worker \subseteq Actor
  BY PoolAssumption DEF Actor
<1> USE DEF IInv, Go, Count, Free
<1>1. TypeOK' /\ RoleInv'
  BY DEF TypeOK, RoleInv
<1>2. CountInv'
  <2>1. Busy' = Busy \cup {w} /\ w \notin Busy
    BY DEF TypeOK, Busy
  <2> QED
    BY <2>1, BusyFinite, FS_AddElement DEF CountInv
<1>3. \A c \in Client : pc'[c] # "try"
  BY PoolAssumption DEF TypeOK, LockInv, Actor
<1>4. LockInv' /\ WorkInv' /\ IdleInv' /\ MarkInv'
  BY <1>3 DEF TypeOK, RoleInv, LockInv, WorkInv, IdleInv, MarkInv
<1>5. JobInv' /\ WaitMeansDone'
  BY DEF TypeOK, RoleInv, JobInv, Kept, WaitMeansDone
<1> QED
  BY <1>1, <1>2, <1>4, <1>5

(* A worker that has finished needs act as well.                           *)
LEMMA FinishStep == ASSUME IInv, NEW w \in Worker, Finish(w) PROVE IInv'
<1> w \in Actor /\ w \notin Client /\ Client \subseteq Actor /\ Worker \subseteq Actor
  BY PoolAssumption DEF Actor
<1> USE DEF IInv, Go, Finish, Free
<1>1. Busy' = Busy \ {w} /\ w \in Busy
  BY DEF TypeOK, Busy
<1>2. Cardinality(Busy') = Cardinality(Busy) - 1 /\ Cardinality(Busy') \in Nat
  BY <1>1, BusyFinite, FS_RemoveElement, FS_CardinalityType
<1>3. CountInv' /\ active' \in Nat
  BY <1>2 DEF CountInv
<1>4. TypeOK' /\ RoleInv'
  BY <1>3 DEF TypeOK, RoleInv
<1>5. \A c \in Client : pc'[c] # "try"
  BY PoolAssumption DEF TypeOK, LockInv, Actor
<1>6. LockInv' /\ WorkInv' /\ IdleInv' /\ MarkInv'
  BY <1>5 DEF TypeOK, RoleInv, LockInv, WorkInv, IdleInv, MarkInv
<1>7. JobInv' /\ WaitMeansDone'
  BY DEF TypeOK, RoleInv, JobInv, Kept, WaitMeansDone
<1> QED
  BY <1>3, <1>4, <1>6, <1>7

(* The job that leaves the queue is with the worker, who is counted.       *)
LEMMA TakeStep == ASSUME IInv, NEW w \in Worker, Take(w) PROVE IInv'
<1> w \in Actor /\ w \notin Client /\ Client \subseteq Actor /\ Worker \subseteq Actor
  BY PoolAssumption DEF Actor
<1> USE DEF IInv, Go, Take, Release
<1>1. /\ Head(jobs) \in Job \cup {NIL} /\ jobs' \in Seq(Job \cup {NIL})
      /\ \A i \in 1..Len(jobs) : jobs[i] = Head(jobs) \/ \E k \in 1..Len(jobs') : jobs'[k] = jobs[i]
  BY Taken DEF TypeOK, WorkInv
<1>2. TypeOK' /\ RoleInv'
  BY <1>1 DEF TypeOK, RoleInv
<1>3. CountInv'
  <2>1. Busy' = Busy
    BY DEF TypeOK, Busy
  <2> QED
    BY <2>1 DEF CountInv
<1>4. \A v \in Worker : pc'[v] \in {"count", "take"} => FALSE
  BY DEF TypeOK, LockInv
<1>5. LockInv' /\ WorkInv' /\ IdleInv' /\ MarkInv'
  BY <1>4 DEF TypeOK, RoleInv, LockInv, WorkInv, IdleInv, MarkInv
<1>6. JobInv'
  <2> SUFFICES ASSUME NEW j \in 1..added PROVE Kept(j)'
    BY DEF JobInv
  <2>1. Kept(j)
    BY DEF JobInv
  <2>2. CASE \E i \in 1..Len(jobs) : jobs[i] = j
    <3>1. j = Head(jobs) \/ \E k \in 1..Len(jobs') : jobs'[k] = j
      BY <1>1, <2>2
    <3>2. job'[w] = Head(jobs) /\ pc'[w] = "telljob"
      BY DEF TypeOK
    <3> QED
      BY <3>1, <3>2 DEF Kept
  <2>3. CASE \E v \in Worker : job[v] = j /\ pc[v] \in {"telljob", "run", "added"}
    BY <2>3 DEF TypeOK, Kept
  <2> QED
    BY <2>1, <2>2, <2>3 DEF Kept
<1>7. WaitMeansDone'
  BY DEF TypeOK, RoleInv, WaitMeansDone
<1> QED
  BY <1>2, <1>3, <1>5, <1>6, <1>7

(* Adding a job, from a job that runs or from a client: the job is in the  *)
(* queue when it is counted as added.                                      *)
LEMMA AddStep ==
  ASSUME IInv, NEW a \in Actor, Free("job"), AddNext,
         \/ a \in Worker /\ Go(a, "run", "added")
         \/ a \in Client /\ Go(a, "idle", "added"),
         UNCHANGED <<owner, waiting, active, threads, job, lwm, done, mark>>
  PROVE  IInv'
<1> Client \subseteq Actor /\ Worker \subseteq Actor /\ Worker \cap Client = {}
  BY PoolAssumption DEF Actor
<1> USE DEF IInv, Go, AddNext, Add, Free
<1>1. added + 1 \in Job /\ added \in Nat /\ added' = added + 1
  BY UseAssumption DEF TypeOK, Job
<1>2. jobs' \in Seq(Job \cup {NIL}) /\ jobs' # <<>>
  BY <1>1, Added DEF TypeOK
<1>3. TypeOK' /\ RoleInv'
  <2>1. pc' = [pc EXCEPT ![a] = "added"]
    OBVIOUS
  <2>2. TypeOK'
    BY <1>1, <1>2, <2>1 DEF TypeOK, Job
  <2>3. RoleInv'
    BY <2>1 DEF TypeOK, RoleInv
  <2> QED
    BY <2>2, <2>3
<1>4. CountInv'
  <2>1. Busy' = Busy
    BY DEF TypeOK, Busy
  <2> QED
    BY <2>1 DEF CountInv
<1>5. WorkInv'
  BY <1>2 DEF TypeOK, WorkInv
<1>6. LockInv' /\ IdleInv'
  BY DEF TypeOK, RoleInv, LockInv, IdleInv
<1>7. MarkInv' /\ WaitMeansDone'
  <2>1. \A c \in Client : mark[c] \in Nat /\ mark'[c] = mark[c]
    BY DEF TypeOK
  <2>2. \A c \in Client : pc'[c] = "waited" => pc[c] = "waited"
    BY DEF TypeOK
  <2>3. MarkInv'
    BY <1>1, <2>1 DEF MarkInv
  <2>4. WaitMeansDone'
    BY <2>1, <2>2 DEF WaitMeansDone
  <2> QED
    BY <2>3, <2>4
<1>8. JobInv'
  <2> SUFFICES ASSUME NEW j \in 1..added+1 PROVE Kept(j)'
    BY <1>1 DEF JobInv
  <2>1. CASE j = added + 1
    BY <1>1, <2>1, Added DEF TypeOK, Kept
  <2>2. CASE j # added + 1
    <3>1. Kept(j)
      BY <1>1, <2>2 DEF JobInv
    <3>2. CASE \E i \in 1..Len(jobs) : jobs[i] = j
      BY <1>1, <3>2, Added DEF TypeOK, Kept
    <3>3. CASE \E v \in Worker : job[v] = j /\ pc[v] \in {"telljob", "run", "added"}
      BY <3>3 DEF TypeOK, Kept
    <3> QED
      BY <3>1, <3>2, <3>3 DEF Kept
  <2> QED
    BY <2>1, <2>2
<1> QED
  BY <1>3, <1>4, <1>5, <1>6, <1>7, <1>8

(* A step of a client that neither adds to the queue nor looks at it with  *)
(* act held: the workers and the queue are as they were.                   *)
LEMMA ClientQuiet ==
  ASSUME IInv, NEW c \in Client,
         \/ AddEnds(c) \/ wait(c) \/ wait_job(c) \/ wait_act(c) \/ exit(c)
         \/ WaitJobTest(c) \/ WaitActTest(c) \/ ExitTest(c) \/ ExitWait(c) \/ Return(c)
  PROVE  IInv'
<1> c \in Actor /\ c \notin Worker /\ c # NoOne /\ Client \subseteq Actor /\ Worker \subseteq Actor
  BY PoolAssumption DEF Actor
<1> USE DEF IInv, Go
<1>1. CASE AddEnds(c)
  <2>1. TypeOK' /\ RoleInv'
    BY <1>1 DEF AddEnds, Signal, TypeOK, RoleInv
  <2>2. /\ \A w \in Worker : pc'[w] = pc[w]
        /\ UNCHANGED <<job, jobs, done, added, active>>
    BY <1>1 DEF AddEnds, Signal, TypeOK
  <2>3. Busy' = Busy
    BY <2>2 DEF Busy
  <2>4. CountInv' /\ WorkInv' /\ JobInv'
    BY <2>2, <2>3 DEF CountInv, WorkInv, JobInv, Kept
  <2>5. LockInv' /\ IdleInv' /\ MarkInv' /\ WaitMeansDone'
    BY <1>1, <2>2 DEF AddEnds, Signal, TypeOK, LockInv, IdleInv, MarkInv, WaitMeansDone
  <2> QED
    BY <2>1, <2>4, <2>5
<1>2. CASE wait(c)
  <2>1. TypeOK' /\ RoleInv'
    BY <1>2 DEF wait, TypeOK, RoleInv
  <2>2. /\ \A w \in Worker : pc'[w] = pc[w]
        /\ UNCHANGED <<job, jobs, done, added, active>>
    BY <1>2 DEF wait, TypeOK
  <2>3. Busy' = Busy
    BY <2>2 DEF Busy
  <2>4. CountInv' /\ WorkInv' /\ JobInv'
    BY <2>2, <2>3 DEF CountInv, WorkInv, JobInv, Kept
  <2>5. LockInv' /\ IdleInv' /\ MarkInv' /\ WaitMeansDone'
    BY <1>2, <2>2 DEF wait, TypeOK, LockInv, IdleInv, MarkInv, WaitMeansDone
  <2> QED
    BY <2>1, <2>4, <2>5
<1>3. CASE wait_job(c)
  <2>1. TypeOK' /\ RoleInv'
    BY <1>3, UseAssumption DEF wait_job, TypeOK, RoleInv
  <2>2. /\ \A w \in Worker : pc'[w] = pc[w]
        /\ UNCHANGED <<job, jobs, done, added, active>>
    BY <1>3 DEF wait_job, TypeOK
  <2>3. Busy' = Busy
    BY <2>2 DEF Busy
  <2>4. CountInv' /\ WorkInv' /\ JobInv'
    BY <2>2, <2>3 DEF CountInv, WorkInv, JobInv, Kept
  <2>5. LockInv' /\ IdleInv' /\ MarkInv' /\ WaitMeansDone'
    BY <1>3, <2>2 DEF wait_job, TypeOK, LockInv, IdleInv, MarkInv, WaitMeansDone
  <2> QED
    BY <2>1, <2>4, <2>5
<1>4. CASE wait_act(c)
  <2>1. TypeOK' /\ RoleInv'
    BY <1>4, UseAssumption DEF wait_act, TypeOK, RoleInv
  <2>2. /\ \A w \in Worker : pc'[w] = pc[w]
        /\ UNCHANGED <<job, jobs, done, added, active>>
    BY <1>4 DEF wait_act, TypeOK
  <2>3. Busy' = Busy
    BY <2>2 DEF Busy
  <2>4. CountInv' /\ WorkInv' /\ JobInv'
    BY <2>2, <2>3 DEF CountInv, WorkInv, JobInv, Kept
  <2>5. LockInv' /\ IdleInv' /\ MarkInv' /\ WaitMeansDone'
    BY <1>4, <2>2 DEF wait_act, TypeOK, LockInv, IdleInv, MarkInv, WaitMeansDone
  <2> QED
    BY <2>1, <2>4, <2>5
<1>5. CASE exit(c)
  <2>1. TypeOK' /\ RoleInv'
    BY <1>5, UseAssumption DEF exit, TypeOK, RoleInv
  <2>2. /\ \A w \in Worker : pc'[w] = pc[w]
        /\ UNCHANGED <<job, jobs, done, added, active>>
    BY <1>5 DEF exit, TypeOK
  <2>3. Busy' = Busy
    BY <2>2 DEF Busy
  <2>4. CountInv' /\ WorkInv' /\ JobInv'
    BY <2>2, <2>3 DEF CountInv, WorkInv, JobInv, Kept
  <2>5. LockInv' /\ IdleInv' /\ MarkInv' /\ WaitMeansDone'
    BY <1>5, <2>2 DEF exit, TypeOK, LockInv, IdleInv, MarkInv, WaitMeansDone
  <2> QED
    BY <2>1, <2>4, <2>5
<1>6. CASE WaitJobTest(c)
  <2>1. TypeOK' /\ RoleInv'
    <3>1. /\ \/ waiting' = [waiting EXCEPT !["job"] = @ \cup {c}] /\ pc' = pc
             \/ waiting' = waiting /\ pc' = [pc EXCEPT ![c] = "idle"]
          /\ UNCHANGED <<owner, jobs, active, threads, job, lwm, added, done, mark>>
      BY <1>6 DEF WaitJobTest, Await, Awake, Free
    <3>2. TypeOK'
      BY <3>1 DEF TypeOK
    <3>3. RoleInv'
      BY <3>1 DEF TypeOK, RoleInv
    <3> QED
      BY <3>2, <3>3
  <2>2. /\ \A w \in Worker : pc'[w] = pc[w]
        /\ UNCHANGED <<job, jobs, done, added, active>>
    BY <1>6 DEF WaitJobTest, Await, Awake, Free, TypeOK
  <2>3. Busy' = Busy
    BY <2>2 DEF Busy
  <2>4. CountInv' /\ WorkInv' /\ JobInv'
    BY <2>2, <2>3 DEF CountInv, WorkInv, JobInv, Kept
  <2>5. LockInv' /\ IdleInv' /\ MarkInv' /\ WaitMeansDone'
    BY <1>6, <2>2 DEF WaitJobTest, Await, Awake, Free, TypeOK, LockInv, IdleInv, MarkInv, WaitMeansDone
  <2> QED
    BY <2>1, <2>4, <2>5
<1>7. CASE WaitActTest(c)
  <2>1. TypeOK' /\ RoleInv'
    <3>1. /\ \/ waiting' = [waiting EXCEPT !["act"] = @ \cup {c}] /\ pc' = pc
             \/ waiting' = waiting /\ pc' = [pc EXCEPT ![c] = "idle"]
          /\ UNCHANGED <<owner, jobs, active, threads, job, lwm, added, done, mark>>
      BY <1>7 DEF WaitActTest, Await, Awake, Free
    <3>2. TypeOK'
      BY <3>1 DEF TypeOK
    <3>3. RoleInv'
      BY <3>1 DEF TypeOK, RoleInv
    <3> QED
      BY <3>2, <3>3
  <2>2. /\ \A w \in Worker : pc'[w] = pc[w]
        /\ UNCHANGED <<job, jobs, done, added, active>>
    BY <1>7 DEF WaitActTest, Await, Awake, Free, TypeOK
  <2>3. Busy' = Busy
    BY <2>2 DEF Busy
  <2>4. CountInv' /\ WorkInv' /\ JobInv'
    BY <2>2, <2>3 DEF CountInv, WorkInv, JobInv, Kept
  <2>5. LockInv' /\ IdleInv' /\ MarkInv' /\ WaitMeansDone'
    BY <1>7, <2>2 DEF WaitActTest, Await, Awake, Free, TypeOK, LockInv, IdleInv, MarkInv, WaitMeansDone
  <2> QED
    BY <2>1, <2>4, <2>5
<1>8. CASE ExitTest(c)
  <2>1. TypeOK' /\ RoleInv'
    <3>1. /\ \/ owner' = [owner EXCEPT !["thr"] = c] /\ pc' = [pc EXCEPT ![c] = "addnil"]
             \/ owner' = owner /\ pc' = [pc EXCEPT ![c] = "exited"]
          /\ UNCHANGED <<waiting, jobs, active, threads, job, lwm, added, done, mark>>
      BY <1>8 DEF ExitTest, Acquire
    <3>2. TypeOK'
      <4>1. owner' \in [{"slp", "job", "act", "thr"} -> Actor \cup {NoOne}]
        BY <3>1 DEF TypeOK
      <4>2. pc' \in [Actor -> {"new", "register", "sleep", "lockjob", "count", "take", "telljob", "run",
                               "added", "unregister", "finish", "tellact", "gone", "idle", "wait",
                               "try", "waited", "wait_job", "wait_act", "exit", "addnil", "tellnil",
                               "exited"}]
        BY <3>1 DEF TypeOK
      <4> QED
        BY <3>1, <4>1, <4>2 DEF TypeOK
    <3>3. RoleInv'
      BY <3>1 DEF TypeOK, RoleInv
    <3> QED
      BY <3>2, <3>3
  <2>2. /\ \A w \in Worker : pc'[w] = pc[w]
        /\ UNCHANGED <<job, jobs, done, added, active>>
    BY <1>8 DEF ExitTest, Awake, Free, Acquire, TypeOK
  <2>3. Busy' = Busy
    BY <2>2 DEF Busy
  <2>4. CountInv' /\ WorkInv' /\ JobInv'
    BY <2>2, <2>3 DEF CountInv, WorkInv, JobInv, Kept
  <2>5. LockInv' /\ IdleInv' /\ MarkInv' /\ WaitMeansDone'
    BY <1>8, <2>2 DEF ExitTest, Awake, Free, Acquire, TypeOK, LockInv, IdleInv, MarkInv, WaitMeansDone
  <2> QED
    BY <2>1, <2>4, <2>5
<1>9. CASE ExitWait(c)
  <2>1. TypeOK' /\ RoleInv'
    BY <1>9 DEF ExitWait, Release, TypeOK, RoleInv
  <2>2. /\ \A w \in Worker : pc'[w] = pc[w]
        /\ UNCHANGED <<job, jobs, done, added, active>>
    BY <1>9 DEF ExitWait, Release, TypeOK
  <2>3. Busy' = Busy
    BY <2>2 DEF Busy
  <2>4. CountInv' /\ WorkInv' /\ JobInv'
    BY <2>2, <2>3 DEF CountInv, WorkInv, JobInv, Kept
  <2>5. LockInv' /\ IdleInv' /\ MarkInv' /\ WaitMeansDone'
    BY <1>9, <2>2 DEF ExitWait, Release, TypeOK, LockInv, IdleInv, MarkInv, WaitMeansDone
  <2> QED
    BY <2>1, <2>4, <2>5
<1>10. CASE Return(c)
  <2>1. TypeOK' /\ RoleInv'
    BY <1>10 DEF Return, TypeOK, RoleInv
  <2>2. /\ \A w \in Worker : pc'[w] = pc[w]
        /\ UNCHANGED <<job, jobs, done, added, active>>
    BY <1>10 DEF Return, TypeOK
  <2>3. Busy' = Busy
    BY <2>2 DEF Busy
  <2>4. CountInv' /\ WorkInv' /\ JobInv'
    BY <2>2, <2>3 DEF CountInv, WorkInv, JobInv, Kept
  <2>5. LockInv' /\ IdleInv' /\ MarkInv' /\ WaitMeansDone'
    BY <1>10, <2>2 DEF Return, TypeOK, LockInv, IdleInv, MarkInv, WaitMeansDone
  <2> QED
    BY <2>1, <2>4, <2>5
<1> QED
  BY <1>1, <1>2, <1>3, <1>4, <1>5, <1>6, <1>7, <1>8, <1>9, <1>10

(* wait finds no active thread and keeps act.                              *)
LEMMA WaitIdleStep == ASSUME IInv, NEW c \in Client, WaitIdle(c) PROVE IInv'
<1> c \in Actor /\ c \notin Worker /\ c # NoOne /\ Client \subseteq Actor /\ Worker \subseteq Actor
  BY PoolAssumption DEF Actor
<1> USE DEF IInv, Go, WaitIdle, Awake, Free, Acquire, Await
<1>1. TypeOK' /\ RoleInv'
  <2>1. CASE active > 0
    BY <2>1 DEF TypeOK, RoleInv
  <2>2. CASE ~(active > 0)
    <3>1. /\ owner' = [owner EXCEPT !["act"] = c] /\ pc' = [pc EXCEPT ![c] = "try"]
          /\ UNCHANGED <<waiting, jobs, active, threads, job, lwm, added, done, mark>>
      BY <2>2
    <3>2. TypeOK'
      BY <3>1 DEF TypeOK
    <3>3. RoleInv'
      BY <3>1 DEF TypeOK, RoleInv
    <3> QED
      BY <3>2, <3>3
  <2> QED
    BY <2>1, <2>2
<1>2. /\ \A w \in Worker : pc'[w] = pc[w]
      /\ UNCHANGED <<job, jobs, done, added, active, mark>>
  BY DEF TypeOK
<1>3. Busy' = Busy
  BY <1>2 DEF Busy
<1>4. CountInv' /\ WorkInv' /\ JobInv' /\ MarkInv'
  BY <1>2, <1>3 DEF CountInv, WorkInv, JobInv, Kept, MarkInv
<1>5. LockInv' /\ IdleInv' /\ WaitMeansDone'
  <2>1. CASE active > 0
    BY <2>1 DEF TypeOK, LockInv, IdleInv, WaitMeansDone
  <2>2. CASE ~(active > 0)
    BY <2>2, PoolAssumption DEF TypeOK, LockInv, IdleInv, WaitMeansDone
  <2> QED
    BY <2>1, <2>2
<1> QED
  BY <1>1, <1>4, <1>5

(* wait then looks at the queue: nobody is active, so that every job is    *)
(* either in the queue or done.                                            *)
LEMMA WaitTryStep == ASSUME IInv, NEW c \in Client, WaitTry(c) PROVE IInv'
<1> c \in Actor /\ c \notin Worker /\ c # NoOne /\ Client \subseteq Actor /\ Worker \subseteq Actor
  BY PoolAssumption DEF Actor
<1> USE DEF IInv, Go, WaitTry, Free, Release
<1>1. TypeOK' /\ RoleInv'
  BY DEF TypeOK, RoleInv
<1>2. /\ \A w \in Worker : pc'[w] = pc[w]
      /\ UNCHANGED <<job, jobs, done, added, active, mark>>
  BY DEF TypeOK
<1>3. Busy' = Busy
  BY <1>2 DEF Busy
<1>4. CountInv' /\ WorkInv' /\ JobInv' /\ MarkInv'
  BY <1>2, <1>3 DEF CountInv, WorkInv, JobInv, Kept, MarkInv
<1>5. LockInv' /\ IdleInv'
  BY DEF TypeOK, LockInv, IdleInv
<1>6. jobs = <<>> => 1..mark[c] \subseteq done
  <2> SUFFICES ASSUME jobs = <<>>, NEW j \in 1..mark[c] PROVE j \in done
    OBVIOUS
  <2>1. j \in 1..added
    BY DEF TypeOK, MarkInv
  <2>2. Kept(j)
    BY <2>1 DEF JobInv
  <2>3. Busy = {}
    BY BusyFinite, FS_EmptySet DEF IdleInv, CountInv
  <2>4. ~ \E w \in Worker : pc[w] \in {"telljob", "run", "added"}
    BY <2>3 DEF Busy
  <2> QED
    BY <2>2, <2>4 DEF Kept
<1>7. WaitMeansDone'
  BY <1>6 DEF TypeOK, WaitMeansDone
<1> QED
  BY <1>1, <1>4, <1>5, <1>7

(* exit adds a NIL, which hides no job.                                    *)
LEMMA ExitAddStep == ASSUME IInv, NEW c \in Client, ExitAdd(c) PROVE IInv'
<1> c \in Actor /\ c \notin Worker /\ Client \subseteq Actor /\ Worker \subseteq Actor
  BY PoolAssumption DEF Actor
<1> USE DEF IInv, Go, ExitAdd, Add, Free
<1>1. jobs' \in Seq(Job \cup {NIL}) /\ jobs' # <<>>
  BY Added DEF TypeOK
<1>2. TypeOK' /\ RoleInv'
  BY <1>1 DEF TypeOK, RoleInv
<1>3. /\ \A w \in Worker : pc'[w] = pc[w]
      /\ UNCHANGED <<job, done, added, active, mark, owner>>
  BY DEF TypeOK
<1>4. Busy' = Busy
  BY <1>3 DEF Busy
<1>5. CountInv' /\ WorkInv' /\ MarkInv'
  BY <1>1, <1>3, <1>4 DEF CountInv, WorkInv, MarkInv
<1>6. LockInv' /\ IdleInv' /\ WaitMeansDone'
  BY DEF TypeOK, LockInv, IdleInv, WaitMeansDone
<1>7. JobInv'
  <2> SUFFICES ASSUME NEW j \in 1..added PROVE Kept(j)'
    BY <1>3 DEF JobInv
  <2>1. Kept(j)
    BY DEF JobInv
  <2>2. CASE \E i \in 1..Len(jobs) : jobs[i] = j
    BY <2>2, Added DEF TypeOK, Kept
  <2> QED
    BY <1>3, <2>1, <2>2 DEF Kept
<1> QED
  BY <1>2, <1>5, <1>6, <1>7

-----------------------------------------------------------------------------
(* The invariant is inductive.                                             *)
LEMMA NextIInv == IInv /\ [Next]_vars => IInv'
<1> SUFFICES ASSUME IInv, [Next]_vars PROVE IInv'
  OBVIOUS
<1>1. CASE \E w \in Worker : WorkerStep(w) \/ RunAdds(w) \/ addthread(w)
  <2>1. PICK w \in Worker : WorkerStep(w) \/ RunAdds(w) \/ addthread(w)
    BY <1>1
  <2>2. CASE Count(w)
    BY <2>2, CountStep
  <2>3. CASE Finish(w)
    BY <2>3, FinishStep
  <2>4. CASE Take(w)
    BY <2>4, TakeStep
  <2>5. CASE RunAdds(w)
    BY <2>5, AddStep DEF RunAdds, AddNext, Add, Actor
  <2> QED
    BY <2>1, <2>2, <2>3, <2>4, <2>5, WorkerQuiet DEF WorkerStep
<1>2. CASE \E c \in Client : ClientStep(c) \/ Call(c) \/ Return(c)
  <2>1. PICK c \in Client : ClientStep(c) \/ Call(c) \/ Return(c)
    BY <1>2
  <2>2. CASE WaitIdle(c)
    BY <2>2, WaitIdleStep
  <2>3. CASE WaitTry(c)
    BY <2>3, WaitTryStep
  <2>4. CASE ExitAdd(c)
    BY <2>4, ExitAddStep
  <2>5. CASE addjob(c)
    BY <2>5, AddStep DEF addjob, AddNext, Add, Actor
  <2> QED
    BY <2>1, <2>2, <2>3, <2>4, <2>5, ClientQuiet DEF ClientStep, Call
<1>3. CASE \E x \in {"job", "act", "thr"}, a \in Actor : Spurious(x, a)
  <2>1. TypeOK'
    BY <1>3 DEF IInv, TypeOK, Spurious
  <2> QED
    BY <1>3, <2>1 DEF IInv, Spurious, RoleInv, LockInv, WorkInv, CountInv, Busy, IdleInv, JobInv, Kept,
                      MarkInv, WaitMeansDone
<1>4. CASE UNCHANGED vars
  BY <1>4 DEF vars, IInv, TypeOK, RoleInv, LockInv, WorkInv, CountInv, Busy, IdleInv, JobInv, Kept,
              MarkInv, WaitMeansDone
<1> QED
  BY <1>1, <1>2, <1>3, <1>4 DEF Next

(* The invariant holds of the pool.                                        *)
LEMMA Invariant == Spec => []IInv
  BY InitIInv, NextIInv, PTL DEF Spec

(* What is queued, run and done was added, and is in no two places.        *)
ApartInv ==
  /\ \A i \in 1..Len(jobs) : jobs[i] # NIL => jobs[i] \in 1..added /\ jobs[i] \notin done
  /\ \A i, k \in 1..Len(jobs) : jobs[i] = jobs[k] /\ jobs[i] # NIL => i = k
  /\ \A w \in Held : job[w] \in 1..added /\ job[w] \notin done
  /\ \A w \in Held, i \in 1..Len(jobs) : job[w] # jobs[i]
  /\ \A v, w \in Held : job[v] = job[w] => v = w
  /\ done \subseteq 1..added

LEMMA InitApart == Init => ApartInv
<1> SUFFICES ASSUME Init PROVE ApartInv
  OBVIOUS
<1>1. Held = {}
  BY DEF Init, Held
<1>2. jobs = <<>> /\ done = {}
  BY DEF Init
<1> QED
  BY <1>1, <1>2 DEF ApartInv

(* Where neither the queue nor what workers hold changes, nothing happens. *)
LEMMA ApartQuiet ==
  ASSUME ApartInv, UNCHANGED <<jobs, added, done>>, Held' \subseteq Held, \A w \in Held' : job'[w] = job[w]
  PROVE  ApartInv'
BY DEF ApartInv

(* The job at the head of the queue goes to the worker.                    *)
LEMMA ApartTake ==
  ASSUME IInv, ApartInv, NEW w \in Worker, Take(w)
  PROVE  ApartInv'
<1> USE DEF IInv, Take, Go, Release
<1>1. /\ Len(jobs) \in Nat \ {0} /\ Len(jobs') = Len(jobs) - 1
      /\ \A i \in 1..Len(jobs') : jobs'[i] = jobs[i+1]
      /\ Head(jobs) = jobs[1]
  BY DEF TypeOK, WorkInv
<1>2. job'[w] = jobs[1] /\ UNCHANGED <<added, done>>
  BY <1>1 DEF TypeOK
<1>3. \A v \in Held' : v # w => v \in Held /\ job'[v] = job[v]
  BY PoolAssumption DEF TypeOK, Held, Actor
<1>4. w \in Held' => jobs[1] # NIL
  BY <1>2 DEF Held
<1>5. \A i \in 1..Len(jobs') : i + 1 \in 1..Len(jobs) /\ i + 1 # 1
  BY <1>1
<1>6. 1 \in 1..Len(jobs)
  BY <1>1
<1>7. \A i \in 1..Len(jobs') : jobs'[i] # NIL => jobs'[i] \in 1..added' /\ jobs'[i] \notin done'
  BY <1>1, <1>2, <1>5 DEF ApartInv
<1>8. \A i, k \in 1..Len(jobs') : jobs'[i] = jobs'[k] /\ jobs'[i] # NIL => i = k
  BY <1>1, <1>5 DEF ApartInv
<1>9. \A v \in Held' : job'[v] \in 1..added' /\ job'[v] \notin done'
  BY <1>2, <1>3, <1>4, <1>6 DEF ApartInv
<1>10. \A v \in Held', i \in 1..Len(jobs') : job'[v] # jobs'[i]
  <2> SUFFICES ASSUME NEW v \in Held', NEW i \in 1..Len(jobs') PROVE job'[v] # jobs'[i]
    OBVIOUS
  <2>1. CASE v = w
    BY <1>1, <1>2, <1>4, <1>5, <1>6, <2>1 DEF ApartInv
  <2>2. CASE v # w
    BY <1>1, <1>3, <1>5, <2>2 DEF ApartInv
  <2> QED
    BY <2>1, <2>2
<1>11. \A u, v \in Held' : job'[u] = job'[v] => u = v
  BY <1>2, <1>3, <1>6 DEF ApartInv
<1> QED
  BY <1>2, <1>7, <1>8, <1>9, <1>10, <1>11 DEF ApartInv

(* The number of a job that is added is new; a NIL has no number.          *)
LEMMA ApartAdd ==
  ASSUME IInv, ApartInv, NEW j \in Job \cup {NIL}, jobs' = Append(jobs, j),
         \/ j = NIL /\ added' = added
         \/ j = added + 1 /\ added' = added + 1,
         done' = done, Held' = Held, job' = job
  PROVE  ApartInv'
<1>1. /\ Len(jobs) \in Nat /\ Len(jobs') = Len(jobs) + 1
      /\ \A i \in 1..Len(jobs) : jobs'[i] = jobs[i]
      /\ jobs'[Len(jobs) + 1] = j
  BY DEF IInv, TypeOK
<1>2. added \in Nat
  BY UseAssumption DEF IInv, TypeOK
<1>3. /\ \A i \in 1..Len(jobs') : i \in 1..Len(jobs) \/ i = Len(jobs) + 1
      /\ 1..added \subseteq 1..added'
      /\ j # NIL => j \in 1..added' /\ j \notin 1..added
  BY <1>1, <1>2 DEF NIL
<1>4. \A i \in 1..Len(jobs') : jobs'[i] # NIL => jobs'[i] \in 1..added' /\ jobs'[i] \notin done'
  BY <1>1, <1>3 DEF ApartInv
<1>5. \A i, k \in 1..Len(jobs') : jobs'[i] = jobs'[k] /\ jobs'[i] # NIL => i = k
  BY <1>1, <1>3 DEF ApartInv
<1>6. \A w \in Held', i \in 1..Len(jobs') : job'[w] # jobs'[i]
  BY <1>1, <1>3 DEF ApartInv, Held
<1> QED
  BY <1>3, <1>4, <1>5, <1>6 DEF ApartInv

(* A job that has been run is held no longer.                              *)
LEMMA ApartEnds ==
  ASSUME IInv, ApartInv, NEW w \in Worker, RunEnds(w)
  PROVE  ApartInv'
<1>1. w \in Held
  BY DEF IInv, RunEnds, Go, WorkInv, Held
<1>2. Held' \subseteq Held \ {w}
  BY PoolAssumption DEF IInv, RunEnds, Go, TypeOK, Held, Actor
<1>3. done' = done \cup {job[w]} /\ jobs' = jobs /\ job' = job /\ added' = added
  BY DEF RunEnds
<1>4. \A i \in 1..Len(jobs') : jobs'[i] # NIL => jobs'[i] \in 1..added' /\ jobs'[i] \notin done'
  BY <1>1, <1>3 DEF ApartInv
<1>5. \A i, k \in 1..Len(jobs') : jobs'[i] = jobs'[k] /\ jobs'[i] # NIL => i = k
  BY <1>3 DEF ApartInv
<1>6. \A v \in Held' : job'[v] \in 1..added' /\ job'[v] \notin done'
  BY <1>1, <1>2, <1>3 DEF ApartInv
<1>7. \A v \in Held', i \in 1..Len(jobs') : job'[v] # jobs'[i]
  BY <1>2, <1>3 DEF ApartInv
<1>8. \A u, v \in Held' : job'[u] = job'[v] => u = v
  BY <1>2, <1>3 DEF ApartInv
<1>9. done' \subseteq 1..added'
  <2>1. job[w] \in 1..added /\ done \subseteq 1..added
    BY <1>1 DEF ApartInv
  <2> QED
    BY <1>3, <2>1
<1> QED
  BY <1>4, <1>5, <1>6, <1>7, <1>8, <1>9 DEF ApartInv

(* No other step moves a job.                                              *)
LEMMA NextApart == ApartInv /\ IInv /\ [Next]_vars => ApartInv'
<1> SUFFICES ASSUME ApartInv, IInv, [Next]_vars PROVE ApartInv'
  OBVIOUS
<1> /\ Worker \subseteq Actor /\ Client \subseteq Actor /\ Worker \cap Client = {}
  BY PoolAssumption DEF Actor
<1>1. CASE \E w \in Worker : WorkerStep(w) \/ RunAdds(w) \/ addthread(w)
  <2>1. PICK w \in Worker : WorkerStep(w) \/ RunAdds(w) \/ addthread(w)
    BY <1>1
  <2>2. CASE Take(w)
    BY <2>2, ApartTake
  <2>3. CASE RunEnds(w)
    BY <2>3, ApartEnds
  <2>4. CASE RunAdds(w)
    <3>1. Held' = Held
      BY <2>4 DEF IInv, TypeOK, RunAdds, Go, Held
    <3>2. added + 1 \in Job
      BY <2>4, UseAssumption DEF IInv, TypeOK, RunAdds, AddNext, Job
    <3> QED
      BY <2>4, <3>1, <3>2, ApartAdd DEF RunAdds, AddNext, Add
  <2>5. CASE Register(w) \/ Sleep(w) \/ LockJob(w) \/ Count(w) \/ Unregister(w) \/ RunAdded(w)
             \/ Finish(w) \/ addthread(w)
    <3>1. UNCHANGED <<jobs, added, done, job>>
      BY <2>5 DEF Register, Sleep, LockJob, Count, Unregister, RunAdded, Finish, addthread
    <3>2. Held' \subseteq Held
      BY <2>5, <3>1 DEF IInv, TypeOK, Held, Go, Register, Sleep, LockJob, Count, Unregister, RunAdded,
                      Finish, addthread
    <3> QED
      BY <3>1, <3>2, ApartQuiet
  <2>6. CASE TellJob(w)
    <3>1. UNCHANGED <<jobs, added, done, job>>
      BY <2>6 DEF TellJob
    <3>2. Held' \subseteq Held
      BY <2>6, <3>1 DEF IInv, TypeOK, Held, Go, TellJob
    <3> QED
      BY <3>1, <3>2, ApartQuiet
  <2>7. CASE TellAct(w)
    <3>1. UNCHANGED <<jobs, added, done>>
      BY <2>7 DEF TellAct
    <3>2. Held' \subseteq Held \ {w} /\ \A v \in Worker \ {w} : job'[v] = job[v]
      BY <2>7 DEF IInv, TypeOK, Held, Go, TellAct
    <3> QED
      BY <3>1, <3>2, ApartQuiet DEF Held
  <2> QED
    BY <2>1, <2>2, <2>3, <2>4, <2>5, <2>6, <2>7 DEF WorkerStep
<1>2. CASE \E c \in Client : ClientStep(c) \/ Call(c) \/ Return(c)
  <2>1. PICK c \in Client : ClientStep(c) \/ Call(c) \/ Return(c)
    BY <1>2
  <2>2. job' = job /\ \A w \in Worker : pc'[w] = pc[w]
    <3>1. job' = job
      BY <2>1 DEF ClientStep, Call, Return, AddEnds, WaitIdle, WaitTry, WaitJobTest, WaitActTest, ExitTest,
                  ExitAdd, ExitWait, addjob, wait, wait_job, wait_act, exit
    <3>2. CASE AddEnds(c) \/ WaitTry(c) \/ ExitAdd(c) \/ ExitWait(c) \/ Call(c) \/ Return(c)
      BY <3>2 DEF IInv, TypeOK, Go, Call, Return, AddEnds, WaitTry, ExitAdd, ExitWait, addjob, wait,
                  wait_job, wait_act, exit
    <3>3. CASE WaitIdle(c)
      BY <3>3 DEF IInv, TypeOK, Go, WaitIdle
    <3>4. CASE WaitJobTest(c)
      BY <3>4 DEF IInv, TypeOK, Go, WaitJobTest
    <3>5. CASE WaitActTest(c)
      BY <3>5 DEF IInv, TypeOK, Go, WaitActTest
    <3>6. CASE ExitTest(c)
      BY <3>6 DEF IInv, TypeOK, Go, ExitTest
    <3> QED
      BY <2>1, <3>1, <3>2, <3>3, <3>4, <3>5, <3>6 DEF ClientStep
  <2>3. Held' = Held
    BY <2>2 DEF Held
  <2>4. CASE addjob(c)
    <3>1. added + 1 \in Job
      BY <2>4, UseAssumption DEF IInv, TypeOK, addjob, AddNext, Job
    <3> QED
      BY <2>2, <2>3, <2>4, <3>1, ApartAdd DEF addjob, AddNext, Add
  <2>5. CASE ExitAdd(c)
    BY <2>2, <2>3, <2>5, ApartAdd DEF ExitAdd, Add
  <2>6. CASE ~ addjob(c) /\ ~ ExitAdd(c)
    <3>1. UNCHANGED <<jobs, added, done>>
      BY <2>1, <2>6 DEF ClientStep, Call, Return, AddEnds, WaitIdle, WaitTry, WaitJobTest, WaitActTest,
                ExitTest, ExitWait, wait, wait_job, wait_act, exit
    <3> QED
      BY <2>2, <2>3, <3>1, ApartQuiet
  <2> QED
    BY <2>4, <2>5, <2>6
<1>3. CASE \E x \in {"job", "act", "thr"}, a \in Actor : Spurious(x, a)
  BY <1>3, ApartQuiet DEF Spurious, Held
<1>4. CASE UNCHANGED vars
  BY <1>4, ApartQuiet DEF vars, Held
<1> QED
  BY <1>1, <1>2, <1>3, <1>4 DEF Next

(* Variables of the pool have their types.                                 *)
THEOREM TypeCorrect == Spec => []TypeOK
<1>1. IInv => TypeOK
  BY DEF IInv
<1> QED
  BY <1>1, Invariant, PTL

(* threadpool.wait returns only when the jobs added before the call are    *)
(* done, for any number of threads, limits and jobs.                       *)
THEOREM WaitSound == Spec => []WaitMeansDone
<1>1. IInv => WaitMeansDone
  BY DEF IInv
<1> QED
  BY <1>1, Invariant, PTL

(* Every job is in one place, so that none is lost and none is run twice.  *)
THEOREM JobsInOnePlace == Spec => []JobsAccounted
<1>1. IInv /\ ApartInv => JobsAccounted
  <2> SUFFICES ASSUME IInv, ApartInv PROVE JobsAccounted
    OBVIOUS
  <2>1. (Queued \ {NIL}) \cup {job[w] : w \in Held} \cup done \subseteq 1..added
    <3>1. Queued \ {NIL} \subseteq 1..added
      BY DEF ApartInv, Queued
    <3>2. {job[w] : w \in Held} \subseteq 1..added
      BY DEF ApartInv
    <3>3. done \subseteq 1..added
      BY DEF ApartInv
    <3> QED
      BY <3>1, <3>2, <3>3
  <2>2. ASSUME NEW j \in 1..added PROVE j \in (Queued \ {NIL}) \cup {job[w] : w \in Held} \cup done
    <3>1. j # NIL /\ Kept(j)
      BY DEF IInv, JobInv, NIL
    <3> QED
      BY <3>1 DEF Kept, Queued, Held
  <2>3. NIL \notin done
    BY DEF ApartInv, NIL
  <2>4. Queued \cap done = {}
    BY <2>3 DEF ApartInv, Queued
  <2> QED
    BY <2>1, <2>2, <2>4 DEF ApartInv, JobsAccounted, Queued
<1>2. IInv /\ ApartInv /\ [Next]_vars => (IInv /\ ApartInv)'
  BY NextIInv, NextApart
<1>3. Init => IInv /\ ApartInv
  BY InitIInv, InitApart
<1> QED
  BY <1>1, <1>2, <1>3, PTL DEF Spec
=============================================================================
