------------------------------ MODULE JobStore ------------------------------
(* The background-job registry of src/fermiviewer/jobs.py: JobStore.submit,  *)
(* cancel and shutdown, the closure run() on a worker of the thread pool,    *)
(* and the pool as that code uses it.  One action per critical section: what *)
(* the code does under one lock is one step.                                 *)
EXTENDS Naturals, Sequences, FiniteSets

CONSTANTS
    Jobs,           \* the jobs clients may submit, each at most once
    Clients,        \* concurrent callers of cancel()
    NoJob,          \* a client that is not cancelling
    MaxWorkers,     \* threads of one pool
    MaxPending,     \* admission bound, MAX_PENDING
    RegistryBound,  \* registry size past which finished jobs are dropped, 100
    EvictBatch,     \* how many are dropped at once, 50
    MaxPools        \* bound on restarts after shutdown()

ASSUME NoJobAssumption == NoJob \notin Jobs
ASSUME JobsAssumption == IsFiniteSet(Jobs)
ASSUME BoundsAssumption ==
    /\ MaxWorkers \in Nat \ {0}
    /\ MaxPending \in Nat \ {0}
    /\ RegistryBound \in Nat
    /\ EvictBatch \in Nat \ {0}
    /\ MaxPools \in Nat \ {0}

VARIABLES
    registry,   \* JobStore._jobs, as the set of its keys ...
    serial,     \* ... and the insertion order of the dict
    status,     \* Job.status; "none" before submit()
    cancelled,  \* Job._cancelled
    fut,        \* state of Job._future
    worker,     \* progress of run() on the worker thread that took the job
    poolOf,     \* the pool a job was submitted to
    queue,      \* the work queue of each pool
    made,       \* pools created so far
    pool,       \* JobStore._pool; 0 is None
    closing,    \* the pool shutdown() took out of _pool; 0 when none
    toMark,     \* shutdown()'s local list of queued jobs
    canceller   \* the job each client is between the two halves of cancel() on

jobVars  == <<status, cancelled, fut, worker>>
poolVars == <<queue, made, pool, closing, toMark>>
vars == <<registry, serial, status, cancelled, fut, worker, poolOf, queue,
          made, pool, closing, toMark, canceller>>

Pools == 1 .. MaxPools
Terminal == {"done", "error"}
Busy == {"picked", "computing", "returned", "raised"}

TypeOK ==
    /\ registry \in SUBSET Jobs
    /\ serial \in [Jobs -> Nat]
    /\ status \in [Jobs -> {"none", "queued", "running"} \cup Terminal]
    /\ cancelled \in [Jobs -> BOOLEAN]
    /\ fut \in [Jobs -> {"none", "pending", "running", "cancelled", "finished"}]
    /\ worker \in [Jobs -> {"idle", "exited"} \cup Busy]
    /\ poolOf \in [Jobs -> 0 .. MaxPools]
    /\ queue \in [Pools -> Seq(Jobs)]
    /\ made \in Pools
    /\ pool \in 0 .. made
    /\ closing \in 0 .. made
    /\ toMark \in SUBSET Jobs
    /\ canceller \in [Clients -> Jobs \cup {NoJob}]

Init ==
    /\ registry = {}
    /\ serial = [j \in Jobs |-> 0]
    /\ status = [j \in Jobs |-> "none"]
    /\ cancelled = [j \in Jobs |-> FALSE]
    /\ fut = [j \in Jobs |-> "none"]
    /\ worker = [j \in Jobs |-> "idle"]
    /\ poolOf = [j \in Jobs |-> 0]
    /\ queue = [p \in Pools |-> <<>>]
    /\ made = 1
    /\ pool = 1
    /\ closing = 0
    /\ toMark = {}
    /\ canceller = [c \in Clients |-> NoJob]

----------------------------------------------------------------------------
(* submit(): one critical section under JobStore._lock.                      *)

Queued == {j \in registry : status[j] = "queued"}

Finished_OnlyDone == {j \in registry : status[j] = "done"}
Finished_Any == registry
Finished == {j \in registry : status[j] \in Terminal}

\* The oldest EvictBatch finished jobs, all of them if there are fewer.
Oldest(finished, dropped) ==
    /\ dropped \subseteq finished
    /\ \A d \in dropped, k \in finished \ dropped : serial[d] < serial[k]
    /\ \/ Cardinality(dropped) = EvictBatch
       \/ Cardinality(dropped) < EvictBatch /\ dropped = finished

Dropped(dropped) ==
    IF Cardinality(registry) > RegistryBound THEN Oldest(Finished, dropped)
                                             ELSE dropped = {}

\* submit() restarts a store that was shut down: a fresh pool, numbered next.
PoolsMade == IF pool = 0 THEN made + 1 ELSE made
CurrentPool == IF pool = 0 THEN made + 1 ELSE pool

Submit(j) ==
    /\ status[j] = "none"
    /\ Cardinality(Queued) < MaxPending         \* else JobQueueFullError
    /\ \E dropped \in SUBSET registry :
          /\ Dropped(dropped)
          /\ registry' = (registry \ dropped) \cup {j}
    /\ pool = 0 => made < MaxPools
    /\ made' = PoolsMade
    /\ pool' = CurrentPool
    /\ serial' = [serial EXCEPT ![j] =
                    Cardinality({k \in Jobs : status[k] # "none"})]
    /\ status' = [status EXCEPT ![j] = "queued"]
    /\ fut' = [fut EXCEPT ![j] = "pending"]
    /\ poolOf' = [poolOf EXCEPT ![j] = CurrentPool]
    /\ queue' = [queue EXCEPT ![CurrentPool] = Append(@, j)]
    /\ UNCHANGED <<cancelled, worker, closing, toMark, canceller>>

----------------------------------------------------------------------------
(* A worker thread: the executor's loop, then run().                         *)

BusyOn(p) == {j \in Jobs : poolOf[j] = p /\ worker[j] \in Busy}

\* The executor skips a work item whose future was cancelled meanwhile.
Pick(p) ==
    /\ queue[p] # <<>>
    /\ Cardinality(BusyOn(p)) < MaxWorkers
    /\ LET j == Head(queue[p]) IN
         IF fut[j] = "pending"
         THEN /\ fut' = [fut EXCEPT ![j] = "running"]
              /\ worker' = [worker EXCEPT ![j] = "picked"]
         ELSE UNCHANGED <<fut, worker>>
    /\ queue' = [queue EXCEPT ![p] = Tail(@)]
    /\ UNCHANGED <<registry, serial, status, cancelled, poolOf, made, pool,
                   closing, toMark, canceller>>

\* run() leaves: the future is finished and the thread is free again.
Leave(j) ==
    /\ worker' = [worker EXCEPT ![j] = "exited"]
    /\ fut' = [fut EXCEPT ![j] = "finished"]

Begin(j) ==
    /\ worker[j] = "picked"
    /\ IF status[j] # "queued"                  \* cancelled before starting
       THEN Leave(j) /\ UNCHANGED status
       ELSE /\ status' = [status EXCEPT ![j] = "running"]
            /\ worker' = [worker EXCEPT ![j] = "computing"]
            /\ UNCHANGED fut
    /\ UNCHANGED <<registry, serial, cancelled, poolOf, poolVars, canceller>>

\* fn(job.report) returns, or raises: by itself, or out of report() once the
\* job is cancelled.  A report() of a job that is not cancelled only moves the
\* progress bar.
Compute(j) ==
    /\ worker[j] = "computing"
    /\ \E how \in {"returned", "raised"} : worker' = [worker EXCEPT ![j] = how]
    /\ UNCHANGED <<registry, serial, status, cancelled, fut, poolOf, poolVars,
                   canceller>>

\* The result is published without asking whether the job was cancelled.
Publish_Always(j) ==
    /\ worker[j] \in {"returned", "raised"}
    /\ Leave(j)
    /\ status' = [status EXCEPT ![j] =
                    IF worker[j] = "returned" THEN "done" ELSE "error"]
    /\ UNCHANGED <<registry, serial, cancelled, poolOf, poolVars, canceller>>

Publish(j) ==
    /\ worker[j] \in {"returned", "raised"}
    /\ Leave(j)
    /\ status' = [status EXCEPT ![j] =
                    IF cancelled[j] THEN @      \* finished after a cancel
                    ELSE IF worker[j] = "returned" THEN "done" ELSE "error"]
    /\ UNCHANGED <<registry, serial, cancelled, poolOf, poolVars, canceller>>

----------------------------------------------------------------------------
(* cancel(): the future first, without a lock; then the job, under its own.  *)

CancelFuture(c, j) ==
    /\ canceller[c] = NoJob
    /\ j \in registry
    /\ canceller' = [canceller EXCEPT ![c] = j]
    /\ fut' = [fut EXCEPT ![j] = IF @ = "pending" THEN "cancelled" ELSE @]
    /\ UNCHANGED <<registry, serial, status, cancelled, worker, poolOf, poolVars>>

\* Only a running job is marked: the future of a queued one was cancelled.
CancelJob_RunningOnly(c) ==
    /\ canceller[c] # NoJob
    /\ LET j == canceller[c] IN
         IF status[j] = "running"
         THEN /\ cancelled' = [cancelled EXCEPT ![j] = TRUE]
              /\ status' = [status EXCEPT ![j] = "error"]
         ELSE UNCHANGED <<cancelled, status>>
    /\ canceller' = [canceller EXCEPT ![c] = NoJob]
    /\ UNCHANGED <<registry, serial, fut, worker, poolOf, poolVars>>

CancelJob(c) ==
    /\ canceller[c] # NoJob
    /\ LET j == canceller[c] IN
         IF status[j] \in {"queued", "running"}
         THEN /\ cancelled' = [cancelled EXCEPT ![j] = TRUE]
              /\ status' = [status EXCEPT ![j] = "error"]
         ELSE UNCHANGED <<cancelled, status>>   \* already finished: False
    /\ canceller' = [canceller EXCEPT ![c] = NoJob]
    /\ UNCHANGED <<registry, serial, fut, worker, poolOf, poolVars>>

----------------------------------------------------------------------------
(* shutdown(): the pool is taken out under _lock, its queue is drained and   *)
(* its jobs are marked outside that lock, while workers, cancel() and a      *)
(* submit() that opens a fresh pool go on.                                   *)

ShutdownTake ==
    /\ closing = 0
    /\ pool # 0
    /\ closing' = pool
    /\ pool' = 0
    /\ toMark' = Queued
    /\ UNCHANGED <<registry, serial, jobVars, poolOf, queue, made, canceller>>

\* Executor.shutdown(cancel_futures=True) removes the items one by one.
ShutdownDrain ==
    /\ closing # 0
    /\ queue[closing] # <<>>
    /\ LET j == Head(queue[closing]) IN
         fut' = [fut EXCEPT ![j] = IF @ = "pending" THEN "cancelled" ELSE @]
    /\ queue' = [queue EXCEPT ![closing] = Tail(@)]
    /\ UNCHANGED <<registry, serial, status, cancelled, worker, poolOf, made,
                   pool, closing, toMark, canceller>>

\* Every job that was queued is marked, also one a worker has taken since.
ShutdownMark_All(j) ==
    /\ closing # 0
    /\ queue[closing] = <<>>
    /\ j \in toMark
    /\ status' = [status EXCEPT ![j] = "error"]
    /\ toMark' = toMark \ {j}
    /\ UNCHANGED <<registry, serial, cancelled, fut, worker, poolOf, queue,
                   made, pool, closing, canceller>>

\* shutdown() waits for each of those futures to be cancelled.
ShutdownMark_Waits(j) ==
    /\ closing # 0
    /\ queue[closing] = <<>>
    /\ j \in toMark
    /\ fut[j] = "cancelled"
    /\ status' = [status EXCEPT ![j] = "error"]
    /\ toMark' = toMark \ {j}
    /\ UNCHANGED <<registry, serial, cancelled, fut, worker, poolOf, queue,
                   made, pool, closing, canceller>>

ShutdownMark(j) ==
    /\ closing # 0
    /\ queue[closing] = <<>>
    /\ j \in toMark
    /\ status' = [status EXCEPT ![j] = IF fut[j] = "cancelled" THEN "error" ELSE @]
    /\ toMark' = toMark \ {j}
    /\ UNCHANGED <<registry, serial, cancelled, fut, worker, poolOf, queue,
                   made, pool, closing, canceller>>

ShutdownReturn ==
    /\ closing # 0
    /\ queue[closing] = <<>>
    /\ toMark = {}
    /\ closing' = 0
    /\ UNCHANGED <<registry, serial, jobVars, poolOf, queue, made, pool, toMark,
                   canceller>>

----------------------------------------------------------------------------
Next ==
    \/ \E j \in Jobs : \/ Submit(j)
                       \/ Begin(j)
                       \/ Compute(j)
                       \/ Publish(j)
                       \/ ShutdownMark(j)
    \/ \E p \in Pools : Pick(p)
    \/ \E c \in Clients : \/ \E j \in Jobs : CancelFuture(c, j)
                          \/ CancelJob(c)
    \/ ShutdownTake
    \/ ShutdownDrain
    \/ ShutdownReturn

Spec == Init /\ [][Next]_vars

\* Threads that can run do run, and a job's own computation ends.  Nothing
\* makes a client submit or cancel, or the application stop.
Fairness ==
    /\ \A j \in Jobs : /\ WF_vars(Begin(j))
                       /\ WF_vars(Compute(j))
                       /\ WF_vars(Publish(j))
                       /\ WF_vars(ShutdownMark(j))
    /\ \A p \in Pools : WF_vars(Pick(p))
    /\ \A c \in Clients : WF_vars(CancelJob(c))
    /\ WF_vars(ShutdownDrain)
    /\ WF_vars(ShutdownReturn)

FairSpec == Spec /\ Fairness

----------------------------------------------------------------------------
(* Properties.                                                               *)

\* No phantom "queued" job: whatever is reported as queued is in the queue of
\* the pool in use, or a worker has taken it, or a cancel() or the shutdown()
\* that will end it is under way (the comment in submit(), jobs.py:118-123).
InQueue(j, p) == \E i \in DOMAIN queue[p] : queue[p][i] = j

NoPhantom ==
    \A j \in Jobs : status[j] = "queued" =>
        \/ pool # 0 /\ poolOf[j] = pool /\ InQueue(j, pool)
        \/ worker[j] = "picked"
        \/ closing # 0 /\ j \in toMark
        \/ \E c \in Clients : canceller[c] = j

\* A job a worker still computes, or will start, is never already reported
\* done, nor reported in error unless its cancellation was accepted; so an
\* "error" with a live computation behind it is a cancelled one, whose result
\* run() discards.
EndedMeansStopped ==
    \A j \in Jobs : worker[j] \in Busy /\ status[j] \in Terminal =>
                        status[j] = "error" /\ cancelled[j]

\* Nothing that still has to run or to be polled for a first answer leaves the
\* registry: eviction concerns ended jobs only (jobs.py:132-140).
UnfinishedRegistered ==
    \A j \in Jobs : status[j] \in {"queued", "running"} => j \in registry

\* The registry does not grow past its bound by more than the job just
\* admitted, however submissions, restarts and cancellations interleave.
RegistryBounded == Cardinality(registry) <= RegistryBound + 1

\* What a poller sees refines the promise: an end is final, a cancelled job
\* never becomes done, a queued job never ends done without running.
Lifecycle == INSTANCE JobLifecycle
PollerSees == Lifecycle!Spec

\* Pollers always reach a terminal state (jobs.py:8-11), also when the job is
\* cancelled at any point or the store is shut down with work queued.
PollersTerminate ==
    \A j \in Jobs : status[j] = "queued" ~> status[j] \in Terminal

\* shutdown() returns although jobs keep running and new ones are submitted:
\* quitting never waits behind the backlog (jobs.py:14-16).
ShutdownEnds == closing # 0 ~> closing = 0

=============================================================================
