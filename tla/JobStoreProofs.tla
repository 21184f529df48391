--------------------------- MODULE JobStoreProofs ---------------------------
(* Theorems about JobStore, for every number of jobs, clients, workers and   *)
(* restarts.                                                                 *)
EXTENDS JobStore, FiniteSetTheorems, TLAPS

\* The future of a job and the thread behind it agree with its status.
FutureOf(j) ==
    /\ fut[j] = "none" <=> status[j] = "none"
    /\ fut[j] \in {"none", "pending", "cancelled"} => worker[j] = "idle"
    /\ fut[j] = "running" <=> worker[j] \in Busy
    /\ fut[j] = "pending" => status[j] = "queued"
    /\ fut[j] = "cancelled" => status[j] \in {"queued", "error"}
    /\ fut[j] = "finished" => status[j] \in Terminal
    /\ worker[j] = "picked" => status[j] \in {"queued", "error"}
    /\ worker[j] \in {"computing", "returned", "raised"}
          => status[j] \in {"running", "error"}
    /\ cancelled[j] => status[j] = "error"
    /\ fut[j] = "running" /\ status[j] = "error" => cancelled[j]

FutureInv == \A j \in Jobs : FutureOf(j)

\* A pending future is in the queue of the pool in use or of the one being
\* shut down, and then shutdown() has the job on its list.
PendingInv ==
    /\ closing # 0 => closing # pool
    /\ \A j \in Jobs : fut[j] = "pending" =>
          /\ poolOf[j] # 0
          /\ poolOf[j] \in {pool, closing}
          /\ InQueue(j, poolOf[j])
          /\ poolOf[j] = closing => j \in toMark

\* A job is in no queue but that of the pool it was submitted to.
QueueInv ==
    \A j \in Jobs :
        /\ status[j] = "none" => poolOf[j] = 0
        /\ \A p \in Pools : InQueue(j, p) => poolOf[j] = p

\* Whoever cancelled the future of a job still reported as queued has not
\* finished: it will report the end.
OwedInv ==
    \A j \in Jobs : fut[j] = "cancelled" /\ status[j] = "queued" =>
        \/ closing # 0 /\ j \in toMark
        \/ \E c \in Clients : canceller[c] = j

\* A cancel() in its second half concerns a job whose future is past cancelling.
CancellerInv ==
    /\ \A j \in registry : status[j] # "none"
    /\ \A c \in Clients : canceller[c] # NoJob =>
                                fut[canceller[c]] \notin {"none", "pending"}

IInv ==
    /\ TypeOK /\ FutureInv /\ PendingInv /\ QueueInv /\ OwedInv /\ CancellerInv
    /\ UnfinishedRegistered

----------------------------------------------------------------------------
Within(k, q) == \E i \in DOMAIN q : q[i] = k

\* Append adds its element to what is in a queue.
LEMMA AppendLemma ==
    ASSUME NEW q \in Seq(Jobs), NEW x \in Jobs
    PROVE  /\ Append(q, x) \in Seq(Jobs)
           /\ \A k : Within(k, Append(q, x)) <=> Within(k, q) \/ k = x
<1>1. /\ Append(q, x) \in Seq(Jobs)
      /\ DOMAIN q = 1 .. Len(q)
      /\ DOMAIN Append(q, x) = 1 .. Len(q) + 1
      /\ Len(q) \in Nat
      /\ \A i \in 1 .. Len(q) : Append(q, x)[i] = q[i]
      /\ Append(q, x)[Len(q) + 1] = x
  OBVIOUS
<1>2. \A k : Within(k, q) \/ k = x => Within(k, Append(q, x))
  <2>1. Len(q) + 1 \in DOMAIN Append(q, x) /\ DOMAIN q \subseteq DOMAIN Append(q, x)
    BY <1>1
  <2> QED BY <1>1, <2>1 DEF Within
<1>3. ASSUME NEW k, NEW i \in DOMAIN Append(q, x), Append(q, x)[i] = k, k # x
      PROVE  i \in DOMAIN q /\ q[i] = k
  BY <1>1, <1>3
<1> QED BY <1>1, <1>2, <1>3 DEF Within

\* Tail removes at most the head from what is in a queue, and adds nothing.
LEMMA TailLemma ==
    ASSUME NEW q \in Seq(Jobs), q # <<>>
    PROVE  /\ Head(q) \in Jobs
           /\ Within(Head(q), q)
           /\ Tail(q) \in Seq(Jobs)
           /\ \A k : Within(k, Tail(q)) => Within(k, q)
           /\ \A k : Within(k, q) /\ k # Head(q) => Within(k, Tail(q))
<1>1. /\ Head(q) \in Jobs
      /\ Tail(q) \in Seq(Jobs)
      /\ Len(q) \in Nat \ {0}
      /\ DOMAIN q = 1 .. Len(q)
      /\ DOMAIN Tail(q) = 1 .. Len(q) - 1
      /\ Head(q) = q[1]
      /\ \A i \in 1 .. Len(q) - 1 : Tail(q)[i] = q[i + 1]
  OBVIOUS
<1>2. 1 \in DOMAIN q
  BY <1>1
<1>3. ASSUME NEW k, NEW i \in DOMAIN q, q[i] = k, k # Head(q)
      PROVE  i - 1 \in DOMAIN Tail(q) /\ Tail(q)[i - 1] = k
  BY <1>1, <1>3
<1>4. ASSUME NEW k, NEW i \in DOMAIN Tail(q), Tail(q)[i] = k
      PROVE  i + 1 \in DOMAIN q /\ q[i + 1] = k
  BY <1>1, <1>4
<1> QED BY <1>1, <1>2, <1>3, <1>4 DEF Within

LEMMA InitInv == Init => IInv
BY NoJobAssumption, BoundsAssumption
   DEF Init, IInv, TypeOK, FutureInv, FutureOf, PendingInv, OwedInv,
              UnfinishedRegistered,
       QueueInv, CancellerInv, InQueue, Pools, Terminal, Busy

LEMMA SubmitInv ==
    ASSUME IInv, NEW j \in Jobs, Submit(j)
    PROVE  IInv'
<1> USE DEF IInv
<1>1. Cardinality({k \in Jobs : status[k] # "none"}) \in Nat
  <2>1. IsFiniteSet({k \in Jobs : status[k] # "none"})
    BY JobsAssumption, FS_Subset
  <2> QED BY <2>1, FS_CardinalityType
<1>2. /\ CurrentPool \in Pools
      /\ CurrentPool # 0
      /\ closing # 0 => CurrentPool # closing
      /\ pool # 0 => CurrentPool = pool
      /\ PoolsMade \in Pools
      /\ made <= PoolsMade
      /\ CurrentPool \in 0 .. PoolsMade
  BY BoundsAssumption DEF Submit, CurrentPool, PoolsMade, TypeOK, Pools, PendingInv
<1>3. /\ queue[CurrentPool] \in Seq(Jobs)
      /\ queue' = [queue EXCEPT ![CurrentPool] = Append(queue[CurrentPool], j)]
  BY <1>2 DEF Submit, TypeOK
<1>4. PICK dropped \in SUBSET registry :
          Dropped(dropped) /\ registry' = (registry \ dropped) \cup {j}
  BY DEF Submit
<1>5. \A k \in dropped : status[k] \in Terminal
  BY <1>4 DEF Dropped, Oldest, Finished, Terminal
<1>6. \A k \in Jobs, p \in Pools :
          InQueue(k, p)' <=> InQueue(k, p) \/ (k = j /\ p = CurrentPool)
  <2>1. \A k : Within(k, queue'[CurrentPool]) <=> Within(k, queue[CurrentPool]) \/ k = j
    BY <1>2, <1>3, AppendLemma DEF TypeOK
  <2>2. \A p \in Pools : p # CurrentPool => queue'[p] = queue[p]
    BY <1>2, <1>3 DEF TypeOK
  <2> QED BY <2>1, <2>2 DEF InQueue, Within
<1>7. TypeOK'
  <2>1. queue' \in [Pools -> Seq(Jobs)]
    BY <1>2, <1>3, AppendLemma DEF TypeOK
  <2> QED BY <1>1, <1>2, <2>1 DEF Submit, TypeOK, Pools, Terminal, Busy
<1>8. FutureInv'
  BY DEF Submit, TypeOK, FutureInv, FutureOf, Terminal, Busy
<1>9. PendingInv'
  <2>1. (closing # 0 => closing # pool)'
    BY <1>2 DEF Submit
  <2>2. ASSUME NEW k \in Jobs, fut'[k] = "pending"
        PROVE  /\ poolOf'[k] # 0
               /\ poolOf'[k] \in {pool', closing'}
               /\ InQueue(k, poolOf[k])'
               /\ poolOf'[k] = closing' => k \in toMark'
    <3>1. CASE k = j
      <4>1. poolOf'[k] = CurrentPool /\ pool' = CurrentPool /\ closing' = closing
        BY <3>1 DEF Submit, TypeOK
      <4>2. \E i \in DOMAIN queue'[CurrentPool] : queue'[CurrentPool][i] = k
        BY <3>1, <1>2, <1>3, AppendLemma DEF Within, TypeOK
      <4> QED BY <4>1, <4>2, <1>2 DEF InQueue
    <3>2. CASE k # j
      <4>1. /\ fut[k] = "pending"
            /\ poolOf'[k] = poolOf[k]
            /\ closing' = closing
            /\ toMark' = toMark
            /\ pool # 0 => pool' = pool
        BY <3>2, <2>2, <1>2 DEF Submit, TypeOK
      <4>2. /\ poolOf[k] # 0
            /\ poolOf[k] \in {pool, closing}
            /\ InQueue(k, poolOf[k])
            /\ poolOf[k] = closing => k \in toMark
        BY <4>1 DEF PendingInv
      <4>3. poolOf[k] \in Pools
        BY <4>2 DEF TypeOK, Pools
      <4>4. InQueue(k, poolOf[k])'
        BY <4>1, <4>2, <4>3, <1>6 DEF InQueue
      <4> QED BY <4>1, <4>2, <4>4
    <3> QED BY <3>1, <3>2
  <2> QED BY <2>1, <2>2 DEF PendingInv
<1>10. OwedInv'
  BY DEF Submit, TypeOK, OwedInv
<1>11. UnfinishedRegistered'
  BY <1>4, <1>5 DEF Submit, TypeOK, UnfinishedRegistered, Terminal
<1>12. QueueInv'
  <2>1. \A k \in Jobs : status'[k] = "none" => poolOf'[k] = 0
    BY DEF Submit, TypeOK, QueueInv
  <2>2. \A p \in Pools : ~InQueue(j, p)
    BY DEF Submit, QueueInv, Pools
  <2>3. poolOf' = [poolOf EXCEPT ![j] = CurrentPool]
    BY DEF Submit
  <2>4. ASSUME NEW k \in Jobs, NEW p \in Pools, InQueue(k, p)'
        PROVE  poolOf'[k] = p
    BY <2>2, <2>3, <2>4, <1>6 DEF TypeOK, QueueInv
  <2> QED BY <2>1, <2>4 DEF QueueInv
<1>13. CancellerInv'
  BY <1>4 DEF Submit, TypeOK, FutureInv, FutureOf, CancellerInv
<1> QED BY <1>7, <1>8, <1>9, <1>10, <1>11, <1>12, <1>13

LEMMA PickInv ==
    ASSUME IInv, NEW p \in Pools, Pick(p)
    PROVE  IInv'
<1> USE DEF IInv
<1> DEFINE j == Head(queue[p])
<1>1. queue[p] \in Seq(Jobs) /\ queue[p] # <<>>
  BY DEF Pick, TypeOK
<1>2. j \in Jobs /\ Tail(queue[p]) \in Seq(Jobs)
  BY <1>1, TailLemma
<1>3. \A k \in Jobs, r \in Pools : /\ k # j /\ InQueue(k, r) => InQueue(k, r)'
                                   /\ InQueue(k, r)' => InQueue(k, r)
  <2>1. \A k : /\ Within(k, queue[p]) /\ k # j => Within(k, Tail(queue[p]))
               /\ Within(k, Tail(queue[p])) => Within(k, queue[p])
    BY <1>1, TailLemma
  <2>2. /\ queue'[p] = Tail(queue[p])
        /\ \A r \in Pools : r # p => queue'[r] = queue[r]
    BY DEF Pick, TypeOK
  <2>3. ASSUME NEW k \in Jobs, NEW r \in Pools
        PROVE  (k # j /\ InQueue(k, r) => InQueue(k, r)') /\ (InQueue(k, r)' => InQueue(k, r))
    <3>1. InQueue(k, r) = Within(k, queue[r]) /\ InQueue(k, r)' = Within(k, queue'[r])
      BY DEF InQueue, Within
    <3>2. CASE r = p
      BY <2>1, <2>2, <3>1, <3>2
    <3>3. CASE r # p
      BY <2>2, <3>1, <3>3
    <3> QED BY <3>2, <3>3
  <2> QED BY <2>3
<1>4. TypeOK'
  BY <1>2 DEF Pick, TypeOK, Busy
<1>5. FutureInv'
  BY <1>2, SMTT(60) DEF Pick, TypeOK, FutureInv, FutureOf, Terminal, Busy
<1>6. PendingInv'
  <2>1. ASSUME NEW k \in Jobs, fut'[k] = "pending"
        PROVE  k # j /\ fut[k] = "pending"
    BY <2>1, <1>2 DEF Pick, TypeOK
  <2>2. UNCHANGED <<pool, closing, poolOf, toMark>>
    BY DEF Pick
  <2>3. \A k \in Jobs : fut'[k] = "pending" => poolOf[k] \in Pools
    BY <2>1 DEF PendingInv, TypeOK, Pools
  <2>4. ASSUME NEW k \in Jobs, fut'[k] = "pending"
        PROVE  InQueue(k, poolOf[k])'
    BY <2>1, <2>2, <2>3, <2>4, <1>3 DEF PendingInv, InQueue
  <2> QED BY <2>1, <2>2, <2>4 DEF PendingInv
<1>7. OwedInv' /\ UnfinishedRegistered'
  BY <1>2 DEF Pick, TypeOK, OwedInv, UnfinishedRegistered
<1>8. QueueInv'
  BY <1>3 DEF Pick, QueueInv
<1>9. CancellerInv'
  BY <1>2 DEF Pick, TypeOK, CancellerInv
<1> QED BY <1>4, <1>5, <1>6, <1>7, <1>8, <1>9

\* A step that leaves the pools alone and adds no pending future.
LEMMA QuietStep ==
    ASSUME PendingInv, QueueInv,
           UNCHANGED <<poolOf, queue, pool, closing, toMark>>,
           \A j \in Jobs : /\ fut'[j] = "pending" => fut[j] = "pending"
                           /\ status'[j] = "none" => status[j] = "none"
    PROVE  PendingInv' /\ QueueInv'
<1>1. \A j, p : InQueue(j, p)' <=> InQueue(j, p)
  BY DEF InQueue
<1>2. PendingInv'
  <2> SUFFICES ASSUME NEW j \in Jobs, fut'[j] = "pending"
               PROVE  /\ poolOf[j] # 0
                      /\ poolOf[j] \in {pool, closing}
                      /\ InQueue(j, poolOf[j])
                      /\ poolOf[j] = closing => j \in toMark
    BY <1>1 DEF PendingInv, InQueue
  <2> QED BY DEF PendingInv
<1>3. QueueInv'
  <2> SUFFICES ASSUME NEW j \in Jobs
               PROVE  /\ status'[j] = "none" => poolOf[j] = 0
                      /\ \A p \in Pools : InQueue(j, p) => poolOf[j] = p
    BY <1>1 DEF QueueInv
  <2> QED BY DEF QueueInv
<1> QED BY <1>2, <1>3

LEMMA BeginInv ==
    ASSUME IInv, NEW j \in Jobs, Begin(j)
    PROVE  IInv'
<1>1. TypeOK'
  BY DEF Begin, IInv, TypeOK, Busy, poolVars, Leave
<1>2. FutureInv'
  BY SMTT(60) DEF Begin, IInv, TypeOK, FutureInv, FutureOf, Terminal, Busy, Leave
<1>3. PendingInv' /\ QueueInv'
  BY QuietStep DEF Begin, IInv, TypeOK, Leave, poolVars
<1>4. OwedInv'
  <2>1. \A k \in Jobs : fut'[k] = "cancelled" /\ status'[k] = "queued" =>
                           fut[k] = "cancelled" /\ status[k] = "queued"
    BY DEF Begin, IInv, TypeOK, Leave
  <2> QED BY <2>1 DEF Begin, IInv, OwedInv, poolVars
<1>5. UnfinishedRegistered'
  BY DEF Begin, IInv, TypeOK, UnfinishedRegistered
<1>6. CancellerInv'
  BY DEF Begin, IInv, TypeOK, CancellerInv, Leave
<1> QED BY <1>1, <1>2, <1>3, <1>4, <1>5, <1>6 DEF IInv

LEMMA ComputeInv ==
    ASSUME IInv, NEW j \in Jobs, Compute(j)
    PROVE  IInv'
<1>1. TypeOK'
  BY DEF Compute, IInv, TypeOK, Busy, poolVars
<1>2. FutureInv'
  BY DEF Compute, IInv, TypeOK, FutureInv, FutureOf, Terminal, Busy
<1>3. PendingInv' /\ QueueInv'
  BY QuietStep DEF Compute, IInv, poolVars
<1>4. OwedInv' /\ UnfinishedRegistered'
  BY DEF Compute, IInv, OwedInv, UnfinishedRegistered, poolVars
<1>5. CancellerInv'
  BY DEF Compute, IInv, CancellerInv
<1> QED BY <1>1, <1>2, <1>3, <1>4, <1>5 DEF IInv

LEMMA PublishInv ==
    ASSUME IInv, NEW j \in Jobs, Publish(j)
    PROVE  IInv'
<1>1. TypeOK'
  BY DEF Publish, IInv, TypeOK, Terminal, Busy, poolVars, Leave
<1>2. FutureInv'
  BY DEF Publish, IInv, TypeOK, FutureInv, FutureOf, Terminal, Busy, Leave
<1>3. PendingInv' /\ QueueInv'
  BY QuietStep DEF Publish, IInv, TypeOK, Leave, poolVars
<1>4. OwedInv' /\ UnfinishedRegistered'
  BY DEF Publish, IInv, TypeOK, FutureInv, FutureOf, OwedInv, UnfinishedRegistered,
         Leave, Busy, poolVars
<1>5. CancellerInv'
  BY <1>2, <1>1 DEF Publish, IInv, TypeOK, FutureInv, FutureOf, CancellerInv, Leave
<1> QED BY <1>1, <1>2, <1>3, <1>4, <1>5 DEF IInv

LEMMA CancelFutureInv ==
    ASSUME IInv, NEW c \in Clients, NEW j \in Jobs, CancelFuture(c, j)
    PROVE  IInv'
<1>1. TypeOK'
  BY DEF CancelFuture, IInv, TypeOK, poolVars
<1>2. FutureInv'
  BY DEF CancelFuture, IInv, TypeOK, FutureInv, FutureOf, Terminal, Busy
<1>3. PendingInv' /\ QueueInv'
  BY QuietStep DEF CancelFuture, IInv, TypeOK, poolVars
<1>4. OwedInv'
  <2> SUFFICES ASSUME NEW k \in Jobs, fut'[k] = "cancelled", status'[k] = "queued"
               PROVE  \/ closing' # 0 /\ k \in toMark'
                      \/ \E d \in Clients : canceller'[d] = k
    BY DEF OwedInv
  <2>1. CASE k = j
    BY <2>1 DEF CancelFuture, IInv, TypeOK
  <2>2. CASE k # j
    BY <2>2, NoJobAssumption DEF CancelFuture, IInv, TypeOK, OwedInv, poolVars
  <2> QED BY <2>1, <2>2
<1>5. UnfinishedRegistered'
  BY DEF CancelFuture, IInv, UnfinishedRegistered
<1>6. CancellerInv'
  BY DEF CancelFuture, IInv, TypeOK, FutureInv, FutureOf, CancellerInv
<1> QED BY <1>1, <1>2, <1>3, <1>4, <1>5, <1>6 DEF IInv

LEMMA CancelJobInv ==
    ASSUME IInv, NEW c \in Clients, CancelJob(c)
    PROVE  IInv'
<1> DEFINE j == canceller[c]
<1>1. j \in Jobs
  BY DEF CancelJob, IInv, TypeOK
<1>2. TypeOK'
  BY <1>1 DEF CancelJob, IInv, TypeOK, Terminal, poolVars
<1>3. FutureInv'
  <2>1. CASE status[j] \in {"queued", "running"}
    <3>1. /\ cancelled' = [cancelled EXCEPT ![j] = TRUE]
          /\ status' = [status EXCEPT ![j] = "error"]
          /\ UNCHANGED <<fut, worker>>
      BY <2>1 DEF CancelJob
    <3>2. fut[j] # "none"
      BY <1>1, <2>1 DEF IInv, FutureInv, FutureOf
    <3>3. \A k \in Jobs \ {j} : status'[k] = status[k] /\ cancelled'[k] = cancelled[k]
      BY <1>1, <3>1 DEF IInv, TypeOK
    <3>4. status'[j] = "error" /\ cancelled'[j]
      BY <1>1, <3>1 DEF IInv, TypeOK
    <3>5. \A k \in Jobs \ {j} : FutureOf(k)'
      BY <3>1, <3>3 DEF IInv, FutureInv, FutureOf
    <3>6. fut[j] # "pending"
      BY DEF CancelJob, IInv, CancellerInv
    <3>7. ASSUME NEW k \in Jobs, k = j
          PROVE  FutureOf(k)'
      BY <1>1, <3>1, <3>2, <3>4, <3>6, <3>7
         DEF IInv, TypeOK, FutureInv, FutureOf, Terminal, Busy
    <3> QED BY <3>5, <3>7 DEF FutureInv, FutureOf
  <2>2. CASE status[j] \notin {"queued", "running"}
    BY <2>2 DEF CancelJob, IInv, FutureInv, FutureOf
  <2> QED BY <2>1, <2>2
<1>4. PendingInv' /\ QueueInv'
  BY <1>1, QuietStep DEF CancelJob, IInv, TypeOK, poolVars
<1>5. OwedInv'
  <2> SUFFICES ASSUME NEW k \in Jobs, fut'[k] = "cancelled", status'[k] = "queued"
               PROVE  \/ closing' # 0 /\ k \in toMark'
                      \/ \E d \in Clients : canceller'[d] = k
    BY DEF OwedInv
  <2>1. k # j /\ fut[k] = "cancelled" /\ status[k] = "queued"
    BY <1>1 DEF CancelJob, IInv, TypeOK
  <2>2. CASE closing # 0 /\ k \in toMark
    BY <2>2 DEF CancelJob, poolVars
  <2>3. CASE \E d \in Clients : canceller[d] = k
    BY <2>1, <2>3 DEF CancelJob, IInv, TypeOK
  <2> QED BY <2>1, <2>2, <2>3 DEF IInv, OwedInv
<1>6. UnfinishedRegistered'
  BY <1>1 DEF CancelJob, IInv, TypeOK, UnfinishedRegistered
<1>7. CancellerInv'
  BY <1>1 DEF CancelJob, IInv, TypeOK, CancellerInv
<1> QED BY <1>2, <1>3, <1>4, <1>5, <1>6, <1>7 DEF IInv

LEMMA ShutdownTakeInv ==
    ASSUME IInv, ShutdownTake
    PROVE  IInv'
<1>1. TypeOK' /\ FutureInv' /\ UnfinishedRegistered' /\ OwedInv' /\ QueueInv'
  <2>1. TypeOK'
    BY DEF ShutdownTake, IInv, TypeOK, Queued, jobVars
  <2>2. FutureInv'
    BY DEF ShutdownTake, IInv, FutureInv, FutureOf, jobVars
  <2>3. UnfinishedRegistered' /\ OwedInv' /\ QueueInv'
    BY DEF ShutdownTake, IInv, UnfinishedRegistered, OwedInv, QueueInv, InQueue, jobVars
  <2> QED BY <2>1, <2>2, <2>3
<1>2. \A j \in Jobs : fut[j] = "pending" => j \in Queued
  BY DEF IInv, FutureInv, FutureOf, UnfinishedRegistered, Queued
<1>3. PendingInv'
  BY <1>2 DEF ShutdownTake, IInv, PendingInv, InQueue, jobVars
<1>4. CancellerInv'
  BY DEF ShutdownTake, IInv, CancellerInv, jobVars
<1> QED BY <1>1, <1>3, <1>4 DEF IInv

LEMMA ShutdownDrainInv ==
    ASSUME IInv, ShutdownDrain
    PROVE  IInv'
<1> DEFINE j == Head(queue[closing])
<1>1. closing \in Pools /\ queue[closing] \in Seq(Jobs) /\ queue[closing] # <<>>
  <2>1. closing \in 0 .. made /\ closing # 0 /\ made \in 1 .. MaxPools
    BY DEF ShutdownDrain, IInv, TypeOK, Pools
  <2>2. closing \in Pools
    BY <2>1, BoundsAssumption DEF Pools
  <2> QED BY <2>2 DEF ShutdownDrain, IInv, TypeOK
<1>2. j \in Jobs /\ Tail(queue[closing]) \in Seq(Jobs) /\ InQueue(j, closing)
  BY <1>1, TailLemma DEF Within, InQueue
<1>3. \A k \in Jobs, r \in Pools : /\ k # j /\ InQueue(k, r) => InQueue(k, r)'
                                   /\ InQueue(k, r)' => InQueue(k, r)
  <2>1. \A k : /\ Within(k, queue[closing]) /\ k # j => Within(k, Tail(queue[closing]))
               /\ Within(k, Tail(queue[closing])) => Within(k, queue[closing])
    BY <1>1, TailLemma
  <2>2. /\ queue'[closing] = Tail(queue[closing])
        /\ \A r \in Pools : r # closing => queue'[r] = queue[r]
    BY <1>1 DEF ShutdownDrain, IInv, TypeOK
  <2>3. ASSUME NEW k \in Jobs, NEW r \in Pools
        PROVE  (k # j /\ InQueue(k, r) => InQueue(k, r)') /\ (InQueue(k, r)' => InQueue(k, r))
    <3>1. InQueue(k, r) = Within(k, queue[r]) /\ InQueue(k, r)' = Within(k, queue'[r])
      BY DEF InQueue, Within
    <3>2. CASE r = closing
      BY <2>1, <2>2, <3>1, <3>2
    <3>3. CASE r # closing
      BY <2>2, <3>1, <3>3
    <3> QED BY <3>2, <3>3
  <2> QED BY <2>3
<1>4. TypeOK'
  BY <1>2 DEF ShutdownDrain, IInv, TypeOK
<1>5. FutureInv'
  BY <1>2, SMTT(20) DEF ShutdownDrain, IInv, TypeOK, FutureInv, FutureOf, Terminal, Busy
<1>6. PendingInv'
  <2>1. ASSUME NEW k \in Jobs, fut'[k] = "pending"
        PROVE  k # j /\ fut[k] = "pending"
    BY <2>1, <1>2 DEF ShutdownDrain, IInv, TypeOK
  <2>2. UNCHANGED <<pool, closing, poolOf, toMark>>
    BY DEF ShutdownDrain
  <2>3. \A k \in Jobs : fut'[k] = "pending" => poolOf[k] \in Pools
    BY <2>1 DEF IInv, PendingInv, TypeOK, Pools
  <2>4. ASSUME NEW k \in Jobs, fut'[k] = "pending"
        PROVE  InQueue(k, poolOf[k])'
    BY <2>1, <2>2, <2>3, <2>4, <1>3 DEF IInv, PendingInv, InQueue
  <2> QED BY <2>1, <2>2, <2>4 DEF IInv, PendingInv
<1>7. OwedInv'
  <2> SUFFICES ASSUME NEW k \in Jobs, fut'[k] = "cancelled", status'[k] = "queued"
               PROVE  \/ closing' # 0 /\ k \in toMark'
                      \/ \E d \in Clients : canceller'[d] = k
    BY DEF OwedInv
  <2>1. UNCHANGED <<status, closing, toMark, canceller>> /\ closing # 0
    BY DEF ShutdownDrain
  <2>2. CASE fut[k] = "cancelled"
    BY <2>1, <2>2 DEF IInv, OwedInv
  <2>3. CASE fut[k] # "cancelled"
    <3>1. k = j /\ fut[k] = "pending"
      BY <2>3, <1>2 DEF ShutdownDrain, IInv, TypeOK
    <3>2. poolOf[k] = closing
      BY <3>1, <1>1, <1>2 DEF IInv, QueueInv
    <3> QED BY <2>1, <3>1, <3>2 DEF IInv, PendingInv
  <2> QED BY <2>2, <2>3
<1>8. QueueInv' /\ UnfinishedRegistered'
  BY <1>3 DEF ShutdownDrain, IInv, QueueInv, UnfinishedRegistered
<1>9. CancellerInv'
  BY <1>2 DEF ShutdownDrain, IInv, TypeOK, CancellerInv
<1> QED BY <1>4, <1>5, <1>6, <1>7, <1>8, <1>9 DEF IInv

\* Once its queue is drained nothing pending belongs to the closing pool.
LEMMA DrainedPool ==
    ASSUME IInv, closing # 0, queue[closing] = <<>>
    PROVE  \A k \in Jobs : fut[k] = "pending" => poolOf[k] # closing
BY DEF IInv, PendingInv, InQueue

LEMMA ShutdownMarkInv ==
    ASSUME IInv, NEW j \in Jobs, ShutdownMark(j)
    PROVE  IInv'
<1>1. TypeOK'
  BY DEF ShutdownMark, IInv, TypeOK, Terminal
<1>2. FutureInv'
  BY DEF ShutdownMark, IInv, TypeOK, FutureInv, FutureOf, Terminal, Busy
<1>3. PendingInv'
  <2>1. \A k \in Jobs : fut[k] = "pending" => poolOf[k] # closing
    BY DrainedPool DEF ShutdownMark
  <2> QED BY <2>1 DEF ShutdownMark, IInv, PendingInv, InQueue
<1>4. QueueInv'
  BY DEF ShutdownMark, IInv, TypeOK, QueueInv, InQueue
<1>5. OwedInv' /\ UnfinishedRegistered'
  BY DEF ShutdownMark, IInv, TypeOK, OwedInv, UnfinishedRegistered
<1>6. CancellerInv'
  BY DEF ShutdownMark, IInv, TypeOK, CancellerInv
<1> QED BY <1>1, <1>2, <1>3, <1>4, <1>5, <1>6 DEF IInv

LEMMA ShutdownReturnInv ==
    ASSUME IInv, ShutdownReturn
    PROVE  IInv'
<1>1. TypeOK'
  <2>1. 0 \in 0 .. made
    BY DEF IInv, TypeOK, Pools
  <2> QED BY <2>1 DEF ShutdownReturn, IInv, TypeOK, jobVars
<1>2. FutureInv' /\ UnfinishedRegistered'
  BY DEF ShutdownReturn, IInv, FutureInv, FutureOf, UnfinishedRegistered, jobVars
<1>3. PendingInv'
  <2>1. \A k \in Jobs : fut[k] = "pending" => poolOf[k] # closing
    BY DrainedPool DEF ShutdownReturn
  <2> QED BY <2>1 DEF ShutdownReturn, IInv, PendingInv, InQueue, jobVars
<1>4. QueueInv' /\ OwedInv'
  BY DEF ShutdownReturn, IInv, QueueInv, OwedInv, InQueue, jobVars
<1>5. CancellerInv'
  BY DEF ShutdownReturn, IInv, CancellerInv, jobVars
<1> QED BY <1>1, <1>2, <1>3, <1>4, <1>5 DEF IInv

LEMMA NextInv == IInv /\ [Next]_vars => IInv'
<1> SUFFICES ASSUME IInv, [Next]_vars PROVE IInv'
  OBVIOUS
<1>1. CASE UNCHANGED vars
  BY <1>1 DEF IInv, TypeOK, FutureInv, FutureOf, PendingInv, OwedInv,
              UnfinishedRegistered,
              QueueInv, CancellerInv, InQueue, vars
<1>2. CASE Next
  BY <1>2, SubmitInv, PickInv, BeginInv, ComputeInv, PublishInv, CancelFutureInv,
     CancelJobInv, ShutdownTakeInv, ShutdownDrainInv, ShutdownMarkInv,
     ShutdownReturnInv DEF Next
<1> QED BY <1>1, <1>2

LEMMA Invariance == Spec => []IInv
BY InitInv, NextInv, PTL DEF Spec

----------------------------------------------------------------------------
\* Every variable keeps its type, in particular every queue holds jobs only and
\* no pool outlives the count of pools made (jobs.py, JobStore and Job).
THEOREM TypeCorrect == Spec => []TypeOK
<1>1. IInv => TypeOK
  BY DEF IInv
<1> QED BY <1>1, Invariance, PTL

\* submit(), cancel(), shutdown() and the workers never leave a phantom queued
\* job, the thing the comment in submit() (jobs.py:118-123) says they exclude.
THEOREM NoPhantomJobs == Spec => []NoPhantom
<1>1. ASSUME IInv, NEW j \in Jobs, status[j] = "queued"
      PROVE  \/ pool # 0 /\ poolOf[j] = pool /\ InQueue(j, pool)
             \/ worker[j] = "picked"
             \/ closing # 0 /\ j \in toMark
             \/ \E c \in Clients : canceller[c] = j
  <2>1. fut[j] \in {"pending", "running", "cancelled"}
    BY <1>1 DEF IInv, TypeOK, FutureInv, FutureOf, Terminal
  <2>2. CASE fut[j] = "pending"
    BY <1>1, <2>2 DEF IInv, PendingInv
  <2>3. CASE fut[j] = "running"
    BY <1>1, <2>3 DEF IInv, FutureInv, FutureOf, Busy
  <2>4. CASE fut[j] = "cancelled"
    BY <1>1, <2>4 DEF IInv, OwedInv
  <2> QED BY <2>1, <2>2, <2>3, <2>4
<1>2. IInv => NoPhantom
  BY <1>1 DEF NoPhantom
<1> QED BY <1>2, Invariance, PTL

\* A job reported as ended while its thread still computes is a cancelled one.
THEOREM EndedJobsStopped == Spec => []EndedMeansStopped
<1>1. IInv => EndedMeansStopped
  BY DEF IInv, EndedMeansStopped, TypeOK, FutureInv, FutureOf, Terminal, Busy
<1> QED BY <1>1, Invariance, PTL

\* Eviction from the registry never loses a job that has not ended.
THEOREM UnfinishedKept == Spec => []UnfinishedRegistered
<1>1. IInv => UnfinishedRegistered
  BY DEF IInv
<1> QED BY <1>1, Invariance, PTL

----------------------------------------------------------------------------
(* The bound of the registry.                                                *)

\* The jobs whose thread has taken them and not yet left.
AllBusy == {j \in Jobs : worker[j] \in Busy}

\* A pool never has more busy threads than it may have, and a busy job was
\* submitted to some pool.
WorkersInv ==
    /\ \A j \in Jobs : worker[j] \in Busy => poolOf[j] # 0
    /\ \A p \in Pools : Cardinality(BusyOn(p)) <= MaxWorkers

\* The jobs that may be waiting, and those the threads of all pools may be
\* busy with, leave room in the registry: 31 + 2 threads of each pool against
\* 100 in jobs.py, so up to 34 pools at work at once.
RoomForUnfinished == MaxPending + MaxPools * MaxWorkers <= RegistryBound + 1

\* A set grows by at most one when an element joins it.
LEMMA OneMore ==
    ASSUME NEW S, NEW x, IsFiniteSet(S)
    PROVE  /\ IsFiniteSet(S \cup {x})
           /\ Cardinality(S \cup {x}) \in Nat
           /\ Cardinality(S \cup {x}) <= Cardinality(S) + 1
<1>1. Cardinality(S) \in Nat
  BY FS_CardinalityType
<1>2. IsFiniteSet(S \cup {x})
  BY FS_AddElement
<1>3. Cardinality(S \cup {x}) = Cardinality(S) \/ Cardinality(S \cup {x}) = Cardinality(S) + 1
  BY FS_AddElement
<1> QED BY <1>1, <1>2, <1>3

\* The jobs the workers are busy with can be counted, in all and pool by pool.
LEMMA BusyFinite ==
    /\ IsFiniteSet(AllBusy)
    /\ \A p \in Pools : IsFiniteSet(BusyOn(p)) /\ Cardinality(BusyOn(p)) \in Nat
<1>1. IsFiniteSet(AllBusy)
  BY JobsAssumption, FS_Subset DEF AllBusy
<1>2. ASSUME NEW p \in Pools
      PROVE  IsFiniteSet(BusyOn(p)) /\ Cardinality(BusyOn(p)) \in Nat
  <2>1. IsFiniteSet(BusyOn(p))
    BY JobsAssumption, FS_Subset DEF BusyOn
  <2> QED BY <2>1, FS_CardinalityType
<1> QED BY <1>1, <1>2

\* No more jobs are busy than all pools together have threads: counting a job
\* as a thread of its pool meets every one of them.
LEMMA BusyBound ==
    ASSUME TypeOK, WorkersInv
    PROVE  Cardinality(AllBusy) <= MaxPools * MaxWorkers
<1> DEFINE Size(p) == Cardinality(BusyOn(p))
           Seat == [p \in Pools |-> CHOOSE g : g \in Bijection(1 .. Size(p), BusyOn(p))]
           Seats == {s \in Pools \X (1 .. MaxWorkers) : s[2] <= Size(s[1])}
           Sits == [s \in Seats |-> Seat[s[1]][s[2]]]
<1>1. ASSUME NEW p \in Pools
      PROVE  /\ Seat[p] \in [1 .. Size(p) -> BusyOn(p)]
             /\ \A j \in BusyOn(p) : \E i \in 1 .. Size(p) : Seat[p][i] = j
  <2>1. \E g : g \in Bijection(1 .. Size(p), BusyOn(p))
    BY BusyFinite, FS_CardinalityType DEF ExistsBijection
  <2>2. Seat[p] \in Bijection(1 .. Size(p), BusyOn(p))
    BY <2>1
  <2> QED BY <2>2 DEF Bijection, Surjection, Injection
<1>2. \A p \in Pools : Size(p) \in Nat /\ Size(p) <= MaxWorkers
  BY BusyFinite DEF WorkersInv
<1>3. MaxWorkers \in Nat /\ MaxPools \in Nat
  BY BoundsAssumption
<1>4. Sits \in [Seats -> AllBusy]
  <2>1. ASSUME NEW s \in Seats
        PROVE  Seat[s[1]][s[2]] \in AllBusy
    <3>1. s[1] \in Pools /\ s[2] \in 1 .. Size(s[1])
      BY <1>2, <1>3
    <3>2. Seat[s[1]][s[2]] \in BusyOn(s[1])
      BY <3>1, <1>1
    <3> QED BY <3>2 DEF BusyOn, AllBusy
  <2> QED BY <2>1
<1>5. ASSUME NEW j \in AllBusy
      PROVE  \E s \in Seats : Sits[s] = j
  <2>1. poolOf[j] \in Pools /\ j \in BusyOn(poolOf[j])
    BY DEF AllBusy, BusyOn, WorkersInv, TypeOK, Pools
  <2>2. PICK i \in 1 .. Size(poolOf[j]) : Seat[poolOf[j]][i] = j
    BY <2>1, <1>1
  <2>3. <<poolOf[j], i>> \in Seats
    BY <2>1, <2>2, <1>2, <1>3
  <2>4. Sits[<<poolOf[j], i>>] = j
    BY <2>2, <2>3
  <2> QED BY <2>3, <2>4
<1>6. Sits \in Surjection(Seats, AllBusy)
  BY <1>4, <1>5 DEF Surjection
<1>7. /\ IsFiniteSet(Pools \X (1 .. MaxWorkers))
      /\ Cardinality(Pools \X (1 .. MaxWorkers)) = MaxPools * MaxWorkers
  <2>1. /\ IsFiniteSet(1 .. MaxPools) /\ Cardinality(1 .. MaxPools) = MaxPools
        /\ IsFiniteSet(1 .. MaxWorkers) /\ Cardinality(1 .. MaxWorkers) = MaxWorkers
    BY BoundsAssumption, FS_Interval
  <2>2. /\ IsFiniteSet((1 .. MaxPools) \X (1 .. MaxWorkers))
        /\ Cardinality((1 .. MaxPools) \X (1 .. MaxWorkers)) =
              Cardinality(1 .. MaxPools) * Cardinality(1 .. MaxWorkers)
    BY <2>1, FS_Product, Zenon
  <2> QED BY <2>1, <2>2 DEF Pools
<1>8. /\ IsFiniteSet(Seats)
      /\ Cardinality(Seats) <= MaxPools * MaxWorkers
  <2>1. Seats \in SUBSET (Pools \X (1 .. MaxWorkers))
    OBVIOUS
  <2> HIDE DEF Seats
  <2> QED BY <2>1, <1>7, FS_Subset
<1>9. Cardinality(AllBusy) <= Cardinality(Seats)
  <2> HIDE DEF Seats, Sits
  <2> QED BY <1>6, <1>8, FS_Surjection
<1>10. /\ Cardinality(AllBusy) \in Nat
       /\ Cardinality(Seats) \in Nat
       /\ MaxPools * MaxWorkers \in Nat
  <2>1. MaxPools * MaxWorkers \in Nat
    BY <1>3
  <2> HIDE DEF Seats
  <2> QED BY <2>1, BusyFinite, <1>8, FS_CardinalityType
<1> QED
  <2> HIDE DEF Seats
  <2> QED BY <1>8, <1>9, <1>10

\* Whatever makes no job busy and moves no busy one keeps the bound.
LEMMA NobodyStarts ==
    ASSUME WorkersInv, \A j \in Jobs : worker'[j] \in Busy
                              => worker[j] \in Busy /\ poolOf'[j] = poolOf[j]
    PROVE  WorkersInv'
<1>1. \A j \in Jobs : worker'[j] \in Busy => poolOf'[j] # 0
  BY DEF WorkersInv
<1>2. ASSUME NEW p \in Pools
      PROVE  Cardinality(BusyOn(p)') <= MaxWorkers
  <2>1. BusyOn(p)' \in SUBSET BusyOn(p)
    BY DEF BusyOn
  <2>2. IsFiniteSet(BusyOn(p)') /\ Cardinality(BusyOn(p)') <= Cardinality(BusyOn(p))
    BY <2>1, BusyFinite, FS_Subset
  <2> QED BY <2>2, BusyFinite, FS_CardinalityType, BoundsAssumption DEF WorkersInv
<1> QED BY <1>1, <1>2 DEF WorkersInv, Pools

LEMMA PickWorkers ==
    ASSUME IInv, WorkersInv, NEW p \in Pools, Pick(p)
    PROVE  WorkersInv'
<1> DEFINE j == Head(queue[p])
<1>1. j \in Jobs /\ poolOf[j] = p /\ p # 0
  <2>1. queue[p] \in Seq(Jobs) /\ queue[p] # <<>>
    BY DEF Pick, IInv, TypeOK
  <2>2. j \in Jobs /\ InQueue(j, p)
    BY <2>1, TailLemma DEF Within, InQueue
  <2> QED BY <2>2 DEF IInv, QueueInv, Pools
<1>2. /\ poolOf' = poolOf
      /\ \A k \in Jobs : k # j => worker'[k] = worker[k]
  BY DEF Pick, IInv, TypeOK
<1>3. \A k \in Jobs : worker'[k] \in Busy => poolOf'[k] # 0
  BY <1>1, <1>2 DEF WorkersInv
<1>4. ASSUME NEW r \in Pools
      PROVE  Cardinality(BusyOn(r)') <= MaxWorkers
  <2>1. CASE r = p
    <3>1. BusyOn(p)' \in SUBSET (BusyOn(p) \cup {j})
      BY <1>2 DEF BusyOn
    <3>2. /\ IsFiniteSet(BusyOn(p) \cup {j})
          /\ Cardinality(BusyOn(p) \cup {j}) <= Cardinality(BusyOn(p)) + 1
      BY BusyFinite, OneMore
    <3>3. /\ IsFiniteSet(BusyOn(p)')
          /\ Cardinality(BusyOn(p)') <= Cardinality(BusyOn(p) \cup {j})
      BY <3>1, <3>2, FS_Subset
    <3>4. /\ Cardinality(BusyOn(p)') \in Nat
          /\ Cardinality(BusyOn(p) \cup {j}) \in Nat
      BY <3>2, <3>3, FS_CardinalityType
    <3>5. Cardinality(BusyOn(p)) < MaxWorkers /\ Cardinality(BusyOn(p)) \in Nat
      BY BusyFinite DEF Pick
    <3>6. MaxWorkers \in Nat
      BY BoundsAssumption
    <3> QED BY <2>1, <3>2, <3>3, <3>4, <3>5, <3>6
  <2>2. CASE r # p
    <3>1. BusyOn(r)' \in SUBSET BusyOn(r)
      BY <1>1, <1>2, <2>2 DEF BusyOn
    <3>2. IsFiniteSet(BusyOn(r)') /\ Cardinality(BusyOn(r)') <= Cardinality(BusyOn(r))
      BY <3>1, BusyFinite, FS_Subset
    <3> QED BY <3>2, BusyFinite, FS_CardinalityType, BoundsAssumption DEF WorkersInv
  <2> QED BY <2>1, <2>2
<1> QED BY <1>3, <1>4 DEF WorkersInv, Pools

LEMMA WorkersStep == IInv /\ WorkersInv /\ [Next]_vars => WorkersInv'
<1> SUFFICES ASSUME IInv, WorkersInv, [Next]_vars PROVE WorkersInv'
  OBVIOUS
<1>1. ASSUME NEW j \in Jobs, Submit(j) PROVE WorkersInv'
  <2>1. worker[j] = "idle"
    BY <1>1 DEF Submit, IInv, FutureInv, FutureOf
  <2>2. \A k \in Jobs : worker'[k] \in Busy => worker[k] \in Busy /\ poolOf'[k] = poolOf[k]
    BY <1>1, <2>1 DEF Submit, IInv, TypeOK, Busy
  <2> QED BY <2>2, NobodyStarts
<1>2. ASSUME NEW j \in Jobs, Begin(j) \/ Compute(j) \/ Publish(j) PROVE WorkersInv'
  <2>1. \A k \in Jobs : worker'[k] \in Busy => worker[k] \in Busy /\ poolOf'[k] = poolOf[k]
    BY <1>2 DEF Begin, Compute, Publish, Leave, IInv, TypeOK, Busy
  <2> QED BY <2>1, NobodyStarts
<1>3. ASSUME \/ \E j \in Jobs : ShutdownMark(j)
             \/ \E c \in Clients : (\E j \in Jobs : CancelFuture(c, j)) \/ CancelJob(c)
             \/ ShutdownTake \/ ShutdownDrain \/ ShutdownReturn \/ UNCHANGED vars
      PROVE  WorkersInv'
  <2>1. UNCHANGED <<worker, poolOf>>
    BY <1>3 DEF ShutdownMark, CancelFuture, CancelJob, ShutdownTake, ShutdownDrain,
                ShutdownReturn, jobVars, vars
  <2> QED BY <2>1, NobodyStarts
<1> QED BY <1>1, <1>2, <1>3, PickWorkers DEF Next

\* A registry past its bound holds jobs that have ended: the others are waiting,
\* fewer than the admission bound at a submit(), or running.
LEMMA SomeFinished ==
    ASSUME IInv, WorkersInv, RoomForUnfinished,
           Cardinality(Queued) < MaxPending, Cardinality(registry) > RegistryBound
    PROVE  Finished # {}
<1> SUFFICES ASSUME Finished = {} PROVE FALSE
  OBVIOUS
<1>1. registry \in SUBSET (Queued \cup AllBusy)
  BY DEF Finished, Queued, AllBusy, IInv, TypeOK, FutureInv, FutureOf, CancellerInv,
         Terminal, Busy
<1>2. IsFiniteSet(Queued)
  BY JobsAssumption, FS_Subset DEF Queued, IInv, TypeOK
<1>3. /\ IsFiniteSet(Queued \cup AllBusy)
      /\ Cardinality(Queued \cup AllBusy) =
            Cardinality(Queued) + Cardinality(AllBusy) - Cardinality(Queued \cap AllBusy)
  BY <1>2, BusyFinite, FS_Union
<1>4. IsFiniteSet(Queued \cap AllBusy)
  BY <1>2, FS_Subset
<1>5. IsFiniteSet(registry) /\ Cardinality(registry) <= Cardinality(Queued \cup AllBusy)
  BY <1>1, <1>3, FS_Subset
<1>6. /\ Cardinality(registry) \in Nat
      /\ Cardinality(Queued) \in Nat
      /\ Cardinality(AllBusy) \in Nat
      /\ Cardinality(Queued \cap AllBusy) \in Nat
  BY <1>2, <1>4, <1>5, BusyFinite, FS_CardinalityType
<1>7. Cardinality(AllBusy) <= MaxPools * MaxWorkers
  BY BusyBound DEF IInv
<1>8. MaxPools * MaxWorkers \in Nat /\ MaxPending \in Nat /\ RegistryBound \in Nat
  BY BoundsAssumption
<1> QED BY <1>3, <1>5, <1>6, <1>7, <1>8 DEF RoomForUnfinished

LEMMA BoundStep ==
    ASSUME RoomForUnfinished, IInv, WorkersInv, RegistryBounded, [Next]_vars
    PROVE  RegistryBounded'
<1>1. ASSUME NEW j \in Jobs, Submit(j) PROVE RegistryBounded'
  <2>1. PICK dropped \in SUBSET registry :
            Dropped(dropped) /\ registry' = (registry \ dropped) \cup {j}
    BY <1>1 DEF Submit
  <2>2. IsFiniteSet(registry) /\ Cardinality(registry) \in Nat
    BY JobsAssumption, FS_Subset, FS_CardinalityType DEF IInv, TypeOK
  <2>3. /\ IsFiniteSet(registry \ dropped)
        /\ Cardinality(registry \ dropped) \in Nat
        /\ Cardinality(registry \ dropped) <= Cardinality(registry)
    BY <2>2, FS_Subset, FS_CardinalityType
  <2>4. Cardinality(registry') <= Cardinality(registry \ dropped) + 1
    BY <2>1, <2>3, OneMore
  <2>5. RegistryBound \in Nat
    BY BoundsAssumption
  <2>6. Cardinality(registry \ dropped) <= RegistryBound
    <3>1. CASE Cardinality(registry) <= RegistryBound
      BY <3>1, <2>2, <2>3, <2>5
    <3>2. CASE Cardinality(registry) > RegistryBound
      <4>1. Oldest(Finished, dropped)
        BY <2>1, <3>2 DEF Dropped
      <4>2. Finished # {}
        BY <1>1, <3>2, SomeFinished DEF Submit
      <4>3. dropped # {}
        BY <4>1, <4>2, FS_EmptySet, BoundsAssumption DEF Oldest
      <4>4. PICK d \in dropped : TRUE
        BY <4>3
      <4>5. Cardinality(registry \ {d}) = Cardinality(registry) - 1
        BY <2>2, <4>4, FS_RemoveElement
      <4>6. Cardinality(registry \ dropped) <= Cardinality(registry \ {d})
        <5>1. IsFiniteSet(registry \ {d})
          BY <2>2, FS_RemoveElement
        <5> QED BY <4>4, <5>1, FS_Subset
      <4> QED BY <2>2, <2>3, <2>5, <4>5, <4>6 DEF RegistryBounded
    <3> QED BY <3>1, <3>2, <2>2, <2>5
  <2>7. IsFiniteSet(registry') /\ Cardinality(registry') \in Nat
    BY <2>1, <2>3, OneMore
  <2> QED BY <2>3, <2>4, <2>5, <2>6, <2>7 DEF RegistryBounded
<1>2. ASSUME ~\E j \in Jobs : Submit(j) PROVE RegistryBounded'
  <2>1. registry' = registry
    BY <1>2 DEF Next, Begin, Compute, Publish, ShutdownMark, Pick, CancelFuture,
                CancelJob, ShutdownTake, ShutdownDrain, ShutdownReturn, vars
  <2> QED BY <2>1 DEF RegistryBounded
<1> QED BY <1>1, <1>2

\* The registry of finished and unfinished jobs stays within its bound and the
\* job just admitted (jobs.py:133-140), however submissions, restarts and
\* cancellations interleave, as long as the unfinished jobs fit.
THEOREM RegistryStaysBounded ==
    ASSUME RoomForUnfinished
    PROVE  Spec => []RegistryBounded
<1>1. Init => WorkersInv /\ RegistryBounded
  <2> SUFFICES ASSUME Init PROVE WorkersInv /\ RegistryBounded
    OBVIOUS
  <2>1. \A p \in Pools : BusyOn(p) = {}
    BY DEF Init, BusyOn, Busy
  <2>2. registry = {} /\ \A j \in Jobs : worker[j] = "idle"
    BY DEF Init
  <2>3. MaxWorkers \in Nat /\ RegistryBound \in Nat
    BY BoundsAssumption
  <2> QED BY <2>1, <2>2, <2>3, FS_EmptySet DEF WorkersInv, RegistryBounded, Busy
<1>2. RoomForUnfinished /\ IInv /\ WorkersInv /\ RegistryBounded /\ [Next]_vars
          => WorkersInv' /\ RegistryBounded'
  BY WorkersStep, BoundStep
<1> QED
  BY <1>1, <1>2, RoomForUnfinished, Invariance, PTL DEF Spec

----------------------------------------------------------------------------
LEMMA LifecycleInit == Init => Lifecycle!Init
BY DEF Init, Lifecycle!Init

LEMMA LifecycleStep ==
    IInv /\ [Next]_vars => [Lifecycle!Next]_<<status, cancelled>>
<1> SUFFICES ASSUME IInv, [Next]_vars
             PROVE  Lifecycle!Next \/ UNCHANGED <<status, cancelled>>
  OBVIOUS
<1> USE DEF IInv, Lifecycle!Next, poolVars, jobVars
<1>1. ASSUME NEW j \in Jobs, Submit(j)
      PROVE  Lifecycle!Accept(j)
  BY <1>1 DEF Submit, Lifecycle!Accept
<1>2. ASSUME NEW j \in Jobs, Begin(j)
      PROVE  Lifecycle!Start(j) \/ UNCHANGED <<status, cancelled>>
  BY <1>2 DEF Begin, Lifecycle!Start
<1>3. ASSUME NEW j \in Jobs, Publish(j)
      PROVE  \/ \E outcome \in Lifecycle!Terminal : Lifecycle!End(j, outcome)
             \/ UNCHANGED <<status, cancelled>>
  <2>1. CASE cancelled[j]
    BY <1>3, <2>1 DEF Publish, TypeOK
  <2>2. CASE ~cancelled[j]
    <3>1. status[j] = "running"
      BY <1>3, <2>2 DEF Publish, TypeOK, FutureInv, FutureOf, Busy
    <3>2. status' = [status EXCEPT ![j] =
                        IF worker[j] = "returned" THEN "done" ELSE "error"]
      BY <1>3, <2>2 DEF Publish, TypeOK
    <3> QED BY <1>3, <3>1, <3>2 DEF Publish, Lifecycle!End, Lifecycle!Terminal
  <2> QED BY <2>1, <2>2
<1>4. ASSUME NEW j \in Jobs, ShutdownMark(j)
      PROVE  \/ \E outcome \in Lifecycle!Terminal : Lifecycle!End(j, outcome)
             \/ UNCHANGED <<status, cancelled>>
  <2>1. CASE fut[j] = "cancelled" /\ status[j] = "queued"
    BY <1>4, <2>1 DEF ShutdownMark, Lifecycle!End, Lifecycle!Terminal
  <2>2. CASE ~(fut[j] = "cancelled" /\ status[j] = "queued")
    BY <1>4, <2>2 DEF ShutdownMark, TypeOK, FutureInv, FutureOf
  <2> QED BY <2>1, <2>2
<1>5. ASSUME NEW c \in Clients, CancelJob(c)
      PROVE  (\E j \in Jobs : Lifecycle!Cancel(j)) \/ UNCHANGED <<status, cancelled>>
  BY <1>5 DEF CancelJob, TypeOK, Lifecycle!Cancel
<1>6. ASSUME \/ \E j \in Jobs : Compute(j)
             \/ \E p \in Pools : Pick(p)
             \/ \E c \in Clients, j \in Jobs : CancelFuture(c, j)
             \/ ShutdownTake
             \/ ShutdownDrain
             \/ ShutdownReturn
             \/ UNCHANGED vars
      PROVE  UNCHANGED <<status, cancelled>>
  BY <1>6 DEF Compute, Pick, CancelFuture, ShutdownTake, ShutdownDrain,
              ShutdownReturn, vars
<1> QED BY <1>1, <1>2, <1>3, <1>4, <1>5, <1>6 DEF Next

\* What a client polls refines the promise of JobLifecycle: an end is final, an
\* accepted cancellation is never followed by a result, a queued job never ends
\* done.
THEOREM RefinesLifecycle == Spec => PollerSees
BY LifecycleInit, LifecycleStep, Invariance, PTL
   DEF Spec, PollerSees, Lifecycle!Spec

=============================================================================
