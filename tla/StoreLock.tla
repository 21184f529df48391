------------------------------ MODULE StoreLock ------------------------------
(***************************************************************************)
(* storelock.StoreLock: a re-entrant thread lock that, for the outermost   *)
(* `with`, also holds an operating-system lock on `<store>.lock`, so that  *)
(* two servers sharing one config directory exclude each other.            *)
(*                                                                         *)
(* This module is the lock alone: one action per step of __enter__ and     *)
(* __exit__.  JsonStore runs the stores' transactions under it.            *)
(***************************************************************************)
EXTENDS Integers

CONSTANTS Threads,   \* request threads, of every server process
          Procs,     \* server processes that share the config directory
          ProcOf,    \* the process a thread belongs to
          NoOne,     \* "nobody holds this lock"
          CanLock    \* the config directory holds a lock file that can be locked

ASSUME ProcOfAssumption == ProcOf \in [Threads -> Procs]
ASSUME NoOneAssumption == NoOne \notin Threads \cup Procs
ASSUME CanLockAssumption == CanLock \in BOOLEAN

VARIABLES lock,      \* per process: the RLock's owner and StoreLock._depth
          oslock     \* the process whose descriptor the kernel lets hold the file

lockVars == <<lock, oslock>>

LockTypeOK ==
    /\ lock \in [Procs -> [owner : Threads \cup {NoOne}, depth : 0 .. 2]]
    /\ oslock \in Procs \cup {NoOne}

LockInit ==
    /\ lock = [p \in Procs |-> [owner |-> NoOne, depth |-> 0]]
    /\ oslock = NoOne

\* t's process, and whether t is inside its lock.
Mine(t) == ProcOf[t]
Owns(t) == lock[Mine(t)].owner = t

\* __enter__ by a thread that has not got the RLock: it waits for it, then
\* _depth goes up.  From 0, this is the outermost `with`.
EnterThread(t) ==
    /\ lock[Mine(t)].owner = NoOne
    /\ lock' = [lock EXCEPT ![Mine(t)] = [owner |-> t, depth |-> @.depth + 1]]
    /\ UNCHANGED oslock

\* __enter__ again by the owner: only the depth moves.
EnterNested(t) ==
    /\ Owns(t)
    /\ lock' = [lock EXCEPT ![Mine(t)].depth = @ + 1]
    /\ UNCHANGED oslock

\* _acquire_file: the kernel grants the lock.
TakeFile_NoExclusion(t) ==
    /\ CanLock
    /\ oslock' = Mine(t)
    /\ UNCHANGED lock
TakeFile(t) ==
    /\ CanLock
    /\ oslock = NoOne
    /\ oslock' = Mine(t)
    /\ UNCHANGED lock

\* _acquire_file: the lock file cannot be opened, or the filesystem has no
\* locks.  The transaction goes on under the thread lock alone.
Degrade(t) ==
    /\ ~CanLock
    /\ UNCHANGED lockVars

\* _acquire_file: a peer still holds the file at the deadline.  __enter__
\* undoes the depth and frees the RLock before the error leaves it.
TimeOut_KeepsDepth(t) ==
    /\ CanLock
    /\ oslock # NoOne
    /\ lock' = [lock EXCEPT ![Mine(t)].owner = NoOne]
    /\ UNCHANGED oslock
TimeOut_Never(t) == FALSE /\ UNCHANGED lockVars
TimeOut(t) ==
    /\ CanLock
    /\ oslock # NoOne
    /\ lock' = [lock EXCEPT ![Mine(t)] = [owner |-> NoOne, depth |-> @.depth - 1]]
    /\ UNCHANGED oslock

\* __exit__ of a nested `with`.
ExitNested_FreesThreadLock(t) ==
    /\ lock[Mine(t)].depth = 2
    /\ lock' = [lock EXCEPT ![Mine(t)] = [owner |-> NoOne, depth |-> 0]]
    /\ UNCHANGED oslock
ExitNested(t) ==
    /\ lock[Mine(t)].depth = 2
    /\ lock' = [lock EXCEPT ![Mine(t)].depth = 1]
    /\ UNCHANGED oslock

\* __exit__ of the outermost `with`, first half: _release_file.
ExitFile(t) ==
    /\ lock[Mine(t)].depth = 1
    /\ lock' = [lock EXCEPT ![Mine(t)].depth = 0]
    /\ oslock' = IF oslock = Mine(t) THEN NoOne ELSE oslock

\* __exit__, second half: the RLock is released.
ExitThread(t) ==
    /\ Owns(t)
    /\ lock[Mine(t)].depth = 0
    /\ lock' = [lock EXCEPT ![Mine(t)].owner = NoOne]
    /\ UNCHANGED oslock

\* The process dies: its RLock is gone and the kernel drops its file lock.
ProcessDies(p) ==
    /\ lock' = [lock EXCEPT ![p] = [owner |-> NoOne, depth |-> 0]]
    /\ oslock' = IF oslock = p THEN NoOne ELSE oslock
=============================================================================
