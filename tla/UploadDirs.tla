----------------------------- MODULE UploadDirs -----------------------------
(***************************************************************************)
(* The temporary directories of uploaded 4D files (session_fourd.py).  A   *)
(* server makes one per upload and holds the lock file in it locked; every *)
(* server that starts deletes those that nobody holds.  One server         *)
(* uploads here, and all of them sweep.                                    *)
(*                                                                         *)
(* Deleting takes a directory away while files in it are open, as POSIX    *)
(* does.  mkdtemp never gives a name twice.                                *)
(***************************************************************************)
EXTENDS Naturals, FiniteSets

CONSTANTS Procs,    \* the servers, each run once
          Server,   \* the one whose uploads are modelled
          Dirs,     \* directories in the temp folder
          NoDir

ASSUME ServerAssumption == Server \in Procs
ASSUME NoDirAssumption == NoDir \notin Dirs

VARIABLES
    proc,      \* per server: not started, sweeping at its start, up, stopping or ended
    dir,       \* per directory: what the disk has of it
    making,    \* directories whose UploadDir is between mkdtemp and the lock
    owned,     \* directories whose lock file the Server holds locked
    old,       \* directories older than _UNLOCKED_GRACE_S
    sweep,     \* per server: where its sweep is
    raced      \* note: directories a sweep judged abandoned while they were made

dirVars == <<proc, dir, making, owned, old, sweep, raced>>

NoSweep == [at |-> "look", d |-> NoDir, todo |-> {}, after |-> FALSE]

DirTypeOK ==
    /\ proc \in [Procs -> {"new", "sweeping", "up", "stopping", "ended"}]
    /\ dir \in [Dirs -> {"none", "bare", "file", "gone"}]
    /\ making \subseteq Dirs /\ owned \subseteq Dirs /\ old \subseteq Dirs /\ raced \subseteq Dirs
    /\ sweep \in [Procs -> [at : {"look", "held", "remove"}, d : Dirs \cup {NoDir},
                            todo : SUBSET Dirs, after : BOOLEAN]]

\* Directories may be there already: a server of an earlier day crashed, or
\* was an older build, which made no lock file.
DirInit ==
    /\ proc = [p \in Procs |-> "new"]
    /\ dir \in [Dirs -> {"none", "bare", "file"}]
    /\ making = {} /\ owned = {} /\ raced = {}
    /\ old \in SUBSET {d \in Dirs : dir[d] = "bare"}
    /\ sweep = [p \in Procs |-> NoSweep]

OnDisk(d) == dir[d] \in {"bare", "file"}
\* What _try_lock finds: the owner's lock, or that of a sweep that just looks.
Locked(d) == d \in owned \/ \E p \in Procs : sweep[p].at = "held" /\ sweep[p].d = d

---------------------------------------------------------------------------
\* UploadDir

MakeDir(d) ==
    /\ proc[Server] = "up" /\ dir[d] = "none"
    /\ dir' = [dir EXCEPT ![d] = "bare"] /\ making' = making \cup {d}
    /\ UNCHANGED <<proc, owned, old, sweep, raced>>

\* The lock file is created; in a directory that was swept, open() fails.
OpenLock(d) ==
    /\ d \in making
    /\ IF OnDisk(d) THEN dir' = [dir EXCEPT ![d] = "file"] /\ UNCHANGED making
       ELSE making' = making \ {d} /\ UNCHANGED dir
    /\ UNCHANGED <<proc, owned, old, sweep, raced>>

\* _try_lock: it fails while a sweep holds the file, which the constructor
\* takes for impossible.  The lock of a file swept meanwhile is had all the same.
TakeLock(d) ==
    /\ d \in making /\ dir[d] # "bare"
    /\ making' = making \ {d}
    /\ owned' = IF Locked(d) THEN owned ELSE owned \cup {d}
    /\ UNCHANGED <<proc, dir, old, sweep, raced>>

\* UploadDir.release: the lock first, then the directory.
Unlock(d) == d \in owned /\ owned' = owned \ {d} /\ UNCHANGED <<proc, dir, making, old, sweep, raced>>

Gone(d) == IF OnDisk(d) THEN [dir EXCEPT ![d] = "gone"] ELSE dir

RemoveDir(d) ==
    /\ d \notin making \cup owned
    /\ dir' = Gone(d)
    /\ UNCHANGED <<proc, making, owned, old, sweep, raced>>

\* Both at once, when the server stops.
Release(d) ==
    /\ d \in owned
    /\ owned' = owned \ {d} /\ dir' = Gone(d)
    /\ UNCHANGED <<proc, making, old, sweep, raced>>

---------------------------------------------------------------------------
\* sweep_stale_upload_dirs, in _lifespan before the first request

StartSweep(p) ==
    /\ proc[p] = "new"
    /\ proc' = [proc EXCEPT ![p] = "sweeping"]
    /\ sweep' = [sweep EXCEPT ![p].todo = {d \in Dirs : OnDisk(d)},
                              ![p].after = proc[Server] = "ended"]
    /\ UNCHANGED <<dir, making, owned, old, raced>>

\* _abandoned: without a lock file the age decides, with one the lock does.
Abandoned_ByAge(d) == OnDisk(d) /\ d \in old
Abandoned_NoLock(d) == dir[d] = "file" \/ d \in old
Abandoned(d) == (dir[d] = "bare" /\ d \in old) \/ (dir[d] = "file" /\ ~Locked(d))

\* One directory is judged: an abandoned one with a lock file is held for it.
SweepLook(p) ==
    /\ proc[p] = "sweeping" /\ sweep[p].at = "look"
    /\ \E d \in sweep[p].todo :
          /\ sweep' = [sweep EXCEPT ![p].todo = @ \ {d},
                   ![p].at = IF ~Abandoned(d) THEN "look" ELSE IF dir[d] = "file" THEN "held" ELSE "remove",
                   ![p].d = IF Abandoned(d) THEN d ELSE NoDir]
          /\ raced' = IF Abandoned(d) /\ d \in making THEN raced \cup {d} ELSE raced
    /\ UNCHANGED <<proc, dir, making, owned, old>>

\* Closing the lock file lets the lock go before the directory is deleted.
SweepLetGo(p) ==
    /\ sweep[p].at = "held"
    /\ sweep' = [sweep EXCEPT ![p].at = "remove"]
    /\ UNCHANGED <<proc, dir, making, owned, old, raced>>

SweepRemove(p) ==
    /\ sweep[p].at = "remove"
    /\ dir' = Gone(sweep[p].d)
    /\ sweep' = [sweep EXCEPT ![p].at = "look", ![p].d = NoDir]
    /\ UNCHANGED <<proc, making, owned, old, raced>>

SweepDone(p) ==
    /\ proc[p] = "sweeping" /\ sweep[p].at = "look" /\ sweep[p].todo = {}
    /\ proc' = [proc EXCEPT ![p] = "up"]
    /\ UNCHANGED <<dir, making, owned, old, sweep, raced>>

\* A day passes for a directory without a lock file; its constructor is not
\* asleep that long between two statements.
Age(d) ==
    /\ dir[d] = "bare" /\ d \notin making \cup old
    /\ old' = old \cup {d}
    /\ UNCHANGED <<proc, dir, making, owned, sweep, raced>>

Stopping ==
    /\ proc[Server] = "up" /\ proc' = [proc EXCEPT ![Server] = "stopping"]
    /\ UNCHANGED <<dir, making, owned, old, sweep, raced>>

\* The process is gone, and its locks with it.
Exit ==
    /\ proc[Server] \in {"up", "stopping"}
    /\ proc' = [proc EXCEPT ![Server] = "ended"]
    /\ owned' = {} /\ making' = {}
    /\ UNCHANGED <<dir, old, sweep, raced>>

Sweep(p) == StartSweep(p) \/ SweepLook(p) \/ SweepLetGo(p) \/ SweepRemove(p) \/ SweepDone(p)

DirNext ==
    \/ \E d \in Dirs :
          MakeDir(d) \/ OpenLock(d) \/ TakeLock(d) \/ Unlock(d) \/ RemoveDir(d) \/ Release(d) \/ Age(d)
    \/ Stopping \/ Exit
    \/ \E p \in Procs : Sweep(p)

DirSpec == DirInit /\ [][DirNext]_dirVars

---------------------------------------------------------------------------
\* Properties

\* A directory the server holds locked is on the disk whatever other servers
\* sweep, unless one of them judged it abandoned before it was locked: between
\* the check and the deletion nothing looks again.
OwnedStays == \A d \in owned : OnDisk(d) \/ d \in raced

\* Promised, and broken by the code: a directory the server holds locked is
\* never touched by a sweep (session_fourd.py:203-205).
OwnedNeverSwept == \A d \in owned : OnDisk(d)

\* What a crash leaves, the next start deletes: after a sweep that began when
\* the server was gone, the directories that remain were too young to judge,
\* or another sweep is deleting them.
SweepReclaims ==
    \A p \in Procs : sweep[p].after /\ proc[p] = "up" =>
        \A d \in Dirs :
            \/ ~OnDisk(d)
            \/ dir[d] = "bare"
            \/ \E q \in Procs : sweep[q].d = d
=============================================================================
