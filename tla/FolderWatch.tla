----------------------------- MODULE FolderWatch -----------------------------
(* Folder watching: the poll thread of watch.py (FolderWatcher), the routes  *)
(* that start and stop it (routes/watch.py), the admission of its jobs, and  *)
(* the lifespan of server.py that stops both at exit.  A poll thread, the    *)
(* routes, the pool and whoever writes the files interleave freely.          *)
EXTENDS Naturals, FiniteSets

CONSTANTS
    Files,          \* paths in the watched folder
    Openable,       \* those default_is_openable accepts
    NoFile,
    MaxVersion,     \* bound: how often one path changes
    MaxWatches      \* bound: watches started over time

ASSUME FilesAssumption ==
    IsFiniteSet(Files) /\ Openable \subseteq Files /\ NoFile \notin Files
ASSUME BoundsAssumption == MaxVersion \in Nat /\ MaxWatches \in Nat

Watches == 1 .. MaxWatches
Jobs == Watches \X Files    \* a watch submits at most one job for a file

VARIABLES
    folder,     \* each path: is it there, is it being written, its fingerprint
    moved,      \* per watch, the paths whose fingerprint changed since its stat
    poll,       \* per watch, its FolderWatcher and where its thread is
    stopped,    \* the watches whose _stop_event is set
    watcher,    \* routes/watch.py _watcher; 0 is None
    started,    \* watches started so far
    jobIds,     \* _job_ids, each as the watch and file it was submitted for
    stopping,   \* the watch shutdown_watch() took and is stopping; 0 if none
    submitted,  \* history: all watch jobs ever submitted
    poolOpen,   \* the job store has a pool
    server      \* "up", "leaving" (in the lifespan's finally), "down"

routes == <<stopped, watcher, started, stopping, server>>
jobs == <<jobIds, submitted, poolOpen>>
vars == <<folder, moved, poll, routes, jobs>>

Counter == 0 .. Cardinality(Files)

TypeOK ==
    /\ folder \in [Files -> [there : BOOLEAN, copying : BOOLEAN, version : 0 .. MaxVersion]]
    /\ moved \in [Watches -> SUBSET Files]
    /\ poll \in [Watches ->
         [at : {"none", "idle", "scan", "submit", "append", "count", "exited"},
          todo : SUBSET Files,              \* entries of the scan still to consider
          file : Files \cup {NoFile},       \* the one on_file is called for
          candidates : [Files -> 0 .. MaxVersion],      \* 0: no entry
          processed : SUBSET Files,
          seen : Counter, handled : Counter, errors : Counter]]
    /\ stopped \subseteq Watches
    /\ watcher \in 0 .. MaxWatches
    /\ started \in 0 .. MaxWatches
    /\ jobIds \subseteq Jobs
    /\ stopping \in 0 .. MaxWatches
    /\ submitted \subseteq Jobs
    /\ poolOpen \in BOOLEAN
    /\ server \in {"up", "leaving", "down"}

NewPoll ==
    [at |-> "none", todo |-> {}, file |-> NoFile, candidates |-> [f \in Files |-> 0],
     processed |-> {}, seen |-> 0, handled |-> 0, errors |-> 0]

Init ==
    /\ folder = [f \in Files |-> [there |-> FALSE, copying |-> FALSE, version |-> 0]]
    /\ moved = [w \in Watches |-> {}]
    /\ poll = [w \in Watches |-> NewPoll]
    /\ stopped = {}
    /\ watcher = 0
    /\ started = 0
    /\ jobIds = {}
    /\ stopping = 0
    /\ submitted = {}
    /\ poolOpen = TRUE
    /\ server = "up"

----------------------------------------------------------------------------
(* The folder: another program copies, overwrites and deletes files.         *)

Write(f, more) ==
    /\ folder[f].version < MaxVersion
    /\ folder' = [folder EXCEPT ![f] =
                    [there |-> TRUE, copying |-> more, version |-> @.version + 1]]
    /\ moved' = [w \in Watches |-> moved[w] \cup {f}]
    /\ UNCHANGED <<poll, routes, jobs>>

\* The copy is complete as it stands.
Finish(f) ==
    /\ folder[f].copying
    /\ folder' = [folder EXCEPT ![f].copying = FALSE]
    /\ UNCHANGED <<moved, poll, routes, jobs>>

Delete(f) ==
    /\ folder[f].there
    /\ folder' = [folder EXCEPT ![f] = [@ EXCEPT !.there = FALSE, !.copying = FALSE]]
    /\ UNCHANGED <<moved, poll, routes, jobs>>

----------------------------------------------------------------------------
(* The poll thread: _run, poll_once and _consider.                           *)

At(w, place) == poll[w].at = place

\* The loop does not look at the stop event.
KeepsPolling_Always(w) == TRUE
KeepsPolling(w) == w \notin stopped

\* Candidates that are gone from this scan are forgotten.
Kept_Swapped(w, current) ==
    [f \in Files |-> IF f \in current THEN 0 ELSE poll[w].candidates[f]]
Kept(w, current) ==
    [f \in Files |-> IF f \in current THEN poll[w].candidates[f] ELSE 0]

\* (A scan the folder refuses leaves all as it is, but for the last error, which
\* is not kept here.)
Scan(w) ==
    /\ At(w, "idle")
    /\ KeepsPolling(w)
    /\ LET current == {f \in Files : folder[f].there} IN
         poll' = [poll EXCEPT ![w] = [@ EXCEPT !.at = "scan", !.todo = current,
                                               !.candidates = Kept(w, current)]]
    /\ UNCHANGED <<folder, moved, routes, jobs>>

\* A file already processed, or one that vanished before its stat.
Skip(w, f) ==
    /\ At(w, "scan")
    /\ f \in poll[w].todo
    /\ f \in poll[w].processed \/ ~folder[f].there
    /\ poll' = [poll EXCEPT ![w].todo = @ \ {f}]
    /\ UNCHANGED <<folder, moved, routes, jobs>>

\* A file that is being copied changes its size or mtime from poll to poll:
\* what the debounce counts on.
Stat(w, f) ==
    /\ At(w, "scan")
    /\ f \in poll[w].todo \ poll[w].processed
    /\ folder[f].there
    /\ folder[f].copying => f \in moved[w]
    /\ moved' = [moved EXCEPT ![w] = @ \ {f}]

\* Any second sighting counts as stable.
Stable_Seen(w, f) == poll[w].candidates[f] # 0
Stable(w, f) == poll[w].candidates[f] = folder[f].version

Remember(w, f) ==
    /\ Stat(w, f)
    /\ ~Stable(w, f)
    /\ LET p == poll[w] IN
         poll' = [poll EXCEPT ![w] =
                    [p EXCEPT !.todo = p.todo \ {f},
                              !.candidates = [p.candidates EXCEPT ![f] = folder[f].version]]]
    /\ UNCHANGED <<folder, routes, jobs>>

\* The path is not remembered.
Marked_Not(w, f) == poll[w].processed
Marked(w, f) == poll[w].processed \cup {f}

Fire(w, f) ==
    /\ Stat(w, f)
    /\ Stable(w, f)
    /\ LET p == poll[w] IN
         poll' = [poll EXCEPT ![w] =
                    [p EXCEPT !.todo = p.todo \ {f},
                              !.candidates = [p.candidates EXCEPT ![f] = 0],
                              !.processed = Marked(w, f),
                              !.seen = p.seen + 1,
                              !.file = IF f \in Openable THEN f ELSE p.file,
                              !.at = IF f \in Openable THEN "submit" ELSE p.at]]
    /\ UNCHANGED <<folder, routes, jobs>>

\* on_file, first half: jobs.submit(), which reopens a pool that was shut down.
SubmitJob(w) ==
    /\ At(w, "submit")
    /\ submitted' = submitted \cup {<<w, poll[w].file>>}
    /\ poolOpen' = TRUE
    /\ poll' = [poll EXCEPT ![w].at = "append"]
    /\ UNCHANGED <<folder, moved, routes, jobIds>>

\* JobQueueFullError, which jobs of other origin can cause at any time: the file
\* counts as an error and is not retried.
QueueFull_KeepsLastOnly(w) ==
    /\ At(w, "submit")
    /\ poll' = [poll EXCEPT ![w] =
                   [@ EXCEPT !.at = "scan", !.file = NoFile, !.errors = 1]]
    /\ UNCHANGED <<folder, moved, routes, jobs>>

QueueFull(w) ==
    /\ At(w, "submit")
    /\ poll' = [poll EXCEPT ![w] =
                   [@ EXCEPT !.at = "scan", !.file = NoFile, !.errors = poll[w].errors + 1]]
    /\ UNCHANGED <<folder, moved, routes, jobs>>

\* on_file, second half: the job id is appended under the lock of routes/watch.py,
AppendId(w) ==
    /\ At(w, "append")
    /\ jobIds' = jobIds \cup {<<w, poll[w].file>>}
    /\ poll' = [poll EXCEPT ![w].at = "count"]
    /\ UNCHANGED <<folder, moved, routes, submitted, poolOpen>>

\* and then the watcher counts the file as handled under its own.
Count(w) ==
    /\ At(w, "count")
    /\ poll' = [poll EXCEPT ![w] =
                   [@ EXCEPT !.at = "scan", !.file = NoFile, !.handled = poll[w].handled + 1]]
    /\ UNCHANGED <<folder, moved, routes, jobs>>

\* The scan is over; the thread waits for the interval, or ends when stopped.
EndScan(w) ==
    /\ At(w, "scan") /\ poll[w].todo = {}
    /\ poll' = [poll EXCEPT ![w].at = "idle"]
    /\ UNCHANGED <<folder, moved, routes, jobs>>

ExitThread(w) ==
    /\ At(w, "idle")
    /\ w \in stopped
    /\ poll' = [poll EXCEPT ![w].at = "exited"]
    /\ UNCHANGED <<folder, moved, routes, jobs>>

----------------------------------------------------------------------------
(* The routes, the pool and the lifespan.                                    *)

WatchStart ==
    /\ server = "up"
    /\ watcher = 0              \* else 409
    /\ started < MaxWatches
    /\ started' = started + 1
    /\ watcher' = started + 1
    /\ poll' = [poll EXCEPT ![started + 1].at = "idle"]
    /\ jobIds' = {}
    /\ UNCHANGED <<folder, moved, stopped, stopping, server, submitted, poolOpen>>

\* shutdown_watch(), from POST /watch/stop and from the lifespan: the watcher is
\* taken under the lock, ...
StopTake ==
    /\ server # "down"
    /\ watcher # 0
    /\ stopping = 0
    /\ watcher' = 0
    /\ stopping' = watcher
    /\ UNCHANGED <<folder, moved, poll, stopped, started, server, jobs>>

\* ... then signalled, outside it, ...
StopSignal ==
    /\ stopping # 0
    /\ stopped' = stopped \cup {stopping}
    /\ UNCHANGED <<folder, moved, poll, watcher, started, stopping, server, jobs>>

\* ... and joined, for 10 seconds at most: a thread that hangs in scandir or
\* stat on a remote folder is left behind.
Join ==
    /\ stopping \in stopped
    /\ stopping' = 0
    /\ UNCHANGED <<folder, moved, poll, stopped, watcher, started, server, jobs>>

Leave ==
    /\ server = "up"
    /\ server' = "leaving"
    /\ UNCHANGED <<folder, moved, poll, stopped, watcher, started, stopping, jobs>>

\* jobs.shutdown() comes after shutdown_watch() has returned; the requests are
\* over when the lifespan ends, so no other stop is under way.
ShutdownJobs ==
    /\ server = "leaving"
    /\ watcher = 0 /\ stopping = 0
    /\ poolOpen' = FALSE
    /\ server' = "down"
    /\ UNCHANGED <<folder, moved, poll, stopped, watcher, started, stopping, jobIds,
                   submitted>>

----------------------------------------------------------------------------
ThreadStep(w) ==
    \/ Scan(w)
    \/ \E f \in Files : Skip(w, f) \/ Remember(w, f) \/ Fire(w, f)
    \/ SubmitJob(w)
    \/ QueueFull(w)
    \/ AppendId(w)
    \/ Count(w)
    \/ EndScan(w)
    \/ ExitThread(w)

Next ==
    \/ \E f \in Files, more \in BOOLEAN : Write(f, more)
    \/ \E f \in Files : Finish(f) \/ Delete(f)
    \/ \E w \in Watches : ThreadStep(w)
    \/ WatchStart
    \/ StopTake
    \/ StopSignal
    \/ Join
    \/ Leave
    \/ ShutdownJobs

Spec == Init /\ [][Next]_vars

\* Poll threads go on and every copy ends.
FairSpec ==
    /\ Spec
    /\ \A w \in Watches : WF_vars(ThreadStep(w))
    /\ \A f \in Files : WF_vars(Finish(f))

----------------------------------------------------------------------------
(* Properties.                                                               *)

\* No openable file is lost without a trace: each one the watch is done with
\* was handled or counted as an error, however many failed in one burst
\* (watch.py:163-169); one at most is in flight.
AllAccountedFor ==
    \A w \in Watches :
        LET p == poll[w] IN
        /\ p.seen = Cardinality(p.processed)
        /\ Cardinality(p.processed \cap Openable)
              = p.handled + p.errors + (IF p.file = NoFile THEN 0 ELSE 1)

\* Files processed, jobs submitted and the counter of the status agree: on_file
\* fires exactly once per path (watch.py:59-61).
OneJobPerFile ==
    \A w \in Watches :
        LET done == {f \in Files : <<w, f>> \in submitted} IN
        /\ done \subseteq poll[w].processed
        /\ Cardinality(done) =
             poll[w].handled + (IF poll[w].at \in {"append", "count"} THEN 1 ELSE 0)

\* Promised, and broken by the code: the status lists the job ids the active
\* watch has submitted (routes/watch.py:12-13).
JobsAreItsOwn == watcher # 0 => \A j \in jobIds : j[1] = watcher

\* Promised, and broken by the code: when the server has stopped, every poll
\* thread has been joined (server.py:141-144).
ThreadsJoined == server = "down" => \A w \in Watches : poll[w].at \in {"none", "exited"}

\* A file is never fired while it is being copied (watch.py:4-8), also when it
\* is deleted, restarted or overwritten between polls.
NeverHalfWritten ==
    [][\A w \in Watches, f \in Files :
           f \in poll'[w].processed \ poll[w].processed => ~folder[f].copying]_vars

\* A complete file that stays is picked up by a watch that stays.
PickedUp ==
    \A w \in Watches, f \in Files :
        <>[](watcher = w /\ folder[f].there /\ ~folder[f].copying)
            => <>(f \in poll[w].processed)

\* A thread that is told to stop ends, also when the join gave up on it.
ThreadEnds == \A w \in Watches : w \in stopped ~> At(w, "exited")

=============================================================================
