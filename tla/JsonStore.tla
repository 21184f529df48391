------------------------------ MODULE JsonStore ------------------------------
(***************************************************************************)
(* The JSON stores of the config directory (calibrations, profiles,        *)
(* factors, standards): every request is one read/modify/write transaction *)
(* under the store's StoreLock.  The file is read whole, changed in memory,*)
(* written to a temporary sibling and renamed over the store.              *)
(*                                                                         *)
(* One store stands for the four: create, update, delete and read are the  *)
(* same code in each; "import" is profiles_db.import_legacy_calibrations   *)
(* and "region" standards_db.add_reference_region, the two transactions    *)
(* that call other transactions while they hold the lock.                  *)
(***************************************************************************)
EXTENDS StoreLock, Sequences

CONSTANTS Ids,          \* entry ids: a bound on how many entries exist at once
          Legacy,       \* keys of the legacy calibration file
          Regions,      \* what an update or a new reference region writes
          Asks,         \* the requests callers make
          NoRequest,
          MaxVersions,  \* bound: an entry gets at most this many versions
          ReadMayFail,  \* reading the store file may fail (OSError)
          Stuck         \* processes that may stop being scheduled

VARIABLES store,   \* the store file: an entry is the sequence of its versions
          th       \* per thread: where it is, and its locals

vars == <<lock, oslock, store, th>>

asked == [t \in Threads |->
            IF \/ th[t].pc = "idle"
               \/ th[t].pc \in {"exit", "unlock"} /\ th[t].req.op # "import"
            THEN NoRequest ELSE th[t].req]
A == INSTANCE AtomicStore WITH content <- store

ASSUME AsksAssumption ==
    /\ Asks \subseteq A!Request
    /\ \A r \in Asks : r.op = "import" => r.body \subseteq Legacy
ASSUME NoRequestAssumption == NoRequest \notin A!Request
ASSUME BoundAssumption == MaxVersions \in Nat \ {0}
ASSUME ReadMayFailAssumption == ReadMayFail \in BOOLEAN

Content == [Ids -> Seq(A!Bodies)]
Empty == [k \in Ids |-> <<>>]
Inside == {"load", "batch", "decide", "replace", "exit"}
Locals == [pc : {"idle", "want", "open", "unlock"} \cup Inside,
           req : A!Request \cup {NoRequest},
           snap : Content,          \* `data`: what _load returned, then what _save writes
           body : A!Bodies,         \* the body of the version being written
           todo : SUBSET Legacy]    \* import: legacy keys still to be looked at
Idle == [pc |-> "idle", req |-> NoRequest, snap |-> Empty, body |-> {}, todo |-> {}]

Op(t) == th[t].req.op
At(t, pc) == th[t].pc = pc
Goto(t, pc) == th' = [th EXCEPT ![t].pc = pc]
Depth(t) == lock[Mine(t)].depth

Init == LockInit /\ store = Empty /\ th = [t \in Threads |-> Idle]

\* A route calls a store function.
Ask(t) ==
    /\ At(t, "idle")
    /\ \E r \in Asks : th' = [th EXCEPT ![t] = [Idle EXCEPT !.pc = "want", !.req = r, !.body = r.body]]
    /\ UNCHANGED <<lockVars, store>>

\* `with _LOCK:`  The file lock is asked for at depth 1 only.
Enter(t) ==
    /\ At(t, "want")
    /\ EnterThread(t)
    /\ Goto(t, IF Depth(t) = 0 THEN "open" ELSE "load")
    /\ UNCHANGED store

AcquireFile(t) ==
    /\ At(t, "open")
    /\ \/ (TakeFile(t) \/ Degrade(t)) /\ Goto(t, "load")
       \/ TimeOut(t) /\ th' = [th EXCEPT ![t] = Idle]        \* 503, Retry-After
    /\ UNCHANGED store

\* What the transaction does with what it loaded.  The nested calls (create
\* under an import, update under a new region) load again, at depth 2.
Loaded_ImportsAgain(t, data) ==
    IF Depth(t) = 1 /\ Op(t) = "import"
    THEN [th[t] EXCEPT !.pc = "batch", !.snap = data, !.todo = th[t].req.body]
    ELSE IF Depth(t) = 1 /\ Op(t) = "region" /\ data[th[t].req.id] # <<>>
    THEN [th[t] EXCEPT !.pc = "batch", !.snap = data,
                       !.body = @ \cup A!Latest(data, th[t].req.id)]
    ELSE [th[t] EXCEPT !.pc = "decide", !.snap = data]
Loaded(t, data) ==
    IF Depth(t) = 1 /\ Op(t) = "import"
    THEN [th[t] EXCEPT !.pc = "batch", !.snap = data,
                       !.todo = {key \in th[t].req.body : A!NotImported(data, key)}]
    ELSE IF Depth(t) = 1 /\ Op(t) = "region" /\ data[th[t].req.id] # <<>>
    THEN [th[t] EXCEPT !.pc = "batch", !.snap = data,
                       !.body = @ \cup A!Latest(data, th[t].req.id)]
    ELSE [th[t] EXCEPT !.pc = "decide", !.snap = data]

\* _load.  A file that cannot be read counts as corrupt: it is renamed away
\* if that works, and either way the transaction goes on with no entries.
Load(t) ==
    /\ At(t, "load")
    /\ \/ th' = [th EXCEPT ![t] = Loaded(t, store)] /\ UNCHANGED store
       \/ /\ ReadMayFail
          /\ th' = [th EXCEPT ![t] = Loaded(t, Empty)]
          /\ store' \in {store, Empty}
    /\ UNCHANGED lockVars

\* import: the next key that is not in the store, or the end of the batch.
\* region: the update, under the lock its caller already holds (and the nested
\* get before it, which reads the file the update then loads).
Batch(t) ==
    /\ At(t, "batch")
    /\ \/ /\ Op(t) = "import"
          /\ \E key \in th[t].todo :
                th' = [th EXCEPT ![t].pc = "load", ![t].body = {key}, ![t].todo = @ \ {key}]
          /\ EnterNested(t)
       \/ Op(t) = "region" /\ Goto(t, "load") /\ EnterNested(t)
       \/ Op(t) = "import" /\ th[t].todo = {} /\ Goto(t, "exit") /\ UNCHANGED lockVars
    /\ UNCHANGED store

\* The change in memory: data -> next.
MayCreate(t, data, k) ==
    /\ data[k] = <<>>
    /\ Op(t) = "create" => k = th[t].req.id
    /\ Op(t) \in {"create", "import"}
MayUpdate(t, data, k) ==
    /\ data[k] # <<>> /\ Len(data[k]) < MaxVersions
    /\ k = th[t].req.id
    /\ Op(t) \in {"update", "retext"} \/ (Op(t) = "region" /\ Depth(t) = 2)
MayDelete(t, data, k) == data[k] # <<>> /\ k = th[t].req.id /\ Op(t) = "delete"

\* update_profile: an update without `text` keeps the legacy key, one with a
\* `text` ("retext") replaces it wholesale.
NewBody(t, data, k) ==
    IF Op(t) = "update" THEN (A!Latest(data, k) \cap Legacy) \cup th[t].body ELSE th[t].body

Stage(t) ==
    LET data == th[t].snap
        Save(next) == th' = [th EXCEPT ![t].pc = "replace", ![t].snap = next]
    IN  /\ At(t, "decide")
        /\ \E k \in Ids :
              \/ MayCreate(t, data, k) /\ Save([data EXCEPT ![k] = <<th[t].body>>])
              \/ MayUpdate(t, data, k) /\ Save([data EXCEPT ![k] = Append(@, NewBody(t, data, k))])
              \/ MayDelete(t, data, k) /\ Save([data EXCEPT ![k] = <<>>])
        /\ UNCHANGED <<lockVars, store>>

\* A read, a duplicate id, an unknown id (404): nothing is written.
Refuse(t) ==
    /\ At(t, "decide")
    /\ ~\E k \in Ids : \/ MayCreate(t, th[t].snap, k)
                       \/ MayUpdate(t, th[t].snap, k)
                       \/ MayDelete(t, th[t].snap, k)
    /\ Goto(t, "exit")
    /\ UNCHANGED <<lockVars, store>>

\* _save: os.replace puts the temporary file in the store's place, or the
\* write fails, the temporary file goes and the error ends the whole batch.
Replace_InPlace(t) ==
    /\ At(t, "replace")
    /\ \/ store' = th[t].snap /\ Goto(t, "exit")
       \/ th' = [th EXCEPT ![t].pc = "exit", ![t].todo = {}] /\ store' = Empty
    /\ UNCHANGED lockVars
Replace(t) ==
    /\ At(t, "replace")
    /\ \/ store' = th[t].snap /\ Goto(t, "exit")
       \/ th' = [th EXCEPT ![t].pc = "exit", ![t].todo = {}] /\ UNCHANGED store
    /\ UNCHANGED lockVars

\* __exit__: of a nested `with`, and the two halves of the outermost one.
Exit(t) ==
    /\ At(t, "exit")
    /\ \/ ExitNested(t) /\ Goto(t, IF Op(t) = "import" THEN "batch" ELSE "exit")
       \/ ExitFile(t) /\ Goto(t, "unlock")
    /\ UNCHANGED store

Leave_KeepsThreadLock(t) ==
    /\ At(t, "unlock")
    /\ th' = [th EXCEPT ![t] = Idle]
    /\ UNCHANGED <<lockVars, store>>
Leave(t) ==
    /\ At(t, "unlock")
    /\ ExitThread(t)
    /\ th' = [th EXCEPT ![t] = Idle]
    /\ UNCHANGED store

\* A server process is killed, wherever its threads are, and started again.
Crash(p) ==
    /\ ProcessDies(p)
    /\ th' = [t \in Threads |-> IF Mine(t) = p THEN Idle ELSE th[t]]
    /\ UNCHANGED store

Step(t) == AcquireFile(t) \/ Load(t) \/ Batch(t) \/ Stage(t) \/ Refuse(t)
           \/ Replace(t) \/ Exit(t) \/ Leave(t)

Next == \/ \E t \in Threads : Ask(t) \/ Enter(t) \/ Step(t)
        \/ \E p \in Procs : Crash(p)

\* A thread that has the RLock keeps running unless its process is stuck, and
\* a thread that waits for it gets it in the end: the interpreter hands a free
\* lock to a waiter, nobody is passed over for ever.
Fairness == \A t \in Threads : Mine(t) \notin Stuck => WF_vars(Step(t)) /\ SF_vars(Enter(t))

Spec == Init /\ [][Next]_vars /\ Fairness

-----------------------------------------------------------------------------
TypeOK == LockTypeOK /\ store \in Content /\ th \in [Threads -> Locals]

\* Two transactions are never under way at once: not in one server, and where
\* the filesystem can lock, not in two servers either.
MutualExclusion ==
    \A t, u \in Threads : t # u /\ th[t].pc \in Inside /\ th[u].pc \in Inside =>
        CanLock = FALSE /\ Mine(t) # Mine(u)

\* What a transaction is about to write differs from the file in the one
\* entry it was asked to change: nothing another caller saved is dropped.
SaveKeepsOthers ==
    \A t \in Threads : At(t, "replace") =>
        \E k \in Ids : /\ \A j \in Ids \ {k} : th[t].snap[j] = store[j]
                       /\ Op(t) # "import" => k = th[t].req.id
                       /\ Op(t) # "delete" => Len(th[t].snap[k]) = Len(store[k]) + 1

\* An import never makes a profile of a calibration that is one already,
\* whichever imports, creates and updates other threads and servers have
\* finished since it was asked for, and whatever fails or crashes in between
\* (io/profiles_db.py:338-341).
ImportedOnce ==
    \A t \in Threads : At(t, "replace") /\ Op(t) = "import" =>
        \A k \in Ids, key \in Legacy :
            th[t].snap[k] # store[k] /\ key \in A!Latest(th[t].snap, k) => A!NotImported(store, key)

\* Every change of the file is one request, applied to the file as it is at
\* that instant, and a request is served at most once.
AtomicSpec == A!Spec

\* A request of a server that runs is answered (served, refused or 503), even
\* while another server is stuck inside its transaction.
Answered == \A t \in Threads : Mine(t) \notin Stuck => (th[t].pc # "idle" ~> th[t].pc = "idle")
=============================================================================
