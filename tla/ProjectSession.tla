---------------------------- MODULE ProjectSession ----------------------------
(***************************************************************************)
(* The open project: the images of the session store, the placeholders of  *)
(* images whose data this machine does not have, the recorded results, and *)
(* the requests that save, open, append and relocate a project             *)
(* (session.py, project_session.py, routes/_project_adapter.py).           *)
(*                                                                         *)
(* Images and placeholders are kept in two places under two locks, and a   *)
(* request visits them in steps: what it read may be old when it is used.  *)
(***************************************************************************)
EXTENDS Naturals, FiniteSets

CONSTANTS Ids,        \* image ids: a bound on how many images are ever registered
          Results,    \* ids of recorded results
          Paths,      \* project files
          Threads,    \* requests running at once
          Alone,      \* operations that run only while no other request does
          NoPath

ASSUME NoPathAssumption == NoPath \notin Paths

VARIABLES store,      \* ids with pixels, SessionStore._images
          project,    \* OpenProject: path, placeholders, results
          files,      \* the project files: the ids and results each holds
          th,         \* per request: where it is, and its locals
          owed        \* history: what a save that runs has to write

vars == <<store, project, files, th, owed>>

Ops == {"save", "replace", "append", "relocate"}
File == [exists : {TRUE}, ids : (SUBSET Ids) \ {{}}, results : SUBSET Results]
        \cup {[exists |-> FALSE, ids |-> {}, results |-> {}]}
Idle == [pc |-> "idle", op |-> "save", path |-> NoPath, ids |-> {}, held |-> {}, results |-> {}]

TypeOK ==
    /\ store \subseteq Ids
    /\ project \in [path : Paths \cup {NoPath}, placeholders : SUBSET Ids, results : SUBSET Results]
    /\ files \in [Paths -> File]
    /\ th \in [Threads ->
         [pc : {"idle", "ids", "get", "state", "write", "note", "clear", "restore", "adopt", "set"},
          op : Ops, path : Paths \cup {NoPath},
          ids : SUBSET Ids,        \* save: open ids; others: images to register
          held : SUBSET Ids,       \* placeholders read from the session or the file
          results : SUBSET Results]]
    /\ owed \in [Threads -> SUBSET (Ids \cup Results)]

Init ==
    /\ store = {}
    /\ project = [path |-> NoPath, placeholders |-> {}, results |-> {}]
    /\ files \in [Paths -> File]               \* from earlier sessions
    /\ th = [t \in Threads |-> Idle]
    /\ owed = [t \in Threads |-> {}]

At(t, pc) == th[t].pc = pc
Goto(t, pc) == th' = [th EXCEPT ![t].pc = pc]
Done(t) == th' = [th EXCEPT ![t] = Idle]

\* Images a relocation has found but not registered yet.
Arriving == UNION {th[t].ids : t \in {u \in Threads : th[u].op = "relocate" /\ At(u, "restore")}}

\* Every image the session answers for, with or without its pixels.
Tracked == store \cup project.placeholders \cup Arriving

\* Ids are random: a fresh one is in use nowhere.
Fresh == Ids \ (Tracked \cup UNION {files[p].ids : p \in Paths}
                \cup UNION {th[t].ids \cup th[t].held : t \in Threads})

NoLongerOwed(gone) == owed' = [t \in Threads |-> owed[t] \ gone]

-----------------------------------------------------------------------------
(* Opening and closing images, recording results.                          *)

Open ==
    /\ \E i \in Fresh : store' = store \cup {i}
    /\ UNCHANGED <<project, files, th, owed>>

Close(i) ==
    /\ i \in store
    /\ store' = store \ {i}
    /\ NoLongerOwed({i})
    /\ UNCHANGED <<project, files, th>>

AddResult(r) ==
    /\ r \notin project.results
    /\ project' = [project EXCEPT !.results = @ \cup {r}]
    /\ UNCHANGED <<store, files, th, owed>>

RemoveResult(r) ==
    /\ r \in project.results
    /\ project' = [project EXCEPT !.results = @ \ {r}]
    /\ NoLongerOwed({r})
    /\ UNCHANGED <<store, files, th>>

-----------------------------------------------------------------------------
(* A request starts.                                                       *)

MayStart(op) ==
    \A u \in Threads : ~At(u, "idle") => op \notin Alone /\ th[u].op \notin Alone

Start(t, op, start) ==
    /\ At(t, "idle")
    /\ MayStart(op)
    /\ th' = [th EXCEPT ![t] = start]
    /\ UNCHANGED <<store, project, files>>

\* save_current: project.placeholders().
Save(t, p) ==
    /\ Start(t, "save", [Idle EXCEPT !.pc = "ids", !.path = p, !.held = project.placeholders])
    /\ owed' = [owed EXCEPT ![t] = Tracked \cup project.results]

\* load_project: an image whose source is not found becomes a placeholder.
\* What is found is a choice: drives come and go between any two requests.
Load(t, op, p) ==
    /\ files[p].exists
    /\ \E found \in SUBSET files[p].ids :
          Start(t, op, [pc |-> IF op = "replace" THEN "clear" ELSE "restore",
                        op |-> op, path |-> p, results |-> files[p].results,
                        ids |-> found, held |-> files[p].ids \ found])
    /\ UNCHANGED owed

\* relocate(root): the placeholders are read, and resolved outside the lock.
Relocate(t) ==
    /\ Start(t, "relocate", [Idle EXCEPT !.pc = "set", !.op = "relocate",
                                         !.held = project.placeholders])
    /\ UNCHANGED owed

-----------------------------------------------------------------------------
(* save_current                                                            *)

\* open_entries(): list the ids, then look each one up.
SaveIds(t) ==
    /\ At(t, "ids")
    /\ th' = [th EXCEPT ![t].pc = "get", ![t].ids = store]
    /\ UNCHANGED <<store, project, files, owed>>

\* An id closed since is an UnknownImageError; nothing open, a ValueError.
SaveGet(t) ==
    /\ At(t, "get")
    /\ IF th[t].ids \subseteq store /\ th[t].ids \cup th[t].held # {}
       THEN Goto(t, "state") ELSE Done(t)
    /\ UNCHANGED <<store, project, files, owed>>

\* project.current(), and the id check of save_project.
SaveState(t) ==
    /\ At(t, "state")
    /\ IF th[t].ids \cap th[t].held = {}
       THEN th' = [th EXCEPT ![t].pc = "write", ![t].results = project.results]
       ELSE Done(t)
    /\ UNCHANGED <<store, project, files, owed>>

Written_OpenOnly(t) == [exists |-> TRUE, ids |-> th[t].ids, results |-> th[t].results]
Written(t) == [exists |-> TRUE, ids |-> th[t].ids \cup th[t].held, results |-> th[t].results]

\* The staged container is renamed over the project, or the write fails and
\* the project on disk stays what it was.
SaveWrite_InPlace(t) ==
    /\ At(t, "write")
    /\ \/ files' = [files EXCEPT ![th[t].path] = Written(t)] /\ Goto(t, "note")
       \/ Done(t) /\ files' = [files EXCEPT ![th[t].path].ids = {}]
    /\ UNCHANGED <<store, project, owed>>
SaveWrite(t) ==
    /\ At(t, "write")
    /\ \/ files' = [files EXCEPT ![th[t].path] = Written(t)] /\ Goto(t, "note")
       \/ Done(t) /\ UNCHANGED files
    /\ UNCHANGED <<store, project, owed>>

\* note_save(): the open project now lives at this path.
SaveNote(t) ==
    /\ At(t, "note")
    /\ project' = [project EXCEPT !.path = th[t].path]
    /\ Done(t)
    /\ UNCHANGED <<store, files, owed>>

-----------------------------------------------------------------------------
(* load_into_session and relocate                                          *)

\* restore_into_store with replace: store.clear().
ClearStore(t) ==
    /\ At(t, "clear")
    /\ store' = {}
    /\ NoLongerOwed(store \ project.placeholders)
    /\ Goto(t, "restore")
    /\ UNCHANGED <<project, files>>

\* store.restore(): the saved id, or a fresh one if that id is taken.
Restore(t) ==
    /\ At(t, "restore")
    /\ \E i \in th[t].ids :
          /\ \E j \in IF i \in store THEN Fresh ELSE {i} : store' = store \cup {j}
          /\ th' = [th EXCEPT ![t].ids = @ \ {i}]
    /\ UNCHANGED <<project, files, owed>>

\* Everything is registered: a load goes on to adopt, a relocation is done.
Restored(t) ==
    /\ At(t, "restore")
    /\ th[t].ids = {}
    /\ IF th[t].op = "relocate" THEN Done(t) ELSE Goto(t, "adopt")
    /\ UNCHANGED <<store, project, files, owed>>

\* ProjectSession.adopt(): an append keeps what is tracked, unless no project
\* is open yet, when it is a load like any other.
Merges(t) == th[t].op = "append" /\ project.path # NoPath

Adopted_Overwrites(t) ==
    [path |-> th[t].path, placeholders |-> th[t].held, results |-> th[t].results]
Adopted(t) ==
    IF Merges(t)
    THEN [project EXCEPT !.placeholders = @ \cup th[t].held, !.results = @ \cup th[t].results]
    ELSE [path |-> th[t].path, placeholders |-> th[t].held, results |-> th[t].results]

Adopt(t) ==
    /\ At(t, "adopt")
    /\ project' = Adopted(t)
    /\ NoLongerOwed(IF Merges(t) THEN {}
                    ELSE (project.placeholders \ store) \cup project.results)
    /\ Done(t)
    /\ UNCHANGED <<store, files>>

\* relocate(): under the lock, the placeholders become those still unresolved
\* among the ones read at the start; the route registers the resolved images
\* afterwards.
RelocateSet(t) ==
    /\ At(t, "set")
    /\ \E found \in SUBSET th[t].held :
          /\ project' = [project EXCEPT !.placeholders = th[t].held \ found]
          /\ th' = [th EXCEPT ![t].pc = "restore", ![t].ids = found, ![t].held = {}]
    /\ UNCHANGED <<store, files, owed>>

Step(t) == \/ SaveIds(t) \/ SaveGet(t) \/ SaveState(t) \/ SaveWrite(t) \/ SaveNote(t)
           \/ ClearStore(t) \/ Restore(t) \/ Restored(t) \/ Adopt(t) \/ RelocateSet(t)

Next ==
    \/ Open
    \/ \E i \in Ids : Close(i)
    \/ \E r \in Results : AddResult(r) \/ RemoveResult(r)
    \/ \E t \in Threads : \/ \E p \in Paths : Save(t, p) \/ Load(t, "replace", p) \/ Load(t, "append", p)
                          \/ Relocate(t)
                          \/ Step(t)

Spec == Init /\ [][Next]_vars /\ \A t \in Threads : WF_vars(Step(t))

-----------------------------------------------------------------------------
\* What a save writes holds every image, found or not, and every result that
\* the session held when the save began and that nobody closed, removed or
\* replaced since.  (_project_adapter.py:9: "opening a project without its data
\* and pressing save cannot destroy it".)
SaveComplete ==
    \A t \in Threads : At(t, "write") =>
        owed[t] \subseteq Written(t).ids \cup Written(t).results

\* An image leaves the session only when it is closed or when a load that
\* replaces the project runs: no relocation, append or save drops one, however
\* long the sequence of requests.
NothingDropped ==
    [][\A i \in Tracked \ Tracked' :
          \/ Close(i)
          \/ \E t \in Threads : ClearStore(t) \/ (Adopt(t) /\ ~Merges(t))]_vars
=============================================================================
