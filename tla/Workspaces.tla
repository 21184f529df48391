----------------------------- MODULE Workspaces -----------------------------
(***************************************************************************)
(* Named workspaces (workspaces.py, routes/session_io.py): projects kept   *)
(* under a slug in the config directory, and the index that names them.    *)
(* The index is read and written under a StoreLock, whose exclusion is     *)
(* shown in StoreLock and taken as given here; the project files are       *)
(* written, stat'ed and deleted outside it, by the requests of any server  *)
(* that shares the directory.                                              *)
(*                                                                         *)
(* What a project file holds is the number of the save that wrote it; the  *)
(* pair a version 1 build left is older than every save.                   *)
(***************************************************************************)
EXTENDS Naturals

CONSTANTS Slugs,
          Threads,       \* requests at once, over all servers
          NoThread,
          MaxSaves,      \* bound: saves over time
          ReadMayFail    \* an existing index may fail to be read

ASSUME NoThreadAssumption == NoThread \notin Threads
ASSUME BoundAssumption == MaxSaves \in Nat /\ ReadMayFail \in BOOLEAN

Legacy == 1
Saves == Legacy + 1 .. Legacy + MaxSaves
Contents == 0 .. Legacy + MaxSaves      \* 0: no file, no entry

VARIABLES
    index,     \* per slug, the save its entry was registered by
    project,   \* per slug, what <slug>.fvp holds
    legacy,    \* per slug, the <slug>.json pair
    saves,     \* the last save's number
    lock,      \* who holds the index lock over a listing
    th,        \* per thread, where its request is, and its locals
    kept,      \* note: the last save answered with no delete about, until the next delete
    gone,      \* note: slugs whose delete was answered with no save about, until the next save
    forgot     \* note: slugs whose entry a failed read of the index lost

files == <<project, legacy>>
notes == <<kept, gone, forgot>>
vars == <<index, files, saves, lock, th, notes>>

Idle == [pc |-> "idle", slug |-> "", v |-> 0, alone |-> TRUE,
         read |-> [s \in Slugs |-> 0], todo |-> {}, pruned |-> FALSE]
Stored(s) == IF project[s] # 0 THEN project[s] ELSE legacy[s]

Request ==
    [pc : {"idle", "register", "project", "legacy", "old", "read", "name", "stat", "lost"},
     slug : Slugs \cup {""}, v : Contents, alone : BOOLEAN,
     read : [Slugs -> Contents], todo : SUBSET Slugs, pruned : BOOLEAN]

TypeOK ==
    /\ index \in [Slugs -> Contents] /\ project \in [Slugs -> Contents]
    /\ legacy \in [Slugs -> {0, Legacy}] /\ saves \in Contents
    /\ lock \in Threads \cup {NoThread}
    /\ th \in [Threads -> Request]
    /\ kept \in [Slugs -> Contents] /\ gone \subseteq Slugs /\ forgot \subseteq Slugs

\* Workspaces of an older build may be there.
Init ==
    /\ legacy \in [Slugs -> {0, Legacy}]
    /\ index = legacy
    /\ project = [s \in Slugs |-> 0] /\ saves = Legacy
    /\ lock = NoThread /\ th = [t \in Threads |-> Idle]
    /\ kept = legacy /\ gone = {} /\ forgot = {}

At(t, pc) == th[t].pc = pc
On(s, pcs) == \E t \in Threads : th[t].slug = s /\ th[t].pc \in pcs
Saving(s) == On(s, {"register"})
Deleting(s) == On(s, {"project", "legacy"})
Free == lock = NoThread
Goto(t, pc) == th' = [th EXCEPT ![t].pc = pc]
Answer(t) == th' = [th EXCEPT ![t] = Idle]

\* The requests on s that are under way learn that another one overlaps them.
Overlapped(s, pcs) ==
    [u \in Threads |-> IF th[u].slug = s /\ th[u].pc \in pcs THEN [th[u] EXCEPT !.alone = FALSE] ELSE th[u]]
Loading == {"old", "read"}

\* _read_index: an index that cannot be read counts as empty.
ReadIndex == {index} \cup (IF ReadMayFail THEN {[s \in Slugs |-> 0]} ELSE {})
Lost(read) == {s \in Slugs : index[s] # 0 /\ read[s] = 0}

---------------------------------------------------------------------------
\* Save: the file first, then the entry

SaveWrite(t) ==
    /\ At(t, "idle") /\ saves + 1 \in Saves
    /\ \E s \in Slugs :
          /\ project' = [project EXCEPT ![s] = saves + 1]
          /\ th' = [Overlapped(s, {"project", "legacy"}) EXCEPT
                       ![t] = [Idle EXCEPT !.pc = "register", !.slug = s, !.v = saves + 1,
                                           !.alone = ~Deleting(s)]]
          /\ gone' = gone \ {s}
    /\ saves' = saves + 1
    /\ UNCHANGED <<index, legacy, lock, kept, forgot>>

Register(t) ==
    /\ At(t, "register") /\ Free
    /\ LET s == th[t].slug
       IN /\ \E read \in ReadIndex :
                /\ index' = [read EXCEPT ![s] = th[t].v]
                /\ forgot' = (forgot \cup Lost(read)) \ {s}
          /\ kept' = IF th[t].alone /\ th[t].v > kept[s] THEN [kept EXCEPT ![s] = th[t].v] ELSE kept
    /\ Answer(t)
    /\ UNCHANGED <<files, saves, lock, gone>>

---------------------------------------------------------------------------
\* delete_workspace: the entry under the lock, then the files, one by one

DeletePop(t) ==
    /\ At(t, "idle") /\ Free
    /\ \E s \in Slugs, read \in ReadIndex :
          /\ index' = [read EXCEPT ![s] = 0]
          /\ forgot' = (forgot \cup Lost(read)) \ {s}
          /\ th' = [Overlapped(s, Loading \cup {"register"}) EXCEPT
                       ![t] = [Idle EXCEPT !.pc = "project", !.slug = s, !.alone = ~Saving(s)]]
          /\ kept' = [kept EXCEPT ![s] = 0]
    /\ UNCHANGED <<files, saves, lock, gone>>

\* A file that is open may refuse to go; the request fails half done.
DeleteProject(t) ==
    /\ At(t, "project")
    /\ \/ project' = [project EXCEPT ![th[t].slug] = 0] /\ Goto(t, "legacy")
       \/ project[th[t].slug] # 0 /\ Answer(t) /\ UNCHANGED project
    /\ UNCHANGED <<index, legacy, saves, lock, notes>>

\* The pair goes manifest first: it is no workspace any more when only the
\* second file refuses.  (A file another delete takes between the look and the
\* unlink fails the request with nothing changed, as Crash does.)
Unlinked_ProjectOnly(s) == legacy
Unlinked(s) == [legacy EXCEPT ![s] = 0]
DeleteLegacy(t) ==
    /\ At(t, "legacy")
    /\ LET s == th[t].slug
       IN \/ legacy' = Unlinked(s) /\ gone' = IF th[t].alone THEN gone \cup {s} ELSE gone
          \/ legacy[s] # 0 /\ legacy' \in {legacy, Unlinked(s)} /\ UNCHANGED gone
    /\ Answer(t)
    /\ UNCHANGED <<index, project, saves, lock, kept, forgot>>

---------------------------------------------------------------------------
\* list_workspaces: entries whose files are gone are pruned, under the lock;
\* a load ends with a listing, for the name

Locked_Not(t) == lock
Locked(t) == t
ListRead(t) ==
    /\ (At(t, "idle") \/ At(t, "name")) /\ Free
    /\ \E read \in ReadIndex :
          th' = [th EXCEPT ![t] = [Idle EXCEPT !.pc = "stat", !.read = read,
                                               !.todo = {s \in Slugs : read[s] # 0}]]
    /\ lock' = Locked(t)
    /\ UNCHANGED <<index, files, saves, notes>>

ListStat(t) ==
    /\ At(t, "stat")
    /\ \E s \in th[t].todo :
          th' = [th EXCEPT ![t].todo = @ \ {s},
                           ![t].read[s] = IF Stored(s) = 0 THEN 0 ELSE @,
                           ![t].pruned = @ \/ Stored(s) = 0]
    /\ UNCHANGED <<index, files, saves, lock, notes>>

\* The index is written only when something was pruned.
ListDone(t) ==
    /\ At(t, "stat") /\ th[t].todo = {}
    /\ index' = IF th[t].pruned THEN th[t].read ELSE index
    /\ lock' = NoThread
    /\ Answer(t)
    /\ UNCHANGED <<files, saves, notes>>

---------------------------------------------------------------------------
\* Load: stored_path asks for the project, then for the old pair

First_Legacy(s) == IF legacy[s] # 0 THEN 0 ELSE project[s]
First(s) == project[s]
LoadLook(t) ==
    /\ At(t, "idle")
    /\ \E s \in Slugs :
          th' = [th EXCEPT ![t] = [Idle EXCEPT !.slug = s, !.pc = IF First(s) # 0 THEN "read" ELSE "old",
                                               !.v = kept[s], !.alone = ~Deleting(s)]]
    /\ UNCHANGED <<index, files, saves, lock, notes>>

Owed(t) == IF th[t].alone THEN th[t].v ELSE 0
\* The answer is given: a workspace that was owed and is not had, or is had in
\* an older state, is lost for the request.
Loaded(t, content) ==
    IF content < Owed(t) THEN Goto(t, "lost") ELSE IF content = 0 THEN Answer(t) ELSE Goto(t, "name")

LoadOld(t) ==
    /\ At(t, "old")
    /\ Loaded(t, legacy[th[t].slug])
    /\ UNCHANGED <<index, files, saves, lock, notes>>

LoadRead(t) ==
    /\ At(t, "read")
    /\ Loaded(t, project[th[t].slug])
    /\ UNCHANGED <<index, files, saves, lock, notes>>

---------------------------------------------------------------------------

\* The user clears the directory by hand.
RemoveByHand(s) ==
    /\ Stored(s) # 0
    /\ project' = [project EXCEPT ![s] = 0] /\ legacy' = [legacy EXCEPT ![s] = 0]
    /\ th' = Overlapped(s, Loading \cup {"register"})
    /\ kept' = [kept EXCEPT ![s] = 0]
    /\ UNCHANGED <<index, saves, lock, gone, forgot>>

\* A server ends in the middle of a request; the kernel drops its lock.
Crash(t) ==
    /\ ~At(t, "idle")
    /\ Answer(t)
    /\ lock' = IF lock = t THEN NoThread ELSE lock
    /\ UNCHANGED <<index, files, saves, notes>>

Next ==
    \/ \E t \in Threads :
          \/ SaveWrite(t) \/ Register(t) \/ DeletePop(t) \/ DeleteProject(t) \/ DeleteLegacy(t)
          \/ ListRead(t) \/ ListStat(t) \/ ListDone(t)
          \/ LoadLook(t) \/ LoadOld(t) \/ LoadRead(t) \/ Crash(t)
    \/ \E s \in Slugs : RemoveByHand(s)

Spec == Init /\ [][Next]_vars

---------------------------------------------------------------------------
\* Properties

\* An answered save stays on the disk and in the list, whatever saves, listings
\* that prune, deletes of other workspaces and crashes go on, until its own
\* delete; only a read of the index that fails takes its name from the list.
SavedStaysListed ==
    \A s \in Slugs : kept[s] # 0 => Stored(s) >= kept[s] /\ (index[s] # 0 \/ s \in forgot)

\* Once a delete that no save overlapped is answered, nothing of the workspace
\* comes back, neither an older copy of its project nor its entry.
DeletedStaysGone == \A s \in gone : Stored(s) = 0 /\ index[s] = 0

\* A load that no delete overlaps finds the workspace, in the state of the last
\* save answered before it or of a later one.
LoadIsCurrent == \A t \in Threads : ~At(t, "lost")
=============================================================================
