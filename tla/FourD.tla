------------------------------- MODULE FourD -------------------------------
(***************************************************************************)
(* The 4D-STEM datasets of a session: FourDStore (session_fourd.py) and    *)
(* the requests of routes/fourd.py on it.  A dataset keeps its id while a  *)
(* reshape replaces its handle; the navigation image computed from it is   *)
(* an ordinary image of the session, associated with the id.               *)
(*                                                                         *)
(* Handles, datasets and images are numbered in the order they are made;   *)
(* 0 is none.  A thread of the server runs one request at a time, a step   *)
(* ends where the next lock is taken or another object is read.            *)
(***************************************************************************)
EXTENDS UploadDirs, Sequences

CONSTANTS Threads,      \* request threads of the Server
          MaxHandles,   \* bound: files opened
          MaxImages     \* bound: navigation images registered

ASSUME BoundsAssumption == MaxHandles \in Nat /\ MaxImages \in Nat

VARIABLES
    handle,   \* FourDDataset objects: see HandleRecord
    data,     \* per id given so far: _datasets, _nav_ids and _owned_dirs
    image,    \* navigation images registered in the image store
    th,       \* per thread: where its request is, and the request's locals
    late      \* note: images associated after their handle was replaced or closed

store == <<handle, data, image, th, late>>
vars == <<dirVars, store>>

HandleRecord == [stated : BOOLEAN, closed : BOOLEAN, cached : BOOLEAN]
Handles == 1 .. Len(handle)
Ids == 1 .. Len(data)
Images == 1 .. Len(image)
Open(i) == data[i].h # 0

Idle == [pc |-> "idle", id |-> 0, h |-> 0, d |-> NoDir, img |-> 0]

Dataset == [h : Nat, nav : Nat, dir : Dirs \cup {NoDir}]
Image == [h : Nat, open : BOOLEAN]
Local == [pc : {"idle", "made", "opened", "load", "add", "unlock", "remove", "replace",
                "swapped", "look", "compute", "register", "associate", "close"},
          id : Nat, h : Nat, d : Dirs \cup {NoDir}, img : Nat]

TypeOK ==
    /\ DirTypeOK
    /\ handle \in Seq(HandleRecord) /\ data \in Seq(Dataset) /\ image \in Seq(Image)
    /\ th \in [Threads -> Local]
    /\ late \subseteq Nat

Init ==
    /\ DirInit
    /\ handle = <<>> /\ data = <<>> /\ image = <<>> /\ late = {}
    /\ th = [t \in Threads |-> Idle]

Serving == proc[Server] \in {"up", "stopping"}
At(t, pc) == Serving /\ th[t].pc = pc
Goto(t, pc) == th' = [th EXCEPT ![t].pc = pc]
Answer(t) == th' = [th EXCEPT ![t] = Idle]
Starts(t) == proc[Server] = "up" /\ th[t].pc = "idle"
Room == Len(handle) < MaxHandles

NewHandle(stated) ==
    Append(handle, [stated |-> stated, closed |-> FALSE, cached |-> FALSE])
Closed(h) == IF h = 0 THEN handle ELSE [handle EXCEPT ![h].closed = TRUE]
Added(h, d) == Append(data, [h |-> h, nav |-> 0, dir |-> d])

---------------------------------------------------------------------------
\* Opening a file by its path, and uploading one

OpenPath(t) ==
    /\ Starts(t) /\ Room
    /\ \E stated \in BOOLEAN : handle' = NewHandle(stated)
    /\ data' = Added(Len(handle) + 1, NoDir)
    /\ UNCHANGED <<dirVars, image, th, late>>

\* open_uploaded_file: UploadDir(), whose constructor makes, opens and locks.
UploadMake(t) ==
    /\ Starts(t) /\ Room
    /\ \E d \in Dirs : MakeDir(d) /\ th' = [th EXCEPT ![t].pc = "made", ![t].d = d]
    /\ UNCHANGED <<handle, data, image, late>>

UploadOpen(t) ==
    /\ At(t, "made")
    /\ OpenLock(th[t].d)
    /\ IF OnDisk(th[t].d) THEN Goto(t, "opened") ELSE Answer(t)
    /\ UNCHANGED <<handle, data, image, late>>

UploadLock(t) ==
    /\ At(t, "opened")
    /\ TakeLock(th[t].d)
    /\ IF Locked(th[t].d) THEN Answer(t) ELSE Goto(t, "load")
    /\ UNCHANGED <<handle, data, image, late>>

\* The file is moved in, then opened.  Nothing here catches the error of a move
\* that fails (the directory was swept, the disk is full): the directory stays
\* as it is, and the lock goes with the object that held it.
UploadLoad(t) ==
    /\ At(t, "load")
    /\ \/ /\ OnDisk(th[t].d) /\ Room
          /\ \E stated \in BOOLEAN : handle' = NewHandle(stated)
          /\ th' = [th EXCEPT ![t].pc = "add", ![t].h = Len(handle) + 1]
          /\ UNCHANGED dirVars
       \/ OnDisk(th[t].d) /\ Goto(t, "unlock") /\ UNCHANGED <<handle, dirVars>>
       \/ Unlock(th[t].d) /\ Answer(t) /\ UNCHANGED handle
    /\ UNCHANGED <<data, image, late>>

UploadAdd(t) ==
    /\ At(t, "add")
    /\ data' = Added(th[t].h, th[t].d)
    /\ Answer(t)
    /\ UNCHANGED <<dirVars, handle, image, late>>

---------------------------------------------------------------------------
\* Closing: FourDStore.close pops the entry under the lock, then releases

CloseId(i) == [data EXCEPT ![i].h = 0, ![i].nav = 0, ![i].dir = NoDir]

Close(t) ==
    /\ Starts(t)
    /\ \E i \in Ids :
          /\ Open(i)
          /\ th' = [th EXCEPT ![t].pc = "close", ![t].h = data[i].h, ![t].d = data[i].dir]
          /\ data' = CloseId(i)
    /\ UNCHANGED <<dirVars, handle, image, late>>

CloseHandle(t) ==
    /\ At(t, "close")
    /\ handle' = Closed(th[t].h)
    /\ IF th[t].d = NoDir THEN Answer(t) ELSE Goto(t, "unlock")
    /\ UNCHANGED <<dirVars, data, image, late>>

ReleaseLock(t) ==
    /\ At(t, "unlock")
    /\ Unlock(th[t].d) /\ Goto(t, "remove")
    /\ UNCHANGED <<handle, data, image, late>>

ReleaseDir(t) ==
    /\ At(t, "remove")
    /\ RemoveDir(th[t].d) /\ Answer(t)
    /\ UNCHANGED <<handle, data, image, late>>

---------------------------------------------------------------------------
\* Reshape: the file is opened again under another raster

\* The path a reshape re-opens lies in the upload directory, or is the user's.
FileThere(d) == d # NoDir => OnDisk(d)

Reshape(t) ==
    /\ Starts(t) /\ Room
    /\ \E i \in Ids :
          /\ Open(i) /\ ~handle[data[i].h].stated
          /\ th' = [th EXCEPT ![t].pc = "replace", ![t].id = i, ![t].d = data[i].dir, ![t].h = 0]
    /\ UNCHANGED <<dirVars, handle, data, image, late>>

ReshapeLoad(t) ==
    /\ At(t, "replace") /\ th[t].h = 0
    /\ \/ /\ FileThere(th[t].d) /\ Room
          /\ handle' = NewHandle(FALSE)
          /\ th' = [th EXCEPT ![t].h = Len(handle) + 1]
       \/ Answer(t) /\ UNCHANGED handle
    /\ UNCHANGED <<dirVars, data, image, late>>

\* FourDStore.replace: of a dataset closed meanwhile it raises, and the new
\* handle goes with the request.
Swap_KeepsNav(i, h) == [data EXCEPT ![i].h = h]
Swap(i, h) == [data EXCEPT ![i].h = h, ![i].nav = 0]
\* The handle to close is read under the lock, before the new one is stored.
Previous_Stored(t) == th[t].h
Previous(t) == data[th[t].id].h
ReshapeReplace(t) ==
    /\ At(t, "replace") /\ th[t].h # 0
    /\ IF Open(th[t].id)
       THEN /\ th' = [th EXCEPT ![t].pc = "swapped", ![t].h = Previous(t)]
            /\ data' = Swap(th[t].id, th[t].h)
            /\ UNCHANGED handle
       ELSE Answer(t) /\ handle' = Closed(th[t].h) /\ UNCHANGED data
    /\ UNCHANGED <<dirVars, image, late>>

ReshapeClose_Skipped(t) == At(t, "swapped") /\ Answer(t) /\ UNCHANGED <<dirVars, handle, data, image, late>>
ReshapeClose(t) ==
    /\ At(t, "swapped")
    /\ handle' = Closed(th[t].h)
    /\ Answer(t)
    /\ UNCHANGED <<dirVars, data, image, late>>

---------------------------------------------------------------------------
\* The navigation image

Nav(t) ==
    /\ Starts(t)
    /\ \E i \in Ids : Open(i) /\ th' = [th EXCEPT ![t].pc = "look", ![t].id = i, ![t].h = data[i].h]
    /\ UNCHANGED <<dirVars, handle, data, image, late>>

\* The associated image answers the request while it is open.
NavLook(t) ==
    /\ At(t, "look")
    /\ LET k == data[th[t].id].nav
       IN IF k # 0 /\ image[k].open THEN Answer(t) ELSE Goto(t, "compute")
    /\ UNCHANGED <<dirVars, handle, data, image, late>>

\* nav_image streams the file once and is kept; a closed handle fails it.
NavCompute(t) ==
    /\ At(t, "compute")
    /\ LET h == th[t].h
       IN IF handle[h].closed /\ ~handle[h].cached THEN Answer(t) /\ UNCHANGED handle
          ELSE Goto(t, "register") /\ handle' = [handle EXCEPT ![h].cached = TRUE]
    /\ UNCHANGED <<dirVars, data, image, late>>

NavRegister(t) ==
    /\ At(t, "register") /\ Len(image) < MaxImages
    /\ image' = Append(image, [h |-> th[t].h, open |-> TRUE])
    /\ th' = [th EXCEPT ![t].pc = "associate", ![t].img = Len(image) + 1]
    /\ UNCHANGED <<dirVars, handle, data, late>>

\* set_nav_image_id asks neither whether the dataset is still open nor whether
\* its handle is still the one that was read.
NavAssociate(t) ==
    /\ At(t, "associate")
    /\ data' = [data EXCEPT ![th[t].id].nav = th[t].img]
    /\ late' = IF data[th[t].id].h # th[t].h THEN late \cup {th[t].img} ELSE late
    /\ Answer(t)
    /\ UNCHANGED <<dirVars, handle, image>>

\* The user closes a navigation image, an image like any other.
CloseImage ==
    /\ proc[Server] = "up"
    /\ \E k \in Images : image[k].open /\ image' = [image EXCEPT ![k].open = FALSE]
    /\ UNCHANGED <<dirVars, handle, data, th, late>>

---------------------------------------------------------------------------
\* The end of the server

\* The lifespan ends when no request runs, and closes what was uploaded.
Stop ==
    /\ \A t \in Threads : th[t] = Idle
    /\ Stopping
    /\ UNCHANGED store

StopClose(i) ==
    /\ proc[Server] = "stopping" /\ data[i].dir # NoDir
    /\ data' = CloseId(i) /\ handle' = Closed(data[i].h)
    /\ Release(data[i].dir)
    /\ UNCHANGED <<image, th, late>>

Stopped ==
    /\ proc[Server] = "stopping" /\ \A i \in Ids : data[i].dir = NoDir
    /\ Exit /\ UNCHANGED store

Crash ==
    /\ Serving
    /\ Exit
    /\ data' = [i \in Ids |-> [h |-> 0, nav |-> 0, dir |-> NoDir]]
    /\ handle' = [h \in Handles |-> [handle[h] EXCEPT !.closed = TRUE]]
    /\ image' = [k \in Images |-> [image[k] EXCEPT !.open = FALSE]]
    /\ th' = [t \in Threads |-> Idle] /\ UNCHANGED late

Request(t) ==
    \/ OpenPath(t) \/ UploadMake(t) \/ UploadOpen(t) \/ UploadLock(t) \/ UploadLoad(t) \/ UploadAdd(t)
    \/ Close(t) \/ CloseHandle(t) \/ ReleaseLock(t) \/ ReleaseDir(t)
    \/ Reshape(t) \/ ReshapeLoad(t) \/ ReshapeReplace(t) \/ ReshapeClose(t)
    \/ Nav(t) \/ NavLook(t) \/ NavCompute(t) \/ NavRegister(t) \/ NavAssociate(t)

Next ==
    \/ \E t \in Threads : Request(t)
    \/ CloseImage
    \/ Stop \/ (\E i \in Ids : StopClose(i)) \/ Stopped \/ Crash
    \/ \E p \in Procs : Sweep(p) /\ UNCHANGED store
    \/ \E d \in Dirs : Age(d) /\ UNCHANGED store

Spec == Init /\ [][Next]_vars

---------------------------------------------------------------------------
\* Properties

\* A dataset that is listed can be read: its handle is open, and the upload
\* copy a reshape would open again is still there, whatever reshapes and closes
\* of it overlapped; unless a sweep had judged the directory before its lock.
ListedIsUsable ==
    \A i \in Ids : Open(i) =>
        /\ ~handle[data[i].h].closed
        /\ data[i].dir # NoDir => data[i].dir \in owned /\ (OnDisk(data[i].dir) \/ data[i].dir \in raced)

\* The image /nav answers with was computed from the raster the dataset has,
\* unless its association came after a reshape or a close that overlapped it.
NavDescribesRaster ==
    \A i \in Ids : data[i].nav # 0 => data[i].nav \in late \/ image[data[i].nav].h = data[i].h

\* Promised, and broken by the code: after a reshape the navigation image of an
\* open dataset describes it, as the association of the old raster's is dropped
\* (session_fourd.py:129-132).
NavAlwaysDescribes ==
    \A i \in Ids : Open(i) /\ data[i].nav # 0 => image[data[i].nav].h = data[i].h

\* A reshape leaks no handle and a close no copy: an open handle, and a locked
\* directory, belong to a listed dataset or to a request that runs.
NothingLeaks ==
    /\ \A h \in Handles : ~handle[h].closed =>
          (\E i \in Ids : data[i].h = h) \/ (\E t \in Threads : th[t].h = h)
    /\ \A d \in owned :
          (\E i \in Ids : data[i].dir = d) \/ (\E t \in Threads : th[t].d = d)
=============================================================================
