------------------------- MODULE ProjectSessionProofs -------------------------
(***************************************************************************)
(* Proofs about ProjectSession, for any images, results, files and number  *)
(* of requests.  That a save is complete, and that no request drops an     *)
(* image, hold as long as relocations and replacing loads run alone, which *)
(* is the hypothesis of the two theorems and of the run that checks them.  *)
(***************************************************************************)
EXTENDS ProjectSession, TLAPS

Request ==
    [pc : {"idle", "ids", "get", "state", "write", "note", "clear", "restore", "adopt", "set"},
     op : Ops, path : Paths \cup {NoPath},
     ids : SUBSET Ids, held : SUBSET Ids, results : SUBSET Results]

Saving == {"ids", "get", "state", "write", "note"}

\* A request is at a step of its operation, with a file if it has one, and a
\* save that goes on has something to write.
Stage(r) ==
    /\ r.pc \in Saving => r.op = "save" /\ r.path \in Paths
    /\ r.pc = "clear" => r.op = "replace"
    /\ r.pc = "set" => r.op = "relocate"
    /\ r.pc = "restore" => r.op # "save"
    /\ r.pc = "adopt" => r.op \in {"replace", "append"}
    /\ r.pc \in {"clear", "restore", "adopt"} /\ r.op # "relocate" => r.path \in Paths
    /\ r.pc \in {"state", "write"} => r.ids \cup r.held # {}
Staged == \A t \in Threads : Stage(th[t])

\* An operation that runs alone has no other beside it.
Exclusive ==
    \A t, u \in Threads :
        t # u /\ ~At(t, "idle") /\ ~At(u, "idle") => th[t].op \notin Alone

\* What a save is owed it has read, or will still find where it looks next.
Collected(t) ==
    /\ At(t, "ids") => owed[t] \subseteq store \cup th[t].held \cup project.results
    /\ At(t, "get") \/ At(t, "state") => owed[t] \subseteq th[t].ids \cup th[t].held \cup project.results
    /\ At(t, "write") => owed[t] \subseteq th[t].ids \cup th[t].held \cup th[t].results
Collecting == \A t \in Threads : Collected(t)

\* The placeholders a relocation read are those of the session.
Relocating == \A t \in Threads : At(t, "set") => th[t].held = project.placeholders

Typed == TypeOK /\ Staged
IInv == Typed /\ Exclusive /\ Collecting /\ Relocating

---------------------------------------------------------------------------
\* One request moves, and the others stay where they are.

Went(t) ==
    /\ th' \in [Threads -> Request]
    /\ \A u \in Threads : u # t => th'[u] = th[u]

LEMMA RequestType == TypeOK => th \in [Threads -> Request]
BY DEF TypeOK, Request

LEMMA IdleRequest == Idle \in Request /\ Idle.pc = "idle" /\ Stage(Idle)
BY DEF Idle, Request, Ops, Stage, Saving

LEMMA GoesTo ==
    ASSUME TypeOK, NEW t \in Threads, NEW r \in Request, th' = [th EXCEPT ![t] = r]
    PROVE  Went(t) /\ th'[t] = r
BY RequestType DEF Went

LEMMA MovesOn ==
    ASSUME TypeOK, NEW t \in Threads, NEW pc \in {"restore", "state", "note", "adopt"},
           th' = [th EXCEPT ![t].pc = pc]
    PROVE  /\ Went(t) /\ th'[t].pc = pc /\ th'[t].op = th[t].op /\ th'[t].path = th[t].path
           /\ th'[t].ids = th[t].ids /\ th'[t].held = th[t].held /\ th'[t].results = th[t].results
<1> DEFINE r == [th[t] EXCEPT !.pc = pc]
<1>1. th[t] \in Request /\ th' = [th EXCEPT ![t] = r]
  BY RequestType
<1>2. r \in Request /\ r.pc = pc /\ r.op = th[t].op /\ r.path = th[t].path
      /\ r.ids = th[t].ids /\ r.held = th[t].held /\ r.results = th[t].results
  BY <1>1 DEF Request
<1> HIDE DEF r
<1> QED BY <1>1, <1>2, GoesTo

LEMMA StagedKeeps ==
    ASSUME Staged, NEW t \in Threads, Went(t), Stage(th'[t])
    PROVE  Staged'
BY DEF Staged, Went, Stage

LEMMA ExclusiveKeeps ==
    ASSUME Exclusive, NEW t \in Threads, ~At(t, "idle"), Went(t),
           th'[t].op = th[t].op \/ th'[t].pc = "idle"
    PROVE  Exclusive'
BY DEF Exclusive, Went, At

\* A request that did not move keeps what it has collected, if nothing that it
\* is still owed has left the session.
LEMMA CollectedKeeps ==
    ASSUME NEW u \in Threads, Collected(u), th'[u] = th[u], owed'[u] \subseteq owed[u],
           \/ At(u, "idle")
           \/ owed'[u] \cap store \subseteq store' /\ owed'[u] \cap project.results \subseteq project'.results
    PROVE  Collected(u)'
<1>1. CASE th[u].pc = "ids"
  BY <1>1 DEF Collected, At
<1>2. CASE th[u].pc \in {"get", "state"}
  BY <1>2 DEF Collected, At
<1>3. CASE th[u].pc = "write"
  BY <1>3 DEF Collected, At
<1> QED BY <1>1, <1>2, <1>3 DEF Collected, At

\* While an operation that runs alone is on its way, all others are idle.
LEMMA OthersIdle ==
    ASSUME Exclusive, NEW t \in Threads, ~At(t, "idle"), th[t].op \in Alone
    PROVE  \A u \in Threads : u # t => At(u, "idle")
BY DEF Exclusive

---------------------------------------------------------------------------
\* The types, and the stages of the requests: one lemma per step.

\* A request either moves on with its operation or ends.
Steps(t) ==
    /\ Went(t) /\ ~At(t, "idle") /\ Stage(th'[t])
    /\ th'[t].op = th[t].op \/ th'[t].pc = "idle"

LEMMA DoneSteps == ASSUME Typed, NEW t \in Threads, ~At(t, "idle"), Done(t) PROVE Steps(t) /\ th'[t] = Idle
BY IdleRequest, GoesTo DEF Done, Typed, Steps

LEMMA SaveIdsSteps ==
    ASSUME Typed, NEW t \in Threads, SaveIds(t)
    PROVE  /\ Steps(t) /\ TypeOK'
           /\ th'[t].pc = "get" /\ th'[t].ids = store /\ th'[t].held = th[t].held
<1> DEFINE r == [th[t] EXCEPT !.pc = "get", !.ids = store]
<1>1. th[t] \in Request /\ th' = [th EXCEPT ![t] = r] /\ Stage(th[t]) /\ At(t, "ids")
  BY RequestType DEF SaveIds, Typed, Staged
<1>2. r \in Request /\ r.pc = "get" /\ r.ids = store /\ r.held = th[t].held /\ r.op = th[t].op /\ r.path = th[t].path
  BY <1>1 DEF Request, Typed, TypeOK
<1> HIDE DEF r
<1>3. Went(t) /\ th'[t] = r
  BY <1>1, <1>2, GoesTo DEF Typed
<1>4. Stage(r)
  BY <1>1, <1>2 DEF Stage, Saving, At
<1>5. TypeOK'
  BY <1>3 DEF SaveIds, Typed, TypeOK, Went, Request
<1> QED BY <1>1, <1>2, <1>3, <1>4, <1>5 DEF Steps, At

LEMMA SaveGetSteps ==
    ASSUME Typed, NEW t \in Threads, SaveGet(t)
    PROVE  /\ Steps(t) /\ TypeOK'
           /\ \/ th'[t].pc = "idle"
              \/ th'[t].pc = "state" /\ th'[t].ids = th[t].ids /\ th'[t].held = th[t].held
<1>1. Stage(th[t]) /\ At(t, "get")
  BY DEF SaveGet, Typed, Staged
<1>2. CASE Done(t)
  <2>1. Steps(t) /\ th'[t] = Idle
    BY <1>1, <1>2, DoneSteps DEF At
  <2>2. TypeOK'
    BY <2>1 DEF SaveGet, Typed, TypeOK, Steps, Went, Request
  <2> QED BY <2>1, <2>2, IdleRequest
<1>3. CASE Goto(t, "state") /\ th[t].ids \cup th[t].held # {}
  <2>1. /\ Went(t) /\ th'[t].pc = "state" /\ th'[t].op = th[t].op /\ th'[t].path = th[t].path
        /\ th'[t].ids = th[t].ids /\ th'[t].held = th[t].held
    BY <1>3, MovesOn DEF Typed, Goto
  <2>2. Stage(th'[t])
    BY <1>1, <1>3, <2>1 DEF Stage, Saving, At
  <2>3. TypeOK'
    BY <2>1 DEF SaveGet, Typed, TypeOK, Went, Request
  <2> QED BY <1>1, <2>1, <2>2, <2>3 DEF Steps, At
<1> QED BY <1>2, <1>3 DEF SaveGet

LEMMA SaveStateSteps ==
    ASSUME Typed, NEW t \in Threads, SaveState(t)
    PROVE  /\ Steps(t) /\ TypeOK'
           /\ \/ th'[t].pc = "idle"
              \/ /\ th'[t].pc = "write" /\ th'[t].ids = th[t].ids /\ th'[t].held = th[t].held
                 /\ th'[t].results = project.results
<1> DEFINE r == [th[t] EXCEPT !.pc = "write", !.results = project.results]
<1>1. th[t] \in Request /\ Stage(th[t]) /\ At(t, "state")
  BY RequestType DEF SaveState, Typed, Staged
<1>2. CASE Done(t)
  <2>1. Steps(t) /\ th'[t] = Idle
    BY <1>1, <1>2, DoneSteps DEF At
  <2>2. TypeOK'
    BY <2>1 DEF SaveState, Typed, TypeOK, Steps, Went, Request
  <2> QED BY <2>1, <2>2, IdleRequest
<1>3. CASE th' = [th EXCEPT ![t].pc = "write", ![t].results = project.results]
  <2>1. th' = [th EXCEPT ![t] = r]
    BY <1>3, RequestType DEF Typed
  <2>2. /\ r \in Request /\ r.pc = "write" /\ r.ids = th[t].ids /\ r.held = th[t].held
        /\ r.op = th[t].op /\ r.path = th[t].path /\ r.results = project.results
    BY <1>1 DEF Request, Typed, TypeOK
  <2> HIDE DEF r
  <2>3. Went(t) /\ th'[t] = r
    BY <2>1, <2>2, GoesTo DEF Typed
  <2>4. Stage(r)
    BY <1>1, <2>2 DEF Stage, Saving, At
  <2>5. TypeOK'
    BY <2>3 DEF SaveState, Typed, TypeOK, Went, Request
  <2> QED BY <1>1, <2>2, <2>3, <2>4, <2>5 DEF Steps, At
<1> QED BY <1>2, <1>3 DEF SaveState

LEMMA SaveWriteSteps ==
    ASSUME Typed, NEW t \in Threads, SaveWrite(t)
    PROVE  Steps(t) /\ TypeOK' /\ th'[t].pc \in {"idle", "note"}
<1>1. th[t] \in Request /\ Stage(th[t]) /\ At(t, "write")
  BY RequestType DEF SaveWrite, Typed, Staged
<1>2. CASE Done(t) /\ UNCHANGED files
  <2>1. Steps(t) /\ th'[t] = Idle
    BY <1>1, <1>2, DoneSteps DEF At
  <2>2. TypeOK'
    BY <1>2, <2>1 DEF SaveWrite, Typed, TypeOK, Steps, Went, Request
  <2> QED BY <2>1, <2>2, IdleRequest
<1>3. CASE Goto(t, "note") /\ files' = [files EXCEPT ![th[t].path] = Written(t)]
  <2>1. /\ Went(t) /\ th'[t].pc = "note" /\ th'[t].op = th[t].op /\ th'[t].path = th[t].path
    BY <1>3, MovesOn DEF Typed, Goto
  <2>2. Stage(th'[t])
    BY <1>1, <2>1 DEF Stage, Saving, At
  <2>3. Written(t) \in File
    BY <1>1 DEF Written, File, Stage, Request, At
  <2>4. files' \in [Paths -> File]
    BY <1>3, <2>3 DEF Typed, TypeOK
  <2>5. TypeOK'
    BY <2>1, <2>4 DEF SaveWrite, Typed, TypeOK, Went, Request
  <2> QED BY <1>1, <2>1, <2>2, <2>5 DEF Steps, At
<1> QED BY <1>2, <1>3 DEF SaveWrite

LEMMA SaveNoteSteps ==
    ASSUME Typed, NEW t \in Threads, SaveNote(t)
    PROVE  Steps(t) /\ TypeOK' /\ th'[t].pc = "idle"
<1>1. th[t] \in Request /\ Stage(th[t]) /\ At(t, "note")
  BY RequestType DEF SaveNote, Typed, Staged
<1>2. Steps(t) /\ th'[t] = Idle
  BY <1>1, DoneSteps DEF At, SaveNote
<1>3. TypeOK'
  <2>1. th[t].path \in Paths
    BY <1>1 DEF Stage, Saving, At
  <2> QED BY <1>2, <2>1 DEF SaveNote, Typed, TypeOK, Steps, Went, Request
<1> QED BY <1>2, <1>3, IdleRequest

LEMMA ClearStoreSteps ==
    ASSUME Typed, NEW t \in Threads, ClearStore(t)
    PROVE  /\ Steps(t) /\ TypeOK' /\ th'[t].pc = "restore" /\ th'[t].op = th[t].op /\ th[t].op = "replace"
<1>1. th[t] \in Request /\ Stage(th[t]) /\ At(t, "clear") /\ th[t].op = "replace"
  BY RequestType DEF ClearStore, Typed, Staged, Stage, At
<1>2. /\ Went(t) /\ th'[t].pc = "restore" /\ th'[t].op = th[t].op /\ th'[t].path = th[t].path
  BY MovesOn DEF Typed, Goto, ClearStore
<1>3. Stage(th'[t])
  BY <1>1, <1>2 DEF Stage, Saving, At
<1>4. TypeOK'
  BY <1>2 DEF ClearStore, NoLongerOwed, Typed, TypeOK, Went, Request
<1> QED BY <1>1, <1>2, <1>3, <1>4 DEF Steps, At

\* One image is registered, under its own id or a fresh one.
LEMMA RestoreSteps ==
    ASSUME Typed, NEW t \in Threads, Restore(t)
    PROVE  /\ Steps(t) /\ TypeOK' /\ th'[t].pc = "restore" /\ th'[t].op = th[t].op
           /\ store \subseteq store' /\ \E i \in th[t].ids : i \in store' /\ th'[t].ids = th[t].ids \ {i}
<1>1. th[t] \in Request /\ Stage(th[t]) /\ At(t, "restore")
  BY RequestType DEF Restore, Typed, Staged
<1>2. PICK i \in th[t].ids :
         /\ \E j \in IF i \in store THEN Fresh ELSE {i} : store' = store \cup {j}
         /\ th' = [th EXCEPT ![t].ids = th[t].ids \ {i}]
  BY DEF Restore
<1> DEFINE r == [th[t] EXCEPT !.ids = th[t].ids \ {i}]
<1>3. th' = [th EXCEPT ![t] = r]
  BY <1>2, RequestType DEF Typed
<1>4. r \in Request /\ r.pc = "restore" /\ r.op = th[t].op /\ r.path = th[t].path /\ r.ids = th[t].ids \ {i}
  BY <1>1 DEF Request, At
<1> HIDE DEF r
<1>5. Went(t) /\ th'[t] = r
  BY <1>3, <1>4, GoesTo DEF Typed
<1>6. Stage(r)
  BY <1>1, <1>4 DEF Stage, Saving, At
<1>7. store \subseteq store' /\ i \in store' /\ store' \subseteq Ids
  <2>1. i \in Ids /\ Fresh \subseteq Ids
    BY <1>1 DEF Request, Fresh
  <2> QED BY <1>2, <2>1 DEF Typed, TypeOK
<1>8. TypeOK'
  BY <1>5, <1>7 DEF Restore, Typed, TypeOK, Went, Request
<1> QED BY <1>1, <1>4, <1>5, <1>6, <1>7, <1>8 DEF Steps, At

LEMMA RestoredSteps ==
    ASSUME Typed, NEW t \in Threads, Restored(t)
    PROVE  Steps(t) /\ TypeOK' /\ th'[t].pc \in {"idle", "adopt"}
<1>1. th[t] \in Request /\ Stage(th[t]) /\ At(t, "restore")
  BY RequestType DEF Restored, Typed, Staged
<1>2. CASE Done(t)
  <2>1. Steps(t) /\ th'[t] = Idle
    BY <1>1, <1>2, DoneSteps DEF At
  <2>2. TypeOK'
    BY <2>1 DEF Restored, Typed, TypeOK, Steps, Went, Request
  <2> QED BY <2>1, <2>2, IdleRequest
<1>3. CASE Goto(t, "adopt") /\ th[t].op # "relocate"
  <2>1. /\ Went(t) /\ th'[t].pc = "adopt" /\ th'[t].op = th[t].op /\ th'[t].path = th[t].path
    BY <1>3, MovesOn DEF Typed, Goto
  <2>2. Stage(th'[t])
    BY <1>1, <1>3, <2>1 DEF Stage, Saving, At, Request, Ops
  <2>3. TypeOK'
    BY <2>1 DEF Restored, Typed, TypeOK, Went, Request
  <2> QED BY <1>1, <2>1, <2>2, <2>3 DEF Steps, At
<1> QED BY <1>2, <1>3 DEF Restored

LEMMA AdoptSteps ==
    ASSUME Typed, NEW t \in Threads, Adopt(t)
    PROVE  Steps(t) /\ TypeOK' /\ th'[t].pc = "idle" /\ th[t].op # "relocate"
<1>1. th[t] \in Request /\ Stage(th[t]) /\ At(t, "adopt") /\ th[t].op \in {"replace", "append"}
  BY RequestType DEF Adopt, Typed, Staged, Stage, At
<1>2. Steps(t) /\ th'[t] = Idle
  BY <1>1, DoneSteps DEF At, Adopt
<1>3. Adopted(t) \in [path : Paths \cup {NoPath}, placeholders : SUBSET Ids, results : SUBSET Results]
  <2>1. th[t].path \in Paths
    BY <1>1 DEF Stage, At
  <2> QED BY <1>1, <2>1 DEF Adopted, Typed, TypeOK, Request
<1>4. TypeOK'
  BY <1>2, <1>3 DEF Adopt, NoLongerOwed, Typed, TypeOK, Steps, Went, Request
<1> QED BY <1>1, <1>2, <1>4, IdleRequest

\* The placeholders read are divided into found ones and the rest.
LEMMA RelocateSetSteps ==
    ASSUME Typed, NEW t \in Threads, RelocateSet(t)
    PROVE  /\ Steps(t) /\ TypeOK' /\ th'[t].pc = "restore" /\ th[t].op = "relocate" /\ th'[t].op = "relocate"
           /\ th[t].held \subseteq project'.placeholders \cup th'[t].ids
           /\ project'.results = project.results
<1>1. th[t] \in Request /\ Stage(th[t]) /\ At(t, "set") /\ th[t].op = "relocate"
  BY RequestType DEF RelocateSet, Typed, Staged, Stage, At
<1>2. PICK found \in SUBSET th[t].held :
          /\ project' = [project EXCEPT !.placeholders = th[t].held \ found]
          /\ th' = [th EXCEPT ![t].pc = "restore", ![t].ids = found, ![t].held = {}]
  BY DEF RelocateSet
<1> DEFINE r == [th[t] EXCEPT !.pc = "restore", !.ids = found, !.held = {}]
<1>3. th' = [th EXCEPT ![t] = r]
  BY <1>2, RequestType DEF Typed
<1>4. r \in Request /\ r.pc = "restore" /\ r.op = th[t].op /\ r.path = th[t].path /\ r.ids = found
  BY <1>1, <1>2 DEF Request
<1> HIDE DEF r
<1>5. Went(t) /\ th'[t] = r
  BY <1>3, <1>4, GoesTo DEF Typed
<1>6. Stage(r)
  BY <1>1, <1>4 DEF Stage, Saving
<1>7. /\ project'.placeholders = th[t].held \ found /\ project'.results = project.results
      /\ project' \in [path : Paths \cup {NoPath}, placeholders : SUBSET Ids, results : SUBSET Results]
  BY <1>1, <1>2 DEF Typed, TypeOK, Request
<1>8. TypeOK'
  BY <1>5, <1>7 DEF RelocateSet, Typed, TypeOK, Went, Request
<1> QED BY <1>1, <1>2, <1>4, <1>5, <1>6, <1>7, <1>8 DEF Steps, At

\* A request starts.
LEMMA StartWent ==
    ASSUME Typed, NEW t \in Threads, NEW op, NEW r \in Request, Stage(r), Start(t, op, r),
           owed' \in [Threads -> SUBSET (Ids \cup Results)]
    PROVE  Typed' /\ Went(t) /\ th'[t] = r
<1>1. Went(t) /\ th'[t] = r
  BY GoesTo DEF Start, Typed
<1>2. TypeOK'
  BY <1>1 DEF Start, Typed, TypeOK, Went, Request
<1> QED BY <1>1, <1>2, StagedKeeps DEF Typed

LEMMA ArrivingType == TypeOK => Arriving \subseteq Ids /\ Tracked \subseteq Ids
BY RequestType DEF Arriving, Tracked, TypeOK, Request

LEMMA SaveWent ==
    ASSUME Typed, NEW t \in Threads, NEW p \in Paths, Save(t, p)
    PROVE  /\ Typed' /\ Went(t) /\ th'[t].pc = "ids" /\ th'[t].op = "save" /\ th'[t].held = project.placeholders
           /\ owed'[t] = Tracked \cup project.results
<1> DEFINE r == [Idle EXCEPT !.pc = "ids", !.path = p, !.held = project.placeholders]
<1>1. r \in Request /\ r.pc = "ids" /\ r.op = "save" /\ r.held = project.placeholders /\ r.path \in Paths
  BY IdleRequest DEF Idle, Request, Ops, Typed, TypeOK
<1>2. Start(t, "save", r) /\ owed' = [owed EXCEPT ![t] = Tracked \cup project.results]
  BY DEF Save
<1> HIDE DEF r
<1>3. Stage(r)
  BY <1>1 DEF Stage, Saving
<1>4. owed' \in [Threads -> SUBSET (Ids \cup Results)] /\ owed'[t] = Tracked \cup project.results
  BY <1>2, ArrivingType DEF Typed, TypeOK
<1> QED BY <1>1, <1>2, <1>3, <1>4, StartWent

LEMMA LoadWent ==
    ASSUME Typed, NEW t \in Threads, NEW op \in {"replace", "append"}, NEW p \in Paths, Load(t, op, p)
    PROVE  Typed' /\ Went(t) /\ th'[t].pc \in {"clear", "restore"} /\ th'[t].op = op /\ Start(t, op, th'[t])
<1>1. PICK found \in SUBSET files[p].ids :
          Start(t, op, [pc |-> IF op = "replace" THEN "clear" ELSE "restore",
                        op |-> op, path |-> p, results |-> files[p].results,
                        ids |-> found, held |-> files[p].ids \ found])
  BY DEF Load
<1> DEFINE r == [pc |-> IF op = "replace" THEN "clear" ELSE "restore",
                 op |-> op, path |-> p, results |-> files[p].results,
                 ids |-> found, held |-> files[p].ids \ found]
<1>2. files[p].ids \subseteq Ids /\ files[p].results \subseteq Results
  <2>1. files[p] \in File
    BY DEF Typed, TypeOK
  <2>2. CASE files[p] = [exists |-> FALSE, ids |-> {}, results |-> {}]
    BY <2>2
  <2>3. CASE files[p] \in [exists : {TRUE}, ids : (SUBSET Ids) \ {{}}, results : SUBSET Results]
    <3>1. files[p].ids \in (SUBSET Ids) \ {{}} /\ files[p].results \in SUBSET Results
      BY <2>3
    <3> QED BY <3>1
  <2> QED BY <2>1, <2>2, <2>3 DEF File
<1>3. r \in Request
  BY <1>2 DEF Request, Ops
<1>4. Stage(r)
  BY DEF Stage, Saving
<1>5. r.pc \in {"clear", "restore"} /\ r.op = op
  OBVIOUS
<1>6. owed' \in [Threads -> SUBSET (Ids \cup Results)]
  BY DEF Load, Typed, TypeOK
<1> HIDE DEF r
<1>7. Start(t, op, r)
  BY <1>1 DEF r
<1> QED BY <1>3, <1>4, <1>5, <1>6, <1>7, StartWent

LEMMA RelocateWent ==
    ASSUME Typed, NEW t \in Threads, Relocate(t)
    PROVE  /\ Typed' /\ Went(t) /\ th'[t].pc = "set" /\ th'[t].op = "relocate"
           /\ th'[t].held = project.placeholders
<1> DEFINE r == [Idle EXCEPT !.pc = "set", !.op = "relocate", !.held = project.placeholders]
<1>1. r \in Request /\ r.pc = "set" /\ r.op = "relocate" /\ r.held = project.placeholders
  BY IdleRequest DEF Idle, Request, Ops, Typed, TypeOK
<1>2. Start(t, "relocate", r) /\ owed' \in [Threads -> SUBSET (Ids \cup Results)]
  BY DEF Relocate, Typed, TypeOK
<1> HIDE DEF r
<1>3. Stage(r)
  BY <1>1 DEF Stage, Saving
<1> QED BY <1>1, <1>2, <1>3, StartWent

\* Images are opened and closed, results recorded and removed.
Edits ==
    \/ Open
    \/ \E i \in Ids : Close(i)
    \/ \E r \in Results : AddResult(r) \/ RemoveResult(r)

LEMMA EditsTyped == ASSUME Typed, Edits PROVE Typed'
<1>1. CASE Open
  BY <1>1 DEF Open, Fresh, Typed, TypeOK, Staged
<1>2. ASSUME NEW i \in Ids, Close(i) PROVE Typed'
  BY <1>2 DEF Close, NoLongerOwed, Typed, TypeOK, Staged
<1>3. ASSUME NEW r \in Results, AddResult(r) PROVE Typed'
  BY <1>3 DEF AddResult, Typed, TypeOK, Staged
<1>4. ASSUME NEW r \in Results, RemoveResult(r) PROVE Typed'
  BY <1>4 DEF RemoveResult, NoLongerOwed, Typed, TypeOK, Staged
<1> QED BY <1>1, <1>2, <1>3, <1>4 DEF Edits

LEMMA StepSteps == ASSUME Typed, NEW t \in Threads, Step(t) PROVE Typed' /\ Steps(t)
<1>1. TypeOK' /\ Steps(t)
  BY SaveIdsSteps, SaveGetSteps, SaveStateSteps, SaveWriteSteps, SaveNoteSteps, ClearStoreSteps,
     RestoreSteps, RestoredSteps, AdoptSteps, RelocateSetSteps DEF Step
<1> QED BY <1>1, StagedKeeps DEF Typed, Steps

---------------------------------------------------------------------------
\* Requests that run alone.

LEMMA StartExclusive ==
    ASSUME Exclusive, NEW t \in Threads, NEW op, NEW r, Start(t, op, r), Went(t), th'[t].op = op
    PROVE  Exclusive'
<1>1. \A u \in Threads : ~At(u, "idle") => op \notin Alone /\ th[u].op \notin Alone
  BY DEF Start, MayStart
<1> QED BY <1>1 DEF Exclusive, Went, At

LEMMA ExclusiveStep == ASSUME Typed, Exclusive, [Next]_vars PROVE Exclusive'
<1>1. CASE Edits \/ UNCHANGED vars
  BY <1>1 DEF Edits, Open, Close, AddResult, RemoveResult, vars, Exclusive, At
<1>2. ASSUME NEW t \in Threads, NEW p \in Paths, Save(t, p) PROVE Exclusive'
  BY <1>2, SaveWent, StartExclusive DEF Save
<1>3. ASSUME NEW t \in Threads, NEW op \in {"replace", "append"}, NEW p \in Paths, Load(t, op, p) PROVE Exclusive'
  BY <1>3, LoadWent, StartExclusive
<1>4. ASSUME NEW t \in Threads, Relocate(t) PROVE Exclusive'
  BY <1>4, RelocateWent, StartExclusive DEF Relocate
<1>5. ASSUME NEW t \in Threads, Step(t) PROVE Exclusive'
  BY <1>5, StepSteps, ExclusiveKeeps DEF Steps
<1> QED BY <1>1, <1>2, <1>3, <1>4, <1>5 DEF Next, Edits

---------------------------------------------------------------------------
\* What a save has collected.

\* Another request, or the user, takes nothing away that a save is owed.
Kept(u) ==
    /\ owed'[u] \subseteq owed[u]
    /\ owed'[u] \cap store \subseteq store'
    /\ owed'[u] \cap project.results \subseteq project'.results

LEMMA EditsKept == ASSUME Typed, Edits, NEW u \in Threads PROVE Kept(u) /\ th'[u] = th[u]
<1>1. CASE Open
  BY <1>1 DEF Open, Kept
<1>2. ASSUME NEW i \in Ids, Close(i) PROVE Kept(u) /\ th'[u] = th[u]
  BY <1>2 DEF Close, NoLongerOwed, Kept
<1>3. ASSUME NEW r \in Results, AddResult(r) PROVE Kept(u) /\ th'[u] = th[u]
  BY <1>3 DEF AddResult, Kept, Typed, TypeOK
<1>4. ASSUME NEW r \in Results, RemoveResult(r) PROVE Kept(u) /\ th'[u] = th[u]
  BY <1>4 DEF RemoveResult, NoLongerOwed, Kept, Typed, TypeOK
<1> QED BY <1>1, <1>2, <1>3, <1>4 DEF Edits

LEMMA AdoptKept == ASSUME Typed, NEW t \in Threads, Adopt(t), NEW u \in Threads PROVE Kept(u)
<1>1. CASE Merges(t)
  <2>1. owed'[u] = owed[u] /\ store' = store
    BY <1>1 DEF Adopt, NoLongerOwed
  <2>2. project.results \subseteq project'.results
    BY <1>1 DEF Adopt, Adopted, Typed, TypeOK
  <2> QED BY <2>1, <2>2 DEF Kept
<1>2. CASE ~Merges(t)
  BY <1>2 DEF Adopt, NoLongerOwed, Kept
<1> QED BY <1>1, <1>2

LEMMA OthersCollect ==
    ASSUME Collecting, NEW u \in Threads, th'[u] = th[u], Kept(u) \/ (At(u, "idle") /\ owed'[u] \subseteq owed[u])
    PROVE  Collected(u)'
BY CollectedKeeps DEF Collecting, Kept

LEMMA CollectingStep ==
    ASSUME Typed, Exclusive, Collecting, NEW t \in Threads, Step(t), {"relocate", "replace"} \subseteq Alone
    PROVE  Collecting'
<1>1. Steps(t)
  BY StepSteps
<1>2. ASSUME NEW u \in Threads, u # t PROVE Collected(u)'
  <2>1. th'[u] = th[u]
    BY <1>1, <1>2 DEF Steps, Went
  <2>2. CASE SaveIds(t) \/ SaveGet(t) \/ SaveState(t) \/ SaveWrite(t) \/ SaveNote(t) \/ Restored(t)
    <3>1. Kept(u)
      BY <2>2 DEF SaveIds, SaveGet, SaveState, SaveWrite, SaveNote, Restored, Kept, Typed, TypeOK
    <3> QED BY <2>1, <3>1, OthersCollect
  <2>3. CASE ClearStore(t) \/ RelocateSet(t)
    <3>1. At(u, "idle")
      BY <1>1, <1>2, <2>3, ClearStoreSteps, RelocateSetSteps, OthersIdle DEF Steps
    <3>2. owed'[u] \subseteq owed[u]
      BY <2>3 DEF ClearStore, RelocateSet, NoLongerOwed
    <3> QED BY <2>1, <3>1, <3>2, OthersCollect
  <2>4. CASE Restore(t)
    <3>1. Kept(u)
      BY <2>4, RestoreSteps DEF Kept, Restore
    <3> QED BY <2>1, <3>1, OthersCollect
  <2>5. CASE Adopt(t)
    BY <2>1, <2>5, AdoptKept, OthersCollect
  <2> QED BY <2>2, <2>3, <2>4, <2>5 DEF Step
<1>3. Collected(t)'
  <2>1. CASE SaveIds(t)
    <3>1. owed[t] \subseteq store \cup th[t].held \cup project.results
      BY <2>1 DEF SaveIds, Collecting, Collected
    <3> QED BY <2>1, <3>1, SaveIdsSteps DEF SaveIds, Collected, At
  <2>2. CASE SaveGet(t)
    <3>1. owed[t] \subseteq th[t].ids \cup th[t].held \cup project.results
      BY <2>2 DEF SaveGet, Collecting, Collected
    <3> QED BY <2>2, <3>1, SaveGetSteps DEF SaveGet, Collected, At
  <2>3. CASE SaveState(t)
    <3>1. owed[t] \subseteq th[t].ids \cup th[t].held \cup project.results
      BY <2>3 DEF SaveState, Collecting, Collected
    <3> QED BY <2>3, <3>1, SaveStateSteps DEF SaveState, Collected, At
  <2>4. CASE th'[t].pc \in {"idle", "note", "restore", "adopt"}
    BY <2>4 DEF Collected, At
  <2> QED BY <2>1, <2>2, <2>3, <2>4, SaveWriteSteps, SaveNoteSteps, ClearStoreSteps, RestoreSteps,
             RestoredSteps, AdoptSteps, RelocateSetSteps DEF Step
<1> QED BY <1>2, <1>3 DEF Collecting

\* A save starts when no relocation runs, so that nothing is arriving.
LEMMA SaveCollects ==
    ASSUME Typed, Exclusive, NEW t \in Threads, NEW p \in Paths, Save(t, p), {"relocate", "replace"} \subseteq Alone
    PROVE  Collected(t)'
<1>1. Arriving = {}
  BY DEF Save, Start, MayStart, Arriving, At
<1>2. /\ th'[t].pc = "ids" /\ th'[t].held = project.placeholders /\ owed'[t] = Tracked \cup project.results
      /\ store' = store /\ project' = project
  BY SaveWent DEF Save, Start
<1> QED BY <1>1, <1>2 DEF Collected, At, Tracked

LEMMA CollectingKeeps ==
    ASSUME Typed, Exclusive, Collecting, [Next]_vars, {"relocate", "replace"} \subseteq Alone
    PROVE  Collecting'
<1>1. CASE Edits
  BY <1>1, EditsKept, OthersCollect DEF Collecting
<1>2. CASE UNCHANGED vars
  BY <1>2 DEF vars, Collecting, Collected, At
<1>3. ASSUME NEW t \in Threads, Step(t) PROVE Collecting'
  BY <1>3, CollectingStep
<1>4. ASSUME NEW t \in Threads, Went(t), UNCHANGED <<store, project>>, Collected(t)',
             \A u \in Threads : u # t => owed'[u] = owed[u]
      PROVE  Collecting'
  <2>1. ASSUME NEW u \in Threads, u # t PROVE Collected(u)'
    <3>1. th'[u] = th[u] /\ Kept(u)
      BY <1>4, <2>1 DEF Went, Kept
    <3> QED BY <3>1, OthersCollect
  <2> QED BY <1>4, <2>1 DEF Collecting
<1>5. ASSUME NEW t \in Threads, NEW p \in Paths, Save(t, p) PROVE Collecting'
  <2>1. UNCHANGED <<store, project>> /\ \A u \in Threads : u # t => owed'[u] = owed[u]
    BY <1>5 DEF Save, Start, Typed, TypeOK
  <2> QED BY <1>4, <1>5, <2>1, SaveWent, SaveCollects
<1>6. ASSUME NEW t \in Threads, NEW op \in {"replace", "append"}, NEW p \in Paths, Load(t, op, p) PROVE Collecting'
  <2>1. UNCHANGED <<store, project, owed>>
    BY <1>6 DEF Load, Start
  <2>2. Went(t) /\ Collected(t)'
    BY <1>6, LoadWent DEF Collected, At
  <2> QED BY <1>4, <2>1, <2>2
<1>7. ASSUME NEW t \in Threads, Relocate(t) PROVE Collecting'
  <2>1. UNCHANGED <<store, project, owed>>
    BY <1>7 DEF Relocate, Start
  <2>2. Went(t) /\ Collected(t)'
    BY <1>7, RelocateWent DEF Collected, At
  <2> QED BY <1>4, <2>1, <2>2
<1> QED BY <1>1, <1>2, <1>3, <1>5, <1>6, <1>7 DEF Next, Edits

---------------------------------------------------------------------------
\* A relocation that runs alone holds the placeholders of the session.

LEMMA RelocatingKeeps ==
    ASSUME Typed, Exclusive, Relocating, [Next]_vars, {"relocate", "replace"} \subseteq Alone
    PROVE  Relocating'
<1>1. CASE Edits
  BY <1>1 DEF Edits, Open, Close, AddResult, RemoveResult, Relocating, At, Typed, TypeOK
<1>2. CASE UNCHANGED vars
  BY <1>2 DEF vars, Relocating, At
<1>3. ASSUME NEW t \in Threads, Step(t) PROVE Relocating'
  <2>1. Steps(t)
    BY <1>3, StepSteps
  <2>2. ASSUME NEW u \in Threads, u # t, At(u, "set") PROVE FALSE
    <3>1. th[u].op = "relocate" /\ ~At(u, "idle")
      BY <2>2 DEF Typed, Staged, Stage, At
    <3> QED BY <2>1, <2>2, <3>1 DEF Exclusive, Steps
  <2>3. th'[t].pc # "set"
    BY <1>3, SaveIdsSteps, SaveGetSteps, SaveStateSteps, SaveWriteSteps, SaveNoteSteps, ClearStoreSteps,
       RestoreSteps, RestoredSteps, AdoptSteps, RelocateSetSteps DEF Step
  <2> QED BY <2>1, <2>2, <2>3 DEF Relocating, Steps, Went, At
<1>4. ASSUME NEW t \in Threads, Went(t), project' = project,
             th'[t].pc = "set" => th'[t].held = project.placeholders
      PROVE  Relocating'
  BY <1>4 DEF Relocating, Went, At
<1>5. ASSUME NEW t \in Threads, NEW p \in Paths, Save(t, p) PROVE Relocating'
  BY <1>4, <1>5, SaveWent DEF Save, Start
<1>6. ASSUME NEW t \in Threads, NEW op \in {"replace", "append"}, NEW p \in Paths, Load(t, op, p) PROVE Relocating'
  BY <1>4, <1>6, LoadWent DEF Start
<1>7. ASSUME NEW t \in Threads, Relocate(t) PROVE Relocating'
  BY <1>4, <1>7, RelocateWent DEF Relocate, Start
<1> QED BY <1>1, <1>2, <1>3, <1>5, <1>6, <1>7 DEF Next, Edits

---------------------------------------------------------------------------
\* No request drops an image.

\* What is arriving with a request that does not move is still arriving.
LEMMA ArrivingKeeps ==
    ASSUME NEW i, i \in Arriving,
           \A u \in Threads : At(u, "restore") /\ th[u].op = "relocate" /\ i \in th[u].ids =>
               \/ th'[u] = th[u]
               \/ th'[u].pc = "restore" /\ th'[u].op = "relocate" /\ i \in th'[u].ids
    PROVE  i \in Arriving'
<1>1. PICK u \in Threads : th[u].op = "relocate" /\ At(u, "restore") /\ i \in th[u].ids
  BY DEF Arriving
<1>2. th'[u].pc = "restore" /\ th'[u].op = "relocate" /\ i \in th'[u].ids
  BY <1>1 DEF At
<1> QED BY <1>2 DEF Arriving, At

\* Requests that are not restoring the images of a relocation bring none.
LEMMA ArrivingOthers ==
    ASSUME NEW t \in Threads, Went(t), th[t].pc # "restore" \/ th[t].op # "relocate" \/ th[t].ids = {}
    PROVE  Arriving \subseteq Arriving'
<1> SUFFICES ASSUME NEW i \in Arriving PROVE i \in Arriving'
  OBVIOUS
<1> QED BY ArrivingKeeps DEF Went, At

Gone(i) == \/ Close(i)
           \/ \E t \in Threads : ClearStore(t) \/ (Adopt(t) /\ ~Merges(t))

LEMMA StepDropsNothing ==
    ASSUME Typed, Relocating, NEW t \in Threads, Step(t), NEW i \in Tracked, ~Gone(i)
    PROVE  i \in Tracked'
<1>1. CASE SaveIds(t) \/ SaveGet(t) \/ SaveState(t) \/ SaveWrite(t) \/ SaveNote(t)
  <2>1. Went(t) /\ th[t].pc # "restore"
    BY <1>1, SaveIdsSteps, SaveGetSteps, SaveStateSteps, SaveWriteSteps, SaveNoteSteps
       DEF Steps, SaveIds, SaveGet, SaveState, SaveWrite, SaveNote, At
  <2>2. store' = store /\ project'.placeholders = project.placeholders
    BY <1>1 DEF SaveIds, SaveGet, SaveState, SaveWrite, SaveNote, Typed, TypeOK
  <2> QED BY <2>1, <2>2, ArrivingOthers DEF Tracked
<1>2. CASE Restore(t)
  <2>1. PICK k \in th[t].ids : k \in store' /\ th'[t].ids = th[t].ids \ {k}
    BY <1>2, RestoreSteps
  <2>2. /\ store \subseteq store' /\ project' = project /\ Went(t)
        /\ th'[t].pc = "restore" /\ th'[t].op = th[t].op
    BY <1>2, RestoreSteps DEF Restore, Steps
  <2>3. CASE i \in Arriving /\ i # k
    BY <2>1, <2>2, <2>3, ArrivingKeeps DEF Tracked, Went
  <2> QED BY <2>1, <2>2, <2>3 DEF Tracked
<1>3. CASE Restored(t)
  <2>1. Went(t) /\ th[t].ids = {} /\ UNCHANGED <<store, project>>
    BY <1>3, RestoredSteps DEF Restored, Steps
  <2> QED BY <2>1, ArrivingOthers DEF Tracked
<1>4. CASE Adopt(t)
  <2>1. Merges(t)
    BY <1>4 DEF Gone
  <2>2. store' = store /\ project.placeholders \subseteq project'.placeholders
    BY <1>4, <2>1 DEF Adopt, Adopted, Typed, TypeOK
  <2>3. Went(t) /\ th[t].pc # "restore"
    BY <1>4, AdoptSteps DEF Adopt, At, Steps
  <2> QED BY <2>2, <2>3, ArrivingOthers DEF Tracked
<1>5. CASE RelocateSet(t)
  <2>1. Went(t) /\ th[t].pc # "restore" /\ store' = store
    BY <1>5, RelocateSetSteps DEF RelocateSet, At, Steps
  <2>2. project.placeholders \subseteq project'.placeholders \cup th'[t].ids
    BY <1>5, RelocateSetSteps DEF RelocateSet, Relocating
  <2>3. th'[t].ids \subseteq Arriving'
    BY <1>5, RelocateSetSteps DEF Arriving, At
  <2> QED BY <2>1, <2>2, <2>3, ArrivingOthers DEF Tracked
<1>6. ~ClearStore(t)
  BY DEF Gone
<1> QED BY <1>1, <1>2, <1>3, <1>4, <1>5, <1>6 DEF Step

LEMMA DropsNothing ==
    ASSUME Typed, Relocating, [Next]_vars, NEW i \in Tracked, ~Gone(i)
    PROVE  i \in Tracked'
<1>1. CASE Edits
  <2>1. th' = th /\ project'.placeholders = project.placeholders
    BY <1>1 DEF Edits, Open, Close, AddResult, RemoveResult, Typed, TypeOK
  <2>2. i \in store => i \in store'
    BY <1>1 DEF Edits, Open, Close, AddResult, RemoveResult, Gone
  <2>3. Arriving' = Arriving
    BY <2>1 DEF Arriving, At
  <2> QED BY <2>1, <2>2, <2>3 DEF Tracked
<1>2. CASE UNCHANGED vars
  BY <1>2 DEF vars, Tracked, Arriving, At
<1>3. ASSUME NEW t \in Threads, Step(t) PROVE i \in Tracked'
  BY <1>3, StepDropsNothing
<1>4. ASSUME NEW t \in Threads, NEW op, NEW r, Start(t, op, r), Went(t) PROVE i \in Tracked'
  <2>1. th[t].pc # "restore" /\ UNCHANGED <<store, project>>
    BY <1>4 DEF Start, At
  <2> QED BY <1>4, <2>1, ArrivingOthers DEF Tracked
<1>5. ASSUME NEW t \in Threads, NEW p \in Paths, Save(t, p) PROVE i \in Tracked'
  BY <1>4, <1>5, SaveWent DEF Save
<1>6. ASSUME NEW t \in Threads, NEW op \in {"replace", "append"}, NEW p \in Paths, Load(t, op, p)
      PROVE  i \in Tracked'
  BY <1>4, <1>6, LoadWent
<1>7. ASSUME NEW t \in Threads, Relocate(t) PROVE i \in Tracked'
  BY <1>4, <1>7, RelocateWent DEF Relocate
<1> QED BY <1>1, <1>2, <1>3, <1>5, <1>6, <1>7 DEF Next, Edits

---------------------------------------------------------------------------
LEMMA InitTyped == Init => Typed /\ Exclusive /\ Collecting /\ Relocating
<1> SUFFICES ASSUME Init PROVE Typed /\ Exclusive /\ Collecting /\ Relocating
  OBVIOUS
<1>1. \A t \in Threads : th[t] = Idle /\ th[t].pc = "idle"
  BY IdleRequest DEF Init
<1>2. Typed
  BY <1>1, IdleRequest DEF Init, Typed, TypeOK, Staged, Request
<1> QED BY <1>1, <1>2 DEF Exclusive, Collecting, Collected, Relocating, At

LEMMA StepTyped == ASSUME Typed, [Next]_vars PROVE Typed'
<1>1. CASE UNCHANGED vars
  BY <1>1 DEF vars, Typed, TypeOK, Staged
<1> QED BY <1>1, EditsTyped, SaveWent, LoadWent, RelocateWent, StepSteps DEF Next, Edits

\* The session, the project, the files and every request keep to their types,
\* whatever requests run at once.
THEOREM TypeCorrect == Spec => []TypeOK
<1>1. Init => Typed
  BY InitTyped
<1>2. Typed /\ [Next]_vars => Typed'
  BY StepTyped
<1> QED BY <1>1, <1>2, PTL DEF Spec, Typed

LEMMA Inductive == ASSUME {"relocate", "replace"} \subseteq Alone PROVE Spec => []IInv
<1>1. Init => IInv
  BY InitTyped DEF IInv
<1>2. IInv /\ [Next]_vars => IInv'
  BY StepTyped, ExclusiveStep, CollectingKeeps, RelocatingKeeps DEF IInv
<1> QED BY <1>1, <1>2, PTL DEF Spec

\* As long as relocations and replacing loads run alone, a save writes every
\* image, found or not, and every result that the session held when the save
\* began and nobody took away since, whatever saves and appends run beside it
\* (save_current of project_session.py).
THEOREM SavesAreComplete == ASSUME {"relocate", "replace"} \subseteq Alone PROVE Spec => []SaveComplete
<1>1. IInv => SaveComplete
  BY DEF IInv, Collecting, Collected, SaveComplete, Written
<1> QED BY <1>1, Inductive, PTL

\* As long as relocations and replacing loads run alone, an image leaves the
\* session only when it is closed or its project is replaced: saves, appends
\* and relocations drop none.
THEOREM ImagesAreKept == ASSUME {"relocate", "replace"} \subseteq Alone PROVE Spec => NothingDropped
<1>1. IInv /\ [Next]_vars =>
         [\A i \in Tracked \ Tracked' :
             \/ Close(i)
             \/ \E t \in Threads : ClearStore(t) \/ (Adopt(t) /\ ~Merges(t))]_vars
  BY DropsNothing DEF IInv, Gone
<1> QED BY <1>1, Inductive, PTL DEF Spec, NothingDropped
=============================================================================
