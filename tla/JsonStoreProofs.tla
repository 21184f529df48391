--------------------------- MODULE JsonStoreProofs ---------------------------
(***************************************************************************)
(* Theorems about JsonStore, for any number of servers, threads, entries   *)
(* and requests.  Two groups of facts carry everything else:               *)
(*                                                                         *)
(*   LockInv   what the place of a thread in its transaction says of the   *)
(*             locks; it needs nothing but the code of StoreLock;          *)
(*   DataInv   what a thread inside its transaction knows of the file; it  *)
(*             holds where the directory can lock and the store be read.   *)
(***************************************************************************)
EXTENDS JsonStore, TLAPS

Held == {"open", "unlock"} \cup Inside

\* How deep the lock is where the owner's program counter stands.
DepthAt(pc, depth) ==
    /\ pc \in {"open", "batch"} => depth = 1
    /\ pc = "unlock" => depth = 0
    /\ pc \in {"load", "decide", "replace", "exit"} => depth \in 1 .. 2

LockInv ==
    /\ \A t \in Threads : th[t].pc \in Held <=> Owns(t)
    /\ \A t \in Threads : Owns(t) => DepthAt(th[t].pc, Depth(t))
    /\ \A t \in Threads : th[t].pc # "idle" => th[t].req \in Asks
    /\ \A p \in Procs : lock[p].owner = NoOne => lock[p].depth = 0
    /\ CanLock => \A t \in Threads : th[t].pc \in Inside => oslock = Mine(t)

Inv == TypeOK /\ LockInv

\* The constants' assumptions, where a leaf needs them.
USE ProcOfAssumption, NoOneAssumption, CanLockAssumption

-----------------------------------------------------------------------------
\* The lemma every step of one thread rests on: a step that gives thread t the
\* locals l and its process the lock m disturbs no other thread.
LEMMA OneThread ==
    ASSUME Inv, NEW t \in Threads, NEW l \in Locals,
           NEW m \in [owner : {t, NoOne}, depth : 0 .. 2],
           th' = [th EXCEPT ![t] = l],
           lock' = [lock EXCEPT ![ProcOf[t]] = m],
           lock[ProcOf[t]].owner \in {t, NoOne},
           l.pc \in Held <=> m.owner = t,
           m.owner = t => DepthAt(l.pc, m.depth),
           m.owner = NoOne => m.depth = 0,
           l.pc # "idle" => l.req \in Asks,
           oslock' \in Procs \cup {NoOne},
           CanLock /\ l.pc \in Inside => oslock' = ProcOf[t],
           oslock' = oslock \/ oslock = NoOne \/ oslock = ProcOf[t],
           store' \in Content
    PROVE  Inv'
<1> USE DEF Inv, TypeOK, LockTypeOK
<1>1. TypeOK'
  BY DEF Mine
<1>2. ASSUME NEW u \in Threads, u # t
      PROVE  th[u] = th'[u] /\ (Owns(u) <=> Owns(u)') /\ (Owns(u)' => Depth(u) = Depth(u)')
  BY <1>2 DEF Owns, Mine, Depth
<1>3. th'[t] = l /\ lock'[ProcOf[t]] = m
  OBVIOUS
<1>4. (Owns(t)' <=> m.owner = t) /\ Depth(t)' = m.depth
  BY <1>3 DEF Owns, Mine, Depth
<1>5. ASSUME NEW u \in Threads PROVE th'[u].pc \in Held <=> Owns(u)'
  BY <1>2, <1>3, <1>4 DEF LockInv
<1>6. ASSUME NEW u \in Threads PROVE Owns(u)' => DepthAt(th'[u].pc, Depth(u)')
  BY <1>2, <1>3, <1>4 DEF LockInv
<1>7. ASSUME NEW u \in Threads PROVE th'[u].pc # "idle" => th'[u].req \in Asks
  BY <1>2, <1>3 DEF LockInv
<1>8. ASSUME NEW p \in Procs PROVE lock'[p].owner = NoOne => lock'[p].depth = 0
  BY <1>3 DEF LockInv
<1>9. ASSUME CanLock, NEW u \in Threads, th'[u].pc \in Inside PROVE oslock' = ProcOf[u]
  <2>1. CASE u = t
    BY <2>1, <1>3, <1>9
  <2>2. CASE u # t
    <3>1. th[u].pc \in Inside /\ oslock = ProcOf[u]
      BY <2>2, <1>2, <1>9 DEF LockInv, Mine
    <3>2. lock[ProcOf[u]].owner = u
      BY <3>1 DEF LockInv, Owns, Mine, Held
    <3> QED BY <3>1, <3>2, <2>2
  <2> QED BY <2>1, <2>2
<1> QED BY <1>1, <1>5, <1>6, <1>7, <1>8, <1>9 DEF LockInv, Mine

\* Values the transactions compute have the types the state needs.
LEMMA LatestType == ASSUME NEW c \in Content, NEW k \in Ids, c[k] # <<>>
                    PROVE  A!Latest(c, k) \in A!Bodies
BY DEF A!Latest, Content

LEMMA Emptied == Empty \in Content /\ Idle \in Locals
BY DEF Empty, Content, Idle, Locals, A!Bodies

LEMMA LoadedType ==
    ASSUME Inv, NEW t \in Threads, NEW data \in Content, th[t].req \in Asks
    PROVE  /\ Loaded(t, data) \in Locals
           /\ Loaded(t, data).req = th[t].req
           /\ (Loaded(t, data).pc = "batch" /\ Depth(t) = 1) \/ Loaded(t, data).pc = "decide"
<1>1. /\ th[t] \in Locals /\ th[t].req.id \in Ids /\ th[t].body \in A!Bodies
      /\ Op(t) = "import" => th[t].req.body \subseteq Legacy
  BY AsksAssumption DEF Inv, TypeOK, Locals, A!Request, Op
<1>2. CASE Depth(t) = 1 /\ Op(t) = "import"
  BY <1>1, <1>2 DEF Loaded, Locals, Inside
<1>3. CASE Depth(t) = 1 /\ Op(t) = "region" /\ data[th[t].req.id] # <<>>
  <2>1. A!Latest(data, th[t].req.id) \in A!Bodies
    BY <1>1, <1>3, LatestType
  <2>2. th[t].body \cup A!Latest(data, th[t].req.id) \in A!Bodies
    BY <1>1, <2>1 DEF A!Bodies
  <2> QED BY <1>1, <1>3, <2>2 DEF Loaded, Locals, Inside
<1>4. CASE ~(Depth(t) = 1 /\ Op(t) = "import")
           /\ ~(Depth(t) = 1 /\ Op(t) = "region" /\ data[th[t].req.id] # <<>>)
  BY <1>1, <1>4 DEF Loaded, Locals, Inside
<1> QED BY <1>2, <1>3, <1>4

-----------------------------------------------------------------------------
\* Every action preserves the invariant.  In each, the locals and the lock the
\* thread gets are named, and OneThread does the rest.
LEMMA InitInv == Init => Inv
<1> SUFFICES ASSUME Init PROVE Inv
  OBVIOUS
<1>1. TypeOK
  BY Emptied DEF Init, TypeOK, LockTypeOK, LockInit
<1>2. \A t \in Threads : th[t].pc = "idle" /\ lock[ProcOf[t]].owner = NoOne
  BY DEF Init, LockInit, Idle
<1>3. \A p \in Procs : lock[p].depth = 0
  BY DEF Init, LockInit
<1> QED BY <1>1, <1>2, <1>3 DEF Inv, LockInv, Held, Inside, Owns, Mine

LEMMA SameLock ==
    ASSUME Inv, NEW t \in Threads
    PROVE  /\ lock[ProcOf[t]] \in [owner : Threads \cup {NoOne}, depth : 0 .. 2]
           /\ oslock \in Procs \cup {NoOne}
           /\ lock' = lock => lock' = [lock EXCEPT ![ProcOf[t]] = lock[ProcOf[t]]]
           /\ th[t] \in Locals
           /\ th[t].pc \in Held => /\ lock[ProcOf[t]].owner = t
                                   /\ th[t].req \in Asks
                                   /\ DepthAt(th[t].pc, lock[ProcOf[t]].depth)
           /\ CanLock /\ th[t].pc \in Inside => oslock = ProcOf[t]
           /\ store \in Content
BY DEF Inv, TypeOK, LockTypeOK, LockInv, Held, Inside, Owns, Mine, Depth

\* A step of a thread that holds its process's lock, and keeps it as it is.
LEMMA LockKept ==
    ASSUME Inv, NEW t \in Threads, NEW l \in Locals, th[t].pc \in Held,
           th' = [th EXCEPT ![t] = l], lock' = lock,
           l.pc \in Held, l.req \in Asks, DepthAt(l.pc, lock[ProcOf[t]].depth),
           oslock' = oslock \/ (oslock = NoOne /\ oslock' = ProcOf[t]),
           CanLock /\ l.pc \in Inside => oslock' = ProcOf[t],
           store' \in Content
    PROVE  Inv'
<1> DEFINE m == lock[ProcOf[t]]
<1>1. m.owner = t /\ m \in [owner : {t, NoOne}, depth : 0 .. 2] /\ m.owner # NoOne
  BY SameLock
<1>2. lock' = [lock EXCEPT ![ProcOf[t]] = m] /\ oslock' \in Procs \cup {NoOne}
  BY SameLock
<1>3. l.pc \in Held <=> m.owner = t
  BY <1>1
<1>4. DepthAt(l.pc, m.depth)
  OBVIOUS
<1>5. lock[ProcOf[t]].owner \in {t, NoOne}
  BY <1>1
<1>6. oslock' = oslock \/ oslock = NoOne \/ oslock = ProcOf[t]
  OBVIOUS
<1> HIDE DEF m
<1> QED BY <1>1, <1>2, <1>3, <1>4, <1>5, <1>6, OneThread

LEMMA AskInv == ASSUME Inv, NEW t \in Threads, Ask(t) PROVE Inv'
<1>1. PICK r \in Asks : th' = [th EXCEPT ![t] = [Idle EXCEPT !.pc = "want", !.req = r, !.body = r.body]]
  BY DEF Ask
<1> DEFINE l == [Idle EXCEPT !.pc = "want", !.req = r, !.body = r.body]
           m == lock[ProcOf[t]]
<1>2. l \in Locals
  BY AsksAssumption, Emptied DEF Locals, Idle, A!Request
<1>3. l.pc = "want" /\ l.req \in Asks /\ m.owner # t
  BY DEF Idle, Ask, At, Inv, LockInv, Held, Inside, Owns, Mine
<1>4. lock' = lock /\ oslock' = oslock /\ store' = store
  BY DEF Ask, lockVars
<1> QED
  \* no thread of this process is disturbed: the lock stays as it is
  <2>1. TypeOK'
    BY <1>1, <1>2, <1>4 DEF Inv, TypeOK, LockTypeOK
  <2>2. LockInv'
    BY <1>1, <1>3, <1>4 DEF Inv, LockInv, TypeOK, Held, Inside, Owns, Mine, Depth
  <2> QED BY <2>1, <2>2 DEF Inv

LEMMA EnterInv == ASSUME Inv, NEW t \in Threads, Enter(t) PROVE Inv'
<1> DEFINE l == [th[t] EXCEPT !.pc = "open"]
           m == [owner |-> t, depth |-> 1]
<1>1. lock[ProcOf[t]].owner = NoOne /\ lock[ProcOf[t]].depth = 0 /\ th[t].pc = "want"
  BY DEF Inv, LockInv, Enter, EnterThread, At, Mine
<1>2. th' = [th EXCEPT ![t] = l] /\ th[t] \in Locals /\ l \in Locals
  BY <1>1 DEF Enter, Goto, Depth, Mine, Inv, TypeOK, Locals
<1>3. lock' = [lock EXCEPT ![ProcOf[t]] = m] /\ oslock' = oslock /\ store' = store
  BY <1>1 DEF Enter, EnterThread, Mine, Inv, TypeOK, LockTypeOK
<1>4. l.pc = "open" /\ l.req \in Asks
  BY <1>1, <1>2 DEF Inv, LockInv, Locals
<1>5. m \in [owner : {t, NoOne}, depth : 0 .. 2] /\ DepthAt("open", m.depth) /\ m.owner = t
  BY DEF DepthAt
<1> QED BY <1>1, <1>2, <1>3, <1>4, <1>5, OneThread DEF Held, Inside, Inv, TypeOK, LockTypeOK

LEMMA AcquireInv == ASSUME Inv, NEW t \in Threads, AcquireFile(t) PROVE Inv'
<1>1. /\ th[t].pc = "open" /\ store' = store /\ th[t].req \in Asks
      /\ lock[ProcOf[t]].owner = t /\ lock[ProcOf[t]].depth = 1
  BY SameLock DEF AcquireFile, At, Held, DepthAt
<1>2. CASE (TakeFile(t) \/ Degrade(t)) /\ Goto(t, "load")
  <2> DEFINE l == [th[t] EXCEPT !.pc = "load"]
  <2>1. l \in Locals /\ l.pc = "load" /\ l.req \in Asks
    BY SameLock, <1>1 DEF Locals, Inside
  <2>2. th' = [th EXCEPT ![t] = l]
    BY <1>2 DEF Goto, Inv, TypeOK, Locals
  <2>3. /\ lock' = lock
        /\ oslock' = oslock \/ (oslock = NoOne /\ oslock' = ProcOf[t])
        /\ CanLock => oslock' = ProcOf[t]
    BY <1>2 DEF TakeFile, Degrade, lockVars, Mine
  <2>4. DepthAt("load", lock[ProcOf[t]].depth) /\ store' \in Content /\ th[t].pc \in Held
    BY SameLock, <1>1 DEF DepthAt, Held
  <2>5. l.pc \in Held
    BY <2>1 DEF Held, Inside
  <2> HIDE DEF l
  <2> QED BY <2>1, <2>2, <2>3, <2>4, <2>5, LockKept
<1>3. CASE TimeOut(t) /\ th' = [th EXCEPT ![t] = Idle]
  <2> DEFINE m == [owner |-> NoOne, depth |-> 0]
  <2>1. lock' = [lock EXCEPT ![ProcOf[t]] = m] /\ oslock' = oslock
    BY <1>1, <1>3 DEF TimeOut, Mine, Inv, TypeOK, LockTypeOK
  <2>2. Idle \in Locals /\ Idle.pc = "idle" /\ m \in [owner : {t, NoOne}, depth : 0 .. 2]
    BY Emptied DEF Idle
  <2> QED BY SameLock, <1>1, <1>3, <2>1, <2>2, OneThread DEF Held, Inside
<1> QED BY <1>2, <1>3 DEF AcquireFile

LEMMA LoadInv == ASSUME Inv, NEW t \in Threads, Load(t) PROVE Inv'
<1>1. PICK data \in Content : th' = [th EXCEPT ![t] = Loaded(t, data)]
  BY Emptied, SameLock DEF Load
<1>2. th[t].pc = "load" /\ th[t].req \in Asks /\ lock[ProcOf[t]].owner = t
      /\ DepthAt("load", lock[ProcOf[t]].depth) /\ (CanLock => oslock = ProcOf[t])
  BY SameLock DEF Load, At, Held, Inside
<1>3. lock' = lock /\ oslock' = oslock /\ store' \in Content
  BY Emptied, SameLock DEF Load, lockVars
<1> DEFINE l == Loaded(t, data)
           m == lock[ProcOf[t]]
<1>4. /\ l \in Locals /\ l.req \in Asks
      /\ (l.pc = "batch" /\ m.depth = 1) \/ l.pc = "decide"
  BY LoadedType, <1>2 DEF Depth, Mine
<1>5. DepthAt(l.pc, m.depth)
  BY <1>2, <1>4 DEF DepthAt
<1>6. l.pc \in Held /\ th[t].pc \in Held
  BY <1>2, <1>4 DEF Held, Inside
<1> HIDE DEF l
<1> QED BY <1>1, <1>2, <1>3, <1>4, <1>5, <1>6, LockKept DEF l

\* The nested `with`: from depth 1 to depth 2, still the owner.
LEMMA LockDeeper ==
    ASSUME Inv, NEW t \in Threads, NEW l \in Locals, th[t].pc = "batch", EnterNested(t),
           th' = [th EXCEPT ![t] = l], l.pc = "load", l.req = th[t].req, store' = store
    PROVE  Inv'
<1> DEFINE m == [owner |-> t, depth |-> 2]
<1>1. lock[ProcOf[t]].owner = t /\ lock[ProcOf[t]].depth = 1 /\ th[t].req \in Asks
      /\ (CanLock => oslock = ProcOf[t])
  BY SameLock DEF Held, Inside, DepthAt
<1>2. lock' = [lock EXCEPT ![ProcOf[t]] = m] /\ oslock' = oslock
  <2>1. lock' = [lock EXCEPT ![ProcOf[t]].depth = @ + 1] /\ oslock' = oslock
    BY DEF EnterNested, Mine
  <2>2. lock[ProcOf[t]] = [owner |-> t, depth |-> 1]
    BY <1>1, SameLock
  <2>3. [lock[ProcOf[t]] EXCEPT !.depth = @ + 1] = m
    BY <2>2
  <2> QED BY <2>1, <2>3 DEF Inv, TypeOK, LockTypeOK
<1>3. m \in [owner : {t, NoOne}, depth : 0 .. 2] /\ m.owner = t /\ m.depth = 2
  OBVIOUS
<1>4. DepthAt(l.pc, m.depth) /\ l.pc \in Held
  BY DEF DepthAt, Held, Inside
<1>5. store' \in Content /\ oslock' \in Procs \cup {NoOne}
  BY SameLock, <1>2
<1> HIDE DEF m
<1> QED BY <1>1, <1>2, <1>3, <1>4, <1>5, OneThread

LEMMA BatchInv == ASSUME Inv, NEW t \in Threads, Batch(t) PROVE Inv'
<1>0. th[t].pc = "batch" /\ th[t].pc \in Held /\ th[t].pc \in Inside /\ store' = store
  BY DEF Batch, At, Held, Inside
<1>1. /\ th[t].req \in Asks /\ th[t] \in Locals /\ store \in Content
      /\ DepthAt("exit", lock[ProcOf[t]].depth)
      /\ CanLock => oslock = ProcOf[t]
  BY <1>0, SameLock DEF DepthAt
<1>2. ASSUME NEW key \in th[t].todo, EnterNested(t),
             th' = [th EXCEPT ![t].pc = "load", ![t].body = {key}, ![t].todo = @ \ {key}]
      PROVE  Inv'
  <2> DEFINE l == [th[t] EXCEPT !.pc = "load", !.body = {key}, !.todo = @ \ {key}]
  <2>1. key \in Legacy /\ {key} \in A!Bodies /\ th[t].todo \ {key} \in SUBSET Legacy
    BY <1>1 DEF Locals, A!Bodies
  <2>2. l \in Locals /\ l.pc = "load" /\ l.req = th[t].req
    BY <1>1, <2>1 DEF Locals, Inside
  <2>3. th' = [th EXCEPT ![t] = l]
    BY <1>2, <1>1 DEF Inv, TypeOK, Locals
  <2> HIDE DEF l
  <2> QED BY <1>0, <1>1, <1>2, <2>2, <2>3, LockDeeper
<1>3. CASE Op(t) = "region" /\ Goto(t, "load") /\ EnterNested(t)
  <2> DEFINE l == [th[t] EXCEPT !.pc = "load"]
  <2>1. l \in Locals /\ l.pc = "load" /\ l.req = th[t].req
    BY <1>1 DEF Locals, Inside
  <2>2. th' = [th EXCEPT ![t] = l]
    BY <1>3 DEF Goto, Inv, TypeOK, Locals
  <2> HIDE DEF l
  <2> QED BY <1>0, <1>1, <1>3, <2>1, <2>2, LockDeeper
<1>4. CASE Goto(t, "exit") /\ UNCHANGED lockVars
  <2> DEFINE l == [th[t] EXCEPT !.pc = "exit"]
  <2>1. l \in Locals /\ l.pc = "exit" /\ l.req \in Asks /\ l.pc \in Held
    BY <1>1 DEF Locals, Inside, Held
  <2>2. th' = [th EXCEPT ![t] = l] /\ lock' = lock /\ oslock' = oslock
    BY <1>4 DEF Goto, Inv, TypeOK, Locals, lockVars
  <2> HIDE DEF l
  <2> QED BY <1>0, <1>1, <2>1, <2>2, LockKept
<1> QED BY <1>2, <1>3, <1>4 DEF Batch

\* What the transaction may write back is a store again.
LEMMA StagedType ==
    ASSUME Inv, NEW t \in Threads, NEW k \in Ids
    PROVE  LET data == th[t].snap
           IN  /\ MayCreate(t, data, k) => [data EXCEPT ![k] = <<th[t].body>>] \in Content
               /\ MayUpdate(t, data, k) =>
                     [data EXCEPT ![k] = Append(@, NewBody(t, data, k))] \in Content
               /\ MayDelete(t, data, k) => [data EXCEPT ![k] = <<>>] \in Content
<1> DEFINE data == th[t].snap
<1>1. data \in Content /\ th[t].body \in A!Bodies
  BY DEF Inv, TypeOK, Locals
<1>2. MayUpdate(t, data, k) => NewBody(t, data, k) \in A!Bodies
  <2> SUFFICES ASSUME MayUpdate(t, data, k) PROVE NewBody(t, data, k) \in A!Bodies
    OBVIOUS
  <2>1. A!Latest(data, k) \in A!Bodies
    BY <1>1, LatestType DEF MayUpdate
  <2>2. (A!Latest(data, k) \cap Legacy) \cup th[t].body \in A!Bodies
    BY <1>1, <2>1 DEF A!Bodies
  <2> QED BY <1>1, <2>2 DEF NewBody
<1>3. <<th[t].body>> \in Seq(A!Bodies) /\ data[k] \in Seq(A!Bodies)
  BY <1>1 DEF Content
<1>4. MayUpdate(t, data, k) => Append(data[k], NewBody(t, data, k)) \in Seq(A!Bodies)
  BY <1>2, <1>3
<1> QED BY <1>1, <1>3, <1>4 DEF Content

\* Moving on inside the transaction, the lock untouched.
LEMMA Onward ==
    ASSUME Inv, NEW t \in Threads, NEW l \in Locals, th[t].pc \in {"decide", "replace"},
           th' = [th EXCEPT ![t] = l], lock' = lock, oslock' = oslock,
           l.pc \in {"replace", "exit"}, l.req = th[t].req, store' \in Content
    PROVE  Inv'
<1>1. th[t].pc \in Held /\ th[t].pc \in Inside /\ l.pc \in Held /\ l.pc \in Inside
  BY DEF Held, Inside
<1>2. l.req \in Asks /\ (CanLock => oslock = ProcOf[t])
  BY <1>1, SameLock
<1>3. DepthAt(l.pc, lock[ProcOf[t]].depth)
  BY <1>1, SameLock DEF DepthAt
<1> QED BY <1>1, <1>2, <1>3, LockKept

LEMMA StageInv == ASSUME Inv, NEW t \in Threads, Stage(t) PROVE Inv'
<1>1. th[t].pc = "decide" /\ lock' = lock /\ oslock' = oslock /\ store' = store
      /\ store \in Content /\ th[t] \in Locals
  BY SameLock DEF Stage, At, lockVars
<1>2. PICK next \in Content : th' = [th EXCEPT ![t].pc = "replace", ![t].snap = next]
  BY StagedType DEF Stage
<1> DEFINE l == [th[t] EXCEPT !.pc = "replace", !.snap = next]
<1>3. l \in Locals /\ l.pc = "replace" /\ l.req = th[t].req
  BY <1>1 DEF Locals, Inside
<1>4. th' = [th EXCEPT ![t] = l]
  BY <1>1, <1>2 DEF Inv, TypeOK, Locals
<1> HIDE DEF l
<1> QED BY <1>1, <1>3, <1>4, Onward

LEMMA RefuseInv == ASSUME Inv, NEW t \in Threads, Refuse(t) PROVE Inv'
<1> DEFINE l == [th[t] EXCEPT !.pc = "exit"]
<1>1. th[t].pc = "decide" /\ lock' = lock /\ oslock' = oslock /\ store' = store
      /\ store \in Content /\ th[t] \in Locals
  BY SameLock DEF Refuse, At, lockVars
<1>2. l \in Locals /\ l.pc = "exit" /\ l.req = th[t].req
  BY <1>1 DEF Locals, Inside
<1>3. th' = [th EXCEPT ![t] = l]
  BY <1>1 DEF Refuse, Goto, Inv, TypeOK, Locals
<1> HIDE DEF l
<1> QED BY <1>1, <1>2, <1>3, Onward

LEMMA ReplaceInv == ASSUME Inv, NEW t \in Threads, Replace(t) PROVE Inv'
<1>1. th[t].pc = "replace" /\ lock' = lock /\ oslock' = oslock
      /\ store \in Content /\ th[t] \in Locals
  BY SameLock DEF Replace, At, lockVars
<1>2. th[t].snap \in Content
  BY <1>1 DEF Locals
<1>3. CASE store' = th[t].snap /\ Goto(t, "exit")
  <2> DEFINE l == [th[t] EXCEPT !.pc = "exit"]
  <2>1. l \in Locals /\ l.pc = "exit" /\ l.req = th[t].req
    BY <1>1 DEF Locals, Inside
  <2>2. th' = [th EXCEPT ![t] = l]
    BY <1>1, <1>3 DEF Goto, Inv, TypeOK, Locals
  <2> HIDE DEF l
  <2> QED BY <1>1, <1>2, <1>3, <2>1, <2>2, Onward
<1>4. CASE th' = [th EXCEPT ![t].pc = "exit", ![t].todo = {}] /\ UNCHANGED store
  <2> DEFINE l == [th[t] EXCEPT !.pc = "exit", !.todo = {}]
  <2>1. l \in Locals /\ l.pc = "exit" /\ l.req = th[t].req
    BY <1>1 DEF Locals, Inside
  <2>2. th' = [th EXCEPT ![t] = l]
    BY <1>1, <1>4 DEF Inv, TypeOK, Locals
  <2> HIDE DEF l
  <2> QED BY <1>1, <1>4, <2>1, <2>2, Onward
<1> QED BY <1>3, <1>4 DEF Replace

LEMMA ExitInv == ASSUME Inv, NEW t \in Threads, Exit(t) PROVE Inv'
<1>0. th[t].pc = "exit" /\ th[t].pc \in Held /\ th[t].pc \in Inside /\ store' = store
  BY DEF Exit, At, Held, Inside
<1>1. /\ th[t].req \in Asks /\ th[t] \in Locals /\ store \in Content /\ oslock \in Procs \cup {NoOne}
      /\ lock[ProcOf[t]].owner = t /\ lock[ProcOf[t]].depth \in 1 .. 2
      /\ CanLock => oslock = ProcOf[t]
  BY <1>0, SameLock DEF DepthAt
<1>2. ASSUME NEW pc \in {"batch", "exit"}, ExitNested(t), Goto(t, pc) PROVE Inv'
  <2> DEFINE l == [th[t] EXCEPT !.pc = pc]
             m == [owner |-> t, depth |-> 1]
  <2>1. l \in Locals /\ l.pc = pc /\ l.req \in Asks /\ l.pc \in Held
    BY <1>1 DEF Locals, Inside, Held
  <2>2. th' = [th EXCEPT ![t] = l]
    BY <1>2 DEF Goto, Inv, TypeOK, Locals
  <2>3. lock' = [lock EXCEPT ![ProcOf[t]] = m] /\ oslock' = oslock
    <3>1. lock[ProcOf[t]] = [owner |-> t, depth |-> 2]
      BY <1>1, <1>2, SameLock DEF ExitNested, Mine
    <3>2. [lock[ProcOf[t]] EXCEPT !.depth = 1] = m
      BY <3>1
    <3>3. lock' = [lock EXCEPT ![ProcOf[t]].depth = 1] /\ oslock' = oslock
      BY <1>2 DEF ExitNested, Mine
    <3> QED BY <3>2, <3>3 DEF Inv, TypeOK, LockTypeOK
  <2>4. m \in [owner : {t, NoOne}, depth : 0 .. 2] /\ m.owner = t /\ DepthAt(l.pc, m.depth) /\ m.owner # NoOne
    BY <2>1 DEF DepthAt
  <2> HIDE DEF l, m
  <2> QED BY <1>0, <1>1, <2>1, <2>2, <2>3, <2>4, OneThread
<1>3. CASE ExitFile(t) /\ Goto(t, "unlock")
  <2> DEFINE l == [th[t] EXCEPT !.pc = "unlock"]
             m == [owner |-> t, depth |-> 0]
  <2>1. l \in Locals /\ l.pc = "unlock" /\ l.req \in Asks /\ l.pc \in Held /\ l.pc \notin Inside
    BY <1>1 DEF Locals, Inside, Held
  <2>2. th' = [th EXCEPT ![t] = l]
    BY <1>3 DEF Goto, Inv, TypeOK, Locals
  <2>3. lock' = [lock EXCEPT ![ProcOf[t]] = m]
    <3>1. lock[ProcOf[t]] = [owner |-> t, depth |-> 1]
      BY <1>1, <1>3, SameLock DEF ExitFile, Mine
    <3>2. [lock[ProcOf[t]] EXCEPT !.depth = 0] = m
      BY <3>1
    <3>3. lock' = [lock EXCEPT ![ProcOf[t]].depth = 0]
      BY <1>3 DEF ExitFile, Mine
    <3> QED BY <3>2, <3>3 DEF Inv, TypeOK, LockTypeOK
  <2>4. m \in [owner : {t, NoOne}, depth : 0 .. 2] /\ m.owner = t /\ DepthAt(l.pc, m.depth) /\ m.owner # NoOne
    BY <2>1 DEF DepthAt, Inside
  <2>5. oslock' \in Procs \cup {NoOne} /\ (oslock' = oslock \/ oslock = ProcOf[t])
    BY <1>1, <1>3 DEF ExitFile, Mine
  <2> HIDE DEF l, m
  <2> QED BY <1>0, <1>1, <2>1, <2>2, <2>3, <2>4, <2>5, OneThread
<1> QED BY <1>2, <1>3 DEF Exit

LEMMA LeaveInv == ASSUME Inv, NEW t \in Threads, Leave(t) PROVE Inv'
<1> DEFINE m == [owner |-> NoOne, depth |-> 0]
<1>1. th[t].pc = "unlock" /\ th[t].pc \in Held /\ store' = store /\ store \in Content
      /\ oslock' = oslock /\ oslock \in Procs \cup {NoOne} /\ th' = [th EXCEPT ![t] = Idle]
  BY SameLock DEF Leave, ExitThread, At, Held
<1>2. lock' = [lock EXCEPT ![ProcOf[t]] = m]
  <2>1. lock[ProcOf[t]] = [owner |-> t, depth |-> 0]
    BY <1>1, SameLock DEF Leave, ExitThread, Mine
  <2>2. [lock[ProcOf[t]] EXCEPT !.owner = NoOne] = m
    BY <2>1
  <2>3. lock' = [lock EXCEPT ![ProcOf[t]].owner = NoOne]
    BY DEF Leave, ExitThread, Mine
  <2> QED BY <2>2, <2>3 DEF Inv, TypeOK, LockTypeOK
<1>3. Idle \in Locals /\ Idle.pc = "idle" /\ Idle.pc \notin Held /\ Idle.pc \notin Inside
  BY Emptied DEF Idle, Held, Inside
<1>4. m \in [owner : {t, NoOne}, depth : 0 .. 2] /\ m.owner = NoOne /\ m.owner # t /\ m.depth = 0
  OBVIOUS
<1>5. lock[ProcOf[t]].owner \in {t, NoOne}
  BY <1>1, SameLock
<1> HIDE DEF m
<1> QED BY <1>1, <1>2, <1>3, <1>4, <1>5, OneThread

LEMMA CrashInv == ASSUME Inv, NEW p \in Procs, Crash(p) PROVE Inv'
<1>1. /\ lock' = [lock EXCEPT ![p] = [owner |-> NoOne, depth |-> 0]]
      /\ oslock' = IF oslock = p THEN NoOne ELSE oslock
      /\ th' = [t \in Threads |-> IF ProcOf[t] = p THEN Idle ELSE th[t]]
      /\ store' = store
  BY DEF Crash, ProcessDies, Mine
<1>2. TypeOK'
  BY <1>1, Emptied DEF Inv, TypeOK, LockTypeOK
<1>3. ASSUME NEW t \in Threads, ProcOf[t] = p
      PROVE  th'[t].pc = "idle" /\ lock'[ProcOf[t]].owner = NoOne
  BY <1>1, <1>3 DEF Idle, Inv, TypeOK, LockTypeOK
<1>4. ASSUME NEW t \in Threads, ProcOf[t] # p
      PROVE  th'[t] = th[t] /\ lock'[ProcOf[t]] = lock[ProcOf[t]]
  BY <1>1, <1>4 DEF Inv, TypeOK, LockTypeOK
<1>5. ASSUME NEW t \in Threads
      PROVE  /\ th'[t].pc \in Held <=> Owns(t)'
             /\ Owns(t)' => DepthAt(th'[t].pc, Depth(t)')
             /\ th'[t].pc # "idle" => th'[t].req \in Asks
  <2>1. CASE ProcOf[t] = p
    BY <2>1, <1>3 DEF Owns, Mine, Held, Inside
  <2>2. CASE ProcOf[t] # p
    BY <2>2, <1>4 DEF Owns, Mine, Depth, Inv, LockInv
  <2> QED BY <2>1, <2>2
<1>6. ASSUME NEW q \in Procs PROVE lock'[q].owner = NoOne => lock'[q].depth = 0
  BY <1>1 DEF Inv, TypeOK, LockTypeOK, LockInv
<1>7. ASSUME CanLock, NEW t \in Threads, th'[t].pc \in Inside PROVE oslock' = ProcOf[t]
  <2>1. ProcOf[t] # p
    BY <1>3, <1>7 DEF Inside
  <2>2. oslock = ProcOf[t]
    BY <2>1, <1>4, <1>7 DEF Inv, LockInv, Mine
  <2> QED BY <2>1, <2>2, <1>1
<1> QED BY <1>2, <1>5, <1>6, <1>7 DEF Inv, LockInv, Mine

LEMMA StutterInv == ASSUME Inv, UNCHANGED vars PROVE Inv'
<1>1. lock' = lock /\ oslock' = oslock /\ store' = store /\ th' = th
  BY DEF vars
<1>2. TypeOK'
  BY <1>1 DEF Inv, TypeOK, LockTypeOK
<1>3. LockInv'
  BY <1>1 DEF Inv, LockInv, Owns, Depth, Mine
<1> QED BY <1>2, <1>3 DEF Inv

LEMMA InvStep == Inv /\ [Next]_vars => Inv'
<1> SUFFICES ASSUME Inv, [Next]_vars PROVE Inv'
  OBVIOUS
<1>1. ASSUME NEW t \in Threads, Ask(t) \/ Enter(t) \/ Step(t) PROVE Inv'
  BY <1>1, AskInv, EnterInv, AcquireInv, LoadInv, BatchInv, StageInv, RefuseInv, ReplaceInv,
     ExitInv, LeaveInv DEF Step
<1> QED BY <1>1, CrashInv, StutterInv DEF Next

\* No interleaving of transactions, timeouts, failures and crashes takes the
\* lock's depth or a thread's locals out of their types.
THEOREM TypeCorrect == Spec => []TypeOK
<1>1. Inv => TypeOK
  BY DEF Inv
<1> QED BY <1>1, InitInv, InvStep, PTL DEF Spec

\* The thread lock keeps two transactions of one server apart even where the
\* directory cannot lock, and where it can the file lock keeps servers apart.
THEOREM TransactionsExclude == Spec => []MutualExclusion
<1>1. Inv => MutualExclusion
  <2> SUFFICES ASSUME Inv, NEW t \in Threads, NEW u \in Threads, t # u,
                      th[t].pc \in Inside, th[u].pc \in Inside
               PROVE  CanLock = FALSE /\ ProcOf[t] # ProcOf[u]
    BY DEF MutualExclusion, Mine
  <2>1. lock[ProcOf[t]].owner = t /\ lock[ProcOf[u]].owner = u
    BY SameLock DEF Held
  <2>2. CanLock => oslock = ProcOf[t] /\ oslock = ProcOf[u]
    BY SameLock
  <2> QED BY <2>1, <2>2
<1> QED BY <1>1, InitInv, InvStep, PTL DEF Spec

-----------------------------------------------------------------------------
\* What a thread with locals l, at lock depth `depth`, knows of the file c.
\* Before and after its transaction it only remembers what it was asked.
Knows(l, depth, c) ==
    LET op == l.req.op
        k == l.req.id
        nested == l.pc \in {"load", "decide"} /\ depth = 2
    IN  /\ l.pc # "idle" /\ op \notin {"import", "region"} => l.body = l.req.body
        /\ l.pc # "idle" => l.todo \subseteq l.req.body
        /\ l.pc \in {"want", "open"} \/ (l.pc = "load" /\ depth = 1) =>
               l.body = l.req.body /\ l.todo = {}
        /\ l.pc \in Inside /\ op = "import" => \A key \in l.todo : A!NotImported(c, key)
        /\ l.pc = "decide" => l.snap = c
        /\ l.pc = "decide" /\ op = "import" => depth = 2
        /\ (l.pc = "batch" \/ nested) /\ op = "region" =>
               c[k] # <<>> /\ l.body = A!Latest(c, k) \cup l.req.body
        /\ nested /\ op = "import" =>
               \E key \in l.req.body \ l.todo : A!NotImported(c, key) /\ l.body = {key}
        /\ l.pc = "replace" =>
               /\ A!Served(l.req, c, l.snap)
               /\ op = "import" => \A key \in l.todo : A!NotImported(l.snap, key)

DataInv == \A t \in Threads : Knows(th[t], Depth(t), store)

\* Outside its transaction a thread knows nothing of the file.
LEMMA KnowsNothing ==
    ASSUME NEW l \in Locals, l.pc \notin Inside, NEW d, NEW c, NEW e, NEW f, Knows(l, d, c)
    PROVE  Knows(l, e, f)
BY DEF Knows, Inside

\* A step of one thread leaves what the others know: the file changes only
\* under a thread that is inside its transaction, and then it is alone.
LEMMA OthersKnow ==
    ASSUME CanLock, Inv, Inv', DataInv, NEW t \in Threads, NEW l \in Locals,
           th' = [th EXCEPT ![t] = l],
           store' = store \/ th[t].pc \in Inside,
           \A q \in Procs \ {ProcOf[t]} : lock'[q] = lock[q],
           lock' = lock \/ lock[ProcOf[t]].owner \in {t, NoOne},
           Knows(l, Depth(t)', store')
    PROVE  DataInv'
<1> SUFFICES ASSUME NEW u \in Threads PROVE Knows(th'[u], Depth(u)', store')
  BY DEF DataInv
<1>1. CASE u = t
  <2>1. th'[t] = l
    BY DEF Inv, TypeOK
  <2> QED BY <1>1, <2>1
<1>2. CASE u # t
  <2>1. th'[u] = th[u] /\ th[u] \in Locals /\ Knows(th[u], Depth(u), store)
    BY <1>2 DEF Inv, TypeOK, DataInv
  <2>2. CASE th[u].pc \notin Inside
    BY <2>1, <2>2, KnowsNothing
  <2>3. CASE th[u].pc \in Inside
    <3>1. lock[ProcOf[u]].owner = u /\ oslock = ProcOf[u]
      BY <2>3, SameLock DEF Held
    <3>2. th[t].pc \notin Inside
      <4> SUFFICES ASSUME th[t].pc \in Inside PROVE FALSE
        OBVIOUS
      <4>1. lock[ProcOf[t]].owner = t /\ oslock = ProcOf[t]
        BY SameLock DEF Held
      <4> QED BY <4>1, <3>1, <1>2
    <3>3. lock'[ProcOf[u]] = lock[ProcOf[u]]
      BY <3>1, <1>2
    <3>4. Depth(u)' = Depth(u)
      BY <3>3 DEF Depth, Mine
    <3> QED BY <2>1, <3>2, <3>4
  <2> QED BY <2>2, <2>3
<1> QED BY <1>1, <1>2

LEMMA IdleKnows == ASSUME NEW d, NEW c PROVE Knows(Idle, d, c)
BY DEF Knows, Idle, Inside

LEMMA AskKnows ==
    ASSUME CanLock, Inv, Inv', DataInv, NEW t \in Threads, Ask(t) PROVE DataInv'
<1>1. PICK r \in Asks : th' = [th EXCEPT ![t] = [Idle EXCEPT !.pc = "want", !.req = r, !.body = r.body]]
  BY DEF Ask
<1> DEFINE l == [Idle EXCEPT !.pc = "want", !.req = r, !.body = r.body]
<1>2. l \in Locals /\ l.pc = "want" /\ l.body = l.req.body /\ l.todo = {}
  BY AsksAssumption, Emptied DEF Locals, Idle, A!Request
<1>3. lock' = lock /\ store' = store
  BY DEF Ask, lockVars
<1> HIDE DEF l
<1>4. Knows(l, Depth(t)', store')
  BY <1>2 DEF Knows, Inside
<1> QED BY <1>1, <1>2, <1>3, <1>4, OthersKnow DEF l

LEMMA EnterKnows ==
    ASSUME CanLock, Inv, Inv', DataInv, NEW t \in Threads, Enter(t) PROVE DataInv'
<1>1. lock[ProcOf[t]].owner = NoOne /\ lock[ProcOf[t]].depth = 0 /\ th[t].pc = "want"
  BY DEF Inv, LockInv, Enter, EnterThread, At, Mine
<1> DEFINE l == [th[t] EXCEPT !.pc = "open"]
<1>2. th' = [th EXCEPT ![t] = l] /\ th[t] \in Locals /\ l \in Locals
  BY <1>1 DEF Enter, Goto, Depth, Mine, Inv, TypeOK, Locals
<1>3. /\ store' = store
      /\ \A q \in Procs \ {ProcOf[t]} : lock'[q] = lock[q]
  BY DEF Enter, EnterThread, Mine, Inv, TypeOK, LockTypeOK
<1>4. Knows(th[t], Depth(t), store)
  BY DEF DataInv
<1>5. l.pc = "open" /\ l.body = th[t].body /\ l.req = th[t].req /\ l.todo = th[t].todo
  BY <1>2 DEF Locals
<1> HIDE DEF l
<1>6. Knows(l, Depth(t)', store')
  BY <1>1, <1>4, <1>5 DEF Knows, Inside
<1> QED BY <1>1, <1>2, <1>3, <1>6, OthersKnow

LEMMA AcquireKnows ==
    ASSUME CanLock, Inv, Inv', DataInv, NEW t \in Threads, AcquireFile(t) PROVE DataInv'
<1>1. /\ th[t].pc = "open" /\ store' = store /\ th[t] \in Locals
      /\ lock[ProcOf[t]].owner = t /\ lock[ProcOf[t]].depth = 1
      /\ Knows(th[t], Depth(t), store)
  BY SameLock DEF AcquireFile, At, Held, DepthAt, DataInv
<1>2. CASE (TakeFile(t) \/ Degrade(t)) /\ Goto(t, "load")
  <2> DEFINE l == [th[t] EXCEPT !.pc = "load"]
  <2>1. /\ l \in Locals /\ l.pc = "load"
        /\ l.body = th[t].body /\ l.req = th[t].req /\ l.todo = th[t].todo
    BY <1>1 DEF Locals, Inside
  <2>2. th' = [th EXCEPT ![t] = l] /\ lock' = lock
    BY <1>2 DEF Goto, Inv, TypeOK, Locals, TakeFile, Degrade, lockVars
  <2>3. Depth(t)' = 1
    BY <1>1, <2>2 DEF Depth, Mine
  <2> HIDE DEF l
  <2>4. Knows(l, Depth(t)', store')
    BY <1>1, <2>1, <2>3 DEF Knows, Inside
  <2> QED BY <1>1, <2>1, <2>2, <2>4, OthersKnow
<1>3. CASE TimeOut(t) /\ th' = [th EXCEPT ![t] = Idle]
  <2>1. \A q \in Procs \ {ProcOf[t]} : lock'[q] = lock[q]
    BY <1>3 DEF TimeOut, Mine, Inv, TypeOK, LockTypeOK
  <2> QED BY <1>1, <1>3, <2>1, IdleKnows, Emptied, OthersKnow
<1> QED BY <1>2, <1>3 DEF AcquireFile

LEMMA LoadKnows ==
    ASSUME CanLock, ~ReadMayFail, Inv, Inv', DataInv, NEW t \in Threads, Load(t) PROVE DataInv'
<1> DEFINE l == Loaded(t, store)
           r == th[t].req
<1>1. /\ th' = [th EXCEPT ![t] = l] /\ th[t].pc = "load" /\ th[t] \in Locals
      /\ lock' = lock /\ store' = store /\ store \in Content
  BY SameLock DEF Load, At, lockVars
<1>2. /\ r \in Asks /\ Depth(t) \in 1 .. 2 /\ Depth(t)' = Depth(t)
      /\ Knows(th[t], Depth(t), store)
  BY <1>1, SameLock DEF DepthAt, Held, Inside, Depth, Mine, DataInv
<1>3. l \in Locals
  BY <1>1, <1>2, LoadedType
<1>4. Knows(l, Depth(t), store)
  <2>1. CASE Depth(t) = 1 /\ Op(t) = "import"
    <3>1. /\ l.pc = "batch" /\ l.req = r /\ l.body = th[t].body
          /\ l.todo = {key \in r.body : A!NotImported(store, key)}
      BY <1>1, <2>1 DEF Loaded, Locals
    <3> HIDE DEF l
    <3> QED BY <2>1, <3>1 DEF Knows, Inside, Op
  <2>2. CASE Depth(t) = 1 /\ Op(t) = "region" /\ store[r.id] # <<>>
    <3>1. /\ l.pc = "batch" /\ l.req = r /\ l.todo = th[t].todo
          /\ l.body = th[t].body \cup A!Latest(store, r.id)
      BY <1>1, <2>2 DEF Loaded, Locals
    <3>2. th[t].body = r.body
      BY <1>1, <1>2, <2>2 DEF Knows
    <3> HIDE DEF l
    <3> QED BY <1>1, <1>2, <2>2, <3>1, <3>2 DEF Knows, Inside, Op
  <2>3. CASE ~(Depth(t) = 1 /\ Op(t) = "import")
             /\ ~(Depth(t) = 1 /\ Op(t) = "region" /\ store[r.id] # <<>>)
    <3>1. /\ l.pc = "decide" /\ l.req = r /\ l.body = th[t].body
          /\ l.todo = th[t].todo /\ l.snap = store
      BY <1>1, <2>3 DEF Loaded, Locals
    <3> HIDE DEF l
    <3> QED BY <1>1, <1>2, <2>3, <3>1 DEF Knows, Inside, Op
  <2> QED BY <2>1, <2>2, <2>3
<1> HIDE DEF l
<1> QED BY <1>1, <1>2, <1>3, <1>4, OthersKnow

LEMMA BatchKnows ==
    ASSUME CanLock, Inv, Inv', DataInv, NEW t \in Threads, Batch(t) PROVE DataInv'
<1>0. th[t].pc = "batch" /\ th[t].pc \in Held /\ th[t].pc \in Inside /\ store' = store
  BY DEF Batch, At, Held, Inside
<1>1. /\ th[t] \in Locals /\ lock[ProcOf[t]].owner = t /\ lock[ProcOf[t]].depth = 1
      /\ Knows(th[t], Depth(t), store)
  BY <1>0, SameLock DEF DepthAt, DataInv
<1>2. EnterNested(t) => /\ Depth(t)' = 2
                        /\ \A q \in Procs \ {ProcOf[t]} : lock'[q] = lock[q]
  BY <1>1 DEF EnterNested, Mine, Depth, Inv, TypeOK, LockTypeOK
<1>3. ASSUME Op(t) = "import", NEW key \in th[t].todo, EnterNested(t),
             th' = [th EXCEPT ![t].pc = "load", ![t].body = {key}, ![t].todo = @ \ {key}]
      PROVE  DataInv'
  <2> DEFINE l == [th[t] EXCEPT !.pc = "load", !.body = {key}, !.todo = @ \ {key}]
  <2>1. key \in Legacy /\ {key} \in A!Bodies /\ th[t].todo \ {key} \in SUBSET Legacy
    BY <1>1 DEF Locals, A!Bodies
  <2>2. /\ l \in Locals /\ l.pc = "load" /\ l.req = th[t].req
        /\ l.body = {key} /\ l.todo = th[t].todo \ {key}
    BY <1>1, <2>1 DEF Locals, Inside
  <2>3. th' = [th EXCEPT ![t] = l]
    BY <1>3, <1>1 DEF Inv, TypeOK, Locals
  <2> HIDE DEF l
  <2>4. /\ th[t].todo \subseteq th[t].req.body
        /\ \A j \in th[t].todo : A!NotImported(store, j)
    BY <1>0, <1>1, <1>3 DEF Knows, Op
  <2>5. key \in l.req.body \ l.todo /\ A!NotImported(store, key)
    BY <2>2, <2>4
  <2>6. Knows(l, 2, store)
    BY <1>3, <2>2, <2>4, <2>5 DEF Knows, Op, Inside
  <2>7. Knows(l, Depth(t)', store') /\ \A q \in Procs \ {ProcOf[t]} : lock'[q] = lock[q]
    BY <1>0, <1>2, <1>3, <2>6
  <2> QED BY <1>0, <1>1, <2>2, <2>3, <2>7, OthersKnow
<1>4. CASE Op(t) = "region" /\ Goto(t, "load") /\ EnterNested(t)
  <2> DEFINE l == [th[t] EXCEPT !.pc = "load"]
  <2>1. /\ l \in Locals /\ l.pc = "load" /\ l.req = th[t].req
        /\ l.body = th[t].body /\ l.todo = th[t].todo
    BY <1>1 DEF Locals, Inside
  <2>2. th' = [th EXCEPT ![t] = l]
    BY <1>4 DEF Goto, Inv, TypeOK, Locals
  <2> HIDE DEF l
  <2>3. Knows(l, 2, store)
    BY <1>0, <1>1, <1>4, <2>1 DEF Knows, Op, Inside
  <2> QED BY <1>0, <1>1, <1>2, <1>4, <2>1, <2>2, <2>3, OthersKnow
<1>5. CASE Op(t) = "import" /\ Goto(t, "exit") /\ UNCHANGED lockVars
  <2> DEFINE l == [th[t] EXCEPT !.pc = "exit"]
  <2>1. /\ l \in Locals /\ l.pc = "exit" /\ l.req = th[t].req
        /\ l.body = th[t].body /\ l.todo = th[t].todo
    BY <1>1 DEF Locals, Inside
  <2>2. th' = [th EXCEPT ![t] = l] /\ lock' = lock
    BY <1>5 DEF Goto, Inv, TypeOK, Locals, lockVars
  <2> HIDE DEF l
  <2>3. Knows(l, Depth(t)', store)
    BY <1>0, <1>1, <1>5, <2>1 DEF Knows, Op, Inside
  <2> QED BY <1>0, <1>1, <2>1, <2>2, <2>3, OthersKnow
<1> QED BY <1>3, <1>4, <1>5 DEF Batch

LEMMA RefuseKnows ==
    ASSUME CanLock, Inv, Inv', DataInv, NEW t \in Threads, Refuse(t) PROVE DataInv'
<1> DEFINE l == [th[t] EXCEPT !.pc = "exit"]
<1>1. /\ th[t].pc = "decide" /\ lock' = lock /\ store' = store
      /\ th[t] \in Locals /\ Knows(th[t], Depth(t), store)
  BY SameLock DEF Refuse, At, lockVars, DataInv
<1>2. /\ l \in Locals /\ l.pc = "exit" /\ l.req = th[t].req
      /\ l.body = th[t].body /\ l.todo = th[t].todo
  BY <1>1 DEF Locals, Inside
<1>3. th' = [th EXCEPT ![t] = l]
  BY <1>1 DEF Refuse, Goto, Inv, TypeOK, Locals
<1> HIDE DEF l
<1>4. Knows(l, Depth(t)', store)
  BY <1>1, <1>2 DEF Knows, Inside
<1> QED BY <1>1, <1>2, <1>3, <1>4, OthersKnow

LEMMA ReplaceKnows ==
    ASSUME CanLock, Inv, Inv', DataInv, NEW t \in Threads, Replace(t) PROVE DataInv'
<1>1. /\ th[t].pc = "replace" /\ th[t].pc \in Inside /\ lock' = lock
      /\ th[t] \in Locals /\ Knows(th[t], Depth(t), store)
  BY SameLock DEF Replace, At, lockVars, DataInv, Inside
<1>2. CASE store' = th[t].snap /\ Goto(t, "exit")
  <2> DEFINE l == [th[t] EXCEPT !.pc = "exit"]
  <2>1. /\ l \in Locals /\ l.pc = "exit" /\ l.req = th[t].req
        /\ l.body = th[t].body /\ l.todo = th[t].todo
    BY <1>1 DEF Locals, Inside
  <2>2. th' = [th EXCEPT ![t] = l]
    BY <1>1, <1>2 DEF Goto, Inv, TypeOK, Locals
  <2> HIDE DEF l
  <2>3. Knows(l, Depth(t)', store')
    BY <1>1, <1>2, <2>1 DEF Knows, Inside
  <2> QED BY <1>1, <2>1, <2>2, <2>3, OthersKnow
<1>3. CASE th' = [th EXCEPT ![t].pc = "exit", ![t].todo = {}] /\ UNCHANGED store
  <2> DEFINE l == [th[t] EXCEPT !.pc = "exit", !.todo = {}]
  <2>1. /\ l \in Locals /\ l.pc = "exit" /\ l.req = th[t].req
        /\ l.body = th[t].body /\ l.todo = {}
    BY <1>1 DEF Locals, Inside
  <2>2. th' = [th EXCEPT ![t] = l]
    BY <1>1, <1>3 DEF Inv, TypeOK, Locals
  <2> HIDE DEF l
  <2>3. Knows(l, Depth(t)', store')
    BY <1>1, <1>3, <2>1 DEF Knows, Inside
  <2> QED BY <1>1, <1>3, <2>1, <2>2, <2>3, OthersKnow
<1> QED BY <1>2, <1>3 DEF Replace

LEMMA ExitKnows ==
    ASSUME CanLock, Inv, Inv', DataInv, NEW t \in Threads, Exit(t) PROVE DataInv'
<1>1. /\ th[t].pc = "exit" /\ store' = store /\ th[t] \in Locals
      /\ lock[ProcOf[t]].owner = t /\ Knows(th[t], Depth(t), store)
  BY SameLock DEF Exit, At, Held, Inside, DataInv
<1>2. \A q \in Procs \ {ProcOf[t]} : lock'[q] = lock[q]
  BY DEF Exit, ExitNested, ExitFile, Mine, Inv, TypeOK, LockTypeOK
<1>3. ASSUME NEW pc \in {"batch", "exit", "unlock"}, Goto(t, pc), pc = "batch" => Op(t) = "import"
      PROVE  DataInv'
  <2> DEFINE l == [th[t] EXCEPT !.pc = pc]
  <2>1. /\ l \in Locals /\ l.pc = pc /\ l.req = th[t].req
        /\ l.body = th[t].body /\ l.todo = th[t].todo
    BY <1>1 DEF Locals, Inside
  <2>2. th' = [th EXCEPT ![t] = l]
    BY <1>3 DEF Goto, Inv, TypeOK, Locals
  <2> HIDE DEF l
  <2>3. Knows(l, Depth(t)', store')
    BY <1>1, <1>3, <2>1 DEF Knows, Inside, Op
  <2> QED BY <1>1, <1>2, <2>1, <2>2, <2>3, OthersKnow
<1> QED BY <1>3 DEF Exit

LEMMA LeaveKnows ==
    ASSUME CanLock, Inv, Inv', DataInv, NEW t \in Threads, Leave(t) PROVE DataInv'
<1>1. /\ th' = [th EXCEPT ![t] = Idle] /\ store' = store
      /\ \A q \in Procs \ {ProcOf[t]} : lock'[q] = lock[q]
      /\ lock[ProcOf[t]].owner = t
  BY DEF Leave, ExitThread, Owns, Mine, Inv, TypeOK, LockTypeOK
<1> QED BY <1>1, IdleKnows, Emptied, OthersKnow

LEMMA CrashKnows ==
    ASSUME CanLock, Inv, DataInv, NEW p \in Procs, Crash(p) PROVE DataInv'
<1>1. /\ lock' = [lock EXCEPT ![p] = [owner |-> NoOne, depth |-> 0]]
      /\ th' = [t \in Threads |-> IF ProcOf[t] = p THEN Idle ELSE th[t]]
      /\ store' = store
  BY DEF Crash, ProcessDies, Mine
<1> SUFFICES ASSUME NEW t \in Threads PROVE Knows(th'[t], Depth(t)', store')
  BY DEF DataInv
<1>2. CASE ProcOf[t] = p
  BY <1>1, <1>2, IdleKnows
<1>3. CASE ProcOf[t] # p
  <2>1. th'[t] = th[t] /\ lock'[ProcOf[t]] = lock[ProcOf[t]]
    BY <1>1, <1>3 DEF Inv, TypeOK, LockTypeOK
  <2>2. Depth(t)' = Depth(t)
    BY <2>1 DEF Depth, Mine
  <2> QED BY <1>1, <2>1, <2>2 DEF DataInv
<1> QED BY <1>2, <1>3

\* The change a thread stages is the one it was asked for, of the entry as it
\* stands in the file; and the keys still to be imported stay absent.
LEMMA StagedServes ==
    ASSUME Inv, NEW t \in Threads, At(t, "decide"), NEW k \in Ids, NEW next \in Content,
           Knows(th[t], Depth(t), store),
           \/ MayCreate(t, store, k) /\ next = [store EXCEPT ![k] = <<th[t].body>>]
           \/ /\ MayUpdate(t, store, k)
              /\ next = [store EXCEPT ![k] = Append(@, NewBody(t, store, k))]
           \/ MayDelete(t, store, k) /\ next = [store EXCEPT ![k] = <<>>]
    PROVE  /\ A!Served(th[t].req, store, next)
           /\ Op(t) = "import" => \A key \in th[t].todo : A!NotImported(next, key)
<1> DEFINE r == th[t].req
<1>1. th[t].pc = "decide" /\ store \in Content
  BY DEF At, Inv, TypeOK
<1>2. CASE MayCreate(t, store, k) /\ next = [store EXCEPT ![k] = <<th[t].body>>]
  <2>1. CASE Op(t) = "create"
    BY <1>1, <1>2, <2>1 DEF MayCreate, Knows, Op, A!Served, A!Creates
  <2>2. CASE Op(t) = "import"
    <3>1. PICK key \in r.body \ th[t].todo : A!NotImported(store, key) /\ th[t].body = {key}
      BY <1>1, <2>2 DEF Knows, Op
    <3>2. A!Served(r, store, next)
      BY <1>2, <2>2, <3>1 DEF MayCreate, Op, A!Served, A!Creates
    <3>3. ASSUME NEW j \in th[t].todo PROVE A!NotImported(next, j)
      <4>1. A!NotImported(store, j)
        BY <1>1, <2>2 DEF Knows, Op, Inside
      <4>2. A!Latest(next, k) = {key}
        BY <1>1, <1>2, <3>1 DEF A!Latest, Content
      <4>3. \A i \in Ids \ {k} : next[i] = store[i]
        BY <1>1, <1>2 DEF Content
      <4>4. \A i \in Ids \ {k} : A!Latest(next, i) = A!Latest(store, i)
        BY <4>3 DEF A!Latest
      <4> QED BY <3>1, <4>1, <4>2, <4>3, <4>4 DEF A!NotImported, A!Present
    <3> QED BY <3>2, <3>3
  <2> QED BY <1>2, <2>1, <2>2 DEF MayCreate
<1>3. CASE /\ MayUpdate(t, store, k)
           /\ next = [store EXCEPT ![k] = Append(@, NewBody(t, store, k))]
  <2>1. k = r.id /\ store[k] # <<>>
    BY <1>3 DEF MayUpdate
  <2>2. CASE Op(t) \in {"update", "retext"}
    BY <1>1, <1>3, <2>1, <2>2 DEF NewBody, Knows, Op, A!Served, A!NewVersion
  <2>3. CASE Op(t) = "region" /\ Depth(t) = 2
    BY <1>1, <1>3, <2>1, <2>3 DEF NewBody, Knows, Op, A!Served, A!NewVersion
  <2> QED BY <1>3, <2>2, <2>3 DEF MayUpdate
<1>4. CASE MayDelete(t, store, k) /\ next = [store EXCEPT ![k] = <<>>]
  BY <1>4 DEF MayDelete, Op, A!Served, A!Deletes
<1> QED BY <1>2, <1>3, <1>4

LEMMA StageKnows ==
    ASSUME CanLock, Inv, Inv', DataInv, NEW t \in Threads, Stage(t)
    PROVE  DataInv'
<1>1. /\ At(t, "decide") /\ th[t].pc = "decide" /\ lock' = lock /\ store' = store
      /\ th[t] \in Locals /\ Knows(th[t], Depth(t), store)
  BY SameLock DEF Stage, At, lockVars, DataInv
<1>2. th[t].snap = store
  BY <1>1 DEF Knows
<1>3. PICK k \in Ids, next \in Content :
        /\ \/ MayCreate(t, store, k) /\ next = [store EXCEPT ![k] = <<th[t].body>>]
           \/ /\ MayUpdate(t, store, k)
              /\ next = [store EXCEPT ![k] = Append(@, NewBody(t, store, k))]
           \/ MayDelete(t, store, k) /\ next = [store EXCEPT ![k] = <<>>]
        /\ th' = [th EXCEPT ![t].pc = "replace", ![t].snap = next]
  BY <1>2, StagedType DEF Stage
<1> DEFINE l == [th[t] EXCEPT !.pc = "replace", !.snap = next]
<1>4. /\ l \in Locals /\ l.pc = "replace" /\ l.req = th[t].req
      /\ l.body = th[t].body /\ l.todo = th[t].todo /\ l.snap = next
  BY <1>1 DEF Locals, Inside
<1>5. th' = [th EXCEPT ![t] = l]
  BY <1>1, <1>3 DEF Inv, TypeOK, Locals
<1>6. /\ A!Served(th[t].req, store, next)
      /\ Op(t) = "import" => \A key \in th[t].todo : A!NotImported(next, key)
  BY <1>1, <1>3, StagedServes
<1> HIDE DEF l
<1>7. Knows(l, Depth(t)', store')
  BY <1>1, <1>4, <1>6 DEF Knows, Inside, Op
<1> QED BY <1>1, <1>4, <1>5, <1>6, <1>7, OthersKnow

LEMMA DataInit == ASSUME Init PROVE DataInv
BY IdleKnows DEF Init, DataInv

LEMMA DataStep ==
    ASSUME CanLock, ~ReadMayFail, Inv, DataInv, [Next]_vars PROVE DataInv'
<1>1. Inv'
  BY InvStep
<1>2. ASSUME NEW t \in Threads, Ask(t) \/ Enter(t) \/ Step(t) PROVE DataInv'
  BY <1>1, <1>2, AskKnows, EnterKnows, AcquireKnows, LoadKnows, BatchKnows, StageKnows,
     RefuseKnows, ReplaceKnows, ExitKnows, LeaveKnows DEF Step
<1>3. CASE UNCHANGED vars
  BY <1>3 DEF vars, DataInv, Depth, Mine
<1> QED BY <1>2, <1>3, CrashKnows DEF Next

\* A save drops nothing another caller saved: it differs from the file in the
\* one entry it was asked for.  (A store that can neither be read nor renamed
\* is saved over, and a directory that cannot lock loses updates: hence the
\* two assumptions.)
THEOREM SavesKeepOthers ==
    ASSUME CanLock, ~ReadMayFail
    PROVE  Spec => []SaveKeepsOthers
<1>1. Inv /\ DataInv => SaveKeepsOthers
  <2> SUFFICES ASSUME Inv, DataInv, NEW t \in Threads, At(t, "replace")
               PROVE  \E k \in Ids : /\ \A j \in Ids \ {k} : th[t].snap[j] = store[j]
                                     /\ Op(t) # "import" => k = th[t].req.id
                                     /\ Op(t) # "delete" => Len(th[t].snap[k]) = Len(store[k]) + 1
    BY DEF SaveKeepsOthers
  <2>1. A!Served(th[t].req, store, th[t].snap) /\ store \in Content
        /\ th[t].req.id \in Ids
    BY AsksAssumption, SameLock DEF DataInv, Knows, At, Inside, Held, A!Request
  <2>2. ASSUME NEW k \in Ids, NEW b, A!Creates(store, th[t].snap, k, b)
        PROVE  /\ \A j \in Ids \ {k} : th[t].snap[j] = store[j]
               /\ Len(th[t].snap[k]) = Len(store[k]) + 1
    BY <2>1, <2>2 DEF A!Creates, Content
  <2>3. ASSUME NEW k \in Ids, NEW b, A!NewVersion(store, th[t].snap, k, b)
        PROVE  /\ \A j \in Ids \ {k} : th[t].snap[j] = store[j]
               /\ Len(th[t].snap[k]) = Len(store[k]) + 1
    BY <2>1, <2>3 DEF A!NewVersion, Content
  <2>4. ASSUME NEW k \in Ids, A!Deletes(store, th[t].snap, k)
        PROVE  \A j \in Ids \ {k} : th[t].snap[j] = store[j]
    BY <2>1, <2>4 DEF A!Deletes, Content
  <2> QED BY <2>1, <2>2, <2>3, <2>4 DEF A!Served, Op
<1>2. Init => Inv /\ DataInv
  BY InitInv, DataInit
<1>3. Inv /\ DataInv /\ [Next]_vars => Inv' /\ DataInv'
  BY InvStep, DataStep
<1> QED BY <1>1, <1>2, <1>3, PTL DEF Spec

-----------------------------------------------------------------------------
\* The refinement: what a caller has asked, seen in its thread's locals.
AskedOf(l) == IF \/ l.pc = "idle"
                 \/ l.pc \in {"exit", "unlock"} /\ l.req.op # "import"
              THEN NoRequest ELSE l.req

Stutters == store' = store /\ asked' = asked

LEMMA AskedChange ==
    ASSUME Inv, NEW t \in Threads, NEW l, th' = [th EXCEPT ![t] = l]
    PROVE  /\ asked' = [asked EXCEPT ![t] = AskedOf(l)]
           /\ asked[t] = AskedOf(th[t])
           /\ AskedOf(l) = AskedOf(th[t]) => asked' = asked
           /\ AskedOf(l) = NoRequest /\ store' = store => A!Drop({t})
<1>1. th' = [u \in Threads |-> IF u = t THEN l ELSE th[u]]
  BY DEF Inv, TypeOK
<1>2. asked = [u \in Threads |-> AskedOf(th[u])]
  BY DEF asked, AskedOf
<1>3. asked' = [u \in Threads |-> AskedOf(th'[u])]
  BY DEF asked, AskedOf
<1>4. asked' = [u \in Threads |-> IF u = t THEN AskedOf(l) ELSE asked[u]]
  BY <1>1, <1>2, <1>3
<1> HIDE DEF asked
<1> QED BY <1>2, <1>4 DEF A!Drop

\* Where a thread stands inside its transaction, its request is still asked;
\* only at its exit is it not.
LEMMA StillAsked ==
    ASSUME Inv, NEW t \in Threads, NEW l, th' = [th EXCEPT ![t] = l], l.req = th[t].req,
           th[t].pc \in {"want", "open", "load", "batch", "decide", "replace"},
           l.pc \in {"open", "load", "batch", "decide", "replace"}
    PROVE  asked' = asked
<1>1. AskedOf(l) = AskedOf(th[t])
  BY DEF AskedOf
<1> QED BY <1>1, AskedChange

LEMMA AtExit ==
    ASSUME Inv, NEW t \in Threads, NEW l, th' = [th EXCEPT ![t] = l], l.req = th[t].req,
           store' = store, l.pc = "exit",
           th[t].pc \in {"batch", "decide", "replace"}
    PROVE  Stutters \/ A!Drop({t})
<1>1. CASE th[t].req.op = "import"
  <2>1. AskedOf(l) = AskedOf(th[t])
    BY <1>1 DEF AskedOf
  <2> QED BY <2>1, AskedChange DEF Stutters
<1>2. CASE th[t].req.op # "import"
  <2>1. AskedOf(l) = NoRequest
    BY <1>2 DEF AskedOf
  <2> QED BY <2>1, AskedChange
<1> QED BY <1>1, <1>2

\* Every step of one thread is a step of AtomicStore, or nothing at all.
LEMMA ThreadMaps ==
    ASSUME CanLock, ~ReadMayFail, Inv, DataInv, NEW t \in Threads,
           Ask(t) \/ Enter(t) \/ Step(t)
    PROVE  A!Next \/ Stutters
<1> USE DEF Inv, TypeOK
<1>0. th[t] \in Locals
  OBVIOUS
<1>1. CASE Ask(t)
  <2>1. PICK r \in Asks : th' = [th EXCEPT ![t] = [Idle EXCEPT !.pc = "want", !.req = r, !.body = r.body]]
    BY <1>1 DEF Ask
  <2> DEFINE l == [Idle EXCEPT !.pc = "want", !.req = r, !.body = r.body]
  <2>2. AskedOf(l) = r /\ r \in A!Request
    BY AsksAssumption DEF AskedOf, Idle
  <2>3. AskedOf(th[t]) = NoRequest /\ store' = store
    BY <1>1 DEF AskedOf, Ask, At
  <2>6. th' = [th EXCEPT ![t] = l]
    BY <2>1
  <2> HIDE DEF l
  <2>4. asked[t] = NoRequest /\ asked' = [asked EXCEPT ![t] = r]
    <3>1. asked[t] = AskedOf(th[t]) /\ asked' = [asked EXCEPT ![t] = AskedOf(l)]
      BY <2>6, AskedChange
    <3> QED BY <2>2, <2>3, <3>1
  <2> HIDE DEF asked, Inv
  <2>5. A!Ask(t, r)
    BY <2>3, <2>4 DEF A!Ask
  <2> QED BY <2>2, <2>5 DEF A!Next
<1>2. CASE Enter(t)
  <2> DEFINE l == [th[t] EXCEPT !.pc = "open"]
  <2>1. lock[ProcOf[t]].depth = 0 /\ th[t].pc = "want" /\ store' = store
    BY <1>2 DEF LockInv, Enter, EnterThread, At, Mine
  <2>2. th' = [th EXCEPT ![t] = l]
    BY <1>2, <2>1 DEF Enter, Goto, Depth, Mine, Locals
  <2>3. l.req = th[t].req /\ l.pc = "open"
    BY <1>0 DEF Locals
  <2> HIDE DEF l
  <2> QED BY <2>1, <2>2, <2>3, StillAsked DEF Stutters
<1>3. CASE AcquireFile(t)
  <2>1. th[t].pc = "open" /\ store' = store
    BY <1>3 DEF AcquireFile, At
  <2>2. CASE Goto(t, "load")
    <3> DEFINE l == [th[t] EXCEPT !.pc = "load"]
    <3>1. th' = [th EXCEPT ![t] = l] /\ l.req = th[t].req /\ l.pc = "load"
      BY <1>0, <2>2 DEF Goto, Locals
    <3> HIDE DEF l
    <3> QED BY <2>1, <3>1, StillAsked DEF Stutters
  <2>3. CASE th' = [th EXCEPT ![t] = Idle]
    <3>1. AskedOf(Idle) = NoRequest
      BY DEF AskedOf, Idle
    <3>2. A!Drop({t})
      BY <2>1, <2>3, <3>1, AskedChange
    <3> QED BY <3>2 DEF A!Next
  <2> QED BY <1>3, <2>2, <2>3 DEF AcquireFile
<1>4. CASE Load(t)
  <2> DEFINE l == Loaded(t, store)
  <2>1. th[t].pc = "load" /\ store' = store /\ th' = [th EXCEPT ![t] = l] /\ th[t].req \in Asks
    BY <1>4, SameLock DEF Load, At, Held, Inside
  <2>2. l.req = th[t].req /\ l.pc \in {"batch", "decide"}
    BY <2>1, SameLock, LoadedType
  <2> HIDE DEF l
  <2> QED BY <2>1, <2>2, StillAsked DEF Stutters
<1>5. CASE Batch(t)
  <2>1. th[t].pc = "batch" /\ store' = store
    BY <1>5 DEF Batch, At
  <2>2. ASSUME NEW key \in th[t].todo,
               th' = [th EXCEPT ![t].pc = "load", ![t].body = {key}, ![t].todo = @ \ {key}]
        PROVE  Stutters
    <3> DEFINE l == [th[t] EXCEPT !.pc = "load", !.body = {key}, !.todo = @ \ {key}]
    <3>1. th' = [th EXCEPT ![t] = l] /\ l.req = th[t].req /\ l.pc = "load"
      BY <1>0, <2>2 DEF Locals
    <3> HIDE DEF l
    <3> QED BY <2>1, <3>1, StillAsked DEF Stutters
  <2>3. ASSUME NEW pc \in {"load", "exit"}, Goto(t, pc) PROVE A!Next \/ Stutters
    <3> DEFINE l == [th[t] EXCEPT !.pc = pc]
    <3>1. th' = [th EXCEPT ![t] = l] /\ l.req = th[t].req /\ l.pc = pc
      BY <1>0, <2>3 DEF Goto, Locals
    <3> HIDE DEF l
    <3>2. CASE pc = "load"
      BY <2>1, <3>1, <3>2, StillAsked DEF Stutters
    <3>3. CASE pc = "exit"
      BY <2>1, <3>1, <3>3, AtExit DEF A!Next
    <3> QED BY <3>2, <3>3
  <2> QED BY <1>5, <2>2, <2>3 DEF Batch
<1>6. CASE Stage(t)
  <2>1. PICK next \in Content : th' = [th EXCEPT ![t].pc = "replace", ![t].snap = next]
    BY <1>6, StagedType DEF Stage
  <2> DEFINE l == [th[t] EXCEPT !.pc = "replace", !.snap = next]
  <2>2. th' = [th EXCEPT ![t] = l] /\ l.req = th[t].req /\ l.pc = "replace"
    BY <1>0, <2>1 DEF Locals
  <2>3. th[t].pc = "decide" /\ store' = store
    BY <1>6 DEF Stage, At
  <2> HIDE DEF l
  <2> QED BY <2>2, <2>3, StillAsked DEF Stutters
<1>7. CASE Refuse(t)
  <2> DEFINE l == [th[t] EXCEPT !.pc = "exit"]
  <2>1. th' = [th EXCEPT ![t] = l] /\ l.req = th[t].req /\ l.pc = "exit"
    BY <1>0, <1>7 DEF Refuse, Goto, Locals
  <2>2. th[t].pc = "decide" /\ store' = store
    BY <1>7 DEF Refuse, At
  <2> HIDE DEF l
  <2> QED BY <2>1, <2>2, AtExit DEF A!Next
<1>8. CASE Replace(t)
  <2>1. th[t].pc = "replace" /\ th[t].req \in Asks
    BY <1>8, SameLock DEF Replace, At, Held, Inside
  <2>2. CASE store' = th[t].snap /\ Goto(t, "exit")
    <3> DEFINE l == [th[t] EXCEPT !.pc = "exit"]
    <3>1. th' = [th EXCEPT ![t] = l] /\ l.req = th[t].req /\ l.pc = "exit"
      BY <1>0, <2>2 DEF Goto, Locals
    <3> HIDE DEF l
    <3>2. AskedOf(l) = IF th[t].req.op = "import" THEN th[t].req ELSE NoRequest
      BY <3>1 DEF AskedOf
    <3>3. AskedOf(th[t]) = th[t].req /\ th[t].req # NoRequest
      BY <2>1, AsksAssumption, NoRequestAssumption DEF AskedOf
    <3>4. asked[t] = th[t].req /\ asked' = [asked EXCEPT ![t] = AskedOf(l)] /\ asked = [u \in Threads |-> asked[u]]
      BY <3>1, <3>3, AskedChange DEF asked
    <3>5. A!Served(asked[t], store, store')
      BY <2>1, <2>2, <3>4 DEF DataInv, Knows
    <3> HIDE DEF asked, Inv
    <3>6. asked' = IF asked[t].op = "import" THEN asked ELSE [asked EXCEPT ![t] = NoRequest]
      BY <3>2, <3>4
    <3> QED BY <3>3, <3>4, <3>5, <3>6 DEF A!Next, A!Serve
  <2>3. CASE th' = [th EXCEPT ![t].pc = "exit", ![t].todo = {}] /\ UNCHANGED store
    <3> DEFINE l == [th[t] EXCEPT !.pc = "exit", !.todo = {}]
    <3>1. th' = [th EXCEPT ![t] = l] /\ l.req = th[t].req /\ l.pc = "exit"
      BY <1>0, <2>3 DEF Locals
    <3>2. store' = store
      BY <2>3
    <3> HIDE DEF l
    <3>3. Stutters \/ A!Drop({t})
      BY <2>1, <3>1, <3>2, AtExit
    <3>4. {t} \in SUBSET Threads
      OBVIOUS
    <3> HIDE DEF Inv, Stutters
    <3> QED BY <3>3, <3>4 DEF A!Next
  <2> QED BY <1>8, <2>2, <2>3 DEF Replace
<1>9. CASE Exit(t)
  <2>1. th[t].pc = "exit" /\ store' = store
    BY <1>9 DEF Exit, At
  <2>2. ASSUME NEW pc \in {"batch", "exit", "unlock"}, Goto(t, pc),
               pc = "batch" => Op(t) = "import"
        PROVE  Stutters
    <3> DEFINE l == [th[t] EXCEPT !.pc = pc]
    <3>1. th' = [th EXCEPT ![t] = l] /\ l.req = th[t].req /\ l.pc = pc
      BY <1>0, <2>2 DEF Goto, Locals
    <3> HIDE DEF l
    <3>2. AskedOf(l) = AskedOf(th[t])
      BY <2>1, <2>2, <3>1 DEF AskedOf, Op
    <3> QED BY <2>1, <3>1, <3>2, AskedChange DEF Stutters
  <2> QED BY <1>9, <2>2 DEF Exit
<1>10. CASE Leave(t)
  <2>1. AskedOf(Idle) = NoRequest /\ th' = [th EXCEPT ![t] = Idle] /\ store' = store
    BY <1>10 DEF AskedOf, Idle, Leave
  <2> DEFINE l == Idle
  <2>2. th' = [th EXCEPT ![t] = l] /\ AskedOf(l) = NoRequest
    BY <2>1
  <2> HIDE DEF l
  <2>3. A!Drop({t})
    BY <2>1, <2>2, AskedChange
  <2>4. {t} \in SUBSET Threads
    OBVIOUS
  <2> QED BY <2>3, <2>4 DEF A!Next
<1> QED BY <1>1, <1>2, <1>3, <1>4, <1>5, <1>6, <1>7, <1>8, <1>9, <1>10 DEF Step

\* A server's death answers nothing, and changes nothing in the file.
LEMMA CrashMaps == ASSUME Inv, NEW p \in Procs, Crash(p) PROVE A!Next
<1> DEFINE S == {t \in Threads : ProcOf[t] = p}
<1>1. th' = [t \in Threads |-> IF t \in S THEN Idle ELSE th[t]] /\ store' = store
  BY DEF Crash, Mine
<1>2. asked = [t \in Threads |-> AskedOf(th[t])] /\ asked' = [t \in Threads |-> AskedOf(th'[t])]
  BY DEF asked, AskedOf
<1>3. AskedOf(Idle) = NoRequest
  BY DEF AskedOf, Idle
<1>4. asked' = [t \in Threads |-> IF t \in S THEN NoRequest ELSE asked[t]]
  <2>1. \A t \in Threads : th'[t] = IF t \in S THEN Idle ELSE th[t]
    BY <1>1
  <2> HIDE DEF asked, S
  <2> QED BY <2>1, <1>2, <1>3
<1>5. S \in SUBSET Threads
  OBVIOUS
<1> HIDE DEF asked, S
<1> QED BY <1>1, <1>4, <1>5 DEF A!Next, A!Drop

LEMMA StepMaps ==
    ASSUME CanLock, ~ReadMayFail
    PROVE  Inv /\ DataInv /\ [Next]_vars => [A!Next]_<<store, asked>>
<1> SUFFICES ASSUME Inv, DataInv, [Next]_vars PROVE A!Next \/ Stutters
  BY DEF Stutters
<1>1. CASE UNCHANGED vars
  BY <1>1 DEF vars, Stutters, asked
<1> QED BY <1>1, ThreadMaps, CrashMaps DEF Next

\* However transactions of many threads and servers interleave, time out, fail
\* half way or die, the file behaves as if each request had been applied to
\* it at one instant, once, or not at all.
THEOREM StoreIsAtomic ==
    ASSUME CanLock, ~ReadMayFail
    PROVE  Spec => AtomicSpec
<1>1. Init => A!Init
  BY DEF Init, Empty, Idle, asked, A!Init
<1>2. Init => Inv /\ DataInv
  BY InitInv, DataInit
<1>3. Inv /\ DataInv /\ [Next]_vars => Inv' /\ DataInv'
  BY InvStep, DataStep
<1> QED BY <1>1, <1>2, <1>3, StepMaps, PTL DEF Spec, AtomicSpec, A!Spec

-----------------------------------------------------------------------------
\* An import adds no key that a profile of the file has, whoever brought it
\* there and however imports race, fail or die.  (The two assumptions are those
\* of SavesKeepOthers; requests may carry any keys.)
THEOREM LegacyImportedOnce ==
    ASSUME CanLock, ~ReadMayFail
    PROVE  Spec => []ImportedOnce
<1>1. Inv /\ DataInv => ImportedOnce
  <2> SUFFICES ASSUME Inv, DataInv, NEW t \in Threads, At(t, "replace"), Op(t) = "import",
                      NEW k \in Ids, NEW key \in Legacy,
                      th[t].snap[k] # store[k], key \in A!Latest(th[t].snap, k)
               PROVE  A!NotImported(store, key)
    BY DEF ImportedOnce
  <2>1. A!Served(th[t].req, store, th[t].snap) /\ store \in Content
    BY SameLock DEF DataInv, Knows, At, Inside, Held
  <2>2. PICK j \in Ids, m \in th[t].req.body :
            A!NotImported(store, m) /\ A!Creates(store, th[t].snap, j, {m})
    BY <2>1 DEF A!Served, Op
  <2>3. th[t].snap[k] = <<{m}>>
    BY <2>1, <2>2 DEF A!Creates, Content
  <2>4. A!Latest(th[t].snap, k) = {m}
    BY <2>3 DEF A!Latest
  <2> QED BY <2>2, <2>4
<1>2. Init => Inv /\ DataInv
  BY InitInv, DataInit
<1>3. Inv /\ DataInv /\ [Next]_vars => Inv' /\ DataInv'
  BY InvStep, DataStep
<1> QED BY <1>1, <1>2, <1>3, PTL DEF Spec
=============================================================================
