---------------------------- MODULE FourDProofs ----------------------------
(* Theorems about UploadDirs and FourD, for any number of servers,          *)
(* directories, threads, datasets and images.                               *)
EXTENDS FourD, SequenceTheorems, TLAPS

\* Removing what is no directory of the temp folder changes nothing.
LEMMA GoneElsewhere == ASSUME DirTypeOK, NEW d, d \notin Dirs PROVE Gone(d) = dir
<1>1. dir \in [Dirs -> {"none", "bare", "file", "gone"}]
  BY DEF DirTypeOK
<1> QED BY <1>1 DEF Gone

---------------------------------------------------------------------------
\* The store moves the directories only the way UploadDirs allows.

LEMMA RequestDirs == ASSUME NEW t \in Threads, DirTypeOK, Request(t) PROVE [DirNext]_dirVars
<1>0. making \subseteq Dirs /\ owned \subseteq Dirs
  BY DEF DirTypeOK
<1>1. CASE UploadMake(t)
  BY <1>1 DEF UploadMake, DirNext
<1>2. CASE UploadOpen(t)
  BY <1>0, <1>2 DEF UploadOpen, OpenLock, DirNext
<1>3. CASE UploadLock(t)
  BY <1>0, <1>3 DEF UploadLock, TakeLock, DirNext
<1>4. CASE UploadLoad(t)
  <2>1. CASE UNCHANGED dirVars
    BY <2>1
  <2>2. CASE Unlock(th[t].d)
    BY <1>0, <2>2 DEF Unlock, DirNext
  <2> QED BY <1>4, <2>1, <2>2 DEF UploadLoad
<1>5. CASE ReleaseLock(t)
  BY <1>0, <1>5 DEF ReleaseLock, Unlock, DirNext
<1>6. CASE ReleaseDir(t)
  <2>1. CASE th[t].d \in Dirs
    BY <1>6, <2>1 DEF ReleaseDir, DirNext
  <2>2. CASE th[t].d \notin Dirs
    BY <1>6, <2>2, GoneElsewhere DEF ReleaseDir, RemoveDir, dirVars
  <2> QED BY <2>1, <2>2
<1>7. CASE UNCHANGED dirVars
  BY <1>7
<1>8. OpenPath(t) \/ UploadAdd(t) \/ Close(t) \/ CloseHandle(t) \/ Reshape(t) \/ ReshapeLoad(t)
      \/ ReshapeReplace(t) \/ ReshapeClose(t) \/ Nav(t) \/ NavLook(t) \/ NavCompute(t)
      \/ NavRegister(t) \/ NavAssociate(t) => UNCHANGED dirVars
  BY DEF OpenPath, UploadAdd, Close, CloseHandle, Reshape, ReshapeLoad, ReshapeReplace,
         ReshapeClose, Nav, NavLook, NavCompute, NavRegister, NavAssociate
<1> QED BY <1>1, <1>2, <1>3, <1>4, <1>5, <1>6, <1>7, <1>8 DEF Request

LEMMA StepDirs == ASSUME DirTypeOK, [Next]_vars PROVE [DirNext]_dirVars
<1>0. owned \subseteq Dirs
  BY DEF DirTypeOK
<1>1. ASSUME NEW t \in Threads, Request(t) PROVE [DirNext]_dirVars
  BY <1>1, RequestDirs
<1>2. CASE CloseImage
  BY <1>2 DEF CloseImage
<1>3. CASE Stop
  BY <1>3 DEF Stop, DirNext
<1>4. ASSUME NEW i \in Ids, StopClose(i) PROVE [DirNext]_dirVars
  BY <1>0, <1>4 DEF StopClose, Release, DirNext
<1>5. CASE Stopped \/ Crash
  BY <1>5 DEF Stopped, Crash, DirNext
<1>6. ASSUME NEW p \in Procs, Sweep(p) PROVE [DirNext]_dirVars
  BY <1>6 DEF DirNext
<1>7. ASSUME NEW d \in Dirs, Age(d) PROVE [DirNext]_dirVars
  BY <1>7 DEF DirNext
<1>8. CASE UNCHANGED vars
  BY <1>8 DEF vars
<1> QED BY <1>1, <1>2, <1>3, <1>4, <1>5, <1>6, <1>7, <1>8 DEF Next

---------------------------------------------------------------------------
\* The inductive invariant of the directories.

\* A directory that was ever made, a lock on a file that was created, and a
\* constructor that is over once its lock is held.
Made ==
    /\ \A d \in making : d \notin owned /\ (OnDisk(d) \/ (dir[d] = "gone" /\ d \in raced))
    /\ \A d \in owned : dir[d] \in {"file", "gone"}

\* A sweep that has judged a directory did so before its lock, or it will
\* never be locked.
Judged ==
    /\ \A p \in Procs : sweep[p].at = "look" <=> sweep[p].d = NoDir
    /\ \A p \in Procs, d \in Dirs : sweep[p].d = d =>
          dir[d] # "none" /\ (d \in raced \/ d \notin making \cup owned)

\* Once the server is gone nothing of it is made or locked, and a sweep that
\* began then has every lock file in sight.
Reclaims(p) ==
    \A d \in Dirs :
        \/ dir[d] # "file"
        \/ proc[p] = "sweeping" /\ d \in sweep[p].todo
        \/ \E q \in Procs : sweep[q].d = d
After ==
    /\ proc[Server] = "ended" => making = {} /\ owned = {}
    /\ \A p \in Procs : sweep[p].after =>
          proc[Server] = "ended" /\ proc[p] \in {"sweeping", "up", "ended"} /\ Reclaims(p)

DirInv == DirTypeOK /\ OwnedStays /\ Made /\ Judged /\ After

LEMMA InitDirInv == DirInit => DirInv
<1> SUFFICES ASSUME DirInit PROVE DirInv
  OBVIOUS
<1>1. DirTypeOK
  BY DEF DirInit, DirTypeOK, NoSweep
<1>2. OwnedStays /\ Made
  BY DEF DirInit, OwnedStays, Made
<1>3. Judged
  BY NoDirAssumption DEF DirInit, Judged, NoSweep
<1>4. After
  BY ServerAssumption DEF DirInit, After, NoSweep
<1> QED BY <1>1, <1>2, <1>3, <1>4 DEF DirInv

\* Making, locking and releasing a directory.
LEMMA OwnerKeepsDirInv ==
  ASSUME DirInv, NEW d \in Dirs,
         MakeDir(d) \/ OpenLock(d) \/ TakeLock(d) \/ Unlock(d) \/ RemoveDir(d) \/ Release(d) \/ Age(d)
  PROVE  DirInv'
<1> USE DEF Gone, OnDisk
<1>1. DirTypeOK'
  BY DEF DirInv, DirTypeOK, MakeDir, OpenLock, TakeLock, Unlock, RemoveDir, Release, Age
<1>2. OwnedStays' /\ Made'
  BY DEF DirInv, DirTypeOK, OwnedStays, Made,
         MakeDir, OpenLock, TakeLock, Unlock, RemoveDir, Release, Age
<1>3. Judged'
  BY DEF DirInv, DirTypeOK, Judged, Made, MakeDir, OpenLock, TakeLock, Unlock, RemoveDir, Release, Age
<1>4. After'
  BY DEF DirInv, DirTypeOK, After, Reclaims, MakeDir, OpenLock, TakeLock, Unlock, RemoveDir, Release, Age
<1> QED BY <1>1, <1>2, <1>3, <1>4 DEF DirInv

LEMMA LookKeepsDirInv == ASSUME DirInv, NEW p \in Procs, SweepLook(p) PROVE DirInv'
<1>1. PICK d \in sweep[p].todo :
        /\ sweep' = [sweep EXCEPT ![p].todo = @ \ {d},
                 ![p].at = IF ~Abandoned(d) THEN "look" ELSE IF dir[d] = "file" THEN "held" ELSE "remove",
                 ![p].d = IF Abandoned(d) THEN d ELSE NoDir]
        /\ raced' = IF Abandoned(d) /\ d \in making THEN raced \cup {d} ELSE raced
  BY DEF SweepLook
<1>2. d \in Dirs /\ d # NoDir
  BY <1>1, NoDirAssumption DEF DirInv, DirTypeOK
<1>3. sweep[p].at = "look" /\ sweep[p].d = NoDir
  BY DEF SweepLook, DirInv, Judged
<1>4. UNCHANGED <<proc, dir, making, owned, old>> /\ raced \subseteq raced'
  BY <1>1 DEF SweepLook
<1>5. /\ sweep'[p].todo = sweep[p].todo \ {d}
      /\ Abandoned(d) => sweep'[p].d = d /\ sweep'[p].at \in {"held", "remove"}
      /\ ~Abandoned(d) => sweep'[p].d = NoDir /\ sweep'[p].at = "look"
      /\ sweep'[p].after = sweep[p].after
      /\ \A q \in Procs : q # p => sweep'[q] = sweep[q]
  BY <1>1 DEF DirInv, DirTypeOK
<1>6. DirTypeOK'
  <2>1. raced' \subseteq Dirs
    BY <1>1, <1>2 DEF DirInv, DirTypeOK
  <2> DEFINE at == IF ~Abandoned(d) THEN "look" ELSE IF dir[d] = "file" THEN "held" ELSE "remove"
             of == IF Abandoned(d) THEN d ELSE NoDir
  <2>2. at \in {"look", "held", "remove"} /\ of \in Dirs \cup {NoDir}
    BY <1>2
  <2>3. sweep' = [sweep EXCEPT ![p].todo = @ \ {d}, ![p].at = at, ![p].d = of]
    BY <1>1
  <2> HIDE DEF at, of
  <2>4. sweep' \in [Procs -> [at : {"look", "held", "remove"}, d : Dirs \cup {NoDir},
                              todo : SUBSET Dirs, after : BOOLEAN]]
    <3>1. sweep[p] \in [at : {"look", "held", "remove"}, d : Dirs \cup {NoDir},
                        todo : SUBSET Dirs, after : BOOLEAN]
      BY DEF DirInv, DirTypeOK
    <3>2. [sweep[p] EXCEPT !.todo = @ \ {d}, !.at = at, !.d = of]
             \in [at : {"look", "held", "remove"}, d : Dirs \cup {NoDir}, todo : SUBSET Dirs, after : BOOLEAN]
      BY <2>2, <3>1
    <3> QED BY <2>3, <3>2 DEF DirInv, DirTypeOK
  <2> QED BY <1>4, <2>1, <2>4 DEF DirInv, DirTypeOK
<1>7. OwnedStays' /\ Made'
  BY <1>4 DEF DirInv, DirTypeOK, OwnedStays, Made, OnDisk
<1>8. Judged'
  <2>1. Abandoned(d) => dir[d] # "none" /\ d \notin owned /\ (d \in making => d \in raced')
    BY <1>1 DEF Abandoned, Locked, DirInv, Made
  <2>2. \A q \in Procs : sweep'[q].at = "look" <=> sweep'[q].d = NoDir
    BY <1>2, <1>5 DEF DirInv, Judged
  <2>3. ASSUME NEW q \in Procs, NEW e \in Dirs, sweep'[q].d = e
        PROVE  dir[e] # "none" /\ (e \in raced' \/ e \notin making \cup owned)
    <3>1. CASE q = p
      <4>1. Abandoned(d) /\ e = d
        BY <1>5, <2>3, <3>1, NoDirAssumption
      <4> QED BY <2>1, <4>1
    <3>2. CASE q # p
      BY <1>4, <1>5, <2>3, <3>2 DEF DirInv, Judged
    <3> QED BY <3>1, <3>2
  <2> QED BY <1>4, <2>2, <2>3 DEF Judged
<1>9. After'
  <2>1. ASSUME NEW r \in Procs, sweep[r].after PROVE Reclaims(r)'
    <3>1. SUFFICES ASSUME NEW e \in Dirs, dir[e] = "file",
                          ~(proc[r] = "sweeping" /\ e \in sweep'[r].todo)
                   PROVE \E q \in Procs : sweep'[q].d = e
      BY <1>4 DEF Reclaims
    <3>2. Reclaims(r) /\ owned = {}
      BY <2>1 DEF DirInv, After
    <3>3. CASE \E q \in Procs : sweep[q].d = e
      BY <1>3, <1>5, <3>3, NoDirAssumption
    <3>4. CASE proc[r] = "sweeping" /\ e \in sweep[r].todo
      <4>1. r = p /\ e = d
        BY <1>5, <3>1, <3>4
      <4>2. CASE Abandoned(d)
        BY <1>5, <4>1, <4>2
      <4>3. CASE ~Abandoned(d)
        <5>1. Locked(d)
          BY <3>1, <4>1, <4>3 DEF Abandoned
        <5>2. PICK q \in Procs : sweep[q].at = "held" /\ sweep[q].d = d
          BY <3>2, <5>1 DEF Locked
        <5> QED BY <1>3, <1>5, <4>1, <5>2
      <4> QED BY <4>2, <4>3
    <3> QED BY <3>1, <3>2, <3>3, <3>4 DEF Reclaims
  <2> QED BY <1>4, <1>5, <2>1 DEF DirInv, After
<1> QED BY <1>6, <1>7, <1>8, <1>9 DEF DirInv

LEMMA RemoveKeepsDirInv == ASSUME DirInv, NEW p \in Procs, SweepRemove(p) PROVE DirInv'
<1>1. PICK d \in Dirs : sweep[p].d = d
  BY DEF SweepRemove, DirInv, DirTypeOK, Judged
<1>2. /\ dir' = Gone(d) /\ UNCHANGED <<proc, making, owned, old, raced>>
      /\ sweep' = [sweep EXCEPT ![p].at = "look", ![p].d = NoDir]
  BY <1>1 DEF SweepRemove
<1>3. /\ sweep'[p].d = NoDir /\ sweep'[p].at = "look"
      /\ \A q \in Procs : sweep'[q].todo = sweep[q].todo /\ sweep'[q].after = sweep[q].after
      /\ \A q \in Procs : q # p => sweep'[q] = sweep[q]
  BY <1>2 DEF DirInv, DirTypeOK
<1>4. \A e \in Dirs : dir'[e] = IF e = d /\ OnDisk(d) THEN "gone" ELSE dir[e]
  BY <1>2 DEF Gone, DirInv, DirTypeOK
<1>5. DirTypeOK'
  <2> DEFINE R == [at : {"look", "held", "remove"}, d : Dirs \cup {NoDir},
                   todo : SUBSET Dirs, after : BOOLEAN]
             new == [sweep[p] EXCEPT !.at = "look", !.d = NoDir]
  <2>1. sweep \in [Procs -> R] /\ sweep[p] \in R
    BY DEF DirInv, DirTypeOK
  <2>2. new \in R /\ sweep' = [sweep EXCEPT ![p] = new]
    BY <1>2, <2>1
  <2>3. dir' \in [Dirs -> {"none", "bare", "file", "gone"}]
    BY <1>2 DEF DirInv, DirTypeOK, Gone
  <2> HIDE DEF R, new
  <2>4. sweep' \in [Procs -> R]
    BY <2>1, <2>2
  <2> QED BY <1>2, <2>3, <2>4 DEF DirInv, DirTypeOK, R
<1>6. d \in raced \/ d \notin making \cup owned
  BY <1>1 DEF DirInv, Judged
<1>7. OwnedStays' /\ Made'
  BY <1>2, <1>4, <1>6 DEF DirInv, DirTypeOK, OwnedStays, Made, OnDisk
<1>8. Judged'
  <2>1. \A q \in Procs : sweep'[q].at = "look" <=> sweep'[q].d = NoDir
    BY <1>3 DEF DirInv, Judged
  <2>2. ASSUME NEW q \in Procs, NEW e \in Dirs, sweep'[q].d = e
        PROVE  dir'[e] # "none" /\ (e \in raced \/ e \notin making \cup owned)
    <3>1. q # p /\ sweep[q].d = e
      BY <1>3, <2>2, NoDirAssumption
    <3> QED BY <1>4, <3>1 DEF DirInv, Judged
  <2> QED BY <1>2, <2>1, <2>2 DEF Judged
<1>9. After'
  <2>1. ASSUME NEW r \in Procs, Reclaims(r) PROVE Reclaims(r)'
    <3>1. SUFFICES ASSUME NEW e \in Dirs, dir'[e] = "file",
                          ~(proc[r] = "sweeping" /\ e \in sweep[r].todo)
                   PROVE \E q \in Procs : sweep'[q].d = e
      BY <1>2, <1>3 DEF Reclaims
    <3>2. dir[e] = "file" /\ e # d
      BY <1>4, <3>1 DEF OnDisk
    <3>3. PICK q \in Procs : sweep[q].d = e
      BY <2>1, <3>1, <3>2 DEF Reclaims
    <3> QED BY <1>1, <1>3, <3>2, <3>3
  <2> QED BY <1>2, <1>3, <2>1 DEF DirInv, After
<1> QED BY <1>5, <1>7, <1>8, <1>9 DEF DirInv

\* The steps of a sweep that leave the disk alone.
LEMMA SweepKeepsDirInv ==
  ASSUME DirInv, NEW p \in Procs, StartSweep(p) \/ SweepLetGo(p) \/ SweepDone(p) PROVE DirInv'
<1>1. CASE StartSweep(p)
  <2> DEFINE gone == proc[Server] = "ended"
  <2>0. sweep' = [sweep EXCEPT ![p].todo = {d \in Dirs : OnDisk(d)}, ![p].after = gone] /\ gone \in BOOLEAN
    BY <1>1 DEF StartSweep
  <2>1. /\ UNCHANGED <<dir, making, owned, old, raced>>
        /\ proc' = [proc EXCEPT ![p] = "sweeping"] /\ proc[p] = "new"
        /\ sweep'[p].todo = {d \in Dirs : OnDisk(d)}
        /\ sweep'[p].after = gone
        /\ \A q \in Procs : sweep'[q].at = sweep[q].at /\ sweep'[q].d = sweep[q].d
        /\ \A q \in Procs : q # p => sweep'[q] = sweep[q]
    <3> HIDE DEF gone
    <3> QED BY <1>1, <2>0 DEF StartSweep, DirInv, DirTypeOK
  <2>2. DirTypeOK'
    <3> HIDE DEF gone
    <3>1. proc' \in [Procs -> {"new", "sweeping", "up", "stopping", "ended"}]
      BY <1>1 DEF StartSweep, DirInv, DirTypeOK
    <3>2. sweep' \in [Procs -> [at : {"look", "held", "remove"}, d : Dirs \cup {NoDir},
                                todo : SUBSET Dirs, after : BOOLEAN]]
      <4> DEFINE R == [at : {"look", "held", "remove"}, d : Dirs \cup {NoDir},
                       todo : SUBSET Dirs, after : BOOLEAN]
                 seen == {d \in Dirs : OnDisk(d)}
                 new == [sweep[p] EXCEPT !.todo = seen, !.after = gone]
      <4>1. sweep \in [Procs -> R] /\ sweep[p] \in R
        BY DEF DirInv, DirTypeOK
      <4>2. seen \in SUBSET Dirs /\ gone \in BOOLEAN
        BY <2>0
      <4> HIDE DEF seen
      <4>3. new \in R
        BY <4>1, <4>2
      <4>4. sweep' = [sweep EXCEPT ![p] = new]
        BY <2>0, <4>1 DEF seen
      <4> HIDE DEF R, new
      <4>5. sweep' \in [Procs -> R]
        BY <4>1, <4>3, <4>4
      <4> QED BY <4>5 DEF R
    <3> QED BY <2>1, <3>1, <3>2 DEF DirInv, DirTypeOK
  <2>3. OwnedStays' /\ Made' /\ Judged'
    BY <2>1 DEF DirInv, OwnedStays, Made, Judged, OnDisk
  <2>4. After'
    <3>1. proc'[Server] = "ended" <=> proc[Server] = "ended"
      BY <2>1, ServerAssumption DEF DirInv, DirTypeOK
    <3>2. ASSUME NEW r \in Procs, r # p, Reclaims(r) PROVE Reclaims(r)'
      <4>1. proc'[r] = proc[r] /\ sweep'[r].todo = sweep[r].todo
        BY <2>1, <3>2 DEF DirInv, DirTypeOK
      <4>2. \A q \in Procs : sweep'[q].d = sweep[q].d
        BY <2>1
      <4> QED BY <2>1, <3>2, <4>1, <4>2 DEF Reclaims
    <3>3. Reclaims(p)'
      BY <2>1 DEF Reclaims, DirInv, DirTypeOK, OnDisk
    <3>4. \A r \in Procs : r # p => proc'[r] = proc[r]
      BY <2>1 DEF DirInv, DirTypeOK
    <3>5. proc'[p] = "sweeping"
      BY <2>1 DEF DirInv, DirTypeOK
    <3> QED BY <2>1, <3>1, <3>2, <3>3, <3>4, <3>5 DEF DirInv, After
  <2> QED BY <2>2, <2>3, <2>4 DEF DirInv
<1>2. CASE SweepLetGo(p)
  <2>1. /\ UNCHANGED <<proc, dir, making, owned, old, raced>>
        /\ sweep[p].at = "held" /\ sweep'[p].at = "remove"
        /\ \A q \in Procs : sweep'[q].d = sweep[q].d /\ sweep'[q].todo = sweep[q].todo
                            /\ sweep'[q].after = sweep[q].after
        /\ \A q \in Procs : q # p => sweep'[q] = sweep[q]
    BY <1>2 DEF SweepLetGo, DirInv, DirTypeOK
  <2>2. DirTypeOK'
    <3> DEFINE R == [at : {"look", "held", "remove"}, d : Dirs \cup {NoDir},
                     todo : SUBSET Dirs, after : BOOLEAN]
               new == [sweep[p] EXCEPT !.at = "remove"]
    <3>1. sweep \in [Procs -> R] /\ sweep[p] \in R
      BY DEF DirInv, DirTypeOK
    <3>2. new \in R /\ sweep' = [sweep EXCEPT ![p] = new]
      BY <1>2, <3>1 DEF SweepLetGo
    <3> HIDE DEF R, new
    <3>3. sweep' \in [Procs -> R]
      BY <3>1, <3>2
    <3> QED BY <2>1, <3>3 DEF DirInv, DirTypeOK, R
  <2>3. OwnedStays' /\ Made' /\ Judged'
    BY <2>1 DEF DirInv, OwnedStays, Made, Judged, OnDisk
  <2>4. After'
    BY <2>1 DEF DirInv, After, Reclaims
  <2> QED BY <2>2, <2>3, <2>4 DEF DirInv
<1>3. CASE SweepDone(p)
  <2>1. /\ UNCHANGED <<dir, making, owned, old, sweep, raced>> /\ sweep[p].todo = {}
        /\ proc' = [proc EXCEPT ![p] = "up"] /\ proc[p] = "sweeping"
    BY <1>3 DEF SweepDone
  <2>2. DirTypeOK'
    BY <2>1 DEF DirInv, DirTypeOK
  <2>3. OwnedStays' /\ Made' /\ Judged'
    BY <2>1 DEF DirInv, OwnedStays, Made, Judged, OnDisk
  <2>4. After'
    <3>1. proc'[Server] = "ended" <=> proc[Server] = "ended"
      BY <2>1, ServerAssumption DEF DirInv, DirTypeOK
    <3>2. /\ proc'[p] = "up"
          /\ \A r \in Procs : r # p => proc'[r] = proc[r]
      BY <2>1 DEF DirInv, DirTypeOK
    <3>3. ASSUME NEW r \in Procs, Reclaims(r) PROVE Reclaims(r)'
      BY <2>1, <3>2, <3>3 DEF Reclaims
    <3> QED BY <2>1, <3>1, <3>2, <3>3 DEF DirInv, After
  <2> QED BY <2>2, <2>3, <2>4 DEF DirInv
<1> QED BY <1>1, <1>2, <1>3

LEMMA EndKeepsDirInv == ASSUME DirInv, Stopping \/ Exit PROVE DirInv'
<1>1. proc[Server] # "ended"
  BY DEF Stopping, Exit
<1>2. UNCHANGED <<dir, old, sweep, raced>> /\ owned' \subseteq owned /\ making' \subseteq making
  BY DEF Stopping, Exit
<1>3. \A p \in Procs : ~sweep'[p].after
  BY <1>1, <1>2 DEF DirInv, After, DirTypeOK
<1>4. DirTypeOK'
  BY ServerAssumption DEF Stopping, Exit, DirInv, DirTypeOK
<1>5. OwnedStays' /\ Made' /\ Judged'
  BY <1>2 DEF DirInv, OwnedStays, Made, Judged, OnDisk
<1>6. After'
  <2>1. proc'[Server] = "ended" => making' = {} /\ owned' = {}
    BY ServerAssumption DEF Stopping, Exit, DirInv, DirTypeOK
  <2> QED BY <1>3, <2>1 DEF After
<1> QED BY <1>4, <1>5, <1>6 DEF DirInv

LEMMA NextDirInv == DirInv /\ [DirNext]_dirVars => DirInv'
<1> SUFFICES ASSUME DirInv, [DirNext]_dirVars PROVE DirInv'
  OBVIOUS
<1>1. ASSUME NEW d \in Dirs,
             MakeDir(d) \/ OpenLock(d) \/ TakeLock(d) \/ Unlock(d) \/ RemoveDir(d) \/ Release(d) \/ Age(d)
      PROVE DirInv'
  BY <1>1, OwnerKeepsDirInv
<1>2. CASE Stopping \/ Exit
  BY <1>2, EndKeepsDirInv
<1>3. ASSUME NEW p \in Procs, Sweep(p) PROVE DirInv'
  BY <1>3, SweepKeepsDirInv, LookKeepsDirInv, RemoveKeepsDirInv DEF Sweep
<1>4. CASE UNCHANGED dirVars
  BY <1>4 DEF dirVars, DirInv, DirTypeOK, OwnedStays, Made, Judged, After, Reclaims, OnDisk
<1> QED BY <1>1, <1>2, <1>3, <1>4 DEF DirNext

---------------------------------------------------------------------------

\* Whatever servers make, lock and sweep upload directories, the model of the
\* directories stays within its types (session_fourd.py, UploadDir and the sweep).
THEOREM DirectoriesTyped == DirSpec => []DirTypeOK
<1>1. DirInv => DirTypeOK
  BY DEF DirInv
<1> QED BY <1>1, InitDirInv, NextDirInv, PTL DEF DirSpec

\* The requests of the 4D store, in any interleaving with a crash or a stop,
\* treat the upload directories only as UploadDir and the sweep do.
THEOREM StoreKeepsDirectories == Spec => DirSpec
<1>1. Init => DirInit
  BY DEF Init
<1>2. DirInv /\ [Next]_vars => DirInv' /\ [DirNext]_dirVars
  BY StepDirs, NextDirInv DEF DirInv
<1> QED BY <1>1, <1>2, InitDirInv, PTL DEF Spec, DirSpec

\* An upload directory the server holds locked is on the disk, for any number
\* of servers that sweep, unless it was judged before its lock was taken.
THEOREM LockedDirectoryStays == Spec => []OwnedStays
<1>1. DirInv => OwnedStays
  BY DEF DirInv
<1>2. DirSpec => []OwnedStays
  BY <1>1, InitDirInv, NextDirInv, PTL DEF DirSpec
<1> QED BY <1>2, StoreKeepsDirectories, PTL

\* What a crashed or stopped server leaves behind, each later start deletes:
\* no lock file of it outlasts a sweep that began after it was gone.
THEOREM CrashLeftoversReclaimed == Spec => []SweepReclaims
<1>1. DirInv => SweepReclaims
  BY DEF DirInv, DirTypeOK, After, Reclaims, SweepReclaims, OnDisk
<1>2. DirSpec => []SweepReclaims
  BY <1>1, InitDirInv, NextDirInv, PTL DEF DirSpec
<1> QED BY <1>2, StoreKeepsDirectories, PTL

---------------------------------------------------------------------------
\* The handles, copies and navigation images of the datasets.

Opens(h) == h \in Handles /\ ~handle[h].closed

\* The handle a request will list or close, and the copy whose lock it will
\* list or let go; 0 and NoDir if there is none.
HeldHandle(t) == IF th[t].pc \in {"add", "replace", "swapped", "close"} THEN th[t].h ELSE 0
HeldDir(t) == IF th[t].pc \in {"load", "add", "unlock", "close"} THEN th[t].d ELSE NoDir

\* An open handle has one dataset or one request it belongs to, and those have
\* no other handles.
Handled ==
    /\ \A h \in Handles : Opens(h) =>
          (\E i \in Ids : data[i].h = h) \/ (\E t \in Threads : HeldHandle(t) = h)
    /\ \A i \in Ids : data[i].h # 0 =>
          /\ Opens(data[i].h)
          /\ \A j \in Ids : j # i => data[j].h # data[i].h
          /\ \A t \in Threads : HeldHandle(t) # data[i].h
    /\ \A t \in Threads : HeldHandle(t) # 0 =>
          /\ Opens(HeldHandle(t))
          /\ \A u \in Threads : u # t => HeldHandle(u) # HeldHandle(t)

\* The same of the locked directories.
Copied ==
    /\ \A d \in owned : (\E i \in Ids : data[i].dir = d) \/ (\E t \in Threads : HeldDir(t) = d)
    /\ \A i \in Ids : data[i].dir # NoDir =>
          /\ data[i].dir \in owned /\ data[i].h # 0
          /\ \A j \in Ids : j # i => data[j].dir # data[i].dir
          /\ \A t \in Threads : HeldDir(t) # data[i].dir
    /\ \A t \in Threads : HeldDir(t) # NoDir =>
          /\ HeldDir(t) \in owned
          /\ \A u \in Threads : u # t => HeldDir(u) # HeldDir(t)

\* Requests run while the server is up.
Served == proc[Server] # "up" => \A t \in Threads : th[t] = Idle

\* A request is about an id that was given and a handle that was made, and an
\* image in its hands is the one computed from that handle.
Works(t) ==
    /\ th[t].pc \in {"replace", "look", "compute", "register", "associate"} => th[t].id \in Ids
    /\ th[t].pc \in {"look", "compute", "register", "associate"} => th[t].h \in Handles
    /\ th[t].pc \in {"add", "swapped", "close"} => th[t].h # 0
    /\ th[t].pc = "associate" => th[t].img \in Images /\ image[th[t].img].h = th[t].h
Working == \A t \in Threads : Works(t)

Navigated ==
    /\ \A i \in Ids : data[i].nav # 0 => data[i].nav \in Images
    /\ late \subseteq Images
    /\ NavDescribesRaster

StoreInv == TypeOK /\ Handled /\ Copied /\ Served /\ Working /\ Navigated

---------------------------------------------------------------------------
\* A handle has one owner: it is made, changes hands, or is closed.

LEMMA HandledSame ==
    ASSUME Handled, Ids' = Ids, \A h : Opens(h)' <=> Opens(h),
           \A i \in Ids : data'[i].h = data[i].h, \A t \in Threads : HeldHandle(t)' = HeldHandle(t)
    PROVE  Handled'
BY DEF Handled, Opens

LEMMA HandledListedNew ==
    ASSUME Handled, NEW h, h # 0, ~Opens(h), \A k : Opens(k)' <=> Opens(k) \/ k = h,
           NEW i, i \notin Ids, Ids' = Ids \cup {i}, data'[i].h = h,
           \A j \in Ids : data'[j].h = data[j].h, \A t \in Threads : HeldHandle(t)' = HeldHandle(t)
    PROVE  Handled'
BY DEF Handled, Opens

LEMMA HandledMadeNew ==
    ASSUME Handled, NEW h, h # 0, ~Opens(h), \A k : Opens(k)' <=> Opens(k) \/ k = h,
           Ids' = Ids, \A i \in Ids : data'[i].h = data[i].h,
           NEW t \in Threads, HeldHandle(t) = 0, HeldHandle(t)' = h,
           \A u \in Threads : u # t => HeldHandle(u)' = HeldHandle(u)
    PROVE  Handled'
<1>1. /\ \A i \in Ids : data[i].h # h
      /\ \A u \in Threads : HeldHandle(u) # h
  BY DEF Handled
<1>2. ASSUME NEW k, Opens(k)'
      PROVE  (\E i \in Ids : data'[i].h = k) \/ (\E u \in Threads : HeldHandle(u)' = k)
  <2>1. CASE k = h
    BY <2>1
  <2>2. CASE Opens(k)
    <3>1. (\E i \in Ids : data[i].h = k) \/ (\E u \in Threads : HeldHandle(u) = k)
      BY <2>2 DEF Handled, Opens
    <3>2. Opens(k) => k # 0
      BY DEF Opens, Handles
    <3> QED BY <2>2, <3>1, <3>2
  <2> QED BY <1>2, <2>1, <2>2
<1>3. ASSUME NEW i \in Ids, NEW k, k = data'[i].h, k # 0
      PROVE  /\ Opens(k)'
             /\ \A j \in Ids : j # i => data'[j].h # k
             /\ \A u \in Threads : HeldHandle(u)' # k
  BY <1>1, <1>3 DEF Handled
<1>4. ASSUME NEW u \in Threads, NEW k, k = HeldHandle(u)', k # 0
      PROVE  Opens(k)' /\ \A v \in Threads : v # u => HeldHandle(v)' # k
  BY <1>1, <1>4 DEF Handled
<1> QED BY <1>2, <1>3, <1>4 DEF Handled, Opens

LEMMA HandledListed ==
    ASSUME Handled, \A k : Opens(k)' <=> Opens(k), NEW t \in Threads, HeldHandle(t) # 0, HeldHandle(t)' = 0,
           \A u \in Threads : u # t => HeldHandle(u)' = HeldHandle(u),
           NEW i, i \notin Ids, Ids' = Ids \cup {i}, data'[i].h = HeldHandle(t),
           \A j \in Ids : data'[j].h = data[j].h
    PROVE  Handled'
BY DEF Handled, Opens

LEMMA HandledSwapped ==
    ASSUME Handled, \A k : Opens(k)' <=> Opens(k), NEW t \in Threads, NEW i \in Ids,
           data[i].h # 0, Ids' = Ids, HeldHandle(t)' = data[i].h, data'[i].h = HeldHandle(t),
           \A u \in Threads : u # t => HeldHandle(u)' = HeldHandle(u),
           \A j \in Ids : j # i => data'[j].h = data[j].h
    PROVE  Handled'
<1>1. /\ \A j \in Ids : j # i => data'[j].h # data'[i].h \/ data'[j].h = 0
      /\ \A u \in Threads : u # t => HeldHandle(u)' # HeldHandle(t)' /\ (HeldHandle(u)' # 0 => HeldHandle(u)' # data'[i].h)
  BY DEF Handled
<1>2. \A k : Opens(k)' => (\E j \in Ids : data'[j].h = k) \/ (\E u \in Threads : HeldHandle(u)' = k)
  <2>1. ASSUME NEW k, Opens(k) PROVE (\E j \in Ids : data'[j].h = k) \/ (\E u \in Threads : HeldHandle(u)' = k)
    <3>1. CASE \E j \in Ids : data[j].h = k
      BY <3>1
    <3>2. CASE \E u \in Threads : HeldHandle(u) = k
      BY <3>2
    <3> QED BY <2>1, <3>1, <3>2 DEF Handled, Opens
  <2> QED BY <2>1
<1>3. ASSUME NEW j \in Ids, NEW k, k = data'[j].h, k # 0
      PROVE  /\ Opens(k)'
             /\ \A l \in Ids : l # j => data'[l].h # k
             /\ \A u \in Threads : HeldHandle(u)' # k
  <2>1. CASE j = i
    <3>1. k = HeldHandle(t)
      BY <1>3, <2>1
    <3> QED BY <1>1, <1>3, <2>1, <3>1 DEF Handled
  <2>2. CASE j # i
    <3>1. k = data[j].h
      BY <1>3, <2>2
    <3> QED BY <1>1, <1>3, <2>2, <3>1 DEF Handled
  <2> QED BY <2>1, <2>2
<1>4. ASSUME NEW u \in Threads, NEW k, k = HeldHandle(u)', k # 0
      PROVE  Opens(k)' /\ \A v \in Threads : v # u => HeldHandle(v)' # k
  BY <1>1, <1>4 DEF Handled
<1> QED BY <1>2, <1>3, <1>4 DEF Handled, Opens

LEMMA HandledLetGo ==
    ASSUME Handled, Ids' = Ids, NEW t \in Threads, HeldHandle(t) # 0, HeldHandle(t)' = 0,
           \A k : Opens(k)' <=> Opens(k) /\ k # HeldHandle(t),
           \A i \in Ids : data'[i].h = data[i].h,
           \A u \in Threads : u # t => HeldHandle(u)' = HeldHandle(u)
    PROVE  Handled'
BY DEF Handled, Opens

LEMMA HandledDropped ==
    ASSUME Handled, Ids' = Ids, NEW i \in Ids, data[i].h # 0, data'[i].h = 0,
           \A k : Opens(k)' <=> Opens(k) /\ k # data[i].h,
           \A j \in Ids : j # i => data'[j].h = data[j].h,
           \A t \in Threads : HeldHandle(t)' = HeldHandle(t)
    PROVE  Handled'
BY DEF Handled, Opens

LEMMA HandledNone ==
    ASSUME \A h : ~Opens(h)', \A i \in Ids' : data'[i].h = 0, \A t \in Threads : HeldHandle(t)' = 0
    PROVE  Handled'
BY DEF Handled

---------------------------------------------------------------------------
\* A locked directory has one owner.

LEMMA CopiedSame ==
    ASSUME Copied, owned' = owned, Ids' = Ids,
           \A i \in Ids : data'[i].dir = data[i].dir /\ (data[i].h # 0 => data'[i].h # 0),
           \A t \in Threads : HeldDir(t)' = HeldDir(t)
    PROVE  Copied'
BY DEF Copied

LEMMA CopiedListedNew ==
    ASSUME Copied, owned' = owned, NEW i, i \notin Ids, Ids' = Ids \cup {i}, data'[i].dir = NoDir,
           \A j \in Ids : data'[j] = data[j],
           \A t \in Threads : HeldDir(t)' = HeldDir(t), NoDir \notin owned
    PROVE  Copied'
BY DEF Copied

LEMMA CopiedLocked ==
    ASSUME Copied, NoDir \notin owned, NEW d, d \notin owned, d # NoDir, owned' = owned \cup {d}, Ids' = Ids, data' = data,
           NEW t \in Threads, HeldDir(t) = NoDir, HeldDir(t)' = d,
           \A u \in Threads : u # t => HeldDir(u)' = HeldDir(u)
    PROVE  Copied'
<1>1. /\ \A i \in Ids : data[i].dir # d
      /\ \A u \in Threads : HeldDir(u) # d
  BY DEF Copied
<1>2. ASSUME NEW e \in owned' PROVE (\E i \in Ids : data[i].dir = e) \/ (\E u \in Threads : HeldDir(u)' = e)
  <2>1. CASE e = d
    BY <2>1
  <2>2. CASE e \in owned /\ (\E i \in Ids : data[i].dir = e)
    BY <2>2
  <2>3. CASE e \in owned /\ (\E u \in Threads : HeldDir(u) = e)
    <3>1. PICK u \in Threads : HeldDir(u) = e
      BY <2>3
    <3>2. e # NoDir
      BY <2>3
    <3> QED BY <3>1, <3>2
  <2> QED BY <2>1, <2>2, <2>3 DEF Copied
<1>3. \A i \in Ids : data[i].dir # NoDir => data[i].dir \in owned' /\ \A u \in Threads : HeldDir(u)' # data[i].dir
  BY <1>1 DEF Copied
<1>4. ASSUME NEW u \in Threads, NEW e, e = HeldDir(u)', e # NoDir
      PROVE  e \in owned' /\ \A v \in Threads : v # u => HeldDir(v)' # e
  BY <1>1, <1>4 DEF Copied
<1> QED BY <1>2, <1>3, <1>4 DEF Copied

LEMMA CopiedUnlocked ==
    ASSUME Copied, NEW t \in Threads, HeldDir(t) # NoDir, HeldDir(t)' = NoDir,
           owned' = owned \ {HeldDir(t)}, Ids' = Ids, data' = data,
           \A u \in Threads : u # t => HeldDir(u)' = HeldDir(u)
    PROVE  Copied'
BY DEF Copied

LEMMA CopiedListed ==
    ASSUME Copied, owned' = owned, NEW t \in Threads, HeldDir(t)' = NoDir,
           \A u \in Threads : u # t => HeldDir(u)' = HeldDir(u),
           NEW i, i \notin Ids, Ids' = Ids \cup {i}, data'[i].dir = HeldDir(t), data'[i].h # 0,
           \A j \in Ids : data'[j] = data[j], NoDir \notin owned
    PROVE  Copied'
BY DEF Copied

LEMMA CopiedTaken ==
    ASSUME Copied, owned' = owned, Ids' = Ids, NEW t \in Threads, NEW i \in Ids,
           HeldDir(t) = NoDir, HeldDir(t)' = data[i].dir, data'[i].dir = NoDir,
           \A u \in Threads : u # t => HeldDir(u)' = HeldDir(u),
           \A j \in Ids : j # i => data'[j] = data[j], NoDir \notin owned
    PROVE  Copied'
BY DEF Copied

LEMMA CopiedReleased ==
    ASSUME Copied, Ids' = Ids, NEW i \in Ids, data[i].dir # NoDir, data'[i].dir = NoDir,
           owned' = owned \ {data[i].dir},
           \A j \in Ids : j # i => data'[j] = data[j],
           \A t \in Threads : HeldDir(t)' = HeldDir(t)
    PROVE  Copied'
BY DEF Copied

LEMMA CopiedNone ==
    ASSUME owned' = {}, \A i \in Ids' : data'[i].dir = NoDir, \A t \in Threads : HeldDir(t)' = NoDir
    PROVE  Copied'
BY DEF Copied

---------------------------------------------------------------------------
\* What the operators on the three sequences do.

LEMMA NewHandleFacts ==
    ASSUME TypeOK, NEW stated \in BOOLEAN, handle' = NewHandle(stated)
    PROVE  /\ handle' \in Seq(HandleRecord) /\ Handles \subseteq Handles'
           /\ Len(handle) + 1 \in Handles' /\ Len(handle) + 1 # 0 /\ ~Opens(Len(handle) + 1)
           /\ \A h : Opens(h)' <=> Opens(h) \/ h = Len(handle) + 1
<1> DEFINE r == [stated |-> stated, closed |-> FALSE, cached |-> FALSE]
<1>1. r \in HandleRecord /\ handle \in Seq(HandleRecord) /\ handle' = Append(handle, r)
  BY DEF HandleRecord, NewHandle, TypeOK
<1> HIDE DEF r
<1>2. Len(handle) \in Nat /\ Len(handle') = Len(handle) + 1 /\ handle' \in Seq(HandleRecord)
  BY <1>1
<1>3. handle'[Len(handle) + 1] = r /\ \A h \in 1 .. Len(handle) : handle'[h] = handle[h]
  BY <1>1
<1>4. ~handle'[Len(handle) + 1].closed
  BY <1>3 DEF r
<1> QED BY <1>2, <1>3, <1>4 DEF Opens, Handles

LEMMA HandlePutFacts ==
    ASSUME TypeOK, NEW h \in Handles, NEW r \in HandleRecord, handle' = [handle EXCEPT ![h] = r]
    PROVE  /\ handle' \in Seq(HandleRecord) /\ Handles' = Handles
           /\ \A k : Opens(k)' <=> k \in Handles /\ IF k = h THEN ~r.closed ELSE ~handle[k].closed
<1>1. /\ handle \in Seq(HandleRecord) /\ handle' \in Seq(HandleRecord) /\ Len(handle') = Len(handle)
      /\ \A k \in 1 .. Len(handle) : handle'[k] = IF k = h THEN r ELSE handle[k]
  BY ExceptSeq DEF TypeOK, Handles
<1> QED BY <1>1 DEF Opens, Handles

LEMMA ClosedFacts ==
    ASSUME TypeOK, NEW h \in Handles, handle' = Closed(h)
    PROVE  /\ handle' \in Seq(HandleRecord) /\ Handles' = Handles
           /\ \A k : Opens(k)' <=> Opens(k) /\ k # h
<1> DEFINE r == [handle[h] EXCEPT !.closed = TRUE]
<1>1. handle[h] \in HandleRecord
  BY ElementOfSeq DEF TypeOK, Handles
<1>2. r \in HandleRecord /\ r.closed
  BY <1>1 DEF HandleRecord
<1>3. h # 0 /\ handle' = [handle EXCEPT ![h] = r]
  BY DEF Closed, Handles
<1> HIDE DEF r
<1> QED BY <1>2, <1>3, HandlePutFacts DEF Opens

LEMMA CachedFacts ==
    ASSUME TypeOK, NEW h \in Handles, handle' = [handle EXCEPT ![h].cached = TRUE]
    PROVE  /\ handle' \in Seq(HandleRecord) /\ Handles' = Handles
           /\ \A k : Opens(k)' <=> Opens(k)
<1> DEFINE r == [handle[h] EXCEPT !.cached = TRUE]
<1>1. handle[h] \in HandleRecord
  BY ElementOfSeq DEF TypeOK, Handles
<1>2. r \in HandleRecord /\ r.closed = handle[h].closed
  BY <1>1 DEF HandleRecord
<1>3. handle' = [handle EXCEPT ![h] = r]
  OBVIOUS
<1> HIDE DEF r
<1> QED BY <1>2, <1>3, HandlePutFacts DEF Opens

LEMMA AddedFacts ==
    ASSUME TypeOK, NEW h \in Nat, NEW d \in Dirs \cup {NoDir}, data' = Added(h, d)
    PROVE  /\ data' \in Seq(Dataset) /\ Len(data) + 1 \notin Ids /\ Ids' = Ids \cup {Len(data) + 1}
           /\ data'[Len(data) + 1] = [h |-> h, nav |-> 0, dir |-> d]
           /\ \A i \in Ids : data'[i] = data[i]
<1> DEFINE r == [h |-> h, nav |-> 0, dir |-> d]
<1>1. r \in Dataset /\ data \in Seq(Dataset) /\ data' = Append(data, r)
  BY DEF Dataset, Added, TypeOK
<1> HIDE DEF r
<1>2. Len(data) \in Nat /\ Len(data') = Len(data) + 1 /\ data' \in Seq(Dataset)
  BY <1>1
<1>3. data'[Len(data) + 1] = r /\ \A i \in 1 .. Len(data) : data'[i] = data[i]
  BY <1>1
<1> QED BY <1>2, <1>3 DEF Ids, r

LEMMA DataPutFacts ==
    ASSUME TypeOK, NEW i \in Ids, NEW r \in Dataset, data' = [data EXCEPT ![i] = r]
    PROVE  data' \in Seq(Dataset) /\ Ids' = Ids /\ data'[i] = r /\ \A j \in Ids : j # i => data'[j] = data[j]
<1>1. /\ data \in Seq(Dataset) /\ data' \in Seq(Dataset) /\ Len(data') = Len(data)
      /\ \A k \in 1 .. Len(data) : data'[k] = IF k = i THEN r ELSE data[k]
  BY ExceptSeq DEF TypeOK, Ids
<1> QED BY <1>1 DEF Ids

LEMMA DataType == ASSUME TypeOK PROVE \A i \in Ids : data[i] \in Dataset
BY ElementOfSeq DEF TypeOK, Ids

LEMMA CloseIdFacts ==
    ASSUME TypeOK, NEW i \in Ids, data' = CloseId(i)
    PROVE  /\ data' \in Seq(Dataset) /\ Ids' = Ids
           /\ data'[i].h = 0 /\ data'[i].nav = 0 /\ data'[i].dir = NoDir
           /\ \A j \in Ids : j # i => data'[j] = data[j]
<1> DEFINE r == [data[i] EXCEPT !.h = 0, !.nav = 0, !.dir = NoDir]
<1>1. r \in Dataset /\ r.h = 0 /\ r.nav = 0 /\ r.dir = NoDir
  BY DataType DEF Dataset
<1>2. data' = [data EXCEPT ![i] = r]
  BY DEF CloseId, TypeOK, Ids
<1> HIDE DEF r
<1> QED BY <1>1, <1>2, DataPutFacts

LEMMA SwapFacts ==
    ASSUME TypeOK, NEW i \in Ids, NEW h \in Nat, data' = Swap(i, h)
    PROVE  /\ data' \in Seq(Dataset) /\ Ids' = Ids
           /\ data'[i].h = h /\ data'[i].nav = 0 /\ data'[i].dir = data[i].dir
           /\ \A j \in Ids : j # i => data'[j] = data[j]
<1> DEFINE r == [data[i] EXCEPT !.h = h, !.nav = 0]
<1>1. r \in Dataset /\ r.h = h /\ r.nav = 0 /\ r.dir = data[i].dir
  BY DataType DEF Dataset
<1>2. data' = [data EXCEPT ![i] = r]
  BY DEF Swap, TypeOK, Ids
<1> HIDE DEF r
<1> QED BY <1>1, <1>2, DataPutFacts

LEMMA AssociateFacts ==
    ASSUME TypeOK, NEW i \in Ids, NEW k \in Nat, data' = [data EXCEPT ![i].nav = k]
    PROVE  /\ data' \in Seq(Dataset) /\ Ids' = Ids
           /\ data'[i].h = data[i].h /\ data'[i].nav = k /\ data'[i].dir = data[i].dir
           /\ \A j \in Ids : j # i => data'[j] = data[j]
<1> DEFINE r == [data[i] EXCEPT !.nav = k]
<1>1. r \in Dataset /\ r.h = data[i].h /\ r.nav = k /\ r.dir = data[i].dir
  BY DataType DEF Dataset
<1>2. data' = [data EXCEPT ![i] = r]
  BY DEF TypeOK, Ids
<1> HIDE DEF r
<1> QED BY <1>1, <1>2, DataPutFacts

LEMMA NewImageFacts ==
    ASSUME TypeOK, NEW h \in Nat, image' = Append(image, [h |-> h, open |-> TRUE])
    PROVE  /\ image' \in Seq(Image) /\ Images \subseteq Images' /\ Len(image) + 1 \in Images'
           /\ image'[Len(image) + 1].h = h /\ \A k \in Images : image'[k].h = image[k].h
<1> DEFINE r == [h |-> h, open |-> TRUE]
<1>1. r \in Image /\ r.h = h /\ image \in Seq(Image) /\ image' = Append(image, r)
  BY DEF Image, TypeOK
<1> HIDE DEF r
<1>2. Len(image) \in Nat /\ Len(image') = Len(image) + 1 /\ image' \in Seq(Image)
  BY <1>1
<1>3. image'[Len(image) + 1] = r /\ \A k \in 1 .. Len(image) : image'[k] = image[k]
  BY <1>1
<1> QED BY <1>1, <1>2, <1>3 DEF Images

LEMMA ImagePutFacts ==
    ASSUME TypeOK, NEW k \in Images, NEW r \in Image, image' = [image EXCEPT ![k] = r]
    PROVE  image' \in Seq(Image) /\ Images' = Images /\ \A l \in Images : image'[l] = IF l = k THEN r ELSE image[l]
<1>1. /\ image \in Seq(Image) /\ image' \in Seq(Image) /\ Len(image') = Len(image)
      /\ \A l \in 1 .. Len(image) : image'[l] = IF l = k THEN r ELSE image[l]
  BY ExceptSeq DEF TypeOK, Images
<1> QED BY <1>1 DEF Images

LEMMA ImageClosedFacts ==
    ASSUME TypeOK, NEW k \in Images, image' = [image EXCEPT ![k].open = FALSE]
    PROVE  /\ image' \in Seq(Image) /\ Images' = Images /\ \A l \in Images : image'[l].h = image[l].h
<1> DEFINE r == [image[k] EXCEPT !.open = FALSE]
<1>1. image[k] \in Image
  BY ElementOfSeq DEF TypeOK, Images
<1>2. r \in Image /\ r.h = image[k].h
  BY <1>1 DEF Image
<1>3. image' = [image EXCEPT ![k] = r]
  OBVIOUS
<1> HIDE DEF r
<1>4. image' \in Seq(Image) /\ Images' = Images /\ \A l \in Images : image'[l] = IF l = k THEN r ELSE image[l]
  BY <1>2, <1>3, ImagePutFacts
<1> QED BY <1>2, <1>4

---------------------------------------------------------------------------
\* A request moves, and the others stay.

Went(t) == th' \in [Threads -> Local] /\ \A u \in Threads : u # t => th'[u] = th[u]

LEMMA IdleLocal == Idle \in Local /\ Idle.pc = "idle"
BY DEF Idle, Local

LEMMA GoesTo ==
    ASSUME TypeOK, NEW t \in Threads, NEW r \in Local, th' = [th EXCEPT ![t] = r]
    PROVE  Went(t) /\ th'[t] = r
BY DEF TypeOK, Went

LEMMA AnswerFacts ==
    ASSUME TypeOK, NEW t \in Threads, Answer(t)
    PROVE  Went(t) /\ th'[t].pc = "idle" /\ HeldHandle(t)' = 0 /\ HeldDir(t)' = NoDir /\ Works(t)'
<1>1. Went(t) /\ th'[t] = Idle
  BY GoesTo, IdleLocal DEF Answer
<1> QED BY <1>1, IdleLocal DEF HeldHandle, HeldDir, Works

LEMMA GotoFacts ==
    ASSUME TypeOK, NEW t \in Threads,
           NEW pc \in {"opened", "load", "unlock", "remove", "compute", "register"}, Goto(t, pc)
    PROVE  /\ Went(t) /\ th'[t].pc = pc /\ th'[t].id = th[t].id /\ th'[t].h = th[t].h
           /\ th'[t].d = th[t].d /\ th'[t].img = th[t].img
<1> DEFINE r == [th[t] EXCEPT !.pc = pc]
<1>1. th[t] \in Local /\ th' = [th EXCEPT ![t] = r]
  BY DEF TypeOK, Goto
<1>2. r \in Local /\ r.pc = pc /\ r.id = th[t].id /\ r.h = th[t].h /\ r.d = th[t].d /\ r.img = th[t].img
  BY <1>1 DEF Local
<1> HIDE DEF r
<1> QED BY <1>1, <1>2, GoesTo

LEMMA OthersHold ==
    ASSUME NEW t \in Threads, Went(t)
    PROVE  \A u \in Threads : u # t => HeldHandle(u)' = HeldHandle(u) /\ HeldDir(u)' = HeldDir(u)
BY DEF Went, HeldHandle, HeldDir

\* A request runs, so the server is up.
LEMMA Busy == ASSUME Served, NEW t \in Threads, NEW pc, pc # "idle", At(t, pc) PROVE proc[Server] = "up"
BY IdleLocal DEF Served, At

LEMMA NavigatedKeeps ==
    ASSUME Navigated, Images \subseteq Images', \A k \in Images : image'[k].h = image[k].h, late' = late,
           \A i \in Ids' : data'[i].nav # 0 => i \in Ids /\ data'[i].nav = data[i].nav /\ data'[i].h = data[i].h
    PROVE  Navigated'
<1>1. ASSUME NEW i \in Ids', data'[i].nav # 0
      PROVE  /\ data'[i].nav \in Images'
             /\ data'[i].nav \in late' \/ image'[data'[i].nav].h = data'[i].h
  BY <1>1 DEF Navigated, NavDescribesRaster
<1> QED BY <1>1 DEF Navigated, NavDescribesRaster

LEMMA RequestKeeps ==
    ASSUME StoreInv, DirTypeOK', NEW t \in Threads, proc' = proc, proc[Server] = "up", Went(t), Works(t)',
           handle' \in Seq(HandleRecord), data' \in Seq(Dataset), image' \in Seq(Image), late' \subseteq Nat,
           Ids \subseteq Ids', Handles \subseteq Handles', Images \subseteq Images',
           \A k \in Images : image'[k].h = image[k].h,
           Handled', Copied', Navigated'
    PROVE  StoreInv'
<1>1. TypeOK'
  BY DEF TypeOK, Went
<1>2. Served'
  BY DEF Served
<1>3. ASSUME NEW u \in Threads, u # t PROVE Works(u)'
  <2>1. th'[u] = th[u] /\ Works(u)
    BY <1>3 DEF Went, StoreInv, Working
  <2> QED BY <2>1 DEF Works
<1> QED BY <1>1, <1>2, <1>3 DEF StoreInv, Working

\* The step of a request that changes nothing but where it is.
LEMMA QuietKeeps ==
    ASSUME StoreInv, DirTypeOK', NEW t \in Threads, proc' = proc, proc[Server] = "up", Went(t), Works(t)',
           UNCHANGED <<handle, data, image, late>>, owned' = owned,
           HeldHandle(t)' = HeldHandle(t), HeldDir(t)' = HeldDir(t)
    PROVE  StoreInv'
<1>1. Ids' = Ids /\ Handles' = Handles /\ Images' = Images /\ \A h : Opens(h)' <=> Opens(h)
  BY DEF Ids, Handles, Images, Opens
<1>2. Handled' /\ Copied'
  BY <1>1, OthersHold, HandledSame, CopiedSame DEF StoreInv
<1>3. Navigated'
  BY <1>1, NavigatedKeeps DEF StoreInv
<1> QED BY <1>1, <1>2, <1>3, RequestKeeps DEF StoreInv, TypeOK

LEMMA NoDirFree == DirTypeOK => NoDir \notin owned /\ NoDir \notin making
BY NoDirAssumption DEF DirTypeOK

---------------------------------------------------------------------------
\* Each step of a request keeps the invariant.

LEMMA OpenPathKeeps == ASSUME StoreInv, DirTypeOK', NEW t \in Threads, OpenPath(t) PROVE StoreInv'
<1>1. PICK stated \in BOOLEAN : handle' = NewHandle(stated)
  BY DEF OpenPath
<1>2. /\ proc[Server] = "up" /\ data' = Added(Len(handle) + 1, NoDir)
      /\ UNCHANGED <<proc, owned, image, th, late>>
  BY DEF OpenPath, Starts, dirVars
<1> DEFINE h == Len(handle) + 1
           i == Len(data) + 1
<1>3. TypeOK /\ Len(handle) \in Nat /\ h \in Nat
  BY LenProperties DEF StoreInv, TypeOK
<1> HIDE DEF h
<1>4. /\ handle' \in Seq(HandleRecord) /\ Handles \subseteq Handles' /\ h # 0 /\ ~Opens(h)
      /\ \A k : Opens(k)' <=> Opens(k) \/ k = h
  BY <1>1, <1>3, NewHandleFacts DEF h
<1>5. /\ data' \in Seq(Dataset) /\ i \notin Ids /\ Ids' = Ids \cup {i}
      /\ data'[i] = [h |-> h, nav |-> 0, dir |-> NoDir]
      /\ \A j \in Ids : data'[j] = data[j]
  BY <1>2, <1>3, AddedFacts DEF h
<1> HIDE DEF i
<1>6. /\ Went(t) /\ Images' = Images /\ Works(t)'
      /\ \A u \in Threads : HeldHandle(u)' = HeldHandle(u) /\ HeldDir(u)' = HeldDir(u)
  <2>1. Works(t)
    BY DEF StoreInv, Working
  <2> QED BY <1>2, <1>3, <1>4, <1>5, <2>1 DEF Went, TypeOK, Images, HeldHandle, HeldDir, Works
<1>7. Handled'
  BY <1>4, <1>5, <1>6, HandledListedNew DEF StoreInv
<1>8. Copied'
  BY <1>2, <1>3, <1>5, <1>6, NoDirFree, CopiedListedNew DEF StoreInv, TypeOK
<1>9. Navigated'
  BY <1>2, <1>5, <1>6, NavigatedKeeps DEF StoreInv
<1> QED BY <1>2, <1>3, <1>4, <1>5, <1>6, <1>7, <1>8, <1>9, RequestKeeps DEF TypeOK

LEMMA UploadStartKeeps ==
    ASSUME StoreInv, DirTypeOK', NEW t \in Threads, UploadMake(t) \/ UploadOpen(t) PROVE StoreInv'
<1>1. CASE UploadMake(t)
  <2>1. PICK d \in Dirs : MakeDir(d) /\ th' = [th EXCEPT ![t].pc = "made", ![t].d = d]
    BY <1>1 DEF UploadMake
  <2> DEFINE r == [th[t] EXCEPT !.pc = "made", !.d = d]
  <2>2. th[t] \in Local /\ th' = [th EXCEPT ![t] = r] /\ th[t].pc = "idle" /\ proc[Server] = "up"
    BY <1>1, <2>1 DEF StoreInv, TypeOK, UploadMake, Starts
  <2>3. r \in Local /\ r.pc = "made"
    BY <2>2 DEF Local
  <2> HIDE DEF r
  <2>4. Went(t) /\ th'[t].pc = "made"
    BY <2>2, <2>3, GoesTo DEF StoreInv
  <2>5. Works(t)' /\ HeldHandle(t)' = HeldHandle(t) /\ HeldDir(t)' = HeldDir(t)
    BY <2>2, <2>4 DEF Works, HeldHandle, HeldDir
  <2> QED BY <1>1, <2>1, <2>2, <2>4, <2>5, QuietKeeps DEF UploadMake, MakeDir
<1>2. CASE UploadOpen(t)
  <2>1. th[t].pc = "made" /\ proc[Server] = "up" /\ proc' = proc /\ owned' = owned
    BY <1>2, Busy DEF UploadOpen, At, OpenLock, StoreInv
  <2>2. Went(t) /\ Works(t)' /\ HeldHandle(t)' = 0 /\ HeldDir(t)' = NoDir
    <3>1. CASE Goto(t, "opened")
      <4>1. Went(t) /\ th'[t].pc = "opened"
        BY <3>1, GotoFacts DEF StoreInv
      <4> QED BY <4>1 DEF Works, HeldHandle, HeldDir
    <3> QED BY <1>2, <3>1, AnswerFacts DEF StoreInv, UploadOpen
  <2>3. HeldHandle(t) = 0 /\ HeldDir(t) = NoDir
    BY <2>1 DEF HeldHandle, HeldDir
  <2> QED BY <1>2, <2>1, <2>2, <2>3, QuietKeeps DEF UploadOpen
<1> QED BY <1>1, <1>2

LEMMA UploadLockKeeps ==
    ASSUME DirInv, StoreInv, DirTypeOK', NEW t \in Threads, UploadLock(t) PROVE StoreInv'
<1> DEFINE d == th[t].d
<1>1. /\ th[t].pc = "opened" /\ proc[Server] = "up" /\ proc' = proc /\ d \in making /\ d \notin owned
      /\ UNCHANGED <<handle, data, image, late>> /\ owned' = IF Locked(d) THEN owned ELSE owned \cup {d}
  BY Busy DEF UploadLock, At, TakeLock, StoreInv, DirInv, Made
<1>2. HeldHandle(t) = 0 /\ HeldDir(t) = NoDir
  BY <1>1 DEF HeldHandle, HeldDir
<1>3. CASE Locked(d)
  <2>1. Answer(t)
    BY <1>3 DEF UploadLock
  <2> QED BY <1>1, <1>2, <1>3, <2>1, AnswerFacts, QuietKeeps DEF StoreInv
<1>4. CASE ~Locked(d)
  <2>1. Went(t) /\ th'[t].pc = "load" /\ th'[t].d = d
    BY <1>4, GotoFacts DEF UploadLock, StoreInv
  <2>2. Works(t)' /\ HeldHandle(t)' = 0 /\ HeldDir(t)' = d
    BY <2>1 DEF Works, HeldHandle, HeldDir
  <2>3. Ids' = Ids /\ Handles' = Handles /\ Images' = Images /\ \A h : Opens(h)' <=> Opens(h)
    BY <1>1 DEF Ids, Handles, Images, Opens
  <2>4. NoDir \notin owned /\ d # NoDir
    BY <1>1, NoDirFree DEF StoreInv, TypeOK
  <2>5. Handled'
    BY <1>1, <1>2, <2>1, <2>2, <2>3, OthersHold, HandledSame DEF StoreInv
  <2>6. Copied'
    BY <1>1, <1>2, <1>4, <2>1, <2>2, <2>3, <2>4, OthersHold, CopiedLocked DEF StoreInv
  <2>7. Navigated'
    BY <1>1, <2>3, NavigatedKeeps DEF StoreInv
  <2> QED BY <1>1, <2>1, <2>2, <2>3, <2>5, <2>6, <2>7, RequestKeeps DEF StoreInv, TypeOK
<1> QED BY <1>3, <1>4

\* A request that lets a directory's lock go, and changes nothing else.
LEMMA UnlockKeeps ==
    ASSUME StoreInv, DirTypeOK', NEW t \in Threads, proc[Server] = "up", Went(t), Works(t)',
           UNCHANGED <<handle, data, image, late>>, Unlock(th[t].d),
           th[t].pc \in {"load", "unlock"}, HeldHandle(t)' = 0, HeldDir(t)' = NoDir
    PROVE  StoreInv'
<1>1. /\ proc' = proc /\ owned' = owned \ {HeldDir(t)} /\ HeldDir(t) # NoDir /\ HeldHandle(t) = 0
  BY NoDirFree DEF Unlock, HeldDir, HeldHandle, StoreInv, TypeOK
<1>2. Ids' = Ids /\ Handles' = Handles /\ Images' = Images /\ \A h : Opens(h)' <=> Opens(h)
  BY DEF Ids, Handles, Images, Opens
<1>3. Handled'
  BY <1>1, <1>2, OthersHold, HandledSame DEF StoreInv
<1>4. Copied'
  BY <1>1, <1>2, OthersHold, CopiedUnlocked DEF StoreInv
<1>5. Navigated'
  BY <1>2, NavigatedKeeps DEF StoreInv
<1> QED BY <1>1, <1>2, <1>3, <1>4, <1>5, RequestKeeps DEF StoreInv, TypeOK

\* A request that has opened a file holds its handle.
LEMMA MadeKeeps ==
    ASSUME StoreInv, DirTypeOK', NEW t \in Threads, proc[Server] = "up", Went(t), Works(t)',
           UNCHANGED <<proc, owned, data, image, late>>,
           NEW stated \in BOOLEAN, handle' = NewHandle(stated),
           HeldHandle(t) = 0, HeldHandle(t)' = Len(handle) + 1, HeldDir(t)' = HeldDir(t)
    PROVE  StoreInv'
<1> DEFINE h == Len(handle) + 1
<1>1. /\ handle' \in Seq(HandleRecord) /\ Handles \subseteq Handles' /\ h # 0 /\ ~Opens(h)
      /\ \A k : Opens(k)' <=> Opens(k) \/ k = h
  BY NewHandleFacts DEF StoreInv
<1> HIDE DEF h
<1>2. Ids' = Ids /\ Images' = Images
  BY DEF Ids, Images
<1>3. Handled'
  BY <1>1, <1>2, OthersHold, HandledMadeNew DEF StoreInv, h
<1>4. Copied'
  BY <1>2, OthersHold, CopiedSame DEF StoreInv
<1>5. Navigated'
  BY <1>2, NavigatedKeeps DEF StoreInv
<1> QED BY <1>1, <1>2, <1>3, <1>4, <1>5, RequestKeeps DEF StoreInv, TypeOK

LEMMA UploadLoadKeeps == ASSUME StoreInv, DirTypeOK', NEW t \in Threads, UploadLoad(t) PROVE StoreInv'
<1>1. th[t].pc = "load" /\ proc[Server] = "up" /\ UNCHANGED <<data, image, late>> /\ th[t] \in Local
  BY Busy DEF UploadLoad, At, StoreInv, TypeOK
<1>2. HeldHandle(t) = 0 /\ HeldDir(t) = th[t].d
  BY <1>1 DEF HeldHandle, HeldDir
<1>3. ASSUME NEW stated \in BOOLEAN, handle' = NewHandle(stated), UNCHANGED dirVars,
             th' = [th EXCEPT ![t].pc = "add", ![t].h = Len(handle) + 1]
      PROVE  StoreInv'
  <2> DEFINE n == Len(handle) + 1
             r == [th[t] EXCEPT !.pc = "add", !.h = n]
  <2>0. n \in Nat
    BY LenProperties DEF StoreInv, TypeOK
  <2>1. th' = [th EXCEPT ![t] = r]
    <3>1. th' = [th EXCEPT ![t].pc = "add", ![t].h = n]
      BY <1>3
    <3> HIDE DEF n
    <3> QED BY <3>1 DEF StoreInv, TypeOK
  <2> HIDE DEF n
  <2>2. r \in Local /\ r.pc = "add" /\ r.h = n /\ r.d = th[t].d
    BY <1>1, <2>0 DEF Local
  <2> HIDE DEF r
  <2>3. Went(t) /\ th'[t] = r
    BY <2>1, <2>2, GoesTo DEF StoreInv
  <2>4. n # 0
    BY <2>1, LenProperties DEF n, StoreInv, TypeOK
  <2>5. Works(t)' /\ HeldHandle(t)' = n /\ HeldDir(t)' = th[t].d
    BY <2>2, <2>3, <2>4 DEF Works, HeldHandle, HeldDir
  <2> QED BY <1>1, <1>2, <1>3, <2>3, <2>5, MadeKeeps DEF dirVars, n
<1>4. CASE Goto(t, "unlock") /\ UNCHANGED <<handle, dirVars>>
  <2>1. Went(t) /\ th'[t].pc = "unlock" /\ th'[t].d = th[t].d
    BY <1>4, GotoFacts DEF StoreInv
  <2>2. Works(t)' /\ HeldHandle(t)' = 0 /\ HeldDir(t)' = th[t].d
    BY <2>1 DEF Works, HeldHandle, HeldDir
  <2> QED BY <1>1, <1>2, <1>4, <2>1, <2>2, QuietKeeps DEF dirVars
<1>5. CASE Unlock(th[t].d) /\ Answer(t) /\ UNCHANGED handle
  BY <1>1, <1>5, AnswerFacts, UnlockKeeps DEF StoreInv
<1> QED BY <1>3, <1>4, <1>5 DEF UploadLoad

LEMMA UploadAddKeeps == ASSUME StoreInv, DirTypeOK', NEW t \in Threads, UploadAdd(t) PROVE StoreInv'
<1> DEFINE h == th[t].h
           i == Len(data) + 1
<1>1. /\ th[t].pc = "add" /\ proc[Server] = "up" /\ UNCHANGED <<proc, owned, handle, image, late>>
      /\ th[t] \in Local /\ data' = Added(h, th[t].d)
  BY Busy DEF UploadAdd, At, StoreInv, TypeOK, dirVars
<1>2. HeldHandle(t) = h /\ HeldDir(t) = th[t].d /\ h # 0 /\ h \in Nat
  BY <1>1 DEF HeldHandle, HeldDir, StoreInv, Working, Works, Local
<1>3. Went(t) /\ Works(t)' /\ HeldHandle(t)' = 0 /\ HeldDir(t)' = NoDir
  BY AnswerFacts DEF UploadAdd, StoreInv
<1>4. /\ data' \in Seq(Dataset) /\ i \notin Ids /\ Ids' = Ids \cup {i}
      /\ data'[i] = [h |-> h, nav |-> 0, dir |-> th[t].d]
      /\ \A j \in Ids : data'[j] = data[j]
  BY <1>1, <1>2, AddedFacts DEF StoreInv, Local
<1> HIDE DEF h, i
<1>5. data'[i].h = h /\ data'[i].nav = 0 /\ data'[i].dir = th[t].d
  BY <1>4
<1>6. Handles' = Handles /\ Images' = Images /\ \A k : Opens(k)' <=> Opens(k)
  BY <1>1 DEF Handles, Images, Opens
<1>7. Handled'
  <2>1. \A j \in Ids : data'[j].h = data[j].h
    BY <1>4
  <2>2. \A u \in Threads : u # t => HeldHandle(u)' = HeldHandle(u)
    BY <1>3, OthersHold
  <2> QED BY <1>2, <1>3, <1>4, <1>5, <1>6, <2>1, <2>2, HandledListed DEF StoreInv
<1>8. Copied'
  <2>1. \A u \in Threads : u # t => HeldDir(u)' = HeldDir(u)
    BY <1>3, OthersHold
  <2> QED BY <1>1, <1>2, <1>3, <1>4, <1>5, <2>1, NoDirFree, CopiedListed DEF StoreInv, TypeOK
<1>9. Navigated'
  BY <1>1, <1>4, <1>5, <1>6, NavigatedKeeps DEF StoreInv
<1> QED BY <1>1, <1>3, <1>4, <1>6, <1>7, <1>8, <1>9, RequestKeeps DEF StoreInv, TypeOK

LEMMA CloseKeeps == ASSUME StoreInv, DirTypeOK', NEW t \in Threads, Close(t) PROVE StoreInv'
<1>1. PICK i \in Ids :
          /\ Open(i)
          /\ th' = [th EXCEPT ![t].pc = "close", ![t].h = data[i].h, ![t].d = data[i].dir]
          /\ data' = CloseId(i)
  BY DEF Close
<1>2. /\ th[t].pc = "idle" /\ proc[Server] = "up" /\ UNCHANGED <<proc, owned, handle, image, late>>
      /\ th[t] \in Local /\ data[i] \in Dataset /\ data[i].h # 0
  BY <1>1, DataType DEF Close, Starts, StoreInv, TypeOK, dirVars, Open
<1> DEFINE r == [th[t] EXCEPT !.pc = "close", !.h = data[i].h, !.d = data[i].dir]
<1>3. th' = [th EXCEPT ![t] = r]
  BY <1>1, <1>2 DEF StoreInv, TypeOK
<1>4. r \in Local /\ r.pc = "close" /\ r.h = data[i].h /\ r.d = data[i].dir
  BY <1>2 DEF Local, Dataset
<1> HIDE DEF r
<1>5. Went(t) /\ th'[t] = r
  BY <1>3, <1>4, GoesTo DEF StoreInv
<1>6. Works(t)' /\ HeldHandle(t)' = data[i].h /\ HeldDir(t)' = data[i].dir
  BY <1>2, <1>4, <1>5 DEF Works, HeldHandle, HeldDir
<1>7. HeldHandle(t) = 0 /\ HeldDir(t) = NoDir
  BY <1>2 DEF HeldHandle, HeldDir
<1>8. /\ data' \in Seq(Dataset) /\ Ids' = Ids
      /\ data'[i].h = 0 /\ data'[i].nav = 0 /\ data'[i].dir = NoDir
      /\ \A j \in Ids : j # i => data'[j] = data[j]
  BY <1>1, CloseIdFacts DEF StoreInv
<1>9. Handles' = Handles /\ Images' = Images /\ \A k : Opens(k)' <=> Opens(k)
  BY <1>2 DEF Handles, Images, Opens
<1>10. Handled'
  <2>1. \A u \in Threads : u # t => HeldHandle(u)' = HeldHandle(u)
    BY <1>5, OthersHold
  <2> QED BY <1>2, <1>6, <1>7, <1>8, <1>9, <2>1, HandledSwapped DEF StoreInv
<1>11. Copied'
  <2>1. \A u \in Threads : u # t => HeldDir(u)' = HeldDir(u)
    BY <1>5, OthersHold
  <2> QED BY <1>2, <1>6, <1>7, <1>8, <2>1, NoDirFree, CopiedTaken DEF StoreInv, TypeOK
<1>12. Navigated'
  BY <1>2, <1>8, <1>9, NavigatedKeeps DEF StoreInv
<1> QED BY <1>2, <1>5, <1>6, <1>8, <1>9, <1>10, <1>11, <1>12, RequestKeeps DEF StoreInv, TypeOK

\* A request that closes the handle it holds.
LEMMA ClosesKeeps ==
    ASSUME StoreInv, DirTypeOK', NEW t \in Threads, proc[Server] = "up", Went(t), Works(t)',
           UNCHANGED <<proc, owned, data, image, late>>, handle' = Closed(th[t].h),
           HeldHandle(t) = th[t].h, th[t].h # 0, HeldHandle(t)' = 0, HeldDir(t)' = HeldDir(t)
    PROVE  StoreInv'
<1>1. th[t].h \in Handles
  BY DEF StoreInv, Handled, Opens
<1>2. /\ handle' \in Seq(HandleRecord) /\ Handles' = Handles
      /\ \A k : Opens(k)' <=> Opens(k) /\ k # th[t].h
  BY <1>1, ClosedFacts DEF StoreInv
<1>3. Ids' = Ids /\ Images' = Images
  BY DEF Ids, Images
<1>4. Handled'
  BY <1>2, <1>3, OthersHold, HandledLetGo DEF StoreInv
<1>5. Copied'
  BY <1>3, OthersHold, CopiedSame DEF StoreInv
<1>6. Navigated'
  BY <1>3, NavigatedKeeps DEF StoreInv
<1> QED BY <1>2, <1>3, <1>4, <1>5, <1>6, RequestKeeps DEF StoreInv, TypeOK

LEMMA CloseHandleKeeps == ASSUME StoreInv, DirTypeOK', NEW t \in Threads, CloseHandle(t) PROVE StoreInv'
<1>1. /\ th[t].pc = "close" /\ proc[Server] = "up" /\ UNCHANGED <<proc, owned, data, image, late>>
      /\ handle' = Closed(th[t].h)
  BY Busy DEF CloseHandle, At, StoreInv, dirVars
<1>2. HeldHandle(t) = th[t].h /\ HeldDir(t) = th[t].d /\ th[t].h # 0
  BY <1>1 DEF HeldHandle, HeldDir, StoreInv, Working, Works
<1>3. CASE th[t].d = NoDir /\ Answer(t)
  BY <1>1, <1>2, <1>3, AnswerFacts, ClosesKeeps DEF StoreInv
<1>4. CASE Goto(t, "unlock")
  <2>1. Went(t) /\ th'[t].pc = "unlock" /\ th'[t].d = th[t].d
    BY <1>4, GotoFacts DEF StoreInv
  <2>2. Works(t)' /\ HeldHandle(t)' = 0 /\ HeldDir(t)' = th[t].d
    BY <2>1 DEF Works, HeldHandle, HeldDir
  <2> QED BY <1>1, <1>2, <2>1, <2>2, ClosesKeeps
<1> QED BY <1>3, <1>4 DEF CloseHandle

LEMMA ReleaseKeeps ==
    ASSUME StoreInv, DirTypeOK', NEW t \in Threads, ReleaseLock(t) \/ ReleaseDir(t) PROVE StoreInv'
<1>1. CASE ReleaseLock(t)
  <2>1. th[t].pc = "unlock" /\ proc[Server] = "up"
    BY <1>1, Busy DEF ReleaseLock, At, StoreInv
  <2>2. Went(t) /\ th'[t].pc = "remove"
    BY <1>1, GotoFacts DEF ReleaseLock, StoreInv
  <2>3. Works(t)' /\ HeldHandle(t)' = 0 /\ HeldDir(t)' = NoDir
    BY <2>2 DEF Works, HeldHandle, HeldDir
  <2> QED BY <1>1, <2>1, <2>2, <2>3, UnlockKeeps DEF ReleaseLock
<1>2. CASE ReleaseDir(t)
  <2>1. th[t].pc = "remove" /\ proc[Server] = "up" /\ proc' = proc /\ owned' = owned
    BY <1>2, Busy DEF ReleaseDir, RemoveDir, At, StoreInv
  <2>2. HeldHandle(t) = 0 /\ HeldDir(t) = NoDir
    BY <2>1 DEF HeldHandle, HeldDir
  <2> QED BY <1>2, <2>1, <2>2, AnswerFacts, QuietKeeps DEF ReleaseDir, StoreInv
<1> QED BY <1>1, <1>2

LEMMA ReshapeKeeps == ASSUME StoreInv, DirTypeOK', NEW t \in Threads, Reshape(t) PROVE StoreInv'
<1>1. PICK i \in Ids : th' = [th EXCEPT ![t].pc = "replace", ![t].id = i, ![t].d = data[i].dir, ![t].h = 0]
  BY DEF Reshape
<1>2. /\ th[t].pc = "idle" /\ proc[Server] = "up" /\ UNCHANGED <<proc, owned, handle, data, image, late>>
      /\ th[t] \in Local /\ data[i] \in Dataset /\ i \in Nat
  BY DataType DEF Reshape, Starts, StoreInv, TypeOK, dirVars, Ids
<1> DEFINE r == [th[t] EXCEPT !.pc = "replace", !.id = i, !.d = data[i].dir, !.h = 0]
<1>3. th' = [th EXCEPT ![t] = r]
  BY <1>1, <1>2 DEF StoreInv, TypeOK
<1>4. r \in Local /\ r.pc = "replace" /\ r.id = i /\ r.h = 0
  BY <1>2 DEF Local, Dataset
<1> HIDE DEF r
<1>5. Went(t) /\ th'[t] = r
  BY <1>3, <1>4, GoesTo DEF StoreInv
<1>6. Works(t)' /\ HeldHandle(t)' = 0 /\ HeldDir(t)' = NoDir
  BY <1>2, <1>4, <1>5 DEF Works, HeldHandle, HeldDir, Ids
<1>7. HeldHandle(t) = 0 /\ HeldDir(t) = NoDir
  BY <1>2 DEF HeldHandle, HeldDir
<1> QED BY <1>2, <1>5, <1>6, <1>7, QuietKeeps

LEMMA ReshapeLoadKeeps == ASSUME StoreInv, DirTypeOK', NEW t \in Threads, ReshapeLoad(t) PROVE StoreInv'
<1>1. /\ th[t].pc = "replace" /\ th[t].h = 0 /\ proc[Server] = "up" /\ UNCHANGED <<proc, owned, data, image, late>>
      /\ th[t] \in Local
  BY Busy DEF ReshapeLoad, At, StoreInv, TypeOK, dirVars
<1>2. HeldHandle(t) = 0 /\ HeldDir(t) = NoDir
  BY <1>1 DEF HeldHandle, HeldDir
<1>3. CASE handle' = NewHandle(FALSE) /\ th' = [th EXCEPT ![t].h = Len(handle) + 1]
  <2> DEFINE n == Len(handle) + 1
             r == [th[t] EXCEPT !.h = n]
  <2>1. th' = [th EXCEPT ![t] = r] /\ n \in Nat
    BY <1>3, LenProperties DEF StoreInv, TypeOK
  <2> HIDE DEF n
  <2>2. r \in Local /\ r.pc = "replace" /\ r.h = n /\ r.id = th[t].id
    BY <1>1, <2>1 DEF Local
  <2> HIDE DEF r
  <2>3. Went(t) /\ th'[t] = r
    BY <2>1, <2>2, GoesTo DEF StoreInv
  <2>4. Works(t)' /\ HeldHandle(t)' = n /\ HeldDir(t)' = NoDir
    BY <1>1, <2>2, <2>3 DEF Works, HeldHandle, HeldDir, StoreInv, Working, Ids
  <2> QED BY <1>1, <1>2, <1>3, <2>3, <2>4, MadeKeeps DEF n
<1>4. CASE Answer(t) /\ UNCHANGED handle
  BY <1>1, <1>2, <1>4, AnswerFacts, QuietKeeps DEF StoreInv
<1> QED BY <1>3, <1>4 DEF ReshapeLoad

LEMMA ReshapeReplaceKeeps == ASSUME StoreInv, DirTypeOK', NEW t \in Threads, ReshapeReplace(t) PROVE StoreInv'
<1> DEFINE i == th[t].id
<1>1. /\ th[t].pc = "replace" /\ th[t].h # 0 /\ proc[Server] = "up" /\ UNCHANGED <<proc, owned, image, late>>
      /\ th[t] \in Local /\ i \in Ids /\ data[i] \in Dataset
  BY Busy, DataType DEF ReshapeReplace, At, StoreInv, TypeOK, dirVars, Working, Works
<1>2. HeldHandle(t) = th[t].h /\ HeldDir(t) = NoDir
  BY <1>1 DEF HeldHandle, HeldDir
<1>3. CASE /\ Open(i) /\ data' = Swap(i, th[t].h) /\ UNCHANGED handle
           /\ th' = [th EXCEPT ![t].pc = "swapped", ![t].h = Previous(t)]
  <2> DEFINE r == [th[t] EXCEPT !.pc = "swapped", !.h = data[i].h]
  <2>1. th' = [th EXCEPT ![t] = r] /\ data[i].h # 0
    BY <1>3 DEF StoreInv, TypeOK, Previous, Open
  <2>2. r \in Local /\ r.pc = "swapped" /\ r.h = data[i].h
    BY <1>1 DEF Local, Dataset
  <2> HIDE DEF r
  <2>3. Went(t) /\ th'[t] = r
    BY <2>1, <2>2, GoesTo DEF StoreInv
  <2>4. Works(t)' /\ HeldHandle(t)' = data[i].h /\ HeldDir(t)' = NoDir
    BY <2>1, <2>2, <2>3 DEF Works, HeldHandle, HeldDir
  <2>5. /\ data' \in Seq(Dataset) /\ Ids' = Ids
        /\ data'[i].h = th[t].h /\ data'[i].nav = 0 /\ data'[i].dir = data[i].dir
        /\ \A j \in Ids : j # i => data'[j] = data[j]
    BY <1>1, <1>3, SwapFacts DEF StoreInv, Local
  <2> HIDE DEF i
  <2>6. Handles' = Handles /\ Images' = Images /\ \A k : Opens(k)' <=> Opens(k)
    BY <1>1, <1>3 DEF Handles, Images, Opens
  <2>7. Handled'
    <3>1. \A u \in Threads : u # t => HeldHandle(u)' = HeldHandle(u)
      BY <2>3, OthersHold
    <3> QED BY <1>1, <1>2, <2>1, <2>4, <2>5, <2>6, <3>1, HandledSwapped DEF StoreInv
  <2>8. Copied'
    BY <1>1, <1>2, <2>3, <2>4, <2>5, OthersHold, CopiedSame DEF StoreInv
  <2>9. Navigated'
    BY <1>1, <2>5, <2>6, NavigatedKeeps DEF StoreInv
  <2> QED BY <1>1, <2>3, <2>4, <2>5, <2>6, <1>3, <2>7, <2>8, <2>9, RequestKeeps DEF StoreInv, TypeOK
<1>4. CASE Answer(t) /\ handle' = Closed(th[t].h) /\ UNCHANGED data
  BY <1>1, <1>2, <1>4, AnswerFacts, ClosesKeeps DEF StoreInv
<1> QED BY <1>3, <1>4 DEF ReshapeReplace

LEMMA ReshapeCloseKeeps == ASSUME StoreInv, DirTypeOK', NEW t \in Threads, ReshapeClose(t) PROVE StoreInv'
<1>1. /\ th[t].pc = "swapped" /\ proc[Server] = "up" /\ UNCHANGED <<proc, owned, data, image, late>>
      /\ handle' = Closed(th[t].h) /\ Answer(t)
  BY Busy DEF ReshapeClose, At, StoreInv, dirVars
<1>2. HeldHandle(t) = th[t].h /\ HeldDir(t) = NoDir /\ th[t].h # 0
  BY <1>1 DEF HeldHandle, HeldDir, StoreInv, Working, Works
<1> QED BY <1>1, <1>2, AnswerFacts, ClosesKeeps DEF StoreInv

LEMMA NavStartKeeps == ASSUME StoreInv, DirTypeOK', NEW t \in Threads, Nav(t) \/ NavLook(t) PROVE StoreInv'
<1>1. CASE Nav(t)
  <2>1. PICK i \in Ids : Open(i) /\ th' = [th EXCEPT ![t].pc = "look", ![t].id = i, ![t].h = data[i].h]
    BY <1>1 DEF Nav
  <2>2. /\ th[t].pc = "idle" /\ proc[Server] = "up" /\ UNCHANGED <<proc, owned, handle, data, image, late>>
        /\ th[t] \in Local /\ data[i] \in Dataset /\ i \in Nat /\ data[i].h \in Handles
    <3>1. th[t].pc = "idle" /\ proc[Server] = "up" /\ UNCHANGED <<proc, owned, handle, data, image, late>>
      BY <1>1 DEF Nav, Starts, dirVars
    <3>2. th[t] \in Local
      BY DEF StoreInv, TypeOK
    <3>3. data[i] \in Dataset /\ i \in Nat
      BY DataType DEF StoreInv, Ids
    <3>4. data[i].h \in Handles
      BY <2>1 DEF StoreInv, Handled, Open, Opens
    <3> QED BY <3>1, <3>2, <3>3, <3>4
  <2> DEFINE r == [th[t] EXCEPT !.pc = "look", !.id = i, !.h = data[i].h]
  <2>3. th' = [th EXCEPT ![t] = r]
    BY <2>1, <2>2 DEF StoreInv, TypeOK
  <2>4. r \in Local /\ r.pc = "look" /\ r.id = i /\ r.h = data[i].h
    BY <2>2 DEF Local, Dataset
  <2> HIDE DEF r
  <2>5. Went(t) /\ th'[t] = r
    BY <2>3, <2>4, GoesTo DEF StoreInv
  <2>6. Works(t)' /\ HeldHandle(t)' = 0 /\ HeldDir(t)' = NoDir
    BY <2>2, <2>4, <2>5 DEF Works, HeldHandle, HeldDir, Ids, Handles
  <2>7. HeldHandle(t) = 0 /\ HeldDir(t) = NoDir
    BY <2>2 DEF HeldHandle, HeldDir
  <2> QED BY <2>2, <2>5, <2>6, <2>7, QuietKeeps
<1>2. CASE NavLook(t)
  <2>1. th[t].pc = "look" /\ proc[Server] = "up" /\ UNCHANGED <<proc, owned, handle, data, image, late>> /\ Works(t)
    BY <1>2, Busy DEF NavLook, At, StoreInv, dirVars, Working
  <2>2. HeldHandle(t) = 0 /\ HeldDir(t) = NoDir
    BY <2>1 DEF HeldHandle, HeldDir
  <2>3. CASE Goto(t, "compute")
    <3>1. Went(t) /\ th'[t].pc = "compute" /\ th'[t].id = th[t].id /\ th'[t].h = th[t].h
      BY <2>3, GotoFacts DEF StoreInv
    <3>2. Works(t)' /\ HeldHandle(t)' = 0 /\ HeldDir(t)' = NoDir
      BY <2>1, <3>1 DEF Works, HeldHandle, HeldDir, Ids, Handles
    <3> QED BY <2>1, <2>2, <3>1, <3>2, QuietKeeps
  <2>4. CASE Answer(t)
    BY <2>1, <2>2, <2>4, AnswerFacts, QuietKeeps DEF StoreInv
  <2> QED BY <1>2, <2>3, <2>4 DEF NavLook
<1> QED BY <1>1, <1>2

LEMMA NavComputeKeeps == ASSUME StoreInv, DirTypeOK', NEW t \in Threads, NavCompute(t) PROVE StoreInv'
<1>1. /\ th[t].pc = "compute" /\ proc[Server] = "up" /\ UNCHANGED <<proc, owned, data, image, late>>
      /\ Works(t) /\ th[t].h \in Handles
  BY Busy DEF NavCompute, At, StoreInv, dirVars, Working, Works
<1>2. HeldHandle(t) = 0 /\ HeldDir(t) = NoDir
  BY <1>1 DEF HeldHandle, HeldDir
<1>3. CASE Answer(t) /\ UNCHANGED handle
  BY <1>1, <1>2, <1>3, AnswerFacts, QuietKeeps DEF StoreInv
<1>4. CASE Goto(t, "register") /\ handle' = [handle EXCEPT ![th[t].h].cached = TRUE]
  <2>1. Went(t) /\ th'[t].pc = "register" /\ th'[t].id = th[t].id /\ th'[t].h = th[t].h
    BY <1>4, GotoFacts DEF StoreInv
  <2>2. handle' \in Seq(HandleRecord) /\ Handles' = Handles /\ \A k : Opens(k)' <=> Opens(k)
    BY <1>1, <1>4, CachedFacts DEF StoreInv
  <2>3. Ids' = Ids /\ Images' = Images
    BY <1>1 DEF Ids, Images
  <2>4. Works(t)' /\ HeldHandle(t)' = 0 /\ HeldDir(t)' = NoDir
    BY <1>1, <2>1, <2>2, <2>3 DEF Works, HeldHandle, HeldDir
  <2>5. Handled' /\ Copied'
    BY <1>1, <1>2, <2>1, <2>2, <2>3, <2>4, OthersHold, HandledSame, CopiedSame DEF StoreInv
  <2>6. Navigated'
    BY <1>1, <2>3, NavigatedKeeps DEF StoreInv
  <2> QED BY <1>1, <2>1, <2>2, <2>3, <2>4, <2>5, <2>6, RequestKeeps DEF StoreInv, TypeOK
<1> QED BY <1>3, <1>4 DEF NavCompute

LEMMA NavRegisterKeeps == ASSUME StoreInv, DirTypeOK', NEW t \in Threads, NavRegister(t) PROVE StoreInv'
<1> DEFINE k == Len(image) + 1
<1>1. /\ th[t].pc = "register" /\ proc[Server] = "up" /\ UNCHANGED <<proc, owned, handle, data, late>>
      /\ Works(t) /\ th[t] \in Local /\ image' = Append(image, [h |-> th[t].h, open |-> TRUE])
      /\ th' = [th EXCEPT ![t].pc = "associate", ![t].img = k]
  BY Busy DEF NavRegister, At, StoreInv, dirVars, Working, TypeOK
<1>2. HeldHandle(t) = 0 /\ HeldDir(t) = NoDir
  BY <1>1 DEF HeldHandle, HeldDir
<1>3. /\ image' \in Seq(Image) /\ Images \subseteq Images' /\ k \in Images'
      /\ image'[k].h = th[t].h /\ \A l \in Images : image'[l].h = image[l].h
  BY <1>1, NewImageFacts DEF StoreInv, Local
<1>4. k \in Nat
  BY LenProperties DEF StoreInv, TypeOK
<1> HIDE DEF k
<1> DEFINE r == [th[t] EXCEPT !.pc = "associate", !.img = k]
<1>5. th' = [th EXCEPT ![t] = r]
  BY <1>1 DEF StoreInv, TypeOK
<1>6. r \in Local /\ r.pc = "associate" /\ r.img = k /\ r.h = th[t].h /\ r.id = th[t].id
  BY <1>1, <1>4 DEF Local
<1> HIDE DEF r
<1>7. Went(t) /\ th'[t] = r
  BY <1>5, <1>6, GoesTo DEF StoreInv
<1>8. Ids' = Ids /\ Handles' = Handles /\ \A h : Opens(h)' <=> Opens(h)
  BY <1>1 DEF Ids, Handles, Opens
<1>9. Works(t)' /\ HeldHandle(t)' = 0 /\ HeldDir(t)' = NoDir
  <2>1. th[t].id \in Ids /\ th[t].h \in Handles
    BY <1>1 DEF Works
  <2>2. /\ th'[t].pc = "associate" /\ th'[t].id \in Ids' /\ th'[t].h \in Handles'
        /\ th'[t].img \in Images' /\ image'[th'[t].img].h = th'[t].h
    BY <1>3, <1>6, <1>7, <1>8, <2>1
  <2> QED BY <2>2 DEF Works, HeldHandle, HeldDir
<1>10. Handled' /\ Copied'
  BY <1>1, <1>2, <1>7, <1>8, <1>9, OthersHold, HandledSame, CopiedSame DEF StoreInv
<1>11. Navigated'
  BY <1>1, <1>3, <1>8, NavigatedKeeps DEF StoreInv
<1> QED BY <1>1, <1>3, <1>7, <1>8, <1>9, <1>10, <1>11, RequestKeeps DEF StoreInv, TypeOK

\* The image an association stores was computed from the handle the request
\* read: if the dataset has another by now, the association is a late one.
LEMMA NavAssociateKeeps == ASSUME StoreInv, DirTypeOK', NEW t \in Threads, NavAssociate(t) PROVE StoreInv'
<1> DEFINE i == th[t].id
           k == th[t].img
<1>1. /\ th[t].pc = "associate" /\ proc[Server] = "up" /\ UNCHANGED <<proc, owned, handle, image>>
      /\ th[t] \in Local /\ i \in Ids /\ k \in Images /\ image[k].h = th[t].h
      /\ data' = [data EXCEPT ![i].nav = k]
      /\ late' = IF data[i].h # th[t].h THEN late \cup {k} ELSE late
  BY Busy DEF NavAssociate, At, StoreInv, dirVars, Working, Works, TypeOK
<1>2. HeldHandle(t) = 0 /\ HeldDir(t) = NoDir
  BY <1>1 DEF HeldHandle, HeldDir
<1>3. Went(t) /\ Works(t)' /\ HeldHandle(t)' = 0 /\ HeldDir(t)' = NoDir
  BY AnswerFacts DEF NavAssociate, StoreInv
<1>4. k \in Nat
  BY <1>1 DEF Local
<1> HIDE DEF i, k
<1>5. /\ data' \in Seq(Dataset) /\ Ids' = Ids
      /\ data'[i].h = data[i].h /\ data'[i].nav = k /\ data'[i].dir = data[i].dir
      /\ \A j \in Ids : j # i => data'[j] = data[j]
  BY <1>1, <1>4, AssociateFacts DEF StoreInv
<1>6. Handles' = Handles /\ Images' = Images /\ \A h : Opens(h)' <=> Opens(h)
  BY <1>1 DEF Handles, Images, Opens
<1>7. Handled' /\ Copied'
  <2>1. \A j \in Ids : data'[j].h = data[j].h /\ data'[j].dir = data[j].dir
    BY <1>5
  <2>2. \A u \in Threads : HeldHandle(u)' = HeldHandle(u) /\ HeldDir(u)' = HeldDir(u)
    BY <1>2, <1>3, OthersHold
  <2> QED BY <1>1, <1>5, <1>6, <2>1, <2>2, HandledSame, CopiedSame DEF StoreInv
<1>8. Navigated'
  <2>1. late' \subseteq Images' /\ late \subseteq late'
    BY <1>1, <1>6 DEF StoreInv, Navigated
  <2>2. ASSUME NEW j \in Ids, NEW n, n = data'[j].nav, n # 0
        PROVE  n \in Images /\ (n \in late' \/ image[n].h = data'[j].h)
    <3>1. CASE j = i
      BY <1>1, <1>5, <2>2, <3>1
    <3>2. CASE j # i
      <4>1. data'[j] = data[j]
        BY <1>5, <3>2
      <4> QED BY <2>1, <2>2, <4>1 DEF StoreInv, Navigated, NavDescribesRaster
    <3> QED BY <3>1, <3>2
  <2> QED BY <1>1, <1>5, <1>6, <2>1, <2>2 DEF Navigated, NavDescribesRaster
<1>9. late' \subseteq Nat
  BY <1>1, <1>4 DEF StoreInv, TypeOK
<1> QED BY <1>1, <1>3, <1>5, <1>6, <1>7, <1>8, <1>9, RequestKeeps DEF StoreInv, TypeOK

LEMMA RequestsKeep == ASSUME DirInv, StoreInv, DirTypeOK', NEW t \in Threads, Request(t) PROVE StoreInv'
BY OpenPathKeeps, UploadStartKeeps, UploadLockKeeps, UploadLoadKeeps, UploadAddKeeps, CloseKeeps, CloseHandleKeeps,
   ReleaseKeeps, ReshapeKeeps, ReshapeLoadKeeps, ReshapeReplaceKeeps, ReshapeCloseKeeps, NavStartKeeps,
   NavComputeKeeps, NavRegisterKeeps, NavAssociateKeeps DEF Request

---------------------------------------------------------------------------
\* The other steps: images are closed, the server ends, directories change.

\* Nothing of the store changes, and no lock of the server's.
LEMMA ElsewhereKeeps ==
    ASSUME StoreInv, DirTypeOK', UNCHANGED store, owned' = owned,
           proc[Server] = "up" => proc'[Server] = "up" \/ \A t \in Threads : th[t] = Idle
    PROVE  StoreInv'
<1>1. /\ Ids' = Ids /\ Handles' = Handles /\ Images' = Images /\ \A h : Opens(h)' <=> Opens(h)
      /\ \A t \in Threads : HeldHandle(t)' = HeldHandle(t) /\ HeldDir(t)' = HeldDir(t)
  BY DEF store, Ids, Handles, Images, Opens, HeldHandle, HeldDir
<1>2. Handled' /\ Copied'
  BY <1>1, HandledSame, CopiedSame DEF StoreInv, store
<1>3. Navigated'
  BY <1>1, NavigatedKeeps DEF StoreInv, store
<1>4. Served'
  BY DEF StoreInv, Served, store
<1>5. Working'
  BY <1>1 DEF StoreInv, Working, Works, store
<1>6. TypeOK'
  BY DEF StoreInv, TypeOK, store
<1> QED BY <1>2, <1>3, <1>4, <1>5, <1>6 DEF StoreInv

LEMMA CloseImageKeeps == ASSUME StoreInv, DirTypeOK', CloseImage PROVE StoreInv'
<1>1. PICK k \in Images : image' = [image EXCEPT ![k].open = FALSE]
  BY DEF CloseImage
<1>2. UNCHANGED <<proc, owned, handle, data, th, late>>
  BY DEF CloseImage, dirVars
<1>3. image' \in Seq(Image) /\ Images' = Images /\ \A l \in Images : image'[l].h = image[l].h
  BY <1>1, ImageClosedFacts DEF StoreInv
<1>4. /\ Ids' = Ids /\ Handles' = Handles /\ \A h : Opens(h)' <=> Opens(h)
      /\ \A t \in Threads : HeldHandle(t)' = HeldHandle(t) /\ HeldDir(t)' = HeldDir(t)
  BY <1>2 DEF Ids, Handles, Opens, HeldHandle, HeldDir
<1>5. Handled' /\ Copied'
  BY <1>2, <1>4, HandledSame, CopiedSame DEF StoreInv
<1>6. Navigated'
  BY <1>2, <1>3, <1>4, NavigatedKeeps DEF StoreInv
<1>7. Served'
  BY <1>2 DEF StoreInv, Served
<1>8. Working'
  BY <1>2, <1>3, <1>4 DEF StoreInv, Working, Works
<1>9. TypeOK'
  BY <1>2, <1>3 DEF StoreInv, TypeOK
<1> QED BY <1>5, <1>6, <1>7, <1>8, <1>9 DEF StoreInv

\* While the server stops no request runs.
LEMMA StopCloseKeeps == ASSUME StoreInv, DirTypeOK', NEW i \in Ids, StopClose(i) PROVE StoreInv'
<1>1. /\ data[i].dir # NoDir /\ data' = CloseId(i) /\ handle' = Closed(data[i].h)
      /\ UNCHANGED <<proc, image, th, late>> /\ owned' = owned \ {data[i].dir}
      /\ data[i].h # 0 /\ data[i].h \in Handles
  BY DEF StopClose, Release, StoreInv, Copied, Handled, Opens
<1>2. /\ data' \in Seq(Dataset) /\ Ids' = Ids
      /\ data'[i].h = 0 /\ data'[i].nav = 0 /\ data'[i].dir = NoDir
      /\ \A j \in Ids : j # i => data'[j] = data[j]
  BY <1>1, CloseIdFacts DEF StoreInv
<1>3. /\ handle' \in Seq(HandleRecord) /\ Handles' = Handles
      /\ \A k : Opens(k)' <=> Opens(k) /\ k # data[i].h
  BY <1>1, ClosedFacts DEF StoreInv
<1>4. Images' = Images /\ \A t \in Threads : HeldHandle(t)' = HeldHandle(t) /\ HeldDir(t)' = HeldDir(t)
  BY <1>1 DEF Images, HeldHandle, HeldDir
<1>5. Handled'
  BY <1>1, <1>2, <1>3, <1>4, HandledDropped DEF StoreInv
<1>6. Copied'
  BY <1>1, <1>2, <1>4, CopiedReleased DEF StoreInv
<1>7. Navigated'
  BY <1>1, <1>2, <1>4, NavigatedKeeps DEF StoreInv
<1>8. Served' /\ Working'
  BY <1>1, <1>2, <1>3, <1>4 DEF StoreInv, Served, Working, Works
<1>9. TypeOK'
  BY <1>1, <1>2, <1>3 DEF StoreInv, TypeOK
<1> QED BY <1>5, <1>6, <1>7, <1>8, <1>9 DEF StoreInv

LEMMA StoppedKeeps == ASSUME StoreInv, DirTypeOK', Stopped PROVE StoreInv'
<1>1. /\ \A i \in Ids : data[i].dir = NoDir
      /\ UNCHANGED store /\ owned' = {}
      /\ \A t \in Threads : th[t] = Idle
  BY DEF Stopped, Exit, StoreInv, Served
<1>2. \A t \in Threads : HeldDir(t) = NoDir
  BY <1>1, IdleLocal DEF HeldDir
<1>3. owned = {}
  BY <1>1, <1>2, NoDirFree DEF StoreInv, Copied, TypeOK
<1>4. owned' = owned
  BY <1>1, <1>3
<1>5. UNCHANGED store /\ proc[Server] # "up"
  BY DEF Stopped
<1> QED BY <1>4, <1>5, ElsewhereKeeps

LEMMA CrashKeeps == ASSUME StoreInv, DirTypeOK', Crash PROVE StoreInv'
<1> DEFINE none == [h |-> 0, nav |-> 0, dir |-> NoDir]
<1>1. /\ data' = [i \in Ids |-> none] /\ handle' = [h \in Handles |-> [handle[h] EXCEPT !.closed = TRUE]]
      /\ image' = [k \in Images |-> [image[k] EXCEPT !.open = FALSE]]
      /\ th' = [t \in Threads |-> Idle] /\ late' = late /\ owned' = {}
  BY DEF Crash, Exit
<1>2. /\ Len(data) \in Nat /\ Len(handle) \in Nat /\ Len(image) \in Nat
      /\ \A h \in Handles : handle[h] \in HandleRecord
      /\ \A k \in Images : image[k] \in Image
  BY LenProperties, ElementOfSeq DEF StoreInv, TypeOK, Handles, Images
<1>3. data' \in Seq(Dataset) /\ Ids' = Ids /\ \A i \in Ids : data'[i].h = 0 /\ data'[i].nav = 0 /\ data'[i].dir = NoDir
  <2>1. data' \in [1 .. Len(data) -> Dataset]
    BY <1>1 DEF Ids, Dataset
  <2>2. data' \in Seq(Dataset) /\ Len(data') = Len(data)
    BY <1>2, <2>1
  <2> QED BY <1>1, <2>2 DEF Ids
<1>4. handle' \in Seq(HandleRecord) /\ Handles' = Handles /\ \A h \in Handles : handle'[h].closed
  <2>1. \A h \in Handles : [handle[h] EXCEPT !.closed = TRUE] \in HandleRecord /\ [handle[h] EXCEPT !.closed = TRUE].closed
    BY <1>2 DEF HandleRecord
  <2>2. handle' \in [1 .. Len(handle) -> HandleRecord]
    BY <1>1, <2>1 DEF Handles
  <2>3. handle' \in Seq(HandleRecord) /\ Len(handle') = Len(handle)
    BY <1>2, <2>2
  <2> QED BY <1>1, <2>1, <2>3 DEF Handles
<1>5. image' \in Seq(Image) /\ Images' = Images /\ \A k \in Images : image'[k].h = image[k].h
  <2>1. \A k \in Images : [image[k] EXCEPT !.open = FALSE] \in Image /\ [image[k] EXCEPT !.open = FALSE].h = image[k].h
    BY <1>2 DEF Image
  <2>2. image' \in [1 .. Len(image) -> Image]
    BY <1>1, <2>1 DEF Images
  <2>3. image' \in Seq(Image) /\ Len(image') = Len(image)
    BY <1>2, <2>2
  <2> QED BY <1>1, <2>1, <2>3 DEF Images
<1>6. \A t \in Threads : th'[t] = Idle /\ HeldHandle(t)' = 0 /\ HeldDir(t)' = NoDir /\ Works(t)'
  BY <1>1, IdleLocal DEF HeldHandle, HeldDir, Works
<1>7. Handled'
  <2>1. \A h : ~Opens(h)'
    BY <1>4 DEF Opens
  <2> QED BY <1>3, <1>6, <2>1, HandledNone
<1>8. Copied'
  BY <1>1, <1>3, <1>6, CopiedNone
<1>9. Navigated'
  BY <1>1, <1>3, <1>5, NavigatedKeeps DEF StoreInv
<1>10. TypeOK'
  BY <1>1, <1>3, <1>4, <1>5, IdleLocal DEF StoreInv, TypeOK
<1> QED BY <1>6, <1>7, <1>8, <1>9, <1>10 DEF StoreInv, Served, Working

LEMMA StoreInvStep == ASSUME DirInv, StoreInv, [Next]_vars PROVE StoreInv'
<1>1. DirInv' /\ DirTypeOK'
  BY StepDirs, NextDirInv DEF DirInv
<1>2. ASSUME NEW t \in Threads, Request(t) PROVE StoreInv'
  BY <1>1, <1>2, RequestsKeep
<1>3. CASE CloseImage \/ Stopped \/ Crash
  BY <1>1, <1>3, CloseImageKeeps, StoppedKeeps, CrashKeeps
<1>4. ASSUME NEW i \in Ids, StopClose(i) PROVE StoreInv'
  BY <1>1, <1>4, StopCloseKeeps
<1>5. CASE Stop
  <2>1. \A t \in Threads : th[t] = Idle
    BY <1>5 DEF Stop
  <2> QED BY <1>1, <1>5, <2>1, ElsewhereKeeps DEF Stop, Stopping
<1>6. ASSUME NEW p \in Procs, Sweep(p), UNCHANGED store PROVE StoreInv'
  <2>1. owned' = owned
    BY <1>6 DEF Sweep, StartSweep, SweepLook, SweepLetGo, SweepRemove, SweepDone
  <2>2. proc[Server] = "up" => proc'[Server] = "up"
    BY <1>6, ServerAssumption
       DEF Sweep, StartSweep, SweepLook, SweepLetGo, SweepRemove, SweepDone, StoreInv, TypeOK, DirTypeOK
  <2> QED BY <1>1, <1>6, <2>1, <2>2, ElsewhereKeeps
<1>7. ASSUME NEW d \in Dirs, Age(d), UNCHANGED store PROVE StoreInv'
  BY <1>1, <1>7, ElsewhereKeeps DEF Age
<1>8. CASE UNCHANGED vars
  BY <1>1, <1>8, ElsewhereKeeps DEF vars, dirVars
<1> QED BY <1>2, <1>3, <1>4, <1>5, <1>6, <1>7, <1>8 DEF Next

LEMMA InitStoreInv == Init => StoreInv
<1> SUFFICES ASSUME Init PROVE StoreInv
  OBVIOUS
<1>1. handle = <<>> /\ data = <<>> /\ image = <<>> /\ late = {} /\ owned = {} /\ th = [t \in Threads |-> Idle]
  BY DEF Init, DirInit
<1>2. Handles = {} /\ Ids = {} /\ Images = {}
  BY <1>1 DEF Handles, Ids, Images
<1>3. \A t \in Threads : th[t] = Idle /\ HeldHandle(t) = 0 /\ HeldDir(t) = NoDir /\ Works(t)
  BY <1>1, IdleLocal DEF HeldHandle, HeldDir, Works
<1>4. TypeOK
  <2>1. DirTypeOK
    BY InitDirInv DEF Init, DirInv
  <2> QED BY <1>1, <2>1, IdleLocal, EmptySeq DEF TypeOK
<1> QED BY <1>1, <1>2, <1>3, <1>4 DEF StoreInv, Handled, Copied, Served, Working, Navigated, NavDescribesRaster

LEMMA StoreInductive == Spec => []StoreInv
<1>1. Init => DirInv /\ StoreInv
  BY InitDirInv, InitStoreInv DEF Init
<1>2. DirInv /\ StoreInv /\ [Next]_vars => DirInv' /\ StoreInv'
  BY StoreInvStep, StepDirs, NextDirInv DEF DirInv
<1> QED BY <1>1, <1>2, PTL DEF Spec

---------------------------------------------------------------------------

\* Directories, handles, datasets, images and requests keep to their types,
\* for any number of each (session_fourd.py).
THEOREM TypeCorrect == Spec => []TypeOK
BY StoreInductive, PTL DEF StoreInv

\* Whatever reshapes, closes, uploads and sweeps overlap, a listed dataset has
\* an open handle and, if it was uploaded, its locked copy on the disk, unless
\* a sweep had judged the copy's directory before its lock was taken.
THEOREM ListedDatasetsUsable == Spec => []ListedIsUsable
<1>1. StoreInv /\ OwnedStays => ListedIsUsable
  BY DEF StoreInv, Handled, Opens, Copied, OwnedStays, ListedIsUsable, Open
<1> QED BY <1>1, StoreInductive, LockedDirectoryStays, PTL

\* The navigation image of a dataset was computed from the raster it has, but
\* for an association that a reshape or a close overtook.
THEOREM NavigationMatches == Spec => []NavDescribesRaster
BY StoreInductive, PTL DEF StoreInv, Navigated

\* No reshape leaks a handle and no close or failed upload a locked copy: what
\* is open or locked belongs to a listed dataset or a running request.
THEOREM NothingLeft == Spec => []NothingLeaks
<1>1. StoreInv => NothingLeaks
  <2> SUFFICES ASSUME StoreInv PROVE NothingLeaks
    OBVIOUS
  <2>1. ASSUME NEW h \in Handles, ~handle[h].closed
        PROVE  (\E i \in Ids : data[i].h = h) \/ (\E t \in Threads : th[t].h = h)
    <3>1. h # 0 /\ Opens(h)
      BY <2>1 DEF Opens, Handles
    <3> QED BY <3>1, <2>1 DEF StoreInv, Handled, HeldHandle
  <2>2. ASSUME NEW d \in owned
        PROVE  (\E i \in Ids : data[i].dir = d) \/ (\E t \in Threads : th[t].d = d)
    <3>1. d # NoDir
      BY <2>2, NoDirFree DEF StoreInv, TypeOK
    <3> QED BY <3>1, <2>2 DEF StoreInv, Copied, HeldDir
  <2> QED BY <2>1, <2>2 DEF NothingLeaks
<1> QED BY <1>1, StoreInductive, PTL
=============================================================================
