---------------------------- MODULE ServerProofs ----------------------------
(* Theorems about the two parts of a server that run beside its requests:    *)
(* FolderWatch, for every folder, any number of changes and of watches, and  *)
(* at the end Lifecycle, for every set of tabs and every grace period.       *)
EXTENDS FolderWatch, Lifecycle, FiniteSetTheorems, TLAPS

\* A watcher whose counters are only known to be numbers.
Poller ==
    [at : {"none", "idle", "scan", "submit", "append", "count", "exited"},
     todo : SUBSET Files,
     file : Files \cup {NoFile},
     candidates : [Files -> 0 .. MaxVersion],
     processed : SUBSET Files,
     seen : Nat, handled : Nat, errors : Nat]

FolderTyped ==
    /\ folder \in [Files -> [there : BOOLEAN, copying : BOOLEAN, version : 0 .. MaxVersion]]
    /\ moved \in [Watches -> SUBSET Files]

RoutesTyped ==
    /\ stopped \subseteq Watches
    /\ watcher \in 0 .. MaxWatches
    /\ started \in 0 .. MaxWatches
    /\ jobIds \subseteq Jobs
    /\ stopping \in 0 .. MaxWatches
    /\ submitted \subseteq Jobs
    /\ poolOpen \in BOOLEAN
    /\ server \in {"up", "leaving", "down"}

Done(w) == {f \in Files : <<w, f>> \in submitted}

\* The paths a watch has processed, its counters, the jobs it has submitted and
\* the place of its thread say the same: what is in flight is processed and
\* openable, and has its job exactly from "append" on.
Accounted(w) ==
    /\ poll[w].seen = Cardinality(poll[w].processed)
    /\ poll[w].at \in {"submit", "append", "count"} <=> poll[w].file # NoFile
    /\ poll[w].file # NoFile =>
          /\ poll[w].file \in poll[w].processed
          /\ Cardinality(poll[w].processed \cap Openable) = poll[w].handled + poll[w].errors + 1
    /\ poll[w].file = NoFile =>
          Cardinality(poll[w].processed \cap Openable) = poll[w].handled + poll[w].errors
    /\ Done(w) \subseteq poll[w].processed
    /\ poll[w].at = "submit" => poll[w].file \notin Done(w)
    /\ poll[w].at \in {"append", "count"} => Cardinality(Done(w)) = poll[w].handled + 1
    /\ poll[w].at \notin {"append", "count"} => Cardinality(Done(w)) = poll[w].handled

\* What a watch remembers of a path is older than its last change as long as
\* the watch has not looked at it since.
Outdated(w, f) ==
    /\ poll[w].candidates[f] <= folder[f].version
    /\ f \in moved[w] => poll[w].candidates[f] < folder[f].version

IInv ==
    /\ FolderTyped
    /\ RoutesTyped
    /\ poll \in [Watches -> Poller]
    /\ \A w \in Watches : Accounted(w)
    /\ \A w \in Watches : w > started => poll[w].at = "none"
    /\ \A w \in Watches, f \in Files : Outdated(w, f)

----------------------------------------------------------------------------
\* A subset of the files counts to a number, at most that of all files.
LEMMA FileSets ==
    ASSUME NEW S \in SUBSET Files
    PROVE  /\ IsFiniteSet(S)
           /\ Cardinality(S) \in Nat
           /\ Cardinality(Files) \in Nat
           /\ Cardinality(S) <= Cardinality(Files)
BY FilesAssumption, FS_Subset, FS_CardinalityType

\* One more file counts one more.
LEMMA OneMoreFile ==
    ASSUME NEW S \in SUBSET Files, NEW f \in Files, f \notin S
    PROVE  Cardinality(S \cup {f}) = Cardinality(S) + 1
BY FileSets, FS_AddElement

LEMMA InitInv == Init => IInv
<1> SUFFICES ASSUME Init PROVE IInv
  OBVIOUS
<1>1. FolderTyped /\ RoutesTyped
  BY BoundsAssumption DEF Init, FolderTyped, RoutesTyped, Watches, Jobs
<1>2. \A w \in Watches : poll[w] = NewPoll
  BY DEF Init
<1>3. poll \in [Watches -> Poller]
  BY BoundsAssumption DEF Init, NewPoll, Poller
<1>4. ASSUME NEW w \in Watches PROVE Accounted(w)
  <2>1. Done(w) = {}
    BY DEF Done, Init
  <2>2. Cardinality({}) = 0 /\ {} \cap Openable = {}
    BY FS_EmptySet
  <2> QED BY <1>2, <2>1, <2>2 DEF Accounted, NewPoll
<1>5. \A w \in Watches, f \in Files : Outdated(w, f)
  BY <1>2 DEF Init, Outdated, NewPoll
<1> QED BY <1>1, <1>2, <1>3, <1>4, <1>5 DEF IInv, NewPoll

----------------------------------------------------------------------------
(* The folder changes under the watches.                                     *)

\* Where neither watchers nor jobs change, the accounts stay.
LEMMA AccountsStay ==
    ASSUME NEW w \in Watches, Accounted(w), poll'[w] = poll[w], Done(w)' = Done(w)
    PROVE  Accounted(w)'
BY DEF Accounted

LEMMA WriteInv ==
    ASSUME IInv, NEW f \in Files, NEW more \in BOOLEAN, Write(f, more)
    PROVE  IInv'
<1>1. UNCHANGED <<poll, routes, jobs>>
  BY DEF Write
<1>2. FolderTyped'
  BY BoundsAssumption DEF IInv, FolderTyped, Write
<1>3. \A w \in Watches, k \in Files : Outdated(w, k)'
  BY <1>1, BoundsAssumption DEF IInv, FolderTyped, Poller, Write, Outdated
<1>4. RoutesTyped'
  BY <1>1 DEF IInv, RoutesTyped, routes, jobs
<1>5. \A w \in Watches : Accounted(w)'
  BY <1>1, AccountsStay DEF IInv, Done, jobs
<1> QED BY <1>1, <1>2, <1>3, <1>4, <1>5 DEF IInv, routes

LEMMA FinishOrDeleteInv ==
    ASSUME IInv, NEW f \in Files, Finish(f) \/ Delete(f)
    PROVE  IInv'
<1>1. UNCHANGED <<moved, poll, routes, jobs>>
  BY DEF Finish, Delete
<1>2. /\ FolderTyped'
      /\ \A k \in Files : folder'[k].version = folder[k].version
  <2> DEFINE Path == [there : BOOLEAN, copying : BOOLEAN, version : 0 .. MaxVersion]
             closed == [folder[f] EXCEPT !.copying = FALSE]
             gone == [folder[f] EXCEPT !.there = FALSE, !.copying = FALSE]
  <2>1. /\ folder \in [Files -> Path]
        /\ moved' = moved /\ moved \in [Watches -> SUBSET Files]
    BY DEF IInv, FolderTyped, Finish, Delete
  <2>2. /\ closed \in Path /\ closed.version = folder[f].version
        /\ gone \in Path /\ gone.version = folder[f].version
    BY <2>1
  <2>3. Finish(f) => folder' = [folder EXCEPT ![f] = closed]
    BY DEF Finish
  <2>4. Delete(f) => folder' = [folder EXCEPT ![f] = gone]
    BY DEF Delete
  <2>5. FolderTyped <=> folder \in [Files -> Path] /\ moved \in [Watches -> SUBSET Files]
    BY DEF FolderTyped
  <2>6. (FolderTyped <=> folder \in [Files -> Path] /\ moved \in [Watches -> SUBSET Files])'
    BY DEF FolderTyped
  <2> HIDE DEF closed, gone, Path
  <2> QED BY <2>1, <2>2, <2>3, <2>4, <2>6
<1>3. \A w \in Watches, k \in Files : Outdated(w, k)'
  BY <1>1, <1>2 DEF IInv, Outdated
<1>4. RoutesTyped'
  BY <1>1 DEF IInv, RoutesTyped, routes, jobs
<1>5. \A w \in Watches : Accounted(w)'
  BY <1>1, AccountsStay DEF IInv, Done, jobs
<1> QED BY <1>1, <1>2, <1>3, <1>4, <1>5 DEF IInv, routes

----------------------------------------------------------------------------
(* The poll thread.                                                          *)

\* The watcher of w becomes q and no other changes.
Becomes(w, q) ==
    /\ poll' \in [Watches -> Poller]
    /\ poll'[w] = q
    /\ \A v \in Watches : v # w => poll'[v] = poll[v]

LEMMA Replaced ==
    ASSUME IInv, NEW w \in Watches, NEW q \in Poller, poll' = [poll EXCEPT ![w] = q]
    PROVE  Becomes(w, q)
BY DEF IInv, Becomes

\* A step of the thread of one watch: the others stay as they are, and so does
\* all of its own watcher that the step does not name.
LEMMA ThreadOnly ==
    ASSUME IInv, NEW w \in Watches, poll' \in [Watches -> Poller],
           \A v \in Watches : v # w => poll'[v] = poll[v],
           \A v \in Watches : v # w => Done(v)' = Done(v),
           poll[w].at # "none",
           FolderTyped', RoutesTyped', UNCHANGED <<folder, started>>,
           Accounted(w)',
           \A f \in Files : Outdated(w, f)',
           \A v \in Watches : moved'[v] \subseteq moved[v]
    PROVE  IInv'
<1>1. \A v \in Watches : Accounted(v)'
  BY AccountsStay DEF IInv
<1>2. \A v \in Watches, f \in Files : Outdated(v, f)'
  <2>1. ASSUME NEW v \in Watches, NEW f \in Files, v # w PROVE Outdated(v, f)'
    <3>1. poll'[v] = poll[v] /\ folder' = folder /\ moved'[v] \subseteq moved[v]
      BY <2>1
    <3> QED BY <3>1 DEF IInv, Outdated
  <2> QED BY <2>1
<1>3. \A v \in Watches : v > started' => poll'[v].at = "none"
  BY DEF IInv
<1> QED BY <1>1, <1>2, <1>3 DEF IInv

\* A step that moves the thread between "idle", "scan" and "exited" and touches
\* neither counters nor the processed paths.
LEMMA QuietThread ==
    ASSUME IInv, NEW w \in Watches, poll' \in [Watches -> Poller],
           \A v \in Watches : v # w => poll'[v] = poll[v],
           poll[w].at \in {"idle", "scan"}, poll'[w].at \in {"idle", "scan", "exited"},
           poll'[w].file = poll[w].file,
           poll'[w].processed = poll[w].processed,
           poll'[w].seen = poll[w].seen,
           poll'[w].handled = poll[w].handled,
           poll'[w].errors = poll[w].errors,
           FolderTyped', UNCHANGED <<folder, routes, jobs>>,
           \A f \in Files : Outdated(w, f)',
           \A v \in Watches : moved'[v] \subseteq moved[v]
    PROVE  IInv'
<1>1. \A v \in Watches : Done(v)' = Done(v)
  BY DEF Done, jobs
<1>2. Accounted(w)'
  BY <1>1 DEF IInv, Accounted
<1>3. RoutesTyped' /\ started' = started
  BY DEF IInv, RoutesTyped, routes, jobs
<1> QED BY <1>1, <1>2, <1>3, ThreadOnly

LEMMA ScanInv ==
    ASSUME IInv, NEW w \in Watches, Scan(w)
    PROVE  IInv'
<1> DEFINE current == {f \in Files : folder[f].there}
<1>1. Kept(w, current) \in [Files -> 0 .. MaxVersion]
  BY BoundsAssumption DEF Kept, IInv, Poller
<1>2. /\ poll' \in [Watches -> Poller]
      /\ \A v \in Watches : v # w => poll'[v] = poll[v]
      /\ poll[w].at = "idle" /\ poll'[w].at = "scan"
      /\ poll'[w].candidates = Kept(w, current)
      /\ poll'[w].file = poll[w].file
      /\ poll'[w].processed = poll[w].processed
      /\ poll'[w].seen = poll[w].seen
      /\ poll'[w].handled = poll[w].handled
      /\ poll'[w].errors = poll[w].errors
  <2> DEFINE q == [poll[w] EXCEPT !.at = "scan", !.todo = current,
                                  !.candidates = Kept(w, current)]
  <2>1. poll' = [poll EXCEPT ![w] = q] /\ poll[w].at = "idle"
    BY DEF Scan, At
  <2>2. poll[w] \in Poller
    BY DEF IInv
  <2>3. /\ q \in Poller /\ q.at = "scan" /\ q.candidates = Kept(w, current)
        /\ q.file = poll[w].file /\ q.processed = poll[w].processed
        /\ q.seen = poll[w].seen /\ q.handled = poll[w].handled
        /\ q.errors = poll[w].errors
    <3> HIDE DEF current
    <3>1. current \in SUBSET Files
      BY DEF current
    <3> QED BY <1>1, <2>2, <3>1 DEF Poller
  <2> HIDE DEF q
  <2> QED BY <2>1, <2>3, Replaced DEF Becomes
<1>3. UNCHANGED <<folder, moved, routes, jobs>>
  BY DEF Scan
<1>4. \A f \in Files : Outdated(w, f)'
  <2>1. \A f \in Files : Kept(w, current)[f] = 0 \/ Kept(w, current)[f] = poll[w].candidates[f]
    BY DEF Kept
  <2>2. \A f \in Files : /\ Outdated(w, f)
                         /\ folder[f].version \in Nat
                         /\ poll[w].candidates[f] \in Nat
    BY BoundsAssumption DEF IInv, FolderTyped, Poller
  <2> QED BY <1>2, <1>3, <2>1, <2>2 DEF Outdated
<1>5. FolderTyped'
  BY <1>3 DEF IInv, FolderTyped
<1> QED BY <1>2, <1>3, <1>4, <1>5, QuietThread

LEMMA SkipInv ==
    ASSUME IInv, NEW w \in Watches, NEW f \in Files, Skip(w, f)
    PROVE  IInv'
<1>1. /\ poll' \in [Watches -> Poller]
      /\ \A v \in Watches : v # w => poll'[v] = poll[v]
      /\ poll[w].at = "scan" /\ poll'[w].at = "scan"
      /\ poll'[w].candidates = poll[w].candidates
      /\ poll'[w].file = poll[w].file
      /\ poll'[w].processed = poll[w].processed
      /\ poll'[w].seen = poll[w].seen
      /\ poll'[w].handled = poll[w].handled
      /\ poll'[w].errors = poll[w].errors
  <2> DEFINE q == [poll[w] EXCEPT !.todo = @ \ {f}]
  <2>1. poll' = [poll EXCEPT ![w] = q] /\ poll[w].at = "scan"
    BY DEF Skip, At
  <2>2. poll[w] \in Poller
    BY DEF IInv
  <2>3. /\ q \in Poller /\ q.at = poll[w].at /\ q.candidates = poll[w].candidates
        /\ q.file = poll[w].file /\ q.processed = poll[w].processed
        /\ q.seen = poll[w].seen /\ q.handled = poll[w].handled
        /\ q.errors = poll[w].errors
    BY <2>2 DEF Poller
  <2> HIDE DEF q
  <2> QED BY <2>1, <2>3, Replaced DEF Becomes
<1>2. UNCHANGED <<folder, moved, routes, jobs>>
  BY DEF Skip
<1>3. FolderTyped' /\ \A k \in Files : Outdated(w, k)'
  BY <1>1, <1>2 DEF IInv, FolderTyped, Outdated
<1> QED BY <1>1, <1>2, <1>3, QuietThread

LEMMA RememberInv ==
    ASSUME IInv, NEW w \in Watches, NEW f \in Files, Remember(w, f)
    PROVE  IInv'
<1>1. folder[f].version \in 0 .. MaxVersion
  BY DEF IInv, FolderTyped
<1>2. /\ poll' \in [Watches -> Poller]
      /\ \A v \in Watches : v # w => poll'[v] = poll[v]
      /\ poll[w].at = "scan" /\ poll'[w].at = "scan"
      /\ poll'[w].candidates = [poll[w].candidates EXCEPT ![f] = folder[f].version]
      /\ poll'[w].file = poll[w].file
      /\ poll'[w].processed = poll[w].processed
      /\ poll'[w].seen = poll[w].seen
      /\ poll'[w].handled = poll[w].handled
      /\ poll'[w].errors = poll[w].errors
  <2> DEFINE q == [poll[w] EXCEPT !.todo = @ \ {f},
                                  !.candidates = [@ EXCEPT ![f] = folder[f].version]]
  <2>1. poll' = [poll EXCEPT ![w] = q] /\ poll[w].at = "scan"
    BY DEF Remember, Stat, At
  <2>2. poll[w] \in Poller
    BY DEF IInv
  <2>3. /\ q \in Poller /\ q.at = poll[w].at
        /\ q.candidates = [poll[w].candidates EXCEPT ![f] = folder[f].version]
        /\ q.file = poll[w].file /\ q.processed = poll[w].processed
        /\ q.seen = poll[w].seen /\ q.handled = poll[w].handled
        /\ q.errors = poll[w].errors
    BY <1>1, <2>2 DEF Poller
  <2> HIDE DEF q
  <2> QED BY <2>1, <2>3, Replaced DEF Becomes
<1>3. /\ UNCHANGED <<folder, routes, jobs>>
      /\ moved' = [moved EXCEPT ![w] = @ \ {f}]
  BY DEF Remember, Stat
<1>4. FolderTyped' /\ \A v \in Watches : moved'[v] \subseteq moved[v]
  BY <1>3 DEF IInv, FolderTyped
<1>5. ASSUME NEW k \in Files PROVE Outdated(w, k)'
  <2>1. poll[w].candidates \in [Files -> 0 .. MaxVersion] /\ moved'[w] = moved[w] \ {f}
    BY <1>3 DEF IInv, Poller, FolderTyped
  <2>2. CASE k = f
    BY <1>1, <1>2, <1>3, <2>1, <2>2, BoundsAssumption DEF Outdated
  <2>3. CASE k # f
    <3>1. Outdated(w, k)
      BY DEF IInv
    <3> QED BY <1>2, <1>3, <2>1, <2>3, <3>1 DEF Outdated
  <2> QED BY <2>2, <2>3
<1> QED BY <1>2, <1>3, <1>4, <1>5, QuietThread

LEMMA FireInv ==
    ASSUME IInv, NEW w \in Watches, NEW f \in Files, Fire(w, f)
    PROVE  IInv'
<1>1. /\ poll[w].at = "scan"
      /\ f \notin poll[w].processed
      /\ poll[w] \in Poller
      /\ Accounted(w)
  BY DEF IInv, Fire, Stat, At
<1>2. /\ poll' \in [Watches -> Poller]
      /\ \A v \in Watches : v # w => poll'[v] = poll[v]
      /\ poll'[w].candidates = [poll[w].candidates EXCEPT ![f] = 0]
      /\ poll'[w].processed = poll[w].processed \cup {f}
      /\ poll'[w].seen = poll[w].seen + 1
      /\ poll'[w].handled = poll[w].handled
      /\ poll'[w].errors = poll[w].errors
      /\ f \in Openable => poll'[w].file = f /\ poll'[w].at = "submit"
      /\ f \notin Openable => poll'[w].file = poll[w].file /\ poll'[w].at = poll[w].at
  <2> DEFINE q == [poll[w] EXCEPT !.todo = @ \ {f},
                                  !.candidates = [@ EXCEPT ![f] = 0],
                                  !.processed = Marked(w, f),
                                  !.seen = @ + 1,
                                  !.file = IF f \in Openable THEN f ELSE @,
                                  !.at = IF f \in Openable THEN "submit" ELSE @]
  <2>1. poll' = [poll EXCEPT ![w] = q]
    BY DEF Fire
  <2>2. /\ q.candidates = [poll[w].candidates EXCEPT ![f] = 0]
        /\ q.processed = poll[w].processed \cup {f}
        /\ q.seen = poll[w].seen + 1
        /\ q.handled = poll[w].handled /\ q.errors = poll[w].errors
        /\ f \in Openable => q.file = f /\ q.at = "submit"
        /\ f \notin Openable => q.file = poll[w].file /\ q.at = poll[w].at
    BY <1>1 DEF Poller, Marked
  <2>3. q \in Poller
    <3>1. /\ [poll[w].candidates EXCEPT ![f] = 0] \in [Files -> 0 .. MaxVersion]
          /\ Marked(w, f) \in SUBSET Files
          /\ poll[w].todo \ {f} \in SUBSET Files
          /\ poll[w].seen + 1 \in Nat
      BY <1>1, BoundsAssumption DEF Poller, Marked
    <3>2. /\ (IF f \in Openable THEN f ELSE poll[w].file) \in Files \cup {NoFile}
          /\ (IF f \in Openable THEN "submit" ELSE poll[w].at) \in
                {"none", "idle", "scan", "submit", "append", "count", "exited"}
      BY <1>1 DEF Poller
    <3> QED BY <1>1, <3>1, <3>2 DEF Poller
  <2> HIDE DEF q
  <2> QED BY <2>1, <2>2, <2>3, Replaced DEF Becomes
<1>4. /\ UNCHANGED <<folder, routes, jobs>>
      /\ moved' = [moved EXCEPT ![w] = @ \ {f}]
  BY DEF Fire, Stat
<1>5. /\ FolderTyped'
      /\ RoutesTyped'
      /\ started' = started
      /\ \A v \in Watches : moved'[v] \subseteq moved[v]
      /\ \A v \in Watches : Done(v)' = Done(v)
  BY <1>4 DEF IInv, FolderTyped, RoutesTyped, routes, jobs, Done
<1>6. ASSUME NEW k \in Files PROVE Outdated(w, k)'
  <2>1. /\ Outdated(w, k)
        /\ poll[w].candidates \in [Files -> 0 .. MaxVersion]
        /\ folder[k].version \in Nat
        /\ moved'[w] = moved[w] \ {f}
    BY <1>1, <1>4, BoundsAssumption DEF IInv, FolderTyped, Poller
  <2> QED BY <1>2, <1>4, <2>1 DEF Outdated
<1>7. Accounted(w)'
  <2> DEFINE P == poll[w].processed
  <2>1. P \in SUBSET Files /\ P \cap Openable \in SUBSET Files /\ f \notin P
    BY <1>1 DEF Poller
  <2>2. Cardinality(P \cup {f}) = Cardinality(P) + 1
    BY <2>1, OneMoreFile
  <2>3. poll[w].file = NoFile /\ NoFile # f
    BY <1>1, FilesAssumption DEF Accounted
  <2>4. Done(w)' = Done(w) /\ Done(w) \subseteq P
    BY <1>1, <1>5 DEF Accounted
  <2>5. CASE f \in Openable
    <3>1. (P \cup {f}) \cap Openable = (P \cap Openable) \cup {f}
      BY <2>5
    <3>2. Cardinality((P \cup {f}) \cap Openable) = Cardinality(P \cap Openable) + 1
      BY <2>1, <3>1, OneMoreFile
    <3> QED BY <1>1, <1>2, <2>1, <2>2, <2>3, <2>4, <2>5, <3>2 DEF Accounted
  <2>6. CASE f \notin Openable
    <3>1. (P \cup {f}) \cap Openable = P \cap Openable
      BY <2>6
    <3> QED BY <1>1, <1>2, <2>1, <2>2, <2>3, <2>4, <2>6, <3>1 DEF Accounted
  <2> QED BY <2>5, <2>6
<1>8. poll[w].at # "none" /\ folder' = folder
  BY <1>1, <1>4
<1> QED BY <1>2, <1>5, <1>6, <1>7, <1>8, ThreadOnly

LEMMA SubmitJobInv ==
    ASSUME IInv, NEW w \in Watches, SubmitJob(w)
    PROVE  IInv'
<1> DEFINE q == [poll[w] EXCEPT !.at = "append"]
           f == poll[w].file
<1>1. poll[w] \in Poller /\ Accounted(w) /\ poll[w].at = "submit"
  BY DEF IInv, SubmitJob, At
<1>2. /\ q \in Poller /\ q.at = "append" /\ q.candidates = poll[w].candidates
      /\ q.file = f /\ q.processed = poll[w].processed
      /\ q.seen = poll[w].seen /\ q.handled = poll[w].handled
      /\ q.errors = poll[w].errors
  BY <1>1 DEF Poller
<1>3. Becomes(w, q)
  <2>1. poll' = [poll EXCEPT ![w] = q]
    BY DEF SubmitJob
  <2> HIDE DEF q
  <2> QED BY <1>2, <2>1, Replaced
<1>4. f # NoFile /\ f \in poll[w].processed /\ f \in Files /\ f \notin Done(w)
  BY <1>1 DEF Accounted, Poller
<1>5. submitted' = submitted \cup {<<w, f>>}
  BY DEF SubmitJob
<1>6. /\ Done(w)' = Done(w) \cup {f}
      /\ \A v \in Watches : v # w => Done(v)' = Done(v)
  BY <1>4, <1>5 DEF Done
<1>7. Cardinality(Done(w) \cup {f}) = Cardinality(Done(w)) + 1
  BY <1>4, OneMoreFile DEF Done
<1>8. UNCHANGED <<folder, moved, routes, jobIds>> /\ poolOpen' = TRUE
  BY DEF SubmitJob
<1>9. /\ FolderTyped'
      /\ RoutesTyped'
      /\ started' = started
      /\ \A k \in Files : Outdated(w, k)'
  <2>1. <<w, f>> \in Jobs
    BY <1>4 DEF Jobs
  <2> QED BY <1>2, <1>3, <1>5, <1>8, <2>1
          DEF IInv, FolderTyped, RoutesTyped, routes, Outdated, Becomes
<1>10. Accounted(w)'
  <2> HIDE DEF q, f
  <2> QED BY <1>1, <1>2, <1>3, <1>4, <1>6, <1>7 DEF Accounted, Becomes
<1> QED
  <2> HIDE DEF q, f
  <2> QED BY <1>1, <1>3, <1>6, <1>8, <1>9, <1>10, ThreadOnly DEF Becomes

LEMMA AppendIdInv ==
    ASSUME IInv, NEW w \in Watches, AppendId(w)
    PROVE  IInv'
<1> DEFINE q == [poll[w] EXCEPT !.at = "count"]
<1>1. poll[w] \in Poller /\ Accounted(w) /\ poll[w].at = "append"
  BY DEF IInv, AppendId, At
<1>2. /\ q \in Poller /\ q.at = "count" /\ q.candidates = poll[w].candidates
      /\ q.file = poll[w].file /\ q.processed = poll[w].processed
      /\ q.seen = poll[w].seen /\ q.handled = poll[w].handled
      /\ q.errors = poll[w].errors
  BY <1>1 DEF Poller
<1>3. Becomes(w, q)
  <2>1. poll' = [poll EXCEPT ![w] = q]
    BY DEF AppendId
  <2> HIDE DEF q
  <2> QED BY <1>2, <2>1, Replaced
<1>4. /\ UNCHANGED <<folder, moved, routes, submitted, poolOpen>>
      /\ jobIds' = jobIds \cup {<<w, poll[w].file>>}
  BY DEF AppendId
<1>5. \A v \in Watches : Done(v)' = Done(v)
  BY <1>4 DEF Done
<1>6. /\ FolderTyped'
      /\ RoutesTyped'
      /\ started' = started
      /\ \A k \in Files : Outdated(w, k)'
  <2>1. <<w, poll[w].file>> \in Jobs
    BY <1>1 DEF Accounted, Poller, Jobs
  <2> QED BY <1>2, <1>3, <1>4, <2>1
          DEF IInv, FolderTyped, RoutesTyped, routes, Outdated, Becomes
<1>7. Accounted(w)'
  <2> HIDE DEF q
  <2> QED BY <1>1, <1>2, <1>3, <1>5 DEF Accounted, Becomes
<1> QED
  <2> HIDE DEF q
  <2> QED BY <1>1, <1>3, <1>4, <1>5, <1>6, <1>7, ThreadOnly DEF Becomes

\* The file in flight has been handled, or refused by a full queue.
LEMMA CountInv ==
    ASSUME IInv, NEW w \in Watches, Count(w) \/ QueueFull(w)
    PROVE  IInv'
<1> DEFINE handled == [poll[w] EXCEPT !.at = "scan", !.file = NoFile,
                                      !.handled = poll[w].handled + 1]
           refused == [poll[w] EXCEPT !.at = "scan", !.file = NoFile,
                                      !.errors = poll[w].errors + 1]
<1>1. /\ poll[w] \in Poller
      /\ Accounted(w)
      /\ poll[w].at \in {"submit", "count"}
      /\ Count(w) => poll[w].at = "count"
      /\ QueueFull(w) => poll[w].at = "submit"
  BY DEF IInv, Count, QueueFull, At
<1>2. /\ handled \in Poller /\ handled.at = "scan"
      /\ handled.candidates = poll[w].candidates
      /\ handled.file = NoFile /\ handled.processed = poll[w].processed
      /\ handled.seen = poll[w].seen /\ handled.handled = poll[w].handled + 1
      /\ handled.errors = poll[w].errors
  <2>1. poll[w] \in Poller /\ poll[w].handled + 1 \in Nat
    BY <1>1 DEF Poller
  <2> QED BY <2>1 DEF Poller
<1>3. /\ refused \in Poller /\ refused.at = "scan"
      /\ refused.candidates = poll[w].candidates
      /\ refused.file = NoFile /\ refused.processed = poll[w].processed
      /\ refused.seen = poll[w].seen /\ refused.handled = poll[w].handled
      /\ refused.errors = poll[w].errors + 1
  <2>1. poll[w] \in Poller /\ poll[w].errors + 1 \in Nat
    BY <1>1 DEF Poller
  <2> QED BY <2>1 DEF Poller
<1>4. /\ Count(w) => Becomes(w, handled)
      /\ QueueFull(w) => Becomes(w, refused)
  <2>1. /\ Count(w) => poll' = [poll EXCEPT ![w] = handled]
        /\ QueueFull(w) => poll' = [poll EXCEPT ![w] = refused]
    BY DEF Count, QueueFull
  <2> HIDE DEF handled, refused
  <2> QED BY <1>2, <1>3, <2>1, Replaced
<1>5. UNCHANGED <<folder, moved, routes, jobs>>
  BY DEF Count, QueueFull
<1>6. \A v \in Watches : Done(v)' = Done(v)
  BY <1>5 DEF Done, jobs
<1>7. /\ poll' \in [Watches -> Poller]
      /\ \A v \in Watches : v # w => poll'[v] = poll[v]
      /\ poll'[w].candidates = poll[w].candidates
  <2> HIDE DEF handled, refused
  <2> QED BY <1>2, <1>3, <1>4 DEF Becomes
<1>8. /\ FolderTyped'
      /\ RoutesTyped'
      /\ started' = started
      /\ \A k \in Files : Outdated(w, k)'
  BY <1>5, <1>7 DEF IInv, FolderTyped, RoutesTyped, routes, jobs, Outdated
<1>9. Accounted(w)'
  <2> HIDE DEF handled, refused
  <2>1. poll[w].handled \in Nat /\ poll[w].errors \in Nat
    BY <1>1 DEF Poller
  <2>2. CASE Count(w)
    BY <1>1, <1>2, <1>4, <1>6, <2>1, <2>2 DEF Accounted, Becomes
  <2>3. CASE QueueFull(w)
    <3>1. poll'[w] = refused /\ poll[w].at = "submit"
      BY <1>1, <1>4, <2>3 DEF Becomes
    <3>2. /\ Cardinality(poll[w].processed \cap Openable)
                = poll[w].handled + (poll[w].errors + 1)
          /\ Cardinality(Done(w)) = poll[w].handled
      BY <1>1, <2>1, <3>1 DEF Accounted
    <3>3. Done(w)' = Done(w)
      BY <1>6
    <3>4. poll[w].seen = Cardinality(poll[w].processed) /\ Done(w) \subseteq poll[w].processed
      BY <1>1 DEF Accounted
    <3> QED BY <1>3, <3>1, <3>2, <3>3, <3>4 DEF Accounted
  <2> QED BY <2>2, <2>3
<1> QED BY <1>1, <1>5, <1>6, <1>7, <1>8, <1>9, ThreadOnly

\* A scan ends, and a stopped thread with it.
LEMMA EndInv ==
    ASSUME IInv, NEW w \in Watches, EndScan(w) \/ ExitThread(w)
    PROVE  IInv'
<1> DEFINE q(place) == [poll[w] EXCEPT !.at = place]
<1>1. poll[w] \in Poller /\ poll[w].at \in {"idle", "scan"}
  BY DEF IInv, EndScan, ExitThread, At
<1>2. \A place \in {"idle", "exited"} :
          /\ q(place) \in Poller /\ q(place).at = place
          /\ q(place).candidates = poll[w].candidates
          /\ q(place).file = poll[w].file /\ q(place).processed = poll[w].processed
          /\ q(place).seen = poll[w].seen /\ q(place).handled = poll[w].handled
          /\ q(place).errors = poll[w].errors
  BY <1>1 DEF Poller
<1>3. PICK place \in {"idle", "exited"} : Becomes(w, q(place))
  <2>1. poll' = [poll EXCEPT ![w] = q("idle")] \/ poll' = [poll EXCEPT ![w] = q("exited")]
    BY DEF EndScan, ExitThread
  <2>2. q("idle") \in Poller /\ q("exited") \in Poller
    BY <1>2
  <2> HIDE DEF q
  <2>3. Becomes(w, q("idle")) \/ Becomes(w, q("exited"))
    BY <2>1, <2>2, Replaced
  <2> QED BY <2>3
<1>4. UNCHANGED <<folder, moved, routes, jobs>>
  BY DEF EndScan, ExitThread
<1> HIDE DEF q
<1>5. /\ poll' \in [Watches -> Poller]
      /\ \A v \in Watches : v # w => poll'[v] = poll[v]
      /\ poll'[w].at \in {"idle", "exited"}
      /\ poll'[w].candidates = poll[w].candidates
      /\ poll'[w].file = poll[w].file
      /\ poll'[w].processed = poll[w].processed
      /\ poll'[w].seen = poll[w].seen
      /\ poll'[w].handled = poll[w].handled
      /\ poll'[w].errors = poll[w].errors
  BY <1>2, <1>3 DEF Becomes
<1>6. FolderTyped' /\ \A k \in Files : Outdated(w, k)'
  BY <1>4, <1>5 DEF IInv, FolderTyped, Outdated
<1> QED BY <1>1, <1>4, <1>5, <1>6, QuietThread

----------------------------------------------------------------------------
(* The routes and the lifespan.                                              *)

LEMMA WatchStartInv ==
    ASSUME IInv, WatchStart
    PROVE  IInv'
<1>1. PICK w \in Watches : w = started + 1
  BY BoundsAssumption DEF WatchStart, IInv, RoutesTyped, Watches
<1> DEFINE q == [poll[w] EXCEPT !.at = "idle"]
<1>2. poll[w] \in Poller /\ Accounted(w) /\ poll[w].at = "none"
  <2>1. w > started
    BY <1>1 DEF IInv, RoutesTyped
  <2> QED BY <2>1 DEF IInv
<1>3. /\ q \in Poller /\ q.at = "idle" /\ q.candidates = poll[w].candidates
      /\ q.file = poll[w].file /\ q.processed = poll[w].processed
      /\ q.seen = poll[w].seen /\ q.handled = poll[w].handled
      /\ q.errors = poll[w].errors
  BY <1>2 DEF Poller
<1>4. Becomes(w, q)
  <2>1. poll' = [poll EXCEPT ![w] = q]
    BY <1>1 DEF WatchStart
  <2> HIDE DEF q
  <2> QED BY <1>3, <2>1, Replaced
<1>5. /\ UNCHANGED <<folder, moved, stopped, stopping, server, submitted, poolOpen>>
      /\ started' = w /\ watcher' = w /\ jobIds' = {}
  BY <1>1 DEF WatchStart
<1>6. \A v \in Watches : Done(v)' = Done(v)
  BY <1>5 DEF Done
<1>7. FolderTyped' /\ RoutesTyped'
  BY <1>1, <1>5 DEF IInv, FolderTyped, RoutesTyped, Watches
<1>8. ASSUME NEW v \in Watches
      PROVE  /\ Accounted(v)'
             /\ v > started' => poll'[v].at = "none"
             /\ \A f \in Files : Outdated(v, f)'
  <2>1. /\ v > started => poll[v].at = "none"
        /\ \A f \in Files : Outdated(v, f)
        /\ Accounted(v)
    BY DEF IInv
  <2>2. CASE v = w
    <3>1. Accounted(w)'
      <4> HIDE DEF q
      <4> QED BY <1>2, <1>3, <1>4, <1>6 DEF Accounted, Becomes
    <3>2. \A f \in Files : Outdated(w, f)'
      <4> HIDE DEF q
      <4> QED BY <1>3, <1>4, <1>5, <2>1, <2>2 DEF Outdated, Becomes
    <3>3. ~(w > w)
      BY <1>1 DEF Watches
    <3> QED BY <1>5, <2>2, <3>1, <3>2, <3>3
  <2>3. CASE v # w
    <3>1. poll'[v] = poll[v]
      BY <1>4, <2>3 DEF Becomes
    <3>2. v > started' => v > started
      BY <1>1, <1>5 DEF IInv, RoutesTyped, Watches
    <3>3. \A f \in Files : Outdated(v, f)'
      BY <1>5, <2>1, <3>1 DEF Outdated
    <3> QED BY <1>6, <2>1, <3>1, <3>2, <3>3, AccountsStay
  <2> QED BY <2>2, <2>3
<1> QED BY <1>4, <1>7, <1>8 DEF IInv, Becomes

LEMMA RoutesInv ==
    ASSUME IInv, StopTake \/ StopSignal \/ Join \/ Leave \/ ShutdownJobs \/ UNCHANGED vars
    PROVE  IInv'
<1>1. UNCHANGED <<folder, moved, poll, started, submitted>>
  BY DEF StopTake, StopSignal, Join, Leave, ShutdownJobs, jobs, routes, vars
<1>2. RoutesTyped'
  <2>1. RoutesTyped
    BY DEF IInv
  <2>2. ASSUME StopSignal PROVE RoutesTyped'
    <3>1. stopping \in Watches
      BY <2>1, <2>2, BoundsAssumption DEF StopSignal, RoutesTyped, Watches
    <3> QED BY <2>1, <2>2, <3>1 DEF StopSignal, RoutesTyped, jobs
  <2>3. ASSUME StopTake \/ Join \/ Leave PROVE RoutesTyped'
    BY <2>1, <2>3, BoundsAssumption DEF RoutesTyped, StopTake, Join, Leave, jobs
  <2>4. ASSUME ShutdownJobs \/ UNCHANGED vars PROVE RoutesTyped'
    BY <2>1, <2>4 DEF RoutesTyped, ShutdownJobs, vars, routes, jobs
  <2> QED BY <2>2, <2>3, <2>4
<1>3. FolderTyped'
  BY <1>1 DEF IInv, FolderTyped
<1>4. \A w \in Watches : Accounted(w)' /\ \A f \in Files : Outdated(w, f)'
  BY <1>1, AccountsStay DEF IInv, Done, Outdated
<1> QED BY <1>1, <1>2, <1>3, <1>4 DEF IInv

LEMMA NextInv == IInv /\ [Next]_vars => IInv'
BY WriteInv, FinishOrDeleteInv, ScanInv, SkipInv, RememberInv, FireInv, SubmitJobInv,
   AppendIdInv, CountInv, EndInv, WatchStartInv, RoutesInv DEF Next, ThreadStep

LEMMA Invariance == Spec => []IInv
BY InitInv, NextInv, PTL DEF Spec

----------------------------------------------------------------------------
\* The counters of a watcher never pass the number of files, and everything
\* else keeps its type (watch.py, FolderWatcher; routes/watch.py).
THEOREM TypeCorrect == Spec => []TypeOK
<1>1. ASSUME IInv, NEW w \in Watches
      PROVE  /\ poll[w] \in Poller
             /\ poll[w].seen \in Counter
             /\ poll[w].handled \in Counter
             /\ poll[w].errors \in Counter
  <2>1. poll[w] \in Poller /\ Accounted(w)
    BY <1>1 DEF IInv
  <2>2. /\ poll[w].processed \in SUBSET Files
        /\ poll[w].processed \cap Openable \in SUBSET Files
        /\ poll[w].seen \in Nat /\ poll[w].handled \in Nat /\ poll[w].errors \in Nat
    BY <2>1 DEF Poller
  <2>3. /\ Cardinality(poll[w].processed) <= Cardinality(Files)
        /\ Cardinality(poll[w].processed \cap Openable) <= Cardinality(Files)
        /\ Cardinality(Files) \in Nat
    BY <2>2, FileSets
  <2>4. \/ Cardinality(poll[w].processed \cap Openable) = poll[w].handled + poll[w].errors
        \/ Cardinality(poll[w].processed \cap Openable) = poll[w].handled + poll[w].errors + 1
    BY <2>1 DEF Accounted
  <2>5. poll[w].seen = Cardinality(poll[w].processed)
    BY <2>1 DEF Accounted
  <2> QED BY <2>1, <2>2, <2>3, <2>4, <2>5 DEF Counter
<1>2. IInv => TypeOK
  <2> SUFFICES ASSUME IInv PROVE TypeOK
    OBVIOUS
  <2>1. poll \in [Watches ->
          [at : {"none", "idle", "scan", "submit", "append", "count", "exited"},
           todo : SUBSET Files,
           file : Files \cup {NoFile},
           candidates : [Files -> 0 .. MaxVersion],
           processed : SUBSET Files,
           seen : Counter, handled : Counter, errors : Counter]]
    <3>1. poll \in [Watches -> Poller]
      BY DEF IInv
    <3> QED BY <1>1, <3>1 DEF Poller
  <2> QED BY <2>1 DEF IInv, FolderTyped, RoutesTyped, TypeOK
<1> QED BY <1>2, Invariance, PTL

\* Every openable file a watch is done with was handled or counted as an error,
\* and one at most is in flight, however many failed (watch.py:163-169).
THEOREM FilesAccounted == Spec => []AllAccountedFor
<1>1. ASSUME IInv, NEW w \in Watches
      PROVE  /\ poll[w].seen = Cardinality(poll[w].processed)
             /\ Cardinality(poll[w].processed \cap Openable)
                  = poll[w].handled + poll[w].errors + (IF poll[w].file = NoFile THEN 0 ELSE 1)
  <2>1. poll[w] \in Poller /\ Accounted(w)
    BY <1>1 DEF IInv
  <2>2. poll[w].handled + poll[w].errors \in Nat
    BY <2>1 DEF Poller
  <2> QED BY <2>1, <2>2 DEF Accounted
<1>2. IInv => AllAccountedFor
  BY <1>1 DEF AllAccountedFor
<1> QED BY <1>2, Invariance, PTL

\* A watch submits at most one job for a file, and its counters say which have
\* been submitted (watch.py:59-61), across stops and restarts.
THEOREM JobsOncePerFile == Spec => []OneJobPerFile
<1>1. ASSUME IInv, NEW w \in Watches
      PROVE  /\ Done(w) \subseteq poll[w].processed
             /\ Cardinality(Done(w)) =
                  poll[w].handled + (IF poll[w].at \in {"append", "count"} THEN 1 ELSE 0)
  <2>1. poll[w].handled \in Nat /\ Accounted(w)
    BY <1>1 DEF IInv, Poller
  <2> QED BY <2>1 DEF Accounted
<1>2. IInv => OneJobPerFile
  BY <1>1 DEF OneJobPerFile, Done
<1> QED BY <1>2, Invariance, PTL

\* A file that is still being copied is never handed on (watch.py:4-8): what
\* the watch remembers of it is older than its last change.
THEOREM NeverFiredHalfWritten == Spec => NeverHalfWritten
<1> DEFINE Whole == \A w \in Watches, f \in Files :
                        f \in poll'[w].processed \ poll[w].processed => ~folder[f].copying
<1>1. IInv /\ [Next]_vars => [Whole]_vars
  <2> SUFFICES ASSUME IInv, Next PROVE Whole
    OBVIOUS
  <2>1. ASSUME NEW w \in Watches, NEW f \in Files, Fire(w, f)
        PROVE  Whole
    <3>1. ~folder[f].copying
      <4>1. f \notin moved[w]
        BY <2>1, BoundsAssumption
           DEF Fire, Stable, IInv, Outdated, FolderTyped
      <4> QED BY <2>1, <4>1 DEF Fire, Stat
    <3>2. /\ poll'[w].processed = poll[w].processed \cup {f}
          /\ \A v \in Watches : v # w => poll'[v] = poll[v]
      BY <2>1 DEF Fire, IInv, Poller, Marked
    <3> QED BY <3>1, <3>2
  <2>2. ASSUME ~\E w \in Watches, f \in Files : Fire(w, f)
        PROVE  \A w \in Watches : poll'[w].processed = poll[w].processed
    <3>1. poll \in [Watches -> Poller]
      BY DEF IInv
    <3>2. ASSUME NEW w \in Watches, ThreadStep(w)
          PROVE  \A v \in Watches : poll'[v].processed = poll[v].processed
      <4>1. poll[w] \in Poller
        BY <3>1
      <4>2. PICK q : poll' = [poll EXCEPT ![w] = q] /\ q.processed = poll[w].processed
        <5>1. CASE Scan(w)
          <6> DEFINE current == {f \in Files : folder[f].there}
                     q == [poll[w] EXCEPT !.at = "scan", !.todo = current,
                                          !.candidates = Kept(w, current)]
          <6>1. poll' = [poll EXCEPT ![w] = q]
            BY <5>1 DEF Scan
          <6>2. q.processed = poll[w].processed
            BY <4>1 DEF Poller
          <6> QED BY <6>1, <6>2
        <5>2. CASE \E f \in Files : Skip(w, f) \/ Remember(w, f)
          BY <4>1, <5>2 DEF Skip, Remember, Poller
        <5>3. CASE QueueFull(w) \/ Count(w)
          BY <4>1, <5>3 DEF QueueFull, Count, Poller
        <5>4. CASE SubmitJob(w) \/ AppendId(w)
          BY <4>1, <5>4 DEF SubmitJob, AppendId, Poller
        <5>5. CASE EndScan(w) \/ ExitThread(w)
          BY <4>1, <5>5 DEF EndScan, ExitThread, Poller
        <5> QED BY <2>2, <3>2, <5>1, <5>2, <5>3, <5>4, <5>5 DEF ThreadStep
      <4> QED BY <3>1, <4>2
    <3>3. ASSUME WatchStart
          PROVE  \A v \in Watches : poll'[v].processed = poll[v].processed
      BY <3>1, <3>3 DEF WatchStart, Poller
    <3> QED BY <2>2, <3>2, <3>3 DEF Next, Write, Finish, Delete, StopTake, StopSignal,
               Join, Leave, ShutdownJobs
  <2> QED BY <2>1, <2>2
<1> QED BY <1>1, Invariance, PTL DEF Spec, NeverHalfWritten

----------------------------------------------------------------------------
(* The grace check, which an active watch keeps from exiting.                *)

CheckInv == LifecycleTypeOK /\ CheckPending

LEMMA GraceInit == LifecycleInit => CheckInv
<1> SUFFICES ASSUME LifecycleInit PROVE CheckInv
  OBVIOUS
<1>1. LifecycleTypeOK
  <2>1. 0 \in 0 .. Grace
    BY GraceAssumption
  <2> QED BY <2>1, Zenon DEF LifecycleInit, LifecycleTypeOK
<1>2. ~Abandoned
  BY DEF LifecycleInit, Abandoned
<1> QED BY <1>1, <1>2 DEF CheckInv, CheckPending

LEMMA TabKeeps ==
    ASSUME CheckInv, NEW t \in Tabs, Connect(t) \/ Disconnect(t)
    PROVE  CheckInv'
<1>1. CASE Connect(t)
  BY <1>1 DEF Connect, CheckInv, LifecycleTypeOK, CheckPending, Abandoned
<1>2. CASE Disconnect(t)
  <2>1. LifecycleTypeOK'
    BY <1>2, GraceAssumption DEF Disconnect, Schedule, CheckInv, LifecycleTypeOK
  <2>2. CASE clients = {t}
    <3>1. Grace \in checks' /\ quietFor' = 0
      BY <1>2, <2>2 DEF Disconnect, Schedule
    <3> QED BY <2>1, <3>1, GraceAssumption DEF CheckInv, CheckPending
  <2>3. CASE clients # {t}
    <3>1. clients' # {}
      BY <1>2, <2>3 DEF Disconnect
    <3> QED BY <2>1, <3>1 DEF CheckInv, CheckPending, Abandoned
  <2> QED BY <2>2, <2>3
<1> QED BY <1>1, <1>2

LEMMA GraceCheckKeeps ==
    ASSUME CheckInv, GraceCheck
    PROVE  CheckInv'
<1>1. LifecycleTypeOK'
  BY GraceAssumption DEF GraceCheck, CheckInv, LifecycleTypeOK, Abandoned
<1>2. CheckPending'
  <2>1. CASE Abandoned /\ watching
    <3>1. Grace \in checks' /\ watching'
      BY <2>1 DEF GraceCheck
    <3> QED BY <3>1 DEF CheckPending
  <2>2. CASE Abandoned /\ ~watching
    <3>1. exiting' = TRUE
      BY <2>2 DEF GraceCheck
    <3> QED BY <3>1 DEF CheckPending
  <2>3. CASE ~Abandoned
    BY <2>3 DEF GraceCheck, CheckPending, Abandoned
  <2> QED BY <2>1, <2>2, <2>3
<1> QED BY <1>1, <1>2 DEF CheckInv

LEMMA WatchKeeps ==
    ASSUME CheckInv, StartWatch \/ StopWatch
    PROVE  CheckInv'
<1>1. CASE StartWatch
  BY <1>1 DEF StartWatch, CheckInv, LifecycleTypeOK, CheckPending, Abandoned
<1>2. CASE StopWatch
  <2>1. LifecycleTypeOK'
    <3>1. 0 \in 0 .. Grace
      BY GraceAssumption
    <3> QED BY <1>2, <3>1, Zenon DEF StopWatch, CheckInv, LifecycleTypeOK
  <2>2. CheckPending'
    <3> SUFFICES ASSUME Abandoned', ~exiting'
                 PROVE  \E r \in checks' : r + quietFor' <= Grace
      BY DEF CheckPending
    <3>1. PICK r \in checks : TRUE
      BY <1>2 DEF StopWatch, CheckInv, CheckPending, Abandoned
    <3>2. r \in checks' /\ r + quietFor' <= Grace
      BY <1>2, <3>1, GraceAssumption DEF StopWatch, CheckInv, LifecycleTypeOK
    <3> QED BY <3>2
  <2> QED BY <2>1, <2>2 DEF CheckInv
<1> QED BY <1>1, <1>2

LEMMA TickKeeps ==
    ASSUME CheckInv, Tick
    PROVE  CheckInv'
<1>1. LifecycleTypeOK'
  <2>1. checks' \subseteq 0 .. Grace
    BY GraceAssumption DEF Tick, CheckInv, LifecycleTypeOK
  <2> QED BY <2>1, GraceAssumption DEF Tick, CheckInv, LifecycleTypeOK
<1>2. CheckPending'
  <2> SUFFICES ASSUME Abandoned', ~exiting'
               PROVE  \E r \in checks' : ~watching' => r + quietFor' <= Grace
    BY DEF CheckPending
  <2>1. PICK r \in checks : ~watching => r + quietFor <= Grace
    BY DEF Tick, CheckInv, CheckPending, Abandoned
  <2>2. r - 1 \in checks'
    BY DEF Tick
  <2>3. r \in 1 .. Grace
    BY GraceAssumption DEF Tick, CheckInv, LifecycleTypeOK
  <2>4. ~watching' => (r - 1) + quietFor' <= Grace
    BY <2>1, <2>3, GraceAssumption DEF Tick, CheckInv, LifecycleTypeOK
  <2> QED BY <2>2, <2>4
<1> QED BY <1>1, <1>2 DEF CheckInv

LEMMA GraceStep ==
    ASSUME CheckInv, [LifecycleNext]_lifecycleVars
    PROVE  CheckInv'
<1>1. CASE UNCHANGED lifecycleVars
  BY <1>1 DEF lifecycleVars, CheckInv, LifecycleTypeOK, CheckPending,
              Abandoned
<1>2. CASE LifecycleNext
  BY <1>2, TabKeeps, GraceCheckKeeps, WatchKeeps, TickKeeps DEF LifecycleNext
<1> QED BY <1>1, <1>2

\* Whatever tabs and watches do, a server its tabs have left has a grace check
\* asleep, due within the grace period of the last tab closing or of the watch
\* being stopped (server.py:250-292).
THEOREM ServerNotForgotten == LifecycleSpec => []CheckPending
<1>1. LifecycleInit => CheckInv
  BY GraceInit
<1>2. CheckInv /\ [LifecycleNext]_lifecycleVars => CheckInv'
  BY GraceStep
<1>3. CheckInv => CheckPending
  BY DEF CheckInv
<1> QED BY <1>1, <1>2, <1>3, PTL DEF LifecycleSpec

=============================================================================
