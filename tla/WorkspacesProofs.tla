-------------------------- MODULE WorkspacesProofs --------------------------
(* Theorems about Workspaces, for any slugs, requests and number of saves. *)
EXTENDS Workspaces, TLAPS

---------------------------------------------------------------------------
\* The inductive invariant.

\* The request that holds the index lock is the one that lists.
Held == \A t \in Threads : At(t, "stat") <=> lock = t

\* The last save's number is the highest.
Rising == Legacy <= saves /\ \A s \in Slugs : project[s] <= saves

Named == \A t \in Threads : th[t].pc \in {"register", "project", "legacy", "old", "read"} => th[t].slug \in Slugs

\* What a save has written is there until a delete overlaps it.
Saver ==
    \A t \in Threads : At(t, "register") =>
        th[t].v \in Saves /\ (th[t].alone => project[th[t].slug] >= th[t].v)

\* A delete and a save of one workspace know of each other, and a delete alone
\* has taken away what it has passed.
Deleter ==
    \A t \in Threads : th[t].pc \in {"project", "legacy"} =>
        /\ kept[th[t].slug] = 0
        /\ \A u \in Threads : At(u, "register") /\ th[u].slug = th[t].slug => ~th[u].alone /\ ~th[t].alone
        /\ th[t].alone => index[th[t].slug] = 0 /\ (At(t, "legacy") => project[th[t].slug] = 0)

\* The file a load is about to read is as new as the load is owed.
Loader ==
    \A t \in Threads :
        /\ th[t].pc \in {"old", "read"} /\ th[t].alone => ~Deleting(th[t].slug)
        /\ At(t, "old") /\ th[t].alone => legacy[th[t].slug] >= th[t].v
        /\ At(t, "read") /\ th[t].alone => project[th[t].slug] >= th[t].v

\* A listing has the index as it is, without entries that nobody is owed; or
\* could not read it, and then has nothing to prune.
Lister ==
    \A t \in Threads : At(t, "stat") =>
        /\ \A s \in th[t].todo : th[t].read[s] # 0
        /\ th[t].pruned \/ th[t].todo # {} =>
              \A s \in Slugs : th[t].read[s] = index[s] \/ (th[t].read[s] = 0 /\ kept[s] = 0)

Unsaved == \A s \in gone : ~Saving(s)

IInv ==
    /\ TypeOK /\ Held /\ Rising /\ Named /\ Saver /\ Deleter /\ Loader /\ Lister /\ Unsaved
    /\ SavedStaysListed /\ DeletedStaysGone /\ LoadIsCurrent

---------------------------------------------------------------------------
\* What the steps of a request keep.

\* What a request that goes on, u, has in common with itself a step earlier;
\* it may have learnt that another request overlaps it.
Goes(u) ==
    /\ th'[u].pc = th[u].pc /\ th'[u].slug = th[u].slug /\ th'[u].v = th[u].v
    /\ th'[u].read = th[u].read /\ th'[u].todo = th[u].todo /\ th'[u].pruned = th[u].pruned
    /\ th'[u].alone => th[u].alone

LEMMA ContentsFacts == 0 \in Contents /\ Legacy \in Contents /\ Contents \subseteq Nat
BY BoundAssumption DEF Contents, Legacy

LEMMA IdleRequest == Idle \in Request /\ Idle.pc = "idle" /\ Idle.alone
<1>1. Idle.read \in [Slugs -> Contents]
  BY ContentsFacts DEF Idle
<1> QED BY <1>1, ContentsFacts DEF Idle, Request

\* A request moves on, and nothing else of it changes.
LEMMA GotoFacts ==
    ASSUME TypeOK, NEW t \in Threads, NEW pc \in {"project", "legacy", "name"}, th' = [th EXCEPT ![t].pc = pc]
    PROVE  /\ th' \in [Threads -> Request] /\ th'[t] \in Request
           /\ th'[t].pc = pc /\ th'[t].slug = th[t].slug /\ th'[t].alone = th[t].alone
           /\ \A u \in Threads : u # t => th'[u] = th[u]
<1>1. th[t] \in Request /\ th'[t] = [th[t] EXCEPT !.pc = pc]
      /\ \A u \in Threads : u # t => th'[u] = th[u]
  BY DEF TypeOK
<1>2. [th[t] EXCEPT !.pc = pc] \in Request
  BY <1>1 DEF Request
<1>3. th' \in [Threads -> Request]
  BY <1>1, <1>2 DEF TypeOK
<1> QED BY <1>1, <1>2, <1>3 DEF Request

\* A request that another one overlaps goes on as it was, no longer alone.
LEMMA OverlapGoes ==
    ASSUME TypeOK, NEW s, NEW pcs, NEW u \in Threads, th'[u] = Overlapped(s, pcs)[u]
    PROVE  th'[u] \in Request /\ Goes(u) /\ (th[u].slug = s /\ th[u].pc \in pcs => ~th'[u].alone)
<1>1. th[u] \in Request /\ (th'[u] = th[u] \/ th'[u] = [th[u] EXCEPT !.alone = FALSE])
      /\ (th[u].slug = s /\ th[u].pc \in pcs => th'[u] = [th[u] EXCEPT !.alone = FALSE])
  BY DEF TypeOK, Overlapped
<1>2. [th[u] EXCEPT !.alone = FALSE] \in Request
  BY <1>1 DEF Request
<1> QED BY <1>1, <1>2 DEF Request, Goes

LEMMA SaveWriteKeeps == ASSUME IInv, NEW t \in Threads, SaveWrite(t) PROVE IInv'
<1> DEFINE n == saves + 1
<1>1. PICK s \in Slugs :
         /\ project' = [project EXCEPT ![s] = n]
         /\ th' = [Overlapped(s, {"project", "legacy"}) EXCEPT
                      ![t] = [Idle EXCEPT !.pc = "register", !.slug = s, !.v = n, !.alone = ~Deleting(s)]]
         /\ gone' = gone \ {s}
  BY DEF SaveWrite
<1>2. /\ n \in Saves /\ n \in Contents /\ saves \in Nat /\ saves' = n /\ At(t, "idle")
      /\ UNCHANGED <<index, legacy, lock, kept, forgot>>
  BY BoundAssumption DEF SaveWrite, IInv, TypeOK, Saves, Contents, Legacy
<1>3. /\ th'[t].pc = "register" /\ th'[t].slug = s /\ th'[t].v = n /\ th'[t].alone = ~Deleting(s)
      /\ th'[t] \in Request
  BY <1>1, <1>2, ContentsFacts DEF IInv, TypeOK, Overlapped, Idle, Request
<1>4. ASSUME NEW u \in Threads, u # t
      PROVE  /\ th'[u] \in Request /\ Goes(u)
             /\ th[u].slug = s /\ th[u].pc \in {"project", "legacy"} => ~th'[u].alone
  <2>1. th'[u] = Overlapped(s, {"project", "legacy"})[u]
    BY <1>1, <1>4 DEF Overlapped
  <2> QED BY <2>1, OverlapGoes DEF IInv
<1>5. TypeOK'
  <2>1. th' \in [Threads -> Request]
    BY <1>1, <1>3, <1>4 DEF Overlapped
  <2> QED BY <1>1, <1>2, <2>1 DEF IInv, TypeOK, Request
<1>6. Rising' /\ \A x \in Slugs : project'[x] >= project[x]
  BY <1>1, <1>2 DEF IInv, TypeOK, Rising, Contents, Legacy
<1>7. Held' /\ Named'
  BY <1>2, <1>3, <1>4 DEF IInv, Held, Named, At, Goes
<1>8. Saver'
  BY <1>1, <1>2, <1>3, <1>4, <1>6 DEF IInv, TypeOK, Saver, Named, At, Goes, Saves, Contents
<1>9. Deleter'
  <2>1. ASSUME NEW d \in Threads, th'[d].pc \in {"project", "legacy"}
        PROVE  /\ d # t /\ th[d].pc = th'[d].pc /\ th[d].slug = th'[d].slug
               /\ th'[d].alone => th[d].alone /\ th'[d].slug # s
    BY <1>3, <1>4, <2>1 DEF Goes
  <2>2. ASSUME NEW d \in Threads, th'[d].pc \in {"project", "legacy"},
               NEW u \in Threads, th'[u].pc = "register", th'[u].slug = th'[d].slug
        PROVE  ~th'[u].alone /\ ~th'[d].alone
    <3>1. CASE u = t
      BY <1>3, <2>1, <2>2, <3>1 DEF Deleting, On
    <3>2. CASE u # t
      BY <1>4, <2>1, <2>2, <3>2 DEF IInv, Deleter, At, Goes
    <3> QED BY <3>1, <3>2
  <2>3. ASSUME NEW d \in Threads, th'[d].pc \in {"project", "legacy"}, th'[d].alone
        PROVE  index'[th'[d].slug] = 0 /\ (th'[d].pc = "legacy" => project'[th'[d].slug] = 0)
    BY <1>1, <1>2, <2>1, <2>3 DEF IInv, TypeOK, Deleter, Named, At
  <2> QED BY <1>2, <2>1, <2>2, <2>3 DEF IInv, Deleter, At
<1>10. Loader'
  <2>1. \A x : Deleting(x)' => Deleting(x)
    BY <1>3, <1>4 DEF Deleting, On, Goes
  <2>2. ASSUME NEW u \in Threads, th'[u].pc = "read", th'[u].alone PROVE project'[th'[u].slug] >= th'[u].v
    <3>1. u # t /\ th[u].slug \in Slugs /\ project[th[u].slug] >= th[u].v /\ th[u].v \in Contents
      BY <1>3, <1>4, <2>2 DEF IInv, TypeOK, Request, Loader, Named, At, Goes
    <3>2. project'[th[u].slug] \in Nat /\ project[th[u].slug] \in Nat /\ th[u].v \in Nat
      BY <1>5, <3>1, ContentsFacts DEF IInv, TypeOK
    <3>3. project'[th[u].slug] >= project[th[u].slug]
      BY <1>6, <3>1
    <3>4. project'[th[u].slug] >= th[u].v
      BY <3>1, <3>2, <3>3
    <3> QED BY <1>4, <3>1, <3>4 DEF Goes
  <2> QED BY <1>2, <1>3, <1>4, <2>1, <2>2 DEF IInv, Loader, At, Goes
<1>11. Lister'
  BY <1>2, <1>3, <1>4 DEF IInv, Lister, At, Goes
<1>12. Unsaved' /\ DeletedStaysGone'
  BY <1>1, <1>2, <1>3, <1>4 DEF IInv, TypeOK, Unsaved, Saving, On, DeletedStaysGone, Stored, Goes
<1>13. SavedStaysListed'
  <2>1. ASSUME NEW x \in Slugs, kept[x] # 0 PROVE Stored(x)' >= kept[x]
    <3>1. kept[x] \in Nat /\ project[x] \in Nat /\ legacy[x] \in {0, 1} /\ 1 <= saves /\ project[x] <= saves
      BY ContentsFacts DEF IInv, TypeOK, Rising, Legacy
    <3>2. Stored(x) >= kept[x]
      BY <2>1 DEF IInv, SavedStaysListed
    <3>3. n >= kept[x]
      BY <1>2, <3>1, <3>2 DEF Stored
    <3>4. project'[x] = (IF x = s THEN n ELSE project[x]) /\ legacy'[x] = legacy[x]
      BY <1>1, <1>2 DEF IInv, TypeOK
    <3> QED BY <1>2, <3>1, <3>2, <3>3, <3>4 DEF Stored
  <2> QED BY <1>2, <2>1 DEF IInv, SavedStaysListed
<1>14. LoadIsCurrent'
  BY <1>3, <1>4 DEF IInv, LoadIsCurrent, At, Goes
<1> QED BY <1>5, <1>6, <1>7, <1>8, <1>9, <1>10, <1>11, <1>12, <1>13, <1>14 DEF IInv

LEMMA RegisterKeeps == ASSUME IInv, NEW t \in Threads, Register(t) PROVE IInv'
<1> DEFINE s == th[t].slug
           n == th[t].v
<1>1. /\ At(t, "register") /\ lock = NoThread /\ s \in Slugs /\ n \in Saves /\ n \in Contents /\ n # 0
      /\ UNCHANGED <<project, legacy, saves, lock, gone>> /\ th' = [th EXCEPT ![t] = Idle]
  BY BoundAssumption DEF Register, Free, files, IInv, Named, Saver, At, Answer, Saves, Contents, Legacy
<1>2. PICK read \in ReadIndex : /\ index' = [read EXCEPT ![s] = n]
                                /\ forgot' = (forgot \cup Lost(read)) \ {s}
  BY DEF Register
<1>3. /\ index'[s] = n /\ index' \in [Slugs -> Contents] /\ forgot' \subseteq Slugs
      /\ \A x \in Slugs : x # s => /\ index'[x] \in {0, index[x]}
                                   /\ x \in forgot \/ (index[x] # 0 /\ index'[x] = 0) => x \in forgot'
  BY <1>1, <1>2, ContentsFacts DEF IInv, TypeOK, ReadIndex, Lost
<1>4. kept' = IF th[t].alone /\ n > kept[s] THEN [kept EXCEPT ![s] = n] ELSE kept
  BY DEF Register
<1>5. th'[t] = Idle /\ \A u \in Threads : u # t => th'[u] = th[u]
  BY <1>1 DEF IInv, TypeOK
<1>6. Idle \in Request /\ Idle.pc = "idle"
  BY IdleRequest
<1>7. TypeOK'
  BY <1>1, <1>3, <1>4, <1>6 DEF IInv, TypeOK
<1>8. \A u \in Threads : ~At(u, "stat")
  BY <1>1, NoThreadAssumption DEF IInv, Held
<1>9. Held' /\ Rising' /\ Named'
  BY <1>1, <1>5, <1>6, <1>8, NoThreadAssumption DEF IInv, Held, Rising, Named, At
<1>10. Saver'
  BY <1>1, <1>5, <1>6 DEF IInv, Saver, At, Saves
<1>11. Deleter'
  BY <1>1, <1>3, <1>4, <1>5, <1>6 DEF IInv, TypeOK, Deleter, Named, At
<1>12. Loader' /\ LoadIsCurrent'
  BY <1>1, <1>5, <1>6 DEF IInv, Loader, LoadIsCurrent, Deleting, On, At
<1>13. Lister'
  BY <1>5, <1>6, <1>8 DEF Lister, At
<1>14. Unsaved'
  BY <1>1, <1>5, <1>6 DEF IInv, Unsaved, Saving, On
<1>15. s \notin gone
  BY <1>1 DEF IInv, Unsaved, Saving, On, At
<1>16. DeletedStaysGone'
  BY <1>1, <1>3, <1>15 DEF IInv, TypeOK, DeletedStaysGone, Stored
<1>17. SavedStaysListed'
  <2>1. th[t].alone => Stored(s) >= n
    BY <1>1 DEF IInv, Saver, Stored, Saves, Legacy, TypeOK, Contents, At
  <2>2. ASSUME NEW x \in Slugs, kept'[x] # 0 PROVE Stored(x) >= kept'[x]
    BY <1>1, <1>4, <2>1, <2>2 DEF IInv, TypeOK, SavedStaysListed
  <2>3. ASSUME NEW x \in Slugs, kept'[x] # 0 PROVE index'[x] # 0 \/ x \in forgot'
    BY <1>1, <1>3, <1>4, <2>3 DEF IInv, TypeOK, SavedStaysListed
  <2> QED BY <1>1, <2>2, <2>3 DEF SavedStaysListed, Stored
<1> QED BY <1>7, <1>9, <1>10, <1>11, <1>12, <1>13, <1>14, <1>16, <1>17 DEF IInv

LEMMA DeletePopKeeps == ASSUME IInv, NEW t \in Threads, DeletePop(t) PROVE IInv'
<1>1. /\ At(t, "idle") /\ lock = NoThread
      /\ UNCHANGED <<project, legacy, saves, lock, gone>>
  BY DEF DeletePop, Free, files
<1>2. PICK s \in Slugs, read \in ReadIndex :
         /\ index' = [read EXCEPT ![s] = 0]
         /\ forgot' = (forgot \cup Lost(read)) \ {s}
         /\ th' = [Overlapped(s, Loading \cup {"register"}) EXCEPT
                      ![t] = [Idle EXCEPT !.pc = "project", !.slug = s, !.alone = ~Saving(s)]]
         /\ kept' = [kept EXCEPT ![s] = 0]
  BY DEF DeletePop
<1>3. /\ index'[s] = 0 /\ index' \in [Slugs -> Contents] /\ forgot' \subseteq Slugs
      /\ \A x \in Slugs : x # s => /\ index'[x] \in {0, index[x]}
                                   /\ x \in forgot \/ (index[x] # 0 /\ index'[x] = 0) => x \in forgot'
  BY <1>2, ContentsFacts DEF IInv, TypeOK, ReadIndex, Lost
<1>4. /\ th'[t].pc = "project" /\ th'[t].slug = s /\ th'[t].alone = ~Saving(s)
      /\ th'[t] \in Request
  BY <1>1, <1>2, ContentsFacts DEF IInv, TypeOK, Overlapped, Idle, Request
<1>5. ASSUME NEW u \in Threads, u # t
      PROVE  /\ th'[u] \in Request /\ Goes(u)
             /\ th[u].slug = s /\ th[u].pc \in {"old", "read", "register"} => ~th'[u].alone
  <2>1. th'[u] = Overlapped(s, Loading \cup {"register"})[u]
    BY <1>2, <1>5 DEF Overlapped
  <2> QED BY <2>1, OverlapGoes DEF IInv, Loading
<1>6. TypeOK'
  <2>1. th' \in [Threads -> Request]
    BY <1>2, <1>4, <1>5 DEF Overlapped
  <2>2. kept' \in [Slugs -> Contents]
    BY <1>2, ContentsFacts DEF IInv, TypeOK
  <2> QED BY <1>1, <1>3, <2>1, <2>2 DEF IInv, TypeOK
<1>7. \A u \in Threads : ~At(u, "stat")
  BY <1>1, NoThreadAssumption DEF IInv, Held
<1>8. Held' /\ Rising' /\ Named'
  BY <1>1, <1>4, <1>5, <1>7, NoThreadAssumption DEF IInv, Held, Rising, Named, At, Goes
<1>9. Saver'
  BY <1>1, <1>4, <1>5 DEF IInv, Saver, At, Goes, Saves
<1>10. Deleter'
  <2>1. \A x \in Slugs : (kept[x] = 0 => kept'[x] = 0) /\ (index[x] = 0 => index'[x] = 0) /\ kept'[s] = 0
    BY <1>2, <1>3 DEF IInv, TypeOK
  <2>2. ASSUME NEW d \in Threads, th'[d].pc \in {"project", "legacy"} PROVE kept'[th'[d].slug] = 0
    BY <1>4, <1>5, <2>1, <2>2 DEF IInv, Deleter, Named, Goes
  <2>3. ASSUME NEW d \in Threads, th'[d].pc \in {"project", "legacy"},
               NEW u \in Threads, th'[u].pc = "register", th'[u].slug = th'[d].slug
        PROVE  ~th'[u].alone /\ ~th'[d].alone
    <3>1. u # t /\ th[u].pc = "register" /\ th[u].slug = th'[d].slug /\ (th'[u].alone => th[u].alone)
      BY <1>4, <1>5, <2>3 DEF Goes
    <3>2. CASE d = t
      BY <1>4, <1>5, <2>3, <3>1, <3>2 DEF Saving, On
    <3>3. CASE d # t
      BY <1>5, <2>3, <3>1, <3>3 DEF IInv, Deleter, At, Goes
    <3> QED BY <3>2, <3>3
  <2>4. ASSUME NEW d \in Threads, th'[d].pc \in {"project", "legacy"}, th'[d].alone
        PROVE  index'[th'[d].slug] = 0 /\ (th'[d].pc = "legacy" => project'[th'[d].slug] = 0)
    BY <1>1, <1>3, <1>4, <1>5, <2>1, <2>4 DEF IInv, Deleter, Named, At, Goes
  <2> QED BY <2>2, <2>3, <2>4 DEF Deleter, At
<1>11. Loader'
  BY <1>1, <1>4, <1>5 DEF IInv, Loader, Deleting, On, At, Goes
<1>12. Lister' /\ LoadIsCurrent'
  BY <1>4, <1>5, <1>7 DEF IInv, Lister, LoadIsCurrent, At, Goes
<1>13. Unsaved'
  BY <1>1, <1>4, <1>5 DEF IInv, Unsaved, Saving, On, Goes
<1>14. DeletedStaysGone'
  BY <1>1, <1>3 DEF IInv, TypeOK, DeletedStaysGone, Stored
<1>15. SavedStaysListed'
  BY <1>1, <1>2, <1>3 DEF IInv, TypeOK, SavedStaysListed, Stored
<1> QED BY <1>6, <1>8, <1>9, <1>10, <1>11, <1>12, <1>13, <1>14, <1>15 DEF IInv

LEMMA DeleteProjectKeeps == ASSUME IInv, NEW t \in Threads, DeleteProject(t) PROVE IInv'
<1> DEFINE s == th[t].slug
<1>1. /\ At(t, "project") /\ s \in Slugs /\ kept[s] = 0
      /\ UNCHANGED <<index, legacy, saves, lock, kept, gone, forgot>>
  BY DEF DeleteProject, notes, IInv, Named, Deleter, At
<1>2. /\ project' \in [Slugs -> Contents] /\ project'[s] \in {0, project[s]}
      /\ \A x \in Slugs : x # s => project'[x] = project[x]
  BY <1>1 DEF DeleteProject, IInv, TypeOK, Contents
<1>3. /\ th'[t] \in Request /\ th'[t].pc \in {"idle", "legacy"}
      /\ th'[t].pc = "legacy" => th'[t].slug = s /\ th'[t].alone = th[t].alone /\ project'[s] = 0
      /\ \A u \in Threads : u # t => th'[u] = th[u]
      /\ th' \in [Threads -> Request]
  <2>1. CASE th' = [th EXCEPT ![t].pc = "legacy"] /\ project' = [project EXCEPT ![s] = 0]
    BY <1>1, <2>1, GotoFacts DEF IInv, TypeOK
  <2>2. CASE th' = [th EXCEPT ![t] = Idle]
    BY <2>2, IdleRequest DEF IInv, TypeOK
  <2> QED BY <2>1, <2>2 DEF DeleteProject, Goto, Answer
<1>4. TypeOK'
  BY <1>1, <1>2, <1>3 DEF IInv, TypeOK
<1>5. Held' /\ Rising' /\ Named'
  BY <1>1, <1>2, <1>3, NoThreadAssumption DEF IInv, TypeOK, Held, Rising, Named, At, Contents, Legacy
<1>6. \A u \in Threads : th[u].slug = s /\ th[u].pc \in {"register", "old", "read"} => ~th[u].alone
  BY <1>1 DEF IInv, Deleter, Loader, Deleting, On, At
<1>7. Saver' /\ LoadIsCurrent'
  BY <1>1, <1>2, <1>3, <1>6 DEF IInv, Saver, LoadIsCurrent, Named, At, Saves
<1>8. Deleter'
  BY <1>1, <1>2, <1>3 DEF IInv, Deleter, Named, At
<1>9. Loader'
  BY <1>1, <1>2, <1>3, <1>6 DEF IInv, Loader, Named, Deleting, On, At
<1>10. Lister'
  BY <1>1, <1>3 DEF IInv, Lister, At
<1>11. Unsaved'
  BY <1>1, <1>3 DEF IInv, Unsaved, Saving, On
<1>12. SavedStaysListed' /\ DeletedStaysGone'
  BY <1>1, <1>2 DEF IInv, TypeOK, SavedStaysListed, DeletedStaysGone, Stored
<1> QED BY <1>4, <1>5, <1>7, <1>8, <1>9, <1>10, <1>11, <1>12 DEF IInv

LEMMA DeleteLegacyKeeps == ASSUME IInv, NEW t \in Threads, DeleteLegacy(t) PROVE IInv'
<1> DEFINE s == th[t].slug
<1>1. /\ At(t, "legacy") /\ s \in Slugs /\ kept[s] = 0
      /\ UNCHANGED <<index, project, saves, lock, kept, forgot>> /\ th' = [th EXCEPT ![t] = Idle]
  BY DEF DeleteLegacy, Answer, IInv, Named, Deleter, At
<1>2. /\ legacy' \in [Slugs -> {0, Legacy}] /\ legacy'[s] \in {0, legacy[s]}
      /\ \A x \in Slugs : x # s => legacy'[x] = legacy[x]
      /\ gone' \in {gone, gone \cup {s}}
      /\ gone' # gone => th[t].alone /\ legacy'[s] = 0
  BY <1>1 DEF DeleteLegacy, Unlinked, IInv, TypeOK
<1>3. th'[t] = Idle /\ \A u \in Threads : u # t => th'[u] = th[u]
  BY <1>1 DEF IInv, TypeOK
<1>4. Idle \in Request /\ Idle.pc = "idle"
  BY IdleRequest
<1>5. TypeOK'
  BY <1>1, <1>2, <1>4 DEF IInv, TypeOK
<1>6. Held' /\ Rising' /\ Named'
  BY <1>1, <1>3, <1>4, NoThreadAssumption DEF IInv, TypeOK, Held, Rising, Named, At
<1>7. \A u \in Threads : th[u].slug = s /\ th[u].pc \in {"register", "old", "read"} => ~th[u].alone
  BY <1>1 DEF IInv, Deleter, Loader, Deleting, On, At
<1>8. Saver' /\ LoadIsCurrent'
  BY <1>1, <1>3, <1>4 DEF IInv, Saver, LoadIsCurrent, At, Saves
<1>9. Deleter'
  BY <1>1, <1>3, <1>4 DEF IInv, Deleter, At
<1>10. Loader'
  BY <1>1, <1>2, <1>3, <1>4, <1>7 DEF IInv, Loader, Named, Deleting, On, At
<1>11. Lister'
  BY <1>1, <1>3, <1>4 DEF IInv, Lister, At
<1>12. Unsaved'
  <2>1. th[t].alone => ~Saving(s)
    BY <1>1 DEF IInv, Deleter, Saving, On, At
  <2>2. \A x \in Slugs : Saving(x)' => Saving(x)
    BY <1>3, <1>4 DEF Saving, On
  <2> QED BY <1>1, <1>2, <2>1, <2>2 DEF IInv, TypeOK, Unsaved
<1>13. SavedStaysListed'
  BY <1>1, <1>2 DEF IInv, TypeOK, SavedStaysListed, Stored
<1>14. DeletedStaysGone'
  <2>1. th[t].alone => index[s] = 0 /\ project[s] = 0
    BY <1>1 DEF IInv, Deleter, At
  <2> QED BY <1>1, <1>2, <2>1 DEF IInv, TypeOK, DeletedStaysGone, Stored
<1> QED BY <1>5, <1>6, <1>8, <1>9, <1>10, <1>11, <1>12, <1>13, <1>14 DEF IInv

---------------------------------------------------------------------------
\* Listings and loads change the index at most.

\* A step of t that leaves everything else alone.
LEMMA QuietStepKeeps ==
    ASSUME IInv, NEW t \in Threads, th' \in [Threads -> Request],
           UNCHANGED <<index, project, legacy, saves, kept, gone, forgot>>,
           \A u \in Threads : u # t => th'[u] = th[u],
           th[t].pc \notin {"project", "legacy", "register"} \/ th'[t].pc = "idle",
           th'[t].pc \notin {"project", "legacy", "register", "lost"},
           lock' \in Threads \cup {NoThread}, Held',
           th'[t].pc \in {"old", "read"} =>
              /\ th'[t].slug \in Slugs
              /\ th'[t].alone => ~Deleting(th'[t].slug)
              /\ th'[t].pc = "old" /\ th'[t].alone => legacy[th'[t].slug] >= th'[t].v
              /\ th'[t].pc = "read" /\ th'[t].alone => project[th'[t].slug] >= th'[t].v,
           th'[t].pc = "stat" =>
              /\ \A s \in th'[t].todo : th'[t].read[s] # 0
              /\ th'[t].pruned \/ th'[t].todo # {} =>
                    \A s \in Slugs : th'[t].read[s] = index[s] \/ (th'[t].read[s] = 0 /\ kept[s] = 0)
    PROVE  IInv'
<1>1. TypeOK' /\ Rising' /\ SavedStaysListed' /\ DeletedStaysGone'
  BY DEF IInv, TypeOK, Rising, SavedStaysListed, DeletedStaysGone, Stored
<1>2. Named' /\ LoadIsCurrent'
  BY DEF IInv, Named, LoadIsCurrent, At
<1>3. Saver'
  BY DEF IInv, Saver, At, Saves
<1>4. Deleter'
  BY DEF IInv, Deleter, At
<1>5. Loader'
  BY DEF IInv, Loader, Deleting, On, At
<1>6. Lister'
  BY DEF IInv, Lister, At
<1>7. Unsaved'
  BY DEF IInv, Unsaved, Saving, On
<1> QED BY <1>1, <1>2, <1>3, <1>4, <1>5, <1>6, <1>7 DEF IInv

LEMMA ListReadKeeps == ASSUME IInv, NEW t \in Threads, ListRead(t) PROVE IInv'
<1>1. PICK read \in ReadIndex :
         th' = [th EXCEPT ![t] = [Idle EXCEPT !.pc = "stat", !.read = read,
                                              !.todo = {s \in Slugs : read[s] # 0}]]
  BY DEF ListRead
<1>2. /\ th[t].pc \in {"idle", "name"} /\ lock = NoThread /\ lock' = t
      /\ UNCHANGED <<index, project, legacy, saves, kept, gone, forgot>>
  BY DEF ListRead, Locked, Free, files, notes, At
<1>3. read \in [Slugs -> Contents] /\ (read = index \/ \A s \in Slugs : read[s] = 0)
  BY <1>1, ContentsFacts DEF ReadIndex, IInv, TypeOK
<1>4. /\ th'[t].pc = "stat" /\ th'[t].read = read /\ th'[t].pruned = FALSE
      /\ th'[t].todo = {s \in Slugs : read[s] # 0} /\ th'[t] \in Request
      /\ \A u \in Threads : u # t => th'[u] = th[u]
      /\ th' \in [Threads -> Request]
  BY <1>1, <1>3, ContentsFacts DEF Idle, IInv, TypeOK, Request
<1>5. Held'
  BY <1>2, <1>4, NoThreadAssumption DEF IInv, Held, At
<1> QED BY <1>2, <1>3, <1>4, <1>5, QuietStepKeeps

LEMMA ListStatKeeps == ASSUME IInv, NEW t \in Threads, ListStat(t) PROVE IInv'
<1>1. PICK s \in th[t].todo :
         th' = [th EXCEPT ![t].todo = @ \ {s}, ![t].read[s] = IF Stored(s) = 0 THEN 0 ELSE @,
                          ![t].pruned = @ \/ Stored(s) = 0]
  BY DEF ListStat
<1>2. /\ At(t, "stat") /\ lock = t /\ th[t] \in Request /\ s \in Slugs
      /\ UNCHANGED <<index, project, legacy, saves, lock, kept, gone, forgot>>
  BY <1>1 DEF ListStat, files, notes, IInv, TypeOK, Held, Request
<1> DEFINE kind == IF Stored(s) = 0 THEN 0 ELSE th[t].read[s]
<1>3. /\ th'[t].pc = "stat" /\ th'[t].todo = th[t].todo \ {s} /\ th'[t].pruned = (th[t].pruned \/ Stored(s) = 0)
      /\ th'[t].read = [th[t].read EXCEPT ![s] = kind]
      /\ th'[t] \in Request
      /\ \A u \in Threads : u # t => th'[u] = th[u]
  <2>1. /\ kind \in Contents /\ [th[t].read EXCEPT ![s] = kind] \in [Slugs -> Contents]
    BY <1>2, ContentsFacts DEF Request
  <2>2. th' = [th EXCEPT ![t] = [th[t] EXCEPT !.todo = th[t].todo \ {s},
                                              !.read = [th[t].read EXCEPT ![s] = kind],
                                              !.pruned = th[t].pruned \/ Stored(s) = 0]]
    BY <1>1, <1>2, Zenon DEF IInv, TypeOK, Request
  <2>3. /\ th'[t] = [th[t] EXCEPT !.todo = th[t].todo \ {s},
                                  !.read = [th[t].read EXCEPT ![s] = kind],
                                  !.pruned = th[t].pruned \/ Stored(s) = 0]
        /\ \A u \in Threads : u # t => th'[u] = th[u]
    BY <2>2 DEF IInv, TypeOK
  <2> HIDE DEF kind
  <2>4. th[t].todo \ {s} \in SUBSET Slugs /\ (th[t].pruned \/ Stored(s) = 0) \in BOOLEAN
    BY <1>2 DEF Request
  <2>5. th'[t].pc = "stat" /\ th'[t].todo = th[t].todo \ {s} /\ th'[t].pruned = (th[t].pruned \/ Stored(s) = 0)
        /\ th'[t].read = [th[t].read EXCEPT ![s] = kind]
    BY <1>2, <2>3 DEF Request, At
  <2>6. th'[t] \in Request
    BY <1>2, <2>1, <2>3, <2>4 DEF Request
  <2> QED BY <2>3, <2>5, <2>6
<1>4. th' \in [Threads -> Request]
  BY <1>1, <1>3 DEF IInv, TypeOK
<1>5. Held'
  BY <1>2, <1>3 DEF IInv, Held, At
<1>6. Stored(s) = 0 => kept[s] = 0
  BY <1>2 DEF IInv, TypeOK, SavedStaysListed, Contents, Legacy
<1>7. \A x \in Slugs : th'[t].read[x] = IF x = s /\ Stored(s) = 0 THEN 0 ELSE th[t].read[x]
  BY <1>2, <1>3 DEF Request
<1>8. \A x \in th'[t].todo : th'[t].read[x] # 0
  <2>1. ASSUME NEW x \in th'[t].todo PROVE x \in th[t].todo /\ x # s /\ x \in Slugs
    BY <1>2, <1>3, <2>1 DEF Request
  <2> QED BY <1>2, <1>7, <2>1 DEF IInv, Lister
<1>9. \A x \in Slugs : th'[t].read[x] = index[x] \/ (th'[t].read[x] = 0 /\ kept[x] = 0)
  BY <1>1, <1>2, <1>6, <1>7 DEF IInv, Lister
<1> QED BY <1>2, <1>3, <1>4, <1>5, <1>8, <1>9, QuietStepKeeps DEF At, IInv, TypeOK

LEMMA ListDoneKeeps == ASSUME IInv, NEW t \in Threads, ListDone(t) PROVE IInv'
<1>1. /\ At(t, "stat") /\ lock = t /\ lock' = NoThread /\ th[t] \in Request
      /\ index' = IF th[t].pruned THEN th[t].read ELSE index
      /\ UNCHANGED <<project, legacy, saves, kept, gone, forgot>> /\ th' = [th EXCEPT ![t] = Idle]
  BY DEF ListDone, Answer, files, notes, IInv, TypeOK, Held
<1>2. /\ index' \in [Slugs -> Contents]
      /\ \A s \in Slugs : index'[s] = index[s] \/ (index'[s] = 0 /\ kept[s] = 0)
  BY <1>1 DEF IInv, TypeOK, Request, Lister
<1>3. th'[t] = Idle /\ \A u \in Threads : u # t => th'[u] = th[u]
  BY <1>1 DEF IInv, TypeOK
<1>4. TypeOK'
  BY <1>1, <1>2, IdleRequest DEF IInv, TypeOK
<1>5. \A u \in Threads : ~At(u, "stat")'
  BY <1>1, <1>3, IdleRequest DEF IInv, Held, At
<1>6. Held' /\ Rising' /\ Named'
  BY <1>1, <1>3, <1>5, IdleRequest, NoThreadAssumption DEF IInv, Held, Rising, Named
<1>7. Saver'
  BY <1>1, <1>3, IdleRequest DEF IInv, Saver, At, Saves
<1>8. Deleter'
  BY <1>1, <1>2, <1>3, IdleRequest DEF IInv, Deleter, Named, At
<1>9. Loader' /\ LoadIsCurrent'
  BY <1>1, <1>3, IdleRequest DEF IInv, Loader, LoadIsCurrent, Deleting, On, At
<1>10. Lister'
  BY <1>5 DEF Lister
<1>11. Unsaved'
  BY <1>1, <1>3, IdleRequest DEF IInv, Unsaved, Saving, On
<1>12. SavedStaysListed' /\ DeletedStaysGone'
  BY <1>1, <1>2 DEF IInv, TypeOK, SavedStaysListed, DeletedStaysGone, Stored
<1> QED BY <1>4, <1>6, <1>7, <1>8, <1>9, <1>10, <1>11, <1>12 DEF IInv

LEMMA LoadLookKeeps == ASSUME IInv, NEW t \in Threads, LoadLook(t) PROVE IInv'
<1>1. PICK s \in Slugs :
         th' = [th EXCEPT ![t] = [Idle EXCEPT !.slug = s, !.pc = IF project[s] # 0 THEN "read" ELSE "old",
                                              !.v = kept[s], !.alone = ~Deleting(s)]]
  BY DEF LoadLook, First
<1>2. At(t, "idle") /\ UNCHANGED <<index, project, legacy, saves, lock, kept, gone, forgot>>
  BY DEF LoadLook, files, notes
<1>3. /\ th'[t].pc = IF project[s] # 0 THEN "read" ELSE "old"
      /\ th'[t].slug = s /\ th'[t].v = kept[s] /\ th'[t].alone = ~Deleting(s) /\ th'[t] \in Request
      /\ \A u \in Threads : u # t => th'[u] = th[u]
  BY <1>1, ContentsFacts DEF Idle, IInv, TypeOK, Request
<1>4. th' \in [Threads -> Request]
  BY <1>1, <1>3 DEF IInv, TypeOK
<1>5. Held'
  BY <1>2, <1>3 DEF IInv, Held, At
<1>6. Stored(s) >= kept[s]
  BY DEF IInv, TypeOK, SavedStaysListed, Stored, Contents, Legacy
<1> QED BY <1>2, <1>3, <1>4, <1>5, <1>6, QuietStepKeeps DEF At, Stored, IInv, TypeOK

\* The request has what it was owed, and goes on to the name or ends.
LEMMA LoadedKeeps ==
    ASSUME IInv, NEW t \in Threads, th[t].pc \in {"old", "read"}, NEW content \in Contents,
           th[t].alone => content >= th[t].v, Loaded(t, content),
           UNCHANGED <<index, project, legacy, saves, lock, kept, gone, forgot>>
    PROVE  IInv'
<1>1. th' = [th EXCEPT ![t] = Idle] \/ th' = [th EXCEPT ![t].pc = "name"]
  <2>1. ~(content < Owed(t))
    <3>1. content \in Nat /\ th[t].v \in Nat
      BY ContentsFacts DEF IInv, TypeOK, Request
    <3> QED BY <3>1 DEF Owed
  <2> QED BY <2>1 DEF Loaded, Answer, Goto
<1>2. /\ th'[t] \in Request /\ th'[t].pc \in {"idle", "name"}
      /\ \A u \in Threads : u # t => th'[u] = th[u]
  <2>1. CASE th' = [th EXCEPT ![t] = Idle]
    BY <2>1, IdleRequest DEF IInv, TypeOK
  <2>2. CASE th' = [th EXCEPT ![t].pc = "name"]
    BY <2>2, GotoFacts DEF IInv
  <2> QED BY <1>1, <2>1, <2>2
<1>3. th' \in [Threads -> Request]
  BY <1>1, <1>2 DEF IInv, TypeOK
<1>4. Held'
  BY <1>2 DEF IInv, Held, At
<1> QED BY <1>2, <1>3, <1>4, QuietStepKeeps DEF IInv, TypeOK

LEMMA LoadReadsKeep == ASSUME IInv, NEW t \in Threads, LoadOld(t) \/ LoadRead(t) PROVE IInv'
<1>1. th[t].pc \in {"old", "read"} => th[t].slug \in Slugs
  BY DEF IInv, Named
<1>2. CASE LoadOld(t)
  <2>1. legacy[th[t].slug] \in Contents
    BY <1>1, <1>2, BoundAssumption DEF LoadOld, At, IInv, TypeOK, Contents, Legacy
  <2> QED BY <1>2, <2>1, LoadedKeeps DEF LoadOld, At, files, notes, IInv, Loader
<1>3. CASE LoadRead(t)
  <2>1. project[th[t].slug] \in Contents
    BY <1>1, <1>3 DEF LoadRead, At, IInv, TypeOK
  <2> QED BY <1>3, <2>1, LoadedKeeps DEF LoadRead, At, files, notes, IInv, Loader
<1> QED BY <1>2, <1>3

LEMMA CrashKeeps == ASSUME IInv, NEW t \in Threads, Crash(t) PROVE IInv'
<1>1. /\ th' = [th EXCEPT ![t] = Idle] /\ lock' = IF lock = t THEN NoThread ELSE lock
      /\ UNCHANGED <<index, project, legacy, saves, kept, gone, forgot>>
  BY DEF Crash, Answer, files, notes
<1>2. /\ th'[t] = Idle /\ \A u \in Threads : u # t => th'[u] = th[u]
      /\ th' \in [Threads -> Request]
  BY <1>1, IdleRequest DEF IInv, TypeOK
<1>3. Held'
  BY <1>1, <1>2, IdleRequest, NoThreadAssumption DEF IInv, TypeOK, Held, At
<1> QED BY <1>1, <1>2, <1>3, IdleRequest, QuietStepKeeps DEF IInv, TypeOK

---------------------------------------------------------------------------
LEMMA RemoveByHandKeeps == ASSUME IInv, NEW s \in Slugs, RemoveByHand(s) PROVE IInv'
<1>1. /\ project' = [project EXCEPT ![s] = 0] /\ legacy' = [legacy EXCEPT ![s] = 0]
      /\ kept' = [kept EXCEPT ![s] = 0]
      /\ UNCHANGED <<index, saves, lock, gone, forgot>>
  BY DEF RemoveByHand
<1>2. ASSUME NEW u \in Threads
      PROVE  /\ th'[u] \in Request /\ Goes(u)
             /\ th[u].slug = s /\ th[u].pc \in {"old", "read", "register"} => ~th'[u].alone
  <2>1. th'[u] = Overlapped(s, Loading \cup {"register"})[u]
    BY DEF RemoveByHand
  <2> QED BY <2>1, OverlapGoes DEF IInv, Loading
<1>3. TypeOK'
  <2>1. th' \in [Threads -> Request]
    BY <1>2 DEF RemoveByHand, Overlapped
  <2>2. kept' \in [Slugs -> Contents] /\ project' \in [Slugs -> Contents] /\ legacy' \in [Slugs -> {0, Legacy}]
    BY <1>1, ContentsFacts DEF IInv, TypeOK
  <2> QED BY <1>1, <2>1, <2>2 DEF IInv, TypeOK
<1>4. \A x \in Slugs : /\ project'[x] \in {0, project[x]} /\ kept'[x] \in {0, kept[x]}
                       /\ legacy'[x] \in {0, legacy[x]}
                       /\ x # s => project'[x] = project[x] /\ kept'[x] = kept[x] /\ legacy'[x] = legacy[x]
  BY <1>1 DEF IInv, TypeOK
<1>5. Held' /\ Rising' /\ Named'
  BY <1>1, <1>2, <1>4 DEF IInv, TypeOK, Held, Rising, Named, At, Goes, Contents, Legacy
<1>6. Saver'
  BY <1>1, <1>2, <1>4 DEF IInv, Saver, Named, At, Goes, Saves
<1>7. Deleter'
  BY <1>1, <1>2, <1>4 DEF IInv, Deleter, Named, At, Goes
<1>8. Loader'
  BY <1>2, <1>4 DEF IInv, Loader, Named, Deleting, On, At, Goes
<1>9. Lister' /\ LoadIsCurrent'
  BY <1>1, <1>2, <1>4 DEF IInv, Lister, LoadIsCurrent, At, Goes
<1>10. Unsaved'
  BY <1>1, <1>2 DEF IInv, Unsaved, Saving, On, Goes
<1>11. SavedStaysListed'
  <2>1. kept'[s] = 0
    BY <1>1 DEF IInv, TypeOK
  <2> QED BY <1>1, <1>4, <2>1 DEF IInv, SavedStaysListed, Stored
<1>12. DeletedStaysGone'
  BY <1>1, <1>4 DEF IInv, TypeOK, DeletedStaysGone, Stored
<1> QED BY <1>3, <1>5, <1>6, <1>7, <1>8, <1>9, <1>10, <1>11, <1>12 DEF IInv

---------------------------------------------------------------------------
LEMMA InitIInv == Init => IInv
<1> SUFFICES ASSUME Init PROVE IInv
  OBVIOUS
<1>1. \A t \in Threads : th[t].pc = "idle"
  BY IdleRequest DEF Init
<1>2. TypeOK
  BY IdleRequest, BoundAssumption DEF Init, TypeOK, Contents, Legacy
<1>3. Held /\ Rising /\ Named /\ Saver /\ Deleter /\ Loader /\ Lister /\ Unsaved /\ LoadIsCurrent /\ DeletedStaysGone
  BY <1>1, NoThreadAssumption
     DEF Init, Held, Rising, Named, Saver, Deleter, Loader, Lister, Unsaved, LoadIsCurrent, DeletedStaysGone,
         At, Legacy
<1>4. SavedStaysListed
  BY DEF Init, SavedStaysListed, Stored, Legacy
<1> QED BY <1>2, <1>3, <1>4 DEF IInv

LEMMA StepIInv == ASSUME IInv, [Next]_vars PROVE IInv'
<1>1. ASSUME NEW t \in Threads,
             \/ SaveWrite(t) \/ Register(t) \/ DeletePop(t) \/ DeleteProject(t) \/ DeleteLegacy(t)
      PROVE  IInv'
  BY <1>1, SaveWriteKeeps, RegisterKeeps, DeletePopKeeps, DeleteProjectKeeps, DeleteLegacyKeeps
<1>2. ASSUME NEW t \in Threads,
             \/ ListRead(t) \/ ListStat(t) \/ ListDone(t)
             \/ LoadLook(t) \/ LoadOld(t) \/ LoadRead(t) \/ Crash(t)
      PROVE  IInv'
  BY <1>2, ListReadKeeps, ListStatKeeps, ListDoneKeeps, LoadLookKeeps, LoadReadsKeep, CrashKeeps
<1>3. ASSUME NEW s \in Slugs, RemoveByHand(s) PROVE IInv'
  BY <1>3, RemoveByHandKeeps
<1>4. CASE UNCHANGED vars
  BY <1>4 DEF vars, files, notes, IInv, TypeOK, Held, Rising, Named, Saver, Deleter, Loader, Lister, Unsaved,
              SavedStaysListed, DeletedStaysGone, LoadIsCurrent, Stored, Saving, Deleting, On, At, Saves
<1> QED BY <1>1, <1>2, <1>3, <1>4 DEF Next

\* The invariant holds in every state of every behaviour; the theorems below
\* are its conjuncts.
LEMMA Inductive == Spec => []IInv
BY InitIInv, StepIInv, PTL DEF Spec

\* Every variable keeps to its range.
THEOREM TypeCorrect == Spec => []TypeOK
BY Inductive, PTL DEF IInv

\* Only a failed read of the index makes it forget a name.
NoneForgotten == forgot = {}

LEMMA NothingForgotten == ASSUME ~ReadMayFail PROVE Spec => []NoneForgotten
<1>1. Init => NoneForgotten
  BY DEF Init, NoneForgotten
<1>2. NoneForgotten /\ [Next]_vars => NoneForgotten'
  <2> SUFFICES ASSUME forgot = {}, [Next]_vars PROVE forgot' = {}
    BY DEF NoneForgotten
  <2>1. \A read \in ReadIndex : Lost(read) = {}
    BY DEF ReadIndex, Lost
  <2>2. ASSUME NEW t \in Threads, Register(t) \/ DeletePop(t) PROVE forgot' = {}
    BY <2>1, <2>2 DEF Register, DeletePop
  <2>3. ASSUME NEW t \in Threads,
               \/ SaveWrite(t) \/ DeleteProject(t) \/ DeleteLegacy(t) \/ ListRead(t) \/ ListStat(t) \/ ListDone(t)
               \/ LoadLook(t) \/ LoadOld(t) \/ LoadRead(t) \/ Crash(t)
        PROVE  forgot' = {}
    BY <2>3 DEF SaveWrite, DeleteProject, DeleteLegacy, ListRead, ListStat, ListDone, LoadLook, LoadOld, LoadRead,
                Crash, notes
  <2>4. ASSUME NEW s \in Slugs, RemoveByHand(s) PROVE forgot' = {}
    BY <2>4 DEF RemoveByHand
  <2>5. CASE UNCHANGED vars
    BY <2>5 DEF vars, notes
  <2> QED BY <2>2, <2>3, <2>4, <2>5 DEF Next
<1> QED BY <1>1, <1>2, PTL DEF Spec

\* What SavedStaysListed says when every read of the index succeeds.
SavedAndListed == \A s \in Slugs : kept[s] # 0 => Stored(s) >= kept[s] /\ index[s] # 0

\* Whatever saves, deletes of other workspaces, listings that prune and crashes
\* overlap, a workspace whose save was answered is stored in that state or a
\* later one until it is deleted, and it is listed, unless a read of the index
\* failed since and took its name away; it is listed always where no read
\* fails (workspaces.py:125-191).
THEOREM SavedWorkspacesStay == Spec => [](SavedStaysListed /\ (~ReadMayFail => SavedAndListed))
<1>1. Spec => []SavedStaysListed
  BY Inductive, PTL DEF IInv
<1>2. CASE ReadMayFail
  <2>1. SavedStaysListed => SavedStaysListed /\ (~ReadMayFail => SavedAndListed)
    BY <1>2
  <2> QED BY <1>1, <2>1, PTL
<1>3. CASE ~ReadMayFail
  <2>1. SavedStaysListed /\ NoneForgotten => SavedStaysListed /\ (~ReadMayFail => SavedAndListed)
    BY DEF SavedStaysListed, SavedAndListed, NoneForgotten
  <2>2. Spec => []NoneForgotten
    BY <1>3, NothingForgotten
  <2> QED BY <1>1, <2>1, <2>2, PTL
<1> QED BY <1>2, <1>3

\* Nothing of a workspace comes back after its delete was answered, unless a
\* save overlapped the delete (delete_workspace).
THEOREM DeletedWorkspacesGone == Spec => []DeletedStaysGone
BY Inductive, PTL DEF IInv

\* A load that no delete overlaps answers with the last save answered before
\* it began, or a later one, although it looks, and reads, without the lock
\* (stored_path).
THEOREM LoadsAreCurrent == Spec => []LoadIsCurrent
BY Inductive, PTL DEF IInv
=============================================================================
