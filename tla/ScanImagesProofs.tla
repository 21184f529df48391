-------------------------- MODULE ScanImagesProofs --------------------------
(* Theorems about ScanImages, for any number of threads, channels, maps,    *)
(* images, families and replaced sessions.                                  *)
EXTENDS ScanImages, SequenceTheorems, TLAPS

---------------------------------------------------------------------------
\* Images, families and threads, one at a time

LEMMA NumbersFacts ==
    ASSUME TypeOK
    PROVE  /\ Len(image) \in Nat /\ Len(heap) \in Nat /\ 0 \notin Ids /\ 0 \notin Families
           /\ NewId \in Nat /\ NewId # 0 /\ NewId \notin Ids
           /\ Len(heap) + 1 \in Nat /\ Len(heap) + 1 # 0 /\ Len(heap) + 1 \notin Families
           /\ Ids \subseteq Nat /\ Families \subseteq Nat
<1>1. Len(image) \in Nat /\ Len(heap) \in Nat
  BY LenProperties DEF TypeOK
<1> QED BY <1>1 DEF Ids, Families, NewId

LEMMA RecordFacts ==
    ASSUME TypeOK
    PROVE  /\ \A i \in Ids : image[i] \in ImageRecord
           /\ \A f \in Families : heap[f] \in Family
           /\ \A t \in Threads : th[t] \in Local
BY ElementOfSeq DEF TypeOK, Ids, Families

LEMMA AppendedImage ==
    ASSUME TypeOK, NEW r \in ImageRecord, image' = Append(image, r)
    PROVE  /\ image' \in Seq(ImageRecord) /\ Ids' = Ids \cup {NewId}
           /\ image'[NewId] = r /\ \A i \in Ids : image'[i] = image[i]
<1>1. image \in Seq(ImageRecord)
  BY DEF TypeOK
<1>2. Len(image) \in Nat /\ Len(image') = Len(image) + 1 /\ image' \in Seq(ImageRecord)
  BY <1>1, LenProperties, AppendProperties
<1>3. image'[Len(image) + 1] = r /\ \A i \in 1 .. Len(image) : image'[i] = image[i]
  BY <1>1, AppendProperties
<1> QED BY <1>2, <1>3 DEF Ids, NewId

LEMMA PutImage ==
    ASSUME TypeOK, NEW i \in Ids, NEW r \in ImageRecord, image' = [image EXCEPT ![i] = r]
    PROVE  /\ image' \in Seq(ImageRecord) /\ Ids' = Ids
           /\ image'[i] = r /\ \A j \in Ids : j # i => image'[j] = image[j]
<1>1. /\ image' \in Seq(ImageRecord) /\ Len(image') = Len(image)
      /\ \A j \in 1 .. Len(image) : image'[j] = IF j = i THEN r ELSE image[j]
  BY ExceptSeq DEF TypeOK, Ids
<1> QED BY <1>1 DEF Ids

LEMMA AppendedFamily ==
    ASSUME TypeOK, NEW r \in Family, heap' = Append(heap, r)
    PROVE  /\ heap' \in Seq(Family) /\ Families' = Families \cup {Len(heap) + 1}
           /\ heap'[Len(heap) + 1] = r /\ \A f \in Families : heap'[f] = heap[f]
<1>1. heap \in Seq(Family)
  BY DEF TypeOK
<1>2. Len(heap) \in Nat /\ Len(heap') = Len(heap) + 1 /\ heap' \in Seq(Family)
  BY <1>1, LenProperties, AppendProperties
<1>3. heap'[Len(heap) + 1] = r /\ \A f \in 1 .. Len(heap) : heap'[f] = heap[f]
  BY <1>1, AppendProperties
<1> QED BY <1>2, <1>3 DEF Families

LEMMA PutFamily ==
    ASSUME TypeOK, NEW f \in Families, NEW r \in Family, heap' = [heap EXCEPT ![f] = r]
    PROVE  /\ heap' \in Seq(Family) /\ Families' = Families
           /\ heap'[f] = r /\ \A g \in Families : g # f => heap'[g] = heap[g]
<1>1. /\ heap' \in Seq(Family) /\ Len(heap') = Len(heap)
      /\ \A g \in 1 .. Len(heap) : heap'[g] = IF g = f THEN r ELSE heap[g]
  BY ExceptSeq DEF TypeOK, Families
<1> QED BY <1>1 DEF Families

\* Thread t moves, and the others stay where they are.
Moves(t) == /\ th' \in [Threads -> Local]
            /\ \A u \in Threads : u # t => th'[u] = th[u]

LEMMA GoesTo ==
    ASSUME TypeOK, NEW t \in Threads, NEW r \in Local, th' = [th EXCEPT ![t] = r]
    PROVE  Moves(t) /\ th'[t] = r
BY DEF TypeOK, Moves

LEMMA GotoFacts ==
    ASSUME TypeOK, NEW t \in Threads, NEW pc \in Places, Goto(t, pc)
    PROVE  /\ Moves(t) /\ th'[t].pc = pc /\ th'[t].img = th[t].img /\ th'[t].gen = th[t].gen
           /\ th'[t].fam = th[t].fam /\ th'[t].live = th[t].live /\ th'[t].todo = th[t].todo
<1> DEFINE r == [th[t] EXCEPT !.pc = pc]
<1>1. th[t] \in Local
  BY RecordFacts
<1>2. /\ r \in Local /\ r.pc = pc /\ r.img = th[t].img /\ r.gen = th[t].gen
      /\ r.fam = th[t].fam /\ r.live = th[t].live /\ r.todo = th[t].todo
  BY <1>1 DEF Local
<1>3. th' = [th EXCEPT ![t] = r]
  BY DEF Goto
<1> HIDE DEF r
<1>4. Moves(t) /\ th'[t] = r
  BY <1>2, <1>3, GoesTo
<1> QED BY <1>2, <1>4

LEMMA IdleFacts ==
    /\ Idle \in Local /\ Idle.pc = "idle" /\ Idle.img = 0 /\ Idle.gen = 0
    /\ Idle.fam = 0 /\ Idle.live = {} /\ Idle.todo = {}
BY DEF Idle, Local, Places

LEMMA AnswerFacts ==
    ASSUME TypeOK, NEW t \in Threads, Answer(t)
    PROVE  Moves(t) /\ th'[t] = Idle
BY IdleFacts, GoesTo DEF Answer

---------------------------------------------------------------------------
(* The invariant: what images and families are to each other, what running *)
(* requests may rely on, and that families in use can be cleaned up.       *)

Resetting == \E t \in Threads : At(t, "reset")
Forgetting(i) == \E t \in Threads : At(t, "forget") /\ th[t].img = i
Root(f) == heap[f].root
Members(f) == heap[f].members

\* An image that is closed has no file and is in no family; one with a file
\* is the root of its family, if any; a family is attached to its root.
ImagesInv ==
    \A i \in Ids :
        /\ ~image[i].open => ~image[i].disk /\ image[i].of = 0
        /\ image[i].of # 0 => image[i].label \in Labels /\ image[i].gen <= generation
        /\ image[i].disk => image[i].key \in {0, i}
        /\ image[i].disk /\ image[i].key = 0 => image[i].family = 0
        /\ image[i].family # 0 => Root(image[i].family) = i

\* A family knows its open images, each under its channel.
MembersInv ==
    \A i \in Open : image[i].of # 0 => Members(image[i].of)[image[i].label] = i

\* An open image of this session is found through the root of its family.
LinksInv ==
    \A i \in Open :
        image[i].of # 0 /\ image[i].gen = generation =>
            image[i].key # 0 /\ image[image[i].key].family = image[i].of

\* A request that may still register channels of its family in this session.
Holds(t) ==
    /\ th[t].pc \in {"opening", "read", "check"} /\ th[t].todo # {}
    /\ th[t].gen = generation

\* Families in use: attached to their root, or about to be attached again.
Tracked(f) ==
    \/ \E k \in Ids : image[k].family = f
    \/ \E t \in Threads : Holds(t) /\ th[t].fam = f

\* Each member is open or about to be forgotten, and forgetting it will find
\* the family: so a family that is detached has no member.
Tidy(f) ==
    \A l \in Labels, j \in Ids :
        Members(f)[l] = j =>
            /\ image[Root(f)].family = f /\ image[j].key = Root(f)
            /\ image[j].open \/ Forgetting(j)
TidyInv == Resetting \/ \A f \in Families : Tracked(f) => Tidy(f)

RootsInv ==
    \A t \in Threads :
        Holds(t) /\ image[Root(th[t].fam)].disk => image[Root(th[t].fam)].key = Root(th[t].fam)

\* What keeps a family: a member that is open or being forgotten.
Kept(f) ==
    \/ \E l \in Labels, j \in Ids : Members(f)[l] = j /\ (image[j].open \/ Forgetting(j))
    \/ Resetting
NotLeakedInv ==
    \A k \in Ids :
        image[k].family # 0 =>
            Kept(image[k].family) \/ \E t \in Threads : At(t, "register") /\ th[t].fam = image[k].family

\* An upload is in no family before its channels are stashed.
Apart(t) ==
    LET i == th[t].img
    IN  /\ i # 0 /\ ~image[i].disk /\ image[i].key = 0 /\ image[i].family = 0
        /\ \A f \in Families : Root(f) # i
        /\ \A j \in Ids : image[j].key # i
        /\ \A u \in Threads : At(u, "stash") /\ th[u].img = i => u = t

\* The request that registers is alone, its family is attached, it knows the
\* open images it must not show again, and what it has done keeps the family.
Registers(t) ==
    /\ th[t].gen = generation /\ image[Root(th[t].fam)].family = th[t].fam
    /\ \A j \in Open : image[j].of = th[t].fam /\ image[j].label \in th[t].todo => j \in th[t].live
    /\ \A j \in th[t].live : image[j].open \/ Forgetting(j) \/ Resetting
    /\ th[t].todo = {} => Kept(th[t].fam)
    /\ \A u \in Threads : At(u, "register") => u = t

Request(t) ==
    /\ At(t, "idle") => th[t] = Idle
    /\ th[t].pc \in {"family", "stash"} => th[t].img # 0 /\ image[th[t].img].label \in Labels
    /\ At(t, "forget") => th[t].img # 0 /\ ~image[th[t].img].open
    /\ th[t].pc \in {"opening", "read", "check", "register"} => th[t].fam # 0
    /\ th[t].pc \in {"family", "opening", "read", "check", "register"} =>
          th[t].todo \subseteq Labels /\ th[t].gen <= generation
    /\ At(t, "check") => th[t].todo # {}
    /\ th[t].pc \in {"commit", "maps"} => th[t].todo \subseteq Maps
    /\ At(t, "maps") => th[t].gen = forceGen
    /\ At(t, "stash") => Apart(t)
    /\ At(t, "register") => Registers(t)
RequestsInv == \A t \in Threads : Request(t)

IInv == /\ TypeOK /\ ImagesInv /\ MembersInv /\ LinksInv /\ TidyInv /\ RootsInv
        /\ NotLeakedInv /\ RequestsInv /\ MapsOfThisSession

LEMMA RangeFacts ==
    ASSUME TypeOK
    PROVE  /\ \A i \in Ids : /\ image[i].key \in Ids \cup {0} /\ image[i].family \in Families \cup {0}
                             /\ image[i].of \in Families \cup {0}
           /\ \A f \in Families : Root(f) \in Ids /\ \A l \in Labels : Members(f)[l] \in Ids \cup {0}
           /\ \A t \in Threads : /\ th[t].img \in Ids \cup {0} /\ th[t].fam \in Families \cup {0}
                                 /\ th[t].live \subseteq Ids
BY DEF TypeOK, Root, Members

---------------------------------------------------------------------------
(* A calm step leaves families and keys alone: images are made outside any *)
(* family, close, or open again; no image in the hands of a request does.  *)

Calm ==
    /\ Families' = Families /\ Ids \subseteq Ids' /\ generation' = generation
    /\ \A f \in Families : Root(f)' = Root(f) /\ Members(f)' = Members(f)
    /\ \A i \in Ids : /\ image'[i].label = image[i].label /\ image'[i].key = image[i].key
                      /\ image'[i].family = image[i].family
                      /\ image'[i].of # 0 => /\ image'[i].open /\ image'[i].of = image[i].of
                                             /\ image'[i].gen = image[i].gen
    /\ \A i \in Ids' \ Ids : image'[i].key = 0 /\ image'[i].family = 0 /\ image'[i].of = 0
    /\ \A i \in Ids' : image'[i].disk => image'[i].open /\ (i \in Ids => image[i].disk)
    /\ \A i \in Ids : image[i].open => image'[i].open \/ Forgetting(i)' \/ Resetting'
    /\ \A i \in Ids : Forgetting(i) => Forgetting(i)' /\ ~image'[i].open
    /\ Resetting => Resetting'

LEMMA CalmType ==
    ASSUME TypeOK, Calm, image' \in Seq(ImageRecord), heap' \in Seq(Family), forceGen' \in Nat,
           NEW t \in Threads, Moves(t),
           th'[t].img \in Ids' \cup {0}, th'[t].fam \in Families \cup {0}, th'[t].live \subseteq Ids'
    PROVE  TypeOK'
<1>1. \A i \in Ids' : /\ image'[i].key \in Ids' \cup {0} /\ image'[i].family \in Families' \cup {0}
                      /\ image'[i].of \in Families' \cup {0}
  BY RangeFacts DEF Calm
<1>2. \A f \in Families' : Root(f)' \in Ids' /\ \A l \in Labels : Members(f)'[l] \in Ids' \cup {0}
  BY RangeFacts DEF Calm
<1>3. \A u \in Threads : /\ th'[u].img \in Ids' \cup {0} /\ th'[u].fam \in Families' \cup {0}
                         /\ th'[u].live \subseteq Ids'
  BY RangeFacts DEF Calm, Moves
<1>4. generation' \in Nat /\ th' \in [Threads -> Local]
  BY DEF Calm, Moves, TypeOK
<1> QED BY <1>1, <1>2, <1>3, <1>4 DEF TypeOK, Root, Members

LEMMA CalmImages == ASSUME TypeOK, ImagesInv, Calm PROVE ImagesInv'
<1> SUFFICES ASSUME NEW i \in Ids'
             PROVE  /\ ~image'[i].open => ~image'[i].disk /\ image'[i].of = 0
                    /\ image'[i].of # 0 => image'[i].label \in Labels /\ image'[i].gen <= generation'
                    /\ image'[i].disk => image'[i].key \in {0, i}
                    /\ image'[i].disk /\ image'[i].key = 0 => image'[i].family = 0
                    /\ image'[i].family # 0 => heap'[image'[i].family].root = i
  BY DEF ImagesInv, Root
<1>1. CASE i \notin Ids
  BY <1>1 DEF Calm
<1>2. CASE i \in Ids
  <2>1. image[i].family # 0 => heap'[image[i].family].root = i
    BY <1>2, RangeFacts DEF Calm, ImagesInv, Root
  <2> QED BY <1>2, <2>1 DEF Calm, ImagesInv
<1> QED BY <1>1, <1>2

LEMMA CalmMembers == ASSUME TypeOK, ImagesInv, MembersInv, LinksInv, Calm PROVE MembersInv' /\ LinksInv'
<1> SUFFICES ASSUME NEW i \in Ids', image'[i].of # 0
             PROVE  /\ heap'[image'[i].of].members[image'[i].label] = i
                    /\ image'[i].gen = generation' =>
                          image'[i].key # 0 /\ image'[image'[i].key].family = image'[i].of
  BY DEF MembersInv, LinksInv, Open, Members
<1>1. /\ i \in Ids /\ image'[i].of = image[i].of /\ image'[i].gen = image[i].gen
      /\ image'[i].label = image[i].label /\ image'[i].key = image[i].key /\ generation' = generation
  BY DEF Calm
<1>2. i \in Open /\ image[i].of \in Families /\ image[i].key \in Ids \cup {0}
  BY <1>1, RangeFacts DEF ImagesInv, Open
<1>3. heap'[image[i].of].members = heap[image[i].of].members
  BY <1>2 DEF Calm, Members
<1>4. image[i].key # 0 => image'[image[i].key].family = image[image[i].key].family
  BY <1>2 DEF Calm
<1> QED BY <1>1, <1>2, <1>3, <1>4 DEF MembersInv, LinksInv, Members

LEMMA CalmKept == ASSUME TypeOK, Calm, NEW f \in Families, Kept(f) PROVE Kept(f)'
<1>1. CASE Resetting
  BY <1>1 DEF Calm, Kept
<1>2. ASSUME NEW l \in Labels, NEW j \in Ids, Members(f)[l] = j, image[j].open \/ Forgetting(j)
      PROVE  Kept(f)'
  <2>1. j \in Ids' /\ Members(f)'[l] = j
    BY <1>2 DEF Calm
  <2>2. image'[j].open \/ Forgetting(j)' \/ Resetting'
    BY <1>2 DEF Calm
  <2> QED BY <2>1, <2>2 DEF Kept
<1> QED BY <1>1, <1>2 DEF Kept

LEMMA ZeroFree == 0 \notin Ids /\ 0 \notin Ids' /\ 0 \notin Families /\ 0 \notin Families'
BY DEF Ids, Families

LEMMA CalmTidy ==
    ASSUME TypeOK, TidyInv, Calm, NEW t \in Threads, Moves(t), Holds(t)' => Tracked(th'[t].fam)
    PROVE  TidyInv'
<1> SUFFICES ASSUME ~Resetting', NEW f \in Families', Tracked(f)' PROVE Tidy(f)'
  BY DEF TidyInv
<1>1. ~Resetting /\ f \in Families /\ f # 0 /\ generation' = generation
  BY ZeroFree DEF Calm
<1>2. Tracked(f)
  <2>1. ASSUME NEW k \in Ids', image'[k].family = f PROVE Tracked(f)
    BY <1>1, <2>1 DEF Calm, Tracked
  <2>2. ASSUME NEW u \in Threads, Holds(u)', th'[u].fam = f PROVE Tracked(f)
    <3>1. CASE u = t
      BY <2>2, <3>1
    <3>2. CASE u # t
      <4>1. Holds(u) /\ th[u].fam = f
        BY <1>1, <2>2, <3>2 DEF Moves, Holds
      <4> QED BY <4>1 DEF Tracked
    <3> QED BY <3>1, <3>2
  <2> QED BY <2>1, <2>2 DEF Tracked
<1>3. Tidy(f)
  BY <1>1, <1>2 DEF TidyInv
<1>4. ASSUME NEW l \in Labels, NEW j \in Ids', Members(f)'[l] = j
      PROVE  image'[Root(f)'].family = f /\ image'[j].key = Root(f)' /\ (image'[j].open \/ Forgetting(j)')
  <2>1. Members(f)[l] = j /\ j \in Ids /\ Root(f)' = Root(f) /\ Root(f) \in Ids
    BY <1>1, <1>4, ZeroFree, RangeFacts DEF Calm
  <2>2. image[Root(f)].family = f /\ image[j].key = Root(f) /\ (image[j].open \/ Forgetting(j))
    BY <1>3, <2>1 DEF Tidy
  <2>3. image'[Root(f)].family = image[Root(f)].family /\ image'[j].key = image[j].key
    BY <2>1 DEF Calm
  <2>4. image'[j].open \/ Forgetting(j)'
    BY <1>1, <2>1, <2>2 DEF Calm
  <2> QED BY <2>1, <2>2, <2>3, <2>4
<1> QED BY <1>4 DEF Tidy

LEMMA CalmRoots ==
    ASSUME TypeOK, RootsInv, RequestsInv, Calm, NEW t \in Threads, Moves(t),
           Holds(t)' => LET k == Root(th'[t].fam)
                        IN  th'[t].fam \in Families /\ (image[k].disk => image[k].key = k)
    PROVE  RootsInv'
<1> SUFFICES ASSUME NEW u \in Threads, Holds(u)', image'[heap'[th'[u].fam].root].disk
             PROVE  image'[heap'[th'[u].fam].root].key = heap'[th'[u].fam].root
  BY DEF RootsInv, Root
<1>1. PICK f : f = th'[u].fam
  OBVIOUS
<1>2. f \in Families /\ (image[Root(f)].disk => image[Root(f)].key = Root(f))
  <2>1. CASE u = t
    BY <1>1, <2>1
  <2>2. CASE u # t
    <3>1. Holds(u) /\ th[u].fam = f
      BY <1>1, <2>2 DEF Moves, Holds, Calm
    <3>2. f # 0 /\ f \in Families
      BY <3>1, RangeFacts DEF RequestsInv, Request, Holds
    <3> QED BY <3>1, <3>2 DEF RootsInv
  <2> QED BY <2>1, <2>2
<1>3. heap'[f].root = Root(f) /\ Root(f) \in Ids
  BY <1>2, RangeFacts DEF Calm, Root
<1>4. image'[Root(f)].disk => image[Root(f)].disk
  BY <1>3 DEF Calm
<1>5. image'[Root(f)].key = image[Root(f)].key
  BY <1>3 DEF Calm
<1> QED BY <1>1, <1>2, <1>3, <1>4, <1>5

LEMMA CalmLeaks ==
    ASSUME TypeOK, NotLeakedInv, Calm, NEW t \in Threads, Moves(t),
           \A f \in Families : At(t, "register") /\ th[t].fam = f =>
               Kept(f)' \/ (At(t, "register")' /\ th'[t].fam = f)
    PROVE  NotLeakedInv'
<1> SUFFICES ASSUME NEW k \in Ids', NEW f, f = image'[k].family, f # 0
             PROVE  Kept(f)' \/ \E u \in Threads : At(u, "register")' /\ th'[u].fam = f
  BY DEF NotLeakedInv
<1>1. k \in Ids /\ image[k].family = f /\ f \in Families
  BY RangeFacts DEF Calm
<1>2. CASE Kept(f)
  BY <1>1, <1>2, CalmKept
<1>3. ASSUME NEW u \in Threads, At(u, "register"), th[u].fam = f
      PROVE  Kept(f)' \/ \E v \in Threads : At(v, "register")' /\ th'[v].fam = f
  <2>1. CASE u # t
    BY <1>3, <2>1 DEF Moves, At
  <2>2. CASE u = t
    BY <1>1, <1>3, <2>2
  <2> QED BY <2>1, <2>2
<1> QED BY <1>1, <1>2, <1>3 DEF NotLeakedInv

LEMMA CalmApart ==
    ASSUME TypeOK, Calm, NEW t \in Threads, Moves(t), NEW u \in Threads, u # t, Apart(u),
           th'[t].pc = "stash" => th'[t].img \notin Ids
    PROVE  Apart(u)'
<1>1. th'[u] = th[u] /\ th[u].img # 0 /\ th[u].img \in Ids
  BY RangeFacts DEF Moves, Apart
<1>2. PICK i : i = th[u].img
  OBVIOUS
<1>3. i # 0 /\ i \in Ids /\ ~image[i].disk /\ image[i].key = 0 /\ image[i].family = 0
  BY <1>1, <1>2 DEF Apart
<1>4. ~image'[i].disk /\ image'[i].key = 0 /\ image'[i].family = 0
  BY <1>3 DEF Calm
<1>5. \A f \in Families' : heap'[f].root # i
  BY <1>2 DEF Calm, Apart, Root
<1>6. \A j \in Ids' : image'[j].key # i
  BY <1>2, <1>3 DEF Calm, Apart
<1>7. \A v \in Threads : th'[v].pc = "stash" /\ th'[v].img = i => v = u
  BY <1>2, <1>3 DEF Moves, Apart, At
<1> QED BY <1>1, <1>2, <1>3, <1>4, <1>5, <1>6, <1>7 DEF Apart, At, Root

LEMMA CalmRegisters ==
    ASSUME TypeOK, ImagesInv, Calm, NEW t \in Threads, Moves(t), NEW u \in Threads, u # t,
           th[u].fam # 0, Registers(u), th'[t].pc = "register" => th[t].pc = "register"
    PROVE  Registers(u)'
<1>1. PICK f : f = th[u].fam
  OBVIOUS
<1>2. th'[u] = th[u] /\ f \in Families /\ generation' = generation /\ Root(f) \in Ids
      /\ th[u].live \subseteq Ids
  BY <1>1, RangeFacts DEF Moves, Calm
<1>3. th[u].gen = generation /\ image'[heap'[f].root].family = f
  BY <1>1, <1>2 DEF Registers, Calm, Root
<1>4. ASSUME NEW j \in Ids', image'[j].open, image'[j].of = f, image'[j].label \in th[u].todo
      PROVE  j \in th[u].live
  <2>1. f # 0
    BY <1>2, ZeroFree
  <2>2. j \in Ids /\ image[j].of = f /\ image[j].label \in th[u].todo
    BY <1>4, <2>1 DEF Calm
  <2>3. j \in Open
    BY <2>1, <2>2 DEF ImagesInv, Open
  <2> QED BY <1>1, <2>2, <2>3 DEF Registers
<1>5. ASSUME NEW j \in th[u].live PROVE image'[j].open \/ Forgetting(j)' \/ Resetting'
  BY <1>2 DEF Registers, Calm
<1>6. th[u].todo = {} => Kept(f)'
  BY <1>1, <1>2, CalmKept DEF Registers
<1>7. \A v \in Threads : th'[v].pc = "register" => v = u
  BY DEF Moves, Registers, At
<1>8. th'[u].todo = {} => Kept(f)'
  BY <1>2, <1>6
<1>9. f = th'[u].fam
  BY <1>1, <1>2
<1>10. th'[u].todo = {} => \/ \E l \in Labels, j \in Ids' : heap'[th'[u].fam].members[l] = j
                                                           /\ (image'[j].open \/ Forgetting(j)')
                           \/ Resetting'
  BY <1>8, <1>9 DEF Kept, Members
<1>11. /\ th'[u].gen = generation' /\ image'[heap'[th'[u].fam].root].family = th'[u].fam
       /\ \A j \in Ids' : image'[j].open /\ image'[j].of = th'[u].fam /\ image'[j].label \in th'[u].todo
                              => j \in th'[u].live
       /\ \A j \in th'[u].live : image'[j].open \/ Forgetting(j)' \/ Resetting'
  BY <1>2, <1>3, <1>4, <1>5, <1>9
<1>12. (th[u].todo = {} => Kept(th[u].fam))'
  BY <1>10 DEF Kept, Members
<1>13. (\A j \in Open : image[j].of = th[u].fam /\ image[j].label \in th[u].todo => j \in th[u].live)'
  BY <1>11 DEF Open
<1>14. (\A v \in Threads : At(v, "register") => v = u)'
  BY <1>7 DEF At
<1>15. (th[u].gen = generation /\ image[Root(th[u].fam)].family = th[u].fam)'
  BY <1>11 DEF Root
<1> QED BY <1>11, <1>12, <1>13, <1>14, <1>15 DEF Registers

LEMMA CalmRequest ==
    ASSUME TypeOK, ImagesInv, RequestsInv, Calm, NEW t \in Threads, Moves(t),
           th'[t].pc = "stash" => th'[t].img \notin Ids,
           th'[t].pc = "register" => th[t].pc = "register",
           \A u \in Threads : th[u].pc = "maps" => forceGen' = forceGen,
           NEW u \in Threads, u # t
    PROVE  Request(u)'
<1>1. /\ Request(u) /\ th'[u] = th[u] /\ generation' = generation
      /\ th[u].img \in Ids \cup {0} /\ (th[u].pc = "maps" => forceGen' = forceGen)
  BY RangeFacts DEF RequestsInv, Moves, Calm
<1>2. th[u].img \in Ids => image'[th[u].img].label = image[th[u].img].label
  BY DEF Calm
<1>3. th[u].pc = "forget" /\ th[u].img \in Ids => ~image'[th[u].img].open
  BY DEF Calm, Forgetting, At
<1>4. th[u].pc = "stash" => Apart(u)'
  BY <1>1, CalmApart DEF Request, At
<1>5. th[u].pc = "register" => Registers(u)'
  BY <1>1, CalmRegisters DEF Request, At
<1> QED BY <1>1, <1>2, <1>3, <1>4, <1>5 DEF Request, At

LEMMA CalmKeeps ==
    ASSUME IInv, Calm, image' \in Seq(ImageRecord), heap' \in Seq(Family), forceGen' \in Nat,
           NEW t \in Threads, Moves(t),
           th'[t].img \in Ids' \cup {0}, th'[t].fam \in Families \cup {0}, th'[t].live \subseteq Ids',
           th'[t].pc = "stash" => th'[t].img \notin Ids,
           th'[t].pc = "register" => th[t].pc = "register",
           \A u \in Threads : th[u].pc = "maps" => forceGen' = forceGen,
           Holds(t)' => /\ Tracked(th'[t].fam)
                        /\ LET k == Root(th'[t].fam)
                           IN  th'[t].fam \in Families /\ (image[k].disk => image[k].key = k),
           \A f \in Families : At(t, "register") /\ th[t].fam = f =>
               Kept(f)' \/ (At(t, "register")' /\ th'[t].fam = f),
           Request(t)', MapsOfThisSession'
    PROVE  IInv'
<1>1. TypeOK'
  BY CalmType DEF IInv
<1>2. ImagesInv' /\ MembersInv' /\ LinksInv'
  BY CalmImages, CalmMembers DEF IInv
<1>3. TidyInv'
  BY CalmTidy DEF IInv
<1>4. RootsInv'
  BY CalmRoots DEF IInv
<1>5. NotLeakedInv'
  BY CalmLeaks DEF IInv
<1>6. ASSUME NEW u \in Threads PROVE Request(u)'
  <2>1. CASE u = t
    BY <2>1
  <2>2. CASE u # t
    BY <2>2, CalmRequest DEF IInv
  <2> QED BY <2>1, <2>2
<1>7. RequestsInv'
  BY <1>6 DEF RequestsInv
<1> QED BY <1>1, <1>2, <1>3, <1>4, <1>5, <1>7 DEF IInv

---------------------------------------------------------------------------
\* Steps that change no image

\* Families as they were, but for who holds their opening lock.
SameFamilies ==
    /\ heap' \in Seq(Family) /\ Families' = Families
    /\ \A f \in Families : Root(f)' = Root(f) /\ Members(f)' = Members(f)

LEMMA OpeningPut ==
    ASSUME TypeOK, NEW f \in Families, NEW o \in Threads \cup {NoThread},
           heap' = [heap EXCEPT ![f].opening = o]
    PROVE  SameFamilies
<1> DEFINE r == [heap[f] EXCEPT !.opening = o]
<1>1. heap[f] \in Family
  BY RecordFacts
<1>2. r \in Family /\ r.root = heap[f].root /\ r.members = heap[f].members
  BY <1>1 DEF Family
<1>3. heap' = [heap EXCEPT ![f] = r]
  OBVIOUS
<1> HIDE DEF r
<1>4. /\ heap' \in Seq(Family) /\ Families' = Families
      /\ heap'[f] = r /\ \A g \in Families : g # f => heap'[g] = heap[g]
  BY <1>2, <1>3, PutFamily
<1> QED BY <1>2, <1>4 DEF SameFamilies, Root, Members

LEMMA SameHeap == ASSUME TypeOK, heap' = heap PROVE SameFamilies
BY DEF SameFamilies, Families, Root, Members, TypeOK

LEMMA OthersStay ==
    ASSUME NEW t \in Threads, Moves(t), th[t].pc \notin {"forget", "reset"}
    PROVE  /\ \A i : Forgetting(i) => Forgetting(i)'
           /\ Resetting => Resetting'
BY DEF Moves, Forgetting, Resetting, At

LEMMA QuietCalm ==
    ASSUME IInv, UNCHANGED <<image, generation>>, SameFamilies,
           NEW t \in Threads, Moves(t), th[t].pc \notin {"forget", "reset"}
    PROVE  Calm
<1>1. Ids' = Ids
  BY DEF Ids
<1>2. \A i \in Ids : Forgetting(i) => ~image[i].open
  BY DEF IInv, RequestsInv, Request, Forgetting
<1>3. \A i \in Ids : (image[i].of # 0 => image[i].open) /\ (image[i].disk => image[i].open)
  BY DEF IInv, ImagesInv
<1> QED BY <1>1, <1>2, <1>3, OthersStay DEF Calm, SameFamilies

\* No map is added, and the images of maps are of this session as before.
LEMMA MapsStay ==
    ASSUME MapsOfThisSession, forceGen' = forceGen, NEW t \in Threads, Moves(t), th[t].pc # "clear",
           \A i \in Ids' : image'[i].open /\ image'[i].label \in Maps =>
               \/ image'[i].gen = forceGen
               \/ i \in Open /\ image[i].label \in Maps /\ image[i].gen = image'[i].gen
    PROVE  MapsOfThisSession'
<1> SUFFICES ASSUME NEW i \in Ids', image'[i].open, image'[i].label \in Maps, image'[i].gen # forceGen
             PROVE  \E u \in Threads : th'[u].pc = "clear"
  BY DEF MapsOfThisSession, Open, At
<1>1. PICK u \in Threads : th[u].pc = "clear"
  BY DEF MapsOfThisSession, At
<1> QED BY <1>1 DEF Moves

LEMMA QuietKeeps ==
    ASSUME IInv, UNCHANGED <<image, generation, forceGen>>, SameFamilies,
           NEW t \in Threads, Moves(t), th[t].pc \notin {"forget", "reset", "clear"},
           th'[t].img \in Ids \cup {0}, th'[t].fam \in Families \cup {0}, th'[t].live \subseteq Ids,
           th'[t].pc # "stash", th'[t].pc = "register" => th[t].pc = "register",
           Holds(t)' => /\ Tracked(th'[t].fam)
                        /\ LET k == Root(th'[t].fam)
                           IN  th'[t].fam \in Families /\ (image[k].disk => image[k].key = k),
           \A f \in Families : At(t, "register") /\ th[t].fam = f =>
               Kept(f)' \/ (At(t, "register")' /\ th'[t].fam = f),
           Request(t)'
    PROVE  IInv'
<1>1. Calm /\ Ids' = Ids
  BY QuietCalm DEF Ids
<1>2. MapsOfThisSession'
  BY <1>1, MapsStay DEF IInv, Open
<1>3. image' \in Seq(ImageRecord) /\ forceGen' \in Nat
  BY DEF IInv, TypeOK
<1>4. heap' \in Seq(Family)
  BY DEF SameFamilies
<1> QED BY <1>1, <1>2, <1>3, <1>4, CalmKeeps

\* The request ends.
LEMMA EndKeeps ==
    ASSUME IInv, UNCHANGED <<image, generation, forceGen>>, SameFamilies,
           NEW t \in Threads, Answer(t), th[t].pc \notin {"forget", "reset", "clear"},
           \A f \in Families : At(t, "register") /\ th[t].fam = f => Kept(f)'
    PROVE  IInv'
<1>1. Moves(t) /\ th'[t] = Idle
  BY AnswerFacts DEF IInv
<1>2. Request(t)' /\ ~Holds(t)'
  BY <1>1, IdleFacts DEF Request, Holds, At
<1>3. /\ th'[t].img \in Ids \cup {0} /\ th'[t].fam \in Families \cup {0} /\ th'[t].live \subseteq Ids
      /\ th'[t].pc \notin {"stash", "register"}
  BY <1>1, IdleFacts
<1>4. \A f \in Families : At(t, "register") /\ th[t].fam = f =>
          Kept(f)' \/ (At(t, "register")' /\ th'[t].fam = f)
  OBVIOUS
<1>5. Holds(t)' => /\ Tracked(th'[t].fam)
                   /\ LET k == Root(th'[t].fam)
                      IN  th'[t].fam \in Families /\ (image[k].disk => image[k].key = k)
  BY <1>2
<1> QED BY <1>1, <1>2, <1>3, <1>4, <1>5, QuietKeeps

\* The request goes on with the family it has.
LEMMA GoesOn ==
    ASSUME IInv, UNCHANGED <<image, generation, forceGen>>, SameFamilies,
           NEW t \in Threads, NEW pc \in {"read", "check"}, Goto(t, pc), th[t].pc \in {"opening", "read"},
           pc = "check" => th[t].todo # {}
    PROVE  IInv'
<1>1. /\ Moves(t) /\ th'[t].pc = pc /\ th'[t].img = th[t].img /\ th'[t].gen = th[t].gen
      /\ th'[t].fam = th[t].fam /\ th'[t].live = th[t].live /\ th'[t].todo = th[t].todo
  BY GotoFacts DEF IInv, Places
<1>2. /\ th[t].img \in Ids \cup {0} /\ th[t].fam \in Families /\ th[t].live \subseteq Ids
      /\ th[t].fam # 0 /\ th[t].todo \subseteq Labels /\ th[t].gen <= generation
  BY RangeFacts DEF IInv, RequestsInv, Request
<1>3. Request(t)'
  BY <1>1, <1>2 DEF Request, At
<1>4. Holds(t)' => Holds(t)
  BY <1>1 DEF Holds
<1>5. Holds(t) => Tracked(th[t].fam)
  BY DEF Tracked
<1>6. Holds(t) => LET k == Root(th[t].fam) IN image[k].disk => image[k].key = k
  BY DEF IInv, RootsInv
<1>7. /\ th'[t].img \in Ids \cup {0} /\ th'[t].fam \in Families \cup {0} /\ th'[t].live \subseteq Ids
      /\ th'[t].pc \notin {"stash", "register"} /\ th[t].pc \notin {"forget", "reset", "clear", "register"}
  BY <1>1, <1>2
<1>8. Holds(t)' => /\ Tracked(th'[t].fam)
                   /\ LET k == Root(th'[t].fam)
                      IN  th'[t].fam \in Families /\ (image[k].disk => image[k].key = k)
  BY <1>1, <1>2, <1>4, <1>5, <1>6
<1> QED BY <1>1, <1>3, <1>7, <1>8, QuietKeeps DEF At

\* A request that an idle thread takes up.
LEMMA StartKeeps ==
    ASSUME IInv, UNCHANGED <<image, heap, generation, forceGen>>,
           NEW t \in Threads, At(t, "idle"), NEW r \in Local, th' = [th EXCEPT ![t] = r],
           r.pc \notin {"stash", "register", "opening", "read", "check"},
           r.img \in Ids \cup {0}, r.fam = 0, r.live = {}, Request(t)'
    PROVE  IInv'
<1>1. Moves(t) /\ th'[t] = r
  BY GoesTo DEF IInv
<1>2. ~Holds(t)'
  BY <1>1 DEF Holds
<1>3. SameFamilies
  BY SameHeap DEF IInv
<1>4. /\ th'[t].img \in Ids \cup {0} /\ th'[t].fam \in Families \cup {0} /\ th'[t].live \subseteq Ids
      /\ th'[t].pc \notin {"stash", "register"}
  BY <1>1
<1> QED BY <1>1, <1>2, <1>3, <1>4, QuietKeeps DEF At

LEMMA AskChannelsKeeps == ASSUME IInv, NEW t \in Threads, AskChannels(t) PROVE IInv'
<1>1. PICK i \in Ids, want \in (SUBSET Labels) \ {{}} :
          /\ image[i].label \in Labels
          /\ th' = [th EXCEPT ![t] = [Idle EXCEPT !.pc = "family", !.img = i, !.todo = want,
                                                 !.gen = generation]]
  BY DEF AskChannels
<1> DEFINE r == [Idle EXCEPT !.pc = "family", !.img = i, !.todo = want, !.gen = generation]
<1>2. /\ r \in Local /\ r.pc = "family" /\ r.img = i /\ r.fam = 0 /\ r.live = {}
      /\ r.todo = want /\ r.gen = generation
  BY NumbersFacts DEF Idle, Local, Places, IInv, TypeOK
<1>3. th' = [th EXCEPT ![t] = r]
  BY <1>1
<1> HIDE DEF r
<1>4. th'[t] = r /\ UNCHANGED <<image, heap, generation, forceGen>> /\ At(t, "idle")
  BY <1>2, <1>3, GoesTo DEF IInv, AskChannels
<1>5. Request(t)'
  BY <1>1, <1>2, <1>4, ZeroFree DEF Request, At, IInv, TypeOK
<1> QED BY <1>2, <1>3, <1>4, <1>5, StartKeeps

LEMMA AskListKeeps == ASSUME IInv, NEW t \in Threads, AskList(t) PROVE IInv'
<1>1. PICK i \in Ids : image[i].label \in Labels /\ th' = [th EXCEPT ![t].pc = "family", ![t].img = i]
  BY DEF AskList
<1>2. th[t] = Idle /\ UNCHANGED <<image, heap, generation, forceGen>> /\ At(t, "idle")
  BY DEF AskList, IInv, RequestsInv, Request
<1> DEFINE r == [Idle EXCEPT !.pc = "family", !.img = i]
<1>3. /\ r \in Local /\ r.pc = "family" /\ r.img = i /\ r.fam = 0 /\ r.live = {} /\ r.todo = {} /\ r.gen = 0
  BY NumbersFacts DEF Idle, Local, Places, IInv
<1>4. th' = [th EXCEPT ![t] = r]
  BY <1>1, <1>2 DEF IInv, TypeOK
<1> HIDE DEF r
<1>5. th'[t] = r
  BY <1>3, <1>4, GoesTo DEF IInv
<1>6. Request(t)'
  <2>1. 0 <= generation' /\ image'[i].label \in Labels /\ i # 0
    BY <1>1, <1>2, ZeroFree DEF IInv, TypeOK
  <2> QED BY <1>3, <1>5, <2>1 DEF Request, At
<1> QED BY <1>2, <1>3, <1>4, <1>6, StartKeeps

LEMMA AskMapsKeeps == ASSUME IInv, NEW t \in Threads, AskMaps(t) PROVE IInv'
<1>1. /\ th' = [th EXCEPT ![t].pc = "commit", ![t].gen = forceGen, ![t].todo = Maps]
      /\ th[t] = Idle /\ UNCHANGED <<image, heap, generation, forceGen>> /\ At(t, "idle")
  BY DEF AskMaps, IInv, RequestsInv, Request
<1> DEFINE r == [Idle EXCEPT !.pc = "commit", !.gen = forceGen, !.todo = Maps]
<1>2. /\ r \in Local /\ r.pc = "commit" /\ r.img = 0 /\ r.fam = 0 /\ r.live = {} /\ r.todo = Maps
  BY DEF Idle, Local, Places, IInv, TypeOK
<1>3. th' = [th EXCEPT ![t] = r]
  BY <1>1 DEF IInv, TypeOK
<1> HIDE DEF r
<1>4. th'[t] = r
  BY <1>2, <1>3, GoesTo DEF IInv
<1>5. Request(t)'
  BY <1>2, <1>4 DEF Request, At
<1> QED BY <1>1, <1>2, <1>3, <1>5, StartKeeps

\* The family that a request at work has was made.
LEMMA HeldFamily ==
    ASSUME IInv, NEW t \in Threads, th[t].pc \in {"opening", "read", "check", "register"}
    PROVE  th[t].fam \in Families /\ Root(th[t].fam) \in Ids
BY RangeFacts DEF IInv, RequestsInv, Request

LEMMA TakeOpeningKeeps == ASSUME IInv, NEW t \in Threads, TakeOpening(t) PROVE IInv'
<1>1. /\ th[t].pc = "opening" /\ UNCHANGED <<image, generation, forceGen>> /\ Goto(t, "read")
      /\ heap' = [heap EXCEPT ![th[t].fam].opening = t]
  BY DEF TakeOpening, At
<1>2. SameFamilies
  BY <1>1, HeldFamily, OpeningPut DEF IInv
<1> QED BY <1>1, <1>2, GoesOn

\* Leaving the opening lock, whatever the request has done.
LEMMA LeaveKeeps ==
    ASSUME IInv, NEW t \in Threads, LeaveOpening(t), UNCHANGED <<image, generation, forceGen>>,
           th[t].pc \in {"read", "check", "register"},
           \A f \in Families : At(t, "register") /\ th[t].fam = f => Kept(f)
    PROVE  IInv'
<1>1. SameFamilies /\ Answer(t)
  BY HeldFamily, OpeningPut DEF LeaveOpening, IInv
<1>2. Calm
  BY <1>1, AnswerFacts, QuietCalm DEF IInv
<1>3. \A f \in Families : Kept(f) => Kept(f)'
  BY <1>2, CalmKept DEF IInv
<1>4. \A f \in Families : At(t, "register") /\ th[t].fam = f => Kept(f)'
  BY <1>3
<1> QED BY <1>1, <1>4, EndKeeps

LEMMA ReadChannelsKeeps == ASSUME IInv, NEW t \in Threads, ReadChannels(t) PROVE IInv'
<1>1. th[t].pc = "read" /\ UNCHANGED <<image, generation, forceGen>>
  BY DEF ReadChannels, At
<1>2. CASE th[t].todo # {} /\ Goto(t, "check") /\ UNCHANGED heap
  BY <1>1, <1>2, SameHeap, GoesOn DEF IInv
<1>3. CASE LeaveOpening(t)
  BY <1>1, <1>3, LeaveKeeps DEF At
<1> QED BY <1>2, <1>3 DEF ReadChannels

LEMMA RegisteredKeeps == ASSUME IInv, NEW t \in Threads, Registered(t) PROVE IInv'
<1>1. /\ th[t].pc = "register" /\ th[t].todo = {} /\ UNCHANGED <<image, generation, forceGen>>
      /\ LeaveOpening(t)
  BY DEF Registered, At
<1>2. Kept(th[t].fam)
  BY <1>1 DEF IInv, RequestsInv, Request, Registers, At
<1>3. \A f \in Families : At(t, "register") /\ th[t].fam = f => Kept(f)
  BY <1>2
<1> QED BY <1>1, <1>3, LeaveKeeps

LEMMA MapsEndKeeps ==
    ASSUME IInv, NEW t \in Threads, Commit(t) \/ MapsAdded(t) PROVE IInv'
<1>1. th[t].pc \in {"commit", "maps"} /\ UNCHANGED <<image, heap, generation, forceGen>> /\ SameFamilies
  BY SameHeap DEF Commit, MapsAdded, At, IInv
<1>2. CASE Answer(t)
  BY <1>1, <1>2, EndKeeps DEF At
<1>3. CASE th[t].pc = "commit" /\ th[t].gen = forceGen /\ Goto(t, "maps")
  <2>1. /\ Moves(t) /\ th'[t].pc = "maps" /\ th'[t].img = th[t].img /\ th'[t].gen = th[t].gen
        /\ th'[t].fam = th[t].fam /\ th'[t].live = th[t].live /\ th'[t].todo = th[t].todo
    BY <1>3, GotoFacts DEF IInv, Places
  <2>2. /\ th'[t].img \in Ids \cup {0} /\ th'[t].fam \in Families \cup {0} /\ th'[t].live \subseteq Ids
        /\ th'[t].pc \notin {"stash", "register"} /\ th[t].pc # "register"
    BY <1>3, <2>1, RangeFacts DEF IInv
  <2>3. Request(t)' /\ ~Holds(t)'
    BY <1>1, <1>3, <2>1 DEF IInv, RequestsInv, Request, Holds, At
  <2> QED BY <1>1, <2>1, <2>2, <2>3, QuietKeeps DEF At
<1> QED BY <1>1, <1>2, <1>3 DEF Commit, MapsAdded, At

---------------------------------------------------------------------------
\* Calm steps that make, open or close images

LEMMA FreshKeeps ==
    ASSUME IInv, NEW r \in ImageRecord, image' = Append(image, r),
           r.key = 0, r.family = 0, r.of = 0, r.open, r.label \in Maps => r.gen = forceGen,
           UNCHANGED <<heap, generation, forceGen>>,
           NEW t \in Threads, Moves(t), th[t].pc \notin {"forget", "reset", "clear", "register"},
           th'[t].img \in Ids \cup {0, NewId}, th'[t].fam \in Families \cup {0}, th'[t].live \subseteq Ids,
           th'[t].pc = "stash" => th'[t].img = NewId, th'[t].pc # "register",
           ~Holds(t)', Request(t)'
    PROVE  IInv'
<1>1. /\ image' \in Seq(ImageRecord) /\ Ids' = Ids \cup {NewId} /\ NewId \notin Ids
      /\ image'[NewId] = r /\ \A i \in Ids : image'[i] = image[i]
  BY AppendedImage, NumbersFacts DEF IInv
<1>2. SameFamilies
  BY SameHeap DEF IInv
<1>3. \A i \in Ids : /\ Forgetting(i) => ~image[i].open
                     /\ image[i].of # 0 => image[i].open
                     /\ image[i].disk => image[i].open
  BY DEF IInv, RequestsInv, Request, Forgetting, ImagesInv
<1>4. Calm
  <2>1. /\ \A i : Forgetting(i) => Forgetting(i)'
        /\ Resetting => Resetting'
    BY OthersStay
  <2>2. /\ \A i \in Ids' \ Ids : image'[i].key = 0 /\ image'[i].family = 0 /\ image'[i].of = 0 /\ image'[i].open
        /\ \A i \in Ids : image'[i].disk => image'[i].open /\ image[i].disk
        /\ \A i \in Ids : (image[i].open => image'[i].open) /\ (Forgetting(i) => ~image'[i].open)
    BY <1>1, <1>3
  <2>3. \A i \in Ids : /\ image'[i].label = image[i].label /\ image'[i].key = image[i].key
                       /\ image'[i].family = image[i].family
                       /\ image'[i].of # 0 => image'[i].open /\ image'[i].of = image[i].of /\ image'[i].gen = image[i].gen
    BY <1>1, <1>3
  <2> QED BY <1>1, <1>2, <2>1, <2>2, <2>3 DEF Calm, SameFamilies
<1>5. MapsOfThisSession'
  BY <1>1, MapsStay DEF IInv, Open
<1>6. forceGen' \in Nat
  BY DEF IInv, TypeOK
<1>7. /\ th'[t].img \in Ids' \cup {0} /\ th'[t].live \subseteq Ids'
      /\ th'[t].pc = "stash" => th'[t].img \notin Ids
  BY <1>1
<1> QED BY <1>1, <1>2, <1>4, <1>5, <1>6, <1>7, CalmKeeps DEF SameFamilies, At

LEMMA ReopenKeeps ==
    ASSUME IInv, NEW i \in Ids, i \notin Open, ~Forgetting(i),
           image' = [image EXCEPT ![i].open = TRUE, ![i].gen = forceGen],
           UNCHANGED <<heap, generation, forceGen>>,
           NEW t \in Threads, Moves(t), th[t].pc \notin {"forget", "reset", "clear", "register"},
           th'[t] = Idle, Request(t)'
    PROVE  IInv'
<1> DEFINE r == [image[i] EXCEPT !.open = TRUE, !.gen = forceGen]
<1>1. image[i] \in ImageRecord /\ forceGen \in Nat
  BY RecordFacts DEF IInv, TypeOK
<1>2. /\ r \in ImageRecord /\ r.open /\ r.gen = forceGen /\ r.label = image[i].label
      /\ r.disk = image[i].disk /\ r.key = image[i].key /\ r.family = image[i].family /\ r.of = image[i].of
  BY <1>1 DEF ImageRecord
<1>3. image' = [image EXCEPT ![i] = r]
  BY <1>1 DEF IInv, TypeOK
<1> HIDE DEF r
<1>4. /\ image' \in Seq(ImageRecord) /\ Ids' = Ids
      /\ image'[i] = r /\ \A j \in Ids : j # i => image'[j] = image[j]
  BY <1>2, <1>3, PutImage DEF IInv
<1>5. image[i].of = 0 /\ ~image[i].disk
  BY DEF IInv, ImagesInv, Open
<1>6. SameFamilies
  BY SameHeap DEF IInv
<1>7. \A j \in Ids : /\ Forgetting(j) => ~image[j].open
                     /\ image[j].of # 0 => image[j].open
                     /\ image[j].disk => image[j].open
  BY DEF IInv, RequestsInv, Request, Forgetting, ImagesInv
<1>8. Calm
  <2>1. /\ \A j : Forgetting(j) => Forgetting(j)'
        /\ Resetting => Resetting'
    BY OthersStay
  <2>2. /\ \A j \in Ids : image'[j].disk => image'[j].open /\ image[j].disk
        /\ \A j \in Ids : (image[j].open => image'[j].open) /\ (Forgetting(j) => ~image'[j].open)
    BY <1>2, <1>4, <1>5, <1>7
  <2>3. \A j \in Ids : /\ image'[j].label = image[j].label /\ image'[j].key = image[j].key
                       /\ image'[j].family = image[j].family
                       /\ image'[j].of # 0 => image'[j].open /\ image'[j].of = image[j].of /\ image'[j].gen = image[j].gen
    BY <1>2, <1>4, <1>5, <1>7
  <2> QED BY <1>4, <1>6, <2>1, <2>2, <2>3 DEF Calm, SameFamilies
<1>9. MapsOfThisSession'
  BY <1>2, <1>4, MapsStay DEF IInv, Open
<1>10. /\ th'[t].img \in Ids' \cup {0} /\ th'[t].fam \in Families \cup {0} /\ th'[t].live \subseteq Ids'
       /\ th'[t].pc \notin {"stash", "register"} /\ ~Holds(t)'
  BY IdleFacts DEF Holds
<1> QED BY <1>1, <1>4, <1>6, <1>8, <1>9, <1>10, CalmKeeps DEF SameFamilies, At

LEMMA NewImageFacts ==
    ASSUME NEW label \in Labels \cup Maps, NEW disk \in BOOLEAN
    PROVE  LET r == NewImage(label, disk)
           IN  /\ r \in ImageRecord /\ r.label = label /\ r.open /\ r.disk = disk
               /\ r.key = 0 /\ r.family = 0 /\ r.of = 0 /\ r.gen = 0
BY DEF NewImage, ImageRecord

\* An idle thread answers at once.
LEMMA StaysIdle ==
    ASSUME IInv, NEW t \in Threads, At(t, "idle"), th' = th
    PROVE  /\ Moves(t) /\ th'[t] = Idle /\ ~Holds(t)' /\ Request(t)'
           /\ th[t].pc \notin {"forget", "reset", "clear", "register"}
<1>1. th'[t] = Idle /\ th \in [Threads -> Local]
  BY DEF IInv, RequestsInv, Request, TypeOK
<1> QED BY <1>1, IdleFacts DEF Moves, Holds, Request, At

LEMMA OpenScanKeeps == ASSUME IInv, NEW t \in Threads, OpenScan(t) PROVE IInv'
<1> DEFINE r == NewImage(Shown, TRUE)
<1>1. image' = Append(image, r) /\ UNCHANGED <<heap, generation, forceGen, th>> /\ At(t, "idle")
  BY DEF OpenScan
<1>2. r \in ImageRecord /\ r.label \notin Maps /\ r.key = 0 /\ r.family = 0 /\ r.of = 0 /\ r.open
  BY NewImageFacts, ShownAssumption
<1> HIDE DEF r
<1>3. /\ Moves(t) /\ th'[t] = Idle /\ ~Holds(t)' /\ Request(t)'
      /\ th[t].pc \notin {"forget", "reset", "clear", "register"}
  BY <1>1, StaysIdle
<1> QED BY <1>1, <1>2, <1>3, IdleFacts, FreshKeeps

LEMMA UploadKeeps == ASSUME IInv, NEW t \in Threads, Upload(t) PROVE IInv'
<1> DEFINE r == NewImage(Shown, FALSE)
           l == [Idle EXCEPT !.pc = "stash", !.img = NewId]
<1>1. /\ image' = Append(image, r) /\ UNCHANGED <<heap, generation, forceGen>>
      /\ At(t, "idle") /\ th[t] = Idle /\ th' = [th EXCEPT ![t].pc = "stash", ![t].img = NewId]
  BY DEF Upload, IInv, RequestsInv, Request
<1>2. /\ r \in ImageRecord /\ r.label = Shown /\ ~r.disk /\ r.key = 0 /\ r.family = 0 /\ r.of = 0 /\ r.open
      /\ Shown \in Labels /\ Shown \notin Maps
  BY NewImageFacts, ShownAssumption
<1> HIDE DEF r
<1>3. /\ l \in Local /\ l.pc = "stash" /\ l.img = NewId /\ l.fam = 0 /\ l.live = {}
  BY NumbersFacts DEF Idle, Local, Places, IInv
<1>4. th' = [th EXCEPT ![t] = l]
  BY <1>1 DEF IInv, TypeOK
<1> HIDE DEF l
<1>5. Moves(t) /\ th'[t] = l
  BY <1>3, <1>4, GoesTo DEF IInv
<1>6. /\ Ids' = Ids \cup {NewId} /\ image'[NewId] = r /\ \A i \in Ids : image'[i] = image[i]
      /\ NewId # 0 /\ NewId \notin Ids
  BY <1>1, <1>2, AppendedImage, NumbersFacts DEF IInv
<1>7. Apart(t)'
  <2>1. PICK n : n = NewId
    OBVIOUS
  <2>2. th'[t].img = n /\ n # 0 /\ n \notin Ids /\ image'[n] = r /\ Ids' = Ids \cup {n}
    BY <1>3, <1>5, <1>6, <2>1
  <2>3. \A f \in Families' : heap'[f].root # n
    BY <1>1, <2>2, RangeFacts DEF IInv, Families, Root
  <2>4. \A j \in Ids' : image'[j].key # n
    BY <1>2, <1>6, <2>2, RangeFacts DEF IInv
  <2>5. \A u \in Threads : u # t => th'[u].img # n
    BY <1>5, <2>2, RangeFacts, ZeroFree DEF IInv, Moves
  <2> QED BY <1>2, <2>2, <2>3, <2>4, <2>5 DEF Apart, Root, At
<1>8. Request(t)' /\ ~Holds(t)'
  BY <1>2, <1>3, <1>5, <1>6, <1>7 DEF Request, Holds, At
<1> QED BY <1>1, <1>2, <1>3, <1>5, <1>8, FreshKeeps DEF At

\* An image of a project, in the hands of a thread that then is idle.
LEMMA RestoredKeeps ==
    ASSUME IInv, Restored, UNCHANGED <<heap, generation, forceGen>>,
           NEW t \in Threads, Moves(t), th[t].pc \notin {"forget", "reset", "clear", "register"},
           th'[t] = Idle, Request(t)', ~Holds(t)'
    PROVE  IInv'
<1>1. ASSUME NEW i \in Saved \cap Open,
             image' = Append(image, [NewImage(image[i].label, FALSE) EXCEPT !.gen = forceGen])
      PROVE  IInv'
  <2> DEFINE r == [NewImage(image[i].label, FALSE) EXCEPT !.gen = forceGen]
  <2>1. image[i] \in ImageRecord /\ forceGen \in Nat
    BY RecordFacts DEF IInv, TypeOK, Saved
  <2>2. r \in ImageRecord /\ r.key = 0 /\ r.family = 0 /\ r.of = 0 /\ r.open /\ r.gen = forceGen
    BY <2>1 DEF NewImage, ImageRecord
  <2>3. image' = Append(image, r)
    BY <1>1
  <2> HIDE DEF r
  <2>4. /\ th'[t].img \in Ids \cup {0, NewId} /\ th'[t].fam \in Families \cup {0} /\ th'[t].live \subseteq Ids
        /\ th'[t].pc \notin {"stash", "register"}
    BY IdleFacts
  <2> QED BY <2>2, <2>3, <2>4, FreshKeeps
<1>2. ASSUME NEW i \in Saved \ Open, image' = [image EXCEPT ![i].open = TRUE, ![i].gen = forceGen]
      PROVE  IInv'
  <2>1. ~Forgetting(i) /\ i \in Ids
    BY DEF Saved, Forgetting, At
  <2> QED BY <1>2, <2>1, ReopenKeeps
<1> QED BY <1>1, <1>2 DEF Restored

LEMMA RestoreKeeps == ASSUME IInv, NEW t \in Threads, Restore(t) PROVE IInv'
<1>1. th[t].pc = "restore" /\ Answer(t) /\ UNCHANGED <<heap, generation, forceGen>>
  BY DEF Restore, At
<1>2. Moves(t) /\ th'[t] = Idle /\ Request(t)' /\ ~Holds(t)'
  BY <1>1, AnswerFacts, IdleFacts DEF IInv, Request, Holds, At
<1>3. CASE Restored
  BY <1>1, <1>2, <1>3, RestoredKeeps
<1>4. CASE UNCHANGED image
  BY <1>1, <1>4, SameHeap, EndKeeps DEF At, IInv
<1> QED BY <1>3, <1>4 DEF Restore

LEMMA AppendProjectKeeps == ASSUME IInv, NEW t \in Threads, AppendProject(t) PROVE IInv'
<1>1. At(t, "idle") /\ Restored /\ UNCHANGED <<heap, generation, forceGen, th>>
  BY DEF AppendProject
<1> QED BY <1>1, StaysIdle, RestoredKeeps

LEMMA AddMapKeeps == ASSUME IInv, NEW t \in Threads, AddMap(t) PROVE IInv'
<1>1. th[t].pc = "maps" /\ UNCHANGED <<heap, generation, forceGen>> /\ th[t] \in Local
  BY RecordFacts DEF AddMap, At, IInv
<1>2. PICK m \in th[t].todo : /\ image' = Append(image, [NewImage(m, FALSE) EXCEPT !.gen = th[t].gen])
                             /\ th' = [th EXCEPT ![t].todo = @ \ {m}]
  BY DEF AddMap
<1> DEFINE r == [NewImage(m, FALSE) EXCEPT !.gen = th[t].gen]
           l == [th[t] EXCEPT !.todo = @ \ {m}]
<1>3. th[t].todo \subseteq Maps /\ th[t].gen = forceGen
  BY <1>1 DEF IInv, RequestsInv, Request, At
<1>4. r \in ImageRecord /\ r.key = 0 /\ r.family = 0 /\ r.of = 0 /\ r.open /\ r.gen = forceGen
  BY <1>1, <1>2, <1>3 DEF NewImage, ImageRecord, Local
<1>5. /\ l \in Local /\ l.pc = "maps" /\ l.img = th[t].img /\ l.fam = th[t].fam
      /\ l.live = th[t].live /\ l.gen = th[t].gen /\ l.todo \subseteq Maps
  BY <1>1, <1>3 DEF Local
<1>6. th' = [th EXCEPT ![t] = l]
  BY <1>2 DEF IInv, TypeOK
<1> HIDE DEF r, l
<1>7. Moves(t) /\ th'[t] = l
  BY <1>5, <1>6, GoesTo DEF IInv
<1>8. Request(t)' /\ ~Holds(t)'
  BY <1>1, <1>3, <1>5, <1>7 DEF Request, Holds, At
<1>9. th[t].img \in Ids \cup {0} /\ th[t].fam \in Families \cup {0} /\ th[t].live \subseteq Ids
  BY RangeFacts DEF IInv
<1> QED BY <1>1, <1>2, <1>4, <1>5, <1>7, <1>8, <1>9, FreshKeeps DEF r

LEMMA ClosedFacts ==
    ASSUME TypeOK, NEW i \in Ids
    PROVE  /\ Closed(i) \in ImageRecord /\ ~Closed(i).open /\ ~Closed(i).disk /\ Closed(i).of = 0
           /\ Closed(i).label = image[i].label /\ Closed(i).key = image[i].key
           /\ Closed(i).family = image[i].family
<1>1. image[i] \in ImageRecord
  BY RecordFacts
<1> QED BY <1>1 DEF Closed, ImageRecord

\* The image that closes is in the hands of the thread that will forget it.
LEMMA CloseImageKeeps == ASSUME IInv, NEW t \in Threads, CloseImage(t) PROVE IInv'
<1>1. th[t] = Idle /\ th[t].pc = "idle" /\ UNCHANGED <<heap, generation, forceGen>>
  BY DEF CloseImage, At, IInv, RequestsInv, Request
<1>2. PICK i \in Open : image' = [image EXCEPT ![i] = Closed(i)] /\ th' = [th EXCEPT ![t].pc = "forget", ![t].img = i]
  BY DEF CloseImage
<1>3. i \in Ids /\ i \in Nat /\ i # 0 /\ image[i].open
  BY NumbersFacts DEF IInv, Open
<1> DEFINE l == [Idle EXCEPT !.pc = "forget", !.img = i]
<1>4. l \in Local /\ l.pc = "forget" /\ l.img = i /\ l.fam = 0 /\ l.live = {}
  BY <1>3 DEF Idle, Local, Places
<1>5. th' = [th EXCEPT ![t] = l]
  BY <1>1, <1>2 DEF IInv, TypeOK
<1> HIDE DEF l
<1>6. Moves(t) /\ th'[t] = l
  BY <1>4, <1>5, GoesTo DEF IInv
<1>7. /\ image' \in Seq(ImageRecord) /\ Ids' = Ids
      /\ image'[i] = Closed(i) /\ \A j \in Ids : j # i => image'[j] = image[j]
  BY <1>2, <1>3, ClosedFacts, PutImage DEF IInv
<1>8. SameFamilies
  BY <1>1, SameHeap DEF IInv
<1>9. Forgetting(i)'
  BY <1>4, <1>6 DEF Forgetting, At
<1>10. \A j \in Ids : /\ Forgetting(j) => ~image[j].open
                      /\ image[j].of # 0 => image[j].open
                      /\ image[j].disk => image[j].open
  BY DEF IInv, RequestsInv, Request, Forgetting, ImagesInv
<1>11. Calm
  <2>1. \A j \in Ids : image[j].open => image'[j].open \/ Forgetting(j)'
    BY <1>7, <1>9
  <2>2. (\A j \in Ids : Forgetting(j) => Forgetting(j)') /\ (Resetting => Resetting')
    BY <1>1, <1>6, OthersStay
  <2>3. \A j \in Ids : Forgetting(j) => ~image'[j].open
    BY <1>3, <1>7, <1>10
  <2>4. \A j \in Ids : /\ image'[j].label = image[j].label /\ image'[j].key = image[j].key
                       /\ image'[j].family = image[j].family
                       /\ image'[j].of # 0 => image'[j].open /\ image'[j].of = image[j].of /\ image'[j].gen = image[j].gen
                       /\ image'[j].disk => image'[j].open /\ image[j].disk
    BY <1>3, <1>7, <1>10, ClosedFacts DEF IInv
  <2> QED BY <1>1, <1>7, <1>8, <2>1, <2>2, <2>3, <2>4 DEF Calm, SameFamilies
<1>12. MapsOfThisSession'
  <2>1. \A j \in Ids' : image'[j].open => j # i
    BY <1>3, <1>7, ClosedFacts DEF IInv
  <2> QED BY <1>1, <1>6, <1>7, <2>1, MapsStay DEF IInv, Open
<1>13. Request(t)' /\ ~Holds(t)'
  <2>1. ~image'[i].open
    BY <1>3, <1>7, ClosedFacts DEF IInv
  <2> QED BY <1>3, <1>4, <1>6, <2>1 DEF Request, Holds, At
<1>14. /\ th'[t].img \in Ids' \cup {0} /\ th'[t].fam \in Families \cup {0} /\ th'[t].live \subseteq Ids'
       /\ th'[t].pc \notin {"stash", "register"} /\ forceGen' \in Nat
  BY <1>1, <1>3, <1>4, <1>6, <1>7 DEF IInv, TypeOK
<1> QED BY <1>1, <1>6, <1>7, <1>8, <1>11, <1>12, <1>13, <1>14, CalmKeeps DEF SameFamilies, At

\* Every image closes, and the thread goes on to the tables of afm.py.
LEMMA ClearStoreKeeps == ASSUME IInv, NEW t \in Threads, ClearStore(t) PROVE IInv'
<1>1. /\ th[t].pc = "clear" /\ Goto(t, "reset") /\ UNCHANGED <<heap, generation, forceGen>>
      /\ image' = [i \in Ids |-> Closed(i)]
  BY DEF ClearStore, At
<1>2. /\ Moves(t) /\ th'[t].pc = "reset" /\ th'[t].img = th[t].img /\ th'[t].gen = th[t].gen
      /\ th'[t].fam = th[t].fam /\ th'[t].live = th[t].live /\ th'[t].todo = th[t].todo
  BY <1>1, GotoFacts DEF IInv, Places
<1>3. image' \in Seq(ImageRecord) /\ Ids' = Ids /\ \A i \in Ids : image'[i] = Closed(i)
  <2>1. image' \in [1 .. Len(image) -> ImageRecord] /\ Len(image) \in Nat
    BY <1>1, ClosedFacts, NumbersFacts DEF Ids, IInv
  <2>2. image' \in Seq(ImageRecord) /\ Len(image') = Len(image)
    BY <2>1
  <2> QED BY <1>1, <2>2 DEF Ids
<1>4. \A i \in Ids : /\ ~image'[i].open /\ ~image'[i].disk /\ image'[i].of = 0
                     /\ image'[i].label = image[i].label /\ image'[i].key = image[i].key
                     /\ image'[i].family = image[i].family
  BY <1>3, ClosedFacts DEF IInv
<1>5. Resetting' /\ SameFamilies
  BY <1>1, <1>2, SameHeap DEF Resetting, At, IInv
<1>6. \A i : Forgetting(i) => Forgetting(i)'
  BY <1>1, <1>2, OthersStay
<1>7. Calm
  BY <1>1, <1>3, <1>4, <1>5, <1>6 DEF Calm, SameFamilies
<1>8. MapsOfThisSession'
  BY <1>3, <1>4 DEF MapsOfThisSession, Open
<1>9. Request(t)' /\ ~Holds(t)'
  BY <1>2 DEF Request, Holds, At
<1>10. /\ th'[t].img \in Ids' \cup {0} /\ th'[t].fam \in Families \cup {0} /\ th'[t].live \subseteq Ids'
       /\ th'[t].pc \notin {"stash", "register"} /\ forceGen' \in Nat
  BY <1>1, <1>2, <1>3, RangeFacts DEF IInv, TypeOK
<1> QED BY <1>1, <1>2, <1>3, <1>5, <1>7, <1>8, <1>9, <1>10, CalmKeeps DEF SameFamilies, At

\* Another session begins for the force files: no maps are being added.
LEMMA ClearForceKeeps == ASSUME IInv, NEW t \in Threads, ClearForce(t) PROVE IInv'
<1>1. /\ th[t].pc = "idle" /\ Goto(t, "clear") /\ UNCHANGED <<image, heap, generation>>
      /\ forceGen' = forceGen + 1 /\ \A u \in Threads : th[u].pc # "maps"
  BY DEF ClearForce, At, ForceLockFree
<1>2. /\ Moves(t) /\ th'[t].pc = "clear" /\ th'[t].img = th[t].img /\ th'[t].gen = th[t].gen
      /\ th'[t].fam = th[t].fam /\ th'[t].live = th[t].live /\ th'[t].todo = th[t].todo
  BY <1>1, GotoFacts DEF IInv, Places
<1>3. SameFamilies
  BY <1>1, SameHeap DEF IInv
<1>4. Calm
  BY <1>1, <1>2, <1>3, QuietCalm
<1>5. MapsOfThisSession'
  BY <1>2 DEF MapsOfThisSession, At
<1>6. Request(t)' /\ ~Holds(t)'
  BY <1>2 DEF Request, Holds, At
<1>7. /\ th'[t].img \in Ids' \cup {0} /\ th'[t].fam \in Families \cup {0} /\ th'[t].live \subseteq Ids'
      /\ th'[t].pc \notin {"stash", "register"} /\ forceGen' \in Nat /\ image' \in Seq(ImageRecord)
  BY <1>1, <1>2, RangeFacts DEF IInv, TypeOK, Ids
<1> QED BY <1>1, <1>2, <1>3, <1>4, <1>5, <1>6, <1>7, CalmKeeps DEF SameFamilies, At

---------------------------------------------------------------------------
\* Finding the family of an image, and rooting a new one at it

LEMMA FoundFacts ==
    ASSUME TypeOK, NEW t \in Threads, NEW f \in Nat,
           th' = [th EXCEPT ![t].pc = "opening", ![t].fam = f, ![t].img = 0]
    PROVE  /\ Moves(t) /\ th'[t].pc = "opening" /\ th'[t].fam = f /\ th'[t].img = 0
           /\ th'[t].gen = th[t].gen /\ th'[t].live = th[t].live /\ th'[t].todo = th[t].todo
<1> DEFINE r == [th[t] EXCEPT !.pc = "opening", !.fam = f, !.img = 0]
<1>1. th[t] \in Local
  BY RecordFacts
<1>2. /\ r \in Local /\ r.pc = "opening" /\ r.fam = f /\ r.img = 0
      /\ r.gen = th[t].gen /\ r.live = th[t].live /\ r.todo = th[t].todo
  BY <1>1 DEF Local, Places
<1>3. th' = [th EXCEPT ![t] = r]
  BY DEF TypeOK
<1> HIDE DEF r
<1> QED BY <1>2, <1>3, GoesTo

LEMMA FoundKeeps ==
    ASSUME IInv, NEW t \in Threads, th[t].pc = "family", UNCHANGED <<image, heap, generation, forceGen>>,
           NEW k \in Ids, NEW f \in Families, image[k].family = f,
           th' = [th EXCEPT ![t].pc = "opening", ![t].fam = f, ![t].img = 0]
    PROVE  IInv'
<1>1. f \in Nat /\ f # 0
  BY NumbersFacts, ZeroFree DEF IInv
<1>2. /\ Moves(t) /\ th'[t].pc = "opening" /\ th'[t].fam = f /\ th'[t].img = 0
      /\ th'[t].gen = th[t].gen /\ th'[t].live = th[t].live /\ th'[t].todo = th[t].todo
  BY <1>1, FoundFacts DEF IInv
<1>3. Tracked(f) /\ Root(f) = k /\ (image[k].disk => image[k].key = k)
  BY <1>1 DEF Tracked, IInv, ImagesInv
<1>4. Request(t)'
  BY <1>1, <1>2 DEF IInv, RequestsInv, Request, At
<1>5. /\ th'[t].img \in Ids \cup {0} /\ th'[t].fam \in Families \cup {0} /\ th'[t].live \subseteq Ids
      /\ th'[t].pc \notin {"stash", "register"} /\ SameFamilies
  BY <1>2, RangeFacts, SameHeap DEF IInv
<1>6. Holds(t)' => /\ Tracked(th'[t].fam)
                   /\ LET n == Root(th'[t].fam)
                      IN  th'[t].fam \in Families /\ (image[n].disk => image[n].key = n)
  BY <1>2, <1>3
<1> QED BY <1>2, <1>4, <1>5, <1>6, QuietKeeps DEF At

\* Family n is rooted at image i.
Joins(i, source, n) == Join(i, source) /\ n = Len(heap) + 1

LEMMA JoinedHeap ==
    ASSUME TypeOK, NEW i \in Ids, NEW source \in {"disk", "upload"},
           NEW n, Joins(i, source, n)
    PROVE  /\ heap' \in Seq(Family) /\ Families' = Families \cup {n} /\ n \notin Families /\ n # 0
           /\ Root(n)' = i /\ \A f \in Families : Root(f)' = Root(f) /\ Members(f)' = Members(f)
           /\ \A l \in Labels : Members(n)'[l] = IF l = image[i].label THEN i ELSE 0
<1> DEFINE r == [source |-> source, root |-> i, opening |-> NoThread,
                 members |-> [l \in Labels |-> IF l = image[i].label THEN i ELSE 0]]
<1>1. n = Len(heap) + 1 /\ n \in Nat /\ n # 0 /\ n \notin Families /\ i \in Nat
  BY NumbersFacts DEF Joins
<1>2. /\ r \in Family /\ r.root = i
      /\ \A l \in Labels : r.members[l] = IF l = image[i].label THEN i ELSE 0
  BY <1>1 DEF Family
<1>3. heap' = Append(heap, r)
  BY DEF Joins, Join
<1> HIDE DEF r
<1>4. /\ heap' \in Seq(Family) /\ Families' = Families \cup {n}
      /\ heap'[n] = r /\ \A f \in Families : heap'[f] = heap[f]
  BY <1>1, <1>2, <1>3, AppendedFamily
<1>5. Root(n)' = i /\ \A f \in Families : Root(f)' = Root(f) /\ Members(f)' = Members(f)
  BY <1>2, <1>4 DEF Root, Members
<1>6. \A l \in Labels : Members(n)'[l] = IF l = image[i].label THEN i ELSE 0
  BY <1>2, <1>4 DEF Members
<1> QED BY <1>1, <1>4, <1>5, <1>6

LEMMA JoinedImage ==
    ASSUME TypeOK, NEW i \in Ids, NEW source, NEW n, Joins(i, source, n)
    PROVE  /\ image' \in Seq(ImageRecord) /\ Ids' = Ids
           /\ image'[i].key = i /\ image'[i].family = n /\ image'[i].of = n /\ image'[i].gen = generation
           /\ image'[i].label = image[i].label /\ image'[i].open = image[i].open /\ image'[i].disk = image[i].disk
           /\ \A j \in Ids : j # i => image'[j] = image[j]
<1> DEFINE s == [image[i] EXCEPT !.key = i, !.family = n, !.of = n, !.gen = generation]
<1>1. n = Len(heap) + 1 /\ n \in Nat /\ i \in Nat /\ generation \in Nat /\ image[i] \in ImageRecord
  BY NumbersFacts, RecordFacts DEF Joins, TypeOK
<1>2. /\ s \in ImageRecord /\ s.key = i /\ s.family = n /\ s.of = n /\ s.gen = generation
      /\ s.label = image[i].label /\ s.open = image[i].open /\ s.disk = image[i].disk
  BY <1>1 DEF ImageRecord
<1>3. image' = [image EXCEPT ![i] = s]
  BY <1>1 DEF Joins, Join, TypeOK
<1> HIDE DEF s
<1>4. /\ image' \in Seq(ImageRecord) /\ Ids' = Ids
      /\ image'[i] = s /\ \A j \in Ids : j # i => image'[j] = image[j]
  BY <1>2, <1>3, PutImage
<1> QED BY <1>2, <1>4

\* What an action outside register leaves to the other requests.
LEMMA OthersKeep ==
    ASSUME IInv, Ids \subseteq Ids', forceGen' = forceGen, generation' \in Nat, generation <= generation',
           \A i \in Ids : /\ image'[i].label = image[i].label
                          /\ ~image[i].open => ~image'[i].open,
           NEW u \in Threads, th'[u] = th[u], th[u].pc # "register", th[u].pc = "stash" => Apart(u)'
    PROVE  Request(u)'
<1>1. Request(u) /\ th[u].img \in Ids \cup {0} /\ th[u] \in Local /\ generation \in Nat
  BY RangeFacts, RecordFacts DEF IInv, RequestsInv, TypeOK
<1>2. th[u].gen <= generation => th[u].gen <= generation'
  BY <1>1 DEF Local
<1> QED BY <1>1, <1>2 DEF Request, At

LEMMA ApartKeeps ==
    ASSUME TypeOK, NEW u \in Threads, th'[u] = th[u], Apart(u), NEW i \in Ids, i = th[u].img,
           ~image'[i].disk, image'[i].key = 0, image'[i].family = 0,
           \A f \in Families' : Root(f)' # i, \A j \in Ids' : image'[j].key # i,
           \A v \in Threads : v # u /\ th'[v].pc = "stash" => th'[v].img # i
    PROVE  Apart(u)'
<1>1. th'[u].img = i /\ i # 0
  BY ZeroFree
<1>2. (\A f \in Families : Root(f) # i)'
  OBVIOUS
<1>3. (\A f \in Families : Root(f) # th[u].img)'
  BY <1>1, <1>2 DEF Root
<1>4. (\A v \in Threads : At(v, "stash") /\ th[v].img = th[u].img => v = u)'
  BY <1>1 DEF At
<1> QED BY <1>1, <1>3, <1>4 DEF Apart

LEMMA KeptStays ==
    ASSUME NEW f \in Families, Members(f)' = Members(f), Ids \subseteq Ids', Kept(f),
           \A j \in Ids : image[j].open => image'[j].open,
           \A j \in Ids : Forgetting(j) => Forgetting(j)', Resetting => Resetting'
    PROVE  Kept(f)'
<1>1. CASE Resetting
  BY <1>1 DEF Kept
<1>2. ASSUME NEW l \in Labels, NEW j \in Ids, Members(f)[l] = j, image[j].open \/ Forgetting(j)
      PROVE  Kept(f)'
  <2>1. j \in Ids' /\ Members(f)'[l] = j
    BY <1>2
  <2>2. image'[j].open \/ Forgetting(j)'
    BY <1>2
  <2> QED BY <2>1, <2>2 DEF Kept
<1> QED BY <1>1, <1>2 DEF Kept

LEMMA TidyStays ==
    ASSUME TypeOK, NEW f \in Families, Tidy(f), Members(f)' = Members(f), Root(f)' = Root(f), Ids' = Ids,
           \A l \in Labels, j \in Ids :
               Members(f)[l] = j /\ image[Root(f)].family = f /\ image[j].key = Root(f) =>
                   /\ image'[Root(f)].family = f /\ image'[j].key = Root(f)
                   /\ image[j].open => image'[j].open
                   /\ Forgetting(j) => Forgetting(j)'
    PROVE  Tidy(f)'
<1> SUFFICES ASSUME NEW l \in Labels, NEW j \in Ids', Members(f)'[l] = j
             PROVE  image'[Root(f)'].family = f /\ image'[j].key = Root(f)' /\ (image'[j].open \/ Forgetting(j)')
  BY DEF Tidy
<1>1. j \in Ids /\ Members(f)[l] = j
  OBVIOUS
<1>2. image[Root(f)].family = f /\ image[j].key = Root(f) /\ (image[j].open \/ Forgetting(j))
  BY <1>1 DEF Tidy
<1> QED BY <1>1, <1>2

LEMMA JoinKeeps ==
    ASSUME IInv, NEW t \in Threads, NEW i \in Ids, NEW source \in {"disk", "upload"},
           NEW n, Joins(i, source, n), UNCHANGED <<generation, forceGen>>, LockFree,
           image[i].open, image[i].label \in Labels, image[i].family = 0, image[i].key \in {0, i},
           \A u \in Threads : u # t /\ th[u].pc = "stash" => th[u].img # i,
           Moves(t), th[t].pc \in {"family", "stash"}, th'[t].pc \in {"idle", "opening"},
           th'[t].img = 0, th'[t].live \subseteq Ids,
           th'[t].fam \in {0, n}, Holds(t)' => th'[t].fam = n, Request(t)'
    PROVE  IInv'
<1>0. TypeOK
  BY DEF IInv
<1>1. /\ heap' \in Seq(Family) /\ Families' = Families \cup {n} /\ n \notin Families /\ n # 0
      /\ Root(n)' = i /\ \A f \in Families : Root(f)' = Root(f) /\ Members(f)' = Members(f)
  BY <1>0, JoinedHeap
<1>2. \A l \in Labels : Members(n)'[l] = IF l = image[i].label THEN i ELSE 0
  BY <1>0, JoinedHeap
<1>3. /\ image' \in Seq(ImageRecord) /\ Ids' = Ids
      /\ image'[i].key = i /\ image'[i].family = n /\ image'[i].of = n /\ image'[i].gen = generation
      /\ image'[i].label = image[i].label /\ image'[i].open = image[i].open /\ image'[i].disk = image[i].disk
      /\ \A j \in Ids : j # i => image'[j] = image[j]
  BY <1>0, JoinedImage
<1>4. /\ generation' = generation /\ generation \in Nat /\ forceGen' = forceGen /\ forceGen \in Nat
      /\ i # 0 /\ \A u \in Threads : th[u].pc # "register"
  BY ZeroFree DEF IInv, TypeOK, LockFree, At
<1>5. /\ \A j : Forgetting(j) => Forgetting(j)'
      /\ Resetting => Resetting'
  BY OthersStay
<1>6. TypeOK'
  <2>1. \A j \in Ids' : /\ image'[j].key \in Ids' \cup {0} /\ image'[j].family \in Families' \cup {0}
                        /\ image'[j].of \in Families' \cup {0}
    BY <1>1, <1>3, RangeFacts DEF IInv
  <2>2. \A f \in Families' : Root(f)' \in Ids' /\ \A l \in Labels : Members(f)'[l] \in Ids' \cup {0}
    BY <1>1, <1>2, <1>3, RangeFacts DEF IInv
  <2>3. \A u \in Threads : /\ th'[u].img \in Ids' \cup {0} /\ th'[u].fam \in Families' \cup {0}
                           /\ th'[u].live \subseteq Ids'
    BY <1>1, <1>3, RangeFacts DEF IInv, Moves
  <2> QED BY <1>1, <1>3, <1>4, <2>1, <2>2, <2>3 DEF TypeOK, Root, Members, Moves
<1>7. ImagesInv'
  <2> SUFFICES ASSUME NEW j \in Ids
               PROVE  /\ ~image'[j].open => ~image'[j].disk /\ image'[j].of = 0
                      /\ image'[j].of # 0 => image'[j].label \in Labels /\ image'[j].gen <= generation
                      /\ image'[j].disk => image'[j].key \in {0, j}
                      /\ image'[j].disk /\ image'[j].key = 0 => image'[j].family = 0
                      /\ image'[j].family # 0 => heap'[image'[j].family].root = j
    BY <1>3, <1>4 DEF ImagesInv, Root
  <2>1. CASE j = i
    <3>1. heap'[n].root = i
      BY <1>1 DEF Root
    <3>2. generation <= generation
      BY <1>4
    <3> QED BY <1>1, <1>3, <1>4, <2>1, <3>1, <3>2
  <2>2. CASE j # i
    <3>1. image'[j] = image[j]
      BY <1>3, <2>2
    <3>2. image[j].family # 0 => heap'[image[j].family].root = j
      BY <1>1, RangeFacts DEF IInv, ImagesInv, Root
    <3> QED BY <3>1, <3>2 DEF IInv, ImagesInv
  <2> QED BY <2>1, <2>2
<1>8. MembersInv'
  <2> SUFFICES ASSUME NEW j \in Ids, image'[j].open, image'[j].of # 0
               PROVE  heap'[image'[j].of].members[image'[j].label] = j
    BY <1>3 DEF MembersInv, Open, Members
  <2>1. CASE j = i
    BY <1>2, <1>3, <2>1 DEF Members
  <2>2. CASE j # i
    <3>1. image'[j] = image[j] /\ image[j].of \in Families /\ j \in Open
      BY <1>3, <2>2, RangeFacts DEF IInv, Open
    <3> QED BY <1>1, <3>1 DEF IInv, MembersInv, Members
  <2> QED BY <2>1, <2>2
<1>9. LinksInv'
  <2> SUFFICES ASSUME NEW j \in Ids, image'[j].open, image'[j].of # 0, image'[j].gen = generation
               PROVE  image'[j].key # 0 /\ image'[image'[j].key].family = image'[j].of
    BY <1>3, <1>4 DEF LinksInv, Open
  <2>1. CASE j = i
    BY <1>3, <1>4, <2>1
  <2>2. CASE j # i
    <3>1. image'[j] = image[j] /\ j \in Open
      BY <1>3, <2>2 DEF Open
    <3>2. image[j].key # 0 /\ image[image[j].key].family = image[j].of /\ image[j].key \in Ids
      BY <3>1, RangeFacts DEF IInv, LinksInv
    <3>3. image[j].key # i
      BY <3>1, <3>2
    <3> QED BY <1>3, <3>1, <3>2, <3>3
  <2> QED BY <2>1, <2>2
<1>10. TidyInv'
  <2> SUFFICES ASSUME ~Resetting', NEW f \in Families', Tracked(f)' PROVE Tidy(f)'
    BY DEF TidyInv
  <2>1. CASE f = n
    <3> SUFFICES ASSUME NEW l \in Labels, NEW j \in Ids', Members(f)'[l] = j
                 PROVE  image'[Root(f)'].family = f /\ image'[j].key = Root(f)' /\ (image'[j].open \/ Forgetting(j)')
      BY DEF Tidy
    <3>1. j = i
      BY <1>2, <2>1, ZeroFree
    <3> QED BY <1>1, <1>3, <2>1, <3>1
  <2>2. CASE f # n
    <3>1. f \in Families
      BY <1>1, <2>2
    <3>2. Tracked(f)
      <4>1. ASSUME NEW k \in Ids, image'[k].family = f PROVE Tracked(f)
        BY <1>3, <2>2, <4>1 DEF Tracked
      <4>2. ASSUME NEW u \in Threads, Holds(u)', th'[u].fam = f PROVE Tracked(f)
        <5>1. u # t
          BY <2>2, <4>2
        <5>2. Holds(u) /\ th[u].fam = f
          BY <1>4, <4>2, <5>1 DEF Moves, Holds
        <5> QED BY <5>2 DEF Tracked
      <4> QED BY <1>3, <4>1, <4>2 DEF Tracked
    <3>3. Tidy(f)
      BY <1>5, <3>1, <3>2 DEF IInv, TidyInv
    <3>4. \A l \in Labels, j \in Ids :
               Members(f)[l] = j /\ image[Root(f)].family = f /\ image[j].key = Root(f) =>
                   /\ image'[Root(f)].family = f /\ image'[j].key = Root(f)
                   /\ image[j].open => image'[j].open
                   /\ Forgetting(j) => Forgetting(j)'
      <4> SUFFICES ASSUME NEW l \in Labels, NEW j \in Ids, Members(f)[l] = j,
                          image[Root(f)].family = f, image[j].key = Root(f)
                   PROVE  image'[Root(f)].family = f /\ image'[j].key = Root(f) /\ image'[j].open = image[j].open
        BY <1>5
      <4>1. f # 0 /\ Root(f) \in Ids /\ Root(f) # 0
        BY <3>1, ZeroFree, RangeFacts DEF IInv
      <4>2. Root(f) # i /\ j # i
        BY <4>1
      <4> QED BY <1>3, <4>1, <4>2
    <3> QED BY <1>1, <1>3, <3>1, <3>3, <3>4, TidyStays DEF IInv
  <2> QED BY <2>1, <2>2
<1>11. RootsInv'
  <2> SUFFICES ASSUME NEW u \in Threads, Holds(u)', image'[heap'[th'[u].fam].root].disk
               PROVE  image'[heap'[th'[u].fam].root].key = heap'[th'[u].fam].root
    BY DEF RootsInv, Root
  <2>1. CASE u = t
    BY <1>1, <1>3, <2>1 DEF Root
  <2>2. CASE u # t
    <3>1. Holds(u) /\ th'[u].fam = th[u].fam
      BY <1>4, <2>2 DEF Moves, Holds
    <3>2. th[u].fam \in Families /\ Root(th[u].fam) \in Ids
      BY <3>1, HeldFamily DEF Holds
    <3>3. heap'[th[u].fam].root = Root(th[u].fam)
      BY <1>1, <3>2 DEF Root
    <3>4. image[Root(th[u].fam)].disk => image[Root(th[u].fam)].key = Root(th[u].fam)
      BY <3>1 DEF IInv, RootsInv
    <3>5. CASE Root(th[u].fam) = i
      BY <1>3, <3>1, <3>3, <3>5
    <3>6. CASE Root(th[u].fam) # i
      BY <1>3, <3>1, <3>2, <3>3, <3>4, <3>6
    <3> QED BY <3>5, <3>6
  <2> QED BY <2>1, <2>2
<1>12. NotLeakedInv'
  <2> SUFFICES ASSUME NEW k \in Ids, NEW f, f = image'[k].family, f # 0 PROVE Kept(f)'
    BY <1>3 DEF NotLeakedInv
  <2>1. CASE k = i
    <3>1. f = n /\ Members(n)'[image[i].label] = i /\ i \in Ids' /\ image'[i].open
      BY <1>2, <1>3, <2>1
    <3> QED BY <3>1 DEF Kept
  <2>2. CASE k # i
    <3>1. image[k].family = f /\ f \in Families
      BY <1>3, <2>2, RangeFacts DEF IInv
    <3>2. Kept(f)
      BY <1>4, <3>1 DEF IInv, NotLeakedInv, At
    <3>3. \A j \in Ids : image[j].open => image'[j].open
      BY <1>3
    <3> QED BY <1>1, <1>3, <1>5, <3>1, <3>2, <3>3, KeptStays
  <2> QED BY <2>1, <2>2
<1>13. RequestsInv'
  <2>1. ASSUME NEW u \in Threads, u # t PROVE Request(u)'
    <3>1. th'[u] = th[u] /\ th[u].img \in Ids \cup {0}
      BY <2>1, RangeFacts DEF Moves, IInv
    <3>2. \A j \in Ids : image'[j].label = image[j].label /\ (~image[j].open => ~image'[j].open)
      BY <1>3
    <3>3. th[u].pc = "stash" => Apart(u)'
      <4> SUFFICES ASSUME th[u].pc = "stash" PROVE Apart(u)'
        OBVIOUS
      <4>1. Apart(u) /\ th[u].img # i
        BY <2>1 DEF IInv, RequestsInv, Request, At
      <4>2. PICK k \in Ids : k = th[u].img
        BY <3>1, <4>1 DEF Apart
      <4>3. k # i /\ ~image[k].disk /\ image[k].key = 0 /\ image[k].family = 0
        BY <4>1, <4>2 DEF Apart
      <4>4. \A f \in Families' : Root(f)' # k
        BY <1>1, <4>1, <4>2, <4>3 DEF Apart
      <4>5. \A j \in Ids' : image'[j].key # k
        BY <1>3, <4>1, <4>2, <4>3 DEF Apart
      <4>6. \A v \in Threads : v # u /\ th'[v].pc = "stash" => th'[v].img # k
        BY <4>1, <4>2 DEF Apart, Moves, At
      <4> QED BY <1>3, <3>1, <4>1, <4>2, <4>3, <4>4, <4>5, <4>6, ApartKeeps DEF IInv
    <3> QED BY <1>3, <1>4, <3>1, <3>2, <3>3, OthersKeep
  <2> QED BY <2>1 DEF RequestsInv
<1>14. MapsOfThisSession'
  BY <1>3, <1>4, ShownAssumption, MapsStay DEF IInv, Open
<1> QED BY <1>6, <1>7, <1>8, <1>9, <1>10, <1>11, <1>12, <1>13, <1>14 DEF IInv

\* Forgetting the key of an image whose family is not attached.
LEMMA UnkeyKeeps ==
    ASSUME IInv, NEW t \in Threads, NEW i \in Ids, image' = [image EXCEPT ![i].key = 0],
           UNCHANGED <<heap, generation, forceGen>>, LockFree, Answer(t), ~image[i].disk,
           image[i].key = 0 \/ image[image[i].key].family = 0,
           th[t].pc \in {"family", "forget"}, th[t].pc = "forget" => th[t].img = i
    PROVE  IInv'
<1> DEFINE r == [image[i] EXCEPT !.key = 0]
<1>0. TypeOK /\ image[i] \in ImageRecord
  BY RecordFacts DEF IInv
<1>1. /\ r \in ImageRecord /\ r.key = 0 /\ r.label = image[i].label /\ r.open = image[i].open
      /\ r.disk = image[i].disk /\ r.family = image[i].family /\ r.of = image[i].of /\ r.gen = image[i].gen
  BY <1>0 DEF ImageRecord
<1>2. image' = [image EXCEPT ![i] = r]
  OBVIOUS
<1> HIDE DEF r
<1>3. /\ image' \in Seq(ImageRecord) /\ Ids' = Ids /\ image'[i] = r /\ \A j \in Ids : j # i => image'[j] = image[j]
  BY <1>0, <1>1, <1>2, PutImage
<1>4. /\ image'[i].key = 0
      /\ \A j \in Ids : /\ image'[j].label = image[j].label /\ image'[j].open = image[j].open
                        /\ image'[j].disk = image[j].disk /\ image'[j].family = image[j].family
                        /\ image'[j].of = image[j].of /\ image'[j].gen = image[j].gen
                        /\ j # i => image'[j].key = image[j].key
  BY <1>1, <1>3
<1>5. /\ SameFamilies /\ Moves(t) /\ th'[t] = Idle /\ generation' = generation /\ forceGen' = forceGen
      /\ generation \in Nat /\ forceGen \in Nat /\ \A u \in Threads : th[u].pc # "register"
  BY <1>0, SameHeap, AnswerFacts DEF TypeOK, LockFree, At
<1>6. /\ Families' = Families /\ \A f \in Families : Root(f)' = Root(f) /\ Members(f)' = Members(f)
      /\ \A j \in Ids : j # i => (Forgetting(j) => Forgetting(j)')
      /\ th[t].pc = "family" => \A j \in Ids : Forgetting(j) => Forgetting(j)'
      /\ Resetting => Resetting'
  BY <1>5 DEF SameFamilies, Forgetting, Resetting, Moves, At
<1>7. TypeOK'
  <2>1. \A j \in Ids' : /\ image'[j].key \in Ids' \cup {0} /\ image'[j].family \in Families' \cup {0}
                        /\ image'[j].of \in Families' \cup {0}
    BY <1>0, <1>3, <1>4, <1>6, RangeFacts
  <2>2. \A f \in Families' : Root(f)' \in Ids' /\ \A l \in Labels : Members(f)'[l] \in Ids' \cup {0}
    BY <1>0, <1>3, <1>6, RangeFacts
  <2>3. \A u \in Threads : /\ th'[u].img \in Ids' \cup {0} /\ th'[u].fam \in Families' \cup {0}
                           /\ th'[u].live \subseteq Ids'
    BY <1>0, <1>3, <1>5, <1>6, RangeFacts, IdleFacts DEF Moves
  <2> QED BY <1>3, <1>5, <2>1, <2>2, <2>3 DEF TypeOK, Root, Members, Moves, SameFamilies
<1>8. ImagesInv'
  <2> SUFFICES ASSUME NEW j \in Ids
               PROVE  /\ ~image'[j].open => ~image'[j].disk /\ image'[j].of = 0
                      /\ image'[j].of # 0 => image'[j].label \in Labels /\ image'[j].gen <= generation
                      /\ image'[j].disk => image'[j].key \in {0, j}
                      /\ image'[j].disk /\ image'[j].key = 0 => image'[j].family = 0
                      /\ image'[j].family # 0 => heap'[image'[j].family].root = j
    BY <1>3, <1>5 DEF ImagesInv, Root
  <2>1. image[j].family # 0 => heap'[image[j].family].root = j
    BY <1>0, <1>6, RangeFacts DEF IInv, ImagesInv, Root
  <2> QED BY <1>4, <2>1 DEF IInv, ImagesInv
<1>9. MembersInv'
  <2> SUFFICES ASSUME NEW j \in Ids, image'[j].open, image'[j].of # 0
               PROVE  heap'[image'[j].of].members[image'[j].label] = j
    BY <1>3 DEF MembersInv, Open, Members
  <2>1. image[j].of \in Families /\ j \in Open /\ image[j].of # 0
    BY <1>0, <1>4, RangeFacts DEF Open
  <2> QED BY <1>4, <1>6, <2>1 DEF IInv, MembersInv, Members
<1>10. LinksInv'
  <2> SUFFICES ASSUME NEW j \in Ids, image'[j].open, image'[j].of # 0, image'[j].gen = generation
               PROVE  image'[j].key # 0 /\ image'[image'[j].key].family = image'[j].of
    BY <1>3, <1>5 DEF LinksInv, Open
  <2>1. j \in Open /\ image[j].of # 0 /\ image[j].gen = generation
    BY <1>4 DEF Open
  <2>2. image[j].key # 0 /\ image[image[j].key].family = image[j].of /\ image[j].key \in Ids
    BY <1>0, <2>1, RangeFacts DEF IInv, LinksInv
  <2>3. j # i
    BY <2>1, <2>2
  <2> QED BY <1>4, <2>2, <2>3
\* No member of a family in use is unkeyed.
<1>11. ASSUME NEW f \in Families, Tracked(f), ~Resetting
       PROVE  Tidy(f) /\ \A l \in Labels : Members(f)[l] # i
  <2>1. Tidy(f)
    BY <1>11 DEF IInv, TidyInv
  <2>2. Root(f) \in Ids /\ Root(f) # 0 /\ f # 0
    BY <1>0, RangeFacts, ZeroFree
  <2> QED BY <2>1, <2>2 DEF Tidy
<1>12. TidyInv'
  <2> SUFFICES ASSUME ~Resetting', NEW f \in Families', Tracked(f)' PROVE Tidy(f)'
    BY DEF TidyInv
  <2>1. f \in Families /\ ~Resetting
    BY <1>6
  <2>2. Tracked(f)
    <3>1. ASSUME NEW k \in Ids, image'[k].family = f PROVE Tracked(f)
      BY <1>4, <3>1 DEF Tracked
    <3>2. ASSUME NEW u \in Threads, Holds(u)', th'[u].fam = f PROVE Tracked(f)
      <4>1. u # t
        BY <1>5, <3>2, IdleFacts DEF Holds
      <4>2. Holds(u) /\ th[u].fam = f
        BY <1>5, <3>2, <4>1 DEF Moves, Holds
      <4> QED BY <4>2 DEF Tracked
    <3> QED BY <1>3, <3>1, <3>2 DEF Tracked
  <2>3. Tidy(f) /\ \A l \in Labels : Members(f)[l] # i
    BY <1>11, <2>1, <2>2
  <2>4. Root(f) \in Ids
    BY <1>0, <2>1, RangeFacts
  <2>5. \A l \in Labels, j \in Ids :
             Members(f)[l] = j /\ image[Root(f)].family = f /\ image[j].key = Root(f) =>
                 /\ image'[Root(f)].family = f /\ image'[j].key = Root(f)
                 /\ image[j].open => image'[j].open
                 /\ Forgetting(j) => Forgetting(j)'
    BY <1>4, <1>6, <2>3, <2>4
  <2> QED BY <1>0, <1>3, <1>6, <2>1, <2>3, <2>5, TidyStays
<1>13. RootsInv'
  <2> SUFFICES ASSUME NEW u \in Threads, Holds(u)', image'[heap'[th'[u].fam].root].disk
               PROVE  image'[heap'[th'[u].fam].root].key = heap'[th'[u].fam].root
    BY DEF RootsInv, Root
  <2>1. u # t
    BY <1>5, IdleFacts DEF Holds
  <2>2. Holds(u) /\ th'[u].fam = th[u].fam
    BY <1>5, <2>1 DEF Moves, Holds
  <2>3. th[u].fam \in Families /\ Root(th[u].fam) \in Ids
    BY <2>2, HeldFamily DEF Holds
  <2>4. heap'[th[u].fam].root = Root(th[u].fam)
    BY <1>6, <2>3 DEF Root
  <2>5. image[Root(th[u].fam)].disk => image[Root(th[u].fam)].key = Root(th[u].fam)
    BY <2>2 DEF IInv, RootsInv
  <2> QED BY <1>4, <2>2, <2>3, <2>4, <2>5
<1>14. NotLeakedInv'
  <2> SUFFICES ASSUME NEW k \in Ids, NEW f, f = image'[k].family, f # 0 PROVE Kept(f)'
    BY <1>3 DEF NotLeakedInv
  <2>1. image[k].family = f /\ f \in Families
    BY <1>0, <1>4, RangeFacts
  <2>2. CASE Resetting
    BY <1>6, <2>2 DEF Kept
  <2>3. CASE ~Resetting
    <3>1. Kept(f)
      BY <1>5, <2>1 DEF IInv, NotLeakedInv, At
    <3>2. \A l \in Labels : Members(f)[l] # i
      BY <1>11, <2>1, <2>3 DEF Tracked
    <3>3. PICK l \in Labels, j \in Ids : Members(f)[l] = j /\ (image[j].open \/ Forgetting(j))
      BY <2>3, <3>1 DEF Kept
    <3>4. Members(f)'[l] = j /\ j \in Ids' /\ (image'[j].open \/ Forgetting(j)')
      BY <1>3, <1>4, <1>6, <2>1, <3>2, <3>3
    <3> QED BY <3>4 DEF Kept
  <2> QED BY <2>2, <2>3
<1>15. RequestsInv'
  <2>1. Request(t)'
    BY <1>5, IdleFacts DEF Request, At
  <2>2. ASSUME NEW u \in Threads, u # t PROVE Request(u)'
    <3>1. th'[u] = th[u] /\ th[u].img \in Ids \cup {0}
      BY <1>0, <1>5, <2>2, RangeFacts DEF Moves
    <3>2. th[u].pc = "stash" => Apart(u)'
      <4> SUFFICES ASSUME th[u].pc = "stash" PROVE Apart(u)'
        OBVIOUS
      <4>1. Apart(u)
        BY DEF IInv, RequestsInv, Request, At
      <4>2. PICK k \in Ids : k = th[u].img
        BY <3>1, <4>1 DEF Apart
      <4>3. k # 0 /\ ~image[k].disk /\ image[k].key = 0 /\ image[k].family = 0
        BY <4>1, <4>2 DEF Apart
      <4>4. ~image'[k].disk /\ image'[k].key = 0 /\ image'[k].family = 0
        BY <1>4, <4>3
      <4>5. (\A f \in Families' : Root(f)' # k) /\ \A j \in Ids' : image'[j].key # k
        BY <1>3, <1>4, <1>6, <4>1, <4>2, <4>3 DEF Apart
      <4>6. \A v \in Threads : v # u /\ th'[v].pc = "stash" => th'[v].img # k
        BY <1>5, <4>1, <4>2, <4>3, IdleFacts DEF Apart, Moves, At
      <4> QED BY <1>0, <3>1, <4>1, <4>2, <4>4, <4>5, <4>6, ApartKeeps
    <3> QED BY <1>3, <1>4, <1>5, <3>1, <3>2, OthersKeep
  <2> QED BY <2>1, <2>2 DEF RequestsInv
<1>16. MapsOfThisSession'
  BY <1>3, <1>4, <1>5, MapsStay DEF IInv, Open
<1> QED BY <1>7, <1>8, <1>9, <1>10, <1>12, <1>13, <1>14, <1>15, <1>16 DEF IInv

LEMMA TypeParts ==
    ASSUME /\ heap' \in Seq(Family) /\ th' \in [Threads -> Local]
           /\ generation' \in Nat /\ forceGen' \in Nat /\ image' \in Seq(ImageRecord),
           \A j \in Ids' : /\ image'[j].key \in Ids' \cup {0} /\ image'[j].family \in Families' \cup {0}
                          /\ image'[j].of \in Families' \cup {0},
           \A g \in Families' : Root(g)' \in Ids' /\ \A l \in Labels : Members(g)'[l] \in Ids' \cup {0},
           \A u \in Threads : /\ th'[u].img \in Ids' \cup {0} /\ th'[u].fam \in Families' \cup {0}
                             /\ th'[u].live \subseteq Ids'
    PROVE  TypeOK'
BY DEF TypeOK, Root, Members

LEMMA TrackedBefore ==
    ASSUME NEW t \in Threads, Moves(t), generation' = generation, NEW f, Tracked(f)',
           \A k \in Ids' : image'[k].family = f => Tracked(f), ~(Holds(t)' /\ th'[t].fam = f)
    PROVE  Tracked(f)
<1>1. ASSUME NEW u \in Threads, Holds(u)', th'[u].fam = f PROVE Tracked(f)
  <2>1. u # t
    BY <1>1
  <2>2. Holds(u) /\ th[u].fam = f
    BY <1>1, <2>1 DEF Moves, Holds
  <2> QED BY <2>2 DEF Tracked
<1> QED BY <1>1 DEF Tracked

LEMMA RootsKeep ==
    ASSUME IInv, NEW t \in Threads, Moves(t), generation' = generation, ~Holds(t)',
           \A f \in Families : Root(f)' = Root(f),
           \A k \in Ids : image'[k].disk => image[k].disk /\ image'[k].key = image[k].key
    PROVE  RootsInv'
<1> SUFFICES ASSUME NEW u \in Threads, Holds(u)', image'[heap'[th'[u].fam].root].disk
             PROVE  image'[heap'[th'[u].fam].root].key = heap'[th'[u].fam].root
  BY DEF RootsInv, Root
<1>1. Holds(u) /\ th'[u].fam = th[u].fam
  BY DEF Moves, Holds
<1>2. th[u].fam \in Families /\ Root(th[u].fam) \in Ids
  BY <1>1, HeldFamily DEF Holds
<1>3. heap'[th[u].fam].root = Root(th[u].fam)
  BY <1>2 DEF Root
<1>4. image[Root(th[u].fam)].disk => image[Root(th[u].fam)].key = Root(th[u].fam)
  BY <1>1 DEF IInv, RootsInv
<1> QED BY <1>1, <1>2, <1>3, <1>4

\* The uploads of other threads stay apart from families and keys.
LEMMA ApartStays ==
    ASSUME IInv, NEW t \in Threads, Moves(t), th'[t].pc # "stash",
           NEW u \in Threads, u # t, th[u].pc = "stash",
           NEW i, i = th[u].img, i \in Ids =>
               /\ ~image'[i].disk /\ image'[i].key = 0 /\ image'[i].family = 0
               /\ \A f \in Families' : Root(f)' # i
               /\ \A j \in Ids' : image'[j].key # i
    PROVE  Apart(u)'
<1>1. Apart(u) /\ th'[u] = th[u] /\ TypeOK
  BY DEF IInv, RequestsInv, Request, At, Moves
<1>2. i \in Ids
  BY <1>1, RangeFacts DEF Apart
<1>3. \A v \in Threads : v # u /\ th'[v].pc = "stash" => th'[v].img # i
  BY <1>1 DEF Apart, Moves, At
<1> QED BY <1>1, <1>2, <1>3, ApartKeeps

\* What is apart before.
LEMMA ApartFacts ==
    ASSUME IInv, NEW u \in Threads, th[u].pc = "stash", NEW i, i = th[u].img
    PROVE  /\ i # 0 /\ ~image[i].disk /\ image[i].key = 0 /\ image[i].family = 0
           /\ \A f \in Families : Root(f) # i
           /\ \A j \in Ids : image[j].key # i
BY DEF IInv, RequestsInv, Request, Apart, At

---------------------------------------------------------------------------
\* The check under the lock attaches the family again

\* Thread t attaches family f to its root k.
Attaches(t, f, k) ==
    /\ th[t].pc = "check" /\ th[t].fam = f /\ Root(f) = k
    /\ th[t].gen = generation /\ image[k].family \in {0, f}
    /\ image' = [image EXCEPT ![k].family = f]
    /\ th' = [th EXCEPT ![t].pc = "register", ![t].live = Open]

LEMMA AttachKeeps ==
    ASSUME IInv, NEW t \in Threads, LockFree, NEW f, NEW k, Attaches(t, f, k),
           UNCHANGED <<heap, generation, forceGen>>
    PROVE  IInv'
<1>0. /\ TypeOK /\ f \in Families /\ k \in Ids /\ f # 0 /\ Request(t) /\ Holds(t) /\ Root(f) = k
      /\ th[t].pc = "check" /\ th[t].fam = f /\ th[t].gen = generation /\ image[k].family \in {0, f}
  BY HeldFamily, ZeroFree DEF Attaches, IInv, RequestsInv, Request, Holds, At
<1> DEFINE r == [image[k] EXCEPT !.family = f]
           s == [th[t] EXCEPT !.pc = "register", !.live = Open]
<1>1. image[k] \in ImageRecord /\ th[t] \in Local /\ f \in Nat /\ Open \subseteq Ids /\ Open \subseteq Nat
  BY <1>0, RecordFacts, NumbersFacts DEF Open
<1>2. /\ r \in ImageRecord /\ r.key = image[k].key /\ r.label = image[k].label /\ r.open = image[k].open
      /\ r.disk = image[k].disk /\ r.family = f /\ r.of = image[k].of /\ r.gen = image[k].gen
  BY <1>1 DEF ImageRecord
<1>3. /\ s \in Local /\ s.pc = "register" /\ s.live = Open /\ s.img = th[t].img /\ s.gen = generation
      /\ s.fam = f /\ s.todo = th[t].todo
  BY <1>0, <1>1 DEF Local, Places
<1>4. image' = [image EXCEPT ![k] = r] /\ th' = [th EXCEPT ![t] = s]
  BY <1>0 DEF TypeOK, Attaches
<1> HIDE DEF r, s
<1>5. /\ image' \in Seq(ImageRecord) /\ Ids' = Ids /\ image'[k] = r /\ \A j \in Ids : j # k => image'[j] = image[j]
  BY <1>0, <1>2, <1>4, PutImage
<1>6. Moves(t) /\ th'[t] = s
  BY <1>0, <1>3, <1>4, GoesTo
<1>7. /\ image'[k].family = f
      /\ \A j \in Ids : /\ image'[j].label = image[j].label /\ image'[j].open = image[j].open
                        /\ image'[j].disk = image[j].disk /\ image'[j].key = image[j].key
                        /\ image'[j].of = image[j].of /\ image'[j].gen = image[j].gen
                        /\ image'[j].family = image[j].family \/ (j = k /\ image[j].family = 0)
  BY <1>0, <1>2, <1>5
<1>8. /\ SameFamilies /\ generation' = generation /\ forceGen' = forceGen
      /\ generation \in Nat /\ forceGen \in Nat /\ \A u \in Threads : th[u].pc # "register"
  BY <1>0, SameHeap DEF TypeOK, LockFree, At
<1>9. /\ Families' = Families /\ \A g \in Families : Root(g)' = Root(g) /\ Members(g)' = Members(g)
      /\ \A j : Forgetting(j) => Forgetting(j)'
      /\ Resetting => Resetting'
  BY <1>0, <1>6, <1>8, OthersStay DEF SameFamilies
<1>10. TypeOK'
  <2>1. \A j \in Ids' : /\ image'[j].key \in Ids' \cup {0} /\ image'[j].family \in Families' \cup {0}
                        /\ image'[j].of \in Families' \cup {0}
    BY <1>0, <1>5, <1>7, <1>9, RangeFacts
  <2>2. \A g \in Families' : Root(g)' \in Ids' /\ \A l \in Labels : Members(g)'[l] \in Ids' \cup {0}
    <3>1. \A g \in Families : Root(g) \in Ids /\ \A l \in Labels : Members(g)[l] \in Ids \cup {0}
      BY <1>0, RangeFacts
    <3> QED BY <1>5, <1>9, <3>1
  <2>3. \A u \in Threads : /\ th'[u].img \in Ids' \cup {0} /\ th'[u].fam \in Families' \cup {0}
                           /\ th'[u].live \subseteq Ids'
    BY <1>0, <1>1, <1>3, <1>5, <1>6, <1>9, RangeFacts DEF Moves
  <2>4. /\ heap' \in Seq(Family) /\ th' \in [Threads -> Local]
        /\ generation' \in Nat /\ forceGen' \in Nat /\ image' \in Seq(ImageRecord)
    BY <1>5, <1>6, <1>8 DEF SameFamilies, Moves
  <2> QED BY <2>1, <2>2, <2>3, <2>4, TypeParts
<1>11. ImagesInv'
  <2> SUFFICES ASSUME NEW j \in Ids
               PROVE  /\ ~image'[j].open => ~image'[j].disk /\ image'[j].of = 0
                      /\ image'[j].of # 0 => image'[j].label \in Labels /\ image'[j].gen <= generation
                      /\ image'[j].disk => image'[j].key \in {0, j}
                      /\ image'[j].disk /\ image'[j].key = 0 => image'[j].family = 0
                      /\ image'[j].family # 0 => heap'[image'[j].family].root = j
    BY <1>5, <1>8 DEF ImagesInv, Root
  <2>1. image[j].family # 0 => heap'[image[j].family].root = j
    BY <1>0, <1>9, RangeFacts DEF IInv, ImagesInv, Root
  <2>2. heap'[f].root = k
    BY <1>0, <1>9 DEF Root
  <2>3. image[k].disk => image[k].key = k /\ k # 0
    BY <1>0, ZeroFree DEF IInv, RootsInv
  <2> QED BY <1>0, <1>7, <2>1, <2>2, <2>3 DEF IInv, ImagesInv
<1>12. MembersInv' /\ LinksInv'
  <2> SUFFICES ASSUME NEW j \in Ids, image'[j].open, image'[j].of # 0
               PROVE  /\ heap'[image'[j].of].members[image'[j].label] = j
                      /\ image'[j].gen = generation =>
                            image'[j].key # 0 /\ image'[image'[j].key].family = image'[j].of
    BY <1>5, <1>8 DEF MembersInv, LinksInv, Open, Members
  <2>1. image[j].of \in Families /\ j \in Open /\ image[j].of # 0 /\ image[j].key \in Ids \cup {0}
    BY <1>0, <1>7, RangeFacts DEF Open
  <2>2. heap'[image[j].of].members[image[j].label] = j
    BY <1>9, <2>1 DEF IInv, MembersInv, Members
  <2>3. image[j].gen = generation => image[j].key # 0 /\ image[image[j].key].family = image[j].of
    BY <2>1 DEF IInv, LinksInv
  <2>4. ASSUME image[j].gen = generation PROVE image'[image[j].key].family = image[j].of
    <3>1. image[j].key \in Ids /\ image[image[j].key].family = image[j].of /\ image[j].of # 0
      BY <2>1, <2>3, <2>4
    <3> QED BY <1>7, <3>1
  <2> QED BY <1>7, <2>1, <2>2, <2>3, <2>4
<1>13. TidyInv'
  <2> SUFFICES ASSUME ~Resetting', NEW g \in Families', Tracked(g)' PROVE Tidy(g)'
    BY DEF TidyInv
  <2>1. g \in Families /\ ~Resetting /\ g # 0
    BY <1>9, ZeroFree
  <2>2. Tracked(g)
    <3>1. \A j \in Ids' : image'[j].family = g => Tracked(g)
      BY <1>0, <1>5, <1>7, <2>1 DEF Tracked
    <3>2. ~Holds(t)'
      BY <1>3, <1>6 DEF Holds
    <3> QED BY <1>6, <1>8, <3>1, <3>2, TrackedBefore
  <2>3. Tidy(g) /\ Root(g) \in Ids
    BY <1>0, <2>1, <2>2, RangeFacts DEF IInv, TidyInv
  <2>4. image[Root(g)].family = g => image'[Root(g)].family = g
    BY <1>7, <2>1, <2>3
  <2>5. \A l \in Labels, j \in Ids :
             Members(g)[l] = j /\ image[Root(g)].family = g /\ image[j].key = Root(g) =>
                 /\ image'[Root(g)].family = g /\ image'[j].key = Root(g)
                 /\ image[j].open => image'[j].open
                 /\ Forgetting(j) => Forgetting(j)'
    BY <1>7, <1>9, <2>4
  <2> QED BY <1>0, <1>5, <1>9, <2>1, <2>3, <2>5, TidyStays
<1>14. RootsInv'
  BY <1>3, <1>6, <1>7, <1>8, <1>9, RootsKeep DEF Holds
<1>15. NotLeakedInv'
  <2> SUFFICES ASSUME NEW j \in Ids, NEW g, g = image'[j].family, g # 0
               PROVE  Kept(g)' \/ \E u \in Threads : At(u, "register")' /\ th'[u].fam = g
    BY <1>5 DEF NotLeakedInv
  <2>1. CASE j = k
    <3>1. g = f /\ th'[t].pc = "register" /\ th'[t].fam = f
      BY <1>3, <1>6, <1>7, <2>1
    <3> QED BY <3>1 DEF At
  <2>2. CASE j # k
    <3>1. image[j].family = g /\ g \in Families
      BY <1>0, <1>7, <2>2, RangeFacts
    <3>2. Kept(g)
      BY <1>8, <3>1 DEF IInv, NotLeakedInv, At
    <3>3. Members(g)' = Members(g) /\ Ids \subseteq Ids' /\ \A i \in Ids : image[i].open => image'[i].open
      BY <1>5, <1>7, <1>9, <3>1
    <3> QED BY <1>9, <3>1, <3>2, <3>3, KeptStays
  <2> QED BY <2>1, <2>2
<1>16. RequestsInv'
  <2>1. Request(t)'
    <3>1. Registers(t)'
      <4>1. /\ th'[t].gen = generation' /\ image'[heap'[th'[t].fam].root].family = th'[t].fam
            /\ \A j \in Ids' : image'[j].open => j \in th'[t].live
            /\ \A j \in th'[t].live : image'[j].open
            /\ th'[t].todo # {}
        <5>1. th'[t].gen = generation /\ th'[t].fam = f /\ th'[t].live = Open /\ th'[t].todo = th[t].todo
          BY <1>3, <1>6
        <5>2. heap'[f].root = k /\ th[t].todo # {}
          BY <1>0, <1>9 DEF Root, Request, At
        <5>3. (\A j \in Ids' : image'[j].open => j \in Open) /\ \A j \in Open : image'[j].open
          BY <1>5, <1>7 DEF Open
        <5> QED BY <1>7, <1>8, <5>1, <5>2, <5>3
      <4>2. \A u \in Threads : th'[u].pc = "register" => u = t
        BY <1>6, <1>8 DEF Moves
      <4> QED BY <4>1, <4>2 DEF Registers, Root, Open, At
    <3>2. /\ th'[t].pc = "register" /\ th'[t].fam # 0 /\ th'[t].todo \subseteq Labels /\ th'[t].gen <= generation'
      BY <1>0, <1>3, <1>6, <1>8 DEF Request
    <3> QED BY <3>1, <3>2 DEF Request, At
  <2>2. ASSUME NEW u \in Threads, u # t PROVE Request(u)'
    <3>1. th'[u] = th[u]
      BY <1>6, <2>2 DEF Moves
    <3>2. th[u].pc = "stash" => Apart(u)'
      <4> SUFFICES ASSUME th[u].pc = "stash" PROVE Apart(u)'
        OBVIOUS
      <4>1. PICK i : i = th[u].img
        OBVIOUS
      <4>2. i # k /\ ~image[i].disk /\ image[i].key = 0 /\ image[i].family = 0
        BY <1>0, <4>1, ApartFacts
      <4>3. (\A g \in Families' : Root(g)' # i) /\ \A j \in Ids' : image'[j].key # i
        BY <1>5, <1>7, <1>9, <4>1, ApartFacts
      <4>4. i \in Ids => ~image'[i].disk /\ image'[i].key = 0 /\ image'[i].family = 0
        BY <1>7, <4>2
      <4>5. th'[t].pc # "stash"
        BY <1>3, <1>6
      <4> QED BY <1>6, <2>2, <4>1, <4>3, <4>4, <4>5, ApartStays
    <3>3. /\ generation <= generation' /\ generation' \in Nat /\ th[u].pc # "register" /\ Ids \subseteq Ids'
          /\ \A j \in Ids : image'[j].label = image[j].label /\ (~image[j].open => ~image'[j].open)
      BY <1>5, <1>7, <1>8
    <3> QED BY <1>8, <3>1, <3>2, <3>3, OthersKeep
  <2> QED BY <2>1, <2>2 DEF RequestsInv
<1>17. MapsOfThisSession'
  BY <1>0, <1>5, <1>6, <1>7, <1>8, MapsStay DEF IInv, Open
<1> QED BY <1>10, <1>11, <1>12, <1>13, <1>14, <1>15, <1>16, <1>17 DEF IInv

LEMMA CheckKeeps == ASSUME IInv, NEW t \in Threads, Check(t) PROVE IInv'
<1> DEFINE f == th[t].fam
           k == Root(f)
<1>1. th[t].pc = "check" /\ LockFree /\ UNCHANGED <<generation, forceGen>>
  BY DEF Check, At
<1>2. CASE LeaveOpening(t) /\ UNCHANGED image
  BY <1>1, <1>2, LeaveKeeps DEF At
<1>3. CASE /\ th[t].gen = generation /\ image[k].family \in {0, f}
           /\ image' = [image EXCEPT ![k].family = f]
           /\ th' = [th EXCEPT ![t].pc = "register", ![t].live = Open]
           /\ UNCHANGED heap
  <2> HIDE DEF k, f
  <2>1. PICK g, n : g = f /\ n = k
    OBVIOUS
  <2>2. g = th[t].fam /\ n = Root(g)
    BY <2>1 DEF f, k
  <2>3. Attaches(t, g, n)
    BY <1>1, <1>3, <2>1, <2>2 DEF Attaches
  <2> QED BY <1>1, <1>3, <2>3, AttachKeeps
<1> QED BY <1>2, <1>3 DEF Check, Root

LEMMA FindFamilyKeeps == ASSUME IInv, NEW t \in Threads, FindFamily(t) PROVE IInv'
<1>1. PICK i : i = th[t].img
  OBVIOUS
<1>2. PICK f : f = IF image[i].key = 0 THEN 0 ELSE image[image[i].key].family
  OBVIOUS
<1>3. th[t].pc = "family" /\ LockFree /\ UNCHANGED <<generation, forceGen>>
  BY DEF FindFamily, At
<1>4. /\ i \in Ids /\ image[i].label \in Labels /\ image[i].key \in Ids \cup {0}
      /\ th[t].todo \subseteq Labels /\ th[t].gen <= generation /\ th[t].live \subseteq Ids
  BY <1>1, <1>3, RangeFacts DEF IInv, RequestsInv, Request
<1>5. CASE /\ f # 0 /\ UNCHANGED <<image, heap>>
           /\ th' = [th EXCEPT ![t].pc = "opening", ![t].fam = f, ![t].img = 0]
  <2>1. PICK k \in Ids : k = image[i].key /\ image[k].family = f
    BY <1>2, <1>4, <1>5
  <2>2. f \in Families
    BY <1>5, <2>1, RangeFacts DEF IInv
  <2> QED BY <1>3, <1>5, <2>1, <2>2, FoundKeeps
<1>6. CASE /\ f = 0 /\ image[i].disk /\ Join(i, "disk")
           /\ th' = [th EXCEPT ![t].pc = "opening", ![t].fam = Len(heap) + 1, ![t].img = 0]
  <2>1. PICK n : n = Len(heap) + 1
    OBVIOUS
  <2>2. n \in Nat /\ n # 0
    BY <2>1, NumbersFacts DEF IInv
  <2>3. /\ Moves(t) /\ th'[t].pc = "opening" /\ th'[t].fam = n /\ th'[t].img = 0
        /\ th'[t].gen = th[t].gen /\ th'[t].live = th[t].live /\ th'[t].todo = th[t].todo
    BY <1>6, <2>1, <2>2, FoundFacts DEF IInv
  <2>4. Request(t)'
    BY <1>3, <1>4, <2>2, <2>3 DEF Request, At
  <2>5. image[i].open /\ image[i].key \in {0, i} /\ image[i].family = 0
    BY <1>2, <1>4, <1>6 DEF IInv, ImagesInv
  <2>6. \A u \in Threads : th[u].pc = "stash" => th[u].img # i
    BY <1>6, ApartFacts
  <2>7. th[t].pc \in {"family", "stash"} /\ th'[t].pc \in {"idle", "opening"} /\ th'[t].live \subseteq Ids
    BY <1>3, <1>4, <2>3
  <2>8. Joins(i, "disk", n)
    BY <1>6, <2>1 DEF Joins
  <2> QED BY <1>3, <1>4, <2>3, <2>4, <2>5, <2>6, <2>7, <2>8, JoinKeeps
<1>7. CASE /\ f = 0 /\ ~image[i].disk /\ image' = [image EXCEPT ![i].key = 0]
           /\ Answer(t) /\ UNCHANGED heap
  <2>1. image[i].key = 0 \/ image[image[i].key].family = 0
    BY <1>2, <1>7
  <2> QED BY <1>3, <1>4, <1>7, <2>1, UnkeyKeeps
<1> QED BY <1>1, <1>2, <1>5, <1>6, <1>7 DEF FindFamily

LEMMA StashKeeps == ASSUME IInv, NEW t \in Threads, Stash(t) PROVE IInv'
<1>1. PICK i : i = th[t].img
  OBVIOUS
<1>2. th[t].pc = "stash" /\ LockFree /\ Answer(t) /\ UNCHANGED <<generation, forceGen>>
  BY DEF Stash, At
<1>3. Apart(t) /\ i \in Ids /\ image[i].label \in Labels
  BY <1>1, <1>2, RangeFacts DEF IInv, RequestsInv, Request, At
<1>4. CASE image[i].open /\ Join(i, "upload")
  <2>1. Moves(t) /\ th'[t] = Idle
    BY <1>2, AnswerFacts DEF IInv
  <2>2. Request(t)' /\ ~Holds(t)'
    BY <2>1, IdleFacts DEF Request, Holds, At
  <2>3. image[i].family = 0 /\ image[i].key \in {0, i}
        /\ \A u \in Threads : u # t /\ th[u].pc = "stash" => th[u].img # i
    BY <1>1, <1>3 DEF Apart, At
  <2>4. PICK n : n = Len(heap) + 1
    OBVIOUS
  <2>5. /\ th[t].pc \in {"family", "stash"} /\ th'[t].pc \in {"idle", "opening"} /\ th'[t].img = 0
        /\ th'[t].live \subseteq Ids /\ th'[t].fam \in {0, n}
    BY <1>2, <2>1, IdleFacts
  <2>6. Joins(i, "upload", n)
    BY <1>4, <2>4 DEF Joins
  <2> QED BY <1>2, <1>3, <1>4, <2>1, <2>2, <2>3, <2>5, <2>6, JoinKeeps
<1>5. CASE UNCHANGED <<image, heap>>
  BY <1>2, <1>5, SameHeap, EndKeeps DEF At, IInv
<1> QED BY <1>1, <1>4, <1>5 DEF Stash

---------------------------------------------------------------------------
\* Registering the channels of a family

\* A channel that is shown already keeps the family.
LEMMA SkipKeeps ==
    ASSUME IInv, NEW t \in Threads, th[t].pc = "register", NEW l \in th[t].todo,
           Members(th[t].fam)[l] \in th[t].live,
           th' = [th EXCEPT ![t].todo = @ \ {l}], UNCHANGED <<image, heap, generation, forceGen>>
    PROVE  IInv'
<1>1. PICK f : f = th[t].fam
  OBVIOUS
<1>2. /\ TypeOK /\ Request(t) /\ Registers(t) /\ f \in Families /\ th[t].live \subseteq Ids
      /\ th[t].img \in Ids \cup {0} /\ f # 0 /\ th[t] \in Local
  BY <1>1, HeldFamily, RangeFacts, RecordFacts, ZeroFree DEF IInv, RequestsInv, Request, At
<1> DEFINE s == [th[t] EXCEPT !.todo = @ \ {l}]
<1>3. /\ s \in Local /\ s.pc = "register" /\ s.live = th[t].live /\ s.img = th[t].img /\ s.gen = th[t].gen
      /\ s.fam = f /\ s.todo = th[t].todo \ {l}
  BY <1>1, <1>2 DEF Local
<1>4. th' = [th EXCEPT ![t] = s]
  OBVIOUS
<1> HIDE DEF s
<1>5. Moves(t) /\ th'[t] = s
  BY <1>2, <1>3, <1>4, GoesTo
<1>6. SameFamilies /\ Calm
  BY <1>2, <1>5, SameHeap, QuietCalm
<1>7. PICK j \in Ids : j = Members(f)[l]
  BY <1>1, <1>2
<1>8. Kept(f)
  BY <1>1, <1>2, <1>7 DEF Registers, Kept, Request, At
<1>9. Kept(f)'
  BY <1>2, <1>6, <1>8, CalmKept
<1>10. \A i : (Forgetting(i) => Forgetting(i)') /\ (Resetting => Resetting')
  BY <1>5, OthersStay
<1>11. Registers(t)'
  <2>1. th'[t].gen = generation' /\ image'[heap'[f].root].family = f /\ th'[t].fam = f
    BY <1>1, <1>2, <1>3, <1>5 DEF Registers, Root
  <2>2. \A i \in Ids' : image'[i].open /\ image'[i].of = f /\ image'[i].label \in th'[t].todo => i \in th'[t].live
    BY <1>1, <1>2, <1>3, <1>5 DEF Registers, Ids, Open
  <2>3. \A i \in th'[t].live : image'[i].open \/ Forgetting(i)' \/ Resetting'
    BY <1>2, <1>3, <1>5, <1>10 DEF Registers
  <2>4. \A u \in Threads : th'[u].pc = "register" => u = t
    BY <1>2, <1>5 DEF Registers, Moves, At
  <2>5. (Kept(th[t].fam))'
    BY <1>9, <2>1 DEF Kept, Members
  <2> QED BY <2>1, <2>2, <2>3, <2>4, <2>5 DEF Registers, Root, Open, At
<1>12. Request(t)'
  <2>1. th'[t].pc = "register" /\ th'[t].fam # 0 /\ th'[t].todo \subseteq Labels /\ th'[t].gen <= generation'
    BY <1>2, <1>3, <1>5 DEF Request
  <2> QED BY <1>11, <2>1 DEF Request, At
<1>13. /\ th'[t].img \in Ids \cup {0} /\ th'[t].fam \in Families \cup {0} /\ th'[t].live \subseteq Ids
       /\ th'[t].pc # "stash" /\ ~Holds(t)'
  BY <1>2, <1>3, <1>5 DEF Holds
<1>14. \A g \in Families : At(t, "register") /\ th[t].fam = g => Kept(g)' \/ (At(t, "register")' /\ th'[t].fam = g)
  BY <1>1, <1>3, <1>5 DEF At
<1> QED BY <1>5, <1>6, <1>12, <1>13, <1>14, QuietKeeps

\* Family f has a new member n.
PutMember(f, l, n) ==
    /\ heap' \in Seq(Family) /\ Families' = Families /\ Members(f)'[l] = n
    /\ \A g \in Families : Root(g)' = Root(g)
    /\ \A g \in Families, m \in Labels : (g # f \/ m # l) => Members(g)'[m] = Members(g)[m]

LEMMA MemberPut ==
    ASSUME TypeOK, NEW f \in Families, NEW l \in Labels, NEW n \in Nat,
           heap' = [heap EXCEPT ![f].members[l] = n]
    PROVE  PutMember(f, l, n)
<1> DEFINE o == [heap[f] EXCEPT !.members[l] = n]
<1>1. heap[f] \in Family
  BY RecordFacts
<1>2. /\ o \in Family /\ o.root = heap[f].root /\ o.members[l] = n
      /\ \A m \in Labels : m # l => o.members[m] = heap[f].members[m]
  BY <1>1 DEF Family
<1>3. heap' = [heap EXCEPT ![f] = o]
  OBVIOUS
<1> HIDE DEF o
<1>4. /\ heap' \in Seq(Family) /\ Families' = Families /\ heap'[f] = o /\ \A g \in Families : g # f => heap'[g] = heap[g]
  BY <1>2, <1>3, PutFamily
<1>5. Members(f)'[l] = n /\ \A g \in Families : Root(g)' = Root(g)
  BY <1>2, <1>4 DEF Members, Root
<1>6. \A g \in Families, m \in Labels : (g # f \/ m # l) => Members(g)'[m] = Members(g)[m]
  BY <1>2, <1>4 DEF Members
<1> QED BY <1>4, <1>5, <1>6 DEF PutMember

\* What a new channel l, of family f, changes.
Added(t, l, f, n) ==
    /\ image' \in Seq(ImageRecord) /\ Ids' = Ids \cup {n} /\ n \notin Ids /\ n # 0
    /\ \A i \in Ids : image'[i] = image[i]
    /\ image'[n].label = l /\ image'[n].open /\ ~image'[n].disk /\ image'[n].key = Root(f)
    /\ image'[n].family = 0 /\ image'[n].of = f /\ image'[n].gen = th[t].gen
    /\ heap' \in Seq(Family) /\ Families' = Families /\ Members(f)'[l] = n
    /\ \A g \in Families : Root(g)' = Root(g)
    /\ \A g \in Families, m \in Labels : (g # f \/ m # l) => Members(g)'[m] = Members(g)[m]
    /\ Moves(t) /\ th'[t].pc = "register" /\ th'[t].live = th[t].live /\ th'[t].img = th[t].img
    /\ th'[t].gen = th[t].gen /\ th'[t].fam = f /\ th'[t].todo = th[t].todo \ {l}

LEMMA AddedFacts ==
    ASSUME IInv, NEW t \in Threads, th[t].pc = "register", NEW l \in th[t].todo,
           NEW f, f = th[t].fam, NEW n, n = NewId,
           th' = [th EXCEPT ![t].todo = @ \ {l}],
           NEW r \in ImageRecord, image' = Append(image, r),
           r.label = l, r.open, ~r.disk, r.key = Root(f), r.family = 0, r.of = f, r.gen = th[t].gen,
           PutMember(f, l, n)
    PROVE  Added(t, l, f, n)
<1>1. /\ TypeOK /\ f \in Families /\ Root(f) \in Ids /\ l \in Labels /\ th[t] \in Local
      /\ f \in Nat /\ Root(f) \in Nat /\ n \in Nat /\ n \notin Ids /\ n # 0
  BY HeldFamily, RecordFacts, NumbersFacts DEF IInv, RequestsInv, Request
<1> DEFINE s == [th[t] EXCEPT !.todo = @ \ {l}]
<1>4. /\ s \in Local /\ s.pc = "register" /\ s.live = th[t].live /\ s.img = th[t].img /\ s.gen = th[t].gen
      /\ s.fam = f /\ s.todo = th[t].todo \ {l}
  BY <1>1 DEF Local
<1>5. th' = [th EXCEPT ![t] = s]
  OBVIOUS
<1> HIDE DEF s
<1>6. /\ image' \in Seq(ImageRecord) /\ Ids' = Ids \cup {n} /\ image'[n] = r /\ \A i \in Ids : image'[i] = image[i]
  BY <1>1, AppendedImage
<1>7. Moves(t) /\ th'[t] = s
  BY <1>1, <1>4, <1>5, GoesTo
<1> QED BY <1>1, <1>4, <1>6, <1>7 DEF Added, PutMember

LEMMA AddKeeps ==
    ASSUME IInv, NEW t \in Threads, th[t].pc = "register", NEW l \in th[t].todo,
           NEW f, f = th[t].fam, NEW n, Members(f)[l] \notin th[t].live, Added(t, l, f, n),
           UNCHANGED <<generation, forceGen>>
    PROVE  IInv'
<1>1. /\ image' \in Seq(ImageRecord) /\ Ids' = Ids \cup {n} /\ n \notin Ids /\ n # 0
      /\ \A i \in Ids : image'[i] = image[i]
      /\ image'[n].label = l /\ image'[n].open /\ ~image'[n].disk /\ image'[n].key = Root(f)
      /\ image'[n].family = 0 /\ image'[n].of = f /\ image'[n].gen = th[t].gen
  BY DEF Added
<1>2. /\ heap' \in Seq(Family) /\ Families' = Families /\ Members(f)'[l] = n
      /\ \A g \in Families : Root(g)' = Root(g)
      /\ \A g \in Families, m \in Labels : (g # f \/ m # l) => Members(g)'[m] = Members(g)[m]
  BY DEF Added
<1>3. /\ Moves(t) /\ th'[t].pc = "register" /\ th'[t].live = th[t].live /\ th'[t].img = th[t].img
      /\ th'[t].gen = th[t].gen /\ th'[t].fam = f /\ th'[t].todo = th[t].todo \ {l}
  BY DEF Added
<1>4. /\ TypeOK /\ f \in Families /\ Root(f) \in Ids /\ l \in Labels /\ l \notin Maps /\ f # 0
      /\ Request(t) /\ Registers(t) /\ th[t].gen = generation /\ image[Root(f)].family = f
      /\ th[t].todo \subseteq Labels /\ generation \in Nat /\ forceGen \in Nat
  BY HeldFamily, ShownAssumption, ZeroFree DEF IInv, RequestsInv, Request, Registers, At, TypeOK
<1>5. /\ \A i : Forgetting(i) => Forgetting(i)'
      /\ Resetting => Resetting'
      /\ Resetting' => Resetting
      /\ \A u \in Threads : u # t => th[u].pc # "register"
  BY <1>3, <1>4, OthersStay DEF Registers, Moves, Resetting, At
<1>6. TypeOK'
  <2>1. \A j \in Ids' : /\ image'[j].key \in Ids' \cup {0} /\ image'[j].family \in Families' \cup {0}
                        /\ image'[j].of \in Families' \cup {0}
    BY <1>1, <1>2, <1>4, RangeFacts
  <2>2. \A g \in Families' : Root(g)' \in Ids' /\ \A m \in Labels : Members(g)'[m] \in Ids' \cup {0}
    BY <1>1, <1>2, <1>4, RangeFacts
  <2>3. \A u \in Threads : /\ th'[u].img \in Ids' \cup {0} /\ th'[u].fam \in Families' \cup {0}
                           /\ th'[u].live \subseteq Ids'
    BY <1>1, <1>2, <1>3, <1>4, RangeFacts DEF Moves
  <2>4. th' \in [Threads -> Local] /\ generation' \in Nat /\ forceGen' \in Nat
    BY <1>3, <1>4 DEF Moves
  <2> QED BY <1>1, <1>2, <2>1, <2>2, <2>3, <2>4, TypeParts
<1>7. ImagesInv'
  <2> SUFFICES ASSUME NEW j \in Ids'
               PROVE  /\ ~image'[j].open => ~image'[j].disk /\ image'[j].of = 0
                      /\ image'[j].of # 0 => image'[j].label \in Labels /\ image'[j].gen <= generation
                      /\ image'[j].disk => image'[j].key \in {0, j}
                      /\ image'[j].disk /\ image'[j].key = 0 => image'[j].family = 0
                      /\ image'[j].family # 0 => heap'[image'[j].family].root = j
    BY DEF ImagesInv, Root
  <2>1. CASE j = n
    BY <1>1, <1>4, <2>1
  <2>2. CASE j # n
    <3>1. j \in Ids /\ image'[j] = image[j]
      BY <1>1, <2>2
    <3>2. image[j].family # 0 => heap'[image[j].family].root = j
      BY <1>2, <1>4, <3>1, RangeFacts DEF IInv, ImagesInv, Root
    <3> QED BY <3>1, <3>2 DEF IInv, ImagesInv
  <2> QED BY <2>1, <2>2
<1>8. MembersInv' /\ LinksInv'
  <2> SUFFICES ASSUME NEW j \in Ids', image'[j].open, image'[j].of # 0
               PROVE  /\ heap'[image'[j].of].members[image'[j].label] = j
                      /\ image'[j].gen = generation =>
                            image'[j].key # 0 /\ image'[image'[j].key].family = image'[j].of
    BY DEF MembersInv, LinksInv, Open, Members
  <2>1. CASE j = n
    BY <1>1, <1>2, <1>4, <2>1, ZeroFree DEF Members
  <2>2. CASE j # n
    <3>1. /\ j \in Ids /\ image'[j] = image[j] /\ j \in Open /\ image[j].of \in Families
          /\ image[j].label \in Labels /\ image[j].key \in Ids \cup {0}
      BY <1>1, <1>4, <2>2, RangeFacts DEF IInv, ImagesInv, Open
    <3>2. Members(image[j].of)[image[j].label] = j
      BY <3>1 DEF IInv, MembersInv
    <3>3. image[j].of # f \/ image[j].label # l
      BY <1>4, <3>1, <3>2 DEF Registers
    <3>4. Members(image[j].of)'[image[j].label] = j
      BY <1>2, <3>1, <3>2, <3>3
    <3>5. image[j].gen = generation => image[j].key # 0 /\ image[image[j].key].family = image[j].of
      BY <3>1 DEF IInv, LinksInv
    <3> QED BY <1>1, <3>1, <3>4, <3>5 DEF Members
  <2> QED BY <2>1, <2>2
<1>9. TidyInv'
  <2> SUFFICES ASSUME ~Resetting', NEW g \in Families', Tracked(g)' PROVE Tidy(g)'
    BY DEF TidyInv
  <2>1. g \in Families /\ ~Resetting /\ g # 0
    BY <1>2, <1>5, ZeroFree
  <2>2. Tracked(g)
    <3>1. \A j \in Ids' : image'[j].family = g => Tracked(g)
      BY <1>1, <2>1 DEF Tracked
    <3>2. ~Holds(t)'
      BY <1>3 DEF Holds
    <3> QED BY <1>3, <3>1, <3>2, TrackedBefore
  <2>3. Tidy(g) /\ Root(g) \in Ids /\ Root(g)' = Root(g)
    BY <1>2, <1>4, <2>1, <2>2, RangeFacts DEF IInv, TidyInv
  <2> SUFFICES ASSUME NEW m \in Labels, NEW j \in Ids', Members(g)'[m] = j
               PROVE  image'[Root(g)'].family = g /\ image'[j].key = Root(g)' /\ (image'[j].open \/ Forgetting(j)')
    BY DEF Tidy
  <2>4. CASE g = f /\ m = l
    <3>1. j = n
      BY <1>2, <2>4
    <3> QED BY <1>1, <1>4, <2>3, <2>4, <3>1
  <2>5. CASE g # f \/ m # l
    <3>1. Members(g)[m] = j /\ j \in Ids
      BY <1>1, <1>2, <1>4, <2>1, <2>5, RangeFacts
    <3>2. image[Root(g)].family = g /\ image[j].key = Root(g) /\ (image[j].open \/ Forgetting(j))
      BY <2>3, <3>1 DEF Tidy
    <3> QED BY <1>1, <1>5, <2>3, <3>1, <3>2
  <2> QED BY <2>4, <2>5
<1>10. RootsInv'
  <2>1. ~Holds(t)' /\ generation' = generation
    BY <1>3 DEF Holds
  <2>2. \A j \in Ids : image'[j].disk => image[j].disk /\ image'[j].key = image[j].key
    BY <1>1
  <2> QED BY <1>2, <1>3, <2>1, <2>2, RootsKeep
<1>11. NotLeakedInv'
  <2> SUFFICES ASSUME NEW j \in Ids', NEW g, g = image'[j].family, g # 0
               PROVE  Kept(g)' \/ \E u \in Threads : At(u, "register")' /\ th'[u].fam = g
    BY DEF NotLeakedInv
  <2>1. CASE g = f
    BY <1>3, <2>1 DEF At
  <2>2. CASE g # f
    <3>1. j \in Ids /\ image[j].family = g /\ g \in Families
      BY <1>1, <1>4, RangeFacts
    <3>2. Kept(g)
      BY <1>5, <2>2, <3>1 DEF IInv, NotLeakedInv, At
    <3>3. CASE Resetting
      BY <1>5, <3>3 DEF Kept
    <3>4. CASE \E m \in Labels, i \in Ids : Members(g)[m] = i /\ (image[i].open \/ Forgetting(i))
      <4>1. PICK m \in Labels, i \in Ids : Members(g)[m] = i /\ (image[i].open \/ Forgetting(i))
        BY <3>4
      <4>2. Members(g)'[m] = i /\ i \in Ids' /\ (image'[i].open \/ Forgetting(i)')
        BY <1>1, <1>2, <1>5, <2>2, <3>1, <4>1
      <4> QED BY <4>2 DEF Kept
    <3> QED BY <3>2, <3>3, <3>4 DEF Kept
  <2> QED BY <2>1, <2>2
<1>12. RequestsInv'
  <2>1. Request(t)'
    <3>1. th'[t].gen = generation' /\ image'[heap'[f].root].family = f /\ th'[t].fam = f
      BY <1>1, <1>2, <1>3, <1>4 DEF Root
    <3>2. \A i \in Ids' : image'[i].open /\ image'[i].of = f /\ image'[i].label \in th'[t].todo => i \in th'[t].live
      BY <1>1, <1>3, <1>4 DEF Registers, Open
    <3>3. \A i \in th'[t].live : image'[i].open \/ Forgetting(i)' \/ Resetting'
      BY <1>1, <1>3, <1>4, <1>5, RangeFacts DEF Registers
    <3>4. \A u \in Threads : th'[u].pc = "register" => u = t
      BY <1>3, <1>5 DEF Moves
    <3>5. Kept(f)'
      BY <1>1, <1>2, <1>4 DEF Kept
    <3>6. (Kept(th[t].fam))'
      BY <3>1, <3>5 DEF Kept, Members
    <3>7. Registers(t)'
      BY <3>1, <3>2, <3>3, <3>4, <3>6 DEF Registers, Root, Open, At
    <3>8. th'[t].pc = "register" /\ th'[t].fam # 0 /\ th'[t].todo \subseteq Labels /\ th'[t].gen <= generation'
      BY <1>3, <1>4
    <3> QED BY <3>7, <3>8 DEF Request, At
  <2>2. ASSUME NEW u \in Threads, u # t PROVE Request(u)'
    <3>1. th'[u] = th[u]
      BY <1>3, <2>2 DEF Moves
    <3>2. th[u].pc = "stash" => Apart(u)'
      <4> SUFFICES ASSUME th[u].pc = "stash" PROVE Apart(u)'
        OBVIOUS
      <4>1. PICK i : i = th[u].img
        OBVIOUS
      <4>2. i # Root(f) /\ ~image[i].disk /\ image[i].key = 0 /\ image[i].family = 0
        BY <1>4, <4>1, ApartFacts
      <4>3. (\A g \in Families' : Root(g)' # i) /\ \A j \in Ids' : image'[j].key # i
        BY <1>1, <1>2, <4>1, <4>2, ApartFacts
      <4>4. i \in Ids => ~image'[i].disk /\ image'[i].key = 0 /\ image'[i].family = 0
        BY <1>1, <4>2
      <4>5. th'[t].pc # "stash"
        BY <1>3
      <4> QED BY <1>3, <2>2, <4>1, <4>3, <4>4, <4>5, ApartStays
    <3>3. /\ generation <= generation' /\ generation' \in Nat /\ th[u].pc # "register" /\ Ids \subseteq Ids'
          /\ \A j \in Ids : image'[j].label = image[j].label /\ (~image[j].open => ~image'[j].open)
      BY <1>1, <1>4, <1>5, <2>2
    <3> QED BY <3>1, <3>2, <3>3, OthersKeep
  <2> QED BY <2>1, <2>2 DEF RequestsInv
<1>13. MapsOfThisSession'
  <2>1. \A i \in Ids' : image'[i].open /\ image'[i].label \in Maps =>
            i \in Open /\ image[i].label \in Maps /\ image[i].gen = image'[i].gen
    BY <1>1, <1>4 DEF Open
  <2> QED BY <1>3, <2>1, MapsStay DEF IInv
<1> QED BY <1>6, <1>7, <1>8, <1>9, <1>10, <1>11, <1>12, <1>13 DEF IInv

LEMMA RegisterKeeps == ASSUME IInv, NEW t \in Threads, Register(t) PROVE IInv'
<1>1. PICK f, n : f = th[t].fam /\ n = NewId
  OBVIOUS
<1>2. th[t].pc = "register" /\ UNCHANGED <<generation, forceGen>>
  BY DEF Register, At
<1>3. PICK l \in th[t].todo :
          /\ th' = [th EXCEPT ![t].todo = @ \ {l}]
          /\ IF heap[f].members[l] \in th[t].live THEN UNCHANGED <<image, heap>>
             ELSE /\ image' = Append(image, [NewImage(l, FALSE) EXCEPT !.key = heap[f].root, !.of = f, !.gen = th[t].gen])
                  /\ heap' = [heap EXCEPT ![f].members[l] = n]
  BY <1>1 DEF Register
<1>4. CASE Members(f)[l] \in th[t].live
  BY <1>1, <1>2, <1>3, <1>4, SkipKeeps DEF Members
<1>5. CASE Members(f)[l] \notin th[t].live
  <2>1. TypeOK /\ f \in Families /\ l \in Labels /\ n \in Nat
    BY <1>1, <1>2, HeldFamily, NumbersFacts DEF IInv, RequestsInv, Request
  <2>2. heap' = [heap EXCEPT ![f].members[l] = n]
    BY <1>3, <1>5 DEF Members
  <2>3. PutMember(f, l, n)
    BY <2>1, <2>2, MemberPut
  <2>4. PICK k, g : k = heap[f].root /\ g = th[t].gen
    OBVIOUS
  <2>5. PICK r : r = [NewImage(l, FALSE) EXCEPT !.key = k, !.of = f, !.gen = g]
    OBVIOUS
  <2>6. image' = Append(image, r)
    BY <1>3, <1>5, <2>4, <2>5 DEF Members
  <2>7. l \in Labels /\ k = Root(f) /\ k \in Nat /\ g \in Nat /\ f \in Nat
    BY <2>1, <2>4, RangeFacts, NumbersFacts, RecordFacts DEF Root, Local
  <2>8. /\ r \in ImageRecord /\ r.label = l /\ r.open /\ ~r.disk /\ r.key = k
        /\ r.family = 0 /\ r.of = f /\ r.gen = g
    BY <2>5, <2>7 DEF NewImage, ImageRecord
  <2>9. Added(t, l, f, n)
    BY <1>1, <1>2, <1>3, <2>3, <2>4, <2>6, <2>7, <2>8, AddedFacts
  <2> QED BY <1>1, <1>2, <1>5, <2>9, AddKeeps
<1> QED BY <1>4, <1>5

---------------------------------------------------------------------------
\* Forgetting an image, and with its last member the family

\* Image i leaves family f.
Leaves(f, i) ==
    /\ heap' \in Seq(Family) /\ Families' = Families
    /\ \A g \in Families : Root(g)' = Root(g) /\ (g # f => Members(g)' = Members(g))
    /\ \A l \in Labels : /\ Members(f)[l] = i => Members(f)'[l] = 0
                         /\ Members(f)[l] # i => Members(f)'[l] = Members(f)[l]

LEMMA WithoutPut ==
    ASSUME TypeOK, NEW f \in Families, NEW i \in Ids,
           heap' = [heap EXCEPT ![f].members = Without(heap[f].members, i)]
    PROVE  Leaves(f, i)
<1> DEFINE o == [heap[f] EXCEPT !.members = Without(heap[f].members, i)]
<1>1. heap[f] \in Family
  BY RecordFacts
<1>2. /\ o \in Family /\ o.root = heap[f].root
      /\ \A l \in Labels : o.members[l] = IF heap[f].members[l] = i THEN 0 ELSE heap[f].members[l]
  BY <1>1 DEF Family, Without
<1>3. heap' = [heap EXCEPT ![f] = o]
  OBVIOUS
<1> HIDE DEF o
<1>4. /\ heap' \in Seq(Family) /\ Families' = Families /\ heap'[f] = o /\ \A g \in Families : g # f => heap'[g] = heap[g]
  BY <1>2, <1>3, PutFamily
<1>5. \A g \in Families : Root(g)' = Root(g) /\ (g # f => Members(g)' = Members(g))
  BY <1>2, <1>4 DEF Members, Root
<1>6. \A l \in Labels : Members(f)'[l] = IF Members(f)[l] = i THEN 0 ELSE Members(f)[l]
  BY <1>2, <1>4 DEF Members
<1> QED BY <1>4, <1>5, <1>6 DEF Leaves

\* Image i loses its key, and v is now the family of k.
Detached(i, k, v) ==
    /\ image' \in Seq(ImageRecord) /\ Ids' = Ids
    /\ \A j \in Ids : /\ image'[j].label = image[j].label /\ image'[j].open = image[j].open
                      /\ image'[j].disk = image[j].disk /\ image'[j].of = image[j].of
                      /\ image'[j].gen = image[j].gen
                      /\ j # i => image'[j].key = image[j].key
                      /\ j # k => image'[j].family = image[j].family
    /\ image'[i].key = 0 /\ image'[k].family = v

LEMMA DetachPut ==
    ASSUME TypeOK, NEW i \in Ids, NEW k \in Ids, NEW v \in Nat,
           image' = [image EXCEPT ![i].key = 0, ![k].family = v]
    PROVE  Detached(i, k, v)
<1> DEFINE r == [image[i] EXCEPT !.key = 0]
           s == [image EXCEPT ![i] = r]
           q == [s[k] EXCEPT !.family = v]
<1>1. image[i] \in ImageRecord /\ image \in Seq(ImageRecord) /\ i \in 1 .. Len(image) /\ k \in 1 .. Len(image)
  BY RecordFacts DEF TypeOK, Ids
<1>2. /\ r \in ImageRecord /\ r.key = 0 /\ r.label = image[i].label /\ r.open = image[i].open
      /\ r.disk = image[i].disk /\ r.family = image[i].family /\ r.of = image[i].of /\ r.gen = image[i].gen
  BY <1>1 DEF ImageRecord
<1>3. image' = [s EXCEPT ![k] = q]
  BY <1>1
<1> HIDE DEF r
<1>4. /\ s \in Seq(ImageRecord) /\ Len(s) = Len(image)
      /\ \A j \in 1 .. Len(image) : s[j] = IF j = i THEN r ELSE image[j]
  BY <1>1, <1>2, ExceptSeq
<1> HIDE DEF s
<1>5. s[k] \in ImageRecord
  BY <1>1, <1>4, ElementOfSeq
<1>6. /\ q \in ImageRecord /\ q.key = s[k].key /\ q.label = s[k].label /\ q.open = s[k].open
      /\ q.disk = s[k].disk /\ q.family = v /\ q.of = s[k].of /\ q.gen = s[k].gen
  BY <1>5 DEF ImageRecord
<1> HIDE DEF q
<1>7. /\ image' \in Seq(ImageRecord) /\ Len(image') = Len(image)
      /\ \A j \in 1 .. Len(image) : image'[j] = IF j = k THEN q ELSE s[j]
  <2>1. PICK z : z = [s EXCEPT ![k] = q]
    OBVIOUS
  <2>2. /\ z \in Seq(ImageRecord) /\ Len(z) = Len(s)
        /\ \A j \in 1 .. Len(s) : z[j] = IF j = k THEN q ELSE s[j]
    BY <1>1, <1>4, <1>6, <2>1, ExceptSeq
  <2> QED BY <1>3, <1>4, <2>1, <2>2
<1>8. Ids' = Ids /\ Ids = 1 .. Len(image)
  BY <1>7 DEF Ids
<1>9. ASSUME NEW j \in Ids
      PROVE  /\ image'[j].label = image[j].label /\ image'[j].open = image[j].open
             /\ image'[j].disk = image[j].disk /\ image'[j].of = image[j].of /\ image'[j].gen = image[j].gen
             /\ (j # i => image'[j].key = image[j].key) /\ (j = i => image'[j].key = 0)
             /\ (j # k => image'[j].family = image[j].family) /\ (j = k => image'[j].family = v)
  <2>1. s[j] = (IF j = i THEN r ELSE image[j]) /\ image'[j] = IF j = k THEN q ELSE s[j]
    BY <1>4, <1>7, <1>8
  <2>2. CASE j = i
    BY <1>2, <1>6, <2>1, <2>2
  <2>3. CASE j # i
    BY <1>6, <2>1, <2>3
  <2> QED BY <2>2, <2>3
<1> QED BY <1>7, <1>8, <1>9 DEF Detached

\* Thread t forgets image i of family f.
Forgets(t, i, k, f, v) ==
    /\ th[t].pc = "forget" /\ th[t].img = i /\ image[i].key = k /\ image[k].family = f
    /\ v \in {0, f} /\ (v = 0 <=> \A l \in Labels : Members(f)'[l] = 0)
    /\ Leaves(f, i) /\ Detached(i, k, v)

LEMMA DetachKeeps ==
    ASSUME IInv, NEW t \in Threads, LockFree, Answer(t), NEW i \in Ids, NEW k \in Ids, NEW f \in Families,
           NEW v, Forgets(t, i, k, f, v), UNCHANGED <<generation, forceGen>>
    PROVE  IInv'
<1>0. /\ th[t].pc = "forget" /\ th[t].img = i /\ image[i].key = k /\ image[k].family = f
      /\ (v = 0 \/ v = f) /\ (v = 0 <=> \A l \in Labels : Members(f)'[l] = 0)
  BY DEF Forgets
<1>1. /\ heap' \in Seq(Family) /\ Families' = Families
      /\ \A g \in Families : Root(g)' = Root(g) /\ (g # f => Members(g)' = Members(g))
      /\ \A l \in Labels : /\ Members(f)[l] = i => Members(f)'[l] = 0
                           /\ Members(f)[l] # i => Members(f)'[l] = Members(f)[l]
  BY DEF Forgets, Leaves
<1>2. /\ image' \in Seq(ImageRecord) /\ Ids' = Ids
      /\ \A j \in Ids : /\ image'[j].label = image[j].label /\ image'[j].open = image[j].open
                        /\ image'[j].disk = image[j].disk /\ image'[j].of = image[j].of
                        /\ image'[j].gen = image[j].gen
                        /\ j # i => image'[j].key = image[j].key
                        /\ j # k => image'[j].family = image[j].family
      /\ image'[i].key = 0 /\ image'[k].family = v
  BY DEF Forgets, Detached
<1>3. /\ Moves(t) /\ th'[t] = Idle /\ generation' = generation /\ forceGen' = forceGen
      /\ generation \in Nat /\ forceGen \in Nat /\ \A u \in Threads : th[u].pc # "register"
      /\ TypeOK /\ ~Holds(t)' /\ th'[t].pc # "stash"
  BY AnswerFacts, IdleFacts DEF IInv, TypeOK, LockFree, At, Holds
<1>4. ~image[i].open /\ ~image[i].disk /\ f # 0 /\ Root(f) = k
  BY <1>0, <1>3, ZeroFree DEF IInv, RequestsInv, Request, ImagesInv, At
<1>5. /\ \A j : j # i => (Forgetting(j) => Forgetting(j)')
      /\ Resetting => Resetting'
      /\ Resetting' => Resetting
  BY <1>0, <1>3, IdleFacts DEF Forgetting, Resetting, Moves, At
<1>6. \A g \in Families : ~Resetting /\ Tracked(g) => Tidy(g)
  BY DEF IInv, TidyInv
\* A tracked family other than f does not have the image.
<1>7. ASSUME NEW g \in Families, g # f, Tracked(g), ~Resetting
      PROVE  \A l \in Labels : Members(g)[l] # i
  <2>1. \A l \in Labels, j \in Ids : Members(g)[l] = j => image[Root(g)].family = g /\ image[j].key = Root(g)
    BY <1>6, <1>7 DEF Tidy
  <2> QED BY <1>0, <1>7, <2>1
<1>8. TypeOK'
  <2>1. \A j \in Ids' : /\ image'[j].key \in Ids' \cup {0} /\ image'[j].family \in Families' \cup {0}
                        /\ image'[j].of \in Families' \cup {0}
    BY <1>0, <1>1, <1>2, <1>3, RangeFacts
  <2>2. \A g \in Families' : Root(g)' \in Ids' /\ \A l \in Labels : Members(g)'[l] \in Ids' \cup {0}
    BY <1>0, <1>1, <1>2, <1>3, RangeFacts
  <2>3. \A u \in Threads : /\ th'[u].img \in Ids' \cup {0} /\ th'[u].fam \in Families' \cup {0}
                           /\ th'[u].live \subseteq Ids'
    BY <1>1, <1>2, <1>3, RangeFacts, IdleFacts DEF Moves
  <2>4. th' \in [Threads -> Local] /\ generation' \in Nat /\ forceGen' \in Nat
    BY <1>3 DEF Moves
  <2> QED BY <1>1, <1>2, <2>1, <2>2, <2>3, <2>4, TypeParts
<1>9. ImagesInv'
  <2> SUFFICES ASSUME NEW j \in Ids
               PROVE  /\ ~image'[j].open => ~image'[j].disk /\ image'[j].of = 0
                      /\ image'[j].of # 0 => image'[j].label \in Labels /\ image'[j].gen <= generation
                      /\ image'[j].disk => image'[j].key \in {0, j}
                      /\ image'[j].disk /\ image'[j].key = 0 => image'[j].family = 0
                      /\ image'[j].family # 0 => heap'[image'[j].family].root = j
    BY <1>2, <1>3 DEF ImagesInv, Root
  <2>1. image[j].family # 0 => heap'[image[j].family].root = j
    BY <1>1, <1>3, RangeFacts DEF IInv, ImagesInv, Root
  <2>2. image[j].disk => image'[j].key = image[j].key
    BY <1>2, <1>4
  <2> QED BY <1>0, <1>2, <1>4, <2>1, <2>2 DEF IInv, ImagesInv
<1>10. MembersInv' /\ LinksInv'
  <2> SUFFICES ASSUME NEW j \in Ids, image'[j].open, image'[j].of # 0
               PROVE  /\ heap'[image'[j].of].members[image'[j].label] = j
                      /\ image'[j].gen = generation =>
                            image'[j].key # 0 /\ image'[image'[j].key].family = image'[j].of
    BY <1>2, <1>3 DEF MembersInv, LinksInv, Open, Members
  <2>1. /\ image[j].of \in Families /\ j \in Open /\ image[j].of # 0 /\ image[j].key \in Ids \cup {0} /\ j # i
        /\ image[j].label \in Labels /\ image'[j].of = image[j].of /\ image'[j].label = image[j].label
        /\ image'[j].key = image[j].key /\ image'[j].gen = image[j].gen
    BY <1>2, <1>3, <1>4, RangeFacts DEF IInv, ImagesInv, Open
  <2>2. Members(image[j].of)[image[j].label] = j /\ j # 0
    BY <2>1, ZeroFree DEF IInv, MembersInv
  <2>3. Members(image[j].of)'[image[j].label] = j
    BY <1>1, <2>1, <2>2
  <2>4. ASSUME image[j].gen = generation
        PROVE  image[j].key # 0 /\ image'[image[j].key].family = image[j].of
    <3>1. image[j].key # 0 /\ image[image[j].key].family = image[j].of /\ image[j].key \in Ids
      BY <2>1, <2>4 DEF IInv, LinksInv
    <3>2. image[j].key = k => v = f
      BY <1>0, <2>1, <2>2, <2>3, <3>1
    <3>3. CASE image[j].key = k
      BY <1>0, <1>2, <3>1, <3>2, <3>3
    <3>4. CASE image[j].key # k
      BY <1>2, <3>1, <3>4
    <3> QED BY <3>3, <3>4
  <2> QED BY <2>1, <2>3, <2>4 DEF Members
<1>11. TidyInv'
  <2> SUFFICES ASSUME ~Resetting', NEW g \in Families', Tracked(g)' PROVE Tidy(g)'
    BY DEF TidyInv
  <2>1. g \in Families /\ ~Resetting /\ g # 0
    BY <1>1, <1>5, ZeroFree
  <2>2. Tracked(g)
    <3>1. \A j \in Ids' : image'[j].family = g => Tracked(g)
      BY <1>0, <1>2, <2>1 DEF Tracked
    <3> QED BY <1>3, <3>1, TrackedBefore
  <2>3. Tidy(g) /\ Root(g) \in Ids /\ Root(g)' = Root(g)
    BY <1>1, <1>3, <1>6, <2>1, <2>2, RangeFacts
  <2> SUFFICES ASSUME NEW l \in Labels, NEW j \in Ids, Members(g)'[l] = j
               PROVE  image'[Root(g)'].family = g /\ image'[j].key = Root(g)' /\ (image'[j].open \/ Forgetting(j)')
    BY <1>2 DEF Tidy
  <2>4. Members(g)[l] = j /\ j # i /\ j # 0
    BY <1>1, <1>7, <2>1, <2>2, ZeroFree
  <2>5. image[Root(g)].family = g /\ image[j].key = Root(g) /\ (image[j].open \/ Forgetting(j))
    BY <2>3, <2>4 DEF Tidy
  <2>6. Root(g) = k => v = g
    BY <1>0, <1>1, <2>1, <2>4, <2>5
  <2> QED BY <1>2, <1>5, <2>3, <2>4, <2>5, <2>6
<1>12. RootsInv'
  <2>1. \A j \in Ids : image'[j].disk => image[j].disk /\ image'[j].key = image[j].key
    BY <1>2, <1>4
  <2> QED BY <1>1, <1>3, <2>1, RootsKeep
<1>13. NotLeakedInv'
  <2> SUFFICES ASSUME NEW j \in Ids, NEW g, g = image'[j].family, g # 0 PROVE Kept(g)'
    BY <1>2 DEF NotLeakedInv
  <2>1. image[j].family = g /\ g \in Families /\ (j = k => v = f)
    BY <1>0, <1>2, <1>3, RangeFacts
  <2>2. Kept(g) /\ Tracked(g)
    BY <1>3, <2>1 DEF IInv, NotLeakedInv, At, Tracked
  <2>3. CASE Resetting
    BY <1>5, <2>3 DEF Kept
  <2>4. CASE ~Resetting /\ g = f
    <3>1. j = k
      BY <1>4, <2>1, <2>4 DEF IInv, ImagesInv
    <3>2. PICK l \in Labels : Members(f)'[l] # 0
      BY <1>0, <1>4, <2>1, <3>1
    <3>3. PICK m : m = Members(f)[l]
      OBVIOUS
    <3>4. m \in Ids /\ m # i /\ Members(f)'[l] = m /\ (image[m].open \/ Forgetting(m))
      <4>1. m # i /\ Members(f)'[l] = m
        BY <1>1, <3>2, <3>3
      <4>2. m \in Ids
        BY <1>3, <3>2, <3>3, <4>1, RangeFacts
      <4> QED BY <1>6, <2>2, <2>4, <3>3, <4>1, <4>2 DEF Tidy
    <3>5. Members(f)'[l] = m /\ m \in Ids' /\ (image'[m].open \/ Forgetting(m)')
      BY <1>2, <1>5, <3>4
    <3> QED BY <2>4, <3>5 DEF Kept
  <2>5. CASE ~Resetting /\ g # f
    <3>1. PICK l \in Labels, m \in Ids : Members(g)[l] = m /\ (image[m].open \/ Forgetting(m))
      BY <2>2, <2>5 DEF Kept
    <3>2. m # i
      BY <1>7, <2>1, <2>2, <2>5, <3>1
    <3>3. Members(g)'[l] = m /\ m \in Ids' /\ (image'[m].open \/ Forgetting(m)')
      BY <1>1, <1>2, <1>5, <2>1, <2>5, <3>1, <3>2
    <3> QED BY <3>3 DEF Kept
  <2> QED BY <2>3, <2>4, <2>5
<1>14. RequestsInv'
  <2>1. Request(t)'
    BY <1>3, IdleFacts DEF Request, At
  <2>2. ASSUME NEW u \in Threads, u # t PROVE Request(u)'
    <3>1. th'[u] = th[u]
      BY <1>3, <2>2 DEF Moves
    <3>2. th[u].pc = "stash" => Apart(u)'
      <4> SUFFICES ASSUME th[u].pc = "stash" PROVE Apart(u)'
        OBVIOUS
      <4>1. PICK m : m = th[u].img
        OBVIOUS
      <4>2. m # 0 /\ ~image[m].disk /\ image[m].key = 0 /\ image[m].family = 0
        BY <4>1, ApartFacts
      <4>3. (\A g \in Families' : Root(g)' # m) /\ \A j \in Ids' : image'[j].key # m
        BY <1>1, <1>2, <4>1, <4>2, ApartFacts
      <4>4. m \in Ids => ~image'[m].disk /\ image'[m].key = 0 /\ image'[m].family = 0
        BY <1>0, <1>2, <1>4, <4>2
      <4> QED BY <1>3, <2>2, <4>1, <4>3, <4>4, ApartStays
    <3>3. /\ generation <= generation' /\ generation' \in Nat /\ th[u].pc # "register" /\ Ids \subseteq Ids'
          /\ \A j \in Ids : image'[j].label = image[j].label /\ (~image[j].open => ~image'[j].open)
      BY <1>2, <1>3
    <3> QED BY <1>3, <3>1, <3>2, <3>3, OthersKeep
  <2> QED BY <2>1, <2>2 DEF RequestsInv
<1>15. MapsOfThisSession'
  <2>1. \A j \in Ids' : image'[j].open /\ image'[j].label \in Maps =>
            j \in Open /\ image[j].label \in Maps /\ image[j].gen = image'[j].gen
    BY <1>2 DEF Open
  <2> QED BY <1>0, <1>3, <2>1, MapsStay DEF IInv
<1> QED BY <1>8, <1>9, <1>10, <1>11, <1>12, <1>13, <1>14, <1>15 DEF IInv

LEMMA ForgetKeeps == ASSUME IInv, NEW t \in Threads, Forget(t) PROVE IInv'
<1>1. PICK i : i = th[t].img
  OBVIOUS
<1>2. PICK k : k = image[i].key
  OBVIOUS
<1>3. PICK f : f = IF k = 0 THEN 0 ELSE image[k].family
  OBVIOUS
<1>4. th[t].pc = "forget" /\ LockFree /\ Answer(t) /\ UNCHANGED <<generation, forceGen>>
  BY DEF Forget, At
<1>5. TypeOK /\ i \in Ids /\ ~image[i].disk
  BY <1>1, <1>4, RangeFacts DEF IInv, RequestsInv, Request, ImagesInv, At
<1>6. CASE f = 0
  <2>1. image' = [image EXCEPT ![i].key = 0] /\ UNCHANGED heap
    BY <1>1, <1>2, <1>3, <1>6 DEF Forget
  <2>2. image[i].key = 0 \/ image[image[i].key].family = 0
    BY <1>2, <1>3, <1>6
  <2> QED BY <1>1, <1>4, <1>5, <2>1, <2>2, UnkeyKeeps
<1>7. CASE f # 0
  <2>1. k \in Ids /\ f = image[k].family /\ f \in Families
    BY <1>2, <1>3, <1>5, <1>7, RangeFacts
  <2>2. PICK left : left = Without(heap[f].members, i)
    OBVIOUS
  <2>3. /\ heap' = [heap EXCEPT ![f].members = Without(heap[f].members, i)]
        /\ image' = [image EXCEPT ![i].key = 0, ![k].family = IF Nobody(left) THEN 0 ELSE @]
    BY <1>1, <1>2, <1>3, <1>7, <2>2 DEF Forget
  <2>4. PICK v : v = IF Nobody(left) THEN 0 ELSE f
    OBVIOUS
  <2>5. image' = [image EXCEPT ![i].key = 0, ![k].family = v]
    <3>1. image[i] \in ImageRecord /\ image[k] \in ImageRecord
      BY <1>5, <2>1, RecordFacts
    <3>2. [image EXCEPT ![i].key = 0][k].family = f
      BY <1>5, <2>1, <3>1 DEF TypeOK, ImageRecord
    <3> QED BY <2>3, <2>4, <3>2
  <2>6. v \in {0, f} /\ f \in Nat /\ f # 0 /\ v \in Nat
    BY <1>5, <1>7, <2>1, <2>4, NumbersFacts
  <2>7. Leaves(f, i) /\ Detached(i, k, v)
    BY <1>5, <2>1, <2>3, <2>5, <2>6, WithoutPut, DetachPut
  <2>8. v = 0 <=> \A l \in Labels : Members(f)'[l] = 0
    <3>1. \A l \in Labels : left[l] = IF Members(f)[l] = i THEN 0 ELSE Members(f)[l]
      BY <2>2 DEF Without, Members
    <3>2. \A l \in Labels : Members(f)'[l] = left[l]
      BY <2>7, <3>1 DEF Leaves
    <3> QED BY <2>4, <2>6, <3>2 DEF Nobody
  <2>9. Forgets(t, i, k, f, v)
    BY <1>1, <1>2, <1>4, <2>1, <2>6, <2>7, <2>8 DEF Forgets
  <2> QED BY <1>4, <1>5, <2>1, <2>9, DetachKeeps
<1> QED BY <1>6, <1>7

---------------------------------------------------------------------------
\* Another session begins: no family is attached, no request is of this session

LEMMA ResetKeeps == ASSUME IInv, NEW t \in Threads, Reset(t) PROVE IInv'
<1>1. /\ th[t].pc = "reset" /\ LockFree /\ Goto(t, "restore") /\ heap' = heap /\ forceGen' = forceGen
      /\ generation' = generation + 1
  BY DEF Reset, At
<1>2. /\ TypeOK /\ generation \in Nat /\ forceGen \in Nat /\ \A u \in Threads : th[u].pc # "register"
  BY <1>1 DEF IInv, TypeOK, LockFree, At
<1>3. /\ image' \in Seq(ImageRecord) /\ Ids' = Ids
      /\ \A i \in Ids : /\ image'[i].label = image[i].label /\ image'[i].open = image[i].open
                        /\ image'[i].disk = image[i].disk /\ image'[i].of = image[i].of
                        /\ image'[i].gen = image[i].gen /\ image'[i].key = 0 /\ image'[i].family = 0
  <2>1. image' = [i \in Ids |-> [image[i] EXCEPT !.key = 0, !.family = 0]]
    BY DEF Reset
  <2>2. \A i \in Ids : image[i] \in ImageRecord
    BY <1>2, RecordFacts
  <2>3. \A i \in Ids : [image[i] EXCEPT !.key = 0, !.family = 0] \in ImageRecord
    BY <2>2 DEF ImageRecord
  <2>4. image' \in [1 .. Len(image) -> ImageRecord] /\ Len(image) \in Nat
    BY <1>2, <2>1, <2>3, NumbersFacts DEF Ids
  <2>5. image' \in Seq(ImageRecord) /\ Len(image') = Len(image)
    BY <2>4
  <2>6. \A i \in Ids : /\ image'[i].label = image[i].label /\ image'[i].open = image[i].open
                       /\ image'[i].disk = image[i].disk /\ image'[i].of = image[i].of
                       /\ image'[i].gen = image[i].gen /\ image'[i].key = 0 /\ image'[i].family = 0
    BY <2>1, <2>2 DEF ImageRecord
  <2> QED BY <2>5, <2>6 DEF Ids
<1>4. /\ Moves(t) /\ th'[t].pc = "restore" /\ th'[t].img = th[t].img /\ th'[t].fam = th[t].fam
      /\ th'[t].live = th[t].live
  BY <1>1, <1>2, GotoFacts DEF Places
<1>5. /\ heap' \in Seq(Family) /\ Families' = Families
      /\ \A f \in Families : Root(f)' = Root(f) /\ Members(f)' = Members(f)
  BY <1>1, <1>2, SameHeap DEF SameFamilies
<1>6. /\ generation <= generation' /\ generation' \in Nat
      /\ \A i \in Ids : image[i].gen \in Nat /\ (image[i].gen <= generation => image[i].gen <= generation')
  BY <1>1, <1>2, RecordFacts DEF ImageRecord
<1>7. \A u \in Threads : ~Holds(u)'
  <2>1. ASSUME NEW u \in Threads, u # t, Holds(u)' PROVE FALSE
    <3>1. th[u].gen <= generation /\ th[u].gen = generation + 1 /\ th[u] \in Local
      BY <1>1, <1>2, <1>4, <2>1, RecordFacts DEF Moves, Holds, IInv, RequestsInv, Request
    <3> QED BY <1>2, <3>1 DEF Local
  <2> QED BY <1>4, <2>1 DEF Holds
<1>8. TypeOK'
  <2>1. \A j \in Ids' : /\ image'[j].key \in Ids' \cup {0} /\ image'[j].family \in Families' \cup {0}
                        /\ image'[j].of \in Families' \cup {0}
    BY <1>2, <1>3, <1>5, RangeFacts
  <2>2. \A g \in Families' : Root(g)' \in Ids' /\ \A l \in Labels : Members(g)'[l] \in Ids' \cup {0}
    BY <1>2, <1>3, <1>5, RangeFacts
  <2>3. \A u \in Threads : /\ th'[u].img \in Ids' \cup {0} /\ th'[u].fam \in Families' \cup {0}
                           /\ th'[u].live \subseteq Ids'
    BY <1>2, <1>3, <1>4, <1>5, RangeFacts DEF Moves
  <2>4. th' \in [Threads -> Local] /\ generation' \in Nat /\ forceGen' \in Nat
    BY <1>1, <1>2, <1>4, <1>6 DEF Moves
  <2> QED BY <1>3, <1>5, <2>1, <2>2, <2>3, <2>4, TypeParts
<1>9. ImagesInv'
  <2> SUFFICES ASSUME NEW j \in Ids
               PROVE  /\ ~image'[j].open => ~image'[j].disk /\ image'[j].of = 0
                      /\ image'[j].of # 0 => image'[j].label \in Labels /\ image'[j].gen <= generation'
                      /\ image'[j].disk => image'[j].key \in {0, j}
                      /\ image'[j].disk /\ image'[j].key = 0 => image'[j].family = 0
                      /\ image'[j].family # 0 => heap'[image'[j].family].root = j
    BY <1>3 DEF ImagesInv, Root
  <2> QED BY <1>3, <1>6 DEF IInv, ImagesInv
<1>10. MembersInv'
  <2> SUFFICES ASSUME NEW j \in Ids, image'[j].open, image'[j].of # 0
               PROVE  heap'[image'[j].of].members[image'[j].label] = j
    BY <1>3 DEF MembersInv, Open, Members
  <2>1. image[j].of \in Families /\ j \in Open /\ image[j].of # 0
    BY <1>2, <1>3, RangeFacts DEF Open
  <2> QED BY <1>3, <1>5, <2>1 DEF IInv, MembersInv, Members
<1>11. LinksInv'
  <2> SUFFICES ASSUME NEW j \in Ids, image'[j].of # 0, image'[j].gen = generation' PROVE FALSE
    BY <1>3 DEF LinksInv, Open
  <2>1. image[j].gen <= generation /\ image[j].gen = generation + 1
    BY <1>1, <1>3 DEF IInv, ImagesInv
  <2> QED BY <1>2, <1>6, <2>1
<1>12. TidyInv'
  BY <1>3, <1>7, ZeroFree DEF TidyInv, Tracked
<1>13. RootsInv'
  BY <1>7 DEF RootsInv
<1>14. NotLeakedInv'
  BY <1>3 DEF NotLeakedInv
<1>15. RequestsInv'
  <2>1. Request(t)'
    BY <1>4 DEF Request, At
  <2>2. ASSUME NEW u \in Threads, u # t PROVE Request(u)'
    <3>1. th'[u] = th[u]
      BY <1>4, <2>2 DEF Moves
    <3>2. th[u].pc = "stash" => Apart(u)'
      <4> SUFFICES ASSUME th[u].pc = "stash" PROVE Apart(u)'
        OBVIOUS
      <4>1. PICK m : m = th[u].img
        OBVIOUS
      <4>2. m # 0 /\ ~image[m].disk
        BY <4>1, ApartFacts
      <4>3. (\A g \in Families' : Root(g)' # m) /\ \A j \in Ids' : image'[j].key # m
        BY <1>3, <1>5, <4>1, <4>2, ApartFacts
      <4>4. m \in Ids => ~image'[m].disk /\ image'[m].key = 0 /\ image'[m].family = 0
        BY <1>3, <4>2
      <4>5. th'[t].pc # "stash"
        BY <1>4
      <4> QED BY <1>4, <2>2, <4>1, <4>3, <4>4, <4>5, ApartStays
    <3>3. generation <= generation' /\ generation' \in Nat /\ forceGen' = forceGen
      BY <1>1, <1>6
    <3>4. /\ th[u].pc # "register" /\ Ids \subseteq Ids'
          /\ \A j \in Ids : image'[j].label = image[j].label /\ (~image[j].open => ~image'[j].open)
      BY <1>2, <1>3
    <3> QED BY <3>1, <3>2, <3>3, <3>4, OthersKeep
  <2> QED BY <2>1, <2>2 DEF RequestsInv
<1>16. MapsOfThisSession'
  <2>1. \A j \in Ids' : image'[j].open /\ image'[j].label \in Maps =>
            j \in Open /\ image[j].label \in Maps /\ image[j].gen = image'[j].gen
    BY <1>3 DEF Open
  <2>2. th[t].pc # "clear" /\ forceGen' = forceGen
    BY <1>1
  <2> QED BY <1>4, <2>1, <2>2, MapsStay DEF IInv
<1> QED BY <1>8, <1>9, <1>10, <1>11, <1>12, <1>13, <1>14, <1>15, <1>16 DEF IInv

---------------------------------------------------------------------------
\* The invariant holds in every reachable state

LEMMA InitIInv == Init => IInv
<1> SUFFICES ASSUME Init PROVE IInv
  OBVIOUS
<1>1. /\ image = <<>> /\ heap = <<>> /\ generation = 0 /\ forceGen = 0 /\ th = [t \in Threads |-> Idle]
      /\ Ids = {} /\ Families = {} /\ Open = {}
  BY DEF Init, Ids, Families, Open
<1>2. \A t \in Threads : th[t] = Idle
  BY <1>1
<1>3. TypeOK
  BY <1>1, <1>2, IdleFacts DEF TypeOK
<1>4. RequestsInv
  BY <1>2, IdleFacts DEF RequestsInv, Request, At
<1>5. ImagesInv /\ MembersInv /\ LinksInv /\ TidyInv /\ NotLeakedInv /\ MapsOfThisSession
  BY <1>1 DEF ImagesInv, MembersInv, LinksInv, TidyInv, NotLeakedInv, MapsOfThisSession
<1>6. RootsInv
  BY <1>2, IdleFacts DEF RootsInv, Holds
<1> QED BY <1>3, <1>4, <1>5, <1>6 DEF IInv

LEMMA StepKeeps == IInv /\ Next => IInv'
<1> SUFFICES ASSUME IInv, NEW t \in Threads, Ask(t) \/ Move(t) PROVE IInv'
  BY DEF Next
<1>1. CASE Ask(t)
  BY <1>1, OpenScanKeeps, UploadKeeps, AskChannelsKeeps, AskListKeeps, CloseImageKeeps, ClearForceKeeps,
     AppendProjectKeeps, AskMapsKeeps DEF Ask
<1>2. CASE Move(t)
  BY <1>2, FindFamilyKeeps, TakeOpeningKeeps, ReadChannelsKeeps, CheckKeeps, RegisterKeeps, RegisteredKeeps,
     StashKeeps, ForgetKeeps, ClearStoreKeeps, ResetKeeps, RestoreKeeps, MapsEndKeeps, AddMapKeeps DEF Move
<1> QED BY <1>1, <1>2

LEMMA StutterKeeps == IInv /\ UNCHANGED vars => IInv'
<1> SUFFICES ASSUME IInv, UNCHANGED vars PROVE IInv'
  OBVIOUS
<1> USE DEF vars, Ids, Families, Open, At, Root, Members, Forgetting, Resetting, Holds
<1>1. TypeOK'
  BY DEF IInv, TypeOK
<1>2. ImagesInv' /\ MembersInv' /\ LinksInv' /\ RootsInv' /\ MapsOfThisSession'
  BY DEF IInv, ImagesInv, MembersInv, LinksInv, RootsInv, MapsOfThisSession
<1>3. TidyInv'
  BY DEF IInv, TidyInv, Tracked, Tidy
<1>4. NotLeakedInv'
  BY DEF IInv, NotLeakedInv, Kept
<1>5. RequestsInv'
  BY DEF IInv, RequestsInv, Request, Apart, Registers, Kept
<1> QED BY <1>1, <1>2, <1>3, <1>4, <1>5 DEF IInv

LEMMA Invariance == Spec => []IInv
<1>1. IInv /\ [Next]_vars => IInv'
  BY StepKeeps, StutterKeeps
<1> QED BY InitIInv, <1>1, PTL DEF Spec

\* The tables only name images and families that were made, however the
\* requests of the server's threads overlap (routes/afm.py, session_force.py).
THEOREM TypeCorrect == Spec => []TypeOK
<1>1. IInv => TypeOK
  BY DEF IInv
<1> QED BY <1>1, Invariance, PTL

\* _register_channels shows no channel of a family twice: the open images of a
\* family are its members, and it has one member for each channel.
THEOREM ChannelsOnce == Spec => []OneImagePerChannel
<1>1. IInv => OneImagePerChannel
  <2> SUFFICES ASSUME IInv, NEW i \in Open, NEW j \in Open, image[i].of # 0,
                      image[i].of = image[j].of, image[i].label = image[j].label
               PROVE  i = j
    BY DEF OneImagePerChannel
  <2> QED BY DEF IInv, MembersInv
<1> QED BY <1>1, Invariance, PTL

\* _member_of and _families lead from every open channel of this session to
\* its family, whatever was closed while the channel was read.
THEOREM ChannelsLeadToFamily == Spec => []LeadsToFamily
<1>1. IInv => LeadsToFamily
  BY DEF IInv, MembersInv, LinksInv, LeadsToFamily, Members
<1> QED BY <1>1, Invariance, PTL

\* forget leaves no family in _families without an image: the cached channels
\* of an upload go with the last image that shows them.
THEOREM FamiliesCleaned == Spec => []FamiliesNotLeaked
<1>1. IInv => FamiliesNotLeaked
  <2> SUFFICES ASSUME IInv, NEW k \in Ids, NEW f, f = image[k].family, f # 0
               PROVE  \/ \E l \in Labels :
                            LET i == heap[f].members[l]
                            IN  i # 0 /\ (image[i].open \/ \E t \in Threads : At(t, "forget") /\ th[t].img = i)
                      \/ \E t \in Threads : At(t, "register") /\ th[t].fam = f
                      \/ \E t \in Threads : At(t, "reset")
    BY DEF FamiliesNotLeaked
  <2>1. Kept(f) \/ \E t \in Threads : At(t, "register") /\ th[t].fam = f
    BY DEF IInv, NotLeakedInv
  <2>2. CASE Kept(f)
    BY <2>2, ZeroFree DEF Kept, Members, Forgetting, Resetting
  <2> QED BY <2>1, <2>2
<1> QED BY <1>1, Invariance, PTL

\* register_maps under ForceStore._lock with if_generation: no map of a force
\* file of an earlier session is shown in this one.
THEOREM MapsBelong == Spec => []MapsOfThisSession
<1>1. IInv => MapsOfThisSession
  BY DEF IInv
<1> QED BY <1>1, Invariance, PTL

=============================================================================
