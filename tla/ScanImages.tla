----------------------------- MODULE ScanImages -----------------------------
(***************************************************************************)
(* The images a request registers in the session after a slow read: the    *)
(* channels of an AFM scan (routes/afm.py) and the maps of a force file    *)
(* (session_force.py).  Meanwhile images close, and a project that is      *)
(* opened replaces the session: each of the two stores has a generation    *)
(* for that, and a lock under which it is compared.                        *)
(*                                                                         *)
(* An image is its id, given in order; 0 is none.  A family is the scan an *)
(* image belongs to: an object of `heap`, found from an image through the  *)
(* tables _member_of and _families.                                        *)
(***************************************************************************)
EXTENDS Naturals, Sequences, FiniteSets

CONSTANTS Threads,       \* the server's request threads
          NoThread,
          Labels,        \* the channels of a scan file
          Shown,         \* the channel that opening the file shows
          Maps,          \* the maps of a force file
          MaxScans,      \* bound: a scan is opened only below this many ids
          MaxImages,     \* bound: and its channels below this many
          MaxReplaced    \* bound: how often a project replaces the session

ASSUME ShownAssumption == Shown \in Labels /\ Labels \cap Maps = {}
ASSUME NoThreadAssumption == NoThread \notin Threads
ASSUME BoundAssumption == MaxImages \in Nat /\ MaxReplaced \in Nat

VARIABLES
    image,       \* per id given so far: see ImageRecord
    heap,        \* the _Family objects made so far
    generation,  \* afm._generation
    forceGen,    \* ForceStore._generation
    th           \* per thread: where its request is, and the request's locals

vars == <<image, heap, generation, forceGen, th>>

Ids == 1 .. Len(image)
Families == 1 .. Len(heap)
Open == {i \in Ids : image[i].open}
\* The session's tables by image id, and two notes for the properties:
\* the family the image was registered in and the generation of its request.
ImageRecord ==
    [label : Labels \cup Maps,
     open : BOOLEAN,          \* in SessionStore._images
     disk : BOOLEAN,          \* in SessionStore._paths
     key : Nat,               \* _member_of
     family : Nat,            \* _families
     of : Nat, gen : Nat]
Family == [source : {"disk", "upload"}, root : Nat, members : [Labels -> Nat],
           opening : Threads \cup {NoThread}]
Places == {"idle", "family", "opening", "read", "check", "register", "stash", "forget",
           "clear", "reset", "restore", "commit", "maps"}
Local ==
    [pc : Places, img : Nat, gen : Nat, fam : Nat, live : SUBSET Nat, todo : SUBSET (Labels \cup Maps)]
Idle == [pc |-> "idle", img |-> 0, gen |-> 0, fam |-> 0, live |-> {}, todo |-> {}]

\* A number is that of an image or a family that was made, or none.
TypeOK ==
    /\ image \in Seq(ImageRecord) /\ heap \in Seq(Family) /\ th \in [Threads -> Local]
    /\ generation \in Nat /\ forceGen \in Nat
    /\ \A i \in Ids : /\ image[i].key \in Ids \cup {0}
                      /\ {image[i].family, image[i].of} \subseteq Families \cup {0}
    /\ \A f \in Families :
          heap[f].root \in Ids /\ \A l \in Labels : heap[f].members[l] \in Ids \cup {0}
    /\ \A t \in Threads :
          th[t].img \in Ids \cup {0} /\ th[t].fam \in Families \cup {0} /\ th[t].live \subseteq Ids

Init ==
    /\ image = <<>> /\ heap = <<>> /\ generation = 0 /\ forceGen = 0
    /\ th = [t \in Threads |-> Idle]

At(t, pc) == th[t].pc = pc
Goto(t, pc) == th' = [th EXCEPT ![t].pc = pc]
Answer(t) == th' = [th EXCEPT ![t] = Idle]
\* afm._lock and ForceStore._lock are held for more than a step only while
\* images are registered.
LockFree == \A t \in Threads : ~At(t, "register")
ForceLockFree == \A t \in Threads : ~At(t, "maps")

NewImage(label, disk) ==
    [label |-> label, open |-> TRUE, disk |-> disk, key |-> 0, family |-> 0, of |-> 0, gen |-> 0]
NewId_Skips == Len(image) + 2
NewId == Len(image) + 1
Room == Len(image) < MaxImages
Replacing == {t \in Threads : th[t].pc \in {"clear", "reset"}}

---------------------------------------------------------------------------
\* Requests

\* A scan opened from disk: its file is read before anything is registered.
OpenScan(t) ==
    /\ At(t, "idle") /\ Len(image) < MaxScans
    /\ image' = Append(image, NewImage(Shown, TRUE))
    /\ UNCHANGED <<heap, generation, forceGen, th>>

\* A scan uploaded: add_parsed, then stash_upload_channels.
Upload(t) ==
    /\ At(t, "idle") /\ Len(image) < MaxScans
    /\ image' = Append(image, NewImage(Shown, FALSE))
    /\ th' = [th EXCEPT ![t].pc = "stash", ![t].img = NewId]
    /\ UNCHANGED <<heap, generation, forceGen>>

\* open_other_channels; the picker asks for some channels, the menu for all.
\* The image was open when _require_spm looked, and may be closed by now.
AskChannels(t) ==
    /\ At(t, "idle") /\ Room /\ LockFree
    /\ \E i \in Ids, want \in (SUBSET Labels) \ {{}} :
          /\ image[i].label \in Labels
          /\ th' = [th EXCEPT ![t] = [Idle EXCEPT !.pc = "family", !.img = i, !.todo = want,
                                                 !.gen = generation]]
    /\ UNCHANGED <<image, heap, generation, forceGen>>

\* list_channels: the same way to the family and its channels, and no more.
AskList(t) ==
    /\ At(t, "idle")
    /\ \E i \in Ids : image[i].label \in Labels /\ th' = [th EXCEPT ![t].pc = "family", ![t].img = i]
    /\ UNCHANGED <<image, heap, generation, forceGen>>

\* A force file that is open is analysed: force_store.entry takes the file and
\* the generation together.  Files open and close without touching the images.
AskMaps(t) ==
    /\ At(t, "idle") /\ Room /\ ForceLockFree
    /\ th' = [th EXCEPT ![t].pc = "commit", ![t].gen = forceGen, ![t].todo = Maps]
    /\ UNCHANGED <<image, heap, generation, forceGen>>

---------------------------------------------------------------------------
\* open_other_channels

\* _join: a family rooted at image i.
Join(i, source) ==
    /\ heap' = Append(heap, [source |-> source, root |-> i, opening |-> NoThread,
                             members |-> [l \in Labels |-> IF l = image[i].label THEN i ELSE 0]])
    /\ image' = [image EXCEPT ![i].key = i, ![i].family = Len(heap) + 1,
                              ![i].of = Len(heap) + 1, ![i].gen = generation]

\* _family: the image's family, or a new one if its file is known. The code asks the store for the image a
\* second time to root the family; that the image closes between the two looks (a 404 then) is left out.
FindFamily(t) ==
    LET i == th[t].img
        f == IF image[i].key = 0 THEN 0 ELSE image[image[i].key].family
        Found(fam) == th' = [th EXCEPT ![t].pc = "opening", ![t].fam = fam, ![t].img = 0]
    IN  /\ At(t, "family") /\ LockFree
        /\ \/ f # 0 /\ Found(f) /\ UNCHANGED <<image, heap>>
           \/ f = 0 /\ image[i].disk /\ Join(i, "disk") /\ Found(Len(heap) + 1)
           \/ /\ f = 0 /\ ~image[i].disk             \* 422: no file to read from
              /\ image' = [image EXCEPT ![i].key = 0]
              /\ Answer(t) /\ UNCHANGED heap
        /\ UNCHANGED <<generation, forceGen>>

TakeOpening(t) ==
    /\ At(t, "opening") /\ heap[th[t].fam].opening = NoThread
    /\ heap' = [heap EXCEPT ![th[t].fam].opening = t]
    /\ Goto(t, "read")
    /\ UNCHANGED <<image, generation, forceGen>>

\* The request ends and its `with fam.opening` block is left.
LeaveOpening(t) ==
    /\ heap' = [heap EXCEPT ![th[t].fam].opening = NoThread]
    /\ Answer(t)

\* _read decodes the file again, outside the lock; the file may be gone (404).
\* list_channels has its answer.
ReadChannels(t) ==
    /\ At(t, "read")
    /\ \/ th[t].todo # {} /\ Goto(t, "check") /\ UNCHANGED heap
       \/ (th[t].todo = {} \/ heap[th[t].fam].source = "disk") /\ LeaveOpening(t)
    /\ UNCHANGED <<image, generation, forceGen>>

\* Under the lock, which is kept: is this still the session the request began
\* in and the scan's family?  Then the family is attached again, in case its
\* last image closed during the read.
Check_NotAttached(t) ==
    LET f == th[t].fam
        k == heap[f].root
        changed == th[t].gen # generation \/ image[k].family \notin {0, f}
    IN  /\ At(t, "check") /\ LockFree
        /\ \/ changed /\ LeaveOpening(t)
           \/ /\ ~changed
              /\ th' = [th EXCEPT ![t].pc = "register", ![t].live = Open]
              /\ UNCHANGED heap
        /\ UNCHANGED <<image, generation, forceGen>>
Check(t) ==
    LET f == th[t].fam
        k == heap[f].root
        changed == th[t].gen # generation \/ image[k].family \notin {0, f}
    IN  /\ At(t, "check") /\ LockFree
        /\ \/ changed /\ LeaveOpening(t) /\ UNCHANGED image        \* 409
           \/ /\ ~changed
              /\ image' = [image EXCEPT ![k].family = f]
              /\ th' = [th EXCEPT ![t].pc = "register", ![t].live = Open]
              /\ UNCHANGED heap
        /\ UNCHANGED <<generation, forceGen>>

\* The next channel: skipped if one of the family's open images shows it.
Register_Again(t) ==
    LET f == th[t].fam
    IN  /\ At(t, "register")
        /\ \E l \in th[t].todo :
              /\ th' = [th EXCEPT ![t].todo = @ \ {l}]
              /\ image' = Append(image, [NewImage(l, FALSE) EXCEPT
                                             !.key = heap[f].root, !.of = f, !.gen = th[t].gen])
              /\ heap' = [heap EXCEPT ![f].members[l] = NewId]
        /\ UNCHANGED <<generation, forceGen>>
Register(t) ==
    LET f == th[t].fam
    IN  /\ At(t, "register")
        /\ \E l \in th[t].todo :
              /\ th' = [th EXCEPT ![t].todo = @ \ {l}]
              /\ IF heap[f].members[l] \in th[t].live THEN UNCHANGED <<image, heap>>
                 ELSE /\ image' = Append(image, [NewImage(l, FALSE) EXCEPT
                                             !.key = heap[f].root, !.of = f, !.gen = th[t].gen])
                      /\ heap' = [heap EXCEPT ![f].members[l] = NewId]
        /\ UNCHANGED <<generation, forceGen>>

Registered(t) ==
    /\ At(t, "register") /\ th[t].todo = {}
    /\ LeaveOpening(t)
    /\ UNCHANGED <<image, generation, forceGen>>

\* stash_upload_channels: unless the staged file has one channel or cannot be
\* read; the image may have been closed since (store.get).
Stash(t) ==
    /\ At(t, "stash") /\ LockFree
    /\ \/ image[th[t].img].open /\ Join(th[t].img, "upload")
       \/ UNCHANGED <<image, heap>>
    /\ Answer(t)
    /\ UNCHANGED <<generation, forceGen>>

---------------------------------------------------------------------------
\* close_image: the store first, then forget.

Closed(i) == [image[i] EXCEPT !.open = FALSE, !.disk = FALSE, !.of = 0, !.gen = 0]

CloseImage(t) ==
    /\ At(t, "idle")
    /\ \E i \in Open : /\ image' = [image EXCEPT ![i] = Closed(i)]
                      /\ th' = [th EXCEPT ![t].pc = "forget", ![t].img = i]
    /\ UNCHANGED <<heap, generation, forceGen>>

Without(members, i) == [l \in Labels |-> IF members[l] = i THEN 0 ELSE members[l]]
Nobody(members) == \A l \in Labels : members[l] = 0

Forget_KeepsFamily(t) ==
    LET i == th[t].img
        k == image[i].key
        f == IF k = 0 THEN 0 ELSE image[k].family
    IN  /\ At(t, "forget") /\ LockFree
        /\ image' = [image EXCEPT ![i].key = 0]
        /\ IF f = 0 THEN UNCHANGED heap
           ELSE heap' = [heap EXCEPT ![f].members = Without(@, i)]
        /\ Answer(t)
        /\ UNCHANGED <<generation, forceGen>>
Forget(t) ==
    LET i == th[t].img
        k == image[i].key
        f == IF k = 0 THEN 0 ELSE image[k].family
    IN  /\ At(t, "forget") /\ LockFree
        /\ IF f = 0
           THEN image' = [image EXCEPT ![i].key = 0] /\ UNCHANGED heap
           ELSE LET left == Without(heap[f].members, i)
                IN  /\ heap' = [heap EXCEPT ![f].members = left]
                    /\ image' = [image EXCEPT ![i].key = 0,
                                              ![k].family = IF Nobody(left) THEN 0 ELSE @]
        /\ Answer(t)
        /\ UNCHANGED <<generation, forceGen>>

---------------------------------------------------------------------------
\* restore_into_store: a project replaces the session, or is appended to it.

ClearForce(t) ==
    /\ At(t, "idle") /\ ForceLockFree
    /\ generation + Cardinality(Replacing) < MaxReplaced
    /\ forceGen' = forceGen + 1
    /\ Goto(t, "clear")
    /\ UNCHANGED <<image, heap, generation>>

ClearStore(t) ==
    /\ At(t, "clear")
    /\ image' = [i \in Ids |-> Closed(i)]
    /\ Goto(t, "reset")
    /\ UNCHANGED <<heap, generation, forceGen>>

Reset(t) ==
    /\ At(t, "reset") /\ LockFree
    /\ generation' = generation + 1
    /\ image' = [i \in Ids |-> [image[i] EXCEPT !.key = 0, !.family = 0]]
    /\ Goto(t, "restore")
    /\ UNCHANGED <<heap, forceGen>>

\* SessionStore.restore keeps the id an image was saved with, unless an open
\* image has it.  (Bound: not an image that is being uploaded or closed now.)
Saved == {i \in Ids : \A t \in Threads : th[t].img = i => th[t].pc = "family"}
Restored ==
    \/ \E i \in Saved \cap Open : image' = Append(image, [NewImage(image[i].label, FALSE) EXCEPT !.gen = forceGen])
    \/ \E i \in Saved \ Open : image' = [image EXCEPT ![i].open = TRUE, ![i].gen = forceGen]

\* The project may hold no image.
Restore(t) ==
    /\ At(t, "restore")
    /\ Restored \/ UNCHANGED image
    /\ Answer(t)
    /\ UNCHANGED <<heap, generation, forceGen>>

AppendProject(t) ==
    /\ At(t, "idle") /\ Room
    /\ Restored
    /\ UNCHANGED <<heap, generation, forceGen, th>>

---------------------------------------------------------------------------
\* _force_maps

\* if_generation, and register_maps under the same lock.
Commit_AnyTime(t) ==
    /\ At(t, "commit") /\ ForceLockFree
    /\ Goto(t, "maps")
    /\ UNCHANGED <<image, heap, generation, forceGen>>
Commit(t) ==
    /\ At(t, "commit") /\ ForceLockFree
    /\ IF th[t].gen = forceGen THEN Goto(t, "maps") ELSE Answer(t)
    /\ UNCHANGED <<image, heap, generation, forceGen>>

AddMap(t) ==
    /\ At(t, "maps")
    /\ \E m \in th[t].todo :
          /\ image' = Append(image, [NewImage(m, FALSE) EXCEPT !.gen = th[t].gen])
          /\ th' = [th EXCEPT ![t].todo = @ \ {m}]
    /\ UNCHANGED <<heap, generation, forceGen>>

MapsAdded(t) ==
    /\ At(t, "maps") /\ th[t].todo = {}
    /\ Answer(t)
    /\ UNCHANGED <<image, heap, generation, forceGen>>

---------------------------------------------------------------------------
Ask(t) ==
    \/ OpenScan(t) \/ Upload(t) \/ AskChannels(t) \/ AskList(t) \/ CloseImage(t)
    \/ ClearForce(t) \/ AppendProject(t) \/ AskMaps(t)
Move(t) ==
    \/ FindFamily(t) \/ TakeOpening(t) \/ ReadChannels(t) \/ Check(t) \/ Register(t)
    \/ Registered(t) \/ Stash(t) \/ Forget(t) \/ ClearStore(t) \/ Reset(t) \/ Restore(t)
    \/ Commit(t) \/ AddMap(t) \/ MapsAdded(t)
Next == \E t \in Threads : Ask(t) \/ Move(t)
Spec == Init /\ [][Next]_vars

---------------------------------------------------------------------------
\* Overlapping requests for the channels of one scan never show a channel
\* twice, though each decides what is missing while the others work.
OneImagePerChannel ==
    \A i, j \in Open :
       image[i].of # 0 /\ image[i].of = image[j].of /\ image[i].label = image[j].label => i = j

\* Every open channel leads to its family, so that "open other channels" works
\* from any of them: also when the last one open was closed during the read
\* that registered it.
LeadsToFamily ==
    \A i \in Open :
       image[i].of # 0 /\ image[i].gen = generation =>
          /\ image[i].key # 0 /\ image[image[i].key].family = image[i].of
          /\ heap[image[i].of].members[image[i].label] = i

\* A family, and with it the cached channels of an upload, is kept only for an
\* image that is open, being forgotten, or about to be registered.
FamiliesNotLeaked ==
    \A k \in Ids :
       image[k].family # 0 =>
          \/ \E l \in Labels : LET i == heap[image[k].family].members[l]
                              IN  i # 0 /\ (image[i].open \/ \E t \in Threads : At(t, "forget") /\ th[t].img = i)
          \/ \E t \in Threads : At(t, "register") /\ th[t].fam = image[k].family
          \/ \E t \in Threads : At(t, "reset")

\* No map of a force file that was open before the session was replaced is
\* an image of the new session, however long its analysis took.
MapsOfThisSession ==
    \A i \in Open :
       image[i].label \in Maps /\ image[i].gen # forceGen => \E t \in Threads : At(t, "clear")
=============================================================================
