---------------------------- MODULE ImageGroups ----------------------------
(***************************************************************************)
(* Samples and projects (frontend lib/groups.ts,                           *)
(* store/viewerCompareActions.ts): groups of images, nested by a parent,   *)
(* and the panes of the side-by-side grid, each bound to a group and       *)
(* showing an image.  Names, parameters, colours and the order of members  *)
(* are left out; which member a pane gets, which follows that order, is an *)
(* open choice.                                                            *)
(***************************************************************************)
EXTENDS Library, Sequences, FiniteSets

CONSTANTS MaxGroups,   \* bound: group ids
          MaxPanes,    \* bound: panes of the grid
          Files        \* the client state a project file may hold

Groups == 1 .. MaxGroups
NoGroup == 0
Pane == [image : Images \cup {NoImage}, group : Groups \cup {NoGroup}]
EmptyPane == [image |-> NoImage, group |-> NoGroup]
\* Whatever a file says: parents that dangle or go round, members long gone.
Array == [at : Nat, ref : Nat]
Annotation == [id : Nat, pts : Array, holes : SUBSET Array]
File == [images : SUBSET Images, live : SUBSET Groups, ids : [Groups -> SUBSET Images],
         parent : [Groups -> Groups \cup {NoGroup}], panes : Seq(Pane),
         measures : [Images -> SUBSET Annotation]]

ASSUME GroupsAssumption == /\ MaxGroups \in Nat /\ MaxPanes \in Nat \ {0} /\ Files \subseteq File

VARIABLES
    live,       \* the groups there are
    ids,        \* per group, its members
    parent,     \* per group, the group it is nested in
    panes,
    groupSeq,   \* nextGroupId's counter
    assigned,   \* note: the memberships given and neither taken back nor their image closed
    dropped,    \* note: those of them lost as another image was closed
    nested      \* note: the nesting given and not taken back

groupVars == <<live, ids, parent, panes, groupSeq, assigned, dropped, nested>>

GroupsInit ==
    /\ live = {} /\ ids = [g \in Groups |-> {}] /\ parent = [g \in Groups |-> NoGroup]
    /\ panes = <<EmptyPane>> /\ groupSeq = 0
    /\ assigned = {} /\ dropped = {} /\ nested = parent

---------------------------------------------------------------------------
\* Trees

\* Groups each of which is nested in another one of them.
Ring(S, par) == S # {} /\ \A g \in S : par[g] \in S

Closed(S, alive, par) == \A g \in S : par[g] \in alive => par[g] \in S

\* p and the groups above it.
Up(p, alive, par) ==
    LET above == {S \in SUBSET alive : p \in S /\ Closed(S, alive, par)}
    IN  {g \in alive : \A S \in above : g \in S}

\* The walk up from p meets g, or never ends.
WouldCycle(g, p, alive, par) ==
    LET up == Up(p, alive, par) IN g \in up \/ \E S \in SUBSET up : Ring(S, par)

\* pruneGroups keeps the groups with members and those above them.
Holding(alive, mem) == {g \in alive : mem[g] # {}}
Kept(alive, mem, par) == UNION {Up(g, alive, par) : g \in Holding(alive, mem)}
Nesting(keep, par) ==
    [g \in Groups |->
        IF g \in keep /\ par[g] \in keep /\ ~WouldCycle(g, par[g], keep, par) THEN par[g] ELSE NoGroup]

\* pruneGroups of the groups `alive', against the images `known'.
Pruned(alive, mem, par, known) ==
    LET left == [g \in Groups |-> mem[g] \cap known]
        keep == Kept(alive, left, par)
    IN  /\ live' = keep
        /\ ids' = [g \in Groups |-> IF g \in keep THEN left[g] ELSE {}]
        /\ parent' = Nesting(keep, par)

---------------------------------------------------------------------------
\* Groups

\* createGroup of members that are open, and createEmptyGroup.
CreateGroup(S) ==
    /\ groupSeq < MaxGroups /\ S \subseteq images
    /\ LET g == groupSeq + 1 IN
       /\ groupSeq' = g /\ live' = live \cup {g}
       /\ ids' = [ids EXCEPT ![g] = S] /\ parent' = [parent EXCEPT ![g] = NoGroup]
       /\ assigned' = assigned \cup ({g} \X S)
       /\ nested' = [nested EXCEPT ![g] = NoGroup]
    /\ UNCHANGED <<panes, dropped>>

Adopted_Orphans(par, g) == [par EXCEPT ![g] = NoGroup]

\* The children of a deleted group take its place.
Adopted(par, g) == [h \in Groups |-> IF h = g THEN NoGroup ELSE IF par[h] = g THEN par[g] ELSE par[h]]

DeleteGroup(g) ==
    /\ g \in live
    /\ live' = live \ {g} /\ ids' = [ids EXCEPT ![g] = {}]
    /\ parent' = Adopted(parent, g)
    /\ panes' = [k \in DOMAIN panes |->
                    IF panes[k].group = g THEN [panes[k] EXCEPT !.group = NoGroup] ELSE panes[k]]
    /\ assigned' = {a \in assigned : a[1] # g} /\ nested' = Adopted(nested, g)
    /\ UNCHANGED <<groupSeq, dropped>>

SetGroupParent(g, p) ==
    /\ g \in live /\ p \in live \cup {NoGroup}
    /\ p # NoGroup => ~WouldCycle(g, p, live, parent)
    /\ parent' = [parent EXCEPT ![g] = p] /\ nested' = [nested EXCEPT ![g] = p]
    /\ UNCHANGED <<live, ids, panes, groupSeq, assigned, dropped>>

AddGroupMember(g, i) ==
    /\ g \in live /\ i \in images
    /\ ids' = [ids EXCEPT ![g] = @ \cup {i}]
    /\ assigned' = assigned \cup {<<g, i>>} /\ dropped' = dropped \ {<<g, i>>}
    /\ UNCHANGED <<live, parent, panes, groupSeq, nested>>

\* A new list for the group, of open images only; the panes stay as they are.
SetGroupMembers(g, S) ==
    /\ g \in live /\ S \subseteq images
    /\ ids' = [ids EXCEPT ![g] = S]
    /\ assigned' = {a \in assigned : a[1] # g} \cup ({g} \X S) /\ dropped' = {a \in dropped : a[1] # g}
    /\ UNCHANGED <<live, parent, panes, groupSeq, nested>>

\* groupMembers: an unbound pane has the whole library.
Members(g, mem) == IF g \in live THEN mem[g] \cap images ELSE images

\* A pane of the group that showed the image moves to another member.
RemoveGroupMember(g, i) ==
    /\ g \in live /\ i \in ids[g]
    /\ ids' = [ids EXCEPT ![g] = @ \ {i}] /\ assigned' = {a \in assigned : ~(a[1] = g /\ a[2] = i)}
    /\ \E m \in IF Members(g, ids') = {} THEN {NoImage} ELSE Members(g, ids') :
          panes' = [k \in DOMAIN panes |->
                       IF panes[k].group = g /\ panes[k].image = i
                       THEN [panes[k] EXCEPT !.image = m] ELSE panes[k]]
    /\ UNCHANGED <<live, parent, groupSeq, dropped, nested>>

GroupOp ==
    \/ \E S \in SUBSET images : CreateGroup(S)
    \/ \E g \in live : DeleteGroup(g)
    \/ \E g \in live, p \in live \cup {NoGroup} : SetGroupParent(g, p)
    \/ \E g \in live, i \in images : AddGroupMember(g, i)
    \/ \E g \in live, S \in SUBSET images : SetGroupMembers(g, S)
    \/ \E g \in live : \E i \in ids[g] : RemoveGroupMember(g, i)

---------------------------------------------------------------------------
\* Panes

\* Each pane of base shows one of its choices.
Seated(base, choice) ==
    /\ \E q \in [DOMAIN base -> Images \cup {NoImage}] :
          /\ \A k \in DOMAIN base : q[k] \in choice[k]
          /\ panes' = [k \in DOMAIN base |-> [image |-> q[k], group |-> base[k].group]]
    /\ UNCHANGED <<live, ids, parent, groupSeq, assigned, dropped, nested>>

OrElse(S, x) == IF S = {} THEN {x} ELSE S

StartSideBySide ==
    /\ Cardinality(images) >= 2
    /\ Seated(panes, [k \in DOMAIN panes |-> OrElse(Members(panes[k].group, ids), NoImage)])

\* startSampleCompare: one pane per group.
StartSampleCompare(g, h) ==
    /\ MaxPanes >= 2 /\ {g, h} \subseteq live /\ g # h
    /\ LET base == <<[EmptyPane EXCEPT !.group = g], [EmptyPane EXCEPT !.group = h]>>
       IN  Seated(base, [k \in DOMAIN base |-> OrElse(Members(base[k].group, ids), NoImage)])

\* setCompareMode("sidebyside"): a pane keeps an image that is still open.
EnterSideBySide ==
    Seated(panes, [k \in DOMAIN panes |->
        CASE panes[k].group \in live /\ Members(panes[k].group, ids) = {} -> {NoImage}
          [] panes[k].image \in images -> {panes[k].image}
          [] OTHER -> OrElse(Members(panes[k].group, ids), panes[k].image)])

\* setGrid to n cells: the cells left without an open image are filled.
SetGrid(n) ==
    LET base == [k \in 1 .. n |-> IF k \in DOMAIN panes THEN panes[k] ELSE EmptyPane]
    IN  Seated(base, [k \in 1 .. n |->
            IF base[k].image \in images THEN {base[k].image}
            ELSE OrElse(Members(base[k].group, ids), base[k].image)])

\* setPaneImage, and stepPane within the members.
SetPaneImage(k, i) ==
    /\ i \in images
    /\ panes' = [panes EXCEPT ![k].image = i]
    /\ UNCHANGED <<live, ids, parent, groupSeq, assigned, dropped, nested>>

\* setPaneGroup: an image that is no member gives way to one that is.
SetPaneGroup(k, g) ==
    LET mem == Members(g, ids) IN
    /\ \E i \in IF panes[k].image \in mem THEN {panes[k].image} ELSE OrElse(mem, NoImage) :
          panes' = [panes EXCEPT ![k] = [image |-> i, group |-> g]]
    /\ UNCHANGED <<live, ids, parent, groupSeq, assigned, dropped, nested>>

PaneOp ==
    \/ StartSideBySide
    \/ \E g, h \in live : StartSampleCompare(g, h)
    \/ EnterSideBySide
    \/ \E n \in 1 .. MaxPanes : SetGrid(n)
    \/ \E k \in DOMAIN panes, i \in images : SetPaneImage(k, i)
    \/ \E k \in DOMAIN panes, g \in live \cup {NoGroup} : SetPaneGroup(k, g)

---------------------------------------------------------------------------
\* With the library

\* closeImage's part: what is not open leaves the groups, placeholders too.
GroupsClosed(i) ==
    /\ Pruned(live, ids, parent, images \ {i})
    /\ panes' = [k \in DOMAIN panes |->
                    [image |-> IF panes[k].image = i THEN NoImage ELSE panes[k].image,
                     group |-> IF panes[k].group \in live' THEN panes[k].group ELSE NoGroup]]
    /\ assigned' = {a \in assigned : a[2] # i}
    /\ dropped' = {a \in assigned' : a \in dropped \/ a[2] \notin images}
    /\ nested' = [g \in Groups |-> IF g \in live' THEN nested[g] ELSE NoGroup]
    /\ UNCHANGED groupSeq

Known_Open(all, here) == here

\* What sessionSlice prunes against: a placeholder counts as loaded.
Known(all, here) == here \cup (all \ here)

\* reseedSeq over the restored ids: the highest number.
Reseeded(seq, alive) == {n \in {seq} \cup alive : \A m \in {seq} \cup alive : m <= n}

\* sessionSlice's part of a load.
GroupsLoaded(f, here) ==
    /\ Pruned(f.live, f.ids, f.parent, Known(f.images, here))
    /\ panes' = [k \in DOMAIN f.panes |->
                    [image |-> IF f.panes[k].image \in here THEN f.panes[k].image ELSE NoImage,
                     group |-> IF f.panes[k].group \in live' THEN f.panes[k].group ELSE NoGroup]]
    /\ groupSeq' \in Reseeded(groupSeq, live')
    /\ assigned' = {a \in f.live \X f.images : a[2] \in f.ids[a[1]]} /\ dropped' = {}
    /\ nested' = parent'

---------------------------------------------------------------------------
\* Groups form trees, every parent resolves, every pane is bound to a group
\* there is and shows an open image (or one an undo took away: applyUndoEntry
\* leaves the panes alone), whatever is deleted, closed, nested or loaded from
\* a file that is damaged (lib/groups.ts:162-170).
NothingDangles ==
    /\ \A g \in live : parent[g] \in live \cup {NoGroup}
    /\ \A S \in SUBSET live : ~Ring(S, parent)
    /\ \A k \in DOMAIN panes : /\ panes[k].group \in live \cup {NoGroup}
                               /\ panes[k].image \in images \cup undone \cup {NoImage}

\* A membership the user gave is there until the user takes it back, its image
\* is closed, or, while its image is not open (a placeholder, or taken away by
\* an undo), any image is closed: through the closing of others while it is
\* open, a load with missing files, the relocation of those, and new groups
\* after a load, which must not get the number of a loaded one.  A nesting is
\* there as long as the group is (store/viewerSession.ts:274-286, 324-337).
MembershipKept ==
    /\ \A a \in assigned \ dropped : a[1] \in live /\ a[2] \in ids[a[1]]
    /\ \A g \in live : parent[g] = nested[g]

\* Promised, and broken by the code: a placeholder keeps its memberships,
\* whatever else is closed, since pruned away "the next save would write that
\* loss to the file" (store/viewerSession.ts:328-333).
PlaceholdersKept ==
    \A a \in assigned : a[2] \in unavailable => a[1] \in live /\ a[2] \in ids[a[1]]
=============================================================================
