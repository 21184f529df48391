---------------------------- MODULE ViewerProofs ----------------------------
(* Theorems about Viewer, for any images, groups, panes and project files:  *)
(* what every state of the viewer keeps, then, from the section on the      *)
(* history on, that undo and redo walk the snapshots of SnapshotHistory.    *)
EXTENDS Viewer, FiniteSetTheorems, FunctionTheorems, WellFoundedInduction, TLAPS

---------------------------------------------------------------------------
\* Walking up: Up(p) is the least set with p that is closed under parents.

LEMMA UpLeast ==
    ASSUME NEW alive, NEW par, NEW p \in alive, NEW S \in SUBSET alive, p \in S, Closed(S, alive, par)
    PROVE  Up(p, alive, par) \subseteq S
BY DEF Up

LEMMA UpSelf == ASSUME NEW alive, NEW par, NEW p \in alive PROVE p \in Up(p, alive, par)
BY DEF Up

LEMMA UpClosed ==
    ASSUME NEW alive, NEW par, NEW p \in alive, NEW x \in Up(p, alive, par), par[x] \in alive
    PROVE  par[x] \in Up(p, alive, par)
BY DEF Up, Closed

LEMMA UpWithin == ASSUME NEW alive, NEW par, NEW p PROVE Up(p, alive, par) \subseteq alive
BY DEF Up

\* What is above x and is not x is above its parent, and then it has one.
LEMMA UpNext ==
    ASSUME NEW alive, NEW par, NEW x \in alive, NEW g \in Up(x, alive, par), g # x
    PROVE  par[x] \in alive /\ g \in Up(par[x], alive, par)
<1>1. par[x] \in alive
  <2>1. SUFFICES ASSUME par[x] \notin alive PROVE FALSE
    OBVIOUS
  <2>2. Closed({x}, alive, par)
    BY <2>1 DEF Closed
  <2> QED BY <2>2, UpLeast
<1>2. SUFFICES ASSUME NEW S \in SUBSET alive, par[x] \in S, Closed(S, alive, par) PROVE g \in S
  BY <1>1, UpWithin DEF Up
<1>3. Closed(S \cup {x}, alive, par)
  BY <1>2 DEF Closed
<1> QED BY <1>2, <1>3, UpLeast

\* In a forest, nesting a group where it already is closes no cycle.
LEMMA ForestNoCycle ==
    ASSUME NEW alive, NEW par, \A S \in SUBSET alive : ~Ring(S, par),
           NEW g \in alive, par[g] \in alive
    PROVE  ~WouldCycle(g, par[g], alive, par)
<1> DEFINE U == Up(par[g], alive, par)
           C == {x \in U : g \in Up(x, alive, par)}
<1>0. U \subseteq alive
  BY UpWithin
<1>1. ASSUME g \in U PROVE FALSE
  <2>1. g \in C /\ C \subseteq alive
    BY <1>0, <1>1, UpSelf
  <2>2. par[g] \in C
    BY <1>1, UpSelf
  <2>3. ASSUME NEW x \in C PROVE par[x] \in C
    <3>1. CASE x = g
      BY <2>2, <3>1
    <3>2. CASE x # g
      <4>1. x \in alive /\ g \in Up(x, alive, par)
        BY <2>1
      <4>2. par[x] \in alive /\ g \in Up(par[x], alive, par)
        BY <3>2, <4>1, UpNext
      <4>3. par[x] \in U
        BY <4>2, UpClosed
      <4> QED BY <4>2, <4>3
    <3> QED BY <3>1, <3>2
  <2>4. Ring(C, par)
    BY <2>1, <2>3 DEF Ring
  <2> QED BY <2>1, <2>4
<1>2. \A S \in SUBSET U : ~Ring(S, par)
  BY <1>0
<1> QED BY <1>1, <1>2 DEF WouldCycle

---------------------------------------------------------------------------
\* The edits of the trees keep them trees.

Forest(alive, par) == /\ \A g \in alive : par[g] \in alive \cup {NoGroup}
                      /\ \A S \in SUBSET alive : ~Ring(S, par)

\* Whatever the groups were.
LEMMA NestingForest ==
    ASSUME NEW keep \in SUBSET Groups, NEW par PROVE Forest(keep, Nesting(keep, par))
<1> DEFINE new == Nesting(keep, par)
<1>1. \A g \in keep : new[g] = par[g] \/ new[g] = NoGroup
  BY DEF Nesting
<1>2. \A g \in keep : new[g] # NoGroup => new[g] \in keep /\ ~WouldCycle(g, new[g], keep, par)
  BY DEF Nesting
<1>3. NoGroup \notin keep
  BY GroupsAssumption DEF Groups, NoGroup
<1>4. ASSUME NEW S \in SUBSET keep, Ring(S, new) PROVE FALSE
  <2>1. PICK x \in S : TRUE
    BY <1>4 DEF Ring
  <2>2. \A g \in S : new[g] \in S /\ new[g] = par[g] /\ par[g] \in keep
    BY <1>1, <1>3, <1>4 DEF Ring
  <2>3. ~WouldCycle(x, par[x], keep, par)
    BY <1>2, <1>3, <2>2
  <2> DEFINE U == Up(par[x], keep, par)
  <2>4. U \subseteq S
    <3>1. Closed(S, keep, par)
      BY <2>2 DEF Closed
    <3> QED BY <2>2, <3>1, UpLeast
  <2>5. \A g \in U : par[g] \in U
    BY <2>2, <2>4, UpClosed
  <2>6. par[x] \in U
    BY <2>2, UpSelf
  <2>7. Ring(U, par)
    BY <2>5, <2>6 DEF Ring
  <2> QED BY <2>3, <2>7 DEF WouldCycle
<1> QED BY <1>2, <1>4 DEF Forest

LEMMA DeleteForest ==
    ASSUME NEW alive \in SUBSET Groups, NEW par \in [Groups -> Groups \cup {NoGroup}], Forest(alive, par),
           NEW g \in alive
    PROVE  Forest(alive \ {g}, Adopted(par, g))
<1> DEFINE new == Adopted(par, g)
<1>0. \A h \in alive \ {g} : new[h] = IF par[h] = g THEN par[g] ELSE par[h]
  BY DEF Adopted
<1>1. par[g] # g
  <2>1. SUFFICES ASSUME par[g] = g PROVE FALSE
    OBVIOUS
  <2>2. Ring({g}, par)
    BY <2>1 DEF Ring
  <2> QED BY <2>2 DEF Forest
<1>2. \A h \in alive \ {g} : new[h] \in (alive \ {g}) \cup {NoGroup}
  BY <1>0, <1>1 DEF Forest
<1>3. ASSUME NEW S \in SUBSET (alive \ {g}), Ring(S, new) PROVE FALSE
  <2>1. CASE \E h \in S : par[h] = g
    <3>1. par[g] \in S
      BY <1>0, <1>3, <2>1 DEF Ring
    <3>2. \A h \in S \cup {g} : par[h] \in S \cup {g}
      BY <1>0, <1>3, <3>1 DEF Ring
    <3>3. Ring(S \cup {g}, par) /\ S \cup {g} \in SUBSET alive
      BY <3>2 DEF Ring
    <3> QED BY <3>3 DEF Forest
  <2>2. CASE \A h \in S : par[h] # g
    <3>1. Ring(S, par)
      BY <1>0, <1>3, <2>2 DEF Ring
    <3> QED BY <3>1 DEF Forest
  <2> QED BY <2>1, <2>2
<1> QED BY <1>2, <1>3 DEF Forest

LEMMA SetParentForest ==
    ASSUME NEW alive \in SUBSET Groups, NEW par \in [Groups -> Groups \cup {NoGroup}], Forest(alive, par),
           NEW g \in alive, NEW p \in alive \cup {NoGroup},
           p # NoGroup => ~WouldCycle(g, p, alive, par)
    PROVE  Forest(alive, [par EXCEPT ![g] = p])
<1> DEFINE new == [par EXCEPT ![g] = p]
<1>0. \A h \in alive : new[h] = IF h = g THEN p ELSE par[h]
  OBVIOUS
<1>1. NoGroup \notin alive
  BY GroupsAssumption DEF Groups, NoGroup
<1>2. ASSUME NEW S \in SUBSET alive, Ring(S, new) PROVE FALSE
  <2>1. g \in S
    <3>1. SUFFICES ASSUME g \notin S PROVE FALSE
      OBVIOUS
    <3>2. Ring(S, par)
      BY <1>0, <1>2, <3>1 DEF Ring
    <3> QED BY <3>2 DEF Forest
  <2>2. p \in S /\ p \in alive /\ p # NoGroup
    BY <1>0, <1>1, <1>2, <2>1 DEF Ring
  <2> DEFINE T == S \cap Up(p, alive, par)
  <2>3. g \notin Up(p, alive, par)
    BY <2>2 DEF WouldCycle
  <2>4. p \in T
    BY <2>2, UpSelf
  <2>5. ASSUME NEW h \in T PROVE par[h] \in T
    <3>1. h # g /\ h \in S
      BY <2>3
    <3>2. par[h] \in S
      BY <1>0, <1>2, <3>1 DEF Ring
    <3>3. par[h] \in Up(p, alive, par)
      BY <2>2, <3>2, UpClosed
    <3> QED BY <3>2, <3>3
  <2>6. Ring(T, par)
    BY <2>4, <2>5 DEF Ring
  <2> QED BY <2>6 DEF Forest
<1> QED BY <1>0, <1>2 DEF Forest

---------------------------------------------------------------------------
\* The inductive invariant: what the properties say, the shape of the state,
\* and that no group has a number still to come.

Shape ==
    /\ groupSeq \in 0 .. MaxGroups /\ live \subseteq 1 .. groupSeq
    /\ ids = [g \in Groups |-> ids[g]]
    /\ parent \in [Groups -> Groups \cup {NoGroup}] /\ nested \in [Groups -> Groups \cup {NoGroup}]
    /\ panes = [k \in DOMAIN panes |-> [image |-> panes[k].image, group |-> panes[k].group]]

PanesSound(ps, alive, shown) ==
    \A k \in DOMAIN ps : ps[k].group \in alive \cup {NoGroup} /\ ps[k].image \in shown \cup {NoImage}

GroupsInv == Shape /\ NothingDangles /\ MembershipKept

LEMMA DanglesParts ==
    NothingDangles <=> Forest(live, parent) /\ PanesSound(panes, live, images \cup undone)
BY DEF NothingDangles, Forest, PanesSound

LEMMA LiveGroups == ASSUME Shape PROVE live \subseteq Groups
BY GroupsAssumption DEF Shape, Groups

LEMMA InitInv == ASSUME Init PROVE GroupsInv
<1> USE DEF Init, LibraryInit, GroupsInit
<1>1. Shape
  BY GroupsAssumption DEF Shape, Groups, NoGroup, EmptyPane
<1>2. NothingDangles
  BY DEF NothingDangles, Ring, EmptyPane
<1>3. MembershipKept
  BY DEF MembershipKept
<1> QED BY <1>1, <1>2, <1>3 DEF GroupsInv

---------------------------------------------------------------------------
\* Groups

LEMMA CreateInv ==
    ASSUME GroupsInv, NEW S \in SUBSET images, CreateGroup(S), UNCHANGED libVars PROVE GroupsInv'
<1> DEFINE g == groupSeq + 1
<1>0. /\ g \in Groups /\ g \notin live /\ live \subseteq Groups /\ groupSeq' = g
      /\ live' = live \cup {g} /\ ids' = [ids EXCEPT ![g] = S]
      /\ parent' = [parent EXCEPT ![g] = NoGroup] /\ nested' = [nested EXCEPT ![g] = NoGroup]
      /\ assigned' = assigned \cup ({g} \X S)
      /\ panes' = panes
  BY GroupsAssumption DEF GroupsInv, Shape, CreateGroup, Groups
<1>1. Shape'
  <2>1. groupSeq' \in 0 .. MaxGroups /\ live' \subseteq 1 .. groupSeq'
    BY <1>0, GroupsAssumption DEF GroupsInv, Shape, Groups
  <2>2. ids' = [h \in Groups |-> ids'[h]]
    BY <1>0 DEF GroupsInv, Shape
  <2>3. /\ parent' \in [Groups -> Groups \cup {NoGroup}]
        /\ nested' \in [Groups -> Groups \cup {NoGroup}]
    BY <1>0 DEF GroupsInv, Shape
  <2> QED BY <1>0, <2>1, <2>2, <2>3 DEF GroupsInv, Shape
<1>2. NoGroup \notin Groups
  BY GroupsAssumption DEF Groups, NoGroup
<1>3. Forest(live', parent')
  <2>1. parent'[g] = NoGroup /\ \A h \in live : parent'[h] = parent[h]
    BY <1>0 DEF GroupsInv, Shape
  <2>2. Forest(live, parent)
    BY DanglesParts DEF GroupsInv
  <2>3. ASSUME NEW T \in SUBSET live', Ring(T, parent') PROVE FALSE
    <3>1. g \notin T /\ T \subseteq live
      BY <1>0, <1>2, <2>1, <2>3 DEF Ring
    <3>2. Ring(T, parent)
      BY <2>1, <2>3, <3>1 DEF Ring
    <3> QED BY <2>2, <3>1, <3>2 DEF Forest
  <2>4. \A h \in live' : parent'[h] \in live' \cup {NoGroup}
    BY <1>0, <2>1, <2>2 DEF Forest
  <2> QED BY <2>3, <2>4 DEF Forest
<1>4. PanesSound(panes', live', (images \cup undone)')
  BY <1>0, DanglesParts DEF GroupsInv, PanesSound, libVars
<1>5. MembershipKept'
  <2>1. \A h \in live : parent'[h] = parent[h] /\ nested'[h] = nested[h] /\ ids'[h] = ids[h]
    BY <1>0 DEF GroupsInv, Shape
  <2>2. parent'[g] = NoGroup /\ nested'[g] = NoGroup /\ ids'[g] = S
    BY <1>0 DEF GroupsInv, Shape
  <2>3. ASSUME NEW a \in assigned' \ dropped' PROVE a[1] \in live' /\ a[2] \in ids'[a[1]]
    <3>1. CASE a \in assigned
      BY <1>0, <2>1, <2>3, <3>1 DEF GroupsInv, MembershipKept, CreateGroup
    <3>2. CASE a \in {g} \X S
      BY <1>0, <2>2, <3>2
    <3> QED BY <1>0, <3>1, <3>2
  <2>4. \A h \in live' : parent'[h] = nested'[h]
    BY <1>0, <2>1, <2>2 DEF GroupsInv, MembershipKept
  <2> QED BY <2>3, <2>4 DEF MembershipKept
<1> QED BY <1>1, <1>3, <1>4, <1>5, DanglesParts DEF GroupsInv, NothingDangles, Forest, PanesSound

LEMMA DeleteInv ==
    ASSUME GroupsInv, NEW g \in live, DeleteGroup(g), UNCHANGED libVars PROVE GroupsInv'
<1>0. live \subseteq Groups /\ live' = live \ {g} /\ parent' = Adopted(parent, g) /\ nested' = Adopted(nested, g)
  BY LiveGroups DEF GroupsInv, DeleteGroup
<1>1. Shape'
  <2>1. groupSeq' \in 0 .. MaxGroups /\ live' \subseteq 1 .. groupSeq'
    BY <1>0 DEF GroupsInv, Shape, DeleteGroup
  <2>2. ids' = [h \in Groups |-> ids'[h]]
    BY DEF GroupsInv, Shape, DeleteGroup
  <2>3. /\ parent' \in [Groups -> Groups \cup {NoGroup}]
        /\ nested' \in [Groups -> Groups \cup {NoGroup}]
    BY <1>0 DEF GroupsInv, Shape, Adopted
  <2>4. panes' = [k \in DOMAIN panes' |-> [image |-> panes'[k].image, group |-> panes'[k].group]]
    BY DEF GroupsInv, Shape, DeleteGroup
  <2> QED BY <2>1, <2>2, <2>3, <2>4 DEF Shape
<1>2. Forest(live', parent')
  BY <1>0, DeleteForest, DanglesParts DEF GroupsInv, Shape
<1>3. PanesSound(panes', live', (images \cup undone)')
  <2>1. DOMAIN panes' = DOMAIN panes
    BY DEF DeleteGroup
  <2>2. ASSUME NEW k \in DOMAIN panes
        PROVE  panes'[k].group \in live' \cup {NoGroup} /\ panes'[k].image = panes[k].image
    BY <1>0, DanglesParts DEF GroupsInv, Shape, PanesSound, DeleteGroup
  <2> QED BY <2>1, <2>2, DanglesParts DEF GroupsInv, PanesSound, libVars
<1>4. MembershipKept'
  <2>1. \A h \in live' : parent'[h] = nested'[h] /\ ids'[h] = ids[h]
    BY <1>0 DEF GroupsInv, Shape, MembershipKept, DeleteGroup, Adopted
  <2> QED BY <1>0, <2>1 DEF GroupsInv, MembershipKept, DeleteGroup
<1> QED BY <1>1, <1>2, <1>3, <1>4 DEF GroupsInv, NothingDangles, Forest, PanesSound

LEMMA ParentInv ==
    ASSUME GroupsInv, NEW g \in live, NEW p \in live \cup {NoGroup}, SetGroupParent(g, p), UNCHANGED libVars
    PROVE  GroupsInv'
<1>0. live \subseteq Groups /\ live' = live /\ parent' = [parent EXCEPT ![g] = p] /\ nested' = [nested EXCEPT ![g] = p]
  BY LiveGroups DEF GroupsInv, SetGroupParent
<1>1. Shape'
  BY <1>0 DEF GroupsInv, Shape, SetGroupParent
<1>2. Forest(live', parent')
  <2>1. parent \in [Groups -> Groups \cup {NoGroup}] /\ Forest(live, parent)
    BY DanglesParts DEF GroupsInv, Shape
  <2>2. p # NoGroup => ~WouldCycle(g, p, live, parent)
    BY DEF SetGroupParent
  <2>3. Forest(live, [parent EXCEPT ![g] = p])
    BY <1>0, <2>1, <2>2, SetParentForest
  <2> QED BY <1>0, <2>3
<1>3. PanesSound(panes', live', (images \cup undone)')
  BY DanglesParts DEF GroupsInv, PanesSound, SetGroupParent, libVars
<1>4. MembershipKept'
  BY <1>0 DEF GroupsInv, Shape, MembershipKept, SetGroupParent
<1> QED BY <1>1, <1>2, <1>3, <1>4 DEF GroupsInv, NothingDangles, Forest, PanesSound

LEMMA AddMemberInv ==
    ASSUME GroupsInv, NEW g \in live, NEW i \in images, AddGroupMember(g, i), UNCHANGED libVars
    PROVE  GroupsInv'
<1>0. live \subseteq Groups
  BY LiveGroups DEF GroupsInv
<1>1. Shape'
  BY <1>0 DEF GroupsInv, Shape, AddGroupMember
<1>2. NothingDangles'
  BY DEF GroupsInv, NothingDangles, AddGroupMember, libVars
<1>3. MembershipKept'
  <2>1. \A h \in Groups : ids'[h] = IF h = g THEN ids[g] \cup {i} ELSE ids[h]
    BY <1>0 DEF GroupsInv, Shape, AddGroupMember
  <2>2. ASSUME NEW a \in assigned' \ dropped'
        PROVE  a[1] \in live /\ a[2] \in ids'[a[1]]
    <3>1. CASE a = <<g, i>>
      BY <1>0, <2>1, <3>1
    <3>2. CASE a # <<g, i>>
      <4>1. a \in assigned \ dropped
        BY <3>2 DEF AddGroupMember
      <4>2. a[1] \in live /\ a[2] \in ids[a[1]]
        BY <4>1 DEF GroupsInv, MembershipKept
      <4> QED BY <1>0, <2>1, <4>2
    <3> QED BY <3>1, <3>2
  <2> QED BY <2>2 DEF GroupsInv, MembershipKept, AddGroupMember
<1> QED BY <1>1, <1>2, <1>3 DEF GroupsInv

LEMMA SetMembersInv ==
    ASSUME GroupsInv, NEW g \in live, NEW S \in SUBSET images, SetGroupMembers(g, S), UNCHANGED libVars
    PROVE  GroupsInv'
<1>0. live \subseteq Groups
  BY LiveGroups DEF GroupsInv
<1>1. Shape'
  BY <1>0 DEF GroupsInv, Shape, SetGroupMembers
<1>2. NothingDangles'
  BY DEF GroupsInv, NothingDangles, SetGroupMembers, libVars
<1>3. MembershipKept'
  <2>1. \A h \in Groups : ids'[h] = IF h = g THEN S ELSE ids[h]
    BY <1>0 DEF GroupsInv, Shape, SetGroupMembers
  <2>2. ASSUME NEW a \in assigned' \ dropped'
        PROVE  a[1] \in live /\ a[2] \in ids'[a[1]]
    <3>1. CASE a \in {g} \X S
      BY <1>0, <2>1, <3>1
    <3>2. CASE a \notin {g} \X S
      <4>1. a \in assigned \ dropped /\ a[1] # g
        BY <3>2 DEF SetGroupMembers
      <4>2. a[1] \in live /\ a[2] \in ids[a[1]]
        BY <4>1 DEF GroupsInv, MembershipKept
      <4> QED BY <1>0, <2>1, <4>1, <4>2
    <3> QED BY <3>1, <3>2
  <2> QED BY <2>2 DEF GroupsInv, MembershipKept, SetGroupMembers
<1> QED BY <1>1, <1>2, <1>3 DEF GroupsInv

LEMMA MembersShown == ASSUME NEW g, NEW mem PROVE Members(g, mem) \subseteq images
BY DEF Members

LEMMA RemoveMemberInv ==
    ASSUME GroupsInv, NEW g \in live, NEW i, RemoveGroupMember(g, i), UNCHANGED libVars
    PROVE  GroupsInv'
<1>0. live \subseteq Groups
  BY LiveGroups DEF GroupsInv
<1>1. PICK m \in images \cup {NoImage} :
          panes' = [k \in DOMAIN panes |-> IF panes[k].group = g /\ panes[k].image = i
                                           THEN [panes[k] EXCEPT !.image = m] ELSE panes[k]]
  BY MembersShown DEF RemoveGroupMember
<1>2. Shape'
  <2>1. ids' = [h \in Groups |-> ids'[h]]
    BY DEF GroupsInv, Shape, RemoveGroupMember
  <2>2. panes' = [k \in DOMAIN panes' |-> [image |-> panes'[k].image, group |-> panes'[k].group]]
    BY <1>1 DEF GroupsInv, Shape
  <2> QED BY <2>1, <2>2 DEF GroupsInv, Shape, RemoveGroupMember
<1>3. ASSUME NEW k \in DOMAIN panes
      PROVE  panes'[k].group = panes[k].group /\ panes'[k].image \in images \cup undone \cup {NoImage}
  BY <1>1, DanglesParts DEF GroupsInv, Shape, PanesSound
<1>4. NothingDangles'
  <2>1. DOMAIN panes' = DOMAIN panes
    BY <1>1
  <2> QED BY <1>3, <2>1 DEF GroupsInv, NothingDangles, RemoveGroupMember, libVars
<1>5. MembershipKept'
  <2>1. \A h \in Groups : ids'[h] = IF h = g THEN ids[g] \ {i} ELSE ids[h]
    BY <1>0 DEF GroupsInv, Shape, RemoveGroupMember
  <2>2. ASSUME NEW a \in assigned' \ dropped'
        PROVE  a[1] \in live /\ a[2] \in ids'[a[1]]
    <3>1. a \in assigned \ dropped /\ ~(a[1] = g /\ a[2] = i)
      BY DEF RemoveGroupMember
    <3>2. a[1] \in live /\ a[2] \in ids[a[1]]
      BY <3>1 DEF GroupsInv, MembershipKept
    <3> QED BY <1>0, <2>1, <3>1, <3>2
  <2> QED BY <2>2 DEF GroupsInv, MembershipKept, RemoveGroupMember
<1> QED BY <1>2, <1>4, <1>5 DEF GroupsInv

---------------------------------------------------------------------------
\* Panes

LEMMA SeatedInv ==
    ASSUME GroupsInv, UNCHANGED libVars, NEW base, NEW choice, Seated(base, choice),
           \A k \in DOMAIN base : /\ base[k].group \in live \cup {NoGroup}
                                  /\ choice[k] \subseteq images \cup undone \cup {NoImage}
    PROVE  GroupsInv'
<1>1. PICK q \in [DOMAIN base -> Images \cup {NoImage}] :
          /\ \A k \in DOMAIN base : q[k] \in choice[k]
          /\ panes' = [k \in DOMAIN base |-> [image |-> q[k], group |-> base[k].group]]
  BY DEF Seated
<1>2. UNCHANGED <<live, ids, parent, groupSeq, assigned, dropped, nested, images, undone>>
  BY DEF Seated, libVars
<1>3. Shape'
  BY <1>1, <1>2 DEF GroupsInv, Shape
<1>4. PanesSound(panes', live', (images \cup undone)')
  BY <1>1, <1>2 DEF PanesSound
<1>5. Forest(live', parent')
  BY <1>2, DanglesParts DEF GroupsInv
<1>6. MembershipKept'
  BY <1>2 DEF GroupsInv, MembershipKept
<1> QED BY <1>3, <1>4, <1>5, <1>6 DEF GroupsInv, NothingDangles, Forest, PanesSound

LEMMA PaneInv == ASSUME GroupsInv, PaneOp, UNCHANGED libVars PROVE GroupsInv'
<1>0. \A k \in DOMAIN panes : /\ panes[k].group \in live \cup {NoGroup}
                              /\ panes[k].image \in images \cup undone \cup {NoImage}
  BY DanglesParts DEF GroupsInv, PanesSound
<1>1. CASE StartSideBySide
  <2> DEFINE choice == [k \in DOMAIN panes |-> OrElse(Members(panes[k].group, ids), NoImage)]
  <2>1. \A k \in DOMAIN panes : choice[k] \subseteq images \cup undone \cup {NoImage}
    BY MembersShown DEF OrElse
  <2>2. Seated(panes, choice)
    BY <1>1 DEF StartSideBySide
  <2> HIDE DEF choice
  <2> QED BY <1>0, <2>1, <2>2, SeatedInv
<1>2. ASSUME NEW g \in live, NEW h \in live, StartSampleCompare(g, h) PROVE GroupsInv'
  <2> DEFINE base == <<[EmptyPane EXCEPT !.group = g], [EmptyPane EXCEPT !.group = h]>>
             choice == [k \in DOMAIN base |-> OrElse(Members(base[k].group, ids), NoImage)]
  <2>1. \A k \in DOMAIN base : base[k].group \in live
    BY DEF EmptyPane
  <2>2. \A k \in DOMAIN base : choice[k] \subseteq images \cup undone \cup {NoImage}
    BY MembersShown DEF OrElse
  <2>3. Seated(base, choice)
    BY <1>2 DEF StartSampleCompare
  <2> HIDE DEF base, choice
  <2> QED BY <2>1, <2>2, <2>3, SeatedInv
<1>3. CASE EnterSideBySide
  <2> DEFINE choice == [k \in DOMAIN panes |->
                 CASE panes[k].group \in live /\ Members(panes[k].group, ids) = {} -> {NoImage}
                   [] panes[k].image \in images -> {panes[k].image}
                   [] OTHER -> OrElse(Members(panes[k].group, ids), panes[k].image)]
  <2>1. ASSUME NEW k \in DOMAIN panes PROVE choice[k] \subseteq images \cup undone \cup {NoImage}
    <3>1. choice[k] \in {{NoImage}, {panes[k].image}, Members(panes[k].group, ids)}
      BY DEF OrElse
    <3> QED BY <1>0, <3>1, MembersShown
  <2>2. Seated(panes, choice)
    BY <1>3 DEF EnterSideBySide
  <2> HIDE DEF choice
  <2> QED BY <1>0, <2>1, <2>2, SeatedInv
<1>4. ASSUME NEW n \in 1 .. MaxPanes, SetGrid(n) PROVE GroupsInv'
  <2> DEFINE base == [k \in 1 .. n |-> IF k \in DOMAIN panes THEN panes[k] ELSE EmptyPane]
             choice == [k \in 1 .. n |->
                 IF base[k].image \in images THEN {base[k].image}
                 ELSE OrElse(Members(base[k].group, ids), base[k].image)]
  <2>1. DOMAIN base = 1 .. n
    OBVIOUS
  <2>2. \A k \in 1 .. n : /\ base[k].group \in live \cup {NoGroup}
                          /\ base[k].image \in images \cup undone \cup {NoImage}
    BY <1>0 DEF EmptyPane
  <2>3. ASSUME NEW k \in 1 .. n PROVE choice[k] \subseteq images \cup undone \cup {NoImage}
    <3>1. choice[k] \in {{base[k].image}, Members(base[k].group, ids)}
      BY DEF OrElse
    <3> HIDE DEF base, choice
    <3> QED BY <2>2, <3>1, MembersShown
  <2>4. Seated(base, choice)
    BY <1>4 DEF SetGrid
  <2> HIDE DEF base, choice
  <2> QED BY <2>1, <2>2, <2>3, <2>4, SeatedInv
<1>5. ASSUME NEW k \in DOMAIN panes, NEW i \in images, SetPaneImage(k, i) PROVE GroupsInv'
  <2>1. panes' = [panes EXCEPT ![k].image = i]
        /\ UNCHANGED <<live, ids, parent, groupSeq, assigned, dropped, nested, images, undone>>
    BY <1>5 DEF SetPaneImage, libVars
  <2>0. panes' = [h \in DOMAIN panes |-> [image |-> IF h = k THEN i ELSE panes[h].image,
                                         group |-> panes[h].group]]
    <3>1. \A h \in DOMAIN panes : panes[h] = [image |-> panes[h].image, group |-> panes[h].group]
      BY DEF GroupsInv, Shape
    <3>2. PICK a, b : panes[k] = [image |-> a, group |-> b]
      BY <3>1
    <3>3. [panes[k] EXCEPT !.image = i] = [image |-> i, group |-> b] /\ panes[k].group = b
      BY <3>2
    <3>4. panes' = [h \in DOMAIN panes |-> IF h = k THEN [panes[k] EXCEPT !.image = i] ELSE panes[h]]
      BY <2>1, <3>1
    <3>5. \A h \in DOMAIN panes :
             (IF h = k THEN [panes[k] EXCEPT !.image = i] ELSE panes[h])
               = [image |-> IF h = k THEN i ELSE panes[h].image, group |-> panes[h].group]
      BY <3>1, <3>3
    <3> QED BY <3>4, <3>5
  <2>2. Shape'
    <3>1. \A h \in DOMAIN panes' : panes'[h] = [image |-> panes'[h].image, group |-> panes'[h].group]
      BY <2>0
    <3> QED BY <2>0, <2>1, <3>1 DEF GroupsInv, Shape
  <2>3. NothingDangles'
    BY <1>0, <2>0, <2>1 DEF GroupsInv, NothingDangles
  <2>4. MembershipKept'
    BY <2>1 DEF GroupsInv, MembershipKept
  <2> QED BY <2>2, <2>3, <2>4 DEF GroupsInv
<1>6. ASSUME NEW k \in DOMAIN panes, NEW g \in live \cup {NoGroup}, SetPaneGroup(k, g) PROVE GroupsInv'
  <2>1. UNCHANGED <<live, ids, parent, groupSeq, assigned, dropped, nested, images, undone>>
    BY <1>6 DEF SetPaneGroup, libVars
  <2>2. PICK i \in images \cup {NoImage} : panes' = [panes EXCEPT ![k] = [image |-> i, group |-> g]]
    BY <1>6, MembersShown DEF SetPaneGroup, OrElse
  <2>3. Shape'
    BY <2>1, <2>2 DEF GroupsInv, Shape
  <2>4. NothingDangles'
    BY <1>0, <2>1, <2>2 DEF GroupsInv, NothingDangles
  <2>5. MembershipKept'
    BY <2>1 DEF GroupsInv, MembershipKept
  <2> QED BY <2>3, <2>4, <2>5 DEF GroupsInv
<1> QED BY <1>1, <1>2, <1>3, <1>4, <1>5, <1>6 DEF PaneOp

---------------------------------------------------------------------------
\* Closing and loading

LEMMA PrunedFacts ==
    ASSUME NEW alive \in SUBSET Groups, NEW mem, NEW par, NEW known, Pruned(alive, mem, par, known)
    PROVE  /\ live' \subseteq alive
           /\ ids' = [g \in Groups |-> ids'[g]]
           /\ parent' = Nesting(live', par) /\ Forest(live', parent')
           /\ \A g \in alive, x \in known : x \in mem[g] => g \in live' /\ x \in ids'[g]
           /\ \A g \in live' : par[g] \in alive => par[g] \in live'
<1> DEFINE left == [g \in Groups |-> mem[g] \cap known]
           keep == Kept(alive, left, par)
<1>1. live' = keep /\ ids' = [g \in Groups |-> IF g \in keep THEN left[g] ELSE {}] /\ parent' = Nesting(keep, par)
  BY DEF Pruned
<1>2. keep \subseteq alive
  <2>1. SUFFICES ASSUME NEW x \in Kept(alive, left, par) PROVE x \in alive
    OBVIOUS
  <2>2. PICK h \in Holding(alive, left) : x \in Up(h, alive, par)
    BY <2>1 DEF Kept
  <2> HIDE DEF left
  <2> QED BY <2>2, UpWithin
<1>3. \A g \in keep : par[g] \in alive => par[g] \in keep
  BY UpClosed DEF Kept, Holding
<1>4. ASSUME NEW g \in alive, NEW x \in known, x \in mem[g] PROVE g \in keep /\ x \in left[g]
  <2>1. g \in Holding(alive, left) /\ x \in left[g]
    BY <1>4 DEF Holding
  <2> QED BY <2>1, UpSelf DEF Kept
<1> HIDE DEF keep, left
<1>5. Forest(keep, Nesting(keep, par))
  BY <1>2, NestingForest
<1>6. \A g \in alive, x \in known : x \in mem[g] => g \in live' /\ x \in ids'[g]
  BY <1>1, <1>4
<1> QED BY <1>1, <1>2, <1>3, <1>5, <1>6

LEMMA CloseInv == ASSUME GroupsInv, NEW i, CloseDone(i), GroupsClosed(i) PROVE GroupsInv'
<1> DEFINE known == images \ {i}
<1>0. live \subseteq Groups /\ Forest(live, parent)
  BY LiveGroups, DanglesParts DEF GroupsInv
<1>1. /\ live' \subseteq live
      /\ ids' = [g \in Groups |-> ids'[g]]
      /\ parent' = Nesting(live', parent) /\ Forest(live', parent')
      /\ \A g \in live, x \in known : x \in ids[g] => g \in live' /\ x \in ids'[g]
      /\ \A g \in live' : parent[g] \in live => parent[g] \in live'
  BY <1>0, PrunedFacts DEF GroupsClosed
<1>2. /\ nested' = [g \in Groups |-> IF g \in live' THEN nested[g] ELSE NoGroup]
      /\ assigned' = {a \in assigned : a[2] # i}
      /\ \A a \in assigned' \ dropped' : a \in assigned \ dropped /\ a[2] \in known
      /\ groupSeq' = groupSeq
      /\ panes' = [k \in DOMAIN panes |->
                       [image |-> IF panes[k].image = i THEN NoImage ELSE panes[k].image,
                        group |-> IF panes[k].group \in live' THEN panes[k].group ELSE NoGroup]]
  BY DEF GroupsClosed
<1>3. Shape'
  <2>1. groupSeq' \in 0 .. MaxGroups /\ live' \subseteq 1 .. groupSeq'
    BY <1>1, <1>2 DEF GroupsInv, Shape
  <2>2. parent' \in [Groups -> Groups \cup {NoGroup}]
    BY <1>0, <1>1 DEF Nesting
  <2>3. nested' \in [Groups -> Groups \cup {NoGroup}]
    BY <1>2 DEF GroupsInv, Shape
  <2> QED BY <1>1, <1>2, <2>1, <2>2, <2>3 DEF Shape
<1>4. PanesSound(panes', live', (images \cup undone)')
  BY <1>2, DanglesParts DEF GroupsInv, PanesSound, CloseDone
<1>5. ASSUME NEW g \in live' PROVE parent'[g] = nested'[g]
  <2>1. g \in Groups /\ g \in live /\ nested'[g] = parent[g]
    BY <1>0, <1>1, <1>2 DEF GroupsInv, MembershipKept
  <2>2. CASE parent[g] = NoGroup
    BY <1>1, <2>1, <2>2 DEF Nesting
  <2>3. CASE parent[g] # NoGroup
    <3>1. parent[g] \in live'
      BY <1>0, <1>1, <2>1, <2>3 DEF Forest
    <3>2. \A S \in SUBSET live' : ~Ring(S, parent)
      BY <1>0, <1>1 DEF Forest
    <3>3. ~WouldCycle(g, parent[g], live', parent)
      BY <3>1, <3>2, ForestNoCycle
    <3> QED BY <1>1, <2>1, <3>1, <3>3 DEF Nesting
  <2> QED BY <2>2, <2>3
<1>6. MembershipKept'
  BY <1>1, <1>2, <1>5 DEF GroupsInv, MembershipKept
<1> QED BY <1>1, <1>3, <1>4, <1>6 DEF GroupsInv, NothingDangles, Forest, PanesSound

LEMMA LoadInv ==
    ASSUME NEW f \in Files, NEW here \in SUBSET f.images, GroupsInv, LibraryLoaded(f.images, here),
           GroupsLoaded(f, here)
    PROVE  GroupsInv'
<1> DEFINE known == Known(f.images, here)
<1>0. /\ f.live \subseteq Groups
      /\ f.images \subseteq known
  BY GroupsAssumption DEF File, Known
<1>1. /\ live' \subseteq f.live
      /\ ids' = [g \in Groups |-> ids'[g]]
      /\ parent' = Nesting(live', f.parent) /\ Forest(live', parent')
      /\ \A g \in f.live, x \in known : x \in f.ids[g] => g \in live' /\ x \in ids'[g]
  <2> DEFINE alive == f.live
             mem == f.ids
             par == f.parent
  <2>1. Pruned(alive, mem, par, known) /\ alive \in SUBSET Groups
    BY <1>0 DEF GroupsLoaded
  <2> HIDE DEF known, alive, mem, par
  <2>2. /\ live' \subseteq alive
        /\ ids' = [g \in Groups |-> ids'[g]]
        /\ parent' = Nesting(live', par) /\ Forest(live', parent')
        /\ \A g \in alive, x \in known : x \in mem[g] => g \in live' /\ x \in ids'[g]
    BY <2>1, PrunedFacts
  <2> QED BY <2>2 DEF alive, mem, par
<1>2. /\ nested' = parent'
      /\ assigned' = {a \in f.live \X f.images : a[2] \in f.ids[a[1]]}
      /\ groupSeq' \in {groupSeq} \cup live' /\ \A m \in live' : m <= groupSeq'
      /\ panes' = [k \in DOMAIN f.panes |->
                       [image |-> IF f.panes[k].image \in here THEN f.panes[k].image ELSE NoImage,
                        group |-> IF f.panes[k].group \in live' THEN f.panes[k].group ELSE NoGroup]]
  BY DEF GroupsLoaded, Reseeded
<1>3. Shape'
  <2>1. groupSeq' \in 0 .. MaxGroups /\ live' \subseteq 1 .. groupSeq'
    BY <1>0, <1>1, <1>2, GroupsAssumption DEF GroupsInv, Shape, Groups
  <2>2. parent' \in [Groups -> Groups \cup {NoGroup}]
    BY <1>0, <1>1 DEF Nesting
  <2> QED BY <1>1, <1>2, <2>1, <2>2 DEF Shape
<1>4. PanesSound(panes', live', (images \cup undone)')
  BY <1>2 DEF PanesSound, LibraryLoaded
<1>5. MembershipKept'
  BY <1>0, <1>1, <1>2 DEF MembershipKept
<1> QED BY <1>1, <1>3, <1>4, <1>5 DEF GroupsInv, NothingDangles, Forest, PanesSound

---------------------------------------------------------------------------
\* Every step

\* Steps that leave the groups alone lose no image the panes may show.
LEMMA LibraryInv ==
    ASSUME GroupsInv, UNCHANGED groupVars, images \cup undone \subseteq (images \cup undone)'
    PROVE  GroupsInv'
<1>1. Shape' /\ MembershipKept'
  BY DEF GroupsInv, Shape, MembershipKept, groupVars
<1>2. NothingDangles'
  BY DEF GroupsInv, NothingDangles, groupVars
<1> QED BY <1>1, <1>2 DEF GroupsInv

LEMMA HistoryLibrary ==
    ASSUME Undo \/ Redo PROVE images \cup undone \subseteq (images \cup undone)'
BY DEF Undo, Redo, HistoryLeaves

LEMMA StepInv == ASSUME GroupsInv, [Next]_vars PROVE GroupsInv'
<1>1. ASSUME NEW S \in SUBSET Fresh, Open(S) \/ IngestDerived(S) PROVE GroupsInv'
  BY <1>1, LibraryInv DEF Open, IngestDerived, Ingest
<1>2. ASSUME NEW i \in images, Ask(i) PROVE GroupsInv'
  BY <1>2, LibraryInv DEF Ask, CloseAsk
<1>3. ASSUME NEW i \in closing, CloseImage(i) PROVE GroupsInv'
  BY <1>3, CloseInv DEF CloseImage
<1>4. ASSUME NEW f \in Files, NEW here \in SUBSET f.images, OpenProject(f, here) PROVE GroupsInv'
  BY <1>4, LoadInv DEF OpenProject
<1>5. ASSUME NEW S \in SUBSET unavailable, LocateData(S) PROVE GroupsInv'
  BY <1>5, LibraryInv DEF LocateData, Locate
<1>6. CASE History
  BY <1>6, LibraryInv, HistoryLibrary DEF History
<1>7. CASE Drawing
  BY <1>7, LibraryInv DEF Drawing, libVars
<1>8. CASE Grouping
  <2>1. UNCHANGED libVars
    BY <1>8 DEF Grouping
  <2>2. CASE PaneOp
    BY <2>1, <2>2, PaneInv
  <2>3. CASE GroupOp
    BY <2>1, <2>3, CreateInv, DeleteInv, ParentInv, AddMemberInv, SetMembersInv, RemoveMemberInv DEF GroupOp
  <2> QED BY <1>8, <2>2, <2>3 DEF Grouping
<1>9. CASE UNCHANGED vars
  BY <1>9, LibraryInv DEF vars, libVars
<1> QED BY <1>1, <1>2, <1>3, <1>4, <1>5, <1>6, <1>7, <1>8, <1>9 DEF Next

LEMMA Invariance == Spec => []GroupsInv
<1>1. Init => GroupsInv
  BY InitInv
<1>2. GroupsInv /\ [Next]_vars => GroupsInv'
  BY StepInv
<1> QED BY <1>1, <1>2, PTL DEF Spec

\* Whatever is created, nested, deleted, closed, undone or loaded from a
\* damaged file, the groups are trees without loose ends and the panes are
\* bound to what there is (lib/groups.ts:162-170).
THEOREM GroupsFormTrees == Spec => []NothingDangles
<1>1. GroupsInv => NothingDangles
  BY DEF GroupsInv
<1> QED BY <1>1, Invariance, PTL

\* A membership given is lost only when the user takes it back, its image is
\* closed, or another image is closed while its own is not open; neither to
\* closes of other images while it is open nor to loads with missing files,
\* relocations and new groups.  A nesting lasts as long as its group
\* (store/viewerSession.ts:274-286, 324-337; store/viewerCloseImage.ts:45).
THEOREM GroupsKeepMembers == Spec => []MembershipKept
<1>1. GroupsInv => MembershipKept
  BY DEF GroupsInv
<1> QED BY <1>1, Invariance, PTL

---------------------------------------------------------------------------
\* The history: undo and redo walk the snapshots of SnapshotHistory.

\* Induction: a set that holds zero and with every number the next holds all.
LEMMA NatSteps ==
    ASSUME NEW T, 0 \in T, \A n \in Nat : n \in T => n + 1 \in T
    PROVE  Nat \subseteq T
<1> DEFINE R == OpToRel(<, Nat)
<1> DEFINE U == {n \in Nat : n \notin T}
<1>1. SUFFICES ASSUME U # {} PROVE FALSE
  OBVIOUS
<1>2. IsWellFoundedOn(R, Nat)
  BY NatLessThanWellFounded
<1>3. \A x, y \in Nat : x < y => <<x, y>> \in R
  BY DEF OpToRel
<1>4. U \subseteq Nat
  OBVIOUS
<1> HIDE DEF R
<1>5. PICK x \in U : \A y \in U : ~(<<y, x>> \in R)
  <2> HIDE DEF U
  <2> QED BY <1>1, <1>2, <1>4, WFMin
<1>6. x - 1 \in U /\ x - 1 < x
  OBVIOUS
<1> QED BY <1>3, <1>5, <1>6

\* What can be drawn on an image, and the entries of the history: finitely much.
Drawable == {a \in Annotation : IsFiniteSet(a.holes)}
Drawings == FiniteSubsetsOf(Drawable)
\* Whether an entry is taken back; brought forth again it is FALSE.
Ways == {TRUE, FALSE}
Other(inv) == IF inv THEN FALSE ELSE TRUE

Step ==
    [t : {"measure-add", "measure-del"}, img : Images, m : Drawable]
    \cup [t : {"measure-move"}, img : Images, id : Nat, before : Array, after : Array, withHoles : BOOLEAN,
          beforeHoles : FiniteSubsetsOf(Array), afterHoles : FiniteSubsetsOf(Array)]
    \cup [t : {"hole-add", "hole-remove"}, img : Images, host : Nat, child : Drawable]
    \cup [t : {"derived"}, img : Images]
Entry == Seq(Step)
States == [annots : [Images -> Drawings], images : SUBSET Images]

LEMMA WayFacts ==
    /\ TRUE \in Ways /\ FALSE \in Ways /\ Other(TRUE) = FALSE /\ Other(FALSE) = TRUE
    /\ \A inv \in Ways : Other(inv) \in Ways /\ Other(Other(inv)) = inv
BY DEF Ways, Other

LEMMA FiniteFacts ==
    ASSUME NEW X, NEW S \in FiniteSubsetsOf(X)
    PROVE  /\ IsFiniteSet(S) /\ S \subseteq X
           /\ \A T \in SUBSET S : T \in FiniteSubsetsOf(X)
           /\ \A x \in X : S \cup {x} \in FiniteSubsetsOf(X)
<1>1. IsFiniteSet(S) /\ S \subseteq X
  BY DEF FiniteSubsetsOf
<1>2. \A T \in SUBSET S : IsFiniteSet(T)
  BY <1>1, FS_Subset
<1>3. \A x \in X : IsFiniteSet(S \cup {x})
  BY <1>1, FS_AddElement
<1> QED BY <1>1, <1>2, <1>3 DEF FiniteSubsetsOf

LEMMA EmptyFinite == ASSUME NEW X PROVE {} \in FiniteSubsetsOf(X)
BY FS_EmptySet DEF FiniteSubsetsOf

LEMMA GetFacts ==
    ASSUME NEW S, NEW id, Has(S, id)
    PROVE  Get(S, id) \in S /\ Get(S, id).id = id
BY DEF Has, Get

LEMMA AnnotationFacts ==
    ASSUME NEW a \in Annotation, NEW p, NEW h
    PROVE  /\ a = [id |-> a.id, pts |-> a.pts, holes |-> a.holes]
           /\ a.id \in Nat /\ a.pts \in Array /\ a.holes \subseteq Array
           /\ [a EXCEPT !.pts = p] = [id |-> a.id, pts |-> p, holes |-> a.holes]
           /\ [a EXCEPT !.holes = h] = [id |-> a.id, pts |-> a.pts, holes |-> h]
<1>1. a = [id |-> a.id, pts |-> a.pts, holes |-> a.holes]
  BY DEF Annotation
<1>2. a.id \in Nat /\ a.pts \in Array /\ a.holes \subseteq Array
  BY DEF Annotation
<1>3. [a EXCEPT !.pts = p] = [id |-> a.id, pts |-> p, holes |-> a.holes]
  BY DEF Annotation
<1>4. [a EXCEPT !.holes = h] = [id |-> a.id, pts |-> a.pts, holes |-> h]
  BY DEF Annotation
<1> QED BY <1>1, <1>2, <1>3, <1>4

LEMMA DrawableFacts ==
    ASSUME NEW a \in Drawable
    PROVE  /\ a \in Annotation /\ a = [id |-> a.id, pts |-> a.pts, holes |-> a.holes]
           /\ a.id \in Nat /\ a.pts \in Array /\ a.holes \in FiniteSubsetsOf(Array)
           /\ \A p : [a EXCEPT !.pts = p] = [id |-> a.id, pts |-> p, holes |-> a.holes]
           /\ \A h : [a EXCEPT !.holes = h] = [id |-> a.id, pts |-> a.pts, holes |-> h]
<1>1. a \in Annotation /\ IsFiniteSet(a.holes)
  BY DEF Drawable
<1>2. a.holes \in FiniteSubsetsOf(Array)
  BY <1>1, AnnotationFacts DEF FiniteSubsetsOf
<1> QED BY <1>1, <1>2, AnnotationFacts

LEMMA MakeDrawable ==
    ASSUME NEW id \in Nat, NEW p \in Array, NEW h \in FiniteSubsetsOf(Array)
    PROVE  [id |-> id, pts |-> p, holes |-> h] \in Drawable
BY FiniteFacts DEF Drawable, Annotation

\* What is put in the place of an annotation is one again.
LEMMA ReplacedTyped ==
    ASSUME NEW S \in Drawings, NEW id, NEW m, Has(S, id) => m \in Drawable
    PROVE  Replaced(S, id, m) \in Drawings
<1>1. Without(S, id) \in Drawings
  BY FiniteFacts DEF Without, Drawings
<1>2. CASE Has(S, id)
  BY <1>1, <1>2, FiniteFacts DEF Replaced, Drawings
<1> QED BY <1>2 DEF Replaced

LEMMA GetTyped ==
    ASSUME NEW S \in Drawings, NEW id, Has(S, id)
    PROVE  Get(S, id) \in Drawable /\ Get(S, id) \in S /\ Get(S, id).id = id
BY GetFacts, FiniteFacts DEF Drawings

LEMMA WithoutTyped ==
    ASSUME NEW S \in Drawings, NEW id
    PROVE  Without(S, id) \in Drawings
BY FiniteFacts DEF Without, Drawings

LEMMA StepKinds ==
    ASSUME NEW s \in Step
    PROVE  /\ s.img \in Images
           /\ s.t \in {"measure-add", "measure-del", "measure-move", "hole-add", "hole-remove", "derived"}
           /\ s.t \in {"measure-add", "measure-del"} => s.m \in Drawable
           /\ s.t = "measure-move" =>
                 /\ s.id \in Nat /\ s.before \in Array /\ s.after \in Array
                 /\ s.beforeHoles \in FiniteSubsetsOf(Array) /\ s.afterHoles \in FiniteSubsetsOf(Array)
           /\ s.t \in {"hole-add", "hole-remove"} => s.child \in Drawable
BY DEF Step

LEMMA MovedTyped ==
    ASSUME NEW S \in Drawings, NEW s \in Step, s.t = "measure-move",
           NEW p \in Array, NEW h \in FiniteSubsetsOf(Array)
    PROVE  Moved(S, s, p, h) \in Drawings
<1> DEFINE hs == IF s.withHoles THEN h ELSE Get(S, s.id).holes
           new == [id |-> s.id, pts |-> p, holes |-> hs]
<1>1. ASSUME Has(S, s.id) PROVE new \in Drawable
  <2>1. hs \in FiniteSubsetsOf(Array)
    BY <1>1, GetTyped, DrawableFacts
  <2> HIDE DEF hs
  <2>2. s.id \in Nat
    BY StepKinds
  <2> QED BY <2>1, <2>2, MakeDrawable
<1>2. Replaced(S, s.id, new) \in Drawings
  <2> HIDE DEF new
  <2> QED BY <1>1, ReplacedTyped
<1> QED BY <1>2 DEF Moved

LEMMA HostTyped ==
    ASSUME NEW S \in Drawings, NEW host, NEW holes, Has(S, host) => holes \in FiniteSubsetsOf(Array)
    PROVE  Replaced(S, host, [Get(S, host) EXCEPT !.holes = holes]) \in Drawings
<1> DEFINE a == Get(S, host)
<1>1. ASSUME Has(S, host) PROVE [a EXCEPT !.holes = holes] \in Drawable
  <2>1. a \in Drawable
    BY <1>1, GetTyped
  <2> HIDE DEF a
  <2>2. [a EXCEPT !.holes = holes] = [id |-> a.id, pts |-> a.pts, holes |-> holes]
    BY <2>1, DrawableFacts
  <2>3. [id |-> a.id, pts |-> a.pts, holes |-> holes] \in Drawable
    BY <1>1, <2>1, DrawableFacts, MakeDrawable
  <2> QED BY <2>2, <2>3
<1> QED BY <1>1, ReplacedTyped

LEMMA RedrawnTyped ==
    ASSUME NEW S \in Drawings, NEW s \in Step, s.t # "derived", NEW inv \in Ways
    PROVE  Redrawn(S, s, inv) \in Drawings
<1>1. CASE s.t \in {"measure-add", "measure-del"}
  <2>1. Removed(S, s.m) \in Drawings
    BY WithoutTyped DEF Removed
  <2>2. Added(S, s.m) \in Drawings
    BY <1>1, StepKinds, FiniteFacts DEF Added, Drawings
  <2> QED BY <1>1, <2>1, <2>2 DEF Redrawn
<1>2. CASE s.t = "measure-move"
  <2>1. Moved(S, s, s.before, s.beforeHoles) \in Drawings
    BY <1>2, StepKinds, MovedTyped
  <2>2. Moved(S, s, s.after, s.afterHoles) \in Drawings
    BY <1>2, StepKinds, MovedTyped
  <2> QED BY <1>2, <2>1, <2>2 DEF Redrawn
<1>3. CASE s.t \in {"hole-add", "hole-remove"}
  <2>1. Holed(S, s) \in Drawings
    <3> DEFINE rest == Without(S, s.child.id)
               holes == Get(rest, s.host).holes \cup {s.child.pts}
    <3>1. rest \in Drawings
      BY WithoutTyped
    <3>2. Has(rest, s.host) => holes \in FiniteSubsetsOf(Array)
      <4>1. s.child.pts \in Array
        BY <1>3, StepKinds, DrawableFacts
      <4>2. Has(rest, s.host) => Get(rest, s.host).holes \in FiniteSubsetsOf(Array)
        BY <3>1, GetTyped, DrawableFacts
      <4> HIDE DEF rest
      <4> QED BY <4>1, <4>2, FiniteFacts
    <3>3. Replaced(rest, s.host, [Get(rest, s.host) EXCEPT !.holes = holes]) \in Drawings
      <4> HIDE DEF rest, holes
      <4> QED BY <3>1, <3>2, HostTyped
    <3> QED BY <3>3 DEF Holed
  <2>2. Unholed(S, s) \in Drawings
    <3> DEFINE holes == {h \in Get(S, s.host).holes : h.ref # s.child.pts.ref}
    <3>1. Has(S, s.host) => holes \in FiniteSubsetsOf(Array)
      <4>1. SUFFICES ASSUME Has(S, s.host) PROVE holes \in FiniteSubsetsOf(Array)
        OBVIOUS
      <4>2. Get(S, s.host).holes \in FiniteSubsetsOf(Array) /\ holes \in SUBSET Get(S, s.host).holes
        BY <4>1, GetTyped, DrawableFacts
      <4> HIDE DEF holes
      <4> QED BY <4>2, FiniteFacts
    <3>2. Replaced(S, s.host, [Get(S, s.host) EXCEPT !.holes = holes]) \in Drawings
      <4> HIDE DEF holes
      <4> QED BY <3>1, HostTyped
    <3>3. s.child \in Drawable
      BY <1>3, StepKinds
    <3> QED BY <3>2, <3>3, FiniteFacts DEF Unholed, Drawings
  <2> QED BY <1>3, <2>1, <2>2 DEF Redrawn
<1> QED BY <1>1, <1>2, <1>3, StepKinds

\* What a step makes of the library.
Listed(S, s, inv) ==
    IF s.t # "derived" THEN S ELSE IF inv THEN S \ {s.img} ELSE S \cup {s.img}
\* What it makes of the annotations of an image.
Drawn(S, i, s, inv) == IF s.t # "derived" /\ i = s.img THEN Redrawn(S, s, inv) ELSE S

LEMMA ApplyStepFacts ==
    ASSUME NEW u \in States, NEW s \in Step, NEW inv \in Ways
    PROVE  /\ ApplyStep(u, s, inv) \in States
           /\ \A i \in Images : ApplyStep(u, s, inv).annots[i] = Drawn(u.annots[i], i, s, inv)
           /\ ApplyStep(u, s, inv).images = Listed(u.images, s, inv)
<1>1. CASE s.t = "derived"
  BY <1>1, StepKinds DEF ApplyStep, States, Listed, Drawn
<1>2. CASE s.t # "derived"
  <2> DEFINE A == [u.annots EXCEPT ![s.img] = Redrawn(u.annots[s.img], s, inv)]
  <2>1. Redrawn(u.annots[s.img], s, inv) \in Drawings
    BY <1>2, StepKinds, RedrawnTyped DEF States
  <2>2. A \in [Images -> Drawings]
    BY <2>1 DEF States
  <2>3. ApplyStep(u, s, inv) = [u EXCEPT !.annots = A]
    BY <1>2, StepKinds DEF ApplyStep, States
  <2>4. \A i \in Images : A[i] = Drawn(u.annots[i], i, s, inv)
    BY <1>2, StepKinds DEF States, Drawn
  <2>5. Listed(u.images, s, inv) = u.images
    BY <1>2 DEF Listed
  <2> HIDE DEF A
  <2>6. ApplyStep(u, s, inv) = [annots |-> A, images |-> u.images]
    BY <2>3 DEF States
  <2>7. [annots |-> A, images |-> u.images] \in States
    BY <2>2 DEF States
  <2> QED BY <2>4, <2>5, <2>6, <2>7
<1> QED BY <1>1, <1>2

LEMMA StatesEqual ==
    ASSUME NEW u \in States, NEW v \in States, \A i \in Images : u.annots[i] = v.annots[i], u.images = v.images
    PROVE  u = v
<1>1. u.annots = v.annots
  BY DEF States
<1> QED BY <1>1 DEF States

---------------------------------------------------------------------------
\* Entries: a recursive function is a fold over the steps.

Nth(entry, k, inv) == entry[IF inv THEN Len(entry) + 1 - k ELSE k]

LEMMA NthTyped ==
    ASSUME NEW X, NEW entry \in Seq(X), NEW inv \in Ways, NEW k \in 1 .. Len(entry)
    PROVE  /\ Nth(entry, k, inv) \in X
           /\ \E j \in DOMAIN entry : Nth(entry, k, inv) = entry[j]
<1>1. Len(entry) + 1 - k \in 1 .. Len(entry)
  OBVIOUS
<1> QED BY <1>1 DEF Nth

\* The states that the steps of an entry lead through.
Through(f, st, entry, inv) ==
    /\ f \in [0 .. Len(entry) -> States]
    /\ f[0] = st
    /\ \A k \in 1 .. Len(entry) : f[k] = ApplyStep(f[k - 1], Nth(entry, k, inv), inv)

LEMMA ApplyThrough ==
    ASSUME NEW st \in States, NEW entry \in Entry, NEW inv \in Ways
    PROVE  \E f : Through(f, st, entry, inv) /\ Apply(st, entry, inv) = f[Len(entry)]
<1> DEFINE N == Len(entry)
           Def(g, n) == g = [k \in 0 .. n |-> IF k = 0 THEN st ELSE ApplyStep(g[k - 1], Nth(entry, k, inv), inv)]
           T == {n \in Nat : n <= N => \E g : Def(g, n) /\ g \in [0 .. n -> States]}
<1>0. N \in Nat
  BY DEF Entry
<1>1. 0 \in T
  <2> DEFINE g == [k \in 0 .. 0 |-> st]
  <2>1. Def(g, 0) /\ g \in [0 .. 0 -> States]
    OBVIOUS
  <2> QED BY <2>1
<1>2. ASSUME NEW n \in Nat, n \in T PROVE n + 1 \in T
  <2>1. SUFFICES ASSUME n + 1 <= N PROVE \E h : Def(h, n + 1) /\ h \in [0 .. n + 1 -> States]
    OBVIOUS
  <2>2. PICK g : Def(g, n) /\ g \in [0 .. n -> States]
    BY <1>0, <1>2, <2>1
  <2> DEFINE last == ApplyStep(g[n], Nth(entry, n + 1, inv), inv)
             h == [k \in 0 .. n + 1 |-> IF k = n + 1 THEN last ELSE g[k]]
  <2>3. last \in States
    <3>1. Nth(entry, n + 1, inv) \in Step
      BY <1>0, <2>1, NthTyped DEF Entry
    <3>2. g[n] \in States
      BY <2>2
    <3> QED BY <3>1, <3>2, ApplyStepFacts
  <2>4. h \in [0 .. n + 1 -> States]
    <3> HIDE DEF last
    <3> QED BY <2>2, <2>3
  <2>5. ASSUME NEW k \in 0 .. n + 1
        PROVE  h[k] = IF k = 0 THEN st ELSE ApplyStep(h[k - 1], Nth(entry, k, inv), inv)
    <3>1. CASE k = n + 1
      <4>1. h[k] = last /\ k - 1 = n /\ n # n + 1 /\ h[k - 1] = g[n] /\ k # 0
        BY <3>1
      <4> QED BY <4>1, <3>1
    <3>2. CASE k # n + 1
      <4>1. k \in 0 .. n /\ h[k] = g[k] /\ (k # 0 => h[k - 1] = g[k - 1])
        BY <3>2
      <4>2. g[k] = IF k = 0 THEN st ELSE ApplyStep(g[k - 1], Nth(entry, k, inv), inv)
        BY <2>2, <4>1
      <4> QED BY <4>1, <4>2
    <3> QED BY <3>1, <3>2
  <2>6. Def(h, n + 1)
    <3> HIDE DEF last
    <3> QED BY <2>5
  <2> QED BY <2>4, <2>6
<1>3. PICK g : Def(g, N) /\ g \in [0 .. N -> States]
  <2> HIDE DEF T
  <2>1. N \in T
    BY <1>0, <1>1, <1>2, NatSteps
  <2> QED BY <1>0, <2>1 DEF T
<1> DEFINE f == CHOOSE x : Def(x, N)
<1>4. Apply(st, entry, inv) = f[N]
  BY DEF Apply, Nth
<1>5. Def(f, N)
  BY <1>3
<1>6. f = g
  <2> HIDE DEF f
  <2>1. ASSUME NEW k \in 0 .. N, k # 0 PROVE f[k] = ApplyStep(f[k - 1], Nth(entry, k, inv), inv)
    BY <1>5, <2>1
  <2>2. ASSUME NEW k \in 0 .. N, k # 0 PROVE g[k] = ApplyStep(g[k - 1], Nth(entry, k, inv), inv)
    BY <1>3, <2>2
  <2>3. f[0] = st /\ g[0] = st
    BY <1>0, <1>3, <1>5
  <2> DEFINE U == {n \in Nat : n <= N => f[n] = g[n]}
  <2>4. 0 \in U
    BY <2>3
  <2>5. ASSUME NEW n \in Nat, n \in U PROVE n + 1 \in U
    <3>1. SUFFICES ASSUME n + 1 <= N PROVE f[n + 1] = g[n + 1]
      OBVIOUS
    <3>2. f[n] = g[n] /\ n + 1 \in 0 .. N /\ (n + 1) - 1 = n /\ n + 1 # 0
      BY <1>0, <2>5, <3>1
    <3> QED BY <2>1, <2>2, <3>2
  <2>6. Nat \subseteq U
    <3> HIDE DEF U
    <3> QED BY <2>4, <2>5, NatSteps
  <2>7. DOMAIN f = 0 .. N /\ DOMAIN g = 0 .. N /\ \A k \in 0 .. N : f[k] = g[k]
    BY <1>0, <1>3, <1>5, <2>6
  <2>8. f = [k \in 0 .. N |-> f[k]] /\ g = [k \in 0 .. N |-> g[k]]
    BY <1>3, <1>5
  <2> QED BY <2>7, <2>8
<1>7. Through(g, st, entry, inv)
  <2>1. g[0] = st
    BY <1>0, <1>3
  <2>2. ASSUME NEW k \in 1 .. N PROVE g[k] = ApplyStep(g[k - 1], Nth(entry, k, inv), inv)
    BY <1>0, <1>3
  <2> QED BY <1>3, <2>1, <2>2 DEF Through
<1> QED BY <1>4, <1>6, <1>7

\* States that agree on all images but those of C.
Alike(u, v, C) ==
    \A i \in Images \ C : u.annots[i] = v.annots[i] /\ (i \in u.images <=> i \in v.images)

\* What every step of an entry keeps true of two states, the entry does.
LEMMA ApplyRelated ==
    ASSUME NEW u \in States, NEW v \in States, NEW entry \in Entry, NEW inv \in Ways,
           NEW R, <<u, v>> \in R,
           \A x, y \in States, j \in DOMAIN entry :
              <<x, y>> \in R => <<ApplyStep(x, entry[j], inv), ApplyStep(y, entry[j], inv)>> \in R
    PROVE  <<Apply(u, entry, inv), Apply(v, entry, inv)>> \in R
<1> DEFINE N == Len(entry)
<1>1. PICK f : Through(f, u, entry, inv) /\ Apply(u, entry, inv) = f[N]
  BY ApplyThrough
<1>2. PICK g : Through(g, v, entry, inv) /\ Apply(v, entry, inv) = g[N]
  BY ApplyThrough
<1> DEFINE T == {n \in Nat : n <= N => <<f[n], g[n]>> \in R}
<1>3. 0 \in T
  BY <1>1, <1>2 DEF Through
<1>4. ASSUME NEW n \in Nat, n \in T PROVE n + 1 \in T
  <2>1. SUFFICES ASSUME n + 1 <= N PROVE <<f[n + 1], g[n + 1]>> \in R
    OBVIOUS
  <2>2. N \in Nat
    BY DEF Entry
  <2>3. n + 1 \in 1 .. N /\ (n + 1) - 1 = n /\ n \in 0 .. N
    BY <2>1, <2>2
  <2>4. <<f[n], g[n]>> \in R /\ f[n] \in States /\ g[n] \in States
    BY <1>1, <1>2, <1>4, <2>3, <2>1, <2>2 DEF Through
  <2>5. PICK j \in DOMAIN entry : Nth(entry, n + 1, inv) = entry[j]
    BY <2>3, NthTyped DEF Entry
  <2>6. f[n + 1] = ApplyStep(f[n], entry[j], inv) /\ g[n + 1] = ApplyStep(g[n], entry[j], inv)
    BY <1>1, <1>2, <2>3, <2>5 DEF Through
  <2> QED BY <2>4, <2>6
<1>5. N \in T
  <2>1. N \in Nat
    BY DEF Entry
  <2> HIDE DEF T
  <2> QED BY <1>3, <1>4, <2>1, NatSteps
<1> QED BY <1>1, <1>2, <1>5 DEF Entry

LEMMA ApplyTyped ==
    ASSUME NEW u \in States, NEW entry \in Entry, NEW inv \in Ways
    PROVE  Apply(u, entry, inv) \in States
<1>1. PICK f : Through(f, u, entry, inv) /\ Apply(u, entry, inv) = f[Len(entry)]
  BY ApplyThrough
<1> QED BY <1>1 DEF Through, Entry

LEMMA ApplyOne ==
    ASSUME NEW u \in States, NEW s \in Step, NEW inv \in Ways
    PROVE  <<s>> \in Entry /\ Apply(u, <<s>>, inv) = ApplyStep(u, s, inv)
<1>1. <<s>> \in Entry /\ Len(<<s>>) = 1 /\ Nth(<<s>>, 1, inv) = s
  BY DEF Entry, Nth
<1>2. PICK f : Through(f, u, <<s>>, inv) /\ Apply(u, <<s>>, inv) = f[1]
  BY <1>1, ApplyThrough
<1>3. f[1] = ApplyStep(f[1 - 1], s, inv) /\ f[0] = u
  BY <1>1, <1>2 DEF Through
<1> QED BY <1>1, <1>2, <1>3

LEMMA StepAlike ==
    ASSUME NEW u \in States, NEW v \in States, NEW s \in Step, NEW inv \in Ways,
           NEW C, Alike(u, v, C)
    PROVE  Alike(ApplyStep(u, s, inv), ApplyStep(v, s, inv), C)
<1> SUFFICES ASSUME NEW i \in Images \ C
             PROVE  /\ ApplyStep(u, s, inv).annots[i] = ApplyStep(v, s, inv).annots[i]
                    /\ i \in ApplyStep(u, s, inv).images <=> i \in ApplyStep(v, s, inv).images
  BY DEF Alike
<1>1. u.annots[i] = v.annots[i] /\ (i \in u.images <=> i \in v.images)
  BY DEF Alike
<1>2. i \in Listed(u.images, s, inv) <=> i \in Listed(v.images, s, inv)
  BY <1>1 DEF Listed
<1> QED BY <1>1, <1>2, ApplyStepFacts

\* An entry does not tell apart states that are alike.
LEMMA ApplyAlike ==
    ASSUME NEW u \in States, NEW v \in States, NEW entry \in Entry, NEW inv \in Ways,
           NEW C, Alike(u, v, C)
    PROVE  Alike(Apply(u, entry, inv), Apply(v, entry, inv), C)
<1> DEFINE R == {w \in States \X States : Alike(w[1], w[2], C)}
<1>1. \A x, y \in States : <<x, y>> \in R <=> Alike(x, y, C)
  OBVIOUS
<1>2. \A x, y \in States, j \in DOMAIN entry :
         <<x, y>> \in R => <<ApplyStep(x, entry[j], inv), ApplyStep(y, entry[j], inv)>> \in R
  <2> SUFFICES ASSUME NEW x \in States, NEW y \in States, NEW j \in DOMAIN entry, Alike(x, y, C)
               PROVE  <<ApplyStep(x, entry[j], inv), ApplyStep(y, entry[j], inv)>> \in R
    OBVIOUS
  <2>1. entry[j] \in Step
    BY DEF Entry
  <2> HIDE DEF R
  <2> QED BY <1>1, <2>1, ApplyStepFacts, StepAlike
<1>3. <<u, v>> \in R
  OBVIOUS
<1> HIDE DEF R
<1>4. <<Apply(u, entry, inv), Apply(v, entry, inv)>> \in R
  BY <1>2, <1>3, ApplyRelated
<1> QED BY <1>1, <1>4, ApplyTyped

\* An image no step is about stays as it is.
LEMMA StepElsewhere ==
    ASSUME NEW u \in States, NEW s \in Step, NEW inv \in Ways, NEW i \in Images, s.img # i
    PROVE  /\ ApplyStep(u, s, inv).annots[i] = u.annots[i]
           /\ i \in ApplyStep(u, s, inv).images <=> i \in u.images
<1>1. Drawn(u.annots[i], i, s, inv) = u.annots[i]
  BY DEF Drawn
<1>2. i \in Listed(u.images, s, inv) <=> i \in u.images
  BY DEF Listed
<1> QED BY <1>1, <1>2, ApplyStepFacts

\* An entry about other images leaves an image alone.
LEMMA ApplyElsewhere ==
    ASSUME NEW u \in States, NEW entry \in Entry, NEW inv \in Ways, NEW i \in Images,
           \A j \in DOMAIN entry : entry[j].img # i
    PROVE  /\ Apply(u, entry, inv).annots[i] = u.annots[i]
           /\ i \in Apply(u, entry, inv).images <=> i \in u.images
<1> DEFINE R == {w \in States \X States : w[1].annots[i] = u.annots[i] /\ (i \in w[1].images <=> i \in u.images)}
<1>1. \A x, y \in States : <<x, y>> \in R <=> x.annots[i] = u.annots[i] /\ (i \in x.images <=> i \in u.images)
  OBVIOUS
<1> HIDE DEF R
<1>2. \A x, y \in States, j \in DOMAIN entry :
         <<x, y>> \in R => <<ApplyStep(x, entry[j], inv), ApplyStep(y, entry[j], inv)>> \in R
  <2> SUFFICES ASSUME NEW x \in States, NEW y \in States, NEW j \in DOMAIN entry, <<x, y>> \in R
               PROVE  <<ApplyStep(x, entry[j], inv), ApplyStep(y, entry[j], inv)>> \in R
    OBVIOUS
  <2>1. entry[j] \in Step
    BY DEF Entry
  <2>2. /\ ApplyStep(x, entry[j], inv).annots[i] = x.annots[i]
        /\ i \in ApplyStep(x, entry[j], inv).images <=> i \in x.images
    BY <2>1, StepElsewhere
  <2> QED BY <1>1, <2>1, <2>2, ApplyStepFacts
<1>3. <<Apply(u, entry, inv), Apply(u, entry, inv)>> \in R
  BY <1>1, <1>2, ApplyRelated
<1> QED BY <1>1, <1>3, ApplyTyped

\* Images that come on their own, and that no step is about, come to every state.
Grown(u, S) == [annots |-> u.annots, images |-> u.images \cup S]

LEMMA GrownTyped ==
    ASSUME NEW u \in States, NEW S \in SUBSET Images
    PROVE  /\ Grown(u, S) \in States
           /\ Grown(u, S).annots = u.annots /\ Grown(u, S).images = u.images \cup S
BY DEF Grown, States

LEMMA StepGrown ==
    ASSUME NEW u \in States, NEW S \in SUBSET Images, NEW s \in Step, NEW inv \in Ways, s.img \notin S
    PROVE  ApplyStep(Grown(u, S), s, inv) = Grown(ApplyStep(u, s, inv), S)
<1> DEFINE g == Grown(u, S)
           a == ApplyStep(u, s, inv)
           b == ApplyStep(g, s, inv)
<1>1. g \in States /\ g.annots = u.annots /\ g.images = u.images \cup S
  BY GrownTyped
<1>2. a \in States /\ b \in States
  BY <1>1, ApplyStepFacts
<1>3. Listed(g.images, s, inv) = Listed(u.images, s, inv) \cup S
  <2>1. (u.images \cup S) \ {s.img} = (u.images \ {s.img}) \cup S
    OBVIOUS
  <2>2. (u.images \cup S) \cup {s.img} = (u.images \cup {s.img}) \cup S
    OBVIOUS
  <2> QED BY <1>1, <2>1, <2>2, Zenon DEF Listed
<1>4. (\A i \in Images : b.annots[i] = a.annots[i]) /\ b.images = a.images \cup S
  <2>1. \A i \in Images : b.annots[i] = Drawn(g.annots[i], i, s, inv) /\ a.annots[i] = Drawn(u.annots[i], i, s, inv)
    BY <1>1, ApplyStepFacts
  <2>2. b.images = Listed(g.images, s, inv) /\ a.images = Listed(u.images, s, inv)
    BY <1>1, ApplyStepFacts
  <2> HIDE DEF a, b, g
  <2> QED BY <1>1, <1>3, <2>1, <2>2
<1> HIDE DEF a, b
<1>5. b = Grown(a, S)
  <2> DEFINE c == Grown(a, S)
  <2>1. c \in States /\ c.annots = a.annots /\ c.images = a.images \cup S
    BY <1>2, GrownTyped
  <2> HIDE DEF c
  <2>2. (\A i \in Images : b.annots[i] = c.annots[i]) /\ b.images = c.images
    BY <1>4, <2>1
  <2>3. b \in States
    BY <1>2
  <2>4. b = c
    BY <2>1, <2>2, <2>3, StatesEqual
  <2> QED BY <2>4 DEF c
<1> QED BY <1>5 DEF a, b

\* An entry that spares an image does the same whether it is listed or not.
LEMMA ApplyGrown ==
    ASSUME NEW u \in States, NEW S \in SUBSET Images, NEW entry \in Entry, NEW inv \in Ways,
           \A j \in DOMAIN entry : entry[j].img \notin S
    PROVE  Apply(Grown(u, S), entry, inv) = Grown(Apply(u, entry, inv), S)
<1> DEFINE R == {w \in States \X States : w[2] = Grown(w[1], S)}
<1>1. \A x, y \in States : <<x, y>> \in R <=> y = Grown(x, S)
  OBVIOUS
<1> HIDE DEF R
<1>2. \A x, y \in States, j \in DOMAIN entry :
         <<x, y>> \in R => <<ApplyStep(x, entry[j], inv), ApplyStep(y, entry[j], inv)>> \in R
  <2> SUFFICES ASSUME NEW x \in States, NEW y \in States, NEW j \in DOMAIN entry, <<x, y>> \in R
               PROVE  <<ApplyStep(x, entry[j], inv), ApplyStep(y, entry[j], inv)>> \in R
    OBVIOUS
  <2>1. entry[j] \in Step
    BY DEF Entry
  <2>2. ApplyStep(y, entry[j], inv) = Grown(ApplyStep(x, entry[j], inv), S)
    BY <1>1, <2>1, StepGrown
  <2> QED BY <1>1, <2>1, <2>2, ApplyStepFacts
<1>3. <<u, Grown(u, S)>> \in R
  BY <1>1, GrownTyped
<1>4. <<Apply(u, entry, inv), Apply(Grown(u, S), entry, inv)>> \in R
  BY <1>2, <1>3, GrownTyped, ApplyRelated
<1> QED BY <1>1, <1>4, GrownTyped, ApplyTyped

---------------------------------------------------------------------------
\* Walks along a stack

Stack == Seq(Entry)

LEMMA NthFromEnd ==
    ASSUME NEW X, NEW s \in Seq(X), NEW k \in 1 .. Len(s)
    PROVE  /\ Len(s) \in Nat /\ Len(s) + 1 - k \in 1 .. Len(s) /\ DOMAIN s = 1 .. Len(s)
           /\ s[Len(s) + 1 - k] \in X /\ k - 1 \in 0 .. Len(s)
OBVIOUS

\* A walk is a fold of the entries, last first.
LEMMA WalkFacts ==
    ASSUME NEW u \in States, NEW s \in Stack, NEW inv \in Ways
    PROVE  /\ Walk(u, s, inv) \in [0 .. Len(s) -> States]
           /\ Walk(u, s, inv)[0] = u
           /\ \A k \in 1 .. Len(s) :
                 Walk(u, s, inv)[k] = Apply(Walk(u, s, inv)[k - 1], s[Len(s) + 1 - k], inv)
<1> DEFINE N == Len(s)
           Def(g, n) == g = [k \in 0 .. n |-> IF k = 0 THEN u ELSE Apply(g[k - 1], s[N + 1 - k], inv)]
           T == {n \in Nat : n <= N => \E g : Def(g, n) /\ g \in [0 .. n -> States]}
<1>0. N \in Nat
  BY DEF Stack
<1>1. 0 \in T
  <2> DEFINE g == [k \in 0 .. 0 |-> u]
  <2>1. Def(g, 0) /\ g \in [0 .. 0 -> States]
    OBVIOUS
  <2> QED BY <2>1
<1>2. ASSUME NEW n \in Nat, n \in T PROVE n + 1 \in T
  <2>1. SUFFICES ASSUME n + 1 <= N PROVE \E h : Def(h, n + 1) /\ h \in [0 .. n + 1 -> States]
    OBVIOUS
  <2>2. PICK g : Def(g, n) /\ g \in [0 .. n -> States]
    <3>1. n <= N
      BY <1>0, <2>1
    <3> QED BY <1>2, <3>1, Zenon
  <2> DEFINE last == Apply(g[n], s[N + 1 - (n + 1)], inv)
             h == [k \in 0 .. n + 1 |-> IF k = n + 1 THEN last ELSE g[k]]
  <2>3. last \in States
    <3>1. s[N + 1 - (n + 1)] \in Entry
      BY <1>0, <2>1, NthFromEnd DEF Stack
    <3>2. g[n] \in States
      BY <2>2
    <3> QED BY <3>1, <3>2, ApplyTyped
  <2>4. h \in [0 .. n + 1 -> States]
    <3> HIDE DEF last
    <3> QED BY <2>2, <2>3
  <2>5. ASSUME NEW k \in 0 .. n + 1
        PROVE  h[k] = IF k = 0 THEN u ELSE Apply(h[k - 1], s[N + 1 - k], inv)
    <3>1. CASE k = n + 1
      <4>1. h[k] = last /\ k - 1 = n /\ n # n + 1 /\ h[k - 1] = g[n] /\ k # 0
        BY <3>1
      <4> QED BY <4>1, <3>1
    <3>2. CASE k # n + 1
      <4>1. k \in 0 .. n /\ h[k] = g[k] /\ (k # 0 => h[k - 1] = g[k - 1])
        BY <3>2
      <4>2. g[k] = IF k = 0 THEN u ELSE Apply(g[k - 1], s[N + 1 - k], inv)
        BY <2>2, <4>1
      <4> QED BY <4>1, <4>2
    <3> QED BY <3>1, <3>2
  <2>6. Def(h, n + 1)
    <3> HIDE DEF last
    <3> QED BY <2>5
  <2> QED BY <2>4, <2>6
<1>3. PICK g : Def(g, N) /\ g \in [0 .. N -> States]
  <2> HIDE DEF T
  <2>1. N \in T
    BY <1>0, <1>1, <1>2, NatSteps
  <2> QED BY <1>0, <2>1 DEF T
<1> DEFINE f == CHOOSE x : Def(x, N)
<1>4. Walk(u, s, inv) = f
  BY DEF Walk
<1>5. Def(f, N)
  BY <1>3
<1> HIDE DEF f
<1>6. /\ f[0] = u /\ DOMAIN f = 0 .. N
      /\ \A k \in 1 .. N : f[k] = Apply(f[k - 1], s[N + 1 - k], inv)
  BY <1>0, <1>5
<1>7. \A k \in 0 .. N : f[k] \in States
  <2> DEFINE U == {n \in Nat : n <= N => f[n] \in States}
  <2>1. 0 \in U
    BY <1>6
  <2>2. ASSUME NEW n \in Nat, n \in U PROVE n + 1 \in U
    <3>1. SUFFICES ASSUME n + 1 <= N PROVE f[n + 1] \in States
      OBVIOUS
    <3>2. n + 1 \in 1 .. N /\ (n + 1) - 1 = n /\ f[n] \in States
      BY <1>0, <2>2, <3>1
    <3>3. s[N + 1 - (n + 1)] \in Entry
      BY <3>2, NthFromEnd DEF Stack
    <3> QED BY <1>6, <3>2, <3>3, ApplyTyped
  <2> HIDE DEF U
  <2>3. Nat \subseteq U
    BY <2>1, <2>2, NatSteps
  <2> QED BY <1>0, <2>3 DEF U
<1>8. f \in [0 .. N -> States]
  <2>1. f = [k \in 0 .. N |-> f[k]]
    BY <1>5
  <2> QED BY <1>7, <2>1
<1> QED BY <1>4, <1>6, <1>8

LEMMA WalkTyped ==
    ASSUME NEW u \in States, NEW s \in Stack, NEW inv \in Ways, NEW k \in 0 .. Len(s)
    PROVE  Walk(u, s, inv)[k] \in States
<1>1. Walk(u, s, inv) \in [0 .. Len(s) -> States]
  BY WalkFacts
<1> QED BY <1>1

\* What every entry of a stack keeps true of two states, the walks from them do.
LEMMA WalkRelated ==
    ASSUME NEW u \in States, NEW v \in States, NEW s \in Stack, NEW inv \in Ways,
           NEW R, <<u, v>> \in R,
           \A x, y \in States, j \in DOMAIN s :
              <<x, y>> \in R => <<Apply(x, s[j], inv), Apply(y, s[j], inv)>> \in R
    PROVE  \A k \in 0 .. Len(s) : <<Walk(u, s, inv)[k], Walk(v, s, inv)[k]>> \in R
<1> DEFINE N == Len(s)
           f == Walk(u, s, inv)
           g == Walk(v, s, inv)
           T == {n \in Nat : n <= N => <<f[n], g[n]>> \in R}
<1>0. N \in Nat
  BY DEF Stack
<1>1. /\ f \in [0 .. N -> States] /\ f[0] = u
      /\ \A k \in 1 .. N : f[k] = Apply(f[k - 1], s[N + 1 - k], inv)
  BY WalkFacts, Zenon
<1>2. /\ g \in [0 .. N -> States] /\ g[0] = v
      /\ \A k \in 1 .. N : g[k] = Apply(g[k - 1], s[N + 1 - k], inv)
  BY WalkFacts
<1> HIDE DEF f, g
<1>3. 0 \in T
  BY <1>1, <1>2
<1>4. ASSUME NEW n \in Nat, n \in T PROVE n + 1 \in T
  <2>1. SUFFICES ASSUME n + 1 <= N PROVE <<f[n + 1], g[n + 1]>> \in R
    OBVIOUS
  <2>2. n + 1 \in 1 .. N /\ (n + 1) - 1 = n /\ n \in 0 .. N
    BY <1>0, <2>1
  <2>3. <<f[n], g[n]>> \in R /\ f[n] \in States /\ g[n] \in States
    <3>1. <<f[n], g[n]>> \in R
      BY <1>0, <1>4, <2>1
    <3>2. f[n] \in States /\ g[n] \in States
      BY <2>2, WalkTyped DEF f, g
    <3> QED BY <3>1, <3>2
  <2>4. N + 1 - (n + 1) \in DOMAIN s
    BY <2>2, NthFromEnd DEF Stack
  <2>5. f[n + 1] = Apply(f[n], s[N + 1 - (n + 1)], inv) /\ g[n + 1] = Apply(g[n], s[N + 1 - (n + 1)], inv)
    BY <1>1, <1>2, <2>2
  <2> QED BY <2>3, <2>4, <2>5
<1>5. Nat \subseteq T
  <2> HIDE DEF T
  <2> QED BY <1>3, <1>4, NatSteps
<1> QED BY <1>0, <1>5 DEF f, g

\* d entries on, t goes along m entries of s.
Along(t, d, s, m) ==
    /\ d \in Nat /\ m \in Nat /\ m <= Len(s) /\ d + m <= Len(t)
    /\ \A k \in 1 .. m : t[Len(t) + 1 - (d + k)] = s[Len(s) + 1 - k]

\* Two walks along the same entries are one, however far along they meet.
LEMMA WalkMeets ==
    ASSUME NEW u \in States, NEW v \in States, NEW s \in Stack, NEW t \in Stack, NEW inv \in Ways,
           NEW d, NEW m, Along(t, d, s, m), Walk(v, t, inv)[d] = u
    PROVE  \A k \in 0 .. m : Walk(v, t, inv)[d + k] = Walk(u, s, inv)[k]
<1> DEFINE N == Len(s)
           M == Len(t)
           f == Walk(u, s, inv)
           g == Walk(v, t, inv)
           T == {n \in Nat : n <= m => g[d + n] = f[n]}
<1>0. /\ N \in Nat /\ M \in Nat /\ d \in Nat /\ m \in Nat /\ m <= N /\ d + m <= M
      /\ \A k \in 1 .. m : t[M + 1 - (d + k)] = s[N + 1 - k]
  BY DEF Stack, Along
<1>1. f[0] = u /\ \A k \in 1 .. N : f[k] = Apply(f[k - 1], s[N + 1 - k], inv)
  BY WalkFacts
<1>2. \A k \in 1 .. M : g[k] = Apply(g[k - 1], t[M + 1 - k], inv)
  BY WalkFacts
<1>3. g[d] = u
  OBVIOUS
<1> HIDE DEF f, g
<1>4. 0 \in T
  BY <1>0, <1>1, <1>3
<1>5. ASSUME NEW n \in Nat, n \in T PROVE n + 1 \in T
  <2>1. SUFFICES ASSUME n + 1 <= m PROVE g[d + (n + 1)] = f[n + 1]
    OBVIOUS
  <2>2. n + 1 \in 1 .. N /\ (n + 1) - 1 = n /\ n + 1 \in 1 .. m
    BY <1>0, <2>1
  <2>3. d + (n + 1) \in 1 .. M /\ d + (n + 1) - 1 = d + n
    BY <1>0, <2>1
  <2>4. g[d + n] = f[n]
    BY <1>5, <2>1, <1>0
  <2>5. t[M + 1 - (d + (n + 1))] = s[N + 1 - (n + 1)]
    BY <1>0, <2>2
  <2>6. f[n + 1] = Apply(f[n], s[N + 1 - (n + 1)], inv)
    BY <1>1, <2>2
  <2>7. g[d + (n + 1)] = Apply(g[d + n], t[M + 1 - (d + (n + 1))], inv)
    BY <1>0, <1>2, <2>3
  <2> QED BY <2>4, <2>5, <2>6, <2>7
<1>6. Nat \subseteq T
  <2> HIDE DEF T
  <2> QED BY <1>4, <1>5, NatSteps
<1> QED BY <1>0, <1>6 DEF f, g

---------------------------------------------------------------------------
\* States that are alike

LEMMA AlikeFacts ==
    ASSUME NEW u, NEW v, NEW C, Alike(u, v, C)
    PROVE  /\ Alike(v, u, C) /\ Alike(u, u, C)
           /\ \A w : Alike(v, w, C) => Alike(u, w, C)
           /\ \A D : C \subseteq D => Alike(u, v, D)
BY DEF Alike

LEMMA WalkAlike ==
    ASSUME NEW u \in States, NEW v \in States, NEW s \in Stack, NEW inv \in Ways,
           NEW C, Alike(u, v, C)
    PROVE  \A k \in 0 .. Len(s) : Alike(Walk(u, s, inv)[k], Walk(v, s, inv)[k], C)
<1> DEFINE R == {w \in States \X States : Alike(w[1], w[2], C)}
<1>1. \A x, y \in States : <<x, y>> \in R <=> Alike(x, y, C)
  OBVIOUS
<1>2. \A x, y \in States, j \in DOMAIN s :
         <<x, y>> \in R => <<Apply(x, s[j], inv), Apply(y, s[j], inv)>> \in R
  <2> SUFFICES ASSUME NEW x \in States, NEW y \in States, NEW j \in DOMAIN s, Alike(x, y, C)
               PROVE  <<Apply(x, s[j], inv), Apply(y, s[j], inv)>> \in R
    OBVIOUS
  <2>1. s[j] \in Entry
    BY DEF Stack
  <2> HIDE DEF R
  <2> QED BY <1>1, <2>1, ApplyTyped, ApplyAlike
<1>3. <<u, v>> \in R
  OBVIOUS
<1>4. \A k \in 0 .. Len(s) : <<Walk(u, s, inv)[k], Walk(v, s, inv)[k]>> \in R
  <2> HIDE DEF R
  <2> QED BY <1>2, <1>3, WalkRelated
<1> QED BY <1>4

\* No step of the stack is about i.
Spares(s, i) == \A j \in DOMAIN s : \A n \in DOMAIN s[j] : s[j][n].img # i

\* A walk along entries about other images leaves an image alone.
LEMMA WalkElsewhere ==
    ASSUME NEW u \in States, NEW s \in Stack, NEW inv \in Ways, NEW i \in Images, Spares(s, i)
    PROVE  \A k \in 0 .. Len(s) : Walk(u, s, inv)[k].annots[i] = u.annots[i]
<1> DEFINE R == {w \in States \X States : w[1].annots[i] = u.annots[i]}
<1>1. \A x, y \in States : <<x, y>> \in R <=> x.annots[i] = u.annots[i]
  OBVIOUS
<1> HIDE DEF R
<1>2. \A x, y \in States, j \in DOMAIN s :
         <<x, y>> \in R => <<Apply(x, s[j], inv), Apply(y, s[j], inv)>> \in R
  <2> SUFFICES ASSUME NEW x \in States, NEW y \in States, NEW j \in DOMAIN s, <<x, y>> \in R
               PROVE  <<Apply(x, s[j], inv), Apply(y, s[j], inv)>> \in R
    OBVIOUS
  <2>1. s[j] \in Entry /\ \A n \in DOMAIN s[j] : s[j][n].img # i
    BY DEF Stack, Spares
  <2>2. Apply(x, s[j], inv).annots[i] = x.annots[i]
    BY <2>1, ApplyElsewhere
  <2> QED BY <1>1, <2>1, <2>2, ApplyTyped
<1>3. <<u, u>> \in R
  BY <1>1
<1>4. \A k \in 0 .. Len(s) : <<Walk(u, s, inv)[k], Walk(u, s, inv)[k]>> \in R
  BY <1>2, <1>3, WalkRelated
<1>5. \A k \in 0 .. Len(s) : Walk(u, s, inv)[k] \in States
  BY WalkTyped
<1> QED BY <1>1, <1>4, <1>5

LEMMA WalkGrown ==
    ASSUME NEW u \in States, NEW S \in SUBSET Images, NEW s \in Stack, NEW inv \in Ways,
           \A i \in S : Spares(s, i)
    PROVE  \A k \in 0 .. Len(s) : Walk(Grown(u, S), s, inv)[k] = Grown(Walk(u, s, inv)[k], S)
<1> DEFINE R == {w \in States \X States : w[2] = Grown(w[1], S)}
<1>1. \A x, y \in States : <<x, y>> \in R <=> y = Grown(x, S)
  OBVIOUS
<1> HIDE DEF R
<1>2. \A x, y \in States, j \in DOMAIN s :
         <<x, y>> \in R => <<Apply(x, s[j], inv), Apply(y, s[j], inv)>> \in R
  <2> SUFFICES ASSUME NEW x \in States, NEW y \in States, NEW j \in DOMAIN s, <<x, y>> \in R
               PROVE  <<Apply(x, s[j], inv), Apply(y, s[j], inv)>> \in R
    OBVIOUS
  <2>1. s[j] \in Entry /\ \A n \in DOMAIN s[j] : s[j][n].img \notin S
    BY DEF Stack, Spares
  <2>2. Apply(y, s[j], inv) = Grown(Apply(x, s[j], inv), S)
    BY <1>1, <2>1, ApplyGrown
  <2> QED BY <1>1, <2>1, <2>2, ApplyTyped
<1>3. <<u, Grown(u, S)>> \in R
  BY <1>1, GrownTyped
<1>4. \A k \in 0 .. Len(s) : <<Walk(u, s, inv)[k], Walk(Grown(u, S), s, inv)[k]>> \in R
  BY <1>2, <1>3, GrownTyped, WalkRelated
<1>5. \A k \in 0 .. Len(s) : Walk(u, s, inv)[k] \in States /\ Walk(Grown(u, S), s, inv)[k] \in States
  BY WalkTyped, GrownTyped
<1> QED BY <1>1, <1>4, <1>5

\* The walk along a longer stack takes its last entry first.
LEMMA WalkAppend ==
    ASSUME NEW v \in States, NEW s \in Stack, NEW e \in Entry, NEW inv \in Ways
    PROVE  /\ Append(s, e) \in Stack /\ Len(Append(s, e)) = Len(s) + 1 /\ Len(s) \in Nat
           /\ Append(s, e)[Len(s) + 1] = e
           /\ \A k \in 1 .. Len(s) : Append(s, e)[k] = s[k]
           /\ \A k \in 0 .. Len(s) :
                 Walk(v, Append(s, e), inv)[k + 1] = Walk(Apply(v, e, inv), s, inv)[k]
<1> DEFINE t == Append(s, e)
           u == Apply(v, e, inv)
           N == Len(s)
<1>1. t \in Stack /\ Len(t) = N + 1 /\ N \in Nat /\ t[N + 1] = e /\ \A k \in 1 .. N : t[k] = s[k]
  BY DEF Stack
<1>0. Len(t) + 1 - 1 = N + 1 /\ 1 \in 1 .. Len(t) /\ 1 - 1 = 0
  <2> HIDE DEF t, N
  <2> QED BY <1>1
<1>2. u \in States
  BY ApplyTyped
<1>3. Walk(v, t, inv)[1] = u
  <2> HIDE DEF t, N
  <2>1. Walk(v, t, inv)[1] = Apply(Walk(v, t, inv)[1 - 1], t[Len(t) + 1 - 1], inv) /\ Walk(v, t, inv)[0] = v
    BY <1>0, <1>1, WalkFacts
  <2>2. t[Len(t) + 1 - 1] = e
    BY <1>0, <1>1
  <2> QED BY <1>0, <2>1, <2>2
<1>4. \A k \in 1 .. N : t[Len(t) + 1 - (1 + k)] = s[Len(s) + 1 - k]
  <2> HIDE DEF t
  <2> QED BY <1>1
<1>5. \A k \in 0 .. N : Walk(v, t, inv)[1 + k] = Walk(u, s, inv)[k]
  <2>1. 1 \in Nat /\ N \in Nat /\ N <= Len(s) /\ 1 + N <= Len(t)
    <3> HIDE DEF t
    <3> QED BY <1>1
  <2>2. t \in Stack
    BY <1>1
  <2>3. Along(t, 1, s, N)
    BY <1>4, <2>1 DEF Along
  <2> HIDE DEF t, u, N
  <2> QED BY <1>2, <1>3, <2>2, <2>3, WalkMeets
<1> HIDE DEF t, u, N
<1>7. ASSUME NEW k \in 0 .. N PROVE Walk(v, t, inv)[k + 1] = Walk(u, s, inv)[k]
  <2>1. 1 + k = k + 1
    BY <1>1
  <2> QED BY <1>5, <2>1
<1> QED BY <1>1, <1>7 DEF t, u, N

LEMMA CappedFacts ==
    ASSUME NEW X, NEW s \in Seq(X)
    PROVE  /\ Capped(s) \in Seq(X)
           /\ Len(Capped(s)) = IF Len(s) > UndoCap THEN UndoCap ELSE Len(s)
           /\ \A k \in 1 .. Len(Capped(s)) : Capped(s)[k] = s[Len(s) - Len(Capped(s)) + k]
<1>1. UndoCap \in Nat \ {0} /\ Len(s) \in Nat
  BY UndoAssumption
<1>2. CASE Len(s) > UndoCap
  <2>1. Capped(s) = SubSeq(s, Len(s) - UndoCap + 1, Len(s))
    BY <1>2 DEF Capped
  <2> DEFINE a == Len(s) - UndoCap + 1
             c == SubSeq(s, a, Len(s))
  <2>2. a \in 1 .. Len(s) /\ Len(s) - a + 1 = UndoCap
    BY <1>1, <1>2
  <2> HIDE DEF a
  <2>3. c \in Seq(X) /\ Len(c) = Len(s) - a + 1 /\ \A k \in 1 .. Len(c) : c[k] = s[a + k - 1]
    BY <1>1, <2>2
  <2> HIDE DEF c
  <2>4. Capped(s) = c
    BY <2>1 DEF a, c
  <2>5. Len(c) = UndoCap
    BY <2>2, <2>3
  <2>6. ASSUME NEW k \in 1 .. Len(c) PROVE c[k] = s[Len(s) - Len(c) + k]
    <3>1. a + k - 1 = Len(s) - Len(c) + k
      BY <1>1, <2>5 DEF a
    <3> QED BY <2>3, <3>1
  <2>7. Len(c) = IF Len(s) > UndoCap THEN UndoCap ELSE Len(s)
    BY <1>2, <2>5
  <2> QED BY <2>3, <2>4, <2>6, <2>7
<1>3. CASE ~(Len(s) > UndoCap)
  <2>1. Capped(s) = SubSeq(s, 1, Len(s))
    BY <1>3 DEF Capped
  <2>2. SubSeq(s, 1, Len(s)) = s
    BY <1>1
  <2>3. Capped(s) = s
    BY <2>1, <2>2
  <2>4. \A k \in 1 .. Len(s) : Len(s) - Len(s) + k = k
    BY <1>1
  <2> QED BY <1>1, <1>3, <2>3, <2>4
<1> QED BY <1>2, <1>3

\* The walk along the kept entries is the beginning of the walk along all.
LEMMA WalkCapped ==
    ASSUME NEW u \in States, NEW s \in Stack, NEW inv \in Ways
    PROVE  /\ Capped(s) \in Stack /\ Len(Capped(s)) <= Len(s) /\ Len(Capped(s)) \in Nat /\ Len(s) \in Nat
           /\ \A k \in 1 .. Len(Capped(s)) : Capped(s)[Len(Capped(s)) + 1 - k] = s[Len(s) + 1 - k]
           /\ \A k \in 0 .. Len(Capped(s)) : Walk(u, Capped(s), inv)[k] = Walk(u, s, inv)[k]
<1> DEFINE t == Capped(s)
           m == Len(t)
<1>1. t \in Stack /\ m <= Len(s) /\ m \in Nat /\ Len(s) \in Nat
  BY CappedFacts, UndoAssumption DEF Stack
<1>2. \A k \in 1 .. m : t[m + 1 - k] = s[Len(s) + 1 - k]
  <2>1. \A k \in 1 .. m : t[k] = s[Len(s) - m + k]
    BY CappedFacts DEF Stack
  <2> HIDE DEF t
  <2>2. ASSUME NEW k \in 1 .. m PROVE t[m + 1 - k] = s[Len(s) + 1 - k]
    <3>1. m + 1 - k \in 1 .. m /\ Len(s) - m + (m + 1 - k) = Len(s) + 1 - k
      BY <1>1
    <3> QED BY <2>1, <3>1
  <2> QED BY <2>2
<1>3. Walk(u, t, inv)[0] = u
  BY <1>1, WalkFacts
<1>4. \A k \in 0 .. m : Walk(u, s, inv)[0 + k] = Walk(u, t, inv)[k]
  <2>1. Walk(u, s, inv)[0] = u /\ 0 + m <= Len(s)
    BY <1>1, WalkFacts
  <2>2. \A k \in 1 .. m : s[Len(s) + 1 - (0 + k)] = t[Len(t) + 1 - k]
    <3> HIDE DEF t
    <3>1. \A k \in 1 .. m : 0 + k = k
      BY <1>1
    <3> QED BY <1>2, <3>1
  <2>3. 0 \in Nat /\ m \in Nat /\ m <= Len(t)
    BY <1>1
  <2>4. t \in Stack
    BY <1>1
  <2>5. Along(s, 0, t, m)
    BY <2>1, <2>2, <2>3 DEF Along
  <2> HIDE DEF t, m
  <2> QED BY <2>1, <2>4, <2>5, WalkMeets
<1> HIDE DEF t, m
<1>6. ASSUME NEW k \in 0 .. m PROVE Walk(u, t, inv)[k] = Walk(u, s, inv)[k]
  <2>1. 0 + k = k
    BY <1>1
  <2> QED BY <1>4, <2>1
<1> QED BY <1>1, <1>2, <1>6 DEF t, m

---------------------------------------------------------------------------
\* The history leads back

\* Annotations as the page numbers them, by numbers up to n: an id is of one
\* annotation, and an array is one ring of one of them.
Sound(S, n) ==
    /\ \A a, b \in S : a.id = b.id => a = b
    /\ \A a, b \in S : \A x \in Rings(a), y \in Rings(b) : x.ref = y.ref => a = b /\ x = y
    /\ \A a \in S : a.pts \notin a.holes
    /\ \A a \in S : a.id <= n /\ \A x \in Rings(a) : x.ref <= n /\ x.at <= n
SoundState(u, C, n) == \A i \in Images \ C : Sound(u.annots[i], n)

\* Taking an entry back and bringing it forth again, or the other way round,
\* changes nothing, on all images but those of C.
Returns(u, e, inv, C) == Alike(Apply(Apply(u, e, inv), e, Other(inv)), u, C)

\* The stack leads from sound states to sound states, entry by entry, and back.
Retraces(u, s, inv, C, n) ==
    /\ \A k \in 0 .. Len(s) : SoundState(Walk(u, s, inv)[k], C, n)
    /\ \A k \in 1 .. Len(s) : Returns(Walk(u, s, inv)[k - 1], s[Len(s) + 1 - k], inv, C)

\* What is sound by numbers up to n is sound by numbers up to a larger one.
LEMMA SoundMore ==
    ASSUME NEW S \in Drawings, NEW n \in Nat, NEW m \in Nat, n <= m, Sound(S, n)
    PROVE  Sound(S, m)
<1>1. \A a \in S : a.id \in Nat /\ \A x \in Rings(a) : x.ref \in Nat /\ x.at \in Nat
  <2>1. \A a \in S : a.id \in Nat /\ Rings(a) \subseteq Array
    BY FiniteFacts, DrawableFacts DEF Drawings, Rings
  <2> QED BY <2>1 DEF Array
<1>2. \A a \in S : a.id <= m /\ \A x \in Rings(a) : x.ref <= m /\ x.at <= m
  BY <1>1 DEF Sound
<1> QED BY <1>2 DEF Sound

LEMMA SoundAlike ==
    ASSUME NEW u \in States, NEW v \in States, NEW C, NEW D, C \subseteq D, Alike(u, v, D),
           NEW n \in Nat, NEW m \in Nat, n <= m, SoundState(u, C, n)
    PROVE  SoundState(v, D, m)
<1> SUFFICES ASSUME NEW i \in Images \ D PROVE Sound(v.annots[i], m)
  BY DEF SoundState
<1>1. Sound(u.annots[i], n) /\ u.annots[i] = v.annots[i] /\ u.annots[i] \in Drawings
  BY DEF SoundState, Alike, States
<1> QED BY <1>1, SoundMore

LEMMA ReturnsAlike ==
    ASSUME NEW u \in States, NEW v \in States, NEW C, NEW D, C \subseteq D, Alike(u, v, D),
           NEW e \in Entry, NEW inv \in Ways, Returns(u, e, inv, C)
    PROVE  Returns(v, e, inv, D)
<1> DEFINE x == Apply(u, e, inv)
           y == Apply(v, e, inv)
           xx == Apply(x, e, Other(inv))
           yy == Apply(y, e, Other(inv))
<1>1. x \in States /\ y \in States /\ Alike(x, y, D)
  BY ApplyTyped, ApplyAlike
<1>2. Alike(xx, yy, D)
  <2> HIDE DEF x, y
  <2>1. Other(inv) \in Ways
    BY WayFacts
  <2> QED BY <1>1, <2>1, ApplyAlike
<1>3. Alike(xx, u, D)
  BY AlikeFacts DEF Returns
<1>4. Alike(yy, v, D)
  <2> HIDE DEF xx, yy
  <2> QED BY <1>2, <1>3, AlikeFacts
<1> QED BY <1>4 DEF Returns

\* What leads forth leads back.
LEMMA ReturnsBack ==
    ASSUME NEW u \in States, NEW C, NEW e \in Entry, NEW inv \in Ways, Returns(u, e, inv, C)
    PROVE  Returns(Apply(u, e, inv), e, Other(inv), C)
<1> DEFINE x == Apply(u, e, inv)
           xx == Apply(x, e, Other(inv))
<1>1. x \in States
  BY ApplyTyped
<1>2. xx \in States
  <2> HIDE DEF x
  <2>1. Other(inv) \in Ways
    BY WayFacts
  <2> QED BY <1>1, <2>1, ApplyTyped
<1>3. Alike(xx, u, C)
  BY DEF Returns
<1>4. Alike(Apply(xx, e, inv), x, C)
  <2> HIDE DEF xx
  <2> QED BY <1>2, <1>3, ApplyAlike
<1>5. Other(Other(inv)) = inv
  BY WayFacts
<1> HIDE DEF x, xx
<1>6. Alike(Apply(xx, e, Other(Other(inv))), x, C)
  BY <1>4, <1>5
<1> QED BY <1>6 DEF Returns, xx, x

\* Only what is drawn on images that are not closed matters.
LEMMA RetracesAlike ==
    ASSUME NEW u \in States, NEW v \in States, NEW C, NEW D, C \subseteq D, Alike(u, v, D),
           NEW n \in Nat, NEW m \in Nat, n <= m,
           NEW s \in Stack, NEW inv \in Ways, Retraces(u, s, inv, C, n)
    PROVE  Retraces(v, s, inv, D, m)
<1> DEFINE f == Walk(u, s, inv)
           g == Walk(v, s, inv)
<1>1. \A k \in 0 .. Len(s) : f[k] \in States /\ g[k] \in States /\ Alike(f[k], g[k], D)
  BY WalkTyped, WalkAlike
<1>2. /\ \A k \in 0 .. Len(s) : SoundState(f[k], C, n)
      /\ \A k \in 1 .. Len(s) : Returns(f[k - 1], s[Len(s) + 1 - k], inv, C)
  BY DEF Retraces
<1> HIDE DEF f, g
<1>3. \A k \in 0 .. Len(s) : SoundState(g[k], D, m)
  BY <1>1, <1>2, SoundAlike
<1>4. ASSUME NEW k \in 1 .. Len(s) PROVE Returns(g[k - 1], s[Len(s) + 1 - k], inv, D)
  <2>1. k - 1 \in 0 .. Len(s) /\ s[Len(s) + 1 - k] \in Entry
    BY NthFromEnd DEF Stack
  <2> QED BY <1>1, <1>2, <2>1, ReturnsAlike
<1> QED BY <1>3, <1>4 DEF Retraces, f, g

\* With an entry that leads back, the longer stack is as sound, and the other way round.
LEMMA RetracesAppend ==
    ASSUME NEW v \in States, NEW C, NEW n, NEW s \in Stack, NEW e \in Entry, NEW inv \in Ways
    PROVE  Retraces(v, Append(s, e), inv, C, n) <=>
              /\ SoundState(v, C, n) /\ Returns(v, e, inv, C)
              /\ Retraces(Apply(v, e, inv), s, inv, C, n)
<1> DEFINE t == Append(s, e)
           N == Len(s)
           f == Walk(v, t, inv)
           g == Walk(Apply(v, e, inv), s, inv)
<1>1. /\ N \in Nat /\ Len(t) = N + 1 /\ t[N + 1] = e /\ t \in Stack
      /\ \A k \in 1 .. N : t[k] = s[k]
      /\ \A k \in 0 .. N : f[k + 1] = g[k]
  BY WalkAppend
<1>2. f[0] = v
  BY <1>1, WalkFacts
<1> HIDE DEF t, f, g, N
<1>3. (\A k \in 0 .. Len(t) : SoundState(f[k], C, n)) <=>
         SoundState(v, C, n) /\ \A k \in 0 .. N : SoundState(g[k], C, n)
  <2>1. ASSUME \A k \in 0 .. Len(t) : SoundState(f[k], C, n)
        PROVE  SoundState(v, C, n) /\ \A k \in 0 .. N : SoundState(g[k], C, n)
    <3>1. 0 \in 0 .. Len(t)
      BY <1>1
    <3>2. \A k \in 0 .. N : k + 1 \in 0 .. Len(t)
      BY <1>1
    <3> QED BY <1>1, <1>2, <2>1, <3>1, <3>2
  <2>2. ASSUME SoundState(v, C, n), \A k \in 0 .. N : SoundState(g[k], C, n), NEW k \in 0 .. Len(t)
        PROVE  SoundState(f[k], C, n)
    <3>1. CASE k = 0
      BY <1>2, <2>2, <3>1
    <3>2. CASE k # 0
      <4>1. k - 1 \in 0 .. N /\ (k - 1) + 1 = k
        BY <1>1, <3>2
      <4>2. f[k] = g[k - 1]
        BY <1>1, <4>1
      <4> QED BY <2>2, <4>1, <4>2
    <3> QED BY <3>1, <3>2
  <2> QED BY <2>1, <2>2
<1>4. (\A k \in 1 .. Len(t) : Returns(f[k - 1], t[Len(t) + 1 - k], inv, C)) <=>
         Returns(v, e, inv, C) /\ \A k \in 1 .. N : Returns(g[k - 1], s[N + 1 - k], inv, C)
  <2>0. f[1 - 1] = v /\ t[Len(t) + 1 - 1] = e /\ 1 \in 1 .. Len(t)
    BY <1>1, <1>2
  <2>1. ASSUME NEW k \in 1 .. N
        PROVE  k + 1 \in 1 .. Len(t) /\ f[(k + 1) - 1] = g[k - 1] /\ t[Len(t) + 1 - (k + 1)] = s[N + 1 - k]
    <3>1. /\ k + 1 \in 1 .. Len(t) /\ k - 1 \in 0 .. N /\ (k - 1) + 1 = k /\ (k + 1) - 1 = k
          /\ Len(t) + 1 - (k + 1) = N + 1 - k /\ N + 1 - k \in 1 .. N
      BY <1>1
    <3>2. f[k] = g[k - 1]
      BY <1>1, <3>1
    <3>3. t[N + 1 - k] = s[N + 1 - k]
      BY <1>1, <3>1
    <3> QED BY <3>1, <3>2, <3>3
  <2>2. ASSUME NEW k \in 1 .. Len(t), k # 1
        PROVE  /\ k - 1 \in 1 .. N /\ f[k - 1] = g[(k - 1) - 1]
               /\ t[Len(t) + 1 - k] = s[N + 1 - (k - 1)]
    <3>1. k - 1 \in 1 .. N /\ (k - 1) + 1 = k
      BY <1>1, <2>2
    <3> QED BY <2>1, <3>1
  <2>3. ASSUME \A k \in 1 .. Len(t) : Returns(f[k - 1], t[Len(t) + 1 - k], inv, C)
        PROVE  Returns(v, e, inv, C) /\ \A k \in 1 .. N : Returns(g[k - 1], s[N + 1 - k], inv, C)
    <3>1. Returns(f[1 - 1], t[Len(t) + 1 - 1], inv, C)
      BY <2>0, <2>3
    <3>2. ASSUME NEW k \in 1 .. N PROVE Returns(g[k - 1], s[N + 1 - k], inv, C)
      <4>1. Returns(f[(k + 1) - 1], t[Len(t) + 1 - (k + 1)], inv, C)
        BY <2>1, <2>3
      <4> QED BY <2>1, <4>1
    <3> QED BY <2>0, <3>1, <3>2
  <2>4. ASSUME Returns(v, e, inv, C), \A k \in 1 .. N : Returns(g[k - 1], s[N + 1 - k], inv, C),
               NEW k \in 1 .. Len(t)
        PROVE  Returns(f[k - 1], t[Len(t) + 1 - k], inv, C)
    <3>1. CASE k = 1
      BY <2>0, <2>4, <3>1
    <3>2. CASE k # 1
      <4>1. Returns(g[(k - 1) - 1], s[N + 1 - (k - 1)], inv, C)
        BY <2>2, <2>4, <3>2
      <4> QED BY <2>2, <3>2, <4>1
    <3> QED BY <3>1, <3>2
  <2> QED BY <2>3, <2>4
<1> QED BY <1>3, <1>4 DEF Retraces, t, f, g, N

\* So is a stack that forgot its oldest entries.
LEMMA RetracesCapped ==
    ASSUME NEW u \in States, NEW C, NEW n, NEW s \in Stack, NEW inv \in Ways, Retraces(u, s, inv, C, n)
    PROVE  Retraces(u, Capped(s), inv, C, n)
<1> DEFINE t == Capped(s)
           f == Walk(u, s, inv)
           g == Walk(u, t, inv)
<1>1. /\ t \in Stack /\ Len(t) <= Len(s) /\ Len(t) \in Nat /\ Len(s) \in Nat
      /\ \A k \in 1 .. Len(t) : t[Len(t) + 1 - k] = s[Len(s) + 1 - k]
      /\ \A k \in 0 .. Len(t) : g[k] = f[k]
  BY WalkCapped
<1>2. /\ \A k \in 0 .. Len(s) : SoundState(f[k], C, n)
      /\ \A k \in 1 .. Len(s) : Returns(f[k - 1], s[Len(s) + 1 - k], inv, C)
  BY DEF Retraces
<1> HIDE DEF t, f, g
<1>3. ASSUME NEW k \in 0 .. Len(t) PROVE SoundState(g[k], C, n)
  <2>1. k \in 0 .. Len(s)
    BY <1>1
  <2> QED BY <1>1, <1>2, <2>1
<1>4. ASSUME NEW k \in 1 .. Len(t) PROVE Returns(g[k - 1], t[Len(t) + 1 - k], inv, C)
  <2>1. k \in 1 .. Len(s) /\ k - 1 \in 0 .. Len(t)
    BY <1>1
  <2> QED BY <1>1, <1>2, <2>1
<1> QED BY <1>3, <1>4 DEF Retraces, t, f, g

LEMMA RetracesEmpty ==
    ASSUME NEW u \in States, NEW C, NEW n, NEW inv \in Ways, SoundState(u, C, n)
    PROVE  <<>> \in Stack /\ Retraces(u, <<>>, inv, C, n)
<1>1. <<>> \in Stack /\ Len(<<>>) = 0
  BY DEF Stack
<1>2. Walk(u, <<>>, inv)[0] = u
  BY <1>1, WalkFacts
<1>3. \A k \in 0 .. Len(<<>>) : k = 0
  BY <1>1
<1>4. \A k \in 1 .. Len(<<>>) : FALSE
  BY <1>1
<1>5. \A k \in 0 .. Len(<<>>) : SoundState(Walk(u, <<>>, inv)[k], C, n)
  BY <1>2, <1>3
<1> QED BY <1>1, <1>4, <1>5 DEF Retraces

LEMMA AlikeGrown ==
    ASSUME NEW u \in States, NEW v \in States, NEW S \in SUBSET Images, NEW C, Alike(u, v, C)
    PROVE  Alike(Grown(u, S), Grown(v, S), C)
<1>1. /\ Grown(u, S).annots = u.annots /\ Grown(u, S).images = u.images \cup S
      /\ Grown(v, S).annots = v.annots /\ Grown(v, S).images = v.images \cup S
  BY GrownTyped
<1> QED BY <1>1 DEF Alike

\* So is it with images no entry is about.
LEMMA RetracesGrown ==
    ASSUME NEW u \in States, NEW S \in SUBSET Images, NEW C, NEW n,
           NEW s \in Stack, NEW inv \in Ways, \A i \in S : Spares(s, i), Retraces(u, s, inv, C, n)
    PROVE  Retraces(Grown(u, S), s, inv, C, n)
<1> DEFINE f == Walk(u, s, inv)
           g == Walk(Grown(u, S), s, inv)
<1>1. \A k \in 0 .. Len(s) : f[k] \in States /\ g[k] = Grown(f[k], S)
  BY WalkTyped, WalkGrown
<1>2. /\ \A k \in 0 .. Len(s) : SoundState(f[k], C, n)
      /\ \A k \in 1 .. Len(s) : Returns(f[k - 1], s[Len(s) + 1 - k], inv, C)
  BY DEF Retraces
<1> HIDE DEF f, g
<1>3. ASSUME NEW k \in 0 .. Len(s) PROVE SoundState(g[k], C, n)
  <2>1. g[k].annots = f[k].annots
    BY <1>1, GrownTyped
  <2> QED BY <1>2, <2>1 DEF SoundState
<1>4. ASSUME NEW k \in 1 .. Len(s) PROVE Returns(g[k - 1], s[Len(s) + 1 - k], inv, C)
  <2> DEFINE e == s[Len(s) + 1 - k]
             x == f[k - 1]
             y == Apply(x, e, inv)
             z == Apply(y, e, Other(inv))
  <2>1. e \in Entry /\ k - 1 \in 0 .. Len(s)
    BY NthFromEnd DEF Stack
  <2>2. \A j \in DOMAIN e : e[j].img \notin S
    <3>1. Len(s) + 1 - k \in DOMAIN s
      BY NthFromEnd DEF Stack
    <3> QED BY <3>1 DEF Spares
  <2>3. x \in States /\ g[k - 1] = Grown(x, S) /\ Returns(x, e, inv, C)
    BY <1>1, <1>2, <2>1
  <2> HIDE DEF e, x
  <2>4. y \in States /\ Apply(Grown(x, S), e, inv) = Grown(y, S)
    BY <2>1, <2>2, <2>3, ApplyTyped, ApplyGrown
  <2> HIDE DEF y
  <2>5. Other(inv) \in Ways
    BY WayFacts
  <2>6. z \in States /\ Apply(Grown(y, S), e, Other(inv)) = Grown(z, S)
    BY <2>1, <2>2, <2>4, <2>5, ApplyTyped, ApplyGrown
  <2>7. Alike(z, x, C)
    BY <2>3 DEF Returns, y
  <2> HIDE DEF z
  <2>8. Alike(Grown(z, S), Grown(x, S), C)
    BY <2>3, <2>6, <2>7, AlikeGrown
  <2>9. Returns(Grown(x, S), e, inv, C)
    BY <2>4, <2>6, <2>8 DEF Returns
  <2> QED BY <2>3, <2>9 DEF e
<1> QED BY <1>3, <1>4 DEF Retraces, f, g

---------------------------------------------------------------------------
\* The documents along a walk

Docs(C) == {Document(w, C) : w \in States}

LEMMA UnwoundFacts ==
    ASSUME NEW u \in States, NEW s \in Stack, NEW inv \in Ways, NEW C
    PROVE  /\ Unwound(u, s, inv, C) \in Seq(Docs(C))
           /\ Len(s) \in Nat /\ Len(Unwound(u, s, inv, C)) = Len(s)
           /\ DOMAIN Unwound(u, s, inv, C) = 1 .. Len(s)
           /\ \A k \in 1 .. Len(s) : Unwound(u, s, inv, C)[k] = Document(Walk(u, s, inv)[Len(s) + 1 - k], C)
<1> DEFINE f == Walk(u, s, inv)
<1>1. Unwound(u, s, inv, C) = [k \in 1 .. Len(s) |-> Document(f[Len(s) + 1 - k], C)]
  BY DEF Unwound
<1>2. Len(s) \in Nat
  BY DEF Stack
<1>3. \A k \in 1 .. Len(s) : Document(f[Len(s) + 1 - k], C) \in Docs(C)
  <2>1. \A k \in 1 .. Len(s) : f[Len(s) + 1 - k] \in States
    <3>1. f \in [0 .. Len(s) -> States]
      BY WalkFacts
    <3> HIDE DEF f
    <3> QED BY <1>2, <3>1
  <2> HIDE DEF f
  <2> QED BY <2>1 DEF Docs
<1> HIDE DEF f
<1>4. [k \in 1 .. Len(s) |-> Document(f[Len(s) + 1 - k], C)] \in Seq(Docs(C))
  BY <1>2, <1>3
<1> QED BY <1>1, <1>2, <1>4 DEF f

LEMMA DocumentAlike ==
    ASSUME NEW u, NEW v, NEW C, Alike(u, v, C)
    PROVE  Document(u, C) = Document(v, C)
<1>1. ASSUME NEW i \in Images, i \notin C
      PROVE  /\ (i \in u.images) = (i \in v.images)
             /\ {Content(m) : m \in u.annots[i]} = {Content(m) : m \in v.annots[i]}
  BY <1>1 DEF Alike
<1> QED BY <1>1, Zenon DEF Document

LEMMA SameSequence ==
    ASSUME NEW X, NEW s \in Seq(X), NEW t \in Seq(X), Len(s) = Len(t), \A k \in 1 .. Len(s) : s[k] = t[k]
    PROVE  s = t
OBVIOUS

\* From u and v, the stack leads through the same documents.
SameUnwound(u, v, s, inv, C) == Unwound(u, s, inv, C) = Unwound(v, s, inv, C)

\* Alike states keep the same documents.
LEMMA UnwoundAlike ==
    ASSUME NEW u \in States, NEW v \in States, NEW s \in Stack, NEW inv \in Ways, NEW C, Alike(u, v, C)
    PROVE  SameUnwound(u, v, s, inv, C)
<1> DEFINE a == Unwound(u, s, inv, C)
           b == Unwound(v, s, inv, C)
<1>1. a \in Seq(Docs(C)) /\ b \in Seq(Docs(C)) /\ Len(s) \in Nat /\ Len(a) = Len(s) /\ Len(b) = Len(s)
  BY UnwoundFacts
<1>2. ASSUME NEW k \in 1 .. Len(s) PROVE a[k] = b[k]
  <2>1. Len(s) + 1 - k \in 0 .. Len(s)
    BY <1>1
  <2>2. Alike(Walk(u, s, inv)[Len(s) + 1 - k], Walk(v, s, inv)[Len(s) + 1 - k], C)
    BY <2>1, WalkAlike
  <2> QED BY <2>2, UnwoundFacts, DocumentAlike
<1> HIDE DEF a, b
<1> QED BY <1>1, <1>2, SameSequence DEF a, b, SameUnwound

\* An entry adds the document it leads to.
LEMMA UnwoundAppend ==
    ASSUME NEW v \in States, NEW s \in Stack, NEW e \in Entry, NEW inv \in Ways, NEW C
    PROVE  Unwound(v, Append(s, e), inv, C) =
              Append(Unwound(Apply(v, e, inv), s, inv, C), Document(Apply(v, e, inv), C))
<1> DEFINE t == Append(s, e)
           N == Len(s)
           u == Apply(v, e, inv)
           a == Unwound(v, t, inv, C)
           b == Unwound(u, s, inv, C)
           c == Append(b, Document(u, C))
<1>1. /\ N \in Nat /\ Len(t) = N + 1 /\ t \in Stack /\ u \in States
      /\ \A k \in 0 .. N : Walk(v, t, inv)[k + 1] = Walk(u, s, inv)[k]
  BY WalkAppend, ApplyTyped
<1> HIDE DEF t, u
<1>2. /\ a \in Seq(Docs(C)) /\ Len(a) = N + 1
      /\ \A k \in 1 .. N + 1 : a[k] = Document(Walk(v, t, inv)[(N + 1) + 1 - k], C)
  BY <1>1, UnwoundFacts
<1>3. /\ b \in Seq(Docs(C)) /\ Len(b) = N
      /\ \A k \in 1 .. N : b[k] = Document(Walk(u, s, inv)[N + 1 - k], C)
  BY <1>1, UnwoundFacts
<1> HIDE DEF a, b, N
<1>4. Document(u, C) \in Docs(C)
  BY <1>1 DEF Docs
<1>5. c \in Seq(Docs(C)) /\ Len(c) = N + 1 /\ c[N + 1] = Document(u, C) /\ \A k \in 1 .. N : c[k] = b[k]
  BY <1>1, <1>3, <1>4
<1>6. ASSUME NEW k \in 1 .. N + 1 PROVE a[k] = c[k]
  <2>1. CASE k = N + 1
    <3>1. (N + 1) + 1 - k = 0 + 1 /\ 0 \in 0 .. N
      BY <1>1, <2>1
    <3>2. Walk(u, s, inv)[0] = u
      BY <1>1, WalkFacts
    <3>3. Walk(v, t, inv)[0 + 1] = Walk(u, s, inv)[0]
      BY <1>1, <3>1
    <3> QED BY <1>2, <1>5, <2>1, <3>1, <3>2, <3>3
  <2>2. CASE k # N + 1
    <3>1. k \in 1 .. N /\ (N + 1) + 1 - k = (N + 1 - k) + 1 /\ N + 1 - k \in 0 .. N
      BY <1>1, <2>2
    <3>2. Walk(v, t, inv)[(N + 1 - k) + 1] = Walk(u, s, inv)[N + 1 - k]
      BY <1>1, <3>1
    <3> QED BY <1>2, <1>3, <1>5, <3>1, <3>2
  <2> QED BY <2>1, <2>2
<1> HIDE DEF c
<1>7. a = c
  BY <1>2, <1>5, <1>6, SameSequence
<1> QED BY <1>7 DEF a, b, c, t, u

\* Forgetting an entry forgets its document.
LEMMA UnwoundCapped ==
    ASSUME NEW u \in States, NEW s \in Stack, NEW inv \in Ways, NEW C
    PROVE  Unwound(u, Capped(s), inv, C) = Capped(Unwound(u, s, inv, C))
<1> DEFINE t == Capped(s)
           M == Len(t)
           N == Len(s)
           a == Unwound(u, t, inv, C)
           b == Unwound(u, s, inv, C)
           c == Capped(b)
<1>1. /\ t \in Stack /\ M <= N /\ M \in Nat /\ N \in Nat
      /\ \A k \in 0 .. M : Walk(u, t, inv)[k] = Walk(u, s, inv)[k]
  BY WalkCapped
<1>2. M = IF N > UndoCap THEN UndoCap ELSE N
  BY CappedFacts DEF Stack
<1> HIDE DEF t, M, N
<1>3. a \in Seq(Docs(C)) /\ Len(a) = M /\ \A k \in 1 .. M : a[k] = Document(Walk(u, t, inv)[M + 1 - k], C)
  BY <1>1, UnwoundFacts DEF M
<1>4. b \in Seq(Docs(C)) /\ Len(b) = N /\ \A k \in 1 .. N : b[k] = Document(Walk(u, s, inv)[N + 1 - k], C)
  BY <1>1, UnwoundFacts DEF N
<1> HIDE DEF a, b
<1>5. c \in Seq(Docs(C)) /\ Len(c) = M /\ \A k \in 1 .. M : c[k] = b[N - M + k]
  <2>1. c \in Seq(Docs(C)) /\ \A k \in 1 .. Len(c) : c[k] = b[Len(b) - Len(c) + k]
    BY <1>4, CappedFacts
  <2>2. Len(c) = IF Len(b) > UndoCap THEN UndoCap ELSE Len(b)
    BY <1>4, CappedFacts
  <2>3. Len(c) = M
    BY <1>2, <1>4, <2>2
  <2> HIDE DEF c
  <2> QED BY <1>4, <2>1, <2>3
<1> HIDE DEF c
<1>6. ASSUME NEW k \in 1 .. M PROVE a[k] = c[k]
  <2>1. N - M + k \in 1 .. N /\ N + 1 - (N - M + k) = M + 1 - k /\ M + 1 - k \in 0 .. M
    BY <1>1
  <2>2. c[k] = Document(Walk(u, s, inv)[M + 1 - k], C)
    BY <1>4, <1>5, <2>1
  <2>3. Walk(u, t, inv)[M + 1 - k] = Walk(u, s, inv)[M + 1 - k]
    BY <1>1, <2>1
  <2> QED BY <1>3, <2>2, <2>3
<1>7. a = c
  BY <1>3, <1>5, <1>6, SameSequence
<1> QED BY <1>7 DEF a, b, c, t

---------------------------------------------------------------------------
\* What comes or goes on its own does so in every document.

\* The parts S are those of d in every document from v, without D, and the
\* others as from u, without C.
UnwoundWith(v, D, u, C, s, inv, S, d) ==
    Unwound(v, s, inv, D) =
       [n \in DOMAIN Unwound(u, s, inv, C) |-> Snapshots!With(Unwound(u, s, inv, C)[n], S, d)]

LEMMA DocumentClosed ==
    ASSUME NEW u \in States, NEW v \in States, NEW w \in States, NEW C, NEW i \in Images, Alike(u, v, C \cup {i})
    PROVE  Document(v, C \cup {i}) = Snapshots!With(Document(u, C), {i}, Document(w, C \cup {i}))
<1> DEFINE D == C \cup {i}
           a == Document(v, D)
           b == Document(u, C)
           c == Document(w, D)
<1>1. DOMAIN a = Images
  BY DEF Document
<1>2. ASSUME NEW k \in Images PROVE a[k] = IF k \in {i} THEN c[k] ELSE b[k]
  <2>1. CASE k \in {i}
    BY <2>1 DEF Document
  <2>2. CASE k \notin {i} /\ k \in C
    BY <2>2 DEF Document
  <2>3. CASE k \notin D
    <3>1. (k \in u.images) = (k \in v.images) /\ u.annots[k] = v.annots[k]
      BY <2>3 DEF Alike
    <3> QED BY <2>3, <3>1 DEF Document
  <2> QED BY <2>1, <2>2, <2>3
<1>3. a = [k \in Images |-> a[k]]
  BY DEF Document
<1> HIDE DEF a, b, c
<1>4. a = [k \in Images |-> IF k \in {i} THEN c[k] ELSE b[k]]
  BY <1>2, <1>3
<1> QED BY <1>4 DEF a, b, c, D, Snapshots!With

\* An image closed leaves every document.
LEMMA UnwoundClosed ==
    ASSUME NEW u \in States, NEW v \in States, NEW s \in Stack, NEW inv \in Ways,
           NEW C, NEW i \in Images, Alike(u, v, C \cup {i})
    PROVE  UnwoundWith(v, C \cup {i}, u, C, s, inv, {i}, Document(v, C \cup {i}))
<1> DEFINE D == C \cup {i}
           a == Unwound(v, s, inv, D)
           b == Unwound(u, s, inv, C)
<1>1. /\ Len(s) \in Nat /\ DOMAIN a = 1 .. Len(s) /\ DOMAIN b = 1 .. Len(s)
      /\ a \in Seq(Docs(D))
      /\ \A k \in 1 .. Len(s) : a[k] = Document(Walk(v, s, inv)[Len(s) + 1 - k], D)
      /\ \A k \in 1 .. Len(s) : b[k] = Document(Walk(u, s, inv)[Len(s) + 1 - k], C)
  <2> HIDE DEF D
  <2> QED BY UnwoundFacts
<1>2. ASSUME NEW k \in 1 .. Len(s) PROVE a[k] = Snapshots!With(b[k], {i}, Document(v, D))
  <2> DEFINE x == Walk(u, s, inv)[Len(s) + 1 - k]
             y == Walk(v, s, inv)[Len(s) + 1 - k]
  <2>1. Len(s) + 1 - k \in 0 .. Len(s)
    BY <1>1
  <2>2. x \in States /\ y \in States
    BY <2>1, WalkTyped
  <2>3. Alike(x, y, D)
    BY <2>1, WalkAlike
  <2>4. a[k] = Document(y, D) /\ b[k] = Document(x, C)
    BY <1>1
  <2> HIDE DEF x, y, a, b
  <2> QED BY <2>2, <2>3, <2>4, DocumentClosed
<1>3. a = [k \in 1 .. Len(s) |-> a[k]]
  <2> HIDE DEF a
  <2> QED BY <1>1
<1> HIDE DEF a, b, D
<1>4. a = [k \in DOMAIN b |-> Snapshots!With(b[k], {i}, Document(v, D))]
  BY <1>1, <1>2, <1>3
<1> QED BY <1>4 DEF a, b, D, UnwoundWith

LEMMA DocumentGrown ==
    ASSUME NEW u \in States, NEW w \in States, NEW C, NEW S \in SUBSET Images,
           \A i \in S : u.annots[i] = w.annots[i]
    PROVE  Document(Grown(u, S), C) = Snapshots!With(Document(u, C), S, Document(Grown(w, S), C))
<1> DEFINE a == Document(Grown(u, S), C)
           b == Document(u, C)
           c == Document(Grown(w, S), C)
<1>0. /\ Grown(u, S).annots = u.annots /\ Grown(u, S).images = u.images \cup S
      /\ Grown(w, S).annots = w.annots /\ Grown(w, S).images = w.images \cup S
  BY GrownTyped
<1>2. ASSUME NEW k \in Images PROVE a[k] = IF k \in S THEN c[k] ELSE b[k]
  <2>1. CASE k \in C
    BY <2>1 DEF Document
  <2>2. CASE k \notin C /\ k \in S
    <3>1. (k \in Grown(u, S).images) = (k \in Grown(w, S).images)
      BY <1>0, <2>2
    <3>2. Grown(u, S).annots[k] = Grown(w, S).annots[k]
      BY <1>0, <2>2
    <3> QED BY <2>2, <3>1, <3>2 DEF Document
  <2>3. CASE k \notin C /\ k \notin S
    <3>1. (k \in Grown(u, S).images) = (k \in u.images)
      BY <1>0, <2>3
    <3> QED BY <1>0, <2>3, <3>1 DEF Document
  <2> QED BY <2>1, <2>2, <2>3
<1>3. a = [k \in Images |-> a[k]]
  BY DEF Document
<1> HIDE DEF a, b, c
<1>4. a = [k \in Images |-> IF k \in S THEN c[k] ELSE b[k]]
  BY <1>2, <1>3
<1> QED BY <1>4 DEF a, b, c, Snapshots!With

\* An image that comes joins every document.
LEMMA UnwoundGrown ==
    ASSUME NEW u \in States, NEW s \in Stack, NEW inv \in Ways, NEW C, NEW S \in SUBSET Images,
           \A i \in S : Spares(s, i)
    PROVE  UnwoundWith(Grown(u, S), C, u, C, s, inv, S, Document(Grown(u, S), C))
<1> DEFINE v == Grown(u, S)
           a == Unwound(v, s, inv, C)
           b == Unwound(u, s, inv, C)
<1>0. v \in States
  BY GrownTyped
<1>1. /\ Len(s) \in Nat /\ DOMAIN a = 1 .. Len(s) /\ DOMAIN b = 1 .. Len(s)
      /\ a \in Seq(Docs(C))
      /\ \A k \in 1 .. Len(s) : a[k] = Document(Walk(v, s, inv)[Len(s) + 1 - k], C)
      /\ \A k \in 1 .. Len(s) : b[k] = Document(Walk(u, s, inv)[Len(s) + 1 - k], C)
  <2> HIDE DEF v
  <2> QED BY <1>0, UnwoundFacts
<1>2. ASSUME NEW k \in 1 .. Len(s) PROVE a[k] = Snapshots!With(b[k], S, Document(v, C))
  <2> DEFINE x == Walk(u, s, inv)[Len(s) + 1 - k]
             y == Walk(v, s, inv)[Len(s) + 1 - k]
  <2>1. Len(s) + 1 - k \in 0 .. Len(s)
    BY <1>1
  <2>2. x \in States /\ y = Grown(x, S)
    BY <2>1, WalkTyped, WalkGrown
  <2>3. \A i \in S : x.annots[i] = u.annots[i]
    BY <2>1, WalkElsewhere
  <2>4. a[k] = Document(y, C) /\ b[k] = Document(x, C)
    BY <1>1
  <2> HIDE DEF x, y, a, b
  <2>5. Document(Grown(x, S), C) = Snapshots!With(Document(x, C), S, Document(Grown(u, S), C))
    BY <2>2, <2>3, DocumentGrown
  <2> QED BY <2>2, <2>4, <2>5
<1>3. a = [k \in 1 .. Len(s) |-> a[k]]
  <2> HIDE DEF a
  <2> QED BY <1>1
<1> HIDE DEF a, b
<1>4. a = [k \in DOMAIN b |-> Snapshots!With(b[k], S, Document(v, C))]
  BY <1>1, <1>2, <1>3
<1> QED BY <1>4 DEF a, b, UnwoundWith

---------------------------------------------------------------------------
\* Entries of many steps

\* A sequence of all members, each once.
LEMMA SetToSeqFacts ==
    ASSUME NEW S, IsFiniteSet(S)
    PROVE  SetToSeq(S) \in Seq(S) /\ S = Range(SetToSeq(S))
<1> DEFINE N == Cardinality(S)
           P(f) == f \in [1 .. N -> S] /\ IsInjective(f)
           q == SetToSeq(S)
<1>1. N \in Nat /\ ExistsBijection(1 .. N, S)
  BY FS_CardinalityType
<1>2. \E f : P(f)
  BY <1>1 DEF ExistsBijection, Bijection, Injection
<1>3. P(q)
  BY <1>2 DEF SetToSeq
<1>4. q \in Injection(1 .. N, S)
  BY <1>3 DEF Injection
<1>5. Cardinality(1 .. N) = N
  <2>1. 1 \in Int /\ N \in Int /\ Cardinality(1 .. N) = IF 1 > N THEN 0 ELSE N - 1 + 1
    BY <1>1, FS_Interval
  <2> HIDE DEF N
  <2> QED BY <1>1, <2>1
<1> HIDE DEF q
<1>6. q \in Surjection(1 .. N, S)
  BY <1>4, <1>5, FS_Injection
<1>7. q \in [1 .. N -> S] /\ \A x \in S : \E n \in 1 .. N : q[n] = x
  BY <1>3, <1>6 DEF Surjection
<1> HIDE DEF N
<1>8. q \in Seq(S) /\ DOMAIN q = 1 .. N
  BY <1>1, <1>7
<1> QED BY <1>7, <1>8 DEF q, Range

LEMMA NthAll ==
    ASSUME NEW X, NEW s \in Seq(X)
    PROVE  /\ {Nth(s, k, TRUE) : k \in 1 .. Len(s)} = Range(s)
           /\ {Nth(s, k, FALSE) : k \in 1 .. Len(s)} = Range(s)
           /\ \A inv \in Ways : {Nth(s, k, inv) : k \in 1 .. Len(s)} = Range(s)
<1>1. Len(s) \in Nat /\ DOMAIN s = 1 .. Len(s)
  OBVIOUS
<1>2. \A k \in 1 .. Len(s) : Len(s) + 1 - k \in 1 .. Len(s) /\ Len(s) + 1 - (Len(s) + 1 - k) = k
  BY <1>1
<1>3. {Nth(s, k, TRUE) : k \in 1 .. Len(s)} = Range(s)
  BY <1>1, <1>2 DEF Nth, Range
<1>4. {Nth(s, k, FALSE) : k \in 1 .. Len(s)} = Range(s)
  BY <1>1 DEF Nth, Range
<1>5. ASSUME NEW inv \in Ways PROVE {Nth(s, k, inv) : k \in 1 .. Len(s)} = Range(s)
  <2>1. inv = TRUE \/ inv = FALSE
    BY DEF Ways
  <2> QED BY <1>3, <1>4, <2>1, Zenon
<1> QED BY <1>3, <1>4, <1>5

\* What each step in turn keeps, the entry does.
LEMMA ApplyInTurn ==
    ASSUME NEW u \in States, NEW e \in Entry, NEW inv \in Ways, NEW R, <<0, u>> \in R,
           \A n \in Nat, x \in States :
              n + 1 <= Len(e) /\ <<n, x>> \in R => <<n + 1, ApplyStep(x, Nth(e, n + 1, inv), inv)>> \in R
    PROVE  <<Len(e), Apply(u, e, inv)>> \in R
<1> DEFINE N == Len(e)
<1>1. PICK f : Through(f, u, e, inv) /\ Apply(u, e, inv) = f[N]
  BY ApplyThrough
<1>2. N \in Nat
  BY DEF Entry
<1> DEFINE T == {n \in Nat : n <= N => <<n, f[n]>> \in R}
<1>3. 0 \in T
  BY <1>1 DEF Through
<1>4. ASSUME NEW n \in Nat, n \in T PROVE n + 1 \in T
  <2>1. SUFFICES ASSUME n + 1 <= N PROVE <<n + 1, f[n + 1]>> \in R
    OBVIOUS
  <2>2. n + 1 \in 1 .. N /\ (n + 1) - 1 = n /\ n \in 0 .. N
    BY <1>2, <2>1
  <2>3. <<n, f[n]>> \in R /\ f[n] \in States
    BY <1>1, <1>2, <1>4, <2>1, <2>2 DEF Through
  <2>4. f[n + 1] = ApplyStep(f[n], Nth(e, n + 1, inv), inv)
    BY <1>1, <2>2 DEF Through
  <2> QED BY <2>1, <2>3, <2>4
<1>5. N \in T
  <2> HIDE DEF T
  <2> QED BY <1>2, <1>3, <1>4, NatSteps
<1> QED BY <1>1, <1>2, <1>5

LEMMA DeletionsFacts ==
    ASSUME NEW i \in Images, NEW q \in Seq(Drawable)
    PROVE  /\ Deletions(i, q) \in Entry /\ Len(Deletions(i, q)) = Len(q) /\ Len(q) \in Nat
           /\ DOMAIN Deletions(i, q) = DOMAIN q
           /\ \A n \in DOMAIN q : Deletions(i, q)[n] = [t |-> "measure-del", img |-> i, m |-> q[n]]
           /\ \A inv \in Ways, k \in 1 .. Len(q) :
                 Nth(Deletions(i, q), k, inv) = [t |-> "measure-del", img |-> i, m |-> Nth(q, k, inv)]
<1>1. \A n \in DOMAIN q : [t |-> "measure-del", img |-> i, m |-> q[n]] \in Step
  BY DEF Step
<1>2. DOMAIN q = 1 .. Len(q) /\ Len(q) \in Nat
  OBVIOUS
<1>3. Deletions(i, q) = [n \in 1 .. Len(q) |-> [t |-> "measure-del", img |-> i, m |-> q[n]]]
  BY <1>2 DEF Deletions
<1>4. Deletions(i, q) \in Entry /\ Len(Deletions(i, q)) = Len(q)
  BY <1>1, <1>2, <1>3 DEF Entry
<1>5. \A n \in 1 .. Len(q) : Deletions(i, q)[n] = [t |-> "measure-del", img |-> i, m |-> q[n]]
  BY <1>3
<1>6. ASSUME NEW inv \in Ways, NEW k \in 1 .. Len(q)
      PROVE  Nth(Deletions(i, q), k, inv) = [t |-> "measure-del", img |-> i, m |-> Nth(q, k, inv)]
  <2>1. Len(q) + 1 - k \in 1 .. Len(q)
    BY <1>2
  <2>2. CASE inv = TRUE
    <3>1. Nth(Deletions(i, q), k, TRUE) = [t |-> "measure-del", img |-> i, m |-> Nth(q, k, TRUE)]
      BY <1>4, <1>5, <2>1 DEF Nth
    <3> QED BY <2>2, <3>1, Zenon
  <2>3. CASE inv = FALSE
    <3>1. Nth(Deletions(i, q), k, FALSE) = [t |-> "measure-del", img |-> i, m |-> Nth(q, k, FALSE)]
      BY <1>5 DEF Nth
    <3> QED BY <2>3, <3>1, Zenon
  <2> QED BY <2>2, <2>3 DEF Ways
<1> QED BY <1>2, <1>3, <1>4, <1>5, <1>6

\* v is u with S drawn on image i.
Redraws(v, u, i, S) ==
    /\ v \in States /\ v.annots[i] = S /\ v.images = u.images
    /\ \A k \in Images \ {i} : v.annots[k] = u.annots[k]

\* What is left of S when all with the ids of D are deleted.
Spared(S, D) == {a \in S : \A m \in D : a.id # m.id}

\* Undone, the deletions of one command add what they deleted.
LEMMA DeletionsUndone ==
    ASSUME NEW u \in States, NEW i \in Images, NEW q \in Seq(Drawable)
    PROVE  Redraws(Apply(u, Deletions(i, q), TRUE), u, i, u.annots[i] \cup Range(q))
<1> DEFINE e == Deletions(i, q)
           Turn(n, x) == /\ x.annots[i] = u.annots[i] \cup {Nth(q, k, TRUE) : k \in 1 .. n}
                         /\ \A k \in Images \ {i} : x.annots[k] = u.annots[k]
                         /\ x.images = u.images
           R == {w \in Nat \X States : Turn(w[1], w[2])}
<1>1. \A n \in Nat, x \in States : <<n, x>> \in R <=> Turn(n, x)
  OBVIOUS
<1>2. <<0, u>> \in R
  <2>1. Turn(0, u)
    OBVIOUS
  <2> HIDE DEF R, Turn
  <2> QED BY <1>1, <2>1
<1>3. /\ e \in Entry /\ Len(e) = Len(q) /\ Len(q) \in Nat
      /\ \A k \in 1 .. Len(q) : Nth(e, k, TRUE) = [t |-> "measure-del", img |-> i, m |-> Nth(q, k, TRUE)]
  BY DeletionsFacts, WayFacts
<1> HIDE DEF e
<1>4. ASSUME NEW n \in Nat, NEW x \in States, n + 1 <= Len(e), <<n, x>> \in R
      PROVE  <<n + 1, ApplyStep(x, Nth(e, n + 1, TRUE), TRUE)>> \in R
  <2> DEFINE m == Nth(q, n + 1, TRUE)
             s == [t |-> "measure-del", img |-> i, m |-> m]
             y == ApplyStep(x, s, TRUE)
  <2>1. n + 1 \in 1 .. Len(q)
    BY <1>3, <1>4
  <2>2. s = Nth(e, n + 1, TRUE) /\ m \in Drawable
    BY <1>3, <2>1, WayFacts, NthTyped
  <2>3. s \in Step
    BY <2>2 DEF Step
  <2>4. Turn(n, x)
    <3> HIDE DEF Turn, R
    <3> QED BY <1>1, <1>4
  <2>5. s.t = "measure-del" /\ s.img = i /\ s.m = m
    OBVIOUS
  <2> HIDE DEF s
  <2>6. /\ y \in States
        /\ \A k \in Images : y.annots[k] = Drawn(x.annots[k], k, s, TRUE)
        /\ y.images = Listed(x.images, s, TRUE)
    BY <2>3, WayFacts, ApplyStepFacts
  <2> HIDE DEF y, m
  <2>7. y.annots[i] = x.annots[i] \cup {m} /\ y.images = x.images
    BY <2>5, <2>6 DEF Drawn, Redrawn, Added, Listed
  <2>8. \A k \in Images \ {i} : y.annots[k] = x.annots[k]
    BY <2>5, <2>6 DEF Drawn
  <2>9. {Nth(q, k, TRUE) : k \in 1 .. n + 1} = {Nth(q, k, TRUE) : k \in 1 .. n} \cup {m}
    <3>1. \A k : k \in 1 .. n + 1 <=> k \in 1 .. n \/ k = n + 1
      OBVIOUS
    <3> QED BY <3>1 DEF m
  <2>10. Turn(n + 1, y)
    BY <2>4, <2>7, <2>8, <2>9
  <2> HIDE DEF Turn, R
  <2>11. <<n + 1, y>> \in R
    BY <1>1, <2>6, <2>10
  <2> QED BY <2>2, <2>11 DEF y
<1>5. <<Len(e), Apply(u, e, TRUE)>> \in R
  <2> HIDE DEF R
  <2> QED BY <1>2, <1>3, <1>4, WayFacts, ApplyInTurn
<1>6. Turn(Len(q), Apply(u, e, TRUE)) /\ Apply(u, e, TRUE) \in States
  BY <1>3, <1>5
<1>7. {Nth(q, k, TRUE) : k \in 1 .. Len(q)} = Range(q)
  BY NthAll, Zenon
<1> QED BY <1>6, <1>7 DEF e, Redraws

\* Done again, they delete all with the ids of what they deleted.
LEMMA DeletionsRedone ==
    ASSUME NEW u \in States, NEW i \in Images, NEW q \in Seq(Drawable)
    PROVE  Redraws(Apply(u, Deletions(i, q), FALSE), u, i, Spared(u.annots[i], Range(q)))
<1> DEFINE e == Deletions(i, q)
           Turn(n, x) == /\ x.annots[i] =
                               {a \in u.annots[i] : \A m \in {Nth(q, k, FALSE) : k \in 1 .. n} : a.id # m.id}
                         /\ \A k \in Images \ {i} : x.annots[k] = u.annots[k]
                         /\ x.images = u.images
           R == {w \in Nat \X States : Turn(w[1], w[2])}
<1>1. \A n \in Nat, x \in States : <<n, x>> \in R <=> Turn(n, x)
  OBVIOUS
<1>2. <<0, u>> \in R
  <2>1. Turn(0, u)
    OBVIOUS
  <2> HIDE DEF R, Turn
  <2> QED BY <1>1, <2>1
<1>3. /\ e \in Entry /\ Len(e) = Len(q) /\ Len(q) \in Nat
      /\ \A k \in 1 .. Len(q) : Nth(e, k, FALSE) = [t |-> "measure-del", img |-> i, m |-> Nth(q, k, FALSE)]
  BY DeletionsFacts, WayFacts
<1> HIDE DEF e
<1>4. ASSUME NEW n \in Nat, NEW x \in States, n + 1 <= Len(e), <<n, x>> \in R
      PROVE  <<n + 1, ApplyStep(x, Nth(e, n + 1, FALSE), FALSE)>> \in R
  <2> DEFINE m == Nth(q, n + 1, FALSE)
             s == [t |-> "measure-del", img |-> i, m |-> m]
             y == ApplyStep(x, s, FALSE)
  <2>1. n + 1 \in 1 .. Len(q)
    BY <1>3, <1>4
  <2>2. s = Nth(e, n + 1, FALSE) /\ m \in Drawable
    BY <1>3, <2>1, WayFacts, NthTyped
  <2>3. s \in Step
    BY <2>2 DEF Step
  <2>4. Turn(n, x)
    <3> HIDE DEF Turn, R
    <3> QED BY <1>1, <1>4
  <2>5. s.t = "measure-del" /\ s.img = i /\ s.m = m
    OBVIOUS
  <2> HIDE DEF s
  <2>6. /\ y \in States
        /\ \A k \in Images : y.annots[k] = Drawn(x.annots[k], k, s, FALSE)
        /\ y.images = Listed(x.images, s, FALSE)
    BY <2>3, WayFacts, ApplyStepFacts
  <2> HIDE DEF y, m
  <2>7. y.annots[i] = {a \in x.annots[i] : a.id # m.id} /\ y.images = x.images
    BY <2>5, <2>6 DEF Drawn, Redrawn, Removed, Without, Listed
  <2>8. \A k \in Images \ {i} : y.annots[k] = x.annots[k]
    BY <2>5, <2>6 DEF Drawn
  <2>9. {Nth(q, k, FALSE) : k \in 1 .. n + 1} = {Nth(q, k, FALSE) : k \in 1 .. n} \cup {m}
    <3>1. \A k : k \in 1 .. n + 1 <=> k \in 1 .. n \/ k = n + 1
      OBVIOUS
    <3> QED BY <3>1 DEF m
  <2>10. Turn(n + 1, y)
    <3> DEFINE before == {Nth(q, k, FALSE) : k \in 1 .. n}
               after == {Nth(q, k, FALSE) : k \in 1 .. n + 1}
    <3>1. x.annots[i] = {a \in u.annots[i] : \A j \in before : a.id # j.id}
      BY <2>4
    <3>2. after = before \cup {m}
      BY <2>9
    <3> HIDE DEF before, after
    <3>3. y.annots[i] = {a \in u.annots[i] : \A j \in after : a.id # j.id}
      BY <2>7, <3>1, <3>2
    <3> QED BY <2>4, <2>7, <2>8, <3>3 DEF after
  <2> HIDE DEF Turn, R
  <2>11. <<n + 1, y>> \in R
    BY <1>1, <2>6, <2>10
  <2> QED BY <2>2, <2>11 DEF y
<1>5. <<Len(e), Apply(u, e, FALSE)>> \in R
  <2> HIDE DEF R
  <2> QED BY <1>2, <1>3, <1>4, WayFacts, ApplyInTurn
<1>6. Turn(Len(q), Apply(u, e, FALSE)) /\ Apply(u, e, FALSE) \in States
  BY <1>3, <1>5
<1>7. {Nth(q, k, FALSE) : k \in 1 .. Len(q)} = Range(q)
  BY NthAll, Zenon
<1>8. Apply(u, e, FALSE).annots[i] = {a \in u.annots[i] : \A m \in Range(q) : a.id # m.id}
  <2> DEFINE before == {Nth(q, k, FALSE) : k \in 1 .. Len(q)}
             after == Range(q)
  <2>1. Apply(u, e, FALSE).annots[i] = {a \in u.annots[i] : \A m \in before : a.id # m.id}
    BY <1>6
  <2>2. before = after
    BY <1>7
  <2> HIDE DEF before, after
  <2> QED BY <2>1, <2>2 DEF after
<1> QED BY <1>6, <1>8 DEF e, Redraws, Spared

LEMMA DerivedFacts ==
    ASSUME NEW q \in Seq(Images)
    PROVE  LET e == [n \in DOMAIN q |-> [t |-> "derived", img |-> q[n]]] IN
           /\ e \in Entry /\ Len(e) = Len(q) /\ Len(q) \in Nat /\ DOMAIN e = DOMAIN q
           /\ \A n \in DOMAIN q : e[n] = [t |-> "derived", img |-> q[n]]
           /\ \A inv \in Ways, k \in 1 .. Len(q) : Nth(e, k, inv) = [t |-> "derived", img |-> Nth(q, k, inv)]
<1> DEFINE e == [n \in DOMAIN q |-> [t |-> "derived", img |-> q[n]]]
<1>1. \A n \in DOMAIN q : [t |-> "derived", img |-> q[n]] \in Step
  BY DEF Step
<1>2. DOMAIN q = 1 .. Len(q) /\ Len(q) \in Nat
  OBVIOUS
<1>3. e = [n \in 1 .. Len(q) |-> [t |-> "derived", img |-> q[n]]]
  BY <1>2
<1>4. e \in Entry /\ Len(e) = Len(q)
  BY <1>1, <1>2, <1>3 DEF Entry
<1>5. \A n \in 1 .. Len(q) : e[n] = [t |-> "derived", img |-> q[n]]
  BY <1>3
<1>6. DOMAIN e = DOMAIN q
  OBVIOUS
<1> HIDE DEF e
<1>7. ASSUME NEW inv \in Ways, NEW k \in 1 .. Len(q)
      PROVE  Nth(e, k, inv) = [t |-> "derived", img |-> Nth(q, k, inv)]
  <2>1. Len(q) + 1 - k \in 1 .. Len(q)
    BY <1>2
  <2>2. CASE inv = TRUE
    <3>1. Nth(e, k, TRUE) = [t |-> "derived", img |-> Nth(q, k, TRUE)]
      BY <1>4, <1>5, <2>1 DEF Nth
    <3> QED BY <2>2, <3>1, Zenon
  <2>3. CASE inv = FALSE
    <3>1. Nth(e, k, FALSE) = [t |-> "derived", img |-> Nth(q, k, FALSE)]
      BY <1>5 DEF Nth
    <3> QED BY <2>3, <3>1, Zenon
  <2> QED BY <2>2, <2>3 DEF Ways
<1> QED BY <1>2, <1>4, <1>5, <1>6, <1>7 DEF e

\* x is u with the images S taken from the list, or put on it.
Relisted(x, u, S, inv) ==
    /\ x \in States /\ x.images = IF inv THEN u.images \ S ELSE u.images \cup S
    /\ \A i \in Images : x.annots[i] = u.annots[i]

NamesAll(e, q, inv) ==
    Len(e) = Len(q) /\ \A k \in 1 .. Len(q) : Nth(e, k, inv) = [t |-> "derived", img |-> Nth(q, k, inv)]

\* The images of one command leave the library and come back together.
LEMMA DerivedApplied ==
    ASSUME NEW u \in States, NEW q \in Seq(Images), NEW inv \in Ways, NEW e \in Entry, NamesAll(e, q, inv)
    PROVE  Relisted(Apply(u, e, inv), u, Range(q), inv)
<1>0. /\ Len(e) = Len(q)
      /\ \A k \in 1 .. Len(q) : Nth(e, k, inv) = [t |-> "derived", img |-> Nth(q, k, inv)]
  BY DEF NamesAll
<1> DEFINE Got(S) == IF inv THEN u.images \ S ELSE u.images \cup S
           Turn(n, x) == /\ x.images = Got({Nth(q, k, inv) : k \in 1 .. n})
                         /\ \A i \in Images : x.annots[i] = u.annots[i]
           R == {w \in Nat \X States : Turn(w[1], w[2])}
<1>1. \A n \in Nat, x \in States : <<n, x>> \in R <=> Turn(n, x)
  OBVIOUS
<1>2. <<0, u>> \in R
  <2>1. {Nth(q, k, inv) : k \in 1 .. 0} = {}
    OBVIOUS
  <2>2. Got({}) = u.images
    OBVIOUS
  <2> HIDE DEF Got
  <2>3. Turn(0, u)
    BY <2>1, <2>2
  <2> HIDE DEF R, Turn
  <2> QED BY <1>1, <2>3
<1>3. Len(q) \in Nat /\ Len(e) = Len(q)
  BY <1>0
<1>4. ASSUME NEW n \in Nat, NEW x \in States, n + 1 <= Len(e), <<n, x>> \in R
      PROVE  <<n + 1, ApplyStep(x, Nth(e, n + 1, inv), inv)>> \in R
  <2> DEFINE m == Nth(q, n + 1, inv)
             s == [t |-> "derived", img |-> m]
             y == ApplyStep(x, s, inv)
             before == {Nth(q, k, inv) : k \in 1 .. n}
             after == {Nth(q, k, inv) : k \in 1 .. n + 1}
  <2>1. n + 1 \in 1 .. Len(q)
    BY <1>3, <1>4
  <2>2. s = Nth(e, n + 1, inv) /\ m \in Images
    BY <1>0, <2>1, NthTyped
  <2>3. s \in Step
    BY <2>2 DEF Step
  <2>4. x.images = Got(before) /\ \A i \in Images : x.annots[i] = u.annots[i]
    <3>1. Turn(n, x)
      <4> HIDE DEF Turn, R
      <4> QED BY <1>1, <1>4
    <3> QED BY <3>1
  <2>5. s.t = "derived" /\ s.img = m
    OBVIOUS
  <2> HIDE DEF s
  <2>6. /\ y \in States
        /\ \A i \in Images : y.annots[i] = Drawn(x.annots[i], i, s, inv)
        /\ y.images = Listed(x.images, s, inv)
    BY <2>3, ApplyStepFacts
  <2> HIDE DEF y
  <2>7. after = before \cup {m}
    <3>1. \A k : k \in 1 .. n + 1 <=> k \in 1 .. n \/ k = n + 1
      OBVIOUS
    <3> QED BY <3>1
  <2> HIDE DEF before, after, m
  <2>8. y.images = Got(after)
    <3>1. Listed(Got(before), s, inv) = Got(after)
      BY <2>5, <2>7 DEF Listed
    <3> HIDE DEF Got
    <3> QED BY <2>4, <2>6, <3>1
  <2>9. \A i \in Images : y.annots[i] = x.annots[i]
    BY <2>5, <2>6 DEF Drawn
  <2> HIDE DEF Got
  <2>10. Turn(n + 1, y)
    BY <2>4, <2>8, <2>9 DEF after
  <2>11. <<n + 1, y>> \in R
    <3>1. n + 1 \in Nat /\ y \in States
      BY <2>6
    <3> HIDE DEF Turn, R
    <3> QED BY <1>1, <2>10, <3>1
  <2> QED BY <2>2, <2>11 DEF y
<1>5. <<Len(e), Apply(u, e, inv)>> \in R
  <2> HIDE DEF R
  <2> QED BY <1>2, <1>3, <1>4, ApplyInTurn
<1> HIDE DEF Got
<1>6. Turn(Len(q), Apply(u, e, inv)) /\ Apply(u, e, inv) \in States
  BY <1>3, <1>5
<1>7. {Nth(q, k, inv) : k \in 1 .. Len(q)} = Range(q)
  BY NthAll
<1>8. Apply(u, e, inv).images = Got(Range(q))
  BY <1>6, <1>7
<1> QED BY <1>6, <1>8 DEF Got, Relisted

---------------------------------------------------------------------------
\* The edits, on the annotations of one image

LEMMA DrawingsFacts ==
    ASSUME NEW S \in Drawings
    PROVE  /\ S \subseteq Drawable /\ IsFiniteSet(S)
           /\ \A a \in S : /\ a.id \in Nat /\ a.pts \in Array /\ a.holes \in FiniteSubsetsOf(Array)
                           /\ a.holes \subseteq Array /\ Rings(a) \subseteq Array /\ a.pts \in Rings(a)
                           /\ a = [id |-> a.id, pts |-> a.pts, holes |-> a.holes]
<1>1. S \subseteq Drawable /\ IsFiniteSet(S)
  BY FiniteFacts DEF Drawings
<1>2. \A a \in S : /\ a.id \in Nat /\ a.pts \in Array /\ a.holes \in FiniteSubsetsOf(Array)
                   /\ a = [id |-> a.id, pts |-> a.pts, holes |-> a.holes]
  BY <1>1, DrawableFacts
<1>3. \A a \in S : a.holes \subseteq Array
  BY <1>2, FiniteFacts
<1> QED BY <1>1, <1>2, <1>3 DEF Rings

LEMMA SwapTyped ==
    ASSUME NEW S \in Drawings, NEW G, NEW N \in SUBSET Drawable, IsFiniteSet(N)
    PROVE  (S \ G) \cup N \in Drawings
<1>1. S \subseteq Drawable /\ IsFiniteSet(S)
  BY FiniteFacts DEF Drawings
<1>2. IsFiniteSet(S \ G)
  BY <1>1, FS_Subset
<1>3. IsFiniteSet((S \ G) \cup N)
  BY <1>2, FS_Union
<1> QED BY <1>1, <1>3 DEF Drawings, FiniteSubsetsOf

LEMMA FewFinite == ASSUME NEW x, NEW y PROVE IsFiniteSet({x}) /\ IsFiniteSet({x, y})
<1>1. IsFiniteSet({x})
  BY FS_Singleton
<1>2. IsFiniteSet({x} \cup {y})
  BY <1>1, FS_AddElement
<1>3. {x} \cup {y} = {x, y}
  OBVIOUS
<1> QED BY <1>1, <1>2, <1>3

\* N are annotations, numbered up to m, made of new numbers or of those of G,
\* for which they stand.
StandsFor(N, G, n, m) ==
    /\ \A a \in N : a.id > n \/ \E g \in G : g.id = a.id
    /\ \A a, b \in N : a.id = b.id => a = b
    /\ \A a \in N : \A x \in Rings(a) : x.ref > n \/ \E g \in G : x \in Rings(g)
    /\ \A a, b \in N : \A x \in Rings(a), y \in Rings(b) : x.ref = y.ref => a = b /\ x = y
    /\ \A a \in N : a.pts \notin a.holes
    /\ \A a \in N : a.id <= m /\ \A x \in Rings(a) : x.ref <= m /\ x.at <= m

\* Some annotations replaced by others that number on from them.
LEMMA SoundSwap ==
    ASSUME NEW S \in Drawings, NEW n \in Nat, NEW m \in Nat, n <= m, Sound(S, n),
           NEW G \in SUBSET S, NEW N \in SUBSET Drawable, StandsFor(N, G, n, m)
    PROVE  Sound((S \ G) \cup N, m)
<1> DEFINE T == (S \ G) \cup N
<1>0. \A a \in S : a.id \in Nat /\ \A x \in Rings(a) : x.ref \in Nat
  BY DrawingsFacts DEF Array
<1>1. \A a \in N : a.id \in Nat /\ \A x \in Rings(a) : x.ref \in Nat
  <2>1. \A a \in N : a.id \in Nat /\ Rings(a) \subseteq Array
    BY DrawableFacts, FiniteFacts DEF Rings
  <2> QED BY <2>1 DEF Array
<1>2. Sound(S, m)
  BY SoundMore
<1>3. \A a \in S \ G, b \in N : a.id # b.id
  BY <1>0, <1>1 DEF Sound, StandsFor
<1>4. \A a \in S \ G, b \in N : \A x \in Rings(a), y \in Rings(b) : x.ref # y.ref
  <2> SUFFICES ASSUME NEW a \in S \ G, NEW b \in N, NEW x \in Rings(a), NEW y \in Rings(b), x.ref = y.ref
               PROVE  FALSE
    OBVIOUS
  <2>1. x.ref <= n /\ x.ref \in Nat
    BY <1>0 DEF Sound
  <2>2. PICK g \in G : y \in Rings(g)
    BY <2>1 DEF StandsFor
  <2>3. a = g
    BY <2>2 DEF Sound
  <2> QED BY <2>3
<1>5. \A a, b \in T : a.id = b.id => a = b
  BY <1>3 DEF Sound, StandsFor
<1>6. \A a, b \in T : \A x \in Rings(a), y \in Rings(b) : x.ref = y.ref => a = b /\ x = y
  <2> SUFFICES ASSUME NEW a \in T, NEW b \in T, NEW x \in Rings(a), NEW y \in Rings(b), x.ref = y.ref
               PROVE  a = b /\ x = y
    OBVIOUS
  <2>1. CASE a \in S \ G /\ b \in S \ G
    BY <2>1 DEF Sound
  <2>2. CASE a \in N /\ b \in N
    BY <2>2 DEF StandsFor
  <2>3. CASE a \in S \ G /\ b \in N
    BY <1>4, <2>3
  <2>4. CASE a \in N /\ b \in S \ G
    BY <1>4, <2>4
  <2> QED BY <2>1, <2>2, <2>3, <2>4
<1>7. /\ \A a \in T : a.pts \notin a.holes
      /\ \A a \in T : a.id <= m /\ \A x \in Rings(a) : x.ref <= m /\ x.at <= m
  BY <1>2 DEF Sound, StandsFor
<1> QED BY <1>5, <1>6, <1>7 DEF Sound

LEMMA OutlineFacts ==
    ASSUME NEW n \in Nat
    PROVE  /\ Outline(n + 1) \in Array /\ Outline(n + 1).ref = n + 1 /\ Outline(n + 1).at = n + 1
           /\ [id |-> n + 1, pts |-> Outline(n + 1), holes |-> {}] \in Drawable
<1>1. Outline(n + 1) \in Array /\ Outline(n + 1).ref = n + 1 /\ Outline(n + 1).at = n + 1
  BY DEF Outline, Array
<1> HIDE DEF Outline
<1>2. {} \in FiniteSubsetsOf(Array) /\ n + 1 \in Nat
  BY EmptyFinite
<1> QED BY <1>1, <1>2, MakeDrawable

\* What was added is taken back exactly.
LEMMA AddExact ==
    ASSUME NEW S \in Drawings, NEW n \in Nat, Sound(S, n),
           NEW m, m = [id |-> n + 1, pts |-> Outline(n + 1), holes |-> {}]
    PROVE  /\ S \cup {m} \in Drawings /\ m \in Drawable
           /\ Removed(S \cup {m}, m) = S
           /\ Sound(S \cup {m}, n + 1)
<1>1. m \in Drawable /\ m.id = n + 1 /\ m.pts = Outline(n + 1) /\ m.holes = {}
  BY OutlineFacts
<1>2. m.pts.ref = n + 1 /\ m.pts.at = n + 1
  BY <1>1, OutlineFacts
<1>3. Rings(m) = {m.pts}
  BY <1>1 DEF Rings
<1>4. S \cup {m} = (S \ {}) \cup {m}
  OBVIOUS
<1>5. (S \ {}) \cup {m} \in Drawings
  <2>1. {} \in SUBSET S /\ {m} \in SUBSET Drawable /\ IsFiniteSet({m})
    BY <1>1, FewFinite
  <2> QED BY <2>1, SwapTyped
<1>6. \A a \in S : a.id \in Nat /\ a.id <= n
  BY DrawingsFacts DEF Sound
<1>7. Removed(S \cup {m}, m) = S
  BY <1>1, <1>6 DEF Removed, Without
<1>8. Sound((S \ {}) \cup {m}, n + 1)
  <2> DEFINE G == {}
             N == {m}
  <2>1. G \in SUBSET S /\ N \in SUBSET Drawable /\ n + 1 \in Nat /\ n <= n + 1
    BY <1>1
  <2>2. \A a \in N : a.id > n
    BY <1>1
  <2>3. \A a \in N : \A x \in Rings(a) : x.ref > n
    <3>1. m.pts.ref > n
      BY <1>2
    <3> HIDE DEF Outline
    <3> QED BY <1>3, <3>1
  <2>4. \A a, b \in N : a = b /\ \A x \in Rings(a), y \in Rings(b) : x = y
    BY <1>3
  <2>5. \A a \in N : a.pts \notin a.holes
    BY <1>1
  <2>6. \A a \in N : a.id <= n + 1 /\ \A x \in Rings(a) : x.ref <= n + 1 /\ x.at <= n + 1
    BY <1>1, <1>2, <1>3
  <2> HIDE DEF G, N
  <2>7. Sound((S \ G) \cup N, n + 1)
    <3>1. StandsFor(N, G, n, n + 1)
      BY <2>2, <2>3, <2>4, <2>5, <2>6 DEF StandsFor
    <3> QED BY <2>1, <3>1, SoundSwap
  <2> QED BY <2>7 DEF G, N
<1> QED BY <1>1, <1>4, <1>5, <1>7, <1>8

\* The child becomes a hole of the host, and a hole an annotation of its own.
HoleAdded(S, host, child, T) == T = (S \ {host, child}) \cup {[host EXCEPT !.holes = @ \cup {child.pts}]}
HoleTaken(S, host, h, child, T) == T = (S \ {host}) \cup {[host EXCEPT !.holes = @ \ {h}], child}

\* A hole taken back is the outline it was.
LEMMA HoleAddExact ==
    ASSUME NEW S \in Drawings, NEW n \in Nat, Sound(S, n),
           NEW host \in S, NEW child \in S, host # child,
           NEW T, HoleAdded(S, host, child, T),
           NEW s, s.host = host.id, s.child = child
    PROVE  T \in Drawings /\ Sound(T, n) /\ Unholed(T, s) = S /\ Holed(S, s) = T
<1> DEFINE new == [id |-> host.id, pts |-> host.pts, holes |-> host.holes \cup {child.pts}]
<1>0. /\ host \in Drawable /\ child \in Drawable
      /\ host = [id |-> host.id, pts |-> host.pts, holes |-> host.holes]
      /\ [host EXCEPT !.holes = @ \cup {child.pts}] = new
  <2>1. host \in Drawable /\ child \in Drawable
    BY DrawingsFacts
  <2> QED BY <2>1, DrawableFacts
<1>1. T = (S \ {host, child}) \cup {new}
  BY <1>0 DEF HoleAdded
<1>2. new \in Drawable
  <2>1. host.holes \cup {child.pts} \in FiniteSubsetsOf(Array)
    BY <1>0, DrawableFacts, FiniteFacts
  <2> QED BY <1>0, <2>1, DrawableFacts, MakeDrawable
<1>3. new.id = host.id /\ new.pts = host.pts /\ new.holes = host.holes \cup {child.pts}
  OBVIOUS
<1> HIDE DEF new
<1>4. Rings(new) = Rings(host) \cup {child.pts}
  BY <1>3 DEF Rings
<1>5. child.pts \in Rings(child) /\ host.pts \in Rings(host)
  BY DEF Rings
<1>6. \A x \in Rings(host) : x.ref # child.pts.ref
  BY <1>5 DEF Sound
<1>7. T \in Drawings
  <2>1. {host, child} \in SUBSET S /\ {new} \in SUBSET Drawable /\ IsFiniteSet({new})
    BY <1>2, FewFinite
  <2>2. (S \ {host, child}) \cup {new} \in Drawings
    BY <2>1, SwapTyped
  <2> QED BY <1>1, <2>2
<1>8. Sound(T, n)
  <2> DEFINE G == {host, child}
             N == {new}
  <2>1. G \in SUBSET S /\ N \in SUBSET Drawable /\ n <= n
    BY <1>2
  <2>2. \A a \in N : \E g \in G : g.id = a.id
    BY <1>3
  <2>3. \A a \in N : \A x \in Rings(a) : \E g \in G : x \in Rings(g)
    BY <1>4, <1>5
  <2>4. \A a, b \in N : a = b /\ \A x \in Rings(a), y \in Rings(b) : x.ref = y.ref => x = y
    BY <1>4, <1>6 DEF Sound
  <2>5. \A a \in N : a.pts \notin a.holes
    BY <1>3, <1>5, <1>6 DEF Sound
  <2>6. \A a \in N : a.id <= n /\ \A x \in Rings(a) : x.ref <= n /\ x.at <= n
    BY <1>3, <1>4, <1>5 DEF Sound
  <2> HIDE DEF G, N
  <2>7. Sound((S \ G) \cup N, n)
    <3>1. StandsFor(N, G, n, n)
      BY <2>2, <2>3, <2>4, <2>5, <2>6 DEF StandsFor
    <3> QED BY <2>1, <3>1, SoundSwap
  <2> QED BY <1>1, <2>7 DEF G, N
<1>9. \A a, b \in S : a.id = b.id => a = b
  BY DEF Sound
<1>10. Holed(S, s) = T
  <2>1. Without(S, child.id) = S \ {child}
    BY <1>9 DEF Without
  <2> DEFINE rest == S \ {child}
  <2>2. Has(rest, host.id)
    BY DEF Has
  <2>3. Get(rest, host.id) = host
    BY <1>9, <2>2, GetFacts
  <2>4. Without(rest, host.id) = S \ {host, child}
    BY <1>9 DEF Without
  <2> HIDE DEF rest
  <2>5. Replaced(rest, host.id, new) = T
    BY <1>1, <2>2, <2>4 DEF Replaced
  <2>6. Holed(S, s) = Replaced(rest, host.id, [Get(rest, host.id) EXCEPT !.holes = @ \cup {child.pts}])
    BY <2>1 DEF Holed, rest
  <2> QED BY <1>0, <2>3, <2>5, <2>6
<1>11. Unholed(T, s) = S
  <2>1. Has(T, host.id)
    BY <1>1, <1>3 DEF Has
  <2>2. Get(T, host.id) = new
    BY <1>1, <1>3, <1>9, <2>1, GetFacts
  <2> DEFINE kept == {h \in new.holes : h.ref # child.pts.ref}
  <2>3. kept = host.holes
    BY <1>3, <1>6 DEF Rings
  <2>4. [new EXCEPT !.holes = host.holes] = host
    BY <1>0, <1>2, <1>3, DrawableFacts
  <2>5. Without(T, host.id) = S \ {host, child}
    BY <1>1, <1>3, <1>9 DEF Without
  <2>6. Replaced(T, host.id, host) = S \ {child}
    BY <2>1, <2>5 DEF Replaced
  <2>7. Unholed(T, s) = Replaced(T, host.id, [new EXCEPT !.holes = kept]) \cup {child}
    BY <2>2 DEF Unholed
  <2> HIDE DEF kept
  <2>8. Unholed(T, s) = (S \ {child}) \cup {child}
    BY <2>3, <2>4, <2>6, <2>7
  <2>9. (S \ {child}) \cup {child} = S
    OBVIOUS
  <2> QED BY <2>8, <2>9
<1> QED BY <1>7, <1>8, <1>10, <1>11

\* An outline made of a hole goes back as the very ring.
LEMMA HoleRemoveExact ==
    ASSUME NEW S \in Drawings, NEW n \in Nat, Sound(S, n),
           NEW host \in S, NEW h \in host.holes,
           NEW child, child = [id |-> n + 1, pts |-> h, holes |-> {}],
           NEW T, HoleTaken(S, host, h, child, T),
           NEW s, s.host = host.id, s.child = child
    PROVE  /\ child \in Drawable /\ T \in Drawings /\ Sound(T, n + 1)
           /\ Holed(T, s) = S /\ Unholed(S, s) = T
<1> DEFINE new == [id |-> host.id, pts |-> host.pts, holes |-> host.holes \ {h}]
<1>0. /\ host \in Drawable /\ h \in Array
      /\ host = [id |-> host.id, pts |-> host.pts, holes |-> host.holes]
      /\ [host EXCEPT !.holes = @ \ {h}] = new
  <2>1. host \in Drawable /\ h \in Array
    BY DrawingsFacts
  <2> QED BY <2>1, DrawableFacts
<1>1. T = (S \ {host}) \cup {new, child}
  BY <1>0 DEF HoleTaken
<1>2. new \in Drawable
  <2>1. host.holes \ {h} \in FiniteSubsetsOf(Array)
    BY <1>0, DrawableFacts, FiniteFacts
  <2> QED BY <1>0, <2>1, DrawableFacts, MakeDrawable
<1>3. new.id = host.id /\ new.pts = host.pts /\ new.holes = host.holes \ {h}
  OBVIOUS
<1>4. child.id = n + 1 /\ child.pts = h /\ child.holes = {}
  OBVIOUS
<1>5. child \in Drawable
  <2>1. {} \in FiniteSubsetsOf(Array) /\ n + 1 \in Nat
    BY EmptyFinite
  <2>2. [id |-> n + 1, pts |-> h, holes |-> {}] \in Drawable
    BY <1>0, <2>1, MakeDrawable
  <2> QED BY <2>2
<1> HIDE DEF new
<1>14. \A a \in {new, child} : a = new \/ a = child
  OBVIOUS
<1>6. Rings(new) = Rings(host) \ {h} /\ Rings(child) = {h} /\ h \in Rings(host) /\ host.pts # h
  <2>1. host.pts \notin host.holes
    BY DEF Sound
  <2> QED BY <1>3, <1>4, <2>1 DEF Rings
<1>7. \A x \in Rings(host) : x.ref = h.ref => x = h
  BY <1>6 DEF Sound
<1>8. \A a \in S : a.id \in Nat /\ a.id <= n /\ a.id # n + 1
  BY DrawingsFacts DEF Sound
<1>9. T \in Drawings
  <2>1. {host} \in SUBSET S /\ {new, child} \in SUBSET Drawable /\ IsFiniteSet({new, child})
    BY <1>2, <1>5, FewFinite
  <2>2. (S \ {host}) \cup {new, child} \in Drawings
    BY <2>1, SwapTyped
  <2> QED BY <1>1, <2>2
<1>10. Sound(T, n + 1)
  <2> DEFINE G == {host}
             N == {new, child}
  <2>1. G \in SUBSET S /\ N \in SUBSET Drawable /\ n + 1 \in Nat /\ n <= n + 1
    BY <1>2, <1>5
  <2>2. \A a \in N : a.id > n \/ \E g \in G : g.id = a.id
    BY <1>3, <1>4
  <2>3. \A a, b \in N : a.id = b.id => a = b
    BY <1>3, <1>4, <1>8
  <2>4. \A a \in N : \A x \in Rings(a) : \E g \in G : x \in Rings(g)
    <3>1. (\A x \in Rings(new) : x \in Rings(host)) /\ (\A x \in Rings(child) : x \in Rings(host))
      BY <1>6
    <3> QED BY <1>14, <3>1, Zenon
  <2>5. \A a, b \in N : \A x \in Rings(a), y \in Rings(b) : x.ref = y.ref => a = b /\ x = y
    <3>1. \A x, y \in Rings(host) : x.ref = y.ref => x = y
      BY DEF Sound
    <3> QED BY <1>6, <3>1
  <2>6. \A a \in N : a.pts \notin a.holes
    BY <1>3, <1>4 DEF Sound
  <2>7. \A a \in N : a.id <= n + 1 /\ \A x \in Rings(a) : x.ref <= n + 1 /\ x.at <= n + 1
    <3>1. Sound(S, n + 1)
      <4>1. n + 1 \in Nat /\ n <= n + 1
        OBVIOUS
      <4> QED BY <4>1, SoundMore
    <3>2. new.id <= n + 1 /\ \A x \in Rings(new) : x.ref <= n + 1 /\ x.at <= n + 1
      BY <1>3, <1>6, <3>1 DEF Sound
    <3>3. child.id <= n + 1 /\ \A x \in Rings(child) : x.ref <= n + 1 /\ x.at <= n + 1
      <4>1. child.id <= n + 1
        BY <1>4
      <4>2. \A x \in Rings(host) : x.ref <= n + 1 /\ x.at <= n + 1
        BY <3>1 DEF Sound
      <4> QED BY <1>6, <4>1, <4>2
    <3> QED BY <1>14, <3>2, <3>3
  <2> HIDE DEF G, N
  <2>8. StandsFor(N, G, n, n + 1)
    BY <2>2, <2>3, <2>4, <2>5, <2>6, <2>7 DEF StandsFor
  <2>9. Sound((S \ G) \cup N, n + 1)
    BY <2>1, <2>8, SoundSwap
  <2> QED BY <1>1, <2>9 DEF G, N
<1>11. \A a, b \in S : a.id = b.id => a = b
  BY DEF Sound
<1>12. Holed(T, s) = S
  <2> DEFINE rest == (S \ {host}) \cup {new}
  <2>1. Without(T, child.id) = rest
    BY <1>1, <1>3, <1>4, <1>8 DEF Without
  <2>2. Has(rest, host.id)
    BY <1>3 DEF Has
  <2>3. Get(rest, host.id) = new
    BY <1>3, <1>11, <2>2, GetFacts
  <2>4. Without(rest, host.id) = S \ {host}
    BY <1>3, <1>11 DEF Without
  <2> HIDE DEF rest
  <2>5. Replaced(rest, host.id, host) = (S \ {host}) \cup {host}
    BY <2>2, <2>4 DEF Replaced
  <2>6. [new EXCEPT !.holes = new.holes \cup {h}] = host
    <3>1. new.holes \cup {h} = host.holes
      BY <1>3
    <3>2. \A x : [new EXCEPT !.holes = x] = [id |-> new.id, pts |-> new.pts, holes |-> x]
      BY <1>2, DrawableFacts
    <3> QED BY <1>0, <1>3, <3>1, <3>2
  <2>7. Holed(T, s) = Replaced(rest, host.id, [Get(rest, host.id) EXCEPT !.holes = @ \cup {h}])
    BY <1>4, <2>1 DEF Holed
  <2>8. (S \ {host}) \cup {host} = S
    OBVIOUS
  <2> QED BY <2>3, <2>5, <2>6, <2>7, <2>8
<1>13. Unholed(S, s) = T
  <2>1. Has(S, host.id)
    BY DEF Has
  <2>2. Get(S, host.id) = host
    BY <1>11, <2>1, GetFacts
  <2> DEFINE kept == {x \in host.holes : x.ref # h.ref}
  <2>3. kept = host.holes \ {h}
    BY <1>7 DEF Rings
  <2>4. Without(S, host.id) = S \ {host}
    BY <1>11 DEF Without
  <2>5. Unholed(S, s) = Replaced(S, host.id, [host EXCEPT !.holes = kept]) \cup {child}
    BY <1>4, <2>2 DEF Unholed
  <2> HIDE DEF kept
  <2>6. [host EXCEPT !.holes = kept] = new
    BY <1>0, <2>3
  <2>7. Replaced(S, host.id, new) = (S \ {host}) \cup {new}
    BY <2>1, <2>4 DEF Replaced
  <2> QED BY <1>1, <2>5, <2>6, <2>7
<1> QED BY <1>5, <1>9, <1>10, <1>12, <1>13

\* One annotation gives way to another one with its id.
LEMMA SwapOne ==
    ASSUME NEW S \in Drawings, NEW n, Sound(S, n), NEW a \in S, NEW b, b.id = a.id,
           NEW T, T = (S \ {a}) \cup {b}
    PROVE  /\ Has(S, a.id) /\ Get(S, a.id) = a /\ Replaced(S, a.id, b) = T
           /\ Has(T, a.id) /\ Get(T, a.id) = b /\ Replaced(T, a.id, a) = S
<1>1. \A x, y \in S : x.id = y.id => x = y
  BY DEF Sound
<1>2. Has(S, a.id) /\ Has(T, a.id)
  BY DEF Has
<1>3. Get(S, a.id) = a
  BY <1>1, <1>2, GetFacts
<1>4. Get(T, a.id) = b
  BY <1>1, <1>2, GetFacts
<1>5. Without(S, a.id) = S \ {a} /\ Without(T, a.id) = S \ {a}
  BY <1>1 DEF Without
<1>6. (S \ {a}) \cup {a} = S
  OBVIOUS
<1> QED BY <1>2, <1>3, <1>4, <1>5, <1>6 DEF Replaced

\* A move of an annotation from a to b, with its holes if they differ.
LEMMA MoveExact ==
    ASSUME NEW S \in Drawings, NEW n, Sound(S, n), NEW a \in S, a \in Drawable, NEW b \in Drawable, b.id = a.id,
           NEW T, T = (S \ {a}) \cup {b},
           NEW s, s.id = a.id, NEW h, NEW g, s.withHoles \in BOOLEAN,
           s.withHoles => h = a.holes /\ g = b.holes, ~s.withHoles => a.holes = b.holes
    PROVE  Moved(T, s, a.pts, h) = S /\ Moved(S, s, b.pts, g) = T
<1>1. /\ Has(S, a.id) /\ Get(S, a.id) = a /\ Replaced(S, a.id, b) = T
      /\ Has(T, a.id) /\ Get(T, a.id) = b /\ Replaced(T, a.id, a) = S
  BY SwapOne
<1>2. a = [id |-> a.id, pts |-> a.pts, holes |-> a.holes] /\ b = [id |-> a.id, pts |-> b.pts, holes |-> b.holes]
  BY DrawableFacts
<1>3. (IF s.withHoles THEN h ELSE Get(T, a.id).holes) = a.holes
  BY <1>1
<1>4. (IF s.withHoles THEN g ELSE Get(S, a.id).holes) = b.holes
  BY <1>1
<1>5. Moved(T, s, a.pts, h) = Replaced(T, a.id, [id |-> a.id, pts |-> a.pts, holes |-> a.holes])
  BY <1>3 DEF Moved
<1>6. Moved(S, s, b.pts, g) = Replaced(S, a.id, [id |-> a.id, pts |-> b.pts, holes |-> b.holes])
  BY <1>4 DEF Moved
<1> QED BY <1>1, <1>2, <1>5, <1>6

\* An annotation gets an outline of its own, and the holes it has or new ones.
LEMMA ReshapeSound ==
    ASSUME NEW S \in Drawings, NEW n \in Nat, NEW m \in Nat, n + 1 <= m, Sound(S, n), NEW a \in S,
           NEW b \in Drawable, b.id = a.id, b.pts.ref = n + 1, b.pts.at = n + 1,
           \/ b.holes = a.holes
           \/ /\ \A x \in b.holes : x.ref > n + 1 /\ x.ref <= m /\ x.at <= m
              /\ \A x, y \in b.holes : x.ref = y.ref => x = y
    PROVE  (S \ {a}) \cup {b} \in Drawings /\ Sound((S \ {a}) \cup {b}, m)
<1> DEFINE G == {a}
           N == {b}
<1>1. G \in SUBSET S /\ N \in SUBSET Drawable /\ IsFiniteSet(N)
  BY FewFinite
<1>2. Rings(b) = {b.pts} \cup b.holes /\ Rings(a) = {a.pts} \cup a.holes
  BY DEF Rings
<1>3. \A x \in a.holes : x.ref \in Nat /\ x.ref <= n /\ x.at \in Nat /\ x.at <= n
  <2>1. \A x \in a.holes : x \in Array
    BY DrawingsFacts
  <2> QED BY <1>2, <2>1 DEF Sound, Array
<1>4. a.id \in Nat /\ a.id <= n
  BY DrawingsFacts DEF Sound
<1>5. \A x \in b.holes : x.ref # n + 1 /\ x.ref <= m /\ x.at <= m
  <2>1. CASE b.holes = a.holes
    BY <1>3, <2>1
  <2>2. CASE \A x \in b.holes : x.ref > n + 1 /\ x.ref <= m /\ x.at <= m
    <3>1. \A x \in b.holes : x \in Array
      BY DrawableFacts, FiniteFacts
    <3> QED BY <2>2, <3>1 DEF Array
  <2> QED BY <2>1, <2>2
<1>6. \A x, y \in b.holes : x.ref = y.ref => x = y
  BY <1>2 DEF Sound
<1>7. StandsFor(N, G, n, m)
  <2>1. \A x \in N : \E g \in G : g.id = x.id
    OBVIOUS
  <2>2. \A x \in Rings(b) : x.ref > n \/ x \in Rings(a)
    <3>1. \A x \in b.holes : x \in Array
      BY DrawableFacts, FiniteFacts
    <3> QED BY <1>2, <3>1 DEF Array
  <2>3. \A x, y \in Rings(b) : x.ref = y.ref => x = y
    BY <1>2, <1>5, <1>6
  <2>4. b.pts \notin b.holes
    BY <1>5
  <2>5. b.id <= m /\ \A x \in Rings(b) : x.ref <= m /\ x.at <= m
    BY <1>2, <1>4, <1>5
  <2> QED BY <2>1, <2>2, <2>3, <2>4, <2>5 DEF StandsFor
<1>8. (S \ G) \cup N \in Drawings
  <2> HIDE DEF G, N
  <2> QED BY <1>1, SwapTyped
<1>9. Sound((S \ G) \cup N, m)
  <2> HIDE DEF G, N
  <2> QED BY <1>1, <1>7, SoundSwap
<1> QED BY <1>8, <1>9

---------------------------------------------------------------------------
\* The steps of the history, on documents

LEMMA SequenceEnds ==
    ASSUME NEW X, NEW s \in Seq(X)
    PROVE  /\ s # <<>> => /\ Front(s) \in Seq(X) /\ Last(s) \in X /\ s = Append(Front(s), Last(s))
                          /\ DOMAIN Front(s) \subseteq DOMAIN s /\ \A k \in DOMAIN Front(s) : Front(s)[k] = s[k]
                          /\ Len(s) \in DOMAIN s /\ Last(s) = s[Len(s)]
           /\ \A e \in X : /\ Front(Append(s, e)) = s /\ Last(Append(s, e)) = e
                           /\ Append(s, e) # <<>> /\ Append(s, e) \in Seq(X)
                           /\ DOMAIN Append(s, e) = DOMAIN s \cup {Len(s) + 1}
                           /\ Append(s, e)[Len(s) + 1] = e /\ \A k \in DOMAIN s : Append(s, e)[k] = s[k]
BY DEF Front, Last

LEMMA AppendEnds ==
    ASSUME NEW X, NEW s \in Seq(X), NEW e \in X, NEW t, t = Append(s, e)
    PROVE  t # <<>> /\ Last(t) = e /\ Front(t) = s
BY DEF Front, Last

LEMMA RecentCapped == ASSUME NEW s PROVE Snapshots!Recent(s) = Capped(s)
BY DEF Snapshots!Recent, Capped

LEMMA UnwoundEmpty ==
    ASSUME NEW u \in States, NEW inv \in Ways, NEW C
    PROVE  <<>> \in Stack /\ Unwound(u, <<>>, inv, C) = <<>>
<1>1. <<>> \in Stack /\ Len(<<>>) = 0
  BY DEF Stack
<1> DEFINE a == Unwound(u, <<>>, inv, C)
<1>2. a \in Seq(Docs(C)) /\ Len(a) = 0
  BY <1>1, UnwoundFacts
<1> HIDE DEF a
<1>3. a = <<>>
  BY <1>2
<1> QED BY <1>1, <1>3 DEF a

\* Kept on a sound stack, the entry leads from the edited state v back to u.
Recoverable(u, v, s, e, inv, C, n, m) ==
    /\ n <= m /\ Retraces(u, s, inv, C, n) /\ SoundState(v, C, m)
    /\ Alike(Apply(v, e, inv), u, C) /\ Returns(v, e, inv, C)

\* Then the longer stack keeps the document before, and is as sound.
Recorded(u, v, s, e, inv, C, m) ==
    /\ Append(Capped(s), e) \in Stack /\ <<>> \in Stack
    /\ Retraces(v, Append(Capped(s), e), inv, C, m) /\ Retraces(v, <<>>, Other(inv), C, m)
    /\ Unwound(v, Append(Capped(s), e), inv, C) = Append(Capped(Unwound(u, s, inv, C)), Document(u, C))
    /\ Unwound(v, <<>>, Other(inv), C) = <<>>

\* An edit keeps the document before it.
LEMMA EditDocuments ==
    ASSUME NEW u \in States, NEW v \in States, NEW s \in Stack, NEW e \in Entry, NEW C,
           NEW n \in Nat, NEW m \in Nat, NEW inv \in Ways, Recoverable(u, v, s, e, inv, C, n, m)
    PROVE  Recorded(u, v, s, e, inv, C, m)
<1>0. /\ n <= m /\ Retraces(u, s, inv, C, n) /\ SoundState(v, C, m)
      /\ Alike(Apply(v, e, inv), u, C) /\ Returns(v, e, inv, C)
  BY DEF Recoverable
<1> DEFINE c == Capped(s)
           w == Apply(v, e, inv)
<1>1. c \in Stack /\ w \in States
  BY WalkCapped, ApplyTyped
<1>2. Retraces(u, c, inv, C, n)
  BY <1>0, RetracesCapped
<1>3. Alike(u, w, C)
  BY <1>0, AlikeFacts
<1>4. Unwound(u, c, inv, C) = Capped(Unwound(u, s, inv, C))
  BY UnwoundCapped
<1> HIDE DEF c, w
<1>5. Retraces(w, c, inv, C, m)
  BY <1>0, <1>1, <1>2, <1>3, RetracesAlike
<1>6. Retraces(v, Append(c, e), inv, C, m)
  BY <1>0, <1>1, <1>5, RetracesAppend DEF w
<1>7. Unwound(w, c, inv, C) = Unwound(u, c, inv, C) /\ Document(w, C) = Document(u, C)
  <2>2. Unwound(u, c, inv, C) = Unwound(w, c, inv, C)
    BY <1>1, <1>3, UnwoundAlike DEF SameUnwound
  <2>3. Document(u, C) = Document(w, C)
    BY <1>3, DocumentAlike
  <2> QED BY <2>2, <2>3
<1>8. Unwound(v, Append(c, e), inv, C) = Append(Unwound(w, c, inv, C), Document(w, C))
  <2> QED BY <1>1, UnwoundAppend DEF w
<1>9. Append(c, e) \in Stack
  BY <1>1, WalkAppend
<1>10. Retraces(v, <<>>, Other(inv), C, m) /\ Unwound(v, <<>>, Other(inv), C) = <<>> /\ <<>> \in Stack
  BY <1>0, WayFacts, RetracesEmpty, UnwoundEmpty
<1> QED BY <1>4, <1>6, <1>7, <1>8, <1>9, <1>10 DEF c, Recorded

\* Both stacks lead on from u; the first ends in e.
Between(u, s, r, e, inv, C, n) ==
    Retraces(u, Append(s, e), inv, C, n) /\ Retraces(u, r, Other(inv), C, n)

\* The entry e goes over from the one stack to the other, and so does the document.
Replayed(u, v, s, r, e, inv, C, n) ==
    /\ SoundState(v, C, n)
    /\ Retraces(v, s, inv, C, n) /\ Retraces(v, Append(r, e), Other(inv), C, n)
    /\ Unwound(u, Append(s, e), inv, C) = Append(Unwound(v, s, inv, C), Document(v, C))
    /\ Unwound(v, Append(r, e), Other(inv), C) = Append(Unwound(u, r, Other(inv), C), Document(u, C))

\* An entry taken back, or brought forth again.
LEMMA ReplayDocuments ==
    ASSUME NEW u \in States, NEW s \in Stack, NEW r \in Stack, NEW e \in Entry, NEW inv \in Ways,
           NEW C, NEW n \in Nat, Between(u, s, r, e, inv, C, n)
    PROVE  Apply(u, e, inv) \in States /\ Replayed(u, Apply(u, e, inv), s, r, e, inv, C, n)
<1> DEFINE v == Apply(u, e, inv)
           w == Apply(v, e, Other(inv))
<1>0. Other(inv) \in Ways /\ Other(Other(inv)) = inv
  BY WayFacts
<1>1. v \in States
  BY ApplyTyped
<1>2. /\ Returns(u, e, inv, C) /\ Retraces(v, s, inv, C, n)
  BY RetracesAppend DEF Between
<1>3. Returns(v, e, Other(inv), C)
  BY <1>2, ReturnsBack
<1>4. Unwound(u, Append(s, e), inv, C) = Append(Unwound(v, s, inv, C), Document(v, C))
  BY UnwoundAppend
<1>5. Alike(u, w, C)
  BY <1>2, AlikeFacts DEF Returns
<1> HIDE DEF v
<1>6. w \in States
  BY <1>0, <1>1, ApplyTyped
<1>7. SoundState(v, C, n)
  <2>1. Walk(v, s, inv)[0] = v
    BY <1>1, WalkFacts
  <2>2. 0 \in 0 .. Len(s)
    BY DEF Stack
  <2> QED BY <1>2, <2>1, <2>2 DEF Retraces
<1>8. Unwound(v, Append(r, e), Other(inv), C) = Append(Unwound(w, r, Other(inv), C), Document(w, C))
  BY <1>0, <1>1, UnwoundAppend
<1> HIDE DEF w
<1>9. Retraces(w, r, Other(inv), C, n)
  <2>1. n <= n /\ C \subseteq C
    OBVIOUS
  <2>2. Retraces(u, r, Other(inv), C, n)
    BY DEF Between
  <2> QED BY <1>0, <1>5, <1>6, <2>1, <2>2, RetracesAlike
<1>10. Retraces(v, Append(r, e), Other(inv), C, n)
  BY <1>0, <1>1, <1>3, <1>7, <1>9, RetracesAppend DEF w
<1>11. Unwound(w, r, Other(inv), C) = Unwound(u, r, Other(inv), C) /\ Document(w, C) = Document(u, C)
  BY <1>0, <1>5, <1>6, UnwoundAlike, DocumentAlike DEF SameUnwound
<1> QED BY <1>1, <1>2, <1>4, <1>7, <1>8, <1>10, <1>11 DEF v, Replayed

---------------------------------------------------------------------------
\* One step about one image

\* An entry of one step leads back if the step does.
LEMMA OneStep ==
    ASSUME NEW u \in States, NEW v \in States, NEW s \in Step, s.t # "derived", NEW C, u.images = v.images,
           \A i \in Images \ {s.img} : u.annots[i] = v.annots[i],
           s.img \notin C => /\ Redrawn(v.annots[s.img], s, TRUE) = u.annots[s.img]
                             /\ Redrawn(u.annots[s.img], s, FALSE) = v.annots[s.img]
    PROVE  /\ <<s>> \in Entry /\ Alike(Apply(v, <<s>>, TRUE), u, C) /\ Returns(v, <<s>>, TRUE, C)
<1> DEFINE w == ApplyStep(v, s, TRUE)
           x == ApplyStep(w, s, FALSE)
<1>1. /\ w \in States /\ w.images = Listed(v.images, s, TRUE)
      /\ \A i \in Images : w.annots[i] = Drawn(v.annots[i], i, s, TRUE)
  BY WayFacts, ApplyStepFacts
<1> HIDE DEF w
<1>2. /\ x \in States /\ x.images = Listed(w.images, s, FALSE)
      /\ \A i \in Images : x.annots[i] = Drawn(w.annots[i], i, s, FALSE)
  BY <1>1, WayFacts, ApplyStepFacts
<1> HIDE DEF x
<1>3. w.images = v.images /\ x.images = v.images
  BY <1>1, <1>2 DEF Listed
<1>4. Alike(w, u, C)
  <2> SUFFICES ASSUME NEW i \in Images \ C PROVE w.annots[i] = u.annots[i]
    BY <1>3 DEF Alike
  <2>1. CASE i = s.img
    BY <1>1, <2>1 DEF Drawn
  <2>2. CASE i # s.img
    BY <1>1, <2>2 DEF Drawn
  <2> QED BY <2>1, <2>2
<1>5. Alike(x, v, C)
  <2> SUFFICES ASSUME NEW i \in Images \ C PROVE x.annots[i] = v.annots[i]
    BY <1>3 DEF Alike
  <2>0. w.annots[i] = u.annots[i]
    BY <1>4 DEF Alike
  <2>1. CASE i = s.img
    BY <1>2, <2>0, <2>1 DEF Drawn
  <2>2. CASE i # s.img
    BY <1>2, <2>0, <2>2 DEF Drawn
  <2> QED BY <2>1, <2>2
<1>6. <<s>> \in Entry /\ Apply(v, <<s>>, TRUE) = w
  BY WayFacts, ApplyOne DEF w
<1>7. Apply(w, <<s>>, FALSE) = x
  BY <1>1, WayFacts, ApplyOne DEF x
<1> QED BY <1>4, <1>5, <1>6, <1>7, WayFacts DEF Returns

---------------------------------------------------------------------------
\* New arrays for the rings of a dragged body

\* The rings are new, and no two of them are one.
LEMMA ShiftedFacts ==
    ASSUME made \in Nat, NEW S \in FiniteSubsetsOf(Array)
    PROVE  /\ Cardinality(S) \in Nat /\ Shifted(S, FALSE) \in FiniteSubsetsOf(Array)
           /\ \A x \in Shifted(S, FALSE) : /\ x.ref > made + 1 /\ x.ref <= made + 1 + Cardinality(S)
                                           /\ x.at <= made + 1 + Cardinality(S)
           /\ \A x, y \in Shifted(S, FALSE) : x.ref = y.ref => x = y
<1> DEFINE Below(h) == {x \in S : x.ref <= h.ref}
           nth(h) == made + 1 + Cardinality(Below(h))
           new(h) == [at |-> nth(h), ref |-> nth(h)]
           T == {new(h) : h \in S}
<1>0. IsFiniteSet(S) /\ S \subseteq Array /\ Cardinality(S) \in Nat
  BY FiniteFacts, FS_CardinalityType
<1>1. ASSUME NEW h \in S
      PROVE  nth(h) \in Nat /\ nth(h) > made + 1 /\ nth(h) <= made + 1 + Cardinality(S)
  <2> DEFINE B == Below(h)
  <2>1. h \in B
    BY <1>0 DEF Array
  <2>2. B \subseteq S
    OBVIOUS
  <2> HIDE DEF B
  <2>3. IsFiniteSet(B) /\ Cardinality(B) <= Cardinality(S)
    BY <1>0, <2>2, FS_Subset
  <2>4. Cardinality(B) \in Nat
    BY <2>3, FS_CardinalityType
  <2>5. Cardinality(B) # 0
    BY <2>1, <2>3, FS_EmptySet
  <2>6. nth(h) = made + 1 + Cardinality(B)
    BY DEF B
  <2> HIDE DEF nth
  <2> QED BY <1>0, <2>3, <2>4, <2>5, <2>6
<1>2. Shifted(S, FALSE) = T
  BY DEF Shifted
<1> HIDE DEF nth
<1>3. \A h \in S : new(h) \in Array
  BY <1>1 DEF Array
<1>4. IsFiniteSet(T)
  <2> DEFINE f == [h \in S |-> new(h)]
  <2>1. f \in Surjection(S, T)
    BY DEF Surjection
  <2> HIDE DEF f, T
  <2> QED BY <1>0, <2>1, FS_Surjection
<1>5. T \in FiniteSubsetsOf(Array)
  BY <1>3, <1>4 DEF FiniteSubsetsOf
<1>6. \A x \in T : \E h \in S : x.ref = nth(h) /\ x.at = nth(h) /\ x = [at |-> x.ref, ref |-> x.ref]
  OBVIOUS
<1> HIDE DEF T
<1>7. \A x \in T : /\ x.ref > made + 1 /\ x.ref <= made + 1 + Cardinality(S)
                   /\ x.at <= made + 1 + Cardinality(S)
  BY <1>1, <1>6
<1>8. \A x, y \in T : x.ref = y.ref => x = y
  BY <1>6
<1> QED BY <1>0, <1>2, <1>5, <1>7, <1>8

---------------------------------------------------------------------------
\* What is on the page, as a function of what the variables hold

Drags == {NoDrag} \cup [img : Images, m : Drawable, body : BOOLEAN]
Put(d, i, S) == IF d # NoDrag /\ d.img = i /\ Has(S, d.m.id) THEN Replaced(S, d.m.id, d.m) ELSE S
Seen(A, I, d) == [annots |-> [i \in Images |-> Put(d, i, A[i])], images |-> I]

LEMMA DragFacts ==
    ASSUME NEW d \in Drags, d # NoDrag
    PROVE  d.img \in Images /\ d.m \in Drawable /\ d.body \in BOOLEAN
BY DEF Drags

LEMMA SeenFacts ==
    ASSUME NEW A \in [Images -> Drawings], NEW I \in SUBSET Images, NEW d \in Drags
    PROVE  /\ Seen(A, I, d) \in States /\ Seen(A, I, d).images = I
           /\ \A i \in Images : Seen(A, I, d).annots[i] = Put(d, i, A[i]) /\ A[i] \in Drawings
           /\ \A i \in Images : (d = NoDrag \/ d.img # i \/ ~Has(A[i], d.m.id)) => Put(d, i, A[i]) = A[i]
           /\ \A i \in Images : (d # NoDrag /\ d.img = i /\ Has(A[i], d.m.id)) =>
                 Put(d, i, A[i]) = Replaced(A[i], d.m.id, d.m)
<1>1. ASSUME NEW i \in Images PROVE Put(d, i, A[i]) \in Drawings /\ A[i] \in Drawings
  <2>1. A[i] \in Drawings
    OBVIOUS
  <2>2. CASE d # NoDrag
    <3>1. d.m \in Drawable
      BY <2>2, DragFacts
    <3>2. Replaced(A[i], d.m.id, d.m) \in Drawings
      BY <2>1, <3>1, ReplacedTyped
    <3> QED BY <2>1, <3>2 DEF Put
  <2> QED BY <2>1, <2>2 DEF Put
<1>2. Seen(A, I, d) = [annots |-> [i \in Images |-> Put(d, i, A[i])], images |-> I]
  BY DEF Seen
<1>3. [i \in Images |-> Put(d, i, A[i])] \in [Images -> Drawings]
  BY <1>1
<1>4. Seen(A, I, d) \in States
  BY <1>2, <1>3 DEF States
<1>5. Seen(A, I, d).images = I /\ \A i \in Images : Seen(A, I, d).annots[i] = Put(d, i, A[i])
  BY <1>2
<1> QED BY <1>1, <1>4, <1>5 DEF Put

LEMMA NowSeen ==
    /\ Now = Seen(annots, images, drag) /\ Now' = Seen(annots', images', drag')
    /\ State = [annots |-> annots, images |-> images] /\ State' = [annots |-> annots', images |-> images']
BY DEF Now, State, Settled, Seen, Put

HistoryShape ==
    /\ images \in SUBSET Images /\ unavailable \in SUBSET Images /\ undone \in SUBSET Images
    /\ closing \in SUBSET Images /\ closed \in SUBSET Images
    /\ annots \in [Images -> Drawings] /\ undoStack \in Stack /\ redoStack \in Stack
    /\ made \in Nat /\ drag \in Drags

\* Both stacks lead from sound states to sound states, and back.
Steady == Retraces(Now, undoStack, TRUE, closed, made) /\ Retraces(Now, redoStack, FALSE, closed, made)

LEMMA NowTyped == HistoryShape => Now \in States /\ State \in States
<1> SUFFICES ASSUME HistoryShape PROVE Now \in States /\ State \in States
  OBVIOUS
<1>1. annots \in [Images -> Drawings] /\ images \in SUBSET Images /\ drag \in Drags
  BY DEF HistoryShape
<1>2. Seen(annots, images, drag) \in States
  BY <1>1, SeenFacts
<1>3. State \in States
  BY <1>1, NowSeen DEF States
<1> QED BY <1>2, <1>3, NowSeen

LEMMA NowTypedAfter == ASSUME HistoryShape' PROVE Now' \in States /\ State' \in States
<1>1. annots' \in [Images -> Drawings] /\ images' \in SUBSET Images /\ drag' \in Drags
  BY DEF HistoryShape
<1>2. Seen(annots', images', drag') \in States
  BY <1>1, SeenFacts
<1>3. State' \in States
  BY <1>1, NowSeen DEF States
<1> QED BY <1>2, <1>3, NowSeen

---------------------------------------------------------------------------
\* The steps of the kept documents

\* A recorded entry is an edit of the kept documents.
LEMMA Edited ==
    ASSUME HistoryShape, HistoryShape', Steady, NEW e \in Entry,
           undoStack' = Append(Capped(undoStack), e), redoStack' = <<>>, closed' = closed, made <= made',
           SoundState(Now', closed, made'), Alike(Apply(Now', e, TRUE), Now, closed),
           Returns(Now', e, TRUE, closed)
    PROVE  Steady' /\ Snapshots!Edit
<1>1. undoStack \in Stack /\ made \in Nat /\ made' \in Nat
  BY DEF HistoryShape
<1>2. Recoverable(Now, Now', undoStack, e, TRUE, closed, made, made')
  BY DEF Recoverable, Steady
<1>3. Recorded(Now, Now', undoStack, e, TRUE, closed, made')
  BY <1>1, <1>2, NowTyped, NowTypedAfter, WayFacts, EditDocuments
<1>4. /\ Retraces(Now', Append(Capped(undoStack), e), TRUE, closed, made')
      /\ Retraces(Now', <<>>, FALSE, closed, made')
      /\ Unwound(Now', Append(Capped(undoStack), e), TRUE, closed) =
            Append(Capped(Unwound(Now, undoStack, TRUE, closed)), Document(Now, closed))
      /\ Unwound(Now', <<>>, FALSE, closed) = <<>>
  BY <1>3 DEF Recorded, Other
<1>5. Steady'
  BY <1>4 DEF Steady
<1>6. /\ Unwound(Now', undoStack', TRUE, closed') =
            Append(Snapshots!Recent(Unwound(Now, undoStack, TRUE, closed)), Document(Now, closed))
      /\ Unwound(Now', redoStack', FALSE, closed') = <<>>
  BY <1>4, RecentCapped
<1>7. Snapshots!Edit
  BY <1>6 DEF Snapshots!Edit
<1> QED BY <1>5, <1>7

LEMMA Unmoved ==
    ASSUME HistoryShape, HistoryShape', Steady, Alike(Now, Now', closed), made <= made',
           undoStack' = undoStack, redoStack' = redoStack, closed' = closed
    PROVE  /\ Steady'
           /\ Document(Now', closed') = Document(Now, closed)
           /\ Unwound(Now', undoStack', TRUE, closed') = Unwound(Now, undoStack, TRUE, closed)
           /\ Unwound(Now', redoStack', FALSE, closed') = Unwound(Now, redoStack, FALSE, closed)
<1>1. /\ undoStack \in Stack /\ redoStack \in Stack /\ made \in Nat /\ made' \in Nat
      /\ Now \in States /\ Now' \in States
  BY NowTyped, NowTypedAfter DEF HistoryShape
<1>2. Retraces(Now, undoStack, TRUE, closed, made) /\ Retraces(Now, redoStack, FALSE, closed, made)
  BY DEF Steady
<1>3. closed \subseteq closed /\ TRUE \in Ways /\ FALSE \in Ways
  BY WayFacts
<1>4. Retraces(Now', undoStack, TRUE, closed, made')
  BY <1>1, <1>2, <1>3, RetracesAlike
<1>5. Retraces(Now', redoStack, FALSE, closed, made')
  BY <1>1, <1>2, <1>3, RetracesAlike
<1>6. Document(Now, closed) = Document(Now', closed)
  BY DocumentAlike
<1>7. SameUnwound(Now, Now', undoStack, TRUE, closed)
  BY <1>1, <1>3, UnwoundAlike
<1>8. SameUnwound(Now, Now', redoStack, FALSE, closed)
  BY <1>1, <1>3, UnwoundAlike
<1> QED BY <1>4, <1>5, <1>6, <1>7, <1>8 DEF Steady, SameUnwound

\* Image i is closed, and no part of any document from then on.
LEMMA PartClosed ==
    ASSUME HistoryShape, HistoryShape', Steady, NEW i \in Images, Alike(Now, Now', closed \cup {i}), made <= made',
           undoStack' = undoStack, redoStack' = redoStack, closed' = closed \cup {i}
    PROVE  Steady' /\ Snapshots!Outside({i})
<1> DEFINE C == closed
           D == closed \cup {i}
<1>1. /\ undoStack \in Stack /\ redoStack \in Stack /\ made \in Nat /\ made' \in Nat
      /\ Now \in States /\ Now' \in States
  BY NowTyped, NowTypedAfter DEF HistoryShape
<1>2. Retraces(Now, undoStack, TRUE, C, made) /\ Retraces(Now, redoStack, FALSE, C, made)
  BY DEF Steady
<1>3. C \subseteq D /\ TRUE \in Ways /\ FALSE \in Ways /\ Alike(Now, Now', D) /\ closed' = D
  BY WayFacts
<1>6. Document(Now', D) = Snapshots!With(Document(Now, C), {i}, Document(Now', D))
  BY <1>1, <1>3, DocumentClosed
<1>7. UnwoundWith(Now', D, Now, C, undoStack, TRUE, {i}, Document(Now', D))
  BY <1>1, <1>3, UnwoundClosed
<1>8. UnwoundWith(Now', D, Now, C, redoStack, FALSE, {i}, Document(Now', D))
  BY <1>1, <1>3, UnwoundClosed
<1> HIDE DEF D
<1>4. Retraces(Now', undoStack, TRUE, D, made')
  BY <1>1, <1>2, <1>3, RetracesAlike
<1>5. Retraces(Now', redoStack, FALSE, D, made')
  BY <1>1, <1>2, <1>3, RetracesAlike
<1> HIDE DEF C
<1>9. Steady'
  BY <1>3, <1>4, <1>5 DEF Steady
<1>10. Snapshots!Outside({i})
  BY <1>3, <1>6, <1>7, <1>8 DEF Snapshots!Outside, UnwoundWith, C
<1> QED BY <1>9, <1>10

\* Images S come that no entry is about.
LEMMA PartsGrown ==
    ASSUME HistoryShape, HistoryShape', Steady, NEW S \in SUBSET Images, Now' = Grown(Now, S),
           \A i \in S : Spares(undoStack, i) /\ Spares(redoStack, i),
           made' = made, undoStack' = undoStack, redoStack' = redoStack, closed' = closed
    PROVE  Steady' /\ Snapshots!Outside(S)
<1>1. undoStack \in Stack /\ redoStack \in Stack /\ Now \in States /\ TRUE \in Ways /\ FALSE \in Ways
  BY NowTyped, WayFacts DEF HistoryShape
<1>2. Retraces(Now, undoStack, TRUE, closed, made) /\ Retraces(Now, redoStack, FALSE, closed, made)
  BY DEF Steady
<1>3. Retraces(Grown(Now, S), undoStack, TRUE, closed, made)
  BY <1>1, <1>2, RetracesGrown
<1>4. Retraces(Grown(Now, S), redoStack, FALSE, closed, made)
  BY <1>1, <1>2, RetracesGrown
<1>5. Document(Grown(Now, S), closed) = Snapshots!With(Document(Now, closed), S, Document(Grown(Now, S), closed))
  BY <1>1, DocumentGrown
<1>6. UnwoundWith(Grown(Now, S), closed, Now, closed, undoStack, TRUE, S, Document(Grown(Now, S), closed))
  BY <1>1, UnwoundGrown
<1>7. UnwoundWith(Grown(Now, S), closed, Now, closed, redoStack, FALSE, S, Document(Grown(Now, S), closed))
  BY <1>1, UnwoundGrown
<1>8. Steady'
  BY <1>3, <1>4 DEF Steady
<1>9. Snapshots!Outside(S)
  BY <1>5, <1>6, <1>7 DEF Snapshots!Outside, UnwoundWith
<1> QED BY <1>8, <1>9

\* The last entry is taken back.
LEMMA Undone ==
    ASSUME HistoryShape, HistoryShape', Steady, undoStack # <<>>, Now' = Apply(Now, Last(undoStack), TRUE),
           undoStack' = Front(undoStack), redoStack' = Append(redoStack, Last(undoStack)),
           made' = made, closed' = closed
    PROVE  Steady' /\ Snapshots!Undo /\ SoundState(Now', closed, made)
<1> DEFINE s == Front(undoStack)
           e == Last(undoStack)
           d == Document(Now, closed)
           dd == Document(Now', closed)
           past == Unwound(Now, undoStack, TRUE, closed)
           pp == Unwound(Now', s, TRUE, closed)
           future == Unwound(Now, redoStack, FALSE, closed)
           ff == Unwound(Now', Append(redoStack, e), FALSE, closed)
<1>1. /\ undoStack \in Stack /\ redoStack \in Stack /\ made \in Nat /\ Now \in States /\ Now' \in States
      /\ TRUE \in Ways /\ Other(TRUE) = FALSE
  BY NowTyped, NowTypedAfter, WayFacts DEF HistoryShape
<1>2. s \in Stack /\ e \in Entry /\ undoStack = Append(s, e)
  BY <1>1, SequenceEnds DEF Stack
<1> HIDE DEF s, e
<1>3. Between(Now, s, redoStack, e, TRUE, closed, made)
  BY <1>1, <1>2 DEF Between, Steady
<1>4. Replayed(Now, Apply(Now, e, TRUE), s, redoStack, e, TRUE, closed, made)
  BY <1>1, <1>2, <1>3, ReplayDocuments
<1>5. Now' = Apply(Now, e, TRUE) /\ undoStack' = s /\ redoStack' = Append(redoStack, e)
  BY DEF s, e
<1>6. /\ SoundState(Now', closed, made)
      /\ Retraces(Now', s, TRUE, closed, made) /\ Retraces(Now', Append(redoStack, e), FALSE, closed, made)
      /\ Unwound(Now, Append(s, e), TRUE, closed) = Append(pp, dd) /\ ff = Append(future, d)
  BY <1>1, <1>4, <1>5 DEF Replayed
<1>7. Steady'
  BY <1>5, <1>6 DEF Steady
<1>8. past = Append(pp, dd) /\ pp \in Seq(Docs(closed)) /\ dd \in Docs(closed)
  <2>1. pp \in Seq(Docs(closed))
    BY <1>1, <1>2, UnwoundFacts
  <2>2. dd \in Docs(closed)
    BY <1>1 DEF Docs
  <2> QED BY <1>2, <1>6, <2>1, <2>2
<1> HIDE DEF past, pp, future, ff, d, dd
<1>9. past # <<>> /\ Last(past) = dd /\ Front(past) = pp
  BY <1>8, AppendEnds
<1>10. /\ Unwound(Now, undoStack, TRUE, closed) # <<>>
       /\ Document(Now', closed') = Last(Unwound(Now, undoStack, TRUE, closed))
       /\ Unwound(Now', undoStack', TRUE, closed') = Front(Unwound(Now, undoStack, TRUE, closed))
       /\ Unwound(Now', redoStack', FALSE, closed') =
             Append(Unwound(Now, redoStack, FALSE, closed), Document(Now, closed))
  BY <1>5, <1>6, <1>9 DEF past, pp, future, ff, d, dd
<1>11. Snapshots!Undo
  BY <1>10 DEF Snapshots!Undo, Snapshots!Last, Snapshots!Front, Last, Front
<1> QED BY <1>6, <1>7, <1>11

\* The last entry taken back is brought forth again.
LEMMA Redone ==
    ASSUME HistoryShape, HistoryShape', Steady, redoStack # <<>>, Now' = Apply(Now, Last(redoStack), FALSE),
           redoStack' = Front(redoStack), undoStack' = Append(undoStack, Last(redoStack)),
           made' = made, closed' = closed
    PROVE  Steady' /\ Snapshots!Redo /\ SoundState(Now', closed, made)
<1> DEFINE s == Front(redoStack)
           e == Last(redoStack)
           d == Document(Now, closed)
           dd == Document(Now', closed)
           future == Unwound(Now, redoStack, FALSE, closed)
           ff == Unwound(Now', s, FALSE, closed)
           past == Unwound(Now, undoStack, TRUE, closed)
           pp == Unwound(Now', Append(undoStack, e), TRUE, closed)
<1>1. /\ undoStack \in Stack /\ redoStack \in Stack /\ made \in Nat /\ Now \in States /\ Now' \in States
      /\ FALSE \in Ways /\ Other(FALSE) = TRUE
  BY NowTyped, NowTypedAfter, WayFacts DEF HistoryShape
<1>2. s \in Stack /\ e \in Entry /\ redoStack = Append(s, e)
  BY <1>1, SequenceEnds DEF Stack
<1> HIDE DEF s, e
<1>3. Between(Now, s, undoStack, e, FALSE, closed, made)
  BY <1>1, <1>2 DEF Between, Steady
<1>4. Replayed(Now, Apply(Now, e, FALSE), s, undoStack, e, FALSE, closed, made)
  BY <1>1, <1>2, <1>3, ReplayDocuments
<1>5. Now' = Apply(Now, e, FALSE) /\ redoStack' = s /\ undoStack' = Append(undoStack, e)
  BY DEF s, e
<1>6. /\ SoundState(Now', closed, made)
      /\ Retraces(Now', s, FALSE, closed, made) /\ Retraces(Now', Append(undoStack, e), TRUE, closed, made)
      /\ Unwound(Now, Append(s, e), FALSE, closed) = Append(ff, dd) /\ pp = Append(past, d)
  BY <1>1, <1>4, <1>5 DEF Replayed
<1>7. Steady'
  BY <1>5, <1>6 DEF Steady
<1>8. future = Append(ff, dd) /\ ff \in Seq(Docs(closed)) /\ dd \in Docs(closed)
  <2>1. ff \in Seq(Docs(closed))
    BY <1>1, <1>2, UnwoundFacts
  <2>2. dd \in Docs(closed)
    BY <1>1 DEF Docs
  <2> QED BY <1>2, <1>6, <2>1, <2>2
<1> HIDE DEF past, pp, future, ff, d, dd
<1>9. future # <<>> /\ Last(future) = dd /\ Front(future) = ff
  BY <1>8, AppendEnds
<1>10. /\ Unwound(Now, redoStack, FALSE, closed) # <<>>
       /\ Document(Now', closed') = Last(Unwound(Now, redoStack, FALSE, closed))
       /\ Unwound(Now', redoStack', FALSE, closed') = Front(Unwound(Now, redoStack, FALSE, closed))
       /\ Unwound(Now', undoStack', TRUE, closed') =
             Append(Unwound(Now, undoStack, TRUE, closed), Document(Now, closed))
  BY <1>5, <1>6, <1>9 DEF past, pp, future, ff, d, dd
<1>11. Snapshots!Redo
  BY <1>10 DEF Snapshots!Redo, Snapshots!Last, Snapshots!Front, Last, Front
<1> QED BY <1>6, <1>7, <1>11

---------------------------------------------------------------------------
\* The invariant

\* Images the page has shown in this session and that it could show again.
Paged == (images \cup undone \cup closed) \ unavailable

\* The steps of a stack are about images of P.
PlacedIn(P, s) == \A k \in DOMAIN s : \A n \in DOMAIN s[k] : s[k][n].img \in P
Placed == images \cap unavailable = {} /\ PlacedIn(Paged, undoStack) /\ PlacedIn(Paged, redoStack)

\* What d holds is still drawn in A, as it was or at another place.
Held(A, d) == \E now \in A[d.img] : now.id = d.m.id /\ (now = d.m \/ now.pts.at # d.m.pts.at)
Pointed == drag # NoDrag => drag.img \in Paged /\ (drag.img \notin closed => Held(annots, drag))

HistoryInv == HistoryShape /\ Steady /\ SoundState(State, closed, made) /\ Placed /\ Pointed

SameDocuments ==
    /\ Document(Now', closed') = Document(Now, closed)
    /\ Unwound(Now', undoStack', TRUE, closed') = Unwound(Now, undoStack, TRUE, closed)
    /\ Unwound(Now', redoStack', FALSE, closed') = Unwound(Now, redoStack, FALSE, closed)

LEMMA PlacedMore ==
    ASSUME NEW P, NEW Q, P \subseteq Q, NEW s
    PROVE  /\ PlacedIn(P, s) => PlacedIn(Q, s)
           /\ \A i : i \notin P /\ PlacedIn(P, s) => Spares(s, i)
BY DEF PlacedIn, Spares

\* A recorded entry is about images of the page as well.
LEMMA PlacedAppend ==
    ASSUME NEW P, NEW s \in Stack, NEW e \in Entry, PlacedIn(P, s), \A n \in DOMAIN e : e[n].img \in P
    PROVE  PlacedIn(P, Append(Capped(s), e)) /\ PlacedIn(P, Append(s, e)) /\ PlacedIn(P, <<>>)
<1>1. PlacedIn(P, Append(s, e))
  <2>1. \A k \in DOMAIN Append(s, e) : (k \in DOMAIN s /\ Append(s, e)[k] = s[k]) \/ Append(s, e)[k] = e
    BY SequenceEnds DEF Stack
  <2> QED BY <2>1 DEF PlacedIn
<1>2. PlacedIn(P, Append(Capped(s), e))
  <2> DEFINE c == Capped(s)
  <2>1. c \in Stack /\ \A k \in DOMAIN c : \E j \in DOMAIN s : c[k] = s[j]
    <3>1. c \in Stack /\ Len(c) \in Nat /\ Len(c) <= Len(s) /\ Len(s) \in Nat
      BY CappedFacts, UndoAssumption DEF Stack
    <3>2. \A k \in 1 .. Len(c) : c[k] = s[Len(s) - Len(c) + k]
      BY CappedFacts DEF Stack
    <3> HIDE DEF c
    <3>3. \A k \in 1 .. Len(c) : Len(s) - Len(c) + k \in 1 .. Len(s)
      BY <3>1
    <3>4. DOMAIN c = 1 .. Len(c) /\ DOMAIN s = 1 .. Len(s)
      BY <3>1 DEF Stack
    <3> QED BY <3>1, <3>2, <3>3, <3>4
  <2> HIDE DEF c
  <2>2. \A k \in DOMAIN Append(c, e) : (k \in DOMAIN c /\ Append(c, e)[k] = c[k]) \/ Append(c, e)[k] = e
    BY <2>1, SequenceEnds DEF Stack
  <2>3. \A k \in DOMAIN c : \A n \in DOMAIN c[k] : c[k][n].img \in P
    BY <2>1 DEF PlacedIn
  <2>4. PlacedIn(P, Append(c, e))
    BY <2>2, <2>3 DEF PlacedIn
  <2> QED BY <2>4 DEF c
<1>3. PlacedIn(P, <<>>)
  BY DEF PlacedIn
<1> QED BY <1>1, <1>2, <1>3

\* Nothing held is Now; a drawing's soundness is that of State.
LEMMA CalmNow ==
    /\ drag = NoDrag /\ HistoryShape => Now = State
    /\ drag' = NoDrag /\ HistoryShape' => Now' = State'
<1>1. ASSUME drag = NoDrag, HistoryShape PROVE Now = State
  <2>1. annots \in [Images -> Drawings]
    BY <1>1 DEF HistoryShape
  <2>2. [i \in Images |-> Put(drag, i, annots[i])] = annots
    BY <1>1, <2>1 DEF Put
  <2> QED BY <2>2, NowSeen DEF Seen
<1>2. ASSUME drag' = NoDrag, HistoryShape' PROVE Now' = State'
  <2>1. annots' \in [Images -> Drawings]
    BY <1>2 DEF HistoryShape
  <2>2. [i \in Images |-> Put(drag', i, annots'[i])] = annots'
    BY <1>2, <2>1 DEF Put
  <2> QED BY <2>2, NowSeen DEF Seen
<1> QED BY <1>1, <1>2

---------------------------------------------------------------------------
\* The steps of the library

\* Images come that the page has not shown: opened, or located again.
LEMMA GrowInv ==
    ASSUME HistoryInv, NEW S \in SUBSET Images, S \cap Paged = {},
           images' = images \cup S, unavailable' = unavailable \ S,
           undone' = undone, closing' = closing, closed' = closed, UNCHANGED annotVars
    PROVE  HistoryInv' /\ Snapshots!Outside(S)
<1>1. /\ annots' = annots /\ undoStack' = undoStack /\ redoStack' = redoStack /\ drag' = drag /\ made' = made
  BY DEF annotVars, historyVars
<1>2. HistoryShape /\ Steady /\ SoundState(State, closed, made) /\ Placed /\ Pointed
  BY DEF HistoryInv
<1>3. HistoryShape'
  BY <1>1, <1>2 DEF HistoryShape
<1>4. Now' = Grown(Now, S)
  BY <1>1, NowSeen DEF Seen, Grown
<1>5. \A i \in S : Spares(undoStack, i) /\ Spares(redoStack, i)
  BY <1>2, PlacedMore DEF Placed
<1>6. Steady' /\ Snapshots!Outside(S)
  BY <1>1, <1>2, <1>3, <1>4, <1>5, PartsGrown
<1>7. SoundState(State', closed', made')
  BY <1>1, <1>2, NowSeen DEF SoundState
<1>8. Paged \subseteq Paged'
  BY DEF Paged
<1>9. PlacedIn(Paged', undoStack') /\ PlacedIn(Paged', redoStack')
  BY <1>1, <1>2, <1>8, PlacedMore DEF Placed
<1>10. Placed'
  BY <1>2, <1>9 DEF Placed
<1>11. Pointed'
  BY <1>1, <1>2, <1>8 DEF Pointed
<1> QED BY <1>3, <1>6, <1>7, <1>10, <1>11 DEF HistoryInv

\* Nothing of the documents changes.
LEMMA IdleInv ==
    ASSUME HistoryInv, closing' \in SUBSET Images,
           UNCHANGED <<images, unavailable, undone, closed, annotVars>>
    PROVE  HistoryInv' /\ SameDocuments
<1>1. /\ annots' = annots /\ undoStack' = undoStack /\ redoStack' = redoStack /\ drag' = drag /\ made' = made
      /\ images' = images /\ unavailable' = unavailable /\ undone' = undone /\ closed' = closed
  BY DEF annotVars, historyVars
<1>2. HistoryShape /\ Steady /\ SoundState(State, closed, made) /\ Placed /\ Pointed
  BY DEF HistoryInv
<1>3. HistoryShape'
  BY <1>1, <1>2 DEF HistoryShape
<1>4. Now' = Now /\ State' = State
  BY <1>1, NowSeen
<1>5. Steady' /\ SameDocuments
  BY <1>1, <1>2, <1>4 DEF Steady, SameDocuments
<1>6. Placed' /\ Pointed' /\ SoundState(State', closed', made')
  BY <1>1, <1>2, <1>4 DEF Placed, Pointed, Paged
<1> QED BY <1>3, <1>5, <1>6 DEF HistoryInv

\* An image goes from every document.
LEMMA CloseImageInv ==
    ASSUME HistoryInv, NEW i \in closing, CloseDone(i), AnnotsClosed(i)
    PROVE  HistoryInv' /\ Snapshots!Outside({i})
<1>1. /\ annots' = [annots EXCEPT ![i] = {}] /\ undoStack' = undoStack /\ redoStack' = redoStack
      /\ drag' = drag /\ made' = made
      /\ images' = images \ {i} /\ unavailable' = unavailable /\ undone' = undone \ {i}
      /\ closing' = closing \ {i} /\ closed' = closed \cup {i}
  BY DEF AnnotsClosed, CloseDone, historyVars
<1>2. HistoryShape /\ Steady /\ SoundState(State, closed, made) /\ Placed /\ Pointed
  BY DEF HistoryInv
<1>3. i \in Images /\ annots \in [Images -> Drawings] /\ made \in Nat /\ drag \in Drags /\ images \in SUBSET Images
  BY <1>2 DEF HistoryShape
<1>4. {} \in Drawings
  BY EmptyFinite DEF Drawings
<1>5. annots' \in [Images -> Drawings] /\ \A j \in Images \ {i} : annots'[j] = annots[j]
  BY <1>1, <1>3, <1>4
<1>6. HistoryShape'
  BY <1>1, <1>2, <1>3, <1>5 DEF HistoryShape
<1>7. Alike(Now, Now', closed \cup {i})
  <2>1. /\ Now.images = images /\ Now'.images = images'
        /\ \A j \in Images : Now.annots[j] = Put(drag, j, annots[j]) /\ Now'.annots[j] = Put(drag', j, annots'[j])
    BY NowSeen DEF Seen
  <2>2. \A j \in Images \ {i} : Now.annots[j] = Now'.annots[j] /\ (j \in Now.images <=> j \in Now'.images)
    BY <1>1, <1>5, <2>1
  <2> QED BY <2>2 DEF Alike
<1>8. Steady' /\ Snapshots!Outside({i})
  <2>1. made <= made'
    BY <1>1, <1>3
  <2> QED BY <1>1, <1>2, <1>3, <1>6, <1>7, <2>1, PartClosed
<1>9. SoundState(State', closed', made')
  <2>1. \A j \in Images \ closed : Sound(annots[j], made)
    BY <1>2, NowSeen DEF SoundState
  <2>2. \A j \in Images \ closed' : Sound(annots'[j], made')
    BY <1>1, <1>5, <2>1
  <2> QED BY <2>2, NowSeen DEF SoundState
<1>10. Paged \subseteq Paged'
  BY <1>1 DEF Paged
<1>11. Placed'
  <2>1. PlacedIn(Paged', undoStack') /\ PlacedIn(Paged', redoStack')
    BY <1>1, <1>2, <1>10, PlacedMore DEF Placed
  <2> QED BY <1>1, <1>2, <2>1 DEF Placed
<1>12. Pointed'
  <2> SUFFICES ASSUME drag # NoDrag PROVE drag.img \in Paged' /\ (drag.img \notin closed' => Held(annots', drag))
    BY <1>1 DEF Pointed
  <2>1. drag.img \in Paged /\ (drag.img \notin closed => Held(annots, drag)) /\ drag.img \in Images
    BY <1>2, <1>3, DragFacts DEF Pointed
  <2>2. ASSUME drag.img \notin closed' PROVE Held(annots', drag)
    BY <1>1, <1>5, <2>1, <2>2 DEF Held
  <2> QED BY <1>10, <2>1, <2>2
<1> QED BY <1>6, <1>8, <1>9, <1>11, <1>12 DEF HistoryInv

---------------------------------------------------------------------------
\* The edits

\* An entry is recorded whose steps are about images of the page.
LEMMA RecordedInv ==
    ASSUME HistoryInv, HistoryShape', NEW e \in Entry, Push(e), closed' = closed, made <= made',
           SoundState(State', closed, made'), SoundState(Now', closed, made'),
           Alike(Apply(Now', e, TRUE), Now, closed), Returns(Now', e, TRUE, closed),
           Paged \subseteq Paged', \A n \in DOMAIN e : e[n].img \in Paged',
           images' \cap unavailable' = {}, Pointed'
    PROVE  HistoryInv' /\ Snapshots!Edit
<1>1. HistoryShape /\ Steady /\ Placed
  BY DEF HistoryInv
<1>2. undoStack' = Append(Capped(undoStack), e) /\ redoStack' = <<>>
  BY DEF Push
<1>3. Steady' /\ Snapshots!Edit
  BY <1>1, <1>2, Edited
<1>4. Placed'
  <2>1. undoStack \in Stack /\ PlacedIn(Paged, undoStack)
    BY <1>1 DEF HistoryShape, Placed
  <2>2. PlacedIn(Paged', undoStack)
    BY <2>1, PlacedMore
  <2>3. PlacedIn(Paged', Append(Capped(undoStack), e)) /\ PlacedIn(Paged', <<>>)
    BY <2>1, <2>2, PlacedAppend
  <2> QED BY <1>2, <2>3 DEF Placed
<1>5. SoundState(State', closed', made')
  OBVIOUS
<1> QED BY <1>3, <1>4, <1>5 DEF HistoryInv

\* One step about one image.
LEMMA StepRecorded ==
    ASSUME HistoryInv, HistoryShape', UNCHANGED libVars, drag' = NoDrag, made <= made',
           NEW s \in Step, s.t # "derived", s.img \in Paged, Push(<<s>>),
           SoundState(State', closed, made'), \A j \in Images \ {s.img} : Now.annots[j] = Now'.annots[j],
           s.img \notin closed => /\ Redrawn(Now'.annots[s.img], s, TRUE) = Now.annots[s.img]
                                  /\ Redrawn(Now.annots[s.img], s, FALSE) = Now'.annots[s.img]
    PROVE  HistoryInv' /\ Snapshots!Edit
<1>1. /\ images' = images /\ unavailable' = unavailable /\ undone' = undone /\ closed' = closed
  BY DEF libVars
<1>2. HistoryShape /\ Placed
  BY DEF HistoryInv
<1>3. Now \in States /\ Now' \in States /\ Now' = State'
  BY <1>2, NowTyped, NowTypedAfter, CalmNow
<1>4. Now.images = Now'.images
  BY <1>1, NowSeen DEF Seen
<1>5. <<s>> \in Entry /\ Alike(Apply(Now', <<s>>, TRUE), Now, closed) /\ Returns(Now', <<s>>, TRUE, closed)
  BY <1>3, <1>4, OneStep
<1>6. Paged' = Paged /\ images' \cap unavailable' = {} /\ Pointed'
  BY <1>1, <1>2 DEF Paged, Placed, Pointed
<1>7. \A n \in DOMAIN <<s>> : <<s>>[n].img \in Paged'
  BY <1>6
<1> QED BY <1>1, <1>3, <1>5, <1>6, <1>7, RecordedInv

\* Nothing is held, and image i gets the drawing T.
LEMMA DrawnRecorded ==
    ASSUME HistoryInv, UNCHANGED libVars, drag = NoDrag, drag' = NoDrag, made' \in Nat, made <= made',
           NEW i \in images, NEW T \in Drawings, annots' = [annots EXCEPT ![i] = T],
           NEW s \in Step, s.t # "derived", s.img = i, Push(<<s>>),
           i \notin closed =>
              Sound(T, made') /\ Redrawn(T, s, TRUE) = annots[i] /\ Redrawn(annots[i], s, FALSE) = T
    PROVE  HistoryInv' /\ Snapshots!Edit
<1>1. /\ images' = images /\ unavailable' = unavailable /\ undone' = undone /\ closed' = closed /\ closing' = closing
  BY DEF libVars
<1>2. HistoryShape /\ Placed /\ SoundState(State, closed, made)
  BY DEF HistoryInv
<1>3. /\ i \in Images /\ annots \in [Images -> Drawings] /\ made \in Nat /\ undoStack \in Stack
      /\ i \in Paged
  BY <1>2 DEF HistoryShape, Placed, Paged
<1>4. annots' \in [Images -> Drawings] /\ annots'[i] = T /\ \A j \in Images \ {i} : annots'[j] = annots[j]
  BY <1>3
<1>5. HistoryShape'
  <2>1. undoStack' = Append(Capped(undoStack), <<s>>) /\ redoStack' = <<>>
    BY DEF Push
  <2>2. Capped(undoStack) \in Stack /\ <<s>> \in Entry /\ <<>> \in Stack
    BY <1>3, CappedFacts DEF Stack, Entry
  <2>3. Append(Capped(undoStack), <<s>>) \in Stack
    BY <2>2 DEF Stack
  <2>4. undoStack' \in Stack /\ redoStack' \in Stack
    BY <2>1, <2>2, <2>3
  <2> QED BY <1>1, <1>2, <1>4, <2>4 DEF HistoryShape, Drags
<1>6. Now = State /\ Now' = State'
  BY <1>2, <1>5, CalmNow
<1>7. Now.annots = annots /\ Now'.annots = annots'
  <2>1. State.annots = annots /\ State'.annots = annots'
    BY NowSeen
  <2> QED BY <1>6, <2>1
<1>8. SoundState(State', closed, made')
  <2>1. \A j \in Images \ closed : Sound(annots[j], made) /\ annots[j] \in Drawings
    BY <1>2, <1>3, NowSeen DEF SoundState
  <2>2. \A j \in Images \ closed : Sound(annots'[j], made')
    BY <1>3, <1>4, <2>1, SoundMore
  <2> QED BY <2>2, NowSeen DEF SoundState
<1>9. \A j \in Images \ {s.img} : Now.annots[j] = Now'.annots[j]
  BY <1>4, <1>7
<1>10. s.img \notin closed => /\ Redrawn(Now'.annots[s.img], s, TRUE) = Now.annots[s.img]
                              /\ Redrawn(Now.annots[s.img], s, FALSE) = Now'.annots[s.img]
  BY <1>4, <1>7
<1> QED BY <1>1, <1>3, <1>5, <1>8, <1>9, <1>10, StepRecorded

LEMMA OpenImage ==
    ASSUME HistoryInv, NEW i \in images
    PROVE  /\ i \in Images /\ annots \in [Images -> Drawings] /\ annots[i] \in Drawings /\ made \in Nat
           /\ i \notin closed => Sound(annots[i], made)
BY NowSeen DEF HistoryInv, HistoryShape, SoundState

\* The edits: each records an entry that leads back.
LEMMA AddMeasureInv ==
    ASSUME HistoryInv, UNCHANGED libVars, drag = NoDrag, drag' = NoDrag, NEW i \in images, AddMeasure(i)
    PROVE  HistoryInv' /\ Snapshots!Edit
<1> DEFINE m == [id |-> made + 1, pts |-> Outline(made + 1), holes |-> {}]
           s == [t |-> "measure-add", img |-> i, m |-> m]
           T == annots[i] \cup {m}
<1>1. /\ annots' = [annots EXCEPT ![i] = T] /\ Push(<<s>>) /\ made' = made + 1
  BY DEF AddMeasure
<1>2. /\ i \in Images /\ annots \in [Images -> Drawings] /\ annots[i] \in Drawings /\ made \in Nat
      /\ i \notin closed => Sound(annots[i], made)
  BY OpenImage
<1>3. m \in Drawable
  BY <1>2, OutlineFacts
<1> HIDE DEF m
<1>4. T \in Drawings
  BY <1>2, <1>3, FiniteFacts DEF Drawings
<1>5. s \in Step /\ s.t = "measure-add" /\ s.img = i /\ s.m = m
  BY <1>2, <1>3 DEF Step
<1>6. ASSUME i \notin closed
      PROVE  Sound(T, made + 1) /\ Removed(T, m) = annots[i]
  BY <1>2, <1>6, AddExact DEF m
<1> HIDE DEF s
<1>7. ASSUME i \notin closed
      PROVE  Redrawn(T, s, TRUE) = annots[i] /\ Redrawn(annots[i], s, FALSE) = T
  BY <1>5, <1>6, <1>7 DEF Redrawn, Added
<1> HIDE DEF T
<1>8. made' \in Nat /\ made <= made' /\ s.t # "derived"
  BY <1>1, <1>2, <1>5
<1> QED BY <1>1, <1>4, <1>5, <1>6, <1>7, <1>8, DrawnRecorded

LEMMA AddHoleInv ==
    ASSUME HistoryInv, UNCHANGED libVars, drag = NoDrag, drag' = NoDrag, NEW i \in images,
           NEW host \in annots[i], NEW child \in annots[i], AddHole(i, host, child)
    PROVE  HistoryInv' /\ Snapshots!Edit
<1> DEFINE new == [host EXCEPT !.holes = @ \cup {child.pts}]
           s == [t |-> "hole-add", img |-> i, host |-> host.id, child |-> child]
           T == (annots[i] \ {host, child}) \cup {new}
<1>1. /\ annots' = [annots EXCEPT ![i] = T] /\ Push(<<s>>) /\ made' = made /\ host # child
  BY DEF AddHole
<1>2. /\ i \in Images /\ annots \in [Images -> Drawings] /\ annots[i] \in Drawings /\ made \in Nat
      /\ i \notin closed => Sound(annots[i], made)
  BY OpenImage
<1>3. host \in Drawable /\ child \in Drawable
  BY <1>2, DrawingsFacts
<1>4. new \in Drawable
  <2>1. host.id \in Nat /\ host.pts \in Array /\ host.holes \cup {child.pts} \in FiniteSubsetsOf(Array)
    BY <1>3, DrawableFacts, FiniteFacts
  <2>2. new = [id |-> host.id, pts |-> host.pts, holes |-> host.holes \cup {child.pts}]
    BY <1>3, DrawableFacts
  <2> QED BY <2>1, <2>2, MakeDrawable
<1>5. T \in Drawings
  <2> HIDE DEF new
  <2>1. {new} \in SUBSET Drawable /\ IsFiniteSet({new})
    BY <1>4, FewFinite
  <2> QED BY <1>2, <2>1, SwapTyped
<1>6. s \in Step /\ s.t = "hole-add" /\ s.img = i /\ s.host = host.id /\ s.child = child
  BY <1>2, <1>3, DrawableFacts DEF Step
<1>10. HoleAdded(annots[i], host, child, T)
  BY DEF HoleAdded
<1> HIDE DEF s, T
<1>7. ASSUME i \notin closed
      PROVE  Sound(T, made) /\ Unholed(T, s) = annots[i] /\ Holed(annots[i], s) = T
  <2> HIDE DEF new
  <2> QED BY <1>1, <1>2, <1>6, <1>7, <1>10, HoleAddExact
<1>8. ASSUME i \notin closed
      PROVE  Redrawn(T, s, TRUE) = annots[i] /\ Redrawn(annots[i], s, FALSE) = T
  BY <1>6, <1>7, <1>8 DEF Redrawn
<1>9. made' \in Nat /\ made <= made' /\ s.t # "derived"
  BY <1>1, <1>2, <1>6
<1> QED BY <1>1, <1>5, <1>6, <1>7, <1>8, <1>9, DrawnRecorded

LEMMA RemoveHoleInv ==
    ASSUME HistoryInv, UNCHANGED libVars, drag = NoDrag, drag' = NoDrag, NEW i \in images,
           NEW host \in annots[i], NEW h \in host.holes, RemoveHole(i, host, h)
    PROVE  HistoryInv' /\ Snapshots!Edit
<1> DEFINE child == [id |-> made + 1, pts |-> h, holes |-> {}]
           new == [host EXCEPT !.holes = @ \ {h}]
           s == [t |-> "hole-remove", img |-> i, host |-> host.id, child |-> child]
           T == (annots[i] \ {host}) \cup {new, child}
<1>1. /\ annots' = [annots EXCEPT ![i] = T] /\ Push(<<s>>) /\ made' = made + 1
  BY DEF RemoveHole
<1>2. /\ i \in Images /\ annots \in [Images -> Drawings] /\ annots[i] \in Drawings /\ made \in Nat
      /\ i \notin closed => Sound(annots[i], made)
  BY OpenImage
<1>3. host \in Drawable
  BY <1>2, DrawingsFacts
<1>4. new \in Drawable /\ child \in Drawable
  <2>1. /\ host.id \in Nat /\ host.pts \in Array /\ host.holes \in FiniteSubsetsOf(Array)
        /\ host.holes \ {h} \in SUBSET host.holes
    BY <1>3, DrawableFacts
  <2>2. host.holes \ {h} \in FiniteSubsetsOf(Array) /\ h \in Array /\ made + 1 \in Nat /\ {} \in FiniteSubsetsOf(Array)
    BY <1>2, <2>1, FiniteFacts, EmptyFinite
  <2>3. new = [id |-> host.id, pts |-> host.pts, holes |-> host.holes \ {h}]
    BY <1>3, DrawableFacts
  <2>4. [id |-> host.id, pts |-> host.pts, holes |-> host.holes \ {h}] \in Drawable
    BY <2>1, <2>2, MakeDrawable
  <2>5. child \in Drawable
    BY <2>2, MakeDrawable
  <2> HIDE DEF new, child
  <2> QED BY <2>3, <2>4, <2>5
<1>5. T \in Drawings
  <2> HIDE DEF new, child
  <2>1. {new, child} \in SUBSET Drawable /\ IsFiniteSet({new, child})
    BY <1>4, FewFinite
  <2> QED BY <1>2, <2>1, SwapTyped
<1>6. s \in Step /\ s.t = "hole-remove" /\ s.img = i /\ s.host = host.id /\ s.child = child
  <2> HIDE DEF child
  <2> QED BY <1>2, <1>3, <1>4, DrawableFacts DEF Step
<1>10. /\ child = [id |-> made + 1, pts |-> h, holes |-> {}]
       /\ HoleTaken(annots[i], host, h, child, T)
  BY DEF HoleTaken
<1> HIDE DEF s, T, child
<1>7. ASSUME i \notin closed
      PROVE  Sound(T, made + 1) /\ Holed(T, s) = annots[i] /\ Unholed(annots[i], s) = T
  <2> HIDE DEF new
  <2> QED BY <1>2, <1>6, <1>7, <1>10, HoleRemoveExact
<1>8. ASSUME i \notin closed
      PROVE  Redrawn(T, s, TRUE) = annots[i] /\ Redrawn(annots[i], s, FALSE) = T
  BY <1>6, <1>7, <1>8 DEF Redrawn
<1>9. made' \in Nat /\ made <= made' /\ s.t # "derived"
  BY <1>1, <1>2, <1>6
<1> QED BY <1>1, <1>5, <1>6, <1>7, <1>8, <1>9, DrawnRecorded

LEMMA MoveFacts ==
    ASSUME NEW i \in Images, NEW a \in Drawable, NEW b \in Drawable, NEW w \in BOOLEAN
    PROVE  /\ Move(i, a, b, w) \in Step /\ Move(i, a, b, w).t = "measure-move" /\ Move(i, a, b, w).img = i
           /\ Move(i, a, b, w).id = a.id /\ Move(i, a, b, w).withHoles = w
           /\ Move(i, a, b, w).before = a.pts /\ Move(i, a, b, w).beforeHoles = a.holes
           /\ Move(i, a, b, w).after = b.pts /\ Move(i, a, b, w).afterHoles = b.holes
<1>1. /\ a.id \in Nat /\ a.pts \in Array /\ a.holes \in FiniteSubsetsOf(Array)
      /\ b.pts \in Array /\ b.holes \in FiniteSubsetsOf(Array)
  BY DrawableFacts
<1> QED BY <1>1 DEF Move, Step

\* An entry without holes is of outlines with the same.
KeepsHoles(w, a, b) == ~w => a.holes = b.holes

MovesBetween(S, T, i, a, b, w) ==
    Redrawn(T, Move(i, a, b, w), TRUE) = S /\ Redrawn(S, Move(i, a, b, w), FALSE) = T

\* A reshaped outline goes back to the arrays it had, and forth.
LEMMA MoveRedrawn ==
    ASSUME NEW S \in Drawings, NEW n, Sound(S, n), NEW a \in S, NEW b \in Drawable, b.id = a.id,
           NEW T, T = (S \ {a}) \cup {b}, NEW i \in Images, NEW w \in Ways, KeepsHoles(w, a, b)
    PROVE  MovesBetween(S, T, i, a, b, w)
<1> DEFINE s == Move(i, a, b, w)
<1>1. a \in Drawable /\ w \in BOOLEAN
  BY DrawingsFacts DEF Ways
<1>2. /\ s.t = "measure-move" /\ s.id = a.id /\ s.withHoles = w
      /\ s.before = a.pts /\ s.beforeHoles = a.holes /\ s.after = b.pts /\ s.afterHoles = b.holes
  BY <1>1, MoveFacts
<1> HIDE DEF s
<1>3. Moved(T, s, a.pts, a.holes) = S /\ Moved(S, s, b.pts, b.holes) = T
  <2>0. ~s.withHoles => a.holes = b.holes
    BY <1>2, Zenon DEF KeepsHoles
  <2>1. /\ s.withHoles \in BOOLEAN /\ (s.withHoles => a.holes = a.holes /\ b.holes = b.holes)
        /\ (~s.withHoles => a.holes = b.holes)
    BY <1>1, <1>2, <2>0
  <2> QED BY <1>1, <1>2, <2>1, MoveExact
<1>4. Redrawn(T, s, TRUE) = Moved(T, s, s.before, s.beforeHoles)
  BY <1>2 DEF Redrawn
<1>5. Redrawn(S, s, FALSE) = Moved(S, s, s.after, s.afterHoles)
  BY <1>2 DEF Redrawn
<1> QED BY <1>2, <1>3, <1>4, <1>5 DEF s, MovesBetween

LEMMA ReshapeInv ==
    ASSUME HistoryInv, UNCHANGED libVars, drag = NoDrag, drag' = NoDrag, NEW i \in images,
           NEW m \in annots[i], Reshape(i, m)
    PROVE  HistoryInv' /\ Snapshots!Edit
<1> DEFINE new == [m EXCEPT !.pts = Outline(made + 1)]
           s == Move(i, m, new, FALSE)
           T == (annots[i] \ {m}) \cup {new}
<1>1. /\ annots' = [annots EXCEPT ![i] = T] /\ Push(<<s>>) /\ made' = made + 1
  BY DEF Reshape
<1>2. /\ i \in Images /\ annots \in [Images -> Drawings] /\ annots[i] \in Drawings /\ made \in Nat
      /\ i \notin closed => Sound(annots[i], made)
  BY OpenImage
<1>3. m \in Drawable
  BY <1>2, DrawingsFacts
<1>4. /\ new \in Drawable /\ new.id = m.id /\ new.holes = m.holes
      /\ new.pts.ref = made + 1 /\ new.pts.at = made + 1
  <2> DEFINE p == Outline(made + 1)
  <2>1. p \in Array /\ p.ref = made + 1 /\ p.at = made + 1
    BY <1>2, OutlineFacts
  <2> HIDE DEF p
  <2>2. new = [id |-> m.id, pts |-> p, holes |-> m.holes] /\ m.id \in Nat /\ m.holes \in FiniteSubsetsOf(Array)
    BY <1>3, DrawableFacts DEF p
  <2>3. [id |-> m.id, pts |-> p, holes |-> m.holes] \in Drawable
    BY <2>1, <2>2, MakeDrawable
  <2> HIDE DEF new
  <2> QED BY <2>1, <2>2, <2>3
<1> HIDE DEF new
<1>5. T \in Drawings
  <2>1. {new} \in SUBSET Drawable /\ IsFiniteSet({new})
    BY <1>4, FewFinite
  <2> QED BY <1>2, <2>1, SwapTyped
<1>6. s \in Step /\ s.t = "measure-move" /\ s.img = i
  BY <1>2, <1>3, <1>4, MoveFacts
<1>10. T = (annots[i] \ {m}) \cup {new}
  OBVIOUS
<1>7. ASSUME i \notin closed PROVE Sound(T, made + 1)
  <2>1. made + 1 \in Nat /\ made + 1 <= made + 1
    BY <1>2
  <2> QED BY <1>2, <1>4, <1>7, <2>1, ReshapeSound
<1> HIDE DEF T, s
<1>8. ASSUME i \notin closed
      PROVE  Redrawn(T, s, TRUE) = annots[i] /\ Redrawn(annots[i], s, FALSE) = T
  <2>1. KeepsHoles(FALSE, m, new)
    BY <1>4 DEF KeepsHoles
  <2>2. Sound(annots[i], made) /\ FALSE \in Ways
    BY <1>2, <1>8, WayFacts
  <2>3. MovesBetween(annots[i], T, i, m, new, FALSE)
    BY <1>2, <1>4, <1>10, <2>1, <2>2, MoveRedrawn
  <2> QED BY <2>3 DEF s, MovesBetween
<1>9. made' \in Nat /\ made <= made' /\ s.t # "derived"
  BY <1>1, <1>2, <1>6
<1> QED BY <1>1, <1>5, <1>6, <1>7, <1>8, <1>9, DrawnRecorded

\* All S at once, one step each.
LEMMA ClearMeasuresInv ==
    ASSUME HistoryInv, UNCHANGED libVars, drag = NoDrag, drag' = NoDrag, NEW i \in images,
           NEW S, ClearMeasures(i, S)
    PROVE  HistoryInv' /\ Snapshots!Edit
<1> DEFINE T == annots[i] \ S
           q == SetToSeq(S)
           e == Deletions(i, q)
           x == Apply(Now', e, TRUE)
           y == Apply(x, e, FALSE)
<1>1. annots' = [annots EXCEPT ![i] = T] /\ Push(e) /\ made' = made /\ S \subseteq annots[i]
  BY DEF ClearMeasures
<1>2. /\ i \in Images /\ annots \in [Images -> Drawings] /\ annots[i] \in Drawings /\ made \in Nat
      /\ i \notin closed => Sound(annots[i], made)
  BY OpenImage
<1>3. HistoryShape /\ Placed /\ SoundState(State, closed, made)
  BY DEF HistoryInv
<1>4. /\ images' = images /\ unavailable' = unavailable /\ undone' = undone /\ closed' = closed /\ closing' = closing
  BY DEF libVars
<1>5. q \in Seq(Drawable) /\ S = Range(q)
  <2>1. IsFiniteSet(S) /\ S \subseteq Drawable
    BY <1>1, <1>2, DrawingsFacts, FS_Subset
  <2>2. q \in Seq(S) /\ S = Range(q)
    BY <2>1, SetToSeqFacts
  <2> HIDE DEF q
  <2>3. q \in Seq(Drawable)
    BY <2>1, <2>2
  <2> QED BY <2>2, <2>3
<1> HIDE DEF q
<1>6. e \in Entry /\ \A n \in DOMAIN e : e[n].img = i
  <2>1. /\ e \in Entry /\ DOMAIN e = DOMAIN q
        /\ \A n \in DOMAIN q : e[n] = [t |-> "measure-del", img |-> i, m |-> q[n]]
    BY <1>2, <1>5, DeletionsFacts
  <2> HIDE DEF e
  <2> QED BY <2>1
<1>7. T \in Drawings
  BY <1>2, FiniteFacts DEF Drawings
<1>8. annots' \in [Images -> Drawings] /\ annots'[i] = T /\ \A j \in Images \ {i} : annots'[j] = annots[j]
  BY <1>1, <1>2, <1>7
<1>9. HistoryShape'
  <2> HIDE DEF e
  <2>1. undoStack' = Append(Capped(undoStack), e) /\ redoStack' = <<>>
    BY <1>1 DEF Push
  <2>2. Capped(undoStack) \in Stack /\ <<>> \in Stack
    BY <1>3, CappedFacts DEF HistoryShape, Stack
  <2>3. Append(Capped(undoStack), e) \in Stack
    BY <1>6, <2>2 DEF Stack
  <2>4. undoStack' \in Stack /\ redoStack' \in Stack
    BY <2>1, <2>2, <2>3
  <2> QED BY <1>1, <1>3, <1>4, <1>8, <2>4 DEF HistoryShape, Drags
<1>10. Now = State /\ Now' = State' /\ Now \in States /\ Now' \in States
  BY <1>3, <1>9, CalmNow, NowTyped, NowTypedAfter
<1>11. /\ Now.annots = annots /\ Now'.annots = annots' /\ Now.images = images /\ Now'.images = images
       /\ State'.annots = annots'
  <2>1. State.annots = annots /\ State'.annots = annots' /\ State.images = images /\ State'.images = images'
    BY NowSeen
  <2> QED BY <1>4, <1>10, <2>1
<1>12. SoundState(State', closed, made')
  <2>1. \A j \in Images \ closed : Sound(annots[j], made)
    BY <1>3, NowSeen DEF SoundState
  <2>2. i \notin closed => Sound(T, made)
    BY <1>2 DEF Sound
  <2>3. \A j \in Images \ closed : Sound(annots'[j], made')
    BY <1>1, <1>8, <2>1, <2>2
  <2> QED BY <1>11, <2>3 DEF SoundState
<1>13. x = Now
  <2>1. /\ x \in States /\ x.annots[i] = Now'.annots[i] \cup S
        /\ \A k \in Images \ {i} : x.annots[k] = Now'.annots[k]
        /\ x.images = Now'.images
    <3>1. Redraws(x, Now', i, Now'.annots[i] \cup Range(q))
      BY <1>2, <1>5, <1>10, DeletionsUndone
    <3> HIDE DEF x
    <3> QED BY <1>5, <3>1 DEF Redraws
  <2>2. Now'.annots[i] \cup S = Now.annots[i]
    BY <1>1, <1>8, <1>11
  <2> HIDE DEF x
  <2>3. \A k \in Images : x.annots[k] = Now.annots[k]
    BY <1>8, <1>11, <2>1, <2>2
  <2> QED BY <1>10, <1>11, <2>1, <2>3, StatesEqual
<1>14. Alike(y, Now', closed)
  <2>1. /\ Apply(Now, e, FALSE).annots[i] = {a \in Now.annots[i] : \A m \in S : a.id # m.id}
        /\ \A k \in Images \ {i} : Apply(Now, e, FALSE).annots[k] = Now.annots[k]
        /\ Apply(Now, e, FALSE).images = Now.images
    <3>1. Redraws(Apply(Now, e, FALSE), Now, i, Spared(Now.annots[i], Range(q)))
      BY <1>2, <1>5, <1>10, DeletionsRedone
    <3> HIDE DEF e
    <3> QED BY <1>5, <3>1 DEF Redraws, Spared
  <2>2. y = Apply(Now, e, FALSE)
    <3> HIDE DEF e, x
    <3> QED BY <1>13
  <2>3. i \notin closed => {a \in annots[i] : \A m \in S : a.id # m.id} = T
    <3>1. i \notin closed => \A a, b \in annots[i] : a.id = b.id => a = b
      BY <1>2 DEF Sound
    <3> QED BY <1>1, <3>1
  <2> HIDE DEF y, e, x, T
  <2>4. \A k \in Images \ closed : y.annots[k] = Now'.annots[k]
    BY <1>8, <1>11, <2>1, <2>2, <2>3
  <2>5. y.images = Now'.images
    BY <1>11, <2>1, <2>2
  <2> QED BY <2>4, <2>5 DEF Alike
<1>15. Alike(Apply(Now', e, TRUE), Now, closed) /\ Returns(Now', e, TRUE, closed)
  <2> HIDE DEF e
  <2>1. Alike(x, Now, closed)
    BY <1>13 DEF Alike
  <2>2. Other(TRUE) = FALSE
    BY WayFacts
  <2> QED BY <1>14, <2>1, <2>2 DEF Returns
<1>16. Paged' = Paged /\ images' \cap unavailable' = {} /\ Pointed' /\ i \in Paged
  BY <1>3, <1>4 DEF Paged, Placed, Pointed
<1> HIDE DEF e, T, x, y
<1>17. \A n \in DOMAIN e : e[n].img \in Paged'
  BY <1>6, <1>16
<1>18. made <= made' /\ SoundState(Now', closed, made')
  BY <1>1, <1>2, <1>10, <1>12
<1> QED BY <1>1, <1>4, <1>6, <1>9, <1>12, <1>15, <1>16, <1>17, <1>18, RecordedInv

---------------------------------------------------------------------------
\* A drag

\* The document behind a drag is sound.
LEMMA NowSound == ASSUME HistoryInv PROVE SoundState(Now, closed, made)
<1>1. HistoryShape /\ Steady
  BY DEF HistoryInv
<1>2. Now \in States /\ undoStack \in Stack /\ TRUE \in Ways
  BY <1>1, NowTyped, WayFacts DEF HistoryShape
<1>3. Walk(Now, undoStack, TRUE)[0] = Now
  BY <1>2, WalkFacts
<1>4. 0 \in 0 .. Len(undoStack)
  BY <1>2 DEF Stack
<1> QED BY <1>1, <1>3, <1>4 DEF Steady, Retraces

\* No entry, and the documents are what they were.
LEMMA UnrecordedInv ==
    ASSUME HistoryInv, HistoryShape', UNCHANGED libVars, UNCHANGED historyVars, made <= made',
           Alike(Now, Now', closed), SoundState(State', closed, made'), Pointed'
    PROVE  HistoryInv' /\ SameDocuments
<1>1. /\ images' = images /\ unavailable' = unavailable /\ undone' = undone /\ closed' = closed
      /\ undoStack' = undoStack /\ redoStack' = redoStack
  BY DEF libVars, historyVars
<1>2. HistoryShape /\ Steady /\ Placed
  BY DEF HistoryInv
<1>3. Steady' /\ SameDocuments
  BY <1>1, <1>2, Unmoved DEF SameDocuments
<1>4. Placed' /\ SoundState(State', closed', made')
  BY <1>1, <1>2 DEF Placed, Paged
<1> QED BY <1>3, <1>4 DEF HistoryInv

\* What a drag holds, and the document behind it.
LEMMA DragHeld ==
    ASSUME HistoryInv, drag # NoDrag
    PROVE  /\ drag.img \in Images /\ drag.m \in Drawable /\ drag.body \in BOOLEAN /\ drag.img \in Paged
           /\ annots \in [Images -> Drawings] /\ annots[drag.img] \in Drawings /\ made \in Nat
           /\ drag.img \notin closed =>
                 /\ Sound(annots[drag.img], made) /\ Held(annots, drag)
                 /\ Sound(Put(drag, drag.img, annots[drag.img]), made)
<1>1. HistoryShape /\ Pointed /\ SoundState(State, closed, made)
  BY DEF HistoryInv
<1>2. /\ drag.img \in Images /\ drag.m \in Drawable /\ drag.body \in BOOLEAN
      /\ annots \in [Images -> Drawings] /\ made \in Nat
  BY <1>1, DragFacts DEF HistoryShape
<1>3. drag.img \in Paged /\ (drag.img \notin closed => Held(annots, drag))
  BY <1>1 DEF Pointed
<1>4. drag.img \notin closed => Sound(annots[drag.img], made)
  BY <1>1, <1>2, NowSeen DEF SoundState
<1>5. drag.img \notin closed => Sound(Put(drag, drag.img, annots[drag.img]), made)
  BY <1>2, NowSound, NowSeen DEF SoundState, Seen
<1> QED BY <1>2, <1>3, <1>4, <1>5

\* Pressing changes no document.
LEMMA DragStartInv ==
    ASSUME HistoryInv, UNCHANGED libVars, NEW i \in images, NEW m \in annots[i], NEW body \in BOOLEAN,
           DragStart(i, m, body)
    PROVE  HistoryInv' /\ SameDocuments
<1>1. /\ drag = NoDrag /\ drag' = [img |-> i, m |-> m, body |-> body] /\ annots' = annots
      /\ undoStack' = undoStack /\ redoStack' = redoStack /\ made' = made
      /\ images' = images /\ unavailable' = unavailable /\ undone' = undone /\ closing' = closing /\ closed' = closed
  BY DEF DragStart, historyVars, libVars
<1>2. /\ i \in Images /\ annots \in [Images -> Drawings] /\ annots[i] \in Drawings /\ made \in Nat
      /\ i \notin closed => Sound(annots[i], made)
  BY OpenImage
<1>3. HistoryShape /\ Placed /\ SoundState(State, closed, made)
  BY DEF HistoryInv
<1>4. m \in Drawable
  BY <1>2, DrawingsFacts
<1>5. drag' \in Drags
  BY <1>1, <1>2, <1>4 DEF Drags
<1>6. HistoryShape'
  BY <1>1, <1>3, <1>5 DEF HistoryShape
<1>7. drag'.img = i /\ drag'.m = m
  BY <1>1
<1>8. Alike(Now, Now', closed)
  <2>1. /\ Now.images = images /\ Now'.images = images
        /\ \A j \in Images : Now.annots[j] = Put(drag, j, annots[j]) /\ Now'.annots[j] = Put(drag', j, annots[j])
    BY <1>1, NowSeen DEF Seen
  <2>2. ASSUME NEW j \in Images \ closed PROVE Put(drag', j, annots[j]) = Put(drag, j, annots[j])
    <3>1. Put(drag, j, annots[j]) = annots[j]
      BY <1>1 DEF Put
    <3>2. CASE j = i
      <4>1. Has(annots[i], m.id) /\ Without(annots[i], m.id) = annots[i] \ {m}
        BY <1>2, <2>2, <3>2 DEF Has, Without, Sound
      <4>2. Replaced(annots[i], m.id, m) = annots[i]
        BY <4>1 DEF Replaced
      <4> QED BY <1>7, <3>1, <3>2, <4>2 DEF Put
    <3>3. CASE j # i
      BY <1>7, <3>1, <3>3 DEF Put
    <3> QED BY <3>2, <3>3
  <2> QED BY <2>1, <2>2 DEF Alike
<1>9. Pointed'
  <2>1. i \in Paged'
    BY <1>1, <1>3 DEF Paged, Placed
  <2>2. Held(annots', drag')
    BY <1>1, <1>7 DEF Held
  <2> QED BY <1>7, <2>1, <2>2 DEF Pointed
<1>10. SoundState(State', closed, made') /\ made <= made'
  BY <1>1, <1>2, <1>3, NowSeen DEF SoundState
<1>11. UNCHANGED historyVars
  BY <1>1 DEF historyVars
<1> QED BY <1>6, <1>8, <1>9, <1>10, <1>11, UnrecordedInv

\* Whatever is in its place, the annotation can be put back.
LEMMA ReplacedAgain ==
    ASSUME NEW S, NEW id, Has(S, id), NEW a, NEW b, a.id = id, b.id = id
    PROVE  /\ Has(Replaced(S, id, b), id)
           /\ Replaced(Replaced(S, id, b), id, a) = Replaced(S, id, a)
           /\ b \in Replaced(S, id, b)
<1> DEFINE T == Without(S, id) \cup {b}
<1>1. Replaced(S, id, b) = T
  BY DEF Replaced
<1>2. Has(T, id) /\ Without(T, id) = Without(S, id)
  BY DEF Has, Without
<1> QED BY <1>1, <1>2 DEF Replaced

\* The holes of a dragged body, or of an outline of which a vertex is dragged.
Carried(m, now, body, holes, more) ==
    /\ holes = IF body THEN Shifted(m.holes, FALSE) ELSE now.holes
    /\ more = made + 1 + (IF body THEN Cardinality(m.holes) ELSE 0)

LEMMA DraggedFacts ==
    ASSUME made \in Nat, NEW m \in Drawable, NEW now \in Drawable, NEW body \in BOOLEAN,
           NEW holes, NEW more, Carried(m, now, body, holes, more)
    PROVE  /\ holes \in FiniteSubsetsOf(Array) /\ more \in Nat /\ made + 1 <= more /\ made <= more
           /\ \/ holes = now.holes
              \/ /\ \A x \in holes : x.ref > made + 1 /\ x.ref <= more /\ x.at <= more
                 /\ \A x, y \in holes : x.ref = y.ref => x = y
<1>1. m.holes \in FiniteSubsetsOf(Array) /\ now.holes \in FiniteSubsetsOf(Array)
  BY DrawableFacts
<1>2. CASE body
  <2> DEFINE c == Cardinality(m.holes)
             sh == Shifted(m.holes, FALSE)
  <2>1. /\ c \in Nat /\ sh \in FiniteSubsetsOf(Array)
        /\ \A x \in sh : x.ref > made + 1 /\ x.ref <= made + 1 + c /\ x.at <= made + 1 + c
        /\ \A x, y \in sh : x.ref = y.ref => x = y
    BY <1>1, ShiftedFacts
  <2>2. holes = sh /\ more = made + 1 + c
    BY <1>2 DEF Carried
  <2> HIDE DEF c, sh
  <2> QED BY <2>1, <2>2
<1>3. CASE ~body
  <2>1. holes = now.holes /\ more = made + 1
    BY <1>3 DEF Carried
  <2> QED BY <1>1, <2>1
<1> QED BY <1>2, <1>3

\* Moving changes no document.
LEMMA DragMoveInv ==
    ASSUME HistoryInv, UNCHANGED libVars, DragMove(FALSE)
    PROVE  HistoryInv' /\ SameDocuments
<1> DEFINE i == drag.img
           m == drag.m
           now == Get(annots[i], m.id)
           holes == IF drag.body THEN Shifted(m.holes, FALSE) ELSE now.holes
           pts == [at |-> made + 1, ref |-> made + 1]
           new == [id |-> now.id, pts |-> pts, holes |-> holes]
           T == Replaced(annots[i], now.id, new)
           more == made + 1 + (IF drag.body THEN Cardinality(m.holes) ELSE 0)
<1>1. /\ drag # NoDrag /\ Has(annots[i], m.id) /\ drag' = drag
      /\ undoStack' = undoStack /\ redoStack' = redoStack /\ made' = more
      /\ annots' = [annots EXCEPT ![i] = T]
      /\ images' = images /\ unavailable' = unavailable /\ undone' = undone /\ closing' = closing /\ closed' = closed
  BY DEF DragMove, historyVars, libVars
<1>2. /\ i \in Images /\ m \in Drawable /\ drag.body \in BOOLEAN /\ i \in Paged
      /\ annots \in [Images -> Drawings] /\ annots[i] \in Drawings /\ made \in Nat
      /\ i \notin closed => Sound(annots[i], made) /\ Sound(Put(drag, i, annots[i]), made)
  BY <1>1, DragHeld
<1> HIDE DEF i, m
<1>3. HistoryShape /\ Placed /\ SoundState(State, closed, made)
  BY DEF HistoryInv
<1>4. now \in Drawable /\ now \in annots[i] /\ now.id = m.id /\ m.id \in Nat
  BY <1>1, <1>2, GetTyped, DrawableFacts
<1> HIDE DEF now
<1>5. /\ holes \in FiniteSubsetsOf(Array) /\ more \in Nat /\ made + 1 <= more /\ made <= more
      /\ \/ holes = now.holes
         \/ /\ \A x \in holes : x.ref > made + 1 /\ x.ref <= more /\ x.at <= more
            /\ \A x, y \in holes : x.ref = y.ref => x = y
  <2>1. Carried(m, now, drag.body, holes, more)
    BY DEF Carried
  <2> HIDE DEF holes, more
  <2> QED BY <1>2, <1>4, <2>1, DraggedFacts
<1> HIDE DEF holes, more
<1>6. pts \in Array
  BY <1>2 DEF Array
<1>7. /\ new \in Drawable /\ new.id = m.id /\ new.holes = holes
      /\ new.pts = pts /\ new.pts.at = made + 1 /\ new.pts.ref = made + 1
  BY <1>4, <1>5, <1>6, MakeDrawable
<1> HIDE DEF new, pts
<1>8. T = Replaced(annots[i], m.id, new) /\ T \in Drawings
  BY <1>2, <1>4, <1>7, ReplacedTyped
<1> HIDE DEF T
<1>9. annots' \in [Images -> Drawings] /\ annots'[i] = T /\ \A j \in Images \ {i} : annots'[j] = annots[j]
  BY <1>1, <1>2, <1>8
<1>10. HistoryShape'
  BY <1>1, <1>3, <1>5, <1>9 DEF HistoryShape
<1>11. Alike(Now, Now', closed)
  <2>1. /\ Now.images = images /\ Now'.images = images
        /\ \A j \in Images : Now.annots[j] = Put(drag, j, annots[j]) /\ Now'.annots[j] = Put(drag, j, annots'[j])
    BY <1>1, NowSeen DEF Seen
  <2>2. Put(drag, i, annots[i]) = Replaced(annots[i], m.id, m)
    BY <1>1 DEF Put, i, m
  <2>3. Has(T, m.id) /\ Replaced(T, m.id, m) = Replaced(annots[i], m.id, m)
    BY <1>1, <1>7, <1>8, ReplacedAgain
  <2>4. Put(drag, i, T) = Replaced(T, m.id, m)
    BY <1>1, <2>3 DEF Put, i, m
  <2>5. \A j \in Images : Now.annots[j] = Now'.annots[j]
    BY <1>9, <2>1, <2>2, <2>3, <2>4
  <2> QED BY <2>1, <2>5 DEF Alike
<1>12. SoundState(State', closed, made')
  <2>1. i \notin closed => Sound(T, more)
    <3>1. SUFFICES ASSUME i \notin closed PROVE Sound(T, more)
      OBVIOUS
    <3> DEFINE U == (annots[i] \ {now}) \cup {new}
    <3>2. Replaced(annots[i], now.id, new) = U
      <4>1. U = (annots[i] \ {now}) \cup {new} /\ new.id = now.id
        BY <1>4, <1>7
      <4> HIDE DEF U
      <4> QED BY <1>2, <1>4, <3>1, <4>1, SwapOne
    <3>3. Sound((annots[i] \ {now}) \cup {new}, more)
      BY <1>2, <1>4, <1>5, <1>7, <3>1, ReshapeSound
    <3> QED BY <1>4, <1>8, <3>2, <3>3
  <2>2. \A j \in Images \ closed : Sound(annots[j], made) /\ annots[j] \in Drawings
    BY <1>2, <1>3, NowSeen DEF SoundState
  <2>3. \A j \in Images \ closed : Sound(annots'[j], more)
    BY <1>2, <1>5, <1>9, <2>1, <2>2, SoundMore
  <2> QED BY <1>1, <2>3, NowSeen DEF SoundState
<1>13. Pointed'
  <2>1. i \in Paged'
    BY <1>1, <1>2 DEF Paged
  <2>2. ASSUME i \notin closed PROVE Held(annots', drag)
    <3>1. m \in Put(drag, i, annots[i])
      <4>1. Put(drag, i, annots[i]) = Replaced(annots[i], m.id, m)
        BY <1>1 DEF Put, i, m
      <4> QED BY <1>1, <4>1, ReplacedAgain
    <3>2. m.pts.at <= made /\ m.pts.at \in Nat
      <4>1. m.pts \in Rings(m) /\ m.pts \in Array
        BY <1>2, DrawableFacts DEF Rings
      <4> QED BY <1>2, <2>2, <3>1, <4>1 DEF Sound, Array
    <3>3. new \in annots'[i]
      BY <1>1, <1>7, <1>8, <1>9, ReplacedAgain
    <3>4. new.pts.at # m.pts.at
      BY <1>2, <1>7, <3>2
    <3> QED BY <1>7, <3>3, <3>4 DEF Held, i, m
  <2> QED BY <1>1, <2>1, <2>2 DEF Pointed, i
<1>14. UNCHANGED historyVars
  BY <1>1 DEF historyVars
<1> QED BY <1>1, <1>5, <1>10, <1>11, <1>12, <1>13, <1>14, UnrecordedInv

LEMMA WithHolesFacts ==
    ASSUME NEW a, NEW b
    PROVE  WithHoles(a, b) \in Ways /\ KeepsHoles(WithHoles(a, b), a, b)
<1>1. WithHoles(a, b) \in BOOLEAN /\ (~WithHoles(a, b) => a.holes = {} /\ b.holes = {})
  BY DEF WithHoles
<1> QED BY <1>1, Zenon DEF Ways, KeepsHoles

\* The entry leads between what was pressed and what was dropped.
LEMMA DropRecorded ==
    ASSUME HistoryInv, UNCHANGED libVars, drag # NoDrag, drag' = NoDrag, UNCHANGED <<annots, made>>,
           NEW now, Has(annots[drag.img], drag.m.id), now = Get(annots[drag.img], drag.m.id),
           Push(<<Move(drag.img, drag.m, now, WithHoles(drag.m, now))>>)
    PROVE  HistoryInv' /\ Snapshots!Edit
<1> DEFINE i == drag.img
           m == drag.m
           w == WithHoles(m, now)
           s == Move(i, m, now, w)
           S == Put(drag, i, annots[i])
<1>1. /\ images' = images /\ unavailable' = unavailable /\ undone' = undone /\ closing' = closing
      /\ closed' = closed /\ annots' = annots /\ made' = made
  BY DEF libVars
<1>2. /\ i \in Images /\ m \in Drawable /\ i \in Paged
      /\ annots \in [Images -> Drawings] /\ annots[i] \in Drawings /\ made \in Nat
      /\ i \notin closed => Sound(annots[i], made) /\ Sound(S, made)
  BY DragHeld
<1>3. HistoryShape /\ SoundState(State, closed, made)
  BY DEF HistoryInv
<1>4. now \in Drawable /\ now \in annots[i] /\ now.id = m.id
  BY <1>2, GetTyped
<1>5. w \in Ways /\ KeepsHoles(w, m, now)
  BY WithHolesFacts
<1>6. w \in BOOLEAN
  BY <1>5 DEF Ways
<1> HIDE DEF w
<1>7. s \in Step /\ s.t = "measure-move" /\ s.img = i
  BY <1>2, <1>4, <1>6, MoveFacts
<1>8. Push(<<s>>)
  BY DEF w
<1> HIDE DEF s
<1>9. HistoryShape'
  <2>1. undoStack' = Append(Capped(undoStack), <<s>>) /\ redoStack' = <<>>
    BY <1>8 DEF Push
  <2>2. Capped(undoStack) \in Stack /\ <<s>> \in Entry /\ <<>> \in Stack
    BY <1>3, <1>7, CappedFacts DEF HistoryShape, Stack, Entry
  <2>3. Append(Capped(undoStack), <<s>>) \in Stack
    BY <2>2 DEF Stack
  <2>4. undoStack' \in Stack /\ redoStack' \in Stack
    BY <2>1, <2>2, <2>3
  <2> QED BY <1>1, <1>3, <2>4 DEF HistoryShape, Drags
<1>10. \A j \in Images : Now.annots[j] = Put(drag, j, annots[j]) /\ Now'.annots[j] = annots[j]
  <2>1. \A j \in Images : Now.annots[j] = Put(drag, j, annots[j]) /\ Now'.annots[j] = Put(drag', j, annots'[j])
    BY NowSeen DEF Seen
  <2> QED BY <1>1, <2>1 DEF Put
<1>11. \A j \in Images \ {s.img} : Now.annots[j] = Now'.annots[j]
  BY <1>7, <1>10 DEF Put
<1>12. ASSUME i \notin closed PROVE MovesBetween(S, annots[i], i, m, now, w)
  <2>1. S = Replaced(annots[i], m.id, m)
    BY DEF Put
  <2> DEFINE U == (annots[i] \ {now}) \cup {m}
  <2>2. Replaced(annots[i], now.id, m) = U
    <3>1. Has(annots[i], now.id) /\ Without(annots[i], now.id) = annots[i] \ {now}
      BY <1>2, <1>4, <1>12 DEF Has, Without, Sound
    <3> QED BY <3>1 DEF Replaced
  <2>3. S = U
    BY <1>4, <2>1, <2>2
  <2>4. annots[i] = (U \ {m}) \cup {now} /\ m \in U
    <3>1. \A x \in annots[i] : x.id = now.id => x = now
      BY <1>2, <1>4, <1>12 DEF Sound
    <3> QED BY <1>4, <3>1
  <2>5. S \in Drawings
    BY <1>2, <2>1, ReplacedTyped
  <2> HIDE DEF U, S
  <2>6. Sound(S, made) /\ m \in S /\ annots[i] = (S \ {m}) \cup {now}
    BY <1>2, <1>12, <2>3, <2>4
  <2> DEFINE T == annots[i]
  <2>7. T = (S \ {m}) \cup {now}
    BY <2>6
  <2> HIDE DEF T, i, m
  <2>8. MovesBetween(S, T, i, m, now, w)
    BY <1>2, <1>4, <1>5, <2>5, <2>6, <2>7, MoveRedrawn
  <2> QED BY <2>8 DEF T
<1>13. s.img \notin closed => /\ Redrawn(Now'.annots[s.img], s, TRUE) = Now.annots[s.img]
                              /\ Redrawn(Now.annots[s.img], s, FALSE) = Now'.annots[s.img]
  <2> HIDE DEF i, m, S
  <2>1. Now'.annots[i] = annots[i] /\ Now.annots[i] = S
    BY <1>2, <1>10 DEF S
  <2>2. i \notin closed => Redrawn(annots[i], s, TRUE) = S /\ Redrawn(S, s, FALSE) = annots[i]
    BY <1>12 DEF MovesBetween, s
  <2> QED BY <1>7, <2>1, <2>2
<1>14. SoundState(State', closed, made')
  BY <1>1, <1>3, NowSeen DEF SoundState
<1>15. s.img \in Paged /\ s.t # "derived" /\ made <= made'
  BY <1>1, <1>2, <1>7
<1> QED BY <1>7, <1>8, <1>9, <1>11, <1>13, <1>14, <1>15, StepRecorded

\* Dropped where it began, nothing has moved.
LEMMA DropUnrecorded ==
    ASSUME HistoryInv, UNCHANGED libVars, UNCHANGED historyVars, drag # NoDrag, drag' = NoDrag,
           UNCHANGED <<annots, made>>, NEW now, now = Get(annots[drag.img], drag.m.id),
           Has(annots[drag.img], drag.m.id) => Content(now) = Content(drag.m)
    PROVE  HistoryInv' /\ SameDocuments
<1> DEFINE i == drag.img
           m == drag.m
<1>1. /\ images' = images /\ unavailable' = unavailable /\ undone' = undone /\ closing' = closing
      /\ closed' = closed /\ annots' = annots /\ made' = made /\ undoStack' = undoStack /\ redoStack' = redoStack
  BY DEF libVars, historyVars
<1>2. /\ i \in Images /\ m \in Drawable
      /\ annots \in [Images -> Drawings] /\ annots[i] \in Drawings /\ made \in Nat
      /\ i \notin closed => Sound(annots[i], made) /\ Held(annots, drag)
  BY DragHeld
<1>3. HistoryShape /\ SoundState(State, closed, made)
  BY DEF HistoryInv
<1>4. HistoryShape'
  BY <1>1, <1>3 DEF HistoryShape, Drags
<1>5. ASSUME i \notin closed PROVE Put(drag, i, annots[i]) = annots[i]
  <2>1. PICK h \in annots[i] : h.id = m.id /\ (h = m \/ h.pts.at # m.pts.at)
    BY <1>2, <1>5 DEF Held
  <2>2. Has(annots[i], m.id)
    BY <2>1 DEF Has
  <2>3. now \in annots[i] /\ now.id = m.id
    BY <1>2, <2>2, GetTyped
  <2>4. h = now
    BY <1>2, <1>5, <2>1, <2>3 DEF Sound
  <2>5. now.pts.at = m.pts.at
    BY <2>2 DEF Content
  <2>6. m \in annots[i]
    BY <2>1, <2>4, <2>5
  <2>7. Without(annots[i], m.id) = annots[i] \ {m}
    BY <1>2, <1>5, <2>6 DEF Without, Sound
  <2> QED BY <2>2, <2>6, <2>7 DEF Put, Replaced
<1>6. Alike(Now, Now', closed)
  <2>1. /\ Now.images = images /\ Now'.images = images'
        /\ \A j \in Images : Now.annots[j] = Put(drag, j, annots[j]) /\ Now'.annots[j] = Put(drag', j, annots'[j])
    BY NowSeen DEF Seen
  <2>2. \A j \in Images : Put(drag', j, annots'[j]) = annots[j]
    BY <1>1 DEF Put
  <2>3. \A j \in Images \ closed : Put(drag, j, annots[j]) = annots[j]
    BY <1>5 DEF Put
  <2> QED BY <1>1, <2>1, <2>2, <2>3 DEF Alike
<1>7. SoundState(State', closed, made') /\ made <= made'
  BY <1>1, <1>2, <1>3, NowSeen DEF SoundState
<1>8. Pointed'
  BY DEF Pointed
<1> QED BY <1>4, <1>6, <1>7, <1>8, UnrecordedInv

\* Dropping is an edit, or changes no document.
LEMMA DragEndInv ==
    ASSUME HistoryInv, UNCHANGED libVars, DragEnd
    PROVE  HistoryInv' /\ (Snapshots!Edit \/ SameDocuments)
<1> DEFINE now == Get(annots[drag.img], drag.m.id)
           drops == Has(annots[drag.img], drag.m.id) /\ Content(now) # Content(drag.m)
<1>1. /\ drag # NoDrag /\ drag' = NoDrag /\ UNCHANGED <<annots, made>>
      /\ drops => Push(<<Move(drag.img, drag.m, now, WithHoles(drag.m, now))>>)
      /\ ~drops => UNCHANGED historyVars
  BY DEF DragEnd
<1>2. CASE drops
  <2>1. Has(annots[drag.img], drag.m.id) /\ Push(<<Move(drag.img, drag.m, now, WithHoles(drag.m, now))>>)
    BY <1>1, <1>2
  <2> QED BY <1>1, <2>1, DropRecorded
<1>3. CASE ~drops
  <2>1. UNCHANGED historyVars /\ (Has(annots[drag.img], drag.m.id) => Content(now) = Content(drag.m))
    BY <1>1, <1>3
  <2> QED BY <1>1, <2>1, DropUnrecorded
<1> QED BY <1>2, <1>3

---------------------------------------------------------------------------
\* Steps of the history

\* What an entry about images of the page leaves is on the page.
LEMMA AppliedPaged ==
    ASSUME HistoryShape, Placed, NEW e \in Entry, NEW inv \in Ways, \A n \in DOMAIN e : e[n].img \in Paged
    PROVE  Apply(State, e, inv) \in States /\ Apply(State, e, inv).images \cap unavailable = {}
<1> DEFINE st == Apply(State, e, inv)
<1>1. State \in States /\ State.images = images
  BY NowTyped, NowSeen
<1>2. st \in States
  BY <1>1, ApplyTyped
<1>3. st.images \subseteq Images
  BY <1>2 DEF States
<1>4. ASSUME NEW i \in st.images, i \in unavailable PROVE FALSE
  <2>1. i \in Images /\ i \notin Paged
    BY <1>3, <1>4 DEF Paged
  <2>2. \A n \in DOMAIN e : e[n].img # i
    BY <2>1
  <2>3. i \in State.images
    BY <1>1, <2>1, <2>2, ApplyElsewhere
  <2> QED BY <1>1, <1>4, <2>3 DEF Placed
<1> QED BY <1>2, <1>4

\* What a step of the history leaves is of the shape.
LEMMA LeftTyped ==
    ASSUME HistoryShape, NEW st \in States, annots' = st.annots, HistoryLeaves(st.images),
           undoStack' \in Stack, redoStack' \in Stack, drag' = drag, made' = made
    PROVE  /\ HistoryShape' /\ State' = st /\ images' = st.images /\ unavailable' = unavailable
           /\ closed' = closed /\ Paged \subseteq Paged'
<1>1. /\ images' = st.images /\ undone' = (undone \cup images) \ st.images
      /\ unavailable' = unavailable /\ closing' = closing /\ closed' = closed
  BY DEF HistoryLeaves
<1>2. st.annots \in [Images -> Drawings] /\ st.images \in SUBSET Images /\ st = [annots |-> st.annots, images |-> st.images]
  BY DEF States
<1>3. HistoryShape'
  BY <1>1, <1>2 DEF HistoryShape
<1>4. State' = st
  BY <1>1, <1>2, NowSeen
<1>5. Paged \subseteq Paged'
  BY <1>1 DEF Paged
<1> QED BY <1>1, <1>3, <1>4, <1>5

\* An undo leads to the last document kept.
LEMMA UndoInv ==
    ASSUME HistoryInv, drag = NoDrag, Undo
    PROVE  HistoryInv' /\ Snapshots!Undo
<1> DEFINE e == Last(undoStack)
           st == Apply(State, e, TRUE)
<1>1. /\ undoStack # <<>> /\ annots' = st.annots /\ HistoryLeaves(st.images)
      /\ undoStack' = Front(undoStack) /\ redoStack' = Append(redoStack, e)
      /\ drag' = drag /\ made' = made
  BY DEF Undo
<1>2. HistoryShape /\ Steady /\ Placed /\ undoStack \in Stack /\ redoStack \in Stack
  BY DEF HistoryInv, HistoryShape
<1>3. /\ Front(undoStack) \in Stack /\ e \in Entry /\ Append(redoStack, e) \in Stack
      /\ e = undoStack[Len(undoStack)] /\ Len(undoStack) \in DOMAIN undoStack
      /\ DOMAIN Front(undoStack) \subseteq DOMAIN undoStack
      /\ \A k \in DOMAIN Front(undoStack) : Front(undoStack)[k] = undoStack[k]
  BY <1>1, <1>2, SequenceEnds DEF Stack
<1> HIDE DEF e
<1>4. \A n \in DOMAIN e : e[n].img \in Paged
  BY <1>2, <1>3 DEF Placed, PlacedIn
<1>5. st \in States /\ st.images \cap unavailable = {}
  BY <1>2, <1>3, <1>4, WayFacts, AppliedPaged
<1>6. Now = State
  BY <1>2, CalmNow
<1>7. /\ HistoryShape' /\ State' = st /\ images' = st.images /\ unavailable' = unavailable
      /\ closed' = closed /\ Paged \subseteq Paged'
  <2> HIDE DEF st
  <2> QED BY <1>1, <1>2, <1>3, <1>5, LeftTyped
<1>8. Now' = State'
  BY <1>1, <1>7, CalmNow
<1>9. Now' = Apply(Now, Last(undoStack), TRUE)
  BY <1>6, <1>8, <1>7 DEF e
<1>10. Steady' /\ Snapshots!Undo /\ SoundState(Now', closed, made)
  BY <1>1, <1>2, <1>7, <1>9, Undone DEF e
<1>11. PlacedIn(Paged', undoStack') /\ PlacedIn(Paged', redoStack')
  <2>1. PlacedIn(Paged', undoStack) /\ PlacedIn(Paged', redoStack)
    BY <1>2, <1>7, PlacedMore DEF Placed
  <2>2. PlacedIn(Paged', Front(undoStack))
    BY <1>3, <2>1 DEF PlacedIn
  <2>3. PlacedIn(Paged', Append(redoStack, e))
    BY <1>2, <1>3, <1>4, <1>7, <2>1, PlacedAppend
  <2> QED BY <1>1, <2>2, <2>3
<1>12. Placed'
  BY <1>5, <1>7, <1>11 DEF Placed
<1>13. SoundState(State', closed', made') /\ Pointed'
  BY <1>1, <1>8, <1>7, <1>10 DEF Pointed
<1> QED BY <1>7, <1>10, <1>12, <1>13 DEF HistoryInv

\* A redo leads to the next one.
LEMMA RedoInv ==
    ASSUME HistoryInv, drag = NoDrag, Redo
    PROVE  HistoryInv' /\ Snapshots!Redo
<1> DEFINE e == Last(redoStack)
           st == Apply(State, e, FALSE)
<1>1. /\ redoStack # <<>> /\ annots' = st.annots /\ HistoryLeaves(st.images)
      /\ redoStack' = Front(redoStack) /\ undoStack' = Append(undoStack, e)
      /\ drag' = drag /\ made' = made
  BY DEF Redo
<1>2. HistoryShape /\ Steady /\ Placed /\ undoStack \in Stack /\ redoStack \in Stack
  BY DEF HistoryInv, HistoryShape
<1>3. /\ Front(redoStack) \in Stack /\ e \in Entry /\ Append(undoStack, e) \in Stack
      /\ e = redoStack[Len(redoStack)] /\ Len(redoStack) \in DOMAIN redoStack
      /\ DOMAIN Front(redoStack) \subseteq DOMAIN redoStack
      /\ \A k \in DOMAIN Front(redoStack) : Front(redoStack)[k] = redoStack[k]
  BY <1>1, <1>2, SequenceEnds DEF Stack
<1> HIDE DEF e
<1>4. \A n \in DOMAIN e : e[n].img \in Paged
  BY <1>2, <1>3 DEF Placed, PlacedIn
<1>5. st \in States /\ st.images \cap unavailable = {}
  BY <1>2, <1>3, <1>4, WayFacts, AppliedPaged
<1>6. Now = State
  BY <1>2, CalmNow
<1>7. /\ HistoryShape' /\ State' = st /\ images' = st.images /\ unavailable' = unavailable
      /\ closed' = closed /\ Paged \subseteq Paged'
  <2> HIDE DEF st
  <2> QED BY <1>1, <1>2, <1>3, <1>5, LeftTyped
<1>8. Now' = State'
  BY <1>1, <1>7, CalmNow
<1>9. Now' = Apply(Now, Last(redoStack), FALSE)
  BY <1>6, <1>8, <1>7 DEF e
<1>10. Steady' /\ Snapshots!Redo /\ SoundState(Now', closed, made)
  BY <1>1, <1>2, <1>7, <1>9, Redone DEF e
<1>11. PlacedIn(Paged', undoStack') /\ PlacedIn(Paged', redoStack')
  <2>1. PlacedIn(Paged', undoStack) /\ PlacedIn(Paged', redoStack)
    BY <1>2, <1>7, PlacedMore DEF Placed
  <2>2. PlacedIn(Paged', Front(redoStack))
    BY <1>3, <2>1 DEF PlacedIn
  <2>3. PlacedIn(Paged', Append(undoStack, e))
    BY <1>2, <1>3, <1>4, <1>7, <2>1, PlacedAppend
  <2> QED BY <1>1, <2>2, <2>3
<1>12. Placed'
  BY <1>5, <1>7, <1>11 DEF Placed
<1>13. SoundState(State', closed', made') /\ Pointed'
  BY <1>1, <1>8, <1>7, <1>10 DEF Pointed
<1> QED BY <1>7, <1>10, <1>12, <1>13 DEF HistoryInv

---------------------------------------------------------------------------
\* Derived images

\* The images of one command are one edit.
LEMMA IngestDerivedInv ==
    ASSUME HistoryInv, NEW S, IngestDerived(S)
    PROVE  HistoryInv' /\ Snapshots!Edit
<1> DEFINE q == SetToSeq(S)
           e == [n \in DOMAIN q |-> [t |-> "derived", img |-> q[n]]]
           x == Apply(Now', e, TRUE)
           y == Apply(Now, e, FALSE)
<1>1. /\ S \subseteq Fresh /\ images' = images \cup S /\ Push(e)
      /\ unavailable' = unavailable /\ undone' = undone /\ closing' = closing /\ closed' = closed
      /\ annots' = annots /\ drag' = drag /\ made' = made
  BY DEF IngestDerived, Ingest, AnnotsDerived
<1>2. HistoryShape /\ SoundState(State, closed, made) /\ Placed /\ Pointed /\ made \in Nat
  BY DEF HistoryInv, HistoryShape
<1>3. S \subseteq Images /\ S \cap images = {} /\ S \cap unavailable = {} /\ IsFiniteSet(S)
  BY <1>1, FilesAssumption, FS_Subset DEF Fresh
<1>4. q \in Seq(Images) /\ S = Range(q)
  <2>1. q \in Seq(S) /\ S = Range(q)
    BY <1>3, SetToSeqFacts
  <2> HIDE DEF q
  <2> QED BY <1>3, <2>1
<1> HIDE DEF q
<1>5. /\ e \in Entry /\ Len(e) = Len(q) /\ DOMAIN e = DOMAIN q
      /\ \A n \in DOMAIN q : e[n] = [t |-> "derived", img |-> q[n]]
      /\ \A inv \in Ways, k \in 1 .. Len(q) : Nth(e, k, inv) = [t |-> "derived", img |-> Nth(q, k, inv)]
  BY <1>4, DerivedFacts
<1> HIDE DEF e
<1>6. HistoryShape'
  <2>1. undoStack' = Append(Capped(undoStack), e) /\ redoStack' = <<>>
    BY <1>1 DEF Push
  <2>2. Capped(undoStack) \in Stack /\ <<>> \in Stack
    BY <1>2, CappedFacts DEF HistoryShape, Stack
  <2>3. Append(Capped(undoStack), e) \in Stack
    BY <1>5, <2>2 DEF Stack
  <2>4. undoStack' \in Stack /\ redoStack' \in Stack
    BY <2>1, <2>2, <2>3
  <2> QED BY <1>1, <1>2, <1>3, <2>4 DEF HistoryShape
<1>7. Now \in States /\ Now' \in States
  BY <1>2, <1>6, NowTyped, NowTypedAfter
<1>8. /\ Now.images = images /\ Now'.images = images \cup S
      /\ \A i \in Images : Now'.annots[i] = Now.annots[i]
  BY <1>1, NowSeen DEF Seen
<1>16. TRUE \in Ways /\ FALSE \in Ways /\ \A inv \in Ways : NamesAll(e, q, inv)
  BY <1>5, WayFacts DEF NamesAll
<1>9. x = Now
  <2>0. Relisted(x, Now', Range(q), TRUE)
    BY <1>4, <1>5, <1>7, <1>16, DerivedApplied
  <2>1. x \in States /\ x.images = Now'.images \ S /\ \A i \in Images : x.annots[i] = Now'.annots[i]
    BY <1>4, <2>0 DEF Relisted
  <2>2. x.images = Now.images
    BY <1>3, <1>8, <2>1
  <2> HIDE DEF x
  <2>3. \A i \in Images : x.annots[i] = Now.annots[i]
    BY <1>8, <2>1
  <2> QED BY <1>7, <2>1, <2>2, <2>3, StatesEqual
<1>10. y = Now'
  <2>0. Relisted(y, Now, Range(q), FALSE)
    BY <1>4, <1>5, <1>7, <1>16, DerivedApplied
  <2>1. y \in States /\ y.images = Now.images \cup S /\ \A i \in Images : y.annots[i] = Now.annots[i]
    BY <1>4, <2>0 DEF Relisted
  <2>2. y.images = Now'.images
    BY <1>8, <2>1
  <2> HIDE DEF y
  <2>3. \A i \in Images : y.annots[i] = Now'.annots[i]
    BY <1>8, <2>1
  <2> QED BY <1>7, <2>1, <2>2, <2>3, StatesEqual
<1>11. Alike(Apply(Now', e, TRUE), Now, closed) /\ Returns(Now', e, TRUE, closed)
  <2>1. Other(TRUE) = FALSE /\ Apply(Now', e, TRUE) = Now /\ Apply(Now, e, FALSE) = Now'
    BY <1>9, <1>10, WayFacts
  <2>2. Apply(Apply(Now', e, TRUE), e, Other(TRUE)) = Now'
    BY <2>1
  <2> QED BY <2>1, <2>2 DEF Alike, Returns
<1>12. SoundState(Now', closed, made') /\ SoundState(State', closed, made')
  <2>1. SoundState(Now, closed, made)
    BY NowSound
  <2>2. SoundState(Now', closed, made')
    BY <1>1, <1>8, <2>1 DEF SoundState
  <2> QED BY <1>1, <1>2, <2>2, NowSeen DEF SoundState
<1>13. Paged \subseteq Paged' /\ images' \cap unavailable' = {}
  BY <1>1, <1>2, <1>3 DEF Paged, Placed
<1>14. \A n \in DOMAIN e : e[n].img \in Paged'
  <2>1. S \subseteq Paged'
    BY <1>1, <1>3 DEF Paged
  <2>2. \A n \in DOMAIN e : e[n].img \in S
    BY <1>4, <1>5 DEF Range
  <2> QED BY <2>1, <2>2
<1>15. Pointed' /\ made <= made'
  BY <1>1, <1>2, <1>13 DEF Pointed
<1> QED BY <1>1, <1>5, <1>6, <1>11, <1>12, <1>13, <1>14, <1>15, RecordedInv

---------------------------------------------------------------------------
\* A project

\* Finitely many numbers have a bound.
LEMMA BoundAll ==
    ASSUME NEW S, IsFiniteSet(S), NEW f \in [S -> Nat]
    PROVE  \E b \in Nat : \A x \in S : f[x] <= b
<1>1. PICK n \in Nat : ExistsBijection(1 .. n, S)
  BY FS_NatBijection
<1>2. PICK g \in Bijection(1 .. n, S) : TRUE
  BY <1>1 DEF ExistsBijection
<1>3. g \in [1 .. n -> S] /\ \A x \in S : \E k \in 1 .. n : g[k] = x
  BY <1>2 DEF Bijection, Injection, Surjection
<1> DEFINE T == {k \in Nat : \E b \in Nat : \A j \in 1 .. k : j <= n => f[g[j]] <= b}
<1>4. 0 \in T
  OBVIOUS
<1>5. ASSUME NEW k \in Nat, k \in T PROVE k + 1 \in T
  <2>1. PICK b \in Nat : \A j \in 1 .. k : j <= n => f[g[j]] <= b
    BY <1>5
  <2>2. CASE k + 1 <= n
    <3>1. f[g[k + 1]] \in Nat
      BY <1>3, <2>2
    <3> DEFINE c == b + f[g[k + 1]]
    <3>2. c \in Nat /\ f[g[k + 1]] <= c /\ b <= c
      BY <3>1
    <3> HIDE DEF c
    <3>3. ASSUME NEW j \in 1 .. k + 1, j <= n PROVE f[g[j]] <= c
      <4>1. f[g[j]] \in Nat
        BY <1>3, <3>3
      <4>2. CASE j = k + 1
        BY <3>2, <4>2
      <4>3. CASE j # k + 1
        <5>1. f[g[j]] <= b
          BY <2>1, <3>3, <4>3
        <5> QED BY <3>2, <4>1, <5>1
      <4> QED BY <4>2, <4>3
    <3> HIDE DEF T
    <3>4. \E d \in Nat : \A j \in 1 .. k + 1 : j <= n => f[g[j]] <= d
      BY <3>2, <3>3
    <3> QED BY <3>4 DEF T
  <2>3. CASE ~(k + 1 <= n)
    BY <2>1, <2>3
  <2> QED BY <2>2, <2>3
<1> HIDE DEF T
<1>6. n \in T
  BY <1>4, <1>5, NatSteps
<1>7. PICK b \in Nat : \A j \in 1 .. n : j <= n => f[g[j]] <= b
  BY <1>6 DEF T
<1> QED BY <1>3, <1>7

\* A set of numbers with a bound has a largest.
LEMMA LargestOf ==
    ASSUME NEW M \in SUBSET Nat, M # {}, NEW b \in Nat, \A x \in M : x <= b
    PROVE  Max(M) \in M /\ \A x \in M : x <= Max(M)
<1>1. \E x \in M : \A y \in M : x >= y
  <2> SUFFICES ASSUME \A x \in M : \E y \in M : ~(x >= y) PROVE FALSE
    OBVIOUS
  <2> DEFINE T == {k \in Nat : \E y \in M : y >= k}
  <2>1. 0 \in T
    <3>1. PICK y \in M : TRUE
      OBVIOUS
    <3> QED BY <3>1
  <2>2. \A k \in Nat : k \in T => k + 1 \in T
    OBVIOUS
  <2> HIDE DEF T
  <2>3. b + 1 \in T
    BY <2>1, <2>2, NatSteps
  <2> QED BY <2>3 DEF T
<1>2. Max(M) \in M /\ \A y \in M : Max(M) >= y
  BY <1>1 DEF Max
<1> QED BY <1>2

\* The numbers of a drawing have a bound.
LEMMA NumbersFacts ==
    ASSUME NEW S \in Drawings
    PROVE  /\ \A x : x \in Numbers(S) <=> \E m \in S : x = m.id \/ \E y \in Rings(m) : x = y.ref
           /\ Numbers(S) \subseteq Nat
           /\ \E b \in Nat : \A x \in Numbers(S) : x <= b
<1>1. \A x : x \in Numbers(S) <=> \E m \in S : x = m.id \/ \E y \in Rings(m) : x = y.ref
  BY DEF Numbers, Rings
<1>2. \A m \in S : m.id \in Nat /\ IsFiniteSet(Rings(m)) /\ \A y \in Rings(m) : y \in Array /\ y.ref \in Nat
  <2> SUFFICES ASSUME NEW m \in S
               PROVE  m.id \in Nat /\ IsFiniteSet(Rings(m)) /\ \A y \in Rings(m) : y \in Array /\ y.ref \in Nat
    OBVIOUS
  <2>1. m \in Drawable
    BY DrawingsFacts
  <2>2. m.id \in Nat /\ m.pts \in Array /\ IsFiniteSet(m.holes) /\ m.holes \subseteq Array
    BY <2>1, DrawableFacts, FiniteFacts
  <2>3. Rings(m) = m.holes \cup {m.pts}
    BY DEF Rings
  <2>4. IsFiniteSet(Rings(m)) /\ Rings(m) \subseteq Array
    BY <2>2, <2>3, FS_AddElement
  <2> QED BY <2>2, <2>4 DEF Array
<1> DEFINE Bounds(m, b) == m.id <= b /\ \A y \in Rings(m) : y.ref <= b
<1>3. ASSUME NEW m \in S PROVE \E b \in Nat : Bounds(m, b)
  <2> DEFINE f == [y \in Rings(m) |-> y.ref]
  <2>1. f \in [Rings(m) -> Nat] /\ \A y \in Rings(m) : f[y] = y.ref /\ y.ref \in Nat
    BY <1>2
  <2> HIDE DEF f
  <2>2. PICK c \in Nat : \A y \in Rings(m) : f[y] <= c
    BY <1>2, <2>1, BoundAll
  <2>3. m.id + c \in Nat /\ m.id <= m.id + c /\ c <= m.id + c /\ m.id \in Nat
    BY <1>2
  <2>4. Bounds(m, m.id + c)
    BY <2>1, <2>2, <2>3
  <2> QED BY <2>3, <2>4
<1> DEFINE g == [m \in S |-> CHOOSE b \in Nat : Bounds(m, b)]
<1>4. g \in [S -> Nat] /\ \A m \in S : Bounds(m, g[m])
  <2>1. \A m \in S : g[m] \in Nat /\ Bounds(m, g[m])
    <3> HIDE DEF Bounds
    <3> QED BY <1>3
  <2> QED BY <2>1
<1> HIDE DEF g
<1>5. PICK b \in Nat : \A m \in S : g[m] <= b
  <2>1. IsFiniteSet(S)
    BY FiniteFacts DEF Drawings
  <2> QED BY <1>4, <2>1, BoundAll
<1>6. \A m \in S : m.id <= b /\ \A y \in Rings(m) : y.ref <= b
  <2> SUFFICES ASSUME NEW m \in S PROVE m.id <= b /\ \A y \in Rings(m) : y.ref <= b
    OBVIOUS
  <2>1. Bounds(m, g[m]) /\ g[m] \in Nat /\ g[m] <= b /\ m.id \in Nat /\ \A y \in Rings(m) : y.ref \in Nat
    BY <1>2, <1>4, <1>5
  <2> QED BY <2>1
<1> QED BY <1>1, <1>2, <1>6

\* The counter is past what the project brings.
LEMMA ProjectNumbered ==
    ASSUME made \in Nat, NEW A \in [Images -> SUBSET Annotation], \A i \in Images : WellDrawn(A[i]),
           NEW n, n = Max({made} \cup UNION {Numbers(A[i]) : i \in Images})
    PROVE  /\ n \in Nat /\ made <= n /\ A \in [Images -> Drawings]
           /\ \A i \in Images : Sound(A[i], n)
<1> DEFINE M == {made} \cup UNION {Numbers(A[i]) : i \in Images}
           Bounds(i, b) == \A x \in Numbers(A[i]) : x <= b
           f == [i \in Images |-> CHOOSE b \in Nat : Bounds(i, b)]
<1>1. \A i \in Images : A[i] \in Drawings
  <2> SUFFICES ASSUME NEW i \in Images PROVE A[i] \in Drawings
    OBVIOUS
  <2>1. A[i] \in SUBSET Annotation /\ IsFiniteSet(A[i]) /\ \A a \in A[i] : IsFiniteSet(a.holes)
    BY DEF WellDrawn
  <2>2. A[i] \subseteq Drawable
    BY <2>1 DEF Drawable
  <2> QED BY <2>1, <2>2 DEF Drawings, FiniteSubsetsOf
<1>2. A \in [Images -> Drawings]
  BY <1>1
<1>3. f \in [Images -> Nat] /\ \A i \in Images : Bounds(i, f[i])
  <2>1. \A i \in Images : \E b \in Nat : Bounds(i, b)
    BY <1>1, NumbersFacts
  <2> HIDE DEF Bounds
  <2>2. \A i \in Images : f[i] \in Nat /\ Bounds(i, f[i])
    BY <2>1
  <2> QED BY <2>2
<1> HIDE DEF f
<1>4. PICK b \in Nat : \A i \in Images : f[i] <= b
  BY <1>3, FilesAssumption, BoundAll
<1>5. \A x : x \in M <=> x = made \/ \E i \in Images : x \in Numbers(A[i])
  OBVIOUS
<1>6. n = Max(M)
  OBVIOUS
<1> HIDE DEF M
<1>7. M \in SUBSET Nat /\ M # {}
  BY <1>1, <1>5, NumbersFacts
<1>8. \A x \in M : x <= b + made
  <2> SUFFICES ASSUME NEW x \in M PROVE x <= b + made
    OBVIOUS
  <2>1. CASE x = made
    BY <2>1
  <2>2. CASE x # made
    <3>1. PICK i \in Images : x \in Numbers(A[i])
      BY <1>5, <2>2
    <3>2. x <= f[i] /\ f[i] <= b /\ f[i] \in Nat /\ x \in Nat
      BY <1>3, <1>4, <1>7, <3>1
    <3> QED BY <3>2
  <2> QED BY <2>1, <2>2
<1>9. n \in M /\ \A x \in M : x <= n
  <2>1. b + made \in Nat
    OBVIOUS
  <2> QED BY <1>6, <1>7, <1>8, <2>1, LargestOf
<1>10. ASSUME NEW i \in Images PROVE Sound(A[i], n)
  <2> DEFINE S == A[i]
  <2>0. WellDrawn(S) /\ S \in Drawings
    BY <1>1
  <2>1. \A x \in Numbers(S) : x <= n
    BY <1>5, <1>9
  <2> HIDE DEF S
  <2>2. \A a \in S : a.id <= n /\ \A x \in Rings(a) : x.ref <= n
    BY <2>0, <2>1, NumbersFacts
  <2>3. \A a \in S : \A x \in Rings(a) : x.at <= n
    BY <2>0, <2>2 DEF WellDrawn
  <2>4. Sound(S, n)
    BY <2>0, <2>2, <2>3 DEF Sound, WellDrawn
  <2> QED BY <2>4 DEF S
<1> QED BY <1>2, <1>5, <1>7, <1>9, <1>10

\* A project replaces the document and clears the history.
LEMMA OpenProjectInv ==
    ASSUME HistoryInv, drag = NoDrag, NEW f \in Files, NEW here \in SUBSET f.images, OpenProject(f, here)
    PROVE  HistoryInv' /\ Snapshots!Replace
<1>1. /\ images' = here /\ unavailable' = f.images \ here /\ undone' = {} /\ closed' = {} /\ closing' = closing
      /\ annots' = f.measures /\ undoStack' = <<>> /\ redoStack' = <<>> /\ drag' = NoDrag
      /\ made' = Max({made} \cup UNION {Numbers(f.measures[i]) : i \in Images})
  BY DEF OpenProject, LibraryLoaded, AnnotsLoaded
<1>2. HistoryShape /\ made \in Nat
  BY DEF HistoryInv, HistoryShape
<1>3. /\ f.images \in SUBSET Images /\ f.measures \in [Images -> SUBSET Annotation]
      /\ \A i \in Images : WellDrawn(f.measures[i])
  BY GroupsAssumption, FilesAssumption DEF File
<1>4. /\ made' \in Nat /\ made <= made' /\ f.measures \in [Images -> Drawings]
      /\ \A i \in Images : Sound(f.measures[i], made')
  BY <1>1, <1>2, <1>3, ProjectNumbered
<1>5. <<>> \in Stack
  BY DEF Stack
<1>6. HistoryShape'
  BY <1>1, <1>2, <1>3, <1>4, <1>5 DEF HistoryShape, Drags
<1>7. Now' = State' /\ Now' \in States
  BY <1>1, <1>6, CalmNow, NowTypedAfter
<1>8. SoundState(State', closed', made')
  BY <1>1, <1>4, NowSeen DEF SoundState
<1>9. /\ Retraces(Now', <<>>, TRUE, closed', made') /\ Retraces(Now', <<>>, FALSE, closed', made')
      /\ Unwound(Now', <<>>, TRUE, closed') = <<>> /\ Unwound(Now', <<>>, FALSE, closed') = <<>>
  <2>1. SoundState(Now', closed', made') /\ TRUE \in Ways /\ FALSE \in Ways
    BY <1>7, <1>8, WayFacts
  <2>2. Retraces(Now', <<>>, TRUE, closed', made') /\ Unwound(Now', <<>>, TRUE, closed') = <<>>
    BY <1>7, <2>1, RetracesEmpty, UnwoundEmpty
  <2>3. Retraces(Now', <<>>, FALSE, closed', made') /\ Unwound(Now', <<>>, FALSE, closed') = <<>>
    BY <1>7, <2>1, RetracesEmpty, UnwoundEmpty
  <2> QED BY <2>2, <2>3
<1>10. Steady' /\ Snapshots!Replace
  <2>1. undoStack' = <<>> /\ redoStack' = <<>>
    BY <1>1
  <2>2. Steady'
    BY <1>9, <2>1, Zenon DEF Steady
  <2>3. Unwound(Now', undoStack', TRUE, closed') = <<>> /\ Unwound(Now', redoStack', FALSE, closed') = <<>>
    BY <1>9, <2>1, Zenon
  <2> QED BY <2>2, <2>3 DEF Snapshots!Replace
<1>11. Placed' /\ Pointed'
  BY <1>1 DEF Placed, PlacedIn, Pointed
<1> QED BY <1>6, <1>8, <1>10, <1>11 DEF HistoryInv

LEMMA HistoryStart == ASSUME Init PROVE HistoryInv /\ Snapshots!Init
<1>1. /\ images = {} /\ unavailable = {} /\ undone = {} /\ closing = {} /\ closed = {}
      /\ annots = [i \in Images |-> {}] /\ undoStack = <<>> /\ redoStack = <<>> /\ drag = NoDrag /\ made = 0
  BY DEF Init, LibraryInit, AnnotsInit
<1>2. {} \in Drawings /\ <<>> \in Stack
  BY EmptyFinite DEF Drawings, Stack
<1>3. HistoryShape
  BY <1>1, <1>2 DEF HistoryShape, Drags
<1>4. Now = State /\ Now \in States
  BY <1>1, <1>3, CalmNow, NowTyped
<1>5. SoundState(State, closed, made)
  BY <1>1, NowSeen DEF SoundState, Sound
<1>6. /\ Retraces(Now, <<>>, TRUE, closed, made) /\ Retraces(Now, <<>>, FALSE, closed, made)
      /\ Unwound(Now, <<>>, TRUE, closed) = <<>> /\ Unwound(Now, <<>>, FALSE, closed) = <<>>
  <2>1. SoundState(Now, closed, made) /\ TRUE \in Ways /\ FALSE \in Ways
    BY <1>4, <1>5, WayFacts
  <2>2. Retraces(Now, <<>>, TRUE, closed, made) /\ Unwound(Now, <<>>, TRUE, closed) = <<>>
    BY <1>4, <2>1, RetracesEmpty, UnwoundEmpty
  <2>3. Retraces(Now, <<>>, FALSE, closed, made) /\ Unwound(Now, <<>>, FALSE, closed) = <<>>
    BY <1>4, <2>1, RetracesEmpty, UnwoundEmpty
  <2> QED BY <2>2, <2>3
<1>7. undoStack = <<>> /\ redoStack = <<>>
  BY <1>1
<1>8. Steady
  BY <1>6, <1>7, Zenon DEF Steady
<1>9. Unwound(Now, undoStack, TRUE, closed) = <<>> /\ Unwound(Now, redoStack, FALSE, closed) = <<>>
  BY <1>6, <1>7, Zenon
<1>10. Document(Now, closed) = [i \in Images |-> Gone]
  <2>1. /\ Now.images = {} /\ \A i \in Images : Now.annots[i] = {}
    <3>1. State.images = images /\ State.annots = annots
      BY NowSeen
    <3>2. \A i \in Images : annots[i] = {}
      BY <1>1
    <3> QED BY <1>1, <1>4, <3>1, <3>2
  <2>2. Document(Now, closed) = [i \in Images |->
           IF i \in closed THEN Gone
           ELSE [listed |-> i \in Now.images, drawn |-> {Content(m) : m \in Now.annots[i]}]]
    BY DEF Document
  <2>3. ASSUME NEW i \in Images
        PROVE  (IF i \in closed THEN Gone
                ELSE [listed |-> i \in Now.images, drawn |-> {Content(m) : m \in Now.annots[i]}]) = Gone
    <3>1. {Content(m) : m \in Now.annots[i]} = {}
      BY <2>1
    <3>2. (i \in Now.images) = FALSE
      BY <2>1
    <3> QED BY <3>1, <3>2, Zenon DEF Gone
  <2> QED BY <2>2, <2>3, Zenon
<1>11. Snapshots!Init
  BY <1>9, <1>10 DEF Snapshots!Init
<1>12. Placed /\ Pointed
  BY <1>1 DEF Placed, PlacedIn, Pointed
<1> QED BY <1>3, <1>5, <1>8, <1>11, <1>12 DEF HistoryInv

---------------------------------------------------------------------------
\* All steps

DocumentStep ==
    \/ Snapshots!Edit \/ Snapshots!Undo \/ Snapshots!Redo \/ Snapshots!Replace
    \/ (\E S \in SUBSET Images : Snapshots!Outside(S))
    \/ SameDocuments

LEMMA DrawingInv == ASSUME HistoryInv, ~Abrupt, Drawing PROVE HistoryInv' /\ DocumentStep
<1>1. UNCHANGED libVars
  BY DEF Drawing
<1>2. CASE \E i \in images : Edit(i)
  <2>1. PICK i \in images : Edit(i)
    BY <1>2
  <2>2. drag = NoDrag /\ drag' = NoDrag
    BY <2>1 DEF Edit, Calm
  <2>3. CASE AddMeasure(i)
    BY <1>1, <2>2, <2>3, AddMeasureInv DEF DocumentStep
  <2>4. CASE \E S \in SUBSET annots[i] : ClearMeasures(i, S)
    BY <1>1, <2>2, <2>4, ClearMeasuresInv DEF DocumentStep
  <2>5. CASE \E host, child \in annots[i] : AddHole(i, host, child)
    BY <1>1, <2>2, <2>5, AddHoleInv DEF DocumentStep
  <2>6. CASE \E host \in annots[i] : \E h \in host.holes : RemoveHole(i, host, h)
    BY <1>1, <2>2, <2>6, RemoveHoleInv DEF DocumentStep
  <2>7. CASE \E m \in annots[i] : Reshape(i, m)
    BY <1>1, <2>2, <2>7, ReshapeInv DEF DocumentStep
  <2> QED BY <2>1, <2>3, <2>4, <2>5, <2>6, <2>7 DEF Edit
<1>3. CASE Dragging
  <2>1. CASE \E i \in images : \E m \in annots[i], body \in BOOLEAN : DragStart(i, m, body)
    BY <1>1, <2>1, DragStartInv DEF DocumentStep
  <2>2. CASE \E back \in {FALSE, Abrupt} : DragMove(back)
    <3>1. Abrupt = FALSE
      BY UndoAssumption
    <3>2. DragMove(FALSE)
      BY <2>2, <3>1
    <3> QED BY <1>1, <3>2, DragMoveInv DEF DocumentStep
  <2>3. CASE DragEnd
    BY <1>1, <2>3, DragEndInv DEF DocumentStep
  <2> QED BY <1>3, <2>1, <2>2, <2>3 DEF Dragging
<1> QED BY <1>2, <1>3 DEF Drawing

LEMMA LibrarySteps ==
    ASSUME HistoryInv
    PROVE  /\ \A S \in SUBSET Fresh : Open(S) => HistoryInv' /\ DocumentStep
           /\ \A i \in images : Ask(i) => HistoryInv' /\ DocumentStep
           /\ \A i \in closing : CloseImage(i) => HistoryInv' /\ DocumentStep
           /\ \A S \in SUBSET unavailable : LocateData(S) => HistoryInv' /\ DocumentStep
<1>1. HistoryShape
  BY DEF HistoryInv
<1>2. ASSUME NEW S \in SUBSET Fresh, Open(S) PROVE HistoryInv' /\ DocumentStep
  <2>1. /\ images' = images \cup S /\ unavailable' = unavailable /\ undone' = undone /\ closing' = closing
        /\ closed' = closed /\ UNCHANGED annotVars
    BY <1>2 DEF Open, Ingest
  <2>2. S \in SUBSET Images /\ S \cap Paged = {} /\ unavailable \ S = unavailable
    BY DEF Fresh, Paged
  <2>3. HistoryInv' /\ Snapshots!Outside(S)
    BY <2>1, <2>2, GrowInv
  <2> QED BY <2>2, <2>3 DEF DocumentStep
<1>3. ASSUME NEW i \in images, Ask(i) PROVE HistoryInv' /\ DocumentStep
  <2>1. /\ closing' = closing \cup {i} /\ UNCHANGED <<images, unavailable, undone, closed, annotVars>>
    BY <1>3 DEF Ask, CloseAsk
  <2>2. closing' \in SUBSET Images
    BY <1>1, <2>1 DEF HistoryShape
  <2> QED BY <2>1, <2>2, IdleInv DEF DocumentStep
<1>4. ASSUME NEW i \in closing, CloseImage(i) PROVE HistoryInv' /\ DocumentStep
  <2>1. CloseDone(i) /\ AnnotsClosed(i) /\ {i} \in SUBSET Images
    BY <1>1, <1>4 DEF CloseImage, HistoryShape
  <2>2. HistoryInv' /\ Snapshots!Outside({i})
    BY <2>1, CloseImageInv
  <2> QED BY <2>1, <2>2 DEF DocumentStep
<1>5. ASSUME NEW S \in SUBSET unavailable, LocateData(S) PROVE HistoryInv' /\ DocumentStep
  <2>1. /\ images' = images \cup S /\ unavailable' = unavailable \ S /\ undone' = undone /\ closing' = closing
        /\ closed' = closed /\ UNCHANGED annotVars
    BY <1>5 DEF LocateData, Locate
  <2>2. S \in SUBSET Images /\ S \cap Paged = {}
    BY <1>1 DEF Paged, HistoryShape
  <2>3. HistoryInv' /\ Snapshots!Outside(S)
    BY <2>1, <2>2, GrowInv
  <2> QED BY <2>2, <2>3 DEF DocumentStep
<1> QED BY <1>2, <1>3, <1>4, <1>5

\* Every step keeps the invariant and is a step of the kept documents.
LEMMA HistoryStep == ASSUME HistoryInv, ~Abrupt, [Next]_vars PROVE HistoryInv' /\ DocumentStep
<1>1. HistoryShape
  BY DEF HistoryInv
<1>2. ASSUME UNCHANGED annotVars, UNCHANGED libVars PROVE HistoryInv' /\ DocumentStep
  <2>1. UNCHANGED <<images, unavailable, undone, closed, annotVars>> /\ closing' = closing
    BY <1>2 DEF libVars
  <2>2. closing' \in SUBSET Images
    BY <1>1, <2>1 DEF HistoryShape
  <2> QED BY <2>1, <2>2, IdleInv DEF DocumentStep
<1>3. CASE \E S \in SUBSET Fresh : Open(S)
  BY <1>3, LibrarySteps
<1>4. CASE \E S \in SUBSET Fresh : IngestDerived(S)
  BY <1>4, IngestDerivedInv DEF DocumentStep
<1>5. CASE \E i \in images : Ask(i)
  BY <1>5, LibrarySteps
<1>6. CASE \E i \in closing : CloseImage(i)
  BY <1>6, LibrarySteps
<1>7. CASE \E f \in Files : \E here \in SUBSET f.images : OpenProject(f, here)
  <2>0. PICK f \in Files : \E here \in SUBSET f.images : OpenProject(f, here)
    BY <1>7
  <2>1. PICK here \in SUBSET f.images : OpenProject(f, here)
    BY <2>0
  <2>2. drag = NoDrag
    BY <2>1 DEF OpenProject, Calm
  <2> QED BY <2>1, <2>2, OpenProjectInv DEF DocumentStep
<1>8. CASE \E S \in SUBSET unavailable : LocateData(S)
  BY <1>8, LibrarySteps
<1>9. CASE History
  <2>1. drag = NoDrag
    BY <1>9 DEF History, Undo, Redo, Calm
  <2> QED BY <1>9, <2>1, UndoInv, RedoInv DEF History, DocumentStep
<1>10. CASE Drawing
  BY <1>10, DrawingInv
<1>11. CASE Grouping
  BY <1>2, <1>11 DEF Grouping
<1>12. CASE UNCHANGED vars
  BY <1>2, <1>12 DEF vars
<1> QED BY <1>3, <1>4, <1>5, <1>6, <1>7, <1>8, <1>9, <1>10, <1>11, <1>12 DEF Next

\* For any images, files, depth of the history and bounds, as long as no drag is
\* broken into: the inverse operations give exactly the documents that were
\* kept whole, through closes, derivations, loads and relocations
\* (store/viewerUndo.ts, store/viewerTypes.ts:185-230).
THEOREM HistoryIsExact ==
    ASSUME ~Abrupt
    PROVE  Spec => HistoryKeepsDocuments
<1>1. Init => HistoryInv /\ Snapshots!Init
  BY HistoryStart
<1>2. HistoryInv /\ [Next]_vars
         => HistoryInv' /\ [Snapshots!Next]_<<Document(Now, closed), Unwound(Now, undoStack, TRUE, closed),
                                              Unwound(Now, redoStack, FALSE, closed)>>
  <2>1. SUFFICES ASSUME HistoryInv, [Next]_vars
                 PROVE  HistoryInv' /\ [Snapshots!Next]_<<Document(Now, closed), Unwound(Now, undoStack, TRUE, closed),
                                                          Unwound(Now, redoStack, FALSE, closed)>>
    OBVIOUS
  <2>2. HistoryInv' /\ DocumentStep
    BY <2>1, HistoryStep
  <2>3. SameDocuments => UNCHANGED <<Document(Now, closed), Unwound(Now, undoStack, TRUE, closed),
                                     Unwound(Now, redoStack, FALSE, closed)>>
    BY DEF SameDocuments
  <2> QED BY <2>2, <2>3 DEF DocumentStep, Snapshots!Next
<1> QED BY <1>1, <1>2, PTL DEF Spec, HistoryKeepsDocuments, Snapshots!Spec
=============================================================================
