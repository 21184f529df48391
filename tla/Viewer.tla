------------------------------- MODULE Viewer -------------------------------
(***************************************************************************)
(* The page's store (frontend store/viewer.ts): the library, the groups    *)
(* and panes over it, and the annotations with their history, in one state *)
(* that every user action and every answer of the server changes at once.  *)
(***************************************************************************)
EXTENDS ImageGroups, Annotations

\* An assumption about files, which loadSession does not check: the drawings of
\* a project are those of a page, finitely many, each id of one annotation, each
\* ring an array of its own, and what a ring holds named by a ring that holds it.
Rings(m) == {m.pts} \cup m.holes
WellDrawn(S) ==
    /\ IsFiniteSet(S) /\ \A a \in S : IsFiniteSet(a.holes) /\ a.pts \notin a.holes
    /\ \A a, b \in S : a.id = b.id => a = b
    /\ \A a, b \in S : \A x \in Rings(a), y \in Rings(b) : x.ref = y.ref => a = b /\ x = y
    /\ \A a \in S : \A x \in Rings(a) : \E b \in S : \E y \in Rings(b) : x.at = y.ref

ASSUME FilesAssumption == IsFiniteSet(Images) /\ \A f \in Files : \A i \in Images : WellDrawn(f.measures[i])

vars == <<libVars, groupVars, annotVars>>

Init == LibraryInit /\ GroupsInit /\ AnnotsInit

\* An open answered (or, of a derived image, a batch that is no history step).
Open(S) == Ingest(S) /\ UNCHANGED <<groupVars, annotVars>>

\* ingestDerived, of an image that was open when the command was given.
IngestDerived(S) ==
    /\ S \subseteq Derived /\ \A i \in S : Source[i] \in images \cup closed
    /\ Ingest(S) /\ AnnotsDerived(S)
    /\ UNCHANGED groupVars

Ask(i) == CloseAsk(i) /\ UNCHANGED <<groupVars, annotVars>>

CloseImage(i) == CloseDone(i) /\ GroupsClosed(i) /\ AnnotsClosed(i)

OpenProject(f, here) ==
    /\ Calm
    /\ LibraryLoaded(f.images, here) /\ GroupsLoaded(f, here) /\ AnnotsLoaded(f.measures)

LocateData(S) == Locate(S) /\ UNCHANGED <<groupVars, annotVars>>

History == (Undo \/ Redo) /\ UNCHANGED groupVars

Drawing ==
    /\ (\E i \in images : Edit(i)) \/ Dragging
    /\ UNCHANGED <<libVars, groupVars>>

Grouping == (GroupOp \/ PaneOp) /\ UNCHANGED <<libVars, annotVars>>

Next ==
    \/ \E S \in SUBSET Fresh : Open(S) \/ IngestDerived(S)
    \/ \E i \in images : Ask(i)
    \/ \E i \in closing : CloseImage(i)
    \/ \E f \in Files : \E here \in SUBSET f.images : OpenProject(f, here)
    \/ \E S \in SUBSET unavailable : LocateData(S)
    \/ History
    \/ Drawing
    \/ Grouping

Spec == Init /\ [][Next]_vars

---------------------------------------------------------------------------
\* The history as whole documents

\* A document, image by image: whether it is listed, and what is drawn on it.
\* An image closed in this session (`lost') is no part of any document; what a
\* drag under way moved counts from its end.
Gone == [listed |-> FALSE, drawn |-> {}]
Settled(i, S) ==
    IF drag # NoDrag /\ drag.img = i /\ Has(S, drag.m.id)
    THEN Replaced(S, drag.m.id, drag.m) ELSE S
Document(st, lost) ==
    [i \in Images |->
        IF i \in lost THEN Gone
        ELSE [listed |-> i \in st.images, drawn |-> {Content(m) : m \in st.annots[i]}]]
Now == [State EXCEPT !.annots = [i \in Images |-> Settled(i, annots[i])]]

\* The states that applying the entries of a stack, last first, leads through
\* from st, and the documents these are; the first of the stack is reached last.
Walk(st, stack, inverse) ==
    LET n == Len(stack)
        after[k \in 0 .. n] == IF k = 0 THEN st ELSE Apply(after[k - 1], stack[n + 1 - k], inverse)
    IN  after
Unwound(st, stack, inverse, lost) ==
    LET n == Len(stack)
        after == Walk(st, stack, inverse)
    IN  [k \in 1 .. n |-> Document(after[n + 1 - k], lost)]

\* Inverse operations implement kept documents: undoing or redoing any number
\* of edits gives exactly the documents there were, outlines and holes alike,
\* although images are closed and derived and projects loaded in between
\* (store/viewerUndo.ts, store/viewerTypes.ts:185-230).
Snapshots == INSTANCE SnapshotHistory
    WITH Parts <- Images, Blank <- Gone, Depth <- UndoCap,
         doc <- Document(Now, closed),
         past <- Unwound(Now, undoStack, TRUE, closed), future <- Unwound(Now, redoStack, FALSE, closed)
HistoryKeepsDocuments == Snapshots!Spec
=============================================================================
