---------------------------- MODULE Annotations ----------------------------
(***************************************************************************)
(* The annotations drawn on images and their undo history (frontend        *)
(* store/viewerMeasureActions.ts, viewerUndo.ts, viewerHoleUndo.ts and the *)
(* gestures of MeasureVertexLayer.tsx).  The history keeps, for each edit, *)
(* the inverse operation, not the document.                                *)
(*                                                                         *)
(* All annotations here are closed outlines that can be a hole of another. *)
(* An outline is an array: `at' is what it holds, named by the first array *)
(* that held it, and `ref' is which array it is.  Text and style, which    *)
(* the history does not cover, the width of a box, which is an array of    *)
(* one with a handle of its own, and the order of the list are left out.   *)
(***************************************************************************)
EXTENDS Library, Sequences, SequencesExt, FiniteSets, FiniteSetsExt

CONSTANTS UndoCap,     \* UNDO_CAP, 99 in the code
          MaxMade,     \* bound: ids and arrays made
          Abrupt       \* the user also undoes, edits or opens a project in the middle of a drag,
                       \* and drops an outline where it was picked up

ASSUME UndoAssumption == UndoCap \in Nat \ {0} /\ MaxMade \in Nat /\ Abrupt \in BOOLEAN

VARIABLES
    annots,      \* s.measures: per image, its annotations
    undoStack,   \* entries, latest last; an entry is a sequence of steps
    redoStack,
    drag,        \* dragRef: the gesture under way, with the state it started from
    made         \* nextMeasureId's counter, and the number of arrays made

historyVars == <<undoStack, redoStack>>
annotVars == <<annots, historyVars, drag, made>>

NoDrag == [img |-> NoImage]
AnnotsInit ==
    /\ annots = [i \in Images |-> {}] /\ undoStack = <<>> /\ redoStack = <<>>
    /\ drag = NoDrag /\ made = 0

Outline(k) == [at |-> k, ref |-> k]
Has(S, id) == \E m \in S : m.id = id
Get(S, id) == CHOOSE m \in S : m.id = id
Without(S, id) == {m \in S : m.id # id}
\* The annotation with this id, if there, becomes m.
Replaced(S, id, m) == IF Has(S, id) THEN Without(S, id) \cup {m} ELSE S

Capped(s) == SubSeq(s, IF Len(s) > UndoCap THEN Len(s) - UndoCap + 1 ELSE 1, Len(s))
Push(entry) == undoStack' = Append(Capped(undoStack), entry) /\ redoStack' = <<>>

\* Nothing is held by the pointer, unless the user is abrupt.
Calm == Abrupt \/ drag = NoDrag

---------------------------------------------------------------------------
\* applyUndoEntry.  A step changes the annotations S of its image or lists the
\* image; `inverse' takes it back.

Added(S, m) == S \cup {m}
Removed(S, m) == Without(S, m.id)

Moved(S, s, pts, holes) ==
    Replaced(S, s.id, [id |-> s.id, pts |-> pts, holes |-> IF s.withHoles THEN holes ELSE Get(S, s.id).holes])

\* applyHoleUndoEntry: a hole is found again as the very array.
Holed(S, s) ==
    LET rest == Without(S, s.child.id)
        host == Get(rest, s.host)
    IN  Replaced(rest, s.host, [host EXCEPT !.holes = @ \cup {s.child.pts}])
Unholed(S, s) ==
    LET host == Get(S, s.host)
    IN  Replaced(S, s.host, [host EXCEPT !.holes = {h \in @ : h.ref # s.child.pts.ref}]) \cup {s.child}

Redrawn(S, s, inverse) ==
    CASE s.t = "measure-add" -> IF inverse THEN Removed(S, s.m) ELSE Added(S, s.m)
      [] s.t = "measure-del" -> IF inverse THEN Added(S, s.m) ELSE Removed(S, s.m)
      [] s.t = "measure-move" -> IF inverse THEN Moved(S, s, s.before, s.beforeHoles)
                                            ELSE Moved(S, s, s.after, s.afterHoles)
      [] s.t = "hole-add" -> IF inverse THEN Unholed(S, s) ELSE Holed(S, s)
      [] s.t = "hole-remove" -> IF inverse THEN Holed(S, s) ELSE Unholed(S, s)

\* On st = [annots, images].
ApplyStep(st, s, inverse) ==
    IF s.t = "derived"
    THEN [st EXCEPT !.images = IF inverse THEN @ \ {s.img} ELSE @ \cup {s.img}]
    ELSE [st EXCEPT !.annots[s.img] = Redrawn(@, s, inverse)]

\* A group is undone last step first.
Apply(st, entry, inverse) ==
    LET n == Len(entry)
        after[k \in 0 .. n] ==
            IF k = 0 THEN st ELSE ApplyStep(after[k - 1], entry[IF inverse THEN n + 1 - k ELSE k], inverse)
    IN  after[n]

State == [annots |-> annots, images |-> images]

Undo ==
    /\ Calm /\ undoStack # <<>>
    /\ LET st == Apply(State, Last(undoStack), TRUE) IN annots' = st.annots /\ HistoryLeaves(st.images)
    /\ undoStack' = Front(undoStack) /\ redoStack' = Append(redoStack, Last(undoStack))
    /\ UNCHANGED <<drag, made>>

Redo ==
    /\ Calm /\ redoStack # <<>>
    /\ LET st == Apply(State, Last(redoStack), FALSE) IN annots' = st.annots /\ HistoryLeaves(st.images)
    /\ redoStack' = Front(redoStack) /\ undoStack' = Append(undoStack, Last(redoStack))
    /\ UNCHANGED <<drag, made>>

---------------------------------------------------------------------------
\* Edits of the annotations of an open image i

AddMeasure(i) ==
    /\ made < MaxMade
    /\ LET m == [id |-> made + 1, pts |-> Outline(made + 1), holes |-> {}] IN
       /\ annots' = [annots EXCEPT ![i] = @ \cup {m}]
       /\ Push(<<[t |-> "measure-add", img |-> i, m |-> m]>>)
    /\ made' = made + 1

Deletions(i, seq) == [n \in DOMAIN seq |-> [t |-> "measure-del", img |-> i, m |-> seq[n]]]

\* removeMeasure, deleteLastAnnotation, and clearMeasures of some kinds or all.
ClearMeasures(i, S) ==
    /\ S # {} /\ S \subseteq annots[i]
    /\ annots' = [annots EXCEPT ![i] = @ \ S]
    /\ Push(Deletions(i, SetToSeq(S)))
    /\ UNCHANGED made

AddHole(i, host, child) ==
    /\ {host, child} \subseteq annots[i] /\ host # child
    /\ annots' = [annots EXCEPT ![i] =
                     (@ \ {host, child}) \cup {[host EXCEPT !.holes = @ \cup {child.pts}]}]
    /\ Push(<<[t |-> "hole-add", img |-> i, host |-> host.id, child |-> child]>>)
    /\ UNCHANGED made

RemoveHole(i, host, h) ==
    /\ host \in annots[i] /\ h \in host.holes /\ made < MaxMade
    /\ LET child == [id |-> made + 1, pts |-> h, holes |-> {}] IN
       /\ annots' = [annots EXCEPT ![i] =
                        (@ \ {host}) \cup {[host EXCEPT !.holes = @ \ {h}], child}]
       /\ Push(<<[t |-> "hole-remove", img |-> i, host |-> host.id, child |-> child]>>)
    /\ made' = made + 1

Move(i, before, after, withHoles) ==
    [t |-> "measure-move", img |-> i, id |-> before.id, before |-> before.pts, after |-> after.pts,
     withHoles |-> withHoles, beforeHoles |-> before.holes, afterHoles |-> after.holes]

\* "Simplify outline" and "Delete vertex".
Reshape(i, m) ==
    /\ m \in annots[i] /\ made < MaxMade
    /\ LET new == [m EXCEPT !.pts = Outline(made + 1)] IN
       /\ annots' = [annots EXCEPT ![i] = (@ \ {m}) \cup {new}]
       /\ Push(<<Move(i, m, new, FALSE)>>)
    /\ made' = made + 1

Edit(i) ==
    /\ Calm
    /\ \/ AddMeasure(i)
       \/ \E S \in SUBSET annots[i] : ClearMeasures(i, S)
       \/ \E host, child \in annots[i] : AddHole(i, host, child)
       \/ \E host \in annots[i] : \E h \in host.holes : RemoveHole(i, host, h)
       \/ \E m \in annots[i] : Reshape(i, m)
    /\ UNCHANGED drag

---------------------------------------------------------------------------
\* A drag: pressed, moved, released, with answers of the server in between

DragStart(i, m, body) ==
    /\ drag = NoDrag /\ m \in annots[i]
    /\ drag' = [img |-> i, m |-> m, body |-> body]
    /\ UNCHANGED <<annots, historyVars, made>>

\* Every ring of S as a new array; back where it was, it holds the same.
Shifted(S, back) ==
    LET nth(h) == made + 1 + Cardinality({x \in S : x.ref <= h.ref})
    IN  {[at |-> IF back THEN h.at ELSE nth(h), ref |-> nth(h)] : h \in S}

\* The body moves with its holes from where both were pressed; a vertex
\* changes the outline alone.
DragMove(back) ==
    /\ drag # NoDrag /\ Has(annots[drag.img], drag.m.id)
    /\ LET now == Get(annots[drag.img], drag.m.id)
           holes == IF drag.body THEN Shifted(drag.m.holes, back) ELSE now.holes
           pts == [at |-> IF back THEN drag.m.pts.at ELSE made + 1, ref |-> made + 1]
       IN  /\ made + 1 + Cardinality(drag.m.holes) <= MaxMade
           /\ annots' = [annots EXCEPT ![drag.img] =
                            Replaced(@, now.id, [id |-> now.id, pts |-> pts, holes |-> holes])]
           /\ made' = made + 1 + (IF drag.body THEN Cardinality(drag.m.holes) ELSE 0)
    /\ UNCHANGED <<historyVars, drag>>

Content(m) == [id |-> m.id, pts |-> m.pts.at, holes |-> {h.at : h \in m.holes}]
WithHoles_Never(before, after) == FALSE
WithHoles(before, after) == before.holes # {} \/ after.holes # {}

\* onHandleUp: an entry only if what the outlines hold has changed.
DragEnd ==
    /\ drag # NoDrag
    /\ LET here == annots[drag.img]
           now == Get(here, drag.m.id)
       IN  IF Has(here, drag.m.id) /\ Content(now) # Content(drag.m)
           THEN Push(<<Move(drag.img, drag.m, now, WithHoles(drag.m, now))>>)
           ELSE UNCHANGED historyVars
    /\ drag' = NoDrag
    /\ UNCHANGED <<annots, made>>

Dragging ==
    \/ \E i \in images : \E m \in annots[i], body \in BOOLEAN : DragStart(i, m, body)
    \/ \E back \in {FALSE, Abrupt} : DragMove(back)
    \/ DragEnd

---------------------------------------------------------------------------
\* With the library

\* ingestDerived: the images of one command are one entry.
AnnotsDerived(S) ==
    LET seq == SetToSeq(S) IN
    /\ Push([n \in DOMAIN seq |-> [t |-> "derived", img |-> seq[n]]])
    /\ UNCHANGED <<annots, drag, made>>

\* closeImage drops what was drawn on the image; the history stays.
AnnotsClosed(i) ==
    /\ annots' = [annots EXCEPT ![i] = {}]
    /\ UNCHANGED <<historyVars, drag, made>>

\* sessionSlice restores the annotations, of images not found too, and numbers
\* past them; the history starts afresh.
Numbers(S) == UNION {{m.id, m.pts.ref} \cup {h.ref : h \in m.holes} : m \in S}
AnnotsLoaded(measures) ==
    /\ annots' = measures /\ undoStack' = <<>> /\ redoStack' = <<>>
    /\ made' = Max({made} \cup UNION {Numbers(measures[i]) : i \in Images})
    /\ UNCHANGED drag
=============================================================================
