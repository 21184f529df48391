------------------------------ MODULE MCViewer ------------------------------
\* Viewer for TLC: trees of groups, or panes over two groups, or annotations.
EXTENDS Viewer, TLC

CONSTANTS i1, d1

MCSource == d1 :> i1

P(i, g) == [image |-> i, group |-> g]
O(k) == [at |-> k, ref |-> k]
None == [i \in Images |-> {}]
\* A sample in a project, beside an empty group; one damaged throughout; and
\* one with an outline in another.
MCFiles ==
    {[images |-> {i1, d1}, live |-> {1, 2}, ids |-> (1 :> {}) @@ (2 :> {i1, d1}) @@ (3 :> {}),
      parent |-> (1 :> 0) @@ (2 :> 1) @@ (3 :> 0), panes |-> <<EmptyPane>>, measures |-> None],
     [images |-> {i1}, live |-> {1, 2, 3}, ids |-> (1 :> {i1}) @@ (2 :> {d1}) @@ (3 :> {i1}),
      parent |-> (1 :> 2) @@ (2 :> 1) @@ (3 :> 2), panes |-> <<P(i1, 1), P(d1, 2)>>, measures |-> None],
     [images |-> {i1}, live |-> {}, ids |-> [g \in Groups |-> {}], parent |-> [g \in Groups |-> 0],
      panes |-> <<EmptyPane>>,
      measures |-> [None EXCEPT ![i1] = {[id |-> 1, pts |-> O(1), holes |-> {}],
                                         [id |-> 2, pts |-> O(2), holes |-> {}]}]]}

\* Few annotations on a library that changes, or the two of the file and a
\* library that stays.
Steps == UNION {Range(e) : e \in Range(undoStack) \cup Range(redoStack)}
Deep == d1 \in Fresh /\ closing = {} /\ closed = {} /\ \A s \in Steps : s.t # "measure-add"
Trees == panes = <<EmptyPane>>
Grid == groupSeq <= 2 /\ \A g \in live : parent[g] = NoGroup
Drawings == groupSeq = 0 /\ Trees /\ annots[d1] = {} /\ (made <= 2 \/ Deep)
Focus == Drawings \/ (made = 0 /\ ((Trees /\ undoStack = <<>> /\ redoStack = <<>>) \/ Grid))
=============================================================================
