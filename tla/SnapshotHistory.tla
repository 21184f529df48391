-------------------------- MODULE SnapshotHistory --------------------------
(***************************************************************************)
(* What an undo history promises: an edit can be taken back to exactly the *)
(* document before it, and brought back to exactly the document after it,  *)
(* as if every document had been kept whole.  What comes or goes on its    *)
(* own (a part of the document opened or closed) does so in all of them.   *)
(***************************************************************************)
EXTENDS Naturals, Sequences, SequencesExt

CONSTANTS Parts, Blank, Depth

VARIABLES doc,      \* the document, part by part
          past,     \* the documents before the last edits, latest last
          future    \* the documents undone, next one last

\* The last Depth of s.
Recent(s) == SubSeq(s, IF Len(s) > Depth THEN Len(s) - Depth + 1 ELSE 1, Len(s))

Init == doc = [k \in Parts |-> Blank] /\ past = <<>> /\ future = <<>>

Edit ==
    /\ past' = Append(Recent(past), doc)
    /\ future' = <<>>

Undo ==
    /\ past # <<>>
    /\ doc' = Last(past) /\ past' = Front(past)
    /\ future' = Append(future, doc)

Redo ==
    /\ future # <<>>
    /\ doc' = Last(future) /\ future' = Front(future)
    /\ past' = Append(past, doc)

\* The parts S become what they are now in d, whichever document is looked at.
With(d, S, e) == [k \in Parts |-> IF k \in S THEN e[k] ELSE d[k]]
Outside(S) ==
    /\ doc' = With(doc, S, doc')
    /\ past' = [n \in DOMAIN past |-> With(past[n], S, doc')]
    /\ future' = [n \in DOMAIN future |-> With(future[n], S, doc')]

\* Another document is opened.
Replace == past' = <<>> /\ future' = <<>>

Next == Edit \/ Undo \/ Redo \/ (\E S \in SUBSET Parts : Outside(S)) \/ Replace

Spec == Init /\ [][Next]_<<doc, past, future>>
=============================================================================
