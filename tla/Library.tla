------------------------------ MODULE Library ------------------------------
(***************************************************************************)
(* The images the page shows (frontend store/viewer.ts) against those the  *)
(* server has: how they come (opened, derived, loaded with a project,      *)
(* located again) and how they go (closed, or a derivation undone).  Each  *)
(* action here is one part of an action of Viewer, which adds what happens *)
(* to groups and annotations in the same step.                             *)
(*                                                                         *)
(* The order of the cards, the selection and which image is on the stage   *)
(* are left out.                                                           *)
(***************************************************************************)
EXTENDS Naturals

CONSTANTS Images,      \* the ids the server mints
          Derived,     \* those of images computed from another one
          Source,      \* per derived image, the image it is computed from
          NoImage

ASSUME ImagesAssumption == /\ Derived \subseteq Images /\ Source \in [Derived -> Images]
                           /\ NoImage \notin Images

VARIABLES
    images,        \* the library of the page
    unavailable,   \* placeholders of the project: ids whose file was not found
    undone,        \* derived images an undo took out of the library
    closing,       \* closes the server has answered, not yet applied by the page
    closed         \* note: ids closed in this session; the server has them no more

libVars == <<images, unavailable, undone, closing, closed>>

LibraryInit == images = {} /\ unavailable = {} /\ undone = {} /\ closing = {} /\ closed = {}

Fresh == Images \ (images \cup unavailable \cup undone \cup closing \cup closed)

\* ingestImages: the answer to an open, or to an analysis that makes images.
Ingest(S) ==
    /\ S # {} /\ S \subseteq Fresh
    /\ images' = images \cup S
    /\ UNCHANGED <<unavailable, undone, closing, closed>>

\* closeImage up to its await: the server refuses an id it does not have.
CloseAsk(i) ==
    /\ i \in images \ (closing \cup closed)
    /\ closing' = closing \cup {i}
    /\ UNCHANGED <<images, unavailable, undone, closed>>

\* closeImage after it.
CloseDone(i) ==
    /\ i \in closing
    /\ images' = images \ {i} /\ undone' = undone \ {i}
    /\ closing' = closing \ {i} /\ closed' = closed \cup {i}
    /\ UNCHANGED unavailable

\* A step of the history leaves S as the library; it removes and restores by
\* id, and asks nobody.
HistoryLeaves(S) ==
    /\ images' = S
    /\ undone' = (undone \cup images) \ S
    /\ UNCHANGED <<unavailable, closing, closed>>

\* openProject: a project over the images `all', of which those `here' were found.
LibraryLoaded(all, here) ==
    /\ images' = here /\ unavailable' = all \ here
    /\ undone' = {} /\ closed' = {}
    /\ UNCHANGED closing

\* locateData: S is what the server found under the folder.
Locate(S) ==
    /\ S # {} /\ S \subseteq unavailable
    /\ images' = images \cup S /\ unavailable' = unavailable \ S
    /\ UNCHANGED <<undone, closing, closed>>
=============================================================================
