----------------------------- MODULE AtomicStore -----------------------------
(***************************************************************************)
(* What a JSON store of the config directory promises its callers, however *)
(* many threads and servers call it: a change is applied to the store as   *)
(* it is at that instant, whole, or not at all.                            *)
(*                                                                         *)
(* An entry is the sequence of its versions, oldest first; <<>> is an      *)
(* entry that does not exist.  A version is the set of labels in its body. *)
(***************************************************************************)
EXTENDS Naturals, Sequences

CONSTANTS Threads, Ids, Legacy, Regions, NoRequest

VARIABLES content,   \* the store
          asked      \* per thread: the request it has not been served yet

Bodies == SUBSET (Legacy \cup Regions)
Ops == {"create", "update", "retext", "delete", "region", "import", "read"}
Request == [op : Ops, id : Ids, body : Bodies]

Latest(c, k) == c[k][Len(c[k])]
Present(c) == {k \in Ids : c[k] # <<>>}

\* One change c -> d of each kind.
Creates(c, d, k, b) == c[k] = <<>> /\ d = [c EXCEPT ![k] = <<b>>]
NewVersion(c, d, k, b) == c[k] # <<>> /\ d = [c EXCEPT ![k] = Append(@, b)]
Deletes(c, d, k) == c[k] # <<>> /\ d = [c EXCEPT ![k] = <<>>]

\* The legacy key is in no profile of c.
NotImported(c, key) == \A k \in Present(c) : key \notin Latest(c, k)

Served(r, c, d) ==
    \/ r.op = "create" /\ Creates(c, d, r.id, r.body)
    \/ r.op = "update" /\ NewVersion(c, d, r.id, (Latest(c, r.id) \cap Legacy) \cup r.body)
    \/ r.op = "retext" /\ NewVersion(c, d, r.id, r.body)
    \/ r.op = "region" /\ NewVersion(c, d, r.id, Latest(c, r.id) \cup r.body)
    \/ r.op = "delete" /\ Deletes(c, d, r.id)
    \/ /\ r.op = "import"
       /\ \E k \in Ids, key \in r.body : NotImported(c, key) /\ Creates(c, d, k, {key})

Init == content = [k \in Ids |-> <<>>] /\ asked = [t \in Threads |-> NoRequest]

Ask(t, r) ==
    /\ asked[t] = NoRequest
    /\ asked' = [asked EXCEPT ![t] = r]
    /\ UNCHANGED content

\* A batch import stays asked until its last key; any other request is done.
Serve(t) ==
    /\ asked[t] # NoRequest
    /\ Served(asked[t], content, content')
    /\ asked' = IF asked[t].op = "import" THEN asked
                ELSE [asked EXCEPT ![t] = NoRequest]

\* Requests answered without a change: refused, failed, done, or lost with
\* the process that was serving them.
Drop(S) ==
    /\ asked' = [t \in Threads |-> IF t \in S THEN NoRequest ELSE asked[t]]
    /\ UNCHANGED content

Next ==
    \/ \E t \in Threads, r \in Request : Ask(t, r)
    \/ \E t \in Threads : Serve(t)
    \/ \E S \in SUBSET Threads : Drop(S)

Spec == Init /\ [][Next]_<<content, asked>>
=============================================================================
