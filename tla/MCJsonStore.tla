----------------------------- MODULE MCJsonStore -----------------------------
EXTENDS JsonStore, TLC

CONSTANTS a1, a2, b1, A0, B0, k1, k2, old, new

MCThreads == {a1, a2, b1}
MCProcs == {A0, B0}
MCProcOf == (a1 :> A0) @@ (a2 :> A0) @@ (b1 :> B0)
MCOneServer == {a1, a2}
MCOneOf == (a1 :> A0) @@ (a2 :> A0)
MCIds == {k1, k2}
Req(o, k, b) == [op |-> o, id |-> k, body |-> b]
AllAsks == {Req("create", k1, {}), Req("update", k1, {}), Req("delete", k1, {}), Req("read", k1, {}),
            Req("import", k1, {old}), Req("region", k1, {new}), Req("retext", k1, {})}
TwoAsks == {Req("import", k1, {old}), Req("region", k1, {new}), Req("delete", k1, {}),
            Req("create", k2, {old})}
=============================================================================
