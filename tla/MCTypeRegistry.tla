--------------------------- MODULE MCTypeRegistry ---------------------------
(* TLC instances of TypeRegistry: every small document of a sound compiler *)
(* and families of documents of a faulty one.                              *)
EXTENDS TypeRegistry, TLC

CONSTANTS p1, p2, p3, t1, t2, t3, mint, bare, prim

MCSpaceOf ==
    [i \in TypeID |-> IF i = bare THEN NoSpace
                      ELSE IF i = mint THEN "composed"
                      ELSE IF i = prim THEN "prim" ELSE "openapi"]

Own == p1 :> t1 @@ p2 :> t2 @@ p3 :> t3

(* Every way for up to n pairs of the coordinates in P to be related.      *)
Graphs(P, n) ==
    {g \in [P \X P -> {"none", "intern", "promise"}] :
        Cardinality({e \in P \X P : g[e] # "none"}) <= n}

Links(g, p) ==
    {[op |-> g[e], on |-> e[2]] : e \in {f \in DOMAIN g : f[1] = p /\ g[f] # "none"}}

Plain == [p \in Pointer |-> "rewrite"]
NoAim == [p \in Pointer |-> mint]

(* p1 mints, p2 mints the same and queues to complete, p3 queues to defer; *)
(* each queues under its own coordinate.                                   *)
Extra(p) ==
    IF p = p1 THEN {[op |-> "register", on |-> mint], [op |-> "defer", on |-> p1]}
    ELSE IF p = p2 THEN {[op |-> "register", on |-> mint], [op |-> "complete", on |-> p2]}
    ELSE {[op |-> "prim", on |-> prim], [op |-> "defer", on |-> p3]}

Sound ==
    {[roots |-> r, id |-> Own, work |-> [p \in Pointer |-> Links(g, p) \cup Extra(p)],
      nil |-> {}, alike |-> TRUE, deed |-> Plain, aim |-> NoAim, into |-> NoAim] :
        r \in {{p1}, {p1, p2}}, g \in Graphs(Pointer, 3)}

(* Derivations and builds that go wrong.                                   *)
Pair == {p1, p2}
Misderived ==
    {[roots |-> {p1}, id |-> [p \in Pointer |-> IF p = p1 THEN i ELSE IF p = p2 THEN j ELSE t3],
      work |-> [p \in Pointer |-> IF p = p3 THEN {} ELSE Links(g, p) \cup x[p]],
      nil |-> n, alike |-> FALSE, deed |-> Plain, aim |-> NoAim, into |-> NoAim] :
        i \in {t1, mint, bare}, j \in {t1, t2, mint}, g \in Graphs(Pair, 3), n \in SUBSET Pair,
        x \in {p1 :> {} @@ p2 :> {[op |-> "register", on |-> mint]},
               p1 :> {[op |-> "register", on |-> t2]} @@ p2 :> {},
               p1 :> {[op |-> "blank", on |-> p1]} @@ p2 :> {}}}

(* Settlements that do what they may not, and that mint.                   *)
Missettled ==
    {[roots |-> {p1, p2}, id |-> Own,
      work |-> [p \in Pointer |-> IF p = p3 THEN {} ELSE
                  {[op |-> o[p], on |-> p], [op |-> "promise", on |-> p3]}],
      nil |-> {}, alike |-> a,
      deed |-> [p \in Pointer |-> IF p = p1 THEN d ELSE IF p = p2 THEN e ELSE "rewrite"],
      aim |-> [p \in Pointer |-> IF p = p1 THEN i ELSE j],
      into |-> [p \in Pointer |-> IF "swap" \in {d, e} THEN k ELSE mint]] :
        a \in BOOLEAN, o \in [Pair -> {"complete", "defer"}],
        d \in Deed, e \in Deed, i \in {t1, t3, mint}, j \in {t3, mint}, k \in {t2, mint}}

Compiled == Sound \cup Misderived \cup Missettled
=============================================================================
