------------------------------ MODULE MCEditor ------------------------------
EXTENDS Editor
CONSTANTS t1, t2, m1

P == 1 .. 4
At(id, n) == [id |-> id, ver |-> 0, ids |-> [m \in Members |-> n]]
Heap(a, b) == [p \in P |-> IF p = 1 THEN a ELSE IF p = 2 THEN b ELSE None]
\* Two types at home; one of them nil, off its key, or absent.
MCDocs ==
    {[types |-> (t1 :> 1 @@ t2 :> 2), nodes |-> Heap(At(t1, 1), At(t2, 2))],
     [types |-> (t1 :> 1 @@ t2 :> 2), nodes |-> Heap(At(t1, 1), None)],
     [types |-> (t1 :> 1 @@ t2 :> 2), nodes |-> Heap(At(t1, 2), At(t1, 1))],
     [types |-> (t1 :> 1 @@ t2 :> None), nodes |-> Heap(At(t1, 1), None)]}
Node(parent, class, id) == [parent |-> parent, class |-> class, id |-> id]
\* Two operations share an ID; the innermost group is past the cap.
MCTree == <<Node(0, "service", "a"), Node(1, "group", "g"), Node(2, "operation", "o"),
            Node(2, "group", "h"), Node(4, "operation", "p"), Node(4, "group", "deep"),
            Node(4, "operation", "o")>>
\* A client works on types or on the tree, and writes at most two parts of it.
Writes == tree.removed \cup {n \in Nodes : tree.val[n].ver = 1}
Scenario == /\ ~tree.read \/ (~owned /\ given = {} /\ maps.doc[t2] = 2 /\ heap[2] # None)
            /\ Cardinality(Writes) + out.ver <= 2
MCNext == Next /\ Scenario'
MCSpec == Init /\ [][MCNext]_vars
=============================================================================
