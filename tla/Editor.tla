------------------------------- MODULE Editor -------------------------------
(***************************************************************************)
(* ir.Editor: the copy-on-write edit through which a pass changes a        *)
(* document.                                                               *)
(*                                                                         *)
(* A client reads, updates, replaces and removes nodes by ID.  A type is   *)
(* held by pointer in a registry the edit copies at its first write; the   *)
(* registries of servers, channels, messages and auth schemes run the same *)
(* generic code.  Services, groups and operations are one tree, held apart *)
(* from the document and built back lazily.  An update runs the client's   *)
(* change in the middle of the call, so it is two steps here, between      *)
(* which the change may call the edit, or panic.                           *)
(***************************************************************************)
EXTENDS Naturals, Sequences, FiniteSets, SequencesExt, FiniteSetsExt

CONSTANTS Types,         \* type IDs
          Members,       \* IDs a type declares inside itself
          Ptrs,          \* addresses of type nodes
          None,          \* nil
          Docs,          \* documents to edit: [types |-> map, nodes |-> heap]
          Tree,          \* the services, groups and operations in document
                         \* order: parent (0 for a service), class and ID
          MaxGroupDepth, \* how deep groups are read
          MaxRefusals    \* bound: refusals made in one edit

\* A service sits in the document, a group or an operation in a service or group.
ASSUME TreeOK ==
    /\ Tree \in Seq([parent : Nat, class : {"service", "group", "operation"}, id : STRING])
    /\ \A n \in DOMAIN Tree : /\ Tree[n].parent < n
                              /\ Tree[n].class = "service" <=> Tree[n].parent = 0
                              /\ Tree[n].parent # 0 => Tree[Tree[n].parent].class # "operation"
ASSUME DepthOK == MaxGroupDepth \in Nat

TypeNode == [id : Types, ver : Nat, ids : [Members -> Nat]]

ASSUME TypesOK == IsFiniteSet(Types)
ASSUME NoneOK == None \notin Ptrs /\ None \notin TypeNode
\* A document's registry maps IDs to nodes, nil or off their key as they may be.
ASSUME DocsOK == \A d \in Docs : /\ d.types \in [Types -> Ptrs \cup {None}]
                                 /\ d.nodes \in [Ptrs -> TypeNode \cup {None}]

VARIABLES
    heap,     \* the type nodes, by address: the document's and the client's
    maps,     \* the document's type registry and the edit's own copy
    owned,    \* owns.types: whether the edit has copied the registry
    given,    \* the nodes the client built and handed to ReplaceType
    tree,     \* serviceTree: read, cut, val, stale, removed
    out,      \* the services and the own fields of the document to return
    running,  \* the update whose change is running, or None; since is the
              \* history of how many refusals had been made when it began
    intruded, \* whether a call it made was refused
    finished, \* whether Finish has returned
    refused,  \* the refusals Finish has not reported yet
    made,     \* history: the refusals made
    told      \* history: the refusals a Finish that is not a change's reported

vars == <<heap, maps, owned, given, tree, out, running, intruded, finished, refused, made, told>>
typeVars == <<heap, maps, owned, given>>

Nodes == DOMAIN Tree
NoIDs == [m \in Members |-> 0]
Out == IF owned THEN maps.own ELSE maps.doc

----------------------------------------------------------------------------
\* The service tree.

ListOf(class) == IF class = "operation" THEN "operations" ELSE "groups"
\* The list a node sits in, and the lists on the path from it to the services.
In(n) == <<Tree[n].parent, ListOf(Tree[n].class)>>
Up[n \in Nodes] == {n} \cup (IF Tree[n].parent = 0 THEN {} ELSE Up[Tree[n].parent])
Lists == (Nodes \cup {0}) \X {"groups", "operations"}
\* Nodes in document order, and those left of a list without some.
InOrder(s) == CHOOSE q \in [1 .. Cardinality(s) -> s] :
                \A i, j \in 1 .. Cardinality(s) : i < j => q[i] < q[j]
ChildrenOf == [l \in Lists |-> {c \in Nodes : In(c) = l}]
Left(n, list, gone) == InOrder(ChildrenOf[<<n, list>>] \ gone)
\* The values of a list, given the nodes in it.
Values(f, left) == [i \in DOMAIN left |-> f[left[i]]]

\* indexGroups: levels of groups above a group, and what lies within the cap.
Depth(n) == Cardinality({m \in Up[n] : Tree[m].class = "group"})
Indexed == {n \in Nodes : Depth(n) <= MaxGroupDepth + 1}

\* A node of the document as it was handed in.
Original[n \in Nodes] ==
    [id |-> Tree[n].id, ver |-> 0,
     groups |-> Values(Original, Left(n, "groups", {})),
     operations |-> Values(Original, Left(n, "operations", {}))]

Services0 == Values(Original, Left(0, "groups", {}))

\* index: every node within the cap holds the document's own value.
Index ==
    [read |-> TRUE, val |-> [n \in Nodes |-> Original[n]], stale |-> {}, removed |-> {}]
Unread == [read |-> FALSE, val |-> Index.val, stale |-> {}, removed |-> {}]
IndexedTree == IF tree.read THEN tree ELSE Index

\* held: neither the node nor one holding it was removed.
HeldNode(t, n) == Up[n] \cap t.removed = {}

\* find: the nodes of a class held at an ID.
Find(t, class, id) ==
    {n \in Indexed : Tree[n].class = class /\ Tree[n].id = id /\ HeldNode(t, n)}

\* What a change left of a node, beside its lists as they are; and a node removed.
Changed(t, n) ==
    [read |-> t.read, stale |-> t.stale, removed |-> t.removed,
     val |-> [t.val EXCEPT ![n] = [id |-> t.val[n].id, ver |-> 1, groups |-> t.val[n].groups,
                                   operations |-> t.val[n].operations]]]
Without(t, n) ==
    [read |-> t.read, val |-> t.val, stale |-> t.stale, removed |-> t.removed \cup {n}]

\* Mutant: only the list that holds the node is marked.
TouchOwnList(t, n) == [t EXCEPT !.stale = @ \cup {In(n)}]

\* touch: the list holding the node and each one on the path to it go stale.
Touch(t, n) ==
    [read |-> t.read, val |-> t.val, removed |-> t.removed,
     stale |-> t.stale \cup {In(m) : m \in Up[n]}]

\* serviceOf, groupOf and built: a node's value once its stale lists are built
\* anew from the nodes left in them.
Value(t) ==
    LET f[n \in Nodes] ==
          LET built(list, now) == IF <<n, list>> \in t.stale
                                  THEN Values(f, Left(n, list, t.removed \cup (Nodes \ Indexed)))
                                  ELSE now
          IN  [id |-> t.val[n].id, ver |-> t.val[n].ver,
               groups |-> built("groups", t.val[n].groups),
               operations |-> built("operations", t.val[n].operations)]
    IN  f

\* The nodes below n that a read of n builds anew: those every list on the way
\* to is stale, and which were not removed.
Rebuilt(t, n) ==
    {m \in Indexed : /\ n = 0 \/ n \in Up[m]
                     /\ \A k \in Up[m] : \/ n # 0 /\ k \in Up[n]
                                         \/ In(k) \in t.stale /\ k \notin t.removed}

\* A read of n, or of all services for n = 0, leaves what it built in the tree.
Settled(t, n) ==
    LET met == Rebuilt(t, n) \cup (IF n = 0 THEN {} ELSE {n})
    IN  [read |-> t.read, removed |-> t.removed,
         val |-> [m \in Nodes |-> IF m \in met THEN Value(t)[m] ELSE t.val[m]],
         stale |-> {l \in t.stale : l[1] \notin met \cup (IF n = 0 THEN {0} ELSE {})}]

\* settle: the document's services, built anew when their list is stale.
ServicesOf(t) ==
    IF <<0, "groups">> \in t.stale THEN Values(Value(t), Left(0, "groups", t.removed))
    ELSE out.services

----------------------------------------------------------------------------
Init ==
    /\ \E d \in Docs : heap = d.nodes /\ maps = [doc |-> d.types, own |-> [t \in Types |-> None]]
    /\ owned = FALSE
    /\ given = {}
    /\ tree = Unread
    /\ out = [services |-> Services0, ver |-> 0]
    /\ running = None
    /\ intruded = FALSE
    /\ finished = FALSE
    /\ refused = 0 /\ made = 0 /\ told = 0

\* Mutant: a call refused inside a change does not count against the change.
RefuseQuietly ==
    /\ made < MaxRefusals
    /\ refused' = refused + 1 /\ made' = made + 1
    /\ UNCHANGED intruded

\* refuse: a refusal while a change runs is of a call the change made.
Refuse ==
    /\ made < MaxRefusals
    /\ refused' = refused + 1 /\ made' = made + 1
    /\ intruded' = (intruded \/ running # None)

\* A call that is refused changes nothing else.
Refused == Refuse /\ UNCHANGED <<typeVars, tree, out, running, finished, told>>
Quiet == UNCHANGED <<refused, made, told>>

\* open: a write is taken before Finish, and not from inside a change.
Open == ~finished /\ running = None

\* entryAt: and only at an ID the edit holds, as an edit adds none.
EntryAt(id) == Open /\ Out[id] # None

\* Mutant: the document's own registry is written.
WriteInPlace(id, ptr) == maps' = [maps EXCEPT !.doc[id] = ptr] /\ UNCHANGED owned

\* registry.write: the registry is copied at the first write.
Write(id, ptr) ==
    /\ maps' = [doc |-> maps.doc, own |-> [Out EXCEPT ![id] = ptr]]
    /\ owned' = TRUE

\* Mutant: only IDs the node did not declare at all are looked for.
ExcessUncounted(node, next) == \E m \in Members : next[m] > 0 /\ node[m] = 0

\* idCounts.excess: an ID declared more often than the node declares it.
Excess(node, next) == \E m \in Members : next[m] > node[m]

\* The node an update of a type starts from is neither nil nor off its key.
Updatable(id) == EntryAt(id) /\ heap[Out[id]] # None /\ heap[Out[id]].id = id
Unused == {p \in Ptrs : heap[p] = None /\ \A t \in Types : maps.doc[t] # p}
\* Allocation: which free address a node gets makes no difference.
Fresh == {p \in Unused : \A q \in Unused : p <= q}

\* UpdateType and updateEntry up to the change: the change gets a deep copy of
\* the node.  Without a change, or where the node is refused, nothing runs.
BeginType ==
    \E id \in Types :
      \/ /\ Updatable(id)
         /\ running' = [class |-> "type", id |-> id, node |-> heap[Out[id]], since |-> made]
         /\ intruded' = FALSE
         /\ UNCHANGED <<typeVars, tree, out, finished>> /\ Quiet
      \/ Refused   \* at any ID a nil change is, whatever else is wrong

\* updated: what a change may leave of a type, and whether the edit takes it.
EndType ==
    /\ running # None /\ running.class = "type"
    /\ running' = None
    /\ UNCHANGED <<given, tree, out, finished, told>>
    /\ \E id \in Types, ids \in [Members -> 0 .. 2] :
         LET node == running.node
             next == [id |-> id, ver |-> 1, ids |-> ids]
         IN  IF intruded \/ id # running.id \/ Excess(node.ids, ids)
             THEN /\ made < MaxRefusals /\ refused' = refused + 1 /\ made' = made + 1
                  /\ UNCHANGED <<heap, maps, owned, intruded>>
             ELSE /\ \E p \in Fresh : heap' = [heap EXCEPT ![p] = next] /\ Write(running.id, p)
                  /\ UNCHANGED <<refused, made, intruded>>

\* ReplaceType: a node the client built, taken as it is; its own ID is held to
\* its key, so it is not among those it may not add.
ReplaceType ==
    \E p \in Ptrs :
      LET td == heap[p]
          current == IF Out[td.id] = None THEN None ELSE heap[Out[td.id]]
          ids == IF current = None THEN NoIDs ELSE current.ids
      IN  /\ td # None
          /\ \/ /\ EntryAt(td.id) /\ maps.doc[td.id] # p /\ ~Excess(ids, td.ids)
                /\ Write(td.id, p)
                /\ UNCHANGED <<heap, given, tree, out, running, intruded, finished>> /\ Quiet
             \/ /\ ~EntryAt(td.id) \/ maps.doc[td.id] = p \/ Excess(ids, td.ids)
                /\ Refused

\* The client builds a node, and may set its ID again after the edit took it.
Build ==
    \E p \in Fresh, id \in Types, ids \in [Members -> 0 .. 1] :
      /\ running = None /\ given = {}
      /\ heap' = [heap EXCEPT ![p] = [id |-> id, ver |-> 2, ids |-> ids]]
      /\ given' = given \cup {p}
      /\ UNCHANGED <<maps, owned, tree, out, running, intruded, finished>> /\ Quiet
Move ==
    \E p \in given, id \in Types :
      /\ ~finished /\ running = None
      /\ heap' = [heap EXCEPT ![p] = [id |-> id, ver |-> heap[p].ver, ids |-> heap[p].ids]]
      /\ UNCHANGED <<maps, owned, given, tree, out, running, intruded, finished>> /\ Quiet

\* RemoveType and removeEntry.
RemoveType ==
    \E id \in Types :
      \/ /\ EntryAt(id) /\ Write(id, None)
         /\ UNCHANGED <<heap, given, tree, out, running, intruded, finished>> /\ Quiet
      \/ ~EntryAt(id) /\ Refused

----------------------------------------------------------------------------
\* nodeAt: the one node of its class held at the ID.
Only(class, id) == Open /\ Cardinality(Find(IndexedTree, class, id)) = 1
TreeIDs == {<<Tree[n].class, Tree[n].id>> : n \in Nodes}

\* Service, Group and Operation: a read builds what is stale in its node.
ReadNode ==
    \E k \in TreeIDs :
      LET found == Find(IndexedTree, k[1], k[2])
      IN  /\ tree' = IF Cardinality(found) = 1 /\ k[1] # "operation"
                     THEN Settled(IndexedTree, CHOOSE n \in found : TRUE) ELSE IndexedTree
          /\ UNCHANGED <<typeVars, out, running, intruded, finished>> /\ Quiet

\* UpdateService, UpdateGroup and UpdateOperation up to the change, and
\* UpdateDocument, which has no ID.
BeginNode ==
    \/ \E k \in TreeIDs :
         \/ /\ Only(k[1], k[2])
            /\ tree' = IndexedTree
            /\ running' = [class |-> "node", id |-> k[2],
                           node |-> CHOOSE n \in Find(IndexedTree, k[1], k[2]) : TRUE,
                           since |-> made]
            /\ intruded' = FALSE
            /\ UNCHANGED <<typeVars, out, finished>> /\ Quiet
         \/ ~Only(k[1], k[2]) /\ Refused
    \/ /\ Open
       /\ running' = [class |-> "document", id |-> None, node |-> 0, since |-> made]
       /\ intruded' = FALSE
       /\ UNCHANGED <<typeVars, tree, out, finished>> /\ Quiet

\* The change of a node moved it, set a field the edit keys apart, declared an
\* ID or called the edit; or it left a node to take, beside the lists as they
\* are.
EndNode ==
    /\ running # None /\ running.class # "type"
    /\ running' = None
    /\ UNCHANGED <<typeVars, intruded, finished, told>>
    /\ \E keeps \in BOOLEAN :
         IF intruded \/ ~keeps
         THEN made < MaxRefusals /\ refused' = refused + 1 /\ made' = made + 1 /\ UNCHANGED <<tree, out>>
         ELSE /\ IF running.class = "document"
                 THEN out' = [services |-> out.services, ver |-> 1] /\ UNCHANGED tree
                 ELSE /\ tree' = Touch(Changed(tree, running.node), running.node)
                      /\ UNCHANGED out
              /\ UNCHANGED <<refused, made>>

\* A change that panics leaves the edit as it was.
Panic ==
    /\ running # None /\ running' = None
    /\ UNCHANGED <<typeVars, tree, out, intruded, finished>> /\ Quiet

\* RemoveService, RemoveGroup and RemoveOperation.
RemoveNode ==
    \E k \in TreeIDs :
      \/ /\ Only(k[1], k[2])
         /\ LET n == CHOOSE n \in Find(IndexedTree, k[1], k[2]) : TRUE
            IN  tree' = Touch(Without(IndexedTree, n), n)
         /\ UNCHANGED <<typeVars, out, running, intruded, finished>> /\ Quiet
      \/ ~Only(k[1], k[2]) /\ Refused

----------------------------------------------------------------------------
\* Mutant: what moved is left where it is.
NothingMoved == {}

\* refuseMoved: the keys of the nodes the edit took whose ID names another.
Moved ==
    IF ~owned THEN {}
    ELSE {id \in Types : /\ maps.own[id] \notin {None, maps.doc[id]}
                         /\ heap[maps.own[id]].id # id}

\* Mutant: a Finish inside a change reports its refusals for good.
FinishInsideClears ==
    /\ running # None
    /\ made < MaxRefusals /\ made' = made + 1 /\ refused' = 0
    /\ intruded' = TRUE
    /\ out' = [services |-> ServicesOf(tree), ver |-> out.ver]
    /\ tree' = Settled(tree, 0)
    /\ UNCHANGED <<typeVars, running, finished, told>>

\* Finish inside a change ends nothing, and is itself refused.
FinishInside ==
    /\ running # None
    /\ Refuse
    /\ out' = [services |-> ServicesOf(tree), ver |-> out.ver]
    /\ tree' = Settled(tree, 0)
    /\ UNCHANGED <<typeVars, running, finished, told>>

\* Finish: settles the tree; the first one puts back what moved; each reports
\* the refusals made since the last.
Finish ==
    /\ running = None
    /\ out' = [services |-> ServicesOf(tree), ver |-> out.ver]
    /\ tree' = Settled(tree, 0)
    /\ finished' = TRUE
    /\ LET moved == IF finished THEN {} ELSE Moved
       IN  /\ maps' = [doc |-> maps.doc,
                       own |-> [id \in Types |-> IF id \in moved THEN maps.doc[id] ELSE maps.own[id]]]
           /\ made' = made + Cardinality(moved)
           /\ told' = told + refused + Cardinality(moved)
    /\ refused' = 0
    /\ UNCHANGED <<heap, owned, given, running, intruded>>

Next == \/ BeginType \/ EndType \/ ReplaceType \/ Build \/ Move \/ RemoveType
        \/ ReadNode \/ BeginNode \/ EndNode \/ Panic \/ RemoveNode
        \/ FinishInside \/ Finish

Spec == Init /\ [][Next]_vars

----------------------------------------------------------------------------
TypeOK ==
    /\ heap \in [Ptrs -> TypeNode \cup {None}]
    /\ maps \in [doc : [Types -> Ptrs \cup {None}], own : [Types -> Ptrs \cup {None}]]
    /\ given \subseteq Ptrs
    /\ owned \in BOOLEAN /\ intruded \in BOOLEAN /\ finished \in BOOLEAN
    /\ refused \in Nat /\ made \in Nat /\ told \in Nat

\* What the client gets back keeps every node the edit took at its own ID's key,
\* even when the client set the node's ID after handing it over.
OwnKeys ==
    finished => \A id \in Types :
                  Out[id] \notin {None, maps.doc[id]} => heap[Out[id]].id = id

\* An edit adds no ID, nested ones included: a key of the result is a key of the
\* document, and declares no ID more often than the document does there.
NoIDAdded ==
    \A id \in Types : Out[id] # None =>
      /\ maps.doc[id] # None
      /\ \A m \in Members :
           LET n == heap[Out[id]]
               d == heap[maps.doc[id]]
           IN  n # None => n.ids[m] <= IF d = None THEN 0 ELSE d.ids[m]

\* The tree as the client edited it, read directly: what was written, without
\* what was removed.  Groups past the cap are the document's.
Edited[n \in Nodes] ==
    IF n \notin Indexed THEN Original[n]
    ELSE [id |-> Tree[n].id, ver |-> tree.val[n].ver,
          groups |-> Values(Edited, Left(n, "groups", tree.removed)),
          operations |-> Values(Edited, Left(n, "operations", tree.removed))]

\* Building stale lists lazily, in whatever order reads, writes and removals
\* come, gives what building everything at once would: in every read of a node
\* (Service, Group) and in the document Finish returns.
BuiltAsEdited ==
    /\ tree.removed \subseteq Indexed /\ {l[1] : l \in tree.stale} \subseteq Indexed \cup {0}
    /\ tree.read => \A n \in Indexed : HeldNode(tree, n) => Value(tree)[n] = Edited[n]
    /\ finished => out.services = Values(Edited, Left(0, "groups", tree.removed))

\* Whatever the client calls in whatever order (Edit's methods, Finish): the
\* result holds each node at its own key and declares no ID the document did
\* not, and a refused call is never lost, being reported by a Finish made outside
\* a change or still waiting for one.
EditSound == TypeOK /\ OwnKeys /\ NoIDAdded /\ told + refused = made

\* The edit never writes the document it was given, neither its registry nor a
\* node in it, whatever the client calls and whatever a change does; and a change
\* that called a write of the edit, or ended it, changes nothing.
WritesConfined ==
    [][/\ maps'.doc = maps.doc
       /\ \A t \in Types : maps.doc[t] # None => heap'[maps.doc[t]] = heap[maps.doc[t]]
       /\ running # None /\ running' = None /\ made > running.since
             => UNCHANGED <<heap, maps, tree, out>>]_vars
=============================================================================
