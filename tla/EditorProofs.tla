---------------------------- MODULE EditorProofs ----------------------------
(***************************************************************************)
(* What an edit keeps, for any documents, type IDs, addresses and service  *)
(* tree: EditSound, WritesConfined and BuiltAsEdited.                      *)
(*                                                                         *)
(* The first two are not inductive.  That a key declares no ID the         *)
(* document did not rests, across the client's change, on the node the     *)
(* change was given still being the one at the key when it ends            *)
(* (Changing); that no node of the document is written rests on the        *)
(* client's own nodes lying apart from it (Apart); and that an allocation  *)
(* disturbs no entry rests on each entry the edit wrote naming a node that *)
(* is there (Present).                                                     *)
(*                                                                         *)
(* BuiltAsEdited rests on three facts of the tree: every list of a held    *)
(* node that is not stale is the one edited (Fits), a stale list makes     *)
(* every list on the path to it stale (Traced), and a list goes stale      *)
(* within the cap only (Formed).  The values are recursive functions on    *)
(* the tree: that they exist, and that two of them agree, is shown by      *)
(* induction from the last node to the first (Upwards), which is a least   *)
(* counterexample.                                                         *)
(***************************************************************************)
EXTENDS Editor, FiniteSetTheorems, NaturalsInduction, WellFoundedInduction, TLAPS

Registries == [Types -> Ptrs \cup {None}]

\* An entry that is not the document's own names a node, never nil.
Present == \A t \in Types : Out[t] \notin {None, maps.doc[t]} => heap[Out[t]] # None

\* A node of the client's is there, and is no node of the document.
Apart == \A p \in given : heap[p] # None /\ \A t \in Types : maps.doc[t] # p

\* While a change runs: a refusal made since it began has been counted against
\* it, and the node it was given is the one still held at the ID.
Changing ==
    running # None =>
      /\ ~finished
      /\ running.since \in Nat /\ running.since <= made
      /\ made > running.since => intruded
      /\ running.class = "type" =>
           /\ running.id \in Types
           /\ Out[running.id] # None
           /\ running.node = heap[Out[running.id]]
           /\ running.node \in TypeNode

Counted == told + refused = made

Inv == TypeOK /\ Present /\ Apart /\ Changing /\ OwnKeys /\ NoIDAdded /\ Counted

\* The IDs a key of the document declares.
Declared(t, m) == IF heap[maps.doc[t]] = None THEN 0 ELSE heap[maps.doc[t]].ids[m]

----------------------------------------------------------------------------
LEMMA OutIsARegistry ==
    ASSUME TypeOK
    PROVE  /\ maps.doc \in Registries /\ maps.own \in Registries
           /\ Out \in Registries
BY DEF TypeOK, Out, Registries

LEMMA InitHolds ==
    ASSUME Init
    PROVE  Inv
<1>1. PICK d \in Docs : heap = d.nodes /\ maps = [doc |-> d.types, own |-> [t \in Types |-> None]]
  BY DEF Init
<1>2. d.types \in Registries /\ d.nodes \in [Ptrs -> TypeNode \cup {None}]
  BY DocsOK DEF Registries
<1>3. maps.doc = d.types /\ maps.own = [t \in Types |-> None]
  BY <1>1
<1>4. Out = maps.doc
  BY DEF Out, Init
<1>5. TypeOK
  BY <1>1, <1>2 DEF TypeOK, Init, Registries
<1>6. NoIDAdded
  <2> SUFFICES ASSUME NEW t \in Types, Out[t] # None, NEW m \in Members, heap[Out[t]] # None
               PROVE  heap[Out[t]].ids[m] <= heap[Out[t]].ids[m]
    BY <1>4, Zenon DEF NoIDAdded
  <2>1. Out[t] \in Ptrs
    BY <1>2, <1>3, <1>4 DEF Registries
  <2>2. heap[Out[t]] \in TypeNode
    BY <1>1, <1>2, <2>1
  <2> QED
    BY <2>2 DEF TypeNode
<1>7. Present /\ OwnKeys /\ Apart /\ Changing /\ Counted
  BY <1>4 DEF Present, OwnKeys, Apart, Changing, Counted, Init
<1> QED
  BY <1>5, <1>6, <1>7 DEF Inv

\* A step that leaves the types, and begins or goes on with no change of a type.
LEMMA TypesKept ==
    ASSUME Inv, UNCHANGED typeVars, UNCHANGED finished
    PROVE  Present' /\ Apart' /\ OwnKeys' /\ NoIDAdded' /\ Out' = Out
<1>1. Out' = Out
  BY DEF Out, typeVars
<1>2. heap' = heap /\ maps' = maps /\ given' = given /\ finished' = finished
  BY DEF typeVars
<1> QED
  BY <1>1, <1>2 DEF Inv, Present, Apart, OwnKeys, NoIDAdded

----------------------------------------------------------------------------
(* Refused calls *)

LEMMA RefusedHolds ==
    ASSUME Inv, Refused
    PROVE  Inv'
<1>1. Present' /\ Apart' /\ OwnKeys' /\ NoIDAdded' /\ Out' = Out
  BY TypesKept DEF Refused
<1>2. TypeOK'
  BY DEF Inv, TypeOK, Refused, Refuse, typeVars
<1>3. Changing'
  <2>1. /\ running' = running /\ heap' = heap /\ finished' = finished
        /\ made' = made + 1 /\ (running # None => intruded')
    BY DEF Refused, Refuse, typeVars
  <2>2. made \in Nat
    BY DEF Inv, TypeOK
  <2>3. SUFFICES ASSUME running # None
                 PROVE  /\ ~finished /\ running.since \in Nat /\ running.since <= made + 1
                        /\ running.class = "type" =>
                             /\ running.id \in Types /\ Out[running.id] # None
                             /\ running.node = heap[Out[running.id]]
                             /\ running.node \in TypeNode
    BY <1>1, <2>1, Zenon DEF Changing
  <2> QED
    BY <2>2, <2>3 DEF Inv, Changing
<1>4. Counted'
  BY DEF Inv, TypeOK, Counted, Refused, Refuse
<1> QED
  BY <1>1, <1>2, <1>3, <1>4 DEF Inv

----------------------------------------------------------------------------
(* Writes of the registry *)

\* What a write of an entry has to bring: a node that is there and declares no
\* more than the document's at the key, or nil.
LEMMA WriteHolds ==
    ASSUME Inv, NEW id \in Types, NEW ptr \in Ptrs \cup {None}, Write(id, ptr),
           heap' \in [Ptrs -> TypeNode \cup {None}],
           \A p \in Ptrs : heap[p] # None \/ (\E t \in Types : maps.doc[t] = p) => heap'[p] = heap[p],
           UNCHANGED <<given, finished>>, ~finished,
           Out[id] # None,
           ptr # None => /\ heap'[ptr] # None
                         /\ \A m \in Members : heap'[ptr].ids[m] <= Declared(id, m)
    PROVE  /\ maps' \in [doc : Registries, own : Registries]
           /\ owned' \in BOOLEAN
           /\ Present' /\ Apart' /\ OwnKeys' /\ NoIDAdded'
<1>1. maps.doc \in Registries /\ Out \in Registries
  BY OutIsARegistry DEF Inv
<1>2. maps' = [doc |-> maps.doc, own |-> [Out EXCEPT ![id] = ptr]] /\ owned'
  BY DEF Write
<1>3. maps'.doc = maps.doc /\ Out' = [Out EXCEPT ![id] = ptr]
  BY <1>2 DEF Out
<1>4. Out'[id] = ptr /\ \A t \in Types \ {id} : Out'[t] = Out[t]
  BY <1>1, <1>3 DEF Registries
<1>5. [Out EXCEPT ![id] = ptr] \in Registries
  BY <1>1 DEF Registries
<1>6. maps' \in [doc : Registries, own : Registries]
  BY <1>1, <1>2, <1>5
<1>7. heap \in [Ptrs -> TypeNode \cup {None}] /\ given \subseteq Ptrs
  BY DEF Inv, TypeOK
<1>8. \A t \in Types : maps.doc[t] # None => maps.doc[t] \in Ptrs /\ heap'[maps.doc[t]] = heap[maps.doc[t]]
  BY <1>1 DEF Registries
<1>9. \A t \in Types : Out[t] # None => Out[t] \in Ptrs /\ heap'[Out[t]] = heap[Out[t]]
  BY <1>1, <1>8 DEF Registries, Inv, Present
<1>10. Present'
  <2> SUFFICES ASSUME NEW t \in Types, Out'[t] # None, Out'[t] # maps.doc[t]
               PROVE  heap'[Out'[t]] # None
    BY <1>3 DEF Present
  <2> QED
    BY <1>4, <1>9 DEF Inv, Present
<1>11. Apart'
  BY <1>3, <1>7 DEF Inv, Apart
<1>12. OwnKeys'
  BY DEF OwnKeys
<1>13. NoIDAdded'
  <2> SUFFICES ASSUME NEW t \in Types, Out'[t] # None
               PROVE  /\ maps.doc[t] # None
                      /\ \A m \in Members : heap'[Out'[t]] # None =>
                           heap'[Out'[t]].ids[m] <=
                             IF heap'[maps.doc[t]] = None THEN 0 ELSE heap'[maps.doc[t]].ids[m]
    BY <1>3, Zenon DEF NoIDAdded
  <2>1. maps.doc[t] # None /\ heap'[maps.doc[t]] = heap[maps.doc[t]]
    BY <1>4, <1>8 DEF Inv, NoIDAdded
  <2>2. CASE t = id
    BY <1>4, <2>1, <2>2 DEF Declared
  <2>3. CASE t # id
    <3>1. Out'[t] = Out[t] /\ heap'[Out[t]] = heap[Out[t]] /\ Out[t] # None
      BY <1>4, <1>9, <2>3
    <3> QED
      BY <2>1, <3>1 DEF Inv, NoIDAdded
  <2> QED
    BY <2>2, <2>3
<1> QED
  BY <1>2, <1>6, <1>10, <1>11, <1>12, <1>13

\* A step after which no change runs, and which counts no refusal.
LEMMA IdleHolds ==
    ASSUME Inv, TypeOK', Present', Apart', OwnKeys', NoIDAdded', running' = None, Quiet
    PROVE  Inv'
BY DEF Inv, Changing, Counted, Quiet

----------------------------------------------------------------------------
(* The client's steps *)

\* An address taken for a new node is neither in use nor the document's.
LEMMA FreshIsFree ==
    ASSUME NEW p \in Fresh
    PROVE  p \in Ptrs /\ heap[p] = None /\ \A t \in Types : maps.doc[t] # p
BY DEF Fresh, Unused

LEMMA BeginTypeHolds ==
    ASSUME Inv, BeginType
    PROVE  Inv'
<1>1. CASE Refused
  BY <1>1, RefusedHolds
<1>2. ASSUME NEW id \in Types, Updatable(id), 
             running' = [class |-> "type", id |-> id, node |-> heap[Out[id]], since |-> made],
             UNCHANGED <<typeVars, tree, out, finished>>, intruded' = FALSE, Quiet
      PROVE  Inv'
  <2>1. Present' /\ Apart' /\ OwnKeys' /\ NoIDAdded' /\ Out' = Out
    BY <1>2, TypesKept
  <2>2. TypeOK'
    BY <1>2 DEF Inv, TypeOK, typeVars, Quiet
  <2>3. Out[id] \in Ptrs /\ heap[Out[id]] \in TypeNode /\ ~finished
    BY <1>2, OutIsARegistry DEF Inv, TypeOK, Updatable, EntryAt, Open, Registries
  <2>4. running'.class = "type" /\ running'.id = id /\ running'.node = heap[Out[id]]
        /\ running'.since = made
    BY <1>2
  <2>5. heap' = heap /\ finished' = finished /\ made' = made /\ made \in Nat
    BY <1>2 DEF typeVars, Quiet, Inv, TypeOK
  <2>6. Changing'
    BY <2>1, <2>3, <2>4, <2>5, NoneOK DEF Changing
  <2>7. Counted'
    BY <1>2 DEF Inv, Counted, Quiet
  <2> QED
    BY <2>1, <2>2, <2>6, <2>7 DEF Inv
<1> QED
  BY <1>1, <1>2 DEF BeginType

\* What a change leaves is taken only where it declares no ID more often than
\* the node it was given.
LEMMA EndTypeHolds ==
    ASSUME Inv, EndType
    PROVE  Inv'
<1> DEFINE node == running.node
           next(id, ids) == [id |-> id, ver |-> 1, ids |-> ids]
<1>1. running # None /\ running.class = "type" /\ running' = None
      /\ UNCHANGED <<given, finished, told>>
  BY DEF EndType
<1>2. PICK id \in Types, ids \in [Members -> 0 .. 2] :
        IF intruded \/ id # running.id \/ Excess(node.ids, ids)
        THEN /\ made < MaxRefusals /\ refused' = refused + 1 /\ made' = made + 1
             /\ UNCHANGED <<heap, maps, owned, intruded>>
        ELSE /\ \E p \in Fresh : heap' = [heap EXCEPT ![p] = next(id, ids)] /\ Write(running.id, p)
             /\ UNCHANGED <<refused, made, intruded>>
  BY DEF EndType
<1>3. /\ running.id \in Types /\ Out[running.id] # None
      /\ node = heap[Out[running.id]] /\ node \in TypeNode /\ ~finished
  BY <1>1 DEF Inv, Changing
<1>4. CASE intruded \/ id # running.id \/ Excess(node.ids, ids)
  <2>1. UNCHANGED typeVars /\ UNCHANGED intruded /\ refused' = refused + 1 /\ made' = made + 1
    BY <1>1, <1>2, <1>4 DEF typeVars
  <2>2. Present' /\ Apart' /\ OwnKeys' /\ NoIDAdded'
    BY <1>1, <2>1, TypesKept
  <2>3. TypeOK'
    BY <1>1, <2>1 DEF Inv, TypeOK, typeVars
  <2>4. Changing' /\ Counted'
    BY <1>1, <2>1 DEF Inv, TypeOK, Changing, Counted
  <2> QED
    BY <2>2, <2>3, <2>4 DEF Inv
<1>5. CASE ~(intruded \/ id # running.id \/ Excess(node.ids, ids))
  <2>1. PICK p \in Fresh : heap' = [heap EXCEPT ![p] = next(id, ids)] /\ Write(running.id, p)
    BY <1>2, <1>5
  <2>2. UNCHANGED <<refused, made, intruded>>
    BY <1>2, <1>5
  <2>3. p \in Ptrs /\ heap[p] = None /\ \A t \in Types : maps.doc[t] # p
    BY FreshIsFree
  <2>4. next(id, ids) \in TypeNode /\ next(id, ids).ids = ids
    BY DEF TypeNode
  <2>5. heap \in [Ptrs -> TypeNode \cup {None}]
    BY DEF Inv, TypeOK
  <2>6. heap' \in [Ptrs -> TypeNode \cup {None}] /\ heap'[p] = next(id, ids)
        /\ \A q \in Ptrs \ {p} : heap'[q] = heap[q]
    BY <2>1, <2>3, <2>4, <2>5
  <2>7. \A q \in Ptrs : heap[q] # None \/ (\E t \in Types : maps.doc[t] = q) => heap'[q] = heap[q]
    BY <2>3, <2>6
  <2>8. ASSUME NEW m \in Members
        PROVE  heap'[p].ids[m] <= Declared(running.id, m)
    <3>1. ids[m] \in Nat /\ node.ids[m] \in Nat /\ ids[m] <= node.ids[m]
      BY <1>3, <1>5 DEF Excess, TypeNode
    <3>2. node.ids[m] <= Declared(running.id, m)
      BY <1>3, NoneOK DEF Inv, NoIDAdded, Declared
    <3>3. Declared(running.id, m) \in Nat
      <4>1. maps.doc[running.id] \in Ptrs
        BY <1>3, OutIsARegistry DEF Inv, NoIDAdded, Registries
      <4> QED
        BY <2>5, <4>1 DEF Declared, TypeNode
    <3> QED
      BY <2>4, <2>6, <3>1, <3>2, <3>3
  <2>9. heap'[p] # None
    BY <2>4, <2>6, NoneOK
  <2>10. /\ maps' \in [doc : Registries, own : Registries] /\ owned' \in BOOLEAN
         /\ Present' /\ Apart' /\ OwnKeys' /\ NoIDAdded'
    BY <1>1, <1>3, <2>1, <2>3, <2>6, <2>7, <2>8, <2>9, WriteHolds
  <2>11. TypeOK'
    BY <1>1, <2>2, <2>6, <2>10 DEF Inv, TypeOK, Registries
  <2> QED
    BY <1>1, <2>2, <2>10, <2>11, IdleHolds DEF Quiet
<1> QED
  BY <1>4, <1>5

LEMMA ReplaceTypeHolds ==
    ASSUME Inv, ReplaceType
    PROVE  Inv'
<1> DEFINE current(td) == IF Out[td.id] = None THEN None ELSE heap[Out[td.id]]
           allowed(td) == IF current(td) = None THEN NoIDs ELSE current(td).ids
<1>1. CASE Refused
  BY <1>1, RefusedHolds
<1>2. ASSUME NEW p \in Ptrs, heap[p] # None, EntryAt(heap[p].id), maps.doc[heap[p].id] # p,
             ~Excess(allowed(heap[p]), heap[p].ids), Write(heap[p].id, p),
             UNCHANGED <<heap, given, tree, out, running, intruded, finished>>, Quiet
      PROVE  Inv'
  <2> DEFINE td == heap[p]
  <2>1. heap \in [Ptrs -> TypeNode \cup {None}] /\ td \in TypeNode
    BY <1>2 DEF Inv, TypeOK
  <2>2. td.id \in Types /\ Out[td.id] # None /\ ~finished /\ running = None
    BY <1>2, <2>1 DEF EntryAt, Open, TypeNode
  <2>3. maps.doc[td.id] \in Ptrs /\ Out[td.id] \in Ptrs
    BY <2>2, OutIsARegistry DEF Inv, NoIDAdded, Registries
  <2>4. ASSUME NEW m \in Members
        PROVE  td.ids[m] <= Declared(td.id, m)
    <3>1. td.ids[m] \in Nat /\ Declared(td.id, m) \in Nat
      BY <2>1, <2>3 DEF Declared, TypeNode
    <3>2. CASE current(td) = None
      <4>1. Out[td.id] = maps.doc[td.id]
        BY <2>2, <3>2 DEF Inv, Present
      <4>2. Declared(td.id, m) = 0
        BY <2>2, <3>2, <4>1 DEF Declared
      <4>3. ~(td.ids[m] > 0)
        BY <1>2, <3>2 DEF Excess, NoIDs
      <4> QED
        BY <3>1, <4>2, <4>3
    <3>3. CASE current(td) # None
      <4>1. current(td) = heap[Out[td.id]] /\ current(td) \in TypeNode
        BY <2>1, <2>2, <2>3, <3>3
      <4>2. current(td).ids[m] \in Nat /\ td.ids[m] <= current(td).ids[m]
        BY <1>2, <2>1, <3>1, <3>3, <4>1 DEF Excess, TypeNode
      <4>3. current(td).ids[m] <= Declared(td.id, m)
        BY <2>2, <3>3, <4>1 DEF Inv, NoIDAdded, Declared
      <4> QED
        BY <3>1, <4>2, <4>3
    <3> QED
      BY <3>2, <3>3
  <2>5. heap' = heap
    BY <1>2
  <2>6. /\ maps' \in [doc : Registries, own : Registries] /\ owned' \in BOOLEAN
        /\ Present' /\ Apart' /\ OwnKeys' /\ NoIDAdded'
    BY <1>2, <2>1, <2>2, <2>4, <2>5, WriteHolds
  <2>7. TypeOK'
    BY <1>2, <2>1, <2>6 DEF Inv, TypeOK, Registries, Quiet
  <2> QED
    BY <1>2, <2>2, <2>6, <2>7, IdleHolds
<1> QED
  BY <1>1, <1>2 DEF ReplaceType

LEMMA RemoveTypeHolds ==
    ASSUME Inv, RemoveType
    PROVE  Inv'
<1>1. CASE Refused
  BY <1>1, RefusedHolds
<1>2. ASSUME NEW id \in Types, EntryAt(id), Write(id, None),
             UNCHANGED <<heap, given, tree, out, running, intruded, finished>>, Quiet
      PROVE  Inv'
  <2>1. Out[id] # None /\ ~finished /\ running = None /\ heap' = heap
    BY <1>2 DEF EntryAt, Open
  <2>2. heap \in [Ptrs -> TypeNode \cup {None}]
    BY DEF Inv, TypeOK
  <2>3. /\ maps' \in [doc : Registries, own : Registries] /\ owned' \in BOOLEAN
        /\ Present' /\ Apart' /\ OwnKeys' /\ NoIDAdded'
    BY <1>2, <2>1, <2>2, WriteHolds
  <2>4. TypeOK'
    BY <1>2, <2>1, <2>3 DEF Inv, TypeOK, Registries, Quiet
  <2> QED
    BY <1>2, <2>1, <2>3, <2>4, IdleHolds
<1> QED
  BY <1>1, <1>2 DEF RemoveType

\* A node the client builds takes an address nothing names yet.
LEMMA BuildHolds ==
    ASSUME Inv, Build
    PROVE  Inv'
<1>1. PICK p \in Fresh, id \in Types, ids \in [Members -> 0 .. 1] :
        /\ running = None
        /\ heap' = [heap EXCEPT ![p] = [id |-> id, ver |-> 2, ids |-> ids]]
        /\ given' = given \cup {p}
        /\ UNCHANGED <<maps, owned, running, intruded, finished>> /\ Quiet
  BY DEF Build
<1> DEFINE new == [id |-> id, ver |-> 2, ids |-> ids]
<1>2. p \in Ptrs /\ heap[p] = None /\ \A t \in Types : maps.doc[t] # p
  BY FreshIsFree
<1>3. new \in TypeNode /\ new # None
  <2>1. new \in TypeNode
    BY DEF TypeNode
  <2> QED
    BY <2>1, NoneOK
<1>4. heap \in [Ptrs -> TypeNode \cup {None}] /\ given \subseteq Ptrs
  BY DEF Inv, TypeOK
<1>5. /\ heap' \in [Ptrs -> TypeNode \cup {None}] /\ heap'[p] = new
      /\ \A q \in Ptrs \ {p} : heap'[q] = heap[q]
  BY <1>1, <1>2, <1>3, <1>4
<1>6. Out' = Out /\ maps' = maps /\ finished' = finished
  BY <1>1 DEF Out
<1>7. \A t \in Types : maps.doc[t] # None => maps.doc[t] \in Ptrs /\ heap'[maps.doc[t]] = heap[maps.doc[t]]
  BY <1>2, <1>5, OutIsARegistry DEF Inv, Registries
<1>8. \A t \in Types : Out[t] # None => Out[t] \in Ptrs /\ heap'[Out[t]] = heap[Out[t]]
  BY <1>2, <1>5, <1>7, OutIsARegistry DEF Inv, Registries, Present
<1>9. Present' /\ OwnKeys'
  BY <1>6, <1>8 DEF Inv, Present, OwnKeys
<1>10. NoIDAdded'
  BY <1>6, <1>7, <1>8 DEF Inv, NoIDAdded
<1>11. Apart'
  BY <1>1, <1>2, <1>3, <1>4, <1>5, <1>6 DEF Inv, Apart
<1>12. TypeOK'
  BY <1>1, <1>2, <1>4, <1>5 DEF Inv, TypeOK, Quiet
<1> QED
  BY <1>1, <1>9, <1>10, <1>11, <1>12, IdleHolds

\* The client may set the ID of a node it handed over: what the node declares
\* inside, and every node of the document, stay as they were.
LEMMA MoveHolds ==
    ASSUME Inv, Move
    PROVE  Inv'
<1>1. PICK p \in given, id \in Types :
        /\ ~finished /\ running = None
        /\ heap' = [heap EXCEPT ![p] = [id |-> id, ver |-> heap[p].ver, ids |-> heap[p].ids]]
        /\ UNCHANGED <<maps, owned, given, running, intruded, finished>> /\ Quiet
  BY DEF Move
<1> DEFINE new == [id |-> id, ver |-> heap[p].ver, ids |-> heap[p].ids]
<1>2. heap \in [Ptrs -> TypeNode \cup {None}] /\ given \subseteq Ptrs
  BY DEF Inv, TypeOK
<1>3. p \in Ptrs /\ heap[p] \in TypeNode /\ \A t \in Types : maps.doc[t] # p
  BY <1>2 DEF Inv, Apart
<1>4. new \in TypeNode /\ new.ids = heap[p].ids
  BY <1>3 DEF TypeNode
<1>5. heap[p] # None /\ new # None
  BY <1>3, <1>4, NoneOK
<1>6. /\ heap' \in [Ptrs -> TypeNode \cup {None}] /\ heap'[p] = new
      /\ \A q \in Ptrs \ {p} : heap'[q] = heap[q]
  BY <1>1, <1>2, <1>3, <1>4
<1>7. \A q \in Ptrs : /\ heap'[q] = None <=> heap[q] = None
                      /\ heap[q] # None => heap'[q].ids = heap[q].ids
  BY <1>4, <1>5, <1>6
<1>8. Out' = Out /\ maps' = maps /\ finished' = finished /\ given' = given
  BY <1>1 DEF Out
<1>9. \A t \in Types : /\ Out[t] # None => Out[t] \in Ptrs
                       /\ maps.doc[t] # None => maps.doc[t] \in Ptrs
  BY OutIsARegistry DEF Inv, Registries
<1>10. Present' /\ OwnKeys' /\ Apart'
  <2>1. \A q \in Ptrs : heap'[q] = None <=> heap[q] = None
    BY <1>7
  <2>2. Present'
    BY <1>8, <1>9, <2>1 DEF Inv, Present
  <2>3. OwnKeys'
    BY <1>1, <1>8 DEF OwnKeys
  <2>4. Apart'
    BY <1>2, <1>8, <2>1 DEF Inv, Apart
  <2> QED
    BY <2>2, <2>3, <2>4
<1>11. NoIDAdded'
  <2> SUFFICES ASSUME NEW t \in Types, Out[t] # None
               PROVE  /\ maps.doc[t] # None
                      /\ \A m \in Members : heap'[Out[t]] # None =>
                           heap'[Out[t]].ids[m] <=
                             IF heap'[maps.doc[t]] = None THEN 0 ELSE heap'[maps.doc[t]].ids[m]
    BY <1>8, Zenon DEF NoIDAdded
  <2>1. Out[t] \in Ptrs /\ maps.doc[t] # None
    BY <1>9 DEF Inv, NoIDAdded
  <2>2. heap'[maps.doc[t]] = heap[maps.doc[t]]
    BY <1>3, <1>6, <1>9, <2>1
  <2>3. heap'[Out[t]] # None => heap[Out[t]] # None /\ heap'[Out[t]].ids = heap[Out[t]].ids
    BY <1>7, <2>1
  <2>4. \A m \in Members : heap[Out[t]] # None =>
          heap[Out[t]].ids[m] <= IF heap[maps.doc[t]] = None THEN 0 ELSE heap[maps.doc[t]].ids[m]
    BY DEF Inv, NoIDAdded
  <2> QED
    BY <2>1, <2>2, <2>3, <2>4
<1>12. TypeOK'
  BY <1>1, <1>6 DEF Inv, TypeOK, Quiet
<1> QED
  BY <1>1, <1>10, <1>11, <1>12, IdleHolds

----------------------------------------------------------------------------
(* The service tree, and the ends of an edit *)

LEMMA ReadNodeHolds ==
    ASSUME Inv, ReadNode
    PROVE  Inv'
<1>1. UNCHANGED <<typeVars, running, intruded, finished>> /\ Quiet
  BY DEF ReadNode
<1>2. Present' /\ Apart' /\ OwnKeys' /\ NoIDAdded' /\ Out' = Out
  BY <1>1, TypesKept
<1>3. TypeOK' /\ Counted'
  BY <1>1 DEF Inv, TypeOK, Counted, Quiet, typeVars
<1>4. Changing'
  BY <1>1, <1>2 DEF Inv, Changing, Quiet, typeVars
<1> QED
  BY <1>2, <1>3, <1>4 DEF Inv

LEMMA BeginNodeHolds ==
    ASSUME Inv, BeginNode
    PROVE  Inv'
<1>1. CASE Refused
  BY <1>1, RefusedHolds
<1>2. ASSUME Open, intruded' = FALSE, UNCHANGED <<typeVars, out, finished>>, Quiet,
             running'.class \in {"node", "document"}, running'.since = made
      PROVE  Inv'
  <2>1. Present' /\ Apart' /\ OwnKeys' /\ NoIDAdded'
    BY <1>2, TypesKept
  <2>2. TypeOK' /\ Counted'
    BY <1>2 DEF Inv, TypeOK, Counted, Quiet, typeVars
  <2>3. Changing'
    BY <1>2 DEF Inv, TypeOK, Changing, Quiet, Open
  <2> QED
    BY <2>1, <2>2, <2>3 DEF Inv
<1>3. ASSUME NEW k \in TreeIDs, Only(k[1], k[2]), intruded' = FALSE,
             running' = [class |-> "node", id |-> k[2],
                         node |-> CHOOSE n \in Find(IndexedTree, k[1], k[2]) : TRUE,
                         since |-> made],
             UNCHANGED <<typeVars, out, finished>>, Quiet
      PROVE  Inv'
  <2>1. running'.class = "node" /\ running'.since = made
    BY <1>3
  <2> QED
    BY <1>2, <1>3, <2>1 DEF Only
<1>4. ASSUME Open, intruded' = FALSE, UNCHANGED <<typeVars, tree, out, finished>>, Quiet,
             running' = [class |-> "document", id |-> None, node |-> 0, since |-> made]
      PROVE  Inv'
  <2>1. running'.class = "document" /\ running'.since = made
    BY <1>4
  <2> QED
    BY <1>2, <1>4, <2>1
<1> QED
  BY <1>1, <1>3, <1>4 DEF BeginNode

LEMMA EndNodeHolds ==
    ASSUME Inv, EndNode
    PROVE  Inv'
<1>1. running' = None /\ UNCHANGED <<typeVars, intruded, finished, told>>
  BY DEF EndNode
<1>2. \/ refused' = refused + 1 /\ made' = made + 1
      \/ UNCHANGED <<refused, made>>
  BY DEF EndNode
<1>3. Present' /\ Apart' /\ OwnKeys' /\ NoIDAdded'
  BY <1>1, TypesKept
<1>4. TypeOK' /\ Counted'
  BY <1>1, <1>2 DEF Inv, TypeOK, Counted, typeVars
<1>5. Changing'
  BY <1>1 DEF Changing
<1> QED
  BY <1>3, <1>4, <1>5 DEF Inv

LEMMA PanicHolds ==
    ASSUME Inv, Panic
    PROVE  Inv'
<1>1. running' = None /\ UNCHANGED <<typeVars, intruded, finished>> /\ Quiet
  BY DEF Panic
<1>2. Present' /\ Apart' /\ OwnKeys' /\ NoIDAdded'
  BY <1>1, TypesKept
<1>3. TypeOK'
  BY <1>1 DEF Inv, TypeOK, Quiet, typeVars
<1> QED
  BY <1>1, <1>2, <1>3, IdleHolds

LEMMA RemoveNodeHolds ==
    ASSUME Inv, RemoveNode
    PROVE  Inv'
<1>1. CASE Refused
  BY <1>1, RefusedHolds
<1>2. ASSUME Open, UNCHANGED <<typeVars, out, running, intruded, finished>>, Quiet
      PROVE  Inv'
  <2>1. Present' /\ Apart' /\ OwnKeys' /\ NoIDAdded'
    BY <1>2, TypesKept
  <2>2. TypeOK'
    BY <1>2 DEF Inv, TypeOK, Quiet, typeVars
  <2> QED
    BY <1>2, <2>1, <2>2, IdleHolds DEF Open
<1> QED
  BY <1>1, <1>2 DEF RemoveNode, Only

LEMMA FinishInsideHolds ==
    ASSUME Inv, FinishInside
    PROVE  Inv'
<1>1. /\ running # None /\ running' = running /\ UNCHANGED typeVars
      /\ UNCHANGED finished /\ told' = told
      /\ refused' = refused + 1 /\ made' = made + 1 /\ intruded'
  BY DEF FinishInside, Refuse
<1>2. Present' /\ Apart' /\ OwnKeys' /\ NoIDAdded' /\ Out' = Out
  BY <1>1, TypesKept
<1>3. intruded' \in BOOLEAN
  BY DEF Inv, TypeOK, FinishInside, Refuse
<1>4. TypeOK' /\ Counted'
  BY <1>1, <1>3 DEF Inv, TypeOK, Counted, typeVars
<1>5. heap' = heap /\ made \in Nat
  BY <1>1 DEF typeVars, Inv, TypeOK
<1>6. Changing'
  <2> SUFFICES /\ ~finished /\ running.since \in Nat /\ running.since <= made + 1
               /\ running.class = "type" =>
                    /\ running.id \in Types /\ Out[running.id] # None
                    /\ running.node = heap[Out[running.id]]
                    /\ running.node \in TypeNode
    BY <1>1, <1>2, <1>5, Zenon DEF Changing
  <2> QED
    BY <1>1, <1>5 DEF Inv, Changing
<1> QED
  BY <1>2, <1>4, <1>6 DEF Inv

\* The first Finish puts back each entry whose node names another key, and
\* reports one refusal for each.
LEMMA FinishHolds ==
    ASSUME Inv, Finish
    PROVE  Inv'
<1> DEFINE moved == IF finished THEN {} ELSE Moved
           put == [id \in Types |-> IF id \in moved THEN maps.doc[id] ELSE maps.own[id]]
<1>1. /\ running = None /\ running' = None /\ finished' = TRUE /\ refused' = 0
      /\ UNCHANGED <<heap, owned, given, intruded>>
      /\ maps' = [doc |-> maps.doc, own |-> put]
      /\ made' = made + Cardinality(moved) /\ told' = told + refused + Cardinality(moved)
  BY DEF Finish
<1>2. Cardinality(moved) \in Nat
  <2>1. moved \subseteq Types
    BY DEF Moved
  <2> QED
    BY <2>1, TypesOK, FS_Subset, FS_CardinalityType
<1>3. maps.doc \in Registries /\ maps.own \in Registries /\ put \in Registries
  <2>1. maps.doc \in Registries /\ maps.own \in Registries
    BY OutIsARegistry DEF Inv
  <2> QED
    BY <2>1 DEF Registries
<1>4. maps' \in [doc : Registries, own : Registries]
  BY <1>1, <1>3
<1>5. maps'.doc = maps.doc /\ Out' = IF owned THEN put ELSE maps.doc
  BY <1>1 DEF Out
<1>6. TypeOK'
  BY <1>1, <1>2, <1>4 DEF Inv, TypeOK, Registries
<1>7. Counted'
  BY <1>1, <1>2 DEF Inv, TypeOK, Counted
<1>8. \A t \in Types : Out'[t] = Out[t] \/ Out'[t] = maps.doc[t]
  BY <1>5 DEF Out
<1>9. \A t \in Types : Out'[t] # None => Out[t] # None
  <2>1. \A t \in moved : Out[t] # None
    BY DEF Moved, Out
  <2> QED
    BY <1>5, <2>1 DEF Out
<1>10. Present'
  BY <1>1, <1>5, <1>8 DEF Inv, Present
<1>11. Apart'
  BY <1>1, <1>5 DEF Inv, Apart
<1>12. NoIDAdded'
  <2> SUFFICES ASSUME NEW t \in Types, Out'[t] # None
               PROVE  /\ maps.doc[t] # None
                      /\ \A m \in Members : heap[Out'[t]] # None =>
                           heap[Out'[t]].ids[m] <=
                             IF heap[maps.doc[t]] = None THEN 0 ELSE heap[maps.doc[t]].ids[m]
    BY <1>1, <1>5, Zenon DEF NoIDAdded
  <2>1. maps.doc[t] # None /\ maps.doc[t] \in Ptrs
    BY <1>3, <1>9 DEF Inv, NoIDAdded, Registries
  <2>2. CASE Out'[t] = Out[t]
    BY <2>2 DEF Inv, NoIDAdded
  <2>3. CASE Out'[t] = maps.doc[t]
    <3>1. heap[maps.doc[t]] \in TypeNode \cup {None}
      BY <2>1 DEF Inv, TypeOK
    <3> QED
      BY <2>1, <2>3, <3>1 DEF TypeNode
  <2> QED
    BY <1>8, <2>2, <2>3
<1>13. OwnKeys'
  <2> SUFFICES ASSUME NEW t \in Types, Out'[t] \notin {None, maps.doc[t]}
               PROVE  heap[Out'[t]].id = t
    BY <1>1, <1>5 DEF OwnKeys
  <2>1. owned /\ Out'[t] = maps.own[t] /\ Out'[t] = Out[t] /\ t \notin moved
    BY <1>5 DEF Out
  <2>2. CASE finished
    BY <2>1, <2>2 DEF Inv, OwnKeys
  <2>3. CASE ~finished
    BY <2>1, <2>3 DEF Moved
  <2> QED
    BY <2>2, <2>3
<1>14. Changing'
  BY <1>1 DEF Changing
<1> QED
  BY <1>6, <1>7, <1>10, <1>11, <1>12, <1>13, <1>14 DEF Inv

----------------------------------------------------------------------------
LEMMA StutterHolds ==
    ASSUME Inv, UNCHANGED vars
    PROVE  Inv'
<1>1. UNCHANGED typeVars /\ UNCHANGED <<running, intruded, finished, refused, made, told>>
  BY DEF vars, typeVars
<1>2. Present' /\ Apart' /\ OwnKeys' /\ NoIDAdded' /\ Out' = Out
  BY <1>1, TypesKept
<1>3. TypeOK' /\ Counted'
  BY <1>1 DEF Inv, TypeOK, Counted, typeVars
<1>4. Changing'
  BY <1>1, <1>2 DEF Inv, Changing, typeVars
<1> QED
  BY <1>2, <1>3, <1>4 DEF Inv

LEMMA NextHolds ==
    ASSUME Inv, [Next]_vars
    PROVE  Inv'
BY BeginTypeHolds, EndTypeHolds, ReplaceTypeHolds, BuildHolds, MoveHolds, RemoveTypeHolds,
   ReadNodeHolds, BeginNodeHolds, EndNodeHolds, PanicHolds, RemoveNodeHolds,
   FinishInsideHolds, FinishHolds, StutterHolds DEF Next

LEMMA InvHolds == Spec => []Inv
<1>1. Init => Inv
  BY InitHolds
<1>2. Inv /\ [Next]_vars => Inv'
  BY NextHolds
<1> QED
  BY <1>1, <1>2, PTL DEF Spec

\* Whatever the client calls and in whatever order, the result of an edit holds
\* each node the edit took at its own key, declares no ID the document did not,
\* and no refused call is lost between Finishes.
THEOREM EditIsSound == Spec => []EditSound
<1>1. Inv => EditSound
  BY DEF Inv, EditSound, Counted
<1> QED
  BY <1>1, InvHolds, PTL

----------------------------------------------------------------------------
(* What a step may never do *)

\* No step writes the document: its registry, or a node it holds.
LEMMA DocumentIsKept ==
    ASSUME Inv, Next
    PROVE  /\ maps'.doc = maps.doc
           /\ \A t \in Types : maps.doc[t] # None => heap'[maps.doc[t]] = heap[maps.doc[t]]
<1> DEFINE Goal == /\ maps'.doc = maps.doc
                   /\ \A t \in Types : maps.doc[t] # None => heap'[maps.doc[t]] = heap[maps.doc[t]]
<1>1. heap \in [Ptrs -> TypeNode \cup {None}] /\ maps.doc \in Registries /\ given \subseteq Ptrs
  BY OutIsARegistry DEF Inv, TypeOK
<1>2. ASSUME UNCHANGED typeVars PROVE Goal
  BY <1>2 DEF typeVars
<1>3. ASSUME heap' = heap, NEW id, NEW p, Write(id, p) PROVE Goal
  BY <1>3 DEF Write
<1>4. CASE EndType
  <2>1. CASE UNCHANGED <<heap, maps, owned, intruded>>
    BY <2>1
  <2>2. ASSUME NEW p \in Fresh, NEW next, heap' = [heap EXCEPT ![p] = next], Write(running.id, p)
        PROVE  Goal
    <3>1. p \in Ptrs /\ \A t \in Types : maps.doc[t] # p
      BY FreshIsFree
    <3>2. maps'.doc = maps.doc
      BY <2>2 DEF Write
    <3> QED
      BY <1>1, <2>2, <3>1, <3>2 DEF Registries
  <2> QED
    BY <1>4, <2>1, <2>2, Zenon DEF EndType
<1>5. CASE Build
  <2>1. PICK p \in Fresh : (\E new : heap' = [heap EXCEPT ![p] = new]) /\ maps' = maps
    BY <1>5 DEF Build
  <2>2. p \in Ptrs /\ \A t \in Types : maps.doc[t] # p
    BY FreshIsFree
  <2> QED
    BY <1>1, <2>1, <2>2 DEF Registries
<1>6. CASE Move
  <2>1. PICK p \in given : (\E new : heap' = [heap EXCEPT ![p] = new]) /\ maps' = maps
    BY <1>6 DEF Move
  <2>2. p \in Ptrs /\ \A t \in Types : maps.doc[t] # p
    BY <1>1 DEF Inv, Apart
  <2> QED
    BY <1>1, <2>1, <2>2 DEF Registries
<1>7. CASE ReplaceType \/ RemoveType
  BY <1>2, <1>3, <1>7 DEF ReplaceType, RemoveType, Refused
<1>8. CASE BeginType \/ ReadNode \/ BeginNode \/ EndNode \/ Panic \/ RemoveNode \/ FinishInside
  BY <1>2, <1>8 DEF BeginType, ReadNode, BeginNode, EndNode, Panic, RemoveNode, FinishInside,
     Refused
<1>9. CASE Finish
  BY <1>9 DEF Finish
<1> QED
  BY <1>4, <1>5, <1>6, <1>7, <1>8, <1>9 DEF Next

\* A change that was refused a call, or ended the edit, leaves nothing behind.
LEMMA IntruderChangesNothing ==
    ASSUME Inv, Next, running # None, running' = None, made > running.since
    PROVE  UNCHANGED <<heap, maps, tree, out>>
<1>1. intruded
  BY DEF Inv, Changing
<1>2. ~Open
  BY DEF Open
<1>3. CASE EndType
  BY <1>1, <1>3 DEF EndType
<1>4. CASE EndNode
  BY <1>1, <1>4 DEF EndNode, typeVars
<1>5. CASE Panic
  BY <1>5 DEF Panic, typeVars
<1>6. CASE Refused
  BY <1>6 DEF Refused
<1>7. CASE BeginType \/ BeginNode
  BY <1>2, <1>6, <1>7 DEF BeginType, BeginNode, Updatable, EntryAt, Only
<1>8. CASE ReplaceType \/ RemoveType \/ Build \/ Move \/ ReadNode \/ RemoveNode \/ FinishInside \/ Finish
  BY <1>6, <1>8 DEF ReplaceType, RemoveType, Build, Move, ReadNode, RemoveNode, FinishInside,
     Finish
<1> QED
  BY <1>3, <1>4, <1>5, <1>7, <1>8 DEF Next

\* The edit never writes the document it was given, and a change that was
\* refused a call changes nothing.
THEOREM WritesAreConfined == Spec => WritesConfined
<1> DEFINE A == /\ maps'.doc = maps.doc
                /\ \A t \in Types : maps.doc[t] # None => heap'[maps.doc[t]] = heap[maps.doc[t]]
                /\ running # None /\ running' = None /\ made > running.since
                      => UNCHANGED <<heap, maps, tree, out>>
<1>1. Inv /\ [Next]_vars => [A]_vars
  BY DocumentIsKept, IntruderChangesNothing
<1>2. Spec => [][A]_vars
  BY <1>1, InvHolds, PTL DEF Spec
<1> QED
  BY <1>2 DEF WritesConfined

----------------------------------------------------------------------------
(* The shape of the tree                                                   *)

LEMMA LeastOf ==
    ASSUME NEW T \in SUBSET Nat, T # {}
    PROVE  \E n \in T : \A m \in T : n <= m
<1> DEFINE R == OpToRel(<, Nat)
<1>1. IsWellFoundedOn(R, Nat)
  BY NatLessThanWellFounded
<1>2. \A x, y \in Nat : <<y, x>> \in R <=> y < x
  BY DEF OpToRel
<1> HIDE DEF R
<1>3. PICK x \in T : \A y \in T : ~(<<y, x>> \in R)
  BY <1>1, WFMin
<1>4. ASSUME NEW y \in T PROVE x <= y
  <2>1. x \in Nat /\ y \in Nat
    OBVIOUS
  <2>2. ~(y < x)
    BY <1>2, <1>3, <2>1, Zenon
  <2> QED
    BY <2>1, <2>2
<1> QED
  BY <1>4

LEMMA TreeFacts ==
    /\ Len(Tree) \in Nat /\ Nodes = 1 .. Len(Tree)
    /\ \A n \in Nodes : /\ Tree[n].parent \in Nat /\ Tree[n].parent < n
                        /\ Tree[n].parent = 0 \/ Tree[n].parent \in Nodes
                        /\ Tree[n].class \in {"service", "group", "operation"}
                        /\ Tree[n].class = "service" <=> Tree[n].parent = 0
                        /\ In(n) \in Lists
<1> DEFINE R == [parent : Nat, class : {"service", "group", "operation"}, id : STRING]
<1>1. Tree \in Seq(R)
  BY TreeOK
<1>2. Len(Tree) \in Nat /\ Nodes = 1 .. Len(Tree)
  BY <1>1 DEF Nodes
<1>3. \A n \in Nodes : Tree[n] \in R
  <2> HIDE DEF R
  <2> QED BY <1>1, <1>2
<1>4. ASSUME NEW n \in Nodes
      PROVE  /\ Tree[n].parent \in Nat /\ Tree[n].parent < n
             /\ Tree[n].parent = 0 \/ Tree[n].parent \in Nodes
             /\ Tree[n].class \in {"service", "group", "operation"}
             /\ Tree[n].class = "service" <=> Tree[n].parent = 0
  <2>1. Tree[n].parent \in Nat /\ Tree[n].class \in {"service", "group", "operation"}
    BY <1>3
  <2>2. Tree[n].parent < n /\ (Tree[n].class = "service" <=> Tree[n].parent = 0)
    BY TreeOK DEF Nodes
  <2> QED
    BY <1>2, <2>1, <2>2
<1>5. \A n \in Nodes : In(n) \in Lists
  BY <1>4 DEF In, Lists, ListOf
<1> QED
  BY <1>2, <1>4, <1>5

\* Induction on the nodes, from the first of the document or from the last.
LEMMA Downwards ==
    ASSUME NEW C \in SUBSET Nodes,
           \A n \in Nodes : (\A m \in Nodes : m < n => m \in C) => n \in C
    PROVE  C = Nodes
<1>1. SUFFICES ASSUME Nodes \ C # {} PROVE FALSE
  OBVIOUS
<1>2. Nodes \ C \in SUBSET Nat
  BY TreeFacts
<1>3. PICK n \in Nodes \ C : \A m \in Nodes \ C : n <= m
  BY <1>1, <1>2, LeastOf
<1>4. \A m \in Nodes : m < n => m \in C
  BY <1>2, <1>3, TreeFacts
<1> QED
  BY <1>3, <1>4

LEMMA Upwards ==
    ASSUME NEW C \in SUBSET Nodes,
           \A n \in Nodes : (\A m \in Nodes : m > n => m \in C) => n \in C
    PROVE  C = Nodes
<1> DEFINE L == Len(Tree)
           D == {k \in 1 .. L : L + 1 - k \notin C}
<1>0. L \in Nat /\ Nodes = 1 .. L
  BY TreeFacts
<1> HIDE DEF L
<1>1. SUFFICES ASSUME NEW x \in Nodes, x \notin C PROVE FALSE
  OBVIOUS
<1>2. D \in SUBSET Nat /\ D # {}
  <2>1. L + 1 - x \in 1 .. L /\ L + 1 - (L + 1 - x) = x
    BY <1>0, <1>1
  <2>2. L + 1 - x \in D
    BY <1>1, <2>1
  <2>3. 1 .. L \in SUBSET Nat
    BY <1>0
  <2> QED
    BY <2>2, <2>3
<1>3. PICK k \in D : \A j \in D : k <= j
  <2> HIDE DEF D
  <2> QED BY <1>2, LeastOf
<1>4. L + 1 - k \in Nodes /\ L + 1 - k \notin C
  BY <1>0, <1>3
<1>5. ASSUME NEW m \in Nodes, m > L + 1 - k PROVE m \in C
  <2>1. L + 1 - m \in 1 .. L /\ L + 1 - m < k /\ L + 1 - (L + 1 - m) = m
    BY <1>0, <1>3, <1>5
  <2>2. L + 1 - m \notin D
    <3>1. k \in Nat /\ L + 1 - m \in Nat /\ ~(k <= L + 1 - m)
      BY <1>0, <1>3, <2>1
    <3> HIDE DEF D
    <3> QED BY <1>3, <3>1
  <2> QED
    BY <2>1, <2>2
<1> QED
  BY <1>4, <1>5

\* The nodes on the path from a node to the services, and the recursion they
\* are defined by.
IsUp(g) == g = [n \in Nodes |-> {n} \cup (IF Tree[n].parent = 0 THEN {} ELSE g[Tree[n].parent])]
UpClosed(u) == \A k \in u : Tree[k].parent # 0 => Tree[k].parent \in u

LEMMA UpExists == \E g : IsUp(g)
<1> DEFINE g == [n \in Nodes |-> {k \in Nodes : \A u \in SUBSET Nodes : n \in u /\ UpClosed(u) => k \in u}]
           over(n) == {n} \cup (IF Tree[n].parent = 0 THEN {} ELSE g[Tree[n].parent])
<1>1. ASSUME NEW n \in Nodes PROVE g[n] \subseteq Nodes /\ UpClosed(g[n]) /\ n \in g[n]
  <2>1. UpClosed(g[n])
    <3> SUFFICES ASSUME NEW k \in g[n], Tree[k].parent # 0 PROVE Tree[k].parent \in g[n]
      BY DEF UpClosed
    <3>1. Tree[k].parent \in Nodes
      BY TreeFacts
    <3> QED
      BY <3>1 DEF UpClosed
  <2> QED
    BY <2>1
<1>2. ASSUME NEW n \in Nodes PROVE g[n] = over(n)
  <2>1. over(n) \in SUBSET Nodes
    BY <1>1, TreeFacts
  <2>2. UpClosed(over(n)) /\ n \in over(n)
    BY <1>1, TreeFacts DEF UpClosed
  <2>3. g[n] \subseteq over(n)
    BY <2>1, <2>2
  <2>4. ASSUME Tree[n].parent # 0, NEW k \in g[Tree[n].parent] PROVE k \in g[n]
    <3>1. Tree[n].parent \in Nodes
      BY <2>4, TreeFacts
    <3> QED
      BY <2>4, <3>1 DEF UpClosed
  <2> QED
    BY <1>1, <2>3, <2>4
<1>3. IsUp(g)
  BY <1>2 DEF IsUp
<1> QED
  BY <1>3

LEMMA UpUnfolds ==
    ASSUME NEW n \in Nodes
    PROVE  Up[n] = {n} \cup (IF Tree[n].parent = 0 THEN {} ELSE Up[Tree[n].parent])
<1>1. Up = CHOOSE g : IsUp(g)
  BY DEF Up, IsUp
<1>2. IsUp(Up)
  BY <1>1, UpExists, Zenon
<1> QED
  BY <1>2 DEF IsUp

LEMMA UpFacts ==
    ASSUME NEW n \in Nodes
    PROVE  /\ Up[n] \subseteq Nodes /\ n \in Up[n]
           /\ \A k \in Up[n] : k <= n /\ Up[k] \subseteq Up[n]
           /\ UpClosed(Up[n])
<1> DEFINE Good(m) == /\ Up[m] \subseteq Nodes /\ m \in Up[m]
                      /\ \A k \in Up[m] : k <= m /\ Up[k] \subseteq Up[m]
                      /\ UpClosed(Up[m])
           C == {m \in Nodes : Good(m)}
<1>1. ASSUME NEW m \in Nodes, \A k \in Nodes : k < m => k \in C PROVE m \in C
  <2>1. CASE Tree[m].parent = 0
    <3>1. Up[m] = {m}
      BY <2>1, UpUnfolds
    <3> QED
      BY <2>1, <3>1, TreeFacts DEF UpClosed
  <2>2. CASE Tree[m].parent # 0
    <3> DEFINE p == Tree[m].parent
    <3>1. p \in Nodes /\ p < m /\ p \in Nat /\ m \in Nat
      BY <2>2, TreeFacts
    <3>2. Up[m] = {m} \cup Up[p] /\ Good(p)
      BY <1>1, <2>2, <3>1, UpUnfolds
    <3>3. \A k \in Up[p] : k \in Nat /\ k <= m
      BY <3>1, <3>2, TreeFacts
    <3>4. Up[m] \subseteq Nodes /\ m \in Up[m] /\ \A k \in Up[m] : k <= m
      BY <3>1, <3>2, <3>3
    <3>5. \A k \in Up[m] : Up[k] \subseteq Up[m]
      BY <3>2
    <3>6. UpClosed(Up[m])
      BY <3>2 DEF UpClosed
    <3> QED
      BY <3>4, <3>5, <3>6
  <2> QED
    BY <2>1, <2>2
<1> HIDE DEF C
<1>2. C = Nodes
  <2>1. C \in SUBSET Nodes
    BY DEF C
  <2> QED
    BY <1>1, <2>1, Downwards
<1> QED
  BY <1>2 DEF C

\* The groups above a node.
Groups(n) == {m \in Up[n] : Tree[m].class = "group"}

LEMMA NodesFinite ==
    ASSUME NEW s \in SUBSET Nodes
    PROVE  IsFiniteSet(s) /\ Cardinality(s) \in Nat
<1>1. IsFiniteSet(Nodes)
  BY TreeFacts, FS_Interval
<1> QED
  BY <1>1, FS_Subset, FS_CardinalityType

LEMMA IndexedAbove ==
    ASSUME NEW n \in Indexed, NEW k \in Up[n]
    PROVE  k \in Indexed
<1>1. n \in Nodes /\ Cardinality(Groups(n)) <= MaxGroupDepth + 1
  BY DEF Indexed, Depth, Groups
<1>2. k \in Nodes /\ Up[k] \subseteq Up[n] /\ Up[n] \subseteq Nodes
  BY <1>1, UpFacts
<1>3. Groups(k) \subseteq Groups(n) /\ Groups(n) \in SUBSET Nodes /\ Groups(k) \in SUBSET Nodes
  BY <1>2 DEF Groups
<1>4. Cardinality(Groups(k)) <= Cardinality(Groups(n))
  BY <1>3, NodesFinite, FS_Subset
<1>5. Cardinality(Groups(k)) \in Nat /\ Cardinality(Groups(n)) \in Nat
  BY <1>3, NodesFinite
<1>6. Cardinality(Groups(k)) <= MaxGroupDepth + 1
  BY <1>1, <1>4, <1>5, DepthOK
<1> QED
  BY <1>2, <1>6 DEF Indexed, Depth, Groups

LEMMA GroupsUnfold ==
    ASSUME NEW n \in Nodes
    PROVE  Groups(n) = (IF Tree[n].class = "group" THEN {n} ELSE {})
                       \cup (IF Tree[n].parent = 0 THEN {} ELSE Groups(Tree[n].parent))
BY UpUnfolds DEF Groups

\* The nodes of a list lie within the cap together.
LEMMA SiblingsIndexed ==
    ASSUME NEW c \in Indexed, NEW d \in Nodes, In(c) = In(d)
    PROVE  d \in Indexed
<1>1. c \in Nodes /\ Cardinality(Groups(c)) <= MaxGroupDepth + 1
  BY DEF Indexed, Depth, Groups
<1> DEFINE p == Tree[c].parent
           above == IF p = 0 THEN {} ELSE Groups(p)
<1>2. Tree[d].parent = p /\ (Tree[c].class = "group" <=> Tree[d].class = "group")
  BY <1>1, TreeFacts DEF In, ListOf
<1>3. ASSUME NEW n \in {c, d}
      PROVE  Groups(n) = (IF Tree[n].class = "group" THEN {n} ELSE {}) \cup above
  <2>1. n \in Nodes /\ Tree[n].parent = p
    BY <1>1, <1>2
  <2> QED
    BY <2>1, GroupsUnfold
<1>4. above \in SUBSET Nodes /\ c \notin above /\ d \notin above
  <2>1. CASE p = 0
    BY <2>1
  <2>2. CASE p # 0
    <3>1. p \in Nodes /\ p \in Nat /\ p < c /\ p < d
      BY <1>1, <1>2, <2>2, TreeFacts
    <3>2. Up[p] \subseteq Nodes /\ \A k \in Up[p] : k <= p
      BY <3>1, UpFacts
    <3>3. above = {k \in Up[p] : Tree[k].class = "group"}
      BY <2>2 DEF Groups
    <3>4. c \in Nat /\ d \in Nat
      BY <1>1, TreeFacts
    <3> QED
      BY <3>1, <3>2, <3>3, <3>4
  <2> QED
    BY <2>1, <2>2
<1> HIDE DEF above
<1>5. IsFiniteSet(above)
  BY <1>4, NodesFinite
<1>6. Cardinality(Groups(c)) = Cardinality(Groups(d))
  <2>1. CASE Tree[c].class = "group"
    <3>1. Groups(c) = above \cup {c} /\ Groups(d) = above \cup {d}
      BY <1>2, <1>3, <2>1
    <3>2. Cardinality(above \cup {c}) = Cardinality(above) + 1
      BY <1>4, <1>5, FS_AddElement
    <3>3. Cardinality(above \cup {d}) = Cardinality(above) + 1
      BY <1>4, <1>5, FS_AddElement
    <3> QED
      BY <3>1, <3>2, <3>3
  <2>2. CASE Tree[c].class # "group"
    BY <1>2, <1>3, <2>2
  <2> QED
    BY <2>1, <2>2
<1> QED
  BY <1>1, <1>6 DEF Indexed, Depth, Groups

LEMMA ServicesIndexed ==
    ASSUME NEW c \in Nodes, Tree[c].parent = 0
    PROVE  c \in Indexed /\ Up[c] = {c}
<1>1. Tree[c].class # "group"
  BY TreeFacts
<1>2. Groups(c) = {}
  BY <1>1, GroupsUnfold
<1>3. Cardinality(Groups(c)) <= MaxGroupDepth + 1
  BY <1>2, FS_EmptySet, DepthOK
<1> QED
  BY <1>3, UpUnfolds DEF Indexed, Depth, Groups

----------------------------------------------------------------------------
(* Nodes in document order                                                 *)

Ascends(q, s) == /\ q \in [1 .. Cardinality(s) -> s]
                 /\ \A i, j \in 1 .. Cardinality(s) : i < j => q[i] < q[j]

LEMMA OrderExists ==
    ASSUME NEW s \in SUBSET Nodes
    PROVE  \E q : Ascends(q, s)
<1> DEFINE Sizes == {k \in Nat : \E u \in SUBSET Nodes : Cardinality(u) = k /\ ~\E q : Ascends(q, u)}
<1>1. SUFFICES ASSUME ~\E q : Ascends(q, s) PROVE FALSE
  OBVIOUS
<1>2. Cardinality(s) \in Sizes
  BY <1>1, NodesFinite
<1>3. PICK k \in Sizes : \A j \in Sizes : k <= j
  <2>1. Sizes \in SUBSET Nat
    OBVIOUS
  <2> HIDE DEF Sizes
  <2> QED BY <1>2, <2>1, LeastOf
<1>4. PICK u \in SUBSET Nodes : Cardinality(u) = k /\ ~\E q : Ascends(q, u)
  BY <1>3
<1>5. k \in Nat /\ IsFiniteSet(u)
  BY <1>3, NodesFinite
<1>6. u # {}
  <2>1. SUFFICES ASSUME u = {} PROVE \E q : Ascends(q, u)
    BY <1>4
  <2>2. Cardinality(u) = 0
    BY <2>1, FS_EmptySet
  <2>3. Ascends([i \in 1 .. 0 |-> 0], u)
    BY <2>2 DEF Ascends
  <2> QED BY <2>3
<1>7. PICK x \in u : \A y \in u : x <= y
  <2>1. u \in SUBSET Nat
    BY TreeFacts
  <2> QED BY <1>6, <2>1, LeastOf
<1>8. Cardinality(u \ {x}) = k - 1 /\ k - 1 \in Nat
  <2>1. Cardinality(u \ {x}) = k - 1
    BY <1>4, <1>5, <1>7, FS_RemoveElement
  <2>2. u \ {x} \in SUBSET Nodes
    OBVIOUS
  <2>3. Cardinality(u \ {x}) \in Nat
    BY <2>2, NodesFinite
  <2> QED BY <2>1, <2>3
<1>9. PICK q : Ascends(q, u \ {x})
  <2>1. k - 1 \notin Sizes
    <3> HIDE DEF Sizes
    <3> QED BY <1>3, <1>5, <1>8
  <2>2. u \ {x} \in SUBSET Nodes
    OBVIOUS
  <2> QED BY <1>8, <2>1, <2>2
<1> DEFINE r == [i \in 1 .. k |-> IF i = 1 THEN x ELSE q[i - 1]]
<1>10. q \in [1 .. (k - 1) -> u \ {x}] /\ \A i, j \in 1 .. (k - 1) : i < j => q[i] < q[j]
  BY <1>8, <1>9 DEF Ascends
<1>11. ASSUME NEW i \in 1 .. k, i # 1 PROVE i - 1 \in 1 .. (k - 1) /\ q[i - 1] \in u \ {x}
  <2>1. i - 1 \in 1 .. (k - 1)
    BY <1>5, <1>11
  <2> QED BY <1>10, <2>1
<1>12. r \in [1 .. k -> u]
  BY <1>7, <1>11
<1>13. ASSUME NEW i \in 1 .. k, NEW j \in 1 .. k, i < j PROVE r[i] < r[j]
  <2>1. j # 1 /\ i \in Nat /\ j \in Nat
    BY <1>5, <1>13
  <2>2. r[j] = q[j - 1] /\ r[j] \in u \ {x}
    BY <1>11, <2>1
  <2>3. x \in Nat /\ r[j] \in Nat
    BY <1>7, <2>2, TreeFacts
  <2>4. CASE i = 1
    BY <1>7, <2>2, <2>3, <2>4
  <2>5. CASE i # 1
    <3>1. i - 1 \in 1 .. (k - 1) /\ j - 1 \in 1 .. (k - 1) /\ i - 1 < j - 1
      BY <1>11, <1>13, <2>1, <2>5
    <3>2. q[i - 1] < q[j - 1]
      BY <1>10, <3>1
    <3> QED BY <2>2, <2>5, <3>2
  <2> QED BY <2>4, <2>5
<1>14. Ascends(r, u)
  <2> HIDE DEF r
  <2> QED BY <1>4, <1>12, <1>13 DEF Ascends
<1> QED
  BY <1>4, <1>14

LEMMA InOrderIn ==
    ASSUME NEW s \in SUBSET Nodes
    PROVE  InOrder(s) \in [1 .. Cardinality(s) -> s]
<1>1. \E q \in [1 .. Cardinality(s) -> s] : \A i, j \in 1 .. Cardinality(s) : i < j => q[i] < q[j]
  BY OrderExists, Zenon DEF Ascends
<1> QED
  BY <1>1, Zenon DEF InOrder

LEMMA LeftIn ==
    ASSUME NEW n \in Nodes \cup {0}, NEW list \in {"groups", "operations"}, NEW gone,
           NEW i \in DOMAIN Left(n, list, gone)
    PROVE  LET c == Left(n, list, gone)[i]
           IN  c \in Nodes /\ c \notin gone /\ In(c) = <<n, list>> /\ Tree[c].parent = n /\ n < c
<1> DEFINE s == {c \in Nodes : In(c) = <<n, list>>} \ gone
<1>1. Left(n, list, gone) = InOrder(s)
  BY DEF Left, ChildrenOf, Lists
<1>2. s \in SUBSET Nodes
  OBVIOUS
<1>3. Left(n, list, gone)[i] \in s
  <2> HIDE DEF s
  <2> QED BY <1>1, <1>2, InOrderIn
<1> QED
  BY <1>3, TreeFacts DEF In

----------------------------------------------------------------------------
(* Values built from the last node to the first                            *)

\* A node's value from the values f of the nodes in its lists: what head says of
\* it, with the lists in fresh made of the nodes kids names.
Made(head, fresh, kids, f, n) ==
    [id |-> head[n].id, ver |-> head[n].ver,
     groups |-> IF <<n, "groups">> \in fresh THEN Values(f, kids[<<n, "groups">>]) ELSE head[n].groups,
     operations |-> IF <<n, "operations">> \in fresh THEN Values(f, kids[<<n, "operations">>])
                    ELSE head[n].operations]

\* Every list names nodes after the one it is a list of.
Later(kids) == \A n \in Nodes : \A list \in {"groups", "operations"} :
                 \A i \in DOMAIN kids[<<n, list>>] :
                   kids[<<n, list>>][i] \in Nodes /\ n < kids[<<n, list>>][i]

\* The value of a node depends on later nodes alone.
LEMMA MadeOfLater ==
    ASSUME NEW head, NEW fresh, NEW kids, Later(kids), NEW n \in Nodes, NEW f, NEW g,
           \A m \in Nodes : n < m => f[m] = g[m]
    PROVE  Made(head, fresh, kids, f, n) = Made(head, fresh, kids, g, n)
<1>1. ASSUME NEW list \in {"groups", "operations"}
      PROVE  Values(f, kids[<<n, list>>]) = Values(g, kids[<<n, list>>])
  BY DEF Values, Later
<1>2. /\ Values(f, kids[<<n, "groups">>]) = Values(g, kids[<<n, "groups">>])
      /\ Values(f, kids[<<n, "operations">>]) = Values(g, kids[<<n, "operations">>])
  BY <1>1
<1> QED
  BY <1>2, Zenon DEF Made

LEMMA MadeExists ==
    ASSUME NEW head, NEW fresh, NEW kids, Later(kids)
    PROVE  \E g : g = [n \in Nodes |-> Made(head, fresh, kids, g, n)]
<1> DEFINE L == Len(Tree)
           From(m, f) == f = [n \in Nodes |-> IF m <= n THEN Made(head, fresh, kids, f, n) ELSE 0]
           T == {m \in 1 .. (L + 1) : \E f : From(m, f)}
<1>0. L \in Nat /\ Nodes = 1 .. L
  BY TreeFacts
<1> HIDE DEF L
<1>1. L + 1 \in T
  <2>1. From(L + 1, [n \in Nodes |-> 0])
    BY <1>0
  <2>2. L + 1 \in 1 .. (L + 1)
    BY <1>0
  <2> HIDE DEF From
  <2> QED BY <2>1, <2>2
<1>2. PICK m \in T : \A k \in T : m <= k
  <2>1. T \in SUBSET Nat
    BY <1>0
  <2> HIDE DEF T
  <2> QED BY <1>1, <2>1, LeastOf
<1>3. PICK f : From(m, f)
  BY <1>2
<1>4. m \in 1 .. (L + 1) /\ m \in Nat
  BY <1>0, <1>2
<1>5. CASE m = 1
  <2>1. f = [n \in Nodes |-> Made(head, fresh, kids, f, n)]
    <3>1. \A n \in Nodes : 1 <= n
      BY <1>0
    <3> QED BY <1>3, <1>5, <3>1
  <2> QED BY <2>1
<1>6. CASE m # 1
  <2> DEFINE b == m - 1
             g == [n \in Nodes |-> IF n = b THEN Made(head, fresh, kids, f, b) ELSE f[n]]
  <2>1. b \in Nodes /\ b \in 1 .. (L + 1) /\ ~(m <= b)
    BY <1>0, <1>4, <1>6
  <2>2. ASSUME NEW n \in Nodes, b <= n PROVE Made(head, fresh, kids, g, n) = Made(head, fresh, kids, f, n)
    <3>1. \A k \in Nodes : n < k => g[k] = f[k]
      BY <1>0, <1>4, <2>1, <2>2
    <3> HIDE DEF g
    <3> QED BY <3>1, MadeOfLater
  <2>3. ASSUME NEW n \in Nodes
        PROVE  g[n] = IF b <= n THEN Made(head, fresh, kids, g, n) ELSE 0
    <3>1. CASE n = b
      <4>1. g[n] = Made(head, fresh, kids, f, n)
        BY <3>1
      <4>2. b <= n
        BY <1>4, <3>1
      <4> HIDE DEF g, b
      <4> QED BY <2>2, <4>1, <4>2
    <3>2. CASE n # b
      <4>1. g[n] = f[n] /\ f[n] = IF m <= n THEN Made(head, fresh, kids, f, n) ELSE 0
        BY <1>3, <3>2
      <4>2. (m <= n) <=> (b <= n)
        BY <1>0, <1>4, <3>2
      <4> HIDE DEF g, b
      <4> QED BY <2>2, <4>1, <4>2
    <3> QED BY <3>1, <3>2
  <2>4. From(b, g)
    <3>1. g = [n \in Nodes |-> g[n]]
      OBVIOUS
    <3> HIDE DEF g, b
    <3> QED BY <2>3, <3>1
  <2>5. b \in T
    <3> HIDE DEF From, g, b
    <3> QED BY <2>1, <2>4
  <2>6. m <= b
    <3> HIDE DEF T, b
    <3> QED BY <1>2, <2>5
  <2> QED BY <2>1, <2>6
<1> QED
  BY <1>5, <1>6

\* The nodes left in each list.
KidsOf(gone) == [l \in Lists |-> Left(l[1], l[2], gone)]

LEMMA KidsLater ==
    ASSUME NEW gone
    PROVE  /\ Later(KidsOf(gone))
           /\ \A n \in Nodes \cup {0} : \A list \in {"groups", "operations"} :
                KidsOf(gone)[<<n, list>>] = Left(n, list, gone)
<1>1. ASSUME NEW n \in Nodes \cup {0}, NEW list \in {"groups", "operations"}
      PROVE  KidsOf(gone)[<<n, list>>] = Left(n, list, gone)
  <2>1. <<n, list>> \in Lists /\ <<n, list>>[1] = n /\ <<n, list>>[2] = list
    BY DEF Lists
  <2> QED BY <2>1, Zenon DEF KidsOf
<1>2. Later(KidsOf(gone))
  <2> SUFFICES ASSUME NEW n \in Nodes, NEW list \in {"groups", "operations"},
                      NEW i \in DOMAIN KidsOf(gone)[<<n, list>>]
               PROVE  KidsOf(gone)[<<n, list>>][i] \in Nodes /\ n < KidsOf(gone)[<<n, list>>][i]
    BY DEF Later
  <2>1. KidsOf(gone)[<<n, list>>] = Left(n, list, gone)
    BY <1>1
  <2> QED BY <2>1, LeftIn
<1> QED
  BY <1>1, <1>2

IsOriginal(g) ==
    g = [n \in Nodes |-> [id |-> Tree[n].id, ver |-> 0,
                          groups |-> Values(g, Left(n, "groups", {})),
                          operations |-> Values(g, Left(n, "operations", {}))]]

LEMMA OriginalUnfolds == IsOriginal(Original)
<1> DEFINE head == [n \in Nodes |-> [id |-> Tree[n].id, ver |-> 0]]
<1>1. PICK g : g = [n \in Nodes |-> Made(head, Lists, KidsOf({}), g, n)]
  BY KidsLater, MadeExists
<1>2. ASSUME NEW n \in Nodes
      PROVE  Made(head, Lists, KidsOf({}), g, n)
               = [id |-> Tree[n].id, ver |-> 0,
                  groups |-> Values(g, Left(n, "groups", {})),
                  operations |-> Values(g, Left(n, "operations", {}))]
  <2>1. <<n, "groups">> \in Lists /\ <<n, "operations">> \in Lists
    BY DEF Lists
  <2>2. /\ KidsOf({})[<<n, "groups">>] = Left(n, "groups", {})
        /\ KidsOf({})[<<n, "operations">>] = Left(n, "operations", {})
    BY KidsLater
  <2>3. head[n].id = Tree[n].id /\ head[n].ver = 0
    OBVIOUS
  <2> HIDE DEF head
  <2> QED BY <2>1, <2>2, <2>3, Zenon DEF Made
<1>3. IsOriginal(g)
  BY <1>1, <1>2 DEF IsOriginal
<1>4. Original = CHOOSE h : IsOriginal(h)
  BY DEF Original, IsOriginal
<1> QED
  BY <1>3, <1>4, Zenon

\* What a read gives, list by list.
Past(t) == t.removed \cup (Nodes \ Indexed)
IsValue(t, g) ==
    g = [n \in Nodes |-> [id |-> t.val[n].id, ver |-> t.val[n].ver,
            groups |-> IF <<n, "groups">> \in t.stale THEN Values(g, Left(n, "groups", Past(t)))
                       ELSE t.val[n].groups,
            operations |-> IF <<n, "operations">> \in t.stale THEN Values(g, Left(n, "operations", Past(t)))
                           ELSE t.val[n].operations]]

LEMMA ValueUnfolds ==
    ASSUME NEW t
    PROVE  IsValue(t, Value(t))
<1>1. PICK g : g = [n \in Nodes |-> Made(t.val, t.stale, KidsOf(Past(t)), g, n)]
  BY KidsLater, MadeExists
<1>2. ASSUME NEW n \in Nodes
      PROVE  Made(t.val, t.stale, KidsOf(Past(t)), g, n)
               = [id |-> t.val[n].id, ver |-> t.val[n].ver,
            groups |-> IF <<n, "groups">> \in t.stale THEN Values(g, Left(n, "groups", Past(t)))
                       ELSE t.val[n].groups,
            operations |-> IF <<n, "operations">> \in t.stale THEN Values(g, Left(n, "operations", Past(t)))
                           ELSE t.val[n].operations]
  <2>2. /\ KidsOf(Past(t))[<<n, "groups">>] = Left(n, "groups", Past(t))
        /\ KidsOf(Past(t))[<<n, "operations">>] = Left(n, "operations", Past(t))
    BY KidsLater
  <2> QED BY <2>2, Zenon DEF Made
<1>3. IsValue(t, g)
  BY <1>1, <1>2 DEF IsValue
<1>4. Value(t) = CHOOSE h : IsValue(t, h)
  BY DEF Value, IsValue, Past
<1> QED
  BY <1>3, <1>4, Zenon

\* The tree as edited, of any state of it.
IsEdited(t, g) ==
    g = [n \in Nodes |-> IF n \notin Indexed THEN Original[n]
                         ELSE [id |-> Tree[n].id, ver |-> t.val[n].ver,
                               groups |-> Values(g, Left(n, "groups", t.removed)),
                               operations |-> Values(g, Left(n, "operations", t.removed))]]
EditedOf(t) == CHOOSE g : IsEdited(t, g)

LEMMA EditedUnfolds ==
    ASSUME NEW t
    PROVE  IsEdited(t, EditedOf(t))
<1> DEFINE head == [n \in Nodes |-> IF n \notin Indexed THEN Original[n]
                                    ELSE [id |-> Tree[n].id, ver |-> t.val[n].ver]]
           fresh == {l \in Lists : l[1] \in Indexed}
<1>1. PICK g : g = [n \in Nodes |-> Made(head, fresh, KidsOf(t.removed), g, n)]
  <2> HIDE DEF head, fresh
  <2> QED BY KidsLater, MadeExists
<1>2. ASSUME NEW n \in Nodes
      PROVE  Made(head, fresh, KidsOf(t.removed), g, n)
               = IF n \notin Indexed THEN Original[n]
                 ELSE [id |-> Tree[n].id, ver |-> t.val[n].ver,
                       groups |-> Values(g, Left(n, "groups", t.removed)),
                       operations |-> Values(g, Left(n, "operations", t.removed))]
  <2>1. /\ <<n, "groups">> \in fresh <=> n \in Indexed
        /\ <<n, "operations">> \in fresh <=> n \in Indexed
    BY DEF Lists
  <2>2. /\ KidsOf(t.removed)[<<n, "groups">>] = Left(n, "groups", t.removed)
        /\ KidsOf(t.removed)[<<n, "operations">>] = Left(n, "operations", t.removed)
    BY KidsLater
  <2>3. CASE n \in Indexed
    <3>1. head[n].id = Tree[n].id /\ head[n].ver = t.val[n].ver
      BY <2>3
    <3> HIDE DEF head, fresh
    <3> QED BY <2>1, <2>2, <2>3, <3>1, Zenon DEF Made
  <2>4. CASE n \notin Indexed
    <3>1. Original[n] = [id |-> Original[n].id, ver |-> Original[n].ver,
                         groups |-> Original[n].groups, operations |-> Original[n].operations]
      BY OriginalUnfolds DEF IsOriginal
    <3>2. head[n] = Original[n]
      BY <2>4
    <3> HIDE DEF head, fresh
    <3> QED BY <2>1, <2>4, <3>1, <3>2, Zenon DEF Made
  <2> QED BY <2>3, <2>4
<1>3. IsEdited(t, g)
  <2> HIDE DEF head, fresh
  <2> QED BY <1>1, <1>2 DEF IsEdited
<1> QED
  BY <1>3, Zenon DEF EditedOf

LEMMA EditedIs == Edited = EditedOf(tree)
BY DEF Edited, EditedOf, IsEdited

----------------------------------------------------------------------------
(* What a tree keeps, and what a read gives then                           *)

TwoLists == {"groups", "operations"}

\* LeftIn, of every node left at once.
LEMMA LeftOf ==
    ASSUME NEW n \in Nodes \cup {0}, NEW list \in TwoLists, NEW gone
    PROVE  \A i \in DOMAIN Left(n, list, gone) :
             /\ Left(n, list, gone)[i] \in Nodes
             /\ Left(n, list, gone)[i] \notin gone
             /\ In(Left(n, list, gone)[i]) = <<n, list>>
             /\ Tree[Left(n, list, gone)[i]].parent = n
             /\ n < Left(n, list, gone)[i]
<1>1. list \in {"groups", "operations"}
  BY DEF TwoLists
<1> QED
  BY <1>1, LeftIn

\* What it is made of.  A list goes stale for a node within the cap.
Formed(t) ==
    /\ t = [read |-> t.read, val |-> t.val, stale |-> t.stale, removed |-> t.removed]
    /\ t.val = [n \in Nodes |-> t.val[n]]
    /\ \A n \in Nodes : t.val[n] = [id |-> Tree[n].id, ver |-> t.val[n].ver,
                                     groups |-> t.val[n].groups, operations |-> t.val[n].operations]
    /\ t.removed \subseteq Indexed
    /\ \A l \in t.stale : \E c \in Indexed : In(c) = l

\* A stale list of a held node makes the list the node is in stale.
Traced(t) == \A l \in t.stale : l[1] # 0 /\ HeldNode(t, l[1]) => In(l[1]) \in t.stale

\* The list of a held node that is not stale is the one edited.
EditedList(t, n, list) == Values(EditedOf(t), Left(n, list, t.removed))
Fits(t) ==
    \A n \in Indexed : HeldNode(t, n) =>
      /\ <<n, "groups">> \notin t.stale => t.val[n].groups = EditedList(t, n, "groups")
      /\ <<n, "operations">> \notin t.stale => t.val[n].operations = EditedList(t, n, "operations")

TreeGood(t) == Formed(t) /\ Traced(t) /\ Fits(t)

LEMMA StaleLeft ==
    ASSUME NEW t, Formed(t), NEW n, NEW list, <<n, list>> \in t.stale
    PROVE  /\ n \in Indexed \cup {0} /\ list \in TwoLists
           /\ Left(n, list, Past(t)) = Left(n, list, t.removed)
<1>1. PICK c \in Indexed : In(c) = <<n, list>>
  BY DEF Formed
<1>2. c \in Nodes
  BY DEF Indexed
<1>3. n = Tree[c].parent /\ <<n, list>> \in Lists /\ list \in TwoLists
  BY <1>1, <1>2, TreeFacts DEF In, ListOf, TwoLists
<1>4. n \in Indexed \cup {0}
  <2>1. CASE n = 0
    BY <2>1
  <2>2. CASE n # 0
    <3>1. Up[c] = {c} \cup Up[n] /\ n \in Nodes
      BY <1>2, <1>3, <2>2, UpUnfolds, TreeFacts
    <3>2. n \in Up[c]
      BY <3>1, UpFacts
    <3> QED BY <3>2, IndexedAbove
  <2> QED BY <2>1, <2>2
<1>5. \A d \in Nodes : In(d) = <<n, list>> => d \in Indexed
  BY <1>1, SiblingsIndexed
<1>6. ChildrenOf[<<n, list>>] = {d \in Nodes : In(d) = <<n, list>>}
  BY <1>3 DEF ChildrenOf
<1>7. ChildrenOf[<<n, list>>] \ Past(t) = ChildrenOf[<<n, list>>] \ t.removed
  BY <1>5, <1>6 DEF Past
<1> QED
  BY <1>3, <1>4, <1>7 DEF Left

\* A node left in a stale list of a held one is held too, and within the cap.
LEMMA LeftHeld ==
    ASSUME NEW t, Formed(t), NEW n \in Nodes \cup {0}, NEW list \in TwoLists, <<n, list>> \in t.stale,
           n # 0 => HeldNode(t, n),
           NEW i \in DOMAIN Left(n, list, t.removed)
    PROVE  LET c == Left(n, list, t.removed)[i]
           IN  c \in Indexed /\ HeldNode(t, c) /\ n < c
<1> DEFINE c == Left(n, list, t.removed)[i]
<1>1. c \in Nodes /\ c \notin t.removed /\ In(c) = <<n, list>> /\ Tree[c].parent = n /\ n < c
  BY LeftOf
<1> HIDE DEF c
<1>2. c \in Indexed
  <2>1. PICK d \in Indexed : In(d) = <<n, list>>
    BY DEF Formed
  <2> QED BY <1>1, <2>1, SiblingsIndexed
<1>3. HeldNode(t, c)
  BY <1>1, UpUnfolds DEF HeldNode
<1> QED
  BY <1>1, <1>2, <1>3 DEF c

LEMMA ValueIsEdited ==
    ASSUME NEW t, TreeGood(t), NEW k \in Indexed, HeldNode(t, k)
    PROVE  Value(t)[k] = EditedOf(t)[k]
<1> DEFINE C == {n \in Nodes : n \in Indexed /\ HeldNode(t, n) => Value(t)[n] = EditedOf(t)[n]}
<1>0. Formed(t) /\ Fits(t)
  BY DEF TreeGood
<1>1. ASSUME NEW n \in Nodes, \A m \in Nodes : m > n => m \in C PROVE n \in C
  <2>1. SUFFICES ASSUME n \in Indexed, HeldNode(t, n) PROVE Value(t)[n] = EditedOf(t)[n]
    OBVIOUS
  <2>2. ASSUME NEW list \in TwoLists, <<n, list>> \in t.stale
        PROVE  Values(Value(t), Left(n, list, Past(t))) = EditedList(t, n, list)
    <3>1. Left(n, list, Past(t)) = Left(n, list, t.removed)
      BY <1>0, <2>2, StaleLeft
    <3>2. ASSUME NEW i \in DOMAIN Left(n, list, t.removed)
          PROVE  Value(t)[Left(n, list, t.removed)[i]] = EditedOf(t)[Left(n, list, t.removed)[i]]
      <4> DEFINE c == Left(n, list, t.removed)[i]
      <4>1. c \in Indexed /\ HeldNode(t, c) /\ n < c
        BY <1>0, <2>1, <2>2, LeftHeld
      <4>2. c \in Nodes /\ c \in Nat /\ n \in Nat
        BY <4>1, TreeFacts DEF Indexed
      <4>3. c > n
        BY <4>1, <4>2
      <4>4. c \in C
        BY <1>1, <4>2, <4>3
      <4> QED BY <4>1, <4>4
    <3> QED BY <3>1, <3>2, Zenon DEF EditedList, Values
  <2>3. /\ <<n, "groups">> \in t.stale =>
              Values(Value(t), Left(n, "groups", Past(t))) = EditedList(t, n, "groups")
        /\ <<n, "operations">> \in t.stale =>
              Values(Value(t), Left(n, "operations", Past(t))) = EditedList(t, n, "operations")
    BY <2>2 DEF TwoLists
  <2>4. /\ <<n, "groups">> \notin t.stale => t.val[n].groups = EditedList(t, n, "groups")
        /\ <<n, "operations">> \notin t.stale => t.val[n].operations = EditedList(t, n, "operations")
    BY <1>0, <2>1 DEF Fits
  <2>5. Value(t)[n] = [id |-> t.val[n].id, ver |-> t.val[n].ver,
            groups |-> IF <<n, "groups">> \in t.stale THEN Values(Value(t), Left(n, "groups", Past(t)))
                       ELSE t.val[n].groups,
            operations |-> IF <<n, "operations">> \in t.stale THEN Values(Value(t), Left(n, "operations", Past(t)))
                           ELSE t.val[n].operations]
    BY ValueUnfolds, Zenon DEF IsValue
  <2>6. EditedOf(t)[n] = [id |-> Tree[n].id, ver |-> t.val[n].ver,
                          groups |-> EditedList(t, n, "groups"),
                          operations |-> EditedList(t, n, "operations")]
    BY <2>1, EditedUnfolds, Zenon DEF IsEdited, EditedList
  <2>7. t.val[n].id = Tree[n].id
    <3>1. t.val[n] = [id |-> Tree[n].id, ver |-> t.val[n].ver,
                      groups |-> t.val[n].groups, operations |-> t.val[n].operations]
      BY <1>0, Zenon DEF Formed
    <3> QED BY <3>1
  <2> QED BY <2>3, <2>4, <2>5, <2>6, <2>7, Zenon
<1>2. C \in SUBSET Nodes
  OBVIOUS
<1> HIDE DEF C
<1>3. C = Nodes
  BY <1>1, <1>2, Upwards
<1> QED
  BY <1>3 DEF C, Indexed

----------------------------------------------------------------------------
(* A tree just read from the document                                      *)

LEMMA IndexIsOriginal == \A n \in Nodes : EditedOf(Index)[n] = Original[n]
<1> DEFINE C == {n \in Nodes : EditedOf(Index)[n] = Original[n]}
<1>0. Index.removed = {} /\ \A n \in Nodes : Index.val[n].ver = 0
  BY OriginalUnfolds DEF Index, IsOriginal
<1>1. ASSUME NEW n \in Nodes, \A m \in Nodes : m > n => m \in C PROVE n \in C
  <2>1. CASE n \notin Indexed
    BY <2>1, EditedUnfolds DEF IsEdited
  <2>2. CASE n \in Indexed
    <3>1. ASSUME NEW list \in TwoLists
          PROVE  Values(EditedOf(Index), Left(n, list, {})) = Values(Original, Left(n, list, {}))
      <4>1. ASSUME NEW i \in DOMAIN Left(n, list, {})
            PROVE  EditedOf(Index)[Left(n, list, {})[i]] = Original[Left(n, list, {})[i]]
        <5> DEFINE c == Left(n, list, {})[i]
        <5>1. c \in Nodes /\ n < c
          BY LeftOf
        <5>2. c > n
          BY <5>1, TreeFacts
        <5> QED BY <1>1, <5>1, <5>2
      <4> QED BY <4>1, Zenon DEF Values
    <3>2. /\ Values(EditedOf(Index), Left(n, "groups", {})) = Values(Original, Left(n, "groups", {}))
          /\ Values(EditedOf(Index), Left(n, "operations", {})) = Values(Original, Left(n, "operations", {}))
      BY <3>1 DEF TwoLists
    <3>3. EditedOf(Index)[n] = [id |-> Tree[n].id, ver |-> 0,
                                groups |-> Values(EditedOf(Index), Left(n, "groups", {})),
                                operations |-> Values(EditedOf(Index), Left(n, "operations", {}))]
      <4>1. EditedOf(Index)[n] = [id |-> Tree[n].id, ver |-> Index.val[n].ver,
                                  groups |-> Values(EditedOf(Index), Left(n, "groups", Index.removed)),
                                  operations |-> Values(EditedOf(Index), Left(n, "operations", Index.removed))]
        BY <2>2, EditedUnfolds, Zenon DEF IsEdited
      <4> QED BY <1>0, <4>1
    <3>4. Original[n] = [id |-> Tree[n].id, ver |-> 0,
                         groups |-> Values(Original, Left(n, "groups", {})),
                         operations |-> Values(Original, Left(n, "operations", {}))]
      BY OriginalUnfolds, Zenon DEF IsOriginal
    <3>5. EditedOf(Index)[n] = Original[n]
      BY <3>2, <3>3, <3>4, Zenon
    <3> QED BY <3>5
  <2> QED BY <2>1, <2>2
<1>2. C \in SUBSET Nodes
  OBVIOUS
<1> HIDE DEF C
<1>3. C = Nodes
  BY <1>1, <1>2, Upwards
<1> QED
  BY <1>3 DEF C

\* The two trees before an edit: read or not.
LEMMA EditedAlike ==
    ASSUME NEW t, NEW u, t.removed = u.removed, \A n \in Nodes : t.val[n].ver = u.val[n].ver
    PROVE  EditedOf(t) = EditedOf(u)
<1>1. ASSUME NEW g PROVE IsEdited(t, g) <=> IsEdited(u, g)
  BY DEF IsEdited
<1> QED
  BY <1>1, Zenon DEF EditedOf

LEMMA IndexGood ==
    ASSUME NEW t, t = [read |-> t.read, val |-> Index.val, stale |-> {}, removed |-> {}]
    PROVE  TreeGood(t) /\ Services0 = EditedList(t, 0, "groups")
<1> DEFINE v == Index.val
<1> HIDE DEF v
<1>1. t.val = v /\ t.stale = {} /\ t.removed = {}
  <2>1. t = [read |-> t.read, val |-> v, stale |-> {}, removed |-> {}]
    BY DEF v
  <2> QED BY <2>1
<1>2. v = [n \in Nodes |-> Original[n]] /\ Index.val = v /\ Index.removed = {}
  BY DEF Index, v
<1>3. ASSUME NEW n \in Nodes
      PROVE  Original[n] = [id |-> Tree[n].id, ver |-> 0,
                            groups |-> Values(Original, Left(n, "groups", {})),
                            operations |-> Values(Original, Left(n, "operations", {}))]
  BY OriginalUnfolds, Zenon DEF IsOriginal
<1>4. EditedOf(t) = EditedOf(Index)
  BY <1>1, <1>2, EditedAlike
<1>5. ASSUME NEW n \in Nodes \cup {0}, NEW list \in TwoLists
      PROVE  Values(Original, Left(n, list, {})) = EditedList(t, n, list)
  <2>1. ASSUME NEW i \in DOMAIN Left(n, list, {})
        PROVE  EditedOf(Index)[Left(n, list, {})[i]] = Original[Left(n, list, {})[i]]
    <3>1. Left(n, list, {})[i] \in Nodes
      BY LeftOf
    <3> QED BY <3>1, IndexIsOriginal
  <2> QED BY <1>1, <1>4, <2>1, Zenon DEF Values, EditedList
<1>6. Formed(t)
  <2>1. t.val = [n \in Nodes |-> t.val[n]]
    BY <1>1, <1>2
  <2>2. ASSUME NEW n \in Nodes
        PROVE  t.val[n] = [id |-> Tree[n].id, ver |-> t.val[n].ver,
                           groups |-> t.val[n].groups, operations |-> t.val[n].operations]
    <3> DEFINE g == Values(Original, Left(n, "groups", {}))
               o == Values(Original, Left(n, "operations", {}))
    <3>1. t.val[n] = [id |-> Tree[n].id, ver |-> 0, groups |-> g, operations |-> o]
      <4>1. t.val[n] = Original[n]
        BY <1>1, <1>2
      <4> QED BY <1>3, <4>1, Zenon
    <3> HIDE DEF g, o
    <3> QED BY <3>1
  <2>3. t = [read |-> t.read, val |-> t.val, stale |-> t.stale, removed |-> t.removed]
    BY <1>1, Zenon DEF v
  <2> QED BY <1>1, <2>1, <2>2, <2>3, Zenon DEF Formed
<1>7. Traced(t)
  BY <1>1 DEF Traced
<1>8. ASSUME NEW n \in Indexed
      PROVE  t.val[n].groups = EditedList(t, n, "groups") /\ t.val[n].operations = EditedList(t, n, "operations")
  <2>1. n \in Nodes
    BY DEF Indexed
  <2>2. t.val[n] = Original[n]
    BY <1>1, <1>2, <2>1
  <2>3. /\ t.val[n].groups = Values(Original, Left(n, "groups", {}))
        /\ t.val[n].operations = Values(Original, Left(n, "operations", {}))
    <3> DEFINE g == Values(Original, Left(n, "groups", {}))
               o == Values(Original, Left(n, "operations", {}))
    <3>1. t.val[n] = [id |-> Tree[n].id, ver |-> 0, groups |-> g, operations |-> o]
      BY <1>3, <2>1, <2>2, Zenon
    <3> HIDE DEF g, o
    <3>2. t.val[n].groups = g /\ t.val[n].operations = o
      BY <3>1
    <3> QED BY <3>2 DEF g, o
  <2> QED BY <1>5, <2>1, <2>3 DEF TwoLists
<1>9. Fits(t)
  BY <1>8 DEF Fits
<1>10. Services0 = EditedList(t, 0, "groups")
  BY <1>5 DEF Services0, TwoLists
<1> QED
  BY <1>6, <1>7, <1>9, <1>10 DEF TreeGood

----------------------------------------------------------------------------
(* A read                                                                  *)

Met(t, n) == Rebuilt(t, n) \cup (IF n = 0 THEN {} ELSE {n})

LEMMA SettledIs ==
    ASSUME NEW t, Formed(t), NEW n
    PROVE  LET u == Settled(t, n)
           IN  /\ u = [read |-> t.read,
                       val |-> [m \in Nodes |-> IF m \in Met(t, n) THEN Value(t)[m] ELSE t.val[m]],
                       stale |-> {l \in t.stale : l[1] \notin Met(t, n) \cup (IF n = 0 THEN {0} ELSE {})},
                       removed |-> t.removed]
<1>1. t = [read |-> t.read, val |-> t.val, stale |-> t.stale, removed |-> t.removed]
  BY DEF Formed
<1> QED
  BY <1>1 DEF Settled, Met

LEMMA SettledGood ==
    ASSUME NEW t, TreeGood(t), NEW n \in Indexed \cup {0}, n # 0 => HeldNode(t, n)
    PROVE  /\ TreeGood(Settled(t, n))
           /\ EditedOf(Settled(t, n)) = EditedOf(t)
           /\ Settled(t, n).removed = t.removed
           /\ Settled(t, n).stale \subseteq t.stale
           /\ n = 0 => <<0, "groups">> \notin Settled(t, n).stale
<1> DEFINE u == Settled(t, n)
           M == Met(t, n)
<1>0. Formed(t) /\ Traced(t) /\ Fits(t)
  BY DEF TreeGood
<1>1. /\ u = [read |-> u.read, val |-> u.val, stale |-> u.stale, removed |-> u.removed]
      /\ u.val = [m \in Nodes |-> IF m \in M THEN Value(t)[m] ELSE t.val[m]]
      /\ u.stale = {l \in t.stale : l[1] \notin M \cup (IF n = 0 THEN {0} ELSE {})}
      /\ u.removed = t.removed
  BY <1>0, SettledIs
<1>2. M \subseteq Indexed /\ Indexed \subseteq Nodes
  BY DEF Met, Rebuilt, Indexed
<1>3. ASSUME NEW m \in M PROVE HeldNode(t, m)
  <2>1. CASE m = n /\ n # 0
    BY <2>1
  <2>2. CASE m \in Rebuilt(t, n)
    <3>1. \A k \in Up[m] : (n # 0 /\ k \in Up[n]) \/ k \notin t.removed
      BY <2>2 DEF Rebuilt
    <3>2. n # 0 => Up[n] \cap t.removed = {}
      BY DEF HeldNode
    <3> QED BY <3>1, <3>2 DEF HeldNode
  <2> QED BY <2>1, <2>2 DEF Met
<1> HIDE DEF u
<1>4. ASSUME NEW m \in Nodes
      PROVE  /\ u.val[m] = [id |-> Tree[m].id, ver |-> t.val[m].ver,
                            groups |-> u.val[m].groups, operations |-> u.val[m].operations]
             /\ u.val[m].ver = t.val[m].ver
  <2>1. t.val[m] = [id |-> Tree[m].id, ver |-> t.val[m].ver,
                    groups |-> t.val[m].groups, operations |-> t.val[m].operations]
    BY <1>0, Zenon DEF Formed
  <2>2. CASE m \in M
    <3>1. u.val[m] = Value(t)[m]
      BY <1>1, <2>2
    <3> DEFINE g == IF <<m, "groups">> \in t.stale THEN Values(Value(t), Left(m, "groups", Past(t)))
                    ELSE t.val[m].groups
               o == IF <<m, "operations">> \in t.stale THEN Values(Value(t), Left(m, "operations", Past(t)))
                    ELSE t.val[m].operations
    <3>2. Value(t)[m] = [id |-> t.val[m].id, ver |-> t.val[m].ver, groups |-> g, operations |-> o]
      BY ValueUnfolds, Zenon DEF IsValue
    <3> HIDE DEF g, o
    <3>3. t.val[m].id = Tree[m].id
      BY <2>1
    <3> QED BY <3>1, <3>2, <3>3
  <2>3. CASE m \notin M
    <3>1. u.val[m] = t.val[m]
      BY <1>1, <2>3
    <3> QED BY <2>1, <3>1
  <2> QED BY <2>2, <2>3
<1>5. EditedOf(u) = EditedOf(t)
  BY <1>1, <1>4, EditedAlike
<1>6. Formed(u)
  <2>1. u.val = [m \in Nodes |-> u.val[m]]
    BY <1>1
  <2>2. u.removed \subseteq Indexed /\ \A l \in u.stale : \E c \in Indexed : In(c) = l
    BY <1>0, <1>1 DEF Formed
  <2> QED BY <1>1, <1>4, <2>1, <2>2, Zenon DEF Formed
<1>7. Traced(u)
  <2> SUFFICES ASSUME NEW l \in u.stale, l[1] # 0, HeldNode(u, l[1]) PROVE In(l[1]) \in u.stale
    BY DEF Traced
  <2> DEFINE m == l[1]
             p == Tree[m].parent
  <2>1. l \in t.stale /\ m \notin M
    BY <1>1
  <2>2. m \in Indexed /\ m \in Nodes
    <3>1. PICK c \in Indexed : In(c) = l
      BY <1>0, <2>1 DEF Formed
    <3>2. l = <<Tree[c].parent, ListOf(Tree[c].class)>>
      BY <3>1 DEF In
    <3>3. <<m, l[2]>> = l
      BY <3>2
    <3>4. <<m, l[2]>> \in t.stale
      BY <2>1, <3>3
    <3>5. m \in Indexed \cup {0}
      BY <1>0, <3>4, StaleLeft
    <3> QED BY <1>2, <3>5
  <2>3. HeldNode(t, m)
    BY <1>1 DEF HeldNode
  <2>4. In(m) \in t.stale
    BY <1>0, <2>1, <2>3 DEF Traced
  <2>5. m \in Up[m] /\ m \notin t.removed
    BY <2>2, <2>3, UpFacts DEF HeldNode
  <2>6. In(m)[1] = p
    BY DEF In
  <2>7. p \notin M \cup (IF n = 0 THEN {0} ELSE {})
    <3>1. SUFFICES ASSUME p \in M \cup (IF n = 0 THEN {0} ELSE {}) PROVE m \in Rebuilt(t, n)
      BY <2>1 DEF Met
    <3>2. CASE p = 0
      <4>1. n = 0
        <5>1. 0 \notin Nodes
          BY TreeFacts
        <5> QED BY <1>2, <3>1, <3>2, <5>1
      <4>2. Up[m] = {m}
        BY <2>2, <3>2, UpUnfolds
      <4> QED BY <2>2, <2>4, <2>5, <4>1, <4>2 DEF Rebuilt
    <3>3. CASE p # 0
      <4>1. p \in M /\ p \in Nodes
        BY <2>2, <3>1, <3>3, TreeFacts
      <4>2. Up[m] = {m} \cup Up[p]
        BY <2>2, <3>3, UpUnfolds
      <4>3. n = 0 \/ n \in Up[p]
        BY <4>1, UpFacts DEF Met, Rebuilt
      <4>4. \A k \in Up[p] : (n # 0 /\ k \in Up[n]) \/ (In(k) \in t.stale /\ k \notin t.removed)
        BY <4>1 DEF Met, Rebuilt
      <4> QED BY <2>2, <2>4, <2>5, <4>2, <4>3, <4>4 DEF Rebuilt
    <3> QED BY <3>2, <3>3
  <2> QED BY <1>1, <2>4, <2>6, <2>7
<1>8. Fits(u)
  <2> SUFFICES ASSUME NEW m \in Indexed, HeldNode(u, m)
               PROVE  /\ <<m, "groups">> \notin u.stale => u.val[m].groups = EditedList(u, m, "groups")
                      /\ <<m, "operations">> \notin u.stale => u.val[m].operations = EditedList(u, m, "operations")
    BY DEF Fits
  <2>1. HeldNode(t, m) /\ m \in Nodes
    BY <1>1, <1>2 DEF HeldNode
  <2>2. \A list : EditedList(u, m, list) = EditedList(t, m, list)
    BY <1>1, <1>5, Zenon DEF EditedList
  <2>3. CASE m \in M
    <3>1. u.val[m] = EditedOf(t)[m]
      BY <1>1, <2>1, <2>3, ValueIsEdited
    <3>2. EditedOf(t)[m] = [id |-> Tree[m].id, ver |-> t.val[m].ver,
                            groups |-> EditedList(t, m, "groups"),
                            operations |-> EditedList(t, m, "operations")]
      BY <2>1, EditedUnfolds, Zenon DEF IsEdited, EditedList
    <3> QED BY <2>2, <3>1, <3>2
  <2>4. CASE m \notin M
    <3>1. u.val[m] = t.val[m]
      BY <1>1, <2>1, <2>4
    <3>2. m # 0
      BY <2>1, TreeFacts
    <3>3. \A list : <<m, list>> \notin u.stale => <<m, list>> \notin t.stale
      BY <1>1, <2>4, <3>2
    <3> QED BY <1>0, <2>1, <2>2, <3>1, <3>3 DEF Fits
  <2> QED BY <2>3, <2>4
<1>9. u.stale \subseteq t.stale /\ (n = 0 => <<0, "groups">> \notin u.stale)
  BY <1>1
<1> QED
  BY <1>1, <1>5, <1>6, <1>7, <1>8, <1>9 DEF u, TreeGood

----------------------------------------------------------------------------
(* A write or a removal                                                    *)

\* u is t with the node n written or removed.
Differs(t, u, n) ==
    /\ \A m \in Nodes : m # n => u.val[m].ver = t.val[m].ver
    /\ u.removed = t.removed \/ u.removed = t.removed \cup {n}

LEMMA ListOff ==
    ASSUME NEW t, NEW u, NEW n \in Nodes, Differs(t, u, n),
           NEW k \in Nodes \cup {0}, NEW list \in TwoLists, <<k, list>> \notin {In(m) : m \in Up[n]},
           \A c \in Nodes : c \notin Up[n] /\ k < c => EditedOf(u)[c] = EditedOf(t)[c]
    PROVE  EditedList(u, k, list) = EditedList(t, k, list)
<1>1. ChildrenOf[<<k, list>>] = {d \in Nodes : In(d) = <<k, list>>}
  BY DEF ChildrenOf, Lists, TwoLists
<1>2. n \in Up[n] /\ In(n) # <<k, list>>
  BY UpFacts
<1>3. ChildrenOf[<<k, list>>] \ u.removed = ChildrenOf[<<k, list>>] \ t.removed
  BY <1>1, <1>2 DEF Differs
<1>4. Left(k, list, u.removed) = Left(k, list, t.removed)
  BY <1>3 DEF Left
<1>5. ASSUME NEW i \in DOMAIN Left(k, list, t.removed)
      PROVE  EditedOf(u)[Left(k, list, t.removed)[i]] = EditedOf(t)[Left(k, list, t.removed)[i]]
  <2> DEFINE c == Left(k, list, t.removed)[i]
  <2>1. c \in Nodes /\ In(c) = <<k, list>> /\ k < c
    BY LeftOf
  <2>2. c \notin Up[n]
    BY <2>1
  <2> QED BY <2>1, <2>2
<1> QED
  BY <1>4, <1>5, Zenon DEF EditedList, Values

\* Only what holds the node changes.
LEMMA EditedOff ==
    ASSUME NEW t, NEW u, NEW n \in Nodes, Differs(t, u, n), NEW c \in Nodes, c \notin Up[n]
    PROVE  EditedOf(u)[c] = EditedOf(t)[c]
<1> DEFINE C == {k \in Nodes : k \notin Up[n] => EditedOf(u)[k] = EditedOf(t)[k]}
<1>1. ASSUME NEW k \in Nodes, \A m \in Nodes : m > k => m \in C PROVE k \in C
  <2>1. SUFFICES ASSUME k \notin Up[n] PROVE EditedOf(u)[k] = EditedOf(t)[k]
    OBVIOUS
  <2>2. CASE k \notin Indexed
    BY <2>2, EditedUnfolds DEF IsEdited
  <2>3. CASE k \in Indexed
    <3>1. ASSUME NEW list \in TwoLists PROVE EditedList(u, k, list) = EditedList(t, k, list)
      <4>1. <<k, list>> \notin {In(m) : m \in Up[n]}
        <5>1. SUFFICES ASSUME NEW m \in Up[n], In(m) = <<k, list>> PROVE FALSE
          OBVIOUS
        <5>2. Tree[m].parent = k /\ k # 0
          BY <5>1, TreeFacts DEF In
        <5> QED BY <2>1, <5>2, UpFacts DEF UpClosed
      <4>2. \A d \in Nodes : d \notin Up[n] /\ k < d => EditedOf(u)[d] = EditedOf(t)[d]
        BY <1>1, TreeFacts
      <4> QED BY <4>1, <4>2, ListOff
    <3>2. /\ EditedList(u, k, "groups") = EditedList(t, k, "groups")
          /\ EditedList(u, k, "operations") = EditedList(t, k, "operations")
      BY <3>1 DEF TwoLists
    <3>3. EditedOf(t)[k] = [id |-> Tree[k].id, ver |-> t.val[k].ver,
                            groups |-> EditedList(t, k, "groups"),
                            operations |-> EditedList(t, k, "operations")]
      BY <2>3, EditedUnfolds, Zenon DEF IsEdited, EditedList
    <3>4. EditedOf(u)[k] = [id |-> Tree[k].id, ver |-> u.val[k].ver,
                            groups |-> EditedList(u, k, "groups"),
                            operations |-> EditedList(u, k, "operations")]
      BY <2>3, EditedUnfolds, Zenon DEF IsEdited, EditedList
    <3>5. u.val[k].ver = t.val[k].ver
      BY <2>1, UpFacts DEF Differs
    <3> QED BY <3>2, <3>3, <3>4, <3>5, Zenon
  <2> QED BY <2>2, <2>3
<1>2. C \in SUBSET Nodes
  OBVIOUS
<1> HIDE DEF C
<1>3. C = Nodes
  BY <1>1, <1>2, Upwards
<1> QED
  BY <1>3 DEF C

LEMMA TouchedGood ==
    ASSUME NEW t, TreeGood(t), NEW n \in Indexed, NEW u, Differs(t, u, n),
           u = [read |-> u.read, val |-> u.val, stale |-> u.stale, removed |-> u.removed],
           u.val = [m \in Nodes |-> u.val[m]],
           \A m \in Nodes : u.val[m] = [id |-> Tree[m].id, ver |-> u.val[m].ver,
                                        groups |-> t.val[m].groups, operations |-> t.val[m].operations],
           u.stale = t.stale \cup {In(m) : m \in Up[n]}
    PROVE  /\ TreeGood(u)
           /\ <<0, "groups">> \notin u.stale =>
                <<0, "groups">> \notin t.stale /\ EditedList(u, 0, "groups") = EditedList(t, 0, "groups")
<1>0. Formed(t) /\ Traced(t) /\ Fits(t) /\ n \in Nodes
  BY DEF TreeGood, Indexed
<1>1. ASSUME NEW k \in Nodes \cup {0}, NEW list \in TwoLists, <<k, list>> \notin u.stale
      PROVE  <<k, list>> \notin t.stale /\ EditedList(u, k, list) = EditedList(t, k, list)
  <2>1. \A c \in Nodes : c \notin Up[n] => EditedOf(u)[c] = EditedOf(t)[c]
    BY <1>0, EditedOff
  <2>2. <<k, list>> \notin {In(m) : m \in Up[n]} /\ <<k, list>> \notin t.stale
    BY <1>1
  <2> QED BY <1>0, <2>1, <2>2, ListOff
<1>2. ASSUME NEW k \in Nodes PROVE HeldNode(u, k) => HeldNode(t, k)
  BY DEF HeldNode, Differs
<1>3. ASSUME NEW m \in Nodes
      PROVE u.val[m].groups = t.val[m].groups /\ u.val[m].operations = t.val[m].operations
  <2> DEFINE g == t.val[m].groups
             o == t.val[m].operations
  <2>1. u.val[m] = [id |-> Tree[m].id, ver |-> u.val[m].ver, groups |-> g, operations |-> o]
    OBVIOUS
  <2> HIDE DEF g, o
  <2>2. u.val[m].groups = g /\ u.val[m].operations = o
    BY <2>1
  <2> QED BY <2>2 DEF g, o
<1>4. Formed(u)
  <2>1. ASSUME NEW m \in Nodes
        PROVE  u.val[m] = [id |-> Tree[m].id, ver |-> u.val[m].ver,
                           groups |-> u.val[m].groups, operations |-> u.val[m].operations]
    BY <1>3, Zenon
  <2>2. u.removed \subseteq Indexed
    BY <1>0 DEF Formed, Differs
  <2>3. ASSUME NEW l \in u.stale PROVE \E c \in Indexed : In(c) = l
    <3>1. CASE l \in t.stale
      BY <1>0, <3>1 DEF Formed
    <3>2. CASE l \notin t.stale
      <4>1. PICK m \in Up[n] : In(m) = l
        BY <3>2
      <4> QED BY <4>1, IndexedAbove
    <3> QED BY <3>1, <3>2
  <2> QED BY <2>1, <2>2, <2>3, Zenon DEF Formed
<1>5. Traced(u)
  <2> SUFFICES ASSUME NEW l \in u.stale, l[1] # 0, HeldNode(u, l[1]) PROVE In(l[1]) \in u.stale
    BY DEF Traced
  <2>1. CASE l \in t.stale
    <3>1. HeldNode(t, l[1])
      BY DEF HeldNode, Differs
    <3> QED BY <1>0, <2>1, <3>1 DEF Traced
  <2>2. CASE l \notin t.stale
    <3>1. PICK m \in Up[n] : In(m) = l
      BY <2>2
    <3>2. Tree[m].parent = l[1]
      BY <3>1 DEF In
    <3>3. l[1] \in Up[n]
      BY <1>0, <3>1, <3>2, UpFacts DEF UpClosed
    <3> QED BY <3>3
  <2> QED BY <2>1, <2>2
<1>6. Fits(u)
  <2> SUFFICES ASSUME NEW m \in Indexed, HeldNode(u, m)
               PROVE  /\ <<m, "groups">> \notin u.stale => u.val[m].groups = EditedList(u, m, "groups")
                      /\ <<m, "operations">> \notin u.stale => u.val[m].operations = EditedList(u, m, "operations")
    BY DEF Fits
  <2>1. m \in Nodes
    BY DEF Indexed
  <2>2. HeldNode(t, m)
    BY <1>2, <2>1
  <2>3. /\ <<m, "groups">> \notin u.stale => <<m, "groups">> \notin t.stale /\ EditedList(u, m, "groups") = EditedList(t, m, "groups")
        /\ <<m, "operations">> \notin u.stale => <<m, "operations">> \notin t.stale /\ EditedList(u, m, "operations") = EditedList(t, m, "operations")
    BY <1>1, <2>1 DEF TwoLists
  <2>4. /\ <<m, "groups">> \notin t.stale => t.val[m].groups = EditedList(t, m, "groups")
        /\ <<m, "operations">> \notin t.stale => t.val[m].operations = EditedList(t, m, "operations")
    BY <1>0, <2>2 DEF Fits
  <2> QED BY <1>3, <2>1, <2>3, <2>4, Zenon
<1>7. <<0, "groups">> \notin u.stale =>
        <<0, "groups">> \notin t.stale /\ EditedList(u, 0, "groups") = EditedList(t, 0, "groups")
  BY <1>1 DEF TwoLists
<1> QED
  BY <1>4, <1>5, <1>6, <1>7 DEF TreeGood

LEMMA ChangedGood ==
    ASSUME NEW t, TreeGood(t), NEW n \in Indexed
    PROVE  LET u == Touch(Changed(t, n), n)
           IN  /\ TreeGood(u) /\ u.read = t.read
               /\ <<0, "groups">> \notin u.stale =>
                    <<0, "groups">> \notin t.stale /\ EditedList(u, 0, "groups") = EditedList(t, 0, "groups")
<1> DEFINE u == Touch(Changed(t, n), n)
<1>0. Formed(t) /\ n \in Nodes
  BY DEF TreeGood, Indexed
<1>1. t = [read |-> t.read, val |-> t.val, stale |-> t.stale, removed |-> t.removed]
      /\ t.val = [m \in Nodes |-> t.val[m]]
  BY <1>0 DEF Formed
<1>2. /\ u = [read |-> u.read, val |-> u.val, stale |-> u.stale, removed |-> u.removed]
      /\ u.read = t.read /\ u.removed = t.removed
      /\ u.stale = t.stale \cup {In(m) : m \in Up[n]}
      /\ u.val = [t.val EXCEPT ![n] = [id |-> t.val[n].id, ver |-> 1, groups |-> t.val[n].groups,
                                        operations |-> t.val[n].operations]]
  BY <1>1 DEF Touch, Changed
<1> HIDE DEF u
<1>3. u.val = [m \in Nodes |-> u.val[m]]
  BY <1>1, <1>2
<1>4. ASSUME NEW m \in Nodes
      PROVE  /\ u.val[m] = [id |-> Tree[m].id, ver |-> u.val[m].ver,
                            groups |-> t.val[m].groups, operations |-> t.val[m].operations]
             /\ m # n => u.val[m].ver = t.val[m].ver
  <2>1. t.val[m] = [id |-> Tree[m].id, ver |-> t.val[m].ver,
                    groups |-> t.val[m].groups, operations |-> t.val[m].operations]
    BY <1>0, Zenon DEF Formed
  <2>2. CASE m = n
    <3>1. u.val[m] = [id |-> t.val[m].id, ver |-> 1, groups |-> t.val[m].groups,
                      operations |-> t.val[m].operations]
      BY <1>1, <1>2, <2>2
    <3>2. t.val[m].id = Tree[m].id
      BY <2>1
    <3> QED BY <2>2, <3>1, <3>2
  <2>3. CASE m # n
    <3>1. u.val[m] = t.val[m]
      BY <1>1, <1>2, <2>3
    <3> QED BY <2>1, <3>1
  <2> QED BY <2>2, <2>3
<1>5. Differs(t, u, n)
  BY <1>2, <1>4 DEF Differs
<1>6. /\ TreeGood(u)
      /\ <<0, "groups">> \notin u.stale =>
           <<0, "groups">> \notin t.stale /\ EditedList(u, 0, "groups") = EditedList(t, 0, "groups")
  BY <1>2, <1>3, <1>4, <1>5, TouchedGood
<1> QED
  BY <1>2, <1>6 DEF u

LEMMA RemovedGood ==
    ASSUME NEW t, TreeGood(t), NEW n \in Indexed
    PROVE  LET u == Touch(Without(t, n), n)
           IN  /\ TreeGood(u) /\ u.read = t.read
               /\ <<0, "groups">> \notin u.stale =>
                    <<0, "groups">> \notin t.stale /\ EditedList(u, 0, "groups") = EditedList(t, 0, "groups")
<1> DEFINE u == Touch(Without(t, n), n)
<1>0. Formed(t) /\ n \in Nodes
  BY DEF TreeGood, Indexed
<1>1. t = [read |-> t.read, val |-> t.val, stale |-> t.stale, removed |-> t.removed]
      /\ t.val = [m \in Nodes |-> t.val[m]]
  BY <1>0 DEF Formed
<1>2. /\ u = [read |-> u.read, val |-> u.val, stale |-> u.stale, removed |-> u.removed]
      /\ u.read = t.read /\ u.removed = t.removed \cup {n}
      /\ u.stale = t.stale \cup {In(m) : m \in Up[n]}
      /\ u.val = t.val
  BY <1>1 DEF Touch, Without
<1> HIDE DEF u
<1>3. u.val = [m \in Nodes |-> u.val[m]]
  BY <1>1, <1>2
<1>4. \A m \in Nodes : u.val[m] = [id |-> Tree[m].id, ver |-> u.val[m].ver,
                                    groups |-> t.val[m].groups, operations |-> t.val[m].operations]
  BY <1>0, <1>2, Zenon DEF Formed
<1>5. Differs(t, u, n)
  BY <1>2 DEF Differs
<1>6. /\ TreeGood(u)
      /\ <<0, "groups">> \notin u.stale =>
           <<0, "groups">> \notin t.stale /\ EditedList(u, 0, "groups") = EditedList(t, 0, "groups")
  BY <1>2, <1>3, <1>4, <1>5, TouchedGood
<1> QED
  BY <1>2, <1>6 DEF u

----------------------------------------------------------------------------
(* The edit                                                                *)

\* The services to return are the ones edited, once their list is not stale.
Served(t, services) == <<0, "groups">> \notin t.stale => services = EditedList(t, 0, "groups")

\* What is running is known by its class, and a node it changes is one indexed.
Running ==
    running # None => /\ running.class \in {"type", "node", "document"}
                      /\ running.class = "node" => tree.read /\ running.node \in Indexed

TreeInv ==
    /\ TreeGood(tree)
    /\ tree.read \in BOOLEAN
    /\ ~tree.read => tree = Unread
    /\ Served(tree, out.services)
    /\ finished => <<0, "groups">> \notin tree.stale
    /\ Running

LEMMA UnreadGood ==
    /\ TreeGood(Index) /\ TreeGood(Unread)
    /\ Index.read = TRUE /\ Unread.read = FALSE
    /\ Index.stale = {} /\ Unread.stale = {}
    /\ EditedList(Index, 0, "groups") = Services0 /\ EditedList(Unread, 0, "groups") = Services0
<1> DEFINE v == [n \in Nodes |-> Original[n]]
<1> HIDE DEF v
<1>1. Index = [read |-> TRUE, val |-> v, stale |-> {}, removed |-> {}]
  BY DEF Index, v
<1>2. Index.val = v
  BY <1>1
<1>3. Unread = [read |-> FALSE, val |-> v, stale |-> {}, removed |-> {}]
  BY <1>2 DEF Unread
<1>4. Index.read = TRUE /\ Unread.read = FALSE /\ Index.stale = {} /\ Unread.stale = {}
  BY <1>1, <1>3
<1>5. /\ Index = [read |-> Index.read, val |-> Index.val, stale |-> {}, removed |-> {}]
      /\ Unread = [read |-> Unread.read, val |-> Index.val, stale |-> {}, removed |-> {}]
  BY <1>1, <1>2, <1>3, <1>4
<1> QED
  BY <1>4, <1>5, IndexGood

LEMMA IndexedTreeGood ==
    ASSUME TreeInv
    PROVE  TreeGood(IndexedTree) /\ IndexedTree.read = TRUE /\ Served(IndexedTree, out.services)
           /\ (finished => <<0, "groups">> \notin IndexedTree.stale)
<1>1. CASE tree.read
  BY <1>1 DEF TreeInv, IndexedTree
<1>2. CASE ~tree.read
  <2>1. tree = Unread /\ Served(tree, out.services) /\ IndexedTree = Index
    BY <1>2 DEF TreeInv, IndexedTree
  <2> QED BY <2>1, UnreadGood DEF Served
<1> QED
  BY <1>1, <1>2 DEF TreeInv

LEMMA FoundIndexed ==
    ASSUME NEW t, NEW class, NEW id, Cardinality(Find(t, class, id)) = 1
    PROVE  LET n == CHOOSE m \in Find(t, class, id) : TRUE
           IN  n \in Indexed /\ HeldNode(t, n)
<1>1. Find(t, class, id) # {}
  BY FS_EmptySet
<1>2. (CHOOSE m \in Find(t, class, id) : TRUE) \in Find(t, class, id)
  BY <1>1
<1> QED
  BY <1>2 DEF Find

\* A read of one node keeps what is served: its list is the document's, and the
\* read leaves that alone.
LEMMA ReadServes ==
    ASSUME NEW t, TreeGood(t), NEW n \in Indexed, HeldNode(t, n), NEW services, Served(t, services)
    PROVE  Served(Settled(t, n), services)
<1>1. /\ EditedOf(Settled(t, n)) = EditedOf(t)
      /\ Settled(t, n).removed = t.removed
  BY SettledGood, TreeFacts DEF Indexed
<1>2. EditedList(Settled(t, n), 0, "groups") = EditedList(t, 0, "groups")
  BY <1>1, Zenon DEF EditedList
<1>3. 0 \notin Met(t, n) /\ n # 0
  BY TreeFacts DEF Met, Rebuilt, Indexed
<1>4. Formed(t)
  BY DEF TreeGood
<1>5. Settled(t, n).stale = {l \in t.stale : l[1] \notin Met(t, n)}
  BY <1>3, <1>4, SettledIs
<1>6. <<0, "groups">> \in t.stale => <<0, "groups">> \in Settled(t, n).stale
  BY <1>3, <1>5
<1> QED
  BY <1>2, <1>6 DEF Served

\* settle gives the services as edited.
LEMMA FinishServes ==
    ASSUME NEW t, TreeGood(t), Served(t, out.services)
    PROVE  ServicesOf(t) = EditedList(Settled(t, 0), 0, "groups")
<1>1. /\ EditedOf(Settled(t, 0)) = EditedOf(t)
      /\ Settled(t, 0).removed = t.removed
  BY SettledGood
<1>2. EditedList(Settled(t, 0), 0, "groups") = EditedList(t, 0, "groups")
  BY <1>1, Zenon DEF EditedList
<1>3. CASE <<0, "groups">> \notin t.stale
  BY <1>2, <1>3 DEF Served, ServicesOf
<1>4. CASE <<0, "groups">> \in t.stale
  <2>1. ASSUME NEW i \in DOMAIN Left(0, "groups", t.removed)
        PROVE  Value(t)[Left(0, "groups", t.removed)[i]] = EditedOf(t)[Left(0, "groups", t.removed)[i]]
    <3> DEFINE c == Left(0, "groups", t.removed)[i]
    <3>1. c \in Indexed /\ HeldNode(t, c)
      BY <1>4, LeftHeld DEF TreeGood, TwoLists
    <3> QED BY <3>1, ValueIsEdited
  <2>2. Values(Value(t), Left(0, "groups", t.removed)) = EditedList(t, 0, "groups")
    BY <2>1, Zenon DEF Values, EditedList
  <2> QED BY <1>2, <1>4, <2>2 DEF ServicesOf
<1> QED
  BY <1>3, <1>4

LEMMA TreeInit ==
    ASSUME Init
    PROVE  TreeInv
<1>1. tree = Unread /\ out = [services |-> Services0, ver |-> 0] /\ running = None /\ finished = FALSE
  BY DEF Init
<1>2. out.services = Services0
  BY <1>1
<1> QED
  BY <1>1, <1>2, UnreadGood DEF TreeInv, Served, Running

\* A call that leaves the tree alone.
LEMMA TreeUntouched ==
    ASSUME TreeInv, UNCHANGED <<tree, out, finished>>, Running'
    PROVE  TreeInv'
BY DEF TreeInv

LEMMA RefusedRunning ==
    ASSUME TreeInv, Refused
    PROVE  TreeInv'
<1>1. UNCHANGED <<tree, out, running, finished>>
  BY DEF Refused
<1> QED
  BY <1>1 DEF TreeInv, Running

LEMMA TreeNext ==
    ASSUME Inv, TreeInv, [Next]_vars
    PROVE  TreeInv'
<1>1. CASE BeginType
  <2>1. CASE Refused
    BY <2>1, RefusedRunning
  <2>2. CASE ~Refused
    <3>1. PICK id \in Types :
            /\ running' = [class |-> "type", id |-> id, node |-> heap[Out[id]], since |-> made]
            /\ UNCHANGED <<tree, out, finished>>
      BY <1>1, <2>2 DEF BeginType
    <3>2. running'.class = "type"
      BY <3>1
    <3> QED BY <3>1, <3>2, TreeUntouched DEF Running
  <2> QED BY <2>1, <2>2
<1>2. CASE EndType
  BY <1>2, TreeUntouched DEF EndType, Running
<1>3. CASE ReplaceType
  <2>1. CASE Refused
    BY <2>1, RefusedRunning
  <2>2. CASE ~Refused
    <3>1. UNCHANGED <<tree, out, running, finished>>
      BY <1>3, <2>2 DEF ReplaceType
    <3> QED BY <3>1, TreeUntouched DEF TreeInv, Running
  <2> QED BY <2>1, <2>2
<1>4. CASE Build \/ Move \/ UNCHANGED vars
  <2>1. UNCHANGED <<tree, out, running, finished>>
    BY <1>4 DEF Build, Move, vars
  <2> QED BY <2>1, TreeUntouched DEF TreeInv, Running
<1>5. CASE RemoveType
  <2>1. CASE Refused
    BY <2>1, RefusedRunning
  <2>2. CASE ~Refused
    <3>1. UNCHANGED <<tree, out, running, finished>>
      BY <1>5, <2>2 DEF RemoveType
    <3> QED BY <3>1, TreeUntouched DEF TreeInv, Running
  <2> QED BY <2>1, <2>2
<1>6. CASE ReadNode
  <2>1. PICK k \in TreeIDs :
          /\ tree' = IF Cardinality(Find(IndexedTree, k[1], k[2])) = 1 /\ k[1] # "operation"
                     THEN Settled(IndexedTree, CHOOSE n \in Find(IndexedTree, k[1], k[2]) : TRUE) ELSE IndexedTree
          /\ UNCHANGED <<out, running, finished>>
    BY <1>6 DEF ReadNode
  <2>2. /\ TreeGood(IndexedTree) /\ IndexedTree.read = TRUE /\ Served(IndexedTree, out.services)
        /\ finished => <<0, "groups">> \notin IndexedTree.stale
    BY IndexedTreeGood
  <2> DEFINE n == CHOOSE n \in Find(IndexedTree, k[1], k[2]) : TRUE
  <2>3. CASE tree' = IndexedTree
    BY <2>1, <2>2, <2>3 DEF TreeInv, Running
  <2>4. CASE tree' # IndexedTree
    <3>1. tree' = Settled(IndexedTree, n) /\ n \in Indexed /\ HeldNode(IndexedTree, n)
      BY <2>1, <2>4, FoundIndexed
    <3> HIDE DEF n
    <3>2. TreeGood(tree') /\ tree'.stale \subseteq IndexedTree.stale
      BY <2>2, <3>1, SettledGood
    <3>3. Served(tree', out.services)
      BY <2>2, <3>1, ReadServes
    <3>4. tree'.read = TRUE
      BY <2>2, <3>1, SettledIs DEF TreeGood
    <3> QED BY <2>1, <2>2, <3>2, <3>3, <3>4 DEF TreeInv, Running
  <2> QED BY <2>3, <2>4
<1>7. CASE BeginNode
  <2>1. CASE Refused
    BY <2>1, RefusedRunning
  <2>2. CASE \E k \in TreeIDs :
               /\ Only(k[1], k[2])
               /\ tree' = IndexedTree
               /\ running' = [class |-> "node", id |-> k[2],
                              node |-> CHOOSE n \in Find(IndexedTree, k[1], k[2]) : TRUE,
                              since |-> made]
               /\ UNCHANGED <<out, finished>>
    <3>1. PICK k \in TreeIDs :
               /\ Only(k[1], k[2])
               /\ tree' = IndexedTree
               /\ running' = [class |-> "node", id |-> k[2],
                              node |-> CHOOSE n \in Find(IndexedTree, k[1], k[2]) : TRUE,
                              since |-> made]
               /\ UNCHANGED <<out, finished>>
      BY <2>2, Zenon
    <3> DEFINE n == CHOOSE n \in Find(IndexedTree, k[1], k[2]) : TRUE
    <3>2. n \in Indexed
      BY <3>1, FoundIndexed DEF Only
    <3> HIDE DEF n
    <3>3. running' = [class |-> "node", id |-> k[2], node |-> n, since |-> made]
      BY <3>1, Zenon DEF n
    <3>4. running'.class = "node" /\ running'.node = n
      BY <3>3
    <3>5. /\ TreeGood(IndexedTree) /\ IndexedTree.read = TRUE /\ Served(IndexedTree, out.services)
          /\ finished => <<0, "groups">> \notin IndexedTree.stale
      BY IndexedTreeGood
    <3> QED BY <3>1, <3>2, <3>4, <3>5 DEF TreeInv, Running
  <2>3. CASE /\ running' = [class |-> "document", id |-> None, node |-> 0, since |-> made]
             /\ UNCHANGED <<tree, out, finished>>
    <3>1. running'.class = "document"
      BY <2>3
    <3> QED BY <2>3, <3>1, TreeUntouched DEF Running
  <2> QED BY <1>7, <2>1, <2>2, <2>3, Zenon DEF BeginNode
<1>8. CASE EndNode
  <2>1. running # None /\ running.class # "type" /\ running' = None /\ UNCHANGED finished /\ ~finished
    BY <1>8 DEF EndNode, Inv, Changing
  <2>2. CASE UNCHANGED <<tree, out>>
    BY <2>1, <2>2, TreeUntouched DEF Running
  <2>3. CASE running.class = "document" /\ out' = [services |-> out.services, ver |-> 1] /\ UNCHANGED tree
    <3>1. out'.services = out.services
      BY <2>3
    <3> QED BY <2>1, <2>3, <3>1 DEF TreeInv, Running
  <2>4. CASE running.class # "document" /\ tree' = Touch(Changed(tree, running.node), running.node) /\ UNCHANGED out
    <3>1. running.node \in Indexed /\ tree.read /\ TreeGood(tree)
      BY <2>1, <2>4 DEF TreeInv, Running
    <3>2. /\ TreeGood(tree') /\ tree'.read = tree.read
          /\ <<0, "groups">> \notin tree'.stale =>
               <<0, "groups">> \notin tree.stale /\ EditedList(tree', 0, "groups") = EditedList(tree, 0, "groups")
      BY <2>4, <3>1, ChangedGood
    <3> QED BY <2>1, <2>4, <3>1, <3>2 DEF TreeInv, Running, Served
  <2> QED BY <1>8, <2>2, <2>3, <2>4, Zenon DEF EndNode
<1>9. CASE Panic
  BY <1>9, TreeUntouched DEF Panic, Running
<1>10. CASE RemoveNode
  <2>1. CASE Refused
    BY <2>1, RefusedRunning
  <2>2. CASE \E k \in TreeIDs :
               /\ Only(k[1], k[2])
               /\ LET n == CHOOSE n \in Find(IndexedTree, k[1], k[2]) : TRUE
                  IN  tree' = Touch(Without(IndexedTree, n), n)
               /\ UNCHANGED <<out, running, finished>>
    <3>1. PICK k \in TreeIDs :
               /\ Only(k[1], k[2])
               /\ LET n == CHOOSE n \in Find(IndexedTree, k[1], k[2]) : TRUE
                  IN  tree' = Touch(Without(IndexedTree, n), n)
               /\ UNCHANGED <<out, running, finished>>
      BY <2>2, Zenon
    <3> DEFINE n == CHOOSE n \in Find(IndexedTree, k[1], k[2]) : TRUE
    <3>2. n \in Indexed /\ tree' = Touch(Without(IndexedTree, n), n)
      BY <3>1, FoundIndexed DEF Only
    <3> HIDE DEF n
    <3>3. /\ TreeGood(IndexedTree) /\ IndexedTree.read = TRUE /\ Served(IndexedTree, out.services)
      BY IndexedTreeGood
    <3>4. /\ TreeGood(tree') /\ tree'.read = TRUE
          /\ <<0, "groups">> \notin tree'.stale =>
               /\ <<0, "groups">> \notin IndexedTree.stale
               /\ EditedList(tree', 0, "groups") = EditedList(IndexedTree, 0, "groups")
      BY <3>2, <3>3, RemovedGood
    <3>5. ~finished
      BY <3>1 DEF Only, Open
    <3> QED BY <3>1, <3>3, <3>4, <3>5 DEF TreeInv, Running, Served
  <2> QED BY <1>10, <2>1, <2>2, Zenon DEF RemoveNode
<1>11. CASE FinishInside \/ Finish
  <2>1. /\ out' = [services |-> ServicesOf(tree), ver |-> out.ver] /\ tree' = Settled(tree, 0)
        /\ UNCHANGED running
    BY <1>11 DEF FinishInside, Finish
  <2>2. TreeGood(tree) /\ Served(tree, out.services) /\ Formed(tree)
    BY DEF TreeInv, TreeGood
  <2>3. out'.services = ServicesOf(tree)
    BY <2>1
  <2>4. TreeGood(tree') /\ <<0, "groups">> \notin tree'.stale
    BY <2>1, <2>2, SettledGood
  <2>5. Served(tree', out'.services)
    BY <2>1, <2>2, <2>3, FinishServes DEF Served
  <2>6. tree'.read = tree.read
    BY <2>1, <2>2, SettledIs
  <2>7. ~tree.read => tree' = Unread
    <3>1. SUFFICES ASSUME ~tree.read PROVE Settled(tree, 0) = tree
      BY <2>1 DEF TreeInv
    <3>2. tree.stale = {}
      BY <3>1, UnreadGood DEF TreeInv
    <3>3. Rebuilt(tree, 0) = {}
      BY <3>2, UpFacts DEF Rebuilt, Indexed
    <3>4. Met(tree, 0) = {}
      BY <3>3 DEF Met
    <3>5. Settled(tree, 0) = [read |-> tree.read, val |-> [m \in Nodes |-> tree.val[m]],
                              stale |-> {}, removed |-> tree.removed]
      BY <2>2, <3>2, <3>4, SettledIs
    <3>6. /\ tree = [read |-> tree.read, val |-> tree.val, stale |-> tree.stale, removed |-> tree.removed]
          /\ tree.val = [m \in Nodes |-> tree.val[m]]
      BY <2>2 DEF Formed
    <3> QED BY <3>2, <3>5, <3>6, Zenon
  <2> QED BY <2>1, <2>4, <2>5, <2>6, <2>7 DEF TreeInv, Running
<1> QED
  BY <1>1, <1>2, <1>3, <1>4, <1>5, <1>6, <1>7, <1>8, <1>9, <1>10, <1>11, Zenon DEF Next

LEMMA TreeInvHolds == Spec => []TreeInv
<1>1. TreeInv /\ Inv /\ [Next]_vars => TreeInv'
  BY TreeNext
<1> QED
  BY <1>1, TreeInit, InvHolds, PTL DEF Spec

\* Every read of a node and the document Finish returns are the tree as edited
\* (serviceTree's built, settle), whatever order reads, writes and removals came in.
THEOREM TreesAreBuiltAsEdited == Spec => []BuiltAsEdited
<1>1. ASSUME TreeInv PROVE BuiltAsEdited
  <2>1. TreeGood(tree) /\ Formed(tree)
    BY <1>1 DEF TreeInv, TreeGood
  <2>2. tree.removed \subseteq Indexed
    BY <2>1 DEF Formed
  <2>3. ASSUME NEW l \in tree.stale PROVE l[1] \in Indexed \cup {0}
    <3>1. PICK c \in Indexed : In(c) = l
      BY <2>1 DEF Formed
    <3>2. l = <<Tree[c].parent, ListOf(Tree[c].class)>>
      BY <3>1 DEF In
    <3>3. <<l[1], l[2]>> = l
      BY <3>2
    <3> QED BY <2>1, <3>3, StaleLeft
  <2>4. \A n \in Indexed : HeldNode(tree, n) => Value(tree)[n] = Edited[n]
    BY <2>1, EditedIs, ValueIsEdited
  <2>5. finished => out.services = Values(Edited, Left(0, "groups", tree.removed))
    BY <1>1, EditedIs DEF TreeInv, Served, EditedList
  <2> QED BY <2>2, <2>3, <2>4, <2>5 DEF BuiltAsEdited
<1> QED
  BY <1>1, TreeInvHolds, PTL
=============================================================================
