------------------------- MODULE TypeRegistryProofs -------------------------
(***************************************************************************)
(* Proofs about TypeRegistry, for every document and every set of          *)
(* coordinates, IDs and namespaces: the type invariant, that no node is    *)
(* overwritten or removed without a refusal but by a settlement's swap of  *)
(* one for one, and that the registry is whole when settlements read it    *)
(* and when it is handed over.                                             *)
(***************************************************************************)
EXTENDS TypeRegistry, FiniteSetTheorems, TLAPS

(* What a sequence holds, and that it holds each once; the coordinates     *)
(* being built.                                                            *)
ElementsOf(s) == {s[n] : n \in DOMAIN s}
Once(s) == \A m, n \in DOMAIN s : s[m] = s[n] => m = n
Frames == ElementsOf(stack)

(* byPointer and byID are each other's inverse, and hold the document's    *)
(* own derivation; every frame is of an interned coordinate.               *)
Inverted ==
    /\ \A p \in DOMAIN byPointer :
          doc.id[p] \in DOMAIN byID /\ byID[doc.id[p]] = p
    /\ \A i \in DOMAIN byID : byID[i] \in DOMAIN byPointer /\ doc.id[byID[i]] = i
    /\ Frames \subseteq DOMAIN byPointer
    /\ Once(stack)

(* An interned coordinate's ID holds its node once its frame is gone, and  *)
(* none before; its namespace is a source's.  Any other node was minted,   *)
(* into a namespace of minted nodes, or is a primitive.                    *)
Nodes ==
    /\ \A p \in DOMAIN byPointer \ Frames :
          doc.id[p] \in DOMAIN reg /\ reg[doc.id[p]] = p
    /\ \A p \in Frames : doc.id[p] \notin DOMAIN reg
    /\ \A p \in DOMAIN byPointer :
          SpaceOf[doc.id[p]] \in DOMAIN spaces /\ spaces[SpaceOf[doc.id[p]]] = FALSE
    /\ \A i \in DOMAIN reg :
          \/ i \in DOMAIN byID
          \/ i \in Uses("prim")
          \/ SpaceOf[i] \in DOMAIN spaces /\ spaces[SpaceOf[i]] = TRUE

(* All a coordinate's lowering asks for is still to be asked by its frame, *)
(* or has been: what it interns is interned and what it names promised.    *)
Answered(x) ==
    /\ x.op = "intern" => x.on \in DOMAIN byPointer
    /\ x.op = "promise" => x.on \in promised
Lowered ==
    \A p \in DOMAIN byPointer : \A x \in doc.work[p] :
        (p \in Frames /\ x \in todo[p]) \/ Answered(x)

(* Nothing is interned or promised that the document does not lead to.     *)
Within == DOMAIN byPointer \subseteq Reach /\ promised \subseteq Reach

(* Every promise is waiting, or its coordinate is interned; every root is  *)
(* waiting, or interned.                                                   *)
Kept ==
    /\ ~cancelled => promised \subseteq promises \cup round \cup DOMAIN byPointer
    /\ doc.roots \ roots \subseteq DOMAIN byPointer

(* Where the compile is says what is left.                                 *)
Phases ==
    /\ phase # "lower" => roots = {} \/ cancelled
    /\ phase \in {"lower", "fulfil"} => taken = << >>
    /\ phase \in {"settle", "end"} =>
          stack = << >> /\ (cancelled \/ (promises = {} /\ round = {}))

(* Nothing the registry leaves to other checks has happened to a node.     *)
Trusted == Grammatical /\ ~Taken({"write", "swap"})

Sane ==
    refused = {} => Inverted /\ Lowered /\ Within /\ Kept /\ (Trusted => Nodes)

(* What is left to lower and to ask is the document's.                     *)
Asking ==
    roots \subseteq doc.roots /\ \A p \in Pointer : todo[p] \subseteq doc.work[p]

IInv == TypeOK /\ IsFiniteSet(DOMAIN reg) /\ Asking /\ Phases /\ Sane

-----------------------------------------------------------------------------
(* Documents, maps and stacks.                                             *)

(* The fields of a document.                                               *)
LEMMA Fields ==
    ASSUME doc \in Document
    PROVE  /\ doc.roots \subseteq Pointer /\ doc.nil \subseteq Pointer
           /\ doc.id \in [Pointer -> TypeID]
           /\ doc.work \in [Pointer -> SUBSET Item]
           /\ doc.deed \in [Pointer -> Deed] /\ doc.aim \in [Pointer -> TypeID]
           /\ doc.into \in [Pointer -> TypeID] /\ doc.alike \in BOOLEAN
  BY DEF Document

(* The coordinates an item of a document's work may name.                  *)
LEMMA ItemOn ==
    ASSUME NEW x \in Item, x.op \in {"intern", "promise"}
    PROVE  x.on \in Pointer
  BY DEF Item, OnPointer, OnID

(* Put gives one key its value and leaves the others theirs.               *)
LEMMA PutMap ==
    ASSUME NEW f, NEW S, NEW T, PartialMap(f, S, T), NEW k \in S, NEW v \in T
    PROVE  /\ PartialMap(Put(f, k, v), S, T)
           /\ DOMAIN Put(f, k, v) = DOMAIN f \cup {k}
           /\ Put(f, k, v)[k] = v
           /\ \A x \in DOMAIN f : x # k => Put(f, k, v)[x] = f[x]
  BY DEF PartialMap, Put

(* Delete takes one key out.                                               *)
LEMMA DeleteMap ==
    ASSUME NEW f, NEW S, NEW T, PartialMap(f, S, T), NEW k
    PROVE  /\ PartialMap(Delete(f, k), S, T)
           /\ DOMAIN Delete(f, k) = DOMAIN f \ {k}
           /\ \A x \in DOMAIN f : x # k => Delete(f, k)[x] = f[x]
  BY DEF PartialMap, Delete

(* A frame pushed.                                                         *)
LEMMA PushFrame ==
    ASSUME NEW S, NEW s \in Seq(S), NEW p \in S
    PROVE  /\ Append(s, p) \in Seq(S)
           /\ ElementsOf(Append(s, p)) = ElementsOf(s) \cup {p}
           /\ (Once(s) /\ p \notin ElementsOf(s)) => Once(Append(s, p))
<1> DEFINE t == Append(s, p)
<1>1. /\ t \in Seq(S) /\ Len(t) = Len(s) + 1
      /\ DOMAIN t = 1..(Len(s) + 1) /\ DOMAIN s = 1..Len(s) /\ Len(s) \in Nat
      /\ t[Len(s) + 1] = p
      /\ \A n \in 1..Len(s) : t[n] = s[n]
  OBVIOUS
<1> HIDE DEF t
<1>2. ElementsOf(t) = ElementsOf(s) \cup {p}
  BY <1>1 DEF ElementsOf
<1>3. (Once(s) /\ p \notin ElementsOf(s)) => Once(t)
  BY <1>1 DEF ElementsOf, Once
<1> QED
  BY <1>1, <1>2, <1>3 DEF t

(* The innermost frame popped.                                             *)
LEMMA PopFrame ==
    ASSUME NEW s \in Seq(Pointer), s # << >>
    PROVE  /\ SubSeq(s, 1, Len(s) - 1) \in Seq(Pointer)
           /\ s[Len(s)] \in Pointer /\ s[Len(s)] \in ElementsOf(s)
           /\ Once(s) => /\ ElementsOf(SubSeq(s, 1, Len(s) - 1)) = ElementsOf(s) \ {s[Len(s)]}
                         /\ Once(SubSeq(s, 1, Len(s) - 1))
<1> DEFINE t == SubSeq(s, 1, Len(s) - 1)
<1>1. /\ Len(s) \in Nat /\ Len(s) > 0 /\ DOMAIN s = 1..Len(s)
      /\ s[Len(s)] \in Pointer
  OBVIOUS
<1>2. /\ t \in Seq(Pointer) /\ Len(t) = Len(s) - 1
      /\ DOMAIN t = 1..(Len(s) - 1)
      /\ \A n \in 1..(Len(s) - 1) : t[n] = s[n]
  BY <1>1
<1> HIDE DEF t
<1>3. s[Len(s)] \in ElementsOf(s)
  BY <1>1 DEF ElementsOf
<1>4. Once(s) => ElementsOf(t) = ElementsOf(s) \ {s[Len(s)]}
  BY <1>1, <1>2 DEF ElementsOf, Once
<1>5. Once(s) => Once(t)
  BY <1>1, <1>2 DEF Once
<1> QED
  BY <1>1, <1>2, <1>3, <1>4, <1>5 DEF t

(* What a document leads to holds its roots and all their lowerings name.  *)
LEMMA ReachClosed ==
    ASSUME doc \in Document
    PROVE  /\ doc.roots \subseteq Reach
           /\ \A p \in Reach : \A x \in doc.work[p] :
                 x.op \in {"intern", "promise"} => x.on \in Reach
<1>1. doc.roots \subseteq Reach
  BY Fields DEF Reach, Closed
<1>2. ASSUME NEW p \in Reach, NEW x \in doc.work[p], x.op \in {"intern", "promise"}
      PROVE  x.on \in Reach
  <2>1. p \in Pointer /\ x \in Item
    BY <1>2, Fields DEF Reach
  <2>2. x.on \in Pointer
    BY <1>2, <2>1, ItemOn
  <2>3. x.on \in Below(p)
    BY <1>2 DEF Below
  <2>4. ASSUME NEW S \in SUBSET Pointer, Closed(S)
        PROVE  x.on \in S
    BY <1>2, <2>3, <2>4 DEF Reach, Closed
  <2> QED
    BY <2>2, <2>4 DEF Reach
<1> QED
  BY <1>1, <1>2

(* The document stays, and with it what is said of it alone.               *)
LEMMA DocStays ==
    ASSUME doc' = doc
    PROVE  /\ Reach' = Reach /\ Grammatical' = Grammatical
           /\ Uses("prim")' = Uses("prim")
           /\ taken' = taken => /\ Trusted' = Trusted
                               /\ \A deeds : Taken(deeds)' = Taken(deeds)
<1>1. Reach' = Reach
  BY DEF Reach, Closed, Below
<1>2. \A op : Uses(op)' = Uses(op)
  BY DEF Uses
<1>3. \A d : Aims(d)' = Aims(d)
  BY DEF Aims
<1>4. Addressed' = Addressed
  BY DEF Addressed, Uses, Aims
<1>5. Grammatical' = Grammatical
  BY <1>4 DEF Grammatical, Uses, Aims
<1>6. taken' = taken => \A deeds : Taken(deeds)' = Taken(deeds)
  BY DEF Taken
<1>7. taken' = taken => Trusted' = Trusted
  BY <1>5 DEF Trusted, Taken
<1> QED
  BY <1>1, <1>2, <1>5, <1>6, <1>7

-----------------------------------------------------------------------------
(* The type invariant.                                                     *)

(* The claims an ID makes keep the tables maps: of its namespace, and of   *)
(* its coordinate.                                                         *)
LEMMA SpaceTypes ==
    ASSUME TypeOK, NEW i \in TypeID, NEW minted \in BOOLEAN
    PROVE  PartialMap(claimSpace(i, minted), Space, BOOLEAN)
<1>1. SpaceOf[i] # NoSpace => SpaceOf[i] \in Space
  BY SpaceAssumption
<1> QED
  BY <1>1, PutMap DEF TypeOK, claimSpace

(* The claim of a coordinate.                                              *)
LEMMA IDTypes ==
    ASSUME TypeOK, NEW i \in TypeID, NEW p \in Pointer
    PROVE  PartialMap(claimID(i, p), TypeID, Pointer)
  BY PutMap DEF TypeOK, claimID

(* Why adds at most a reason.                                              *)
LEMMA WhyReason ==
    ASSUME NEW r \in Reason, NEW b
    PROVE  Why(r, b) \subseteq Reason
  BY DEF Why

(* Entering a frame keeps the tables, the refusals and the stack typed.    *)
LEMMA EnterTypes ==
    ASSUME TypeOK, NEW p \in Pointer, Enter(p)
    PROVE  /\ PartialMap(byPointer', Pointer, TypeID)
           /\ PartialMap(byID', TypeID, Pointer)
           /\ PartialMap(spaces', Space, BOOLEAN)
           /\ refused' \subseteq Reason
           /\ stack' \in Seq(Pointer)
<1>1. doc.id[p] \in TypeID
  BY Fields DEF TypeOK
<1>2. PartialMap(byPointer', Pointer, TypeID)
  BY <1>1, PutMap DEF TypeOK, Enter
<1>3. /\ PartialMap(byID', TypeID, Pointer)
      /\ PartialMap(spaces', Space, BOOLEAN)
  BY <1>1, SpaceTypes, IDTypes DEF Enter
<1>4. "space" \in Reason /\ "id" \in Reason
  BY DEF Reason
<1>5. refused' \subseteq Reason
  BY <1>4, WhyReason DEF TypeOK, Enter
<1>6. stack' \in Seq(Pointer)
  BY PushFrame DEF TypeOK, Enter
<1> QED
  BY <1>2, <1>3, <1>5, <1>6

(* Registering a node keeps the registry, the spaces and the refusals      *)
(* typed.                                                                  *)
LEMMA RegisterTypes ==
    ASSUME TypeOK, NEW i \in TypeID, NEW node \in Node, RegisterNode(i, node)
    PROVE  /\ PartialMap(reg', TypeID, Node)
           /\ PartialMap(spaces', Space, BOOLEAN)
           /\ refused' \subseteq Reason
<1>1. PartialMap(reg', TypeID, Node)
  BY PutMap DEF TypeOK, RegisterNode
<1>2. PartialMap(spaces', Space, BOOLEAN)
  BY SpaceTypes DEF RegisterNode
<1>3. "space" \in Reason /\ "held" \in Reason
  BY DEF Reason
<1>4. refused' \subseteq Reason
  BY <1>3, WhyReason DEF TypeOK, RegisterNode
<1> QED
  BY <1>1, <1>2, <1>4

(* What the innermost frame may be, and what is left of its work once it   *)
(* has asked for one thing.                                                *)
LEMMA AskTypes ==
    ASSUME TypeOK, NEW op, NEW on, Asks(op, on)
    PROVE  /\ Top \in Pointer /\ Top \in Frames
           /\ [op |-> op, on |-> on] \in Item
           /\ Asked(op, on) \in [Pointer -> SUBSET Item]
           /\ \A p \in Pointer : Asked(op, on)[p] \subseteq todo[p]
           /\ \A p \in Pointer : \A x \in todo[p] :
                 x \in Asked(op, on)[p] \/ (p = Top /\ x = [op |-> op, on |-> on])
<1>1. stack \in Seq(Pointer) /\ stack # << >> /\ todo \in [Pointer -> SUBSET Item]
      /\ [op |-> op, on |-> on] \in todo[Top]
  BY DEF TypeOK, Asks
<1>2. Top \in Pointer /\ Top \in Frames
  BY <1>1, PopFrame DEF Top, Frames
<1>3. [op |-> op, on |-> on] \in Item
  BY <1>1, <1>2
<1> DEFINE x0 == [op |-> op, on |-> on]
<1>4. Asked(op, on) = [todo EXCEPT ![Top] = @ \ {x0}]
  BY DEF Asked
<1> HIDE DEF x0
<1>5. /\ Asked(op, on) \in [Pointer -> SUBSET Item]
      /\ \A p \in Pointer : Asked(op, on)[p] \subseteq todo[p]
      /\ \A p \in Pointer : \A x \in todo[p] :
            x \in Asked(op, on)[p] \/ (p = Top /\ x = x0)
  BY <1>1, <1>2, <1>4
<1> QED
  BY <1>2, <1>3, <1>5 DEF x0

(* A settlement keeps what it touches typed.                               *)
LEMMA SettleTypes ==
    ASSUME TypeOK, NEW p \in Pointer, SettleNode(p)
    PROVE  /\ PartialMap(reg', TypeID, Node) /\ PartialMap(spaces', Space, BOOLEAN)
           /\ refused' \subseteq Reason
<1>1. doc.aim[p] \in TypeID /\ doc.into[p] \in TypeID /\ Minted \in Node /\ MintedBy(p) \in Node
  BY Fields DEF TypeOK, Node, MintedBy
<1>2. "size" \in Reason /\ "late" \in Reason
  BY DEF Reason
<1>3. CASE Mints(p)
  BY <1>1, <1>3, RegisterTypes DEF Mints
<1>4. CASE WritesPast(p)
  BY <1>1, <1>2, <1>4, PutMap, WhyReason DEF TypeOK, WritesPast
<1>5. CASE Removes(p)
  BY <1>1, <1>2, <1>5, DeleteMap, WhyReason DEF TypeOK, Removes
<1>6. CASE AsksTooLate(p)
  BY <1>2, <1>6 DEF TypeOK, AsksTooLate
<1>7. CASE Rewrites(p)
  BY <1>7 DEF TypeOK, Rewrites
<1>8. CASE Swaps(p)
  <2>1. PartialMap(Delete(reg, doc.aim[p]), TypeID, Node)
    BY DeleteMap DEF TypeOK
  <2>2. PartialMap(reg', TypeID, Node)
    BY <1>1, <1>8, <2>1, PutMap DEF Swaps
  <2> QED
    BY <1>2, <1>8, <2>2, WhyReason DEF TypeOK, Swaps
<1> QED
  BY <1>3, <1>4, <1>5, <1>6, <1>7, <1>8 DEF SettleNode

(* Every step keeps the state typed.                                       *)
LEMMA TypeStep ==
    ASSUME TypeOK, [Next]_vars
    PROVE  TypeOK'
<1>1. ASSUME NEW c \in Pointer, InternHit(c)
      PROVE  TypeOK'
  BY <1>1, AskTypes DEF TypeOK, InternHit, tables, promiseVars, settleVars, finishVars, walkVars
<1>2. ASSUME NEW c \in Pointer, Intern(c)
      PROVE  TypeOK'
  <2>1. /\ Asked("intern", c) \in [Pointer -> SUBSET Item]
        /\ doc.work[c] \in SUBSET Item
    BY <1>2, AskTypes, Fields DEF TypeOK, Intern
  <2>2. todo' \in [Pointer -> SUBSET Item]
    BY <1>2, <2>1 DEF Intern
  <2> QED
    BY <1>2, <2>2, EnterTypes DEF TypeOK, Intern, tables, promiseVars, settleVars, finishVars, walkVars
<1>3. ASSUME NEW p \in Pointer, LowerRoot(p)
      PROVE  TypeOK'
  <2>1. doc.work[p] \in SUBSET Item
    BY Fields DEF TypeOK
  <2>2. CASE Owned(p)
    BY <1>3, <2>2 DEF TypeOK, LowerRoot, tables, promiseVars, settleVars, finishVars, walkVars
  <2>3. CASE ~Owned(p)
    BY <1>3, <2>1, <2>3, EnterTypes DEF TypeOK, LowerRoot, tables, promiseVars, settleVars, finishVars, walkVars
  <2> QED
    BY <2>2, <2>3
<1>4. ASSUME Built
      PROVE  TypeOK'
  <2>1. Top \in Pointer /\ Leave \in Seq(Pointer)
    BY <1>4, PopFrame DEF TypeOK, Built, Top, Leave
  <2>2. doc.id[Top] \in TypeID /\ Top \in Node
    BY <2>1, Fields DEF TypeOK, Node
  <2> QED
    BY <1>4, <2>1, <2>2, PutMap DEF TypeOK, Built, tables, promiseVars, settleVars, finishVars, walkVars
<1>5. ASSUME BuiltNil
      PROVE  TypeOK'
  <2>1. Top \in Pointer /\ Leave \in Seq(Pointer)
    BY <1>5, PopFrame DEF TypeOK, BuiltNil, Top, Leave
  <2>2. "nil" \in Reason
    BY DEF Reason
  <2> QED
    BY <1>5, <2>1, <2>2, DeleteMap DEF TypeOK, BuiltNil, tables, promiseVars, settleVars, finishVars, walkVars
<1>6. ASSUME NEW i \in TypeID, Register(i)
      PROVE  TypeOK'
  <2>1. MintedBy(Top) \in Node
    BY <1>6, AskTypes DEF TypeOK, Register, MintedBy, Node
  <2> QED
    BY <1>6, <2>1, AskTypes, RegisterTypes DEF TypeOK, Register, tables, promiseVars, settleVars, finishVars, walkVars
<1>7. ASSUME NEW i \in TypeID, PrimRef(i)
      PROVE  TypeOK'
  <2>1. Prim \in Node
    BY DEF Node
  <2> QED
    BY <1>7, <2>1, AskTypes, PutMap DEF TypeOK, PrimRef, tables, promiseVars, settleVars, finishVars, walkVars
<1>8. ASSUME NEW q \in Pointer, Promise(q)
      PROVE  TypeOK'
  BY <1>8, AskTypes DEF TypeOK, Promise, Queued, tables, promiseVars, settleVars, finishVars, walkVars
<1>9. ASSUME NEW p \in Pointer, Complete(p)
      PROVE  TypeOK'
  <2>1. [op |-> "complete", on |-> p] \in Settlement
    BY DEF Settlement
  <2> QED
    BY <1>9, <2>1, AskTypes DEF TypeOK, Complete, tables, promiseVars, settleVars, finishVars, walkVars
<1>10. ASSUME NEW p \in Pointer, Defer(p)
      PROVE  TypeOK'
  <2>1. [op |-> "defer", on |-> p] \in Settlement
    BY DEF Settlement
  <2> QED
    BY <1>10, <2>1, AskTypes DEF TypeOK, Defer, tables, promiseVars, settleVars, finishVars, walkVars
<1>11. ASSUME NEW p \in Pointer, BlankCall(p)
      PROVE  TypeOK'
  <2>1. "blank" \in Reason
    BY DEF Reason
  <2> QED
    BY <1>11, <2>1, AskTypes DEF TypeOK, BlankCall, tables, promiseVars, settleVars, finishVars, walkVars
<1>12. ASSUME Stopped
      PROVE  TypeOK'
  BY <1>12 DEF TypeOK, Stopped, Phase, Outcome, tables, promiseVars, settleVars, finishVars, walkVars
<1>13. ASSUME Finish
      PROVE  TypeOK'
  BY <1>13 DEF TypeOK, Finish, Phase, tables, promiseVars, settleVars, finishVars, walkVars
<1>14. ASSUME TakeRound
      PROVE  TypeOK'
  BY <1>14 DEF TypeOK, TakeRound, tables, promiseVars, settleVars, finishVars, walkVars
<1>15. ASSUME NEW q \in Pointer, Fulfil(q)
      PROVE  TypeOK'
  <2>1. doc.work[q] \in SUBSET Item
    BY Fields DEF TypeOK
  <2>2. CASE Owned(q)
    BY <1>15, <2>2 DEF TypeOK, Fulfil, tables, promiseVars, settleVars, finishVars, walkVars
  <2>3. CASE ~Owned(q)
    BY <1>15, <2>1, <2>3, EnterTypes DEF TypeOK, Fulfil, tables, promiseVars, settleVars, finishVars, walkVars
  <2> QED
    BY <2>2, <2>3
<1>16. ASSUME NEW q \in Pointer, Fulfilled(q)
      PROVE  TypeOK'
  <2>1. Why("promise", ~Owned(q)) \subseteq Reason
    BY WhyReason DEF Reason
  <2> QED
    BY <1>16, <2>1 DEF TypeOK, Fulfilled, tables, promiseVars, settleVars, finishVars, walkVars
<1>17. ASSUME Settle
      PROVE  TypeOK'
  <2>1. completing \o pending \in Seq(Settlement)
    BY DEF TypeOK
  <2> QED
    BY <1>17, <2>1 DEF TypeOK, Settle, Phase, tables, promiseVars, settleVars, finishVars, walkVars
<1>18. ASSUME TakeSettlement
      PROVE  TypeOK'
  <2>1. /\ Head(queue) \in Settlement /\ Tail(queue) \in Seq(Settlement)
        /\ Append(taken, Head(queue)) \in Seq(Settlement)
    BY <1>18 DEF TypeOK, TakeSettlement
  <2>2. Head(queue).on \in Pointer
    BY <2>1 DEF Settlement
  <2>3. /\ PartialMap(reg', TypeID, Node) /\ PartialMap(spaces', Space, BOOLEAN)
        /\ refused' \subseteq Reason
    BY <1>18, <2>2, SettleTypes DEF TakeSettlement
  <2> QED
    BY <1>18, <2>1, <2>3 DEF TypeOK, TakeSettlement, tables, promiseVars, settleVars, finishVars, walkVars
<1>19. ASSUME Report
      PROVE  TypeOK'
  BY <1>19 DEF TypeOK, Report, Phase, Outcome, tables, promiseVars, settleVars, finishVars, walkVars
<1>20. ASSUME Cancel
      PROVE  TypeOK'
  BY <1>20 DEF TypeOK, Cancel, tables, promiseVars, settleVars, finishVars, walkVars
<1>21. ASSUME UNCHANGED vars
      PROVE  TypeOK'
  BY <1>21 DEF TypeOK, vars, tables, promiseVars, settleVars, finishVars, walkVars
<1> QED
  BY <1>1, <1>2, <1>3, <1>4, <1>5, <1>6, <1>7, <1>8, <1>9, <1>10, <1>11, <1>12, <1>13, <1>14, <1>15, <1>16, <1>17, <1>18, <1>19, <1>20, <1>21
     DEF Next, Step

(* A compile starts typed.                                                 *)
LEMMA InitTypes ==
    ASSUME Init
    PROVE  TypeOK
<1>1. doc \in Document
  BY DocumentsAssumption DEF Init
<1>2. \A S, T : PartialMap(<< >>, S, T)
  BY DEF PartialMap
<1>3. << >> \in Seq(Pointer) /\ << >> \in Seq(Settlement)
  OBVIOUS
<1>4. doc.roots \subseteq Pointer
  BY <1>1, Fields
<1> QED
  BY <1>1, <1>2, <1>3, <1>4 DEF Init, TypeOK, Phase, Outcome

(* The state of a compile keeps its types, whatever is compiled and        *)
(* whatever the order (types.go, promise.go, settle.go).                   *)
THEOREM TypeCorrect == Spec => []TypeOK
<1>1. Init => TypeOK
  BY InitTypes
<1>2. TypeOK /\ [Next]_vars => TypeOK'
  BY TypeStep
<1> QED
  BY <1>1, <1>2, PTL DEF Spec

-----------------------------------------------------------------------------
(* What the steps of a build do to the tables.                             *)

(* Entering a frame for a coordinate nobody has interned, without a        *)
(* refusal: its ID is nobody's, so it holds no node, and its namespace is  *)
(* a source's.                                                             *)
LEMMA EnterSane ==
    ASSUME TypeOK, Inverted, Lowered, DOMAIN byPointer \subseteq Reach,
           Trusted => Nodes,
           NEW p \in Pointer, p \in Reach, ~Owned(p), Enter(p), refused' = {},
           doc' = doc, reg' = reg, promised' = promised,
           todo'[p] = doc.work[p],
           \A q \in Pointer \ {p} : \A x \in todo[q] :
               x \in todo'[q] \/ Answered(x)'
    PROVE  /\ Inverted' /\ Lowered' /\ (Trusted => Nodes')
           /\ DOMAIN byPointer' \subseteq Reach
           /\ DOMAIN byPointer' = DOMAIN byPointer \cup {p}
<1> DEFINE i == doc.id[p]
<1>1. i \in TypeID /\ doc.id \in [Pointer -> TypeID] /\ doc.work \in [Pointer -> SUBSET Item]
  BY Fields DEF TypeOK
<1>2. ~SpaceClash(i, FALSE) /\ ~IDClash(i, p)
  BY DEF Enter, Why
<1>3. /\ DOMAIN byPointer' = DOMAIN byPointer \cup {p} /\ byPointer'[p] = i
      /\ \A q \in DOMAIN byPointer : byPointer'[q] = byPointer[q]
      /\ DOMAIN byPointer \subseteq Pointer
  BY DEF Put, TypeOK, Enter, Owned, PartialMap
<1>4. /\ DOMAIN byID' = DOMAIN byID \cup {i} /\ byID'[i] = p
      /\ \A j \in DOMAIN byID : j # i => byID'[j] = byID[j]
  BY <1>2 DEF Put, Enter, claimID
<1>5. i \notin DOMAIN byID
  BY <1>2 DEF Inverted, IDClash, Owned
<1>6. /\ Frames' = Frames \cup {p} /\ Once(stack')
      /\ p \notin Frames
  BY PushFrame DEF TypeOK, Enter, Frames, Inverted, Owned
<1>7. Inverted'
  BY <1>1, <1>3, <1>4, <1>5, <1>6 DEF Inverted
<1>8. Lowered'
  <2> SUFFICES ASSUME NEW q \in DOMAIN byPointer', NEW x \in doc.work[q]
               PROVE  (q \in Frames' /\ x \in todo'[q]) \/ Answered(x)'
    BY DEF Lowered
  <2>1. CASE q = p
    BY <1>6, <2>1
  <2>2. CASE q # p
    <3>1. q \in DOMAIN byPointer /\ q \in Pointer
      BY <1>3, <2>2
    <3>2. CASE q \in Frames /\ x \in todo[q]
      BY <1>6, <2>2, <3>1, <3>2
    <3>3. CASE Answered(x)
      BY <1>3, <3>3 DEF Answered
    <3> QED
      BY <3>1, <3>2, <3>3 DEF Lowered
  <2> QED
    BY <2>1, <2>2
<1>9. ASSUME Trusted
      PROVE  Nodes'
  <2>1. SpaceOf[i] # NoSpace /\ i \notin Uses("prim") /\ SpaceOf[i] \in Space
    <3>1. i \in Addressed
      BY <1>1 DEF Addressed
    <3> QED
      BY <1>1, <1>9, <3>1, SpaceAssumption DEF Grammatical, Trusted
  <2>2. /\ DOMAIN spaces' = DOMAIN spaces \cup {SpaceOf[i]}
        /\ spaces'[SpaceOf[i]] = FALSE
        /\ \A z \in DOMAIN spaces : spaces'[z] = spaces[z]
    <3>1. spaces' = Put(spaces, SpaceOf[i], FALSE)
      BY <1>2, <2>1 DEF Enter, claimSpace
    <3> HIDE DEF i
    <3>2. /\ DOMAIN spaces' = DOMAIN spaces \cup {SpaceOf[i]}
          /\ spaces'[SpaceOf[i]] = FALSE
          /\ \A z \in DOMAIN spaces : z # SpaceOf[i] => spaces'[z] = spaces[z]
      BY <3>1 DEF Put
    <3> QED
      BY <1>2, <3>2 DEF SpaceClash
  <2>3. i \notin DOMAIN reg
    BY <1>2, <1>5, <1>9, <2>1 DEF Nodes, SpaceClash
  <2>4. Uses("prim")' = Uses("prim")
    BY DocStays
  <2> HIDE DEF i
  <2>5. i = doc.id[p]
    BY DEF i
  <2>6. \A q \in DOMAIN byPointer' \ Frames' :
           doc.id[q] \in DOMAIN reg' /\ reg'[doc.id[q]] = q
    BY <1>3, <1>6, <1>9 DEF Nodes
  <2>7. \A q \in Frames' : doc.id[q] \notin DOMAIN reg'
    BY <1>6, <1>9, <2>3, <2>5 DEF Nodes
  <2>8. \A q \in DOMAIN byPointer' :
           SpaceOf[doc.id[q]] \in DOMAIN spaces' /\ spaces'[SpaceOf[doc.id[q]]] = FALSE
    BY <1>3, <1>9, <2>2, <2>5 DEF Nodes
  <2>9. \A j \in DOMAIN reg' :
          \/ j \in DOMAIN byID'
          \/ j \in Uses("prim")
          \/ SpaceOf[j] \in DOMAIN spaces' /\ spaces'[SpaceOf[j]] = TRUE
    BY <1>4, <1>9, <2>2 DEF Nodes
  <2> QED
    BY <2>4, <2>6, <2>7, <2>8, <2>9 DEF Nodes
<1> QED
  BY <1>3, <1>7, <1>8, <1>9

(* Registering a node without a refusal: into a namespace of minted nodes, *)
(* so under nobody's ID, and over no node.                                 *)
LEMMA RegisterSane ==
    ASSUME TypeOK, Inverted, Nodes, Grammatical,
           NEW i \in Addressed, i \in TypeID, NEW node \in Node, RegisterNode(i, node),
           refused' = {}, doc' = doc, byPointer' = byPointer, byID' = byID,
           stack' = stack
    PROVE  Nodes' /\ \A j \in DOMAIN reg : j \in DOMAIN reg' /\ reg'[j] = reg[j]
<1>1. ~SpaceClash(i, TRUE)
  BY DEF RegisterNode, Why
<1>2. SpaceOf[i] # NoSpace /\ SpaceOf[i] \in Space
  BY SpaceAssumption DEF Grammatical
<1>3. /\ DOMAIN spaces' = DOMAIN spaces \cup {SpaceOf[i]}
      /\ spaces'[SpaceOf[i]] = TRUE
      /\ \A z \in DOMAIN spaces : z # SpaceOf[i] => spaces'[z] = spaces[z]
  <2>1. spaces' = Put(spaces, SpaceOf[i], TRUE)
    BY <1>1, <1>2 DEF RegisterNode, claimSpace
  <2> QED
    BY <2>1 DEF Put
<1>4. \A z \in DOMAIN spaces : spaces'[z] = spaces[z]
  BY <1>1, <1>3 DEF SpaceClash
<1>5. /\ DOMAIN reg' = DOMAIN reg \cup {i}
      /\ \A j \in DOMAIN reg : reg'[j] = reg[j]
  BY DEF Put, RegisterNode
<1>6. \A p \in DOMAIN byPointer : doc.id[p] # i
  BY <1>1, <1>2 DEF Nodes, SpaceClash
<1>7. Uses("prim")' = Uses("prim") /\ Frames' = Frames
  BY DocStays DEF Frames
<1>8. Frames \subseteq DOMAIN byPointer
  BY DEF Inverted
<1>9. \A q \in DOMAIN byPointer' \ Frames' :
         doc.id[q] \in DOMAIN reg' /\ reg'[doc.id[q]] = q
  BY <1>5, <1>7 DEF Nodes
<1>10. \A q \in Frames' : doc.id[q] \notin DOMAIN reg'
  BY <1>5, <1>6, <1>7, <1>8 DEF Nodes
<1>11. \A q \in DOMAIN byPointer' :
         SpaceOf[doc.id[q]] \in DOMAIN spaces' /\ spaces'[SpaceOf[doc.id[q]]] = FALSE
  BY <1>3, <1>4 DEF Nodes
<1>12. \A j \in DOMAIN reg' :
          \/ j \in DOMAIN byID'
          \/ j \in Uses("prim")
          \/ SpaceOf[j] \in DOMAIN spaces' /\ spaces'[SpaceOf[j]] = TRUE
  BY <1>3, <1>4, <1>5 DEF Nodes
<1> QED
  BY <1>5, <1>7, <1>9, <1>10, <1>11, <1>12 DEF Nodes

(* A build that has asked for one thing, which is now answered.            *)
LEMMA AskSane ==
    ASSUME TypeOK, Lowered, NEW op, NEW on, Asks(op, on), todo' = Asked(op, on),
           doc' = doc, stack' = stack, byPointer' = byPointer,
           promised \subseteq promised',
           Answered([op |-> op, on |-> on])'
    PROVE  Lowered'
<1> SUFFICES ASSUME NEW q \in DOMAIN byPointer, NEW x \in doc.work[q]
             PROVE  (q \in Frames' /\ x \in todo'[q]) \/ Answered(x)'
  BY DEF Lowered
<1>1. q \in Pointer /\ Frames' = Frames
  BY DEF TypeOK, PartialMap, Frames
<1>2. CASE q \in Frames /\ x \in todo[q]
  BY <1>1, <1>2, AskTypes
<1>3. CASE Answered(x)
  BY <1>3 DEF Answered
<1> QED
  BY <1>2, <1>3 DEF Lowered

-----------------------------------------------------------------------------
(* The steps that touch neither the tables nor the nodes.                  *)
LEMMA TablesStay ==
    ASSUME doc' = doc, reg' = reg, byPointer' = byPointer, byID' = byID,
           spaces' = spaces, stack' = stack, taken' = taken
    PROVE  /\ Inverted => Inverted'
           /\ Nodes => Nodes'
           /\ Trusted' = Trusted /\ Reach' = Reach
<1>1. /\ Frames' = Frames /\ Uses("prim")' = Uses("prim")
      /\ Trusted' = Trusted /\ Reach' = Reach
  BY DocStays DEF Frames
<1>2. Inverted => Inverted'
  BY <1>1 DEF Inverted
<1>3. Nodes => Nodes'
  BY <1>1 DEF Nodes
<1> QED
  BY <1>1, <1>2, <1>3

(* What a lowering asks for is part of its document, so what it interns or *)
(* promises is what the document leads to.                                 *)
LEMMA AskReach ==
    ASSUME TypeOK, Asking, Inverted, Within, NEW op \in {"intern", "promise"},
           NEW on, Asks(op, on)
    PROVE  on \in Reach
<1>1. Top \in Pointer /\ Top \in Frames /\ [op |-> op, on |-> on] \in todo[Top]
  BY AskTypes DEF Asks
<1>2. Top \in Reach /\ [op |-> op, on |-> on] \in doc.work[Top]
  BY <1>1 DEF Inverted, Within, Asking
<1> DEFINE x == [op |-> op, on |-> on]
<1>3. x.op = op /\ x.on = on
  OBVIOUS
<1> HIDE DEF x
<1> QED
  BY <1>2, <1>3, ReachClosed DEF TypeOK, x

(* A visit of an interned coordinate.                                      *)
LEMMA InternHitKeeps ==
    ASSUME IInv, NEW c \in Pointer, InternHit(c)
    PROVE  Asking' /\ Phases' /\ Sane'
<1> USE DEF IInv
<1>1. /\ Asks("intern", c) /\ todo' = Asked("intern", c)
      /\ doc' = doc /\ stack' = stack /\ byPointer' = byPointer /\ byID' = byID
      /\ taken' = taken
      /\ roots' = roots /\ round' = round /\ phase' = phase /\ cancelled' = cancelled
  BY DEF InternHit, tables, promiseVars, settleVars, finishVars, walkVars
<1>2. Asking'
  BY <1>1, AskTypes DEF Asking
<1>3. Phases'
  BY <1>1 DEF Phases, Asks
<1> SUFFICES ASSUME refused' = {}
             PROVE  Inverted' /\ Lowered' /\ Within' /\ Kept' /\ (Trusted' => Nodes')
  BY <1>2, <1>3 DEF Sane
<1>4. refused = {} /\ Inverted /\ Lowered /\ Within /\ Kept /\ (Trusted => Nodes)
  BY DEF Sane, InternHit, RegisterNode
<1>5. Inverted' /\ Trusted' = Trusted /\ Reach' = Reach
  BY <1>1, <1>4, DocStays DEF Inverted, Frames
<1>6. promised \subseteq promised' /\ Answered([op |-> "intern", on |-> c])'
  BY <1>1, <1>4 DEF InternHit, Answered, Owned, tables, promiseVars, settleVars, finishVars, walkVars
<1>7. Lowered'
  BY <1>1, <1>4, <1>6, AskSane
<1>8. Within' /\ Kept'
  BY <1>1, <1>4, <1>5 DEF Within, Kept, InternHit, tables, promiseVars, settleVars, finishVars, walkVars
<1>9. Trusted => Nodes'
  BY <1>1, <1>4, TablesStay DEF InternHit, tables, promiseVars, settleVars, finishVars, walkVars
<1> QED
  BY <1>5, <1>7, <1>8, <1>9
(* A settlement queued to complete.                                        *)
LEMMA CompleteKeeps ==
    ASSUME IInv, NEW p \in Pointer, Complete(p)
    PROVE  Asking' /\ Phases' /\ Sane'
<1> USE DEF IInv
<1>1. /\ Asks("complete", p) /\ todo' = Asked("complete", p)
      /\ doc' = doc /\ stack' = stack /\ byPointer' = byPointer /\ byID' = byID
      /\ taken' = taken
      /\ roots' = roots /\ round' = round /\ phase' = phase /\ cancelled' = cancelled
  BY DEF Complete, tables, promiseVars, settleVars, finishVars, walkVars
<1>2. Asking'
  BY <1>1, AskTypes DEF Asking
<1>3. Phases'
  BY <1>1 DEF Phases, Asks
<1> SUFFICES ASSUME refused' = {}
             PROVE  Inverted' /\ Lowered' /\ Within' /\ Kept' /\ (Trusted' => Nodes')
  BY <1>2, <1>3 DEF Sane
<1>4. refused = {} /\ Inverted /\ Lowered /\ Within /\ Kept /\ (Trusted => Nodes)
  BY DEF Sane, Complete, RegisterNode
<1>5. Inverted' /\ Trusted' = Trusted /\ Reach' = Reach
  BY <1>1, <1>4, DocStays DEF Inverted, Frames
<1>6. promised \subseteq promised' /\ Answered([op |-> "complete", on |-> p])'
  BY <1>1, <1>4 DEF Complete, Answered, Owned, tables, promiseVars, settleVars, finishVars, walkVars
<1>7. Lowered'
  BY <1>1, <1>4, <1>6, AskSane
<1>8. Within' /\ Kept'
  BY <1>1, <1>4, <1>5 DEF Within, Kept, Complete, tables, promiseVars, settleVars, finishVars, walkVars
<1>9. Trusted => Nodes'
  BY <1>1, <1>4, TablesStay DEF Complete, tables, promiseVars, settleVars, finishVars, walkVars
<1> QED
  BY <1>5, <1>7, <1>8, <1>9
(* A settlement deferred.                                                  *)
LEMMA DeferKeeps ==
    ASSUME IInv, NEW p \in Pointer, Defer(p)
    PROVE  Asking' /\ Phases' /\ Sane'
<1> USE DEF IInv
<1>1. /\ Asks("defer", p) /\ todo' = Asked("defer", p)
      /\ doc' = doc /\ stack' = stack /\ byPointer' = byPointer /\ byID' = byID
      /\ taken' = taken
      /\ roots' = roots /\ round' = round /\ phase' = phase /\ cancelled' = cancelled
  BY DEF Defer, tables, promiseVars, settleVars, finishVars, walkVars
<1>2. Asking'
  BY <1>1, AskTypes DEF Asking
<1>3. Phases'
  BY <1>1 DEF Phases, Asks
<1> SUFFICES ASSUME refused' = {}
             PROVE  Inverted' /\ Lowered' /\ Within' /\ Kept' /\ (Trusted' => Nodes')
  BY <1>2, <1>3 DEF Sane
<1>4. refused = {} /\ Inverted /\ Lowered /\ Within /\ Kept /\ (Trusted => Nodes)
  BY DEF Sane, Defer, RegisterNode
<1>5. Inverted' /\ Trusted' = Trusted /\ Reach' = Reach
  BY <1>1, <1>4, DocStays DEF Inverted, Frames
<1>6. promised \subseteq promised' /\ Answered([op |-> "defer", on |-> p])'
  BY <1>1, <1>4 DEF Defer, Answered, Owned, tables, promiseVars, settleVars, finishVars, walkVars
<1>7. Lowered'
  BY <1>1, <1>4, <1>6, AskSane
<1>8. Within' /\ Kept'
  BY <1>1, <1>4, <1>5 DEF Within, Kept, Defer, tables, promiseVars, settleVars, finishVars, walkVars
<1>9. Trusted => Nodes'
  BY <1>1, <1>4, TablesStay DEF Defer, tables, promiseVars, settleVars, finishVars, walkVars
<1> QED
  BY <1>5, <1>7, <1>8, <1>9
(* A coordinate promised: it is queued unless it was before.               *)
LEMMA PromiseKeeps ==
    ASSUME IInv, NEW q \in Pointer, Promise(q)
    PROVE  Asking' /\ Phases' /\ Sane'
<1> USE DEF IInv
<1>1. /\ Asks("promise", q) /\ todo' = Asked("promise", q)
      /\ doc' = doc /\ stack' = stack /\ byPointer' = byPointer /\ byID' = byID
      /\ taken' = taken
      /\ roots' = roots /\ round' = round /\ phase' = phase /\ cancelled' = cancelled
  BY DEF Promise, tables, promiseVars, settleVars, finishVars, walkVars
<1>2. Asking'
  BY <1>1, AskTypes DEF Asking
<1>3. Phases'
  BY <1>1 DEF Phases, Asks
<1> SUFFICES ASSUME refused' = {}
             PROVE  Inverted' /\ Lowered' /\ Within' /\ Kept' /\ (Trusted' => Nodes')
  BY <1>2, <1>3 DEF Sane
<1>4. refused = {} /\ Inverted /\ Lowered /\ Within /\ Kept /\ (Trusted => Nodes)
  BY DEF Sane, Promise, RegisterNode
<1>5. Inverted' /\ Trusted' = Trusted /\ Reach' = Reach
  BY <1>1, <1>4, DocStays DEF Inverted, Frames
<1>6. promised \subseteq promised' /\ Answered([op |-> "promise", on |-> q])'
  BY <1>1, <1>4 DEF Promise, Answered, Owned, tables, promiseVars, settleVars, finishVars, walkVars
<1>7. Lowered'
  BY <1>1, <1>4, <1>6, AskSane
<1>reach. q \in Reach
  BY <1>1, <1>4, AskReach
<1>8. Within' /\ Kept'
  BY <1>1, <1>4, <1>5, <1>reach DEF Within, Kept, Promise, Queued, tables, promiseVars, settleVars, finishVars, walkVars
<1>9. Trusted => Nodes'
  BY <1>1, <1>4, TablesStay DEF Promise, tables, promiseVars, settleVars, finishVars, walkVars
<1> QED
  BY <1>5, <1>7, <1>8, <1>9
(* A node minted.                                                          *)
LEMMA RegisterKeeps ==
    ASSUME IInv, NEW i \in TypeID, Register(i)
    PROVE  Asking' /\ Phases' /\ Sane'
<1> USE DEF IInv
<1>1. /\ Asks("register", i) /\ todo' = Asked("register", i)
      /\ doc' = doc /\ stack' = stack /\ byPointer' = byPointer /\ byID' = byID
      /\ taken' = taken
      /\ roots' = roots /\ round' = round /\ phase' = phase /\ cancelled' = cancelled
  BY DEF Register, tables, promiseVars, settleVars, finishVars, walkVars
<1>2. Asking'
  BY <1>1, AskTypes DEF Asking
<1>3. Phases'
  BY <1>1 DEF Phases, Asks
<1> SUFFICES ASSUME refused' = {}
             PROVE  Inverted' /\ Lowered' /\ Within' /\ Kept' /\ (Trusted' => Nodes')
  BY <1>2, <1>3 DEF Sane
<1>4. refused = {} /\ Inverted /\ Lowered /\ Within /\ Kept /\ (Trusted => Nodes)
  BY DEF Sane, Register, RegisterNode
<1>5. Inverted' /\ Trusted' = Trusted /\ Reach' = Reach
  BY <1>1, <1>4, DocStays DEF Inverted, Frames
<1>6. promised \subseteq promised' /\ Answered([op |-> "register", on |-> i])'
  BY <1>1, <1>4 DEF Register, Answered, Owned, tables, promiseVars, settleVars, finishVars, walkVars
<1>7. Lowered'
  BY <1>1, <1>4, <1>6, AskSane
<1>8. Within' /\ Kept'
  BY <1>1, <1>4, <1>5 DEF Within, Kept, Register, tables, promiseVars, settleVars, finishVars, walkVars
<1>9. Trusted => Nodes'
  <2> SUFFICES ASSUME Trusted PROVE Nodes'
    OBVIOUS
  <2>1. Top \in Pointer /\ [op |-> "register", on |-> i] \in doc.work[Top]
    BY <1>1, AskTypes DEF Asks, Asking
  <2>2. i \in Addressed
    BY <2>1 DEF Addressed, Uses
  <2>3. MintedBy(Top) \in Node
    BY <2>1 DEF MintedBy, Node
  <2> QED
    BY <1>1, <1>4, <2>2, <2>3, RegisterSane DEF Register, Trusted
<1> QED
  BY <1>5, <1>7, <1>8, <1>9
(* A primitive named, and interned the first time.                         *)
LEMMA PrimRefKeeps ==
    ASSUME IInv, NEW i \in TypeID, PrimRef(i)
    PROVE  Asking' /\ Phases' /\ Sane'
<1> USE DEF IInv
<1>1. /\ Asks("prim", i) /\ todo' = Asked("prim", i)
      /\ doc' = doc /\ stack' = stack /\ byPointer' = byPointer /\ byID' = byID
      /\ taken' = taken
      /\ roots' = roots /\ round' = round /\ phase' = phase /\ cancelled' = cancelled
  BY DEF PrimRef, tables, promiseVars, settleVars, finishVars, walkVars
<1>2. Asking'
  BY <1>1, AskTypes DEF Asking
<1>3. Phases'
  BY <1>1 DEF Phases, Asks
<1> SUFFICES ASSUME refused' = {}
             PROVE  Inverted' /\ Lowered' /\ Within' /\ Kept' /\ (Trusted' => Nodes')
  BY <1>2, <1>3 DEF Sane
<1>4. refused = {} /\ Inverted /\ Lowered /\ Within /\ Kept /\ (Trusted => Nodes)
  BY DEF Sane, PrimRef, RegisterNode
<1>5. Inverted' /\ Trusted' = Trusted /\ Reach' = Reach
  BY <1>1, <1>4, DocStays DEF Inverted, Frames
<1>6. promised \subseteq promised' /\ Answered([op |-> "prim", on |-> i])'
  BY <1>1, <1>4 DEF PrimRef, Answered, Owned, tables, promiseVars, settleVars, finishVars, walkVars
<1>7. Lowered'
  BY <1>1, <1>4, <1>6, AskSane
<1>8. Within' /\ Kept'
  <2>1. /\ byPointer' = byPointer /\ promised' = promised /\ promises' = promises /\ round' = round
        /\ roots' = roots /\ doc' = doc /\ cancelled' = cancelled
    BY <1>1 DEF PrimRef, tables, promiseVars, settleVars, finishVars, walkVars
  <2> QED
    BY <1>4, <1>5, <2>1 DEF Within, Kept
<1>9. Trusted => Nodes'
  <2> SUFFICES ASSUME Trusted PROVE Nodes'
    OBVIOUS
  <2>1. Top \in Pointer /\ [op |-> "prim", on |-> i] \in doc.work[Top]
    BY <1>1, AskTypes DEF Asks, Asking
  <2>2. i \in Uses("prim")
    BY <2>1 DEF Uses
  <2>3. doc.id \in [Pointer -> TypeID] /\ DOMAIN byPointer \subseteq Pointer
    BY Fields DEF TypeOK, PartialMap
  <2>4. \A p \in DOMAIN byPointer : doc.id[p] # i
    BY <2>2, <2>3 DEF Grammatical, Trusted, Addressed
  <2>5. /\ DOMAIN reg' = DOMAIN reg \cup {i}
        /\ \A j \in DOMAIN reg : reg'[j] = reg[j]
    BY DEF PrimRef, Put
  <2>6. Uses("prim")' = Uses("prim") /\ Frames' = Frames /\ spaces' = spaces
    BY <1>1, DocStays DEF Frames, PrimRef, tables
  <2> QED
    BY <1>1, <1>4, <2>2, <2>4, <2>5, <2>6 DEF Nodes, Inverted
<1> QED
  BY <1>5, <1>7, <1>8, <1>9
(* A blank call: it is refused, so nothing is left to show.                *)
LEMMA BlankCallKeeps ==
    ASSUME IInv, NEW p \in Pointer, BlankCall(p)
    PROVE  Asking' /\ Phases' /\ Sane'
<1>1. Asking'
  BY AskTypes DEF IInv, Asking, BlankCall
<1>2. Phases'
  BY DEF IInv, Phases, BlankCall, Asks, tables, promiseVars, settleVars, finishVars, walkVars
<1>3. refused' # {}
  BY DEF BlankCall
<1> QED
  BY <1>1, <1>2, <1>3 DEF Sane

(* A coordinate interned from within a build.                              *)
LEMMA InternKeeps ==
    ASSUME IInv, NEW c \in Pointer, Intern(c)
    PROVE  Asking' /\ Phases' /\ Sane'
<1> USE DEF IInv
<1>1. /\ Enter(c) /\ ~Owned(c) /\ doc' = doc /\ reg' = reg
      /\ promised' = promised /\ promises' = promises /\ phase' = phase
      /\ cancelled' = cancelled /\ roots' \subseteq roots /\ taken' = taken
  BY DEF Intern, tables, promiseVars, settleVars, finishVars, walkVars
<1>2. /\ todo'[c] = doc.work[c]
      /\ \A q \in Pointer \ {c} : todo'[q] \subseteq todo[q]
      /\ \A q \in Pointer \ {c} : \A x \in todo[q] :
            x \in todo'[q] \/ x = [op |-> "intern", on |-> c]
  <2>1. todo' = [Asked("intern", c) EXCEPT ![c] = doc.work[c]] /\ Asks("intern", c)
    BY DEF Intern
  <2> QED
    BY <2>1, AskTypes
<1>3. Asking'
  BY <1>1, <1>2, Fields DEF Asking, TypeOK
<1>4. Phases'
  BY DEF Phases, Intern, Asks, tables, promiseVars, settleVars, finishVars, walkVars
<1> SUFFICES ASSUME refused' = {}
             PROVE  Inverted' /\ Lowered' /\ Within' /\ Kept' /\ (Trusted' => Nodes')
  BY <1>3, <1>4 DEF Sane
<1>5. refused = {} /\ Inverted /\ Lowered /\ Within /\ Kept /\ (Trusted => Nodes)
  BY <1>1 DEF Sane, Enter
<1>6. c \in Reach
  BY <1>5, AskReach DEF Intern
<1>7. c \in DOMAIN byPointer'
  BY <1>1 DEF Enter, Put
<1>8. \A q \in Pointer \ {c} : \A x \in todo[q] : x \in todo'[q] \/ Answered(x)'
  BY <1>2, <1>7 DEF Answered
<1>9. /\ Inverted' /\ Lowered' /\ (Trusted => Nodes')
      /\ DOMAIN byPointer' \subseteq Reach
      /\ DOMAIN byPointer' = DOMAIN byPointer \cup {c}
  BY <1>1, <1>2, <1>5, <1>6, <1>8, EnterSane DEF Within
<1>10. Trusted' = Trusted /\ Reach' = Reach
  BY <1>1, DocStays
<1>11. Within' /\ Kept'
  BY <1>1, <1>5, <1>9, <1>10 DEF Within, Kept, Intern, tables, promiseVars, settleVars, finishVars, walkVars
<1> QED
  BY <1>9, <1>10, <1>11

(* A declaration lowered that nothing has interned yet.                    *)
LEMMA LowerRootKeeps ==
    ASSUME IInv, NEW p \in Pointer, LowerRoot(p), ~Owned(p)
    PROVE  Asking' /\ Phases' /\ Sane'
<1> USE DEF IInv
<1>1. /\ Enter(p) /\ ~Owned(p) /\ doc' = doc /\ reg' = reg
      /\ promised' = promised /\ promises' = promises /\ phase' = phase
      /\ cancelled' = cancelled /\ roots' \subseteq roots /\ taken' = taken
  BY DEF LowerRoot, tables, promiseVars, settleVars, finishVars, walkVars
<1>2. /\ todo'[p] = doc.work[p]
      /\ \A q \in Pointer \ {p} : todo'[q] = todo[q]
  BY DEF LowerRoot, TypeOK, Owned
<1>3. Asking'
  BY <1>1, <1>2, Fields DEF Asking, TypeOK
<1>4. Phases'
  BY DEF Phases, LowerRoot, tables, promiseVars, settleVars, finishVars, walkVars
<1> SUFFICES ASSUME refused' = {}
             PROVE  Inverted' /\ Lowered' /\ Within' /\ Kept' /\ (Trusted' => Nodes')
  BY <1>3, <1>4 DEF Sane
<1>5. refused = {} /\ Inverted /\ Lowered /\ Within /\ Kept /\ (Trusted => Nodes)
  BY <1>1 DEF Sane, Enter
<1>6. p \in Reach
  <2>1. p \in doc.roots
    BY DEF LowerRoot, Asking
  <2> QED
    BY <2>1, ReachClosed DEF TypeOK
<1>7. p \in DOMAIN byPointer'
  BY <1>1 DEF Enter, Put
<1>8. \A q \in Pointer \ {p} : \A x \in todo[q] : x \in todo'[q] \/ Answered(x)'
  BY <1>2, <1>7 DEF Answered
<1>9. /\ Inverted' /\ Lowered' /\ (Trusted => Nodes')
      /\ DOMAIN byPointer' \subseteq Reach
      /\ DOMAIN byPointer' = DOMAIN byPointer \cup {p}
  BY <1>1, <1>2, <1>5, <1>6, <1>8, EnterSane DEF Within
<1>10. Trusted' = Trusted /\ Reach' = Reach
  BY <1>1, DocStays
<1>11. Within' /\ Kept'
  BY <1>1, <1>5, <1>9, <1>10 DEF Within, Kept, LowerRoot, tables, promiseVars, settleVars, finishVars, walkVars
<1> QED
  BY <1>9, <1>10, <1>11

(* A promise nobody has built, built.                                      *)
LEMMA FulfilKeeps ==
    ASSUME IInv, NEW q \in Pointer, Fulfil(q), ~Owned(q)
    PROVE  Asking' /\ Phases' /\ Sane'
<1> USE DEF IInv
<1>1. /\ Enter(q) /\ ~Owned(q) /\ doc' = doc /\ reg' = reg
      /\ promised' = promised /\ promises' = promises /\ phase' = phase
      /\ cancelled' = cancelled /\ roots' \subseteq roots /\ taken' = taken
  BY DEF Fulfil, tables, promiseVars, settleVars, finishVars, walkVars
<1>2. /\ todo'[q] = doc.work[q]
      /\ \A r \in Pointer \ {q} : todo'[r] = todo[r]
  BY DEF Fulfil, TypeOK, Owned
<1>3. Asking'
  BY <1>1, <1>2, Fields DEF Asking, TypeOK
<1>4. Phases'
  BY DEF Phases, Fulfil, BetweenBuilds, tables, promiseVars, settleVars, finishVars, walkVars
<1> SUFFICES ASSUME refused' = {}
             PROVE  Inverted' /\ Lowered' /\ Within' /\ Kept' /\ (Trusted' => Nodes')
  BY <1>3, <1>4 DEF Sane
<1>5. refused = {} /\ Inverted /\ Lowered /\ Within /\ Kept /\ (Trusted => Nodes)
  BY <1>1 DEF Sane, Enter
<1>6. q \in Reach
  BY <1>5 DEF Fulfil, Within, TypeOK
<1>7. q \in DOMAIN byPointer'
  BY <1>1 DEF Enter, Put
<1>8. \A r \in Pointer \ {q} : \A x \in todo[r] : x \in todo'[r] \/ Answered(x)'
  BY <1>2, <1>7 DEF Answered
<1>9. /\ Inverted' /\ Lowered' /\ (Trusted => Nodes')
      /\ DOMAIN byPointer' \subseteq Reach
      /\ DOMAIN byPointer' = DOMAIN byPointer \cup {q}
  BY <1>1, <1>2, <1>5, <1>6, <1>8, EnterSane DEF Within
<1>10. Trusted' = Trusted /\ Reach' = Reach
  BY <1>1, DocStays
<1>11. Within' /\ Kept'
  BY <1>1, <1>5, <1>9, <1>10 DEF Within, Kept, Fulfil, tables, promiseVars, settleVars, finishVars, walkVars
<1> QED
  BY <1>9, <1>10, <1>11

(* A declaration lowered that is interned already.                         *)
LEMMA LowerRootSkips ==
    ASSUME IInv, NEW p \in Pointer, LowerRoot(p), Owned(p)
    PROVE  Asking' /\ Phases' /\ Sane'
<1> USE DEF IInv
<1>1. /\ doc' = doc /\ reg' = reg /\ byPointer' = byPointer /\ byID' = byID
      /\ spaces' = spaces /\ stack' = stack /\ todo' = todo /\ promised' = promised
      /\ roots' \subseteq roots /\ taken' = taken
  BY DEF LowerRoot, tables, promiseVars, settleVars, finishVars, walkVars
<1>2. Asking'
  BY <1>1 DEF Asking
<1>3. Phases'
  BY DEF Phases, LowerRoot, tables, promiseVars, settleVars, finishVars, walkVars
<1>4. refused \subseteq refused'
  BY DEF LowerRoot
<1>5. ASSUME Inverted, Lowered, Within, Kept, Trusted => Nodes
      PROVE  Inverted' /\ Lowered' /\ Within' /\ (Trusted' => Nodes')
  BY <1>1, <1>5, TablesStay DEF Lowered, Answered, Within, Frames
<1>6. ASSUME refused' = {}, Kept, Inverted
      PROVE  Kept'
  BY <1>1, <1>6 DEF Kept, LowerRoot, Owned, tables, promiseVars, settleVars, finishVars, walkVars
<1> QED
  BY <1>2, <1>3, <1>4, <1>5, <1>6 DEF Sane

(* A promise somebody has built.                                           *)
LEMMA FulfilSkips ==
    ASSUME IInv, NEW q \in Pointer, Fulfil(q), Owned(q)
    PROVE  Asking' /\ Phases' /\ Sane'
<1> USE DEF IInv
<1>1. /\ doc' = doc /\ reg' = reg /\ byPointer' = byPointer /\ byID' = byID
      /\ spaces' = spaces /\ stack' = stack /\ todo' = todo /\ promised' = promised
      /\ roots' \subseteq roots /\ taken' = taken
  BY DEF Fulfil, tables, promiseVars, settleVars, finishVars, walkVars
<1>2. Asking'
  BY <1>1 DEF Asking
<1>3. Phases'
  BY DEF Phases, Fulfil, BetweenBuilds, tables, promiseVars, settleVars, finishVars, walkVars
<1>4. refused \subseteq refused'
  BY DEF Fulfil
<1>5. ASSUME Inverted, Lowered, Within, Kept, Trusted => Nodes
      PROVE  Inverted' /\ Lowered' /\ Within' /\ (Trusted' => Nodes')
  BY <1>1, <1>5, TablesStay DEF Lowered, Answered, Within, Frames
<1>6. ASSUME refused' = {}, Kept, Inverted
      PROVE  Kept'
  BY <1>1, <1>6 DEF Kept, Fulfil, Owned, tables, promiseVars, settleVars, finishVars, walkVars
<1> QED
  BY <1>2, <1>3, <1>4, <1>5, <1>6 DEF Sane

(* The build of a promise over.                                            *)
LEMMA FulfilledKeeps ==
    ASSUME IInv, NEW q \in Pointer, Fulfilled(q)
    PROVE  Asking' /\ Phases' /\ Sane'
<1> USE DEF IInv
<1>1. /\ doc' = doc /\ reg' = reg /\ byPointer' = byPointer /\ byID' = byID
      /\ spaces' = spaces /\ stack' = stack /\ todo' = todo /\ promised' = promised
      /\ roots' \subseteq roots /\ taken' = taken
  BY DEF Fulfilled, tables, promiseVars, settleVars, finishVars, walkVars
<1>2. Asking'
  BY <1>1 DEF Asking
<1>3. Phases'
  BY DEF Phases, Fulfilled, tables, promiseVars, settleVars, finishVars, walkVars
<1>4. refused \subseteq refused'
  BY DEF Fulfilled
<1>5. ASSUME Inverted, Lowered, Within, Kept, Trusted => Nodes
      PROVE  Inverted' /\ Lowered' /\ Within' /\ (Trusted' => Nodes')
  BY <1>1, <1>5, TablesStay DEF Lowered, Answered, Within, Frames
<1>6. ASSUME refused' = {}, Kept, Inverted
      PROVE  Kept'
  BY <1>1, <1>6 DEF Kept, Fulfilled, tables, promiseVars, settleVars, finishVars, walkVars
<1> QED
  BY <1>2, <1>3, <1>4, <1>5, <1>6 DEF Sane

(* The lowering cut short.                                                 *)
LEMMA StoppedKeeps ==
    ASSUME IInv, Stopped
    PROVE  Asking' /\ Phases' /\ Sane'
<1> USE DEF IInv
<1>1. /\ doc' = doc /\ reg' = reg /\ byPointer' = byPointer /\ byID' = byID
      /\ spaces' = spaces /\ stack' = stack /\ todo' = todo /\ promised' = promised
      /\ roots' \subseteq roots /\ taken' = taken
  BY DEF Stopped, tables, promiseVars, settleVars, finishVars, walkVars
<1>2. Asking'
  BY <1>1 DEF Asking
<1>3. Phases'
  BY DEF Phases, Stopped, tables, promiseVars, settleVars, finishVars, walkVars
<1>4. refused \subseteq refused'
  BY DEF Stopped
<1>5. ASSUME Inverted, Lowered, Within, Kept, Trusted => Nodes
      PROVE  Inverted' /\ Lowered' /\ Within' /\ (Trusted' => Nodes')
  BY <1>1, <1>5, TablesStay DEF Lowered, Answered, Within, Frames
<1>6. ASSUME refused' = {}, Kept, Inverted
      PROVE  Kept'
  BY <1>1, <1>6 DEF Kept, Stopped, tables, promiseVars, settleVars, finishVars, walkVars
<1> QED
  BY <1>2, <1>3, <1>4, <1>5, <1>6 DEF Sane

(* Finish called.                                                          *)
LEMMA FinishKeeps ==
    ASSUME IInv, Finish
    PROVE  Asking' /\ Phases' /\ Sane'
<1> USE DEF IInv
<1>1. /\ doc' = doc /\ reg' = reg /\ byPointer' = byPointer /\ byID' = byID
      /\ spaces' = spaces /\ stack' = stack /\ todo' = todo /\ promised' = promised
      /\ roots' \subseteq roots /\ taken' = taken
  BY DEF Finish, tables, promiseVars, settleVars, finishVars, walkVars
<1>2. Asking'
  BY <1>1 DEF Asking
<1>3. Phases'
  BY DEF Phases, Finish, tables, promiseVars, settleVars, finishVars, walkVars
<1>4. refused \subseteq refused'
  BY DEF Finish
<1>5. ASSUME Inverted, Lowered, Within, Kept, Trusted => Nodes
      PROVE  Inverted' /\ Lowered' /\ Within' /\ (Trusted' => Nodes')
  BY <1>1, <1>5, TablesStay DEF Lowered, Answered, Within, Frames
<1>6. ASSUME refused' = {}, Kept, Inverted
      PROVE  Kept'
  BY <1>1, <1>6 DEF Kept, Finish, tables, promiseVars, settleVars, finishVars, walkVars
<1> QED
  BY <1>2, <1>3, <1>4, <1>5, <1>6 DEF Sane

(* The promises taken as a round.                                          *)
LEMMA TakeRoundKeeps ==
    ASSUME IInv, TakeRound
    PROVE  Asking' /\ Phases' /\ Sane'
<1> USE DEF IInv
<1>1. /\ doc' = doc /\ reg' = reg /\ byPointer' = byPointer /\ byID' = byID
      /\ spaces' = spaces /\ stack' = stack /\ todo' = todo /\ promised' = promised
      /\ roots' \subseteq roots /\ taken' = taken
  BY DEF TakeRound, tables, promiseVars, settleVars, finishVars, walkVars
<1>2. Asking'
  BY <1>1 DEF Asking
<1>3. Phases'
  BY DEF Phases, TakeRound, BetweenBuilds, tables, promiseVars, settleVars, finishVars, walkVars
<1>4. refused \subseteq refused'
  BY DEF TakeRound
<1>5. ASSUME Inverted, Lowered, Within, Kept, Trusted => Nodes
      PROVE  Inverted' /\ Lowered' /\ Within' /\ (Trusted' => Nodes')
  BY <1>1, <1>5, TablesStay DEF Lowered, Answered, Within, Frames
<1>6. ASSUME refused' = {}, Kept, Inverted
      PROVE  Kept'
  BY <1>1, <1>6 DEF Kept, TakeRound, tables, promiseVars, settleVars, finishVars, walkVars
<1> QED
  BY <1>2, <1>3, <1>4, <1>5, <1>6 DEF Sane

(* The rounds over.                                                        *)
LEMMA SettleKeeps ==
    ASSUME IInv, Settle
    PROVE  Asking' /\ Phases' /\ Sane'
<1> USE DEF IInv
<1>1. /\ doc' = doc /\ reg' = reg /\ byPointer' = byPointer /\ byID' = byID
      /\ spaces' = spaces /\ stack' = stack /\ todo' = todo /\ promised' = promised
      /\ roots' \subseteq roots /\ taken' = taken
  BY DEF Settle, tables, promiseVars, settleVars, finishVars, walkVars
<1>2. Asking'
  BY <1>1 DEF Asking
<1>3. Phases'
  BY DEF Phases, Settle, BetweenBuilds, RoundsOver, tables, promiseVars, settleVars, finishVars, walkVars
<1>4. refused \subseteq refused'
  BY DEF Settle
<1>5. ASSUME Inverted, Lowered, Within, Kept, Trusted => Nodes
      PROVE  Inverted' /\ Lowered' /\ Within' /\ (Trusted' => Nodes')
  BY <1>1, <1>5, TablesStay DEF Lowered, Answered, Within, Frames
<1>6. ASSUME refused' = {}, Kept, Inverted
      PROVE  Kept'
  BY <1>1, <1>6 DEF Kept, Settle, tables, promiseVars, settleVars, finishVars, walkVars
<1> QED
  BY <1>2, <1>3, <1>4, <1>5, <1>6 DEF Sane

(* The registry handed over, or dropped.                                   *)
LEMMA ReportKeeps ==
    ASSUME IInv, Report
    PROVE  Asking' /\ Phases' /\ Sane'
<1> USE DEF IInv
<1>1. /\ doc' = doc /\ reg' = reg /\ byPointer' = byPointer /\ byID' = byID
      /\ spaces' = spaces /\ stack' = stack /\ todo' = todo /\ promised' = promised
      /\ roots' \subseteq roots /\ taken' = taken
  BY DEF Report, tables, promiseVars, settleVars, finishVars, walkVars
<1>2. Asking'
  BY <1>1 DEF Asking
<1>3. Phases'
  BY DEF Phases, Report, tables, promiseVars, settleVars, finishVars, walkVars
<1>4. refused \subseteq refused'
  BY DEF Report
<1>5. ASSUME Inverted, Lowered, Within, Kept, Trusted => Nodes
      PROVE  Inverted' /\ Lowered' /\ Within' /\ (Trusted' => Nodes')
  BY <1>1, <1>5, TablesStay DEF Lowered, Answered, Within, Frames
<1>6. ASSUME refused' = {}, Kept, Inverted
      PROVE  Kept'
  BY <1>1, <1>6 DEF Kept, Report, tables, promiseVars, settleVars, finishVars, walkVars
<1> QED
  BY <1>2, <1>3, <1>4, <1>5, <1>6 DEF Sane

(* The context ended.                                                      *)
LEMMA CancelKeeps ==
    ASSUME IInv, Cancel
    PROVE  Asking' /\ Phases' /\ Sane'
<1> USE DEF IInv
<1>1. /\ doc' = doc /\ reg' = reg /\ byPointer' = byPointer /\ byID' = byID
      /\ spaces' = spaces /\ stack' = stack /\ todo' = todo /\ promised' = promised
      /\ roots' \subseteq roots /\ taken' = taken
  BY DEF Cancel, tables, promiseVars, settleVars, finishVars, walkVars
<1>2. Asking'
  BY <1>1 DEF Asking
<1>3. Phases'
  BY DEF Phases, Cancel, tables, promiseVars, settleVars, finishVars, walkVars
<1>4. refused \subseteq refused'
  BY DEF Cancel
<1>5. ASSUME Inverted, Lowered, Within, Kept, Trusted => Nodes
      PROVE  Inverted' /\ Lowered' /\ Within' /\ (Trusted' => Nodes')
  BY <1>1, <1>5, TablesStay DEF Lowered, Answered, Within, Frames
<1>6. ASSUME refused' = {}, Kept, Inverted
      PROVE  Kept'
  BY <1>1, <1>6 DEF Kept, Cancel, tables, promiseVars, settleVars, finishVars, walkVars
<1> QED
  BY <1>2, <1>3, <1>4, <1>5, <1>6 DEF Sane

(* A build returned: its coordinate has its node, under an ID that held    *)
(* none.                                                                   *)
LEMMA BuiltKeeps ==
    ASSUME IInv, Built
    PROVE  Asking' /\ Phases' /\ Sane'
<1> USE DEF IInv
<1>1. /\ doc' = doc /\ byPointer' = byPointer /\ byID' = byID /\ spaces' = spaces
      /\ todo' = todo /\ promised' = promised /\ refused' = refused /\ taken' = taken
      /\ stack # << >> /\ todo[Top] = {} /\ reg' = Put(reg, doc.id[Top], Top)
  BY DEF Built, tables, promiseVars, settleVars, finishVars, walkVars
<1>2. Asking' /\ Phases'
  BY <1>1 DEF Asking, Phases, Built, tables, promiseVars, settleVars, finishVars, walkVars
<1> SUFFICES ASSUME refused' = {}
             PROVE  Inverted' /\ Lowered' /\ Within' /\ Kept' /\ (Trusted' => Nodes')
  BY <1>2 DEF Sane
<1>3. refused = {} /\ Inverted /\ Lowered /\ Within /\ Kept /\ (Trusted => Nodes)
  BY <1>1 DEF Sane
<1>4. /\ Top \in Pointer /\ Top \in Frames
      /\ Frames' = Frames \ {Top} /\ Once(stack')
  BY <1>1, <1>3, PopFrame DEF TypeOK, Built, Top, Leave, Frames, Inverted
<1>5. Inverted'
  BY <1>1, <1>3, <1>4 DEF Inverted
<1>6. Lowered'
  BY <1>1, <1>3, <1>4 DEF Lowered, Answered
<1>7. Trusted' = Trusted /\ Reach' = Reach /\ Uses("prim")' = Uses("prim")
  BY <1>1, DocStays
<1>8. Within' /\ Kept'
  BY <1>1, <1>3, <1>7 DEF Within, Kept, Built, tables, promiseVars, settleVars, finishVars, walkVars
<1>9. ASSUME Trusted
      PROVE  Nodes'
  <2> DEFINE t == Top
             i == doc.id[t]
  <2>1. /\ DOMAIN reg' = DOMAIN reg \cup {i} /\ reg'[i] = t
        /\ \A j \in DOMAIN reg : j # i => reg'[j] = reg[j]
    BY <1>1 DEF Put
  <2>2. \A p \in DOMAIN byPointer : p # t => doc.id[p] # i
    BY <1>3, <1>4 DEF Inverted
  <2>3. i \in DOMAIN byID
    BY <1>3, <1>4 DEF Inverted
  <2>4. t \in DOMAIN byPointer /\ Frames \subseteq DOMAIN byPointer /\ Frames' = Frames \ {t}
    BY <1>3, <1>4 DEF Inverted
  <2>5. i = doc.id[t]
    OBVIOUS
  <2> HIDE DEF t, i
  <2>6. \A p \in DOMAIN byPointer' \ Frames' :
           doc.id[p] \in DOMAIN reg' /\ reg'[doc.id[p]] = p
    BY <1>1, <1>3, <1>9, <2>1, <2>2, <2>4, <2>5 DEF Nodes
  <2>7. \A p \in Frames' : doc.id[p] \notin DOMAIN reg'
    BY <1>3, <1>9, <2>1, <2>2, <2>4 DEF Nodes
  <2> QED
    BY <1>1, <1>3, <1>7, <1>9, <2>1, <2>3, <2>6, <2>7 DEF Nodes
<1> QED
  BY <1>5, <1>6, <1>7, <1>8, <1>9

(* A nil build: it is refused, so only the work asked and the phase are    *)
(* left to show.                                                           *)
LEMMA BuiltNilKeeps ==
    ASSUME IInv, BuiltNil
    PROVE  Asking' /\ Phases' /\ Sane'
<1>1. Asking' /\ Phases'
  BY DEF IInv, Asking, Phases, BuiltNil, tables, promiseVars, settleVars, finishVars, walkVars
<1>2. refused' # {}
  BY DEF BuiltNil
<1> QED
  BY <1>1, <1>2 DEF Sane

(* A finite set that gives up one element for another and counts the same  *)
(* has given up one it held for one it does not hold, or given up none and *)
(* taken none.                                                             *)
LEMMA Recount ==
    ASSUME NEW D, IsFiniteSet(D), NEW a, NEW b,
           Cardinality((D \ {a}) \cup {b}) = Cardinality(D)
    PROVE  IF a \in D THEN b = a \/ b \notin D ELSE b \in D
<1>1. Cardinality(D) \in Nat
  BY FS_CardinalityType
<1>2. CASE a \in D /\ b # a /\ b \in D
  <2>1. (D \ {a}) \cup {b} = D \ {a}
    BY <1>2
  <2>2. Cardinality(D \ {a}) = Cardinality(D) - 1
    BY <1>2, FS_RemoveElement
  <2>3. Cardinality(D \ {a}) = Cardinality(D)
    BY <2>1, Zenon
  <2> QED
    BY <1>1, <2>2, <2>3
<1>3. CASE a \notin D /\ b \notin D
  <2>1. (D \ {a}) \cup {b} = D \cup {b}
    BY <1>3
  <2>2. Cardinality(D \cup {b}) = Cardinality(D) + 1
    BY <1>3, FS_AddElement
  <2>3. Cardinality(D \cup {b}) = Cardinality(D)
    BY <2>1, Zenon
  <2> QED
    BY <1>1, <2>2, <2>3
<1> QED
  BY <1>2, <1>3

(* What a settlement that is not refused does to the registry: a write     *)
(* past Register lands on an ID that is held, a removal on one that is     *)
(* not, and a swap keeps the count.                                        *)
LEMMA SettlementCounts ==
    ASSUME IsFiniteSet(DOMAIN reg), NEW p \in Pointer, SettleNode(p), refused' = {}
    PROVE  /\ doc.deed[p] = "write" => doc.aim[p] \in DOMAIN reg /\ DOMAIN reg' = DOMAIN reg
           /\ doc.deed[p] = "remove" => doc.aim[p] \notin DOMAIN reg /\ DOMAIN reg' = DOMAIN reg
           /\ doc.deed[p] = "swap" =>
                 IF doc.aim[p] \in DOMAIN reg
                   THEN doc.into[p] = doc.aim[p] \/ doc.into[p] \notin DOMAIN reg
                   ELSE doc.into[p] \in DOMAIN reg
<1> DEFINE D == DOMAIN reg
           a == doc.aim[p]
           b == doc.into[p]
<1>1. ASSUME doc.deed[p] = "write"
      PROVE  a \in D /\ DOMAIN reg' = D
  <2>1. WritesPast(p)
    BY <1>1 DEF SettleNode, Mints, Removes, Swaps, AsksTooLate, Rewrites
  <2>2. DOMAIN reg' = D \cup {a} /\ Cardinality(DOMAIN reg') = Cardinality(D)
    BY <2>1 DEF WritesPast, Put, Why, Resized
  <2>3. a \notin D => Cardinality(D \cup {a}) = Cardinality(D) + 1 /\ Cardinality(D) \in Nat
    BY FS_AddElement, FS_CardinalityType
  <2> HIDE DEF D, a
  <2>4. a \in D
    BY <2>2, <2>3
  <2> QED
    BY <2>2, <2>4
<1>2. ASSUME doc.deed[p] = "remove"
      PROVE  a \notin D /\ DOMAIN reg' = D
  <2>1. Removes(p)
    BY <1>2 DEF SettleNode, Mints, WritesPast, Swaps, AsksTooLate, Rewrites
  <2>2. DOMAIN reg' = D \ {a} /\ Cardinality(DOMAIN reg') = Cardinality(D)
    BY <2>1 DEF Removes, Delete, Why, Resized
  <2>3. a \in D => Cardinality(D \ {a}) = Cardinality(D) - 1 /\ Cardinality(D) \in Nat
    BY FS_RemoveElement, FS_CardinalityType
  <2> HIDE DEF D, a
  <2>4. a \notin D
    BY <2>2, <2>3
  <2> QED
    BY <2>2, <2>4
<1>3. ASSUME doc.deed[p] = "swap"
      PROVE  IF a \in D THEN b = a \/ b \notin D ELSE b \in D
  <2>1. Swaps(p)
    BY <1>3 DEF SettleNode, Mints, WritesPast, Removes, AsksTooLate, Rewrites
  <2>2. /\ DOMAIN reg' = (D \ {a}) \cup {b}
        /\ Cardinality(DOMAIN reg') = Cardinality(D)
    BY <2>1 DEF Swaps, Put, Delete, Why, Resized
  <2> HIDE DEF D, a, b
  <2>3. IsFiniteSet(D)
    BY DEF D
  <2> QED
    BY <2>2, <2>3, Recount
<1> QED
  BY <1>1, <1>2, <1>3

(* A settlement that is not refused leaves every node where it is, unless  *)
(* it replaces one.                                                        *)
LEMMA SettlementSane ==
    ASSUME TypeOK, IsFiniteSet(DOMAIN reg), Inverted, NEW p \in Pointer, SettleNode(p),
           refused' = {}, doc.deed[p] \notin {"write", "swap"}, Nodes, Grammatical,
           doc' = doc, byPointer' = byPointer, byID' = byID, stack' = stack
    PROVE  Nodes'
<1>0. reg' = reg /\ spaces' = spaces => Nodes'
  <2>1. Frames' = Frames /\ Uses("prim")' = Uses("prim")
    BY DocStays DEF Frames
  <2> QED
    BY <2>1 DEF Nodes
<1>1. CASE Mints(p)
  <2>1. doc.aim[p] \in Addressed /\ doc.aim[p] \in TypeID
    BY <1>1, Fields DEF Mints, Addressed, Aims, TypeOK
  <2>2. MintedBy(p) \in Node
    BY DEF MintedBy, Node
  <2> QED
    BY <1>1, <2>1, <2>2, RegisterSane DEF Mints
<1>2. CASE Removes(p)
  <2>1. doc.aim[p] \notin DOMAIN reg
    BY <1>2, SettlementCounts DEF Removes
  <2>2. reg' = reg /\ spaces' = spaces
    BY <1>2, <2>1 DEF Removes, Delete, TypeOK, PartialMap
  <2> QED
    BY <1>0, <2>2
<1>3. CASE AsksTooLate(p)
  BY <1>3 DEF AsksTooLate
<1>4. CASE Rewrites(p)
  BY <1>0, <1>4 DEF Rewrites
<1> QED
  BY <1>1, <1>2, <1>3, <1>4 DEF SettleNode, WritesPast, Swaps

(* Refusals stay, whatever a settlement does.                              *)
LEMMA SettlementRefuses ==
    ASSUME NEW p \in Pointer, SettleNode(p)
    PROVE  refused \subseteq refused'
  BY DEF SettleNode, Mints, RegisterNode, WritesPast, Removes, Swaps, AsksTooLate, Rewrites

(* What has been taken after one more settlement.                          *)
LEMMA TakenMore ==
    ASSUME doc' = doc, taken \in Seq(Settlement), NEW h \in Settlement,
           taken' = Append(taken, h), NEW deeds
    PROVE  Taken(deeds)' <=> Taken(deeds) \/ doc.deed[h.on] \in deeds
<1>1. /\ Len(taken) \in Nat /\ DOMAIN taken = 1..Len(taken)
      /\ DOMAIN taken' = 1..(Len(taken) + 1)
      /\ taken'[Len(taken) + 1] = h
      /\ \A n \in 1..Len(taken) : taken'[n] = taken[n]
  OBVIOUS
<1> QED
  BY <1>1 DEF Taken

(* A settlement taken.                                                     *)
LEMMA TakeSettlementKeeps ==
    ASSUME IInv, TakeSettlement
    PROVE  Asking' /\ Phases' /\ Sane'
<1> USE DEF IInv
<1>1. /\ doc' = doc /\ byPointer' = byPointer /\ byID' = byID
      /\ stack' = stack /\ todo' = todo /\ promised' = promised
      /\ SettleNode(Head(queue).on) /\ queue # << >>
  BY DEF TakeSettlement, tables, promiseVars, settleVars, finishVars, walkVars
<1>2. Head(queue).on \in Pointer
  <2>1. Head(queue) \in Settlement
    BY <1>1 DEF TypeOK
  <2> QED
    BY <2>1 DEF Settlement
<1>3. Asking' /\ Phases'
  BY <1>1 DEF Asking, Phases, TakeSettlement, tables, promiseVars, settleVars, finishVars, walkVars
<1> SUFFICES ASSUME refused' = {}
             PROVE  Inverted' /\ Lowered' /\ Within' /\ Kept' /\ (Trusted' => Nodes')
  BY <1>3 DEF Sane
<1>4. refused = {} /\ Inverted /\ Lowered /\ Within /\ Kept /\ (Trusted => Nodes)
  BY <1>1, <1>2, SettlementRefuses DEF Sane
<1>5. Inverted' /\ Lowered' /\ Within' /\ Kept' /\ Grammatical' = Grammatical
  BY <1>1, <1>4, DocStays
     DEF Inverted, Frames, Lowered, Answered, Within, Kept, TakeSettlement, tables, promiseVars, settleVars, finishVars, walkVars
<1>6. ASSUME Trusted' PROVE Nodes'
  <2>1. taken \in Seq(Settlement) /\ Head(queue) \in Settlement /\ taken' = Append(taken, Head(queue))
    BY <1>1 DEF TypeOK, TakeSettlement
  <2>2. ~Taken({"write", "swap"}) /\ doc.deed[Head(queue).on] \notin {"write", "swap"}
    BY <1>1, <1>6, <2>1, TakenMore DEF Trusted
  <2>3. Trusted /\ Grammatical
    BY <1>5, <1>6, <2>2 DEF Trusted
  <2> QED
    BY <1>1, <1>2, <1>4, <2>2, <2>3, SettlementSane
<1> QED
  BY <1>5, <1>6

(* Nothing happens.                                                        *)
LEMMA StutterKeeps ==
    ASSUME IInv, UNCHANGED vars
    PROVE  Asking' /\ Phases' /\ Sane'
<1> USE DEF IInv
<1>1. /\ doc' = doc /\ reg' = reg /\ byPointer' = byPointer /\ byID' = byID
      /\ spaces' = spaces /\ stack' = stack /\ todo' = todo /\ promised' = promised
      /\ promises' = promises /\ round' = round /\ roots' = roots /\ phase' = phase
      /\ cancelled' = cancelled /\ refused' = refused /\ taken' = taken
  BY DEF vars, tables, promiseVars, settleVars, finishVars, walkVars
<1>2. Asking' /\ Phases'
  BY <1>1 DEF Asking, Phases
<1>3. Sane'
  BY <1>1, TablesStay DEF Sane, Lowered, Answered, Within, Kept, Frames
<1> QED
  BY <1>2, <1>3

-----------------------------------------------------------------------------
(* The registry stays finite: no step adds more than one ID.               *)
LEMMA FiniteStep ==
    ASSUME IsFiniteSet(DOMAIN reg), [Next]_vars
    PROVE  IsFiniteSet(DOMAIN reg')
<1>1. ASSUME NEW i, DOMAIN reg' \subseteq DOMAIN reg \cup {i}
      PROVE  IsFiniteSet(DOMAIN reg')
  <2>1. IsFiniteSet(DOMAIN reg \cup {i})
    BY FS_AddElement
  <2> QED
    BY <1>1, <2>1, FS_Subset
<1>2. CASE reg' = reg
  BY <1>2
<1>3. ASSUME NEW i \in TypeID, Register(i) \/ PrimRef(i)
      PROVE  IsFiniteSet(DOMAIN reg')
  <2>1. DOMAIN reg' \subseteq DOMAIN reg \cup {i}
    BY <1>3 DEF Register, RegisterNode, PrimRef, Put
  <2> QED
    BY <1>1, <2>1
<1>4. CASE Built
  <2>1. DOMAIN reg' \subseteq DOMAIN reg \cup {doc.id[Top]}
    BY <1>4 DEF Built, Put
  <2> QED
    BY <1>1, <2>1
<1>5. CASE TakeSettlement
  <2> DEFINE p == Head(queue).on
  <2>1. SettleNode(p)
    BY <1>5 DEF TakeSettlement
  <2> HIDE DEF p
  <2>2. DOMAIN reg' \subseteq DOMAIN reg \cup {doc.aim[p]} \/ DOMAIN reg' \subseteq DOMAIN reg \cup {doc.into[p]}
    <3>1. CASE Mints(p)
      BY <3>1 DEF Mints, RegisterNode, Put
    <3>2. CASE WritesPast(p)
      BY <3>2 DEF WritesPast, Put
    <3>3. CASE Removes(p)
      BY <3>3 DEF Removes, Delete
    <3>4. CASE Swaps(p)
      BY <3>4 DEF Swaps, Put, Delete
    <3>5. CASE AsksTooLate(p) \/ Rewrites(p)
      BY <3>5 DEF AsksTooLate, Rewrites
    <3> QED
      BY <2>1, <3>1, <3>2, <3>3, <3>4, <3>5 DEF SettleNode
  <2> QED
    BY <1>1, <2>2
<1>6. ASSUME NEW p \in Pointer,
             LowerRoot(p) \/ InternHit(p) \/ Intern(p) \/ Promise(p) \/ Complete(p)
             \/ Defer(p) \/ BlankCall(p) \/ Fulfil(p) \/ Fulfilled(p)
      PROVE  reg' = reg
  BY <1>6 DEF LowerRoot, InternHit, Intern, Promise, Complete, Defer, BlankCall,
     Fulfil, Fulfilled
<1>7. ASSUME BuiltNil \/ Stopped \/ Finish \/ TakeRound \/ Settle \/ Report
             \/ Cancel \/ UNCHANGED vars
      PROVE  reg' = reg
  BY <1>7 DEF BuiltNil, Stopped, Finish, TakeRound, Settle, Report, Cancel, vars
<1> QED
  BY <1>2, <1>3, <1>4, <1>5, <1>6, <1>7 DEF Next, Step

(* Every step keeps the invariant.                                         *)
LEMMA InvStep ==
    ASSUME IInv, [Next]_vars
    PROVE  IInv'
<1>1. TypeOK' /\ IsFiniteSet(DOMAIN reg')
  BY TypeStep, FiniteStep DEF IInv
<1>2. ASSUME NEW p \in Pointer,
             LowerRoot(p) \/ InternHit(p) \/ Intern(p) \/ Promise(p)
      PROVE  Asking' /\ Phases' /\ Sane'
  BY <1>2, LowerRootKeeps, LowerRootSkips, InternHitKeeps, InternKeeps, PromiseKeeps
<1>3. ASSUME NEW p \in Pointer,
             Complete(p) \/ Defer(p) \/ BlankCall(p) \/ Fulfil(p) \/ Fulfilled(p)
      PROVE  Asking' /\ Phases' /\ Sane'
  BY <1>3, CompleteKeeps, DeferKeeps, BlankCallKeeps, FulfilKeeps, FulfilSkips,
     FulfilledKeeps
<1>4. ASSUME NEW i \in TypeID, Register(i) \/ PrimRef(i)
      PROVE  Asking' /\ Phases' /\ Sane'
  BY <1>4, RegisterKeeps, PrimRefKeeps
<1>5. ASSUME Built \/ BuiltNil \/ Stopped \/ Finish \/ TakeRound
      PROVE  Asking' /\ Phases' /\ Sane'
  BY <1>5, BuiltKeeps, BuiltNilKeeps, StoppedKeeps, FinishKeeps, TakeRoundKeeps
<1>6. ASSUME Settle \/ TakeSettlement \/ Report \/ Cancel \/ UNCHANGED vars
      PROVE  Asking' /\ Phases' /\ Sane'
  BY <1>6, SettleKeeps, TakeSettlementKeeps, ReportKeeps, CancelKeeps, StutterKeeps
<1> QED
  BY <1>1, <1>2, <1>3, <1>4, <1>5, <1>6 DEF IInv, Next, Step

(* The invariant holds of every compile.                                   *)
LEMMA Invariance == Spec => []IInv
<1>1. Init => IInv
  <2> SUFFICES ASSUME Init, TypeOK PROVE IInv
    <3>1. Init => TypeOK
      BY InitTypes
    <3> QED
      BY <3>1
  <2>1. Asking /\ Phases
    BY Fields DEF Init, Asking, Phases, TypeOK
  <2>2. Frames = {} /\ Once(stack)
    BY DEF Init, Frames, ElementsOf, Once
  <2>3. Inverted /\ Lowered /\ Within /\ Kept /\ Nodes
    BY <2>2 DEF Init, Inverted, Lowered, Within, Kept, Nodes
  <2>4. IsFiniteSet(DOMAIN reg)
    BY FS_EmptySet DEF Init
  <2> QED
    BY <2>1, <2>3, <2>4 DEF IInv, Sane
<1>2. IInv /\ [Next]_vars => IInv'
  BY InvStep
<1> QED
  BY <1>1, <1>2, PTL DEF Spec

(* Whatever is compiled and in whatever order, the registry a settlement   *)
(* reads and Finish hands over is whole: it holds the node of each         *)
(* coordinate the document leads to, under that coordinate's own ID,       *)
(* unless a refusal says otherwise, ctx has ended or a settlement has      *)
(* replaced a node.  Once nothing is being built and no promise waits, the *)
(* interned coordinates are closed under what their lowerings name, so     *)
(* they are all the document leads to.                                     *)
THEOREM RegistryIsWhole == Spec => []WholeRegistry
<1>1. IInv => WholeRegistry
  <2> SUFFICES ASSUME IInv, phase \in {"settle", "end"}, ~cancelled, Unblemished
               PROVE  /\ DOMAIN byPointer = Reach
                      /\ \A p \in Reach : doc.id[p] \in DOMAIN reg /\ reg[doc.id[p]] = p
    BY DEF WholeRegistry
  <2>1. Inverted /\ Lowered /\ Within /\ Kept /\ Nodes
    BY DEF IInv, Sane, Unblemished, Trusted
  <2>2. stack = << >> /\ promises = {} /\ round = {} /\ roots = {}
    BY DEF IInv, Phases
  <2>3. Frames = {}
    BY <2>2 DEF Frames, ElementsOf
  <2>4. promised \subseteq DOMAIN byPointer /\ doc.roots \subseteq DOMAIN byPointer
    BY <2>1, <2>2 DEF Kept
  <2>5. DOMAIN byPointer \in SUBSET Pointer
    BY DEF IInv, TypeOK, PartialMap
  <2>6. Closed(DOMAIN byPointer)
    BY <2>1, <2>3, <2>4 DEF Closed, Below, Lowered, Answered
  <2>7. Reach \subseteq DOMAIN byPointer
    BY <2>5, <2>6 DEF Reach
  <2>8. DOMAIN byPointer = Reach
    BY <2>1, <2>7 DEF Within
  <2> QED
    BY <2>1, <2>3, <2>8 DEF Nodes
<1> QED
  BY <1>1, Invariance, PTL

(* The registry never loses or replaces a node it holds without a refusal, *)
(* but for a settlement's swap of one node for one: claimID, claimSpace    *)
(* and Register's comparison leave a lowering no way to, and settle's      *)
(* count leaves a settlement none that changes the number of nodes         *)
(* (types.go, settle.go).                                                  *)
THEOREM NothingIsOverwritten == Spec => NeverOverwritten
<1> DEFINE Stays == ~\E i \in DOMAIN reg : Lost(i)
           Holds == (\E i \in DOMAIN reg : Lost(i)) => refused' # {} \/ ~Grammatical \/ Swapped
<1>1. ASSUME IInv, [Next]_vars
      PROVE  Holds
  <2> SUFFICES ASSUME refused' = {}, Grammatical PROVE Stays \/ Swapped
    OBVIOUS
  <2>1. CASE reg' = reg
    BY <2>1 DEF Lost
  <2>2. ASSUME NEW i \in TypeID, Register(i)
        PROVE  Stays
    BY <2>2 DEF Register, RegisterNode, Put, Lost
  <2>3. ASSUME NEW i \in TypeID, PrimRef(i)
        PROVE  Stays
    BY <2>3 DEF PrimRef, Put, Lost
  <2>4. CASE Built
    <3>1. refused = {} /\ stack # << >>
      BY <2>4 DEF Built
    <3>2. taken = << >>
      BY <1>1, <3>1 DEF IInv, Phases, TypeOK, Phase
    <3>3. Inverted /\ Nodes
      BY <1>1, <3>1, <3>2 DEF IInv, Sane, Trusted, Taken
    <3>4. Top \in Frames
      BY <1>1, <3>1, PopFrame DEF IInv, TypeOK, Frames, Top
    <3>5. doc.id[Top] \notin DOMAIN reg
      BY <3>3, <3>4 DEF Nodes
    <3> QED
      BY <2>4, <3>5 DEF Built, Put, Lost
  <2>5. CASE TakeSettlement
    <3> DEFINE p == Head(queue).on
    <3>1. SettleNode(p) /\ queue # << >> /\ phase = "settle"
      BY <2>5 DEF TakeSettlement
    <3>2. Head(queue) \in Settlement
      BY <1>1, <3>1 DEF IInv, TypeOK
    <3>3. p \in Pointer
      BY <3>2 DEF Settlement
    <3>4. Swapped <=> doc.deed[p] \in {"write", "swap"} /\ OneForOne
      BY <3>1 DEF Swapped
    <3>5. IsFiniteSet(DOMAIN reg)
      BY <1>1 DEF IInv
    <3> HIDE DEF p
    <3>6. CASE Mints(p)
      BY <3>6 DEF Mints, RegisterNode, Put, Lost
    <3>7. CASE WritesPast(p)
      <4> DEFINE a == doc.aim[p]
      <4>1. a \in DOMAIN reg /\ DOMAIN reg' = DOMAIN reg
        BY <3>1, <3>3, <3>5, <3>7, SettlementCounts DEF WritesPast
      <4>2. \A k \in DOMAIN reg \ {a} : reg'[k] = reg[k]
        BY <3>7 DEF WritesPast, Put
      <4> HIDE DEF a
      <4>3. OneForOne
        BY <4>1, <4>2 DEF OneForOne
      <4> QED
        BY <3>4, <3>7, <4>3 DEF WritesPast
    <3>8. CASE Removes(p)
      <4>1. doc.aim[p] \notin DOMAIN reg /\ DOMAIN reg' = DOMAIN reg
        BY <3>1, <3>3, <3>5, <3>8, SettlementCounts DEF Removes
      <4> QED
        BY <3>8, <4>1 DEF Removes, Delete, Lost
    <3>9. CASE Swaps(p)
      <4> DEFINE a == doc.aim[p]
                 b == doc.into[p]
      <4>1. IF a \in DOMAIN reg THEN b = a \/ b \notin DOMAIN reg ELSE b \in DOMAIN reg
        BY <3>1, <3>3, <3>5, <3>9, SettlementCounts DEF Swaps
      <4>2. /\ DOMAIN reg' = (DOMAIN reg \ {a}) \cup {b}
            /\ \A k \in DOMAIN reg \ {a} : k # b => reg'[k] = reg[k]
        BY <3>9 DEF Swaps, Put, Delete
      <4> HIDE DEF a, b
      <4>3. a \in DOMAIN reg => OneForOne
        BY <4>1, <4>2 DEF OneForOne
      <4>4. a \notin DOMAIN reg => OneForOne
        BY <4>1, <4>2 DEF OneForOne
      <4> QED
        BY <3>4, <3>9, <4>3, <4>4 DEF Swaps
    <3>10. CASE AsksTooLate(p) \/ Rewrites(p)
      BY <3>10 DEF AsksTooLate, Rewrites, Lost
    <3> QED
      BY <3>1, <3>6, <3>7, <3>8, <3>9, <3>10 DEF SettleNode
  <2>6. ASSUME NEW p \in Pointer,
               LowerRoot(p) \/ InternHit(p) \/ Intern(p) \/ Promise(p) \/ Complete(p)
               \/ Defer(p) \/ BlankCall(p) \/ Fulfil(p) \/ Fulfilled(p)
        PROVE  reg' = reg
    BY <2>6 DEF LowerRoot, InternHit, Intern, Promise, Complete, Defer, BlankCall,
       Fulfil, Fulfilled
  <2>7. ASSUME BuiltNil \/ Stopped \/ Finish \/ TakeRound \/ Settle \/ Report
               \/ Cancel \/ UNCHANGED vars
        PROVE  reg' = reg
    BY <2>7 DEF BuiltNil, Stopped, Finish, TakeRound, Settle, Report, Cancel, vars
  <2> QED
    BY <1>1, <2>1, <2>2, <2>3, <2>4, <2>5, <2>6, <2>7 DEF Next, Step
<1>2. IInv /\ [Next]_vars => [Holds]_vars
  BY <1>1
<1> QED
  BY <1>2, Invariance, PTL DEF Spec, NeverOverwritten

-----------------------------------------------------------------------------
(***************************************************************************)
(* What a document handed over holds does not depend on the order its      *)
(* lowerings ran in, for every document: every settlement queued has been  *)
(* taken, once and completing ones first (SettledInOrder), and the IDs are *)
(* those of what the document leads to and mints (SameWhateverTheOrder).   *)
(*                                                                         *)
(* Both rest on one account of the work done so far: what a coordinate's   *)
(* lowering has asked for (Had) is, as long as nothing has been refused,   *)
(* exactly what lies in the queues (Accounted) and in the registry         *)
(* (Registered).                                                           *)
(***************************************************************************)

(* An item some lowering has asked for.                                    *)
Had(x) ==
    \E p \in DOMAIN byPointer : x \in doc.work[p] /\ ~(p \in Frames /\ x \in todo[p])

(* The items that leave something behind.                                  *)
Lasting == {"complete", "defer", "register", "prim"}

(* Completing settlements first.                                           *)
InOrder(s) ==
    \A n \in DOMAIN s : s[n].op = "complete" => \A m \in 1..n : s[m].op = "complete"

(* Each queue holds its own kind, and what is taken goes on in order.      *)
Queues ==
    /\ \A x \in ElementsOf(completing) : x.op = "complete"
    /\ \A x \in ElementsOf(pending) : x.op = "defer"
    /\ ~settled => queue = << >> /\ taken = << >>
    /\ settled => completing = << >> /\ pending = << >>
    /\ InOrder(queue) /\ InOrder(taken)
    /\ \A x \in ElementsOf(queue), y \in ElementsOf(taken) :
          x.op = "complete" => y.op = "complete"

Where ==
    /\ doc \in Documents
    /\ phase \in {"lower", "fulfil"} => ~settled
    /\ phase = "settle" => settled
    /\ outcome = "document" =>
          refused = {} /\ ~cancelled /\ phase = "end" /\ queue = << >> /\ settled

Waiting == ElementsOf(completing) \cup ElementsOf(pending) \cup ElementsOf(queue)

(* Every settlement asked for waits in one place or was taken, once.       *)
Accounted ==
    /\ Once(completing) /\ Once(pending) /\ Once(queue) /\ Once(taken)
    /\ Waiting \cap ElementsOf(taken) = {}
    /\ \A x \in Settlement : Had(x) <=> x \in Waiting \cup ElementsOf(taken)

Aimed(s) == {i \in TypeID : \E x \in ElementsOf(s) : doc.deed[x.on] = "register" /\ i = doc.aim[x.on]}

(* The IDs of the registry are those built, asked for and minted late,     *)
(* unless one was swapped for another.                                     *)
Registered ==
    ~Taken({"swap"}) => \A i \in TypeID :
        i \in DOMAIN reg <=>
            \/ \E p \in DOMAIN byPointer \ Frames : i = doc.id[p]
            \/ \E op \in OnID : Had([op |-> op, on |-> i])
            \/ i \in Aimed(taken)

Books == Queues /\ Where /\ (refused = {} => Accounted /\ Registered)

-----------------------------------------------------------------------------
(* Sequences.                                                              *)

LEMMA TakeHead ==
    ASSUME NEW S, NEW s \in Seq(S), s # << >>
    PROVE  /\ Head(s) \in S /\ Tail(s) \in Seq(S)
           /\ ElementsOf(s) = {Head(s)} \cup ElementsOf(Tail(s))
           /\ Once(s) => Once(Tail(s)) /\ Head(s) \notin ElementsOf(Tail(s))
           /\ InOrder(s) => /\ InOrder(Tail(s))
                            /\ Head(s).op # "complete" =>
                                  \A x \in ElementsOf(s) : x.op # "complete"
<1> DEFINE t == Tail(s)
<1>1. /\ Len(s) \in Nat /\ Len(s) > 0 /\ DOMAIN s = 1..Len(s)
      /\ Head(s) = s[1] /\ Head(s) \in S
      /\ t \in Seq(S) /\ Len(t) = Len(s) - 1 /\ DOMAIN t = 1..(Len(s) - 1)
      /\ \A n \in 1..(Len(s) - 1) : t[n] = s[n + 1]
  OBVIOUS
<1> HIDE DEF t
<1>2. ElementsOf(s) = {Head(s)} \cup ElementsOf(t)
  <2>1. ASSUME NEW n \in DOMAIN s
        PROVE  s[n] \in {Head(s)} \cup ElementsOf(t)
    <3>1. CASE n = 1
      BY <1>1, <3>1
    <3>2. CASE n # 1
      <4>1. n - 1 \in DOMAIN t /\ t[n - 1] = s[n]
        BY <1>1, <3>2
      <4> QED
        BY <4>1 DEF ElementsOf
    <3> QED
      BY <3>1, <3>2
  <2>2. ASSUME NEW n \in DOMAIN t
        PROVE  t[n] \in ElementsOf(s)
    <3>1. n + 1 \in DOMAIN s /\ t[n] = s[n + 1]
      BY <1>1
    <3> QED
      BY <3>1 DEF ElementsOf
  <2>3. Head(s) \in ElementsOf(s)
    <3>1. 1 \in DOMAIN s
      BY <1>1
    <3> QED
      BY <1>1, <3>1 DEF ElementsOf
  <2> QED
    BY <2>1, <2>2, <2>3 DEF ElementsOf
<1>3. ASSUME Once(s)
      PROVE  Once(t) /\ Head(s) \notin ElementsOf(t)
  <2>1. ASSUME NEW m \in DOMAIN t, NEW n \in DOMAIN t, t[m] = t[n]
        PROVE  m = n
    <3>1. m + 1 \in DOMAIN s /\ n + 1 \in DOMAIN s /\ s[m + 1] = s[n + 1]
      BY <1>1, <2>1
    <3>2. m + 1 = n + 1
      BY <1>3, <3>1 DEF Once
    <3> QED
      BY <1>1, <3>2
  <2>2. ASSUME NEW n \in DOMAIN t, t[n] = Head(s)
        PROVE  FALSE
    <3>1. n + 1 \in DOMAIN s /\ 1 \in DOMAIN s /\ s[n + 1] = s[1]
      BY <1>1, <2>2
    <3>2. n + 1 = 1
      BY <1>3, <3>1 DEF Once
    <3> QED
      BY <1>1, <3>2
  <2> QED
    BY <2>1, <2>2 DEF Once, ElementsOf
<1>4. ASSUME InOrder(s)
      PROVE  /\ InOrder(t)
             /\ Head(s).op # "complete" => \A x \in ElementsOf(s) : x.op # "complete"
  <2>1. ASSUME NEW n \in DOMAIN t, t[n].op = "complete", NEW m \in 1..n
        PROVE  t[m].op = "complete"
    <3>1. n + 1 \in DOMAIN s /\ s[n + 1].op = "complete" /\ m + 1 \in 1..(n + 1)
          /\ t[m] = s[m + 1]
      BY <1>1, <2>1
    <3> QED
      BY <1>4, <3>1 DEF InOrder
  <2>2. ASSUME NEW n \in DOMAIN s, s[n].op = "complete"
        PROVE  Head(s).op = "complete"
    <3>1. 1 \in 1..n
      BY <1>1
    <3> QED
      BY <1>1, <1>4, <2>2, <3>1 DEF InOrder
  <2> QED
    BY <2>1, <2>2 DEF InOrder, ElementsOf
<1> QED
  BY <1>1, <1>2, <1>3, <1>4 DEF t

LEMMA AppendInOrder ==
    ASSUME NEW S, NEW s \in Seq(S), NEW x \in S, InOrder(s),
           x.op = "complete" => \A y \in ElementsOf(s) : y.op = "complete"
    PROVE  InOrder(Append(s, x))
<1> DEFINE t == Append(s, x)
<1>1. /\ DOMAIN t = 1..(Len(s) + 1) /\ DOMAIN s = 1..Len(s) /\ Len(s) \in Nat
      /\ t[Len(s) + 1] = x
      /\ \A n \in 1..Len(s) : t[n] = s[n]
  OBVIOUS
<1> HIDE DEF t
<1>2. ASSUME NEW n \in DOMAIN t, t[n].op = "complete", NEW m \in 1..n
      PROVE  t[m].op = "complete"
  <2>1. CASE n = Len(s) + 1
    BY <1>1, <1>2, <2>1 DEF ElementsOf
  <2>2. CASE n # Len(s) + 1
    <3>1. n \in DOMAIN s /\ m \in DOMAIN s /\ t[n] = s[n] /\ t[m] = s[m]
      BY <1>1, <2>2
    <3> QED
      BY <1>2, <3>1 DEF InOrder
  <2> QED
    BY <2>1, <2>2
<1> QED
  BY <1>2 DEF InOrder, t

LEMMA Join ==
    ASSUME NEW S, NEW s \in Seq(S), NEW t \in Seq(S),
           \A x \in ElementsOf(s) : x.op = "complete",
           \A x \in ElementsOf(t) : x.op = "defer"
    PROVE  /\ ElementsOf(s \o t) = ElementsOf(s) \cup ElementsOf(t)
           /\ InOrder(s \o t)
           /\ Once(s) /\ Once(t) => Once(s \o t)
<1> DEFINE u == s \o t
<1>1. /\ Len(s) \in Nat /\ Len(t) \in Nat /\ DOMAIN s = 1..Len(s) /\ DOMAIN t = 1..Len(t)
      /\ DOMAIN u = 1..(Len(s) + Len(t))
      /\ \A n \in 1..Len(s) : u[n] = s[n]
      /\ \A n \in 1..(Len(s) + Len(t)) : n > Len(s) => u[n] = t[n - Len(s)]
  OBVIOUS
<1>2. \A n \in DOMAIN t : n + Len(s) \in DOMAIN u /\ u[n + Len(s)] = t[n]
  BY <1>1
<1> HIDE DEF u
<1>3. \A n \in DOMAIN u : \/ n \in DOMAIN s /\ u[n] = s[n] /\ s[n] \in ElementsOf(s)
                         \/ /\ n > Len(s) /\ n - Len(s) \in DOMAIN t
                            /\ u[n] = t[n - Len(s)] /\ t[n - Len(s)] \in ElementsOf(t)
  <2> SUFFICES ASSUME NEW n \in DOMAIN u
               PROVE  \/ n \in DOMAIN s /\ u[n] = s[n] /\ s[n] \in ElementsOf(s)
                      \/ /\ n > Len(s) /\ n - Len(s) \in DOMAIN t
                         /\ u[n] = t[n - Len(s)] /\ t[n - Len(s)] \in ElementsOf(t)
    OBVIOUS
  <2>1. n \in DOMAIN s \/ (n > Len(s) /\ n - Len(s) \in DOMAIN t)
    BY <1>1
  <2> QED
    BY <1>1, <2>1 DEF ElementsOf
<1>4. ElementsOf(u) = ElementsOf(s) \cup ElementsOf(t)
  <2>1. ElementsOf(u) \subseteq ElementsOf(s) \cup ElementsOf(t)
    BY <1>3 DEF ElementsOf
  <2>2. ElementsOf(s) \subseteq ElementsOf(u)
    <3>1. \A n \in DOMAIN s : n \in DOMAIN u /\ u[n] = s[n]
      BY <1>1
    <3> QED
      BY <3>1 DEF ElementsOf
  <2>3. ElementsOf(t) \subseteq ElementsOf(u)
    BY <1>2 DEF ElementsOf
  <2> QED
    BY <2>1, <2>2, <2>3
<1>5. InOrder(u)
  <2> SUFFICES ASSUME NEW n \in DOMAIN u, u[n].op = "complete", NEW m \in 1..n
               PROVE  u[m].op = "complete"
    BY DEF InOrder
  <2>1. n \in DOMAIN s
    BY <1>3
  <2>2. m \in DOMAIN s /\ m \in DOMAIN u
    BY <1>1, <2>1
  <2> QED
    BY <1>1, <2>2 DEF ElementsOf
<1>6. ASSUME Once(s), Once(t)
      PROVE  Once(u)
  <2> SUFFICES ASSUME NEW m \in DOMAIN u, NEW n \in DOMAIN u, u[m] = u[n]
               PROVE  m = n
    BY DEF Once
  <2>1. m \in Nat /\ n \in Nat
    BY <1>1
  <2>2. CASE m \in DOMAIN s /\ n \in DOMAIN s
    BY <1>1, <1>6, <2>2 DEF Once
  <2>3. CASE m > Len(s) /\ n > Len(s)
    <3>1. m - Len(s) = n - Len(s)
      BY <1>1, <1>3, <1>6, <2>3 DEF Once
    <3> QED
      BY <1>1, <2>1, <3>1
  <2>4. CASE m \in DOMAIN s /\ n > Len(s)
    BY <1>1, <1>3, <2>1, <2>4, SMTT(30)
  <2>5. CASE n \in DOMAIN s /\ m > Len(s)
    BY <1>1, <1>3, <2>1, <2>5, SMTT(30)
  <2> QED
    BY <1>3, <2>2, <2>3, <2>4, <2>5
<1> QED
  BY <1>4, <1>5, <1>6 DEF u

(* A sequence that holds each element once is as long as they are many.    *)
LEMMA OnceCounts ==
    ASSUME NEW S, NEW s \in Seq(S), Once(s)
    PROVE  Cardinality(ElementsOf(s)) = Len(s)
<1> DEFINE E == ElementsOf(s)
<1>1. Len(s) \in Nat /\ DOMAIN s = 1..Len(s)
  OBVIOUS
<1>2. s \in [1..Len(s) -> E]
  BY <1>1 DEF ElementsOf
<1>3. s \in Bijection(1..Len(s), E)
  <2>1. s \in Injection(1..Len(s), E)
    BY <1>1, <1>2 DEF Once, Injection, IsInjective
  <2>2. s \in Surjection(1..Len(s), E)
    BY <1>1, <1>2 DEF ElementsOf, Surjection
  <2> QED
    BY <2>1, <2>2 DEF Bijection
<1>4. ExistsBijection(1..Len(s), E)
  BY <1>3 DEF ExistsBijection
<1> QED
  BY <1>1, <1>4, FS_CountingElements

-----------------------------------------------------------------------------
(* Where the compile is, and what its queues hold.                         *)

(* Refusals stay.                                                          *)
LEMMA RefusalsStay ==
    ASSUME IInv, [Next]_vars
    PROVE  refused \subseteq refused'
<1>1. ASSUME TakeSettlement PROVE refused \subseteq refused'
  <2>1. Head(queue) \in Settlement
    BY <1>1 DEF IInv, TypeOK, TakeSettlement
  <2>2. Head(queue).on \in Pointer
    BY <2>1 DEF Settlement
  <2> QED
    BY <1>1, <2>2, SettlementRefuses DEF TakeSettlement
<1>2. ASSUME NEW p \in Pointer,
             LowerRoot(p) \/ InternHit(p) \/ Intern(p) \/ Promise(p) \/ Complete(p)
             \/ Defer(p) \/ BlankCall(p) \/ Fulfil(p) \/ Fulfilled(p)
      PROVE  refused \subseteq refused'
  BY <1>2 DEF LowerRoot, InternHit, Intern, Promise, Complete, Defer, BlankCall, Fulfil,
     Fulfilled, Enter
<1>3. ASSUME NEW i \in TypeID, Register(i) \/ PrimRef(i)
      PROVE  refused \subseteq refused'
  BY <1>3 DEF Register, RegisterNode, PrimRef
<1>4. ASSUME Built \/ BuiltNil \/ Stopped \/ Finish \/ TakeRound \/ Settle \/ Report
             \/ Cancel \/ UNCHANGED vars
      PROVE  refused \subseteq refused'
  BY <1>4 DEF Built, BuiltNil, Stopped, Finish, TakeRound, Settle, Report, Cancel, vars
<1> QED
  BY <1>1, <1>2, <1>3, <1>4 DEF Next, Step

(* Nothing is done once the compile has ended.                             *)
LEMMA EndIsLast ==
    ASSUME IInv, Next
    PROVE  phase # "end"
<1>1. phase = "end" => stack = << >>
  BY DEF IInv, Phases
<1>2. ASSUME NEW p \in Pointer,
             LowerRoot(p) \/ InternHit(p) \/ Intern(p) \/ Promise(p) \/ Complete(p)
             \/ Defer(p) \/ BlankCall(p) \/ Fulfil(p) \/ Fulfilled(p)
      PROVE  phase # "end"
  BY <1>1, <1>2 DEF LowerRoot, InternHit, Intern, Promise, Complete, Defer, BlankCall,
     Fulfil, Fulfilled, Asks, BetweenBuilds
<1>3. ASSUME NEW i \in TypeID, Register(i) \/ PrimRef(i)
      PROVE  phase # "end"
  BY <1>1, <1>3 DEF Register, PrimRef, Asks
<1>4. ASSUME Built \/ BuiltNil \/ Stopped \/ Finish \/ TakeRound \/ Settle \/ TakeSettlement
             \/ Report \/ Cancel
      PROVE  phase # "end"
  BY <1>1, <1>4 DEF Built, BuiltNil, Stopped, Finish, TakeRound, Settle, TakeSettlement, Report,
     Cancel, BetweenBuilds
<1> QED
  BY <1>2, <1>3, <1>4 DEF Next, Step

LEMMA WhereHolds ==
    ASSUME IInv, Where, [Next]_vars
    PROVE  Where'
<1>1. CASE UNCHANGED vars
  BY <1>1 DEF Where, vars, finishVars
<1>2. ASSUME Next, UNCHANGED <<doc, phase, settled, outcome>>
      PROVE  Where'
  BY <1>2, EndIsLast DEF Where
<1>3. ASSUME NEW p \in Pointer,
             LowerRoot(p) \/ InternHit(p) \/ Intern(p) \/ Promise(p) \/ Complete(p)
             \/ Defer(p) \/ BlankCall(p) \/ Fulfil(p) \/ Fulfilled(p)
      PROVE  UNCHANGED <<doc, phase, settled, outcome>>
  BY <1>3 DEF LowerRoot, InternHit, Intern, Promise, Complete, Defer, BlankCall,
     Fulfil, Fulfilled, finishVars
<1>4. ASSUME NEW i \in TypeID, Register(i) \/ PrimRef(i)
      PROVE  UNCHANGED <<doc, phase, settled, outcome>>
  BY <1>4 DEF Register, PrimRef, finishVars
<1>5. ASSUME Built \/ BuiltNil \/ TakeRound \/ TakeSettlement \/ Cancel
      PROVE  UNCHANGED <<doc, phase, settled, outcome>>
  BY <1>5 DEF Built, BuiltNil, TakeRound, TakeSettlement, Cancel, finishVars
<1>6. CASE Stopped
  BY <1>6 DEF Where, Stopped
<1>7. CASE Finish
  BY <1>7 DEF Where, Finish
<1>8. CASE Settle
  BY <1>8 DEF Where, Settle, BetweenBuilds
<1>9. CASE Report
  BY <1>9 DEF Where, Report
<1> QED
  BY <1>1, <1>2, <1>3, <1>4, <1>5, <1>6, <1>7, <1>8, <1>9 DEF Next, Step

LEMMA NoElements ==
    ElementsOf(<< >>) = {} /\ Once(<< >>) /\ InOrder(<< >>)
BY DEF ElementsOf, Once, InOrder

(* One more settlement in a queue.                                         *)
LEMMA QueuesHold ==
    ASSUME IInv, Where, Queues, [Next]_vars
    PROVE  Queues'
<1> USE DEF IInv
<1>1. ASSUME UNCHANGED <<completing, pending, queue, taken, settled>>
      PROVE  Queues'
  BY <1>1 DEF Queues
<1>2. ASSUME NEW p \in Pointer, Complete(p)
      PROVE  Queues'
  <2>1. [op |-> "complete", on |-> p] \in Settlement /\ completing \in Seq(Settlement)
    BY DEF Settlement, TypeOK
  <2>2. /\ completing' = Append(completing, [op |-> "complete", on |-> p])
        /\ UNCHANGED <<pending, queue, taken, settled>> /\ ~settled
    BY <1>2 DEF Complete, finishVars
  <2>3. ElementsOf(completing') = ElementsOf(completing) \cup {[op |-> "complete", on |-> p]}
    BY <2>1, <2>2, PushFrame
  <2>4. \A x \in ElementsOf(completing') : x.op = "complete"
    BY <2>3 DEF Queues
  <2> QED
    BY <2>2, <2>4 DEF Queues
<1>3. ASSUME NEW p \in Pointer, Defer(p)
      PROVE  Queues'
  <2>1. [op |-> "defer", on |-> p] \in Settlement /\ pending \in Seq(Settlement)
    BY DEF Settlement, TypeOK
  <2>2. /\ pending' = Append(pending, [op |-> "defer", on |-> p])
        /\ UNCHANGED <<completing, queue, taken, settled>> /\ ~settled
    BY <1>3 DEF Defer, finishVars
  <2>3. ElementsOf(pending') = ElementsOf(pending) \cup {[op |-> "defer", on |-> p]}
    BY <2>1, <2>2, PushFrame
  <2>4. \A x \in ElementsOf(pending') : x.op = "defer"
    BY <2>3 DEF Queues
  <2> QED
    BY <2>2, <2>4 DEF Queues
<1>4. CASE Settle
  <2>1. /\ queue' = completing \o pending /\ completing' = << >> /\ pending' = << >>
        /\ settled' /\ taken' = taken
    BY <1>4 DEF Settle
  <2>2. ~settled /\ taken = << >>
    BY <1>4 DEF Settle, BetweenBuilds, Where, Queues
  <2>3. completing \in Seq(Settlement) /\ pending \in Seq(Settlement)
    BY DEF TypeOK
  <2>4. InOrder(queue')
    BY <2>1, <2>3, Join DEF Queues
  <2> QED
    BY <2>1, <2>2, <2>4, NoElements DEF Queues
<1>5. CASE TakeSettlement
  <2>1. /\ queue # << >> /\ queue' = Tail(queue) /\ taken' = Append(taken, Head(queue))
        /\ UNCHANGED <<completing, pending, settled>> /\ phase = "settle"
    BY <1>5 DEF TakeSettlement, settleVars
  <2>2. queue \in Seq(Settlement) /\ taken \in Seq(Settlement) /\ settled
    BY <2>1 DEF TypeOK, Where
  <2>3. /\ Head(queue) \in Settlement
        /\ ElementsOf(queue) = {Head(queue)} \cup ElementsOf(queue')
        /\ InOrder(queue')
        /\ Head(queue).op # "complete" => \A x \in ElementsOf(queue) : x.op # "complete"
    BY <2>1, <2>2, TakeHead DEF Queues
  <2>4. ElementsOf(taken') = ElementsOf(taken) \cup {Head(queue)}
    BY <2>1, <2>2, <2>3, PushFrame
  <2>5. Head(queue).op = "complete" => \A y \in ElementsOf(taken) : y.op = "complete"
    BY <2>3 DEF Queues
  <2>6. InOrder(taken')
    BY <2>1, <2>2, <2>3, <2>5, AppendInOrder DEF Queues
  <2>7. \A x \in ElementsOf(queue'), y \in ElementsOf(taken') :
          x.op = "complete" => y.op = "complete"
    BY <2>3, <2>4 DEF Queues
  <2> QED
    BY <2>1, <2>2, <2>3, <2>6, <2>7 DEF Queues
<1>6. ASSUME NEW p \in Pointer,
             LowerRoot(p) \/ InternHit(p) \/ Intern(p) \/ Promise(p)
             \/ BlankCall(p) \/ Fulfil(p) \/ Fulfilled(p)
      PROVE  Queues'
  BY <1>1, <1>6 DEF LowerRoot, InternHit, Intern, Promise, BlankCall,
     Fulfil, Fulfilled, finishVars, settleVars
<1>7. ASSUME NEW i \in TypeID, Register(i) \/ PrimRef(i)
      PROVE  Queues'
  BY <1>1, <1>7 DEF Register, PrimRef, finishVars, settleVars
<1>8. ASSUME Built \/ BuiltNil \/ Stopped \/ Finish \/ TakeRound \/ Report \/ Cancel
             \/ UNCHANGED vars
      PROVE  Queues'
  BY <1>1, <1>8 DEF Built, BuiltNil, Stopped, Finish, TakeRound, Report, Cancel, vars,
     finishVars, settleVars
<1> QED
  BY <1>2, <1>3, <1>4, <1>5, <1>6, <1>7, <1>8 DEF Next, Step

-----------------------------------------------------------------------------
(* What the lowerings have asked for.                                      *)

(* What is said of the state while nothing has been refused.               *)
Clean == IInv /\ Where /\ Queues /\ refused = {} /\ Accounted /\ Registered

LEMMA HadSame ==
    ASSUME UNCHANGED <<doc, byPointer, stack, todo>>
    PROVE  \A x : Had(x)' <=> Had(x)
BY DEF Had, Frames

(* A build asks for one thing.                                             *)
LEMMA HadAsk ==
    ASSUME Clean, NEW op, NEW on, Asks(op, on), todo' = Asked(op, on),
           UNCHANGED <<doc, byPointer, stack>>
    PROVE  \A x : Had(x)' <=> Had(x) \/ x = [op |-> op, on |-> on]
<1> DEFINE x0 == [op |-> op, on |-> on]
<1>1. TypeOK /\ Inverted /\ Asking
  BY DEF Clean, IInv, Sane
<1>2. /\ Top \in Pointer /\ Top \in Frames /\ Top \in DOMAIN byPointer
      /\ x0 \in todo[Top] /\ x0 \in doc.work[Top]
  BY <1>1, AskTypes DEF Asks, Asking, Inverted
<1>3. /\ \A p \in Pointer : todo'[p] \subseteq todo[p]
      /\ \A p \in Pointer : \A x \in todo[p] : x \in todo'[p] \/ (p = Top /\ x = x0)
  BY <1>1, AskTypes
<1>4. x0 \notin todo'[Top]
  BY <1>1, <1>2 DEF Asked, TypeOK
<1>5. DOMAIN byPointer \subseteq Pointer /\ Frames' = Frames
  BY <1>1 DEF TypeOK, PartialMap, Frames
<1> HIDE DEF x0
<1>6. \A x : Had(x)' <=> Had(x) \/ x = x0
  BY <1>2, <1>3, <1>4, <1>5 DEF Had
<1> QED
  BY <1>6 DEF x0

(* A settlement is asked for by one lowering, and so once.                 *)
LEMMA AskedAnew ==
    ASSUME Clean, NEW op \in {"complete", "defer"}, NEW on, Asks(op, on)
    PROVE  ~Had([op |-> op, on |-> on])
<1> DEFINE x0 == [op |-> op, on |-> on]
<1>1. TypeOK /\ Inverted /\ Asking /\ doc \in Documents
  BY DEF Clean, IInv, Sane, Where
<1>2. /\ Top \in Pointer /\ Top \in Frames
      /\ x0 \in todo[Top] /\ x0 \in doc.work[Top]
  BY <1>1, AskTypes DEF Asks, Asking
<1>3. x0.op \in {"complete", "defer"}
  OBVIOUS
<1> HIDE DEF x0
<1>4. ASSUME NEW p \in DOMAIN byPointer, x0 \in doc.work[p]
      PROVE  p = Top
  <2>1. p \in Pointer
    BY <1>1 DEF TypeOK, PartialMap
  <2> QED
    BY <1>1, <1>2, <1>3, <1>4, <2>1, SettlementAssumption
<1>5. ~Had(x0)
  BY <1>2, <1>4 DEF Had
<1> QED
  BY <1>5 DEF x0

(* A coordinate entered has asked for nothing yet.                         *)
LEMMA HadEnter ==
    ASSUME Clean, NEW p \in Pointer, ~Owned(p), Enter(p), doc' = doc,
           todo'[p] = doc.work[p],
           \A q \in Pointer \ {p} : \A x : x.op \in Lasting => (x \in todo'[q] <=> x \in todo[q])
    PROVE  /\ \A x : x.op \in Lasting => (Had(x)' <=> Had(x))
           /\ DOMAIN byPointer' \ Frames' = DOMAIN byPointer \ Frames
<1>1. TypeOK /\ Inverted
  BY DEF Clean, IInv, Sane
<1>2. DOMAIN byPointer' = DOMAIN byPointer \cup {p} /\ p \notin DOMAIN byPointer
      /\ DOMAIN byPointer \subseteq Pointer
  BY <1>1 DEF Put, TypeOK, Enter, Owned, PartialMap
<1>3. Frames' = Frames \cup {p} /\ p \notin Frames
  BY <1>1, PushFrame DEF TypeOK, Enter, Frames, Inverted, Owned
<1>4. ASSUME NEW x, x.op \in Lasting, Had(x)
      PROVE  Had(x)'
  BY <1>2, <1>3, <1>4 DEF Had
<1>5. ASSUME NEW x, x.op \in Lasting, Had(x)'
      PROVE  Had(x)
  BY <1>2, <1>3, <1>5 DEF Had
<1> QED
  BY <1>2, <1>3, <1>4, <1>5

-----------------------------------------------------------------------------
(* Each step keeps the account.                                            *)

LEMMA AccountStays ==
    ASSUME Clean, \A x : x.op \in Lasting => (Had(x)' <=> Had(x)),
           UNCHANGED <<completing, pending, queue, taken>>
    PROVE  Accounted'
<1>1. Waiting' = Waiting
  BY DEF Waiting
<1>2. \A x \in Settlement : x.op \in Lasting
  BY DEF Settlement, Lasting
<1> QED
  BY <1>1, <1>2 DEF Clean, Accounted

LEMMA RegisteredStays ==
    ASSUME Clean, \A x : x.op \in Lasting => (Had(x)' <=> Had(x)),
           DOMAIN reg' = DOMAIN reg, UNCHANGED <<doc, taken>>,
           DOMAIN byPointer' \ Frames' = DOMAIN byPointer \ Frames
    PROVE  Registered'
<1>1. Aimed(taken)' = Aimed(taken)
  BY DEF Aimed
<1>2. \A op \in OnID : \A i : [op |-> op, on |-> i].op \in Lasting
  BY DEF OnID, Lasting
<1>3. \A op \in OnID : \A i : Had([op |-> op, on |-> i])' <=> Had([op |-> op, on |-> i])
  BY <1>2
<1>4. Taken({"swap"})' = Taken({"swap"})
  BY DocStays
<1> QED
  BY <1>1, <1>3, <1>4 DEF Clean, Registered

LEMMA AskBooks ==
    ASSUME Clean, NEW op \in {"intern", "promise", "blank"}, NEW on, Asks(op, on),
           todo' = Asked(op, on), UNCHANGED <<doc, byPointer, stack, reg, settleVars, queue, taken>>
    PROVE  Accounted' /\ Registered'
<1>1. \A x : Had(x)' <=> Had(x) \/ x = [op |-> op, on |-> on]
  BY HadAsk
<1>2. [op |-> op, on |-> on].op \notin Lasting
  BY DEF Lasting
<1>3. \A x : x.op \in Lasting => (Had(x)' <=> Had(x))
  BY <1>1, <1>2
<1>4. Frames' = Frames
  BY DEF Frames
<1> QED
  BY <1>3, <1>4, AccountStays, RegisteredStays DEF settleVars

LEMMA EnterBooks ==
    ASSUME Clean, NEW p \in Pointer, ~Owned(p), Enter(p),
           UNCHANGED <<doc, reg, settleVars, queue, taken>>,
           todo'[p] = doc.work[p],
           \A q \in Pointer \ {p} : \A x : x.op \in Lasting => (x \in todo'[q] <=> x \in todo[q])
    PROVE  Accounted' /\ Registered'
<1>1. /\ \A x : x.op \in Lasting => (Had(x)' <=> Had(x))
      /\ DOMAIN byPointer' \ Frames' = DOMAIN byPointer \ Frames
  BY HadEnter
<1> QED
  BY <1>1, AccountStays, RegisteredStays DEF settleVars

LEMMA InternBooks ==
    ASSUME Clean, NEW c \in Pointer, Intern(c)
    PROVE  Accounted' /\ Registered'
<1> DEFINE x0 == [op |-> "intern", on |-> c]
<1>1. /\ Enter(c) /\ ~Owned(c) /\ UNCHANGED <<doc, reg, settleVars, queue, taken>>
      /\ todo' = [Asked("intern", c) EXCEPT ![c] = doc.work[c]] /\ Asks("intern", c)
  BY DEF Intern, finishVars
<1>2. TypeOK
  BY DEF Clean, IInv
<1>3. /\ Asked("intern", c) \in [Pointer -> SUBSET Item]
      /\ \A p \in Pointer : Asked("intern", c)[p] \subseteq todo[p]
      /\ \A p \in Pointer : \A x \in todo[p] :
            x \in Asked("intern", c)[p] \/ (p = Top /\ x = x0)
  BY <1>1, <1>2, AskTypes
<1>4. x0.op \notin Lasting
  BY DEF Lasting
<1> HIDE DEF x0
<1>5. todo'[c] = doc.work[c] /\ \A q \in Pointer \ {c} : todo'[q] = Asked("intern", c)[q]
  BY <1>1, <1>3
<1>6. \A q \in Pointer \ {c} : \A x : x.op \in Lasting => (x \in todo'[q] <=> x \in todo[q])
  BY <1>3, <1>4, <1>5
<1> QED
  BY <1>1, <1>5, <1>6, EnterBooks

(* What a step that does not refuse, and neither builds, asks nor settles, *)
(* leaves alone.                                                           *)
LEMMA OtherBooks ==
    ASSUME Clean, UNCHANGED <<doc, byPointer, stack, todo, reg, settleVars, queue, taken>>
    PROVE  Accounted' /\ Registered'
<1>1. \A x : Had(x)' <=> Had(x)
  BY HadSame
<1>2. Frames' = Frames
  BY DEF Frames
<1> QED
  BY <1>1, <1>2, AccountStays, RegisteredStays DEF settleVars

LEMMA CompleteBooks ==
    ASSUME Clean, NEW p \in Pointer, Complete(p)
    PROVE  Accounted' /\ Registered'
<1> DEFINE x0 == [op |-> "complete", on |-> p]
<1>1. /\ Asks("complete", p) /\ todo' = Asked("complete", p)
      /\ completing' = Append(completing, x0)
      /\ UNCHANGED <<doc, byPointer, stack, reg, pending, queue, taken>>
  BY DEF Complete, tables, finishVars
<1>2. (\A x : Had(x)' <=> Had(x) \/ x = x0) /\ ~Had(x0)
  BY <1>1, HadAsk, AskedAnew
<1>3. x0 \in Settlement /\ completing \in Seq(Settlement)
  BY DEF Clean, IInv, TypeOK, Settlement
<1>4. \A op \in OnID : \A i : [op |-> op, on |-> i] # x0
  BY DEF OnID
<1> HIDE DEF x0
<1>5. x0 \notin Waiting \cup ElementsOf(taken)
  BY <1>2, <1>3 DEF Clean, Accounted
<1>6. ElementsOf(completing') = ElementsOf(completing) \cup {x0} /\ Once(completing')
  BY <1>1, <1>3, <1>5, PushFrame DEF Clean, Accounted, Waiting
<1>7. Waiting' = Waiting \cup {x0}
  BY <1>1, <1>6 DEF Waiting
<1>8. Accounted'
  BY <1>1, <1>2, <1>5, <1>6, <1>7 DEF Clean, Accounted
<1>9. /\ Frames' = Frames /\ Aimed(taken)' = Aimed(taken)
      /\ Taken({"swap"})' = Taken({"swap"})
  BY <1>1, DocStays DEF Frames, Aimed
<1>10. Registered'
  BY <1>1, <1>2, <1>4, <1>9 DEF Clean, Registered
<1> QED
  BY <1>8, <1>10

LEMMA DeferBooks ==
    ASSUME Clean, NEW p \in Pointer, Defer(p)
    PROVE  Accounted' /\ Registered'
<1> DEFINE x0 == [op |-> "defer", on |-> p]
<1>1. /\ Asks("defer", p) /\ todo' = Asked("defer", p)
      /\ pending' = Append(pending, x0)
      /\ UNCHANGED <<doc, byPointer, stack, reg, completing, queue, taken>>
  BY DEF Defer, tables, finishVars
<1>2. (\A x : Had(x)' <=> Had(x) \/ x = x0) /\ ~Had(x0)
  BY <1>1, HadAsk, AskedAnew
<1>3. x0 \in Settlement /\ pending \in Seq(Settlement)
  BY DEF Clean, IInv, TypeOK, Settlement
<1>4. \A op \in OnID : \A i : [op |-> op, on |-> i] # x0
  BY DEF OnID
<1> HIDE DEF x0
<1>5. x0 \notin Waiting \cup ElementsOf(taken)
  BY <1>2, <1>3 DEF Clean, Accounted
<1>6. ElementsOf(pending') = ElementsOf(pending) \cup {x0} /\ Once(pending')
  BY <1>1, <1>3, <1>5, PushFrame DEF Clean, Accounted, Waiting
<1>7. Waiting' = Waiting \cup {x0}
  BY <1>1, <1>6 DEF Waiting
<1>8. Accounted'
  BY <1>1, <1>2, <1>5, <1>6, <1>7 DEF Clean, Accounted
<1>9. /\ Frames' = Frames /\ Aimed(taken)' = Aimed(taken)
      /\ Taken({"swap"})' = Taken({"swap"})
  BY <1>1, DocStays DEF Frames, Aimed
<1>10. Registered'
  BY <1>1, <1>2, <1>4, <1>9 DEF Clean, Registered
<1> QED
  BY <1>8, <1>10

(* A node minted, or a primitive named: its ID is there, whoever was first.*)
LEMMA MintBooks ==
    ASSUME Clean, NEW op \in OnID, NEW i \in TypeID, Asks(op, i), todo' = Asked(op, i),
           DOMAIN reg' = DOMAIN reg \cup {i},
           UNCHANGED <<doc, byPointer, stack, settleVars, queue, taken>>
    PROVE  Accounted' /\ Registered'
<1> DEFINE x0 == [op |-> op, on |-> i]
<1>1. \A x : Had(x)' <=> Had(x) \/ x = x0
  BY HadAsk
<1>2. \A x \in Settlement : x # x0
  BY DEF Settlement, OnID
<1>3. \A o \in OnID : \A j : [op |-> o, on |-> j] = x0 <=> o = op /\ j = i
  OBVIOUS
<1> HIDE DEF x0
<1>4. Waiting' = Waiting
  BY DEF Waiting, settleVars
<1>5. Accounted'
  BY <1>1, <1>2, <1>4 DEF Clean, Accounted, settleVars
<1>6. Frames' = Frames /\ Aimed(taken)' = Aimed(taken)
  BY DEF Frames, Aimed
<1>7. ASSUME NEW j \in TypeID
      PROVE  (\E o \in OnID : Had([op |-> o, on |-> j])') <=>
               (\E o \in OnID : Had([op |-> o, on |-> j])) \/ j = i
  <2>1. ASSUME NEW o \in OnID
        PROVE  Had([op |-> o, on |-> j])' <=> Had([op |-> o, on |-> j]) \/ (o = op /\ j = i)
    BY <1>1, <1>3, Zenon
  <2> QED
    BY <2>1, Zenon
<1>8. Taken({"swap"})' = Taken({"swap"})
  BY DocStays
<1>9. Registered'
  BY <1>6, <1>7, <1>8 DEF Clean, Registered
<1> QED
  BY <1>5, <1>9

LEMMA BuiltBooks ==
    ASSUME Clean, Built
    PROVE  Accounted' /\ Registered'
<1>1. /\ UNCHANGED <<doc, byPointer, todo, settleVars, queue, taken>>
      /\ stack # << >> /\ todo[Top] = {} /\ reg' = Put(reg, doc.id[Top], Top)
      /\ stack' = Leave
  BY DEF Built, tables, finishVars
<1>2. TypeOK /\ Inverted
  BY DEF Clean, IInv, Sane
<1>3. Top \in Frames /\ Top \in DOMAIN byPointer /\ Frames' = Frames \ {Top}
      /\ Frames \subseteq DOMAIN byPointer
  BY <1>1, <1>2, PopFrame DEF TypeOK, Top, Leave, Frames, Inverted
<1>4. DOMAIN reg' = DOMAIN reg \cup {doc.id[Top]}
  BY <1>1 DEF Put
<1>5. \A x : Had(x)' <=> Had(x)
  BY <1>1, <1>3 DEF Had
<1>6. Accounted'
  BY <1>1, <1>5, AccountStays DEF settleVars
<1>7. Aimed(taken)' = Aimed(taken) /\ Taken({"swap"})' = Taken({"swap"})
  BY <1>1, DocStays DEF Aimed
<1> DEFINE t == Top
<1> HIDE DEF t
<1>8. \A i : (\E p \in DOMAIN byPointer' \ Frames' : i = doc'.id[p]) <=>
             (\E p \in DOMAIN byPointer \ Frames : i = doc.id[p]) \/ i = doc.id[t]
  BY <1>1, <1>3 DEF t
<1>9. \A i : (\E o \in OnID : Had([op |-> o, on |-> i])') <=>
             (\E o \in OnID : Had([op |-> o, on |-> i]))
  BY <1>5, Zenon
<1>10. Registered'
  BY <1>4, <1>7, <1>8, <1>9 DEF Clean, Registered, t
<1> QED
  BY <1>6, <1>10

LEMMA SettleBooks ==
    ASSUME Clean, Settle
    PROVE  Accounted' /\ Registered'
<1>1. /\ queue' = completing \o pending /\ completing' = << >> /\ pending' = << >>
      /\ UNCHANGED <<doc, reg, byPointer, stack, todo, taken>>
  BY DEF Settle, tables, walkVars
<1>2. queue = << >>
  BY DEF Clean, Settle, BetweenBuilds, Where, Queues
<1>3. completing \in Seq(Settlement) /\ pending \in Seq(Settlement)
  BY DEF Clean, IInv, TypeOK
<1>4. ElementsOf(queue') = ElementsOf(completing) \cup ElementsOf(pending) /\ Once(queue')
  BY <1>1, <1>3, Join DEF Clean, Queues, Accounted
<1>5. Waiting' = Waiting
  BY <1>1, <1>2, <1>4, NoElements DEF Waiting
<1>6. \A x : Had(x)' <=> Had(x)
  BY <1>1, HadSame
<1>7. Accounted'
  BY <1>1, <1>4, <1>5, <1>6, NoElements DEF Clean, Accounted
<1>8. Registered'
  <2>1. Frames' = Frames
    BY <1>1 DEF Frames
  <2> QED
    BY <1>1, <1>6, <2>1, RegisteredStays
<1> QED
  BY <1>7, <1>8

LEMMA TakeSettlementBooks ==
    ASSUME Clean, TakeSettlement, refused' = {}
    PROVE  Accounted' /\ Registered'
<1> DEFINE h == Head(queue)
<1>1. /\ queue # << >> /\ queue' = Tail(queue) /\ taken' = Append(taken, h)
      /\ SettleNode(h.on)
      /\ UNCHANGED <<doc, byPointer, stack, todo, completing, pending>> /\ phase = "settle"
  BY DEF TakeSettlement, settleVars, walkVars
<1>2. queue \in Seq(Settlement) /\ taken \in Seq(Settlement) /\ settled
  BY <1>1 DEF Clean, IInv, TypeOK, Where
<1>3. /\ h \in Settlement /\ ElementsOf(queue) = {h} \cup ElementsOf(queue')
      /\ Once(queue') /\ h \notin ElementsOf(queue')
  BY <1>1, <1>2, TakeHead DEF Clean, Accounted
<1>4. ElementsOf(completing) = {} /\ ElementsOf(pending) = {}
  BY <1>2, NoElements DEF Clean, Queues
<1>5. Waiting = {h} \cup ElementsOf(queue') /\ Waiting' = ElementsOf(queue')
  BY <1>1, <1>3, <1>4 DEF Waiting
<1>6. ElementsOf(taken') = ElementsOf(taken) \cup {h} /\ Once(taken')
  BY <1>1, <1>2, <1>3, <1>5, PushFrame DEF Clean, Accounted
<1>7. \A x : Had(x)' <=> Had(x)
  BY <1>1, HadSame
<1>8. Accounted'
  BY <1>1, <1>3, <1>5, <1>6, <1>7 DEF Clean, Accounted
<1>9. h.on \in Pointer /\ doc.aim[h.on] \in TypeID
  BY <1>3, Fields DEF Settlement, Clean, IInv, TypeOK
<1>10. doc.deed[h.on] # "swap" =>
          DOMAIN reg' = DOMAIN reg \cup IF doc.deed[h.on] = "register" THEN {doc.aim[h.on]} ELSE {}
  <2>0. IsFiniteSet(DOMAIN reg)
    BY DEF Clean, IInv
  <2>1. CASE Mints(h.on)
    BY <2>1 DEF Mints, RegisterNode, Put
  <2>2. CASE WritesPast(h.on)
    BY <1>1, <1>9, <2>0, <2>2, SettlementCounts DEF WritesPast
  <2>3. CASE Removes(h.on)
    BY <1>1, <1>9, <2>0, <2>3, SettlementCounts DEF Removes
  <2>4. CASE AsksTooLate(h.on)
    BY <2>4 DEF AsksTooLate
  <2>5. CASE Rewrites(h.on)
    BY <2>5 DEF Rewrites
  <2> QED
    BY <1>1, <2>1, <2>2, <2>3, <2>4, <2>5 DEF SettleNode, Swaps
<1> HIDE DEF h
<1>11. \A i \in TypeID : i \in Aimed(taken)' <=>
          i \in Aimed(taken) \/ (doc.deed[h.on] = "register" /\ i = doc.aim[h.on])
  BY <1>1, <1>6 DEF Aimed
<1>12. Frames' = Frames
  BY <1>1 DEF Frames
<1>13. Taken({"swap"})' <=> Taken({"swap"}) \/ doc.deed[h.on] = "swap"
  BY <1>1, <1>2, <1>3, TakenMore
<1>14. Registered'
  BY <1>1, <1>7, <1>10, <1>11, <1>12, <1>13 DEF Clean, Registered
<1> QED
  BY <1>8, <1>14

-----------------------------------------------------------------------------
LEMMA BooksStep ==
    ASSUME IInv, Books, [Next]_vars
    PROVE  Books'
<1>1. Queues' /\ Where'
  BY QueuesHold, WhereHolds DEF Books
<1> SUFFICES ASSUME refused' = {} PROVE Accounted' /\ Registered'
  BY <1>1 DEF Books
<1>2. Clean
  BY RefusalsStay DEF Clean, Books
<1>3. ASSUME NEW p \in Pointer, InternHit(p) \/ Promise(p) \/ BlankCall(p)
      PROVE  Accounted' /\ Registered'
  BY <1>2, <1>3, AskBooks DEF InternHit, Promise, BlankCall, tables, finishVars, settleVars
<1>4. ASSUME NEW p \in Pointer, LowerRoot(p) \/ Fulfil(p), ~Owned(p)
      PROVE  Accounted' /\ Registered'
  <2>1. /\ Enter(p) /\ UNCHANGED <<doc, reg, settleVars, queue, taken>>
        /\ todo' = [todo EXCEPT ![p] = doc.work[p]]
    BY <1>4 DEF LowerRoot, Fulfil, finishVars
  <2>2. todo'[p] = doc.work[p] /\ \A q \in Pointer \ {p} : todo'[q] = todo[q]
    BY <1>2, <2>1 DEF Clean, IInv, TypeOK
  <2> QED
    BY <1>2, <1>4, <2>1, <2>2, EnterBooks
<1>5. ASSUME NEW p \in Pointer, LowerRoot(p) \/ Fulfil(p), Owned(p)
      PROVE  Accounted' /\ Registered'
  BY <1>2, <1>5, OtherBooks DEF LowerRoot, Fulfil, tables, finishVars, settleVars
<1>6. ASSUME NEW p \in Pointer, Fulfilled(p)
      PROVE  Accounted' /\ Registered'
  BY <1>2, <1>6, OtherBooks DEF Fulfilled, tables, settleVars, walkVars
<1>7. ASSUME NEW p \in Pointer, Intern(p) \/ Complete(p) \/ Defer(p)
      PROVE  Accounted' /\ Registered'
  BY <1>2, <1>7, InternBooks, CompleteBooks, DeferBooks
<1>8. ASSUME NEW i \in TypeID, Register(i)
      PROVE  Accounted' /\ Registered'
  <2>1. DOMAIN reg' = DOMAIN reg \cup {i}
    BY <1>8 DEF Register, RegisterNode, Put
  <2> QED
    BY <1>2, <1>8, <2>1, MintBooks DEF Register, OnID, finishVars
<1>9. ASSUME NEW i \in TypeID, PrimRef(i)
      PROVE  Accounted' /\ Registered'
  <2>1. DOMAIN reg' = DOMAIN reg \cup {i}
    BY <1>9 DEF PrimRef, Put
  <2> QED
    BY <1>2, <1>9, <2>1, MintBooks DEF PrimRef, OnID, finishVars, tables
<1>10. CASE BuiltNil
  BY <1>10 DEF BuiltNil
<1>11. ASSUME Stopped \/ Finish \/ TakeRound \/ Report \/ Cancel \/ UNCHANGED vars
      PROVE  Accounted' /\ Registered'
  BY <1>2, <1>11, OtherBooks
     DEF Stopped, Finish, TakeRound, Report, Cancel, vars, tables, finishVars, settleVars, walkVars
<1>12. ASSUME Built \/ Settle \/ TakeSettlement
      PROVE  Accounted' /\ Registered'
  BY <1>2, <1>12, BuiltBooks, SettleBooks, TakeSettlementBooks
<1> QED
  BY <1>3, <1>4, <1>5, <1>6, <1>7, <1>8, <1>9, <1>10, <1>11, <1>12 DEF Next, Step

LEMMA BooksHold == Spec => [](IInv /\ Books)
<1>1. Init => Books
  <2> SUFFICES ASSUME Init PROVE Books
    OBVIOUS
  <2>1. \A x : ~Had(x)
    BY DEF Init, Had
  <2>2. Waiting = {} /\ ElementsOf(taken) = {} /\ Aimed(taken) = {}
    BY NoElements DEF Init, Waiting, Aimed
  <2>3. Queues /\ Where
    BY NoElements DEF Init, Queues, Where
  <2>4. Accounted
    BY <2>1, <2>2, NoElements DEF Init, Accounted
  <2>5. Registered
    <3>1. DOMAIN reg = {} /\ DOMAIN byPointer = {}
      BY DEF Init
    <3>2. \A op \in OnID : \A i \in TypeID : ~Had([op |-> op, on |-> i])
      BY <2>1, Zenon
    <3> QED
      BY <2>2, <3>1, <3>2, Zenon DEF Registered
  <2> QED
    BY <2>3, <2>4, <2>5 DEF Books
<1>2. IInv /\ Books /\ [Next]_vars => Books'
  BY BooksStep
<1> QED
  BY <1>1, <1>2, Invariance, PTL DEF Spec

(* What a document handed over is like: nothing is left to build.          *)
LEMMA HandedOver ==
    ASSUME IInv, Books, outcome = "document"
    PROVE  /\ Accounted /\ Registered /\ Frames = {} /\ DOMAIN byPointer = Reach
           /\ ElementsOf(completing) = {} /\ ElementsOf(pending) = {} /\ ElementsOf(queue) = {}
<1>1. refused = {} /\ ~cancelled /\ phase = "end" /\ queue = << >> /\ settled
  BY DEF Books, Where
<1>2. Inverted /\ Lowered /\ Within /\ Kept
  BY <1>1 DEF IInv, Sane
<1>3. stack = << >> /\ promises = {} /\ round = {} /\ roots = {}
  BY <1>1 DEF IInv, Phases
<1>4. Frames = {}
  BY <1>3 DEF Frames, ElementsOf
<1>5. promised \subseteq DOMAIN byPointer /\ doc.roots \subseteq DOMAIN byPointer
  BY <1>1, <1>2, <1>3 DEF Kept
<1>6. DOMAIN byPointer \in SUBSET Pointer
  BY DEF IInv, TypeOK, PartialMap
<1>7. Closed(DOMAIN byPointer)
  BY <1>2, <1>4, <1>5 DEF Closed, Below, Lowered, Answered
<1>8. DOMAIN byPointer = Reach
  BY <1>2, <1>6, <1>7 DEF Reach, Within
<1> QED
  BY <1>1, <1>4, <1>8, NoElements DEF Books, Queues

(* A compile that hands over a document has taken every settlement its     *)
(* lowerings queued, each once and completing ones first (settle.go), for  *)
(* every document and whatever the order of its declarations.              *)
THEOREM SettlementsAreTaken == Spec => []SettledInOrder
<1>1. ASSUME IInv, Books PROVE SettledInOrder
  <2> SUFFICES ASSUME outcome = "document"
               PROVE  /\ ElementsOf(taken) = Wanted
                      /\ Len(taken) = Cardinality(Wanted)
                      /\ \A n \in DOMAIN taken : taken[n].op = "complete" =>
                            \A m \in 1..n : taken[m].op = "complete"
    BY DEF SettledInOrder, ElementsOf
  <2>1. /\ Accounted /\ Frames = {} /\ DOMAIN byPointer = Reach /\ Waiting = {}
    BY <1>1, HandedOver DEF Waiting
  <2>2. \A x : Had(x) <=> \E p \in Reach : x \in doc.work[p]
    BY <2>1 DEF Had
  <2>3. taken \in Seq(Settlement) /\ TypeOK
    BY <1>1 DEF IInv, TypeOK
  <2>4. ElementsOf(taken) \subseteq Settlement
    BY <2>3 DEF ElementsOf
  <2>5. Wanted \subseteq Settlement
    <3> SUFFICES ASSUME NEW p \in Reach, NEW x \in doc.work[p], x.op \in {"complete", "defer"}
                 PROVE  x \in Settlement
      BY DEF Wanted
    <3>1. x \in Item
      BY <2>3, Fields DEF TypeOK, Reach
    <3> QED
      BY <3>1 DEF Item, OnPointer, OnID, Settlement
  <2>6. \A x \in Settlement : x \in Wanted <=> Had(x)
    <3>1. \A x \in Settlement : x.op \in {"complete", "defer"}
      BY DEF Settlement
    <3> QED
      BY <2>2, <3>1 DEF Wanted
  <2>7. ElementsOf(taken) = Wanted
    BY <2>1, <2>4, <2>5, <2>6 DEF Accounted
  <2>8. Len(taken) = Cardinality(Wanted)
    BY <2>1, <2>3, <2>7, OnceCounts DEF Accounted
  <2> QED
    BY <1>1, <2>7, <2>8 DEF Books, Queues, InOrder
<1> QED
  BY <1>1, BooksHold, PTL

(* The IDs of a document handed over are those of what it leads to and of  *)
(* what that mints (types.go), for every document and whatever the order,  *)
(* unless a settlement swapped one ID for another (settle.go).             *)
THEOREM OrderDoesNotTell == Spec => []SameWhateverTheOrder
<1>1. ASSUME IInv, Books PROVE SameWhateverTheOrder
  <2> SUFFICES ASSUME outcome = "document", ~Taken({"swap"}) PROVE DOMAIN reg = Expected
    BY DEF SameWhateverTheOrder
  <2>1. Registered /\ Frames = {} /\ DOMAIN byPointer = Reach
    BY <1>1, HandedOver
  <2>2. \A x : Had(x) <=> \E p \in Reach : x \in doc.work[p]
    BY <2>1 DEF Had
  <2>3. TypeOK /\ Reach \subseteq Pointer
    BY <1>1 DEF IInv, Reach
  <2>4. DOMAIN reg \subseteq TypeID
    BY <2>3 DEF TypeOK, PartialMap
  <2> DEFINE Minting == {x.on : x \in UNION {{y \in doc.work[p] : y.op \in OnID} : p \in Reach}}
             Late == {doc.aim[x.on] : x \in {taken[n] : n \in {m \in DOMAIN taken :
                                        doc.deed[taken[m].on] = "register"}}}
  <2>5. \A i : i \in Minting <=> \E op \in OnID : Had([op |-> op, on |-> i])
    <3>1. ASSUME NEW i, NEW op \in OnID, Had([op |-> op, on |-> i])
          PROVE  i \in Minting
      <4>1. PICK p \in Reach : [op |-> op, on |-> i] \in doc.work[p]
        BY <2>2, <3>1
      <4>2. [op |-> op, on |-> i].op \in OnID /\ [op |-> op, on |-> i].on = i
        OBVIOUS
      <4> QED
        BY <4>1, <4>2
    <3>2. ASSUME NEW i \in Minting
          PROVE  \E op \in OnID : Had([op |-> op, on |-> i])
      <4>0. PICK p \in Reach : \E x \in doc.work[p] : x.op \in OnID /\ x.on = i
        OBVIOUS
      <4>1. PICK x \in doc.work[p] : x.op \in OnID /\ x.on = i
        BY <4>0
      <4>2. x \in Item
        BY <2>3, Fields DEF TypeOK
      <4>3. x = [op |-> x.op, on |-> x.on]
        BY <4>2 DEF Item
      <4> QED
        BY <2>2, <4>1, <4>3
    <3> QED
      BY <3>1, <3>2
  <2>6. Minting \subseteq TypeID
    <3> SUFFICES ASSUME NEW p \in Reach, NEW x \in doc.work[p], x.op \in OnID
                 PROVE  x.on \in TypeID
      OBVIOUS
    <3>1. x \in Item
      BY <2>3, Fields DEF TypeOK
    <3> QED
      BY <3>1 DEF Item, OnPointer, OnID
  <2>7. taken \in Seq(Settlement)
    BY <2>3 DEF TypeOK
  <2>8. Late \subseteq TypeID
    <3> SUFFICES ASSUME NEW n \in DOMAIN taken PROVE doc.aim[taken[n].on] \in TypeID
      OBVIOUS
    <3>1. taken[n] \in Settlement
      BY <2>7
    <3> QED
      BY <2>3, <3>1, Fields DEF Settlement, TypeOK
  <2>9. Late = Aimed(taken)
    BY <2>8 DEF Aimed, ElementsOf
  <2>10. {doc.id[p] : p \in Reach} \subseteq TypeID
    BY <2>3, Fields DEF TypeOK
  <2>11. Expected = {doc.id[p] : p \in Reach} \cup Minting \cup Late
    BY DEF Expected
  <2> HIDE DEF Minting, Late
  <2>12. \A i \in TypeID : i \in DOMAIN reg <=> i \in {doc.id[p] : p \in Reach} \cup Minting \cup Late
    BY <2>1, <2>5, <2>9 DEF Registered
  <2> QED
    BY <2>4, <2>6, <2>8, <2>10, <2>11, <2>12
<1> QED
  BY <1>1, BooksHold, PTL
=============================================================================
