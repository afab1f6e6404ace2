---------------------------- MODULE TypeRegistry ----------------------------
(***************************************************************************)
(* compilers/compile: the type registry of one compile (types.go), the     *)
(* nodes references promise (promise.go) and the settlements deferred      *)
(* until the registry is whole (settle.go), driven as openapi.go's run     *)
(* drives them: lower every declaration, Finish, assemble.                 *)
(*                                                                         *)
(* What is compiled is a document drawn from Documents.  It says what the  *)
(* lowering of each coordinate does: which coordinates it interns below    *)
(* it, which it only promises, what it mints, what it queues.  The order   *)
(* is left open, as the source's declaration order is.  A document also    *)
(* stands for the compiler's own derivations, the bugs the registry is     *)
(* there to refuse included: two coordinates of one ID, a build that       *)
(* returns nil, a settlement that writes past Register; and the one it     *)
(* does not refuse, a settlement that swaps one node for another.          *)
(***************************************************************************)
EXTENDS Integers, Sequences, FiniteSets

CONSTANTS
    Pointer,    \* source coordinates
    TypeID,     \* type IDs
    Space,      \* namespaces of type IDs
    SpaceOf,    \* the namespace of each ID
    NoSpace,    \* that of an ID with no space segment
    Documents,  \* what may be compiled
    Minted,     \* a minted node, where every lowering mints it alike
    Prim        \* a primitive leaf

(* One thing a lowering asks of the registry: "intern" the coordinate on,  *)
(* "promise" it, "register" or "prim" the ID on, queue the settlement of   *)
(* the coordinate on to "complete" or "defer", or make a "blank" call, one *)
(* that passes an empty coordinate, ID, build, node or settlement.         *)
OnPointer == {"intern", "promise", "complete", "defer", "blank"}
OnID == {"register", "prim"}
Item == [op: OnPointer, on: Pointer] \cup [op: OnID, on: TypeID]

(* What a settlement does beside rewriting nodes: nothing, mint a node     *)
(* through Register, write one past it, remove one, swap one for another,  *)
(* or ask for what it is too late to ask for.                              *)
Deed == {"rewrite", "register", "write", "remove", "swap", "promise", "defer"}

Document ==
    [roots: SUBSET Pointer,             \* the declarations lowered
     id: [Pointer -> TypeID],           \* the ID each coordinate derives
     work: [Pointer -> SUBSET Item],    \* what the lowering of each one does
     nil: SUBSET Pointer,               \* where build returns nil
     alike: BOOLEAN,                    \* do all mint an ID's node alike?
     deed: [Pointer -> Deed],           \* what each one's settlement does
     aim: [Pointer -> TypeID],          \* the ID it does it to
     into: [Pointer -> TypeID]]         \* the ID a swap brings in

Node == Pointer \cup {Minted, Prim}

ASSUME SpaceAssumption ==
    SpaceOf \in [TypeID -> Space \cup {NoSpace}] /\ NoSpace \notin Space
ASSUME DocumentsAssumption == Documents \subseteq Document
(* A settlement is queued by one lowering, whose closure it is.            *)
ASSUME SettlementAssumption ==
    \A d \in Documents : \A p, q \in Pointer : \A x \in d.work[p] \cap d.work[q] :
        x.op \in {"complete", "defer"} => p = q
ASSUME NodeAssumption ==
    Minted \notin Pointer /\ Prim \notin Pointer /\ Minted # Prim

VARIABLES
    doc,        \* the document compiled
    reg,        \* the nodes, by ID
    byPointer,  \* the ID interned at each coordinate
    byID,       \* byPointer read backwards
    spaces,     \* is each namespace met so far minted?
    promised,   \* every coordinate promised
    promises,   \* those not yet taken
    refused,    \* why entries were refused
    completing, pending,    \* the settlements queued
    fulfilled, settled,     \* has Finish built the promises; taken settlements?
    phase,      \* where the compile is
    roots,      \* the declarations still to lower
    stack,      \* the coordinates Intern is building, innermost last
    todo,       \* what each one's build has still to do
    round,      \* the promises fulfil has taken and not gone through
    reached,    \* the promise fulfil is building, if any
    queue,      \* the settlements settle has still to take
    taken,      \* history: the settlements taken
    cancelled,  \* has ctx ended?
    outcome     \* what the compile came to

tables == <<byPointer, byID, spaces>>
promiseVars == <<promised, promises>>
settleVars == <<completing, pending>>
finishVars == <<fulfilled, settled, phase, round, reached, queue, taken, outcome>>
walkVars == <<roots, stack, todo>>
vars == <<doc, reg, tables, promiseVars, refused, settleVars, finishVars,
          walkVars, cancelled>>

Phase == {"lower", "fulfil", "settle", "end"}
Reason == {"space", "id", "nil", "held", "blank", "promise", "size", "late"}
Outcome == {"none", "document", "refused", "cancelled"}
PartialMap(f, S, T) == DOMAIN f \subseteq S /\ f \in [DOMAIN f -> T]
Settlement == [op: {"complete", "defer"}, on: Pointer]

TypeOK ==
    /\ doc \in Document
    /\ PartialMap(reg, TypeID, Node)
    /\ PartialMap(byPointer, Pointer, TypeID)
    /\ PartialMap(byID, TypeID, Pointer)
    /\ PartialMap(spaces, Space, BOOLEAN)
    /\ promised \subseteq Pointer
    /\ promises \subseteq promised
    /\ refused \subseteq Reason
    /\ completing \in Seq(Settlement) /\ pending \in Seq(Settlement)
    /\ fulfilled \in BOOLEAN /\ settled \in BOOLEAN
    /\ phase \in Phase
    /\ roots \subseteq Pointer
    /\ stack \in Seq(Pointer)
    /\ todo \in [Pointer -> SUBSET Item]
    /\ round \subseteq promised
    /\ reached \subseteq promised
    /\ queue \in Seq(Settlement)
    /\ taken \in Seq(Settlement)
    /\ cancelled \in BOOLEAN
    /\ outcome \in Outcome

Init ==
    /\ doc \in Documents
    /\ reg = << >> /\ byPointer = << >> /\ byID = << >> /\ spaces = << >>
    /\ promised = {} /\ promises = {}
    /\ refused = {}
    /\ completing = << >> /\ pending = << >>
    /\ fulfilled = FALSE /\ settled = FALSE
    /\ phase = "lower"
    /\ roots = doc.roots
    /\ stack = << >>
    /\ todo = [p \in Pointer |-> {}]
    /\ round = {} /\ reached = {}
    /\ queue = << >> /\ taken = << >>
    /\ cancelled = FALSE
    /\ outcome = "none"

-----------------------------------------------------------------------------
(* Maps, and the two claims an ID makes.                                   *)

Put(f, k, v) == [x \in DOMAIN f \cup {k} |-> IF x = k THEN v ELSE f[x]]
Delete(f, k) == [x \in DOMAIN f \ {k} |-> f[x]]

(* The reason, where it applies.                                           *)
Why(reason, applies) == IF applies THEN {reason} ELSE {}

SpaceClash(i, minted) ==
    SpaceOf[i] \in DOMAIN spaces /\ spaces[SpaceOf[i]] # minted

claimSpace(i, minted) ==
    IF SpaceOf[i] = NoSpace \/ SpaceClash(i, minted)
      THEN spaces ELSE Put(spaces, SpaceOf[i], minted)

(* Mutant: claimID overwrites the owner it finds.                          *)
IDClashMissed(i, p) == FALSE

IDClash(i, p) == i \in DOMAIN byID /\ byID[i] # p

claimID(i, p) == IF IDClash(i, p) THEN byID ELSE Put(byID, i, p)

-----------------------------------------------------------------------------
(* Intern.  The ID is recorded before build runs; build is a frame of the  *)
(* stack until it has done all its work and returns.                       *)

Owned(p) == p \in DOMAIN byPointer

Enter(p) ==
    /\ spaces' = claimSpace(doc.id[p], FALSE)
    /\ byID' = claimID(doc.id[p], p)
    /\ byPointer' = Put(byPointer, p, doc.id[p])
    /\ refused' = refused \cup Why("space", SpaceClash(doc.id[p], FALSE))
                         \cup Why("id", IDClash(doc.id[p], p))
    /\ stack' = Append(stack, p)

Top == stack[Len(stack)]

(* The innermost build asks for the item of op and on, and has asked.      *)
Asks(op, on) ==
    stack # << >> /\ [op |-> op, on |-> on] \in todo[Top]

Asked(op, on) == [todo EXCEPT ![Top] = @ \ {[op |-> op, on |-> on]}]

(* A visit of a coordinate that is interned, one still building included,  *)
(* returns its ID and builds nothing.                                      *)
InternHit(c) ==
    /\ Asks("intern", c)
    /\ Owned(c)
    /\ todo' = Asked("intern", c)
    /\ UNCHANGED <<doc, reg, tables, promiseVars, refused, settleVars,
                   finishVars, roots, stack, cancelled>>

Intern(c) ==
    /\ Asks("intern", c)
    /\ ~Owned(c)
    /\ Enter(c)
    /\ todo' = [Asked("intern", c) EXCEPT ![c] = doc.work[c]]
    /\ UNCHANGED <<doc, reg, promiseVars, settleVars, finishVars, roots, cancelled>>

(* The next declaration: lowered between two looks at ctx.                 *)
LowerRoot(p) ==
    /\ phase = "lower" /\ stack = << >> /\ p \in roots
    /\ ~cancelled
    /\ roots' = roots \ {p}
    /\ IF Owned(p)
         THEN UNCHANGED <<tables, refused, stack, todo>>
         ELSE Enter(p) /\ todo' = [todo EXCEPT ![p] = doc.work[p]]
    /\ UNCHANGED <<doc, reg, promiseVars, settleVars, finishVars, cancelled>>

Leave == SubSeq(stack, 1, Len(stack) - 1)

Built ==
    /\ stack # << >> /\ todo[Top] = {} /\ Top \notin doc.nil
    /\ reg' = Put(reg, doc.id[Top], Top)
    /\ stack' = Leave
    /\ UNCHANGED <<doc, tables, promiseVars, refused, settleVars, finishVars,
                   roots, todo, cancelled>>

(* A nil node: the coordinate and the ID are given up, and the refusal     *)
(* says so.                                                                *)
BuiltNil ==
    /\ stack # << >> /\ todo[Top] = {} /\ Top \in doc.nil
    /\ byPointer' = Delete(byPointer, Top)
    /\ byID' = Delete(byID, doc.id[Top])
    /\ refused' = refused \cup {"nil"}
    /\ stack' = Leave
    /\ UNCHANGED <<doc, reg, spaces, promiseVars, settleVars, finishVars,
                   roots, todo, cancelled>>

-----------------------------------------------------------------------------
(* What a build asks for beside Intern.                                    *)

(* The node minted for an ID by the lowering of p.                         *)
MintedBy(p) == IF doc.alike THEN Minted ELSE p

RegisterNode(i, node) ==
    /\ spaces' = claimSpace(i, TRUE)
    /\ refused' = refused \cup Why("space", SpaceClash(i, TRUE))
                         \cup Why("held", i \in DOMAIN reg /\ reg[i] # node)
    /\ reg' = IF i \in DOMAIN reg THEN reg ELSE Put(reg, i, node)

Register(i) ==
    /\ Asks("register", i)
    /\ RegisterNode(i, MintedBy(Top))
    /\ todo' = Asked("register", i)
    /\ UNCHANGED <<doc, byPointer, byID, promiseVars, settleVars, finishVars,
                   roots, stack, cancelled>>

PrimRef(i) ==
    /\ Asks("prim", i)
    /\ reg' = IF i \in DOMAIN reg THEN reg ELSE Put(reg, i, Prim)
    /\ todo' = Asked("prim", i)
    /\ UNCHANGED <<doc, tables, promiseVars, refused, settleVars, finishVars,
                   roots, stack, cancelled>>

(* A coordinate is queued the first time it is promised, whether or not a  *)
(* node is there.                                                          *)
Queued(q) == IF q \in promised THEN promises ELSE promises \cup {q}

(* Mutant: the coordinate is queued and not marked as promised.            *)
PromiseUnmarked(q) ==
    /\ Asks("promise", q)
    /\ ~fulfilled
    /\ promises' = Queued(q)
    /\ todo' = Asked("promise", q)
    /\ UNCHANGED <<doc, reg, tables, promised, refused, settleVars, finishVars,
                   roots, stack, cancelled>>

Promise(q) ==
    /\ Asks("promise", q)
    /\ ~fulfilled
    /\ promises' = Queued(q)
    /\ promised' = promised \cup {q}
    /\ todo' = Asked("promise", q)
    /\ UNCHANGED <<doc, reg, tables, refused, settleVars, finishVars, roots,
                   stack, cancelled>>

Complete(p) ==
    /\ Asks("complete", p)
    /\ ~settled
    /\ completing' = Append(completing, [op |-> "complete", on |-> p])
    /\ todo' = Asked("complete", p)
    /\ UNCHANGED <<doc, reg, tables, promiseVars, refused, pending, finishVars,
                   roots, stack, cancelled>>

Defer(p) ==
    /\ Asks("defer", p)
    /\ ~settled
    /\ pending' = Append(pending, [op |-> "defer", on |-> p])
    /\ todo' = Asked("defer", p)
    /\ UNCHANGED <<doc, reg, tables, promiseVars, refused, completing,
                   finishVars, roots, stack, cancelled>>

BlankCall(p) ==
    /\ Asks("blank", p)
    /\ refused' = refused \cup {"blank"}
    /\ todo' = Asked("blank", p)
    /\ UNCHANGED <<doc, reg, tables, promiseVars, settleVars, finishVars, roots,
                   stack, cancelled>>

-----------------------------------------------------------------------------
(* Finish: fulfil, settle, report.                                         *)

(* Lowering stops between declarations once ctx has ended.  run looks at   *)
(* ctx after the components and after Finish, not before it.               *)
Stopped ==
    /\ phase = "lower" /\ stack = << >> /\ cancelled
    /\ phase' = "end" /\ outcome' = "cancelled"
    /\ UNCHANGED <<doc, reg, tables, promiseVars, refused, settleVars,
                   fulfilled, settled, round, reached, queue, taken, walkVars,
                   cancelled>>

Finish ==
    /\ phase = "lower" /\ stack = << >>
    /\ roots # {} => cancelled
    /\ phase' = "fulfil"
    /\ UNCHANGED <<doc, reg, tables, promiseVars, refused, settleVars,
                   fulfilled, settled, round, reached, queue, taken, outcome,
                   walkVars, cancelled>>

(* Between two builds of fulfil.                                           *)
BetweenBuilds == phase = "fulfil" /\ stack = << >> /\ reached = {}

TakeRound ==
    /\ BetweenBuilds /\ round = {} /\ promises # {}
    /\ round' = promises
    /\ promises' = {}
    /\ UNCHANGED <<doc, reg, tables, promised, refused, settleVars, fulfilled,
                   settled, phase, reached, queue, taken, outcome, walkVars,
                   cancelled>>

Fulfil(q) ==
    /\ BetweenBuilds /\ q \in round /\ ~cancelled
    /\ round' = round \ {q}
    /\ IF Owned(q)
         THEN UNCHANGED <<tables, refused, stack, todo, reached>>
         ELSE /\ Enter(q)
              /\ todo' = [todo EXCEPT ![q] = doc.work[q]]
              /\ reached' = {q}
    /\ UNCHANGED <<doc, reg, promiseVars, settleVars, fulfilled, settled, phase,
                   queue, taken, outcome, roots, cancelled>>

(* Once the build of a promise has returned: has it left a node there?     *)
Fulfilled(q) ==
    /\ phase = "fulfil" /\ stack = << >> /\ q \in reached
    /\ refused' = refused \cup Why("promise", ~Owned(q))
    /\ reached' = {}
    /\ UNCHANGED <<doc, reg, tables, promiseVars, settleVars, fulfilled,
                   settled, phase, round, queue, taken, outcome, walkVars,
                   cancelled>>

(* Mutant: settle does not wait for the promises builds have added.        *)
RoundsOverAtOnce == round = {}

(* fulfil ends when every round is built, or at the first build it does    *)
(* not begin because ctx has ended; settle takes over both queues.         *)
RoundsOver ==
    \/ promises = {} /\ round = {}
    \/ cancelled /\ round # {}

(* Mutant: the deferred settlements come first.                            *)
SettleDeferredFirst ==
    /\ BetweenBuilds /\ RoundsOver
    /\ fulfilled' = TRUE /\ settled' = TRUE
    /\ queue' = pending \o completing
    /\ completing' = << >> /\ pending' = << >>
    /\ phase' = "settle"
    /\ UNCHANGED <<doc, reg, tables, promiseVars, refused, round, reached,
                   taken, outcome, walkVars, cancelled>>

Settle ==
    /\ BetweenBuilds /\ RoundsOver
    /\ fulfilled' = TRUE /\ settled' = TRUE
    /\ queue' = completing \o pending
    /\ completing' = << >> /\ pending' = << >>
    /\ phase' = "settle"
    /\ UNCHANGED <<doc, reg, tables, promiseVars, refused, round, reached,
                   taken, outcome, walkVars, cancelled>>

(* What the settlement of p does to the registry, a map it is handed and   *)
(* may write.  One that leaves it a size its Register calls do not account *)
(* for is refused and left standing; so is what the settlement has put     *)
(* there when the size is the same.                                        *)
Mints(p) == doc.deed[p] = "register" /\ RegisterNode(doc.aim[p], MintedBy(p))

Resized == Cardinality(DOMAIN reg') # Cardinality(DOMAIN reg)

(* Mutant: the registry's size is not compared.                            *)
WritesPastUnseen(p) ==
    /\ doc.deed[p] = "write"
    /\ reg' = Put(reg, doc.aim[p], Minted)
    /\ UNCHANGED <<refused, spaces>>

WritesPast(p) ==
    /\ doc.deed[p] = "write"
    /\ reg' = Put(reg, doc.aim[p], Minted)
    /\ refused' = refused \cup Why("size", Resized)
    /\ UNCHANGED spaces

Removes(p) ==
    /\ doc.deed[p] = "remove"
    /\ reg' = Delete(reg, doc.aim[p])
    /\ refused' = refused \cup Why("size", Resized)
    /\ UNCHANGED spaces

Swaps(p) ==
    /\ doc.deed[p] = "swap"
    /\ reg' = Put(Delete(reg, doc.aim[p]), doc.into[p], Minted)
    /\ refused' = refused \cup Why("size", Resized)
    /\ UNCHANGED spaces

AsksTooLate(p) ==
    /\ doc.deed[p] \in {"promise", "defer"}
    /\ refused' = refused \cup {"late"}
    /\ UNCHANGED <<reg, spaces>>

Rewrites(p) == doc.deed[p] = "rewrite" /\ UNCHANGED <<reg, refused, spaces>>

SettleNode(p) ==
    Mints(p) \/ WritesPast(p) \/ Removes(p) \/ Swaps(p) \/ AsksTooLate(p) \/ Rewrites(p)

TakeSettlement ==
    /\ phase = "settle" /\ queue # << >> /\ ~cancelled
    /\ SettleNode(Head(queue).on)
    /\ queue' = Tail(queue)
    /\ taken' = Append(taken, Head(queue))
    /\ UNCHANGED <<doc, byPointer, byID, promiseVars, settleVars, fulfilled,
                   settled, phase, round, reached, outcome, walkVars, cancelled>>

(* The refusals ride in the diagnostics, so a compile that refused an      *)
(* entry says so; a cancelled one hands over nothing.                      *)
Report ==
    /\ phase = "settle" /\ (queue = << >> \/ cancelled)
    /\ phase' = "end"
    /\ outcome' = IF cancelled THEN "cancelled"
                  ELSE IF refused # {} THEN "refused" ELSE "document"
    /\ UNCHANGED <<doc, reg, tables, promiseVars, refused, settleVars,
                   fulfilled, settled, round, reached, queue, taken, walkVars,
                   cancelled>>

-----------------------------------------------------------------------------
Cancel ==
    /\ ~cancelled /\ phase # "end"
    /\ cancelled' = TRUE
    /\ UNCHANGED <<doc, reg, tables, promiseVars, refused, settleVars,
                   finishVars, walkVars>>

Step ==
    \/ \E p \in Pointer :
         \/ LowerRoot(p) \/ InternHit(p) \/ Intern(p)
         \/ Promise(p) \/ Complete(p) \/ Defer(p) \/ BlankCall(p)
         \/ Fulfil(p) \/ Fulfilled(p)
    \/ \E i \in TypeID : Register(i) \/ PrimRef(i)
    \/ Built \/ BuiltNil
    \/ Stopped \/ Finish \/ TakeRound \/ Settle \/ TakeSettlement \/ Report

Next == Step \/ Cancel

Spec == Init /\ [][Next]_vars

(* One goroutine runs a compile and waits for nothing.                     *)
FairSpec == Spec /\ WF_vars(Step)

-----------------------------------------------------------------------------
(* Properties.                                                             *)

(* The coordinates a document's declarations lead to, whatever the order:  *)
(* the least set that holds the roots and, with a coordinate, all that its *)
(* lowering interns or promises.                                           *)
Below(p) == {x.on : x \in {y \in doc.work[p] : y.op \in {"intern", "promise"}}}
Closed(S) == doc.roots \subseteq S /\ \A p \in S : Below(p) \subseteq S
Reach == {p \in Pointer : \A S \in SUBSET Pointer : Closed(S) => p \in S}

(* What the registry leaves to other checks: an ID with no space segment,  *)
(* a node landing on a primitive's ID, and a settlement that replaces a    *)
(* node, at its ID or with one at another ID.                              *)
Uses(op) == {i \in TypeID : \E p \in Pointer : [op |-> op, on |-> i] \in doc.work[p]}
Aims(deed) == {doc.aim[p] : p \in {q \in Pointer : doc.deed[q] = deed}}
Addressed == {doc.id[p] : p \in Pointer} \cup Uses("register") \cup Aims("register")
Grammatical ==
    \A i \in Addressed : SpaceOf[i] # NoSpace /\ i \notin Uses("prim")

Taken(deeds) == \E n \in DOMAIN taken : doc.deed[taken[n].on] \in deeds

Unblemished == refused = {} /\ Grammatical /\ ~Taken({"write", "swap"})

(* A settlement reads, and Finish hands over, a registry with the node of  *)
(* every coordinate the document leads to, each under its own ID, whatever *)
(* the declarations' order, and no coordinate beside: no reference in it   *)
(* dangles and no node has been overwritten by another coordinate's,       *)
(* unless a refusal says so, ctx has ended, or a settlement has replaced a *)
(* node, which settle's count does not see.                                *)
WholeRegistry ==
    (phase \in {"settle", "end"} /\ ~cancelled /\ Unblemished) =>
        /\ DOMAIN byPointer = Reach
        /\ \A p \in Reach : doc.id[p] \in DOMAIN reg /\ reg[doc.id[p]] = p

(* The IDs of a document handed over are those of what it leads to and of  *)
(* what that mints: they do not depend on the order of declarations, on    *)
(* which reference was met first or on which lowering built a node.  Only  *)
(* a settlement that swaps one ID for another makes them differ.           *)
Expected ==
    {doc.id[p] : p \in Reach}
    \cup {x.on : x \in UNION {{y \in doc.work[p] : y.op \in OnID} : p \in Reach}}
    \cup {doc.aim[x.on] : x \in {taken[n] : n \in {m \in DOMAIN taken :
                                    doc.deed[taken[m].on] = "register"}}}

SameWhateverTheOrder ==
    (outcome = "document" /\ ~Taken({"swap"})) => DOMAIN reg = Expected

(* A compile that hands over a document has taken every settlement its     *)
(* lowerings queued, the ones queued while promises were built included,   *)
(* each once and every completing one before any deferred one.             *)
Wanted ==
    UNION {{x \in doc.work[p] : x.op \in {"complete", "defer"}} : p \in Reach}

SettledInOrder ==
    outcome = "document" =>
        /\ {taken[n] : n \in DOMAIN taken} = Wanted
        /\ Len(taken) = Cardinality(Wanted)
        /\ \A n \in DOMAIN taken : taken[n].op = "complete" =>
              \A m \in 1..n : taken[m].op = "complete"

(* No step of a lowering overwrites or removes a node the registry holds   *)
(* without a refusal: not a second coordinate of its ID, not a minted one. *)
(* Nor does a settlement, but for the swap settle's count cannot see and   *)
(* leaves to pass.Validate and irverify: one node given up, one put there  *)
(* or at an ID that held none, every other node left as it is.             *)
Lost(i) == ~(i \in DOMAIN reg' /\ reg'[i] = reg[i])
OneForOne ==
    \E i \in DOMAIN reg, j \in DOMAIN reg' :
        /\ j = i \/ j \notin DOMAIN reg
        /\ DOMAIN reg' = (DOMAIN reg \ {i}) \cup {j}
        /\ \A k \in DOMAIN reg \ {i} : reg'[k] = reg[k]
Swapped == phase = "settle" /\ doc.deed[Head(queue).on] \in {"write", "swap"} /\ OneForOne

NeverOverwritten ==
    [][(\E i \in DOMAIN reg : Lost(i)) => refused' # {} \/ ~Grammatical \/ Swapped]_vars

(* Every compile ends, one of a recursive document and one whose builds    *)
(* fail included: a coordinate is queued once, which bounds the rounds.    *)
CompileEnds == <>(phase = "end")
=============================================================================
