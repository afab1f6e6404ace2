-------------------------- MODULE CachedRunProofs --------------------------
(***************************************************************************)
(* Proofs about CachedRun, for any runs, keys, documents and references.   *)
(***************************************************************************)
EXTENDS CachedRun, TLAPS

(* What holds of a run by where it is.                                     *)
InFlight(r) ==
    pc[r] # "idle" => key[r] \in Key /\ out[r] = None /\ Now \subseteq seen[r]
Replaying(r) ==
    pc[r] = "replay" =>
        /\ entry[r] \in Entry /\ Vouches(entry[r]) /\ entry[r].sealedFor = key[r]
        /\ entry[r].reads \ todo[r] \subseteq seen[r]
Fresh(r) ==
    pc[r] \notin {"compile", "keep"} =>
        used[r] = {} /\ record[r] = {} /\ unsound[r] = FALSE
Recording(r) ==
    /\ used[r] \subseteq seen[r]
    /\ ~unsound[r] =>
        /\ record[r] = used[r]
        /\ \A x, y \in used[r] : x[1] = y[1] => x = y
        /\ \A x \in used[r] : x[2] # Missing
    /\ pc[r] = "keep" => Closed(key[r], used[r])
Answer(r) ==
    out[r] # None =>
        /\ out[r].of = key[r]
        /\ Closed(key[r], out[r].from)
        /\ out[r].from \subseteq seen[r]

RunOK(r) == InFlight(r) /\ Replaying(r) /\ Fresh(r) /\ Recording(r) /\ Answer(r)
Inv == TypeOK /\ EntriesVouch /\ \A r \in Run : RunOK(r)

USE DEF PC, RunOK

LEMMA InvInit == Init => Inv
  BY NoneAssumption, EditsAssumption
  DEF Init, Inv, TypeOK, EntriesVouch, InFlight, Replaying, Fresh, Recording, Answer

LEMMA NowTyped == TypeOK => Now \in SUBSET Read
  BY DEF TypeOK, Now, Read

LEMMA InvBegin ==
  ASSUME Inv, NEW r \in Run, NEW k \in Key, NEW c \in BOOLEAN, Begin(r, k, c)
  PROVE  Inv'
  <1> USE EditsAssumption DEF Inv, Begin, Goto, cacheVars, compileVars
  <1>1. TypeOK'
    BY NowTyped DEF TypeOK
  <1>2. EntriesVouch'
    BY DEF EntriesVouch
  <1>3. Now' = Now
    BY DEF Now
  <1>4. ASSUME NEW q \in Run PROVE RunOK(q)'
    <2>1. CASE q = r
      BY <1>3, <2>1 DEF TypeOK, InFlight, Replaying, Fresh, Recording, Answer
    <2>2. CASE q # r
      BY <1>3, <2>2 DEF TypeOK, InFlight, Replaying, Fresh, Recording, Answer
    <2> QED BY <2>1, <2>2
  <1> QED BY <1>1, <1>2, <1>4

(* A run that ends with no document, or with one that answers it.          *)
LEMMA InvReturn ==
  ASSUME Inv, NEW r \in Run, NEW d \in Document \cup {None}, Return(r, d),
         TypeOK', EntriesVouch',
         d # None => /\ d.of = key[r]
                     /\ Closed(key[r], d.from)
                     /\ d.from \subseteq seen[r]
  PROVE  Inv'
  <1> USE DEF Inv, Return, Goto
  <1>1. Now' = Now
    BY DEF Now
  <1>2. ASSUME NEW q \in Run PROVE RunOK(q)'
    <2>1. CASE q = r
      BY <2>1 DEF TypeOK, InFlight, Replaying, Fresh, Recording, Answer
    <2>2. CASE q # r
      BY <1>1, <2>2 DEF TypeOK, InFlight, Replaying, Fresh, Recording, Answer
    <2> QED BY <2>1, <2>2
  <1> QED BY <1>2

LEMMA InvMiss ==
  ASSUME Inv, NEW r \in Run, pc[r] \in {"load", "replay"}, Miss(r)
  PROVE  Inv'
  <1> USE DEF Inv, Miss, Goto, compileVars
  <1>1. TypeOK'
    BY DEF TypeOK
  <1>2. EntriesVouch' /\ Now' = Now
    BY DEF EntriesVouch, Now
  <1>3. ASSUME NEW q \in Run PROVE RunOK(q)'
    <2>1. CASE q = r
      BY <1>2, <2>1 DEF TypeOK, InFlight, Replaying, Fresh, Recording, Answer
    <2>2. CASE q # r
      BY <1>2, <2>2 DEF TypeOK, InFlight, Replaying, Fresh, Recording, Answer
    <2> QED BY <2>1, <2>2
  <1> QED BY <1>1, <1>2, <1>3
LEMMA InvLoad ==
  ASSUME Inv, NEW r \in Run, Load(r)
  PROVE  Inv'
  <1>1. CASE Miss(r)
    BY <1>1, InvMiss DEF Load
  <1>2. ASSUME NEW k \in Key, store[k] # None, SealHolds(store[k], key[r]),
               entry' = [entry EXCEPT ![r] = store[k]],
               todo' = [todo EXCEPT ![r] = store[k].reads],
               Goto(r, "replay"),
               UNCHANGED <<docs, edits, store, begun, key, cached, done, compileVars, out, seen>>
        PROVE  Inv'
    <2> USE <1>2 DEF Inv, Goto, compileVars
    <2>1. store[k] \in Entry /\ store[k].reads \in SUBSET Read
      BY DEF TypeOK, Entry
    <2>2. TypeOK'
      BY <2>1 DEF TypeOK
    <2>3. EntriesVouch' /\ Now' = Now
      BY DEF EntriesVouch, Now
    <2>4. RunOK(r)'
      <3>1. Vouches(store[k])
        BY DEF EntriesVouch
      <3>2. entry'[r] = store[k] /\ todo'[r] = store[k].reads /\ pc'[r] = "replay"
        BY DEF TypeOK
      <3>3. Replaying(r)'
        BY <2>1, <3>1, <3>2 DEF Replaying, SealHolds, Vouches
      <3> QED
        BY <2>3, <3>2, <3>3 DEF Load, TypeOK, InFlight, Fresh, Recording, Answer
    <2>5. ASSUME NEW q \in Run, q # r PROVE RunOK(q)'
      BY <2>3, <2>5 DEF TypeOK, InFlight, Replaying, Fresh, Recording, Answer
    <2> QED BY <2>2, <2>3, <2>4, <2>5
  <1> QED BY <1>1, <1>2 DEF Load

LEMMA InvReplay ==
  ASSUME Inv, NEW r \in Run, NEW x \in todo[r], Replay(r, x)
  PROVE  Inv'
  <1>1. CASE Miss(r)
    BY <1>1, InvMiss DEF Replay
  <1>2. CASE ~Miss(r)
    <2> USE <1>2 DEF Inv, Replay, compileVars
    <2>1. /\ docs[x[1]] = x[2] /\ todo' = [todo EXCEPT ![r] = @ \ {x}]
          /\ UNCHANGED <<docs, edits, store, begun, pc, key, cached, done, entry,
                         used, record, unsound, out, seen>>
      OBVIOUS
    <2>2. x \in seen[r]
      <3>1. x \in Read
        BY DEF TypeOK
      <3>2. x = <<x[1], docs[x[1]]>> /\ x[1] \in Doc
        BY <2>1, <3>1 DEF Read
      <3> QED BY <3>2 DEF Now, InFlight
    <2>3. TypeOK'
      BY <2>1 DEF TypeOK
    <2>4. EntriesVouch' /\ Now' = Now
      BY <2>1 DEF EntriesVouch, Now
    <2>5. ASSUME NEW q \in Run PROVE RunOK(q)'
      <3>1. Replaying(q)'
        BY <2>1, <2>2 DEF TypeOK, Replaying, Vouches
      <3> QED BY <2>1, <2>4, <3>1 DEF InFlight, Fresh, Recording, Answer
    <2> QED BY <2>3, <2>4, <2>5
  <1> QED BY <1>1, <1>2

LEMMA InvHit ==
  ASSUME Inv, NEW r \in Run, Hit(r)
  PROVE  Inv'
  <1> USE DEF Inv, Hit
  <1>1. entry[r] \in Entry /\ entry[r].doc \in Document
    BY DEF Replaying, Entry
  <1>2. TypeOK'
    BY <1>1 DEF TypeOK, Return, Goto
  <1>3. EntriesVouch'
    BY DEF EntriesVouch
  <1>4. /\ entry[r].doc.of = key[r]
        /\ Closed(key[r], entry[r].doc.from)
        /\ entry[r].doc.from \subseteq seen[r]
    BY DEF Replaying, Vouches
  <1>5. CASE done[r]
    BY <1>2, <1>3, <1>5, InvReturn
  <1>6. CASE ~done[r]
    BY <1>1, <1>2, <1>3, <1>4, <1>6, InvReturn
  <1> QED BY <1>5, <1>6

LEMMA InvRead ==
  ASSUME Inv, NEW r \in Run, NEW d \in Doc, ReadDocument(r, d)
  PROVE  Inv'
  <1> DEFINE x == <<d, docs[d]>>
  <1> USE DEF Inv, ReadDocument, cacheVars
  <1>1. x \in Read /\ x \in seen[r] /\ x[1] = d /\ x[2] = docs[d]
    BY DEF TypeOK, Read, InFlight, Now
  <1> HIDE DEF x
  <1>2. /\ used' = [used EXCEPT ![r] = @ \cup {x}]
        /\ record' = [record EXCEPT ![r] = {y \in @ : y[1] # d} \cup {x}]
        /\ unsound' = [unsound EXCEPT ![r] = @ \/ docs[d] = Missing \/ Repeats(r, x)]
        /\ UNCHANGED <<docs, edits, store, begun, pc, key, cached, done, entry, todo, out, seen>>
    BY DEF x
  <1>3. TypeOK'
    <2>1. unsound' \in [Run -> BOOLEAN]
      BY <1>2 DEF TypeOK
    <2>2. used' \in [Run -> SUBSET Read] /\ record' \in [Run -> SUBSET Read]
      BY <1>1, <1>2 DEF TypeOK
    <2> QED BY <1>2, <2>1, <2>2 DEF TypeOK
  <1>4. EntriesVouch' /\ Now' = Now
    BY <1>2 DEF EntriesVouch, Now
  <1>5. RunOK(r)'
    <2>1. used'[r] = used[r] \cup {x}
      BY <1>2 DEF TypeOK
    <2>2. record'[r] = {y \in record[r] : y[1] # d} \cup {x}
      BY <1>2 DEF TypeOK
    <2>3. ~unsound'[r] => ~unsound[r] /\ docs[d] # Missing /\ ~Repeats(r, x)
      BY <1>2 DEF TypeOK
    <2>4. ~unsound'[r] => \A y \in used[r] : y[1] = d => y = x
      BY <1>1, <2>3 DEF Repeats, Recording
    <2>5. ~unsound'[r] => record'[r] = used'[r]
      BY <1>1, <2>1, <2>2, <2>3, <2>4 DEF Recording
    <2>6. ~unsound'[r] => /\ \A y, z \in used'[r] : y[1] = z[1] => y = z
                          /\ \A y \in used'[r] : y[2] # Missing
      BY <1>1, <2>1, <2>3, <2>4 DEF Recording
    <2>7. Recording(r)'
      BY <1>1, <1>2, <2>1, <2>5, <2>6 DEF Recording
    <2> QED BY <1>2, <1>4, <2>7 DEF InFlight, Replaying, Fresh, Answer
  <1>6. ASSUME NEW q \in Run, q # r PROVE RunOK(q)'
    BY <1>2, <1>4, <1>6 DEF TypeOK, InFlight, Replaying, Fresh, Recording, Answer
  <1> QED BY <1>3, <1>4, <1>5, <1>6

LEMMA InvCompiled ==
  ASSUME Inv, NEW r \in Run, Compiled(r)
  PROVE  Inv'
  <1> USE DEF Inv, Compiled
  <1>1. CASE Return(r, None) /\ UNCHANGED store
    <2>1. TypeOK'
      BY <1>1 DEF TypeOK, Return, Goto
    <2> QED BY <1>1, <2>1, InvReturn DEF EntriesVouch
  <1>2. CASE /\ Closed(key[r], used[r])
             /\ Return(r, [of |-> key[r], from |-> used[r]]) /\ UNCHANGED store
    <2>1. [of |-> key[r], from |-> used[r]] \in Document
      BY DEF TypeOK, InFlight, Document
    <2>2. TypeOK'
      BY <1>2, <2>1 DEF TypeOK, Return, Goto
    <2>3. EntriesVouch'
      BY <1>2 DEF EntriesVouch
    <2>4. used[r] \subseteq seen[r]
      BY DEF Recording
    <2> QED BY <1>2, <2>1, <2>2, <2>3, <2>4, InvReturn
  <1>3. CASE /\ Closed(key[r], used[r])
             /\ Goto(r, "keep")
             /\ UNCHANGED <<docs, edits, store, begun, key, cached, done, cacheVars,
                            compileVars, out, seen>>
    <2>1. TypeOK' /\ EntriesVouch' /\ Now' = Now
      BY <1>3 DEF TypeOK, Goto, cacheVars, compileVars, EntriesVouch, Now
    <2>2. ASSUME NEW q \in Run PROVE RunOK(q)'
      BY <1>3, <2>1 DEF TypeOK, Goto, cacheVars, compileVars, InFlight, Replaying,
         Fresh, Recording, Answer
    <2> QED BY <2>1, <2>2
  <1> QED BY <1>1, <1>2, <1>3

LEMMA InvKeep ==
  ASSUME Inv, NEW r \in Run, Keep(r)
  PROVE  Inv'
  <1> DEFINE made == [of |-> key[r], from |-> used[r]]
             kept == [sealedFor |-> key[r], reads |-> record[r], doc |-> made]
  <1> USE DEF Inv, Keep
  <1>1. made \in Document /\ kept \in Entry /\ key[r] \in Key
    BY DEF TypeOK, InFlight, Document, Entry
  <1>2. ~unsound[r] => Vouches(kept)
    BY DEF Vouches, Recording
  <1> HIDE DEF kept
  <1>3. \/ store' = store
        \/ ~unsound[r] /\ store' = [store EXCEPT ![key[r]] = kept]
    BY DEF kept
  <1>4. EntriesVouch'
    BY <1>1, <1>2, <1>3 DEF EntriesVouch, TypeOK
  <1>5. Return(r, made)
    OBVIOUS
  <1> HIDE DEF made
  <1>6. TypeOK'
    BY <1>1, <1>3, <1>5 DEF TypeOK, Return, Goto
  <1>7. made.of = key[r] /\ made.from = used[r]
    BY DEF made
  <1>8. Closed(key[r], made.from) /\ made.from \subseteq seen[r]
    BY <1>7 DEF Recording
  <1> QED BY <1>1, <1>4, <1>5, <1>6, <1>7, <1>8, InvReturn

LEMMA InvStop ==
  ASSUME Inv, NEW r \in Run, Stop(r)
  PROVE  Inv'
  BY DEF Inv, Stop, TypeOK, EntriesVouch, Now, InFlight, Replaying, Fresh, Recording,
     Answer, cacheVars, compileVars

LEMMA InvEdit ==
  ASSUME Inv, NEW d \in Doc, NEW c \in Content \cup {Missing}, Edit(d, c)
  PROVE  Inv'
  <1> USE DEF Inv, Edit, cacheVars, compileVars
  <1>1. <<d, c>> \in Read
    BY DEF Read
  <1>2. \A q \in Run : seen[q] \subseteq seen'[q] /\ seen'[q] \subseteq seen[q] \cup {<<d, c>>}
    OBVIOUS
  <1>3. TypeOK'
    BY <1>1, <1>2, EditsAssumption DEF TypeOK
  <1>4. EntriesVouch'
    BY DEF EntriesVouch
  <1>5. Now' \subseteq Now \cup {<<d, c>>}
    BY DEF Now, TypeOK
  <1>6. ASSUME NEW q \in Run PROVE RunOK(q)'
    <2>1. InFlight(q)'
      BY <1>2, <1>5 DEF InFlight
    <2> QED BY <1>2, <2>1 DEF Replaying, Fresh, Recording, Answer
  <1> QED BY <1>3, <1>4, <1>6

LEMMA InvNext == Inv /\ [Next]_vars => Inv'
  <1> SUFFICES ASSUME Inv, [Next]_vars PROVE Inv'
    OBVIOUS
  <1>1. ASSUME NEW r \in Run, ReplayStopped(r) PROVE Inv'
    BY <1>1, InvMiss DEF ReplayStopped
  <1>2. CASE UNCHANGED vars
    BY <1>2 DEF vars, Inv, TypeOK, EntriesVouch, Now, InFlight, Replaying, Fresh,
       Recording, Answer
  <1> QED
    BY <1>1, <1>2, InvBegin, InvLoad, InvReplay, InvHit, InvRead, InvCompiled,
       InvKeep, InvStop, InvEdit
    DEF Next, Continue

(* Every reachable state of the cached runs is well typed.                 *)
THEOREM TypeCorrect == Spec => []TypeOK
  <1>1. Inv => TypeOK
    BY DEF Inv
  <1> QED BY <1>1, InvInit, InvNext, PTL DEF Spec

(* No run returns a document of another spec, or one compiled from what    *)
(* its documents did not hold at some moment of the run, for any runs,     *)
(* specs, documents and edits, and whatever entry the cache hands back.    *)
THEOREM NeverWrongDocument == Spec => []AnswersCurrent
  <1>1. Inv => AnswersCurrent
    BY DEF Inv, Answer, AnswersCurrent
  <1> QED BY <1>1, InvInit, InvNext, PTL DEF Spec

(* Every entry in the cache lists exactly what its document was compiled   *)
(* from.                                                                   *)
THEOREM EntriesAreSound == Spec => []EntriesVouch
  <1>1. Inv => EntriesVouch
    BY DEF Inv
  <1> QED BY <1>1, InvInit, InvNext, PTL DEF Spec
=============================================================================
