---------------------------- MODULE LoadingProofs ----------------------------
(***************************************************************************)
(* Proofs about Loading, for any askers, documents, keys, spellings and    *)
(* budgets, however the asks, the reads and the cancels interleave: each   *)
(* document is read at most once and answers every ask alike, none is left *)
(* to the resolver's own parse in the second resolution, and the source is *)
(* held in both under every spelling a $ref writes.                        *)
(***************************************************************************)
EXTENDS Loading, FiniteSetTheorems, TLAPS

(* An asker waits for a reading that was begun, and a document is read by  *)
(* one asker at a time.                                                    *)
Turns ==
    \A a \in Askers :
      /\ step[a] # "idle" => wants[a] \in Used /\ reading[ReadUnder(wants[a])] # "unasked"
      /\ step[a] = "reading" =>
           /\ reading[ReadUnder(wants[a])] = "reading"
           /\ \A b \in Askers :
                step[b] = "reading" /\ ReadUnder(wants[b]) = ReadUnder(wants[a]) => b = a

(* What is known of a document: none is fetched before its first ask, one  *)
(* answer is given, once it is settled, and what was read has its tree.    *)
Settled ==
    \A k \in Keys :
      /\ fetched[k] <= 1
      /\ reading[k] \in {"unasked", "new"} => fetched[k] = 0
      /\ given[k] \subseteq {body[k]}
      /\ given[k] # {} => reading[k] = "done"
      /\ body[k] = "past budget" => spent > MaxDocuments
      /\ body[k] = "bytes" => reading[k] = "done" /\ k \in trees

(* The documents fetched are paid for.                                     *)
Fetched == {k \in Keys : fetched[k] > 0}
Budgeted ==
    /\ IsFiniteSet(Fetched)
    /\ Cardinality(Fetched) <= spent
    /\ Cardinality(Fetched) <= MaxDocuments

(* An asker of the second resolution asks for what the first one settled.  *)
Repeats(a) == step[a] # "reading" /\ (step[a] = "asked" => WalkedBefore(wants[a]))

(* What was used was read, and the second resolution asks for nothing that *)
(* the first has not settled.                                              *)
Walked ==
    /\ \A u \in used : reading[ReadUnder(u)] = "done" /\ body[ReadUnder(u)] = "bytes"
    /\ pass = 2 => \A a \in Askers : Repeats(a)
    /\ NoneUnprepared

(* The record of spellings mirrors what is held: that is what lets the     *)
(* second resolution hold it again.                                        *)
Mirrored ==
    /\ under = SelfKeys \cup noted
    /\ objects = (SelfKeys \X SourceSites) \cup spelled
    /\ spelled \subseteq noted \X SourceSites
    /\ whole \subseteq under
    /\ whole \X SourceSites \subseteq objects

(* Open's bound.                                                           *)
OpenedFew ==
    /\ IsFiniteSet(whole \ SelfKeys)
    /\ Cardinality(whole \ SelfKeys) <= opened
    /\ Cardinality(whole \ SelfKeys) <= MaxOpenedSpellings

(* What the $refs read so far name is held, and what the first resolution  *)
(* held is held in the second.                                             *)
Named(ws) == \A w \in ws : w[2] \in SourceSites => w \in objects
Written ==
    /\ Named(SourceWrites)
    /\ \A k \in Keys : body[k] = "bytes" => Named(Writes(k))
    /\ pass = 2 => before \subseteq objects

IInv == LoadTyped /\ Turns /\ Settled /\ Budgeted /\ Walked /\ Mirrored /\ OpenedFew /\ Written

----------------------------------------------------------------------------
(* A written pair is a spelling and a pointer.                             *)
Paired(ws) == \A w \in ws : w = <<w[1], w[2]>>

(* holdSite: what it holds it records, and every object named by what it   *)
(* was given is held after it.                                             *)
LEMMA SitesHeld ==
    ASSUME NEW ws, Paired(ws), Mirrored, OpenedFew, opened \in Nat, HoldSites(ws)
    PROVE  Mirrored' /\ OpenedFew' /\ opened' \in Nat /\ objects \subseteq objects' /\ Named(ws)'
<1>1. Mirrored'
  <2>1. under' = SelfKeys \cup noted'
    BY DEF Mirrored, HoldSites
  <2>2. objects' = (SelfKeys \X SourceSites) \cup spelled'
    BY DEF Mirrored, HoldSites
  <2>3. spelled' \subseteq noted' \X SourceSites
    BY DEF Mirrored, HoldSites, Landing, Unheld, Paired
  <2>4. whole' \subseteq under' /\ whole' \X SourceSites \subseteq objects'
    BY DEF Mirrored, HoldSites
  <2> QED  BY <2>1, <2>2, <2>3, <2>4 DEF Mirrored
<1>2. OpenedFew' /\ opened' \in Nat
  BY DEF OpenedFew, HoldSites
<1>3. objects \subseteq objects'
  BY DEF HoldSites
<1>4. Named(ws)'
  <2> SUFFICES ASSUME NEW w \in ws, w[2] \in SourceSites PROVE w \in objects'
    BY DEF Named
  <2>1. CASE w[1] \in whole
    BY <2>1, <1>3 DEF Mirrored, Paired
  <2>2. CASE w[1] \notin whole /\ w \in spelled
    BY <2>2, <1>3 DEF Mirrored
  <2>3. CASE w[1] \notin whole /\ w \notin spelled
    BY <2>3 DEF HoldSites, Landing, Unheld
  <2> QED  BY <2>1, <2>2, <2>3
<1> QED  BY <1>1, <1>2, <1>3, <1>4

(* hold: the second resolution starts with all that the first one held.    *)
LEMMA SourceHeld ==
    ASSUME Mirrored, HoldSource
    PROVE  Mirrored' /\ OpenedFew' /\ opened' \in Nat /\ objects \subseteq objects'
<1>1. Mirrored'
  <2>1. under' = SelfKeys \cup noted'
    BY DEF Mirrored, HoldSource
  <2>2. objects' = (SelfKeys \X SourceSites) \cup spelled'
    BY DEF Mirrored, HoldSource
  <2>3. spelled' \subseteq noted' \X SourceSites
    BY LoadingAssumption DEF Mirrored, HoldSource, Landing, Unheld
  <2>4. whole' \subseteq under' /\ whole' \X SourceSites \subseteq objects'
    BY DEF Mirrored, HoldSource
  <2> QED  BY <2>1, <2>2, <2>3, <2>4 DEF Mirrored
<1>2. OpenedFew' /\ opened' \in Nat
  <2>1. whole' \ SelfKeys = {} /\ opened' = 0
    BY DEF HoldSource
  <2> QED  BY <2>1, FS_EmptySet, LoadingAssumption DEF OpenedFew
<1>3. objects \subseteq objects'
  BY DEF HoldSource, Mirrored
<1> QED  BY <1>1, <1>2, <1>3

(* holdOpened: a whole spelling is counted.                                *)
LEMMA OpenedHeld ==
    ASSUME NEW key, Mirrored, OpenedFew, opened \in Nat, HoldOpened(key)
    PROVE  Mirrored' /\ OpenedFew' /\ opened' \in Nat /\ objects \subseteq objects'
<1> DEFINE every == IF opened < MaxOpenedSpellings THEN {key} ELSE {}
<1>1. /\ key \notin under
      /\ under' = under \cup {key} /\ noted' = noted \cup {key}
      /\ whole' = whole \cup every /\ opened' = opened + 1
      /\ spelled' = spelled \cup (every \X SourceSites)
      /\ objects' = objects \cup ((every \X SourceSites) \ spelled)
  BY DEF HoldOpened
<1>2. every \subseteq {key}
  OBVIOUS
<1>3. Mirrored'
  <2> HIDE DEF every
  <2>1. under' = SelfKeys \cup noted'
    BY <1>1 DEF Mirrored
  <2>2. objects' = (SelfKeys \X SourceSites) \cup spelled'
    BY <1>1 DEF Mirrored
  <2>3. spelled' \subseteq noted' \X SourceSites
    BY <1>1, <1>2 DEF Mirrored
  <2>4. whole' \subseteq under' /\ whole' \X SourceSites \subseteq objects'
    BY <1>1, <1>2, <2>2 DEF Mirrored
  <2> QED  BY <2>1, <2>2, <2>3, <2>4 DEF Mirrored
<1>4. OpenedFew' /\ opened' \in Nat
  <2>1. CASE opened < MaxOpenedSpellings
    <3>1. whole' \ SelfKeys = (whole \ SelfKeys) \cup {key}
      BY <1>1, <2>1 DEF Mirrored
    <3>2. IsFiniteSet(whole \ SelfKeys) /\ key \notin whole \ SelfKeys
      BY <1>1 DEF OpenedFew, Mirrored
    <3>3. /\ IsFiniteSet((whole \ SelfKeys) \cup {key})
          /\ Cardinality((whole \ SelfKeys) \cup {key}) = Cardinality(whole \ SelfKeys) + 1
      <4> DEFINE more == whole \ SelfKeys
      <4> HIDE DEF more
      <4> SUFFICES IsFiniteSet(more \cup {key}) /\ Cardinality(more \cup {key}) = Cardinality(more) + 1
        BY DEF more
      <4>1. IsFiniteSet(more) /\ key \notin more
        BY <3>2 DEF more
      <4> QED  BY <4>1, FS_AddElement
    <3>4. Cardinality(whole \ SelfKeys) \in Nat
      BY <3>2, FS_CardinalityType
    <3>5. IsFiniteSet(whole' \ SelfKeys) /\ Cardinality(whole' \ SelfKeys) = Cardinality(whole \ SelfKeys) + 1
      BY <3>1, <3>3, Zenon
    <3>6. opened' = opened + 1
      BY <1>1
    <3> HIDE DEF every
    <3> QED  BY <2>1, <3>4, <3>5, <3>6, LoadingAssumption DEF OpenedFew
  <2>2. CASE ~(opened < MaxOpenedSpellings)
    <3>1. whole' = whole
      BY <1>1, <2>2
    <3>2. Cardinality(whole \ SelfKeys) \in Nat
      BY FS_CardinalityType DEF OpenedFew
    <3>3. /\ IsFiniteSet(whole' \ SelfKeys)
          /\ Cardinality(whole' \ SelfKeys) = Cardinality(whole \ SelfKeys)
      BY <3>1 DEF OpenedFew
    <3> QED  BY <1>1, <3>2, <3>3, LoadingAssumption DEF OpenedFew
  <2> QED  BY <2>1, <2>2
<1>5. objects \subseteq objects'
  BY <1>1
<1> QED  BY <1>1, <1>3, <1>4, <1>5

(* While the pairs held and the documents read only grow by what was read, *)
(* what they name stays held.                                              *)
LEMMA WrittenStays ==
    ASSUME Written, objects \subseteq objects', UNCHANGED <<body, pass, before>>
    PROVE  Written'
BY DEF Written, Named

LEMMA HeldStays ==
    ASSUME Mirrored, OpenedFew, UNCHANGED heldVars
    PROVE  Mirrored' /\ OpenedFew'
BY DEF Mirrored, OpenedFew, heldVars

LEMMA ReadsStay ==
    ASSUME Turns, Settled, Budgeted, Walked,
           UNCHANGED <<step, wants, reading, body, spent, fetched, given, trees, cached, used, pass>>
    PROVE  Turns' /\ Settled' /\ Budgeted' /\ Walked'
<1>1. Turns'
  BY DEF Turns
<1>2. Settled'
  BY DEF Settled
<1>3. Budgeted'
  BY DEF Budgeted, Fetched
<1>4. Walked'
  BY DEF Walked, Repeats, WalkedBefore, NoneUnprepared
<1> QED  BY <1>1, <1>2, <1>3, <1>4

LEMMA KeyIsKey == \A u \in Used : ReadUnder(u) \in Keys
BY DEF Keys

----------------------------------------------------------------------------
LEMMA InitHolds == LoadInit => IInv
<1> SUFFICES ASSUME LoadInit PROVE IInv
  OBVIOUS
<1>1. LoadTyped
  BY DEF LoadInit, LoadTyped, Bodies
<1>2. Turns /\ Walked /\ NoneUnprepared
  BY DEF LoadInit, Turns, Walked, NoneUnprepared
<1>3. Settled
  BY DEF LoadInit, Settled, None
<1>4. Budgeted
  <2>1. Fetched = {} /\ spent = 0
    BY DEF LoadInit, Fetched
  <2> QED  BY <2>1, FS_EmptySet, LoadingAssumption DEF Budgeted
<1>5. Mirrored
  BY LoadingAssumption DEF LoadInit, Mirrored, Unheld
<1>6. OpenedFew
  <2>1. whole \ SelfKeys = {} /\ opened = 0
    BY DEF LoadInit
  <2> QED  BY <2>1, FS_EmptySet, LoadingAssumption DEF OpenedFew
<1>7. Written
  <2>1. Named(SourceWrites)
    BY LoadingAssumption DEF LoadInit, Named, Unheld
  <2> QED  BY <2>1 DEF LoadInit, Written, None
<1> QED  BY <1>1, <1>2, <1>3, <1>4, <1>5, <1>6, <1>7 DEF IInv

LEMMA LookupKeeps ==
    ASSUME IInv, NEW a \in Askers, NEW u \in Used, Lookup(a, u)
    PROVE  IInv'
<1> USE KeyIsKey DEF IInv
<1>1. LoadTyped'
  BY DEF LoadTyped, Lookup, heldVars
<1>2. Turns'
  BY DEF LoadTyped, Turns, Lookup
<1>3. Settled'
  BY DEF LoadTyped, Settled, Lookup
<1>4. Budgeted'
  BY DEF Budgeted, Fetched, Lookup
<1>5. Walked'
  <2>1. \A v \in used' : reading'[ReadUnder(v)] = "done" /\ body'[ReadUnder(v)] = "bytes"
    BY DEF LoadTyped, Walked, Lookup
  <2>2. ASSUME NEW v \in Used, WalkedBefore(v) PROVE WalkedBefore(v)'
    BY <2>2 DEF LoadTyped, WalkedBefore, Lookup
  <2>3. ASSUME pass = 2, NEW b \in Askers PROVE Repeats(b)'
    <3>1. CASE b = a
      <4>1. step'[b] = "asked" /\ wants'[b] = u /\ WalkedBefore(u)
        BY <2>3, <3>1 DEF LoadTyped, Lookup
      <4> QED  BY <4>1, <2>2 DEF Repeats, WalkedBefore
    <3>2. CASE b # a
      <4>1. step'[b] = step[b] /\ wants'[b] = wants[b] /\ Repeats(b)
        BY <2>3, <3>2 DEF LoadTyped, Lookup, Walked
      <4>2. step[b] = "asked" => wants[b] \in Used /\ WalkedBefore(wants[b])
        BY <4>1 DEF Turns, Repeats
      <4> QED  BY <4>1, <4>2, <2>2 DEF Repeats, WalkedBefore
    <3> QED  BY <3>1, <3>2
  <2>4. UNCHANGED <<pass, used, cached>>
    BY DEF Lookup
  <2> QED  BY <2>1, <2>3, <2>4 DEF Walked, NoneUnprepared
<1>6. Mirrored' /\ OpenedFew'
  BY HeldStays DEF Lookup
<1>7. Written'
  BY WrittenStays DEF Lookup, heldVars
<1> QED  BY <1>1, <1>2, <1>3, <1>4, <1>5, <1>6, <1>7

(* The first ask: the document moves from new to read or refused, and is   *)
(* charged before it is fetched.                                           *)
LEMMA FirstAskKeeps ==
    ASSUME IInv, NEW a \in Askers, FirstAsk(a)
    PROVE  IInv'
<1> USE DEF IInv
<1> DEFINE k == ReadUnder(wants[a])
<1>0. /\ wants[a] \in Used /\ k \in Keys /\ step[a] = "asked" /\ reading[k] = "new"
      /\ fetched[k] = 0
  BY KeyIsKey DEF FirstAsk, Turns, Settled
<1>a. /\ UNCHANGED <<wants, given, trees, cached, used, stopped, heldVars, pass, before>>
      /\ reading' = [reading EXCEPT ![k] = IF spent < MaxDocuments THEN "reading" ELSE "done"]
      /\ body' = [body EXCEPT ![k] = IF spent < MaxDocuments THEN "unfinished" ELSE "past budget"]
      /\ step' = IF spent < MaxDocuments THEN [step EXCEPT ![a] = "reading"] ELSE step
      /\ fetched' = IF spent < MaxDocuments THEN [fetched EXCEPT ![k] = @ + 1] ELSE fetched
      /\ spent' = IF spent < MaxDocuments THEN spent + 1 ELSE MaxDocuments + 1
  BY DEF FirstAsk
<1>b. /\ spent \in Nat /\ spent' \in Nat
      /\ spent > MaxDocuments \/ ~(spent < MaxDocuments) => spent' > MaxDocuments
  <2>1. spent \in Nat /\ MaxDocuments \in Nat
    BY LoadingAssumption DEF LoadTyped
  <2>2. spent' = IF spent < MaxDocuments THEN spent + 1 ELSE MaxDocuments + 1
    BY <1>a
  <2> QED  BY <2>1, <2>2
<1>d. fetched' = IF spent < MaxDocuments THEN [fetched EXCEPT ![k] = 1] ELSE fetched
  <2>1. fetched[k] + 1 = 1
    BY <1>0
  <2> QED  BY <1>a, <2>1
<1>c. pass = 1
  BY <1>0 DEF Walked, Repeats, WalkedBefore, LoadTyped
<1> HIDE DEF k
<1>1. LoadTyped'
  <2>1. /\ step' \in [Askers -> {"idle", "asked", "reading"}] /\ body' \in [Keys -> Bodies]
        /\ reading' \in [Keys -> {"unasked", "new", "reading", "done"}]
    BY <1>a DEF LoadTyped, Bodies
  <2>2. fetched' \in [Keys -> Nat]
    BY <1>0, <1>d DEF LoadTyped
  <2> QED  BY <1>a, <1>b, <2>1, <2>2 DEF LoadTyped, heldVars
<1>2. Turns'
  BY <1>0, <1>a, KeyIsKey DEF LoadTyped, Turns, k
<1>3. Settled'
  <2> SUFFICES ASSUME NEW j \in Keys
               PROVE /\ fetched'[j] <= 1
                     /\ reading'[j] \in {"unasked", "new"} => fetched'[j] = 0
                     /\ given'[j] \subseteq {body'[j]}
                     /\ given'[j] # {} => reading'[j] = "done"
                     /\ body'[j] = "past budget" => spent' > MaxDocuments
                     /\ body'[j] = "bytes" => reading'[j] = "done" /\ j \in trees'
    BY DEF Settled
  <2>1. given'[j] = given[j] /\ trees' = trees
    BY <1>a
  <2>2. CASE j = k
    <3>1. given[j] = {}
      BY <1>0, <2>2 DEF Settled
    <3>2. CASE spent < MaxDocuments
      <4>1. reading'[j] = "reading" /\ body'[j] = "unfinished" /\ fetched'[j] = 1
        BY <1>0, <1>a, <1>d, <2>2, <3>2 DEF LoadTyped
      <4>2. fetched'[j] <= 1
        BY <4>1
      <4> QED  BY <2>1, <3>1, <4>1, <4>2, Zenon
    <3>3. CASE ~(spent < MaxDocuments)
      <4>1. reading'[j] = "done" /\ body'[j] = "past budget" /\ fetched'[j] = 0
        BY <1>0, <1>a, <1>d, <2>2, <3>3 DEF LoadTyped
      <4>2. spent' > MaxDocuments
        BY <1>b, <3>3, Zenon
      <4>4. 0 <= 1
        OBVIOUS
      <4>3. fetched'[j] <= 1
        BY <4>1, <4>4, Zenon
      <4> QED  BY <2>1, <3>1, <4>1, <4>2, <4>3, Zenon
    <3> QED  BY <3>2, <3>3
  <2>3. CASE j # k
    <3>1. /\ reading'[j] = reading[j] /\ body'[j] = body[j] /\ fetched'[j] = fetched[j]
      BY <1>a, <2>3 DEF LoadTyped
    <3> QED  BY <1>b, <2>1, <3>1 DEF Settled
  <2> QED  BY <2>2, <2>3
<1>4. Budgeted'
  <2>1. CASE spent < MaxDocuments
    <3>1. Fetched' = Fetched \cup {k} /\ k \notin Fetched
      BY <1>0, <1>a, <2>1 DEF Fetched, LoadTyped
    <3>2. /\ IsFiniteSet(Fetched') /\ Cardinality(Fetched') = Cardinality(Fetched) + 1
          /\ Cardinality(Fetched) \in Nat
      <4> HIDE DEF Fetched
      <4>1. IsFiniteSet(Fetched)
        BY DEF Budgeted
      <4> QED  BY <3>1, <4>1, FS_AddElement, FS_CardinalityType
    <3>3. spent' = spent + 1 /\ spent \in Nat
      BY <1>a, <2>1 DEF LoadTyped
    <3> QED  BY <2>1, <3>2, <3>3, LoadingAssumption DEF Budgeted
  <2>2. CASE ~(spent < MaxDocuments)
    <3>1. Fetched' = Fetched /\ spent' = MaxDocuments + 1
      BY <1>a, <2>2 DEF Fetched
    <3>2. Cardinality(Fetched) \in Nat
      BY FS_CardinalityType DEF Budgeted
    <3> QED  BY <3>1, <3>2, LoadingAssumption DEF Budgeted
  <2> QED  BY <2>1, <2>2
<1>5. Walked'
  <2>1. \A u \in used : reading'[ReadUnder(u)] = "done" /\ body'[ReadUnder(u)] = "bytes"
    BY <1>0, <1>a, KeyIsKey DEF LoadTyped, Walked
  <2>2. pass' = 1 /\ used' = used
    BY <1>a, <1>c
  <2> QED  BY <2>1, <2>2 DEF Walked, NoneUnprepared
<1>6. Mirrored' /\ OpenedFew'
  BY <1>a, HeldStays
<1>7. Written'
  BY <1>0, <1>a, <1>c DEF Written, Named, heldVars, LoadTyped
<1> QED  BY <1>1, <1>2, <1>3, <1>4, <1>5, <1>6, <1>7

(* A read ends: only the answer "bytes" leaves a document read, with its   *)
(* tree stored and its spellings held; the second resolution reads none.   *)
LEMMA FinishReadKeeps ==
    ASSUME IInv, NEW a \in Askers, NEW outcome \in {"bytes", "error", "panic", "cancelled"},
           FinishRead(a, outcome)
    PROVE  IInv'
<1> USE DEF IInv
<1> DEFINE k == ReadUnder(wants[a])
           answer == IF outcome = "panic" THEN "unfinished" ELSE outcome
           holds(ws) == (outcome = "bytes" => ws = Writes(k)) /\ HoldSites(ws)
<1>0. /\ wants[a] \in Used /\ k \in Keys /\ step[a] = "reading" /\ reading[k] = "reading"
      /\ \A b \in Askers : step[b] = "reading" /\ ReadUnder(wants[b]) = k => b = a
  BY KeyIsKey DEF FinishRead, Turns
<1>a. /\ UNCHANGED <<wants, spent, fetched, given, used, pass, before>>
      /\ step' = [step EXCEPT ![a] = "asked"]
      /\ reading' = [reading EXCEPT ![k] = "done"]
      /\ body' = [body EXCEPT ![k] = answer]
      /\ stopped' = (stopped \/ outcome = "cancelled")
  BY DEF FinishRead
<1>b. \/ outcome # "bytes" /\ UNCHANGED <<trees, cached, heldVars>>
      \/ /\ outcome # "error" /\ trees' = trees \cup {k}
         /\ cached' = [u \in Used |-> IF u = k THEN "prepared" ELSE cached[u]]
         /\ \E ws \in SUBSET Writes(k) : holds(ws)
  BY DEF FinishRead
<1>c. /\ answer \in Bodies /\ answer # "past budget" /\ (answer = "bytes" => outcome = "bytes")
  BY DEF Bodies
<1>d. pass = 1
  BY <1>0 DEF Walked, Repeats, LoadTyped
<1>e. /\ Mirrored' /\ OpenedFew' /\ opened' \in Nat /\ objects \subseteq objects'
      /\ outcome = "bytes" => \A w \in Writes(k) : w[2] \in SourceSites => w \in objects'
  <2>1. CASE outcome # "bytes" /\ UNCHANGED <<trees, cached, heldVars>>
    <3>1. UNCHANGED <<heldVars, opened, objects>>
      BY <2>1 DEF heldVars
    <3> QED  BY <2>1, <3>1, HeldStays DEF LoadTyped
  <2>2. ASSUME NEW ws \in SUBSET Writes(k), holds(ws)
        PROVE  /\ Mirrored' /\ OpenedFew' /\ opened' \in Nat /\ objects \subseteq objects'
               /\ outcome = "bytes" => \A w \in Writes(k) : w[2] \in SourceSites => w \in objects'
    <3>1. Paired(ws) /\ opened \in Nat /\ HoldSites(ws)
      BY <1>0, <2>2, LoadingAssumption DEF Paired, LoadTyped
    <3>2. Mirrored' /\ OpenedFew' /\ opened' \in Nat /\ objects \subseteq objects' /\ Named(ws)'
      BY <3>1, SitesHeld
    <3>3. outcome = "bytes" => ws = Writes(k)
      BY <2>2
    <3> HIDE DEF k
    <3> QED  BY <3>2, <3>3 DEF Named
  <2> QED  BY <1>b, <2>1, <2>2
<1>f. trees \subseteq trees' /\ trees' \subseteq Keys /\ (outcome = "bytes" => k \in trees')
  BY <1>0, <1>b DEF LoadTyped
<1>g. cached' \in [Used -> {None, "parsed", "prepared"}]
  BY <1>b DEF LoadTyped
<1> HIDE DEF k, answer, holds
<1>1. LoadTyped'
  <2>1. /\ step' \in [Askers -> {"idle", "asked", "reading"}] /\ body' \in [Keys -> Bodies]
        /\ reading' \in [Keys -> {"unasked", "new", "reading", "done"}] /\ stopped' \in BOOLEAN
    BY <1>a, <1>c DEF LoadTyped
  <2> QED  BY <1>a, <1>e, <1>f, <1>g, <2>1 DEF LoadTyped
<1>2. Turns'
  BY <1>0, <1>a, KeyIsKey DEF LoadTyped, Turns, k
<1>3. Settled'
  <2> SUFFICES ASSUME NEW j \in Keys
               PROVE /\ fetched'[j] <= 1
                     /\ reading'[j] \in {"unasked", "new"} => fetched'[j] = 0
                     /\ given'[j] \subseteq {body'[j]}
                     /\ given'[j] # {} => reading'[j] = "done"
                     /\ body'[j] = "past budget" => spent' > MaxDocuments
                     /\ body'[j] = "bytes" => reading'[j] = "done" /\ j \in trees'
    BY DEF Settled
  <2>1. given'[j] = given[j] /\ fetched'[j] = fetched[j] /\ spent' = spent
    BY <1>a
  <2>2. CASE j = k
    <3>1. given[j] = {} /\ fetched[j] <= 1
      BY <1>0, <2>2 DEF Settled
    <3>2. reading'[j] = "done" /\ body'[j] = answer
      BY <1>0, <1>a, <2>2 DEF LoadTyped
    <3> QED  BY <1>c, <1>f, <2>1, <2>2, <3>1, <3>2
  <2>3. CASE j # k
    <3>1. reading'[j] = reading[j] /\ body'[j] = body[j]
      BY <1>a, <2>3 DEF LoadTyped
    <3> QED  BY <1>f, <2>1, <3>1 DEF Settled
  <2> QED  BY <2>2, <2>3
<1>4. Budgeted'
  BY <1>a DEF Budgeted, Fetched
<1>5. Walked'
  <2>1. \A u \in used : reading'[ReadUnder(u)] = "done" /\ body'[ReadUnder(u)] = "bytes"
    BY <1>0, <1>a, KeyIsKey DEF LoadTyped, Walked
  <2>2. pass' = 1 /\ used' = used
    BY <1>a, <1>d
  <2> QED  BY <2>1, <2>2 DEF Walked, NoneUnprepared
<1>6. Written'
  <2>1. Named(SourceWrites)'
    BY <1>e DEF Written, Named
  <2>2. ASSUME NEW j \in Keys, body'[j] = "bytes" PROVE Named(Writes(j))'
    <3>1. CASE j = k
      <4>1. body'[j] = answer
        BY <1>0, <1>a, <3>1 DEF LoadTyped
      <4>2. \A w \in Writes(j) : w[2] \in SourceSites => w \in objects'
        BY <1>c, <1>e, <2>2, <3>1, <4>1, Zenon
      <4> QED  BY <4>2 DEF Named
    <3>2. CASE j # k
      <4>1. body[j] = "bytes"
        BY <1>a, <2>2, <3>2 DEF LoadTyped
      <4>2. Named(Writes(j))
        BY <4>1 DEF Written
      <4> QED  BY <1>e, <4>2 DEF Named
    <3> QED  BY <3>1, <3>2
  <2> QED  BY <1>a, <1>d, <2>1, <2>2 DEF Written
<1> QED  BY <1>1, <1>2, <1>3, <1>4, <1>5, <1>6, <1>e

(* An ask is answered: in the second resolution it had been answered so    *)
(* before, and the resolver holds the document prepared.                   *)
LEMMA AnsweredKeeps ==
    ASSUME IInv, NEW a \in Askers, Answered(a)
    PROVE  IInv'
<1> USE DEF IInv
<1> DEFINE u == wants[a]
           k == ReadUnder(u)
<1>0. u \in Used /\ k \in Keys /\ step[a] = "asked" /\ reading[k] = "done"
  BY KeyIsKey DEF Answered, Turns
<1>a. /\ UNCHANGED <<reading, body, spent, fetched, trees, stopped, heldVars, pass, before>>
      /\ step' = [step EXCEPT ![a] = "idle"] /\ wants' = [wants EXCEPT ![a] = None]
      /\ given' = [given EXCEPT ![k] = @ \cup {body[k]}]
      /\ cached' = [cached EXCEPT ![u] = IF body[k] = "bytes" /\ @ = None THEN "parsed" ELSE @]
      /\ used' = IF body[k] = "bytes" THEN used \cup {u} ELSE used
  BY DEF Answered
<1> HIDE DEF u, k
<1>b. UNCHANGED opened /\ objects' = objects
  BY <1>a DEF heldVars
<1>1. LoadTyped'
  <2>1. /\ step' \in [Askers -> {"idle", "asked", "reading"}] /\ wants' \in [Askers -> Used \cup {None}]
    BY <1>a DEF LoadTyped
  <2>2. given' \in [Keys -> SUBSET Bodies]
    BY <1>0, <1>a DEF LoadTyped
  <2>3. cached' \in [Used -> {None, "parsed", "prepared"}] /\ used' \subseteq Used
    BY <1>0, <1>a DEF LoadTyped
  <2> QED  BY <1>a, <1>b, <2>1, <2>2, <2>3 DEF LoadTyped
<1>2. Turns'
  BY <1>0, <1>a, KeyIsKey DEF LoadTyped, Turns
<1>3. Settled'
  BY <1>0, <1>a DEF LoadTyped, Settled
<1>4. Budgeted'
  BY <1>a DEF Budgeted, Fetched
<1>5. Walked'
  <2>1. \A v \in used' : reading'[ReadUnder(v)] = "done" /\ body'[ReadUnder(v)] = "bytes"
    BY <1>0, <1>a DEF Walked, k
  <2>2. ASSUME pass = 2, NEW b \in Askers PROVE Repeats(b)'
    <3>1. CASE b = a
      BY <1>0, <1>a, <3>1 DEF Repeats, LoadTyped
    <3>2. CASE b # a
      <4>1. step'[b] = step[b] /\ wants'[b] = wants[b] /\ Repeats(b) /\ used \subseteq used'
        BY <1>a, <2>2, <3>2 DEF Walked, LoadTyped
      <4> QED  BY <1>a, <4>1 DEF Repeats, WalkedBefore
    <3> QED  BY <3>1, <3>2
  <2>3. NoneUnprepared'
    <3> SUFFICES ASSUME pass = 2, NEW v \in used' PROVE cached'[v] = "prepared"
      BY <1>a DEF NoneUnprepared
    <3>1. WalkedBefore(u)
      BY <1>0 DEF Walked, Repeats, u
    <3>2. v \in used
      BY <1>0, <1>a, <3>1 DEF WalkedBefore, k
    <3>3. cached[v] = "prepared" /\ v \in Used
      BY <3>2 DEF Walked, NoneUnprepared, LoadTyped
    <3> QED  BY <1>a, <3>3 DEF LoadTyped, None
  <2> QED  BY <1>a, <2>1, <2>2, <2>3 DEF Walked
<1>6. Mirrored' /\ OpenedFew'
  BY <1>a, HeldStays
<1>7. Written'
  BY <1>a, <1>b, WrittenStays
<1> QED  BY <1>1, <1>2, <1>3, <1>4, <1>5, <1>6, <1>7

LEMMA OpenSourceKeeps ==
    ASSUME IInv, NEW a \in Askers, NEW key \in Spellings, OpenSource(a, key)
    PROVE  IInv'
<1> USE DEF IInv
<1>1. HoldOpened(key) /\ UNCHANGED <<readVars, pass, before>> /\ opened \in Nat
  BY DEF OpenSource, LoadTyped
<1>2. Mirrored' /\ OpenedFew' /\ opened' \in Nat /\ objects \subseteq objects'
  BY <1>1, OpenedHeld
<1>3. UNCHANGED <<step, wants, reading, body, spent, fetched, given, trees, cached, used, stopped, pass, before>>
  BY <1>1 DEF readVars
<1>4. Written'
  BY <1>2, <1>3, WrittenStays
<1>5. LoadTyped'
  BY <1>2, <1>3 DEF LoadTyped
<1>6. Turns' /\ Settled' /\ Budgeted' /\ Walked'
  BY <1>3, ReadsStay
<1> QED  BY <1>2, <1>4, <1>5, <1>6

(* The model is rebuilt: every document used is handed over prepared, and  *)
(* the source is held again under all that was recorded.                   *)
LEMMA SecondPassKeeps ==
    ASSUME IInv, SecondPass
    PROVE  IInv'
<1> USE DEF IInv
<1>1. /\ pass' = 2 /\ cached' = HandOver /\ before' = objects /\ HoldSource
      /\ \A a \in Askers : step[a] = "idle"
      /\ UNCHANGED <<step, wants, reading, body, spent, fetched, given, trees, used, stopped>>
  BY DEF SecondPass
<1>2. Mirrored' /\ OpenedFew' /\ opened' \in Nat /\ objects \subseteq objects'
  BY <1>1, SourceHeld
<1>3. LoadTyped'
  <2>1. cached' \in [Used -> {None, "parsed", "prepared"}]
    BY <1>1 DEF HandOver
  <2> QED  BY <1>1, <1>2, <2>1 DEF LoadTyped
<1>4. Turns' /\ Settled'
  BY <1>1 DEF Turns, Settled
<1>5. Budgeted'
  BY <1>1 DEF Budgeted, Fetched
<1>6. Walked'
  <2>1. ASSUME NEW u \in used PROVE cached'[u] = "prepared"
    <3>1. u \in Used /\ ReadUnder(u) \in trees
      BY KeyIsKey DEF Walked, Settled, LoadTyped
    <3> QED  BY <1>1, <3>1 DEF HandOver
  <2> QED  BY <1>1, <2>1 DEF Walked, Repeats, NoneUnprepared
<1>7. Written'
  BY <1>1, <1>2 DEF Written, Named
<1> QED  BY <1>2, <1>3, <1>4, <1>5, <1>6, <1>7

----------------------------------------------------------------------------
LEMMA NextKeeps == IInv /\ [LoadNext]_loadVars => IInv'
<1> SUFFICES ASSUME IInv, [LoadNext]_loadVars PROVE IInv'
  OBVIOUS
<1>1. ASSUME NEW a \in Askers, NEW u \in Used, Lookup(a, u) PROVE IInv'
  BY <1>1, LookupKeeps
<1>2. ASSUME NEW a \in Askers, FirstAsk(a) PROVE IInv'
  BY <1>2, FirstAskKeeps
<1>3. ASSUME NEW a \in Askers, NEW o \in {"bytes", "error", "panic", "cancelled"}, FinishRead(a, o)
      PROVE IInv'
  BY <1>3, FinishReadKeeps
<1>4. ASSUME NEW a \in Askers, Answered(a) PROVE IInv'
  BY <1>4, AnsweredKeeps
<1>5. ASSUME NEW a \in Askers, NEW s \in Spellings, OpenSource(a, s) PROVE IInv'
  BY <1>5, OpenSourceKeeps
<1>6. CASE SecondPass
  BY <1>6, SecondPassKeeps
<1>7. CASE UNCHANGED loadVars
  <2>1. /\ UNCHANGED <<step, wants, reading, body, spent, fetched, given, trees, cached, used, stopped>>
        /\ UNCHANGED <<heldVars, opened, objects, pass, before>>
    BY <1>7 DEF loadVars, readVars, heldVars
  <2>2. LoadTyped'
    BY <2>1 DEF IInv, LoadTyped
  <2>3. Turns' /\ Settled' /\ Budgeted' /\ Walked'
    BY <2>1, ReadsStay DEF IInv
  <2>4. Mirrored' /\ OpenedFew'
    BY <2>1, HeldStays DEF IInv
  <2>5. Written'
    BY <2>1, WrittenStays DEF IInv
  <2> QED  BY <2>2, <2>3, <2>4, <2>5 DEF IInv
<1> QED  BY <1>1, <1>2, <1>3, <1>4, <1>5, <1>6, <1>7 DEF LoadNext

LEMMA IInvSuffices == IInv => LoadSettles
<1> SUFFICES ASSUME IInv PROVE LoadSettles
  OBVIOUS
<1>1. ReadsOnceEach
  <2>1. \A k \in Keys : fetched[k] <= 1 /\ \A x, y \in given[k] : x = y
    BY DEF IInv, Settled
  <2>2. Cardinality({k \in Keys : fetched[k] > 0}) <= MaxDocuments
    BY DEF IInv, Budgeted, Fetched
  <2>3. (\E k \in Keys : body[k] = "past budget") => spent > MaxDocuments
    BY DEF IInv, Settled
  <2> QED  BY <2>1, <2>2, <2>3 DEF ReadsOnceEach
<1>2. NoneUnprepared
  BY DEF IInv, Walked
<1>3. SourceHeldAgain
  <2>1. objects \subseteq under \X SourceSites
    BY DEF IInv, Mirrored
  <2>2. Cardinality(whole \ SelfKeys) <= MaxOpenedSpellings
    BY DEF IInv, OpenedFew
  <2> QED  BY <2>1, <2>2 DEF IInv, Written, Named, SourceHeldAgain
<1> QED  BY <1>1, <1>2, <1>3 DEF IInv, LoadSettles

(* However many resolvers ask for a document, in whatever order and under  *)
(* whatever spellings, and wherever a read fails, panics or is cancelled   *)
(* (load): it is fetched at most once, within the document budget, and     *)
(* answers every ask of both resolutions alike; the second resolution is   *)
(* handed every document it reads already prepared; and what a $ref of the *)
(* source or of a document read names in the source is held, in both,      *)
(* under the spelling it writes.                                           *)
THEOREM LoadingSettles == LoadSpec => []LoadSettles
<1>1. LoadInit => IInv
  BY InitHolds
<1>2. IInv /\ [LoadNext]_loadVars => IInv'
  BY NextKeeps
<1>3. IInv => LoadSettles
  BY IInvSuffices
<1> QED  BY <1>1, <1>2, <1>3, PTL DEF LoadSpec
=============================================================================
