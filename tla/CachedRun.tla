------------------------------ MODULE CachedRun ------------------------------
(***************************************************************************)
(* engine/cache*.go: runs answered from a cache nobody vouches for, over   *)
(* documents that are edited while the runs read them.                     *)
(*                                                                         *)
(* A run derives its key from the spec's bytes and options, asks the cache *)
(* for the entry of that key, checks the entry's seal, reads again every   *)
(* document the entry's compile had read, and takes the entry's document   *)
(* when all of them are unchanged.  Otherwise it compiles, recording every *)
(* read, and stores what it compiled together with what it read.           *)
(***************************************************************************)
EXTENDS Integers, FiniteSets

CONSTANTS
    Run,        \* the runs in flight at once
    Key,        \* the run keys: a spec's bytes with everything else a key covers
    Doc,        \* the documents a compile may read, by request
    Content,    \* what a document may hold, told apart by its hash
    Root(_),    \* the documents a key's spec refers to
    Refs(_),    \* the documents a content refers to
    Missing,    \* what a read of a document that is not there returns
    None,       \* no entry, no document
    MaxEdits,   \* bound: edits of documents
    MaxRuns     \* bound: runs begun

ASSUME RefsAssumption ==
    /\ \A k \in Key : Root(k) \subseteq Doc
    /\ \A c \in Content : Refs(c) \subseteq Doc
    /\ Missing \notin Content
ASSUME EditsAssumption == MaxEdits \in Nat /\ MaxRuns \in Nat

(* A read is what one request returned, and a document what a compile made *)
(* of a key's spec and the reads it did.  A failed read leads nowhere.     *)
Read == Doc \X (Content \cup {Missing})
Links(reads) == UNION {Refs(x[2]) : x \in {y \in reads : y[2] # Missing}}
Needs(k, reads) == Root(k) \cup Links(reads)
Requested(reads) == {x[1] : x \in reads}

(* The compile has read all its spec and its reads lead to, and no more.   *)
Closed(k, reads) == Requested(reads) = Needs(k, reads)

Document == [of: Key, from: SUBSET Read]
Entry == [sealedFor: Key, reads: SUBSET Read, doc: Document]

ASSUME NoneAssumption == None \notin Entry /\ None \notin Document

VARIABLES
    docs,       \* what each document holds now
    edits,      \* the edits so far
    store,      \* the cache: the entry each key names, or None
    begun,      \* the runs begun so far
    pc,         \* where each run is
    key,        \* each run's key
    cached,     \* does the run take part in the cache?
    done,       \* has the run's context ended?
    entry,      \* the entry a run has loaded
    todo,       \* the reads of that entry not replayed yet
    used,       \* every read the run's compile has done
    record,     \* recorder.reads: the last read of each document
    unsound,    \* recorder.unsound
    out,        \* the document a run returned, None for an error or no document
    seen        \* history: what the documents have held since the run began

cacheVars == <<entry, todo>>
compileVars == <<used, record, unsound>>
vars == <<docs, edits, store, begun, pc, key, cached, done, entry, todo, used,
          record, unsound, out, seen>>

PC == {"idle", "load", "replay", "compile", "keep"}

TypeOK ==
    /\ docs \in [Doc -> Content \cup {Missing}]
    /\ edits \in 0..MaxEdits
    /\ store \in [Key -> Entry \cup {None}]
    /\ begun \in 0..MaxRuns
    /\ pc \in [Run -> PC]
    /\ key \in [Run -> Key \cup {None}]
    /\ cached \in [Run -> BOOLEAN]
    /\ done \in [Run -> BOOLEAN]
    /\ entry \in [Run -> Entry \cup {None}]
    /\ todo \in [Run -> SUBSET Read]
    /\ used \in [Run -> SUBSET Read]
    /\ record \in [Run -> SUBSET Read]
    /\ unsound \in [Run -> BOOLEAN]
    /\ out \in [Run -> Document \cup {None}]
    /\ seen \in [Run -> SUBSET Read]

Init ==
    /\ docs \in [Doc -> Content \cup {Missing}]
    /\ edits = 0
    /\ store = [k \in Key |-> None]
    /\ begun = 0
    /\ pc = [r \in Run |-> "idle"]
    /\ key = [r \in Run |-> None]
    /\ cached = [r \in Run |-> FALSE]
    /\ done = [r \in Run |-> FALSE]
    /\ entry = [r \in Run |-> None]
    /\ todo = [r \in Run |-> {}]
    /\ used = [r \in Run |-> {}]
    /\ record = [r \in Run |-> {}]
    /\ unsound = [r \in Run |-> FALSE]
    /\ out = [r \in Run |-> None]
    /\ seen = [r \in Run |-> {}]
-----------------------------------------------------------------------------
Goto(r, l) == pc' = [pc EXCEPT ![r] = l]
Now == {<<d, docs[d]>> : d \in Doc}

(* A run that verifies its stages, or sets a compiler's own options, or    *)
(* cannot name its working directory takes no part in the cache.           *)
Begin(r, k, c) ==
    /\ pc[r] = "idle"
    /\ begun < MaxRuns
    /\ begun' = begun + 1
    /\ key' = [key EXCEPT ![r] = k]
    /\ cached' = [cached EXCEPT ![r] = c]
    /\ done' = [done EXCEPT ![r] = FALSE]
    /\ out' = [out EXCEPT ![r] = None]
    /\ seen' = [seen EXCEPT ![r] = Now]
    /\ Goto(r, IF c THEN "load" ELSE "compile")
    /\ UNCHANGED <<docs, edits, store, cacheVars, compileVars>>

(* A run that ends keeps its answer alone.                                 *)
Return(r, d) ==
    /\ Goto(r, "idle")
    /\ out' = [out EXCEPT ![r] = d]
    /\ entry' = [entry EXCEPT ![r] = None]
    /\ todo' = [todo EXCEPT ![r] = {}]
    /\ used' = [used EXCEPT ![r] = {}]
    /\ record' = [record EXCEPT ![r] = {}]
    /\ unsound' = [unsound EXCEPT ![r] = FALSE]
    /\ UNCHANGED <<docs, edits, begun, key, cached, done, seen>>

(* The entry does not answer: the run compiles, recording from nothing.    *)
Miss(r) ==
    /\ Goto(r, "compile")
    /\ entry' = [entry EXCEPT ![r] = None]
    /\ todo' = [todo EXCEPT ![r] = {}]
    /\ UNCHANGED <<docs, edits, store, begun, key, cached, done, compileVars, out, seen>>

(* The cache may answer with no entry, an error, a damaged entry, whose    *)
(* seal does not hold, or any entry it has, one of another key too.        *)
SealHolds(e, k) == e.sealedFor = k

Load(r) ==
    /\ pc[r] = "load"
    /\ \/ Miss(r)
       \/ \E k \in Key :
            /\ store[k] # None
            /\ IF SealHolds(store[k], key[r])
                 THEN /\ entry' = [entry EXCEPT ![r] = store[k]]
                      /\ todo' = [todo EXCEPT ![r] = store[k].reads]
                      /\ Goto(r, "replay")
                      /\ UNCHANGED <<docs, edits, store, begun, key, cached, done,
                                     compileVars, out, seen>>
                 ELSE Miss(r)

(* Mutants: a document that has gone counts as unchanged; a run that finds *)
(* a document changed asks the cache again.                                *)
ReplayGone(r, x) ==
    /\ pc[r] = "replay"
    /\ x \in todo[r]
    /\ IF docs[x[1]] \in {Missing, x[2]}
         THEN /\ todo' = [todo EXCEPT ![r] = @ \ {x}]
              /\ UNCHANGED <<docs, edits, store, begun, pc, key, cached, done, entry,
                             compileVars, out, seen>>
         ELSE Miss(r)

ReplayAgain(r, x) ==
    /\ pc[r] = "replay"
    /\ x \in todo[r]
    /\ todo' = [todo EXCEPT ![r] = @ \ {x}]
    /\ Goto(r, IF docs[x[1]] = x[2] THEN "replay" ELSE "load")
    /\ UNCHANGED <<docs, edits, store, begun, key, cached, done, entry, compileVars,
                   out, seen>>

(* readsUnchanged: the next read of the entry is done again.               *)
Replay(r, x) ==
    /\ pc[r] = "replay"
    /\ x \in todo[r]
    /\ IF docs[x[1]] # Missing /\ docs[x[1]] = x[2]
         THEN /\ todo' = [todo EXCEPT ![r] = @ \ {x}]
              /\ UNCHANGED <<docs, edits, store, begun, pc, key, cached, done, entry,
                             compileVars, out, seen>>
         ELSE Miss(r)

(* A reread also fails once the context has ended, and then the run goes   *)
(* on to a compile that ends for that.                                     *)
ReplayStopped(r) ==
    /\ pc[r] = "replay"
    /\ todo[r] # {}
    /\ done[r]
    /\ Miss(r)

Hit(r) ==
    /\ pc[r] = "replay"
    /\ todo[r] = {}
    /\ Return(r, IF done[r] THEN None ELSE entry[r].doc)
    /\ UNCHANGED store
-----------------------------------------------------------------------------
(* Mutant: a repeated read is not compared with the first.                 *)
RepeatsUnseen(r, x) == FALSE

(* The compile asks for a document it has come to need, or again for one   *)
(* it has read; recorder.ReadDocument notes the answer.                    *)
Repeats(r, x) == \E y \in record[r] : y[1] = x[1] /\ y # x

ReadDocument(r, d) ==
    LET x == <<d, docs[d]>> IN
    /\ pc[r] = "compile"
    /\ d \in Needs(key[r], used[r])
    /\ used' = [used EXCEPT ![r] = @ \cup {x}]
    /\ record' = [record EXCEPT ![r] = {y \in @ : y[1] # d} \cup {x}]
    /\ unsound' = [unsound EXCEPT ![r] = @ \/ docs[d] = Missing \/ Repeats(r, x)]
    /\ UNCHANGED <<docs, edits, store, begun, pc, key, cached, done, cacheVars, out, seen>>

(* The compile ends, with a document or without one, once it has read what *)
(* it needs, or with an error once its context has ended.                  *)
Compiled(r) ==
    /\ pc[r] = "compile"
    /\ \/ done[r] /\ Return(r, None) /\ UNCHANGED store
       \/ /\ Closed(key[r], used[r])
          /\ \/ ~cached[r] /\ Return(r, [of |-> key[r], from |-> used[r]]) /\ UNCHANGED store
             \/ Return(r, None) /\ UNCHANGED store
             \/ /\ cached[r]
                /\ Goto(r, "keep")
                /\ UNCHANGED <<docs, edits, store, begun, key, cached, done, cacheVars,
                               compileVars, out, seen>>

(* keep: the entry is stored only for a sound record, and a store that     *)
(* fails changes neither the cache nor the answer.                         *)
Keep(r) ==
    LET made == [of |-> key[r], from |-> used[r]]
        kept == [sealedFor |-> key[r], reads |-> record[r], doc |-> made]
    IN
    /\ pc[r] = "keep"
    /\ \/ ~unsound[r] /\ store' = [store EXCEPT ![key[r]] = kept]
       \/ UNCHANGED store
    /\ Return(r, made)
-----------------------------------------------------------------------------
(* The surroundings: a context ends, a document is edited.                 *)
Stop(r) ==
    /\ pc[r] # "idle"
    /\ ~done[r]
    /\ done' = [done EXCEPT ![r] = TRUE]
    /\ UNCHANGED <<docs, edits, store, begun, pc, key, cached, cacheVars, compileVars,
                   out, seen>>

Edit(d, c) ==
    /\ edits < MaxEdits
    /\ docs[d] # c
    /\ edits' = edits + 1
    /\ docs' = [docs EXCEPT ![d] = c]
    /\ seen' = [r \in Run |-> IF pc[r] = "idle" THEN seen[r] ELSE seen[r] \cup {<<d, c>>}]
    /\ UNCHANGED <<store, begun, pc, key, cached, done, cacheVars, compileVars, out>>

Continue(r) ==
    \/ Load(r)
    \/ \E x \in todo[r] : Replay(r, x)
    \/ ReplayStopped(r)
    \/ Hit(r)
    \/ \E d \in Doc : ReadDocument(r, d)
    \/ Compiled(r)
    \/ Keep(r)

Next ==
    \/ \E r \in Run :
          \/ \E k \in Key, c \in BOOLEAN : Begin(r, k, c)
          \/ Continue(r)
          \/ Stop(r)
    \/ \E d \in Doc, c \in Content \cup {Missing} : Edit(d, c)

Spec == Init /\ [][Next]_vars

(* A run in flight is scheduled again and again.                           *)
FairSpec == Spec /\ \A r \in Run : WF_vars(Continue(r))
-----------------------------------------------------------------------------
(* What a run returns, from the cache or not, is a document of its own     *)
(* spec, compiled from all the documents that spec leads to, each as it    *)
(* was at some moment of this very run: edits, damaged and misplaced       *)
(* entries and other runs cost the work and never the answer (cache.go,    *)
(* Cache: "costs a compile and never a wrong document").                   *)
AnswersCurrent ==
    \A r \in Run : out[r] # None =>
        /\ out[r].of = key[r]
        /\ Closed(key[r], out[r].from)
        /\ out[r].from \subseteq seen[r]

(* An entry lists exactly what its document was compiled from, one read of *)
(* each document and none that failed, under the key of its own spec, so   *)
(* that replaying the list vouches for the document (cachereads.go,        *)
(* recorder: "it lists what the compile actually got").                    *)
Vouches(e) ==
    /\ e.doc.of = e.sealedFor
    /\ e.reads = e.doc.from
    /\ Closed(e.sealedFor, e.reads)
    /\ \A x, y \in e.reads : x[1] = y[1] => x = y
    /\ \A x \in e.reads : x[2] # Missing
EntriesVouch == \A k \in Key : store[k] # None => Vouches(store[k])

(* Every run ends, whatever the cache answers.                             *)
RunsEnd == \A r \in Run : pc[r] # "idle" ~> pc[r] = "idle"
=============================================================================
