------------------------------- MODULE Loading -------------------------------
(***************************************************************************)
(* The reads of a compile's load phase (compilers/openapi/internal/load):  *)
(* the one read each external document gets however many resolvers ask for *)
(* it, in the order they ask; the source, held for them under its own keys *)
(* and under each spelling a $ref names it by; and the second resolution,  *)
(* which recovers what the resolver parsed itself and is answered from the *)
(* first one's reads.                                                      *)
(*                                                                         *)
(* A document is looked up as it is spelled; ReadUnder(u) is the key a request *)
(* for u is read under.  A pair <<spelling, pointer>> is what one $ref     *)
(* into the source writes.                                                 *)
(***************************************************************************)
EXTENDS Naturals, FiniteSets

CONSTANTS Askers,             \* who resolves
          Used,               \* what documents are looked up by
          ReadUnder(_),           \* under: the key a request is read under
          SelfKeys,           \* sourceDocument.keys: what the source is looked up by
          Spellings,          \* the other spellings of the source
          SourceSites,              \* the pointers of the objects the source holds
          SourceWrites,       \* the pairs the source's own $refs write
          Writes(_),          \* the pairs the $refs of the document under a key write
          MaxDocuments,       \* Options.MaxExternalDocuments
          MaxOpenedSpellings  \* maxOpenedSpellings

Keys == {ReadUnder(u) : u \in Used}
None == "none"

ASSUME LoadingAssumption ==
    /\ MaxDocuments \in Nat /\ MaxOpenedSpellings \in Nat
    /\ \A w \in SourceWrites : w = <<w[1], w[2]>>
    /\ \A k \in Keys : \A w \in Writes(k) : w = <<w[1], w[2]>>

VARIABLES pass,     \* the resolution under way, 1 or 2
          step,     \* where each asker stands
          wants,    \* and the document it asks for
          reading,  \* externalReads.answers: how far each document's read is
          body,     \* and its answer
          spent,    \* externalReads.documents: the document budget spent
          fetched,    \* how often each document was read
          given,    \* every answer asks for a document got
          trees,    \* externalReads.trees: the documents prepared
          cached,   \* what the resolver holds for a document
          used,     \* what the resolutions read documents by
          stopped,  \* whether the compile was cancelled
          under,    \* heldSource.keys: what the source is held under,
          whole,    \* with every object
          opened,   \* heldSource.opened: the spellings Open was asked for
          objects,  \* the pairs an object of the source is held by
          noted,    \* heldSpellings.sites: the spellings recorded,
          spelled,  \* and the pairs
          before    \* the pairs the first resolution held at its end

readVars == <<step, wants, reading, body, spent, fetched, given, trees, cached, used, stopped>>
heldVars == <<under, whole, opened, objects, noted, spelled>>
loadVars == <<readVars, heldVars, pass, before>>

----------------------------------------------------------------------------
\* holdSite, of each pair of ws: the document is held under the spelling, and the
\* object where there is one, unless recorded already; a key with every object
\* held needs neither.
Unheld(ws, all) == {w \in ws : w[1] \notin all}
Landing(ws, all) == {w \in Unheld(ws, all) : w[2] \in SourceSites /\ w \notin spelled}
HoldSites(ws) ==
    /\ under' = under \cup {w[1] : w \in Unheld(ws, whole)}
    /\ noted' = noted \cup {w[1] : w \in Unheld(ws, whole)}
    /\ spelled' = spelled \cup Landing(ws, whole)
    /\ objects' = objects \cup Landing(ws, whole)
    /\ UNCHANGED <<whole, opened>>
\* hold: the source under its keys with every object and under each spelling
\* recorded with what was recorded there, then under those its own $refs write.
HoldSource ==
    LET own == Unheld(SourceWrites, SelfKeys)
    IN  /\ under' = SelfKeys \cup noted \cup {w[1] : w \in own}
        /\ whole' = SelfKeys /\ opened' = 0
        /\ noted' = noted \cup {w[1] : w \in own}
        /\ spelled' = spelled \cup Landing(SourceWrites, SelfKeys)
        /\ objects' = (SelfKeys \X SourceSites) \cup spelled \cup Landing(SourceWrites, SelfKeys)
\* holdOpened: a spelling no $ref was found to write, with every object while
\* the budget allows.
HoldOpened(key) ==
    LET every == IF opened < MaxOpenedSpellings THEN {key} ELSE {}
    IN  /\ key \notin under
        /\ under' = under \cup {key} /\ noted' = noted \cup {key}
        /\ whole' = whole \cup every /\ opened' = opened + 1
        /\ spelled' = spelled \cup (every \X SourceSites)
        /\ objects' = objects \cup ((every \X SourceSites) \ spelled)

----------------------------------------------------------------------------
\* newExternalReads and the first hold: nothing read, and the source held under
\* its keys and the spellings of its own $refs.
LoadInit ==
    /\ pass = 1 /\ step = [a \in Askers |-> "idle"] /\ wants = [a \in Askers |-> None]
    /\ reading = [k \in Keys |-> "unasked"] /\ body = [k \in Keys |-> None]
    /\ spent = 0 /\ fetched = [k \in Keys |-> 0] /\ given = [k \in Keys |-> {}]
    /\ trees = {} /\ cached = [u \in Used |-> None] /\ used = {} /\ stopped = FALSE
    /\ LET own == Unheld(SourceWrites, SelfKeys)
       IN  /\ noted = {w[1] : w \in own} /\ spelled = {w \in own : w[2] \in SourceSites}
           /\ under = SelfKeys \cup {w[1] : w \in own}
           /\ objects = (SelfKeys \X SourceSites) \cup {w \in own : w[2] \in SourceSites}
    /\ whole = SelfKeys /\ opened = 0 /\ before = {}

\* The second resolution walks as the first did: it asks for what was read, and
\* again for what could not be.
WalkedBefore(u) == u \in used \/ (reading[ReadUnder(u)] = "done" /\ body[ReadUnder(u)] # "bytes")
\* Open and Do: the reading of a document is found, or begun, under its key.
Lookup(a, u) ==
    /\ step[a] = "idle" /\ (pass = 2 => WalkedBefore(u))
    /\ step' = [step EXCEPT ![a] = "asked"] /\ wants' = [wants EXCEPT ![a] = u]
    /\ reading' = [reading EXCEPT ![ReadUnder(u)] = IF @ = "unasked" THEN "new" ELSE @]
    /\ UNCHANGED <<body, spent, fetched, given, trees, cached, used, stopped, heldVars, pass, before>>
\* Mutant: an ask does not wait for a read under way.
FirstAskUnshared(a) ==
    LET k == ReadUnder(wants[a])
    IN  /\ step[a] = "asked" /\ reading[k] # "done"
        /\ IF spent < MaxDocuments
           THEN /\ step' = [step EXCEPT ![a] = "reading"] /\ fetched' = [fetched EXCEPT ![k] = @ + 1]
                /\ reading' = [reading EXCEPT ![k] = "reading"] /\ body' = [body EXCEPT ![k] = "unfinished"]
                /\ spent' = spent + 1
           ELSE /\ reading' = [reading EXCEPT ![k] = "done"] /\ body' = [body EXCEPT ![k] = "past budget"]
                /\ spent' = MaxDocuments + 1 /\ UNCHANGED <<step, fetched>>
        /\ UNCHANGED <<wants, given, trees, cached, used, stopped, heldVars, pass, before>>
\* once and charge: the first ask reads the document while the document budget
\* allows, the failure set before it, and the others wait for its answer.
FirstAsk(a) ==
    LET k == ReadUnder(wants[a])
    IN  /\ step[a] = "asked" /\ reading[k] = "new"
        /\ IF spent < MaxDocuments
           THEN /\ step' = [step EXCEPT ![a] = "reading"] /\ fetched' = [fetched EXCEPT ![k] = @ + 1]
                /\ reading' = [reading EXCEPT ![k] = "reading"] /\ body' = [body EXCEPT ![k] = "unfinished"]
                /\ spent' = spent + 1
           ELSE /\ reading' = [reading EXCEPT ![k] = "done"] /\ body' = [body EXCEPT ![k] = "past budget"]
                /\ spent' = MaxDocuments + 1 /\ UNCHANGED <<step, fetched>>
        /\ UNCHANGED <<wants, given, trees, cached, used, stopped, heldVars, pass, before>>

\* fetch and prepare: the document's tree is stored, recorded, and the source
\* held under each spelling its $refs use.  A read that is cancelled or panics may
\* have stored the tree and held some of them, and is answered as failed.
FinishRead(a, outcome) ==
    LET k == ReadUnder(wants[a])
    IN  /\ step[a] = "reading"
        /\ step' = [step EXCEPT ![a] = "asked"] /\ reading' = [reading EXCEPT ![k] = "done"]
        /\ body' = [body EXCEPT ![k] = IF outcome = "panic" THEN "unfinished" ELSE outcome]
        /\ stopped' = (stopped \/ outcome = "cancelled")
        /\ \/ outcome # "bytes" /\ UNCHANGED <<trees, cached, heldVars>>
           \/ /\ outcome # "error" /\ trees' = trees \cup {k}
              /\ cached' = [u \in Used |-> IF u = k THEN "prepared" ELSE cached[u]]
              /\ \E ws \in SUBSET Writes(k) : (outcome = "bytes" => ws = Writes(k)) /\ HoldSites(ws)
        /\ UNCHANGED <<wants, spent, fetched, given, used, pass, before>>

\* A document answered is looked for in the cache, and parsed where none is.
Answered(a) ==
    LET u == wants[a]
        k == ReadUnder(u)
    IN  /\ step[a] = "asked" /\ reading[k] = "done"
        /\ step' = [step EXCEPT ![a] = "idle"] /\ wants' = [wants EXCEPT ![a] = None]
        /\ given' = [given EXCEPT ![k] = @ \cup {body[k]}]
        /\ cached' = [cached EXCEPT ![u] = IF body[k] = "bytes" /\ @ = None THEN "parsed" ELSE @]
        /\ used' = IF body[k] = "bytes" THEN used \cup {u} ELSE used
        /\ UNCHANGED <<reading, body, spent, fetched, trees, stopped, heldVars, pass, before>>

\* Open, asked for the source.
OpenSource(a, key) == step[a] = "idle" /\ HoldOpened(key) /\ UNCHANGED <<readVars, pass, before>>

\* handOver: every prepared tree, under its own key and under each key the first
\* resolution read it by.
HandOver == [u \in Used |-> IF u \in trees \/ (u \in used /\ ReadUnder(u) \in trees) THEN "prepared" ELSE None]
\* resolveExternal: where the resolver parsed a document itself the model is
\* rebuilt and resolved again, unless a cancel cut the walk deciding on it.
SecondPass ==
    /\ pass = 1 /\ ~stopped /\ \A a \in Askers : step[a] = "idle"
    /\ \E u \in used : cached[u] = "parsed"
    /\ pass' = 2 /\ cached' = HandOver /\ before' = objects /\ HoldSource
    /\ UNCHANGED <<step, wants, reading, body, spent, fetched, given, trees, used, stopped>>

LoadNext ==
    \/ \E a \in Askers :
         \/ \E u \in Used : Lookup(a, u)
         \/ FirstAsk(a) \/ Answered(a)
         \/ \E o \in {"bytes", "error", "panic", "cancelled"} : FinishRead(a, o)
         \/ \E s \in Spellings : OpenSource(a, s)
    \/ SecondPass
LoadSpec == LoadInit /\ [][LoadNext]_loadVars

----------------------------------------------------------------------------
\* What a document's read may answer, and the types.
Bodies == {None, "unfinished", "past budget", "bytes", "error", "cancelled"}
LoadTyped ==
    /\ pass \in {1, 2} /\ stopped \in BOOLEAN /\ spent \in Nat /\ opened \in Nat
    /\ step \in [Askers -> {"idle", "asked", "reading"}] /\ wants \in [Askers -> Used \cup {None}]
    /\ reading \in [Keys -> {"unasked", "new", "reading", "done"}] /\ body \in [Keys -> Bodies]
    /\ fetched \in [Keys -> Nat] /\ given \in [Keys -> SUBSET Bodies]
    /\ trees \subseteq Keys /\ used \subseteq Used /\ cached \in [Used -> {None, "parsed", "prepared"}]
\* A document is read once in a compile however many ask for it, and every ask,
\* of either resolution, is answered alike; what is refused is past a spent budget.
ReadsOnceEach ==
    /\ \A k \in Keys : fetched[k] <= 1 /\ \A x, y \in given[k] : x = y
    /\ Cardinality({k \in Keys : fetched[k] > 0}) <= MaxDocuments
    /\ (\E k \in Keys : body[k] = "past budget") => spent > MaxDocuments
\* The second resolution finds every document it reads prepared: none is left
\* that the resolver parsed itself.
NoneUnprepared == pass = 2 => \A u \in used : cached[u] = "prepared"
\* What a $ref of the source or of a document read names in the source is held
\* under the spelling it writes, in the first resolution and, with all else that
\* was held there, in the second, which prepares no document again; and Open holds
\* every object under no more spellings than its bound.
SourceHeldAgain ==
    /\ \A w \in SourceWrites : w[2] \in SourceSites => w \in objects
    /\ \A k \in Keys : body[k] = "bytes" => \A w \in Writes(k) : w[2] \in SourceSites => w \in objects
    /\ pass = 2 => before \subseteq objects
    /\ objects \subseteq under \X SourceSites
    /\ Cardinality(whole \ SelfKeys) <= MaxOpenedSpellings

\* However the reads of the resolvers interleave (load), each document is read once
\* and handed over prepared under every key it was read by, and the source is held
\* in both resolutions under every spelling.
LoadSettles == LoadTyped /\ ReadsOnceEach /\ NoneUnprepared /\ SourceHeldAgain
=============================================================================
