------------------------------ MODULE CacheDir ------------------------------
(***************************************************************************)
(* engine/cache: the directory that keeps compiled documents, shared by    *)
(* several processes that take no lock.                                    *)
(*                                                                         *)
(* A Store writes a temporary file, renames it over the entry, appends the *)
(* entry's size to a ledger, reads the ledger back, and prunes when the    *)
(* ledger says so: it removes the ledger, lists the directory, asks each   *)
(* file for its size and age, and removes the files unused longest.  Every *)
(* system call is one action, so the calls of the processes interleave.    *)
(***************************************************************************)
EXTENDS Integers, FiniteSets, FiniteSetsExt

CONSTANTS
    Proc,          \* the processes that call the directory
    Key,           \* the keys an entry may be named by
    Size,          \* the entry sizes callers bring, past Limit too
    Limit,         \* Dir.limit, MaxBytes in production
    MaxRecords,    \* maxRecords: the Stores one ledger may note
    StaleAfter,    \* staleAfter, in clock ticks
    MaxStores,     \* bound: Stores, of all the processes
    MaxClock,      \* bound: the last instant of the clock
    Faults,        \* may a ledger call fail, or a context end, after publishing?
    PruneFaults,   \* may listing, stat or removal fail during a prune?
    Kills,         \* may a process be killed inside a call?
    None           \* no file, no key, no process

ASSUME BoundsAssumption ==
    /\ Limit \in Nat /\ Size \subseteq Nat /\ MaxRecords \in Nat
    /\ StaleAfter \in Nat \ {0} /\ MaxStores \in Nat /\ MaxClock \in Nat
    /\ {Faults, PruneFaults, Kills} \subseteq BOOLEAN

(* A Store is known by its ordinal, so that two Stores of equal entries    *)
(* are told apart.                                                         *)
Stored == [nth: Nat, key: Key, size: Nat]
Ledger == [noted: SUBSET Stored, torn: BOOLEAN]

ASSUME NamesAssumption ==
    /\ Key \cap Nat = {}
    /\ None \notin Key /\ None \notin Proc
    /\ None \notin Ledger /\ None \notin Stored

(* The files a Dir owns (ownName): an entry is named by its key, and the   *)
(* temporary file of a Store by digits no other Store is given.            *)
TempName == 1..MaxStores
Name == Key \cup TempName
IsTemp(n) == n \in TempName

File == [id: Stored, whole: BOOLEAN, modified: Nat]
Held == [name: Name, size: Nat, modified: Nat]

VARIABLES
    files,    \* the directory: a function from the names present to their files
    ledger,   \* stored.ledger: the Stores it notes and a torn tail, or None
    clock,    \* the file system's clock, coarse enough for two files to tie
    pc,       \* where each process is
    stores,   \* the Stores begun so far
    nth,      \* the ordinal of each process's Store
    key,      \* the key of each process's call
    size,     \* the size of the entry each process stores
    fd,       \* each process's open ledger: on the linked file, or on an unlinked one
    now,      \* the instant a process's prune takes for the present
    listing,  \* the names a process's prune has listed and not yet sized
    held,     \* the files a process's prune has sized and not yet removed
    got,      \* what each process's Load has read
    born,     \* history: when each process's temporary file was created
    sweeper,  \* history: the last process to start the ledger afresh
    swept     \* history: the Stores whose entries that process has sized since

dirVars  == <<files, ledger, clock>>
callVars == <<stores, nth, key, size, fd, now, listing, held, got>>
history  == <<born, sweeper, swept>>
vars == <<files, ledger, clock, pc, stores, nth, key, size, fd, now, listing,
          held, got, born, sweeper, swept>>

PC == {"idle", "fill", "publish", "open", "write", "tally", "reset", "list",
       "stat", "mark", "dead"}

TypeOK ==
    /\ DOMAIN files \subseteq Name
    /\ \A n \in DOMAIN files : files[n] \in File
    /\ ledger \in Ledger \cup {None}
    /\ clock \in 0..MaxClock
    /\ pc \in [Proc -> PC]
    /\ stores \in 0..MaxStores
    /\ nth \in [Proc -> 0..MaxStores]
    /\ key \in [Proc -> Key \cup {None}]
    /\ size \in [Proc -> Nat]
    /\ fd \in [Proc -> {"closed", "live", "stale"}]
    /\ now \in [Proc -> 0..MaxClock]
    /\ listing \in [Proc -> SUBSET Name]
    /\ held \in [Proc -> SUBSET Held]
    /\ got \in [Proc -> File \cup {None}]
    /\ born \in [Proc -> 0..MaxClock]
    /\ sweeper \in Proc \cup {None}
    /\ swept \subseteq Stored

Init ==
    /\ files = [n \in {} |-> None]
    /\ ledger = None
    /\ clock = 0
    /\ pc = [p \in Proc |-> "idle"]
    /\ stores = 0
    /\ nth = [p \in Proc |-> 0]
    /\ key = [p \in Proc |-> None]
    /\ size = [p \in Proc |-> 0]
    /\ fd = [p \in Proc |-> "closed"]
    /\ now = [p \in Proc |-> 0]
    /\ listing = [p \in Proc |-> {}]
    /\ held = [p \in Proc |-> {}]
    /\ got = [p \in Proc |-> None]
    /\ born = [p \in Proc |-> 0]
    /\ sweeper = None
    /\ swept = {}
-----------------------------------------------------------------------------
(* The file system.                                                        *)
With(n, f) == [m \in DOMAIN files \cup {n} |-> IF m = n THEN f ELSE files[m]]
Without(n) == [m \in DOMAIN files \ {n} |-> files[m]]
Moved(from, to) ==
    [m \in (DOMAIN files \ {from}) \cup {to} |->
        IF m = to THEN files[from] ELSE files[m]]

(* The Store process p is in, and its temporary file.                      *)
Job(p) == [nth |-> nth[p], key |-> key[p], size |-> size[p]]
Temp(p) == nth[p]

Goto(p, l) == pc' = [pc EXCEPT ![p] = l]

(* A call that returns, or a process that ends, keeps nothing of the call. *)
Leave(p, l) ==
    /\ Goto(p, l)
    /\ nth' = [nth EXCEPT ![p] = 0]
    /\ key' = [key EXCEPT ![p] = None]
    /\ size' = [size EXCEPT ![p] = 0]
    /\ fd' = [fd EXCEPT ![p] = "closed"]
    /\ now' = [now EXCEPT ![p] = 0]
    /\ listing' = [listing EXCEPT ![p] = {}]
    /\ held' = [held EXCEPT ![p] = {}]
    /\ got' = [got EXCEPT ![p] = None]
    /\ born' = [born EXCEPT ![p] = 0]
    /\ UNCHANGED <<stores, sweeper, swept>>

Return(p) == Leave(p, "idle")
-----------------------------------------------------------------------------
(* Store up to the rename (atomicfile.Replace).                            *)

(* An entry past the limit alone is refused and changes nothing.           *)
Admits(s) == s <= Limit

Store(p, k, s) ==
    /\ pc[p] = "idle"
    /\ stores < MaxStores
    /\ Admits(s)
    /\ stores' = stores + 1
    /\ nth' = [nth EXCEPT ![p] = stores + 1]
    /\ key' = [key EXCEPT ![p] = k]
    /\ size' = [size EXCEPT ![p] = s]
    /\ files' = With(stores + 1,
                     [id |-> [nth |-> stores + 1, key |-> k, size |-> s],
                      whole |-> FALSE, modified |-> clock])
    /\ born' = [born EXCEPT ![p] = clock]
    /\ Goto(p, "fill")
    /\ UNCHANGED <<ledger, clock, fd, now, listing, held, got, sweeper, swept>>

(* A temporary file another process has unlinked takes the bytes unseen.   *)
Fill(p) ==
    /\ pc[p] = "fill"
    /\ files' = IF Temp(p) \in DOMAIN files
                  THEN With(Temp(p), [id |-> files[Temp(p)].id, whole |-> TRUE,
                                      modified |-> clock])
                  ELSE files
    /\ Goto(p, "publish")
    /\ UNCHANGED <<ledger, clock, callVars, history>>

(* Mutant: the cleanup removes the destination.                            *)
AbandonDestination(p) ==
    /\ pc[p] \in {"fill", "publish"}
    /\ files' = Without(key[p])
    /\ Return(p)
    /\ UNCHANGED <<ledger, clock>>

(* The write fails, the context ends before the rename, or the rename      *)
(* fails, as it must once the temporary file is gone; removing that file   *)
(* may fail too, and then it stays.                                        *)
Abandon(p) ==
    /\ pc[p] \in {"fill", "publish"}
    /\ files' \in {files, Without(Temp(p))}
    /\ Return(p)
    /\ UNCHANGED <<ledger, clock>>

(* Mutant: the rename does not wait for the bytes.                         *)
PublishUnfilled(p) ==
    /\ pc[p] \in {"fill", "publish"}
    /\ Temp(p) \in DOMAIN files
    /\ files' = Moved(Temp(p), key[p])
    /\ Goto(p, "open")
    /\ UNCHANGED <<ledger, clock, callVars, history>>

Publish(p) ==
    /\ pc[p] = "publish"
    /\ Temp(p) \in DOMAIN files
    /\ files' = Moved(Temp(p), key[p])
    /\ Goto(p, "open")
    /\ UNCHANGED <<ledger, clock, callVars, history>>
-----------------------------------------------------------------------------
(* The ledger (pruneDue, appendRecord, tallyDue, resetLedger).             *)
EmptyLedger == [noted |-> {}, torn |-> FALSE]

OpenLedger(p) ==
    /\ pc[p] = "open"
    /\ \/ /\ ledger' = IF ledger = None THEN EmptyLedger ELSE ledger
          /\ fd' = [fd EXCEPT ![p] = "live"]
          /\ Goto(p, "write")
       \/ /\ Faults
          /\ Goto(p, "reset")
          /\ UNCHANGED <<ledger, fd>>
    /\ UNCHANGED <<files, clock, stores, nth, key, size, now, listing, held, got, history>>

(* What the ledger holds after n bytes of p's record were written to it:   *)
(* all, some or none.  A file already unlinked takes them unseen.          *)
Recorded(p) == IF fd[p] = "live"
                 THEN [noted |-> ledger.noted \cup {Job(p)}, torn |-> ledger.torn]
                 ELSE ledger
Torn(p) == IF fd[p] = "live"
             THEN [noted |-> ledger.noted, torn |-> TRUE]
             ELSE ledger

WriteRecord(p) ==
    /\ pc[p] = "write"
    /\ \/ /\ ledger' = Recorded(p)
          /\ Goto(p, "tally")
       \/ /\ Faults                 \* a short write, or a failed close
          /\ ledger' \in {Recorded(p), Torn(p), ledger}
          /\ Goto(p, "reset")
    /\ fd' = [fd EXCEPT ![p] = "closed"]
    /\ UNCHANGED <<files, clock, stores, nth, key, size, now, listing, held, got, history>>

Bytes(ids) == MapThenSumSet(LAMBDA e : e.size, ids)
Eighth == Limit \div 8

(* Mutant: each record is held against the eighth, not their sum.          *)
TallyDueSingly ==
    \/ Cardinality(ledger.noted) > MaxRecords
    \/ ledger.torn
    \/ \E e \in ledger.noted : e.size > Eighth

TallyDue ==
    \/ Cardinality(ledger.noted) > MaxRecords
    \/ ledger.torn
    \/ \E e \in ledger.noted : e.size > Limit
    \/ Bytes(ledger.noted) > Eighth

(* A ledger that is gone cannot be read, and one that cannot be read is    *)
(* due.                                                                    *)
Due == ledger # None => TallyDue

ReadLedger(p) ==
    /\ pc[p] = "tally"
    /\ \/ /\ Due \/ Faults          \* the context may have ended by now
          /\ Goto(p, "reset")
          /\ UNCHANGED <<callVars, history>>
       \/ ~Due /\ Return(p)
    /\ UNCHANGED dirVars

(* Removing the ledger leaves the descriptors open on it writing to a file *)
(* no name reaches.  The prune runs whether or not the ledger could go,    *)
(* and takes its instant after.                                            *)
ResetLedger(p) ==
    /\ pc[p] = "reset"
    /\ \/ /\ ledger' = None
          /\ fd' = [q \in Proc |-> IF fd[q] = "live" THEN "stale" ELSE fd[q]]
       \/ /\ Faults
          /\ UNCHANGED <<ledger, fd>>
    /\ now' = [now EXCEPT ![p] = clock]
    /\ sweeper' = p
    /\ swept' = {}
    /\ Goto(p, "list")
    /\ UNCHANGED <<files, clock, stores, nth, key, size, listing, held, got, born>>
-----------------------------------------------------------------------------
(* The prune.                                                              *)
List(p) ==
    /\ pc[p] = "list"
    /\ \/ /\ listing' = [listing EXCEPT ![p] = DOMAIN files]
          /\ Goto(p, "stat")
          /\ UNCHANGED <<stores, nth, key, size, fd, now, held, got, history>>
       \/ PruneFaults /\ Return(p)
    /\ UNCHANGED dirVars

(* Mutant: no temporary file is too young.                                 *)
YoungNever(p, n) == FALSE

(* A temporary file younger than StaleAfter may be a Store in progress.    *)
Young(p, n) == IsTemp(n) /\ now[p] - files[n].modified < StaleAfter

(* A whole file has its entry's size; one whose write was cut short has    *)
(* anything up to it.                                                      *)
BytesOn(f) == IF f.whole THEN {f.id.size} ELSE {0, f.id.size}

(* heldIn: what a prune may come to know of the file named n, nothing when *)
(* it is gone by now or young.                                             *)
Sized(p, n) ==
    IF n \notin DOMAIN files \/ Young(p, n) THEN {{}}
    ELSE {{[name |-> n, size |-> b, modified |-> files[n].modified]} :
             b \in BytesOn(files[n])}

Stat(p, n) ==
    /\ pc[p] = "stat"
    /\ n \in listing[p]
    /\ \/ /\ listing' = [listing EXCEPT ![p] = @ \ {n}]
          /\ \E h \in Sized(p, n) : held' = [held EXCEPT ![p] = @ \cup h]
          /\ swept' = IF p = sweeper /\ n \in Key \cap DOMAIN files
                        THEN swept \cup {files[n].id} ELSE swept
          /\ UNCHANGED <<pc, stores, nth, key, size, fd, now, got, born, sweeper>>
       \/ PruneFaults /\ Return(p)
    /\ UNCHANGED dirVars

Total(fs) == MapThenSumSet(LAMBDA f : f.size, fs)
(* Mutant: the files used last come first.                                 *)
Newest(fs) == {f \in fs : \A g \in fs : f.modified >= g.modified}
Oldest(fs) == {f \in fs : \A g \in fs : f.modified <= g.modified}

(* Mutant: a file already gone is not counted as removed.                  *)
EvictPresent(p, f) ==
    /\ pc[p] = "stat" /\ listing[p] = {}
    /\ Total(held[p]) > Limit
    /\ f \in Oldest(held[p])
    /\ files' = Without(f.name)
    /\ held' = [held EXCEPT ![p] = IF f.name \in DOMAIN files THEN @ \ {f} ELSE @]
    /\ UNCHANGED <<pc, stores, nth, key, size, fd, now, listing, got, history>>
    /\ UNCHANGED <<ledger, clock>>

(* The file goes by name, whatever it has become since it was sized, and   *)
(* one already gone counts as removed.  Files of one instant go in name    *)
(* order, which the model leaves open.                                     *)
Evict(p, f) ==
    /\ pc[p] = "stat" /\ listing[p] = {}
    /\ Total(held[p]) > Limit
    /\ f \in Oldest(held[p])
    /\ \/ /\ files' = Without(f.name)
          /\ held' = [held EXCEPT ![p] = @ \ {f}]
          /\ UNCHANGED <<pc, stores, nth, key, size, fd, now, listing, got, history>>
       \/ PruneFaults /\ Return(p) /\ UNCHANGED files
    /\ UNCHANGED <<ledger, clock>>

(* Mutants: the ledger goes once the prune is over, or the prune stops an  *)
(* eighth early.                                                           *)
PruneDoneThenReset(p) ==
    /\ pc[p] = "stat" /\ listing[p] = {}
    /\ Total(held[p]) <= Limit
    /\ Return(p)
    /\ ledger' = IF \E q \in Proc : fd[q] = "live" THEN ledger ELSE None
    /\ UNCHANGED <<files, clock>>

PruneDoneEarly(p) ==
    /\ pc[p] = "stat" /\ listing[p] = {}
    /\ Total(held[p]) <= Limit + Eighth
    /\ Return(p)
    /\ UNCHANGED dirVars

PruneDone(p) ==
    /\ pc[p] = "stat" /\ listing[p] = {}
    /\ Total(held[p]) <= Limit
    /\ Return(p)
    /\ UNCHANGED dirVars
-----------------------------------------------------------------------------
(* Load: a whole read of the file the name reaches, then the mark, which   *)
(* goes by name and whose failure is dropped.  A Load of a missing or      *)
(* oversized entry answers at once and changes nothing.                    *)
Load(p, k) ==
    /\ pc[p] = "idle"
    /\ k \in DOMAIN files
    /\ files[k].id.size <= Limit
    /\ key' = [key EXCEPT ![p] = k]
    /\ got' = [got EXCEPT ![p] = files[k]]
    /\ Goto(p, "mark")
    /\ UNCHANGED <<dirVars, stores, nth, size, fd, now, listing, held, history>>

Mark(p) ==
    /\ pc[p] = "mark"
    /\ files' \in {files} \cup
                  {With(n, [id |-> files[n].id, whole |-> files[n].whole,
                            modified |-> clock]) : n \in DOMAIN files \cap {key[p]}}
    /\ Return(p)
    /\ UNCHANGED <<ledger, clock>>
-----------------------------------------------------------------------------
(* The surroundings: time passes, and a process may be killed.             *)
Tick ==
    /\ clock < MaxClock
    /\ clock' = clock + 1
    /\ UNCHANGED <<files, ledger, pc, callVars, history>>

Kill(p) ==
    /\ Kills
    /\ pc[p] \notin {"idle", "dead"}
    /\ Leave(p, "dead")
    /\ UNCHANGED dirVars

(* The steps a call takes once begun.                                      *)
Continue(p) ==
    \/ Fill(p) \/ Publish(p) \/ Abandon(p)
    \/ OpenLedger(p) \/ WriteRecord(p) \/ ReadLedger(p) \/ ResetLedger(p)
    \/ List(p)
    \/ \E n \in listing[p] : Stat(p, n)
    \/ \E f \in held[p] : Evict(p, f)
    \/ PruneDone(p)
    \/ Mark(p)

Begin(p) ==
    \/ \E k \in Key, s \in Size : Store(p, k, s)
    \/ \E k \in Key : Load(p, k)

Next ==
    \/ \E p \in Proc : Begin(p) \/ Continue(p) \/ Kill(p)
    \/ Tick

Spec == Init /\ [][Next]_vars

(* A process inside a call is scheduled again and again.                   *)
FairSpec == Spec /\ \A p \in Proc : WF_vars(Continue(p))
-----------------------------------------------------------------------------
(* What the directory promises.                                            *)
Entries == Key \cap DOMAIN files

(* A Store that has published and has not yet returned.                    *)
InProgress(p) == pc[p] \in {"open", "write", "tally", "reset", "list", "stat"}

(* With no Store in progress, the entries pass the limit by at most an     *)
(* eighth of it (dir.go, MaxBytes), whatever the processes have overlapped *)
(* and whichever ledger calls failed ("a fault costs a scan and never the  *)
(* bound", ledger.go, pruneDue).                                           *)
QuietBound ==
    (\A p \in Proc : ~InProgress(p)) =>
        Bytes({files[k].id : k \in Entries}) <= Limit + Eighth

(* The argument behind the bound: no published entry escapes both the      *)
(* ledger and the prune.  Each is noted in the ledger, or is about to be,  *)
(* or a prune that has yet to list or to size it is under way, or the      *)
(* prune that followed the last reset of the ledger has sized it           *)
(* (Dir.Store: append after the rename, reset before the listing).         *)
AboutToNote(e) ==
    \E p \in Proc : /\ Job(p) = e
                   /\ \/ pc[p] = "open"
                      \/ pc[p] = "write" /\ fd[p] = "live"
SweepReaches(k) ==
    \/ \E p \in Proc : pc[p] = "reset"
    \/ \E p \in Proc : /\ p = sweeper
                      /\ \/ pc[p] = "list"
                         \/ pc[p] = "stat" /\ k \in listing[p]
AccountedFor(k) ==
    \/ ledger # None /\ files[k].id \in ledger.noted
    \/ AboutToNote(files[k].id)
    \/ SweepReaches(k)
    \/ files[k].id \in swept
Accounted == \A k \in Entries : AccountedFor(k)

(* A Load answers with a whole entry that some Store wrote for the key     *)
(* asked for, whatever Stores and prunes overlap it (dir.go, Dir: "a Load  *)
(* sees a whole entry or none").                                           *)
LoadWhole ==
    \A p \in Proc : pc[p] = "mark" => got[p].whole /\ got[p].id.key = key[p]

(* The temporary file of a Store in progress is removed by another         *)
(* process's prune only once the Store is StaleAfter old (prune.go,        *)
(* staleAfter), so a prompt Store's rename never fails for it.             *)
YoungTempKept ==
    \A p \in Proc :
        pc[p] \in {"fill", "publish"} /\ Temp(p) \notin DOMAIN files =>
            clock - born[p] >= StaleAfter

(* A prune that ran to its end leaves of what it sized no more than the    *)
(* limit, whatever was published, marked and removed beside it, and what   *)
(* killed Stores had left uncounted is in what it sized (prune.go, prune). *)
SweepFits ==
    \A p \in Proc :
        p = sweeper /\ pc[p] \notin {"list", "stat", "dead"} =>
            Bytes({files[k].id : k \in Entries} \cap swept) <= Limit

(* With one process at work, the entry used last of all stays: no prune    *)
(* removes it to make room, its own Store's included (dir.go, Dir: "Past   *)
(* MaxBytes a Store removes the entries unused longest").                  *)
UsedLast(k) == \A j \in DOMAIN files \ {k} : files[j].modified < files[k].modified
UsedLastStays == [][\A k \in Entries : UsedLast(k) => k \in Entries']_vars

(* Every call whose process lives returns, though other processes store    *)
(* into, load from and prune the directory it is pruning.                  *)
Terminates == \A p \in Proc : pc[p] # "idle" ~> pc[p] \in {"idle", "dead"}

(* Stores, Loads and prunes, however they interleave, are the calls of the *)
(* abstract lossy store: a Store takes effect at its rename, at once and   *)
(* at most once, and one that fails before it never does; a prune only     *)
(* loses entries.                                                          *)
KeptBar ==
    [k \in Key |-> IF k \in DOMAIN files /\ files[k].whole THEN files[k].id ELSE None]
CallOf(p) ==
    IF pc[p] = "mark"
      THEN [op |-> "get", key |-> key[p], value |-> got[p].id, done |-> TRUE]
    ELSE IF pc[p] \in {"fill", "publish"}
      THEN [op |-> "put", key |-> key[p], value |-> Job(p), done |-> FALSE]
    ELSE IF InProgress(p)
      THEN [op |-> "put", key |-> key[p], value |-> Job(p), done |-> TRUE]
    ELSE [op |-> "none", key |-> None, value |-> None, done |-> FALSE]
CallBar == [p \in Proc |-> CallOf(p)]
Lossy == INSTANCE LossyStore WITH Value <- Stored, kept <- KeptBar, call <- CallBar
IsLossyStore == Lossy!Spec
=============================================================================
