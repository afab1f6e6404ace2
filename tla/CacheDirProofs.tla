--------------------------- MODULE CacheDirProofs ---------------------------
(***************************************************************************)
(* Proofs about CacheDir, for any processes, keys, sizes and bounds.       *)
(***************************************************************************)
EXTENDS CacheDir, FiniteSetTheorems, WellFoundedInduction, TLAPS

(* What a process's place says of its variables, without which TypeOK is   *)
(* not preserved: Publish renames to key[p], which must be a key.          *)
Storing(p) == pc[p] \in {"fill", "publish"} \/ InProgress(p)
Shape ==
    /\ \A p \in Proc : Storing(p) => key[p] \in Key /\ nth[p] \in 1..stores
    /\ \A p \in Proc : pc[p] = "mark" => key[p] \in Key /\ got[p] \in File
    /\ \A p \in Proc : fd[p] = "live" => pc[p] = "write" /\ ledger # None

Typed == TypeOK /\ Shape

USE DEF PC, File, Stored, Ledger, Name, TempName, Held

LEMMA TypedInit == Init => Typed
  BY BoundsAssumption, NamesAssumption
  DEF Init, Typed, TypeOK, Shape, Storing, InProgress

LEMMA TypedReturn ==
  ASSUME Typed, NEW p \in Proc, NEW l \in {"idle", "dead"}, Leave(p, l),
         UNCHANGED <<ledger, clock>>,
         DOMAIN files' \subseteq Name, \A n \in DOMAIN files' : files'[n] \in File
  PROVE  Typed'
  BY BoundsAssumption, NamesAssumption
  DEF Typed, TypeOK, Shape, Storing, InProgress, Leave, Goto

LEMMA TypedStore ==
  ASSUME Typed, NEW p \in Proc, NEW k \in Key, NEW s \in Size, Store(p, k, s)
  PROVE  Typed'
  BY BoundsAssumption, NamesAssumption
  DEF Typed, TypeOK, Shape, Storing, InProgress, Store, With, Goto, Admits

LEMMA TypedFill ==
  ASSUME Typed, NEW p \in Proc, Fill(p)
  PROVE  Typed'
  BY BoundsAssumption, NamesAssumption
  DEF Typed, TypeOK, Shape, Storing, InProgress, Fill, With, Temp, Goto,
      callVars, history

LEMMA TypedPublish ==
  ASSUME Typed, NEW p \in Proc, Publish(p)
  PROVE  Typed'
  BY BoundsAssumption, NamesAssumption
  DEF Typed, TypeOK, Shape, Storing, InProgress, Publish, Moved, Temp, Goto,
      callVars, history

LEMMA TypedAbandon ==
  ASSUME Typed, NEW p \in Proc, Abandon(p)
  PROVE  Typed'
  <1>1. DOMAIN files' \subseteq Name /\ \A n \in DOMAIN files' : files'[n] \in File
    BY DEF Abandon, Without, Typed, TypeOK
  <1> QED BY <1>1, TypedReturn DEF Abandon, Return

LEMMA TypedLedger ==
  ASSUME Typed, NEW p \in Proc,
         OpenLedger(p) \/ WriteRecord(p) \/ ResetLedger(p)
  PROVE  Typed'
  <1>1. CASE OpenLedger(p)
    <2>1. EmptyLedger \in Ledger
      BY DEF EmptyLedger
    <2>2. ledger' \in Ledger \cup {None}
      BY <1>1, <2>1 DEF OpenLedger, Typed, TypeOK
    <2>3. fd' # fd => ledger' # None
      BY <1>1, <2>1, NamesAssumption DEF OpenLedger, Typed, TypeOK
    <2>4. ledger # None => ledger' # None
      BY <1>1 DEF OpenLedger
    <2> HIDE DEF Ledger
    <2>5. TypeOK'
      BY <1>1, <2>2 DEF Typed, TypeOK, OpenLedger, Goto, PC, history
    <2>6. Shape'
      BY <1>1, <2>3, <2>4, BoundsAssumption
      DEF Typed, TypeOK, Shape, Storing, InProgress, OpenLedger, Goto, history
    <2> QED
      BY <2>5, <2>6 DEF Typed
  <1>2. CASE WriteRecord(p)
    <2>1. Job(p) \in Stored
      BY <1>2 DEF WriteRecord, Job, Typed, TypeOK, Shape, Storing, InProgress
    <2>2. CASE fd[p] = "live"
      <3>1. ledger \in Ledger
        BY <2>2 DEF Typed, TypeOK, Shape
      <3>2. Recorded(p) \in Ledger /\ Torn(p) \in Ledger
        BY <2>1, <2>2, <3>1 DEF Recorded, Torn
      <3>3. ledger' \in Ledger
        BY <1>2, <3>1, <3>2 DEF WriteRecord
      <3> HIDE DEF Ledger
      <3>4. ledger' # None
        BY <3>3, NamesAssumption
      <3>5. TypeOK'
        BY <1>2, <3>3 DEF Typed, TypeOK, WriteRecord, Goto, PC, history
      <3>6. Shape'
        BY <1>2, <3>4, BoundsAssumption
        DEF Typed, TypeOK, Shape, Storing, InProgress, WriteRecord, Goto, history
      <3> QED BY <3>5, <3>6 DEF Typed
    <2>3. CASE fd[p] # "live"
      <3>1. ledger' = ledger
        BY <1>2, <2>3 DEF WriteRecord, Recorded, Torn
      <3>2. TypeOK'
        BY <1>2, <3>1 DEF Typed, TypeOK, WriteRecord, Goto, PC, history
      <3>3. Shape'
        BY <1>2, <3>1, BoundsAssumption
        DEF Typed, TypeOK, Shape, Storing, InProgress, WriteRecord, Goto, history
      <3> QED BY <3>2, <3>3 DEF Typed
    <2> QED BY <2>2, <2>3
  <1>3. CASE ResetLedger(p)
    BY <1>3, BoundsAssumption, NamesAssumption
    DEF Typed, TypeOK, Shape, Storing, InProgress, ResetLedger, Goto
  <1> QED BY <1>1, <1>2, <1>3

LEMMA TypedReadLedger ==
  ASSUME Typed, NEW p \in Proc, ReadLedger(p)
  PROVE  Typed'
  <1>1. CASE Return(p)
    BY <1>1, TypedReturn DEF ReadLedger, dirVars, Return, Typed, TypeOK
  <1>2. CASE Goto(p, "reset") /\ UNCHANGED <<callVars, history>>
    BY <1>2, BoundsAssumption
    DEF Typed, TypeOK, Shape, Storing, InProgress, ReadLedger, Goto, dirVars, callVars, history
  <1> QED BY <1>1, <1>2 DEF ReadLedger

LEMMA TypedPrune ==
  ASSUME Typed, NEW p \in Proc,
         \/ List(p) \/ PruneDone(p)
         \/ \E n \in listing[p] : Stat(p, n)
         \/ \E f \in held[p] : Evict(p, f)
  PROVE  Typed'
  <1>1. CASE Return(p) /\ UNCHANGED dirVars
    BY <1>1, TypedReturn DEF Return, dirVars, Typed, TypeOK
  <1>2. CASE List(p) /\ ~Return(p)
    BY <1>2, BoundsAssumption
    DEF Typed, TypeOK, Shape, Storing, InProgress, List, Goto, dirVars, history
  <1>3. ASSUME NEW n \in listing[p], Stat(p, n), ~Return(p)
        PROVE  Typed'
    <2>1. n \in Name /\ \A h \in Sized(p, n) : h \subseteq Held
      BY DEF Sized, BytesOn, Typed, TypeOK
    <2>2. held' \in [Proc -> SUBSET Held]
      BY <1>3, <2>1 DEF Stat, Typed, TypeOK
    <2> QED
      BY <1>3, <2>2, BoundsAssumption
      DEF Typed, TypeOK, Shape, Storing, InProgress, Stat, dirVars
  <1>4. ASSUME NEW f \in held[p], Evict(p, f), ~Return(p)
        PROVE  Typed'
    BY <1>4, BoundsAssumption
    DEF Typed, TypeOK, Shape, Storing, InProgress, Evict, Without, history
  <1>5. CASE List(p) \/ PruneDone(p)
    BY <1>1, <1>2, <1>5 DEF List, PruneDone
  <1>6. ASSUME NEW n \in listing[p], Stat(p, n)
        PROVE  Typed'
    BY <1>1, <1>3, <1>6 DEF Stat
  <1>7. ASSUME NEW f \in held[p], Evict(p, f)
        PROVE  Typed'
    <2>1. CASE Return(p) /\ UNCHANGED files
      BY <1>1, <1>7, <2>1 DEF Evict, dirVars
    <2>2. CASE ~Return(p)
      BY <1>4, <1>7, <2>2
    <2>3. Return(p) => UNCHANGED files \/ pc' = pc
      BY <1>7 DEF Evict
    <2>4. Return(p) => pc' # pc
      BY <1>7 DEF Return, Leave, Goto, Evict, Typed, TypeOK
    <2> QED BY <2>1, <2>2, <2>3, <2>4
  <1> QED BY <1>5, <1>6, <1>7

LEMMA TypedLoad ==
  ASSUME Typed, NEW p \in Proc, NEW k \in Key, Load(p, k)
  PROVE  Typed'
  BY BoundsAssumption, NamesAssumption
  DEF Typed, TypeOK, Shape, Storing, InProgress, Load, Goto, dirVars, history

LEMMA TypedMark ==
  ASSUME Typed, NEW p \in Proc, Mark(p)
  PROVE  Typed'
  <1>1. DOMAIN files' \subseteq Name /\ \A n \in DOMAIN files' : files'[n] \in File
    <2>1. CASE files' = files
      BY <2>1 DEF Typed, TypeOK
    <2>2. ASSUME NEW n \in DOMAIN files \cap {key[p]},
                 files' = With(n, [id |-> files[n].id, whole |-> files[n].whole,
                                   modified |-> clock])
          PROVE  /\ DOMAIN files' \subseteq Name
                 /\ \A m \in DOMAIN files' : files'[m] \in File
      BY <2>2, BoundsAssumption DEF With, Typed, TypeOK
    <2> QED BY <2>1, <2>2 DEF Mark
  <1> QED BY <1>1, TypedReturn DEF Mark, Return

LEMMA TypedKill ==
  ASSUME Typed, NEW p \in Proc, Kill(p)
  PROVE  Typed'
  BY TypedReturn DEF Kill, dirVars, Typed, TypeOK

LEMMA TypedTick == Typed /\ Tick => Typed'
  BY BoundsAssumption
  DEF Typed, TypeOK, Shape, Storing, InProgress, Tick, callVars, history

LEMMA TypedStutter == Typed /\ UNCHANGED vars => Typed'
  BY DEF Typed, TypeOK, Shape, Storing, InProgress, vars

LEMMA TypedNext == Typed /\ [Next]_vars => Typed'
  BY TypedStore, TypedFill, TypedPublish, TypedAbandon, TypedLedger,
     TypedReadLedger, TypedPrune, TypedLoad, TypedMark, TypedKill, TypedTick,
     TypedStutter
  DEF Next, Begin, Continue

(* Every state of every behaviour has the types the code's declarations    *)
(* give it.                                                                *)
THEOREM TypeCorrect == Spec => []TypeOK
  <1>1. Typed => TypeOK
    BY DEF Typed
  <1> QED BY <1>1, TypedInit, TypedNext, PTL DEF Spec
-----------------------------------------------------------------------------
(* What the files hold.  A name's file changes under a process only by     *)
(* steps of other processes on other names, because no two Stores share an *)
(* ordinal.                                                                *)
EntriesWhole == \A k \in Entries : files[k].whole /\ files[k].id.key = k
TempsNumbered == \A n \in DOMAIN files : n \in TempName => n <= stores
OwnTemp ==
    \A p \in Proc : pc[p] \in {"fill", "publish"} /\ Temp(p) \in DOMAIN files =>
        /\ files[Temp(p)].id = Job(p)
        /\ pc[p] = "publish" => files[Temp(p)].whole
Distinct ==
    \A p, q \in Proc : p # q /\ Storing(p) /\ Storing(q) => nth[p] # nth[q]
FilesOK == EntriesWhole /\ TempsNumbered /\ OwnTemp /\ Distinct /\ LoadWhole

(* The directory lost names at most.                                       *)
Shrinks ==
    /\ DOMAIN files' \subseteq DOMAIN files
    /\ \A n \in DOMAIN files' : files'[n] = files[n]

LEMMA FilesInit == Init => FilesOK
  BY DEF Init, FilesOK, EntriesWhole, TempsNumbered, OwnTemp, Distinct,
     LoadWhole, Entries, Storing, InProgress

(* A step of a call past its rename keeps FilesOK: it removes names only.  *)
LEMMA FilesPastRename ==
  ASSUME Typed, FilesOK, NEW p \in Proc, InProgress(p),
         NEW l \in {"open", "write", "tally", "reset", "list", "stat"},
         pc' = [pc EXCEPT ![p] = l], UNCHANGED <<stores, nth, key, size, got>>, Shrinks
  PROVE  FilesOK'
  <1> USE DEF Typed, TypeOK, FilesOK, Shrinks
  <1>1. EntriesWhole'
    BY DEF EntriesWhole, Entries
  <1>2. TempsNumbered'
    BY DEF TempsNumbered
  <1>3. OwnTemp'
    BY DEF OwnTemp, Temp, Job, InProgress
  <1>4. Distinct'
    BY DEF Distinct, Storing, InProgress
  <1>5. LoadWhole'
    BY DEF LoadWhole, InProgress
  <1> QED BY <1>1, <1>2, <1>3, <1>4, <1>5

LEMMA FilesLeave ==
  ASSUME Typed, FilesOK, NEW p \in Proc, NEW l \in {"idle", "dead"}, Leave(p, l), Shrinks
  PROVE  FilesOK'
  <1> USE DEF Typed, TypeOK, FilesOK, Shrinks, Leave, Goto
  <1>1. EntriesWhole'
    BY DEF EntriesWhole, Entries
  <1>2. TempsNumbered'
    BY DEF TempsNumbered
  <1>3. OwnTemp'
    BY DEF OwnTemp, Temp, Job
  <1>4. Distinct'
    BY DEF Distinct, Storing, InProgress
  <1>5. LoadWhole'
    BY DEF LoadWhole
  <1> QED BY <1>1, <1>2, <1>3, <1>4, <1>5

LEMMA FilesStore ==
  ASSUME Typed, FilesOK, NEW p \in Proc, NEW k \in Key, NEW s \in Size, Store(p, k, s)
  PROVE  FilesOK'
  <1> USE BoundsAssumption, NamesAssumption
      DEF Typed, TypeOK, FilesOK, Store, With, Goto
  <1>0. stores + 1 \in Nat /\ stores + 1 \notin Key /\ stores + 1 \notin DOMAIN files
    BY DEF TempsNumbered
  <1>1. EntriesWhole'
    BY <1>0 DEF EntriesWhole, Entries
  <1>2. TempsNumbered'
    BY <1>0 DEF TempsNumbered
  <1>3. OwnTemp'
    <2> SUFFICES ASSUME NEW q \in Proc, pc'[q] \in {"fill", "publish"}, Temp(q)' \in DOMAIN files'
                 PROVE  /\ files'[Temp(q)'].id = Job(q)'
                        /\ pc'[q] = "publish" => files'[Temp(q)'].whole
      BY DEF OwnTemp
    <2>1. CASE q = p
      BY <1>0, <2>1 DEF Temp, Job
    <2>2. CASE q # p
      <3>1. nth[q] # stores + 1
        BY <2>2 DEF Shape, Storing
      <3> QED BY <2>2, <3>1 DEF OwnTemp, Temp, Job
    <2> QED BY <2>1, <2>2
  <1>4. Distinct'
    BY DEF Distinct, Storing, InProgress, Shape
  <1>5. LoadWhole'
    BY DEF LoadWhole
  <1> QED BY <1>1, <1>2, <1>3, <1>4, <1>5

LEMMA FilesFill ==
  ASSUME Typed, FilesOK, NEW p \in Proc, Fill(p)
  PROVE  FilesOK'
  <1> USE BoundsAssumption, NamesAssumption
      DEF Typed, TypeOK, FilesOK, Fill, With, Goto, callVars
  <1>0. Temp(p) \in Nat /\ Temp(p) \notin Key
    BY DEF Temp
  <1>1. EntriesWhole'
    BY <1>0 DEF EntriesWhole, Entries
  <1>2. TempsNumbered'
    BY DEF TempsNumbered
  <1>3. OwnTemp'
    <2> SUFFICES ASSUME NEW q \in Proc, pc'[q] \in {"fill", "publish"}, Temp(q)' \in DOMAIN files'
                 PROVE  /\ files'[Temp(q)'].id = Job(q)'
                        /\ pc'[q] = "publish" => files'[Temp(q)'].whole
      BY DEF OwnTemp
    <2>1. CASE q = p
      BY <2>1 DEF OwnTemp, Temp, Job
    <2>2. CASE q # p
      <3>1. nth[q] # nth[p]
        BY <2>2 DEF Distinct, Storing
      <3> QED BY <2>2, <3>1 DEF OwnTemp, Temp, Job
    <2> QED BY <2>1, <2>2
  <1>4. Distinct'
    BY DEF Distinct, Storing, InProgress
  <1>5. LoadWhole'
    BY DEF LoadWhole
  <1> QED BY <1>1, <1>2, <1>3, <1>4, <1>5

LEMMA FilesPublish ==
  ASSUME Typed, FilesOK, NEW p \in Proc, Publish(p)
  PROVE  FilesOK'
  <1> USE BoundsAssumption, NamesAssumption
      DEF Typed, TypeOK, FilesOK, Publish, Moved, Goto, callVars
  <1>a. key[p] \in Key
    BY DEF Shape, Storing
  <1>b. files[Temp(p)].id = Job(p) /\ files[Temp(p)].whole
    BY DEF OwnTemp
  <1>0. key[p] \in Key /\ files[Temp(p)].id.key = key[p] /\ files[Temp(p)].whole
    BY <1>a, <1>b DEF Job
  <1>1. EntriesWhole'
    BY <1>0 DEF EntriesWhole, Entries
  <1>2. TempsNumbered'
    BY <1>0 DEF TempsNumbered
  <1>3. OwnTemp'
    <2> SUFFICES ASSUME NEW q \in Proc, pc'[q] \in {"fill", "publish"}, Temp(q)' \in DOMAIN files'
                 PROVE  /\ files'[Temp(q)'].id = Job(q)'
                        /\ pc'[q] = "publish" => files'[Temp(q)'].whole
      BY DEF OwnTemp
    <2>1. q # p /\ nth[q] # nth[p] /\ nth[q] \in Nat
      BY DEF Distinct, Storing
    <2> QED BY <1>0, <2>1 DEF OwnTemp, Temp, Job
  <1>4. Distinct'
    BY DEF Distinct, Storing, InProgress
  <1>5. LoadWhole'
    BY DEF LoadWhole
  <1> QED BY <1>1, <1>2, <1>3, <1>4, <1>5

LEMMA FilesLoad ==
  ASSUME Typed, FilesOK, NEW p \in Proc, NEW k \in Key, Load(p, k)
  PROVE  FilesOK'
  <1> USE DEF Typed, TypeOK, FilesOK, Load, Goto, dirVars
  <1>1. EntriesWhole' /\ TempsNumbered'
    BY DEF EntriesWhole, Entries, TempsNumbered
  <1>2. OwnTemp'
    BY DEF OwnTemp, Temp, Job
  <1>3. Distinct'
    BY DEF Distinct, Storing, InProgress
  <1>4. LoadWhole'
    BY DEF LoadWhole, EntriesWhole, Entries
  <1> QED BY <1>1, <1>2, <1>3, <1>4
LEMMA FilesMark ==
  ASSUME Typed, FilesOK, NEW p \in Proc, Mark(p)
  PROVE  FilesOK'
  <1>1. CASE files' = files
    BY <1>1, FilesLeave DEF Mark, Return, Shrinks
  <1>2. ASSUME NEW n \in DOMAIN files \cap {key[p]},
               files' = With(n, [id |-> files[n].id, whole |-> files[n].whole,
                                 modified |-> clock])
        PROVE  FilesOK'
    <2> USE <1>2 DEF Typed, TypeOK, FilesOK, Mark, Return, Leave, Goto, With
    <2>1. /\ DOMAIN files' = DOMAIN files
          /\ \A m \in DOMAIN files :
                files'[m].id = files[m].id /\ files'[m].whole = files[m].whole
      OBVIOUS
    <2>2. EntriesWhole' /\ TempsNumbered'
      <3>1. EntriesWhole'
        BY <2>1 DEF EntriesWhole, Entries
      <3>2. TempsNumbered'
        BY <2>1 DEF TempsNumbered
      <3> QED BY <3>1, <3>2
    <2>3. OwnTemp'
      BY <2>1 DEF OwnTemp, Temp, Job
    <2>4. Distinct'
      BY DEF Distinct, Storing, InProgress
    <2>5. LoadWhole'
      BY DEF LoadWhole
    <2> QED BY <2>2, <2>3, <2>4, <2>5
  <1> QED BY <1>1, <1>2 DEF Mark

LEMMA FilesLedger ==
  ASSUME Typed, FilesOK, NEW p \in Proc,
         OpenLedger(p) \/ WriteRecord(p) \/ ReadLedger(p) \/ ResetLedger(p)
  PROVE  FilesOK'
  <1>1. Shrinks
    BY DEF Shrinks, OpenLedger, WriteRecord, ReadLedger, ResetLedger, dirVars
  <1>2. CASE OpenLedger(p)
    BY <1>1, <1>2, FilesPastRename DEF OpenLedger, Goto, InProgress
  <1>3. CASE WriteRecord(p)
    BY <1>1, <1>3, FilesPastRename DEF WriteRecord, Goto, InProgress
  <1>4. CASE ReadLedger(p)
    BY <1>1, <1>4, FilesPastRename, FilesLeave
    DEF ReadLedger, Goto, InProgress, callVars, Return
  <1>5. CASE ResetLedger(p)
    BY <1>1, <1>5, FilesPastRename DEF ResetLedger, Goto, InProgress
  <1> QED BY <1>2, <1>3, <1>4, <1>5

LEMMA FilesPrune ==
  ASSUME Typed, FilesOK, NEW p \in Proc,
         \/ List(p) \/ PruneDone(p)
         \/ \E n \in listing[p] : Stat(p, n)
         \/ \E f \in held[p] : Evict(p, f)
  PROVE  FilesOK'
  <1>1. Shrinks
    BY DEF Shrinks, List, PruneDone, Stat, Evict, Without, dirVars
  <1>2. CASE Return(p)
    BY <1>1, <1>2, FilesLeave DEF Return
  <1>3. CASE List(p) /\ ~Return(p)
    BY <1>1, <1>3, FilesPastRename DEF List, Goto, InProgress
  <1>4. ASSUME NEW n \in listing[p], Stat(p, n), ~Return(p)
        PROVE  FilesOK'
    <2>1. pc' = [pc EXCEPT ![p] = "stat"]
      BY <1>4 DEF Stat, Typed, TypeOK
    <2> QED BY <1>1, <1>4, <2>1, FilesPastRename DEF Stat, InProgress
  <1>5. ASSUME NEW f \in held[p], Evict(p, f), ~Return(p)
        PROVE  FilesOK'
    <2>1. pc' = [pc EXCEPT ![p] = "stat"]
      BY <1>5 DEF Evict, Typed, TypeOK
    <2> QED BY <1>1, <1>5, <2>1, FilesPastRename DEF Evict, InProgress
  <1> QED BY <1>2, <1>3, <1>4, <1>5 DEF PruneDone

LEMMA FilesNext == Typed /\ FilesOK /\ [Next]_vars => FilesOK'
  <1> SUFFICES ASSUME Typed, FilesOK, [Next]_vars PROVE FilesOK'
    OBVIOUS
  <1>1. ASSUME NEW p \in Proc, Abandon(p) \/ Kill(p) PROVE FilesOK'
    BY <1>1, FilesLeave DEF Abandon, Kill, Return, Shrinks, Without, dirVars
  <1>2. CASE Tick \/ UNCHANGED vars
    BY <1>2 DEF Tick, vars, callVars, FilesOK, EntriesWhole, TempsNumbered,
       OwnTemp, Distinct, LoadWhole, Entries, Temp, Job, Storing, InProgress
  <1> QED
    BY <1>1, <1>2, FilesStore, FilesFill, FilesPublish, FilesLoad, FilesMark,
       FilesLedger, FilesPrune
    DEF Next, Begin, Continue

(* A Load answers with a whole entry stored under the key asked for, in    *)
(* every interleaving of any number of processes, kills and faults         *)
(* included.                                                               *)
THEOREM LoadsAreWhole == Spec => []LoadWhole
  <1>1. Typed /\ FilesOK => LoadWhole
    BY DEF FilesOK
  <1> QED BY <1>1, TypedInit, TypedNext, FilesInit, FilesNext, PTL DEF Spec
-----------------------------------------------------------------------------
(* The accounting.  Each entry is carried from one disjunct of             *)
(* AccountedFor to the next: by the append into the ledger, by a reset     *)
(* into the sweep that follows it, by the sizing into swept.               *)
LEMMA AccountedInit == Init => Accounted
  BY DEF Init, Accounted, Entries

(* No entry changed hands, though some may have gone.                      *)
KeepsIds ==
    /\ DOMAIN files' \subseteq DOMAIN files
    /\ \A n \in DOMAIN files' : files'[n].id = files[n].id

(* A step of p that leaves the ledger, the history and the other processes *)
(* alone keeps the accounting, when p itself was not carrying any of it.   *)
LEMMA AccountedAside ==
  ASSUME Typed, Accounted, NEW p \in Proc, KeepsIds,
         pc[p] \notin {"open", "write", "reset", "list"},
         pc[p] = "stat" => listing[p] = {},
         \A q \in Proc \ {p} :
            /\ pc'[q] = pc[q] /\ nth'[q] = nth[q] /\ key'[q] = key[q] /\ size'[q] = size[q]
            /\ fd'[q] = fd[q] /\ listing'[q] = listing[q],
         UNCHANGED <<ledger, sweeper, swept>>
  PROVE  Accounted'
  <1> SUFFICES ASSUME NEW k \in Entries' PROVE AccountedFor(k)'
    BY DEF Accounted
  <1>1. k \in Entries /\ files'[k].id = files[k].id /\ AccountedFor(k)
    BY DEF Entries, KeepsIds, Accounted
  <1>2. AboutToNote(files[k].id) => AboutToNote(files[k].id)'
    BY <1>1 DEF AboutToNote, Job
  <1>3. SweepReaches(k) => SweepReaches(k)'
    BY DEF SweepReaches
  <1> QED BY <1>1, <1>2, <1>3 DEF AccountedFor

LEMMA AccountedStore ==
  ASSUME Typed, Accounted, NEW p \in Proc, NEW k \in Key, NEW s \in Size, Store(p, k, s)
  PROVE  Accounted'
  <1> USE NamesAssumption, BoundsAssumption DEF Typed, TypeOK, Store, With, Goto
  <1> SUFFICES ASSUME NEW j \in Entries' PROVE AccountedFor(j)'
    BY DEF Accounted
  <1>1. j \in Entries /\ files'[j] = files[j] /\ AccountedFor(j)
    BY DEF Entries, Accounted
  <1>2. AboutToNote(files[j].id) => AboutToNote(files[j].id)'
    BY <1>1 DEF AboutToNote, Job
  <1>3. SweepReaches(j) => SweepReaches(j)'
    BY DEF SweepReaches
  <1> QED BY <1>1, <1>2, <1>3 DEF AccountedFor

LEMMA AccountedFill ==
  ASSUME Typed, Accounted, NEW p \in Proc, Fill(p)
  PROVE  Accounted'
  <1> USE NamesAssumption, BoundsAssumption
      DEF Typed, TypeOK, Fill, With, Goto, callVars, history
  <1> SUFFICES ASSUME NEW j \in Entries' PROVE AccountedFor(j)'
    BY DEF Accounted
  <1>1. j \in Entries /\ files'[j] = files[j] /\ AccountedFor(j)
    BY DEF Entries, Accounted, Temp
  <1>2. AboutToNote(files[j].id) => AboutToNote(files[j].id)'
    BY <1>1 DEF AboutToNote, Job
  <1>3. SweepReaches(j) => SweepReaches(j)'
    BY DEF SweepReaches
  <1> QED BY <1>1, <1>2, <1>3 DEF AccountedFor

LEMMA AccountedPublish ==
  ASSUME Typed, FilesOK, Accounted, NEW p \in Proc, Publish(p)
  PROVE  Accounted'
  <1> USE NamesAssumption DEF Typed, TypeOK, Publish, Moved, Goto, callVars, history
  <1> SUFFICES ASSUME NEW j \in Entries' PROVE AccountedFor(j)'
    BY DEF Accounted
  <1>1. CASE j = key[p]
    <2>1. files'[j].id = Job(p)
      BY <1>1 DEF FilesOK, OwnTemp
    <2> QED BY <2>1 DEF AccountedFor, AboutToNote, Job
  <1>2. CASE j # key[p]
    <2>1. j \in Entries /\ files'[j] = files[j] /\ AccountedFor(j)
      BY <1>2 DEF Entries, Accounted
    <2>2. AboutToNote(files[j].id) => AboutToNote(files[j].id)'
      BY <2>1 DEF AboutToNote, Job
    <2>3. SweepReaches(j) => SweepReaches(j)'
      BY DEF SweepReaches
    <2> QED BY <2>1, <2>2, <2>3 DEF AccountedFor
  <1> QED BY <1>1, <1>2

LEMMA AccountedOpen ==
  ASSUME Typed, Accounted, NEW p \in Proc, OpenLedger(p)
  PROVE  Accounted'
  <1> USE NamesAssumption DEF Typed, TypeOK, OpenLedger, Goto, history
  <1> SUFFICES ASSUME NEW j \in Entries' PROVE AccountedFor(j)'
    BY DEF Accounted
  <1>1. j \in Entries /\ files'[j] = files[j] /\ AccountedFor(j)
    BY DEF Entries, Accounted
  <1>2. ledger # None => ledger' = ledger
    OBVIOUS
  <1>3. AboutToNote(files[j].id) => AboutToNote(files[j].id)' \/ SweepReaches(j)'
    BY <1>1 DEF AboutToNote, SweepReaches, Job
  <1>4. SweepReaches(j) => SweepReaches(j)'
    BY DEF SweepReaches
  <1> QED BY <1>1, <1>2, <1>3, <1>4 DEF AccountedFor

LEMMA AccountedWrite ==
  ASSUME Typed, Accounted, NEW p \in Proc, WriteRecord(p)
  PROVE  Accounted'
  <1> USE DEF Typed, TypeOK, WriteRecord, Goto, history
  <1> SUFFICES ASSUME NEW j \in Entries' PROVE AccountedFor(j)'
    BY DEF Accounted
  <1>1. j \in Entries /\ files'[j] = files[j] /\ AccountedFor(j)
    BY DEF Entries, Accounted
  <1>2. CASE pc'[p] = "reset"
    BY <1>2 DEF AccountedFor, SweepReaches
  <1>3. CASE pc'[p] # "reset"
    <2>1. ledger' = Recorded(p) /\ pc'[p] = "tally"
      BY <1>3
    <2>2. SweepReaches(j) => SweepReaches(j)'
      BY DEF SweepReaches
    <2>3. CASE fd[p] = "live"
      <3>1. ledger \in Ledger /\ ledger # None
        BY <2>3 DEF Shape
      <3>2. ledger' = [noted |-> ledger.noted \cup {Job(p)}, torn |-> ledger.torn]
        BY <2>1, <2>3 DEF Recorded
      <3>3. ledger' \in Ledger
        <4>1. Job(p) \in Stored
          BY DEF Job, Shape, Storing, InProgress
        <4> QED BY <3>1, <3>2, <4>1
      <3>4. ledger' # None
        <4> HIDE DEF Ledger
        <4> QED BY <3>3, NamesAssumption
      <3>5. AboutToNote(files[j].id) =>
              files[j].id = Job(p) \/ AboutToNote(files[j].id)'
        BY <1>1 DEF AboutToNote, Job
      <3> QED BY <1>1, <2>2, <3>1, <3>2, <3>4, <3>5 DEF AccountedFor
    <2>4. CASE fd[p] # "live"
      <3>1. AboutToNote(files[j].id) => AboutToNote(files[j].id)'
        BY <1>1, <2>4 DEF AboutToNote, Job
      <3> QED BY <1>1, <2>1, <2>2, <2>4, <3>1 DEF AccountedFor, Recorded
    <2> QED BY <2>3, <2>4
  <1> QED BY <1>2, <1>3

LEMMA AccountedRead ==
  ASSUME Typed, Accounted, NEW p \in Proc, ReadLedger(p)
  PROVE  Accounted'
  <1>1. CASE Return(p)
    <2>1. KeepsIds /\ UNCHANGED <<ledger, sweeper, swept>>
      BY <1>1 DEF ReadLedger, dirVars, KeepsIds, Return, Leave
    <2>2. \A q \in Proc \ {p} :
            /\ pc'[q] = pc[q] /\ nth'[q] = nth[q] /\ key'[q] = key[q] /\ size'[q] = size[q]
            /\ fd'[q] = fd[q] /\ listing'[q] = listing[q]
      BY <1>1 DEF Return, Leave, Goto, Typed, TypeOK
    <2>3. pc[p] = "tally"
      BY DEF ReadLedger
    <2> QED BY <2>1, <2>2, <2>3, AccountedAside
  <1>2. CASE Goto(p, "reset") /\ UNCHANGED <<callVars, history>>
    <2>1. pc'[p] = "reset"
      BY <1>2 DEF Goto, Typed, TypeOK
    <2> QED BY <2>1 DEF Accounted, AccountedFor, SweepReaches
  <1> QED BY <1>1, <1>2 DEF ReadLedger

LEMMA AccountedReset ==
  ASSUME Typed, Accounted, NEW p \in Proc, ResetLedger(p)
  PROVE  Accounted'
  <1>1. pc'[p] = "list" /\ sweeper' = p
    BY DEF ResetLedger, Goto, Typed, TypeOK
  <1> QED BY <1>1 DEF Accounted, AccountedFor, SweepReaches
LEMMA AccountedList ==
  ASSUME ~PruneFaults, Typed, Accounted, NEW p \in Proc, List(p)
  PROVE  Accounted'
  <1> USE DEF Typed, TypeOK, List, Goto, dirVars, history
  <1> SUFFICES ASSUME NEW j \in Entries' PROVE AccountedFor(j)'
    BY DEF Accounted
  <1>1. j \in Entries /\ files'[j] = files[j] /\ AccountedFor(j)
    BY DEF Entries, Accounted
  <1>2. AboutToNote(files[j].id) => AboutToNote(files[j].id)'
    BY <1>1 DEF AboutToNote, Job
  <1>3. SweepReaches(j) => SweepReaches(j)'
    BY <1>1 DEF SweepReaches, Entries
  <1> QED BY <1>1, <1>2, <1>3 DEF AccountedFor

LEMMA AccountedStat ==
  ASSUME ~PruneFaults, Typed, Accounted, NEW p \in Proc, NEW n \in listing[p], Stat(p, n)
  PROVE  Accounted'
  <1> USE DEF Typed, TypeOK, Stat, dirVars
  <1> SUFFICES ASSUME NEW j \in Entries' PROVE AccountedFor(j)'
    BY DEF Accounted
  <1>1. j \in Entries /\ files'[j] = files[j] /\ AccountedFor(j)
    BY DEF Entries, Accounted
  <1>2. AboutToNote(files[j].id) => AboutToNote(files[j].id)'
    BY <1>1 DEF AboutToNote, Job
  <1>3. SweepReaches(j) => SweepReaches(j)' \/ files[j].id \in swept'
    BY <1>1 DEF SweepReaches, Entries
  <1> QED BY <1>1, <1>2, <1>3 DEF AccountedFor

LEMMA AccountedOther ==
  ASSUME ~PruneFaults, Typed, Accounted, NEW p \in Proc,
         \/ Abandon(p) \/ PruneDone(p) \/ Mark(p)
         \/ \E f \in held[p] : Evict(p, f)
         \/ \E k \in Key : Load(p, k)
  PROVE  Accounted'
  <1>1. pc[p] \in {"idle", "fill", "publish", "mark"} \/ (pc[p] = "stat" /\ listing[p] = {})
    BY DEF Abandon, PruneDone, Mark, Evict, Load
  <1>2. CASE Abandon(p) \/ PruneDone(p)
    <2>1. KeepsIds /\ UNCHANGED <<ledger, sweeper, swept>>
      BY <1>2 DEF Abandon, PruneDone, Return, Leave, KeepsIds, Without, dirVars
    <2>2. Return(p)
      BY <1>2 DEF Abandon, PruneDone
    <2> QED
      BY <1>1, <2>1, <2>2, AccountedAside DEF Return, Leave, Goto, Typed, TypeOK
  <1>3. CASE Mark(p)
    <2>1. KeepsIds
      <3>1. CASE files' = files
        BY <3>1 DEF KeepsIds
      <3>2. ASSUME NEW n \in DOMAIN files \cap {key[p]},
                   files' = With(n, [id |-> files[n].id, whole |-> files[n].whole,
                                     modified |-> clock])
            PROVE  KeepsIds
        BY <3>2 DEF KeepsIds, With
      <3> QED BY <1>3, <3>1, <3>2 DEF Mark
    <2> QED
      BY <1>1, <1>3, <2>1, AccountedAside DEF Mark, Return, Leave, Goto, Typed, TypeOK
  <1>4. ASSUME NEW f \in held[p], Evict(p, f)
        PROVE  Accounted'
    <2>1. KeepsIds /\ UNCHANGED <<pc, nth, key, size, fd, listing, ledger, sweeper, swept>>
      BY <1>4 DEF Evict, KeepsIds, Without, history
    <2> QED BY <1>1, <2>1, AccountedAside
  <1>5. ASSUME NEW k \in Key, Load(p, k)
        PROVE  Accounted'
    <2>1. KeepsIds /\ UNCHANGED <<nth, size, fd, listing, ledger, sweeper, swept>>
      BY <1>5 DEF Load, KeepsIds, dirVars, history
    <2> QED BY <1>1, <1>5, <2>1, AccountedAside DEF Load, Goto, Typed, TypeOK
  <1> QED BY <1>2, <1>3, <1>4, <1>5

LEMMA AccountedNext ==
  ASSUME ~Kills, ~PruneFaults, Typed, FilesOK, Accounted, [Next]_vars
  PROVE  Accounted'
  <1>1. CASE Tick \/ UNCHANGED vars
    BY <1>1 DEF Tick, vars, callVars, history, Accounted, AccountedFor, Entries,
       AboutToNote, SweepReaches, Job
  <1> QED
    BY <1>1, AccountedStore, AccountedFill, AccountedPublish, AccountedOpen,
       AccountedWrite, AccountedRead, AccountedReset, AccountedList,
       AccountedStat, AccountedOther
    DEF Next, Begin, Continue, Kill

(* No published entry escapes both the ledger and the prune, for any       *)
(* number of processes and whichever ledger calls fail, as long as no      *)
(* process is killed inside a call and no call of a prune fails.           *)
THEOREM NothingEscapes ==
  ASSUME ~Kills, ~PruneFaults
  PROVE  Spec => []Accounted
  <1>1. Typed /\ FilesOK /\ Accounted /\ [Next]_vars => Accounted'
    BY AccountedNext
  <1> QED
    BY <1>1, TypedInit, TypedNext, FilesInit, FilesNext, AccountedInit, PTL DEF Spec
-----------------------------------------------------------------------------
(* The ages.  A prune holds the temporary file of a Store in progress only *)
(* if the Store was already old when the prune took its instant.           *)
Filling(p) == pc[p] \in {"fill", "publish"}
Monotone == \A p \in Proc : now[p] <= clock /\ born[p] <= clock
TempAge ==
    \A p \in Proc : Filling(p) /\ Temp(p) \in DOMAIN files =>
        born[p] <= files[Temp(p)].modified
HeldAge ==
    \A p, q \in Proc : \A f \in held[q] :
        Filling(p) /\ f.name = Temp(p) => clock - born[p] >= StaleAfter
HeldNumbered ==
    \A q \in Proc : \A f \in held[q] : f.name \in TempName => f.name <= stores
Ages == Monotone /\ TempAge /\ HeldAge /\ HeldNumbered /\ YoungTempKept

LEMMA AgesInit == Init => Ages
  BY DEF Init, Ages, Monotone, TempAge, HeldAge, HeldNumbered, YoungTempKept, Filling

(* A step of q that leaves the other processes, their temporary files and  *)
(* their ages alone, and after which q holds no more files and fills none. *)
LEMMA AgesAside ==
  ASSUME Typed, Ages, NEW q \in Proc,
         pc'[q] \notin {"fill", "publish"},
         \A p \in Proc \ {q} :
            pc'[p] = pc[p] /\ nth'[p] = nth[p] /\ born'[p] = born[p]
            /\ now'[p] = now[p] /\ held'[p] = held[p],
         now'[q] <= clock, born'[q] <= clock, held'[q] \subseteq held[q],
         \A p \in Proc \ {q} : Filling(p) =>
            /\ Temp(p) \in DOMAIN files' =>
                 Temp(p) \in DOMAIN files /\ files'[Temp(p)] = files[Temp(p)]
            /\ Temp(p) \notin DOMAIN files' =>
                 Temp(p) \notin DOMAIN files \/ clock - born[p] >= StaleAfter,
         UNCHANGED <<clock, stores>>
  PROVE  Ages'
  <1> USE DEF Ages, Filling, Typed, TypeOK
  <1>1. Monotone'
    BY DEF Monotone
  <1>2. TempAge'
    BY DEF TempAge, Temp
  <1>3. HeldAge'
    BY DEF HeldAge, Temp
  <1>4. HeldNumbered'
    BY DEF HeldNumbered
  <1>5. YoungTempKept'
    BY DEF YoungTempKept, Temp
  <1> QED BY <1>1, <1>2, <1>3, <1>4, <1>5

LEMMA AgesStore ==
  ASSUME Typed, FilesOK, Ages, NEW p \in Proc, NEW k \in Key, NEW s \in Size, Store(p, k, s)
  PROVE  Ages'
  <1> USE BoundsAssumption, NamesAssumption
      DEF Typed, TypeOK, Ages, Filling, Store, With, Goto
  <1>1. stores + 1 \in TempName /\ \A q \in Proc : Filling(q) => nth[q] <= stores
    BY DEF Shape, Storing
  <1>2. Monotone'
    BY DEF Monotone
  <1>3. TempAge'
    BY <1>1 DEF TempAge, Temp
  <1>4. HeldAge'
    <2> SUFFICES ASSUME NEW q \in Proc, NEW r \in Proc, NEW f \in held[r],
                        Filling(q)', f.name = nth'[q]
                 PROVE  clock - born'[q] >= StaleAfter
      BY DEF HeldAge, Temp
    <2>1. CASE q = p
      <3>1. f.name = stores + 1
        BY <2>1
      <3>2. f.name <= stores
        BY <1>1, <3>1 DEF HeldNumbered
      <3> QED BY <3>1, <3>2
    <2>2. CASE q # p
      <3>1. Filling(q) /\ nth'[q] = nth[q] /\ born'[q] = born[q]
        BY <2>2
      <3> QED BY <3>1 DEF HeldAge, Temp
    <2> QED BY <2>1, <2>2
  <1>5. HeldNumbered'
    BY <1>1 DEF HeldNumbered
  <1>6. YoungTempKept'
    BY <1>1 DEF YoungTempKept, Temp
  <1> QED BY <1>2, <1>3, <1>4, <1>5, <1>6

LEMMA AgesFill ==
  ASSUME Typed, FilesOK, Ages, NEW p \in Proc, Fill(p)
  PROVE  Ages'
  <1> USE BoundsAssumption
      DEF Typed, TypeOK, Ages, Filling, Fill, With, Goto, callVars, history
  <1>1. DOMAIN files' = DOMAIN files
    OBVIOUS
  <1>2. Monotone'
    BY DEF Monotone
  <1>3. TempAge'
    <2> SUFFICES ASSUME NEW q \in Proc, Filling(q)', Temp(q)' \in DOMAIN files'
                 PROVE  born'[q] <= files'[Temp(q)'].modified
      BY DEF TempAge
    <2>1. CASE q = p
      BY <2>1 DEF Temp, Monotone
    <2>2. CASE q # p
      BY <2>2 DEF Temp, TempAge, FilesOK, Distinct, Storing
    <2> QED BY <2>1, <2>2
  <1>4. HeldAge' /\ HeldNumbered'
    BY DEF HeldAge, HeldNumbered, Temp
  <1>5. YoungTempKept'
    BY <1>1 DEF YoungTempKept, Temp
  <1> QED BY <1>2, <1>3, <1>4, <1>5

LEMMA AgesStat ==
  ASSUME Typed, FilesOK, Ages, NEW p \in Proc, NEW n \in listing[p], Stat(p, n), ~Return(p)
  PROVE  Ages'
  <1> USE DEF Typed, TypeOK, Ages, Filling, Stat, dirVars
  <1>1. UNCHANGED <<files, clock, pc, stores, nth, now, born>>
    OBVIOUS
  <1>2. PICK h \in Sized(p, n) : held' = [held EXCEPT ![p] = @ \cup h]
    OBVIOUS
  <1>3. \A f \in h : /\ n \in DOMAIN files /\ ~Young(p, n) /\ f.name = n
                    /\ f.modified = files[n].modified
    BY <1>2 DEF Sized
  <1>4. Monotone' /\ TempAge' /\ YoungTempKept'
    BY <1>1 DEF Monotone, TempAge, YoungTempKept, Temp
  <1>5. HeldAge'
    <2> SUFFICES ASSUME NEW q \in Proc, Filling(q), NEW r \in Proc, NEW f \in held'[r],
                        f.name = Temp(q)
                 PROVE  clock - born[q] >= StaleAfter
      BY <1>1 DEF HeldAge, Temp
    <2>1. CASE f \in held[r]
      BY <2>1 DEF HeldAge
    <2>2. CASE f \notin held[r]
      <3>1. r = p /\ f \in h
        BY <1>2, <2>2
      <3>2. n = Temp(q) /\ n \in DOMAIN files /\ ~Young(p, n)
        BY <1>3, <3>1
      <3>3. IsTemp(n)
        BY <3>2 DEF IsTemp, Temp, Shape, Storing
      <3>4. now[p] - files[n].modified >= StaleAfter /\ files[n].modified \in Nat
        BY <3>2, <3>3, BoundsAssumption DEF Young
      <3> QED BY <3>2, <3>4, BoundsAssumption DEF TempAge, Monotone
    <2> QED BY <2>1, <2>2
  <1>6. HeldNumbered'
    <2> SUFFICES ASSUME NEW r \in Proc, NEW f \in held'[r], f.name \in TempName
                 PROVE  f.name <= stores
      BY <1>1 DEF HeldNumbered
    <2> QED BY <1>2, <1>3 DEF HeldNumbered, TempsNumbered, FilesOK
  <1> QED BY <1>4, <1>5, <1>6
(* No key is a temporary name, and no two Stores have one temporary file.  *)
LEMMA TempsApart ==
  ASSUME Typed, FilesOK, NEW p \in Proc, Storing(p)
  PROVE  /\ Temp(p) \notin Key
         /\ \A q \in Proc \ {p} : Storing(q) => Temp(q) # Temp(p)
  BY NamesAssumption DEF Typed, TypeOK, Shape, FilesOK, Distinct, Temp

LEMMA AgesLeave ==
  ASSUME Typed, Ages, NEW q \in Proc, NEW l \in {"idle", "dead"}, Leave(q, l),
         UNCHANGED clock,
         \A p \in Proc \ {q} : Filling(p) =>
            /\ Temp(p) \in DOMAIN files' <=> Temp(p) \in DOMAIN files
            /\ Temp(p) \in DOMAIN files' => files'[Temp(p)] = files[Temp(p)]
  PROVE  Ages'
  <1>1. /\ pc'[q] = l /\ now'[q] = 0 /\ born'[q] = 0 /\ held'[q] = {}
        /\ \A p \in Proc \ {q} :
            pc'[p] = pc[p] /\ nth'[p] = nth[p] /\ born'[p] = born[p]
            /\ now'[p] = now[p] /\ held'[p] = held[p]
        /\ UNCHANGED stores
    BY DEF Leave, Goto, Typed, TypeOK
  <1>2. 0 <= clock
    BY BoundsAssumption DEF Typed, TypeOK
  <1> QED BY <1>1, <1>2, AgesAside

LEMMA AgesReturn ==
  ASSUME Typed, FilesOK, Ages, NEW p \in Proc,
         \/ Abandon(p) \/ Mark(p) \/ Kill(p)
         \/ Return(p) /\ UNCHANGED dirVars
  PROVE  Ages'
  <1>1. CASE Abandon(p)
    <2>1. \A q \in Proc \ {p} : Filling(q) => Temp(q) # Temp(p)
      BY <1>1, TempsApart DEF Abandon, Storing, Filling
    <2> QED BY <1>1, <2>1, AgesLeave DEF Abandon, Return, Without
  <1>2. CASE Mark(p)
    <2>1. \A q \in Proc : Filling(q) => Temp(q) # key[p]
      BY <1>2, TempsApart DEF Mark, Storing, Filling, Typed, Shape
    <2>2. CASE files' = files
      BY <1>2, <2>2, AgesLeave DEF Mark, Return
    <2>3. ASSUME NEW n \in DOMAIN files \cap {key[p]},
                 files' = With(n, [id |-> files[n].id, whole |-> files[n].whole,
                                   modified |-> clock])
          PROVE  Ages'
      <3>1. \A q \in Proc : Filling(q) =>
              /\ Temp(q) \in DOMAIN files' <=> Temp(q) \in DOMAIN files
              /\ Temp(q) \in DOMAIN files' => files'[Temp(q)] = files[Temp(q)]
        BY <2>1, <2>3 DEF With
      <3> QED BY <1>2, <3>1, AgesLeave DEF Mark, Return
    <2> QED BY <1>2, <2>2, <2>3 DEF Mark
  <1>3. CASE Kill(p) \/ (Return(p) /\ UNCHANGED dirVars)
    BY <1>3, AgesLeave DEF Kill, Return, dirVars
  <1> QED BY <1>1, <1>2, <1>3

LEMMA AgesPublish ==
  ASSUME Typed, FilesOK, Ages, NEW p \in Proc, Publish(p)
  PROVE  Ages'
  <1>1. /\ key[p] \in Key
        /\ \A q \in Proc \ {p} : Filling(q) => Temp(q) # Temp(p) /\ Temp(q) \notin Key
    BY TempsApart DEF Publish, Storing, Filling, Typed, Shape
  <1>2. \A q \in Proc \ {p} : Filling(q) =>
           /\ Temp(q) \in DOMAIN files' <=> Temp(q) \in DOMAIN files
           /\ Temp(q) \in DOMAIN files' => files'[Temp(q)] = files[Temp(q)]
    BY <1>1 DEF Publish, Moved
  <1>3. /\ pc' = [pc EXCEPT ![p] = "open"]
        /\ UNCHANGED <<clock, stores, nth, now, held, born>>
    BY DEF Publish, Goto, callVars, history
  <1>4. now'[p] <= clock /\ born'[p] <= clock
    BY <1>3 DEF Ages, Monotone
  <1> QED BY <1>2, <1>3, <1>4, AgesAside DEF Typed, TypeOK

LEMMA AgesEvict ==
  ASSUME Typed, FilesOK, Ages, NEW p \in Proc, NEW f \in held[p], Evict(p, f), ~Return(p)
  PROVE  Ages'
  <1>1. /\ pc[p] = "stat" /\ files' = Without(f.name)
        /\ UNCHANGED <<clock, pc, stores, nth, now, born>>
        /\ held' = [held EXCEPT ![p] = @ \ {f}]
    BY DEF Evict, history
  <1>2. \A q \in Proc \ {p} : Filling(q) =>
            /\ Temp(q) \in DOMAIN files' =>
                 Temp(q) \in DOMAIN files /\ files'[Temp(q)] = files[Temp(q)]
            /\ Temp(q) \notin DOMAIN files' =>
                 Temp(q) \notin DOMAIN files \/ clock - born[q] >= StaleAfter
    BY <1>1 DEF Without, Ages, HeldAge
  <1>3. now'[p] <= clock /\ born'[p] <= clock
    BY <1>1 DEF Ages, Monotone
  <1> QED BY <1>1, <1>2, <1>3, AgesAside DEF Typed, TypeOK

LEMMA AgesOther ==
  ASSUME Typed, FilesOK, Ages, NEW p \in Proc, ~Return(p),
         \/ OpenLedger(p) \/ WriteRecord(p) \/ ReadLedger(p) \/ ResetLedger(p)
         \/ List(p) \/ \E k \in Key : Load(p, k)
  PROVE  Ages'
  <1>1. /\ UNCHANGED <<files, clock, stores, nth, held, born>>
        /\ now' \in {now, [now EXCEPT ![p] = clock]}
        /\ \E l \in {"write", "tally", "reset", "list", "stat", "mark"} :
              pc' = [pc EXCEPT ![p] = l]
    BY DEF OpenLedger, WriteRecord, ReadLedger, ResetLedger, List, Load, Goto,
       dirVars, callVars, history
  <1>2. now'[p] <= clock /\ born'[p] <= clock
    BY <1>1, BoundsAssumption DEF Ages, Monotone, Typed, TypeOK
  <1> QED BY <1>1, <1>2, AgesAside DEF Typed, TypeOK

LEMMA AgesTick == Typed /\ Ages /\ Tick => Ages'
  BY BoundsAssumption
  DEF Typed, TypeOK, Ages, Monotone, TempAge, HeldAge, HeldNumbered, YoungTempKept,
      Filling, Tick, Temp, callVars, history

LEMMA AgesNext == Typed /\ FilesOK /\ Ages /\ [Next]_vars => Ages'
  <1> SUFFICES ASSUME Typed, FilesOK, Ages, [Next]_vars PROVE Ages'
    OBVIOUS
  <1>1. ASSUME NEW p \in Proc, List(p) \/ ReadLedger(p) \/ PruneDone(p)
        PROVE  Ages'
    BY <1>1, AgesOther, AgesReturn DEF List, ReadLedger, PruneDone
  <1>2. ASSUME NEW p \in Proc, NEW n \in listing[p], Stat(p, n)
        PROVE  Ages'
    BY <1>2, AgesStat, AgesReturn DEF Stat
  <1>3. ASSUME NEW p \in Proc, NEW f \in held[p], Evict(p, f)
        PROVE  Ages'
    <2>1. CASE Return(p) /\ UNCHANGED files
      BY <1>3, <2>1, AgesReturn DEF Evict, dirVars
    <2>2. CASE ~Return(p)
      BY <1>3, <2>2, AgesEvict
    <2>3. Return(p) => pc' # pc
      BY <1>3 DEF Return, Leave, Goto, Evict, Typed, TypeOK
    <2> QED BY <1>3, <2>1, <2>2, <2>3 DEF Evict
  <1>4. ASSUME NEW p \in Proc,
               \/ OpenLedger(p) \/ WriteRecord(p) \/ ResetLedger(p)
               \/ \E k \in Key : Load(p, k)
        PROVE  Ages'
    <2>1. Return(p) => pc'[p] = "idle"
      BY DEF Return, Leave, Goto, Typed, TypeOK
    <2>2. pc'[p] # "idle"
      BY <1>4 DEF OpenLedger, WriteRecord, ResetLedger, Load, Goto, Typed, TypeOK
    <2> QED BY <1>4, <2>1, <2>2, AgesOther
  <1>5. CASE UNCHANGED vars
    BY <1>5 DEF vars, Ages, Monotone, TempAge, HeldAge, HeldNumbered,
       YoungTempKept, Filling, Temp
  <1> QED
    BY <1>1, <1>2, <1>3, <1>4, <1>5, AgesStore, AgesFill, AgesPublish, AgesReturn, AgesTick
    DEF Next, Begin, Continue

(* A prune takes the temporary file of a Store in progress only once that  *)
(* Store is StaleAfter old, in every interleaving of any number of         *)
(* processes, kills and faults included.                                   *)
THEOREM YoungTempsAreKept == Spec => []YoungTempKept
  <1>1. Ages => YoungTempKept
    BY DEF Ages
  <1> QED
    BY <1>1, TypedInit, TypedNext, FilesInit, FilesNext, AgesInit, AgesNext, PTL DEF Spec
-----------------------------------------------------------------------------
(* The directory implements the lossy store: every step is one of the      *)
(* store's or leaves what the store sees alone.                            *)
NoCall == [op |-> "none", key |-> None, value |-> None, done |-> FALSE]

LEMMA RefinesInit == Init => Lossy!Init
  BY DEF Init, Lossy!Init, KeptBar, CallBar, CallOf, InProgress, Lossy!NoCall

(* Removing names, or leaving the files alone, drops at most what the      *)
(* removed name kept.                                                      *)
LEMMA KeptSame ==
  ASSUME UNCHANGED files
  PROVE  KeptBar' = KeptBar
  BY DEF KeptBar

LEMMA RefinesEnd ==
  ASSUME Typed, NEW p \in Proc, NEW l \in {"idle", "dead"}, Leave(p, l), KeptBar' = KeptBar
  PROVE  Lossy!End(p)
  <1>1. CallOf(p)' = NoCall
    BY DEF CallOf, NoCall, Leave, Goto, InProgress, Typed, TypeOK
  <1>2. \A q \in Proc \ {p} : CallOf(q)' = CallOf(q)
    BY DEF CallOf, Leave, Goto, InProgress, Job, Typed, TypeOK
  <1>3. CallBar' = [CallBar EXCEPT ![p] = NoCall]
    BY <1>1, <1>2 DEF CallBar
  <1> QED BY <1>3 DEF Lossy!End, Lossy!NoCall, NoCall

LEMMA RefinesStore ==
  ASSUME Typed, FilesOK, NEW p \in Proc, NEW k \in Key, NEW s \in Size, Store(p, k, s)
  PROVE  Lossy!BeginPut(p)
  <1>1. KeptBar' = KeptBar
    <2>1. stores + 1 \notin Key
      BY NamesAssumption DEF Typed, TypeOK
    <2>2. /\ DOMAIN files' = DOMAIN files \cup {stores + 1}
          /\ \A n \in DOMAIN files \ {stores + 1} : files'[n] = files[n]
      BY DEF Store, With
    <2>3. \A j \in Key : /\ j \in DOMAIN files' <=> j \in DOMAIN files
                         /\ j \in DOMAIN files => files'[j] = files[j]
      BY <2>1, <2>2
    <2>4. ASSUME NEW j \in Key
          PROVE  (IF j \in DOMAIN files' /\ files'[j].whole THEN files'[j].id ELSE None)
               = (IF j \in DOMAIN files /\ files[j].whole THEN files[j].id ELSE None)
      <3>1. CASE j \in DOMAIN files
        <4>1. j \in DOMAIN files' /\ files'[j] = files[j]
          BY <2>3, <3>1
        <4> QED BY <3>1, <4>1
      <3>2. CASE j \notin DOMAIN files
        <4>1. j \notin DOMAIN files'
          BY <2>3, <3>2
        <4> QED BY <3>2, <4>1
      <3> QED BY <3>1, <3>2
    <2> QED BY <2>4 DEF KeptBar
  <1> USE BoundsAssumption, NamesAssumption DEF Typed, TypeOK, Store, With, Goto
  <1>2. CallBar[p] = Lossy!NoCall
    BY DEF CallBar, CallOf, InProgress, Lossy!NoCall
  <1>3. CallBar'[p] = [op |-> "put", key |-> k, done |-> FALSE,
                       value |-> [nth |-> stores + 1, key |-> k, size |-> s]]
    BY DEF CallBar, CallOf, InProgress, Job
  <1>4. CallBar'[p] \in Lossy!Puts
    BY <1>3 DEF Lossy!Puts
  <1>5. CallBar' = [CallBar EXCEPT ![p] = CallBar'[p]]
    <2>1. \A q \in Proc \ {p} : CallOf(q)' = CallOf(q)
      BY DEF CallOf, InProgress, Job
    <2> QED BY <2>1 DEF CallBar
  <1> QED BY <1>1, <1>2, <1>4, <1>5 DEF Lossy!BeginPut

LEMMA RefinesPublish ==
  ASSUME Typed, FilesOK, NEW p \in Proc, Publish(p)
  PROVE  Lossy!Put(p)
  <1> USE NamesAssumption DEF Typed, TypeOK, Publish, Moved, Goto, callVars
  <1>1. /\ key[p] \in Key /\ Temp(p) \notin Key
        /\ files[Temp(p)].id = Job(p) /\ files[Temp(p)].whole
    BY TempsApart DEF Shape, Storing, FilesOK, OwnTemp
  <1>2. KeptBar' = [KeptBar EXCEPT ![key[p]] = Job(p)]
    BY <1>1 DEF KeptBar
  <1>3. CallBar[p] = [op |-> "put", key |-> key[p], value |-> Job(p), done |-> FALSE]
    BY DEF CallBar, CallOf, InProgress
  <1>4. CallBar' = [CallBar EXCEPT ![p] =
                      [op |-> "put", key |-> key[p], value |-> Job(p), done |-> TRUE]]
    <2>1. CallOf(p)' = [op |-> "put", key |-> key[p], value |-> Job(p), done |-> TRUE]
      BY DEF CallOf, InProgress, Job
    <2>2. \A q \in Proc \ {p} : CallOf(q)' = CallOf(q)
      BY DEF CallOf, InProgress, Job
    <2> QED BY <2>1, <2>2 DEF CallBar
  <1> QED BY <1>2, <1>3, <1>4 DEF Lossy!Put

LEMMA RefinesLoad ==
  ASSUME Typed, FilesOK, NEW p \in Proc, NEW k \in Key, Load(p, k)
  PROVE  Lossy!Get(p, k)
  <1> USE DEF Typed, TypeOK, Load, Goto, dirVars
  <1>1. KeptBar' = KeptBar
    BY KeptSame
  <1>2. CallBar[p] = Lossy!NoCall
    BY DEF CallBar, CallOf, InProgress, Lossy!NoCall
  <1>3. KeptBar[k] = files[k].id /\ files[k].id \in Stored
    BY DEF KeptBar, FilesOK, EntriesWhole, Entries
  <1>4. CallBar' = [CallBar EXCEPT ![p] =
                      [op |-> "get", key |-> k, value |-> KeptBar[k], done |-> TRUE]]
    <2>1. CallOf(p)' = [op |-> "get", key |-> k, value |-> KeptBar[k], done |-> TRUE]
      BY <1>3 DEF CallOf, InProgress
    <2>2. \A q \in Proc \ {p} : CallOf(q)' = CallOf(q)
      BY DEF CallOf, InProgress, Job
    <2> QED BY <2>1, <2>2 DEF CallBar
  <1> HIDE DEF Stored
  <1>5. KeptBar[k] # None
    BY <1>3, NamesAssumption
  <1> QED BY <1>1, <1>2, <1>4, <1>5 DEF Lossy!Get

(* A step past the rename is no step of the store, but for an eviction.    *)
LEMMA CallSame ==
  ASSUME Typed, NEW p \in Proc, InProgress(p) \/ pc[p] = "fill",
         UNCHANGED <<nth, key, size, got>>,
         \/ InProgress(p) /\ \E l \in {"write", "tally", "reset", "list", "stat"} :
               pc' = [pc EXCEPT ![p] = l]
         \/ pc[p] = "fill" /\ pc' = [pc EXCEPT ![p] = "publish"]
  PROVE  CallBar' = CallBar
  BY DEF CallBar, CallOf, InProgress, Job, Typed, TypeOK

LEMMA RefinesEvict ==
  ASSUME Typed, NEW p \in Proc, NEW f \in held[p], Evict(p, f), ~Return(p)
  PROVE  UNCHANGED <<KeptBar, CallBar>> \/ \E k \in Key : Lossy!Drop(k)
  <1>1. CallBar' = CallBar
    BY DEF Evict, CallBar, CallOf, InProgress, Job
  <1>2. CASE f.name \in Key
    <2>1. KeptBar' = [KeptBar EXCEPT ![f.name] = None]
      BY <1>2 DEF Evict, Without, KeptBar
    <2> QED BY <1>1, <1>2, <2>1 DEF Lossy!Drop
  <1>3. CASE f.name \notin Key
    <2>1. KeptBar' = KeptBar
      BY <1>3 DEF Evict, Without, KeptBar
    <2> QED BY <1>1, <2>1
  <1> QED BY <1>2, <1>3
LEMMA RefinesNext ==
  ASSUME Typed, FilesOK, [Next]_vars
  PROVE  [Lossy!Next]_(Lossy!vars)
  <1> DEFINE Stutters == UNCHANGED <<KeptBar, CallBar>>
             Ends == \E p \in Proc : Lossy!End(p)
  <1>1. ASSUME NEW p \in Proc, Return(p), UNCHANGED files
        PROVE  Ends
    BY <1>1, KeptSame, RefinesEnd DEF Return
  <1>2. ASSUME NEW p \in Proc, Abandon(p)
        PROVE  Ends
    <2>1. Temp(p) \notin Key
      BY <1>2, TempsApart DEF Abandon, Storing
    <2>2. KeptBar' = KeptBar
      BY <1>2, <2>1 DEF Abandon, Without, KeptBar
    <2> QED BY <1>2, <2>2, RefinesEnd DEF Abandon, Return
  <1>3. ASSUME NEW p \in Proc, Mark(p)
        PROVE  Ends
    <2>1. ASSUME NEW n \in DOMAIN files \cap {key[p]},
                 files' = With(n, [id |-> files[n].id, whole |-> files[n].whole,
                                   modified |-> clock])
          PROVE  KeptBar' = KeptBar
      BY <2>1 DEF With, KeptBar
    <2>2. KeptBar' = KeptBar
      BY <1>3, <2>1, KeptSame DEF Mark
    <2> QED BY <1>3, <2>2, RefinesEnd DEF Mark, Return
  <1>4. ASSUME NEW p \in Proc, Kill(p)
        PROVE  Ends
    BY <1>4, KeptSame, RefinesEnd DEF Kill, dirVars
  <1>5. ASSUME NEW p \in Proc, Fill(p)
        PROVE  Stutters
    <2>1. Temp(p) \notin Key
      BY <1>5, TempsApart DEF Fill, Storing
    <2>2. KeptBar' = KeptBar
      BY <1>5, <2>1 DEF Fill, With, KeptBar
    <2>3. CallBar' = CallBar
      BY <1>5, CallSame DEF Fill, Goto, callVars
    <2> QED BY <2>2, <2>3
  <1>6. ASSUME NEW p \in Proc, OpenLedger(p) \/ WriteRecord(p) \/ ResetLedger(p)
        PROVE  Stutters
    <2>1. CallBar' = CallBar
      BY <1>6, CallSame DEF OpenLedger, WriteRecord, ResetLedger, Goto, InProgress
    <2> QED BY <1>6, <2>1, KeptSame DEF OpenLedger, WriteRecord, ResetLedger
  <1>7. ASSUME NEW p \in Proc, ReadLedger(p) \/ List(p)
        PROVE  Stutters \/ Ends
    <2>1. CASE ~Return(p)
      <3>1. CallBar' = CallBar
        BY <1>7, <2>1, CallSame DEF ReadLedger, List, Goto, InProgress, callVars
      <3> QED BY <1>7, <3>1, KeptSame DEF ReadLedger, List, dirVars
    <2> QED BY <1>1, <1>7, <2>1 DEF ReadLedger, List, dirVars
  <1>8. ASSUME NEW p \in Proc, NEW n \in listing[p], Stat(p, n)
        PROVE  Stutters \/ Ends
    <2>1. CASE ~Return(p)
      <3>1. pc[p] = "stat" /\ pc' = [pc EXCEPT ![p] = "stat"]
        BY <1>8, <2>1 DEF Stat, Typed, TypeOK
      <3>2. CallBar' = CallBar
        BY <1>8, <2>1, <3>1, CallSame DEF Stat, InProgress
      <3> QED BY <1>8, <3>2, KeptSame DEF Stat, dirVars
    <2> QED BY <1>1, <1>8, <2>1 DEF Stat, dirVars
  <1>9. ASSUME NEW p \in Proc, NEW f \in held[p], Evict(p, f)
        PROVE  Stutters \/ Ends \/ \E k \in Key : Lossy!Drop(k)
    <2>1. CASE Return(p) /\ UNCHANGED files
      BY <1>1, <2>1
    <2>2. CASE ~Return(p)
      BY <1>9, <2>2, RefinesEvict
    <2>3. Return(p) => pc' # pc
      BY <1>9 DEF Return, Leave, Goto, Evict, Typed, TypeOK
    <2> QED BY <1>9, <2>1, <2>2, <2>3 DEF Evict
  <1>10. ASSUME NEW p \in Proc, PruneDone(p)
         PROVE  Ends
    BY <1>1, <1>10 DEF PruneDone, dirVars
  <1>11. Tick \/ UNCHANGED vars => Stutters
    BY DEF Tick, vars, callVars, KeptBar, CallBar, CallOf, InProgress, Job
  <1>12. Stutters => UNCHANGED Lossy!vars
    BY DEF Lossy!vars
  <1>13. Ends \/ (\E k \in Key : Lossy!Drop(k)) => Lossy!Next
    BY DEF Lossy!Next
  <1>14. ASSUME NEW p \in Proc, Begin(p) \/ Publish(p)
         PROVE  Lossy!Next
    BY <1>14, RefinesStore, RefinesLoad, RefinesPublish DEF Begin, Lossy!Next
  <1> HIDE DEF Stutters, Ends
  <1>15. ASSUME NEW p \in Proc, Continue(p)
         PROVE  Lossy!Next \/ Stutters
    BY <1>2, <1>3, <1>5, <1>6, <1>7, <1>8, <1>9, <1>10, <1>13, <1>14, <1>15 DEF Continue
  <1> QED BY <1>4, <1>11, <1>12, <1>13, <1>14, <1>15 DEF Next

(* The directory implements the lossy store: a Store takes effect once, at *)
(* its rename, a failed one never, a Load answers with what its key holds, *)
(* and prunes, kills and faults only lose entries.                         *)
THEOREM ImplementsLossyStore == Spec => IsLossyStore
  <1>1. Typed /\ FilesOK /\ [Next]_vars => [Lossy!Next]_(Lossy!vars)
    BY RefinesNext
  <1> QED
    BY <1>1, TypedInit, TypedNext, FilesInit, FilesNext, RefinesInit, PTL
    DEF Spec, IsLossyStore, Lossy!Spec

-----------------------------------------------------------------------------
(***************************************************************************)
(* Proofs of the bounds CacheDir keeps, for any processes, keys, sizes and *)
(* limits: a prune that ran to its end leaves no more than the limit of    *)
(* what it sized, a quiet directory passes the limit by an eighth at most, *)
(* and with one process at work no prune removes the entry used last.      *)
(*                                                                         *)
(* The bounds are sums over sets, so the module first proves what the sum  *)
(* of a finite set is, by taking a smallest set that would refute it.      *)
(***************************************************************************)

(* A nonempty collection of subsets of a finite set has a smallest one.    *)
LEMMA SmallestSet ==
  ASSUME NEW S, IsFiniteSet(S), NEW C, C \subseteq SUBSET S, C # {}
  PROVE  \E t \in C : \A u \in C : ~(u \subseteq t /\ u # t)
  <1>1. IsWellFoundedOn(StrictSubsetOrdering(S), SUBSET S)
    BY FS_StrictSubsetOrderingWellFounded, FS_FiniteSubsetsOfFinite
  <1>2. PICK t \in C : \A u \in C : <<u, t>> \notin StrictSubsetOrdering(S)
    BY <1>1, WFMin
  <1>3. ASSUME NEW u \in C, u \subseteq t, u # t PROVE FALSE
    <2>1. <<u, t>> \in StrictSubsetOrdering(S)
      BY <1>3 DEF StrictSubsetOrdering
    <2> QED BY <1>2, <1>3, <2>1
  <1> QED BY <1>3

(* The recursion Bytes is defined by.                                      *)
Pick(s) == CHOOSE x \in s : TRUE
IsSum(S, g) ==
    g = [s \in SUBSET S |-> IF s = {} THEN 0 ELSE Pick(s).size + g[s \ {Pick(s)}]]

LEMMA BytesChosen ==
  ASSUME NEW S
  PROVE  Bytes(S) = (CHOOSE g : IsSum(S, g))[S]
  BY DEF Bytes, MapThenSumSet, MapThenFoldSet, IsSum, Pick

LEMMA TotalIsBytes ==
  ASSUME NEW S
  PROVE  Total(S) = Bytes(S)
  BY DEF Bytes, Total

LEMMA PickIn ==
  ASSUME NEW s, s # {}
  PROVE  Pick(s) \in s
  BY DEF Pick

LEMMA SumAt ==
  ASSUME NEW S, NEW g, IsSum(S, g), NEW t \in SUBSET S
  PROVE  g[t] = IF t = {} THEN 0 ELSE Pick(t).size + g[t \ {Pick(t)}]
  <1> DEFINE F == [s \in SUBSET S |-> IF s = {} THEN 0 ELSE Pick(s).size + g[s \ {Pick(s)}]]
  <1>1. g = F
    BY DEF IsSum
  <1>2. F[t] = IF t = {} THEN 0 ELSE Pick(t).size + g[t \ {Pick(t)}]
    OBVIOUS
  <1> HIDE DEF F
  <1> QED BY <1>1, <1>2

(* No two functions satisfy the recursion, and one for a set gives one for *)
(* each of its subsets.                                                    *)
LEMMA SumUnique ==
  ASSUME NEW S, IsFiniteSet(S), NEW g, NEW h, IsSum(S, g), IsSum(S, h),
         NEW t \in SUBSET S
  PROVE  g[t] = h[t]
  <1> DEFINE C == {u \in SUBSET S : g[u] # h[u]}
  <1> SUFFICES ASSUME C # {} PROVE FALSE
    OBVIOUS
  <1>1. PICK u \in C : \A v \in C : ~(v \subseteq u /\ v # u)
    <2>1. C \subseteq SUBSET S
      OBVIOUS
    <2> HIDE DEF C
    <2> QED BY <2>1, SmallestSet
  <1>2. u # {}
    BY SumAt
  <1>3. u \ {Pick(u)} \in SUBSET S /\ u \ {Pick(u)} \notin C
    BY <1>1, <1>2, PickIn
  <1>4. g[u \ {Pick(u)}] = h[u \ {Pick(u)}]
    BY <1>3
  <1> QED BY <1>2, <1>4, SumAt

LEMMA SumWithin ==
  ASSUME NEW S, NEW g, IsSum(S, g), NEW T \in SUBSET S
  PROVE  IsSum(T, [t \in SUBSET T |-> g[t]])
  <1> DEFINE G == [t \in SUBSET T |-> g[t]]
             F == [s \in SUBSET T |-> IF s = {} THEN 0 ELSE Pick(s).size + G[s \ {Pick(s)}]]
  <1>1. ASSUME NEW s \in SUBSET T PROVE G[s] = F[s]
    <2>1. s \in SUBSET S /\ s \ {Pick(s)} \in SUBSET T
      OBVIOUS
    <2>2. G[s \ {Pick(s)}] = g[s \ {Pick(s)}]
      BY <2>1
    <2> QED BY <2>1, <2>2, SumAt
  <1>2. G = F
    BY <1>1
  <1> QED BY <1>2 DEF IsSum

(* Where the recursion has a solution, Bytes follows it.                   *)
LEMMA SumStep ==
  ASSUME NEW S, IsFiniteSet(S), NEW g, IsSum(S, g)
  PROVE  /\ Bytes(S) = g[S]
         /\ \A T \in SUBSET S : Bytes(T) = g[T]
  <1>1. ASSUME NEW T \in SUBSET S PROVE Bytes(T) = g[T]
    <2> DEFINE G == [t \in SUBSET T |-> g[t]]
               h == CHOOSE f : IsSum(T, f)
    <2>1. IsSum(T, G) /\ IsFiniteSet(T)
      BY SumWithin, FS_Subset
    <2>2. IsSum(T, h)
      BY <2>1
    <2>3. Bytes(T) = h[T]
      BY BytesChosen
    <2> HIDE DEF h
    <2>4. h[T] = G[T]
      BY <2>1, <2>2, SumUnique
    <2> QED BY <2>3, <2>4
  <1> QED BY <1>1

LEMMA SumExists ==
  ASSUME NEW S, IsFiniteSet(S)
  PROVE  \E g : IsSum(S, g)
  <1> DEFINE C == {t \in SUBSET S : ~\E g : IsSum(t, g)}
  <1> SUFFICES ASSUME C # {} PROVE FALSE
    OBVIOUS
  <1>1. PICK t \in C : \A u \in C : ~(u \subseteq t /\ u # t)
    <2>1. C \subseteq SUBSET S
      OBVIOUS
    <2> HIDE DEF C
    <2> QED BY <2>1, SmallestSet
  <1>2. ASSUME NEW u \in SUBSET t, u # t
        PROVE  Bytes(u) = IF u = {} THEN 0 ELSE Pick(u).size + Bytes(u \ {Pick(u)})
    <2>1. PICK g : IsSum(u, g)
      BY <1>1, <1>2
    <2>2. IsFiniteSet(u)
      BY FS_Subset
    <2>3. \A v \in SUBSET u : Bytes(v) = g[v]
      BY <2>1, <2>2, SumStep
    <2>4. g[u] = IF u = {} THEN 0 ELSE Pick(u).size + g[u \ {Pick(u)}]
      BY <2>1, SumAt
    <2>5. u \in SUBSET u /\ u \ {Pick(u)} \in SUBSET u
      OBVIOUS
    <2> QED BY <2>3, <2>4, <2>5
  <1> DEFINE G == [u \in SUBSET t |->
                     IF u = t THEN IF t = {} THEN 0 ELSE Pick(t).size + Bytes(t \ {Pick(t)})
                              ELSE Bytes(u)]
             F == [u \in SUBSET t |-> IF u = {} THEN 0 ELSE Pick(u).size + G[u \ {Pick(u)}]]
  <1>3. ASSUME NEW u \in SUBSET t PROVE G[u] = F[u]
    <2>1. CASE u = {}
      BY <1>2, <2>1
    <2>2. CASE u # {}
      <3>1. u \ {Pick(u)} \in SUBSET t /\ u \ {Pick(u)} # t
        BY <2>2, PickIn
      <3>2. G[u \ {Pick(u)}] = Bytes(u \ {Pick(u)})
        BY <3>1
      <3> QED BY <1>2, <2>2, <3>2
    <2> QED BY <2>1, <2>2
  <1>4. G = F
    BY <1>3
  <1>5. IsSum(t, G)
    BY <1>4 DEF IsSum
  <1> HIDE DEF G
  <1> QED BY <1>5

LEMMA BytesNone == Bytes({}) = 0
  <1>1. PICK g : IsSum({}, g)
    BY SumExists, FS_EmptySet
  <1> QED BY <1>1, SumAt, SumStep, FS_EmptySet

LEMMA BytesPick ==
  ASSUME NEW S, IsFiniteSet(S), S # {}
  PROVE  Bytes(S) = Pick(S).size + Bytes(S \ {Pick(S)})
  <1>1. PICK g : IsSum(S, g)
    BY SumExists
  <1>2. g[S] = Pick(S).size + g[S \ {Pick(S)}]
    BY <1>1, SumAt
  <1>3. S \ {Pick(S)} \in SUBSET S
    OBVIOUS
  <1> QED BY <1>1, <1>2, <1>3, SumStep
-----------------------------------------------------------------------------
(* What is measured has a size.                                            *)
Measured(S) == IsFiniteSet(S) /\ \A e \in S : e.size \in Nat

LEMMA MeasuredWithin ==
  ASSUME NEW S, Measured(S), NEW T \in SUBSET S
  PROVE  Measured(T)
  BY FS_Subset DEF Measured

LEMMA BytesNat ==
  ASSUME NEW S, Measured(S)
  PROVE  Bytes(S) \in Nat
  <1> DEFINE C == {t \in SUBSET S : Bytes(t) \notin Nat}
  <1> SUFFICES ASSUME C # {} PROVE FALSE
    OBVIOUS
  <1>1. PICK t \in C : \A u \in C : ~(u \subseteq t /\ u # t)
    <2>1. C \subseteq SUBSET S
      OBVIOUS
    <2> HIDE DEF C
    <2> QED BY <2>1, SmallestSet DEF Measured
  <1>2. t # {}
    BY BytesNone
  <1>3. t \ {Pick(t)} \in SUBSET S /\ Bytes(t \ {Pick(t)}) \in Nat /\ Pick(t) \in S
    BY <1>1, <1>2, PickIn
  <1>4. Bytes(t) = Pick(t).size + Bytes(t \ {Pick(t)})
    BY <1>2, BytesPick, MeasuredWithin DEF Measured
  <1> QED BY <1>3, <1>4 DEF Measured

(* The order of the sum does not matter.                                   *)
LEMMA BytesLess ==
  ASSUME NEW S, Measured(S), NEW x \in S
  PROVE  Bytes(S) = x.size + Bytes(S \ {x})
  <1> DEFINE C == {t \in SUBSET S : \E y \in t : Bytes(t) # y.size + Bytes(t \ {y})}
  <1> SUFFICES ASSUME C # {} PROVE FALSE
    OBVIOUS
  <1>1. PICK t \in C : \A u \in C : ~(u \subseteq t /\ u # t)
    <2>1. C \subseteq SUBSET S
      OBVIOUS
    <2> HIDE DEF C
    <2> QED BY <2>1, SmallestSet DEF Measured
  <1>2. PICK y \in t : Bytes(t) # y.size + Bytes(t \ {y})
    OBVIOUS
  <1> DEFINE z == Pick(t)
  <1>3. z \in t
    BY <1>2, PickIn
  <1>4. Bytes(t) = z.size + Bytes(t \ {z})
    BY <1>2, BytesPick, MeasuredWithin DEF Measured
  <1> HIDE DEF z
  <1>5. y # z
    BY <1>2, <1>4
  <1>6. Bytes(t \ {z}) = y.size + Bytes((t \ {z}) \ {y})
    <2>1. t \ {z} \in SUBSET S /\ t \ {z} \notin C /\ y \in t \ {z}
      BY <1>1, <1>3, <1>5
    <2> QED BY <2>1
  <1>7. Bytes(t \ {y}) = z.size + Bytes((t \ {y}) \ {z})
    <2>1. t \ {y} \in SUBSET S /\ t \ {y} \notin C /\ z \in t \ {y}
      BY <1>1, <1>3, <1>5
    <2> QED BY <2>1
  <1>8. (t \ {y}) \ {z} = (t \ {z}) \ {y}
    OBVIOUS
  <1>9. /\ Bytes((t \ {z}) \ {y}) \in Nat
        /\ y.size \in Nat /\ z.size \in Nat
    BY <1>3, BytesNat, MeasuredWithin DEF Measured
  <1> QED BY <1>2, <1>4, <1>6, <1>7, <1>8, <1>9

LEMMA BytesMore ==
  ASSUME NEW S, Measured(S), NEW x, x.size \in Nat, x \notin S
  PROVE  Measured(S \cup {x}) /\ Bytes(S \cup {x}) = x.size + Bytes(S)
  <1>1. Measured(S \cup {x})
    BY FS_AddElement DEF Measured
  <1>2. (S \cup {x}) \ {x} = S
    OBVIOUS
  <1> QED BY <1>1, <1>2, BytesLess

(* Sets that do not meet add up, a subset sums to no more, and a union to  *)
(* no more than its parts.                                                 *)
LEMMA BytesApart ==
  ASSUME NEW S, Measured(S), NEW T, Measured(T), S \cap T = {}
  PROVE  Bytes(S \cup T) = Bytes(S) + Bytes(T)
  <1> DEFINE C == {t \in SUBSET T : Bytes(S \cup t) # Bytes(S) + Bytes(t)}
  <1> SUFFICES ASSUME C # {} PROVE FALSE
    OBVIOUS
  <1>1. PICK t \in C : \A u \in C : ~(u \subseteq t /\ u # t)
    <2>1. C \subseteq SUBSET T
      OBVIOUS
    <2> HIDE DEF C
    <2> QED BY <2>1, SmallestSet DEF Measured
  <1>2. t # {}
    <2>1. S \cup {} = S
      OBVIOUS
    <2> QED BY <2>1, BytesNone, BytesNat
  <1>3. PICK x \in t : TRUE
    BY <1>2
  <1>4. Bytes(S \cup (t \ {x})) = Bytes(S) + Bytes(t \ {x})
    <2>1. t \ {x} \in SUBSET T /\ t \ {x} \notin C
      BY <1>1
    <2> QED BY <2>1
  <1>5. Measured(S \cup (t \ {x})) /\ Measured(t) /\ Measured(t \ {x})
    BY FS_Union, MeasuredWithin DEF Measured
  <1>6. Bytes(t) = x.size + Bytes(t \ {x})
    BY <1>5, BytesLess
  <1>7. Bytes((S \cup (t \ {x})) \cup {x}) = x.size + Bytes(S \cup (t \ {x}))
    <2>1. x \notin S \cup (t \ {x}) /\ x.size \in Nat
      BY DEF Measured
    <2> QED BY <1>5, <2>1, BytesMore
  <1>8. (S \cup (t \ {x})) \cup {x} = S \cup t
    OBVIOUS
  <1>9. x.size \in Nat /\ Bytes(S) \in Nat /\ Bytes(t \ {x}) \in Nat
    BY <1>5, BytesNat DEF Measured
  <1> QED BY <1>4, <1>6, <1>7, <1>8, <1>9

LEMMA BytesWithin ==
  ASSUME NEW S, Measured(S), NEW T \in SUBSET S
  PROVE  Bytes(T) <= Bytes(S)
  <1>1. Measured(T) /\ Measured(S \ T)
    BY MeasuredWithin
  <1>2. T \cup (S \ T) = S /\ T \cap (S \ T) = {}
    OBVIOUS
  <1>3. Bytes(S) = Bytes(T) + Bytes(S \ T)
    BY <1>1, <1>2, BytesApart
  <1> QED BY <1>1, <1>3, BytesNat

LEMMA BytesUnion ==
  ASSUME NEW S, Measured(S), NEW T, Measured(T)
  PROVE  Bytes(S \cup T) <= Bytes(S) + Bytes(T)
  <1>1. Measured(T \ S) /\ S \cap (T \ S) = {} /\ S \cup T = S \cup (T \ S)
    BY MeasuredWithin
  <1>2. Bytes(S \cup T) = Bytes(S) + Bytes(T \ S)
    BY <1>1, BytesApart
  <1>3. Bytes(T \ S) <= Bytes(T)
    BY BytesWithin
  <1> QED BY <1>1, <1>2, <1>3, BytesNat

(* A set whose members have counterparts of their sizes in another, no two *)
(* the same, sums to no more than that.                                    *)
LEMMA BytesMatched ==
  ASSUME NEW S, NEW T, Measured(T), NEW m \in [S -> T],
         \A x \in S : x.size = m[x].size,
         \A x, y \in S : m[x] = m[y] => x = y
  PROVE  Measured(S) /\ Bytes(S) <= Bytes(T)
  <1>1. Measured(S)
    <2>1. m \in Injection(S, T)
      BY DEF Injection, IsInjective
    <2>2. IsFiniteSet(S)
      BY <2>1, FS_Injection DEF Measured
    <2> QED BY <2>2 DEF Measured
  <1> DEFINE Image(t) == {m[x] : x \in t}
             C == {t \in SUBSET S : Bytes(t) # Bytes(Image(t))}
  <1>2. ASSUME C # {} PROVE FALSE
    <2>1. PICK t \in C : \A u \in C : ~(u \subseteq t /\ u # t)
      <3>1. C \subseteq SUBSET S
        OBVIOUS
      <3> HIDE DEF C
      <3> QED BY <1>1, <1>2,  <3>1, SmallestSet DEF Measured
    <2>2. t # {}
      <3>1. Image({}) = {}
        OBVIOUS
      <3> QED BY <3>1
    <2>3. PICK x \in t : TRUE
      BY <2>2
    <2>4. Bytes(t \ {x}) = Bytes(Image(t \ {x}))
      <3>1. t \ {x} \in SUBSET S /\ t \ {x} \notin C
        BY <2>1
      <3> QED BY <3>1
    <2>5. Bytes(t) = x.size + Bytes(t \ {x})
      BY <1>1, MeasuredWithin, BytesLess
    <2>6. Image(t) \in SUBSET T /\ m[x] \in Image(t) /\ Image(t) \ {m[x]} = Image(t \ {x})
      OBVIOUS
    <2> HIDE DEF Image
    <2>7. Bytes(Image(t)) = m[x].size + Bytes(Image(t \ {x}))
      BY <2>6, MeasuredWithin, BytesLess
    <2> QED BY <2>4, <2>5, <2>7
  <1>3. S \notin C /\ Image(S) \in SUBSET T
    <2>1. Image(S) \in SUBSET T
      OBVIOUS
    <2> HIDE DEF C
    <2> QED BY <1>2, <2>1
  <1>4. Bytes(S) = Bytes(Image(S))
    BY <1>3
  <1> HIDE DEF Image
  <1> QED BY <1>1, <1>3, <1>4, BytesWithin
-----------------------------------------------------------------------------
(* The directory and what is known of it stay finite.                      *)
Present == {files[k].id : k \in Entries}
FiniteOK ==
    /\ IsFiniteSet(DOMAIN files)
    /\ \A p \in Proc : IsFiniteSet(held[p])
    /\ ledger # None => IsFiniteSet(ledger.noted)

(* A Store that has not renamed has an ordinal no entry and nothing sized  *)
(* bears, so what a rename brings in was not sized before it.              *)
Fresh ==
    /\ \A p \in Proc : Filling(p) =>
         /\ \A e \in swept : e.nth # nth[p]
         /\ \A k \in Entries : files[k].id.nth # nth[p]
    /\ \A e \in swept : e.nth <= stores
    /\ \A n \in DOMAIN files : files[n].id.nth <= stores

(* While the sweeper sizes and removes, it holds every entry that is there *)
(* and that it has sized, at the size the entry has.                       *)
Sweeping ==
    /\ sweeper = None => swept = {}
    /\ \A p \in Proc : p = sweeper /\ pc[p] = "list" => swept = {}
    /\ \A p \in Proc : p = sweeper /\ pc[p] = "stat" =>
        \A k \in Entries : files[k].id \in swept =>
            \E h \in held[p] : h.name = k /\ h.size = files[k].id.size

SweepInv == FiniteOK /\ Fresh /\ Sweeping /\ SweepFits

LEMMA SweepInit == Init => SweepInv
  BY FS_EmptySet, BytesNone, BoundsAssumption, NamesAssumption
  DEF Init, SweepInv, FiniteOK, Fresh, Sweeping, SweepFits, Entries, Filling
-----------------------------------------------------------------------------
LEMMA FiniteKept ==
  ASSUME FiniteOK, NEW n,
         \/ files' = files
         \/ DOMAIN files' \subseteq DOMAIN files \cup {n}
  PROVE  IsFiniteSet(DOMAIN files')
  <1>1. IsFiniteSet(DOMAIN files \cup {n})
    BY FS_AddElement DEF FiniteOK
  <1> QED BY <1>1, FS_Subset DEF FiniteOK

LEMMA FiniteLeave ==
  ASSUME Typed, FiniteOK, NEW p \in Proc, NEW l, Leave(p, l), UNCHANGED ledger,
         IsFiniteSet(DOMAIN files')
  PROVE  FiniteOK'
  <1>1. \A q \in Proc : held'[q] = held[q] \/ held'[q] = {}
    BY DEF Leave, Typed, TypeOK
  <1> QED BY <1>1, FS_EmptySet DEF FiniteOK

LEMMA FiniteFiles ==
  ASSUME Typed, FiniteOK, NEW p \in Proc,
         \/ \E k \in Key, s \in Size : Store(p, k, s)
         \/ Fill(p) \/ Publish(p) \/ Abandon(p) \/ Mark(p)
  PROVE  FiniteOK'
  <1>1. \E n : DOMAIN files' \subseteq DOMAIN files \cup {n}
    <2>1. ASSUME NEW k \in Key, NEW s \in Size, Store(p, k, s)
          PROVE  DOMAIN files' \subseteq DOMAIN files \cup {stores + 1}
      BY <2>1 DEF Store, With
    <2>2. CASE Fill(p)
      BY <2>2 DEF Fill, With
    <2>3. CASE Publish(p)
      BY <2>3 DEF Publish, Moved
    <2>4. CASE Abandon(p)
      BY <2>4 DEF Abandon, Without
    <2>5. CASE Mark(p)
      <3>1. DOMAIN files' \subseteq DOMAIN files \cup {key[p]}
        BY <2>5 DEF Mark, With
      <3> QED BY <3>1
    <2> QED BY <2>1, <2>2, <2>3, <2>4, <2>5
  <1>2. IsFiniteSet(DOMAIN files')
    BY <1>1, FiniteKept
  <1>3. CASE Abandon(p) \/ Mark(p)
    BY <1>2, <1>3, FiniteLeave DEF Abandon, Mark, Return
  <1>4. CASE (\E k \in Key, s \in Size : Store(p, k, s)) \/ Fill(p) \/ Publish(p)
    <2>1. UNCHANGED <<held, ledger>>
      BY <1>4 DEF Store, Fill, Publish, callVars
    <2> QED BY <1>2, <2>1 DEF FiniteOK
  <1> QED BY <1>3, <1>4

LEMMA FiniteLedger ==
  ASSUME Typed, FiniteOK, NEW p \in Proc,
         OpenLedger(p) \/ WriteRecord(p) \/ ReadLedger(p) \/ ResetLedger(p)
  PROVE  FiniteOK'
  <1>1. CASE OpenLedger(p)
    <2>1. ledger' = ledger \/ ledger' = EmptyLedger
      BY <1>1 DEF OpenLedger
    <2>2. IsFiniteSet(EmptyLedger.noted)
      BY FS_EmptySet DEF EmptyLedger
    <2> QED BY <1>1, <2>1, <2>2 DEF OpenLedger, FiniteOK
  <1>2. CASE WriteRecord(p)
    <2>1. UNCHANGED <<files, held>>
      BY <1>2 DEF WriteRecord
    <2>2. CASE fd[p] = "live"
      <3>1. ledger # None
        BY <2>2 DEF Typed, Shape
      <3>2. IsFiniteSet(ledger.noted \cup {Job(p)}) /\ IsFiniteSet(ledger.noted)
        BY <3>1, FS_AddElement DEF FiniteOK
      <3>3. Recorded(p).noted = ledger.noted \cup {Job(p)} /\ Torn(p).noted = ledger.noted
        BY <2>2 DEF Recorded, Torn
      <3>4. ledger' \in {Recorded(p), Torn(p), ledger}
        BY <1>2 DEF WriteRecord
      <3>5. IsFiniteSet(ledger'.noted)
        BY <3>2, <3>3, <3>4
      <3> QED BY <2>1, <3>5 DEF FiniteOK
    <2>3. CASE fd[p] # "live"
      <3>1. ledger' = ledger
        BY <1>2, <2>3 DEF WriteRecord, Recorded, Torn
      <3> QED BY <2>1, <3>1 DEF FiniteOK
    <2> QED BY <2>2, <2>3
  <1>3. CASE ReadLedger(p)
    <2>1. CASE Return(p)
      BY <1>3, <2>1, FiniteLeave DEF ReadLedger, dirVars, Return, FiniteOK
    <2>2. CASE UNCHANGED callVars
      BY <1>3, <2>2 DEF ReadLedger, dirVars, callVars, FiniteOK
    <2> QED BY <1>3, <2>1, <2>2 DEF ReadLedger
  <1>4. CASE ResetLedger(p)
    BY <1>4 DEF ResetLedger, FiniteOK
  <1> QED BY <1>1, <1>2, <1>3, <1>4

LEMMA FinitePrune ==
  ASSUME Typed, FiniteOK, NEW p \in Proc,
         \/ List(p) \/ PruneDone(p) \/ Kill(p)
         \/ \E n \in listing[p] : Stat(p, n)
         \/ \E f \in held[p] : Evict(p, f)
         \/ \E k \in Key : Load(p, k)
  PROVE  FiniteOK'
  <1>1. ASSUME NEW l, Leave(p, l), UNCHANGED <<files, ledger>> PROVE FiniteOK'
    BY <1>1, FiniteLeave DEF FiniteOK
  <1>2. CASE List(p) \/ PruneDone(p) \/ Kill(p) \/ \E k \in Key : Load(p, k)
    <2>1. CASE UNCHANGED <<files, ledger, held>>
      BY <2>1 DEF FiniteOK
    <2>2. CASE ~UNCHANGED <<files, ledger, held>>
      BY <1>1, <1>2, <2>2 DEF List, PruneDone, Kill, Load, Return, dirVars
    <2> QED BY <2>1, <2>2
  <1>3. ASSUME NEW n \in listing[p], Stat(p, n) PROVE FiniteOK'
    <2>1. UNCHANGED <<files, ledger>>
      BY <1>3 DEF Stat, dirVars
    <2>2. CASE Return(p)
      BY <1>1, <2>1, <2>2 DEF Return
    <2>3. CASE \E h \in Sized(p, n) : held' = [held EXCEPT ![p] = @ \cup h]
      <3>1. PICK h \in Sized(p, n) : held' = [held EXCEPT ![p] = @ \cup h]
        BY <2>3
      <3>2. h = {} \/ \E x : h = {x}
        BY DEF Sized
      <3>3. IsFiniteSet(h)
        BY <3>2, FS_EmptySet, FS_Singleton
      <3>4. IsFiniteSet(held[p] \cup h)
        BY <3>3, FS_Union DEF FiniteOK
      <3> QED BY <2>1, <3>1, <3>4 DEF FiniteOK, Typed, TypeOK
    <2> QED BY <1>3, <2>2, <2>3 DEF Stat
  <1>4. ASSUME NEW f \in held[p], Evict(p, f) PROVE FiniteOK'
    <2>1. CASE Return(p) /\ UNCHANGED files
      BY <1>1, <1>4, <2>1 DEF Return, Evict
    <2>2. CASE files' = Without(f.name) /\ held' = [held EXCEPT ![p] = @ \ {f}]
      <3>1. IsFiniteSet(DOMAIN files')
        BY <2>2, FS_Subset DEF Without, FiniteOK
      <3>2. IsFiniteSet(held[p] \ {f})
        BY FS_RemoveElement DEF FiniteOK
      <3> QED BY <1>4, <2>2, <3>1, <3>2 DEF FiniteOK, Typed, TypeOK, Evict
    <2> QED BY <1>4, <2>1, <2>2 DEF Evict
  <1> QED BY <1>2, <1>3, <1>4

LEMMA FiniteNext == Typed /\ FiniteOK /\ [Next]_vars => FiniteOK'
  <1>1. CASE Tick \/ UNCHANGED vars
    BY <1>1 DEF Tick, vars, callVars, FiniteOK
  <1> QED
    BY <1>1, FiniteFiles, FiniteLedger, FinitePrune DEF Next, Begin, Continue
-----------------------------------------------------------------------------
(* A step that renames nothing and begins no Store keeps the ordinals      *)
(* apart.                                                                  *)
LEMMA FreshAside ==
  ASSUME Typed, Fresh, KeepsIds, stores' = stores,
         swept' \subseteq swept \cup Present,
         \A p \in Proc : Filling(p)' => Filling(p) /\ nth'[p] = nth[p]
  PROVE  Fresh'
  <1>1. Entries' \subseteq Entries /\ \A k \in Entries' : files'[k].id = files[k].id
    BY DEF KeepsIds, Entries
  <1>2. \A e \in swept' : e \in swept \/ \E k \in Entries : e = files[k].id
    BY DEF Present
  <1>3. \A k \in Entries : k \in DOMAIN files
    BY DEF Entries
  <1> QED BY <1>1, <1>2, <1>3 DEF Fresh, KeepsIds

LEMMA FreshStore ==
  ASSUME Typed, Fresh, NEW p \in Proc, NEW k \in Key, NEW s \in Size, Store(p, k, s)
  PROVE  Fresh'
  <1> USE BoundsAssumption, NamesAssumption
      DEF Typed, TypeOK, Store, With, Goto, File, Stored
  <1>1. stores + 1 \in Nat /\ stores + 1 \notin Key
    OBVIOUS
  <1>2. Entries' = Entries /\ \A j \in Entries : files'[j] = files[j] /\ j \in DOMAIN files
    BY <1>1 DEF Entries
  <1>3. \A n \in DOMAIN files' : files'[n].id.nth <= stores'
    BY <1>1 DEF Fresh
  <1>4. \A e \in swept' : e.nth <= stores'
    BY DEF Fresh
  <1>5. /\ \A e \in swept : e.nth \in Nat /\ e.nth <= stores
        /\ \A j \in Entries : files[j].id.nth \in Nat /\ files[j].id.nth <= stores
    BY <1>2 DEF Fresh
  <1>6. /\ swept' = swept /\ stores \in Nat
        /\ nth'[p] = stores + 1
        /\ \A q \in Proc \ {p} : nth'[q] = nth[q] /\ pc'[q] = pc[q]
    OBVIOUS
  <1>7. ASSUME NEW q \in Proc, Filling(q)'
        PROVE  /\ \A e \in swept : e.nth # nth'[q]
               /\ \A j \in Entries : files[j].id.nth # nth'[q]
    <2> HIDE DEF Typed, TypeOK, Store, With, Goto, File, Stored
    <2>1. CASE q = p
      BY <1>5, <1>6, <2>1
    <2>2. CASE q # p
      BY <1>6, <1>7, <2>2 DEF Fresh, Filling
    <2> QED BY <2>1, <2>2
  <1> HIDE DEF Typed, TypeOK, Store, With, Goto, File, Stored
  <1> QED BY <1>2, <1>3, <1>4, <1>6, <1>7 DEF Fresh

(* What a Publish moves over the entry.                                    *)
LEMMA Moving ==
  ASSUME Typed, FilesOK, NEW p \in Proc, Publish(p)
  PROVE  /\ key[p] \in Key /\ Temp(p) \in DOMAIN files /\ Temp(p) \notin Key
         /\ files[Temp(p)].id = Job(p)
         /\ DOMAIN files' = (DOMAIN files \ {Temp(p)}) \cup {key[p]}
         /\ files'[key[p]].id = Job(p)
         /\ \A n \in DOMAIN files' \ {key[p]} : n \in DOMAIN files /\ files'[n] = files[n]
  <1>1. key[p] \in Key /\ nth[p] \in Nat
    BY BoundsAssumption DEF Publish, Typed, Shape, Storing, TypeOK
  <1>2. Temp(p) \notin Key
    BY <1>1, NamesAssumption DEF Temp
  <1>3. files[Temp(p)].id = Job(p) /\ Temp(p) \in DOMAIN files
    BY DEF Publish, FilesOK, OwnTemp
  <1> QED BY <1>1, <1>2, <1>3 DEF Publish, Moved

LEMMA FreshPublish ==
  ASSUME Typed, FilesOK, Fresh, NEW p \in Proc, Publish(p)
  PROVE  Fresh'
  <1> USE Moving
  <1>1. Job(p).nth = nth[p]
    BY DEF Job
  <1>2. /\ UNCHANGED <<stores, nth, swept>>
        /\ pc'[p] = "open" /\ \A q \in Proc \ {p} : pc'[q] = pc[q]
    BY DEF Publish, callVars, history, Goto, Typed, TypeOK
  <1>3. \A n \in DOMAIN files' : files'[n].id.nth <= stores
    BY <1>1 DEF Fresh
  <1>4. ASSUME NEW q \in Proc, Filling(q)'
        PROVE  /\ \A e \in swept : e.nth # nth[q]
               /\ \A k \in Entries' : files'[k].id.nth # nth[q]
    <2>1. q # p /\ Filling(q)
      BY <1>2, <1>4 DEF Filling
    <2>2. nth[q] # nth[p]
      BY <2>1 DEF FilesOK, Distinct, Storing, Filling, Publish
    <2>3. ASSUME NEW k \in Entries' PROVE files'[k].id.nth # nth[q]
      <3>1. CASE k = key[p]
        BY <1>1, <2>2, <3>1
      <3>2. CASE k # key[p]
        <4>1. k \in Entries /\ files'[k] = files[k]
          BY <3>2 DEF Entries
        <4> QED BY <2>1, <4>1 DEF Fresh
      <3> QED BY <3>1, <3>2
    <2> QED BY <2>1, <2>3 DEF Fresh
  <1> QED BY <1>2, <1>3, <1>4 DEF Fresh
-----------------------------------------------------------------------------
LEMMA PresentMeasured ==
  ASSUME Typed, FilesOK, FiniteOK
  PROVE  Measured(Present)
  <1>1. IsFiniteSet(Entries)
    BY FS_Intersection DEF FiniteOK, Entries
  <1> DEFINE m == [e \in Present |-> e.key]
  <1>2. m \in Injection(Present, Entries)
    BY DEF Present, FilesOK, EntriesWhole, Injection, IsInjective
  <1>3. IsFiniteSet(Present)
    BY <1>1, <1>2, FS_Injection
  <1>4. \A e \in Present : e.size \in Nat
    BY DEF Present, Entries, Typed, TypeOK, File, Stored
  <1> QED BY <1>3, <1>4 DEF Measured

LEMMA HeldMeasured ==
  ASSUME Typed, FiniteOK, NEW p \in Proc
  PROVE  Measured(held[p])
  BY DEF FiniteOK, Typed, TypeOK, Measured, Held

(* The entries sized are counted while they last: a step that brings none  *)
(* of them back keeps what the sweep has achieved.                         *)
KeepsSwept ==
    \A k \in Entries' : files'[k].id \in swept =>
        k \in Entries /\ files'[k].id = files[k].id

LEMMA SweepAside ==
  ASSUME Typed, FilesOK, SweepInv, KeepsSwept, UNCHANGED <<sweeper, swept>>,
         \A p \in Proc : p = sweeper =>
            /\ pc'[p] = "list" => pc[p] = "list"
            /\ pc'[p] = "stat" => pc[p] = "stat" /\ held'[p] = held[p]
            /\ pc'[p] \notin {"list", "stat", "dead"} =>
                  pc[p] \notin {"list", "stat", "dead"}
  PROVE  Sweeping' /\ SweepFits'
  <1>1. Sweeping'
    BY DEF SweepInv, Sweeping, KeepsSwept
  <1>2. Present' \cap swept \in SUBSET (Present \cap swept)
    BY DEF Present, KeepsSwept
  <1>3. Measured(Present \cap swept)
    BY PresentMeasured, MeasuredWithin DEF SweepInv
  <1>4. Bytes(Present' \cap swept) <= Bytes(Present \cap swept)
    BY <1>2, <1>3, BytesWithin
  <1>5. Bytes(Present' \cap swept) \in Nat /\ Bytes(Present \cap swept) \in Nat
    BY <1>2, <1>3, MeasuredWithin, BytesNat
  <1>6. ASSUME NEW p \in Proc, p = sweeper, pc'[p] \notin {"list", "stat", "dead"}
        PROVE  Bytes(Present' \cap swept) <= Limit
    <2>1. Bytes(Present \cap swept) <= Limit
      BY <1>6 DEF SweepInv, SweepFits, Present
    <2> QED BY <1>4, <1>5, <2>1, BoundsAssumption
  <1>7. SweepFits'
    BY <1>6 DEF SweepFits, Present
  <1> QED BY <1>1, <1>7

LEMMA SweepPublish ==
  ASSUME Typed, FilesOK, SweepInv, NEW p \in Proc, Publish(p)
  PROVE  Sweeping' /\ SweepFits'
  <1> USE Moving
  <1>1. /\ UNCHANGED <<sweeper, swept, held>>
        /\ pc[p] = "publish" /\ pc'[p] = "open" /\ \A q \in Proc \ {p} : pc'[q] = pc[q]
    BY DEF Publish, callVars, history, Goto, Typed, TypeOK
  <1>2. Job(p) \notin swept
    BY <1>1 DEF SweepInv, Fresh, Filling, Job
  <1>3. KeepsSwept
    <2>1. ASSUME NEW k \in Entries', files'[k].id \in swept
          PROVE  k \in Entries /\ files'[k].id = files[k].id
      <3>1. k # key[p]
        BY <1>2, <2>1
      <3> QED BY <3>1 DEF Entries
    <2> QED BY <2>1 DEF KeepsSwept
  <1> QED BY <1>1, <1>3, SweepAside

LEMMA SweepReset ==
  ASSUME Typed, NEW p \in Proc, ResetLedger(p)
  PROVE  Sweeping' /\ SweepFits'
  BY NamesAssumption DEF ResetLedger, Goto, Typed, TypeOK, Sweeping, SweepFits

LEMMA SweepList ==
  ASSUME ~PruneFaults, Typed, FilesOK, SweepInv, NEW p \in Proc, List(p)
  PROVE  Sweeping' /\ SweepFits'
  <1>1. /\ UNCHANGED <<files, sweeper, swept, held>>
        /\ pc[p] = "list" /\ pc'[p] = "stat" /\ \A q \in Proc \ {p} : pc'[q] = pc[q]
    BY DEF List, dirVars, history, Goto, Typed, TypeOK
  <1>2. CASE p # sweeper
    BY <1>1, <1>2, SweepAside DEF KeepsSwept, Entries
  <1>3. CASE p = sweeper
    <2>1. swept = {} /\ p # None
      BY <1>1, <1>3, NamesAssumption DEF SweepInv, Sweeping
    <2> QED BY <1>1, <1>3, <2>1 DEF Sweeping, SweepFits
  <1> QED BY <1>2, <1>3

(* The sizing of an entry takes the size it has, for an entry is whole and *)
(* never young.                                                            *)
LEMMA SizedEntry ==
  ASSUME Typed, FilesOK, NEW p \in Proc, NEW n \in Entries, NEW h \in Sized(p, n)
  PROVE  \E x \in h : x.name = n /\ x.size = files[n].id.size
  <1>1. n \in DOMAIN files /\ ~Young(p, n)
    BY NamesAssumption, BoundsAssumption DEF Entries, Young, IsTemp, TempName
  <1>2. BytesOn(files[n]) = {files[n].id.size}
    BY DEF BytesOn, FilesOK, EntriesWhole
  <1>3. h = {[name |-> n, size |-> files[n].id.size, modified |-> files[n].modified]}
    BY <1>1, <1>2 DEF Sized
  <1> QED BY <1>3

LEMMA SweepStat ==
  ASSUME ~PruneFaults, Typed, FilesOK, SweepInv, NEW p \in Proc,
         NEW n \in listing[p], Stat(p, n)
  PROVE  Sweeping' /\ SweepFits'
  <1>1. /\ UNCHANGED <<files, sweeper, pc>> /\ pc[p] = "stat"
        /\ \A q \in Proc \ {p} : held'[q] = held[q]
    BY DEF Stat, dirVars, Typed, TypeOK
  <1>2. CASE p # sweeper
    <2>1. swept' = swept
      BY <1>2 DEF Stat
    <2> QED BY <1>1, <1>2, <2>1, SweepAside DEF KeepsSwept, Entries
  <1>3. CASE p = sweeper
    <2>1. PICK h \in Sized(p, n) : held'[p] = held[p] \cup h
      BY DEF Stat, Typed, TypeOK
    <2>2. ASSUME NEW k \in Entries, files[k].id \in swept'
          PROVE  \E x \in held'[p] : x.name = k /\ x.size = files[k].id.size
      <3>1. CASE k = n
        BY <2>1, <3>1, SizedEntry
      <3>2. CASE k # n
        <4>1. swept' \subseteq swept \cup {files[n].id}
          BY DEF Stat
        <4>2. n \in Entries \/ swept' = swept
          BY DEF Stat, Entries
        <4>3. n \in Entries => files[n].id # files[k].id
          BY <3>2 DEF FilesOK, EntriesWhole
        <4>4. files[k].id \in swept
          BY <2>2, <4>1, <4>2, <4>3
        <4> QED BY <1>1, <1>3, <2>1, <4>4 DEF SweepInv, Sweeping
      <3> QED BY <3>1, <3>2
    <2>3. sweeper' # None
      BY <1>1, <1>3, NamesAssumption
    <2>4. Entries' = Entries
      BY <1>1 DEF Entries
    <2>5. Sweeping'
      BY <1>1, <1>3, <2>2, <2>3, <2>4 DEF Sweeping
    <2> QED BY <1>1, <1>3, <2>5 DEF SweepFits
  <1> QED BY <1>2, <1>3

LEMMA SweepEvict ==
  ASSUME ~PruneFaults, Typed, FilesOK, SweepInv, NEW p \in Proc,
         NEW f \in held[p], Evict(p, f)
  PROVE  Sweeping' /\ SweepFits'
  <1>1. /\ UNCHANGED <<sweeper, swept, pc>> /\ pc[p] = "stat"
        /\ files' = Without(f.name)
        /\ held'[p] = held[p] \ {f} /\ \A q \in Proc \ {p} : held'[q] = held[q]
    BY DEF Evict, history, Typed, TypeOK
  <1>2. /\ \A k \in Entries' : k \in Entries /\ files'[k] = files[k] /\ k # f.name
    BY <1>1 DEF Entries, Without
  <1>3. CASE p # sweeper
    BY <1>1, <1>2, <1>3, SweepAside DEF KeepsSwept
  <1>4. CASE p = sweeper
    <2>1. ASSUME NEW k \in Entries', files'[k].id \in swept
          PROVE  \E x \in held'[p] : x.name = k /\ x.size = files'[k].id.size
      <3>1. PICK x \in held[p] : x.name = k /\ x.size = files[k].id.size
        BY <1>1, <1>2, <1>4, <2>1 DEF SweepInv, Sweeping
      <3> QED BY <1>1, <1>2, <3>1
    <2>2. sweeper' # None
      BY <1>1, <1>4, NamesAssumption
    <2>3. Sweeping'
      BY <1>1, <1>4, <2>1, <2>2 DEF Sweeping
    <2> QED BY <1>1, <1>4, <2>3 DEF SweepFits
  <1> QED BY <1>3, <1>4

(* A prune ends when what it holds fits the limit, and it holds what it    *)
(* sized of what is there.                                                 *)
LEMMA SweepDone ==
  ASSUME Typed, FilesOK, SweepInv, NEW p \in Proc, PruneDone(p)
  PROVE  Sweeping' /\ SweepFits'
  <1>1. /\ UNCHANGED <<files, sweeper, swept>> /\ pc[p] = "stat" /\ pc'[p] = "idle"
        /\ \A q \in Proc \ {p} : pc'[q] = pc[q] /\ held'[q] = held[q]
        /\ Total(held[p]) <= Limit
    BY DEF PruneDone, Return, Leave, Goto, dirVars, Typed, TypeOK
  <1>2. CASE p # sweeper
    BY <1>1, <1>2, SweepAside DEF KeepsSwept, Entries
  <1>3. CASE p = sweeper
    <2> DEFINE A == Present \cap swept
               Is(e, h) == h.name = e.key /\ h.size = e.size
               m == [e \in A |-> CHOOSE h \in held[p] : Is(e, h)]
    <2>1. ASSUME NEW e \in A PROVE \E h \in held[p] : Is(e, h)
      <3>1. PICK k \in Entries : e = files[k].id
        BY DEF Present
      <3>2. e.key = k
        BY <3>1 DEF FilesOK, EntriesWhole
      <3> QED BY <1>1, <1>3, <3>1, <3>2 DEF SweepInv, Sweeping
    <2>2. ASSUME NEW e \in A PROVE m[e] \in held[p] /\ Is(e, m[e])
      BY <2>1
    <2>3. \A x, y \in A : x.key = y.key => x = y
      BY DEF Present, FilesOK, EntriesWhole
    <2>4. m \in [A -> held[p]]
      BY <2>2
    <2> HIDE DEF m
    <2>5. \A x, y \in A : m[x] = m[y] => x = y
      BY <2>2, <2>3
    <2>6. Measured(held[p])
      BY HeldMeasured DEF SweepInv
    <2> HIDE DEF A
    <2>7. Measured(A) /\ Bytes(A) <= Bytes(held[p])
      BY <2>2, <2>4, <2>5, <2>6, BytesMatched
    <2>8. Bytes(A) <= Limit
      BY <1>1, <2>6, <2>7, BytesNat, TotalIsBytes, BoundsAssumption
    <2>9. SweepFits'
      <3>1. Present' = Present
        BY <1>1 DEF Present, Entries
      <3> QED BY <1>1, <2>8, <3>1 DEF SweepFits, Present, A
    <2>10. sweeper' # None
      BY <1>1, <1>3, NamesAssumption
    <2> QED BY <1>1, <1>3, <2>9, <2>10 DEF Sweeping
  <1> QED BY <1>2, <1>3
-----------------------------------------------------------------------------
(* Every step but a Store's first and its rename leaves the Stores that    *)
(* the names hold as they were.                                            *)
LEMMA IdsKept ==
  ASSUME Typed, NEW p \in Proc,
         \/ Fill(p) \/ Abandon(p) \/ Mark(p) \/ Kill(p)
         \/ OpenLedger(p) \/ WriteRecord(p) \/ ReadLedger(p) \/ ResetLedger(p)
         \/ List(p) \/ PruneDone(p)
         \/ \E n \in listing[p] : Stat(p, n)
         \/ \E f \in held[p] : Evict(p, f)
         \/ \E k \in Key : Load(p, k)
  PROVE  KeepsIds
  <1>1. CASE UNCHANGED files
    BY <1>1 DEF KeepsIds
  <1>2. CASE Fill(p)
    BY <1>2 DEF Fill, With, KeepsIds
  <1>3. CASE Abandon(p)
    BY <1>3 DEF Abandon, Without, KeepsIds
  <1>4. CASE Mark(p)
    <2>1. ASSUME NEW n \in DOMAIN files \cap {key[p]},
                 files' = With(n, [id |-> files[n].id, whole |-> files[n].whole,
                                   modified |-> clock])
          PROVE  KeepsIds
      BY <2>1 DEF KeepsIds, With
    <2> QED BY <1>1, <1>4, <2>1 DEF Mark
  <1>5. ASSUME NEW f \in held[p], Evict(p, f) PROVE KeepsIds
    BY <1>1, <1>5 DEF Evict, Without, KeepsIds
  <1>6. CASE OpenLedger(p) \/ WriteRecord(p) \/ ReadLedger(p) \/ ResetLedger(p)
    BY <1>1, <1>6 DEF OpenLedger, WriteRecord, ReadLedger, ResetLedger, dirVars
  <1>7. CASE \/ List(p) \/ PruneDone(p) \/ Kill(p)
             \/ \E n \in listing[p] : Stat(p, n)
             \/ \E k \in Key : Load(p, k)
    BY <1>1, <1>7 DEF List, PruneDone, Kill, Stat, Load, dirVars
  <1> QED BY <1>2, <1>3, <1>4, <1>5, <1>6, <1>7

LEMMA SweepLeave ==
  ASSUME Typed, FilesOK, SweepInv, NEW p \in Proc, NEW l \in {"idle", "dead"},
         Leave(p, l), KeepsIds, l = "idle" => pc[p] \notin {"list", "stat", "dead"}
  PROVE  Fresh' /\ Sweeping' /\ SweepFits'
  <1>1. /\ UNCHANGED <<sweeper, swept, stores>> /\ pc'[p] = l
        /\ \A q \in Proc \ {p} : pc'[q] = pc[q] /\ held'[q] = held[q] /\ nth'[q] = nth[q]
    BY DEF Leave, Goto, Typed, TypeOK
  <1>2. Fresh'
    BY <1>1, FreshAside DEF Filling, SweepInv
  <1>3. KeepsSwept
    BY DEF KeepsSwept, KeepsIds, Entries
  <1> QED BY <1>1, <1>2, <1>3, SweepAside

(* The steps of a call outside its prune.                                  *)
LEMMA SweepStay ==
  ASSUME Typed, FilesOK, SweepInv, NEW p \in Proc, KeepsIds,
         NEW l \in PC \ {"fill", "list", "stat", "dead"},
         Goto(p, l),
         pc[p] \notin {"list", "stat", "dead"},
         l = "publish" => pc[p] = "fill",
         UNCHANGED <<sweeper, swept, stores, nth, held>>
  PROVE  Fresh' /\ Sweeping' /\ SweepFits'
  <1>1. pc'[p] = l /\ \A q \in Proc \ {p} : pc'[q] = pc[q]
    BY DEF Goto, Typed, TypeOK
  <1>2. Fresh'
    BY <1>1, FreshAside DEF Filling, SweepInv
  <1>3. KeepsSwept
    BY DEF KeepsSwept, KeepsIds, Entries
  <1> QED BY <1>1, <1>2, <1>3, SweepAside

LEMMA SweepStore ==
  ASSUME Typed, FilesOK, SweepInv, NEW p \in Proc, NEW k \in Key, NEW s \in Size,
         Store(p, k, s)
  PROVE  Sweeping' /\ SweepFits'
  <1>1. /\ UNCHANGED <<sweeper, swept, held>>
        /\ pc[p] = "idle" /\ pc'[p] = "fill" /\ \A q \in Proc \ {p} : pc'[q] = pc[q]
    BY DEF Store, Goto, Typed, TypeOK
  <1>2. stores + 1 \notin Key
    BY NamesAssumption, BoundsAssumption DEF Typed, TypeOK
  <1>3. KeepsSwept
    BY <1>2 DEF KeepsSwept, Store, With, Entries
  <1> QED BY <1>1, <1>3, SweepAside

(* The steps of a prune keep the ordinals apart: they add to what is sized *)
(* entries only.                                                           *)
LEMMA FreshPrune ==
  ASSUME ~PruneFaults, Typed, Fresh, NEW p \in Proc,
         \/ ResetLedger(p) \/ List(p) \/ PruneDone(p)
         \/ \E n \in listing[p] : Stat(p, n)
         \/ \E f \in held[p] : Evict(p, f)
  PROVE  Fresh'
  <1>1. KeepsIds
    BY IdsKept
  <1>2. CASE ResetLedger(p)
    BY <1>1, <1>2, FreshAside DEF ResetLedger, Goto, Filling, Typed, TypeOK
  <1>3. CASE List(p)
    BY <1>1, <1>3, FreshAside DEF List, Goto, Filling, Typed, TypeOK, history
  <1>4. CASE PruneDone(p)
    BY <1>1, <1>4, FreshAside
    DEF PruneDone, Return, Leave, Goto, Filling, Typed, TypeOK
  <1>5. ASSUME NEW n \in listing[p], Stat(p, n) PROVE Fresh'
    <2>1. swept' \subseteq swept \cup Present
      BY <1>5 DEF Stat, Present, Entries
    <2> QED BY <1>1, <1>5, <2>1, FreshAside DEF Stat, Filling
  <1>6. ASSUME NEW f \in held[p], Evict(p, f) PROVE Fresh'
    BY <1>1, <1>6, FreshAside DEF Evict, Filling, history
  <1> QED BY <1>2, <1>3, <1>4, <1>5, <1>6

LEMMA SweepOther ==
  ASSUME Typed, FilesOK, SweepInv, NEW p \in Proc,
         \/ Fill(p) \/ Abandon(p) \/ Mark(p) \/ Kill(p)
         \/ OpenLedger(p) \/ WriteRecord(p) \/ ReadLedger(p)
         \/ \E k \in Key : Load(p, k)
  PROVE  Fresh' /\ Sweeping' /\ SweepFits'
  <1>1. KeepsIds
    BY IdsKept
  <1>2. CASE Fill(p)
    BY <1>1, <1>2, SweepStay DEF Fill, PC, callVars, history
  <1>3. CASE Abandon(p) \/ Mark(p)
    BY <1>1, <1>3, SweepLeave DEF Abandon, Mark, Return
  <1>4. CASE Kill(p)
    BY <1>1, <1>4, SweepLeave DEF Kill
  <1>5. CASE OpenLedger(p)
    BY <1>1, <1>5, SweepStay DEF OpenLedger, PC, history
  <1>6. CASE WriteRecord(p)
    BY <1>1, <1>6, SweepStay DEF WriteRecord, PC, history
  <1>7. CASE ReadLedger(p)
    <2>1. CASE Return(p)
      BY <1>1, <1>7, <2>1, SweepLeave DEF ReadLedger, Return
    <2>2. CASE Goto(p, "reset") /\ UNCHANGED <<callVars, history>>
      BY <1>1, <1>7, <2>2, SweepStay DEF ReadLedger, PC, callVars, history
    <2> QED BY <1>7, <2>1, <2>2 DEF ReadLedger
  <1>8. ASSUME NEW k \in Key, Load(p, k) PROVE Fresh' /\ Sweeping' /\ SweepFits'
    BY <1>1, <1>8, SweepStay DEF Load, PC, history
  <1> QED BY <1>2, <1>3, <1>4, <1>5, <1>6, <1>7, <1>8

LEMMA SweepNext ==
  ASSUME ~PruneFaults, Typed, FilesOK, SweepInv, [Next]_vars
  PROVE  SweepInv'
  <1>1. FiniteOK'
    BY FiniteNext DEF SweepInv
  <1>2. Fresh' /\ Sweeping' /\ SweepFits'
    <2>1. CASE Tick \/ UNCHANGED vars
      BY <2>1 DEF Tick, vars, callVars, history, SweepInv, Fresh, Sweeping,
         SweepFits, Filling, Entries
    <2>2. ASSUME NEW p \in Proc, NEW k \in Key, NEW s \in Size, Store(p, k, s)
          PROVE  Fresh' /\ Sweeping' /\ SweepFits'
      BY <2>2, FreshStore, SweepStore DEF SweepInv
    <2>3. ASSUME NEW p \in Proc, Publish(p) PROVE Fresh' /\ Sweeping' /\ SweepFits'
      BY <2>3, FreshPublish, SweepPublish DEF SweepInv
    <2>4. ASSUME NEW p \in Proc,
                 \/ ResetLedger(p) \/ List(p) \/ PruneDone(p)
                 \/ \E n \in listing[p] : Stat(p, n)
                 \/ \E f \in held[p] : Evict(p, f)
          PROVE  Fresh' /\ Sweeping' /\ SweepFits'
      BY <2>4, FreshPrune, SweepReset, SweepList, SweepDone, SweepStat, SweepEvict
      DEF SweepInv
    <2> QED BY <2>1, <2>2, <2>3, <2>4, SweepOther DEF Next, Begin, Continue
  <1> QED BY <1>1, <1>2 DEF SweepInv

(* A prune that ran to its end leaves of what it sized no more than the    *)
(* limit, for any number of processes and whatever they publish, mark,     *)
(* remove and are killed in beside it, as long as no call of a prune       *)
(* itself fails.                                                           *)
THEOREM SweepsFit ==
  ASSUME ~PruneFaults
  PROVE  Spec => []SweepFits
  <1>1. Typed /\ FilesOK /\ SweepInv /\ [Next]_vars => SweepInv'
    BY SweepNext
  <1>2. SweepInv => SweepFits
    BY DEF SweepInv
  <1> QED
    BY <1>1, <1>2, TypedInit, TypedNext, FilesInit, FilesNext, SweepInit, PTL DEF Spec
-----------------------------------------------------------------------------
(* A ledger that says a prune is due gets one: either every entry has been *)
(* sized by the sweep that followed the last reset or will be, or a Store  *)
(* is under way that has yet to read the ledger.                           *)
ToRead(p) == pc[p] \in {"open", "write", "tally"}
SweptOrReached == \A k \in Entries : files[k].id \in swept \/ SweepReaches(k)
DueCovered ==
    /\ \A p \in Proc : pc[p] # "dead"
    /\ ledger # None /\ TallyDue => SweptOrReached \/ \E p \in Proc : ToRead(p)

LEMMA CoveredInit == Init => DueCovered
  BY DEF Init, DueCovered

LEMMA CoveredAside ==
  ASSUME Typed, DueCovered, NEW p \in Proc, KeepsIds, UNCHANGED ledger,
         \/ pc[p] \notin {"open", "write", "tally", "reset", "list"}
         \/ pc' = pc
         \/ pc[p] = "list" /\ p # sweeper,
         pc[p] = "stat" => listing[p] = {} \/ p # sweeper,
         pc'[p] # "dead",
         \A q \in Proc \ {p} : pc'[q] = pc[q] /\ listing'[q] = listing[q],
         UNCHANGED <<sweeper, swept>>
  PROVE  DueCovered'
  <1>1. \A q \in Proc : pc'[q] # "dead"
    BY DEF DueCovered
  <1>2. TallyDue' <=> TallyDue
    BY DEF TallyDue
  <1>3. ASSUME ledger # None, TallyDue, ~\E q \in Proc : ToRead(q)
        PROVE  SweptOrReached'
    <2> SUFFICES ASSUME NEW k \in Entries'
                 PROVE  files'[k].id \in swept' \/ SweepReaches(k)'
      BY DEF SweptOrReached
    <2>1. k \in Entries /\ files'[k].id = files[k].id
      BY DEF KeepsIds, Entries
    <2>2. files[k].id \in swept \/ SweepReaches(k)
      BY <1>3, <2>1 DEF DueCovered, SweptOrReached
    <2>3. SweepReaches(k) => SweepReaches(k)'
      BY DEF SweepReaches
    <2> QED BY <2>1, <2>2, <2>3
  <1>4. (\E q \in Proc : ToRead(q)) => \E q \in Proc : ToRead(q)'
    BY DEF ToRead
  <1> QED BY <1>1, <1>2, <1>3, <1>4 DEF DueCovered

(* A step that leaves a Store with the ledger still to read, or about to   *)
(* reset it.                                                               *)
LEMMA CoveredBy ==
  ASSUME Typed, DueCovered, NEW p \in Proc,
         NEW l \in {"open", "write", "tally", "reset"}, Goto(p, l)
  PROVE  DueCovered'
  <1>1. pc'[p] = l /\ \A q \in Proc \ {p} : pc'[q] = pc[q]
    BY DEF Goto, Typed, TypeOK
  <1>2. \A q \in Proc : pc'[q] # "dead"
    BY <1>1 DEF DueCovered
  <1>3. CASE l = "reset"
    <2>1. SweptOrReached'
      BY <1>1, <1>3 DEF SweptOrReached, SweepReaches
    <2> QED BY <1>2, <2>1 DEF DueCovered
  <1>4. CASE l # "reset"
    <2>1. ToRead(p)'
      BY <1>1, <1>4 DEF ToRead
    <2> QED BY <1>2, <2>1 DEF DueCovered
  <1> QED BY <1>3, <1>4

LEMMA CoveredLedger ==
  ASSUME Typed, DueCovered, NEW p \in Proc,
         \/ Publish(p) \/ OpenLedger(p) \/ WriteRecord(p) \/ ReadLedger(p)
         \/ ResetLedger(p)
  PROVE  DueCovered'
  <1>1. CASE Publish(p) \/ OpenLedger(p) \/ WriteRecord(p)
    BY <1>1, CoveredBy DEF Publish, OpenLedger, WriteRecord
  <1>2. CASE ReadLedger(p)
    <2>1. CASE Goto(p, "reset")
      BY <2>1, CoveredBy
    <2>2. CASE ~Due /\ Return(p)
      <3>1. UNCHANGED ledger /\ ledger # None /\ ~TallyDue
        BY <1>2, <2>2 DEF ReadLedger, dirVars, Due
      <3>2. ~TallyDue'
        BY <3>1 DEF TallyDue
      <3>3. \A q \in Proc : pc'[q] # "dead"
        BY <2>2 DEF Return, Leave, Goto, DueCovered, Typed, TypeOK
      <3> QED BY <3>2, <3>3 DEF DueCovered
    <2> QED BY <1>2, <2>1, <2>2 DEF ReadLedger
  <1>3. CASE ResetLedger(p)
    <2>1. sweeper' = p /\ pc'[p] = "list" /\ \A q \in Proc \ {p} : pc'[q] = pc[q]
      BY <1>3 DEF ResetLedger, Goto, Typed, TypeOK
    <2>2. SweptOrReached'
      BY <2>1 DEF SweptOrReached, SweepReaches
    <2> QED BY <2>1, <2>2 DEF DueCovered
  <1> QED BY <1>1, <1>2, <1>3

LEMMA CoveredPrune ==
  ASSUME ~PruneFaults, Typed, DueCovered, NEW p \in Proc,
         \/ List(p) \/ PruneDone(p)
         \/ \E n \in listing[p] : Stat(p, n)
         \/ \E f \in held[p] : Evict(p, f)
  PROVE  DueCovered'
  <1>0. KeepsIds
    BY IdsKept
  <1>1. CASE List(p)
    <2>1. /\ UNCHANGED <<files, ledger, sweeper, swept>>
          /\ pc[p] = "list" /\ pc'[p] = "stat" /\ listing'[p] = DOMAIN files
          /\ \A q \in Proc \ {p} : pc'[q] = pc[q] /\ listing'[q] = listing[q]
      BY <1>1 DEF List, dirVars, history, Goto, Typed, TypeOK
    <2>2. CASE p # sweeper
      BY <1>0, <2>1, <2>2, CoveredAside
    <2>3. CASE p = sweeper
      <3>1. SweptOrReached'
        BY <2>1, <2>3 DEF SweptOrReached, SweepReaches, Entries
      <3> QED BY <2>1, <3>1 DEF DueCovered
    <2> QED BY <2>2, <2>3
  <1>2. CASE PruneDone(p)
    <2>1. /\ UNCHANGED <<ledger, sweeper, swept>>
          /\ pc[p] = "stat" /\ pc'[p] = "idle" /\ listing[p] = {}
          /\ \A q \in Proc \ {p} : pc'[q] = pc[q] /\ listing'[q] = listing[q]
      BY <1>2 DEF PruneDone, Return, Leave, Goto, dirVars, Typed, TypeOK
    <2> QED BY <1>0, <2>1, CoveredAside
  <1>3. ASSUME NEW f \in held[p], Evict(p, f) PROVE DueCovered'
    <2>1. /\ UNCHANGED <<ledger, sweeper, swept, pc, listing>>
          /\ pc[p] = "stat" /\ listing[p] = {}
      BY <1>3 DEF Evict, history
    <2> QED BY <1>0, <2>1, CoveredAside
  <1>4. ASSUME NEW n \in listing[p], Stat(p, n) PROVE DueCovered'
    <2>1. /\ UNCHANGED <<files, ledger, sweeper, pc>>
          /\ pc[p] = "stat" /\ listing'[p] = listing[p] \ {n}
          /\ \A q \in Proc \ {p} : listing'[q] = listing[q]
          /\ swept \subseteq swept'
          /\ p = sweeper /\ n \in Entries => files[n].id \in swept'
      BY <1>4 DEF Stat, dirVars, Typed, TypeOK, Entries
    <2>2. ASSUME SweptOrReached PROVE SweptOrReached'
      <3> SUFFICES ASSUME NEW k \in Entries'
                   PROVE  files'[k].id \in swept' \/ SweepReaches(k)'
        BY DEF SweptOrReached
      <3>1. k \in Entries /\ files'[k].id = files[k].id
        BY <2>1 DEF Entries
      <3>2. SweepReaches(k) => SweepReaches(k)' \/ files[k].id \in swept'
        BY <2>1, <3>1 DEF SweepReaches
      <3> QED BY <2>1, <2>2, <3>1, <3>2 DEF SweptOrReached
    <2>3. TallyDue' <=> TallyDue
      BY <2>1 DEF TallyDue
    <2> QED BY <2>1, <2>2, <2>3 DEF DueCovered, ToRead
  <1> QED BY <1>1, <1>2, <1>3, <1>4

LEMMA CoveredOther ==
  ASSUME Typed, DueCovered, NEW p \in Proc,
         \/ Fill(p) \/ Abandon(p) \/ Mark(p)
         \/ \E k \in Key : Load(p, k)
         \/ \E k \in Key, s \in Size : Store(p, k, s)
  PROVE  DueCovered'
  <1>1. ASSUME NEW k \in Key, NEW s \in Size, Store(p, k, s) PROVE DueCovered'
    <2>1. stores + 1 \notin Key
      BY NamesAssumption, BoundsAssumption DEF Typed, TypeOK
    <2>2. \A j \in Entries' : j \in Entries /\ files'[j] = files[j]
      BY <1>1, <2>1 DEF Store, With, Entries
    <2>3. /\ UNCHANGED <<ledger, sweeper, swept, listing>>
          /\ pc[p] = "idle" /\ pc'[p] = "fill" /\ \A q \in Proc \ {p} : pc'[q] = pc[q]
      BY <1>1 DEF Store, Goto, Typed, TypeOK
    <2>4. TallyDue' <=> TallyDue
      BY <2>3 DEF TallyDue
    <2>5. SweptOrReached => SweptOrReached'
      BY <2>2, <2>3 DEF SweptOrReached, SweepReaches
    <2> QED BY <2>3, <2>4, <2>5 DEF DueCovered, ToRead
  <1>2. CASE Fill(p) \/ Abandon(p) \/ Mark(p) \/ \E k \in Key : Load(p, k)
    <2>1. KeepsIds
      BY <1>2, IdsKept
    <2>2. /\ UNCHANGED <<ledger, sweeper, swept>>
          /\ pc[p] \in {"idle", "fill", "publish", "mark"} /\ pc'[p] # "dead"
          /\ \A q \in Proc \ {p} : pc'[q] = pc[q] /\ listing'[q] = listing[q]
      BY <1>2 DEF Fill, Abandon, Mark, Load, Return, Leave, Goto, dirVars, callVars,
         history, Typed, TypeOK
    <2> QED BY <2>1, <2>2, CoveredAside
  <1> QED BY <1>1, <1>2

LEMMA CoveredNext ==
  ASSUME ~Kills, ~PruneFaults, Typed, DueCovered, [Next]_vars
  PROVE  DueCovered'
  <1>1. CASE Tick \/ UNCHANGED vars
    BY <1>1 DEF Tick, vars, callVars, history, DueCovered, TallyDue, SweptOrReached,
       SweepReaches, ToRead, Entries
  <1> QED
    BY <1>1, CoveredLedger, CoveredPrune, CoveredOther
    DEF Next, Begin, Continue, Kill

(* The bound from the accounting: with no Store in progress an entry is in *)
(* the ledger, which is not due, or was sized by a sweep that has ended.   *)
LEMMA BoundFromAccounts ==
  ASSUME Typed, FilesOK, Accounted, SweepInv, DueCovered
  PROVE  QuietBound
  <1> SUFFICES ASSUME \A p \in Proc : ~InProgress(p)
               PROVE  Bytes(Present) <= Limit + Eighth
    BY DEF QuietBound, Present
  <1>1. Eighth \in Nat /\ Limit \in Nat
    BY BoundsAssumption DEF Eighth
  <1>2. Measured(Present)
    BY PresentMeasured DEF SweepInv
  <1> DEFINE A == Present \cap swept
  <1>3. Measured(A) /\ Bytes(A) \in Nat /\ Bytes(A) <= Limit
    <2>1. Measured(A)
      BY <1>2, MeasuredWithin
    <2>2. CASE sweeper = None
      <3>1. A = {}
        BY <2>2 DEF SweepInv, Sweeping
      <3> QED BY <1>1, <2>1, <3>1, BytesNone
    <2>3. CASE sweeper # None
      <3>1. sweeper \in Proc /\ pc[sweeper] \notin {"list", "stat", "dead"}
        BY <2>3 DEF Typed, TypeOK, InProgress, DueCovered
      <3> QED BY <2>1, <3>1, BytesNat DEF SweepInv, SweepFits, Present
    <2> QED BY <2>2, <2>3
  <1>4. ASSUME NEW k \in Entries
        PROVE  \/ files[k].id \in swept
               \/ ledger # None /\ files[k].id \in ledger.noted
    BY DEF Accounted, AccountedFor, AboutToNote, SweepReaches, InProgress
  <1>5. CASE ledger = None
    <2>1. Present = A
      BY <1>4, <1>5 DEF Present
    <2> QED BY <1>1, <1>3, <2>1
  <1>6. CASE ledger # None /\ TallyDue
    <2>1. SweptOrReached
      BY <1>6 DEF DueCovered, ToRead, InProgress
    <2>2. Present = A
      BY <2>1 DEF SweptOrReached, SweepReaches, InProgress, Present
    <2> QED BY <1>1, <1>3, <2>2
  <1>7. CASE ledger # None /\ ~TallyDue
    <2>1. Measured(ledger.noted)
      <3>1. ledger \in Ledger
        BY <1>7 DEF Typed, TypeOK
      <3> QED BY <1>7, <3>1 DEF Ledger, Stored, Measured, SweepInv, FiniteOK
    <2>2. Bytes(ledger.noted) \in Nat
      BY <2>1, BytesNat
    <2>3. Bytes(ledger.noted) <= Eighth
      BY <1>1, <1>7, <2>2 DEF TallyDue
    <2>4. Present \in SUBSET (A \cup ledger.noted)
      BY <1>4 DEF Present
    <2> HIDE DEF A
    <2>5. Measured(A \cup ledger.noted)
      BY <1>3, <2>1, FS_Union DEF Measured
    <2>6. Bytes(Present) <= Bytes(A \cup ledger.noted)
      BY <2>4, <2>5, BytesWithin
    <2>7. Bytes(A \cup ledger.noted) <= Bytes(A) + Bytes(ledger.noted)
      BY <1>3, <2>1, BytesUnion
    <2>8. Bytes(Present) \in Nat /\ Bytes(A \cup ledger.noted) \in Nat
      BY <1>2, <2>5, BytesNat
    <2> QED BY <1>1, <1>3, <2>2, <2>3, <2>6, <2>7, <2>8
  <1> QED BY <1>5, <1>6, <1>7

(* With no Store in progress the entries pass the limit by an eighth of it *)
(* at most, for any number of processes, keys and sizes and whichever      *)
(* ledger calls fail, as long as no process is killed inside a call and no *)
(* call of a prune fails.                                                  *)
THEOREM BoundIsKept ==
  ASSUME ~Kills, ~PruneFaults
  PROVE  Spec => []QuietBound
  <1> DEFINE Inv == Typed /\ FilesOK /\ Accounted /\ SweepInv /\ DueCovered
  <1>1. Init => Inv
    BY TypedInit, FilesInit, AccountedInit, SweepInit, CoveredInit
  <1>2. Inv /\ [Next]_vars => Inv'
    BY TypedNext, FilesNext, AccountedNext, SweepNext, CoveredNext
  <1>3. Inv => QuietBound
    BY BoundFromAccounts
  <1> HIDE DEF Inv
  <1> QED BY <1>1, <1>2, <1>3, PTL DEF Spec
-----------------------------------------------------------------------------
(* With one process at work what its prune holds is what is there, each    *)
(* file once and as it was last used, and no file passes the limit alone.  *)
HeldIsThere(p) ==
    /\ pc[p] # "stat" => held[p] = {}
    /\ \A h \in held[p] :
         /\ h.name \in DOMAIN files /\ h.name \notin listing[p]
         /\ h.modified = files[h.name].modified /\ h.size <= Limit
    /\ \A g, h \in held[p] : g.name = h.name => g = h
Admitted == \A n \in DOMAIN files : files[n].id.size <= Limit
SoloInv == Admitted /\ \A p \in Proc : HeldIsThere(p)

LEMMA SoloInit == Init => SoloInv
  BY DEF Init, SoloInv, Admitted, HeldIsThere

LEMMA AdmittedKept ==
  ASSUME Admitted, KeepsIds
  PROVE  Admitted'
  BY DEF Admitted, KeepsIds

(* Outside its prune a process holds nothing.                              *)
LEMMA SoloAside ==
  ASSUME Typed, SoloInv, Admitted', \A p, q \in Proc : p = q, NEW p \in Proc,
         pc'[p] # "stat", held'[p] = {}
  PROVE  SoloInv'
  BY DEF SoloInv, HeldIsThere

LEMMA SoloStat ==
  ASSUME Typed, FilesOK, SoloInv, \A p, q \in Proc : p = q,
         NEW p \in Proc, NEW n \in listing[p], Stat(p, n)
  PROVE  SoloInv'
  <1>1. Admitted'
    BY IdsKept, AdmittedKept DEF SoloInv
  <1>2. CASE Return(p)
    BY <1>1, <1>2, SoloAside DEF Return, Leave, Goto, Typed, TypeOK
  <1>3. CASE ~Return(p)
    <2>1. PICK h \in Sized(p, n) : held'[p] = held[p] \cup h
      BY <1>3 DEF Stat, Typed, TypeOK
    <2>2. UNCHANGED <<files, pc>> /\ listing'[p] = listing[p] \ {n} /\ pc[p] = "stat"
      BY <1>3 DEF Stat, dirVars, Typed, TypeOK
    <2>3. \A x \in h : /\ x.name = n /\ n \in DOMAIN files
                       /\ x.modified = files[n].modified
                       /\ x.size \in BytesOn(files[n])
      BY DEF Sized
    <2>4. \A x, y \in h : x = y
      BY DEF Sized
    <2>5. n \in DOMAIN files => \A b \in BytesOn(files[n]) : b <= Limit
      BY BoundsAssumption DEF BytesOn, SoloInv, Admitted
    <2>6. \A x \in held[p] : /\ x.name # n /\ x.name \in DOMAIN files
                             /\ x.name \notin listing[p]
                             /\ x.modified = files[x.name].modified /\ x.size <= Limit
      BY DEF SoloInv, HeldIsThere
    <2>7. \A x, y \in held[p] : x.name = y.name => x = y
      BY DEF SoloInv, HeldIsThere
    <2>8. HeldIsThere(p)'
      BY <2>1, <2>2, <2>3, <2>4, <2>5, <2>6, <2>7 DEF HeldIsThere
    <2> QED BY <1>1, <2>8 DEF SoloInv
  <1> QED BY <1>2, <1>3

LEMMA SoloEvict ==
  ASSUME Typed, FilesOK, SoloInv, \A p, q \in Proc : p = q,
         NEW p \in Proc, NEW f \in held[p], Evict(p, f)
  PROVE  SoloInv'
  <1>1. Admitted'
    BY IdsKept, AdmittedKept DEF SoloInv
  <1>2. CASE Return(p)
    BY <1>1, <1>2, SoloAside DEF Return, Leave, Goto, Typed, TypeOK
  <1>3. CASE ~Return(p)
    <2>1. /\ files' = Without(f.name) /\ UNCHANGED <<pc, listing>>
          /\ held'[p] = held[p] \ {f} /\ pc[p] = "stat"
      BY <1>3 DEF Evict, Typed, TypeOK
    <2>2. \A h \in held[p] \ {f} : h.name # f.name
      BY DEF SoloInv, HeldIsThere
    <2>3. HeldIsThere(p)'
      BY <2>1, <2>2 DEF SoloInv, HeldIsThere, Without
    <2> QED BY <1>1, <2>3 DEF SoloInv
  <1> QED BY <1>2, <1>3

LEMMA AdmittedNext ==
  ASSUME Typed, FilesOK, Admitted, [Next]_vars
  PROVE  Admitted'
  <1>1. CASE Tick \/ UNCHANGED vars
    BY <1>1 DEF Tick, vars, Admitted
  <1>2. ASSUME NEW p \in Proc, NEW k \in Key, NEW s \in Size, Store(p, k, s)
        PROVE  Admitted'
    BY <1>2 DEF Store, With, Admits, Admitted
  <1>3. ASSUME NEW p \in Proc, Publish(p) PROVE Admitted'
    BY <1>3, Moving DEF Admitted
  <1> QED
    BY <1>1, <1>2, <1>3, IdsKept, AdmittedKept DEF Next, Begin, Continue

LEMMA SoloNext ==
  ASSUME Typed, FilesOK, SoloInv, \A p, q \in Proc : p = q, [Next]_vars
  PROVE  SoloInv'
  <1>1. Admitted'
    BY AdmittedNext DEF SoloInv
  <1>2. CASE Tick \/ UNCHANGED vars
    BY <1>1, <1>2 DEF Tick, vars, callVars, SoloInv, HeldIsThere
  <1>3. ASSUME NEW p \in Proc,
               \/ Abandon(p) \/ PruneDone(p) \/ Mark(p) \/ Kill(p)
        PROVE  SoloInv'
    BY <1>1, <1>3, SoloAside
    DEF Abandon, PruneDone, Mark, Kill, Return, Leave, Goto, Typed, TypeOK
  <1>4. ASSUME NEW p \in Proc, pc[p] # "stat",
               \/ Fill(p) \/ Publish(p) \/ OpenLedger(p) \/ WriteRecord(p)
               \/ ReadLedger(p) \/ ResetLedger(p)
               \/ \E k \in Key : Load(p, k)
               \/ \E k \in Key, s \in Size : Store(p, k, s)
        PROVE  SoloInv'
    <2>1. held[p] = {}
      BY <1>4 DEF SoloInv, HeldIsThere
    <2>2. held'[p] = {} /\ pc'[p] # "stat"
      <3> USE <2>1 DEF Return, Leave, Goto, callVars, Typed, TypeOK
      <3>1. CASE Fill(p) \/ Publish(p)
        BY <3>1 DEF Fill, Publish
      <3>2. CASE OpenLedger(p) \/ WriteRecord(p)
        BY <3>2 DEF OpenLedger, WriteRecord
      <3>3. CASE ReadLedger(p) \/ ResetLedger(p)
        BY <3>3 DEF ReadLedger, ResetLedger
      <3>4. ASSUME NEW k \in Key, Load(p, k) PROVE held'[p] = {} /\ pc'[p] # "stat"
        BY <1>4, <3>4 DEF Load
      <3>5. ASSUME NEW k \in Key, NEW s \in Size, Store(p, k, s)
            PROVE  held'[p] = {} /\ pc'[p] # "stat"
        BY <3>5 DEF Store
      <3> QED
        BY <1>4, <3>1, <3>2, <3>3, <3>4, <3>5
    <2> QED BY <1>1, <2>2, SoloAside
  <1>5. ASSUME NEW p \in Proc, List(p) PROVE SoloInv'
    <2>1. held[p] = {} /\ held'[p] = {}
      BY <1>5 DEF List, SoloInv, HeldIsThere, Return, Leave, Typed, TypeOK
    <2> QED BY <1>1, <2>1 DEF SoloInv, HeldIsThere
  <1>6. ASSUME NEW p \in Proc,
               \/ Fill(p) \/ Publish(p) \/ OpenLedger(p) \/ WriteRecord(p)
               \/ ReadLedger(p) \/ ResetLedger(p)
               \/ \E k \in Key : Load(p, k)
               \/ \E k \in Key, s \in Size : Store(p, k, s)
        PROVE  SoloInv'
    BY <1>4, <1>6 DEF Fill, Publish, OpenLedger, WriteRecord, ReadLedger, ResetLedger,
       Load, Store
  <1> QED
    BY <1>2, <1>3, <1>5, <1>6, SoloStat, SoloEvict DEF Next, Begin, Continue

(* Only a removal takes an entry away, and the one used last is the oldest *)
(* held only when nothing else is held: then it fits the limit.            *)
LEMMA LastStays ==
  ASSUME Typed, FilesOK, FiniteOK, SoloInv, \A p, q \in Proc : p = q, [Next]_vars,
         NEW k \in Entries, UsedLast(k)
  PROVE  k \in Entries'
  <1>1. ASSUME NEW p \in Proc, NEW f \in held[p], Evict(p, f) PROVE k \in Entries'
    <2>1. CASE f.name = k
      <3>1. ASSUME NEW h \in held[p], h # f PROVE FALSE
        <4>1. h.name # k /\ h.name \in DOMAIN files
          BY <2>1, <3>1 DEF SoloInv, HeldIsThere
        <4>2. h.modified < f.modified
          BY <2>1, <4>1 DEF UsedLast, SoloInv, HeldIsThere
        <4>3. f.modified <= h.modified
          BY <1>1 DEF Evict, Oldest
        <4>4. h.modified \in Nat /\ f.modified \in Nat
          BY DEF Typed, TypeOK, Held
        <4> QED BY <4>2, <4>3, <4>4
      <3>2. held[p] = {f}
        BY <3>1
      <3>3. Measured({f})
        BY <3>2, HeldMeasured
      <3>4. Bytes({f}) = f.size + Bytes({f} \ {f}) /\ {f} \ {f} = {}
        BY <3>3, BytesLess
      <3>5. Total(held[p]) = f.size
        BY <3>2, <3>3, <3>4, BytesNone, TotalIsBytes DEF Measured
      <3>6. f.size <= Limit /\ f.size \in Nat
        BY <3>3 DEF SoloInv, HeldIsThere, Measured
      <3> QED BY <1>1, <3>5, <3>6, BoundsAssumption DEF Evict
    <2>2. CASE f.name # k
      BY <1>1, <2>2 DEF Evict, Without, Entries
    <2> QED BY <2>1, <2>2
  <1>2. ASSUME NEW p \in Proc, Abandon(p) PROVE k \in Entries'
    <2>1. Temp(p) \notin Key
      BY <1>2, NamesAssumption, BoundsAssumption DEF Temp, Typed, TypeOK
    <2> QED BY <1>2, <2>1 DEF Abandon, Without, Entries
  <1>3. ASSUME NEW p \in Proc, Publish(p) PROVE k \in Entries'
    BY <1>3, Moving DEF Entries
  <1>4. ASSUME NEW p \in Proc, Fill(p) \/ Mark(p) PROVE k \in Entries'
    BY <1>4 DEF Fill, Mark, With, Entries
  <1>5. ASSUME NEW p \in Proc, NEW j \in Key, NEW s \in Size, Store(p, j, s)
        PROVE  k \in Entries'
    BY <1>5 DEF Store, With, Entries
  <1>6. ASSUME UNCHANGED files PROVE k \in Entries'
    BY <1>6 DEF Entries
  <1>7. ASSUME NEW p \in Proc,
               \/ OpenLedger(p) \/ WriteRecord(p) \/ ReadLedger(p) \/ ResetLedger(p)
               \/ List(p) \/ PruneDone(p) \/ Kill(p)
               \/ \E n \in listing[p] : Stat(p, n)
               \/ \E j \in Key : Load(p, j)
        PROVE  k \in Entries'
    BY <1>6, <1>7 DEF OpenLedger, WriteRecord, ReadLedger, ResetLedger, List,
       PruneDone, Kill, Stat, Load, dirVars
  <1>8. CASE Tick \/ UNCHANGED vars
    BY <1>6, <1>8 DEF Tick, vars
  <1> QED
    BY <1>1, <1>2, <1>3, <1>4, <1>5, <1>7, <1>8 DEF Next, Begin, Continue

(* With one process at work no prune removes the entry used last of all,   *)
(* its own Store's included, for any keys, sizes and limit and whatever    *)
(* calls fail.                                                             *)
THEOREM LastUsedIsKept ==
  ASSUME \A p, q \in Proc : p = q
  PROVE  Spec => UsedLastStays
  <1> DEFINE Inv == Typed /\ FilesOK /\ FiniteOK /\ SoloInv
  <1>1. Init => Inv
    BY TypedInit, FilesInit, SweepInit, SoloInit DEF SweepInv
  <1>2. Inv /\ [Next]_vars => Inv'
    BY TypedNext, FilesNext, FiniteNext, SoloNext
  <1>3. Inv /\ [Next]_vars => [\A k \in Entries : UsedLast(k) => k \in Entries']_vars
    BY LastStays
  <1> HIDE DEF Inv
  <1> QED BY <1>1, <1>2, <1>3, PTL DEF Spec, UsedLastStays
=============================================================================
