----------------------------- MODULE LossyStore -----------------------------
(***************************************************************************)
(* What engine.Cache promises of a store that several processes share:     *)
(* each call takes effect at one instant between its beginning and its     *)
(* end, or, a Put that fails, at none; a Get answers with what the key     *)
(* then holds; and an entry may be lost at any time, but never altered,    *)
(* cut short or put under another key.                                     *)
(***************************************************************************)
CONSTANTS Proc, Key, Value, None

VARIABLES
    kept,   \* the value each key holds, or None
    call    \* the call each process is in

vars == <<kept, call>>

NoCall == [op |-> "none", key |-> None, value |-> None, done |-> FALSE]

Init ==
    /\ kept = [k \in Key |-> None]
    /\ call = [p \in Proc |-> NoCall]

Puts == [op: {"put"}, key: Key, value: Value, done: {FALSE}]

BeginPut(p) ==
    /\ call[p] = NoCall
    /\ call'[p] \in Puts
    /\ call' = [call EXCEPT ![p] = call'[p]]
    /\ UNCHANGED kept

Put(p) ==
    /\ call[p].op = "put" /\ ~call[p].done
    /\ kept' = [kept EXCEPT ![call[p].key] = call[p].value]
    /\ call' = [call EXCEPT ![p] = [op |-> "put", key |-> call[p].key,
                                    value |-> call[p].value, done |-> TRUE]]

Get(p, k) ==
    /\ call[p] = NoCall
    /\ kept[k] # None
    /\ call' = [call EXCEPT ![p] =
                  [op |-> "get", key |-> k, value |-> kept[k], done |-> TRUE]]
    /\ UNCHANGED kept

End(p) ==
    /\ call' = [call EXCEPT ![p] = NoCall]
    /\ UNCHANGED kept

Drop(k) ==
    /\ kept' = [kept EXCEPT ![k] = None]
    /\ UNCHANGED call

Next ==
    \/ \E p \in Proc :
          \/ BeginPut(p)
          \/ Put(p)
          \/ \E k \in Key : Get(p, k)
          \/ End(p)
    \/ \E k \in Key : Drop(k)

Spec == Init /\ [][Next]_vars
=============================================================================
