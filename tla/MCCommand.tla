------------------------------ MODULE MCCommand ------------------------------
(* The instance of Command that TLC checks. *)
EXTENDS Command, TLC

\* No definition tells one process from another.
Symmetry == Permutations(Procs)

\* The tokens an argument list is made of.
Tokens == {"spec", "-o", "-opt", "--opt", "--explain", "--", "--cache"}

\* Every list of up to three tokens that has the spec in it, and none.
ArgLines == {<<>>} \cup {a \in UNION {[1 .. n -> Tokens] : n \in 1 .. 3} :
                            \E i \in DOMAIN a : a[i] = "spec"}
=============================================================================
