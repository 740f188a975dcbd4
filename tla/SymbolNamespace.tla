--------------------------- MODULE SymbolNamespace ---------------------------
(***************************************************************************)
(* What a symbol manager promises its users about ids, whatever maps it    *)
(* keeps: every DIE stands for at most one symbol, the symbol of a DIE     *)
(* never changes, and a symbol stands for itself, so that duplicates of    *)
(* duplicates still lead to it in one step.                                *)
(***************************************************************************)
CONSTANTS Dies, Null

VARIABLE canon     \* the symbol of each DIE, named by a DIE; Null: none yet

Init == canon = [d \in Dies |-> Null]

\* The DIE becomes a symbol of its own.
Introduce(d) ==
    /\ canon[d] = Null
    /\ canon' = [canon EXCEPT ![d] = d]

\* The DIE is a duplicate of a known symbol.
Merge(d, s) ==
    /\ canon[d] = Null
    /\ canon[s] = s
    /\ canon' = [canon EXCEPT ![d] = s]

Next == \E d \in Dies : Introduce(d) \/ \E s \in Dies : Merge(d, s)

Spec == Init /\ [][Next]_canon

=============================================================================
