--------------------------- MODULE MCSymbolManager ---------------------------
(* SymbolManager on small inputs, and its refinement of SymbolNamespace.     *)
EXTENDS SymbolManager, TLC

\* The DIEs of two files.
Dies21 == {<<1, 1>>, <<2, 1>>, <<1, 2>>}
Dies22 == {<<1, 1>>, <<2, 1>>, <<1, 2>>, <<2, 2>>}
Dies31 == {<<1, 1>>, <<2, 1>>, <<3, 1>>, <<1, 2>>}

\* The names are interchangeable.
Symmetry == Permutations(Names)

=============================================================================
