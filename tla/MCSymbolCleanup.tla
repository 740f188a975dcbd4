--------------------------- MODULE MCSymbolCleanup ---------------------------
(* SymbolCleanup on files of a few DIEs.                                      *)
EXTENDS SymbolCleanup, TLC

\* The DIEs of two files.
Dies11 == {<<1, 1>>, <<1, 2>>}
Dies31 == {<<1, 1>>, <<2, 1>>, <<3, 1>>, <<1, 2>>}
Dies32 == Dies31 \cup {<<2, 2>>}

\* How often each run calls which operation.  A second cleanArrays would read
\* arrays that the first one deleted.
FunctionCalls == [cleanFunctions |-> 2, removeSymbol |-> 1]
ArrayCalls == [cleanArrays |-> 1]
RemovalCalls == [removeSymbol |-> 1]

=============================================================================
