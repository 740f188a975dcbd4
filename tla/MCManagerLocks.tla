--------------------------- MODULE MCManagerLocks ----------------------------
(***************************************************************************)
(* One thread makes any call, the other reads a DIE and then makes one of   *)
(* the calls that take several steps.                                       *)
(***************************************************************************)
EXTENDS ManagerLocks

CONSTANTS t1, t2

ClientCalls == {"findSymbolByID", "getAliases", "getRevID", "findArrayByTypeID", "removeSymbol",
                "findSymbolByName", "memberByName", "cleanFunctions", "cleanArrays"} \cup DOMAIN Looks
LaterCalls == {"findSymbolByID", "getAliases", "removeSymbol", "memberByName",
               "cleanFunctions", "cleanArrays", "function", "variable", "member"}
TwoThreads == (t1 :> <<DieClasses \cup ClientCalls>>) @@ (t2 :> <<{"typedef", "function", "array"}, LaterCalls>>)

=============================================================================
