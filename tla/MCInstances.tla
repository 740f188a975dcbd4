---------------------------- MODULE MCInstances ------------------------------
(***************************************************************************)
(* A kernel list of two tasks that also point at each other, its head, a    *)
(* pointer to a task and a pointer to a pointer, on four pages.             *)
(***************************************************************************)
EXTENDS Instances

Base(encoding) == [kind |-> "base", byteSize |-> 1, encoding |-> encoding, members |-> <<>>]
Ref(kind, t) == [kind |-> kind, of |-> t, length |-> 2, byteSize |-> 0, encoding |-> "none", members |-> <<>>]
Struct(size, members) == [kind |-> "struct", byteSize |-> size, encoding |-> "none", members |-> members]
At(t, offset) == [type |-> t, offset |-> offset]

TaskTypes ==
    [int |-> Base("signed"), uint |-> Base("unsigned"), int2 |-> Ref("array", "int"),
     cuint |-> Ref("const", "uint"),
     list_head |-> Struct(1, [next |-> At("list_p", 0)]), list_p |-> Ref("pointer", "list_head"),
     task |-> Struct(5, [val |-> At("cuint", 0), list |-> At("list_head", 1),
                         peer |-> At("task_tp", 2), arr |-> At("int2", 3)]),
     task_t |-> Ref("typedef", "task"), task_p |-> Ref("pointer", "task"),
     task_tp |-> Ref("pointer", "task_t"),
     int_p |-> Ref("pointer", "int"), int_pp |-> Ref("pointer", "int_p")]
TaskVariables ==
    [head |-> [type |-> "list_head", address |-> 1], cur |-> [type |-> "task_p", address |-> 2],
     p |-> [type |-> "int_p", address |-> 3], a |-> [type |-> "task_t", address |-> 4],
     b |-> [type |-> "task_t", address |-> 9], pp |-> [type |-> "int_pp", address |-> 14],
     declared |-> [type |-> "task_t", address |-> 0]]

=============================================================================
