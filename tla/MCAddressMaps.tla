---------------------------- MODULE MCAddressMaps ----------------------------
(***************************************************************************)
(* Inputs for the runs of AddressMaps: plain names for the maps that do not *)
(* make names unique, and names that end in underscores for the others.    *)
(***************************************************************************)
EXTENDS AddressMaps

Plain == {n \in Names : n[2] = 0}
AllMaps == [elf |-> (Names \X {1, 2}) \cup (Plain \X {0}), function |-> Plain \X {1, 2},
            sysmap |-> Plain \X {1}, dwarf |-> Plain \X {1}]
SysmapOnly == [elf |-> {}, function |-> {}, sysmap |-> Names \X Addresses, dwarf |-> {}]

=============================================================================
