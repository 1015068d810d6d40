-------------------------------- MODULE Memb --------------------------------
(***************************************************************************)
(* The memory block pool (src/plc-sw/libs/memb/memb.c).  A pool is its     *)
(* array of reference counts; a block is its index, and NULL stands for    *)
(* the null pointer.                                                       *)
(***************************************************************************)
EXTENDS Integers, FiniteSetsExt

CONSTANT num   \* the number of blocks

Blocks == 0..(num - 1)
NULL   == -1

memb_init == [b \in Blocks |-> 0]

Unused(count) == {b \in Blocks : count[b] = 0}

(* The first block that is not in use, and the counts that say it is.      *)
memb_alloc(count) == IF Unused(count) = {} THEN NULL ELSE Min(Unused(count))
Taken(count, b)   == [count EXCEPT ![b] = @ + 1]

(* A block that is already free stays free, another address is ignored.    *)
memb_free(count, b) ==
  IF b \in Blocks /\ count[b] > 0 THEN [count EXCEPT ![b] = @ - 1] ELSE count
=============================================================================
