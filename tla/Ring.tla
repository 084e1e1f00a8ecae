-------------------------------- MODULE Ring --------------------------------
(***************************************************************************)
(* The ring of FPGAs.  Every MPI process drives one FPGA, sends to its     *)
(* lower worker and receives from its upper worker: 3->0, 0->1, 1->2, 2->3 *)
(* in the comment of acceleratorInit (mpi_graph_dataflow.cpp).             *)
(***************************************************************************)
EXTENDS Integers

CONSTANT PROCESSOR_NUM      \* the number of FPGAs, which is the MPI world size

ASSUME RingAssumption == PROCESSOR_NUM \in Nat \ {0}

Node == 0 .. PROCESSOR_NUM - 1          \* MPI ranks

upper_worker_idx(n) == IF n = 0 THEN PROCESSOR_NUM - 1 ELSE n - 1

lower_worker_idx(n) == IF n = PROCESSOR_NUM - 1 THEN 0 ELSE n + 1
=============================================================================
