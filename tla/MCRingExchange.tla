--------------------------- MODULE MCRingExchange ---------------------------
(* Schedules for TLC: partitions are dealt to the nodes in turn. *)
EXTENDS RingRefinement, SequencesExt

MCSchedule ==
    [n \in Node |->
        SetToSortSeq({p \in Partition : p % PROCESSOR_NUM = n},
                     LAMBDA p, q : p < q)]
=============================================================================
