-------------------------- MODULE MCSchedulerQueue --------------------------
(***************************************************************************)
(* Instances of SchedulerQueue for TLC: two operations of one producer and  *)
(* one of another, so that a producer can be passed, return and be passed    *)
(* over again.                                                               *)
(***************************************************************************)
EXTENDS SchedulerQueue, TLC

CONSTANTS o1, o2, o3, p1, p2

Symmetry == Permutations({o1, o2})

MCProducerOf == (o1 :> p1) @@ (o2 :> p1) @@ (o3 :> p2)
MCOneProducer == [o \in {o1, o2} |-> p1]
=============================================================================
