------------------------------ MODULE MCFailover ------------------------------
(* Instances of the arbiter and the pipeline for TLC. *)
EXTENDS ABFailover

(* Timestamps that never run backwards within a venue and tie across venues. *)
MonotoneTs == [v \in Venues |-> [s \in SeqNumbers |-> (s + v) \div 2]]

(* make_source: the venues take turns. *)
RoundRobin == [i \in 1 .. 7 |-> [venue |-> (i - 1) % 2, sequence |-> (i + 1) \div 2]]
==============================================================================
