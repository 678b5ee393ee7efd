------------------------------ MODULE MCSharded ------------------------------
(* Two venues, two shards with a symbol each; venue 0 sends timestamps out of order. *)
EXTENDS ShardedPipeline

MCShardFor == "A" :> 0 @@ "B" :> 1
MCExchangeTs == 0 :> <<2, 1, 3>> @@ 1 :> <<1, 2, 3>>
==============================================================================
