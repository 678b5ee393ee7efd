------------------------------- MODULE MCNbbo -------------------------------
(* Two venues, two bids and two asks, two timestamps in any order, and a       *)
(* buffer that is flushed in the middle of the replay.                        *)
EXTENDS NbboJournal

MCBidQuotes == {[price |-> 1, qty |-> 1], [price |-> 2, qty |-> 2]}
MCAskQuotes == {[price |-> 3, qty |-> 1], [price |-> 4, qty |-> 1]}
==============================================================================
