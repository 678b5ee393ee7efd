------------------------------ MODULE TableSpec ------------------------------
(***************************************************************************)
(* The order table by itself, under any sequence of puts and erases.        *)
(***************************************************************************)
EXTENDS OrderTable, FiniteSets

CONSTANTS Values,
          MaxDropped   \* bound: refused puts

ASSUME TableSpecAssumption == MaxDropped \in Nat

VARIABLES table,
          called       \* the last call, as in OrderMap

callsVars == <<table, called>>

CallsInit == table = EmptyTable /\ called = <<>>

CallPut(k, v) == /\ table.dropped_order_inserts < MaxDropped
                 /\ table' = PutOrder(table, k, v)
                 /\ called' = <<"put", k, v>>

CallErase(k) == /\ table' = EraseOrder(table, k)
                /\ called' = <<"erase", k>>

CallsNext == \/ \E k \in Keys, v \in Values : CallPut(k, v)
             \/ \E k \in Keys : CallErase(k)

CallsSpec == CallsInit /\ [][CallsNext]_callsVars

------------------------------------------------------------------------------
Slot == [state : {Live}, key : Keys, value : Values]
        \cup [state : {Free, Tombstone}, key : {NoOrder}, value : {NoOrder}]

LiveSlots == {i \in SlotIndex : table.slots[i].state = Live}

(* Every slot is free, a tombstone or a whole entry, and order_count_ counts  *)
(* the entries, so that the limit put_order checks is about what is there.   *)
SlotsTypeOK == /\ table.slots \in [SlotIndex -> Slot]
               /\ table.order_count = Cardinality(LiveSlots)
               /\ table.dropped_order_inserts \in 0 .. MaxDropped

(* Whatever was erased and put again before, find_order still reaches every   *)
(* entry: probing for its key ends at it. So no key has two entries either,   *)
(* of which one would come back when the other is erased.                    *)
EveryEntryFound ==
    \A i \in LiveSlots :
        LET key == table.slots[i].key IN
        Found(table, key) /\ Probe(key, ProbeEnd(table, key)) = i

(* The table implements the map, through what find_order finds.              *)
Abstract == INSTANCE OrderMap
              WITH map <- [k \in {k \in Keys : Found(table, k)} |-> OrderOf(table, k)]
ImplementsMap == Abstract!Spec
==============================================================================
