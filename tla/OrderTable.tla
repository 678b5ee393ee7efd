------------------------------ MODULE OrderTable ------------------------------
(***************************************************************************)
(* The order table of OrderBookEngine: open addressing with linear probing  *)
(* over a fixed array of slots, an erased slot stays behind as a tombstone. *)
(* As operators on a table record, which the order book engine and the      *)
(* specification of the table by itself (TableSpec) share.                  *)
(*                                                                          *)
(* mix_key is any function Hash of the keys into the slots. What an erased   *)
(* slot still holds is never read, so it is cleared here.                   *)
(***************************************************************************)
EXTENDS Integers

CONSTANTS Size,      \* orders_.size()
          Keys,      \* the order keys
          Hash       \* mix_key(key) & order_mask_

ASSUME TableAssumption == Size \in Nat \ {0} /\ Hash \in [Keys -> 0 .. Size - 1]

SlotIndex == 0 .. Size - 1

(* OrderSlot::state *)
Free == 0
Live == 1
Tombstone == 2

NoOrder == [none |-> TRUE]
EmptySlot == [state |-> Free, key |-> NoOrder, value |-> NoOrder]
ErasedSlot == [state |-> Tombstone, key |-> NoOrder, value |-> NoOrder]

EmptyTable == [slots |-> [i \in SlotIndex |-> EmptySlot],
               order_count |-> 0, dropped_order_inserts |-> 0]

(* The slot that the loops look at in their n-th turn. *)
Probe(key, n) == (Hash[key] + n) % Size

LiveAt(t, key, i) == t.slots[i].state = Live /\ t.slots[i].key = key

(* A turn at which find_order, put_order and erase_order leave their loop. *)
Stops(t, key, n) == LET i == Probe(key, n) IN t.slots[i].state = Free \/ LiveAt(t, key, i)

(* The first such turn; Size when the loop runs out.                         *)
ProbeEnd(t, key) ==
    IF \E n \in SlotIndex : Stops(t, key, n)
    THEN CHOOSE n \in SlotIndex : Stops(t, key, n) /\ \A m \in 0 .. n - 1 : ~Stops(t, key, m)
    ELSE Size

(* find_order returns a pointer. *)
Found(t, key) == LET n == ProbeEnd(t, key) IN n < Size /\ LiveAt(t, key, Probe(key, n))

OrderOf(t, key) == t.slots[Probe(key, ProbeEnd(t, key))].value

SetOrder(t, key, value) ==
    [t EXCEPT !.slots[Probe(key, ProbeEnd(t, key))] =
        [state |-> Live, key |-> key, value |-> value]]

Dropped(t) == [t EXCEPT !.dropped_order_inserts = @ + 1]

(* Where a new key goes: the first tombstone passed, or the free slot that    *)
(* ended the loop.                                                           *)
InsertionSlot(t, key) ==
    LET end    == ProbeEnd(t, key)
        passed == {n \in 0 .. end - 1 : t.slots[Probe(key, n)].state = Tombstone}
    IN IF passed = {} THEN Probe(key, end)
       ELSE Probe(key, CHOOSE n \in passed : \A m \in passed : n <= m)

(* Mutant of PutOrder: the first tombstone is taken without looking further   *)
(* for the key.                                                              *)
PutOrderEager(t, key, value) ==
    LET taken == {n \in 0 .. ProbeEnd(t, key) : n < Size /\ t.slots[Probe(key, n)].state # Live}
    IN IF t.order_count > Size \div 2 \/ (taken = {} /\ ~Found(t, key)) THEN Dropped(t)
       ELSE IF taken = {} THEN SetOrder(t, key, value)
       ELSE [t EXCEPT !.slots[Probe(key, CHOOSE n \in taken : \A m \in taken : n <= m)] =
                          [state |-> Live, key |-> key, value |-> value],
                      !.order_count = @ + 1]

(* put_order: refused above half load, and when the loop meets no free slot,  *)
(* be there tombstones or not.                                               *)
PutOrder(t, key, value) ==
    IF t.order_count > Size \div 2 \/ ProbeEnd(t, key) = Size THEN Dropped(t)
    ELSE IF Found(t, key) THEN SetOrder(t, key, value)
    ELSE [t EXCEPT !.slots[InsertionSlot(t, key)] = [state |-> Live, key |-> key, value |-> value],
                   !.order_count = @ + 1]

EraseOrder(t, key) ==
    IF ~Found(t, key) THEN t
    ELSE [t EXCEPT !.slots[Probe(key, ProbeEnd(t, key))] = ErasedSlot,
                   !.order_count = IF @ > 0 THEN @ - 1 ELSE @]
==============================================================================
