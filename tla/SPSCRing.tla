------------------------------- MODULE SPSCRing -------------------------------
(***************************************************************************)
(* SPSCRingBuffer<T, Size>: one producer thread in try_push, one consumer    *)
(* thread in try_pop, one shared access per step. Each index has one writer, *)
(* which reads its own index as it left it; a load of the other's index may  *)
(* return a stale value, though never one older than the last load returned. *)
(* The release stores and acquire loads order the slot accesses; that no two *)
(* steps touch a slot at once (NoSlotRace) is what makes the plain accesses  *)
(* to the slots well defined.                                                *)
(*                                                                          *)
(* Items are named by the order of the pushes: the item pushed by the k-th   *)
(* successful try_push (counting from 0) is k. A refused push or pop changes *)
(* nothing.                                                                  *)
(***************************************************************************)
EXTENDS Integers

CONSTANTS Size,        \* a power of two
          MaxItems     \* bound: items the producer offers

ASSUME RingAssumption == Size \in Nat \ {0} /\ MaxItems \in Nat

VARIABLES head, tail,  \* head_, tail_
          buffer,      \* buffer_ptr(); -1 is the value of a slot never written
          producer,    \* where try_push is: idle, or about to write or to publish
          consumer,    \* where try_pop is: idle, or about to read or to release
          item,        \* the consumer's local copy
          tailSeen,    \* the pops behind the value of tail_ the producer loaded last
          headSeen,    \* the pushes behind the value of head_ the consumer loaded last
          pushed, popped,   \* history: successful calls
          received     \* history: the item the last successful try_pop returned

ringVars == <<head, tail, buffer, producer, consumer, item, tailSeen, headSeen,
              pushed, popped, received>>

Slot == 0 .. Size - 1

(* (i + 1U) & mask_, Size being a power of two. *)
Advance(i) == (i + 1) % Size

RingInit ==
    /\ head = 0 /\ tail = 0
    /\ buffer = [i \in Slot |-> -1]
    /\ producer = "idle" /\ consumer = "idle"
    /\ item = -1 /\ tailSeen = 0 /\ headSeen = 0
    /\ pushed = 0 /\ popped = 0 /\ received = -1

------------------------------------------------------------------------------
(* try_push *)

(* Mutant of PushClaim: a full ring is not refused. *)
PushClaimUnchecked ==
    /\ producer = "idle" /\ pushed < MaxItems
    /\ producer' = "write"
    /\ UNCHANGED <<head, tail, buffer, consumer, item, tailSeen, headSeen, pushed, popped,
                   received>>

(* Load both indices and find the ring not full. *)
PushClaim ==
    /\ producer = "idle" /\ pushed < MaxItems
    /\ \E n \in tailSeen .. popped :
           Advance(head) # n % Size /\ tailSeen' = n
    /\ producer' = "write"
    /\ UNCHANGED <<head, tail, buffer, consumer, item, headSeen, pushed, popped, received>>

(* Mutant of PushWrite: the item goes to the slot after head. *)
PushWriteAhead ==
    /\ producer = "write"
    /\ buffer' = [buffer EXCEPT ![Advance(head)] = pushed]
    /\ producer' = "publish"
    /\ UNCHANGED <<head, tail, consumer, item, tailSeen, headSeen, pushed, popped, received>>

PushWrite ==
    /\ producer = "write"
    /\ buffer' = [buffer EXCEPT ![head] = pushed]
    /\ producer' = "publish"
    /\ UNCHANGED <<head, tail, consumer, item, tailSeen, headSeen, pushed, popped, received>>

PushPublish ==
    /\ producer = "publish"
    /\ head' = Advance(head)
    /\ pushed' = pushed + 1
    /\ producer' = "idle"
    /\ UNCHANGED <<tail, buffer, consumer, item, tailSeen, headSeen, popped, received>>

------------------------------------------------------------------------------
(* try_pop *)

(* Mutant of PopClaim: a single item is taken for none. *)
PopClaimTwo ==
    /\ consumer = "idle"
    /\ \E n \in headSeen .. pushed :
           tail # n % Size /\ Advance(tail) # n % Size /\ headSeen' = n
    /\ consumer' = "read"
    /\ UNCHANGED <<head, tail, buffer, producer, item, tailSeen, pushed, popped, received>>

(* Load both indices and find the ring not empty. *)
PopClaim ==
    /\ consumer = "idle"
    /\ \E n \in headSeen .. pushed :
           tail # n % Size /\ headSeen' = n
    /\ consumer' = "read"
    /\ UNCHANGED <<head, tail, buffer, producer, item, tailSeen, pushed, popped, received>>

PopRead ==
    /\ consumer = "read"
    /\ item' = buffer[tail]
    /\ consumer' = "release"
    /\ UNCHANGED <<head, tail, buffer, producer, tailSeen, headSeen, pushed, popped, received>>

PopRelease ==
    /\ consumer = "release"
    /\ tail' = Advance(tail)
    /\ popped' = popped + 1
    /\ received' = item
    /\ consumer' = "idle"
    /\ UNCHANGED <<head, buffer, producer, item, tailSeen, headSeen, pushed>>

RingNext == \/ PushClaim \/ PushWrite \/ PushPublish
            \/ PopClaim \/ PopRead \/ PopRelease

RingSpec == RingInit /\ [][RingNext]_ringVars

(* Each thread's calls run to their end; a thread may stop calling. *)
RingFairness == /\ WF_ringVars(PushWrite) /\ WF_ringVars(PushPublish)
                /\ WF_ringVars(PopClaim) /\ WF_ringVars(PopRead) /\ WF_ringVars(PopRelease)

FairRingSpec == RingSpec /\ RingFairness

------------------------------------------------------------------------------
RingTypeOK ==
    /\ head \in Slot /\ tail \in Slot
    /\ buffer \in [Slot -> Int]
    /\ producer \in {"idle", "write", "publish"}
    /\ consumer \in {"idle", "read", "release"}
    /\ item \in Int /\ received \in Int
    /\ pushed \in 0 .. MaxItems /\ popped \in Nat
    /\ tailSeen \in Nat /\ headSeen \in Nat

(* The indices are the two counts modulo Size although neither count is kept, *)
(* and one slot always stays free, so that head_ = tail_ means empty only.    *)
IndicesAgree ==
    /\ head = pushed % Size /\ tail = popped % Size
    /\ popped <= pushed /\ pushed - popped <= Size - 1

(* Every item between the indices is in its slot, unharmed by a push that is  *)
(* under way.                                                                *)
ContentsIntact == \A k \in popped .. pushed - 1 : buffer[k % Size] = k

(* The producer never writes the slot that the consumer is reading: without   *)
(* this the plain accesses to the buffer would be a data race.               *)
NoSlotRace == ~(producer = "write" /\ consumer = "read" /\ head = tail)

(* What a claim promises: a stale index errs on the safe side, a claimed push *)
(* has a free slot, a claimed pop has an item, however far the other thread   *)
(* got since; the written and the copied items are the right ones.           *)
ClaimsHold ==
    /\ tailSeen <= popped /\ pushed - tailSeen <= Size - 1
    /\ popped <= headSeen /\ headSeen <= pushed
    /\ producer # "idle" => pushed < MaxItems /\ pushed - tailSeen < Size - 1
    /\ producer = "publish" => buffer[head] = pushed
    /\ consumer # "idle" => popped < headSeen
    /\ consumer = "release" => item = popped

(* The inductive invariant. *)
RingInv == RingTypeOK /\ IndicesAgree /\ ContentsIntact /\ ClaimsHold

(* The ring is a FIFO queue of Size - 1 items: nothing is lost, duplicated,   *)
(* reordered or read before it is written.                                   *)
FIFO == INSTANCE BoundedFIFO WITH Capacity <- Size - 1
ImplementsFIFO == FIFO!Spec

(* Every item that went in comes out, when the consumer keeps calling.       *)
EveryItemArrives == \A k \in 1 .. MaxItems : pushed >= k ~> popped >= k
==============================================================================
