--------------------------- MODULE ShardedPipeline ---------------------------
(***************************************************************************)
(* ShardedPipeline: the owner thread routes each submitted event by its      *)
(* symbol into the ring of one shard, renumbered per shard and venue; one    *)
(* worker thread per shard feeds its own pipeline from its ring; finalize    *)
(* closes the input, joins the workers and puts the submitted events into    *)
(* one deterministic order. close_input may be called from any thread.       *)
(*                                                                          *)
(* A ring is a bounded FIFO, which SPSCRing shows try_push and try_pop to    *)
(* implement. A worker looks at input_closed_ in a step of its own, after a   *)
(* pop that found nothing.                                                   *)
(***************************************************************************)
EXTENDS DeterministicMerger, SequencesExt

CONSTANTS Shards,         \* indices of workers_
          Symbols,
          ShardFor,       \* shard_for_symbol
          ShardCapacity,
          MaxEvents,      \* bound: events submitted per venue
          MaxNumbers      \* bound: numbers given per shard and venue

(* local_seq_by_shard_ has an entry for the venues 0, 1 and 2.                *)
ASSUME ShardedAssumption ==
    /\ Venues \subseteq 0 .. 2
    /\ ShardFor \in [Symbols -> Shards]
    /\ ShardCapacity \in Nat \ {0} /\ MaxEvents \in Nat /\ MaxNumbers \in Nat
    /\ \A v \in Venues, n \in 1 .. MaxEvents : ExchangeTs[v][n] \in Nat

VARIABLES owner,        \* where the owner thread is
          held,         \* the event submit is trying to push
          local_seq,    \* local_seq_by_shard_
          ring, worker, \* per shard: the ring, and where its worker is
          processed,    \* per shard: what its pipeline was given
          input_closed,
          submitted,    \* routed_events_in_submit_order_
          ordered,      \* incremental_crc_ordered_
          folded,       \* the events behind incremental_reaggregated_crc_
          queues,       \* the merger of finalize
          reaggregated, \* the events behind reaggregated_crc, in order
          last_poll,    \* history: events pushed when a worker last found nothing
          refused       \* history: per shard and venue, the numbers of the events
                        \* that submit gave up

vars == <<owner, held, local_seq, ring, worker, processed, input_closed, submitted,
          ordered, folded, queues, reaggregated, last_poll, refused>>

ownerVars == <<held, local_seq, refused, submitted, ordered, folded, queues, reaggregated>>

Nothing == [none |-> TRUE]

Init ==
    /\ owner = "ready" /\ held = Nothing
    /\ local_seq = [s \in Shards |-> [v \in Venues |-> 0]]
    /\ ring = [s \in Shards |-> <<>>]
    /\ worker = [s \in Shards |-> "poll"]
    /\ processed = [s \in Shards |-> <<>>]
    /\ input_closed = FALSE
    /\ submitted = <<>> /\ ordered = TRUE /\ folded = <<>>
    /\ queues = NoQueues /\ reaggregated = <<>>
    /\ last_poll = [s \in Shards |-> 0]
    /\ refused = [s \in Shards |-> [v \in Venues |-> {}]]

(* How many of the indices in J are among the first i. *)
CountUpTo(J, i) == Cardinality({j \in J : j <= i})

(* The places of a venue's events in a sequence, their number, and how many of *)
(* the venue of event i there are up to it.                                   *)
OfVenue(events, v) == {j \in DOMAIN events : events[j].venue = v}
VenueCount(events, v) == CountUpTo(OfVenue(events, v), Len(events))
VenueRank(events, i) == CountUpTo(OfVenue(events, events[i].venue), i)

(* The n-th event of a venue in the order of submission. *)
SubmittedOf(v, n) ==
    submitted[CHOOSE i \in OfVenue(submitted, v) : VenueRank(submitted, i) = n]

(* Mutant of TargetShard: events are routed by venue. *)
TargetShardByVenue(ev) == IF ev.venue \in Shards THEN ev.venue ELSE ShardFor[ev.symbol]

(* The worker whose ring submit pushes the event into.                       *)
TargetShard(ev) == ShardFor[ev.symbol]

(* try_push would succeed. *)
HasRoom(shard) == Len(ring[shard]) < ShardCapacity

(* Mutant of LocalSequence: one counter for all venues of a shard.            *)
LocalSequenceShared(shard, v) == [local_seq EXCEPT ![shard] = [u \in Venues |-> @[u] + 1]]

LocalSequence(shard, v) == [local_seq EXCEPT ![shard][v] = @ + 1]

(* submit up to its loop: the next event of a venue, renumbered for its shard. *)
(* After a refusal it is the same event again, with a new number.             *)
Submit(v, symbol) ==
    LET shard == ShardFor[symbol] IN
    /\ owner = "ready"
    /\ VenueCount(submitted, v) < MaxEvents /\ local_seq[shard][v] < MaxNumbers
    /\ local_seq' = LocalSequence(shard, v)
    /\ held' = [venue |-> v, sequence |-> VenueCount(submitted, v) + 1, symbol |-> symbol,
                local |-> local_seq'[shard][v]]
    /\ owner' = "pushing"
    /\ UNCHANGED <<ring, worker, processed, input_closed, submitted, ordered,
                   folded, queues, reaggregated, last_poll, refused>>

(* update_incremental_reaggregation_crc. *)
FoldEvent(ev) ==
    /\ ordered' = (ordered /\ (submitted = <<>> \/ ~LessEvent(ev, Last(submitted))))
    /\ folded' = IF ordered' THEN Append(folded, ev) ELSE folded

(* try_push succeeds and submit returns true. *)
PushEvent ==
    LET shard == TargetShard(held) IN
    /\ owner = "pushing"
    /\ HasRoom(shard)
    /\ ring' = [ring EXCEPT ![shard] = Append(@, held)]
    /\ FoldEvent(held)
    /\ submitted' = Append(submitted, held)
    /\ owner' = "ready" /\ held' = Nothing
    /\ UNCHANGED <<local_seq, worker, processed, input_closed, queues, reaggregated,
                   last_poll, refused>>

(* Mutant of GiveUp: submit spins on a full ring whether the input is closed   *)
(* or not.                                                                   *)
GiveUpNever == owner = "pushing" /\ UNCHANGED vars

(* try_push found the ring full and input_closed_ is set: submit returns       *)
(* false. The number it gave the event stays used, and the caller may submit   *)
(* the event again.                                                          *)
GiveUp ==
    /\ owner = "pushing"
    /\ ~HasRoom(TargetShard(held))
    /\ input_closed
    /\ owner' = "ready" /\ held' = Nothing
    /\ refused' = [refused EXCEPT ![TargetShard(held)][held.venue] = @ \union {held.local}]
    /\ UNCHANGED <<local_seq, ring, worker, processed, input_closed, submitted, ordered,
                   folded, queues, reaggregated, last_poll>>

CloseInput ==
    /\ ~input_closed /\ input_closed' = TRUE
    /\ UNCHANGED <<owner, ring, worker, processed, last_poll, ownerVars>>

(* finalize: close_input, then join every worker. *)
Finalize ==
    /\ owner = "ready"
    /\ owner' = "joining" /\ input_closed' = TRUE
    /\ UNCHANGED <<ring, worker, processed, last_poll, ownerVars>>

EventIds(events) ==
    [i \in DOMAIN events |-> [venue |-> events[i].venue, sequence |-> events[i].sequence]]

(* is_deterministic_ordered. *)
DeterministicOrdered(events) ==
    \A i \in 2 .. Len(events) : ~LessEvent(events[i], events[i - 1])

(* finalize, once every worker has been joined: the events folded so far, or   *)
(* all events pushed into a merger.                                          *)
Reaggregate ==
    /\ owner = "joining"
    /\ \A s \in Shards : worker[s] = "done"
    /\ IF DeterministicOrdered(submitted) /\ ordered
       THEN /\ owner' = "done" /\ reaggregated' = EventIds(folded)
            /\ UNCHANGED queues
       ELSE /\ owner' = "draining" /\ UNCHANGED reaggregated
            /\ queues' = [v \in Venues |->
                            [n \in 1 .. VenueCount(submitted, v) |-> SubmittedOf(v, n).sequence]]
    /\ UNCHANGED <<held, local_seq, refused, ring, worker, processed, last_poll,
                   input_closed, submitted, ordered, folded>>

(* finalize's loop over pop_next. *)
DrainMerger ==
    /\ owner = "draining"
    /\ IF NothingQueued(queues)
       THEN owner' = "done" /\ UNCHANGED <<queues, reaggregated>>
       ELSE /\ reaggregated' = Append(reaggregated, FrontOf(queues, BestVenue(queues)))
            /\ queues' = PopBest(queues) /\ UNCHANGED owner
    /\ UNCHANGED <<held, local_seq, refused, ring, worker, processed, last_poll,
                   input_closed, submitted, ordered, folded>>

(* worker_loop: try_pop gives an event to the pipeline, or finds nothing.      *)
PopEvent(s) ==
    /\ worker[s] = "poll" /\ ring[s] # <<>>
    /\ processed' = [processed EXCEPT ![s] = Append(@, Head(ring[s]))]
    /\ ring' = [ring EXCEPT ![s] = Tail(@)]
    /\ UNCHANGED <<owner, worker, input_closed, last_poll, ownerVars>>

PushedTo(s) == Len(processed[s]) + Len(ring[s])

FindEmpty(s) ==
    /\ worker[s] = "poll" /\ ring[s] = <<>>
    /\ worker' = [worker EXCEPT ![s] = "check"]
    /\ last_poll' = [last_poll EXCEPT ![s] = PushedTo(s)]
    /\ UNCHANGED <<owner, ring, processed, input_closed, ownerVars>>

(* The flag decides between another turn and the end of the worker. *)
CheckClosed(s) ==
    /\ worker[s] = "check"
    /\ worker' = [worker EXCEPT ![s] = IF input_closed THEN "done" ELSE "poll"]
    /\ UNCHANGED <<owner, ring, processed, last_poll, input_closed, ownerVars>>

WorkerStep(s) == PopEvent(s) \/ FindEmpty(s) \/ CheckClosed(s)

OwnerStep ==
    \/ \E v \in Venues, symbol \in Symbols : Submit(v, symbol)
    \/ PushEvent \/ GiveUp \/ Finalize \/ Reaggregate \/ DrainMerger

Finished == owner = "done" /\ UNCHANGED vars

Next == OwnerStep \/ CloseInput \/ (\E s \in Shards : WorkerStep(s)) \/ Finished

Spec == Init /\ [][Next]_vars

(* The scheduler runs every thread that is not blocked. *)
FairSpec == Spec /\ WF_vars(OwnerStep) /\ \A s \in Shards : WF_vars(WorkerStep(s))

------------------------------------------------------------------------------

(* A worker's pipeline is given the numbers 1, 2, 3, ... of each venue in turn,  *)
(* so that its sequencer does not meet the gaps the sharding tore into the      *)
(* venue's own numbers. The one gap it can meet is the number of an event that  *)
(* submit gave up on a full ring after the close: the caller that submits it    *)
(* again gets a new number.                                                   *)
GapsAreRefusals ==
    \A s \in Shards : \A i \in DOMAIN processed[s] :
        LET ev == processed[s][i]
            Before(n) == \E j \in 1 .. i : processed[s][j].venue = ev.venue
                                          /\ processed[s][j].local = n
        IN /\ \A j \in 1 .. i - 1 : processed[s][j].venue = ev.venue
                                        => processed[s][j].local < ev.local
           /\ \A n \in 1 .. ev.local : n \in refused[s][ev.venue] <=> ~Before(n)

(* The places of the events of a shard's symbols. *)
OfShard(events, s) == {j \in DOMAIN events : ShardFor[events[j].symbol] = s}

(* All events of a symbol meet in one pipeline, in the order of submission:    *)
(* what a worker has processed is a prefix of what was submitted for its      *)
(* symbols, whoever closed the input and when. Closing discards nothing that   *)
(* was in a ring: a worker that has ended has processed every event pushed     *)
(* before its last poll. (One pushed between that poll and the load of         *)
(* input_closed_ stays behind.)                                               *)
SymbolOrderKept ==
    \A s \in Shards :
        /\ Len(processed[s]) <= CountUpTo(OfShard(submitted, s), Len(submitted))
        /\ \A i \in OfShard(submitted, s) :
              LET k == CountUpTo(OfShard(submitted, s), i)
              IN k <= Len(processed[s]) => processed[s][k] = submitted[i]
        /\ worker[s] = "done" => Len(processed[s]) = last_poll[s]

(* An event that was at the front of its venue's queue when another went out is *)
(* the greater of the two.                                                   *)
FrontsWait(out) ==
    \A i, j \in DOMAIN out :
        i < j /\ (\A k \in i .. j - 1 : out[k].venue # out[j].venue) => LessEvent(out[i], out[j])

(* The deterministic merge of the submitted events, by what characterises it: *)
(* all events of every venue in their order, and FrontsWait.                  *)
IsMerge(out, events) ==
    /\ \A v \in Venues : VenueCount(out, v) = VenueCount(events, v)
    /\ \A i \in DOMAIN out, k \in DOMAIN events :
          out[i].venue = events[k].venue /\ VenueRank(out, i) = VenueRank(events, k)
              => out[i].sequence = events[k].sequence
    /\ FrontsWait(out)

(* The order behind reaggregated_crc is the deterministic merge, on the fast   *)
(* path as well as off it: folding the CRC while the events come in agrees    *)
(* with merging them at the end.                                             *)
ReaggregatedIsMerge == owner = "done" => IsMerge(reaggregated, submitted)

(* finalize returns: submit does not spin for ever on the full ring of a       *)
(* worker that has ended, and every worker ends once the input is closed.     *)
FinalizeReturns == <>(owner = "done")
------------------------------------------------------------------------------
(* The inductive invariant behind the first three. *)

Events == [venue : Venues, sequence : 1 .. MaxEvents, symbol : Symbols, local : Nat]
Ids == [venue : Venues, sequence : 1 .. MaxEvents]

TypeOK ==
    /\ owner \in {"ready", "pushing", "joining", "draining", "done"}
    /\ owner = "pushing" => held \in Events
    /\ local_seq \in [Shards -> [Venues -> Nat]]
    /\ ring \in [Shards -> Seq(Events)] /\ processed \in [Shards -> Seq(Events)]
    /\ worker \in [Shards -> {"poll", "check", "done"}]
    /\ input_closed \in BOOLEAN /\ ordered \in BOOLEAN
    /\ submitted \in Seq(Events) /\ folded \in Seq(Events)
    /\ queues \in [Venues -> Seq(1 .. MaxEvents)] /\ reaggregated \in Seq(Ids)
    /\ last_poll \in [Shards -> Nat]
    /\ refused \in [Shards -> [Venues -> SUBSET Nat]]

(* What was pushed to a shard: the events it has processed and those in its ring. *)
Pushed(s) == processed[s] \o ring[s]

(* Every submitted event is at its place among those pushed to its shard. *)
Routed(s) ==
    /\ Len(Pushed(s)) = CountUpTo(OfShard(submitted, s), Len(submitted))
    /\ \A i \in OfShard(submitted, s) : Pushed(s)[CountUpTo(OfShard(submitted, s), i)] = submitted[i]

(* A shard's numbers of a venue are used once each: by an event pushed, in the  *)
(* order of the numbers, by one given up, or by the one that waits for room.   *)
PushedAs(s, v, n) == \E i \in DOMAIN Pushed(s) : Pushed(s)[i].venue = v /\ Pushed(s)[i].local = n

WaitsAs(s, v, n) ==
    owner = "pushing" /\ held.venue = v /\ held.local = n /\ ShardFor[held.symbol] = s

Rising(events) ==
    \A i, j \in DOMAIN events :
        i < j /\ events[i].venue = events[j].venue => events[i].local < events[j].local

Numbered(s) ==
    /\ Rising(Pushed(s))
    /\ \A v \in Venues, n \in Nat :
          /\ n \in 1 .. local_seq[s][v] <=>
                n \in refused[s][v] \/ PushedAs(s, v, n) \/ WaitsAs(s, v, n)
          /\ n \in refused[s][v] => ~PushedAs(s, v, n) /\ ~WaitsAs(s, v, n)
          /\ WaitsAs(s, v, n) => n = local_seq[s][v] /\ ~PushedAs(s, v, n)

(* A worker that has found nothing takes nothing before it polls again. *)
Polled(s) == worker[s] # "poll" => Len(processed[s]) = last_poll[s]

(* The venues' own numbers count the submitted events of the venue. *)
Sequenced ==
    /\ \A i \in DOMAIN submitted : submitted[i].sequence = VenueRank(submitted, i)
    /\ owner = "pushing" => held.sequence = VenueCount(submitted, held.venue) + 1

(* No event comes before one that went out earlier. *)
InOrder(events) ==
    \A i, j \in DOMAIN events : i < j => ~LessEvent(events[j], events[i])

Folded == ordered => folded = submitted /\ InOrder(submitted)

(* The merger between two calls of pop_next: what is left of a venue are the    *)
(* numbers behind those that went out, and a front that has waited since an    *)
(* event went out is greater than it.                                         *)
Merging ==
    /\ \A v \in Venues :
          /\ VenueCount(reaggregated, v) + Len(queues[v]) = VenueCount(submitted, v)
          /\ \A n \in 1 .. Len(queues[v]) : queues[v][n] = VenueCount(reaggregated, v) + n
          /\ \A i \in DOMAIN reaggregated :
                queues[v] # <<>> /\ (\A k \in i .. Len(reaggregated) : reaggregated[k].venue # v)
                    => LessEvent(reaggregated[i], FrontOf(queues, v))
    /\ \A i \in DOMAIN reaggregated : reaggregated[i].sequence = VenueRank(reaggregated, i)
    /\ FrontsWait(reaggregated)

Merged ==
    /\ owner \notin {"draining", "done"} => reaggregated = <<>>
    /\ owner = "draining" => Merging
    /\ ReaggregatedIsMerge

ShardedInv ==
    /\ TypeOK
    /\ \A s \in Shards : Routed(s) /\ Numbered(s) /\ Polled(s)
    /\ Sequenced /\ Folded /\ Merged
==============================================================================
