---------------------------- MODULE InMemoryBus ----------------------------
(***************************************************************************)
(* The request bus (bus.py): a single-partition topic whose entries become *)
(* visible at a step of their own, drained in batches.  Producers may      *)
(* publish for any later step, as publish() allows; the synthetic source   *)
(* publishes what is visible at once (SyntheticSource).                    *)
(***************************************************************************)
EXTENDS Naturals, Sequences, FiniteSets, SequencesExt

CONSTANT MaxBatch   \* config.arrival.max_batch_per_step

ASSUME BusAssumption == MaxBatch \in Nat \ {0}

VARIABLES
  step,      \* the consumer's clock
  seq,       \* _seq: the number of the next entry
  pending,   \* _pending
  drained    \* history: every entry drained, in order

busVars == <<step, seq, pending, drained>>

BusInit == step = 0 /\ seq = 0 /\ pending = <<>> /\ drained = <<>>

\* publish, called for each of the requests.
Entry(request, available, n) == [available |-> available, seq |-> n, request |-> request]
PublishAll(requests, available) ==
  /\ pending' = pending \o [i \in DOMAIN requests |-> Entry(requests[i], available, seq + i - 1)]
  /\ seq' = seq + Len(requests)
  /\ UNCHANGED <<step, drained>>

\* The positions drain takes from queue: the first maxBatch visible entries.
VisiblePositions(queue) == {i \in DOMAIN queue : queue[i].available <= step}
TakenLast(queue) ==
  {i \in VisiblePositions(queue) :
     Cardinality({j \in VisiblePositions(queue) : j >= i}) <= MaxBatch}
Taken(queue) ==
  {i \in VisiblePositions(queue) :
     Cardinality({j \in VisiblePositions(queue) : j <= i}) <= MaxBatch}

\* The entries of queue at the given positions, in queue order.
EntriesAt(queue, positions) ==
  [k \in 1..Cardinality(positions) |->
     queue[CHOOSE i \in positions : Cardinality({j \in positions : j <= i}) = k]]

\* drain: what it returns leaves the queue, everything else stays in order.
RemainingVisibleOnly(queue, taken) ==
  EntriesAt(queue, VisiblePositions(queue) \ taken)
Remaining(queue, taken) == EntriesAt(queue, DOMAIN queue \ taken)

Drain ==
  LET taken == Taken(pending)
  IN /\ drained' = drained \o EntriesAt(pending, taken)
     /\ pending' = Remaining(pending, taken)
     /\ UNCHANGED <<step, seq>>

-----------------------------------------------------------------------------
Entries == ToSet(pending) \cup ToSet(drained)
SeqsOf(queue) == {e.seq : e \in ToSet(queue)}

\* Every published entry is on the bus or was drained, and only once: no batch
\* boundary or visibility gap loses or repeats one.
ExactlyOnce ==
  /\ SeqsOf(pending) \cup SeqsOf(drained) = 0..(seq - 1)
  /\ Len(pending) + Len(drained) = seq
=============================================================================
