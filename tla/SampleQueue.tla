----------------------------- MODULE SampleQueue -----------------------------
(****************************************************************************)
(* What a HulaRingBuffer promises one producer and one consumer: a bounded  *)
(* queue of samples.  Samples are numbered in the order they are accepted,  *)
(* so the queue is always a run of consecutive numbers.  A clear in the     *)
(* middle of a put tears it: nothing is promised until the next clear.      *)
(****************************************************************************)
EXTENDS Integers, Sequences

CONSTANT Capacity

VARIABLES
  queue,   \* the samples a consumer can still take
  sent,    \* how many samples have been accepted
  torn     \* the last clear came in the middle of a put

qvars == <<queue, sent, torn>>

QueueInit == queue = << >> /\ sent = 0 /\ torn = FALSE

Put(n) ==
  /\ ~torn /\ Len(queue) + n <= Capacity
  /\ queue' = queue \o [i \in 1 .. n |-> sent + i]
  /\ sent' = sent + n
  /\ UNCHANGED torn

Take(n) ==
  /\ ~torn
  /\ queue' = SubSeq(queue, n + 1, Len(queue))
  /\ UNCHANGED <<sent, torn>>

Clear == queue' = << >> /\ UNCHANGED sent /\ torn' \in BOOLEAN

Torn == torn /\ torn'

QueueNext ==
  \/ \E n \in 1 .. Capacity : Put(n)
  \/ \E n \in 1 .. Len(queue) : Take(n)
  \/ Clear \/ Torn

QueueSpec == QueueInit /\ [][QueueNext]_qvars
=============================================================================
