------------------------------ MODULE BitQueue -------------------------------
(***************************************************************************)
(* What a user of the codec's bit packer may expect of a writer and a      *)
(* reader that exchange whole bytes: a queue of bits, first in, first out. *)
(***************************************************************************)
EXTENDS Integers, Sequences

CONSTANT Fields   \* the fields that are put: sequences of bits

VARIABLE queue

QueueInit == queue = <<>>

\* A field is appended.
Put == \E field \in Fields : queue' = queue \o field

\* The oldest bits leave the queue.
Get == \E n \in 1 .. Len(queue) : queue' = SubSeq(queue, n + 1, Len(queue))

QueueNext == Put \/ Get

QueueSpec == QueueInit /\ [][QueueNext]_queue
=============================================================================
