------------------------------ MODULE ByteFifo ------------------------------
(***************************************************************************)
(* What the host's queue of phone bytes promises: a first-in first-out      *)
(* queue of at most Cap bytes.  A byte offered to a full queue is dropped,  *)
(* silently; a byte that was queued is delivered once, in order.            *)
(***************************************************************************)
EXTENDS Naturals, Sequences

CONSTANTS Cap,     \* how many bytes fit
          Bytes,   \* the bytes that are queued
          NoByte   \* "nothing here"

VARIABLES in,      \* the byte being queued
          queue,   \* the queued bytes, oldest first
          out      \* the byte that has been taken

vars == <<in, queue, out>>

Init == /\ in = NoByte
        /\ queue = <<>>
        /\ out = NoByte

Offer(x) == /\ in = NoByte
            /\ in' = x
            /\ UNCHANGED <<queue, out>>

Put == /\ in # NoByte
       /\ Len(queue) < Cap
       /\ queue' = Append(queue, in)
       /\ in' = NoByte
       /\ UNCHANGED out

Drop == /\ in # NoByte
        /\ Len(queue) = Cap
        /\ in' = NoByte
        /\ UNCHANGED <<queue, out>>

Take == /\ queue # <<>>
        /\ out = NoByte
        /\ out' = Head(queue)
        /\ queue' = Tail(queue)
        /\ UNCHANGED in

Use == /\ out # NoByte
       /\ out' = NoByte
       /\ UNCHANGED <<in, queue>>

Next == \/ \E x \in Bytes : Offer(x)
        \/ Put
        \/ Drop
        \/ Take
        \/ Use

SafeSpec == Init /\ [][Next]_vars

\* A byte that was offered is queued or dropped, and a queued one is delivered.
Fairness == /\ WF_vars(Put \/ Drop)
            /\ WF_vars(Take)
            /\ WF_vars(Use)

Spec == SafeSpec /\ Fairness
=============================================================================
