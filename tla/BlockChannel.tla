---------------------------- MODULE BlockChannel ----------------------------
(***************************************************************************)
(* What the host's handoff from the sample receiver to the WiFi sender      *)
(* promises: a channel that carries one block of samples at a time.  A      *)
(* block that arrives while another one is waiting is refused; a block that *)
(* was accepted is collected by the sender and leaves as one packet.        *)
(***************************************************************************)
CONSTANTS Blocks,   \* the contents a block of samples can have
          NoBlock   \* "nothing here"

VARIABLES offer,     \* the block the receiver is deciding about
          waiting,   \* the accepted block that has not been collected
          outgoing   \* the collected block that is about to be sent

vars == <<offer, waiting, outgoing>>

Init == /\ offer = NoBlock
        /\ waiting = NoBlock
        /\ outgoing = NoBlock

Offer(b) == /\ offer = NoBlock
            /\ offer' = b
            /\ UNCHANGED <<waiting, outgoing>>

Accept == /\ offer # NoBlock
          /\ waiting = NoBlock
          /\ waiting' = offer
          /\ offer' = NoBlock
          /\ UNCHANGED outgoing

Refuse == /\ offer # NoBlock
          /\ waiting # NoBlock
          /\ offer' = NoBlock
          /\ UNCHANGED <<waiting, outgoing>>

Collect == /\ waiting # NoBlock
           /\ outgoing = NoBlock
           /\ outgoing' = waiting
           /\ waiting' = NoBlock
           /\ UNCHANGED offer

Deliver == /\ outgoing # NoBlock
           /\ outgoing' = NoBlock
           /\ UNCHANGED <<offer, waiting>>

Next == \/ \E b \in Blocks : Offer(b)
        \/ Accept
        \/ Refuse
        \/ Collect
        \/ Deliver

SafeSpec == Init /\ [][Next]_vars

\* The receiver always decides, and the sender always collects and delivers.
Fairness == /\ WF_vars(Accept \/ Refuse)
            /\ WF_vars(Collect)
            /\ WF_vars(Deliver)

Spec == SafeSpec /\ Fairness
=============================================================================
