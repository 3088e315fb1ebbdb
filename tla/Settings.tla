------------------------------ MODULE Settings ------------------------------
(***************************************************************************)
(* What the commands to the DSP promise: each one is a change, which gives  *)
(* some of the DSP's settings a value and leaves the others alone, and the  *)
(* changes take effect one after the other in the order they were asked in. *)
(* Of a change that is not clear nothing is promised but that it ends.      *)
(***************************************************************************)
EXTENDS Sequences

CONSTANTS Changes,    \* the changes that can be asked for
          Clear(_),   \* whether it is promised what a change does
          First,      \* what the host asks for before anything else
          Default     \* the settings before the first change

VARIABLES asked,      \* the changes that have not taken effect, oldest first
          settings    \* the settings in effect

vars == <<asked, settings>>

Changed(s, change) ==
  [n \in DOMAIN s |-> IF n \in DOMAIN change THEN change[n] ELSE s[n]]

Init == /\ asked = First
        /\ settings = Default

Ask(change) == /\ asked' = Append(asked, change)
               /\ UNCHANGED settings

Done == /\ asked # <<>>
        /\ asked' = Tail(asked)

Apply == /\ Done
         /\ Clear(Head(asked)) => settings' = Changed(settings, Head(asked))

Next == Apply \/ \E change \in Changes : Ask(change)

SafeSpec == Init /\ [][Next]_vars

\* Every change is done with in the end.
Spec == SafeSpec /\ WF_asked(Done)
=============================================================================
