----------------------------- MODULE AtomicSwap -----------------------------
(***************************************************************************)
(* What a configuration transaction promises: the stored generation is     *)
(* replaced as a whole or not at all.  An open transaction is decided once,*)
(* for one of its two generations, and the decision is what remains.       *)
(***************************************************************************)
CONSTANTS Before, After   \* the two generations

VARIABLES stored,   \* the generation the store holds
          stage     \* "settled", "open" or "decided"

swap == <<stored, stage>>

Init == stored = Before /\ stage = "settled"

Open ==
  /\ stage = "settled" /\ stored = Before
  /\ stage' = "open"
  /\ UNCHANGED stored

Decide(generation) ==
  /\ stage = "open"
  /\ stored' = generation
  /\ stage' = "decided"

Close ==
  /\ stage = "decided"
  /\ stage' = "settled"
  /\ UNCHANGED stored

Next == Open \/ Decide(Before) \/ Decide(After) \/ Close

Spec == Init /\ [][Next]_swap
=============================================================================
