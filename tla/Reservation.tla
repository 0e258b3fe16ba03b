---------------------------- MODULE Reservation ----------------------------
(***************************************************************************)
(* What the desktop controller promises: one slot.  An operation holds it  *)
(* from the moment it is admitted until its work has physically settled;   *)
(* a stop reaches the holder only, and nothing is admitted after closing.  *)
(***************************************************************************)
EXTENDS Naturals

CONSTANTS Ops,   \* operations that may ask for the slot
          Free   \* no holder

VARIABLES holder,    \* the operation that holds the slot, or Free
          admitted,  \* operations ever admitted
          settled,   \* operations whose work has physically settled
          stopped,   \* operations a stop was accepted for
          closed     \* no operation is admitted any more

slot == <<holder, admitted, settled, stopped, closed>>

Init ==
  /\ holder = Free
  /\ admitted = {} /\ settled = {} /\ stopped = {}
  /\ closed = FALSE

(* A settled holder may hand the slot over in the step that admits another.*)
Vacant == holder = Free \/ holder \in settled

Admit(o) ==
  /\ ~closed /\ Vacant /\ o \notin admitted
  /\ holder' = o
  /\ admitted' = admitted \cup {o}
  /\ UNCHANGED <<settled, stopped, closed>>

Release ==
  /\ holder \in settled
  /\ holder' = Free
  /\ UNCHANGED <<admitted, settled, stopped, closed>>

Stop ==
  /\ holder # Free
  /\ stopped' = stopped \cup {holder}
  /\ UNCHANGED <<holder, admitted, settled, closed>>

Settle ==
  /\ holder # Free
  /\ settled' = settled \cup {holder}
  /\ UNCHANGED <<holder, admitted, stopped, closed>>

Close ==
  /\ closed' = TRUE
  /\ stopped' = IF holder = Free THEN stopped ELSE stopped \cup {holder}
  /\ UNCHANGED <<holder, admitted, settled>>

Next == (\E o \in Ops : Admit(o)) \/ Release \/ Stop \/ Settle \/ Close

Spec == Init /\ [][Next]_slot
=============================================================================
