---------------------------- MODULE PreviewWindow ----------------------------
(***************************************************************************)
(* The recognition preview: one native window, the shell's session for it  *)
(* (recognition_commands.rs) and the capture admission of the Edit lease   *)
(* it belongs to (native_capture.rs).  Opening, closing by the user or by  *)
(* the renderer, and the destruction of the window each take several       *)
(* steps, and every wait between two of them lets the others in.  Whoever  *)
(* comes late must find out that the session is no longer the shell's.     *)
(***************************************************************************)
EXTENDS Naturals, FiniteSets

CONSTANTS MaxSessions, MaxOwners, MaxCalls, MaxGeneration   \* bounds

Sessions == 1 .. MaxSessions
Calls == 1 .. MaxCalls

VARIABLES owner,     \* the Edit lease, 0 between two
          leases,    \* how many there were
          closed,    \* preview_closed: the lease admits no capture
          generation,\* of the lease's native selection
          slot,      \* preview_owner: the shell's session, 0 without one
          session,   \* every session: its owner, closing, settled
          window,    \* the session whose window exists, 0 without one
          gone,      \* that window was told to go; its event is still to come
          destroyed, \* what each session's destruction still has to do
          calls,     \* the running opens and closes
          contested  \* history: sessions two closers worked on at once

vars == <<owner, leases, closed, generation, slot, session, window, gone, destroyed, calls,
          contested>>
native == <<owner, leases, closed, generation>>

Created(s) == session[s].owner # 0
Free == [op |-> "none", at |-> "none", session |-> 0, owner |-> 0, generation |-> 0]
NoEnd == [at |-> "none", generation |-> 0]

Init ==
    /\ owner = 1 /\ leases = 1 /\ closed = TRUE /\ generation = 0
    /\ slot = 0 /\ window = 0 /\ gone = FALSE
    /\ session = [s \in Sessions |-> [owner |-> 0, closing |-> FALSE, settled |-> FALSE]]
    /\ destroyed = [s \in Sessions |-> NoEnd]
    /\ calls = [c \in Calls |-> Free] /\ contested = {}

TypeOK ==
    /\ owner \in 0 .. MaxOwners /\ slot \in 0 .. MaxSessions /\ window \in 0 .. MaxSessions
    /\ generation \in 0 .. MaxGeneration /\ gone \in BOOLEAN

\* The Edit lease ends, and another begins with its preview closed.
ExitEdit ==
    /\ owner # 0 /\ owner' = 0 /\ closed' = TRUE
    /\ UNCHANGED <<leases, generation, slot, session, window, gone, destroyed, calls, contested>>
EnterEdit ==
    /\ owner = 0 /\ leases < MaxOwners
    /\ leases' = leases + 1 /\ owner' = leases + 1 /\ generation' = 0 /\ closed' = TRUE
    /\ UNCHANGED <<slot, session, window, gone, destroyed, calls, contested>>

\* A native capture command, admitted only by an open preview.
Capture ==
    /\ owner # 0 /\ ~closed /\ generation < MaxGeneration
    /\ generation' = generation + 1
    /\ UNCHANGED <<owner, leases, closed, slot, session, window, gone, destroyed, calls, contested>>

Moves(c, at) == calls' = [calls EXCEPT ![c].at = at]
Returns(c) == calls' = [calls EXCEPT ![c] = Free]

---------------------------------------------------------------------------
(* recognition_open_preview.                                               *)

\* The caller's session is the shell's own unless that is closing, or
\* belongs to another owner; without one the shell takes a new session.
OpenBegins(c, o) ==
    /\ calls[c] = Free
    /\ \/ /\ slot # 0 /\ session[slot].owner = o /\ ~session[slot].closing
          /\ calls' = [calls EXCEPT ![c] = [Free EXCEPT !.op = "open", !.at = "admit",
                                            !.session = slot, !.owner = o]]
          /\ UNCHANGED <<slot, session>>
       \/ /\ slot = 0
          /\ \E s \in Sessions :
               /\ ~Created(s) /\ \A t \in Sessions : ~Created(t) => s <= t
               /\ slot' = s /\ session' = [session EXCEPT ![s].owner = o]
               /\ calls' = [calls EXCEPT ![c] = [Free EXCEPT !.op = "open", !.at = "admit",
                                                 !.session = s, !.owner = o]]
    /\ UNCHANGED <<native, window, gone, destroyed, contested>>

Mine(c) == slot = calls[c].session
Closing(c) == session[calls[c].session].closing

\* Mutant: capture is admitted without asking whose session the shell has.
OpenAdmitsAny(c) ==
    /\ calls[c].op = "open" /\ calls[c].at = "admit"
    /\ \/ owner = calls[c].owner /\ closed' = FALSE /\ Moves(c, "show")
       \/ Moves(c, "undo") /\ UNCHANGED closed
    /\ UNCHANGED <<owner, leases, generation, slot, session, window, gone, destroyed, contested>>

\* Under the shell's lock: the session is still the one, and the lease the
\* caller's; only then is capture admitted.
OpenAdmits(c) ==
    /\ calls[c].op = "open" /\ calls[c].at = "admit"
    /\ \/ /\ owner = calls[c].owner /\ Mine(c) /\ ~Closing(c)
          /\ closed' = FALSE /\ Moves(c, "show")
       \/ Moves(c, "undo") /\ UNCHANGED closed
    /\ UNCHANGED <<owner, leases, generation, slot, session, window, gone, destroyed, contested>>

\* Under the lock again: an existing window is shown, or one is built.
OpenShows(c) ==
    /\ calls[c].op = "open" /\ calls[c].at = "show"
    /\ \/ Mine(c) /\ ~Closing(c) /\ window' = (IF window = 0 THEN slot ELSE window) /\ Returns(c)
       \/ Moves(c, "undo") /\ UNCHANGED window
    /\ UNCHANGED <<native, slot, session, gone, destroyed, contested>>

\* A failed open without a window closes what it opened, if it is still the
\* shell's; the generation it then waits for is the one it closed under.
OpenUndoes(c) ==
    /\ calls[c].op = "open" /\ calls[c].at = "undo"
    /\ IF window # 0 \/ ~Mine(c)
       THEN Returns(c) /\ UNCHANGED <<session, closed, contested>>
       ELSE /\ contested' = IF Closing(c) THEN contested \cup {slot} ELSE contested
            /\ session' = [session EXCEPT ![slot].closing = TRUE]
            /\ closed' = (closed \/ owner = calls[c].owner)
            /\ calls' = [calls EXCEPT ![c].generation = generation,
                            ![c].at = IF owner = calls[c].owner THEN "finish" ELSE "clear"]
    /\ UNCHANGED <<owner, leases, generation, slot, window, gone, destroyed>>

---------------------------------------------------------------------------
(* What a close waits for: the selection is cancelled and settled.         *)

\* release_native: every fence is checked, then capture is closed; the wait
\* may fail, and a settled selection has another generation.
Release(o, g, fails, succeeds) ==
    \/ /\ (owner # o \/ generation # g) /\ fails /\ UNCHANGED <<closed, generation>>
    \/ /\ owner = o /\ generation = g /\ closed' = TRUE
       /\ \/ fails /\ UNCHANGED generation
          \/ succeeds /\ generation' \in {generation, generation + 1} \cap (0 .. MaxGeneration)

\* clear_preview_session: only the shell's own session leaves its slot.
Cleared(s) == slot' = (IF slot = s THEN 0 ELSE slot)
Settles(s) == session' = [session EXCEPT ![s].settled = TRUE]

\* A failure here leaves the session in its slot, closing.
OpenFinishes(c) ==
    /\ calls[c].op = "open" /\ calls[c].at = "finish"
    /\ Release(calls[c].owner, calls[c].generation, Returns(c), Moves(c, "clear"))
    /\ UNCHANGED <<owner, leases, slot, session, window, gone, destroyed, contested>>

Clear(c) ==
    /\ calls[c].at = "clear"
    /\ Cleared(calls[c].session) /\ Settles(calls[c].session) /\ Returns(c)
    /\ UNCHANGED <<native, window, gone, destroyed, contested>>

---------------------------------------------------------------------------
(* close_preview, asked by the window or by the renderer.                  *)

\* The session asked for is the shell's when the request is made; the
\* renderer's generation may be any it has seen.
CloseBegins(c, g) ==
    /\ calls[c] = Free /\ slot # 0
    /\ g \in 0 .. generation
    /\ calls' = [calls EXCEPT ![c] = [op |-> "close", at |-> "latch", session |-> slot,
                                      owner |-> session[slot].owner, generation |-> g]]
    /\ UNCHANGED <<native, slot, session, window, gone, destroyed, contested>>

CloseLatches(c) ==
    /\ calls[c].op = "close" /\ calls[c].at = "latch"
    /\ IF ~Mine(c) \/ Closing(c)
       THEN Returns(c) /\ UNCHANGED session
       ELSE Moves(c, "release") /\ session' = [session EXCEPT ![slot].closing = TRUE]
    /\ UNCHANGED <<native, slot, window, gone, destroyed, contested>>

CloseReleases(c) ==
    /\ calls[c].op = "close" /\ calls[c].at = "release"
    /\ Release(calls[c].owner, calls[c].generation, Moves(c, "judge"), Moves(c, "destroy"))
    /\ UNCHANGED <<owner, leases, slot, session, window, gone, destroyed, contested>>

\* A failed close is undone while its owner still has the lease.
CloseJudges(c) ==
    /\ calls[c].op = "close" /\ calls[c].at = "judge"
    /\ IF owner = calls[c].owner
       THEN Returns(c) /\ session' = [session EXCEPT ![calls[c].session].closing = FALSE]
       ELSE Moves(c, "destroy") /\ UNCHANGED session
    /\ UNCHANGED <<native, slot, window, gone, destroyed, contested>>

\* The window found under the preview's name is told to go.  A window that cannot be destroyed keeps its session.
CloseDestroys(c) ==
    /\ calls[c].op = "close" /\ calls[c].at = "destroy"
    /\ \/ /\ Settles(calls[c].session) /\ Moves(c, "clear")
          /\ gone' = (window # 0)
       \/ /\ window # 0
          /\ session' = [session EXCEPT ![calls[c].session].closing = FALSE,
                                        ![calls[c].session].settled = FALSE]
          /\ Returns(c) /\ UNCHANGED gone
    /\ UNCHANGED <<native, slot, window, destroyed, contested>>

---------------------------------------------------------------------------
(* The window goes, by a close or by itself.  It is found under its name    *)
(* until the event of its destruction.                                     *)

\* Mutant: a destroyed window always closes its owner's capture.
DestroyedEventAlways(s) ==
    /\ window = s /\ window' = 0 /\ gone' = FALSE
    /\ closed' = (closed \/ owner = session[s].owner)
    /\ destroyed' = [destroyed EXCEPT ![s] =
           [at |-> IF owner = session[s].owner THEN "finish" ELSE "judge",
            generation |-> generation]]
    /\ contested' = IF session[s].closing /\ ~session[s].settled THEN contested \cup {s}
                    ELSE contested
    /\ session' = [session EXCEPT ![s].closing = TRUE]
    /\ UNCHANGED <<owner, leases, generation, slot, calls>>

\* preview_destroyed: an unsettled session closes capture at once and
\* settles it later; a settled one touches nothing.
DestroyedEvent(s) ==
    /\ window = s /\ window' = 0 /\ gone' = FALSE
    /\ IF session[s].settled
       THEN /\ destroyed' = [destroyed EXCEPT ![s].at = "clear"] /\ UNCHANGED closed
       ELSE /\ closed' = (closed \/ owner = session[s].owner)
            /\ destroyed' = [destroyed EXCEPT ![s] =
                   [at |-> IF owner = session[s].owner THEN "finish" ELSE "judge",
                    generation |-> generation]]
    /\ contested' = IF session[s].closing /\ ~session[s].settled THEN contested \cup {s}
                    ELSE contested
    /\ session' = [session EXCEPT ![s].closing = TRUE]
    /\ UNCHANGED <<owner, leases, generation, slot, calls>>

DestroyedFinishes(s) ==
    /\ destroyed[s].at = "finish"
    /\ Release(session[s].owner, destroyed[s].generation,
               destroyed' = [destroyed EXCEPT ![s].at = "judge"],
               destroyed' = [destroyed EXCEPT ![s].at = "clear"])
    /\ UNCHANGED <<owner, leases, slot, session, window, gone, calls, contested>>

\* A failed settlement is reported and kept while its owner has the lease.
DestroyedJudges(s) ==
    /\ destroyed[s].at = "judge"
    /\ destroyed' = [destroyed EXCEPT ![s].at = IF owner = session[s].owner
                                                THEN "none" ELSE "clear"]
    /\ UNCHANGED <<native, slot, session, window, gone, calls, contested>>

DestroyedClears(s) ==
    /\ destroyed[s].at = "clear"
    /\ destroyed' = [destroyed EXCEPT ![s] = NoEnd]
    /\ Cleared(s) /\ Settles(s)
    /\ UNCHANGED <<native, window, gone, calls, contested>>

Next ==
    \/ ExitEdit \/ EnterEdit \/ Capture
    \/ \E c \in Calls :
         \/ \E o \in 1 .. MaxOwners : o <= leases /\ OpenBegins(c, o)
         \/ OpenAdmits(c) \/ OpenShows(c) \/ OpenUndoes(c) \/ OpenFinishes(c) \/ Clear(c)
         \/ \E g \in 0 .. MaxGeneration : CloseBegins(c, g)
         \/ CloseLatches(c) \/ CloseReleases(c) \/ CloseJudges(c) \/ CloseDestroys(c)
    \/ \E s \in Sessions :
         DestroyedEvent(s) \/ DestroyedFinishes(s) \/ DestroyedJudges(s) \/ DestroyedClears(s)

Spec == Init /\ [][Next]_vars

---------------------------------------------------------------------------

\* Capture is admitted only for a lease whose session the shell holds, and a
\* window that stays is its window, however opening, closing,
\* destruction and the end of the lease interleave; unless a failed close
\* reset the closing mark a second closer of the same session relied on.
PreviewIsOwned ==
    contested = {} =>
        /\ window # 0 /\ ~gone => slot = window
        /\ owner # 0 /\ ~closed => slot # 0 /\ session[slot].owner = owner

\* The step OldSurfaceIsInert allows.
OldSurfaceIsInertStep ==
    (owner' = owner /\ owner # 0 /\ ~closed /\ closed' /\ contested = {}) =>
      \/ \E c \in Calls :
            /\ calls'[c] # calls[c]
            /\ calls[c].session = slot
               \/ (calls[c].at \in {"finish", "release"} /\ calls[c].generation = generation)
      \/ \E s \in Sessions :
            /\ destroyed'[s] # destroyed[s]
            /\ s = slot \/ (destroyed[s].at = "finish"
                           /\ destroyed[s].generation = generation)

\* A surface that is over is inert: only the shell's own session, or a close
\* that saw the very generation it ends, takes capture away from a lease.
OldSurfaceIsInert == [][OldSurfaceIsInertStep]_vars
=============================================================================
