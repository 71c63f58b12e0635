---------------------------- MODULE RequestSlot ----------------------------
(***************************************************************************)
(* What a request processor promises of connections, and no more: it has   *)
(* one slot.  A connection is the caller's until it is passed in a call,   *)
(* which gives it back or puts it into the slot once the one that was      *)
(* there is closed; the worker works on whatever the slot holds and        *)
(* empties it before it ends.  The worker may empty the slot while a call  *)
(* fills it: from that overlap on, a connection may be lost, open and in   *)
(* nobody's hands, and one that is in somebody's hands may be closed.      *)
(***************************************************************************)
CONSTANT Connections

VARIABLES where,    \* "caller", "call", "slot", "closed" or "lost", per connection
          seen,     \* a request has been announced to the worker
          working,  \* the worker is busy with the slot
          overlap,  \* the worker and a call have been at the slot together
          quit,     \* the worker has left
          stopped   \* the processor is no more

vars == <<where, seen, working, overlap, quit, stopped>>

Init == /\ where = [c \in Connections |-> "caller"]
        /\ ~seen /\ ~working /\ ~overlap /\ ~quit /\ ~stopped

At(place) == {c \in Connections : where[c] = place}

\* The connections after the one in the slot, if any, has gone to a place.
Emptied(place) ==
    [c \in Connections |-> IF where[c] = "slot" THEN place ELSE where[c]]

Move(c, from, to) == where[c] = from /\ where' = [where EXCEPT ![c] = to]

Pass(c) == /\ Move(c, "caller", "call")
           /\ UNCHANGED <<seen, working, overlap, quit, stopped>>

Refuse(c) == /\ Move(c, "call", "caller")
             /\ UNCHANGED <<seen, working, overlap, quit, stopped>>

\* What is in the slot is closed by a call that is to fill it or by the worker.
Close(c) == /\ \/ where[c] = "slot" /\ (working \/ At("call") # {})
               \/ overlap
            /\ where' = [where EXCEPT ![c] = "closed"]
            /\ UNCHANGED <<seen, working, overlap, quit, stopped>>

Put(c) == /\ where[c] = "call" /\ (overlap \/ At("slot") = {})
          /\ where' = [Emptied("lost") EXCEPT ![c] = "slot"]
          /\ UNCHANGED <<seen, working, overlap, quit, stopped>>

Overlap == /\ working /\ At("call") # {}
           /\ overlap' = TRUE
           /\ UNCHANGED <<where, seen, working, quit, stopped>>

Lose == /\ overlap
        /\ where' = Emptied("lost")
        /\ UNCHANGED <<seen, working, overlap, quit, stopped>>

\* Only a connection that was put can have brought a request.
Announce == /\ At("caller") \cup At("call") # Connections
            /\ seen' = TRUE
            /\ UNCHANGED <<where, working, overlap, quit, stopped>>

\* Nothing makes the worker forget that it has seen a request.
Start == /\ seen /\ ~working /\ ~quit
         /\ working' = TRUE
         /\ UNCHANGED <<where, seen, overlap, quit, stopped>>

Finish == /\ working /\ working' = FALSE
          /\ overlap \/ At("slot") = {}
          /\ where' = Emptied("lost")
          /\ UNCHANGED <<seen, overlap, quit, stopped>>

Quit == /\ ~working /\ quit' = TRUE
        /\ UNCHANGED <<where, seen, working, overlap, stopped>>

\* The owner waits for the calls, not for the worker.
Stop == /\ At("call") = {}
        /\ stopped' = TRUE
        /\ \/ where' = Emptied("closed")
           \/ overlap /\ \E c \in Connections : where' = [where EXCEPT ![c] = "closed"]
        /\ overlap' \in {overlap, overlap \/ working}
        /\ UNCHANGED <<seen, working, quit>>

Next == /\ ~stopped
        /\ \/ \E c \in Connections : Pass(c) \/ Refuse(c) \/ Put(c) \/ Close(c)
           \/ Overlap \/ Lose \/ Announce \/ Start \/ Finish \/ Quit \/ Stop

Safety == Init /\ [][Next]_vars

\* Calls come to an end, and so does the worker's work.
Promises == /\ \A c \in Connections : (where[c] = "call") ~> (where[c] # "call")
            /\ working ~> (~working \/ stopped)

Spec == Safety /\ Promises
=============================================================================
