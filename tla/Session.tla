------------------------------ MODULE Session ------------------------------
(***************************************************************************)
(* What the connection promises to everyone who shares it: exchanges take  *)
(* place one at a time, a healthy link changes hands only when nothing of  *)
(* the last exchange is left on the wire, and a link that was given up in  *)
(* the middle of an exchange carries no further exchange.  The wire is     *)
(* only known through the set of exchanges that still have frames on it.   *)
(***************************************************************************)
EXTENDS Naturals

CONSTANTS Tasks, \* who may hold an exchange
          None   \* nobody

VARIABLES owner,  \* the task whose exchange is under way, or None
          broken, \* the link was given up in the middle of an exchange
          last,   \* number of the youngest exchange
          wire    \* the exchanges with frames in flight

vars == <<owner, broken, last, wire>>

Init == /\ owner = None
        /\ broken = FALSE
        /\ last = 0
        /\ wire = {}

\* A task takes a healthy, silent link and begins an exchange on it.
Start(t) == /\ owner = None
            /\ ~broken
            /\ wire = {}
            /\ owner' = t
            /\ last' = last + 1
            /\ UNCHANGED <<broken, wire>>

\* Frames of the current exchange come and go.
Flow == /\ owner # None
        /\ wire' \subseteq {last}
        /\ UNCHANGED <<owner, broken, last>>

\* The current request is answered in full, and the owner begins its next one.
Again == /\ owner # None
         /\ wire \subseteq {last} /\ wire' = {}
         /\ last' = last + 1
         /\ UNCHANGED <<owner, broken>>

\* The exchange is complete: nothing of it may be left in flight.
Finish == /\ owner # None
          /\ owner' = None
          /\ wire' = {}
          /\ UNCHANGED <<broken, last>>

\* The exchange is given up wherever it stands, and the link with it.
Abandon == /\ owner # None
           /\ owner' = None
           /\ broken' = TRUE
           /\ UNCHANGED <<last, wire>>

\* What is left of the abandoned exchange may still drain: nobody reads it.
Drain == /\ broken
         /\ owner = None
         /\ wire' \subseteq wire
         /\ UNCHANGED <<owner, broken, last>>

Next == \/ \E t \in Tasks : Start(t)
        \/ Flow \/ Again \/ Finish \/ Abandon \/ Drain

Spec == Init /\ [][Next]_vars
=============================================================================
