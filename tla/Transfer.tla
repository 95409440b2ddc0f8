------------------------------ MODULE Transfer ------------------------------
(***************************************************************************)
(* What an upload promises: a content is settled on, the device holds more *)
(* and more of it, the consumer is told no more than the device holds, and *)
(* the transfer is called a success only when the device holds it all.     *)
(* Where others interfere, by writing the file or by what the device held  *)
(* before, the pieces may be wrong, but a success still is one.            *)
(***************************************************************************)
EXTENDS Naturals, Sequences, SequencesExt

VARIABLES promised,  \* the content the digest stands for
          disturbed, \* others interfered
          phase,     \* "before", "under way", or how it ended
          held,      \* what the device holds
          told       \* the bytes reported as sent

vars == <<promised, disturbed, phase, held, told>>

Ends == {"ok", "end", "other"}

Init == /\ promised = <<>> /\ held = <<>>
        /\ disturbed = FALSE
        /\ phase = "before"
        /\ told = 0

\* The file is read once to know what to promise.
Settle == /\ phase = "before"
          /\ IsPrefix(promised, promised')
          /\ UNCHANGED <<disturbed, phase, held, told>>

\* The device may hold a start of it already; if it holds anything else, that is a
\* disturbance.
Begin == /\ phase = "before" /\ phase' = "under way"
         /\ disturbed' = (disturbed \/ ~IsPrefix(held', promised))
         /\ UNCHANGED <<promised, told>>

\* Others write the file.
Disturb == disturbed' /\ UNCHANGED <<promised, phase, held, told>>

\* The device holds as much as before, and undisturbed a start of what was promised.
Grows == /\ Len(held) <= Len(held')
         /\ ~disturbed => IsPrefix(held, held') /\ IsPrefix(held', promised)
         /\ UNCHANGED <<promised, disturbed>>

\* A piece is written, and perhaps reported.
Write == /\ phase = "under way"
         /\ Grows
         /\ told <= told' /\ told' <= Len(held')
         /\ UNCHANGED phase

\* It ends: well, with a mismatch, or otherwise, perhaps with a last piece written.
End == /\ phase = "under way" /\ phase' \in Ends
       /\ Grows
       /\ phase' = "ok" => held' = promised
       /\ phase' = "end" => disturbed /\ held' # promised
       /\ UNCHANGED told

\* Or before it began.
GiveUp == /\ phase = "before" /\ phase' = "other"
          /\ UNCHANGED <<promised, disturbed, held, told>>

Next == Settle \/ Begin \/ Disturb \/ Write \/ End \/ GiveUp

Spec == Init /\ [][Next]_vars
=============================================================================
