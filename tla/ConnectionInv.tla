--------------------------- MODULE ConnectionInv ---------------------------
(***************************************************************************)
(* The inductive invariant of Connection: why a reply is never read by     *)
(* another request than its own.  TLC checks it, ConnectionProofs proves   *)
(* it for every number of callers, frames, chunks and retries.             *)
(***************************************************************************)
EXTENDS Connection

\* Where a task is between taking the mutex for an exchange and releasing it.
Critical == {"send", "flush", "read", "yield", "parked", "leave", "unlock"}

\* Each kind of task keeps to its own part of the program.
PlaceInv == /\ \A c \in Callers : pc[c] \notin {"tick", "mark", "exited", "abort"}
            /\ \A c \in Callers : pc[c] = "yield" => op[c] \in Uploads
            /\ pc[Hb] \in {"tick", "lock", "send", "flush", "read", "leave", "unlock", "mark", "exited"}
            /\ op[Hb] \in {"none", "ping"}
            /\ pc[Closer] \in {"idle", "abort", "lock", "unlock"}
            /\ Protocol = "hd2020" => pc[Hb] = "exited"
            /\ pc[Closer] \in {"lock", "unlock"} => pc[Hb] = "exited"
            /\ pc[Closer] # "idle" => handle = "closing"

\* Whoever is in an exchange owns the mutex, only such a task or one about to begin
\* owns it, and no one waits twice for it.
MutexInv == /\ \A t \in Tasks : pc[t] \in Critical => holder = t
            /\ holder # None => pc[holder] \in Critical \cup {"lock"}
            /\ \A i \in 1..Len(waiters) : pc[waiters[i]] = "lock" /\ waiters[i] # holder
            /\ \A i, j \in 1..Len(waiters) : waiters[i] = waiters[j] => i = j

\* The guard is armed through the whole exchange, on a sound connection.
GuardInv == \A t \in Tasks :
               /\ armed[t] => pc[t] \in Critical \ {"unlock"}
               /\ pc[t] \in {"send", "flush", "read", "yield"} => armed[t] /\ ~poisoned

\* A task that leaves has an outcome that agrees with the guard and the flag.
OutcomeInv == /\ \A t \in Tasks \ {Closer} :
                    /\ pc[t] \in {"parked", "leave"} =>
                          IF armed[t] THEN result[t] \in {"failed", "cancelled"}
                                      ELSE poisoned <=> result[t] \notin {"ok", "rejected"}
                    /\ pc[t] = "unlock" => (poisoned <=> result[t] \notin {"ok", "rejected"})
              /\ pc[Hb] \in {"leave", "unlock"} => result[Hb] # "rejected"
              /\ pc[Hb] = "mark" => poisoned

\* All that is buffered or in flight belongs to the youngest request.
YoungestInv == /\ \A i \in 1..Len(toDev) : Codec(toDev[i]) => toDev[i].id = trips
               /\ \A i \in 1..Len(wbuf) : Codec(wbuf[i]) /\ wbuf[i].id = trips
               /\ \A i \in 1..Len(toCli) : toCli[i].id = trips
               /\ answering \in {0, trips}
               /\ \A t \in Tasks : pc[t] \in {"send", "flush", "read"} => trip[t] = trips

\* What the holder of the mutex can find on the wire, wherever it stands.  Before the
\* last piece of its request is out, nobody says anything, ...
SendInv == \A t \in Tasks : pc[t] \in {"send", "flush"} =>
              /\ left[t] >= 1
              /\ toCli = <<>> /\ answering = 0
              /\ \A i \in 1..Len(toDev) : toDev[i].kind # "ask"
              /\ pc[t] = "send" => wbuf = <<>>
              /\ op[t] = "native" => Silent /\ pc[t] = "send"
\* ... while a frame is flushed, it ends the buffer, ...
FlushInv == \A t \in Tasks : pc[t] = "flush" =>
              /\ wbuf # <<>>
              /\ \A i \in 1..Len(wbuf) : wbuf[i].kind = "ask" => i = Len(wbuf) /\ left[t] = 1
\* ... and then the device, which says no more once it has ended its reply.
ReadInv == \A t \in Tasks : pc[t] = "read" =>
              /\ wbuf = <<>>
              /\ \A i \in 1..Len(toDev) : toDev[i].kind = "ask" => i = Len(toDev)
              /\ \A i \in 1..Len(toCli) : toCli[i].kind # "more" => i = Len(toCli) /\ answering = 0
              /\ toCli # <<>> \/ answering # 0 => \A i \in 1..Len(toDev) : ~Codec(toDev[i])
\* Between two requests of an upload the wire is silent.
YieldInv == \A t \in Tasks : pc[t] = "yield" => Silent

WireInv == YoungestInv /\ SendInv /\ FlushInv /\ ReadInv /\ YieldInv /\ QuietWhenFree

IInv == /\ TypeOK /\ PlaceInv /\ MutexInv /\ GuardInv /\ OutcomeInv
        /\ WireInv /\ HeartbeatWatches
=============================================================================
