----------------------------- MODULE Connection -----------------------------
(***************************************************************************)
(* One connected Device: the tokio mutex around the framed socket, the     *)
(* poison guard, the commands, uploads and heartbeat that share the        *)
(* socket, Device::close, and the device at the other end of the wire.     *)
(* crates/huidu/src/{device,transport,upload}.rs.                          *)
(*                                                                         *)
(* A step ends where another task can observe the difference: at an await, *)
(* at the drop of the guard, at the release of the mutex.  Every future    *)
(* may be dropped at every await.  A request is a number of frames, of     *)
(* which the last makes the device answer; frame contents are abstracted   *)
(* to the exchange they belong to and to what they make the reader do.     *)
(* A frame is written in as many pieces as the socket takes it in: of a    *)
(* codec frame the rest stays in Framed's write buffer, of a native frame  *)
(* in the future that writes it.                                           *)
(***************************************************************************)
EXTENDS Naturals, Sequences, SequencesExt

CONSTANTS Callers,   \* the tasks of the program that uses the Device
          Hb,        \* the heartbeat task
          Closer,    \* the task that calls Device::close
          None,      \* nobody
          Protocol,  \* what the probe found, "sdk2" or "hd2020"
          Workload,  \* the calls made: a subset of {"sdk", "native", "start"}
          SendBuf,   \* pieces the socket takes before a write must wait
          RecvBuf,   \* frames it takes before the device must wait
          MaxFrags,  \* frames of an SDK request
          MaxPieces, \* pieces of a frame
          MaxChunks, \* content chunks of an upload
          Retries,   \* DeviceConfig::upload_retries
          MaxTrips   \* bound: no call or ping starts after so many requests

Tasks == Callers \cup {Hb, Closer}

ASSUME TaskAssumption == /\ Hb \notin Callers /\ Closer \notin Callers
                         /\ Hb # Closer /\ None \notin Tasks
ASSUME BoundAssumption == /\ {SendBuf, RecvBuf, MaxFrags, MaxPieces} \subseteq Nat \ {0}
                          /\ {MaxChunks, Retries, MaxTrips} \subseteq Nat
ASSUME UseAssumption == /\ Protocol \in {"sdk2", "hd2020"}
                        /\ Workload \subseteq {"sdk", "native", "start"}

VARIABLES poisoned, \* DeviceInner::poisoned
          holder,   \* who owns the mutex around the socket
          waiters,  \* who waits for it, first come first served
          pc,       \* where each task stands
          op,       \* the request each task is at
          armed,    \* its PoisonGuard
          result,   \* what its call is about to return
          left,     \* frames of its request still to write; of a native one, pieces
          trip,     \* the number of its current request
          trips,    \* requests begun so far
          chunks,   \* content chunks its upload still has to send
          attempt,  \* retries of its current chunk
          wbuf,     \* Framed's write buffer: what is left of a codec frame
          toDev,    \* pieces of frames on the way to the device
          toCli,    \* frames on the way back
          answering,\* the request the device is answering, 0 if none
          up,       \* the device has not closed the connection
          shut,     \* Device::close has shut the write side down
          handle    \* what became of the Device value

lockVars   == <<holder, waiters>>
guardVars  == <<poisoned, armed, result>>
tripVars   == <<op, left, trip, trips>>
uploadVars == <<chunks, attempt>>
deviceVars == <<toCli, answering, up>>
wireVars   == <<wbuf, toDev, deviceVars, shut>>
vars == <<poisoned, holder, waiters, pc, op, armed, result, left, trip, trips,
          chunks, attempt, wbuf, toDev, toCli, answering, up, shut, handle>>

Uploads == {"start", "content", "end"}
Ops     == Uploads \cup {"none", "sdk", "native", "ping"}
Results == {"none", "ok", "failed", "rejected", "poisoned", "cancelled"}
Stops   == {"idle", "fresh", "lock", "send", "flush", "read", "yield", "parked", "leave",
            "unlock", "tick", "mark", "exited", "abort"}

\* The last piece of a codec frame says what the frame is, the others are cut.
DevFrame == [id : Nat, kind : {"cut", "part", "ask", "native"}]
CliFrame == [id : Nat, kind : {"more", "done", "nack", "bad"}]

LinkType  == /\ poisoned \in BOOLEAN
             /\ holder \in Tasks \cup {None}
             /\ waiters \in Seq(Tasks)
             /\ up \in BOOLEAN
             /\ shut \in BOOLEAN
             /\ handle \in {"open", "closing", "closed", "dropped"}
TaskType  == /\ pc \in [Tasks -> Stops]
             /\ op \in [Tasks -> Ops]
             /\ armed \in [Tasks -> BOOLEAN]
             /\ result \in [Tasks -> Results]
CountType == /\ left \in [Tasks -> Nat]
             /\ trip \in [Tasks -> Nat]
             /\ trips \in Nat
             /\ chunks \in [Tasks -> Nat]
             /\ attempt \in [Tasks -> Nat]
WireType  == /\ wbuf \in Seq(DevFrame)
             /\ toDev \in Seq(DevFrame)
             /\ toCli \in Seq(CliFrame)
             /\ answering \in Nat

\* Types; the frames left to write never fall below zero, for one.
TypeOK == LinkType /\ TaskType /\ CountType /\ WireType

\* Device::connect returned: the wire is silent, and the heartbeat runs on SDK 2.0.
Init == /\ poisoned = FALSE
        /\ holder = None
        /\ waiters = <<>>
        /\ pc = [t \in Tasks |-> IF t # Hb THEN "idle"
                                 ELSE IF Protocol = "sdk2" THEN "tick" ELSE "exited"]
        /\ op = [t \in Tasks |-> "none"]
        /\ armed = [t \in Tasks |-> FALSE]
        /\ result = [t \in Tasks |-> "none"]
        /\ left = [t \in Tasks |-> 0]
        /\ trip = [t \in Tasks |-> 0]
        /\ trips = 0
        /\ chunks = [t \in Tasks |-> 0]
        /\ attempt = [t \in Tasks |-> 0]
        /\ wbuf = <<>>
        /\ toDev = <<>>
        /\ toCli = <<>>
        /\ answering = 0
        /\ up = TRUE
        /\ shut = FALSE
        /\ handle = "open"

Goto(t, where) == pc' = [pc EXCEPT ![t] = where]
Outcome(t, r)  == result' = [result EXCEPT ![t] = r]

\* Names that begin with Slip are mistakes this code could have made: the next
\* definition with a slip in its place breaks a property.  No action uses one.

SlipUnchecked     == TRUE
SlipNotDisarmed(t) == UNCHANGED armed
SlipNotPoisoned(t) == UNCHANGED poisoned
SlipAlwaysPoison(t) == poisoned' = TRUE
SlipOneTooMany(t) == IF left[t] = 0 THEN "read" ELSE "send"

\* The check every command makes once it holds the mutex.
Usable == ~poisoned

\* PoisonGuard::disarm and PoisonGuard::drop.
Disarm(t)    == armed' = [armed EXCEPT ![t] = FALSE]
DropGuard(t) == poisoned' = (poisoned \/ armed[t])

\* After the last frame of a request comes the reply.
AfterFrame(t) == IF left[t] = 1 THEN "read" ELSE "send"

-----------------------------------------------------------------------------
(* The tokio mutex: fair, and handed over directly to the first waiter.    *)

\* frames.lock(): take the free mutex or queue for it.
Acquire(t) == /\ Goto(t, "lock")
              /\ IF holder = None
                 THEN holder' = t /\ UNCHANGED waiters
                 ELSE waiters' = Append(waiters, t) /\ UNCHANGED holder

\* Dropping the mutex guard: the first waiter, if any, owns the mutex now.
Release == IF waiters = <<>>
           THEN holder' = None /\ UNCHANGED waiters
           ELSE holder' = Head(waiters) /\ waiters' = Tail(waiters)

\* Dropping the lock future: leave the queue, or pass on a mutex just received.
Withdraw(t) == IF holder = t
               THEN Release
               ELSE \E i \in 1..Len(waiters) :
                       /\ waiters[i] = t
                       /\ waiters' = RemoveAt(waiters, i)
                       /\ UNCHANGED holder

-----------------------------------------------------------------------------
(* Calls.                                                                  *)

SlipUngated(k) == TRUE

\* The protocol gate: an unsupported command returns before it touches anything.
Supported(k) == \/ k = "sdk" /\ Protocol = "sdk2"
                \/ k = "native" /\ Protocol = "hd2020"
                \/ k = "start"

\* A command is called and polled for the first time.
Command(c, k) == /\ pc[c] = "idle"
                 /\ handle = "open"
                 /\ trips < MaxTrips
                 /\ k \in Workload \cap {"sdk", "native"}
                 /\ Supported(k)
                 /\ op' = [op EXCEPT ![c] = k]
                 /\ Acquire(c)
                 /\ UNCHANGED <<guardVars, left, trip, trips, uploadVars, wireVars, handle>>

\* upload_file returns a stream that owns a reference to the connection.
UploadFile(c) == /\ pc[c] = "idle"
                 /\ handle = "open"
                 /\ trips < MaxTrips
                 /\ "start" \in Workload
                 /\ Supported("start")
                 /\ op' = [op EXCEPT ![c] = "start"]
                 /\ Goto(c, "fresh")
                 /\ UNCHANGED <<lockVars, guardVars, left, trip, trips, uploadVars, wireVars, handle>>

\* The consumer polls the stream for the first time.
FirstPoll(c) == /\ pc[c] = "fresh"
                /\ Acquire(c)
                /\ UNCHANGED <<guardVars, tripVars, uploadVars, wireVars, handle>>

\* A request of n frames is under way; its frames are numbered alike.
StartTrip(t, k, n) == /\ Goto(t, "send")
                      /\ op' = [op EXCEPT ![t] = k]
                      /\ left' = [left EXCEPT ![t] = n]
                      /\ trip' = [trip EXCEPT ![t] = trips + 1]
                      /\ trips' = trips + 1

\* With the mutex held, a poisoned connection is refused before the guard exists.
Refuse(t) == /\ pc[t] = "lock"
             /\ holder = t
             /\ t # Closer
             /\ ~Usable
             /\ Outcome(t, "poisoned")
             /\ Goto(t, IF op[t] \in Uploads THEN "parked" ELSE "unlock")
             /\ UNCHANGED <<lockVars, poisoned, armed, tripVars, uploadVars, wireVars, handle>>

\* Frames of a request, or the pieces of the one native frame.
Writes(k) == CASE k = "sdk" -> 1..MaxFrags [] k = "native" -> 1..MaxPieces [] OTHER -> {1}

\* With the mutex held and the connection sound, the guard is armed.
Begin(t) == /\ pc[t] = "lock"
            /\ holder = t
            /\ t # Closer
            /\ Usable
            /\ armed' = [armed EXCEPT ![t] = TRUE]
            /\ \E n \in Writes(op[t]) : StartTrip(t, op[t], n)
            /\ UNCHANGED <<lockVars, poisoned, result, uploadVars, wireVars, handle>>

-----------------------------------------------------------------------------
(* The round trip.                                                         *)

\* The error unwinds through the guard; an upload hands it out as an item first
\* and keeps the mutex and the guard until it is polled again or dropped.
Fail(t, r) == /\ Outcome(t, r)
              /\ Goto(t, IF op[t] \in Uploads THEN "parked" ELSE "leave")

\* What goes out before a frame is complete.
Pieces(i, cuts) == [j \in 1..cuts |-> [id |-> i, kind |-> "cut"]]

Kind(t) == IF left[t] = 1 THEN "ask" ELSE "part"

\* start_send: the frame is encoded into the write buffer.
EncodeFrame(t) ==
    /\ pc[t] = "send" /\ op[t] # "native"
    /\ \E cuts \in 0..(MaxPieces - 1) :
          wbuf' = wbuf \o Pieces(trip[t], cuts) \o <<[id |-> trip[t], kind |-> Kind(t)]>>
    /\ Goto(t, "flush")
    /\ UNCHANGED <<lockVars, guardVars, tripVars, uploadVars, toDev, deviceVars, shut, handle>>

\* The encoder refuses a frame that is too large, whatever the peer does.
EncodeRefused(t) == /\ pc[t] = "send"
                    /\ op[t] \in {"sdk", "start", "content"}
                    /\ Fail(t, "failed")
                    /\ UNCHANGED <<lockVars, poisoned, armed, tripVars, uploadVars, wireVars, handle>>

\* Nothing but the peer's reading makes room in the socket.
Room == ~shut /\ Len(toDev) < SendBuf

\* poll_flush: a piece of what is buffered goes out.
WriteOut == /\ Room
            /\ wbuf # <<>>
            /\ toDev' = Append(toDev, Head(wbuf))
            /\ wbuf' = Tail(wbuf)
            /\ UNCHANGED <<deviceVars, shut>>

\* A codec write has no deadline; it is over when nothing is buffered any more.
Flush(t) == /\ pc[t] = "flush"
            /\ WriteOut
            /\ IF Len(wbuf) = 1
               THEN left' = [left EXCEPT ![t] = @ - 1] /\ Goto(t, AfterFrame(t))
               ELSE UNCHANGED <<left, pc>>
            /\ UNCHANGED <<lockVars, guardVars, op, trip, trips, uploadVars, handle>>

\* A native frame goes past the codec, and is all there is to its command.
WriteNative(t) ==
    /\ pc[t] = "send" /\ op[t] = "native"
    /\ Room
    /\ toDev' = Append(toDev, [id |-> trip[t], kind |-> "native"])
    /\ left' = [left EXCEPT ![t] = @ - 1]
    /\ IF left[t] = 1 THEN Disarm(t) /\ Outcome(t, "ok") /\ Goto(t, "leave")
                      ELSE UNCHANGED <<armed, result, pc>>
    /\ UNCHANGED <<lockVars, poisoned, op, trip, trips, uploadVars, wbuf, deviceVars, shut, handle>>

\* A task that waits for the socket to take what it writes.
Writing(t) == \/ pc[t] = "flush"
              \/ pc[t] = "send" /\ op[t] = "native"

\* The socket reports the shutdown of either side; the rest stays buffered.
SendBroken(t) == /\ Writing(t)
                 /\ shut \/ ~up
                 /\ Fail(t, "failed")
                 /\ UNCHANGED <<lockVars, poisoned, armed, tripVars, uploadVars, wireVars, handle>>

\* Only the native write runs under the deadline.
SendTimeout(t) == /\ pc[t] = "send"
                  /\ op[t] = "native"
                  /\ Fail(t, "failed")
                  /\ UNCHANGED <<lockVars, poisoned, armed, tripVars, uploadVars, wireVars, handle>>

SlipNoDeadline(t) == /\ pc[t] = "read"
                     /\ ~up /\ toCli = <<>>
                     /\ Fail(t, "failed")
                     /\ UNCHANGED <<lockVars, poisoned, armed, tripVars, uploadVars, wireVars, handle>>

\* No frame within the deadline, or the stream ended.
ReadNothing(t) == /\ pc[t] = "read"
                  /\ Fail(t, "failed")
                  /\ UNCHANGED <<lockVars, poisoned, armed, tripVars, uploadVars, wireVars, handle>>

\* A reply fragment that does not complete the SDK reply: the deadline starts again.
ReadMore(t) == /\ pc[t] = "read"
               /\ op[t] = "sdk"
               /\ toCli # <<>> /\ Head(toCli).kind = "more"
               /\ toCli' = Tail(toCli)
               /\ UNCHANGED <<lockVars, guardVars, pc, tripVars, uploadVars, wbuf, toDev, answering, up, shut, handle>>

\* The reply is complete.  A command disarms and returns; so does the last request
\* of an upload, whose other requests report progress and keep the guard armed.
ReadDone(t) ==
    /\ pc[t] = "read"
    /\ toCli # <<>> /\ Head(toCli).kind = "done"
    /\ toCli' = Tail(toCli)
    /\ IF op[t] \in {"start", "content"}
       THEN /\ Goto(t, "yield")
            /\ \E n \in 0..MaxChunks :
                  /\ op[t] = "content" => n = chunks[t] - 1
                  /\ chunks' = [chunks EXCEPT ![t] = n]
            /\ attempt' = [attempt EXCEPT ![t] = 0]
            /\ UNCHANGED <<armed, result>>
       ELSE /\ Disarm(t)
            /\ Outcome(t, "ok")
            /\ Goto(t, "leave")
            /\ UNCHANGED uploadVars
    /\ UNCHANGED <<lockVars, poisoned, tripVars, wbuf, toDev, answering, up, shut, handle>>

\* The device refuses a step of an upload: a chunk is sent again while retries
\* last, otherwise the guard is disarmed, for the wire is in step.
ReadNack(t) ==
    /\ pc[t] = "read"
    /\ op[t] \in Uploads
    /\ toCli # <<>> /\ Head(toCli).kind = "nack"
    /\ toCli' = Tail(toCli)
    /\ IF op[t] = "content" /\ attempt[t] < Retries
       THEN /\ attempt' = [attempt EXCEPT ![t] = @ + 1]
            /\ StartTrip(t, "content", 1)
            /\ UNCHANGED <<armed, result, chunks>>
       ELSE /\ Disarm(t)
            /\ Fail(t, "rejected")
            /\ UNCHANGED <<tripVars, uploadVars>>
    /\ UNCHANGED <<lockVars, poisoned, wbuf, toDev, answering, up, shut, handle>>

\* A frame of the wrong kind, or one that does not parse; or the file cannot be
\* positioned to where the device wants to resume.
ReadBad(t) ==
    /\ pc[t] = "read"
    /\ toCli # <<>>
    /\ \/ Head(toCli).kind = "bad"
       \/ Head(toCli).kind = "done" /\ op[t] = "start"
       \/ Head(toCli).kind = "more" /\ op[t] # "sdk"
       \/ Head(toCli).kind = "nack" /\ op[t] \notin Uploads
    /\ toCli' = Tail(toCli)
    /\ Fail(t, "failed")
    /\ UNCHANGED <<lockVars, poisoned, armed, tripVars, uploadVars, wbuf, toDev, answering, up, shut, handle>>

-----------------------------------------------------------------------------
(* The upload stream between two requests.                                 *)

\* The consumer polls for the next item: the next chunk, or the final check once
\* all chunks are sent or the file turned out shorter than it was.
PollChunk(c) == /\ pc[c] = "yield"
                /\ chunks[c] > 0
                /\ StartTrip(c, "content", 1)
                /\ UNCHANGED <<lockVars, guardVars, uploadVars, wireVars, handle>>

PollEnd(c) == /\ pc[c] = "yield"
              /\ StartTrip(c, "end", 1)
              /\ UNCHANGED <<lockVars, guardVars, uploadVars, wireVars, handle>>

\* The file cannot be read.
PollError(c) == /\ pc[c] = "yield"
                /\ chunks[c] > 0
                /\ Fail(c, "failed")
                /\ UNCHANGED <<lockVars, poisoned, armed, tripVars, uploadVars, wireVars, handle>>

\* The consumer polls after the error item, or drops the stream.
PollParked(c) == /\ pc[c] = "parked"
                 /\ Goto(c, "leave")
                 /\ UNCHANGED <<lockVars, guardVars, tripVars, uploadVars, wireVars, handle>>

-----------------------------------------------------------------------------
(* Leaving: the guard is dropped before the mutex guard, in two steps.     *)

SlipUnlockFirst(t) == /\ pc[t] = "leave"
                      /\ Release
                      /\ Goto(t, "unlock")
                      /\ UNCHANGED <<guardVars, tripVars, uploadVars, wireVars, handle>>

\* The poison guard is dropped, armed or not.
Settle(t) == /\ pc[t] = "leave"
             /\ DropGuard(t)
             /\ armed' = [armed EXCEPT ![t] = FALSE]
             /\ Goto(t, "unlock")
             /\ UNCHANGED <<lockVars, result, tripVars, uploadVars, wireVars, handle>>

\* Where the heartbeat goes after a ping: on, out on an abort, or to mark the failure.
HbNext == CASE result[Hb] = "ok" -> "tick"
            [] result[Hb] = "cancelled" -> "exited"
            [] OTHER -> "mark"

Forget(t) == /\ op' = [op EXCEPT ![t] = "none"]
             /\ left' = [left EXCEPT ![t] = 0]
             /\ trip' = [trip EXCEPT ![t] = 0]
             /\ chunks' = [chunks EXCEPT ![t] = 0]
             /\ attempt' = [attempt EXCEPT ![t] = 0]
             /\ Outcome(t, "none")
             /\ UNCHANGED trips

\* The mutex guard is dropped and the call is over.
Unlock(t) == /\ pc[t] = "unlock"
             /\ Release
             /\ Goto(t, IF t = Hb THEN HbNext ELSE "idle")
             /\ Forget(t)
             /\ handle' = IF t = Closer THEN "closed" ELSE handle
             /\ UNCHANGED <<poisoned, armed, wireVars>>

\* The future, or the stream, is dropped while it is in an exchange.
CancelTrip(t) == /\ pc[t] \in {"send", "flush", "read", "yield"}
                 /\ Outcome(t, "cancelled")
                 /\ Goto(t, "leave")
                 /\ UNCHANGED <<lockVars, poisoned, armed, tripVars, uploadVars, wireVars, handle>>

\* It is dropped before the guard exists.
CancelEarly(t) == /\ \/ pc[t] = "fresh" /\ UNCHANGED lockVars
                     \/ pc[t] = "lock" /\ Withdraw(t)
                  /\ Goto(t, IF t = Hb THEN "exited" ELSE "idle")
                  /\ Forget(t)
                  /\ handle' = IF t = Closer THEN "closed" ELSE handle
                  /\ UNCHANGED <<poisoned, armed, wireVars>>

-----------------------------------------------------------------------------
(* The heartbeat task.                                                     *)

\* Someone still owns the connection: the Device, its close future, or a stream.
Alive == \/ handle \in {"open", "closing"}
         \/ \E c \in Callers : pc[c] # "idle" /\ op[c] \in Uploads

Aborted == handle \in {"closing", "closed"}

SlipStopEarly == /\ pc[Hb] = "tick"
                 /\ handle # "open" \/ poisoned
                 /\ Goto(Hb, "exited")
                 /\ UNCHANGED <<lockVars, guardVars, tripVars, uploadVars, wireVars, handle>>
SlipKeepsAlive == /\ pc[Hb] = "tick"
                  /\ poisoned
                  /\ Goto(Hb, "exited")
                  /\ UNCHANGED <<lockVars, guardVars, tripVars, uploadVars, wireVars, handle>>

\* The ticker fires on a connection that is gone or poisoned.
HbStop == /\ pc[Hb] = "tick"
          /\ ~Alive \/ poisoned
          /\ Goto(Hb, "exited")
          /\ UNCHANGED <<lockVars, guardVars, tripVars, uploadVars, wireVars, handle>>

\* The ticker fires: ping.
HbPing == /\ pc[Hb] = "tick"
          /\ Alive /\ ~poisoned
          /\ trips < MaxTrips
          /\ op' = [op EXCEPT ![Hb] = "ping"]
          /\ Acquire(Hb)
          /\ UNCHANGED <<guardVars, left, trip, trips, uploadVars, wireVars, handle>>

\* The ping failed: the loop poisons the connection, holding nothing, and returns.
HbMark == /\ pc[Hb] = "mark"
          /\ poisoned' = TRUE
          /\ Goto(Hb, "exited")
          /\ UNCHANGED <<lockVars, armed, result, tripVars, uploadVars, wireVars, handle>>

SlipNotAborted == FALSE

\* The aborted task is dropped at the await it stands at.
HbAborted == /\ Aborted
             /\ \/ /\ pc[Hb] = "tick"
                   /\ Goto(Hb, "exited")
                   /\ UNCHANGED <<lockVars, guardVars, tripVars, uploadVars, wireVars, handle>>
                \/ CancelTrip(Hb)
                \/ CancelEarly(Hb)

-----------------------------------------------------------------------------
(* Device::close and dropping the Device.                                  *)

\* The Device is not borrowed: only upload streams can outlive it.
Unborrowed == handle = "open" /\ \A c \in Callers : pc[c] = "idle" \/ op[c] \in Uploads

\* close() aborts the heartbeat, if there is one, and waits for it.
CloseStart == /\ Unborrowed
              /\ handle' = "closing"
              /\ IF Protocol = "sdk2"
                 THEN Goto(Closer, "abort") /\ UNCHANGED lockVars
                 ELSE Acquire(Closer)
              /\ UNCHANGED <<guardVars, tripVars, uploadVars, wireVars>>

SlipNotJoined == /\ pc[Closer] = "abort"
                 /\ Acquire(Closer)
                 /\ UNCHANGED <<guardVars, tripVars, uploadVars, wireVars, handle>>

\* The heartbeat is gone: now the mutex.
CloseJoin == /\ pc[Closer] = "abort"
             /\ pc[Hb] = "exited"
             /\ Acquire(Closer)
             /\ UNCHANGED <<guardVars, tripVars, uploadVars, wireVars, handle>>

\* With the mutex held, frames.close() first flushes what an abandoned send may have
\* left in the write buffer, poisoned or not, ...
CloseHolds == pc[Closer] = "lock" /\ holder = Closer
CloseFlush == /\ CloseHolds
              /\ WriteOut
              /\ UNCHANGED <<lockVars, guardVars, pc, tripVars, uploadVars, handle>>

\* ... then shuts the write side down, ...
CloseShut == /\ CloseHolds
             /\ wbuf = <<>>
             /\ shut' = TRUE
             /\ Goto(Closer, "unlock")
             /\ UNCHANGED <<lockVars, guardVars, tripVars, uploadVars, wbuf, toDev, deviceVars, handle>>

\* ... unless the flush fails.
CloseBroken == /\ CloseHolds
               /\ wbuf # <<>> /\ ~up
               /\ Goto(Closer, "unlock")
               /\ UNCHANGED <<lockVars, guardVars, tripVars, uploadVars, wireVars, handle>>

\* The close future is dropped while it waits for the heartbeat.
CloseDropped == /\ pc[Closer] = "abort"
                /\ Goto(Closer, "idle")
                /\ handle' = "closed"
                /\ UNCHANGED <<lockVars, guardVars, tripVars, uploadVars, wireVars>>

DropDevice == /\ Unborrowed
              /\ handle' = "dropped"
              /\ UNCHANGED <<lockVars, guardVars, pc, tripVars, uploadVars, wireVars>>

-----------------------------------------------------------------------------
(* The device, and the network up to it (not in this repository).          *)

\* It takes in what needs no answer, or what it does not understand.
DevTake == /\ up
           /\ toDev # <<>>
           /\ Head(toDev).kind # "ask" \/ Protocol = "hd2020"
           /\ toDev' = Tail(toDev)
           /\ UNCHANGED <<lockVars, guardVars, pc, tripVars, uploadVars, wbuf, deviceVars, shut, handle>>

\* It takes in the end of a request, and begins to answer it.
DevAnswer == /\ up
             /\ toDev # <<>>
             /\ Head(toDev).kind = "ask" /\ Protocol = "sdk2"
             /\ toDev' = Tail(toDev)
             /\ answering' = Head(toDev).id
             /\ UNCHANGED <<lockVars, guardVars, pc, tripVars, uploadVars, wbuf, toCli, up, shut, handle>>

Say(what) == /\ Len(toCli) < RecvBuf
             /\ toCli' = Append(toCli, [id |-> answering, kind |-> what])

\* It sends a fragment that does not complete its reply, as often as it likes.
DevMore == /\ up /\ answering # 0
           /\ Say("more")
           /\ UNCHANGED <<lockVars, guardVars, pc, tripVars, uploadVars, wbuf, toDev, answering, up, shut, handle>>

\* It comes to the end of its reply, or says no more.
DevEnd == /\ up /\ answering # 0
          /\ answering' = 0
          /\ UNCHANGED toCli \/ \E what \in {"done", "nack", "bad"} : Say(what)
          /\ UNCHANGED <<lockVars, guardVars, pc, tripVars, uploadVars, wbuf, toDev, up, shut, handle>>

\* It closes the connection; what it had sent can still be read.
DevClose == /\ up
            /\ up' = FALSE
            /\ UNCHANGED <<lockVars, guardVars, pc, tripVars, uploadVars, wbuf, toDev, toCli, answering, shut, handle>>

-----------------------------------------------------------------------------

Polls(c)   == FirstPoll(c) \/ PollChunk(c) \/ PollEnd(c) \/ PollError(c) \/ PollParked(c)
Caller(c)  == \/ \E k \in Workload : Command(c, k)
              \/ UploadFile(c) \/ CancelTrip(c) \/ CancelEarly(c)

Exchange(t) == \/ Refuse(t) \/ Begin(t)
               \/ EncodeFrame(t) \/ Flush(t) \/ WriteNative(t) \/ SendBroken(t) \/ SendTimeout(t)
               \/ ReadNothing(t) \/ ReadMore(t) \/ ReadDone(t) \/ ReadNack(t) \/ ReadBad(t)
               \/ Settle(t) \/ Unlock(t)

ShutDown == CloseFlush \/ CloseShut \/ CloseBroken
Closing == \/ CloseStart \/ CloseJoin \/ ShutDown \/ CloseDropped \/ DropDevice
           \/ CancelEarly(Closer)

Next == \/ \E c \in Callers : Caller(c) \/ Polls(c)
        \/ \E t \in Tasks : Exchange(t) \/ EncodeRefused(t)
        \/ HbStop \/ HbPing \/ HbMark \/ HbAborted
        \/ Closing
        \/ DevTake \/ DevAnswer \/ DevMore \/ DevEnd \/ DevClose

Spec == Init /\ [][Next]_vars

(* Fairness.  A task that can go on is scheduled, and its timers fire; the *)
(* consumer of a stream polls it until it ends, or drops it.  What is      *)
(* assumed of the device is kept apart: that it reads what it is sent, and *)
(* that it does not go on for ever with a reply it has begun.              *)
ClientFair == /\ \A t \in Tasks : WF_vars(Exchange(t))
              /\ \A c \in Callers : WF_vars(Polls(c))
              /\ WF_vars(HbStop \/ HbMark) /\ WF_vars(HbAborted)
              /\ WF_vars(CloseJoin) /\ WF_vars(ShutDown)
PeerReads  == WF_vars(DevTake \/ DevAnswer)
AnswersEnd == WF_vars(DevEnd)

DeafSpec == Spec /\ ClientFair /\ AnswersEnd
FairSpec == DeafSpec /\ PeerReads

-----------------------------------------------------------------------------
(* Safety.                                                                 *)

Codec(f) == f.kind # "native"

\* Nothing of any codec exchange is buffered or in flight, in either direction, and
\* the device has nothing more to say.
Silent == /\ toCli = <<>> /\ answering = 0
          /\ wbuf = <<>>
          /\ \A i \in 1..Len(toDev) : ~Codec(toDev[i])

\* A task that waits for a reply only ever finds a frame of the reply to its own
\* latest request: a reply left over by an abandoned request never reaches a
\* later command, though nothing in a frame says which request it answers
\* (DeviceInner::send_sdk and Commands::get_body accept whatever comes next).
OwnReply == \A t \in Tasks : pc[t] = "read" /\ toCli # <<>> => Head(toCli).id = trip[t]

\* While the poison flag is clear and no guard is armed, the wire is silent: this
\* is what lets the next holder of the mutex begin at a message boundary.
QuietWhenFree == ~poisoned /\ (\A t \in Tasks : ~armed[t]) => Silent

\* When a call is about to release the mutex, the outcome it returns tells whether
\* the connection is lost: success and a refusal by the device leave it usable,
\* every other outcome, a dropped future included, leaves it poisoned.
OutcomeTellsHealth ==
    \A t \in Tasks \ {Closer} :
       pc[t] = "unlock" => (poisoned <=> result[t] \notin {"ok", "rejected"})

\* The heartbeat does not die silently: it ends only on a poisoned connection, one
\* that nobody owns any more, or one that is being closed.
HeartbeatWatches == Protocol = "sdk2" /\ pc[Hb] = "exited" => poisoned \/ ~Alive \/ Aborted

\* An HD2020 connection never carries a codec frame after the probe, as the raw
\* write of hd2020_send requires.
NativeOnly == Protocol = "hd2020" => \A i \in 1..Len(toDev) : ~Codec(toDev[i])

\* The mutex changes hands, or becomes free, only when the guard of the task that
\* held it is disarmed or has poisoned the connection.
HandoverIsSettled == [][holder # None /\ holder' # holder => ~armed[holder]]_vars

\* What the device has still to read, and what is buffered behind it.
Pending == toDev \o wbuf

\* A poisoned connection stays so.  No request begins on it, nothing is added to what
\* the abandoned one had already encoded, and nobody writes the rest of that out but
\* Device::close, whose flush does not ask for the flag (device.rs lines 132 to 134).
PoisonIsFinal ==
    [][poisoned => /\ poisoned' /\ trips' = trips
                   /\ Pending' = Pending \/ Pending' = Tail(Pending)
                   /\ wbuf' # wbuf => holder = Closer]_vars

\* Only a task that gives up its own exchange poisons the connection: not one that
\* is dropped while it queues for the mutex, nor the heartbeat's late store.
PoisonByAbandonment ==
    [][~poisoned /\ poisoned' =>
         \E t \in Tasks : /\ armed[t] /\ holder = t
                          /\ result[t] \in {"failed", "cancelled"}]_vars

\* Closing cuts no exchange short: the write side is shut down while no guard is
\* armed and no ping is to come.
CloseCutsNothing ==
    [][~shut /\ shut' => (\A t \in Tasks : ~armed[t]) /\ pc[Hb] = "exited"]_vars

\* The link as its users may think of it: the task whose guard is armed owns it, and
\* of the wire only the exchanges count that still have codec frames in flight, or
\* buffered, or that the device is at.
Owner    == IF holder # None /\ armed[holder] THEN holder ELSE None
InFlight == {toDev[i].id : i \in {j \in 1..Len(toDev) : Codec(toDev[j])}}
              \cup {wbuf[i].id : i \in 1..Len(wbuf)}
              \cup {toCli[i].id : i \in 1..Len(toCli)} \cup ({answering} \ {0})

S == INSTANCE Session WITH owner <- Owner, broken <- poisoned, last <- trips, wire <- InFlight

\* The connection is a Session: exchanges take place one at a time, and a link
\* that was not given up passes from one to the next with nothing in flight.
ImplementsSession == S!Spec

-----------------------------------------------------------------------------
(* Liveness.                                                               *)

\* A command or stream that queues for the mutex is over at some time, whatever the
\* other callers and the heartbeat do and whatever the device answers, as long as the
\* device reads and comes to the end of its replies, and no consumer leaves a stream
\* neither polled nor dropped (transport.rs lines 40, 97 and 107; upload.rs).
EveryCallEnds == \A c \in Callers : pc[c] = "lock" ~> pc[c] = "idle"

\* On a poisoned connection, or one that nobody owns any more, the heartbeat ends.
HeartbeatEnds == poisoned \/ ~Alive ~> pc[Hb] = "exited"

\* close() returns, or is dropped.
CloseEnds == handle = "closing" ~> handle = "closed"

\* A round trip that was begun does not go on for ever.
Trips(t) == pc[t] \in {"send", "flush", "read"}
RoundTripEnds == \A t \in Tasks : Trips(t) ~> ~Trips(t)
=============================================================================
