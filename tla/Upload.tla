------------------------------- MODULE Upload -------------------------------
(***************************************************************************)
(* The bytes of one upload: the file on disk, which others may write while *)
(* it is read, the chunks that carry it, and what the device ends up with. *)
(* crates/huidu/src/upload.rs.  The lock, the poison guard and the frames  *)
(* are the business of Connection; here a round trip is answered or lost.  *)
(*                                                                         *)
(* The digest is perfect: two contents agree on it only if they are equal. *)
(***************************************************************************)
EXTENDS Naturals, Sequences, SequencesExt

CONSTANTS Bytes,      \* what a byte of the file may be
          Junk,       \* a byte of some other file the device still holds
          MaxLen,     \* bound: no file grows longer
          ChunkSize,  \* DeviceConfig::upload_chunk_size, at least one
          Retries,    \* DeviceConfig::upload_retries
          MaxEdits    \* bound: how often others write the file meanwhile

ASSUME UploadAssumption == /\ Junk \notin Bytes
                           /\ ChunkSize \in Nat \ {0}
                           /\ {MaxLen, Retries, MaxEdits} \subseteq Nat

VARIABLES file,      \* the file on disk
          edits,     \* how often it was written since it was opened
          pc,        \* where upload_file and its stream stand
          size,      \* the length its metadata told
          announced, \* what was hashed, hence what the digest stands for
          pos,       \* the read cursor of the open file
          offset,    \* bytes the device acknowledged
          buf,       \* the chunk under way
          attempt,   \* how often it was sent again
          kept,      \* what the device held when the transfer started
          stored,    \* what it holds
          result     \* how the upload ended

diskVars   == <<file, edits>>
deviceVars == <<kept, stored>>
chunkVars  == <<offset, buf, attempt>>
vars == <<file, edits, pc, size, announced, pos, offset, buf, attempt, kept,
          stored, result>>

Contents == UNION {[1..n -> Bytes] : n \in 0..MaxLen}
Stops    == {"open", "hash", "ready", "start", "yield", "loop", "sent", "again",
             "end", "over"}
Results  == {"none", "ok", "start", "content", "end", "lost", "failed", "cancelled"}

\* Types; a chunk is never empty nor too long, nor sent once too often.
TypeOK == /\ file \in Contents
          /\ edits \in 0..MaxEdits
          /\ pc \in Stops
          /\ size \in 0..MaxLen
          /\ announced \in Seq(Bytes)
          /\ pos \in Nat
          /\ offset \in Nat
          /\ buf \in Seq(Bytes) /\ Len(buf) <= ChunkSize
          /\ (pc \in {"sent", "again"} => buf # <<>>)
          /\ attempt \in 0..Retries
          /\ kept \in Seq(Bytes \cup {Junk})
          /\ stored \in Seq(Bytes \cup {Junk})
          /\ result \in Results

Init == /\ file \in Contents
        /\ edits = 0
        /\ pc = "open"
        /\ size = 0
        /\ announced = <<>>
        /\ pos = 0
        /\ offset = 0
        /\ buf = <<>>
        /\ attempt = 0
        /\ kept = <<>>
        /\ stored = <<>>
        /\ result = "none"

Smaller(a, b) == IF a < b THEN a ELSE b

\* Names that begin with Slip are mistakes this code could have made: the next
\* definition with a slip in its place breaks a property.  No action uses one.

SlipNotSought(to)  == UNCHANGED pos
SlipWholeChunk(n)  == offset' = offset + ChunkSize
SlipPartialTail    == offset + ChunkSize <= size
SlipNotCounted     == UNCHANGED attempt
SlipReadTooMuch    == ChunkSize + 1

\* file.seek(SeekFrom::Start(to)); the cursor may lie beyond the end.
Seek(to) == pos' = to

\* offset += n, for the n bytes the read returned.
Advance(n) == offset' = offset + n

\* The condition of the chunk loop; size is the one read when the file was opened.
MoreToSend == offset < size

\* send_chunk's retry budget, and the count it keeps.
MayRetry   == attempt < Retries
CountRetry == attempt' = attempt + 1

\* The room a read of the content pass has.
Room == ChunkSize

\* The bytes one read may return: some that follow the cursor, as many as it likes.
Readable(room) == {SubSeq(file, pos + 1, pos + n) :
                      n \in 1..(IF pos < Len(file) THEN Smaller(room, Len(file) - pos)
                                                   ELSE 0)}
AtEof == pos >= Len(file)

-----------------------------------------------------------------------------
(* Other programs that write the file.                                     *)

Edit == /\ pc \notin {"open", "over"} /\ edits < MaxEdits
        /\ edits' = edits + 1
        /\ file' \in Contents \ {file}
        /\ UNCHANGED <<pc, size, announced, pos, chunkVars, deviceVars, result>>

-----------------------------------------------------------------------------
(* upload_file, before it returns the stream.                              *)

\* File::open and metadata().len().
Open == /\ pc = "open"
        /\ pc' = "hash"
        /\ size' = Len(file)
        /\ UNCHANGED <<diskVars, announced, pos, chunkVars, deviceVars, result>>

\* stream_md5 reads until a read returns nothing, and rewinds.
HashRead == /\ pc = "hash"
            /\ \E piece \in Readable(MaxLen) : /\ announced' = announced \o piece
                                               /\ pos' = pos + Len(piece)
            /\ UNCHANGED <<diskVars, pc, size, chunkVars, deviceVars, result>>

HashDone == /\ pc = "hash" /\ AtEof
            /\ pc' = "ready"
            /\ Seek(0)
            /\ UNCHANGED <<diskVars, size, announced, chunkVars, deviceVars, result>>

-----------------------------------------------------------------------------
(* The stream.                                                             *)

Over(how) == pc' = "over" /\ result' = how

\* FileStartAsk; what the device already holds is a start of this file, or not.
Start == /\ pc = "ready"
         /\ pc' = "start"
         /\ \E n \in 0..(MaxLen + 1) :
               kept' \in {[i \in 1..n |-> Junk]} \cup
                         {SubSeq(announced, 1, k) : k \in {n} \cap 0..Len(announced)}
         /\ stored' = kept'
         /\ UNCHANGED <<diskVars, size, announced, pos, chunkVars, result>>

\* FileStartReply: carry on behind what the device holds, but within the file.
StartAccepted == /\ pc = "start"
                 /\ pc' = "yield"
                 /\ offset' = Smaller(Len(kept), size)
                 /\ Seek(offset')
                 /\ UNCHANGED <<diskVars, size, announced, buf, attempt, deviceVars, result>>

StartRejected == /\ pc = "start"
                 /\ Over("start")
                 /\ UNCHANGED <<diskVars, size, announced, pos, chunkVars, deviceVars>>

\* The consumer polls for the next progress item.
Poll == /\ pc = "yield"
        /\ pc' = "loop"
        /\ UNCHANGED <<diskVars, size, announced, pos, chunkVars, deviceVars, result>>

\* One turn of the loop: a read, short or full, and a FileContentAsk with it.
SendChunk == /\ pc = "loop" /\ MoreToSend
             /\ buf' \in Readable(Room)
             /\ pos' = pos + Len(buf')
             /\ attempt' = 0
             /\ pc' = "sent"
             /\ UNCHANGED <<diskVars, size, announced, offset, deviceVars, result>>

\* Nothing left to send, or nothing left to read: FileEndAsk.
SendEnd == /\ pc = "loop" /\ (MoreToSend => AtEof)
           /\ pc' = "end"
           /\ UNCHANGED <<diskVars, size, announced, pos, chunkVars, deviceVars, result>>

\* Opening, reading or seeking the file fails.
DiskFails == /\ pc \in {"open", "hash", "start", "loop"}
             /\ Over("failed")
             /\ UNCHANGED <<diskVars, size, announced, pos, chunkVars, deviceVars>>

\* The device writes the chunk where it was told to, even behind a hole.
Written == [i \in 1..(IF Len(stored) > offset + Len(buf) THEN Len(stored) ELSE offset + Len(buf)) |->
               IF i \in (offset + 1)..(offset + Len(buf)) THEN buf[i - offset]
               ELSE IF i \in DOMAIN stored THEN stored[i] ELSE Junk]

\* FileContentReply with result 0.
ChunkAccepted == /\ pc = "sent"
                 /\ stored' = Written
                 /\ Advance(Len(buf))
                 /\ buf' = <<>> /\ attempt' = 0
                 /\ pc' = "yield"
                 /\ UNCHANGED <<diskVars, size, announced, pos, kept, result>>

\* FileContentReply with another result, for a chunk the device wrote or did not:
\* the same chunk again, at the same offset ...
ChunkRetried == /\ pc = "sent" /\ MayRetry
                /\ stored' \in {stored, Written}
                /\ CountRetry
                /\ pc' = "again"
                /\ UNCHANGED <<diskVars, size, announced, pos, offset, buf, kept, result>>

SendAgain == /\ pc = "again"
             /\ pc' = "sent"
             /\ UNCHANGED <<diskVars, size, announced, pos, chunkVars, deviceVars, result>>

\* ... or, the retries used up, Error::Upload.
ChunkRejected == /\ pc = "sent" /\ ~MayRetry
                 /\ stored' \in {stored, Written}
                 /\ Over("content")
                 /\ UNCHANGED <<diskVars, size, announced, pos, chunkVars, kept>>

\* FileEndReply: the device compares the digests.
EndReply == /\ pc = "end"
            /\ Over(IF stored = announced THEN "ok" ELSE "end")
            /\ UNCHANGED <<diskVars, size, announced, pos, chunkVars, deviceVars>>

\* A round trip times out or breaks; a chunk may have been written all the same.
Lost == /\ pc \in {"start", "sent", "end"}
        /\ Over("lost")
        /\ stored' \in {stored, IF pc = "sent" THEN Written ELSE stored}
        /\ UNCHANGED <<diskVars, size, announced, pos, chunkVars, kept>>

\* The consumer drops the stream, or the future of upload_file.
Cancel == /\ pc \notin {"open", "over"}
          /\ Over("cancelled")
          /\ stored' \in {stored, IF pc = "sent" THEN Written ELSE stored}
          /\ UNCHANGED <<diskVars, size, announced, pos, chunkVars, kept>>

Step == \/ Open \/ HashRead \/ HashDone
        \/ Start \/ StartAccepted \/ StartRejected
        \/ Poll \/ SendChunk \/ SendEnd
        \/ ChunkAccepted \/ ChunkRetried \/ SendAgain \/ ChunkRejected \/ EndReply

Next == Step \/ Edit \/ DiskFails \/ Lost \/ Cancel

Spec == Init /\ [][Next]_vars

\* The task is scheduled, its consumer polls, every round trip is answered or
\* runs into its deadline, and others write the file only so often.
FairSpec == Spec /\ WF_vars(Step)

-----------------------------------------------------------------------------
(* Properties.                                                             *)

\* The cursor of the file and the offset told to the device keep in step, through
\* resumption, short reads, retries and whatever others do to the file
\* (upload.rs lines 115 to 145, which never seek again).
Aligned == /\ (pc \in {"yield", "loop"} => pos = offset)
           /\ (pc \in {"sent", "again"} => pos = offset + Len(buf))

\* Nobody wrote the file, and the device held a start of it or nothing.
Undisturbed == edits = 0 /\ IsPrefix(kept, announced)

\* Then the device holds a start of the file at every moment, whatever was sent
\* twice: no hole, no chunk at the wrong place, no chunk doubled.
InPlace == Undisturbed => IsPrefix(stored, announced)

\* And then the device never answers FileEndAsk with a mismatch: Error::Upload at
\* stage "end" always has a reason outside this program.
NoFalseAlarm == result = "end" => ~Undisturbed

\* Where the transfer stands, as its user may think of it.
Phase == CASE pc \in {"open", "hash", "ready"} -> "before"
           [] pc = "over" /\ result \in {"ok", "end"} -> result
           [] pc = "over" /\ result \notin {"ok", "end"} -> "other"
           [] OTHER -> "under way"

T == INSTANCE Transfer WITH promised <- announced, disturbed <- ~Undisturbed, phase <- Phase,
                            held <- stored, told <- offset

\* An upload is a Transfer: progress is never taken back nor ahead of the device, no
\* piece that was right becomes wrong by a retry or a resumption, and the end tells
\* what the device holds, whatever others do to the file (upload.rs lines 82 to 163).
ImplementsTransfer == T!Spec

\* Every upload ends, even of a file that others keep writing.
UploadEnds == pc = "hash" ~> pc = "over"

\* upload.rs line 42: "Fraction transferred in `0.0..=1.0`".  A file that grew after
\* its length was read is sent beyond that length.
FractionInRange == pc = "yield" => offset <= size
=============================================================================
