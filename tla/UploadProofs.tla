---------------------------- MODULE UploadProofs ----------------------------
(***************************************************************************)
(* Why an upload of an undisturbed file arrives in place, for every file,  *)
(* chunk size, number of retries and edits, and that Upload is a Transfer  *)
(* even when it is disturbed.                                              *)
(***************************************************************************)
EXTENDS Upload, TLAPS

USE DEF diskVars, deviceVars, chunkVars

-----------------------------------------------------------------------------
(* The inductive invariant.                                                *)

\* Where upload_file has not yet returned its stream, and where the stream has begun.
Early    == {"open", "hash", "ready"}
Chunking == {"yield", "loop", "sent", "again", "end"}

\* Of an unedited file the length is right, and so is what was hashed of it.
HashInv == /\ pc = "open" => edits = 0 /\ pos = 0 /\ announced = <<>>
           /\ pc = "hash" => pos = Len(announced)
           /\ edits = 0 /\ pc \notin {"open", "over"} => size = Len(file)
           /\ edits = 0 /\ pc = "hash" => IsPrefix(announced, file)
           /\ edits = 0 /\ pc \in {"ready", "start"} \cup Chunking => announced = file

\* Before the first chunk the device holds what it held at the start.
StartInv == /\ pc \in Early => kept = <<>> /\ stored = <<>>
            /\ pc \in Early \cup {"start"} => offset = 0 /\ buf = <<>>
            /\ pc = "start" => stored = kept

\* The offset never runs ahead of the device; a chunk is the piece at the offset; and
\* the loop ends only when all of the file is there.
ChunkInv == /\ pc \in Chunking => offset <= Len(stored)
            /\ Undisturbed /\ pc \in {"sent", "again"} =>
                  /\ offset + Len(buf) <= Len(announced)
                  /\ \A i \in 1..Len(buf) : buf[i] = announced[offset + i]
            /\ Undisturbed /\ pc = "end" => stored = announced

\* There is a result only at the end.
EndInv == result # "none" => pc = "over"

IInv == /\ TypeOK /\ HashInv /\ StartInv /\ ChunkInv /\ EndInv
        /\ Aligned /\ InPlace /\ NoFalseAlarm

-----------------------------------------------------------------------------
(* Sequences.                                                              *)

\* A prefix, element by element.
LEMMA PrefixFacts == ASSUME NEW D, NEW s \in Seq(D), NEW t \in Seq(D)
                     PROVE  IsPrefix(s, t) <=> /\ Len(s) <= Len(t)
                                               /\ \A i \in 1..Len(s) : s[i] = t[i]
<1>1. Len(s) \in Nat /\ Len(t) \in Nat
  OBVIOUS
<1>2. SubSeq(s, 1, Len(s)) = s
  OBVIOUS
<1>3. ASSUME Len(s) <= Len(t)
      PROVE  /\ SubSeq(t, 1, Len(s)) \in Seq(D) /\ Len(SubSeq(t, 1, Len(s))) = Len(s)
             /\ \A i \in 1..Len(s) : SubSeq(t, 1, Len(s))[i] = t[i]
  BY <1>1, <1>3
<1>4. ASSUME Len(s) <= Len(t), \A i \in 1..Len(s) : s[i] = t[i]
      PROVE  s = SubSeq(t, 1, Len(s))
  BY <1>1, <1>3, <1>4
<1> QED BY <1>1, <1>2, <1>3, <1>4 DEF IsPrefix

\* A prefix as long as the whole is the whole.
LEMMA PrefixWhole == ASSUME NEW D, NEW s \in Seq(D), NEW t \in Seq(D),
                            IsPrefix(s, t), Len(t) <= Len(s)
                     PROVE  s = t
BY PrefixFacts

\* The empty sequence begins every other, and every sequence begins itself.
LEMMA PrefixTrivial == ASSUME NEW D, NEW t \in Seq(D)
                       PROVE  IsPrefix(<<>>, t) /\ IsPrefix(t, t)
<1>1. <<>> \in Seq(D) /\ Len(<<>>) = 0 /\ Len(t) \in Nat
  OBVIOUS
<1>2. IsPrefix(<<>>, t)
  <2>1. \A e \in Seq(D) : Len(e) = 0 => IsPrefix(e, t)
    <3>1. SUFFICES ASSUME NEW e \in Seq(D), Len(e) = 0 PROVE IsPrefix(e, t)
      OBVIOUS
    <3>2. Len(e) <= Len(t) /\ \A i \in 1..Len(e) : e[i] = t[i]
      BY <1>1, <3>1
    <3> QED BY <3>2, PrefixFacts
  <2> QED BY <1>1, <2>1
<1>3. IsPrefix(t, t)
  BY <1>1, PrefixFacts
<1> QED BY <1>2, <1>3

\* A file is a sequence of bytes, and not too long.
LEMMA ContentsFacts == ASSUME NEW f \in Contents
                       PROVE  f \in Seq(Bytes) /\ Len(f) \in 0..MaxLen
<1>1. PICK n \in 0..MaxLen : f \in [1..n -> Bytes]
  BY DEF Contents
<1>2. n \in Nat
  BY UploadAssumption
<1> QED BY <1>1, <1>2

\* What a read returns: a piece of the file that starts at the cursor.
LEMMA ReadFacts == ASSUME NEW room \in Nat \ {0}, file \in Contents, pos \in Nat,
                          NEW piece \in Readable(room)
                   PROVE  /\ piece \in Seq(Bytes) /\ piece # <<>>
                          /\ Len(piece) \in 1..room
                          /\ pos + Len(piece) <= Len(file)
                          /\ \A i \in 1..Len(piece) : piece[i] = file[pos + i]
<1>1. file \in Seq(Bytes) /\ Len(file) \in Nat
  BY ContentsFacts, UploadAssumption
<1>2. PICK n \in 1..(IF pos < Len(file) THEN Smaller(room, Len(file) - pos) ELSE 0) :
              piece = SubSeq(file, pos + 1, pos + n)
  BY DEF Readable
<1>3. n \in 1..room /\ pos + n <= Len(file)
  BY <1>1, <1>2 DEF Smaller
<1>4. piece \in Seq(Bytes) /\ Len(piece) = n
  BY <1>1, <1>2, <1>3
<1>5. \A i \in 1..n : piece[i] = file[pos + i]
  BY <1>1, <1>2, <1>3
<1> QED BY <1>3, <1>4, <1>5

\* What the device holds once it wrote the chunk: it grew, and only at the chunk's place.
LEMMA WrittenFacts == ASSUME TypeOK
                      PROVE  /\ Written \in Seq(Bytes \cup {Junk})
                             /\ Len(Written) = IF Len(stored) > offset + Len(buf) THEN Len(stored) ELSE offset + Len(buf)
                             /\ \A i \in 1..Len(Written) :
                                  /\ i \in (offset + 1)..(offset + Len(buf)) => Written[i] = buf[i - offset]
                                  /\ i \notin (offset + 1)..(offset + Len(buf)) /\ i <= Len(stored)
                                        => Written[i] = stored[i]
<1> DEFINE n == IF Len(stored) > offset + Len(buf) THEN Len(stored) ELSE offset + Len(buf)
<1>1. /\ stored \in Seq(Bytes \cup {Junk}) /\ buf \in Seq(Bytes) /\ offset \in Nat
      /\ Len(stored) \in Nat /\ Len(buf) \in Nat
  BY DEF TypeOK
<1>2. n \in Nat /\ Len(stored) <= n /\ offset + Len(buf) <= n
  BY <1>1
<1>3. Written = [i \in 1..n |-> IF i \in (offset + 1)..(offset + Len(buf)) THEN buf[i - offset]
                               ELSE IF i \in DOMAIN stored THEN stored[i] ELSE Junk]
  BY DEF Written
<1>4. \A i \in (offset + 1)..(offset + Len(buf)) : buf[i - offset] \in Bytes
  BY <1>1
<1>5. DOMAIN stored = 1..Len(stored) /\ \A i \in DOMAIN stored : stored[i] \in Bytes \cup {Junk}
  BY <1>1
<1> HIDE DEF n
<1>6. Written \in [1..n -> Bytes \cup {Junk}]
  BY <1>3, <1>4, <1>5
<1>7. Written \in Seq(Bytes \cup {Junk}) /\ Len(Written) = n
  BY <1>2, <1>6
<1>8. \A i \in 1..n : /\ i \in (offset + 1)..(offset + Len(buf)) => Written[i] = buf[i - offset]
                      /\ i \notin (offset + 1)..(offset + Len(buf)) /\ i <= Len(stored)
                            => Written[i] = stored[i]
  BY <1>3, <1>5
<1> QED BY <1>7, <1>8 DEF n

-----------------------------------------------------------------------------
(* Types.                                                                  *)

\* What TypeOK says of the sequences, in terms of their elements.
LEMMA TypeFacts == ASSUME TypeOK
                   PROVE  /\ file \in Seq(Bytes) /\ Len(file) \in 0..MaxLen
                          /\ announced \in Seq(Bytes) /\ Len(announced) \in Nat
                          /\ announced \in Seq(Bytes \cup {Junk})
                          /\ buf \in Seq(Bytes) /\ Len(buf) \in 0..ChunkSize
                          /\ kept \in Seq(Bytes \cup {Junk}) /\ Len(kept) \in Nat
                          /\ stored \in Seq(Bytes \cup {Junk}) /\ Len(stored) \in Nat
                          /\ MaxLen \in Nat /\ ChunkSize \in Nat \ {0}
                          /\ Retries \in Nat /\ MaxEdits \in Nat
<1>1. file \in Seq(Bytes) /\ Len(file) \in 0..MaxLen
  BY ContentsFacts DEF TypeOK
<1>2. /\ announced \in Seq(Bytes) /\ Len(announced) \in Nat
      /\ buf \in Seq(Bytes) /\ Len(buf) \in Nat /\ Len(buf) <= ChunkSize
      /\ kept \in Seq(Bytes \cup {Junk}) /\ Len(kept) \in Nat
      /\ stored \in Seq(Bytes \cup {Junk}) /\ Len(stored) \in Nat
  BY DEF TypeOK
<1>3. announced \in Seq(Bytes \cup {Junk})
  BY <1>2
<1>4. /\ MaxLen \in Nat /\ ChunkSize \in Nat \ {0}
      /\ Retries \in Nat /\ MaxEdits \in Nat
  BY UploadAssumption
<1>5. Len(buf) \in 0..ChunkSize
  BY <1>2, <1>4
<1> QED BY <1>1, <1>2, <1>3, <1>4, <1>5

\* What the device may claim to hold at the start.
LEMMA KeptFacts == ASSUME TypeOK, Start
                   PROVE  kept' \in Seq(Bytes \cup {Junk}) /\ stored' = kept'
<1>1. PICK n \in 0..(MaxLen + 1) :
             kept' \in {[i \in 1..n |-> Junk]} \cup
                       {SubSeq(announced, 1, k) : k \in {n} \cap 0..Len(announced)}
  BY DEF Start
<1>2. n \in Nat
  BY UploadAssumption
<1>3. CASE kept' = [i \in 1..n |-> Junk]
  <2>1. kept' \in [1..n -> Bytes \cup {Junk}]
    BY <1>3
  <2> QED BY <2>1, <1>2 DEF Start
<1>4. CASE kept' \in {SubSeq(announced, 1, k) : k \in {n} \cap 0..Len(announced)}
  <2>1. n \in 0..Len(announced) /\ kept' = SubSeq(announced, 1, n)
    BY <1>4
  <2>2. SubSeq(announced, 1, n) \in Seq(Bytes \cup {Junk})
    BY <2>1, TypeFacts
  <2> QED BY <2>1, <2>2 DEF Start
<1> QED BY <1>1, <1>3, <1>4

\* Every step keeps the types.
LEMMA TypeStep == ASSUME IInv, [Next]_vars PROVE TypeOK'
<1> USE DEF TypeOK, Stops, Results
<1>0. TypeOK
  BY DEF IInv
<1>1. /\ MaxLen \in Nat /\ ChunkSize \in Nat \ {0} /\ Retries \in Nat /\ MaxEdits \in Nat
  BY UploadAssumption
<1>2. Len(file) \in 0..MaxLen /\ file \in Seq(Bytes)
  BY <1>0, TypeFacts
<1>3. Written \in Seq(Bytes \cup {Junk})
  BY <1>0, WrittenFacts
<1>4. CASE Open
  BY <1>0, <1>1, <1>2, <1>4 DEF Open
<1>5. CASE HashRead
  <2>1. PICK piece \in Readable(MaxLen) : announced' = announced \o piece /\ pos' = pos + Len(piece)
    BY <1>5 DEF HashRead
  <2>2. MaxLen # 0
    <3>1. SUFFICES ASSUME MaxLen = 0 PROVE FALSE
      OBVIOUS
    <3>2. Len(file) = 0 /\ pos \in Nat
      BY <3>1, <1>0, <1>2
    <3>3. Readable(MaxLen) = {}
      BY <3>2 DEF Readable
    <3> QED BY <2>1, <3>3
  <2>3. piece \in Seq(Bytes) /\ Len(piece) \in Nat
    BY <2>1, <2>2, <1>0, <1>1, ReadFacts
  <2>4. announced' \in Seq(Bytes) /\ pos' \in Nat
    BY <2>1, <2>3, <1>0
  <2> QED BY <2>4, <1>0, <1>5 DEF HashRead
<1>6. CASE HashDone
  BY <1>0, <1>6 DEF HashDone, Seek
<1>7. CASE Start
  BY <1>0, <1>7, KeptFacts DEF Start
<1>8. CASE StartAccepted
  <2>1. offset' \in Nat
    BY <1>0, <1>1, <1>8, TypeFacts DEF StartAccepted, Smaller
  <2> QED BY <2>1, <1>0, <1>8 DEF StartAccepted, Seek
<1>9. CASE StartRejected
  BY <1>0, <1>9 DEF StartRejected, Over
<1>10. CASE Poll
  BY <1>0, <1>10 DEF Poll
<1>11. CASE SendChunk
  <2>1. /\ buf' \in Seq(Bytes) /\ buf' # <<>> /\ Len(buf') \in 1..ChunkSize
    BY <1>0, <1>1, <1>11, ReadFacts DEF SendChunk, Room
  <2>2. pos' \in Nat /\ attempt' \in 0..Retries
    BY <2>1, <1>0, <1>1, <1>11 DEF SendChunk
  <2> QED BY <2>1, <2>2, <1>0, <1>1, <1>11 DEF SendChunk
<1>12. CASE SendEnd
  BY <1>0, <1>12 DEF SendEnd
<1>13. CASE ChunkAccepted
  <2>1. offset' \in Nat /\ attempt' \in 0..Retries
    BY <1>0, <1>1, <1>13, TypeFacts DEF ChunkAccepted, Advance
  <2>2. stored' \in Seq(Bytes \cup {Junk})
    BY <1>3, <1>13 DEF ChunkAccepted
  <2>3. buf' \in Seq(Bytes) /\ Len(buf') <= ChunkSize
    BY <1>1, <1>13 DEF ChunkAccepted
  <2> QED BY <2>1, <2>2, <2>3, <1>0, <1>13 DEF ChunkAccepted
<1>14. CASE ChunkRetried
  <2>1. attempt' \in 0..Retries
    BY <1>0, <1>1, <1>14 DEF ChunkRetried, MayRetry, CountRetry
  <2>2. stored' \in Seq(Bytes \cup {Junk})
    BY <1>0, <1>3, <1>14 DEF ChunkRetried
  <2> QED BY <2>1, <2>2, <1>0, <1>14 DEF ChunkRetried
<1>15. CASE SendAgain
  BY <1>0, <1>15 DEF SendAgain
<1>16. CASE ChunkRejected
  <2>1. stored' \in Seq(Bytes \cup {Junk})
    BY <1>0, <1>3, <1>16 DEF ChunkRejected
  <2> QED BY <2>1, <1>0, <1>16 DEF ChunkRejected, Over
<1>17. CASE EndReply
  BY <1>0, <1>17 DEF EndReply, Over
<1>18. CASE Edit
  BY <1>0, <1>1, <1>18 DEF Edit
<1>19. CASE DiskFails
  BY <1>0, <1>19 DEF DiskFails, Over
<1>20. CASE Lost
  <2>1. stored' \in Seq(Bytes \cup {Junk})
    BY <1>0, <1>3, <1>20 DEF Lost
  <2> QED BY <2>1, <1>0, <1>20 DEF Lost, Over
<1>21. CASE Cancel
  <2>1. stored' \in Seq(Bytes \cup {Junk})
    BY <1>0, <1>3, <1>21 DEF Cancel
  <2> QED BY <2>1, <1>0, <1>21 DEF Cancel, Over
<1>22. CASE UNCHANGED vars
  BY <1>0, <1>22 DEF vars
<1> QED BY <1>4, <1>5, <1>6, <1>7, <1>8, <1>9, <1>10, <1>11, <1>12, <1>13, <1>14, <1>15,
           <1>16, <1>17, <1>18, <1>19, <1>20, <1>21, <1>22 DEF Next, Step

-----------------------------------------------------------------------------
(* Each part of the invariant is kept.                                     *)

\* What was hashed of an unedited file is the file.
LEMMA HashStep == ASSUME IInv, [Next]_vars PROVE HashInv'
<1> USE DEF IInv, HashInv, Early, Chunking
<1>0. TypeOK
  OBVIOUS
<1>1. /\ file \in Seq(Bytes) /\ Len(file) \in 0..MaxLen
      /\ announced \in Seq(Bytes) /\ Len(announced) \in Nat
      /\ edits \in Nat /\ pos \in Nat /\ MaxLen \in Nat
  BY <1>0, TypeFacts DEF TypeOK
<1>2. CASE Open
  <2>1. IsPrefix(announced', file') /\ pos' = Len(announced')
    BY <1>1, <1>2, PrefixTrivial DEF Open
  <2> QED BY <2>1, <1>1, <1>2 DEF Open
<1>3. CASE HashRead
  <2>1. PICK piece \in Readable(MaxLen) : announced' = announced \o piece /\ pos' = pos + Len(piece)
    BY <1>3 DEF HashRead
  <2>2. MaxLen # 0
    BY <2>1, <1>1 DEF Readable
  <2>3. /\ piece \in Seq(Bytes) /\ Len(piece) \in Nat /\ pos + Len(piece) <= Len(file)
        /\ \A i \in 1..Len(piece) : piece[i] = file[pos + i]
    <3>1. file \in Contents
      BY <1>0 DEF TypeOK
    <3> QED BY <2>1, <2>2, <1>1, <3>1, ReadFacts
  <2>4. /\ announced' \in Seq(Bytes) /\ Len(announced') = Len(announced) + Len(piece)
        /\ \A i \in 1..Len(announced') :
              announced'[i] = IF i <= Len(announced) THEN announced[i] ELSE piece[i - Len(announced)]
    BY <2>1, <2>3, <1>1
  <2>5. pc = "hash" /\ pos = Len(announced) /\ pos' = Len(announced')
    BY <2>1, <2>4, <1>3 DEF HashRead
  <2>6. ASSUME edits = 0 PROVE IsPrefix(announced', file)
    <3>1. \A i \in 1..Len(announced) : announced[i] = file[i]
      BY <2>5, <2>6, <1>1, PrefixFacts
    <3>2. ASSUME NEW i \in 1..Len(announced') PROVE announced'[i] = file[i]
      <4>1. CASE i <= Len(announced)
        BY <4>1, <2>3, <2>4, <3>1, <1>1
      <4>2. CASE ~(i <= Len(announced))
        <5>1. i - Len(announced) \in 1..Len(piece) /\ pos + (i - Len(announced)) = i
          BY <4>2, <2>3, <2>4, <2>5, <1>1
        <5>2. announced'[i] = piece[i - Len(announced)]
          BY <4>2, <2>4
        <5> QED BY <5>1, <5>2, <2>3
      <4> QED BY <4>1, <4>2
    <3>3. Len(announced') <= Len(file)
      BY <2>3, <2>4, <2>5, <1>1
    <3> QED BY <2>4, <3>2, <3>3, <1>1, PrefixFacts
  <2> QED BY <2>5, <2>6, <1>3 DEF HashRead
<1>4. CASE HashDone
  <2>1. edits = 0 => announced = file
    BY <1>1, <1>4, PrefixWhole DEF HashDone, AtEof
  <2> QED BY <2>1, <1>4 DEF HashDone, Seek
<1>5. CASE Start
  BY <1>5 DEF Start
<1>6. CASE StartAccepted
  BY <1>6 DEF StartAccepted, Seek
<1>7. CASE StartRejected
  BY <1>7 DEF StartRejected, Over
<1>8. CASE Poll
  BY <1>8 DEF Poll
<1>9. CASE SendChunk
  BY <1>9 DEF SendChunk
<1>10. CASE SendEnd
  BY <1>10 DEF SendEnd
<1>11. CASE ChunkAccepted
  BY <1>11 DEF ChunkAccepted, Advance
<1>12. CASE ChunkRetried
  BY <1>12 DEF ChunkRetried, CountRetry
<1>13. CASE SendAgain
  BY <1>13 DEF SendAgain
<1>14. CASE ChunkRejected
  BY <1>14 DEF ChunkRejected, Over
<1>15. CASE EndReply
  BY <1>15 DEF EndReply, Over
<1>16. CASE Edit
  <2>1. edits' # 0
    BY <1>1, <1>16 DEF Edit
  <2> QED BY <2>1, <1>16 DEF Edit
<1>17. CASE DiskFails
  BY <1>17 DEF DiskFails, Over
<1>18. CASE Lost
  BY <1>18 DEF Lost, Over
<1>19. CASE Cancel
  BY <1>19 DEF Cancel, Over
<1>20. CASE UNCHANGED vars
  BY <1>20 DEF vars
<1> QED BY <1>2, <1>3, <1>4, <1>5, <1>6, <1>7, <1>8, <1>9, <1>10, <1>11, <1>12, <1>13,
           <1>14, <1>15, <1>16, <1>17, <1>18, <1>19, <1>20 DEF Next, Step

\* Nothing reaches the device before the first chunk.
LEMMA StartStep == ASSUME IInv, [Next]_vars PROVE StartInv'
<1> USE DEF IInv, StartInv, Early
<1>1. CASE Open
  BY <1>1 DEF Open
<1>2. CASE HashRead
  BY <1>2 DEF HashRead
<1>3. CASE HashDone
  BY <1>3 DEF HashDone, Seek
<1>4. CASE Start
  BY <1>4 DEF Start
<1>5. CASE StartAccepted
  BY <1>5 DEF StartAccepted, Seek
<1>6. CASE StartRejected
  BY <1>6 DEF StartRejected, Over
<1>7. CASE Poll
  BY <1>7 DEF Poll
<1>8. CASE SendChunk
  BY <1>8 DEF SendChunk
<1>9. CASE SendEnd
  BY <1>9 DEF SendEnd
<1>10. CASE ChunkAccepted
  BY <1>10 DEF ChunkAccepted, Advance
<1>11. CASE ChunkRetried
  BY <1>11 DEF ChunkRetried, CountRetry
<1>12. CASE SendAgain
  BY <1>12 DEF SendAgain
<1>13. CASE ChunkRejected
  BY <1>13 DEF ChunkRejected, Over
<1>14. CASE EndReply
  BY <1>14 DEF EndReply, Over
<1>15. CASE Edit
  BY <1>15 DEF Edit
<1>16. CASE DiskFails
  BY <1>16 DEF DiskFails, Over
<1>17. CASE Lost
  BY <1>17 DEF Lost, Over
<1>18. CASE Cancel
  BY <1>18 DEF Cancel, Over
<1>19. CASE UNCHANGED vars
  BY <1>19 DEF vars
<1> QED BY <1>1, <1>2, <1>3, <1>4, <1>5, <1>6, <1>7, <1>8, <1>9, <1>10, <1>11, <1>12,
           <1>13, <1>14, <1>15, <1>16, <1>17, <1>18, <1>19 DEF Next, Step

\* A result comes last.
LEMMA EndStep == ASSUME IInv, [Next]_vars PROVE EndInv'
<1> USE DEF IInv, EndInv
<1>1. CASE Open
  BY <1>1 DEF Open
<1>2. CASE HashRead
  BY <1>2 DEF HashRead
<1>3. CASE HashDone
  BY <1>3 DEF HashDone, Seek
<1>4. CASE Start
  BY <1>4 DEF Start
<1>5. CASE StartAccepted
  BY <1>5 DEF StartAccepted, Seek
<1>6. CASE StartRejected
  BY <1>6 DEF StartRejected, Over
<1>7. CASE Poll
  BY <1>7 DEF Poll
<1>8. CASE SendChunk
  BY <1>8 DEF SendChunk
<1>9. CASE SendEnd
  BY <1>9 DEF SendEnd
<1>10. CASE ChunkAccepted
  BY <1>10 DEF ChunkAccepted, Advance
<1>11. CASE ChunkRetried
  BY <1>11 DEF ChunkRetried, CountRetry
<1>12. CASE SendAgain
  BY <1>12 DEF SendAgain
<1>13. CASE ChunkRejected
  BY <1>13 DEF ChunkRejected, Over
<1>14. CASE EndReply
  BY <1>14 DEF EndReply, Over
<1>15. CASE Edit
  BY <1>15 DEF Edit
<1>16. CASE DiskFails
  BY <1>16 DEF DiskFails, Over
<1>17. CASE Lost
  BY <1>17 DEF Lost, Over
<1>18. CASE Cancel
  BY <1>18 DEF Cancel, Over
<1>19. CASE UNCHANGED vars
  BY <1>19 DEF vars
<1> QED BY <1>1, <1>2, <1>3, <1>4, <1>5, <1>6, <1>7, <1>8, <1>9, <1>10, <1>11, <1>12,
           <1>13, <1>14, <1>15, <1>16, <1>17, <1>18, <1>19 DEF Next, Step

\* The cursor of the file stays with the offset.
LEMMA AlignedStep == ASSUME IInv, [Next]_vars PROVE Aligned'
<1> USE DEF IInv, Aligned
<1>1. CASE Open
  BY <1>1 DEF Open
<1>2. CASE HashRead
  BY <1>2 DEF HashRead
<1>3. CASE HashDone
  BY <1>3 DEF HashDone, Seek
<1>4. CASE Start
  BY <1>4 DEF Start
<1>5. CASE StartAccepted
  BY <1>5 DEF StartAccepted, Seek
<1>6. CASE StartRejected
  BY <1>6 DEF StartRejected, Over
<1>7. CASE Poll
  BY <1>7 DEF Poll
<1>8. CASE SendChunk
  <2>1. pos' = offset' + Len(buf')
    BY <1>8 DEF SendChunk
  <2> QED BY <2>1, <1>8 DEF SendChunk
<1>9. CASE SendEnd
  BY <1>9 DEF SendEnd
<1>10. CASE ChunkAccepted
  <2>1. pos' = offset'
    BY <1>10 DEF ChunkAccepted, Advance
  <2> QED BY <2>1, <1>10 DEF ChunkAccepted
<1>11. CASE ChunkRetried
  BY <1>11 DEF ChunkRetried, CountRetry
<1>12. CASE SendAgain
  BY <1>12 DEF SendAgain
<1>13. CASE ChunkRejected
  BY <1>13 DEF ChunkRejected, Over
<1>14. CASE EndReply
  BY <1>14 DEF EndReply, Over
<1>15. CASE Edit
  BY <1>15 DEF Edit
<1>16. CASE DiskFails
  BY <1>16 DEF DiskFails, Over
<1>17. CASE Lost
  BY <1>17 DEF Lost, Over
<1>18. CASE Cancel
  BY <1>18 DEF Cancel, Over
<1>19. CASE UNCHANGED vars
  BY <1>19 DEF vars
<1> QED BY <1>1, <1>2, <1>3, <1>4, <1>5, <1>6, <1>7, <1>8, <1>9, <1>10, <1>11, <1>12,
           <1>13, <1>14, <1>15, <1>16, <1>17, <1>18, <1>19 DEF Next, Step

\* A chunk goes where it belongs: nothing the device held of the file is spoilt, and no
\* hole is left, also when the chunk was written before.
LEMMA WrittenInPlace == ASSUME IInv, pc = "sent"
                        PROVE  /\ Len(stored) <= Len(Written)
                               /\ offset + Len(buf) <= Len(Written)
                               /\ Undisturbed => IsPrefix(Written, announced) /\ IsPrefix(stored, Written)
<1>1. /\ TypeOK /\ offset \in Nat /\ Len(buf) \in Nat
      /\ Len(stored) \in Nat /\ stored \in Seq(Bytes \cup {Junk})
      /\ Len(announced) \in Nat /\ announced \in Seq(Bytes \cup {Junk})
      /\ offset <= Len(stored)
  BY TypeFacts DEF IInv, TypeOK, ChunkInv, Chunking
<1>2. Len(stored) <= Len(Written) /\ offset + Len(buf) <= Len(Written) /\ Len(Written) \in Nat
  BY <1>1, WrittenFacts
<1>3. ASSUME Undisturbed PROVE IsPrefix(Written, announced) /\ IsPrefix(stored, Written)
  <2>1. /\ offset + Len(buf) <= Len(announced)
        /\ \A i \in 1..Len(buf) : buf[i] = announced[offset + i]
    BY <1>3 DEF IInv, ChunkInv
  <2>2. Len(stored) <= Len(announced) /\ \A i \in 1..Len(stored) : stored[i] = announced[i]
    BY <1>1, <1>3, PrefixFacts DEF IInv, InPlace
  <2>3. Len(Written) <= Len(announced)
    BY <1>1, <2>1, <2>2, WrittenFacts
  <2>4. ASSUME NEW i \in 1..Len(Written) PROVE Written[i] = announced[i]
    <3>1. CASE i \in (offset + 1)..(offset + Len(buf))
      <4>1. Written[i] = buf[i - offset]
        BY <1>1, <2>4, <3>1, WrittenFacts
      <4>2. i - offset \in 1..Len(buf) /\ offset + (i - offset) = i
        BY <1>1, <3>1
      <4> QED BY <4>1, <4>2, <2>1
    <3>2. CASE i \notin (offset + 1)..(offset + Len(buf))
      <4>1. i <= Len(stored) /\ i \in 1..Len(stored)
        BY <1>1, <1>2, <2>4, <3>2, WrittenFacts
      <4>2. Written[i] = stored[i]
        BY <1>1, <2>4, <3>2, <4>1, WrittenFacts
      <4> QED BY <4>1, <4>2, <2>2
    <3> QED BY <3>1, <3>2
  <2>5. Written \in Seq(Bytes \cup {Junk})
    BY <1>1, WrittenFacts
  <2>6. IsPrefix(Written, announced)
    BY <1>1, <2>3, <2>4, <2>5, PrefixFacts
  <2>7. \A i \in 1..Len(stored) : stored[i] = Written[i]
    BY <1>1, <1>2, <2>2, <2>4
  <2> QED BY <1>1, <1>2, <2>5, <2>6, <2>7, PrefixFacts
<1> QED BY <1>2, <1>3

\* What is sent is the piece that belongs at the offset.
LEMMA ChunkStep == ASSUME IInv, [Next]_vars PROVE ChunkInv'
<1> USE DEF IInv, ChunkInv, Chunking, Undisturbed
<1>0. TypeOK
  OBVIOUS
<1>1. /\ offset \in Nat /\ size \in Nat /\ edits \in Nat /\ pos \in Nat
      /\ Len(buf) \in Nat /\ Len(stored) \in Nat /\ Len(announced) \in Nat /\ Len(kept) \in Nat
      /\ stored \in Seq(Bytes \cup {Junk}) /\ announced \in Seq(Bytes \cup {Junk})
  BY <1>0, TypeFacts DEF TypeOK
<1>2. CASE Open
  BY <1>2 DEF Open
<1>3. CASE HashRead
  BY <1>3 DEF HashRead
<1>4. CASE HashDone
  BY <1>4 DEF HashDone, Seek
<1>5. CASE Start
  BY <1>5 DEF Start
<1>6. CASE StartAccepted
  <2>1. stored = kept
    BY <1>6 DEF StartInv, StartAccepted
  <2>2. offset' <= Len(stored)
    BY <1>1, <2>1, <1>6 DEF StartAccepted, Smaller
  <2> QED BY <2>2, <1>6 DEF StartAccepted
<1>7. CASE StartRejected
  BY <1>7 DEF StartRejected, Over
<1>8. CASE Poll
  BY <1>8 DEF Poll
<1>9. CASE SendChunk
  <2>1. /\ buf' \in Seq(Bytes) /\ Len(buf') \in Nat /\ pos + Len(buf') <= Len(file)
        /\ \A i \in 1..Len(buf') : buf'[i] = file[pos + i]
    BY <1>0, <1>9, ReadFacts, UploadAssumption DEF SendChunk, Room, TypeOK
  <2>2. edits = 0 => announced = file
    BY <1>9 DEF HashInv, SendChunk
  <2>3. pos = offset
    BY <1>9 DEF Aligned, SendChunk
  <2> QED BY <2>1, <2>2, <2>3, <1>9 DEF SendChunk
<1>10. CASE SendEnd
  <2>1. SUFFICES ASSUME Undisturbed PROVE stored = announced
    BY <1>10 DEF SendEnd
  <2>2. announced = file /\ size = Len(announced) /\ pos = offset
    BY <2>1, <1>10 DEF HashInv, Aligned, SendEnd
  <2>3. Len(announced) <= offset
    BY <1>1, <2>2, <1>10 DEF SendEnd, MoreToSend, AtEof
  <2>4. Len(announced) <= Len(stored) /\ IsPrefix(stored, announced)
    BY <1>1, <2>1, <2>3, <1>10 DEF SendEnd, InPlace
  <2> QED BY <1>1, <2>4, PrefixWhole
<1>11. CASE ChunkAccepted
  <2>1. offset' <= Len(stored')
    BY <1>11, WrittenInPlace DEF ChunkAccepted, Advance
  <2> QED BY <2>1, <1>11 DEF ChunkAccepted
<1>12. CASE ChunkRetried
  <2>1. Len(stored) <= Len(stored')
    BY <1>1, <1>12, WrittenInPlace DEF ChunkRetried
  <2>2. Len(stored') \in Nat
    BY <1>0, <1>1, <1>12, WrittenFacts DEF ChunkRetried
  <2>3. offset' <= Len(stored')
    BY <1>1, <2>1, <2>2, <1>12 DEF ChunkRetried
  <2> QED BY <2>3, <1>12 DEF ChunkRetried
<1>13. CASE SendAgain
  BY <1>13 DEF SendAgain
<1>14. CASE ChunkRejected
  BY <1>14 DEF ChunkRejected, Over
<1>15. CASE EndReply
  BY <1>15 DEF EndReply, Over
<1>16. CASE Edit
  <2>1. edits' # 0
    BY <1>1, <1>16 DEF Edit
  <2> QED BY <2>1, <1>16 DEF Edit
<1>17. CASE DiskFails
  BY <1>17 DEF DiskFails, Over
<1>18. CASE Lost
  BY <1>18 DEF Lost, Over
<1>19. CASE Cancel
  BY <1>19 DEF Cancel, Over
<1>20. CASE UNCHANGED vars
  BY <1>20 DEF vars
<1> QED BY <1>2, <1>3, <1>4, <1>5, <1>6, <1>7, <1>8, <1>9, <1>10, <1>11, <1>12, <1>13,
           <1>14, <1>15, <1>16, <1>17, <1>18, <1>19, <1>20 DEF Next, Step

\* What the device holds of an undisturbed file stays a start of it.
LEMMA InPlaceStep == ASSUME IInv, [Next]_vars PROVE InPlace'
<1>1. TypeOK' /\ edits \in Nat
  BY TypeStep DEF IInv, TypeOK
<1>2. pc = "sent" /\ Undisturbed => IsPrefix(Written, announced)
  BY WrittenInPlace
<1>3. Undisturbed => IsPrefix(stored, announced)
  BY DEF IInv, InPlace
<1> USE DEF IInv, InPlace, Undisturbed
<1>4. CASE Open
  BY <1>4 DEF Open
<1>5. CASE HashRead
  <2>1. stored' = <<>>
    BY <1>5 DEF HashRead, StartInv, Early
  <2>2. announced' \in Seq(Bytes)
    BY <1>1 DEF TypeOK
  <2> QED BY <2>1, <2>2, PrefixTrivial
<1>6. CASE HashDone
  BY <1>6 DEF HashDone, Seek
<1>7. CASE Start
  BY <1>7 DEF Start
<1>8. CASE StartAccepted
  BY <1>8 DEF StartAccepted, Seek
<1>9. CASE StartRejected
  BY <1>9 DEF StartRejected, Over
<1>10. CASE Poll
  BY <1>10 DEF Poll
<1>11. CASE SendChunk
  BY <1>11 DEF SendChunk
<1>12. CASE SendEnd
  BY <1>12 DEF SendEnd
<1>13. CASE ChunkAccepted
  <2>1. SUFFICES ASSUME Undisturbed PROVE IsPrefix(stored', announced)
    BY <1>13 DEF ChunkAccepted
  <2>2. pc = "sent" /\ stored' \in {stored, Written}
    BY <1>13 DEF ChunkAccepted
  <2> QED BY <2>1, <2>2, <1>2, <1>3
<1>14. CASE ChunkRetried
  <2>1. SUFFICES ASSUME Undisturbed PROVE IsPrefix(stored', announced)
    BY <1>14 DEF ChunkRetried
  <2>2. pc = "sent" /\ stored' \in {stored, Written}
    BY <1>14 DEF ChunkRetried
  <2> QED BY <2>1, <2>2, <1>2, <1>3
<1>15. CASE SendAgain
  BY <1>15 DEF SendAgain
<1>16. CASE ChunkRejected
  <2>1. SUFFICES ASSUME Undisturbed PROVE IsPrefix(stored', announced)
    BY <1>16 DEF ChunkRejected, Over
  <2>2. pc = "sent" /\ stored' \in {stored, Written}
    BY <1>16 DEF ChunkRejected
  <2> QED BY <2>1, <2>2, <1>2, <1>3
<1>17. CASE EndReply
  BY <1>17 DEF EndReply, Over
<1>18. CASE Edit
  <2>1. edits' # 0
    BY <1>1, <1>18 DEF Edit
  <2> QED BY <2>1
<1>19. CASE DiskFails
  BY <1>19 DEF DiskFails, Over
<1>20. CASE Lost
  <2>1. SUFFICES ASSUME Undisturbed PROVE IsPrefix(stored', announced)
    BY <1>20 DEF Lost, Over
  <2>2. (stored' # stored => pc = "sent") /\ stored' \in {stored, Written}
    BY <1>20 DEF Lost
  <2> QED BY <2>1, <2>2, <1>2, <1>3
<1>21. CASE Cancel
  <2>1. SUFFICES ASSUME Undisturbed PROVE IsPrefix(stored', announced)
    BY <1>21 DEF Cancel, Over
  <2>2. (stored' # stored => pc = "sent") /\ stored' \in {stored, Written}
    BY <1>21 DEF Cancel
  <2> QED BY <2>1, <2>2, <1>2, <1>3
<1>22. CASE UNCHANGED vars
  BY <1>22 DEF vars
<1> QED BY <1>4, <1>5, <1>6, <1>7, <1>8, <1>9, <1>10, <1>11, <1>12, <1>13, <1>14, <1>15,
           <1>16, <1>17, <1>18, <1>19, <1>20, <1>21, <1>22 DEF Next, Step

\* The device finds a mismatch only in what others disturbed.
LEMMA NoFalseAlarmStep == ASSUME IInv, [Next]_vars PROVE NoFalseAlarm'
<1> USE DEF IInv, NoFalseAlarm, EndInv, Undisturbed
<1>1. CASE Open
  BY <1>1 DEF Open
<1>2. CASE HashRead
  BY <1>2 DEF HashRead
<1>3. CASE HashDone
  BY <1>3 DEF HashDone, Seek
<1>4. CASE Start
  BY <1>4 DEF Start
<1>5. CASE StartAccepted
  BY <1>5 DEF StartAccepted, Seek
<1>6. CASE StartRejected
  BY <1>6 DEF StartRejected, Over
<1>7. CASE Poll
  BY <1>7 DEF Poll
<1>8. CASE SendChunk
  BY <1>8 DEF SendChunk
<1>9. CASE SendEnd
  BY <1>9 DEF SendEnd
<1>10. CASE ChunkAccepted
  BY <1>10 DEF ChunkAccepted, Advance
<1>11. CASE ChunkRetried
  BY <1>11 DEF ChunkRetried, CountRetry
<1>12. CASE SendAgain
  BY <1>12 DEF SendAgain
<1>13. CASE ChunkRejected
  BY <1>13 DEF ChunkRejected, Over
<1>14. CASE EndReply
  <2>1. Undisturbed => stored = announced
    BY <1>14 DEF EndReply, ChunkInv
  <2>2. Undisturbed => result' = "ok"
    BY <2>1, <1>14 DEF EndReply, Over
  <2> QED BY <2>2, <1>14 DEF EndReply
<1>15. CASE Edit
  BY <1>15 DEF Edit
<1>16. CASE DiskFails
  BY <1>16 DEF DiskFails, Over
<1>17. CASE Lost
  BY <1>17 DEF Lost, Over
<1>18. CASE Cancel
  BY <1>18 DEF Cancel, Over
<1>19. CASE UNCHANGED vars
  BY <1>19 DEF vars
<1> QED BY <1>1, <1>2, <1>3, <1>4, <1>5, <1>6, <1>7, <1>8, <1>9, <1>10, <1>11, <1>12,
           <1>13, <1>14, <1>15, <1>16, <1>17, <1>18, <1>19 DEF Next, Step

\* Initially it all holds.
LEMMA InitHolds == Init => IInv
<1> SUFFICES ASSUME Init PROVE IInv
  OBVIOUS
<1>1. /\ file \in Seq(Bytes) /\ Len(file) \in 0..MaxLen
      /\ MaxLen \in Nat /\ Retries \in Nat /\ MaxEdits \in Nat /\ ChunkSize \in Nat
  BY ContentsFacts, UploadAssumption DEF Init
<1>2. TypeOK
  BY <1>1 DEF Init, TypeOK, Stops, Results
<1>3. HashInv /\ StartInv /\ ChunkInv /\ EndInv /\ Aligned /\ NoFalseAlarm
  BY DEF Init, HashInv, StartInv, ChunkInv, EndInv, Aligned, NoFalseAlarm, Early, Chunking
<1>4. InPlace
  <2>1. stored = <<>> /\ announced \in Seq(Bytes)
    BY DEF Init
  <2> QED BY <2>1, PrefixTrivial DEF InPlace
<1> QED BY <1>2, <1>3, <1>4 DEF IInv

-----------------------------------------------------------------------------
(* What holds of every upload.                                             *)

\* The invariant holds for every file, chunk size, number of retries and edits.
THEOREM UploadInductive == Spec => []IInv
<1>1. IInv /\ [Next]_vars => IInv'
  <2> SUFFICES ASSUME IInv, [Next]_vars PROVE IInv'
    OBVIOUS
  <2> QED BY TypeStep, HashStep, StartStep, EndStep, AlignedStep, ChunkStep, InPlaceStep,
             NoFalseAlarmStep DEF IInv
<1> QED BY <1>1, InitHolds, PTL DEF Spec

\* Types; and no chunk is empty, too long, or sent once too often.
THEOREM UploadTypes == Spec => []TypeOK
<1>1. IInv => TypeOK
  BY DEF IInv
<1> QED BY <1>1, UploadInductive, PTL

\* The read cursor and the offset told to the device never part, though the code seeks
\* only once: upload.rs lines 115 to 145.
THEOREM CursorAligned == Spec => []Aligned
<1>1. IInv => Aligned
  BY DEF IInv
<1> QED BY <1>1, UploadInductive, PTL

\* An undisturbed file is in place on the device at every moment, through short reads,
\* retries of chunks that were or were not written, resumption and failure.
THEOREM FileInPlace == Spec => []InPlace
<1>1. IInv => InPlace
  BY DEF IInv
<1> QED BY <1>1, UploadInductive, PTL

\* Error::Upload at stage "end" always has a reason outside this program.
THEOREM AlarmsAreTrue == Spec => []NoFalseAlarm
<1>1. IInv => NoFalseAlarm
  BY DEF IInv
<1> QED BY <1>1, UploadInductive, PTL

-----------------------------------------------------------------------------
(* An upload is a Transfer.                                                *)

\* Transfer means the same by a prefix.
LEMMA SamePrefix == \A s, t : T!IsPrefix(s, t) <=> IsPrefix(s, t)
BY DEF T!IsPrefix, IsPrefix

\* Every step of an upload, seen from outside, is a step of a Transfer or changes nothing.
LEMMA TransferStep == ASSUME IInv, [Next]_vars PROVE [T!Next]_(T!vars)
<1> USE DEF IInv, Phase, Early
<1>0. /\ announced \in Seq(Bytes) /\ announced' \in Seq(Bytes)
      /\ stored \in Seq(Bytes \cup {Junk}) /\ announced \in Seq(Bytes \cup {Junk})
      /\ Len(stored) \in Nat /\ offset \in Nat /\ Len(buf) \in Nat /\ edits \in Nat
      /\ Len(kept) \in Nat /\ size \in Nat
  <2>1. TypeOK /\ TypeOK'
    BY TypeStep
  <2> QED BY <2>1, TypeFacts DEF TypeOK
<1>1. IsPrefix(<<>>, announced) /\ IsPrefix(<<>>, announced') /\ IsPrefix(stored, stored)
  BY <1>0, PrefixTrivial
<1>2. Undisturbed => IsPrefix(stored, announced)
  BY DEF InPlace
<1>3. pc = "sent" => /\ Len(stored) <= Len(Written) /\ offset + Len(buf) <= Len(Written)
                     /\ Undisturbed => IsPrefix(Written, announced) /\ IsPrefix(stored, Written)
  BY WrittenInPlace
<1>4. ASSUME stored' \in {stored, IF pc = "sent" THEN Written ELSE stored},
             UNCHANGED <<announced, kept, edits>>
      PROVE  T!Grows
  <2>1. Len(stored) <= Len(stored')
    BY <1>0, <1>3, <1>4
  <2>2. Undisturbed => IsPrefix(stored, stored') /\ IsPrefix(stored', announced)
    BY <1>1, <1>2, <1>3, <1>4
  <2> QED BY <1>4, <2>1, <2>2, SamePrefix DEF T!Grows, Undisturbed
<1> HIDE DEF IInv
<1>5. CASE Open
  BY <1>5 DEF Open, T!vars, Undisturbed
<1>6. CASE HashRead
  <2>1. PICK piece \in Readable(MaxLen) : announced' = announced \o piece
    BY <1>6 DEF HashRead
  <2>2. IsPrefix(announced, announced')
    <3>1. file \in Contents /\ pos \in Nat /\ MaxLen \in Nat /\ Len(file) \in 0..MaxLen
      BY TypeFacts DEF IInv, TypeOK
    <3>2. MaxLen # 0
      BY <2>1, <3>1 DEF Readable
    <3>3. piece \in Seq(Bytes)
      BY <2>1, <3>1, <3>2, ReadFacts
    <3>4. /\ Len(announced) <= Len(announced')
          /\ \A i \in 1..Len(announced) : announced[i] = announced'[i]
      BY <2>1, <3>3, <1>0
    <3> QED BY <3>4, <1>0, PrefixFacts
  <2>3. kept = <<>>
    BY <1>6 DEF HashRead, IInv, StartInv
  <2>4. Undisturbed' = Undisturbed
    BY <2>3, <1>1, <1>6 DEF HashRead, Undisturbed
  <2>5. Phase = "before" /\ Phase' = "before"
    BY <1>6 DEF HashRead
  <2> QED BY <2>2, <2>4, <2>5, <1>6, SamePrefix DEF HashRead, T!Next, T!Settle
<1>7. CASE HashDone
  BY <1>7 DEF HashDone, Seek, T!vars, Undisturbed
<1>8. CASE Start
  <2>1. kept = <<>> /\ stored' = kept'
    BY <1>8, KeptFacts DEF Start, IInv, StartInv
  <2>2. (~Undisturbed)' = (~Undisturbed \/ ~IsPrefix(stored', announced))
    BY <2>1, <1>1, <1>8 DEF Start, Undisturbed
  <2>3. Phase = "before" /\ Phase' = "under way"
    BY <1>8 DEF Start
  <2> QED BY <2>2, <2>3, <1>8, SamePrefix DEF Start, T!Next, T!Begin
<1>9. CASE StartAccepted
  <2>1. T!Grows
    BY <1>4, <1>9 DEF StartAccepted
  <2>2. offset <= offset' /\ offset' <= Len(stored')
    BY <1>0, <1>3, <1>9 DEF StartAccepted, Smaller, IInv, StartInv
  <2>3. Phase = "under way" /\ Phase' = "under way"
    BY <1>9 DEF StartAccepted
  <2> QED BY <2>1, <2>2, <2>3 DEF T!Next, T!Write
<1>10. CASE StartRejected
  <2>1. CASE pc \in Early
    BY <2>1, <1>10 DEF StartRejected, Over, IInv, EndInv, T!Next, T!GiveUp, T!vars, Undisturbed
  <2>2. CASE pc \notin Early
    <3>1. T!Grows /\ UNCHANGED offset
      BY <1>4, <1>10 DEF StartRejected
    <3>2. Phase = "under way" /\ Phase' = "other"
      BY <2>2, <1>10 DEF StartRejected, Over, IInv, TypeOK, Stops
    <3> QED BY <3>1, <3>2 DEF T!Next, T!End, T!Ends
  <2> QED BY <2>1, <2>2
<1>11. CASE Poll
  BY <1>11 DEF Poll, T!vars, Undisturbed
<1>12. CASE SendChunk
  BY <1>12 DEF SendChunk, T!vars, Undisturbed
<1>13. CASE SendEnd
  BY <1>13 DEF SendEnd, T!vars, Undisturbed
<1>14. CASE ChunkAccepted
  <2>1. T!Grows
    BY <1>4, <1>14 DEF ChunkAccepted
  <2>2. offset <= offset' /\ offset' <= Len(stored')
    BY <1>0, <1>3, <1>14 DEF ChunkAccepted, Advance
  <2>3. Phase = "under way" /\ Phase' = "under way"
    BY <1>14 DEF ChunkAccepted
  <2> QED BY <2>1, <2>2, <2>3 DEF T!Next, T!Write
<1>15. CASE ChunkRetried
  <2>1. T!Grows
    BY <1>4, <1>15 DEF ChunkRetried
  <2>2. offset <= offset' /\ offset' <= Len(stored')
    BY <1>0, <1>3, <1>15 DEF ChunkRetried, IInv, ChunkInv, Chunking
  <2>3. Phase = "under way" /\ Phase' = "under way"
    BY <1>15 DEF ChunkRetried
  <2> QED BY <2>1, <2>2, <2>3 DEF T!Next, T!Write
<1>16. CASE SendAgain
  BY <1>16 DEF SendAgain, T!vars, Undisturbed
<1>17. CASE ChunkRejected
  <2>1. CASE pc \in Early
    BY <2>1, <1>17 DEF ChunkRejected, Over, IInv, EndInv, T!Next, T!GiveUp, T!vars, Undisturbed
  <2>2. CASE pc \notin Early
    <3>1. T!Grows /\ UNCHANGED offset
      BY <1>4, <1>17 DEF ChunkRejected
    <3>2. Phase = "under way" /\ Phase' = "other"
      BY <2>2, <1>17 DEF ChunkRejected, Over, IInv, TypeOK, Stops
    <3> QED BY <3>1, <3>2 DEF T!Next, T!End, T!Ends
  <2> QED BY <2>1, <2>2
<1>18. CASE EndReply
  <2>1. T!Grows /\ UNCHANGED offset
    BY <1>4, <1>18 DEF EndReply
  <2>2. Phase = "under way" /\ Phase' = IF stored = announced THEN "ok" ELSE "end"
    BY <1>18 DEF EndReply, Over
  <2>3. stored # announced => ~Undisturbed
    BY <1>18 DEF EndReply, IInv, ChunkInv
  <2>4. UNCHANGED <<stored, announced>>
    BY <1>18 DEF EndReply
  <2> QED BY <2>1, <2>2, <2>3, <2>4 DEF T!Next, T!End, T!Ends
<1>19. CASE Edit
  <2>1. (~Undisturbed)'
    <3>1. edits' # 0
      BY <1>0, <1>19 DEF Edit
    <3> QED BY <3>1 DEF Undisturbed
  <2>2. Phase' = Phase
    BY <1>19 DEF Edit
  <2> QED BY <2>1, <2>2, <1>19 DEF Edit, T!Next, T!Disturb
<1>20. CASE DiskFails
  <2>1. CASE pc \in Early
    BY <2>1, <1>20 DEF DiskFails, Over, IInv, EndInv, T!Next, T!GiveUp, T!vars, Undisturbed
  <2>2. CASE pc \notin Early
    <3>1. T!Grows /\ UNCHANGED offset
      BY <1>4, <1>20 DEF DiskFails
    <3>2. Phase = "under way" /\ Phase' = "other"
      BY <2>2, <1>20 DEF DiskFails, Over, IInv, TypeOK, Stops
    <3> QED BY <3>1, <3>2 DEF T!Next, T!End, T!Ends
  <2> QED BY <2>1, <2>2
<1>21. CASE Lost
  <2>1. CASE pc \in Early
    BY <2>1, <1>21 DEF Lost, Over, IInv, EndInv, T!Next, T!GiveUp, T!vars, Undisturbed
  <2>2. CASE pc \notin Early
    <3>1. T!Grows /\ UNCHANGED offset
      BY <1>4, <1>21 DEF Lost
    <3>2. Phase = "under way" /\ Phase' = "other"
      BY <2>2, <1>21 DEF Lost, Over, IInv, TypeOK, Stops
    <3> QED BY <3>1, <3>2 DEF T!Next, T!End, T!Ends
  <2> QED BY <2>1, <2>2
<1>22. CASE Cancel
  <2>1. CASE pc \in Early
    BY <2>1, <1>22 DEF Cancel, Over, IInv, EndInv, T!Next, T!GiveUp, T!vars, Undisturbed
  <2>2. CASE pc \notin Early
    <3>1. T!Grows /\ UNCHANGED offset
      BY <1>4, <1>22 DEF Cancel
    <3>2. Phase = "under way" /\ Phase' = "other"
      BY <2>2, <1>22 DEF Cancel, Over, IInv, TypeOK, Stops
    <3> QED BY <3>1, <3>2 DEF T!Next, T!End, T!Ends
  <2> QED BY <2>1, <2>2
<1>23. CASE UNCHANGED vars
  BY <1>23 DEF vars, T!vars, Undisturbed
<1> QED BY <1>5, <1>6, <1>7, <1>8, <1>9, <1>10, <1>11, <1>12, <1>13, <1>14, <1>15,
           <1>16, <1>17, <1>18, <1>19, <1>20, <1>21, <1>22, <1>23 DEF Next, Step

\* Upload implements Transfer: whatever others do to the file, and however often chunks
\* are lost and sent again, the device only ever gets more of what was promised, progress
\* is never ahead of it, and a success means that it holds all of it.
THEOREM UploadRefinement == Spec => ImplementsTransfer
<1>1. Init => T!Init
  <2> SUFFICES ASSUME Init PROVE T!Init
    OBVIOUS
  <2>1. IsPrefix(<<>>, announced)
    <3>1. announced \in Seq(Bytes)
      BY DEF Init
    <3> QED BY <3>1, PrefixTrivial
  <2> QED BY <2>1 DEF Init, T!Init, Undisturbed, Phase
<1>2. IInv /\ [Next]_vars => [T!Next]_(T!vars)
  BY TransferStep
<1> QED BY <1>1, <1>2, UploadInductive, PTL DEF Spec, ImplementsTransfer, T!Spec
=============================================================================
