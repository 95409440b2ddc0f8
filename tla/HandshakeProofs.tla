--------------------------- MODULE HandshakeProofs ---------------------------
(***************************************************************************)
(* What Device::connect hands over, and what it never sends to an HD2020   *)
(* controller: the invariant of Handshake, and the properties that follow  *)
(* from it, for every set of documents a device may answer with.           *)
(*                                                                         *)
(* How a document is read is the matter of MessagesProofs; what is used of *)
(* it here is that a verdict is "ok", "proto" or "device", that a guid     *)
(* which is given out could be read, that a struct has its fields, and     *)
(* that a request reads as what it was made of.                            *)
(***************************************************************************)
EXTENDS Handshake, MessagesProofs

-----------------------------------------------------------------------------
(* The invariant.                                                          *)

\* The requests of the first n phases.
Asked(n) == [i \in 1..n |-> Request(i)]

\* The socket is open while connect runs, and it runs until it has an outcome.
StageInv == /\ pc \in {"dial", "write", "read", "done"}
            /\ phase \in 0..3
            /\ pc = "dial" => phase = 0 /\ sock = "none"
            /\ pc \in {"write", "read"} => phase # 0 /\ sock = "open"
            /\ outcome = "none" <=> pc # "done"

\* Each phase writes its request, once.
AskedInv == \E n \in 0..3 : /\ n = phase
                            /\ pc \in {"dial", "write"} => wrote = Asked(n - 1)
                            /\ pc = "read" => wrote = Asked(n)
                            /\ wrote = Asked(n) \/ wrote = Asked(n - 1)

\* Request and reply take turns: there is never more than one of them on the wire, a
\* device that may still say more has sent fragments only, and where connect writes or
\* has succeeded the wire is silent.
TurnInv == /\ toDev = <<>> \/ \E n \in 1..3 : n = phase /\ toDev = <<Request(n)>>
           /\ toCli = <<>> \/ \E reply \in Answers : toCli = <<reply>>
           /\ toDev = <<>> \/ toCli = <<>>
           /\ answering \in BOOLEAN
           /\ answering => toDev = <<>> /\ (toCli = <<>> \/ toCli = <<Part>>)
           /\ pc \in {"dial", "write"} \/ outcome = "connected" =>
                toDev = <<>> /\ toCli = <<>> /\ ~answering

\* What is known in which phase: the protocol from phase 2 on, the guid from phase 3 on.
FoundInv == /\ speaks \in {"sdk2", "hd2020"}
            /\ phase >= 2 => protocol = "sdk2" /\ speaks = "sdk2"
            /\ phase = 3 => guid # Absent
            /\ heartbeat \in BOOLEAN
            /\ heartbeat <=> outcome = "connected" /\ protocol = "sdk2"
            /\ outcome = "connected" => /\ sock = "open"
                                        /\ phase \in {1, 3}
                                        /\ phase = 1 => protocol = "hd2020"
                                        /\ phase = 3 => info \in InfosTold
            /\ outcome \notin {"none", "connected"} => sock # "open"

\* What the variables hold that the other parts leave open; what is on its way to the
\* device was written.
KindInv == /\ protocol \in {"unknown", "sdk2", "hd2020"}
           /\ guid \in ({Absent} \cup UNION {Texts(doc) : doc \in Documents}) \ {Unreadable}
           /\ DOMAIN info = DOMAIN NoInfo
           /\ ToSet(toDev) \subseteq ToSet(wrote)
           /\ up \in BOOLEAN
           /\ sock \in {"none", "open", "closed"}
           /\ outcome \in Outcomes

IInv == StageInv /\ AskedInv /\ TurnInv /\ FoundInv /\ KindInv

\* Every request is the one of its phase, in the order of the phases, and says what
\* connect knows of the session guid.
AsksInOrder == wrote = [i \in DOMAIN wrote |-> Request(i)]

\* A connect that fails or is dropped leaves no socket open.
NoSocketLeft == outcome \in Errors \cup {"cancelled"} => sock # "open"

-----------------------------------------------------------------------------
(* One step of each action.                                                *)

USE DEF foundVars, wireVars

\* As long as the guid stays, so do the requests that were written.
LEMMA AskedKept ==
  ASSUME NEW n \in Int, guid' = guid
  PROVE  Asked(n)' = Asked(n) /\ Request(n)' = Request(n)
BY DEF Asked, Request, RequestGuid

\* The first two requests do not depend on the guid.
LEMMA EarlyKept == Asked(2)' = Asked(2)
BY DEF Asked, Request, RequestGuid

\* One more request.
LEMMA AskedMore ==
  ASSUME NEW n \in Nat
  PROVE  Append(Asked(n), Request(n + 1)) = Asked(n + 1)
<1> DEFINE s == [i \in 1..n |-> Request(i)]
<1> DEFINE S == {Request(i) : i \in 1..(n + 1)}
<1>1. s \in Seq(S) /\ Len(s) = n
  OBVIOUS
<1>2. Append(s, Request(n + 1)) = [i \in 1..(n + 1) |-> Request(i)]
  <2>1. Request(n + 1) \in S
    OBVIOUS
  <2> QED BY <1>1, <2>1
<1> QED BY <1>1, <1>2 DEF Asked

\* A step that neither writes nor goes on to the next phase.
LEMMA AskedStays ==
  ASSUME StageInv, AskedInv, UNCHANGED <<guid, phase, wrote>>, pc' \in {pc, "done"}
  PROVE  AskedInv'
<1>1. PICK n \in 0..3 : /\ n = phase
                        /\ pc \in {"dial", "write"} => wrote = Asked(n - 1)
                        /\ pc = "read" => wrote = Asked(n)
                        /\ wrote = Asked(n) \/ wrote = Asked(n - 1)
  BY DEF AskedInv
<1>2. Asked(n)' = Asked(n) /\ Asked(n - 1)' = Asked(n - 1)
  BY AskedKept
<1>3. /\ n = phase'
      /\ pc' \in {"dial", "write"} => wrote' = Asked(n - 1)'
      /\ pc' = "read" => wrote' = Asked(n)'
      /\ wrote' = Asked(n)' \/ wrote' = Asked(n - 1)'
  BY <1>1, <1>2
<1> QED BY <1>3 DEF AskedInv

\* A step that goes on to no other phase and puts nothing on the wire.
LEMMA TurnStays ==
  ASSUME TurnInv, UNCHANGED <<speaks, guid, phase, answering>>,
         toDev' = toDev \/ toDev' = <<>>, toCli' = toCli \/ toCli' = <<>>,
         \/ UNCHANGED <<pc, outcome>>
         \/ pc' = "done" /\ outcome' # "connected"
  PROVE  TurnInv'
<1>1. Answers' = Answers
  BY DEF Answers
<1>2. \A n \in 1..3 : Request(n)' = Request(n)
  BY AskedKept
<1>3. toDev' = <<>> \/ \E n \in 1..3 : n = phase' /\ toDev' = <<Request(n)'>>
  BY <1>2 DEF TurnInv
<1>4. toCli' = <<>> \/ \E reply \in Answers' : toCli' = <<reply>>
  BY <1>1 DEF TurnInv
<1>5. toDev' = <<>> \/ toCli' = <<>>
  BY DEF TurnInv
<1>6. pc' \in {"dial", "write"} \/ outcome' = "connected" =>
        toDev' = <<>> /\ toCli' = <<>> /\ ~answering'
  BY DEF TurnInv
<1>7. /\ answering' \in BOOLEAN
      /\ answering' => toDev' = <<>> /\ (toCli' = <<>> \/ toCli' = <<Part>>)
  BY DEF TurnInv
<1> QED BY <1>3, <1>4, <1>5, <1>6, <1>7 DEF TurnInv

\* What is read is a reply the device may give, and nothing is left on the wire.
LEMMA WhatIsRead ==
  ASSUME TurnInv, toCli # <<>>
  PROVE  /\ Head(toCli) \in Answers
         /\ Tail(toCli) = <<>>
         /\ toDev = <<>>
         /\ answering => Head(toCli) = Part
<1>1. PICK reply \in Answers : toCli = <<reply>>
  BY DEF TurnInv
<1>2. \A x : Head(<<x>>) = x /\ Tail(<<x>>) = <<>>
  OBVIOUS
<1> QED BY <1>1, <1>2 DEF TurnInv

\* What completes a reply is the last the device says.
LEMMA LastIsRead ==
  ASSUME TurnInv, NEW cmd, cmd # "SdkPart", Take(cmd)
  PROVE  ~answering /\ Tail(toCli) = <<>> /\ toDev = <<>>
<1>1. Part[1] = "SdkPart"
  BY DEF Part
<1> QED BY <1>1, WhatIsRead DEF Take, TurnInv

\* A document that was read is one the device may send.
LEMMA DocumentRead ==
  ASSUME TurnInv, Take("SdkReply")
  PROVE  Head(toCli)[2] \in Documents
<1>1. Head(toCli) \in Replies /\ Head(toCli)[1] = "SdkReply"
  BY WhatIsRead DEF Take, Answers
<1>2. Head(toCli) \notin {"VersionReply"} \X {"empty", "A5", "other"}
  BY <1>1
<1>3. Head(toCli) \notin {Part, <<"Other", "">>, <<"UnknownCmd", "">>}
  <2>1. Part[1] = "SdkPart" /\ <<"Other", "">>[1] = "Other" /\ <<"UnknownCmd", "">>[1] = "UnknownCmd"
    BY DEF Part
  <2> QED BY <1>1, <2>1
<1>4. Head(toCli) \in {"SdkReply"} \X Documents
  BY <1>1, <1>2, <1>3 DEF Replies
<1> QED BY <1>4

\* Each step keeps connect in its stages.
LEMMA StageStep ==
  ASSUME IInv, [Next]_vars
  PROVE  StageInv'
<1> USE DEF IInv
<1>1. CASE Dial
  BY <1>1 DEF StageInv, Dial
<1>2. CASE DialFails
  BY <1>2 DEF StageInv, DialFails, Over
<1>3. CASE Write
  BY <1>3 DEF StageInv, Write
<1>4. CASE WriteFails
  BY <1>4 DEF StageInv, WriteFails, Fail, Over, DropSocket
<1>5. CASE ReadVersion
  BY <1>5 DEF StageInv, ReadVersion, Take, Connected, Over
<1>6. CASE ReadIfVersion
  BY <1>6 DEF StageInv, ReadIfVersion, Fail, Over, DropSocket, Take, SessionGuid, Verdict
<1>7. CASE ReadInfo
  BY <1>7 DEF StageInv, ReadInfo, Take, Connected, Fail, Over, DropSocket, Decode, Verdict
<1>8. CASE ReadOther
  BY <1>8 DEF StageInv, ReadOther, Fail, Over, DropSocket
<1>9. CASE ReadNothing
  BY <1>9 DEF StageInv, ReadNothing, Fail, Over, DropSocket
<1>10. CASE Cancel
  BY <1>10 DEF StageInv, Cancel, Fail, Over, DropSocket
<1>11. CASE DevAnswer
  BY <1>11 DEF StageInv, DevAnswer
<1>12. CASE DevClose
  BY <1>12 DEF StageInv, DevClose
<1>13. CASE ReadPart
  BY <1>13 DEF StageInv, ReadPart, Take
<1>14. CASE DevTake
  BY <1>14 DEF StageInv, DevTake
<1>15. CASE DevPart
  BY <1>15 DEF StageInv, DevPart
<1>16. CASE UNCHANGED vars
  BY <1>16 DEF vars, StageInv
<1> QED BY <1>1, <1>2, <1>3, <1>4, <1>5, <1>6, <1>7, <1>8, <1>9, <1>10, <1>11, <1>12, <1>13,
           <1>14, <1>15, <1>16 DEF Next, Client

\* Each step writes the request of its phase, or none.
LEMMA AskedStep ==
  ASSUME IInv, [Next]_vars
  PROVE  AskedInv'
<1> USE DEF IInv
<1>0. PICK n \in 0..3 : /\ n = phase
                        /\ pc \in {"dial", "write"} => wrote = Asked(n - 1)
                        /\ pc = "read" => wrote = Asked(n)
                        /\ wrote = Asked(n) \/ wrote = Asked(n - 1)
  BY DEF AskedInv
<1>1. CASE Dial
  <2>1. n = 0 /\ phase' = 1 /\ pc' = "write" /\ UNCHANGED <<guid, wrote>>
    BY <1>1, <1>0 DEF Dial, StageInv
  <2>2. Asked(0)' = Asked(0) /\ Asked(0) = Asked(0 - 1)
    BY AskedKept DEF Asked
  <2>3. 1 = phase' /\ wrote' = Asked(1 - 1)'
    BY <1>1, <1>0, <2>1, <2>2 DEF Dial
  <2> QED BY <2>1, <2>3 DEF AskedInv
<1>2. CASE DialFails
  BY <1>2, AskedStays DEF StageInv, DialFails, Over
<1>3. CASE Write
  <2>1. n \in 1..3 /\ phase' = n /\ pc' = "read" /\ guid' = guid
    BY <1>3, <1>0 DEF Write, StageInv
  <2>2. wrote' = Append(Asked(n - 1), Request(n))
    BY <1>3, <1>0 DEF Write
  <2>3. n - 1 \in Nat /\ (n - 1) + 1 = n
    BY <2>1
  <2>4. Append(Asked(n - 1), Request(n)) = Asked(n)
    BY <2>3, AskedMore
  <2>5. Asked(n)' = Asked(n)
    BY <2>1, AskedKept
  <2> QED BY <2>1, <2>2, <2>4, <2>5 DEF AskedInv
<1>4. CASE WriteFails
  BY <1>4, AskedStays DEF StageInv, WriteFails, Fail, Over, DropSocket
<1>5. CASE ReadVersion
  <2>1. CASE protocol' = "hd2020"
    BY <2>1, <1>5, AskedStays DEF ReadVersion, Take, Connected, Over
  <2>2. CASE protocol' # "hd2020"
    <3>1. n = 1 /\ phase' = 2 /\ pc' = "write" /\ wrote' = Asked(1) /\ guid' = guid
      BY <2>2, <1>5, <1>0 DEF ReadVersion, Take
    <3>2. 2 = phase' /\ wrote' = Asked(2 - 1)'
      BY <3>1, AskedKept
    <3> QED BY <3>1, <3>2 DEF AskedInv
  <2> QED BY <2>1, <2>2
<1>6. CASE ReadIfVersion
  <2>1. CASE SessionGuid(Head(toCli)[2]) # "ok"
    BY <2>1, <1>6, AskedStays DEF ReadIfVersion, Take, Fail, Over
  <2>2. CASE SessionGuid(Head(toCli)[2]) = "ok"
    <3>1. n = 2 /\ phase' = 3 /\ pc' = "write" /\ wrote' = Asked(2)
      BY <2>2, <1>6, <1>0 DEF ReadIfVersion, Take
    <3>2. 3 = phase' /\ wrote' = Asked(3 - 1)'
      BY <3>1, EarlyKept
    <3> QED BY <3>1, <3>2 DEF AskedInv
  <2> QED BY <2>1, <2>2
<1>7. CASE ReadInfo
  BY <1>7, AskedStays DEF StageInv, ReadInfo, Take, Connected, Fail, Over, DropSocket
<1>8. CASE ReadOther
  BY <1>8, AskedStays DEF StageInv, ReadOther, Fail, Over, DropSocket
<1>9. CASE ReadNothing
  BY <1>9, AskedStays DEF StageInv, ReadNothing, Fail, Over, DropSocket
<1>10. CASE Cancel
  BY <1>10, AskedStays DEF StageInv, Cancel, Fail, Over, DropSocket
<1>11. CASE DevAnswer
  BY <1>11, AskedStays DEF StageInv, DevAnswer
<1>12. CASE DevClose
  BY <1>12, AskedStays DEF StageInv, DevClose
<1>13. CASE ReadPart
  BY <1>13, AskedStays DEF StageInv, ReadPart, Take
<1>14. CASE DevTake
  BY <1>14, AskedStays DEF StageInv, DevTake
<1>15. CASE DevPart
  BY <1>15, AskedStays DEF StageInv, DevPart
<1>16. CASE UNCHANGED vars
  BY <1>16, AskedStays DEF vars
<1> QED BY <1>1, <1>2, <1>3, <1>4, <1>5, <1>6, <1>7, <1>8, <1>9, <1>10, <1>11, <1>12, <1>13,
           <1>14, <1>15, <1>16 DEF Next, Client

\* Each step keeps request and reply in turn.
LEMMA TurnStep ==
  ASSUME IInv, [Next]_vars
  PROVE  TurnInv'
<1> USE DEF IInv
<1>1. CASE Dial
  BY <1>1 DEF TurnInv, StageInv, Dial
<1>2. CASE DialFails
  BY <1>2 DEF TurnInv, StageInv, DialFails, Over
<1>3. CASE Write
  <2>1. toDev = <<>> /\ toCli = <<>> /\ phase \in 1..3
    BY <1>3 DEF TurnInv, StageInv, Write
  <2>2. PICK n \in 1..3 : n = phase
    BY <2>1
  <2>3. toDev' = <<Request(n)>>
    <3>1. toDev' = Append(<<>>, Request(n))
      BY <1>3, <2>1, <2>2 DEF Write
    <3> QED BY <3>1
  <2>4. /\ Request(n)' = Request(n) /\ n = phase' /\ toCli' = <<>> /\ pc' = "read" /\ outcome' = "none"
        /\ answering' \in BOOLEAN /\ ~answering'
    BY <1>3, <2>1, <2>2, AskedKept DEF StageInv, TurnInv, Write
  <2> QED BY <2>3, <2>4 DEF TurnInv
<1>4. CASE WriteFails
  BY <1>4 DEF TurnInv, StageInv, WriteFails, Fail, Over, DropSocket
<1>5. CASE ReadVersion
  BY <1>5, LastIsRead DEF TurnInv, StageInv, ReadVersion, Take, Connected, Over
<1>6. CASE ReadIfVersion
  BY <1>6, LastIsRead DEF TurnInv, StageInv, ReadIfVersion, Fail, Over, DropSocket, Take, SessionGuid, Verdict
<1>7. CASE ReadInfo
  BY <1>7, LastIsRead DEF TurnInv, StageInv, ReadInfo, Take, Connected, Fail, Over, DropSocket, Decode, Verdict
<1>8. CASE ReadOther
  <2>1. Tail(toCli) = <<>>
    BY <1>8, WhatIsRead DEF ReadOther
  <2> QED BY <1>8, <2>1, TurnStays DEF ReadOther, Fail, Over, DropSocket
<1>9. CASE ReadNothing
  BY <1>9, TurnStays DEF ReadNothing, Fail, Over, DropSocket
<1>10. CASE Cancel
  BY <1>10, TurnStays DEF Cancel, Fail, Over, DropSocket
<1>11. CASE DevAnswer
  <2>1. /\ toDev' = <<>> /\ answering' = FALSE /\ UNCHANGED <<pc, outcome>>
        /\ pc \notin {"dial", "write"} /\ outcome # "connected"
    BY <1>11 DEF TurnInv, DevAnswer
  <2>2. toCli' = <<>> \/ \E reply \in Answers : toCli' = <<reply>>
    <3>1. CASE toCli' = toCli
      BY <3>1 DEF TurnInv
    <3>2. CASE toCli' \in {<<reply>> : reply \in Answers}
      BY <3>2
    <3> QED BY <1>11, <3>1, <3>2 DEF DevAnswer
  <2>3. Answers' = Answers
    BY <1>11 DEF Answers, DevAnswer
  <2> QED BY <2>1, <2>2, <2>3 DEF TurnInv
<1>12. CASE DevClose
  BY <1>12, TurnStays DEF DevClose
<1>13. CASE ReadPart
  <2>1. Tail(toCli) = <<>>
    BY <1>13, WhatIsRead DEF ReadPart, Take
  <2> QED BY <1>13, <2>1, TurnStays DEF ReadPart, Take
<1>14. CASE DevTake
  <2>1. /\ toDev' = <<>> /\ toCli' = <<>> /\ answering' = TRUE
        /\ pc \notin {"dial", "write"} /\ outcome # "connected"
    <3>1. PICK n \in 1..3 : toDev = <<Request(n)>>
      BY <1>14 DEF TurnInv, DevTake
    <3>2. Tail(<<Request(n)>>) = <<>>
      OBVIOUS
    <3> QED BY <1>14, <3>1, <3>2 DEF TurnInv, DevTake
  <2>2. UNCHANGED <<pc, outcome>>
    BY <1>14 DEF DevTake
  <2> QED BY <2>1, <2>2 DEF TurnInv
<1>15. CASE DevPart
  <2>1. /\ toDev' = <<>> /\ toCli' = <<Part>> /\ answering'
        /\ pc \notin {"dial", "write"} /\ outcome # "connected"
    BY <1>15 DEF TurnInv, DevPart
  <2>2. Part \in Answers' /\ UNCHANGED <<pc, outcome>>
    <3>1. Part \in Replies /\ Part[1] # "VersionReply"
      BY DEF Replies, Part
    <3> QED BY <1>15, <3>1 DEF Answers, DevPart
  <2> QED BY <2>1, <2>2 DEF TurnInv
<1>16. CASE UNCHANGED vars
  BY <1>16, TurnStays DEF vars
<1> QED BY <1>1, <1>2, <1>3, <1>4, <1>5, <1>6, <1>7, <1>8, <1>9, <1>10, <1>11, <1>12, <1>13,
           <1>14, <1>15, <1>16 DEF Next, Client

\* Each step keeps what was found out.
LEMMA FoundStep ==
  ASSUME IInv, [Next]_vars
  PROVE  FoundInv'
<1> USE DEF IInv
<1>1. CASE Dial
  BY <1>1 DEF FoundInv, StageInv, Dial
<1>2. CASE DialFails
  BY <1>2 DEF FoundInv, StageInv, DialFails, Over
<1>3. CASE Write
  BY <1>3 DEF FoundInv, StageInv, Write
<1>4. CASE WriteFails
  BY <1>4 DEF FoundInv, StageInv, WriteFails, Fail, Over, DropSocket
<1>5. CASE ReadVersion
  <2>1. Head(toCli) \in Answers /\ Head(toCli)[1] = "VersionReply"
    BY <1>5, WhatIsRead DEF ReadVersion, Take
  <2>2. protocol' = speaks
    BY <2>1, <1>5 DEF ReadVersion, Answers, Classify, FoundInv
  <2>3. CASE speaks = "hd2020"
    BY <2>2, <2>3, <1>5 DEF FoundInv, StageInv, ReadVersion, Take, Connected, Over
  <2>4. CASE speaks # "hd2020"
    <3>1. phase' = 2 /\ protocol' = "sdk2" /\ speaks' = "sdk2" /\ pc = "read"
      BY <2>2, <2>4, <1>5 DEF FoundInv, ReadVersion, Take
    <3>2. UNCHANGED <<sock, heartbeat, outcome>>
      BY <2>2, <2>4, <1>5 DEF ReadVersion
    <3>3. outcome = "none" /\ ~heartbeat
      BY <3>1 DEF FoundInv, StageInv
    <3> QED BY <3>1, <3>2, <3>3 DEF FoundInv
  <2> QED BY <2>3, <2>4
<1>6. CASE ReadIfVersion
  BY <1>6 DEF FoundInv, StageInv, ReadIfVersion, Fail, Over, DropSocket, Take, SessionGuid, Verdict
<1>7. CASE ReadInfo
  <2> DEFINE doc == Head(toCli)[2]
  <2>2. doc \in Documents
    BY <1>7, DocumentRead DEF ReadInfo
  <2>3. CASE Decode(DeviceInfo.rows, doc) = "ok"
    <3>1. info' \in InfosTold
      BY <2>2, <2>3, <1>7 DEF ReadInfo, InfosTold
    <3>2. InfosTold' = InfosTold
      BY DEF InfosTold
    <3>3. /\ pc' = "done" /\ outcome' = "connected" /\ (heartbeat' <=> protocol = "sdk2")
          /\ UNCHANGED <<sock, speaks, phase, protocol, guid>>
      BY <2>3, <1>7 DEF ReadInfo, Connected, Over
    <3>4. phase = 3 /\ pc = "read"
      BY <1>7 DEF ReadInfo, Take
    <3> QED BY <3>1, <3>2, <3>3, <3>4 DEF FoundInv, StageInv
  <2>4. CASE Decode(DeviceInfo.rows, doc) # "ok"
    <3>1. outcome' \notin {"none", "connected"} /\ sock' = "closed" /\ heartbeat' = heartbeat
      BY <2>4, <1>7 DEF ReadInfo, Fail, Over, DropSocket, Decode, Verdict
    <3> QED BY <3>1, <1>7 DEF ReadInfo, Take, FoundInv, StageInv
  <2> QED BY <2>3, <2>4
<1>8. CASE ReadOther
  BY <1>8 DEF FoundInv, StageInv, ReadOther, Fail, Over, DropSocket
<1>9. CASE ReadNothing
  BY <1>9 DEF FoundInv, StageInv, ReadNothing, Fail, Over, DropSocket
<1>10. CASE Cancel
  BY <1>10 DEF FoundInv, StageInv, Cancel, Fail, Over, DropSocket
<1>11. CASE DevAnswer
  BY <1>11 DEF FoundInv, StageInv, DevAnswer
<1>12. CASE DevClose
  BY <1>12 DEF FoundInv, StageInv, DevClose
<1>13. CASE ReadPart
  BY <1>13 DEF FoundInv, StageInv, ReadPart, Take
<1>14. CASE DevTake
  BY <1>14 DEF FoundInv, StageInv, DevTake
<1>15. CASE DevPart
  BY <1>15 DEF FoundInv, StageInv, DevPart
<1>16. CASE UNCHANGED vars
  BY <1>16 DEF vars, FoundInv, StageInv
<1> QED BY <1>1, <1>2, <1>3, <1>4, <1>5, <1>6, <1>7, <1>8, <1>9, <1>10, <1>11, <1>12, <1>13,
           <1>14, <1>15, <1>16 DEF Next, Client

\* A step that finds nothing out and puts nothing on the wire.
LEMMA KindStays ==
  ASSUME KindInv, UNCHANGED <<protocol, guid, info, wrote>>,
         toDev' = toDev \/ toDev' = <<>>, up' \in BOOLEAN,
         sock' \in {"none", "open", "closed"}, outcome' \in Outcomes
  PROVE  KindInv'
<1>1. ToSet(<<>>) = {}
  BY DEF ToSet
<1>2. ToSet(toDev') \subseteq ToSet(wrote')
  BY <1>1 DEF KindInv
<1>3. Documents' = Documents /\ NoInfo' = NoInfo
  BY DEF NoInfo
<1> QED BY <1>2, <1>3 DEF KindInv

\* Each step keeps what the variables hold.
LEMMA KindStep ==
  ASSUME IInv, [Next]_vars
  PROVE  KindInv'
<1> USE DEF IInv
<1>0. /\ up \in BOOLEAN /\ outcome \in Outcomes /\ sock \in {"none", "open", "closed"}
      /\ \A how \in Errors \cup {"connected", "cancelled"} : how \in Outcomes
      /\ ToSet(<<>>) = {}
  BY DEF KindInv, Outcomes, ToSet
<1>1. CASE Dial
  BY <1>0, <1>1, KindStays DEF Dial
<1>2. CASE DialFails
  <2>1. outcome' \in Outcomes
    BY <1>0, <1>2 DEF DialFails, Over, Errors
  <2> QED BY <1>0, <1>2, <2>1, KindStays DEF DialFails
<1>3. CASE Write
  <2>1. PICK n \in 1..3 : n = phase
    BY <1>3 DEF StageInv, Write
  <2>2. wrote' = Append(wrote, Request(n)) /\ wrote = Asked(n - 1) /\ toDev' = Append(toDev, Request(n))
    BY <1>3, <2>1 DEF Write, AskedInv
  <2>3. n - 1 \in Nat /\ (n - 1) + 1 = n
    BY <2>1
  <2>4. wrote' = Asked(n)
    BY <2>2, <2>3, AskedMore
  <2>5. Request(n) \in ToSet(wrote')
    <3>1. n \in DOMAIN Asked(n) /\ Asked(n)[n] = Request(n)
      BY <2>1 DEF Asked
    <3> QED BY <2>4, <3>1 DEF ToSet
  <2>6. toDev' = <<Request(n)>>
    <3>1. toDev = <<>>
      BY <1>3 DEF TurnInv, Write
    <3> QED BY <2>2, <3>1
  <2>7. ToSet(toDev') = {Request(n)}
    <3>1. \A x : ToSet(<<x>>) = {x}
      BY DEF ToSet
    <3> QED BY <2>6, <3>1
  <2>8. UNCHANGED <<protocol, guid, info, up, sock, outcome>>
    BY <1>3 DEF Write
  <2>9. Documents' = Documents /\ NoInfo' = NoInfo
    BY DEF NoInfo
  <2> QED BY <1>0, <2>5, <2>7, <2>8, <2>9 DEF KindInv
<1>4. CASE WriteFails
  BY <1>0, <1>4, KindStays DEF WriteFails, Fail, Over, DropSocket, Errors
<1>5. CASE ReadVersion
  <2>1. UNCHANGED <<guid, info, toDev, up, wrote>> /\ sock' = sock /\ protocol' \in {"sdk2", "hd2020"}
    BY <1>5 DEF ReadVersion, Take, Connected, Over, Classify
  <2>2. outcome' \in {outcome, "connected"}
    BY <1>5 DEF ReadVersion, Connected, Over
  <2>3. Documents' = Documents /\ NoInfo' = NoInfo
    BY DEF NoInfo
  <2> QED BY <1>0, <2>1, <2>2, <2>3 DEF KindInv
<1>6. CASE ReadIfVersion
  <2> DEFINE doc == Head(toCli)[2]
  <2>1. doc \in Documents
    BY <1>6, DocumentRead DEF ReadIfVersion
  <2>2. UNCHANGED <<protocol, info, toDev, up, wrote>>
    BY <1>6 DEF ReadIfVersion, Take
  <2>3. Documents' = Documents /\ NoInfo' = NoInfo
    BY DEF NoInfo
  <2>4. CASE SessionGuid(doc) = "ok"
    <3>1. guid' = DecodeReply(doc).guid /\ UNCHANGED <<sock, outcome>>
      BY <1>6, <2>4 DEF ReadIfVersion
    <3>2. Verdict(doc) = "ok"
      BY <2>4 DEF SessionGuid
    <3>3. IsList(doc)
      BY <2>1, DocumentAssumption
    <3>4. guid' \in {Absent} \cup Texts(doc) /\ guid' # Unreadable
      BY <3>1, <3>2, <3>3, GuidIsReadable
    <3> HIDE DEF doc
    <3> QED BY <1>0, <2>1, <2>2, <2>3, <3>1, <3>4 DEF KindInv
  <2>5. CASE SessionGuid(doc) # "ok"
    <3>1. guid' = guid /\ sock' = "closed" /\ outcome' = SessionGuid(doc)
      BY <1>6, <2>5 DEF ReadIfVersion, Fail, Over, DropSocket
    <3>2. outcome' \in Outcomes
      BY <2>5, <3>1, <1>0 DEF SessionGuid, Verdict, Errors
    <3> HIDE DEF doc
    <3> QED BY <1>0, <2>2, <2>3, <3>1, <3>2 DEF KindInv
  <2> QED BY <2>4, <2>5
<1>7. CASE ReadInfo
  <2> DEFINE doc == Head(toCli)[2]
  <2>1. doc \in Documents
    BY <1>7, DocumentRead DEF ReadInfo
  <2>2. UNCHANGED <<protocol, guid, toDev, up, wrote>>
    BY <1>7 DEF ReadInfo, Take
  <2>3. Documents' = Documents /\ NoInfo' = NoInfo
    BY DEF NoInfo
  <2>4. CASE Decode(DeviceInfo.rows, doc) = "ok"
    <3>1. info' = ParseBody(DeviceInfo.rows, doc) /\ sock' = sock /\ outcome' = "connected"
      BY <1>7, <2>4 DEF ReadInfo, Connected, Over
    <3>2. Len(doc) \in Nat
      BY <2>1, DocumentAssumption
    <3>3. DOMAIN info' = DOMAIN NoInfo
      BY <3>1, <3>2, StructIsFilled DEF NoInfo
    <3> HIDE DEF doc
    <3> QED BY <1>0, <2>2, <2>3, <3>1, <3>3 DEF KindInv
  <2>5. CASE Decode(DeviceInfo.rows, doc) # "ok"
    <3>1. info' = info /\ sock' = "closed" /\ outcome' = Decode(DeviceInfo.rows, doc)
      BY <1>7, <2>5 DEF ReadInfo, Fail, Over, DropSocket
    <3>2. outcome' \in Outcomes
      BY <2>5, <3>1, <1>0 DEF Decode, Verdict, Errors
    <3> HIDE DEF doc
    <3> QED BY <1>0, <2>2, <2>3, <3>1, <3>2 DEF KindInv
  <2> QED BY <2>4, <2>5
<1>8. CASE ReadOther
  BY <1>0, <1>8, KindStays DEF ReadOther, Fail, Over, DropSocket, Errors
<1>9. CASE ReadNothing
  BY <1>0, <1>9, KindStays DEF ReadNothing, Fail, Over, DropSocket, Errors
<1>10. CASE Cancel
  BY <1>0, <1>10, KindStays DEF Cancel, Fail, Over, DropSocket
<1>11. CASE DevAnswer
  BY <1>0, <1>11, KindStays DEF DevAnswer
<1>12. CASE DevClose
  BY <1>0, <1>12, KindStays DEF DevClose
<1>13. CASE ReadPart
  BY <1>0, <1>13, KindStays DEF ReadPart, Take
<1>14. CASE DevTake
  <2>1. toDev' = <<>>
    <3>1. PICK n \in 1..3 : toDev = <<Request(n)>>
      BY <1>14 DEF TurnInv, DevTake
    <3>2. Tail(<<Request(n)>>) = <<>>
      OBVIOUS
    <3> QED BY <1>14, <3>1, <3>2 DEF DevTake
  <2> QED BY <1>0, <1>14, <2>1, KindStays DEF DevTake
<1>15. CASE DevPart
  BY <1>0, <1>15, KindStays DEF DevPart
<1>16. CASE UNCHANGED vars
  BY <1>0, <1>16, KindStays DEF vars
<1> QED BY <1>1, <1>2, <1>3, <1>4, <1>5, <1>6, <1>7, <1>8, <1>9, <1>10, <1>11, <1>12, <1>13,
           <1>14, <1>15, <1>16 DEF Next, Client

-----------------------------------------------------------------------------
(* The theorems.                                                           *)

\* Before the first phase nothing is written, found or under way.
LEMMA InitHolds == Init => IInv
<1> SUFFICES ASSUME Init PROVE IInv
  OBVIOUS
<1>1. Asked(0) = <<>> /\ Asked(0 - 1) = <<>>
  BY DEF Asked
<1>2. StageInv
  BY DEF Init, StageInv
<1>3. 0 = phase /\ wrote = Asked(0 - 1) /\ pc = "dial"
  BY <1>1 DEF Init
<1>4. AskedInv
  BY <1>3 DEF AskedInv
<1>5. TurnInv
  BY DEF Init, TurnInv
<1>6. FoundInv
  <2>1. ~heartbeat /\ heartbeat \in BOOLEAN
    BY DEF Init
  <2>2. phase = 0 /\ outcome = "none" /\ speaks \in {"sdk2", "hd2020"}
    BY DEF Init
  <2> QED BY <2>1, <2>2 DEF FoundInv
<1>7. KindInv
  <2>1. ToSet(<<>>) = {} /\ Absent # Unreadable
    BY DEF ToSet, Absent, Unreadable
  <2> QED BY <2>1 DEF Init, KindInv, Outcomes
<1> QED BY <1>2, <1>4, <1>5, <1>6, <1>7 DEF IInv

\* The invariant holds throughout.
THEOREM HandshakeInductive == Spec => []IInv
<1>1. IInv /\ [Next]_vars => IInv'
  BY StageStep, AskedStep, TurnStep, FoundStep, KindStep DEF IInv
<1> QED BY <1>1, InitHolds, PTL DEF Spec

\* What connect hands over is where Connection begins: the wire silent, the heartbeat
\* on SDK 2.0 alone, and there a session guid and what the device said of itself.
THEOREM HandsOver == Spec => []HandsOverQuiet
<1>1. IInv => HandsOverQuiet
  BY DEF IInv, HandsOverQuiet, StageInv, TurnInv, FoundInv
<1> QED BY <1>1, HandshakeInductive, PTL

\* A controller that speaks HD2020 gets the version request and nothing after it.
THEOREM NothingButTheProbe == Spec => []NoXmlOnHd2020
<1>1. IInv => NoXmlOnHd2020
  <2> SUFFICES ASSUME IInv, speaks = "hd2020" PROVE Len(wrote) <= 1 /\ ~heartbeat
    BY DEF NoXmlOnHd2020
  <2>1. PICK n \in 0..3 : n = phase /\ (wrote = Asked(n) \/ wrote = Asked(n - 1))
    BY DEF IInv, AskedInv
  <2>2. n \in {0, 1}
    BY <2>1 DEF IInv, FoundInv
  <2>3. wrote = <<>> \/ wrote = <<Request(1)>>
    <3>1. Asked(0) = <<>> /\ Asked(0 - 1) = <<>>
      BY DEF Asked
    <3>2. Asked(1) = Append(Asked(0), Request(1))
      <4>1. PICK k \in Nat : k = 0
        OBVIOUS
      <4>2. Append(Asked(k), Request(k + 1)) = Asked(k + 1)
        BY AskedMore
      <4>3. k + 1 = 1
        BY <4>1
      <4> QED BY <4>1, <4>2, <4>3
    <3>3. Append(<<>>, Request(1)) = <<Request(1)>>
      OBVIOUS
    <3> QED BY <2>1, <2>2, <3>1, <3>2, <3>3
  <2>4. protocol # "sdk2" \/ outcome # "connected"
    BY <2>1, <2>2 DEF IInv, FoundInv
  <2>5. ~heartbeat
    BY <2>4 DEF IInv, FoundInv
  <2>6. Len(wrote) <= 1
    <3>1. \A request : Len(<<request>>) = 1
      OBVIOUS
    <3>2. Len(<<>>) = 0
      OBVIOUS
    <3>3. Len(<<Request(1)>>) = 1
      BY <3>1
    <3>4. Len(wrote) \in {0, 1}
      BY <2>3, <3>2, <3>3
    <3>5. \A k \in {0, 1} : k <= 1
      OBVIOUS
    <3> QED BY <3>4, <3>5
  <2> QED BY <2>5, <2>6
<1> QED BY <1>1, HandshakeInductive, PTL

\* The requests are those of the phases, in their order, and carry the session guid
\* once it is known: never the placeholder instead of it, nor an older guid.
THEOREM RequestsInOrder == Spec => []AsksInOrder
<1>1. IInv => AsksInOrder
  BY DEF IInv, AskedInv, AsksInOrder, Asked
<1> QED BY <1>1, HandshakeInductive, PTL

\* No failure, of whatever kind and in whatever phase, leaves the socket open.
THEOREM FailuresHangUp == Spec => []NoSocketLeft
<1>1. IInv => NoSocketLeft
  BY DEF IInv, FoundInv, NoSocketLeft, Errors
<1> QED BY <1>1, HandshakeInductive, PTL

\* Types: whatever the device says, the guid is a text that could be read, the struct
\* has its fields, and what the device has still to read was written.
THEOREM HandshakeTypes == Spec => []TypeOK
<1>1. IInv => TypeOK
  <2> SUFFICES ASSUME IInv PROVE TypeOK
    OBVIOUS
  <2> USE DEF IInv
  <2>1. Len(toDev) <= 1
    <3>1. \A x : Len(<<x>>) = 1
      OBVIOUS
    <3>2. Len(<<>>) = 0 /\ 0 <= 1 /\ 1 <= 1
      OBVIOUS
    <3>3. toDev = <<>> \/ \E x : toDev = <<x>>
      BY DEF TurnInv
    <3> QED BY <3>1, <3>2, <3>3
  <2>2. toCli \in Seq(Replies)
    <3>1. \A reply \in Replies : <<reply>> \in Seq(Replies)
      OBVIOUS
    <3>2. <<>> \in Seq(Replies)
      OBVIOUS
    <3>3. toCli = <<>> \/ \E reply \in Replies : toCli = <<reply>>
      BY DEF TurnInv, Answers
    <3> QED BY <3>1, <3>2, <3>3
  <2>3. \A i \in DOMAIN wrote : wrote[i][1] \in {"VersionAsk", "SdkCmd"}
    <3>1. PICK n \in 0..3 : wrote = Asked(n) \/ wrote = Asked(n - 1)
      BY DEF AskedInv
    <3>2. \A i \in 1..3 : Request(i)[1] \in {"VersionAsk", "SdkCmd"}
      BY DEF Request
    <3>3. \A k \in {n - 1, n} : \A i \in 1..k : i \in 1..3
      BY <3>1
    <3>4. \A k \in {n - 1, n} : DOMAIN Asked(k) = 1..k /\ \A i \in 1..k : Asked(k)[i] = Request(i)
      BY DEF Asked
    <3> QED BY <3>1, <3>2, <3>3, <3>4
  <2>4. speaks \in {"sdk2", "hd2020"} /\ heartbeat \in BOOLEAN /\ answering \in BOOLEAN
        /\ (outcome \in Errors \cup {"cancelled"} => sock # "open")
    BY DEF FoundInv, TurnInv, Errors
  <2>5. pc \in {"dial", "write", "read", "done"} /\ phase \in 0..3
    BY DEF StageInv
  <2> QED BY <2>1, <2>2, <2>3, <2>4, <2>5 DEF TypeOK, KindInv
<1> QED BY <1>1, HandshakeInductive, PTL

\* Whoever reads the envelopes of the requests finds the method of their phase, and the
\* placeholder until the device has told its guid and that guid from then on.
THEOREM RequestsSayWho == Spec => []RequestsIdentified
<1>1. IInv => RequestsIdentified
  <2> SUFFICES ASSUME IInv, NEW i \in DOMAIN wrote \ {1}
               PROVE  DecodeReply(wrote[i][2]) =
                        [NoHeader EXCEPT !.method = IF i = 2 THEN "GetIFVersion" ELSE "GetDeviceInfo",
                                         !.guid = IF i = 2 THEN PlaceholderGuid ELSE guid]
    BY DEF RequestsIdentified
  <2>1. PICK n \in 0..3 : wrote = Asked(n) \/ wrote = Asked(n - 1)
    BY DEF IInv, AskedInv
  <2>2. i \in {2, 3} /\ wrote[i] = Request(i)
    BY <2>1 DEF Asked
  <2>3. guid # Unreadable /\ PlaceholderGuid # Unreadable
    BY DEF IInv, KindInv, PlaceholderGuid, Unreadable
  <2>4. /\ Known("GetIFVersion") /\ "GetIFVersion" # Absent
        /\ Known("GetDeviceInfo") /\ "GetDeviceInfo" # Absent
    BY DocumentAssumption DEF Known, Absent
  <2>5. CASE i = 2
    <3>1. wrote[i][2] = EncodeRequest(PlaceholderGuid, "GetIFVersion", <<>>)
      BY <2>2, <2>5 DEF Request, RequestGuid
    <3> QED BY <2>3, <2>4, <2>5, <3>1, RequestIsRead
  <2>6. CASE i = 3
    <3>1. wrote[i][2] = EncodeRequest(guid, "GetDeviceInfo", <<>>)
      BY <2>2, <2>6 DEF Request, RequestGuid
    <3>2. DecodeReply(EncodeRequest(guid, "GetDeviceInfo", <<>>))
            = [NoHeader EXCEPT !.method = "GetDeviceInfo", !.guid = guid]
      BY <2>3, <2>4, RequestIsRead
    <3>3. i # 2
      BY <2>6
    <3> QED BY <3>1, <3>2, <3>3
  <2> QED BY <2>2, <2>5, <2>6
<1> QED BY <1>1, HandshakeInductive, PTL
=============================================================================
