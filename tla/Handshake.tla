----------------------------- MODULE Handshake -----------------------------
(***************************************************************************)
(* Device::connect: the version probe, which tells the protocol, and the   *)
(* two SDK phases that follow on an SDK 2.0 device.                        *)
(* crates/huidu/src/{device,probe}.rs.  Connection starts where this ends. *)
(*                                                                         *)
(* The device answers a request with a frame, of any kind, or not at all   *)
(* or hangs up; an HD2020 device begins its VersionReply with the byte A5, *)
(* an SDK 2.0 device does not.  The fragments of a document are frames too *)
(* (SdkFragments puts them together): one that does not complete it may    *)
(* come first, any number of times, and the one that does stands for the   *)
(* document, which Messages reads.                                         *)
(***************************************************************************)
EXTENDS Messages

CONSTANTS Documents \* what the device may say in an SdkReply

ASSUME DocumentAssumption == /\ {"GetIFVersion", "GetDeviceInfo"} \subseteq Methods
                             /\ \A doc \in Documents : IsList(doc)

VARIABLES speaks,    \* the protocol of the device
          pc,        \* where connect stands
          phase,     \* the phase it is in, 1 to 3
          protocol,  \* what the probe found
          guid,      \* the session guid, once found
          info,      \* DeviceInner::info
          toDev,     \* requests on the way to the device
          answering, \* the device has taken a request in and may still answer it
          toCli,     \* replies on the way back
          up,        \* the device has not hung up
          sock,      \* our end of the connection
          heartbeat, \* the heartbeat task was spawned
          wrote,     \* every request written so far
          outcome    \* what connect returned

foundVars == <<protocol, guid, info>>
wireVars  == <<toDev, answering, toCli, up>>
vars == <<speaks, pc, phase, foundVars, wireVars, sock, heartbeat, wrote, outcome>>

PlaceholderGuid == "##GUID"

\* DeviceInfo::default.
NoInfo == Default(DeviceInfo.rows)

\* A fragment of a reply, and not the last.
Part == <<"SdkPart", "">>

\* VersionReply by the first byte of its payload, SdkReply with the fragment that
\* completes a document, and any other frame.
Replies == ({"VersionReply"} \X {"empty", "A5", "other"}) \cup
           ({"SdkReply"} \X Documents) \cup
           {Part, <<"Other", "">>, <<"UnknownCmd", "">>}

Errors   == {"io", "timeout", "closed", "unexpected", "proto", "device"}
Outcomes == Errors \cup {"none", "connected", "cancelled"}

\* Types; no socket is left open by a failure.
TypeOK == /\ speaks \in {"sdk2", "hd2020"}
          /\ pc \in {"dial", "write", "read", "done"}
          /\ phase \in 0..3
          /\ protocol \in {"unknown", "sdk2", "hd2020"}
          /\ guid \in ({Absent} \cup UNION {Texts(doc) : doc \in Documents}) \ {Unreadable}
          /\ DOMAIN info = DOMAIN NoInfo
          /\ Len(toDev) <= 1 /\ ToSet(toDev) \subseteq ToSet(wrote)
          /\ answering \in BOOLEAN
          /\ toCli \in Seq(Replies)
          /\ up \in BOOLEAN
          /\ sock \in {"none", "open", "closed"}
          /\ (outcome \in Errors \cup {"cancelled"} => sock # "open")
          /\ heartbeat \in BOOLEAN
          /\ \A i \in DOMAIN wrote : wrote[i][1] \in {"VersionAsk", "SdkCmd"}
          /\ outcome \in Outcomes

Init == /\ speaks \in {"sdk2", "hd2020"}
        /\ pc = "dial" /\ phase = 0
        /\ protocol = "unknown" /\ guid = Absent /\ info = NoInfo
        /\ toDev = <<>> /\ answering = FALSE /\ toCli = <<>> /\ up = TRUE
        /\ sock = "none" /\ heartbeat = FALSE
        /\ wrote = <<>>
        /\ outcome = "none"

\* Names that begin with Slip are mistakes this code could have made: the next
\* definition with a slip in its place breaks a property.  No action uses one.

SlipAnyReply(payload) == "sdk2"
SlipGuidless(doc)     == Verdict(doc)
SlipNoSession(n)      == PlaceholderGuid
SlipNoDeadline        == FALSE
SlipLeftOpen          == UNCHANGED sock

\* probe::classify: an HD2020 controller answers with HD2020's start byte first.
Classify(payload) == IF payload = "A5" THEN "hd2020" ELSE "sdk2"

\* The guid a request carries: before phase 2 has found one, the placeholder.
RequestGuid(n) == IF n = 2 THEN PlaceholderGuid ELSE guid

\* The request of each phase.
Request(n) == CASE n = 1 -> <<"VersionAsk", <<>>>>
                [] n = 2 -> <<"SdkCmd", EncodeRequest(RequestGuid(n), "GetIFVersion", <<>>)>>
                [] n = 3 -> <<"SdkCmd", EncodeRequest(RequestGuid(n), "GetDeviceInfo", <<>>)>>

\* session_guid: what the device says is wrong comes before what is missing.
SessionGuid(doc) == IF Verdict(doc) = "ok" /\ DecodeReply(doc).guid = Absent
                    THEN "proto" ELSE Verdict(doc)

\* The socket dies with the future or the error.
DropSocket == sock' = "closed"

\* The deadline of a read.
Deadline == toCli = <<>> /\ up

Over(how) == pc' = "done" /\ outcome' = how
Fail(how) == Over(how) /\ DropSocket

-----------------------------------------------------------------------------
(* Device::connect.                                                        *)

Dial == /\ pc = "dial"
        /\ pc' = "write" /\ phase' = 1
        /\ sock' = "open"
        /\ UNCHANGED <<speaks, foundVars, wireVars, heartbeat, wrote, outcome>>

\* TcpStream::connect fails or does not come back within the deadline.
DialFails == /\ pc = "dial"
             /\ \E how \in {"io", "timeout"} : Over(how)
             /\ UNCHANGED <<speaks, phase, foundVars, wireVars, sock, heartbeat, wrote>>

Write == /\ pc = "write"
         /\ pc' = "read"
         /\ wrote' = Append(wrote, Request(phase))
         /\ toDev' = Append(toDev, Request(phase))
         /\ UNCHANGED <<speaks, phase, foundVars, answering, toCli, up, sock, heartbeat, outcome>>

WriteFails == /\ pc = "write" /\ ~up
              /\ Fail("io")
              /\ UNCHANGED <<speaks, phase, foundVars, wireVars, heartbeat, wrote>>

\* The device is ready: DeviceInner is built and, on SDK 2.0, the heartbeat spawned.
Connected(found) == /\ Over("connected")
                    /\ heartbeat' = (found = "sdk2")
                    /\ UNCHANGED sock

\* A reply of the expected kind is taken off the wire.
Take(cmd) == /\ pc = "read" /\ toCli # <<>> /\ Head(toCli)[1] = cmd
             /\ toCli' = Tail(toCli)
             /\ UNCHANGED <<toDev, answering, up, wrote>>

\* Phase 1: an HD2020 device is ready at once.
ReadVersion == /\ phase = 1 /\ Take("VersionReply")
               /\ protocol' = Classify(Head(toCli)[2])
               /\ IF protocol' = "hd2020"
                  THEN Connected(protocol') /\ UNCHANGED phase
                  ELSE pc' = "write" /\ phase' = 2 /\ UNCHANGED <<sock, heartbeat, outcome>>
               /\ UNCHANGED <<speaks, guid, info>>

\* Phase 2 ends with the session guid.
ReadIfVersion == /\ phase = 2 /\ Take("SdkReply")
                 /\ LET verdict == SessionGuid(Head(toCli)[2]) IN
                    IF verdict = "ok"
                    THEN /\ guid' = DecodeReply(Head(toCli)[2]).guid /\ pc' = "write" /\ phase' = 3
                         /\ UNCHANGED <<sock, outcome>>
                    ELSE Fail(verdict) /\ UNCHANGED <<guid, phase>>
                 /\ UNCHANGED <<speaks, protocol, info, heartbeat>>

\* Phase 3 ends with the DeviceInfo.
ReadInfo == /\ phase = 3 /\ Take("SdkReply")
            /\ LET doc == Head(toCli)[2]
                   verdict == Decode(DeviceInfo.rows, doc) IN
               IF verdict = "ok"
               THEN Connected(protocol) /\ info' = ParseBody(DeviceInfo.rows, doc)
               ELSE Fail(verdict) /\ UNCHANGED <<info, heartbeat>>
            /\ UNCHANGED <<speaks, phase, protocol, guid>>

\* sdk_roundtrip reads on after a fragment that does not complete the document, and
\* the deadline starts again.
ReadPart == /\ phase # 1 /\ Take("SdkPart")
            /\ UNCHANGED <<speaks, pc, phase, foundVars, sock, heartbeat, outcome>>

\* Another frame, or one the codec does not know.
ReadOther == /\ pc = "read" /\ toCli # <<>>
             /\ Head(toCli)[1] \notin (IF phase = 1 THEN {"VersionReply"} ELSE {"SdkReply", "SdkPart"})
             /\ toCli' = Tail(toCli)
             /\ Fail(IF Head(toCli)[1] = "UnknownCmd" THEN "proto" ELSE "unexpected")
             /\ UNCHANGED <<speaks, phase, foundVars, toDev, answering, up, heartbeat, wrote>>

\* No frame: the deadline passes, or the device has hung up.
ReadNothing == /\ pc = "read"
               /\ \/ Deadline /\ Fail("timeout")
                  \/ toCli = <<>> /\ ~up /\ Fail("closed")
               /\ UNCHANGED <<speaks, phase, foundVars, wireVars, heartbeat, wrote>>

\* The future of connect is dropped.
Cancel == /\ pc \in {"write", "read"}
          /\ Fail("cancelled")
          /\ UNCHANGED <<speaks, phase, foundVars, wireVars, heartbeat, wrote>>

-----------------------------------------------------------------------------
(* The device.                                                             *)

Answers == {reply \in Replies :
               reply[1] = "VersionReply" => (reply[2] = "A5") = (speaks = "hd2020")}

DevTake == /\ toDev # <<>> /\ up
           /\ toDev' = Tail(toDev)
           /\ answering' = TRUE
           /\ UNCHANGED <<speaks, pc, phase, foundVars, toCli, up, sock, heartbeat, wrote, outcome>>

\* It sends a fragment that does not complete its reply, as often as it likes.
DevPart == /\ answering /\ up
           /\ toCli = <<>>
           /\ toCli' = <<Part>>
           /\ UNCHANGED <<speaks, pc, phase, foundVars, toDev, answering, up, sock, heartbeat, wrote, outcome>>

\* It comes to the end of its reply, or says no more.
DevAnswer == /\ answering /\ up
             /\ answering' = FALSE
             /\ \/ UNCHANGED toCli
                \/ toCli = <<>> /\ toCli' \in {<<reply>> : reply \in Answers}
             /\ UNCHANGED <<speaks, pc, phase, foundVars, toDev, up, sock, heartbeat, wrote, outcome>>

DevClose == /\ up /\ sock = "open"
            /\ up' = FALSE
            /\ UNCHANGED <<speaks, pc, phase, foundVars, toDev, answering, toCli, sock, heartbeat, wrote, outcome>>

Client == \/ Dial \/ DialFails \/ Write \/ WriteFails
          \/ ReadVersion \/ ReadIfVersion \/ ReadInfo \/ ReadPart \/ ReadOther \/ ReadNothing
Next   == Client \/ Cancel \/ DevTake \/ DevPart \/ DevAnswer \/ DevClose

Spec == Init /\ [][Next]_vars

\* The task that connects is scheduled and its deadlines pass; a request fits in the
\* empty buffer of its socket, so that a write need not wait for the device.  Of the
\* device it is assumed that it does not go on for ever with a reply it has begun.
AnswersEnd == WF_vars(DevAnswer)
FairSpec   == Spec /\ WF_vars(Client) /\ AnswersEnd

-----------------------------------------------------------------------------
(* Properties.                                                             *)

InfosTold == {ParseBody(DeviceInfo.rows, doc) :
                doc \in {d \in Documents : Decode(DeviceInfo.rows, d) = "ok"}}

\* What connect hands over is where Connection begins: the socket open, every request
\* answered and every reply read to its end, the heartbeat on SDK 2.0 alone, and on SDK 2.0 the
\* session guid of the device and what a document said of it that passed for
\* success and could be read (device.rs lines 80 to 122).
HandsOverQuiet == outcome = "connected" =>
                     /\ sock = "open" /\ toDev = <<>> /\ ~answering /\ toCli = <<>>
                     /\ heartbeat = (protocol = "sdk2")
                     /\ (protocol = "sdk2" => guid # Absent /\ info \in InfosTold)

\* A controller that answered with HD2020's start byte is never sent SDK XML, and
\* no heartbeat (device.rs lines 64 to 67 and 113 to 116).
NoXmlOnHd2020 == speaks = "hd2020" => Len(wrote) <= 1 /\ ~heartbeat

\* Once the session guid is known it is what every request says, and until then the
\* placeholder; and each request reads, to any reader of envelopes, as the method
\* of its phase (device.rs lines 282 to 296).
RequestsIdentified ==
  \A i \in DOMAIN wrote \ {1} :
     DecodeReply(wrote[i][2]) =
       [NoHeader EXCEPT !.method = IF i = 2 THEN "GetIFVersion" ELSE "GetDeviceInfo",
                        !.guid = IF i = 2 THEN PlaceholderGuid ELSE guid]

\* Every connect ends, whatever the device answers or leaves unsaid and wherever it hangs
\* up, as long as it comes to the end of the replies it begins: each of their fragments
\* starts the deadline anew (transport.rs lines 105 to 117).
ConnectEnds == pc = "dial" ~> pc = "done"
=============================================================================
