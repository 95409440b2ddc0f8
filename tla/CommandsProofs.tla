--------------------------- MODULE CommandsProofs ---------------------------
(***************************************************************************)
(* What two callers of one device are told of its settings and programs:  *)
(* the invariant of Commands, and the properties that follow from it, for  *)
(* every number of callers, everything the device may hold, everything     *)
(* callers may set and send, and every way in which requests are lost or   *)
(* come late.                                                              *)
(*                                                                         *)
(* A getter succeeds only with what the device held while the call was     *)
(* under way, and a setter only when the device was given what it set.     *)
(* The argument follows the document: a request is alone on its            *)
(* connection, since a connection that an exchange was left on is poisoned *)
(* and refused; so the reply that is read is the device's answer to it.    *)
(* Of a getter it holds a body of that time, and parse_body makes of the   *)
(* reply what it makes of the body (BodyWithinEnvelope).  A setter's was   *)
(* written by write_body; the device reads its method through the envelope *)
(* (EnvelopeIsRead) and keeps the body, and parse_body makes of that what  *)
(* the caller meant (BodyRoundTrip).  A screen is written as one element,  *)
(* which the device lifts out of the request whole (ElementIsLifted), and  *)
(* what its events say is what the screen is made of (XmlShows).           *)
(***************************************************************************)
EXTENDS Commands, MessagesProofs

-----------------------------------------------------------------------------
(* The invariant.                                                          *)

\* A document as wrap makes it.
Carried(doc) == IsList(doc) /\ Len(doc) >= 4

\* What may be set.
Settable == DOMAIN Settings \ {"files", "device"}
\* What delete_files may be asked to delete.
Deletable(names) == IsList(names) /\ {"", Absent} \cap ToSet(names) = {}

\* The commands that change what the device holds.
Changes == {"set", "clear", "delete", "send"}

\* A command as the wrappers make it.
Sound(cmd) ==
  \/ cmd.topic \in DOMAIN Settings /\ cmd = Get(cmd.topic)
  \/ cmd.topic \in Settable /\ cmd = Set(cmd.topic, cmd.arg) /\ IsInfo(Rows(cmd.topic), cmd.arg)
  \/ cmd = ClearLogo
  \/ cmd = Delete(cmd.arg) /\ Deletable(cmd.arg)
  \/ cmd = SendScreen(cmd.arg) /\ IsScreen(cmd.arg)

\* What a command is about is in focus.
CallInv(c) == \/ call[c] = NoCall
              \/ call[c].topic \in DOMAIN settings /\ Sound(call[c])

\* What a caller was told of the settings is as a struct of them is filled.
InfoInv(c) == result[c].info # None => /\ call[c].topic \in DOMAIN Settings
                                       /\ IsInfo(Rows(call[c].topic), result[c].info)

\* A caller under way has a command, no result yet, and what the device holds of its
\* topic counts as held while it was.
UnderWayInv(c) == stage[c] # "idle" => /\ call[c] # NoCall
                                       /\ result[c] = Returned("none")
                                       /\ settings[call[c].topic] \in HeldDuring(c)

\* Types of what is read and written without a guard.
TypeInv == /\ stage \in [Callers -> {"idle", "wait", "read"}]
           /\ call = [c \in Callers |-> call[c]]
           /\ result = [c \in Callers |-> result[c]]
           /\ held = [c \in Callers |-> held[c]]
           /\ holder \in Callers \cup {None}
           /\ poisoned \in BOOLEAN
           /\ \A c \in Callers : /\ result[c].verdict \in {"none", "ok", "proto", "device", "failed",
                                                           "poisoned", "panicked"}
                                 /\ DOMAIN held[c] = {"old", "new"}

\* Who reads a reply is who holds the mutex, and nobody once it is poisoned.
MutexInv == /\ \A c \in Callers : stage[c] = "read" <=> holder = c
            /\ poisoned => holder = None

\* What the device holds of a setting, and what is on its way to it, are documents.
DocsInv == /\ DOMAIN settings \subseteq DOMAIN Settings \cup {"program"}
           /\ \A topic \in DOMAIN settings \cap DOMAIN Settings : IsList(settings[topic])
           /\ IsList(late) /\ \A i \in DOMAIN late : Carried(late[i])
           /\ toDev = <<>> \/ (toDev = <<toDev[1]>> /\ Carried(toDev[1]) /\ toCli = <<>>)
           /\ toCli = <<>> \/ toCli = <<toCli[1]>>

\* That a body is what a command makes of a setting, or of the programs.
Does(cmd, body) ==
  /\ cmd.op = "set" => ParseBody(Rows(cmd.topic), body) = cmd.arg
  /\ cmd.op = "clear" => ParseBody(BootLogo.rows, body) = Default(BootLogo.rows)
  /\ cmd.op = "delete" => \A file \in ToSet(ParseBody(FileList.rows, body).files) :
                             file.name \notin ToSet(cmd.arg)
  /\ cmd.op = "send" => body = ToProgramXml(cmd.arg)

\* The device was given it while the call was under way.
Done(c) == \E body \in held[c].new : Does(call[c], body)

\* A command that is refused.
RefusalOf(cmd) == Wrap(SessionGuid, "out", cmd.method, "kFail", <<>>)

\* What a getter is answered with, and what has been done when a setter is.
AnswerTo(c, doc) ==
  /\ call[c].op = "get" =>
       \/ doc = RefusalOf(call[c])
       \/ \E body \in HeldDuring(c) :
             IsList(body) /\ doc = Wrap(SessionGuid, "out", call[c].method, Success, body)
  /\ call[c].op \in Changes => doc = RefusalOf(call[c]) \/ Done(c)

\* On a sound connection there is nothing but the exchange of the holder.
WireInv == /\ ~poisoned /\ holder = None => toDev = <<>> /\ toCli = <<>>
           /\ \A c \in Callers : holder = c /\ ~poisoned =>
                 /\ toDev # <<>> => toDev[1] = Request(call[c])
                 /\ toCli # <<>> => AnswerTo(c, toCli[1])

\* What a caller was told of a setting the device held.
ReadsTruly(c) ==
  Succeeded(c, "get") =>
     \E body \in HeldDuring(c) : /\ ~Faulty(Rows(call[c].topic), body)
                                 /\ result[c].info = ParseBody(Rows(call[c].topic), body)

\* What a caller was told has been done.
IsDone(c) == result[c].verdict = "ok" /\ call[c].op \in Changes => Done(c)

\* What holds of every caller.
CallerInv(c) == CallInv(c) /\ InfoInv(c) /\ UnderWayInv(c) /\ ReadsTruly(c) /\ IsDone(c)

\* The invariant, inductive.
IInv == TypeInv /\ MutexInv /\ DocsInv /\ WireInv /\ \A c \in Callers : CallerInv(c)

-----------------------------------------------------------------------------
(* The settings.                                                           *)

\* The record of the settings, field by field.
LEMMA SettingsFields ==
  /\ DOMAIN Settings = {"logo", "files", "luminance", "ethernet", "wifi", "server", "switch",
                        "time", "device"}
  /\ Settings["logo"] = BootLogo /\ Settings["files"] = FileList
  /\ Settings["luminance"] = Luminance /\ Settings["ethernet"] = Ethernet
  /\ Settings["wifi"] = Wifi /\ Settings["server"] = Server
  /\ Settings["switch"] = SwitchTime /\ Settings["time"] = Time
  /\ Settings["device"] = DeviceInfo
<1>1. DOMAIN Settings = {"logo", "files", "luminance", "ethernet", "wifi", "server", "switch",
                         "time", "device"}
  BY DEF Settings
<1>2. /\ Settings["logo"] = BootLogo /\ Settings["files"] = FileList
      /\ Settings["luminance"] = Luminance /\ Settings["ethernet"] = Ethernet
      /\ Settings["wifi"] = Wifi
  BY DEF Settings
<1>3. /\ Settings["server"] = Server
      /\ Settings["switch"] = SwitchTime /\ Settings["time"] = Time
      /\ Settings["device"] = DeviceInfo
  BY DEF Settings
<1> QED BY <1>1, <1>2, <1>3

\* The table of every setting is well made.
LEMMA RowsMade ==
  ASSUME NEW topic \in DOMAIN Settings
  PROVE  WellMade(Rows(topic))
BY SettingsFields, BootLogoMade, FileListMade, LuminanceMade, EthernetMade, WifiMade, ServerMade,
   SwitchTimeMade, TimeMade, DeviceInfoMade DEF Rows

\* No two getters ask for the same.
LEMMA GetsDiffer ==
  ASSUME NEW s \in DOMAIN Settings, NEW t \in DOMAIN Settings, Settings[s].get = Settings[t].get
  PROVE  s = t
<1>1. /\ BootLogo.get = "GetBootLogo" /\ FileList.get = "GetFiles"
      /\ Luminance.get = "GetLuminancePloy" /\ Ethernet.get = "GetEth0Info"
  BY DEF BootLogo, FileList, Luminance, Ethernet, Setting
<1>2. /\ Wifi.get = "GetWifiInfo" /\ Server.get = "GetSDKTcpServer"
      /\ SwitchTime.get = "GetSwitchTime" /\ Time.get = "GetTimeInfo"
      /\ DeviceInfo.get = "GetDeviceInfo"
  BY DEF Wifi, Server, SwitchTime, Time, DeviceInfo, Setting
<1> QED BY <1>1, <1>2, SettingsFields

\* The methods of the settings are methods this crate knows.
LEMMA MethodsKnown ==
  \A topic \in DOMAIN Settings : /\ Settings[topic].get # Absent => Settings[topic].get \in Methods
                                 /\ Settings[topic].set # Absent => Settings[topic].set \in Methods
<1>1. \A topic \in DOMAIN Settings :
         {Settings[topic].get, Settings[topic].set} \subseteq Methods \cup {Absent}
  BY CommandsAssumption, Zenon
<1> QED BY <1>1

\* A getter is one ...
LEMMA GetsKnown ==
  ASSUME NEW topic \in DOMAIN Settings
  PROVE  Known(Settings[topic].get) /\ Settings[topic].get # Absent
<1>2. /\ BootLogo.get = "GetBootLogo" /\ FileList.get = "GetFiles"
      /\ Luminance.get = "GetLuminancePloy" /\ Ethernet.get = "GetEth0Info"
  BY DEF BootLogo, FileList, Luminance, Ethernet, Setting
<1>3. /\ Wifi.get = "GetWifiInfo" /\ Server.get = "GetSDKTcpServer"
      /\ SwitchTime.get = "GetSwitchTime" /\ Time.get = "GetTimeInfo"
      /\ DeviceInfo.get = "GetDeviceInfo"
  BY DEF Wifi, Server, SwitchTime, Time, DeviceInfo, Setting
<1>4. Settings[topic].get # Absent
  BY <1>2, <1>3, SettingsFields DEF Absent
<1> QED BY <1>4, MethodsKnown DEF Known

\* ... and so is a setter.
LEMMA SetsKnown ==
  ASSUME NEW topic \in Settable
  PROVE  Known(Settings[topic].set) /\ Settings[topic].set # Absent
<1>1. /\ BootLogo.set = "SetBootLogoName" /\ Luminance.set = "SetLuminancePloy"
      /\ Ethernet.set = "SetEth0Info" /\ Wifi.set = "SetWifiInfo"
  BY DEF BootLogo, Luminance, Ethernet, Wifi, Setting
<1>2. /\ Server.set = "SetSDKTcpServer" /\ SwitchTime.set = "SetSwitchTime"
      /\ Time.set = "SetTimeInfo"
  BY DEF Server, SwitchTime, Time, Setting
<1>3. topic \in {"logo", "luminance", "ethernet", "wifi", "server", "switch", "time"}
  BY SettingsFields DEF Settable
<1>4. Settings[topic].set # Absent
  BY <1>1, <1>2, <1>3, SettingsFields DEF Absent
<1>5. topic \in DOMAIN Settings
  BY DEF Settable
<1> QED BY <1>4, <1>5, MethodsKnown DEF Known

-----------------------------------------------------------------------------
(* Requests are documents.                                                 *)

\* The body of DeleteFiles: an element of every name, between two that are none.
LEMMA DeleteIsInner ==
  ASSUME NEW names, IsList(names)
  PROVE  /\ Inner(DeleteFiles(names))
         /\ \A i \in 1..Len(names) : Empty("file", [name |-> names[i]]) \in ToSet(DeleteFiles(names))
<1> DEFINE f == [i \in DOMAIN names |-> Empty("file", [name |-> names[i]])]
<1> DEFINE first == Open("files", <<>>)
<1> DEFINE last == Close("files")
<1> DEFINE n == Len(names)
<1> DEFINE most == <<first>> \o f
<1> DEFINE body == most \o <<last>>
<1>1. n \in Nat /\ DOMAIN names = 1..n
  BY ListDomain
<1>2. f = [i \in DOMAIN names |-> f[i]] /\ \A i \in 1..n : f[i] = Empty("file", [name |-> names[i]])
  BY <1>1
<1>3. DeleteFiles(names) = body
  BY DEF DeleteFiles
<1>4. ~IsHeader(first) /\ ~IsHeader(last) /\ \A a : ~IsHeader(Empty("file", a))
  BY DEF IsHeader, IsElement, Empty, Open, Close
<1> HIDE DEF f, first, last
<1>5. IsList(f) /\ Len(f) = n
  BY <1>1, <1>2, FunctionIsList
<1>6. \A x : IsList(<<x>>) /\ Len(<<x>>) = 1 /\ <<x>>[1] = x
  BY OneIsList
<1>7. Joins(most, <<first>>, f)
  BY <1>5, <1>6, ConcatIsList
<1> HIDE DEF most
<1>8. IsList(most) /\ Len(most) = 1 + n /\ most[1] = first /\ \A i \in 1..n : most[1 + i] = f[i]
  <2>1. 1 \in 1..1
    OBVIOUS
  <2> QED BY <1>5, <1>6, <1>7, <2>1 DEF Joins
<1>9. Joins(body, most, <<last>>)
  BY <1>6, <1>8, ConcatIsList
<1> HIDE DEF body
<1>10. /\ IsList(body) /\ Len(body) = n + 2
       /\ \A i \in 1..(1 + n) : body[i] = most[i]
       /\ body[(1 + n) + 1] = last
  <2>1. 1 \in 1..1
    OBVIOUS
  <2>2. Len(body) = (1 + n) + 1
    BY <1>6, <1>8, <1>9 DEF Joins
  <2>3. (1 + n) + 1 = n + 2
    BY <1>1
  <2> QED BY <1>6, <1>8, <1>9, <2>1, <2>2, <2>3 DEF Joins
<1>11. ASSUME NEW i \in 1..n PROVE body[i + 1] = Empty("file", [name |-> names[i]])
  <2>1. i + 1 \in 1..(1 + n) /\ 1 + i = i + 1
    BY <1>1
  <2> QED BY <1>2, <1>8, <1>10, <2>1
<1>12. ASSUME NEW k \in 1..(n + 2) PROVE ~IsHeader(body[k])
  <2>1. CASE k = 1
    <3>1. body[1] = first
      BY <1>1, <1>8, <1>10, <2>1
    <3> QED BY <1>4, <2>1, <3>1
  <2>2. CASE k = n + 2
    <3>1. n + 2 = (1 + n) + 1
      BY <1>1
    <3> QED BY <1>4, <1>10, <2>2, <3>1
  <2>3. CASE k # 1 /\ k # n + 2
    <3>1. k - 1 \in 1..n /\ (k - 1) + 1 = k
      BY <1>1, <2>3
    <3>2. body[k] = Empty("file", [name |-> names[k - 1]])
      BY <1>11, <3>1
    <3> QED BY <1>4, <3>2
  <2> QED BY <2>1, <2>2, <2>3
<1>13. Inner(body)
  BY <1>10, <1>12 DEF Inner
<1>14. ASSUME NEW i \in 1..n PROVE Empty("file", [name |-> names[i]]) \in ToSet(body)
  <2>1. i + 1 \in 1..Len(body)
    BY <1>1, <1>10
  <2>2. body[i + 1] \in ToSet(body)
    BY <1>10, <2>1, ListDomain
  <2> QED BY <1>11, <2>2
<1> QED BY <1>3, <1>13, <1>14 DEF n

-----------------------------------------------------------------------------
(* A screen is written as one element.                                     *)

\* An element with two others in it, the second of which has an event in it.
LEMMA NestedText ==
  ASSUME NEW a, NEW b, NEW c, NEW d, NEW e, NEW f, NEW g, NEW h,
         ~IsHeader(a), ~IsHeader(b), ~IsHeader(c), ~IsHeader(d),
         ~IsHeader(e), ~IsHeader(f), ~IsHeader(g), ~IsHeader(h),
         Rise(a) = 1, Rise(b) = 0, Rise(c) = 1, Rise(d) = 0,
         Rise(e) = -1, Rise(f) = 0, Rise(g) = 0, Rise(h) = -1
  PROVE  Nested(<<a, b, c, d, e, f, g, h>>)
<1> DEFINE doc == <<a, b, c, d, e, f, g, h>>
<1> DEFINE at == [k \in 0..8 |-> IF k \in {0, 8} THEN 0 ELSE IF k \in {3, 4} THEN 2 ELSE 1]
<1>1. IsList(doc)
  BY FewAreLists
<1>2. /\ Len(doc) = 8 /\ doc[1] = a /\ doc[2] = b /\ doc[3] = c /\ doc[4] = d
      /\ doc[5] = e /\ doc[6] = f /\ doc[7] = g /\ doc[8] = h
  OBVIOUS
<1>3. \A k \in 1..8 : k = 1 \/ k = 2 \/ k = 3 \/ k = 4 \/ k = 5 \/ k = 6 \/ k = 7 \/ k = 8
  OBVIOUS
<1> HIDE DEF doc
<1>4. Inner(doc)
  BY <1>1, <1>2, <1>3 DEF Inner
<1>5. /\ at[0] = 0 /\ at[1] = 1 /\ at[2] = 1 /\ at[3] = 2 /\ at[4] = 2
      /\ at[5] = 1 /\ at[6] = 1 /\ at[7] = 1 /\ at[8] = 0
  OBVIOUS
<1>6. at \in [0..8 -> Nat]
  OBVIOUS
<1> HIDE DEF at
<1>7. ASSUME NEW k \in 1..8 PROVE at[k] = at[k - 1] + Rise(doc[k])
  <2>1. 1 - 1 = 0 /\ 2 - 1 = 1 /\ 3 - 1 = 2 /\ 4 - 1 = 3 /\ 5 - 1 = 4 /\ 6 - 1 = 5 /\ 7 - 1 = 6
        /\ 8 - 1 = 7
    OBVIOUS
  <2>2. k = 1 => at[k] = at[k - 1] + Rise(doc[k])
    BY <1>2, <1>5, <2>1
  <2>3. k = 2 => at[k] = at[k - 1] + Rise(doc[k])
    BY <1>2, <1>5, <2>1
  <2>4. k = 3 => at[k] = at[k - 1] + Rise(doc[k])
    BY <1>2, <1>5, <2>1
  <2>5. k = 4 => at[k] = at[k - 1] + Rise(doc[k])
    BY <1>2, <1>5, <2>1
  <2>6. k = 5 => at[k] = at[k - 1] + Rise(doc[k])
    BY <1>2, <1>5, <2>1
  <2>7. k = 6 => at[k] = at[k - 1] + Rise(doc[k])
    BY <1>2, <1>5, <2>1
  <2>8. k = 7 => at[k] = at[k - 1] + Rise(doc[k])
    BY <1>2, <1>5, <2>1
  <2>9. k = 8 => at[k] = at[k - 1] + Rise(doc[k])
    BY <1>2, <1>5, <2>1
  <2> QED BY <1>3, <2>2, <2>3, <2>4, <2>5, <2>6, <2>7, <2>8, <2>9
<1>8. Depths(at, doc)
  BY <1>2, <1>5, <1>6, <1>7 DEF Depths
<1> QED BY <1>4, <1>8 DEF Nested, doc

\* An element with three others in it.
LEMMA NestedClock ==
  ASSUME NEW a, NEW b, NEW c, NEW d, NEW e,
         ~IsHeader(a), ~IsHeader(b), ~IsHeader(c), ~IsHeader(d), ~IsHeader(e),
         Rise(a) = 1, Rise(b) = 0, Rise(c) = 0, Rise(d) = 0, Rise(e) = -1
  PROVE  Nested(<<a, b, c, d, e>>)
<1> DEFINE doc == <<a, b, c, d, e>>
<1> DEFINE at == [k \in 0..5 |-> IF k \in {0, 5} THEN 0 ELSE 1]
<1>1. IsList(doc)
  BY FewAreLists
<1>2. /\ Len(doc) = 5 /\ doc[1] = a /\ doc[2] = b /\ doc[3] = c /\ doc[4] = d /\ doc[5] = e
  OBVIOUS
<1>3. \A k \in 1..5 : k = 1 \/ k = 2 \/ k = 3 \/ k = 4 \/ k = 5
  OBVIOUS
<1> HIDE DEF doc
<1>4. Inner(doc)
  BY <1>1, <1>2, <1>3 DEF Inner
<1>5. at[0] = 0 /\ at[1] = 1 /\ at[2] = 1 /\ at[3] = 1 /\ at[4] = 1 /\ at[5] = 0
  OBVIOUS
<1>6. at \in [0..5 -> Nat]
  OBVIOUS
<1> HIDE DEF at
<1>7. ASSUME NEW k \in 1..5 PROVE at[k] = at[k - 1] + Rise(doc[k])
  <2>1. 1 - 1 = 0 /\ 2 - 1 = 1 /\ 3 - 1 = 2 /\ 4 - 1 = 3 /\ 5 - 1 = 4
    OBVIOUS
  <2>2. k = 1 => at[k] = at[k - 1] + Rise(doc[k])
    BY <1>2, <1>5, <2>1
  <2>3. k = 2 => at[k] = at[k - 1] + Rise(doc[k])
    BY <1>2, <1>5, <2>1
  <2>4. k = 3 => at[k] = at[k - 1] + Rise(doc[k])
    BY <1>2, <1>5, <2>1
  <2>5. k = 4 => at[k] = at[k - 1] + Rise(doc[k])
    BY <1>2, <1>5, <2>1
  <2>6. k = 5 => at[k] = at[k - 1] + Rise(doc[k])
    BY <1>2, <1>5, <2>1
  <2> QED BY <1>3, <2>2, <2>3, <2>4, <2>5, <2>6
<1>8. Depths(at, doc)
  BY <1>2, <1>5, <1>6, <1>7 DEF Depths
<1> QED BY <1>4, <1>8 DEF Nested, doc

\* The events of a screen are none of an envelope, and what each does to the depth.
LEMMA EventKinds ==
  ASSUME NEW a, NEW tag, tag \notin {"sdk", "in", "out", "malformed"}, NEW content
  PROVE  /\ ~IsHeader(Open(tag, a)) /\ ~IsHeader(Empty(tag, a)) /\ ~IsHeader(Close(tag))
         /\ ~IsHeader(Text(content))
         /\ Rise(Open(tag, a)) = 1 /\ Rise(Empty(tag, a)) = 0 /\ Rise(Close(tag)) = -1
         /\ Rise(Text(content)) = 0
         /\ Open(tag, a).ev = "start" /\ Empty(tag, a).ev = "empty" /\ Close(tag).ev = "end"
BY DEF IsHeader, IsElement, Open, Empty, Close, Text, Rise

\* What to_program_xml writes of an item ...
LEMMA ItemIsNested ==
  ASSUME NEW item, NEW path
  PROVE  Nested(WriteItem(item, path))
<1>1. Nested(WriteText(item, path))
  <2>1. PICK s, t, u, v, w : WriteText(item, path) =
             <<Open("text", s), Empty("style", t), Open("string", <<>>), Text(u), Close("string"),
               Empty("font", v), Empty("effect", w), Close("text")>>
    BY Zenon DEF WriteText
  <2> QED BY <2>1, EventKinds, NestedText
<1>2. Nested(WriteClock(item, path))
  <2>1. PICK s, t, u, v : WriteClock(item, path) =
             <<Open("clock", s), Empty("time", t), Empty("date", u), Empty("week", v), Close("clock")>>
    BY Zenon DEF WriteClock
  <2> QED BY <2>1, EventKinds, NestedClock
<1> QED BY <1>1, <1>2 DEF WriteItem

\* An empty element before others.
LEMMA NestedAfter ==
  ASSUME NEW e, ~IsHeader(e), e.ev = "empty", NEW t, Nested(t)
  PROVE  Nested(<<e>> \o t)
<1>1. Nested(<<e>>)
  BY NestedOne
<1> QED BY <1>1, NestedJoin

\* A nested document between the events of an area ...
LEMMA NestedArea ==
  ASSUME NEW t, Nested(t), NEW a, NEW b, NEW c, NEW d, NEW e,
         ~IsHeader(a), ~IsHeader(b), ~IsHeader(c), ~IsHeader(d), ~IsHeader(e),
         a.ev = "start", b.ev = "empty", c.ev = "start", d.ev = "end", e.ev = "end"
  PROVE  Nested((<<a, b, c>> \o t) \o <<d, e>>)
<1>1. PICK t1 : t1 = (<<c>> \o t) \o <<d>>
  OBVIOUS
<1>2. Nested(t1)
  BY <1>1, NestedWithin
<1>3. PICK t2 : t2 = <<b>> \o t1
  OBVIOUS
<1>4. Nested(t2)
  BY <1>2, <1>3, NestedAfter
<1>5. Nested((<<a>> \o t2) \o <<e>>)
  BY <1>4, NestedWithin
<1>6. IsList(t)
  BY DEF Nested, Inner
<1>7. (<<a, b, c>> \o t) \o <<d, e>> = (<<a>> \o t2) \o <<e>>
  <2>1. <<a, b, c>> = <<a, b>> \o <<c>> /\ <<a, b>> = <<a>> \o <<b>> /\ <<d, e>> = <<d>> \o <<e>>
    BY RowOfTwo, RowOfThree
  <2>2. PICK p : p = <<a, b>> /\ IsList(p)
    BY FewAreLists
  <2>3. PICK q : q = <<c>> \o t /\ IsList(q)
    BY <1>6, OneIsList, ConcatList
  <2>4. \A x : IsList(<<x>>)
    BY OneIsList
  <2>5. (p \o <<c>>) \o t = p \o q
    <3>1. (p \o <<c>>) \o t = p \o (<<c>> \o t)
      BY <1>6, <2>2, <2>4, JoinAgain
    <3> QED BY <2>3, <3>1
  <2>6. (p \o q) \o (<<d>> \o <<e>>) = (p \o (q \o <<d>>)) \o <<e>>
    <3>1. PICK r : r = <<d>> /\ IsList(r)
      BY <2>4
    <3>2. PICK z : z = <<e>> /\ IsList(z)
      BY <2>4
    <3>3. (p \o q) \o (r \o z) = (p \o (q \o r)) \o z
      BY <2>2, <2>3, <3>1, <3>2, FourInARow
    <3> QED BY <3>1, <3>2, <3>3
  <2>7. t1 = q \o <<d>> /\ IsList(t1)
    BY <1>1, <1>2, <2>3 DEF Nested, Inner
  <2>8. (<<a>> \o <<b>>) \o t1 = <<a>> \o t2
    <3>1. (<<a>> \o <<b>>) \o t1 = <<a>> \o (<<b>> \o t1)
      BY <2>4, <2>7, JoinAgain
    <3> QED BY <1>3, <3>1
  <2> QED BY <2>1, <2>2, <2>5, <2>6, <2>7, <2>8
<1> QED BY <1>5, <1>7

\* ... and of a program.
LEMMA NestedProgram ==
  ASSUME NEW t, Nested(t), NEW a, NEW b, NEW c, ~IsHeader(a), ~IsHeader(b), ~IsHeader(c),
         a.ev = "start", b.ev = "empty", c.ev = "end"
  PROVE  Nested((<<a, b>> \o t) \o <<c>>)
<1>1. PICK t1 : t1 = <<b>> \o t
  OBVIOUS
<1>2. Nested(t1)
  BY <1>1, NestedAfter
<1>3. Nested((<<a>> \o t1) \o <<c>>)
  BY <1>2, NestedWithin
<1>4. IsList(t)
  BY DEF Nested, Inner
<1>5. <<a, b>> \o t = <<a>> \o t1
  <2>1. <<a, b>> = <<a>> \o <<b>> /\ IsList(<<a>>) /\ IsList(<<b>>)
    BY OneIsList, RowOfTwo
  <2>2. (<<a>> \o <<b>>) \o t = <<a>> \o (<<b>> \o t)
    BY <1>4, <2>1, JoinAgain
  <2> QED BY <1>1, <2>1, <2>2
<1> QED BY <1>3, <1>5

\* Nested documents, made of the nodes of a list.
LEMMA ChildrenAreNested ==
  ASSUME NEW s, IsList(s), NEW f, f = [i \in DOMAIN s |-> f[i]],
         \A i \in DOMAIN s : Nested(f[i])
  PROVE  IsList(f) /\ Len(f) = Len(s) /\ Nested(FlattenSeq(f)) /\ IsList(FlattenSeq(f))
<1>1. Len(s) \in Nat /\ DOMAIN s = 1..Len(s)
  BY ListDomain
<1>2. IsList(f) /\ Len(f) = Len(s)
  BY <1>1, FunctionIsList
<1>3. Nested(FlattenSeq(f))
  BY <1>1, <1>2, NestedFlat
<1> QED BY <1>2, <1>3 DEF Nested, Inner

\* The children of an area, ...
AreaParts(area, path) == [i \in DOMAIN area.items |-> WriteItem(area.items[i], Append(path, i - 1))]

\* What is written of an area is nested, ...
LEMMA AreaIsNested ==
  ASSUME NEW area, IsList(area.items), NEW path
  PROVE  Nested(WriteArea(area, path))
<1> DEFINE f == AreaParts(area, path)
<1>1. f = [i \in DOMAIN area.items |-> f[i]] /\ \A i \in DOMAIN area.items : Nested(f[i])
  BY ItemIsNested DEF AreaParts
<1>2. PICK s, t, u : WriteArea(area, path) =
             (<<Open("area", s), Empty("rectangle", t), Open("resources", u)>> \o FlattenSeq(f))
                \o <<Close("resources"), Close("area")>>
  BY Zenon DEF WriteArea, Children, AreaParts
<1> HIDE DEF f
<1> DEFINE t0 == FlattenSeq(f)
<1>3. Nested(t0)
  BY <1>1, ChildrenAreNested
<1> HIDE DEF t0
<1>4. Nested((<<Open("area", s), Empty("rectangle", t), Open("resources", u)>> \o t0)
               \o <<Close("resources"), Close("area")>>)
  BY <1>3, EventKinds, NestedArea
<1> QED BY <1>2, <1>4 DEF t0

\* ... those of a program ...
ProgramParts(program, n) == [j \in DOMAIN program.areas |-> WriteArea(program.areas[j], <<n, j - 1>>)]

\* ... and of a program.
LEMMA ProgramIsNested ==
  ASSUME NEW program, IsList(program.areas), \A area \in ToSet(program.areas) : IsList(area.items), NEW n
  PROVE  Nested(WriteProgram(program, n))
<1> DEFINE f == ProgramParts(program, n)
<1>1. f = [j \in DOMAIN program.areas |-> f[j]]
  BY DEF ProgramParts
<1>2. ASSUME NEW j \in DOMAIN program.areas PROVE Nested(f[j])
  <2>1. program.areas[j] \in ToSet(program.areas)
    BY DEF ToSet
  <2> QED BY <2>1, AreaIsNested DEF ProgramParts
<1>3. PICK s, t : WriteProgram(program, n) =
             (<<Open("program", s), Empty("playControl", t)>> \o FlattenSeq(f)) \o <<Close("program")>>
  BY Zenon DEF WriteProgram, Children, ProgramParts, PlayControl
<1> HIDE DEF f
<1> DEFINE t0 == FlattenSeq(f)
<1>4. Nested(t0)
  BY <1>1, <1>2, ChildrenAreNested
<1> HIDE DEF t0
<1>5. Nested((<<Open("program", s), Empty("playControl", t)>> \o t0) \o <<Close("program")>>)
  BY <1>4, EventKinds, NestedProgram
<1> QED BY <1>3, <1>5 DEF t0

\* ... and those of a screen.
ScreenParts(screen) == [i \in DOMAIN screen |-> WriteProgram(screen[i], i - 1)]

\* What is written of a screen is one element.
LEMMA ScreenIsWithin ==
  ASSUME NEW screen, IsScreen(screen)
  PROVE  \E t : Within(ToProgramXml(screen), Open("screen", <<>>), t, Close("screen"))
<1> DEFINE f == ScreenParts(screen)
<1>1. f = [i \in DOMAIN screen |-> f[i]]
  BY DEF ScreenParts
<1>2. ASSUME NEW i \in DOMAIN screen PROVE Nested(f[i])
  <2>1. screen[i] \in ToSet(screen)
    BY DEF ToSet
  <2>2. /\ IsList(screen[i].areas)
        /\ \A area \in ToSet(screen[i].areas) : IsList(area.items)
    BY <2>1 DEF IsScreen, Siblings
  <2> QED BY <2>2, ProgramIsNested DEF ScreenParts
<1>3. ToProgramXml(screen) = (<<Open("screen", <<>>)>> \o FlattenSeq(f)) \o <<Close("screen")>>
  BY Zenon DEF ToProgramXml, Children, ScreenParts
<1> HIDE DEF f
<1>4. Nested(FlattenSeq(f))
  BY <1>1, <1>2, ChildrenAreNested DEF IsScreen, Siblings
<1>5. Within((<<Open("screen", <<>>)>> \o FlattenSeq(f)) \o <<Close("screen")>>,
             Open("screen", <<>>), FlattenSeq(f), Close("screen"))
  BY <1>4, EventKinds, NestedWithin
<1> QED BY <1>3, <1>5

-----------------------------------------------------------------------------
(* What is written says what the screen is made of.                        *)

\* What an event says is a list.
LEMMA SaysIsList ==
  ASSUME NEW e, NEW what
  PROVE  IsList(Says(e, what))
<1>1. ASSUME NEW p, NEW x PROVE IsList(IF p THEN <<x>> ELSE <<>>)
  BY OneIsList, NoneIsList
<1>2. CASE what = "text"
  BY <1>1, <1>2 DEF Says
<1>3. CASE what = "guid"
  BY <1>1, <1>3 DEF Says
<1>4. CASE what \notin {"text", "guid"}
  BY <1>1, <1>4 DEF Says
<1> QED BY <1>2, <1>3, <1>4

\* What a document says is made of what its events say.
LEMMA ColumnIs ==
  ASSUME NEW xml, IsList(xml), NEW what
  PROVE  LET ss == [k \in DOMAIN xml |-> Says(xml[k], what)] IN
         /\ IsList(ss) /\ Len(ss) = Len(xml)
         /\ \A k \in 1..Len(xml) : ss[k] = Says(xml[k], what) /\ IsList(ss[k])
         /\ Column(xml, what) = FlattenSeq(ss)
<1> DEFINE ss == [k \in DOMAIN xml |-> Says(xml[k], what)]
<1>1. Len(xml) \in Nat /\ DOMAIN xml = 1..Len(xml)
  BY ListDomain
<1>2. ss = [k \in 1..Len(xml) |-> ss[k]] /\ \A k \in 1..Len(xml) : ss[k] = Says(xml[k], what)
  BY <1>1
<1>3. Column(xml, what) = FlattenSeq(ss)
  BY DEF Column
<1> HIDE DEF ss
<1>4. IsList(ss) /\ Len(ss) = Len(xml)
  BY <1>1, <1>2, FunctionIsList
<1> QED BY <1>2, <1>3, <1>4, SaysIsList DEF ss

\* A document of which all events but one say nothing.
LEMMA ColumnOfSingle ==
  ASSUME NEW xml, IsList(xml), NEW what, NEW k \in 1..Len(xml),
         \A i \in 1..Len(xml) : i # k => Says(xml[i], what) = <<>>
  PROVE  Column(xml, what) = Says(xml[k], what)
<1> DEFINE ss == [i \in DOMAIN xml |-> Says(xml[i], what)]
<1>1. /\ IsList(ss) /\ Len(ss) = Len(xml)
      /\ \A i \in 1..Len(xml) : ss[i] = Says(xml[i], what) /\ IsList(ss[i])
      /\ Column(xml, what) = FlattenSeq(ss)
  BY ColumnIs
<1> HIDE DEF ss
<1> QED BY <1>1, FlatOfSingle

\* What a document says ...
LEMMA ColumnIsList ==
  ASSUME NEW xml, IsList(xml), NEW what
  PROVE  IsList(Column(xml, what))
<1> DEFINE ss == [i \in DOMAIN xml |-> Says(xml[i], what)]
<1>1. /\ IsList(ss) /\ Len(ss) = Len(xml)
      /\ \A i \in 1..Len(xml) : IsList(ss[i])
      /\ Column(xml, what) = FlattenSeq(ss)
  BY ColumnIs
<1> HIDE DEF ss
<1> QED BY <1>1, FlatIsList

\* ... and after it another one ...
LEMMA ColumnJoin ==
  ASSUME NEW s, IsList(s), NEW t, IsList(t), NEW what
  PROVE  Column(s \o t, what) = Column(s, what) \o Column(t, what)
<1> DEFINE a == [i \in DOMAIN s |-> Says(s[i], what)]
<1> DEFINE b == [i \in DOMAIN t |-> Says(t[i], what)]
<1> DEFINE u == s \o t
<1> DEFINE c == [i \in DOMAIN u |-> Says(u[i], what)]
<1>1. /\ IsList(a) /\ Len(a) = Len(s)
      /\ \A i \in 1..Len(s) : a[i] = Says(s[i], what) /\ IsList(a[i])
      /\ Column(s, what) = FlattenSeq(a)
  BY ColumnIs
<1>2. /\ IsList(b) /\ Len(b) = Len(t)
      /\ \A i \in 1..Len(t) : b[i] = Says(t[i], what) /\ IsList(b[i])
      /\ Column(t, what) = FlattenSeq(b)
  BY ColumnIs
<1>3. Joins(u, s, t)
  BY ConcatIsList
<1> HIDE DEF u
<1>4. IsList(u) /\ Len(u) = Len(s) + Len(t)
      /\ (\A i \in 1..Len(s) : u[i] = s[i]) /\ \A i \in 1..Len(t) : u[Len(s) + i] = t[i]
  BY <1>3 DEF Joins
<1>5. /\ IsList(c) /\ Len(c) = Len(u)
      /\ \A i \in 1..Len(u) : c[i] = Says(u[i], what)
      /\ Column(u, what) = FlattenSeq(c)
  BY <1>4, ColumnIs
<1> HIDE DEF a, b, c
<1>6. Joins(a \o b, a, b)
  BY <1>1, <1>2, ConcatIsList
<1> DEFINE d == a \o b
<1>7. IsList(d) /\ Len(d) = Len(a) + Len(b)
      /\ (\A i \in 1..Len(a) : d[i] = a[i]) /\ \A i \in 1..Len(b) : d[Len(a) + i] = b[i]
  BY <1>6 DEF Joins
<1> HIDE DEF d
<1>8. Len(s) \in Nat /\ Len(t) \in Nat /\ Len(c) \in Nat
  BY <1>5, ListDomain
<1>9. ASSUME NEW i \in 1..Len(c) PROVE c[i] = d[i]
  <2>1. CASE i <= Len(s)
    <3>1. i \in 1..Len(s) /\ i \in 1..Len(a) /\ i \in 1..Len(u)
      BY <1>1, <1>5, <1>8, <2>1
    <3> QED BY <1>1, <1>4, <1>5, <1>7, <3>1
  <2>2. CASE i > Len(s)
    <3> DEFINE k == i - Len(s)
    <3>1. k \in 1..Len(t) /\ k \in 1..Len(b) /\ i \in 1..Len(u) /\ i = Len(s) + k /\ i = Len(a) + k
      BY <1>1, <1>2, <1>4, <1>5, <1>8, <2>2
    <3> HIDE DEF k
    <3>2. c[i] = Says(u[i], what) /\ u[i] = t[k]
      BY <1>4, <1>5, <3>1
    <3>3. d[i] = b[k] /\ b[k] = Says(t[k], what)
      BY <1>2, <1>7, <3>1
    <3> QED BY <3>2, <3>3
  <2> QED BY <1>8, <2>1, <2>2
<1>10. c = d
  <2>1. Len(c) = Len(d)
    BY <1>1, <1>2, <1>4, <1>5, <1>7
  <2>2. DOMAIN c = 1..Len(c) /\ DOMAIN d = 1..Len(d)
    BY <1>5, <1>7, ListDomain
  <2>3. c = [i \in 1..Len(c) |-> c[i]] /\ d = [i \in 1..Len(d) |-> d[i]]
    <3>1. c \in Seq(ToSet(c)) /\ d \in Seq(ToSet(d))
      BY <1>5, <1>7 DEF IsList
    <3> QED BY <2>2, <3>1
  <2> QED BY <1>9, <2>1, <2>3
<1>11. FlattenSeq(d) = FlattenSeq(a) \o FlattenSeq(b)
  BY <1>1, <1>2, FlatJoin DEF d
<1> QED BY <1>1, <1>2, <1>5, <1>10, <1>11 DEF u

\* ... and of documents one after another.
LEMMA ColumnFlat ==
  ASSUME NEW ss, IsList(ss), \A i \in 1..Len(ss) : IsList(ss[i]), NEW what,
         NEW tt, IsList(tt), Len(tt) = Len(ss), \A i \in 1..Len(ss) : tt[i] = Column(ss[i], what)
  PROVE  Column(FlattenSeq(ss), what) = FlattenSeq(tt)
<1> DEFINE n == Len(ss)
<1> DEFINE S == UNION {ToSet(ss[i]) : i \in 1..Len(ss)}
<1>1. PICK f : Flattens(f, ss, S) /\ FlattenSeq(ss) = f[Len(ss)]
  BY FlatSteps
<1>2. n \in Nat
  BY DEF IsList
<1> HIDE DEF S
<1>3. /\ f \in [0..n -> Seq(S)] /\ f[0] = <<>>
      /\ \A i \in 1..n : f[i] = f[i - 1] \o ss[i]
  BY <1>1 DEF Flattens
<1> DEFINE g == [i \in 0..n |-> Column(f[i], what)]
<1>4. g[0] = <<>>
  <2>1. Column(<<>>, what) = <<>>
    <3> DEFINE none == <<>>
    <3> DEFINE cc == [i \in DOMAIN none |-> Says(none[i], what)]
    <3>1. IsList(cc) /\ Len(cc) = Len(none) /\ Column(none, what) = FlattenSeq(cc)
      BY NoneIsList, ColumnIs
    <3>2. Len(none) = 0
      OBVIOUS
    <3> HIDE DEF none, cc
    <3>3. \A i \in 1..Len(cc) : cc[i] = <<>>
      BY <3>1, <3>2
    <3> QED BY <3>1, <3>3, FlatOfEmpty DEF none
  <2>2. g[0] = Column(f[0], what)
    BY <1>2
  <2> HIDE DEF g
  <2> QED BY <1>3, <2>1, <2>2
<1>5. ASSUME NEW i \in 1..n PROVE g[i] = g[i - 1] \o tt[i] /\ IsList(tt[i])
  <2>1. i \in 0..n /\ i - 1 \in 0..n
    BY <1>2
  <2>2. g[i] = Column(f[i], what) /\ g[i - 1] = Column(f[i - 1], what)
    BY <2>1
  <2> HIDE DEF g, n
  <2>3. IsList(f[i - 1]) /\ IsList(ss[i])
    <3>1. f[i - 1] \in Seq(S)
      BY <1>3, <2>1
    <3> QED BY <3>1, SeqIsList DEF n
  <2>4. Column(f[i], what) = Column(f[i - 1], what) \o Column(ss[i], what)
    <3>1. Column(f[i - 1] \o ss[i], what) = Column(f[i - 1], what) \o Column(ss[i], what)
      BY <2>3, ColumnJoin
    <3>2. f[i] = f[i - 1] \o ss[i]
      BY <1>3
    <3> QED BY <3>1, <3>2
  <2>5. tt[i] = Column(ss[i], what)
    BY DEF n
  <2>6. IsList(tt[i])
    BY <2>3, <2>5, ColumnIsList
  <2> QED BY <2>2, <2>4, <2>5, <2>6
<1> HIDE DEF g
<1>6. FlattenSeq(tt) = g[Len(tt)]
  BY <1>4, <1>5, FlatIs
<1> QED BY <1>1, <1>2, <1>6 DEF g

\* A document of which no event says anything.
LEMMA ColumnOfNothing ==
  ASSUME NEW xml, IsList(xml), NEW what, \A i \in 1..Len(xml) : Says(xml[i], what) = <<>>
  PROVE  Column(xml, what) = <<>>
<1> DEFINE ss == [i \in DOMAIN xml |-> Says(xml[i], what)]
<1>1. /\ IsList(ss) /\ Len(ss) = Len(xml)
      /\ \A i \in 1..Len(xml) : ss[i] = Says(xml[i], what)
      /\ Column(xml, what) = FlattenSeq(ss)
  BY ColumnIs
<1> HIDE DEF ss
<1> QED BY <1>1, FlatOfEmpty

\* What says of which thing nothing, and what something.
LEMMA WhoSays ==
  ASSUME NEW e
  PROVE  /\ e.tag # "program" \/ "name" \notin DOMAIN e.attrs => Says(e, "name") = <<>>
         /\ e.tag = "program" /\ "name" \in DOMAIN e.attrs => Says(e, "name") = <<e.attrs.name>>
         /\ e.tag # "rectangle" \/ "width" \notin DOMAIN e.attrs => Says(e, "width") = <<>>
         /\ e.tag = "rectangle" /\ "width" \in DOMAIN e.attrs => Says(e, "width") = <<e.attrs.width>>
         /\ e.tag # "effect" \/ "duration" \notin DOMAIN e.attrs => Says(e, "duration") = <<>>
         /\ e.tag = "effect" /\ "duration" \in DOMAIN e.attrs =>
              Says(e, "duration") = <<e.attrs.duration>>
         /\ e.ev # "text" => Says(e, "text") = <<>>
         /\ e.ev = "text" => Says(e, "text") = <<e.tag>>
         /\ "guid" \notin DOMAIN e.attrs => Says(e, "guid") = <<>>
         /\ "guid" \in DOMAIN e.attrs => Says(e, "guid") = <<e.attrs.guid>>
<1>1. Bearer.name = "program" /\ Bearer.width = "rectangle" /\ Bearer.duration = "effect"
  BY DEF Bearer
<1> QED BY <1>1 DEF Says

\* The parts of an event.
LEMMA EventParts ==
  ASSUME NEW tag, NEW a, NEW content
  PROVE  /\ Open(tag, a).ev = "start" /\ Open(tag, a).tag = tag /\ Open(tag, a).attrs = a
         /\ Empty(tag, a).ev = "empty" /\ Empty(tag, a).tag = tag /\ Empty(tag, a).attrs = a
         /\ Close(tag).ev = "end" /\ Close(tag).tag = tag /\ Close(tag).attrs = <<>>
         /\ Text(content).ev = "text" /\ Text(content).tag = content /\ Text(content).attrs = <<>>
         /\ DOMAIN <<>> = {}
BY DEF Open, Empty, Close, Text

\* What is said of a text, ...
LEMMA TextSays ==
  ASSUME NEW item, NEW path
  PROVE  LET xml == WriteText(item, path) IN
         /\ Column(xml, "name") = <<>> /\ Column(xml, "width") = <<>>
         /\ Column(xml, "text") = <<item.text>>
         /\ Column(xml, "duration") = <<ToString(HoldDs(item.config.hold_secs))>>
         /\ Column(xml, "guid") = <<Guid("text", path)>>
<1> DEFINE c == item.config
<1> DEFINE a1 == [guid |-> Guid("text", path), singleLine |-> BoolStr(c.effect \in ContinuousScroll)]
<1> DEFINE a2 == [align |-> HAligns[c.h_align], valign |-> VAligns[c.v_align]]
<1> DEFINE a6 == [name |-> c.font_name, size |-> ToString(c.font_size), color |-> c.color,
                  bold |-> BoolStr(c.bold), italic |-> BoolStr(c.italic),
                  underline |-> BoolStr(c.underline)]
<1> DEFINE a7 == [in |-> ToString(EffectCode[c.effect]), inSpeed |-> ToString(c.speed),
                  out |-> ToString(EffectCode[c.out_effect]), outSpeed |-> ToString(c.speed),
                  duration |-> ToString(HoldDs(c.hold_secs))]
<1> DEFINE xml == WriteText(item, path)
<1>1. xml = <<Open("text", a1), Empty("style", a2), Open("string", <<>>), Text(item.text),
              Close("string"), Empty("font", a6), Empty("effect", a7), Close("text")>>
  BY Zenon DEF WriteText
<1>2. /\ "guid" \in DOMAIN a1 /\ a1.guid = Guid("text", path)
      /\ "guid" \notin DOMAIN a2 /\ "guid" \notin DOMAIN a6 /\ "guid" \notin DOMAIN a7
      /\ "duration" \in DOMAIN a7 /\ a7.duration = ToString(HoldDs(item.config.hold_secs))
  OBVIOUS
<1> HIDE DEF a1, a2, a6, a7, xml
<1>3. /\ IsList(xml) /\ Len(xml) = 8
      /\ xml[1] = Open("text", a1) /\ xml[2] = Empty("style", a2) /\ xml[3] = Open("string", <<>>)
      /\ xml[4] = Text(item.text) /\ xml[5] = Close("string") /\ xml[6] = Empty("font", a6)
      /\ xml[7] = Empty("effect", a7) /\ xml[8] = Close("text")
  BY <1>1, FewAreLists
<1>4. \A k \in 1..8 : k = 1 \/ k = 2 \/ k = 3 \/ k = 4 \/ k = 5 \/ k = 6 \/ k = 7 \/ k = 8
  OBVIOUS
<1>5. xml[1].ev = "start" /\ xml[1].tag = "text" /\ xml[1].attrs = a1
  BY <1>3, EventParts
<1>6. xml[2].ev = "empty" /\ xml[2].tag = "style" /\ xml[2].attrs = a2
  BY <1>3 DEF Empty
<1>7. xml[3].ev = "start" /\ xml[3].tag = "string" /\ DOMAIN xml[3].attrs = {}
  BY <1>3, EventParts
<1>8. xml[4].ev = "text" /\ xml[4].tag = item.text /\ DOMAIN xml[4].attrs = {}
  BY <1>3, EventParts
<1>9. xml[5].ev = "end" /\ xml[5].tag = "string" /\ DOMAIN xml[5].attrs = {}
  BY <1>3, EventParts
<1>10. xml[6].ev = "empty" /\ xml[6].tag = "font" /\ xml[6].attrs = a6
  BY <1>3 DEF Empty
<1>11. xml[7].ev = "empty" /\ xml[7].tag = "effect" /\ xml[7].attrs = a7
  BY <1>3, EventParts
<1>12. xml[8].ev = "end" /\ xml[8].tag = "text" /\ DOMAIN xml[8].attrs = {}
  BY <1>3, EventParts
<1>13. Column(xml, "name") = <<>>
  <2>1. \A k \in 1..8 : xml[k].tag # "program" \/ "name" \notin DOMAIN xml[k].attrs
    BY <1>4, <1>5, <1>6, <1>7, <1>8, <1>9, <1>10, <1>11, <1>12
  <2>2. \A k \in 1..8 : Says(xml[k], "name") = <<>>
    BY <2>1, WhoSays
  <2> QED BY <1>3, <2>2, ColumnOfNothing
<1>14. Column(xml, "width") = <<>>
  <2>1. \A k \in 1..8 : xml[k].tag # "rectangle" \/ "width" \notin DOMAIN xml[k].attrs
    BY <1>4, <1>5, <1>6, <1>7, <1>8, <1>9, <1>10, <1>11, <1>12
  <2>2. \A k \in 1..8 : Says(xml[k], "width") = <<>>
    BY <2>1, WhoSays
  <2> QED BY <1>3, <2>2, ColumnOfNothing
<1>15. Column(xml, "text") = <<item.text>>
  <2>1. \A k \in 1..8 : k # 4 => xml[k].ev # "text"
    BY <1>4, <1>5, <1>6, <1>7, <1>9, <1>10, <1>11, <1>12
  <2>2. \A k \in 1..8 : k # 4 => Says(xml[k], "text") = <<>>
    BY <2>1, WhoSays
  <2>3. Says(xml[4], "text") = <<item.text>>
    BY <1>8, WhoSays
  <2>4. 4 \in 1..Len(xml) /\ \A i \in 1..Len(xml) : i # 4 => Says(xml[i], "text") = <<>>
    BY <1>3, <2>2
  <2> QED BY <1>3, <2>3, <2>4, ColumnOfSingle, Zenon
<1>16. Column(xml, "duration") = <<a7.duration>>
  <2>1. \A k \in 1..8 : k # 7 => xml[k].tag # "effect" \/ "duration" \notin DOMAIN xml[k].attrs
    BY <1>4, <1>5, <1>6, <1>7, <1>8, <1>9, <1>10, <1>12
  <2>2. \A k \in 1..8 : k # 7 => Says(xml[k], "duration") = <<>>
    BY <2>1, WhoSays
  <2>3. Says(xml[7], "duration") = <<a7.duration>>
    BY <1>2, <1>11, WhoSays
  <2>4. 7 \in 1..Len(xml) /\ \A i \in 1..Len(xml) : i # 7 => Says(xml[i], "duration") = <<>>
    BY <1>3, <2>2
  <2> QED BY <1>3, <2>3, <2>4, ColumnOfSingle, Zenon
<1>17. Column(xml, "guid") = <<a1.guid>>
  <2>1. \A k \in 1..8 : k # 1 => "guid" \notin DOMAIN xml[k].attrs
    BY <1>2, <1>4, <1>6, <1>7, <1>8, <1>9, <1>10, <1>11, <1>12
  <2>2. \A k \in 1..8 : k # 1 => Says(xml[k], "guid") = <<>>
    BY <2>1, WhoSays
  <2>3. Says(xml[1], "guid") = <<a1.guid>>
    BY <1>2, <1>5, WhoSays
  <2>4. 1 \in 1..Len(xml) /\ \A i \in 1..Len(xml) : i # 1 => Says(xml[i], "guid") = <<>>
    BY <1>3, <2>2
  <2> QED BY <1>3, <2>3, <2>4, ColumnOfSingle, Zenon
<1> QED BY <1>2, <1>13, <1>14, <1>15, <1>16, <1>17 DEF xml

\* ... of a clock ...
LEMMA ClockSays ==
  ASSUME NEW item, NEW path
  PROVE  LET xml == WriteClock(item, path) IN
         /\ Column(xml, "name") = <<>> /\ Column(xml, "width") = <<>>
         /\ Column(xml, "text") = <<>> /\ Column(xml, "duration") = <<>>
         /\ Column(xml, "guid") = <<Guid("clock", path)>>
<1> DEFINE c == item.config
<1> DEFINE a1 == [guid |-> Guid("clock", path), type |-> "0", multiLine |-> BoolStr(c.multi_line)]
<1> DEFINE a2 == [display |-> BoolStr(c.show_time), color |-> c.time_color,
                  format |-> ToString(TimeFormatCode[c.time_format])]
<1> DEFINE a3 == [display |-> BoolStr(c.show_date), color |-> c.date_color]
<1> DEFINE a4 == [display |-> BoolStr(c.show_week), color |-> c.week_color]
<1> DEFINE xml == WriteClock(item, path)
<1>1. xml = <<Open("clock", a1), Empty("time", a2), Empty("date", a3), Empty("week", a4), Close("clock")>>
  BY Zenon DEF WriteClock
<1>2. /\ "guid" \in DOMAIN a1 /\ a1.guid = Guid("clock", path)
      /\ "guid" \notin DOMAIN a2 /\ "guid" \notin DOMAIN a3 /\ "guid" \notin DOMAIN a4
  OBVIOUS
<1> HIDE DEF a1, a2, a3, a4, xml
<1>3. /\ IsList(xml) /\ Len(xml) = 5
      /\ xml[1] = Open("clock", a1) /\ xml[2] = Empty("time", a2) /\ xml[3] = Empty("date", a3)
      /\ xml[4] = Empty("week", a4) /\ xml[5] = Close("clock")
  BY <1>1, FewAreLists
<1>4. \A k \in 1..5 : k = 1 \/ k = 2 \/ k = 3 \/ k = 4 \/ k = 5
  OBVIOUS
<1>5. xml[1].ev = "start" /\ xml[1].tag = "clock" /\ xml[1].attrs = a1
  BY <1>3 DEF Open
<1>6. xml[2].ev = "empty" /\ xml[2].tag = "time" /\ xml[2].attrs = a2
  BY <1>3 DEF Empty
<1>7. xml[3].ev = "empty" /\ xml[3].tag = "date" /\ xml[3].attrs = a3
  BY <1>3 DEF Empty
<1>8. xml[4].ev = "empty" /\ xml[4].tag = "week" /\ xml[4].attrs = a4
  BY <1>3 DEF Empty
<1>9. xml[5].ev = "end" /\ xml[5].tag = "clock" /\ DOMAIN xml[5].attrs = {}
  BY <1>3, EventParts
<1>10. \A k \in 1..5 : xml[k].ev # "text" /\ xml[k].tag \notin {"program", "rectangle", "effect"}
  BY <1>4, <1>5, <1>6, <1>7, <1>8, <1>9
<1>11. ASSUME NEW what \in {"name", "width", "text", "duration"} PROVE Column(xml, what) = <<>>
  <2>1. \A k \in 1..Len(xml) : Says(xml[k], what) = <<>>
    BY <1>3, <1>10, WhoSays
  <2> QED BY <1>3, <2>1, ColumnOfNothing
<1>12. Column(xml, "guid") = <<a1.guid>>
  <2>1. \A k \in 1..5 : k # 1 => "guid" \notin DOMAIN xml[k].attrs
    BY <1>2, <1>4, <1>6, <1>7, <1>8, <1>9
  <2>2. \A k \in 1..5 : k # 1 => Says(xml[k], "guid") = <<>>
    BY <2>1, WhoSays
  <2>3. Says(xml[1], "guid") = <<a1.guid>>
    BY <1>2, <1>5, WhoSays
  <2>4. 1 \in 1..Len(xml) /\ \A i \in 1..Len(xml) : i # 1 => Says(xml[i], "guid") = <<>>
    BY <1>3, <2>2
  <2> QED BY <1>3, <2>3, <2>4, ColumnOfSingle, Zenon
<1> QED BY <1>2, <1>11, <1>12 DEF xml

\* ... and so of an item.
LEMMA ItemSays ==
  ASSUME NEW item, NEW path
  PROVE  LET xml == WriteItem(item, path) IN
         /\ Column(xml, "name") = <<>> /\ Column(xml, "width") = <<>>
         /\ Column(xml, "text") = IF item.is = "text" THEN <<item.text>> ELSE <<>>
         /\ Column(xml, "duration") =
              IF item.is = "text" THEN <<ToString(HoldDs(item.config.hold_secs))>> ELSE <<>>
         /\ \E kind \in {"text", "clock"} : Column(xml, "guid") = <<Guid(kind, path)>>
<1>1. CASE item.is = "text"
  <2>1. WriteItem(item, path) = WriteText(item, path)
    BY <1>1 DEF WriteItem
  <2> QED BY <1>1, <2>1, TextSays
<1>2. CASE item.is # "text"
  <2>1. WriteItem(item, path) = WriteClock(item, path)
    BY <1>2 DEF WriteItem
  <2> QED BY <1>2, <2>1, ClockSays
<1> QED BY <1>1, <1>2

\* What may be said.
Things == {"name", "width", "text", "duration", "guid"}

\* Events that say nothing.
LEMMA Silent ==
  ASSUME NEW e, e.ev # "text", DOMAIN e.attrs = {}, NEW what \in Things
  PROVE  Says(e, what) = <<>>
BY WhoSays DEF Things

\* Such are those at the end of an element and at the beginning of a screen.
LEMMA EndsAreSilent ==
  ASSUME NEW a, NEW b, NEW what \in Things
  PROVE  Column(<<Close(a), Close(b)>>, what) = <<>> /\ Column(<<Close(a)>>, what) = <<>>
         /\ Column(<<Open(a, <<>>)>>, what) = <<>>
<1>1. \A x : Says(Close(x), what) = <<>> /\ Says(Open(x, <<>>), what) = <<>>
  BY EventParts, Silent
<1>2. ASSUME NEW e, Says(e, what) = <<>> PROVE Column(<<e>>, what) = <<>>
  <2> DEFINE xml == <<e>>
  <2>1. IsList(xml) /\ Len(xml) = 1 /\ xml[1] = e
    BY OneIsList
  <2> HIDE DEF xml
  <2>2. \A k \in 1..Len(xml) : k = 1
    BY <2>1
  <2>3. Column(xml, what) = <<>>
    BY <1>2, <2>1, <2>2, ColumnOfNothing
  <2> QED BY <2>3 DEF xml
<1>3. Column(<<Close(a), Close(b)>>, what) = <<>>
  <2> DEFINE xml == <<Close(a), Close(b)>>
  <2>1. IsList(xml) /\ Len(xml) = 2 /\ xml[1] = Close(a) /\ xml[2] = Close(b)
    BY FewAreLists
  <2> HIDE DEF xml
  <2>2. \A k \in 1..Len(xml) : k = 1 \/ k = 2
    BY <2>1
  <2>3. Column(xml, what) = <<>>
    BY <1>1, <2>1, <2>2, ColumnOfNothing
  <2> QED BY <2>3 DEF xml
<1> QED BY <1>1, <1>2, <1>3

\* What documents say, each on its own.
Columns(f, what) == [k \in DOMAIN f |-> Column(f[k], what)]

\* They are lists, as many as there are documents.
LEMMA ColumnsAre ==
  ASSUME NEW f, IsList(f), \A k \in 1..Len(f) : IsList(f[k]), NEW what
  PROVE  /\ IsList(Columns(f, what)) /\ Len(Columns(f, what)) = Len(f)
         /\ \A k \in 1..Len(f) : Columns(f, what)[k] = Column(f[k], what) /\ IsList(Columns(f, what)[k])
         /\ IsList(FlattenSeq(Columns(f, what)))
<1> DEFINE tt == Columns(f, what)
<1>1. Len(f) \in Nat /\ DOMAIN f = 1..Len(f)
  BY ListDomain
<1>2. tt = [k \in 1..Len(f) |-> tt[k]] /\ \A k \in 1..Len(f) : tt[k] = Column(f[k], what)
  BY <1>1 DEF Columns
<1> HIDE DEF tt
<1>3. IsList(tt) /\ Len(tt) = Len(f)
  BY <1>1, <1>2, FunctionIsList
<1>4. \A k \in 1..Len(f) : IsList(tt[k])
  BY <1>2, ColumnIsList
<1>5. IsList(FlattenSeq(tt))
  BY <1>3, <1>4, FlatIsList
<1> QED BY <1>2, <1>3, <1>4, <1>5 DEF tt

\* What two documents in a chain say.
LEMMA ColumnChain ==
  ASSUME NEW s, IsList(s), NEW t, IsList(t), NEW what
  PROVE  Column(Chain(s, t), what) = Chain(Column(s, what), Column(t, what))
BY ColumnJoin DEF Chain

\* Documents between a beginning and an end that says nothing.
LEMMA ColumnBetween ==
  ASSUME NEW h, IsList(h), NEW z, IsList(z), NEW what, Column(z, what) = <<>>,
         NEW f, IsList(f), \A k \in 1..Len(f) : IsList(f[k])
  PROVE  Column(Chain(Chain(h, FlattenSeq(f)), z), what)
           = Chain(Column(h, what), FlattenSeq(Columns(f, what)))
<1> DEFINE tt == Columns(f, what)
<1>1. IsList(tt) /\ Len(tt) = Len(f) /\ \A k \in 1..Len(f) : tt[k] = Column(f[k], what)
  BY ColumnsAre
<1>2. PICK t : t = FlattenSeq(f) /\ IsList(t)
  BY FlatIsList
<1> HIDE DEF tt
<1>3. Column(t, what) = FlattenSeq(tt)
  BY <1>1, <1>2, ColumnFlat
<1>4. PICK u : u = Chain(h, t) /\ IsList(u)
  BY <1>2, Chained
<1>5. Column(u, what) = Chain(Column(h, what), Column(t, what))
  BY <1>2, <1>4, ColumnChain
<1>6. Column(Chain(u, z), what) = Chain(Column(u, what), <<>>)
  BY <1>4, ColumnChain
<1>7. Chain(Column(u, what), <<>>) = Column(u, what)
  BY <1>4, ColumnIsList, Chained
<1> QED BY <1>2, <1>3, <1>4, <1>5, <1>6, <1>7 DEF tt

\* The beginning of an area says its width and its guid, the rest what its items say.
LEMMA AreaHead ==
  ASSUME NEW area, NEW path, NEW s, s = [guid |-> Guid("area", path), alpha |-> "255"],
         NEW t, t = [x |-> ToString(area.x), y |-> ToString(area.y),
                     width |-> ToString(area.width), height |-> ToString(area.height)],
         NEW xml, xml = <<Open("area", s), Empty("rectangle", t), Open("resources", <<>>)>>
  PROVE  /\ IsList(xml)
         /\ Column(xml, "name") = <<>> /\ Column(xml, "text") = <<>>
         /\ Column(xml, "duration") = <<>>
         /\ Column(xml, "width") = <<ToString(area.width)>>
         /\ Column(xml, "guid") = <<Guid("area", path)>>
<1>1. /\ IsList(xml) /\ Len(xml) = 3
      /\ xml[1] = Open("area", s) /\ xml[2] = Empty("rectangle", t) /\ xml[3] = Open("resources", <<>>)
  BY FewAreLists
<1>2. /\ "guid" \in DOMAIN s /\ s.guid = Guid("area", path)
      /\ "guid" \notin DOMAIN t /\ "width" \in DOMAIN t /\ t.width = ToString(area.width)
  OBVIOUS
<1>3. \A k \in 1..3 : k = 1 \/ k = 2 \/ k = 3
  OBVIOUS
<1>4. xml[1].ev = "start" /\ xml[1].tag = "area" /\ xml[1].attrs = s
  BY <1>1 DEF Open
<1>5. xml[2].ev = "empty" /\ xml[2].tag = "rectangle" /\ xml[2].attrs = t
  BY <1>1 DEF Empty
<1>6. xml[3].ev = "start" /\ xml[3].tag = "resources" /\ DOMAIN xml[3].attrs = {}
  BY <1>1, EventParts
<1>7. \A k \in 1..3 : xml[k].ev # "text" /\ xml[k].tag \notin {"program", "effect"}
  BY <1>3, <1>4, <1>5, <1>6
<1>8. ASSUME NEW what \in {"name", "text", "duration"} PROVE Column(xml, what) = <<>>
  <2>1. \A k \in 1..Len(xml) : Says(xml[k], what) = <<>>
    BY <1>1, <1>7, WhoSays
  <2> QED BY <1>1, <2>1, ColumnOfNothing
<1>9. Column(xml, "width") = <<ToString(area.width)>>
  <2>1. Says(xml[1], "width") = <<>> /\ Says(xml[3], "width") = <<>>
    BY <1>4, <1>6, WhoSays
  <2>2. Says(xml[2], "width") = <<ToString(area.width)>>
    BY <1>2, <1>5, WhoSays
  <2>3. 2 \in 1..Len(xml) /\ \A i \in 1..Len(xml) : i # 2 => Says(xml[i], "width") = <<>>
    BY <1>1, <1>3, <2>1
  <2> QED BY <1>1, <2>2, <2>3, ColumnOfSingle, Zenon
<1>10. Column(xml, "guid") = <<Guid("area", path)>>
  <2>1. Says(xml[2], "guid") = <<>> /\ Says(xml[3], "guid") = <<>>
    BY <1>2, <1>5, <1>6, WhoSays
  <2>2. Says(xml[1], "guid") = <<Guid("area", path)>>
    BY <1>2, <1>4, WhoSays
  <2>3. 1 \in 1..Len(xml) /\ \A i \in 1..Len(xml) : i # 1 => Says(xml[i], "guid") = <<>>
    BY <1>1, <1>3, <2>1
  <2> QED BY <1>1, <2>2, <2>3, ColumnOfSingle, Zenon
<1> QED BY <1>1, <1>8, <1>9, <1>10

\* So of the whole of it.
LEMMA AreaSays ==
  ASSUME NEW area, IsList(area.items), NEW path
  PROVE  LET xml == WriteArea(area, path)
             items == AreaParts(area, path) IN
         /\ \A what \in {"name", "text", "duration"} :
               Column(xml, what) = FlattenSeq(Columns(items, what))
         /\ Column(xml, "width") = Chain(<<ToString(area.width)>>, FlattenSeq(Columns(items, "width")))
         /\ Column(xml, "guid") = Chain(<<Guid("area", path)>>, FlattenSeq(Columns(items, "guid")))
<1> DEFINE xml == WriteArea(area, path)
<1> DEFINE items == AreaParts(area, path)
<1> DEFINE s == [guid |-> Guid("area", path), alpha |-> "255"]
<1> DEFINE t == [x |-> ToString(area.x), y |-> ToString(area.y),
                 width |-> ToString(area.width), height |-> ToString(area.height)]
<1> DEFINE h == <<Open("area", s), Empty("rectangle", t), Open("resources", <<>>)>>
<1> DEFINE z == <<Close("resources"), Close("area")>>
<1>1. xml = Chain(Chain(h, FlattenSeq(items)), z)
  BY Zenon DEF WriteArea, Children, AreaParts, Chain
<1>2. IsList(items) /\ \A k \in 1..Len(items) : IsList(items[k])
  <2>1. items = [i \in DOMAIN area.items |-> items[i]] /\ \A i \in DOMAIN area.items : Nested(items[i])
    BY ItemIsNested DEF AreaParts
  <2> HIDE DEF items
  <2>2. IsList(items) /\ Len(items) = Len(area.items)
    BY <2>1, ChildrenAreNested
  <2>3. DOMAIN area.items = 1..Len(area.items)
    BY ListDomain
  <2> QED BY <2>1, <2>2, <2>3 DEF Nested, Inner
<1>3. IsList(z) /\ \A what \in Things : Column(z, what) = <<>>
  BY FewAreLists, EndsAreSilent
<1>4. /\ IsList(h)
      /\ Column(h, "name") = <<>> /\ Column(h, "text") = <<>> /\ Column(h, "duration") = <<>>
      /\ Column(h, "width") = <<ToString(area.width)>>
      /\ Column(h, "guid") = <<Guid("area", path)>>
  <2>1. s = [guid |-> Guid("area", path), alpha |-> "255"]
    OBVIOUS
  <2>2. t = [x |-> ToString(area.x), y |-> ToString(area.y),
             width |-> ToString(area.width), height |-> ToString(area.height)]
    OBVIOUS
  <2>3. h = <<Open("area", s), Empty("rectangle", t), Open("resources", <<>>)>>
    OBVIOUS
  <2> HIDE DEF s, t, h
  <2> QED BY <2>1, <2>2, <2>3, AreaHead
<1> HIDE DEF xml, items, h, z
<1>5. ASSUME NEW what \in Things
      PROVE  Column(xml, what) = Chain(Column(h, what), FlattenSeq(Columns(items, what)))
  <2>1. IsList(z) /\ Column(z, what) = <<>> /\ IsList(h)
    BY <1>3, <1>4
  <2> QED BY <1>1, <1>2, <2>1, ColumnBetween
<1>6. \A what : Chain(<<>>, FlattenSeq(Columns(items, what))) = FlattenSeq(Columns(items, what))
  BY <1>2, ColumnsAre, Chained
<1>7. ASSUME NEW what \in {"name", "text", "duration"}
      PROVE  Column(xml, what) = FlattenSeq(Columns(items, what))
  <2>1. Column(xml, what) = Chain(Column(h, what), FlattenSeq(Columns(items, what)))
    BY <1>5 DEF Things
  <2>2. Column(h, what) = <<>>
    BY <1>4
  <2> QED BY <1>6, <2>1, <2>2
<1>8. "width" \in Things /\ "guid" \in Things
  BY DEF Things
<1> QED BY <1>4, <1>5, <1>7, <1>8 DEF xml, items

\* The beginning of a program says its name and its guid, the rest what its areas say.
LEMMA ProgramHead ==
  ASSUME NEW program, NEW n, NEW s,
         s = [type |-> "normal", id |-> ToString(n), guid |-> Guid("program", <<n>>),
              name |-> program.name],
         NEW xml, xml = <<Open("program", s), PlayControl(program.play)>>
  PROVE  /\ IsList(xml)
         /\ Column(xml, "text") = <<>> /\ Column(xml, "width") = <<>>
         /\ Column(xml, "duration") = <<>>
         /\ Column(xml, "name") = <<program.name>>
         /\ Column(xml, "guid") = <<Guid("program", <<n>>)>>
<1>1. /\ IsList(xml) /\ Len(xml) = 2
      /\ xml[1] = Open("program", s) /\ xml[2] = PlayControl(program.play)
  BY FewAreLists
<1>2. /\ "guid" \in DOMAIN s /\ s.guid = Guid("program", <<n>>)
      /\ "name" \in DOMAIN s /\ s.name = program.name
  OBVIOUS
<1>3. \A k \in 1..2 : k = 1 \/ k = 2
  OBVIOUS
<1>4. xml[1].ev = "start" /\ xml[1].tag = "program" /\ xml[1].attrs = s
  BY <1>1 DEF Open
<1>5. xml[2].ev = "empty" /\ xml[2].tag = "playControl" /\ "guid" \notin DOMAIN xml[2].attrs
  BY <1>1 DEF Empty, PlayControl
<1>6. \A k \in 1..2 : xml[k].ev # "text" /\ xml[k].tag \notin {"rectangle", "effect"}
  BY <1>3, <1>4, <1>5
<1>7. ASSUME NEW what \in {"text", "width", "duration"} PROVE Column(xml, what) = <<>>
  <2>1. \A k \in 1..Len(xml) : Says(xml[k], what) = <<>>
    BY <1>1, <1>6, WhoSays
  <2> QED BY <1>1, <2>1, ColumnOfNothing
<1>8. Column(xml, "name") = <<program.name>>
  <2>1. Says(xml[2], "name") = <<>>
    BY <1>5, WhoSays
  <2>2. Says(xml[1], "name") = <<program.name>>
    BY <1>2, <1>4, WhoSays
  <2>3. 1 \in 1..Len(xml) /\ \A i \in 1..Len(xml) : i # 1 => Says(xml[i], "name") = <<>>
    BY <1>1, <1>3, <2>1
  <2> QED BY <1>1, <2>2, <2>3, ColumnOfSingle, Zenon
<1>9. Column(xml, "guid") = <<Guid("program", <<n>>)>>
  <2>1. Says(xml[2], "guid") = <<>>
    BY <1>5, WhoSays
  <2>2. Says(xml[1], "guid") = <<Guid("program", <<n>>)>>
    BY <1>2, <1>4, WhoSays
  <2>3. 1 \in 1..Len(xml) /\ \A i \in 1..Len(xml) : i # 1 => Says(xml[i], "guid") = <<>>
    BY <1>1, <1>3, <2>1
  <2> QED BY <1>1, <2>2, <2>3, ColumnOfSingle, Zenon
<1> QED BY <1>1, <1>7, <1>8, <1>9

\* So of the whole of it.
LEMMA ProgramSays ==
  ASSUME NEW program, IsList(program.areas), \A area \in ToSet(program.areas) : IsList(area.items), NEW n
  PROVE  LET xml == WriteProgram(program, n)
             areas == ProgramParts(program, n) IN
         /\ \A what \in {"text", "width", "duration"} :
               Column(xml, what) = FlattenSeq(Columns(areas, what))
         /\ Column(xml, "name") = Chain(<<program.name>>, FlattenSeq(Columns(areas, "name")))
         /\ Column(xml, "guid") = Chain(<<Guid("program", <<n>>)>>, FlattenSeq(Columns(areas, "guid")))
<1> DEFINE xml == WriteProgram(program, n)
<1> DEFINE areas == ProgramParts(program, n)
<1> DEFINE s == [type |-> "normal", id |-> ToString(n), guid |-> Guid("program", <<n>>),
                 name |-> program.name]
<1> DEFINE h == <<Open("program", s), PlayControl(program.play)>>
<1> DEFINE z == <<Close("program")>>
<1>1. xml = Chain(Chain(h, FlattenSeq(areas)), z)
  BY Zenon DEF WriteProgram, Children, ProgramParts, Chain
<1>2. IsList(areas) /\ \A k \in 1..Len(areas) : IsList(areas[k])
  <2>1. areas = [i \in DOMAIN program.areas |-> areas[i]]
    BY DEF ProgramParts
  <2>2. ASSUME NEW j \in DOMAIN program.areas PROVE Nested(areas[j])
    <3>1. program.areas[j] \in ToSet(program.areas)
      BY DEF ToSet
    <3> QED BY <3>1, AreaIsNested DEF ProgramParts
  <2> HIDE DEF areas
  <2>3. IsList(areas) /\ Len(areas) = Len(program.areas)
    BY <2>1, <2>2, ChildrenAreNested
  <2>4. DOMAIN program.areas = 1..Len(program.areas)
    BY ListDomain
  <2> QED BY <2>2, <2>3, <2>4 DEF Nested, Inner
<1>3. IsList(z) /\ \A what \in Things : Column(z, what) = <<>>
  BY OneIsList, EndsAreSilent
<1>4. /\ IsList(h)
      /\ Column(h, "text") = <<>> /\ Column(h, "width") = <<>> /\ Column(h, "duration") = <<>>
      /\ Column(h, "name") = <<program.name>>
      /\ Column(h, "guid") = <<Guid("program", <<n>>)>>
  <2>1. s = [type |-> "normal", id |-> ToString(n), guid |-> Guid("program", <<n>>),
             name |-> program.name]
    OBVIOUS
  <2>2. h = <<Open("program", s), PlayControl(program.play)>>
    OBVIOUS
  <2> HIDE DEF s, h
  <2> QED BY <2>1, <2>2, ProgramHead
<1> HIDE DEF xml, areas, h, z
<1>5. ASSUME NEW what \in Things
      PROVE  Column(xml, what) = Chain(Column(h, what), FlattenSeq(Columns(areas, what)))
  <2>1. IsList(z) /\ Column(z, what) = <<>> /\ IsList(h)
    BY <1>3, <1>4
  <2> QED BY <1>1, <1>2, <2>1, ColumnBetween
<1>6. \A what : Chain(<<>>, FlattenSeq(Columns(areas, what))) = FlattenSeq(Columns(areas, what))
  BY <1>2, ColumnsAre, Chained
<1>7. ASSUME NEW what \in {"text", "width", "duration"}
      PROVE  Column(xml, what) = FlattenSeq(Columns(areas, what))
  <2>1. Column(xml, what) = Chain(Column(h, what), FlattenSeq(Columns(areas, what)))
    BY <1>5 DEF Things
  <2>2. Column(h, what) = <<>>
    BY <1>4
  <2> QED BY <1>6, <2>1, <2>2
<1>8. "name" \in Things /\ "guid" \in Things
  BY DEF Things
<1> QED BY <1>4, <1>5, <1>7, <1>8 DEF xml, areas

\* Of a screen is said what is said of its programs.
LEMMA ScreenSays ==
  ASSUME NEW screen, IsScreen(screen), NEW what \in Things
  PROVE  Column(ToProgramXml(screen), what) = FlattenSeq(Columns(ScreenParts(screen), what))
<1> DEFINE xml == ToProgramXml(screen)
<1> DEFINE f == ScreenParts(screen)
<1> DEFINE h == <<Open("screen", <<>>)>>
<1> DEFINE z == <<Close("screen")>>
<1>1. xml = Chain(Chain(h, FlattenSeq(f)), z)
  BY Zenon DEF ToProgramXml, Children, ScreenParts, Chain
<1>2. IsList(f) /\ \A k \in 1..Len(f) : IsList(f[k])
  <2>1. f = [i \in DOMAIN screen |-> f[i]]
    BY DEF ScreenParts
  <2>2. ASSUME NEW i \in DOMAIN screen PROVE Nested(f[i])
    <3>1. screen[i] \in ToSet(screen)
      BY DEF ToSet
    <3>2. /\ IsList(screen[i].areas)
          /\ \A area \in ToSet(screen[i].areas) : IsList(area.items)
      BY <3>1 DEF IsScreen, Siblings
    <3> QED BY <3>2, ProgramIsNested DEF ScreenParts
  <2> HIDE DEF f
  <2>3. IsList(f) /\ Len(f) = Len(screen)
    BY <2>1, <2>2, ChildrenAreNested DEF IsScreen, Siblings
  <2>4. DOMAIN screen = 1..Len(screen)
    BY ListDomain DEF IsScreen, Siblings
  <2> QED BY <2>2, <2>3, <2>4 DEF Nested, Inner
<1>3. IsList(z) /\ Column(z, what) = <<>> /\ IsList(h) /\ Column(h, what) = <<>>
  BY OneIsList, EndsAreSilent
<1> HIDE DEF xml, f, h, z
<1>4. Column(xml, what) = Chain(<<>>, FlattenSeq(Columns(f, what)))
  <2>1. Column(xml, what) = Chain(Column(h, what), FlattenSeq(Columns(f, what)))
    BY <1>1, <1>2, <1>3, ColumnBetween
  <2> QED BY <1>3, <2>1
<1>5. Chain(<<>>, FlattenSeq(Columns(f, what))) = FlattenSeq(Columns(f, what))
  BY <1>2, ColumnsAre, Chained
<1> QED BY <1>4, <1>5 DEF xml, f

\* What an item has to say ...
TextOf(item) == IF item.is = "text" THEN <<item.text>> ELSE <<>>

\* ... and for how long it is held.
HeldFor(item) == IF item.is = "text" THEN <<ToString(HoldDs(item.config.hold_secs))>> ELSE <<>>

\* The parts of an area, one for every item, ...
LEMMA AreaPartsAre ==
  ASSUME NEW area, IsList(area.items), NEW path
  PROVE  LET f == AreaParts(area, path) IN
         /\ DOMAIN f = DOMAIN area.items /\ Len(area.items) \in Nat
         /\ DOMAIN area.items = 1..Len(area.items)
         /\ IsList(f) /\ Len(f) = Len(area.items) /\ \A i \in 1..Len(f) : IsList(f[i])
         /\ \A i \in DOMAIN area.items : f[i] = WriteItem(area.items[i], Append(path, i - 1))
<1> DEFINE f == AreaParts(area, path)
<1>1. /\ f = [i \in DOMAIN area.items |-> f[i]] /\ \A i \in DOMAIN area.items : Nested(f[i])
      /\ \A i \in DOMAIN area.items : f[i] = WriteItem(area.items[i], Append(path, i - 1))
  BY ItemIsNested DEF AreaParts
<1> HIDE DEF f
<1>2. IsList(f) /\ Len(f) = Len(area.items)
  BY <1>1, ChildrenAreNested
<1>3. DOMAIN area.items = 1..Len(area.items) /\ Len(area.items) \in Nat
  BY ListDomain
<1>4. \A i \in 1..Len(f) : IsList(f[i])
  BY <1>1, <1>2, <1>3 DEF Nested, Inner
<1> QED BY <1>1, <1>2, <1>3, <1>4 DEF f

\* ... those of a program, one for every area, ...
LEMMA ProgramPartsAre ==
  ASSUME NEW program, IsList(program.areas), \A area \in ToSet(program.areas) : IsList(area.items), NEW n
  PROVE  LET f == ProgramParts(program, n) IN
         /\ DOMAIN f = DOMAIN program.areas /\ Len(program.areas) \in Nat
         /\ DOMAIN program.areas = 1..Len(program.areas)
         /\ IsList(f) /\ Len(f) = Len(program.areas) /\ \A i \in 1..Len(f) : IsList(f[i])
         /\ \A i \in DOMAIN program.areas :
               f[i] = WriteArea(program.areas[i], <<n, i - 1>>) /\ IsList(program.areas[i].items)
<1> DEFINE f == ProgramParts(program, n)
<1>1. ASSUME NEW i \in DOMAIN program.areas
      PROVE  /\ f[i] = WriteArea(program.areas[i], <<n, i - 1>>) /\ IsList(program.areas[i].items)
             /\ Nested(f[i])
  <2>1. program.areas[i] \in ToSet(program.areas)
    BY DEF ToSet
  <2>2. f[i] = WriteArea(program.areas[i], <<n, i - 1>>)
    BY DEF ProgramParts
  <2> HIDE DEF f
  <2>3. IsList(program.areas[i].items)
    BY <2>1
  <2> QED BY <2>2, <2>3, AreaIsNested
<1>2. f = [i \in DOMAIN program.areas |-> f[i]]
  BY DEF ProgramParts
<1> HIDE DEF f
<1>3. IsList(f) /\ Len(f) = Len(program.areas)
  BY <1>1, <1>2, ChildrenAreNested
<1>4. DOMAIN program.areas = 1..Len(program.areas) /\ Len(program.areas) \in Nat
  BY ListDomain
<1>5. \A i \in 1..Len(f) : IsList(f[i])
  BY <1>1, <1>3, <1>4 DEF Nested, Inner
<1>6. DOMAIN f = DOMAIN program.areas
  BY <1>2
<1> QED BY <1>1, <1>3, <1>4, <1>5, <1>6 DEF f

\* ... and those of a screen, one for every program.
LEMMA ScreenPartsAre ==
  ASSUME NEW screen, IsScreen(screen)
  PROVE  LET f == ScreenParts(screen) IN
         /\ DOMAIN f = DOMAIN screen /\ Len(screen) \in Nat /\ DOMAIN screen = 1..Len(screen)
         /\ IsList(f) /\ Len(f) = Len(screen) /\ \A i \in 1..Len(f) : IsList(f[i])
         /\ \A i \in DOMAIN screen :
               /\ f[i] = WriteProgram(screen[i], i - 1) /\ IsList(screen[i].areas)
               /\ \A area \in ToSet(screen[i].areas) : IsList(area.items)
<1> DEFINE f == ScreenParts(screen)
<1>1. ASSUME NEW i \in DOMAIN screen
      PROVE  /\ f[i] = WriteProgram(screen[i], i - 1) /\ IsList(screen[i].areas)
             /\ \A area \in ToSet(screen[i].areas) : IsList(area.items)
             /\ Nested(f[i])
  <2>1. screen[i] \in ToSet(screen)
    BY DEF ToSet
  <2>2. f[i] = WriteProgram(screen[i], i - 1)
    BY DEF ScreenParts
  <2> HIDE DEF f
  <2>3. /\ IsList(screen[i].areas)
        /\ \A area \in ToSet(screen[i].areas) : IsList(area.items)
    BY <2>1 DEF IsScreen, Siblings
  <2> QED BY <2>2, <2>3, ProgramIsNested
<1>2. f = [i \in DOMAIN screen |-> f[i]]
  BY DEF ScreenParts
<1> HIDE DEF f
<1>3. IsList(f) /\ Len(f) = Len(screen)
  BY <1>1, <1>2, ChildrenAreNested DEF IsScreen, Siblings
<1>4. DOMAIN screen = 1..Len(screen) /\ Len(screen) \in Nat
  BY ListDomain DEF IsScreen, Siblings
<1>5. \A i \in 1..Len(f) : IsList(f[i])
  BY <1>1, <1>3, <1>4 DEF Nested, Inner
<1>6. DOMAIN f = DOMAIN screen
  BY <1>2
<1> QED BY <1>1, <1>3, <1>4, <1>5, <1>6 DEF f

\* What an area says of all but the guids, ...
LEMMA AreaColumns ==
  ASSUME NEW area, IsList(area.items), NEW path
  PROVE  LET xml == WriteArea(area, path) IN
         /\ Column(xml, "name") = <<>>
         /\ Column(xml, "width") = <<ToString(area.width)>>
         /\ Column(xml, "text") = FlattenSeq([i \in DOMAIN area.items |-> TextOf(area.items[i])])
         /\ Column(xml, "duration") = FlattenSeq([i \in DOMAIN area.items |-> HeldFor(area.items[i])])
<1> DEFINE f == AreaParts(area, path)
<1> DEFINE xml == WriteArea(area, path)
<1>1. /\ DOMAIN f = DOMAIN area.items
      /\ DOMAIN area.items = 1..Len(area.items)
      /\ IsList(f) /\ Len(f) = Len(area.items) /\ \A i \in 1..Len(f) : IsList(f[i])
      /\ \A i \in DOMAIN area.items : f[i] = WriteItem(area.items[i], Append(path, i - 1))
  BY AreaPartsAre
<1>2. /\ \A what \in {"name", "text", "duration"} : Column(xml, what) = FlattenSeq(Columns(f, what))
      /\ Column(xml, "width") = Chain(<<ToString(area.width)>>, FlattenSeq(Columns(f, "width")))
  BY AreaSays
<1> HIDE DEF f, xml
<1>3. ASSUME NEW i \in DOMAIN area.items
      PROVE  /\ Column(f[i], "name") = <<>> /\ Column(f[i], "width") = <<>>
             /\ Column(f[i], "text") = TextOf(area.items[i])
             /\ Column(f[i], "duration") = HeldFor(area.items[i])
  BY <1>1, ItemSays DEF TextOf, HeldFor
<1>4. ASSUME NEW what \in {"name", "width"} PROVE FlattenSeq(Columns(f, what)) = <<>>
  <2>1. /\ IsList(Columns(f, what)) /\ Len(Columns(f, what)) = Len(f)
        /\ \A k \in 1..Len(f) : Columns(f, what)[k] = Column(f[k], what)
    BY <1>1, ColumnsAre
  <2>2. \A k \in 1..Len(Columns(f, what)) : Columns(f, what)[k] = <<>>
    BY <1>1, <1>3, <2>1
  <2> QED BY <2>1, <2>2, FlatOfEmpty
<1>5. Columns(f, "text") = [i \in DOMAIN area.items |-> TextOf(area.items[i])]
  BY <1>1, <1>3 DEF Columns
<1>6. Columns(f, "duration") = [i \in DOMAIN area.items |-> HeldFor(area.items[i])]
  BY <1>1, <1>3 DEF Columns
<1>7. Chain(<<ToString(area.width)>>, <<>>) = <<ToString(area.width)>>
  BY OneIsList, NoneIsList, Chained
<1> QED BY <1>2, <1>4, <1>5, <1>6, <1>7 DEF xml

\* ... a program ...
LEMMA ProgramColumns ==
  ASSUME NEW program, IsList(program.areas), \A area \in ToSet(program.areas) : IsList(area.items), NEW n
  PROVE  LET xml == WriteProgram(program, n) IN
         /\ Column(xml, "name") = <<program.name>>
         /\ Column(xml, "width") =
              FlattenSeq([j \in DOMAIN program.areas |-> <<ToString(program.areas[j].width)>>])
         /\ Column(xml, "text") = FlattenSeq([j \in DOMAIN program.areas |->
              FlattenSeq([i \in DOMAIN program.areas[j].items |-> TextOf(program.areas[j].items[i])])])
         /\ Column(xml, "duration") = FlattenSeq([j \in DOMAIN program.areas |->
              FlattenSeq([i \in DOMAIN program.areas[j].items |-> HeldFor(program.areas[j].items[i])])])
<1> DEFINE f == ProgramParts(program, n)
<1> DEFINE xml == WriteProgram(program, n)
<1> DEFINE T(area) == FlattenSeq([i \in DOMAIN area.items |-> TextOf(area.items[i])])
<1> DEFINE H(area) == FlattenSeq([i \in DOMAIN area.items |-> HeldFor(area.items[i])])
<1>1. /\ DOMAIN f = DOMAIN program.areas
      /\ DOMAIN program.areas = 1..Len(program.areas)
      /\ IsList(f) /\ Len(f) = Len(program.areas) /\ \A i \in 1..Len(f) : IsList(f[i])
      /\ \A i \in DOMAIN program.areas :
            f[i] = WriteArea(program.areas[i], <<n, i - 1>>) /\ IsList(program.areas[i].items)
  BY ProgramPartsAre
<1>2. /\ \A what \in {"text", "width", "duration"} : Column(xml, what) = FlattenSeq(Columns(f, what))
      /\ Column(xml, "name") = Chain(<<program.name>>, FlattenSeq(Columns(f, "name")))
  BY ProgramSays
<1> HIDE DEF f, xml
<1>3. ASSUME NEW j \in DOMAIN program.areas
      PROVE  /\ Column(f[j], "name") = <<>>
             /\ Column(f[j], "width") = <<ToString(program.areas[j].width)>>
             /\ Column(f[j], "text") = T(program.areas[j])
             /\ Column(f[j], "duration") = H(program.areas[j])
  <2>1. f[j] = WriteArea(program.areas[j], <<n, j - 1>>) /\ IsList(program.areas[j].items)
    BY <1>1
  <2> QED BY <2>1, AreaColumns
<1> HIDE DEF T, H
<1>4. FlattenSeq(Columns(f, "name")) = <<>>
  <2>1. /\ IsList(Columns(f, "name")) /\ Len(Columns(f, "name")) = Len(f)
        /\ \A k \in 1..Len(f) : Columns(f, "name")[k] = Column(f[k], "name")
    BY <1>1, ColumnsAre
  <2>2. \A k \in 1..Len(Columns(f, "name")) : Columns(f, "name")[k] = <<>>
    BY <1>1, <1>3, <2>1
  <2> QED BY <2>1, <2>2, FlatOfEmpty
<1>5. Columns(f, "text") = [j \in DOMAIN program.areas |-> T(program.areas[j])]
  BY <1>1, <1>3 DEF Columns
<1>6. Columns(f, "duration") = [j \in DOMAIN program.areas |-> H(program.areas[j])]
  BY <1>1, <1>3 DEF Columns
<1>7. Columns(f, "width") = [j \in DOMAIN program.areas |-> <<ToString(program.areas[j].width)>>]
  BY <1>1, <1>3 DEF Columns
<1>8. Chain(<<program.name>>, <<>>) = <<program.name>>
  BY OneIsList, NoneIsList, Chained
<1> QED BY <1>2, <1>4, <1>5, <1>6, <1>7, <1>8 DEF xml, T, H

\* ... and a screen.
LEMMA ScreenColumns ==
  ASSUME NEW screen, IsScreen(screen)
  PROVE  LET xml == ToProgramXml(screen) IN
         /\ Column(xml, "name") = ForEach(screen, LAMBDA program : <<program.name>>)
         /\ Column(xml, "width") = EachArea(screen, LAMBDA area : <<ToString(area.width)>>)
         /\ Column(xml, "text") = EachItem(screen, TextOf)
         /\ Column(xml, "duration") = EachItem(screen, HeldFor)
<1> DEFINE f == ScreenParts(screen)
<1> DEFINE xml == ToProgramXml(screen)
<1> DEFINE W(program) ==
             FlattenSeq([j \in DOMAIN program.areas |-> <<ToString(program.areas[j].width)>>])
<1> DEFINE T(program) == FlattenSeq([j \in DOMAIN program.areas |->
             FlattenSeq([i \in DOMAIN program.areas[j].items |-> TextOf(program.areas[j].items[i])])])
<1> DEFINE H(program) == FlattenSeq([j \in DOMAIN program.areas |->
             FlattenSeq([i \in DOMAIN program.areas[j].items |-> HeldFor(program.areas[j].items[i])])])
<1>1. /\ DOMAIN f = DOMAIN screen
      /\ \A i \in DOMAIN screen :
            /\ f[i] = WriteProgram(screen[i], i - 1) /\ IsList(screen[i].areas)
            /\ \A area \in ToSet(screen[i].areas) : IsList(area.items)
  BY ScreenPartsAre
<1>2. \A what \in Things : Column(xml, what) = FlattenSeq(Columns(f, what))
  BY ScreenSays
<1> HIDE DEF f, xml
<1>3. ASSUME NEW i \in DOMAIN screen
      PROVE  /\ Column(f[i], "name") = <<screen[i].name>>
             /\ Column(f[i], "width") = W(screen[i])
             /\ Column(f[i], "text") = T(screen[i])
             /\ Column(f[i], "duration") = H(screen[i])
  <2>1. /\ f[i] = WriteProgram(screen[i], i - 1) /\ IsList(screen[i].areas)
        /\ \A area \in ToSet(screen[i].areas) : IsList(area.items)
    BY <1>1
  <2>2. PICK p, n : p = screen[i] /\ n = i - 1
    OBVIOUS
  <2>3. IsList(p.areas) /\ (\A area \in ToSet(p.areas) : IsList(area.items)) /\ f[i] = WriteProgram(p, n)
    BY <2>1, <2>2
  <2>4. /\ Column(WriteProgram(p, n), "name") = <<p.name>>
        /\ Column(WriteProgram(p, n), "width") = W(p)
        /\ Column(WriteProgram(p, n), "text") = T(p)
        /\ Column(WriteProgram(p, n), "duration") = H(p)
    BY <2>3, ProgramColumns
  <2> HIDE DEF W, T, H
  <2> QED BY <2>2, <2>3, <2>4
<1>4. /\ EachArea(screen, LAMBDA area : <<ToString(area.width)>>)
           = FlattenSeq([i \in DOMAIN screen |-> W(screen[i])])
      /\ EachItem(screen, TextOf) = FlattenSeq([i \in DOMAIN screen |-> T(screen[i])])
      /\ EachItem(screen, HeldFor) = FlattenSeq([i \in DOMAIN screen |-> H(screen[i])])
      /\ ForEach(screen, LAMBDA program : <<program.name>>)
           = FlattenSeq([i \in DOMAIN screen |-> <<screen[i].name>>])
  BY Zenon DEF EachItem, EachArea, ForEach
<1> HIDE DEF W, T, H
<1>5. Columns(f, "name") = [i \in DOMAIN screen |-> <<screen[i].name>>]
  BY <1>1, <1>3 DEF Columns
<1>6. Columns(f, "width") = [i \in DOMAIN screen |-> W(screen[i])]
  BY <1>1, <1>3 DEF Columns
<1>7. Columns(f, "text") = [i \in DOMAIN screen |-> T(screen[i])]
  BY <1>1, <1>3 DEF Columns
<1>8. Columns(f, "duration") = [i \in DOMAIN screen |-> H(screen[i])]
  BY <1>1, <1>3 DEF Columns
<1>9. {"name", "width", "text", "duration"} \subseteq Things
  BY DEF Things
<1> QED BY <1>2, <1>4, <1>5, <1>6, <1>7, <1>8, <1>9 DEF xml

\* What is held for no longer than its field can say is held for as long as asked.
LEMMA HeldAsAsked ==
  ASSUME NEW screen, IsScreen(screen), ~Overflows(screen)
  PROVE  EachItem(screen, HeldFor)
           = EachText(screen, LAMBDA item : <<ToString(item.config.hold_secs * 10)>>)
<1> DEFINE X(item) == IF item.is = "text" THEN <<ToString(item.config.hold_secs * 10)>> ELSE <<>>
<1>1. ASSUME NEW i \in DOMAIN screen, NEW j \in DOMAIN screen[i].areas,
             NEW k \in DOMAIN screen[i].areas[j].items
      PROVE  HeldFor(screen[i].areas[j].items[k]) = X(screen[i].areas[j].items[k])
  <2> DEFINE program == screen[i]
  <2> DEFINE area == program.areas[j]
  <2> DEFINE item == area.items[k]
  <2>1. program \in ToSet(screen) /\ area \in ToSet(program.areas) /\ item \in ToSet(area.items)
    BY DEF ToSet
  <2> HIDE DEF program, area, item
  <2>2. CASE item.is = "text"
    <3>1. item.config.hold_secs \in Values("u32")
      BY <2>1, <2>2 DEF IsScreen
    <3>2. ~(item.config.hold_secs * 10 >= U32)
      BY <2>1, <2>2 DEF Overflows
    <3>3. HoldDs(item.config.hold_secs) = item.config.hold_secs * 10
      <4> DEFINE h == item.config.hold_secs
      <4>1. h \in Nat /\ U32 \in Nat \ {0}
        BY <3>1, WidthAssumption DEF Values
      <4> HIDE DEF h
      <4>2. ~(h * 10 >= U32)
        BY <3>2 DEF h
      <4>3. (h * 10) % U32 = h * 10
        BY <4>1, <4>2
      <4> QED BY <4>3 DEF HoldDs, h
    <3> QED BY <2>2, <3>3 DEF HeldFor, item, area, program
  <2>3. CASE item.is # "text"
    BY <2>3 DEF HeldFor, item, area, program
  <2> QED BY <2>2, <2>3
<1>2. EachText(screen, LAMBDA item : <<ToString(item.config.hold_secs * 10)>>)
        = FlattenSeq([i \in DOMAIN screen |-> FlattenSeq([j \in DOMAIN screen[i].areas |->
            FlattenSeq([k \in DOMAIN screen[i].areas[j].items |-> X(screen[i].areas[j].items[k])])])])
  BY Zenon DEF EachText, EachItem, EachArea, ForEach
<1>3. EachItem(screen, HeldFor)
        = FlattenSeq([i \in DOMAIN screen |-> FlattenSeq([j \in DOMAIN screen[i].areas |->
            FlattenSeq([k \in DOMAIN screen[i].areas[j].items |-> HeldFor(screen[i].areas[j].items[k])])])])
  BY Zenon DEF EachItem, EachArea, ForEach
<1> HIDE DEF X
<1>4. \A i \in DOMAIN screen : \A j \in DOMAIN screen[i].areas :
         [k \in DOMAIN screen[i].areas[j].items |-> HeldFor(screen[i].areas[j].items[k])]
           = [k \in DOMAIN screen[i].areas[j].items |-> X(screen[i].areas[j].items[k])]
  BY <1>1
<1>5. \A i \in DOMAIN screen :
         [j \in DOMAIN screen[i].areas |->
            FlattenSeq([k \in DOMAIN screen[i].areas[j].items |-> HeldFor(screen[i].areas[j].items[k])])]
           = [j \in DOMAIN screen[i].areas |->
                FlattenSeq([k \in DOMAIN screen[i].areas[j].items |-> X(screen[i].areas[j].items[k])])]
  BY <1>4
<1>6. [i \in DOMAIN screen |-> FlattenSeq([j \in DOMAIN screen[i].areas |->
         FlattenSeq([k \in DOMAIN screen[i].areas[j].items |-> HeldFor(screen[i].areas[j].items[k])])])]
        = [i \in DOMAIN screen |-> FlattenSeq([j \in DOMAIN screen[i].areas |->
             FlattenSeq([k \in DOMAIN screen[i].areas[j].items |-> X(screen[i].areas[j].items[k])])])]
  BY <1>5
<1> QED BY <1>2, <1>3, <1>6

-----------------------------------------------------------------------------
(* No two nodes have the same guid.                                        *)

\* The guids there may be in an area ...
AreaGuids(i, j) == {Guid("area", <<i, j>>)}
                     \cup {Guid(kind, <<i, j, k>>) : kind \in {"text", "clock"}, k \in Indices}

\* ... and in a program.
ProgramGuids(i) == {Guid("program", <<i>>)} \cup UNION {AreaGuids(i, j) : j \in Indices}

\* Different places have different guids.
LEMMA GuidsDiffer ==
  /\ \A i, j, k, i1, j1, k1 \in Indices : \A kind, other \in {"text", "clock"} :
        Guid(kind, <<i, j, k>>) = Guid(other, <<i1, j1, k1>>) => i = i1 /\ j = j1 /\ k = k1
  /\ \A i, j, i1, j1 \in Indices :
        Guid("area", <<i, j>>) = Guid("area", <<i1, j1>>) => i = i1 /\ j = j1
  /\ \A i, i1 \in Indices : Guid("program", <<i>>) = Guid("program", <<i1>>) => i = i1
  /\ \A i, j, k, i1, j1 \in Indices : \A kind \in {"text", "clock"} :
        Guid(kind, <<i, j, k>>) # Guid("area", <<i1, j1>>)
  /\ \A i, j, k, i1 \in Indices : \A kind \in {"text", "clock"} :
        Guid(kind, <<i, j, k>>) # Guid("program", <<i1>>)
  /\ \A i, j, i1 \in Indices : Guid("area", <<i, j>>) # Guid("program", <<i1>>)
<1>1. \A i, j, k \in Indices : <<i>> \in Places /\ <<i, j>> \in Places /\ <<i, j, k>> \in Places
  BY DEF Places
<1>2. \A kind, other \in {"program", "area", "text", "clock"} : \A path, way \in Places :
         Guid(kind, path) = Guid(other, way) => kind = other /\ path = way
  BY GuidAssumption
<1>3. \A i, j, k, i1, j1, k1 : <<i, j, k>> = <<i1, j1, k1>> => i = i1 /\ j = j1 /\ k = k1
  OBVIOUS
<1>4. \A i, j, i1, j1 : <<i, j>> = <<i1, j1>> => i = i1 /\ j = j1
  OBVIOUS
<1>5. \A i, i1 : <<i>> = <<i1>> => i = i1
  OBVIOUS
<1>6. ASSUME NEW i \in Indices, NEW j \in Indices, NEW k \in Indices,
             NEW i1 \in Indices, NEW j1 \in Indices, NEW k1 \in Indices,
             NEW kind \in {"text", "clock"}, NEW other \in {"text", "clock"},
             Guid(kind, <<i, j, k>>) = Guid(other, <<i1, j1, k1>>)
      PROVE  i = i1 /\ j = j1 /\ k = k1
  <2> DEFINE p == <<i, j, k>>
  <2> DEFINE w == <<i1, j1, k1>>
  <2>1. p \in Places /\ w \in Places
    BY <1>1
  <2>2. Guid(kind, p) = Guid(other, w)
    BY <1>6
  <2>3. kind \in {"program", "area", "text", "clock"} /\ other \in {"program", "area", "text", "clock"}
    OBVIOUS
  <2> HIDE DEF p, w
  <2>4. p = w
    BY <1>2, <2>1, <2>2, <2>3
  <2> QED BY <2>4, <1>3 DEF p, w
<1>7. ASSUME NEW i \in Indices, NEW j \in Indices, NEW i1 \in Indices, NEW j1 \in Indices,
             Guid("area", <<i, j>>) = Guid("area", <<i1, j1>>)
      PROVE  i = i1 /\ j = j1
  <2> DEFINE p == <<i, j>>
  <2> DEFINE w == <<i1, j1>>
  <2>1. p \in Places /\ w \in Places
    BY <1>1
  <2>2. Guid("area", p) = Guid("area", w)
    BY <1>7
  <2> HIDE DEF p, w
  <2>3. p = w
    BY <1>2, <2>1, <2>2
  <2> QED BY <2>3, <1>4 DEF p, w
<1>8. ASSUME NEW i \in Indices, NEW i1 \in Indices, Guid("program", <<i>>) = Guid("program", <<i1>>)
      PROVE  i = i1
  <2> DEFINE p == <<i>>
  <2> DEFINE w == <<i1>>
  <2>1. p \in Places /\ w \in Places
    BY <1>1
  <2>2. Guid("program", p) = Guid("program", w)
    BY <1>8
  <2> HIDE DEF p, w
  <2>3. p = w
    BY <1>2, <2>1, <2>2
  <2> QED BY <2>3, <1>5 DEF p, w
<1>9. ASSUME NEW i \in Indices, NEW j \in Indices, NEW k \in Indices,
             NEW i1 \in Indices, NEW j1 \in Indices, NEW kind \in {"text", "clock"}
      PROVE  /\ Guid(kind, <<i, j, k>>) # Guid("area", <<i1, j1>>)
             /\ Guid(kind, <<i, j, k>>) # Guid("program", <<i1>>)
             /\ Guid("area", <<i, j>>) # Guid("program", <<i1>>)
  <2> DEFINE p == <<i, j, k>>
  <2> DEFINE q == <<i1, j1>>
  <2> DEFINE r == <<i, j>>
  <2> DEFINE w == <<i1>>
  <2>1. p \in Places /\ q \in Places /\ r \in Places /\ w \in Places
    BY <1>1
  <2>2. kind \in {"program", "area", "text", "clock"} /\ kind # "area" /\ kind # "program"
    OBVIOUS
  <2> HIDE DEF p, q, r, w
  <2>3. Guid(kind, p) # Guid("area", q)
    BY <1>2, <2>1, <2>2
  <2>4. Guid(kind, p) # Guid("program", w)
    BY <1>2, <2>1, <2>2
  <2>5. Guid("area", r) # Guid("program", w)
    BY <1>2, <2>1
  <2> QED BY <2>3, <2>4, <2>5 DEF p, q, r, w
<1>10. ASSUME NEW i \in Indices, NEW j \in Indices, NEW i1 \in Indices
       PROVE  Guid("area", <<i, j>>) # Guid("program", <<i1>>)
  <2>1. "text" \in {"text", "clock"}
    OBVIOUS
  <2> QED BY <1>9, <2>1
<1>11. \A i, j, k, i1, j1, k1 \in Indices : \A kind, other \in {"text", "clock"} :
         Guid(kind, <<i, j, k>>) = Guid(other, <<i1, j1, k1>>) => i = i1 /\ j = j1 /\ k = k1
  BY Zenon, <1>6
<1>12. \A i, j, i1, j1 \in Indices :
         Guid("area", <<i, j>>) = Guid("area", <<i1, j1>>) => i = i1 /\ j = j1
  BY Zenon, <1>7
<1>13. \A i, i1 \in Indices : Guid("program", <<i>>) = Guid("program", <<i1>>) => i = i1
  BY Zenon, <1>8
<1>14. \A i, j, k, i1, j1 \in Indices : \A kind \in {"text", "clock"} :
         Guid(kind, <<i, j, k>>) # Guid("area", <<i1, j1>>)
  <2>1. ASSUME NEW i \in Indices, NEW j \in Indices, NEW k \in Indices,
               NEW i1 \in Indices, NEW j1 \in Indices, NEW kind \in {"text", "clock"}
        PROVE  Guid(kind, <<i, j, k>>) # Guid("area", <<i1, j1>>)
    BY <1>9
  <2> QED BY Zenon, <2>1
<1>15. \A i, j, k, i1 \in Indices : \A kind \in {"text", "clock"} :
         Guid(kind, <<i, j, k>>) # Guid("program", <<i1>>)
  BY Zenon, <1>9
<1> QED BY <1>10, <1>11, <1>12, <1>13, <1>14, <1>15

\* Different areas share no guid, and none has that of a program ...
LEMMA AreasDiffer ==
  ASSUME NEW i \in Indices, NEW j \in Indices, NEW i1 \in Indices, NEW j1 \in Indices
  PROVE  /\ i # i1 \/ j # j1 => AreaGuids(i, j) \cap AreaGuids(i1, j1) = {}
         /\ Guid("program", <<i1>>) \notin AreaGuids(i, j)
<1>1. ASSUME NEW x, x \in AreaGuids(i, j), x \in AreaGuids(i1, j1) PROVE i = i1 /\ j = j1
  <2>1. \/ x = Guid("area", <<i, j>>)
        \/ \E kind \in {"text", "clock"}, k \in Indices : x = Guid(kind, <<i, j, k>>)
    BY <1>1 DEF AreaGuids
  <2>2. \/ x = Guid("area", <<i1, j1>>)
        \/ \E kind \in {"text", "clock"}, k \in Indices : x = Guid(kind, <<i1, j1, k>>)
    BY <1>1 DEF AreaGuids
  <2>3. CASE x = Guid("area", <<i, j>>) /\ x = Guid("area", <<i1, j1>>)
    BY <2>3, GuidsDiffer
  <2>4. ASSUME NEW kind \in {"text", "clock"}, NEW k \in Indices, x = Guid(kind, <<i, j, k>>)
        PROVE  i = i1 /\ j = j1
    <3>1. x # Guid("area", <<i1, j1>>)
      BY <2>4, GuidsDiffer
    <3>2. PICK other \in {"text", "clock"}, k1 \in Indices : x = Guid(other, <<i1, j1, k1>>)
      BY <2>2, <3>1
    <3>3. Guid(kind, <<i, j, k>>) = Guid(other, <<i1, j1, k1>>)
      BY <2>4, <3>2
    <3> QED BY <3>3, GuidsDiffer
  <2>5. ASSUME NEW kind \in {"text", "clock"}, NEW k \in Indices, x = Guid(kind, <<i1, j1, k>>)
        PROVE  i = i1 /\ j = j1
    <3>1. x # Guid("area", <<i, j>>)
      BY <2>5, GuidsDiffer
    <3>2. PICK other \in {"text", "clock"}, k1 \in Indices : x = Guid(other, <<i, j, k1>>)
      BY <2>1, <3>1
    <3>3. Guid(other, <<i, j, k1>>) = Guid(kind, <<i1, j1, k>>)
      BY <2>5, <3>2
    <3> QED BY <3>3, GuidsDiffer
  <2> QED BY <2>1, <2>2, <2>3, <2>4, <2>5
<1>2. ASSUME Guid("program", <<i1>>) \in AreaGuids(i, j) PROVE FALSE
  <2> DEFINE x == Guid("program", <<i1>>)
  <2>1. \/ x = Guid("area", <<i, j>>)
        \/ \E kind \in {"text", "clock"}, k \in Indices : x = Guid(kind, <<i, j, k>>)
    BY <1>2 DEF AreaGuids
  <2>2. x # Guid("area", <<i, j>>)
    BY GuidsDiffer
  <2>3. ASSUME NEW kind \in {"text", "clock"}, NEW k \in Indices PROVE x # Guid(kind, <<i, j, k>>)
    BY GuidsDiffer
  <2> HIDE DEF x
  <2> QED BY <2>1, <2>2, <2>3
<1> QED BY <1>1, <1>2

\* ... and neither do different programs.
LEMMA ProgramsDiffer ==
  ASSUME NEW i \in Indices, NEW i1 \in Indices, i # i1
  PROVE  ProgramGuids(i) \cap ProgramGuids(i1) = {}
<1>1. ASSUME NEW x, x \in ProgramGuids(i), x \in ProgramGuids(i1) PROVE FALSE
  <2>1. x = Guid("program", <<i>>) \/ \E j \in Indices : x \in AreaGuids(i, j)
    BY <1>1 DEF ProgramGuids
  <2>2. x = Guid("program", <<i1>>) \/ \E j \in Indices : x \in AreaGuids(i1, j)
    BY <1>1 DEF ProgramGuids
  <2>3. ASSUME NEW j \in Indices, x \in AreaGuids(i, j) PROVE FALSE
    <3>1. x # Guid("program", <<i1>>)
      BY <2>3, AreasDiffer
    <3>2. PICK j1 \in Indices : x \in AreaGuids(i1, j1)
      BY <2>2, <3>1
    <3>3. AreaGuids(i, j) \cap AreaGuids(i1, j1) = {}
      BY AreasDiffer
    <3> QED BY <2>3, <3>2, <3>3
  <2>4. ASSUME NEW j \in Indices, x \in AreaGuids(i1, j) PROVE FALSE
    <3>1. x # Guid("program", <<i>>)
      BY <2>4, AreasDiffer
    <3> QED BY <2>1, <2>3, <3>1
  <2>5. Guid("program", <<i>>) # Guid("program", <<i1>>)
    BY GuidsDiffer
  <2> QED BY <2>1, <2>2, <2>3, <2>4, <2>5
<1> QED BY <1>1

\* The guids in an area: its own and one for every item, no two the same.
LEMMA GuidsOfArea ==
  ASSUME NEW i \in Indices, NEW j \in Indices, NEW area, Siblings(area.items)
  PROVE  LET s == Column(WriteArea(area, <<i, j>>), "guid") IN
         /\ IsList(s) /\ IsInjective(s) /\ ToSet(s) \subseteq AreaGuids(i, j)
         /\ Len(s) = 1 + Len(area.items)
<1> DEFINE path == <<i, j>>
<1> DEFINE s == Column(WriteArea(area, path), "guid")
<1> DEFINE own == Guid("area", path)
<1> DEFINE f == AreaParts(area, path)
<1> DEFINE gg == Columns(f, "guid")
<1>0. IsList(area.items) /\ \A k \in DOMAIN area.items : k - 1 \in Indices
  BY DEF Siblings
<1>1. \A k \in Indices : Append(path, k) = <<i, j, k>>
  <2>1. ASSUME NEW k \in Indices PROVE Append(path, k) = <<i, j, k>>
    <3>1. path \in Seq(Indices)
      OBVIOUS
    <3>2. path \o <<k>> = <<i, j, k>>
      BY RowOfThree
    <3> HIDE DEF path
    <3>3. Append(path, k) = path \o <<k>>
      BY <3>1, AppendIsConcat
    <3> QED BY <3>2, <3>3
  <2> QED BY <2>1
<1>2. own \in AreaGuids(i, j)
      /\ \A kind \in {"text", "clock"} : \A k \in Indices : Guid(kind, <<i, j, k>>) \in AreaGuids(i, j)
  BY DEF AreaGuids
<1>3. \A kind, other \in {"text", "clock"} : \A k, k1 \in Indices :
         /\ Guid(kind, <<i, j, k>>) = Guid(other, <<i, j, k1>>) => k = k1
         /\ Guid(kind, <<i, j, k>>) # own
  BY GuidsDiffer
<1> HIDE DEF path, own
<1>4. /\ DOMAIN f = DOMAIN area.items /\ DOMAIN area.items = 1..Len(area.items)
      /\ IsList(f) /\ Len(f) = Len(area.items) /\ \A k \in 1..Len(f) : IsList(f[k])
      /\ \A k \in DOMAIN area.items : f[k] = WriteItem(area.items[k], Append(path, k - 1))
  BY <1>0, AreaPartsAre
<1>5. s = Chain(<<own>>, FlattenSeq(gg))
  BY <1>0, AreaSays DEF own
<1> HIDE DEF f, s
<1>6. /\ IsList(gg) /\ Len(gg) = Len(f)
      /\ \A k \in 1..Len(f) : gg[k] = Column(f[k], "guid") /\ IsList(gg[k])
      /\ IsList(FlattenSeq(gg))
  BY <1>4, ColumnsAre
<1> HIDE DEF gg
<1>7. ASSUME NEW k \in 1..Len(gg)
      PROVE  /\ k - 1 \in Indices
             /\ \E kind \in {"text", "clock"} : gg[k] = <<Guid(kind, <<i, j, k - 1>>)>>
  <2>1. k \in DOMAIN area.items /\ k - 1 \in Indices /\ gg[k] = Column(f[k], "guid")
    BY <1>0, <1>4, <1>6
  <2>2. f[k] = WriteItem(area.items[k], Append(path, k - 1)) /\ Append(path, k - 1) = <<i, j, k - 1>>
    BY <1>1, <1>4, <2>1
  <2>3. PICK kind \in {"text", "clock"} :
           Column(WriteItem(area.items[k], Append(path, k - 1)), "guid") = <<Guid(kind, Append(path, k - 1))>>
    BY ItemSays
  <2> QED BY <2>1, <2>2, <2>3
<1>8. ASSUME NEW k \in 1..Len(gg)
      PROVE  /\ IsList(gg[k]) /\ IsInjective(gg[k]) /\ Len(gg[k]) = 1
             /\ \E kind \in {"text", "clock"} : ToSet(gg[k]) = {Guid(kind, <<i, j, k - 1>>)}
  BY <1>7, OneIsInjective
<1>9. ASSUME NEW k \in 1..Len(gg), NEW k1 \in 1..Len(gg), k # k1
      PROVE  ToSet(gg[k]) \cap ToSet(gg[k1]) = {}
  <2>1. PICK kind \in {"text", "clock"} : ToSet(gg[k]) = {Guid(kind, <<i, j, k - 1>>)}
    BY <1>8
  <2>2. PICK other \in {"text", "clock"} : ToSet(gg[k1]) = {Guid(other, <<i, j, k1 - 1>>)}
    BY <1>8
  <2>3. k - 1 \in Indices /\ k1 - 1 \in Indices /\ k - 1 # k1 - 1
    <3>1. k \in Int /\ k1 \in Int
      OBVIOUS
    <3>2. k - 1 # k1 - 1
      BY <3>1, <1>9
    <3>3. k - 1 \in Indices
      BY <1>7
    <3>4. k1 - 1 \in Indices
      BY <1>7
    <3> QED BY <3>2, <3>3, <3>4
  <2>4. Guid(kind, <<i, j, k - 1>>) # Guid(other, <<i, j, k1 - 1>>)
    BY <1>3, <2>3
  <2> QED BY <2>1, <2>2, <2>4
<1>10. IsInjective(FlattenSeq(gg)) /\ Len(FlattenSeq(gg)) = Len(gg)
       /\ ToSet(FlattenSeq(gg)) \subseteq UNION {ToSet(gg[k]) : k \in 1..Len(gg)}
  <2>1. \A k \in 1..Len(gg) : IsList(gg[k]) /\ IsInjective(gg[k]) /\ Len(gg[k]) = 1
    BY <1>8
  <2>2. \A k, k1 \in 1..Len(gg) : k # k1 => ToSet(gg[k]) \cap ToSet(gg[k1]) = {}
    BY <1>9
  <2>3. IsInjective(FlattenSeq(gg))
    BY <1>6, <2>1, <2>2, InjectiveFlat
  <2>4. Len(FlattenSeq(gg)) = Len(gg)
    BY <1>6, <2>1, FlatOfOnes
  <2>5. ToSet(FlattenSeq(gg)) \subseteq UNION {ToSet(gg[k]) : k \in 1..Len(gg)}
    BY <1>6, <2>1, FlatIsList
  <2> QED BY <2>3, <2>4, <2>5
<1>11. \A k \in 1..Len(gg) : ToSet(gg[k]) \subseteq AreaGuids(i, j) /\ own \notin ToSet(gg[k])
  <2>1. ASSUME NEW k \in 1..Len(gg)
        PROVE  ToSet(gg[k]) \subseteq AreaGuids(i, j) /\ own \notin ToSet(gg[k])
    <3>1. PICK kind \in {"text", "clock"} : ToSet(gg[k]) = {Guid(kind, <<i, j, k - 1>>)}
      BY <1>8
    <3>2. PICK n : n = k - 1 /\ n \in Indices
      BY <1>7
    <3>3. Guid(kind, <<i, j, n>>) \in AreaGuids(i, j) /\ Guid(kind, <<i, j, n>>) # own
      BY <1>2, <1>3, <3>2
    <3> QED BY <3>1, <3>2, <3>3
  <2> QED BY <2>1
<1>12. ToSet(FlattenSeq(gg)) \subseteq AreaGuids(i, j) /\ own \notin ToSet(FlattenSeq(gg))
  BY <1>10, <1>11
<1>13. PICK h : h = <<own>> /\ IsList(h) /\ IsInjective(h) /\ ToSet(h) = {own} /\ Len(h) = 1
  BY OneIsInjective
<1>14. /\ Len(Chain(h, FlattenSeq(gg))) = 1 + Len(FlattenSeq(gg))
       /\ ToSet(Chain(h, FlattenSeq(gg))) \subseteq {own} \cup ToSet(FlattenSeq(gg))
       /\ IsInjective(Chain(h, FlattenSeq(gg))) /\ IsList(Chain(h, FlattenSeq(gg)))
  <2>1. PICK t : t = FlattenSeq(gg) /\ IsList(t) /\ IsInjective(t) /\ own \notin ToSet(t)
    BY <1>6, <1>10, <1>12
  <2>2. IsList(h) /\ IsInjective(h) /\ Len(h) = 1 /\ ToSet(h) = {own} /\ ToSet(h) \cap ToSet(t) = {}
    BY <1>13, <2>1
  <2>3. /\ Len(Chain(h, t)) = Len(h) + Len(t)
        /\ ToSet(Chain(h, t)) \subseteq ToSet(h) \cup ToSet(t)
        /\ IsInjective(Chain(h, t))
    BY <2>1, <2>2, ChainCounts
  <2>4. IsList(Chain(h, t))
    BY <2>1, <2>2, Chained
  <2> QED BY <2>1, <2>2, <2>3, <2>4
<1>15. s = Chain(h, FlattenSeq(gg))
  BY <1>5, <1>13
<1>16. IsList(s) /\ IsInjective(s) /\ ToSet(s) \subseteq AreaGuids(i, j) /\ Len(s) = 1 + Len(area.items)
  BY <1>2, <1>4, <1>6, <1>10, <1>12, <1>14, <1>15
<1> QED BY <1>16 DEF s, path

\* What there is one of for every area of a program ...
AreasOf(program) == [j \in DOMAIN program.areas |-> <<program.areas[j]>>]

\* ... and for every item, of an area ...
ItemsOfArea(area) == FlattenSeq([k \in DOMAIN area.items |-> <<area.items[k]>>])

\* ... and of a program.
ItemsOf(program) == [j \in DOMAIN program.areas |-> ItemsOfArea(program.areas[j])]

\* The guids in a program: its own, and those of its areas and of their items, no two the same.
LEMMA GuidsOfProgram ==
  ASSUME NEW i \in Indices, NEW program, Siblings(program.areas),
         \A area \in ToSet(program.areas) : Siblings(area.items)
  PROVE  LET s == Column(WriteProgram(program, i), "guid") IN
         /\ IsList(s) /\ IsInjective(s) /\ ToSet(s) \subseteq ProgramGuids(i)
         /\ Len(s) = 1 + Len(FlattenSeq(AreasOf(program))) + Len(FlattenSeq(ItemsOf(program)))
         /\ IsList(FlattenSeq(AreasOf(program))) /\ IsList(FlattenSeq(ItemsOf(program)))
<1> DEFINE s == Column(WriteProgram(program, i), "guid")
<1> DEFINE own == Guid("program", <<i>>)
<1> DEFINE f == ProgramParts(program, i)
<1> DEFINE gg == Columns(f, "guid")
<1> DEFINE n == Len(program.areas)
<1>1. /\ IsList(program.areas) /\ \A j \in DOMAIN program.areas : j - 1 \in Indices
      /\ \A area \in ToSet(program.areas) : IsList(area.items)
  BY DEF Siblings
<1>2. /\ DOMAIN program.areas = 1..n /\ n \in Nat
      /\ IsList(f) /\ Len(f) = n /\ \A j \in 1..Len(f) : IsList(f[j])
      /\ \A j \in DOMAIN program.areas : f[j] = WriteArea(program.areas[j], <<i, j - 1>>)
  BY <1>1, ProgramPartsAre
<1>3. s = Chain(<<own>>, FlattenSeq(gg))
  BY <1>1, ProgramSays
<1> HIDE DEF f, s
<1>4. /\ IsList(gg) /\ Len(gg) = Len(f)
      /\ \A j \in 1..Len(f) : gg[j] = Column(f[j], "guid")
      /\ IsList(FlattenSeq(gg))
  BY <1>2, ColumnsAre
<1>5. own \in ProgramGuids(i) /\ \A j \in Indices : AreaGuids(i, j) \subseteq ProgramGuids(i)
  BY DEF ProgramGuids
<1>6. \A j \in Indices : own \notin AreaGuids(i, j)
  BY AreasDiffer
<1> HIDE DEF gg, own
<1>7. ASSUME NEW j \in 1..n
      PROVE  /\ j - 1 \in Indices
             /\ IsList(gg[j]) /\ IsInjective(gg[j]) /\ ToSet(gg[j]) \subseteq AreaGuids(i, j - 1)
             /\ Len(gg[j]) = 1 + Len(program.areas[j].items)
             /\ IsList(program.areas[j].items)
  <2>1. PICK k : k = j - 1 /\ k \in Indices
    BY <1>1, <1>2
  <2>2. PICK area : area = program.areas[j] /\ area \in ToSet(program.areas)
    BY <1>1, <1>2, ListDomain
  <2>3. Siblings(area.items)
    BY <2>2
  <2>4. gg[j] = Column(WriteArea(area, <<i, k>>), "guid")
    BY <1>2, <1>4, <2>1, <2>2
  <2>5. /\ IsList(gg[j]) /\ IsInjective(gg[j]) /\ ToSet(gg[j]) \subseteq AreaGuids(i, k)
        /\ Len(gg[j]) = 1 + Len(area.items)
    BY <2>1, <2>3, <2>4, GuidsOfArea
  <2> QED BY <1>1, <2>1, <2>2, <2>5
<1>8. ASSUME NEW j \in 1..n, NEW k \in 1..n, j # k
      PROVE  ToSet(gg[j]) \cap ToSet(gg[k]) = {}
  <2>1. PICK a : a = j - 1 /\ a \in Indices
    BY <1>7
  <2>2. PICK b : b = k - 1 /\ b \in Indices
    BY <1>7
  <2>3. j \in Int /\ k \in Int
    OBVIOUS
  <2>4. a # b
    BY <1>8, <2>1, <2>2, <2>3
  <2>5. AreaGuids(i, a) \cap AreaGuids(i, b) = {}
    BY <2>1, <2>2, <2>4, AreasDiffer
  <2>6. ToSet(gg[j]) \subseteq AreaGuids(i, a) /\ ToSet(gg[k]) \subseteq AreaGuids(i, b)
    BY <1>7, <2>1, <2>2
  <2> QED BY <2>5, <2>6
<1>9. IsInjective(FlattenSeq(gg)) /\ ToSet(FlattenSeq(gg)) \subseteq UNION {ToSet(gg[j]) : j \in 1..Len(gg)}
  <2>1. Len(gg) = n
    BY <1>2, <1>4
  <2>2. \A j \in 1..Len(gg) : IsList(gg[j]) /\ IsInjective(gg[j])
    BY <1>7, <2>1
  <2>3. \A j, k \in 1..Len(gg) : j # k => ToSet(gg[j]) \cap ToSet(gg[k]) = {}
    BY <1>8, <2>1
  <2>4. IsInjective(FlattenSeq(gg))
    BY <1>4, <2>2, <2>3, InjectiveFlat
  <2>5. ToSet(FlattenSeq(gg)) \subseteq UNION {ToSet(gg[j]) : j \in 1..Len(gg)}
    BY <1>4, <2>2, FlatIsList
  <2> QED BY <2>4, <2>5
<1>10. ToSet(FlattenSeq(gg)) \subseteq ProgramGuids(i) /\ own \notin ToSet(FlattenSeq(gg))
  <2>1. ASSUME NEW j \in 1..Len(gg)
        PROVE  ToSet(gg[j]) \subseteq ProgramGuids(i) /\ own \notin ToSet(gg[j])
    <3>1. PICK k \in Indices : ToSet(gg[j]) \subseteq AreaGuids(i, k)
      BY <1>2, <1>4, <1>7
    <3> QED BY <1>5, <1>6, <3>1
  <2> QED BY <1>9, <2>1
<1>11. /\ Len(FlattenSeq(gg)) = Len(FlattenSeq(AreasOf(program))) + Len(FlattenSeq(ItemsOf(program)))
       /\ IsList(FlattenSeq(AreasOf(program))) /\ IsList(FlattenSeq(ItemsOf(program)))
  <2> DEFINE aa == AreasOf(program)
  <2> DEFINE bb == ItemsOf(program)
  <2> DEFINE cc == [j \in 1..n |-> <<>>]
  <2>1. /\ aa = [j \in 1..n |-> aa[j]] /\ \A j \in 1..n : aa[j] = <<program.areas[j]>>
        /\ bb = [j \in 1..n |-> bb[j]] /\ \A j \in 1..n : bb[j] = ItemsOfArea(program.areas[j])
        /\ cc = [j \in 1..n |-> cc[j]] /\ \A j \in 1..n : cc[j] = <<>>
    BY <1>2 DEF AreasOf, ItemsOf
  <2> HIDE DEF aa, bb, cc
  <2>2. IsList(aa) /\ Len(aa) = n
    BY <1>2, <2>1, FunctionIsList
  <2>3. IsList(bb) /\ Len(bb) = n
    BY <1>2, <2>1, FunctionIsList
  <2>4. IsList(cc) /\ Len(cc) = n
    BY <1>2, <2>1, FunctionIsList
  <2>5. ASSUME NEW j \in 1..n
        PROVE  /\ IsList(gg[j]) /\ IsList(aa[j]) /\ IsList(bb[j]) /\ IsList(cc[j])
               /\ Len(gg[j]) = Len(aa[j]) + Len(bb[j]) + Len(cc[j])
    <3>1. IsList(aa[j]) /\ Len(aa[j]) = 1
      BY <2>1, OneIsInjective
    <3>2. PICK area : area = program.areas[j] /\ IsList(area.items)
      BY <1>7
    <3>3. IsList(bb[j]) /\ Len(bb[j]) = Len(area.items)
      BY <2>1, <3>2, OnesOf DEF ItemsOfArea
    <3>4. IsList(cc[j]) /\ Len(cc[j]) = 0
      <4>1. cc[j] = <<>>
        BY <2>1
      <4>2. Len(<<>>) = 0
        OBVIOUS
      <4> QED BY <4>1, <4>2, NoneIsList
    <3>5. Len(gg[j]) = 1 + Len(area.items) /\ Len(area.items) \in Nat
      BY <1>7, <3>2 DEF IsList
    <3> QED BY <1>7, <3>1, <3>3, <3>4, <3>5
  <2>6. Len(gg) = n
    BY <1>2, <1>4
  <2>7. Len(FlattenSeq(gg)) = Len(FlattenSeq(aa)) + Len(FlattenSeq(bb)) + Len(FlattenSeq(cc))
    <3>1. Len(aa) = Len(gg) /\ Len(bb) = Len(gg) /\ Len(cc) = Len(gg)
      BY <2>2, <2>3, <2>4, <2>6
    <3>2. \A j \in 1..Len(gg) : /\ IsList(gg[j]) /\ IsList(aa[j]) /\ IsList(bb[j]) /\ IsList(cc[j])
                                 /\ Len(gg[j]) = Len(aa[j]) + Len(bb[j]) + Len(cc[j])
      BY <2>5, <2>6
    <3>3. Adds(gg, aa, bb, cc)
      BY <1>4, <2>2, <2>3, <2>4, <3>1, <3>2 DEF Adds
    <3> QED BY <3>3, FlatLengths
  <2>8. FlattenSeq(cc) = <<>>
    BY <2>1, <2>4, FlatOfEmpty
  <2>9. IsList(FlattenSeq(aa)) /\ IsList(FlattenSeq(bb))
    BY <2>2, <2>3, <2>5, FlatIsList
  <2>10. Len(FlattenSeq(cc)) = 0 /\ Len(FlattenSeq(aa)) \in Nat /\ Len(FlattenSeq(bb)) \in Nat
    BY <2>8, <2>9 DEF IsList
  <2> QED BY <2>7, <2>9, <2>10 DEF aa, bb
<1>12. PICK h : h = <<own>> /\ IsList(h) /\ IsInjective(h) /\ ToSet(h) = {own} /\ Len(h) = 1
  BY OneIsInjective
<1>13. PICK t : t = FlattenSeq(gg) /\ IsList(t) /\ IsInjective(t) /\ own \notin ToSet(t)
  BY <1>4, <1>9, <1>10
<1>14. /\ Len(Chain(h, t)) = Len(h) + Len(t)
       /\ ToSet(Chain(h, t)) \subseteq ToSet(h) \cup ToSet(t)
       /\ IsInjective(Chain(h, t))
  <2>1. ToSet(h) \cap ToSet(t) = {}
    BY <1>12, <1>13
  <2> QED BY <1>12, <1>13, <2>1, ChainCounts
<1>15. IsList(Chain(h, t)) /\ s = Chain(h, t)
  BY <1>3, <1>12, <1>13, Chained
<1>16. ToSet(s) \subseteq ProgramGuids(i)
  BY <1>5, <1>10, <1>12, <1>13, <1>14, <1>15
<1>17. Len(s) = 1 + Len(FlattenSeq(AreasOf(program))) + Len(FlattenSeq(ItemsOf(program)))
  <2>1. /\ Len(FlattenSeq(AreasOf(program))) \in Nat /\ Len(FlattenSeq(ItemsOf(program))) \in Nat
        /\ Len(s) = 1 + Len(t) /\ Len(t) = Len(FlattenSeq(AreasOf(program))) + Len(FlattenSeq(ItemsOf(program)))
    BY <1>11, <1>12, <1>13, <1>14, <1>15 DEF IsList
  <2> QED BY <2>1
<1>18. IsList(s) /\ IsInjective(s)
  BY <1>14, <1>15
<1> QED BY <1>11, <1>16, <1>17, <1>18 DEF s

\* The guids in a screen: one for every program, area and item, no two the same.
LEMMA GuidsOfScreen ==
  ASSUME NEW screen, IsScreen(screen)
  PROVE  LET s == Column(ToProgramXml(screen), "guid") IN
         /\ IsInjective(s)
         /\ Len(s) = Len(screen) + Len(EachArea(screen, LAMBDA area : <<area>>))
                                 + Len(EachItem(screen, LAMBDA item : <<item>>))
<1> DEFINE s == Column(ToProgramXml(screen), "guid")
<1> DEFINE f == ScreenParts(screen)
<1> DEFINE gg == Columns(f, "guid")
<1> DEFINE n == Len(screen)
<1>1. /\ IsList(screen) /\ \A i \in DOMAIN screen : i - 1 \in Indices
      /\ \A program \in ToSet(screen) :
            /\ Siblings(program.areas)
            /\ \A area \in ToSet(program.areas) : Siblings(area.items)
  BY DEF IsScreen, Siblings
<1>2. /\ DOMAIN screen = 1..n /\ n \in Nat
      /\ IsList(f) /\ Len(f) = n /\ \A i \in 1..Len(f) : IsList(f[i])
      /\ \A i \in DOMAIN screen : f[i] = WriteProgram(screen[i], i - 1)
  BY ScreenPartsAre
<1>3. s = FlattenSeq(gg)
  BY ScreenSays DEF Things
<1> HIDE DEF f, s
<1>4. /\ IsList(gg) /\ Len(gg) = Len(f)
      /\ \A i \in 1..Len(f) : gg[i] = Column(f[i], "guid")
  BY <1>2, ColumnsAre
<1> HIDE DEF gg
<1> DEFINE A(program) == FlattenSeq(AreasOf(program))
<1> DEFINE B(program) == FlattenSeq(ItemsOf(program))
<1>5. ASSUME NEW i \in 1..n
      PROVE  /\ i - 1 \in Indices
             /\ IsList(gg[i]) /\ IsInjective(gg[i]) /\ ToSet(gg[i]) \subseteq ProgramGuids(i - 1)
             /\ Len(gg[i]) = 1 + Len(A(screen[i])) + Len(B(screen[i]))
             /\ IsList(A(screen[i])) /\ IsList(B(screen[i]))
  <2>1. PICK k : k = i - 1 /\ k \in Indices
    BY <1>1, <1>2
  <2>2. PICK program : program = screen[i] /\ program \in ToSet(screen)
    BY <1>1, <1>2, ListDomain
  <2>3. Siblings(program.areas) /\ \A area \in ToSet(program.areas) : Siblings(area.items)
    BY <1>1, <2>2
  <2>4. gg[i] = Column(WriteProgram(program, k), "guid")
    BY <1>2, <1>4, <2>1, <2>2
  <2>5. /\ IsList(gg[i]) /\ IsInjective(gg[i]) /\ ToSet(gg[i]) \subseteq ProgramGuids(k)
        /\ Len(gg[i]) = 1 + Len(A(program)) + Len(B(program))
        /\ IsList(A(program)) /\ IsList(B(program))
    BY <2>1, <2>3, <2>4, GuidsOfProgram
  <2> HIDE DEF A, B
  <2> QED BY <2>1, <2>2, <2>5
<1>6. /\ EachArea(screen, LAMBDA area : <<area>>) = FlattenSeq([i \in DOMAIN screen |-> A(screen[i])])
      /\ EachItem(screen, LAMBDA item : <<item>>) = FlattenSeq([i \in DOMAIN screen |-> B(screen[i])])
  BY Zenon DEF EachArea, EachItem, ForEach, AreasOf, ItemsOf, ItemsOfArea
<1> HIDE DEF A, B
<1>7. ASSUME NEW i \in 1..n, NEW k \in 1..n, i # k
      PROVE  ToSet(gg[i]) \cap ToSet(gg[k]) = {}
  <2>1. PICK a : a = i - 1 /\ a \in Indices
    BY <1>5
  <2>2. PICK b : b = k - 1 /\ b \in Indices
    BY <1>5
  <2>3. i \in Int /\ k \in Int
    OBVIOUS
  <2>4. a # b
    BY <1>7, <2>1, <2>2, <2>3
  <2>5. ProgramGuids(a) \cap ProgramGuids(b) = {}
    BY <2>1, <2>2, <2>4, ProgramsDiffer
  <2>6. ToSet(gg[i]) \subseteq ProgramGuids(a) /\ ToSet(gg[k]) \subseteq ProgramGuids(b)
    BY <1>5, <2>1, <2>2
  <2> QED BY <2>5, <2>6
<1>8. Len(gg) = n
  BY <1>2, <1>4
<1>9. IsInjective(FlattenSeq(gg))
  <2>1. \A i \in 1..Len(gg) : IsList(gg[i]) /\ IsInjective(gg[i])
    BY <1>5, <1>8
  <2>2. \A i, k \in 1..Len(gg) : i # k => ToSet(gg[i]) \cap ToSet(gg[k]) = {}
    BY <1>7, <1>8
  <2> QED BY <1>4, <2>1, <2>2, InjectiveFlat
<1> DEFINE one == [i \in DOMAIN screen |-> <<screen[i]>>]
<1> DEFINE aa == [i \in DOMAIN screen |-> A(screen[i])]
<1> DEFINE bb == [i \in DOMAIN screen |-> B(screen[i])]
<1>10. IsList(one) /\ Len(one) = n /\ (\A i \in 1..n : IsList(one[i]) /\ Len(one[i]) = 1)
       /\ Len(FlattenSeq(one)) = n
  <2>1. /\ IsList(one) /\ Len(one) = n
        /\ \A i \in 1..Len(one) : IsList(one[i]) /\ Len(one[i]) = 1
        /\ Len(FlattenSeq(one)) = n
    BY <1>1, OnesOf
  <2> HIDE DEF one
  <2> QED BY <2>1
<1>11. /\ aa = [i \in 1..n |-> aa[i]] /\ \A i \in 1..n : aa[i] = A(screen[i])
       /\ bb = [i \in 1..n |-> bb[i]] /\ \A i \in 1..n : bb[i] = B(screen[i])
  BY <1>2
<1> HIDE DEF one, aa, bb
<1>12. IsList(aa) /\ Len(aa) = n
  BY <1>2, <1>11, FunctionIsList
<1>13. IsList(bb) /\ Len(bb) = n
  BY <1>2, <1>11, FunctionIsList
<1>14. Len(FlattenSeq(gg)) = Len(FlattenSeq(one)) + Len(FlattenSeq(aa)) + Len(FlattenSeq(bb))
  <2>1. Len(one) = Len(gg) /\ Len(aa) = Len(gg) /\ Len(bb) = Len(gg)
    BY <1>8, <1>10, <1>12, <1>13
  <2>2. ASSUME NEW i \in 1..Len(gg)
        PROVE  /\ IsList(gg[i]) /\ IsList(one[i]) /\ IsList(aa[i]) /\ IsList(bb[i])
               /\ Len(gg[i]) = Len(one[i]) + Len(aa[i]) + Len(bb[i])
    BY <1>5, <1>8, <1>10, <1>11
  <2>3. IsList(gg) /\ IsList(one) /\ IsList(aa) /\ IsList(bb)
    BY <1>4, <1>10, <1>12, <1>13
  <2>4. Adds(gg, one, aa, bb)
    BY <2>1, <2>2, <2>3 DEF Adds
  <2> QED BY <2>4, FlatLengths
<1> QED BY <1>3, <1>6, <1>9, <1>10, <1>14 DEF s, aa, bb

\* The XML of a screen shows that screen.
LEMMA XmlShows ==
  ASSUME NEW screen, IsScreen(screen)
  PROVE  Shows(ToProgramXml(screen), screen)
<1> DEFINE xml == ToProgramXml(screen)
<1>1. /\ Column(xml, "name") = ForEach(screen, LAMBDA program : <<program.name>>)
      /\ Column(xml, "width") = EachArea(screen, LAMBDA area : <<ToString(area.width)>>)
      /\ Column(xml, "text") = EachItem(screen, TextOf)
      /\ Column(xml, "duration") = EachItem(screen, HeldFor)
  BY ScreenColumns
<1>2. /\ IsInjective(Column(xml, "guid"))
      /\ Len(Column(xml, "guid")) = Len(screen) + Len(EachArea(screen, LAMBDA area : <<area>>))
                                                + Len(EachItem(screen, LAMBDA item : <<item>>))
  BY GuidsOfScreen
<1>3. EachItem(screen, TextOf) = EachText(screen, LAMBDA item : <<item.text>>)
  BY Zenon DEF EachText, EachItem, EachArea, ForEach, TextOf
<1>4. ~Overflows(screen) => Column(xml, "duration") =
        EachText(screen, LAMBDA item : <<ToString(item.config.hold_secs * 10)>>)
  BY <1>1, HeldAsAsked
<1> HIDE DEF xml
<1>5. Shows(xml, screen)
  BY Zenon, <1>1, <1>2, <1>3, <1>4 DEF Shows
<1> QED BY <1>5 DEF xml

-----------------------------------------------------------------------------
(* What callers offer.                                                     *)

\* A document as wrap makes it of a body.
LEMMA WrapIsCarried ==
  ASSUME NEW g, NEW tag, NEW m, NEW r, NEW body, IsList(body)
  PROVE  Carried(Wrap(g, tag, m, r, body))
<1>1. \E a, b, c, d : Between(Wrap(g, tag, m, r, body), a, b, body, c, d)
  BY WrapIsList
<1>2. Len(body) \in Nat
  BY DEF IsList
<1> QED BY <1>1, <1>2 DEF Between, Carried

\* An info with another value in a field that it fits ...
LEMMA InfoWithValue ==
  ASSUME NEW rows, WellMade(rows), NEW info, IsInfo(rows, info), NEW f \in Read(Plain(rows)),
         NEW value, Fits(f, value)
  PROVE  IsInfo(rows, [info EXCEPT ![f.name] = value])
<1> DEFINE new == [info EXCEPT ![f.name] = value]
<1> DEFINE D == DOMAIN Default(rows)
<1>1. info = [name \in D |-> info[name]] /\ f.name \in D
  BY DefaultFields DEF IsInfo
<1>2. \A g \in Read(Plain(rows)) : g.name \in D /\ (g.name = f.name => g = f)
  BY DefaultFields DEF WellMade, Alike, Read
<1>3. \A row \in ToSet(rows) : row.form = "each" => row.list \in D /\ row.list # f.name
  <2>1. \A row \in ToSet(rows) : row.form = "each" => row.list \in Lists(rows)
    BY DEF Lists
  <2>2. \A list \in Lists(rows) : list \in D
    BY DefaultFields
  <2>3. f.name \notin Lists(rows)
    BY DEF WellMade
  <2> QED BY <2>1, <2>2, <2>3
<1> HIDE DEF D
<1>4. new = [name \in D |-> new[name]] /\ new[f.name] = value
      /\ \A name \in D \ {f.name} : new[name] = info[name]
  BY <1>1
<1> HIDE DEF new
<1>5. \A g \in Read(Plain(rows)) : Fits(g, new[g.name])
  <2>1. ASSUME NEW g \in Read(Plain(rows)) PROVE Fits(g, new[g.name])
    <3>1. CASE g.name = f.name
      <4>1. g = f
        BY <1>2, <3>1
      <4> QED BY <1>4, <4>1
    <3>2. CASE g.name # f.name
      <4>1. new[g.name] = info[g.name]
        BY <1>2, <1>4, <3>2
      <4> QED BY <4>1 DEF IsInfo
    <3> QED BY <3>1, <3>2
  <2> QED BY <2>1
<1>6. \A row \in ToSet(rows) : row.form = "each" => new[row.list] = info[row.list]
  BY <1>3, <1>4
<1>7. IsInfo(rows, new)
  BY <1>4, <1>5, <1>6 DEF IsInfo, D
<1> QED BY <1>7 DEF new

\* ... and with another list.
LEMMA InfoWithList ==
  ASSUME NEW rows, WellMade(rows), NEW info, IsInfo(rows, info), NEW row \in ToSet(rows),
         row.form = "each", NEW items, IsList(items), \A item \in ToSet(items) : HasFields(row.fields, item)
  PROVE  IsInfo(rows, [info EXCEPT ![row.list] = items])
<1> DEFINE new == [info EXCEPT ![row.list] = items]
<1> DEFINE D == DOMAIN Default(rows)
<1>1. info = [name \in D |-> info[name]] /\ row.list \in D
  BY DefaultFields DEF IsInfo, Lists
<1>2. \A g \in Read(Plain(rows)) : g.name \in D /\ g.name # row.list
  <2>1. row.list \in Lists(rows)
    BY DEF Lists
  <2>2. \A g \in Read(Plain(rows)) : g.name \in D
    BY DefaultFields
  <2>3. \A g \in Read(Plain(rows)) : g.name \notin Lists(rows)
    BY DEF WellMade
  <2> QED BY <2>1, <2>2, <2>3
<1>3. \A q \in ToSet(rows) : q.form = "each" => q = row
  BY DEF WellMade, ToSet
<1> HIDE DEF D
<1>4. new = [name \in D |-> new[name]] /\ new[row.list] = items
      /\ \A name \in D \ {row.list} : new[name] = info[name]
  BY <1>1
<1> HIDE DEF new
<1>5. \A g \in Read(Plain(rows)) : Fits(g, new[g.name])
  BY <1>2, <1>4 DEF IsInfo
<1>6. IsInfo(rows, new)
  BY <1>3, <1>4, <1>5 DEF IsInfo, D
<1> QED BY <1>6 DEF new

\* The fields of a luminance policy that the brightness wrappers set.
LEMMA LuminanceFields ==
  /\ \E f \in Read(Plain(Luminance.rows)) : f.name = "mode" /\ f.kind = "luminance"
  /\ \A name \in {"default_value", "sensor_min", "sensor_max", "sensor_time"} :
        \E f \in Read(Plain(Luminance.rows)) : f.name = name /\ f.kind = "u8"
  /\ \E row \in ToSet(Luminance.rows) : row.form = "each" /\ row.list = "items"
<1> DEFINE f1 == Field("value", "mode", "luminance", "Fixed")
<1> DEFINE f2 == Field("value", "default_value", "u8", 100)
<1> DEFINE f3 == Field("min", "sensor_min", "u8", 1)
<1> DEFINE f4 == Field("max", "sensor_max", "u8", 100)
<1> DEFINE f5 == Field("time", "sensor_time", "u8", 10)
<1> DEFINE r1 == One("mode", {f1})
<1> DEFINE r2 == One("default", {f2})
<1> DEFINE r3 == Opening("ploy", {})
<1> DEFINE r4 == Each("item", "items", {Field("enable", "enabled", "flag", TRUE),
                                        Field("start", "start", "text", "00:00:00"),
                                        Field("percent", "percent", "u8", 100)})
<1> DEFINE r5 == Closing("ploy")
<1> DEFINE r6 == One("sensor", {f3, f4, f5})
<1>1. Luminance.rows = <<r1, r2, r3, r4, r5, r6>>
  BY DEF Luminance, Setting
<1>2. /\ r1.form = "one" /\ r1.fields = {f1} /\ r2.form = "one" /\ r2.fields = {f2}
      /\ r6.form = "one" /\ r6.fields = {f3, f4, f5}
  BY DEF One, Row
<1>3. r4.form = "each" /\ r4.list = "items"
  BY DEF Each, Row
<1>4. /\ f1.name = "mode" /\ f1.kind = "luminance"
      /\ f2.name = "default_value" /\ f2.kind = "u8"
      /\ f3.name = "sensor_min" /\ f3.kind = "u8" /\ f4.name = "sensor_max" /\ f4.kind = "u8"
      /\ f5.name = "sensor_time" /\ f5.kind = "u8"
  BY DEF Field
<1> HIDE DEF f1, f2, f3, f4, f5, r1, r2, r3, r4, r5, r6
<1>5. ToSet(Luminance.rows) = {r1, r2, r3, r4, r5, r6}
  BY <1>1 DEF ToSet
<1>6. {f1, f2, f3, f4, f5} \subseteq Plain(Luminance.rows)
  BY <1>2, <1>5 DEF Plain
<1>7. {f1, f2, f3, f4, f5} \subseteq Read(Plain(Luminance.rows))
  BY <1>4, <1>6 DEF Read
<1> QED BY <1>3, <1>4, <1>5, <1>7

\* What fits a byte, and the modes.
LEMMA ByteFits ==
  ASSUME NEW f
  PROVE  /\ f.kind = "u8" => \A n \in Numbers \cap Values("u8") : Fits(f, n)
         /\ f.kind = "luminance" => Fits(f, "Scheduled") /\ Fits(f, "Sensor")
BY DEF Fits, Integral, LuminanceModes

\* The policies that the brightness wrappers write are of the type of the struct.
LEMMA PoliciesAreInfos ==
  ASSUME NEW a \in Numbers \cap Values("u8"), NEW b \in Numbers \cap Values("u8"),
         NEW t \in Numbers \cap Values("u8"), NEW policy, IsInfo(Luminance.rows, policy)
  PROVE  LET d == Default(Luminance.rows) IN
         /\ IsInfo(Luminance.rows, [d EXCEPT !.default_value = a])
         /\ IsInfo(Luminance.rows, [d EXCEPT !.mode = "Scheduled", !.items = policy.items])
         /\ IsInfo(Luminance.rows, [d EXCEPT !.mode = "Sensor", !.sensor_min = a,
                                             !.sensor_max = b, !.sensor_time = t])
<1> DEFINE d == Default(Luminance.rows)
<1> DEFINE rows == Luminance.rows
<1>1. WellMade(rows) /\ IsInfo(rows, d)
  BY LuminanceMade, DefaultIsInfo
<1>2. ASSUME NEW info, IsInfo(rows, info), NEW n \in Numbers \cap Values("u8"),
             NEW name \in {"default_value", "sensor_min", "sensor_max", "sensor_time"}
      PROVE  IsInfo(rows, [info EXCEPT ![name] = n])
  <2>1. PICK f \in Read(Plain(rows)) : f.name = name /\ f.kind = "u8"
    BY LuminanceFields
  <2>2. Fits(f, n)
    BY <2>1, ByteFits
  <2> QED BY <1>1, <1>2, <2>1, <2>2, InfoWithValue
<1>3. ASSUME NEW mode \in {"Scheduled", "Sensor"} PROVE IsInfo(rows, [d EXCEPT !["mode"] = mode])
  <2>1. PICK f \in Read(Plain(rows)) : f.name = "mode" /\ f.kind = "luminance"
    BY LuminanceFields
  <2>2. Fits(f, mode)
    BY <2>1, ByteFits
  <2> QED BY <1>1, <2>1, <2>2, InfoWithValue
<1> HIDE DEF d, rows
<1>4. IsInfo(rows, [d EXCEPT !.default_value = a])
  BY <1>1, <1>2
<1>5. IsInfo(rows, [d EXCEPT !.mode = "Scheduled", !.items = policy.items])
  <2> DEFINE e == [d EXCEPT !.mode = "Scheduled"]
  <2>1. IsInfo(rows, e)
    BY <1>3
  <2>2. [d EXCEPT !.mode = "Scheduled", !.items = policy.items] = [e EXCEPT !["items"] = policy.items]
    OBVIOUS
  <2> HIDE DEF e
  <2>3. PICK row \in ToSet(rows) : row.form = "each" /\ row.list = "items"
    BY LuminanceFields DEF rows
  <2>4. IsList(policy["items"]) /\ \A item \in ToSet(policy["items"]) : HasFields(row.fields, item)
    BY <2>3 DEF IsInfo, rows
  <2>5. IsInfo(rows, [e EXCEPT !["items"] = policy["items"]])
    BY <1>1, <2>1, <2>3, <2>4, InfoWithList
  <2> QED BY <2>2, <2>5
<1>6. IsInfo(rows, [d EXCEPT !.mode = "Sensor", !.sensor_min = a, !.sensor_max = b, !.sensor_time = t])
  <2> DEFINE e1 == [d EXCEPT !.mode = "Sensor"]
  <2> DEFINE e2 == [e1 EXCEPT !["sensor_min"] = a]
  <2> DEFINE e3 == [e2 EXCEPT !["sensor_max"] = b]
  <2> DEFINE e4 == [e3 EXCEPT !["sensor_time"] = t]
  <2>1. [d EXCEPT !.mode = "Sensor", !.sensor_min = a, !.sensor_max = b, !.sensor_time = t] = e4
    OBVIOUS
  <2>2. IsInfo(rows, e1)
    BY <1>3
  <2> HIDE DEF e1
  <2>3. IsInfo(rows, e2)
    BY <1>2, <2>2
  <2> HIDE DEF e2
  <2>4. IsInfo(rows, e3)
    BY <1>2, <2>3
  <2> HIDE DEF e3
  <2>5. IsInfo(rows, e4)
    BY <1>2, <2>4
  <2> QED BY <2>1, <2>5
<1> QED BY <1>4, <1>5, <1>6 DEF d, rows

\* A list of one.
LEMMA Alone ==
  ASSUME NEW x
  PROVE  /\ Append(<<>>, x) = <<x>> /\ ToSet(<<x>>) = {x}
         /\ Siblings(<<x>>)
<1> DEFINE s == <<x>>
<1>1. IsList(s) /\ ToSet(s) = {x}
  BY OneIsInjective
<1>2. DOMAIN s = {1}
  OBVIOUS
<1> HIDE DEF s
<1>3. 1 - 1 \in Indices
  BY ScreenAssumption
<1>4. Siblings(s)
  BY <1>1, <1>2, <1>3 DEF Siblings
<1>5. Append(<<>>, x) = <<x>>
  OBVIOUS
<1> QED BY <1>1, <1>4, <1>5 DEF s

\* What send_text builds is a screen.
LEMMA TextIsScreen ==
  ASSUME NEW w, NEW h, NEW text, NEW config, config.hold_secs \in Values("u32")
  PROVE  IsScreen(PushProgram(NewScreen, PushArea(NewProgram("text"),
                    AddText(FullScreen(w, h), text, config))))
<1> DEFINE item == [is |-> "text", text |-> text, config |-> config]
<1> DEFINE area == AddText(FullScreen(w, h), text, config)
<1> DEFINE program == PushArea(NewProgram("text"), area)
<1>1. area.items = Append(<<>>, item)
  BY DEF AddText, FullScreen, NewArea
<1>2. item.config.hold_secs \in Values("u32")
  OBVIOUS
<1> HIDE DEF item, area
<1>3. program.areas = Append(<<>>, area)
  BY DEF PushArea, NewProgram
<1> HIDE DEF program
<1>4. PushProgram(NewScreen, program) = Append(<<>>, program)
  BY DEF PushProgram, NewScreen
<1>5. /\ Siblings(area.items) /\ ToSet(area.items) = {item}
      /\ Siblings(program.areas) /\ ToSet(program.areas) = {area}
  BY <1>1, <1>3, Alone
<1> DEFINE screen == PushProgram(NewScreen, program)
<1>6. Siblings(screen) /\ ToSet(screen) = {program}
  BY <1>4, Alone
<1> HIDE DEF screen
<1>7. IsScreen(screen)
  BY <1>2, <1>5, <1>6 DEF IsScreen
<1> QED BY <1>7 DEF screen, program, area

\* What a sound command says of itself.
LEMMA SoundKinds ==
  ASSUME NEW cmd, Sound(cmd)
  PROVE  /\ cmd.op \in {"get"} \cup Changes
         /\ cmd.op = "get" => cmd.topic \in DOMAIN Settings /\ cmd.method = Settings[cmd.topic].get
         /\ cmd.op = "set" => /\ cmd.topic \in Settable /\ cmd.method = Settings[cmd.topic].set
                              /\ IsInfo(Rows(cmd.topic), cmd.arg)
         /\ cmd.op = "clear" => cmd.topic = "logo" /\ cmd.method = ClearBootLogo
         /\ cmd.op = "delete" => /\ cmd.topic = "files" /\ cmd.method = "DeleteFiles"
                                 /\ Deletable(cmd.arg)
         /\ cmd.op = "send" => /\ cmd.topic = "program" /\ cmd.method = "AddProgram"
                               /\ IsScreen(cmd.arg)
<1>1. CASE cmd.topic \in DOMAIN Settings /\ cmd = Get(cmd.topic)
  <2>1. cmd.op = "get" /\ cmd.method = Settings[cmd.topic].get
    BY <1>1 DEF Get, Command
  <2> QED BY <1>1, <2>1
<1>2. CASE cmd.topic \in Settable /\ cmd = Set(cmd.topic, cmd.arg) /\ IsInfo(Rows(cmd.topic), cmd.arg)
  <2>1. cmd.op = "set" /\ cmd.method = Settings[cmd.topic].set
    BY <1>2 DEF Set, Command
  <2> QED BY <1>2, <2>1 DEF Changes
<1>3. CASE cmd = ClearLogo
  BY <1>3 DEF ClearLogo, Command, Changes
<1>4. CASE cmd = Delete(cmd.arg) /\ Deletable(cmd.arg)
  <2>1. cmd.op = "delete" /\ cmd.topic = "files" /\ cmd.method = "DeleteFiles"
    BY <1>4 DEF Delete, Command
  <2> QED BY <1>4, <2>1 DEF Changes
<1>5. CASE cmd = SendScreen(cmd.arg) /\ IsScreen(cmd.arg)
  <2>1. cmd.op = "send" /\ cmd.topic = "program" /\ cmd.method = "AddProgram"
    BY <1>5 DEF SendScreen, Command
  <2> QED BY <1>5, <2>1 DEF Changes
<1> QED BY <1>1, <1>2, <1>3, <1>4, <1>5 DEF Sound

\* The body of a request.
BodyOf(cmd) == CASE cmd.op = "send"   -> ToProgramXml(cmd.arg)
                 [] cmd.op = "set"    -> WriteBody(Rows(cmd.topic), cmd.arg)
                 [] cmd.op = "delete" -> DeleteFiles(cmd.arg)
                 [] OTHER             -> <<>>

\* It has nothing in it like the envelope around it.
LEMMA BodyOfIsInner ==
  ASSUME NEW cmd, Sound(cmd)
  PROVE  Inner(BodyOf(cmd)) /\ Request(cmd) = EncodeRequest(SessionGuid, cmd.method, BodyOf(cmd))
<1>1. Request(cmd) = EncodeRequest(SessionGuid, cmd.method, BodyOf(cmd))
  BY DEF Request, BodyOf, EncodePush, ProgramPush
<1>2. CASE cmd.op = "set"
  <2>1. cmd.topic \in DOMAIN Settings /\ IsInfo(Rows(cmd.topic), cmd.arg)
    BY <1>2, SoundKinds DEF Settable
  <2>2. Inner(WriteBody(Rows(cmd.topic), cmd.arg))
    BY <2>1, RowsMade, WrittenIsInner
  <2> QED BY <1>1, <1>2, <2>2 DEF BodyOf
<1>3. CASE cmd.op = "delete"
  <2>1. IsList(cmd.arg)
    BY <1>3, SoundKinds DEF Deletable
  <2>2. Inner(DeleteFiles(cmd.arg))
    BY <2>1, DeleteIsInner
  <2> QED BY <1>1, <1>3, <2>2 DEF BodyOf
<1>4. CASE cmd.op = "send"
  <2>1. IsScreen(cmd.arg)
    BY <1>4, SoundKinds
  <2>2. Inner(ToProgramXml(cmd.arg))
    BY <2>1, ScreenIsWithin DEF Within
  <2> QED BY <1>1, <1>4, <2>2 DEF BodyOf
<1>5. CASE cmd.op \notin {"send", "set", "delete"}
  <2>1. Inner(<<>>)
    <3> DEFINE none == <<>>
    <3>1. IsList(none) /\ Len(none) = 0
      BY NoneIsList
    <3> HIDE DEF none
    <3>2. Inner(none)
      BY <3>1 DEF Inner
    <3> QED BY <3>2 DEF none
  <2> QED BY <1>1, <1>5, <2>1 DEF BodyOf
<1> QED BY <1>2, <1>3, <1>4, <1>5

\* A sound command makes a document ...
LEMMA RequestIsCarried ==
  ASSUME NEW cmd, Sound(cmd)
  PROVE  Carried(Request(cmd))
BY BodyOfIsInner, WrapIsCarried DEF EncodeRequest, Inner

\* ... with a method that this crate knows, and that is read out of it.
LEMMA MethodIsRead ==
  ASSUME NEW cmd, Sound(cmd)
  PROVE  /\ Known(cmd.method) /\ cmd.method # Absent
         /\ DecodeReply(Request(cmd)).method = cmd.method
<1>1. cmd.op \in {"get", "set", "clear", "delete", "send"}
  BY SoundKinds DEF Changes
<1>2. Known(cmd.method) /\ cmd.method # Absent
  <2>1. CASE cmd.op = "get"
    BY <2>1, SoundKinds, GetsKnown
  <2>2. CASE cmd.op = "set"
    BY <2>2, SoundKinds, SetsKnown
  <2>3. CASE cmd.op = "clear"
    BY <2>3, SoundKinds, CommandsAssumption DEF Known, ClearBootLogo, Absent
  <2>4. CASE cmd.op = "delete"
    BY <2>4, SoundKinds, CommandsAssumption DEF Known, Absent
  <2>5. CASE cmd.op = "send"
    BY <2>5, SoundKinds, CommandsAssumption DEF Known, Absent
  <2> QED BY <1>1, <2>1, <2>2, <2>3, <2>4, <2>5
<1>3. Inner(BodyOf(cmd)) /\ Request(cmd) = EncodeRequest(SessionGuid, cmd.method, BodyOf(cmd))
  BY BodyOfIsInner
<1>4. SessionGuid # Unreadable /\ Absent # Unreadable
  BY DEF SessionGuid, Absent, Unreadable
<1>5. DecodeReply(Request(cmd)) = Heard(SessionGuid, cmd.method, Absent)
  BY <1>2, <1>3, <1>4, EnvelopeIsRead DEF EncodeRequest
<1> QED BY <1>2, <1>5 DEF Heard

\* Every wrapper offers sound commands, about the topic it is for.
LEMMA OfferedIsSound ==
  ASSUME NEW c \in Callers, InfoInv(c), NEW topic \in DOMAIN Settings \cup {"program"},
         NEW cmd \in Offered(c, topic)
  PROVE  Sound(cmd) /\ cmd.topic = topic
<1>1. ASSUME topic \in DOMAIN Settings PROVE Sound(Get(topic)) /\ Get(topic).topic = topic
  <2>1. Get(topic).topic = topic
    BY DEF Get, Command
  <2> QED BY <1>1, <2>1 DEF Sound
<1>2. ASSUME topic \in Settable, NEW info, IsInfo(Rows(topic), info)
      PROVE  Sound(Set(topic, info)) /\ Set(topic, info).topic = topic
  <2>1. Set(topic, info).topic = topic /\ Set(topic, info).arg = info
    BY DEF Set, Command
  <2> QED BY <1>2, <2>1 DEF Sound
<1>3. ASSUME NEW screen, IsScreen(screen)
      PROVE  Sound(SendScreen(screen)) /\ SendScreen(screen).topic = "program"
  <2>1. SendScreen(screen).topic = "program" /\ SendScreen(screen).arg = screen
    BY DEF SendScreen, Command
  <2> QED BY <1>3, <2>1 DEF Sound
<1>4. CASE topic = "program"
  <2>1. cmd \in {SendScreen(s) : s \in Screens} \cup {SendText("hi", TextConfig)}
    BY <1>4 DEF Offered
  <2>2. \A s \in Screens : IsScreen(s)
    BY CommandsAssumption
  <2>3. \E s : IsScreen(s) /\ cmd = SendScreen(s)
    BY <2>1, <2>2, TextIsScreen, ScreenAssumption DEF SendText
  <2> QED BY <1>3, <1>4, <2>3
<1>5. CASE topic = "files"
  <2>1. cmd \in {Get(topic)} \cup {Delete(names) : names \in Samples.files}
    BY <1>5 DEF Offered
  <2>2. topic \in DOMAIN Settings
    BY <1>5, SettingsFields
  <2>3. ASSUME NEW names \in Samples.files PROVE Sound(Delete(names)) /\ Delete(names).topic = "files"
    <3>1. Delete(names).topic = "files" /\ Delete(names).arg = names
      BY DEF Delete, Command
    <3>2. Deletable(names)
      BY CommandsAssumption DEF Deletable
    <3> QED BY <3>1, <3>2 DEF Sound
  <2> QED BY <1>1, <1>5, <2>1, <2>2, <2>3
<1>6. CASE topic = "device"
  <2>1. cmd = Get(topic)
    BY <1>6 DEF Offered
  <2>2. topic \in DOMAIN Settings
    BY <1>6, SettingsFields
  <2> QED BY <1>1, <2>1, <2>2
<1>7. CASE topic \notin {"program", "files", "device"}
  <2>1. topic \in Settable /\ topic \in DOMAIN Settings
    BY <1>7 DEF Settable
  <2>2. \/ cmd = Get(topic)
        \/ \E info \in Given(c, topic) : cmd = Set(topic, info)
        \/ topic = "logo" /\ cmd = ClearLogo
        \/ topic = "luminance" /\ \E p \in Percents : cmd = SetBrightnessManual(p)
        \/ topic = "luminance" /\ \E i \in Samples.luminance : cmd = SetBrightnessScheduled(i.items)
        \/ topic = "luminance" /\ \E p \in Percents : cmd = SetBrightnessSensor(1, p, 10)
    BY <1>7 DEF Offered
  <2>3. CASE cmd = Get(topic)
    BY <1>1, <2>1, <2>3
  <2>4. CASE \E info \in Given(c, topic) : cmd = Set(topic, info)
    <3>1. PICK info \in Given(c, topic) : cmd = Set(topic, info)
      BY <2>4
    <3>2. IsInfo(Rows(topic), info)
      <4>1. CASE info \in Samples[topic]
        BY <2>1, <4>1, CommandsAssumption DEF Settable
      <4>2. CASE info = result[c].info /\ call[c].topic = topic /\ info # None
        BY <4>2 DEF InfoInv
      <4> QED BY <4>1, <4>2 DEF Given
    <3> QED BY <1>2, <2>1, <3>1, <3>2
  <2>5. CASE topic = "logo" /\ cmd = ClearLogo
    BY <2>5 DEF Sound, ClearLogo, Command
  <2>6. ASSUME topic = "luminance"
        PROVE  Rows(topic) = Luminance.rows /\ \A i \in Samples.luminance : IsInfo(Luminance.rows, i)
    <3>1. Rows(topic) = Luminance.rows
      BY <2>6, SettingsFields DEF Rows
    <3>2. \A i \in Samples[topic] : IsInfo(Rows(topic), i)
      BY <2>1, CommandsAssumption DEF Settable
    <3> QED BY <2>6, <3>1, <3>2
  <2>7. Percents \subseteq Numbers \cap Values("u8") /\ {1, 10} \subseteq Numbers \cap Values("u8")
    <3>1. Percents \subseteq Numbers \cap Values("u8")
      BY CommandsAssumption, Zenon
    <3> QED BY <3>1, Widths
  <2>8. IsInfo(Luminance.rows, Default(Luminance.rows))
    BY LuminanceMade, DefaultIsInfo
  <2>9. CASE topic = "luminance" /\ \E p \in Percents : cmd = SetBrightnessManual(p)
    <3>1. PICK p \in Percents : cmd = SetBrightnessManual(p)
      BY <2>9
    <3> DEFINE info == [Default(Luminance.rows) EXCEPT !.default_value = p]
    <3>2. cmd = Set(topic, info)
      BY <2>9, <3>1 DEF SetBrightnessManual
    <3>3. IsInfo(Luminance.rows, info)
      BY <2>7, <2>8, PoliciesAreInfos
    <3> HIDE DEF info
    <3> QED BY <1>2, <2>1, <2>6, <2>9, <3>2, <3>3
  <2>10. CASE topic = "luminance" /\ \E i \in Samples.luminance : cmd = SetBrightnessScheduled(i.items)
    <3>1. PICK i \in Samples.luminance : cmd = SetBrightnessScheduled(i.items)
      BY <2>10
    <3> DEFINE info == [Default(Luminance.rows) EXCEPT !.mode = "Scheduled", !.items = i.items]
    <3>2. cmd = Set(topic, info)
      BY <2>10, <3>1 DEF SetBrightnessScheduled
    <3>3. IsInfo(Luminance.rows, info)
      BY <2>6, <2>7, <2>10, PoliciesAreInfos
    <3> HIDE DEF info
    <3> QED BY <1>2, <2>1, <2>6, <2>10, <3>2, <3>3
  <2>11. CASE topic = "luminance" /\ \E p \in Percents : cmd = SetBrightnessSensor(1, p, 10)
    <3>1. PICK p \in Percents : cmd = SetBrightnessSensor(1, p, 10)
      BY <2>11
    <3> DEFINE info == [Default(Luminance.rows) EXCEPT !.mode = "Sensor", !.sensor_min = 1,
                                                       !.sensor_max = p, !.sensor_time = 10]
    <3>2. cmd = Set(topic, info)
      BY <2>11, <3>1 DEF SetBrightnessSensor
    <3>3. IsInfo(Luminance.rows, info)
      <4>1. ASSUME NEW a \in Numbers \cap Values("u8"), NEW b \in Numbers \cap Values("u8"),
                   NEW t \in Numbers \cap Values("u8")
            PROVE  IsInfo(Luminance.rows, [Default(Luminance.rows) EXCEPT
                            !.mode = "Sensor", !.sensor_min = a, !.sensor_max = b, !.sensor_time = t])
        BY <2>8, PoliciesAreInfos
      <4> QED BY <2>7, <4>1
    <3> HIDE DEF info
    <3> QED BY <1>2, <2>1, <2>6, <2>11, <3>2, <3>3
  <2> QED BY <2>2, <2>3, <2>4, <2>5, <2>9, <2>10, <2>11
<1> QED BY <1>4, <1>5, <1>6, <1>7

-----------------------------------------------------------------------------
(* The device.                                                             *)

\* What a request leaves in the place of a setting is a document.
LEMMA EffectIsList ==
  ASSUME NEW doc, Carried(doc), NEW topic, topic # "program",
         topic = "files" => IsList(settings.files)
  PROVE  IsList(Effect(doc, topic))
<1>1. CASE topic = "files"
  <2> DEFINE f == [i \in DOMAIN settings.files |->
                     LET e == settings.files[i] IN
                     IF Attr(e, "name") \in DeletedNames(doc) THEN <<>> ELSE <<e>>]
  <2>1. Effect(doc, topic) = FlattenSeq(f)
    BY <1>1 DEF Effect
  <2>2. f = [i \in DOMAIN settings.files |-> f[i]]
    OBVIOUS
  <2>3. \A i \in DOMAIN settings.files : IsList(f[i])
    BY NoneIsList, OneIsList
  <2> HIDE DEF f
  <2> QED BY <1>1, <2>1, <2>2, <2>3, FlatMapIsList
<1>2. CASE topic # "files"
  <2>1. Effect(doc, topic) = SubSeq(doc, 3, Len(doc) - 2)
    BY <1>2 DEF Effect
  <2>2. doc \in Seq(ToSet(doc)) /\ Len(doc) \in Nat /\ Len(doc) >= 4
    BY DEF Carried, IsList
  <2>3. 3 \in 1..(Len(doc) + 1) /\ Len(doc) - 2 \in (3 - 1)..Len(doc)
    BY <2>2
  <2>4. SubSeq(doc, 3, Len(doc) - 2) \in Seq(ToSet(doc))
    BY <2>2, <2>3, SubSeqProperties
  <2> QED BY <2>1, <2>4, SeqIsList
<1> QED BY <1>1, <1>2

\* The files that a request names.
LEMMA NamesAreRead ==
  ASSUME NEW names, Deletable(names), NEW g, NEW m, NEW r
  PROVE  ToSet(names) \subseteq DeletedNames(Wrap(g, "in", m, r, DeleteFiles(names)))
<1> DEFINE body == DeleteFiles(names)
<1> DEFINE doc == Wrap(g, "in", m, r, body)
<1> SUFFICES ASSUME NEW name \in ToSet(names) PROVE name \in DeletedNames(doc)
  OBVIOUS
<1> DEFINE e == Empty("file", [name |-> name])
<1>1. IsList(names) /\ name # Absent
  BY DEF Deletable
<1>2. PICK i \in 1..Len(names) : name = names[i]
  BY <1>1, ListDomain DEF ToSet
<1>3. IsList(body) /\ e \in ToSet(body)
  BY <1>1, <1>2, DeleteIsInner DEF Inner
<1>4. IsElement(e) /\ e.tag = "file" /\ Attr(e, "name") = name
  BY DEF IsElement, Empty, Attr
<1> HIDE DEF e, body
<1>5. e \in ToSet(doc)
  BY <1>3, WithinWrap
<1> HIDE DEF doc
<1>6. e \in Elements(doc)
  BY <1>4, <1>5 DEF Elements
<1> QED BY <1>1, <1>4, <1>6 DEF DeletedNames

\* The name of a file of which none is said.
Nameless == ""

\* Where the names are in a list of files.
LEMMA FileRows ==
  \E row \in ToSet(FileList.rows) :
     /\ row.form = "each" /\ row.list = "files"
     /\ \E f \in Read(row.fields) : f.name = "name" /\ f.attr = "name" /\ f.kind = "text" /\ f.default = Nameless
     /\ \A r \in ToSet(FileList.rows) : r.form \in {"close", "each"} \/ r.fields = {}
<1> DEFINE f1 == Str("name", "name")
<1> DEFINE f2 == Field("size", "size", "i64", 0)
<1> DEFINE f3 == Field("existSize", "exist_size", "i64", 0)
<1> DEFINE f4 == Str("md5", "md5")
<1> DEFINE f5 == Str("type", "file_type")
<1> DEFINE r1 == Opening("files", {})
<1> DEFINE r2 == Each("file", "files", {f1, f2, f3, f4, f5})
<1> DEFINE r3 == Closing("files")
<1>1. FileList.rows = <<r1, r2, r3>>
  BY DEF FileList, Setting
<1>2. /\ r1.fields = {} /\ r3.form = "close"
      /\ r2.form = "each" /\ r2.list = "files" /\ r2.fields = {f1, f2, f3, f4, f5}
  BY DEF Opening, Closing, Each, Row
<1>3. f1.name = "name" /\ f1.attr = "name" /\ f1.kind = "text" /\ f1.default = Nameless
  BY Zenon DEF Str, Field, Nameless
<1> HIDE DEF f1, f2, f3, f4, f5, r1, r2, r3
<1>4. ToSet(FileList.rows) = {r1, r2, r3}
  BY <1>1 DEF ToSet
<1>5. f1 \in Read(r2.fields)
  BY <1>2, <1>3 DEF Read
<1>6. \E f \in Read(r2.fields) : f.name = "name" /\ f.attr = "name" /\ f.kind = "text" /\ f.default = Nameless
  BY <1>3, <1>5
<1>7. \A r \in {r1, r2, r3} : r.form \in {"close", "each"} \/ r.fields = {}
  BY <1>2
<1>8. r2 \in ToSet(FileList.rows) /\ r2.form = "each" /\ r2.list = "files"
  BY <1>2, <1>4
<1> QED BY <1>4, <1>6, <1>7, <1>8

\* A list of files without those of some names.
Free(info, N) == /\ IsInfo(FileList.rows, info)
                 /\ \A file \in ToSet(info["files"]) : file.name \notin N

\* A file that no element names is not in the list.
LEMMA FilesGone ==
  ASSUME NEW body, Len(body) \in Nat, NEW N, Nameless \notin N,
         \A k \in 1..Len(body) : Attr(body[k], "name") \notin N
  PROVE  \A file \in ToSet(ParseBody(FileList.rows, body).files) : file.name \notin N
<1> DEFINE rows == FileList.rows
<1> DEFINE n == Len(body)
<1>1. WellMade(rows)
  BY FileListMade
<1>2. PICK row \in ToSet(rows) :
        /\ row.form = "each" /\ row.list = "files"
        /\ \E f \in Read(row.fields) : f.name = "name" /\ f.attr = "name" /\ f.kind = "text" /\ f.default = Nameless
        /\ \A r \in ToSet(rows) : r.form \in {"close", "each"} \/ r.fields = {}
  BY FileRows
<1>3. \A r \in ToSet(rows) : r.form = "each" => r = row
  <2>1. \A i, j \in DOMAIN rows : rows[i].form = "each" /\ rows[j].form = "each" => i = j
    BY <1>1 DEF WellMade
  <2>2. \A r \in ToSet(rows) : \E i \in DOMAIN rows : r = rows[i]
    BY DEF ToSet
  <2>3. row \in ToSet(rows) /\ row.form = "each"
    BY <1>2
  <2> HIDE DEF rows
  <2> QED BY <2>1, <2>2, <2>3
<1>4. Alike(row.fields)
  BY <1>1 DEF WellMade
<1>5. ASSUME NEW e, Attr(e, "name") \notin N
      PROVE  Named(row.fields, Defaults(row.fields), e)["name"] \notin N
  <2> DEFINE fields == row.fields
  <2>1. PICK f \in Read(fields) : f.name = "name" /\ f.attr = "name" /\ f.kind = "text" /\ f.default = Nameless
    BY <1>2
  <2>2. f \in fields /\ Alike(fields)
    BY <1>4, <2>1 DEF Read
  <2> HIDE DEF fields
  <2>3. f.name \in DOMAIN Defaults(fields) /\ Defaults(fields)[f.name] = f.default
    BY <2>2, DefaultOf
  <2>4. Of(fields, LAMBDA g : g.name = f.name) = f
    BY <2>2, OfName
  <2>5. Named(fields, Defaults(fields), e)[f.name] =
          IF \E g \in Read(fields) : g.name = f.name /\ Attr(e, g.attr) # Absent
          THEN FromText(f, Attr(e, f.attr)) ELSE Defaults(fields)[f.name]
    BY <2>3, <2>4 DEF Named
  <2>6. FromText(f, Attr(e, f.attr)) = Attr(e, "name")
    BY <2>1 DEF FromText, Integral
  <2>7. Named(fields, Defaults(fields), e)[f.name] \in {Attr(e, "name"), f.default}
    BY <2>3, <2>5, <2>6
  <2>8. f.default \notin N
    BY <2>1, Zenon
  <2>9. Named(fields, Defaults(fields), e)[f.name] \notin N
    BY <1>5, <2>7, <2>8
  <2> QED BY <2>1, <2>9 DEF fields
<1>6. ASSUME NEW info, Free(info, N), NEW e, Attr(e, "name") \notin N
      PROVE  Free(ReadElement(rows, info, e), N)
  <2> DEFINE new == ReadElement(rows, info, e)
  <2>1. IsInfo(rows, new)
    BY <1>1, <1>6, ReadIsInfo DEF Free
  <2> DEFINE taken == CHOOSE r \in ToSet(rows) : r.tag = e.tag /\ r.form # "close"
  <2>2. CASE ~\E r \in ToSet(rows) : r.tag = e.tag /\ r.form # "close"
    BY <1>6, <2>2 DEF ReadElement
  <2>3. CASE (\E r \in ToSet(rows) : r.tag = e.tag /\ r.form # "close") /\ taken.form = "each"
    <3> DEFINE item == Named(row.fields, Defaults(row.fields), e)
    <3>1. taken = row
      BY <1>3, <2>3
    <3>2. new = [info EXCEPT !["files"] = Append(info["files"], item)]
      BY <1>2, <2>3, <3>1 DEF ReadElement
    <3>3. IsList(info["files"]) /\ "files" \in DOMAIN info
      <4>1. "files" \in DOMAIN Default(rows)
        BY <1>1, <1>2, DefaultFields DEF Lists
      <4> QED BY <1>2, <1>6, <4>1 DEF IsInfo, Free
    <3>4. item["name"] \notin N
      BY <1>5, <1>6
    <3> HIDE DEF item, new
    <3>5. ToSet(Append(info["files"], item)) \subseteq ToSet(info["files"]) \cup {item}
      BY <3>3, AppendIsList
    <3>6. new["files"] = Append(info["files"], item)
      BY <3>2, <3>3
    <3>7. \A file \in ToSet(new["files"]) : file.name \notin N
      BY <1>6, <3>4, <3>5, <3>6 DEF Free
    <3> QED BY <2>1, <3>7 DEF new, Free
  <2>4. CASE (\E r \in ToSet(rows) : r.tag = e.tag /\ r.form # "close") /\ taken.form # "each"
    <3>1. taken \in ToSet(rows) /\ taken.form \notin {"close", "each"}
      BY <2>4
    <3>2. taken.fields = {}
      BY <1>2, <3>1
    <3>3. new = Named({}, info, e)
      BY <2>4, <3>2 DEF ReadElement
    <3> HIDE DEF new
    <3>4. new["files"] = info["files"]
      <4>1. "files" \in DOMAIN info
        <5>1. "files" \in DOMAIN Default(rows)
          <6>1. "files" \in Lists(rows)
            BY <1>2 DEF Lists
          <6> QED BY <1>1, <6>1, DefaultFields
        <5> QED BY <1>6, <5>1 DEF IsInfo, Free
      <4> QED BY <3>3, <4>1 DEF Named, Read
    <3> QED BY <1>6, <2>1, <3>4 DEF new, Free
  <2> QED BY <2>2, <2>3, <2>4
<1>7. PICK f : Reads(f, n, rows, body) /\ ParseBody(rows, body) = f[n]
  BY ParseSteps
<1>8. Free(Default(rows), N)
  <2>1. "files" \in Lists(rows)
    BY <1>2 DEF Lists
  <2>2. Default(rows)["files"] = <<>>
    BY <1>1, <2>1, DefaultFields
  <2> QED BY <1>1, <2>2, NoneIsList, DefaultIsInfo DEF Free
<1> DEFINE P == {k \in Nat : k <= n => Free(f[k], N)}
<1>9. 0 \in P
  BY <1>7, <1>8 DEF Reads
<1>10. ASSUME NEW k \in Nat, k \in P PROVE k + 1 \in P
  <2> SUFFICES ASSUME k + 1 <= n PROVE Free(f[k + 1], N)
    OBVIOUS
  <2>1. k + 1 \in 1..n /\ (k + 1) - 1 = k /\ Free(f[k], N)
    BY <1>10
  <2>2. f[k + 1] = IF IsElement(body[k + 1]) THEN ReadElement(rows, f[k], body[k + 1]) ELSE f[k]
    BY <1>7, <2>1 DEF Reads
  <2>3. Free(ReadElement(rows, f[k], body[k + 1]), N)
    BY <1>6, <2>1
  <2> QED BY <2>1, <2>2, <2>3
<1> HIDE DEF P
<1>11. n \in P
  BY <1>9, <1>10, Induction
<1>12. Free(ParseBody(rows, body), N)
  BY <1>7, <1>11 DEF P
<1> QED BY <1>12 DEF Free

\* What the device makes of a request to change what it holds is what the caller meant.
LEMMA EffectDoes ==
  ASSUME NEW cmd, Sound(cmd), cmd.op \in Changes,
         cmd.op # "send" => IsList(settings[cmd.topic])
  PROVE  /\ Writes(DecodeReply(Request(cmd)).method, cmd.topic)
         /\ Does(cmd, Effect(Request(cmd), cmd.topic))
<1> DEFINE doc == Request(cmd)
<1> DEFINE body == BodyOf(cmd)
<1>1. cmd.op \in {"set", "clear", "delete", "send"} /\ DecodeReply(doc).method = cmd.method
  BY MethodIsRead DEF Changes
<1>2. Inner(body) /\ doc = Wrap(SessionGuid, "in", cmd.method, Absent, body)
  BY <1>1, BodyOfIsInner DEF EncodeRequest
<1>3. IsList(body)
  BY <1>2 DEF Inner
<1>4. SubSeq(doc, 3, Len(doc) - 2) = body
  BY <1>2, <1>3, BodyOfWrap
<1>5. CASE cmd.op = "set"
  <2>1. /\ cmd.topic \in DOMAIN Settings /\ cmd.topic \notin {"program", "files"}
        /\ cmd.method = Settings[cmd.topic].set /\ IsInfo(Rows(cmd.topic), cmd.arg)
    BY <1>5, SoundKinds, SettingsFields DEF Settable
  <2>2. body = WriteBody(Rows(cmd.topic), cmd.arg)
    BY <1>5 DEF BodyOf
  <2>3. ParseBody(Rows(cmd.topic), body) = cmd.arg
    BY <2>1, <2>2, RowsMade, BodyRoundTrip
  <2> HIDE DEF doc, body
  <2>4. Effect(doc, cmd.topic) = body
    BY <1>4, <2>1 DEF Effect
  <2>5. Writes(DecodeReply(doc).method, cmd.topic)
    BY <1>1, <2>1 DEF Writes
  <2>6. Does(cmd, body)
    BY <1>5, <2>3 DEF Does
  <2> QED BY <2>4, <2>5, <2>6 DEF doc
<1>6. CASE cmd.op = "clear"
  <2>1. cmd.topic = "logo" /\ cmd.method = ClearBootLogo
    BY <1>6, SoundKinds
  <2>2. body = <<>>
    BY <1>6 DEF BodyOf
  <2>3. ParseBody(BootLogo.rows, body) = Default(BootLogo.rows)
    <3>1. Len(body) \in Nat
      BY <1>3 DEF IsList
    <3>2. Takes(BootLogo.rows, Default(BootLogo.rows), body, Default(BootLogo.rows))
      BY <2>2, TakesNone
    <3> QED BY <3>1, <3>2, ParseTakes
  <2> HIDE DEF doc, body
  <2>4. Effect(doc, cmd.topic) = body
    BY <1>4, <2>1 DEF Effect
  <2>5. Writes(DecodeReply(doc).method, cmd.topic)
    BY <1>1, <2>1 DEF Writes
  <2>6. Does(cmd, body)
    BY <1>6, <2>3 DEF Does
  <2> QED BY <2>4, <2>5, <2>6 DEF doc
<1>7. CASE cmd.op = "delete"
  <2> DEFINE left == Effect(doc, "files")
  <2> DEFINE f == [i \in DOMAIN settings.files |->
                     LET e == settings.files[i] IN
                     IF Attr(e, "name") \in DeletedNames(doc) THEN <<>> ELSE <<e>>]
  <2>1. cmd.topic = "files" /\ cmd.method = "DeleteFiles" /\ Deletable(cmd.arg)
    BY <1>7, SoundKinds
  <2>2. body = DeleteFiles(cmd.arg)
    BY <1>7 DEF BodyOf
  <2>3. ToSet(cmd.arg) \subseteq DeletedNames(doc)
    BY <1>2, <2>1, <2>2, NamesAreRead
  <2>4. left = FlattenSeq(f)
    BY DEF Effect
  <2> HIDE DEF doc
  <2>5. IsList(settings.files)
    BY <1>7, <2>1
  <2> DEFINE S == {e \in ToSet(settings.files) : Attr(e, "name") \notin DeletedNames(doc)}
  <2>6. f = [i \in DOMAIN settings.files |-> f[i]]
        /\ \A i \in DOMAIN settings.files : IsList(f[i]) /\ ToSet(f[i]) \subseteq S
    <3>1. \A e : ToSet(<<e>>) = {e}
      BY DEF ToSet
    <3>2. ToSet(<<>>) = {}
      BY DEF ToSet
    <3>3. \A i \in DOMAIN settings.files : settings.files[i] \in ToSet(settings.files)
      BY DEF ToSet
    <3> QED BY <3>1, <3>2, <3>3, NoneIsList, OneIsList
  <2> HIDE DEF f, left
  <2>7. IsList(left) /\ \A e \in ToSet(left) : Attr(e, "name") \notin DeletedNames(doc)
    <3>1. IsList(left) /\ ToSet(left) \subseteq S
      <4> HIDE DEF S
      <4> QED BY <2>4, <2>5, <2>6, FlatMapHas
    <3> QED BY <3>1
  <2>8. Len(left) \in Nat /\ \A k \in 1..Len(left) : Attr(left[k], "name") \notin ToSet(cmd.arg)
    BY <2>3, <2>7, ListDomain
  <2>9. Nameless \notin ToSet(cmd.arg)
    BY <2>1, Zenon DEF Deletable, Nameless
  <2>10. \A file \in ToSet(ParseBody(FileList.rows, left).files) : file.name \notin ToSet(cmd.arg)
    BY <2>8, <2>9, FilesGone
  <2>11. Does(cmd, left)
    BY <1>7, <2>10 DEF Does
  <2>12. Writes(DecodeReply(doc).method, cmd.topic)
    BY <1>1, <2>1 DEF Writes, doc
  <2> QED BY <2>1, <2>11, <2>12 DEF left, doc
<1>8. CASE cmd.op = "send"
  <2> DEFINE xml == ToProgramXml(cmd.arg)
  <2> DEFINE first == Open("screen", <<>>)
  <2>1. cmd.topic = "program" /\ cmd.method = "AddProgram" /\ IsScreen(cmd.arg)
    BY <1>8, SoundKinds
  <2>2. doc = EncodeRequest(SessionGuid, cmd.method, xml)
    BY <1>8, BodyOfIsInner DEF BodyOf
  <2>3. first.ev = "start" /\ first.tag = "screen"
    BY DEF Open
  <2>4. PICK t : Within(xml, first, t, Close("screen"))
    BY <2>1, ScreenIsWithin
  <2> HIDE DEF doc, body, xml, first
  <2>5. ExtractElement(doc, "screen") = xml
    BY <2>2, <2>3, <2>4, ElementIsLifted
  <2>6. Effect(doc, cmd.topic) = xml
    BY <2>1, <2>5 DEF Effect, DecodePush, ProgramPush
  <2>7. Writes(DecodeReply(doc).method, cmd.topic)
    BY <1>1, <2>1 DEF Writes
  <2>8. Does(cmd, xml)
    BY <1>8 DEF Does, xml
  <2> QED BY <2>6, <2>7, <2>8 DEF doc
<1> QED BY <1>1, <1>5, <1>6, <1>7, <1>8

\* What is carried out becomes part of what the device held during every call under
\* way about it.
LEMMA Applied ==
  ASSUME IInv, NEW doc, Carried(doc), Apply(doc), UNCHANGED callVars
  PROVE  /\ DOMAIN settings' = DOMAIN settings
         /\ \A topic \in DOMAIN settings \cap DOMAIN Settings : IsList(settings'[topic])
         /\ held' = [c \in Callers |-> held'[c]]
         /\ \A c \in Callers : DOMAIN held'[c] = {"old", "new"}
         /\ \A c \in Callers : HeldDuring(c) \subseteq HeldDuring(c)' /\ held[c].new \subseteq held'[c].new
         /\ \A c \in Callers : CallerInv(c)'
         /\ \A c \in Callers : /\ stage[c] # "idle"
                               /\ Writes(DecodeReply(doc).method, call[c].topic)
                               => Effect(doc, call[c].topic) \in held'[c].new
<1> DEFINE written == {topic \in DOMAIN settings : Writes(DecodeReply(doc).method, topic)}
<1>1. settings' = [topic \in DOMAIN settings |->
                     IF topic \in written THEN Effect(doc, topic) ELSE settings[topic]]
  BY DEF Apply
<1>2. held' = [c \in Callers |->
                 IF stage[c] # "idle" /\ call[c].topic \in written
                 THEN [held[c] EXCEPT !.new = @ \cup {settings'[call[c].topic]}] ELSE held[c]]
  BY DEF Apply
<1>3. /\ written \subseteq DOMAIN settings
      /\ \A topic \in DOMAIN settings : Writes(DecodeReply(doc).method, topic) => topic \in written
  OBVIOUS
<1> HIDE DEF written
<1>4. DOMAIN settings' = DOMAIN settings
  BY <1>1
<1>5. ASSUME NEW topic \in DOMAIN settings \cap DOMAIN Settings PROVE IsList(settings'[topic])
  <2>1. topic # "program"
    BY SettingsFields
  <2>2. IsList(settings[topic])
    BY DEF IInv, DocsInv
  <2>3. settings'[topic] = IF topic \in written THEN Effect(doc, topic) ELSE settings[topic]
    BY <1>1
  <2>4. IsList(Effect(doc, topic))
    BY <2>1, <2>2, EffectIsList
  <2> QED BY <2>2, <2>3, <2>4
<1>6. held' = [c \in Callers |-> held'[c]]
  <2>1. DOMAIN held' = Callers
    BY <1>2
  <2> QED BY <1>2, <2>1
<1>7. ASSUME NEW c \in Callers
      PROVE  /\ DOMAIN held'[c] = {"old", "new"}
             /\ HeldDuring(c) \subseteq HeldDuring(c)' /\ held[c].new \subseteq held'[c].new
             /\ stage[c] = "idle" => held'[c] = held[c]
             /\ stage[c] # "idle" => settings'[call[c].topic] \in HeldDuring(c)'
             /\ stage[c] # "idle" /\ call[c].topic \in written =>
                   settings'[call[c].topic] \in held'[c].new
  <2>1. held'[c] = IF stage[c] # "idle" /\ call[c].topic \in written
                   THEN [held[c] EXCEPT !.new = held[c].new \cup {settings'[call[c].topic]}]
                   ELSE held[c]
    BY <1>2
  <2>2. DOMAIN held[c] = {"old", "new"}
    BY DEF IInv, TypeInv
  <2>3. HeldDuring(c) = {held[c].old} \cup held[c].new
        /\ HeldDuring(c)' = {held'[c].old} \cup held'[c].new
    BY DEF HeldDuring
  <2>4. CASE stage[c] # "idle" /\ call[c].topic \in written
    <3> DEFINE new == settings'[call[c].topic]
    <3>1. held'[c] = [held[c] EXCEPT !.new = held[c].new \cup {new}]
      BY <2>1, <2>4
    <3> HIDE DEF new
    <3>2. held'[c].old = held[c].old /\ held'[c].new = held[c].new \cup {new}
          /\ DOMAIN held'[c] = {"old", "new"}
      BY <2>2, <3>1
    <3> QED BY <2>3, <2>4, <3>2 DEF new
  <2>5. CASE ~(stage[c] # "idle" /\ call[c].topic \in written)
    <3>1. held'[c] = held[c]
      BY <2>1, <2>5
    <3>2. stage[c] # "idle" => /\ call[c].topic \in DOMAIN settings
                               /\ settings[call[c].topic] \in HeldDuring(c)
      BY DEF IInv, CallerInv, CallInv, UnderWayInv
    <3>3. stage[c] # "idle" => settings'[call[c].topic] = settings[call[c].topic]
      BY <1>1, <2>5, <3>2
    <3>4. HeldDuring(c)' = HeldDuring(c)
      BY <2>3, <3>1
    <3> QED BY <2>2, <2>5, <3>1, <3>2, <3>3, <3>4
  <2> QED BY <2>4, <2>5
<1>8. ASSUME NEW c \in Callers PROVE CallerInv(c)'
  <2>1. call'[c] = call[c] /\ result'[c] = result[c] /\ stage'[c] = stage[c]
    BY DEF callVars
  <2>2. CallInv(c) /\ InfoInv(c) /\ UnderWayInv(c) /\ ReadsTruly(c) /\ IsDone(c)
    BY DEF IInv, CallerInv
  <2>3. CallInv(c)'
    BY <1>4, <2>1, <2>2 DEF CallInv
  <2>4. InfoInv(c)'
    BY <2>1, <2>2 DEF InfoInv
  <2>5. UnderWayInv(c)'
    BY <1>7, <2>1, <2>2 DEF UnderWayInv
  <2>6. ReadsTruly(c)'
    <3>1. CASE stage[c] = "idle"
      <4>1. HeldDuring(c)' = HeldDuring(c)
        BY <1>7, <3>1 DEF HeldDuring
      <4> QED BY <2>1, <2>2, <4>1 DEF ReadsTruly, Succeeded
    <3>2. CASE stage[c] # "idle"
      <4>1. result'[c].verdict = "none"
        BY <2>1, <2>2, <3>2 DEF UnderWayInv, Returned
      <4> QED BY <4>1 DEF ReadsTruly, Succeeded
    <3> QED BY <3>1, <3>2
  <2>7. IsDone(c)'
    <3>1. CASE stage[c] = "idle"
      <4>1. held'[c] = held[c]
        BY <1>7, <3>1
      <4> QED BY <2>1, <2>2, <4>1 DEF IsDone, Done
    <3>2. CASE stage[c] # "idle"
      <4>1. result'[c].verdict = "none"
        BY <2>1, <2>2, <3>2 DEF UnderWayInv, Returned
      <4> QED BY <4>1 DEF IsDone
    <3> QED BY <3>1, <3>2
  <2> QED BY <2>3, <2>4, <2>5, <2>6, <2>7 DEF CallerInv
<1>9. ASSUME NEW c \in Callers, stage[c] # "idle", Writes(DecodeReply(doc).method, call[c].topic)
      PROVE  Effect(doc, call[c].topic) \in held'[c].new
  <2>1. call[c].topic \in DOMAIN settings
    BY <1>9 DEF IInv, CallerInv, CallInv, UnderWayInv
  <2>2. call[c].topic \in written
    BY <1>3, <1>9, <2>1
  <2>3. settings'[call[c].topic] = Effect(doc, call[c].topic)
    BY <1>1, <2>1, <2>2
  <2> QED BY <1>7, <1>9, <2>2, <2>3
<1> QED BY <1>4, <1>5, <1>6, <1>7, <1>8, <1>9

\* Whom a step does not touch.
LEMMA Unmoved ==
  ASSUME NEW c \in Callers, CallerInv(c), settings' = settings,
         stage'[c] = stage[c], call'[c] = call[c], result'[c] = result[c], held'[c] = held[c]
  PROVE  CallerInv(c)'
BY DEF CallerInv, CallInv, InfoInv, UnderWayInv, ReadsTruly, IsDone, Done, HeldDuring, Succeeded

\* What is asked is answered.
LEMMA GetIsAnswered ==
  ASSUME NEW topic \in DOMAIN settings \cap DOMAIN Settings, NEW doc,
         DecodeReply(doc).method = Settings[topic].get
  PROVE  Answer(doc) = settings[topic]
<1> DEFINE m == Settings[topic].get
<1> DEFINE asked == {t \in DOMAIN settings \cap DOMAIN Settings : Settings[t].get = m}
<1>1. asked = {topic}
  <2>1. topic \in asked
    OBVIOUS
  <2>2. \A t \in asked : t = topic
    BY GetsDiffer
  <2> QED BY <2>1, <2>2
<1>2. Answer(doc) = IF asked = {} THEN <<>> ELSE settings[CHOOSE t \in asked : TRUE]
  BY DEF Answer
<1> HIDE DEF asked
<1>3. (CHOOSE t \in asked : TRUE) = topic
  BY <1>1
<1> QED BY <1>1, <1>2, <1>3

\* A request of the holder is served.
LEMMA ServeKeeps ==
  ASSUME IInv, DevServe
  PROVE  IInv'
<1> DEFINE doc == toDev[1]
<1>1. toDev # <<>> /\ toDev = <<doc>> /\ Carried(doc) /\ toCli = <<>>
  BY DEF IInv, DocsInv, DevServe
<1>2. Head(toDev) = doc /\ toDev' = <<>>
  <2>1. \A x : Head(<<x>>) = x /\ Tail(<<x>>) = <<>>
    OBVIOUS
  <2>2. toDev' = Tail(toDev)
    BY DEF DevServe
  <2> HIDE DEF doc
  <2> QED BY <1>1, <2>1, <2>2
<1> DEFINE reply == Reply(doc, Success, Answer(doc))
<1>3. Apply(doc) /\ UNCHANGED <<callVars, holder, poisoned, late, calls>>
      /\ (toCli' = <<>> \/ toCli' = <<reply>>)
  BY <1>1, <1>2 DEF DevServe
<1> HIDE DEF doc
<1>4. UNCHANGED <<stage, call, result, holder, poisoned, late>>
  BY <1>3 DEF callVars
<1>5. /\ DOMAIN settings' = DOMAIN settings
      /\ \A topic \in DOMAIN settings \cap DOMAIN Settings : IsList(settings'[topic])
      /\ held' = [c \in Callers |-> held'[c]]
      /\ \A c \in Callers : DOMAIN held'[c] = {"old", "new"}
      /\ \A c \in Callers : HeldDuring(c) \subseteq HeldDuring(c)' /\ held[c].new \subseteq held'[c].new
      /\ \A c \in Callers : CallerInv(c)'
      /\ \A c \in Callers : /\ stage[c] # "idle"
                            /\ Writes(DecodeReply(doc).method, call[c].topic)
                            => Effect(doc, call[c].topic) \in held'[c].new
  BY <1>1, <1>3, Applied
<1>6. TypeInv'
  BY <1>4, <1>5 DEF IInv, TypeInv
<1>7. MutexInv'
  BY <1>4 DEF IInv, MutexInv
<1>8. DocsInv'
  <2>1. toCli' = <<>> \/ toCli' = <<toCli'[1]>>
    BY <1>3
  <2> QED BY <1>2, <1>4, <1>5, <2>1 DEF IInv, DocsInv
<1>9. WireInv'
  <2>1. ASSUME NEW c \in Callers, holder' = c, ~poisoned', toCli' # <<>>
        PROVE  AnswerTo(c, toCli[1])'
    <3>1. toCli'[1] = reply
      BY <1>3, <2>1
    <3>2. doc = Request(call[c])
      BY <1>1, <1>4, <2>1 DEF IInv, WireInv, doc
    <3>3. stage[c] = "read"
      BY <1>4, <2>1 DEF IInv, MutexInv
    <3>4. /\ Sound(call[c]) /\ call[c].topic \in DOMAIN settings /\ call'[c] = call[c]
          /\ settings[call[c].topic] \in HeldDuring(c)
      BY <1>4, <3>3 DEF IInv, CallerInv, CallInv, UnderWayInv
    <3>5. CASE call[c].op = "get"
      <4> DEFINE topic == call[c].topic
      <4>1. topic \in DOMAIN settings \cap DOMAIN Settings /\ call[c].method = Settings[topic].get
        BY <3>4, <3>5, SoundKinds
      <4>2. settings[topic] \in HeldDuring(c)
        BY <3>4
      <4> HIDE DEF topic
      <4>3. DecodeReply(doc).method = call[c].method
        BY <3>2, <3>4, <3>5, MethodIsRead
      <4>4. Answer(doc) = settings[topic]
        BY <4>1, <4>3, GetIsAnswered
      <4>5. reply = Wrap(SessionGuid, "out", call[c].method, Success, settings[topic])
        BY <4>3, <4>4 DEF Reply
      <4>6. IsList(settings[topic])
        BY <4>1 DEF IInv, DocsInv
      <4>7. settings[topic] \in HeldDuring(c)'
        BY <1>5, <4>2
      <4>8. call[c].op \notin Changes
        BY <3>5 DEF Changes
      <4> HIDE DEF reply
      <4> QED BY <3>1, <3>4, <4>5, <4>6, <4>7, <4>8 DEF AnswerTo
    <3>6. CASE call[c].op \in Changes
      <4>1. call[c].op # "send" => call[c].topic \in DOMAIN Settings
        BY <3>4, <3>6, SoundKinds, SettingsFields DEF Changes, Settable
      <4>2. call[c].op # "send" => IsList(settings[call[c].topic])
        BY <3>4, <4>1 DEF IInv, DocsInv
      <4>3. /\ Writes(DecodeReply(doc).method, call[c].topic)
            /\ Does(call[c], Effect(doc, call[c].topic))
        BY <3>2, <3>4, <3>6, <4>2, EffectDoes
      <4>4. Effect(doc, call[c].topic) \in held'[c].new
        BY <1>5, <3>3, <4>3
      <4>5. Done(c)'
        BY <3>4, <4>3, <4>4 DEF Done
      <4>6. call[c].op # "get"
        BY <3>6 DEF Changes
      <4> QED BY <3>4, <4>5, <4>6 DEF AnswerTo
    <3>7. CASE call[c].op \notin {"get"} \cup Changes
      BY <3>4, <3>7 DEF AnswerTo
    <3> QED BY <3>5, <3>6, <3>7
  <2>2. ~poisoned /\ holder = None => toDev = <<>>
    BY DEF IInv, WireInv
  <2>3. ~poisoned' /\ holder' = None => toDev' = <<>> /\ toCli' = <<>>
    BY <1>1, <1>4, <2>2
  <2> QED BY <1>2, <2>1, <2>3, Zenon DEF WireInv
<1> QED BY <1>5, <1>6, <1>7, <1>8, <1>9 DEF IInv

\* The head and the rest of what has one member.
LEMMA OneMember == \A x : Head(<<x>>) = x /\ Tail(<<x>>) = <<>> /\ <<x>>[1] = x /\ <<x>> # <<>>
OBVIOUS

\* A request of the holder is refused.
LEMMA DevRefuseKeeps ==
  ASSUME IInv, DevRefuse
  PROVE  IInv'
<1> DEFINE doc == toDev[1]
<1>1. toDev # <<>> /\ toDev = <<doc>> /\ Carried(doc) /\ toCli = <<>>
  BY DEF IInv, DocsInv, DevRefuse
<1> DEFINE reply == Reply(doc, "kFail", <<>>)
<1>2. toDev' = <<>> /\ toCli' = <<reply>>
  <2>1. toDev' = Tail(toDev) /\ toCli' = Append(toCli, Reply(Head(toDev), "kFail", <<>>))
    BY DEF DevRefuse
  <2>2. \A x : Append(<<>>, x) = <<x>>
    OBVIOUS
  <2> HIDE DEF doc
  <2> QED BY <1>1, <2>1, <2>2, OneMember
<1>3. UNCHANGED <<stage, call, result, holder, poisoned, late, settings, held>>
  BY DEF DevRefuse, callVars, devVars
<1> HIDE DEF doc
<1>4. TypeInv'
  BY <1>3 DEF IInv, TypeInv
<1>5. MutexInv'
  BY <1>3 DEF IInv, MutexInv
<1>6. DocsInv'
  <2>1. toCli' = <<toCli'[1]>>
    BY <1>2, OneMember
  <2> QED BY <1>2, <1>3, <2>1 DEF IInv, DocsInv
<1>7. WireInv'
  <2>1. ASSUME NEW c \in Callers, holder' = c, ~poisoned'
        PROVE  AnswerTo(c, toCli[1])'
    <3>1. toCli'[1] = reply
      BY <1>2, OneMember
    <3>2. doc = Request(call[c])
      BY <1>1, <1>3, <2>1 DEF IInv, WireInv, doc
    <3>3. stage[c] = "read"
      BY <1>3, <2>1 DEF IInv, MutexInv
    <3>4. Sound(call[c]) /\ call'[c] = call[c]
      BY <1>3, <3>3 DEF IInv, CallerInv, CallInv, UnderWayInv
    <3>5. DecodeReply(doc).method = call[c].method
      BY <3>2, <3>4, MethodIsRead
    <3>6. reply = RefusalOf(call[c])
      BY <3>5 DEF Reply, RefusalOf
    <3>7. toCli'[1] = RefusalOf(call[c])'
      <4> HIDE DEF reply
      <4> QED BY <3>1, <3>4, <3>6 DEF RefusalOf
    <3> QED BY <3>4, <3>7 DEF AnswerTo
  <2>2. ~poisoned' /\ holder' = None => toDev' = <<>> /\ toCli' = <<>>
    BY <1>1, <1>3 DEF IInv, WireInv
  <2> QED BY <1>2, <2>1, <2>2, Zenon DEF WireInv
<1>8. \A c \in Callers : CallerInv(c)'
  BY <1>3, Unmoved DEF IInv
<1> QED BY <1>4, <1>5, <1>6, <1>7, <1>8 DEF IInv

\* A request of an old connection is carried out, or lost.
LEMMA DevLateKeeps ==
  ASSUME IInv, DevLate
  PROVE  IInv'
<1>1. late # <<>> /\ late' = Tail(late)
  BY DEF DevLate
<1>2. UNCHANGED <<callVars, linkVars>>
  BY DEF DevLate
<1>3. UNCHANGED <<stage, call, result, holder, poisoned, toDev, toCli>>
  BY <1>2 DEF callVars, linkVars
<1>4. IsList(late) /\ (\A i \in DOMAIN late : Carried(late[i]))
  BY DEF IInv, DocsInv
<1>5. /\ IsList(late') /\ (\A i \in DOMAIN late' : Carried(late'[i]))
      /\ Carried(Head(late))
  <2>1. late \in Seq(ToSet(late)) /\ Len(late) \in Nat /\ DOMAIN late = 1..Len(late)
    BY <1>4 DEF IsList
  <2>2. Tail(late) \in Seq(ToSet(late)) /\ Len(late) # 0
        /\ DOMAIN Tail(late) = 1..(Len(late) - 1)
        /\ \A i \in 1..(Len(late) - 1) : Tail(late)[i] = late[i + 1]
    BY <1>1, <2>1
  <2>3. IsList(late')
    BY <1>1, <2>2, SeqIsList
  <2>4. \A i \in 1..(Len(late) - 1) : i + 1 \in 1..Len(late)
    BY <2>1
  <2>5. 1 \in 1..Len(late)
    BY <2>1, <2>2
  <2>6. Head(late) = late[1]
    BY <1>1, <2>1
  <2> QED BY <1>1, <1>4, <2>1, <2>2, <2>3, <2>4, <2>5, <2>6
<1>6. CASE UNCHANGED <<settings, held>>
  <2>1. TypeInv'
    BY <1>3, <1>6 DEF IInv, TypeInv
  <2>2. MutexInv'
    BY <1>3 DEF IInv, MutexInv
  <2>3. DocsInv'
    BY <1>3, <1>5, <1>6 DEF IInv, DocsInv
  <2>4. WireInv'
    BY <1>3, <1>6 DEF IInv, WireInv, AnswerTo, RefusalOf, Done, HeldDuring
  <2>5. \A c \in Callers : CallerInv(c)'
    BY <1>3, <1>6, Unmoved DEF IInv
  <2> QED BY <2>1, <2>2, <2>3, <2>4, <2>5 DEF IInv
<1>7. CASE Apply(Head(late))
  <2>1. /\ DOMAIN settings' = DOMAIN settings
        /\ \A topic \in DOMAIN settings \cap DOMAIN Settings : IsList(settings'[topic])
        /\ held' = [c \in Callers |-> held'[c]]
        /\ \A c \in Callers : DOMAIN held'[c] = {"old", "new"}
        /\ \A c \in Callers : HeldDuring(c) \subseteq HeldDuring(c)' /\ held[c].new \subseteq held'[c].new
        /\ \A c \in Callers : CallerInv(c)'
    BY <1>2, <1>5, <1>7, Applied
  <2>2. TypeInv'
    BY <1>3, <2>1 DEF IInv, TypeInv
  <2>3. MutexInv'
    BY <1>3 DEF IInv, MutexInv
  <2>4. DocsInv'
    BY <1>3, <1>5, <2>1 DEF IInv, DocsInv
  <2>5. WireInv'
    <3>1. ASSUME NEW c \in Callers, AnswerTo(c, toCli[1]) PROVE AnswerTo(c, toCli[1])'
      <4>1. Done(c) => Done(c)'
        BY <1>3, <2>1 DEF Done
      <4> QED BY <1>3, <2>1, <3>1, <4>1 DEF AnswerTo, RefusalOf
    <3>2. ~poisoned' /\ holder' = None => toDev' = <<>> /\ toCli' = <<>>
      BY <1>3 DEF IInv, WireInv
    <3>3. ASSUME NEW c \in Callers, holder' = c, ~poisoned'
          PROVE  /\ toDev' # <<>> => toDev'[1] = Request(call'[c])
                 /\ toCli' # <<>> => AnswerTo(c, toCli[1])'
      <4>1. toDev # <<>> => toDev[1] = Request(call[c])
        BY <1>3, <3>3 DEF IInv, WireInv
      <4>2. toCli # <<>> => AnswerTo(c, toCli[1])
        BY <1>3, <3>3 DEF IInv, WireInv
      <4> QED BY <1>3, <3>1, <4>1, <4>2
    <3> QED BY <3>2, <3>3, Zenon DEF WireInv, Request, EncodePush, EncodeRequest
  <2> QED BY <2>1, <2>2, <2>3, <2>4, <2>5 DEF IInv
<1> QED BY <1>6, <1>7 DEF DevLate

-----------------------------------------------------------------------------
(* The callers.                                                            *)

\* A caller that returns with nothing.
LEMMA ReturnKeeps ==
  ASSUME NEW c \in Callers, NEW verdict \in {"failed", "poisoned", "panicked"}, CallInv(c)',
         result'[c] = Returned(verdict), stage'[c] = "idle"
  PROVE  CallerInv(c)'
<1>1. result'[c].verdict = verdict /\ result'[c].info = None
  BY DEF Returned
<1>2. InfoInv(c)'
  BY <1>1 DEF InfoInv
<1>3. UnderWayInv(c)'
  BY DEF UnderWayInv
<1>4. ReadsTruly(c)' /\ IsDone(c)'
  BY <1>1 DEF ReadsTruly, IsDone, Succeeded
<1> QED BY <1>2, <1>3, <1>4 DEF CallerInv

\* A call is made.
LEMMA CallKeeps ==
  ASSUME IInv, NEW c \in Callers, Call(c)
  PROVE  IInv'
<1>1. /\ stage[c] = "idle" /\ UNCHANGED <<linkVars, late, settings>>
      /\ \E topic \in DOMAIN settings : \E cmd \in Offered(c, topic) :
           /\ call' = [call EXCEPT ![c] = cmd]
           /\ held' = [held EXCEPT ![c] = [old |-> settings[topic], new |-> {}]]
           /\ \/ Stage(c, "wait") /\ result' = [result EXCEPT ![c] = Returned("none")]
              \/ Return(c, Returned("panicked"))
  BY DEF Call
<1>2. PICK topic \in DOMAIN settings : \E cmd \in Offered(c, topic) :
           /\ call' = [call EXCEPT ![c] = cmd]
           /\ held' = [held EXCEPT ![c] = [old |-> settings[topic], new |-> {}]]
           /\ \/ Stage(c, "wait") /\ result' = [result EXCEPT ![c] = Returned("none")]
              \/ Return(c, Returned("panicked"))
  BY <1>1
<1>3. PICK cmd \in Offered(c, topic) :
           /\ call' = [call EXCEPT ![c] = cmd]
           /\ held' = [held EXCEPT ![c] = [old |-> settings[topic], new |-> {}]]
           /\ \/ Stage(c, "wait") /\ result' = [result EXCEPT ![c] = Returned("none")]
              \/ Return(c, Returned("panicked"))
  BY <1>2
<1>4. UNCHANGED <<holder, poisoned, toDev, toCli, late, settings>>
  BY <1>1 DEF linkVars
<1>5. /\ stage \in [Callers -> {"idle", "wait", "read"}]
      /\ call = [d \in Callers |-> call[d]] /\ result = [d \in Callers |-> result[d]]
      /\ held = [d \in Callers |-> held[d]]
  BY DEF IInv, TypeInv
<1>6. DOMAIN stage = Callers /\ DOMAIN call = Callers /\ DOMAIN result = Callers /\ DOMAIN held = Callers
  BY <1>5
<1>7. PICK where \in {"wait", "idle"} : /\ stage' = [stage EXCEPT ![c] = where]
                                        /\ where = "wait" => result' = [result EXCEPT ![c] = Returned("none")]
                                        /\ where = "idle" => result' = [result EXCEPT ![c] = Returned("panicked")]
  BY <1>3 DEF Stage, Return
<1>8. PICK verdict \in {"none", "panicked"} : /\ result' = [result EXCEPT ![c] = Returned(verdict)]
                                              /\ where = "wait" <=> verdict = "none"
  BY <1>7
<1>9. /\ stage'[c] = where /\ call'[c] = cmd /\ result'[c] = Returned(verdict)
      /\ held'[c] = [old |-> settings[topic], new |-> {}]
  BY <1>3, <1>6, <1>7, <1>8
<1>10. \A d \in Callers \ {c} : /\ stage'[d] = stage[d] /\ call'[d] = call[d]
                               /\ result'[d] = result[d] /\ held'[d] = held[d]
  BY <1>3, <1>5, <1>6, <1>7, <1>8
<1>11. Sound(cmd) /\ cmd.topic = topic
  <2>1. topic \in DOMAIN Settings \cup {"program"} /\ InfoInv(c)
    BY DEF IInv, DocsInv, CallerInv
  <2> QED BY <2>1, OfferedIsSound
<1>12. CallerInv(c)'
  <2>1. CallInv(c)'
    BY <1>4, <1>9, <1>11 DEF CallInv
  <2>2. InfoInv(c)'
    BY <1>9 DEF InfoInv, Returned
  <2>3. cmd # NoCall
    <3>1. cmd.op \in {"get"} \cup Changes
      BY <1>11, SoundKinds
    <3> QED BY <3>1 DEF NoCall, Changes
  <2>4. UnderWayInv(c)'
    <3>1. stage'[c] # "idle" => result'[c] = Returned("none")
      BY <1>8, <1>9
    <3>2. held'[c].old = settings[topic]
      BY <1>9
    <3>3. settings'[call'[c].topic] = settings[topic]
      BY <1>4, <1>9, <1>11
    <3> QED BY <1>9, <2>3, <3>1, <3>2, <3>3 DEF UnderWayInv, HeldDuring
  <2>5. ReadsTruly(c)' /\ IsDone(c)'
    BY <1>8, <1>9 DEF ReadsTruly, IsDone, Succeeded, Returned
  <2> QED BY <2>1, <2>2, <2>4, <2>5 DEF CallerInv
<1>13. \A d \in Callers : CallerInv(d)'
  BY <1>4, <1>10, <1>12, Unmoved DEF IInv
<1>14. TypeInv'
  <2>1. stage' \in [Callers -> {"idle", "wait", "read"}]
    BY <1>5, <1>7
  <2>2. /\ call' = [d \in Callers |-> call'[d]] /\ result' = [d \in Callers |-> result'[d]]
        /\ held' = [d \in Callers |-> held'[d]]
    BY <1>3, <1>5, <1>8
  <2>3. \A d \in Callers : /\ result'[d].verdict \in {"none", "ok", "proto", "device", "failed",
                                                      "poisoned", "panicked"}
                           /\ DOMAIN held'[d] = {"old", "new"}
    <3>1. result'[c].verdict = verdict /\ DOMAIN held'[c] = {"old", "new"}
      BY <1>9 DEF Returned
    <3> QED BY <1>8, <1>10, <3>1 DEF IInv, TypeInv
  <2> QED BY <1>4, <2>1, <2>2, <2>3 DEF IInv, TypeInv
<1>15. MutexInv'
  <2>1. \A d \in Callers : stage'[d] = "read" <=> stage[d] = "read"
    BY <1>1, <1>7, <1>9, <1>10
  <2> QED BY <1>4, <2>1 DEF IInv, MutexInv
<1>16. DocsInv'
  BY <1>4 DEF IInv, DocsInv
<1>17. WireInv'
  <2>1. ~poisoned' /\ holder' = None => toDev' = <<>> /\ toCli' = <<>>
    BY <1>4 DEF IInv, WireInv
  <2>2. ASSUME NEW d \in Callers, holder' = d, ~poisoned'
        PROVE  /\ toDev' # <<>> => toDev'[1] = Request(call'[d])
               /\ toCli' # <<>> => AnswerTo(d, toCli[1])'
    <3>1. stage[d] = "read"
      BY <1>4, <2>2 DEF IInv, MutexInv
    <3>2. d # c
      BY <1>1, <3>1
    <3>3. call'[d] = call[d] /\ held'[d] = held[d]
      BY <1>10, <3>2
    <3>4. toDev # <<>> => toDev[1] = Request(call[d])
      BY <1>4, <2>2 DEF IInv, WireInv
    <3>5. toCli # <<>> => AnswerTo(d, toCli[1])
      BY <1>4, <2>2 DEF IInv, WireInv
    <3> QED BY <1>4, <3>3, <3>4, <3>5 DEF AnswerTo, RefusalOf, Done, HeldDuring
  <2> QED BY <2>1, <2>2, Zenon DEF WireInv, Request, EncodePush, EncodeRequest
<1> QED BY <1>13, <1>14, <1>15, <1>16, <1>17 DEF IInv

\* What a caller returns with, and who is not touched by it.
LEMMA Returns ==
  ASSUME TypeInv, NEW c \in Callers, NEW r, Return(c, r), UNCHANGED <<call, held>>
  PROVE  /\ stage'[c] = "idle" /\ result'[c] = r
         /\ \A d \in Callers \ {c} : stage'[d] = stage[d] /\ result'[d] = result[d]
         /\ stage' \in [Callers -> {"idle", "wait", "read"}]
         /\ result' = [d \in Callers |-> result'[d]]
<1>1. stage' = [stage EXCEPT ![c] = "idle"] /\ result' = [result EXCEPT ![c] = r]
  BY DEF Return, Stage
<1>2. stage \in [Callers -> {"idle", "wait", "read"}] /\ result = [d \in Callers |-> result[d]]
  BY DEF TypeInv
<1>3. stage' \in [Callers -> {"idle", "wait", "read"}] /\ stage'[c] = "idle"
  BY <1>1, <1>2
<1>4. DOMAIN result = Callers
  BY <1>2
<1>5. result'[c] = r
  BY <1>1, <1>4
<1>6. result' = [d \in Callers |-> result'[d]]
  BY <1>1, <1>2
<1>7. \A d \in Callers \ {c} : stage'[d] = stage[d] /\ result'[d] = result[d]
  BY <1>1, <1>2
<1> QED BY <1>3, <1>5, <1>6, <1>7

\* TypeInv, when a caller returns.
LEMMA ReturnTypes ==
  ASSUME TypeInv, NEW c \in Callers, NEW r, Return(c, r), UNCHANGED <<call, held>>,
         r.verdict \in {"ok", "proto", "device", "failed", "poisoned", "panicked"},
         holder' \in Callers \cup {None}, poisoned' \in BOOLEAN
  PROVE  TypeInv'
<1>1. /\ stage'[c] = "idle" /\ result'[c] = r
      /\ \A d \in Callers \ {c} : stage'[d] = stage[d] /\ result'[d] = result[d]
      /\ stage' \in [Callers -> {"idle", "wait", "read"}]
      /\ result' = [d \in Callers |-> result'[d]]
  BY Returns
<1>2. \A d \in Callers : result'[d].verdict \in {"none", "ok", "proto", "device", "failed",
                                                 "poisoned", "panicked"}
  BY <1>1 DEF TypeInv
<1> QED BY <1>1, <1>2 DEF TypeInv

\* A poisoned connection is refused.
LEMMA RefuseKeeps ==
  ASSUME IInv, NEW c \in Callers, Refuse(c)
  PROVE  IInv'
<1> DEFINE r == Returned("poisoned")
<1>1. /\ stage[c] = "wait" /\ holder = None /\ poisoned /\ Return(c, r)
      /\ UNCHANGED <<call, holder, poisoned, toDev, toCli, late, settings, held>>
  BY DEF Refuse, linkVars, devVars
<1>2. r.verdict = "poisoned"
  BY DEF Returned
<1>3. TypeInv'
  BY <1>1, <1>2, ReturnTypes DEF IInv, TypeInv
<1>4. /\ stage'[c] = "idle" /\ result'[c] = r
      /\ \A d \in Callers \ {c} : stage'[d] = stage[d] /\ result'[d] = result[d]
  BY <1>1, Returns DEF IInv
<1>5. \A d \in Callers : CallerInv(d)'
  <2>1. CallInv(c)'
    BY <1>1 DEF IInv, CallerInv, CallInv
  <2>2. CallerInv(c)'
    BY <1>4, <2>1, ReturnKeeps
  <2> QED BY <1>1, <1>4, <2>2, Unmoved DEF IInv
<1>6. MutexInv'
  BY <1>1, <1>4, CommandsAssumption DEF IInv, MutexInv
<1>7. DocsInv'
  BY <1>1 DEF IInv, DocsInv
<1>8. WireInv'
  BY <1>1 DEF WireInv
<1> QED BY <1>3, <1>5, <1>6, <1>7, <1>8 DEF IInv

\* An exchange begins.
LEMMA BeginKeeps ==
  ASSUME IInv, NEW c \in Callers, Begin(c)
  PROVE  IInv'
<1>1. /\ stage[c] = "wait" /\ holder = None /\ ~poisoned /\ holder' = c
      /\ toDev' = Append(toDev, Request(call[c]))
      /\ stage' = [stage EXCEPT ![c] = "read"]
      /\ UNCHANGED <<call, result, poisoned, toCli, late, settings, held>>
  BY DEF Begin, Stage, devVars
<1> DEFINE doc == Request(call[c])
<1>2. toDev = <<>> /\ toCli = <<>>
  BY <1>1 DEF IInv, WireInv
<1>3. CallInv(c) /\ UnderWayInv(c)
  BY DEF IInv, CallerInv
<1>4. Carried(doc)
  BY <1>1, <1>3, RequestIsCarried DEF CallInv, UnderWayInv
<1>5. toDev' = <<doc>>
  <2>1. \A x : Append(<<>>, x) = <<x>>
    OBVIOUS
  <2> HIDE DEF doc
  <2>2. toDev' = Append(toDev, doc)
    BY <1>1 DEF doc
  <2> QED BY <1>2, <2>1, <2>2
<1> HIDE DEF doc
<1>6. stage \in [Callers -> {"idle", "wait", "read"}]
  BY DEF IInv, TypeInv
<1>7. /\ stage' \in [Callers -> {"idle", "wait", "read"}] /\ stage'[c] = "read"
      /\ \A d \in Callers \ {c} : stage'[d] = stage[d]
  BY <1>1, <1>6
<1>8. TypeInv'
  BY <1>1, <1>7 DEF IInv, TypeInv
<1>9. MutexInv'
  BY <1>1, <1>7, CommandsAssumption DEF IInv, MutexInv
<1>10. DocsInv'
  <2>1. toDev' = <<toDev'[1]>> /\ toDev'[1] = doc
    BY <1>5, OneMember
  <2> QED BY <1>1, <1>2, <1>4, <2>1 DEF IInv, DocsInv
<1>11. WireInv'
  <2>1. toDev'[1] = Request(call'[c])
    BY <1>1, <1>5, OneMember DEF doc
  <2>2. holder' # None /\ toCli' = <<>>
    BY <1>1, <1>2, CommandsAssumption
  <2>3. \A d \in Callers : holder' = d => d = c
    BY <1>1
  <2> QED BY <2>1, <2>2, <2>3, Zenon DEF WireInv, Request, EncodePush, EncodeRequest
<1>12. \A d \in Callers : CallerInv(d)'
  <2>1. CallerInv(c)'
    BY <1>1, <1>7 DEF IInv, CallerInv, CallInv, InfoInv, UnderWayInv, ReadsTruly, IsDone, Done,
                      HeldDuring, Succeeded
  <2> QED BY <1>1, <1>7, <2>1, Unmoved DEF IInv
<1> QED BY <1>8, <1>9, <1>10, <1>11, <1>12 DEF IInv

\* An exchange is given up.
LEMMA GiveUpKeeps ==
  ASSUME IInv, NEW c \in Callers, GiveUp(c)
  PROVE  IInv'
<1> DEFINE r == Returned("failed")
<1>1. /\ stage[c] = "read" /\ poisoned' = TRUE /\ holder' = None /\ Return(c, r)
      /\ UNCHANGED <<call, toDev, toCli, late, settings, held>>
  BY DEF GiveUp, Poison, devVars
<1>2. r.verdict = "failed"
  BY DEF Returned
<1>3. TypeInv'
  BY <1>1, <1>2, ReturnTypes DEF IInv
<1>4. /\ stage'[c] = "idle" /\ result'[c] = r
      /\ \A d \in Callers \ {c} : stage'[d] = stage[d] /\ result'[d] = result[d]
  BY <1>1, Returns DEF IInv
<1>5. \A d \in Callers : CallerInv(d)'
  <2>1. CallInv(c)'
    BY <1>1 DEF IInv, CallerInv, CallInv
  <2>2. CallerInv(c)'
    BY <1>4, <2>1, ReturnKeeps
  <2> QED BY <1>1, <1>4, <2>2, Unmoved DEF IInv
<1>6. MutexInv'
  <2>1. holder = c
    BY <1>1 DEF IInv, MutexInv
  <2> QED BY <1>1, <1>4, <2>1, CommandsAssumption DEF IInv, MutexInv
<1>7. DocsInv'
  BY <1>1 DEF IInv, DocsInv
<1>8. WireInv'
  BY <1>1 DEF WireInv
<1> QED BY <1>3, <1>5, <1>6, <1>7, <1>8 DEF IInv

\* What is read of the reply to a getter.
LEMMA ReadingTells ==
  ASSUME NEW c \in Callers, CallInv(c), call[c] # NoCall, NEW doc, AnswerTo(c, doc),
         Reading(call[c], doc).verdict = "ok", call[c].op = "get"
  PROVE  /\ call[c].topic \in DOMAIN Settings
         /\ IsInfo(Rows(call[c].topic), Reading(call[c], doc).info)
         /\ \E body \in HeldDuring(c) :
               /\ ~Faulty(Rows(call[c].topic), body)
               /\ Reading(call[c], doc).info = ParseBody(Rows(call[c].topic), body)
<1> DEFINE topic == call[c].topic
<1> DEFINE rows == Rows(topic)
<1> DEFINE m == call[c].method
<1>1. Sound(call[c])
  BY DEF CallInv
<1>2. topic \in DOMAIN Settings /\ m = Settings[topic].get
  BY <1>1, SoundKinds
<1>3. Known(m) /\ m # Absent /\ SessionGuid # Unreadable
  BY <1>2, GetsKnown DEF SessionGuid, Unreadable
<1>4. WellMade(rows) /\ Apart(rows)
  <2>1. WellMade(rows)
    BY <1>2, RowsMade
  <2> QED BY <2>1 DEF WellMade, Apart
<1>5. Reading(call[c], doc) = [verdict |-> Decode(rows, doc),
                               info |-> IF Decode(rows, doc) = "ok" THEN ParseBody(rows, doc) ELSE None]
  BY DEF Reading
<1> HIDE DEF rows, m
<1>6. Decode(rows, doc) = "ok"
  BY <1>5
<1>7. Verdict(doc) = "ok" /\ ~Faulty(rows, doc)
  BY <1>6 DEF Decode
<1>8. Reading(call[c], doc).info = ParseBody(rows, doc)
  BY <1>5, <1>6
<1>9. doc # Wrap(SessionGuid, "out", m, "kFail", <<>>)
  <2>1. "kFail" \notin {Absent, Unreadable, Success}
    BY DEF Absent, Unreadable, Success
  <2>2. Verdict(Wrap(SessionGuid, "out", m, "kFail", <<>>)) = "device"
    BY <1>3, <2>1, RefusalIsRead
  <2> QED BY <1>7, <2>2
<1>10. PICK body \in HeldDuring(c) : IsList(body) /\ doc = Wrap(SessionGuid, "out", m, Success, body)
  BY <1>9 DEF AnswerTo, RefusalOf, m
<1>11. ~Faulty(rows, body)
  BY <1>7, <1>10, FaultyWithinEnvelope
<1>12. ParseBody(rows, doc) = ParseBody(rows, body)
  BY <1>4, <1>10, BodyWithinEnvelope
<1>13. IsInfo(rows, ParseBody(rows, body))
  <2>1. Len(body) \in Nat
    BY <1>10 DEF IsList
  <2> QED BY <1>4, <2>1, BodyIsShaped
<1> QED BY <1>2, <1>8, <1>11, <1>12, <1>13 DEF rows

\* What success means of a command that is not a getter.
LEMMA SuccessTells ==
  ASSUME NEW c \in Callers, CallInv(c), call[c] # NoCall, NEW doc, AnswerTo(c, doc),
         Reading(call[c], doc).verdict = "ok", call[c].op \in Changes
  PROVE  Done(c)
<1>1. Sound(call[c]) /\ call[c].op # "get"
  BY DEF CallInv, Changes
<1>2. Known(call[c].method) /\ call[c].method # Absent
  BY <1>1, MethodIsRead
<1>3. SessionGuid # Unreadable /\ "kFail" \notin {Absent, Unreadable, Success}
  BY DEF SessionGuid, Absent, Unreadable, Success
<1>4. Verdict(doc) = "ok"
  BY <1>1 DEF Reading, Returned
<1>5. Verdict(RefusalOf(call[c])) = "device"
  BY <1>2, <1>3, RefusalIsRead DEF RefusalOf
<1>6. doc # RefusalOf(call[c])
  BY <1>4, <1>5
<1> QED BY <1>6 DEF AnswerTo

\* The reply is there.
LEMMA FinishKeeps ==
  ASSUME IInv, NEW c \in Callers, Finish(c)
  PROVE  IInv'
<1> DEFINE doc == toCli[1]
<1> DEFINE r == Reading(call[c], doc)
<1>1. /\ stage[c] = "read" /\ toCli # <<>>
      /\ Return(c, Reading(call[c], Head(toCli))) /\ toCli' = Tail(toCli) /\ holder' = None
      /\ UNCHANGED <<call, poisoned, toDev, late, settings, held>>
  BY DEF Finish, devVars
<1>2. toCli = <<doc>>
  BY <1>1 DEF IInv, DocsInv
<1>3. Head(toCli) = doc /\ toCli' = <<>>
  <2> HIDE DEF doc
  <2> QED BY <1>1, <1>2, OneMember
<1>4. Return(c, r)
  BY <1>1, <1>3
<1>5. holder = c /\ ~poisoned
  <2>1. c # None
    BY CommandsAssumption
  <2> QED BY <1>1, <2>1 DEF IInv, MutexInv
<1>6. AnswerTo(c, doc)
  BY <1>1, <1>5 DEF IInv, WireInv
<1>7. toDev = <<>>
  BY <1>1 DEF IInv, DocsInv
<1> HIDE DEF doc
<1>8. CallInv(c) /\ call[c] # NoCall
  BY <1>1 DEF IInv, CallerInv, UnderWayInv
<1>9. r.verdict \in {"ok", "proto", "device"}
  BY DEF Reading, Returned, Decode, Verdict
<1>10. r.info # None => r.verdict = "ok" /\ call[c].op = "get"
  BY DEF Reading, Returned
<1> HIDE DEF r
<1>11. TypeInv'
  BY <1>1, <1>4, <1>9, ReturnTypes DEF IInv, TypeInv
<1>12. /\ stage'[c] = "idle" /\ result'[c] = r
       /\ \A d \in Callers \ {c} : stage'[d] = stage[d] /\ result'[d] = result[d]
  BY <1>1, <1>4, Returns DEF IInv
<1>13. CallerInv(c)'
  <2>1. CallInv(c)'
    BY <1>1, <1>8 DEF CallInv
  <2>2. InfoInv(c)'
    BY <1>1, <1>6, <1>8, <1>10, <1>12, ReadingTells DEF InfoInv, r
  <2>3. UnderWayInv(c)'
    BY <1>12 DEF UnderWayInv
  <2>4. ReadsTruly(c)'
    <3> SUFFICES ASSUME result'[c].verdict = "ok", call'[c].op = "get"
                 PROVE  \E body \in HeldDuring(c)' :
                           /\ ~Faulty(Rows(call'[c].topic), body)
                           /\ result'[c].info = ParseBody(Rows(call'[c].topic), body)
      BY DEF ReadsTruly, Succeeded
    <3>1. HeldDuring(c)' = HeldDuring(c) /\ call'[c] = call[c]
      BY <1>1 DEF HeldDuring
    <3>2. r.verdict = "ok" /\ call[c].op = "get"
      BY <1>12, <3>1
    <3>3. \E body \in HeldDuring(c) :
             /\ ~Faulty(Rows(call[c].topic), body)
             /\ r.info = ParseBody(Rows(call[c].topic), body)
      BY <1>6, <1>8, <3>2, ReadingTells DEF r
    <3> QED BY <1>12, <3>1, <3>3
  <2>5. IsDone(c)'
    <3>1. call'[c] = call[c] /\ held'[c] = held[c]
      BY <1>1
    <3>2. ASSUME r.verdict = "ok", call[c].op \in Changes PROVE Done(c)
      BY <1>6, <1>8, <3>2, SuccessTells DEF r
    <3> QED BY <1>12, <3>1, <3>2 DEF IsDone, Done
  <2> QED BY <2>1, <2>2, <2>3, <2>4, <2>5 DEF CallerInv
<1>14. \A d \in Callers : CallerInv(d)'
  BY <1>1, <1>12, <1>13, Unmoved DEF IInv
<1>15. MutexInv'
  BY <1>1, <1>5, <1>12, CommandsAssumption DEF IInv, MutexInv
<1>16. DocsInv'
  BY <1>1, <1>3, <1>7 DEF IInv, DocsInv
<1>17. WireInv'
  <2>1. \A d \in Callers : holder' # d
    BY <1>1, CommandsAssumption
  <2> QED BY <1>1, <1>3, <1>7, <2>1 DEF WireInv
<1> QED BY <1>11, <1>14, <1>15, <1>16, <1>17 DEF IInv

\* The program connects anew.
LEMMA ReconnectKeeps ==
  ASSUME IInv, Reconnect
  PROVE  IInv'
<1>1. /\ poisoned /\ poisoned' = FALSE /\ late' = late \o toDev /\ toDev' = <<>> /\ toCli' = <<>>
      /\ UNCHANGED <<stage, call, result, holder, settings, held>>
  BY DEF Reconnect, callVars
<1>2. TypeInv'
  BY <1>1 DEF IInv, TypeInv
<1>3. MutexInv'
  BY <1>1 DEF IInv, MutexInv
<1>4. IsList(late) /\ (\A i \in DOMAIN late : Carried(late[i]))
      /\ (toDev = <<>> \/ (toDev = <<toDev[1]>> /\ Carried(toDev[1])))
  BY DEF IInv, DocsInv
<1>5. IsList(late') /\ (\A i \in DOMAIN late' : Carried(late'[i]))
  <2>1. CASE toDev = <<>>
    <3>1. late \in Seq(ToSet(late))
      BY <1>4 DEF IsList
    <3>2. late \o <<>> = late
      BY <3>1
    <3> QED BY <1>1, <1>4, <2>1, <3>2
  <2>2. CASE toDev = <<toDev[1]>> /\ Carried(toDev[1])
    <3> DEFINE doc == toDev[1]
    <3>1. toDev = <<doc>> /\ Carried(doc)
      BY <2>2
    <3> HIDE DEF doc
    <3>2. IsList(<<doc>>) /\ Len(<<doc>>) = 1 /\ <<doc>>[1] = doc
      BY OneIsList
    <3>3. Joins(late \o <<doc>>, late, <<doc>>)
      BY <1>4, <3>2, ConcatIsList
    <3>4. Joins(late', late, <<doc>>)
      BY <1>1, <3>1, <3>3
    <3>5. /\ IsList(late') /\ Len(late') = Len(late) + 1
          /\ \A i \in 1..Len(late) : late'[i] = late[i]
          /\ late'[Len(late) + 1] = doc
      BY <3>2, <3>4 DEF Joins
    <3>6. Len(late) \in Nat /\ DOMAIN late = 1..Len(late) /\ DOMAIN late' = 1..Len(late')
      BY <1>4, <3>5, ListDomain
    <3>7. ASSUME NEW i \in DOMAIN late' PROVE Carried(late'[i])
      <4>1. i \in 1..Len(late) \/ i = Len(late) + 1
        BY <3>5, <3>6
      <4> QED BY <1>4, <3>1, <3>5, <3>6, <4>1
    <3> QED BY <3>5, <3>7
  <2> QED BY <1>4, <2>1, <2>2
<1>6. DocsInv'
  BY <1>1, <1>5 DEF IInv, DocsInv
<1>7. WireInv'
  BY <1>1 DEF WireInv
<1>8. \A c \in Callers : CallerInv(c)'
  BY <1>1, Unmoved DEF IInv
<1> QED BY <1>2, <1>3, <1>6, <1>7, <1>8 DEF IInv

-----------------------------------------------------------------------------
(* The theorems.                                                           *)

\* The invariant holds at first.
LEMMA InitEstablishes ==
  ASSUME Init
  PROVE  IInv
<1>1. /\ stage = [c \in Callers |-> "idle"]
      /\ call = [c \in Callers |-> NoCall]
      /\ result = [c \in Callers |-> Returned("none")]
      /\ holder = None /\ poisoned = FALSE /\ toDev = <<>> /\ toCli = <<>> /\ late = <<>>
      /\ held = [c \in Callers |-> [old |-> <<>>, new |-> {}]]
  BY DEF Init
<1>2. PICK focus \in Focuses : /\ DOMAIN settings = focus
                               /\ \A t \in focus : settings[t] \in Bodies[t]
  BY DEF Init
<1>3. TypeInv
  <2>1. \A c \in Callers : /\ result[c].verdict = "none" /\ DOMAIN held[c] = {"old", "new"}
    BY <1>1 DEF Returned
  <2> QED BY <1>1, <2>1 DEF TypeInv
<1>4. MutexInv
  BY <1>1, CommandsAssumption DEF MutexInv
<1>5. DocsInv
  <2>1. /\ DOMAIN settings \subseteq DOMAIN Settings \cup {"program"}
        /\ \A topic \in DOMAIN settings \cap DOMAIN Settings : IsList(settings[topic])
    BY <1>2, CommandsAssumption
  <2>2. IsList(late) /\ DOMAIN late = {}
    BY <1>1, NoneIsList
  <2> QED BY <1>1, <2>1, <2>2 DEF DocsInv
<1>6. WireInv
  BY <1>1 DEF WireInv
<1>7. \A c \in Callers : CallerInv(c)
  <2>1. \A c \in Callers : call[c] = NoCall /\ stage[c] = "idle" /\ result[c] = Returned("none")
    BY <1>1
  <2>2. Returned("none").info = None /\ Returned("none").verdict = "none"
    BY DEF Returned
  <2> QED BY <2>1, <2>2 DEF CallerInv, CallInv, InfoInv, UnderWayInv, ReadsTruly, IsDone, Succeeded
<1> QED BY <1>3, <1>4, <1>5, <1>6, <1>7 DEF IInv

\* ... and every step keeps it.
LEMMA NextKeeps ==
  ASSUME IInv, [Next]_vars
  PROVE  IInv'
<1>1. CASE \E c \in Callers : Call(c) \/ Refuse(c) \/ Begin(c) \/ Finish(c) \/ GiveUp(c)
  BY <1>1, CallKeeps, RefuseKeeps, BeginKeeps, FinishKeeps, GiveUpKeeps
<1>2. CASE Reconnect
  BY <1>2, ReconnectKeeps
<1>3. CASE DevServe
  BY <1>3, ServeKeeps
<1>4. CASE DevRefuse
  BY <1>4, DevRefuseKeeps
<1>5. CASE DevLate
  BY <1>5, DevLateKeeps
<1>6. CASE UNCHANGED vars
  <2>1. UNCHANGED <<stage, call, result, holder, poisoned, toDev, toCli, late, settings, held>>
    BY <1>6 DEF vars, callVars, linkVars, devVars
  <2>2. TypeInv' /\ MutexInv'
    BY <2>1 DEF IInv, TypeInv, MutexInv
  <2>3. DocsInv'
    BY <2>1 DEF IInv, DocsInv
  <2>4. WireInv'
    BY <2>1 DEF IInv, WireInv, AnswerTo, RefusalOf, Done, HeldDuring
  <2>5. \A c \in Callers : CallerInv(c)'
    BY <2>1, Unmoved DEF IInv
  <2> QED BY <2>2, <2>3, <2>4, <2>5 DEF IInv
<1> QED BY <1>1, <1>2, <1>3, <1>4, <1>5, <1>6 DEF Next

\* The invariant holds in every state of Commands.
THEOREM CommandsInductive == Spec => []IInv
<1>1. Init => IInv
  BY InitEstablishes
<1>2. IInv /\ [Next]_vars => IInv'
  BY NextKeeps
<1> QED BY <1>1, <1>2, PTL DEF Spec

\* A getter that succeeds tells what the device held while the call was under way
\* (xml_roundtrip sends under the mutex and poisons what it leaves half done,
\* device.rs 244-258), and reads it as parse_body reads that body.
THEOREM CommandsRead == Spec => []ReadingIsTrue
<1>1. IInv => ReadingIsTrue
  BY DEF IInv, CallerInv, ReadsTruly, ReadingIsTrue
<1> QED BY <1>1, CommandsInductive, PTL

\* A setter that succeeds has set: what the device was given while the call was under
\* way reads, field by field, as what the caller meant (commands.rs 35 to 42, each
\* write_body with its parse_body, and the poisoning that keeps the answer to another
\* request from being taken for this one's).
THEOREM CommandsDone == Spec => []SetIsDone
<1>1. IInv => SetIsDone
  BY DEF IInv, CallerInv, IsDone, Done, Does, Changes, SetIsDone, Succeeded
<1> QED BY <1>1, CommandsInductive, PTL

\* A screen that was sent with success is the one the device lifted out of the request:
\* its programs, areas and texts in their order, each for as long as asked where that
\* fits its field, and no two of its nodes with the same guid (screen/mod.rs writes it,
\* extract_element of xml.rs lines 141 to 187 lifts it out of the envelope, and device.rs
\* lines 169 to 179 take no answer but the one to this request for success).
THEOREM CommandsSent == Spec => []ScreenArrives
<1>1. ASSUME IInv PROVE ScreenArrives
  <2>1. ASSUME NEW c \in Callers, Succeeded(c, "send")
        PROVE  \E xml \in held[c].new : xml # <<>> /\ Shows(xml, call[c].arg)
    <3>1. result[c].verdict = "ok" /\ call[c].op = "send" /\ call[c].op \in Changes
      BY <2>1 DEF Succeeded, Changes
    <3>2. CallInv(c) /\ IsDone(c)
      BY <1>1 DEF IInv, CallerInv
    <3>3. PICK xml \in held[c].new : Does(call[c], xml)
      BY <3>1, <3>2 DEF IsDone, Done
    <3>4. xml = ToProgramXml(call[c].arg)
      BY <3>1, <3>3 DEF Does
    <3>5. IsScreen(call[c].arg)
      <4>1. Sound(call[c])
        BY <3>1, <3>2 DEF CallInv, NoCall
      <4> QED BY <3>1, <4>1, SoundKinds
    <3>6. Shows(xml, call[c].arg)
      BY <3>4, <3>5, XmlShows
    <3>7. xml # <<>>
      <4>1. PICK t : Within(xml, Open("screen", <<>>), t, Close("screen"))
        BY <3>4, <3>5, ScreenIsWithin
      <4>2. Len(xml) # 0
        BY <4>1 DEF Within
      <4>3. Len(<<>>) = 0
        OBVIOUS
      <4> QED BY <4>2, <4>3
    <3> QED BY <3>6, <3>7
  <2> QED BY <2>1 DEF ScreenArrives
<1> QED BY <1>1, CommandsInductive, PTL

\* Types: there is never more than one document on its way in either direction, and
\* every number that a wrapper returns fits the field of its struct (messages/mod.rs).
THEOREM CommandsTypes == Spec => []TypeOK
<1>1. ASSUME IInv PROVE TypeOK
  <2>1. /\ stage \in [Callers -> {"idle", "wait", "read"}] /\ holder \in Callers \cup {None}
        /\ poisoned \in BOOLEAN
    BY <1>1 DEF IInv, TypeInv
  <2>2. Len(toDev) <= 1 /\ Len(toCli) <= 1
    <3>1. \A x : Len(<<x>>) = 1
      OBVIOUS
    <3>2. Len(<<>>) = 0
      OBVIOUS
    <3>3. (toDev = <<>> \/ \E x : toDev = <<x>>) /\ (toCli = <<>> \/ \E x : toCli = <<x>>)
      BY <1>1 DEF IInv, DocsInv
    <3>4. Len(toDev) \in {0, 1} /\ Len(toCli) \in {0, 1}
      BY <3>1, <3>2, <3>3
    <3>5. \A n \in {0, 1} : n <= 1
      OBVIOUS
    <3> QED BY <3>4, <3>5
  <2>3. \A c \in Callers : /\ result[c].verdict \in {"none", "ok", "proto", "device", "failed",
                                                     "poisoned", "panicked"}
                           /\ result[c].info # None =>
                                 IsInfo(Rows(call[c].topic), result[c].info)
    BY <1>1 DEF IInv, TypeInv, CallerInv, InfoInv
  <2> QED BY <2>1, <2>2, <2>3 DEF TypeOK
<1> QED BY <1>1, CommandsInductive, PTL
=============================================================================
