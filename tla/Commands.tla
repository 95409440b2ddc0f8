------------------------------ MODULE Commands ------------------------------
(***************************************************************************)
(* The typed commands of a Device on an SDK 2.0 connection: what they ask, *)
(* what they make of the reply, and what becomes of the settings and the   *)
(* programs of the device they share.                                      *)
(* crates/huidu/src/{commands,device}.rs with the bodies of Messages and   *)
(* the content of Screen.                                                  *)
(*                                                                         *)
(* Connection has the steps inside an exchange; here a request and a reply *)
(* travel as wholes, with what they say.  The device is as lenient and as  *)
(* unreliable as decode and the deadlines allow for.                       *)
(***************************************************************************)
EXTENDS Screen

CONSTANTS Callers,  \* the tasks that use the Device
          None,     \* nobody, and no info
          Focuses,  \* the topics a behaviour may be about
          Bodies,   \* what a device may hold of each topic at first
          Samples,  \* the infos that callers set, of each topic
          Percents, \* arguments of the brightness wrappers
          Screens,  \* the screens that callers send
          Panel,    \* DeviceInner::info, as the handshake cached it
          MaxCalls  \* bound: calls made

VARIABLES stage,    \* where each caller stands
          call,     \* its command
          result,   \* what the command returned
          holder,   \* who owns the mutex around the socket
          poisoned, \* DeviceInner::poisoned
          toDev,    \* requests on the way to the device
          toCli,    \* replies on the way back
          late,     \* requests of connections given up that still reach the device
          settings, \* what the device holds of each topic in focus
          held,     \* of each caller's topic, what the device held when it called and
                    \* what it was given since
          calls     \* calls made so far

callVars == <<stage, call, result>>
linkVars == <<holder, poisoned, toDev, toCli>>
devVars  == <<late, settings, held>>
vars == <<callVars, linkVars, devVars, calls>>

SessionGuid == "guid"

Settings == [logo |-> BootLogo, files |-> FileList, luminance |-> Luminance,
             ethernet |-> Ethernet, wifi |-> Wifi, server |-> Server,
             switch |-> SwitchTime, time |-> Time, device |-> DeviceInfo]

Rows(topic) == Settings[topic].rows

\* What callers set is of the type of its struct, a file they name has a name, and
\* there are sequences where the code has documents and vectors.
ASSUME CommandsAssumption ==
  /\ None \notin Callers /\ MaxCalls \in Nat
  /\ \A topic \in DOMAIN Settings :
        {Settings[topic].get, Settings[topic].set} \subseteq Methods \cup {Absent}
  /\ {ClearBootLogo, "DeleteFiles", "AddProgram"} \subseteq Methods
  /\ \A focus \in Focuses :
        /\ focus \subseteq DOMAIN Settings \cup {"program"}
        /\ \A topic \in focus \cap DOMAIN Settings : \A body \in Bodies[topic] : IsList(body)
  /\ \A topic \in DOMAIN Settings \ {"files", "device"} : \A info \in Samples[topic] :
        IsInfo(Rows(topic), info)
  /\ Percents \subseteq Numbers \cap Values("u8")
  /\ \A names \in Samples.files : IsList(names) /\ {"", Absent} \cap ToSet(names) = {}
  /\ \A screen \in Screens : IsScreen(screen)

NoCall == [op |-> "none", topic |-> "none", method |-> Absent, arg |-> None]
Returned(verdict) == [verdict |-> verdict, info |-> None]

\* Types; what a getter returns has the type of its struct.
TypeOK == /\ stage \in [Callers -> {"idle", "wait", "read"}]
          /\ holder \in Callers \cup {None}
          /\ poisoned \in BOOLEAN
          /\ Len(toDev) <= 1 /\ Len(toCli) <= 1
          /\ \A c \in Callers : /\ result[c].verdict \in {"none", "ok", "proto", "device", "failed",
                                                          "poisoned", "panicked"}
                                /\ result[c].info # None =>
                                      IsInfo(Rows(call[c].topic), result[c].info)

Init == /\ stage = [c \in Callers |-> "idle"]
        /\ call = [c \in Callers |-> NoCall]
        /\ result = [c \in Callers |-> Returned("none")]
        /\ holder = None /\ poisoned = FALSE
        /\ toDev = <<>> /\ toCli = <<>> /\ late = <<>>
        /\ \E focus \in Focuses : settings \in {s \in [focus -> UNION {Bodies[t] : t \in focus}] :
                                                  \A t \in focus : s[t] \in Bodies[t]}
        /\ held = [c \in Callers |-> [old |-> <<>>, new |-> {}]]
        /\ calls = 0

\* Names that begin with Slip are mistakes this code could have made: the next
\* definition with a slip in its place breaks a property.  No action uses one.

SlipGoesOn == UNCHANGED poisoned

-----------------------------------------------------------------------------
(* The commands.                                                           *)

Command(op, topic, method, arg) == [op |-> op, topic |-> topic, method |-> method, arg |-> arg]

Get(topic)       == Command("get", topic, Settings[topic].get, None)
Set(topic, info) == Command("set", topic, Settings[topic].set, info)

\* Each of these writes a complete policy, in which the rest is the default.
SetBrightnessManual(percent) ==
  Set("luminance", [Default(Luminance.rows) EXCEPT !.default_value = percent])
SetBrightnessScheduled(items) ==
  Set("luminance", [Default(Luminance.rows) EXCEPT !.mode = "Scheduled", !.items = items])
SetBrightnessSensor(min, max, time) ==
  Set("luminance", [Default(Luminance.rows) EXCEPT !.mode = "Sensor", !.sensor_min = min,
                                                   !.sensor_max = max, !.sensor_time = time])

ClearLogo == Command("clear", "logo", ClearBootLogo, None)
Delete(names) == Command("delete", "files", "DeleteFiles", names)

SendScreen(screen) == Command("send", "program", "AddProgram", screen)
SendText(text, config) ==
  SendScreen(PushProgram(NewScreen, PushArea(NewProgram("text"),
               AddText(FullScreen(Panel.screen_width, Panel.screen_height), text, config))))

\* The request of a command.
Request(cmd) ==
  IF cmd.op = "send"
  THEN EncodePush(SessionGuid, ProgramPush(cmd.method, ToProgramXml(cmd.arg)))
  ELSE EncodeRequest(SessionGuid, cmd.method,
         CASE cmd.op = "set"    -> WriteBody(Rows(cmd.topic), cmd.arg)
           [] cmd.op = "delete" -> DeleteFiles(cmd.arg)
           [] OTHER             -> <<>>)

\* What a caller may set: a sample, or what it has just read.
Given(c, topic) == Samples[topic] \cup
                   {i \in {result[c].info} : call[c].topic = topic /\ i # None}

\* The commands on a topic.
Offered(c, topic) ==
  CASE topic = "program" -> {SendScreen(s) : s \in Screens} \cup {SendText("hi", TextConfig)}
    [] topic = "files"   -> {Get(topic)} \cup {Delete(names) : names \in Samples.files}
    [] topic = "device"  -> {Get(topic)}
    [] OTHER ->
         {Get(topic)} \cup {Set(topic, info) : info \in Given(c, topic)}
           \cup (IF topic = "logo" THEN {ClearLogo} ELSE {})
           \cup (IF topic # "luminance" THEN {}
                 ELSE {SetBrightnessManual(p) : p \in Percents}
                        \cup {SetBrightnessScheduled(i.items) : i \in Samples.luminance}
                        \cup {SetBrightnessSensor(1, p, 10) : p \in Percents})

\* exec and get_body: what the reply to a command is read as.
Reading(cmd, doc) ==
  IF cmd.op # "get" THEN Returned(Verdict(doc))
  ELSE LET verdict == Decode(Rows(cmd.topic), doc) IN
       [verdict |-> verdict,
        info |-> IF verdict = "ok" THEN ParseBody(Rows(cmd.topic), doc) ELSE None]

-----------------------------------------------------------------------------
(* Calls.                                                                  *)

Stage(c, where) == stage' = [stage EXCEPT ![c] = where]
Return(c, r)    == result' = [result EXCEPT ![c] = r] /\ Stage(c, "idle")

\* A hold time too long for the XML ends the task of a build that checks arithmetic,
\* before the mutex is asked for.
Call(c) == /\ stage[c] = "idle" /\ calls < MaxCalls
           /\ calls' = calls + 1
           /\ \E topic \in DOMAIN settings : \E cmd \in Offered(c, topic) :
                 /\ call' = [call EXCEPT ![c] = cmd]
                 /\ held' = [held EXCEPT ![c] = [old |-> settings[topic], new |-> {}]]
                 /\ \/ Stage(c, "wait") /\ result' = [result EXCEPT ![c] = Returned("none")]
                    \/ /\ cmd.op = "send" /\ Overflows(cmd.arg)
                       /\ Return(c, Returned("panicked"))
           /\ UNCHANGED <<linkVars, late, settings>>

\* With the mutex held: a poisoned connection is refused, ...
Refuse(c) == /\ stage[c] = "wait" /\ holder = None /\ poisoned
             /\ Return(c, Returned("poisoned"))
             /\ UNCHANGED <<call, linkVars, devVars, calls>>

\* ... and on a sound one the request is written.
Begin(c) == /\ stage[c] = "wait" /\ holder = None /\ ~poisoned
            /\ holder' = c
            /\ toDev' = Append(toDev, Request(call[c]))
            /\ Stage(c, "read")
            /\ UNCHANGED <<call, result, poisoned, toCli, devVars, calls>>

\* The reply is there; the mutex is released before it is read.
Finish(c) == /\ stage[c] = "read" /\ toCli # <<>>
             /\ Return(c, Reading(call[c], Head(toCli)))
             /\ toCli' = Tail(toCli)
             /\ holder' = None
             /\ UNCHANGED <<call, poisoned, toDev, devVars, calls>>

\* PoisonGuard::drop on the way out of an exchange that did not complete.
Poison == poisoned' = TRUE

\* The deadline passes, the socket fails or the future is dropped.
GiveUp(c) == /\ stage[c] = "read"
             /\ Poison
             /\ holder' = None
             /\ Return(c, Returned("failed"))
             /\ UNCHANGED <<call, toDev, toCli, devVars, calls>>

\* The program connects anew: what was under way stays with the old connection.
Reconnect == /\ poisoned /\ \A c \in Callers : stage[c] = "idle"
             /\ poisoned' = FALSE
             /\ late' = late \o toDev
             /\ toDev' = <<>> /\ toCli' = <<>>
             /\ UNCHANGED <<callVars, holder, settings, held, calls>>

-----------------------------------------------------------------------------
(* The device.                                                             *)

\* The topic that a method writes.
Writes(method, topic) ==
  \/ topic = "program" /\ method = "AddProgram"
  \/ topic = "logo" /\ method = ClearBootLogo
  \/ topic = "files" /\ method = "DeleteFiles"
  \/ topic \in DOMAIN Settings /\ method = Settings[topic].set

\* What a request leaves in the place of it.
Effect(doc, topic) ==
  CASE topic = "program" -> DecodePush(doc).screen
    [] topic = "files"   -> FlattenSeq([i \in DOMAIN settings.files |->
                              LET e == settings.files[i] IN
                              IF Attr(e, "name") \in DeletedNames(doc) THEN <<>> ELSE <<e>>])
    [] OTHER             -> SubSeq(doc, 3, Len(doc) - 2)

Apply(doc) ==
  LET written == {topic \in DOMAIN settings : Writes(DecodeReply(doc).method, topic)} IN
  /\ settings' = [topic \in DOMAIN settings |->
                    IF topic \in written THEN Effect(doc, topic) ELSE settings[topic]]
  /\ held' = [c \in Callers |->
                IF stage[c] # "idle" /\ call[c].topic \in written
                THEN [held[c] EXCEPT !.new = @ \cup {settings'[call[c].topic]}] ELSE held[c]]

\* The body a getter is answered with.
Answer(doc) ==
  LET asked == {t \in DOMAIN settings \cap DOMAIN Settings :
                  Settings[t].get = DecodeReply(doc).method} IN
  IF asked = {} THEN <<>> ELSE settings[CHOOSE t \in asked : TRUE]

Reply(doc, status, body) == Wrap(SessionGuid, "out", DecodeReply(doc).method, status, body)

\* A request is carried out, and answered or not.
DevServe == /\ toDev # <<>>
            /\ toDev' = Tail(toDev)
            /\ Apply(Head(toDev))
            /\ toCli' \in {toCli, Append(toCli, Reply(Head(toDev), Success, Answer(Head(toDev))))}
            /\ UNCHANGED <<callVars, holder, poisoned, late, calls>>

\* ... or refused.
DevRefuse == /\ toDev # <<>>
             /\ toDev' = Tail(toDev)
             /\ toCli' = Append(toCli, Reply(Head(toDev), "kFail", <<>>))
             /\ UNCHANGED <<callVars, holder, poisoned, devVars, calls>>

\* A request of an old connection is carried out, or lost.
DevLate == /\ late # <<>>
           /\ late' = Tail(late)
           /\ Apply(Head(late)) \/ UNCHANGED <<settings, held>>
           /\ UNCHANGED <<callVars, linkVars, calls>>

Next == \/ \E c \in Callers : Call(c) \/ Refuse(c) \/ Begin(c) \/ Finish(c) \/ GiveUp(c)
        \/ Reconnect \/ DevServe \/ DevRefuse \/ DevLate

Spec == Init /\ [][Next]_vars

-----------------------------------------------------------------------------
(* Properties.                                                             *)

Succeeded(c, op) == result[c].verdict = "ok" /\ call[c].op = op
HeldDuring(c) == {held[c].old} \cup held[c].new

\* What a getter returns is what the device held of that very topic while the call
\* was under way: no reply of another command or of another time is taken for it,
\* whoever else called, failed or connected anew (device.rs lines 244 to 253,
\* messages/mod.rs lines 60 to 64, where the method of the reply is not compared).
ReadingIsTrue ==
  \A c \in Callers : Succeeded(c, "get") =>
     \E body \in HeldDuring(c) : /\ ~Faulty(Rows(call[c].topic), body)
                                 /\ result[c].info = ParseBody(Rows(call[c].topic), body)

\* A setter that reports success has been carried out while it was under way, and
\* what the device was given reads as what the caller meant, every field of it
\* (commands.rs lines 35 to 42 and each write_body with its parse_body).
SetIsDone ==
  \A c \in Callers :
     /\ Succeeded(c, "set") =>
           \E body \in held[c].new : ParseBody(Rows(call[c].topic), body) = call[c].arg
     /\ Succeeded(c, "clear") =>
           \E body \in held[c].new : ParseBody(BootLogo.rows, body) = Default(BootLogo.rows)
     /\ Succeeded(c, "delete") =>
           \E body \in held[c].new : \A file \in ToSet(ParseBody(FileList.rows, body).files) :
              file.name \notin ToSet(call[c].arg)

\* What an event says of one thing.
Bearer == [name |-> "program", width |-> "rectangle", duration |-> "effect"]
Says(e, what) ==
  CASE what = "text" -> IF e.ev = "text" THEN <<e.tag>> ELSE <<>>
    [] what = "guid" -> IF "guid" \in DOMAIN e.attrs THEN <<e.attrs.guid>> ELSE <<>>
    [] OTHER         -> IF e.tag = Bearer[what] /\ what \in DOMAIN e.attrs
                        THEN <<e.attrs[what]>> ELSE <<>>

\* What a document says of it, in document order, and what there is to say of the nodes.
Column(xml, what) == FlattenSeq([k \in DOMAIN xml |-> Says(xml[k], what)])
ForEach(nodes, F(_)) == FlattenSeq([i \in DOMAIN nodes |-> F(nodes[i])])
EachArea(screen, F(_)) == ForEach(screen, LAMBDA program : ForEach(program.areas, F))
EachItem(screen, F(_)) == EachArea(screen, LAMBDA area : ForEach(area.items, F))
EachText(screen, F(_)) ==
  EachItem(screen, LAMBDA item : IF item.is = "text" THEN F(item) ELSE <<>>)

\* That an XML tree is that screen, judged by its content and not by its writer.
Shows(xml, screen) ==
  /\ Column(xml, "name") = ForEach(screen, LAMBDA program : <<program.name>>)
  /\ Column(xml, "width") = EachArea(screen, LAMBDA area : <<ToString(area.width)>>)
  /\ Column(xml, "text") = EachText(screen, LAMBDA item : <<item.text>>)
  /\ ~Overflows(screen) => Column(xml, "duration") =
        EachText(screen, LAMBDA item : <<ToString(item.config.hold_secs * 10)>>)
  /\ IsInjective(Column(xml, "guid"))
  /\ Len(Column(xml, "guid")) = Len(screen) + Len(EachArea(screen, LAMBDA area : <<area>>))
                                            + Len(EachItem(screen, LAMBDA item : <<item>>))

\* A screen that was sent with success is the one the device lifted out of the
\* request: every program, area and text in its order, each for as long as asked
\* when that fits the field, and no two nodes of one guid (device.rs lines 169 to
\* 179, xml.rs lines 141 to 187, screen/mod.rs lines 23 to 26).
ScreenArrives ==
  \A c \in Callers : Succeeded(c, "send") =>
     \E xml \in held[c].new : xml # <<>> /\ Shows(xml, call[c].arg)
=============================================================================
