---------------------------- MODULE MCHandshake ----------------------------
(* TLC instance of Handshake: the documents that envelopes tell apart.      *)
EXTENDS Handshake

Reply(g, result, body) == Wrap(g, "out", "GetDeviceInfo", result, body)
Device(value) == Empty("device", [cpu |-> value])
Screen(width) == Empty("screen", [width |-> width, height |-> "32"])

MCDocuments ==
  {Reply("guid1", Success, <<Device("cpu"), Screen("64"), Screen("wide")>>), Reply("guid2", Absent, <<>>),
   Reply("guid1", "kParseXmlFailed", <<>>), Reply(Unreadable, Success, <<>>),
   Reply("guid1", Success, <<Device(Unreadable)>>), Reply("guid1", Unreadable, <<>>),
   Reply("guid1", Success, <<Malformed>>), Reply("guid1", "kParseXmlFailed", <<Malformed>>),
   Wrap("guid1", "out", "NoSuchMethod", Success, <<>>),
   \* No method; no guid; and elements that override earlier ones.
   <<Empty("sdk", [guid |-> "guid1"])>>,
   <<Open("out", [method |-> "GetDeviceInfo", result |-> Success]), Close("out")>>,
   Reply("guid1", Success, <<Empty("sdk", [version |-> "1"])>>),
   Reply("guid1", "kParseXmlFailed", <<Empty("in", [id |-> "1"])>>)}
=============================================================================
