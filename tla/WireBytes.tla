----------------------------- MODULE WireBytes -----------------------------
(***************************************************************************)
(* The byte layouts: integers, the file payloads, the frames of HuiduCodec *)
(* and those of HD2020.  crates/huidu-proto/src/{codec,frame,file}.rs and  *)
(* crates/huidu-proto/src/hd2020/frame.rs.                                 *)
(*                                                                         *)
(* A byte has B values and an integer field some bytes, so that what        *)
(* happens at the largest length can be enumerated.                        *)
(***************************************************************************)
EXTENDS Integers, Sequences, SequencesExt

CONSTANTS B,           \* values of a byte
          N16, N32, N64, \* bytes of u16, u32 and u64
          NMd5,        \* bytes of a digest
          NotUtf8,     \* bytes that make a string invalid
          Code,        \* CmdCode: the number of each command
          NativeCodes, \* Hd2020Cmd: the numbers of the native commands
          START        \* the byte a native frame starts with

\* What k digits to a base can tell apart, and what k bytes can.
Powers(base) == LET power[k \in Nat] == IF k = 0 THEN 1 ELSE base * power[k - 1] IN power
Power == Powers(B)

ASSUME ByteAssumption == /\ B \in Nat /\ B > 1
                         /\ {N16, N32, N64, NMd5} \subseteq Nat \ {0}
                         /\ NotUtf8 \subseteq 0..(B - 1) /\ START \in 0..(B - 1)
                         /\ Code \in [DOMAIN Code -> 0..(Power[N16] - 1)] /\ IsInjective(Code)
                         /\ NativeCodes \subseteq 0..(B - 1)

Byte == 0..(B - 1)

\* to_le_bytes and from_le_bytes.
Le(n, size) == [i \in 1..size |-> (n \div Power[i - 1]) % B]
FromLe(s) == LET sum[k \in 0..Len(s)] == IF k = 0 THEN 0 ELSE sum[k - 1] + s[k] * Power[k - 1]
             IN sum[Len(s)]

\* Names that begin with Slip are mistakes this code could have made: the next
\* definition with a slip in its place breaks a property.  No action uses one.

SlipOneByteMore == 4 + N16
SlipUnwrapped(cmd, len, payload) == cmd + FoldLeft(+, 0, Le(len, N16) \o payload)
SlipHeaderOnly(cmd, len, payload) == FoldLeft(+, cmd, Le(len, N16)) % B

-----------------------------------------------------------------------------
(* File payloads: fields one after the other.                              *)

Layout == [FileStartAsk     |-> <<"string", "string", "u64", "md5">>,
           FileStartReply   |-> <<"u16", "u64">>,
           FileContentAsk   |-> <<"u64", "bytes">>,
           FileContentReply |-> <<"u16", "u64">>,
           FileEndAsk       |-> <<"md5">>,
           FileEndReply     |-> <<"u16">>]

\* The bytes of a field of fixed size, or of the length in front of it.
Width(kind) == CASE kind \in {"u16", "string"} -> N16
                 [] kind = "bytes" -> N32
                 [] kind = "u64"   -> N64
                 [] OTHER          -> NMd5

Varying(kind) == kind \in {"string", "bytes"}

\* put_string, put_u64_le, put_slice; a digest and a text are their bytes.
Put(kind, value) == CASE Varying(kind)  -> Le(Len(value), Width(kind)) \o value
                      [] kind = "md5"   -> value
                      [] OTHER          -> Le(value, Width(kind))
Fits(kind, value) == Varying(kind) => Len(value) < Power[Width(kind)]

\* What a field may hold: u16, u64, [u8; 16], Vec<u8>, or a String.
FieldValue(kind, value) ==
  CASE kind = "string" -> value \in Seq(Byte) /\ ToSet(value) \cap NotUtf8 = {}
    [] kind = "bytes"  -> value \in Seq(Byte)
    [] kind = "md5"    -> value \in Seq(Byte) /\ Len(value) = NMd5
    [] OTHER           -> value \in 0..(Power[Width(kind)] - 1)
BodyOf(cmd, body) == /\ body = [i \in DOMAIN Layout[cmd] |-> body[i]]
                     /\ \A i \in DOMAIN body : FieldValue(Layout[cmd][i], body[i])

Encodable(cmd, body) == \A i \in DOMAIN body : Fits(Layout[cmd][i], body[i])
Payload(cmd, body) == FlattenSeq([i \in DOMAIN body |-> Put(Layout[cmd][i], body[i])])

\* Reader: what is left of the payload, and the fields read from it.
Reader(payload) == [ok |-> TRUE, rest |-> payload, body |-> <<>>]
Fault == [ok |-> FALSE, rest |-> <<>>, body |-> <<>>]

\* Reader::take of the first n bytes, as one more field.
Taken(r, n, value) == [ok |-> TRUE, rest |-> SubSeq(r.rest, n + 1, Len(r.rest)),
                       body |-> Append(r.body, value)]

\* Reader::{u16, u32, u64, md5, string}: a field that fails fails the payload.
Field(r, kind) ==
  LET w == Width(kind)
      head == SubSeq(r.rest, 1, w)
      all == IF Varying(kind) THEN w + FromLe(head) ELSE w
      text == SubSeq(r.rest, w + 1, all) IN
  IF ~r.ok \/ Len(r.rest) < w THEN Fault
  ELSE IF Len(r.rest) < all THEN Fault
  ELSE IF kind = "string" /\ ToSet(text) \cap NotUtf8 # {} THEN Fault
  ELSE Taken(r, all, CASE Varying(kind) -> text
                       [] kind = "md5"  -> head
                       [] OTHER         -> FromLe(head))

\* parse of each payload: the fields in order; what follows them is ignored.
Parse(cmd, payload) ==
  LET kinds == Layout[cmd]
      read[k \in 0..Len(kinds)] == IF k = 0 THEN Reader(payload) ELSE Field(read[k - 1], kinds[k])
  IN read[Len(kinds)]

-----------------------------------------------------------------------------
(* HuiduCodec.                                                             *)

CMD == N16

\* encode: the length counts the command and the payload.
CodecFits(payload) == CMD + Len(payload) < Power[N16]
CodecEncode(cmd, payload) == Le(CMD + Len(payload), N16) \o Le(Code[cmd], N16) \o payload

\* What a decoder finds at the front of its buffer: not yet a frame, an error, or
\* a frame of some bytes.
More      == [verdict |-> "more"]
Bad       == [verdict |-> "bad"]
Found(cmd, payload, used) ==
  [verdict |-> "frame", cmd |-> cmd, payload |-> payload, used |-> used]

\* All the bytes of the frame whose length field is len.
Total(len) == N16 + len

\* CmdCode::from_u16.
Known(n) == \E cmd \in DOMAIN Code : Code[cmd] = n
Command(n) == CHOOSE cmd \in DOMAIN Code : Code[cmd] = n

\* decode; an error consumes nothing.
CodecDecode(buf) ==
  LET len == FromLe(SubSeq(buf, 1, N16))
      n == FromLe(SubSeq(buf, N16 + 1, N16 + CMD)) IN
  IF Len(buf) < N16 THEN More
  ELSE IF len < CMD THEN Bad
  ELSE IF Len(buf) < Total(len) THEN More
  ELSE IF ~Known(n) THEN Bad
  ELSE Found(Command(n), SubSeq(buf, N16 + CMD + 1, Total(len)), Total(len))

-----------------------------------------------------------------------------
(* Hd2020Frame.                                                            *)

\* The start byte, the command, the length and the checksum.
OVERHEAD == 3 + N16

\* The low byte of a sum of bytes, each addition wrapping.
Checksum(cmd, len, payload) ==
  LET bytes == Le(len, N16) \o payload
      sum[k \in 0..Len(bytes)] == IF k = 0 THEN cmd ELSE (sum[k - 1] + bytes[k]) % B
  IN sum[Len(bytes)]

NativeFits(payload) == Len(payload) < Power[N16]
NativeEncode(cmd, payload) ==
  <<START, cmd>> \o Le(Len(payload), N16) \o payload
     \o <<Checksum(cmd, Len(payload), payload)>>

NativeDecode(buf) ==
  LET len == FromLe(SubSeq(buf, 3, 2 + N16))
      payload == SubSeq(buf, 3 + N16, 2 + N16 + len) IN
  IF Len(buf) < OVERHEAD THEN More
  ELSE IF buf[1] # START THEN Bad
  ELSE IF Len(buf) < OVERHEAD + len THEN More
  ELSE IF buf[OVERHEAD + len] # Checksum(buf[2], len, payload) \/ buf[2] \notin NativeCodes
       THEN Bad
  ELSE Found(buf[2], payload, OVERHEAD + len)
=============================================================================
