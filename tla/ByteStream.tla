----------------------------- MODULE ByteStream -----------------------------
(***************************************************************************)
(* Frames on a byte stream that the network cuts where it likes, and the   *)
(* decoder that finds them again: what Connection takes for granted when   *)
(* it lets frames travel as wholes.  crates/huidu-proto/src/codec.rs and   *)
(* hd2020/frame.rs, with file.rs and hd2020/bitmap.rs for the payloads.    *)
(***************************************************************************)
EXTENDS Panel

CONSTANTS Bodies,   \* file payloads to send, as <<command, body>>
          Payloads, \* payloads of native frames, and of heartbeats
          Texts,    \* what is pushed to a panel: text, width, height and layout
          Noise,    \* by how much a byte may be changed on the way
          Strays,   \* bytes some other sender may put on the stream
          MaxItems  \* bound: frames sent

ASSUME StreamAssumption == /\ MaxItems \in Nat /\ Noise \subseteq 1..(B - 1)
                           /\ DOMAIN Layout \subseteq DOMAIN Code
                           /\ "Heartbeat" \in DOMAIN Code \ DOMAIN Layout

\* A text, the size of its panel, and its layout in usize.
IsText(t) == /\ t.text \in Seq(ToSet(t.text))
             /\ {t.width, t.height, t.layout.letter_spacing, t.layout.x_offset} \subseteq Nat
             /\ t.layout.y_offset \in Nat \cup {Centred}

\* What the types say: the fields of a body are what fields hold, and a payload is bytes.
ASSUME PayloadAssumption ==
  /\ \A f \in Bodies : f = <<f[1], f[2]>> /\ f[1] \in DOMAIN Layout /\ BodyOf(f[1], f[2])
  /\ Payloads \subseteq Seq(Byte)
  /\ \A t \in Texts : IsText(t)

\* Another sender's bytes are an error at once, or a frame of a file whose payload
\* is none: it promises no more bytes than it sends.
Meaningless(found, bytes) ==
  \/ found.verdict = "bad"
  \/ /\ found.verdict = "frame" /\ found.used = Len(bytes)
     /\ found.cmd \in DOMAIN Layout /\ ~Parse(found.cmd, found.payload).ok
ASSUME StrayAssumption ==
  \A bytes \in Strays : bytes \in Seq(Byte) /\ Meaningless(CodecDecode(bytes), bytes)

VARIABLES native, \* HD2020 frames, not HuiduCodec's
          items,  \* what was sent: its bytes, what the receiver should make of it, and the
                  \* text in it, if any
          refused, \* the encoder refused a frame
          pipe,   \* bytes in flight
          buf,    \* the read buffer
          got,    \* what the receiver made of it
          failed  \* the decoder reported an error

vars == <<native, items, refused, pipe, buf, got, failed>>

Native(cmd, payload) == <<"native", <<cmd>> \o payload>>
Unreadable == <<"unreadable", <<>>>>

\* Types: the encoders put nothing but bytes on the stream, and the decoders take
\* no more frames from it than were sent.
TypeOK == /\ native \in BOOLEAN
          /\ \A i \in DOMAIN items : items[i].bytes \in Seq(Byte)
          /\ Len(items) <= MaxItems
          /\ refused \in BOOLEAN
          /\ pipe \in Seq(Byte) /\ buf \in Seq(Byte)
          /\ Len(got) <= Len(items)
          /\ failed \in BOOLEAN

Init == /\ native \in BOOLEAN
        /\ items = <<>> /\ refused = FALSE
        /\ pipe = <<>> /\ buf = <<>>
        /\ got = <<>> /\ failed = FALSE

SlipEaten(found) == IF found.verdict = "bad" THEN SubSeq(buf, N16 + 1, Len(buf)) ELSE buf

SentText(bytes, means, text) ==
  /\ items' = Append(items, [bytes |-> bytes, means |-> means, text |-> text])
  /\ pipe' = pipe \o bytes
  /\ UNCHANGED <<native, refused, buf, got, failed>>
Sent(bytes, means) == SentText(bytes, means, <<>>)

Refused == refused' = TRUE /\ UNCHANGED <<native, items, pipe, buf, got, failed>>

CanSend == Len(items) < MaxItems

\* A native frame.
SendNative == /\ CanSend /\ native
              /\ \E cmd \in NativeCodes, payload \in Payloads :
                    IF NativeFits(payload)
                    THEN Sent(NativeEncode(cmd, payload), Native(cmd, payload))
                    ELSE Refused

\* send_realtime_text.
SendText == /\ CanSend /\ native
            /\ \E t \in Texts :
                  LET payload == ToPayload(Render(t.text, t.width, t.height, t.layout)) IN
                  IF PanelFits(t.width, t.height) /\ NativeFits(payload)
                  THEN SentText(NativeEncode(RealtimeText, payload),
                                Native(RealtimeText, payload), <<t>>)
                  ELSE Refused

\* A native frame of which one byte was changed on the way, not one that tells
\* where the frame ends.
SendDamaged == /\ CanSend /\ native
               /\ \E cmd \in NativeCodes, payload \in {p \in Payloads : NativeFits(p)} :
                     LET bytes == NativeEncode(cmd, payload) IN
                     \E at \in DOMAIN bytes \ 3..(2 + N16), change \in Noise :
                        Sent([bytes EXCEPT ![at] = (@ + change) % B], Unreadable)

\* A frame with a file payload, whole, or cut short, or with something behind it.
SendFile == /\ CanSend /\ ~native
            /\ \E f \in Bodies :
                  LET payload == Payload(f[1], f[2]) IN
                  IF ~(Encodable(f[1], f[2]) /\ CodecFits(payload)) THEN Refused
                  ELSE \/ Sent(CodecEncode(f[1], payload), f)
                       \/ \E k \in 0..(Len(payload) - 1) :
                             Sent(CodecEncode(f[1], SubSeq(payload, 1, k)), Unreadable)
                       \/ /\ CodecFits(Append(payload, 0))
                          /\ Sent(CodecEncode(f[1], Append(payload, 0)), f)

\* A frame with another payload.
SendOther == /\ CanSend /\ ~native
             /\ \E payload \in Payloads :
                   IF CodecFits(payload)
                   THEN Sent(CodecEncode("Heartbeat", payload), <<"Heartbeat", payload>>)
                   ELSE Refused

\* Bytes of another sender, which are no frame or mean nothing.
SendStray == /\ CanSend /\ ~native
             /\ \E bytes \in Strays : Sent(bytes, Unreadable)

\* The network delivers some bytes.
Deliver == /\ pipe # <<>>
           /\ \E n \in 1..Len(pipe) : /\ buf' = buf \o SubSeq(pipe, 1, n)
                                      /\ pipe' = SubSeq(pipe, n + 1, Len(pipe))
           /\ UNCHANGED <<native, items, refused, got, failed>>

Decode == IF native THEN NativeDecode(buf) ELSE CodecDecode(buf)

\* What parse makes of the payload of a file frame.
Meaning(cmd, payload) ==
  IF native THEN Native(cmd, payload)
  ELSE IF cmd \notin DOMAIN Layout THEN <<cmd, payload>>
  ELSE IF Parse(cmd, payload).ok THEN <<cmd, Parse(cmd, payload).body>> ELSE Unreadable

\* The decoder takes a frame from the front of the buffer ...
TakeFrame == /\ ~failed /\ Decode.verdict = "frame"
             /\ got' = Append(got, Meaning(Decode.cmd, Decode.payload))
             /\ buf' = SubSeq(buf, Decode.used + 1, Len(buf))
             /\ UNCHANGED <<native, items, refused, pipe, failed>>

\* ... or finds none there and leaves the buffer as it is.
After(found) == buf
Fail == /\ ~failed /\ Decode.verdict = "bad"
        /\ failed' = TRUE
        /\ buf' = After(Decode)
        /\ UNCHANGED <<native, items, refused, pipe, got>>

Send == SendNative \/ SendText \/ SendDamaged \/ SendFile \/ SendOther \/ SendStray
Next == Send \/ Deliver \/ TakeFrame \/ Fail

Spec == Init /\ [][Next]_vars

-----------------------------------------------------------------------------
(* Properties.                                                             *)

\* The bytes not yet consumed are those of the frames not yet read: the buffer
\* begins at a frame, wherever the network cut the stream, whatever was refused
\* and whatever error was met (codec.rs line 37).
AtBoundary == buf \o pipe = FlattenSeq([i \in 1..(Len(items) - Len(got)) |->
                                           items[Len(got) + i].bytes])

\* Every frame arrives as what was sent, in order; a payload cut short, a damaged
\* native frame and the bytes of another sender never arrive as something else.
FramesArrive == \A i \in DOMAIN got : got[i] = items[i].means

\* A frame that is there is taken: the decoder never waits for bytes behind it.
NeverWaits == \A i \in DOMAIN items :
                 /\ i = Len(got) + 1 /\ items[i].means # Unreadable
                 /\ Len(buf) >= Len(items[i].bytes)
                 => Decode.verdict = "frame"

\* The pixels a panel lights that reads a payload: every row begins at a byte.
Shown(payload) ==
  LET width == FromLe(SubSeq(payload, 1, N16))
      height == FromLe(SubSeq(payload, N16 + 1, 2 * N16))
      bits == SubSeq(payload, 2 * N16 + 1, Len(payload)) IN
  {at \in (0..(StrideFor(width) * Bits - 1)) \X (0..(height - 1)) :
     Lit(bits, StrideFor(width), at[1], at[2])}

\* The rows a text may begin at: centred, as much is left free or cut off above as
\* below, but for one row.
Tops(t) == IF t.layout.y_offset # Centred THEN {t.layout.y_offset}
           ELSE {top \in (-CELL_HEIGHT)..t.height : 2 * top - (t.height - CELL_HEIGHT) \in -1..1}

\* The pixels of every glyph at its place, as far as they are on the panel.
Asked(t, top) ==
  {at \in (0..(t.width - 1)) \X (0..(t.height - 1)) :
     \E i \in DOMAIN t.text : \E cell \in Ink(t.text[i]) :
        /\ at[1] = t.layout.x_offset + (i - 1) * Advance(t.layout) + cell[1]
        /\ at[2] = top + cell[2]}

\* Offsets that stay themselves as i32.
Moderate(t) == t.layout.y_offset < I31 /\ Measure(t.text, t.layout) < I31

\* A panel that takes a realtime frame lights exactly the pixels of the text: what
\* is clipped does not come back in the padding, in the next row or on the other
\* side, and nothing is lit past what measure says the text takes
\* (bitmap.rs lines 61 to 100 and 151 to 175).
PanelShowsText ==
  \A i \in DOMAIN got : \A t \in ToSet(items[i].text) :
     Moderate(t) => LET pixels == Shown(Tail(got[i][2])) IN
                    /\ \E top \in Tops(t) : pixels = Asked(t, top)
                    /\ \A at \in pixels : at[1] < Measure(t.text, t.layout)
=============================================================================
