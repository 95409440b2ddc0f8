---------------------------- MODULE SdkFragments ----------------------------
(***************************************************************************)
(* The fragments of SDK documents: sdk_roundtrip cuts a request into       *)
(* fragments and puts the reply together again with an SdkReassembler.     *)
(* crates/huidu/src/transport.rs, crates/huidu-proto/src/sdk_frame.rs.     *)
(* The device puts requests together the same way, cuts its replies as it  *)
(* likes, and may send fragments that make no sense.  Bytes are told apart *)
(* by the document and the place they come from.                           *)
(***************************************************************************)
EXTENDS Integers, Sequences, SequencesExt

CONSTANTS U32,       \* how many values a length or an offset field has
          MaxLen,    \* bound: the longest document
          FragSizes, \* values of DeviceConfig::sdk_fragment_size
          FrameMax,  \* the longest chunk HuiduCodec puts into a frame
          Exchanges, \* bound: round trips
          Window     \* bound: reply fragments in flight

ASSUME FragmentAssumption == /\ {U32, FrameMax, Window} \subseteq Nat \ {0}
                             /\ {MaxLen, Exchanges} \subseteq Nat
                             /\ FragSizes \subseteq Nat /\ FragSizes # {}

VARIABLES fragSize, \* DeviceConfig::sdk_fragment_size
          pc,       \* where the round trip stands
          trip,     \* the number of the round trip
          doc,      \* its request
          offset,   \* how much of it was written
          toDev,    \* fragments on the way to the device
          devAsm,   \* the reassembler of the device, which lives on
          asked,    \* the requests written
          got,      \* the requests the device put together
          refused,  \* the device found a fragment at fault
          reply,    \* the reply the device is at
          sent,     \* how much of it was sent, or -1 when nothing is to be sent
          toCli,    \* fragments on the way back
          asm,      \* the reassembler of this round trip
          out,      \* what the round trip returned
          lied      \* the device sent nonsense

requestVars == <<pc, trip, doc, offset, asked>>
deviceVars  == <<devAsm, got, refused, reply, sent, lied>>
readerVars  == <<asm, out>>
vars == <<fragSize, requestVars, toDev, deviceVars, toCli, readerVars>>

Fields   == 0..(U32 - 1)
Text(who, n, len) == [i \in 1..len |-> <<who, n, i>>]
Junk(len) == [i \in 1..len |-> <<"junk", 0, 0>>]
Texts    == Seq({"ask", "reply", "junk"} \X Nat \X Nat)
Fragment == [total : Fields, offset : Fields, chunk : Texts]
Fresh    == [total |-> 0, buf |-> <<>>]

\* Types; totals and offsets fit their fields.
TypeOK == /\ fragSize \in FragSizes
          /\ pc \in {"idle", "write", "read", "timeout", "toolarge", "proto"}
          /\ trip \in 0..Exchanges
          /\ {doc, reply, out} \subseteq Texts
          /\ offset \in 0..MaxLen
          /\ {toDev, toCli} \subseteq Seq(Fragment)
          /\ {devAsm, asm} \subseteq [total : Fields, buf : Texts]
          /\ {asked, got} \subseteq Seq(Texts)
          /\ refused \in BOOLEAN /\ lied \in BOOLEAN
          /\ sent \in -1..MaxLen

Init == /\ fragSize \in FragSizes
        /\ pc = "idle"
        /\ trip = 0
        /\ doc = <<>> /\ offset = 0
        /\ toDev = <<>> /\ toCli = <<>>
        /\ devAsm = Fresh /\ asm = Fresh
        /\ asked = <<>> /\ got = <<>>
        /\ refused = FALSE /\ lied = FALSE
        /\ reply = <<>> /\ sent = -1
        /\ out = <<>>

Smaller(a, b) == IF a < b THEN a ELSE b
Larger(a, b)  == IF a > b THEN a ELSE b

\* Names that begin with Slip are mistakes this code could have made: the next
\* definition with a slip in its place breaks a property.  No action uses one.

SlipZeroStep     == fragSize
SlipNarrowEnd(f) == (f.offset + Len(f.chunk)) % U32
SlipKept(a)      == a
SlipFirstOnly(a) == TRUE
SlipLongTotal    == MaxLen

-----------------------------------------------------------------------------
(* SdkReassembler::push.                                                   *)

\* The total is that of the first fragment, as long as nothing was kept of it.
OtherTotal(a, f) == a.buf # <<>> /\ f.total # a.total

\* A fragment carries on where the last one ended.
Misplaced(a, f) == f.offset # Len(a.buf) % U32

\* The end of a fragment, in 64 bits, lies within the total.
EndOf(f)   == f.offset + Len(f.chunk)
TooLong(f) == EndOf(f) > f.total

Faulty(a, f) == OtherTotal(a, f) \/ Misplaced(a, f) \/ TooLong(f)

Pushed(a, f) == [total |-> IF a.buf = <<>> THEN f.total ELSE a.total,
                 buf   |-> a.buf \o f.chunk]
Whole(a)     == Len(a.buf) % U32 = a.total

\* std::mem::take, once the document is whole.
Emptied(a)   == Fresh

-----------------------------------------------------------------------------
(* sdk_roundtrip.                                                          *)

\* frag_size.max(1).
Step == Larger(fragSize, 1)

\* The longest document: u32::try_from(xml.len()).
Longest == U32 - 1

\* A request of some length, unless an earlier one failed.
Call == /\ pc = "idle" /\ trip < Exchanges
        /\ trip' = trip + 1
        /\ \E len \in 0..MaxLen : /\ doc' = Text("ask", trip', len)
                                  /\ pc' = IF len > Longest THEN "toolarge" ELSE "write"
        /\ offset' = 0
        /\ asm' = Fresh /\ out' = <<>>
        /\ UNCHANGED <<fragSize, asked, toDev, toCli, deviceVars>>

\* The next slice of the request; even an empty request is one fragment.
Slice == SubSeq(doc, offset + 1, Smaller(offset + Step, Len(doc)))

WriteFragment ==
  /\ pc = "write" /\ Len(Slice) <= FrameMax /\ Len(toDev) < Window
  /\ toDev' = Append(toDev, [total |-> Len(doc), offset |-> offset % U32, chunk |-> Slice])
  /\ offset' = offset + Len(Slice)
  /\ IF offset' >= Len(doc) THEN pc' = "read" /\ asked' = Append(asked, doc)
                            ELSE UNCHANGED <<pc, asked>>
  /\ UNCHANGED <<fragSize, trip, doc, toCli, deviceVars, readerVars>>

\* HuiduCodec refuses a fragment that does not fit into a frame.
WriteRefused == /\ pc = "write" /\ Len(Slice) > FrameMax
                /\ pc' = "toolarge"
                /\ UNCHANGED <<fragSize, trip, doc, offset, asked, toDev, toCli,
                               deviceVars, readerVars>>

\* A reply fragment that completes the document ...
ReadLast == /\ pc = "read" /\ toCli # <<>> /\ ~Faulty(asm, Head(toCli))
            /\ Whole(Pushed(asm, Head(toCli)))
            /\ out' = Pushed(asm, Head(toCli)).buf
            /\ asm' = Emptied(Pushed(asm, Head(toCli)))
            /\ toCli' = Tail(toCli)
            /\ pc' = "idle"
            /\ UNCHANGED <<fragSize, trip, doc, offset, asked, toDev, deviceVars>>

\* ... or does not, and the deadline starts again ...
ReadPart == /\ pc = "read" /\ toCli # <<>> /\ ~Faulty(asm, Head(toCli))
            /\ ~Whole(Pushed(asm, Head(toCli)))
            /\ asm' = Pushed(asm, Head(toCli))
            /\ toCli' = Tail(toCli)
            /\ UNCHANGED <<fragSize, requestVars, toDev, out, deviceVars>>

\* ... or that makes no sense: FragmentTotalLenMismatch, FragmentGap, FragmentOverflow.
ReadFault == /\ pc = "read" /\ toCli # <<>> /\ Faulty(asm, Head(toCli))
             /\ pc' = "proto"
             /\ toCli' = Tail(toCli)
             /\ UNCHANGED <<fragSize, trip, doc, offset, asked, toDev, deviceVars, readerVars>>

\* config.timeout passes without a frame.
ReadNothing == /\ pc = "read" /\ toCli = <<>>
               /\ pc' = "timeout"
               /\ UNCHANGED <<fragSize, trip, doc, offset, asked, toDev, toCli,
                              deviceVars, readerVars>>

-----------------------------------------------------------------------------
(* The device.                                                             *)

\* It puts the request together with a reassembler of its own, and makes up a reply.
DevTake == /\ toDev # <<>> /\ sent = -1
           /\ toDev' = Tail(toDev)
           /\ IF Faulty(devAsm, Head(toDev))
              THEN refused' = TRUE /\ UNCHANGED <<devAsm, got, reply, sent>>
              ELSE LET next == Pushed(devAsm, Head(toDev)) IN
                   IF Whole(next)
                   THEN /\ devAsm' = Emptied(next)
                        /\ got' = Append(got, next.buf)
                        /\ \E len \in 0..Smaller(MaxLen, U32 - 1) :
                              reply' = Text("reply", Len(got'), len)
                        /\ sent' = 0
                        /\ UNCHANGED refused
                   ELSE devAsm' = next /\ UNCHANGED <<got, refused, reply, sent>>
           /\ UNCHANGED <<fragSize, requestVars, toCli, readerVars, lied>>

\* It sends the next piece of the reply, which may be empty.
DevReply == /\ sent >= 0 /\ Len(toCli) < Window
            /\ \E end \in sent..Smaller(sent + FrameMax, Len(reply)) :
                  /\ toCli' = Append(toCli, [total |-> Len(reply), offset |-> sent,
                                             chunk |-> SubSeq(reply, sent + 1, end)])
                  /\ sent' = IF end = Len(reply) THEN -1 ELSE end
            /\ UNCHANGED <<fragSize, requestVars, toDev, readerVars, devAsm, got,
                           refused, reply, lied>>

\* Or any fragment at all.
DevLie == /\ pc = "read" /\ Len(toCli) < Window
          /\ \E total, place \in Fields, len \in 0..FrameMax :
                toCli' = Append(toCli, [total |-> total, offset |-> place,
                                        chunk |-> Junk(len)])
          /\ lied' = TRUE
          /\ UNCHANGED <<fragSize, requestVars, toDev, readerVars, devAsm, got,
                         refused, reply, sent>>

Client == \/ Call \/ WriteFragment \/ WriteRefused
          \/ ReadLast \/ ReadPart \/ ReadFault \/ ReadNothing
Next   == Client \/ DevTake \/ DevReply \/ DevLie

Spec == Init /\ [][Next]_vars

\* The task is scheduled and its deadlines pass; the device reads, and answers
\* what it read.
FairSpec == Spec /\ WF_vars(Client) /\ WF_vars(DevTake) /\ WF_vars(DevReply)

-----------------------------------------------------------------------------
(* Properties.                                                             *)

\* The device puts together the very documents the client wrote, one by one,
\* whatever the fragment size: none is cut, doubled, refused or mixed with the next
\* (transport.rs lines 86 to 103).
RequestIsWhole == ~refused /\ IsPrefix(got, asked)

\* A device that sends no nonsense gets its replies through, in pieces of any size,
\* and none is taken for whole too early or for faulty (sdk_frame.rs, push).
ReplyIsWhole == ~lied => /\ pc # "proto"
                         /\ (pc = "idle" /\ trip > 0 => out = reply)

\* Whatever the device sends, a reassembler that still waits holds less than was
\* announced, so its 32 bit length does not wrap (sdk_frame.rs lines 76 to 90).
InBounds == \A a \in {asm, devAsm} : a.buf # <<>> => Len(a.buf) < a.total

\* The fragment loop ends for every fragment size, zero among them, when the device
\* does not itself wait for a reader of nonsense (transport.rs lines 87 to 103).
RequestEnds == pc = "write" /\ ~lied ~> pc # "write"

\* crates/huidu/src/config.rs line 19: the deadline is one of the round trip.  Every
\* fragment starts it again.
ReplyEnds == pc = "read" ~> pc # "read"
=============================================================================
