# A TLA+ development for huidu-led-rs

huidu-led-rs is a Rust client for Huidu LED controllers. A `Device` is one TCP
connection shared by any number of tasks; this directory holds models of what
happens on that connection, TLC instances that check them, and TLAPS proofs of
what matters most. Paths below are relative to the repository.

- [The system](#the-system)
- [Modules](#modules)
- [Runs and what they show](#runs-and-what-they-show)
- [Bounds](#bounds)
- [Fairness](#fairness)
- [Proofs](#proofs)
- [Where the code and its documentation disagree](#where-the-code-and-its-documentation-disagree)
- [What is not modelled](#what-is-not-modelled)
- [Plan](#plan)

## The system

| component | state | operations | modelled by |
|---|---|---|---|
| connection (`huidu/src/device.rs`, `transport.rs`) | the `Framed` socket with its write buffer behind a fair tokio mutex, the `poisoned` flag, the heartbeat's join handle, the `Arc` that keeps all of it alive | `send_sdk`, `send_hd2020`, `send_heartbeat`, `heartbeat_loop`, `close`, drop of the `Device`, drop of any future at any await | `Connection` |
| handshake and probe (`device.rs`, `probe.rs`) | a bare socket, the phase, the session guid | `Device::connect`, `classify`, `sdk_handshake` | `Handshake` |
| file upload (`upload.rs`) | the open file and its cursor, the announced length and digest, the offset, the retry count; the mutex and the guard for as long as the stream lives | `upload_file`, the stream's turns, `send_chunk`, `stream_md5` | `Upload` for the bytes, `Connection` for the lock and the guard |
| SDK fragmentation (`transport.rs`, `huidu-proto/src/sdk_frame.rs`) | the write offset; `SdkReassembler` (`total_len`, `buf`) | the fragment loop, `push` | `SdkFragments` |
| typed commands (`commands.rs`, `device.rs`) | none of their own; the settings and programs of the device, which callers share | getters, setters, the brightness wrappers, `delete_files`, `send_screen`, `send_text` | `Commands`; the SDK command of `Connection` |
| frame codec (`codec.rs`, `frame.rs`) | the read buffer of `Framed` | `decode`, `encode` | `WireBytes`, `ByteStream` |
| SDK envelope (`sdk/envelope.rs`, `method.rs`, `result.rs`, `xml.rs`) | none | `wrap`, `decode_reply`, `check`, `extract_element` | `Envelope` |
| SDK messages (`sdk/messages/`) | none | `write_body`, `parse_body`, `decode` of each message | `Messages` |
| HD2020 frame (`hd2020/frame.rs`) | none | `encode`, `decode`, `checksum` | `WireBytes`, `ByteStream` |
| file payloads (`file.rs`) | the cursor of `Reader` | `encode` and `parse` of six payloads | `WireBytes`, `ByteStream` |
| HD2020 bitmap, font (`hd2020/`) | a bitmap under construction | `render`, `measure`, `to_payload`, `realtime_text_frame` | `Panel`, sent by `ByteStream` |
| screen builder (`screen/`) | a value under construction | builders, `to_program_xml` | `Screen`, sent by `Commands` |
| configuration, errors | constants, outcomes | | constants and outcomes of the modules |

How they interact. Every exchange, be it a command, a heartbeat ping, an
upload, or the shutdown in `close`, owns the mutex for its duration. An
exchange first checks `poisoned`, then arms a `PoisonGuard`; the guard sets the
flag when it is dropped without having been disarmed. Locals are dropped in
reverse order of declaration, so the guard is settled before the mutex is
released, and this order carries most of the correctness. The wire is strict
request and reply, and no frame names the request it belongs to. The heartbeat
holds a `Weak`; upload streams hold an `Arc` of their own and may outlive the
`Device` value. HD2020 connections share the mutex but write raw bytes past the
codec.

What is hard about it:

- **Cancellation at every await.** A future may be dropped while it queues for
  the mutex (harmless), while it writes, between two fragments, while it reads,
  and between two items of an upload (the rest of the exchange is lost).
- **A frame cut in mid-flush.** `conn.send` encodes a frame into the write buffer of
  `Framed` and then waits for the socket to take it. A send that fails or is dropped
  leaves the rest there, and the next flush, which may be that of `close`, sends it.
- **Replies that do not end.** `sdk_roundtrip` reads on after each fragment that does
  not complete the document, under a fresh deadline and with the mutex held.
- **Late replies.** A deadline may pass while the answer is on its way. The
  next reader would take the stray answer for its own.
- **Three kinds of end.** Success and a refusal by the device leave the link in
  step; everything else does not. The outcome a caller sees must tell which.
- **A second writer of the flag.** `heartbeat_loop` stores `poisoned` holding
  neither the mutex nor a guard.
- **Streams that hold the mutex** while their consumer does something else.
- **`close` against the heartbeat, dropped devices against streams.**
- **A file that others write** while it is measured, hashed and sent.
- **32 bit lengths** in the fragments, fragment sizes from configuration.
- **Replies without a subject.** `decode` does not look at the method of a reply,
  and every attribute has a default, so any well-formed success would pass for any
  info; and a request given up may be carried out later.
- **Read, change, write back.** Ten bodies are written by one function and read by
  another; a field they disagree about changes the device behind the caller's back.
- **Clipping** at the edge of a packed bitmap, and arithmetic in `i32` and `u32`.

What makes each component correct, with the formula that says so:

- connection: a reply reaches the request it answers (`OwnReply`); a sound,
  unused link is silent (`QuietWhenFree`); the mutex changes hands only when the
  guard is settled (`HandoverIsSettled`); poison is final, no request begins on a poisoned
  link, and only `close` writes out what an abandoned one had encoded
  (`PoisonIsFinal`); poison has no cause but an exchange given up
  (`PoisonByAbandonment`); outcomes tell the health of the link
  (`OutcomeTellsHealth`); the heartbeat keeps watching (`HeartbeatWatches`) and
  ends when it should (`HeartbeatEnds`); closing cuts nothing short
  (`CloseCutsNothing`) and ends (`CloseEnds`); calls end (`EveryCallEnds`), the last
  three if the device reads and ends its replies; HD2020 links carry no codec frames (`NativeOnly`). All of it together: the
  connection is a `Session`.
- upload: cursor and offset agree (`Aligned`); what the device holds is in place
  (`InPlace`); a mismatch at the end has an outside cause (`NoFalseAlarm`);
  uploads end (`UploadEnds`). Seen from outside, an upload is a `Transfer`, whose
  progress is never ahead of the device (`ImplementsTransfer`).
- fragmentation: documents arrive whole in both directions (`RequestIsWhole`,
  `ReplyIsWhole`), the buffer stays below its width (`InBounds`), the loop ends
  (`RequestEnds`).
- codecs: the buffer begins at a frame whatever was cut or refused (`AtBoundary`),
  frames arrive as sent or not at all (`FramesArrive`) and are not kept waiting
  (`NeverWaits`).
- typed commands: a getter tells what the device held while it was under way
  (`ReadingIsTrue`), a setter that succeeded was carried out and reads as meant
  (`SetIsDone`), a screen arrives as it was built (`ScreenArrives`), every number
  fits its field (`TypeOK`).
- bitmaps: a text is lit where it was asked for and nowhere else
  (`PanelShowsText`).
- handshake: what is handed over is a silent, identified link
  (`HandsOverQuiet`), requests carry the session guid as soon as there is one
  (`RequestsIdentified`), no XML goes to an HD2020 controller (`NoXmlOnHd2020`),
  connecting ends if the device ends its replies (`ConnectEnds`).

`PROJECT.json` lists the hazards line by line.

## Modules

### Session

The abstract promise, in 60 lines: an owner, a broken flag, the number of the
youngest exchange, and the set of exchanges that still have frames in flight.
An exchange starts only on an unbroken link with an empty wire, finishes only
with an empty wire, or is abandoned, and then nothing starts any more. What is left of an abandoned exchange may still
drain.

### Connection

| in the model | in the code |
|---|---|
| `holder`, `waiters`, `Acquire`, `Release`, `Withdraw` | `tokio::sync::Mutex`: first come first served, handed over directly, lock futures that may be dropped in the queue or just after they were served |
| `poisoned`, `armed`, `Disarm`, `DropGuard` | `DeviceInner::poisoned`, `PoisonGuard` |
| `Refuse`, `Begin` | the check after the lock, and `PoisonGuard::new` |
| `wbuf`, `WriteOut`, `Room` | the write buffer of `Framed`, and how a piece of it gets into the socket |
| `EncodeFrame`, `EncodeRefused`, `Flush` | `conn.send` in `raw_roundtrip` and `sdk_roundtrip`: the frame is encoded into the buffer, or is `FrameTooLarge`, and goes out piece by piece |
| `WriteNative` | `write_all` in `hd2020_send`, past the codec and its buffer |
| `SendBroken`, `SendTimeout` | an I/O error; the deadline that only the native write has |
| `ReadDone`, `ReadMore`, `ReadNack`, `ReadBad`, `ReadNothing` | `read_frame` and what its caller makes of the frame |
| `PollChunk`, `PollEnd`, `PollError`, `PollParked` | the consumer's poll of an upload stream; after an `Err` item the generator still owns guard and mutex |
| `Settle`, `Unlock` | the drop of the guard, then of the mutex guard: two steps, since another task may run between them |
| `CancelTrip`, `CancelEarly` | the future is dropped after, or before, the guard exists |
| `HbPing`, `HbStop`, `HbMark`, `HbAborted` | `heartbeat_loop` |
| `CloseStart`, `CloseJoin`, `CloseFlush`, `CloseShut`, `CloseBroken`, `CloseDropped`, `DropDevice` | `Device::close` (take, abort, join, lock, then `frames.close()`: flush and shut down) and a dropped `Device` |
| `answering`, `DevTake`, `DevAnswer`, `DevMore`, `DevEnd`, `DevClose` | the device: it takes in what it is sent, and answers a request with any number of fragments, of which the last may complete the reply, refuse, be wrong or be missing; it may be late and may hang up |

A step ends where another task can see the difference: an await, the drop of
the guard, the release of the mutex. A frame carries the number of the request
it belongs to, which the code does not have; no guard reads it, only the
properties do.

A frame goes out in pieces, of which the last says what the frame is. If a codec
write fails or its future is dropped in the middle, the guard is armed, and the
pieces not yet out stay in `wbuf`, since the buffer belongs to the `Framed` and not
to the future. No request begins on the poisoned link, but `frames.close()` flushes
before it shuts down and does not ask for the flag: `CloseFlush` sends the rest, which
may complete the abandoned request, and the device may carry it out. A native frame
has no such buffer; what is left of it is gone with the future.

`ConnectionInv` adds the inductive invariant, `ConnectionProofs` the proofs,
`MCConnection` the symmetry set.

### Upload

`Open`, `HashRead`, `HashDone` are `upload_file` before it returns the stream;
`Start` to `EndReply` are the stream. `Edit` lets others write the file between
any two of them, so length, digest and content may each see another file, the
digest even a mixture. Reads return any part of what was asked for. A refused
chunk may have been written all the same. What the device holds at the start is
any piece of this file, or of another one, possibly longer than this. The digest
is perfect, that is MD5 collisions are left out. The stages of `Error::Upload`
are the values of `result`. `Lost` is every I/O error and timeout; what it means
for the link is `Connection`'s matter.

### Transfer

What an upload promises its user, in six actions: a content is settled on, the
device holds more and more of it, no more is reported than it holds, and a
success means that it holds all of it, whatever others did to the file. Only a
disturbance (the file was written meanwhile, or the device held something else
to begin with) excuses a wrong piece or a mismatch at the end. `Upload` says by
`INSTANCE ... WITH` how it implements this: `promised` is what was hashed, `held`
what is stored, `told` the offset of the progress items, and `Phase` sums up the
program counter and the result. `UploadProofs` has the invariant and the proofs.

### SdkFragments

`Call`, `WriteFragment`, `WriteRefused`, `ReadLast`, `ReadPart`, `ReadFault`,
`ReadNothing` are `sdk_roundtrip`; `OtherTotal`, `Misplaced`, `TooLong`,
`Pushed`, `Whole`, `Emptied` are the parts of `SdkReassembler::push` in their
order. The width of `u32` is the constant `U32`, the cast in `push` is `% U32`,
and the comparison at lines 83 to 84 is not reduced, as in the code. The device
reassembles with a reassembler that lives as long as the connection, cuts its
replies anywhere, and may send any fragment whatever. `SdkFragmentsProofs` has the
invariant and the proofs.

### Handshake

One action per step of `Device::connect`: the dial, the request of a phase, the
reply of each phase, and every way to fail. `speaks` is what the device is,
`protocol` what the probe made of it. The end of a successful behaviour is the
initial state of `Connection`. Requests and replies are documents of `Envelope`,
so which of a document's faults surfaces first, and which element overrides which,
is decided as in the code. A reply is any number of fragments that do not complete it
(`DevPart`, taken by `ReadPart`, after which the deadline starts again) and then the
document (`DevAnswer`), or something else, or nothing. What the fragments are put
together to is `SdkFragments`; a fragment that does not fit the others ends the connect
with the same error as an unknown command. `HandshakeProofs` has the invariant and the proofs;
`MessagesProofs`, which it rests on, says what is read out of a document.

### Envelope

Operators without state: `Wrap` is `wrap`, `Visit` the closure of `decode_reply`,
`Refused` is `check`, `Verdict` the lines with which every reply is read, and
`ExtractElement` counts tags as `extract_element` does. A document is the sequence
of its XML events (start, empty and end tags, and texts), each with the attributes
it has; a value that cannot be unescaped is a value of its own, XML that breaks off
an event of its own.

### Messages

The bodies of `sdk/messages/`. Each `write_body` writes elements whose attributes are
fields, each `parse_body` is a `match` on element names with one `if let` for each
attribute. So a message is a table of rows (element, attributes, type, default),
and `WriteBody` and `ParseBody` are what the functions have in common: an attribute
that is missing leaves the value as it was, a text that is not a number of the field's
width is the default of that attribute, a list grows by one item for each element, and an
attribute that cannot be unescaped fails the body. A few tables differ from the
others where the code does: `str::parse` takes numbers in other spellings than the one
they are written in (`Spellings`: blanks around them, which `parse_int_or` trims, a plus
sign, leading zeros), `valid` of `<eth>` is written and never read, an enum
has its own texts. `ProgramPush` carries a screen verbatim and lifts it out again.

### Screen

The builder of `screen/mod.rs`, and `to_program_xml` node by node: `WriteProgram`,
`WriteArea`, `WriteText`, `WriteClock`. A guid is the text the code makes of the
place of a node. `HoldDs` is the multiplication that wraps; `Overflows` says for
which screens a build that checks arithmetic panics instead. `IsScreen` are the types:
lists of children, whose indices are in `Indices`, and hold times that fit a `u32`.

### Commands

| in the model | in the code |
|---|---|
| `Get`, `Set`, `ClearLogo`, `Delete`, `SetBrightness…`, `SendScreen`, `SendText` | the methods of `commands.rs` and `device.rs`, each a method and an argument |
| `Call` | the method is called; a screen is turned into XML, or panics, before the mutex is asked for |
| `Begin`, `Refuse` | `send_sdk` with the mutex held |
| `Finish`, `Reading` | the reply is there; `exec` or `get_body` reads it |
| `GiveUp`, `Poison` | the deadline, an error, or a dropped future |
| `Reconnect` | the program drops a poisoned `Device` and connects again |
| `DevServe`, `DevRefuse`, `DevLate` | the device carries out a request, or refuses it, or carries out one of an old connection |

The device is outside the repository. It keeps the body of a setter as it is and
answers the getter with it, and what it holds at first is whatever `parse_body`
copes with: attributes missing, out of range, in other letters, elements twice or
unknown. `held` records what the device held while a call was under way; only the
properties read it. That a reply follows its request within one connection is
`OwnReply`, which `Connection` proves frame by frame, so here a request and its
reply are one message each. The property this module adds is across connections
and topics. The configuration uses the settings in pairs that one could mistake
for another and alone where a single one says enough.

### Panel

`MonoBitmap`, `render` and `to_payload`. A bitmap is its bytes; `SetPixel` is `set`,
with the test that clips; `TopRow` has the casts to `i32` and the division that
rounds towards zero. `blit_char` goes through the cells of a glyph and `render` through
the characters of a text in the code's order, as recursive functions, so that both can
be proved about. The glyphs are a constant. `PanelShowsText` does not look at how
a bitmap is drawn: it takes the bytes of the payload apart and asks for each pixel
whether a glyph of the text covers it.

### WireBytes and ByteStream

`WireBytes` holds the byte layouts as operators: `Le` and `FromLe` for integers,
`Layout`, `Payload` and `Parse` for the six payloads of `file.rs` with `Field`
for the methods of `Reader`, `CodecEncode` and `CodecDecode` for `HuiduCodec`,
`NativeEncode`, `NativeDecode` and the wrapping `Checksum` for `Hd2020Frame`. A
payload is the list of its fields; a digest and a text are sequences of bytes, some
of which make a text invalid. What goes through the fields of a payload, or the bytes
of a number, is a recursive function, so that it can be proved about. `B` values of a byte and the bytes of `u16`, `u32`
and `u64` are constants, so the largest lengths can be enumerated.

`ByteStream` sends frames with them, realtime text of `Panel` among them, damages a byte of a native frame, cuts file
payloads short or lets something follow them, delivers the stream in pieces of
any size, and decodes after each. `Connection` takes for granted that frames
travel whole and in order; this module is where that is checked. Damage to the
length field of a native frame is left out: the frame boundary is then wherever
the damaged length says, and the format promises nothing. The client never
decodes native frames; `Hd2020Frame::decode` is part of the crate's interface.
`ByteStreamProofs` has what the encoders and decoders promise one another and the
invariant of the stream, and `Recursion` induction over numbers and the existence of
recursive functions, for whichever module needs them.

Each `MC` module only gives TLC a module of its own to start from.
Definitions whose names begin with `Slip` are mistakes this code could have
made. No action uses one; each is paired with a property that it breaks, see
`mutants` in `PROJECT.json`.

## Runs and what they show

| run | module | expects | states | shows |
|---|---|---|---|---|
| `connection_sdk` | MCConnection | pass | 250,900 | safety of an SDK 2.0 connection with two callers, both commands and uploads, heartbeat, close; and that it implements `Session` |
| `connection_hd2020` | MCConnection | pass | 890 | the gate keeps codec frames off an HD2020 link; outcomes tell its health |
| `connection_live` | MCConnection | pass | 242,832 | calls, heartbeat and close end when the device reads what it is sent and ends its replies |
| `connection_hd2020_upload` | MCConnection | violation | | an upload is not gated |
| `connection_blocked` | MCConnection | violation | | a codec write has no deadline |
| `upload` | MCUpload | pass | 98,015 | the bytes of an upload, that it ends, and that it implements `Transfer` |
| `upload_grown` | MCUpload | violation | | a file that grows is sent beyond its announced length |
| `fragments` | MCSdkFragments | pass | 284,755 | documents arrive whole, lengths do not wrap, the fragment loop ends |
| `fragments_endless` | MCSdkFragments | violation | | every fragment starts the deadline again, so a reply that does not end is waited for without end |
| `byte_stream` | MCByteStream | pass | 418,340 | frames and file payloads survive a stream cut anywhere, damage is noticed, the frame boundary is kept over errors, text on panels is where it was asked for |
| `commands` | MCCommands | pass | 370,923 | getters, setters and screens of two callers, over failures and reconnections |
| `handshake` | MCHandshake | pass | 668 | the handshake against both kinds of device, with every kind of document |

`CHECK_DEADLOCK FALSE` everywhere: the number of calls is bounded, and a closed
connection, a finished upload or handshake really stops. That nothing stops too
early is what the liveness properties say.

## Bounds

- `Connection`: two callers and the heartbeat and the closer contend, so the
  mutex has up to three waiters and each kind of owner can be followed by each
  other kind. `MaxTrips` stops new calls and pings after two requests have been
  numbered, while an upload under way goes on to its end; two are enough for a
  reply of one request to be found by the next. One request takes up to two
  frames of up to two pieces each, with a socket that holds one piece, so a task can be
  blocked and dropped between two frames of a request and in the middle of one. One
  chunk with one retry gives every branch of the upload. A reply has any number of
  fragments before the last, of which two are in flight at a time. The proofs need none
  of these bounds.
- `connection_live` has `MaxTrips = 1`, `MaxFrags = 1` and one reply frame in flight,
  because liveness is checked without symmetry; a frame still has two pieces, a reply
  still any number of fragments, and up to three tasks may begin before the first
  request is numbered.
- `Upload`: files of up to three bytes of two values, chunks of two, so there
  are full, short and last chunks; one retry; one write by others, which may
  grow, shrink or change the file.
- `SdkFragments`: `U32 = 4` with documents of up to four bytes, so the largest
  length and one too large occur; fragment sizes 0 (taken for 1), 2 (a full frame) and
  3 (more than a frame); two round trips.
- `ByteStream`: bytes of four values and two-byte lengths, so a `u16` ends at 15
  and payloads just within and just beyond both limits occur; two frames, so the
  first can be followed by part of the second in the buffer. Longer streams
  repeat this: the decoders keep no state but the buffer.
- Panels in `ByteStream`: bytes of two pixels, glyphs of two columns and three rows,
  an `i32` of 32 values; six texts, which are cut at each edge, in the middle of a
  byte, centred on a panel too low for them, too large to send, and at a row that is
  another one as `i32`.
- `Commands`: two callers and three calls, so a call can overlap another, follow one
  that failed, and write back what an earlier one read; the topics of a behaviour are
  one or two of ten (`Focuses`). `Numbers` are the numbers that occur, with one beyond
  each width; a `u32` has 999 values so that a hold of 100 seconds overflows, an `i64`
  as many below zero. Three screens: none, one of two programs with areas of several
  items of both kinds, and one whose hold overflows. `Indices` are 0, 1 and 11, so that
  a place could be taken for another if its indices were not kept apart.
- `Spellings` in `commands`: a number with blanks and a plus sign, and one with a leading
  zero that is beyond a `u8`.
- `handshake`: thirteen documents, at least one for each verdict and each way of
  overriding an earlier element; the handshake reads two documents.

## Fairness

`ClientFair` of `Connection`: a task that can go on is scheduled (the tokio runtime
is), its timers fire, the task in `close` included, and the consumer of a stream polls
it or drops it. The last one is a condition on the program that uses the library, not
something the code ensures: a consumer that does neither leaves the mutex with the
suspended stream, and every other caller and `close` wait for it, as the module comment
of `upload.rs` says. That behaviour is excluded here. Fairness is on `Exchange(t)` as a
whole: it does not promise that an answer wins against the deadline.

Of the device, liveness needs two things. `PeerReads`: it takes what is written to it.
`connection_blocked` leaves this out and shows why it is needed. `AnswersEnd`: it does
not go on for ever with a reply it has begun; it may leave it unfinished, or be
silent, since then a deadline passes. Without it a device that keeps sending
fragments holds a command, and with it the mutex and everyone who queues for it, since
each fragment starts the deadline again: `fragments_endless` shows this of a round
trip. `Handshake`, whose second and third phases are such round trips, needs
`AnswersEnd` too. It needs no `PeerReads`: each of its requests is written to a socket
whose buffer is empty, and is smaller than that. `Upload` asks for weak fairness of the
program's own steps only. `SdkFragments` asks that the device reads and replies, for what is
shown to end there is the writing of a request, not the reading of a reply. Nothing
assumes that the mutex is obtained: it is first come first served, and that follows.

## Proofs

All proofs are checked to the last leaf. They hold for every value of the constants
that the named assumptions allow, so none of the bounds above is one of theirs; the
runs check the same invariants on small instances first.

| component | proved | assumes |
|---|---|---|
| `Connection` | `TypeOK`, `OwnReply`, `QuietWhenFree`, `OutcomeTellsHealth`, `HeartbeatWatches`, `HandoverIsSettled`, `PoisonIsFinal`, `PoisonByAbandonment`, `CloseCutsNothing`, `NativeOnly` without uploads, and that it is a `Session` | `TaskAssumption`: task identities differ; `BoundAssumption`: sizes are numbers, a socket holds at least a piece, a request has at least a frame and a frame a piece; `UseAssumption`: which protocol and which calls |
| `Upload` | `TypeOK`, `Aligned`, `InPlace`, `NoFalseAlarm`, and that it is a `Transfer` | `UploadAssumption`: chunks are not empty, counts are numbers, the junk of another file is no byte of this one |
| `SdkFragments` | `TypeOK`, `RequestIsWhole`, `ReplyIsWhole`, `InBounds` | `FragmentAssumption`: a frame carries at least a byte, sizes and counts are numbers; a fragment size of 0 is among them |
| `Handshake` | `TypeOK`, `HandsOverQuiet`, `NoXmlOnHd2020`, `RequestsIdentified`, `AsksInOrder`, `NoSocketLeft` | `DocumentAssumption`: documents are sequences of events, and the two methods of the handshake are known |
| `ByteStream`, `Panel` | `TypeOK`, `AtBoundary`, `FramesArrive`, `NeverWaits`, `PanelShowsText` | `ByteAssumption`: a byte has at least two values, fields at least a byte, codes differ and fit; `PanelAssumption`: a byte has as many values as its bits tell apart, a `u16` fits in an `i32`, a glyph has a cell; `StreamAssumption`, `PayloadAssumption`, `StrayAssumption`: what is sent is of the types of its fields, and what is put between frames is a frame |
| `WireBytes` | round trips, decoders that do not change their mind, damage that is noticed | `ByteAssumption` |
| `Envelope`, `Messages` | that an envelope reads as what it was made with, that no guid is given out that could not be read, that what is read is of the type of its struct, that a body reads the same in every envelope, that what `write_body` wrote reads as what was written, and that the element a request was made with is lifted out of it | `WidthAssumption`: numbers are integers, the defaults of the code among them, the widths of integers at least one value; `TextAssumption`: two numbers are not formatted alike, and no other spelling of a number is a text of another; that a document is a finite sequence |
| `Commands` | `TypeOK`, `ReadingIsTrue`, `SetIsDone`, `ScreenArrives` | `CommandsAssumption`: the methods are those the crate knows, what callers set or send is of the type of its struct, files to delete have names, and what the device holds is made of finite sequences; `ScreenAssumption`: a first child has an index, the default hold time fits; `GuidAssumption`: no two places in a screen are formatted to the same guid |

### Connection

The central property is `OwnReply`: whoever waits for a reply finds only its own
reply. It is not inductive. That the frame at the head of `toCli` carries the
number of my request needs that every codec frame in flight or buffered, and the
answer the device is at, carry the number of the *youngest* request (`YoungestInv`),
that the youngest request is mine because I am the only task in an exchange
(`MutexInv`), and that when the exchange began the link was silent (`QuietWhenFree`):
nothing in flight, nothing in the write buffer, and a device that has nothing more to
say. Silence in turn must be re-established by whoever leaves. When the last reply frame
has been read, the link must be silent (`ReadInv`: nothing is buffered, a final reply
frame is the last one and the device says nothing after it, and once a reply began no
request frame is left); between two requests of an upload it must be silent too
(`YieldInv`); and while a request is being written nothing has been answered yet
(`SendInv`: the piece that makes the device answer is the last, and `FlushInv`: in
the buffer too, where it is the end of the last frame).
That a guard is armed during all of this, and on a sound connection, is
`GuardInv`; that the outcome agrees with the guard is `OutcomeInv`; that each
kind of task stays in its part of the program is `PlaceInv`. Together with the
types and `HeartbeatWatches` they make `IInv`.

`PoisonFinal` follows from `GuardInv`. Whoever encodes or flushes a frame has its guard
armed on a sound connection, so on a poisoned one nobody does, with one exception: the
closer, which flushes without asking for the flag. What has still to reach the
device is therefore, from the moment of the poison, only taken off at the head, and
the write buffer changes only while the closer holds the mutex.

`ConnectionProofs` begins with what sequences and the mutex do (`Acquire`,
`Release`, `Withdraw` keep the queue free of duplicates and hand over to a
waiter), what the wire operators do, and which kinds of steps there are. Then
`Init` implies `IInv` and every action keeps every conjunct: one lemma for each
conjunct, one step for each action. Theorem `Refinement` takes the armed holder as
the owner, the flag as broken, and the numbers of the codec frames in flight as the
wire; then every step of `Connection` is a step of `Session` or a stutter.

`NativeWithoutUploads` says that an HD2020 connection carries no codec frames if
`"start"` is not in `Workload`. The hypothesis is what the code lacks:
`upload_file` has no protocol gate, and `connection_hd2020_upload` shows the
property violated with it.

### Upload

`Aligned`, `InPlace` and `NoFalseAlarm` are part of their own invariant, but what they
say at the end depends on every earlier stage: that what was hashed of an unedited file
is that file (`HashInv`), that before the first chunk the device holds what it held at
the start (`StartInv`), that a chunk is the piece at the offset, that the offset never
runs ahead of the device, and that the loop ends only when all of the file is there
(`ChunkInv`). Where the file matters, the conjuncts are conditional on no disturbance,
and the condition is what makes them inductive: an `Edit` voids the hypothesis instead
of the conclusion. The refinement of `Transfer` goes action by action.

### SdkFragments

Documents arrive whole because in each direction the wire is a *chain*: the fragments in
flight lead, piece by piece, from the place that the reader has reached to the place
that the writer has reached, and behind the end of a document is the start of the next
(`Chain`, `Pieces`). `RequestInv` says it for the requests, whose chain may span
documents, since the device's reassembler lives as long as the connection; `ReplyInv`
for the replies of a device that has not lied, of which none but the last fragment leads
to the end of the document. That last part is what an empty fragment puts at risk, and
why the places are functions over the fragments and not sums of lengths. `InBounds`
needs none of this: it holds against every device, because `push` compares before it
copies, and for every width of the length field, though the cast wraps and the
comparison does not.

### Envelope, Messages, Handshake and Commands

`decode_reply` and `parse_body` visit a document event by event, and recursive
functions over the events stand for them. `RecursionExists` of `Recursion` gives such
functions, and induction then what they preserve: whatever the document says, the
envelope seen so far has texts of this document in its fields and no unreadable guid
unless it is broken (`GuidIsReadable`), and the struct read so far has the fields of
its kind (`StructIsFilled`). The other way round, a request without a body reads as the
guid and the method that it was made with (`RequestIsRead`).

In `Handshake` request and reply take turns, and each phase knows what the earlier
ones found out: `StageInv` (where connect stands and whether the socket is open),
`AskedInv` (the requests written so far are those of the phases so far), `TurnInv` (at
most one message is on the wire, and none where connect writes or is done; a device that
may still say more has sent nothing but fragments), `FoundInv`
(the protocol from phase 2 on, a guid from phase 3 on), `KindInv` (the types).
`AskedInv` survives the step that sets the guid because the requests written by then
carry the placeholder.

`ReadingIsTrue` of `Commands` says that a getter returns what the device held while the
call was under way, however many callers there are, and whatever was given up, lost or
carried out late before. Three things have to be kept for it (`IInv` of
`CommandsProofs`). On a sound connection there is nothing on the wire but the exchange
of the holder (`WireInv`), since whoever leaves early poisons it, and a new connection
has a new wire; what the old one still held can reach the device (`late`) but no caller.
What the device holds counts as held for every call under way about it
(`UnderWayInv`), and a late request that changes it adds to that. And the reply to a
getter is the body that the device held, or a refusal (`AnswerTo`): the methods of two
getters differ, so the device answers what was asked. That the caller then reads this
body is `BodyWithinEnvelope`: the elements of an envelope fill no field, because no row
of a table has their tag.

`TypeOK` needs of the tables of fields that they can be filled in any order
(`WellMade`, a lemma for each of the nine settings): elements and fields have names of
their own, and each default fits the width of its field. Then each element leaves an
info whose numbers fit (`BodyIsShaped`), because `ParseIntOr` gives a number of the
width or the default. It is also what lets a setter write back what a getter read.

`SetIsDone` says that a setter which reports success was carried out, and that what the
device was given reads as what the caller meant. Its invariant follows the document the
other way. The command is one that a wrapper makes, of an info of the type of its struct
(`Sound`, which the brightness wrappers keep because their arguments fit a byte). The
request is its body in an envelope, from which the device reads the method that was meant
(`EnvelopeIsRead`: no row writes an element like those of an envelope) and puts the body
in the place of the setting, which `Apply` adds to what this caller's device was given.
That body was made by `WriteBody`, and `ParseBody` makes of it the info again
(`BodyRoundTrip`): the state after `i` rows has the fields of these rows from the info
and all others from the default (`Partly`), and a list is read back member by member.
For a deletion it is the rows of the files named that are gone. At last, a reply that is
no refusal tells that all this was done (`AnswerTo`, `Done`): a refusal says so in its
result, which the caller reads, and requests given up are on another wire.

`ScreenArrives` says that a screen sent with success is what the device lifted out of
the request, with everything there was to say of its nodes, in order. The invariant is
that of `SetIsDone`; what it takes besides is about the document. Each node is written
as one element around those of its children, so a screen is, whatever is in it
(`ScreenIsWithin`). `Lift` counts start and end tags, and within one element the count
comes down to 0 at its last event and not before; no event of the envelope ahead of it
begins an element of that name, and nothing behind it is looked at (`ElementIsLifted`).
What a document says of one thing is said by its events one after another, so what a
list of elements says is what each says, joined; from the items up, that is what the
screen is made of (`XmlShows`). A hold time is said as asked where the multiplication
does not wrap, which is where `Overflows` is false. And no guid is said twice: two nodes
differ in their kind or their place, and these are told apart by their guids. The last is
`GuidAssumption`, which is about digits and separators, and which the run evaluates for
`Indices`.

### WireBytes and ByteStream

That `from_le_bytes` undoes `to_le_bytes`, that `parse` undoes `encode` field by field,
that a cut payload is refused, is induction over the bytes of a number and the
fields of a payload. The library's induction takes a predicate, which the provers
cannot instantiate; a *set* of numbers that contains 0 and the successor of each of its
members they can reason about, and that it is all of `Nat` follows from the well-founded
order of numbers (`Induction` of `Recursion`). `DamageIsNoticed` is about the wrapping
sum: to change one byte other than the length changes the sum by less than a whole turn.

The invariant of `ByteStream` says that nothing is lost or moved: the bytes in the
buffer and those still to be delivered are, together, what was sent and not yet read
(`InStep`); what was read is what was meant (`InOrder`); and whatever was sent is read
as what was meant by it, also when more bytes follow (`AllReadable`). The last part rests on
`CodecExtends` and `NativeExtends`: what a decoder makes of a buffer does not change
when more bytes come, so that it does not matter where the stream is cut.
`StrayAssumption` leaves out one thing, a stray header that promises more bytes than
follow it: the decoder then waits for them, as the hazard at `codec.rs` line 33 says.

`PanelShowsText` adds what a panel makes of a payload. From the bottom up: a higher bit
is worth an even multiple of a lower one, so that adding the value of a bit that is
not set sets it, disturbs no other and stays in the byte (`SettingABit`); no two
pixels have the same byte and bit (`PlacesOfPixelsDiffer`); hence `set` lights its
pixel if it is on the panel, and nothing else (`SetPixelLights`). A glyph lights its
cells by induction over them (`BlitLights`), and a text its glyphs (`RenderLights`):
as long as the text measures less than an `i32`, the column of each glyph is itself as
an `i32`. The row is one a reader would accept (`TopRowIsTop`), and whoever takes
the payload apart finds the bitmap that was drawn (`PayloadShows`), which together are
`TextIsShown`. The invariant has one more part for it (`TextsMeant`): a frame sent for
a text means the payload rendered for that text, so that by `InOrder` the panel that
takes it has that payload. That a rendered bitmap is made of bytes is proved on the
way, not assumed.

### Only model-checked

- Liveness (`EveryCallEnds`, `CloseEnds`, `HeartbeatEnds`, `UploadEnds`, `RequestEnds`,
  `ConnectEnds`): fairness and `ENABLED` are out of the provers' reach.
- `GuidAssumption`, that the guids of two places differ: a fact about the digits of
  numbers, evaluated for `Indices` and assumed of all others.

## Where the code and its documentation disagree

- `upload_file` has no protocol gate. On an HD2020 connection it writes codec
  frames between raw ones, which `transport.rs` says never happens
  (`connection_hd2020_upload`).
- `conn.send` has no deadline, though `Error::Timeout` is documented as covering
  the round trip (`connection_blocked`).
- Each reply fragment gets a full deadline of its own, though the setting is
  documented as one per round trip (`fragments_endless`). A device that never completes
  a reply holds a command, with it the mutex, and in its second and third phase
  `Device::connect` too, for ever.
- A file that grows between `metadata` and the last read is sent beyond the
  announced size, and `fraction()` leaves its documented range
  (`upload_grown`).

Two more are no runs. After an empty first fragment a different total is accepted,
since `push` tells the first fragment by an empty buffer (`sdk_frame.rs` line 68),
while `error.rs` line 38 speaks of "a different total length than the first"; the
document is whole by the second total. And it depends on what the device compares
that a file truncated
between `metadata` (line 77) and the digest (line 78) ends the chunk loop early and
is accepted by a device that verifies the digest, though the comment at line 126
expects it to disagree.

## What is not modelled

- The text of XML and its escaping, which a library does, and the glyphs of the font.
- `GetProgram`, `DeleteProgram`, `OpenScreen`, `CloseScreen` and `ProgramPush::update`:
  messages without a body, or with that of `AddProgram`, for which `Device` has no
  method.
- The tokio runtime, TCP and the kernel's buffers beyond a bounded queue in each
  direction. A native frame cut in the middle is not put together with what follows on
  the wire: the device takes the pieces of frames one by one.
- Memory ordering: every access to `poisoned` is `SeqCst`, so it is a variable.
- A device that answers one request twice, or on its own account with another method
  than it was asked for, after the handshake. `decode` does not compare methods, so
  such a reply would be taken; in `Handshake` it is.
- Panics but that of a hold time, and running out of memory.

## Plan

Modules, most important behaviour first; all of them are here.

1. `Session`, `Connection`, `ConnectionInv` with their proofs.
2. `Transfer`, `Upload`: the data of a transfer.
3. `SdkFragments`: documents above frames.
4. `Handshake`: how a connection comes to be.
5. `WireBytes`, `ByteStream`, `Panel`: both framings, the file payloads, realtime text.
6. `Envelope`, `Messages`, `Screen`, `Commands`: what the typed commands say and mean.

An abstract specification worth adding: a `Document` channel that `SdkFragments`
implements when the device is honest.
