------------------------------ MODULE Envelope ------------------------------
(***************************************************************************)
(* SDK documents: <sdk guid><in|out method result>...</..></sdk>, how they *)
(* are written and what is read out of them.                               *)
(* crates/huidu-proto/src/sdk/{envelope,method,result,xml}.rs.             *)
(*                                                                         *)
(* A document is the sequence of its XML events: start, empty and end tags *)
(* and texts.  Values are kept as they are before they are escaped and     *)
(* after they are unescaped.                                               *)
(***************************************************************************)
EXTENDS Naturals, Sequences, SequencesExt

CONSTANTS Methods  \* SdkMethod: the names this crate knows

\* A finite sequence, as documents and the lists in what they carry are.
IsList(s) == s \in Seq(ToSet(s))

Success    == "kSuccess"   \* SdkResult::SUCCESS
Absent     == "absent"     \* an attribute that is not there
Unreadable == "unreadable" \* one whose value cannot be unescaped

\* XmlWriter: open, close, empty and text.
Open(tag, attrs)  == [ev |-> "start", tag |-> tag, attrs |-> attrs]
Close(tag)        == [ev |-> "end", tag |-> tag, attrs |-> <<>>]
Empty(tag, attrs) == [ev |-> "empty", tag |-> tag, attrs |-> attrs]
Text(content)     == [ev |-> "text", tag |-> content, attrs |-> <<>>]

\* Where the XML ends to make sense.
Malformed == Empty("malformed", [reason |-> Unreadable])

\* The values of the attributes in a document.
Texts(doc) == UNION {{e.attrs[name] : name \in DOMAIN e.attrs} : e \in ToSet(doc)}

\* xml::elements: what a visitor is shown; nesting, texts and end tags are skipped.
IsElement(e)  == e.ev \in {"start", "empty"}
Elements(doc) == {e \in ToSet(doc) : IsElement(e)}

\* xml::attr.
Attr(e, name) == IF name \in DOMAIN e.attrs THEN e.attrs[name] ELSE Absent

\* SdkMethod::from_str.
Known(method) == method \in Methods

\* wrap: a request has no result.
Wrap(guid, tag, method, result, body) ==
  <<Open("sdk", [guid |-> guid]),
    Open(tag, IF result = Absent THEN [method |-> method]
              ELSE [method |-> method, result |-> result])>>
    \o body \o <<Close(tag), Close("sdk")>>

EncodeRequest(guid, method, body) == Wrap(guid, "in", method, Absent, body)

\* A mistake this code could have made: with it in place of Lift, the first end tag of
\* any element ends the one that is lifted out.  No action uses it.
SlipShallow(tag, s, e) ==
  LET depth == CASE e.ev = "start" -> 1
                 [] e.ev = "end"   -> 0
                 [] OTHER          -> s.depth IN
  IF s.done \/ (s.depth = 0 /\ ~(e.ev \in {"start", "empty"} /\ e.tag = tag)) THEN s
  ELSE [depth |-> depth, done |-> depth = 0, out |-> Append(s.out, e)]

\* xml::extract_element: the first element with that tag and all that is in it, or
\* nothing when there is none or it never ends.
Lift(tag, s, e) ==
  LET depth == CASE e.ev = "start" -> s.depth + 1
                 [] e.ev = "end"   -> s.depth - 1
                 [] OTHER          -> s.depth IN
  IF s.done \/ (s.depth = 0 /\ ~(e.ev \in {"start", "empty"} /\ e.tag = tag)) THEN s
  ELSE [depth |-> depth, done |-> depth = 0, out |-> Append(s.out, e)]

ExtractElement(doc, tag) ==
  LET found[k \in 0..Len(doc)] ==
        IF k = 0 THEN [depth |-> 0, done |-> FALSE, out |-> <<>>]
        ELSE Lift(tag, found[k - 1], doc[k])
  IN IF found[Len(doc)].done THEN found[Len(doc)].out ELSE <<>>

-----------------------------------------------------------------------------
(* decode_reply.                                                           *)

NoHeader == [ok |-> TRUE, guid |-> Absent, method |-> Absent, result |-> Absent]
Broken   == [ok |-> FALSE, guid |-> Absent, method |-> Absent, result |-> Absent]

\* What one element says: a later <sdk> overrides the guid of an earlier one even
\* with none, and so does a later <in> or <out> with the result; a method stays
\* until another one is named.
Visit(h, e) ==
  LET guid   == Attr(e, "guid")
      method == Attr(e, "method")
      result == Attr(e, "result") IN
  CASE ~h.ok \/ e.tag = "malformed" -> Broken
    [] h.ok /\ e.tag = "sdk" -> IF guid = Unreadable THEN Broken ELSE [h EXCEPT !.guid = guid]
    [] h.ok /\ e.tag \in {"in", "out"} ->
         IF (method # Absent /\ ~Known(method)) \/ result = Unreadable THEN Broken
         ELSE [h EXCEPT !.method = IF method = Absent THEN @ ELSE method, !.result = result]

\* What the visitor matches on.
IsHeader(e) == IsElement(e) /\ e.tag \in {"sdk", "in", "out", "malformed"}

\* The visitor goes through the document; some element must have named a method.
DecodeReply(doc) ==
  LET seen[k \in 0..Len(doc)] ==
        IF k = 0 THEN NoHeader
        ELSE IF IsHeader(doc[k]) THEN Visit(seen[k - 1], doc[k]) ELSE seen[k - 1]
  IN IF seen[Len(doc)].method = Absent THEN Broken ELSE seen[Len(doc)]

\* SdkReply::check: no result counts as success.
Refused(h) == h.result \notin {Success, Absent}

\* decode_reply(..)?.check()?, with which every reply is read: what cannot be read
\* comes before what the device refuses.
Verdict(doc) == LET h == DecodeReply(doc) IN
                IF ~h.ok THEN "proto" ELSE IF Refused(h) THEN "device" ELSE "ok"
=============================================================================
