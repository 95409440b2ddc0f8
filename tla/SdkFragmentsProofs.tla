------------------------- MODULE SdkFragmentsProofs -------------------------
(***************************************************************************)
(* Why documents arrive whole in both directions, for every length,        *)
(* fragment size and width of the length fields, with empty documents,     *)
(* empty fragments and any number of round trips; and why the reassembler  *)
(* stays in bounds whatever the device sends.                              *)
(***************************************************************************)
EXTENDS SdkFragments, TLAPS

USE DEF requestVars, deviceVars, readerVars

-----------------------------------------------------------------------------
(* The inductive invariant.                                                *)

\* Fragment f is the piece of document d between the places a and b.
Piece(d, a, f, b) == /\ f.total = Len(d) /\ f.offset = a
                     /\ b = a + Len(f.chunk) /\ b <= Len(d)
                     /\ f.chunk = SubSeq(d, a + 1, b)

\* A reassembler holds the beginning of document d.
Holds(a, d) == /\ Len(a.buf) <= Len(d)
               /\ a.buf = SubSeq(d, 1, Len(a.buf))
               /\ a.buf # <<>> => a.total = Len(d) /\ Len(a.buf) < Len(d)

\* All that was written or is being written, or was when the encoder refused it.
Writing == pc \in {"write", "toolarge"}
Written == IF Writing THEN Append(asked, doc) ELSE asked

\* Fragment f leads from place a in the documents w to place b: a place is a document and
\* an offset in it, and behind the end of a document is the start of the next.
Leads(w, a, f, b) == /\ a[1] \in 1..Len(w)
                     /\ \E at \in Nat : /\ Piece(w[a[1]], a[2], f, at)
                                        /\ b = IF at = Len(w[a[1]]) THEN <<a[1] + 1, 0>>
                                                                    ELSE <<a[1], at>>

\* The fragments s lead from one place to another.
Chain(w, s, from, to) ==
  \E p \in [0..Len(s) -> Nat \X Nat] :
     /\ p[0] = from /\ p[Len(s)] = to
     /\ \A i \in 1..Len(s) : Leads(w, p[i - 1], s[i], p[i])

\* The fragments s lead from one offset in document d to another, and none but the last
\* to its end.
Pieces(d, s, from, to) ==
  \E q \in [0..Len(s) -> Nat] :
     /\ q[0] = from /\ q[Len(s)] = to
     /\ \A i \in 1..Len(s) : /\ Piece(d, q[i - 1], s[i], q[i])
                             /\ q[i] = Len(d) => i = Len(s)

\* The bounds of the documents, and of how far they were written or sent.
DocInv == /\ Len(doc) <= MaxLen /\ offset <= Len(doc)
          /\ pc = "write" => Len(doc) < U32 /\ (offset = Len(doc) => offset = 0 /\ doc = <<>>)
          /\ Len(reply) <= MaxLen /\ Len(reply) < U32 /\ sent <= Len(reply)

\* What the device holds and what is on the way to it is all that was written, in order.
RequestInv ==
  /\ Len(got) <= Len(asked) /\ \A k \in 1..Len(got) : got[k] = asked[k]
  /\ devAsm.buf # <<>> => Len(got) < Len(Written) /\ Holds(devAsm, Written[Len(got) + 1])
  /\ Chain(Written, toDev, <<Len(got) + 1, Len(devAsm.buf)>>,
                           <<Len(asked) + 1, IF Writing THEN offset ELSE 0>>)

\* The device has not begun to answer.
Unanswered == sent = -1 /\ toCli = <<>>

\* What the client holds and what is on the way to it is what was sent of the reply, and
\* the fragment that completes it is the last.
Answering ==
  /\ Holds(asm, reply)
  /\ Pieces(reply, toCli, Len(asm.buf), IF sent = -1 THEN Len(reply) ELSE sent)
  /\ toCli # <<>> \/ sent >= 0
  /\ sent = Len(reply) => toCli = <<>>

\* While the device is honest, it answers a request once it has all of it, and the client
\* reads to the end of the answer.
ReplyInv ==
  ~lied =>
    /\ pc # "proto"
    /\ pc \in {"idle", "write"} => Len(got) = Len(asked) /\ Unanswered
    /\ pc = "write" => asm = Fresh
    /\ pc = "idle" /\ trip > 0 => out = reply
    /\ pc = "read" => \/ Len(got) = Len(asked) /\ Answering
                      \/ Len(got) + 1 = Len(asked) /\ Unanswered /\ asm = Fresh

IInv == TypeOK /\ InBounds /\ DocInv /\ ~refused /\ RequestInv /\ ReplyInv

-----------------------------------------------------------------------------
(* Documents, fragments and the reassembler.                               *)

Element == {"ask", "reply", "junk"} \X Nat \X Nat
Asm     == [total : Fields, buf : Texts]

\* Texts and junk are texts of the length they are given.
LEMMA TextFacts == ASSUME NEW who \in {"ask", "reply", "junk"}, NEW n \in Nat, NEW len \in Nat
                   PROVE  /\ Text(who, n, len) \in Texts /\ Len(Text(who, n, len)) = len
                          /\ Junk(len) \in Texts /\ Len(Junk(len)) = len
<1>1. \A i \in 1..len : <<who, n, i>> \in Element
  BY DEF Element
<1>2. Text(who, n, len) \in [1..len -> Element]
  BY <1>1 DEF Text
<1>3. <<"junk", 0, 0>> \in Element
  BY DEF Element
<1>4. Junk(len) \in [1..len -> Element]
  BY <1>3 DEF Junk
<1> QED BY <1>2, <1>4 DEF Texts, Element

\* A piece cut out of a text.
LEMMA CutFacts == ASSUME NEW d \in Texts, NEW a \in Nat, NEW b \in Nat, a <= b, b <= Len(d)
                  PROVE  /\ SubSeq(d, a + 1, b) \in Texts
                         /\ Len(SubSeq(d, a + 1, b)) = b - a
                         /\ Len(d) \in Nat
<1>1. d \in Seq(Element) /\ Len(d) \in Nat
  BY DEF Texts, Element
<1>2. \A i \in (a + 1)..b : d[i] \in Element
  BY <1>1
<1>3. SubSeq(d, a + 1, b) \in Seq(Element) /\ Len(SubSeq(d, a + 1, b)) = b - a
  BY <1>1, <1>2
<1> QED BY <1>1, <1>3 DEF Texts, Element

\* Two adjacent pieces make one.
LEMMA JoinFacts == ASSUME NEW d \in Texts, NEW a \in Nat, NEW b \in Nat, a <= b, b <= Len(d)
                   PROVE  SubSeq(d, 1, a) \o SubSeq(d, a + 1, b) = SubSeq(d, 1, b)
<1>1. d \in Seq(Element) /\ Len(d) \in Nat
  BY DEF Texts, Element
<1>2. \A i \in 1..Len(d) : d[i] \in Element
  BY <1>1
<1>3. /\ SubSeq(d, 1, a) \in Seq(Element) /\ Len(SubSeq(d, 1, a)) = a
      /\ \A i \in 1..a : SubSeq(d, 1, a)[i] = d[i]
  BY <1>1, <1>2
<1>4. /\ SubSeq(d, a + 1, b) \in Seq(Element) /\ Len(SubSeq(d, a + 1, b)) = b - a
      /\ \A i \in 1..b - a : SubSeq(d, a + 1, b)[i] = d[a + i]
  BY <1>1, <1>2
<1>5. /\ SubSeq(d, 1, b) \in Seq(Element) /\ Len(SubSeq(d, 1, b)) = b
      /\ \A i \in 1..b : SubSeq(d, 1, b)[i] = d[i]
  BY <1>1, <1>2
<1> DEFINE l == SubSeq(d, 1, a)
           r == SubSeq(d, a + 1, b)
<1> HIDE DEF l, r
<1>6. /\ l \o r \in Seq(Element) /\ Len(l \o r) = b
      /\ \A i \in 1..b : (l \o r)[i] = IF i <= a THEN l[i] ELSE r[i - a]
  BY <1>3, <1>4 DEF l, r
<1>7. \A i \in 1..b : (l \o r)[i] = d[i]
  <2>1. SUFFICES ASSUME NEW i \in 1..b PROVE (l \o r)[i] = d[i]
    OBVIOUS
  <2>2. CASE i <= a
    BY <2>2, <1>3, <1>6 DEF l
  <2>3. CASE ~(i <= a)
    <3>1. i - a \in 1..b - a /\ a + (i - a) = i
      BY <2>3
    <3>2. r[i - a] = d[i]
      BY <3>1, <1>4 DEF r
    <3> QED BY <2>3, <3>2, <1>6
  <2> QED BY <2>2, <2>3
<1>8. l \o r = SubSeq(d, 1, b)
  BY <1>5, <1>6, <1>7
<1> QED BY <1>8 DEF l, r

\* The whole of a text.
LEMMA WholeFacts == ASSUME NEW d \in Texts PROVE SubSeq(d, 1, Len(d)) = d /\ Len(d) \in Nat
BY DEF Texts

\* A number that fits its field is not changed by the cast.
LEMMA FitsFacts == \A n \in Nat : n < U32 => n % U32 = n /\ n \in Fields
<1> SUFFICES ASSUME NEW n \in Nat, n < U32 PROVE n % U32 = n /\ n \in Fields
  OBVIOUS
<1>1. U32 \in Nat \ {0}
  BY FragmentAssumption
<1> QED BY <1>1 DEF Fields

\* The reassembler takes the piece that follows what it holds, and knows when it is the
\* last.
LEMMA PushPiece == ASSUME NEW d \in Texts, NEW a \in Asm, Holds(a, d),
                          NEW f \in Fragment, NEW b \in Nat, Piece(d, Len(a.buf), f, b)
                   PROVE  /\ ~Faulty(a, f)
                          /\ Pushed(a, f) \in Asm
                          /\ Pushed(a, f).buf = SubSeq(d, 1, b) /\ Len(Pushed(a, f).buf) = b
                          /\ Whole(Pushed(a, f)) <=> b = Len(d)
                          /\ b = Len(d) => Pushed(a, f).buf = d
                          /\ b # Len(d) => Holds(Pushed(a, f), d)
<1>1. /\ a.total \in Fields /\ a.buf \in Texts /\ f.total \in Fields /\ f.offset \in Fields
      /\ f.chunk \in Texts /\ U32 \in Nat \ {0}
  BY FragmentAssumption DEF Asm, Fragment
<1>2. PICK n \in Nat, m \in Nat, l \in Nat : n = Len(a.buf) /\ m = Len(f.chunk) /\ l = Len(d)
  BY <1>1 DEF Texts
<1>0. /\ f.chunk = SubSeq(d, n + 1, b)
      /\ a.buf = SubSeq(d, 1, n)
      /\ a.buf # <<>> => a.total = l
  BY <1>2 DEF Piece, Holds
<1>3. f.total = l /\ f.offset = n /\ b = n + m /\ b <= l
  BY <1>2 DEF Piece
<1>4. /\ n <= b /\ l < U32
      /\ n % U32 = n /\ b % U32 = b
  <2>1. l < U32
    BY <1>1, <1>2, <1>3 DEF Fields
  <2>2. n <= b /\ n < U32 /\ b < U32
    BY <1>1, <1>3, <2>1
  <2> QED BY <2>1, <2>2, FitsFacts
<1>5. ~Faulty(a, f)
  <2>1. ~OtherTotal(a, f)
    BY <1>0, <1>3 DEF OtherTotal
  <2>2. ~Misplaced(a, f)
    BY <1>2, <1>3, <1>4 DEF Misplaced
  <2>3. ~TooLong(f)
    <3>1. EndOf(f) = b
      BY <1>2, <1>3 DEF EndOf
    <3>2. f.total = l /\ b <= l
      BY <1>3
    <3>3. ~(b > l)
      BY <3>2
    <3> QED BY <3>1, <3>2, <3>3 DEF TooLong
  <2> QED BY <2>1, <2>2, <2>3 DEF Faulty
<1>6. a.buf \o f.chunk = SubSeq(d, 1, b)
  <2>1. SubSeq(d, 1, n) \o SubSeq(d, n + 1, b) = SubSeq(d, 1, b)
    BY <1>2, <1>3, <1>4, JoinFacts
  <2> QED BY <1>0, <2>1
<1>7. Pushed(a, f).buf = SubSeq(d, 1, b)
  BY <1>6 DEF Pushed
<1>8. Pushed(a, f).total = l
  BY <1>0, <1>3 DEF Pushed
<1>9. SubSeq(d, 1, b) \in Texts /\ Len(SubSeq(d, 1, b)) = b
  <2>0. b <= Len(d)
    BY <1>2, <1>3
  <2>1. 0 <= b /\ b <= Len(d)
    BY <2>0
  <2>2. /\ SubSeq(d, 0 + 1, b) \in Texts
        /\ Len(SubSeq(d, 0 + 1, b)) = b - 0
    BY <2>1, CutFacts
  <2>3. 0 + 1 = 1 /\ b - 0 = b
    OBVIOUS
  <2> QED BY <2>2, <2>3
<1>10. Pushed(a, f) \in Asm
  BY <1>1, <1>6, <1>9 DEF Pushed, Asm
<1>11. Whole(Pushed(a, f)) <=> b = Len(d)
  BY <1>2, <1>4, <1>7, <1>8, <1>9 DEF Whole
<1>12. b = Len(d) => Pushed(a, f).buf = d
  BY <1>7, WholeFacts
<1>13. ASSUME b # Len(d) PROVE Holds(Pushed(a, f), d)
  <2>0. b <= l /\ b # l
    BY <1>2, <1>3, <1>13
  <2>1. b < l
    BY <2>0
  <2> QED BY <1>2, <1>7, <1>8, <1>9, <2>1 DEF Holds
<1> QED BY <1>5, <1>7, <1>9, <1>10, <1>11, <1>12, <1>13

\* Whatever the fragment, a reassembler that takes it and waits on is in bounds again.
LEMMA PushAnything == ASSUME NEW a \in Asm, a.buf # <<>> => Len(a.buf) < a.total,
                             NEW f \in Fragment, ~Faulty(a, f)
                      PROVE  /\ Pushed(a, f) \in Asm
                             /\ ~Whole(Pushed(a, f)) => Len(Pushed(a, f).buf) < Pushed(a, f).total
<1>1. /\ a.total \in Fields /\ a.buf \in Texts /\ f.total \in Fields /\ f.offset \in Fields
      /\ f.chunk \in Texts /\ U32 \in Nat \ {0}
  BY FragmentAssumption DEF Asm, Fragment
<1>2. PICK n \in Nat, m \in Nat : n = Len(a.buf) /\ m = Len(f.chunk)
  BY <1>1 DEF Texts
<1>3. a.buf \o f.chunk \in Texts /\ Len(a.buf \o f.chunk) = n + m
  BY <1>1, <1>2 DEF Texts
<1>4. Pushed(a, f) \in Asm /\ Len(Pushed(a, f).buf) = n + m
  BY <1>1, <1>3 DEF Pushed, Asm
<1>5. Pushed(a, f).total = f.total
  BY <1>1 DEF Pushed, Faulty, OtherTotal
<1>6. n < U32
  <2>1. CASE a.buf = <<>>
    BY <1>1, <1>2, <2>1
  <2>2. CASE a.buf # <<>>
    <3>1. n < a.total
      BY <1>2, <2>2
    <3> QED BY <1>1, <3>1 DEF Fields
  <2> QED BY <2>1, <2>2
<1>7. f.offset = n
  BY <1>2, <1>6, FitsFacts DEF Faulty, Misplaced
<1>8. n + m <= f.total
  <2>1. ~(n + m > f.total)
    BY <1>2, <1>7 DEF Faulty, TooLong, EndOf
  <2>2. f.total \in Nat
    BY <1>1 DEF Fields
  <2> QED BY <2>1, <2>2
<1>9. (n + m) % U32 = n + m
  <2>1. n + m \in Nat /\ n + m < U32
    BY <1>1, <1>8 DEF Fields
  <2> QED BY <2>1, FitsFacts
<1>10. ASSUME ~Whole(Pushed(a, f)) PROVE Len(Pushed(a, f).buf) < Pushed(a, f).total
  <2>1. n + m # f.total
    BY <1>4, <1>5, <1>9, <1>10 DEF Whole
  <2>2. n + m < f.total
    BY <1>1, <1>8, <2>1 DEF Fields
  <2> QED BY <1>4, <1>5, <2>2
<1> QED BY <1>4, <1>10

-----------------------------------------------------------------------------
(* Types and bounds.                                                       *)

\* What TypeOK says, for the lemmas about sequences and reassemblers.
LEMMA TypeFacts == ASSUME TypeOK
                   PROVE  /\ doc \in Texts /\ reply \in Texts /\ out \in Texts
                          /\ toDev \in Seq(Fragment) /\ toCli \in Seq(Fragment)
                          /\ devAsm \in Asm /\ asm \in Asm
                          /\ asked \in Seq(Texts) /\ got \in Seq(Texts)
                          /\ Len(doc) \in Nat /\ Len(reply) \in Nat /\ offset \in Nat
                          /\ Len(toDev) \in Nat /\ Len(toCli) \in Nat
                          /\ Len(asked) \in Nat /\ Len(got) \in Nat
                          /\ Len(devAsm.buf) \in Nat /\ Len(asm.buf) \in Nat
                          /\ MaxLen \in Nat /\ U32 \in Nat \ {0} /\ sent \in Int
<1>1. /\ doc \in Texts /\ reply \in Texts /\ out \in Texts
      /\ toDev \in Seq(Fragment) /\ toCli \in Seq(Fragment)
      /\ devAsm \in Asm /\ asm \in Asm
      /\ asked \in Seq(Texts) /\ got \in Seq(Texts)
  BY DEF TypeOK, Asm
<1>2. Len(doc) \in Nat /\ Len(reply) \in Nat
  BY <1>1 DEF Texts
<1>3. Len(devAsm.buf) \in Nat /\ Len(asm.buf) \in Nat
  <2>1. devAsm.buf \in Texts /\ asm.buf \in Texts
    BY <1>1 DEF Asm
  <2> QED BY <2>1 DEF Texts
<1>4. Len(toDev) \in Nat /\ Len(toCli) \in Nat /\ Len(asked) \in Nat /\ Len(got) \in Nat
  BY <1>1
<1>5. MaxLen \in Nat /\ U32 \in Nat \ {0}
  BY FragmentAssumption
<1>6. offset \in Nat /\ sent \in Int
  BY <1>5 DEF TypeOK
<1> QED BY <1>1, <1>2, <1>3, <1>4, <1>5, <1>6

\* The slice that is written next: some of what is left, and nothing only of an empty
\* document.
LEMMA SliceFacts == ASSUME TypeOK, DocInv
                    PROVE  /\ Slice \in Texts /\ Len(Slice) \in Nat
                           /\ offset + Len(Slice) <= Len(doc)
                           /\ Slice = SubSeq(doc, offset + 1, offset + Len(Slice))
<1>1. /\ doc \in Texts /\ Len(doc) \in Nat /\ offset \in Nat /\ offset <= Len(doc)
      /\ fragSize \in Nat
  BY TypeFacts, FragmentAssumption DEF DocInv, TypeOK
<1>2. Step \in Nat
  BY <1>1 DEF Step, Larger
<1>3. PICK e \in Nat : e = Smaller(offset + Step, Len(doc))
  BY <1>1, <1>2 DEF Smaller
<1>4. offset <= e /\ e <= Len(doc)
  BY <1>1, <1>2, <1>3 DEF Smaller
<1>5. Slice = SubSeq(doc, offset + 1, e)
  BY <1>3 DEF Slice
<1>6. Slice \in Texts /\ Len(Slice) = e - offset
  BY <1>1, <1>4, <1>5, CutFacts
<1>7. offset + Len(Slice) = e
  BY <1>1, <1>6
<1> QED BY <1>1, <1>4, <1>5, <1>6, <1>7

\* The head and the tail of a link.
LEMMA LinkFacts == ASSUME NEW s \in Seq(Fragment), s # <<>>
                   PROVE  /\ Head(s) \in Fragment /\ Head(s) = s[1]
                          /\ Tail(s) \in Seq(Fragment)
                          /\ Len(s) \in Nat \ {0} /\ Len(Tail(s)) = Len(s) - 1
                          /\ \A i \in 1..Len(s) - 1 : Tail(s)[i] = s[i + 1]
OBVIOUS

\* The reassemblers stay typed and in bounds, whatever arrives.
LEMMA ReadFacts == ASSUME TypeOK, InBounds
                   PROVE  /\ toCli # <<>> /\ ~Faulty(asm, Head(toCli)) =>
                                /\ Pushed(asm, Head(toCli)) \in Asm
                                /\ ~Whole(Pushed(asm, Head(toCli))) =>
                                      Len(Pushed(asm, Head(toCli)).buf) < Pushed(asm, Head(toCli)).total
                          /\ toDev # <<>> /\ ~Faulty(devAsm, Head(toDev)) =>
                                /\ Pushed(devAsm, Head(toDev)) \in Asm
                                /\ ~Whole(Pushed(devAsm, Head(toDev))) =>
                                      Len(Pushed(devAsm, Head(toDev)).buf) < Pushed(devAsm, Head(toDev)).total
<1>1. /\ toDev \in Seq(Fragment) /\ toCli \in Seq(Fragment)
      /\ devAsm \in Asm /\ asm \in Asm
  BY TypeFacts
<1>2. /\ asm.buf # <<>> => Len(asm.buf) < asm.total
      /\ devAsm.buf # <<>> => Len(devAsm.buf) < devAsm.total
  BY DEF InBounds
<1>3. ASSUME toCli # <<>>, ~Faulty(asm, Head(toCli))
      PROVE  /\ Pushed(asm, Head(toCli)) \in Asm
             /\ ~Whole(Pushed(asm, Head(toCli))) =>
                   Len(Pushed(asm, Head(toCli)).buf) < Pushed(asm, Head(toCli)).total
  BY <1>1, <1>2, <1>3, LinkFacts, PushAnything
<1>4. ASSUME toDev # <<>>, ~Faulty(devAsm, Head(toDev))
      PROVE  /\ Pushed(devAsm, Head(toDev)) \in Asm
             /\ ~Whole(Pushed(devAsm, Head(toDev))) =>
                   Len(Pushed(devAsm, Head(toDev)).buf) < Pushed(devAsm, Head(toDev)).total
  BY <1>1, <1>2, <1>4, LinkFacts, PushAnything
<1> QED BY <1>3, <1>4

\* An empty reassembler.
LEMMA FreshFacts == Fresh \in Asm /\ Fresh.buf = <<>> /\ <<>> \in Texts /\ Len(<<>>) = 0
<1>1. U32 \in Nat \ {0}
  BY FragmentAssumption
<1>2. <<>> \in Texts
  BY DEF Texts
<1> QED BY <1>1, <1>2 DEF Fresh, Asm, Fields

\* What the device sends of a reply fits its fields.
LEMMA ReplyFacts == ASSUME TypeOK, DocInv, sent >= 0,
                           NEW end \in sent..Smaller(sent + FrameMax, Len(reply))
                    PROVE  /\ [total |-> Len(reply), offset |-> sent,
                               chunk |-> SubSeq(reply, sent + 1, end)] \in Fragment
                           /\ end \in Nat /\ sent \in Nat /\ sent <= end /\ end <= Len(reply)
                           /\ Len(SubSeq(reply, sent + 1, end)) = end - sent
<1>1. reply \in Texts /\ Len(reply) \in Nat /\ sent \in Nat /\ Len(reply) < U32 /\ FrameMax \in Nat
  BY TypeFacts, FragmentAssumption DEF DocInv
<1>2. end \in Nat /\ sent <= end /\ end <= Len(reply)
  BY <1>1 DEF Smaller
<1>3. /\ SubSeq(reply, sent + 1, end) \in Texts
      /\ Len(SubSeq(reply, sent + 1, end)) = end - sent
  BY <1>1, <1>2, CutFacts
<1>4. sent < U32 /\ U32 \in Nat
  BY <1>1, <1>2, FragmentAssumption
<1>5. Len(reply) \in Fields /\ sent \in Fields
  BY <1>1, <1>4, FitsFacts
<1> QED BY <1>1, <1>2, <1>3, <1>5 DEF Fragment

\* What the client writes of a request fits its fields.
LEMMA WriteFacts == ASSUME TypeOK, DocInv, pc = "write"
                    PROVE  /\ [total |-> Len(doc), offset |-> offset % U32, chunk |-> Slice] \in Fragment
                           /\ offset % U32 = offset
<1>1. Len(doc) \in Nat /\ offset \in Nat /\ offset <= Len(doc) /\ Len(doc) < U32
  BY TypeFacts DEF DocInv
<1>2. offset < U32 /\ U32 \in Nat
  BY <1>1, FragmentAssumption
<1>3. Len(doc) \in Fields /\ offset % U32 = offset /\ offset \in Fields
  BY <1>1, <1>2, FitsFacts
<1> QED BY <1>3, SliceFacts DEF Fragment

\* A new text, of a length within bounds.
LEMMA NewText == ASSUME NEW who \in {"ask", "reply", "junk"}, NEW n \in Nat, NEW len \in 0..MaxLen
                 PROVE  Text(who, n, len) \in Texts /\ Len(Text(who, n, len)) = len /\ len \in Nat
<1>1. len \in Nat
  BY FragmentAssumption
<1> QED BY <1>1, TextFacts

\* Every step keeps the types.
LEMMA TypeStep == ASSUME IInv, [Next]_vars PROVE TypeOK'
<1>0. TypeOK /\ InBounds /\ DocInv
  BY DEF IInv
<1>1. /\ MaxLen \in Nat /\ Exchanges \in Nat /\ trip \in Nat
      /\ Fresh \in Asm /\ <<>> \in Texts
      /\ toDev \in Seq(Fragment) /\ toCli \in Seq(Fragment)
      /\ asked \in Seq(Texts) /\ got \in Seq(Texts) /\ doc \in Texts
  BY <1>0, TypeFacts, FreshFacts, FragmentAssumption DEF TypeOK
<1>2. CASE Call
  <2>1. trip' \in 0..Exchanges /\ trip' \in Nat /\ offset' \in 0..MaxLen
    BY <1>1, <1>2 DEF Call
  <2>2. doc' \in Texts
    BY <1>2, <2>1, NewText DEF Call
  <2>3. pc' \in {"write", "toolarge"} /\ asm' \in Asm /\ out' \in Texts
    BY <1>1, <1>2 DEF Call
  <2> QED BY <1>0, <1>2, <2>1, <2>2, <2>3 DEF Call, TypeOK, Asm
<1>3. CASE WriteFragment
  <2>1. toDev' \in Seq(Fragment)
    BY <1>0, <1>1, <1>3, WriteFacts DEF WriteFragment
  <2>2. offset' \in 0..MaxLen
    <3>1. /\ Len(doc) <= MaxLen /\ offset \in Nat /\ Len(Slice) \in Nat
          /\ offset + Len(Slice) <= Len(doc) /\ Len(doc) \in Nat
      BY <1>0, SliceFacts, TypeFacts DEF DocInv
    <3>2. offset + Len(Slice) \in 0..MaxLen
      BY <1>1, <3>1
    <3> QED BY <1>3, <3>2 DEF WriteFragment
  <2>3. asked' \in Seq(Texts) /\ pc' \in {"write", "read"}
    <3>1. CASE offset' >= Len(doc)
      <4>1. pc' = "read" /\ asked' = Append(asked, doc)
        BY <1>3, <3>1 DEF WriteFragment
      <4> QED BY <1>1, <4>1
    <3>2. CASE ~(offset' >= Len(doc))
      BY <1>1, <1>3, <3>2 DEF WriteFragment
    <3> QED BY <3>1, <3>2
  <2> QED BY <1>0, <1>3, <2>1, <2>2, <2>3 DEF WriteFragment, TypeOK, Asm
<1>4. CASE WriteRefused
  BY <1>0, <1>4 DEF WriteRefused, TypeOK
<1>5. CASE ReadLast
  <2>1. Pushed(asm, Head(toCli)) \in Asm
    BY <1>0, <1>5, ReadFacts DEF ReadLast
  <2>2. out' \in Texts /\ asm' \in Asm
    BY <1>1, <1>5, <2>1 DEF ReadLast, Emptied, Asm
  <2>3. toCli' \in Seq(Fragment)
    BY <1>1, <1>5, LinkFacts DEF ReadLast
  <2> QED BY <1>0, <1>5, <2>2, <2>3 DEF ReadLast, TypeOK, Asm
<1>6. CASE ReadPart
  <2>1. asm' \in Asm
    BY <1>0, <1>6, ReadFacts DEF ReadPart
  <2>2. toCli' \in Seq(Fragment)
    BY <1>1, <1>6, LinkFacts DEF ReadPart
  <2> QED BY <1>0, <1>6, <2>1, <2>2 DEF ReadPart, TypeOK, Asm
<1>7. CASE ReadFault
  <2>1. toCli' \in Seq(Fragment)
    BY <1>1, <1>7, LinkFacts DEF ReadFault
  <2> QED BY <1>0, <1>7, <2>1 DEF ReadFault, TypeOK
<1>8. CASE ReadNothing
  BY <1>0, <1>8 DEF ReadNothing, TypeOK
<1>9. CASE DevTake
  <2>1. toDev' \in Seq(Fragment)
    BY <1>1, <1>9, LinkFacts DEF DevTake
  <2>2. CASE Faulty(devAsm, Head(toDev))
    BY <1>0, <1>9, <2>1, <2>2 DEF DevTake, TypeOK
  <2>3. CASE ~Faulty(devAsm, Head(toDev)) /\ Whole(Pushed(devAsm, Head(toDev)))
    <3>1. Pushed(devAsm, Head(toDev)) \in Asm
      BY <1>0, <1>9, <2>3, ReadFacts DEF DevTake
    <3>2. Pushed(devAsm, Head(toDev)).buf \in Texts
      BY <3>1 DEF Asm
    <3>3. got' \in Seq(Texts) /\ Len(got') \in Nat
      <4>1. got' = Append(got, Pushed(devAsm, Head(toDev)).buf)
        BY <1>9, <2>3 DEF DevTake
      <4>2. got' \in Seq(Texts)
        BY <1>1, <3>2, <4>1
      <4> QED BY <4>2
    <3>4. devAsm' \in Asm /\ sent' \in -1..MaxLen /\ refused' = refused
      BY <1>1, <1>9, <2>3 DEF DevTake, Emptied
    <3>5. reply' \in Texts
      <4>1. PICK len \in 0..Smaller(MaxLen, U32 - 1) : reply' = Text("reply", Len(got'), len)
        BY <1>9, <2>3 DEF DevTake
      <4>2. len \in 0..MaxLen
        BY <1>1, <4>1, FragmentAssumption DEF Smaller
      <4> QED BY <3>3, <4>1, <4>2, NewText
    <3> QED BY <1>0, <1>9, <2>1, <3>3, <3>4, <3>5 DEF DevTake, TypeOK, Asm
  <2>4. CASE ~Faulty(devAsm, Head(toDev)) /\ ~Whole(Pushed(devAsm, Head(toDev)))
    <3>1. devAsm' \in Asm
      BY <1>0, <1>9, <2>4, ReadFacts DEF DevTake
    <3>2. UNCHANGED <<got, refused, reply, sent>>
      BY <1>9, <2>4 DEF DevTake
    <3> QED BY <1>0, <1>9, <2>1, <3>1, <3>2 DEF DevTake, TypeOK, Asm
  <2> QED BY <2>2, <2>3, <2>4
<1>10. CASE DevReply
  <2>1. PICK end \in sent..Smaller(sent + FrameMax, Len(reply)) :
               /\ toCli' = Append(toCli, [total |-> Len(reply), offset |-> sent,
                                          chunk |-> SubSeq(reply, sent + 1, end)])
               /\ sent' = IF end = Len(reply) THEN -1 ELSE end
    BY <1>10 DEF DevReply
  <2>2. sent >= 0
    BY <1>10 DEF DevReply
  <2>3. toCli' \in Seq(Fragment)
    BY <1>0, <1>1, <2>1, <2>2, ReplyFacts
  <2>4. sent' \in -1..MaxLen
    <3>1. end \in Nat /\ end <= Len(reply) /\ Len(reply) <= MaxLen /\ Len(reply) \in Nat
      BY <1>0, <2>2, ReplyFacts, TypeFacts DEF DocInv
    <3> QED BY <1>1, <2>1, <3>1
  <2> QED BY <1>0, <1>10, <2>3, <2>4 DEF DevReply, TypeOK
<1>11. CASE DevLie
  <2>1. PICK total \in Fields, place \in Fields, len \in 0..FrameMax :
               toCli' = Append(toCli, [total |-> total, offset |-> place, chunk |-> Junk(len)])
    BY <1>11 DEF DevLie
  <2>2. Junk(len) \in Texts
    BY TextFacts, FragmentAssumption
  <2>3. toCli' \in Seq(Fragment)
    BY <1>1, <2>1, <2>2 DEF Fragment
  <2> QED BY <1>0, <1>11, <2>3 DEF DevLie, TypeOK
<1>12. CASE UNCHANGED vars
  BY <1>0, <1>12 DEF vars, TypeOK
<1> QED BY <1>2, <1>3, <1>4, <1>5, <1>6, <1>7, <1>8, <1>9, <1>10, <1>11, <1>12 DEF Next, Client

\* Every step keeps the reassemblers in bounds.
LEMMA InBoundsStep == ASSUME IInv, [Next]_vars PROVE InBounds'
<1>0. TypeOK /\ InBounds
  BY DEF IInv
<1>1. SUFFICES ASSUME NEW a \in {asm', devAsm'}, a.buf # <<>> PROVE Len(a.buf) < a.total
  BY DEF InBounds
<1>2. a \in {asm, devAsm} => Len(a.buf) < a.total
  BY <1>0, <1>1 DEF InBounds
<1>3. a # Fresh
  BY <1>1, FreshFacts
<1>4. CASE Call
  BY <1>2, <1>3, <1>4 DEF Call
<1>5. CASE WriteFragment
  BY <1>2, <1>5 DEF WriteFragment
<1>6. CASE WriteRefused
  BY <1>2, <1>6 DEF WriteRefused
<1>7. CASE ReadLast
  BY <1>2, <1>3, <1>7 DEF ReadLast, Emptied
<1>8. CASE ReadPart
  <2>1. Len(asm'.buf) < asm'.total
    BY <1>0, <1>8, ReadFacts DEF ReadPart
  <2> QED BY <1>2, <1>8, <2>1 DEF ReadPart
<1>9. CASE ReadFault
  BY <1>2, <1>9 DEF ReadFault
<1>10. CASE ReadNothing
  BY <1>2, <1>10 DEF ReadNothing
<1>11. CASE DevTake
  <2>1. CASE Faulty(devAsm, Head(toDev))
    BY <1>2, <1>11, <2>1 DEF DevTake
  <2>2. CASE ~Faulty(devAsm, Head(toDev)) /\ Whole(Pushed(devAsm, Head(toDev)))
    BY <1>2, <1>3, <1>11, <2>2 DEF DevTake, Emptied
  <2>3. CASE ~Faulty(devAsm, Head(toDev)) /\ ~Whole(Pushed(devAsm, Head(toDev)))
    <3>1. devAsm' = Pushed(devAsm, Head(toDev)) /\ asm' = asm /\ toDev # <<>>
      BY <1>11, <2>3 DEF DevTake
    <3>2. Len(devAsm'.buf) < devAsm'.total
      BY <1>0, <2>3, <3>1, ReadFacts
    <3> QED BY <1>2, <3>1, <3>2
  <2> QED BY <2>1, <2>2, <2>3
<1>12. CASE DevReply
  BY <1>2, <1>12 DEF DevReply
<1>13. CASE DevLie
  BY <1>2, <1>13 DEF DevLie
<1>14. CASE UNCHANGED vars
  BY <1>2, <1>14 DEF vars
<1> QED BY <1>4, <1>5, <1>6, <1>7, <1>8, <1>9, <1>10, <1>11, <1>12, <1>13, <1>14 DEF Next, Client

\* Every step keeps requests and replies within their bounds.
LEMMA DocStep == ASSUME IInv, [Next]_vars PROVE DocInv'
<1>0. TypeOK /\ DocInv
  BY DEF IInv
<1>1. /\ Len(doc) \in Nat /\ Len(reply) \in Nat /\ offset \in Nat /\ sent \in Int
      /\ MaxLen \in Nat /\ U32 \in Nat \ {0} /\ trip \in Nat
  BY <1>0, TypeFacts, FragmentAssumption DEF TypeOK
<1>2. CASE Call
  <2>1. trip' \in Nat
    BY <1>1, <1>2 DEF Call
  <2>2. PICK len \in 0..MaxLen : /\ doc' = Text("ask", trip', len)
                                 /\ pc' = IF len > Longest THEN "toolarge" ELSE "write"
    BY <1>2 DEF Call
  <2>3. Len(doc') = len /\ len \in Nat /\ len <= MaxLen /\ doc' \in Texts
    BY <1>1, <2>1, <2>2, NewText
  <2>4. pc' = "write" => Len(doc') < U32
    BY <1>1, <2>2, <2>3 DEF Longest
  <2>5. Len(doc') = 0 => doc' = <<>>
    BY <2>3 DEF Texts
  <2>6. offset' = 0 /\ UNCHANGED <<reply, sent>>
    BY <1>2 DEF Call
  <2> QED BY <1>0, <2>3, <2>4, <2>5, <2>6 DEF DocInv
<1>3. CASE WriteFragment
  <2>1. offset' = offset + Len(Slice) /\ offset' <= Len(doc) /\ offset' \in Nat
    BY <1>0, <1>1, <1>3, SliceFacts DEF WriteFragment
  <2>2. pc' = "write" => offset' # Len(doc)
    BY <1>1, <1>3, <2>1 DEF WriteFragment
  <2>3. pc = "write" /\ UNCHANGED <<doc, reply, sent>>
    BY <1>3 DEF WriteFragment
  <2> QED BY <1>0, <2>1, <2>2, <2>3 DEF DocInv
<1>4. CASE WriteRefused
  BY <1>0, <1>4 DEF WriteRefused, DocInv
<1>5. CASE ReadLast
  BY <1>0, <1>5 DEF ReadLast, DocInv
<1>6. CASE ReadPart
  BY <1>0, <1>6 DEF ReadPart, DocInv
<1>7. CASE ReadFault
  BY <1>0, <1>7 DEF ReadFault, DocInv
<1>8. CASE ReadNothing
  BY <1>0, <1>8 DEF ReadNothing, DocInv
<1>9. CASE DevTake
  <2>1. CASE UNCHANGED <<reply, sent>>
    BY <1>0, <1>9, <2>1 DEF DevTake, DocInv
  <2>2. CASE ~ UNCHANGED <<reply, sent>>
    <3>1. PICK len \in 0..Smaller(MaxLen, U32 - 1) : reply' = Text("reply", Len(got'), len)
      BY <1>9, <2>2 DEF DevTake
    <3>2. sent' = 0
      BY <1>9, <2>2 DEF DevTake
    <3>3. len \in 0..MaxLen /\ len < U32
      BY <1>1, <3>1 DEF Smaller
    <3>4. Len(got') \in Nat
      <4>1. TypeOK'
        BY TypeStep
      <4>2. got' \in Seq(Texts)
        BY <4>1 DEF TypeOK
      <4> QED BY <4>2
    <3>5. Len(reply') = len /\ len \in Nat
      BY <3>1, <3>3, <3>4, NewText
    <3>6. Len(reply') <= MaxLen /\ Len(reply') < U32 /\ sent' <= Len(reply')
      BY <1>1, <3>2, <3>3, <3>5
    <3> QED BY <1>0, <1>9, <3>6 DEF DevTake, DocInv
  <2> QED BY <2>1, <2>2
<1>10. CASE DevReply
  <2>1. PICK end \in sent..Smaller(sent + FrameMax, Len(reply)) :
               sent' = IF end = Len(reply) THEN -1 ELSE end
    BY <1>10 DEF DevReply
  <2>2. end \in Nat /\ end <= Len(reply)
    BY <1>0, <1>10, ReplyFacts DEF DevReply
  <2>3. sent' <= Len(reply)
    BY <1>1, <2>1, <2>2
  <2> QED BY <1>0, <1>10, <2>3 DEF DevReply, DocInv
<1>11. CASE DevLie
  BY <1>0, <1>11 DEF DevLie, DocInv
<1>12. CASE UNCHANGED vars
  BY <1>0, <1>12 DEF vars, DocInv
<1> QED BY <1>2, <1>3, <1>4, <1>5, <1>6, <1>7, <1>8, <1>9, <1>10, <1>11, <1>12 DEF Next, Client

-----------------------------------------------------------------------------
(* Chains of fragments.                                                    *)

\* A chain stays one when another document is written behind it.
LEMMA ChainWider == ASSUME NEW w \in Seq(Texts), NEW d \in Texts, NEW s \in Seq(Fragment),
                           NEW from, NEW to, Chain(w, s, from, to)
                    PROVE  Chain(Append(w, d), s, from, to)
<1>1. PICK p \in [0..Len(s) -> Nat \X Nat] :
              /\ p[0] = from /\ p[Len(s)] = to
              /\ \A i \in 1..Len(s) : Leads(w, p[i - 1], s[i], p[i])
  BY DEF Chain
<1>2. /\ Len(w) \in Nat /\ Len(Append(w, d)) = Len(w) + 1
      /\ \A k \in 1..Len(w) : Append(w, d)[k] = w[k]
  OBVIOUS
<1>3. ASSUME NEW a, NEW f, NEW b, Leads(w, a, f, b) PROVE Leads(Append(w, d), a, f, b)
  <2>1. a[1] \in 1..Len(w) /\ a[1] \in 1..Len(Append(w, d)) /\ Append(w, d)[a[1]] = w[a[1]]
    BY <1>2, <1>3 DEF Leads
  <2> QED BY <1>3, <2>1 DEF Leads
<1>4. \A i \in 1..Len(s) : Leads(Append(w, d), p[i - 1], s[i], p[i])
  BY <1>1, <1>3
<1> QED BY <1>1, <1>4 DEF Chain

\* A chain grows at its end ...
LEMMA ChainLonger == ASSUME NEW w, NEW s \in Seq(Fragment), NEW f, NEW from, NEW to,
                            NEW b \in Nat \X Nat, Chain(w, s, from, to), Leads(w, to, f, b)
                     PROVE  Chain(w, Append(s, f), from, b)
<1>1. PICK p \in [0..Len(s) -> Nat \X Nat] :
              /\ p[0] = from /\ p[Len(s)] = to
              /\ \A i \in 1..Len(s) : Leads(w, p[i - 1], s[i], p[i])
  BY DEF Chain
<1>2. PICK n \in Nat : n = Len(s)
  OBVIOUS
<1>3. /\ Len(Append(s, f)) = n + 1 /\ Append(s, f)[n + 1] = f
      /\ \A i \in 1..n : Append(s, f)[i] = s[i]
  BY <1>2
<1> DEFINE p2 == [i \in 0..(n + 1) |-> IF i <= n THEN p[i] ELSE b]
<1>4. p2 \in [0..(n + 1) -> Nat \X Nat]
  BY <1>1, <1>2
<1>5. p2[0] = from /\ p2[n + 1] = b /\ p2[n] = to /\ \A i \in 0..n : p2[i] = p[i]
  BY <1>1, <1>2
<1>6. \A i \in 1..(n + 1) : Leads(w, p2[i - 1], Append(s, f)[i], p2[i])
  <2>1. SUFFICES ASSUME NEW i \in 1..(n + 1) PROVE Leads(w, p2[i - 1], Append(s, f)[i], p2[i])
    OBVIOUS
  <2>2. CASE i = n + 1
    <3>1. i - 1 = n
      BY <2>2
    <3> HIDE DEF p2
    <3> QED BY <1>3, <1>5, <2>2, <3>1
  <2>3. CASE i # n + 1
    <3>1. i \in 1..n /\ i \in 0..n /\ i - 1 \in 0..n
      BY <2>3
    <3>2. Leads(w, p[i - 1], s[i], p[i])
      BY <1>1, <1>2, <3>1
    <3> HIDE DEF p2
    <3> QED BY <1>3, <1>5, <3>1, <3>2
  <2> QED BY <2>2, <2>3
<1> HIDE DEF p2
<1> QED BY <1>3, <1>4, <1>5, <1>6 DEF Chain

\* ... and is taken from at its beginning.
LEMMA ChainShorter == ASSUME NEW w, NEW s \in Seq(Fragment), s # <<>>, NEW from, NEW to,
                             Chain(w, s, from, to)
                      PROVE  \E b \in Nat \X Nat : /\ from \in Nat \X Nat
                                                   /\ Leads(w, from, Head(s), b)
                                                   /\ Chain(w, Tail(s), b, to)
<1>1. PICK p \in [0..Len(s) -> Nat \X Nat] :
              /\ p[0] = from /\ p[Len(s)] = to
              /\ \A i \in 1..Len(s) : Leads(w, p[i - 1], s[i], p[i])
  BY DEF Chain
<1>2. PICK n \in Nat : n + 1 = Len(s)
  <2>1. Len(s) \in Nat \ {0}
    BY LinkFacts
  <2>2. Len(s) - 1 \in Nat /\ (Len(s) - 1) + 1 = Len(s)
    BY <2>1
  <2> QED BY <2>2
<1>3. /\ Len(Tail(s)) = n /\ Head(s) = s[1] /\ \A i \in 1..n : Tail(s)[i] = s[i + 1]
  BY <1>2, LinkFacts
<1> DEFINE p2 == [i \in 0..n |-> p[i + 1]]
<1>4. p2 \in [0..n -> Nat \X Nat]
  BY <1>1, <1>2
<1>5. p2[0] = p[1] /\ p2[n] = to
  BY <1>1, <1>2
<1>6. \A i \in 1..n : Leads(w, p2[i - 1], Tail(s)[i], p2[i])
  <2>1. SUFFICES ASSUME NEW i \in 1..n PROVE Leads(w, p2[i - 1], Tail(s)[i], p2[i])
    OBVIOUS
  <2>2. /\ i + 1 \in 1..Len(s) /\ (i + 1) - 1 = i /\ i - 1 \in 0..n /\ i \in 0..n
        /\ (i - 1) + 1 = i
    BY <1>2
  <2>3. p2[i - 1] = p[i] /\ p2[i] = p[i + 1]
    BY <2>2
  <2>4. Leads(w, p[i], s[i + 1], p[i + 1])
    BY <1>1, <2>2
  <2> HIDE DEF p2
  <2> QED BY <1>3, <2>3, <2>4
<1> HIDE DEF p2
<1>7. Chain(w, Tail(s), p[1], to)
  BY <1>3, <1>4, <1>5, <1>6 DEF Chain
<1>8. p[0] \in Nat \X Nat /\ p[1] \in Nat \X Nat /\ Leads(w, p[0], s[1], p[1])
  <2>1. 1 \in 1..Len(s) /\ 0 \in 0..Len(s) /\ 1 \in 0..Len(s) /\ 1 - 1 = 0
    BY <1>2
  <2> QED BY <1>1, <2>1
<1> QED BY <1>1, <1>3, <1>7, <1>8

\* A chain without fragments stays where it is.
LEMMA ChainEmpty == ASSUME NEW w, NEW from \in Nat \X Nat, NEW to
                    PROVE  Chain(w, <<>>, from, to) <=> from = to
<1>1. Len(<<>>) = 0 /\ 0..0 = {0} /\ 1..0 = {}
  OBVIOUS
<1>2. ASSUME from = to PROVE Chain(w, <<>>, from, to)
  <2> DEFINE p == [i \in 0..0 |-> from]
  <2>1. p \in [0..0 -> Nat \X Nat] /\ p[0] = from
    OBVIOUS
  <2> HIDE DEF p
  <2> QED BY <1>1, <1>2, <2>1 DEF Chain
<1> QED BY <1>1, <1>2 DEF Chain

\* A chain ends where all that is written ends.
LEMMA ChainEnds == ASSUME NEW w \in Seq(Texts), NEW s \in Seq(Fragment), NEW from \in Nat \X Nat,
                          NEW to, Chain(w, s, from, to), ~(from[1] <= Len(w))
                   PROVE  s = <<>> /\ from = to
<1>1. s = <<>>
  <2>1. SUFFICES ASSUME s # <<>> PROVE FALSE
    OBVIOUS
  <2>2. PICK b \in Nat \X Nat : Leads(w, from, Head(s), b)
    BY <2>1, ChainShorter
  <2>3. Len(w) \in Nat /\ from[1] \in 1..Len(w)
    BY <2>2 DEF Leads
  <2> QED BY <2>3
<1> QED BY <1>1, ChainEmpty
-----------------------------------------------------------------------------
(* The way of a request.                                                   *)

\* Where the writer is in all that is written.
Writer == <<Len(asked) + 1, IF Writing THEN offset ELSE 0>>

\* All that is written is texts, of which those written to the end come first.
LEMMA WrittenFacts == ASSUME TypeOK
                      PROVE  /\ Written \in Seq(Texts) /\ Len(Written) \in Nat
                             /\ Len(asked) <= Len(Written) /\ Len(Written) <= Len(asked) + 1
                             /\ Writing => Len(Written) = Len(asked) + 1
                                           /\ Written[Len(asked) + 1] = doc
                             /\ \A k \in 1..Len(asked) : Written[k] = asked[k]
<1>1. asked \in Seq(Texts) /\ doc \in Texts /\ Len(asked) \in Nat
  BY TypeFacts
<1>2. /\ Append(asked, doc) \in Seq(Texts) /\ Len(Append(asked, doc)) = Len(asked) + 1
      /\ Append(asked, doc)[Len(asked) + 1] = doc
      /\ \A k \in 1..Len(asked) : Append(asked, doc)[k] = asked[k]
  BY <1>1
<1>3. CASE Writing
  BY <1>1, <1>2, <1>3 DEF Written
<1>4. CASE ~Writing
  BY <1>1, <1>4 DEF Written
<1> QED BY <1>3, <1>4

\* A step that touches neither the link nor its ends, and writes at most the beginning of
\* another document.
LEMMA RequestKept ==
  ASSUME TypeOK, RequestInv, UNCHANGED <<toDev, devAsm, got, asked>>,
         Written' = Written \/ \E d \in Texts : Written' = Append(Written, d),
         Writer' = Writer
  PROVE  RequestInv'
<1>1. /\ Written \in Seq(Texts) /\ Len(Written) \in Nat /\ Len(got) \in Nat
      /\ toDev \in Seq(Fragment)
  BY WrittenFacts, TypeFacts
<1>2. /\ devAsm.buf # <<>> => Len(got) < Len(Written) /\ Holds(devAsm, Written[Len(got) + 1])
      /\ Chain(Written, toDev, <<Len(got) + 1, Len(devAsm.buf)>>, Writer)
  BY DEF RequestInv, Writer
<1>3. /\ devAsm.buf # <<>> => Len(got) < Len(Written') /\ Holds(devAsm, Written'[Len(got) + 1])
      /\ Chain(Written', toDev, <<Len(got) + 1, Len(devAsm.buf)>>, Writer)
  <2>1. CASE Written' = Written
    BY <1>2, <2>1
  <2>2. CASE \E d \in Texts : Written' = Append(Written, d)
    <3>1. PICK d \in Texts : Written' = Append(Written, d)
      BY <2>2
    <3>2. Chain(Written', toDev, <<Len(got) + 1, Len(devAsm.buf)>>, Writer)
      BY <1>1, <1>2, <3>1, ChainWider
    <3>3. Len(got) < Len(Written) => /\ Len(got) < Len(Written')
                                     /\ Written'[Len(got) + 1] = Written[Len(got) + 1]
      BY <1>1, <3>1
    <3> QED BY <1>2, <3>2, <3>3
  <2> QED BY <2>1, <2>2
<1>4. Len(got) <= Len(asked) /\ \A k \in 1..Len(got) : got[k] = asked[k]
  BY DEF RequestInv
<1> QED BY <1>3, <1>4 DEF RequestInv, Writer, Holds

\* The next fragment lengthens the chain.
LEMMA RequestWritten == ASSUME TypeOK, DocInv, RequestInv, WriteFragment PROVE RequestInv'
<1>1. /\ Written \in Seq(Texts) /\ Len(asked) \in Nat /\ Len(got) \in Nat
      /\ toDev \in Seq(Fragment) /\ offset \in Nat /\ Len(doc) \in Nat /\ doc \in Texts
      /\ asked \in Seq(Texts)
  BY WrittenFacts, TypeFacts
<1>2. pc = "write" /\ Writing /\ Writer = <<Len(asked) + 1, offset>>
  BY DEF WriteFragment, Writing, Writer
<1>3. /\ Len(Written) = Len(asked) + 1 /\ Written[Len(asked) + 1] = doc
      /\ Written = Append(asked, doc)
  BY <1>2, WrittenFacts DEF Written
<1> DEFINE f == [total |-> Len(doc), offset |-> offset % U32, chunk |-> Slice]
           b == IF offset' = Len(doc) THEN <<Len(asked) + 2, 0>>
                                      ELSE <<Len(asked) + 1, offset'>>
<1>4. /\ offset' = offset + Len(Slice) /\ offset' \in Nat /\ offset' <= Len(doc)
      /\ toDev' = Append(toDev, f) /\ f \in Fragment
  BY <1>1, <1>2, SliceFacts, WriteFacts DEF WriteFragment
<1>5. Piece(doc, offset, f, offset')
  BY <1>2, <1>4, SliceFacts, WriteFacts DEF Piece
<1>6. Leads(Written, Writer, f, b) /\ b \in Nat \X Nat
  <2>1. (Len(asked) + 1) + 1 = Len(asked) + 2 /\ Len(asked) + 1 \in 1..Len(Written)
    BY <1>1, <1>3
  <2>2. b \in Nat \X Nat
    BY <1>1, <1>4
  <2>3. Writer[1] = Len(asked) + 1 /\ Writer[2] = offset
    BY <1>2
  <2> HIDE DEF f
  <2> QED BY <1>3, <1>4, <1>5, <2>1, <2>2, <2>3 DEF Leads
<1>7. Chain(Written, toDev', <<Len(got) + 1, Len(devAsm.buf)>>, b)
  <2>1. Chain(Written, toDev, <<Len(got) + 1, Len(devAsm.buf)>>, Writer)
    BY DEF RequestInv, Writer
  <2> HIDE DEF b, f
  <2> QED BY <1>1, <1>4, <1>6, <2>1, ChainLonger
<1>8. UNCHANGED <<devAsm, got, doc>>
  BY DEF WriteFragment
<1>9. /\ Len(got) <= Len(asked) /\ \A k \in 1..Len(got) : got[k] = asked[k]
      /\ devAsm.buf # <<>> => Len(got) < Len(Written) /\ Holds(devAsm, Written[Len(got) + 1])
  BY DEF RequestInv
<1>10. CASE offset' = Len(doc)
  <2>1. pc' = "read" /\ asked' = Append(asked, doc)
    BY <1>1, <1>4, <1>10 DEF WriteFragment
  <2>2. Written' = Written /\ ~Writing'
    BY <1>3, <2>1 DEF Written, Writing
  <2>3. /\ Len(asked') = Len(asked) + 1
        /\ \A k \in 1..Len(asked) : asked'[k] = asked[k]
    BY <1>1, <2>1
  <2>4. b = <<Len(asked') + 1, IF Writing' THEN offset' ELSE 0>>
    <3>1. (Len(asked) + 1) + 1 = Len(asked) + 2
      BY <1>1
    <3> QED BY <1>10, <2>2, <2>3, <3>1
  <2>5. Len(got') <= Len(asked') /\ \A k \in 1..Len(got') : got'[k] = asked'[k]
    BY <1>1, <1>8, <1>9, <2>3
  <2> HIDE DEF b
  <2> QED BY <1>7, <1>8, <1>9, <2>2, <2>4, <2>5 DEF RequestInv, Holds
<1>11. CASE offset' # Len(doc)
  <2>1. pc' = pc /\ asked' = asked
    <3>1. ~(offset' >= Len(doc))
      BY <1>1, <1>4, <1>11
    <3> QED BY <3>1 DEF WriteFragment
  <2>2. Written' = Written /\ Writing'
    BY <1>2, <1>3, <1>8, <2>1 DEF Written, Writing
  <2>3. b = <<Len(asked') + 1, IF Writing' THEN offset' ELSE 0>>
    BY <1>11, <2>1, <2>2
  <2> HIDE DEF b
  <2> QED BY <1>7, <1>8, <1>9, <2>1, <2>2, <2>3 DEF RequestInv, Holds
<1> QED BY <1>10, <1>11

\* The first fragment of the chain is the one the device waits for, and completes the
\* document only when all of it was written.
LEMMA RequestTaken == ASSUME TypeOK, DocInv, RequestInv, DevTake
                      PROVE  /\ RequestInv' /\ refused' = refused
                             /\ ~Faulty(devAsm, Head(toDev))
                             /\ Whole(Pushed(devAsm, Head(toDev))) => Len(got) < Len(asked)
<1>1. /\ Written \in Seq(Texts) /\ Len(Written) \in Nat /\ Len(asked) \in Nat /\ Len(got) \in Nat
      /\ toDev \in Seq(Fragment) /\ got \in Seq(Texts) /\ toDev # <<>>
      /\ devAsm \in Asm /\ Len(devAsm.buf) \in Nat
  BY WrittenFacts, TypeFacts DEF DevTake
<1> DEFINE f == Head(toDev)
           k == Len(got) + 1
           d == Written[k]
<1>2. Chain(Written, toDev, <<k, Len(devAsm.buf)>>, Writer)
  BY DEF RequestInv, Writer
<1>3. PICK b \in Nat \X Nat : /\ Leads(Written, <<k, Len(devAsm.buf)>>, f, b)
                              /\ Chain(Written, Tail(toDev), b, Writer)
  BY <1>1, <1>2, ChainShorter
<1>4. PICK at \in Nat : /\ Piece(d, Len(devAsm.buf), f, at)
                        /\ b = IF at = Len(d) THEN <<k + 1, 0>> ELSE <<k, at>>
  BY <1>3 DEF Leads
<1>5. k \in 1..Len(Written) /\ d \in Texts /\ k \in Nat
  <2>1. k \in 1..Len(Written)
    BY <1>3 DEF Leads
  <2> QED BY <1>1, <2>1
<1>6. Holds(devAsm, d)
  <2>1. CASE devAsm.buf # <<>>
    BY <2>1 DEF RequestInv
  <2>2. CASE devAsm.buf = <<>>
    <3>1. Len(devAsm.buf) = 0 /\ SubSeq(d, 1, 0) = <<>> /\ Len(d) \in Nat
      BY <1>5, <2>2 DEF Texts
    <3> QED BY <2>2, <3>1 DEF Holds
  <2> QED BY <2>1, <2>2
<1>7. f \in Fragment /\ Tail(toDev) \in Seq(Fragment)
  BY <1>1, LinkFacts
<1> HIDE DEF f, d
<1>8. /\ ~Faulty(devAsm, f)
      /\ Pushed(devAsm, f) \in Asm
      /\ Len(Pushed(devAsm, f).buf) = at
      /\ Whole(Pushed(devAsm, f)) <=> at = Len(d)
      /\ at = Len(d) => Pushed(devAsm, f).buf = d
      /\ at # Len(d) => Holds(Pushed(devAsm, f), d)
  BY <1>1, <1>4, <1>5, <1>6, <1>7, PushPiece
<1>9. Writing' = Writing /\ Written' = Written /\ asked' = asked /\ offset' = offset
      /\ toDev' = Tail(toDev) /\ Writer' = Writer
  BY DEF DevTake, Writing, Written, Writer
<1>10. Len(got) <= Len(asked) /\ \A j \in 1..Len(got) : got[j] = asked[j]
  BY DEF RequestInv
<1>11. CASE at = Len(d)
  <2>1. devAsm' = Fresh /\ got' = Append(got, d) /\ refused' = refused
    BY <1>8, <1>11 DEF DevTake, Emptied, f
  <2>2. Len(got) < Len(asked)
    <3>1. SUFFICES ASSUME ~(Len(got) < Len(asked)) PROVE FALSE
      OBVIOUS
    <3>2. Len(got) = Len(asked)
      BY <1>1, <1>10, <3>1
    <3>3. b = <<k + 1, 0>> /\ b[1] = k + 1 /\ k + 1 = Len(asked) + 2
      BY <1>1, <1>4, <1>11, <3>2
    <3>4. ~(b[1] <= Len(Written))
      BY <1>1, <3>3, WrittenFacts
    <3>5. b = Writer
      BY <1>1, <1>3, <1>7, <3>4, ChainEnds
    <3> QED BY <1>1, <3>3, <3>5 DEF Writer
  <2>3. d = asked[k]
    BY <1>1, <2>2, WrittenFacts DEF d
  <2>4. Len(got') = k /\ got'[k] = d /\ \A j \in 1..Len(got) : got'[j] = got[j]
    BY <1>1, <1>5, <2>1
  <2>5. Len(got') <= Len(asked') /\ \A j \in 1..Len(got') : got'[j] = asked'[j]
    <3>1. Len(got') <= Len(asked')
      BY <1>1, <1>9, <2>2, <2>4
    <3>2. ASSUME NEW j \in 1..Len(got') PROVE got'[j] = asked'[j]
      <4>1. j = k \/ j \in 1..Len(got)
        BY <1>1, <2>4, <3>2
      <4> HIDE DEF k
      <4> QED BY <1>9, <1>10, <2>3, <2>4, <4>1
    <3> QED BY <3>1, <3>2
  <2>6. b = <<Len(got') + 1, Len(devAsm'.buf)>>
    BY <1>4, <1>11, <2>1, <2>4, FreshFacts
  <2>7. devAsm'.buf = <<>>
    BY <2>1, FreshFacts
  <2>8. RequestInv'
    BY <1>3, <1>9, <2>5, <2>6, <2>7 DEF RequestInv, Writer
  <2> QED BY <1>8, <2>1, <2>2, <2>8 DEF f
<1>12. CASE at # Len(d)
  <2>1. devAsm' = Pushed(devAsm, f) /\ got' = got /\ refused' = refused
    BY <1>8, <1>12 DEF DevTake, f
  <2>2. b = <<Len(got') + 1, Len(devAsm'.buf)>>
    BY <1>4, <1>8, <1>12, <2>1
  <2>3. Len(got') < Len(Written') /\ Holds(devAsm', Written'[Len(got') + 1])
    BY <1>1, <1>5, <1>8, <1>9, <1>12, <2>1 DEF d
  <2>4. RequestInv'
    BY <1>3, <1>9, <1>10, <2>1, <2>2, <2>3 DEF RequestInv, Writer
  <2> QED BY <1>8, <1>12, <2>1, <2>4 DEF f
<1> QED BY <1>11, <1>12
\* Every step keeps the chain, and no request is found at fault.
LEMMA RequestStep == ASSUME IInv, [Next]_vars PROVE RequestInv' /\ ~refused'
<1>0. TypeOK /\ DocInv /\ RequestInv /\ ~refused
  BY DEF IInv
<1>1. ASSUME UNCHANGED <<toDev, devAsm, got, asked>>,
             Written' = Written \/ \E d \in Texts : Written' = Append(Written, d),
             Writer' = Writer, refused' = refused
      PROVE  RequestInv' /\ ~refused'
  BY <1>0, <1>1, RequestKept
<1>2. CASE Call
  <2>1. Written' = Append(Written, doc') /\ Writer' = Writer
    BY <1>2 DEF Call, Written, Writing, Writer
  <2>2. doc' \in Texts
    <3>1. TypeOK'
      BY TypeStep
    <3> QED BY <3>1 DEF TypeOK
  <2> QED BY <1>1, <1>2, <2>1, <2>2 DEF Call
<1>3. CASE WriteFragment
  BY <1>0, <1>3, RequestWritten DEF WriteFragment
<1>4. CASE WriteRefused
  BY <1>1, <1>4 DEF WriteRefused, Written, Writing, Writer
<1>5. CASE ReadLast
  BY <1>1, <1>5 DEF ReadLast, Written, Writing, Writer
<1>6. CASE ReadPart
  BY <1>1, <1>6 DEF ReadPart, Written, Writing, Writer
<1>7. CASE ReadFault
  BY <1>1, <1>7 DEF ReadFault, Written, Writing, Writer
<1>8. CASE ReadNothing
  BY <1>1, <1>8 DEF ReadNothing, Written, Writing, Writer
<1>9. CASE DevTake
  BY <1>0, <1>9, RequestTaken
<1>10. CASE DevReply
  BY <1>1, <1>10 DEF DevReply, Written, Writing, Writer
<1>11. CASE DevLie
  BY <1>1, <1>11 DEF DevLie, Written, Writing, Writer
<1>12. CASE UNCHANGED vars
  BY <1>1, <1>12 DEF vars, Written, Writing, Writer
<1> QED BY <1>2, <1>3, <1>4, <1>5, <1>6, <1>7, <1>8, <1>9, <1>10, <1>11, <1>12 DEF Next, Client

-----------------------------------------------------------------------------
(* The way of a reply.                                                     *)

\* The pieces of a reply grow at their end, unless it was reached ...
LEMMA PiecesLonger == ASSUME NEW d, NEW s \in Seq(Fragment), NEW f, NEW from, NEW to,
                             NEW b \in Nat, Pieces(d, s, from, to), Piece(d, to, f, b),
                             s # <<>> => to # Len(d)
                      PROVE  Pieces(d, Append(s, f), from, b)
<1>1. PICK q \in [0..Len(s) -> Nat] :
              /\ q[0] = from /\ q[Len(s)] = to
              /\ \A i \in 1..Len(s) : /\ Piece(d, q[i - 1], s[i], q[i])
                                      /\ q[i] = Len(d) => i = Len(s)
  BY DEF Pieces
<1>2. PICK n \in Nat : n = Len(s)
  OBVIOUS
<1>3. /\ Len(Append(s, f)) = n + 1 /\ Append(s, f)[n + 1] = f
      /\ \A i \in 1..n : Append(s, f)[i] = s[i]
  BY <1>2
<1> DEFINE q2 == [i \in 0..(n + 1) |-> IF i <= n THEN q[i] ELSE b]
<1>4. q2 \in [0..(n + 1) -> Nat]
  BY <1>1, <1>2
<1>5. q2[0] = from /\ q2[n + 1] = b /\ q2[n] = to /\ \A i \in 0..n : q2[i] = q[i]
  BY <1>1, <1>2
<1>6. \A i \in 1..(n + 1) : /\ Piece(d, q2[i - 1], Append(s, f)[i], q2[i])
                            /\ q2[i] = Len(d) => i = n + 1
  <2>1. SUFFICES ASSUME NEW i \in 1..(n + 1)
                 PROVE  /\ Piece(d, q2[i - 1], Append(s, f)[i], q2[i])
                        /\ q2[i] = Len(d) => i = n + 1
    OBVIOUS
  <2>2. CASE i = n + 1
    <3>1. i - 1 = n
      BY <2>2
    <3> HIDE DEF q2
    <3> QED BY <1>3, <1>5, <2>2, <3>1
  <2>3. CASE i # n + 1
    <3>1. i \in 1..n /\ i \in 0..n /\ i - 1 \in 0..n
      BY <2>3
    <3>2. Piece(d, q[i - 1], s[i], q[i]) /\ (q[i] = Len(d) => i = n)
      BY <1>1, <1>2, <3>1
    <3>3. s # <<>>
      BY <1>2, <3>1
    <3>4. q[i] # Len(d)
      BY <1>1, <1>2, <3>2, <3>3
    <3> HIDE DEF q2
    <3> QED BY <1>3, <1>5, <3>1, <3>2, <3>4
  <2> QED BY <2>2, <2>3
<1> HIDE DEF q2
<1> QED BY <1>3, <1>4, <1>5, <1>6 DEF Pieces

\* ... and are taken from at their beginning, where only the last of them ends the reply.
LEMMA PiecesShorter == ASSUME NEW d, NEW s \in Seq(Fragment), s # <<>>, NEW from, NEW to,
                              Pieces(d, s, from, to)
                       PROVE  \E b \in Nat : /\ from \in Nat
                                             /\ Piece(d, from, Head(s), b)
                                             /\ Pieces(d, Tail(s), b, to)
                                             /\ b = Len(d) => Tail(s) = <<>> /\ to = b
<1>1. PICK q \in [0..Len(s) -> Nat] :
              /\ q[0] = from /\ q[Len(s)] = to
              /\ \A i \in 1..Len(s) : /\ Piece(d, q[i - 1], s[i], q[i])
                                      /\ q[i] = Len(d) => i = Len(s)
  BY DEF Pieces
<1>2. PICK n \in Nat : n + 1 = Len(s)
  <2>1. Len(s) \in Nat \ {0}
    BY LinkFacts
  <2>2. Len(s) - 1 \in Nat /\ (Len(s) - 1) + 1 = Len(s)
    BY <2>1
  <2> QED BY <2>2
<1>3. /\ Len(Tail(s)) = n /\ Head(s) = s[1] /\ \A i \in 1..n : Tail(s)[i] = s[i + 1]
      /\ Tail(s) \in Seq(Fragment)
  BY <1>2, LinkFacts
<1> DEFINE q2 == [i \in 0..n |-> q[i + 1]]
<1>4. q2 \in [0..n -> Nat]
  BY <1>1, <1>2
<1>5. q2[0] = q[1] /\ q2[n] = to
  BY <1>1, <1>2
<1>6. \A i \in 1..n : /\ Piece(d, q2[i - 1], Tail(s)[i], q2[i])
                      /\ q2[i] = Len(d) => i = n
  <2>1. SUFFICES ASSUME NEW i \in 1..n
                 PROVE  Piece(d, q2[i - 1], Tail(s)[i], q2[i]) /\ (q2[i] = Len(d) => i = n)
    OBVIOUS
  <2>2. /\ i + 1 \in 1..Len(s) /\ (i + 1) - 1 = i /\ i - 1 \in 0..n /\ i \in 0..n
        /\ (i - 1) + 1 = i
    BY <1>2
  <2>3. q2[i - 1] = q[i] /\ q2[i] = q[i + 1]
    BY <2>2
  <2>4. Piece(d, q[i], s[i + 1], q[i + 1]) /\ (q[i + 1] = Len(d) => i + 1 = n + 1)
    BY <1>1, <1>2, <2>2
  <2>5. i + 1 = n + 1 => i = n
    OBVIOUS
  <2> HIDE DEF q2
  <2> QED BY <1>3, <2>3, <2>4, <2>5
<1> HIDE DEF q2
<1>7. Pieces(d, Tail(s), q[1], to)
  BY <1>3, <1>4, <1>5, <1>6 DEF Pieces
<1>8. /\ q[0] \in Nat /\ q[1] \in Nat /\ Piece(d, q[0], s[1], q[1])
      /\ q[1] = Len(d) => 1 = Len(s)
  <2>1. 1 \in 1..Len(s) /\ 0 \in 0..Len(s) /\ 1 \in 0..Len(s) /\ 1 - 1 = 0
    BY <1>2
  <2> QED BY <1>1, <2>1
<1>9. q[1] = Len(d) => Tail(s) = <<>> /\ to = q[1]
  <2>1. 1 = Len(s) => n = 0
    BY <1>2
  <2>2. n = 0 => Tail(s) = <<>>
    BY <1>3
  <2> QED BY <1>1, <1>8, <2>1, <2>2
<1> QED BY <1>1, <1>3, <1>7, <1>8, <1>9

\* No pieces at all, at the start of a reply.
LEMMA PiecesEmpty == ASSUME NEW d, NEW from \in Nat PROVE Pieces(d, <<>>, from, from)
<1> DEFINE q == [i \in 0..0 |-> from]
<1>1. q \in [0..0 -> Nat] /\ q[0] = from /\ Len(<<>>) = 0 /\ 1..0 = {}
  OBVIOUS
<1> HIDE DEF q
<1> QED BY <1>1 DEF Pieces

\* The reassembler of the client takes the next piece of the reply, knows when it is the
\* last, and then nothing is left to send.
LEMMA AnswerRead == ASSUME TypeOK, DocInv, Answering, toCli # <<>>
                    PROVE  /\ ~Faulty(asm, Head(toCli))
                           /\ Whole(Pushed(asm, Head(toCli))) =>
                                 /\ Pushed(asm, Head(toCli)).buf = reply
                                 /\ Tail(toCli) = <<>> /\ sent = -1
                           /\ ~Whole(Pushed(asm, Head(toCli))) =>
                                 /\ Holds(Pushed(asm, Head(toCli)), reply)
                                 /\ Pieces(reply, Tail(toCli), Len(Pushed(asm, Head(toCli)).buf),
                                           IF sent = -1 THEN Len(reply) ELSE sent)
                                 /\ Tail(toCli) # <<>> \/ sent >= 0
<1>1. /\ reply \in Texts /\ asm \in Asm /\ toCli \in Seq(Fragment) /\ Len(asm.buf) \in Nat
      /\ Len(reply) \in Nat /\ sent \in Int /\ sent >= -1
  BY TypeFacts DEF TypeOK
<1> DEFINE f  == Head(toCli)
           to == IF sent = -1 THEN Len(reply) ELSE sent
<1>2. Holds(asm, reply) /\ Pieces(reply, toCli, Len(asm.buf), to) /\ sent # Len(reply)
  BY DEF Answering
<1>3. PICK b \in Nat : /\ Piece(reply, Len(asm.buf), f, b)
                       /\ Pieces(reply, Tail(toCli), b, to)
                       /\ b = Len(reply) => Tail(toCli) = <<>> /\ to = b
  BY <1>1, <1>2, PiecesShorter
<1>4. f \in Fragment
  BY <1>1, LinkFacts
<1> HIDE DEF f
<1>5. /\ ~Faulty(asm, f)
      /\ Len(Pushed(asm, f).buf) = b
      /\ Whole(Pushed(asm, f)) <=> b = Len(reply)
      /\ b = Len(reply) => Pushed(asm, f).buf = reply
      /\ b # Len(reply) => Holds(Pushed(asm, f), reply)
  BY <1>1, <1>2, <1>3, <1>4, PushPiece
<1>6. ASSUME b = Len(reply) PROVE Tail(toCli) = <<>> /\ sent = -1
  BY <1>2, <1>3, <1>6
<1>7. ASSUME b # Len(reply) PROVE Tail(toCli) # <<>> \/ sent >= 0
  <2>1. SUFFICES ASSUME Tail(toCli) = <<>>, sent = -1 PROVE FALSE
    BY <1>1
  <2>2. Pieces(reply, <<>>, b, Len(reply))
    BY <1>3, <2>1
  <2>3. Len(<<>>) = 0
    OBVIOUS
  <2>4. b = Len(reply)
    BY <2>2, <2>3 DEF Pieces
  <2> QED BY <1>7, <2>4
<1> QED BY <1>3, <1>5, <1>6, <1>7 DEF f

\* Every step keeps the pieces of the reply in order.
LEMMA ReplyStep == ASSUME IInv, [Next]_vars PROVE ReplyInv'
<1>0. /\ TypeOK /\ DocInv /\ RequestInv /\ ReplyInv
      /\ Len(asked) \in Nat /\ Len(got) \in Nat /\ toCli \in Seq(Fragment)
  BY TypeFacts DEF IInv
<1>1. SUFFICES ASSUME ~lied' PROVE ReplyInv'
  BY DEF ReplyInv
<1>2. ~lied
  BY <1>1 DEF Next, Client, Call, WriteFragment, WriteRefused, ReadLast, ReadPart, ReadFault,
              ReadNothing, DevTake, DevReply, DevLie, deviceVars, vars
<1>3. CASE Call
  <2>1. /\ Len(got') = Len(asked') /\ Unanswered' /\ asm' = Fresh
        /\ pc' \in {"write", "toolarge"}
    BY <1>0, <1>2, <1>3 DEF ReplyInv, Call, Unanswered
  <2> QED BY <2>1 DEF ReplyInv
<1>4. CASE WriteFragment
  <2>1. Len(got) = Len(asked) /\ Unanswered /\ asm = Fresh /\ pc = "write"
    BY <1>0, <1>2, <1>4 DEF ReplyInv, WriteFragment
  <2>2. UNCHANGED <<got, sent, toCli, asm>>
    BY <1>4 DEF WriteFragment
  <2>3. CASE offset' >= Len(doc)
    <3>1. pc' = "read" /\ asked' = Append(asked, doc)
      BY <1>4, <2>3 DEF WriteFragment
    <3>2. Len(asked') = Len(asked) + 1
      <4>1. asked \in Seq(Texts)
        BY <1>0, TypeFacts
      <4> QED BY <3>1, <4>1
    <3>3. Len(got') + 1 = Len(asked') /\ Unanswered' /\ asm' = Fresh
      BY <2>1, <2>2, <3>2 DEF Unanswered
    <3> QED BY <3>1, <3>3 DEF ReplyInv
  <2>4. CASE ~(offset' >= Len(doc))
    <3>1. pc' = "write" /\ asked' = asked
      BY <1>4, <2>1, <2>4 DEF WriteFragment
    <3> QED BY <2>1, <2>2, <3>1 DEF ReplyInv, Unanswered
  <2> QED BY <2>3, <2>4
<1>5. CASE WriteRefused
  BY <1>5 DEF ReplyInv, WriteRefused
<1>6. CASE ReadLast
  <2>1. Len(got) = Len(asked) /\ Answering /\ toCli # <<>>
    BY <1>0, <1>2, <1>6 DEF ReplyInv, ReadLast, Unanswered
  <2>2. /\ Pushed(asm, Head(toCli)).buf = reply
        /\ Tail(toCli) = <<>> /\ sent = -1
    BY <1>0, <1>6, <2>1, AnswerRead DEF ReadLast
  <2>3. Len(got') = Len(asked') /\ Unanswered' /\ out' = reply' /\ pc' = "idle"
    BY <1>6, <2>1, <2>2 DEF ReadLast, Unanswered
  <2> QED BY <2>3 DEF ReplyInv
<1>7. CASE ReadPart
  <2>1. Len(got) = Len(asked) /\ Answering /\ toCli # <<>>
    BY <1>0, <1>2, <1>7 DEF ReplyInv, ReadPart, Unanswered
  <2>2. /\ Holds(Pushed(asm, Head(toCli)), reply)
        /\ Pieces(reply, Tail(toCli), Len(Pushed(asm, Head(toCli)).buf),
                  IF sent = -1 THEN Len(reply) ELSE sent)
        /\ Tail(toCli) # <<>> \/ sent >= 0
    BY <1>0, <1>7, <2>1, AnswerRead DEF ReadPart
  <2>3. sent # Len(reply)
    BY <2>1 DEF Answering
  <2>4. /\ asm' = Pushed(asm, Head(toCli)) /\ toCli' = Tail(toCli)
        /\ UNCHANGED <<reply, sent, got, asked, pc>> /\ pc = "read"
    BY <1>7 DEF ReadPart
  <2>5. Answering'
    BY <2>2, <2>3, <2>4 DEF Answering, Holds
  <2> QED BY <2>1, <2>4, <2>5 DEF ReplyInv
<1>8. CASE ReadFault
  <2>1. Answering /\ toCli # <<>> /\ Faulty(asm, Head(toCli))
    BY <1>0, <1>2, <1>8 DEF ReplyInv, ReadFault, Unanswered
  <2> QED BY <1>0, <2>1, AnswerRead
<1>9. CASE ReadNothing
  BY <1>9 DEF ReplyInv, ReadNothing
<1>10. CASE DevTake
  <2>1. /\ ~Faulty(devAsm, Head(toDev))
        /\ Whole(Pushed(devAsm, Head(toDev))) => Len(got) < Len(asked)
    BY <1>0, <1>10, RequestTaken
  <2>2. UNCHANGED <<pc, trip, asked, toCli, asm, out>>
    BY <1>10 DEF DevTake
  <2>3. CASE Whole(Pushed(devAsm, Head(toDev)))
    <3>1. Len(got) < Len(asked) /\ sent' = 0
      BY <1>10, <2>1, <2>3 DEF DevTake
    <3>2. Len(got') = Len(got) + 1
      <4>1. got' = Append(got, Pushed(devAsm, Head(toDev)).buf) /\ got \in Seq(Texts)
        BY <1>0, <1>10, <2>1, <2>3, TypeFacts DEF DevTake
      <4>2. toDev # <<>> /\ InBounds
        BY <1>10 DEF DevTake, IInv
      <4>3. Pushed(devAsm, Head(toDev)) \in Asm
        BY <1>0, <2>1, <4>2, ReadFacts
      <4>4. Pushed(devAsm, Head(toDev)).buf \in Texts
        BY <4>3 DEF Asm
      <4> QED BY <4>1, <4>4
    <3>3. pc # "idle" /\ pc # "write" /\ pc # "proto"
      BY <1>0, <1>2, <3>1 DEF ReplyInv
    <3>4. CASE pc = "read"
      <4>1. Len(got) + 1 = Len(asked) /\ Unanswered /\ asm = Fresh
        BY <1>0, <1>2, <3>1, <3>4 DEF ReplyInv
      <4>2. toCli' = <<>> /\ asm' = Fresh
        BY <2>2, <4>1 DEF Unanswered
      <4>3. Len(asm'.buf) = 0 /\ asm'.buf = <<>>
        BY <4>2, FreshFacts
      <4>4. Holds(asm', reply') /\ Len(reply') \in Nat
        <5>1. TypeOK'
          BY TypeStep
        <5>2. reply' \in Texts
          BY <5>1 DEF TypeOK
        <5>3. Len(reply') \in Nat /\ SubSeq(reply', 1, 0) = <<>>
          BY <5>2 DEF Texts
        <5> QED BY <4>3, <5>3 DEF Holds
      <4>5. Pieces(reply', toCli', Len(asm'.buf), 0)
        BY <4>2, <4>3, PiecesEmpty
      <4>6. Answering'
        BY <3>1, <4>2, <4>4, <4>5 DEF Answering, Holds
      <4> QED BY <2>2, <3>2, <3>4, <4>1, <4>6 DEF ReplyInv
    <3>5. CASE pc # "read"
      BY <2>2, <3>3, <3>5 DEF ReplyInv
    <3> QED BY <3>4, <3>5
  <2>4. CASE ~Whole(Pushed(devAsm, Head(toDev)))
    <3>1. UNCHANGED <<got, reply, sent>>
      BY <1>10, <2>1, <2>4 DEF DevTake
    <3> QED BY <1>0, <1>2, <2>2, <3>1 DEF ReplyInv, Unanswered, Answering, Holds
  <2> QED BY <2>3, <2>4
<1>11. CASE DevReply
  <2>1. /\ UNCHANGED <<pc, trip, asked, asm, out, got, reply>>
        /\ sent >= 0
    BY <1>11 DEF DevReply
  <2>2. pc # "idle" /\ pc # "write" /\ pc # "proto"
    BY <1>0, <1>2, <2>1 DEF ReplyInv, Unanswered
  <2>3. CASE pc = "read"
    <3>1. Len(got) = Len(asked) /\ Answering
      BY <1>0, <1>2, <2>1, <2>3 DEF ReplyInv, Unanswered
    <3>2. PICK end \in sent..Smaller(sent + FrameMax, Len(reply)) :
                  /\ toCli' = Append(toCli, [total |-> Len(reply), offset |-> sent,
                                             chunk |-> SubSeq(reply, sent + 1, end)])
                  /\ sent' = IF end = Len(reply) THEN -1 ELSE end
      BY <1>11 DEF DevReply
    <3> DEFINE f == [total |-> Len(reply), offset |-> sent, chunk |-> SubSeq(reply, sent + 1, end)]
    <3>3. /\ f \in Fragment /\ end \in Nat /\ sent \in Nat /\ sent <= end /\ end <= Len(reply)
          /\ Len(f.chunk) = end - sent
      BY <1>0, <2>1, ReplyFacts
    <3>4. Piece(reply, sent, f, end)
      BY <3>3 DEF Piece
    <3> HIDE DEF f
    <3>5. Pieces(reply, toCli, Len(asm.buf), sent) /\ (toCli # <<>> => sent # Len(reply))
      BY <2>1, <3>1 DEF Answering
    <3>6. Pieces(reply, Append(toCli, f), Len(asm.buf), end)
      BY <1>0, <3>3, <3>4, <3>5, PiecesLonger
    <3>7. toCli' = Append(toCli, f) /\ toCli' # <<>>
      BY <1>0, <3>2, <3>3 DEF f
    <3>8. /\ end = (IF sent' = -1 THEN Len(reply) ELSE sent')
          /\ sent' # Len(reply)
      BY <3>2, <3>3
    <3>9. Answering'
      BY <2>1, <3>1, <3>6, <3>7, <3>8 DEF Answering, Holds
    <3> QED BY <2>1, <2>3, <3>1, <3>9 DEF ReplyInv
  <2>4. CASE pc # "read"
    BY <2>1, <2>2, <2>4 DEF ReplyInv
  <2> QED BY <2>3, <2>4
<1>12. CASE DevLie
  BY <1>1, <1>12 DEF DevLie
<1>13. CASE UNCHANGED vars
  BY <1>0, <1>13 DEF ReplyInv, vars, Unanswered, Answering, Holds
<1> QED BY <1>3, <1>4, <1>5, <1>6, <1>7, <1>8, <1>9, <1>10, <1>11, <1>12, <1>13 DEF Next, Client
-----------------------------------------------------------------------------
(* The theorems.                                                           *)

\* The invariant holds at the start.
LEMMA InitHolds == ASSUME Init PROVE IInv
<1>1. /\ pc = "idle" /\ trip = 0 /\ toDev = <<>> /\ toCli = <<>> /\ asked = <<>> /\ got = <<>>
      /\ devAsm = Fresh /\ asm = Fresh /\ ~refused /\ doc = <<>> /\ reply = <<>> /\ out = <<>>
      /\ offset = 0 /\ sent = -1 /\ refused = FALSE /\ lied = FALSE /\ fragSize \in FragSizes
  BY DEF Init
<1>2. /\ MaxLen \in Nat /\ Exchanges \in Nat /\ U32 \in Nat \ {0} /\ Len(<<>>) = 0
      /\ Fresh \in Asm /\ Fresh.buf = <<>> /\ <<>> \in Texts
  BY FreshFacts, FragmentAssumption
<1>3. TypeOK
  <2>1. /\ pc \in {"idle", "write", "read", "timeout", "toolarge", "proto"}
        /\ refused \in BOOLEAN /\ lied \in BOOLEAN /\ fragSize \in FragSizes
    BY DEF Init
  <2>2. trip \in 0..Exchanges /\ offset \in 0..MaxLen
    BY <1>1, <1>2
  <2>3. sent \in -1..MaxLen
    BY <1>1, <1>2
  <2>4. {doc, reply, out} \subseteq Texts /\ {devAsm, asm} \subseteq [total : Fields, buf : Texts]
    BY <1>1, <1>2 DEF Asm
  <2>5. {toDev, toCli} \subseteq Seq(Fragment) /\ {asked, got} \subseteq Seq(Texts)
    BY <1>1
  <2> QED BY <2>1, <2>2, <2>3, <2>4, <2>5 DEF TypeOK
<1>4. InBounds
  BY <1>1, <1>2 DEF InBounds
<1>5. DocInv
  BY <1>1, <1>2 DEF DocInv
<1>6. RequestInv
  <2>1. Chain(Written, <<>>, <<1, 0>>, <<1, 0>>)
    BY ChainEmpty
  <2>2. Len(got) + 1 = 1 /\ Len(asked) + 1 = 1 /\ Len(devAsm.buf) = 0 /\ ~Writing
    BY <1>1, <1>2 DEF Writing
  <2> QED BY <1>1, <1>2, <2>1, <2>2 DEF RequestInv
<1>7. ReplyInv
  BY <1>1, <1>2 DEF ReplyInv, Unanswered
<1> QED BY <1>1, <1>3, <1>4, <1>5, <1>6, <1>7 DEF IInv

\* Every step keeps the invariant.
LEMMA StepHolds == ASSUME IInv, [Next]_vars PROVE IInv'
BY TypeStep, InBoundsStep, DocStep, RequestStep, ReplyStep DEF IInv

\* What the device put together is a prefix of what was written, when it agrees with it
\* document by document.
LEMMA PrefixFacts == ASSUME NEW S, NEW s \in Seq(S), NEW t \in Seq(S), Len(s) <= Len(t),
                            \A k \in 1..Len(s) : s[k] = t[k]
                     PROVE  IsPrefix(s, t)
<1>1. SubSeq(t, 1, Len(s)) = s
  OBVIOUS
<1> QED BY <1>1 DEF IsPrefix

\* The invariant implies that requests and replies arrive whole.
LEMMA WholeFollows == ASSUME IInv PROVE RequestIsWhole /\ ReplyIsWhole
<1>1. IsPrefix(got, asked)
  BY TypeFacts, PrefixFacts DEF IInv, RequestInv
<1> QED BY <1>1 DEF IInv, RequestIsWhole, ReplyIsWhole, ReplyInv

\* The chains of fragments hold at every moment (transport.rs, sdk_roundtrip;
\* sdk_frame.rs, push).
THEOREM FragmentsInductive == Spec => []IInv
BY InitHolds, StepHolds, PTL DEF Spec

\* Offsets and totals fit their 32 bit fields on every path.
THEOREM FragmentTypes == Spec => []TypeOK
<1>1. IInv => TypeOK
  BY DEF IInv
<1> QED BY <1>1, FragmentsInductive, PTL

\* Whatever the device sends, no reassembler holds more than was announced.
THEOREM StaysInBounds == Spec => []InBounds
<1>1. IInv => InBounds
  BY DEF IInv
<1> QED BY <1>1, FragmentsInductive, PTL

\* The device puts together the very requests the client wrote, for every fragment size,
\* zero among them, and every length.
THEOREM RequestsArriveWhole == Spec => []RequestIsWhole
BY WholeFollows, FragmentsInductive, PTL

\* An honest device gets its replies through, in pieces of any size.
THEOREM RepliesArriveWhole == Spec => []ReplyIsWhole
BY WholeFollows, FragmentsInductive, PTL
=============================================================================
