--------------------------- MODULE MessagesProofs ---------------------------
(***************************************************************************)
(* What is read out of a document.  decode_reply never gives out a guid    *)
(* that cannot be unescaped, and gives back the guid, the method and the   *)
(* result that an envelope was made with.  parse_body always fills the     *)
(* struct it is for with what fits its fields, whatever the document says; *)
(* it makes of a body the same whatever envelope is around it; and of what *)
(* write_body has written it makes the struct that was written.            *)
(* extract_element lifts out of a request the element it was made with.    *)
(***************************************************************************)
EXTENDS Messages, SequenceTheorems, Recursion

-----------------------------------------------------------------------------
(* Envelopes.                                                              *)

\* What may have been seen of an envelope so far.
Seen(doc) == {h \in [ok : BOOLEAN, guid : {Absent} \cup Texts(doc), method : {Absent} \cup Texts(doc),
                     result : {Absent} \cup Texts(doc)] : h.ok => h.guid # Unreadable}

\* An attribute is a text, or absent.
LEMMA AttrIsText ==
  ASSUME NEW doc, IsList(doc), NEW k \in 1..Len(doc), NEW name
  PROVE  Attr(doc[k], name) \in {Absent} \cup Texts(doc)
<1>1. doc[k] \in ToSet(doc)
  BY DEF IsList, ToSet
<1>2. name \in DOMAIN doc[k].attrs => doc[k].attrs[name] \in Texts(doc)
  BY <1>1 DEF Texts
<1> QED BY <1>2 DEF Attr

\* Before anything was seen, and where the XML is broken.
LEMMA SeenNothing ==
  ASSUME NEW doc
  PROVE  NoHeader \in Seen(doc) /\ Broken \in Seen(doc)
<1>1. Absent # Unreadable
  BY DEF Absent, Unreadable
<1> QED BY <1>1 DEF Seen, NoHeader, Broken

\* One element more.
LEMMA VisitSeen ==
  ASSUME NEW doc, IsList(doc), NEW k \in 1..Len(doc), IsHeader(doc[k]), NEW h \in Seen(doc)
  PROVE  Visit(h, doc[k]) \in Seen(doc)
<1> DEFINE guid == Attr(doc[k], "guid")
<1> DEFINE method == Attr(doc[k], "method")
<1> DEFINE result == Attr(doc[k], "result")
<1> DEFINE T == {Absent} \cup Texts(doc)
<1>1. guid \in T /\ method \in T /\ result \in T
  BY AttrIsText
<1>2. doc[k].tag \in {"sdk", "in", "out", "malformed"}
  BY DEF IsHeader
<1>3. Broken \in Seen(doc)
  BY SeenNothing
<1>4. CASE ~h.ok \/ doc[k].tag = "malformed"
  BY <1>3, <1>4 DEF Visit
<1>5. CASE h.ok /\ doc[k].tag = "sdk"
  <2>1. Visit(h, doc[k]) = IF guid = Unreadable THEN Broken ELSE [h EXCEPT !.guid = guid]
    BY <1>5 DEF Visit
  <2> HIDE DEF guid
  <2> QED BY <1>1, <1>3, <2>1 DEF Seen
<1>6. CASE h.ok /\ doc[k].tag \in {"in", "out"}
  <2>1. Visit(h, doc[k]) = IF (method # Absent /\ ~Known(method)) \/ result = Unreadable THEN Broken
                           ELSE [h EXCEPT !.method = IF method = Absent THEN @ ELSE method,
                                          !.result = result]
    BY <1>6 DEF Visit
  <2> HIDE DEF method, result
  <2> QED BY <1>1, <1>3, <2>1 DEF Seen
<1> QED BY <1>2, <1>4, <1>5, <1>6 DEF Seen

\* s is what the visitor has seen after each event.
Sees(s, doc) == /\ s \in [0..Len(doc) -> Seen(doc)]
                /\ s[0] = NoHeader
                /\ \A k \in 1..Len(doc) :
                      s[k] = IF IsHeader(doc[k]) THEN Visit(s[k - 1], doc[k]) ELSE s[k - 1]

\* decode_reply goes through the document.
LEMMA DecodeSteps ==
  ASSUME NEW doc, IsList(doc)
  PROVE  \E s : /\ Sees(s, doc)
                /\ DecodeReply(doc) = IF s[Len(doc)].method = Absent THEN Broken ELSE s[Len(doc)]
<1> DEFINE n == Len(doc)
<1>1. n \in Nat
  BY DEF IsList
<1>2. NoHeader \in Seen(doc)
  BY SeenNothing
<1> DEFINE Rec(f) == f = [k \in 0..Len(doc) |->
                            IF k = 0 THEN NoHeader
                            ELSE IF IsHeader(doc[k]) THEN Visit(f[k - 1], doc[k]) ELSE f[k - 1]]
<1> DEFINE step == [p \in (1..n) \X Seen(doc) |->
                      IF IsHeader(doc[p[1]]) THEN Visit(p[2], doc[p[1]]) ELSE p[2]]
<1>3. ASSUME NEW k \in 1..n, NEW h \in Seen(doc)
      PROVE  (IF IsHeader(doc[k]) THEN Visit(h, doc[k]) ELSE h) \in Seen(doc)
  BY <1>3, VisitSeen
<1>4. step \in [(1..n) \X Seen(doc) -> Seen(doc)]
  BY <1>3
<1>5. PICK f : Recursive(f, n, Seen(doc), NoHeader, step)
  <2> HIDE DEF step, n
  <2> QED BY <1>1, <1>2, <1>4, RecursionExists
<1>6. f \in [0..n -> Seen(doc)] /\ f[0] = NoHeader
  BY <1>5 DEF Recursive
<1>7. \A k \in 1..n : f[k] = IF IsHeader(doc[k]) THEN Visit(f[k - 1], doc[k]) ELSE f[k - 1]
  <2>1. ASSUME NEW k \in 1..n
        PROVE  f[k] = IF IsHeader(doc[k]) THEN Visit(f[k - 1], doc[k]) ELSE f[k - 1]
    <3>1. k - 1 \in 0..n
      BY <1>1
    <3>2. f[k - 1] \in Seen(doc) /\ <<k, f[k - 1]>> \in (1..n) \X Seen(doc)
      BY <1>6, <3>1
    <3>3. f[k] = step[<<k, f[k - 1]>>]
      BY <1>5 DEF Recursive
    <3> HIDE DEF n
    <3> QED BY <3>2, <3>3
  <2> QED BY <2>1
<1> HIDE DEF step
<1>8. Rec(f)
  <2>1. \A k \in 0..n : f[k] = IF k = 0 THEN NoHeader
                               ELSE IF IsHeader(doc[k]) THEN Visit(f[k - 1], doc[k]) ELSE f[k - 1]
    BY <1>1, <1>6, <1>7
  <2> QED BY <2>1, <1>6
<1> DEFINE s == CHOOSE g : Rec(g)
<1>9. Rec(s)
  BY <1>8
<1>10. DecodeReply(doc) = IF s[Len(doc)].method = Absent THEN Broken ELSE s[Len(doc)]
  BY DEF DecodeReply
<1> HIDE DEF s
<1>11. s[0] = NoHeader
       /\ \A k \in 1..n : s[k] = IF IsHeader(doc[k]) THEN Visit(s[k - 1], doc[k]) ELSE s[k - 1]
  <2>1. \A k \in 0..n : s[k] = IF k = 0 THEN NoHeader
                               ELSE IF IsHeader(doc[k]) THEN Visit(s[k - 1], doc[k]) ELSE s[k - 1]
    BY <1>9
  <2> QED BY <1>1, <2>1
<1>12. s \in [0..n -> Seen(doc)]
  <2> DEFINE S == {k \in Nat : k <= n => s[k] \in Seen(doc)}
  <2>1. 0 \in S
    BY <1>2, <1>11
  <2>2. ASSUME NEW k \in Nat, k \in S PROVE k + 1 \in S
    <3> SUFFICES ASSUME k + 1 <= n PROVE s[k + 1] \in Seen(doc)
      OBVIOUS
    <3>1. k + 1 \in 1..n /\ (k + 1) - 1 = k /\ s[k] \in Seen(doc)
      BY <1>1, <2>2
    <3> QED BY <1>3, <1>11, <3>1
  <2> HIDE DEF S
  <2>3. Nat \subseteq S
    BY <2>1, <2>2, Induction
  <2>4. \A k \in 0..n : s[k] \in Seen(doc)
    BY <1>1, <2>3 DEF S
  <2> QED BY <1>9, <2>4
<1> QED BY <1>10, <1>11, <1>12 DEF Sees

\* A reply that passes for success has a guid that could be read, or none.
THEOREM GuidIsReadable ==
  ASSUME NEW doc, IsList(doc)
  PROVE  /\ DecodeReply(doc).guid \in {Absent} \cup Texts(doc)
         /\ Verdict(doc) = "ok" => DecodeReply(doc).guid # Unreadable
<1>1. PICK s : /\ Sees(s, doc)
               /\ DecodeReply(doc) = IF s[Len(doc)].method = Absent THEN Broken ELSE s[Len(doc)]
  BY DecodeSteps
<1>2. s[Len(doc)] \in Seen(doc)
  BY <1>1 DEF Sees, IsList
<1>3. Broken \in Seen(doc)
  BY SeenNothing
<1>4. DecodeReply(doc) \in Seen(doc)
  BY <1>1, <1>2, <1>3
<1>5. Verdict(doc) = "ok" => DecodeReply(doc).ok
  BY DEF Verdict
<1> QED BY <1>4, <1>5 DEF Seen

-----------------------------------------------------------------------------
(* Bodies.                                                                 *)

\* f is what has been read of a body after each of the first m events.
Reads(f, m, rows, doc) ==
  /\ f = [k \in 0..m |-> f[k]]
  /\ f[0] = Default(rows)
  /\ \A k \in 1..m :
       f[k] = IF IsElement(doc[k]) THEN ReadElement(rows, f[k - 1], doc[k]) ELSE f[k - 1]

\* An element never adds a field to a struct nor takes one away.
LEMMA FieldsStay ==
  ASSUME NEW rows, NEW info, NEW e
  PROVE  DOMAIN ReadElement(rows, info, e) = DOMAIN info
<1> DEFINE row == CHOOSE r \in ToSet(rows) : r.tag = e.tag /\ r.form # "close"
<1>1. CASE ~\E r \in ToSet(rows) : r.tag = e.tag /\ r.form # "close"
  BY <1>1 DEF ReadElement
<1>2. CASE /\ \E r \in ToSet(rows) : r.tag = e.tag /\ r.form # "close"
           /\ row.form = "each"
  <2>1. ReadElement(rows, info, e)
          = [info EXCEPT ![row.list] = Append(@, Named(row.fields, Defaults(row.fields), e))]
    BY <1>2 DEF ReadElement
  <2> HIDE DEF row
  <2> QED BY <2>1
<1>3. CASE /\ \E r \in ToSet(rows) : r.tag = e.tag /\ r.form # "close"
           /\ row.form # "each"
  <2>1. ReadElement(rows, info, e) = Named(row.fields, info, e)
    BY <1>3 DEF ReadElement
  <2> HIDE DEF row
  <2> QED BY <2>1 DEF Named
<1> QED BY <1>1, <1>2, <1>3

\* A body can be read event by event.
LEMMA BodyIsRead ==
  ASSUME NEW rows, NEW doc, NEW n \in Nat
  PROVE  \E f : Reads(f, n, rows, doc)
<1> DEFINE S == {m \in Nat : \E f : Reads(f, m, rows, doc)}
<1>1. 0 \in S
  <2> DEFINE f == [k \in 0..0 |-> Default(rows)]
  <2>1. Reads(f, 0, rows, doc)
    BY DEF Reads
  <2> QED BY <2>1
<1>2. ASSUME NEW m \in Nat, m \in S PROVE m + 1 \in S
  <2>1. PICK g : Reads(g, m, rows, doc)
    BY <1>2
  <2> DEFINE next == IF IsElement(doc[m + 1]) THEN ReadElement(rows, g[m], doc[m + 1]) ELSE g[m]
  <2> DEFINE f == [k \in 0..(m + 1) |-> IF k = m + 1 THEN next ELSE g[k]]
  <2>2. f = [k \in 0..(m + 1) |-> f[k]]
    OBVIOUS
  <2>3. f[0] = Default(rows)
    BY <2>1 DEF Reads
  <2>4. ASSUME NEW k \in 1..(m + 1)
        PROVE  f[k] = IF IsElement(doc[k]) THEN ReadElement(rows, f[k - 1], doc[k]) ELSE f[k - 1]
    <3>1. CASE k = m + 1
      <4>1. k - 1 = m /\ m \in 0..(m + 1) /\ m # m + 1
        BY <3>1
      <4>2. f[m] = g[m] /\ f[m + 1] = next
        BY <4>1
      <4> HIDE DEF f
      <4> QED BY <3>1, <4>1, <4>2
    <3>2. CASE k # m + 1
      <4>1. k \in 1..m /\ k - 1 \in 0..(m + 1) /\ k - 1 # m + 1 /\ k \in 0..(m + 1)
        BY <3>2
      <4>2. f[k] = g[k] /\ f[k - 1] = g[k - 1]
        BY <3>2, <4>1
      <4> HIDE DEF f
      <4> QED BY <4>1, <4>2, <2>1 DEF Reads
    <3> QED BY <3>1, <3>2
  <2> HIDE DEF f
  <2>5. Reads(f, m + 1, rows, doc)
    BY <2>2, <2>3, <2>4 DEF Reads
  <2> QED BY <2>5
<1> HIDE DEF S
<1>3. n \in S
  BY <1>1, <1>2, Induction
<1> QED BY <1>3 DEF S

\* parse_body goes through the document.
LEMMA ParseSteps ==
  ASSUME NEW rows, NEW doc, Len(doc) \in Nat
  PROVE  \E f : Reads(f, Len(doc), rows, doc) /\ ParseBody(rows, doc) = f[Len(doc)]
<1> DEFINE n == Len(doc)
<1> DEFINE Rec(f) == f = [k \in 0..Len(doc) |->
                            IF k = 0 THEN Default(rows)
                            ELSE IF IsElement(doc[k]) THEN ReadElement(rows, f[k - 1], doc[k])
                            ELSE f[k - 1]]
<1>1. PICK f : Reads(f, n, rows, doc)
  BY BodyIsRead
<1>2. Rec(f)
  <2>1. \A k \in 0..n : f[k] = IF k = 0 THEN Default(rows)
                               ELSE IF IsElement(doc[k]) THEN ReadElement(rows, f[k - 1], doc[k])
                               ELSE f[k - 1]
    <3>1. \A k \in 0..n : k = 0 \/ k \in 1..n
      OBVIOUS
    <3> QED BY <1>1, <3>1 DEF Reads
  <2>2. f = [k \in 0..n |-> f[k]]
    BY <1>1 DEF Reads
  <2> QED BY <2>1, <2>2
<1> DEFINE s == CHOOSE g : Rec(g)
<1>3. Rec(s)
  BY <1>2
<1>4. ParseBody(rows, doc) = s[Len(doc)]
  BY DEF ParseBody
<1> HIDE DEF s
<1>5. Reads(s, n, rows, doc)
  <2>1. \A k \in 0..n : s[k] = IF k = 0 THEN Default(rows)
                               ELSE IF IsElement(doc[k]) THEN ReadElement(rows, s[k - 1], doc[k])
                               ELSE s[k - 1]
    BY <1>3
  <2>2. s = [k \in 0..n |-> s[k]]
    BY <1>3
  <2> QED BY <2>1, <2>2 DEF Reads
<1> QED BY <1>4, <1>5

\* Whatever a document says, the struct that is read out of it has the fields of its
\* kind, no more and no fewer.
THEOREM StructIsFilled ==
  ASSUME NEW rows, NEW doc, Len(doc) \in Nat
  PROVE  DOMAIN ParseBody(rows, doc) = DOMAIN Default(rows)
<1> DEFINE n == Len(doc)
<1>1. PICK f : Reads(f, n, rows, doc) /\ ParseBody(rows, doc) = f[n]
  BY ParseSteps
<1> DEFINE S == {k \in Nat : k <= n => DOMAIN f[k] = DOMAIN Default(rows)}
<1>2. 0 \in S
  BY <1>1 DEF Reads
<1>3. ASSUME NEW k \in Nat, k \in S PROVE k + 1 \in S
  <2> SUFFICES ASSUME k + 1 <= n PROVE DOMAIN f[k + 1] = DOMAIN Default(rows)
    OBVIOUS
  <2>1. k + 1 \in 1..n /\ (k + 1) - 1 = k /\ DOMAIN f[k] = DOMAIN Default(rows)
    BY <1>3
  <2>2. f[k + 1] = IF IsElement(doc[k + 1]) THEN ReadElement(rows, f[k], doc[k + 1]) ELSE f[k]
    BY <1>1, <2>1 DEF Reads
  <2>3. DOMAIN ReadElement(rows, f[k], doc[k + 1]) = DOMAIN f[k]
    BY FieldsStay
  <2> QED BY <2>1, <2>2, <2>3
<1> HIDE DEF S
<1>4. n \in S
  BY <1>2, <1>3, Induction
<1> QED BY <1>1, <1>4 DEF S

-----------------------------------------------------------------------------
(* Documents are lists.                                                    *)

\* A sequence over any set is a list.
LEMMA SeqIsList ==
  ASSUME NEW S, NEW s \in Seq(S)
  PROVE  IsList(s) /\ ToSet(s) \subseteq S /\ Len(s) \in Nat /\ DOMAIN s = 1..Len(s)
<1>1. Len(s) \in Nat /\ DOMAIN s = 1..Len(s) /\ s \in [1..Len(s) -> S]
  OBVIOUS
<1>2. ToSet(s) = {s[i] : i \in 1..Len(s)}
  BY <1>1 DEF ToSet
<1>3. s \in [1..Len(s) -> ToSet(s)]
  BY <1>1, <1>2
<1>4. s \in Seq(ToSet(s))
  BY <1>1, <1>3
<1> QED BY <1>1, <1>2, <1>4 DEF IsList

\* A function on the first n numbers is a list.
LEMMA FunctionIsList ==
  ASSUME NEW n \in Nat, NEW s, s = [i \in 1..n |-> s[i]]
  PROVE  IsList(s) /\ Len(s) = n /\ ToSet(s) = {s[i] : i \in 1..n}
<1> DEFINE S == {s[i] : i \in 1..n}
<1>1. s \in [1..n -> S]
  OBVIOUS
<1>2. s \in Seq(S)
  BY <1>1
<1>3. DOMAIN s = 1..n /\ Len(s) = n
  BY <1>1, <1>2
<1>4. ToSet(s) = S
  BY <1>3 DEF ToSet
<1> QED BY <1>2, <1>3, <1>4 DEF IsList

\* The list u is s and t after it.
Joins(u, s, t) == /\ IsList(u)
                  /\ Len(u) = Len(s) + Len(t)
                  /\ \A i \in 1..Len(s) : u[i] = s[i]
                  /\ \A i \in 1..Len(t) : u[Len(s) + i] = t[i]

\* One list after the other is a list of the members of both.
LEMMA ConcatIsList ==
  ASSUME NEW s, NEW t, IsList(s), IsList(t)
  PROVE  Joins(s \o t, s, t)
<1> DEFINE S == ToSet(s) \cup ToSet(t)
<1>1. s \in Seq(ToSet(s)) /\ t \in Seq(ToSet(t))
  BY DEF IsList
<1>2. s \in Seq(S) /\ t \in Seq(S)
  BY <1>1
<1> HIDE DEF S
<1>3. s \o t \in Seq(S)
  BY <1>2
<1>4. Len(s \o t) = Len(s) + Len(t) /\ Len(s) \in Nat /\ Len(t) \in Nat
  BY <1>2
<1>5. \A i \in 1..Len(s) : (s \o t)[i] = s[i]
  BY <1>2
<1>6. \A i \in 1..Len(t) : (s \o t)[Len(s) + i] = t[i]
  BY <1>2, <1>4
<1>7. IsList(s \o t)
  BY <1>3, SeqIsList
<1> QED BY <1>4, <1>5, <1>6, <1>7 DEF Joins

\* g has the first lists of ss one after another, up to each.
Flattens(g, ss, S) == /\ g \in [0..Len(ss) -> Seq(S)]
                      /\ g[0] = <<>>
                      /\ \A i \in 1..Len(ss) : ss[i] \in Seq(S) /\ g[i] = g[i - 1] \o ss[i]

\* The lists of a list can be put together one by one.
LEMMA FlatSteps ==
  ASSUME NEW ss, IsList(ss), \A i \in 1..Len(ss) : IsList(ss[i])
  PROVE  \E g : /\ Flattens(g, ss, UNION {ToSet(ss[i]) : i \in 1..Len(ss)})
                /\ FlattenSeq(ss) = g[Len(ss)]
<1> DEFINE n == Len(ss)
<1> DEFINE S == UNION {ToSet(ss[i]) : i \in 1..n}
<1>1. n \in Nat
  BY DEF IsList
<1>2. \A i \in 1..n : ss[i] \in Seq(S)
  <2>1. ASSUME NEW i \in 1..n PROVE ss[i] \in Seq(S)
    <3>1. ss[i] \in Seq(ToSet(ss[i])) /\ ToSet(ss[i]) \subseteq S
      BY DEF IsList
    <3> HIDE DEF S
    <3> QED BY <3>1
  <2> QED BY <2>1
<1> HIDE DEF S
<1> DEFINE Rec(f) == f = [i \in 1..Len(ss) |-> IF i = 1 THEN ss[i] ELSE f[i - 1] \o ss[i]]
<1> DEFINE step == [p \in (1..n) \X Seq(S) |-> p[2] \o ss[p[1]]]
<1>3. CASE n = 0
  <2> DEFINE k == [i \in 0..0 |-> <<>>]
  <2>1. k \in [0..0 -> Seq(S)] /\ k[0] = <<>>
    OBVIOUS
  <2>2. FlattenSeq(ss) = <<>>
    BY <1>3 DEF FlattenSeq
  <2> HIDE DEF k
  <2>3. Flattens(k, ss, S)
    BY <1>3, <2>1 DEF Flattens
  <2> QED BY <1>3, <2>1, <2>2, <2>3 DEF S
<1>4. CASE n # 0
  <2>1. \A p \in (1..n) \X Seq(S) : p[2] \o ss[p[1]] \in Seq(S)
    BY <1>2
  <2>2. step \in [(1..n) \X Seq(S) -> Seq(S)]
    BY <2>1
  <2>3. <<>> \in Seq(S)
    OBVIOUS
  <2>4. PICK g : Recursive(g, n, Seq(S), <<>>, step)
    <3> HIDE DEF step, n
    <3> QED BY <1>1, <2>2, <2>3, RecursionExists
  <2>5. g \in [0..n -> Seq(S)] /\ g[0] = <<>>
    BY <2>4 DEF Recursive
  <2>6. \A i \in 1..n : g[i] = g[i - 1] \o ss[i]
    <3>1. ASSUME NEW i \in 1..n PROVE g[i] = g[i - 1] \o ss[i]
      <4>1. i - 1 \in 0..n
        BY <1>1
      <4>2. <<i, g[i - 1]>> \in (1..n) \X Seq(S)
        BY <2>5, <4>1
      <4>3. g[i] = step[<<i, g[i - 1]>>]
        BY <2>4 DEF Recursive
      <4> HIDE DEF n
      <4> QED BY <4>2, <4>3
    <3> QED BY <3>1
  <2> DEFINE f == [i \in 1..n |-> g[i]]
  <2>7. Rec(f)
    <3>1. ASSUME NEW i \in 1..n PROVE f[i] = IF i = 1 THEN ss[i] ELSE f[i - 1] \o ss[i]
      <4>1. CASE i = 1
        <5>1. i - 1 = 0
          BY <4>1
        <5>2. g[i] = <<>> \o ss[i]
          BY <2>5, <2>6, <5>1
        <5>3. <<>> \o ss[i] = ss[i]
          BY <1>2
        <5> QED BY <4>1, <5>2, <5>3
      <4>2. CASE i # 1
        <5>1. i - 1 \in 1..n
          BY <1>1, <4>2
        <5> QED BY <2>6, <4>2, <5>1
      <4> QED BY <4>1, <4>2
    <3> QED BY <3>1
  <2> DEFINE h == CHOOSE f_ : Rec(f_)
  <2>8. Rec(h)
    BY <2>7
  <2>9. FlattenSeq(ss) = h[n]
    BY <1>4 DEF FlattenSeq
  <2> HIDE DEF h, f
  <2>10. \A i \in 1..n : h[i] = IF i = 1 THEN ss[i] ELSE h[i - 1] \o ss[i]
    BY <2>8
  <2> DEFINE I == {k \in Nat : k + 1 <= n => h[k + 1] \in Seq(S)}
  <2>11. 0 \in I
    BY <1>1, <1>2, <1>4, <2>10
  <2>12. ASSUME NEW k \in Nat, k \in I PROVE k + 1 \in I
    <3> SUFFICES ASSUME k + 2 <= n PROVE h[k + 2] \in Seq(S)
      OBVIOUS
    <3>1. k + 2 \in 1..n /\ k + 2 # 1 /\ (k + 2) - 1 = k + 1
      BY <1>1
    <3>2. h[k + 1] \in Seq(S)
      BY <1>1, <2>12
    <3>3. h[k + 2] = h[k + 1] \o ss[k + 2]
      BY <2>10, <3>1
    <3> QED BY <1>2, <3>1, <3>2, <3>3
  <2> HIDE DEF I
  <2>13. Nat \subseteq I
    BY <2>11, <2>12, Induction
  <2>15. ASSUME NEW i \in 1..n PROVE h[i] \in Seq(S)
    <3>1. i - 1 \in Nat /\ (i - 1) + 1 = i /\ i <= n
      BY <1>1
    <3> QED BY <2>13, <3>1 DEF I
  <2> DEFINE k == [i \in 0..n |-> IF i = 0 THEN <<>> ELSE h[i]]
  <2>16. k \in [0..n -> Seq(S)] /\ k[0] = <<>> /\ \A i \in 1..n : k[i] = h[i]
    BY <1>1, <2>3, <2>15
  <2> HIDE DEF k
  <2>17. ASSUME NEW i \in 1..n PROVE k[i] = k[i - 1] \o ss[i]
    <3>1. CASE i = 1
      <4>1. <<>> \o ss[i] = ss[i]
        BY <1>2
      <4>2. i - 1 = 0
        BY <3>1
      <4> QED BY <2>10, <2>16, <3>1, <4>1, <4>2
    <3>2. CASE i # 1
      <4>1. i - 1 \in 1..n
        BY <1>1, <3>2
      <4> QED BY <2>10, <2>16, <3>2, <4>1
    <3> QED BY <3>1, <3>2
  <2>18. Flattens(k, ss, S)
    BY <1>2, <2>16, <2>17 DEF Flattens
  <2>19. FlattenSeq(ss) = k[n]
    BY <1>1, <1>4, <2>9, <2>16
  <2> QED BY <2>18, <2>19 DEF S
<1> QED BY <1>3, <1>4

\* The lists of a list one after another are a list of their members.
LEMMA FlatIsList ==
  ASSUME NEW ss, IsList(ss), \A i \in 1..Len(ss) : IsList(ss[i])
  PROVE  /\ IsList(FlattenSeq(ss))
         /\ ToSet(FlattenSeq(ss)) \subseteq UNION {ToSet(ss[i]) : i \in 1..Len(ss)}
<1> DEFINE S == UNION {ToSet(ss[i]) : i \in 1..Len(ss)}
<1>1. PICK g : Flattens(g, ss, S) /\ FlattenSeq(ss) = g[Len(ss)]
  BY FlatSteps
<1>2. Len(ss) \in Nat
  BY DEF IsList
<1> HIDE DEF S
<1>3. g[Len(ss)] \in Seq(S)
  BY <1>1, <1>2 DEF Flattens
<1>4. IsList(g[Len(ss)]) /\ ToSet(g[Len(ss)]) \subseteq S
  BY <1>3, SeqIsList
<1> QED BY <1>1, <1>4 DEF S

\* doc has body between two events before it and two after it.
Between(doc, first, second, body, third, fourth) ==
  /\ IsList(doc)
  /\ Len(doc) = Len(body) + 4
  /\ doc[1] = first /\ doc[2] = second
  /\ \A k \in 1..Len(body) : doc[k + 2] = body[k]
  /\ doc[Len(body) + 3] = third /\ doc[Len(body) + 4] = fourth

\* The events of a document with that body.
LEMMA WrapIsList ==
  ASSUME NEW g, NEW tag, NEW m, NEW r, NEW body, IsList(body)
  PROVE  Between(Wrap(g, tag, m, r, body), Open("sdk", [guid |-> g]),
                 Open(tag, IF r = Absent THEN [method |-> m] ELSE [method |-> m, result |-> r]),
                 body, Close(tag), Close("sdk"))
<1> DEFINE first == Open("sdk", [guid |-> g])
<1> DEFINE second == Open(tag, IF r = Absent THEN [method |-> m] ELSE [method |-> m, result |-> r])
<1> DEFINE third == Close(tag)
<1> DEFINE fourth == Close("sdk")
<1> DEFINE doc == Wrap(g, tag, m, r, body)
<1>1. doc = (<<first, second>> \o body) \o <<third, fourth>>
  BY DEF Wrap
<1> HIDE DEF first, second, third, fourth, doc
<1>2. ASSUME NEW x, NEW y
      PROVE  IsList(<<x, y>>) /\ Len(<<x, y>>) = 2 /\ <<x, y>>[1] = x /\ <<x, y>>[2] = y
  <2>1. <<x, y>> \in Seq({x, y}) /\ Len(<<x, y>>) = 2 /\ <<x, y>>[1] = x /\ <<x, y>>[2] = y
    OBVIOUS
  <2> QED BY <2>1, SeqIsList
<1> DEFINE front == <<first, second>>
<1> DEFINE back == <<third, fourth>>
<1> DEFINE most == front \o body
<1>3. IsList(front) /\ Len(front) = 2 /\ front[1] = first /\ front[2] = second
  BY <1>2
<1>4. IsList(back) /\ Len(back) = 2 /\ back[1] = third /\ back[2] = fourth
  BY <1>2
<1>5. doc = most \o back
  BY <1>1
<1> HIDE DEF front, back
<1>6. /\ IsList(most) /\ Len(most) = 2 + Len(body)
      /\ \A i \in 1..2 : most[i] = front[i]
      /\ \A i \in 1..Len(body) : most[2 + i] = body[i]
  <2>1. Joins(most, front, body)
    BY <1>3, ConcatIsList
  <2> HIDE DEF most
  <2> QED BY <1>3, <2>1 DEF Joins
<1> HIDE DEF most
<1>7. /\ IsList(doc) /\ Len(doc) = Len(most) + 2
      /\ \A i \in 1..Len(most) : doc[i] = most[i]
      /\ \A i \in 1..2 : doc[Len(most) + i] = back[i]
  <2>1. Joins(doc, most, back)
    BY <1>4, <1>5, <1>6, ConcatIsList
  <2> QED BY <1>4, <2>1 DEF Joins
<1>8. Len(body) \in Nat
  BY DEF IsList
<1>9. 1 \in 1..Len(most) /\ 2 \in 1..Len(most) /\ Len(doc) = Len(body) + 4
  BY <1>6, <1>7, <1>8
<1>10. \A k \in 1..Len(body) : doc[k + 2] = body[k]
  <2>1. ASSUME NEW k \in 1..Len(body) PROVE doc[k + 2] = body[k]
    <3>1. k + 2 \in 1..Len(most) /\ 2 + k = k + 2
      BY <1>6, <1>8
    <3> QED BY <1>6, <1>7, <3>1
  <2> QED BY <2>1
<1>11. doc[Len(body) + 3] = third /\ doc[Len(body) + 4] = fourth
  <2>1. Len(body) + 3 = Len(most) + 1 /\ Len(body) + 4 = Len(most) + 2
    BY <1>6, <1>8
  <2> QED BY <1>4, <1>7, <2>1
<1>12. doc[1] = first /\ doc[2] = second
  BY <1>3, <1>6, <1>7, <1>9
<1>13. Between(doc, first, second, body, third, fourth)
  BY <1>7, <1>9, <1>10, <1>11, <1>12 DEF Between
<1> QED BY <1>13 DEF first, second, third, fourth, doc

\* No row of a body has the tag of an envelope.
Apart(rows) == \A row \in ToSet(rows) : row.tag \notin {"sdk", "in", "out"}

\* What is read out of a body does not depend on the envelope around it.
THEOREM BodyWithinEnvelope ==
  ASSUME NEW rows, Apart(rows), NEW g, NEW tag \in {"in", "out"}, NEW m, NEW r,
         NEW body, IsList(body)
  PROVE  ParseBody(rows, Wrap(g, tag, m, r, body)) = ParseBody(rows, body)
<1> DEFINE doc == Wrap(g, tag, m, r, body)
<1> DEFINE n == Len(body)
<1>1. /\ IsList(doc) /\ Len(doc) = n + 4 /\ n \in Nat
      /\ doc[1].tag = "sdk" /\ doc[2].tag = tag
      /\ \A k \in 1..n : doc[k + 2] = body[k]
      /\ ~IsElement(doc[n + 3]) /\ ~IsElement(doc[n + 4])
  <2>1. \A a, t : Open(t, a).tag = t /\ ~IsElement(Close(t))
    BY DEF Open, Close, IsElement
  <2>2. Len(body) \in Nat
    BY DEF IsList
  <2> DEFINE first == Open("sdk", [guid |-> g])
  <2> DEFINE second == Open(tag, IF r = Absent THEN [method |-> m] ELSE [method |-> m, result |-> r])
  <2>3. Between(doc, first, second, body, Close(tag), Close("sdk"))
    BY WrapIsList
  <2>4. first.tag = "sdk" /\ second.tag = tag
    BY <2>1
  <2> HIDE DEF first, second
  <2> HIDE DEF doc
  <2> QED BY <2>1, <2>2, <2>3, <2>4 DEF Between
<1> HIDE DEF doc
<1>2. \A info, e : e.tag \in {"sdk", "in", "out"} => ReadElement(rows, info, e) = info
  BY DEF ReadElement, Apart
<1>3. PICK f : Reads(f, n + 4, rows, doc) /\ ParseBody(rows, doc) = f[n + 4]
  <2>1. Len(doc) \in Nat
    BY <1>1
  <2> QED BY <1>1, <2>1, ParseSteps
<1>4. PICK h : Reads(h, n, rows, body) /\ ParseBody(rows, body) = h[n]
  BY <1>1, ParseSteps
<1>5. \A k \in 1..(n + 4) :
         f[k] = IF IsElement(doc[k]) THEN ReadElement(rows, f[k - 1], doc[k]) ELSE f[k - 1]
  BY <1>3 DEF Reads
<1>6. f[0] = Default(rows) /\ h[0] = Default(rows)
  BY <1>3, <1>4 DEF Reads
<1>7. \A k \in 1..n :
         h[k] = IF IsElement(body[k]) THEN ReadElement(rows, h[k - 1], body[k]) ELSE h[k - 1]
  BY <1>4 DEF Reads
<1>8. f[2] = h[0]
  <2>1. 1 \in 1..(n + 4) /\ 2 \in 1..(n + 4) /\ 1 - 1 = 0 /\ 2 - 1 = 1
    BY <1>1
  <2>2. f[1] = f[0]
    BY <1>1, <1>2, <1>5, <2>1
  <2>3. f[2] = f[1]
    BY <1>1, <1>2, <1>5, <2>1
  <2> QED BY <1>6, <2>2, <2>3
<1> DEFINE I == {k \in Nat : k <= n => f[k + 2] = h[k]}
<1>9. 0 \in I
  BY <1>8
<1>10. ASSUME NEW k \in Nat, k \in I PROVE k + 1 \in I
  <2> SUFFICES ASSUME k + 1 <= n PROVE f[k + 3] = h[k + 1]
    OBVIOUS
  <2>1. k + 1 \in 1..n /\ k + 3 \in 1..(n + 4) /\ (k + 1) - 1 = k /\ (k + 3) - 1 = k + 2
        /\ (k + 1) + 2 = k + 3
    BY <1>1
  <2>2. doc[k + 3] = body[k + 1]
    BY <1>1, <2>1
  <2>3. f[k + 2] = h[k]
    BY <1>1, <1>10, <2>1
  <2> QED BY <1>5, <1>7, <2>1, <2>2, <2>3
<1> HIDE DEF I
<1>11. n \in I
  BY <1>1, <1>9, <1>10, Induction
<1>12. f[n + 2] = h[n]
  BY <1>1, <1>11 DEF I
<1>13. f[n + 3] = f[n + 2] /\ f[n + 4] = f[n + 3]
  <2>1. n + 3 \in 1..(n + 4) /\ n + 4 \in 1..(n + 4) /\ (n + 3) - 1 = n + 2 /\ (n + 4) - 1 = n + 3
    BY <1>1
  <2> QED BY <1>1, <1>5, <2>1
<1> QED BY <1>3, <1>4, <1>12, <1>13 DEF doc

\* Whatever is in a body is in the document around it ...
LEMMA WithinWrap ==
  ASSUME NEW g, NEW tag, NEW m, NEW r, NEW body, IsList(body)
  PROVE  ToSet(body) \subseteq ToSet(Wrap(g, tag, m, r, body))
<1> DEFINE doc == Wrap(g, tag, m, r, body)
<1>1. IsList(doc) /\ Len(doc) = Len(body) + 4 /\ \A k \in 1..Len(body) : doc[k + 2] = body[k]
  <2>1. \E a, b, c, d : Between(doc, a, b, body, c, d)
    BY WrapIsList
  <2> HIDE DEF doc
  <2> QED BY <2>1 DEF Between
<1> HIDE DEF doc
<1>2. Len(body) \in Nat /\ DOMAIN body = 1..Len(body) /\ DOMAIN doc = 1..Len(doc)
  BY <1>1 DEF IsList
<1>3. ASSUME NEW k \in 1..Len(body) PROVE body[k] \in ToSet(doc)
  <2>1. k + 2 \in DOMAIN doc /\ body[k] = doc[k + 2]
    BY <1>1, <1>2
  <2> QED BY <2>1 DEF ToSet
<1> QED BY <1>2, <1>3 DEF ToSet, doc

\* ... and what cannot be read in the one cannot be read in the other.
LEMMA FaultyWithinEnvelope ==
  ASSUME NEW rows, NEW g, NEW tag, NEW m, NEW r, NEW body, IsList(body), Faulty(rows, body)
  PROVE  Faulty(rows, Wrap(g, tag, m, r, body))
<1>1. Elements(body) \subseteq Elements(Wrap(g, tag, m, r, body))
  BY WithinWrap DEF Elements
<1> QED BY <1>1 DEF Faulty

-----------------------------------------------------------------------------
(* What an envelope says.                                                  *)

\* A body that has nothing in it like the envelope around it.
Inner(body) == IsList(body) /\ \A k \in 1..Len(body) : ~IsHeader(body[k])

\* What has been read of an envelope.
Heard(g, m, r) == [ok |-> TRUE, guid |-> g, method |-> m, result |-> r]

\* A document whose body has nothing like an envelope in it reads as what its envelope
\* was made with: guid, method and result.
THEOREM EnvelopeIsRead ==
  ASSUME NEW g, g # Unreadable, NEW tag \in {"in", "out"}, NEW m, Known(m), m # Absent,
         NEW r, r # Unreadable, NEW body, Inner(body)
  PROVE  DecodeReply(Wrap(g, tag, m, r, body)) = Heard(g, m, r)
<1> DEFINE doc == Wrap(g, tag, m, r, body)
<1> DEFINE n == Len(body)
<1> DEFINE first == Open("sdk", [guid |-> g])
<1> DEFINE second == Open(tag, IF r = Absent THEN [method |-> m] ELSE [method |-> m, result |-> r])
<1> DEFINE h1 == [ok |-> TRUE, guid |-> g, method |-> Absent, result |-> Absent]
<1> DEFINE h2 == [ok |-> TRUE, guid |-> g, method |-> m, result |-> r]
<1>1. n \in Nat /\ IsList(body) /\ \A k \in 1..n : ~IsHeader(body[k])
  BY DEF IsList, Inner
<1>2. /\ IsHeader(first) /\ first.tag = "sdk" /\ Attr(first, "guid") = g
      /\ IsHeader(second) /\ second.tag = tag /\ Attr(second, "method") = m
      /\ ~IsHeader(Close(tag)) /\ ~IsHeader(Close("sdk"))
  BY DEF IsHeader, IsElement, Open, Close, Attr
<1>3. Attr(second, "result") = r
  BY DEF Open, Attr
<1>4. Between(doc, first, second, body, Close(tag), Close("sdk"))
  BY <1>1, WrapIsList
<1> HIDE DEF first, second, doc, n
<1>5. /\ IsList(doc) /\ Len(doc) = n + 4 /\ doc[1] = first /\ doc[2] = second
      /\ \A k \in 1..n : doc[k + 2] = body[k]
      /\ doc[n + 3] = Close(tag) /\ doc[n + 4] = Close("sdk")
  BY <1>4 DEF Between, n
<1>6. ASSUME NEW k \in 3..(n + 4) PROVE ~IsHeader(doc[k])
  <2>1. CASE k \in {n + 3, n + 4}
    BY <1>2, <1>5, <2>1
  <2>2. CASE k \notin {n + 3, n + 4}
    <3>1. k - 2 \in 1..n /\ (k - 2) + 2 = k
      BY <1>1, <2>2
    <3> QED BY <1>1, <1>5, <3>1
  <2> QED BY <2>1, <2>2
<1>7. PICK s : /\ Sees(s, doc)
               /\ DecodeReply(doc) = IF s[Len(doc)].method = Absent THEN Broken ELSE s[Len(doc)]
  BY <1>5, DecodeSteps
<1>8. s[0] = NoHeader /\ \A k \in 1..(n + 4) :
         s[k] = IF IsHeader(doc[k]) THEN Visit(s[k - 1], doc[k]) ELSE s[k - 1]
  BY <1>5, <1>7 DEF Sees
<1>9. s[1] = h1
  <2>1. s[1] = Visit(NoHeader, first)
    <3>1. 1 \in 1..(n + 4) /\ 1 - 1 = 0
      BY <1>1
    <3> QED BY <1>2, <1>5, <1>8, <3>1
  <2>2. Visit(NoHeader, first) = [NoHeader EXCEPT !.guid = g]
    BY <1>2 DEF Visit, NoHeader
  <2> QED BY <2>1, <2>2 DEF NoHeader
<1>10. s[2] = h2
  <2>1. s[2] = Visit(h1, second)
    <3>1. 2 \in 1..(n + 4) /\ 2 - 1 = 1
      BY <1>1
    <3> QED BY <1>2, <1>5, <1>8, <1>9, <3>1
  <2>2. h1.ok /\ second.tag # "malformed" /\ second.tag # "sdk" /\ second.tag \in {"in", "out"}
    BY <1>2
  <2>3. Visit(h1, second) = IF (m # Absent /\ ~Known(m)) \/ r = Unreadable THEN Broken
                            ELSE [h1 EXCEPT !.method = IF m = Absent THEN @ ELSE m, !.result = r]
    BY <1>2, <1>3, <2>2 DEF Visit
  <2>4. Visit(h1, second) = [h1 EXCEPT !.method = m, !.result = r]
    BY <2>3
  <2> QED BY <2>1, <2>4
<1> DEFINE P == {k \in Nat : k + 2 <= n + 4 => s[k + 2] = h2}
<1>11. 0 \in P
  BY <1>10
<1>12. ASSUME NEW k \in Nat, k \in P PROVE k + 1 \in P
  <2> SUFFICES ASSUME k + 3 <= n + 4 PROVE s[k + 3] = h2
    OBVIOUS
  <2>1. k + 3 \in 3..(n + 4) /\ k + 3 \in 1..(n + 4) /\ (k + 3) - 1 = k + 2 /\ k + 2 <= n + 4
    BY <1>1
  <2>2. s[k + 2] = h2
    BY <1>12, <2>1
  <2> HIDE DEF h2
  <2>3. s[k + 3] = s[k + 2]
    BY <1>6, <1>8, <2>1
  <2> QED BY <2>2, <2>3
<1>13. s[n + 4] = h2
  <2> HIDE DEF P
  <2>1. Nat \subseteq P
    BY <1>11, <1>12, Induction
  <2>2. n + 2 \in P /\ (n + 2) + 2 = n + 4
    BY <1>1, <2>1
  <2> QED BY <2>2 DEF P
<1>14. h2.method = m
  OBVIOUS
<1> HIDE DEF h2, P
<1>15. DecodeReply(doc) = h2
  BY <1>5, <1>7, <1>13, <1>14
<1>16. h2 = Heard(g, m, r)
  BY DEF Heard, h2
<1> QED BY <1>15, <1>16 DEF doc

\* The same without a body.
LEMMA BareIsRead ==
  ASSUME NEW g, g # Unreadable, NEW tag \in {"in", "out"}, NEW m, Known(m), m # Absent,
         NEW r, r # Unreadable
  PROVE  DecodeReply(Wrap(g, tag, m, r, <<>>)) = Heard(g, m, r)
<1> DEFINE body == <<>>
<1>1. IsList(body) /\ Len(body) = 0
  <2>1. <<>> \in Seq({}) /\ Len(<<>>) = 0
    OBVIOUS
  <2> QED BY <2>1, SeqIsList
<1> HIDE DEF body
<1>2. Inner(body)
  BY <1>1 DEF Inner
<1>3. DecodeReply(Wrap(g, tag, m, r, body)) = Heard(g, m, r)
  BY <1>2, EnvelopeIsRead
<1> QED BY <1>3 DEF body

\* A request without a body reads as the guid and the method it was made with.
THEOREM RequestIsRead ==
  ASSUME NEW g, NEW m, Known(m), m # Absent, g # Unreadable
  PROVE  DecodeReply(EncodeRequest(g, m, <<>>)) = [NoHeader EXCEPT !.method = m, !.guid = g]
<1>1. Absent # Unreadable
  BY DEF Absent, Unreadable
<1>2. DecodeReply(EncodeRequest(g, m, <<>>)) = Heard(g, m, Absent)
  BY <1>1, BareIsRead DEF EncodeRequest
<1>3. [NoHeader EXCEPT !.method = m, !.guid = g] = Heard(g, m, Absent)
  <2> DEFINE D == {"ok", "guid", "method", "result"}
  <2> DEFINE h == [NoHeader EXCEPT !.method = m, !.guid = g]
  <2> DEFINE k == Heard(g, m, Absent)
  <2>1. h = [x \in D |-> h[x]] /\ k = [x \in D |-> k[x]]
    BY DEF NoHeader, Heard
  <2>2. h["ok"] = k["ok"] /\ h["guid"] = k["guid"] /\ h["method"] = k["method"]
        /\ h["result"] = k["result"]
    BY DEF NoHeader, Heard
  <2> HIDE DEF h, k
  <2>3. \A x \in D : h[x] = k[x]
    BY <2>2
  <2>4. h = k
    BY <2>1, <2>3
  <2> QED BY <2>4 DEF h, k
<1> QED BY <1>2, <1>3

\* A reply without a body reads as what it says.
LEMMA RefusalIsRead ==
  ASSUME NEW g, NEW m, Known(m), m # Absent, g # Unreadable, NEW r, r \notin {Absent, Unreadable, Success}
  PROVE  Verdict(Wrap(g, "out", m, r, <<>>)) = "device"
<1>1. DecodeReply(Wrap(g, "out", m, r, <<>>)) = Heard(g, m, r)
  BY BareIsRead
<1> QED BY <1>1 DEF Verdict, Refused, Heard

\* The body of a document is what is left without its envelope.
LEMMA BodyOfWrap ==
  ASSUME NEW g, NEW tag, NEW m, NEW r, NEW body, IsList(body)
  PROVE  LET doc == Wrap(g, tag, m, r, body) IN SubSeq(doc, 3, Len(doc) - 2) = body
<1> DEFINE doc == Wrap(g, tag, m, r, body)
<1> DEFINE n == Len(body)
<1> DEFINE inner == SubSeq(doc, 3, Len(doc) - 2)
<1>1. n \in Nat /\ body \in Seq(ToSet(body))
  BY DEF IsList
<1>2. IsList(doc) /\ Len(doc) = n + 4 /\ \A k \in 1..n : doc[k + 2] = body[k]
  <2>1. \E a, b, c, d : Between(doc, a, b, body, c, d)
    BY WrapIsList
  <2> HIDE DEF doc
  <2> QED BY <2>1 DEF Between
<1> HIDE DEF doc
<1> DEFINE S == ToSet(doc) \cup ToSet(body)
<1>3. doc \in Seq(S) /\ body \in Seq(S)
  <2>1. doc \in Seq(ToSet(doc))
    BY <1>2 DEF IsList
  <2> QED BY <1>1, <2>1
<1> HIDE DEF S, n
<1>4. inner = SubSeq(doc, 3, n + 2)
  <2>1. Len(doc) - 2 = n + 2
    BY <1>1, <1>2
  <2> QED BY <2>1
<1> HIDE DEF inner
<1>5. /\ inner \in Seq(S) /\ Len(inner) = IF 3 <= n + 2 THEN (n + 2) - 3 + 1 ELSE 0
      /\ \A k \in 1..((n + 2) - 3 + 1) : inner[k] = doc[3 + k - 1]
  <2>1. \A k \in 3..(n + 2) : doc[k] \in S
    BY <1>1, <1>2, <1>3
  <2>2. 3 \in Int /\ n + 2 \in Int
    BY <1>1
  <2> QED BY <1>4, <2>1, <2>2, SubSeqProperties
<1>6. Len(inner) = n /\ \A k \in 1..n : inner[k] = body[k]
  <2>1. (IF 3 <= n + 2 THEN (n + 2) - 3 + 1 ELSE 0) = n /\ (n + 2) - 3 + 1 = n
    BY <1>1
  <2>2. \A k \in 1..n : 3 + k - 1 = k + 2
    BY <1>1
  <2> QED BY <1>2, <1>5, <2>1, <2>2
<1>7. inner = body
  BY <1>3, <1>5, <1>6, SeqEqual DEF n
<1> QED BY <1>7 DEF inner, doc

-----------------------------------------------------------------------------
(* The tables of the settings.                                             *)

\* Fields of one name are one field.
Alike(fields) == \A f, g \in fields : f.name = g.name => f = g

\* Their defaults are what the fields can hold.
Fitting(fields) == \A f \in fields : Fits(f, f.default)

\* A table that can be filled in any order, always fits, and loses nothing: no row is
\* taken for an envelope, elements, attributes and fields have names of their own,
\* defaults fit.
WellMade(rows) ==
  /\ IsList(rows)
  /\ \A r \in ToSet(rows) : /\ r.tag \notin {"sdk", "in", "out", "malformed"}
                            /\ r.form \in {"one", "open", "close", "each"}
                            /\ r.form = "close" => r.fields = {}
                            /\ r.form = "each" => Fitting(Read(r.fields))
  /\ \A r \in ToSet(rows) : Alike(r.fields)
  /\ \A r \in ToSet(rows) : \A f, g \in r.fields : f.attr = g.attr => f = g
  /\ \A q, r \in ToSet(rows) : q.form # "close" /\ r.form # "close" /\ q.tag = r.tag => q = r
  /\ \A i, j \in DOMAIN rows : rows[i].form = "each" /\ rows[j].form = "each" => i = j
  /\ \A f \in Read(Plain(rows)) : f.name \notin Lists(rows)
  /\ Alike(Plain(rows)) /\ Fitting(Read(Plain(rows)))

\* The defaults of the code fit the widths it gives them.
LEMMA Widths == /\ 1 \in Numbers \cap Values("u8") /\ 10 \in Numbers \cap Values("u8")
                /\ 100 \in Numbers \cap Values("u8")
                /\ 10001 \in Numbers \cap Values("u16")
                /\ 0 \in Numbers \cap Values("u32") /\ 0 \in Numbers \cap Values("i64")
BY WidthAssumption DEF Values

\* The default of a text is a text.
LEMMA StrFits == \A attr, name : Fits(Str(attr, name), Str(attr, name).default)
<1> SUFFICES ASSUME NEW attr, NEW name PROVE Fits(Str(attr, name), Str(attr, name).default)
  OBVIOUS
<1> DEFINE f == Str(attr, name)
<1>1. f.kind = "text" /\ f.default = ""
  BY DEF Str, Field
<1>2. "" # Absent
  BY Zenon DEF Absent
<1>3. f.default # Absent
  BY <1>1, <1>2, Zenon
<1> HIDE DEF f
<1>4. Fits(f, f.default)
  BY <1>1, <1>3 DEF Fits, Integral
<1> QED BY <1>4 DEF f

\* The default of a flag, off or on, is a flag.
LEMMA FlagFits == \A attr, name : /\ Fits(Flag(attr, name), Flag(attr, name).default)
                                  /\ Fits(Field(attr, name, "flag", TRUE),
                                          Field(attr, name, "flag", TRUE).default)
<1> SUFFICES ASSUME NEW attr, NEW name, NEW b \in BOOLEAN
             PROVE  Fits(Field(attr, name, "flag", b), Field(attr, name, "flag", b).default)
  BY DEF Flag
<1> DEFINE f == Field(attr, name, "flag", b)
<1>1. f.kind = "flag" /\ f.default \in BOOLEAN
  BY Zenon DEF Field
<1> HIDE DEF f
<1>2. Fits(f, f.default)
  BY <1>1 DEF Fits, Integral
<1> QED BY <1>2 DEF f

\* A default within its width is a number of that width.
LEMMA NumberFits ==
  \A attr, name : \A kind \in {"u8", "u16", "u32", "i64"} : \A n \in Numbers \cap Values(kind) :
    Fits(Field(attr, name, kind, n), Field(attr, name, kind, n).default)
<1> SUFFICES ASSUME NEW attr, NEW name, NEW kind \in {"u8", "u16", "u32", "i64"},
                    NEW n \in Numbers \cap Values(kind)
             PROVE  Fits(Field(attr, name, kind, n), Field(attr, name, kind, n).default)
  OBVIOUS
<1> DEFINE f == Field(attr, name, kind, n)
<1>1. f.kind = kind /\ f.default = n
  BY DEF Field
<1> HIDE DEF f
<1>2. Fits(f, f.default)
  BY <1>1 DEF Fits, Integral
<1> QED BY <1>2 DEF f

\* The defaults that are variants of an enum, and the one text that is not empty.
LEMMA VariantFits ==
  \A attr, name : /\ Fits(Field(attr, name, "text", "00:00:00"),
                          Field(attr, name, "text", "00:00:00").default)
                  /\ Fits(Field(attr, name, "luminance", "Fixed"),
                          Field(attr, name, "luminance", "Fixed").default)
                  /\ Fits(Field(attr, name, "wifi", "Ap"), Field(attr, name, "wifi", "Ap").default)
BY DEF Fits, Field, Integral, LuminanceModes, WifiModes, Absent

\* The table of the boot logo is well made.
LEMMA BootLogoMade == WellMade(BootLogo.rows)
<1> DEFINE f1 == Flag("exist", "exists")
<1> DEFINE f2 == Str("name", "name")
<1> DEFINE f3 == Str("md5", "md5")
<1> DEFINE r1 == One("logo", {f1, f2, f3})
<1>1. BootLogo.rows = <<r1>>
  BY DEF BootLogo, Setting
<1>2. /\ r1.tag = "logo" /\ r1.form = "one" /\ r1.fields = {f1, f2, f3}
  BY DEF One, Opening, Closing, Each, Row
<1>3. /\ f1.attr = "exist" /\ f1.name = "exists"
      /\ f2.attr = "name" /\ f2.name = "name"
      /\ f3.attr = "md5" /\ f3.name = "md5"
  BY DEF Str, Flag, Field
<1>4. /\ f1.kind = "flag"
      /\ f2.kind = "text"
      /\ f3.kind = "text"
  BY DEF Str, Flag, Field
<1>5. /\ Fits(f1, f1.default)
      /\ Fits(f2, f2.default)
      /\ Fits(f3, f3.default)
  <2>1. Fits(f1, f1.default)
    BY FlagFits
  <2>2. Fits(f2, f2.default) /\ Fits(f3, f3.default)
    BY StrFits
  <2> QED BY <2>1, <2>2
<1> HIDE DEF f1, f2, f3, r1
<1>7. ToSet(BootLogo.rows) = {r1}
  BY <1>1 DEF ToSet
<1>8. Read({f1, f2, f3}) = {f1, f2, f3}
  BY <1>4 DEF Read
<1>9. Fitting(Read({f1, f2, f3}))
  BY <1>5, <1>8 DEF Fitting
<1>10. Plain(BootLogo.rows) \subseteq {f1, f2, f3}
  BY <1>2, <1>7 DEF Plain
<1>11. Lists(BootLogo.rows) = {}
  BY <1>2, <1>7 DEF Lists
<1>12. \A f \in Read(Plain(BootLogo.rows)) : f.name \notin Lists(BootLogo.rows)
  BY <1>3, <1>4, <1>10, <1>11 DEF Read
<1>13. Alike(Plain(BootLogo.rows))
  BY <1>3, <1>10 DEF Alike
<1>14. Fitting(Read(Plain(BootLogo.rows)))
  <2>1. Read(Plain(BootLogo.rows)) \subseteq Read({f1, f2, f3})
    BY <1>10 DEF Read
  <2> QED BY <1>9, <2>1 DEF Fitting
<1>16. \A r \in ToSet(BootLogo.rows) : Alike(r.fields)
  BY <1>2, <1>3, <1>7 DEF Alike
<1>17. \A r \in ToSet(BootLogo.rows) : \A f, g \in r.fields : f.attr = g.attr => f = g
  BY <1>2, <1>3, <1>7
<1>18. \A q, r \in ToSet(BootLogo.rows) : q.form # "close" /\ r.form # "close" /\ q.tag = r.tag => q = r
  BY <1>2, <1>7
<1>19. \A i \in DOMAIN BootLogo.rows : BootLogo.rows[i].form # "each"
  <2>1. \A r \in ToSet(BootLogo.rows) : r.form # "each"
    BY <1>2, <1>7
  <2> QED BY <2>1 DEF ToSet
<1>20. IsList(BootLogo.rows)
  <2>1. <<r1>> \in Seq({r1})
    OBVIOUS
  <2> QED BY <1>1, <2>1, SeqIsList
<1>21. \A r \in ToSet(BootLogo.rows) : /\ r.tag \notin {"sdk", "in", "out", "malformed"}
                                       /\ r.form \in {"one", "open", "close", "each"}
                                       /\ r.form = "close" => r.fields = {}
                                       /\ r.form = "each" => Fitting(Read(r.fields))
  BY <1>2, <1>7
<1> QED BY <1>12, <1>13, <1>14, <1>16, <1>17, <1>18, <1>19, <1>20, <1>21 DEF WellMade

\* The table of the files of the device is well made.
LEMMA FileListMade == WellMade(FileList.rows)
<1> DEFINE f1 == Str("name", "name")
<1> DEFINE f2 == Field("size", "size", "i64", 0)
<1> DEFINE f3 == Field("existSize", "exist_size", "i64", 0)
<1> DEFINE f4 == Str("md5", "md5")
<1> DEFINE f5 == Str("type", "file_type")
<1> DEFINE r1 == Opening("files", {})
<1> DEFINE r2 == Each("file", "files", {f1, f2, f3, f4, f5})
<1> DEFINE r3 == Closing("files")
<1>1. FileList.rows = <<r1, r2, r3>>
  BY DEF FileList, Setting
<1>2. /\ r1.tag = "files" /\ r1.form = "open" /\ r1.fields = {}
      /\ r2.tag = "file" /\ r2.form = "each" /\ r2.fields = {f1, f2, f3, f4, f5}
      /\ r3.tag = "files" /\ r3.form = "close" /\ r3.fields = {}
      /\ r2.list = "files"
  BY DEF One, Opening, Closing, Each, Row
<1>3. /\ f1.attr = "name" /\ f1.name = "name"
      /\ f2.attr = "size" /\ f2.name = "size"
      /\ f3.attr = "existSize" /\ f3.name = "exist_size"
      /\ f4.attr = "md5" /\ f4.name = "md5"
      /\ f5.attr = "type" /\ f5.name = "file_type"
  BY DEF Str, Flag, Field
<1>4. /\ f1.kind = "text"
      /\ f2.kind = "i64"
      /\ f3.kind = "i64"
      /\ f4.kind = "text"
      /\ f5.kind = "text"
  BY DEF Str, Flag, Field
<1>5. /\ Fits(f1, f1.default)
      /\ Fits(f2, f2.default)
      /\ Fits(f3, f3.default)
      /\ Fits(f4, f4.default)
      /\ Fits(f5, f5.default)
  <2>1. Fits(f1, f1.default) /\ Fits(f4, f4.default) /\ Fits(f5, f5.default)
    BY StrFits
  <2>2. Fits(f2, f2.default) /\ Fits(f3, f3.default)
    BY NumberFits, Widths
  <2> QED BY <2>1, <2>2
<1> HIDE DEF f1, f2, f3, f4, f5, r1, r2, r3
<1>7. ToSet(FileList.rows) = {r1, r2, r3}
  BY <1>1 DEF ToSet
<1>8. Read({f1, f2, f3, f4, f5}) = {f1, f2, f3, f4, f5}
  BY <1>4 DEF Read
<1>9. Fitting(Read({f1, f2, f3, f4, f5}))
  BY <1>5, <1>8 DEF Fitting
<1>10. Plain(FileList.rows) \subseteq {}
  BY <1>2, <1>7 DEF Plain
<1>11. Lists(FileList.rows) = {"files"}
  BY <1>2, <1>7 DEF Lists
<1>12. \A f \in Read(Plain(FileList.rows)) : f.name \notin Lists(FileList.rows)
  BY <1>3, <1>4, <1>10, <1>11 DEF Read
<1>13. Alike(Plain(FileList.rows))
  BY <1>3, <1>10 DEF Alike
<1>14. Fitting(Read(Plain(FileList.rows)))
  <2>1. Read(Plain(FileList.rows)) \subseteq Read({f1, f2, f3, f4, f5})
    BY <1>10 DEF Read
  <2> QED BY <1>9, <2>1 DEF Fitting
<1>15. Fitting(Read(r2.fields))
  <2>1. Read(r2.fields) \subseteq Read({f1, f2, f3, f4, f5})
    BY <1>2 DEF Read
  <2> QED BY <1>9, <2>1 DEF Fitting
<1>16. \A r \in ToSet(FileList.rows) : Alike(r.fields)
  BY <1>2, <1>3, <1>7 DEF Alike
<1>17. \A r \in ToSet(FileList.rows) : \A f, g \in r.fields : f.attr = g.attr => f = g
  BY <1>2, <1>3, <1>7
<1>18. \A q, r \in ToSet(FileList.rows) : q.form # "close" /\ r.form # "close" /\ q.tag = r.tag => q = r
  BY <1>2, <1>7
<1>19. \A i, j \in DOMAIN FileList.rows : FileList.rows[i].form = "each" /\ FileList.rows[j].form = "each" => i = j
  <2>1. DOMAIN FileList.rows = 1..3
    BY <1>1
  <2>2. \A i \in 1..3 : FileList.rows[i].form = "each" => i = 2
    BY <1>1, <1>2
  <2> QED BY <2>1, <2>2
<1>20. IsList(FileList.rows)
  <2>1. <<r1, r2, r3>> \in Seq({r1, r2, r3})
    OBVIOUS
  <2> QED BY <1>1, <2>1, SeqIsList
<1>21. \A r \in ToSet(FileList.rows) : /\ r.tag \notin {"sdk", "in", "out", "malformed"}
                                       /\ r.form \in {"one", "open", "close", "each"}
                                       /\ r.form = "close" => r.fields = {}
                                       /\ r.form = "each" => Fitting(Read(r.fields))
  BY <1>2, <1>7, <1>15
<1> QED BY <1>12, <1>13, <1>14, <1>16, <1>17, <1>18, <1>19, <1>20, <1>21 DEF WellMade

\* The table of the brightness policy is well made.
LEMMA LuminanceMade == WellMade(Luminance.rows)
<1> DEFINE f1 == Field("value", "mode", "luminance", "Fixed")
<1> DEFINE f2 == Field("value", "default_value", "u8", 100)
<1> DEFINE f3 == Field("min", "sensor_min", "u8", 1)
<1> DEFINE f4 == Field("max", "sensor_max", "u8", 100)
<1> DEFINE f5 == Field("time", "sensor_time", "u8", 10)
<1> DEFINE f6 == Field("enable", "enabled", "flag", TRUE)
<1> DEFINE f7 == Field("start", "start", "text", "00:00:00")
<1> DEFINE f8 == Field("percent", "percent", "u8", 100)
<1> DEFINE r1 == One("mode", {f1})
<1> DEFINE r2 == One("default", {f2})
<1> DEFINE r3 == Opening("ploy", {})
<1> DEFINE r4 == Each("item", "items", {f6, f7, f8})
<1> DEFINE r5 == Closing("ploy")
<1> DEFINE r6 == One("sensor", {f3, f4, f5})
<1>1. Luminance.rows = <<r1, r2, r3, r4, r5, r6>>
  BY DEF Luminance, Setting
<1>2. /\ r1.tag = "mode" /\ r1.form = "one" /\ r1.fields = {f1}
      /\ r2.tag = "default" /\ r2.form = "one" /\ r2.fields = {f2}
      /\ r3.tag = "ploy" /\ r3.form = "open" /\ r3.fields = {}
      /\ r4.tag = "item" /\ r4.form = "each" /\ r4.fields = {f6, f7, f8}
      /\ r5.tag = "ploy" /\ r5.form = "close" /\ r5.fields = {}
      /\ r6.tag = "sensor" /\ r6.form = "one" /\ r6.fields = {f3, f4, f5}
      /\ r4.list = "items"
  BY DEF One, Opening, Closing, Each, Row
<1>3. /\ f1.attr = "value" /\ f1.name = "mode"
      /\ f2.attr = "value" /\ f2.name = "default_value"
      /\ f3.attr = "min" /\ f3.name = "sensor_min"
      /\ f4.attr = "max" /\ f4.name = "sensor_max"
      /\ f5.attr = "time" /\ f5.name = "sensor_time"
      /\ f6.attr = "enable" /\ f6.name = "enabled"
      /\ f7.attr = "start" /\ f7.name = "start"
      /\ f8.attr = "percent" /\ f8.name = "percent"
  BY DEF Str, Flag, Field
<1>4. /\ f1.kind = "luminance"
      /\ f2.kind = "u8"
      /\ f3.kind = "u8"
      /\ f4.kind = "u8"
      /\ f5.kind = "u8"
      /\ f6.kind = "flag"
      /\ f7.kind = "text"
      /\ f8.kind = "u8"
  BY DEF Str, Flag, Field
<1>5. /\ Fits(f1, f1.default)
      /\ Fits(f2, f2.default)
      /\ Fits(f3, f3.default)
      /\ Fits(f4, f4.default)
      /\ Fits(f5, f5.default)
      /\ Fits(f6, f6.default)
      /\ Fits(f7, f7.default)
      /\ Fits(f8, f8.default)
  <2>1. Fits(f1, f1.default) /\ Fits(f7, f7.default)
    BY VariantFits
  <2>2. Fits(f2, f2.default) /\ Fits(f3, f3.default)
    BY NumberFits, Widths
  <2>3. Fits(f4, f4.default) /\ Fits(f5, f5.default)
    BY NumberFits, Widths
  <2>4. Fits(f8, f8.default)
    BY NumberFits, Widths
  <2>5. Fits(f6, f6.default)
    BY FlagFits
  <2> QED BY <2>1, <2>2, <2>3, <2>4, <2>5
<1> HIDE DEF f1, f2, f3, f4, f5, f6, f7, f8, r1, r2, r3, r4, r5, r6
<1>7. ToSet(Luminance.rows) = {r1, r2, r3, r4, r5, r6}
  BY <1>1 DEF ToSet
<1>8. Read({f1, f2, f3, f4, f5, f6, f7, f8}) = {f1, f2, f3, f4, f5, f6, f7, f8}
  BY <1>4 DEF Read
<1>9. Fitting(Read({f1, f2, f3, f4, f5, f6, f7, f8}))
  BY <1>5, <1>8 DEF Fitting
<1>10. Plain(Luminance.rows) \subseteq {f1, f2, f3, f4, f5}
  BY <1>2, <1>7 DEF Plain
<1>11. Lists(Luminance.rows) = {"items"}
  BY <1>2, <1>7 DEF Lists
<1>12. \A f \in Read(Plain(Luminance.rows)) : f.name \notin Lists(Luminance.rows)
  BY <1>3, <1>4, <1>10, <1>11 DEF Read
<1>13. Alike(Plain(Luminance.rows))
  BY <1>3, <1>10 DEF Alike
<1>14. Fitting(Read(Plain(Luminance.rows)))
  <2>1. Read(Plain(Luminance.rows)) \subseteq Read({f1, f2, f3, f4, f5, f6, f7, f8})
    BY <1>10 DEF Read
  <2> QED BY <1>9, <2>1 DEF Fitting
<1>15. Fitting(Read(r4.fields))
  <2>1. Read(r4.fields) \subseteq Read({f1, f2, f3, f4, f5, f6, f7, f8})
    BY <1>2 DEF Read
  <2> QED BY <1>9, <2>1 DEF Fitting
<1>16. \A r \in ToSet(Luminance.rows) : Alike(r.fields)
  BY <1>2, <1>3, <1>7 DEF Alike
<1>17. \A r \in ToSet(Luminance.rows) : \A f, g \in r.fields : f.attr = g.attr => f = g
  BY <1>2, <1>3, <1>7
<1>18. \A q, r \in ToSet(Luminance.rows) : q.form # "close" /\ r.form # "close" /\ q.tag = r.tag => q = r
  BY <1>2, <1>7
<1>19. \A i, j \in DOMAIN Luminance.rows : Luminance.rows[i].form = "each" /\ Luminance.rows[j].form = "each" => i = j
  <2>1. DOMAIN Luminance.rows = 1..6
    BY <1>1
  <2>2. \A i \in 1..6 : Luminance.rows[i].form = "each" => i = 4
    BY <1>1, <1>2
  <2> QED BY <2>1, <2>2
<1>20. IsList(Luminance.rows)
  <2>1. <<r1, r2, r3, r4, r5, r6>> \in Seq({r1, r2, r3, r4, r5, r6})
    OBVIOUS
  <2> QED BY <1>1, <2>1, SeqIsList
<1>21. \A r \in ToSet(Luminance.rows) : /\ r.tag \notin {"sdk", "in", "out", "malformed"}
                                        /\ r.form \in {"one", "open", "close", "each"}
                                        /\ r.form = "close" => r.fields = {}
                                        /\ r.form = "each" => Fitting(Read(r.fields))
  BY <1>2, <1>7, <1>15
<1> QED BY <1>12, <1>13, <1>14, <1>16, <1>17, <1>18, <1>19, <1>20, <1>21 DEF WellMade

\* The table of the ethernet settings is well made.
LEMMA EthernetMade == WellMade(Ethernet.rows)
<1> DEFINE f1 == Fixed("valid", "true")
<1> DEFINE f2 == Flag("value", "enabled")
<1> DEFINE f3 == Flag("auto", "auto_dhcp")
<1> DEFINE f4 == Str("ip", "ip")
<1> DEFINE f5 == Str("netmask", "netmask")
<1> DEFINE f6 == Str("gateway", "gateway")
<1> DEFINE f7 == Str("dns", "dns")
<1> DEFINE r1 == Opening("eth", {f1})
<1> DEFINE r2 == One("enable", {f2})
<1> DEFINE r3 == One("dhcp", {f3})
<1> DEFINE r4 == One("address", {f4, f5, f6, f7})
<1> DEFINE r5 == Closing("eth")
<1>1. Ethernet.rows = <<r1, r2, r3, r4, r5>>
  BY DEF Ethernet, Setting
<1>2. /\ r1.tag = "eth" /\ r1.form = "open" /\ r1.fields = {f1}
      /\ r2.tag = "enable" /\ r2.form = "one" /\ r2.fields = {f2}
      /\ r3.tag = "dhcp" /\ r3.form = "one" /\ r3.fields = {f3}
      /\ r4.tag = "address" /\ r4.form = "one" /\ r4.fields = {f4, f5, f6, f7}
      /\ r5.tag = "eth" /\ r5.form = "close" /\ r5.fields = {}
  BY DEF One, Opening, Closing, Each, Row
<1>3. /\ f2.attr = "value" /\ f2.name = "enabled"
      /\ f3.attr = "auto" /\ f3.name = "auto_dhcp"
      /\ f4.attr = "ip" /\ f4.name = "ip"
      /\ f5.attr = "netmask" /\ f5.name = "netmask"
      /\ f6.attr = "gateway" /\ f6.name = "gateway"
      /\ f7.attr = "dns" /\ f7.name = "dns"
      /\ f1.attr = "valid"
  BY DEF Str, Flag, Field, Fixed
<1>4. /\ f1.kind = "fixed"
      /\ f2.kind = "flag"
      /\ f3.kind = "flag"
      /\ f4.kind = "text"
      /\ f5.kind = "text"
      /\ f6.kind = "text"
      /\ f7.kind = "text"
  BY DEF Str, Flag, Field, Fixed
<1>5. /\ Fits(f2, f2.default)
      /\ Fits(f3, f3.default)
      /\ Fits(f4, f4.default)
      /\ Fits(f5, f5.default)
      /\ Fits(f6, f6.default)
      /\ Fits(f7, f7.default)
  <2>1. Fits(f2, f2.default) /\ Fits(f3, f3.default)
    BY FlagFits
  <2>2. Fits(f4, f4.default) /\ Fits(f5, f5.default) /\ Fits(f6, f6.default) /\ Fits(f7, f7.default)
    BY StrFits
  <2> QED BY <2>1, <2>2
<1>6. /\ f1.name # f2.name
      /\ f1.name # f3.name
      /\ f1.name # f4.name
      /\ f1.name # f5.name
      /\ f1.name # f6.name
      /\ f1.name # f7.name
  <2>1. f1.name = ""
    BY DEF Fixed, Field
  <2> QED BY <1>3, <2>1, Zenon
<1> HIDE DEF f1, f2, f3, f4, f5, f6, f7, r1, r2, r3, r4, r5
<1>7. ToSet(Ethernet.rows) = {r1, r2, r3, r4, r5}
  BY <1>1 DEF ToSet
<1>8. Read({f1, f2, f3, f4, f5, f6, f7}) = {f2, f3, f4, f5, f6, f7}
  BY <1>4 DEF Read
<1>9. Fitting(Read({f1, f2, f3, f4, f5, f6, f7}))
  BY <1>5, <1>8 DEF Fitting
<1>10. Plain(Ethernet.rows) \subseteq {f1, f2, f3, f4, f5, f6, f7}
  BY <1>2, <1>7 DEF Plain
<1>11. Lists(Ethernet.rows) = {}
  BY <1>2, <1>7 DEF Lists
<1>12. \A f \in Read(Plain(Ethernet.rows)) : f.name \notin Lists(Ethernet.rows)
  BY <1>3, <1>4, <1>10, <1>11 DEF Read
<1>13. Alike(Plain(Ethernet.rows))
  BY <1>3, <1>6, <1>10 DEF Alike
<1>14. Fitting(Read(Plain(Ethernet.rows)))
  <2>1. Read(Plain(Ethernet.rows)) \subseteq Read({f1, f2, f3, f4, f5, f6, f7})
    BY <1>10 DEF Read
  <2> QED BY <1>9, <2>1 DEF Fitting
<1>16. \A r \in ToSet(Ethernet.rows) : Alike(r.fields)
  BY <1>2, <1>3, <1>6, <1>7 DEF Alike
<1>17. \A r \in ToSet(Ethernet.rows) : \A f, g \in r.fields : f.attr = g.attr => f = g
  BY <1>2, <1>3, <1>7
<1>18. \A q, r \in ToSet(Ethernet.rows) : q.form # "close" /\ r.form # "close" /\ q.tag = r.tag => q = r
  BY <1>2, <1>7
<1>19. \A i \in DOMAIN Ethernet.rows : Ethernet.rows[i].form # "each"
  <2>1. \A r \in ToSet(Ethernet.rows) : r.form # "each"
    BY <1>2, <1>7
  <2> QED BY <2>1 DEF ToSet
<1>20. IsList(Ethernet.rows)
  <2>1. <<r1, r2, r3, r4, r5>> \in Seq({r1, r2, r3, r4, r5})
    OBVIOUS
  <2> QED BY <1>1, <2>1, SeqIsList
<1>21. \A r \in ToSet(Ethernet.rows) : /\ r.tag \notin {"sdk", "in", "out", "malformed"}
                                       /\ r.form \in {"one", "open", "close", "each"}
                                       /\ r.form = "close" => r.fields = {}
                                       /\ r.form = "each" => Fitting(Read(r.fields))
  BY <1>2, <1>7
<1> QED BY <1>12, <1>13, <1>14, <1>16, <1>17, <1>18, <1>19, <1>20, <1>21 DEF WellMade

\* The table of the wifi settings is well made.
LEMMA WifiMade == WellMade(Wifi.rows)
<1> DEFINE f1 == Flag("valid", "has_wifi")
<1> DEFINE f2 == Flag("value", "enabled")
<1> DEFINE f3 == Field("value", "mode", "wifi", "Ap")
<1> DEFINE f4 == Str("value", "ssid")
<1> DEFINE f5 == Str("value", "password")
<1> DEFINE f6 == Str("value", "channel")
<1> DEFINE f7 == Str("value", "encryption")
<1> DEFINE r1 == One("wifi", {f1})
<1> DEFINE r2 == One("enable", {f2})
<1> DEFINE r3 == One("mode", {f3})
<1> DEFINE r4 == Opening("ap", {})
<1> DEFINE r5 == One("ssid", {f4})
<1> DEFINE r6 == One("passwd", {f5})
<1> DEFINE r7 == One("channel", {f6})
<1> DEFINE r8 == One("encryption", {f7})
<1> DEFINE r9 == Closing("ap")
<1>1. Wifi.rows = <<r1, r2, r3, r4, r5, r6, r7, r8, r9>>
  BY DEF Wifi, Setting
<1>2. /\ r1.tag = "wifi" /\ r1.form = "one" /\ r1.fields = {f1}
      /\ r2.tag = "enable" /\ r2.form = "one" /\ r2.fields = {f2}
      /\ r3.tag = "mode" /\ r3.form = "one" /\ r3.fields = {f3}
      /\ r4.tag = "ap" /\ r4.form = "open" /\ r4.fields = {}
      /\ r5.tag = "ssid" /\ r5.form = "one" /\ r5.fields = {f4}
      /\ r6.tag = "passwd" /\ r6.form = "one" /\ r6.fields = {f5}
      /\ r7.tag = "channel" /\ r7.form = "one" /\ r7.fields = {f6}
      /\ r8.tag = "encryption" /\ r8.form = "one" /\ r8.fields = {f7}
      /\ r9.tag = "ap" /\ r9.form = "close" /\ r9.fields = {}
  BY DEF One, Opening, Closing, Each, Row
<1>3. /\ f1.attr = "valid" /\ f1.name = "has_wifi"
      /\ f2.attr = "value" /\ f2.name = "enabled"
      /\ f3.attr = "value" /\ f3.name = "mode"
      /\ f4.attr = "value" /\ f4.name = "ssid"
      /\ f5.attr = "value" /\ f5.name = "password"
      /\ f6.attr = "value" /\ f6.name = "channel"
      /\ f7.attr = "value" /\ f7.name = "encryption"
  BY DEF Str, Flag, Field
<1>4. /\ f1.kind = "flag"
      /\ f2.kind = "flag"
      /\ f3.kind = "wifi"
      /\ f4.kind = "text"
      /\ f5.kind = "text"
      /\ f6.kind = "text"
      /\ f7.kind = "text"
  BY DEF Str, Flag, Field
<1>5. /\ Fits(f1, f1.default)
      /\ Fits(f2, f2.default)
      /\ Fits(f3, f3.default)
      /\ Fits(f4, f4.default)
      /\ Fits(f5, f5.default)
      /\ Fits(f6, f6.default)
      /\ Fits(f7, f7.default)
  <2>1. Fits(f1, f1.default) /\ Fits(f2, f2.default)
    BY FlagFits
  <2>2. Fits(f3, f3.default)
    BY VariantFits
  <2>3. Fits(f4, f4.default) /\ Fits(f5, f5.default) /\ Fits(f6, f6.default) /\ Fits(f7, f7.default)
    BY StrFits
  <2> QED BY <2>1, <2>2, <2>3
<1> HIDE DEF f1, f2, f3, f4, f5, f6, f7, r1, r2, r3, r4, r5, r6, r7, r8, r9
<1>7. ToSet(Wifi.rows) = {r1, r2, r3, r4, r5, r6, r7, r8, r9}
  BY <1>1 DEF ToSet
<1>8. Read({f1, f2, f3, f4, f5, f6, f7}) = {f1, f2, f3, f4, f5, f6, f7}
  BY <1>4 DEF Read
<1>9. Fitting(Read({f1, f2, f3, f4, f5, f6, f7}))
  BY <1>5, <1>8 DEF Fitting
<1>10. Plain(Wifi.rows) \subseteq {f1, f2, f3, f4, f5, f6, f7}
  BY <1>2, <1>7 DEF Plain
<1>11. Lists(Wifi.rows) = {}
  BY <1>2, <1>7 DEF Lists
<1>12. \A f \in Read(Plain(Wifi.rows)) : f.name \notin Lists(Wifi.rows)
  BY <1>3, <1>4, <1>10, <1>11 DEF Read
<1>13. Alike(Plain(Wifi.rows))
  BY <1>3, <1>10 DEF Alike
<1>14. Fitting(Read(Plain(Wifi.rows)))
  <2>1. Read(Plain(Wifi.rows)) \subseteq Read({f1, f2, f3, f4, f5, f6, f7})
    BY <1>10 DEF Read
  <2> QED BY <1>9, <2>1 DEF Fitting
<1>16. \A r \in ToSet(Wifi.rows) : Alike(r.fields)
  BY <1>2, <1>3, <1>7 DEF Alike
<1>17. \A r \in ToSet(Wifi.rows) : \A f, g \in r.fields : f.attr = g.attr => f = g
  BY <1>2, <1>3, <1>7
<1>18. \A q, r \in ToSet(Wifi.rows) : q.form # "close" /\ r.form # "close" /\ q.tag = r.tag => q = r
  BY <1>2, <1>7
<1>19. \A i \in DOMAIN Wifi.rows : Wifi.rows[i].form # "each"
  <2>1. \A r \in ToSet(Wifi.rows) : r.form # "each"
    BY <1>2, <1>7
  <2> QED BY <2>1 DEF ToSet
<1>20. IsList(Wifi.rows)
  <2>1. <<r1, r2, r3, r4, r5, r6, r7, r8, r9>> \in Seq({r1, r2, r3, r4, r5, r6, r7, r8, r9})
    OBVIOUS
  <2> QED BY <1>1, <2>1, SeqIsList
<1>21. \A r \in ToSet(Wifi.rows) : /\ r.tag \notin {"sdk", "in", "out", "malformed"}
                                   /\ r.form \in {"one", "open", "close", "each"}
                                   /\ r.form = "close" => r.fields = {}
                                   /\ r.form = "each" => Fitting(Read(r.fields))
  BY <1>2, <1>7
<1> QED BY <1>12, <1>13, <1>14, <1>16, <1>17, <1>18, <1>19, <1>20, <1>21 DEF WellMade

\* The table of the server to report to is well made.
LEMMA ServerMade == WellMade(Server.rows)
<1> DEFINE f1 == Str("host", "host")
<1> DEFINE f2 == Field("port", "port", "u16", 10001)
<1> DEFINE r1 == One("server", {f1, f2})
<1>1. Server.rows = <<r1>>
  BY DEF Server, Setting
<1>2. /\ r1.tag = "server" /\ r1.form = "one" /\ r1.fields = {f1, f2}
  BY DEF One, Opening, Closing, Each, Row
<1>3. /\ f1.attr = "host" /\ f1.name = "host"
      /\ f2.attr = "port" /\ f2.name = "port"
  BY DEF Str, Flag, Field
<1>4. /\ f1.kind = "text"
      /\ f2.kind = "u16"
  BY DEF Str, Flag, Field
<1>5. /\ Fits(f1, f1.default)
      /\ Fits(f2, f2.default)
  <2>1. Fits(f1, f1.default)
    BY StrFits
  <2>2. Fits(f2, f2.default)
    BY NumberFits, Widths
  <2> QED BY <2>1, <2>2
<1> HIDE DEF f1, f2, r1
<1>7. ToSet(Server.rows) = {r1}
  BY <1>1 DEF ToSet
<1>8. Read({f1, f2}) = {f1, f2}
  BY <1>4 DEF Read
<1>9. Fitting(Read({f1, f2}))
  BY <1>5, <1>8 DEF Fitting
<1>10. Plain(Server.rows) \subseteq {f1, f2}
  BY <1>2, <1>7 DEF Plain
<1>11. Lists(Server.rows) = {}
  BY <1>2, <1>7 DEF Lists
<1>12. \A f \in Read(Plain(Server.rows)) : f.name \notin Lists(Server.rows)
  BY <1>3, <1>4, <1>10, <1>11 DEF Read
<1>13. Alike(Plain(Server.rows))
  BY <1>3, <1>10 DEF Alike
<1>14. Fitting(Read(Plain(Server.rows)))
  <2>1. Read(Plain(Server.rows)) \subseteq Read({f1, f2})
    BY <1>10 DEF Read
  <2> QED BY <1>9, <2>1 DEF Fitting
<1>16. \A r \in ToSet(Server.rows) : Alike(r.fields)
  BY <1>2, <1>3, <1>7 DEF Alike
<1>17. \A r \in ToSet(Server.rows) : \A f, g \in r.fields : f.attr = g.attr => f = g
  BY <1>2, <1>3, <1>7
<1>18. \A q, r \in ToSet(Server.rows) : q.form # "close" /\ r.form # "close" /\ q.tag = r.tag => q = r
  BY <1>2, <1>7
<1>19. \A i \in DOMAIN Server.rows : Server.rows[i].form # "each"
  <2>1. \A r \in ToSet(Server.rows) : r.form # "each"
    BY <1>2, <1>7
  <2> QED BY <2>1 DEF ToSet
<1>20. IsList(Server.rows)
  <2>1. <<r1>> \in Seq({r1})
    OBVIOUS
  <2> QED BY <1>1, <2>1, SeqIsList
<1>21. \A r \in ToSet(Server.rows) : /\ r.tag \notin {"sdk", "in", "out", "malformed"}
                                     /\ r.form \in {"one", "open", "close", "each"}
                                     /\ r.form = "close" => r.fields = {}
                                     /\ r.form = "each" => Fitting(Read(r.fields))
  BY <1>2, <1>7
<1> QED BY <1>12, <1>13, <1>14, <1>16, <1>17, <1>18, <1>19, <1>20, <1>21 DEF WellMade

\* The table of the switch times is well made.
LEMMA SwitchTimeMade == WellMade(SwitchTime.rows)
<1> DEFINE f1 == Flag("enable", "open_enabled")
<1> DEFINE f2 == Flag("enable", "ploy_enabled")
<1> DEFINE f3 == Field("enable", "enabled", "flag", TRUE)
<1> DEFINE f4 == Str("start", "start")
<1> DEFINE f5 == Str("end", "end")
<1> DEFINE r1 == One("open", {f1})
<1> DEFINE r2 == Opening("ploy", {f2})
<1> DEFINE r3 == Each("item", "items", {f3, f4, f5})
<1> DEFINE r4 == Closing("ploy")
<1>1. SwitchTime.rows = <<r1, r2, r3, r4>>
  BY DEF SwitchTime, Setting
<1>2. /\ r1.tag = "open" /\ r1.form = "one" /\ r1.fields = {f1}
      /\ r2.tag = "ploy" /\ r2.form = "open" /\ r2.fields = {f2}
      /\ r3.tag = "item" /\ r3.form = "each" /\ r3.fields = {f3, f4, f5}
      /\ r4.tag = "ploy" /\ r4.form = "close" /\ r4.fields = {}
      /\ r3.list = "items"
  BY DEF One, Opening, Closing, Each, Row
<1>3. /\ f1.attr = "enable" /\ f1.name = "open_enabled"
      /\ f2.attr = "enable" /\ f2.name = "ploy_enabled"
      /\ f3.attr = "enable" /\ f3.name = "enabled"
      /\ f4.attr = "start" /\ f4.name = "start"
      /\ f5.attr = "end" /\ f5.name = "end"
  BY DEF Str, Flag, Field
<1>4. /\ f1.kind = "flag"
      /\ f2.kind = "flag"
      /\ f3.kind = "flag"
      /\ f4.kind = "text"
      /\ f5.kind = "text"
  BY DEF Str, Flag, Field
<1>5. /\ Fits(f1, f1.default)
      /\ Fits(f2, f2.default)
      /\ Fits(f3, f3.default)
      /\ Fits(f4, f4.default)
      /\ Fits(f5, f5.default)
  <2>1. Fits(f1, f1.default) /\ Fits(f2, f2.default) /\ Fits(f3, f3.default)
    BY FlagFits
  <2>2. Fits(f4, f4.default) /\ Fits(f5, f5.default)
    BY StrFits
  <2> QED BY <2>1, <2>2
<1> HIDE DEF f1, f2, f3, f4, f5, r1, r2, r3, r4
<1>7. ToSet(SwitchTime.rows) = {r1, r2, r3, r4}
  BY <1>1 DEF ToSet
<1>8. Read({f1, f2, f3, f4, f5}) = {f1, f2, f3, f4, f5}
  BY <1>4 DEF Read
<1>9. Fitting(Read({f1, f2, f3, f4, f5}))
  BY <1>5, <1>8 DEF Fitting
<1>10. Plain(SwitchTime.rows) \subseteq {f1, f2}
  BY <1>2, <1>7 DEF Plain
<1>11. Lists(SwitchTime.rows) = {"items"}
  BY <1>2, <1>7 DEF Lists
<1>12. \A f \in Read(Plain(SwitchTime.rows)) : f.name \notin Lists(SwitchTime.rows)
  BY <1>3, <1>4, <1>10, <1>11 DEF Read
<1>13. Alike(Plain(SwitchTime.rows))
  BY <1>3, <1>10 DEF Alike
<1>14. Fitting(Read(Plain(SwitchTime.rows)))
  <2>1. Read(Plain(SwitchTime.rows)) \subseteq Read({f1, f2, f3, f4, f5})
    BY <1>10 DEF Read
  <2> QED BY <1>9, <2>1 DEF Fitting
<1>15. Fitting(Read(r3.fields))
  <2>1. Read(r3.fields) \subseteq Read({f1, f2, f3, f4, f5})
    BY <1>2 DEF Read
  <2> QED BY <1>9, <2>1 DEF Fitting
<1>16. \A r \in ToSet(SwitchTime.rows) : Alike(r.fields)
  BY <1>2, <1>3, <1>7 DEF Alike
<1>17. \A r \in ToSet(SwitchTime.rows) : \A f, g \in r.fields : f.attr = g.attr => f = g
  BY <1>2, <1>3, <1>7
<1>18. \A q, r \in ToSet(SwitchTime.rows) : q.form # "close" /\ r.form # "close" /\ q.tag = r.tag => q = r
  BY <1>2, <1>7
<1>19. \A i, j \in DOMAIN SwitchTime.rows : SwitchTime.rows[i].form = "each" /\ SwitchTime.rows[j].form = "each" => i = j
  <2>1. DOMAIN SwitchTime.rows = 1..4
    BY <1>1
  <2>2. \A i \in 1..4 : SwitchTime.rows[i].form = "each" => i = 3
    BY <1>1, <1>2
  <2> QED BY <2>1, <2>2
<1>20. IsList(SwitchTime.rows)
  <2>1. <<r1, r2, r3, r4>> \in Seq({r1, r2, r3, r4})
    OBVIOUS
  <2> QED BY <1>1, <2>1, SeqIsList
<1>21. \A r \in ToSet(SwitchTime.rows) : /\ r.tag \notin {"sdk", "in", "out", "malformed"}
                                         /\ r.form \in {"one", "open", "close", "each"}
                                         /\ r.form = "close" => r.fields = {}
                                         /\ r.form = "each" => Fitting(Read(r.fields))
  BY <1>2, <1>7, <1>15
<1> QED BY <1>12, <1>13, <1>14, <1>16, <1>17, <1>18, <1>19, <1>20, <1>21 DEF WellMade

\* The table of the clock is well made.
LEMMA TimeMade == WellMade(Time.rows)
<1> DEFINE f1 == Str("value", "timezone")
<1> DEFINE f2 == Flag("enable", "summer")
<1> DEFINE f3 == Str("value", "sync")
<1> DEFINE f4 == Str("value", "time")
<1> DEFINE r1 == One("timezone", {f1})
<1> DEFINE r2 == One("summer", {f2})
<1> DEFINE r3 == One("sync", {f3})
<1> DEFINE r4 == One("time", {f4})
<1>1. Time.rows = <<r1, r2, r3, r4>>
  BY DEF Time, Setting
<1>2. /\ r1.tag = "timezone" /\ r1.form = "one" /\ r1.fields = {f1}
      /\ r2.tag = "summer" /\ r2.form = "one" /\ r2.fields = {f2}
      /\ r3.tag = "sync" /\ r3.form = "one" /\ r3.fields = {f3}
      /\ r4.tag = "time" /\ r4.form = "one" /\ r4.fields = {f4}
  BY DEF One, Opening, Closing, Each, Row
<1>3. /\ f1.attr = "value" /\ f1.name = "timezone"
      /\ f2.attr = "enable" /\ f2.name = "summer"
      /\ f3.attr = "value" /\ f3.name = "sync"
      /\ f4.attr = "value" /\ f4.name = "time"
  BY DEF Str, Flag, Field
<1>4. /\ f1.kind = "text"
      /\ f2.kind = "flag"
      /\ f3.kind = "text"
      /\ f4.kind = "text"
  BY DEF Str, Flag, Field
<1>5. /\ Fits(f1, f1.default)
      /\ Fits(f2, f2.default)
      /\ Fits(f3, f3.default)
      /\ Fits(f4, f4.default)
  <2>1. Fits(f1, f1.default) /\ Fits(f3, f3.default) /\ Fits(f4, f4.default)
    BY StrFits
  <2>2. Fits(f2, f2.default)
    BY FlagFits
  <2> QED BY <2>1, <2>2
<1> HIDE DEF f1, f2, f3, f4, r1, r2, r3, r4
<1>7. ToSet(Time.rows) = {r1, r2, r3, r4}
  BY <1>1 DEF ToSet
<1>8. Read({f1, f2, f3, f4}) = {f1, f2, f3, f4}
  BY <1>4 DEF Read
<1>9. Fitting(Read({f1, f2, f3, f4}))
  BY <1>5, <1>8 DEF Fitting
<1>10. Plain(Time.rows) \subseteq {f1, f2, f3, f4}
  BY <1>2, <1>7 DEF Plain
<1>11. Lists(Time.rows) = {}
  BY <1>2, <1>7 DEF Lists
<1>12. \A f \in Read(Plain(Time.rows)) : f.name \notin Lists(Time.rows)
  BY <1>3, <1>4, <1>10, <1>11 DEF Read
<1>13. Alike(Plain(Time.rows))
  BY <1>3, <1>10 DEF Alike
<1>14. Fitting(Read(Plain(Time.rows)))
  <2>1. Read(Plain(Time.rows)) \subseteq Read({f1, f2, f3, f4})
    BY <1>10 DEF Read
  <2> QED BY <1>9, <2>1 DEF Fitting
<1>16. \A r \in ToSet(Time.rows) : Alike(r.fields)
  BY <1>2, <1>3, <1>7 DEF Alike
<1>17. \A r \in ToSet(Time.rows) : \A f, g \in r.fields : f.attr = g.attr => f = g
  BY <1>2, <1>3, <1>7
<1>18. \A q, r \in ToSet(Time.rows) : q.form # "close" /\ r.form # "close" /\ q.tag = r.tag => q = r
  BY <1>2, <1>7
<1>19. \A i \in DOMAIN Time.rows : Time.rows[i].form # "each"
  <2>1. \A r \in ToSet(Time.rows) : r.form # "each"
    BY <1>2, <1>7
  <2> QED BY <2>1 DEF ToSet
<1>20. IsList(Time.rows)
  <2>1. <<r1, r2, r3, r4>> \in Seq({r1, r2, r3, r4})
    OBVIOUS
  <2> QED BY <1>1, <2>1, SeqIsList
<1>21. \A r \in ToSet(Time.rows) : /\ r.tag \notin {"sdk", "in", "out", "malformed"}
                                   /\ r.form \in {"one", "open", "close", "each"}
                                   /\ r.form = "close" => r.fields = {}
                                   /\ r.form = "each" => Fitting(Read(r.fields))
  BY <1>2, <1>7
<1> QED BY <1>12, <1>13, <1>14, <1>16, <1>17, <1>18, <1>19, <1>20, <1>21 DEF WellMade

\* The table of the device info is well made.
LEMMA DeviceInfoMade == WellMade(DeviceInfo.rows)
<1> DEFINE f1 == Str("cpu", "cpu")
<1> DEFINE f2 == Str("model", "model")
<1> DEFINE f3 == Str("id", "device_id")
<1> DEFINE f4 == Str("name", "device_name")
<1> DEFINE f5 == Str("fpga", "fpga_version")
<1> DEFINE f6 == Str("app", "app_version")
<1> DEFINE f7 == Str("kernel", "kernel_version")
<1> DEFINE f8 == Field("width", "screen_width", "u32", 0)
<1> DEFINE f9 == Field("height", "screen_height", "u32", 0)
<1> DEFINE f10 == Field("rotation", "screen_rotation", "u32", 0)
<1> DEFINE r1 == One("device", {f1, f2, f3, f4})
<1> DEFINE r2 == One("version", {f5, f6, f7})
<1> DEFINE r3 == One("screen", {f8, f9, f10})
<1>1. DeviceInfo.rows = <<r1, r2, r3>>
  BY DEF DeviceInfo, Setting
<1>2. /\ r1.tag = "device" /\ r1.form = "one" /\ r1.fields = {f1, f2, f3, f4}
      /\ r2.tag = "version" /\ r2.form = "one" /\ r2.fields = {f5, f6, f7}
      /\ r3.tag = "screen" /\ r3.form = "one" /\ r3.fields = {f8, f9, f10}
  BY DEF One, Opening, Closing, Each, Row
<1>3. /\ f1.attr = "cpu" /\ f1.name = "cpu"
      /\ f2.attr = "model" /\ f2.name = "model"
      /\ f3.attr = "id" /\ f3.name = "device_id"
      /\ f4.attr = "name" /\ f4.name = "device_name"
      /\ f5.attr = "fpga" /\ f5.name = "fpga_version"
      /\ f6.attr = "app" /\ f6.name = "app_version"
      /\ f7.attr = "kernel" /\ f7.name = "kernel_version"
      /\ f8.attr = "width" /\ f8.name = "screen_width"
      /\ f9.attr = "height" /\ f9.name = "screen_height"
      /\ f10.attr = "rotation" /\ f10.name = "screen_rotation"
  BY DEF Str, Flag, Field
<1>4. /\ f1.kind = "text"
      /\ f2.kind = "text"
      /\ f3.kind = "text"
      /\ f4.kind = "text"
      /\ f5.kind = "text"
      /\ f6.kind = "text"
      /\ f7.kind = "text"
      /\ f8.kind = "u32"
      /\ f9.kind = "u32"
      /\ f10.kind = "u32"
  BY DEF Str, Flag, Field
<1>5. /\ Fits(f1, f1.default)
      /\ Fits(f2, f2.default)
      /\ Fits(f3, f3.default)
      /\ Fits(f4, f4.default)
      /\ Fits(f5, f5.default)
      /\ Fits(f6, f6.default)
      /\ Fits(f7, f7.default)
      /\ Fits(f8, f8.default)
      /\ Fits(f9, f9.default)
      /\ Fits(f10, f10.default)
  <2>1. Fits(f1, f1.default) /\ Fits(f2, f2.default) /\ Fits(f3, f3.default) /\ Fits(f4, f4.default) /\ Fits(f5, f5.default) /\ Fits(f6, f6.default) /\ Fits(f7, f7.default)
    BY StrFits
  <2>2. Fits(f8, f8.default) /\ Fits(f9, f9.default) /\ Fits(f10, f10.default)
    BY NumberFits, Widths
  <2> QED BY <2>1, <2>2
<1> HIDE DEF f1, f2, f3, f4, f5, f6, f7, f8, f9, f10, r1, r2, r3
<1>7. ToSet(DeviceInfo.rows) = {r1, r2, r3}
  BY <1>1 DEF ToSet
<1>8. Read({f1, f2, f3, f4, f5, f6, f7, f8, f9, f10}) = {f1, f2, f3, f4, f5, f6, f7, f8, f9, f10}
  BY <1>4 DEF Read
<1>9. Fitting(Read({f1, f2, f3, f4, f5, f6, f7, f8, f9, f10}))
  BY <1>5, <1>8 DEF Fitting
<1>10. Plain(DeviceInfo.rows) \subseteq {f1, f2, f3, f4, f5, f6, f7, f8, f9, f10}
  BY <1>2, <1>7 DEF Plain
<1>11. Lists(DeviceInfo.rows) = {}
  BY <1>2, <1>7 DEF Lists
<1>12. \A f \in Read(Plain(DeviceInfo.rows)) : f.name \notin Lists(DeviceInfo.rows)
  BY <1>3, <1>4, <1>10, <1>11 DEF Read
<1>13. Alike(Plain(DeviceInfo.rows))
  BY <1>3, <1>10 DEF Alike
<1>14. Fitting(Read(Plain(DeviceInfo.rows)))
  <2>1. Read(Plain(DeviceInfo.rows)) \subseteq Read({f1, f2, f3, f4, f5, f6, f7, f8, f9, f10})
    BY <1>10 DEF Read
  <2> QED BY <1>9, <2>1 DEF Fitting
<1>16. \A r \in ToSet(DeviceInfo.rows) : Alike(r.fields)
  BY <1>2, <1>3, <1>7 DEF Alike
<1>17. \A r \in ToSet(DeviceInfo.rows) : \A f, g \in r.fields : f.attr = g.attr => f = g
  BY <1>2, <1>3, <1>7
<1>18. \A q, r \in ToSet(DeviceInfo.rows) : q.form # "close" /\ r.form # "close" /\ q.tag = r.tag => q = r
  BY <1>2, <1>7
<1>19. \A i \in DOMAIN DeviceInfo.rows : DeviceInfo.rows[i].form # "each"
  <2>1. \A r \in ToSet(DeviceInfo.rows) : r.form # "each"
    BY <1>2, <1>7
  <2> QED BY <2>1 DEF ToSet
<1>20. IsList(DeviceInfo.rows)
  <2>1. <<r1, r2, r3>> \in Seq({r1, r2, r3})
    OBVIOUS
  <2> QED BY <1>1, <2>1, SeqIsList
<1>21. \A r \in ToSet(DeviceInfo.rows) : /\ r.tag \notin {"sdk", "in", "out", "malformed"}
                                         /\ r.form \in {"one", "open", "close", "each"}
                                         /\ r.form = "close" => r.fields = {}
                                         /\ r.form = "each" => Fitting(Read(r.fields))
  BY <1>2, <1>7
<1> QED BY <1>12, <1>13, <1>14, <1>16, <1>17, <1>18, <1>19, <1>20, <1>21 DEF WellMade

-----------------------------------------------------------------------------
(* What is read out of a body fits.                                        *)

\* The field of that name.
LEMMA OfName ==
  ASSUME NEW fields, Alike(fields), NEW f \in fields
  PROVE  Of(fields, LAMBDA g : g.name = f.name) = f
<1>1. \E g \in fields : g.name = f.name
  OBVIOUS
<1>2. (CHOOSE g \in fields : g.name = f.name) \in fields
      /\ (CHOOSE g \in fields : g.name = f.name).name = f.name
  BY <1>1
<1> QED BY <1>2 DEF Of, Alike

\* The defaults of fields.
LEMMA DefaultOf ==
  ASSUME NEW fields, Alike(fields), NEW f \in Read(fields)
  PROVE  f.name \in DOMAIN Defaults(fields) /\ Defaults(fields)[f.name] = f.default
<1>1. f \in fields
  BY DEF Read
<1>2. Of(fields, LAMBDA g : g.name = f.name) = f
  BY <1>1, OfName
<1> QED BY <1>2 DEF Defaults

\* The default of a struct: the defaults of its fields, and empty lists.
LEMMA DefaultFields ==
  ASSUME NEW rows, WellMade(rows)
  PROVE  /\ DOMAIN Default(rows) = {f.name : f \in Read(Plain(rows))} \cup Lists(rows)
         /\ \A f \in Read(Plain(rows)) : /\ f.name \in DOMAIN Default(rows)
                                         /\ Default(rows)[f.name] = f.default
         /\ \A list \in Lists(rows) : list \in DOMAIN Default(rows) /\ Default(rows)[list] = <<>>
<1> DEFINE plain == Defaults(Plain(rows))
<1>1. Default(rows) = [name \in DOMAIN plain \cup Lists(rows) |->
                         IF name \in Lists(rows) THEN <<>> ELSE plain[name]]
  BY DEF Default
<1>2. \A f \in Read(Plain(rows)) : f.name \in DOMAIN plain /\ plain[f.name] = f.default
  BY DefaultOf DEF WellMade
<1>3. \A f \in Read(Plain(rows)) : f.name \notin Lists(rows)
  BY DEF WellMade
<1>4. DOMAIN plain = {f.name : f \in Read(Plain(rows))}
  BY DEF Defaults
<1> HIDE DEF plain
<1> QED BY <1>1, <1>2, <1>3, <1>4

\* What is read out of an attribute is a value of its field.
LEMMA TextFits ==
  ASSUME NEW f, Fits(f, f.default), NEW text, text # Absent
  PROVE  Fits(f, FromText(f, text))
<1>1. CASE f.kind = "flag"
  <2>1. FromText(f, text) = ParseBool(text)
    BY <1>1 DEF FromText, Integral
  <2>2. FromText(f, text) \in BOOLEAN
    BY <2>1 DEF ParseBool
  <2> QED BY <1>1, <2>2 DEF Fits, Integral
<1>2. CASE f.kind \in Integral
  <2>1. FromText(f, text) = ParseIntOr(f.kind, text, f.default)
    BY <1>2 DEF FromText, Integral
  <2>2. f.default \in Numbers \cap Values(f.kind)
    BY <1>2 DEF Fits, Integral
  <2>3. (\E n \in Numbers \cap Values(f.kind) : Spells(text, n)) =>
          (CHOOSE n \in Numbers \cap Values(f.kind) : Spells(text, n))
             \in Numbers \cap Values(f.kind)
    BY Zenon
  <2>4. FromText(f, text) \in Numbers \cap Values(f.kind)
    BY <2>1, <2>2, <2>3, Zenon DEF ParseIntOr
  <2> QED BY <1>2, <2>4 DEF Fits, Integral
<1>3. CASE f.kind = "luminance"
  <2>1. FromText(f, text) \in {"Fixed", "Scheduled", "Sensor"}
    BY <1>3 DEF FromText, Integral, ParseLuminance
  <2>2. DOMAIN LuminanceModes = {"Fixed", "Scheduled", "Sensor"}
    BY DEF LuminanceModes
  <2> QED BY <1>3, <2>1, <2>2 DEF Fits, Integral
<1>4. CASE f.kind = "wifi"
  <2>1. FromText(f, text) \in {"Ap", "Station"}
    BY <1>4 DEF FromText, Integral, ParseWifi
  <2>2. DOMAIN WifiModes = {"Ap", "Station"}
    BY DEF WifiModes
  <2> QED BY <1>4, <2>1, <2>2 DEF Fits, Integral
<1>5. CASE f.kind \notin {"flag", "luminance", "wifi"} \cup Integral
  <2>1. FromText(f, text) = text
    BY <1>5 DEF FromText
  <2> QED BY <1>5, <2>1 DEF Fits
<1> QED BY <1>1, <1>2, <1>3, <1>4, <1>5

\* What an element names is a value of its field ...
LEMMA NamedFits ==
  ASSUME NEW fields, Alike(fields), NEW values, NEW e, NEW f \in Read(fields),
         Fits(f, f.default), f.name \in DOMAIN values, Fits(f, values[f.name])
  PROVE  Fits(f, Named(fields, values, e)[f.name])
<1>1. f \in fields
  BY DEF Read
<1>2. Of(fields, LAMBDA g : g.name = f.name) = f
  BY <1>1, OfName
<1>3. (\E g \in Read(fields) : g.name = f.name /\ Attr(e, g.attr) # Absent) => Attr(e, f.attr) # Absent
  BY <1>1 DEF Read, Alike
<1>4. Attr(e, f.attr) # Absent => Fits(f, FromText(f, Attr(e, f.attr)))
  BY TextFits
<1>5. Named(fields, values, e)[f.name] =
        IF \E g \in Read(fields) : g.name = f.name /\ Attr(e, g.attr) # Absent
        THEN FromText(f, Attr(e, f.attr)) ELSE values[f.name]
  BY <1>2 DEF Named
<1> QED BY <1>3, <1>4, <1>5

\* ... and what it does not name stays.
LEMMA NamedStays ==
  ASSUME NEW fields, NEW values, NEW e, NEW name \in DOMAIN values,
         \A f \in Read(fields) : f.name # name
  PROVE  Named(fields, values, e)[name] = values[name]
BY DEF Named

\* A list with one member more.
LEMMA AppendIsList ==
  ASSUME NEW s, IsList(s), NEW x
  PROVE  IsList(Append(s, x)) /\ ToSet(Append(s, x)) \subseteq ToSet(s) \cup {x}
<1> DEFINE S == ToSet(s) \cup {x}
<1>1. s \in Seq(S)
  <2>1. s \in Seq(ToSet(s)) /\ ToSet(s) \subseteq S
    BY DEF IsList
  <2> HIDE DEF S
  <2> QED BY <2>1
<1>2. x \in S
  OBVIOUS
<1> HIDE DEF S
<1>3. Append(s, x) \in Seq(S)
  BY <1>1, <1>2
<1>4. IsList(Append(s, x)) /\ ToSet(Append(s, x)) \subseteq S
  BY <1>3, SeqIsList
<1> QED BY <1>4 DEF S

\* What an element of a list says has the fields of its row.
LEMMA ItemHasFields ==
  ASSUME NEW fields, Alike(fields), Fitting(Read(fields)), NEW e
  PROVE  HasFields(fields, Named(fields, Defaults(fields), e))
<1> DEFINE item == Named(fields, Defaults(fields), e)
<1>1. DOMAIN Defaults(fields) = {f.name : f \in Read(fields)}
  BY DEF Defaults
<1>2. item = [name \in {f.name : f \in Read(fields)} |-> item[name]]
  BY <1>1 DEF Named
<1>3. ASSUME NEW f \in Read(fields) PROVE Fits(f, item[f.name])
  <2>1. f.name \in DOMAIN Defaults(fields) /\ Defaults(fields)[f.name] = f.default
    BY DefaultOf
  <2>2. Fits(f, f.default)
    BY DEF Fitting
  <2> QED BY <2>1, <2>2, NamedFits
<1> HIDE DEF item
<1>4. HasFields(fields, item)
  BY <1>2, <1>3 DEF HasFields
<1> QED BY <1>4 DEF item

\* Defaults are an info, before anything is read.
LEMMA DefaultIsInfo ==
  ASSUME NEW rows, WellMade(rows)
  PROVE  IsInfo(rows, Default(rows))
<1> DEFINE d == Default(rows)
<1>1. d = [name \in DOMAIN d |-> d[name]]
  BY DEF Default
<1>2. \A f \in Read(Plain(rows)) : Fits(f, d[f.name])
  BY DefaultFields DEF WellMade, Fitting
<1>3. \A list \in Lists(rows) : d[list] = <<>>
  BY DefaultFields
<1>4. IsList(<<>>) /\ ToSet(<<>>) = {}
  <2>1. <<>> \in Seq({}) /\ DOMAIN <<>> = {}
    OBVIOUS
  <2>2. IsList(<<>>)
    BY <2>1, SeqIsList
  <2> QED BY <2>1, <2>2 DEF ToSet
<1>5. \A row \in ToSet(rows) : row.form = "each" => row.list \in Lists(rows)
  BY DEF Lists
<1> QED BY <1>1, <1>2, <1>3, <1>4, <1>5 DEF IsInfo

\* One element more keeps it an info.
LEMMA ReadIsInfo ==
  ASSUME NEW rows, WellMade(rows), NEW info, IsInfo(rows, info), NEW e
  PROVE  IsInfo(rows, ReadElement(rows, info, e))
<1> DEFINE row == CHOOSE r \in ToSet(rows) : r.tag = e.tag /\ r.form # "close"
<1> DEFINE new == ReadElement(rows, info, e)
<1>1. /\ info = [name \in DOMAIN info |-> info[name]]
      /\ DOMAIN info = DOMAIN Default(rows)
      /\ \A f \in Read(Plain(rows)) : Fits(f, info[f.name])
      /\ \A q \in ToSet(rows) : q.form = "each" =>
            IsList(info[q.list]) /\ \A item \in ToSet(info[q.list]) : HasFields(q.fields, item)
  <2>1. info = [name \in DOMAIN Default(rows) |-> info[name]]
    BY DEF IsInfo
  <2>2. DOMAIN info = DOMAIN Default(rows)
    BY <2>1
  <2> QED BY <2>1, <2>2 DEF IsInfo
<1>2. /\ DOMAIN Default(rows) = {f.name : f \in Read(Plain(rows))} \cup Lists(rows)
      /\ \A f \in Read(Plain(rows)) : f.name \in DOMAIN info
      /\ \A l \in Lists(rows) : l \in DOMAIN info
  BY <1>1, DefaultFields
<1>3. CASE ~\E r \in ToSet(rows) : r.tag = e.tag /\ r.form # "close"
  BY <1>3 DEF ReadElement
<1>4. CASE (\E r \in ToSet(rows) : r.tag = e.tag /\ r.form # "close") /\ row.form = "each"
  <2> DEFINE item == Named(row.fields, Defaults(row.fields), e)
  <2> DEFINE list == row.list
  <2>1. row \in ToSet(rows) /\ list \in Lists(rows)
    BY <1>4 DEF Lists
  <2>2. new = [info EXCEPT ![list] = Append(info[list], item)]
    BY <1>4 DEF ReadElement
  <2>3. Alike(row.fields) /\ Fitting(Read(row.fields))
    BY <1>4, <2>1 DEF WellMade
  <2>4. \A q \in ToSet(rows) : q.form = "each" => q = row
    BY <1>4, <2>1 DEF WellMade, ToSet
  <2>5. HasFields(row.fields, item)
    BY <2>3, ItemHasFields
  <2>6. list \in DOMAIN info
    BY <1>2, <2>1
  <2>7. row.list = list
    OBVIOUS
  <2> HIDE DEF row, item, new, list
  <2>8. IsList(info[list]) /\ \A i \in ToSet(info[list]) : HasFields(row.fields, i)
    BY <1>1, <1>4, <2>1, <2>7
  <2>9. IsList(Append(info[list], item))
        /\ ToSet(Append(info[list], item)) \subseteq ToSet(info[list]) \cup {item}
    BY <2>8, AppendIsList
  <2>10. /\ new = [name \in DOMAIN info |-> new[name]]
         /\ new[list] = Append(info[list], item)
         /\ \A l \in DOMAIN info \ {list} : new[l] = info[l]
    BY <2>2, <2>6
  <2>11. \A f \in Read(Plain(rows)) : Fits(f, new[f.name])
    <3>1. \A f \in Read(Plain(rows)) : f.name # list
      BY <2>1 DEF WellMade
    <3> QED BY <1>1, <1>2, <2>10, <3>1
  <2>12. IsList(new[list]) /\ \A i \in ToSet(new[list]) : HasFields(row.fields, i)
    BY <2>5, <2>8, <2>9, <2>10
  <2>13. IsInfo(rows, new)
    BY <1>1, <2>4, <2>7, <2>10, <2>11, <2>12 DEF IsInfo
  <2> QED BY <2>13 DEF new
<1>5. CASE (\E r \in ToSet(rows) : r.tag = e.tag /\ r.form # "close") /\ row.form # "each"
  <2>1. row \in ToSet(rows)
    BY <1>5
  <2>2. new = Named(row.fields, info, e)
    BY <1>5 DEF ReadElement
  <2>3. row.fields \subseteq Plain(rows)
    BY <1>5, <2>1 DEF Plain
  <2>4. Alike(row.fields)
    BY <2>1 DEF WellMade
  <2> HIDE DEF row, new
  <2>5. Read(row.fields) \subseteq Read(Plain(rows))
    BY <2>3 DEF Read
  <2>6. new = [name \in DOMAIN info |-> new[name]]
    BY <2>2 DEF Named
  <2>7. ASSUME NEW l \in Lists(rows) PROVE new[l] = info[l]
    <3>1. l \in DOMAIN info
      BY <1>2
    <3>2. \A f \in Read(row.fields) : f.name # l
      BY <2>5 DEF WellMade
    <3> QED BY <2>2, <3>1, <3>2, NamedStays
  <2>8. ASSUME NEW f \in Read(Plain(rows)) PROVE Fits(f, new[f.name])
    <3>1. f.name \in DOMAIN info /\ Fits(f, info[f.name])
      BY <1>1, <1>2
    <3>2. Fits(f, f.default)
      BY DEF WellMade, Fitting
    <3>3. CASE \E g \in Read(row.fields) : g.name = f.name
      <4>1. PICK g \in Read(row.fields) : g.name = f.name
        BY <3>3
      <4>2. g = f
        BY <2>5, <4>1 DEF WellMade, Alike, Read
      <4> QED BY <2>2, <2>4, <3>1, <3>2, <4>1, <4>2, NamedFits
    <3>4. CASE ~\E g \in Read(row.fields) : g.name = f.name
      <4>1. new[f.name] = info[f.name]
        BY <2>2, <3>1, <3>4, NamedStays
      <4> QED BY <3>1, <4>1
    <3> QED BY <3>3, <3>4
  <2>9. \A q \in ToSet(rows) : q.form = "each" => new[q.list] = info[q.list]
    BY <2>7 DEF Lists
  <2>10. IsInfo(rows, new)
    BY <1>1, <2>6, <2>8, <2>9 DEF IsInfo
  <2> QED BY <2>10 DEF new
<1> QED BY <1>3, <1>4, <1>5

\* Whatever a document says, what parse_body makes of it is of the type of the struct:
\* it has its fields and no other, every number fits the field it is in, every mode is
\* one of its variants, and the members of the lists have the fields of theirs.
THEOREM BodyIsShaped ==
  ASSUME NEW rows, WellMade(rows), NEW doc, Len(doc) \in Nat
  PROVE  IsInfo(rows, ParseBody(rows, doc))
<1> DEFINE n == Len(doc)
<1>1. PICK f : Reads(f, n, rows, doc) /\ ParseBody(rows, doc) = f[n]
  BY ParseSteps
<1> DEFINE S == {k \in Nat : k <= n => IsInfo(rows, f[k])}
<1>2. 0 \in S
  BY <1>1, DefaultIsInfo DEF Reads
<1>3. ASSUME NEW k \in Nat, k \in S PROVE k + 1 \in S
  <2> SUFFICES ASSUME k + 1 <= n PROVE IsInfo(rows, f[k + 1])
    OBVIOUS
  <2>1. k + 1 \in 1..n /\ (k + 1) - 1 = k /\ IsInfo(rows, f[k])
    BY <1>3
  <2>2. f[k + 1] = IF IsElement(doc[k + 1]) THEN ReadElement(rows, f[k], doc[k + 1]) ELSE f[k]
    BY <1>1, <2>1 DEF Reads
  <2>3. IsInfo(rows, ReadElement(rows, f[k], doc[k + 1]))
    BY <2>1, ReadIsInfo
  <2> QED BY <2>1, <2>2, <2>3
<1> HIDE DEF S
<1>4. n \in S
  BY <1>2, <1>3, Induction
<1> QED BY <1>1, <1>4 DEF S

-----------------------------------------------------------------------------
(* What is written is read back.                                           *)

\* A value that fits its field is written as a text that reads as that value.
LEMMA ValueBack ==
  ASSUME NEW f, NEW value, Fits(f, value)
  PROVE  ToText(f.kind, value) # Absent /\ FromText(f, ToText(f.kind, value)) = value
<1> DEFINE text == ToText(f.kind, value)
<1>1. CASE f.kind = "flag"
  <2>1. value \in BOOLEAN
    BY <1>1 DEF Fits, Integral
  <2>2. text = BoolStr(value) /\ FromText(f, text) = ParseBool(text)
    BY <1>1 DEF ToText, FromText, Integral
  <2> HIDE DEF text
  <2>3. CASE value = TRUE
    <3>1. text = "true"
      BY <2>2, <2>3 DEF BoolStr
    <3>2. ParseBool(text) = TRUE
      BY <3>1 DEF ParseBool
    <3> QED BY <2>2, <2>3, <3>1, <3>2 DEF text, Absent
  <2>4. CASE value = FALSE
    <3>1. text = "false"
      BY <2>2, <2>4 DEF BoolStr
    <3>2. ParseBool(text) = FALSE
      BY <3>1 DEF ParseBool
    <3> QED BY <2>2, <2>4, <3>1, <3>2 DEF text, Absent
  <2> QED BY <2>1, <2>3, <2>4
<1>2. CASE f.kind \in Integral
  <2>1. value \in Numbers \cap Values(f.kind)
    BY <1>2 DEF Fits, Integral
  <2>2. FromText(f, text) = ParseIntOr(f.kind, text, f.default)
    BY <1>2 DEF FromText, Integral
  <2>3. text = ToString(value)
    <3>1. f.kind # "flag" /\ f.kind # "luminance" /\ f.kind # "wifi"
      BY <1>2 DEF Integral
    <3> QED BY <1>2, <3>1, Zenon DEF ToText
  <2> HIDE DEF text
  <2>4. text # Absent
    BY <2>1, <2>3, TextAssumption, Zenon
  <2>5. \E n \in Numbers \cap Values(f.kind) : Spells(text, n)
    BY <2>1, <2>3, Zenon DEF Spells
  <2> DEFINE found == CHOOSE n \in Numbers \cap Values(f.kind) : Spells(text, n)
  <2>6. found \in Numbers \cap Values(f.kind) /\ Spells(text, found)
    BY <2>5, Zenon
  <2>7. ParseIntOr(f.kind, text, f.default) = found
    BY <2>5, Zenon DEF ParseIntOr
  <2> HIDE DEF found
  <2>8. found = value
    <3>1. CASE text = ToString(found)
      BY <2>1, <2>3, <2>6, <3>1, TextAssumption, Zenon
    <3>2. CASE <<text, found>> \in Spellings
      <4>1. <<text, found>>[1] = text /\ <<text, found>>[2] = found
        OBVIOUS
      <4>2. Spells(text, value)
        BY <2>3 DEF Spells
      <4> QED BY <2>1, <3>2, <4>1, <4>2, TextAssumption, Zenon
    <3> QED BY <2>6, <3>1, <3>2 DEF Spells
  <2>9. text # Absent /\ FromText(f, text) = value
    BY <2>2, <2>4, <2>7, <2>8
  <2> QED BY <2>9 DEF text
<1>3. CASE f.kind = "luminance"
  <2>1. value \in {"Fixed", "Scheduled", "Sensor"}
    BY <1>3 DEF Fits, Integral, LuminanceModes
  <2>2. text = LuminanceModes[value] /\ FromText(f, text) = ParseLuminance(text)
    BY <1>3 DEF ToText, FromText, Integral
  <2>3. /\ LuminanceModes["Fixed"] = "default" /\ LuminanceModes["Scheduled"] = "ploys"
        /\ LuminanceModes["Sensor"] = "sensor"
    BY DEF LuminanceModes
  <2> HIDE DEF text
  <2>4. text # Absent /\ ParseLuminance(text) = value
    BY <2>1, <2>2, <2>3 DEF ParseLuminance, Absent
  <2> QED BY <2>2, <2>4 DEF text
<1>4. CASE f.kind = "wifi"
  <2>1. value \in {"Ap", "Station"}
    BY <1>4 DEF Fits, Integral, WifiModes
  <2>2. text = WifiModes[value] /\ FromText(f, text) = ParseWifi(text)
    BY <1>4 DEF ToText, FromText, Integral
  <2>3. WifiModes["Ap"] = "ap" /\ WifiModes["Station"] = "station"
    BY DEF WifiModes
  <2> HIDE DEF text
  <2>4. text # Absent /\ ParseWifi(text) = value
    BY <2>1, <2>2, <2>3 DEF ParseWifi, Absent
  <2> QED BY <2>2, <2>4 DEF text
<1>5. CASE f.kind \notin {"flag", "luminance", "wifi"} \cup Integral
  <2>1. value # Absent
    BY <1>5 DEF Fits
  <2>2. text = value
    BY <1>5 DEF ToText
  <2> HIDE DEF text
  <2>3. FromText(f, text) = text
    BY <1>5 DEF FromText
  <2> QED BY <2>1, <2>2, <2>3 DEF text
<1> QED BY <1>1, <1>2, <1>3, <1>4, <1>5

\* Attributes of one name are one field.
Distinct(fields) == \A f, g \in fields : f.attr = g.attr => f = g

\* An attribute of a field holds the text of its value.
LEMMA AttrWritten ==
  ASSUME NEW fields, Distinct(fields), NEW values, NEW e, e.attrs = Attributes(fields, values),
         NEW f \in Read(fields)
  PROVE  Attr(e, f.attr) = ToText(f.kind, values[f.name])
<1>1. f \in fields /\ f.kind # "fixed"
  BY DEF Read
<1>2. Of(fields, LAMBDA g : g.attr = f.attr) = f
  <2>1. (CHOOSE g \in fields : g.attr = f.attr) \in fields
        /\ (CHOOSE g \in fields : g.attr = f.attr).attr = f.attr
    BY <1>1
  <2> QED BY <1>1, <2>1 DEF Of, Distinct
<1> DEFINE a == Attributes(fields, values)
<1>3. f.attr \in DOMAIN a /\ a[f.attr] = ToText(f.kind, values[f.name])
  BY <1>1, <1>2 DEF Attributes
<1> HIDE DEF a
<1> QED BY <1>3 DEF Attr, a

\* What is read of an element that was written: the values of its fields, and what
\* there was of the others.
LEMMA NamedBack ==
  ASSUME NEW fields, Alike(fields), Distinct(fields), NEW values, NEW e,
         e.attrs = Attributes(fields, values),
         \A f \in Read(fields) : Fits(f, values[f.name]), NEW before
  PROVE  Named(fields, before, e) = [name \in DOMAIN before |->
           IF name \in {f.name : f \in Read(fields)} THEN values[name] ELSE before[name]]
<1>1. ASSUME NEW f \in Read(fields), f.name \in DOMAIN before
      PROVE  Named(fields, before, e)[f.name] = values[f.name]
  <2>1. Of(fields, LAMBDA g : g.name = f.name) = f
    BY OfName DEF Read
  <2>2. Attr(e, f.attr) = ToText(f.kind, values[f.name])
    BY AttrWritten
  <2>3. Attr(e, f.attr) # Absent /\ FromText(f, Attr(e, f.attr)) = values[f.name]
    BY <2>2, ValueBack
  <2>4. Named(fields, before, e)[f.name] =
          IF \E g \in Read(fields) : g.name = f.name /\ Attr(e, g.attr) # Absent
          THEN FromText(f, Attr(e, f.attr)) ELSE before[f.name]
    BY <1>1, <2>1 DEF Named
  <2> QED BY <2>3, <2>4
<1>2. ASSUME NEW name \in DOMAIN before, name \notin {f.name : f \in Read(fields)}
      PROVE  Named(fields, before, e)[name] = before[name]
  BY <1>2, NamedStays
<1>3. Named(fields, before, e) = [name \in DOMAIN before |-> Named(fields, before, e)[name]]
  BY DEF Named
<1> HIDE DEF Named
<1> QED BY <1>1, <1>2, <1>3

\* The member of a list is read of its element as it was.
LEMMA ItemBack ==
  ASSUME NEW fields, Alike(fields), Distinct(fields), NEW item, HasFields(fields, item),
         NEW e, e.attrs = Attributes(fields, item)
  PROVE  Named(fields, Defaults(fields), e) = item
<1> DEFINE names == {f.name : f \in Read(fields)}
<1>1. DOMAIN Defaults(fields) = names
  BY DEF Defaults
<1>2. item = [name \in names |-> item[name]] /\ \A f \in Read(fields) : Fits(f, item[f.name])
  BY DEF HasFields
<1>3. Named(fields, Defaults(fields), e) = [name \in DOMAIN Defaults(fields) |->
        IF name \in names THEN item[name] ELSE Defaults(fields)[name]]
  BY <1>2, NamedBack
<1> HIDE DEF names
<1> QED BY <1>1, <1>2, <1>3

\* f is what becomes of an info while the elements of a document are read.
Run(f, rows, before, doc) ==
  /\ f = [k \in 0..Len(doc) |-> f[k]]
  /\ f[0] = before
  /\ \A k \in 1..Len(doc) :
       f[k] = IF IsElement(doc[k]) THEN ReadElement(rows, f[k - 1], doc[k]) ELSE f[k - 1]

\* The elements of doc make the info after of the info before.
Takes(rows, before, doc, after) == \E f : Run(f, rows, before, doc) /\ f[Len(doc)] = after

\* Nothing changes nothing ...
LEMMA TakesNone ==
  ASSUME NEW rows, NEW info
  PROVE  Takes(rows, info, <<>>, info)
<1> DEFINE f == [k \in 0..0 |-> info]
<1>1. f = [k \in 0..0 |-> f[k]] /\ f[0] = info /\ Len(<<>>) = 0
  OBVIOUS
<1> HIDE DEF f
<1>2. Run(f, rows, info, <<>>)
  BY <1>1 DEF Run
<1> QED BY <1>1, <1>2 DEF Takes

\* ... one event is read by itself ...
LEMMA TakesOne ==
  ASSUME NEW rows, NEW before, NEW e, NEW after,
         after = IF IsElement(e) THEN ReadElement(rows, before, e) ELSE before
  PROVE  Takes(rows, before, <<e>>, after)
<1> DEFINE f == [k \in 0..1 |-> IF k = 0 THEN before ELSE after]
<1>1. f = [k \in 0..1 |-> f[k]] /\ f[0] = before /\ f[1] = after /\ Len(<<e>>) = 1 /\ <<e>>[1] = e
  OBVIOUS
<1> HIDE DEF f
<1>2. ASSUME NEW k \in 1..1
      PROVE  f[k] = IF IsElement(<<e>>[k]) THEN ReadElement(rows, f[k - 1], <<e>>[k]) ELSE f[k - 1]
  <2>1. k = 1 /\ k - 1 = 0
    OBVIOUS
  <2> QED BY <1>1, <2>1
<1>3. Run(f, rows, before, <<e>>)
  BY <1>1, <1>2 DEF Run
<1> QED BY <1>1, <1>3 DEF Takes

\* ... and one document after the other.
LEMMA TakesJoin ==
  ASSUME NEW rows, NEW a, NEW b, NEW c, NEW s, NEW t, IsList(s), IsList(t),
         Takes(rows, a, s, b), Takes(rows, b, t, c)
  PROVE  Takes(rows, a, s \o t, c)
<1> DEFINE u == s \o t
<1> DEFINE m == Len(s)
<1> DEFINE n == Len(t)
<1>1. /\ m \in Nat /\ n \in Nat /\ Len(u) = m + n
      /\ \A k \in 1..m : u[k] = s[k]
      /\ \A k \in 1..n : u[m + k] = t[k]
  <2>1. Joins(u, s, t)
    BY ConcatIsList
  <2> HIDE DEF u
  <2> QED BY <2>1 DEF Joins, IsList
<1>2. PICK f : Run(f, rows, a, s) /\ f[m] = b
  BY DEF Takes
<1>3. PICK g : Run(g, rows, b, t) /\ g[n] = c
  BY DEF Takes
<1> HIDE DEF u, m, n
<1> DEFINE h == [k \in 0..(m + n) |-> IF k <= m THEN f[k] ELSE g[k - m]]
<1>4. f[0] = a /\ \A k \in 1..m :
         f[k] = IF IsElement(s[k]) THEN ReadElement(rows, f[k - 1], s[k]) ELSE f[k - 1]
  BY <1>2 DEF Run, m
<1>5. g[0] = b /\ \A k \in 1..n :
         g[k] = IF IsElement(t[k]) THEN ReadElement(rows, g[k - 1], t[k]) ELSE g[k - 1]
  BY <1>3 DEF Run, n
<1>6. h = [k \in 0..(m + n) |-> h[k]] /\ (\A k \in 0..m : h[k] = f[k])
      /\ \A k \in 0..n : h[m + k] = g[k]
  <2>1. \A k \in 0..m : k \in 0..(m + n) /\ k <= m
    BY <1>1
  <2>2. ASSUME NEW k \in 0..n PROVE h[m + k] = g[k]
    <3>1. m + k \in 0..(m + n) /\ (m + k) - m = k /\ (m + k <= m => k = 0)
      BY <1>1
    <3>2. CASE k = 0
      <4>1. m + k = m
        BY <1>1, <3>2
      <4> QED BY <1>1, <1>2, <1>5, <3>2, <4>1
    <3>3. CASE k # 0
      BY <1>1, <3>1, <3>3
    <3> QED BY <3>2, <3>3
  <2> QED BY <2>1, <2>2
<1> HIDE DEF h
<1>7. ASSUME NEW k \in 1..(m + n)
      PROVE  h[k] = IF IsElement(u[k]) THEN ReadElement(rows, h[k - 1], u[k]) ELSE h[k - 1]
  <2>1. CASE k \in 1..m
    <3>1. k \in 0..m /\ k - 1 \in 0..m
      BY <1>1, <2>1
    <3> QED BY <1>1, <1>4, <1>6, <2>1, <3>1
  <2>2. CASE k \notin 1..m
    <3> DEFINE j == k - m
    <3>1. j \in 1..n /\ j \in 0..n /\ j - 1 \in 0..n /\ m + j = k /\ m + (j - 1) = k - 1
      BY <1>1, <2>2
    <3>2. h[k] = g[j] /\ h[k - 1] = g[j - 1] /\ u[k] = t[j]
      <4>1. h[m + j] = g[j] /\ h[m + (j - 1)] = g[j - 1] /\ u[m + j] = t[j]
        BY <1>1, <1>6, <3>1
      <4> QED BY <3>1, <4>1
    <3> HIDE DEF j
    <3> QED BY <1>5, <3>1, <3>2
  <2> QED BY <2>1, <2>2
<1>8. h[0] = a /\ h[m + n] = c
  <2>1. 0 \in 0..m /\ n \in 0..n
    BY <1>1
  <2> QED BY <1>3, <1>4, <1>6, <2>1
<1>9. Run(h, rows, a, u)
  BY <1>1, <1>6, <1>7, <1>8 DEF Run
<1>10. Takes(rows, a, u, c)
  BY <1>1, <1>8, <1>9 DEF Takes
<1> QED BY <1>10 DEF u

\* There is one way of reading a document.
LEMMA ParseTakes ==
  ASSUME NEW rows, NEW doc, Len(doc) \in Nat, NEW after, Takes(rows, Default(rows), doc, after)
  PROVE  ParseBody(rows, doc) = after
<1> DEFINE n == Len(doc)
<1>1. PICK f : Reads(f, n, rows, doc) /\ ParseBody(rows, doc) = f[n]
  BY ParseSteps
<1>2. PICK g : Run(g, rows, Default(rows), doc) /\ g[n] = after
  BY DEF Takes
<1> DEFINE S == {k \in Nat : k <= n => f[k] = g[k]}
<1>3. 0 \in S
  BY <1>1, <1>2 DEF Reads, Run
<1>4. ASSUME NEW k \in Nat, k \in S PROVE k + 1 \in S
  <2> SUFFICES ASSUME k + 1 <= n PROVE f[k + 1] = g[k + 1]
    OBVIOUS
  <2>1. k + 1 \in 1..n /\ (k + 1) - 1 = k /\ f[k] = g[k]
    BY <1>4
  <2>2. f[k + 1] = IF IsElement(doc[k + 1]) THEN ReadElement(rows, f[k], doc[k + 1]) ELSE f[k]
    BY <1>1, <2>1 DEF Reads
  <2>3. g[k + 1] = IF IsElement(doc[k + 1]) THEN ReadElement(rows, g[k], doc[k + 1]) ELSE g[k]
    BY <1>2, <2>1 DEF Run
  <2> QED BY <2>1, <2>2, <2>3
<1> HIDE DEF S
<1>5. n \in S
  BY <1>3, <1>4, Induction
<1> QED BY <1>1, <1>2, <1>5 DEF S

\* The fields of the struct that a row fills.
Names(row) == IF row.form = "each" THEN {row.list} ELSE {f.name : f \in Read(row.fields)}
\* The names that the first i rows fill.
Filled(rows, i) == UNION {Names(rows[j]) : j \in 1..i}

\* An info of which the fields that the first i rows fill have been read.
Partly(rows, info, i) ==
  [name \in DOMAIN Default(rows) |-> IF name \in Filled(rows, i) THEN info[name] ELSE Default(rows)[name]]

\* One row more.
LEMMA FilledMore ==
  ASSUME NEW rows, NEW i \in Nat
  PROVE  Filled(rows, 0) = {} /\ Filled(rows, i + 1) = Filled(rows, i) \cup Names(rows[i + 1])
<1>1. 1..(i + 1) = (1..i) \cup {i + 1} /\ 1..0 = {}
  OBVIOUS
<1> QED BY <1>1 DEF Filled

\* Before the first row there are the defaults, and after the last one all is read.
LEMMA PartlyEnds ==
  ASSUME NEW rows, WellMade(rows), NEW info, IsInfo(rows, info)
  PROVE  Partly(rows, info, 0) = Default(rows) /\ Partly(rows, info, Len(rows)) = info
<1> DEFINE n == Len(rows)
<1> DEFINE d == Default(rows)
<1>1. Filled(rows, 0) = {}
  BY DEF Filled
<1>2. d = [name \in DOMAIN d |-> d[name]]
  BY DEF Default
<1>3. info = [name \in DOMAIN d |-> info[name]]
  BY DEF IsInfo
<1>4. n \in Nat /\ DOMAIN rows = 1..n
  BY DEF WellMade, IsList
<1>5. ASSUME NEW name \in DOMAIN d PROVE name \in Filled(rows, n)
  <2>1. name \in {f.name : f \in Read(Plain(rows))} \cup Lists(rows)
    BY DefaultFields
  <2>2. CASE name \in Lists(rows)
    <3>1. PICK r \in ToSet(rows) : r.form = "each" /\ r.list = name
      BY <2>2 DEF Lists
    <3>2. PICK j \in DOMAIN rows : rows[j] = r
      BY DEF ToSet
    <3>3. name \in Names(rows[j])
      BY <3>1, <3>2 DEF Names
    <3> QED BY <1>4, <3>3 DEF Filled
  <2>3. CASE name \in {f.name : f \in Read(Plain(rows))}
    <3>1. PICK f \in Read(Plain(rows)) : f.name = name
      BY <2>3
    <3>2. PICK r \in ToSet(rows) : r.form # "each" /\ f \in r.fields
      BY DEF Read, Plain
    <3>3. PICK j \in DOMAIN rows : rows[j] = r
      BY DEF ToSet
    <3>4. f \in Read(r.fields)
      BY <3>2 DEF Read
    <3>5. name \in Names(rows[j])
      BY <3>1, <3>2, <3>3, <3>4 DEF Names
    <3> QED BY <1>4, <3>5 DEF Filled
  <2> QED BY <2>1, <2>2, <2>3
<1> HIDE DEF d, n
<1>6. Partly(rows, info, 0) = d
  BY <1>1, <1>2 DEF Partly, d
<1>7. Partly(rows, info, n) = info
  <2>1. Partly(rows, info, n) = [name \in DOMAIN d |-> IF name \in Filled(rows, n) THEN info[name] ELSE d[name]]
    BY DEF Partly, d
  <2> QED BY <1>3, <1>5, <2>1
<1> QED BY <1>6, <1>7 DEF d, n

\* The element of a row is read as the row is meant to be.
LEMMA ElementOf ==
  ASSUME NEW rows, WellMade(rows), NEW row \in ToSet(rows), row.form # "close", NEW info, NEW e,
         e.tag = row.tag
  PROVE  ReadElement(rows, info, e) =
           IF row.form = "each"
           THEN [info EXCEPT ![row.list] =
                   Append(info[row.list], Named(row.fields, Defaults(row.fields), e))]
           ELSE Named(row.fields, info, e)
<1> DEFINE found == CHOOSE r \in ToSet(rows) : r.tag = e.tag /\ r.form # "close"
<1>1. found \in ToSet(rows) /\ found.tag = e.tag /\ found.form # "close"
  OBVIOUS
<1>2. found = row
  BY <1>1 DEF WellMade
<1>3. ReadElement(rows, info, e) =
        IF found.form = "each"
        THEN [info EXCEPT ![found.list] =
                Append(info[found.list], Named(found.fields, Defaults(found.fields), e))]
        ELSE Named(found.fields, info, e)
  BY DEF ReadElement
<1> HIDE DEF found
<1> QED BY <1>2, <1>3

\* A row with fields is read back.
LEMMA RowBack ==
  ASSUME NEW rows, WellMade(rows), NEW info, IsInfo(rows, info), NEW i \in Nat, i + 1 \in 1..Len(rows),
         rows[i + 1].form \in {"one", "open"}
  PROVE  Takes(rows, Partly(rows, info, i), WriteRow(rows[i + 1], info), Partly(rows, info, i + 1))
<1> DEFINE row == rows[i + 1]
<1> DEFINE a == Attributes(row.fields, info)
<1>1. row \in ToSet(rows)
  BY DEF WellMade, IsList, ToSet
<1>2. PICK e : e.tag = row.tag /\ e.attrs = a /\ IsElement(e) /\ WriteRow(row, info) = <<e>>
  <2>1. CASE row.form = "one"
    <3> DEFINE e == Empty(row.tag, a)
    <3>1. WriteRow(row, info) = <<e>>
      BY <2>1 DEF WriteRow
    <3>2. e.tag = row.tag /\ e.attrs = a /\ IsElement(e)
      BY DEF Empty, IsElement
    <3> QED BY <3>1, <3>2
  <2>2. CASE row.form = "open"
    <3> DEFINE e == Open(row.tag, a)
    <3>1. WriteRow(row, info) = <<e>>
      BY <2>2 DEF WriteRow
    <3>2. e.tag = row.tag /\ e.attrs = a /\ IsElement(e)
      BY DEF Open, IsElement
    <3> QED BY <3>1, <3>2
  <2> QED BY <2>1, <2>2
<1>3. Alike(row.fields) /\ Distinct(row.fields)
  BY <1>1 DEF WellMade, Distinct
<1>4. row.form # "each" /\ row.form # "close"
  OBVIOUS
<1>5. row.fields \subseteq Plain(rows)
  BY <1>1, <1>4 DEF Plain
<1>6. \A f \in Read(row.fields) : Fits(f, info[f.name])
  BY <1>5 DEF IsInfo, Read
<1>7. Names(row) = {f.name : f \in Read(row.fields)}
  BY <1>4 DEF Names
<1>8. Filled(rows, i + 1) = Filled(rows, i) \cup Names(row)
  BY FilledMore
<1> HIDE DEF row
<1> DEFINE before == Partly(rows, info, i)
<1> DEFINE after == Partly(rows, info, i + 1)
<1>9. ReadElement(rows, before, e) = Named(row.fields, before, e)
  BY <1>1, <1>2, <1>4, ElementOf
<1>10. Named(row.fields, before, e) = [name \in DOMAIN before |->
         IF name \in {f.name : f \in Read(row.fields)} THEN info[name] ELSE before[name]]
  BY <1>2, <1>3, <1>6, NamedBack
<1>11. after = ReadElement(rows, before, e)
  <2>1. before = [name \in DOMAIN Default(rows) |->
                    IF name \in Filled(rows, i) THEN info[name] ELSE Default(rows)[name]]
    BY DEF Partly
  <2>2. after = [name \in DOMAIN Default(rows) |->
                   IF name \in Filled(rows, i + 1) THEN info[name] ELSE Default(rows)[name]]
    BY DEF Partly
  <2> HIDE DEF before, after
  <2> QED BY <1>7, <1>8, <1>9, <1>10, <2>1, <2>2
<1> HIDE DEF before, after
<1>12. Takes(rows, before, <<e>>, after)
  BY <1>2, <1>11, TakesOne
<1> QED BY <1>2, <1>12 DEF before, after, row

\* The end tag of a row says nothing.
LEMMA EndBack ==
  ASSUME NEW rows, WellMade(rows), NEW info, NEW i \in Nat, i + 1 \in 1..Len(rows),
         rows[i + 1].form = "close"
  PROVE  Takes(rows, Partly(rows, info, i), WriteRow(rows[i + 1], info), Partly(rows, info, i + 1))
<1> DEFINE row == rows[i + 1]
<1> DEFINE e == Close(row.tag)
<1>1. row \in ToSet(rows)
  BY DEF WellMade, IsList, ToSet
<1>2. WriteRow(row, info) = <<e>> /\ ~IsElement(e)
  BY DEF WriteRow, Close, IsElement
<1>3. Names(row) = {}
  <2>1. row.fields = {} /\ row.form # "each"
    BY <1>1 DEF WellMade
  <2> HIDE DEF row
  <2> QED BY <2>1 DEF Names, Read
<1>4. Filled(rows, i + 1) = Filled(rows, i) \cup Names(row)
  BY FilledMore
<1>5. Partly(rows, info, i + 1) = Partly(rows, info, i)
  BY <1>3, <1>4 DEF Partly
<1> HIDE DEF row, e
<1>6. Takes(rows, Partly(rows, info, i), <<e>>, Partly(rows, info, i + 1))
  BY <1>2, <1>5, TakesOne
<1> QED BY <1>2, <1>6 DEF row

\* What is before each member of a list, and after it.
LEMMA ListHeads ==
  ASSUME NEW s, IsList(s)
  PROVE  /\ SubSeq(s, 1, 0) = <<>> /\ SubSeq(s, 1, Len(s)) = s
         /\ \A k \in 1..Len(s) : Append(SubSeq(s, 1, k - 1), s[k]) = SubSeq(s, 1, k)
<1> DEFINE S == ToSet(s)
<1>1. s \in Seq(S) /\ Len(s) \in Nat
  BY DEF IsList
<1> HIDE DEF S
<1>2. SubSeq(s, 1, 0) = <<>>
  BY SubSeqEmpty
<1>3. SubSeq(s, 1, Len(s)) = s
  BY <1>1, SubSeqFull
<1>4. ASSUME NEW k \in 1..Len(s) PROVE Append(SubSeq(s, 1, k - 1), s[k]) = SubSeq(s, 1, k)
  <2>1. 1 \in 1..Len(s) /\ k \in 1..Len(s) /\ s[k] \in S
    BY <1>1
  <2>2. SubSeq(s, 1, k) = SubSeq(s, 1, k - 1) \o <<s[k]>>
    BY <1>1, <2>1, SubSeqRecursiveSecond
  <2>3. SubSeq(s, 1, k - 1) \in Seq(S)
    <3>1. \A j \in 1..(k - 1) : s[j] \in S
      BY <1>1
    <3>2. 1 \in Int /\ k - 1 \in Int
      OBVIOUS
    <3> QED BY <3>1, <3>2, SubSeqProperties
  <2> DEFINE t == SubSeq(s, 1, k - 1)
  <2>4. t \in Seq(S)
    BY <2>3
  <2> HIDE DEF t
  <2>5. Append(t, s[k]) = t \o <<s[k]>>
    BY <2>1, <2>4
  <2> QED BY <2>2, <2>5 DEF t
<1> QED BY <1>2, <1>3, <1>4

\* The rows of a list are read back one by one.
LEMMA EachBack ==
  ASSUME NEW rows, WellMade(rows), NEW info, IsInfo(rows, info), NEW i \in Nat, i + 1 \in 1..Len(rows),
         rows[i + 1].form = "each"
  PROVE  Takes(rows, Partly(rows, info, i), WriteRow(rows[i + 1], info), Partly(rows, info, i + 1))
<1> DEFINE row == rows[i + 1]
<1> DEFINE list == row.list
<1> DEFINE L == info[list]
<1> DEFINE n == Len(L)
<1> DEFINE s == WriteRow(row, info)
<1> DEFINE before == Partly(rows, info, i)
<1> DEFINE after == Partly(rows, info, i + 1)
<1>1. row \in ToSet(rows)
  BY DEF WellMade, IsList, ToSet
<1>2. IsList(L) /\ \A item \in ToSet(L) : HasFields(row.fields, item)
  BY <1>1 DEF IsInfo
<1>3. n \in Nat /\ DOMAIN L = 1..n /\ \A k \in 1..n : L[k] \in ToSet(L)
  BY <1>2 DEF IsList, ToSet
<1>4. s = [k \in 1..n |-> Empty(row.tag, Attributes(row.fields, L[k]))]
  BY <1>3 DEF WriteRow
<1>5. Alike(row.fields) /\ Distinct(row.fields) /\ list \in Lists(rows)
  BY <1>1 DEF WellMade, Distinct, Lists
<1>6. Filled(rows, i + 1) = Filled(rows, i) \cup {list}
  <2>1. Names(row) = {list}
    BY DEF Names
  <2> QED BY <2>1, FilledMore
<1>7. list \notin Filled(rows, i)
  <2>1. ASSUME NEW j \in 1..i PROVE list \notin Names(rows[j])
    <3>1. j \in DOMAIN rows /\ i + 1 \in DOMAIN rows /\ j # i + 1
      BY DEF WellMade, IsList
    <3>2. rows[j].form # "each"
      BY <3>1 DEF WellMade
    <3>3. rows[j].fields \subseteq Plain(rows)
      BY <3>1, <3>2 DEF Plain, ToSet
    <3>4. \A f \in Read(rows[j].fields) : f.name # list
      BY <1>5, <3>3 DEF WellMade, Read
    <3> QED BY <3>2, <3>4 DEF Names
  <2> QED BY <2>1 DEF Filled
<1>8. DOMAIN before = DOMAIN Default(rows) /\ list \in DOMAIN Default(rows)
      /\ Default(rows)[list] = <<>>
  BY <1>5, DefaultFields DEF Partly
<1>9. before[list] = <<>>
  BY <1>7, <1>8 DEF Partly
<1>10. after = [before EXCEPT ![list] = L]
  <2>1. before = [name \in DOMAIN Default(rows) |->
                    IF name \in Filled(rows, i) THEN info[name] ELSE Default(rows)[name]]
    BY DEF Partly
  <2>2. after = [name \in DOMAIN Default(rows) |->
                   IF name \in Filled(rows, i + 1) THEN info[name] ELSE Default(rows)[name]]
    BY DEF Partly
  <2>3. L = info[list]
    OBVIOUS
  <2> HIDE DEF before, after, list, L
  <2> QED BY <1>6, <2>1, <2>2, <2>3
<1>11. \A info_, e : e.tag = row.tag => ReadElement(rows, info_, e) =
         [info_ EXCEPT ![list] = Append(info_[list], Named(row.fields, Defaults(row.fields), e))]
  <2>1. row.form # "close" /\ row.form = "each"
    OBVIOUS
  <2> HIDE DEF row
  <2> QED BY <1>1, <2>1, ElementOf
<1>12. before = [name \in DOMAIN before |-> before[name]]
  BY DEF Partly
<1> HIDE DEF row, list, L, s, before, after
<1>13. IsList(s) /\ Len(s) = n
  <2>1. s = [k \in 1..n |-> s[k]]
    BY <1>4
  <2> HIDE DEF n
  <2> QED BY <1>3, <2>1, FunctionIsList
<1> DEFINE f == [k \in 0..n |-> [before EXCEPT ![list] = SubSeq(L, 1, k)]]
<1>14. SubSeq(L, 1, 0) = <<>> /\ SubSeq(L, 1, n) = L
       /\ \A k \in 1..n : Append(SubSeq(L, 1, k - 1), L[k]) = SubSeq(L, 1, k)
  BY <1>2, ListHeads
<1> HIDE DEF n
<1>15. \A k \in 0..n : f[k] = [before EXCEPT ![list] = SubSeq(L, 1, k)]
  OBVIOUS
<1>16. f = [k \in 0..n |-> f[k]]
  OBVIOUS
<1> HIDE DEF f
<1>17. f[0] = before
  <2>1. f[0] = [before EXCEPT ![list] = <<>>]
    <3>1. 0 \in 0..n
      BY <1>3
    <3>2. f[0] = [before EXCEPT ![list] = SubSeq(L, 1, 0)]
      BY <1>15, <3>1
    <3> QED BY <1>14, <3>2
  <2> QED BY <1>9, <1>12, <2>1
<1>18. f[n] = after
  <2>1. n \in 0..n
    BY <1>3
  <2>2. f[n] = [before EXCEPT ![list] = SubSeq(L, 1, n)]
    BY <1>15, <2>1
  <2> QED BY <1>10, <1>14, <2>2
<1>19. ASSUME NEW k \in 1..n PROVE IsElement(s[k]) /\ f[k] = ReadElement(rows, f[k - 1], s[k])
  <2> DEFINE e == s[k]
  <2>1. e.tag = row.tag /\ e.attrs = Attributes(row.fields, L[k]) /\ IsElement(e)
    BY <1>4 DEF Empty, IsElement
  <2> HIDE DEF e
  <2>2. Named(row.fields, Defaults(row.fields), e) = L[k]
    BY <1>2, <1>3, <1>5, <2>1, ItemBack
  <2> DEFINE b == f[k - 1]
  <2> DEFINE p == SubSeq(L, 1, k - 1)
  <2> DEFINE q == SubSeq(L, 1, k)
  <2>3. k \in 0..n /\ k - 1 \in 0..n
    BY <1>3
  <2>4. b = [before EXCEPT ![list] = p] /\ f[k] = [before EXCEPT ![list] = q]
    BY <1>15, <2>3
  <2>5. Append(p, L[k]) = q
    BY <1>14
  <2> HIDE DEF b, p, q
  <2>6. ReadElement(rows, b, e)
          = [b EXCEPT ![list] = Append(b[list], Named(row.fields, Defaults(row.fields), e))]
    BY <1>11, <2>1
  <2>7. b[list] = p
    BY <1>8, <2>4
  <2>8. [b EXCEPT ![list] = q] = [before EXCEPT ![list] = q]
    BY <1>12, <2>4
  <2>9. ReadElement(rows, b, e) = f[k]
    BY <2>2, <2>4, <2>5, <2>6, <2>7, <2>8
  <2> QED BY <2>1, <2>9 DEF b, e
<1>20. Run(f, rows, before, s)
  BY <1>13, <1>16, <1>17, <1>19 DEF Run
<1>21. Takes(rows, before, s, after)
  BY <1>13, <1>18, <1>20 DEF Takes
<1> QED BY <1>21 DEF before, after, s, row

\* What write_row writes is a list.
LEMMA RowIsList ==
  ASSUME NEW row, row.form \in {"one", "open", "close", "each"}, NEW info,
         row.form = "each" => IsList(info[row.list])
  PROVE  IsList(WriteRow(row, info))
<1>1. \A x : IsList(<<x>>)
  <2>1. \A x : <<x>> \in Seq({x})
    OBVIOUS
  <2> QED BY <2>1, SeqIsList
<1>2. CASE row.form = "one"
  BY <1>1, <1>2 DEF WriteRow
<1>3. CASE row.form = "open"
  BY <1>1, <1>3 DEF WriteRow
<1>4. CASE row.form = "close"
  BY <1>1, <1>4 DEF WriteRow
<1>5. CASE row.form = "each"
  <2> DEFINE l == info[row.list]
  <2> DEFINE g == [k \in DOMAIN l |-> Empty(row.tag, Attributes(row.fields, l[k]))]
  <2>1. Len(l) \in Nat /\ DOMAIN l = 1..Len(l)
    BY <1>5 DEF IsList
  <2>2. WriteRow(row, info) = g
    BY <1>5 DEF WriteRow
  <2>3. g = [k \in DOMAIN l |-> g[k]]
    OBVIOUS
  <2> HIDE DEF g, l
  <2>4. IsList(g)
    BY <2>1, <2>3, FunctionIsList
  <2> QED BY <2>2, <2>4
<1> QED BY <1>2, <1>3, <1>4, <1>5

\* What write_body writes of an info, parse_body reads as that info: every field of every
\* struct, whatever its values (each write_body with its parse_body in messages/*.rs).
THEOREM BodyRoundTrip ==
  ASSUME NEW rows, WellMade(rows), NEW info, IsInfo(rows, info)
  PROVE  IsList(WriteBody(rows, info)) /\ ParseBody(rows, WriteBody(rows, info)) = info
<1> DEFINE n == Len(rows)
<1> DEFINE ss == [i \in DOMAIN rows |-> WriteRow(rows[i], info)]
<1>1. n \in Nat /\ DOMAIN rows = 1..n
  BY DEF WellMade, IsList
<1>2. ss = [i \in 1..n |-> ss[i]] /\ \A i \in 1..n : ss[i] = WriteRow(rows[i], info)
  BY <1>1
<1>3. WriteBody(rows, info) = FlattenSeq(ss)
  BY DEF WriteBody
<1> HIDE DEF ss
<1>4. IsList(ss) /\ Len(ss) = n
  <2> HIDE DEF n
  <2> QED BY <1>1, <1>2, FunctionIsList
<1>5. ASSUME NEW i \in 1..n
      PROVE  rows[i] \in ToSet(rows) /\ rows[i].form \in {"one", "open", "close", "each"}
  <2>1. rows[i] \in ToSet(rows)
    BY <1>1 DEF ToSet
  <2> QED BY <2>1 DEF WellMade
<1>6. ASSUME NEW i \in 1..n PROVE IsList(ss[i])
  <2>1. rows[i].form = "each" => IsList(info[rows[i].list])
    BY <1>5 DEF IsInfo
  <2> QED BY <1>2, <1>5, <2>1, RowIsList
<1>7. PICK g : \E S : Flattens(g, ss, S) /\ FlattenSeq(ss) = g[n]
  BY <1>4, <1>6, FlatSteps
<1>8. /\ \E S : g \in [0..n -> Seq(S)]
      /\ g[0] = <<>>
      /\ \A i \in 1..n : g[i] = g[i - 1] \o ss[i]
  BY <1>4, <1>7 DEF Flattens
<1>9. \A i \in 0..n : IsList(g[i])
  BY <1>8, SeqIsList
<1> DEFINE P == {i \in Nat : i <= n => Takes(rows, Default(rows), g[i], Partly(rows, info, i))}
<1>10. 0 \in P
  BY <1>8, PartlyEnds, TakesNone
<1>11. ASSUME NEW i \in Nat, i \in P PROVE i + 1 \in P
  <2> SUFFICES ASSUME i + 1 <= n
               PROVE  Takes(rows, Default(rows), g[i + 1], Partly(rows, info, i + 1))
    OBVIOUS
  <2>1. i + 1 \in 1..n /\ (i + 1) - 1 = i /\ i \in 0..n
    BY <1>1
  <2>2. Takes(rows, Default(rows), g[i], Partly(rows, info, i))
    BY <1>1, <1>11
  <2>3. Takes(rows, Partly(rows, info, i), ss[i + 1], Partly(rows, info, i + 1))
    BY <1>2, <1>5, <2>1, RowBack, EndBack, EachBack
  <2>4. g[i + 1] = g[i] \o ss[i + 1]
    BY <1>8, <2>1
  <2> QED BY <1>6, <1>9, <2>1, <2>2, <2>3, <2>4, TakesJoin
<1> HIDE DEF P
<1>12. Takes(rows, Default(rows), g[n], info)
  <2>1. n \in P
    BY <1>1, <1>10, <1>11, Induction
  <2>2. Partly(rows, info, n) = info
    BY PartlyEnds
  <2> QED BY <1>1, <2>1, <2>2 DEF P
<1>13. IsList(g[n]) /\ Len(g[n]) \in Nat
  BY <1>1, <1>9 DEF IsList
<1> QED BY <1>3, <1>7, <1>12, <1>13, ParseTakes

\* What write_body writes has nothing in it like the envelope around it.
LEMMA WrittenIsInner ==
  ASSUME NEW rows, WellMade(rows), NEW info, IsInfo(rows, info)
  PROVE  Inner(WriteBody(rows, info))
<1> DEFINE n == Len(rows)
<1> DEFINE ss == [i \in DOMAIN rows |-> WriteRow(rows[i], info)]
<1>1. n \in Nat /\ DOMAIN rows = 1..n
  BY DEF WellMade, IsList
<1>2. ss = [i \in 1..n |-> ss[i]] /\ \A i \in 1..n : ss[i] = WriteRow(rows[i], info)
  BY <1>1
<1>3. WriteBody(rows, info) = FlattenSeq(ss)
  BY DEF WriteBody
<1> HIDE DEF ss
<1>4. IsList(ss) /\ Len(ss) = n
  <2> HIDE DEF n
  <2> QED BY <1>1, <1>2, FunctionIsList
<1>5. ASSUME NEW i \in 1..n
      PROVE  rows[i] \in ToSet(rows) /\ rows[i].form \in {"one", "open", "close", "each"}
             /\ rows[i].tag \notin {"sdk", "in", "out", "malformed"}
  <2>1. rows[i] \in ToSet(rows)
    BY <1>1 DEF ToSet
  <2> QED BY <2>1 DEF WellMade
<1>6. ASSUME NEW i \in 1..n
      PROVE  IsList(ss[i]) /\ \A x \in ToSet(ss[i]) : ~IsHeader(x)
  <2> DEFINE row == rows[i]
  <2>1. row.form = "each" => IsList(info[row.list])
    BY <1>5 DEF IsInfo
  <2>2. IsList(WriteRow(row, info))
    BY <1>5, <2>1, RowIsList
  <2>3. row.form \in {"one", "open", "close", "each"} /\ row.tag \notin {"sdk", "in", "out", "malformed"}
    BY <1>5
  <2> HIDE DEF row
  <2>4. \A a : ~IsHeader(Empty(row.tag, a)) /\ ~IsHeader(Open(row.tag, a)) /\ ~IsHeader(Close(row.tag))
    BY <2>3 DEF IsHeader, IsElement, Empty, Open, Close
  <2>5. ASSUME NEW x \in ToSet(WriteRow(row, info)) PROVE ~IsHeader(x)
    <3>1. \A y : ToSet(<<y>>) = {y}
      BY DEF ToSet
    <3>2. CASE row.form = "one"
      BY <2>4, <2>5, <3>1, <3>2 DEF WriteRow
    <3>3. CASE row.form = "open"
      BY <2>4, <2>5, <3>1, <3>3 DEF WriteRow
    <3>4. CASE row.form = "close"
      BY <2>4, <2>5, <3>1, <3>4 DEF WriteRow
    <3>5. CASE row.form = "each"
      <4>1. WriteRow(row, info) = [k \in DOMAIN info[row.list] |->
                                     Empty(row.tag, Attributes(row.fields, info[row.list][k]))]
        BY <3>5 DEF WriteRow
      <4>2. \E a : x = Empty(row.tag, a)
        BY <2>5, <4>1 DEF ToSet
      <4> QED BY <2>4, <4>2
    <3> QED BY <2>3, <3>2, <3>3, <3>4, <3>5
  <2> QED BY <1>2, <2>2, <2>5 DEF row
<1>7. IsList(FlattenSeq(ss)) /\ ToSet(FlattenSeq(ss)) \subseteq UNION {ToSet(ss[i]) : i \in 1..n}
  BY <1>4, <1>6, FlatIsList
<1> DEFINE body == FlattenSeq(ss)
<1>8. \A x \in ToSet(body) : ~IsHeader(x)
  BY <1>6, <1>7
<1>9. IsList(body)
  BY <1>7
<1> HIDE DEF body
<1>10. Inner(body)
  BY <1>8, <1>9 DEF Inner, IsList, ToSet
<1> QED BY <1>3, <1>10 DEF body

-----------------------------------------------------------------------------
(* Lists in a row, and lists of lists.                                     *)

\* One member is a list ...
LEMMA OneIsList == ASSUME NEW x PROVE IsList(<<x>>)
<1>1. <<x>> \in Seq({x})
  OBVIOUS
<1> QED BY <1>1, SeqIsList

\* ... and so is none.
LEMMA NoneIsList == IsList(<<>>) /\ ToSet(<<>>) = {}
<1>1. <<>> \in Seq({}) /\ DOMAIN <<>> = {}
  OBVIOUS
<1>2. IsList(<<>>)
  BY <1>1, SeqIsList
<1> QED BY <1>1, <1>2 DEF ToSet

\* One list after the other.
LEMMA ConcatList ==
  ASSUME NEW s, NEW t, IsList(s), IsList(t)
  PROVE  IsList(s \o t)
BY ConcatIsList DEF Joins

\* The domain of a list.
LEMMA ListDomain ==
  ASSUME NEW s, IsList(s)
  PROVE  /\ Len(s) \in Nat /\ DOMAIN s = 1..Len(s)
         /\ \A i \in 1..Len(s) : s[i] \in ToSet(s)
BY DEF IsList, ToSet

\* The lists made of the members of a list, one after another, are a list.
LEMMA FlatMapIsList ==
  ASSUME NEW s, IsList(s), NEW f, f = [i \in DOMAIN s |-> f[i]],
         \A i \in DOMAIN s : IsList(f[i])
  PROVE  IsList(f) /\ IsList(FlattenSeq(f))
<1>1. Len(s) \in Nat /\ DOMAIN s = 1..Len(s)
  BY ListDomain
<1>2. IsList(f) /\ Len(f) = Len(s)
  BY <1>1, FunctionIsList
<1> QED BY <1>1, <1>2, FlatIsList

\* ... of the members of those.
LEMMA FlatMapHas ==
  ASSUME NEW s, IsList(s), NEW f, f = [i \in DOMAIN s |-> f[i]], NEW S,
         \A i \in DOMAIN s : IsList(f[i]) /\ ToSet(f[i]) \subseteq S
  PROVE  IsList(FlattenSeq(f)) /\ ToSet(FlattenSeq(f)) \subseteq S
<1>1. Len(s) \in Nat /\ DOMAIN s = 1..Len(s)
  BY ListDomain
<1>2. IsList(f) /\ Len(f) = Len(s)
  BY <1>1, FunctionIsList
<1>3. IsList(FlattenSeq(f)) /\ ToSet(FlattenSeq(f)) \subseteq UNION {ToSet(f[i]) : i \in 1..Len(f)}
  BY <1>1, <1>2, FlatIsList
<1> QED BY <1>1, <1>2, <1>3

\* Lists of lists: what g has after the last is what they are one after another.
LEMMA FlatIs ==
  ASSUME NEW ss, IsList(ss), \A i \in 1..Len(ss) : IsList(ss[i]),
         NEW g, g[0] = <<>>, \A i \in 1..Len(ss) : g[i] = g[i - 1] \o ss[i]
  PROVE  FlattenSeq(ss) = g[Len(ss)]
<1> DEFINE n == Len(ss)
<1> DEFINE S == UNION {ToSet(ss[i]) : i \in 1..Len(ss)}
<1>1. PICK h : Flattens(h, ss, S) /\ FlattenSeq(ss) = h[Len(ss)]
  BY FlatSteps
<1>2. n \in Nat
  BY DEF IsList
<1> HIDE DEF S
<1> DEFINE I == {k \in Nat : k <= n => g[k] = h[k]}
<1>3. 0 \in I
  BY <1>1 DEF Flattens
<1>4. ASSUME NEW k \in Nat, k \in I PROVE k + 1 \in I
  <2> SUFFICES ASSUME k + 1 <= n PROVE g[k + 1] = h[k + 1]
    OBVIOUS
  <2>1. k + 1 \in 1..n /\ (k + 1) - 1 = k /\ g[k] = h[k]
    BY <1>2, <1>4
  <2>2. h[k + 1] = h[k] \o ss[k + 1]
    BY <1>1, <2>1 DEF Flattens
  <2> QED BY <2>1, <2>2
<1> HIDE DEF I
<1>5. n \in I
  BY <1>2, <1>3, <1>4, Induction
<1> QED BY <1>1, <1>5 DEF I

\* Lists of which all are empty ...
LEMMA FlatOfEmpty ==
  ASSUME NEW ss, IsList(ss), \A i \in 1..Len(ss) : ss[i] = <<>>
  PROVE  FlattenSeq(ss) = <<>>
<1> DEFINE g == [i \in 0..Len(ss) |-> <<>>]
<1>1. Len(ss) \in Nat
  BY DEF IsList
<1>2. \A i \in 1..Len(ss) : IsList(ss[i])
  BY NoneIsList
<1>3. <<>> \o <<>> = <<>>
  OBVIOUS
<1>4. g[0] = <<>> /\ g[Len(ss)] = <<>> /\ \A i \in 1..Len(ss) : g[i] = g[i - 1] \o ss[i]
  BY <1>1, <1>3
<1> HIDE DEF g
<1> QED BY <1>2, <1>4, FlatIs

\* ... or all but one.
LEMMA FlatOfSingle ==
  ASSUME NEW ss, IsList(ss), NEW k \in 1..Len(ss), IsList(ss[k]),
         \A i \in 1..Len(ss) : i # k => ss[i] = <<>>
  PROVE  FlattenSeq(ss) = ss[k]
<1> DEFINE g == [i \in 0..Len(ss) |-> IF i < k THEN <<>> ELSE ss[k]]
<1>1. Len(ss) \in Nat /\ ss[k] \in Seq(ToSet(ss[k]))
  BY DEF IsList
<1>2. \A i \in 1..Len(ss) : IsList(ss[i])
  BY NoneIsList
<1>3. <<>> \o <<>> = <<>> /\ <<>> \o ss[k] = ss[k] /\ ss[k] \o <<>> = ss[k]
  BY <1>1
<1>4. g[0] = <<>> /\ g[Len(ss)] = ss[k]
  BY <1>1
<1>5. ASSUME NEW i \in 1..Len(ss) PROVE g[i] = g[i - 1] \o ss[i]
  <2>1. i - 1 \in 0..Len(ss) /\ i \in 0..Len(ss)
    BY <1>1
  <2>2. CASE i < k
    <3>1. g[i] = <<>> /\ g[i - 1] = <<>> /\ ss[i] = <<>>
      BY <1>1, <2>1, <2>2
    <3> QED BY <1>3, <3>1
  <2>3. CASE i = k
    <3>1. g[i] = ss[k] /\ g[i - 1] = <<>>
      BY <1>1, <2>1, <2>3
    <3> QED BY <1>3, <2>3, <3>1
  <2>4. CASE i > k
    <3>1. g[i] = ss[k] /\ g[i - 1] = ss[k] /\ ss[i] = <<>>
      BY <1>1, <2>1, <2>4
    <3> QED BY <1>3, <3>1
  <2>5. i < k \/ i = k \/ i > k
    BY <1>1
  <2> QED BY <2>2, <2>3, <2>4, <2>5
<1> HIDE DEF g
<1> QED BY <1>2, <1>4, <1>5, FlatIs

\* Lists and more lists.
LEMMA FlatJoin ==
  ASSUME NEW a, IsList(a), \A i \in 1..Len(a) : IsList(a[i]),
         NEW b, IsList(b), \A i \in 1..Len(b) : IsList(b[i])
  PROVE  FlattenSeq(a \o b) = FlattenSeq(a) \o FlattenSeq(b)
<1> DEFINE m == Len(a)
<1> DEFINE n == Len(b)
<1> DEFINE A == UNION {ToSet(a[i]) : i \in 1..Len(a)}
<1> DEFINE B == UNION {ToSet(b[i]) : i \in 1..Len(b)}
<1> DEFINE S == A \cup B
<1>1. PICK f : Flattens(f, a, A) /\ FlattenSeq(a) = f[Len(a)]
  BY FlatSteps
<1>2. PICK h : Flattens(h, b, B) /\ FlattenSeq(b) = h[Len(b)]
  BY FlatSteps
<1>3. m \in Nat /\ n \in Nat
  BY DEF IsList
<1> HIDE DEF A, B
<1>4. /\ f \in [0..m -> Seq(A)] /\ f[0] = <<>>
      /\ \A i \in 1..m : a[i] \in Seq(A) /\ f[i] = f[i - 1] \o a[i]
  BY <1>1 DEF Flattens
<1>5. /\ h \in [0..n -> Seq(B)] /\ h[0] = <<>>
      /\ \A i \in 1..n : b[i] \in Seq(B) /\ h[i] = h[i - 1] \o b[i]
  BY <1>2 DEF Flattens
<1>6. \A s : (s \in Seq(A) => s \in Seq(S)) /\ (s \in Seq(B) => s \in Seq(S))
  OBVIOUS
<1> HIDE DEF S
<1>6a. \A x, y, z \in Seq(S) : (x \o y) \o z = x \o (y \o z)
  BY ConcatAssociative
<1> DEFINE g == [k \in 0..(m + n) |-> IF k <= m THEN f[k] ELSE f[m] \o h[k - m]]
<1> DEFINE ss == a \o b
<1>7. Joins(ss, a, b)
  BY ConcatIsList
<1> HIDE DEF ss
<1>8. Len(ss) = m + n /\ IsList(ss) /\ \A i \in 1..m : ss[i] = a[i]
  BY <1>7 DEF Joins
<1>9. \A i \in 1..n : ss[m + i] = b[i]
  BY <1>7 DEF Joins
<1> HIDE DEF m, n
<1>10. f[m] \in Seq(A) /\ f[m] \o <<>> = f[m]
  BY <1>3, <1>4
<1>11. ASSUME NEW k \in 0..n PROVE g[m + k] = f[m] \o h[k]
  <2>1. m + k \in 0..(m + n) /\ (m + k) - m = k /\ (m + k <= m => k = 0)
    BY <1>3
  <2>2. g[m + k] = IF m + k <= m THEN f[m + k] ELSE f[m] \o h[(m + k) - m]
    BY <2>1
  <2> HIDE DEF g
  <2>3. CASE k = 0
    BY <1>3, <1>5, <1>10, <2>2, <2>3
  <2>4. CASE k # 0
    BY <2>1, <2>2, <2>4
  <2> QED BY <2>3, <2>4
<1>12. \A k \in 0..m : g[k] = f[k]
  BY <1>3
<1> HIDE DEF g
<1>13. ASSUME NEW i \in 1..(m + n) PROVE g[i] = g[i - 1] \o ss[i] /\ IsList(ss[i])
  <2>1. CASE i <= m
    <3>1. i \in 1..m /\ i \in 0..m /\ i - 1 \in 0..m
      BY <1>3, <2>1
    <3> QED BY <1>4, <1>8, <1>12, <3>1 DEF m
  <2>2. CASE i > m
    <3> DEFINE k == i - m
    <3>1. k \in 1..n /\ k \in 0..n /\ k - 1 \in 0..n /\ m + k = i /\ m + (k - 1) = i - 1
      BY <1>3, <2>2
    <3> HIDE DEF k
    <3>2. g[i] = f[m] \o h[k] /\ g[i - 1] = f[m] \o h[k - 1] /\ ss[i] = b[k]
      BY <1>9, <1>11, <3>1
    <3>3. h[k] = h[k - 1] \o b[k] /\ h[k - 1] \in Seq(S) /\ b[k] \in Seq(S) /\ f[m] \in Seq(S)
      BY <1>5, <1>6, <1>10, <3>1
    <3>4. (f[m] \o h[k - 1]) \o b[k] = f[m] \o (h[k - 1] \o b[k])
      BY <1>6a, <3>3
    <3>5. IsList(b[k])
      BY <3>1 DEF n
    <3> QED BY <3>2, <3>3, <3>4, <3>5
  <2>3. i <= m \/ i > m
    BY <1>3
  <2> QED BY <2>1, <2>2, <2>3
<1>14. g[0] = <<>>
  BY <1>3, <1>4, <1>12
<1>15. FlattenSeq(ss) = g[Len(ss)]
  BY <1>8, <1>13, <1>14, FlatIs
<1>16. g[Len(ss)] = f[m] \o h[n]
  <2>1. n \in 0..n
    BY <1>3
  <2> QED BY <1>8, <1>11, <2>1
<1> QED BY <1>1, <1>2, <1>15, <1>16 DEF ss, m, n

\* The members of a list and of another one after it.
LEMMA JoinHas ==
  ASSUME NEW s, IsList(s), NEW t, IsList(t)
  PROVE  ToSet(s \o t) \subseteq ToSet(s) \cup ToSet(t)
<1> DEFINE S == ToSet(s) \cup ToSet(t)
<1>1. s \in Seq(ToSet(s)) /\ t \in Seq(ToSet(t))
  BY DEF IsList
<1>2. s \in Seq(S) /\ t \in Seq(S)
  BY <1>1
<1> HIDE DEF S
<1>3. s \o t \in Seq(S)
  BY <1>2
<1>4. ToSet(s \o t) \subseteq S
  BY <1>3, SeqIsList
<1> QED BY <1>4 DEF S

\* Two lists without repetition and without a member in common.
LEMMA InjectiveJoin ==
  ASSUME NEW s, IsList(s), IsInjective(s), NEW t, IsList(t), IsInjective(t),
         ToSet(s) \cap ToSet(t) = {}
  PROVE  IsInjective(s \o t)
<1> DEFINE u == s \o t
<1> DEFINE m == Len(s)
<1>1. Joins(u, s, t)
  BY ConcatIsList
<1> HIDE DEF u
<1>2. /\ m \in Nat /\ DOMAIN s = 1..m /\ \A i \in 1..m : s[i] \in ToSet(s)
      /\ Len(t) \in Nat /\ DOMAIN t = 1..Len(t) /\ \A i \in 1..Len(t) : t[i] \in ToSet(t)
  BY ListDomain
<1>3. DOMAIN u = 1..(m + Len(t)) /\ \A i \in 1..m : u[i] = s[i]
  BY <1>1, ListDomain DEF Joins
<1>4. \A i \in 1..Len(t) : u[m + i] = t[i]
  BY <1>1 DEF Joins
<1> HIDE DEF m
<1>5. \A x \in ToSet(s) : x \notin ToSet(t)
  OBVIOUS
<1>6. (\A a, b \in 1..m : s[a] = s[b] => a = b) /\ \A a, b \in 1..Len(t) : t[a] = t[b] => a = b
  BY <1>2 DEF IsInjective
<1>7. ASSUME NEW i \in 1..(m + Len(t))
      PROVE  i \in 1..m \/ \E k \in 1..Len(t) : i = m + k
  <2>1. i > m => i - m \in 1..Len(t) /\ i = m + (i - m)
    BY <1>2
  <2>2. i <= m => i \in 1..m
    BY <1>2
  <2>3. i > m \/ i <= m
    BY <1>2
  <2> QED BY <2>1, <2>2, <2>3
<1>8. ASSUME NEW a \in 1..m, NEW k \in 1..Len(t) PROVE u[a] # u[m + k]
  BY <1>2, <1>3, <1>4, <1>5
<1>9. ASSUME NEW a \in 1..(m + Len(t)), NEW b \in 1..(m + Len(t)), u[a] = u[b] PROVE a = b
  <2>1. CASE a \in 1..m /\ b \in 1..m
    BY <1>3, <1>6, <1>9, <2>1
  <2>2. CASE \E k \in 1..Len(t) : a = m + k
    <3>1. PICK k \in 1..Len(t) : a = m + k
      BY <2>2
    <3>2. b \notin 1..m
      BY <1>8, <1>9, <3>1
    <3>3. PICK l \in 1..Len(t) : b = m + l
      BY <1>7, <3>2
    <3>4. t[k] = t[l]
      BY <1>4, <1>9, <3>1, <3>3
    <3>5. k = l
      BY <1>6, <3>4
    <3> QED BY <3>1, <3>3, <3>5
  <2>3. CASE a \in 1..m /\ \E k \in 1..Len(t) : b = m + k
    BY <1>8, <1>9, <2>3
  <2> QED BY <1>7, <2>1, <2>2, <2>3
<1>10. IsInjective(u)
  BY <1>3, <1>9 DEF IsInjective
<1> QED BY <1>10 DEF u

\* Many of them.
LEMMA InjectiveFlat ==
  ASSUME NEW ss, IsList(ss), \A i \in 1..Len(ss) : IsList(ss[i]) /\ IsInjective(ss[i]),
         \A i, j \in 1..Len(ss) : i # j => ToSet(ss[i]) \cap ToSet(ss[j]) = {}
  PROVE  IsInjective(FlattenSeq(ss))
<1> DEFINE n == Len(ss)
<1> DEFINE S == UNION {ToSet(ss[i]) : i \in 1..Len(ss)}
<1>1. PICK f : Flattens(f, ss, S) /\ FlattenSeq(ss) = f[Len(ss)]
  BY FlatSteps
<1>2. n \in Nat
  BY DEF IsList
<1> HIDE DEF S
<1>3. /\ f \in [0..n -> Seq(S)] /\ f[0] = <<>>
      /\ \A i \in 1..n : f[i] = f[i - 1] \o ss[i]
  BY <1>1 DEF Flattens
<1> DEFINE I == {k \in Nat : k <= n => IsInjective(f[k])
                                       /\ \A x \in ToSet(f[k]) : \E i \in 1..k : x \in ToSet(ss[i])}
<1>4. 0 \in I
  <2>1. IsInjective(<<>>)
    BY DEF IsInjective
  <2>2. \A x \in ToSet(<<>>) : FALSE
    BY NoneIsList
  <2> QED BY <1>3, <2>1, <2>2
<1>5. ASSUME NEW k \in Nat, k \in I PROVE k + 1 \in I
  <2> SUFFICES ASSUME k + 1 <= n
               PROVE  /\ IsInjective(f[k + 1])
                      /\ \A x \in ToSet(f[k + 1]) : \E i \in 1..(k + 1) : x \in ToSet(ss[i])
    OBVIOUS
  <2>1. k + 1 \in 1..n /\ (k + 1) - 1 = k /\ k \in 0..n
    BY <1>2
  <2>2. IsInjective(f[k]) /\ \A x \in ToSet(f[k]) : \E i \in 1..k : x \in ToSet(ss[i])
    BY <1>2, <1>5
  <2> HIDE DEF I
  <2>3. f[k + 1] = f[k] \o ss[k + 1]
    BY <1>3, <2>1
  <2>4. IsList(f[k])
    <3>1. f[k] \in Seq(S)
      BY <1>3, <2>1
    <3> QED BY <3>1, SeqIsList
  <2>5. \A i \in 1..k : i \in 1..n /\ i # k + 1 /\ i \in 1..(k + 1)
    BY <1>2
  <2>6. ToSet(f[k]) \cap ToSet(ss[k + 1]) = {}
    <3> SUFFICES ASSUME NEW x \in ToSet(f[k]), x \in ToSet(ss[k + 1]) PROVE FALSE
      OBVIOUS
    <3>1. PICK i \in 1..k : x \in ToSet(ss[i])
      BY <2>2
    <3>2. ToSet(ss[i]) \cap ToSet(ss[k + 1]) = {}
      BY <2>1, <2>5
    <3> QED BY <3>1, <3>2
  <2>7. IsList(ss[k + 1]) /\ IsInjective(ss[k + 1])
    BY <2>1
  <2>8. IsInjective(f[k] \o ss[k + 1])
    BY <2>2, <2>4, <2>6, <2>7, InjectiveJoin
  <2>9. ToSet(f[k] \o ss[k + 1]) \subseteq ToSet(f[k]) \cup ToSet(ss[k + 1])
    BY <2>4, <2>7, JoinHas
  <2>10. k + 1 \in 1..(k + 1)
    OBVIOUS
  <2> QED BY <2>2, <2>3, <2>5, <2>8, <2>9, <2>10
<1> HIDE DEF I
<1>6. n \in I
  BY <1>2, <1>4, <1>5, Induction
<1>7. IsInjective(f[n])
  BY <1>2, <1>6 DEF I
<1> QED BY <1>1, <1>7

\* Lists of lists of which each one is as long as three others together.
Adds(ss, aa, bb, cc) ==
  /\ IsList(ss) /\ IsList(aa) /\ IsList(bb) /\ IsList(cc)
  /\ Len(aa) = Len(ss) /\ Len(bb) = Len(ss) /\ Len(cc) = Len(ss)
  /\ \A i \in 1..Len(ss) : /\ IsList(ss[i]) /\ IsList(aa[i]) /\ IsList(bb[i]) /\ IsList(cc[i])
                            /\ Len(ss[i]) = Len(aa[i]) + Len(bb[i]) + Len(cc[i])

\* Their lengths add up.
LEMMA FlatLengths ==
  ASSUME NEW ss, NEW aa, NEW bb, NEW cc, Adds(ss, aa, bb, cc)
  PROVE  Len(FlattenSeq(ss)) = Len(FlattenSeq(aa)) + Len(FlattenSeq(bb)) + Len(FlattenSeq(cc))
<1> SUFFICES ASSUME IsList(ss), IsList(aa), IsList(bb), IsList(cc),
                Len(aa) = Len(ss), Len(bb) = Len(ss), Len(cc) = Len(ss),
                \A i \in 1..Len(ss) :
                   /\ IsList(ss[i]) /\ IsList(aa[i]) /\ IsList(bb[i]) /\ IsList(cc[i])
                   /\ Len(ss[i]) = Len(aa[i]) + Len(bb[i]) + Len(cc[i])
             PROVE  Len(FlattenSeq(ss)) = Len(FlattenSeq(aa)) + Len(FlattenSeq(bb)) + Len(FlattenSeq(cc))
  BY DEF Adds
<1> DEFINE n == Len(ss)
<1> DEFINE S(x) == UNION {ToSet(x[i]) : i \in 1..Len(x)}
<1> DEFINE Counts(g, x) == /\ g[0] = 0 /\ Len(FlattenSeq(x)) = g[Len(x)]
                           /\ g \in [0..Len(x) -> Nat]
                           /\ \A i \in 1..Len(x) : g[i] = g[i - 1] + Len(x[i])
<1>1. ASSUME NEW x, IsList(x), \A i \in 1..Len(x) : IsList(x[i])
      PROVE  \E g : Counts(g, x)
  <2>1. PICK f : Flattens(f, x, S(x)) /\ FlattenSeq(x) = f[Len(x)]
    BY <1>1, FlatSteps
  <2>2. Len(x) \in Nat
    BY <1>1 DEF IsList
  <2> HIDE DEF S
  <2>3. /\ f \in [0..Len(x) -> Seq(S(x))] /\ f[0] = <<>>
        /\ \A i \in 1..Len(x) : x[i] \in Seq(S(x)) /\ f[i] = f[i - 1] \o x[i]
    BY <2>1 DEF Flattens
  <2> DEFINE g == [i \in 0..Len(x) |-> Len(f[i])]
  <2>4. \A i \in 0..Len(x) : f[i] \in Seq(S(x)) /\ Len(f[i]) \in Nat
    BY <2>3
  <2>5. g \in [0..Len(x) -> Nat]
    BY <2>4
  <2>6. g[0] = 0 /\ g[Len(x)] = Len(f[Len(x)])
    BY <2>2, <2>3
  <2>7. ASSUME NEW i \in 1..Len(x) PROVE g[i] = g[i - 1] + Len(x[i])
    <3>1. i \in 0..Len(x) /\ i - 1 \in 0..Len(x)
      BY <2>2
    <3>2. f[i - 1] \in Seq(S(x)) /\ x[i] \in Seq(S(x)) /\ f[i] = f[i - 1] \o x[i]
      BY <2>3, <2>4, <3>1
    <3>3. Len(f[i - 1] \o x[i]) = Len(f[i - 1]) + Len(x[i])
      BY <3>2
    <3> QED BY <3>1, <3>2, <3>3
  <2> HIDE DEF g
  <2>8. Counts(g, x)
    BY <2>1, <2>5, <2>6, <2>7
  <2> QED BY <2>8
<1>2. n \in Nat
  BY DEF IsList
<1>3. PICK g : Counts(g, ss)
  <2> HIDE DEF Counts
  <2> QED BY <1>1
<1>4. PICK a : Counts(a, aa)
  <2> HIDE DEF Counts
  <2> QED BY <1>1
<1>5. PICK b : Counts(b, bb)
  <2> HIDE DEF Counts
  <2> QED BY <1>1
<1>6. PICK c : Counts(c, cc)
  <2> HIDE DEF Counts
  <2> QED BY <1>1
<1> DEFINE I == {k \in Nat : k <= n => g[k] = a[k] + b[k] + c[k]}
<1>7. 0 \in I
  BY <1>3, <1>4, <1>5, <1>6
<1>8. ASSUME NEW k \in Nat, k \in I PROVE k + 1 \in I
  <2> SUFFICES ASSUME k + 1 <= n PROVE g[k + 1] = a[k + 1] + b[k + 1] + c[k + 1]
    OBVIOUS
  <2>1. k + 1 \in 1..n /\ (k + 1) - 1 = k /\ k \in 0..n
    BY <1>2
  <2>2. g[k] = a[k] + b[k] + c[k]
    BY <1>2, <1>8
  <2> HIDE DEF I
  <2>3. g[k + 1] = g[k] + Len(ss[k + 1]) /\ a[k + 1] = a[k] + Len(aa[k + 1])
    BY <1>3, <1>4, <2>1
  <2>4. b[k + 1] = b[k] + Len(bb[k + 1]) /\ c[k + 1] = c[k] + Len(cc[k + 1])
    BY <1>5, <1>6, <2>1
  <2>5. Len(ss[k + 1]) = Len(aa[k + 1]) + Len(bb[k + 1]) + Len(cc[k + 1])
    BY <2>1
  <2>6. a[k] \in Nat /\ b[k] \in Nat /\ c[k] \in Nat
    BY <1>4, <1>5, <1>6, <2>1
  <2>7. Len(aa[k + 1]) \in Nat /\ Len(bb[k + 1]) \in Nat /\ Len(cc[k + 1]) \in Nat
    BY <2>1 DEF IsList
  <2>9. g[k + 1] = (a[k] + b[k] + c[k]) + (Len(aa[k + 1]) + Len(bb[k + 1]) + Len(cc[k + 1]))
    BY <2>2, <2>3, <2>5, Zenon
  <2>10. (a[k] + b[k] + c[k]) + (Len(aa[k + 1]) + Len(bb[k + 1]) + Len(cc[k + 1]))
         = (a[k] + Len(aa[k + 1])) + (b[k] + Len(bb[k + 1])) + (c[k] + Len(cc[k + 1]))
    <3> DEFINE p == a[k]
    <3> DEFINE q == b[k]
    <3> DEFINE r == c[k]
    <3> DEFINE x == Len(aa[k + 1])
    <3> DEFINE y == Len(bb[k + 1])
    <3> DEFINE z == Len(cc[k + 1])
    <3>1. p \in Nat /\ q \in Nat /\ r \in Nat /\ x \in Nat /\ y \in Nat /\ z \in Nat
      BY <2>6, <2>7
    <3> HIDE DEF p, q, r, x, y, z
    <3>2. (p + q + r) + (x + y + z) = (p + x) + (q + y) + (r + z)
      BY <3>1
    <3> QED BY <3>2 DEF p, q, r, x, y, z
  <2> QED BY <2>3, <2>4, <2>9, <2>10, Zenon
<1> HIDE DEF I
<1>9. n \in I
  BY <1>2, <1>7, <1>8, Induction
<1>10. g[n] = a[n] + b[n] + c[n]
  BY <1>2, <1>9 DEF I
<1> QED BY <1>3, <1>4, <1>5, <1>6, <1>10

\* Some events in a row.
LEMMA FewAreLists ==
  ASSUME NEW a, NEW b, NEW c, NEW d, NEW e, NEW f, NEW g, NEW h
  PROVE  /\ IsList(<<a, b>>) /\ IsList(<<a, b, c>>)
         /\ IsList(<<a, b, c, d, e>>)
         /\ IsList(<<a, b, c, d, e, f, g, h>>)
<1>1. <<a, b>> \in Seq({a, b})
  OBVIOUS
<1>2. <<a, b, c>> \in Seq({a, b, c})
  OBVIOUS
<1>3. <<a, b, c, d, e>> \in Seq({a, b, c, d, e})
  OBVIOUS
<1>4. <<a, b, c, d, e, f, g, h>> \in Seq({a, b, c, d, e, f, g, h})
  OBVIOUS
<1> QED BY <1>1, <1>2, <1>3, <1>4, SeqIsList

\* Lists joined in one order or the other.
LEMMA JoinAgain ==
  ASSUME NEW s, IsList(s), NEW t, IsList(t), NEW u, IsList(u)
  PROVE  (s \o t) \o u = s \o (t \o u)
<1> DEFINE S == ToSet(s) \cup ToSet(t) \cup ToSet(u)
<1>1. s \in Seq(ToSet(s)) /\ t \in Seq(ToSet(t)) /\ u \in Seq(ToSet(u))
  BY DEF IsList
<1>2. s \in Seq(S) /\ t \in Seq(S) /\ u \in Seq(S)
  BY <1>1
<1> HIDE DEF S
<1>3. \A x, y, z \in Seq(S) : (x \o y) \o z = x \o (y \o z)
  BY ConcatAssociative
<1> QED BY <1>2, <1>3

\* ... to none.
LEMMA JoinNone ==
  ASSUME NEW s, IsList(s)
  PROVE  <<>> \o s = s /\ s \o <<>> = s
<1>1. s \in Seq(ToSet(s))
  BY DEF IsList
<1> QED BY <1>1

\* Lists of the same members.
LEMMA ListsAreEqual ==
  ASSUME NEW s, NEW t, IsList(s), IsList(t), Len(s) = Len(t), \A i \in 1..Len(s) : s[i] = t[i]
  PROVE  s = t
<1>1. Len(s) \in Nat /\ s = [i \in 1..Len(s) |-> s[i]] /\ t = [i \in 1..Len(t) |-> t[i]]
  BY DEF IsList
<1> QED BY <1>1

\* A list and one more member.
LEMMA RowIs ==
  ASSUME NEW s, IsList(s), NEW n \in Nat, Len(s) = n, NEW x,
         NEW t, IsList(t), Len(t) = n + 1, \A i \in 1..n : t[i] = s[i], t[n + 1] = x
  PROVE  s \o <<x>> = t
<1> DEFINE X == <<x>>
<1> DEFINE u == s \o X
<1>1. IsList(X) /\ Len(X) = 1 /\ X[1] = x
  BY OneIsList
<1> HIDE DEF X
<1>2. Joins(u, s, X)
  BY <1>1, ConcatIsList
<1> HIDE DEF u
<1>3. IsList(u) /\ Len(u) = n + 1 /\ (\A i \in 1..n : u[i] = s[i]) /\ u[n + 1] = x
  <2>1. 1 \in 1..1
    OBVIOUS
  <2> QED BY <1>1, <1>2, <2>1 DEF Joins
<1>4. \A i \in 1..(n + 1) : i \in 1..n \/ i = n + 1
  OBVIOUS
<1>5. \A i \in 1..Len(u) : u[i] = t[i]
  BY <1>3, <1>4
<1>6. u = t
  BY <1>3, <1>5, ListsAreEqual
<1> QED BY <1>6 DEF u, X

\* Two in a row ...
LEMMA RowOfTwo ==
  ASSUME NEW a, NEW b
  PROVE  <<a>> \o <<b>> = <<a, b>>
<1> DEFINE s == <<a>>
<1> DEFINE t == <<a, b>>
<1>1. IsList(s) /\ IsList(t)
  BY OneIsList, FewAreLists
<1>2. Len(s) = 1 /\ s[1] = a /\ Len(t) = 2 /\ t[1] = a /\ t[2] = b
  OBVIOUS
<1>3. 1 + 1 = 2 /\ \A i \in 1..1 : i = 1
  OBVIOUS
<1> HIDE DEF s, t
<1>4. 1 \in Nat /\ Len(s) = 1 /\ Len(t) = 1 + 1 /\ t[1 + 1] = b /\ \A i \in 1..1 : t[i] = s[i]
  BY <1>2, <1>3
<1>5. s \o <<b>> = t
  BY <1>1, <1>4, RowIs, Zenon
<1> QED BY <1>5 DEF s, t

\* ... and three.
LEMMA RowOfThree ==
  ASSUME NEW a, NEW b, NEW c
  PROVE  <<a, b>> \o <<c>> = <<a, b, c>>
<1> DEFINE s == <<a, b>>
<1> DEFINE t == <<a, b, c>>
<1>1. IsList(s) /\ IsList(t)
  BY FewAreLists
<1>2. Len(s) = 2 /\ s[1] = a /\ s[2] = b /\ Len(t) = 3 /\ t[1] = a /\ t[2] = b /\ t[3] = c
  OBVIOUS
<1>3. 2 + 1 = 3 /\ \A i \in 1..2 : i = 1 \/ i = 2
  OBVIOUS
<1> HIDE DEF s, t
<1>4. 2 \in Nat /\ Len(s) = 2 /\ Len(t) = 2 + 1 /\ t[2 + 1] = c /\ \A i \in 1..2 : t[i] = s[i]
  BY <1>2, <1>3
<1>5. s \o <<c>> = t
  BY <1>1, <1>4, RowIs, Zenon
<1> QED BY <1>5 DEF s, t

\* Four lists in a row.
LEMMA FourInARow ==
  ASSUME NEW a, IsList(a), NEW b, IsList(b), NEW c, IsList(c), NEW d, IsList(d)
  PROVE  (a \o b) \o (c \o d) = (a \o (b \o c)) \o d
<1>1. (a \o b) \o c = a \o (b \o c)
  BY JoinAgain
<1>2. ASSUME NEW s, IsList(s) PROVE s \o (c \o d) = (s \o c) \o d
  BY <1>2, JoinAgain
<1>3. IsList(a \o b)
  BY ConcatList
<1>4. (a \o b) \o (c \o d) = ((a \o b) \o c) \o d
  BY <1>2, <1>3
<1> QED BY <1>1, <1>4

\* One list after the other, by a name of its own: what is known of it is the lemmas.
Chain(s, t) == s \o t

\* It is a list, and none adds nothing.
LEMMA Chained ==
  ASSUME NEW s, IsList(s), NEW t, IsList(t)
  PROVE  IsList(Chain(s, t)) /\ Chain(s, <<>>) = s /\ Chain(<<>>, s) = s
BY ConcatList, JoinNone DEF Chain

\* One list after the other, counted and without repetition.
LEMMA ChainCounts ==
  ASSUME NEW s, IsList(s), NEW t, IsList(t)
  PROVE  /\ Len(Chain(s, t)) = Len(s) + Len(t)
         /\ ToSet(Chain(s, t)) \subseteq ToSet(s) \cup ToSet(t)
         /\ IsInjective(s) /\ IsInjective(t) /\ ToSet(s) \cap ToSet(t) = {} => IsInjective(Chain(s, t))
<1>1. Len(s \o t) = Len(s) + Len(t)
  BY ConcatIsList DEF Joins
<1>2. ToSet(s \o t) \subseteq ToSet(s) \cup ToSet(t)
  BY JoinHas
<1>3. IsInjective(s) /\ IsInjective(t) /\ ToSet(s) \cap ToSet(t) = {} => IsInjective(s \o t)
  BY InjectiveJoin
<1> QED BY <1>1, <1>2, <1>3 DEF Chain

\* A list of one.
LEMMA OneIsInjective ==
  ASSUME NEW x
  PROVE  IsList(<<x>>) /\ IsInjective(<<x>>) /\ ToSet(<<x>>) = {x} /\ Len(<<x>>) = 1
<1> DEFINE s == <<x>>
<1>1. IsList(s) /\ Len(s) = 1 /\ s[1] = x /\ DOMAIN s = 1..1
  BY OneIsList
<1> HIDE DEF s
<1>2. \A k \in 1..1 : k = 1
  OBVIOUS
<1>3. 1 \in 1..1
  OBVIOUS
<1>4. ToSet(s) = {x}
  BY <1>1, <1>2, <1>3 DEF ToSet
<1>5. IsInjective(s)
  BY <1>1, <1>2 DEF IsInjective
<1> QED BY <1>1, <1>4, <1>5 DEF s

\* Lists of one, one after another.
LEMMA FlatOfOnes ==
  ASSUME NEW ss, IsList(ss), \A i \in 1..Len(ss) : IsList(ss[i]) /\ Len(ss[i]) = 1
  PROVE  Len(FlattenSeq(ss)) = Len(ss)
<1> DEFINE n == Len(ss)
<1> DEFINE S == UNION {ToSet(ss[i]) : i \in 1..Len(ss)}
<1>1. PICK f : Flattens(f, ss, S) /\ FlattenSeq(ss) = f[Len(ss)]
  BY FlatSteps
<1>2. n \in Nat
  BY DEF IsList
<1> HIDE DEF S
<1>3. /\ f \in [0..n -> Seq(S)] /\ f[0] = <<>>
      /\ \A i \in 1..n : f[i] = f[i - 1] \o ss[i]
  BY <1>1 DEF Flattens
<1> DEFINE I == {k \in Nat : k <= n => Len(f[k]) = k}
<1>4. 0 \in I
  BY <1>3
<1>5. ASSUME NEW k \in Nat, k \in I PROVE k + 1 \in I
  <2>1. ASSUME k + 1 <= n PROVE Len(f[k + 1]) = k + 1
    <3>1. k + 1 \in 1..n /\ (k + 1) - 1 = k /\ k \in 0..n /\ Len(f[k]) = k
      BY <1>2, <1>5, <2>1
    <3>2. IsList(f[k])
      BY <1>3, <3>1, SeqIsList
    <3>3. IsList(ss[k + 1]) /\ Len(ss[k + 1]) = 1
      BY <3>1
    <3>4. Len(f[k] \o ss[k + 1]) = Len(f[k]) + Len(ss[k + 1])
      <4>1. PICK u, v : u = f[k] /\ v = ss[k + 1] /\ IsList(u) /\ IsList(v)
        BY <3>2, <3>3
      <4>2. Len(Chain(u, v)) = Len(u) + Len(v)
        BY <4>1, ChainCounts
      <4>3. Chain(f[k], ss[k + 1]) = Chain(u, v)
        BY <4>1
      <4> QED BY <4>1, <4>2, <4>3 DEF Chain
    <3>5. f[k + 1] = f[k] \o ss[k + 1]
      BY <1>3, <3>1
    <3> HIDE DEF I
    <3> QED BY <3>1, <3>3, <3>4, <3>5
  <2> QED BY <2>1
<1> HIDE DEF I
<1>6. n \in I
  BY <1>2, <1>4, <1>5, Induction
<1>7. Len(f[n]) = n
  BY <1>2, <1>6 DEF I
<1> QED BY <1>1, <1>7

\* Every member on a list of its own.
LEMMA OnesOf ==
  ASSUME NEW s, IsList(s)
  PROVE  LET ss == [i \in DOMAIN s |-> <<s[i]>>] IN
         /\ IsList(ss) /\ Len(ss) = Len(s)
         /\ \A i \in 1..Len(ss) : IsList(ss[i]) /\ Len(ss[i]) = 1
         /\ IsList(FlattenSeq(ss)) /\ Len(FlattenSeq(ss)) = Len(s)
<1> DEFINE ss == [i \in DOMAIN s |-> <<s[i]>>]
<1>1. Len(s) \in Nat /\ DOMAIN s = 1..Len(s)
  BY ListDomain
<1>2. ss = [i \in 1..Len(s) |-> ss[i]] /\ \A i \in 1..Len(s) : ss[i] = <<s[i]>>
  BY <1>1
<1> HIDE DEF ss
<1>3. IsList(ss) /\ Len(ss) = Len(s)
  BY <1>1, <1>2, FunctionIsList
<1>4. \A i \in 1..Len(ss) : IsList(ss[i]) /\ Len(ss[i]) = 1
  BY <1>2, <1>3, OneIsInjective
<1>5. IsList(FlattenSeq(ss)) /\ Len(FlattenSeq(ss)) = Len(ss)
  BY <1>3, <1>4, FlatOfOnes, FlatIsList
<1> QED BY <1>3, <1>4, <1>5 DEF ss

-----------------------------------------------------------------------------
(* An element within an envelope.                                          *)

\* What an event does to the depth ...
Rise(e) == CASE e.ev = "start" -> 1
             [] e.ev = "end"   -> -1
             [] OTHER          -> 0

\* ... and the depths within a document, from none to none.
Depths(d, doc) == /\ d \in [0..Len(doc) -> Nat]
                  /\ d[0] = 0 /\ d[Len(doc)] = 0
                  /\ \A k \in 1..Len(doc) : d[k] = d[k - 1] + Rise(doc[k])

\* Elements with all that is in them, none of them like those of an envelope.
Nested(doc) == Inner(doc) /\ \E d : Depths(d, doc)

\* No element, ...
LEMMA NestedNone == Nested(<<>>)
<1> DEFINE none == <<>>
<1> DEFINE d == [k \in 0..0 |-> 0]
<1>1. Len(none) = 0 /\ IsList(none)
  BY NoneIsList
<1> HIDE DEF none
<1>2. Depths(d, none)
  BY <1>1 DEF Depths
<1>3. Inner(none)
  BY <1>1 DEF Inner
<1> QED BY <1>2, <1>3 DEF Nested, none

\* ... an event that neither begins nor ends one, ...
LEMMA NestedOne ==
  ASSUME NEW e, ~IsHeader(e), e.ev \notin {"start", "end"}
  PROVE  Nested(<<e>>)
<1> DEFINE doc == <<e>>
<1> DEFINE d == [k \in 0..1 |-> 0]
<1>1. Len(doc) = 1 /\ doc[1] = e /\ IsList(doc)
  BY OneIsList
<1> HIDE DEF doc
<1>2. Rise(e) = 0
  BY DEF Rise
<1>3. d \in [0..1 -> Nat] /\ d[0] = 0 /\ d[1] = 0
  OBVIOUS
<1> HIDE DEF d
<1>4. \A k \in 1..Len(doc) : k = 1
  BY <1>1
<1>5. Depths(d, doc)
  BY <1>1, <1>2, <1>3, <1>4 DEF Depths
<1>6. Inner(doc)
  BY <1>1, <1>4 DEF Inner
<1> QED BY <1>5, <1>6 DEF Nested, doc

\* The members of a list and of another one after it are those of both.
LEMMA InnerJoin ==
  ASSUME NEW s, Inner(s), NEW t, Inner(t)
  PROVE  Inner(s \o t) /\ Joins(s \o t, s, t) /\ Len(s) \in Nat /\ Len(t) \in Nat
<1> DEFINE u == s \o t
<1> DEFINE m == Len(s)
<1>1. Joins(u, s, t) /\ m \in Nat /\ Len(t) \in Nat
  BY ConcatIsList, ListDomain DEF Inner
<1> HIDE DEF u
<1>2. ASSUME NEW k \in 1..Len(u) PROVE ~IsHeader(u[k])
  <2>1. CASE k <= m
    <3>1. k \in 1..m
      BY <1>1, <2>1
    <3> QED BY <1>1, <3>1 DEF Joins, Inner
  <2>2. CASE k > m
    <3> DEFINE l == k - m
    <3>1. l \in 1..Len(t) /\ k = m + l
      BY <1>1, <2>2 DEF Joins
    <3> HIDE DEF l
    <3> QED BY <1>1, <3>1 DEF Joins, Inner
  <2>3. k <= m \/ k > m
    BY <1>1
  <2> QED BY <2>1, <2>2, <2>3
<1>3. Inner(u)
  BY <1>1, <1>2 DEF Inner, Joins
<1> QED BY <1>1, <1>3 DEF u

\* ... such documents one after the other, ...
LEMMA NestedJoin ==
  ASSUME NEW s, Nested(s), NEW t, Nested(t)
  PROVE  Nested(s \o t)
<1> DEFINE u == s \o t
<1> DEFINE m == Len(s)
<1> DEFINE n == Len(t)
<1>1. Inner(u) /\ Joins(u, s, t) /\ m \in Nat /\ n \in Nat
  BY InnerJoin DEF Nested
<1> HIDE DEF u
<1>2. PICK f : Depths(f, s)
  BY DEF Nested
<1>3. PICK h : Depths(h, t)
  BY DEF Nested
<1>4. /\ f \in [0..m -> Nat] /\ f[0] = 0 /\ f[m] = 0
      /\ \A k \in 1..m : f[k] = f[k - 1] + Rise(s[k])
  BY <1>2 DEF Depths
<1>5. /\ h \in [0..n -> Nat] /\ h[0] = 0 /\ h[n] = 0
      /\ \A k \in 1..n : h[k] = h[k - 1] + Rise(t[k])
  BY <1>3 DEF Depths
<1>6. Len(u) = m + n /\ (\A k \in 1..m : u[k] = s[k]) /\ \A k \in 1..n : u[m + k] = t[k]
  BY <1>1 DEF Joins
<1> HIDE DEF m, n
<1> DEFINE d == [k \in 0..(m + n) |-> IF k <= m THEN f[k] ELSE h[k - m]]
<1>7. \A k \in 0..m : d[k] = f[k]
  BY <1>1
<1>8. ASSUME NEW k \in 0..n PROVE d[m + k] = h[k]
  <2>1. m + k \in 0..(m + n) /\ (m + k) - m = k /\ (m + k <= m => k = 0)
    BY <1>1
  <2>2. d[m + k] = IF m + k <= m THEN f[m + k] ELSE h[(m + k) - m]
    BY <2>1
  <2> HIDE DEF d
  <2>3. CASE k = 0
    BY <1>1, <1>4, <1>5, <2>2, <2>3
  <2>4. CASE k # 0
    BY <2>1, <2>2, <2>4
  <2> QED BY <2>3, <2>4
<1>9. d \in [0..(m + n) -> Nat]
  <2>1. ASSUME NEW k \in 0..(m + n) PROVE (IF k <= m THEN f[k] ELSE h[k - m]) \in Nat
    <3>1. k <= m => k \in 0..m
      BY <1>1
    <3>2. ~(k <= m) => k - m \in 0..n
      BY <1>1
    <3> QED BY <1>4, <1>5, <3>1, <3>2
  <2> QED BY <2>1
<1> HIDE DEF d
<1>10. ASSUME NEW k \in 1..(m + n) PROVE d[k] = d[k - 1] + Rise(u[k])
  <2>1. CASE k <= m
    <3>1. k \in 1..m /\ k \in 0..m /\ k - 1 \in 0..m
      BY <1>1, <2>1
    <3> QED BY <1>4, <1>6, <1>7, <3>1
  <2>2. CASE k > m
    <3> DEFINE l == k - m
    <3>1. l \in 1..n /\ l \in 0..n /\ l - 1 \in 0..n /\ k = m + l /\ k - 1 = m + (l - 1)
      BY <1>1, <2>2
    <3> HIDE DEF l
    <3>2. d[k] = h[l] /\ d[k - 1] = h[l - 1] /\ u[k] = t[l]
      BY <1>6, <1>8, <3>1
    <3> QED BY <1>5, <3>1, <3>2
  <2>3. k <= m \/ k > m
    BY <1>1
  <2> QED BY <2>1, <2>2, <2>3
<1>11. d[0] = 0 /\ d[m + n] = 0
  <2>1. 0 \in 0..m /\ n \in 0..n
    BY <1>1
  <2> QED BY <1>4, <1>5, <1>7, <1>8, <2>1
<1>12. Depths(d, u)
  BY <1>6, <1>9, <1>10, <1>11 DEF Depths
<1> QED BY <1>1, <1>12 DEF Nested, u

\* ... and many of them.
LEMMA NestedFlat ==
  ASSUME NEW ss, IsList(ss), \A i \in 1..Len(ss) : Nested(ss[i])
  PROVE  Nested(FlattenSeq(ss))
<1> DEFINE n == Len(ss)
<1> DEFINE S == UNION {ToSet(ss[i]) : i \in 1..Len(ss)}
<1>1. PICK f : Flattens(f, ss, S) /\ FlattenSeq(ss) = f[Len(ss)]
  <2>1. \A i \in 1..Len(ss) : IsList(ss[i])
    BY DEF Nested, Inner
  <2> QED BY <2>1, FlatSteps
<1>2. n \in Nat
  BY DEF IsList
<1> HIDE DEF S
<1>3. f[0] = <<>> /\ \A i \in 1..n : f[i] = f[i - 1] \o ss[i]
  BY <1>1 DEF Flattens
<1> DEFINE I == {k \in Nat : k <= n => Nested(f[k])}
<1>4. 0 \in I
  BY <1>3, NestedNone
<1>5. ASSUME NEW k \in Nat, k \in I PROVE k + 1 \in I
  <2> SUFFICES ASSUME k + 1 <= n PROVE Nested(f[k + 1])
    OBVIOUS
  <2>1. k + 1 \in 1..n /\ (k + 1) - 1 = k /\ Nested(f[k])
    BY <1>2, <1>5
  <2>2. Nested(f[k] \o ss[k + 1])
    BY <2>1, NestedJoin
  <2> QED BY <1>3, <2>1, <2>2
<1> HIDE DEF I
<1>6. n \in I
  BY <1>2, <1>4, <1>5, Induction
<1>7. Nested(f[n])
  BY <1>2, <1>6 DEF I
<1> QED BY <1>1, <1>7

\* A document within an element: at the depth of one more, and outside of it at the
\* ends alone.
Within(doc, first, inside, last) ==
  /\ Inner(doc) /\ Len(doc) = Len(inside) + 2 /\ Len(inside) \in Nat
  /\ doc[1] = first /\ doc[Len(doc)] = last
  /\ \E d : /\ Depths(d, doc)
            /\ \A k \in 1..(Len(doc) - 1) : d[k] > 0

\* Such is what has a start tag before it and an end tag after it.
LEMMA NestedWithin ==
  ASSUME NEW t, Nested(t), NEW a, ~IsHeader(a), a.ev = "start", NEW z, ~IsHeader(z), z.ev = "end"
  PROVE  Within((<<a>> \o t) \o <<z>>, a, t, z) /\ Nested((<<a>> \o t) \o <<z>>)
<1> DEFINE most == <<a>> \o t
<1> DEFINE u == most \o <<z>>
<1> DEFINE n == Len(t)
<1>1. \A x : IsList(<<x>>) /\ Len(<<x>>) = 1 /\ <<x>>[1] = x
  BY OneIsList
<1>2. Inner(<<a>>) /\ Inner(<<z>>)
  BY <1>1 DEF Inner
<1>3. Inner(most) /\ Joins(most, <<a>>, t) /\ n \in Nat
  BY <1>2, InnerJoin DEF Nested
<1>4. Inner(u) /\ Joins(u, most, <<z>>)
  <2> HIDE DEF most
  <2> QED BY <1>2, <1>3, InnerJoin
<1>5. /\ Len(most) = 1 + n /\ most[1] = a
      /\ \A k \in 1..n : most[1 + k] = t[k]
  <2>1. 1 \in 1..1
    OBVIOUS
  <2> QED BY <1>1, <1>3, <2>1 DEF Joins
<1> HIDE DEF most
<1>6. /\ Len(u) = n + 2 /\ u[1] = a /\ u[n + 2] = z
      /\ \A k \in 1..n : u[1 + k] = t[k]
  <2>1. 1 \in 1..1 /\ 1 \in 1..(1 + n) /\ (1 + n) + 1 = n + 2
    BY <1>3
  <2>2. Len(u) = (1 + n) + 1 /\ (\A k \in 1..(1 + n) : u[k] = most[k]) /\ u[(1 + n) + 1] = z
    BY <1>1, <1>4, <1>5, <2>1 DEF Joins
  <2>3. \A k \in 1..n : 1 + k \in 1..(1 + n)
    BY <1>3
  <2> QED BY <1>5, <2>1, <2>2, <2>3
<1> HIDE DEF u
<1>7. PICK f : Depths(f, t)
  BY DEF Nested
<1>8. /\ f \in [0..n -> Nat] /\ f[0] = 0 /\ f[n] = 0
      /\ \A k \in 1..n : f[k] = f[k - 1] + Rise(t[k])
  BY <1>7 DEF Depths
<1> HIDE DEF n
<1> DEFINE d == [k \in 0..(n + 2) |-> IF k \in 1..(n + 1) THEN f[k - 1] + 1 ELSE 0]
<1>9. d[0] = 0 /\ d[n + 2] = 0
  BY <1>3
<1>10. ASSUME NEW k \in 0..n PROVE d[k + 1] = f[k] + 1
  <2>1. k + 1 \in 0..(n + 2) /\ k + 1 \in 1..(n + 1) /\ (k + 1) - 1 = k
    BY <1>3
  <2> QED BY <2>1
<1>11. d \in [0..(n + 2) -> Nat]
  <2>1. ASSUME NEW k \in 0..(n + 2) PROVE (IF k \in 1..(n + 1) THEN f[k - 1] + 1 ELSE 0) \in Nat
    <3>1. k \in 1..(n + 1) => k - 1 \in 0..n
      BY <1>3
    <3> QED BY <1>8, <3>1
  <2> QED BY <2>1
<1> HIDE DEF d
<1>12. Rise(a) = 1 /\ Rise(z) = -1
  BY DEF Rise
<1>13. d[1] = 1 /\ d[n + 1] = 1
  <2>1. 0 \in 0..n /\ n \in 0..n /\ 0 + 1 = 1
    BY <1>3
  <2> QED BY <1>8, <1>10, <2>1
<1>14. ASSUME NEW k \in 1..(n + 2) PROVE d[k] = d[k - 1] + Rise(u[k])
  <2>1. CASE k = 1
    BY <1>6, <1>9, <1>12, <1>13, <2>1
  <2>2. CASE k = n + 2
    <3>1. k - 1 = n + 1
      BY <1>3, <2>2
    <3> QED BY <1>6, <1>9, <1>12, <1>13, <2>2, <3>1
  <2>3. CASE k # 1 /\ k # n + 2
    <3> DEFINE l == k - 1
    <3>1. l \in 1..n /\ l \in 0..n /\ l - 1 \in 0..n /\ k = l + 1 /\ k - 1 = (l - 1) + 1 /\ k = 1 + l
      BY <1>3, <2>3
    <3> HIDE DEF l
    <3>2. d[k] = f[l] + 1 /\ d[k - 1] = f[l - 1] + 1 /\ u[k] = t[l]
      BY <1>6, <1>10, <3>1
    <3>3. f[l] = f[l - 1] + Rise(t[l]) /\ f[l - 1] \in Nat
      BY <1>8, <3>1
    <3>4. Rise(t[l]) \in Int
      BY DEF Rise
    <3> QED BY <3>2, <3>3, <3>4
  <2> QED BY <2>1, <2>2, <2>3
<1>15. Depths(d, u)
  BY <1>6, <1>9, <1>11, <1>14 DEF Depths
<1>16. ASSUME NEW k \in 1..(Len(u) - 1) PROVE d[k] > 0
  <2>1. k - 1 \in 0..n /\ (k - 1) + 1 = k
    BY <1>3, <1>6
  <2>2. d[k] = f[k - 1] + 1 /\ f[k - 1] \in Nat
    BY <1>8, <1>10, <2>1
  <2> QED BY <2>2
<1>17. Within(u, a, t, z)
  BY <1>3, <1>4, <1>6, <1>15, <1>16 DEF Within, n
<1>18. Nested(u)
  BY <1>4, <1>15 DEF Nested
<1> QED BY <1>17, <1>18 DEF u, most

\* The first k members of a list, and one more.
LEMMA PrefixGrows ==
  ASSUME NEW s, IsList(s), NEW k \in Nat, k + 1 \in 1..Len(s)
  PROVE  /\ Append(SubSeq(s, 1, k), s[k + 1]) = SubSeq(s, 1, k + 1)
         /\ SubSeq(s, 1, 0) = <<>> /\ SubSeq(s, 1, Len(s)) = s
<1> DEFINE S == ToSet(s)
<1>1. s \in Seq(S) /\ s[k + 1] \in S /\ Len(s) \in Nat
  BY ListDomain DEF IsList
<1> HIDE DEF S
<1>2. 1 \in 1..Len(s) /\ k + 1 \in 1..Len(s) /\ (k + 1) - 1 = k
  BY <1>1
<1>3. SubSeq(s, 1, k + 1) = SubSeq(s, 1, k) \o <<s[k + 1]>>
  BY <1>1, <1>2, SubSeqRecursiveSecond
<1>4. SubSeq(s, 1, k) \in Seq(S)
  BY <1>1, <1>2, SubSeqProperties
<1>5. Append(SubSeq(s, 1, k), s[k + 1]) = SubSeq(s, 1, k) \o <<s[k + 1]>>
  BY <1>1, <1>4, AppendIsConcat
<1>6. SubSeq(s, 1, 0) = <<>>
  BY SubSeqEmpty
<1>7. SubSeq(s, 1, Len(s)) = s
  BY <1>1, SubSeqFull
<1> QED BY <1>3, <1>5, <1>6, <1>7

\* What extract_element has found so far ...
Found(deep, done, out) == [depth |-> deep, done |-> done, out |-> out]

\* ... of a document up to each event.
Lifts(s, doc, tag) == /\ s[0] = Found(0, FALSE, <<>>)
                      /\ \A k \in 1..Len(doc) : s[k] = Lift(tag, s[k - 1], doc[k])

\* extract_element goes through the document.
LEMMA LiftSteps ==
  ASSUME NEW doc, IsList(doc), NEW tag
  PROVE  \E s : /\ Lifts(s, doc, tag)
                /\ ExtractElement(doc, tag) = IF s[Len(doc)].done THEN s[Len(doc)].out ELSE <<>>
<1> DEFINE n == Len(doc)
<1> DEFINE E == ToSet(doc)
<1> DEFINE none == Found(0, FALSE, <<>>)
<1> DEFINE V == [depth : Int, done : BOOLEAN, out : Seq(E)]
<1>1. n \in Nat /\ \A k \in 1..n : doc[k] \in E
  BY ListDomain
<1> HIDE DEF E
<1>2. none \in V
  BY DEF Found
<1> DEFINE Rec(f) == f = [k \in 0..Len(doc) |->
                            IF k = 0 THEN [depth |-> 0, done |-> FALSE, out |-> <<>>]
                            ELSE Lift(tag, f[k - 1], doc[k])]
<1> DEFINE step == [p \in (1..n) \X V |-> Lift(tag, p[2], doc[p[1]])]
<1>3. ASSUME NEW k \in 1..n, NEW h \in V PROVE Lift(tag, h, doc[k]) \in V
  <2> DEFINE e == doc[k]
  <2> DEFINE deep == CASE e.ev = "start" -> h.depth + 1
                       [] e.ev = "end"   -> h.depth - 1
                       [] OTHER          -> h.depth
  <2>1. e \in E
    BY <1>1
  <2>2. Lift(tag, h, e) = IF h.done \/ (h.depth = 0 /\ ~(e.ev \in {"start", "empty"} /\ e.tag = tag)) THEN h
                          ELSE [depth |-> deep, done |-> deep = 0, out |-> Append(h.out, e)]
    BY DEF Lift
  <2> HIDE DEF e
  <2>3. deep \in Int /\ h.out \in Seq(E)
    OBVIOUS
  <2> HIDE DEF deep
  <2>4. Append(h.out, e) \in Seq(E)
    BY <2>1, <2>3
  <2>5. [depth |-> deep, done |-> deep = 0, out |-> Append(h.out, e)] \in V
    BY <2>3, <2>4
  <2> HIDE DEF V
  <2> QED BY <2>2, <2>5 DEF e
<1> HIDE DEF V, none
<1>4. step \in [(1..n) \X V -> V]
  BY <1>3
<1>5. PICK f : Recursive(f, n, V, none, step)
  <2> HIDE DEF step, n
  <2> QED BY <1>1, <1>2, <1>4, RecursionExists
<1>6. f \in [0..n -> V] /\ f[0] = none
  BY <1>5 DEF Recursive
<1>7. \A k \in 1..n : f[k] = Lift(tag, f[k - 1], doc[k])
  <2>1. ASSUME NEW k \in 1..n PROVE f[k] = Lift(tag, f[k - 1], doc[k])
    <3>1. k - 1 \in 0..n
      BY <1>1
    <3>2. f[k - 1] \in V /\ <<k, f[k - 1]>> \in (1..n) \X V
      BY <1>6, <3>1
    <3>3. f[k] = step[<<k, f[k - 1]>>]
      BY <1>5 DEF Recursive
    <3> HIDE DEF n
    <3> QED BY <3>2, <3>3
  <2> QED BY <2>1
<1> HIDE DEF step
<1>8. Rec(f)
  <2>1. \A k \in 0..n : f[k] = IF k = 0 THEN [depth |-> 0, done |-> FALSE, out |-> <<>>]
                               ELSE Lift(tag, f[k - 1], doc[k])
    BY <1>1, <1>6, <1>7 DEF none, Found
  <2> QED BY <2>1, <1>6
<1> DEFINE s == CHOOSE g : Rec(g)
<1>9. Rec(s)
  BY <1>8
<1>10. ExtractElement(doc, tag) = IF s[Len(doc)].done THEN s[Len(doc)].out ELSE <<>>
  BY DEF ExtractElement
<1> HIDE DEF s
<1>11. Lifts(s, doc, tag)
  <2>1. \A k \in 0..n : s[k] = IF k = 0 THEN [depth |-> 0, done |-> FALSE, out |-> <<>>]
                               ELSE Lift(tag, s[k - 1], doc[k])
    BY <1>9
  <2> QED BY <1>1, <2>1 DEF Lifts, Found
<1> QED BY <1>10, <1>11

\* Before the element, ...
LEMMA LiftBefore ==
  ASSUME NEW tag, NEW e, e.tag # tag
  PROVE  Lift(tag, Found(0, FALSE, <<>>), e) = Found(0, FALSE, <<>>)
<1> DEFINE s == Found(0, FALSE, <<>>)
<1>1. s.depth = 0 /\ s.done = FALSE
  BY DEF Found
<1> HIDE DEF s
<1>2. Lift(tag, s, e) = s
  BY <1>1 DEF Lift
<1> QED BY <1>2 DEF s

\* ... at its beginning, ...
LEMMA LiftBegins ==
  ASSUME NEW e, e.ev = "start"
  PROVE  Lift(e.tag, Found(0, FALSE, <<>>), e) = Found(1, FALSE, Append(<<>>, e))
<1> DEFINE s == Found(0, FALSE, <<>>)
<1> DEFINE out == Append(s.out, e)
<1>1. s.depth = 0 /\ s.done = FALSE /\ s.out = <<>>
  BY DEF Found
<1> HIDE DEF s
<1>2. out = Append(<<>>, e)
  BY <1>1
<1>3. Lift(e.tag, s, e) = [depth |-> s.depth + 1, done |-> s.depth + 1 = 0, out |-> out]
  BY <1>1 DEF Lift
<1> HIDE DEF out
<1>4. s.depth + 1 = 1 /\ (s.depth + 1 = 0) = FALSE
  BY <1>1
<1>5. Lift(e.tag, s, e) = Found(1, FALSE, out)
  BY <1>3, <1>4 DEF Found
<1> QED BY <1>2, <1>5 DEF s

\* ... within it ...
LEMMA LiftInside ==
  ASSUME NEW tag, NEW e, NEW deep \in Nat, deep # 0, NEW out
  PROVE  Lift(tag, Found(deep, FALSE, out), e)
           = Found(deep + Rise(e), deep + Rise(e) = 0, Append(out, e))
  BY DEF Lift, Found, Rise

\* ... and after it.
LEMMA LiftAfter ==
  ASSUME NEW tag, NEW e, NEW s, s.done
  PROVE  Lift(tag, s, e) = s
  BY DEF Lift

\* The element that a request carries is lifted out of it, all of it and nothing else,
\* however deep it is: extract_element ends at the end tag that brings the depth back
\* to none (xml.rs lines 141 to 187).
THEOREM ElementIsLifted ==
  ASSUME NEW guid, NEW method, NEW xml, NEW first, NEW inside, NEW last,
         Within(xml, first, inside, last), first.ev = "start", first.tag \notin {"sdk", "in"}
  PROVE  ExtractElement(EncodeRequest(guid, method, xml), first.tag) = xml
<1> DEFINE tag == first.tag
<1> DEFINE n == Len(xml)
<1> DEFINE doc == EncodeRequest(guid, method, xml)
<1> DEFINE begin == Open("sdk", [guid |-> guid])
<1> DEFINE next == Open("in", [method |-> method])
<1>1. Inner(xml) /\ IsList(xml) /\ n \in Nat /\ n >= 2 /\ xml[1] = first
  BY ListDomain DEF Within, Inner
<1>2. PICK d : Depths(d, xml) /\ \A k \in 1..(n - 1) : d[k] > 0
  BY DEF Within
<1>3. \E third, fourth : Between(doc, begin, next, xml, third, fourth)
  BY <1>1, WrapIsList DEF EncodeRequest
<1> HIDE DEF doc
<1>4. IsList(doc) /\ Len(doc) = n + 4 /\ doc[1] = begin /\ doc[2] = next
      /\ \A k \in 1..n : doc[k + 2] = xml[k]
  BY <1>3 DEF Between
<1>5. begin.tag = "sdk" /\ next.tag = "in"
  BY DEF Open
<1> HIDE DEF begin, next
<1>6. PICK s : /\ Lifts(s, doc, tag)
               /\ ExtractElement(doc, tag) = IF s[Len(doc)].done THEN s[Len(doc)].out ELSE <<>>
  BY <1>4, LiftSteps
<1>7. /\ s[0] = Found(0, FALSE, <<>>)
      /\ \A k \in 1..(n + 4) : s[k] = Lift(tag, s[k - 1], doc[k])
  BY <1>4, <1>6 DEF Lifts
<1>8. /\ d \in [0..n -> Nat] /\ d[0] = 0 /\ d[n] = 0
      /\ \A k \in 1..n : d[k] = d[k - 1] + Rise(xml[k])
  BY <1>2 DEF Depths
<1> HIDE DEF n
<1>9. s[2] = Found(0, FALSE, <<>>)
  <2>1. s[1] = Lift(tag, s[0], begin) /\ s[2] = Lift(tag, s[1], next)
    <3>1. 1 \in 1..(n + 4) /\ 2 \in 1..(n + 4) /\ 1 - 1 = 0 /\ 2 - 1 = 1
      BY <1>1
    <3> QED BY <1>4, <1>7, <3>1
  <2>2. begin.tag # tag /\ next.tag # tag
    BY <1>5
  <2> HIDE DEF tag
  <2>3. s[1] = Found(0, FALSE, <<>>)
    <3>1. Lift(tag, Found(0, FALSE, <<>>), begin) = Found(0, FALSE, <<>>)
      BY <2>2, LiftBefore, Zenon
    <3> QED BY <1>7, <2>1, <3>1, Zenon
  <2>4. Lift(tag, Found(0, FALSE, <<>>), next) = Found(0, FALSE, <<>>)
    BY <2>2, LiftBefore, Zenon
  <2> QED BY <2>1, <2>3, <2>4, Zenon
<1> DEFINE I == {k \in Nat : k + 1 < n => s[k + 3] = Found(d[k + 1], FALSE, SubSeq(xml, 1, k + 1))}
<1>10. 0 \in I
  <2>1. 3 \in 1..(n + 4) /\ 3 - 1 = 2 /\ 1 + 2 = 3 /\ 1 \in 1..n /\ 1 - 1 = 0
    BY <1>1
  <2>2. s[3] = Lift(tag, s[2], first)
    BY <1>1, <1>4, <1>7, <2>1
  <2>3. s[3] = Found(1, FALSE, Append(<<>>, first))
    BY <1>9, <2>2, LiftBegins
  <2>4. d[1] = 1
    <3>1. Rise(first) = 1
      BY DEF Rise
    <3> QED BY <1>1, <1>8, <2>1, <3>1
  <2>5. Append(<<>>, first) = SubSeq(xml, 1, 1)
    <3>1. 0 + 1 = 1 /\ 0 + 1 \in 1..Len(xml) /\ 0 \in Nat
      BY <1>1 DEF n
    <3>2. Append(SubSeq(xml, 1, 0), xml[0 + 1]) = SubSeq(xml, 1, 0 + 1) /\ SubSeq(xml, 1, 0) = <<>>
      BY <1>1, <3>1, PrefixGrows
    <3> QED BY <1>1, <3>1, <3>2
  <2>6. s[3] = Found(d[1], FALSE, SubSeq(xml, 1, 1))
    BY <2>3, <2>4, <2>5
  <2>7. 0 + 3 = 3 /\ 0 + 1 = 1
    OBVIOUS
  <2>8. s[0 + 3] = Found(d[0 + 1], FALSE, SubSeq(xml, 1, 0 + 1))
    BY <2>6, <2>7
  <2> QED BY <2>8
<1>11. ASSUME NEW k \in 1..(n - 1), s[k + 2] = Found(d[k], FALSE, SubSeq(xml, 1, k))
       PROVE  s[k + 3] = Found(d[k + 1], d[k + 1] = 0, SubSeq(xml, 1, k + 1))
  <2>1. k + 1 \in 1..n /\ k \in 0..n /\ k + 3 \in 1..(n + 4) /\ (k + 3) - 1 = k + 2 /\ (k + 1) - 1 = k
        /\ (k + 1) + 2 = k + 3 /\ k \in Nat
    BY <1>1
  <2>2. s[k + 3] = Lift(tag, s[k + 2], xml[k + 1])
    BY <1>4, <1>7, <2>1
  <2>3. d[k] \in Nat /\ d[k] # 0 /\ d[k + 1] = d[k] + Rise(xml[k + 1])
    BY <1>2, <1>8, <2>1
  <2>4. Append(SubSeq(xml, 1, k), xml[k + 1]) = SubSeq(xml, 1, k + 1)
    BY <1>1, <2>1, PrefixGrows DEF n
  <2>5. s[k + 3] = Found(d[k] + Rise(xml[k + 1]), d[k] + Rise(xml[k + 1]) = 0,
                         Append(SubSeq(xml, 1, k), xml[k + 1]))
    <3> HIDE DEF tag
    <3> DEFINE out == SubSeq(xml, 1, k)
    <3> DEFINE deep == d[k]
    <3> DEFINE e == xml[k + 1]
    <3> HIDE DEF out, deep, e
    <3>1. deep \in Nat /\ deep # 0
      BY <2>3 DEF deep
    <3>2. Lift(tag, Found(deep, FALSE, out), e) = Found(deep + Rise(e), deep + Rise(e) = 0, Append(out, e))
      BY <3>1, LiftInside, Zenon
    <3>3. s[k + 3] = Lift(tag, Found(deep, FALSE, out), e)
      BY <1>11, <2>2, Zenon DEF deep, out, e
    <3> QED BY <3>2, <3>3, Zenon DEF deep, out, e
  <2> QED BY <2>3, <2>4, <2>5
<1>12. ASSUME NEW k \in Nat, k \in I PROVE k + 1 \in I
  <2>1. ASSUME (k + 1) + 1 < n
        PROVE  s[(k + 1) + 3] = Found(d[(k + 1) + 1], FALSE, SubSeq(xml, 1, (k + 1) + 1))
    <3>1. k + 1 \in 1..(n - 1) /\ k + 3 = (k + 1) + 2 /\ k + 1 < n /\ (k + 1) + 1 \in 1..(n - 1)
      BY <1>1, <2>1
    <3>2. s[(k + 1) + 2] = Found(d[k + 1], FALSE, SubSeq(xml, 1, k + 1))
      BY <1>12, <3>1
    <3> HIDE DEF I
    <3>3. s[(k + 1) + 3] = Found(d[(k + 1) + 1], d[(k + 1) + 1] = 0, SubSeq(xml, 1, (k + 1) + 1))
      BY <1>11, <3>1, <3>2
    <3>4. d[(k + 1) + 1] > 0
      BY <1>2, <3>1 DEF n
    <3>5. (d[(k + 1) + 1] = 0) = FALSE
      <4> HIDE DEF I
      <4> QED BY <3>4
    <3> QED BY <3>3, <3>5, Zenon
  <2>2. k + 1 \in Nat
    OBVIOUS
  <2> QED BY <2>1, <2>2, Zenon DEF I
<1> HIDE DEF I
<1>13. s[n + 1] = Found(d[n - 1], FALSE, SubSeq(xml, 1, n - 1))
  <2>1. n - 2 \in Nat /\ (n - 2) + 1 = n - 1 /\ (n - 2) + 3 = n + 1 /\ n - 1 < n
    BY <1>1
  <2>2. n - 2 \in I
    BY <1>10, <1>12, <2>1, Induction
  <2> QED BY <2>1, <2>2 DEF I
<1>14. s[n + 2] = Found(0, TRUE, xml)
  <2>1. n - 1 \in 1..(n - 1) /\ (n - 1) + 2 = n + 1 /\ (n - 1) + 3 = n + 2 /\ (n - 1) + 1 = n
        /\ 0 + 1 \in 1..Len(xml) /\ 0 \in Nat
    BY <1>1 DEF n
  <2>2. s[n + 2] = Found(d[n], d[n] = 0, SubSeq(xml, 1, n))
    BY <1>11, <1>13, <2>1
  <2>3. SubSeq(xml, 1, n) = xml
    BY <1>1, <2>1, PrefixGrows DEF n
  <2> QED BY <1>8, <2>2, <2>3
<1>15. s[n + 4] = Found(0, TRUE, xml)
  <2>1. n + 3 \in 1..(n + 4) /\ n + 4 \in 1..(n + 4) /\ (n + 3) - 1 = n + 2 /\ (n + 4) - 1 = n + 3
    BY <1>1
  <2>2. s[n + 3] = Lift(tag, s[n + 2], doc[n + 3]) /\ s[n + 4] = Lift(tag, s[n + 3], doc[n + 4])
    BY <1>7, <2>1
  <2>3. s[n + 2].done
    BY <1>14 DEF Found
  <2> HIDE DEF tag
  <2>4. s[n + 3] = s[n + 2]
    BY <2>2, <2>3, LiftAfter
  <2>5. s[n + 4] = s[n + 3]
    BY <2>2, <2>3, <2>4, LiftAfter
  <2> QED BY <1>14, <2>4, <2>5
<1>16. s[Len(doc)].done /\ s[Len(doc)].out = xml
  BY <1>4, <1>15 DEF Found
<1> QED BY <1>6, <1>16 DEF doc
=============================================================================
