-------------------------- MODULE ConnectionProofs --------------------------
(***************************************************************************)
(* IInv of ConnectionInv is an inductive invariant of Connection, the      *)
(* safety properties of Connection follow from it, and every connection is *)
(* a Session.                                                              *)
(*                                                                         *)
(* First what the steps do to the mutex and to the wire.  Most actions     *)
(* leave the wire and the queue alone; what they preserve follows from two *)
(* frame lemmas, WireFrame and MutexFrame.  The actions that move frames   *)
(* or pieces of them are treated one by one, from lemmas on sequences.     *)
(* Then each conjunct of IInv has its lemma, with a step for every kind of *)
(* action.  Last, the steps of Connection are seen through Owner,          *)
(* poisoned, trips and InFlight: they are steps of Session or change       *)
(* nothing.                                                                *)
(***************************************************************************)
EXTENDS ConnectionInv, SequenceTheorems, TLAPS

USE DEF lockVars, guardVars, tripVars, uploadVars, deviceVars, wireVars, Goto, Outcome

-----------------------------------------------------------------------------
(* Sequences.                                                              *)

\* What is left after the first element is taken off.
LEMMA TailFacts == ASSUME NEW D, NEW s \in Seq(D), s # <<>>
                   PROVE  /\ Tail(s) \in Seq(D)
                          /\ Len(Tail(s)) = Len(s) - 1
                          /\ Len(s) \in Nat \ {0}
                          /\ Head(s) = s[1] /\ Head(s) \in D
                          /\ \A i \in 1..Len(s) - 1 : Tail(s)[i] = s[i + 1]
  OBVIOUS

\* What an element added at the end changes.
LEMMA AppendFacts == ASSUME NEW D, NEW s \in Seq(D), NEW e \in D
                     PROVE  /\ Append(s, e) \in Seq(D)
                            /\ Len(Append(s, e)) = Len(s) + 1
                            /\ \A i \in 1..Len(s) : Append(s, e)[i] = s[i]
                            /\ Append(s, e)[Len(s) + 1] = e
  OBVIOUS

\* What is left after the element at i is taken out: the queue without a task.
LEMMA RemoveAtFacts == ASSUME NEW D, NEW s \in Seq(D), NEW i \in 1..Len(s)
                       PROVE  /\ RemoveAt(s, i) \in Seq(D)
                              /\ Len(RemoveAt(s, i)) = Len(s) - 1
                              /\ \A j \in 1..Len(s) - 1 :
                                   RemoveAt(s, i)[j] = IF j < i THEN s[j] ELSE s[j + 1]
<1> DEFINE a == SubSeq(s, 1, i - 1)
           b == SubSeq(s, i + 1, Len(s))
<1>1. Len(s) \in Nat
  OBVIOUS
<1>2. /\ a \in Seq(D) /\ Len(a) = i - 1
      /\ \A j \in 1..i - 1 : a[j] = s[j]
  BY <1>1
<1>3. /\ b \in Seq(D) /\ Len(b) = Len(s) - i
      /\ \A j \in 1..Len(s) - i : b[j] = s[i + j]
  BY <1>1
<1>4. RemoveAt(s, i) = a \o b
  BY DEF RemoveAt
<1> HIDE DEF a, b
<1>5. a \o b \in Seq(D) /\ Len(a \o b) = Len(s) - 1
  <2>1. a \in Seq(D) /\ b \in Seq(D)
    BY <1>2, <1>3
  <2>2. a \o b \in Seq(D) /\ Len(a \o b) = Len(a) + Len(b)
    BY <2>1
  <2>3. (i - 1) + (Len(s) - i) = Len(s) - 1
    BY <1>1
  <2> QED BY <1>2, <1>3, <2>2, <2>3
<1>6. ASSUME NEW j \in 1..Len(s) - 1
      PROVE  (a \o b)[j] = IF j < i THEN s[j] ELSE s[j + 1]
  <2>1. CASE j < i
    <3>1. j \in 1..Len(a)
      BY <1>1, <1>2, <2>1
    <3>2. (a \o b)[j] = a[j]
      BY <1>2, <1>3, <3>1
    <3> QED BY <1>1, <1>2, <2>1, <3>2
  <2>2. CASE ~(j < i)
    <3>1. j - Len(a) \in 1..Len(b) /\ j \in 1..Len(a) + Len(b) /\ j > Len(a)
      BY <1>1, <1>2, <1>3, <2>2
    <3>2. (a \o b)[j] = b[j - Len(a)]
      BY <1>2, <1>3, <3>1
    <3>3. b[j - Len(a)] = s[i + (j - Len(a))]
      BY <1>1, <1>2, <1>3, <3>1
    <3>4. i + (j - Len(a)) = j + 1
      BY <1>1, <1>2
    <3> QED BY <2>2, <3>2, <3>3, <3>4
  <2> QED BY <2>1, <2>2
<1> QED BY <1>4, <1>5, <1>6

\* A sequence is its first element and the rest.
LEMMA FirstAndRest ==
  ASSUME NEW D, NEW h \in D, NEW r \in Seq(D)
  PROVE  /\ <<h>> \o r \in Seq(D)
         /\ Tail(<<h>> \o r) = r
<1> DEFINE c == <<h>> \o r
<1>1. <<h>> \in Seq(D) /\ Len(<<h>>) = 1 /\ Len(r) \in Nat
  OBVIOUS
<1>2. c \in Seq(D) /\ Len(c) = 1 + Len(r)
  BY <1>1, ConcatProperties
<1>3. \A i \in 1..Len(r) : c[i + 1] = r[i]
  <2> TAKE i \in 1..Len(r)
  <2>1. i + 1 \in 1..Len(<<h>>) + Len(r) /\ ~(i + 1 <= Len(<<h>>)) /\ (i + 1) - Len(<<h>>) = i
    BY <1>1
  <2> QED BY <1>1, <2>1, ConcatProperties
<1> HIDE DEF c
<1>4. /\ Tail(c) \in Seq(D) /\ Len(Tail(c)) = Len(r)
      /\ \A i \in 1..Len(r) : Tail(c)[i] = c[i + 1]
  BY <1>1, <1>2, TailFacts
<1>5. Tail(c) = r
  BY <1>3, <1>4, SeqEqual
<1> QED BY <1>2, <1>5 DEF c

\* A sequence is its first element and the rest.
LEMMA TakenApart ==
  ASSUME NEW D, NEW s \in Seq(D), s # <<>>
  PROVE  s = <<Head(s)>> \o Tail(s)
<1> DEFINE h == Head(s)
           r == Tail(s)
           c == <<h>> \o r
<1>1. /\ h \in D /\ h = s[1] /\ r \in Seq(D) /\ Len(r) = Len(s) - 1 /\ Len(s) \in Nat \ {0}
      /\ \A i \in 1..Len(s) - 1 : r[i] = s[i + 1]
  BY TailFacts
<1> HIDE DEF h, r
<1>2. <<h>> \in Seq(D) /\ Len(<<h>>) = 1 /\ <<h>>[1] = h
  BY <1>1
<1>3. c \in Seq(D) /\ Len(c) = Len(s)
  BY <1>1, <1>2, ConcatProperties
<1>4. ASSUME NEW i \in 1..Len(s) PROVE c[i] = s[i]
  <2>1. i \in 1..Len(<<h>>) + Len(r)
    BY <1>1, <1>2
  <2>2. CASE i = 1
    BY <1>1, <1>2, <2>1, <2>2, ConcatProperties
  <2>3. CASE i # 1
    <3>1. ~(i <= Len(<<h>>)) /\ i - Len(<<h>>) = i - 1 /\ i - 1 \in 1..Len(s) - 1 /\ (i - 1) + 1 = i
      BY <1>1, <1>2, <2>3
    <3>2. c[i] = r[i - 1]
      BY <1>1, <1>2, <2>1, <3>1, ConcatProperties
    <3> QED BY <1>1, <3>1, <3>2
  <2> QED BY <2>2, <2>3
<1>5. c = s
  BY <1>3, <1>4, SeqEqual
<1> QED BY <1>5 DEF h, r

\* Moving the first element of what waits to the end of what is under way changes
\* nothing of the whole.
LEMMA PieceMoves ==
  ASSUME NEW D, NEW s \in Seq(D), NEW w \in Seq(D), w # <<>>
  PROVE  Append(s, Head(w)) \o Tail(w) = s \o w
<1>1. Head(w) \in D /\ Tail(w) \in Seq(D)
  BY TailFacts
<1>2. <<Head(w)>> \in Seq(D)
  BY <1>1
<1>3. Append(s, Head(w)) = s \o <<Head(w)>>
  BY <1>1, AppendIsConcat
<1>4. (s \o <<Head(w)>>) \o Tail(w) = s \o (<<Head(w)>> \o Tail(w))
  BY <1>1, <1>2, ConcatAssociative
<1>5. w = <<Head(w)>> \o Tail(w)
  BY TakenApart
<1> QED BY <1>3, <1>4, <1>5

\* To take the first of what is under way is to take the first of the whole.
LEMMA PieceTaken ==
  ASSUME NEW D, NEW s \in Seq(D), NEW w \in Seq(D), s # <<>>
  PROVE  Tail(s) \o w = Tail(s \o w)
<1>1. Head(s) \in D /\ Tail(s) \in Seq(D)
  BY TailFacts
<1>2. <<Head(s)>> \in Seq(D) /\ Tail(s) \o w \in Seq(D)
  BY <1>1, ConcatProperties
<1>3. s = <<Head(s)>> \o Tail(s)
  BY TakenApart
<1>4. (<<Head(s)>> \o Tail(s)) \o w = <<Head(s)>> \o (Tail(s) \o w)
  BY <1>1, <1>2, ConcatAssociative
<1>5. Tail(<<Head(s)>> \o (Tail(s) \o w)) = Tail(s) \o w
  BY <1>1, <1>2, FirstAndRest
<1> QED BY <1>3, <1>4, <1>5

-----------------------------------------------------------------------------
(* The mutex.                                                              *)

\* A step that leaves owner and queue alone, takes only the owner out of the wait,
\* lets only the owner into an exchange and no owner out preserves MutexInv.
LEMMA MutexFrame ==
  ASSUME TypeOK, MutexInv, holder' = holder, waiters' = waiters,
         \A u \in Tasks : /\ pc[u] = "lock" => pc'[u] = "lock" \/ u = holder
                          /\ pc'[u] \in Critical => pc[u] \in Critical \/ u = holder
                          /\ u = holder => pc'[u] \in Critical \cup {"lock"}
  PROVE  MutexInv'
<1>1. waiters \in Seq(Tasks) /\ holder \in Tasks \cup {None}
  BY DEF TypeOK, LinkType
<1>2. \A u \in Tasks : pc'[u] \in Critical => holder' = u
  BY DEF MutexInv
<1>3. \A i \in 1..Len(waiters) : pc'[waiters[i]] = "lock" /\ waiters[i] # holder
  <2> TAKE i \in 1..Len(waiters)
  <2>1. waiters[i] \in Tasks
    BY <1>1
  <2>2. pc[waiters[i]] = "lock" /\ waiters[i] # holder
    BY DEF MutexInv
  <2> QED BY <2>1, <2>2
<1>4. holder' # None => pc'[holder'] \in Critical \cup {"lock"}
  BY <1>1
<1> QED BY <1>2, <1>3, <1>4 DEF MutexInv

\* A task outside the wait and the exchanges takes the mutex or queues for it.
LEMMA AcquireKeeps ==
  ASSUME TypeOK, MutexInv, NEW t \in Tasks, Acquire(t), pc[t] # "lock", pc[t] \notin Critical
  PROVE  /\ holder' \in Tasks \cup {None} /\ waiters' \in Seq(Tasks)
         /\ MutexInv'
<1>0. /\ waiters \in Seq(Tasks) /\ Len(waiters) \in Nat /\ holder \in Tasks \cup {None}
      /\ pc' = [pc EXCEPT ![t] = "lock"] /\ pc \in [Tasks -> Stops]
  BY DEF TypeOK, LinkType, TaskType, Acquire
<1>1. \A u \in Tasks : pc'[u] \in Critical => pc[u] \in Critical /\ holder = u /\ u # t
  BY <1>0 DEF MutexInv, Critical
<1>2. \A i \in 1..Len(waiters) : waiters[i] \in Tasks /\ waiters[i] # t /\ pc'[waiters[i]] = "lock"
  <2> TAKE i \in 1..Len(waiters)
  <2>1. waiters[i] \in Tasks
    BY <1>0
  <2>2. pc[waiters[i]] = "lock"
    BY DEF MutexInv
  <2> QED BY <1>0, <2>1, <2>2
<1>3. CASE holder = None
  <2>1. holder' = t /\ waiters' = waiters
    BY <1>3 DEF Acquire
  <2>2. \A u \in Tasks : pc'[u] \in Critical => holder' = u
    BY <1>1, <1>3, TaskAssumption
  <2>3. \A i \in 1..Len(waiters') : pc'[waiters'[i]] = "lock" /\ waiters'[i] # holder'
    BY <1>2, <2>1
  <2>4. \A i, j \in 1..Len(waiters') : waiters'[i] = waiters'[j] => i = j
    BY <2>1 DEF MutexInv
  <2>5. pc'[t] = "lock"
    BY <1>0
  <2> QED BY <1>0, <2>1, <2>2, <2>3, <2>4, <2>5 DEF MutexInv
<1>4. CASE holder # None
  <2>1. holder' = holder /\ waiters' = Append(waiters, t)
    BY <1>4 DEF Acquire
  <2>2. /\ waiters' \in Seq(Tasks) /\ Len(waiters') = Len(waiters) + 1
        /\ \A i \in 1..Len(waiters) : waiters'[i] = waiters[i]
        /\ waiters'[Len(waiters) + 1] = t
    BY <1>0, <2>1, AppendFacts
  <2>3. \A u \in Tasks : pc'[u] \in Critical => holder' = u
    BY <1>1, <2>1
  <2>4. holder \in Tasks /\ holder # t /\ pc'[holder] \in Critical \cup {"lock"}
    BY <1>0, <1>4 DEF MutexInv
  <2>5. \A i \in 1..Len(waiters') : pc'[waiters'[i]] = "lock" /\ waiters'[i] # holder'
    <3> TAKE i \in 1..Len(waiters')
    <3>1. CASE i = Len(waiters) + 1
      BY <1>0, <2>1, <2>2, <2>4, <3>1
    <3>2. CASE i \in 1..Len(waiters)
      BY <1>2, <2>1, <2>2, <3>2 DEF MutexInv
    <3> QED BY <1>0, <2>2, <3>1, <3>2
  <2>6. \A i, j \in 1..Len(waiters') : waiters'[i] = waiters'[j] => i = j
    <3>1. \A i \in 1..Len(waiters') : i = Len(waiters) + 1 \/ i \in 1..Len(waiters)
      BY <1>0, <2>2
    <3>2. \A i, j \in 1..Len(waiters) : waiters[i] = waiters[j] => i = j
      BY DEF MutexInv
    <3> QED BY <1>2, <2>2, <3>1, <3>2
  <2> QED BY <1>0, <2>1, <2>2, <2>3, <2>4, <2>5, <2>6 DEF MutexInv
<1> QED BY <1>3, <1>4

\* The mutex is handed over to the first waiter, or becomes free.
LEMMA ReleaseKeeps ==
  ASSUME TypeOK, MutexInv, NEW t \in Tasks, holder = t, Release,
         NEW where, pc' = [pc EXCEPT ![t] = where], where \notin Critical
  PROVE  /\ holder' \in Tasks \cup {None} /\ waiters' \in Seq(Tasks)
         /\ MutexInv'
<1>0. waiters \in Seq(Tasks) /\ Len(waiters) \in Nat /\ pc \in [Tasks -> Stops]
  BY DEF TypeOK, LinkType, TaskType
<1>1. \A u \in Tasks : pc'[u] \notin Critical
  BY <1>0 DEF MutexInv
<1>2. \A i \in 1..Len(waiters) : waiters[i] \in Tasks /\ pc'[waiters[i]] = "lock"
  BY <1>0 DEF MutexInv
<1>3. CASE waiters = <<>>
  <2>1. holder' = None /\ waiters' = <<>>
    BY <1>3 DEF Release
  <2> QED BY <1>0, <1>1, <1>3, <2>1 DEF MutexInv
<1>4. CASE waiters # <<>>
  <2>1. holder' = waiters[1] /\ waiters' = Tail(waiters)
    BY <1>0, <1>4, TailFacts DEF Release
  <2>2. /\ waiters' \in Seq(Tasks) /\ Len(waiters') = Len(waiters) - 1
        /\ \A i \in 1..Len(waiters) - 1 : waiters'[i] = waiters[i + 1]
        /\ 1 \in 1..Len(waiters)
    BY <1>0, <1>4, <2>1, TailFacts
  <2>3. \A i \in 1..Len(waiters') : i + 1 \in 1..Len(waiters) /\ i + 1 # 1
    BY <1>0, <2>2
  <2>4. \A i, j \in 1..Len(waiters) : waiters[i] = waiters[j] => i = j
    BY DEF MutexInv
  <2>5. \A i \in 1..Len(waiters') : pc'[waiters'[i]] = "lock" /\ waiters'[i] # holder'
    BY <1>2, <2>1, <2>2, <2>3, <2>4
  <2>6. \A i, j \in 1..Len(waiters') : waiters'[i] = waiters'[j] => i = j
    <3> TAKE i, j \in 1..Len(waiters')
    <3>1. i \in Int /\ j \in Int /\ (i + 1 = j + 1 => i = j)
      OBVIOUS
    <3> QED BY <2>2, <2>3, <2>4, <3>1
  <2>7. holder' \in Tasks /\ pc'[holder'] = "lock"
    BY <1>2, <2>1, <2>2
  <2> QED BY <1>1, <2>2, <2>5, <2>6, <2>7 DEF MutexInv
<1> QED BY <1>3, <1>4

\* A task that gives up waiting hands on what it was given, or leaves the queue.
LEMMA WithdrawKeeps ==
  ASSUME TypeOK, MutexInv, NEW t \in Tasks, pc[t] = "lock", Withdraw(t),
         NEW where, pc' = [pc EXCEPT ![t] = where], where \notin Critical
  PROVE  /\ holder' \in Tasks \cup {None} /\ waiters' \in Seq(Tasks)
         /\ MutexInv'
<1>0. /\ waiters \in Seq(Tasks) /\ Len(waiters) \in Nat /\ pc \in [Tasks -> Stops]
      /\ holder \in Tasks \cup {None}
  BY DEF TypeOK, LinkType, TaskType
<1>1. CASE holder = t
  BY <1>1, ReleaseKeeps DEF Withdraw
<1>2. CASE holder # t
  <2>1. PICK k \in 1..Len(waiters) : /\ waiters[k] = t
                                     /\ waiters' = RemoveAt(waiters, k)
                                     /\ holder' = holder
    BY <1>2 DEF Withdraw
  <2>2. /\ waiters' \in Seq(Tasks) /\ Len(waiters') = Len(waiters) - 1
        /\ \A j \in 1..Len(waiters) - 1 :
             waiters'[j] = IF j < k THEN waiters[j] ELSE waiters[j + 1]
    BY <1>0, <2>1, RemoveAtFacts
  <2> DEFINE f(j) == IF j < k THEN j ELSE j + 1
  <2>3. \A j \in 1..Len(waiters') : /\ f(j) \in 1..Len(waiters) /\ f(j) # k
                                    /\ waiters'[j] = waiters[f(j)]
    BY <1>0, <2>2
  <2>4. \A i, j \in 1..Len(waiters') : f(i) = f(j) => i = j
    OBVIOUS
  <2>5. \A i, j \in 1..Len(waiters) : waiters[i] = waiters[j] => i = j
    BY DEF MutexInv
  <2> HIDE DEF f
  <2>6. \A i, j \in 1..Len(waiters') : waiters'[i] = waiters'[j] => i = j
    BY <2>3, <2>4, <2>5
  <2>7. \A i \in 1..Len(waiters') : pc'[waiters'[i]] = "lock" /\ waiters'[i] # holder'
    <3> TAKE i \in 1..Len(waiters')
    <3>1. waiters[f(i)] \in Tasks /\ pc[waiters[f(i)]] = "lock" /\ waiters[f(i)] # holder
      BY <1>0, <2>3 DEF MutexInv
    <3>2. waiters[f(i)] # t
      BY <2>1, <2>3, <2>5
    <3> QED BY <1>0, <2>1, <2>3, <3>1, <3>2
  <2>8. \A u \in Tasks : pc'[u] \in Critical => holder' = u
    BY <1>0, <2>1 DEF MutexInv
  <2>9. holder' # None => pc'[holder'] \in Critical \cup {"lock"}
    BY <1>0, <1>2, <2>1 DEF MutexInv
  <2> QED BY <1>0, <2>1, <2>2, <2>6, <2>7, <2>8, <2>9 DEF MutexInv
<1> QED BY <1>1, <1>2

-----------------------------------------------------------------------------
(* The wire.                                                               *)

\* Where a task is that has something to expect of the wire.
Busy == {"send", "flush", "read", "yield"}

\* A step that leaves the wire alone, brings no one into an exchange and disarms no
\* guard of a sound connection without cause preserves WireInv.
LEMMA WireFrame ==
  ASSUME WireInv, UNCHANGED <<wbuf, toDev, toCli, answering, trips>>,
         \A u \in Tasks : pc'[u] \in Busy => /\ pc'[u] = pc[u] /\ op'[u] = op[u]
                                             /\ left'[u] = left[u] /\ trip'[u] = trip[u],
         (~poisoned' /\ \A u \in Tasks : ~armed'[u]) => (~poisoned /\ \A u \in Tasks : ~armed[u])
  PROVE  WireInv'
<1>1. YoungestInv'
  BY DEF WireInv, YoungestInv, Busy, Codec
<1>2. SendInv'
  BY DEF WireInv, SendInv, Busy, Silent, Codec
<1>3. FlushInv'
  BY DEF WireInv, FlushInv, Busy
<1>4. ReadInv'
  BY DEF WireInv, ReadInv, Busy, Codec
<1>5. YieldInv'
  BY DEF WireInv, YieldInv, Busy, Silent, Codec
<1>6. QuietWhenFree'
  BY DEF WireInv, QuietWhenFree, Silent, Codec
<1> QED BY <1>1, <1>2, <1>3, <1>4, <1>5, <1>6 DEF WireInv

\* A silent wire satisfies whatever is asked of it by tasks that are not writing or reading.
LEMMA SilentSuffices ==
  ASSUME TypeOK', Silent', \A u \in Tasks : pc'[u] \notin {"send", "flush", "read"}
  PROVE  WireInv'
<1>1. Len(toCli') = 0 /\ Len(wbuf') = 0
  BY DEF Silent
<1> QED BY <1>1 DEF WireInv, YoungestInv, SendInv, FlushInv, ReadInv, YieldInv, QuietWhenFree, Silent

\* A request may begin on a silent wire.
LEMMA FreshTrip ==
  ASSUME TypeOK', Silent', NEW t \in Tasks, pc'[t] = "send", left'[t] >= 1, trip'[t] = trips',
         \A u \in Tasks : u # t => pc'[u] \notin Busy
  PROVE  WireInv'
<1>1. /\ Len(toCli') = 0 /\ toCli' = <<>> /\ Len(wbuf') = 0 /\ wbuf' = <<>> /\ answering' = 0
      /\ \A i \in 1..Len(toDev') : ~Codec(toDev'[i])
  BY DEF Silent
<1>2. YoungestInv'
  BY <1>1 DEF YoungestInv, Busy
<1>3. SendInv'
  BY <1>1 DEF SendInv, Busy, Silent, Codec
<1>4. FlushInv' /\ ReadInv'
  BY DEF FlushInv, ReadInv, Busy
<1> QED BY <1>2, <1>3, <1>4 DEF WireInv, YieldInv, QuietWhenFree

\* Only the owner of the mutex has anything to do with the wire, with its guard armed.
LEMMA OneBusy ==
  ASSUME TypeOK, MutexInv, GuardInv, NEW t \in Tasks, pc[t] \in Busy
  PROVE  /\ armed[t] /\ ~poisoned
         /\ \A u \in Tasks : u # t => pc[u] \notin Busy
BY DEF MutexInv, GuardInv, Critical, Busy

\* The frame that ends a reply is the last one, the request was taken in full, and the
\* device is through with it.
LEMMA LastReply ==
  ASSUME TypeOK, ReadInv, NEW t \in Tasks, pc[t] = "read", toCli # <<>>, Head(toCli).kind # "more",
         toCli' = Tail(toCli), UNCHANGED <<wbuf, toDev, answering>>
  PROVE  Silent'
<1>1. toCli \in Seq(CliFrame)
  BY DEF TypeOK, WireType
<1>2. Len(toCli) \in Nat \ {0} /\ Head(toCli) = toCli[1] /\ Tail(toCli) \in Seq(CliFrame)
      /\ Len(Tail(toCli)) = Len(toCli) - 1
  BY <1>1, TailFacts
<1>3. 1 = Len(toCli) /\ answering = 0
  <2>1. 1 \in 1..Len(toCli) /\ toCli[1].kind # "more"
    BY <1>2
  <2>2. \A i \in 1..Len(toCli) : toCli[i].kind # "more" => i = Len(toCli) /\ answering = 0
    BY DEF ReadInv
  <2> QED BY <2>1, <2>2
<1>4. Tail(toCli) = <<>>
  BY <1>2, <1>3
<1>5. wbuf = <<>> /\ \A i \in 1..Len(toDev) : ~Codec(toDev[i])
  BY DEF ReadInv
<1> QED BY <1>3, <1>4, <1>5 DEF Silent, Codec

\* What encoding a frame adds to the write buffer.
Encoding(i, cuts, e) == Pieces(i, cuts) \o <<e>>

\* A frame in pieces: all but the last are cut, and all carry the number of the request.
LEMMA PiecesFacts ==
  ASSUME NEW i \in Nat, NEW cuts \in 0..(MaxPieces - 1), NEW e \in DevFrame, e.id = i, Codec(e),
         NEW f, f = Encoding(i, cuts, e)
  PROVE  /\ f \in Seq(DevFrame) /\ Len(f) = cuts + 1 /\ cuts \in Nat
         /\ \A j \in 1..Len(f) : Codec(f[j]) /\ f[j].id = i /\ (f[j].kind = "cut" \/ (j = Len(f) /\ f[j] = e))
<1> DEFINE p == Pieces(i, cuts)
<1>1. cuts \in Nat
  BY BoundAssumption
<1>2. [id |-> i, kind |-> "cut"] \in DevFrame
  BY DEF DevFrame
<1>3. p \in Seq(DevFrame) /\ Len(p) = cuts
  BY <1>1, <1>2 DEF Pieces
<1>4. \A j \in 1..cuts : p[j] = [id |-> i, kind |-> "cut"]
  BY DEF Pieces
<1> HIDE DEF p
<1>5. \A j \in 1..cuts : p[j].id = i /\ p[j].kind = "cut"
  BY <1>4
<1> DEFINE g == <<e>>
<1>6. g \in Seq(DevFrame) /\ Len(g) = 1 /\ g[1] = e
  OBVIOUS
<1>7. f = p \o g
  BY DEF p, Encoding
<1> HIDE DEF g
<1>8. /\ f \in Seq(DevFrame) /\ Len(f) = cuts + 1
      /\ \A j \in 1..cuts + 1 : f[j] = IF j <= cuts THEN p[j] ELSE g[j - cuts]
  <2>1. /\ p \o g \in Seq(DevFrame) /\ Len(p \o g) = Len(p) + Len(g)
        /\ \A j \in 1..Len(p) + Len(g) : (p \o g)[j] = IF j <= Len(p) THEN p[j] ELSE g[j - Len(p)]
    BY <1>3, <1>6, ConcatProperties
  <2> QED BY <1>3, <1>6, <1>7, <2>1
<1>9. ASSUME NEW j \in 1..Len(f)
      PROVE  Codec(f[j]) /\ f[j].id = i /\ (f[j].kind = "cut" \/ (j = Len(f) /\ f[j] = e))
  <2>1. CASE j <= cuts
    <3>1. f[j] = p[j] /\ j \in 1..cuts
      BY <1>1, <1>8, <2>1
    <3>2. f[j].id = i /\ f[j].kind = "cut"
      BY <1>5, <3>1
    <3> QED BY <3>2 DEF Codec
  <2>2. CASE ~(j <= cuts)
    <3>1. j = cuts + 1 /\ j - cuts = 1
      BY <1>1, <1>8, <2>2
    <3>2. f[j] = e
      BY <1>6, <1>8, <2>2, <3>1
    <3> QED BY <1>8, <3>1, <3>2
  <2> QED BY <2>1, <2>2
<1> QED BY <1>1, <1>8, <1>9

\* What an empty write buffer holds after a frame was encoded into it.
LEMMA Encoded ==
  ASSUME TypeOK, WireInv, NEW t \in Tasks, EncodeFrame(t)
  PROVE  /\ wbuf' \in Seq(DevFrame) /\ Len(wbuf') \in Nat \ {0} /\ wbuf' # <<>>
         /\ \A j \in 1..Len(wbuf') :
              /\ Codec(wbuf'[j]) /\ wbuf'[j].id = trip[t]
              /\ wbuf'[j].kind = "ask" => j = Len(wbuf') /\ left[t] = 1
<1> DEFINE e == [id |-> trip[t], kind |-> Kind(t)]
<1>1. trip[t] \in Nat
  BY DEF TypeOK, CountType
<1>2. e \in DevFrame /\ e.id = trip[t] /\ Codec(e) /\ (e.kind = "ask" => left[t] = 1) /\ e.kind # "cut"
  BY <1>1 DEF DevFrame, Kind, Codec
<1>3. wbuf = <<>>
  BY DEF EncodeFrame, WireInv, SendInv
<1>4. PICK cuts \in 0..(MaxPieces - 1) : wbuf' = wbuf \o Pieces(trip[t], cuts) \o <<e>>
  BY DEF EncodeFrame
<1>5. Pieces(trip[t], cuts) \in Seq(DevFrame)
  <2>1. cuts \in Nat /\ [id |-> trip[t], kind |-> "cut"] \in DevFrame
    BY <1>1, BoundAssumption DEF DevFrame
  <2> QED BY <2>1 DEF Pieces
<1>6. wbuf' = Pieces(trip[t], cuts) \o <<e>>
  <2>1. <<>> \o Pieces(trip[t], cuts) = Pieces(trip[t], cuts)
    BY <1>5, ConcatEmptySeq
  <2> QED BY <1>3, <1>4, <2>1
<1> HIDE DEF e
<1>7. /\ wbuf' \in Seq(DevFrame) /\ Len(wbuf') = cuts + 1 /\ cuts \in Nat
      /\ \A j \in 1..Len(wbuf') : /\ Codec(wbuf'[j]) /\ wbuf'[j].id = trip[t]
                                  /\ wbuf'[j].kind = "cut" \/ (j = Len(wbuf') /\ wbuf'[j] = e)
  <2> DEFINE f == wbuf'
  <2>1. f = Encoding(trip[t], cuts, e)
    BY <1>6 DEF Encoding
  <2> HIDE DEF f
  <2>2. /\ f \in Seq(DevFrame) /\ Len(f) = cuts + 1 /\ cuts \in Nat
        /\ \A j \in 1..Len(f) : /\ Codec(f[j]) /\ f[j].id = trip[t]
                                /\ f[j].kind = "cut" \/ (j = Len(f) /\ f[j] = e)
    BY <1>1, <1>2, <2>1, PiecesFacts
  <2> QED BY <2>2 DEF f
<1>8. \A j \in 1..Len(wbuf') : wbuf'[j].kind = "ask" => j = Len(wbuf') /\ left[t] = 1
  BY <1>2, <1>7
<1>9. Len(wbuf') \in Nat \ {0}
  BY <1>7
<1>10. wbuf' # <<>>
  BY <1>9
<1> QED BY <1>7, <1>8, <1>9, <1>10

\* A frame is encoded.
LEMMA EncodeKeeps ==
  ASSUME TypeOK, MutexInv, GuardInv, WireInv, NEW t \in Tasks, EncodeFrame(t)
  PROVE  WireInv'
<1>1. /\ pc[t] = "send" /\ op[t] # "native" /\ pc' = [pc EXCEPT ![t] = "flush"]
      /\ UNCHANGED <<armed, poisoned, op, left, trip, trips, toDev, toCli, answering>>
  BY DEF EncodeFrame
<1>2. /\ armed[t] /\ ~poisoned
      /\ \A u \in Tasks : u # t => pc[u] \notin Busy
  BY <1>1, OneBusy DEF Busy
<1>3. \A u \in Tasks : pc'[u] \in Busy => u = t /\ pc'[u] = "flush"
  BY <1>1, <1>2 DEF Busy, TypeOK, TaskType
<1>4. /\ trip[t] = trips /\ left[t] >= 1 /\ toCli = <<>> /\ answering = 0
      /\ \A i \in 1..Len(toDev) : toDev[i].kind # "ask"
  BY <1>1 DEF WireInv, YoungestInv, SendInv
<1>5. /\ wbuf' # <<>>
      /\ \A j \in 1..Len(wbuf') : /\ Codec(wbuf'[j]) /\ wbuf'[j].id = trips
                                  /\ wbuf'[j].kind = "ask" => j = Len(wbuf') /\ left[t] = 1
  BY <1>4, Encoded
<1>6. YoungestInv'
  BY <1>1, <1>3, <1>4, <1>5 DEF WireInv, YoungestInv, Busy, Codec
<1>7. SendInv' /\ FlushInv'
  BY <1>1, <1>3, <1>4, <1>5 DEF SendInv, FlushInv, Busy
<1>8. ReadInv' /\ YieldInv'
  BY <1>3 DEF ReadInv, YieldInv, Busy
<1>9. QuietWhenFree'
  BY <1>1, <1>2 DEF QuietWhenFree
<1> QED BY <1>6, <1>7, <1>8, <1>9 DEF WireInv

\* A piece goes from the write buffer to the end of what is on the way.
LEMMA Written ==
  ASSUME TypeOK, WriteOut
  PROVE  /\ wbuf # <<>> /\ Len(wbuf) \in Nat \ {0} /\ Len(toDev) \in Nat
         /\ wbuf' \in Seq(DevFrame) /\ toDev' \in Seq(DevFrame)
         /\ Len(wbuf') = Len(wbuf) - 1 /\ Len(toDev') = Len(toDev) + 1
         /\ \A i \in 1..Len(wbuf') : wbuf'[i] = wbuf[i + 1] /\ i + 1 \in 1..Len(wbuf)
         /\ \A i \in 1..Len(toDev') : \/ i \in 1..Len(toDev) /\ toDev'[i] = toDev[i]
                                      \/ i = Len(toDev') /\ toDev'[i] = wbuf[1]
         /\ UNCHANGED <<toCli, answering>>
<1>1. wbuf \in Seq(DevFrame) /\ toDev \in Seq(DevFrame)
  BY DEF TypeOK, WireType
<1>2. /\ wbuf # <<>> /\ wbuf' = Tail(wbuf) /\ toDev' = Append(toDev, Head(wbuf))
      /\ UNCHANGED <<toCli, answering>>
  BY DEF WriteOut
<1>3. /\ wbuf' \in Seq(DevFrame) /\ Len(wbuf') = Len(wbuf) - 1 /\ Len(wbuf) \in Nat \ {0}
      /\ Head(wbuf) = wbuf[1] /\ Head(wbuf) \in DevFrame
      /\ \A i \in 1..Len(wbuf) - 1 : wbuf'[i] = wbuf[i + 1]
  BY <1>1, <1>2, TailFacts
<1>4. /\ toDev' \in Seq(DevFrame) /\ Len(toDev') = Len(toDev) + 1 /\ Len(toDev) \in Nat
      /\ \A i \in 1..Len(toDev) : toDev'[i] = toDev[i]
      /\ toDev'[Len(toDev) + 1] = wbuf[1]
  BY <1>1, <1>2, <1>3, AppendFacts
<1>5. \A i \in 1..Len(wbuf') : wbuf'[i] = wbuf[i + 1] /\ i + 1 \in 1..Len(wbuf)
  BY <1>3
<1>6. \A i \in 1..Len(toDev') : \/ i \in 1..Len(toDev) /\ toDev'[i] = toDev[i]
                                \/ i = Len(toDev') /\ toDev'[i] = wbuf[1]
  BY <1>4
<1> QED BY <1>2, <1>3, <1>4, <1>5, <1>6

\* It still belongs to the youngest request.
LEMMA WrittenYoungest ==
  ASSUME TypeOK, WireInv, WriteOut, trips' = trips,
         \A u \in Tasks : pc'[u] \in {"send", "flush", "read"} => trip'[u] = trips
  PROVE  YoungestInv'
<1>1. 1 \in 1..Len(wbuf) /\ wbuf[1].id = trips
  BY Written DEF WireInv, YoungestInv
<1>2. \A i \in 1..Len(toDev') : Codec(toDev'[i]) => toDev'[i].id = trips
  BY <1>1, Written DEF WireInv, YoungestInv, Codec
<1>3. \A i \in 1..Len(wbuf') : Codec(wbuf'[i]) /\ wbuf'[i].id = trips
  BY Written DEF WireInv, YoungestInv, Codec
<1>4. answering' \in {0, trips} /\ \A i \in 1..Len(toCli') : toCli'[i].id = trips
  BY Written DEF WireInv, YoungestInv
<1> QED BY <1>2, <1>3, <1>4 DEF YoungestInv, Codec

\* A piece of a codec frame is written; after the last another frame follows, or the reply.
LEMMA FlushKeeps ==
  ASSUME TypeOK, MutexInv, GuardInv, WireInv, NEW t \in Tasks, Flush(t)
  PROVE  WireInv'
<1>1. /\ pc[t] = "flush" /\ WriteOut
      /\ UNCHANGED <<armed, poisoned, op, trip, trips>>
  BY DEF Flush
<1>2. /\ armed[t] /\ ~poisoned
      /\ \A u \in Tasks : u # t => pc[u] \notin Busy
  BY <1>1, OneBusy DEF Busy
<1>3. /\ left \in [Tasks -> Nat] /\ trip \in [Tasks -> Nat] /\ pc \in [Tasks -> Stops]
  BY DEF TypeOK, CountType, TaskType
<1>4. /\ trip[t] = trips /\ left[t] >= 1 /\ toCli = <<>> /\ answering = 0 /\ op[t] # "native"
      /\ \A i \in 1..Len(toDev) : toDev[i].kind # "ask"
      /\ \A i \in 1..Len(wbuf) : wbuf[i].kind = "ask" => i = Len(wbuf) /\ left[t] = 1
  BY <1>1 DEF WireInv, YoungestInv, SendInv, FlushInv
<1>5. UNCHANGED <<toCli, answering>>
  BY <1>1, Written
<1>6. QuietWhenFree'
  BY <1>1, <1>2 DEF QuietWhenFree
<1>7. CASE Len(wbuf) # 1
  <2>1. left' = left /\ pc' = pc
    BY <1>7 DEF Flush
  <2>2. \A u \in Tasks : pc'[u] \in Busy => u = t /\ pc'[u] = "flush"
    BY <1>1, <1>2, <2>1 DEF Busy
  <2>3. YoungestInv'
    BY <1>1, <1>4, <2>2, WrittenYoungest DEF Busy
  <2>4. wbuf' # <<>> /\ \A i \in 1..Len(wbuf') : wbuf'[i].kind = "ask" => i = Len(wbuf') /\ left[t] = 1
    <3>1. Len(wbuf') # 0
      BY <1>1, <1>7, Written
    <3>2. \A i \in 1..Len(wbuf') : i + 1 = Len(wbuf) => i = Len(wbuf')
      BY <1>1, Written
    <3> QED BY <1>1, <1>4, <3>1, <3>2, Written
  <2>5. \A i \in 1..Len(toDev') : toDev'[i].kind # "ask"
    <3>1. 1 \in 1..Len(wbuf) /\ wbuf[1].kind # "ask"
      BY <1>1, <1>4, <1>7, Written
    <3> QED BY <1>1, <1>4, <3>1, Written
  <2>6. SendInv' /\ FlushInv'
    BY <1>1, <1>4, <1>5, <2>1, <2>2, <2>4, <2>5 DEF SendInv, FlushInv, Busy
  <2>7. ReadInv' /\ YieldInv'
    BY <2>2 DEF ReadInv, YieldInv, Busy
  <2> QED BY <1>6, <2>3, <2>6, <2>7 DEF WireInv
<1>8. CASE Len(wbuf) = 1
  <2>1. /\ left' = [left EXCEPT ![t] = left[t] - 1]
        /\ pc' = [pc EXCEPT ![t] = IF left[t] = 1 THEN "read" ELSE "send"]
    BY <1>8 DEF Flush, AfterFrame
  <2>2. \A u \in Tasks : pc'[u] \in Busy => u = t
    BY <1>2, <1>3, <2>1 DEF Busy
  <2>3. YoungestInv'
    BY <1>1, <1>4, <2>2, WrittenYoungest DEF Busy
  <2>4. wbuf' = <<>>
    <3>1. wbuf' \in Seq(DevFrame) /\ Len(wbuf') = 0
      BY <1>1, <1>8, Written
    <3> QED BY <3>1
  <2>5. 1 \in 1..Len(wbuf) /\ (wbuf[1].kind = "ask" => left[t] = 1)
    BY <1>4, <1>8
  <2>6. CASE left[t] = 1
    <3>1. pc'[t] = "read"
      BY <1>3, <2>1, <2>6
    <3>2. \A i \in 1..Len(toDev') : toDev'[i].kind = "ask" => i = Len(toDev')
      BY <1>1, <1>4, Written
    <3>3. ReadInv'
      BY <1>4, <1>5, <2>2, <2>4, <3>1, <3>2 DEF ReadInv, Busy
    <3>4. SendInv' /\ FlushInv' /\ YieldInv'
      BY <2>2, <3>1 DEF SendInv, FlushInv, YieldInv, Busy
    <3> QED BY <1>6, <2>3, <3>3, <3>4 DEF WireInv
  <2>7. CASE left[t] # 1
    <3>1. pc'[t] = "send" /\ left'[t] >= 1
      BY <1>3, <1>4, <2>1, <2>7
    <3>2. \A i \in 1..Len(toDev') : toDev'[i].kind # "ask"
      BY <1>1, <1>4, <2>5, <2>7, Written
    <3>3. SendInv'
      BY <1>1, <1>4, <1>5, <2>2, <2>4, <3>1, <3>2 DEF SendInv, Busy
    <3>4. ReadInv' /\ FlushInv' /\ YieldInv'
      BY <2>2, <3>1 DEF ReadInv, FlushInv, YieldInv, Busy
    <3> QED BY <1>6, <2>3, <3>3, <3>4 DEF WireInv
  <2> QED BY <2>6, <2>7
<1> QED BY <1>7, <1>8

\* A piece of a native frame goes out; nothing of it concerns the codec.
LEMMA NativeSilent ==
  ASSUME TypeOK, WireInv, NEW t \in Tasks, WriteNative(t)
  PROVE  Silent'
<1>1. Silent
  BY DEF WriteNative, WireInv, SendInv
<1> DEFINE f == [id |-> trip[t], kind |-> "native"]
<1>2. toDev' = Append(toDev, f) /\ UNCHANGED <<wbuf, toCli, answering>>
  BY DEF WriteNative
<1>3. f \in DevFrame /\ ~Codec(f) /\ toDev \in Seq(DevFrame)
  BY DEF DevFrame, Codec, TypeOK, CountType, WireType
<1> HIDE DEF f
<1>4. /\ Len(toDev) \in Nat /\ Len(toDev') = Len(toDev) + 1
      /\ \A i \in 1..Len(toDev) : toDev'[i] = toDev[i]
      /\ toDev'[Len(toDev) + 1] = f
  BY <1>2, <1>3, AppendFacts
<1>5. \A i \in 1..Len(toDev') : i \in 1..Len(toDev) \/ i = Len(toDev) + 1
  BY <1>4
<1> QED BY <1>1, <1>2, <1>3, <1>4, <1>5 DEF Silent, Codec

\* A native frame goes on, or is complete.
LEMMA NativeKeeps ==
  ASSUME TypeOK, TypeOK', MutexInv, GuardInv, WireInv, NEW t \in Tasks, WriteNative(t)
  PROVE  WireInv'
<1>1. Silent'
  BY NativeSilent
<1>2. /\ pc[t] = "send" /\ left' = [left EXCEPT ![t] = left[t] - 1]
      /\ UNCHANGED <<trip, trips>>
  BY DEF WriteNative
<1>3. \A u \in Tasks : u # t => pc[u] \notin Busy
  BY <1>2, OneBusy DEF Busy
<1>4. left \in [Tasks -> Nat] /\ pc \in [Tasks -> Stops] /\ left[t] >= 1 /\ trip[t] = trips
  BY <1>2 DEF TypeOK, CountType, TaskType, WireInv, SendInv, YoungestInv
<1>5. CASE left[t] = 1
  <2>1. pc' = [pc EXCEPT ![t] = "leave"]
    BY <1>5 DEF WriteNative
  <2>2. \A u \in Tasks : pc'[u] \notin {"send", "flush", "read"}
    BY <1>3, <1>4, <2>1 DEF Busy
  <2> QED BY <1>1, <2>2, SilentSuffices
<1>6. CASE left[t] # 1
  <2>1. pc' = pc
    BY <1>6 DEF WriteNative
  <2>2. pc'[t] = "send" /\ left'[t] >= 1 /\ trip'[t] = trips'
    BY <1>2, <1>4, <1>6, <2>1
  <2>3. \A u \in Tasks : u # t => pc'[u] \notin Busy
    BY <1>3, <2>1
  <2> QED BY <1>1, <2>2, <2>3, FreshTrip
<1> QED BY <1>5, <1>6

\* Whoever closes the connection is alone with it.
LEMMA ClosesAlone ==
  ASSUME MutexInv, GuardInv, CloseHolds
  PROVE  \A u \in Tasks : pc[u] \notin Critical /\ ~armed[u]
<1>1. \A u \in Tasks : pc[u] \notin Critical
  BY DEF MutexInv, CloseHolds, Critical
<1> QED BY <1>1 DEF GuardInv, Critical

\* Device::close finds something to flush only on a connection given up in mid-frame.
LEMMA CloseKeeps ==
  ASSUME TypeOK, MutexInv, GuardInv, WireInv, CloseFlush
  PROVE  poisoned /\ WireInv'
<1>1. /\ CloseHolds /\ WriteOut
      /\ UNCHANGED <<armed, poisoned, pc, trip, trips>>
  BY DEF CloseFlush
<1>2. \A u \in Tasks : pc[u] \notin Critical /\ ~armed[u]
  BY <1>1, ClosesAlone
<1>3. poisoned
  BY <1>1, <1>2 DEF WriteOut, WireInv, QuietWhenFree, Silent
<1>4. \A u \in Tasks : pc'[u] \notin Busy
  BY <1>1, <1>2 DEF Busy, Critical
<1>5. YoungestInv'
  BY <1>1, <1>4, WrittenYoungest DEF Busy
<1>6. SendInv' /\ FlushInv' /\ ReadInv' /\ YieldInv'
  BY <1>4 DEF SendInv, FlushInv, ReadInv, YieldInv, Busy
<1>7. QuietWhenFree'
  BY <1>1, <1>3 DEF QuietWhenFree
<1> QED BY <1>3, <1>5, <1>6, <1>7 DEF WireInv

\* If only the last frame can be other than a fragment, it is so without the first.
LEMMA TailEnds ==
  ASSUME NEW s \in Seq(CliFrame), s # <<>>,
         \A i \in 1..Len(s) : s[i].kind # "more" => i = Len(s)
  PROVE  \A i \in 1..Len(Tail(s)) : Tail(s)[i].kind # "more" => i = Len(Tail(s))
<1> DEFINE r == Tail(s)
<1>1. /\ Len(r) = Len(s) - 1 /\ Len(s) \in Nat \ {0}
      /\ \A i \in 1..Len(s) - 1 : r[i] = s[i + 1]
  BY TailFacts
<1> HIDE DEF r
<1>2. ASSUME NEW i \in 1..Len(r), r[i].kind # "more" PROVE i = Len(r)
  <2>1. i + 1 \in 1..Len(s) /\ s[i + 1].kind # "more"
    BY <1>1, <1>2
  <2>2. i + 1 = Len(s)
    BY <2>1
  <2> QED BY <1>1, <2>2
<1> QED BY <1>2 DEF r

\* A frame of the reply is taken that does not end it well.
LEMMA ReadKeeps ==
  ASSUME TypeOK, MutexInv, GuardInv, WireInv, NEW t \in Tasks, pc[t] = "read", toCli # <<>>,
         toCli' = Tail(toCli), UNCHANGED <<armed, wbuf, toDev, answering, poisoned, tripVars>>,
         \/ pc' = pc
         \/ \E w \in {"parked", "leave"} : pc' = [pc EXCEPT ![t] = w]
  PROVE  WireInv'
<1>1. /\ armed[t] /\ ~poisoned
      /\ \A u \in Tasks : u # t => pc[u] \notin Busy
  BY OneBusy DEF Busy
<1>2. toCli \in Seq(CliFrame) /\ pc \in [Tasks -> Stops]
  BY DEF TypeOK, WireType, TaskType
<1>3. /\ Len(toCli') = Len(toCli) - 1 /\ Len(toCli) \in Nat \ {0}
      /\ \A i \in 1..Len(toCli') : toCli'[i] = toCli[i + 1] /\ i + 1 \in 1..Len(toCli)
  BY <1>2, TailFacts
<1>4. \A u \in Tasks : pc'[u] \in Busy => u = t /\ pc'[u] = "read"
  BY <1>1, <1>2 DEF Busy
<1>5. YoungestInv'
  <2>1. \A i \in 1..Len(toCli') : toCli'[i].id = trips'
    BY <1>3 DEF WireInv, YoungestInv
  <2> QED BY <1>4, <2>1 DEF WireInv, YoungestInv, Busy, Codec
<1>6. ReadInv'
  <2>1. \A i \in 1..Len(toCli) : toCli[i].kind # "more" => i = Len(toCli) /\ answering = 0
    BY DEF WireInv, ReadInv
  <2>2. \A i \in 1..Len(toCli') : toCli'[i].kind # "more" => i = Len(toCli')
    <3>1. \A i \in 1..Len(toCli) : toCli[i].kind # "more" => i = Len(toCli)
      BY <2>1
    <3> QED BY <1>2, <3>1, TailEnds
  <2>3. \A i \in 1..Len(toCli') : toCli'[i].kind # "more" => answering' = 0
    BY <1>3, <2>1
  <2>4. wbuf' = <<>> /\ \A i \in 1..Len(toDev') : toDev'[i].kind = "ask" => i = Len(toDev')
    BY DEF WireInv, ReadInv
  <2>5. \A i \in 1..Len(toDev') : ~Codec(toDev'[i])
    BY DEF WireInv, ReadInv, Codec
  <2> QED BY <1>4, <2>2, <2>3, <2>4, <2>5 DEF ReadInv, Busy, Codec
<1>7. SendInv' /\ FlushInv' /\ YieldInv'
  BY <1>4 DEF SendInv, FlushInv, YieldInv, Busy
<1>8. QuietWhenFree'
  BY <1>1 DEF QuietWhenFree
<1> QED BY <1>5, <1>6, <1>7, <1>8 DEF WireInv

\* The device takes in a frame without answering it.
LEMMA TakeKeeps ==
  ASSUME TypeOK, WireInv, DevTake
  PROVE  WireInv'
<1>1. /\ toDev # <<>> /\ toDev' = Tail(toDev)
      /\ UNCHANGED <<guardVars, pc, tripVars, wbuf, toCli, answering>>
  BY DEF DevTake
<1>2. toDev \in Seq(DevFrame)
  BY DEF TypeOK, WireType
<1>3. /\ Len(toDev') = Len(toDev) - 1 /\ Len(toDev) \in Nat \ {0}
      /\ \A i \in 1..Len(toDev') : toDev'[i] = toDev[i + 1] /\ i + 1 \in 1..Len(toDev)
  BY <1>1, <1>2, TailFacts
<1>4. Silent => Silent'
  BY <1>1, <1>3 DEF Silent, Codec
<1>5. YoungestInv'
  BY <1>1, <1>3 DEF WireInv, YoungestInv, Codec
<1>6. SendInv' /\ FlushInv'
  <2>1. SendInv'
    BY <1>1, <1>3, <1>4 DEF WireInv, SendInv
  <2>2. FlushInv'
    BY <1>1 DEF WireInv, FlushInv
  <2> QED BY <2>1, <2>2
<1>7. ReadInv'
  <2>1. \A u \in Tasks : pc[u] = "read" =>
           \A i \in 1..Len(toDev') : toDev'[i].kind = "ask" => i = Len(toDev')
    BY <1>3 DEF WireInv, ReadInv
  <2>2. \A u \in Tasks : pc[u] = "read" /\ (toCli # <<>> \/ answering # 0) =>
           \A i \in 1..Len(toDev') : ~Codec(toDev'[i])
    BY <1>3 DEF WireInv, ReadInv, Codec
  <2> QED BY <1>1, <2>1, <2>2 DEF WireInv, ReadInv
<1>8. YieldInv' /\ QuietWhenFree'
  BY <1>1, <1>4 DEF WireInv, YieldInv, QuietWhenFree
<1> QED BY <1>5, <1>6, <1>7, <1>8 DEF WireInv

\* The device takes in the end of a request, and begins to answer it.
LEMMA AnswerKeeps ==
  ASSUME TypeOK, WireInv, DevAnswer
  PROVE  WireInv'
<1>1. /\ toDev # <<>> /\ toDev' = Tail(toDev) /\ Head(toDev).kind = "ask"
      /\ answering' = Head(toDev).id
      /\ UNCHANGED <<guardVars, pc, tripVars, wbuf, toCli>>
  BY DEF DevAnswer
<1>2. toDev \in Seq(DevFrame) /\ toCli \in Seq(CliFrame)
  BY DEF TypeOK, WireType
<1>3. /\ Len(toDev') = Len(toDev) - 1 /\ Len(toDev) \in Nat \ {0}
      /\ Head(toDev) = toDev[1] /\ Head(toDev) \in DevFrame
      /\ \A i \in 1..Len(toDev') : toDev'[i] = toDev[i + 1] /\ i + 1 \in 1..Len(toDev)
  BY <1>1, <1>2, TailFacts
<1>4. Codec(toDev[1]) /\ toDev[1].kind = "ask" /\ 1 \in 1..Len(toDev)
  BY <1>1, <1>3 DEF Codec
<1>5. answering' = trips
  BY <1>1, <1>3, <1>4 DEF WireInv, YoungestInv
<1>6. ~Silent
  BY <1>4 DEF Silent
<1>7. \A u \in Tasks : pc[u] \notin {"send", "flush", "yield"}
  BY <1>4, <1>6 DEF WireInv, SendInv, YieldInv
<1>8. YoungestInv'
  <2>1. \A i \in 1..Len(toDev') : Codec(toDev'[i]) => toDev'[i].id = trips'
    BY <1>1, <1>3 DEF WireInv, YoungestInv, Codec
  <2> QED BY <1>1, <1>5, <2>1 DEF WireInv, YoungestInv, Codec
<1>9. ReadInv'
  <2> SUFFICES ASSUME NEW u \in Tasks, pc[u] = "read"
               PROVE  /\ wbuf' = <<>> /\ Len(toCli') = 0
                      /\ Len(toDev') = 0
    BY <1>1 DEF ReadInv
  <2>1. 1 = Len(toDev) /\ toCli = <<>> /\ wbuf = <<>>
    BY <1>4 DEF WireInv, ReadInv
  <2> QED BY <1>1, <1>3, <2>1
<1>10. SendInv' /\ FlushInv' /\ YieldInv'
  BY <1>1, <1>7 DEF SendInv, FlushInv, YieldInv
<1>11. QuietWhenFree'
  BY <1>1, <1>6 DEF WireInv, QuietWhenFree
<1> QED BY <1>8, <1>9, <1>10, <1>11 DEF WireInv

\* While it is at an answer, no one but the reader of that answer is in an exchange.
LEMMA OneReads ==
  ASSUME WireInv, answering # 0
  PROVE  /\ ~Silent
         /\ \A u \in Tasks : pc[u] \notin {"send", "flush", "yield"}
<1>1. ~Silent
  BY DEF Silent
<1> QED BY <1>1 DEF WireInv, SendInv, YieldInv

\* What a frame of the device adds.
LEMMA Said ==
  ASSUME TypeOK, NEW what \in {"more", "done", "nack", "bad"}, Say(what)
  PROVE  /\ toCli' \in Seq(CliFrame) /\ Len(toCli') = Len(toCli) + 1 /\ Len(toCli) \in Nat
         /\ \A i \in 1..Len(toCli') :
              \/ i \in 1..Len(toCli) /\ toCli'[i] = toCli[i]
              \/ i = Len(toCli') /\ toCli'[i].id = answering /\ toCli'[i].kind = what
<1> DEFINE f == [id |-> answering, kind |-> what]
<1>1. toCli' = Append(toCli, f)
  BY DEF Say
<1>2. f \in CliFrame /\ toCli \in Seq(CliFrame) /\ f.id = answering /\ f.kind = what
  BY DEF CliFrame, TypeOK, WireType
<1> HIDE DEF f
<1>3. /\ toCli' \in Seq(CliFrame) /\ Len(toCli') = Len(toCli) + 1 /\ Len(toCli) \in Nat
      /\ \A i \in 1..Len(toCli) : toCli'[i] = toCli[i]
      /\ toCli'[Len(toCli) + 1] = f
  BY <1>1, <1>2, AppendFacts
<1> QED BY <1>2, <1>3

\* It sends a fragment.
LEMMA MoreKeeps ==
  ASSUME TypeOK, WireInv, DevMore
  PROVE  WireInv'
<1>1. /\ answering # 0 /\ Say("more")
      /\ UNCHANGED <<guardVars, pc, tripVars, wbuf, toDev, answering>>
  BY DEF DevMore
<1>2. ~Silent /\ \A u \in Tasks : pc[u] \notin {"send", "flush", "yield"}
  BY <1>1, OneReads
<1>3. /\ Len(toCli) \in Nat /\ Len(toCli') = Len(toCli) + 1
      /\ \A i \in 1..Len(toCli') :
           \/ i \in 1..Len(toCli) /\ toCli'[i] = toCli[i]
           \/ i = Len(toCli') /\ toCli'[i].id = answering /\ toCli'[i].kind = "more"
  BY <1>1, Said
<1>4. YoungestInv'
  BY <1>1, <1>3 DEF WireInv, YoungestInv, Codec
<1>5. ReadInv'
  BY <1>1, <1>3 DEF WireInv, ReadInv, Codec
<1>6. SendInv' /\ FlushInv' /\ YieldInv'
  BY <1>1, <1>2 DEF SendInv, FlushInv, YieldInv
<1>7. QuietWhenFree'
  BY <1>1, <1>2 DEF WireInv, QuietWhenFree
<1> QED BY <1>4, <1>5, <1>6, <1>7 DEF WireInv

\* It ends its answer, or gives it up.
LEMMA EndKeeps ==
  ASSUME TypeOK, WireInv, DevEnd
  PROVE  WireInv'
<1>1. /\ answering # 0 /\ answering' = 0
      /\ toCli' = toCli \/ \E what \in {"done", "nack", "bad"} : Say(what)
      /\ UNCHANGED <<guardVars, pc, tripVars, wbuf, toDev>>
  BY DEF DevEnd
<1>2. ~Silent /\ \A u \in Tasks : pc[u] \notin {"send", "flush", "yield"}
  BY <1>1, OneReads
<1>3. \A i \in 1..Len(toCli') :
           \/ i \in 1..Len(toCli) /\ toCli'[i] = toCli[i]
           \/ i = Len(toCli') /\ toCli'[i].id = answering
  <2>1. CASE toCli' = toCli
    BY <2>1
  <2>2. ASSUME NEW what \in {"done", "nack", "bad"}, Say(what)
        PROVE  \A i \in 1..Len(toCli') :
                 \/ i \in 1..Len(toCli) /\ toCli'[i] = toCli[i]
                 \/ i = Len(toCli') /\ toCli'[i].id = answering
    BY <2>2, Said
  <2> QED BY <1>1, <2>1, <2>2
<1>4. YoungestInv'
  BY <1>1, <1>3 DEF WireInv, YoungestInv, Codec
<1>5. ReadInv'
  <2> SUFFICES ASSUME NEW u \in Tasks, pc[u] = "read"
               PROVE  /\ wbuf' = <<>>
                      /\ \A i \in 1..Len(toDev') : ~Codec(toDev'[i])
                      /\ \A i \in 1..Len(toCli') : toCli'[i].kind # "more" => i = Len(toCli')
    BY <1>1 DEF ReadInv, Codec
  <2>1. wbuf' = <<>> /\ \A i \in 1..Len(toDev') : ~Codec(toDev'[i])
    BY <1>1 DEF WireInv, ReadInv, Codec
  <2>2. \A i \in 1..Len(toCli) : toCli[i].kind = "more"
    BY <1>1 DEF WireInv, ReadInv
  <2> QED BY <1>3, <2>1, <2>2
<1>6. SendInv' /\ FlushInv' /\ YieldInv'
  BY <1>1, <1>2 DEF SendInv, FlushInv, YieldInv
<1>7. QuietWhenFree'
  BY <1>1, <1>2 DEF WireInv, QuietWhenFree
<1> QED BY <1>4, <1>5, <1>6, <1>7 DEF WireInv

-----------------------------------------------------------------------------
(* The steps, with those that differ only in their cause taken together.   *)

\* The round trip, or the reading of the file, fails.
GiveUp(t) == /\ pc[t] \in {"send", "flush", "read", "yield"}
             /\ Fail(t, "failed")
             /\ UNCHANGED <<lockVars, poisoned, armed, tripVars, uploadVars, wireVars, handle>>

\* A stream goes on to its next request.
NextTrip(c) == /\ pc[c] = "yield"
               /\ \E k \in {"content", "end"} : StartTrip(c, k, 1)
               /\ UNCHANGED <<lockVars, guardVars, uploadVars, wireVars, handle>>

\* The heartbeat ends between two pings.
HbExit == /\ pc[Hb] = "tick"
          /\ ~Alive \/ poisoned \/ Aborted
          /\ Goto(Hb, "exited")
          /\ UNCHANGED <<lockVars, guardVars, tripVars, uploadVars, wireVars, handle>>

\* Every step of Connection is one of these.
LEMMA StepKinds ==
  ASSUME [Next]_vars
  PROVE  \/ \E c \in Callers : \/ \E k \in Workload : Command(c, k)
                               \/ UploadFile(c) \/ FirstPoll(c)
                               \/ NextTrip(c) \/ PollParked(c)
         \/ \E t \in Tasks : \/ GiveUp(t) \/ CancelTrip(t)
                             \/ (t = Hb => Aborted) /\ CancelEarly(t)
                             \/ Refuse(t) \/ Begin(t)
                             \/ EncodeFrame(t) \/ Flush(t) \/ WriteNative(t)
                             \/ ReadMore(t) \/ ReadDone(t) \/ ReadNack(t) \/ ReadBad(t)
                             \/ Settle(t) \/ Unlock(t)
         \/ HbExit \/ HbPing \/ HbMark
         \/ CloseStart \/ CloseJoin \/ CloseFlush \/ CloseShut \/ CloseBroken
         \/ CloseDropped \/ DropDevice
         \/ DevTake \/ DevAnswer \/ DevMore \/ DevEnd \/ DevClose
         \/ UNCHANGED vars
<1>1. ASSUME NEW c \in Callers, Caller(c)
      PROVE  \/ \E k \in Workload : Command(c, k)
             \/ UploadFile(c)
             \/ c \in Tasks /\ (c = Hb => Aborted) /\ (CancelTrip(c) \/ CancelEarly(c))
  BY <1>1, TaskAssumption DEF Caller, Tasks
<1>2. ASSUME NEW c \in Callers, Polls(c)
      PROVE  FirstPoll(c) \/ NextTrip(c) \/ PollParked(c) \/ (c \in Tasks /\ GiveUp(c))
  BY <1>2 DEF Polls, PollChunk, PollEnd, PollError, NextTrip, GiveUp, Tasks
<1>3. ASSUME NEW t \in Tasks, Exchange(t) \/ EncodeRefused(t)
      PROVE  \/ GiveUp(t) \/ Refuse(t) \/ Begin(t)
             \/ EncodeFrame(t) \/ Flush(t) \/ WriteNative(t)
             \/ ReadMore(t) \/ ReadDone(t) \/ ReadNack(t) \/ ReadBad(t)
             \/ Settle(t) \/ Unlock(t)
  BY <1>3 DEF Exchange, Writing, SendBroken, EncodeRefused, SendTimeout, ReadNothing, GiveUp
<1>4. HbStop => HbExit
  BY DEF HbStop, HbExit
<1>5. HbAborted => HbExit \/ (Hb \in Tasks /\ Aborted /\ (CancelTrip(Hb) \/ CancelEarly(Hb)))
  BY DEF HbAborted, HbExit, Tasks
<1>6. Closing => \/ CloseStart \/ CloseJoin \/ CloseFlush \/ CloseShut \/ CloseBroken
                 \/ CloseDropped \/ DropDevice
                 \/ Closer \in Tasks /\ Closer # Hb /\ CancelEarly(Closer)
  BY TaskAssumption DEF Closing, ShutDown, Tasks
<1> QED BY <1>1, <1>2, <1>3, <1>4, <1>5, <1>6 DEF Next

-----------------------------------------------------------------------------
(* The types.                                                              *)

\* Types of the flag, the mutex and the life of the connection.
LEMMA LinkStep ==
  ASSUME TypeOK, PlaceInv, MutexInv, [Next]_vars
  PROVE  LinkType'
<1> USE DEF TypeOK, LinkType
<1>1. ASSUME NEW c \in Callers, NEW k \in Workload, Command(c, k) PROVE LinkType'
  <2>1. c \in Tasks /\ pc[c] = "idle" /\ Acquire(c)
    BY <1>1 DEF Command, Tasks
  <2>2. holder' \in Tasks \cup {None} /\ waiters' \in Seq(Tasks)
    BY <2>1, AcquireKeeps, TaskAssumption DEF Critical, Tasks
  <2> QED BY <1>1, <2>2 DEF Command
<1>2. ASSUME NEW c \in Callers, UploadFile(c) PROVE LinkType'
  BY <1>2 DEF UploadFile
<1>3. ASSUME NEW c \in Callers, FirstPoll(c) PROVE LinkType'
  <2>1. c \in Tasks /\ pc[c] = "fresh" /\ Acquire(c)
    BY <1>3 DEF FirstPoll, Tasks
  <2>2. holder' \in Tasks \cup {None} /\ waiters' \in Seq(Tasks)
    BY <2>1, AcquireKeeps, TaskAssumption DEF Critical, Tasks
  <2> QED BY <1>3, <2>2 DEF FirstPoll
<1>4. ASSUME NEW c \in Callers, NextTrip(c) PROVE LinkType'
  BY <1>4 DEF NextTrip, StartTrip
<1>5. ASSUME NEW c \in Callers, PollParked(c) PROVE LinkType'
  BY <1>5 DEF PollParked
<1>6. ASSUME NEW t \in Tasks, GiveUp(t) PROVE LinkType'
  BY <1>6 DEF GiveUp, Fail
<1>7. ASSUME NEW t \in Tasks, CancelTrip(t) PROVE LinkType'
  BY <1>7 DEF CancelTrip
<1>8. ASSUME NEW t \in Tasks, t = Hb => Aborted, CancelEarly(t) PROVE LinkType'
  <2>1. CASE pc[t] = "fresh" /\ UNCHANGED lockVars
    BY <2>1, <1>8 DEF CancelEarly
  <2>2. CASE pc[t] = "lock" /\ Withdraw(t)
    <3> DEFINE where == IF t = Hb THEN "exited" ELSE "idle"
    <3>1. pc' = [pc EXCEPT ![t] = where] /\ where \notin Critical
      BY <1>8 DEF CancelEarly, Critical
    <3>2. holder' \in Tasks \cup {None} /\ waiters' \in Seq(Tasks)
      <4> HIDE DEF where
      <4> QED BY <2>2, <3>1, WithdrawKeeps
    <3> QED BY <1>8, <3>2 DEF CancelEarly
  <2> QED BY <1>8, <2>1, <2>2 DEF CancelEarly
<1>9. ASSUME NEW t \in Tasks, Refuse(t) PROVE LinkType'
  BY <1>9 DEF Refuse, Usable
<1>10. ASSUME NEW t \in Tasks, Begin(t) PROVE LinkType'
  BY <1>10 DEF Begin, StartTrip, Usable
<1>11. ASSUME NEW t \in Tasks, EncodeFrame(t) PROVE LinkType'
  BY <1>11 DEF EncodeFrame
<1>12. ASSUME NEW t \in Tasks, Flush(t) PROVE LinkType'
  BY <1>12 DEF Flush, WriteOut, AfterFrame
<1>13. ASSUME NEW t \in Tasks, WriteNative(t) PROVE LinkType'
  BY <1>13 DEF WriteNative, Disarm
<1>14. ASSUME NEW t \in Tasks, ReadMore(t) PROVE LinkType'
  BY <1>14 DEF ReadMore
<1>15. ASSUME NEW t \in Tasks, ReadDone(t) PROVE LinkType'
  BY <1>15 DEF ReadDone, Disarm
<1>16. ASSUME NEW t \in Tasks, ReadNack(t) PROVE LinkType'
  BY <1>16 DEF ReadNack, StartTrip, Disarm, Fail
<1>17. ASSUME NEW t \in Tasks, ReadBad(t) PROVE LinkType'
  BY <1>17 DEF ReadBad, Fail
<1>18. ASSUME NEW t \in Tasks, Settle(t) PROVE LinkType'
  BY <1>18 DEF Settle, DropGuard
<1>19. ASSUME NEW t \in Tasks, Unlock(t) PROVE LinkType'
  <2> DEFINE where == IF t = Hb THEN HbNext ELSE "idle"
  <2>1. pc' = [pc EXCEPT ![t] = where] /\ where \notin Critical /\ holder = t /\ Release
    BY <1>19 DEF Unlock, HbNext, Critical, MutexInv
  <2>2. holder' \in Tasks \cup {None} /\ waiters' \in Seq(Tasks)
    <3> HIDE DEF where
    <3> QED BY <2>1, ReleaseKeeps
  <2> QED BY <1>19, <2>2 DEF Unlock
<1>20. CASE HbExit
  BY <1>20 DEF HbExit
<1>21. CASE HbPing
  <2>1. Hb \in Tasks /\ pc[Hb] = "tick" /\ Acquire(Hb)
    BY <1>21 DEF HbPing, Tasks
  <2>2. holder' \in Tasks \cup {None} /\ waiters' \in Seq(Tasks)
    BY <2>1, AcquireKeeps, TaskAssumption DEF Critical, Tasks
  <2> QED BY <1>21, <2>2 DEF HbPing
<1>22. CASE HbMark
  BY <1>22 DEF HbMark
<1>23. CASE CloseStart
  <2>1. CASE Protocol = "sdk2"
    BY <2>1, <1>23 DEF CloseStart
  <2>2. CASE Protocol # "sdk2"
    <3>1. Closer \in Tasks /\ pc[Closer] = "idle" /\ Acquire(Closer)
      BY <2>2, <1>23 DEF CloseStart, Unborrowed, PlaceInv, Tasks
    <3>2. holder' \in Tasks \cup {None} /\ waiters' \in Seq(Tasks)
      BY <3>1, AcquireKeeps DEF Critical
    <3> QED BY <1>23, <3>2 DEF CloseStart
  <2> QED BY <2>1, <2>2
<1>24. CASE CloseJoin
  <2>1. Closer \in Tasks /\ pc[Closer] = "abort" /\ Acquire(Closer)
    BY <1>24 DEF CloseJoin, Tasks
  <2>2. holder' \in Tasks \cup {None} /\ waiters' \in Seq(Tasks)
    BY <2>1, AcquireKeeps, TaskAssumption DEF Critical, Tasks
  <2> QED BY <1>24, <2>2 DEF CloseJoin
<1>25. CASE CloseFlush
  BY <1>25 DEF CloseFlush, CloseHolds, WriteOut
<1>26. CASE CloseShut
  BY <1>26 DEF CloseShut, CloseHolds
<1>27. CASE CloseBroken
  BY <1>27 DEF CloseBroken, CloseHolds
<1>28. CASE CloseDropped
  BY <1>28 DEF CloseDropped
<1>29. CASE DropDevice
  BY <1>29 DEF DropDevice
<1>30. CASE DevTake
  BY <1>30 DEF DevTake
<1>31. CASE DevAnswer
  BY <1>31 DEF DevAnswer
<1>32. CASE DevMore
  BY <1>32 DEF DevMore, Say
<1>33. CASE DevEnd
  BY <1>33 DEF DevEnd, Say
<1>34. CASE DevClose
  BY <1>34 DEF DevClose
<1>35. CASE UNCHANGED vars
  BY <1>35 DEF vars
<1> QED BY StepKinds, <1>1, <1>2, <1>3, <1>4, <1>5, <1>6, <1>7, <1>8, <1>9, <1>10, <1>11,
           <1>12, <1>13, <1>14, <1>15, <1>16, <1>17, <1>18, <1>19, <1>20, <1>21, <1>22, <1>23,
           <1>24, <1>25, <1>26, <1>27, <1>28, <1>29, <1>30, <1>31, <1>32, <1>33, <1>34, <1>35

\* Types of what each task keeps.
LEMMA TaskStep ==
  ASSUME TypeOK, [Next]_vars
  PROVE  TaskType'
<1> USE DEF TypeOK, TaskType, Stops, Ops, Results, Uploads
<1>1. ASSUME NEW c \in Callers, NEW k \in Workload, Command(c, k) PROVE TaskType'
  BY <1>1, UseAssumption DEF Command, Acquire, Tasks
<1>2. ASSUME NEW c \in Callers, UploadFile(c) PROVE TaskType'
  BY <1>2 DEF UploadFile, Tasks
<1>3. ASSUME NEW c \in Callers, FirstPoll(c) PROVE TaskType'
  BY <1>3 DEF FirstPoll, Acquire, Tasks
<1>4. ASSUME NEW c \in Callers, NextTrip(c) PROVE TaskType'
  BY <1>4 DEF NextTrip, StartTrip, Tasks, CountType
<1>5. ASSUME NEW c \in Callers, PollParked(c) PROVE TaskType'
  BY <1>5 DEF PollParked, Tasks
<1>6. ASSUME NEW t \in Tasks, GiveUp(t) PROVE TaskType'
  BY <1>6 DEF GiveUp, Fail
<1>7. ASSUME NEW t \in Tasks, CancelTrip(t) PROVE TaskType'
  BY <1>7 DEF CancelTrip
<1>8. ASSUME NEW t \in Tasks, t = Hb => Aborted, CancelEarly(t) PROVE TaskType'
  BY <1>8 DEF CancelEarly, Forget
<1>9. ASSUME NEW t \in Tasks, Refuse(t) PROVE TaskType'
  BY <1>9 DEF Refuse, Usable
<1>10. ASSUME NEW t \in Tasks, Begin(t) PROVE TaskType'
  BY <1>10 DEF Begin, StartTrip, Usable
<1>11. ASSUME NEW t \in Tasks, EncodeFrame(t) PROVE TaskType'
  BY <1>11 DEF EncodeFrame
<1>12. ASSUME NEW t \in Tasks, Flush(t) PROVE TaskType'
  BY <1>12 DEF Flush, WriteOut, AfterFrame
<1>13. ASSUME NEW t \in Tasks, WriteNative(t) PROVE TaskType'
  BY <1>13 DEF WriteNative, Disarm
<1>14. ASSUME NEW t \in Tasks, ReadMore(t) PROVE TaskType'
  BY <1>14 DEF ReadMore
<1>15. ASSUME NEW t \in Tasks, ReadDone(t) PROVE TaskType'
  BY <1>15 DEF ReadDone, Disarm
<1>16. ASSUME NEW t \in Tasks, ReadNack(t) PROVE TaskType'
  BY <1>16 DEF ReadNack, StartTrip, Disarm, Fail
<1>17. ASSUME NEW t \in Tasks, ReadBad(t) PROVE TaskType'
  BY <1>17 DEF ReadBad, Fail
<1>18. ASSUME NEW t \in Tasks, Settle(t) PROVE TaskType'
  BY <1>18 DEF Settle, DropGuard
<1>19. ASSUME NEW t \in Tasks, Unlock(t) PROVE TaskType'
  BY <1>19 DEF Unlock, HbNext, Forget
<1>20. CASE HbExit
  BY <1>20 DEF HbExit, Tasks
<1>21. CASE HbPing
  BY <1>21 DEF HbPing, Acquire, Tasks
<1>22. CASE HbMark
  BY <1>22 DEF HbMark, Tasks
<1>23. CASE CloseStart
  BY <1>23 DEF CloseStart, Acquire, Tasks
<1>24. CASE CloseJoin
  BY <1>24 DEF CloseJoin, Acquire, Tasks
<1>25. CASE CloseFlush
  BY <1>25 DEF CloseFlush, CloseHolds, WriteOut
<1>26. CASE CloseShut
  BY <1>26 DEF CloseShut, CloseHolds, Tasks
<1>27. CASE CloseBroken
  BY <1>27 DEF CloseBroken, CloseHolds
<1>28. CASE CloseDropped
  BY <1>28 DEF CloseDropped, Tasks
<1>29. CASE DropDevice
  BY <1>29 DEF DropDevice
<1>30. CASE DevTake
  BY <1>30 DEF DevTake
<1>31. CASE DevAnswer
  BY <1>31 DEF DevAnswer
<1>32. CASE DevMore
  BY <1>32 DEF DevMore, Say
<1>33. CASE DevEnd
  BY <1>33 DEF DevEnd, Say
<1>34. CASE DevClose
  BY <1>34 DEF DevClose
<1>35. CASE UNCHANGED vars
  BY <1>35 DEF vars
<1> QED BY StepKinds, <1>1, <1>2, <1>3, <1>4, <1>5, <1>6, <1>7, <1>8, <1>9, <1>10, <1>11,
           <1>12, <1>13, <1>14, <1>15, <1>16, <1>17, <1>18, <1>19, <1>20, <1>21, <1>22, <1>23,
           <1>24, <1>25, <1>26, <1>27, <1>28, <1>29, <1>30, <1>31, <1>32, <1>33, <1>34, <1>35

\* Types of the counters; no frame is written when none is left.
LEMMA CountStep ==
  ASSUME TypeOK, SendInv, PlaceInv, [Next]_vars
  PROVE  CountType'
<1> USE DEF TypeOK, CountType
<1> USE BoundAssumption
<1>1. ASSUME NEW c \in Callers, NEW k \in Workload, Command(c, k) PROVE CountType'
  BY <1>1 DEF Command
<1>2. ASSUME NEW c \in Callers, UploadFile(c) PROVE CountType'
  BY <1>2 DEF UploadFile
<1>3. ASSUME NEW c \in Callers, FirstPoll(c) PROVE CountType'
  BY <1>3 DEF FirstPoll
<1>4. ASSUME NEW c \in Callers, NextTrip(c) PROVE CountType'
  BY <1>4 DEF NextTrip, StartTrip, Tasks
<1>5. ASSUME NEW c \in Callers, PollParked(c) PROVE CountType'
  BY <1>5 DEF PollParked
<1>6. ASSUME NEW t \in Tasks, GiveUp(t) PROVE CountType'
  BY <1>6 DEF GiveUp, Fail
<1>7. ASSUME NEW t \in Tasks, CancelTrip(t) PROVE CountType'
  BY <1>7 DEF CancelTrip
<1>8. ASSUME NEW t \in Tasks, t = Hb => Aborted, CancelEarly(t) PROVE CountType'
  BY <1>8 DEF CancelEarly, Forget
<1>9. ASSUME NEW t \in Tasks, Refuse(t) PROVE CountType'
  BY <1>9 DEF Refuse, Usable
<1>10. ASSUME NEW t \in Tasks, Begin(t) PROVE CountType'
  <2>1. PICK n \in Writes(op[t]) : StartTrip(t, op[t], n)
    BY <1>10 DEF Begin
  <2>2. n \in Nat
    BY DEF Writes
  <2> QED BY <1>10, <2>1, <2>2 DEF Begin, StartTrip
<1>11. ASSUME NEW t \in Tasks, EncodeFrame(t) PROVE CountType'
  BY <1>11 DEF EncodeFrame
<1>12. ASSUME NEW t \in Tasks, Flush(t) PROVE CountType'
  <2>1. left[t] \in Nat \ {0}
    BY <1>12 DEF Flush, WriteOut, SendInv
  <2>2. UNCHANGED <<trip, trips, chunks, attempt>>
    BY <1>12 DEF Flush
  <2>3. CASE Len(wbuf) = 1
    <3>1. left' = [left EXCEPT ![t] = left[t] - 1]
      BY <2>3, <1>12 DEF Flush
    <3> QED BY <2>1, <2>2, <3>1
  <2>4. CASE Len(wbuf) # 1
    <3>1. left' = left
      BY <2>4, <1>12 DEF Flush
    <3> QED BY <2>2, <3>1
  <2> QED BY <2>3, <2>4
<1>13. ASSUME NEW t \in Tasks, WriteNative(t) PROVE CountType'
  <2>1. left[t] \in Nat \ {0}
    BY <1>13 DEF WriteNative, SendInv
  <2> QED BY <1>13, <2>1 DEF WriteNative
<1>14. ASSUME NEW t \in Tasks, ReadMore(t) PROVE CountType'
  BY <1>14 DEF ReadMore
<1>15. ASSUME NEW t \in Tasks, ReadDone(t) PROVE CountType'
  <2>1. UNCHANGED <<left, trip, trips>>
    BY <1>15 DEF ReadDone
  <2>2. chunks' \in [Tasks -> Nat] /\ attempt' \in [Tasks -> Nat]
    <3>1. CASE op[t] \in {"start", "content"}
      <4>1. PICK n \in 0..MaxChunks : chunks' = [chunks EXCEPT ![t] = n]
        BY <3>1, <1>15 DEF ReadDone
      <4>2. n \in Nat
        BY <4>1
      <4>3. attempt' = [attempt EXCEPT ![t] = 0]
        BY <3>1, <1>15 DEF ReadDone
      <4> QED BY <4>1, <4>2, <4>3
    <3>2. CASE op[t] \notin {"start", "content"}
      BY <3>2, <1>15 DEF ReadDone
    <3> QED BY <3>1, <3>2
  <2> QED BY <2>1, <2>2
<1>16. ASSUME NEW t \in Tasks, ReadNack(t) PROVE CountType'
  <2>1. CASE op[t] = "content" /\ attempt[t] < Retries
    <3>1. /\ attempt' = [attempt EXCEPT ![t] = attempt[t] + 1]
          /\ left' = [left EXCEPT ![t] = 1] /\ trip' = [trip EXCEPT ![t] = trips + 1]
          /\ trips' = trips + 1 /\ chunks' = chunks
      BY <2>1, <1>16 DEF ReadNack, StartTrip
    <3> QED BY <3>1
  <2>2. CASE ~(op[t] = "content" /\ attempt[t] < Retries)
    BY <2>2, <1>16 DEF ReadNack
  <2> QED BY <2>1, <2>2
<1>17. ASSUME NEW t \in Tasks, ReadBad(t) PROVE CountType'
  BY <1>17 DEF ReadBad, Fail
<1>18. ASSUME NEW t \in Tasks, Settle(t) PROVE CountType'
  BY <1>18 DEF Settle, DropGuard
<1>19. ASSUME NEW t \in Tasks, Unlock(t) PROVE CountType'
  BY <1>19 DEF Unlock, HbNext, Forget
<1>20. CASE HbExit
  BY <1>20 DEF HbExit
<1>21. CASE HbPing
  BY <1>21 DEF HbPing
<1>22. CASE HbMark
  BY <1>22 DEF HbMark
<1>23. CASE CloseStart
  BY <1>23 DEF CloseStart
<1>24. CASE CloseJoin
  BY <1>24 DEF CloseJoin
<1>25. CASE CloseFlush
  BY <1>25 DEF CloseFlush, CloseHolds, WriteOut
<1>26. CASE CloseShut
  BY <1>26 DEF CloseShut, CloseHolds
<1>27. CASE CloseBroken
  BY <1>27 DEF CloseBroken, CloseHolds
<1>28. CASE CloseDropped
  BY <1>28 DEF CloseDropped
<1>29. CASE DropDevice
  BY <1>29 DEF DropDevice
<1>30. CASE DevTake
  BY <1>30 DEF DevTake
<1>31. CASE DevAnswer
  BY <1>31 DEF DevAnswer
<1>32. CASE DevMore
  BY <1>32 DEF DevMore, Say
<1>33. CASE DevEnd
  BY <1>33 DEF DevEnd, Say
<1>34. CASE DevClose
  BY <1>34 DEF DevClose
<1>35. CASE UNCHANGED vars
  BY <1>35 DEF vars
<1> QED BY StepKinds, <1>1, <1>2, <1>3, <1>4, <1>5, <1>6, <1>7, <1>8, <1>9, <1>10, <1>11,
           <1>12, <1>13, <1>14, <1>15, <1>16, <1>17, <1>18, <1>19, <1>20, <1>21, <1>22, <1>23,
           <1>24, <1>25, <1>26, <1>27, <1>28, <1>29, <1>30, <1>31, <1>32, <1>33, <1>34, <1>35

\* Types of the frames buffered and in flight.
LEMMA FrameStep ==
  ASSUME TypeOK, WireInv, [Next]_vars
  PROVE  WireType'
<1> USE DEF TypeOK, WireType
<1>1. ASSUME NEW c \in Callers, NEW k \in Workload, Command(c, k) PROVE WireType'
  BY <1>1 DEF Command
<1>2. ASSUME NEW c \in Callers, UploadFile(c) PROVE WireType'
  BY <1>2 DEF UploadFile
<1>3. ASSUME NEW c \in Callers, FirstPoll(c) PROVE WireType'
  BY <1>3 DEF FirstPoll
<1>4. ASSUME NEW c \in Callers, NextTrip(c) PROVE WireType'
  BY <1>4 DEF NextTrip, StartTrip
<1>5. ASSUME NEW c \in Callers, PollParked(c) PROVE WireType'
  BY <1>5 DEF PollParked
<1>6. ASSUME NEW t \in Tasks, GiveUp(t) PROVE WireType'
  BY <1>6 DEF GiveUp, Fail
<1>7. ASSUME NEW t \in Tasks, CancelTrip(t) PROVE WireType'
  BY <1>7 DEF CancelTrip
<1>8. ASSUME NEW t \in Tasks, t = Hb => Aborted, CancelEarly(t) PROVE WireType'
  BY <1>8 DEF CancelEarly, Forget
<1>9. ASSUME NEW t \in Tasks, Refuse(t) PROVE WireType'
  BY <1>9 DEF Refuse, Usable
<1>10. ASSUME NEW t \in Tasks, Begin(t) PROVE WireType'
  BY <1>10 DEF Begin, StartTrip, Usable
<1>11. ASSUME NEW t \in Tasks, EncodeFrame(t) PROVE WireType'
  BY <1>11, Encoded DEF EncodeFrame
<1>12. ASSUME NEW t \in Tasks, Flush(t) PROVE WireType'
  BY <1>12, Written DEF Flush
<1>13. ASSUME NEW t \in Tasks, WriteNative(t) PROVE WireType'
  <2>1. [id |-> trip[t], kind |-> "native"] \in DevFrame
    BY DEF CountType, DevFrame
  <2> QED BY <1>13, <2>1, AppendFacts DEF WriteNative
<1>14. ASSUME NEW t \in Tasks, ReadMore(t) PROVE WireType'
  BY <1>14, TailFacts DEF ReadMore
<1>15. ASSUME NEW t \in Tasks, ReadDone(t) PROVE WireType'
  BY <1>15, TailFacts DEF ReadDone, Disarm
<1>16. ASSUME NEW t \in Tasks, ReadNack(t) PROVE WireType'
  BY <1>16, TailFacts DEF ReadNack, StartTrip, Disarm, Fail
<1>17. ASSUME NEW t \in Tasks, ReadBad(t) PROVE WireType'
  BY <1>17, TailFacts DEF ReadBad, Fail
<1>18. ASSUME NEW t \in Tasks, Settle(t) PROVE WireType'
  BY <1>18 DEF Settle, DropGuard
<1>19. ASSUME NEW t \in Tasks, Unlock(t) PROVE WireType'
  BY <1>19 DEF Unlock, HbNext, Forget
<1>20. CASE HbExit
  BY <1>20 DEF HbExit
<1>21. CASE HbPing
  BY <1>21 DEF HbPing
<1>22. CASE HbMark
  BY <1>22 DEF HbMark
<1>23. CASE CloseStart
  BY <1>23 DEF CloseStart
<1>24. CASE CloseJoin
  BY <1>24 DEF CloseJoin
<1>25. CASE CloseFlush
  BY <1>25, Written DEF CloseFlush
<1>26. CASE CloseShut
  BY <1>26 DEF CloseShut, CloseHolds
<1>27. CASE CloseBroken
  BY <1>27 DEF CloseBroken, CloseHolds
<1>28. CASE CloseDropped
  BY <1>28 DEF CloseDropped
<1>29. CASE DropDevice
  BY <1>29 DEF DropDevice
<1>30. CASE DevTake
  BY <1>30, TailFacts DEF DevTake
<1>31. CASE DevAnswer
  <2>1. toDev' \in Seq(DevFrame) /\ Head(toDev) \in DevFrame
    BY <1>31, TailFacts DEF DevAnswer
  <2>2. Head(toDev).id \in Nat
    BY <2>1 DEF DevFrame
  <2> QED BY <1>31, <2>1, <2>2 DEF DevAnswer
<1>32. CASE DevMore
  BY <1>32, Said DEF DevMore
<1>33. CASE DevEnd
  BY <1>33, Said DEF DevEnd
<1>34. CASE DevClose
  BY <1>34 DEF DevClose
<1>35. CASE UNCHANGED vars
  BY <1>35 DEF vars
<1> QED BY StepKinds, <1>1, <1>2, <1>3, <1>4, <1>5, <1>6, <1>7, <1>8, <1>9, <1>10, <1>11,
           <1>12, <1>13, <1>14, <1>15, <1>16, <1>17, <1>18, <1>19, <1>20, <1>21, <1>22, <1>23,
           <1>24, <1>25, <1>26, <1>27, <1>28, <1>29, <1>30, <1>31, <1>32, <1>33, <1>34, <1>35

-----------------------------------------------------------------------------
(* The tasks, the mutex, the guard and the wire.                           *)

\* Every task stays in its own part of the program.
LEMMA PlaceStep ==
  ASSUME TypeOK, PlaceInv, [Next]_vars
  PROVE  PlaceInv'
<1> USE DEF PlaceInv, TypeOK, TaskType, Tasks, Uploads
<1> USE TaskAssumption, UseAssumption
<1>1. ASSUME NEW c \in Callers, NEW k \in Workload, Command(c, k) PROVE PlaceInv'
  BY <1>1 DEF Command, Acquire
<1>2. ASSUME NEW c \in Callers, UploadFile(c) PROVE PlaceInv'
  BY <1>2 DEF UploadFile
<1>3. ASSUME NEW c \in Callers, FirstPoll(c) PROVE PlaceInv'
  BY <1>3 DEF FirstPoll, Acquire
<1>4. ASSUME NEW c \in Callers, NextTrip(c) PROVE PlaceInv'
  BY <1>4 DEF NextTrip, StartTrip
<1>5. ASSUME NEW c \in Callers, PollParked(c) PROVE PlaceInv'
  BY <1>5 DEF PollParked
<1>6. ASSUME NEW t \in Tasks, GiveUp(t) PROVE PlaceInv'
  BY <1>6 DEF GiveUp, Fail
<1>7. ASSUME NEW t \in Tasks, CancelTrip(t) PROVE PlaceInv'
  BY <1>7 DEF CancelTrip
<1>8. ASSUME NEW t \in Tasks, t = Hb => Aborted, CancelEarly(t) PROVE PlaceInv'
  BY <1>8 DEF CancelEarly, Forget
<1>9. ASSUME NEW t \in Tasks, Refuse(t) PROVE PlaceInv'
  BY <1>9 DEF Refuse, Usable
<1>10. ASSUME NEW t \in Tasks, Begin(t) PROVE PlaceInv'
  BY <1>10 DEF Begin, StartTrip, Usable
<1>11. ASSUME NEW t \in Tasks, EncodeFrame(t) PROVE PlaceInv'
  BY <1>11 DEF EncodeFrame
<1>12. ASSUME NEW t \in Tasks, Flush(t) PROVE PlaceInv'
  BY <1>12 DEF Flush, WriteOut, AfterFrame
<1>13. ASSUME NEW t \in Tasks, WriteNative(t) PROVE PlaceInv'
  BY <1>13 DEF WriteNative, Disarm
<1>14. ASSUME NEW t \in Tasks, ReadMore(t) PROVE PlaceInv'
  BY <1>14 DEF ReadMore
<1>15. ASSUME NEW t \in Tasks, ReadDone(t) PROVE PlaceInv'
  BY <1>15 DEF ReadDone, Disarm
<1>16. ASSUME NEW t \in Tasks, ReadNack(t) PROVE PlaceInv'
  BY <1>16 DEF ReadNack, StartTrip, Disarm, Fail
<1>17. ASSUME NEW t \in Tasks, ReadBad(t) PROVE PlaceInv'
  BY <1>17 DEF ReadBad, Fail
<1>18. ASSUME NEW t \in Tasks, Settle(t) PROVE PlaceInv'
  BY <1>18 DEF Settle, DropGuard
<1>19. ASSUME NEW t \in Tasks, Unlock(t) PROVE PlaceInv'
  BY <1>19 DEF Unlock, HbNext, Forget
<1>20. CASE HbExit
  BY <1>20 DEF HbExit
<1>21. CASE HbPing
  BY <1>21 DEF HbPing, Acquire
<1>22. CASE HbMark
  BY <1>22 DEF HbMark
<1>23. CASE CloseStart
  BY <1>23 DEF CloseStart, Acquire, Unborrowed
<1>24. CASE CloseJoin
  BY <1>24 DEF CloseJoin, Acquire
<1>25. CASE CloseFlush
  BY <1>25 DEF CloseFlush, CloseHolds, WriteOut
<1>26. CASE CloseShut
  BY <1>26 DEF CloseShut, CloseHolds
<1>27. CASE CloseBroken
  BY <1>27 DEF CloseBroken, CloseHolds
<1>28. CASE CloseDropped
  BY <1>28 DEF CloseDropped
<1>29. CASE DropDevice
  BY <1>29 DEF DropDevice, Unborrowed
<1>30. CASE DevTake
  BY <1>30 DEF DevTake
<1>31. CASE DevAnswer
  BY <1>31 DEF DevAnswer
<1>32. CASE DevMore
  BY <1>32 DEF DevMore, Say
<1>33. CASE DevEnd
  BY <1>33 DEF DevEnd, Say
<1>34. CASE DevClose
  BY <1>34 DEF DevClose
<1>35. CASE UNCHANGED vars
  BY <1>35 DEF vars
<1> QED BY StepKinds, <1>1, <1>2, <1>3, <1>4, <1>5, <1>6, <1>7, <1>8, <1>9, <1>10, <1>11,
           <1>12, <1>13, <1>14, <1>15, <1>16, <1>17, <1>18, <1>19, <1>20, <1>21, <1>22, <1>23,
           <1>24, <1>25, <1>26, <1>27, <1>28, <1>29, <1>30, <1>31, <1>32, <1>33, <1>34, <1>35

\* The mutex has one owner, and its queue no duplicates.
LEMMA MutexStep ==
  ASSUME TypeOK, PlaceInv, MutexInv, [Next]_vars
  PROVE  MutexInv'
<1>0. pc \in [Tasks -> Stops] /\ holder \in Tasks \cup {None}
  BY DEF TypeOK, LinkType, TaskType
<1> USE <1>0, TaskAssumption
<1>1. ASSUME NEW c \in Callers, NEW k \in Workload, Command(c, k) PROVE MutexInv'
  <2>1. c \in Tasks /\ pc[c] = "idle" /\ Acquire(c)
    BY <1>1 DEF Command, Tasks
  <2> QED BY <2>1, AcquireKeeps DEF Critical
<1>2. ASSUME NEW c \in Callers, UploadFile(c) PROVE MutexInv'
  <2>1. \A u \in Tasks : /\ pc[u] = "lock" => pc'[u] = "lock" \/ u = holder
                         /\ pc'[u] \in Critical => pc[u] \in Critical \/ u = holder
                         /\ u = holder => pc'[u] \in Critical \cup {"lock"}
    BY <1>2 DEF UploadFile, MutexInv, Critical
  <2> QED BY <1>2, <2>1, MutexFrame DEF UploadFile
<1>3. ASSUME NEW c \in Callers, FirstPoll(c) PROVE MutexInv'
  <2>1. c \in Tasks /\ pc[c] = "fresh" /\ Acquire(c)
    BY <1>3 DEF FirstPoll, Tasks
  <2> QED BY <2>1, AcquireKeeps DEF Critical
<1>4. ASSUME NEW c \in Callers, NextTrip(c) PROVE MutexInv'
  <2>1. \A u \in Tasks : /\ pc[u] = "lock" => pc'[u] = "lock" \/ u = holder
                         /\ pc'[u] \in Critical => pc[u] \in Critical \/ u = holder
                         /\ u = holder => pc'[u] \in Critical \cup {"lock"}
    BY <1>4 DEF NextTrip, StartTrip, Tasks, MutexInv, Critical
  <2> QED BY <1>4, <2>1, MutexFrame DEF NextTrip
<1>5. ASSUME NEW c \in Callers, PollParked(c) PROVE MutexInv'
  <2>1. \A u \in Tasks : /\ pc[u] = "lock" => pc'[u] = "lock" \/ u = holder
                         /\ pc'[u] \in Critical => pc[u] \in Critical \/ u = holder
                         /\ u = holder => pc'[u] \in Critical \cup {"lock"}
    BY <1>5 DEF PollParked, Tasks, MutexInv, Critical
  <2> QED BY <1>5, <2>1, MutexFrame DEF PollParked
<1>6. ASSUME NEW t \in Tasks, GiveUp(t) PROVE MutexInv'
  <2>1. \A u \in Tasks : /\ pc[u] = "lock" => pc'[u] = "lock" \/ u = holder
                         /\ pc'[u] \in Critical => pc[u] \in Critical \/ u = holder
                         /\ u = holder => pc'[u] \in Critical \cup {"lock"}
    BY <1>6 DEF GiveUp, Fail, MutexInv, Critical
  <2> QED BY <1>6, <2>1, MutexFrame DEF GiveUp
<1>7. ASSUME NEW t \in Tasks, CancelTrip(t) PROVE MutexInv'
  <2>1. \A u \in Tasks : /\ pc[u] = "lock" => pc'[u] = "lock" \/ u = holder
                         /\ pc'[u] \in Critical => pc[u] \in Critical \/ u = holder
                         /\ u = holder => pc'[u] \in Critical \cup {"lock"}
    BY <1>7 DEF CancelTrip, MutexInv, Critical
  <2> QED BY <1>7, <2>1, MutexFrame DEF CancelTrip
<1>8. ASSUME NEW t \in Tasks, t = Hb => Aborted, CancelEarly(t) PROVE MutexInv'
  <2>1. CASE pc[t] = "fresh" /\ UNCHANGED lockVars
    <3>1. \A u \in Tasks : /\ pc[u] = "lock" => pc'[u] = "lock" \/ u = holder
                           /\ pc'[u] \in Critical => pc[u] \in Critical \/ u = holder
                           /\ u = holder => pc'[u] \in Critical \cup {"lock"}
      BY <2>1, <1>8 DEF CancelEarly, MutexInv, Critical
    <3> QED BY <2>1, <3>1, MutexFrame
  <2>2. CASE pc[t] = "lock" /\ Withdraw(t)
    <3> DEFINE where == IF t = Hb THEN "exited" ELSE "idle"
    <3>1. pc' = [pc EXCEPT ![t] = where] /\ where \notin Critical
      BY <1>8 DEF CancelEarly, Critical
    <3> HIDE DEF where
    <3> QED BY <2>2, <3>1, WithdrawKeeps
  <2> QED BY <1>8, <2>1, <2>2 DEF CancelEarly
<1>9. ASSUME NEW t \in Tasks, Refuse(t) PROVE MutexInv'
  <2>1. \A u \in Tasks : /\ pc[u] = "lock" => pc'[u] = "lock" \/ u = holder
                         /\ pc'[u] \in Critical => pc[u] \in Critical \/ u = holder
                         /\ u = holder => pc'[u] \in Critical \cup {"lock"}
    BY <1>9 DEF Refuse, MutexInv, Critical
  <2> QED BY <1>9, <2>1, MutexFrame DEF Refuse
<1>10. ASSUME NEW t \in Tasks, Begin(t) PROVE MutexInv'
  <2>1. \A u \in Tasks : /\ pc[u] = "lock" => pc'[u] = "lock" \/ u = holder
                         /\ pc'[u] \in Critical => pc[u] \in Critical \/ u = holder
                         /\ u = holder => pc'[u] \in Critical \cup {"lock"}
    BY <1>10 DEF Begin, StartTrip, MutexInv, Critical
  <2> QED BY <1>10, <2>1, MutexFrame DEF Begin
<1>11. ASSUME NEW t \in Tasks, EncodeFrame(t) PROVE MutexInv'
  <2>1. \A u \in Tasks : /\ pc[u] = "lock" => pc'[u] = "lock" \/ u = holder
                         /\ pc'[u] \in Critical => pc[u] \in Critical \/ u = holder
                         /\ u = holder => pc'[u] \in Critical \cup {"lock"}
    BY <1>11 DEF EncodeFrame, MutexInv, Critical
  <2> QED BY <1>11, <2>1, MutexFrame DEF EncodeFrame
<1>12. ASSUME NEW t \in Tasks, Flush(t) PROVE MutexInv'
  <2>1. \A u \in Tasks : /\ pc[u] = "lock" => pc'[u] = "lock" \/ u = holder
                         /\ pc'[u] \in Critical => pc[u] \in Critical \/ u = holder
                         /\ u = holder => pc'[u] \in Critical \cup {"lock"}
    BY <1>12 DEF Flush, AfterFrame, MutexInv, Critical
  <2> QED BY <1>12, <2>1, MutexFrame DEF Flush
<1>13. ASSUME NEW t \in Tasks, WriteNative(t) PROVE MutexInv'
  <2>1. \A u \in Tasks : /\ pc[u] = "lock" => pc'[u] = "lock" \/ u = holder
                         /\ pc'[u] \in Critical => pc[u] \in Critical \/ u = holder
                         /\ u = holder => pc'[u] \in Critical \cup {"lock"}
    BY <1>13 DEF WriteNative, MutexInv, Critical
  <2> QED BY <1>13, <2>1, MutexFrame DEF WriteNative
<1>14. ASSUME NEW t \in Tasks, ReadMore(t) PROVE MutexInv'
  <2>1. \A u \in Tasks : /\ pc[u] = "lock" => pc'[u] = "lock" \/ u = holder
                         /\ pc'[u] \in Critical => pc[u] \in Critical \/ u = holder
                         /\ u = holder => pc'[u] \in Critical \cup {"lock"}
    BY <1>14 DEF ReadMore, MutexInv, Critical
  <2> QED BY <1>14, <2>1, MutexFrame DEF ReadMore
<1>15. ASSUME NEW t \in Tasks, ReadDone(t) PROVE MutexInv'
  <2>1. \A u \in Tasks : /\ pc[u] = "lock" => pc'[u] = "lock" \/ u = holder
                         /\ pc'[u] \in Critical => pc[u] \in Critical \/ u = holder
                         /\ u = holder => pc'[u] \in Critical \cup {"lock"}
    BY <1>15 DEF ReadDone, MutexInv, Critical
  <2> QED BY <1>15, <2>1, MutexFrame DEF ReadDone
<1>16. ASSUME NEW t \in Tasks, ReadNack(t) PROVE MutexInv'
  <2>1. \A u \in Tasks : /\ pc[u] = "lock" => pc'[u] = "lock" \/ u = holder
                         /\ pc'[u] \in Critical => pc[u] \in Critical \/ u = holder
                         /\ u = holder => pc'[u] \in Critical \cup {"lock"}
    BY <1>16 DEF ReadNack, StartTrip, Fail, MutexInv, Critical
  <2> QED BY <1>16, <2>1, MutexFrame DEF ReadNack
<1>17. ASSUME NEW t \in Tasks, ReadBad(t) PROVE MutexInv'
  <2>1. \A u \in Tasks : /\ pc[u] = "lock" => pc'[u] = "lock" \/ u = holder
                         /\ pc'[u] \in Critical => pc[u] \in Critical \/ u = holder
                         /\ u = holder => pc'[u] \in Critical \cup {"lock"}
    BY <1>17 DEF ReadBad, Fail, MutexInv, Critical
  <2> QED BY <1>17, <2>1, MutexFrame DEF ReadBad
<1>18. ASSUME NEW t \in Tasks, Settle(t) PROVE MutexInv'
  <2>1. \A u \in Tasks : /\ pc[u] = "lock" => pc'[u] = "lock" \/ u = holder
                         /\ pc'[u] \in Critical => pc[u] \in Critical \/ u = holder
                         /\ u = holder => pc'[u] \in Critical \cup {"lock"}
    BY <1>18 DEF Settle, MutexInv, Critical
  <2> QED BY <1>18, <2>1, MutexFrame DEF Settle
<1>19. ASSUME NEW t \in Tasks, Unlock(t) PROVE MutexInv'
  <2> DEFINE where == IF t = Hb THEN HbNext ELSE "idle"
  <2>1. pc' = [pc EXCEPT ![t] = where] /\ where \notin Critical /\ holder = t /\ Release
    BY <1>19 DEF Unlock, HbNext, Critical, MutexInv
  <2> HIDE DEF where
  <2> QED BY <2>1, ReleaseKeeps
<1>20. CASE HbExit
  <2>1. \A u \in Tasks : /\ pc[u] = "lock" => pc'[u] = "lock" \/ u = holder
                         /\ pc'[u] \in Critical => pc[u] \in Critical \/ u = holder
                         /\ u = holder => pc'[u] \in Critical \cup {"lock"}
    BY <1>20 DEF HbExit, MutexInv, Critical
  <2> QED BY <1>20, <2>1, MutexFrame DEF HbExit
<1>21. CASE HbPing
  <2>1. Hb \in Tasks /\ pc[Hb] = "tick" /\ Acquire(Hb)
    BY <1>21 DEF HbPing, Tasks
  <2> QED BY <2>1, AcquireKeeps DEF Critical
<1>22. CASE HbMark
  <2>1. \A u \in Tasks : /\ pc[u] = "lock" => pc'[u] = "lock" \/ u = holder
                         /\ pc'[u] \in Critical => pc[u] \in Critical \/ u = holder
                         /\ u = holder => pc'[u] \in Critical \cup {"lock"}
    BY <1>22 DEF HbMark, MutexInv, Critical
  <2> QED BY <1>22, <2>1, MutexFrame DEF HbMark
<1>23. CASE CloseStart
  <2>1. Closer \in Tasks /\ pc[Closer] = "idle"
    BY <1>23 DEF CloseStart, Unborrowed, PlaceInv, Tasks
  <2>2. CASE Protocol = "sdk2"
    <3>1. \A u \in Tasks : /\ pc[u] = "lock" => pc'[u] = "lock" \/ u = holder
                           /\ pc'[u] \in Critical => pc[u] \in Critical \/ u = holder
                           /\ u = holder => pc'[u] \in Critical \cup {"lock"}
      BY <2>1, <2>2, <1>23 DEF CloseStart, MutexInv, Critical
    <3> QED BY <1>23, <2>2, <3>1, MutexFrame DEF CloseStart
  <2>3. CASE Protocol # "sdk2"
    <3>1. Acquire(Closer)
      BY <2>3, <1>23 DEF CloseStart
    <3> QED BY <2>1, <3>1, AcquireKeeps DEF Critical
  <2> QED BY <2>2, <2>3
<1>24. CASE CloseJoin
  <2>1. Closer \in Tasks /\ pc[Closer] = "abort" /\ Acquire(Closer)
    BY <1>24 DEF CloseJoin, Tasks
  <2> QED BY <2>1, AcquireKeeps DEF Critical
<1>25. CASE CloseFlush
  <2>1. \A u \in Tasks : /\ pc[u] = "lock" => pc'[u] = "lock" \/ u = holder
                         /\ pc'[u] \in Critical => pc[u] \in Critical \/ u = holder
                         /\ u = holder => pc'[u] \in Critical \cup {"lock"}
    BY <1>25 DEF CloseFlush, MutexInv, Critical
  <2> QED BY <1>25, <2>1, MutexFrame DEF CloseFlush
<1>26. CASE CloseShut
  <2>1. \A u \in Tasks : /\ pc[u] = "lock" => pc'[u] = "lock" \/ u = holder
                         /\ pc'[u] \in Critical => pc[u] \in Critical \/ u = holder
                         /\ u = holder => pc'[u] \in Critical \cup {"lock"}
    BY <1>26 DEF CloseShut, CloseHolds, MutexInv, Critical
  <2> QED BY <1>26, <2>1, MutexFrame DEF CloseShut
<1>27. CASE CloseBroken
  <2>1. \A u \in Tasks : /\ pc[u] = "lock" => pc'[u] = "lock" \/ u = holder
                         /\ pc'[u] \in Critical => pc[u] \in Critical \/ u = holder
                         /\ u = holder => pc'[u] \in Critical \cup {"lock"}
    BY <1>27 DEF CloseBroken, CloseHolds, MutexInv, Critical
  <2> QED BY <1>27, <2>1, MutexFrame DEF CloseBroken
<1>28. CASE CloseDropped
  <2>1. \A u \in Tasks : /\ pc[u] = "lock" => pc'[u] = "lock" \/ u = holder
                         /\ pc'[u] \in Critical => pc[u] \in Critical \/ u = holder
                         /\ u = holder => pc'[u] \in Critical \cup {"lock"}
    BY <1>28 DEF CloseDropped, MutexInv, Critical
  <2> QED BY <1>28, <2>1, MutexFrame DEF CloseDropped
<1>29. CASE DropDevice
  <2>1. \A u \in Tasks : /\ pc[u] = "lock" => pc'[u] = "lock" \/ u = holder
                         /\ pc'[u] \in Critical => pc[u] \in Critical \/ u = holder
                         /\ u = holder => pc'[u] \in Critical \cup {"lock"}
    BY <1>29 DEF DropDevice, MutexInv, Critical
  <2> QED BY <1>29, <2>1, MutexFrame DEF DropDevice
<1>30. CASE DevTake
  <2>1. \A u \in Tasks : /\ pc[u] = "lock" => pc'[u] = "lock" \/ u = holder
                         /\ pc'[u] \in Critical => pc[u] \in Critical \/ u = holder
                         /\ u = holder => pc'[u] \in Critical \cup {"lock"}
    BY <1>30 DEF DevTake, MutexInv, Critical
  <2> QED BY <1>30, <2>1, MutexFrame DEF DevTake
<1>31. CASE DevAnswer
  <2>1. \A u \in Tasks : /\ pc[u] = "lock" => pc'[u] = "lock" \/ u = holder
                         /\ pc'[u] \in Critical => pc[u] \in Critical \/ u = holder
                         /\ u = holder => pc'[u] \in Critical \cup {"lock"}
    BY <1>31 DEF DevAnswer, MutexInv, Critical
  <2> QED BY <1>31, <2>1, MutexFrame DEF DevAnswer
<1>32. CASE DevMore
  <2>1. \A u \in Tasks : /\ pc[u] = "lock" => pc'[u] = "lock" \/ u = holder
                         /\ pc'[u] \in Critical => pc[u] \in Critical \/ u = holder
                         /\ u = holder => pc'[u] \in Critical \cup {"lock"}
    BY <1>32 DEF DevMore, MutexInv, Critical
  <2> QED BY <1>32, <2>1, MutexFrame DEF DevMore
<1>33. CASE DevEnd
  <2>1. \A u \in Tasks : /\ pc[u] = "lock" => pc'[u] = "lock" \/ u = holder
                         /\ pc'[u] \in Critical => pc[u] \in Critical \/ u = holder
                         /\ u = holder => pc'[u] \in Critical \cup {"lock"}
    BY <1>33 DEF DevEnd, MutexInv, Critical
  <2> QED BY <1>33, <2>1, MutexFrame DEF DevEnd
<1>34. CASE DevClose
  <2>1. \A u \in Tasks : /\ pc[u] = "lock" => pc'[u] = "lock" \/ u = holder
                         /\ pc'[u] \in Critical => pc[u] \in Critical \/ u = holder
                         /\ u = holder => pc'[u] \in Critical \cup {"lock"}
    BY <1>34 DEF DevClose, MutexInv, Critical
  <2> QED BY <1>34, <2>1, MutexFrame DEF DevClose
<1>35. CASE UNCHANGED vars
  <2>1. \A u \in Tasks : /\ pc[u] = "lock" => pc'[u] = "lock" \/ u = holder
                         /\ pc'[u] \in Critical => pc[u] \in Critical \/ u = holder
                         /\ u = holder => pc'[u] \in Critical \cup {"lock"}
    BY <1>35 DEF vars, MutexInv, Critical
  <2> QED BY <1>35, <2>1, MutexFrame DEF vars
<1> QED BY StepKinds, <1>1, <1>2, <1>3, <1>4, <1>5, <1>6, <1>7, <1>8, <1>9, <1>10, <1>11,
           <1>12, <1>13, <1>14, <1>15, <1>16, <1>17, <1>18, <1>19, <1>20, <1>21, <1>22, <1>23,
           <1>24, <1>25, <1>26, <1>27, <1>28, <1>29, <1>30, <1>31, <1>32, <1>33, <1>34, <1>35

\* The guard is armed through every exchange and only there.
LEMMA GuardStep ==
  ASSUME TypeOK, PlaceInv, MutexInv, OutcomeInv, GuardInv, [Next]_vars
  PROVE  GuardInv'
<1> USE DEF GuardInv, Critical, TypeOK, TaskType, LinkType
<1> USE TaskAssumption
<1>1. ASSUME NEW c \in Callers, NEW k \in Workload, Command(c, k) PROVE GuardInv'
  BY <1>1 DEF Command, Acquire
<1>2. ASSUME NEW c \in Callers, UploadFile(c) PROVE GuardInv'
  BY <1>2 DEF UploadFile
<1>3. ASSUME NEW c \in Callers, FirstPoll(c) PROVE GuardInv'
  BY <1>3 DEF FirstPoll, Acquire
<1>4. ASSUME NEW c \in Callers, NextTrip(c) PROVE GuardInv'
  BY <1>4 DEF NextTrip, StartTrip, Tasks
<1>5. ASSUME NEW c \in Callers, PollParked(c) PROVE GuardInv'
  BY <1>5 DEF PollParked, Tasks
<1>6. ASSUME NEW t \in Tasks, GiveUp(t) PROVE GuardInv'
  BY <1>6 DEF GiveUp, Fail
<1>7. ASSUME NEW t \in Tasks, CancelTrip(t) PROVE GuardInv'
  BY <1>7 DEF CancelTrip
<1>8. ASSUME NEW t \in Tasks, t = Hb => Aborted, CancelEarly(t) PROVE GuardInv'
  BY <1>8 DEF CancelEarly, Forget
<1>9. ASSUME NEW t \in Tasks, Refuse(t) PROVE GuardInv'
  BY <1>9 DEF Refuse, Usable
<1>10. ASSUME NEW t \in Tasks, Begin(t) PROVE GuardInv'
  BY <1>10 DEF Begin, StartTrip, Usable, MutexInv
<1>11. ASSUME NEW t \in Tasks, EncodeFrame(t) PROVE GuardInv'
  BY <1>11 DEF EncodeFrame
<1>12. ASSUME NEW t \in Tasks, Flush(t) PROVE GuardInv'
  BY <1>12 DEF Flush, WriteOut, AfterFrame
<1>13. ASSUME NEW t \in Tasks, WriteNative(t) PROVE GuardInv'
  BY <1>13 DEF WriteNative, Disarm
<1>14. ASSUME NEW t \in Tasks, ReadMore(t) PROVE GuardInv'
  BY <1>14 DEF ReadMore
<1>15. ASSUME NEW t \in Tasks, ReadDone(t) PROVE GuardInv'
  BY <1>15 DEF ReadDone, Disarm
<1>16. ASSUME NEW t \in Tasks, ReadNack(t) PROVE GuardInv'
  BY <1>16 DEF ReadNack, StartTrip, Disarm, Fail
<1>17. ASSUME NEW t \in Tasks, ReadBad(t) PROVE GuardInv'
  BY <1>17 DEF ReadBad, Fail
<1>18. ASSUME NEW t \in Tasks, Settle(t) PROVE GuardInv'
  BY <1>18 DEF Settle, DropGuard, MutexInv
<1>19. ASSUME NEW t \in Tasks, Unlock(t) PROVE GuardInv'
  BY <1>19 DEF Unlock, HbNext, Forget
<1>20. CASE HbExit
  BY <1>20 DEF HbExit
<1>21. CASE HbPing
  BY <1>21 DEF HbPing, Acquire
<1>22. CASE HbMark
  BY <1>22 DEF HbMark, MutexInv, OutcomeInv
<1>23. CASE CloseStart
  BY <1>23 DEF CloseStart, Acquire, Unborrowed, PlaceInv, Tasks
<1>24. CASE CloseJoin
  BY <1>24 DEF CloseJoin, Acquire
<1>25. CASE CloseFlush
  BY <1>25 DEF CloseFlush, CloseHolds, WriteOut
<1>26. CASE CloseShut
  BY <1>26 DEF CloseShut, CloseHolds
<1>27. CASE CloseBroken
  BY <1>27 DEF CloseBroken, CloseHolds
<1>28. CASE CloseDropped
  BY <1>28 DEF CloseDropped
<1>29. CASE DropDevice
  BY <1>29 DEF DropDevice
<1>30. CASE DevTake
  BY <1>30 DEF DevTake
<1>31. CASE DevAnswer
  BY <1>31 DEF DevAnswer
<1>32. CASE DevMore
  BY <1>32 DEF DevMore, Say
<1>33. CASE DevEnd
  BY <1>33 DEF DevEnd, Say
<1>34. CASE DevClose
  BY <1>34 DEF DevClose
<1>35. CASE UNCHANGED vars
  BY <1>35 DEF vars
<1> QED BY StepKinds, <1>1, <1>2, <1>3, <1>4, <1>5, <1>6, <1>7, <1>8, <1>9, <1>10, <1>11,
           <1>12, <1>13, <1>14, <1>15, <1>16, <1>17, <1>18, <1>19, <1>20, <1>21, <1>22, <1>23,
           <1>24, <1>25, <1>26, <1>27, <1>28, <1>29, <1>30, <1>31, <1>32, <1>33, <1>34, <1>35

\* An outcome agrees with the guard and the flag.
LEMMA OutcomeStep ==
  ASSUME TypeOK, PlaceInv, MutexInv, GuardInv, OutcomeInv, [Next]_vars
  PROVE  OutcomeInv'
<1> USE DEF OutcomeInv, TypeOK, TaskType, LinkType
<1> USE TaskAssumption
<1>1. ASSUME NEW c \in Callers, NEW k \in Workload, Command(c, k) PROVE OutcomeInv'
  BY <1>1 DEF Command, Acquire, Tasks
<1>2. ASSUME NEW c \in Callers, UploadFile(c) PROVE OutcomeInv'
  BY <1>2 DEF UploadFile, Tasks
<1>3. ASSUME NEW c \in Callers, FirstPoll(c) PROVE OutcomeInv'
  BY <1>3 DEF FirstPoll, Acquire, Tasks
<1>4. ASSUME NEW c \in Callers, NextTrip(c) PROVE OutcomeInv'
  BY <1>4 DEF NextTrip, StartTrip, Tasks
<1>5. ASSUME NEW c \in Callers, PollParked(c) PROVE OutcomeInv'
  BY <1>5 DEF PollParked, Tasks
<1>6. ASSUME NEW t \in Tasks, GiveUp(t) PROVE OutcomeInv'
  BY <1>6 DEF GiveUp, Fail, GuardInv, PlaceInv
<1>7. ASSUME NEW t \in Tasks, CancelTrip(t) PROVE OutcomeInv'
  BY <1>7 DEF CancelTrip, GuardInv
<1>8. ASSUME NEW t \in Tasks, t = Hb => Aborted, CancelEarly(t) PROVE OutcomeInv'
  BY <1>8 DEF CancelEarly, Forget
<1>9. ASSUME NEW t \in Tasks, Refuse(t) PROVE OutcomeInv'
  BY <1>9 DEF Refuse, Usable, GuardInv, Critical
<1>10. ASSUME NEW t \in Tasks, Begin(t) PROVE OutcomeInv'
  BY <1>10 DEF Begin, StartTrip, Usable, MutexInv, GuardInv, Critical, Tasks
<1>11. ASSUME NEW t \in Tasks, EncodeFrame(t) PROVE OutcomeInv'
  <2>1. /\ pc' = [pc EXCEPT ![t] = "flush"] /\ UNCHANGED <<armed, result, poisoned, holder>>
        /\ pc[t] = "send"
    BY <1>11 DEF EncodeFrame, Goto
  <2> QED BY <2>1
<1>12. ASSUME NEW t \in Tasks, Flush(t) PROVE OutcomeInv'
  <2>1. UNCHANGED <<armed, result, poisoned, holder>> /\ pc[t] = "flush"
    BY <1>12 DEF Flush, WriteOut
  <2>2. AfterFrame(t) \in {"read", "send"}
    BY DEF AfterFrame
  <2>3. CASE pc' = pc
    BY <2>1, <2>3
  <2>4. CASE pc' = [pc EXCEPT ![t] = AfterFrame(t)]
    BY <2>1, <2>2, <2>4
  <2> QED BY <1>12, <2>3, <2>4 DEF Flush, Goto
<1>13. ASSUME NEW t \in Tasks, WriteNative(t) PROVE OutcomeInv'
  <2>0. pc[t] = "send" /\ armed[t] /\ ~poisoned /\ poisoned' = poisoned /\ pc[t] # "parked"
    BY <1>13 DEF WriteNative, GuardInv
  <2>1. CASE left[t] = 1
    <3>1. /\ armed' = [armed EXCEPT ![t] = FALSE] /\ result' = [result EXCEPT ![t] = "ok"]
          /\ pc' = [pc EXCEPT ![t] = "leave"]
      BY <2>1, <1>13 DEF WriteNative, Disarm
    <3> QED BY <2>0, <3>1
  <2>2. CASE left[t] # 1
    <3>1. UNCHANGED <<armed, result, pc>>
      BY <2>2, <1>13 DEF WriteNative
    <3> QED BY <2>0, <3>1
  <2> QED BY <2>1, <2>2
<1>14. ASSUME NEW t \in Tasks, ReadMore(t) PROVE OutcomeInv'
  BY <1>14 DEF ReadMore
<1>15. ASSUME NEW t \in Tasks, ReadDone(t) PROVE OutcomeInv'
  <2>0. pc[t] = "read" /\ armed[t] /\ ~poisoned /\ poisoned' = poisoned /\ pc[t] # "parked"
    BY <1>15 DEF ReadDone, GuardInv
  <2>1. CASE op[t] \notin {"start", "content"}
    <3>1. /\ armed' = [armed EXCEPT ![t] = FALSE] /\ result' = [result EXCEPT ![t] = "ok"]
          /\ pc' = [pc EXCEPT ![t] = "leave"]
      BY <2>1, <1>15 DEF ReadDone, Disarm
    <3> QED BY <2>0, <3>1
  <2>2. CASE op[t] \in {"start", "content"}
    <3>1. /\ armed' = armed /\ result' = result
          /\ \E w \in {"send", "flush", "read", "yield"} : pc' = [pc EXCEPT ![t] = w]
      BY <2>2, <1>15 DEF ReadDone, Disarm
    <3> QED BY <2>0, <3>1
  <2> QED BY <2>1, <2>2
<1>16. ASSUME NEW t \in Tasks, ReadNack(t) PROVE OutcomeInv'
  <2>0. pc[t] = "read" /\ armed[t] /\ ~poisoned /\ poisoned' = poisoned /\ pc[t] # "parked"
    BY <1>16 DEF ReadNack, GuardInv
  <2>3. t # Hb
    BY <1>16 DEF ReadNack, PlaceInv, Uploads
  <2>1. CASE ~(op[t] = "content" /\ attempt[t] < Retries)
    <3>1. /\ armed' = [armed EXCEPT ![t] = FALSE] /\ result' = [result EXCEPT ![t] = "rejected"]
          /\ pc' = [pc EXCEPT ![t] = "parked"]
      BY <2>1, <1>16 DEF ReadNack, Disarm, Fail, StartTrip
    <3> QED BY <2>0, <3>1, <2>3
  <2>2. CASE op[t] = "content" /\ attempt[t] < Retries
    <3>1. /\ armed' = armed /\ result' = result
          /\ \E w \in {"send", "flush", "read", "yield"} : pc' = [pc EXCEPT ![t] = w]
      BY <2>2, <1>16 DEF ReadNack, Disarm, Fail, StartTrip
    <3> QED BY <2>0, <3>1
  <2> QED BY <2>1, <2>2
<1>17. ASSUME NEW t \in Tasks, ReadBad(t) PROVE OutcomeInv'
  BY <1>17 DEF ReadBad, Fail, GuardInv
<1>18. ASSUME NEW t \in Tasks, Settle(t) PROVE OutcomeInv'
  BY <1>18 DEF Settle, DropGuard, MutexInv, Critical, GuardInv
<1>19. ASSUME NEW t \in Tasks, Unlock(t) PROVE OutcomeInv'
  BY <1>19 DEF Unlock, HbNext, Forget
<1>20. CASE HbExit
  BY <1>20 DEF HbExit
<1>21. CASE HbPing
  BY <1>21 DEF HbPing, Acquire, Tasks
<1>22. CASE HbMark
  BY <1>22 DEF HbMark, MutexInv
<1>23. CASE CloseStart
  BY <1>23 DEF CloseStart, Acquire, Unborrowed, PlaceInv, Tasks
<1>24. CASE CloseJoin
  BY <1>24 DEF CloseJoin, Acquire, Tasks
<1>25. CASE CloseFlush
  BY <1>25 DEF CloseFlush, CloseHolds, WriteOut
<1>26. CASE CloseShut
  BY <1>26 DEF CloseShut, CloseHolds, PlaceInv
<1>27. CASE CloseBroken
  BY <1>27 DEF CloseBroken, CloseHolds, PlaceInv
<1>28. CASE CloseDropped
  BY <1>28 DEF CloseDropped
<1>29. CASE DropDevice
  BY <1>29 DEF DropDevice
<1>30. CASE DevTake
  BY <1>30 DEF DevTake
<1>31. CASE DevAnswer
  BY <1>31 DEF DevAnswer
<1>32. CASE DevMore
  BY <1>32 DEF DevMore, Say
<1>33. CASE DevEnd
  BY <1>33 DEF DevEnd, Say
<1>34. CASE DevClose
  BY <1>34 DEF DevClose
<1>35. CASE UNCHANGED vars
  BY <1>35 DEF vars
<1> QED BY StepKinds, <1>1, <1>2, <1>3, <1>4, <1>5, <1>6, <1>7, <1>8, <1>9, <1>10, <1>11,
           <1>12, <1>13, <1>14, <1>15, <1>16, <1>17, <1>18, <1>19, <1>20, <1>21, <1>22, <1>23,
           <1>24, <1>25, <1>26, <1>27, <1>28, <1>29, <1>30, <1>31, <1>32, <1>33, <1>34, <1>35

\* The heartbeat has a reason to end.
LEMMA WatchStep ==
  ASSUME TypeOK, PlaceInv, OutcomeInv, HeartbeatWatches, [Next]_vars
  PROVE  HeartbeatWatches'
<1> USE DEF HeartbeatWatches, TypeOK, TaskType, LinkType, Alive, Aborted, Uploads, Tasks
<1> USE TaskAssumption
<1>1. ASSUME NEW c \in Callers, NEW k \in Workload, Command(c, k) PROVE HeartbeatWatches'
  BY <1>1 DEF Command, Acquire
<1>2. ASSUME NEW c \in Callers, UploadFile(c) PROVE HeartbeatWatches'
  BY <1>2 DEF UploadFile
<1>3. ASSUME NEW c \in Callers, FirstPoll(c) PROVE HeartbeatWatches'
  BY <1>3 DEF FirstPoll, Acquire
<1>4. ASSUME NEW c \in Callers, NextTrip(c) PROVE HeartbeatWatches'
  <2>1. op[c] \in Uploads /\ pc[c] # "idle" /\ c # Hb
    BY <1>4 DEF NextTrip, PlaceInv
  <2>2. Alive
    BY <2>1
  <2>3. pc'[Hb] = pc[Hb] /\ Aborted' = Aborted /\ poisoned' = poisoned
    BY <2>1, <1>4 DEF NextTrip, StartTrip
  <2>4. op'[c] \in Uploads /\ pc'[c] # "idle"
    BY <1>4 DEF NextTrip, StartTrip
  <2>5. Alive'
    BY <2>4
  <2> QED BY <2>2, <2>3, <2>5
<1>5. ASSUME NEW c \in Callers, PollParked(c) PROVE HeartbeatWatches'
  BY <1>5 DEF PollParked
<1>6. ASSUME NEW t \in Tasks, GiveUp(t) PROVE HeartbeatWatches'
  BY <1>6 DEF GiveUp, Fail
<1>7. ASSUME NEW t \in Tasks, CancelTrip(t) PROVE HeartbeatWatches'
  BY <1>7 DEF CancelTrip, PlaceInv
<1>8. ASSUME NEW t \in Tasks, t = Hb => Aborted, CancelEarly(t) PROVE HeartbeatWatches'
  BY <1>8 DEF CancelEarly, Forget
<1>9. ASSUME NEW t \in Tasks, Refuse(t) PROVE HeartbeatWatches'
  BY <1>9 DEF Refuse, Usable
<1>10. ASSUME NEW t \in Tasks, Begin(t) PROVE HeartbeatWatches'
  BY <1>10 DEF Begin, StartTrip, Usable
<1>11. ASSUME NEW t \in Tasks, EncodeFrame(t) PROVE HeartbeatWatches'
  BY <1>11 DEF EncodeFrame
<1>12. ASSUME NEW t \in Tasks, Flush(t) PROVE HeartbeatWatches'
  BY <1>12 DEF Flush, WriteOut, AfterFrame
<1>13. ASSUME NEW t \in Tasks, WriteNative(t) PROVE HeartbeatWatches'
  BY <1>13 DEF WriteNative, Disarm
<1>14. ASSUME NEW t \in Tasks, ReadMore(t) PROVE HeartbeatWatches'
  BY <1>14 DEF ReadMore
<1>15. ASSUME NEW t \in Tasks, ReadDone(t) PROVE HeartbeatWatches'
  BY <1>15 DEF ReadDone, Disarm
<1>16. ASSUME NEW t \in Tasks, ReadNack(t) PROVE HeartbeatWatches'
  BY <1>16 DEF ReadNack, StartTrip, Disarm, Fail
<1>17. ASSUME NEW t \in Tasks, ReadBad(t) PROVE HeartbeatWatches'
  BY <1>17 DEF ReadBad, Fail
<1>18. ASSUME NEW t \in Tasks, Settle(t) PROVE HeartbeatWatches'
  BY <1>18 DEF Settle, DropGuard
<1>19. ASSUME NEW t \in Tasks, Unlock(t) PROVE HeartbeatWatches'
  BY <1>19 DEF Unlock, HbNext, Forget, PlaceInv, OutcomeInv
<1>20. CASE HbExit
  BY <1>20 DEF HbExit
<1>21. CASE HbPing
  BY <1>21 DEF HbPing, Acquire
<1>22. CASE HbMark
  BY <1>22 DEF HbMark
<1>23. CASE CloseStart
  BY <1>23 DEF CloseStart, Acquire, Unborrowed, PlaceInv
<1>24. CASE CloseJoin
  BY <1>24 DEF CloseJoin, Acquire
<1>25. CASE CloseFlush
  BY <1>25 DEF CloseFlush, CloseHolds, WriteOut
<1>26. CASE CloseShut
  BY <1>26 DEF CloseShut, CloseHolds
<1>27. CASE CloseBroken
  BY <1>27 DEF CloseBroken, CloseHolds
<1>28. CASE CloseDropped
  BY <1>28 DEF CloseDropped
<1>29. CASE DropDevice
  BY <1>29 DEF DropDevice, Unborrowed
<1>30. CASE DevTake
  BY <1>30 DEF DevTake
<1>31. CASE DevAnswer
  BY <1>31 DEF DevAnswer
<1>32. CASE DevMore
  BY <1>32 DEF DevMore, Say
<1>33. CASE DevEnd
  BY <1>33 DEF DevEnd, Say
<1>34. CASE DevClose
  BY <1>34 DEF DevClose
<1>35. CASE UNCHANGED vars
  BY <1>35 DEF vars
<1> QED BY StepKinds, <1>1, <1>2, <1>3, <1>4, <1>5, <1>6, <1>7, <1>8, <1>9, <1>10, <1>11,
           <1>12, <1>13, <1>14, <1>15, <1>16, <1>17, <1>18, <1>19, <1>20, <1>21, <1>22, <1>23,
           <1>24, <1>25, <1>26, <1>27, <1>28, <1>29, <1>30, <1>31, <1>32, <1>33, <1>34, <1>35

\* The holder of the mutex finds on the wire what belongs to its own request.
LEMMA WireStep ==
  ASSUME TypeOK, TypeOK', MutexInv, GuardInv, WireInv, [Next]_vars
  PROVE  WireInv'
<1>0. /\ pc \in [Tasks -> Stops] /\ op \in [Tasks -> Ops] /\ armed \in [Tasks -> BOOLEAN]
      /\ left \in [Tasks -> Nat] /\ trip \in [Tasks -> Nat]
  BY DEF TypeOK, TaskType, CountType
<1> USE <1>0, TaskAssumption, BoundAssumption
<1>1. ASSUME NEW c \in Callers, NEW k \in Workload, Command(c, k) PROVE WireInv'
  <2>1. UNCHANGED <<wbuf, toDev, toCli, answering, trips>>
    BY <1>1 DEF Command
  <2>2. \A u \in Tasks : pc'[u] \in Busy => /\ pc'[u] = pc[u] /\ op'[u] = op[u]
                                             /\ left'[u] = left[u] /\ trip'[u] = trip[u]
    BY <1>1 DEF Command, Acquire, Tasks, Busy
  <2>3. (~poisoned' /\ \A u \in Tasks : ~armed'[u]) => (~poisoned /\ \A u \in Tasks : ~armed[u])
    BY <1>1 DEF Command
  <2> QED BY <2>1, <2>2, <2>3, WireFrame
<1>2. ASSUME NEW c \in Callers, UploadFile(c) PROVE WireInv'
  <2>1. UNCHANGED <<wbuf, toDev, toCli, answering, trips>>
    BY <1>2 DEF UploadFile
  <2>2. \A u \in Tasks : pc'[u] \in Busy => /\ pc'[u] = pc[u] /\ op'[u] = op[u]
                                             /\ left'[u] = left[u] /\ trip'[u] = trip[u]
    BY <1>2 DEF UploadFile, Tasks, Busy
  <2>3. (~poisoned' /\ \A u \in Tasks : ~armed'[u]) => (~poisoned /\ \A u \in Tasks : ~armed[u])
    BY <1>2 DEF UploadFile
  <2> QED BY <2>1, <2>2, <2>3, WireFrame
<1>3. ASSUME NEW c \in Callers, FirstPoll(c) PROVE WireInv'
  <2>1. UNCHANGED <<wbuf, toDev, toCli, answering, trips>>
    BY <1>3 DEF FirstPoll
  <2>2. \A u \in Tasks : pc'[u] \in Busy => /\ pc'[u] = pc[u] /\ op'[u] = op[u]
                                             /\ left'[u] = left[u] /\ trip'[u] = trip[u]
    BY <1>3 DEF FirstPoll, Acquire, Tasks, Busy
  <2>3. (~poisoned' /\ \A u \in Tasks : ~armed'[u]) => (~poisoned /\ \A u \in Tasks : ~armed[u])
    BY <1>3 DEF FirstPoll
  <2> QED BY <2>1, <2>2, <2>3, WireFrame
<1>4. ASSUME NEW c \in Callers, NextTrip(c) PROVE WireInv'
  <2>0. c \in Tasks /\ pc[c] = "yield"
    BY <1>4 DEF NextTrip, Tasks
  <2>1. Silent /\ Silent'
    BY <2>0, <1>4 DEF NextTrip, WireInv, YieldInv, Silent, Codec
  <2>2. pc'[c] = "send" /\ left'[c] = 1 /\ trip'[c] = trips'
    BY <2>0, <1>4 DEF NextTrip, StartTrip
  <2>3. \A u \in Tasks : u # c => pc'[u] \notin Busy
    <3>1. \A u \in Tasks : u # c => pc'[u] = pc[u]
      BY <2>0, <1>4 DEF NextTrip, StartTrip
    <3> QED BY <2>0, <3>1, OneBusy DEF Busy
  <2> QED BY <2>0, <2>1, <2>2, <2>3, FreshTrip
<1>5. ASSUME NEW c \in Callers, PollParked(c) PROVE WireInv'
  <2>1. UNCHANGED <<wbuf, toDev, toCli, answering, trips>>
    BY <1>5 DEF PollParked
  <2>2. \A u \in Tasks : pc'[u] \in Busy => /\ pc'[u] = pc[u] /\ op'[u] = op[u]
                                             /\ left'[u] = left[u] /\ trip'[u] = trip[u]
    BY <1>5 DEF PollParked, Tasks, Busy
  <2>3. (~poisoned' /\ \A u \in Tasks : ~armed'[u]) => (~poisoned /\ \A u \in Tasks : ~armed[u])
    BY <1>5 DEF PollParked
  <2> QED BY <2>1, <2>2, <2>3, WireFrame
<1>6. ASSUME NEW t \in Tasks, GiveUp(t) PROVE WireInv'
  <2>1. UNCHANGED <<wbuf, toDev, toCli, answering, trips>>
    BY <1>6 DEF GiveUp
  <2>2. \A u \in Tasks : pc'[u] \in Busy => /\ pc'[u] = pc[u] /\ op'[u] = op[u]
                                             /\ left'[u] = left[u] /\ trip'[u] = trip[u]
    BY <1>6 DEF GiveUp, Fail, Busy
  <2>3. (~poisoned' /\ \A u \in Tasks : ~armed'[u]) => (~poisoned /\ \A u \in Tasks : ~armed[u])
    BY <1>6 DEF GiveUp
  <2> QED BY <2>1, <2>2, <2>3, WireFrame
<1>7. ASSUME NEW t \in Tasks, CancelTrip(t) PROVE WireInv'
  <2>1. UNCHANGED <<wbuf, toDev, toCli, answering, trips>>
    BY <1>7 DEF CancelTrip
  <2>2. \A u \in Tasks : pc'[u] \in Busy => /\ pc'[u] = pc[u] /\ op'[u] = op[u]
                                             /\ left'[u] = left[u] /\ trip'[u] = trip[u]
    BY <1>7 DEF CancelTrip, Busy
  <2>3. (~poisoned' /\ \A u \in Tasks : ~armed'[u]) => (~poisoned /\ \A u \in Tasks : ~armed[u])
    BY <1>7 DEF CancelTrip
  <2> QED BY <2>1, <2>2, <2>3, WireFrame
<1>8. ASSUME NEW t \in Tasks, t = Hb => Aborted, CancelEarly(t) PROVE WireInv'
  <2>1. UNCHANGED <<wbuf, toDev, toCli, answering, trips>>
    BY <1>8 DEF CancelEarly, Forget
  <2>2. \A u \in Tasks : pc'[u] \in Busy => /\ pc'[u] = pc[u] /\ op'[u] = op[u]
                                             /\ left'[u] = left[u] /\ trip'[u] = trip[u]
    BY <1>8 DEF CancelEarly, Forget, Busy
  <2>3. (~poisoned' /\ \A u \in Tasks : ~armed'[u]) => (~poisoned /\ \A u \in Tasks : ~armed[u])
    BY <1>8 DEF CancelEarly, Forget
  <2> QED BY <2>1, <2>2, <2>3, WireFrame
<1>9. ASSUME NEW t \in Tasks, Refuse(t) PROVE WireInv'
  <2>1. UNCHANGED <<wbuf, toDev, toCli, answering, trips>>
    BY <1>9 DEF Refuse
  <2>2. \A u \in Tasks : pc'[u] \in Busy => /\ pc'[u] = pc[u] /\ op'[u] = op[u]
                                             /\ left'[u] = left[u] /\ trip'[u] = trip[u]
    BY <1>9 DEF Refuse, Busy
  <2>3. (~poisoned' /\ \A u \in Tasks : ~armed'[u]) => (~poisoned /\ \A u \in Tasks : ~armed[u])
    BY <1>9 DEF Refuse
  <2> QED BY <2>1, <2>2, <2>3, WireFrame
<1>10. ASSUME NEW t \in Tasks, Begin(t) PROVE WireInv'
  <2>0. pc[t] = "lock" /\ holder = t /\ ~poisoned
    BY <1>10 DEF Begin, Usable
  <2>1. \A u \in Tasks : pc[u] \notin Critical /\ ~armed[u]
    BY <2>0 DEF MutexInv, GuardInv, Critical
  <2>2. Silent'
    BY <2>0, <2>1, <1>10 DEF Begin, StartTrip, WireInv, QuietWhenFree, Silent, Codec
  <2>3. PICK n \in Writes(op[t]) : StartTrip(t, op[t], n)
    BY <1>10 DEF Begin
  <2>4. n >= 1
    BY DEF Writes
  <2>5. pc'[t] = "send" /\ left'[t] >= 1 /\ trip'[t] = trips'
    BY <2>3, <2>4 DEF StartTrip
  <2>6. \A u \in Tasks : u # t => pc'[u] \notin Busy
    BY <2>1, <2>3 DEF StartTrip, Busy, Critical
  <2> QED BY <2>2, <2>5, <2>6, FreshTrip
<1>11. ASSUME NEW t \in Tasks, EncodeFrame(t) PROVE WireInv'
  BY <1>11, EncodeKeeps
<1>12. ASSUME NEW t \in Tasks, Flush(t) PROVE WireInv'
  BY <1>12, FlushKeeps
<1>13. ASSUME NEW t \in Tasks, WriteNative(t) PROVE WireInv'
  BY <1>13, NativeKeeps
<1>14. ASSUME NEW t \in Tasks, ReadMore(t) PROVE WireInv'
  <2>1. /\ pc[t] = "read" /\ toCli # <<>> /\ toCli' = Tail(toCli)
        /\ UNCHANGED <<armed, wbuf, toDev, answering, poisoned, tripVars, pc>>
    BY <1>14 DEF ReadMore
  <2> QED BY <2>1, ReadKeeps
<1>15. ASSUME NEW t \in Tasks, ReadDone(t) PROVE WireInv'
  <2>1. /\ pc[t] = "read" /\ toCli # <<>> /\ Head(toCli).kind # "more"
        /\ toCli' = Tail(toCli) /\ UNCHANGED <<wbuf, toDev, answering>>
    BY <1>15 DEF ReadDone
  <2>2. Silent'
    BY <2>1, LastReply DEF WireInv
  <2>3. \E w \in {"yield", "leave"} : pc' = [pc EXCEPT ![t] = w]
    BY <1>15 DEF ReadDone
  <2>4. \A u \in Tasks : u # t => pc[u] \notin Busy
    BY <2>1, OneBusy DEF Busy
  <2>5. \A u \in Tasks : pc'[u] \notin {"send", "flush", "read"}
    BY <2>3, <2>4 DEF Busy
  <2> QED BY <2>2, <2>5, SilentSuffices
<1>16. ASSUME NEW t \in Tasks, ReadNack(t) PROVE WireInv'
  <2>1. /\ pc[t] = "read" /\ toCli # <<>> /\ Head(toCli).kind # "more"
        /\ toCli' = Tail(toCli) /\ UNCHANGED <<wbuf, toDev, answering>>
    BY <1>16 DEF ReadNack
  <2>2. Silent'
    BY <2>1, LastReply DEF WireInv
  <2>3. \A u \in Tasks : u # t => pc[u] \notin Busy
    BY <2>1, OneBusy DEF Busy
  <2>4. CASE op[t] = "content" /\ attempt[t] < Retries
    <3>1. StartTrip(t, "content", 1)
      BY <2>4, <1>16 DEF ReadNack
    <3>2. pc'[t] = "send" /\ left'[t] = 1 /\ trip'[t] = trips'
      BY <3>1 DEF StartTrip
    <3>3. \A u \in Tasks : u # t => pc'[u] \notin Busy
      BY <2>3, <3>1 DEF StartTrip
    <3> QED BY <2>2, <3>2, <3>3, FreshTrip
  <2>5. CASE ~(op[t] = "content" /\ attempt[t] < Retries)
    <3>1. \E w \in {"parked", "leave"} : pc' = [pc EXCEPT ![t] = w]
      BY <2>5, <1>16 DEF ReadNack, Fail
    <3>2. \A u \in Tasks : pc'[u] \notin {"send", "flush", "read"}
      BY <2>3, <3>1 DEF Busy
    <3> QED BY <2>2, <3>2, SilentSuffices
  <2> QED BY <2>4, <2>5
<1>17. ASSUME NEW t \in Tasks, ReadBad(t) PROVE WireInv'
  <2>1. /\ pc[t] = "read" /\ toCli # <<>> /\ toCli' = Tail(toCli)
        /\ UNCHANGED <<armed, wbuf, toDev, answering, poisoned, tripVars>>
        /\ \E w \in {"parked", "leave"} : pc' = [pc EXCEPT ![t] = w]
    BY <1>17 DEF ReadBad, Fail
  <2> QED BY <2>1, ReadKeeps
<1>18. ASSUME NEW t \in Tasks, Settle(t) PROVE WireInv'
  <2>1. UNCHANGED <<wbuf, toDev, toCli, answering, trips>>
    BY <1>18 DEF Settle
  <2>2. \A u \in Tasks : pc'[u] \in Busy => /\ pc'[u] = pc[u] /\ op'[u] = op[u]
                                             /\ left'[u] = left[u] /\ trip'[u] = trip[u]
    BY <1>18 DEF Settle, DropGuard, Busy
  <2>3. (~poisoned' /\ \A u \in Tasks : ~armed'[u]) => (~poisoned /\ \A u \in Tasks : ~armed[u])
    BY <1>18 DEF Settle, DropGuard
  <2> QED BY <2>1, <2>2, <2>3, WireFrame
<1>19. ASSUME NEW t \in Tasks, Unlock(t) PROVE WireInv'
  <2>1. UNCHANGED <<wbuf, toDev, toCli, answering, trips>>
    BY <1>19 DEF Unlock, Forget
  <2>2. \A u \in Tasks : pc'[u] \in Busy => /\ pc'[u] = pc[u] /\ op'[u] = op[u]
                                             /\ left'[u] = left[u] /\ trip'[u] = trip[u]
    BY <1>19 DEF Unlock, Forget, HbNext, Busy
  <2>3. (~poisoned' /\ \A u \in Tasks : ~armed'[u]) => (~poisoned /\ \A u \in Tasks : ~armed[u])
    BY <1>19 DEF Unlock, Forget
  <2> QED BY <2>1, <2>2, <2>3, WireFrame
<1>20. CASE HbExit
  <2>1. UNCHANGED <<wbuf, toDev, toCli, answering, trips>>
    BY <1>20 DEF HbExit
  <2>2. \A u \in Tasks : pc'[u] \in Busy => /\ pc'[u] = pc[u] /\ op'[u] = op[u]
                                             /\ left'[u] = left[u] /\ trip'[u] = trip[u]
    BY <1>20 DEF HbExit, Busy
  <2>3. (~poisoned' /\ \A u \in Tasks : ~armed'[u]) => (~poisoned /\ \A u \in Tasks : ~armed[u])
    BY <1>20 DEF HbExit
  <2> QED BY <2>1, <2>2, <2>3, WireFrame
<1>21. CASE HbPing
  <2>1. UNCHANGED <<wbuf, toDev, toCli, answering, trips>>
    BY <1>21 DEF HbPing
  <2>2. \A u \in Tasks : pc'[u] \in Busy => /\ pc'[u] = pc[u] /\ op'[u] = op[u]
                                             /\ left'[u] = left[u] /\ trip'[u] = trip[u]
    BY <1>21 DEF HbPing, Acquire, Busy
  <2>3. (~poisoned' /\ \A u \in Tasks : ~armed'[u]) => (~poisoned /\ \A u \in Tasks : ~armed[u])
    BY <1>21 DEF HbPing
  <2> QED BY <2>1, <2>2, <2>3, WireFrame
<1>22. CASE HbMark
  <2>1. UNCHANGED <<wbuf, toDev, toCli, answering, trips>>
    BY <1>22 DEF HbMark
  <2>2. \A u \in Tasks : pc'[u] \in Busy => /\ pc'[u] = pc[u] /\ op'[u] = op[u]
                                             /\ left'[u] = left[u] /\ trip'[u] = trip[u]
    BY <1>22 DEF HbMark, Busy
  <2>3. (~poisoned' /\ \A u \in Tasks : ~armed'[u]) => (~poisoned /\ \A u \in Tasks : ~armed[u])
    BY <1>22 DEF HbMark
  <2> QED BY <2>1, <2>2, <2>3, WireFrame
<1>23. CASE CloseStart
  <2>1. UNCHANGED <<wbuf, toDev, toCli, answering, trips>>
    BY <1>23 DEF CloseStart
  <2>2. \A u \in Tasks : pc'[u] \in Busy => /\ pc'[u] = pc[u] /\ op'[u] = op[u]
                                             /\ left'[u] = left[u] /\ trip'[u] = trip[u]
    BY <1>23 DEF CloseStart, Acquire, Busy
  <2>3. (~poisoned' /\ \A u \in Tasks : ~armed'[u]) => (~poisoned /\ \A u \in Tasks : ~armed[u])
    BY <1>23 DEF CloseStart
  <2> QED BY <2>1, <2>2, <2>3, WireFrame
<1>24. CASE CloseJoin
  <2>1. UNCHANGED <<wbuf, toDev, toCli, answering, trips>>
    BY <1>24 DEF CloseJoin
  <2>2. \A u \in Tasks : pc'[u] \in Busy => /\ pc'[u] = pc[u] /\ op'[u] = op[u]
                                             /\ left'[u] = left[u] /\ trip'[u] = trip[u]
    BY <1>24 DEF CloseJoin, Acquire, Busy
  <2>3. (~poisoned' /\ \A u \in Tasks : ~armed'[u]) => (~poisoned /\ \A u \in Tasks : ~armed[u])
    BY <1>24 DEF CloseJoin
  <2> QED BY <2>1, <2>2, <2>3, WireFrame
<1>25. CASE CloseFlush
  BY <1>25, CloseKeeps
<1>26. CASE CloseShut
  <2>1. UNCHANGED <<wbuf, toDev, toCli, answering, trips>>
    BY <1>26 DEF CloseShut, CloseHolds
  <2>2. \A u \in Tasks : pc'[u] \in Busy => /\ pc'[u] = pc[u] /\ op'[u] = op[u]
                                             /\ left'[u] = left[u] /\ trip'[u] = trip[u]
    BY <1>26 DEF CloseShut, CloseHolds, Busy
  <2>3. (~poisoned' /\ \A u \in Tasks : ~armed'[u]) => (~poisoned /\ \A u \in Tasks : ~armed[u])
    BY <1>26 DEF CloseShut, CloseHolds
  <2> QED BY <2>1, <2>2, <2>3, WireFrame
<1>27. CASE CloseBroken
  <2>1. UNCHANGED <<wbuf, toDev, toCli, answering, trips>>
    BY <1>27 DEF CloseBroken
  <2>2. \A u \in Tasks : pc'[u] \in Busy => /\ pc'[u] = pc[u] /\ op'[u] = op[u]
                                             /\ left'[u] = left[u] /\ trip'[u] = trip[u]
    BY <1>27 DEF CloseBroken, Busy
  <2>3. (~poisoned' /\ \A u \in Tasks : ~armed'[u]) => (~poisoned /\ \A u \in Tasks : ~armed[u])
    BY <1>27 DEF CloseBroken
  <2> QED BY <2>1, <2>2, <2>3, WireFrame
<1>28. CASE CloseDropped
  <2>1. UNCHANGED <<wbuf, toDev, toCli, answering, trips>>
    BY <1>28 DEF CloseDropped
  <2>2. \A u \in Tasks : pc'[u] \in Busy => /\ pc'[u] = pc[u] /\ op'[u] = op[u]
                                             /\ left'[u] = left[u] /\ trip'[u] = trip[u]
    BY <1>28 DEF CloseDropped, Busy
  <2>3. (~poisoned' /\ \A u \in Tasks : ~armed'[u]) => (~poisoned /\ \A u \in Tasks : ~armed[u])
    BY <1>28 DEF CloseDropped
  <2> QED BY <2>1, <2>2, <2>3, WireFrame
<1>29. CASE DropDevice
  <2>1. UNCHANGED <<wbuf, toDev, toCli, answering, trips>>
    BY <1>29 DEF DropDevice
  <2>2. \A u \in Tasks : pc'[u] \in Busy => /\ pc'[u] = pc[u] /\ op'[u] = op[u]
                                             /\ left'[u] = left[u] /\ trip'[u] = trip[u]
    BY <1>29 DEF DropDevice, Busy
  <2>3. (~poisoned' /\ \A u \in Tasks : ~armed'[u]) => (~poisoned /\ \A u \in Tasks : ~armed[u])
    BY <1>29 DEF DropDevice
  <2> QED BY <2>1, <2>2, <2>3, WireFrame
<1>30. CASE DevTake
  BY <1>30, TakeKeeps
<1>31. CASE DevAnswer
  BY <1>31, AnswerKeeps
<1>32. CASE DevMore
  BY <1>32, MoreKeeps
<1>33. CASE DevEnd
  BY <1>33, EndKeeps
<1>34. CASE DevClose
  <2>1. UNCHANGED <<wbuf, toDev, toCli, answering, trips>>
    BY <1>34 DEF DevClose
  <2>2. \A u \in Tasks : pc'[u] \in Busy => /\ pc'[u] = pc[u] /\ op'[u] = op[u]
                                             /\ left'[u] = left[u] /\ trip'[u] = trip[u]
    BY <1>34 DEF DevClose, Busy
  <2>3. (~poisoned' /\ \A u \in Tasks : ~armed'[u]) => (~poisoned /\ \A u \in Tasks : ~armed[u])
    BY <1>34 DEF DevClose
  <2> QED BY <2>1, <2>2, <2>3, WireFrame
<1>35. CASE UNCHANGED vars
  <2>1. UNCHANGED <<wbuf, toDev, toCli, answering, trips>>
    BY <1>35 DEF vars
  <2>2. \A u \in Tasks : pc'[u] \in Busy => /\ pc'[u] = pc[u] /\ op'[u] = op[u]
                                             /\ left'[u] = left[u] /\ trip'[u] = trip[u]
    BY <1>35 DEF vars, Busy
  <2>3. (~poisoned' /\ \A u \in Tasks : ~armed'[u]) => (~poisoned /\ \A u \in Tasks : ~armed[u])
    BY <1>35 DEF vars
  <2> QED BY <2>1, <2>2, <2>3, WireFrame
<1> QED BY StepKinds, <1>1, <1>2, <1>3, <1>4, <1>5, <1>6, <1>7, <1>8, <1>9, <1>10, <1>11,
           <1>12, <1>13, <1>14, <1>15, <1>16, <1>17, <1>18, <1>19, <1>20, <1>21, <1>22, <1>23,
           <1>24, <1>25, <1>26, <1>27, <1>28, <1>29, <1>30, <1>31, <1>32, <1>33, <1>34, <1>35

-----------------------------------------------------------------------------
(* The invariant.                                                          *)

\* It holds of a connection that was just made.
LEMMA InitHolds == Init => IInv
<1> SUFFICES ASSUME Init PROVE IInv
  OBVIOUS
<1>1. TypeOK
  <2>1. LinkType
    <3>1. waiters \in Seq(Tasks)
      BY DEF Init
    <3> QED BY <3>1 DEF Init, LinkType
  <2>2. TaskType
    BY DEF Init, TaskType, Stops, Ops, Results
  <2>3. CountType
    BY DEF Init, CountType
  <2>4. WireType
    BY DEF Init, WireType
  <2> QED BY <2>1, <2>2, <2>3, <2>4 DEF TypeOK
<1>2. PlaceInv
  BY TaskAssumption, UseAssumption DEF Init, PlaceInv, Tasks
<1>3. MutexInv
  BY DEF Init, MutexInv, Critical
<1>4. GuardInv
  BY DEF Init, GuardInv
<1>5. OutcomeInv
  BY DEF Init, OutcomeInv, Tasks
<1>6. WireInv
  BY DEF Init, WireInv, YoungestInv, SendInv, FlushInv, ReadInv, YieldInv, QuietWhenFree, Silent
<1>7. HeartbeatWatches
  BY DEF Init, HeartbeatWatches, Tasks
<1> QED BY <1>1, <1>2, <1>3, <1>4, <1>5, <1>6, <1>7 DEF IInv

\* Every step preserves it.
LEMMA StepHolds == IInv /\ [Next]_vars => IInv'
<1> SUFFICES ASSUME IInv, [Next]_vars PROVE IInv'
  OBVIOUS
<1> USE DEF IInv
<1>1. TypeOK'
  <2>1. LinkType' /\ TaskType' /\ WireType'
    BY LinkStep, TaskStep, FrameStep
  <2>2. CountType'
    BY CountStep DEF WireInv
  <2> QED BY <2>1, <2>2 DEF TypeOK
<1>2. PlaceInv' /\ MutexInv' /\ GuardInv' /\ OutcomeInv' /\ HeartbeatWatches'
  BY PlaceStep, MutexStep, GuardStep, OutcomeStep, WatchStep
<1>3. WireInv'
  BY <1>1, WireStep
<1> QED BY <1>1, <1>2, <1>3

\* IInv holds in every reachable state, whatever the number of callers, the calls they
\* make, the size of the socket buffer, of requests, of replies and of uploads.
THEOREM Inductive == Spec => []IInv
<1>1. Init => IInv
  BY InitHolds
<1>2. IInv /\ [Next]_vars => IInv'
  BY StepHolds
<1> QED BY <1>1, <1>2, PTL DEF Spec

-----------------------------------------------------------------------------
(* The invariants the runs check.                                          *)

\* Every variable keeps its type; no request is written past its last frame.
THEOREM TypeCorrect == Spec => []TypeOK
<1>1. IInv => TypeOK
  BY DEF IInv
<1> QED BY <1>1, Inductive, PTL

\* A reply is read by the request it answers (DeviceInner::send_sdk, Commands::get_body
\* and upload_file accept whatever frame comes next).
THEOREM RepliesMatch == Spec => []OwnReply
<1>1. IInv => OwnReply
  <2> SUFFICES ASSUME IInv, NEW t \in Tasks, pc[t] = "read", toCli # <<>>
               PROVE  Head(toCli).id = trip[t]
    BY DEF OwnReply
  <2>1. toCli \in Seq(CliFrame)
    BY DEF IInv, TypeOK, WireType
  <2>2. Head(toCli) = toCli[1] /\ 1 \in 1..Len(toCli)
    BY <2>1, TailFacts
  <2>3. toCli[1].id = trips /\ trip[t] = trips
    BY <2>2 DEF IInv, WireInv, YoungestInv
  <2> QED BY <2>2, <2>3
<1> QED BY <1>1, Inductive, PTL

\* The next holder of the mutex begins at a message boundary: a sound connection with
\* no guard armed has nothing in flight (PoisonGuard, transport.rs).
THEOREM QuietBetweenExchanges == Spec => []QuietWhenFree
<1>1. IInv => QuietWhenFree
  BY DEF IInv, WireInv
<1> QED BY <1>1, Inductive, PTL

\* What a call returns tells whether the connection is lost.
THEOREM OutcomeIsHonest == Spec => []OutcomeTellsHealth
<1>1. IInv => OutcomeTellsHealth
  BY DEF IInv, OutcomeInv, OutcomeTellsHealth
<1> QED BY <1>1, Inductive, PTL

\* The heartbeat ends for a reason (heartbeat_loop, device.rs).
THEOREM HeartbeatHasReason == Spec => []HeartbeatWatches
<1>1. IInv => HeartbeatWatches
  BY DEF IInv
<1> QED BY <1>1, Inductive, PTL

-----------------------------------------------------------------------------
(* The action properties the runs check.                                   *)

\* The mutex leaves a task whose guard is no longer armed.
LEMMA HandoverStep ==
  ASSUME TypeOK, MutexInv, GuardInv, [Next]_vars
  PROVE  holder # None /\ holder' # holder => ~armed[holder]
<1>1. ASSUME NEW c \in Callers, NEW k \in Workload, Command(c, k) PROVE holder # None /\ holder' # holder => ~armed[holder]
  BY <1>1 DEF Command, Acquire, Tasks
<1>2. ASSUME NEW c \in Callers, UploadFile(c) PROVE holder # None /\ holder' # holder => ~armed[holder]
  BY <1>2 DEF UploadFile
<1>3. ASSUME NEW c \in Callers, FirstPoll(c) PROVE holder # None /\ holder' # holder => ~armed[holder]
  BY <1>3 DEF FirstPoll, Acquire, Tasks
<1>4. ASSUME NEW c \in Callers, NextTrip(c) PROVE holder # None /\ holder' # holder => ~armed[holder]
  BY <1>4 DEF NextTrip, StartTrip
<1>5. ASSUME NEW c \in Callers, PollParked(c) PROVE holder # None /\ holder' # holder => ~armed[holder]
  BY <1>5 DEF PollParked
<1>6. ASSUME NEW t \in Tasks, GiveUp(t) PROVE holder # None /\ holder' # holder => ~armed[holder]
  BY <1>6 DEF GiveUp, Fail
<1>7. ASSUME NEW t \in Tasks, CancelTrip(t) PROVE holder # None /\ holder' # holder => ~armed[holder]
  BY <1>7 DEF CancelTrip
<1>8. ASSUME NEW t \in Tasks, t = Hb => Aborted, CancelEarly(t) PROVE holder # None /\ holder' # holder => ~armed[holder]
  BY <1>8 DEF CancelEarly, Forget, Withdraw, GuardInv, Critical
<1>9. ASSUME NEW t \in Tasks, Refuse(t) PROVE holder # None /\ holder' # holder => ~armed[holder]
  BY <1>9 DEF Refuse, Usable
<1>10. ASSUME NEW t \in Tasks, Begin(t) PROVE holder # None /\ holder' # holder => ~armed[holder]
  BY <1>10 DEF Begin, StartTrip, Usable
<1>11. ASSUME NEW t \in Tasks, EncodeFrame(t) PROVE holder # None /\ holder' # holder => ~armed[holder]
  BY <1>11 DEF EncodeFrame
<1>12. ASSUME NEW t \in Tasks, Flush(t) PROVE holder # None /\ holder' # holder => ~armed[holder]
  BY <1>12 DEF Flush, WriteOut, AfterFrame
<1>13. ASSUME NEW t \in Tasks, WriteNative(t) PROVE holder # None /\ holder' # holder => ~armed[holder]
  BY <1>13 DEF WriteNative, Disarm
<1>14. ASSUME NEW t \in Tasks, ReadMore(t) PROVE holder # None /\ holder' # holder => ~armed[holder]
  BY <1>14 DEF ReadMore
<1>15. ASSUME NEW t \in Tasks, ReadDone(t) PROVE holder # None /\ holder' # holder => ~armed[holder]
  BY <1>15 DEF ReadDone, Disarm
<1>16. ASSUME NEW t \in Tasks, ReadNack(t) PROVE holder # None /\ holder' # holder => ~armed[holder]
  BY <1>16 DEF ReadNack, StartTrip, Disarm, Fail
<1>17. ASSUME NEW t \in Tasks, ReadBad(t) PROVE holder # None /\ holder' # holder => ~armed[holder]
  BY <1>17 DEF ReadBad, Fail
<1>18. ASSUME NEW t \in Tasks, Settle(t) PROVE holder # None /\ holder' # holder => ~armed[holder]
  BY <1>18 DEF Settle, DropGuard
<1>19. ASSUME NEW t \in Tasks, Unlock(t) PROVE holder # None /\ holder' # holder => ~armed[holder]
  BY <1>19 DEF Unlock, HbNext, Forget, GuardInv, MutexInv, Critical
<1>20. CASE HbExit
  BY <1>20 DEF HbExit
<1>21. CASE HbPing
  BY <1>21 DEF HbPing, Acquire, Tasks
<1>22. CASE HbMark
  BY <1>22 DEF HbMark
<1>23. CASE CloseStart
  BY <1>23 DEF CloseStart, Acquire, Tasks
<1>24. CASE CloseJoin
  BY <1>24 DEF CloseJoin, Acquire, Tasks
<1>25. CASE CloseFlush
  BY <1>25 DEF CloseFlush, CloseHolds, WriteOut
<1>26. CASE CloseShut
  BY <1>26 DEF CloseShut, CloseHolds
<1>27. CASE CloseBroken
  BY <1>27 DEF CloseBroken, CloseHolds
<1>28. CASE CloseDropped
  BY <1>28 DEF CloseDropped
<1>29. CASE DropDevice
  BY <1>29 DEF DropDevice
<1>30. CASE DevTake
  BY <1>30 DEF DevTake
<1>31. CASE DevAnswer
  BY <1>31 DEF DevAnswer
<1>32. CASE DevMore
  BY <1>32 DEF DevMore, Say
<1>33. CASE DevEnd
  BY <1>33 DEF DevEnd, Say
<1>34. CASE DevClose
  BY <1>34 DEF DevClose
<1>35. CASE UNCHANGED vars
  BY <1>35 DEF vars
<1> QED BY StepKinds, <1>1, <1>2, <1>3, <1>4, <1>5, <1>6, <1>7, <1>8, <1>9, <1>10, <1>11,
           <1>12, <1>13, <1>14, <1>15, <1>16, <1>17, <1>18, <1>19, <1>20, <1>21, <1>22, <1>23,
           <1>24, <1>25, <1>26, <1>27, <1>28, <1>29, <1>30, <1>31, <1>32, <1>33, <1>34, <1>35

\* What a step may do to a poisoned connection.
StaysFinal == /\ poisoned' /\ trips' = trips
              /\ Pending' = Pending \/ Pending' = Tail(Pending)
              /\ wbuf' # wbuf => holder = Closer

\* A poisoned connection stays poisoned, and only Device::close writes to it, what was
\* buffered.
LEMMA FinalStep ==
  ASSUME TypeOK, GuardInv, poisoned, [Next]_vars
  PROVE  StaysFinal
<1>0. toDev \in Seq(DevFrame) /\ wbuf \in Seq(DevFrame)
  BY DEF TypeOK, WireType
<1> USE DEF StaysFinal, Pending
<1>1. ASSUME NEW c \in Callers, NEW k \in Workload, Command(c, k) PROVE StaysFinal
  BY <1>1 DEF Command, Acquire
<1>2. ASSUME NEW c \in Callers, UploadFile(c) PROVE StaysFinal
  BY <1>2 DEF UploadFile
<1>3. ASSUME NEW c \in Callers, FirstPoll(c) PROVE StaysFinal
  BY <1>3 DEF FirstPoll, Acquire
<1>4. ASSUME NEW c \in Callers, NextTrip(c) PROVE StaysFinal
  BY <1>4 DEF NextTrip, GuardInv, Tasks
<1>5. ASSUME NEW c \in Callers, PollParked(c) PROVE StaysFinal
  BY <1>5 DEF PollParked
<1>6. ASSUME NEW t \in Tasks, GiveUp(t) PROVE StaysFinal
  BY <1>6 DEF GiveUp, Fail
<1>7. ASSUME NEW t \in Tasks, CancelTrip(t) PROVE StaysFinal
  BY <1>7 DEF CancelTrip
<1>8. ASSUME NEW t \in Tasks, t = Hb => Aborted, CancelEarly(t) PROVE StaysFinal
  BY <1>8 DEF CancelEarly, Forget
<1>9. ASSUME NEW t \in Tasks, Refuse(t) PROVE StaysFinal
  BY <1>9 DEF Refuse, Usable
<1>10. ASSUME NEW t \in Tasks, Begin(t) PROVE StaysFinal
  BY <1>10 DEF Begin, Usable
<1>11. ASSUME NEW t \in Tasks, EncodeFrame(t) PROVE StaysFinal
  BY <1>11 DEF EncodeFrame, GuardInv
<1>12. ASSUME NEW t \in Tasks, Flush(t) PROVE StaysFinal
  BY <1>12 DEF Flush, GuardInv
<1>13. ASSUME NEW t \in Tasks, WriteNative(t) PROVE StaysFinal
  BY <1>13 DEF WriteNative, GuardInv
<1>14. ASSUME NEW t \in Tasks, ReadMore(t) PROVE StaysFinal
  BY <1>14 DEF ReadMore
<1>15. ASSUME NEW t \in Tasks, ReadDone(t) PROVE StaysFinal
  BY <1>15 DEF ReadDone, Disarm
<1>16. ASSUME NEW t \in Tasks, ReadNack(t) PROVE StaysFinal
  BY <1>16 DEF ReadNack, GuardInv
<1>17. ASSUME NEW t \in Tasks, ReadBad(t) PROVE StaysFinal
  BY <1>17 DEF ReadBad, Fail
<1>18. ASSUME NEW t \in Tasks, Settle(t) PROVE StaysFinal
  <2>1. poisoned' = (poisoned \/ armed[t]) /\ UNCHANGED <<trips, toDev, wbuf>>
    BY <1>18 DEF Settle, DropGuard
  <2>2. poisoned'
    BY <2>1, Zenon
  <2> QED BY <2>1, <2>2
<1>19. ASSUME NEW t \in Tasks, Unlock(t) PROVE StaysFinal
  BY <1>19 DEF Unlock, HbNext, Forget
<1>20. CASE HbExit
  BY <1>20 DEF HbExit
<1>21. CASE HbPing
  BY <1>21 DEF HbPing, Acquire
<1>22. CASE HbMark
  BY <1>22 DEF HbMark
<1>23. CASE CloseStart
  BY <1>23 DEF CloseStart, Acquire
<1>24. CASE CloseJoin
  BY <1>24 DEF CloseJoin, Acquire
<1>25. CASE CloseFlush
  <2>1. /\ holder = Closer /\ wbuf # <<>> /\ UNCHANGED <<poisoned, trips>>
        /\ toDev' = Append(toDev, Head(wbuf)) /\ wbuf' = Tail(wbuf)
    BY <1>25 DEF CloseFlush, CloseHolds, WriteOut
  <2>2. Append(toDev, Head(wbuf)) \o Tail(wbuf) = toDev \o wbuf
    BY <1>0, <2>1, PieceMoves
  <2> QED BY <2>1, <2>2
<1>26. CASE CloseShut
  BY <1>26 DEF CloseShut, CloseHolds
<1>27. CASE CloseBroken
  BY <1>27 DEF CloseBroken, CloseHolds
<1>28. CASE CloseDropped
  BY <1>28 DEF CloseDropped
<1>29. CASE DropDevice
  BY <1>29 DEF DropDevice
<1>30. CASE DevTake
  <2>1. /\ toDev # <<>> /\ UNCHANGED <<poisoned, trips, wbuf>>
        /\ toDev' = Tail(toDev)
    BY <1>30 DEF DevTake
  <2>2. Tail(toDev) \o wbuf = Tail(toDev \o wbuf)
    BY <1>0, <2>1, PieceTaken
  <2> QED BY <2>1, <2>2
<1>31. CASE DevAnswer
  <2>1. /\ toDev # <<>> /\ UNCHANGED <<poisoned, trips, wbuf>>
        /\ toDev' = Tail(toDev)
    BY <1>31 DEF DevAnswer
  <2>2. Tail(toDev) \o wbuf = Tail(toDev \o wbuf)
    BY <1>0, <2>1, PieceTaken
  <2> QED BY <2>1, <2>2
<1>32. CASE DevMore
  BY <1>32 DEF DevMore, Say
<1>33. CASE DevEnd
  BY <1>33 DEF DevEnd, Say
<1>34. CASE DevClose
  BY <1>34 DEF DevClose
<1>35. CASE UNCHANGED vars
  BY <1>35 DEF vars
<1> QED BY StepKinds, <1>1, <1>2, <1>3, <1>4, <1>5, <1>6, <1>7, <1>8, <1>9, <1>10, <1>11,
           <1>12, <1>13, <1>14, <1>15, <1>16, <1>17, <1>18, <1>19, <1>20, <1>21, <1>22, <1>23,
           <1>24, <1>25, <1>26, <1>27, <1>28, <1>29, <1>30, <1>31, <1>32, <1>33, <1>34, <1>35

\* Only a task that gives up its exchange poisons the connection.
LEMMA AbandonStep ==
  ASSUME TypeOK, PlaceInv, MutexInv, GuardInv, OutcomeInv, ~poisoned, poisoned', [Next]_vars
  PROVE  \E u \in Tasks : armed[u] /\ holder = u /\ result[u] \in {"failed", "cancelled"}
<1>1. ASSUME NEW c \in Callers, NEW k \in Workload, Command(c, k) PROVE \E u \in Tasks : armed[u] /\ holder = u /\ result[u] \in {"failed", "cancelled"}
  BY <1>1 DEF Command, Acquire
<1>2. ASSUME NEW c \in Callers, UploadFile(c) PROVE \E u \in Tasks : armed[u] /\ holder = u /\ result[u] \in {"failed", "cancelled"}
  BY <1>2 DEF UploadFile
<1>3. ASSUME NEW c \in Callers, FirstPoll(c) PROVE \E u \in Tasks : armed[u] /\ holder = u /\ result[u] \in {"failed", "cancelled"}
  BY <1>3 DEF FirstPoll, Acquire
<1>4. ASSUME NEW c \in Callers, NextTrip(c) PROVE \E u \in Tasks : armed[u] /\ holder = u /\ result[u] \in {"failed", "cancelled"}
  BY <1>4 DEF NextTrip, StartTrip
<1>5. ASSUME NEW c \in Callers, PollParked(c) PROVE \E u \in Tasks : armed[u] /\ holder = u /\ result[u] \in {"failed", "cancelled"}
  BY <1>5 DEF PollParked
<1>6. ASSUME NEW t \in Tasks, GiveUp(t) PROVE \E u \in Tasks : armed[u] /\ holder = u /\ result[u] \in {"failed", "cancelled"}
  BY <1>6 DEF GiveUp, Fail
<1>7. ASSUME NEW t \in Tasks, CancelTrip(t) PROVE \E u \in Tasks : armed[u] /\ holder = u /\ result[u] \in {"failed", "cancelled"}
  BY <1>7 DEF CancelTrip
<1>8. ASSUME NEW t \in Tasks, t = Hb => Aborted, CancelEarly(t) PROVE \E u \in Tasks : armed[u] /\ holder = u /\ result[u] \in {"failed", "cancelled"}
  BY <1>8 DEF CancelEarly, Forget
<1>9. ASSUME NEW t \in Tasks, Refuse(t) PROVE \E u \in Tasks : armed[u] /\ holder = u /\ result[u] \in {"failed", "cancelled"}
  BY <1>9 DEF Refuse, Usable
<1>10. ASSUME NEW t \in Tasks, Begin(t) PROVE \E u \in Tasks : armed[u] /\ holder = u /\ result[u] \in {"failed", "cancelled"}
  BY <1>10 DEF Begin, StartTrip, Usable
<1>11. ASSUME NEW t \in Tasks, EncodeFrame(t) PROVE \E u \in Tasks : armed[u] /\ holder = u /\ result[u] \in {"failed", "cancelled"}
  BY <1>11 DEF EncodeFrame
<1>12. ASSUME NEW t \in Tasks, Flush(t) PROVE \E u \in Tasks : armed[u] /\ holder = u /\ result[u] \in {"failed", "cancelled"}
  BY <1>12 DEF Flush, WriteOut, AfterFrame
<1>13. ASSUME NEW t \in Tasks, WriteNative(t) PROVE \E u \in Tasks : armed[u] /\ holder = u /\ result[u] \in {"failed", "cancelled"}
  BY <1>13 DEF WriteNative, Disarm
<1>14. ASSUME NEW t \in Tasks, ReadMore(t) PROVE \E u \in Tasks : armed[u] /\ holder = u /\ result[u] \in {"failed", "cancelled"}
  BY <1>14 DEF ReadMore
<1>15. ASSUME NEW t \in Tasks, ReadDone(t) PROVE \E u \in Tasks : armed[u] /\ holder = u /\ result[u] \in {"failed", "cancelled"}
  BY <1>15 DEF ReadDone, Disarm
<1>16. ASSUME NEW t \in Tasks, ReadNack(t) PROVE \E u \in Tasks : armed[u] /\ holder = u /\ result[u] \in {"failed", "cancelled"}
  BY <1>16 DEF ReadNack, StartTrip, Disarm, Fail
<1>17. ASSUME NEW t \in Tasks, ReadBad(t) PROVE \E u \in Tasks : armed[u] /\ holder = u /\ result[u] \in {"failed", "cancelled"}
  BY <1>17 DEF ReadBad, Fail
<1>18. ASSUME NEW t \in Tasks, Settle(t) PROVE \E u \in Tasks : armed[u] /\ holder = u /\ result[u] \in {"failed", "cancelled"}
  BY <1>18 DEF Settle, DropGuard, PlaceInv, MutexInv, Critical, OutcomeInv
<1>19. ASSUME NEW t \in Tasks, Unlock(t) PROVE \E u \in Tasks : armed[u] /\ holder = u /\ result[u] \in {"failed", "cancelled"}
  BY <1>19 DEF Unlock, HbNext, Forget
<1>20. CASE HbExit
  BY <1>20 DEF HbExit
<1>21. CASE HbPing
  BY <1>21 DEF HbPing, Acquire
<1>22. CASE HbMark
  BY <1>22 DEF HbMark, OutcomeInv
<1>23. CASE CloseStart
  BY <1>23 DEF CloseStart, Acquire
<1>24. CASE CloseJoin
  BY <1>24 DEF CloseJoin, Acquire
<1>25. CASE CloseFlush
  BY <1>25 DEF CloseFlush, CloseHolds, WriteOut
<1>26. CASE CloseShut
  BY <1>26 DEF CloseShut, CloseHolds
<1>27. CASE CloseBroken
  BY <1>27 DEF CloseBroken, CloseHolds
<1>28. CASE CloseDropped
  BY <1>28 DEF CloseDropped
<1>29. CASE DropDevice
  BY <1>29 DEF DropDevice
<1>30. CASE DevTake
  BY <1>30 DEF DevTake
<1>31. CASE DevAnswer
  BY <1>31 DEF DevAnswer
<1>32. CASE DevMore
  BY <1>32 DEF DevMore, Say
<1>33. CASE DevEnd
  BY <1>33 DEF DevEnd, Say
<1>34. CASE DevClose
  BY <1>34 DEF DevClose
<1>35. CASE UNCHANGED vars
  BY <1>35 DEF vars
<1> QED BY StepKinds, <1>1, <1>2, <1>3, <1>4, <1>5, <1>6, <1>7, <1>8, <1>9, <1>10, <1>11,
           <1>12, <1>13, <1>14, <1>15, <1>16, <1>17, <1>18, <1>19, <1>20, <1>21, <1>22, <1>23,
           <1>24, <1>25, <1>26, <1>27, <1>28, <1>29, <1>30, <1>31, <1>32, <1>33, <1>34, <1>35

\* The write side is shut down between exchanges, after the heartbeat.
LEMMA CloseStep ==
  ASSUME TypeOK, PlaceInv, MutexInv, GuardInv, ~shut, shut', [Next]_vars
  PROVE  (\A u \in Tasks : ~armed[u]) /\ pc[Hb] = "exited"
<1>1. ASSUME NEW c \in Callers, NEW k \in Workload, Command(c, k) PROVE (\A u \in Tasks : ~armed[u]) /\ pc[Hb] = "exited"
  BY <1>1 DEF Command, Acquire
<1>2. ASSUME NEW c \in Callers, UploadFile(c) PROVE (\A u \in Tasks : ~armed[u]) /\ pc[Hb] = "exited"
  BY <1>2 DEF UploadFile
<1>3. ASSUME NEW c \in Callers, FirstPoll(c) PROVE (\A u \in Tasks : ~armed[u]) /\ pc[Hb] = "exited"
  BY <1>3 DEF FirstPoll, Acquire
<1>4. ASSUME NEW c \in Callers, NextTrip(c) PROVE (\A u \in Tasks : ~armed[u]) /\ pc[Hb] = "exited"
  BY <1>4 DEF NextTrip, StartTrip
<1>5. ASSUME NEW c \in Callers, PollParked(c) PROVE (\A u \in Tasks : ~armed[u]) /\ pc[Hb] = "exited"
  BY <1>5 DEF PollParked
<1>6. ASSUME NEW t \in Tasks, GiveUp(t) PROVE (\A u \in Tasks : ~armed[u]) /\ pc[Hb] = "exited"
  BY <1>6 DEF GiveUp, Fail
<1>7. ASSUME NEW t \in Tasks, CancelTrip(t) PROVE (\A u \in Tasks : ~armed[u]) /\ pc[Hb] = "exited"
  BY <1>7 DEF CancelTrip
<1>8. ASSUME NEW t \in Tasks, t = Hb => Aborted, CancelEarly(t) PROVE (\A u \in Tasks : ~armed[u]) /\ pc[Hb] = "exited"
  BY <1>8 DEF CancelEarly, Forget
<1>9. ASSUME NEW t \in Tasks, Refuse(t) PROVE (\A u \in Tasks : ~armed[u]) /\ pc[Hb] = "exited"
  BY <1>9 DEF Refuse, Usable
<1>10. ASSUME NEW t \in Tasks, Begin(t) PROVE (\A u \in Tasks : ~armed[u]) /\ pc[Hb] = "exited"
  BY <1>10 DEF Begin, StartTrip, Usable
<1>11. ASSUME NEW t \in Tasks, EncodeFrame(t) PROVE (\A u \in Tasks : ~armed[u]) /\ pc[Hb] = "exited"
  BY <1>11 DEF EncodeFrame
<1>12. ASSUME NEW t \in Tasks, Flush(t) PROVE (\A u \in Tasks : ~armed[u]) /\ pc[Hb] = "exited"
  BY <1>12 DEF Flush, WriteOut, AfterFrame
<1>13. ASSUME NEW t \in Tasks, WriteNative(t) PROVE (\A u \in Tasks : ~armed[u]) /\ pc[Hb] = "exited"
  BY <1>13 DEF WriteNative, Disarm
<1>14. ASSUME NEW t \in Tasks, ReadMore(t) PROVE (\A u \in Tasks : ~armed[u]) /\ pc[Hb] = "exited"
  BY <1>14 DEF ReadMore
<1>15. ASSUME NEW t \in Tasks, ReadDone(t) PROVE (\A u \in Tasks : ~armed[u]) /\ pc[Hb] = "exited"
  BY <1>15 DEF ReadDone, Disarm
<1>16. ASSUME NEW t \in Tasks, ReadNack(t) PROVE (\A u \in Tasks : ~armed[u]) /\ pc[Hb] = "exited"
  BY <1>16 DEF ReadNack, StartTrip, Disarm, Fail
<1>17. ASSUME NEW t \in Tasks, ReadBad(t) PROVE (\A u \in Tasks : ~armed[u]) /\ pc[Hb] = "exited"
  BY <1>17 DEF ReadBad, Fail
<1>18. ASSUME NEW t \in Tasks, Settle(t) PROVE (\A u \in Tasks : ~armed[u]) /\ pc[Hb] = "exited"
  BY <1>18 DEF Settle, DropGuard
<1>19. ASSUME NEW t \in Tasks, Unlock(t) PROVE (\A u \in Tasks : ~armed[u]) /\ pc[Hb] = "exited"
  BY <1>19 DEF Unlock, HbNext, Forget
<1>20. CASE HbExit
  BY <1>20 DEF HbExit
<1>21. CASE HbPing
  BY <1>21 DEF HbPing, Acquire
<1>22. CASE HbMark
  BY <1>22 DEF HbMark
<1>23. CASE CloseStart
  BY <1>23 DEF CloseStart, Acquire
<1>24. CASE CloseJoin
  BY <1>24 DEF CloseJoin, Acquire
<1>25. CASE CloseFlush
  BY <1>25 DEF CloseFlush, CloseHolds, WriteOut
<1>26. CASE CloseShut
  BY <1>26, TaskAssumption DEF CloseShut, CloseHolds, PlaceInv, MutexInv, GuardInv, Critical, Tasks
<1>27. CASE CloseBroken
  BY <1>27 DEF CloseBroken, CloseHolds
<1>28. CASE CloseDropped
  BY <1>28 DEF CloseDropped
<1>29. CASE DropDevice
  BY <1>29 DEF DropDevice
<1>30. CASE DevTake
  BY <1>30 DEF DevTake
<1>31. CASE DevAnswer
  BY <1>31 DEF DevAnswer
<1>32. CASE DevMore
  BY <1>32 DEF DevMore, Say
<1>33. CASE DevEnd
  BY <1>33 DEF DevEnd, Say
<1>34. CASE DevClose
  BY <1>34 DEF DevClose
<1>35. CASE UNCHANGED vars
  BY <1>35 DEF vars
<1> QED BY StepKinds, <1>1, <1>2, <1>3, <1>4, <1>5, <1>6, <1>7, <1>8, <1>9, <1>10, <1>11,
           <1>12, <1>13, <1>14, <1>15, <1>16, <1>17, <1>18, <1>19, <1>20, <1>21, <1>22, <1>23,
           <1>24, <1>25, <1>26, <1>27, <1>28, <1>29, <1>30, <1>31, <1>32, <1>33, <1>34, <1>35

\* The mutex changes hands only when the guard of its owner has been settled: the drop
\* order of DeviceInner::send_sdk, send_hd2020, send_heartbeat and upload_file.
THEOREM HandoverSettled == Spec => HandoverIsSettled
<1>1. IInv /\ [Next]_vars => [holder # None /\ holder' # holder => ~armed[holder]]_vars
  BY HandoverStep DEF IInv
<1> QED BY <1>1, Inductive, PTL DEF Spec, HandoverIsSettled

\* Poison is final: no request begins on a poisoned connection, nothing is added to what
\* an abandoned send had encoded, and only Device::close writes the rest of that out.
THEOREM PoisonFinal == Spec => PoisonIsFinal
<1>1. IInv /\ [Next]_vars => [poisoned => StaysFinal]_vars
  BY FinalStep DEF IInv
<1> QED BY <1>1, Inductive, PTL DEF Spec, PoisonIsFinal, StaysFinal

\* Only an exchange given up half-way poisons the connection.
THEOREM PoisonNeedsAbandonment == Spec => PoisonByAbandonment
<1>1. IInv /\ [Next]_vars =>
        [~poisoned /\ poisoned' =>
           \E t \in Tasks : /\ armed[t] /\ holder = t
                            /\ result[t] \in {"failed", "cancelled"}]_vars
  BY AbandonStep DEF IInv
<1> QED BY <1>1, Inductive, PTL DEF Spec, PoisonByAbandonment

\* Device::close cuts no exchange short.
THEOREM CloseIsClean == Spec => CloseCutsNothing
<1>1. IInv /\ [Next]_vars =>
        [~shut /\ shut' => (\A t \in Tasks : ~armed[t]) /\ pc[Hb] = "exited"]_vars
  BY CloseStep DEF IInv
<1> QED BY <1>1, Inductive, PTL DEF Spec, CloseCutsNothing

-----------------------------------------------------------------------------
(* No codec frame on an HD2020 connection.  An upload would put one there: *)
(* Device::upload_file is not gated on the protocol, and run               *)
(* connection_hd2020_upload shows it.  Without uploads, none.              *)

\* On an HD2020 connection that takes no uploads, a caller in a call is at a native
\* command, nothing is buffered, and only native frames travel to the device.
NativeInv == /\ \A c \in Callers : pc[c] # "idle" => op[c] = "native"
             /\ wbuf = <<>>
             /\ \A i \in 1..Len(toDev) : ~Codec(toDev[i])

\* Only native commands are begun, and only native frames written.
LEMMA NativeStep ==
  ASSUME Protocol = "hd2020", "start" \notin Workload,
         TypeOK, PlaceInv, NativeInv, [Next]_vars
  PROVE  NativeInv'
<1> USE DEF PlaceInv, NativeInv, TypeOK, TaskType, Tasks, Uploads
<1> USE TaskAssumption
<1>1. ASSUME NEW c \in Callers, NEW k \in Workload, Command(c, k) PROVE NativeInv'
  <2>1. k = "native"
    BY <1>1 DEF Command, Supported
  <2> QED BY <2>1, <1>1 DEF Command, Acquire
<1>2. ASSUME NEW c \in Callers, UploadFile(c) PROVE NativeInv'
  BY <1>2 DEF UploadFile
<1>3. ASSUME NEW c \in Callers, FirstPoll(c) PROVE NativeInv'
  BY <1>3 DEF FirstPoll, Acquire
<1>4. ASSUME NEW c \in Callers, NextTrip(c) PROVE NativeInv'
  BY <1>4 DEF NextTrip, StartTrip
<1>5. ASSUME NEW c \in Callers, PollParked(c) PROVE NativeInv'
  BY <1>5 DEF PollParked
<1>6. ASSUME NEW t \in Tasks, GiveUp(t) PROVE NativeInv'
  BY <1>6 DEF GiveUp, Fail
<1>7. ASSUME NEW t \in Tasks, CancelTrip(t) PROVE NativeInv'
  BY <1>7 DEF CancelTrip
<1>8. ASSUME NEW t \in Tasks, t = Hb => Aborted, CancelEarly(t) PROVE NativeInv'
  BY <1>8 DEF CancelEarly, Forget
<1>9. ASSUME NEW t \in Tasks, Refuse(t) PROVE NativeInv'
  BY <1>9 DEF Refuse, Usable
<1>10. ASSUME NEW t \in Tasks, Begin(t) PROVE NativeInv'
  BY <1>10 DEF Begin, StartTrip, Usable
<1>11. ASSUME NEW t \in Tasks, EncodeFrame(t) PROVE NativeInv'
  <2>1. op[t] = "native"
    BY <1>11 DEF EncodeFrame
  <2> QED BY <1>11, <2>1 DEF EncodeFrame
<1>12. ASSUME NEW t \in Tasks, Flush(t) PROVE NativeInv'
  BY <1>12 DEF Flush, WriteOut
<1>13. ASSUME NEW t \in Tasks, WriteNative(t) PROVE NativeInv'
  <2>1. op[t] = "native" /\ op' = op /\ wbuf' = wbuf /\ \A c \in Callers : c # t => pc'[c] = pc[c]
    BY <1>13 DEF WriteNative
  <2>2. toDev \in Seq(DevFrame) /\ [id |-> trip[t], kind |-> "native"] \in DevFrame
    BY DEF WireType, CountType, DevFrame
  <2>3. toDev' = Append(toDev, [id |-> trip[t], kind |-> "native"])
    BY <1>13 DEF WriteNative
  <2>4. \A i \in 1..Len(toDev') : toDev'[i].kind = "native"
    BY <2>2, <2>3, AppendFacts DEF Codec
  <2> QED BY <2>1, <2>4, <1>13 DEF WriteNative, Codec
<1>14. ASSUME NEW t \in Tasks, ReadMore(t) PROVE NativeInv'
  BY <1>14 DEF ReadMore
<1>15. ASSUME NEW t \in Tasks, ReadDone(t) PROVE NativeInv'
  BY <1>15 DEF ReadDone, Disarm
<1>16. ASSUME NEW t \in Tasks, ReadNack(t) PROVE NativeInv'
  BY <1>16 DEF ReadNack, StartTrip, Disarm, Fail
<1>17. ASSUME NEW t \in Tasks, ReadBad(t) PROVE NativeInv'
  BY <1>17 DEF ReadBad, Fail
<1>18. ASSUME NEW t \in Tasks, Settle(t) PROVE NativeInv'
  BY <1>18 DEF Settle, DropGuard
<1>19. ASSUME NEW t \in Tasks, Unlock(t) PROVE NativeInv'
  BY <1>19 DEF Unlock, HbNext, Forget
<1>20. CASE HbExit
  BY <1>20 DEF HbExit
<1>21. CASE HbPing
  BY <1>21 DEF HbPing, Acquire
<1>22. CASE HbMark
  BY <1>22 DEF HbMark
<1>23. CASE CloseStart
  BY <1>23 DEF CloseStart, Acquire, Unborrowed
<1>24. CASE CloseJoin
  BY <1>24 DEF CloseJoin, Acquire
<1>25. CASE CloseFlush
  BY <1>25 DEF CloseFlush, WriteOut
<1>26. CASE CloseShut
  BY <1>26 DEF CloseShut, CloseHolds
<1>27. CASE CloseBroken
  BY <1>27 DEF CloseBroken
<1>28. CASE CloseDropped
  BY <1>28 DEF CloseDropped
<1>29. CASE DropDevice
  BY <1>29 DEF DropDevice, Unborrowed
<1>30. CASE DevTake
  <2>1. toDev' = Tail(toDev) /\ toDev # <<>> /\ UNCHANGED <<pc, op, wbuf>>
    BY <1>30 DEF DevTake
  <2> QED BY <2>1, TailFacts DEF WireType, Codec
<1>31. CASE DevAnswer
  BY <1>31 DEF DevAnswer
<1>32. CASE DevMore
  BY <1>32 DEF DevMore, Say
<1>33. CASE DevEnd
  BY <1>33 DEF DevEnd, Say
<1>34. CASE DevClose
  BY <1>34 DEF DevClose
<1>35. CASE UNCHANGED vars
  BY <1>35 DEF vars
<1> QED BY StepKinds, <1>1, <1>2, <1>3, <1>4, <1>5, <1>6, <1>7, <1>8, <1>9, <1>10, <1>11,
           <1>12, <1>13, <1>14, <1>15, <1>16, <1>17, <1>18, <1>19, <1>20, <1>21, <1>22, <1>23,
           <1>24, <1>25, <1>26, <1>27, <1>28, <1>29, <1>30, <1>31, <1>32, <1>33, <1>34, <1>35

\* An HD2020 connection carries no codec frame after the probe, as long as nothing is
\* uploaded through it.
THEOREM NativeWithoutUploads ==
  ASSUME "start" \notin Workload
  PROVE  Spec => []NativeOnly
<1>1. CASE Protocol # "hd2020"
  <2>1. NativeOnly
    BY <1>1 DEF NativeOnly
  <2> QED BY <2>1, PTL
<1>2. CASE Protocol = "hd2020"
  <2>1. Init => NativeInv
    BY TaskAssumption DEF Init, NativeInv, Tasks
  <2>2. IInv /\ NativeInv /\ [Next]_vars => NativeInv'
    BY <1>2, NativeStep DEF IInv
  <2>3. NativeInv => NativeOnly
    BY DEF NativeInv, NativeOnly
  <2> QED BY <2>1, <2>2, <2>3, Inductive, PTL DEF Spec
<1> QED BY <1>1, <1>2

-----------------------------------------------------------------------------
(* The refinement of Session.                                              *)

\* The owner of the link is the one task whose guard is armed.
OwnerRight == /\ \A t \in Tasks : armed[t] => Owner = t
              /\ (\A t \in Tasks : ~armed[t]) => Owner = None

\* The youngest exchange is the only one in flight, and none is on a silent wire.
InFlightRight == InFlight \subseteq {trips} /\ (Silent => InFlight = {})

\* This is what Session sees of a connection.
LEMMA ViewFacts == IInv => OwnerRight /\ InFlightRight
<1> SUFFICES ASSUME IInv PROVE OwnerRight /\ InFlightRight
  OBVIOUS
<1>1. OwnerRight
  <2>1. holder \in Tasks \cup {None} /\ None \notin Tasks
    BY TaskAssumption DEF IInv, TypeOK, LinkType
  <2>2. \A t \in Tasks : armed[t] => holder = t
    BY DEF IInv, GuardInv, MutexInv
  <2> QED BY <2>1, <2>2 DEF OwnerRight, Owner
<1>2. InFlight \subseteq {trips}
  <2>1. {wbuf[i].id : i \in 1..Len(wbuf)} \subseteq {trips} /\ {answering} \ {0} \subseteq {trips}
    BY DEF IInv, WireInv, YoungestInv
  <2>2. {toCli[i].id : i \in 1..Len(toCli)} \subseteq {trips}
    BY DEF IInv, WireInv, YoungestInv
  <2>3. {toDev[i].id : i \in {j \in 1..Len(toDev) : Codec(toDev[j])}} \subseteq {trips}
    BY DEF IInv, WireInv, YoungestInv
  <2> QED BY <2>1, <2>2, <2>3 DEF InFlight
<1>3. ASSUME Silent PROVE InFlight = {}
  <2>1. Len(toCli) = 0 /\ Len(wbuf) = 0 /\ answering = 0
    BY <1>3 DEF Silent
  <2>2. 1..Len(toCli) = {} /\ 1..Len(wbuf) = {} /\ {answering} \ {0} = {}
    BY <2>1
  <2>3. {j \in 1..Len(toDev) : Codec(toDev[j])} = {}
    BY <1>3 DEF Silent
  <2> QED BY <2>2, <2>3 DEF InFlight
<1> QED BY <1>1, <1>2, <1>3 DEF InFlightRight

\* And what it sees after a step.
LEMMA NextViewFacts == IInv' => OwnerRight' /\ InFlightRight'
BY ViewFacts, PTL

\* A step that leaves the guards, the flag, the count and the wire alone is a stutter.
LEMMA Unseen ==
  ASSUME IInv, IInv', UNCHANGED <<armed, poisoned, trips, wbuf, toDev, toCli, answering>>
  PROVE  UNCHANGED S!vars
<1>1. Owner' = Owner
  <2>1. CASE \E t \in Tasks : armed[t]
    BY <2>1, ViewFacts, NextViewFacts DEF OwnerRight
  <2>2. CASE \A t \in Tasks : ~armed[t]
    <3>1. Owner = None /\ \A t \in Tasks : ~armed'[t]
      BY <2>2, ViewFacts, NextViewFacts DEF OwnerRight
    <3>2. Owner' = None
      BY <3>1, ViewFacts, NextViewFacts DEF OwnerRight
    <3> QED BY <3>1, <3>2
  <2> QED BY <2>1, <2>2
<1>2. InFlight' = InFlight
  BY DEF InFlight, Codec
<1> QED BY <1>1, <1>2 DEF S!vars

\* Frames of the current exchange are written, taken in, answered or read.
LEMMA Flowing ==
  ASSUME IInv, IInv', NEW t \in Tasks, armed[t], armed'[t], UNCHANGED <<poisoned, trips>>
  PROVE  S!Flow
<1>1. Owner = t /\ Owner' = t /\ t # None
  BY ViewFacts, NextViewFacts, TaskAssumption DEF OwnerRight
<1>2. InFlight' \subseteq {trips}
  BY ViewFacts, NextViewFacts DEF InFlightRight
<1> QED BY <1>1, <1>2 DEF S!Flow

\* The current request was answered, and its owner begins the next one.
LEMMA GoingOn ==
  ASSUME IInv, IInv', NEW t \in Tasks, armed[t], armed'[t], Silent', trips' = trips + 1,
         UNCHANGED poisoned
  PROVE  S!Again
<1>1. Owner = t /\ Owner' = t /\ t # None
  BY ViewFacts, NextViewFacts, TaskAssumption DEF OwnerRight
<1>2. InFlight \subseteq {trips} /\ InFlight' = {}
  BY ViewFacts, NextViewFacts DEF InFlightRight
<1> QED BY <1>1, <1>2 DEF S!Again

\* The exchange is complete.
LEMMA Completed ==
  ASSUME IInv, IInv', NEW t \in Tasks, armed[t], armed' = [armed EXCEPT ![t] = FALSE], Silent',
         UNCHANGED <<poisoned, trips>>
  PROVE  S!Finish
<1>0. armed \in [Tasks -> BOOLEAN]
  BY DEF IInv, TypeOK, TaskType
<1>1. Owner = t /\ t # None
  BY ViewFacts, NextViewFacts, TaskAssumption DEF OwnerRight
<1>2. \A u \in Tasks : ~armed'[u]
  BY <1>0 DEF IInv, MutexInv, GuardInv
<1>3. Owner' = None
  BY <1>2, ViewFacts, NextViewFacts DEF OwnerRight
<1>4. InFlight' = {}
  BY ViewFacts, NextViewFacts DEF InFlightRight
<1> QED BY <1>1, <1>3, <1>4 DEF S!Finish

\* Nobody reads what is left of an abandoned exchange.
LEMMA Draining ==
  ASSUME IInv, IInv', poisoned, \A t \in Tasks : ~armed[t], UNCHANGED <<armed, poisoned, trips>>,
         InFlight' \subseteq InFlight
  PROVE  S!Drain
<1>1. Owner = None /\ Owner' = None
  BY ViewFacts, NextViewFacts DEF OwnerRight
<1> QED BY <1>1 DEF S!Drain

\* A step of the device that brings in no other exchange.
LEMMA OnTheWire ==
  ASSUME IInv, IInv', UNCHANGED <<armed, poisoned, trips>>, InFlight' \subseteq InFlight
  PROVE  [S!Next]_(S!vars)
<1>1. CASE \E t \in Tasks : armed[t]
  BY <1>1, Flowing DEF S!Next
<1>2. CASE poisoned /\ \A t \in Tasks : ~armed[t]
  BY <1>2, Draining DEF S!Next
<1>3. CASE ~poisoned /\ \A t \in Tasks : ~armed[t]
  <2>1. Silent /\ Silent'
    BY <1>3 DEF IInv, WireInv, QuietWhenFree
  <2>2. InFlight = {} /\ InFlight' = {}
    BY <2>1, ViewFacts, NextViewFacts DEF InFlightRight
  <2>3. Owner = None /\ Owner' = None
    BY <1>3, ViewFacts, NextViewFacts DEF OwnerRight
  <2> QED BY <2>2, <2>3 DEF S!vars
<1> QED BY <1>1, <1>2, <1>3

\* The exchanges in flight, direction by direction.
Requests == {toDev[i].id : i \in {j \in 1..Len(toDev) : Codec(toDev[j])}}
Buffered == {wbuf[i].id : i \in 1..Len(wbuf)}
Replies  == {toCli[i].id : i \in 1..Len(toCli)}

\* What is written out was buffered, ...
LEMMA WrittenInFlight ==
  ASSUME TypeOK, WriteOut
  PROVE  InFlight' \subseteq InFlight
<1>1. Buffered' \subseteq Buffered
  BY Written DEF Buffered
<1>2. Requests' \subseteq Requests \cup Buffered
  <2>1. 1 \in 1..Len(wbuf)
    BY Written
  <2> QED BY <2>1, Written DEF Requests, Buffered, Codec
<1>3. Replies' = Replies /\ answering' = answering
  BY Written DEF Replies
<1> QED BY <1>1, <1>2, <1>3 DEF InFlight, Requests, Buffered, Replies

\* ... what is taken in was sent, ...
LEMMA LessRequested ==
  ASSUME TypeOK, toDev # <<>>, toDev' = Tail(toDev)
  PROVE  Requests' \subseteq Requests
<1>1. toDev \in Seq(DevFrame)
  BY DEF TypeOK, WireType
<1>2. \A i \in 1..Len(toDev') : toDev'[i] = toDev[i + 1] /\ i + 1 \in 1..Len(toDev)
  BY <1>1, TailFacts
<1> QED BY <1>2 DEF Requests, Codec

\* ... be it a piece that needs no answer, ...
LEMMA TakenInFlight ==
  ASSUME TypeOK, DevTake
  PROVE  InFlight' \subseteq InFlight
<1>1. Requests' \subseteq Requests
  BY LessRequested DEF DevTake
<1>2. Buffered' = Buffered /\ Replies' = Replies /\ answering' = answering
  BY DEF DevTake, Buffered, Replies
<1> QED BY <1>1, <1>2 DEF InFlight, Requests, Buffered, Replies

\* ... or the end of a request, which the device is then at, ...
LEMMA AnsweredInFlight ==
  ASSUME TypeOK, DevAnswer
  PROVE  InFlight' \subseteq InFlight
<1>1. Requests' \subseteq Requests
  BY LessRequested DEF DevAnswer
<1>2. Buffered' = Buffered /\ Replies' = Replies
  BY DEF DevAnswer, Buffered, Replies
<1>3. answering' \in Requests
  <2>1. toDev \in Seq(DevFrame) /\ toDev # <<>> /\ answering' = Head(toDev).id /\ Head(toDev).kind = "ask"
    BY DEF DevAnswer, TypeOK, WireType
  <2>2. Head(toDev) = toDev[1] /\ 1 \in 1..Len(toDev)
    BY <2>1, TailFacts
  <2> QED BY <2>1, <2>2 DEF Requests, Codec
<1> QED BY <1>1, <1>2, <1>3 DEF InFlight, Requests, Buffered, Replies

\* ... and what is said belongs to the answer.
LEMMA SaidInFlight ==
  ASSUME TypeOK, DevMore \/ DevEnd
  PROVE  InFlight' \subseteq InFlight
<1>1. /\ answering # 0 /\ answering' \in {0, answering} /\ UNCHANGED <<wbuf, toDev>>
      /\ toCli' = toCli \/ \E what \in {"more", "done", "nack", "bad"} : Say(what)
  BY DEF DevMore, DevEnd
<1>2. Requests' = Requests /\ Buffered' = Buffered
  BY <1>1 DEF Requests, Buffered, Codec
<1>3. Replies' \subseteq Replies \cup {answering}
  <2>1. CASE toCli' = toCli
    BY <2>1 DEF Replies
  <2>2. ASSUME NEW what \in {"more", "done", "nack", "bad"}, Say(what)
        PROVE  Replies' \subseteq Replies \cup {answering}
    BY <2>2, Said DEF Replies
  <2> QED BY <1>1, <2>1, <2>2
<1> QED BY <1>1, <1>2, <1>3 DEF InFlight, Requests, Buffered, Replies

\* Every step of Connection is a step of Session or leaves it unchanged.
LEMMA SessionStep ==
  ASSUME IInv, IInv', [Next]_vars
  PROVE  [S!Next]_(S!vars)
<1>1. ASSUME NEW c \in Callers, NEW k \in Workload, Command(c, k) PROVE [S!Next]_(S!vars)
  BY <1>1, Unseen DEF Command
<1>2. ASSUME NEW c \in Callers, UploadFile(c) PROVE [S!Next]_(S!vars)
  BY <1>2, Unseen DEF UploadFile
<1>3. ASSUME NEW c \in Callers, FirstPoll(c) PROVE [S!Next]_(S!vars)
  BY <1>3, Unseen DEF FirstPoll
<1>4. ASSUME NEW c \in Callers, NextTrip(c) PROVE [S!Next]_(S!vars)
  <2>1. c \in Tasks /\ pc[c] = "yield" /\ trips' = trips + 1 /\ UNCHANGED <<armed, poisoned, wbuf, toDev, toCli, answering>>
    BY <1>4 DEF NextTrip, StartTrip, Tasks
  <2>2. armed[c] /\ Silent
    BY <2>1 DEF IInv, GuardInv, WireInv, YieldInv
  <2>3. Silent' /\ armed'[c]
    BY <2>1, <2>2 DEF Silent
  <2> QED BY <2>1, <2>2, <2>3, GoingOn DEF S!Next
<1>5. ASSUME NEW c \in Callers, PollParked(c) PROVE [S!Next]_(S!vars)
  BY <1>5, Unseen DEF PollParked
<1>6. ASSUME NEW t \in Tasks, GiveUp(t) PROVE [S!Next]_(S!vars)
  BY <1>6, Unseen DEF GiveUp
<1>7. ASSUME NEW t \in Tasks, CancelTrip(t) PROVE [S!Next]_(S!vars)
  BY <1>7, Unseen DEF CancelTrip
<1>8. ASSUME NEW t \in Tasks, t = Hb => Aborted, CancelEarly(t) PROVE [S!Next]_(S!vars)
  BY <1>8, Unseen DEF CancelEarly, Forget
<1>9. ASSUME NEW t \in Tasks, Refuse(t) PROVE [S!Next]_(S!vars)
  BY <1>9, Unseen DEF Refuse
<1>10. ASSUME NEW t \in Tasks, Begin(t) PROVE [S!Next]_(S!vars)
  <2>1. /\ pc[t] = "lock" /\ holder = t /\ ~poisoned /\ armed' = [armed EXCEPT ![t] = TRUE]
        /\ trips' = trips + 1 /\ UNCHANGED <<poisoned, wbuf, toDev, toCli, answering>>
    BY <1>10 DEF Begin, StartTrip, Usable
  <2>2. \A u \in Tasks : ~armed[u]
    BY <2>1 DEF IInv, GuardInv, MutexInv, Critical
  <2>3. Owner = None
    BY <2>2, ViewFacts, NextViewFacts DEF OwnerRight
  <2>4. armed'[t]
    BY <2>1 DEF IInv, TypeOK, TaskType
  <2>5. Owner' = t
    BY <2>4, ViewFacts, NextViewFacts DEF OwnerRight
  <2>6. InFlight = {} /\ InFlight' = InFlight
    <3>1. Silent
      BY <2>1, <2>2 DEF IInv, WireInv, QuietWhenFree
    <3>2. InFlight = {}
      BY <3>1, ViewFacts, NextViewFacts DEF InFlightRight
    <3> QED BY <2>1, <3>2 DEF InFlight, Codec
  <2>7. S!Start(t)
    BY <2>1, <2>3, <2>5, <2>6 DEF S!Start
  <2> QED BY <2>7 DEF S!Next
<1>11. ASSUME NEW t \in Tasks, EncodeFrame(t) PROVE [S!Next]_(S!vars)
  <2>1. pc[t] = "send" /\ UNCHANGED <<armed, poisoned, trips>>
    BY <1>11 DEF EncodeFrame
  <2>2. armed[t] /\ armed'[t]
    BY <2>1 DEF IInv, GuardInv
  <2> QED BY <2>1, <2>2, Flowing DEF S!Next
<1>12. ASSUME NEW t \in Tasks, Flush(t) PROVE [S!Next]_(S!vars)
  <2>1. pc[t] = "flush" /\ UNCHANGED <<armed, poisoned, trips>>
    BY <1>12 DEF Flush
  <2>2. armed[t] /\ armed'[t]
    BY <2>1 DEF IInv, GuardInv
  <2> QED BY <2>1, <2>2, Flowing DEF S!Next
<1>13. ASSUME NEW t \in Tasks, WriteNative(t) PROVE [S!Next]_(S!vars)
  <2>1. pc[t] = "send" /\ UNCHANGED <<poisoned, trips>>
    BY <1>13 DEF WriteNative
  <2>2. armed[t] /\ Silent'
    BY <2>1, <1>13, NativeSilent DEF IInv, GuardInv
  <2>3. CASE left[t] # 1
    <3>1. armed' = armed
      BY <2>3, <1>13 DEF WriteNative
    <3> QED BY <2>1, <2>2, <3>1, Flowing DEF S!Next
  <2>4. CASE left[t] = 1
    <3>1. armed' = [armed EXCEPT ![t] = FALSE]
      BY <2>4, <1>13 DEF WriteNative, Disarm
    <3> QED BY <2>1, <2>2, <3>1, Completed DEF S!Next
  <2> QED BY <2>3, <2>4
<1>14. ASSUME NEW t \in Tasks, ReadMore(t) PROVE [S!Next]_(S!vars)
  <2>1. pc[t] = "read" /\ UNCHANGED <<armed, poisoned, trips>>
    BY <1>14 DEF ReadMore
  <2>2. armed[t] /\ armed'[t]
    BY <2>1 DEF IInv, GuardInv
  <2> QED BY <2>1, <2>2, Flowing DEF S!Next
<1>15. ASSUME NEW t \in Tasks, ReadDone(t) PROVE [S!Next]_(S!vars)
  <2>1. /\ pc[t] = "read" /\ UNCHANGED <<poisoned, trips, wbuf, toDev, answering>> /\ toCli' = Tail(toCli)
        /\ toCli # <<>> /\ Head(toCli).kind # "more"
    BY <1>15 DEF ReadDone
  <2>2. armed[t] /\ Silent'
    BY <2>1, LastReply DEF IInv, WireInv, GuardInv
  <2>3. CASE op[t] \in {"start", "content"}
    <3>1. armed' = armed
      BY <2>3, <1>15 DEF ReadDone
    <3> QED BY <2>1, <2>2, <3>1, Flowing DEF S!Next
  <2>4. CASE op[t] \notin {"start", "content"}
    <3>1. armed' = [armed EXCEPT ![t] = FALSE]
      BY <2>4, <1>15 DEF ReadDone, Disarm
    <3> QED BY <2>1, <2>2, <3>1, Completed DEF S!Next
  <2> QED BY <2>3, <2>4
<1>16. ASSUME NEW t \in Tasks, ReadNack(t) PROVE [S!Next]_(S!vars)
  <2>1. /\ pc[t] = "read" /\ UNCHANGED <<poisoned, wbuf, toDev, answering>> /\ toCli' = Tail(toCli)
        /\ toCli # <<>> /\ Head(toCli).kind # "more"
    BY <1>16 DEF ReadNack
  <2>2. armed[t] /\ Silent'
    BY <2>1, LastReply DEF IInv, WireInv, GuardInv
  <2>3. CASE op[t] = "content" /\ attempt[t] < Retries
    <3>1. armed' = armed /\ trips' = trips + 1
      BY <2>3, <1>16 DEF ReadNack, StartTrip
    <3> QED BY <2>1, <2>2, <3>1, GoingOn DEF S!Next
  <2>4. CASE ~(op[t] = "content" /\ attempt[t] < Retries)
    <3>1. armed' = [armed EXCEPT ![t] = FALSE] /\ trips' = trips
      BY <2>4, <1>16 DEF ReadNack, Disarm
    <3> QED BY <2>1, <2>2, <3>1, Completed DEF S!Next
  <2> QED BY <2>3, <2>4
<1>17. ASSUME NEW t \in Tasks, ReadBad(t) PROVE [S!Next]_(S!vars)
  <2>1. pc[t] = "read" /\ UNCHANGED <<armed, poisoned, trips>>
    BY <1>17 DEF ReadBad, Fail
  <2>2. armed[t] /\ armed'[t]
    BY <2>1 DEF IInv, GuardInv
  <2> QED BY <2>1, <2>2, Flowing DEF S!Next
<1>18. ASSUME NEW t \in Tasks, Settle(t) PROVE [S!Next]_(S!vars)
  <2>1. /\ poisoned' = (poisoned \/ armed[t]) /\ armed' = [armed EXCEPT ![t] = FALSE]
        /\ UNCHANGED <<trips, wbuf, toDev, toCli, answering>>
    BY <1>18 DEF Settle, DropGuard
  <2>2. armed \in [Tasks -> BOOLEAN] /\ poisoned \in BOOLEAN
    BY DEF IInv, TypeOK, LinkType, TaskType
  <2>3. CASE armed[t]
    <3>1. Owner = t /\ t # None
      BY <2>3, ViewFacts, NextViewFacts, TaskAssumption DEF OwnerRight
    <3>2. \A u \in Tasks : ~armed'[u]
      BY <2>1, <2>2, <2>3 DEF IInv, GuardInv, MutexInv
    <3>3. Owner' = None
      BY <3>2, ViewFacts, NextViewFacts DEF OwnerRight
    <3>4. InFlight' = InFlight
      BY <2>1 DEF InFlight, Codec
    <3>5. poisoned' = TRUE
      BY <2>1, <2>3
    <3> QED BY <2>1, <3>1, <3>3, <3>4, <3>5 DEF S!Next, S!Abandon
  <2>4. CASE ~armed[t]
    <3>1. armed' = armed /\ poisoned' = poisoned
      BY <2>1, <2>2, <2>4
    <3> QED BY <2>1, <3>1, Unseen
  <2> QED BY <2>3, <2>4
<1>19. ASSUME NEW t \in Tasks, Unlock(t) PROVE [S!Next]_(S!vars)
  BY <1>19, Unseen DEF Unlock, Forget
<1>20. CASE HbExit
  BY <1>20, Unseen DEF HbExit
<1>21. CASE HbPing
  BY <1>21, Unseen DEF HbPing
<1>22. CASE HbMark
  <2>1. poisoned /\ poisoned' = TRUE /\ UNCHANGED <<armed, trips, wbuf, toDev, toCli, answering>>
    BY <1>22 DEF HbMark, IInv, OutcomeInv
  <2>2. poisoned' = poisoned
    BY <2>1 DEF IInv, TypeOK, LinkType
  <2> QED BY <2>1, <2>2, Unseen
<1>23. CASE CloseStart
  BY <1>23, Unseen DEF CloseStart
<1>24. CASE CloseJoin
  BY <1>24, Unseen DEF CloseJoin
<1>25. CASE CloseFlush
  <2>1. poisoned /\ \A t \in Tasks : ~armed[t]
    BY <1>25, CloseKeeps, ClosesAlone DEF IInv, CloseFlush
  <2>2. UNCHANGED <<armed, poisoned, trips>>
    BY <1>25 DEF CloseFlush
  <2>3. InFlight' \subseteq InFlight
    BY <1>25, WrittenInFlight DEF CloseFlush, IInv
  <2> QED BY <2>1, <2>2, <2>3, Draining DEF S!Next
<1>26. CASE CloseShut
  BY <1>26, Unseen DEF CloseShut, CloseHolds
<1>27. CASE CloseBroken
  BY <1>27, Unseen DEF CloseBroken
<1>28. CASE CloseDropped
  BY <1>28, Unseen DEF CloseDropped
<1>29. CASE DropDevice
  BY <1>29, Unseen DEF DropDevice
<1>30. CASE DevTake
  <2>1. UNCHANGED <<armed, poisoned, trips>>
    BY <1>30 DEF DevTake
  <2>2. InFlight' \subseteq InFlight
    BY <1>30, TakenInFlight DEF IInv
  <2> QED BY <2>1, <2>2, OnTheWire
<1>31. CASE DevAnswer
  <2>1. UNCHANGED <<armed, poisoned, trips>>
    BY <1>31 DEF DevAnswer
  <2>2. InFlight' \subseteq InFlight
    BY <1>31, AnsweredInFlight DEF IInv
  <2> QED BY <2>1, <2>2, OnTheWire
<1>32. CASE DevMore
  <2>1. UNCHANGED <<armed, poisoned, trips>>
    BY <1>32 DEF DevMore
  <2>2. InFlight' \subseteq InFlight
    BY <1>32, SaidInFlight DEF IInv
  <2> QED BY <2>1, <2>2, OnTheWire
<1>33. CASE DevEnd
  <2>1. UNCHANGED <<armed, poisoned, trips>>
    BY <1>33 DEF DevEnd
  <2>2. InFlight' \subseteq InFlight
    BY <1>33, SaidInFlight DEF IInv
  <2> QED BY <2>1, <2>2, OnTheWire
<1>34. CASE DevClose
  BY <1>34, Unseen DEF DevClose
<1>35. CASE UNCHANGED vars
  BY <1>35, Unseen DEF vars
<1> QED BY StepKinds, <1>1, <1>2, <1>3, <1>4, <1>5, <1>6, <1>7, <1>8, <1>9, <1>10, <1>11,
           <1>12, <1>13, <1>14, <1>15, <1>16, <1>17, <1>18, <1>19, <1>20, <1>21, <1>22, <1>23,
           <1>24, <1>25, <1>26, <1>27, <1>28, <1>29, <1>30, <1>31, <1>32, <1>33, <1>34, <1>35

\* The connection implements Session, whatever the number of callers, the sizes and the
\* behaviour of the device: exchanges take place one at a time, and a link that was not
\* given up passes from one to the next with nothing in flight.
THEOREM Refinement == Spec => ImplementsSession
<1>1. Init => S!Init
  <2> SUFFICES ASSUME Init PROVE S!Init
    OBVIOUS
  <2>1. IInv /\ Silent
    BY InitHolds DEF Init, Silent
  <2>2. Owner = None /\ InFlight = {}
    BY <2>1, ViewFacts, NextViewFacts DEF InFlightRight, Owner, Init
  <2> QED BY <2>2 DEF Init, S!Init
<1>2. IInv /\ IInv' /\ [Next]_vars => [S!Next]_(S!vars)
  BY SessionStep
<1> QED BY <1>1, <1>2, Inductive, PTL DEF Spec, ImplementsSession, S!Spec
=============================================================================
