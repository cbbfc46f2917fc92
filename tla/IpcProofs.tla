----------------------------- MODULE IpcProofs -----------------------------
(***************************************************************************)
(* Theorems about Ipc, for any number of calls, notifications and dropped  *)
(* futures, whether or not the server may die, and about the telemetry,    *)
(* for any events, limits and configurations.                              *)
(***************************************************************************)
EXTENDS Ipc, Telemetry,
        SequenceTheorems, WellFoundedInduction, TLAPS

-----------------------------------------------------------------------------
(* The inductive invariant. *)

\* What is on its way, in the order in which it is decoded.
Requests == sbuf \o up
Replies == rbuf \o down

\* The two halves of a message follow each other.
Framed(s) ==
    /\ s # <<>> => s[1].half = 1
    /\ \A k \in 1 .. Len(s) - 1 :
          IF s[k].half = 1 THEN s[k + 1].half = 2 /\ s[k + 1].id = s[k].id
          ELSE s[k + 1].half = 1

\* No two messages carry the id of one call.
Distinct(s) ==
    \A j, k \in 1 .. Len(s) :
        j < k /\ s[j].id = s[k].id /\ s[j].id # NoId
            => k = j + 1 /\ s[j].half = 1

\* Calls are made one after the other, in the order of their ids.
CallsInTurn ==
    /\ \A i \in Ids : fut[i] = "none" <=> i >= nextId
    /\ \A i, j \in Ids : fut[i] \in Open /\ fut[j] \in Open => i = j
    /\ noting => client = "ready" /\ \A i \in Ids : fut[i] \notin Open

\* The .hello call is over before the encodings change, and nothing else is
\* on its way until then.
HelloFirst ==
    /\ senc = "json_cbor" <=> served[Hello] # "none"
    /\ client = "hello" => enc = "json"
    /\ client \in {"ready", "shut"} => enc = "json_cbor"
    /\ enc = "json_cbor" => fut[Hello] = "ok"
    /\ enc = "json" =>
          /\ nextId <= 2
          /\ \A k \in DOMAIN Requests : Requests[k].id = Hello
          /\ Len(Replies) <= 2
          /\ served[Hello] = "none" \/ fut[Hello] = "ok" => Replies = <<>>

\* A request is on its way until it is served, and only the last one can be
\* half written: by the call or the notification that is writing it, until a
\* frame is cut off.
LastIs(id) ==
    /\ Requests # <<>> /\ Requests[Len(Requests)].half = 1
    /\ Requests[Len(Requests)].id = id

RequestsInv ==
    /\ server = "closed" => Requests = <<>>
    /\ Framed(Requests) /\ Distinct(Requests)
    /\ \A k \in DOMAIN Requests :
          /\ Requests[k].enc = senc
          /\ Requests[k].id # NoId =>
                /\ served[Requests[k].id] = "none"
                /\ fut[Requests[k].id] \notin {"none", "begun", "inserted"}
                /\ fut[Requests[k].id] = "half" => cut = "no"
    /\ cut = "no" /\ Requests # <<>> /\ Requests[Len(Requests)].half = 1 =>
          IF Requests[Len(Requests)].id = NoId THEN noting
          ELSE fut[Requests[Len(Requests)].id] = "half"
    /\ cut = "no" /\ server # "closed" =>
          /\ \A i \in Ids : fut[i] = "half" => LastIs(i)
          /\ noting => LastIs(NoId)

\* What is answered is what was served, to a call that was written.
RepliesInv ==
    /\ \A k \in DOMAIN Replies :
          /\ client # "gone" => Replies[k].enc = enc
          /\ Replies[k].id # NoId
          /\ Replies[k].body \in Answers
          /\ served[Replies[k].id] = Replies[k].body
    /\ \A i \in Ids :
          /\ served[i] # "none" => fut[i] \notin {"none", "begun", "inserted", "half"}
          /\ fut[i] \in Answers => served[i] = fut[i]
          /\ fut[i] # "protocol"

\* The reader decodes in the encoding of what it has read.
ReaderInv ==
    /\ client = "gone" => reader = "done"
    /\ reader = "decode" /\ rbuf # <<>> => renc = enc
    /\ reader = "closing" => server = "closed"

IpcInv ==
    /\ IpcTypeOK /\ CallsInTurn /\ HelloFirst
    /\ RequestsInv /\ RepliesInv /\ ReaderInv

-----------------------------------------------------------------------------
(* Streams: what reading, decoding and writing do to them. *)

\* A function on 1 .. 2 is a sequence of length two.
LEMMA PairIsSeq ==
    ASSUME NEW S, NEW m \in [1 .. 2 -> S]
    PROVE  m \in Seq(S) /\ Len(m) = 2
<1>1. m \in Seq(S)
  BY SeqDef
<1>2. Len(m) \in Nat /\ DOMAIN m = 1 .. Len(m) /\ DOMAIN m = 1 .. 2
  BY <1>1, LenProperties
<1> QED
  BY <1>1, <1>2

\* A message is two parts.
LEMMA MessageParts ==
    ASSUME NEW id \in Ids \cup {NoId}, NEW body \in {"request"} \cup Answers,
           NEW e \in Encodings
    PROVE  /\ IpcMessage(id, body, e) \in Seq(IpcPart)
           /\ Len(IpcMessage(id, body, e)) = 2
           /\ \A h \in 1 .. 2 : IpcMessage(id, body, e)[h]
                 = [id |-> id, enc |-> e, half |-> h, body |-> body]
<1>1. \A h \in 1 .. 2 : [id |-> id, enc |-> e, half |-> h, body |-> body] \in IpcPart
  BY DEF IpcPart
<1>2. IpcMessage(id, body, e) \in [1 .. 2 -> IpcPart]
  BY <1>1 DEF IpcMessage
<1>3. IpcMessage(id, body, e) \in Seq(IpcPart) /\ Len(IpcMessage(id, body, e)) = 2
  BY <1>2, PairIsSeq
<1> QED
  BY <1>3 DEF IpcMessage

LEMMA JoinAssociative ==
    ASSUME NEW u \in Seq(IpcPart), NEW v \in Seq(IpcPart), NEW w \in Seq(IpcPart)
    PROVE  (u \o v) \o w = u \o (v \o w)
BY ConcatAssociative

\* Bytes that are read move from the socket to the buffer in their order.
LEMMA ReadMoves ==
    ASSUME NEW a \in Seq(IpcPart), NEW b \in Seq(IpcPart), NEW n \in 1 .. Len(b)
    PROVE  /\ SubSeq(b, 1, n) \in Seq(IpcPart) /\ SubSeq(b, n + 1, Len(b)) \in Seq(IpcPart)
           /\ (a \o SubSeq(b, 1, n)) \o SubSeq(b, n + 1, Len(b)) = a \o b
<1> DEFINE x == SubSeq(b, 1, n)
           y == SubSeq(b, n + 1, Len(b))
<1>1. Len(b) \in Nat /\ \A k \in 1 .. Len(b) : b[k] \in IpcPart
  BY LenProperties, ElementOfSeq
<1>2. x \in Seq(IpcPart)
  BY <1>1, SubSeqProperties
<1>3. y \in Seq(IpcPart)
  BY <1>1, SubSeqProperties
<1>4. x \o y = b
  <2>1. SubSeq(b, 1, n) \o SubSeq(b, n + 1, Len(b)) = SubSeq(b, 1, Len(b))
    BY <1>1, ConcatAdjacentSubSeq
  <2> QED
    BY <2>1, SubSeqFull
<1> HIDE DEF x, y
<1>5. (a \o x) \o y = a \o (x \o y)
  BY <1>2, <1>3, JoinAssociative
<1> QED
  BY <1>2, <1>3, <1>4, <1>5 DEF x, y

\* What is left of a stream after a message was decoded.
LEMMA RestProperties ==
    ASSUME NEW s \in Seq(IpcPart), Len(s) >= 2
    PROVE  /\ Rest(s) \in Seq(IpcPart) /\ Len(Rest(s)) = Len(s) - 2
           /\ \A k \in 1 .. Len(s) - 2 : Rest(s)[k] = s[k + 2]
<1>1. ASSUME NEW k \in 1 .. Len(s) - 2 PROVE Rest(s)[k] = s[k + 2]
  <2>1. Len(s) \in Nat /\ k + 2 = 3 + k - 1
    BY LenProperties
  <2> QED
    BY <2>1, SMT DEF Rest
<1>2. Rest(s) \in Seq(IpcPart)
  <2>1. Len(s) \in Nat /\ \A k \in 3 .. Len(s) : s[k] \in IpcPart
    BY LenProperties, ElementOfSeq
  <2> QED
    BY <2>1, SubSeqProperties DEF Rest
<1> DEFINE n == Len(s)
           m == Len(SubSeq(s, 3, n))
<1>3. n \in Nat /\ n >= 2
  BY LenProperties
<1>4. m = IF 3 <= n THEN n - 3 + 1 ELSE 0
  BY SMT
<1> HIDE DEF n, m
<1>5. m = n - 2
  BY <1>3, <1>4
<1>6. Len(Rest(s)) = Len(s) - 2
  BY <1>5 DEF Rest, n, m
<1> QED
  BY <1>1, <1>2, <1>6

LEMMA DecodeTakesPair ==
    ASSUME NEW a \in Seq(IpcPart), NEW b \in Seq(IpcPart), Len(a) >= 2
    PROVE  Rest(a) \o b = Rest(a \o b)
<1> DEFINE c == a \o b
           r == Rest(a)
<1>1. Len(a) \in Nat /\ Len(b) \in Nat
  BY LenProperties
<1>2. /\ c \in Seq(IpcPart) /\ Len(c) = Len(a) + Len(b)
      /\ \A k \in 1 .. Len(a) + Len(b) :
            c[k] = IF k <= Len(a) THEN a[k] ELSE b[k - Len(a)]
  BY ConcatProperties
<1>3. /\ r \in Seq(IpcPart) /\ Len(r) = Len(a) - 2
      /\ \A k \in 1 .. Len(a) - 2 : r[k] = a[k + 2]
  BY RestProperties
<1> HIDE DEF c, r
<1> DEFINE l == r \o b
           q == Rest(c)
<1>4. /\ q \in Seq(IpcPart) /\ Len(q) = Len(a) + Len(b) - 2
      /\ \A k \in 1 .. Len(a) + Len(b) - 2 : q[k] = c[k + 2]
  <2>1. Len(c) >= 2
    BY <1>1, <1>2
  <2>2. /\ q \in Seq(IpcPart) /\ Len(q) = Len(c) - 2
        /\ \A k \in 1 .. Len(c) - 2 : q[k] = c[k + 2]
    BY <1>2, <2>1, RestProperties
  <2> HIDE DEF q
  <2> QED
    BY <1>1, <1>2, <2>2
<1>5. /\ l \in Seq(IpcPart) /\ Len(l) = Len(r) + Len(b)
      /\ \A k \in 1 .. Len(r) + Len(b) :
            l[k] = IF k <= Len(r) THEN r[k] ELSE b[k - Len(r)]
  BY <1>3, ConcatProperties
<1> HIDE DEF l, q
<1>6. Len(l) = Len(q)
  BY <1>1, <1>3, <1>4, <1>5
<1>7. ASSUME NEW k \in 1 .. Len(l) PROVE l[k] = q[k]
  <2>1. k \in 1 .. Len(a) + Len(b) - 2 /\ k + 2 \in 1 .. Len(a) + Len(b)
    BY <1>1, <1>3, <1>5
  <2>2. q[k] = IF k + 2 <= Len(a) THEN a[k + 2] ELSE b[(k + 2) - Len(a)]
    BY <1>2, <1>4, <2>1
  <2>3. l[k] = IF k <= Len(a) - 2 THEN r[k] ELSE b[k - (Len(a) - 2)]
    BY <1>3, <1>5
  <2>4. (k + 2) - Len(a) = k - (Len(a) - 2) /\ (k <= Len(a) - 2 <=> k + 2 <= Len(a))
    BY <1>1, <2>1
  <2>5. k <= Len(a) - 2 => r[k] = a[k + 2]
    BY <1>1, <1>3, <2>1
  <2> QED
    BY <2>2, <2>3, <2>4, <2>5
<1>8. l = q
  BY <1>4, <1>5, <1>6, <1>7, SeqEqual
<1> QED
  BY <1>8 DEF l, q, c, r

\* The first parts of a stream are those of its buffer.
LEMMA BufferFirst ==
    ASSUME NEW a \in Seq(IpcPart), NEW b \in Seq(IpcPart)
    PROVE  /\ a \o b \in Seq(IpcPart)
           /\ Len(a) \in Nat /\ Len(b) \in Nat /\ Len(a \o b) = Len(a) + Len(b)
           /\ \A k \in 1 .. Len(a) : (a \o b)[k] = a[k]
           /\ \A k \in 1 .. Len(b) : (a \o b)[Len(a) + k] = b[k]
           /\ DOMAIN a = 1 .. Len(a)
           /\ DOMAIN (a \o b) = 1 .. Len(a) + Len(b)
BY ConcatProperties, LenProperties

-----------------------------------------------------------------------------
(* The order of the parts is kept. *)

LEMMA FramedAppend ==
    ASSUME NEW s \in Seq(IpcPart), Framed(s), NEW p \in IpcPart,
           IF s # <<>> /\ s[Len(s)].half = 1
           THEN p.half = 2 /\ p.id = s[Len(s)].id
           ELSE p.half = 1
    PROVE  Framed(Append(s, p))
<1>1. Len(s) \in Nat /\ (s = <<>> <=> Len(s) = 0)
  BY EmptySeq, LenProperties
<1>2. /\ Append(s, p) # <<>> /\ Len(Append(s, p)) = Len(s) + 1
      /\ \A k \in 1 .. Len(s) : Append(s, p)[k] = s[k]
      /\ Append(s, p)[Len(s) + 1] = p
  BY AppendProperties
<1>3. Append(s, p)[1].half = 1
  BY <1>1, <1>2 DEF Framed
<1>4. ASSUME NEW k \in 1 .. Len(s)
      PROVE  IF Append(s, p)[k].half = 1
             THEN Append(s, p)[k + 1].half = 2 /\ Append(s, p)[k + 1].id = Append(s, p)[k].id
             ELSE Append(s, p)[k + 1].half = 1
  <2>1. CASE k = Len(s)
    BY <1>1, <1>2, <2>1
  <2>2. CASE k # Len(s)
    BY <1>1, <1>2, <2>2 DEF Framed
  <2> QED
    BY <2>1, <2>2
<1> QED
  BY <1>1, <1>2, <1>3, <1>4 DEF Framed

LEMMA FramedRest ==
    ASSUME NEW s \in Seq(IpcPart), Framed(s), Len(s) >= 2
    PROVE  /\ Framed(Rest(s))
           /\ s[1].half = 1 /\ s[2].half = 2 /\ s[2].id = s[1].id
<1>1. Len(s) \in Nat /\ s # <<>>
  BY EmptySeq, LenProperties
<1>2. s[1].half = 1 /\ s[2].half = 2 /\ s[2].id = s[1].id
  BY <1>1 DEF Framed
<1>3. /\ Rest(s) \in Seq(IpcPart) /\ Len(Rest(s)) = Len(s) - 2
      /\ \A k \in 1 .. Len(s) - 2 : Rest(s)[k] = s[k + 2]
  BY RestProperties
<1>4. Rest(s) # <<>> => Rest(s)[1].half = 1
  <2>1. ASSUME Rest(s) # <<>> PROVE Len(s) >= 3
    BY <1>1, <1>3, <2>1, EmptySeq
  <2>2. ASSUME Len(s) >= 3 PROVE s[3].half = 1
    BY <1>1, <1>2, <2>2 DEF Framed
  <2> QED
    BY <1>1, <1>3, <2>1, <2>2
<1>5. ASSUME NEW k \in 1 .. Len(Rest(s)) - 1
      PROVE  IF Rest(s)[k].half = 1
             THEN Rest(s)[k + 1].half = 2 /\ Rest(s)[k + 1].id = Rest(s)[k].id
             ELSE Rest(s)[k + 1].half = 1
  <2>1. k + 2 \in 1 .. Len(s) - 1 /\ (k + 1) + 2 = (k + 2) + 1
    BY <1>1, <1>3
  <2>2. Rest(s)[k] = s[k + 2] /\ Rest(s)[k + 1] = s[(k + 2) + 1]
    BY <1>1, <1>3, <2>1, SMTT(30)
  <2> QED
    BY <2>1, <2>2 DEF Framed
<1> QED
  BY <1>2, <1>4, <1>5 DEF Framed

LEMMA DistinctAppend ==
    ASSUME NEW s \in Seq(IpcPart), Distinct(s), NEW p \in IpcPart,
           p.id # NoId =>
              \A k \in 1 .. Len(s) : s[k].id = p.id => k = Len(s) /\ s[k].half = 1
    PROVE  Distinct(Append(s, p))
<1>1. /\ Len(s) \in Nat /\ Len(Append(s, p)) = Len(s) + 1
      /\ \A k \in 1 .. Len(s) : Append(s, p)[k] = s[k]
      /\ Append(s, p)[Len(s) + 1] = p
  BY LenProperties, AppendProperties
<1>2. ASSUME NEW j \in 1 .. Len(s) + 1, NEW k \in 1 .. Len(s) + 1, j < k,
             Append(s, p)[j].id = Append(s, p)[k].id, Append(s, p)[j].id # NoId
      PROVE  k = j + 1 /\ Append(s, p)[j].half = 1
  <2>1. j \in 1 .. Len(s) /\ Append(s, p)[j] = s[j]
    BY <1>1, <1>2
  <2>2. CASE k = Len(s) + 1
    BY <1>1, <1>2, <2>1, <2>2
  <2>3. CASE k \in 1 .. Len(s)
    <3>1. Append(s, p)[k] = s[k]
      BY <1>1, <2>3
    <3> QED
      BY <1>2, <2>1, <2>3, <3>1 DEF Distinct
  <2> QED
    BY <1>1, <2>2, <2>3
<1> QED
  BY <1>1, <1>2 DEF Distinct

LEMMA DistinctRest ==
    ASSUME NEW s \in Seq(IpcPart), Framed(s), Distinct(s), Len(s) >= 2
    PROVE  /\ Distinct(Rest(s))
           /\ s[1].id # NoId => \A k \in 1 .. Len(Rest(s)) : Rest(s)[k].id # s[1].id
<1>1. Len(s) \in Nat /\ DOMAIN s = 1 .. Len(s)
  BY LenProperties
<1>2. /\ Rest(s) \in Seq(IpcPart) /\ Len(Rest(s)) = Len(s) - 2
      /\ \A k \in 1 .. Len(s) - 2 : Rest(s)[k] = s[k + 2]
  BY RestProperties
<1>4. ASSUME NEW j \in 1 .. Len(Rest(s)), NEW k \in 1 .. Len(Rest(s)),
             j < k, Rest(s)[j].id = Rest(s)[k].id, Rest(s)[j].id # NoId
      PROVE  k = j + 1 /\ Rest(s)[j].half = 1
  <2>1. /\ j + 2 \in 1 .. Len(s) /\ k + 2 \in 1 .. Len(s) /\ j + 2 < k + 2
        /\ j \in 1 .. Len(s) - 2 /\ k \in 1 .. Len(s) - 2
    BY <1>1, <1>2, <1>4
  <2>2. Rest(s)[j] = s[j + 2] /\ Rest(s)[k] = s[k + 2]
    BY <1>2, <2>1
  <2>3. k + 2 = (j + 2) + 1 /\ s[j + 2].half = 1
    BY <1>4, <2>1, <2>2 DEF Distinct
  <2> QED
    BY <2>1, <2>2, <2>3
<1>5. ASSUME s[1].id # NoId, NEW k \in 1 .. Len(s) - 2, s[k + 2].id = s[1].id
      PROVE  FALSE
  BY <1>1, <1>5 DEF Distinct
<1> QED
  BY <1>2, <1>4, <1>5 DEF Distinct

-----------------------------------------------------------------------------
(* The steps of the client. *)

LEMMA Streams ==
    ASSUME IpcTypeOK
    PROVE  /\ Requests \in Seq(IpcPart) /\ Len(Requests) \in Nat
           /\ DOMAIN Requests = 1 .. Len(Requests)
           /\ \A k \in 1 .. Len(Requests) : Requests[k] \in IpcPart
           /\ Replies \in Seq(IpcPart) /\ Len(Replies) \in Nat
           /\ DOMAIN Replies = 1 .. Len(Replies)
           /\ \A k \in 1 .. Len(Replies) : Replies[k] \in IpcPart
<1>1. sbuf \in Seq(IpcPart) /\ up \in Seq(IpcPart)
  BY DEF IpcTypeOK
<1>2. rbuf \in Seq(IpcPart) /\ down \in Seq(IpcPart)
  BY DEF IpcTypeOK
<1>3. Requests \in Seq(IpcPart) /\ Replies \in Seq(IpcPart)
  BY <1>1, <1>2, BufferFirst DEF Requests, Replies
<1> QED
  BY <1>3, LenProperties, ElementOfSeq

LEMMA HelloIsId == Hello \in Ids /\ NoId \notin Ids
BY IpcAssumption DEF Hello, Ids, NoId

LEMMA CallKeeps ==
    ASSUME IpcInv, Call
    PROVE  IpcInv'
<1> USE HelloIsId
<1>1. Requests' = Requests /\ Replies' = Replies
  BY DEF Call, Requests, Replies, readerVars, serverVars
<1>2. nextId \in Ids /\ fut[nextId] = "none" /\ nextId' = nextId + 1
  BY IpcAssumption DEF IpcInv, IpcTypeOK, CallsInTurn, Call, Ids
<1>3. fut' = [fut EXCEPT ![nextId] = "begun"]
  BY DEF Call, FreshId
<1>4. \A i \in Ids : fut'[i] = IF i = nextId THEN "begun" ELSE fut[i]
  BY <1>3 DEF IpcInv, IpcTypeOK
<1>5. IpcTypeOK'
  BY <1>2, <1>3, IpcAssumption
     DEF IpcInv, IpcTypeOK, Call, FreshId, Ids, Open, noteVars, readerVars, serverVars
<1>6. CallsInTurn'
  BY <1>2, <1>4 DEF IpcInv, IpcTypeOK, CallsInTurn, Call, Busy, Open, Ids, noteVars
<1>7. HelloFirst'
  BY <1>1, <1>2, <1>4 DEF IpcInv, HelloFirst, Call, Hello, readerVars, serverVars
<1>8. RequestsInv'
  BY <1>1, <1>2, <1>4, Streams DEF IpcInv, RequestsInv, LastIs, IpcPart, Call, noteVars, readerVars, serverVars
<1>9. RepliesInv'
  BY <1>1, <1>2, <1>4 DEF IpcInv, RepliesInv, Answers, Call, readerVars, serverVars
<1>10. ReaderInv'
  BY DEF IpcInv, ReaderInv, Call, readerVars, serverVars
<1> QED
  BY <1>5, <1>6, <1>7, <1>8, <1>9, <1>10 DEF IpcInv

\* The id is registered.
LEMMA InsertKeeps ==
    ASSUME IpcInv, NEW i \in Ids, Insert(i)
    PROVE  IpcInv'
<1> USE HelloIsId
<1>1. Requests' = Requests /\ Replies' = Replies
  BY DEF Insert, Requests, Replies, readerVars, serverVars
<1>2. fut' = [fut EXCEPT ![i] = "inserted"] /\ fut[i] = "begun"
  BY DEF Insert
<1>3. \A j \in Ids : fut'[j] = IF j = i THEN "inserted" ELSE fut[j]
  BY <1>2 DEF IpcInv, IpcTypeOK
<1>4. IpcTypeOK'
  <2>1. i \in 1 .. nextId - 1
    BY <1>2 DEF IpcInv, IpcTypeOK, CallsInTurn, Ids
  <2> QED
    BY <1>2, <2>1 DEF IpcInv, IpcTypeOK, Insert, Open, noteVars, readerVars, serverVars
<1>5. CallsInTurn'
  BY <1>2, <1>3 DEF IpcInv, CallsInTurn, Insert, Open, noteVars
<1>6. HelloFirst'
  BY <1>1, <1>2, <1>3 DEF IpcInv, HelloFirst, Insert, readerVars, serverVars
<1>7. RequestsInv'
  BY <1>1, <1>2, <1>3, Streams
     DEF IpcInv, RequestsInv, LastIs, IpcPart, Insert, noteVars, readerVars, serverVars
<1>8. RepliesInv'
  BY <1>1, <1>2, <1>3 DEF IpcInv, RepliesInv, Answers, Insert, readerVars, serverVars
<1>9. ReaderInv'
  BY DEF IpcInv, ReaderInv, Insert, readerVars, serverVars
<1> QED
  BY <1>4, <1>5, <1>6, <1>7, <1>8, <1>9 DEF IpcInv

\* A write to a connection the server has closed, or after a frame that was
\* cut off: nothing joins the requests.
LEMMA WriteFailsKeeps ==
    ASSUME IpcInv, NEW i \in Ids, Write(i), server = "closed" \/ cut # "no"
    PROVE  IpcInv'
<1> USE HelloIsId
<1>1. up' = up /\ cut' \in {cut, "garbled"}
  BY DEF Write, Broken, Puts
<1>2. Requests' = Requests /\ Replies' = Replies
  BY <1>1 DEF Write, Requests, Replies, readerVars, serverVars
<1>3. PICK f \in {"io", "half", "sent"} :
         /\ fut' = [fut EXCEPT ![i] = f]
         /\ f = "half" => fut[i] = "inserted"
  BY DEF Write
<1>4. fut[i] \in {"inserted", "half"} /\ fut[i] \in Open /\ fut[i] # "none"
  BY DEF Write, Open
<1>5. \A j \in Ids : fut'[j] = IF j = i THEN f ELSE fut[j]
  BY <1>3 DEF IpcInv, IpcTypeOK
<1>6. IpcTypeOK'
  <2>1. fut' \in [Ids -> {"none", "dropped"} \cup Open \cup Answers \cup Failures]
    BY <1>3 DEF IpcInv, IpcTypeOK, Failures, Open
  <2>2. UNCHANGED <<nextId, pending, enc, client, noteVars, down, readerVars, serverVars>>
    BY DEF Write
  <2> QED
    BY <1>1, <2>1, <2>2 DEF IpcInv, IpcTypeOK, noteVars, readerVars, serverVars
<1>7. CallsInTurn'
  BY <1>3, <1>4, <1>5 DEF IpcInv, CallsInTurn, Write, Open, noteVars
<1>8. HelloFirst'
  BY <1>2, <1>3, <1>4, <1>5 DEF IpcInv, HelloFirst, Write, Open, readerVars, serverVars
<1>9. RequestsInv'
  <2>1. UNCHANGED <<server, senc, served, noting>>
    BY DEF Write, serverVars, noteVars
  <2>2. server = "closed" => Requests = <<>> /\ DOMAIN Requests = {}
    BY Streams, EmptySeq DEF IpcInv, RequestsInv
  <2>3. server # "closed" => cut # "no" /\ cut' # "no"
    BY <1>1
  <2>5. ASSUME NEW k \in DOMAIN Requests, Requests[k].id # NoId
        PROVE  /\ fut'[Requests[k].id] \notin {"none", "begun", "inserted", "half"}
    <3>1. Requests[k].id \in Ids /\ server # "closed"
      BY <2>2, <2>5, Streams DEF IpcInv, IpcPart
    <3> QED
      BY <1>3, <1>5, <2>3, <2>5, <3>1 DEF IpcInv, RequestsInv
  <2> QED
    BY <1>2, <2>1, <2>2, <2>3, <2>5 DEF IpcInv, RequestsInv
<1>10. RepliesInv'
  BY <1>2, <1>3, <1>4, <1>5 DEF IpcInv, RepliesInv, Answers, Write, readerVars, serverVars
<1>11. ReaderInv'
  BY DEF IpcInv, ReaderInv, Write, readerVars, serverVars
<1> QED
  BY <1>6, <1>7, <1>8, <1>9, <1>10, <1>11 DEF IpcInv

\* The future of a call is dropped; what it has written stays written.
LEMMA DropsFuture ==
    ASSUME IpcInv, NEW i \in Ids, fut[i] \in Open,
           fut' = [fut EXCEPT ![i] = "dropped"], CutIf(fut[i] = "half"),
           UNCHANGED <<server, senc, served, up, sbuf, noting>>
    PROVE  RequestsInv'
<1>1. Requests' = Requests
  BY DEF Requests
<1>2. \A j \in Ids : fut'[j] = IF j = i THEN "dropped" ELSE fut[j]
  BY DEF IpcInv, IpcTypeOK
<1>3. /\ ~noting /\ \A j \in Ids : fut[j] = "half" => j = i
      /\ \A j \in Ids : fut'[j] # "half"
  BY <1>2 DEF IpcInv, CallsInTurn, Open
<1>4. cut' = "no" => cut = "no" /\ fut[i] # "half"
  BY DEF CutIf
<1>5. \A k \in DOMAIN Requests :
         Requests[k].id # NoId => fut'[Requests[k].id] \notin {"none", "begun", "inserted"}
  BY <1>2, Streams DEF IpcInv, RequestsInv, IpcPart
<1>6. cut' = "no" /\ Requests # <<>> => Requests[Len(Requests)].half # 1
  <2> SUFFICES ASSUME cut' = "no", Requests # <<>>, Requests[Len(Requests)].half = 1
               PROVE  FALSE
    OBVIOUS
  <2>1. Len(Requests) \in 1 .. Len(Requests)
    BY Streams, EmptySeq DEF IpcInv
  <2>2. Requests[Len(Requests)].id \in Ids \cup {NoId}
    BY <2>1, Streams DEF IpcInv, IpcPart
  <2> QED
    BY <1>3, <1>4, <2>2 DEF IpcInv, RequestsInv
<1>7. /\ server = "closed" => Requests = <<>>
      /\ Framed(Requests) /\ Distinct(Requests)
      /\ \A k \in DOMAIN Requests :
            /\ Requests[k].enc = senc
            /\ Requests[k].id # NoId => served[Requests[k].id] = "none"
  BY DEF IpcInv, RequestsInv
<1>8. \A k \in DOMAIN Requests : Requests[k].id # NoId => fut'[Requests[k].id] # "half"
  BY <1>3, Streams DEF IpcInv, IpcPart
<1> QED
  BY <1>1, <1>3, <1>5, <1>6, <1>7, <1>8 DEF RequestsInv

LEMMA CancelKeeps ==
    ASSUME IpcInv, NEW i \in Ids, Cancel(i)
    PROVE  IpcInv'
<1> USE HelloIsId
<1>1. Requests' = Requests /\ Replies' = Replies
  BY DEF Cancel, Requests, Replies, readerVars, serverVars
<1>2. fut' = [fut EXCEPT ![i] = "dropped"] /\ fut[i] \in Open /\ i # Hello
  BY DEF Cancel
<1>3. \A j \in Ids : fut'[j] = IF j = i THEN "dropped" ELSE fut[j]
  BY <1>2 DEF IpcInv, IpcTypeOK
<1>4. UNCHANGED <<nextId, pending, enc, client, notes, noting, up, down, readerVars, serverVars>>
  BY DEF Cancel
<1>5. IpcTypeOK'
  <2>1. cancelled' \in 0 .. Cancels
    BY IpcAssumption DEF IpcInv, IpcTypeOK, Cancel
  <2>2. cut' \in {"no", "cut", "garbled"}
    BY DEF IpcInv, IpcTypeOK, Cancel, CutIf
  <2> QED
    BY <1>2, <1>4, <2>1, <2>2 DEF IpcInv, IpcTypeOK, readerVars, serverVars
<1>6. CallsInTurn'
  BY <1>2, <1>3, <1>4 DEF IpcInv, CallsInTurn, Open
<1>7. HelloFirst'
  BY <1>1, <1>2, <1>3, <1>4 DEF IpcInv, HelloFirst, readerVars, serverVars
<1>8. RequestsInv'
  BY <1>2, <1>4, DropsFuture DEF Cancel, serverVars
<1>9. RepliesInv'
  BY <1>1, <1>3, <1>4 DEF IpcInv, RepliesInv, Answers, readerVars, serverVars
<1>10. ReaderInv'
  BY <1>4 DEF IpcInv, ReaderInv, readerVars, serverVars
<1> QED
  BY <1>5, <1>6, <1>7, <1>8, <1>9, <1>10 DEF IpcInv

\* The future of connect is dropped, and the client with it.
LEMMA CancelConnectKeeps ==
    ASSUME IpcInv, CancelConnect
    PROVE  IpcInv'
<1> USE HelloIsId
<1>1. Requests' = Requests /\ Replies' = Replies
  BY DEF CancelConnect, Requests, Replies, serverVars
<1>2. /\ fut' = [fut EXCEPT ![Hello] = "dropped"] /\ fut[Hello] \in Open
      /\ client' = "gone" /\ reader' = "done" /\ pending' = {}
  BY DEF CancelConnect
<1>3. \A j \in Ids : fut'[j] = IF j = Hello THEN "dropped" ELSE fut[j]
  BY <1>2 DEF IpcInv, IpcTypeOK
<1>4. UNCHANGED <<nextId, enc, notes, noting, cancelled, renc, rbuf, up, down, serverVars>>
  BY DEF CancelConnect, noteVars
<1>5. IpcTypeOK'
  <2>1. cut' \in {"no", "cut", "garbled"}
    BY DEF IpcInv, IpcTypeOK, CancelConnect, CutIf
  <2> QED
    BY <1>2, <1>4, <2>1 DEF IpcInv, IpcTypeOK, serverVars
<1>6. CallsInTurn'
  BY <1>2, <1>3, <1>4 DEF IpcInv, CallsInTurn, Open
<1>7. HelloFirst'
  BY <1>1, <1>2, <1>3, <1>4 DEF IpcInv, HelloFirst, Open, serverVars
<1>8. RequestsInv'
  BY <1>2, <1>4, DropsFuture DEF CancelConnect, serverVars
<1>9. RepliesInv'
  BY <1>1, <1>2, <1>3, <1>4 DEF IpcInv, RepliesInv, Answers, serverVars
<1>10. ReaderInv'
  BY <1>2 DEF ReaderInv
<1> QED
  BY <1>5, <1>6, <1>7, <1>8, <1>9, <1>10 DEF IpcInv

\* The future of a notification is dropped in the middle of its write.
LEMMA CancelNotifyKeeps ==
    ASSUME IpcInv, CancelNotify
    PROVE  IpcInv'
<1> USE HelloIsId
<1>1. Requests' = Requests /\ Replies' = Replies
  BY DEF CancelNotify, Requests, Replies, readerVars, serverVars
<1>2. /\ UNCHANGED <<fut, nextId, pending, enc, client, notes, up, down, readerVars, serverVars>>
      /\ noting /\ noting' = FALSE /\ cut' # "no" /\ cut' \in {cut, "cut"}
  BY DEF CancelNotify, CutIf, callVars
<1>3. IpcTypeOK'
  <2>1. cancelled' \in 0 .. Cancels
    BY IpcAssumption DEF IpcInv, IpcTypeOK, CancelNotify
  <2> QED
    BY <1>2, <2>1 DEF IpcInv, IpcTypeOK, readerVars, serverVars
<1>4. CallsInTurn' /\ ReaderInv'
  BY <1>2 DEF IpcInv, CallsInTurn, ReaderInv, readerVars, serverVars
<1>5. HelloFirst'
  BY <1>1, <1>2 DEF IpcInv, HelloFirst, readerVars, serverVars
<1>6. RequestsInv'
  <2>1. \A i \in Ids : fut[i] # "half"
    BY <1>2 DEF IpcInv, CallsInTurn, Open
  <2>2. \A k \in DOMAIN Requests : Requests[k].id # NoId => fut[Requests[k].id] # "half"
    BY <2>1, Streams DEF IpcInv, IpcPart
  <2> QED
    BY <1>1, <1>2, <2>2 DEF IpcInv, RequestsInv, serverVars
<1>7. RepliesInv'
  BY <1>1, <1>2 DEF IpcInv, RepliesInv, readerVars, serverVars
<1> QED
  BY <1>3, <1>4, <1>5, <1>6, <1>7 DEF IpcInv

LEMMA HelloReturnsKeeps ==
    ASSUME IpcInv, HelloReturns
    PROVE  IpcInv'
<1> USE HelloIsId
<1>1. Requests' = Requests /\ Replies' = Replies
  BY DEF HelloReturns, Requests, Replies, serverVars, noteVars, callVars
<1>2. client = "hello" /\ enc = "json"
  BY DEF HelloReturns, IpcInv, HelloFirst
<1>3. CASE fut[Hello] = "ok" /\ enc' = "json_cbor" /\ client' = "ready"
           /\ reader' = reader /\ pending' = pending
  <2>1. Replies = <<>> /\ served[Hello] = "ok" /\ senc = "json_cbor"
    BY <1>2, <1>3 DEF IpcInv, HelloFirst, RepliesInv, Answers
  <2>2. rbuf = <<>>
    BY <2>1, BufferFirst, EmptySeq DEF IpcInv, IpcTypeOK, Replies
  <2>3. IpcTypeOK'
    BY <1>3 DEF HelloReturns, IpcInv, IpcTypeOK, Encodings, serverVars, noteVars, callVars
  <2>4. CallsInTurn'
    BY DEF HelloReturns, IpcInv, CallsInTurn, noteVars
  <2>5. HelloFirst'
    BY <1>1, <1>3, <2>1 DEF HelloReturns, IpcInv, HelloFirst, serverVars, noteVars, callVars
  <2>6. RequestsInv'
    BY <1>1 DEF HelloReturns, IpcInv, RequestsInv, LastIs, serverVars, noteVars, callVars
  <2>7. RepliesInv'
    BY <1>1, <2>1, EmptySeq DEF HelloReturns, IpcInv, RepliesInv, serverVars, noteVars, callVars
  <2>8. ReaderInv'
    BY <1>2, <1>3, <2>2 DEF HelloReturns, IpcInv, ReaderInv, serverVars, noteVars, callVars
  <2> QED
    BY <2>3, <2>4, <2>5, <2>6, <2>7, <2>8 DEF IpcInv
<1>4. CASE client' = "gone" /\ reader' = "done" /\ pending' = {} /\ enc' = enc
  <2>3. IpcTypeOK'
    BY <1>4 DEF HelloReturns, IpcInv, IpcTypeOK, serverVars, noteVars, callVars
  <2>4. CallsInTurn'
    BY DEF HelloReturns, IpcInv, CallsInTurn, noteVars
  <2>5. HelloFirst'
    BY <1>1, <1>2, <1>4 DEF HelloReturns, IpcInv, HelloFirst, serverVars, noteVars, callVars
  <2>6. RequestsInv'
    BY <1>1 DEF HelloReturns, IpcInv, RequestsInv, LastIs, serverVars, noteVars, callVars
  <2>7. RepliesInv'
    BY <1>1, <1>4 DEF HelloReturns, IpcInv, RepliesInv, serverVars, noteVars, callVars
  <2>8. ReaderInv'
    BY <1>4 DEF HelloReturns, IpcInv, ReaderInv, noteVars
  <2> QED
    BY <2>3, <2>4, <2>5, <2>6, <2>7, <2>8 DEF IpcInv
<1> QED
  BY <1>3, <1>4 DEF HelloReturns

LEMMA CloseKeeps ==
    ASSUME IpcInv, Close
    PROVE  IpcInv'
<1>1. Requests' = Requests /\ Replies' = Replies
  BY DEF Close, Requests, Replies, readerVars, serverVars, noteVars, callVars
<1>2. IpcTypeOK' /\ CallsInTurn' /\ ReaderInv'
  BY DEF Close, Busy, IpcInv, IpcTypeOK, CallsInTurn, ReaderInv, readerVars, serverVars, noteVars, callVars
<1>3. HelloFirst'
  BY <1>1 DEF Close, IpcInv, HelloFirst, readerVars, serverVars, noteVars, callVars
<1>4. RequestsInv' /\ RepliesInv'
  BY <1>1 DEF Close, IpcInv, RequestsInv, LastIs, RepliesInv, readerVars, serverVars, noteVars, callVars
<1> QED
  BY <1>2, <1>3, <1>4 DEF IpcInv

\* The client has all it will read.
LEMMA DropKeeps ==
    ASSUME IpcInv, Drop
    PROVE  IpcInv'
<1>0. enc = "json_cbor"
  BY DEF Drop, IpcInv, HelloFirst
<1>1. Requests' = Requests /\ Replies' = rbuf \o <<>>
  BY DEF Drop, Requests, Replies, serverVars, noteVars, callVars
<1>2. Replies' = rbuf /\ Len(rbuf) \in Nat /\ DOMAIN rbuf = 1 .. Len(rbuf)
  BY <1>1, ConcatEmptySeq, LenProperties DEF IpcInv, IpcTypeOK
<1>3. \A k \in 1 .. Len(rbuf) : k \in DOMAIN Replies /\ rbuf[k] = Replies[k]
  BY <1>2, BufferFirst DEF IpcInv, IpcTypeOK, Replies
<1>4. IpcTypeOK'
  <2>1. <<>> \in Seq(IpcPart)
    BY EmptySeq
  <2> QED
    BY <2>1 DEF Drop, IpcInv, IpcTypeOK, serverVars, noteVars, callVars
<1>5. CallsInTurn' /\ ReaderInv'
  BY DEF Drop, Busy, IpcInv, CallsInTurn, ReaderInv, serverVars, noteVars, callVars
<1>6. HelloFirst'
  BY <1>0, <1>1 DEF Drop, IpcInv, HelloFirst, serverVars, noteVars, callVars
<1>7. RequestsInv'
  BY <1>1 DEF Drop, IpcInv, RequestsInv, LastIs, serverVars, noteVars, callVars
<1>8. RepliesInv'
  BY <1>2, <1>3 DEF Drop, IpcInv, RepliesInv, serverVars, noteVars, callVars
<1> QED
  BY <1>4, <1>5, <1>6, <1>7, <1>8 DEF IpcInv

\* What is written last is read last.
LEMMA JoinAppend ==
    ASSUME NEW a \in Seq(IpcPart), NEW b \in Seq(IpcPart), NEW p \in IpcPart
    PROVE  a \o Append(b, p) = Append(a \o b, p)
<1>1. <<p>> \in Seq(IpcPart)
  BY SMT
<1>2. Append(b, p) = b \o <<p>>
  BY AppendIsConcat
<1>3. a \o (b \o <<p>>) = (a \o b) \o <<p>>
  BY <1>1, JoinAssociative
<1>4. a \o b \in Seq(IpcPart)
  BY BufferFirst
<1>5. Append(a \o b, p) = (a \o b) \o <<p>>
  BY <1>4, AppendIsConcat
<1> QED
  BY <1>2, <1>3, <1>5

\* A part appended to a stream, seen part by part.
LEMMA AppendParts ==
    ASSUME NEW s \in Seq(IpcPart), NEW p \in IpcPart
    PROVE  /\ Append(s, p) \in Seq(IpcPart) /\ Append(s, p) # <<>>
           /\ Len(Append(s, p)) = Len(s) + 1
           /\ DOMAIN Append(s, p) = 1 .. Len(s) + 1
           /\ \A k \in 1 .. Len(s) : Append(s, p)[k] = s[k]
           /\ Append(s, p)[Len(s) + 1] = p
BY AppendProperties, LenProperties

\* The two parts of a request, while the server reads.
LEMMA WriteKeeps ==
    ASSUME IpcInv, NEW i \in Ids, Write(i), server # "closed", cut = "no"
    PROVE  IpcInv'
<1> USE HelloIsId
<1> DEFINE h == IF fut[i] = "inserted" THEN 1 ELSE 2
           p == [id |-> i, enc |-> enc, half |-> h, body |-> "request"]
           n == Len(Requests)
<1>0. /\ IpcTypeOK /\ CallsInTurn /\ HelloFirst /\ RequestsInv /\ RepliesInv /\ ReaderInv
      /\ fut[i] \in {"inserted", "half"} /\ fut[i] \in Open /\ i # NoId
  BY IpcAssumption DEF IpcInv, Write, Open, Ids, NoId
<1>1. /\ fut' = [fut EXCEPT ![i] = IF h = 1 THEN "half" ELSE "sent"]
      /\ up' = Append(up, IpcMessage(i, "request", enc)[h]) /\ cut' = cut
      /\ UNCHANGED <<notes, noting, cancelled>>
  BY DEF Write, Broken, Puts, noteVars
<1>2. IpcMessage(i, "request", enc)[h] = p /\ p \in IpcPart
  <2>1. enc \in Encodings
    BY <1>0 DEF IpcTypeOK
  <2> QED
    BY <2>1 DEF IpcMessage, IpcPart
<1>3. Requests' = Append(Requests, p) /\ Replies' = Replies
  <2>1. sbuf' = sbuf /\ sbuf \in Seq(IpcPart) /\ up \in Seq(IpcPart)
    BY <1>0 DEF Write, IpcTypeOK, serverVars
  <2>2. up' = Append(up, p)
    BY <1>1, <1>2
  <2> HIDE DEF p
  <2>3. sbuf \o Append(up, p) = Append(sbuf \o up, p)
    BY <1>2, <2>1, JoinAppend
  <2> QED
    BY <2>1, <2>2, <2>3 DEF Write, Requests, Replies, readerVars
<1>4. /\ Requests' # <<>> /\ Len(Requests') = n + 1
      /\ \A k \in 1 .. n : Requests'[k] = Requests[k]
      /\ Requests'[n + 1] = p /\ DOMAIN Requests' = 1 .. n + 1 /\ n \in Nat
      /\ p.id = i /\ p.enc = enc /\ p.half = h /\ p.body = "request"
  <2>1. p.id = i /\ p.enc = enc /\ p.half = h /\ p.body = "request"
    OBVIOUS
  <2> HIDE DEF p
  <2> QED
    BY <1>0, <1>2, <1>3, <2>1, AppendParts, Streams
<1> HIDE DEF p
<1>5. \A j \in Ids : fut'[j] = IF j = i THEN IF h = 1 THEN "half" ELSE "sent" ELSE fut[j]
  BY <1>0, <1>1 DEF IpcTypeOK
\* Nothing else is half written; of this call there is the first half or nothing.
<1>6. fut[i] = "half" => /\ Requests # <<>> /\ Requests[n].half = 1
                         /\ Requests[n].id = i
  BY <1>0 DEF RequestsInv, LastIs
<1>60. ~noting
  BY <1>0 DEF CallsInTurn
<1>7. fut[i] = "inserted" => Requests = <<>> \/ Requests[n].half # 1
  <2> SUFFICES ASSUME fut[i] = "inserted", Requests # <<>>, Requests[n].half = 1
               PROVE  FALSE
    OBVIOUS
  <2>1. Requests[n].id \in Ids /\ fut[Requests[n].id] = "half"
    <3>1. n \in 1 .. n
      BY <1>0, Streams, EmptySeq
    <3> QED
      BY <1>0, <1>60, <3>1, Streams DEF RequestsInv, LastIs, IpcPart
  <2> QED
    BY <1>0, <2>1 DEF CallsInTurn, Open
<1>8. \A k \in 1 .. n : Requests[k].id = i => fut[i] = "half" /\ k = n
  <2> SUFFICES ASSUME NEW k \in 1 .. n, Requests[k].id = i
               PROVE  fut[i] = "half" /\ k = n
    OBVIOUS
  <2>1. fut[i] = "half"
    BY <1>0, Streams DEF RequestsInv, LastIs
  <2>2. CASE k < n
    <3>1. n = k + 1 /\ Requests[k].half = 1
      BY <1>0, <1>4, <1>6, <2>1, <2>2 DEF RequestsInv, LastIs, Distinct
    <3>2. Framed(Requests)
      BY <1>0 DEF RequestsInv
    <3> QED
      BY <1>4, <1>6, <2>1, <3>1, <3>2 DEF Framed
  <2> QED
    BY <1>4, <2>1, <2>2
<1>9. served[i] = "none"
  BY <1>0 DEF RepliesInv
<1>10. enc = senc
  <2>1. CASE enc = "json_cbor"
    BY <1>0, <2>1 DEF HelloFirst, RepliesInv, Answers, IpcTypeOK
  <2>2. CASE enc = "json"
    <3>1. i = Hello
      BY <1>0, <2>2 DEF HelloFirst, CallsInTurn, Ids, Hello, IpcTypeOK
    <3> QED
      BY <1>0, <1>9, <2>2, <3>1 DEF HelloFirst, IpcTypeOK, Encodings
  <2> QED
    BY <1>0, <2>1, <2>2 DEF IpcTypeOK, Encodings
<1>11. IpcTypeOK'
  <2>1. up' \in Seq(IpcPart)
    <3>1. up' = Append(up, p) /\ up \in Seq(IpcPart)
      BY <1>0, <1>1, <1>2 DEF IpcTypeOK
    <3> QED
      BY <1>2, <3>1, AppendProperties
  <2>2. fut' \in [Ids -> {"none", "dropped"} \cup Open \cup Answers \cup Failures]
    BY <1>0, <1>1 DEF IpcTypeOK, Open
  <2> QED
    BY <1>0, <1>1, <2>1, <2>2 DEF IpcTypeOK, Write, readerVars, serverVars
<1>12. CallsInTurn'
  BY <1>0, <1>1, <1>5, <1>60 DEF CallsInTurn, Write, Open
<1>13. HelloFirst'
  <2>1. enc = "json" => i = Hello
    BY <1>0 DEF HelloFirst, CallsInTurn, Ids, Hello, IpcTypeOK
  <2>2. enc = "json" => \A k \in DOMAIN Requests' : Requests'[k].id = Hello
    BY <1>0, <1>4, <2>1, Streams DEF HelloFirst
  <2> QED
    BY <1>0, <1>3, <1>5, <2>2 DEF HelloFirst, Write, readerVars, serverVars
<1>14. RequestsInv'
  <2>1. Framed(Requests') /\ Distinct(Requests')
    <3>1. Requests \in Seq(IpcPart)
      BY <1>0, Streams
    <3>2. Framed(Append(Requests, p))
      BY <1>0, <1>2, <1>4, <1>6, <1>7, <3>1, FramedAppend DEF RequestsInv, LastIs
    <3>3. Distinct(Append(Requests, p))
      BY <1>0, <1>2, <1>4, <1>6, <1>8, <3>1, DistinctAppend DEF RequestsInv, LastIs
    <3> QED
      BY <1>3, <3>2, <3>3
  <2>2. ASSUME NEW k \in DOMAIN Requests'
        PROVE  /\ Requests'[k].enc = senc
               /\ Requests'[k].id # NoId =>
                     /\ served[Requests'[k].id] = "none"
                     /\ fut'[Requests'[k].id] \notin {"none", "begun", "inserted"}
    <3>1. CASE k = n + 1
      BY <1>4, <1>5, <1>9, <1>10, <3>1
    <3>2. CASE k \in 1 .. n
      BY <1>0, <1>4, <1>5, <3>2, Streams DEF RequestsInv, LastIs, IpcPart
    <3> QED
      BY <1>4, <2>2, <3>1, <3>2
  <2>3. \A j \in Ids : fut'[j] = "half" => j = i /\ h = 1
    BY <1>0, <1>5 DEF CallsInTurn, Open
  <2>4. UNCHANGED <<server, senc, served>>
    BY DEF Write, serverVars
  <2>5. Requests'[Len(Requests')].half = 1 =>
           Requests'[Len(Requests')].id = i /\ fut'[i] = "half"
    BY <1>0, <1>4, <1>5
  <2>6. \A j \in Ids : fut'[j] = "half" => LastIs(j)'
    BY <1>4, <2>3 DEF LastIs
  <2> QED
    BY <1>0, <1>1, <1>4, <1>60, <2>1, <2>2, <2>4, <2>5, <2>6 DEF RequestsInv
<1>15. RepliesInv'
  BY <1>0, <1>3, <1>5, <1>9 DEF RepliesInv, Write, Answers, readerVars, serverVars
<1>16. ReaderInv'
  BY <1>0 DEF ReaderInv, Write, readerVars, serverVars
<1> QED
  BY <1>11, <1>12, <1>13, <1>14, <1>15, <1>16 DEF IpcInv

\* A half of a notification.
LEMMA NoteKeeps ==
    ASSUME IpcInv, Notify \/ NotifyEnds
    PROVE  IpcInv'
<1> USE HelloIsId
<1> DEFINE h == IF noting THEN 2 ELSE 1
           p == [id |-> NoId, enc |-> enc, half |-> h, body |-> "request"]
           n == Len(Requests)
<1>0. /\ IpcTypeOK /\ CallsInTurn /\ HelloFirst /\ RequestsInv /\ RepliesInv /\ ReaderInv
      /\ client = "ready" /\ \A i \in Ids : fut[i] \notin Open
      /\ noting => NotifyEnds
  BY DEF IpcInv, Notify, NotifyEnds, Busy, CallsInTurn
<1>1. enc = "json_cbor" /\ senc = "json_cbor"
  BY <1>0 DEF HelloFirst, RepliesInv, Answers
<1>2. /\ UNCHANGED <<fut, nextId, pending, enc, client, cancelled, down>>
      /\ UNCHANGED <<reader, renc, rbuf, server, senc, sbuf, served>>
      /\ server = "closed" => ~noting' /\ UNCHANGED <<up, cut>>
      /\ server # "closed" /\ cut # "no" => up' = up /\ cut' = "garbled"
      /\ cut' \in {cut, "garbled"} /\ noting' \in BOOLEAN
  BY DEF Notify, NotifyEnds, Broken, Puts, callVars, readerVars, serverVars
<1>3. p \in IpcPart /\ p.id = NoId /\ p.enc = enc /\ p.half = h
  BY <1>1 DEF IpcPart, Encodings
<1>4. server # "closed" /\ cut = "no" =>
         up' = Append(up, p) /\ cut' = cut /\ noting' = (h = 1)
  <2>1. ~noting => Notify
    BY DEF NotifyEnds
  <2>2. IpcMessage(NoId, "request", enc)[h] = p
    BY DEF IpcMessage
  <2> HIDE DEF p
  <2> QED
    <3>1. CASE noting
      <4>1. NotifyEnds /\ h = 2
        BY <1>0, <3>1
      <4> QED
        <5>1. server # "closed" /\ cut = "no" =>
                 /\ up' = Append(up, IpcMessage(NoId, "request", enc)[2])
                 /\ cut' = cut /\ noting' = FALSE
          BY <4>1 DEF NotifyEnds, Broken, Puts
        <5>2. (h = 1) = FALSE
          BY <4>1
        <5> QED
          BY <2>2, <4>1, <5>1, <5>2
    <3>2. CASE ~noting
      <4>1. Notify /\ h = 1
        BY <2>1, <3>2
      <4> QED
        BY <2>2, <4>1 DEF Notify, Broken, Puts
    <3> QED
      BY <3>1, <3>2
<1> HIDE DEF p
<1>5. IpcTypeOK' /\ CallsInTurn' /\ ReaderInv'
  <2>1. up' \in Seq(IpcPart)
    <3>1. up \in Seq(IpcPart)
      BY <1>0 DEF IpcTypeOK
    <3> QED
      BY <1>2, <1>3, <1>4, <3>1, AppendProperties
  <2>2. notes' \in 0 .. MaxNotes
    BY <1>0, IpcAssumption DEF IpcTypeOK, Notify, NotifyEnds
  <2>3. cut' \in {"no", "cut", "garbled"}
    BY <1>0, <1>2 DEF IpcTypeOK
  <2>4. IpcTypeOK'
    BY <1>0, <1>2, <2>1, <2>2, <2>3 DEF IpcTypeOK
  <2> QED
    BY <1>0, <1>2, <2>4 DEF CallsInTurn, ReaderInv
<1>6. CASE server = "closed" \/ cut # "no"
  <2>1. Requests' = Requests /\ Replies' = Replies
    BY <1>2, <1>6 DEF Requests, Replies
  <2>2. HelloFirst' /\ RepliesInv'
    BY <1>0, <1>2, <2>1 DEF HelloFirst, RepliesInv
  <2>3. \A k \in DOMAIN Requests : Requests[k].id # NoId => fut[Requests[k].id] # "half"
    BY <1>0, Streams DEF IpcInv, IpcPart, Open
  <2>4. server = "closed" => Requests = <<>>
    BY <1>0 DEF RequestsInv
  <2>5. RequestsInv'
    BY <1>0, <1>2, <1>6, <2>1, <2>3, <2>4 DEF RequestsInv
  <2> QED
    BY <1>5, <2>2, <2>5 DEF IpcInv
<1>7. CASE server # "closed" /\ cut = "no"
  <2>1. n \in Nat /\ Requests \in Seq(IpcPart) /\ DOMAIN Requests = 1 .. n
    BY <1>0, Streams
  <2>2. Requests' = Append(Requests, p) /\ Replies' = Replies
    <3>1. sbuf' = sbuf /\ sbuf \in Seq(IpcPart) /\ up \in Seq(IpcPart)
      BY <1>0, <1>2 DEF IpcTypeOK
    <3>2. sbuf \o Append(up, p) = Append(sbuf \o up, p)
      BY <1>3, <3>1, JoinAppend
    <3> QED
      BY <1>2, <1>4, <1>7, <3>1, <3>2 DEF Requests, Replies
  <2>3. /\ Requests' # <<>> /\ Len(Requests') = n + 1
        /\ \A k \in 1 .. n : Requests'[k] = Requests[k]
        /\ Requests'[n + 1] = p /\ DOMAIN Requests' = 1 .. n + 1
    BY <1>3, <2>1, <2>2, AppendParts
  <2>4. IF Requests # <<>> /\ Requests[n].half = 1
        THEN p.half = 2 /\ p.id = Requests[n].id ELSE p.half = 1
    <3>1. ASSUME Requests # <<>>, Requests[n].half = 1
          PROVE  noting /\ Requests[n].id = NoId
      <4>1. n \in 1 .. n
        BY <2>1, <3>1, EmptySeq
      <4>2. Requests[n].id \in Ids \cup {NoId}
        BY <1>0, <4>1, Streams DEF IpcPart
      <4> QED
        BY <1>0, <1>7, <3>1, <4>2 DEF RequestsInv, Open
    <3>2. noting => Requests # <<>> /\ Requests[n].half = 1
      BY <1>0, <1>7 DEF RequestsInv, LastIs
    <3> QED
      BY <1>3, <3>1, <3>2
  <2>5. Framed(Requests') /\ Distinct(Requests')
    <3>1. Framed(Append(Requests, p))
      BY <1>0, <1>3, <2>1, <2>4, FramedAppend DEF RequestsInv
    <3>2. Distinct(Append(Requests, p))
      BY <1>0, <1>3, <2>1, DistinctAppend DEF RequestsInv
    <3> QED
      BY <2>2, <3>1, <3>2
  <2>6. ASSUME NEW k \in DOMAIN Requests'
        PROVE  /\ Requests'[k].enc = senc
               /\ Requests'[k].id # NoId =>
                     /\ served[Requests'[k].id] = "none"
                     /\ fut[Requests'[k].id] \notin {"none", "begun", "inserted"}
    <3>1. CASE k \in 1 .. n
      BY <1>0, <2>1, <2>3, <3>1 DEF RequestsInv
    <3>2. CASE k = n + 1
      BY <1>1, <1>3, <2>3, <3>2
    <3> QED
      BY <2>1, <2>3, <2>6, <3>1, <3>2
  <2>7. Requests'[Len(Requests')].id = NoId /\ (Requests'[Len(Requests')].half = 1 <=> noting')
    BY <1>3, <1>4, <1>7, <2>3
  <2>8. \A i \in Ids : fut[i] # "half"
    BY <1>0 DEF Open
  <2>9. noting' => LastIs(NoId)'
    BY <2>3, <2>7 DEF LastIs
  <2>10. RequestsInv'
    BY <1>0, <1>2, <1>4, <1>7, <2>5, <2>6, <2>7, <2>8, <2>9 DEF RequestsInv
  <2>11. HelloFirst' /\ RepliesInv'
    BY <1>0, <1>1, <1>2, <2>2 DEF HelloFirst, RepliesInv
  <2> QED
    BY <1>5, <2>10, <2>11 DEF IpcInv
<1> QED
  BY <1>6, <1>7

-----------------------------------------------------------------------------
(* The steps of the reader. *)

LEMMA IpcReadKeeps ==
    ASSUME IpcInv, IpcRead
    PROVE  IpcInv'
<1>0. /\ IpcTypeOK /\ CallsInTurn /\ HelloFirst /\ RequestsInv /\ RepliesInv /\ ReaderInv
      /\ reader = "run" /\ reader' = "got" /\ down \in Seq(IpcPart) /\ rbuf \in Seq(IpcPart)
  BY DEF IpcInv, IpcRead, IpcTypeOK
<1>1. PICK n \in 1 .. Len(down) : /\ rbuf' = rbuf \o SubSeq(down, 1, n)
                                  /\ down' = SubSeq(down, n + 1, Len(down))
  BY DEF IpcRead
<1>2. Replies' = Replies /\ Requests' = Requests
  BY <1>0, <1>1, ReadMoves DEF Replies, Requests, IpcRead, serverVars
<1>3. rbuf' \in Seq(IpcPart) /\ down' \in Seq(IpcPart)
  BY <1>0, <1>1, ReadMoves, BufferFirst
<1>4. IpcTypeOK' /\ CallsInTurn'
  BY <1>0, <1>3 DEF IpcTypeOK, CallsInTurn, IpcRead, clientVars, serverVars
<1>5. HelloFirst'
  BY <1>0, <1>2 DEF HelloFirst, IpcRead, clientVars, serverVars
<1>6. RequestsInv' /\ RepliesInv' /\ ReaderInv'
  BY <1>0, <1>2 DEF RequestsInv, LastIs, RepliesInv, ReaderInv, IpcRead, clientVars, serverVars
<1> QED
  BY <1>4, <1>5, <1>6 DEF IpcInv

LEMMA TakeEncodingKeeps ==
    ASSUME IpcInv, TakeEncoding
    PROVE  IpcInv'
<1>1. Replies' = Replies /\ Requests' = Requests
  BY DEF Replies, Requests, TakeEncoding, serverVars
<1>2. IpcTypeOK' /\ CallsInTurn' /\ ReaderInv'
  BY DEF IpcInv, IpcTypeOK, CallsInTurn, ReaderInv, TakeEncoding, clientVars, serverVars
<1>3. HelloFirst'
  BY <1>1 DEF IpcInv, HelloFirst, TakeEncoding, clientVars, serverVars
<1>4. RequestsInv' /\ RepliesInv'
  BY <1>1 DEF IpcInv, RequestsInv, LastIs, RepliesInv, TakeEncoding, clientVars, serverVars
<1> QED
  BY <1>2, <1>3, <1>4 DEF IpcInv

LEMMA EndOfFileKeeps ==
    ASSUME IpcInv, EndOfFile
    PROVE  IpcInv'
<1>1. Replies' = Replies /\ Requests' = Requests
  BY DEF Replies, Requests, EndOfFile, serverVars
<1>2. IpcTypeOK' /\ CallsInTurn' /\ ReaderInv'
  BY DEF IpcInv, IpcTypeOK, CallsInTurn, ReaderInv, EndOfFile, clientVars, serverVars
<1>3. HelloFirst'
  BY <1>1 DEF IpcInv, HelloFirst, EndOfFile, clientVars, serverVars
<1>4. RequestsInv' /\ RepliesInv'
  BY <1>1 DEF IpcInv, RequestsInv, LastIs, RepliesInv, EndOfFile, clientVars, serverVars
<1> QED
  BY <1>2, <1>3, <1>4 DEF IpcInv

\* The calls that waited fail together; the connection is already lost.
LEMMA DrainKeeps ==
    ASSUME IpcInv, Drain
    PROVE  IpcInv'
<1> USE HelloIsId
<1>0. /\ IpcTypeOK /\ CallsInTurn /\ HelloFirst /\ RequestsInv /\ RepliesInv /\ ReaderInv
      /\ reader = "closing" /\ reader' = "done" /\ server = "closed"
  BY DEF IpcInv, Drain, ReaderInv
<1>1. Replies' = Replies /\ Requests' = Requests
  BY DEF Replies, Requests, Drain, serverVars, noteVars, callVars
<1>2. \A i \in Ids : \/ fut'[i] = fut[i]
                     \/ fut[i] \in Open /\ fut'[i] = "closed"
  BY DEF Drain, Drained, Ended
<1>3. IpcTypeOK'
  BY <1>0 DEF IpcTypeOK, Drain, Drained, Ended, Failures, serverVars, noteVars, callVars
<1>4. CallsInTurn'
  BY <1>0, <1>2 DEF CallsInTurn, Drain, Open, noteVars
<1>5. HelloFirst'
  BY <1>0, <1>1, <1>2 DEF HelloFirst, Drain, Open, serverVars, noteVars, callVars
<1>6. RequestsInv'
  BY <1>0, <1>1, <1>2, Streams, EmptySeq DEF RequestsInv, LastIs, Drain, serverVars, noteVars, callVars
<1>7. RepliesInv'
  BY <1>0, <1>1, <1>2 DEF RepliesInv, Drain, Answers, serverVars, noteVars, callVars
<1>8. ReaderInv'
  BY <1>0 DEF ReaderInv, Drain, serverVars, noteVars, callVars
<1> QED
  BY <1>3, <1>4, <1>5, <1>6, <1>7, <1>8 DEF IpcInv

\* The reader never meets the wrong encoding, and gives an answer to the call
\* it was served for.
LEMMA DecodesRight ==
    ASSUME IpcInv, reader = "decode"
    PROVE  ~WrongEncoding(rbuf, renc)
<1> SUFFICES ASSUME rbuf # <<>>, rbuf[1].enc # renc PROVE FALSE
  BY DEF WrongEncoding
<1>1. rbuf \in Seq(IpcPart) /\ down \in Seq(IpcPart)
  BY DEF IpcInv, IpcTypeOK
<1>2. 1 \in DOMAIN Replies /\ Replies[1] = rbuf[1]
  <2>1. 1 \in 1 .. Len(rbuf)
    BY <1>1, EmptySeq, LenProperties
  <2> QED
    BY <1>1, <2>1, BufferFirst DEF Replies
<1>3. client # "gone" /\ renc = enc
  BY DEF IpcInv, ReaderInv
<1> QED
  BY <1>2, <1>3 DEF IpcInv, RepliesInv

LEMMA IpcDecodeKeeps ==
    ASSUME IpcInv, IpcDecode
    PROVE  IpcInv'
<1> USE HelloIsId
<1>0. /\ IpcTypeOK /\ CallsInTurn /\ HelloFirst /\ RequestsInv /\ RepliesInv /\ ReaderInv
      /\ reader = "decode" /\ client # "gone" /\ ~WrongEncoding(rbuf, renc)
      /\ rbuf \in Seq(IpcPart) /\ down \in Seq(IpcPart)
  BY DecodesRight DEF IpcInv, IpcDecode, ReaderInv, IpcTypeOK
<1>1. Requests' = Requests
  BY DEF IpcDecode, Requests, serverVars, noteVars, callVars
<1>2. CASE Whole(rbuf)
  <2> DEFINE m == rbuf[1]
  <2>1. /\ fut' = Ended({m.id} \cap pending, m.body) /\ pending' = pending \ {m.id}
        /\ rbuf' = Rest(rbuf) /\ reader' = reader
    BY <1>0, <1>2 DEF IpcDecode
  <2>2. Len(rbuf) >= 2 /\ Replies \in Seq(IpcPart) /\ Len(Replies) \in Nat
    BY <1>0, <1>2, Streams DEF Whole
  <2>3. /\ Len(Replies) >= 2 /\ 1 \in DOMAIN Replies /\ Replies[1] = m
        /\ Len(rbuf) \in Nat
    BY <1>0, <2>2, BufferFirst DEF Replies
  <2>4. Replies' = Rest(Replies)
    <3>1. Replies' = Rest(rbuf) \o down
      BY <2>1 DEF Replies, IpcDecode
    <3> QED
      BY <1>0, <2>2, <3>1, DecodeTakesPair DEF Replies
  <2>5. /\ m.body \in Answers /\ m.id \in Ids /\ served[m.id] = m.body
    BY <1>0, <2>3, Streams DEF RepliesInv, IpcPart
  <2> HIDE DEF m
  <2>6. \A i \in Ids : \/ fut'[i] = fut[i]
                       \/ fut[i] \in Open /\ i = m.id /\ fut'[i] = m.body
    BY <2>1 DEF Ended
  <2>7. /\ Len(Replies') = Len(Replies) - 2 /\ DOMAIN Replies' = 1 .. Len(Replies) - 2
        /\ \A k \in 1 .. Len(Replies) - 2 : Replies'[k] = Replies[k + 2]
    BY <2>2, <2>3, <2>4, RestProperties, LenProperties
  <2>8. IpcTypeOK'
    <3>1. fut' \in [Ids -> {"none", "dropped"} \cup Open \cup Answers \cup Failures]
      BY <1>0, <2>1, <2>5 DEF IpcTypeOK, Ended
    <3>2. rbuf' \in Seq(IpcPart)
      BY <1>0, <2>1, <2>2, RestProperties
    <3> QED
      BY <1>0, <2>1, <3>1, <3>2 DEF IpcTypeOK, IpcDecode, serverVars, noteVars, callVars
  <2>9. CallsInTurn'
    BY <1>0, <2>5, <2>6 DEF CallsInTurn, IpcDecode, Open, Answers, noteVars
  <2>10. HelloFirst'
    <3>1. enc = "json" => Replies' = <<>>
      BY <1>0, <2>2, <2>3, <2>4, <2>7, RestProperties, EmptySeq DEF HelloFirst
    <3>2. fut[Hello] = "ok" => fut'[Hello] = "ok"
      BY <2>6 DEF Open
    <3> QED
      BY <1>0, <1>1, <2>3, <2>7, <3>1, <3>2, EmptySeq DEF HelloFirst, IpcDecode, serverVars, noteVars, callVars
  <2>11. RequestsInv'
    <3>1. served[m.id] # "none" /\ fut[m.id] # "half"
      BY <1>0, <2>5 DEF RepliesInv, Answers
    <3>2. \A i \in Ids : fut'[i] = "half" <=> fut[i] = "half"
      BY <2>5, <2>6, <3>1 DEF Answers
    <3>3. \A i \in Ids : fut'[i] \in {"none", "begun", "inserted"} => fut[i] \in {"none", "begun", "inserted"}
      BY <2>5, <2>6 DEF Answers
    <3>4. UNCHANGED <<server, senc, served, noting, cut>>
      BY DEF IpcDecode, serverVars, noteVars
    <3>5. \A k \in DOMAIN Requests : Requests[k].id # NoId => Requests[k].id \in Ids
      BY <1>0, Streams DEF IpcPart
    <3>6. Requests # <<>> => Len(Requests) \in DOMAIN Requests
      BY <1>0, Streams, EmptySeq
    <3> QED
      BY <1>0, <1>1, <3>2, <3>3, <3>4, <3>5, <3>6 DEF RequestsInv, LastIs
  <2>12. RepliesInv'
    <3>1. ASSUME NEW k \in DOMAIN Replies'
          PROVE  /\ client' # "gone" => Replies'[k].enc = enc'
                 /\ Replies'[k].id # NoId /\ Replies'[k].body \in Answers
                 /\ served'[Replies'[k].id] = Replies'[k].body
      <4>1. k + 2 \in DOMAIN Replies /\ Replies'[k] = Replies[k + 2]
        BY <1>0, <2>2, <2>7, <3>1, Streams
      <4> QED
        BY <1>0, <4>1 DEF RepliesInv, IpcDecode, serverVars, noteVars, callVars
    <3>2. ASSUME NEW i \in Ids
          PROVE  /\ served'[i] # "none" => fut'[i] \notin {"none", "begun", "inserted", "half"}
                 /\ fut'[i] \in Answers => served'[i] = fut'[i]
                 /\ fut'[i] # "protocol"
      BY <1>0, <2>5, <2>6 DEF RepliesInv, IpcDecode, Answers, serverVars, noteVars, callVars
    <3> QED
      BY <3>1, <3>2 DEF RepliesInv
  <2>13. ReaderInv'
    <3>1. rbuf # <<>>
      BY <1>0, <2>2, EmptySeq
    <3> QED
      BY <1>0, <2>1, <3>1 DEF ReaderInv, IpcDecode, serverVars, noteVars, callVars
  <2> QED
    BY <2>8, <2>9, <2>10, <2>11, <2>12, <2>13 DEF IpcInv
<1>3. CASE ~Whole(rbuf)
  <2>1. UNCHANGED <<fut, pending, rbuf>> /\ reader' = "run"
    BY <1>0, <1>3 DEF IpcDecode
  <2>2. Replies' = Replies
    BY <2>1 DEF Replies, IpcDecode
  <2>3. IpcTypeOK' /\ CallsInTurn' /\ ReaderInv'
    BY <1>0, <2>1 DEF IpcTypeOK, CallsInTurn, ReaderInv, IpcDecode, serverVars, noteVars, callVars
  <2>4. HelloFirst'
    BY <1>0, <1>1, <2>1, <2>2 DEF HelloFirst, IpcDecode, serverVars, noteVars, callVars
  <2>5. RequestsInv' /\ RepliesInv'
    BY <1>0, <1>1, <2>1, <2>2 DEF RequestsInv, LastIs, RepliesInv, IpcDecode, serverVars, noteVars, callVars
  <2> QED
    BY <2>3, <2>4, <2>5 DEF IpcInv
<1> QED
  BY <1>2, <1>3

-----------------------------------------------------------------------------
(* The steps of the server. *)

LEMMA ServerReadKeeps ==
    ASSUME IpcInv, ServerRead
    PROVE  IpcInv'
<1>0. /\ IpcTypeOK /\ CallsInTurn /\ HelloFirst /\ RequestsInv /\ RepliesInv /\ ReaderInv
      /\ server = "read" /\ server' = "decode" /\ up \in Seq(IpcPart) /\ sbuf \in Seq(IpcPart)
  BY DEF IpcInv, ServerRead, IpcTypeOK
<1>1. PICK n \in 1 .. Len(up) : /\ sbuf' = sbuf \o SubSeq(up, 1, n)
                                /\ up' = SubSeq(up, n + 1, Len(up))
  BY DEF ServerRead
<1>2. Requests' = Requests /\ Replies' = Replies
  BY <1>0, <1>1, ReadMoves DEF Replies, Requests, ServerRead, readerVars
<1>3. sbuf' \in Seq(IpcPart) /\ up' \in Seq(IpcPart)
  BY <1>0, <1>1, ReadMoves, BufferFirst
<1>4. IpcTypeOK' /\ CallsInTurn'
  BY <1>0, <1>3 DEF IpcTypeOK, CallsInTurn, ServerRead, clientVars, readerVars
<1>5. HelloFirst'
  BY <1>0, <1>2 DEF HelloFirst, ServerRead, clientVars
<1>6. RequestsInv' /\ RepliesInv' /\ ReaderInv'
  BY <1>0, <1>2 DEF RequestsInv, LastIs, RepliesInv, ReaderInv, ServerRead, clientVars, readerVars
<1> QED
  BY <1>4, <1>5, <1>6 DEF IpcInv

\* What was on its way to the server is lost.
LEMMA ShutKeeps ==
    ASSUME IpcInv, Shut
    PROVE  IpcInv'
<1> USE HelloIsId
<1>0. /\ IpcTypeOK /\ CallsInTurn /\ HelloFirst /\ RequestsInv /\ RepliesInv /\ ReaderInv
      /\ server' = "closed" /\ sbuf' = <<>> /\ up' = <<>>
  BY DEF IpcInv, Shut
<1>1. <<>> \in Seq(IpcPart) /\ Len(<<>>) = 0
  BY EmptySeq
<1>2. Requests' = <<>> /\ Replies' = Replies /\ DOMAIN Requests' = {}
  <2>1. Requests' = <<>> \o <<>> /\ Replies' = Replies
    BY <1>0 DEF Requests, Replies, Shut, readerVars
  <2>2. <<>> \o <<>> = <<>>
    BY <1>1, ConcatEmptySeq
  <2> QED
    BY <2>1, <2>2
<1>3. IpcTypeOK' /\ CallsInTurn' /\ ReaderInv'
  BY <1>0, <1>1 DEF IpcTypeOK, CallsInTurn, ReaderInv, Shut, clientVars, readerVars
<1>4. HelloFirst'
  BY <1>0, <1>2 DEF HelloFirst, Shut, clientVars
<1>5. RequestsInv'
  BY <1>0, <1>1, <1>2 DEF RequestsInv, LastIs, Framed, Distinct
<1>6. RepliesInv'
  BY <1>0, <1>2 DEF RepliesInv, Shut, clientVars
<1> QED
  BY <1>3, <1>4, <1>5, <1>6 DEF IpcInv

\* What is known of the request that is decoded next.
LEMMA NextRequest ==
    ASSUME IpcInv, Len(sbuf) >= 2
    PROVE  /\ server # "closed" /\ Len(Requests) >= 2 /\ 1 \in DOMAIN Requests
           /\ sbuf[1] = Requests[1] /\ sbuf[1] \in IpcPart
           /\ Rest(sbuf) \in Seq(IpcPart) /\ Rest(sbuf) \o up = Rest(Requests)
           /\ sbuf[1].id # NoId =>
                 /\ sbuf[1].id \in Ids /\ served[sbuf[1].id] = "none"
                 /\ fut[sbuf[1].id] \notin {"none", "begun", "inserted", "half"}
<1> DEFINE p == sbuf[1]
           n == Len(Requests)
<1>0. /\ IpcTypeOK /\ CallsInTurn /\ RequestsInv
      /\ sbuf \in Seq(IpcPart) /\ up \in Seq(IpcPart)
  BY DEF IpcInv, IpcTypeOK
<1>1. /\ n \in Nat /\ n >= 2 /\ Requests[1] = p /\ DOMAIN Requests = 1 .. n
      /\ Requests \in Seq(IpcPart) /\ \A k \in 1 .. n : Requests[k] \in IpcPart
  <2>1. Len(sbuf) \in Nat /\ 1 \in 1 .. Len(sbuf) /\ n \in Nat
    BY <1>0, Streams, LenProperties
  <2> QED
    BY <1>0, <2>1, Streams, BufferFirst DEF Requests
<1>2. Rest(sbuf) \in Seq(IpcPart) /\ Rest(sbuf) \o up = Rest(Requests)
  BY <1>0, RestProperties, DecodeTakesPair DEF Requests
<1>3. Requests # <<>> /\ 1 \in DOMAIN Requests
  BY <1>1, EmptySeq
<1>4. server # "closed"
  BY <1>0, <1>3 DEF RequestsInv, LastIs
<1>5. ASSUME p.id # NoId
      PROVE  /\ p.id \in Ids /\ served[p.id] = "none"
             /\ fut[p.id] \notin {"none", "begun", "inserted"}
             /\ fut[p.id] = "half" => cut = "no"
  BY <1>0, <1>1, <1>3, <1>5 DEF RequestsInv, LastIs, IpcPart
<1>51. p.id # NoId /\ fut[p.id] = "half" => cut = "no"
  BY <1>5
<1>6. ASSUME p.id # NoId, fut[p.id] = "half" PROVE FALSE
  <2>1. Requests[n].half = 1 /\ Requests[n].id = p.id
    BY <1>0, <1>4, <1>5, <1>6, <1>51 DEF RequestsInv, LastIs
  <2>2. n = 1 + 1
    <3>1. 1 \in 1 .. n /\ n \in 1 .. n /\ 1 < n
      BY <1>1
    <3> QED
      BY <1>0, <1>1, <1>6, <2>1, <3>1 DEF RequestsInv, LastIs, Distinct
  <2>3. Requests[2].half = 2
    BY <1>0, <1>1, FramedRest DEF RequestsInv, LastIs
  <2> QED
    BY <2>1, <2>2, <2>3
<1> QED
  BY <1>1, <1>2, <1>3, <1>4, <1>5, <1>6

\* The requests that are left when one was decoded, and perhaps answered.
LEMMA RequestServed ==
    ASSUME IpcInv, Len(sbuf) >= 2,
           UNCHANGED <<server, up, fut, noting, cut>>, sbuf' = Rest(sbuf),
           \/ served' = served
           \/ /\ sbuf[1].id # NoId
              /\ \E a \in Answers : served' = [served EXCEPT ![sbuf[1].id] = a],
           senc' = senc \/ Requests' = <<>>
    PROVE  /\ Requests' = Rest(Requests)
           /\ \A k \in DOMAIN Requests' : /\ k + 2 \in DOMAIN Requests
                                          /\ Requests'[k] = Requests[k + 2]
           /\ sbuf[1].id # NoId =>
                 \A k \in DOMAIN Requests' : Requests'[k].id # sbuf[1].id
           /\ RequestsInv'
<1> USE HelloIsId
<1> DEFINE p == sbuf[1]
           n == Len(Requests)
<1>0. /\ IpcTypeOK /\ CallsInTurn /\ RequestsInv
      /\ n \in Nat /\ n >= 2 /\ Requests \in Seq(IpcPart) /\ DOMAIN Requests = 1 .. n
      /\ \A k \in 1 .. n : Requests[k] \in IpcPart
  BY NextRequest, Streams DEF IpcInv
<1>1. Requests' = Rest(Requests)
  BY NextRequest DEF Requests
<1>2. /\ Requests' \in Seq(IpcPart) /\ Len(Requests') = n - 2
      /\ DOMAIN Requests' = 1 .. n - 2
      /\ \A k \in 1 .. n - 2 : Requests'[k] = Requests[k + 2]
  BY <1>0, <1>1, RestProperties, LenProperties
<1>3. \A k \in DOMAIN Requests' : k + 2 \in DOMAIN Requests /\ Requests'[k] = Requests[k + 2]
  BY <1>0, <1>2
<1>4. Framed(Requests') /\ Distinct(Requests')
  BY <1>0, <1>1, FramedRest, DistinctRest DEF RequestsInv, LastIs
<1>5. p.id # NoId => \A k \in DOMAIN Requests' : Requests'[k].id # p.id
  <2>1. Requests[1] = p /\ Framed(Requests) /\ Distinct(Requests)
    BY <1>0, NextRequest DEF RequestsInv, LastIs
  <2>2. Requests[1].id # NoId =>
           \A k \in 1 .. Len(Rest(Requests)) : Rest(Requests)[k].id # Requests[1].id
    BY <1>0, <2>1, DistinctRest
  <2> HIDE DEF p
  <2> QED
    BY <1>1, <1>2, <2>1, <2>2
<1>6. ASSUME NEW k \in DOMAIN Requests'
      PROVE  /\ Requests'[k].enc = senc'
             /\ Requests'[k].id # NoId =>
                   /\ served'[Requests'[k].id] = "none"
                   /\ fut'[Requests'[k].id] \notin {"none", "begun", "inserted"}
                   /\ fut'[Requests'[k].id] = "half" => cut' = "no"
  <2>1. /\ Requests[k + 2].enc = senc
        /\ Requests[k + 2].id # NoId =>
              /\ served[Requests[k + 2].id] = "none"
              /\ fut[Requests[k + 2].id] \notin {"none", "begun", "inserted"}
              /\ fut[Requests[k + 2].id] = "half" => cut = "no"
    BY <1>0, <1>3 DEF RequestsInv, LastIs
  <2>2. Requests' # <<>>
    BY <1>2, <1>6, EmptySeq
  <2>3. p.id # NoId => Requests'[k].id # p.id
    BY <1>5
  <2>4. Requests'[k].id # NoId => Requests'[k].id \in Ids
    BY <1>0, <1>3 DEF IpcPart
  <2>5. Requests'[k].id # NoId => served'[Requests'[k].id] = served[Requests'[k].id]
    BY <1>0, <2>3, <2>4 DEF IpcTypeOK
  <2> QED
    BY <1>3, <2>1, <2>2, <2>5
<1>7. Requests' # <<>> => /\ n > 2 /\ Requests'[Len(Requests')] = Requests[n]
                          /\ Requests # <<>>
  <2> SUFFICES ASSUME Requests' # <<>>
               PROVE  n > 2 /\ Requests'[Len(Requests')] = Requests[n] /\ Requests # <<>>
    OBVIOUS
  <2>1. n - 2 # 0
    BY <1>2, EmptySeq
  <2>2. n > 2 /\ n - 2 \in 1 .. n - 2 /\ (n - 2) + 2 = n
    BY <1>0, <2>1
  <2>3. Requests # <<>>
    BY <1>0, EmptySeq
  <2> QED
    BY <1>2, <2>2, <2>3
<1>8. ASSUME NEW i, LastIs(i) PROVE LastIs(i)'
  <2> SUFFICES ASSUME Requests' = <<>> PROVE FALSE
    BY <1>7, <1>8 DEF LastIs
  <2>1. n = 2
    <3>1. Len(Requests') = 0
      BY EmptySeq
    <3>2. n \in Nat /\ Len(Requests') = n - 2
      BY <1>0, <1>2
    <3> HIDE DEF n
    <3> QED
      BY <3>1, <3>2
  <2>2. Requests[2].half = 1
    BY <1>8, <2>1 DEF LastIs
  <2>3. Requests[2].half = 2
    BY <1>0, FramedRest DEF RequestsInv
  <2> QED
    BY <2>2, <2>3
<1>9. Requests # <<>> /\ server # "closed"
  BY NextRequest, <1>0, EmptySeq
<1>10. RequestsInv'
  BY <1>0, <1>4, <1>6, <1>7, <1>8, <1>9 DEF RequestsInv
<1> QED
  BY <1>1, <1>3, <1>5, <1>10

\* An answer joins the replies.
LEMMA ReplySent ==
    ASSUME IpcInv, NEW id \in Ids, NEW a \in Answers,
           served[id] = "none", fut[id] \notin {"none", "begun", "inserted", "half"},
           served' = [served EXCEPT ![id] = a],
           Reply(id, a, senc), UNCHANGED <<fut, rbuf, client, enc>>,
           client # "gone" => senc = enc
    PROVE  /\ RepliesInv' /\ down' \in Seq(IpcPart)
           /\ Replies = <<>> => Len(Replies') <= 2
<1> USE HelloIsId
<1> DEFINE m == IpcMessage(id, a, senc)
           n == Len(Replies)
<1>0. /\ IpcTypeOK /\ RepliesInv /\ rbuf \in Seq(IpcPart) /\ down \in Seq(IpcPart)
      /\ n \in Nat /\ Replies \in Seq(IpcPart) /\ DOMAIN Replies = 1 .. n
      /\ \A k \in 1 .. n : Replies[k] \in IpcPart
  BY Streams DEF IpcInv, IpcTypeOK
<1>1. /\ m \in Seq(IpcPart) /\ Len(m) = 2
      /\ \A h \in 1 .. 2 : m[h].id = id /\ m[h].enc = senc /\ m[h].body = a
  <2>1. senc \in Encodings /\ id \in Ids \cup {NoId} /\ a \in {"request"} \cup Answers
    BY <1>0 DEF IpcTypeOK
  <2>2. m \in Seq(IpcPart) /\ Len(m) = 2
    BY <2>1, MessageParts
  <2> QED
    BY <2>2 DEF IpcMessage
<1>2. down' = down \/ (client # "gone" /\ down' = down \o m)
  BY DEF Reply
<1> HIDE DEF m
<1>3. \A i \in Ids : served'[i] = IF i = id THEN a ELSE served[i]
  BY <1>0 DEF IpcTypeOK
<1>4. a # "none" /\ id # NoId
  BY DEF Answers
<1>5. ASSUME NEW i \in Ids
      PROVE  /\ served'[i] # "none" => fut'[i] \notin {"none", "begun", "inserted", "half"}
             /\ fut'[i] \in Answers => served'[i] = fut'[i]
             /\ fut'[i] # "protocol"
  BY <1>0, <1>3 DEF RepliesInv, Answers
<1>6. ASSUME NEW k \in DOMAIN Replies
      PROVE  /\ client # "gone" => Replies[k].enc = enc
             /\ Replies[k].id # NoId /\ Replies[k].body \in Answers
             /\ served'[Replies[k].id] = Replies[k].body
  <2>1. Replies[k].id \in Ids /\ Replies[k].id # id
    BY <1>0, <1>4 DEF RepliesInv, IpcPart, Answers
  <2> QED
    BY <1>0, <1>3, <2>1 DEF RepliesInv
<1>7. CASE down' = down
  <2>1. Replies' = Replies
    BY <1>7 DEF Replies
  <2>2. Replies = <<>> => n <= 2
    BY <1>0, EmptySeq
  <2> QED
    BY <1>0, <1>5, <1>6, <1>7, <2>1, <2>2 DEF RepliesInv
<1>8. CASE client # "gone" /\ down' = down \o m
  <2>1. Replies' = Replies \o m
    BY <1>0, <1>1, <1>8, JoinAssociative DEF Replies
  <2>2. /\ Len(Replies \o m) = n + 2 /\ DOMAIN (Replies \o m) = 1 .. n + 2
        /\ \A k \in 1 .. n : (Replies \o m)[k] = Replies[k]
        /\ \A h \in 1 .. 2 : (Replies \o m)[n + h] = m[h]
    <3>1. /\ Len(Replies \o m) = Len(Replies) + Len(m)
          /\ DOMAIN (Replies \o m) = 1 .. Len(Replies) + Len(m)
          /\ \A k \in 1 .. Len(Replies) : (Replies \o m)[k] = Replies[k]
          /\ \A h \in 1 .. Len(m) : (Replies \o m)[Len(Replies) + h] = m[h]
      BY <1>0, <1>1, BufferFirst
    <3> QED
      BY <1>1, <3>1
  <2>3. ASSUME NEW k \in DOMAIN Replies'
        PROVE  /\ client' # "gone" => Replies'[k].enc = enc'
               /\ Replies'[k].id # NoId /\ Replies'[k].body \in Answers
               /\ served'[Replies'[k].id] = Replies'[k].body
    <3>1. CASE k \in 1 .. n
      BY <1>0, <1>6, <2>1, <2>2, <3>1
    <3>2. CASE k \in n + 1 .. n + 2
      <4>1. PICK h \in 1 .. 2 : k = n + h
        BY <1>0, <3>2
      <4>2. Replies'[k] = m[h]
        BY <2>1, <2>2, <4>1
      <4> QED
        BY <1>1, <1>3, <1>4, <4>2
    <3> QED
      BY <1>0, <2>1, <2>2, <3>1, <3>2
  <2>4. down' \in Seq(IpcPart)
    BY <1>0, <1>1, <1>8, BufferFirst
  <2>5. Replies = <<>> => Len(Replies') <= 2
    BY <1>0, <2>1, <2>2, EmptySeq
  <2> QED
    BY <1>5, <2>3, <2>4, <2>5 DEF RepliesInv
<1> QED
  BY <1>2, <1>7, <1>8

\* The switch of the server: nothing but the .hello has been written yet.
LEMMA HelloServedKeeps ==
    ASSUME IpcInv, Len(sbuf) >= 2, sbuf[1].id = Hello,
           Reply(Hello, "ok", senc), senc' = "json_cbor", sbuf' = Rest(sbuf),
           served' = [served EXCEPT ![Hello] = "ok"],
           UNCHANGED <<server, up>>, UNCHANGED <<clientVars, readerVars>>
    PROVE  IpcInv'
<1> USE HelloIsId
<1>0. /\ IpcTypeOK /\ CallsInTurn /\ HelloFirst /\ RequestsInv /\ RepliesInv /\ ReaderInv
      /\ UNCHANGED <<fut, nextId, pending, enc, client, notes, noting, cut, cancelled, reader, renc, rbuf>>
      /\ Hello # NoId
  BY DEF IpcInv, clientVars, readerVars, Hello, NoId
<1>1. served[Hello] = "none" /\ fut[Hello] \notin {"none", "begun", "inserted", "half"}
  BY <1>0, NextRequest
<1>2. senc = "json" /\ enc = "json" /\ fut[Hello] # "ok"
  BY <1>0, <1>1 DEF HelloFirst, RepliesInv, IpcTypeOK, Encodings, Answers
<1>3. Requests' = <<>>
  <2>1. Requests' = Rest(Requests)
    BY NextRequest DEF Requests
  <2>2. /\ Requests \in Seq(IpcPart) /\ Len(Requests) >= 2 /\ Requests[1].id = Hello
        /\ Framed(Requests) /\ Distinct(Requests) /\ Len(Requests) \in Nat
        /\ DOMAIN Requests = 1 .. Len(Requests)
    BY <1>0, NextRequest, Streams DEF RequestsInv, LastIs
  <2>3. /\ Rest(Requests) \in Seq(IpcPart) /\ Len(Rest(Requests)) = Len(Requests) - 2
        /\ \A k \in 1 .. Len(Requests) - 2 : Rest(Requests)[k] = Requests[k + 2]
    BY <2>2, RestProperties
  <2>4. \A k \in 1 .. Len(Rest(Requests)) : Rest(Requests)[k].id # Hello
    BY <1>0, <2>2, DistinctRest
  <2>5. \A k \in 1 .. Len(Requests) : Requests[k].id = Hello
    BY <1>0, <1>2, <2>2 DEF HelloFirst
  <2>6. Len(Requests) = 2
    <3> SUFFICES ASSUME Len(Requests) > 2 PROVE FALSE
      BY <2>2
    <3>1. 1 \in 1 .. Len(Requests) - 2 /\ 1 + 2 \in 1 .. Len(Requests)
      BY <2>2
    <3>2. Rest(Requests)[1] = Requests[1 + 2]
      BY <2>3, <3>1
    <3> QED
      BY <2>3, <2>4, <2>5, <3>1, <3>2
  <2>7. Len(Rest(Requests)) = 0
    BY <2>3, <2>6
  <2> QED
    BY <2>1, <2>3, <2>7, EmptySeq
<1>4. Replies = <<>>
  BY <1>0, <1>1, <1>2 DEF HelloFirst
<1>5. RepliesInv' /\ down' \in Seq(IpcPart) /\ Len(Replies') <= 2
  BY <1>0, <1>1, <1>2, <1>4, ReplySent DEF Answers
<1>6. RequestsInv'
  BY <1>0, <1>3, RequestServed DEF Answers
<1>7. IpcTypeOK'
  <2>1. sbuf' \in Seq(IpcPart)
    BY NextRequest
  <2>2. served' \in [Ids -> {"none"} \cup Answers]
    BY <1>0 DEF IpcTypeOK, Answers
  <2> QED
    BY <1>0, <1>5, <2>1, <2>2 DEF IpcTypeOK, Encodings
<1>8. CallsInTurn' /\ ReaderInv'
  BY <1>0 DEF CallsInTurn, ReaderInv
<1>9. HelloFirst'
  <2>1. served'[Hello] = "ok"
    BY <1>0 DEF IpcTypeOK
  <2>2. \A k \in DOMAIN Requests' : Requests'[k].id = Hello
    BY <1>3, EmptySeq, LenProperties
  <2> QED
    BY <1>0, <1>2, <1>5, <2>1, <2>2 DEF HelloFirst
<1> QED
  BY <1>5, <1>6, <1>7, <1>8, <1>9 DEF IpcInv

LEMMA HandleCallKeeps ==
    ASSUME IpcInv, Len(sbuf) >= 2, sbuf[1].id # Hello, HandleCall(sbuf[1].id),
           UNCHANGED <<clientVars, readerVars>>
    PROVE  IpcInv'
<1> USE HelloIsId
<1> DEFINE id == sbuf[1].id
<1>0. /\ IpcTypeOK /\ CallsInTurn /\ HelloFirst /\ RequestsInv /\ RepliesInv /\ ReaderInv
      /\ UNCHANGED <<fut, nextId, pending, enc, client, notes, noting, cut, cancelled, reader, renc, rbuf>>
      /\ UNCHANGED <<senc, server, up>> /\ sbuf' = Rest(sbuf)
      /\ Hello # NoId
  BY DEF IpcInv, clientVars, readerVars, Hello, NoId, HandleCall
<1>1. enc = "json_cbor" /\ senc = "json_cbor" /\ served[Hello] = "ok"
  <2>1. enc # "json"
    BY <1>0, NextRequest DEF HelloFirst
  <2> QED
    BY <1>0, <2>1 DEF HelloFirst, RepliesInv, IpcTypeOK, Encodings, Answers
<1>2. sbuf' \in Seq(IpcPart)
  BY <1>0, NextRequest
<1>3. CallsInTurn' /\ ReaderInv'
  BY <1>0 DEF CallsInTurn, ReaderInv
<1>4. CASE id = NoId
  <2>1. UNCHANGED <<served, down>>
    BY <1>4 DEF HandleCall
  <2>2. Replies' = Replies
    BY <1>0, <2>1 DEF Replies
  <2>3. RequestsInv'
    BY <1>0, <2>1, RequestServed
  <2>4. RepliesInv' /\ HelloFirst'
    BY <1>0, <1>1, <2>1, <2>2 DEF RepliesInv, HelloFirst
  <2>5. IpcTypeOK'
    BY <1>0, <1>2, <2>1 DEF IpcTypeOK
  <2> QED
    BY <1>3, <2>3, <2>4, <2>5 DEF IpcInv
<1>5. CASE id # NoId
  <2>1. PICK a \in Answers : served' = [served EXCEPT ![id] = a] /\ Reply(id, a, senc)
    BY <1>5 DEF HandleCall
  <2>2. /\ id \in Ids /\ served[id] = "none"
        /\ fut[id] \notin {"none", "begun", "inserted", "half"}
    BY <1>5, NextRequest
  <2>3. RequestsInv'
    BY <1>0, <1>5, <2>1, RequestServed
  <2> HIDE DEF id
  <2>4. RepliesInv' /\ down' \in Seq(IpcPart)
    BY <1>0, <1>1, <2>1, <2>2, ReplySent
  <2>5. IpcTypeOK'
    <3>1. served' \in [Ids -> {"none"} \cup Answers]
      BY <1>0, <2>1, <2>2 DEF IpcTypeOK
    <3> QED
      BY <1>0, <1>2, <2>4, <3>1 DEF IpcTypeOK
  <2>6. served'[Hello] = "ok"
    BY <1>0, <1>1, <2>1, <2>2 DEF IpcTypeOK
  <2>7. HelloFirst'
    BY <1>0, <1>1, <2>6 DEF HelloFirst
  <2> QED
    BY <1>3, <2>3, <2>4, <2>5, <2>7 DEF IpcInv
<1> QED
  BY <1>4, <1>5

LEMMA ServerDecodeKeeps ==
    ASSUME IpcInv, ServerDecode
    PROVE  IpcInv'
<1>1. CASE WrongEncoding(sbuf, senc)
  BY <1>1, ShutKeeps DEF ServerDecode
<1>2. CASE ~WrongEncoding(sbuf, senc) /\ Whole(sbuf)
  <2>1. Len(sbuf) >= 2 /\ UNCHANGED <<clientVars, readerVars>>
    BY <1>2 DEF ServerDecode, Whole
  <2>2. CASE sbuf[1].id = Hello
    <3>1. HandleHello
      BY <1>2, <2>2 DEF ServerDecode
    <3>2. \/ /\ Reply(Hello, "ok", senc)
             /\ senc' = "json_cbor" /\ UNCHANGED <<server, up>> /\ sbuf' = Rest(sbuf)
             /\ served' = [served EXCEPT ![Hello] = "ok"]
          \/ Shut
      BY <2>1, <3>1 DEF HandleHello, HelloReplyEncoding, Shut
    <3> QED
      BY <2>1, <2>2, <3>2, HelloServedKeeps, ShutKeeps
  <2>3. CASE sbuf[1].id # Hello
    BY <1>2, <2>1, <2>3, HandleCallKeeps DEF ServerDecode
  <2> QED
    BY <2>2, <2>3
<1>3. CASE ~WrongEncoding(sbuf, senc) /\ ~Whole(sbuf)
  <2>1. /\ server' = "read" /\ UNCHANGED <<senc, sbuf, served, up, down>>
        /\ UNCHANGED <<clientVars, readerVars>> /\ server = "decode"
    BY <1>3 DEF ServerDecode
  <2>2. Requests' = Requests /\ Replies' = Replies
    BY <2>1 DEF Requests, Replies, readerVars
  <2>3. IpcTypeOK' /\ CallsInTurn' /\ ReaderInv'
    BY <2>1 DEF IpcInv, IpcTypeOK, CallsInTurn, ReaderInv, clientVars, readerVars
  <2>4. HelloFirst'
    BY <2>1, <2>2 DEF IpcInv, HelloFirst, clientVars
  <2>5. RequestsInv' /\ RepliesInv'
    BY <2>1, <2>2 DEF IpcInv, RequestsInv, LastIs, RepliesInv, clientVars
  <2> QED
    BY <2>3, <2>4, <2>5 DEF IpcInv
<1> QED
  BY <1>1, <1>2, <1>3

-----------------------------------------------------------------------------
(* The invariant. *)

LEMMA IpcInitInv == IpcInit => IpcInv
<1> SUFFICES ASSUME IpcInit PROVE IpcInv
  OBVIOUS
<1> USE HelloIsId
<1>1. <<>> \in Seq(IpcPart) /\ Len(<<>>) = 0
  BY EmptySeq
<1>2. Requests = <<>> /\ Replies = <<>> /\ DOMAIN Requests = {} /\ DOMAIN Replies = {}
  <2>1. <<>> \o <<>> = <<>>
    BY <1>1, ConcatEmptySeq
  <2> QED
    BY <2>1 DEF IpcInit, Requests, Replies
<1>3. IpcTypeOK
  <2>1. noting \in BOOLEAN /\ cut \in {"no", "cut", "garbled"}
    BY DEF IpcInit
  <2> QED
    BY <1>1, <2>1, IpcAssumption DEF IpcInit, IpcTypeOK, Encodings
<1>4. CallsInTurn
  BY DEF IpcInit, CallsInTurn, Ids, Open
<1>5. HelloFirst
  BY <1>1, <1>2 DEF IpcInit, HelloFirst
<1>6. RequestsInv
  BY <1>1, <1>2 DEF IpcInit, RequestsInv, LastIs, Framed, Distinct
<1>7. RepliesInv
  BY <1>2 DEF IpcInit, RepliesInv, Answers
<1>8. ReaderInv
  BY DEF IpcInit, ReaderInv
<1> QED
  BY <1>3, <1>4, <1>5, <1>6, <1>7, <1>8 DEF IpcInv

LEMMA IpcNextKeeps == IpcInv /\ [IpcNext]_ipcVars => IpcInv'
<1> SUFFICES ASSUME IpcInv, [IpcNext]_ipcVars PROVE IpcInv'
  OBVIOUS
<1>1. CASE ClientStep
  <2>1. ASSUME NEW i \in Ids, Write(i) PROVE IpcInv'
    BY <2>1, WriteKeeps, WriteFailsKeeps
  <2> QED
    BY <1>1, <2>1, CallKeeps, InsertKeeps, NoteKeeps, HelloReturnsKeeps, CloseKeeps,
       DropKeeps, CancelKeeps, CancelNotifyKeeps, CancelConnectKeeps DEF ClientStep
<1>2. CASE ReaderStep
  BY <1>2, IpcReadKeeps, TakeEncodingKeeps, IpcDecodeKeeps, EndOfFileKeeps, DrainKeeps
     DEF ReaderStep
<1>3. CASE ServerStep
  BY <1>3, ServerReadKeeps, ServerDecodeKeeps, ShutKeeps DEF ServerStep, ServerEndOfFile
<1>4. CASE ServerDies \/ ServerRefuses
  BY <1>4, ShutKeeps DEF ServerDies, ServerRefuses
<1>5. CASE UNCHANGED ipcVars
  <2>1. Requests' = Requests /\ Replies' = Replies
    BY <1>5 DEF ipcVars, Requests, Replies
  <2>2. IpcTypeOK' /\ CallsInTurn' /\ ReaderInv'
    BY <1>5 DEF IpcInv, ipcVars, IpcTypeOK, CallsInTurn, ReaderInv
  <2>3. HelloFirst' /\ RequestsInv' /\ RepliesInv'
    BY <1>5, <2>1 DEF IpcInv, ipcVars, HelloFirst, RequestsInv, LastIs, RepliesInv
  <2> QED
    BY <2>2, <2>3 DEF IpcInv
<1> QED
  BY <1>1, <1>2, <1>3, <1>4, <1>5 DEF IpcNext

\* The invariant holds for any number of calls: the order of what is on its
\* way, and what is known of each call (client.rs, server.rs).
THEOREM IpcInvariant == IpcSpec => []IpcInv
<1>1. IpcInit => IpcInv
  BY IpcInitInv
<1>2. IpcInv /\ [IpcNext]_ipcVars => IpcInv'
  BY IpcNextKeeps
<1> QED
  BY <1>1, <1>2, PTL DEF IpcSpec

\* Nothing is ever decoded in an encoding other than the one it was written in,
\* although the client and the server switch at different times: client.rs
\* when .hello has returned, server.rs when it has answered it.
THEOREM EncodingsStayAgreed == IpcSpec => []EncodingsAgree
<1>1. IpcInv => EncodingsAgree
  <2> SUFFICES ASSUME IpcInv PROVE EncodingsAgree
    OBVIOUS
  <2>1. /\ sbuf \in Seq(IpcPart) /\ up \in Seq(IpcPart)
        /\ rbuf \in Seq(IpcPart) /\ down \in Seq(IpcPart)
    BY DEF IpcInv, IpcTypeOK
  <2>2. ASSUME NEW k \in DOMAIN sbuf PROVE sbuf[k].enc = senc
    <3>1. k \in DOMAIN Requests /\ Requests[k] = sbuf[k]
      BY <2>1, <2>2, BufferFirst DEF Requests
    <3> QED
      BY <3>1 DEF IpcInv, RequestsInv, LastIs
  <2>3. ASSUME reader = "decode", NEW k \in DOMAIN rbuf PROVE rbuf[k].enc = renc
    <3>1. k \in DOMAIN Replies /\ Replies[k] = rbuf[k]
      BY <2>1, <2>3, BufferFirst DEF Replies
    <3>2. rbuf # <<>>
      BY <2>1, <2>3, BufferFirst, EmptySeq
    <3>3. client # "gone" /\ renc = enc
      BY <2>3, <3>2 DEF IpcInv, ReaderInv
    <3> QED
      BY <3>1, <3>3 DEF IpcInv, RepliesInv
  <2> QED
    BY <2>2, <2>3 DEF EncodingsAgree
<1> QED
  BY <1>1, IpcInvariant, PTL

-----------------------------------------------------------------------------
(* The connection implements the calls of Rpc. *)

LEMMA RpcStutters ==
    ASSUME fut' = fut, served' = served
    PROVE  UNCHANGED R!rpcVars
BY DEF R!rpcVars, Asked, Outcome

\* A call whose future changes is the only thing a step shows a caller.
LEMMA RpcCall ==
    ASSUME IpcInv, Call
    PROVE  R!RpcNext
<1>1. nextId \in Ids /\ fut[nextId] = "none"
  BY IpcAssumption DEF IpcInv, IpcTypeOK, CallsInTurn, Call, Ids
<1>2. \A i \in Ids : fut'[i] = IF i = nextId THEN "begun" ELSE fut[i]
  BY DEF IpcInv, IpcTypeOK, Call, FreshId
<1>3. served' = served
  BY DEF Call, serverVars
<1>4. nextId \notin Asked /\ Asked' = Asked \cup {nextId}
  BY <1>1, <1>2 DEF Asked
<1>5. Outcome' = Outcome
  BY <1>1, <1>2 DEF Outcome, Open
<1>6. R!Ask(nextId)
  BY <1>3, <1>4, <1>5 DEF R!Ask
<1> QED
  BY <1>1, <1>6 DEF R!RpcNext

LEMMA RpcWrite ==
    ASSUME IpcInv, NEW i \in Ids, Write(i)
    PROVE  R!RpcNext \/ UNCHANGED R!rpcVars
<1>1. fut[i] \in {"inserted", "half"} /\ served' = served
  BY DEF Write, serverVars
<1>2. CASE server = "closed"
  <2>1. \A j \in Ids : fut'[j] = IF j = i THEN "io" ELSE fut[j]
    BY <1>2 DEF IpcInv, IpcTypeOK, Write, Broken
  <2>2. Asked' = Asked /\ i \in Asked /\ Outcome[i] = "none"
    BY <1>1, <2>1 DEF Asked, Outcome, Open
  <2>3. Outcome' = [j \in Ids |-> IF j \in {i} THEN "io" ELSE Outcome[j]]
    BY <2>1 DEF Outcome, Open
  <2>4. R!Fail({i}, "io")
    BY <1>1, <2>2, <2>3 DEF R!Fail
  <2> QED
    BY <2>4 DEF R!RpcNext
<1>3. CASE server # "closed"
  <2>1. \A j \in Ids : fut'[j] = fut[j] \/ (fut[j] \in Open /\ fut'[j] \in Open)
    BY <1>1, <1>3 DEF IpcInv, IpcTypeOK, Write, Broken, Open
  <2>2. Asked' = Asked /\ Outcome' = Outcome
    BY <2>1 DEF Asked, Outcome, Open
  <2> QED
    BY <1>1, <2>2 DEF R!rpcVars
<1> QED
  BY <1>2, <1>3

\* What a caller does not see: its call goes on, or it drops the future.
LEMMA RpcUnseen ==
    ASSUME IpcInv, NEW i \in Ids, fut[i] \in Open, served' = served,
           NEW f \in {"inserted", "dropped"}, fut' = [fut EXCEPT ![i] = f]
    PROVE  UNCHANGED R!rpcVars
<1>1. \A j \in Ids : fut'[j] = IF j = i THEN f ELSE fut[j]
  BY DEF IpcInv, IpcTypeOK
<1>2. Asked' = Asked /\ Outcome' = Outcome
  BY <1>1 DEF Asked, Outcome, Open
<1> QED
  BY <1>2 DEF R!rpcVars

LEMMA RpcDrain ==
    ASSUME IpcInv, Drain
    PROVE  R!RpcNext \/ UNCHANGED R!rpcVars
<1> DEFINE waiting == {i \in Ids : i \in pending /\ fut[i] \in Open}
<1>1. \A i \in Ids : fut'[i] = IF i \in waiting THEN "closed" ELSE fut[i]
  BY DEF Drain, Drained, Ended
<1>2. served' = served
  BY DEF Drain, serverVars
<1>3. Asked' = Asked
  BY <1>1 DEF Asked, Open
<1>4. Outcome' = [i \in Ids |-> IF i \in waiting THEN "closed" ELSE Outcome[i]]
  BY <1>1 DEF Outcome, Open
<1>5. waiting \subseteq {i \in Asked : Outcome[i] = "none"} /\ waiting \in SUBSET Ids
  BY DEF Asked, Outcome, Open
<1>6. CASE waiting = {}
  <2>1. Outcome' = Outcome
    BY <1>4, <1>6 DEF Outcome
  <2> QED
    BY <1>2, <1>3, <2>1 DEF R!rpcVars
<1>7. CASE waiting # {}
  <2>1. R!Fail(waiting, "closed")
    BY <1>2, <1>3, <1>4, <1>5, <1>7 DEF R!Fail
  <2> QED
    BY <1>5, <2>1 DEF R!RpcNext
<1> QED
  BY <1>6, <1>7

\* The answer that arrives is the one that was served to this very call.
LEMMA RpcDecode ==
    ASSUME IpcInv, IpcDecode
    PROVE  R!RpcNext \/ UNCHANGED R!rpcVars
<1>0. /\ ~WrongEncoding(rbuf, renc) /\ served' = served
      /\ rbuf \in Seq(IpcPart) /\ down \in Seq(IpcPart)
  BY DecodesRight DEF IpcInv, IpcTypeOK, IpcDecode, serverVars
<1>1. CASE ~Whole(rbuf)
  BY <1>0, <1>1, RpcStutters DEF IpcDecode
<1>2. CASE Whole(rbuf)
  <2> DEFINE m == rbuf[1]
  <2>1. fut' = Ended({m.id} \cap pending, m.body)
    BY <1>0, <1>2 DEF IpcDecode
  <2>2. /\ m.body \in Answers /\ served[m.id] = m.body
        /\ m.id \in Ids
    <3>1. 1 \in DOMAIN Replies /\ Replies[1] = m /\ Replies[1] \in IpcPart
      <4>1. 1 \in 1 .. Len(rbuf)
        BY <1>0, <1>2, LenProperties DEF Whole
      <4> QED
        BY <1>0, <4>1, BufferFirst, Streams DEF IpcInv, Replies
    <3> QED
      BY <3>1 DEF IpcInv, RepliesInv, IpcPart
  <2> HIDE DEF m
  <2>3. CASE m.id \in pending /\ fut[m.id] \in Open
    <3>1. \A i \in Ids : fut'[i] = IF i = m.id THEN m.body ELSE fut[i]
      BY <2>1, <2>3 DEF Ended
    <3>2. m.body \notin Open \cup {"none", "dropped"}
      BY <2>2 DEF Answers, Open
    <3>3. Asked' = Asked
      BY <2>3, <3>1, <3>2 DEF Asked, Open
    <3>4. Outcome' = [Outcome EXCEPT ![m.id] = served[m.id]]
      BY <2>2, <3>1, <3>2 DEF Outcome
    <3>5. Outcome[m.id] = "none" /\ served[m.id] # "none"
      BY <2>2, <2>3 DEF Outcome, Answers
    <3>6. R!Answer(m.id)
      BY <1>0, <3>3, <3>4, <3>5 DEF R!Answer
    <3> QED
      BY <2>2, <3>6 DEF R!RpcNext
  <2>4. CASE ~(m.id \in pending /\ fut[m.id] \in Open)
    <3>1. fut' = fut
      BY <2>1, <2>4 DEF Ended, IpcInv, IpcTypeOK
    <3> QED
      BY <1>0, <3>1, RpcStutters
  <2> QED
    BY <2>3, <2>4
<1> QED
  BY <1>1, <1>2

\* A call is served once, and only when it was made.
LEMMA RpcServe ==
    ASSUME IpcInv, ServerDecode
    PROVE  R!RpcNext \/ UNCHANGED R!rpcVars
<1>1. fut' = fut
  BY DEF ServerDecode, Shut, clientVars
<1>2. CASE served' = served
  BY <1>1, <1>2, RpcStutters
<1>3. CASE served' # served
  <2>1. Len(sbuf) >= 2
    BY <1>3 DEF ServerDecode, Shut, Whole
  <2>2. sbuf[1].id # NoId /\ \E a \in Answers : served' = [served EXCEPT ![sbuf[1].id] = a]
    BY <1>3 DEF ServerDecode, Shut, HandleHello, HandleCall, Hello, NoId, Answers
  <2>3. PICK a \in Answers : served' = [served EXCEPT ![sbuf[1].id] = a]
    BY <2>2
  <2>4. sbuf[1].id \in Ids /\ served[sbuf[1].id] = "none" /\ sbuf[1].id \in Asked
    BY <2>1, <2>2, NextRequest DEF Asked
  <2>5. R!Serve(sbuf[1].id, a)
    BY <1>1, <2>3, <2>4 DEF R!Serve, Asked, Outcome
  <2> QED
    BY <2>4, <2>5 DEF R!RpcNext
<1> QED
  BY <1>2, <1>3

\* Every answer a caller gets is the one the service gave to that very call,
\* once, and every other end of a call is a failure of the connection
\* (client.rs and server.rs, whatever is lost, cancelled or shut down).
THEOREM IpcImplementsRpc == IpcSpec => ImplementsRpc
<1>1. IpcInit => R!RpcInit
  BY DEF IpcInit, R!RpcInit, Asked, Outcome
<1>2. IpcInv /\ [IpcNext]_ipcVars => [R!RpcNext]_R!rpcVars
  <2> SUFFICES ASSUME IpcInv, [IpcNext]_ipcVars PROVE R!RpcNext \/ UNCHANGED R!rpcVars
    OBVIOUS
  <2>1. CASE ClientStep
    <3>1. CASE Notify \/ NotifyEnds \/ CancelNotify \/ HelloReturns \/ Close \/ Drop
      <4>1. fut' = fut /\ served' = served
        BY <3>1 DEF Notify, NotifyEnds, CancelNotify, HelloReturns, Close, Drop, serverVars, callVars
      <4> QED
        BY <4>1, RpcStutters
    <3>2. ASSUME NEW i \in Ids, Insert(i) \/ Cancel(i) PROVE UNCHANGED R!rpcVars
      <4>1. fut[i] \in Open /\ served' = served
        BY <3>2 DEF Insert, Cancel, Open, serverVars
      <4> QED
        BY <3>2, <4>1, RpcUnseen DEF Insert, Cancel
    <3>3. CASE CancelConnect
      <4>1. fut[Hello] \in Open /\ served' = served /\ fut' = [fut EXCEPT ![Hello] = "dropped"]
        BY <3>3 DEF CancelConnect, serverVars
      <4> QED
        BY <4>1, HelloIsId, RpcUnseen
    <3> QED
      BY <2>1, <3>1, <3>2, <3>3, RpcCall, RpcWrite DEF ClientStep
  <2>2. CASE ReaderStep
    <3>1. CASE IpcRead \/ TakeEncoding \/ EndOfFile
      <4>1. fut' = fut /\ served' = served
        BY <3>1 DEF IpcRead, TakeEncoding, EndOfFile, clientVars, serverVars
      <4> QED
        BY <4>1, RpcStutters
    <3> QED
      BY <2>2, <3>1, RpcDecode, RpcDrain DEF ReaderStep
  <2>3. CASE ServerRead \/ ServerEndOfFile \/ ServerDies \/ ServerRefuses
    <3>1. fut' = fut /\ served' = served
      BY <2>3 DEF ServerRead, ServerEndOfFile, ServerDies, ServerRefuses, Shut, clientVars
    <3> QED
      BY <3>1, RpcStutters
  <2>4. CASE ServerDecode
    BY <2>4, RpcServe
  <2>5. CASE UNCHANGED ipcVars
    <3>1. fut' = fut /\ served' = served
      BY <2>5 DEF ipcVars
    <3> QED
      BY <3>1, RpcStutters
  <2> QED
    BY <2>1, <2>2, <2>3, <2>4, <2>5 DEF IpcNext, ServerStep
<1> QED
  BY <1>1, <1>2, IpcInvariant, PTL DEF IpcSpec, ImplementsRpc, R!RpcSpec

-----------------------------------------------------------------------------
(* Joined sequences.  FlattenSeq is defined by recursion: its recursive      *)
(* function is found, and shown to be the only one, by looking at the least  *)
(* number for which that fails.                                              *)

LEMMA LeastNat ==
    ASSUME NEW T \in SUBSET Nat, T # {}
    PROVE  \E x \in T : \A y \in T : x <= y
<1>1. PICK Rel : Rel = {ss \in Nat \X Nat : ss[1] < ss[2]}
  OBVIOUS
<1>2. IsWellFoundedOn(Rel, Nat)
  BY <1>1, NatLessThanWellFounded DEF OpToRel
<1>3. PICK x \in T : \A y \in T : ~(<<y, x>> \in Rel)
  BY <1>2, WFMin
<1>4. \A y \in T : ~(y < x)
  BY <1>1, <1>3
<1> QED
  BY <1>4

\* g[i] is what the first i of the sequences ss make when they are joined.
Joins(g, n, ss, S) ==
    /\ g \in [0 .. n -> Seq(S)] /\ g[0] = <<>>
    /\ \A i \in 1 .. n : g[i] = g[i - 1] \o ss[i]

LEMMA JoinsExists ==
    ASSUME NEW S, NEW ss \in Seq(Seq(S))
    PROVE  \E g : Joins(g, Len(ss), ss, S)
<1> DEFINE Bad == {n \in 0 .. Len(ss) : ~ \E g : Joins(g, n, ss, S)}
<1>0. Len(ss) \in Nat
  OBVIOUS
<1> SUFFICES ASSUME Bad # {} PROVE FALSE
  BY <1>0
<1>1. Bad \in SUBSET Nat
  BY <1>0
<1>2. PICK n \in Bad : \A m \in Bad : n <= m
  <2> HIDE DEF Bad
  <2> QED BY <1>1, LeastNat
<1>3. n # 0
  <2>1. PICK g : g = [i \in 0 .. 0 |-> <<>>]
    OBVIOUS
  <2>2. Joins(g, 0, ss, S)
    BY <2>1 DEF Joins
  <2> QED
    BY <2>2
<1>4. n - 1 \in 0 .. Len(ss) /\ ~(n - 1 \in Bad) /\ n \in 1 .. Len(ss)
  <2>1. n \in 0 .. Len(ss)
    OBVIOUS
  <2>2. n - 1 \in 0 .. Len(ss) /\ n \in 1 .. Len(ss)
    BY <1>0, <1>3, <2>1
  <2>3. ~(n <= n - 1)
    BY <1>0, <2>1
  <2> HIDE DEF Bad
  <2> QED
    BY <1>2, <2>2, <2>3
<1>5. PICK g : Joins(g, n - 1, ss, S)
  BY <1>4
<1>6. PICK h : h = [i \in 0 .. n |-> IF i = n THEN g[n - 1] \o ss[n] ELSE g[i]]
  OBVIOUS
<1>7. g[n - 1] \in Seq(S) /\ ss[n] \in Seq(S)
  BY <1>4, <1>5 DEF Joins
<1>8. g[n - 1] \o ss[n] \in Seq(S)
  BY <1>7
<1>9. h \in [0 .. n -> Seq(S)]
  <2>1. \A i \in 0 .. n : i # n => i \in 0 .. n - 1
    BY <1>4
  <2> QED
    BY <1>5, <1>6, <1>8, <2>1 DEF Joins
<1>10. h[0] = <<>>
  BY <1>3, <1>4, <1>5, <1>6 DEF Joins
<1>11. ASSUME NEW i \in 1 .. n PROVE h[i] = h[i - 1] \o ss[i]
  <2>1. i - 1 \in 0 .. n - 1 /\ i - 1 # n /\ i \in 0 .. n /\ i - 1 \in 0 .. n
    BY <1>4
  <2>2. h[i - 1] = g[i - 1]
    BY <1>6, <2>1
  <2>3. CASE i = n
    BY <1>6, <2>1, <2>2, <2>3
  <2>4. CASE i # n
    <3>1. i \in 1 .. n - 1
      BY <1>4, <2>4
    <3> QED
      BY <1>5, <1>6, <2>1, <2>2, <2>4, <3>1 DEF Joins
  <2> QED
    BY <2>3, <2>4
<1>12. Joins(h, n, ss, S)
  BY <1>9, <1>10, <1>11 DEF Joins
<1> QED
  BY <1>2, <1>12

LEMMA FlatIs ==
    ASSUME NEW S, NEW ss \in Seq(Seq(S)), NEW g, Joins(g, Len(ss), ss, S)
    PROVE  FlattenSeq(ss) = g[Len(ss)] /\ FlattenSeq(ss) \in Seq(S)
<1> DEFINE n == Len(ss)
           P(f) == f = [i \in 1 .. n |-> IF i = 1 THEN ss[i] ELSE f[i - 1] \o ss[i]]
           c == CHOOSE f : P(f)
<1>1. n \in Nat
  OBVIOUS
<1>2. CASE n = 0
  BY <1>2 DEF FlattenSeq, Joins
<1>3. CASE n # 0
  <2>1. FlattenSeq(ss) = c[n]
    BY <1>3 DEF FlattenSeq
  <2>2. PICK f : f = [i \in 1 .. n |-> g[i]]
    OBVIOUS
  <2>3. ASSUME NEW i \in 1 .. n
        PROVE  f[i] = IF i = 1 THEN ss[i] ELSE f[i - 1] \o ss[i]
    <3>1. CASE i = 1
      <4>1. ss[i] \in Seq(S)
        OBVIOUS
      <4>2. <<>> \o ss[i] = ss[i]
        BY <4>1
      <4>3. g[i] = g[i - 1] \o ss[i] /\ g[0] = <<>>
        BY <2>3 DEF Joins
      <4>6. i - 1 = 0
        BY <3>1
      <4>4. g[i] = <<>> \o ss[i]
        BY <4>3, <4>6
      <4>5. f[i] = g[i]
        BY <2>2
      <4> QED
        BY <3>1, <4>2, <4>4, <4>5
    <3>2. CASE i # 1
      <4>1. i - 1 \in 1 .. n
        BY <3>2
      <4> QED
        BY <2>2, <3>2, <4>1 DEF Joins
    <3> QED
      BY <3>1, <3>2
  <2>4. P(f)
    <3>1. f = [i \in 1 .. n |-> f[i]]
      BY <2>2
    <3> QED
      BY <2>3, <3>1
  <2>5. P(c)
    BY <2>4
  <2> HIDE DEF c
  <2>6. \A i \in 1 .. n : c[i] = IF i = 1 THEN ss[i] ELSE c[i - 1] \o ss[i]
    BY <2>5
  <2> HIDE DEF P
  <2> DEFINE Bad == {i \in 1 .. n : c[i] # g[i]}
  <2>7. Bad = {}
    <3> SUFFICES ASSUME Bad # {} PROVE FALSE
      OBVIOUS
    <3>1. Bad \in SUBSET Nat
      OBVIOUS
    <3>2. PICK k \in Bad : \A m \in Bad : k <= m
      <4> HIDE DEF Bad
      <4> QED BY <3>1, LeastNat
    <3>3. k \in 1 .. n /\ c[k] # g[k]
      OBVIOUS
    <3>4. f[k] = g[k]
      BY <2>2, <3>3
    <3>5. k # 1
      BY <2>3, <2>6, <3>3, <3>4
    <3>6. k - 1 \in 1 .. n
      BY <3>3, <3>5
    <3>7. c[k - 1] = g[k - 1] /\ f[k - 1] = g[k - 1]
      BY <2>2, <3>2, <3>6
    <3>8. f[k] = f[k - 1] \o ss[k] /\ c[k] = c[k - 1] \o ss[k]
      BY <2>3, <2>6, <3>3, <3>5
    <3> QED
      BY <3>3, <3>4, <3>7, <3>8
  <2>8. c[n] = g[n]
    BY <1>1, <1>3, <2>7
  <2> QED
    BY <2>1, <2>8, <1>1 DEF Joins
<1> QED
  BY <1>2, <1>3

LEMMA FlatType ==
    ASSUME NEW S, NEW ss \in Seq(Seq(S))
    PROVE  FlattenSeq(ss) \in Seq(S)
BY JoinsExists, FlatIs

LEMMA FlatEmpty == FlattenSeq(<<>>) = <<>>
BY DEF FlattenSeq

LEMMA FlatConcat ==
    ASSUME NEW S, NEW a \in Seq(Seq(S)), NEW b \in Seq(Seq(S))
    PROVE  FlattenSeq(a \o b) = FlattenSeq(a) \o FlattenSeq(b)
<1>1. PICK f : Joins(f, Len(a), a, S)
  BY JoinsExists
<1>2. PICK g : Joins(g, Len(b), b, S)
  BY JoinsExists
<1>3. PICK m : m = Len(a)
  OBVIOUS
<1>4. PICK n : n = Len(b)
  OBVIOUS
<1>5. PICK c : c = a \o b
  OBVIOUS
<1>6. m \in Nat /\ n \in Nat /\ c \in Seq(Seq(S)) /\ Len(c) = m + n
  BY <1>3, <1>4, <1>5
<1>7. \A i \in 1 .. m + n : c[i] = IF i <= m THEN a[i] ELSE b[i - m]
  BY <1>3, <1>4, <1>5
<1>8. PICK h : h = [i \in 0 .. m + n |-> IF i <= m THEN f[i] ELSE f[m] \o g[i - m]]
  OBVIOUS
<1>9. f \in [0 .. m -> Seq(S)] /\ g \in [0 .. n -> Seq(S)] /\ f[0] = <<>> /\ g[0] = <<>>
  BY <1>1, <1>2, <1>3, <1>4 DEF Joins
<1>10. f[m] \in Seq(S)
  BY <1>6, <1>9
<1>11. \A i \in 0 .. m + n : h[i] \in Seq(S)
  <2> TAKE i \in 0 .. m + n
  <2>1. CASE i <= m
    <3>1. i \in 0 .. m
      BY <1>6, <2>1
    <3> QED
      BY <1>8, <1>9, <2>1, <3>1
  <2>2. CASE ~(i <= m)
    <3>1. i - m \in 0 .. n
      BY <1>6, <2>2
    <3>2. g[i - m] \in Seq(S)
      BY <1>9, <3>1
    <3>3. f[m] \o g[i - m] \in Seq(S)
      BY <1>10, <3>2
    <3> QED
      BY <1>8, <2>2, <3>3
  <2> QED
    BY <2>1, <2>2
<1>12. h[0] = <<>>
  BY <1>6, <1>8, <1>9
<1>13. ASSUME NEW i \in 1 .. m + n PROVE h[i] = h[i - 1] \o c[i]
  <2>1. i \in 0 .. m + n /\ i - 1 \in 0 .. m + n
    BY <1>6
  <2>2. CASE i <= m
    <3>1. i \in 1 .. m /\ i - 1 <= m
      BY <1>6, <2>2
    <3>2. f[i] = f[i - 1] \o a[i]
      BY <1>1, <1>3, <3>1 DEF Joins
    <3> QED
      BY <1>7, <1>8, <2>1, <2>2, <3>1, <3>2
  <2>3. CASE ~(i <= m)
    <3>1. PICK j : j = i - m
      OBVIOUS
    <3>2. j \in 1 .. n /\ j - 1 \in 0 .. n
      BY <1>6, <2>3, <3>1
    <3>3. g[j] = g[j - 1] \o b[j]
      BY <1>2, <1>4, <3>2 DEF Joins
    <3>4. h[i] = f[m] \o g[j]
      BY <1>8, <2>1, <2>3, <3>1
    <3>9. g[j - 1] \in Seq(S)
      BY <1>9, <3>2
    <3>5. b[j] \in Seq(S)
      BY <1>4, <3>2
    <3>10. PICK x \in Seq(S), y \in Seq(S), z \in Seq(S) : x = f[m] /\ y = g[j - 1] /\ z = b[j]
      BY <1>10, <3>5, <3>9
    <3>11. (x \o y) \o z = x \o (y \o z)
      BY ConcatAssociative, SMTT(30)
    <3>6. f[m] \o (g[j - 1] \o b[j]) = (f[m] \o g[j - 1]) \o b[j]
      BY <3>10, <3>11
    <3>7. h[i - 1] = f[m] \o g[j - 1]
      <4>1. CASE i - 1 <= m
        <5>1. i - 1 = m /\ j - 1 = 0
          BY <1>6, <2>3, <3>1, <4>1
        <5>2. h[i - 1] = f[m]
          BY <1>8, <2>1, <4>1, <5>1
        <5>3. f[m] \o <<>> = f[m]
          BY <1>10
        <5> QED
          BY <1>9, <5>1, <5>2, <5>3
      <4>2. CASE ~(i - 1 <= m)
        <5>1. (i - 1) - m = j - 1
          BY <1>6, <3>1
        <5> QED
          BY <1>8, <2>1, <4>2, <5>1
      <4> QED
        BY <4>1, <4>2
    <3>8. c[i] = b[j]
      BY <1>7, <2>3, <3>1
    <3> QED
      BY <3>3, <3>4, <3>6, <3>7, <3>8
  <2> QED
    BY <2>2, <2>3
<1>14. h \in [0 .. m + n -> Seq(S)]
  BY <1>8, <1>11
<1>15. Joins(h, Len(c), c, S)
  BY <1>6, <1>12, <1>13, <1>14 DEF Joins
<1>16. FlattenSeq(c) = h[m + n]
  BY <1>6, <1>15, FlatIs
<1>17. FlattenSeq(a) = f[m] /\ FlattenSeq(b) = g[n]
  BY <1>1, <1>2, <1>3, <1>4, FlatIs
<1>18. h[m + n] = f[m] \o g[n]
  <2>1. CASE n = 0
    <3>1. f[m] \o <<>> = f[m]
      BY <1>10
    <3>2. h[m + n] = f[m] /\ g[n] = <<>>
      BY <1>6, <1>8, <1>9, <2>1
    <3> QED
      BY <3>1, <3>2
  <2>2. CASE n # 0
    <3>1. m + n \in 0 .. m + n /\ ~(m + n <= m) /\ (m + n) - m = n
      BY <1>6, <2>2
    <3> QED
      BY <1>8, <3>1
  <2> QED
    BY <2>1, <2>2
<1> QED
  BY <1>5, <1>16, <1>17, <1>18

LEMMA FlatOne ==
    ASSUME NEW S, NEW s \in Seq(S)
    PROVE  FlattenSeq(<<s>>) = s
<1>1. PICK ss : ss = <<s>>
  OBVIOUS
<1>2. ss \in Seq(Seq(S)) /\ Len(ss) = 1 /\ ss[1] = s
  BY <1>1
<1>3. PICK g : Joins(g, 1, ss, S)
  BY <1>2, JoinsExists
<1>4. FlattenSeq(ss) = g[1]
  BY <1>2, <1>3, FlatIs
<1>5. g[0] = <<>> /\ \A i \in 1 .. 1 : g[i] = g[i - 1] \o ss[i]
  BY <1>3 DEF Joins
<1>6. g[1] = g[0] \o ss[1]
  <2>1. 1 \in 1 .. 1 /\ 1 - 1 = 0
    OBVIOUS
  <2> QED
    BY <1>5, <2>1
<1>7. <<>> \o s = s
  OBVIOUS
<1> QED
  BY <1>1, <1>2, <1>4, <1>5, <1>6, <1>7

LEMMA FlatSingles ==
    ASSUME NEW S, NEW es \in Seq(S), NEW ss, ss = [k \in DOMAIN es |-> <<es[k]>>]
    PROVE  /\ ss \in Seq(Seq(S)) /\ Len(ss) = Len(es)
           /\ FlattenSeq(ss) = es
<1>1. PICK n : n = Len(es)
  OBVIOUS
<1>2. n \in Nat /\ DOMAIN es = 1 .. n /\ ss = [k \in 1 .. n |-> <<es[k]>>]
  BY <1>1
<1>3. \A k \in 1 .. n : <<es[k]>> \in Seq(S)
  BY <1>1
<1>4. ss \in Seq(Seq(S)) /\ Len(ss) = n
  BY <1>2, <1>3
<1>5. PICK g : g = [i \in 0 .. n |-> SubSeq(es, 1, i)]
  OBVIOUS
<1>6. \A i \in 0 .. n : SubSeq(es, 1, i) \in Seq(S)
  BY <1>1
<1>7. g \in [0 .. n -> Seq(S)]
  BY <1>5, <1>6
<1>8. SubSeq(es, 1, 0) = <<>>
  OBVIOUS
<1>9. g[0] = <<>>
  BY <1>2, <1>5, <1>8
<1>10. ASSUME NEW i \in 1 .. n PROVE g[i] = g[i - 1] \o ss[i]
  <2>1. i - 1 \in 0 .. n /\ i \in 0 .. n
    BY <1>2
  <2>2. SubSeq(es, 1, i) = SubSeq(es, 1, i - 1) \o <<es[i]>>
    BY <1>1, <1>2
  <2> QED
    BY <1>2, <1>5, <2>1, <2>2
<1>11. Joins(g, Len(ss), ss, S)
  BY <1>4, <1>7, <1>9, <1>10 DEF Joins
<1>12. FlattenSeq(ss) = g[n]
  BY <1>4, <1>11, FlatIs
<1>13. SubSeq(es, 1, n) = es
  BY <1>1
<1>14. n \in 0 .. n
  BY <1>2
<1>15. g[n] = es
  BY <1>5, <1>13, <1>14
<1>16. Len(ss) = Len(es)
  BY <1>1, <1>4
<1>17. FlattenSeq(ss) = es
  BY <1>12, <1>15
<1> QED
  BY <1>4, <1>16, <1>17
-----------------------------------------------------------------------------
(* Telemetry.  The inductive invariant.                                      *)

\* What the flush thread alone holds: events it took out of memory, and lines
\* of a file it has cut and not written yet.
Flight == IF flush \in {"realtime", "critCut", "normalCut"} THEN FlattenSeq(sending) ELSE <<>>

\* No event is twice in one of five sequences, or in two of them.
Apart(r, b, c, n, m) ==
    /\ IsInjective(r) /\ IsInjective(b) /\ IsInjective(c) /\ IsInjective(n) /\ IsInjective(m)
    /\ ToSet(r) \cap (ToSet(b) \cup ToSet(c) \cup ToSet(n) \cup ToSet(m)) = {}
    /\ ToSet(b) \cap (ToSet(c) \cup ToSet(n) \cup ToSet(m)) = {}
    /\ ToSet(c) \cap (ToSet(n) \cup ToSet(m)) = {}
    /\ ToSet(n) \cap ToSet(m) = {}

Held == ToSet(realtime) \cup ToSet(buffer) \cup ToSet(FlattenSeq(disk["crit"]))
        \cup ToSet(FlattenSeq(disk["normal"])) \cup ToSet(Flight)

\* What has left the client, to the server or for good.
Gone == delivered \cup joined \cup lost \cup torn

Places == {"idle", "realtime", "config", "crit", "normal", "critSent", "normalSent", "critCut", "normalCut"}
KnownLimits == [Names -> {NoLimit} \cup Limits]

StoreInv ==
    /\ realtime \in Seq(Events) /\ buffer \in Seq(Events)
    /\ disk \in [Stores -> Lines] /\ unfinished \subseteq Stores
    /\ flush \in Places /\ sending \in Lines
    /\ config \in KnownLimits /\ cached \in KnownLimits /\ cacheFile \in KnownLimits

\* Lines that are posted are the first of the file, until the answer is in; and
\* a file is empty between the two steps of its rewriting.
Begins(p, q) == Len(p) <= Len(q) /\ p = SubSeq(q, 1, Len(p))
SendInv ==
    /\ flush \in {"idle", "config", "crit", "normal"} => sending = <<>>
    /\ \A s \in Stores : /\ flush = Posting(s) => Begins(sending, disk[s])
                         /\ flush = Cutting(s) => disk[s] = <<>>

KeptInv ==
    /\ Apart(realtime, buffer, FlattenSeq(disk["crit"]), FlattenSeq(disk["normal"]), Flight)
    /\ Held \subseteq logged
    /\ logged \subseteq Held \cup Gone

TelemetryInv == StoreInv /\ SendInv /\ KeptInv
LEMMA SplitAt ==
    ASSUME NEW S, NEW s \in Seq(S), NEW k \in 0 .. Len(s)
    PROVE  /\ SubSeq(s, 1, k) \in Seq(S) /\ SubSeq(s, k + 1, Len(s)) \in Seq(S)
           /\ Len(SubSeq(s, 1, k)) = k /\ Len(SubSeq(s, k + 1, Len(s))) = Len(s) - k
           /\ s = SubSeq(s, 1, k) \o SubSeq(s, k + 1, Len(s))
<1>1. PICK n \in Nat : n = Len(s)
  OBVIOUS
<1>2. k \in Nat /\ k <= n
  BY <1>1
<1>3. PICK a : a = SubSeq(s, 1, k)
  OBVIOUS
<1>4. PICK b : b = SubSeq(s, k + 1, n)
  OBVIOUS
<1>5. /\ a \in Seq(S) /\ Len(a) = k
      /\ \A i \in 1 .. k : a[i] = s[i]
  <2>1. \A i \in 1 .. k : s[i] \in S
    BY <1>1, <1>2
  <2>2. /\ SubSeq(s, 1, k) \in Seq(S)
        /\ Len(SubSeq(s, 1, k)) = IF 1 <= k THEN k - 1 + 1 ELSE 0
        /\ \A i \in 1 .. k - 1 + 1 : SubSeq(s, 1, k)[i] = s[1 + i - 1]
    BY <1>2, <2>1, SubSeqProperties
  <2> QED
    BY <1>2, <1>3, <2>2
<1>6. /\ b \in Seq(S) /\ Len(b) = n - k
      /\ \A i \in 1 .. n - k : b[i] = s[k + i]
  <2>1. \A i \in k + 1 .. n : s[i] \in S
    BY <1>1, <1>2
  <2>2. k + 1 \in Int /\ n \in Int
    BY <1>1, <1>2
  <2>3. /\ SubSeq(s, k + 1, n) \in Seq(S)
        /\ Len(SubSeq(s, k + 1, n)) = IF k + 1 <= n THEN n - (k + 1) + 1 ELSE 0
        /\ \A i \in 1 .. n - (k + 1) + 1 : SubSeq(s, k + 1, n)[i] = s[k + 1 + i - 1]
    BY <2>1, <2>2, SubSeqProperties
  <2> QED
    BY <1>1, <1>2, <1>4, <2>3
<1>7. PICK c : c = a \o b
  OBVIOUS
<1>8. /\ c \in Seq(S) /\ Len(c) = n
      /\ \A i \in 1 .. n : c[i] = IF i <= k THEN a[i] ELSE b[i - k]
  BY <1>1, <1>2, <1>5, <1>6, <1>7
<1>9. \A i \in 1 .. n : c[i] = s[i]
  <2> TAKE i \in 1 .. n
  <2>1. CASE i <= k
    BY <1>2, <1>5, <1>8, <2>1
  <2>2. CASE ~(i <= k)
    <3>1. i - k \in 1 .. n - k /\ k + (i - k) = i
      BY <1>1, <1>2, <2>2
    <3> QED
      BY <1>6, <1>8, <2>2, <3>1
  <2> QED
    BY <2>1, <2>2
<1>10. c = s
  BY <1>1, <1>8, <1>9
<1> QED
  BY <1>1, <1>3, <1>4, <1>5, <1>6, <1>7, <1>10

LEMMA ConcatOnce ==
    ASSUME NEW S, NEW a \in Seq(S), NEW b \in Seq(S)
    PROVE  /\ ToSet(a \o b) = ToSet(a) \cup ToSet(b)
           /\ IsInjective(a \o b) <=> /\ IsInjective(a) /\ IsInjective(b)
                                      /\ ToSet(a) \cap ToSet(b) = {}
<1>1. PICK m \in Nat, n \in Nat : m = Len(a) /\ n = Len(b)
  OBVIOUS
<1>2. DOMAIN a = 1 .. m /\ DOMAIN b = 1 .. n
  BY <1>1
<1>3. PICK c : c = a \o b
  OBVIOUS
<1>4. /\ DOMAIN c = 1 .. m + n
      /\ \A i \in 1 .. m + n : c[i] = IF i <= m THEN a[i] ELSE b[i - m]
  BY <1>1, <1>3
<1>5. \A i \in 1 .. m : i \in 1 .. m + n /\ c[i] = a[i]
  BY <1>1, <1>4
<1>6. \A j \in 1 .. n : m + j \in 1 .. m + n /\ c[m + j] = b[j]
  <2> TAKE j \in 1 .. n
  <2>1. m + j \in 1 .. m + n /\ ~(m + j <= m) /\ (m + j) - m = j
    BY <1>1
  <2> QED
    BY <1>4, <2>1
<1>7. \A i \in 1 .. m + n : i \in 1 .. m \/ \E j \in 1 .. n : i = m + j
  <2> TAKE i \in 1 .. m + n
  <2>1. CASE i <= m
    BY <1>1, <2>1
  <2>2. CASE ~(i <= m)
    <3>1. i - m \in 1 .. n /\ i = m + (i - m)
      BY <1>1, <2>2
    <3> QED
      BY <3>1
  <2> QED
    BY <2>1, <2>2
<1>8. ToSet(c) = ToSet(a) \cup ToSet(b)
  <2>1. ToSet(c) \subseteq ToSet(a) \cup ToSet(b)
    BY <1>2, <1>4, <1>5, <1>6, <1>7 DEF ToSet
  <2>2. ToSet(a) \subseteq ToSet(c)
    BY <1>2, <1>4, <1>5 DEF ToSet
  <2>3. ToSet(b) \subseteq ToSet(c)
    BY <1>2, <1>4, <1>6 DEF ToSet
  <2> QED
    BY <2>1, <2>2, <2>3
<1>9. ASSUME IsInjective(c)
      PROVE  IsInjective(a) /\ IsInjective(b) /\ ToSet(a) \cap ToSet(b) = {}
  <2>1. IsInjective(a)
    BY <1>2, <1>4, <1>5, <1>9 DEF IsInjective
  <2>2. IsInjective(b)
    <3> SUFFICES ASSUME NEW i \in 1 .. n, NEW j \in 1 .. n, b[i] = b[j] PROVE i = j
      BY <1>2 DEF IsInjective
    <3>1. c[m + i] = c[m + j] /\ m + i \in DOMAIN c /\ m + j \in DOMAIN c
      BY <1>4, <1>6
    <3>2. m + i = m + j
      BY <1>9, <3>1 DEF IsInjective
    <3> QED
      BY <1>1, <3>2
  <2>3. ToSet(a) \cap ToSet(b) = {}
    <3> SUFFICES ASSUME NEW i \in 1 .. m, NEW j \in 1 .. n, a[i] = b[j] PROVE FALSE
      BY <1>2 DEF ToSet
    <3>1. c[i] = c[m + j] /\ i \in DOMAIN c /\ m + j \in DOMAIN c
      BY <1>4, <1>5, <1>6
    <3>2. i = m + j
      BY <1>9, <3>1 DEF IsInjective
    <3> QED
      BY <1>1, <3>2
  <2> QED
    BY <2>1, <2>2, <2>3
<1>10. ASSUME IsInjective(a), IsInjective(b), ToSet(a) \cap ToSet(b) = {}
       PROVE  IsInjective(c)
  <2> SUFFICES ASSUME NEW i \in 1 .. m + n, NEW j \in 1 .. m + n, c[i] = c[j] PROVE i = j
    BY <1>4 DEF IsInjective
  <2>0. \A x \in 1 .. m, y \in 1 .. n : a[x] # b[y]
    BY <1>2, <1>10 DEF ToSet
  <2>1. CASE i \in 1 .. m /\ j \in 1 .. m
    BY <1>2, <1>5, <1>10, <2>1 DEF IsInjective
  <2>2. ASSUME NEW x \in 1 .. n, NEW y \in 1 .. n, i = m + x, j = m + y PROVE i = j
    BY <1>2, <1>6, <1>10, <2>2 DEF IsInjective
  <2>3. ASSUME NEW x \in 1 .. n, i = m + x, j \in 1 .. m PROVE i = j
    BY <1>5, <1>6, <2>0, <2>3
  <2>4. ASSUME NEW y \in 1 .. n, j = m + y, i \in 1 .. m PROVE i = j
    BY <1>5, <1>6, <2>0, <2>4
  <2> QED
    BY <1>7, <2>1, <2>2, <2>3, <2>4
<1> QED
  BY <1>3, <1>8, <1>9, <1>10

LEMMA OnceIsApart ==
    ASSUME NEW S, NEW r \in Seq(S), NEW b \in Seq(S), NEW c \in Seq(S),
           NEW n \in Seq(S), NEW m \in Seq(S)
    PROVE  IsInjective(r \o b \o c \o n \o m) <=> Apart(r, b, c, n, m)
<1>1. PICK x1 \in Seq(S) : x1 = r \o b
  BY ConcatProperties
<1>2. PICK x2 \in Seq(S) : x2 = x1 \o c
  BY ConcatProperties
<1>3. PICK x3 \in Seq(S) : x3 = x2 \o n
  BY ConcatProperties
<1>4. PICK x4 \in Seq(S) : x4 = x3 \o m
  BY ConcatProperties
<1>5. x4 = r \o b \o c \o n \o m
  BY <1>1, <1>2, <1>3, <1>4
<1>6. /\ ToSet(x1) = ToSet(r) \cup ToSet(b)
      /\ IsInjective(x1) <=> IsInjective(r) /\ IsInjective(b) /\ ToSet(r) \cap ToSet(b) = {}
  BY <1>1, ConcatOnce
<1>7. /\ ToSet(x2) = ToSet(x1) \cup ToSet(c)
      /\ IsInjective(x2) <=> IsInjective(x1) /\ IsInjective(c) /\ ToSet(x1) \cap ToSet(c) = {}
  BY <1>2, ConcatOnce
<1>8. /\ ToSet(x3) = ToSet(x2) \cup ToSet(n)
      /\ IsInjective(x3) <=> IsInjective(x2) /\ IsInjective(n) /\ ToSet(x2) \cap ToSet(n) = {}
  BY <1>3, ConcatOnce
<1>9. IsInjective(x4) <=> IsInjective(x3) /\ IsInjective(m) /\ ToSet(x3) \cap ToSet(m) = {}
  BY <1>4, ConcatOnce
<1> QED
  BY <1>5, <1>6, <1>7, <1>8, <1>9 DEF Apart
-----------------------------------------------------------------------------
(* Telemetry.  What batches do with events.                                  *)

LEMMA AppendedFlat ==
    ASSUME NEW lines \in Lines, NEW events \in Seq(Events), NEW open \in BOOLEAN
    PROVE  /\ Appended(lines, events, open) \in Lines
           /\ FlattenSeq(Appended(lines, events, open)) = FlattenSeq(lines) \o events
<1>1. PICK fresh : fresh = [k \in DOMAIN events |-> <<events[k]>>]
  OBVIOUS
<1>2. /\ fresh \in Lines /\ Len(fresh) = Len(events)
      /\ FlattenSeq(fresh) = events
  BY <1>1, FlatSingles DEF Lines
<1>3. CASE events = <<>> \/ ~open \/ lines = <<>>
  <2>1. Appended(lines, events, open) = lines \o fresh
    BY <1>1, <1>3 DEF Appended
  <2>2. lines \o fresh \in Lines
    BY <1>2 DEF Lines
  <2>3. FlattenSeq(lines \o fresh) = FlattenSeq(lines) \o FlattenSeq(fresh)
    BY <1>2, FlatConcat DEF Lines
  <2> QED
    BY <1>2, <2>1, <2>2, <2>3
<1>4. CASE ~(events = <<>> \/ ~open \/ lines = <<>>)
  <2>1. Len(lines) \in Nat \ {0} /\ Len(events) \in Nat \ {0}
    BY <1>4 DEF Lines
  <2>2. PICK f : f = Front(lines)
    OBVIOUS
  <2>3. PICK l : l = Last(lines)
    OBVIOUS
  <2>4. PICK t : t = Tail(fresh)
    OBVIOUS
  <2>5. PICK e : e = events[1]
    OBVIOUS
  <2>6. l \in Seq(Events) /\ e \in Events
    BY <2>1, <2>3, <2>5 DEF Last, Lines
  <2>7. f \in Lines /\ lines = f \o <<l>>
    <3>1. Len(lines) - 1 \in 0 .. Len(lines) /\ (Len(lines) - 1) + 1 = Len(lines)
      BY <2>1
    <3>2. /\ SubSeq(lines, 1, Len(lines) - 1) \in Lines
          /\ lines = SubSeq(lines, 1, Len(lines) - 1) \o SubSeq(lines, Len(lines), Len(lines))
      BY <3>1, SplitAt, ZenonT(60) DEF Lines
    <3>3. SubSeq(lines, Len(lines), Len(lines)) = <<l>>
      <4>1. PICK n \in Nat : n = Len(lines) /\ n >= 1
        BY <2>1
      <4>2. PICK r : r = SubSeq(lines, n, n)
        OBVIOUS
      <4>3. lines \in Seq(Seq(Events)) /\ \A i \in n .. n : lines[i] \in Seq(Events)
        BY <4>1 DEF Lines
      <4>4. /\ SubSeq(lines, n, n) \in Seq(Seq(Events))
            /\ Len(SubSeq(lines, n, n)) = IF n <= n THEN n - n + 1 ELSE 0
            /\ \A i \in 1 .. n - n + 1 : SubSeq(lines, n, n)[i] = lines[n + i - 1]
        BY <4>1, <4>3, SubSeqProperties
      <4>5. r \in Seq(Seq(Events)) /\ Len(r) = 1 /\ r[1] = l
        BY <2>3, <4>1, <4>2, <4>4 DEF Last
      <4>6. r = <<l>>
        BY <4>5
      <4> QED
        BY <4>1, <4>2, <4>6
    <3> QED
      BY <2>2, <3>2, <3>3 DEF Front
  <2>8. fresh[1] = <<e>>
    BY <1>1, <2>1, <2>5
  <2>9. t \in Lines /\ fresh = <<<<e>>>> \o t
    <3>1. fresh # <<>>
      BY <1>2, <2>1
    <3>2. t \in Lines
      BY <1>2, <2>4, <3>1 DEF Lines
    <3>3. fresh = <<fresh[1]>> \o t
      BY <1>2, <2>4, <3>1 DEF Lines
    <3> QED
      BY <2>8, <3>2, <3>3
  <2>10. PICK w : w = Append(l, e)
    OBVIOUS
  <2>11. w \in Seq(Events) /\ w = l \o <<e>>
    BY <2>6, <2>10
  <2>12. PICK p : p = f \o <<w>>
    OBVIOUS
  <2>13. p \in Lines /\ p \o t \in Lines
    BY <2>7, <2>9, <2>11, <2>12 DEF Lines
  <2>14. Appended(lines, events, open) = p \o t
    BY <1>1, <1>4, <2>2, <2>3, <2>4, <2>5, <2>10, <2>12 DEF Appended
  <2>15. PICK ff, ft : ff = FlattenSeq(f) /\ ft = FlattenSeq(t)
    OBVIOUS
  <2>16. ff \in Seq(Events) /\ ft \in Seq(Events)
    BY <2>7, <2>9, <2>15, FlatType DEF Lines
  <2>17. FlattenSeq(lines) = ff \o l
    <3>1. <<l>> \in Seq(Seq(Events))
      BY <2>6
    <3>2. FlattenSeq(f \o <<l>>) = FlattenSeq(f) \o FlattenSeq(<<l>>)
      BY <2>7, <3>1, FlatConcat DEF Lines
    <3>3. FlattenSeq(<<l>>) = l
      BY <2>6, FlatOne
    <3> QED
      BY <2>7, <2>15, <3>2, <3>3
  <2>18. FlattenSeq(p) = ff \o w
    <3>1. <<w>> \in Seq(Seq(Events))
      BY <2>11
    <3>2. FlattenSeq(f \o <<w>>) = FlattenSeq(f) \o FlattenSeq(<<w>>)
      BY <2>7, <3>1, FlatConcat DEF Lines
    <3>3. FlattenSeq(<<w>>) = w
      BY <2>11, FlatOne
    <3> QED
      BY <2>12, <2>15, <3>2, <3>3
  <2>19. events = <<e>> \o ft
    <3>1. <<e>> \in Seq(Events)
      BY <2>6
    <3>2. <<<<e>>>> \in Seq(Seq(Events))
      BY <3>1
    <3>3. FlattenSeq(<<<<e>>>> \o t) = FlattenSeq(<<<<e>>>>) \o FlattenSeq(t)
      BY <2>9, <3>2, FlatConcat DEF Lines
    <3>4. FlattenSeq(<<<<e>>>>) = <<e>>
      BY <3>1, FlatOne
    <3> QED
      BY <1>2, <2>9, <2>15, <3>3, <3>4
  <2>20. FlattenSeq(p \o t) = FlattenSeq(p) \o FlattenSeq(t)
    BY <2>9, <2>13, FlatConcat DEF Lines
  <2>21. PICK u \in Seq(Events) : u = <<e>>
    <3>1. <<e>> \in Seq(Events)
      BY <2>6
    <3> QED
      BY <3>1
  <2>22. (ff \o (l \o u)) \o ft = (ff \o l) \o (u \o ft)
    <3>1. (ff \o l) \o u = ff \o (l \o u)
      BY <2>6, <2>16, <2>21, ConcatAssociative, SMTT(30)
    <3>2. ff \o l \in Seq(Events)
      BY <2>6, <2>16
    <3>3. ((ff \o l) \o u) \o ft = (ff \o l) \o (u \o ft)
      BY <2>16, <2>21, <3>2, ConcatAssociative, SMTT(30)
    <3> QED
      BY <3>1, <3>3
  <2> QED
    BY <2>11, <2>13, <2>14, <2>15, <2>17, <2>18, <2>19, <2>20, <2>21, <2>22
<1> QED
  BY <1>3, <1>4

LEMMA WriteToFlat ==
    ASSUME StoreInv, NEW s \in Stores, NEW events \in Seq(Events), WriteTo(s, events)
    PROVE  /\ disk' \in [Stores -> Lines] /\ unfinished' \subseteq Stores
           /\ FlattenSeq(disk'[s]) = FlattenSeq(disk[s]) \o events
           /\ \A z \in Stores \ {s} : disk'[z] = disk[z]
<1>1. PICK v : v = Appended(disk[s], events, s \in unfinished)
  OBVIOUS
<1>2. disk[s] \in Lines /\ (s \in unfinished) \in BOOLEAN
  BY DEF StoreInv
<1>3. v \in Lines /\ FlattenSeq(v) = FlattenSeq(disk[s]) \o events
  BY <1>1, <1>2, AppendedFlat
<1>4. disk' = [disk EXCEPT ![s] = v]
  BY <1>1 DEF WriteTo
<1>5. unfinished' \subseteq Stores
  BY DEF WriteTo, StoreInv
<1> QED
  BY <1>3, <1>4, <1>5 DEF StoreInv

LEMMA BufferedSplits ==
    ASSUME StoreInv, NEW events \in Seq(Events)
    PROVE  /\ Buffered(events).memory \in Seq(Events) /\ Buffered(events).flushed \in Seq(Events)
           /\ buffer \o events = Buffered(events).flushed \o Buffered(events).memory
           /\ Len(Buffered(events).memory) <= MemoryLimit
<1>1. PICK all : all = buffer \o events
  OBVIOUS
<1>2. all \in Seq(Events) /\ Len(all) \in Nat
  BY <1>1 DEF StoreInv
<1>3. PICK out : out = IF Len(all) = 0 THEN 0 ELSE ((Len(all) - 1) \div MemoryLimit) * MemoryLimit
  OBVIOUS
<1>4. out \in 0 .. Len(all) /\ Len(all) - out <= MemoryLimit
  <2>1. MemoryLimit \in Nat \ {0}
    BY TelemetryAssumption
  <2>2. CASE Len(all) = 0
    BY <1>3, <2>1, <2>2
  <2>3. CASE Len(all) # 0
    <3>1. PICK a \in Nat : a = Len(all) - 1
      BY <1>2, <2>3
    <3>2. PICK q : q = a \div MemoryLimit
      OBVIOUS
    <3>3. PICK b : b = a % MemoryLimit
      OBVIOUS
    <3>4. q \in Int /\ b \in 0 .. MemoryLimit - 1 /\ a = MemoryLimit * q + b
      BY <2>1, <3>1, <3>2, <3>3
    <3>5. q >= 0
      BY <2>1, <3>1, <3>4
    <3>6. out = MemoryLimit * q
      BY <1>3, <2>1, <2>3, <3>1, <3>2, <3>4
    <3>7. MemoryLimit * q >= 0
      BY <2>1, <3>4, <3>5
    <3> QED
      BY <1>2, <2>1, <3>1, <3>4, <3>6, <3>7
  <2> QED
    BY <2>2, <2>3
<1>5. Buffered(events) = [memory |-> SubSeq(all, out + 1, Len(all)), flushed |-> SubSeq(all, 1, out)]
  BY <1>1, <1>3 DEF Buffered
<1>6. /\ SubSeq(all, 1, out) \in Seq(Events) /\ SubSeq(all, out + 1, Len(all)) \in Seq(Events)
      /\ Len(SubSeq(all, out + 1, Len(all))) = Len(all) - out
      /\ all = SubSeq(all, 1, out) \o SubSeq(all, out + 1, Len(all))
  BY <1>2, <1>4, SplitAt
<1>7. Buffered(events).memory = SubSeq(all, out + 1, Len(all)) /\ Buffered(events).flushed = SubSeq(all, 1, out)
  <2>1. PICK x, y : x = SubSeq(all, out + 1, Len(all)) /\ y = SubSeq(all, 1, out)
    OBVIOUS
  <2>2. PICK r : r = [memory |-> x, flushed |-> y]
    OBVIOUS
  <2>3. r.memory = x /\ r.flushed = y
    BY <2>2
  <2>4. Buffered(events) = r
    BY <1>5, <2>1, <2>2
  <2> QED
    BY <2>1, <2>3, <2>4
<1> QED
  BY <1>1, <1>4, <1>6, <1>7

LEMMA AddNormalMoves ==
    ASSUME StoreInv, NEW events \in Seq(Events), AddNormal(events)
    PROVE  /\ disk' \in [Stores -> Lines] /\ unfinished' \subseteq Stores
           /\ buffer' \in Seq(Events)
           /\ disk'["crit"] = disk["crit"]
           /\ \E f \in Seq(Events) :
                 /\ buffer \o events = f \o buffer'
                 /\ FlattenSeq(disk'["normal"]) = FlattenSeq(disk["normal"]) \o f
<1>1. PICK f : f = Buffered(events).flushed
  OBVIOUS
<1>2. f \in Seq(Events) /\ buffer' \in Seq(Events) /\ buffer \o events = f \o buffer'
  BY <1>1, BufferedSplits DEF AddNormal
<1>3. "normal" \in Stores /\ "crit" \in Stores \ {"normal"}
  BY DEF Stores
<1>4. WriteTo("normal", f)
  BY <1>1 DEF AddNormal
<1>5. /\ disk' \in [Stores -> Lines] /\ unfinished' \subseteq Stores
      /\ FlattenSeq(disk'["normal"]) = FlattenSeq(disk["normal"]) \o f
      /\ \A z \in Stores \ {"normal"} : disk'[z] = disk[z]
  BY <1>2, <1>3, <1>4, WriteToFlat
<1> QED
  BY <1>2, <1>3, <1>5

LEMMA PostIsNat == ASSUME StoreInv PROVE MaxEventsPerPost \in Nat
<1>1. CASE SetConfigs = {}
  BY <1>1, TelemetryAssumption DEF MaxEventsPerPost
<1>2. CASE SetConfigs # {}
  <2>1. DOMAIN Configs \subseteq Nat
    BY TelemetryAssumption
  <2>2. SetConfigs \in SUBSET Nat
    BY <2>1 DEF SetConfigs
  <2>3. PICK k \in SetConfigs : \A j \in SetConfigs : k <= j
    BY <1>2, <2>2, LeastNat
  <2>4. Min(SetConfigs) \in SetConfigs
    BY <2>3 DEF Min
  <2>5. PICK m : m = Min(SetConfigs)
    OBVIOUS
  <2>6. m \in DOMAIN Configs /\ config[Configs[m]] # NoLimit
    BY <2>4, <2>5 DEF SetConfigs
  <2>7. Configs[m] \in Names
    BY <2>6 DEF Names, ToSet
  <2>8. config[Configs[m]] \in Limits
    BY <2>6, <2>7 DEF StoreInv, KnownLimits
  <2> QED
    BY <1>2, <2>5, <2>8, TelemetryAssumption DEF MaxEventsPerPost
<1> QED
  BY <1>1, <1>2
-----------------------------------------------------------------------------
(* Telemetry.  Every action keeps the events.                                *)

LEMMA StoreTypes ==
    ASSUME StoreInv
    PROVE  /\ "crit" \in Stores /\ "normal" \in Stores
           /\ disk["crit"] \in Lines /\ disk["normal"] \in Lines
           /\ FlattenSeq(disk["crit"]) \in Seq(Events) /\ FlattenSeq(disk["normal"]) \in Seq(Events)
           /\ FlattenSeq(sending) \in Seq(Events) /\ Flight \in Seq(Events)
<1>1. "crit" \in Stores /\ "normal" \in Stores
  BY DEF Stores
<1>2. disk["crit"] \in Lines /\ disk["normal"] \in Lines
  BY <1>1 DEF StoreInv
<1>3. FlattenSeq(disk["crit"]) \in Seq(Events) /\ FlattenSeq(disk["normal"]) \in Seq(Events)
  BY <1>2, FlatType DEF Lines
<1>4. FlattenSeq(sending) \in Seq(Events)
  BY FlatType DEF Lines, StoreInv
<1>5. <<>> \in Seq(Events)
  OBVIOUS
<1> QED
  BY <1>1, <1>2, <1>3, <1>4, <1>5 DEF Flight

LEMMA OneEvent ==
    ASSUME NEW e \in Events
    PROVE  <<e>> \in Seq(Events) /\ ToSet(<<e>>) = {e} /\ IsInjective(<<e>>)
<1>1. PICK u : u = <<e>>
  OBVIOUS
<1>2. u \in Seq(Events) /\ DOMAIN u = {1} /\ u[1] = e
  BY <1>1
<1> QED
  BY <1>1, <1>2 DEF ToSet, IsInjective

LEMMA LogKeeps ==
    ASSUME TelemetryInv, NEW e \in Events, Log(e)
    PROVE  TelemetryInv'
<1>1. PICK u : u = <<e>>
  OBVIOUS
<1>2. u \in Seq(Events) /\ ToSet(u) = {e} /\ IsInjective(u)
  BY <1>1, OneEvent
<1>3. /\ flush = "idle" /\ e \notin logged /\ logged' = logged \cup {e}
      /\ flush' = flush /\ sending' = sending /\ Gone' = Gone
      /\ config' = config /\ cached' = cached /\ cacheFile' = cacheFile
  BY DEF Log, configVars, Gone
<1>4. StoreInv /\ SendInv /\ KeptInv
  BY DEF TelemetryInv
<1>5. PICK c \in Seq(Events), n \in Seq(Events) : c = FlattenSeq(disk["crit"]) /\ n = FlattenSeq(disk["normal"])
  BY <1>4, StoreTypes
<1>6. Flight = <<>> /\ Flight' = <<>>
  BY <1>3 DEF Flight
<1>7. SendInv'
  BY <1>3, <1>4 DEF SendInv, Posting, Cutting
<1>8. e \notin Held
  BY <1>3, <1>4 DEF KeptInv
<1>9. CASE e \in Realtime /\ Len(realtime) < MemoryLimit
  <2>1. realtime' = Append(realtime, e) /\ buffer' = buffer /\ disk' = disk /\ unfinished' = unfinished
    BY <1>9 DEF Log, fileVars
  <2>2. realtime' \in Seq(Events) /\ realtime' = realtime \o u
    BY <1>1, <1>4, <2>1 DEF StoreInv
  <2>3. /\ ToSet(realtime') = ToSet(realtime) \cup ToSet(u)
        /\ IsInjective(realtime') <=> /\ IsInjective(realtime) /\ IsInjective(u)
                                      /\ ToSet(realtime) \cap ToSet(u) = {}
    BY <1>2, <1>4, <2>2, ConcatOnce DEF StoreInv
  <2>4. StoreInv'
    BY <1>3, <1>4, <2>1, <2>2 DEF StoreInv
  <2>5. KeptInv'
    BY <1>2, <1>3, <1>4, <1>6, <1>8, <2>1, <2>3 DEF KeptInv, Held, Apart
  <2> QED
    BY <1>7, <2>4, <2>5 DEF TelemetryInv
<1>10. CASE ~(e \in Realtime /\ Len(realtime) < MemoryLimit) /\ e \in Critical
  <2>1. WriteTo("crit", u) /\ buffer' = buffer /\ realtime' = realtime
    BY <1>1, <1>10 DEF Log
  <2>2. "crit" \in Stores /\ "normal" \in Stores \ {"crit"}
    BY DEF Stores
  <2>3. /\ disk' \in [Stores -> Lines] /\ unfinished' \subseteq Stores
        /\ FlattenSeq(disk'["crit"]) = FlattenSeq(disk["crit"]) \o u
        /\ \A z \in Stores \ {"crit"} : disk'[z] = disk[z]
    BY <1>2, <1>4, <2>1, <2>2, WriteToFlat
  <2>4. FlattenSeq(disk'["normal"]) = n
    BY <1>5, <2>2, <2>3
  <2>5. PICK x : x = FlattenSeq(disk'["crit"])
    OBVIOUS
  <2>6. x = c \o u
    BY <1>5, <2>3, <2>5
  <2>7. /\ ToSet(x) = ToSet(c) \cup ToSet(u)
        /\ IsInjective(x) <=> /\ IsInjective(c) /\ IsInjective(u) /\ ToSet(c) \cap ToSet(u) = {}
    BY <1>2, <1>5, <2>6, ConcatOnce
  <2>8. StoreInv'
    BY <1>3, <1>4, <2>1, <2>3 DEF StoreInv
  <2>9. KeptInv'
    BY <1>2, <1>3, <1>4, <1>5, <1>6, <1>8, <2>1, <2>4, <2>5, <2>7 DEF KeptInv, Held, Apart
  <2> QED
    BY <1>7, <2>8, <2>9 DEF TelemetryInv
<1>11. CASE ~(e \in Realtime /\ Len(realtime) < MemoryLimit) /\ e \notin Critical
  <2>1. AddNormal(u) /\ realtime' = realtime
    BY <1>1, <1>11 DEF Log
  <2>2. /\ disk' \in [Stores -> Lines] /\ unfinished' \subseteq Stores
        /\ buffer' \in Seq(Events)
        /\ disk'["crit"] = disk["crit"]
        /\ \E f \in Seq(Events) :
              /\ buffer \o u = f \o buffer'
              /\ FlattenSeq(disk'["normal"]) = FlattenSeq(disk["normal"]) \o f
    BY <1>2, <1>4, <2>1, AddNormalMoves
  <2>3. PICK f \in Seq(Events) : /\ buffer \o u = f \o buffer'
                                 /\ FlattenSeq(disk'["normal"]) = FlattenSeq(disk["normal"]) \o f
    BY <2>2
  <2>4. PICK x : x = FlattenSeq(disk'["normal"])
    OBVIOUS
  <2>5. x = n \o f
    BY <1>5, <2>3, <2>4
  <2>6. /\ ToSet(x) = ToSet(n) \cup ToSet(f)
        /\ IsInjective(x) <=> /\ IsInjective(n) /\ IsInjective(f) /\ ToSet(n) \cap ToSet(f) = {}
    BY <1>5, <2>5, ConcatOnce
  <2>7. /\ ToSet(buffer \o u) = ToSet(buffer) \cup ToSet(u)
        /\ IsInjective(buffer \o u) <=> /\ IsInjective(buffer) /\ IsInjective(u)
                                        /\ ToSet(buffer) \cap ToSet(u) = {}
    BY <1>2, <1>4, ConcatOnce DEF StoreInv
  <2>8. /\ ToSet(f \o buffer') = ToSet(f) \cup ToSet(buffer')
        /\ IsInjective(f \o buffer') <=> /\ IsInjective(f) /\ IsInjective(buffer')
                                         /\ ToSet(f) \cap ToSet(buffer') = {}
    BY <2>2, ConcatOnce
  <2>9. StoreInv'
    BY <1>3, <1>4, <2>1, <2>2 DEF StoreInv
  <2>10. FlattenSeq(disk'["crit"]) = c
    BY <1>5, <2>2
  <2>11. KeptInv'
    BY <1>2, <1>3, <1>4, <1>5, <1>6, <1>8, <2>1, <2>3, <2>4, <2>6, <2>7, <2>8, <2>10 DEF KeptInv, Held, Apart
  <2> QED
    BY <1>7, <2>9, <2>11 DEF TelemetryInv
<1> QED
  BY <1>9, <1>10, <1>11

LEMMA WakeKeeps ==
    ASSUME TelemetryInv, Wake
    PROVE  TelemetryInv'
<1>1. StoreInv /\ SendInv /\ KeptInv
  BY DEF TelemetryInv
<1>2. /\ flush = "idle" /\ realtime' = <<>>
      /\ sending' = [k \in DOMAIN realtime |-> <<realtime[k]>>]
      /\ flush' = IF realtime = <<>> THEN "config" ELSE "realtime"
      /\ buffer' = buffer /\ disk' = disk /\ unfinished' = unfinished
      /\ config' = config /\ cached' = cached /\ cacheFile' = cacheFile
      /\ logged' = logged /\ Gone' = Gone
  BY DEF Wake, fileVars, configVars, historyVars, Goto, Gone
<1>3. PICK s : s = sending'
  OBVIOUS
<1>4. s \in Lines /\ Len(s) = Len(realtime) /\ FlattenSeq(s) = realtime
  BY <1>1, <1>2, <1>3, FlatSingles DEF StoreInv, Lines
<1>5. Flight = <<>>
  BY <1>2 DEF Flight
<1>6. Flight' = realtime
  <2>1. CASE realtime = <<>>
    BY <1>2, <2>1 DEF Flight
  <2>2. CASE realtime # <<>>
    BY <1>2, <1>3, <1>4, <2>2 DEF Flight
  <2> QED
    BY <2>1, <2>2
<1>7. StoreInv'
  BY <1>1, <1>2, <1>3, <1>4 DEF StoreInv, Places
<1>8. SendInv'
  <2>1. realtime = <<>> => s = <<>>
    BY <1>4 DEF Lines
  <2> QED
    BY <1>2, <1>3, <2>1 DEF SendInv, Posting, Cutting
<1>9. ToSet(<<>>) = {} /\ IsInjective(<<>>)
  BY DEF ToSet, IsInjective
<1>10. KeptInv'
  BY <1>1, <1>2, <1>5, <1>6, <1>9 DEF KeptInv, Held, Apart
<1> QED
  BY <1>7, <1>8, <1>10 DEF TelemetryInv

\* Whatever the server does with the lines, the events they hold are Gone or stay.
LEMMA PostedMoves ==
    ASSUME NEW ok \in BOOLEAN, Posted(ok)
    PROVE  /\ logged' = logged
           /\ Gone' = Gone \/ Gone' = Gone \cup ToSet(FlattenSeq(sending))
           /\ ok => Gone' = Gone \cup ToSet(FlattenSeq(sending))
<1>1. Alone(sending) \subseteq InLines(sending) /\ InLines(sending) = ToSet(FlattenSeq(sending))
  BY DEF Alone, InLines
<1>2. logged' = logged /\ lost' = lost /\ torn' = torn
  BY DEF Posted
<1>3. CASE /\ delivered' = delivered \cup Alone(sending)
           /\ joined' = joined \cup (InLines(sending) \ Alone(sending))
  BY <1>1, <1>2, <1>3 DEF Gone
<1>4. CASE ~ok /\ UNCHANGED <<delivered, joined>>
  BY <1>2, <1>4 DEF Gone
<1> QED
  BY <1>3, <1>4 DEF Posted

LEMMA UploadRealtimeKeeps ==
    ASSUME TelemetryInv, UploadRealtime
    PROVE  TelemetryInv'
<1>1. StoreInv /\ SendInv /\ KeptInv
  BY DEF TelemetryInv
<1>2. /\ flush = "realtime" /\ flush' = "config" /\ sending' = <<>> /\ realtime' = realtime
      /\ config' = config /\ cached' = cached /\ cacheFile' = cacheFile
      /\ logged' = logged
      /\ Gone' = Gone \/ Gone' = Gone \cup ToSet(FlattenSeq(sending))
  BY PostedMoves DEF UploadRealtime, configVars, Goto
<1>3. PICK m \in Seq(Events) : m = FlattenSeq(sending)
  BY <1>1, StoreTypes
<1>4. Flight = m /\ Flight' = <<>>
  BY <1>2, <1>3 DEF Flight
<1>5. PICK c \in Seq(Events), n \in Seq(Events) : c = FlattenSeq(disk["crit"]) /\ n = FlattenSeq(disk["normal"])
  BY <1>1, StoreTypes
<1>6. ToSet(<<>>) = {} /\ IsInjective(<<>>) /\ <<>> \in Lines
  BY DEF ToSet, IsInjective, Lines
<1>7. SendInv'
  BY <1>2 DEF SendInv, Posting, Cutting
<1>8. CASE Posted(TRUE) /\ UNCHANGED buffer /\ UNCHANGED fileVars
  <2>1. Gone' = Gone \cup ToSet(m) /\ buffer' = buffer /\ disk' = disk /\ unfinished' = unfinished
    BY <1>3, <1>8, PostedMoves DEF fileVars
  <2>2. StoreInv'
    BY <1>1, <1>2, <1>6, <2>1 DEF StoreInv, Places
  <2>3. KeptInv'
    BY <1>1, <1>2, <1>4, <1>6, <2>1 DEF KeptInv, Held, Apart
  <2> QED
    BY <1>7, <2>2, <2>3 DEF TelemetryInv
<1>9. CASE Posted(FALSE) /\ AddNormal(Keep(sending))
  <2>1. AddNormal(m)
    BY <1>3, <1>9 DEF Keep
  <2>2. /\ disk' \in [Stores -> Lines] /\ unfinished' \subseteq Stores
        /\ buffer' \in Seq(Events)
        /\ disk'["crit"] = disk["crit"]
        /\ \E f \in Seq(Events) :
              /\ buffer \o m = f \o buffer'
              /\ FlattenSeq(disk'["normal"]) = FlattenSeq(disk["normal"]) \o f
    BY <1>1, <2>1, AddNormalMoves
  <2>3. PICK f \in Seq(Events) : /\ buffer \o m = f \o buffer'
                                 /\ FlattenSeq(disk'["normal"]) = FlattenSeq(disk["normal"]) \o f
    BY <2>2
  <2>4. PICK x : x = FlattenSeq(disk'["normal"])
    OBVIOUS
  <2>5. x = n \o f
    BY <1>5, <2>3, <2>4
  <2>6. /\ ToSet(x) = ToSet(n) \cup ToSet(f)
        /\ IsInjective(x) <=> /\ IsInjective(n) /\ IsInjective(f) /\ ToSet(n) \cap ToSet(f) = {}
    BY <1>5, <2>5, ConcatOnce
  <2>7. /\ ToSet(buffer \o m) = ToSet(buffer) \cup ToSet(m)
        /\ IsInjective(buffer \o m) <=> /\ IsInjective(buffer) /\ IsInjective(m)
                                        /\ ToSet(buffer) \cap ToSet(m) = {}
    BY <1>1, ConcatOnce DEF StoreInv
  <2>8. /\ ToSet(f \o buffer') = ToSet(f) \cup ToSet(buffer')
        /\ IsInjective(f \o buffer') <=> /\ IsInjective(f) /\ IsInjective(buffer')
                                         /\ ToSet(f) \cap ToSet(buffer') = {}
    BY <2>2, ConcatOnce
  <2>9. StoreInv'
    BY <1>1, <1>2, <1>6, <2>2 DEF StoreInv, Places
  <2>10. FlattenSeq(disk'["crit"]) = c
    BY <1>5, <2>2
  <2>11. KeptInv'
    BY <1>1, <1>2, <1>4, <1>5, <1>6, <2>3, <2>4, <2>6, <2>7, <2>8, <2>10 DEF KeptInv, Held, Apart
  <2> QED
    BY <1>7, <2>9, <2>11 DEF TelemetryInv
<1> QED
  BY <1>8, <1>9 DEF UploadRealtime
LEMMA DownloadConfigsKeeps ==
    ASSUME TelemetryInv, DownloadConfigs
    PROVE  TelemetryInv'
<1>1. StoreInv /\ SendInv /\ KeptInv
  BY DEF TelemetryInv
<1>2. /\ flush = "config" /\ flush' = "crit" /\ sending' = sending
      /\ realtime' = realtime /\ buffer' = buffer /\ disk' = disk /\ unfinished' = unfinished
      /\ cached' = cached /\ logged' = logged /\ Gone' = Gone
  BY DEF DownloadConfigs, fileVars, historyVars, Goto, Gone
<1>3. PICK got \in KnownLimits :
          /\ config' = [c \in Names |-> IF got[c] = NoLimit THEN config[c] ELSE got[c]]
          /\ cacheFile' = CacheWith(SelectSeq(Configs, LAMBDA c : got[c] # NoLimit), got)
  BY DEF DownloadConfigs, KnownLimits
<1>4. config' \in KnownLimits
  BY <1>1, <1>3 DEF KnownLimits, StoreInv
<1>5. PICK fetched : cacheFile' = CacheWith(fetched, got)
  BY <1>3
<1>6. cacheFile' \in KnownLimits
  <2>1. PICK d : d = Last(fetched)
    OBVIOUS
  <2>2. cacheFile' = cacheFile \/ cacheFile' = [cached EXCEPT ![d] = got[d]]
    BY <1>5, <2>1 DEF CacheWith
  <2>3. d \in Names => got[d] \in {NoLimit} \cup Limits
    BY <1>3 DEF KnownLimits
  <2>4. [cached EXCEPT ![d] = got[d]] \in KnownLimits
    BY <1>1, <2>3 DEF KnownLimits, StoreInv
  <2> QED
    BY <1>1, <2>2, <2>4 DEF StoreInv
<1>7. Flight = <<>> /\ Flight' = <<>>
  BY <1>2 DEF Flight
<1>8. StoreInv'
  BY <1>1, <1>2, <1>4, <1>6 DEF StoreInv, Places
<1>9. SendInv'
  BY <1>1, <1>2 DEF SendInv, Posting, Cutting
<1>10. KeptInv'
  BY <1>1, <1>2, <1>7 DEF KeptInv, Held
<1> QED
  BY <1>8, <1>9, <1>10 DEF TelemetryInv

LEMMA TakeKeeps ==
    ASSUME TelemetryInv, NEW s \in Stores, Take(s)
    PROVE  TelemetryInv'
<1>1. StoreInv /\ SendInv /\ KeptInv
  BY DEF TelemetryInv
<1>2. PICK v : v = Stored(s)
  OBVIOUS
<1>3. /\ flush = s /\ disk' = [disk EXCEPT ![s] = v] /\ realtime' = realtime
      /\ config' = config /\ cached' = cached /\ cacheFile' = cacheFile
      /\ logged' = logged /\ Gone' = Gone
  BY <1>2 DEF Take, configVars, historyVars, Gone
<1>4. "crit" \in Stores /\ "normal" \in Stores /\ s \in {"crit", "normal"}
  BY DEF Stores
<1>5. /\ s = "crit" => v = disk[s]
      /\ s = "normal" => v = Appended(disk[s], buffer, s \in unfinished)
  BY <1>2, <1>4 DEF Stored
<1>6. disk[s] \in Lines /\ (s \in unfinished) \in BOOLEAN /\ buffer \in Seq(Events)
  BY <1>1 DEF StoreInv
<1>7. /\ v \in Lines
      /\ s = "normal" => FlattenSeq(v) = FlattenSeq(disk[s]) \o buffer
  BY <1>4, <1>5, <1>6, AppendedFlat
<1>8. /\ s = "crit" => buffer' = buffer
      /\ s = "normal" => buffer' = <<>>
      /\ unfinished' \subseteq Stores
  BY <1>1, <1>4 DEF Take, StoreInv
<1>9. sending = <<>> /\ Flight = <<>>
  BY <1>1, <1>3, <1>4 DEF SendInv, Flight
<1>10. /\ sending' \in Lines
       /\ flush' \in {"idle", "crit", "normal", "critSent", "normalSent"}
       /\ flush' \in {"idle", "crit", "normal"} => sending' = <<>>
       /\ flush' \in {"critSent", "normalSent"} => flush' = Posting(s) /\ Begins(sending', v)
  <2>1. CASE v = <<>>
    <3>1. sending' = sending /\ flush' \in {s, After(s)}
      BY <1>2, <2>1 DEF Take, Goto
    <3>2. <<>> \in Lines
      BY DEF Lines
    <3> QED
      BY <1>4, <1>9, <3>1, <3>2 DEF After
  <2>2. CASE v # <<>>
    <3>1. PICK k : k = Least(MaxEventsPerPost, Len(v))
      OBVIOUS
    <3>2. Len(v) \in Nat
      BY <1>7 DEF Lines
    <3>3. k \in 0 .. Len(v)
      BY <1>1, <3>1, <3>2, PostIsNat DEF Least
    <3>4. sending' = SubSeq(v, 1, k) /\ flush' = Posting(s)
      BY <1>2, <2>2, <3>1 DEF Take, Goto
    <3>5. SubSeq(v, 1, k) \in Lines /\ Len(SubSeq(v, 1, k)) = k
      BY <1>7, <3>3, SplitAt DEF Lines
    <3>6. Begins(sending', v)
      BY <3>2, <3>3, <3>4, <3>5 DEF Begins
    <3>7. flush' \in {"critSent", "normalSent"}
      BY <1>4, <3>4 DEF Posting
    <3> QED
      BY <3>4, <3>5, <3>6, <3>7
  <2> QED
    BY <2>1, <2>2
<1>11. disk' \in [Stores -> Lines] /\ disk'[s] = v /\ \A z \in Stores \ {s} : disk'[z] = disk[z]
  BY <1>1, <1>3, <1>7 DEF StoreInv
<1>12. StoreInv'
  <2>1. <<>> \in Seq(Events)
    OBVIOUS
  <2> QED
    BY <1>1, <1>3, <1>4, <1>8, <1>10, <1>11, <2>1 DEF StoreInv, Places
<1>13. SendInv'
  <2>1. flush' \in {"idle", "config", "crit", "normal"} => sending' = <<>>
    BY <1>10
  <2>2. ASSUME NEW z \in Stores, flush' = Posting(z) PROVE Begins(sending', disk'[z])
    <3>1. flush' \in {"critSent", "normalSent"} /\ z \in {"crit", "normal"}
      BY <2>2 DEF Posting, Stores
    <3>2. flush' = Posting(s)
      BY <1>10, <3>1
    <3>3. z = s
      BY <1>4, <2>2, <3>1, <3>2 DEF Posting
    <3> QED
      BY <1>10, <1>11, <3>1, <3>3
  <2>3. ASSUME NEW z \in Stores PROVE flush' # Cutting(z)
    BY <1>10 DEF Cutting, Stores
  <2> QED
    BY <2>1, <2>2, <2>3 DEF SendInv
<1>14. Flight' = <<>>
  BY <1>10 DEF Flight
<1>15. ToSet(<<>>) = {} /\ IsInjective(<<>>)
  BY DEF ToSet, IsInjective
<1>16. CASE s = "crit"
  <2>1. buffer' = buffer /\ disk'["crit"] = disk["crit"] /\ disk'["normal"] = disk["normal"]
    BY <1>4, <1>5, <1>8, <1>11, <1>16
  <2>2. KeptInv'
    BY <1>1, <1>3, <1>9, <1>14, <2>1 DEF KeptInv, Held
  <2> QED
    BY <1>12, <1>13, <2>2 DEF TelemetryInv
<1>17. CASE s = "normal"
  <2>1. buffer' = <<>> /\ disk'["crit"] = disk["crit"] /\ disk'["normal"] = v
    BY <1>4, <1>8, <1>11, <1>17
  <2>2. PICK n \in Seq(Events) : n = FlattenSeq(disk["normal"])
    BY <1>1, StoreTypes
  <2>3. PICK x : x = FlattenSeq(disk'["normal"])
    OBVIOUS
  <2>4. x = n \o buffer
    BY <1>7, <1>17, <2>1, <2>2, <2>3
  <2>5. /\ ToSet(x) = ToSet(n) \cup ToSet(buffer)
        /\ IsInjective(x) <=> /\ IsInjective(n) /\ IsInjective(buffer)
                              /\ ToSet(n) \cap ToSet(buffer) = {}
    BY <1>6, <2>2, <2>4, ConcatOnce
  <2>6. KeptInv'
    BY <1>1, <1>3, <1>9, <1>14, <1>15, <2>1, <2>2, <2>3, <2>5 DEF KeptInv, Held, Apart
  <2> QED
    BY <1>12, <1>13, <2>6 DEF TelemetryInv
<1> QED
  BY <1>4, <1>16, <1>17

\* The lines behind those that were posted.
LEMMA RemainingSplits ==
    ASSUME TelemetryInv, NEW s \in Stores, flush = Posting(s)
    PROVE  /\ Remaining(s) \in Lines
           /\ FlattenSeq(disk[s]) = FlattenSeq(sending) \o FlattenSeq(Remaining(s))
<1>1. StoreInv /\ SendInv
  BY DEF TelemetryInv
<1>2. PICK d \in Lines : d = disk[s]
  BY <1>1 DEF StoreInv
<1>3. PICK k : k = Len(sending)
  OBVIOUS
<1>4. k <= Len(d) /\ sending = SubSeq(d, 1, k) /\ k \in Nat
  BY <1>1, <1>2, <1>3 DEF SendInv, Begins, StoreInv, Lines
<1>5. PICK v : v = Remaining(s)
  OBVIOUS
<1>6. v = SubSeq(d, k + 1, Len(d))
  BY <1>2, <1>3, <1>5 DEF Remaining
<1>7. k \in 0 .. Len(d)
  BY <1>2, <1>4 DEF Lines
<1>8. sending \in Lines /\ v \in Lines /\ d = sending \o v
  BY <1>2, <1>4, <1>6, <1>7, SplitAt DEF Lines
<1>9. FlattenSeq(d) = FlattenSeq(sending) \o FlattenSeq(v)
  BY <1>8, FlatConcat DEF Lines
<1> QED
  BY <1>2, <1>5, <1>8, <1>9

\* The posted lines go, and the rest of the file is where it was or in Flight.
LEMMA PostedLeave ==
    ASSUME TelemetryInv, NEW s \in Stores, flush = Posting(s),
           Gone' = Gone \cup ToSet(FlattenSeq(sending)),
           realtime' = realtime, buffer' = buffer, logged' = logged,
           disk' = [disk EXCEPT ![s] = <<>>], Flight' = FlattenSeq(Remaining(s))
    PROVE  KeptInv'
<1>1. StoreInv /\ KeptInv
  BY DEF TelemetryInv
<1>2. "crit" \in Stores /\ "normal" \in Stores /\ s \in {"crit", "normal"}
  BY DEF Stores
<1>3. Flight = <<>>
  BY <1>2 DEF Flight, Posting
<1>4. PICK x \in Seq(Events), y \in Seq(Events), z \in Seq(Events) :
          x = FlattenSeq(sending) /\ y = FlattenSeq(Remaining(s)) /\ z = FlattenSeq(disk[s])
  BY <1>1, RemainingSplits, FlatType DEF StoreInv, Lines
<1>5. z = x \o y
  BY <1>4, RemainingSplits
<1>6. /\ ToSet(z) = ToSet(x) \cup ToSet(y)
      /\ IsInjective(z) <=> /\ IsInjective(x) /\ IsInjective(y)
                            /\ ToSet(x) \cap ToSet(y) = {}
  BY <1>4, <1>5, ConcatOnce
<1>7. disk'[s] = <<>> /\ \A w \in Stores \ {s} : disk'[w] = disk[w]
  BY <1>1 DEF StoreInv
<1>8. ToSet(<<>>) = {} /\ IsInjective(<<>>)
  BY DEF ToSet, IsInjective
<1>9. CASE s = "crit"
  <2>1. /\ FlattenSeq(disk["crit"]) = z /\ FlattenSeq(disk'["crit"]) = <<>>
        /\ disk'["normal"] = disk["normal"]
    BY <1>2, <1>4, <1>7, <1>9, FlatEmpty
  <2> QED
    BY <1>1, <1>3, <1>4, <1>6, <1>8, <2>1 DEF KeptInv, Held, Apart
<1>10. CASE s = "normal"
  <2>1. /\ FlattenSeq(disk["normal"]) = z /\ FlattenSeq(disk'["normal"]) = <<>>
        /\ disk'["crit"] = disk["crit"]
    BY <1>2, <1>4, <1>7, <1>10, FlatEmpty
  <2> QED
    BY <1>1, <1>3, <1>4, <1>6, <1>8, <2>1 DEF KeptInv, Held, Apart
<1> QED
  BY <1>2, <1>9, <1>10

LEMMA UploadKeeps ==
    ASSUME TelemetryInv, NEW s \in Stores, Upload(s)
    PROVE  TelemetryInv'
<1>1. StoreInv /\ SendInv /\ KeptInv
  BY DEF TelemetryInv
<1>2. /\ flush = Posting(s) /\ realtime' = realtime /\ buffer' = buffer
      /\ config' = config /\ cached' = cached /\ cacheFile' = cacheFile
      /\ logged' = logged
      /\ Gone' = Gone \/ Gone' = Gone \cup ToSet(FlattenSeq(sending))
  BY PostedMoves DEF Upload, configVars
<1>3. "crit" \in Stores /\ "normal" \in Stores /\ s \in {"crit", "normal"}
  BY DEF Stores
<1>4. Flight = <<>>
  BY <1>2, <1>3 DEF Flight, Posting
<1>5. <<>> \in Lines /\ disk[s] \in Lines
  BY <1>1 DEF Lines, StoreInv
<1>6. [disk EXCEPT ![s] = <<>>] \in [Stores -> Lines]
  BY <1>1, <1>5 DEF StoreInv
<1>7. CASE Posted(TRUE) /\ Remaining(s) = <<>> /\ disk' = [disk EXCEPT ![s] = <<>>]
           /\ unfinished' = unfinished \ {s} /\ sending' = <<>> /\ flush' = After(s)
  <2>1. flush' \in {"idle", "normal"}
    BY <1>7 DEF After
  <2>2. StoreInv'
    BY <1>1, <1>2, <1>5, <1>6, <1>7, <2>1 DEF StoreInv, Places
  <2>3. SendInv'
    BY <1>7, <2>1 DEF SendInv, Posting, Cutting
  <2>4. Flight' = FlattenSeq(Remaining(s))
    BY <1>7, <2>1, FlatEmpty DEF Flight
  <2>5. KeptInv'
    BY <1>2, <1>7, <2>4, PostedMoves, PostedLeave
  <2> QED
    BY <2>2, <2>3, <2>5 DEF TelemetryInv
<1>8. CASE Posted(TRUE) /\ disk' = [disk EXCEPT ![s] = <<>>]
           /\ unfinished' = unfinished /\ sending' = Remaining(s) /\ flush' = Cutting(s)
  <2>1. flush' \in {"critCut", "normalCut"}
    BY <1>8 DEF Cutting
  <2>2. Remaining(s) \in Lines
    BY <1>2, RemainingSplits
  <2>3. StoreInv'
    BY <1>1, <1>2, <1>6, <1>8, <2>1, <2>2 DEF StoreInv, Places
  <2>4. SendInv'
    <3>1. disk'[s] = <<>>
      BY <1>1, <1>8 DEF StoreInv
    <3>2. \A z \in Stores : flush' # Posting(z) /\ (flush' = Cutting(z) => z = s)
      BY <1>3, <1>8 DEF Posting, Cutting, Stores
    <3>3. flush' \notin {"idle", "config", "crit", "normal"}
      BY <2>1
    <3> QED
      BY <3>1, <3>2, <3>3 DEF SendInv
  <2>5. Flight' = FlattenSeq(Remaining(s))
    BY <1>8, <2>1 DEF Flight
  <2>6. KeptInv'
    BY <1>2, <1>8, <2>5, PostedMoves, PostedLeave
  <2> QED
    BY <2>3, <2>4, <2>6 DEF TelemetryInv
<1>9. CASE sending' = <<>> /\ flush' \in {s, After(s)} /\ UNCHANGED fileVars
           /\ (Gone' = Gone \/ (sending = <<>> /\ Gone' = Gone \cup ToSet(FlattenSeq(sending)))
               \/ Posted(FALSE))
  <2>1. flush' \in {"idle", "crit", "normal"} /\ disk' = disk /\ unfinished' = unfinished
    BY <1>3, <1>9 DEF After, fileVars
  <2>2. Flight' = <<>>
    BY <2>1 DEF Flight
  <2>3. StoreInv'
    BY <1>1, <1>2, <1>5, <1>9, <2>1 DEF StoreInv, Places
  <2>4. SendInv'
    BY <1>9, <2>1 DEF SendInv, Posting, Cutting
  <2>5. Held' = Held
    BY <1>2, <1>4, <2>1, <2>2 DEF Held
  <2>6. Gone \subseteq Gone'
    BY <1>2
  <2>7. Apart(realtime, buffer, FlattenSeq(disk["crit"]), FlattenSeq(disk["normal"]), Flight)'
    BY <1>1, <1>2, <1>4, <2>1, <2>2 DEF KeptInv, Apart
  <2>8. KeptInv'
    BY <1>1, <1>2, <2>5, <2>6, <2>7 DEF KeptInv
  <2> QED
    BY <2>3, <2>4, <2>8 DEF TelemetryInv
<1>10. \/ Posted(TRUE) /\ Remaining(s) = <<>> /\ disk' = [disk EXCEPT ![s] = <<>>]
             /\ unfinished' = unfinished \ {s} /\ sending' = <<>> /\ flush' = After(s)
       \/ Posted(TRUE) /\ disk' = [disk EXCEPT ![s] = <<>>]
             /\ unfinished' = unfinished /\ sending' = Remaining(s) /\ flush' = Cutting(s)
       \/ Posted(TRUE) /\ sending = <<>> /\ sending' = <<>> /\ flush' = s /\ UNCHANGED fileVars
       \/ Posted(FALSE) /\ sending' = <<>> /\ flush' = After(s) /\ UNCHANGED fileVars
  BY DEF Upload, Goto, GiveUp
<1> QED
  BY <1>7, <1>8, <1>9, <1>10, PostedMoves

LEMMA RewriteKeeps ==
    ASSUME TelemetryInv, NEW s \in Stores, Rewrite(s)
    PROVE  TelemetryInv'
<1>1. StoreInv /\ SendInv /\ KeptInv
  BY DEF TelemetryInv
<1>2. /\ flush = Cutting(s) /\ flush' = s /\ disk' = [disk EXCEPT ![s] = sending] /\ sending' = <<>>
      /\ unfinished' = unfinished \cup {s} /\ realtime' = realtime /\ buffer' = buffer
      /\ config' = config /\ cached' = cached /\ cacheFile' = cacheFile
      /\ logged' = logged /\ Gone' = Gone
  BY DEF Rewrite, Goto, configVars, historyVars, Gone
<1>3. "crit" \in Stores /\ "normal" \in Stores /\ s \in {"crit", "normal"}
  BY DEF Stores
<1>4. Flight = FlattenSeq(sending) /\ Flight' = <<>>
  BY <1>2, <1>3 DEF Flight, Cutting
<1>5. disk[s] = <<>> /\ disk'[s] = sending /\ \A z \in Stores \ {s} : disk'[z] = disk[z]
  BY <1>1, <1>2 DEF SendInv, StoreInv
<1>6. <<>> \in Lines /\ ToSet(<<>>) = {} /\ IsInjective(<<>>)
  BY DEF Lines, ToSet, IsInjective
<1>7. disk' \in [Stores -> Lines]
  BY <1>1, <1>2 DEF StoreInv
<1>8. StoreInv'
  BY <1>1, <1>2, <1>3, <1>6, <1>7 DEF StoreInv, Places
<1>9. SendInv'
  BY <1>2, <1>3 DEF SendInv, Posting, Cutting
<1>10. PICK x : x = FlattenSeq(sending)
  OBVIOUS
<1>11. KeptInv'
  <2>1. CASE s = "crit"
    <3>1. /\ FlattenSeq(disk["crit"]) = <<>> /\ FlattenSeq(disk'["crit"]) = x
          /\ disk'["normal"] = disk["normal"] /\ Flight = x
      BY <1>3, <1>4, <1>5, <1>10, <2>1, FlatEmpty
    <3> QED
      BY <1>1, <1>2, <1>4, <1>6, <3>1 DEF KeptInv, Held, Apart
  <2>2. CASE s = "normal"
    <3>1. /\ FlattenSeq(disk["normal"]) = <<>> /\ FlattenSeq(disk'["normal"]) = x
          /\ disk'["crit"] = disk["crit"] /\ Flight = x
      BY <1>3, <1>4, <1>5, <1>10, <2>2, FlatEmpty
    <3> QED
      BY <1>1, <1>2, <1>4, <1>6, <3>1 DEF KeptInv, Held, Apart
  <2> QED
    BY <1>3, <2>1, <2>2
<1> QED
  BY <1>8, <1>9, <1>11 DEF TelemetryInv

LEMMA CrashKeeps ==
    ASSUME TelemetryInv, Crash
    PROVE  TelemetryInv'
<1>1. StoreInv /\ SendInv /\ KeptInv
  BY DEF TelemetryInv
<1>2. /\ realtime' = <<>> /\ buffer' = <<>> /\ flush' = "idle" /\ sending' = <<>>
      /\ cached' = cacheFile /\ config' = cacheFile /\ cacheFile' = cacheFile
      /\ disk' = disk /\ unfinished' = unfinished /\ logged' = logged
      /\ delivered' = delivered /\ joined' = joined
  BY DEF Crash, fileVars
<1>3. Flight' = <<>>
  BY <1>2 DEF Flight
<1>4. ToSet(<<>>) = {} /\ IsInjective(<<>>) /\ <<>> \in Lines /\ <<>> \in Seq(Events)
  BY DEF ToSet, IsInjective, Lines
<1>5. Gone \cup ToSet(realtime) \cup ToSet(buffer) \cup ToSet(Flight) \subseteq Gone'
  <2>1. /\ lost' = lost \cup ToSet(realtime) \cup ToSet(buffer)
                   \cup IF flush = "realtime" THEN InLines(sending) ELSE {}
        /\ torn' = torn \cup IF flush \in {"critCut", "normalCut"} THEN InLines(sending) ELSE {}
    BY DEF Crash
  <2>2. InLines(sending) = ToSet(FlattenSeq(sending))
    BY DEF InLines
  <2>3. CASE flush = "realtime"
    BY <1>2, <2>1, <2>2, <2>3 DEF Flight, Gone
  <2>4. CASE flush \in {"critCut", "normalCut"}
    BY <1>2, <2>1, <2>2, <2>4 DEF Flight, Gone
  <2>5. CASE flush \notin {"realtime", "critCut", "normalCut"}
    BY <1>2, <1>4, <2>1, <2>5 DEF Flight, Gone
  <2> QED
    BY <2>3, <2>4, <2>5
<1>6. StoreInv'
  BY <1>1, <1>2, <1>4 DEF StoreInv, Places
<1>7. SendInv'
  BY <1>2 DEF SendInv, Posting, Cutting
<1>8. KeptInv'
  <2>1. Held' \subseteq Held
    BY <1>2, <1>3, <1>4 DEF Held
  <2>2. Held \cup Gone \subseteq Held' \cup Gone'
    BY <1>2, <1>5 DEF Held
  <2>3. Apart(realtime, buffer, FlattenSeq(disk["crit"]), FlattenSeq(disk["normal"]), Flight)'
    BY <1>1, <1>2, <1>3, <1>4 DEF KeptInv, Apart
  <2> QED
    BY <1>1, <1>2, <2>1, <2>2, <2>3 DEF KeptInv
<1> QED
  BY <1>6, <1>7, <1>8 DEF TelemetryInv

LEMMA TelemetryStarts == TelemetryInit => TelemetryInv
<1> SUFFICES ASSUME TelemetryInit PROVE TelemetryInv
  OBVIOUS
<1>1. ToSet(<<>>) = {} /\ IsInjective(<<>>) /\ <<>> \in Lines /\ <<>> \in Seq(Events)
  BY DEF ToSet, IsInjective, Lines
<1>2. /\ realtime = <<>> /\ buffer = <<>> /\ sending = <<>> /\ flush = "idle" /\ logged = {}
      /\ disk["crit"] = <<>> /\ disk["normal"] = <<>>
  BY DEF TelemetryInit, Stores
<1>3. StoreInv
  BY <1>1 DEF TelemetryInit, StoreInv, Places, KnownLimits
<1>4. SendInv
  BY <1>2 DEF SendInv, Posting, Cutting
<1>5. KeptInv
  BY <1>1, <1>2, FlatEmpty DEF KeptInv, Held, Apart, Flight
<1> QED
  BY <1>3, <1>4, <1>5 DEF TelemetryInv

LEMMA TelemetryKeeps == TelemetryInv /\ [TelemetryNext]_telemetryVars => TelemetryInv'
<1> SUFFICES ASSUME TelemetryInv, [TelemetryNext]_telemetryVars PROVE TelemetryInv'
  OBVIOUS
<1>1. CASE Wake
  BY <1>1, WakeKeeps
<1>2. CASE UploadRealtime
  BY <1>2, UploadRealtimeKeeps
<1>3. CASE DownloadConfigs
  BY <1>3, DownloadConfigsKeeps
<1>4. ASSUME NEW s \in Stores, Take(s) PROVE TelemetryInv'
  BY <1>4, TakeKeeps
<1>5. ASSUME NEW s \in Stores, Upload(s) PROVE TelemetryInv'
  BY <1>5, UploadKeeps
<1>9. ASSUME NEW s \in Stores, Rewrite(s) PROVE TelemetryInv'
  BY <1>9, RewriteKeeps
<1>6. CASE Crash
  BY <1>6, CrashKeeps
<1>7. ASSUME NEW e \in Events, Log(e) PROVE TelemetryInv'
  BY <1>7, LogKeeps
<1>8. CASE UNCHANGED telemetryVars
  BY <1>8 DEF TelemetryInv, StoreInv, SendInv, KeptInv, Held, Gone, Flight, telemetryVars, fileVars,
     configVars, historyVars
<1> QED
  BY <1>1, <1>2, <1>3, <1>4, <1>5, <1>6, <1>7, <1>8, <1>9 DEF TelemetryNext, FlushStep

LEMMA TelemetryKept == TelemetryInv => EventsKept
<1> SUFFICES ASSUME TelemetryInv PROVE EventsKept
  OBVIOUS
<1>1. StoreInv /\ KeptInv
  BY DEF TelemetryInv
<1>2. StoredOnce
  <2>1. /\ FlattenSeq(disk["crit"]) \in Seq(Events) /\ FlattenSeq(disk["normal"]) \in Seq(Events)
        /\ Flight \in Seq(Events) /\ realtime \in Seq(Events) /\ buffer \in Seq(Events)
    BY <1>1, StoreTypes DEF StoreInv
  <2>2. IsInjective(realtime \o buffer \o FlattenSeq(disk["crit"]) \o FlattenSeq(disk["normal"]) \o Flight)
    BY <1>1, <2>1, OnceIsApart DEF KeptInv
  <2> QED
    BY <2>2 DEF StoredOnce, Flight
<1>3. NoEventLost
  <2>1. ToSet(<<>>) = {}
    BY DEF ToSet
  <2>2. ToSet(Flight) \subseteq InLines(sending)
    BY <2>1 DEF Flight, InLines
  <2>3. /\ ToSet(FlattenSeq(disk["crit"])) \subseteq UNION {InLines(disk[s]) : s \in Stores}
        /\ ToSet(FlattenSeq(disk["normal"])) \subseteq UNION {InLines(disk[s]) : s \in Stores}
    BY DEF InLines, Stores
  <2> QED
    BY <1>1, <2>2, <2>3 DEF KeptInv, Held, Gone, NoEventLost
<1> QED
  BY <1>2, <1>3 DEF EventsKept

\* No event that was logged is lost but to a kill, while it was in memory or
\* its file was being rewritten, and none is kept twice: batches, buffers, files
\* and failed posts of cll-telemetry for any events, limits and configurations.
THEOREM EventsStayKept == TelemetrySpec => []EventsKept
<1>1. TelemetryInit => TelemetryInv
  BY TelemetryStarts
<1>2. TelemetryInv /\ [TelemetryNext]_telemetryVars => TelemetryInv'
  BY TelemetryKeeps
<1>3. TelemetryInv => EventsKept
  BY TelemetryKept
<1> QED
  BY <1>1, <1>2, <1>3, PTL DEF TelemetrySpec
=============================================================================
