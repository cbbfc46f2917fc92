---------------------------- MODULE ClientProofs ----------------------------
(***************************************************************************)
(* Theorems about the input that comes from the desktop: the looper with   *)
(* its queue of events, the callbacks of the window, the text that is      *)
(* edited and the gamepads, for any threads, mods, events, fingers, sizes, *)
(* characters and devices.                                                 *)
(***************************************************************************)
EXTENDS Gamepads, Looper, WindowInput, TextInput,
        SequenceTheorems, FiniteSetTheorems, WellFoundedInduction, TLAPS

-----------------------------------------------------------------------------
(* The looper.  The inductive invariant.                                     *)

KindSet == {"key", "motion"}
Entries == [valid : BOOLEAN, ready : BOOLEAN]
Loopers == [phase : {"none", "window", "prepared", "gone"}, android : Entries, input : Entries,
            text : BOOLEAN, last : {Nowhere, "android", "input", "timeout"}]
Rings == [cap : Nat, at : Nat, head : Nat, events : Seq(Nat), added : Nat]

\* The mods register once, with the callbacks of a looper that was prepared.
TokenInv ==
    /\ looper \in [LooperThreads -> Loopers]
    /\ handle \in LooperThreads \cup {Nowhere}
    /\ onCreated \in Seq(Mods)
    /\ registered \in [LooperThreads -> Seq(Mods)] /\ asked \in [LooperThreads -> Seq(Mods)]
    /\ TokenLives
    /\ \A t \in LooperThreads :
          IF looper[t].phase \in {"none", "window"} THEN registered[t] = <<>> ELSE registered[t] = asked[t]

\* What was taken and what waits are the numbers of the events, in order.
InOrder(r, done) ==
    /\ r \in Rings /\ done \in Seq(Nat)
    /\ r.cap >= 2 /\ r.head < r.cap
    /\ Len(done) + Len(r.events) = r.added
    /\ \A i \in 1 .. Len(done) : done[i] = i
    /\ \A j \in 1 .. Len(r.events) : r.events[j] = Len(done) + j

\* A pointer into the buffer of a queue of kind k is to a buffer it has or had,
\* and if it is to the front, the front is an event the game has seen.
Points(p, k, r, seen) ==
    p # Nowhere /\ p[1] = k =>
        /\ p[2] \in Nat /\ p[3] \in Nat
        /\ p[2] <= r.at /\ (p[2] = r.at => p[3] < r.cap)
        /\ p[2] = r.at /\ p[3] = r.head => r.events # <<>> /\ r.events[1] \in seen

QueueInv ==
    /\ rings \in [LooperThreads -> [KindSet -> Rings]]
    /\ taken \in [LooperThreads -> [KindSet -> Seq(Nat)]]
    /\ sawEvents \in [LooperThreads -> [KindSet -> SUBSET Nat]]
    /\ DOMAIN handed = LooperThreads
    /\ \A t \in LooperThreads, k \in KindSet :
          /\ InOrder(rings[t][k], taken[t][k])
          /\ \A i \in 1 .. Len(taken[t][k]) : taken[t][k][i] \in sawEvents[t][k]
          /\ Points(handed[t].at, k, rings[t][k], sawEvents[t][k])

LooperInv == TokenInv /\ QueueInv

-----------------------------------------------------------------------------
(* The looper.  What a queue's operations do.                                *)

LEMMA KindsAre == ToSet(Kinds) = KindSet
<1>1. Kinds = <<"key", "motion">> /\ DOMAIN Kinds = {1, 2}
  BY DEF Kinds
<1>2. Kinds[1] = "key" /\ Kinds[2] = "motion"
  BY <1>1
<1> QED
  BY <1>1, <1>2 DEF ToSet, KindSet

LEMMA AfterHead ==
    ASSUME NEW h \in Nat, NEW c \in Nat, c >= 2, h < c
    PROVE  (h + 1) % c = IF h + 1 < c THEN h + 1 ELSE 0
OBVIOUS

\* A full buffer doubles.
LEMMA GrowKeeps ==
    ASSUME NEW r \in Rings, NEW done, InOrder(r, done), NEW moves \in 0 .. 1, Len(r.events) = r.cap,
           NEW q, q = Grown(r, moves)
    PROVE  /\ InOrder(q, done) /\ q.events = r.events /\ q.added = r.added
           /\ \A p, k, seen : Points(p, k, r, seen) => Points(p, k, q, seen)
<1>1. /\ r.cap \in Nat /\ r.at \in Nat /\ r.head \in Nat /\ r.events \in Seq(Nat) /\ r.added \in Nat
      /\ r.cap >= 2 /\ r.head < r.cap
  BY DEF Rings, InOrder
<1>2. PICK head : head = IF r.head = 0 \/ r.cap - r.head > r.head THEN r.head ELSE 2 * r.cap - (r.cap - r.head)
  OBVIOUS
<1>3. head \in Nat /\ head < 2 * r.cap /\ (head = r.head \/ head >= r.cap)
  <2>1. CASE r.head = 0 \/ r.cap - r.head > r.head
    <3>1. head = r.head
      BY <1>2, <2>1
    <3> QED
      BY <1>1, <3>1
  <2>2. CASE ~(r.head = 0 \/ r.cap - r.head > r.head)
    <3>1. head = 2 * r.cap - (r.cap - r.head)
      BY <1>2, <2>2
    <3>2. head = r.cap + r.head
      BY <1>1, <3>1
    <3> QED
      BY <1>1, <3>2
  <2> QED
    BY <2>1, <2>2
<1>4. q = [r EXCEPT !.cap = 2 * r.cap, !.at = r.at + moves, !.head = head]
  <2>1. r = [cap |-> r.cap, at |-> r.at, head |-> r.head, events |-> r.events, added |-> r.added]
    BY DEF Rings
  <2>2. q = [r EXCEPT !.cap = 2 * r.cap, !.at = r.at + moves,
                      !.head = IF r.head = 0 \/ r.cap - r.head > r.head THEN r.head ELSE 2 * r.cap - (r.cap - r.head)]
    BY <2>1 DEF Grown
  <2> QED
    BY <1>2, <2>2
<1>5. /\ q \in Rings /\ q.cap = 2 * r.cap /\ q.at = r.at + moves /\ q.head = head
      /\ q.events = r.events /\ q.added = r.added
  <2>1. PICK c, a : c = 2 * r.cap /\ a = r.at + moves
    OBVIOUS
  <2>2. moves \in Nat /\ c \in Nat /\ a \in Nat
    BY <1>1, <2>1
  <2>3. q = [r EXCEPT !.cap = c, !.at = a, !.head = head]
    BY <1>4, <2>1
  <2>4. /\ q \in Rings /\ q.cap = c /\ q.at = a /\ q.head = head
        /\ q.events = r.events /\ q.added = r.added
    <3> HIDE <2>1
    <3> QED
      BY <1>3, <2>2, <2>3 DEF Rings
  <2> QED
    BY <2>1, <2>4
<1>6. InOrder(q, done)
  <2>1. q.cap >= 2 /\ q.head < q.cap
    BY <1>1, <1>3, <1>5
  <2> QED
    BY <1>5, <2>1 DEF InOrder
<1>7. ASSUME NEW p, NEW k, NEW seen, Points(p, k, r, seen) PROVE Points(p, k, q, seen)
  <2> SUFFICES ASSUME p # Nowhere, p[1] = k
               PROVE  /\ p[2] \in Nat /\ p[3] \in Nat
                      /\ p[2] <= q.at /\ (p[2] = q.at => p[3] < q.cap)
                      /\ p[2] = q.at /\ p[3] = q.head => q.events # <<>> /\ q.events[1] \in seen
    BY DEF Points
  <2>1. /\ p[2] \in Nat /\ p[3] \in Nat
        /\ p[2] <= r.at /\ (p[2] = r.at => p[3] < r.cap)
        /\ p[2] = r.at /\ p[3] = r.head => r.events # <<>> /\ r.events[1] \in seen
    BY <1>7 DEF Points
  <2>2. p[2] <= q.at /\ (p[2] = q.at => p[3] < q.cap)
    <3>1. PICK a, b : a = p[2] /\ b = p[3]
      OBVIOUS
    <3>2. PICK mine, cap : mine = r.at /\ cap = r.cap
      OBVIOUS
    <3>3. a \in Nat /\ b \in Nat /\ mine \in Nat /\ cap \in Nat /\ a <= mine /\ (a = mine => b < cap)
      BY <1>1, <2>1, <3>1, <3>2
    <3>4. moves = 0 \/ moves = 1
      OBVIOUS
    <3>5. a <= mine + moves /\ (a = mine + moves => b < 2 * cap)
      BY <3>3, <3>4
    <3> QED
      BY <1>5, <3>1, <3>2, <3>5
  <2>3. p[2] = q.at /\ p[3] = q.head => p[2] = r.at /\ p[3] = r.head
    <3> SUFFICES ASSUME p[2] = q.at, p[3] = q.head PROVE p[2] = r.at /\ p[3] = r.head
      OBVIOUS
    <3>1. moves = 0 \/ moves = 1
      OBVIOUS
    <3>2. p[2] = r.at
      BY <1>1, <1>5, <2>1, <3>1
    <3>3. ~(p[3] >= r.cap)
      BY <1>1, <2>1, <3>2
    <3> QED
      BY <1>3, <1>5, <3>2, <3>3
  <2> QED
    BY <1>5, <2>1, <2>2, <2>3
<1> QED
  BY <1>5, <1>6, <1>7

LEMMA PushKeeps ==
    ASSUME NEW r \in Rings, NEW done, InOrder(r, done), NEW moves \in 0 .. 1, NEW q, q = Pushed(r, moves)
    PROVE  InOrder(q, done) /\ \A p, k, seen : Points(p, k, r, seen) => Points(p, k, q, seen)
<1>1. PICK room : room = IF Len(r.events) = r.cap THEN Grown(r, moves) ELSE r
  OBVIOUS
<1>2. /\ InOrder(room, done) /\ room.events = r.events /\ room.added = r.added
      /\ \A p, k, seen : Points(p, k, r, seen) => Points(p, k, room, seen)
  BY <1>1, GrowKeeps
<1>3. /\ room \in Rings /\ room.events \in Seq(Nat) /\ room.added \in Nat /\ Len(room.events) \in Nat
      /\ done \in Seq(Nat) /\ Len(done) \in Nat /\ Len(done) + Len(room.events) = room.added
  BY <1>2, LenProperties DEF InOrder, Rings
<1>4. PICK longer : longer = Append(room.events, r.added + 1)
  OBVIOUS
<1>5. /\ longer \in Seq(Nat) /\ Len(longer) = Len(room.events) + 1 /\ longer[Len(room.events) + 1] = room.added + 1
      /\ \A j \in 1 .. Len(room.events) : longer[j] = room.events[j]
  BY <1>2, <1>3, <1>4, AppendProperties
<1>6. q = [room EXCEPT !.events = longer, !.added = room.added + 1]
  <2>1. q = [room EXCEPT !.events = Append(room.events, r.added + 1), !.added = room.added + 1]
    <3>1. room = [cap |-> room.cap, at |-> room.at, head |-> room.head, events |-> room.events, added |-> room.added]
      BY <1>3 DEF Rings
    <3> QED
      BY <1>1, <3>1 DEF Pushed
  <2> QED
    BY <1>4, <2>1
<1>7. /\ q \in Rings /\ q.events = longer /\ q.added = room.added + 1
      /\ q.cap = room.cap /\ q.at = room.at /\ q.head = room.head
  <2>1. PICK n : n = room.added + 1
    OBVIOUS
  <2>2. n \in Nat
    BY <1>3, <2>1
  <2>3. q = [room EXCEPT !.events = longer, !.added = n]
    BY <1>6, <2>1
  <2>4. /\ q \in Rings /\ q.events = longer /\ q.added = n
        /\ q.cap = room.cap /\ q.at = room.at /\ q.head = room.head
    BY <1>3, <1>5, <2>2, <2>3 DEF Rings
  <2> QED
    BY <2>1, <2>4
<1>8. InOrder(q, done)
  <2>1. \A j \in 1 .. Len(longer) : longer[j] = Len(done) + j
    <3> SUFFICES ASSUME NEW j \in 1 .. Len(longer) PROVE longer[j] = Len(done) + j
      OBVIOUS
    <3>1. CASE j = Len(room.events) + 1
      BY <1>3, <1>5, <3>1
    <3>2. CASE j # Len(room.events) + 1
      <4>1. j \in 1 .. Len(room.events)
        BY <1>3, <1>5, <3>2
      <4> QED
        BY <1>2, <1>5, <4>1 DEF InOrder
    <3> QED
      BY <3>1, <3>2
  <2>2. Len(done) + Len(longer) = q.added
    BY <1>3, <1>5, <1>7
  <2>3. room.cap >= 2 /\ room.head < room.cap /\ \A i \in 1 .. Len(done) : done[i] = i
    BY <1>2 DEF InOrder
  <2> QED
    BY <1>3, <1>7, <2>1, <2>2, <2>3 DEF InOrder
<1>9. ASSUME NEW p, NEW k, NEW seen, Points(p, k, r, seen) PROVE Points(p, k, q, seen)
  <2>1. Points(p, k, room, seen)
    BY <1>2, <1>9
  <2>2. room.events # <<>> => longer # <<>> /\ longer[1] = room.events[1]
    <3>1. room.events # <<>> => Len(room.events) # 0
      BY <1>3, EmptySeq
    <3>2. Len(longer) # 0
      BY <1>3, <1>5
    <3>3. longer # <<>>
      BY <3>2
    <3> QED
      BY <1>3, <1>5, <3>1, <3>3
  <2> QED
    BY <1>7, <2>1, <2>2 DEF Points
<1> QED
  BY <1>8, <1>9

\* The front goes, and the pointer that led to it leads past the queue.
LEMMA PopKeeps ==
    ASSUME NEW r \in Rings, NEW done, InOrder(r, done), r.events # <<>>, NEW q, q = Popped(r)
    PROVE  /\ Head(r.events) = r.events[1] /\ InOrder(q, Append(done, Head(r.events)))
           /\ \A p, k, seen : Points(p, k, r, seen) /\ p[1] = k /\ p[2] = r.at /\ p[3] = r.head => Points(p, k, q, seen)
<1>1. /\ r.cap \in Nat /\ r.at \in Nat /\ r.head \in Nat /\ r.events \in Seq(Nat) /\ r.added \in Nat
      /\ r.cap >= 2 /\ r.head < r.cap /\ done \in Seq(Nat) /\ Len(done) \in Nat /\ Len(r.events) \in Nat
      /\ Len(done) + Len(r.events) = r.added
  BY LenProperties DEF Rings, InOrder
<1>2. PICK rest : rest = Tail(r.events)
  OBVIOUS
<1>3. /\ rest \in Seq(Nat) /\ Len(rest) = Len(r.events) - 1 /\ Head(r.events) = r.events[1]
      /\ \A j \in 1 .. Len(rest) : rest[j] = r.events[j + 1]
  BY <1>1, <1>2, HeadTailProperties
<1>4. Len(r.events) >= 1
  BY <1>1, EmptySeq
<1>5. r.events[1] = Len(done) + 1
  BY <1>1, <1>4 DEF InOrder
<1>6. PICK head : head = (r.head + 1) % r.cap
  OBVIOUS
<1>7. head \in Nat /\ head < r.cap /\ head # r.head
  <2>1. PICK h, c : h = r.head /\ c = r.cap
    OBVIOUS
  <2>2. h \in Nat /\ c \in Nat /\ c >= 2 /\ h < c /\ head = (h + 1) % c
    BY <1>1, <1>6, <2>1
  <2>3. head = IF h + 1 < c THEN h + 1 ELSE 0
    <3> HIDE <2>1
    <3> QED
      BY <2>2, AfterHead
  <2>4. head \in Nat /\ head < c /\ head # h
    BY <2>2, <2>3
  <2> QED
    BY <2>1, <2>4
<1>8. q = [r EXCEPT !.events = rest, !.head = head]
  BY <1>1, <1>2, <1>6 DEF Popped, Rings
<1>9. /\ q \in Rings /\ q.events = rest /\ q.head = head /\ q.cap = r.cap /\ q.at = r.at /\ q.added = r.added
  BY <1>1, <1>3, <1>7, <1>8 DEF Rings
<1>10. PICK more : more = Append(done, Len(done) + 1)
  OBVIOUS
<1>11. /\ more \in Seq(Nat) /\ Len(more) = Len(done) + 1 /\ more[Len(done) + 1] = Len(done) + 1
       /\ \A i \in 1 .. Len(done) : more[i] = done[i]
  BY <1>1, <1>10, AppendProperties
<1>12. InOrder(q, more)
  <2>1. ASSUME NEW i \in 1 .. Len(more) PROVE more[i] = i
    <3>1. CASE i = Len(done) + 1
      BY <1>11, <3>1
    <3>2. CASE i # Len(done) + 1
      <4>1. i \in 1 .. Len(done)
        BY <1>1, <1>11, <3>2
      <4> QED
        BY <1>11, <4>1 DEF InOrder
    <3> QED
      BY <3>1, <3>2
  <2>2. ASSUME NEW j \in 1 .. Len(rest) PROVE rest[j] = Len(more) + j
    <3>1. j + 1 \in 1 .. Len(r.events)
      BY <1>1, <1>3
    <3>2. r.events[j + 1] = Len(done) + (j + 1)
      BY <3>1 DEF InOrder
    <3> QED
      BY <1>1, <1>3, <1>11, <3>2
  <2>3. Len(more) + Len(rest) = q.added
    <3>1. q.added \in Nat /\ Len(rest) \in Int /\ Len(more) \in Int /\ r.added = q.added
      BY <1>1, <1>3, <1>9, <1>11
    <3> QED
      <4>1. PICK a, b, c, d : a = Len(done) /\ b = Len(r.events) /\ c = Len(more) /\ d = Len(rest)
        OBVIOUS
      <4>2. a \in Nat /\ b \in Nat /\ c = a + 1 /\ d = b - 1 /\ a + b = q.added
        BY <1>1, <1>3, <1>11, <3>1, <4>1
      <4>3. c + d = a + b
        BY <4>2
      <4> QED
        BY <4>1, <4>2, <4>3
  <2> QED
    BY <1>1, <1>7, <1>9, <1>11, <2>1, <2>2, <2>3 DEF InOrder
<1>13. Append(done, Head(r.events)) = more
  BY <1>3, <1>5, <1>10
<1>14. ASSUME NEW p, NEW k, NEW seen, Points(p, k, r, seen), p[1] = k, p[2] = r.at, p[3] = r.head
       PROVE  Points(p, k, q, seen)
  BY <1>7, <1>9, <1>14 DEF Points
<1> QED
  BY <1>3, <1>12, <1>13, <1>14
-----------------------------------------------------------------------------
(* The looper.  Every step keeps the invariant.                              *)

tokenVars == <<looper, windowFrom, support, handle, onCreated, registered, asked>>

LEMMA QueueUntouched ==
    ASSUME QueueInv, UNCHANGED queueVars
    PROVE  QueueInv'
<1>1. rings' = rings /\ handed' = handed /\ sawEvents' = sawEvents /\ taken' = taken
  BY DEF queueVars
<1> QED
  BY <1>1 DEF QueueInv

LEMMA TokenUntouched ==
    ASSUME TokenInv, UNCHANGED tokenVars
    PROVE  TokenInv'
<1>1. looper' = looper /\ handle' = handle /\ onCreated' = onCreated /\ registered' = registered /\ asked' = asked
  BY DEF tokenVars
<1> QED
  BY <1>1 DEF TokenInv, TokenLives

\* A step of a looper that stays in its phase and leaves the callbacks alone.
LEMMA PhaseKept ==
    ASSUME TokenInv, NEW t \in LooperThreads, NEW l \in Loopers, l.phase = looper[t].phase,
           looper' = [looper EXCEPT ![t] = l],
           UNCHANGED <<handle, onCreated, registered, asked>>
    PROVE  TokenInv'
<1>1. looper' \in [LooperThreads -> Loopers] /\ \A u \in LooperThreads : looper'[u].phase = looper[u].phase
  BY DEF TokenInv
<1> QED
  BY <1>1 DEF TokenInv, TokenLives

LEMMA CreationKeeps ==
    ASSUME TokenInv, NEW m \in Mods, AddCreationCallback(m)
    PROVE  TokenInv'
<1>1. onCreated' \in Seq(Mods)
  BY AppendProperties DEF AddCreationCallback, TokenInv
<1> QED
  BY <1>1 DEF AddCreationCallback, TokenInv, TokenLives

LEMMA PrepareKeeps ==
    ASSUME TokenInv, NEW t \in LooperThreads, Prepare(t)
    PROVE  TokenInv'
<1>1. looper[t] \in Loopers /\ looper[t].phase = "none"
  BY DEF TokenInv, Prepare
<1>2. PICK l : l = [looper[t] EXCEPT !.phase = "window"]
  OBVIOUS
<1>3. l \in Loopers /\ l.phase = "window"
  BY <1>1, <1>2 DEF Loopers
<1>4. looper' = [looper EXCEPT ![t] = l]
  BY <1>2 DEF Prepare, TokenInv
<1>5. /\ looper' \in [LooperThreads -> Loopers] /\ looper'[t].phase = "window"
      /\ \A u \in LooperThreads : u # t => looper'[u] = looper[u]
  BY <1>3, <1>4 DEF TokenInv
<1>6. handle' = handle /\ onCreated' = onCreated /\ registered' = registered /\ asked' = asked
  BY DEF Prepare
<1>7. handle # t
  BY <1>1, LooperAssumption DEF TokenInv, TokenLives, Nowhere
<1>8. TokenLives'
  BY <1>5, <1>6, <1>7 DEF TokenInv, TokenLives
<1>9. \A u \in LooperThreads : IF looper'[u].phase \in {"none", "window"} THEN registered'[u] = <<>>
                                ELSE registered'[u] = asked'[u]
  BY <1>1, <1>5, <1>6 DEF TokenInv
<1> QED
  BY <1>5, <1>6, <1>8, <1>9 DEF TokenInv

LEMMA PrepareCallbacksKeeps ==
    ASSUME TokenInv, NEW t \in LooperThreads, PrepareCallbacks(t)
    PROVE  TokenInv'
<1>1. looper[t] \in Loopers /\ looper[t].phase = "window" /\ registered[t] = <<>>
  BY DEF TokenInv, PrepareCallbacks
<1>2. PICK l : l = [looper[t] EXCEPT !.phase = "prepared"]
  OBVIOUS
<1>3. l \in Loopers /\ l.phase = "prepared"
  BY <1>1, <1>2 DEF Loopers
<1>4. looper' = [looper EXCEPT ![t] = l]
  BY <1>2 DEF PrepareCallbacks, TokenInv
<1>5. /\ looper' \in [LooperThreads -> Loopers] /\ looper'[t].phase = "prepared"
      /\ \A u \in LooperThreads : u # t => looper'[u] = looper[u]
  BY <1>3, <1>4 DEF TokenInv
<1>6. t # Nowhere
  BY LooperAssumption DEF Nowhere
<1>7. handle' = t /\ registered' = [registered EXCEPT ![t] = registered[t] \o onCreated]
  BY <1>6 DEF PrepareCallbacks, SetCallbacks
<1>8. onCreated' = onCreated /\ asked' = [asked EXCEPT ![t] = onCreated]
  BY DEF PrepareCallbacks
<1>9. registered[t] \o onCreated = onCreated
  <2>1. onCreated \in Seq(Mods)
    BY DEF TokenInv
  <2>2. <<>> \o onCreated = onCreated
    BY <2>1, ConcatEmptySeq
  <2> QED
    BY <1>1, <2>2
<1>10. registered' = [registered EXCEPT ![t] = onCreated]
  BY <1>7, <1>9
<1>11. \A u \in LooperThreads : IF looper'[u].phase \in {"none", "window"} THEN registered'[u] = <<>>
                                 ELSE registered'[u] = asked'[u]
  BY <1>5, <1>8, <1>10 DEF TokenInv
<1>12. TokenLives'
  BY <1>5, <1>7 DEF TokenLives
<1> QED
  BY <1>5, <1>7, <1>8, <1>10, <1>11, <1>12 DEF TokenInv

LEMMA GoneKeeps ==
    ASSUME TokenInv, NEW t \in LooperThreads, LooperGone(t)
    PROVE  TokenInv'
<1>1. looper[t] \in Loopers /\ looper[t].phase = "prepared"
  BY DEF TokenInv, LooperGone
<1>2. PICK l : l = [looper[t] EXCEPT !.phase = "gone"]
  OBVIOUS
<1>3. l \in Loopers /\ l.phase = "gone"
  BY <1>1, <1>2 DEF Loopers
<1>4. looper' = [looper EXCEPT ![t] = l]
  BY <1>2 DEF LooperGone, TokenInv
<1>5. /\ looper' \in [LooperThreads -> Loopers] /\ looper'[t].phase = "gone"
      /\ \A u \in LooperThreads : u # t => looper'[u] = looper[u]
  BY <1>3, <1>4 DEF TokenInv
<1>6. handle' = Nowhere /\ registered' = registered /\ onCreated' = onCreated /\ asked' = asked
  BY DEF LooperGone, SetCallbacks
<1>7. \A u \in LooperThreads : IF looper'[u].phase \in {"none", "window"} THEN registered'[u] = <<>>
                                ELSE registered'[u] = asked'[u]
  BY <1>1, <1>5, <1>6 DEF TokenInv
<1> QED
  BY <1>5, <1>6, <1>7 DEF TokenInv, TokenLives

LEMMA AddFdKeeps ==
    ASSUME TokenInv, NEW t \in LooperThreads, AddFd(t)
    PROVE  TokenInv'
<1>1. looper[t] \in Loopers
  BY DEF TokenInv
<1>2. PICK l : l = [looper[t] EXCEPT !.android = [valid |-> TRUE, ready |-> FALSE]]
  OBVIOUS
<1>3. l \in Loopers /\ l.phase = looper[t].phase
  BY <1>1, <1>2 DEF Loopers, Entries
<1>4. looper' = [looper EXCEPT ![t] = l]
  BY <1>2 DEF AddFd, TokenInv
<1>5. UNCHANGED <<handle, onCreated, registered, asked>>
  BY DEF AddFd
<1> QED
  BY <1>3, <1>4, <1>5, PhaseKept

LEMMA AttachKeeps ==
    ASSUME TokenInv, NEW t \in LooperThreads, AttachInputQueue(t)
    PROVE  TokenInv'
<1>1. looper[t] \in Loopers
  BY DEF TokenInv
<1>2. PICK l : l = [looper[t] EXCEPT !.input = [valid |-> TRUE, ready |-> TRUE]]
  OBVIOUS
<1>3. l \in Loopers /\ l.phase = looper[t].phase
  BY <1>1, <1>2 DEF Loopers, Entries
<1>4. looper' = [looper EXCEPT ![t] = l]
  BY <1>2 DEF AttachInputQueue, TokenInv
<1>5. UNCHANGED <<handle, onCreated, registered, asked>>
  BY DEF AttachInputQueue
<1> QED
  BY <1>3, <1>4, <1>5, PhaseKept

LEMMA ReadyKeeps ==
    ASSUME TokenInv, NEW t \in LooperThreads, NEW r \in BOOLEAN, DescriptorReady(t, r)
    PROVE  TokenInv'
<1>1. looper[t] \in Loopers /\ looper[t].android \in Entries
  BY DEF TokenInv, Loopers
<1>2. PICK a : a = [looper[t].android EXCEPT !.ready = r]
  OBVIOUS
<1>3. a \in Entries
  BY <1>1, <1>2 DEF Entries
<1>4. PICK l : l = [looper[t] EXCEPT !.android = a]
  OBVIOUS
<1>5. l \in Loopers /\ l.phase = looper[t].phase
  BY <1>1, <1>3, <1>4 DEF Loopers
<1>6. looper' = [looper EXCEPT ![t] = l]
  BY <1>1, <1>2, <1>4 DEF DescriptorReady, TokenInv, Loopers
<1>7. UNCHANGED <<handle, onCreated, registered, asked>>
  BY DEF DescriptorReady
<1> QED
  BY <1>5, <1>6, <1>7, PhaseKept

LEMMA PollKeeps ==
    ASSUME TokenInv, NEW t \in LooperThreads, NEW asks \in BOOLEAN, PollAll(t, asks)
    PROVE  TokenInv'
<1>1. looper[t] \in Loopers
  BY DEF TokenInv
<1>2. PICK last : last = IF looper[t].android.ready THEN "android"
                         ELSE IF looper[t].input.valid /\ HasEvents(t) THEN "input" ELSE "timeout"
  OBVIOUS
<1>3. last \in {Nowhere, "android", "input", "timeout"}
  BY <1>2
<1>4. PICK l : l = [looper[t] EXCEPT !.text = asks, !.last = last]
  OBVIOUS
<1>5. l \in Loopers /\ l.phase = looper[t].phase
  BY <1>1, <1>3, <1>4 DEF Loopers
<1>6. looper' = [looper EXCEPT ![t] = l]
  BY <1>1, <1>2, <1>4 DEF PollAll, TokenInv, Loopers
<1>7. UNCHANGED <<handle, onCreated, registered, asked>>
  BY DEF PollAll
<1> QED
  BY <1>5, <1>6, <1>7, PhaseKept

LEMMA StartupKeeps ==
    ASSUME TokenInv, NEW made \in BOOLEAN, Startup(made)
    PROVE  TokenInv'
BY DEF TokenInv, TokenLives, Startup

-----------------------------------------------------------------------------
(* The looper.  The queue.                                                   *)

\* A step that puts one queue in place of another.
LEMMA QueueStep ==
    ASSUME QueueInv, NEW t \in LooperThreads, NEW k \in KindSet, NEW q, NEW done,
           rings' = [rings EXCEPT ![t] = [rings[t] EXCEPT ![k] = q]],
           taken' = [taken EXCEPT ![t] = [taken[t] EXCEPT ![k] = done]],
           handed' = handed, sawEvents' = sawEvents,
           InOrder(q, done), \A i \in 1 .. Len(done) : done[i] \in sawEvents[t][k],
           Points(handed[t].at, k, q, sawEvents[t][k])
    PROVE  QueueInv'
<1>1. q \in Rings /\ done \in Seq(Nat)
  BY DEF InOrder
<1>2. rings[t] \in [KindSet -> Rings] /\ taken[t] \in [KindSet -> Seq(Nat)]
  BY DEF QueueInv
<1>3. /\ rings' \in [LooperThreads -> [KindSet -> Rings]]
      /\ \A u \in LooperThreads, j \in KindSet : rings'[u][j] = IF u = t /\ j = k THEN q ELSE rings[u][j]
  BY <1>1, <1>2 DEF QueueInv
<1>4. /\ taken' \in [LooperThreads -> [KindSet -> Seq(Nat)]]
      /\ \A u \in LooperThreads, j \in KindSet : taken'[u][j] = IF u = t /\ j = k THEN done ELSE taken[u][j]
  <2> DEFINE N == Seq(Nat)
  <2>1. done \in N /\ taken[t] \in [KindSet -> N] /\ taken \in [LooperThreads -> [KindSet -> N]]
    BY <1>1, <1>2 DEF QueueInv
  <2> HIDE DEF N
  <2>2. /\ taken' \in [LooperThreads -> [KindSet -> N]]
        /\ \A u \in LooperThreads, j \in KindSet : taken'[u][j] = IF u = t /\ j = k THEN done ELSE taken[u][j]
    BY <2>1
  <2> QED
    BY <2>2 DEF N
<1>5. ASSUME NEW u \in LooperThreads, NEW j \in KindSet
      PROVE  /\ InOrder(rings'[u][j], taken'[u][j])
             /\ \A i \in 1 .. Len(taken'[u][j]) : taken'[u][j][i] \in sawEvents[u][j]
             /\ Points(handed[u].at, j, rings'[u][j], sawEvents[u][j])
  <2>1. CASE u = t /\ j = k
    <3>1. rings'[u][j] = q /\ taken'[u][j] = done
      BY <1>3, <1>4, <2>1
    <3> QED
      BY <2>1, <3>1
  <2>2. CASE ~(u = t /\ j = k)
    <3>1. rings'[u][j] = rings[u][j] /\ taken'[u][j] = taken[u][j]
      BY <1>3, <1>4, <2>2
    <3> QED
      BY <3>1 DEF QueueInv
  <2> QED
    BY <2>1, <2>2
<1> QED
  BY <1>3, <1>4, <1>5 DEF QueueInv

LEMMA AddEventKeeps ==
    ASSUME QueueInv, NEW t \in LooperThreads, NEW k \in KindSet, NEW moves \in 0 .. 1, AddEvent(t, k, moves)
    PROVE  QueueInv'
<1>1. PICK r, done, q : r = rings[t][k] /\ done = taken[t][k] /\ q = Pushed(r, moves)
  OBVIOUS
<1>2. r \in Rings
  BY <1>1 DEF QueueInv
<1>3. InOrder(r, done) /\ Points(handed[t].at, k, r, sawEvents[t][k])
  BY <1>1 DEF QueueInv
<1>4. q = Pushed(r, moves)
  BY <1>1
<1>5. InOrder(q, done) /\ \A p, j, seen : Points(p, j, r, seen) => Points(p, j, q, seen)
  BY <1>2, <1>3, <1>4, PushKeeps
<1>6. Points(handed[t].at, k, q, sawEvents[t][k])
  BY <1>3, <1>5
<1>7. \A i \in 1 .. Len(done) : done[i] \in sawEvents[t][k]
  BY <1>1 DEF QueueInv
<1>8. rings' = [rings EXCEPT ![t] = [rings[t] EXCEPT ![k] = q]]
  BY <1>1 DEF AddEvent, QueueInv
<1>9. taken' = [taken EXCEPT ![t] = [taken[t] EXCEPT ![k] = done]]
  <2>1. taken' = taken
    BY DEF AddEvent
  <2>2. taken \in [LooperThreads -> [KindSet -> Seq(Nat)]]
    BY DEF QueueInv
  <2> DEFINE N == Seq(Nat)
  <2>3. taken \in [LooperThreads -> [KindSet -> N]]
    BY <2>2
  <2> HIDE DEF N
  <2> QED
    BY <1>1, <2>1, <2>3
<1>10. handed' = handed /\ sawEvents' = sawEvents
  BY DEF AddEvent
<1> QED
  BY <1>5, <1>6, <1>7, <1>8, <1>9, <1>10, QueueStep

LEMMA FinishEventKeeps ==
    ASSUME QueueInv, NEW t \in LooperThreads, FinishEvent(t)
    PROVE  QueueInv'
<1> DEFINE at == {k \in ToSet(Kinds) : rings[t][k].events # <<>> /\ PointsAt(t, k)}
           k == IF "key" \in at THEN "key" ELSE "motion"
<1>1. CASE at = {}
  <2>1. UNCHANGED queueVars
    BY <1>1 DEF FinishEvent, queueVars
  <2> QED
    BY <2>1, QueueUntouched
<1>2. CASE at # {}
  <2>1. k \in at /\ k \in KindSet
    BY <1>2, KindsAre DEF KindSet
  <2>2. /\ taken' = [taken EXCEPT ![t][k] = Append(@, Head(rings[t][k].events))]
        /\ rings' = [rings EXCEPT ![t][k] = Popped(@)]
    BY <1>2 DEF FinishEvent
  <2>3. rings[t][k].events # <<>> /\ handed[t].at = FrontOf(t, k) /\ handed[t].at # Nowhere
    BY <2>1 DEF PointsAt, FinishEvent
  <2> HIDE DEF k, at
  <2>4. PICK r, done, q : r = rings[t][k] /\ done = taken[t][k] /\ q = Popped(r)
    OBVIOUS
  <2>5. r \in Rings
    BY <2>1, <2>4 DEF QueueInv
  <2>6. InOrder(r, done) /\ Points(handed[t].at, k, r, sawEvents[t][k])
    BY <2>1, <2>4 DEF QueueInv
  <2>7. r.events # <<>>
    BY <2>3, <2>4
  <2>8. q = Popped(r)
    BY <2>4
  <2>9. PICK more : more = Append(done, Head(r.events))
    OBVIOUS
  <2>10. /\ Head(r.events) = r.events[1] /\ InOrder(q, more)
         /\ \A p, j, seen : Points(p, j, r, seen) /\ p[1] = j /\ p[2] = r.at /\ p[3] = r.head => Points(p, j, q, seen)
    BY <2>5, <2>6, <2>7, <2>8, <2>9, PopKeeps
  <2>11. PICK p : p = handed[t].at
    OBVIOUS
  <2>12. p # Nowhere /\ p[1] = k /\ p[2] = r.at /\ p[3] = r.head
    BY <2>3, <2>4, <2>11 DEF FrontOf
  <2>13. Points(p, k, r, sawEvents[t][k])
    BY <2>6, <2>11
  <2>14. Points(p, k, q, sawEvents[t][k])
    BY <2>10, <2>12, <2>13
  <2>15. r.events[1] \in sawEvents[t][k]
    BY <2>12, <2>13 DEF Points
  <2>16. \A i \in 1 .. Len(more) : more[i] \in sawEvents[t][k]
    <3>1. done \in Seq(Nat) /\ r.events[1] \in Nat
      <4>1. done \in Seq(Nat)
        BY <2>6 DEF InOrder
      <4>2. sawEvents[t][k] \subseteq Nat
        BY <2>1 DEF QueueInv
      <4> QED
        BY <2>15, <4>1, <4>2
    <3>2. more = Append(done, r.events[1])
      BY <2>9, <2>10
    <3>3. /\ Len(done) \in Nat /\ Len(more) = Len(done) + 1 /\ more[Len(done) + 1] = r.events[1]
          /\ \A i \in 1 .. Len(done) : more[i] = done[i]
      BY <3>1, <3>2, AppendProperties, LenProperties
    <3>4. \A i \in 1 .. Len(done) : done[i] \in sawEvents[t][k]
      BY <2>1, <2>4 DEF QueueInv
    <3> SUFFICES ASSUME NEW i \in 1 .. Len(more) PROVE more[i] \in sawEvents[t][k]
      OBVIOUS
    <3>5. CASE i = Len(done) + 1
      BY <2>15, <3>3, <3>5
    <3>6. CASE i # Len(done) + 1
      <4>1. i \in 1 .. Len(done)
        BY <3>3, <3>6
      <4> QED
        BY <3>3, <3>4, <4>1
    <3> QED
      BY <3>5, <3>6
  <2>17. rings' = [rings EXCEPT ![t] = [rings[t] EXCEPT ![k] = q]]
    BY <2>1, <2>2, <2>4 DEF QueueInv
  <2>18. taken' = [taken EXCEPT ![t] = [taken[t] EXCEPT ![k] = more]]
    <3>1. taken' = [taken EXCEPT ![t][k] = Append(taken[t][k], Head(rings[t][k].events))]
      <4> DEFINE N == Seq(Nat)
      <4>1. taken \in [LooperThreads -> [KindSet -> N]]
        BY DEF QueueInv
      <4> HIDE DEF N
      <4> QED
        BY <2>1, <2>2, <4>1
    <3> QED
      BY <2>4, <2>9, <3>1
  <2>19. handed' = handed /\ sawEvents' = sawEvents
    BY DEF FinishEvent
  <2>20. Points(handed[t].at, k, q, sawEvents[t][k])
    BY <2>11, <2>14
  <2> QED
    BY <2>1, <2>10, <2>16, <2>17, <2>18, <2>19, <2>20, QueueStep
<1> QED
  BY <1>1, <1>2

LEMMA GetEventKeeps ==
    ASSUME QueueInv, NEW t \in LooperThreads, GetEvent(t)
    PROVE  QueueInv'
<1> DEFINE k == IF rings[t].key.events # <<>> THEN "key" ELSE "motion"
           e == Head(rings[t][k].events)
<1>1. k \in KindSet /\ rings[t][k].events # <<>>
  <2>1. PICK j \in KindSet : rings[t][j].events # <<>>
    BY KindsAre DEF GetEvent, HasEvents
  <2> QED
    BY <2>1 DEF KindSet
<1>2. /\ handed' = [handed EXCEPT ![t] = [at |-> FrontOf(t, k), event |-> e]]
      /\ sawEvents' = [sawEvents EXCEPT ![t][k] = @ \cup {e}]
      /\ rings' = rings /\ taken' = taken
  BY DEF GetEvent
<1> HIDE DEF k, e
<1>3. PICK r : r = rings[t][k]
  OBVIOUS
<1>4. r \in Rings /\ InOrder(r, taken[t][k])
  BY <1>1, <1>3 DEF QueueInv
<1>5. r.at \in Nat /\ r.head \in Nat /\ r.head < r.cap /\ r.events \in Seq(Nat) /\ r.events # <<>>
  BY <1>1, <1>3, <1>4 DEF InOrder, Rings
<1>6. e = r.events[1] /\ e \in Nat
  <2>1. e = Head(r.events)
    BY <1>3 DEF e
  <2>2. Head(r.events) = r.events[1] /\ Head(r.events) \in Nat
    BY <1>5, HeadTailProperties
  <2> QED
    BY <2>1, <2>2
<1>7. PICK seen : seen = sawEvents[t][k] \cup {e}
  OBVIOUS
<1>8. seen \in SUBSET Nat /\ e \in seen /\ sawEvents[t][k] \subseteq seen
  BY <1>1, <1>6, <1>7 DEF QueueInv
<1>9. sawEvents' = [sawEvents EXCEPT ![t] = [sawEvents[t] EXCEPT ![k] = seen]]
  BY <1>1, <1>2, <1>7 DEF QueueInv
<1>10. /\ sawEvents' \in [LooperThreads -> [KindSet -> SUBSET Nat]]
       /\ sawEvents'[t][k] = seen
       /\ \A u \in LooperThreads, j \in KindSet : ~(u = t /\ j = k) => sawEvents'[u][j] = sawEvents[u][j]
  <2>1. sawEvents[t] \in [KindSet -> SUBSET Nat]
    BY DEF QueueInv
  <2>2. PICK mine : mine = [sawEvents[t] EXCEPT ![k] = seen]
    OBVIOUS
  <2>3. mine \in [KindSet -> SUBSET Nat] /\ mine[k] = seen /\ \A j \in KindSet : j # k => mine[j] = sawEvents[t][j]
    BY <1>1, <1>8, <2>1, <2>2
  <2>4. sawEvents' = [sawEvents EXCEPT ![t] = mine]
    BY <1>9, <2>2
  <2>5. /\ sawEvents' \in [LooperThreads -> [KindSet -> SUBSET Nat]] /\ sawEvents'[t] = mine
        /\ \A u \in LooperThreads : u # t => sawEvents'[u] = sawEvents[u]
    BY <2>3, <2>4 DEF QueueInv
  <2> QED
    BY <2>3, <2>5
<1>11. PICK p : p = FrontOf(t, k)
  OBVIOUS
<1>12. p[1] = k /\ p[2] = r.at /\ p[3] = r.head
  BY <1>3, <1>11 DEF FrontOf
<1>13. /\ DOMAIN handed' = LooperThreads /\ handed'[t].at = p
       /\ \A u \in LooperThreads : u # t => handed'[u] = handed[u]
  BY <1>2, <1>11 DEF QueueInv
<1>14. Points(p, k, r, seen)
  BY <1>5, <1>6, <1>8, <1>12 DEF Points
<1>15. ASSUME NEW u \in LooperThreads, NEW j \in KindSet
       PROVE  /\ InOrder(rings[u][j], taken[u][j])
              /\ \A i \in 1 .. Len(taken[u][j]) : taken[u][j][i] \in sawEvents'[u][j]
              /\ Points(handed'[u].at, j, rings[u][j], sawEvents'[u][j])
  <2>1. sawEvents[u][j] \subseteq sawEvents'[u][j]
    BY <1>8, <1>10
  <2>2. InOrder(rings[u][j], taken[u][j]) /\ \A i \in 1 .. Len(taken[u][j]) : taken[u][j][i] \in sawEvents[u][j]
    BY DEF QueueInv
  <2>3. Points(handed'[u].at, j, rings[u][j], sawEvents'[u][j])
    <3>1. CASE u = t /\ j = k
      <4>1. rings[u][j] = r /\ handed'[u].at = p /\ sawEvents'[u][j] = seen
        BY <1>3, <1>10, <1>13, <3>1
      <4> QED
        BY <1>14, <3>1, <4>1
    <3>2. CASE u = t /\ j # k
      BY <1>12, <1>13, <3>2 DEF Points
    <3>3. CASE u # t
      <4>1. handed'[u] = handed[u] /\ sawEvents'[u][j] = sawEvents[u][j]
        BY <1>10, <1>13, <3>3
      <4> QED
        BY <4>1 DEF QueueInv
    <3> QED
      BY <3>1, <3>2, <3>3
  <2> QED
    BY <2>1, <2>2, <2>3
<1> QED
  BY <1>2, <1>10, <1>13, <1>15 DEF QueueInv

-----------------------------------------------------------------------------
(* The looper.  The theorem.                                                 *)

LEMMA LooperInitHolds == LooperInit => LooperInv
<1> SUFFICES ASSUME LooperInit PROVE LooperInv
  OBVIOUS
<1>1. PICK l : l = [phase |-> "none", android |-> NoEntry, input |-> NoEntry, text |-> FALSE, last |-> Nowhere]
  OBVIOUS
<1>2. l \in Loopers /\ l.phase = "none"
  BY <1>1 DEF Loopers, Entries, NoEntry
<1>3. looper = [t \in LooperThreads |-> l]
  BY <1>1 DEF LooperInit
<1>4. <<>> \in Seq(Mods) /\ <<>> \in Seq(Nat)
  BY EmptySeq
<1>5. TokenInv
  BY <1>2, <1>3, <1>4 DEF LooperInit, TokenInv, TokenLives
<1>6. PICK r : r = FreshRing
  OBVIOUS
<1>7. r \in Rings /\ r.cap = RingCapacity /\ r.head = 0 /\ r.events = <<>> /\ r.added = 0
  BY <1>4, <1>6, LooperAssumption DEF FreshRing, Rings
<1>8. InOrder(r, <<>>)
  BY <1>4, <1>7, LooperAssumption DEF InOrder
<1>9. /\ rings = [t \in LooperThreads |-> [k \in KindSet |-> r]]
      /\ sawEvents = [t \in LooperThreads |-> [k \in KindSet |-> {}]]
      /\ taken = [t \in LooperThreads |-> [k \in KindSet |-> <<>>]]
      /\ handed = [t \in LooperThreads |-> [at |-> Nowhere, event |-> 0]]
  BY <1>6, KindsAre DEF LooperInit
<1>10. QueueInv
  <2>1. /\ rings \in [LooperThreads -> [KindSet -> Rings]]
        /\ sawEvents \in [LooperThreads -> [KindSet -> SUBSET Nat]]
        /\ DOMAIN handed = LooperThreads
    BY <1>7, <1>9
  <2>2. taken \in [LooperThreads -> [KindSet -> Seq(Nat)]]
    <3> DEFINE N == Seq(Nat)
    <3>1. <<>> \in N
      BY <1>4
    <3> HIDE DEF N
    <3>2. taken \in [LooperThreads -> [KindSet -> N]]
      BY <1>9, <3>1
    <3> QED
      BY <3>2 DEF N
  <2>3. ASSUME NEW t \in LooperThreads, NEW k \in KindSet
        PROVE  /\ InOrder(rings[t][k], taken[t][k])
               /\ \A i \in 1 .. Len(taken[t][k]) : taken[t][k][i] \in sawEvents[t][k]
               /\ Points(handed[t].at, k, rings[t][k], sawEvents[t][k])
    <3>1. rings[t][k] = r /\ taken[t][k] = <<>> /\ handed[t].at = Nowhere
      BY <1>9
    <3>2. Len(taken[t][k]) = 0
      BY <3>1
    <3> QED
      BY <1>8, <3>1, <3>2 DEF Points
  <2> QED
    BY <2>1, <2>2, <2>3 DEF QueueInv
<1> QED
  BY <1>5, <1>10 DEF LooperInv

LEMMA LooperStep ==
    ASSUME LooperInv, [LooperNext]_looperVars
    PROVE  LooperInv'
<1> USE DEF LooperInv
<1>1. CASE UNCHANGED looperVars
  <2>1. UNCHANGED tokenVars /\ UNCHANGED queueVars
    BY <1>1 DEF looperVars, tokenVars
  <2> QED
    BY <2>1, TokenUntouched, QueueUntouched
<1>2. ASSUME NEW made \in BOOLEAN, Startup(made) PROVE LooperInv'
  <2>1. UNCHANGED queueVars
    BY <1>2 DEF Startup
  <2> QED
    BY <1>2, <2>1, StartupKeeps, QueueUntouched
<1>3. ASSUME NEW m \in Mods, AddCreationCallback(m) PROVE LooperInv'
  <2>1. UNCHANGED queueVars
    BY <1>3 DEF AddCreationCallback
  <2> QED
    BY <1>3, <2>1, CreationKeeps, QueueUntouched
<1>4. ASSUME NEW t \in LooperThreads, Prepare(t) PROVE LooperInv'
  <2>1. UNCHANGED queueVars
    BY <1>4 DEF Prepare
  <2> QED
    BY <1>4, <2>1, PrepareKeeps, QueueUntouched
<1>5. ASSUME NEW t \in LooperThreads, PrepareCallbacks(t) PROVE LooperInv'
  <2>1. UNCHANGED queueVars
    BY <1>5 DEF PrepareCallbacks
  <2> QED
    BY <1>5, <2>1, PrepareCallbacksKeeps, QueueUntouched
<1>6. ASSUME NEW t \in LooperThreads, AddFd(t) PROVE LooperInv'
  <2>1. UNCHANGED queueVars
    BY <1>6 DEF AddFd
  <2> QED
    BY <1>6, <2>1, AddFdKeeps, QueueUntouched
<1>7. ASSUME NEW t \in LooperThreads, AttachInputQueue(t) PROVE LooperInv'
  <2>1. UNCHANGED queueVars
    BY <1>7 DEF AttachInputQueue
  <2> QED
    BY <1>7, <2>1, AttachKeeps, QueueUntouched
<1>8. ASSUME NEW t \in LooperThreads, LooperGone(t) PROVE LooperInv'
  <2>1. UNCHANGED queueVars
    BY <1>8 DEF LooperGone
  <2> QED
    BY <1>8, <2>1, GoneKeeps, QueueUntouched
<1>9. ASSUME NEW t \in LooperThreads, NEW r \in BOOLEAN, DescriptorReady(t, r) PROVE LooperInv'
  <2>1. UNCHANGED queueVars
    BY <1>9 DEF DescriptorReady
  <2> QED
    BY <1>9, <2>1, ReadyKeeps, QueueUntouched
<1>10. ASSUME NEW t \in LooperThreads, NEW r \in BOOLEAN, PollAll(t, r) PROVE LooperInv'
  <2>1. UNCHANGED queueVars
    BY <1>10 DEF PollAll
  <2> QED
    BY <1>10, <2>1, PollKeeps, QueueUntouched
<1>11. ASSUME NEW t \in LooperThreads, NEW k \in KindSet, NEW moves \in 0 .. 1, AddEvent(t, k, moves)
       PROVE  LooperInv'
  <2>1. UNCHANGED tokenVars
    BY <1>11 DEF AddEvent, tokenVars
  <2> QED
    BY <1>11, <2>1, AddEventKeeps, TokenUntouched
<1>12. ASSUME NEW t \in LooperThreads, GetEvent(t) PROVE LooperInv'
  <2>1. UNCHANGED tokenVars
    BY <1>12 DEF GetEvent, tokenVars
  <2> QED
    BY <1>12, <2>1, GetEventKeeps, TokenUntouched
<1>13. ASSUME NEW t \in LooperThreads, FinishEvent(t) PROVE LooperInv'
  <2>1. UNCHANGED tokenVars
    BY <1>13 DEF FinishEvent, tokenVars
  <2> QED
    BY <1>13, <2>1, FinishEventKeeps, TokenUntouched
<1> QED
  BY <1>1, <1>2, <1>3, <1>4, <1>5, <1>6, <1>7, <1>8, <1>9, <1>10, <1>11, <1>12, <1>13, KindsAre DEF LooperNext

LEMMA LooperInvSuffices == LooperInv => LooperSound
<1> SUFFICES ASSUME LooperInv PROVE LooperSound
  OBVIOUS
<1>1. TokenLives /\ ModsRegistered
  BY DEF LooperInv, TokenInv, ModsRegistered
<1>2. ASSUME NEW t \in LooperThreads, NEW k \in KindSet
      PROVE  /\ \A i \in DOMAIN taken[t][k] : taken[t][k][i] = i
             /\ ToSet(taken[t][k]) \subseteq sawEvents[t][k]
             /\ taken[t][k] \o rings[t][k].events = [i \in 1 .. rings[t][k].added |-> i]
  <2>1. PICK done, r, events : done = taken[t][k] /\ r = rings[t][k] /\ events = r.events
    OBVIOUS
  <2>2. InOrder(r, done) /\ \A i \in 1 .. Len(done) : done[i] \in sawEvents[t][k]
    BY <2>1 DEF LooperInv, QueueInv
  <2>3. done \in Seq(Nat) /\ events \in Seq(Nat)
    BY <2>1, <2>2 DEF InOrder, Rings
  <2>4. /\ Len(done) \in Nat /\ Len(events) \in Nat /\ DOMAIN done = 1 .. Len(done)
        /\ Len(done) + Len(events) = r.added
    BY <2>1, <2>2, <2>3, LenProperties DEF InOrder
  <2>5. /\ \A i \in 1 .. Len(done) : done[i] = i
        /\ \A j \in 1 .. Len(events) : events[j] = Len(done) + j
    BY <2>1, <2>2 DEF InOrder
  <2>6. ToSet(done) \subseteq sawEvents[t][k]
    BY <2>2, <2>4 DEF ToSet
  <2>7. PICK all : all = done \o events
    OBVIOUS
  <2>8. all \in Seq(Nat) /\ Len(all) = Len(done) + Len(events)
    BY <2>3, <2>7, ConcatProperties
  <2>9. ASSUME NEW i \in 1 .. Len(all) PROVE all[i] = i
    <3>1. all[i] = IF i <= Len(done) THEN done[i] ELSE events[i - Len(done)]
      BY <2>3, <2>4, <2>7, <2>8, ConcatProperties
    <3>2. CASE i <= Len(done)
      <4>1. i \in 1 .. Len(done)
        BY <2>4, <2>8, <3>2
      <4> QED
        BY <2>5, <3>1, <3>2, <4>1
    <3>3. CASE ~(i <= Len(done))
      <4>1. i - Len(done) \in 1 .. Len(events)
        BY <2>4, <2>8, <3>3
      <4>2. events[i - Len(done)] = Len(done) + (i - Len(done))
        BY <2>5, <4>1
      <4> QED
        BY <2>4, <3>1, <3>3, <4>2
    <3> QED
      BY <3>2, <3>3
  <2>10. all = [i \in 1 .. r.added |-> i]
    <3>1. all = [i \in 1 .. Len(all) |-> all[i]]
      BY <2>8, LenProperties
    <3>2. Len(all) = r.added
      BY <2>4, <2>8
    <3> QED
      BY <2>9, <3>1, <3>2
  <2> QED
    BY <2>1, <2>4, <2>5, <2>6, <2>7, <2>10
<1>3. EventsInOrder
  BY <1>2, KindsAre DEF EventsInOrder
<1> QED
  BY <1>1, <1>3 DEF LooperSound

\* The launcher's looper and input queue (fake_looper.rs, fake_inputqueue.rs,
\* core_patches.rs), for any threads, mods and capacity: the token mods go through
\* is of a looper that lives, every mod that asked is registered once and in order,
\* and however often a queue's buffer moves between getEvent and finishEvent, events
\* are taken in order and only after the game has seen them.
THEOREM LooperStaysSound == LooperSpec => []LooperSound
<1>1. LooperInv /\ [LooperNext]_looperVars => LooperInv'
  BY LooperStep
<1>2. LooperSpec => []LooperInv
  BY <1>1, LooperInitHolds, PTL DEF LooperSpec
<1> QED
  BY <1>2, LooperInvSuffices, PTL

-----------------------------------------------------------------------------
(* The window.  The inductive invariant.                                     *)

Slots == 0 .. PointerSlots - 1
Modes == {"unknown", "touch", "mouse", "gamepad"}
Configs == [created : BOOLEAN, raw : BOOLEAN, forced : {NoMode, "mouse", "touch"}, about : {"devices", "view"}]
Locks == [asked : BOOLEAN, cursor : BOOLEAN, pointer : BOOLEAN, early : BOOLEAN]
Hands == [hand : BOOLEAN, game : BOOLEAN, lost : BOOLEAN]
PadData == [connected : BOOLEAN, buttons : [PadButtons -> BOOLEAN], axis : Int]
GamePadData == [connected : BOOLEAN, a : BOOLEAN, hat : Int, axis : Int]
NothingPressed == [connected |-> FALSE, a |-> FALSE, hat |-> 0, axis |-> 0]

HandInv ==
    /\ held \in [{"button", "key"} -> Hands]
    /\ NothingStuck

\* Only a device that took over sets the mode, and what the game asked for
\* once the callbacks were there is what they keep.
ModeInv ==
    /\ config \in Configs /\ mode \in Modes /\ lock \in Locks /\ sending \in BOOLEAN
    /\ ~config.created => ~sending
    /\ ~sending \/ config.raw \/ config.forced # NoMode => mode = NoMode
    /\ ~lock.early => lock.cursor = lock.asked
    /\ mode = "mouse" => lock.pointer = lock.cursor
    /\ mode \in {"touch", "gamepad"} => lock.pointer

\* A slot in use is that of a finger on the screen, and each of these has one.
TouchInv ==
    /\ pointers \in [Slots -> Fingers \cup {Free}]
    /\ DOMAIN touching \subseteq Fingers /\ IsFiniteSet(DOMAIN touching)
    /\ \A f \in DOMAIN touching : touching[f] \in Slots /\ pointers[touching[f]] = f
    /\ \A i \in Slots : pointers[i] # Free => pointers[i] \in DOMAIN touching /\ touching[pointers[i]] = i
    /\ gameTouches \subseteq {touching[f] : f \in DOMAIN touching}

\* The game hears of touches only where they always count.
HeardInv == gameTouches # {} => sending /\ (config.raw \/ config.forced \in {NoMode, "touch"})

\* Nothing is pressed before the game hears of the pad.
PadInv ==
    /\ pad \in PadData /\ gamePad \in GamePadData
    /\ ~sending => pad = [NoPad EXCEPT !.connected = pad.connected] /\ gamePad = NothingPressed
    /\ PadAgrees

ViewInv ==
    /\ size \in [height : Int, bar : Int, setting : Int, told : Int]
    /\ screen \in [window : BOOLEAN, setting : BOOLEAN]
    /\ ViewAgrees

WindowInv == HandInv /\ ModeInv /\ TouchInv /\ HeardInv /\ PadInv /\ ViewInv
-----------------------------------------------------------------------------
(* The window.  Slots of touches.                                            *)

\* Every set of naturals that is not empty has a least element.
LEMMA LeastNat ==
    ASSUME NEW T \in SUBSET Nat, T # {}
    PROVE  \E x \in T : \A y \in T : x <= y
<1>1. PICK R : R = {ss \in Nat \X Nat : ss[1] < ss[2]}
  OBVIOUS
<1>2. IsWellFoundedOn(R, Nat)
  BY <1>1, NatLessThanWellFounded DEF OpToRel
<1>3. PICK x \in T : \A y \in T : ~(<<y, x>> \in R)
  BY <1>2, WFMin
<1>4. \A y \in T : ~(y < x)
  BY <1>1, <1>3
<1> QED
  BY <1>4

LEMMA LowestIn ==
    ASSUME NEW T \in SUBSET Slots, T # {}
    PROVE  Lowest(T) \in T
<1>1. T \subseteq Nat
  BY WindowAssumption DEF Slots
<1>2. PICK x \in T : \A y \in T : x <= y
  BY <1>1, LeastNat
<1> QED
  BY <1>2 DEF Lowest

LEMMA SlotsAre ==
    ASSUME TouchInv, NEW x
    PROVE  SlotsWith(x) = {i \in Slots : pointers[i] = x}
BY DEF TouchInv, SlotsWith

\* A finger on the screen has one slot.
LEMMA ObtainOwn ==
    ASSUME TouchInv, NEW f \in DOMAIN touching
    PROVE  Obtain(f) = touching[f] /\ Obtain(f) \in Slots /\ pointers[Obtain(f)] = f
<1>1. touching[f] \in Slots /\ pointers[touching[f]] = f /\ f # Free
  BY WindowAssumption DEF TouchInv, Free
<1>2. SlotsWith(f) = {touching[f]}
  <2>1. \A i \in Slots : pointers[i] = f => i = touching[f]
    BY <1>1 DEF TouchInv
  <2> QED
    BY <1>1, <2>1, SlotsAre
<1>3. Lowest(SlotsWith(f)) \in SlotsWith(f)
  BY <1>1, <1>2, LowestIn
<1> QED
  BY <1>1, <1>2, <1>3 DEF Obtain

\* While there are fewer fingers than slots, one more finds a free slot.
LEMMA ObtainFree ==
    ASSUME TouchInv, NEW f \in Fingers, f \notin DOMAIN touching, Cardinality(DOMAIN touching) < PointerSlots
    PROVE  Obtain(f) \in Slots /\ pointers[Obtain(f)] = Free
<1>1. f # Free
  BY WindowAssumption DEF Free
<1>2. SlotsWith(f) = {}
  BY <1>1, SlotsAre DEF TouchInv
<1>3. SlotsWith(Free) # {}
  <2> SUFFICES ASSUME \A i \in Slots : pointers[i] # Free PROVE FALSE
    BY SlotsAre
  <2>1. PICK g : g = [i \in Slots |-> pointers[i]]
    OBVIOUS
  <2>2. g \in [Slots -> DOMAIN touching]
    BY <2>1 DEF TouchInv
  <2>3. IsFiniteSet(Slots) /\ Cardinality(Slots) = PointerSlots
    <3>1. PointerSlots \in Int /\ PointerSlots >= 0 /\ PointerSlots - 1 \in Int
      BY WindowAssumption
    <3>2. /\ IsFiniteSet(0 .. PointerSlots - 1)
          /\ Cardinality(0 .. PointerSlots - 1) = IF 0 > PointerSlots - 1 THEN 0 ELSE (PointerSlots - 1) - 0 + 1
      BY <3>1, FS_Interval
    <3> QED
      BY <3>1, <3>2 DEF Slots
  <2>4. IsFiniteSet(DOMAIN touching) /\ Cardinality(DOMAIN touching) < Cardinality(Slots)
    BY <2>3 DEF TouchInv
  <2>5. PICK i, j \in Slots : i # j /\ g[i] = g[j]
    BY <2>2, <2>3, <2>4, FS_PigeonHole
  <2>6. pointers[i] = pointers[j]
    BY <2>1, <2>5
  <2> QED
    BY <2>5, <2>6 DEF TouchInv
<1>4. SlotsWith(Free) \subseteq Slots
  BY SlotsAre
<1>5. Lowest(SlotsWith(Free)) \in SlotsWith(Free)
  BY <1>3, <1>4, LowestIn
<1>6. Obtain(f) = Lowest(SlotsWith(Free))
  BY <1>2, <1>3 DEF Obtain
<1> QED
  BY <1>5, <1>6, SlotsAre

LEMMA BelowSlots ==
    ASSUME NEW i \in Slots
    PROVE  i < PointerSlots
BY WindowAssumption DEF Slots

LEMMA TouchStartKeeps ==
    ASSUME TouchInv, NEW f \in Fingers, NEW late \in BOOLEAN, TouchStart(f, late)
    PROVE  TouchInv'
<1>1. PICK i : i = Obtain(f)
  OBVIOUS
<1>2. f \notin DOMAIN touching /\ f # Free
  BY WindowAssumption DEF TouchStart, Free
<1>3. i \in Slots /\ pointers[i] = Free
  <2>1. Cardinality(DOMAIN touching) < PointerSlots
    BY DEF TouchStart
  <2> QED
    BY <1>1, <1>2, <2>1, ObtainFree
<1>4. pointers' = [pointers EXCEPT ![i] = f]
  BY <1>1, <1>3, BelowSlots DEF TouchStart, WithSlot
<1>5. touching' = [g \in DOMAIN touching \cup {f} |-> IF g = f THEN i ELSE touching[g]]
  BY <1>1 DEF TouchStart
<1>6. gameTouches' \subseteq gameTouches \cup {i}
  BY <1>1 DEF TouchStart
<1>7. pointers' \in [Slots -> Fingers \cup {Free}] /\ DOMAIN touching' = DOMAIN touching \cup {f}
  BY <1>3, <1>4, <1>5 DEF TouchInv
<1>8. IsFiniteSet(DOMAIN touching')
  BY <1>7, FS_AddElement DEF TouchInv
<1>9. ASSUME NEW g \in DOMAIN touching' PROVE touching'[g] \in Slots /\ pointers'[touching'[g]] = g
  <2>1. CASE g = f
    BY <1>3, <1>4, <1>5, <1>7, <2>1 DEF TouchInv
  <2>2. CASE g # f
    <3>1. g \in DOMAIN touching /\ touching'[g] = touching[g]
      BY <1>5, <1>7, <2>2
    <3>2. touching[g] \in Slots /\ pointers[touching[g]] = g /\ g # Free
      BY <3>1, WindowAssumption DEF TouchInv, Free
    <3>3. touching[g] # i
      BY <1>3, <3>2
    <3> QED
      BY <1>4, <3>1, <3>2, <3>3 DEF TouchInv
  <2> QED
    BY <2>1, <2>2
<1>10. ASSUME NEW j \in Slots, pointers'[j] # Free
       PROVE  pointers'[j] \in DOMAIN touching' /\ touching'[pointers'[j]] = j
  <2>1. CASE j = i
    BY <1>3, <1>4, <1>5, <1>7, <2>1 DEF TouchInv
  <2>2. CASE j # i
    <3>1. pointers'[j] = pointers[j]
      BY <1>4, <2>2 DEF TouchInv
    <3>2. pointers[j] \in DOMAIN touching /\ touching[pointers[j]] = j
      BY <1>10, <3>1 DEF TouchInv
    <3> QED
      BY <1>2, <1>5, <3>1, <3>2
  <2> QED
    BY <2>1, <2>2
<1>11. gameTouches' \subseteq {touching'[g] : g \in DOMAIN touching'}
  <2>1. touching'[f] = i /\ f \in DOMAIN touching'
    BY <1>5, <1>7
  <2>2. \A g \in DOMAIN touching : touching'[g] = touching[g] /\ g \in DOMAIN touching'
    BY <1>2, <1>5, <1>7
  <2> QED
    BY <1>6, <2>1, <2>2 DEF TouchInv
<1>12. DOMAIN touching' \subseteq Fingers
  BY <1>7 DEF TouchInv
<1> QED
  BY <1>7, <1>8, <1>9, <1>10, <1>11, <1>12 DEF TouchInv

LEMMA TouchUpdateKeeps ==
    ASSUME TouchInv, NEW f \in Fingers, NEW late \in BOOLEAN, TouchUpdate(f, late)
    PROVE  TouchInv'
<1>1. f \in DOMAIN touching
  BY DEF TouchUpdate
<1>2. Obtain(f) \in Slots /\ pointers[Obtain(f)] = f
  BY <1>1, ObtainOwn
<1>3. pointers' = [pointers EXCEPT ![Obtain(f)] = f]
  BY <1>2, BelowSlots DEF TouchUpdate, WithSlot
<1>4. pointers' = pointers
  BY <1>2, <1>3 DEF TouchInv
<1>5. touching' = touching /\ gameTouches' = gameTouches
  BY DEF TouchUpdate
<1> QED
  BY <1>4, <1>5 DEF TouchInv

LEMMA TouchEndKeeps ==
    ASSUME TouchInv, HeardInv, ModeInv, NEW f \in Fingers, NEW late \in BOOLEAN, TouchEnd(f, late)
    PROVE  TouchInv'
<1>1. f \in DOMAIN touching
  BY DEF TouchEnd
<1>2. PICK i : i = Obtain(f)
  OBVIOUS
<1>3. i = touching[f] /\ i \in Slots /\ pointers[i] = f
  BY <1>1, <1>2, ObtainOwn
<1>4. pointers' = [pointers EXCEPT ![i] = Free]
  BY <1>2, <1>3, BelowSlots DEF TouchEnd, WithoutSlot
<1>5. touching' = [g \in DOMAIN touching \ {f} |-> touching[g]]
  BY DEF TouchEnd
<1>6. gameTouches' \subseteq gameTouches \ {i}
  <2>1. CASE gameTouches = {}
    BY <2>1 DEF TouchEnd
  <2>2. CASE gameTouches # {}
    <3>1. sending /\ (config.raw \/ config.forced \in {NoMode, "touch"})
      BY <2>2 DEF HeardInv
    <3>2. mode = "touch" \/ Rank["touch"] < Rank[mode]
      BY DEF ModeInv, Modes, Rank
    <3>3. config.forced = "touch" => config.forced # NoMode
      BY DEF NoMode
    <3>4. Takes("touch", TRUE, late)
      BY <3>1, <3>2, <3>3 DEF Takes, ModeInv, Configs
    <3> QED
      BY <1>2, <3>4 DEF TouchEnd
  <2> QED
    BY <2>1, <2>2
<1>7. pointers' \in [Slots -> Fingers \cup {Free}] /\ DOMAIN touching' = DOMAIN touching \ {f}
  BY <1>3, <1>4, <1>5 DEF TouchInv
<1>8. IsFiniteSet(DOMAIN touching') /\ DOMAIN touching' \subseteq Fingers
  BY <1>7, FS_RemoveElement DEF TouchInv
<1>9. ASSUME NEW g \in DOMAIN touching' PROVE touching'[g] \in Slots /\ pointers'[touching'[g]] = g
  <2>1. g \in DOMAIN touching /\ g # f /\ touching'[g] = touching[g]
    BY <1>5, <1>7
  <2>2. touching[g] \in Slots /\ pointers[touching[g]] = g
    BY <2>1 DEF TouchInv
  <2>3. touching[g] # i
    BY <1>3, <2>1, <2>2
  <2> QED
    BY <1>4, <2>1, <2>2, <2>3 DEF TouchInv
<1>10. ASSUME NEW j \in Slots, pointers'[j] # Free
       PROVE  pointers'[j] \in DOMAIN touching' /\ touching'[pointers'[j]] = j
  <2>1. j # i
    BY <1>3, <1>4, <1>10 DEF TouchInv
  <2>2. pointers'[j] = pointers[j]
    BY <1>4, <2>1 DEF TouchInv
  <2>3. pointers[j] \in DOMAIN touching /\ touching[pointers[j]] = j
    BY <1>10, <2>2 DEF TouchInv
  <2>4. pointers[j] # f
    BY <1>3, <2>1, <2>3
  <2> QED
    BY <1>5, <1>7, <2>2, <2>3, <2>4
<1>11. gameTouches' \subseteq {touching'[g] : g \in DOMAIN touching'}
  <2>1. \A g \in DOMAIN touching : g # f => g \in DOMAIN touching' /\ touching'[g] = touching[g]
    BY <1>5, <1>7
  <2> QED
    BY <1>3, <1>6, <2>1 DEF TouchInv
<1> QED
  BY <1>7, <1>8, <1>9, <1>10, <1>11 DEF TouchInv
-----------------------------------------------------------------------------
(* The window.  The mode, the hand, the pad and the view.                    *)

LEMMA ModeUntouched ==
    ASSUME ModeInv, UNCHANGED <<config, sending, mode, lock>>
    PROVE  ModeInv'
BY DEF ModeInv

\* Whoever takes the mode over leaves the pointer as its mode wants it.
LEMMA SwitchKeeps ==
    ASSUME ModeInv, NEW want \in {"touch", "mouse", "gamepad"}, NEW change, NEW late,
           Takes(want, change, late), SwitchTo(want), UNCHANGED <<config, sending>>
    PROVE  ModeInv'
<1>1. CASE UNCHANGED <<mode, lock>>
  BY <1>1, ModeUntouched
<1>2. CASE ~UNCHANGED <<mode, lock>>
  <2>1. ~config.raw /\ config.forced = NoMode /\ mode' = want
    BY <1>2 DEF SwitchTo
  <2>2. PICK p : p = IF want = "mouse" THEN lock.cursor ELSE TRUE
    OBVIOUS
  <2>3. lock' = [lock EXCEPT !.pointer = p]
    BY <1>2, <2>2 DEF SwitchTo
  <2>4. lock \in Locks /\ p \in BOOLEAN
    BY <2>2 DEF ModeInv, Locks
  <2>5. /\ lock' \in Locks /\ lock'.pointer = p /\ lock'.asked = lock.asked
        /\ lock'.cursor = lock.cursor /\ lock'.early = lock.early
    BY <2>3, <2>4 DEF Locks
  <2>6. sending
    BY DEF Takes
  <2>7. mode' \in Modes
    BY <2>1 DEF Modes
  <2>8. config' = config /\ sending' = sending
    OBVIOUS
  <2>9. ~lock'.early => lock'.cursor = lock'.asked
    BY <2>5 DEF ModeInv
  <2>10. mode' = "mouse" => lock'.pointer = lock'.cursor
    BY <2>1, <2>2, <2>5
  <2>11. mode' \in {"touch", "gamepad"} => lock'.pointer
    BY <2>1, <2>2, <2>5
  <2>12. config \in Configs /\ sending \in BOOLEAN /\ (~config.created => ~sending)
    BY DEF ModeInv
  <2>13. ~(~sending \/ config.raw \/ config.forced # NoMode)
    BY <2>1, <2>6
  <2> QED
    BY <2>5, <2>7, <2>8, <2>9, <2>10, <2>11, <2>12, <2>13 DEF ModeInv
<1> QED
  BY <1>1, <1>2

LEMMA LockedKeeps ==
    ASSUME ModeInv, NEW l \in BOOLEAN, SetCursorLocked(l)
    PROVE  ModeInv'
<1>1. config' = config /\ sending' = sending /\ mode' = mode
  BY DEF SetCursorLocked
<1>2. lock \in Locks
  BY DEF ModeInv
<1>3. CASE ~config.created
  <2>1. lock' = [lock EXCEPT !.asked = l, !.early = TRUE]
    BY <1>3 DEF SetCursorLocked
  <2>2. lock' \in Locks /\ lock'.early
    BY <1>2, <2>1 DEF Locks
  <2>3. mode = NoMode
    BY <1>3 DEF ModeInv
  <2> QED
    BY <1>1, <2>2, <2>3 DEF ModeInv, NoMode
<1>4. CASE config.created /\ Takes("mouse", FALSE, FALSE)
  <2>1. lock' = [asked |-> l, cursor |-> l, pointer |-> l, early |-> FALSE]
    BY <1>4 DEF SetCursorLocked, Locked
  <2>2. lock' \in Locks /\ lock'.asked = l /\ lock'.cursor = l /\ lock'.pointer = l /\ ~lock'.early
    BY <2>1 DEF Locks
  <2>3. mode \notin {"touch", "gamepad"}
    BY <1>4 DEF Takes, ModeInv, NoMode
  <2> QED
    BY <1>1, <2>2, <2>3 DEF ModeInv
<1>5. CASE config.created /\ ~Takes("mouse", FALSE, FALSE)
  <2>1. lock' = [lock EXCEPT !.asked = l, !.cursor = l, !.early = FALSE]
    BY <1>5 DEF SetCursorLocked, Locked
  <2>2. lock' \in Locks /\ lock'.asked = l /\ lock'.cursor = l /\ ~lock'.early /\ lock'.pointer = lock.pointer
    BY <1>2, <2>1 DEF Locks
  <2>3. mode # "mouse"
    <3> SUFFICES ASSUME mode = "mouse" PROVE FALSE
      OBVIOUS
    <3>1. sending /\ ~config.raw /\ config.forced = NoMode
      BY DEF ModeInv, NoMode
    <3> QED
      BY <1>5, <3>1 DEF Takes
  <2> QED
    BY <1>1, <2>2, <2>3 DEF ModeInv
<1> QED
  BY <1>3, <1>4, <1>5

LEMMA CreateKeepsMode ==
    ASSUME ModeInv, NEW raw \in BOOLEAN, NEW full \in BOOLEAN, NEW forced \in {NoMode, "mouse", "touch"},
           NEW about \in {"devices", "view"}, Create(raw, forced, full, about)
    PROVE  ModeInv'
<1>1. ~config.created /\ config' = [created |-> TRUE, raw |-> raw, forced |-> forced, about |-> about]
  BY DEF Create
<1>2. config' \in Configs /\ config'.created
  BY <1>1 DEF Configs
<1>3. ~sending /\ mode = NoMode
  BY <1>1 DEF ModeInv
<1>4. sending' = sending /\ mode' = mode /\ lock' = lock
  BY DEF Create
<1> QED
  BY <1>2, <1>3, <1>4 DEF ModeInv

LEMMA SendKeepsMode ==
    ASSUME ModeInv, StartSendEvents
    PROVE  ModeInv'
<1>1. config.created /\ sending' = TRUE /\ config' = config /\ mode' = mode /\ lock' = lock
  BY DEF StartSendEvents
<1> QED
  BY <1>1 DEF ModeInv

LEMMA PressKeepsHand ==
    ASSUME HandInv, NEW d \in {"button", "key"}, NEW pressed \in BOOLEAN, NEW eaten \in BOOLEAN, NEW late \in BOOLEAN,
           Press(d, pressed, eaten, late)
    PROVE  HandInv'
<1>1. held[d] \in Hands
  BY DEF HandInv
<1>2. PICK heard : heard = (Takes("mouse", TRUE, late) /\ ~eaten)
  OBVIOUS
<1>3. CASE heard
  <2>1. PICK h : h = Heard(pressed)
    OBVIOUS
  <2>2. h \in Hands /\ h.hand = pressed /\ h.game = pressed
    BY <2>1 DEF Heard, Hands
  <2>3. held' = [held EXCEPT ![d] = h]
    BY <1>2, <1>3, <2>1 DEF Press
  <2>4. buttonState' = IF d = "button" THEN pressed ELSE buttonState
    BY <1>2, <1>3 DEF Press
  <2> QED
    BY <2>2, <2>3, <2>4 DEF HandInv, NothingStuck
<1>4. CASE ~heard
  <2>1. PICK h : h = NotHeard(held[d], pressed)
    OBVIOUS
  <2>2. PICK lost : lost = (held[d].lost \/ ~pressed)
    OBVIOUS
  <2>3. h = [held[d] EXCEPT !.hand = pressed, !.lost = lost]
    BY <1>1, <2>1, <2>2 DEF NotHeard
  <2>4. lost \in BOOLEAN
    BY <1>1, <2>2 DEF Hands
  <2>5. h \in Hands /\ h.hand = pressed /\ h.game = held[d].game /\ h.lost = lost
    BY <1>1, <2>3, <2>4 DEF Hands
  <2>6. held' = [held EXCEPT ![d] = h]
    BY <1>2, <1>4, <2>1 DEF Press, HandInv
  <2>7. buttonState' = buttonState
    BY <1>2, <1>4 DEF Press
  <2>8. h.game => h.hand \/ h.lost
    BY <1>1, <2>2, <2>4, <2>5 DEF Hands
  <2> QED
    BY <2>5, <2>6, <2>7, <2>8 DEF HandInv, NothingStuck
<1> QED
  BY <1>2, <1>3, <1>4

LEMMA PressKeepsScreen ==
    ASSUME ViewInv, NEW d \in {"button", "key"}, NEW pressed \in BOOLEAN, NEW eaten \in BOOLEAN, NEW late \in BOOLEAN,
           Press(d, pressed, eaten, late)
    PROVE  ViewInv'
<1>1. size' = size
  BY DEF Press
<1>2. screen' = screen \/ screen' = FullscreenIs(~screen.setting)
  BY DEF Press
<1>3. screen' \in [window : BOOLEAN, setting : BOOLEAN] /\ screen'.window = screen'.setting
  <2>1. PICK v : v = ~screen.setting
    OBVIOUS
  <2>2. v \in BOOLEAN
    BY <2>1
  <2>3. screen \in [window : BOOLEAN, setting : BOOLEAN] /\ screen.window = screen.setting
    BY DEF ViewInv, ViewAgrees
  <2>4. screen' = screen \/ screen' = [window |-> v, setting |-> v]
    BY <1>2, <2>1 DEF FullscreenIs
  <2> QED
    BY <2>2, <2>3, <2>4
<1> QED
  BY <1>1, <1>3 DEF ViewInv, ViewAgrees

LEMMA ScreenKeeps ==
    ASSUME ViewInv, size' = size, NEW fs \in BOOLEAN,
           screen' \in {screen, [window |-> fs, setting |-> fs], [window |-> ~screen.window, setting |-> ~screen.setting]}
    PROVE  ViewInv'
<1>1. screen' \in [window : BOOLEAN, setting : BOOLEAN] /\ screen'.window = screen'.setting
  <2>1. PICK v, w : v = ~screen.window /\ w = ~screen.setting
    OBVIOUS
  <2>2. v \in BOOLEAN /\ w \in BOOLEAN
    BY <2>1
  <2>3. screen \in [window : BOOLEAN, setting : BOOLEAN] /\ screen.window = screen.setting
    BY DEF ViewInv, ViewAgrees
  <2>4. screen' = screen \/ screen' = [window |-> fs, setting |-> fs] \/ screen' = [window |-> v, setting |-> w]
    BY <2>1
  <2>5. v = w
    BY <2>1, <2>3
  <2> QED
    BY <2>2, <2>3, <2>4, <2>5
<1> QED
  BY <1>1 DEF ViewInv, ViewAgrees

LEMMA SizeKeeps ==
    ASSUME ViewInv, screen' = screen, NEW s, size' = s,
           s \in [height : Int, bar : Int, setting : Int, told : Int],
           s.told # NotTold => s.told = s.height - s.bar
    PROVE  ViewInv'
BY DEF ViewInv, ViewAgrees

LEMMA SendKeepsView ==
    ASSUME ViewInv, StartSendEvents
    PROVE  ViewInv'
<1>1. screen' = screen
  BY DEF StartSendEvents
<1>2. size \in [height : Int, bar : Int, setting : Int, told : Int] /\ (size.told # NotTold => size.told = size.height - size.bar)
  BY DEF ViewInv, ViewAgrees
<1>3. CASE size.setting = size.bar
  <2>1. size' = size
    BY <1>3 DEF StartSendEvents
  <2> QED
    BY <1>1, <1>2, <2>1, SizeKeeps
<1>4. CASE size.setting # size.bar
  <2>1. PICK n, s : n = size.height - size.setting /\ s = [size EXCEPT !.bar = size.setting, !.told = n]
    OBVIOUS
  <2>2. n \in Int /\ size.height \in Int /\ size.setting \in Int
    BY <1>2, <2>1
  <2>3. s = [size EXCEPT !.bar = size.setting, !.told = n]
    BY <2>1
  <2>4. /\ s \in [height : Int, bar : Int, setting : Int, told : Int]
        /\ s.told = n /\ s.height = size.height /\ s.bar = size.setting
    <3> HIDE <2>1
    <3> QED
      BY <1>2, <2>2, <2>3
  <2>5. s.told = s.height - s.bar
    BY <2>1, <2>4
  <2>6. size' = s
    BY <1>4, <2>1 DEF StartSendEvents
  <2> QED
    BY <1>1, <2>4, <2>5, <2>6, SizeKeeps
<1> QED
  BY <1>3, <1>4

LEMMA ReshapeKeeps ==
    ASSUME ViewInv, NEW h \in Heights, Reshape(h)
    PROVE  ViewInv'
<1>1. screen' = screen
  BY DEF Reshape
<1>2. size \in [height : Int, bar : Int, setting : Int, told : Int] /\ h \in Int
  BY WindowAssumption DEF ViewInv
<1>3. PICK n, s : n = h - size.bar /\ s = [size EXCEPT !.height = h, !.told = n]
  OBVIOUS
<1>4. n \in Int
  BY <1>2, <1>3
<1>5. s = [size EXCEPT !.height = h, !.told = n]
  BY <1>3
<1>6. /\ s \in [height : Int, bar : Int, setting : Int, told : Int]
      /\ s.told = n /\ s.height = h /\ s.bar = size.bar
  <2> HIDE <1>3
  <2> QED
    BY <1>2, <1>4, <1>5
<1>7. s.told = s.height - s.bar
  BY <1>3, <1>6
<1>8. size' = s
  BY <1>3 DEF Reshape
<1> QED
  BY <1>1, <1>6, <1>7, <1>8, SizeKeeps

LEMMA MenuBarKeeps ==
    ASSUME ViewInv, NEW n \in BarSizes, MenuBar(n)
    PROVE  ViewInv'
<1>1. screen' = screen
  BY DEF MenuBar
<1>2. /\ size \in [height : Int, bar : Int, setting : Int, told : Int] /\ n \in Int
      /\ size.told # NotTold => size.told = size.height - size.bar
  BY WindowAssumption DEF ViewInv, ViewAgrees
<1>3. PICK s : s = [size EXCEPT !.setting = n]
  OBVIOUS
<1>4. /\ s \in [height : Int, bar : Int, setting : Int, told : Int]
      /\ s.told = size.told /\ s.height = size.height /\ s.bar = size.bar
  BY <1>2, <1>3
<1>5. size' = s
  BY <1>3 DEF MenuBar
<1> QED
  BY <1>1, <1>2, <1>4, <1>5, SizeKeeps

-----------------------------------------------------------------------------
(* The window.  The pad.                                                     *)

LEMMA FreshPad ==
    ASSUME NEW c \in BOOLEAN, NEW p, p = [NoPad EXCEPT !.connected = c]
    PROVE  /\ p \in PadData /\ p.connected = c /\ p.axis = 0 /\ Hat(p) = 0
           /\ \A b \in PadButtons : ~p.buttons[b]
<1>1. PICK none : none = [b \in PadButtons |-> FALSE]
  OBVIOUS
<1>2. none \in [PadButtons -> BOOLEAN] /\ \A b \in PadButtons : ~none[b]
  BY <1>1
<1>3. p = [connected |-> c, buttons |-> none, axis |-> 0]
  BY <1>1 DEF NoPad
<1>4. p \in PadData /\ p.connected = c /\ p.axis = 0 /\ p.buttons = none
  <2>1. [connected |-> c, buttons |-> none, axis |-> 0] \in [connected : BOOLEAN, buttons : [PadButtons -> BOOLEAN], axis : Int]
    BY <1>2
  <2>2. p \in [connected : BOOLEAN, buttons : [PadButtons -> BOOLEAN], axis : Int]
    BY <1>3, <2>1, Zenon
  <2>3. p.connected = c /\ p.axis = 0 /\ p.buttons = none
    BY <1>3
  <2> QED
    BY <2>2, <2>3 DEF PadData
<1>5. "right" \in PadButtons /\ "left" \in PadButtons
  BY DEF PadButtons
<1>6. ~p.buttons["right"] /\ ~p.buttons["left"]
  BY <1>2, <1>4, <1>5
<1>7. Hat(p) = 0
  BY <1>6 DEF Hat
<1> QED
  BY <1>2, <1>4, <1>7

LEMMA PadStateKeeps ==
    ASSUME PadInv, NEW c \in BOOLEAN, PadState(c)
    PROVE  PadInv'
<1>1. pad' = [NoPad EXCEPT !.connected = c] /\ sending' = sending
  BY DEF PadState
<1>2. PICK p : p = [NoPad EXCEPT !.connected = c]
  OBVIOUS
<1>3. /\ p \in PadData /\ p.connected = c /\ p.axis = 0 /\ Hat(p) = 0
      /\ \A b \in PadButtons : ~p.buttons[b]
  BY <1>2, FreshPad
<1>4. pad' = p
  BY <1>1, <1>2
<1>5. ~p.buttons["a"]
  BY <1>3 DEF PadButtons
<1>6. Hat(pad') = 0
  BY <1>3, <1>4
<1>7. CASE sending
  <2>1. gamePad' = [connected |-> c, a |-> FALSE, hat |-> 0, axis |-> 0]
    BY <1>7 DEF PadState
  <2>2. gamePad' \in GamePadData /\ gamePad'.connected = c /\ ~gamePad'.a /\ gamePad'.hat = 0 /\ gamePad'.axis = 0
    BY <2>1 DEF GamePadData
  <2>3. PadAgrees'
    <3>1. pad'.axis = 0 /\ ~pad'.buttons.a /\ pad'.connected = c /\ pad'.buttons["a"] \in BOOLEAN
      BY <1>3, <1>4, <1>5 DEF PadData, PadButtons
    <3>2. Hat(pad)' = 0
      BY <1>6 DEF Hat
    <3> QED
      BY <2>2, <3>1, <3>2 DEF PadAgrees, GamePadData
  <2> QED
    BY <1>1, <1>3, <1>4, <1>7, <2>2, <2>3 DEF PadInv
<1>8. CASE ~sending
  <2>1. gamePad' = gamePad /\ gamePad = NothingPressed
    BY <1>8 DEF PadState, PadInv
  <2>2. ~gamePad.connected
    BY <2>1 DEF NothingPressed
  <2>3. pad' = [NoPad EXCEPT !.connected = pad'.connected]
    BY <1>1, <1>3, <1>4
  <2>4. PadAgrees'
    BY <1>1, <1>8, <2>1, <2>2 DEF PadAgrees
  <2> QED
    BY <1>1, <1>3, <1>4, <1>8, <2>1, <2>3, <2>4 DEF PadInv
<1> QED
  BY <1>7, <1>8

LEMMA SendKeepsPad ==
    ASSUME PadInv, StartSendEvents
    PROVE  PadInv'
<1>1. sending' = TRUE /\ pad' = pad
  BY DEF StartSendEvents
<1>2. pad \in PadData /\ gamePad \in GamePadData
  BY DEF PadInv
<1>3. CASE sending
  <2>1. gamePad' = gamePad
    BY <1>3 DEF StartSendEvents
  <2> QED
    BY <1>1, <1>3, <2>1 DEF PadInv, PadAgrees, Hat
<1>4. CASE ~sending
  <2>1. pad = [NoPad EXCEPT !.connected = pad.connected] /\ gamePad = NothingPressed
    BY <1>4 DEF PadInv
  <2>2. pad.connected \in BOOLEAN
    BY <1>2 DEF PadData
  <2>3. pad.axis = 0 /\ Hat(pad) = 0 /\ \A b \in PadButtons : ~pad.buttons[b]
    BY <2>1, <2>2, FreshPad
  <2>4. gamePad' = [gamePad EXCEPT !.connected = pad.connected]
    BY <1>4 DEF StartSendEvents
  <2>5. /\ gamePad' \in GamePadData /\ gamePad'.connected = pad.connected
        /\ ~gamePad'.a /\ gamePad'.hat = 0 /\ gamePad'.axis = 0
    <3>1. ~gamePad.a /\ gamePad.hat = 0 /\ gamePad.axis = 0
      BY <2>1 DEF NothingPressed
    <3>2. /\ gamePad' \in GamePadData /\ gamePad'.connected = pad.connected
          /\ gamePad'.a = gamePad.a /\ gamePad'.hat = gamePad.hat /\ gamePad'.axis = gamePad.axis
      BY <1>2, <2>2, <2>4 DEF GamePadData
    <3> QED
      BY <3>1, <3>2
  <2>6. ~pad.buttons["a"] /\ pad.buttons["a"] \in BOOLEAN
    BY <1>2, <2>3 DEF PadButtons, PadData
  <2>7. Hat(pad)' = 0
    BY <1>1, <2>3 DEF Hat
  <2>8. PadAgrees'
    BY <1>1, <2>3, <2>5, <2>6, <2>7 DEF PadAgrees, GamePadData
  <2> QED
    BY <1>1, <1>2, <2>5, <2>8 DEF PadInv
<1> QED
  BY <1>3, <1>4

LEMMA HatType ==
    ASSUME NEW p
    PROVE  Hat(p) \in Int
BY DEF Hat

\* What is told of the axes is what the pad has.
LEMMA AxesAre ==
    ASSUME gamePad \in GamePadData, NEW p \in PadData, NEW q, q = AxesOf(p)
    PROVE  /\ q \in GamePadData /\ q.connected = gamePad.connected /\ q.a = gamePad.a
           /\ q.hat = Hat(p) /\ q.axis = p.axis
<1>1. PICK h, x : h = Hat(p) /\ x = p.axis
  OBVIOUS
<1>2. h \in Int /\ x \in Int
  BY <1>1, HatType DEF PadData
<1>3. q = [gamePad EXCEPT !.hat = h, !.axis = x]
  BY <1>1 DEF AxesOf
<1>4. /\ q \in GamePadData /\ q.connected = gamePad.connected /\ q.a = gamePad.a
      /\ q.hat = h /\ q.axis = x
  BY <1>2, <1>3 DEF GamePadData
<1> QED
  BY <1>1, <1>4

\* A pad that the game is told of stays told of.
LEMMA TellKeeps ==
    ASSUME PadInv, sending, sending' = sending, NEW p \in PadData, NEW q \in GamePadData, pad' = p, gamePad' = q,
           p.connected = pad.connected, q.connected = gamePad.connected,
           q.connected => q.a = p.buttons.a /\ q.hat = Hat(p) /\ q.axis = p.axis
    PROVE  PadInv'
<1>1. Hat(pad)' = Hat(p)
  BY DEF Hat
<1>2. PadAgrees'
  BY <1>1 DEF PadInv, PadAgrees
<1> QED
  BY <1>2 DEF PadInv

LEMMA PadButtonKeeps ==
    ASSUME PadInv, NEW b \in PadButtons, NEW pressed \in BOOLEAN, NEW late \in BOOLEAN, PadButton(b, pressed, late)
    PROVE  PadInv'
<1>1. sending /\ sending' = sending
  BY DEF PadButton, Takes
<1>2. pad \in PadData /\ gamePad \in GamePadData
  BY DEF PadInv
<1>3. CASE ~pad.connected \/ pad.buttons[b] = pressed
  <2>1. pad' = pad /\ gamePad' = gamePad
    BY <1>3 DEF PadButton, padVars
  <2> QED
    BY <1>1, <2>1 DEF PadInv, PadAgrees, Hat
<1>4. CASE ~(~pad.connected \/ pad.buttons[b] = pressed)
  <2>1. PICK bs : bs = [pad.buttons EXCEPT ![b] = pressed]
    OBVIOUS
  <2>2. /\ bs \in [PadButtons -> BOOLEAN] /\ bs[b] = pressed
        /\ \A c \in PadButtons : c # b => bs[c] = pad.buttons[c]
    BY <1>2, <2>1 DEF PadData
  <2>3. PICK p : p = [pad EXCEPT !.buttons = bs]
    OBVIOUS
  <2>4. p \in PadData /\ p.connected = pad.connected /\ p.buttons = bs /\ p.axis = pad.axis
    BY <1>2, <2>2, <2>3 DEF PadData
  <2>5. pad' = p
    BY <1>2, <1>4, <2>1, <2>3 DEF PadButton, PadData
  <2>6. "a" \in PadButtons /\ "left" \in PadButtons /\ "right" \in PadButtons
    BY DEF PadButtons
  <2>7. CASE b = "a"
    <3>1. gamePad' = [gamePad EXCEPT !.a = pressed]
      BY <1>4, <2>7 DEF PadButton
    <3>2. PICK q : q = [gamePad EXCEPT !.a = pressed]
      OBVIOUS
    <3>3. /\ q \in GamePadData /\ q.connected = gamePad.connected /\ q.a = pressed
          /\ q.hat = gamePad.hat /\ q.axis = gamePad.axis
      BY <1>2, <3>2 DEF GamePadData
    <3>4. Hat(p) = Hat(pad)
      <4>1. bs["left"] = pad.buttons["left"] /\ bs["right"] = pad.buttons["right"]
        BY <2>2, <2>6, <2>7
      <4> QED
        BY <2>4, <4>1 DEF Hat
    <3>5. gamePad.connected => gamePad.hat = Hat(pad) /\ gamePad.axis = pad.axis
      BY DEF PadInv, PadAgrees
    <3>6. gamePad' = q
      BY <3>1, <3>2
    <3>7. p.buttons["a"] = pressed
      BY <2>2, <2>4, <2>7
    <3>8. q.connected => q.a = p.buttons.a /\ q.hat = Hat(p) /\ q.axis = p.axis
      BY <2>4, <3>3, <3>4, <3>5, <3>7
    <3> QED
      BY <1>1, <2>4, <2>5, <3>3, <3>6, <3>8, TellKeeps
  <2>8. CASE b # "a"
    <3>1. gamePad' = AxesOf(pad')
      BY <1>4, <2>8 DEF PadButton
    <3>2. PICK q : q = AxesOf(p)
      OBVIOUS
    <3>3. /\ q \in GamePadData /\ q.connected = gamePad.connected /\ q.a = gamePad.a
          /\ q.hat = Hat(p) /\ q.axis = p.axis
      BY <1>2, <2>4, <3>2, AxesAre
    <3>4. gamePad' = q
      BY <2>5, <3>1, <3>2
    <3>5. p.buttons["a"] = pad.buttons["a"]
      BY <2>2, <2>4, <2>6, <2>8
    <3>6. gamePad.connected => gamePad.a = pad.buttons.a
      BY DEF PadInv, PadAgrees
    <3>7. q.connected => q.a = p.buttons.a /\ q.hat = Hat(p) /\ q.axis = p.axis
      BY <3>3, <3>5, <3>6
    <3> QED
      BY <1>1, <2>4, <2>5, <3>3, <3>4, <3>7, TellKeeps
  <2> QED
    BY <2>7, <2>8
<1> QED
  BY <1>3, <1>4

LEMMA PadAxisKeeps ==
    ASSUME PadInv, NEW v \in 0 .. 1, NEW late \in BOOLEAN, PadAxis(v, late)
    PROVE  PadInv'
<1>1. sending /\ sending' = sending
  BY DEF PadAxis, Takes
<1>2. pad \in PadData /\ gamePad \in GamePadData
  BY DEF PadInv
<1>3. CASE ~pad.connected
  <2>1. pad' = pad /\ gamePad' = gamePad
    BY <1>3 DEF PadAxis, padVars
  <2> QED
    BY <1>1, <2>1 DEF PadInv, PadAgrees, Hat
<1>4. CASE pad.connected
  <2>1. PICK p : p = [pad EXCEPT !.axis = v]
    OBVIOUS
  <2>2. p \in PadData /\ p.connected = pad.connected /\ p.buttons = pad.buttons /\ p.axis = v
    BY <1>2, <2>1 DEF PadData
  <2>3. pad' = p /\ gamePad' = AxesOf(pad')
    BY <1>4, <2>1 DEF PadAxis
  <2>4. PICK q : q = AxesOf(p)
    OBVIOUS
  <2>5. /\ q \in GamePadData /\ q.connected = gamePad.connected /\ q.a = gamePad.a
        /\ q.hat = Hat(p) /\ q.axis = p.axis
    BY <1>2, <2>2, <2>4, AxesAre
  <2>6. gamePad' = q
    BY <2>3, <2>4
  <2>7. gamePad.connected => gamePad.a = pad.buttons.a
    BY DEF PadInv, PadAgrees
  <2>8. q.connected => q.a = p.buttons.a /\ q.hat = Hat(p) /\ q.axis = p.axis
    BY <2>2, <2>5, <2>7
  <2> QED
    BY <1>1, <2>2, <2>3, <2>5, <2>6, <2>8, TellKeeps
<1> QED
  BY <1>3, <1>4
-----------------------------------------------------------------------------
(* The window.  The theorem.                                                 *)

LEMMA HandUntouched ==
    ASSUME HandInv, UNCHANGED handVars
    PROVE  HandInv'
<1>1. held' = held /\ buttonState' = buttonState
  BY DEF handVars
<1> QED
  BY <1>1 DEF HandInv, NothingStuck

LEMMA TouchUntouched ==
    ASSUME TouchInv, UNCHANGED touchVars
    PROVE  TouchInv'
<1>1. pointers' = pointers /\ touching' = touching /\ gameTouches' = gameTouches
  BY DEF touchVars
<1> QED
  BY <1>1 DEF TouchInv

LEMMA HeardUntouched ==
    ASSUME HeardInv, UNCHANGED <<config, sending>>, gameTouches' \subseteq gameTouches
    PROVE  HeardInv'
BY DEF HeardInv

LEMMA PadUntouched ==
    ASSUME PadInv, UNCHANGED <<sending, padVars>>
    PROVE  PadInv'
<1>1. sending' = sending /\ pad' = pad /\ gamePad' = gamePad
  BY DEF padVars
<1> QED
  BY <1>1 DEF PadInv, PadAgrees, Hat

LEMMA ViewUntouched ==
    ASSUME ViewInv, UNCHANGED <<size, screen>>
    PROVE  ViewInv'
BY DEF ViewInv, ViewAgrees

LEMMA TouchHeard ==
    ASSUME ModeInv, HeardInv, NEW f \in Fingers, NEW late \in BOOLEAN, TouchStart(f, late)
    PROVE  HeardInv'
<1>1. config' = config /\ sending' = sending
  BY DEF TouchStart
<1>2. CASE Takes("touch", TRUE, late)
  <2>1. sending /\ (config.raw \/ config.forced \in {NoMode, "touch"})
    BY <1>2 DEF Takes
  <2> QED
    BY <1>1, <2>1 DEF HeardInv
<1>3. CASE ~Takes("touch", TRUE, late)
  BY <1>1, <1>3 DEF TouchStart, HeardInv
<1> QED
  BY <1>2, <1>3

LEMMA TouchModeKeeps ==
    ASSUME ModeInv, NEW late \in BOOLEAN, TouchMode(late), UNCHANGED <<config, sending>>
    PROVE  ModeInv'
<1>1. CASE Takes("touch", TRUE, late)
  <2>1. SwitchTo("touch")
    BY <1>1 DEF TouchMode
  <2> QED
    BY <1>1, <2>1, SwitchKeeps
<1>2. CASE ~Takes("touch", TRUE, late)
  <2>1. UNCHANGED <<config, sending, mode, lock>>
    BY <1>2 DEF TouchMode
  <2> QED
    BY <2>1, ModeUntouched
<1> QED
  BY <1>1, <1>2

LEMMA PressKeepsMode ==
    ASSUME ModeInv, NEW d \in {"button", "key"}, NEW pressed \in BOOLEAN, NEW eaten \in BOOLEAN, NEW late \in BOOLEAN,
           Press(d, pressed, eaten, late)
    PROVE  ModeInv'
<1>1. UNCHANGED <<config, sending>>
  BY DEF Press
<1>2. CASE Takes("mouse", TRUE, late)
  <2>1. SwitchTo("mouse")
    BY <1>2 DEF Press
  <2> QED
    BY <1>1, <1>2, <2>1, SwitchKeeps
<1>3. CASE ~Takes("mouse", TRUE, late)
  <2>1. UNCHANGED <<config, sending, mode, lock>>
    BY <1>1, <1>3 DEF Press
  <2> QED
    BY <2>1, ModeUntouched
<1> QED
  BY <1>2, <1>3

LEMMA WindowInitHolds == WindowInit => WindowInv
<1> SUFFICES ASSUME WindowInit PROVE WindowInv
  OBVIOUS
<1>1. HandInv
  <2>1. PICK up : up = Up
    OBVIOUS
  <2>2. up \in Hands /\ ~up.game
    BY <2>1 DEF Up, Hands
  <2>3. held = [d \in {"button", "key"} |-> up] /\ buttonState = FALSE
    BY <2>1 DEF WindowInit
  <2>4. up.game = FALSE
    BY <2>2, <2>1 DEF Up
  <2> QED
    BY <2>2, <2>3, <2>4 DEF HandInv, NothingStuck
<1>2. ModeInv
  <2>1. config \in Configs /\ ~config.created
    BY DEF WindowInit, Configs
  <2>2. lock \in Locks /\ lock.cursor = lock.asked
    BY DEF WindowInit, Locks
  <2>3. sending = FALSE /\ mode = NoMode
    BY DEF WindowInit
  <2> QED
    BY <2>1, <2>2, <2>3 DEF ModeInv, Modes, NoMode
<1>3. TouchInv
  <2>1. DOMAIN touching = {} /\ gameTouches = {} /\ pointers = [i \in Slots |-> Free]
    BY DEF WindowInit, Slots
  <2> QED
    BY <2>1, FS_EmptySet DEF TouchInv
<1>4. HeardInv
  BY DEF WindowInit, HeardInv
<1>5. PadInv
  <2>1. PICK p : p = [NoPad EXCEPT !.connected = FALSE]
    OBVIOUS
  <2>2. p = NoPad
    BY <2>1 DEF NoPad
  <2>3. p \in PadData /\ p.connected = FALSE
    BY <2>1, FreshPad
  <2>4. pad = p /\ gamePad = NothingPressed /\ sending = FALSE
    BY <2>2 DEF WindowInit, NothingPressed
  <2>5. gamePad \in GamePadData /\ ~gamePad.connected
    BY <2>4 DEF GamePadData, NothingPressed
  <2>6. pad = [NoPad EXCEPT !.connected = pad.connected]
    BY <2>1, <2>3, <2>4
  <2> QED
    BY <2>3, <2>4, <2>5, <2>6 DEF PadInv, PadAgrees
<1>6. ViewInv
  <2>1. size = [height |-> 0, bar |-> 0, setting |-> 0, told |-> NotTold] /\ screen = [window |-> FALSE, setting |-> FALSE]
    BY DEF WindowInit
  <2>2. NotTold \in Int
    BY DEF NotTold
  <2>3. size \in [height : Int, bar : Int, setting : Int, told : Int] /\ size.told = NotTold
    BY <2>1, <2>2
  <2>4. screen \in [window : BOOLEAN, setting : BOOLEAN] /\ screen.window = screen.setting
    BY <2>1
  <2> QED
    BY <2>3, <2>4 DEF ViewInv, ViewAgrees
<1> QED
  BY <1>1, <1>2, <1>3, <1>4, <1>5, <1>6 DEF WindowInv

LEMMA WindowStep ==
    ASSUME WindowInv, [WindowNext]_windowVars
    PROVE  WindowInv'
<1> USE DEF WindowInv
<1>1. CASE UNCHANGED windowVars
  <2>1. UNCHANGED handVars /\ UNCHANGED <<config, sending, mode, lock>> /\ UNCHANGED touchVars
        /\ UNCHANGED <<config, sending>> /\ gameTouches' \subseteq gameTouches
        /\ UNCHANGED <<sending, padVars>> /\ UNCHANGED <<size, screen>>
    BY <1>1 DEF windowVars, handVars, touchVars, padVars, viewVars
  <2> QED
    BY <2>1, HandUntouched, ModeUntouched, TouchUntouched, HeardUntouched, PadUntouched, ViewUntouched
<1>2. ASSUME NEW raw \in BOOLEAN, NEW full \in BOOLEAN, NEW forced \in {NoMode, "mouse", "touch"},
             NEW about \in {"devices", "view"}, Create(raw, forced, full, about)
      PROVE  WindowInv'
  <2>1. UNCHANGED handVars /\ UNCHANGED touchVars /\ UNCHANGED <<sending, padVars>>
    BY <1>2 DEF Create
  <2>2. HeardInv'
    <3>1. ~sending
      BY <1>2 DEF Create, ModeInv
    <3>2. gameTouches' = gameTouches
      BY <2>1 DEF touchVars
    <3> QED
      BY <3>1, <3>2 DEF HeardInv
  <2>3. size' = size /\ screen' = [window |-> full, setting |-> full]
    BY <1>2 DEF Create
  <2>4. ViewInv'
    BY <2>3, ScreenKeeps
  <2> QED
    BY <1>2, <2>1, <2>2, <2>4, HandUntouched, CreateKeepsMode, TouchUntouched, PadUntouched
<1>3. ASSUME StartSendEvents PROVE WindowInv'
  <2>1. UNCHANGED handVars /\ UNCHANGED touchVars
    BY <1>3 DEF StartSendEvents
  <2>2. HeardInv'
    <3>1. gameTouches' = gameTouches /\ sending' = TRUE /\ config' = config
      BY <1>3, <2>1 DEF StartSendEvents, touchVars
    <3> QED
      BY <3>1 DEF HeardInv
  <2> QED
    BY <1>3, <2>1, <2>2, HandUntouched, SendKeepsMode, TouchUntouched, SendKeepsPad, SendKeepsView
<1>4. ASSUME NEW l \in BOOLEAN, SetCursorLocked(l) PROVE WindowInv'
  <2>1. UNCHANGED handVars /\ UNCHANGED touchVars /\ UNCHANGED <<config, sending>>
        /\ UNCHANGED <<sending, padVars>> /\ UNCHANGED <<size, screen>>
    BY <1>4 DEF SetCursorLocked, viewVars
  <2>2. gameTouches' \subseteq gameTouches
    BY <2>1 DEF touchVars
  <2> QED
    BY <1>4, <2>1, <2>2, HandUntouched, LockedKeeps, TouchUntouched, HeardUntouched, PadUntouched, ViewUntouched
<1>5. ASSUME NEW d \in {"button", "key"}, NEW pressed \in BOOLEAN, NEW eaten \in BOOLEAN, NEW late \in BOOLEAN,
             Press(d, pressed, eaten, late)
      PROVE  WindowInv'
  <2>1. UNCHANGED touchVars /\ UNCHANGED <<config, sending>> /\ UNCHANGED <<sending, padVars>>
    BY <1>5 DEF Press
  <2>2. gameTouches' \subseteq gameTouches
    BY <2>1 DEF touchVars
  <2> QED
    BY <1>5, <2>1, <2>2, PressKeepsHand, PressKeepsMode, TouchUntouched, HeardUntouched, PadUntouched, PressKeepsScreen
<1>6. ASSUME HandInv', ModeInv', TouchInv', HeardInv', PadInv', ViewInv' PROVE WindowInv'
  BY <1>6
<1>7. ASSUME SetDelayedPaste \/ MenuTogglesFullscreen \/ (\E fs \in BOOLEAN : SetFullscreen(fs)) \/
             (\E h \in Heights : Reshape(h)) \/ \E n \in BarSizes : MenuBar(n)
      PROVE  WindowInv'
  <2>1. UNCHANGED handVars /\ UNCHANGED <<config, sending, mode, lock>> /\ UNCHANGED touchVars
        /\ UNCHANGED <<config, sending>> /\ UNCHANGED <<sending, padVars>>
    BY <1>7 DEF SetDelayedPaste, MenuTogglesFullscreen, SetFullscreen, Reshape, MenuBar
  <2>2. gameTouches' \subseteq gameTouches
    BY <2>1 DEF touchVars
  <2>3. ViewInv'
    <3>1. CASE SetDelayedPaste
      <4>1. UNCHANGED <<size, screen>>
        BY <3>1 DEF SetDelayedPaste
      <4> QED
        BY <4>1, ViewUntouched
    <3>2. CASE MenuTogglesFullscreen
      <4>1. size' = size /\ screen' = [window |-> ~screen.window, setting |-> ~screen.setting]
        BY <3>2 DEF MenuTogglesFullscreen
      <4> QED
        BY <4>1, ScreenKeeps
    <3>3. ASSUME NEW fs \in BOOLEAN, SetFullscreen(fs) PROVE ViewInv'
      <4>1. size' = size /\ screen' \in {screen, [window |-> fs, setting |-> fs]}
        BY <3>3 DEF SetFullscreen, FullscreenIs
      <4> QED
        BY <4>1, ScreenKeeps
    <3> QED
      BY <1>7, <3>1, <3>2, <3>3, ReshapeKeeps, MenuBarKeeps
  <2> QED
    BY <2>1, <2>2, <2>3, HandUntouched, ModeUntouched, TouchUntouched, HeardUntouched, PadUntouched
<1>8. ASSUME NEW change \in BOOLEAN, NEW late \in BOOLEAN, MouseMoves(change, late) PROVE WindowInv'
  <2>1. UNCHANGED handVars /\ UNCHANGED touchVars /\ UNCHANGED <<config, sending>>
        /\ UNCHANGED <<sending, padVars>> /\ UNCHANGED <<size, screen>>
        /\ Takes("mouse", change, late) /\ SwitchTo("mouse")
    BY <1>8 DEF MouseMoves, viewVars
  <2>2. gameTouches' \subseteq gameTouches
    BY <2>1 DEF touchVars
  <2> QED
    BY <2>1, <2>2, HandUntouched, SwitchKeeps, TouchUntouched, HeardUntouched, PadUntouched, ViewUntouched
<1>9. ASSUME NEW c \in BOOLEAN, PadState(c) PROVE WindowInv'
  <2>1. UNCHANGED handVars /\ UNCHANGED touchVars /\ UNCHANGED <<config, sending, mode, lock>>
        /\ UNCHANGED <<config, sending>> /\ UNCHANGED <<size, screen>>
    BY <1>9 DEF PadState, viewVars
  <2>2. gameTouches' \subseteq gameTouches
    BY <2>1 DEF touchVars
  <2> QED
    BY <1>9, <2>1, <2>2, HandUntouched, ModeUntouched, TouchUntouched, HeardUntouched, PadStateKeeps, ViewUntouched
<1>10. ASSUME NEW f \in Fingers, NEW late \in BOOLEAN, TouchStart(f, late) PROVE WindowInv'
  <2>1. UNCHANGED handVars /\ UNCHANGED <<config, sending>> /\ UNCHANGED <<sending, padVars>> /\ UNCHANGED <<size, screen>>
        /\ TouchMode(late)
    BY <1>10 DEF TouchStart, viewVars
  <2> QED
    BY <1>10, <2>1, HandUntouched, TouchModeKeeps, TouchStartKeeps, TouchHeard, PadUntouched, ViewUntouched
<1>11. ASSUME NEW f \in Fingers, NEW late \in BOOLEAN, TouchUpdate(f, late) PROVE WindowInv'
  <2>1. UNCHANGED handVars /\ UNCHANGED <<config, sending>> /\ UNCHANGED <<sending, padVars>> /\ UNCHANGED <<size, screen>>
        /\ TouchMode(late) /\ gameTouches' \subseteq gameTouches
    BY <1>11 DEF TouchUpdate, viewVars
  <2> QED
    BY <1>11, <2>1, HandUntouched, TouchModeKeeps, TouchUpdateKeeps, HeardUntouched, PadUntouched, ViewUntouched
<1>12. ASSUME NEW f \in Fingers, NEW late \in BOOLEAN, TouchEnd(f, late) PROVE WindowInv'
  <2>1. UNCHANGED handVars /\ UNCHANGED <<config, sending>> /\ UNCHANGED <<sending, padVars>> /\ UNCHANGED <<size, screen>>
        /\ TouchMode(late) /\ gameTouches' \subseteq gameTouches
    BY <1>12 DEF TouchEnd, viewVars
  <2> QED
    BY <1>12, <2>1, HandUntouched, TouchModeKeeps, TouchEndKeeps, HeardUntouched, PadUntouched, ViewUntouched
<1>13. ASSUME NEW b \in PadButtons, NEW pressed \in BOOLEAN, NEW late \in BOOLEAN, PadButton(b, pressed, late)
       PROVE  WindowInv'
  <2>1. UNCHANGED handVars /\ UNCHANGED touchVars /\ UNCHANGED <<config, sending>> /\ UNCHANGED <<size, screen>>
        /\ Takes("gamepad", TRUE, late) /\ SwitchTo("gamepad")
    BY <1>13 DEF PadButton, viewVars
  <2>2. gameTouches' \subseteq gameTouches
    BY <2>1 DEF touchVars
  <2> QED
    BY <1>13, <2>1, <2>2, HandUntouched, SwitchKeeps, TouchUntouched, HeardUntouched, PadButtonKeeps, ViewUntouched
<1>14. ASSUME NEW v \in 0 .. 1, NEW late \in BOOLEAN, PadAxis(v, late) PROVE WindowInv'
  <2>1. UNCHANGED handVars /\ UNCHANGED touchVars /\ UNCHANGED <<config, sending>> /\ UNCHANGED <<size, screen>>
        /\ Takes("gamepad", v # 0, late) /\ SwitchTo("gamepad")
    BY <1>14 DEF PadAxis, viewVars
  <2>2. gameTouches' \subseteq gameTouches
    BY <2>1 DEF touchVars
  <2> QED
    BY <1>14, <2>1, <2>2, HandUntouched, SwitchKeeps, TouchUntouched, HeardUntouched, PadAxisKeeps, ViewUntouched
<1>15. CASE WindowNext
  <2>1. CASE \E late \in BOOLEAN :
               \/ \E b \in BOOLEAN : MouseMoves(b, late) \/ PadState(b)
               \/ \E f \in Fingers : TouchStart(f, late) \/ TouchUpdate(f, late) \/ TouchEnd(f, late)
               \/ \E b \in PadButtons, pressed \in BOOLEAN : PadButton(b, pressed, late)
               \/ \E v \in 0 .. 1 : PadAxis(v, late)
    BY <2>1, <1>8, <1>9, <1>10, <1>11, <1>12, <1>13, <1>14
  <2> QED
    BY <1>2, <1>3, <1>4, <1>5, <1>7, <1>15, <2>1 DEF WindowNext
<1> QED
  BY <1>1, <1>15

\* The keys of the keypad, one by one.
LEMMA KeypadKeys == KeypadNavigates
<1> DEFINE Keypad(k) == <<65429, 65430, 65431, 65432, 65433, 65434, 65435, 65436>>[k - 65359]
           Main(k) == <<36, 37, 38, 39, 40, 33, 34, 35>>[k - 65359]
<1>1. ASSUME NEW k \in 65360 .. 65367
      PROVE  KeypadOf[k] = Keypad(k) /\ KeyOf(k) = Main(k)
  <2>1. KeypadOf[k] = Keypad(k)
    BY DEF KeypadOf
  <2>2. ~\E r \in KeysymRanges : k \in r.first .. r.last
    BY DEF KeysymRanges
  <2>3. k \in DOMAIN MainKeysyms /\ MainKeysyms[k] = Main(k)
    BY DEF MainKeysyms
  <2> QED
    BY <2>1, <2>2, <2>3 DEF KeyOf
<1>2. ASSUME NEW j \in Int, NEW r \in KeysymRanges, j \in r.first .. r.last,
             \A s \in KeysymRanges : j \in s.first .. s.last => s = r
      PROVE  KeyOf(j) = j - r.first + r.code
  BY <1>2 DEF KeyOf
<1>3. ASSUME NEW j \in 65429 .. 65433 PROVE KeyOf(j) = j - 65429 + 36
  <2> DEFINE r == [first |-> 65429, last |-> 65433, code |-> 36]
  <2>2. r \in KeysymRanges /\ r.first = 65429 /\ r.last = 65433 /\ r.code = 36
    BY SMT DEF KeysymRanges
  <2>3. \A s \in KeysymRanges : j \in s.first .. s.last => s = r
    BY SMT DEF KeysymRanges
  <2> QED
    BY <1>2, <2>2, <2>3
<1>4. ASSUME NEW j \in 65434 .. 65436 PROVE KeyOf(j) = j - 65434 + 33
  <2> DEFINE r == [first |-> 65434, last |-> 65436, code |-> 33]
  <2>2. r \in KeysymRanges /\ r.first = 65434 /\ r.last = 65436 /\ r.code = 33
    BY SMT DEF KeysymRanges
  <2>3. \A s \in KeysymRanges : j \in s.first .. s.last => s = r
    BY SMT DEF KeysymRanges
  <2> QED
    BY <1>2, <2>2, <2>3
<1>5. ASSUME NEW k \in 65360 .. 65364 PROVE KeyOf(KeypadOf[k]) = KeyOf(k)
  <2>1. Keypad(k) = k + 69 /\ Main(k) = k - 65324
    <3>1. PICK i : i = k - 65359
      OBVIOUS
    <3>2. i = 1 \/ i = 2 \/ i = 3 \/ i = 4 \/ i = 5
      BY <3>1
    <3>3. k = i + 65359
      BY <3>1, <3>2
    <3>4. <<65429, 65430, 65431, 65432, 65433, 65434, 65435, 65436>>[i] = i + 65428
      BY <3>2
    <3>5. <<36, 37, 38, 39, 40, 33, 34, 35>>[i] = i + 35
      BY <3>2
    <3> QED
      BY <3>1, <3>2, <3>3, <3>4, <3>5
  <2>2. KeypadOf[k] = k + 69 /\ KeyOf(k) = k - 65324
    BY <1>1, <2>1
  <2>3. k + 69 \in 65429 .. 65433
    OBVIOUS
  <2>4. KeyOf(k + 69) = (k + 69) - 65429 + 36
    BY <1>3, <2>3
  <2> QED
    BY <2>2, <2>4
<1>6. ASSUME NEW k \in 65365 .. 65367 PROVE KeyOf(KeypadOf[k]) = KeyOf(k)
  <2>1. Keypad(k) = k + 69 /\ Main(k) = k - 65332
    <3>1. PICK i : i = k - 65359
      OBVIOUS
    <3>2. i = 6 \/ i = 7 \/ i = 8
      BY <3>1
    <3>3. k = i + 65359
      BY <3>1, <3>2
    <3>4. <<65429, 65430, 65431, 65432, 65433, 65434, 65435, 65436>>[i] = i + 65428
      BY <3>2
    <3>5. <<36, 37, 38, 39, 40, 33, 34, 35>>[i] = i + 27
      BY <3>2
    <3> QED
      BY <3>1, <3>2, <3>3, <3>4, <3>5
  <2>2. KeypadOf[k] = k + 69 /\ KeyOf(k) = k - 65332
    BY <1>1, <2>1
  <2>3. k + 69 \in 65434 .. 65436
    OBVIOUS
  <2>4. KeyOf(k + 69) = (k + 69) - 65434 + 33
    BY <1>4, <2>3
  <2> QED
    BY <2>2, <2>4
<1>7. DOMAIN KeypadOf = 65360 .. 65367
  BY DEF KeypadOf
<1> QED
  BY <1>5, <1>6, <1>7 DEF KeypadNavigates

LEMMA WindowInvSuffices == WindowInv => DevicesAgree
<1> SUFFICES ASSUME WindowInv PROVE DevicesAgree
  OBVIOUS
<1>1. NothingStuck /\ PadAgrees /\ ViewAgrees
  BY DEF WindowInv, HandInv, PadInv, ViewInv
<1>2. TouchesAgree
  <2>1. TouchInv
    BY DEF WindowInv
  <2>2. \A f \in DOMAIN touching : Obtain(f) = touching[f] /\ pointers[touching[f]] = f
    BY <2>1, ObtainOwn
  <2>3. gameTouches \subseteq {touching[f] : f \in DOMAIN touching}
    BY <2>1 DEF TouchInv
  <2> QED
    BY <2>2, <2>3 DEF TouchesAgree
<1>3. PointerLockAgrees
  BY DEF WindowInv, ModeInv, PointerLockAgrees
<1> QED
  BY <1>1, <1>2, <1>3, KeypadKeys DEF DevicesAgree

\* The callbacks of the window (window_callbacks.rs): for any fingers, sizes and
\* orders of events, modes and losses, nothing the game thinks is down is left
\* behind, touches and pad are told as they are, the pointer is locked as the
\* game asked, and the size told leaves out the menu bar.
THEOREM DevicesStayAgreed == WindowSpec => []DevicesAgree
<1>1. WindowInv /\ [WindowNext]_windowVars => WindowInv'
  BY WindowStep
<1>2. WindowSpec => []WindowInv
  BY <1>1, WindowInitHolds, PTL DEF WindowSpec
<1> QED
  BY <1>2, WindowInvSuffices, PTL

-----------------------------------------------------------------------------
(* A function defined by what each step makes of the one before.             *)

Steps(g, S, n, a, step) ==
    g \in [0 .. n -> S] /\ g[0] = a /\ \A i \in 1 .. n : g[i] = step[i][g[i - 1]]
StepsIn(S, n, step) == \A i \in 1 .. n : \A x \in S : step[i][x] \in S

LEMMA StepsExist ==
    ASSUME NEW S, NEW n \in Nat, NEW a \in S, NEW step, StepsIn(S, n, step)
    PROVE  \E g : Steps(g, S, n, a, step)
<1> USE DEF StepsIn, Steps
<1> DEFINE Upto(g, k) == Steps(g, S, k, a, step)
           Bad == {k \in 0 .. n : ~ \E g : Upto(g, k)}
<1> SUFFICES ASSUME Bad # {} PROVE FALSE
  <2>1. n \in 0 .. n
    OBVIOUS
  <2> QED
    BY <2>1
<1>1. Bad \in SUBSET Nat
  OBVIOUS
<1>2. PICK k \in Bad : \A m \in Bad : k <= m
  <2> HIDE DEF Bad
  <2> QED BY <1>1, LeastNat
<1>3. k \in 0 .. n
  OBVIOUS
<1>4. k # 0
  <2>1. PICK g : g = [i \in 0 .. 0 |-> a]
    OBVIOUS
  <2>2. Upto(g, 0)
    BY <2>1
  <2> QED
    BY <2>2
<1>5. k - 1 \in 0 .. n /\ k \in 1 .. n
  BY <1>3, <1>4
<1>6. ~(k - 1 \in Bad)
  <2>1. ~(k <= k - 1)
    BY <1>3
  <2> HIDE DEF Bad
  <2> QED
    BY <1>2, <2>1
<1>7. PICK g : Upto(g, k - 1)
  BY <1>5, <1>6
<1> HIDE DEF Bad
<1>8. PICK h : h = [i \in 0 .. k |-> IF i = k THEN step[k][g[k - 1]] ELSE g[i]]
  OBVIOUS
<1>9. k - 1 \in 0 .. k - 1 /\ \A i \in 0 .. k : i # k => i \in 0 .. k - 1
  BY <1>5
<1>10. g[k - 1] \in S /\ step[k][g[k - 1]] \in S
  BY <1>5, <1>7, <1>9
<1>11. h \in [0 .. k -> S]
  BY <1>7, <1>8, <1>9, <1>10
<1>12. h[0] = a
  BY <1>4, <1>5, <1>7, <1>8
<1>13. ASSUME NEW i \in 1 .. k PROVE h[i] = step[i][h[i - 1]]
  <2>1. i - 1 \in 0 .. k - 1 /\ i - 1 # k /\ i \in 0 .. k /\ i - 1 \in 0 .. k
    BY <1>5
  <2>2. h[i - 1] = g[i - 1]
    BY <1>8, <2>1
  <2>3. CASE i = k
    BY <1>8, <2>1, <2>2, <2>3
  <2>4. CASE i # k
    <3>1. i \in 1 .. k - 1
      BY <1>5, <2>4
    <3> QED
      BY <1>7, <1>8, <2>1, <2>2, <2>4, <3>1
  <2> QED
    BY <2>3, <2>4
<1>14. Upto(h, k)
  BY <1>11, <1>12, <1>13
<1> QED
  BY <1>2, <1>3, <1>14 DEF Bad

-----------------------------------------------------------------------------
(* TextInput: how many bytes the characters take.                            *)

\* Each prefix of the text takes the bytes of the one before and those of its
\* last character.
LEMMA BytesAre ==
    ASSUME NEW s \in Seq(Chars)
    PROVE  /\ Bytes(s) \in [0 .. Len(s) -> Nat] /\ Bytes(s)[0] = 0
           /\ \A n \in 1 .. Len(s) : Bytes(s)[n] = Bytes(s)[n - 1] + Width[s[n]]
           /\ \A n \in 1 .. Len(s) : Width[s[n]] \in Nat \ {0}
<1>1. PICK N \in Nat : N = Len(s)
  OBVIOUS
<1>2. \A n \in 1 .. N : Width[s[n]] \in Nat \ {0}
  BY <1>1, TextAssumption DEF Chars
<1>3. PICK step : step = [n \in 1 .. N |-> [x \in Nat |-> x + Width[s[n]]]]
  OBVIOUS
<1>4. \A n \in 1 .. N : \A x \in Nat : step[n][x] = x + Width[s[n]]
  BY <1>3
<1>5. PICK S : S = Nat
  OBVIOUS
<1>6. StepsIn(S, N, step)
  <2>1. \A n \in 1 .. N : \A x \in S : step[n][x] \in S
    <3> TAKE n \in 1 .. N
    <3> TAKE x \in S
    <3>1. PICK w \in Nat : w = Width[s[n]]
      BY <1>2
    <3>2. step[n][x] = x + w
      BY <1>4, <1>5, <3>1
    <3> QED
      BY <1>5, <3>2
  <2> QED
    BY <2>1 DEF StepsIn
<1>7. PICK a \in S : a = 0
  BY <1>5
<1>8. PICK g : Steps(g, S, N, a, step)
  BY <1>1, <1>6, <1>7, StepsExist
<1>9. g \in [0 .. N -> Nat] /\ g[0] = 0 /\ \A n \in 1 .. N : g[n] = step[n][g[n - 1]]
  BY <1>5, <1>7, <1>8 DEF Steps
<1>10. \A n \in 1 .. N : n - 1 \in 0 .. N
  BY <1>1
<1>11. \A n \in 1 .. N : g[n] = g[n - 1] + Width[s[n]]
  <2> TAKE n \in 1 .. N
  <2>1. g[n - 1] \in Nat
    BY <1>9, <1>10
  <2> QED
    BY <1>4, <1>9, <2>1
<1>12. g = [n \in 0 .. N |-> IF n = 0 THEN 0 ELSE g[n - 1] + Width[s[n]]]
  <2>1. PICK b : b = [n \in 0 .. N |-> IF n = 0 THEN 0 ELSE g[n - 1] + Width[s[n]]]
    OBVIOUS
  <2>2. \A n \in 0 .. N : n # 0 => n \in 1 .. N
    BY <1>1
  <2>3. \A n \in 0 .. N : g[n] = b[n]
    BY <1>9, <1>11, <2>1, <2>2
  <2>4. g = b
    BY <1>9, <2>1, <2>3
  <2> QED
    BY <2>1, <2>4
<1>13. ASSUME NEW u, u = [n \in 0 .. N |-> IF n = 0 THEN 0 ELSE u[n - 1] + Width[s[n]]] PROVE u = g
  <2>1. PICK T : T = {k \in 0 .. N : u[k] # g[k]}
    OBVIOUS
  <2>2. ASSUME T # {} PROVE FALSE
    <3>1. T \in SUBSET Nat
      BY <2>1
    <3>2. PICK k \in T : \A y \in T : k <= y
      BY <2>2, <3>1, LeastNat
    <3>3. k \in 0 .. N /\ u[k] # g[k]
      BY <2>1, <3>2
    <3>4. k # 0
      BY <1>9, <1>13, <3>3
    <3>5. k - 1 \in 0 .. N /\ ~(k <= k - 1)
      BY <1>1, <3>3, <3>4
    <3>6. u[k - 1] = g[k - 1]
      BY <2>1, <3>2, <3>5
    <3> QED
      BY <1>12, <1>13, <3>3, <3>4, <3>6
  <2>3. \A k \in 0 .. N : u[k] = g[k]
    BY <2>1, <2>2
  <2>4. u = [k \in 0 .. N |-> u[k]] /\ g = [k \in 0 .. N |-> g[k]]
    BY <1>9, <1>13
  <2> QED
    BY <2>3, <2>4
<1>14. Bytes(s) = g
  BY <1>1, <1>12, <1>13 DEF Bytes
<1> QED
  BY <1>1, <1>2, <1>9, <1>11, <1>14

LEMMA BytesRise ==
    ASSUME NEW s \in Seq(Chars), NEW i \in 0 .. Len(s), NEW j \in 0 .. Len(s), i < j
    PROVE  Bytes(s)[i] < Bytes(s)[j]
<1>1. PICK N \in Nat : N = Len(s)
  OBVIOUS
<1>2. PICK b : b = Bytes(s)
  OBVIOUS
<1>3. b \in [0 .. N -> Nat] /\ \A n \in 1 .. N : b[n] = b[n - 1] + Width[s[n]] /\ Width[s[n]] \in Nat \ {0}
  BY <1>1, <1>2, BytesAre
<1>4. PICK T : T = {k \in 0 .. N : i < k /\ ~(b[i] < b[k])}
  OBVIOUS
<1>5. ASSUME T # {} PROVE FALSE
  <2>1. T \in SUBSET Nat
    BY <1>4
  <2>2. PICK k \in T : \A y \in T : k <= y
    BY <1>5, <2>1, LeastNat
  <2>3. k \in 0 .. N /\ i < k /\ ~(b[i] < b[k])
    BY <1>4, <2>2
  <2>4. k \in 1 .. N /\ k - 1 \in 0 .. N /\ ~(k <= k - 1) /\ i \in 0 .. N
    BY <1>1, <2>3
  <2>5. PICK w \in Nat \ {0} : b[k] = b[k - 1] + w
    BY <1>3, <2>4
  <2>6. b[k - 1] \in Nat /\ b[i] \in Nat
    BY <1>3, <2>4
  <2>7. b[k - 1] < b[k]
    BY <2>5, <2>6
  <2>8. CASE i = k - 1
    BY <2>3, <2>7, <2>8
  <2>9. CASE i # k - 1
    <3>1. i < k - 1
      BY <2>3, <2>4, <2>9
    <3>2. b[i] < b[k - 1]
      BY <1>4, <2>2, <2>4, <3>1
    <3> QED
      BY <2>3, <2>5, <2>6, <3>2
  <2> QED
    BY <2>8, <2>9
<1> QED
  BY <1>1, <1>2, <1>4, <1>5

\* So a boundary is one of one number of characters.
LEMMA BoundaryIs ==
    ASSUME NEW s \in Seq(Chars), NEW n \in 0 .. Len(s)
    PROVE  /\ Bytes(s)[n] \in Nat /\ IsBoundary(s, Bytes(s)[n]) /\ CharsBefore(s, Bytes(s)[n]) = n
           /\ Bytes(s)[n] <= ByteLength(s) /\ (Bytes(s)[n] < ByteLength(s) <=> n < Len(s))
           /\ (Bytes(s)[n] > 0 <=> n > 0) /\ (Bytes(s)[n] = 0 <=> n = 0)
<1>1. PICK N \in Nat : N = Len(s)
  OBVIOUS
<1>2. PICK b : b = Bytes(s)
  OBVIOUS
<1>3. b \in [0 .. N -> Nat] /\ b[0] = 0
  BY <1>1, <1>2, BytesAre
<1>4. \A i, j \in 0 .. N : i < j => b[i] < b[j]
  BY <1>1, <1>2, BytesRise
<1>5. n \in 0 .. N /\ N \in 0 .. N /\ 0 \in 0 .. N
  BY <1>1
<1>6. \A m \in 0 .. N : b[m] = b[n] => m = n
  <2> SUFFICES ASSUME NEW m \in 0 .. N, b[m] = b[n] PROVE m = n
    OBVIOUS
  <2>1. ~(m < n) /\ ~(n < m)
    <3>1. b[m] \in Nat /\ b[n] \in Nat
      BY <1>3, <1>5
    <3> QED
      BY <1>4, <1>5, <3>1
  <2> QED
    BY <1>5, <2>1
<1>7. IsBoundary(s, b[n])
  BY <1>1, <1>2, <1>5 DEF IsBoundary
<1>8. CharsBefore(s, b[n]) = n
  <2>1. (CHOOSE m \in 0 .. N : b[m] = b[n]) = n
    BY <1>5, <1>6
  <2> QED
    BY <1>1, <1>2, <2>1 DEF CharsBefore
<1>9. ByteLength(s) = b[N]
  BY <1>1, <1>2 DEF ByteLength
<1>10. b[n] \in Nat /\ b[N] \in Nat
  BY <1>3, <1>5
<1>11. b[n] <= b[N] /\ (b[n] < b[N] <=> n < N)
  <2>1. CASE n < N
    BY <1>4, <1>5, <1>10, <2>1
  <2>2. CASE n = N
    BY <1>10, <2>2
  <2> QED
    BY <1>5, <2>1, <2>2
<1>12. (b[n] > 0 <=> n > 0) /\ (b[n] = 0 <=> n = 0)
  <2>1. CASE n > 0
    <3>1. b[0] < b[n]
      BY <1>4, <1>5, <2>1
    <3> QED
      BY <1>3, <1>10, <2>1, <3>1
  <2>2. CASE n = 0
    BY <1>3, <2>2
  <2> QED
    BY <1>5, <2>1, <2>2
<1> QED
  BY <1>1, <1>2, <1>7, <1>8, <1>9, <1>10, <1>11, <1>12

\* The bytes of v where it lies in s after n characters.
LEMMA BytesWithin ==
    ASSUME NEW s \in Seq(Chars), NEW v \in Seq(Chars), NEW n \in Nat, NEW k \in 0 .. Len(v),
           n + k <= Len(s), \A i \in 1 .. k : s[n + i] = v[i]
    PROVE  Bytes(s)[n + k] = Bytes(s)[n] + Bytes(v)[k]
<1>1s. PICK N \in Nat : N = Len(s)
  OBVIOUS
<1>1v. PICK K \in Nat : K = Len(v)
  OBVIOUS
<1>1. N = Len(s) /\ K = Len(v)
  BY <1>1s, <1>1v
<1>2. PICK b : b = Bytes(s)
  OBVIOUS
<1>2v. PICK d : d = Bytes(v)
  OBVIOUS
<1>3. b \in [0 .. N -> Nat] /\ \A i \in 1 .. N : b[i] = b[i - 1] + Width[s[i]] /\ Width[s[i]] \in Nat \ {0}
  BY <1>1, <1>2, BytesAre
<1>4. d \in [0 .. K -> Nat] /\ d[0] = 0 /\ \A i \in 1 .. K : d[i] = d[i - 1] + Width[v[i]]
  BY <1>1, <1>2v, BytesAre
<1>5. PICK T : T = {j \in 0 .. k : ~(b[n + j] = b[n] + d[j])}
  OBVIOUS
<1>6. ASSUME T # {} PROVE FALSE
  <2>1. T \in SUBSET Nat
    BY <1>5
  <2>2. PICK j \in T : \A y \in T : j <= y
    BY <1>6, <2>1, LeastNat
  <2>3. j \in 0 .. k /\ ~(b[n + j] = b[n] + d[j])
    BY <1>5, <2>2
  <2>4. n \in 0 .. N /\ b[n] \in Nat
    <3>1. n \in 0 .. N
      BY <1>1
    <3> QED
      BY <1>3, <3>1
  <2>5. j # 0
    <3>1. b[n + 0] = b[n]
      OBVIOUS
    <3> QED
      BY <1>4, <2>3, <2>4, <3>1
  <2>6. j \in 1 .. k /\ j \in 1 .. K /\ j - 1 \in 0 .. k /\ j - 1 \in 0 .. K /\ ~(j <= j - 1) /\ n + j \in 1 .. N
        /\ (n + j) - 1 = n + (j - 1)
    BY <1>1, <2>3, <2>5
  <2>7. b[n + (j - 1)] = b[n] + d[j - 1]
    BY <1>5, <2>2, <2>6
  <2>8. PICK w \in Nat : w = Width[s[n + j]]
    BY <1>3, <2>6
  <2>9. b[n + j] = b[n + (j - 1)] + w
    BY <1>3, <2>6, <2>8
  <2>10. d[j] = d[j - 1] + w
    BY <1>4, <2>6, <2>8
  <2>11. d[j - 1] \in Nat
    BY <1>4, <2>6
  <2> QED
    BY <2>3, <2>4, <2>7, <2>9, <2>10, <2>11
<1>7. k \in 0 .. k
  BY <1>1
<1> QED
  BY <1>2, <1>2v, <1>5, <1>6, <1>7

LEMMA SamePrefix ==
    ASSUME NEW s \in Seq(Chars), NEW t \in Seq(Chars), NEW n \in 0 .. Len(s), n <= Len(t),
           \A i \in 1 .. n : s[i] = t[i]
    PROVE  Bytes(s)[n] = Bytes(t)[n]
<1>1. PICK z \in Nat : z = 0
  OBVIOUS
<1>2. n \in 0 .. Len(t) /\ z + n <= Len(s) /\ z + n = n
  BY <1>1
<1>3. \A i \in 1 .. n : s[z + i] = t[i]
  BY <1>1
<1>4. Bytes(s)[z + n] = Bytes(s)[z] + Bytes(t)[n]
  BY <1>2, <1>3, BytesWithin
<1>5. Bytes(s)[z] = 0 /\ Bytes(t)[n] \in Nat
  BY <1>1, <1>2, BytesAre, BoundaryIs
<1> QED
  BY <1>2, <1>4, <1>5

\* Characters of one byte each are as many as their bytes.
LEMMA NarrowBytes ==
    ASSUME NEW s \in Seq(Chars), \A i \in 1 .. Len(s) : ~(Width[s[i]] > 1), NEW n \in 0 .. Len(s)
    PROVE  Bytes(s)[n] = n
<1>1. PICK N \in Nat : N = Len(s)
  OBVIOUS
<1>2. PICK b : b = Bytes(s)
  OBVIOUS
<1>3. b[0] = 0 /\ \A i \in 1 .. N : b[i] = b[i - 1] + Width[s[i]] /\ Width[s[i]] \in Nat \ {0}
  BY <1>1, <1>2, BytesAre
<1>4. \A i \in 1 .. N : Width[s[i]] = 1
  BY <1>1, <1>3
<1>5. PICK T : T = {k \in 0 .. N : b[k] # k}
  OBVIOUS
<1>6. ASSUME T # {} PROVE FALSE
  <2>1. T \in SUBSET Nat
    BY <1>5
  <2>2. PICK k \in T : \A y \in T : k <= y
    BY <1>6, <2>1, LeastNat
  <2>3. k \in 0 .. N /\ b[k] # k
    BY <1>5, <2>2
  <2>4. k \in 1 .. N /\ k - 1 \in 0 .. N /\ ~(k <= k - 1)
    BY <1>1, <1>3, <2>3
  <2>5. b[k - 1] = k - 1
    BY <1>5, <2>2, <2>4
  <2> QED
    BY <1>3, <1>4, <2>3, <2>4, <2>5
<1> QED
  BY <1>1, <1>2, <1>5, <1>6

\* The character before the n-th boundary, asked for at the byte before it.
LEMMA BeforeCaret ==
    ASSUME NEW s \in Seq(Chars), NEW n \in 1 .. Len(s), NEW p \in Int, p = Bytes(s)[n] - 1
    PROVE  /\ ~SlicePanics(s, p) => CharLen(s, p) = 1 /\ p = Bytes(s)[n - 1]
           /\ SlicePanics(s, p) => \E i \in 1 .. Len(s) : Width[s[i]] > 1
<1>1. PICK N \in Nat : N = Len(s)
  OBVIOUS
<1>2. PICK b : b = Bytes(s)
  OBVIOUS
<1>3. b \in [0 .. N -> Nat] /\ \A i \in 1 .. N : b[i] = b[i - 1] + Width[s[i]] /\ Width[s[i]] \in Nat \ {0}
  BY <1>1, <1>2, BytesAre
<1>4. n \in 1 .. N /\ n \in 0 .. N /\ n - 1 \in 0 .. N /\ N \in 0 .. N
  BY <1>1
<1>5. b[n] \in Nat /\ b[n - 1] \in Nat /\ b[N] \in Nat
  BY <1>3, <1>4
<1>6. ByteLength(s) = b[N]
  BY <1>1, <1>2 DEF ByteLength
<1>7. b[n] <= b[N]
  BY <1>1, <1>2, <1>4, <1>6, BoundaryIs
<1>8. p < ByteLength(s) /\ ~(p >= ByteLength(s))
  BY <1>2, <1>5, <1>6, <1>7
<1>9. ASSUME ~SlicePanics(s, p) PROVE CharLen(s, p) = 1 /\ p = b[n - 1]
  <2>1. IsBoundary(s, p)
    BY <1>8, <1>9 DEF SlicePanics
  <2>2. PICK m \in 0 .. N : b[m] = p
    BY <1>1, <1>2, <2>1 DEF IsBoundary
  <2>3. m < n
    <3>1. ASSUME ~(m < n) PROVE FALSE
      <4>1. CASE m = n
        BY <1>2, <1>5, <2>2, <4>1
      <4>2. CASE n < m
        <5>1. b[n] < b[m]
          BY <1>1, <1>2, <1>4, <2>2, <4>2, BytesRise
        <5> QED
          BY <1>2, <1>5, <2>2, <5>1
      <4> QED
        BY <1>4, <3>1, <4>1, <4>2
    <3> QED
      BY <3>1
  <2>4. PICK w \in Nat \ {0} : w = Width[s[n]]
    BY <1>3, <1>4
  <2>5. b[n] = b[n - 1] + w
    BY <1>3, <1>4, <2>4
  <2>6. m = n - 1
    <3>1. ASSUME m # n - 1 PROVE FALSE
      <4>1. m < n - 1
        BY <1>4, <2>3, <3>1
      <4>2. PICK k \in 0 .. N : k = n - 1
        BY <1>4
      <4>3. b[m] < b[k]
        BY <1>1, <1>2, <2>2, <4>1, <4>2, BytesRise
      <4> QED
        BY <1>2, <1>5, <2>2, <2>4, <2>5, <4>2, <4>3
    <3> QED
      BY <3>1
  <2>7. w = 1
    BY <1>2, <1>5, <2>2, <2>4, <2>5, <2>6
  <2>8. PICK k \in 0 .. N : k = n - 1
    BY <1>4
  <2>9. CharsBefore(s, b[k]) = k
    BY <1>1, <1>2, <2>8, BoundaryIs
  <2>10. CharsBefore(s, p) + 1 = n
    BY <1>4, <2>2, <2>6, <2>8, <2>9
  <2> QED
    BY <1>8, <2>2, <2>4, <2>6, <2>7, <2>10 DEF CharLen
<1>10. ASSUME SlicePanics(s, p) PROVE \E i \in 1 .. Len(s) : Width[s[i]] > 1
  <2>1. ASSUME \A i \in 1 .. Len(s) : ~(Width[s[i]] > 1) PROVE FALSE
    <3>1. \A k \in 0 .. N : b[k] = k
      BY <1>1, <1>2, <2>1, NarrowBytes
    <3>2. b[n - 1] = p
      BY <1>2, <1>4, <3>1
    <3>3. IsBoundary(s, p)
      BY <1>1, <1>2, <1>4, <3>2 DEF IsBoundary
    <3> QED
      BY <1>10, <3>3 DEF SlicePanics
  <2> QED
    BY <2>1
<1> QED
  BY <1>2, <1>9, <1>10

LEMMA AtCaret ==
    ASSUME NEW s \in Seq(Chars), NEW n \in 0 .. Len(s)
    PROVE  /\ n < Len(s) => Bytes(s)[n] + CharLen(s, Bytes(s)[n]) = Bytes(s)[n + 1]
           /\ ~(n < Len(s)) => Bytes(s)[n] + CharLen(s, Bytes(s)[n]) = Bytes(s)[n]
<1>1. PICK N \in Nat : N = Len(s)
  OBVIOUS
<1>2. PICK b : b = Bytes(s)
  OBVIOUS
<1>3. PICK p \in Nat : p = b[n]
  BY <1>2, BoundaryIs
<1>4. CharsBefore(s, p) = n /\ p <= ByteLength(s) /\ (p < ByteLength(s) <=> n < N)
  BY <1>1, <1>2, <1>3, BoundaryIs
<1>5. PICK c \in Nat : c = ByteLength(s)
  <2>1. N \in 0 .. Len(s)
    BY <1>1
  <2>2. b[N] \in Nat
    BY <1>2, <2>1, BoundaryIs
  <2> QED
    BY <1>1, <1>2, <2>2 DEF ByteLength
<1>6. CASE n < N
  <2>1. CharLen(s, p) = Width[s[n + 1]]
    BY <1>3, <1>4, <1>5, <1>6 DEF CharLen
  <2>2. PICK k \in 1 .. N : k = n + 1
    BY <1>1, <1>6
  <2>3. k - 1 = n
    BY <1>1, <2>2
  <2>4. b[k] = b[k - 1] + Width[s[k]]
    BY <1>1, <1>2, <2>2, BytesAre
  <2> QED
    BY <1>1, <1>2, <1>3, <1>6, <2>1, <2>2, <2>3, <2>4
<1>7. CASE ~(n < N)
  <2>1. CharLen(s, p) = 0
    BY <1>3, <1>4, <1>5, <1>7 DEF CharLen
  <2> QED
    BY <1>1, <1>2, <1>3, <1>7, <2>1
<1> QED
  BY <1>6, <1>7

\* Going back over characters of a class ends before where it started.
LEMMA BackOverIn ==
    ASSUME NEW s \in Seq(Chars), NEW n \in 0 .. Len(s), NEW class, NEW floor \in Nat
    PROVE  BackOver(s, n, class, floor) \in 0 .. n
<1>1. n \in Nat
  OBVIOUS
<1>2. PICK S : S = 0 .. n
  OBVIOUS
<1>3. PICK step : step = [k \in 1 .. n |-> [x \in S |-> IF k > floor /\ s[k] \in class THEN x ELSE k]]
  OBVIOUS
<1>4. \A k \in 1 .. n : \A x \in S : step[k][x] = IF k > floor /\ s[k] \in class THEN x ELSE k
  BY <1>3
<1>5. StepsIn(S, n, step)
  <2>1. \A k \in 1 .. n : k \in S
    BY <1>1, <1>2
  <2>2. \A k \in 1 .. n : \A x \in S : step[k][x] \in S
    BY <1>4, <2>1
  <2> QED
    BY <2>2 DEF StepsIn
<1>6. PICK a \in S : a = 0
  BY <1>1, <1>2
<1>7. PICK g : Steps(g, S, n, a, step)
  BY <1>1, <1>5, <1>6, StepsExist
<1>8. g \in [0 .. n -> S] /\ g[0] = 0 /\ \A k \in 1 .. n : g[k] = step[k][g[k - 1]]
  BY <1>6, <1>7 DEF Steps
<1>9. \A k \in 1 .. n : k - 1 \in 0 .. n
  BY <1>1
<1>10. \A k \in 1 .. n : g[k] = IF k > floor /\ s[k] \in class THEN g[k - 1] ELSE k
  <2> TAKE k \in 1 .. n
  <2>1. g[k - 1] \in S
    BY <1>8, <1>9
  <2> QED
    BY <1>4, <1>8, <2>1
<1>11. g = [k \in 0 .. n |-> IF k > floor /\ s[k] \in class THEN g[k - 1] ELSE k]
  <2>1. PICK h : h = [k \in 0 .. n |-> IF k > floor /\ s[k] \in class THEN g[k - 1] ELSE k]
    OBVIOUS
  <2>2. \A k \in 0 .. n : k = 0 \/ k \in 1 .. n
    BY <1>1
  <2>3. ~(0 > floor) /\ 0 \in 0 .. n
    BY <1>1
  <2>4. \A k \in 0 .. n : g[k] = h[k]
    BY <1>8, <1>10, <2>1, <2>2, <2>3
  <2>5. g = h
    BY <1>8, <2>1, <2>4
  <2> QED
    BY <2>1, <2>5
<1>12. ASSUME NEW u, u = [k \in 0 .. n |-> IF k > floor /\ s[k] \in class THEN u[k - 1] ELSE k] PROVE u = g
  <2>1. PICK T : T = {k \in 0 .. n : u[k] # g[k]}
    OBVIOUS
  <2>2. ASSUME T # {} PROVE FALSE
    <3>1. T \in SUBSET Nat
      BY <2>1
    <3>2. PICK k \in T : \A y \in T : k <= y
      BY <2>2, <3>1, LeastNat
    <3>3. k \in 0 .. n /\ u[k] # g[k]
      BY <2>1, <3>2
    <3>4. k > floor /\ s[k] \in class
      BY <1>11, <1>12, <3>3
    <3>5. k - 1 \in 0 .. n /\ ~(k <= k - 1)
      BY <1>1, <3>3, <3>4
    <3>6. u[k - 1] = g[k - 1]
      BY <2>1, <3>2, <3>5
    <3> QED
      BY <1>11, <1>12, <3>3, <3>4, <3>6
  <2>3. \A k \in 0 .. n : u[k] = g[k]
    BY <2>1, <2>2
  <2>4. u = [k \in 0 .. n |-> u[k]] /\ g = [k \in 0 .. n |-> g[k]]
    BY <1>8, <1>12
  <2> QED
    BY <2>3, <2>4
<1>13. BackOver(s, n, class, floor) = g[n]
  BY <1>11, <1>12 DEF BackOver
<1>14. g[n] \in S
  BY <1>1, <1>8
<1> QED
  BY <1>2, <1>13, <1>14

LEMMA WordStartIn ==
    ASSUME NEW s \in Seq(Chars), NEW n \in 0 .. Len(s)
    PROVE  WordStart(s, n) \in 0 .. n
<1>1. PICK v : v = BackOver(s, n, Separators, 1)
  OBVIOUS
<1>2. v \in 0 .. n
  BY <1>1, BackOverIn
<1>3. v \in 0 .. Len(s)
  BY <1>2
<1>4. PICK w : w = BackOver(s, v, Letters, 0)
  OBVIOUS
<1>5. w \in 0 .. v
  BY <1>3, <1>4, BackOverIn
<1>6. w \in 0 .. n /\ n \in 0 .. n
  BY <1>2, <1>5
<1> QED
  BY <1>1, <1>4, <1>6 DEF WordStart

\* Deleting characters leaves those before them.
LEMMA WithoutIs ==
    ASSUME NEW s \in Seq(Chars), NEW from \in 0 .. Len(s), NEW to \in 0 .. Len(s), from <= to
    PROVE  /\ Without(s, from, to) \in Seq(Chars) /\ from \in 0 .. Len(Without(s, from, to))
           /\ Bytes(Without(s, from, to))[from] = Bytes(s)[from]
<1>1. PICK N \in Nat : N = Len(s)
  OBVIOUS
<1>2. \A i \in 1 .. N : s[i] \in Chars
  BY <1>1
<1>3. PICK f \in Int : f = 1
  OBVIOUS
<1>4. PICK m \in Int : m = to + 1
  OBVIOUS
<1>5. PICK a : a = SubSeq(s, f, from)
  OBVIOUS
<1>6. PICK c : c = SubSeq(s, m, N)
  OBVIOUS
<1>7. \A i \in f .. from : s[i] \in Chars
  BY <1>1, <1>2, <1>3
<1>8. a \in Seq(Chars) /\ Len(a) = (IF f <= from THEN from - f + 1 ELSE 0) /\ \A i \in 1 .. from - f + 1 : a[i] = s[f + i - 1]
  BY <1>3, <1>5, <1>7, SubSeqProperties
<1>9. Len(a) = from /\ \A i \in 1 .. from : a[i] = s[i]
  BY <1>3, <1>8
<1>10. \A i \in m .. N : s[i] \in Chars
  BY <1>1, <1>2, <1>4
<1>11. c \in Seq(Chars)
  BY <1>1, <1>4, <1>6, <1>10, SubSeqProperties
<1>12. PICK t : t = a \o c
  OBVIOUS
<1>13. t \in Seq(Chars) /\ Len(t) = Len(a) + Len(c)
       /\ \A i \in 1 .. Len(a) + Len(c) : t[i] = IF i <= Len(a) THEN a[i] ELSE c[i - Len(a)]
  BY <1>8, <1>11, <1>12, ConcatProperties
<1>14. PICK C \in Nat : C = Len(c)
  BY <1>11
<1>15. Len(t) = from + C /\ \A i \in 1 .. from : t[i] = s[i]
  BY <1>9, <1>13, <1>14
<1>16. from <= Len(t) /\ from \in 0 .. Len(t)
  BY <1>14, <1>15
<1>17. Bytes(s)[from] = Bytes(t)[from]
  BY <1>13, <1>15, <1>16, SamePrefix
<1>18. Without(s, from, to) = t
  BY <1>1, <1>3, <1>4, <1>5, <1>6, <1>12 DEF Without
<1> QED
  BY <1>13, <1>16, <1>17, <1>18

\* Inserted characters end where their bytes after the caret end.
Inserted(s, v, n) == SubSeq(s, 1, n) \o v \o SubSeq(s, n + 1, Len(s))

LEMMA InsertedIs ==
    ASSUME NEW s \in Seq(Chars), NEW v \in Seq(Chars), NEW n \in 0 .. Len(s), NEW u,
           u = Inserted(s, v, n)
    PROVE  /\ u \in Seq(Chars) /\ n + Len(v) \in 0 .. Len(u)
           /\ Bytes(u)[n + Len(v)] = Bytes(s)[n] + ByteLength(v)
<1>1. PICK N \in Nat : N = Len(s)
  OBVIOUS
<1>2. \A i \in 1 .. N : s[i] \in Chars
  BY <1>1
<1>3. PICK f \in Int : f = 1
  OBVIOUS
<1>4. PICK m \in Int : m = n + 1
  OBVIOUS
<1>5. PICK a : a = SubSeq(s, f, n)
  OBVIOUS
<1>6. PICK c : c = SubSeq(s, m, N)
  OBVIOUS
<1>7. \A i \in f .. n : s[i] \in Chars
  BY <1>1, <1>2, <1>3
<1>8. a \in Seq(Chars) /\ Len(a) = (IF f <= n THEN n - f + 1 ELSE 0) /\ \A i \in 1 .. n - f + 1 : a[i] = s[f + i - 1]
  BY <1>3, <1>5, <1>7, SubSeqProperties
<1>9. Len(a) = n /\ \A i \in 1 .. n : a[i] = s[i]
  BY <1>3, <1>8
<1>10. \A i \in m .. N : s[i] \in Chars
  BY <1>1, <1>2, <1>4
<1>11. c \in Seq(Chars)
  BY <1>1, <1>4, <1>6, <1>10, SubSeqProperties
<1>12. PICK C \in Nat : C = Len(c)
  BY <1>11
<1>13. PICK K \in Nat : K = Len(v)
  OBVIOUS
<1>14. PICK t : t = a \o v
  OBVIOUS
<1>15. t \in Seq(Chars) /\ Len(t) = Len(a) + Len(v)
       /\ \A i \in 1 .. Len(a) + Len(v) : t[i] = IF i <= Len(a) THEN a[i] ELSE v[i - Len(a)]
  BY <1>8, <1>14, ConcatProperties
<1>16. Len(t) = n + K /\ \A i \in 1 .. n + K : t[i] = IF i <= n THEN a[i] ELSE v[i - n]
  BY <1>9, <1>13, <1>15
<1>17. u = t \o c
  BY <1>1, <1>3, <1>4, <1>5, <1>6, <1>14 DEF Inserted
<1>18. u \in Seq(Chars) /\ Len(u) = Len(t) + Len(c)
       /\ \A i \in 1 .. Len(t) + Len(c) : u[i] = IF i <= Len(t) THEN t[i] ELSE c[i - Len(t)]
  <2>1. t \in Seq(Chars)
    BY <1>15
  <2>2. PICK x : x = t \o c
    OBVIOUS
  <2>3. x \in Seq(Chars) /\ Len(x) = Len(t) + Len(c)
        /\ \A i \in 1 .. Len(t) + Len(c) : x[i] = IF i <= Len(t) THEN t[i] ELSE c[i - Len(t)]
    BY <1>11, <2>1, <2>2, ConcatProperties
  <2>4. u = x
    BY <1>17, <2>2
  <2> QED
    BY <2>3, <2>4
<1>19. PICK q \in Nat : q = n + K
  OBVIOUS
<1>20. Len(u) = q + C /\ \A i \in 1 .. q : u[i] = t[i]
  BY <1>12, <1>16, <1>18, <1>19
<1>21. \A i \in 1 .. n : u[i] = s[i]
  BY <1>9, <1>16, <1>19, <1>20
<1>22. \A i \in 1 .. K : u[n + i] = v[i]
  <2> TAKE i \in 1 .. K
  <2>1. PICK j \in 1 .. q : j = n + i
    BY <1>19
  <2>2. u[j] = t[j] /\ t[j] = v[j - n] /\ j - n = i
    BY <1>16, <1>19, <1>20, <2>1
  <2> QED
    BY <2>1, <2>2
<1>23. n <= Len(u) /\ n + K <= Len(u) /\ n + K \in 0 .. Len(u)
  BY <1>12, <1>19, <1>20
<1>24. Bytes(s)[n] = Bytes(u)[n]
  BY <1>18, <1>21, <1>23, SamePrefix
<1>25. n \in Nat /\ K \in 0 .. Len(v)
  BY <1>13
<1>26. Bytes(u)[n + K] = Bytes(u)[n] + Bytes(v)[K]
  <2>1. u \in Seq(Chars)
    BY <1>18
  <2>2. n + K <= Len(u)
    BY <1>23
  <2> QED
    BY <1>22, <1>25, <2>1, <2>2, BytesWithin
<1> QED
  BY <1>13, <1>18, <1>23, <1>24, <1>26 DEF ByteLength

-----------------------------------------------------------------------------
(* TextInput: the caret and the selection in the text.                       *)

\* The caret is where some number of characters ends, in both of its
\* positions; of the other end of the selection only the byte is kept so.
CaretAt(s, c) == \E n \in 0 .. Len(s) : c = AtChar(s, n)
AnchorAt(s, a) == \E n \in 0 .. Len(s) : a.byte = Bytes(s)[n]

TextInv ==
    /\ text \in Seq(Chars)
    /\ CaretAt(text, caret) /\ AnchorAt(text, anchor)
    /\ GameAgrees /\ NarrowTextSafe

LEMMA CaretEnds ==
    ASSUME NEW s \in Seq(Chars), NEW c, CaretAt(s, c)
    PROVE  AnchorAt(s, c)
BY DEF CaretAt, AnchorAt, AtChar

LEMMA EndAt ==
    ASSUME NEW s \in Seq(Chars)
    PROVE  CaretAt(s, EndOf(s)) /\ CaretAt(s, Start) /\ EndOf(s).utf = Len(s)
<1>1. PICK N \in Nat : N = Len(s)
  OBVIOUS
<1>2. N \in 0 .. Len(s) /\ 0 \in 0 .. Len(s)
  BY <1>1
<1>3. EndOf(s) = AtChar(s, N)
  BY <1>1 DEF EndOf, AtChar, ByteLength
<1>4. Start = AtChar(s, 0)
  BY BytesAre DEF Start, AtChar
<1> QED
  BY <1>1, <1>2, <1>3, <1>4 DEF CaretAt, EndOf

LEMMA ReplacedKeeps ==
    ASSUME NEW t \in Seq(Chars), Replaced(t), ~crashed'
    PROVE  TextInv'
<1>1. PICK c : c = EndOf(t)
  OBVIOUS
<1>2. CaretAt(t, c) /\ AnchorAt(t, c) /\ c.utf = Len(t)
  BY <1>1, EndAt, CaretEnds
<1>3. text' = t /\ caret' = c /\ anchor' = c /\ told' = [text |-> t, caret |-> Len(t)]
  BY <1>1 DEF Replaced
<1>4. CaretAt(text', caret') /\ AnchorAt(text', anchor')
  BY <1>2, <1>3
<1>5. GameAgrees'
  BY <1>2, <1>3 DEF GameAgrees
<1>6. NarrowTextSafe'
  BY DEF NarrowTextSafe
<1> QED
  BY <1>3, <1>4, <1>5, <1>6 DEF TextInv

LEMMA EditedKeeps ==
    ASSUME NEW s \in Seq(Chars), NEW c, CaretAt(s, c), Edited(s, c), ~crashed
    PROVE  TextInv'
<1>1. text' = s /\ caret' = c /\ anchor' = (IF anchor.byte # c.byte THEN c ELSE anchor)
      /\ told' = [text |-> s, caret |-> c.utf] /\ crashed' = crashed
  BY DEF Edited
<1>2. AnchorAt(s, c)
  BY CaretEnds
<1>3. AnchorAt(s, anchor')
  <2>1. CASE anchor.byte # c.byte
    BY <1>1, <1>2, <2>1
  <2>2. CASE anchor.byte = c.byte
    BY <1>1, <1>2, <2>2 DEF AnchorAt
  <2> QED
    BY <2>1, <2>2
<1>4. CaretAt(text', caret') /\ AnchorAt(text', anchor')
  BY <1>1, <1>3
<1>5. GameAgrees'
  BY <1>1 DEF GameAgrees
<1>6. NarrowTextSafe'
  BY <1>1 DEF NarrowTextSafe
<1> QED
  BY <1>1, <1>4, <1>5, <1>6 DEF TextInv

\* A caret that moves in the text it is in.
LEMMA MovedKeeps ==
    ASSUME TextInv, NEW c, NEW a, CaretAt(text, c), AnchorAt(text, a),
           caret' = c, anchor' = a, TellCaret(c), text' = text, enabled' = enabled
    PROVE  /\ text' \in Seq(Chars) /\ CaretAt(text', caret') /\ AnchorAt(text', anchor')
           /\ GameAgrees'
<1>1. text' \in Seq(Chars) /\ CaretAt(text', caret') /\ AnchorAt(text', anchor')
  BY DEF TextInv
<1>2. enabled => told = [text |-> text, caret |-> caret.utf]
  BY DEF TextInv, GameAgrees
<1>3. told' = [told EXCEPT !.caret = c.utf]
  BY DEF TellCaret
<1>4. enabled => told' = [text |-> text, caret |-> c.utf]
  BY <1>2, <1>3
<1>5. GameAgrees'
  BY <1>4 DEF GameAgrees
<1> QED
  BY <1>1, <1>5

LEMMA StaysKeeps ==
    ASSUME TextInv, UNCHANGED <<text, caret, anchor>>
    PROVE  text' \in Seq(Chars) /\ CaretAt(text', caret') /\ AnchorAt(text', anchor')
BY DEF TextInv

-----------------------------------------------------------------------------
(* TextInput: one lemma for each action.                                     *)

LEMMA TextInitKeeps == TextInit => TextInv
<1> SUFFICES ASSUME TextInit PROVE TextInv
  OBVIOUS
<1>1. text \in Seq(Chars) /\ caret = Start /\ anchor = Start /\ ~enabled /\ ~crashed
  BY DEF TextInit
<1>2. CaretAt(text, caret) /\ AnchorAt(text, anchor)
  BY <1>1, EndAt, CaretEnds
<1> QED
  BY <1>1, <1>2 DEF TextInv, GameAgrees, NarrowTextSafe

LEMMA EnableKeeps ==
    ASSUME TextInv, NEW t \in Seq(Chars), Enable(t)
    PROVE  TextInv'
<1>1. PICK x : x = IF keepOnce /\ text # <<>> THEN Append(t, Last(text)) ELSE t
  OBVIOUS
<1>2. Replaced(x) /\ ~crashed'
  BY <1>1 DEF Enable
<1>3. x \in Seq(Chars)
  <2>1. CASE keepOnce /\ text # <<>>
    <3>1. text \in Seq(Chars)
      BY DEF TextInv
    <3>2. PICK N \in Nat : N = Len(text)
      BY <3>1
    <3>3. N # 0
      BY <2>1, <3>1, <3>2
    <3>4. N \in 1 .. Len(text)
      BY <3>2, <3>3
    <3>5. PICK l \in Chars : l = text[N]
      BY <3>1, <3>4
    <3>6. Last(text) = l
      BY <3>2, <3>5 DEF Last
    <3>7. Append(t, l) \in Seq(Chars)
      BY AppendProperties
    <3> QED
      BY <1>1, <2>1, <3>6, <3>7
  <2>2. CASE ~(keepOnce /\ text # <<>>)
    BY <1>1, <2>2
  <2> QED
    BY <2>1, <2>2
<1> QED
  BY <1>2, <1>3, ReplacedKeeps

LEMMA UpdateKeeps ==
    ASSUME TextInv, NEW t \in Seq(Chars), Update(t)
    PROVE  TextInv'
<1>1. Replaced(t) /\ ~crashed'
  BY DEF Update
<1> QED
  BY <1>1, ReplacedKeeps

LEMMA DisableKeeps ==
    ASSUME TextInv, Disable
    PROVE  TextInv'
<1>1. PICK t : t = IF keepOnce THEN text ELSE <<>>
  OBVIOUS
<1>2. text' = t /\ caret' = Start /\ anchor' = Start /\ ~enabled' /\ ~crashed'
  BY <1>1 DEF Disable
<1>3. t \in Seq(Chars)
  BY <1>1 DEF TextInv
<1>4. CaretAt(t, Start) /\ AnchorAt(t, Start)
  BY <1>3, EndAt, CaretEnds
<1>5. CaretAt(text', caret') /\ AnchorAt(text', anchor')
  BY <1>2, <1>4
<1> QED
  BY <1>2, <1>3, <1>5 DEF TextInv, GameAgrees, NarrowTextSafe

LEMMA SetKeepLastCharOnceKeeps ==
    ASSUME TextInv, SetKeepLastCharOnce
    PROVE  TextInv'
<1>1. UNCHANGED <<text, caret, anchor>> /\ enabled' = enabled /\ told' = told /\ ~crashed'
  BY DEF SetKeepLastCharOnce
<1>2. text' \in Seq(Chars) /\ CaretAt(text', caret') /\ AnchorAt(text', anchor')
  BY <1>1, StaysKeeps
<1>3. GameAgrees' /\ NarrowTextSafe'
  BY <1>1 DEF TextInv, GameAgrees, NarrowTextSafe
<1> QED
  BY <1>2, <1>3 DEF TextInv

LEMMA SetCursorPositionKeeps ==
    ASSUME TextInv, NEW pos \in Int, SetCursorPosition(pos)
    PROVE  TextInv'
<1>1. text \in Seq(Chars)
  BY DEF TextInv
<1>2. PICK c : c = IF pos < 0 \/ pos > Len(text) THEN EndOf(text) ELSE AtChar(text, pos)
  OBVIOUS
<1>3. CaretAt(text, c)
  <2>1. CASE pos < 0 \/ pos > Len(text)
    BY <1>1, <1>2, <2>1, EndAt
  <2>2. CASE ~(pos < 0 \/ pos > Len(text))
    <3>1. pos \in 0 .. Len(text)
      BY <1>1, <2>2
    <3> QED
      BY <1>2, <2>2, <3>1 DEF CaretAt
  <2> QED
    BY <2>1, <2>2
<1>4. PICK a : a = IF keys.shift THEN anchor ELSE c
  OBVIOUS
<1>5. AnchorAt(text, a)
  BY <1>1, <1>3, <1>4, CaretEnds DEF TextInv
<1>6. caret' = c /\ anchor' = a /\ TellCaret(c) /\ text' = text /\ enabled' = enabled /\ ~crashed'
  BY <1>2, <1>4 DEF SetCursorPosition
<1>7. text' \in Seq(Chars) /\ CaretAt(text', caret') /\ AnchorAt(text', anchor') /\ GameAgrees'
  BY <1>3, <1>5, <1>6, MovedKeeps
<1> QED
  BY <1>6, <1>7 DEF TextInv, NarrowTextSafe

LEMMA TypedWhileDisabledKeeps ==
    ASSUME TextInv, NEW v, TypedWhileDisabled(v)
    PROVE  TextInv'
<1>1. UNCHANGED <<text, caret, anchor>> /\ ~enabled' /\ ~crashed'
  BY DEF TypedWhileDisabled
<1>2. text' \in Seq(Chars) /\ CaretAt(text', caret') /\ AnchorAt(text', anchor')
  BY <1>1, StaysKeeps
<1> QED
  BY <1>1, <1>2 DEF TextInv, GameAgrees, NarrowTextSafe

LEMMA TypedKeeps ==
    ASSUME TextInv, NEW v \in Seq(Chars), Typed(v)
    PROVE  TextInv'
<1>1. text \in Seq(Chars)
  BY DEF TextInv
<1>2. PICK n \in 0 .. Len(text) : caret = AtChar(text, n)
  BY DEF TextInv, CaretAt
<1>3. caret.byte = Bytes(text)[n]
  BY <1>2 DEF AtChar
<1>4. CharsBefore(text, caret.byte) = n
  BY <1>1, <1>3, BoundaryIs
<1>5. PICK s : s = Inserted(text, v, n)
  OBVIOUS
<1>6. PICK p : p = Bytes(text)[n] + ByteLength(v)
  OBVIOUS
<1>7. PICK c : c = AtByte(s, p)
  OBVIOUS
<1>8. Edited(s, c) /\ ~crashed
  BY <1>3, <1>4, <1>5, <1>6, <1>7 DEF Typed, Inserted
<1>9. s \in Seq(Chars) /\ n + Len(v) \in 0 .. Len(s) /\ Bytes(s)[n + Len(v)] = p
  BY <1>1, <1>5, <1>6, InsertedIs
<1>10. PICK m \in 0 .. Len(s) : m = n + Len(v)
  BY <1>9
<1>11. Bytes(s)[m] = p
  BY <1>9, <1>10
<1>12. CharsBefore(s, p) = m
  BY <1>9, <1>11, BoundaryIs
<1>13. c = AtChar(s, m)
  BY <1>7, <1>11, <1>12 DEF AtByte, AtChar
<1>14. CaretAt(s, c)
  BY <1>13 DEF CaretAt
<1> QED
  BY <1>8, <1>9, <1>14, EditedKeeps

LEMMA PanicKeeps ==
    ASSUME TextInv, Panic, \E i \in 1 .. Len(text) : Width[text[i]] > 1
    PROVE  TextInv'
<1>1. UNCHANGED <<text, caret, anchor>> /\ enabled' = enabled /\ told' = told
  BY DEF Panic
<1>2. text' \in Seq(Chars) /\ CaretAt(text', caret') /\ AnchorAt(text', anchor')
  BY <1>1, StaysKeeps
<1>3. GameAgrees'
  BY <1>1 DEF TextInv, GameAgrees
<1>4. text \in Seq(Chars) /\ DOMAIN text = 1 .. Len(text)
  BY DEF TextInv
<1>5. NarrowTextSafe'
  BY <1>1, <1>4 DEF NarrowTextSafe
<1> QED
  BY <1>2, <1>3, <1>5 DEF TextInv

LEMMA BackspaceKeeps ==
    ASSUME TextInv, Backspace
    PROVE  TextInv'
<1>1. text \in Seq(Chars)
  BY DEF TextInv
<1>2. PICK n \in 0 .. Len(text) : caret = AtChar(text, n)
  BY DEF TextInv, CaretAt
<1>3. caret.byte = Bytes(text)[n] /\ caret.utf = n
  BY <1>2 DEF AtChar
<1>4. PICK x \in Nat : x = Bytes(text)[n] /\ CharsBefore(text, x) = n /\ (x > 0 <=> n > 0)
  BY <1>1, BoundaryIs
<1>5. ~crashed
  BY DEF Backspace
<1>6. PICK c : c = caret
  OBVIOUS
<1>7. CaretAt(text, c)
  BY <1>6 DEF TextInv
<1>8. CASE caret.byte = 0
  <2>1. Edited(text, c)
    BY <1>3, <1>4, <1>6, <1>8 DEF Backspace
  <2> QED
    BY <1>1, <1>5, <1>7, <2>1, EditedKeeps
<1>9. CASE keys.alt /\ caret.byte > 0
  <2>1. PICK w \in 0 .. n : w = WordStart(text, n)
    BY <1>1, WordStartIn
  <2>2. CharsBefore(text, caret.byte) = n /\ ~(caret.byte = 0)
    BY <1>3, <1>4, <1>9
  <2>3. IF w < n THEN Edited(Without(text, w, n), AtChar(text, w)) ELSE Edited(text, caret)
    BY <1>9, <2>1, <2>2 DEF Backspace
  <2>4. CASE w < n
    <3>1. w \in 0 .. Len(text) /\ w <= n
      BY <2>1, <2>4
    <3>2. PICK s : s = Without(text, w, n)
      OBVIOUS
    <3>3. s \in Seq(Chars) /\ w \in 0 .. Len(s) /\ Bytes(s)[w] = Bytes(text)[w]
      BY <1>1, <3>1, <3>2, WithoutIs
    <3>4. PICK d : d = AtChar(text, w)
      OBVIOUS
    <3>5. d = AtChar(s, w)
      BY <3>3, <3>4 DEF AtChar
    <3>6. CaretAt(s, d)
      BY <3>3, <3>5 DEF CaretAt
    <3>7. Edited(s, d)
      BY <2>3, <2>4, <3>2, <3>4
    <3> QED
      BY <1>5, <3>3, <3>6, <3>7, EditedKeeps
  <2>5. CASE ~(w < n)
    <3>1. Edited(text, c)
      BY <1>6, <2>3, <2>5
    <3> QED
      BY <1>1, <1>5, <1>7, <3>1, EditedKeeps
  <2> QED
    BY <2>4, <2>5
<1>10. CASE ~keys.alt /\ caret.byte > 0
  <2>1. CharsBefore(text, caret.byte) = n /\ ~(caret.byte = 0)
    BY <1>3, <1>4, <1>10
  <2>2. PICK y \in Int : y = caret.byte - 1
    BY <1>3, <1>4
  <2>3. n \in 1 .. Len(text) /\ y = Bytes(text)[n] - 1
    BY <1>1, <1>3, <1>4, <1>10, <2>2
  <2>4. PICK l : l = CharLen(text, y)
    OBVIOUS
  <2>5. PICK p : p = caret.byte - l
    OBVIOUS
  <2>6. IF SlicePanics(text, y) THEN Panic
        ELSE Edited(Without(text, CharsBefore(text, p), n), [byte |-> p, utf |-> caret.utf - 1])
    BY <1>10, <2>1, <2>2, <2>4, <2>5 DEF Backspace
  <2>7. CASE SlicePanics(text, y)
    <3>1. \E i \in 1 .. Len(text) : Width[text[i]] > 1
      BY <1>1, <2>3, <2>7, BeforeCaret
    <3> QED
      BY <2>6, <2>7, <3>1, PanicKeeps
  <2>8. CASE ~SlicePanics(text, y)
    <3>1. l = 1 /\ y = Bytes(text)[n - 1]
      BY <1>1, <2>3, <2>4, <2>8, BeforeCaret
    <3>2. p = y
      BY <2>2, <2>5, <3>1
    <3>3. PICK m \in 0 .. Len(text) : m = n - 1
      BY <1>1, <2>3
    <3>4. p = Bytes(text)[m] /\ CharsBefore(text, p) = m
      BY <1>1, <3>1, <3>2, <3>3, BoundaryIs
    <3>5. m <= n
      BY <2>3, <3>3
    <3>6. PICK s : s = Without(text, m, n)
      OBVIOUS
    <3>7. s \in Seq(Chars) /\ m \in 0 .. Len(s) /\ Bytes(s)[m] = Bytes(text)[m]
      BY <1>1, <3>5, <3>6, WithoutIs
    <3>8. PICK d : d = [byte |-> p, utf |-> m]
      OBVIOUS
    <3>9. d = AtChar(s, m)
      BY <3>4, <3>7, <3>8 DEF AtChar
    <3>10. CaretAt(s, d)
      BY <3>7, <3>9 DEF CaretAt
    <3>11. caret.utf - 1 = m
      BY <1>3, <3>3
    <3>12. Edited(s, d)
      BY <2>6, <2>8, <3>4, <3>6, <3>8, <3>11
    <3> QED
      BY <1>5, <3>7, <3>10, <3>12, EditedKeeps
  <2> QED
    BY <2>7, <2>8
<1>11. caret.byte = 0 \/ (keys.alt /\ caret.byte > 0) \/ (~keys.alt /\ caret.byte > 0)
  BY <1>3, <1>4
<1> QED
  BY <1>8, <1>9, <1>10, <1>11

LEMMA DeleteForwardKeeps ==
    ASSUME TextInv, DeleteForward
    PROVE  TextInv'
<1>1. text \in Seq(Chars)
  BY DEF TextInv
<1>2. PICK n \in 0 .. Len(text) : caret = AtChar(text, n)
  BY DEF TextInv, CaretAt
<1>3. caret.byte = Bytes(text)[n]
  BY <1>2 DEF AtChar
<1>4. CharsBefore(text, caret.byte) = n
  BY <1>1, <1>3, BoundaryIs
<1>5. ~crashed
  BY DEF DeleteForward
<1>6. PICK c : c = caret
  OBVIOUS
<1>7. CaretAt(text, c)
  BY <1>6 DEF TextInv
<1>8. Edited(IF n < Len(text) THEN Without(text, n, n + 1) ELSE text, c)
  BY <1>4, <1>6 DEF DeleteForward
<1>9. CASE n < Len(text)
  <2>1. PICK m \in 0 .. Len(text) : m = n + 1
    BY <1>1, <1>9
  <2>2. n <= m
    BY <2>1
  <2>3. PICK s : s = Without(text, n, m)
    OBVIOUS
  <2>4. s \in Seq(Chars) /\ n \in 0 .. Len(s) /\ Bytes(s)[n] = Bytes(text)[n]
    BY <1>1, <2>2, <2>3, WithoutIs
  <2>5. c = AtChar(s, n)
    BY <1>2, <1>6, <2>4 DEF AtChar
  <2>6. CaretAt(s, c)
    BY <2>4, <2>5 DEF CaretAt
  <2>7. Edited(s, c)
    BY <1>8, <1>9, <2>1, <2>3
  <2> QED
    BY <1>5, <2>4, <2>6, <2>7, EditedKeeps
<1>10. CASE ~(n < Len(text))
  <2>1. Edited(text, c)
    BY <1>8, <1>10
  <2> QED
    BY <1>1, <1>5, <1>7, <2>1, EditedKeeps
<1> QED
  BY <1>9, <1>10

LEMMA ArrowKeeps ==
    ASSUME TextInv, NEW right \in BOOLEAN, NEW shift \in BOOLEAN, Arrow(right, shift), ~crashed,
           text' = text, enabled' = enabled
    PROVE  TextInv'
<1>1. text \in Seq(Chars)
  BY DEF TextInv
<1>2. PICK n \in 0 .. Len(text) : caret = AtChar(text, n)
  BY DEF TextInv, CaretAt
<1>3. caret.byte = Bytes(text)[n] /\ caret.utf = n
  BY <1>2 DEF AtChar
<1>4. PICK x \in Nat : x = Bytes(text)[n] /\ (x > 0 <=> n > 0) /\ (x = 0 <=> n = 0) /\ (x < ByteLength(text) <=> n < Len(text))
  BY <1>1, BoundaryIs
<1>5. PICK a : a = anchor
  OBVIOUS
<1>6. AnchorAt(text, a)
  BY <1>5 DEF TextInv
<1>7. PICK further : further = IF right THEN anchor.byte > caret.byte ELSE anchor.byte < caret.byte
  OBVIOUS
<1>8. CASE ~shift /\ anchor.byte # caret.byte
  <2>1. PICK c : c = AtByte(text, IF further THEN anchor.byte ELSE caret.byte)
    OBVIOUS
  <2>2. MoveTo(c, c, shift) /\ UNCHANGED crashed
    BY <1>7, <1>8, <2>1 DEF Arrow
  <2>3. PICK k \in 0 .. Len(text) : anchor.byte = Bytes(text)[k]
    BY DEF TextInv, AnchorAt
  <2>4. PICK m \in 0 .. Len(text) : m = IF further THEN k ELSE n
    OBVIOUS
  <2>5. c = AtByte(text, Bytes(text)[m])
    BY <1>3, <2>1, <2>3, <2>4
  <2>6. CharsBefore(text, Bytes(text)[m]) = m
    BY <1>1, BoundaryIs
  <2>7. CaretAt(text, c)
    BY <2>5, <2>6 DEF CaretAt, AtByte, AtChar
  <2>8. AnchorAt(text, c)
    BY <1>1, <2>7, CaretEnds
  <2>9. caret' = c /\ anchor' = c /\ TellCaret(c) /\ ~crashed'
    BY <2>2 DEF MoveTo
  <2>10. text' \in Seq(Chars) /\ CaretAt(text', caret') /\ AnchorAt(text', anchor') /\ GameAgrees'
    BY <2>7, <2>8, <2>9, MovedKeeps
  <2> QED
    BY <2>9, <2>10 DEF TextInv, NarrowTextSafe
<1>9. CASE ~(~shift /\ anchor.byte # caret.byte) /\ ~right /\ caret.byte > 0 /\ SlicePanics(text, caret.byte - 1)
  <2>1. crashed' = TRUE /\ UNCHANGED <<caret, anchor, told>>
    BY <1>9 DEF Arrow
  <2>2. PICK y \in Int : y = caret.byte - 1
    BY <1>3, <1>4
  <2>3. n \in 1 .. Len(text) /\ y = Bytes(text)[n] - 1
    BY <1>1, <1>3, <1>4, <1>9, <2>2
  <2>4. \E i \in 1 .. Len(text) : Width[text[i]] > 1
    BY <1>1, <1>9, <2>2, <2>3, BeforeCaret
  <2>5. text' \in Seq(Chars) /\ CaretAt(text', caret') /\ AnchorAt(text', anchor')
    BY <2>1, StaysKeeps
  <2>6. GameAgrees'
    BY <2>1 DEF TextInv, GameAgrees
  <2>7. DOMAIN text = 1 .. Len(text)
    BY <1>1
  <2>8. NarrowTextSafe'
    BY <2>4, <2>7 DEF NarrowTextSafe
  <2> QED
    BY <2>5, <2>6, <2>8 DEF TextInv
<1>10. CASE ~(~shift /\ anchor.byte # caret.byte) /\ ~(~right /\ caret.byte > 0 /\ SlicePanics(text, caret.byte - 1))
  <2>1. PICK c : c = Step(right)
    OBVIOUS
  <2>2. MoveTo(c, a, shift) /\ UNCHANGED crashed
    BY <1>5, <1>10, <2>1 DEF Arrow
  <2>3. CaretAt(text, c)
    <3>1. CASE right
      <4>1. c = [byte |-> x + CharLen(text, x), utf |-> n + IF x < ByteLength(text) THEN 1 ELSE 0]
        BY <1>3, <1>4, <2>1, <3>1 DEF Step
      <4>2. CASE n < Len(text)
        <5>1. PICK m \in 0 .. Len(text) : m = n + 1
          BY <1>1, <4>2
        <5>2. x + CharLen(text, x) = Bytes(text)[m]
          BY <1>1, <1>4, <4>2, <5>1, AtCaret
        <5>3. c = AtChar(text, m)
          BY <1>4, <4>1, <4>2, <5>1, <5>2 DEF AtChar
        <5> QED
          BY <5>3 DEF CaretAt
      <4>3. CASE ~(n < Len(text))
        <5>1. x + CharLen(text, x) = Bytes(text)[n] /\ n + 0 = n
          BY <1>1, <1>4, <4>3, AtCaret
        <5>2. c = AtChar(text, n)
          BY <1>4, <4>1, <4>3, <5>1 DEF AtChar
        <5> QED
          BY <5>2 DEF CaretAt
      <4> QED
        BY <4>2, <4>3
    <3>2. CASE ~right /\ caret.byte = 0
      <4>1. c = caret
        BY <2>1, <3>2 DEF Step
      <4> QED
        BY <4>1 DEF TextInv
    <3>3. CASE ~right /\ caret.byte # 0
      <4>1. PICK y \in Int : y = caret.byte - 1
        BY <1>3, <1>4
      <4>2. n \in 1 .. Len(text) /\ y = Bytes(text)[n] - 1 /\ caret.byte > 0
        BY <1>1, <1>3, <1>4, <3>3, <4>1
      <4>3. ~SlicePanics(text, y)
        BY <1>10, <3>3, <4>1, <4>2
      <4>4. CharLen(text, y) = 1 /\ y = Bytes(text)[n - 1]
        BY <1>1, <4>2, <4>3, BeforeCaret
      <4>5. c = [byte |-> caret.byte - CharLen(text, y), utf |-> caret.utf - 1]
        BY <2>1, <3>3, <4>1 DEF Step
      <4>6. PICK m \in 0 .. Len(text) : m = n - 1
        BY <1>1, <4>2
      <4>7. c = AtChar(text, m)
        BY <1>3, <4>1, <4>4, <4>5, <4>6 DEF AtChar
      <4> QED
        BY <4>7 DEF CaretAt
    <3> QED
      BY <3>1, <3>2, <3>3
  <2>4. caret' = c /\ anchor' = a /\ TellCaret(c) /\ ~crashed'
    BY <2>2 DEF MoveTo
  <2>5. text' \in Seq(Chars) /\ CaretAt(text', caret') /\ AnchorAt(text', anchor') /\ GameAgrees'
    BY <1>6, <2>3, <2>4, MovedKeeps
  <2> QED
    BY <2>4, <2>5 DEF TextInv, NarrowTextSafe
<1> QED
  BY <1>8, <1>9, <1>10

LEMMA JumpKeeps ==
    ASSUME TextInv, NEW c, CaretAt(text, c), NEW shift, Jump(c, shift), ~crashed,
           text' = text, enabled' = enabled
    PROVE  TextInv'
<1>1. PICK a : a = IF shift THEN caret ELSE c
  OBVIOUS
<1>2. text \in Seq(Chars) /\ CaretAt(text, caret)
  BY DEF TextInv
<1>3. PICK d : d = caret
  OBVIOUS
<1>4. AnchorAt(text, d) /\ AnchorAt(text, c)
  BY <1>2, <1>3, CaretEnds
<1>5. AnchorAt(text, a)
  BY <1>1, <1>3, <1>4
<1>6. caret' = c /\ anchor' = a /\ TellCaret(c) /\ ~crashed'
  BY <1>1 DEF Jump, MoveTo
<1>7. text' \in Seq(Chars) /\ CaretAt(text', caret') /\ AnchorAt(text', anchor') /\ GameAgrees'
  BY <1>5, <1>6, MovedKeeps
<1> QED
  BY <1>6, <1>7 DEF TextInv, NarrowTextSafe

KeysTyped == {"left", "up", "down", "right", "home", "end", "other"}

LEMMA OnKeyPressedKeeps ==
    ASSUME TextInv, NEW key \in KeysTyped, NEW action, NEW mods, OnKeyPressed(key, action, mods)
    PROVE  TextInv'
<1>1. ~crashed /\ text' = text /\ enabled' = enabled
  BY DEF OnKeyPressed
<1>2. text \in Seq(Chars)
  BY DEF TextInv
<1>3. ASSUME UNCHANGED <<caret, anchor, told, crashed>> PROVE TextInv'
  <2>1. UNCHANGED <<text, caret, anchor>>
    BY <1>1, <1>3
  <2>2. text' \in Seq(Chars) /\ CaretAt(text', caret') /\ AnchorAt(text', anchor')
    BY <2>1, StaysKeeps
  <2>3. GameAgrees' /\ NarrowTextSafe'
    BY <1>1, <1>3 DEF TextInv, GameAgrees, NarrowTextSafe
  <2> QED
    BY <2>2, <2>3 DEF TextInv
<1>4. CASE action = "repeat" \/ mods = "ctrl"
  <2>1. UNCHANGED <<caret, anchor, told, crashed>>
    BY <1>4 DEF OnKeyPressed
  <2> QED
    BY <1>3, <2>1
<1>5. CASE ~(action = "repeat" \/ mods = "ctrl")
  <2>1. CASE key \in {"left", "up", "down", "right"}
    <3>1. PICK right \in BOOLEAN : right = (key = "right")
      OBVIOUS
    <3>2. PICK shift \in BOOLEAN : shift = (mods = "shift")
      OBVIOUS
    <3>3. Arrow(key = "right", mods = "shift")
      BY <1>5, <2>1 DEF OnKeyPressed
    <3>4. Arrow(right, shift)
      BY <3>1, <3>2, <3>3
    <3> QED
      BY <1>1, <3>4, ArrowKeeps
  <2>2. CASE key = "home"
    <3>1. PICK shift : shift = (mods = "shift")
      OBVIOUS
    <3>2. Jump(Start, shift)
      BY <1>5, <2>2, <3>1 DEF OnKeyPressed
    <3>3. PICK c : c = Start
      OBVIOUS
    <3>4. CaretAt(text, c) /\ Jump(c, shift)
      BY <1>2, <3>2, <3>3, EndAt
    <3> QED
      BY <1>1, <3>4, JumpKeeps
  <2>3. CASE key = "end"
    <3>1. PICK shift : shift = (mods = "shift")
      OBVIOUS
    <3>2. Jump(EndOf(text), shift)
      BY <1>5, <2>3, <3>1 DEF OnKeyPressed
    <3>3. PICK c : c = EndOf(text)
      OBVIOUS
    <3>4. CaretAt(text, c) /\ Jump(c, shift)
      BY <1>2, <3>2, <3>3, EndAt
    <3> QED
      BY <1>1, <3>4, JumpKeeps
  <2>4. CASE key = "other"
    <3>1. UNCHANGED <<caret, anchor, told, crashed>>
      BY <1>5, <2>4 DEF OnKeyPressed
    <3> QED
      BY <1>3, <3>1
  <2> QED
    BY <2>1, <2>2, <2>3, <2>4 DEF KeysTyped
<1> QED
  BY <1>4, <1>5

LEMMA TextStutterKeeps ==
    ASSUME TextInv, UNCHANGED textVars
    PROVE  TextInv'
<1>1. UNCHANGED <<text, caret, anchor>> /\ enabled' = enabled /\ told' = told /\ crashed' = crashed
  BY DEF textVars
<1>2. text' \in Seq(Chars) /\ CaretAt(text', caret') /\ AnchorAt(text', anchor')
  BY <1>1, StaysKeeps
<1>3. GameAgrees' /\ NarrowTextSafe'
  BY <1>1 DEF TextInv, GameAgrees, NarrowTextSafe
<1> QED
  BY <1>2, <1>3 DEF TextInv

LEMMA TextNextKeeps == TextInv /\ [TextNext]_textVars => TextInv'
<1> SUFFICES ASSUME TextInv, [TextNext]_textVars PROVE TextInv'
  OBVIOUS
<1>1. ASSUME NEW t \in {<<>>} \cup {<<c>> : c \in Chars},
             Enable(t) \/ Update(t) \/ (t # <<>> /\ (Typed(t) \/ TypedWhileDisabled(t)))
      PROVE  TextInv'
  <2>1. t \in Seq(Chars)
    <3>1. CASE t = <<>>
      BY <3>1
    <3>2. CASE t \in {<<c>> : c \in Chars}
      <4>1. PICK c \in Chars : t = <<c>>
        BY <3>2
      <4> QED
        BY <4>1
    <3> QED
      BY <3>1, <3>2
  <2> QED
    BY <1>1, <2>1, EnableKeeps, UpdateKeeps, TypedKeeps, TypedWhileDisabledKeeps
<1>2. CASE Disable
  BY <1>2, DisableKeeps
<1>3. CASE SetKeepLastCharOnce
  BY <1>3, SetKeepLastCharOnceKeeps
<1>4. CASE Backspace
  BY <1>4, BackspaceKeeps
<1>5. CASE DeleteForward
  BY <1>5, DeleteForwardKeeps
<1>6. ASSUME NEW pos \in -1 .. MaxText, SetCursorPosition(pos) PROVE TextInv'
  <2>1. pos \in Int
    BY TextAssumption
  <2> QED
    BY <1>6, <2>1, SetCursorPositionKeeps
<1>7. ASSUME NEW key \in {"left", "up", "right", "home", "end", "other"},
             NEW action \in {"press", "repeat", "release"}, NEW mods \in {"none", "shift", "alt", "ctrl"},
             OnKeyPressed(key, action, mods)
      PROVE  TextInv'
  <2>1. key \in KeysTyped
    BY DEF KeysTyped
  <2> QED
    BY <1>7, <2>1, OnKeyPressedKeeps
<1>8. CASE UNCHANGED textVars
  BY <1>8, TextStutterKeeps
<1> QED
  BY <1>1, <1>2, <1>3, <1>4, <1>5, <1>6, <1>7, <1>8 DEF TextNext

LEMMA TextInvSound == TextInv => TextSound
<1> SUFFICES ASSUME TextInv PROVE TextSound
  OBVIOUS
<1>1. text \in Seq(Chars)
  BY DEF TextInv
<1>2. PICK n \in 0 .. Len(text) : caret = AtChar(text, n)
  BY DEF TextInv, CaretAt
<1>3. caret.byte = Bytes(text)[n] /\ caret.utf = n
  BY <1>2 DEF AtChar
<1>4. IsBoundary(text, caret.byte) /\ caret.utf = CharsBefore(text, caret.byte)
  BY <1>1, <1>3, BoundaryIs
<1>5. PICK k \in 0 .. Len(text) : anchor.byte = Bytes(text)[k]
  BY DEF TextInv, AnchorAt
<1>6. IsBoundary(text, anchor.byte)
  BY <1>1, <1>5, BoundaryIs
<1> QED
  BY <1>4, <1>6 DEF TextInv, TextSound, CaretConsistent

\* Whatever is typed, deleted, selected or set by the game (text_input_handler.rs),
\* for characters of any widths: the caret stays between two characters with
\* its two positions agreeing, the selection ends between two characters, the
\* game knows text and caret, and only a wide character makes a slice panic.
THEOREM TextStaysSound == TextSpec => []TextSound
<1>1. TextInit => TextInv
  BY TextInitKeeps
<1>2. TextInv /\ [TextNext]_textVars => TextInv'
  BY TextNextKeeps
<1>3. TextInv => TextSound
  BY TextInvSound
<1> QED
  BY <1>1, <1>2, <1>3, PTL DEF TextSpec

-----------------------------------------------------------------------------
(* Gamepads: the mapping line.                                               *)

Targets == Buttons \cup Axes
LineEntries == [tmod : {"", "+", "-"}, target : STRING, smod : {"", "+", "-"}, inv : BOOLEAN,
                source : {"button", "hat", "axis", "bad"}, id : Nat, mask : Dirs]
KnownEntries == {e \in LineEntries : Known(e)}
SourceRanges == {<<-Scale, Scale>>, <<0, Scale>>, <<0, -Scale>>}
TargetRanges(t) ==
    IF t \in Buttons THEN {<<0, 1>>}
    ELSE IF t = "lefttrigger" THEN {<<0, Scale>>, <<Scale, 0>>}
    ELSE SourceRanges \cup {<<Scale, -Scale>>, <<Scale, 0>>, <<-Scale, 0>>}
MapEntries ==
    {m \in [from : [kind : {"button", "hat", "axis"}, id : Nat, mask : Dirs, range : SourceRanges],
            to : [target : Targets, range : Int \X Int]] : m.to.range \in TargetRanges(m.to.target)}

\* What is kept of a line are entries whose target is known.
LEMMA KnownOfIs ==
    ASSUME NEW line \in Seq(LineEntries)
    PROVE  KnownOf(line) \in Seq(KnownEntries)
<1>1. PICK N \in Nat : N = Len(line)
  OBVIOUS
<1>2. PICK S : S = Seq(KnownEntries)
  OBVIOUS
<1>3. PICK step : step = [n \in 1 .. N |-> [x \in S |-> IF Known(line[n]) THEN Append(x, line[n]) ELSE x]]
  OBVIOUS
<1>4. \A n \in 1 .. N : \A x \in S : step[n][x] = IF Known(line[n]) THEN Append(x, line[n]) ELSE x
  BY <1>3
<1>5. StepsIn(S, N, step)
  <2>1. ASSUME NEW n \in 1 .. N, NEW x \in S PROVE step[n][x] \in S
    <3>1. CASE Known(line[n])
      <4>1. PICK e \in LineEntries : e = line[n]
        BY <1>1
      <4>2. e \in KnownEntries
        BY <3>1, <4>1 DEF KnownEntries
      <4>3. x \in Seq(KnownEntries)
        BY <1>2
      <4>4. Append(x, e) \in Seq(KnownEntries)
        BY <4>2, <4>3, AppendProperties
      <4> QED
        BY <1>2, <1>4, <3>1, <4>1, <4>4
    <3>2. CASE ~Known(line[n])
      BY <1>4, <3>2
    <3> QED
      BY <3>1, <3>2
  <2> QED
    BY <2>1 DEF StepsIn
<1>6. PICK a \in S : a = <<>>
  <2>1. <<>> \in Seq(KnownEntries)
    OBVIOUS
  <2> QED
    BY <1>2, <2>1
<1>7. PICK g : Steps(g, S, N, a, step)
  BY <1>5, <1>6, StepsExist
<1>8. g \in [0 .. N -> S] /\ g[0] = <<>> /\ \A n \in 1 .. N : g[n] = step[n][g[n - 1]]
  BY <1>6, <1>7 DEF Steps
<1>9. \A n \in 1 .. N : n - 1 \in 0 .. N
  BY <1>1
<1>10. \A n \in 1 .. N : g[n] = IF Known(line[n]) THEN Append(g[n - 1], line[n]) ELSE g[n - 1]
  <2> TAKE n \in 1 .. N
  <2>1. g[n - 1] \in S
    BY <1>8, <1>9
  <2> QED
    BY <1>4, <1>8, <2>1
<1>11. g = [n \in 0 .. N |-> IF n = 0 THEN <<>>
                            ELSE IF Known(line[n]) THEN Append(g[n - 1], line[n]) ELSE g[n - 1]]
  <2>1. PICK h : h = [n \in 0 .. N |-> IF n = 0 THEN <<>>
                            ELSE IF Known(line[n]) THEN Append(g[n - 1], line[n]) ELSE g[n - 1]]
    OBVIOUS
  <2>2. \A n \in 0 .. N : n # 0 => n \in 1 .. N
    BY <1>1
  <2>3. \A n \in 0 .. N : g[n] = h[n]
    BY <1>8, <1>10, <2>1, <2>2
  <2>4. g = h
    BY <1>8, <2>1, <2>3
  <2> QED
    BY <2>1, <2>4
<1>12. ASSUME NEW u, u = [n \in 0 .. N |-> IF n = 0 THEN <<>>
                            ELSE IF Known(line[n]) THEN Append(u[n - 1], line[n]) ELSE u[n - 1]]
       PROVE  u = g
  <2>1. PICK T : T = {k \in 0 .. N : u[k] # g[k]}
    OBVIOUS
  <2>2. ASSUME T # {} PROVE FALSE
    <3>1. T \in SUBSET Nat
      BY <2>1
    <3>2. PICK k \in T : \A y \in T : k <= y
      BY <2>2, <3>1, LeastNat
    <3>3. k \in 0 .. N /\ u[k] # g[k]
      BY <2>1, <3>2
    <3>4. k # 0
      BY <1>8, <1>12, <3>3
    <3>5. k - 1 \in 0 .. N /\ ~(k <= k - 1)
      BY <1>1, <3>3, <3>4
    <3>6. u[k - 1] = g[k - 1]
      BY <2>1, <3>2, <3>5
    <3> QED
      BY <1>11, <1>12, <3>3, <3>4, <3>6
  <2>3. \A k \in 0 .. N : u[k] = g[k]
    BY <2>1, <2>2
  <2>4. u = [k \in 0 .. N |-> u[k]] /\ g = [k \in 0 .. N |-> g[k]]
    BY <1>8, <1>12
  <2> QED
    BY <2>3, <2>4
<1>13. KnownOf(line) = g[N]
  BY <1>1, <1>11, <1>12 DEF KnownOf
<1>14. g[N] \in S
  BY <1>1, <1>8
<1> QED
  BY <1>2, <1>13, <1>14

LEMMA ToOfIs ==
    ASSUME NEW e \in KnownEntries
    PROVE  /\ ToOf(e) \in [target : Targets, range : Int \X Int]
           /\ ToOf(e).range \in TargetRanges(ToOf(e).target)
<1>1. e \in LineEntries /\ e.target \in Targets
  BY DEF KnownEntries, Known, Targets
<1>2. CASE e.target \in Buttons
  BY <1>1, <1>2 DEF ToOf, TargetRanges
<1>3. CASE e.target = "lefttrigger"
  BY <1>1, <1>3 DEF ToOf, TargetRanges, Buttons, Scale
<1>4. CASE e.target = "leftx"
  <2>1. e.tmod \in {"", "+", "-"}
    BY <1>1 DEF LineEntries
  <2>2. PICK r : r = Range01(e.tmod)
    OBVIOUS
  <2>3. r = <<-4, 4>> \/ r = <<0, 4>> \/ r = <<0, -4>>
    BY <2>1, <2>2 DEF Range01, Scale
  <2>4. PICK s : s = IF e.inv /\ e.source = "axis" THEN <<r[2], r[1]>> ELSE r
    OBVIOUS
  <2>5. s = <<-4, 4>> \/ s = <<0, 4>> \/ s = <<0, -4>> \/ s = <<4, -4>> \/ s = <<4, 0>> \/ s = <<-4, 0>>
    BY <2>3, <2>4
  <2>6. ToOf(e) = [target |-> "leftx", range |-> s]
    BY <1>4, <2>2, <2>4 DEF ToOf, Buttons
  <2>7. s \in Int \X Int
    BY <2>5
  <2>8. s \in TargetRanges("leftx")
    BY <2>5 DEF TargetRanges, SourceRanges, Scale, Buttons
  <2>9. ToOf(e).target = "leftx" /\ ToOf(e).range = s
    BY <2>6
  <2>10. "leftx" \in Targets
    BY DEF Targets, Axes
  <2> QED
    BY <2>6, <2>7, <2>8, <2>9, <2>10
<1> QED
  BY <1>1, <1>2, <1>3, <1>4 DEF Targets, Axes

LEMMA ParsedIs == Parsed(Line) \in Seq(MapEntries)
<1>1. Line \in Seq(LineEntries)
  BY PadsAssumption DEF LineEntries
<1>2. PICK kept : kept = KnownOf(Line)
  OBVIOUS
<1>3. kept \in Seq(KnownEntries)
  BY <1>1, <1>2, KnownOfIs
<1>4. PICK N \in Nat : N = Len(kept)
  BY <1>3
<1>5. DOMAIN kept = 1 .. N /\ \A i \in 1 .. N : kept[i] \in KnownEntries
  BY <1>3, <1>4
<1>6. CASE \E i \in DOMAIN kept : kept[i].source = "bad"
  <2>1. Parsed(Line) = <<>>
    BY <1>2, <1>6 DEF Parsed
  <2> QED
    BY <2>1
<1>7. CASE ~ \E i \in DOMAIN kept : kept[i].source = "bad"
  <2>1. PICK ms : ms = [i \in DOMAIN kept |->
                [from |-> [kind |-> kept[i].source, id |-> kept[i].id, mask |-> kept[i].mask,
                           range |-> Range01(kept[i].smod)],
                 to |-> ToOf(kept[i])]]
    OBVIOUS
  <2>2. Parsed(Line) = ms
    BY <1>2, <1>7, <2>1 DEF Parsed
  <2>3. ASSUME NEW i \in 1 .. N PROVE ms[i] \in MapEntries
    <3>1. PICK e \in KnownEntries : e = kept[i]
      BY <1>5
    <3>2. e \in LineEntries /\ e.source # "bad"
      BY <1>5, <1>7, <3>1 DEF KnownEntries
    <3>3. e.source \in {"button", "hat", "axis"} /\ e.id \in Nat /\ e.mask \in Dirs /\ e.smod \in {"", "+", "-"}
      BY <3>2 DEF LineEntries
    <3>4. PICK r : r = Range01(e.smod)
      OBVIOUS
    <3>5. r \in SourceRanges
      BY <3>3, <3>4 DEF Range01, SourceRanges
    <3>6. PICK t : t = ToOf(e)
      OBVIOUS
    <3>7. t \in [target : Targets, range : Int \X Int] /\ t.range \in TargetRanges(t.target)
      BY <3>6, ToOfIs
    <3>8. PICK m : m = [from |-> [kind |-> e.source, id |-> e.id, mask |-> e.mask, range |-> r], to |-> t]
      OBVIOUS
    <3>9. ms[i] = m
      BY <1>5, <2>1, <3>1, <3>4, <3>6, <3>8
    <3>10. m.to = t
      BY <3>8
    <3>11. m \in [from : [kind : {"button", "hat", "axis"}, id : Nat, mask : Dirs, range : SourceRanges],
                  to : [target : Targets, range : Int \X Int]]
      BY <3>3, <3>5, <3>7, <3>8
    <3> QED
      BY <3>7, <3>9, <3>10, <3>11 DEF MapEntries
  <2>4. ms \in [1 .. N -> MapEntries]
    BY <1>5, <2>1, <2>3
  <2> QED
    BY <1>4, <2>2, <2>4
<1> QED
  BY <1>6, <1>7

-----------------------------------------------------------------------------
(* Gamepads: what an event makes of the game's view of a pad.                *)

Hats == [Dirs -> BOOLEAN]
PadViews == {f \in [Targets -> Int] : f["lefttrigger"] \in 0 .. Scale /\ f["leftx"] \in -Scale .. Scale}
PadValues(t) == IF t = "lefttrigger" THEN 0 .. Scale ELSE IF t = "leftx" THEN -Scale .. Scale ELSE Int
Events == [kind : {"button", "axis"}, id : {0}, value : Int] \cup [kind : {"hat"}, id : {0}, value : Hats]

LEMMA EndsFit ==
    ASSUME NEW t \in Targets, NEW r \in Int \X Int, r \in TargetRanges(t)
    PROVE  r[1] \in PadValues(t) /\ r[2] \in PadValues(t)
<1>1. CASE t \in Buttons
  <2>1. t # "lefttrigger" /\ t # "leftx"
    BY <1>1 DEF Buttons
  <2> QED
    BY <2>1 DEF PadValues
<1>2. CASE t = "lefttrigger"
  <2>1. r = <<0, 4>> \/ r = <<4, 0>>
    BY <1>2 DEF TargetRanges, Buttons, Scale
  <2> QED
    BY <1>2, <2>1 DEF PadValues, Scale
<1>3. CASE t = "leftx"
  <2>1. r = <<-4, 4>> \/ r = <<0, 4>> \/ r = <<0, -4>> \/ r = <<4, -4>> \/ r = <<4, 0>> \/ r = <<-4, 0>>
    BY <1>3 DEF TargetRanges, SourceRanges, Buttons, Scale
  <2>2. r[1] \in -4 .. 4 /\ r[2] \in -4 .. 4
    BY <2>1
  <2> QED
    BY <1>3, <2>2 DEF PadValues, Scale
<1> QED
  BY <1>1, <1>2, <1>3 DEF Targets, Axes

\* A value in the range of the source is carried into that of the target.
LEMMA TransformedFits ==
    ASSUME NEW t \in Axes, NEW from \in SourceRanges, NEW to \in Int \X Int, to \in TargetRanges(t),
           NEW v \in Int, InRange(from, v)
    PROVE  Transformed(from, to, v) \in PadValues(t) /\ v \in -Scale .. Scale
<1>1. from = <<-4, 4>> \/ from = <<0, 4>> \/ from = <<0, -4>>
  BY DEF SourceRanges, Scale
<1>2. (from[1] <= v /\ v <= from[2]) \/ (from[2] <= v /\ v <= from[1])
  BY DEF InRange
<1>3. PICK n \in Int : n = Distance(from[1], v)
  BY <1>1 DEF Distance
<1>4. PICK d \in Int : d = Distance(from[1], from[2])
  BY <1>1 DEF Distance
<1>5. n >= 0 /\ n <= d /\ (d = 4 \/ d = 8) /\ v \in -4 .. 4
  <2>1. CASE from = <<-4, 4>>
    BY <1>2, <1>3, <1>4, <2>1 DEF Distance
  <2>2. CASE from = <<0, 4>>
    BY <1>2, <1>3, <1>4, <2>2 DEF Distance
  <2>3. CASE from = <<0, -4>>
    BY <1>2, <1>3, <1>4, <2>3 DEF Distance
  <2> QED
    BY <1>1, <2>1, <2>2, <2>3
<1>6. PICK a \in Int, b \in Int : a = to[1] /\ b = to[2]
  OBVIOUS
<1>7. Transformed(from, to, v) = a + (n * (b - a)) \div d
  BY <1>3, <1>4, <1>6 DEF Transformed
<1>8. CASE t = "lefttrigger"
  <2>1. (a = 0 /\ b = 4) \/ (a = 4 /\ b = 0)
    BY <1>6, <1>8 DEF TargetRanges, Buttons, Scale
  <2>2. CASE d = 4
    <3>1. a + (n * (b - a)) \div 4 \in 0 .. 4
      BY <1>5, <2>1, <2>2
    <3> QED
      BY <1>5, <1>7, <1>8, <2>2, <3>1 DEF PadValues, Scale
  <2>3. CASE d = 8
    <3>1. a + (n * (b - a)) \div 8 \in 0 .. 4
      BY <1>5, <2>1, <2>3
    <3> QED
      BY <1>5, <1>7, <1>8, <2>3, <3>1 DEF PadValues, Scale
  <2> QED
    BY <1>5, <2>2, <2>3
<1>9. CASE t = "leftx"
  <2>1. (a = -4 /\ b = 4) \/ (a = 0 /\ b = 4) \/ (a = 0 /\ b = -4) \/ (a = 4 /\ b = -4) \/ (a = 4 /\ b = 0) \/ (a = -4 /\ b = 0)
    BY <1>6, <1>9 DEF TargetRanges, SourceRanges, Buttons, Scale
  <2>2. CASE d = 4
    <3>1. a + (n * (b - a)) \div 4 \in -4 .. 4
      BY <1>5, <2>1, <2>2
    <3> QED
      BY <1>5, <1>7, <1>9, <2>2, <3>1 DEF PadValues, Scale
  <2>3. CASE d = 8
    <3>1. a + (n * (b - a)) \div 8 \in -4 .. 4
      BY <1>5, <2>1, <2>3
    <3> QED
      BY <1>5, <1>7, <1>9, <2>3, <3>1 DEF PadValues, Scale
  <2> QED
    BY <1>5, <2>2, <2>3
<1> QED
  BY <1>8, <1>9 DEF Axes

LEMMA AnswerFits ==
    ASSUME NEW m \in MapEntries, NEW e \in Events, Answers(m, e)
    PROVE  /\ m.to.target \in Targets /\ Answer(m, e) \in PadValues(m.to.target)
           /\ e.kind = "axis" /\ m.to.target \in Axes => e.value \in -Scale .. Scale
<1>1. PICK t \in Targets : t = m.to.target
  BY DEF MapEntries
<1>2. PICK r \in Int \X Int : r = m.to.range /\ r \in TargetRanges(t)
  BY <1>1 DEF MapEntries
<1>3. r[1] \in PadValues(t) /\ r[2] \in PadValues(t)
  BY <1>2, EndsFit
<1>4. \A on : Switched(m.to, on) \in PadValues(t)
  BY <1>2, <1>3 DEF Switched
<1>5. e.kind \in {"button", "axis", "hat"}
  BY DEF Events
<1>6. CASE e.kind = "button"
  <2>1. Answer(m, e) = Switched(m.to, e.value = 1)
    BY <1>6 DEF Answer
  <2> QED
    BY <1>1, <1>4, <1>6, <2>1
<1>7. CASE e.kind = "hat"
  <2>1. Answer(m, e) = Switched(m.to, e.value[m.from.mask])
    BY <1>7 DEF Answer
  <2> QED
    BY <1>1, <1>4, <1>7, <2>1
<1>8. CASE e.kind = "axis" /\ t \in Axes
  <2>1. PICK f \in SourceRanges : f = m.from.range
    BY DEF MapEntries
  <2>2. PICK v \in Int : v = e.value
    BY <1>8 DEF Events
  <2>3. InRange(f, v)
    BY <1>1, <1>8, <2>1, <2>2 DEF Answers
  <2>4. Transformed(f, r, v) \in PadValues(t) /\ v \in -Scale .. Scale
    BY <1>2, <1>8, <2>3, TransformedFits
  <2>5. Answer(m, e) = Transformed(f, r, v)
    BY <1>1, <1>2, <1>8, <2>1, <2>2 DEF Answer
  <2> QED
    BY <1>1, <2>2, <2>4, <2>5
<1>9. CASE e.kind = "axis" /\ t \notin Axes
  <2>1. Answer(m, e) = Switched(m.to, IsAxisActive(m.from.range, e.value))
    BY <1>1, <1>9 DEF Answer
  <2> QED
    BY <1>1, <1>4, <1>9, <2>1
<1> QED
  BY <1>5, <1>6, <1>7, <1>8, <1>9

LEMMA PadViewWith ==
    ASSUME NEW f \in PadViews, NEW t \in Targets, NEW x \in PadValues(t)
    PROVE  [f EXCEPT ![t] = x] \in PadViews
<1>1. f \in [Targets -> Int] /\ f["lefttrigger"] \in 0 .. Scale /\ f["leftx"] \in -Scale .. Scale
  BY DEF PadViews
<1>2. x \in Int
  BY DEF PadValues, Scale
<1>3. PICK g : g = [f EXCEPT ![t] = x]
  OBVIOUS
<1>4. g \in [Targets -> Int]
  BY <1>1, <1>2, <1>3
<1>5. g["lefttrigger"] \in 0 .. Scale
  BY <1>1, <1>3 DEF PadValues, Targets, Axes
<1>6. g["leftx"] \in -Scale .. Scale
  BY <1>1, <1>3 DEF PadValues, Targets, Axes
<1> QED
  BY <1>3, <1>4, <1>5, <1>6 DEF PadViews

\* MapEntries of one target that answer to one event give one answer.
Agreeing(ms) ==
    \A i, k \in 1 .. Len(ms) : \A e \in Events :
        ms[i].to.target = ms[k].to.target /\ Answers(ms[i], e) /\ Answers(ms[k], e)
            => Answer(ms[i], e) = Answer(ms[k], e)

LEMMA AfterEventIs ==
    ASSUME NEW v \in PadViews, NEW ms \in Seq(MapEntries), NEW e \in Events
    PROVE  /\ AfterEvent(v, ms, e) \in PadViews
           /\ \A t \in Targets :
                 (\A k \in 1 .. Len(ms) : Answers(ms[k], e) => ms[k].to.target # t) => AfterEvent(v, ms, e)[t] = v[t]
           /\ Agreeing(ms) =>
                 \A k \in 1 .. Len(ms) :
                     Answers(ms[k], e) => AfterEvent(v, ms, e)[ms[k].to.target] = Answer(ms[k], e)
<1>1. PICK N \in Nat : N = Len(ms)
  OBVIOUS
<1>2. PICK S : S = PadViews
  OBVIOUS
<1>3. PICK step : step = [n \in 1 .. N |-> [x \in S |->
            IF Answers(ms[n], e) THEN [x EXCEPT ![ms[n].to.target] = Answer(ms[n], e)] ELSE x]]
  OBVIOUS
<1>4. \A n \in 1 .. N : \A x \in S :
        step[n][x] = IF Answers(ms[n], e) THEN [x EXCEPT ![ms[n].to.target] = Answer(ms[n], e)] ELSE x
  BY <1>3
<1>5. \A n \in 1 .. N : ms[n] \in MapEntries
  BY <1>1
<1>6. \A n \in 1 .. N : Answers(ms[n], e) =>
        ms[n].to.target \in Targets /\ Answer(ms[n], e) \in PadValues(ms[n].to.target)
  BY <1>5, AnswerFits
<1>7. StepsIn(S, N, step)
  <2>1. ASSUME NEW n \in 1 .. N, NEW x \in S PROVE step[n][x] \in S
    <3>1. CASE Answers(ms[n], e)
      <4>1. PICK t \in Targets : t = ms[n].to.target
        BY <1>6, <3>1
      <4>2. PICK y \in PadValues(t) : y = Answer(ms[n], e)
        BY <1>6, <3>1, <4>1
      <4>3. x \in PadViews
        BY <1>2
      <4>4. [x EXCEPT ![t] = y] \in PadViews
        BY <4>3, PadViewWith
      <4> QED
        BY <1>2, <1>4, <3>1, <4>1, <4>2, <4>4
    <3>2. CASE ~Answers(ms[n], e)
      BY <1>4, <3>2
    <3> QED
      BY <3>1, <3>2
  <2> QED
    BY <2>1 DEF StepsIn
<1>8. PICK a \in S : a = v
  BY <1>2
<1>9. PICK g : Steps(g, S, N, a, step)
  BY <1>7, <1>8, StepsExist
<1>10. g \in [0 .. N -> S] /\ g[0] = v /\ \A n \in 1 .. N : g[n] = step[n][g[n - 1]]
  BY <1>8, <1>9 DEF Steps
<1>11. \A n \in 1 .. N : n - 1 \in 0 .. N
  BY <1>1
<1>12. \A n \in 1 .. N : g[n] = IF Answers(ms[n], e) THEN [g[n - 1] EXCEPT ![ms[n].to.target] = Answer(ms[n], e)]
                                ELSE g[n - 1]
  <2> TAKE n \in 1 .. N
  <2>1. g[n - 1] \in S
    BY <1>10, <1>11
  <2> QED
    BY <1>4, <1>10, <2>1
<1>13. g = [n \in 0 .. N |-> IF n = 0 THEN v
            ELSE IF Answers(ms[n], e) THEN [g[n - 1] EXCEPT ![ms[n].to.target] = Answer(ms[n], e)] ELSE g[n - 1]]
  <2>1. PICK h : h = [n \in 0 .. N |-> IF n = 0 THEN v
            ELSE IF Answers(ms[n], e) THEN [g[n - 1] EXCEPT ![ms[n].to.target] = Answer(ms[n], e)] ELSE g[n - 1]]
    OBVIOUS
  <2>2. \A n \in 0 .. N : n # 0 => n \in 1 .. N
    BY <1>1
  <2>3. \A n \in 0 .. N : g[n] = h[n]
    BY <1>10, <1>12, <2>1, <2>2
  <2>4. g = h
    BY <1>10, <2>1, <2>3
  <2> QED
    BY <2>1, <2>4
<1>14. ASSUME NEW u, u = [n \in 0 .. N |-> IF n = 0 THEN v
            ELSE IF Answers(ms[n], e) THEN [u[n - 1] EXCEPT ![ms[n].to.target] = Answer(ms[n], e)] ELSE u[n - 1]]
       PROVE  u = g
  <2>1. PICK T : T = {k \in 0 .. N : u[k] # g[k]}
    OBVIOUS
  <2>2. ASSUME T # {} PROVE FALSE
    <3>1. T \in SUBSET Nat
      BY <2>1
    <3>2. PICK k \in T : \A y \in T : k <= y
      BY <2>2, <3>1, LeastNat
    <3>3. k \in 0 .. N /\ u[k] # g[k]
      BY <2>1, <3>2
    <3>4. k # 0
      BY <1>10, <1>14, <3>3
    <3>5. k - 1 \in 0 .. N /\ ~(k <= k - 1)
      BY <1>1, <3>3, <3>4
    <3>6. u[k - 1] = g[k - 1]
      BY <2>1, <3>2, <3>5
    <3>7. u[k] = IF Answers(ms[k], e) THEN [u[k - 1] EXCEPT ![ms[k].to.target] = Answer(ms[k], e)] ELSE u[k - 1]
      <4>1. PICK h : h = [n \in 0 .. N |-> IF n = 0 THEN v
            ELSE IF Answers(ms[n], e) THEN [u[n - 1] EXCEPT ![ms[n].to.target] = Answer(ms[n], e)] ELSE u[n - 1]]
        OBVIOUS
      <4>2. u[k] = h[k]
        BY <1>14, <4>1
      <4> QED
        BY <3>3, <3>4, <4>1, <4>2
    <3>8. g[k] = IF Answers(ms[k], e) THEN [g[k - 1] EXCEPT ![ms[k].to.target] = Answer(ms[k], e)] ELSE g[k - 1]
      <4>1. k \in 1 .. N
        BY <1>1, <3>3, <3>4
      <4> QED
        BY <1>12, <4>1
    <3> QED
      BY <3>3, <3>6, <3>7, <3>8
  <2>3. \A k \in 0 .. N : u[k] = g[k]
    BY <2>1, <2>2
  <2>4. u = [k \in 0 .. N |-> u[k]] /\ g = [k \in 0 .. N |-> g[k]]
    BY <1>10, <1>14
  <2> QED
    BY <2>3, <2>4
<1>15. AfterEvent(v, ms, e) = g[N]
  BY <1>1, <1>13, <1>14 DEF Heard
<1>16. N \in 0 .. N
  BY <1>1
<1>17. g[N] \in S
  BY <1>10, <1>16
<1>18. ASSUME NEW t \in Targets, \A k \in 1 .. N : Answers(ms[k], e) => ms[k].to.target # t
       PROVE  g[N][t] = v[t]
  <2>1. PICK T : T = {n \in 0 .. N : g[n][t] # v[t]}
    OBVIOUS
  <2>2. ASSUME T # {} PROVE FALSE
    <3>1. T \in SUBSET Nat
      BY <2>1
    <3>2. PICK n \in T : \A y \in T : n <= y
      BY <2>2, <3>1, LeastNat
    <3>3. n \in 0 .. N /\ g[n][t] # v[t]
      BY <2>1, <3>2
    <3>4. n # 0
      BY <1>10, <3>3
    <3>5. n \in 1 .. N /\ n - 1 \in 0 .. N /\ ~(n <= n - 1)
      BY <1>1, <3>3, <3>4
    <3>6. g[n - 1][t] = v[t]
      BY <2>1, <3>2, <3>5
    <3>7. PICK x \in PadViews : x = g[n - 1]
      BY <1>2, <1>10, <3>5
    <3>8. CASE Answers(ms[n], e)
      <4>1. g[n] = [x EXCEPT ![ms[n].to.target] = Answer(ms[n], e)] /\ ms[n].to.target # t
        BY <1>12, <1>18, <3>5, <3>7, <3>8
      <4>2. g[n][t] = x[t]
        BY <4>1 DEF PadViews
      <4> QED
        BY <3>3, <3>6, <3>7, <4>2
    <3>9. CASE ~Answers(ms[n], e)
      BY <1>12, <3>3, <3>5, <3>6, <3>9
    <3> QED
      BY <3>8, <3>9
  <2> QED
    BY <1>16, <2>1, <2>2
<1>19. ASSUME Agreeing(ms), NEW k \in 1 .. N, Answers(ms[k], e)
       PROVE  g[N][ms[k].to.target] = Answer(ms[k], e)
  <2>1. PICK T : T = {n \in 0 .. N : k <= n /\ g[n][ms[k].to.target] # Answer(ms[k], e)}
    OBVIOUS
  <2>2. ASSUME T # {} PROVE FALSE
    <3>1. T \in SUBSET Nat
      BY <2>1
    <3>2. PICK n \in T : \A y \in T : n <= y
      BY <2>2, <3>1, LeastNat
    <3>3. n \in 0 .. N /\ k <= n /\ g[n][ms[k].to.target] # Answer(ms[k], e)
      BY <2>1, <3>2
    <3>4. n \in 1 .. N /\ n - 1 \in 0 .. N /\ ~(n <= n - 1) /\ (k = n \/ k <= n - 1)
      BY <1>1, <3>3
    <3>5. PICK x \in PadViews : x = g[n - 1]
      BY <1>2, <1>10, <3>4
    <3>6. PICK t \in Targets : t = ms[k].to.target
      BY <1>6, <1>19
    <3>7. CASE Answers(ms[n], e) /\ ms[n].to.target = t
      <4>1. Answer(ms[n], e) = Answer(ms[k], e)
        BY <1>1, <1>19, <3>4, <3>6, <3>7 DEF Agreeing
      <4>2. g[n] = [x EXCEPT ![t] = Answer(ms[k], e)]
        BY <1>12, <3>4, <3>5, <3>7, <4>1
      <4>3. g[n][t] = Answer(ms[k], e)
        BY <4>2 DEF PadViews
      <4> QED
        BY <3>3, <3>6, <4>3
    <3>8. CASE ~(Answers(ms[n], e) /\ ms[n].to.target = t)
      <4>1. k # n
        BY <1>19, <3>6, <3>8
      <4>2. x[t] = Answer(ms[k], e)
        BY <2>1, <3>2, <3>4, <3>5, <3>6, <4>1
      <4>3. g[n][t] = x[t]
        <5>1. CASE Answers(ms[n], e)
          <6>1. g[n] = [x EXCEPT ![ms[n].to.target] = Answer(ms[n], e)] /\ ms[n].to.target # t
            BY <1>12, <3>4, <3>5, <3>8, <5>1
          <6> QED
            BY <6>1 DEF PadViews
        <5>2. CASE ~Answers(ms[n], e)
          BY <1>12, <3>4, <3>5, <5>2
        <5> QED
          BY <5>1, <5>2
      <4> QED
        BY <3>3, <3>6, <4>2, <4>3
    <3> QED
      BY <3>7, <3>8
  <2>3. k <= N
    BY <1>1
  <2> QED
    BY <1>16, <2>1, <2>2, <2>3
<1> QED
  BY <1>1, <1>2, <1>15, <1>17, <1>18, <1>19

-----------------------------------------------------------------------------
(* Gamepads: what the frames of a joystick make of it and of the view.       *)

Frames == [el : Elements \cup {"lost"}, value : Int]
Sticks == [path : Pads, pad : Nat, serial : Nat, hat : Hats, queue : Seq(Frames), live : BOOLEAN,
           moved : SUBSET Elements, stale : BOOLEAN, mapping : {<<>>, Parsed(Line)}]
PolledOf(D) == [hat : Hats, view : [D -> PadViews]]

LEMMA CalibratedInt ==
    ASSUME NEW raw \in Int
    PROVE  Calibrated(raw) \in Int
<1>1. PICK lo \in Int, hi \in Int, flat \in Int : lo = AxisInfo.min /\ hi = AxisInfo.max /\ flat = AxisInfo.flat
  BY PadsAssumption
<1>2. lo + 2 <= hi
  BY <1>1, PadsAssumption
<1>3. PICK mid \in Int : mid = Middle
  BY <1>1 DEF Middle
<1>4. mid = IF lo + hi >= 0 THEN (lo + hi) \div 2 ELSE -((-(lo + hi)) \div 2)
  BY <1>1, <1>3 DEF Middle
<1>5. lo < mid /\ mid < hi
  BY <1>2, <1>4
<1>6. PICK off \in Int : off = Distance(mid, raw) * Scale
  BY DEF Distance, Scale
<1>7. PICK up \in Int : up = hi - mid /\ up > 0
  BY <1>5
<1>8. PICK dn \in Int : dn = mid - lo /\ dn > 0
  BY <1>5
<1>9. off \div up \in Int /\ off \div dn \in Int
  BY <1>7, <1>8
<1>10. Calibrated(raw) = IF Distance(mid, raw) < flat THEN 0
                         ELSE IF raw >= mid THEN Clamped(off \div up) ELSE Clamped(-(off \div dn))
  BY <1>1, <1>3, <1>6, <1>7, <1>8 DEF Calibrated
<1>11. \A v \in Int : Clamped(v) \in Int
  BY DEF Clamped, Scale
<1>12. -(off \div dn) \in Int
  BY <1>9
<1> QED
  BY <1>9, <1>10, <1>11, <1>12

LEMMA HatAfterIn ==
    ASSUME NEW hat \in Hats, NEW el, NEW v
    PROVE  HatAfter(hat, el, v) \in Hats
BY DEF HatAfter, Hats

LEMMA DecodedIs ==
    ASSUME NEW p \in Pads, NEW hat \in Hats, NEW f \in Frames
    PROVE  Decoded(p, hat, f) \in Events
<1>1. f.value \in Int /\ f.el \in Elements \cup {"lost"}
  BY DEF Frames
<1>2. ButtonOf(p, FirstButton) = 0
  <2>1. Keys[p] \in SUBSET Nat /\ FirstButton \in Nat
    BY PadsAssumption
  <2>2. {j \in Keys[p] : FirstButton <= j /\ j < FirstButton} = {}
    BY <2>1
  <2> QED
    BY <2>2, FS_EmptySet DEF ButtonOf
<1>3. CASE f.el = "key"
  BY <1>1, <1>2, <1>3 DEF Decoded, Events
<1>4. CASE f.el = "axis"
  <2>1. PICK v \in Int : v = Calibrated(f.value)
    BY <1>1, CalibratedInt
  <2> QED
    BY <1>4, <2>1 DEF Decoded, Events
<1>5. CASE f.el # "key" /\ f.el # "axis"
  <2>1. PICK h \in Hats : h = HatAfter(hat, f.el, f.value)
    BY HatAfterIn
  <2>2. Decoded(p, hat, f) = [kind |-> "hat", id |-> 0, value |-> h]
    BY <1>5, <2>1 DEF Decoded
  <2> QED
    BY <2>2 DEF Events
<1> QED
  BY <1>3, <1>4, <1>5

LEMMA MappingIs ==
    ASSUME NEW j \in Sticks
    PROVE  j.mapping \in Seq(MapEntries) /\ (j.mapping = <<>> \/ j.mapping = Parsed(Line))
<1>1. j.mapping = <<>> \/ j.mapping = Parsed(Line)
  BY DEF Sticks
<1>2. <<>> \in Seq(MapEntries)
  OBVIOUS
<1> QED
  BY <1>1, <1>2, ParsedIs

LEMMA PadHeardIs ==
    ASSUME NEW D, NEW pads \in [D -> PadViews], NEW j \in Sticks, NEW e \in Events
    PROVE  /\ PadHeard(pads, j, e) \in [D -> PadViews]
           /\ \A id \in D : id # j.pad => PadHeard(pads, j, e)[id] = pads[id]
           /\ j.pad \in D => PadHeard(pads, j, e)[j.pad] = AfterEvent(pads[j.pad], j.mapping, e)
<1>1. CASE j.pad \notin D
  BY <1>1 DEF PadHeard
<1>2. CASE j.pad \in D
  <2>1. PICK ms \in Seq(MapEntries) : ms = j.mapping
    BY MappingIs
  <2>2. PICK v \in PadViews : v = pads[j.pad]
    BY <1>2
  <2>3. PICK w \in PadViews : w = AfterEvent(v, ms, e)
    BY AfterEventIs
  <2>4. PICK id \in D : id = j.pad
    BY <1>2
  <2>5. PadHeard(pads, j, e) = [pads EXCEPT ![id] = w]
    BY <1>2, <2>1, <2>2, <2>3, <2>4 DEF PadHeard
  <2> QED
    BY <2>1, <2>2, <2>3, <2>4, <2>5
<1> QED
  BY <1>1, <1>2

LEMMA AfterFrameIs ==
    ASSUME NEW D, NEW s \in PolledOf(D), NEW j \in Sticks, NEW f \in Frames
    PROVE  /\ AfterFrame(s, j, f) \in PolledOf(D) /\ Decoded(j.path, s.hat, f) \in Events
           /\ AfterFrame(s, j, f).view = PadHeard(s.view, j, Decoded(j.path, s.hat, f))
           /\ AfterFrame(s, j, f).hat = IF f.el \in {"key", "axis"} THEN s.hat ELSE HatAfter(s.hat, f.el, f.value)
<1>1. s.hat \in Hats /\ s.view \in [D -> PadViews] /\ j.path \in Pads
  BY DEF PolledOf, Sticks
<1>2. PICK e \in Events : e = Decoded(j.path, s.hat, f)
  BY <1>1, DecodedIs
<1>3. PICK w \in [D -> PadViews] : w = PadHeard(s.view, j, e)
  BY <1>1, PadHeardIs
<1>4. PICK h : h = IF e.kind = "hat" THEN e.value ELSE s.hat
  OBVIOUS
<1>5. h = IF f.el \in {"key", "axis"} THEN s.hat ELSE HatAfter(s.hat, f.el, f.value)
  <2>1. CASE f.el = "key"
    BY <1>2, <1>4, <2>1 DEF Decoded
  <2>2. CASE f.el = "axis"
    BY <1>2, <1>4, <2>2 DEF Decoded
  <2>3. CASE f.el # "key" /\ f.el # "axis"
    BY <1>2, <1>4, <2>3 DEF Decoded
  <2> QED
    BY <2>1, <2>2, <2>3
<1>6. h \in Hats
  BY <1>1, <1>5, HatAfterIn
<1>7. AfterFrame(s, j, f) = [hat |-> h, view |-> w]
  BY <1>2, <1>3, <1>4 DEF AfterFrame
<1> QED
  BY <1>2, <1>3, <1>5, <1>6, <1>7 DEF PolledOf

LEMMA ReadNowIs ==
    ASSUME NEW q \in Seq(Frames)
    PROVE  /\ ReadNow(q) \in Seq(Frames) /\ LeftAfter(q) \in Seq(Frames)
           /\ (\A i \in 1 .. Len(q) : q[i].el # "lost") => ReadNow(q) = q /\ LeftAfter(q) = <<>>
<1>1. PICK N \in Nat : N = Len(q)
  OBVIOUS
<1>2. \A i \in 1 .. N : q[i] \in Frames
  BY <1>1
<1>3. ReadNow(q) \in Seq(Frames)
  <2>1. CASE Lost \in ToSet(q)
    <3>1. PICK k \in 1 .. N : q[k] = Lost
      BY <1>1, <2>1 DEF ToSet
    <3>2. DOMAIN q = 1 .. N
      BY <1>1
    <3>3. PICK c : c = CHOOSE i \in DOMAIN q : q[i] = Lost
      OBVIOUS
    <3>4. c \in 1 .. N
      BY <3>1, <3>2, <3>3
    <3>5. PICK m \in Int : m = c - 1
      BY <3>4
    <3>6. PICK f \in Int : f = 1
      OBVIOUS
    <3>7. \A i \in f .. m : q[i] \in Frames
      BY <1>1, <1>2, <3>4, <3>5, <3>6
    <3>8. SubSeq(q, f, m) \in Seq(Frames)
      BY <3>7, SubSeqProperties
    <3> QED
      BY <2>1, <3>3, <3>5, <3>6, <3>8 DEF ReadNow
  <2>2. CASE Lost \notin ToSet(q)
    BY <2>2 DEF ReadNow
  <2> QED
    BY <2>1, <2>2
<1>4. PICK K \in Nat : K = Len(ReadNow(q))
  BY <1>3
<1>5. PICK m \in Int : m = K + 2
  OBVIOUS
<1>6. \A i \in m .. N : q[i] \in Frames
  BY <1>1, <1>2, <1>5
<1>7. SubSeq(q, m, N) \in Seq(Frames)
  BY <1>1, <1>6, SubSeqProperties
<1>8. LeftAfter(q) = SubSeq(q, m, N)
  BY <1>1, <1>4, <1>5 DEF LeftAfter
<1>9. ASSUME \A i \in 1 .. N : q[i].el # "lost" PROVE ReadNow(q) = q /\ LeftAfter(q) = <<>>
  <2>1. \A i \in 1 .. N : q[i] # Lost
    BY <1>9 DEF Lost
  <2>2. DOMAIN q = 1 .. N
    BY <1>1
  <2>3. Lost \notin ToSet(q)
    BY <2>1, <2>2 DEF ToSet
  <2>4. ReadNow(q) = q
    BY <2>3 DEF ReadNow
  <2>5. N < m
    BY <1>1, <1>4, <1>5, <2>4
  <2>6. SubSeq(q, m, N) = <<>>
    BY <1>1, <2>5, SubSeqEmpty
  <2> QED
    BY <1>8, <2>4, <2>6
<1> QED
  BY <1>1, <1>3, <1>7, <1>8, <1>9

\* One frame after the other.
PolledBy(g, D, pads, j) ==
    LET q == ReadNow(j.queue)
    IN  /\ g \in [0 .. Len(q) -> PolledOf(D)]
        /\ g[0] = [hat |-> j.hat, view |-> pads]
        /\ \A n \in 1 .. Len(q) : g[n] = AfterFrame(g[n - 1], j, q[n])
        /\ Polled(pads, j) = g[Len(q)]

LEMMA PolledIs ==
    ASSUME NEW D, NEW pads \in [D -> PadViews], NEW j \in Sticks
    PROVE  /\ \E g : PolledBy(g, D, pads, j)
           /\ Polled(pads, j) \in PolledOf(D)
<1>1. j.queue \in Seq(Frames) /\ j.hat \in Hats
  BY DEF Sticks
<1>2. PICK q \in Seq(Frames) : q = ReadNow(j.queue)
  BY <1>1, ReadNowIs
<1>3. PICK N \in Nat : N = Len(q)
  OBVIOUS
<1>4. PICK S : S = PolledOf(D)
  OBVIOUS
<1>5. PICK step : step = [n \in 1 .. N |-> [x \in S |-> AfterFrame(x, j, q[n])]]
  OBVIOUS
<1>6. \A n \in 1 .. N : \A x \in S : step[n][x] = AfterFrame(x, j, q[n])
  BY <1>5
<1>7. StepsIn(S, N, step)
  <2>1. ASSUME NEW n \in 1 .. N, NEW x \in S PROVE step[n][x] \in S
    <3>1. PICK f \in Frames : f = q[n]
      BY <1>3
    <3>2. x \in PolledOf(D)
      BY <1>4
    <3>3. AfterFrame(x, j, f) \in PolledOf(D)
      BY <3>2, AfterFrameIs
    <3> QED
      BY <1>4, <1>6, <3>1, <3>3
  <2> QED
    BY <2>1 DEF StepsIn
<1>8. PICK a \in S : a = [hat |-> j.hat, view |-> pads]
  <2>1. [hat |-> j.hat, view |-> pads] \in PolledOf(D)
    BY <1>1 DEF PolledOf
  <2> QED
    BY <1>4, <2>1
<1>9. PICK g : Steps(g, S, N, a, step)
  BY <1>7, <1>8, StepsExist
<1>10. g \in [0 .. N -> S] /\ g[0] = a /\ \A n \in 1 .. N : g[n] = step[n][g[n - 1]]
  BY <1>9 DEF Steps
<1>11. \A n \in 1 .. N : n - 1 \in 0 .. N
  BY <1>3
<1>12. \A n \in 1 .. N : g[n] = AfterFrame(g[n - 1], j, q[n])
  <2> TAKE n \in 1 .. N
  <2>1. g[n - 1] \in S
    BY <1>10, <1>11
  <2> QED
    BY <1>6, <1>10, <2>1
<1>13. g = [n \in 0 .. N |-> IF n = 0 THEN [hat |-> j.hat, view |-> pads] ELSE AfterFrame(g[n - 1], j, q[n])]
  <2>1. PICK h : h = [n \in 0 .. N |-> IF n = 0 THEN [hat |-> j.hat, view |-> pads] ELSE AfterFrame(g[n - 1], j, q[n])]
    OBVIOUS
  <2>2. \A n \in 0 .. N : n # 0 => n \in 1 .. N
    BY <1>3
  <2>3. \A n \in 0 .. N : g[n] = h[n]
    BY <1>8, <1>10, <1>12, <2>1, <2>2
  <2>4. g = h
    BY <1>10, <2>1, <2>3
  <2> QED
    BY <2>1, <2>4
<1>14. ASSUME NEW u, u = [n \in 0 .. N |-> IF n = 0 THEN [hat |-> j.hat, view |-> pads] ELSE AfterFrame(u[n - 1], j, q[n])]
       PROVE  u = g
  <2>1. PICK T : T = {k \in 0 .. N : u[k] # g[k]}
    OBVIOUS
  <2>2. ASSUME T # {} PROVE FALSE
    <3>1. T \in SUBSET Nat
      BY <2>1
    <3>2. PICK k \in T : \A y \in T : k <= y
      BY <2>2, <3>1, LeastNat
    <3>3. k \in 0 .. N /\ u[k] # g[k]
      BY <2>1, <3>2
    <3>4. k # 0
      BY <1>8, <1>10, <1>14, <3>3
    <3>5. k - 1 \in 0 .. N /\ ~(k <= k - 1) /\ k \in 1 .. N
      BY <1>3, <3>3, <3>4
    <3>6. u[k - 1] = g[k - 1]
      BY <2>1, <3>2, <3>5
    <3>7. u[k] = AfterFrame(u[k - 1], j, q[k])
      <4>1. PICK h : h = [n \in 0 .. N |-> IF n = 0 THEN [hat |-> j.hat, view |-> pads] ELSE AfterFrame(u[n - 1], j, q[n])]
        OBVIOUS
      <4>2. u[k] = h[k]
        BY <1>14, <4>1
      <4> QED
        BY <3>3, <3>4, <4>1, <4>2
    <3> QED
      BY <1>12, <3>3, <3>5, <3>6, <3>7
  <2>3. \A k \in 0 .. N : u[k] = g[k]
    BY <2>1, <2>2
  <2>4. u = [k \in 0 .. N |-> u[k]] /\ g = [k \in 0 .. N |-> g[k]]
    BY <1>10, <1>14
  <2> QED
    BY <2>3, <2>4
<1>15. Polled(pads, j) = g[N]
  BY <1>2, <1>3, <1>13, <1>14 DEF Polled
<1>16. N \in 0 .. N
  BY <1>3
<1>17. g[N] \in PolledOf(D)
  BY <1>4, <1>10, <1>16
<1>18. PolledBy(g, D, pads, j)
  BY <1>2, <1>3, <1>4, <1>8, <1>10, <1>12, <1>15 DEF PolledBy
<1> QED
  BY <1>15, <1>17, <1>18

\* Reading one joystick leaves the pads of the others alone.
LEMMA PolledLeaves ==
    ASSUME NEW D, NEW pads \in [D -> PadViews], NEW j \in Sticks
    PROVE  \A id \in D : id # j.pad => Polled(pads, j).view[id] = pads[id]
<1>1. PICK g : PolledBy(g, D, pads, j)
  BY PolledIs
<1>2. PICK q \in Seq(Frames) : q = ReadNow(j.queue)
  BY ReadNowIs DEF Sticks
<1>3. PICK N \in Nat : N = Len(q)
  OBVIOUS
<1>4. g \in [0 .. N -> PolledOf(D)] /\ g[0] = [hat |-> j.hat, view |-> pads] /\ Polled(pads, j) = g[N]
      /\ \A n \in 1 .. N : g[n] = AfterFrame(g[n - 1], j, q[n])
  BY <1>1, <1>2, <1>3 DEF PolledBy
<1> SUFFICES ASSUME NEW id \in D, id # j.pad PROVE g[N].view[id] = pads[id]
  BY <1>4
<1>5. PICK T : T = {n \in 0 .. N : g[n].view[id] # pads[id]}
  OBVIOUS
<1>6. ASSUME T # {} PROVE FALSE
  <2>1. T \in SUBSET Nat
    BY <1>5
  <2>2. PICK n \in T : \A y \in T : n <= y
    BY <1>6, <2>1, LeastNat
  <2>3. n \in 0 .. N /\ g[n].view[id] # pads[id]
    BY <1>5, <2>2
  <2>4. n # 0
    BY <1>4, <2>3
  <2>5. n \in 1 .. N /\ n - 1 \in 0 .. N /\ ~(n <= n - 1)
    BY <1>3, <2>3, <2>4
  <2>6. PICK s \in PolledOf(D) : s = g[n - 1]
    BY <1>4, <2>5
  <2>7. PICK f \in Frames : f = q[n]
    BY <1>3, <2>5
  <2>8. PICK e \in Events : e = Decoded(j.path, s.hat, f)
    BY AfterFrameIs
  <2>9. g[n].view = PadHeard(s.view, j, e)
    BY <1>4, <2>5, <2>6, <2>7, <2>8, AfterFrameIs
  <2>10. s.view \in [D -> PadViews]
    BY DEF PolledOf
  <2>11. PadHeard(s.view, j, e)[id] = s.view[id]
    BY <2>10, PadHeardIs
  <2>12. s.view[id] = pads[id]
    BY <1>5, <2>2, <2>5, <2>6
  <2> QED
    BY <2>3, <2>9, <2>11, <2>12
<1>7. N \in 0 .. N
  BY <1>3
<1> QED
  BY <1>5, <1>6, <1>7

-----------------------------------------------------------------------------
(* Gamepads: the view follows the device.                                    *)

Positions == [Elements -> Int]

\* MapEntries of one target take their values from one axis and agree where both
\* have one, as the two halves of an axis do.
HalvesIn(ms) ==
    \A i, k \in 1 .. Len(ms) : i # k /\ ms[i].to.target = ms[k].to.target =>
        /\ ms[i].from.kind = "axis" /\ ms[k].from.kind = "axis" /\ ms[i].to.target \in Axes
        /\ \A v \in -Scale .. Scale : InRange(ms[i].from.range, v) /\ InRange(ms[k].from.range, v) =>
              Transformed(ms[i].from.range, ms[i].to.range, v) = Transformed(ms[k].from.range, ms[k].to.range, v)

\* The view shows, for what moved of the elements had, what seen means.
ViewShows(v, ms, had, seen) ==
    \A k \in 1 .. Len(ms) : Applies(ms[k], had, seen) => v[ms[k].to.target] = Means(ms[k], seen)

\* The frames after the first n lead from what was seen to the position.
LeadsFrom(q, n, seen, had, pos, moved) ==
    /\ \A i \in n + 1 .. Len(q) : q[i].el \in Elements
    /\ moved = had \cup {q[i].el : i \in n + 1 .. Len(q)}
    /\ \A el \in Elements :
          /\ (\A i \in n + 1 .. Len(q) : q[i].el # el) => seen[el] = pos[el]
          /\ \A i \in n + 1 .. Len(q) :
                q[i].el = el /\ (\A l \in n + 1 .. Len(q) : i < l => q[l].el # el) => q[i].value = pos[el]

Tracks(j, v, pos) ==
    \E seen \in Positions, had \in SUBSET Elements :
        /\ j.hat = HatOf(seen) /\ ViewShows(v, j.mapping, had, seen)
        /\ LeadsFrom(j.queue, 0, seen, had, pos, j.moved)

LEMMA HalvesAnswer ==
    ASSUME NEW ms \in Seq(MapEntries), HalvesIn(ms)
    PROVE  Agreeing(ms)
<1> SUFFICES ASSUME NEW i \in 1 .. Len(ms), NEW k \in 1 .. Len(ms), NEW e \in Events,
                    ms[i].to.target = ms[k].to.target, Answers(ms[i], e), Answers(ms[k], e)
             PROVE  Answer(ms[i], e) = Answer(ms[k], e)
  BY DEF Agreeing
<1>1. CASE i = k
  BY <1>1
<1>2. CASE i # k
  <2>1. ms[i].from.kind = "axis" /\ ms[k].from.kind = "axis" /\ ms[i].to.target \in Axes
        /\ \A v \in -Scale .. Scale : InRange(ms[i].from.range, v) /\ InRange(ms[k].from.range, v) =>
              Transformed(ms[i].from.range, ms[i].to.range, v) = Transformed(ms[k].from.range, ms[k].to.range, v)
    BY <1>2 DEF HalvesIn
  <2>2. e.kind = "axis" /\ ms[k].to.target \in Axes
    BY <2>1 DEF Answers
  <2>3. PICK m \in MapEntries : m = ms[i]
    OBVIOUS
  <2>4. PICK v : v = e.value
    OBVIOUS
  <2>5. v \in -Scale .. Scale
    BY <2>1, <2>2, <2>3, <2>4, AnswerFits
  <2>6. InRange(ms[i].from.range, v) /\ InRange(ms[k].from.range, v)
    BY <2>1, <2>2, <2>4 DEF Answers
  <2>7. Transformed(ms[i].from.range, ms[i].to.range, v) = Transformed(ms[k].from.range, ms[k].to.range, v)
    BY <2>1, <2>5, <2>6
  <2>8. Answer(ms[i], e) = Transformed(ms[i].from.range, ms[i].to.range, v)
    BY <2>1, <2>2, <2>4 DEF Answer
  <2>9. Answer(ms[k], e) = Transformed(ms[k].from.range, ms[k].to.range, v)
    BY <2>1, <2>2, <2>4 DEF Answer
  <2> QED
    BY <2>7, <2>8, <2>9
<1> QED
  BY <1>1, <1>2

LEMMA HatOfIn ==
    ASSUME NEW s
    PROVE  HatOf(s) \in Hats
<1>1. Centred \in Hats
  BY DEF Centred, Hats
<1>2. HatAfter(Centred, "x", s["x"]) \in Hats
  BY <1>1, HatAfterIn
<1> QED
  BY <1>2, HatAfterIn DEF HatOf

\* The frames of the two axes of a hat may be taken in any order.
LEMMA HatFollows ==
    ASSUME NEW s \in Positions, NEW el \in {"x", "y"}, NEW v \in Int
    PROVE  HatAfter(HatOf(s), el, v) = HatOf([s EXCEPT ![el] = v])
<1>1. PICK t : t = [s EXCEPT ![el] = v]
  OBVIOUS
<1>2. PICK a : a = HatAfter(HatOf(s), el, v)
  OBVIOUS
<1>3. PICK b : b = HatOf(t)
  OBVIOUS
<1>4. PICK c : c = HatAfter(Centred, "x", s["x"])
  OBVIOUS
<1>5. PICK d : d = HatAfter(c, "y", s["y"])
  OBVIOUS
<1>6. d = HatOf(s)
  BY <1>4, <1>5 DEF HatOf
<1>7. a \in Hats /\ b \in Hats /\ c \in Hats /\ d \in Hats
  <2>1. Centred \in Hats
    BY DEF Centred, Hats
  <2> QED
    BY <1>2, <1>3, <1>4, <1>5, <1>6, <2>1, HatAfterIn, HatOfIn
<1>8. CASE el = "y"
  <2>1. t["x"] = s["x"] /\ t["y"] = v
    BY <1>1, <1>8 DEF Positions, Elements
  <2>2. b = HatAfter(c, "y", v)
    BY <1>3, <1>4, <2>1 DEF HatOf
  <2>3. a = HatAfter(d, "y", v)
    BY <1>2, <1>6, <1>8
  <2>4. ASSUME NEW q \in Dirs PROVE a[q] = b[q]
    <3>1. CASE q \in {"left", "right"}
      <4>1. a[q] = d[q]
        BY <2>3, <3>1 DEF HatAfter
      <4>2. d[q] = c[q]
        BY <1>5, <3>1 DEF HatAfter
      <4>3. b[q] = c[q]
        BY <2>2, <3>1 DEF HatAfter
      <4> QED
        BY <4>1, <4>2, <4>3
    <3>2. CASE q \notin {"left", "right"}
      <4>1. a[q] = (q = (IF v > 0 THEN "down" ELSE "up") /\ v # 0)
        BY <2>3, <3>2 DEF HatAfter
      <4>2. b[q] = (q = (IF v > 0 THEN "down" ELSE "up") /\ v # 0)
        BY <2>2, <3>2 DEF HatAfter
      <4> QED
        BY <4>1, <4>2
    <3> QED
      BY <3>1, <3>2
  <2>5. a = b
    BY <1>7, <2>4 DEF Hats
  <2> QED
    BY <1>1, <1>2, <1>3, <2>5
<1>9. CASE el = "x"
  <2>1. t["x"] = v /\ t["y"] = s["y"]
    BY <1>1, <1>9 DEF Positions, Elements
  <2>2. PICK f : f = HatAfter(Centred, "x", v)
    OBVIOUS
  <2>3. b = HatAfter(f, "y", s["y"])
    BY <1>3, <2>1, <2>2 DEF HatOf
  <2>4. a = HatAfter(d, "x", v)
    BY <1>2, <1>6, <1>9
  <2>5. ASSUME NEW q \in Dirs PROVE a[q] = b[q]
    <3>1. CASE q \in {"left", "right"}
      <4>1. a[q] = (q = (IF v > 0 THEN "right" ELSE "left") /\ v # 0)
        BY <2>4, <3>1 DEF HatAfter
      <4>2. f[q] = (q = (IF v > 0 THEN "right" ELSE "left") /\ v # 0)
        BY <2>2, <3>1 DEF HatAfter
      <4>3. b[q] = f[q]
        BY <2>3, <3>1 DEF HatAfter
      <4> QED
        BY <4>1, <4>2, <4>3
    <3>2. CASE q \notin {"left", "right"}
      <4>1. a[q] = d[q]
        BY <2>4, <3>2 DEF HatAfter
      <4>2. d[q] = (q = (IF s["y"] > 0 THEN "down" ELSE "up") /\ s["y"] # 0)
        BY <1>5, <3>2 DEF HatAfter
      <4>3. b[q] = (q = (IF s["y"] > 0 THEN "down" ELSE "up") /\ s["y"] # 0)
        BY <2>3, <3>2 DEF HatAfter
      <4> QED
        BY <4>1, <4>2, <4>3
    <3> QED
      BY <3>1, <3>2
  <2>6. a = b
    BY <1>7, <2>5 DEF Hats
  <2> QED
    BY <1>1, <1>2, <1>3, <2>6
<1> QED
  BY <1>8, <1>9

\* The kind of an event is that of the element which moved.
KindOf(el) == IF el = "key" THEN "button" ELSE IF el = "axis" THEN "axis" ELSE "hat"

Moved(s, f) == [s EXCEPT ![f.el] = f.value]
More(had, f) == had \cup {f.el}

LEMMA DecodedKind ==
    ASSUME NEW p \in Pads, NEW s \in Positions, NEW f \in Frames, f.el \in Elements,
           NEW t, t = Moved(s, f)
    PROVE  /\ t \in Positions
           /\ Decoded(p, HatOf(s), f).kind = KindOf(f.el) /\ Decoded(p, HatOf(s), f).id = 0
           /\ f.el = "key" => Decoded(p, HatOf(s), f).value = t["key"]
           /\ f.el = "axis" => Decoded(p, HatOf(s), f).value = Calibrated(t["axis"])
           /\ f.el \in {"x", "y"} => Decoded(p, HatOf(s), f).value = HatOf(t)
<1>1. PICK v \in Int : v = f.value
  BY DEF Frames
<1>2. PICK el \in Elements : el = f.el
  OBVIOUS
<1>3. t \in Positions
  BY <1>1, <1>2 DEF Positions, Moved
<1>4. PICK h \in Hats : h = HatOf(s)
  BY HatOfIn
<1>5. PICK e \in Events : e = Decoded(p, h, f)
  BY DecodedIs
<1>6. e.id = 0
  BY DEF Events
<1>7. CASE el = "key"
  <2>1. e.kind = "button" /\ e.value = v
    BY <1>1, <1>2, <1>5, <1>7 DEF Decoded
  <2>2. t["key"] = v
    BY <1>1, <1>2, <1>7 DEF Positions, Elements, Moved
  <2> QED
    BY <1>2, <1>3, <1>4, <1>5, <1>6, <1>7, <2>1, <2>2 DEF KindOf
<1>8. CASE el = "axis"
  <2>1. e.kind = "axis" /\ e.value = Calibrated(v)
    BY <1>1, <1>2, <1>5, <1>8 DEF Decoded
  <2>2. t["axis"] = v
    BY <1>1, <1>2, <1>8 DEF Positions, Elements, Moved
  <2> QED
    BY <1>2, <1>3, <1>4, <1>5, <1>6, <1>8, <2>1, <2>2 DEF KindOf
<1>9. CASE el \in {"x", "y"}
  <2>1. e.kind = "hat" /\ e.value = HatAfter(h, el, v)
    BY <1>1, <1>2, <1>5, <1>9 DEF Decoded
  <2>2. HatAfter(HatOf(s), el, v) = HatOf([s EXCEPT ![el] = v])
    BY <1>9, HatFollows
  <2>3. e.value = HatOf(t)
    BY <1>1, <1>2, <1>4, <2>1, <2>2 DEF Moved
  <2> QED
    BY <1>2, <1>3, <1>4, <1>5, <1>6, <1>9, <2>1, <2>3 DEF KindOf
<1> QED
  BY <1>7, <1>8, <1>9 DEF Elements

\* What does not answer to a frame means what it meant, and has no value now
\* if it is of the frame's kind.
LEMMA FrameMeans ==
    ASSUME NEW m \in MapEntries, NEW p \in Pads, NEW s \in Positions, NEW f \in Frames, f.el \in Elements,
           NEW t, t = Moved(s, f), NEW had \in SUBSET Elements,
           NEW more, more = More(had, f), Applies(m, more, t), NEW e \in Events, e = Decoded(p, HatOf(s), f)
    PROVE  /\ m.from.kind = KindOf(f.el) => Answers(m, e) /\ Answer(m, e) = Means(m, t)
           /\ m.from.kind # KindOf(f.el) => Applies(m, had, s) /\ Means(m, t) = Means(m, s) /\ ~Answers(m, e)
<1>1. e.kind = KindOf(f.el) /\ e.id = 0
      /\ (f.el = "key" => e.value = t["key"]) /\ (f.el = "axis" => e.value = Calibrated(t["axis"]))
      /\ (f.el \in {"x", "y"} => e.value = HatOf(t)) /\ t \in Positions
  BY DecodedKind
<1>2. m.from.id = 0 /\ m.from.kind \in {"button", "hat", "axis"}
  BY DEF Applies, MapEntries
<1>3. PICK el \in Elements : el = f.el
  OBVIOUS
<1>4. ASSUME m.from.kind = KindOf(el) PROVE Answers(m, e) /\ Answer(m, e) = Means(m, t)
  <2>1. CASE el = "key"
    <3>1. m.from.kind = "button" /\ e.kind = "button"
      BY <1>1, <1>3, <1>4, <2>1 DEF KindOf
    <3> QED
      BY <1>1, <1>2, <1>3, <2>1, <3>1 DEF Answers, Answer, Means
  <2>2. CASE el = "axis"
    <3>1. m.from.kind = "axis" /\ e.kind = "axis"
      BY <1>1, <1>3, <1>4, <2>2 DEF KindOf
    <3>2. PICK v : v = Calibrated(t["axis"])
      OBVIOUS
    <3>3. m.to.target \in Axes => InRange(m.from.range, v)
      BY <3>1, <3>2 DEF Applies, InRange
    <3>4. e.value = v
      BY <1>1, <1>3, <2>2, <3>2
    <3>5. Answers(m, e)
      BY <1>1, <1>2, <3>1, <3>3, <3>4 DEF Answers
    <3>6. Answer(m, e) = IF m.to.target \in Axes THEN Transformed(m.from.range, m.to.range, v)
                         ELSE Switched(m.to, IsAxisActive(m.from.range, v))
      BY <3>1, <3>4 DEF Answer
    <3>7. Means(m, t) = IF m.to.target \in Axes THEN Transformed(m.from.range, m.to.range, v)
                        ELSE Switched(m.to, IsAxisActive(m.from.range, v))
      BY <3>1, <3>2 DEF Means
    <3> QED
      BY <3>5, <3>6, <3>7
  <2>3. CASE el \in {"x", "y"}
    <3>1. m.from.kind = "hat" /\ e.kind = "hat"
      BY <1>1, <1>3, <1>4, <2>3 DEF KindOf
    <3>2. Answers(m, e)
      BY <1>1, <1>2, <3>1 DEF Answers
    <3>3. Answer(m, e) = Switched(m.to, HatOf(t)[m.from.mask])
      BY <1>1, <1>3, <2>3, <3>1 DEF Answer
    <3>4. Means(m, t) = Switched(m.to, HatOf(t)[m.from.mask])
      BY <3>1 DEF Means
    <3> QED
      BY <3>2, <3>3, <3>4
  <2> QED
    BY <2>1, <2>2, <2>3 DEF Elements
<1>5. ASSUME m.from.kind # KindOf(el) PROVE Applies(m, had, s) /\ Means(m, t) = Means(m, s) /\ ~Answers(m, e)
  <2>1. ~Answers(m, e)
    BY <1>1, <1>3, <1>5 DEF Answers
  <2>2. PICK v : v = f.value
    OBVIOUS
  <2>3. \A x \in Elements : x # el => t[x] = s[x]
    BY <1>3, <2>2 DEF Positions, Moved
  <2>4. CASE m.from.kind = "button"
    <3>1. el # "key" /\ t["key"] = s["key"]
      BY <1>5, <2>3, <2>4 DEF KindOf, Elements
    <3>2. Applies(m, had, s)
      BY <1>3, <2>4, <3>1 DEF Applies, More
    <3>3. Means(m, t) = Means(m, s)
      BY <2>4, <3>1 DEF Means
    <3> QED
      BY <2>1, <3>2, <3>3
  <2>5. CASE m.from.kind = "hat"
    <3>1. el # "x" /\ el # "y" /\ t["x"] = s["x"] /\ t["y"] = s["y"]
      BY <1>5, <2>3, <2>5 DEF KindOf, Elements
    <3>2. HatOf(t) = HatOf(s)
      BY <3>1 DEF HatOf
    <3>3. (had \cup {el}) \cap {"x", "y"} # {}
      BY <1>3, <2>5 DEF Applies, More
    <3>4. had \cap {"x", "y"} # {}
      BY <3>1, <3>3
    <3>5. Applies(m, had, s)
      BY <1>2, <2>5, <3>4 DEF Applies
    <3>6. Means(m, t) = Means(m, s)
      BY <2>5, <3>2 DEF Means
    <3> QED
      BY <2>1, <3>5, <3>6
  <2>6. CASE m.from.kind = "axis"
    <3>1. el # "axis" /\ t["axis"] = s["axis"]
      BY <1>5, <2>3, <2>6 DEF KindOf, Elements
    <3>2. PICK c : c = Calibrated(s["axis"])
      OBVIOUS
    <3>3. Applies(m, had, s)
      BY <1>3, <2>6, <3>1, <3>2 DEF Applies, More
    <3>4. Means(m, t) = Means(m, s)
      BY <2>6, <3>1 DEF Means
    <3> QED
      BY <2>1, <3>3, <3>4
  <2> QED
    BY <1>2, <2>4, <2>5, <2>6
<1> QED
  BY <1>3, <1>4, <1>5

LEMMA ViewFollows ==
    ASSUME NEW ms \in Seq(MapEntries), HalvesIn(ms), NEW v \in PadViews, NEW p \in Pads, NEW s \in Positions,
           NEW f \in Frames, f.el \in Elements, NEW t, t = Moved(s, f),
           NEW had \in SUBSET Elements, ViewShows(v, ms, had, s), NEW e \in Events, e = Decoded(p, HatOf(s), f)
    PROVE  ViewShows(AfterEvent(v, ms, e), ms, More(had, f), t)
<1>1. PICK w : w = AfterEvent(v, ms, e)
  OBVIOUS
<1>2. Agreeing(ms)
  BY HalvesAnswer
<1>3. \A k \in 1 .. Len(ms) : Answers(ms[k], e) => w[ms[k].to.target] = Answer(ms[k], e)
  BY <1>1, <1>2, AfterEventIs
<1>4. \A x \in Targets : (\A k \in 1 .. Len(ms) : Answers(ms[k], e) => ms[k].to.target # x) => w[x] = v[x]
  BY <1>1, AfterEventIs
<1>5. PICK more : more = More(had, f)
  OBVIOUS
<1>6. ASSUME NEW k \in 1 .. Len(ms), Applies(ms[k], more, t)
      PROVE  w[ms[k].to.target] = Means(ms[k], t)
  <2>1. PICK m \in MapEntries : m = ms[k]
    OBVIOUS
  <2>2. Applies(m, more, t)
    BY <1>6, <2>1
  <2>3. /\ m.from.kind = KindOf(f.el) => Answers(m, e) /\ Answer(m, e) = Means(m, t)
        /\ m.from.kind # KindOf(f.el) => Applies(m, had, s) /\ Means(m, t) = Means(m, s) /\ ~Answers(m, e)
    BY <1>5, <2>2, FrameMeans
  <2>4. CASE m.from.kind = KindOf(f.el)
    BY <1>3, <2>1, <2>3, <2>4
  <2>5. CASE m.from.kind # KindOf(f.el)
    <3>1. v[m.to.target] = Means(m, s)
      BY <2>1, <2>3, <2>5 DEF ViewShows
    <3>2. ASSUME NEW i \in 1 .. Len(ms), Answers(ms[i], e) PROVE ms[i].to.target # m.to.target
      <4>1. i # k
        BY <2>1, <2>3, <2>5, <3>2
      <4>2. ms[i].from.kind = e.kind
        BY <3>2 DEF Answers
      <4>3. e.kind = KindOf(f.el)
        BY DecodedKind
      <4> QED
        BY <2>1, <2>5, <4>1, <4>2, <4>3 DEF HalvesIn
    <3>3. m.to.target \in Targets
      BY DEF MapEntries
    <3>4. w[m.to.target] = v[m.to.target]
      BY <1>4, <3>2, <3>3
    <3> QED
      BY <2>1, <2>3, <2>5, <3>1, <3>4
  <2> QED
    BY <2>4, <2>5
<1> QED
  BY <1>1, <1>5, <1>6 DEF ViewShows

-----------------------------------------------------------------------------
(* Gamepads: reading the frames of a joystick brings the view to its pad.    *)

\* A frame read is one the position no longer needs.
LEMMA LeadsStep ==
    ASSUME NEW q \in Seq(Frames), NEW n \in Nat, NEW k \in 1 .. Len(q), k = n + 1, NEW s \in Positions,
           NEW had \in SUBSET Elements, NEW pos \in Positions, NEW moved, LeadsFrom(q, n, s, had, pos, moved),
           NEW f \in Frames, f = q[k], NEW t, t = Moved(s, f), NEW more, more = More(had, f)
    PROVE  /\ f.el \in Elements /\ t \in Positions /\ more \in SUBSET Elements
           /\ LeadsFrom(q, k, t, more, pos, moved)
<1>1. PICK N \in Nat : N = Len(q)
  OBVIOUS
<1>2. k \in n + 1 .. N /\ \A i \in k + 1 .. N : i \in n + 1 .. N
  BY <1>1
<1>3. \A i \in n + 1 .. N : i # k => i \in k + 1 .. N
  BY <1>1
<1>4. f.el \in Elements
  BY <1>1, <1>2 DEF LeadsFrom
<1>5. PICK v \in Int : v = f.value
  BY DEF Frames
<1>6. PICK e \in Elements : e = f.el
  BY <1>4
<1>7. t \in Positions /\ t[e] = v /\ \A x \in Elements : x # e => t[x] = s[x]
  BY <1>5, <1>6 DEF Moved, Positions
<1>8. more = had \cup {e}
  BY <1>6 DEF More
<1>9. \A i \in k + 1 .. N : q[i].el \in Elements
  BY <1>1, <1>2 DEF LeadsFrom
<1>10. moved = more \cup {q[i].el : i \in k + 1 .. N}
  <2>1. moved = had \cup {q[i].el : i \in n + 1 .. N}
    BY <1>1 DEF LeadsFrom
  <2>2. {q[i].el : i \in n + 1 .. N} = {e} \cup {q[i].el : i \in k + 1 .. N}
    BY <1>2, <1>3, <1>6
  <2> QED
    BY <1>8, <2>1, <2>2
<1>11. ASSUME NEW x \in Elements, \A i \in k + 1 .. N : q[i].el # x
       PROVE  t[x] = pos[x]
  <2>1. CASE x = e
    <3>1. k \in n + 1 .. N /\ q[k].el = x /\ \A l \in n + 1 .. N : k < l => q[l].el # x
      BY <1>1, <1>2, <1>3, <1>6, <1>11, <2>1
    <3>2. q[k].value = pos[x]
      BY <1>1, <3>1 DEF LeadsFrom
    <3> QED
      BY <1>5, <1>7, <2>1, <3>2
  <2>2. CASE x # e
    <3>1. \A i \in n + 1 .. N : q[i].el # x
      BY <1>3, <1>6, <1>11, <2>2
    <3>2. s[x] = pos[x]
      BY <1>1, <3>1 DEF LeadsFrom
    <3> QED
      BY <1>7, <2>2, <3>2
  <2> QED
    BY <2>1, <2>2
<1>12. ASSUME NEW x \in Elements, NEW i \in k + 1 .. N, q[i].el = x, \A l \in k + 1 .. N : i < l => q[l].el # x
       PROVE  q[i].value = pos[x]
  <2>1. i \in n + 1 .. N /\ \A l \in n + 1 .. N : i < l => q[l].el # x
    BY <1>2, <1>3, <1>12
  <2> QED
    BY <1>1, <1>12, <2>1 DEF LeadsFrom
<1>13. more \in SUBSET Elements
  BY <1>8
<1> QED
  BY <1>1, <1>4, <1>7, <1>9, <1>10, <1>11, <1>12, <1>13 DEF LeadsFrom

LEMMA LeadsEnd ==
    ASSUME NEW q \in Seq(Frames), NEW n, n = Len(q), NEW s \in Positions, NEW had, NEW pos \in Positions,
           NEW moved, LeadsFrom(q, n, s, had, pos, moved)
    PROVE  s = pos /\ had = moved
<1>1. PICK N \in Nat : N = Len(q)
  OBVIOUS
<1>2. N + 1 .. N = {}
  BY <1>1
<1>3. moved = had \cup {q[i].el : i \in N + 1 .. N}
  BY <1>1 DEF LeadsFrom
<1>4. \A x \in Elements : s[x] = pos[x]
  BY <1>1, <1>2 DEF LeadsFrom
<1> QED
  BY <1>2, <1>3, <1>4 DEF Positions

LEMMA LeadsNowhere ==
    ASSUME NEW q, q = <<>>, NEW pos, NEW moved
    PROVE  LeadsFrom(q, 0, pos, moved, pos, moved)
<1>1. Len(q) = 0
  OBVIOUS
<1>2. 0 + 1 .. Len(q) = {}
  BY <1>1
<1> QED
  BY <1>2 DEF LeadsFrom

LEMMA LeadsOn ==
    ASSUME NEW q \in Seq(Frames), NEW s \in Positions, NEW had, NEW pos \in Positions,
           NEW moved, LeadsFrom(q, 0, s, had, pos, moved), NEW f \in Frames, f.el \in Elements,
           NEW r, r = Append(q, f), NEW to, to = Moved(pos, f), NEW more, more = More(moved, f)
    PROVE  LeadsFrom(r, 0, s, had, to, more)
<1>1. PICK N \in Nat : N = Len(q)
  OBVIOUS
<1>2. Len(r) = N + 1 /\ r[N + 1] = f /\ \A i \in 1 .. N : r[i] = q[i]
  BY <1>1, AppendProperties
<1>3. 0 + 1 .. N = 1 .. N /\ 0 + 1 .. N + 1 = 1 .. N + 1
  BY <1>1
<1>4. \A i \in 1 .. N + 1 : i \in 1 .. N \/ i = N + 1
  BY <1>1
<1>5. PICK e \in Elements : e = f.el
  OBVIOUS
<1>6. to[e] = f.value /\ \A x \in Elements : x # e => to[x] = pos[x]
  BY <1>5 DEF Moved, Positions
<1>7. \A i \in 1 .. N : q[i].el \in Elements
  BY <1>1, <1>3 DEF LeadsFrom
<1>8. \A i \in 1 .. N + 1 : r[i].el \in Elements
  BY <1>2, <1>4, <1>7
<1>9. more = had \cup {r[i].el : i \in 1 .. N + 1}
  <2>1. moved = had \cup {q[i].el : i \in 1 .. N}
    BY <1>1, <1>3 DEF LeadsFrom
  <2>2. {r[i].el : i \in 1 .. N + 1} = {q[i].el : i \in 1 .. N} \cup {e}
    <3>1. N + 1 \in 1 .. N + 1 /\ \A i \in 1 .. N : i \in 1 .. N + 1
      BY <1>1
    <3> QED
      BY <1>2, <1>4, <1>5, <3>1
  <2> QED
    BY <1>5, <2>1, <2>2 DEF More
<1>10. ASSUME NEW x \in Elements, \A i \in 1 .. N + 1 : r[i].el # x PROVE s[x] = to[x]
  <2>1. x # e
    <3>1. N + 1 \in 1 .. N + 1
      BY <1>1
    <3> QED
      BY <1>2, <1>5, <1>10, <3>1
  <2>2. \A i \in 1 .. N : i \in 1 .. N + 1
    BY <1>1
  <2>3. \A i \in 1 .. N : q[i].el # x
    BY <1>2, <1>10, <2>2
  <2>4. s[x] = pos[x]
    BY <1>1, <1>3, <2>3 DEF LeadsFrom
  <2> QED
    BY <1>6, <2>1, <2>4
<1>11. ASSUME NEW x \in Elements, NEW i \in 1 .. N + 1, r[i].el = x, \A l \in 1 .. N + 1 : i < l => r[l].el # x
       PROVE  r[i].value = to[x]
  <2>1. CASE x = e
    <3>1. N + 1 \in 1 .. N + 1 /\ r[N + 1].el = x
      BY <1>1, <1>2, <1>5, <2>1
    <3>2. i = N + 1
      BY <1>1, <1>11, <3>1
    <3> QED
      BY <1>2, <1>6, <2>1, <3>2
  <2>2. CASE x # e
    <3>1. i \in 1 .. N
      BY <1>2, <1>4, <1>5, <1>11, <2>2
    <3>2. \A l \in 1 .. N : l \in 1 .. N + 1
      BY <1>1
    <3>3. \A l \in 1 .. N : i < l => q[l].el # x
      BY <1>2, <1>11, <3>2
    <3>4. q[i].el = x
      BY <1>2, <1>11, <3>1
    <3>5. q[i].value = pos[x]
      BY <1>1, <1>3, <3>1, <3>3, <3>4 DEF LeadsFrom
    <3> QED
      BY <1>2, <1>6, <2>2, <3>1, <3>5
  <2> QED
    BY <2>1, <2>2
<1> QED
  BY <1>2, <1>3, <1>8, <1>9, <1>10, <1>11 DEF LeadsFrom

LEMMA TracksIdle ==
    ASSUME NEW j, NEW v, NEW pos \in Positions, j.queue = <<>>, j.moved \in SUBSET Elements,
           j.hat = HatOf(pos), ViewShows(v, j.mapping, j.moved, pos)
    PROVE  Tracks(j, v, pos)
<1>1. LeadsFrom(j.queue, 0, pos, j.moved, pos, j.moved)
  BY LeadsNowhere
<1> QED
  BY <1>1 DEF Tracks

LEMMA TracksRead ==
    ASSUME NEW j \in Sticks, NEW v, NEW pos \in Positions, j.queue = <<>>, Tracks(j, v, pos)
    PROVE  ViewShows(v, j.mapping, j.moved, pos)
<1>1. PICK s \in Positions, had \in SUBSET Elements :
        ViewShows(v, j.mapping, had, s) /\ LeadsFrom(j.queue, 0, s, had, pos, j.moved)
  BY DEF Tracks
<1>2. PICK q \in Seq(Frames) : q = j.queue
  BY DEF Sticks
<1>3. 0 = Len(q)
  BY <1>2
<1>4. s = pos /\ had = j.moved
  BY <1>1, <1>2, <1>3, LeadsEnd
<1> QED
  BY <1>1, <1>4

LEMMA TracksMoved ==
    ASSUME NEW j \in Sticks, NEW v, NEW pos \in Positions, Tracks(j, v, pos), NEW f \in Frames, f.el \in Elements,
           NEW to, to = Moved(pos, f), NEW r, r.hat = j.hat, r.mapping = j.mapping,
           r.queue = Append(j.queue, f), r.moved = More(j.moved, f)
    PROVE  Tracks(r, v, to)
<1>1. PICK s \in Positions, had \in SUBSET Elements :
        j.hat = HatOf(s) /\ ViewShows(v, j.mapping, had, s) /\ LeadsFrom(j.queue, 0, s, had, pos, j.moved)
  BY DEF Tracks
<1>2. PICK q \in Seq(Frames) : q = j.queue
  BY DEF Sticks
<1>3. PICK z : z = r.queue
  OBVIOUS
<1>4. PICK more : more = r.moved
  OBVIOUS
<1>5. PICK moved : moved = j.moved
  OBVIOUS
<1>6. z = Append(q, f) /\ more = More(moved, f) /\ LeadsFrom(q, 0, s, had, pos, moved)
  BY <1>1, <1>2, <1>3, <1>4, <1>5
<1>7. LeadsFrom(z, 0, s, had, to, more)
  BY <1>6, LeadsOn
<1> QED
  BY <1>1, <1>3, <1>4, <1>7 DEF Tracks

\* What reading j's frames up to the n-th makes of it.
Followed(g, n, j, pos) ==
    \E s \in Positions, had \in SUBSET Elements :
        /\ g[n].hat = HatOf(s) /\ ViewShows(g[n].view[j.pad], j.mapping, had, s)
        /\ LeadsFrom(j.queue, n, s, had, pos, j.moved)

LEMMA PolledTracks ==
    ASSUME NEW D, NEW pads \in [D -> PadViews], NEW j \in Sticks, HalvesIn(j.mapping), j.pad \in D,
           NEW pos \in Positions, Tracks(j, pads[j.pad], pos)
    PROVE  /\ Polled(pads, j).hat = HatOf(pos)
           /\ ViewShows(Polled(pads, j).view[j.pad], j.mapping, j.moved, pos)
           /\ LeftAfter(j.queue) = <<>>
<1>1. PICK q \in Seq(Frames) : q = j.queue
  BY DEF Sticks
<1>2. PICK N \in Nat : N = Len(q)
  OBVIOUS
<1>3. PICK s0 \in Positions, had0 \in SUBSET Elements :
        j.hat = HatOf(s0) /\ ViewShows(pads[j.pad], j.mapping, had0, s0) /\ LeadsFrom(q, 0, s0, had0, pos, j.moved)
  BY <1>1 DEF Tracks
<1>4. \A i \in 1 .. Len(q) : q[i].el # "lost"
  <2>1. 0 + 1 .. Len(q) = 1 .. Len(q)
    OBVIOUS
  <2>2. \A i \in 1 .. Len(q) : q[i].el \in Elements
    BY <1>3, <2>1 DEF LeadsFrom
  <2> QED
    BY <2>2 DEF Elements
<1>5. ReadNow(q) = q /\ LeftAfter(q) = <<>>
  BY <1>4, ReadNowIs
<1>6. PICK g : PolledBy(g, D, pads, j)
  BY PolledIs
<1>7. g \in [0 .. N -> PolledOf(D)] /\ g[0] = [hat |-> j.hat, view |-> pads] /\ Polled(pads, j) = g[N]
      /\ \A n \in 1 .. N : g[n] = AfterFrame(g[n - 1], j, q[n])
  BY <1>1, <1>2, <1>5, <1>6 DEF PolledBy
<1>8. Followed(g, 0, j, pos)
  <2>1. g[0].hat = j.hat /\ g[0].view = pads
    BY <1>7
  <2> QED
    BY <1>1, <1>3, <2>1 DEF Followed
<1>9. ASSUME NEW n \in 1 .. N, Followed(g, n - 1, j, pos) PROVE Followed(g, n, j, pos)
  <2>1. PICK m \in Nat : m = n - 1
    BY <1>2
  <2>2. PICK s \in Positions, had \in SUBSET Elements :
          g[m].hat = HatOf(s) /\ ViewShows(g[m].view[j.pad], j.mapping, had, s)
          /\ LeadsFrom(q, m, s, had, pos, j.moved)
    BY <1>1, <1>9, <2>1 DEF Followed
  <2>3. PICK f \in Frames : f = q[n]
    BY <1>2
  <2>4. PICK t : t = Moved(s, f)
    OBVIOUS
  <2>5. PICK more : more = More(had, f)
    OBVIOUS
  <2>6. n \in 1 .. Len(q) /\ n = m + 1
    BY <1>2, <2>1
  <2>7. PICK moved : moved = j.moved
    OBVIOUS
  <2>8. f.el \in Elements /\ t \in Positions /\ more \in SUBSET Elements /\ LeadsFrom(q, n, t, more, pos, moved)
    <3>1. PICK k \in 1 .. Len(q) : k = n
      BY <2>6
    <3>2. k = m + 1 /\ f = q[k]
      BY <2>3, <2>6, <3>1
    <3>3. LeadsFrom(q, m, s, had, pos, moved)
      BY <2>2, <2>7
    <3>4. f.el \in Elements /\ t \in Positions /\ more \in SUBSET Elements /\ LeadsFrom(q, k, t, more, pos, moved)
      BY <2>4, <2>5, <3>2, <3>3, LeadsStep
    <3> QED
      BY <3>1, <3>4
  <2>9. PICK a \in PolledOf(D) : a = g[m]
    BY <1>2, <1>7, <2>6
  <2>10. a.hat \in Hats /\ a.view \in [D -> PadViews] /\ a.hat = HatOf(s)
    BY <2>2, <2>9 DEF PolledOf
  <2>11. PICK e \in Events : e = Decoded(j.path, a.hat, f)
    BY AfterFrameIs
  <2>12. g[n].view = PadHeard(a.view, j, e)
         /\ g[n].hat = IF f.el \in {"key", "axis"} THEN a.hat ELSE HatAfter(a.hat, f.el, f.value)
    <3>1. g[n] = AfterFrame(a, j, f)
      BY <1>7, <2>1, <2>3, <2>9
    <3> QED
      BY <2>11, <3>1, AfterFrameIs
  <2>13. PICK v \in PadViews : v = a.view[j.pad]
    BY <2>10
  <2>14. PICK ms \in Seq(MapEntries) : ms = j.mapping
    BY MappingIs
  <2>15. g[n].view[j.pad] = AfterEvent(v, ms, e)
    BY <2>10, <2>12, <2>13, <2>14, PadHeardIs
  <2>16. PICK p \in Pads : p = j.path
    BY DEF Sticks
  <2>17. ViewShows(AfterEvent(v, ms, e), ms, more, t)
    <3>1. HalvesIn(ms) /\ ViewShows(v, ms, had, s) /\ e = Decoded(p, HatOf(s), f)
      BY <2>2, <2>9, <2>10, <2>11, <2>13, <2>14, <2>16
    <3> QED
      BY <2>4, <2>5, <2>8, <3>1, ViewFollows
  <2>18. g[n].hat = HatOf(t)
    <3>1. PICK el \in Elements : el = f.el
      BY <2>8
    <3>2. PICK v2 \in Int : v2 = f.value
      BY DEF Frames
    <3>3. t = [s EXCEPT ![el] = v2]
      BY <2>4, <3>1, <3>2 DEF Moved
    <3>4. CASE el \in {"key", "axis"}
      <4>1. t["x"] = s["x"] /\ t["y"] = s["y"]
        BY <3>3, <3>4 DEF Positions, Elements
      <4>2. HatOf(t) = HatOf(s)
        BY <4>1 DEF HatOf
      <4> QED
        BY <2>10, <2>12, <3>1, <3>4, <4>2
    <3>5. CASE el \in {"x", "y"}
      <4>1. HatAfter(HatOf(s), el, v2) = HatOf([s EXCEPT ![el] = v2])
        BY <3>5, HatFollows
      <4> QED
        BY <2>10, <2>12, <3>1, <3>2, <3>3, <3>5, <4>1
    <3> QED
      BY <3>4, <3>5 DEF Elements
  <2> QED
    BY <1>1, <2>7, <2>8, <2>14, <2>15, <2>17, <2>18 DEF Followed
<1>10. PICK T : T = {n \in 0 .. N : ~Followed(g, n, j, pos)}
  OBVIOUS
<1>11. ASSUME T # {} PROVE FALSE
  <2>1. T \in SUBSET Nat
    BY <1>10
  <2>2. PICK n \in T : \A y \in T : n <= y
    BY <1>11, <2>1, LeastNat
  <2>3. n \in 0 .. N /\ ~Followed(g, n, j, pos)
    BY <1>10, <2>2
  <2>4. n # 0
    BY <1>8, <2>3
  <2>5. n \in 1 .. N /\ n - 1 \in 0 .. N /\ ~(n <= n - 1)
    BY <1>2, <2>3, <2>4
  <2>6. Followed(g, n - 1, j, pos)
    BY <1>10, <2>2, <2>5
  <2> QED
    BY <1>9, <2>3, <2>5, <2>6
<1>12. Followed(g, N, j, pos)
  BY <1>2, <1>10, <1>11
<1>13. PICK s \in Positions, had \in SUBSET Elements :
        g[N].hat = HatOf(s) /\ ViewShows(g[N].view[j.pad], j.mapping, had, s) /\ LeadsFrom(q, N, s, had, pos, j.moved)
  BY <1>1, <1>12 DEF Followed
<1>14. s = pos /\ had = j.moved
  <2>1. PICK moved : moved = j.moved
    OBVIOUS
  <2> QED
    BY <1>2, <1>13, <2>1, LeadsEnd
<1> QED
  BY <1>1, <1>5, <1>7, <1>13, <1>14

\* One joystick after the other.
AllPolledBy(g, D) ==
    /\ g \in [0 .. Len(joysticks) -> [D -> PadViews]]
    /\ g[0] = view
    /\ \A i \in 1 .. Len(joysticks) : g[i] = Polled(g[i - 1], joysticks[i]).view
    /\ AllPolled = g[Len(joysticks)]

LEMMA AllPolledIs ==
    ASSUME NEW D, view \in [D -> PadViews], joysticks \in Seq(Sticks)
    PROVE  \E g : AllPolledBy(g, D)
<1>1. PICK N \in Nat : N = Len(joysticks)
  OBVIOUS
<1>2. PICK S : S = [D -> PadViews]
  OBVIOUS
<1>3. PICK js \in Seq(Sticks) : js = joysticks
  OBVIOUS
<1>4. PICK a \in S : a = view
  BY <1>2
<1>5. PICK step : step = [n \in 1 .. N |-> [x \in S |-> Polled(x, js[n]).view]]
  OBVIOUS
<1>6. \A n \in 1 .. N : \A x \in S : step[n][x] = Polled(x, js[n]).view
  BY <1>5
<1>7. StepsIn(S, N, step)
  <2>1. ASSUME NEW n \in 1 .. N, NEW x \in S PROVE step[n][x] \in S
    <3>1. PICK j \in Sticks : j = js[n]
      BY <1>1, <1>3
    <3>2. x \in [D -> PadViews]
      BY <1>2
    <3>3. Polled(x, j) \in PolledOf(D)
      BY <3>2, PolledIs
    <3>4. Polled(x, j).view \in S
      BY <1>2, <3>3 DEF PolledOf
    <3> QED
      BY <1>6, <3>1, <3>4
  <2> QED
    BY <2>1 DEF StepsIn
<1>8. PICK g : Steps(g, S, N, a, step)
  BY <1>7, StepsExist
<1>9. g \in [0 .. N -> S] /\ g[0] = a /\ \A n \in 1 .. N : g[n] = step[n][g[n - 1]]
  BY <1>8 DEF Steps
<1>10. \A n \in 1 .. N : n - 1 \in 0 .. N
  BY <1>1
<1>11. \A n \in 1 .. N : g[n] = Polled(g[n - 1], js[n]).view
  <2> TAKE n \in 1 .. N
  <2>1. g[n - 1] \in S
    BY <1>9, <1>10
  <2> QED
    BY <1>6, <1>9, <2>1
<1>12. g = [n \in 0 .. N |-> IF n = 0 THEN a ELSE Polled(g[n - 1], js[n]).view]
  <2>1. PICK h : h = [n \in 0 .. N |-> IF n = 0 THEN a ELSE Polled(g[n - 1], js[n]).view]
    OBVIOUS
  <2>2. \A n \in 0 .. N : n # 0 => n \in 1 .. N
    BY <1>1
  <2>3. \A n \in 0 .. N : g[n] = h[n]
    BY <1>9, <1>11, <2>1, <2>2
  <2>4. g = h
    BY <1>9, <2>1, <2>3
  <2> QED
    BY <2>1, <2>4
<1>13. ASSUME NEW u, u = [n \in 0 .. N |-> IF n = 0 THEN a ELSE Polled(u[n - 1], js[n]).view]
       PROVE  u = g
  <2>1. PICK T : T = {k \in 0 .. N : u[k] # g[k]}
    OBVIOUS
  <2>2. ASSUME T # {} PROVE FALSE
    <3>1. T \in SUBSET Nat
      BY <2>1
    <3>2. PICK k \in T : \A y \in T : k <= y
      BY <2>2, <3>1, LeastNat
    <3>3. k \in 0 .. N /\ u[k] # g[k]
      BY <2>1, <3>2
    <3>4. k # 0
      BY <1>9, <1>13, <3>3
    <3>5. k - 1 \in 0 .. N /\ ~(k <= k - 1) /\ k \in 1 .. N
      BY <1>1, <3>3, <3>4
    <3>6. u[k - 1] = g[k - 1]
      BY <2>1, <3>2, <3>5
    <3>7. u[k] = Polled(u[k - 1], js[k]).view
      <4>1. PICK h : h = [n \in 0 .. N |-> IF n = 0 THEN a ELSE Polled(u[n - 1], js[n]).view]
        OBVIOUS
      <4>2. u[k] = h[k]
        BY <1>13, <4>1
      <4> QED
        BY <3>3, <3>4, <4>1, <4>2
    <3> QED
      BY <1>11, <3>3, <3>5, <3>6, <3>7
  <2>3. \A k \in 0 .. N : u[k] = g[k]
    BY <2>1, <2>2
  <2>4. u = [k \in 0 .. N |-> u[k]] /\ g = [k \in 0 .. N |-> g[k]]
    BY <1>9, <1>13
  <2> QED
    BY <2>3, <2>4
<1>14. AllPolled = g[N]
  BY <1>1, <1>3, <1>4, <1>12, <1>13 DEF AllPolled
<1> QED
  BY <1>1, <1>2, <1>3, <1>4, <1>9, <1>11, <1>14 DEF AllPolledBy

\* A pad is left alone by the joysticks of other pads.
LEMMA PadsLeft ==
    ASSUME NEW D, joysticks \in Seq(Sticks), NEW g, AllPolledBy(g, D), NEW lo \in Nat, NEW hi \in Nat,
           lo <= hi, hi <= Len(joysticks), NEW id \in D,
           \A k \in lo + 1 .. hi : joysticks[k].pad # id
    PROVE  g[hi][id] = g[lo][id]
<1>1. PICK N \in Nat : N = Len(joysticks)
  OBVIOUS
<1>2. g \in [0 .. N -> [D -> PadViews]] /\ \A i \in 1 .. N : g[i] = Polled(g[i - 1], joysticks[i]).view
  BY <1>1 DEF AllPolledBy
<1>3. PICK T : T = {n \in lo .. hi : g[n][id] # g[lo][id]}
  OBVIOUS
<1>4. ASSUME T # {} PROVE FALSE
  <2>1. T \in SUBSET Nat
    BY <1>3
  <2>2. PICK n \in T : \A y \in T : n <= y
    BY <1>4, <2>1, LeastNat
  <2>3. n \in lo .. hi /\ g[n][id] # g[lo][id]
    BY <1>3, <2>2
  <2>4. n # lo
    BY <2>3
  <2>5. n \in lo + 1 .. hi /\ n \in 1 .. N /\ n - 1 \in lo .. hi /\ n - 1 \in 0 .. N /\ ~(n <= n - 1)
    BY <1>1, <2>3, <2>4
  <2>6. g[n - 1][id] = g[lo][id]
    BY <1>3, <2>2, <2>5
  <2>7. PICK j \in Sticks : j = joysticks[n]
    BY <1>1, <2>5
  <2>8. PICK pads \in [D -> PadViews] : pads = g[n - 1]
    BY <1>2, <2>5
  <2>9. id # j.pad
    BY <2>5, <2>7
  <2>10. Polled(pads, j).view[id] = pads[id]
    BY <2>9, PolledLeaves
  <2>11. g[n] = Polled(pads, j).view
    BY <1>2, <2>5, <2>7, <2>8
  <2> QED
    BY <2>3, <2>6, <2>8, <2>10, <2>11
<1>5. hi \in lo .. hi
  OBVIOUS
<1> QED
  BY <1>3, <1>4, <1>5

PadsDiffer == \A i, k \in 1 .. Len(joysticks) : joysticks[i].pad = joysticks[k].pad => i = k

\* The i-th joystick finds its pad as it was, and leaves it as it stays.
PolledAlone(D, i) ==
    \E pads \in [D -> PadViews] :
        /\ pads[joysticks[i].pad] = view[joysticks[i].pad]
        /\ AllPolled[joysticks[i].pad] = Polled(pads, joysticks[i]).view[joysticks[i].pad]

LEMMA AllPolledEach ==
    ASSUME NEW D, view \in [D -> PadViews], joysticks \in Seq(Sticks), PadsDiffer,
           NEW i \in 1 .. Len(joysticks), joysticks[i].pad \in D
    PROVE  PolledAlone(D, i)
<1> USE DEF PadsDiffer
<1>1. PICK N \in Nat : N = Len(joysticks)
  OBVIOUS
<1>2. PICK g : AllPolledBy(g, D)
  BY AllPolledIs
<1>3. g \in [0 .. N -> [D -> PadViews]] /\ g[0] = view /\ AllPolled = g[N]
      /\ \A k \in 1 .. N : g[k] = Polled(g[k - 1], joysticks[k]).view
  BY <1>1, <1>2 DEF AllPolledBy
<1>4. PICK id \in D : id = joysticks[i].pad
  OBVIOUS
<1>5. i \in 1 .. N /\ i - 1 \in 0 .. N /\ i \in Nat /\ N <= Len(joysticks) /\ i <= N
  BY <1>1
<1>6. PICK m \in Nat : m = i - 1
  BY <1>5
<1>7. m <= Len(joysticks) /\ 0 <= m /\ 0 \in Nat
  BY <1>5, <1>6
<1>8. \A k \in 0 + 1 .. m : joysticks[k].pad # id
  <2>1. \A k \in 0 + 1 .. m : k \in 1 .. Len(joysticks) /\ k # i
    BY <1>1, <1>5, <1>6
  <2> QED
    BY <1>4, <2>1
<1>9. \A k \in i + 1 .. N : joysticks[k].pad # id
  <2>1. \A k \in i + 1 .. N : k \in 1 .. Len(joysticks) /\ k # i
    BY <1>1, <1>5
  <2> QED
    BY <1>4, <2>1
<1>10. g[m][id] = g[0][id]
  BY <1>2, <1>7, <1>8, PadsLeft
<1>11. g[N][id] = g[i][id]
  BY <1>2, <1>5, <1>9, PadsLeft
<1>12. PICK pads \in [D -> PadViews] : pads = g[m]
  BY <1>3, <1>5, <1>6
<1>13. g[i] = Polled(pads, joysticks[i]).view
  BY <1>3, <1>5, <1>6, <1>12
<1>14. pads[id] = view[id] /\ AllPolled[id] = Polled(pads, joysticks[i]).view[id]
  BY <1>3, <1>10, <1>11, <1>12, <1>13
<1> QED
  BY <1>4, <1>14 DEF PolledAlone

-----------------------------------------------------------------------------
(* Gamepads: what udev has told of a device and not yet been heard.          *)

Notices == [what : {"add", "remove"}, pad : Pads]

\* What is still to come of p: notices of it alternate, the last one says
\* whether it is plugged in, the first one adds only what is neither open (its)
\* nor due to be opened; with none, it is open when plugged in, or due.
Told(mon, p, ins, its, dues) ==
    /\ \A i \in 1 .. Len(mon) : mon[i].pad = p /\ (\A l \in 1 .. i - 1 : mon[l].pad # p) /\ mon[i].what = "add"
          => p \notin its /\ p \notin dues
    /\ \A i \in 1 .. Len(mon) : mon[i].pad = p /\ (\A l \in i + 1 .. Len(mon) : mon[l].pad # p)
          => (mon[i].what = "add" <=> p \in ins)
    /\ \A i, k \in 1 .. Len(mon) : i < k /\ mon[i].pad = p /\ mon[k].pad = p /\ (\A l \in i + 1 .. k - 1 : mon[l].pad # p)
          => mon[i].what # mon[k].what
    /\ (\A i \in 1 .. Len(mon) : mon[i].pad # p) =>
          /\ p \notin dues => (p \in ins <=> p \in its)
          /\ p \in dues => p \in ins
    /\ p \in dues => p \notin its

LEMMA ToldSame ==
    ASSUME NEW mon, NEW p, NEW ins, NEW its, NEW dues, Told(mon, p, ins, its, dues),
           NEW ins2, NEW its2, NEW dues2, p \in ins2 <=> p \in ins, p \in its2 <=> p \in its, p \in dues2 <=> p \in dues
    PROVE  Told(mon, p, ins2, its2, dues2)
BY DEF Told

LEMMA ToldStart ==
    ASSUME NEW mon, mon = <<>>, NEW p, NEW ins, NEW its, p \notin its, NEW dues, p \in dues <=> p \in ins
    PROVE  Told(mon, p, ins, its, dues)
<1>1. Len(mon) = 0
  OBVIOUS
<1>2. 1 .. Len(mon) = {}
  BY <1>1
<1> QED
  BY <1>2 DEF Told

LEMMA ToldNone ==
    ASSUME NEW mon, mon = <<>>, NEW p, NEW ins, NEW its, NEW dues, p \notin dues, Told(mon, p, ins, its, dues)
    PROVE  p \in ins <=> p \in its
<1>1. Len(mon) = 0
  OBVIOUS
<1>2. 1 .. Len(mon) = {}
  BY <1>1
<1> QED
  BY <1>2 DEF Told

\* A device listed is opened when it is still there.
LEMMA ToldFound ==
    ASSUME NEW mon, NEW p, NEW ins, NEW its, NEW dues, p \in dues, Told(mon, p, ins, its, dues),
           NEW its2, p \in its2 <=> p \in ins, NEW dues2, p \notin dues2
    PROVE  Told(mon, p, ins, its2, dues2)
BY DEF Told

\* A notice of another device.
LEMMA ToldOther ==
    ASSUME NEW mon \in Seq(Notices), NEW p, NEW ins, NEW its, NEW dues, Told(mon, p, ins, its, dues),
           NEW n \in Notices, n.pad # p, NEW m, m = Append(mon, n)
    PROVE  Told(m, p, ins, its, dues)
<1>1. PICK N \in Nat : N = Len(mon)
  OBVIOUS
<1>2. Len(m) = N + 1 /\ m[N + 1] = n /\ \A i \in 1 .. N : m[i] = mon[i]
  BY <1>1, AppendProperties
<1>3. \A i \in 1 .. N + 1 : i \in 1 .. N \/ i = N + 1
  BY <1>1
<1>4. \A i \in 1 .. N + 1 : m[i].pad = p => i \in 1 .. N
  BY <1>2, <1>3
<1>5. ASSUME NEW i \in 1 .. N + 1, m[i].pad = p, \A l \in 1 .. i - 1 : m[l].pad # p, m[i].what = "add"
      PROVE  p \notin its /\ p \notin dues
  <2>1. i \in 1 .. N /\ \A l \in 1 .. i - 1 : l \in 1 .. N
    BY <1>1, <1>4, <1>5
  <2>2. mon[i].pad = p /\ mon[i].what = "add" /\ \A l \in 1 .. i - 1 : mon[l].pad # p
    BY <1>2, <1>5, <2>1
  <2> QED
    BY <1>1, <2>1, <2>2 DEF Told
<1>6. ASSUME NEW i \in 1 .. N + 1, m[i].pad = p, \A l \in i + 1 .. N + 1 : m[l].pad # p
      PROVE  m[i].what = "add" <=> p \in ins
  <2>1. i \in 1 .. N /\ \A l \in i + 1 .. N : l \in 1 .. N /\ l \in i + 1 .. N + 1
    BY <1>1, <1>4, <1>6
  <2>2. mon[i].pad = p /\ \A l \in i + 1 .. N : mon[l].pad # p
    BY <1>2, <1>6, <2>1
  <2>3. mon[i].what = "add" <=> p \in ins
    BY <1>1, <2>1, <2>2 DEF Told
  <2> QED
    BY <1>2, <2>1, <2>3
<1>7. ASSUME NEW i \in 1 .. N + 1, NEW k \in 1 .. N + 1, i < k, m[i].pad = p, m[k].pad = p,
             \A l \in i + 1 .. k - 1 : m[l].pad # p
      PROVE  m[i].what # m[k].what
  <2>1. i \in 1 .. N /\ k \in 1 .. N /\ \A l \in i + 1 .. k - 1 : l \in 1 .. N
    BY <1>1, <1>4, <1>7
  <2>2. mon[i].pad = p /\ mon[k].pad = p /\ \A l \in i + 1 .. k - 1 : mon[l].pad # p
    BY <1>2, <1>7, <2>1
  <2>3. mon[i].what # mon[k].what
    BY <1>1, <1>7, <2>1, <2>2 DEF Told
  <2> QED
    BY <1>2, <2>1, <2>3
<1>8. ASSUME \A i \in 1 .. N + 1 : m[i].pad # p
      PROVE  (p \notin dues => (p \in ins <=> p \in its)) /\ (p \in dues => p \in ins)
  <2>1. \A i \in 1 .. N : i \in 1 .. N + 1
    BY <1>1
  <2>2. \A i \in 1 .. N : mon[i].pad # p
    BY <1>2, <1>8, <2>1
  <2> QED
    BY <1>1, <2>2 DEF Told
<1>9. p \in dues => p \notin its
  BY DEF Told
<1> QED
  BY <1>2, <1>5, <1>6, <1>7, <1>8, <1>9 DEF Told

\* A notice of the device: it comes or goes.
LEMMA ToldMore ==
    ASSUME NEW mon \in Seq(Notices), NEW p, NEW ins, NEW its, NEW dues, Told(mon, p, ins, its, dues),
           NEW n \in Notices, n.pad = p, NEW m, m = Append(mon, n),
           n.what = "add" <=> p \notin ins, NEW ins2, p \in ins2 <=> p \notin ins,
           NEW dues2, p \in dues2 => p \in dues
    PROVE  Told(m, p, ins2, its, dues2)
<1>1. PICK N \in Nat : N = Len(mon)
  OBVIOUS
<1>2. Len(m) = N + 1 /\ m[N + 1] = n /\ \A i \in 1 .. N : m[i] = mon[i]
  BY <1>1, AppendProperties
<1>3. \A i \in 1 .. N + 1 : i \in 1 .. N \/ i = N + 1
  BY <1>1
<1>4. N + 1 \in 1 .. N + 1 /\ m[N + 1].pad = p
  BY <1>1, <1>2
<1>5. ASSUME NEW i \in 1 .. N + 1, m[i].pad = p, \A l \in 1 .. i - 1 : m[l].pad # p, m[i].what = "add"
      PROVE  p \notin its /\ p \notin dues2
  <2>1. CASE i \in 1 .. N
    <3>1. \A l \in 1 .. i - 1 : l \in 1 .. N
      BY <1>1, <2>1
    <3>2. mon[i].pad = p /\ mon[i].what = "add" /\ \A l \in 1 .. i - 1 : mon[l].pad # p
      BY <1>2, <1>5, <2>1, <3>1
    <3>3. p \notin its /\ p \notin dues
      BY <1>1, <2>1, <3>2 DEF Told
    <3> QED
      BY <3>3
  <2>2. CASE i = N + 1
    <3>1. \A l \in 1 .. N : l \in 1 .. i - 1
      BY <1>1, <2>2
    <3>2. \A l \in 1 .. N : mon[l].pad # p
      BY <1>2, <1>5, <3>1
    <3>3. (p \notin dues => (p \in ins <=> p \in its)) /\ (p \in dues => p \in ins)
      BY <1>1, <3>2 DEF Told
    <3>4. p \notin ins
      BY <1>2, <1>5, <2>2
    <3> QED
      BY <3>3, <3>4
  <2> QED
    BY <1>3, <2>1, <2>2
<1>6. ASSUME NEW i \in 1 .. N + 1, m[i].pad = p, \A l \in i + 1 .. N + 1 : m[l].pad # p
      PROVE  m[i].what = "add" <=> p \in ins2
  <2>1. i = N + 1
    BY <1>1, <1>4, <1>6
  <2> QED
    BY <1>2, <2>1
<1>7. ASSUME NEW i \in 1 .. N + 1, NEW k \in 1 .. N + 1, i < k, m[i].pad = p, m[k].pad = p,
             \A l \in i + 1 .. k - 1 : m[l].pad # p
      PROVE  m[i].what # m[k].what
  <2>1. i \in 1 .. N /\ \A l \in i + 1 .. k - 1 : l \in 1 .. N
    BY <1>1, <1>7
  <2>2. mon[i].pad = p /\ \A l \in i + 1 .. k - 1 : mon[l].pad # p
    BY <1>2, <1>7, <2>1
  <2>3. CASE k \in 1 .. N
    <3>1. mon[k].pad = p
      BY <1>2, <1>7, <2>3
    <3>2. mon[i].what # mon[k].what
      BY <1>1, <1>7, <2>1, <2>2, <2>3, <3>1 DEF Told
    <3> QED
      BY <1>2, <2>1, <2>3, <3>2
  <2>4. CASE k = N + 1
    <3>1. \A l \in i + 1 .. N : l \in i + 1 .. k - 1
      BY <1>1, <2>4
    <3>2. \A l \in i + 1 .. N : mon[l].pad # p
      BY <2>2, <3>1
    <3>3. mon[i].what = "add" <=> p \in ins
      BY <1>1, <2>1, <2>2, <3>2 DEF Told
    <3> QED
      BY <1>2, <2>1, <2>4, <3>3
  <2> QED
    BY <1>3, <2>3, <2>4
<1>8. p \in dues2 => p \notin its
  BY DEF Told
<1> QED
  BY <1>2, <1>4, <1>5, <1>6, <1>7, <1>8 DEF Told

\* A notice of another device is heard.
LEMMA ToldOtherHeard ==
    ASSUME NEW mon \in Seq(Notices), mon # <<>>, NEW p, NEW ins, NEW its, NEW dues, Told(mon, p, ins, its, dues),
           mon[1].pad # p, NEW m, m = Tail(mon)
    PROVE  Told(m, p, ins, its, dues)
<1>1. PICK N \in Nat : N = Len(m)
  BY HeadTailProperties
<1>2. Len(mon) = N + 1 /\ \A i \in 1 .. N : m[i] = mon[i + 1]
  BY <1>1, HeadTailProperties
<1>3. ASSUME NEW i \in 1 .. N, m[i].pad = p, \A l \in 1 .. i - 1 : m[l].pad # p, m[i].what = "add"
      PROVE  p \notin its /\ p \notin dues
  <2>1. PICK a \in 1 .. N + 1 : a = i + 1
    BY <1>1
  <2>2. ASSUME NEW l \in 1 .. a - 1 PROVE mon[l].pad # p
    <3>1. CASE l = 1
      BY <3>1
    <3>2. CASE l # 1
      <4>1. PICK b \in 1 .. i - 1 : b = l - 1
        BY <2>1, <3>2
      <4>2. b \in 1 .. N /\ l = b + 1
        BY <1>1, <3>2, <4>1
      <4> QED
        BY <1>2, <1>3, <4>1, <4>2
    <3> QED
      BY <3>1, <3>2
  <2>3. mon[a].pad = p /\ mon[a].what = "add"
    BY <1>2, <1>3, <2>1
  <2> QED
    BY <1>2, <2>2, <2>3 DEF Told
<1>4. ASSUME NEW i \in 1 .. N, m[i].pad = p, \A l \in i + 1 .. N : m[l].pad # p
      PROVE  m[i].what = "add" <=> p \in ins
  <2>1. PICK a \in 1 .. N + 1 : a = i + 1
    BY <1>1
  <2>2. ASSUME NEW l \in a + 1 .. N + 1 PROVE mon[l].pad # p
    <3>1. PICK b \in i + 1 .. N : b = l - 1
      BY <1>1, <2>1
    <3>2. b \in 1 .. N /\ l = b + 1
      BY <1>1, <2>1, <3>1
    <3> QED
      BY <1>2, <1>4, <3>1, <3>2
  <2>3. mon[a].pad = p /\ mon[a].what = m[i].what
    BY <1>2, <1>4, <2>1
  <2>4. mon[a].what = "add" <=> p \in ins
    BY <1>2, <2>2, <2>3 DEF Told
  <2> QED
    BY <2>3, <2>4
<1>5. ASSUME NEW i \in 1 .. N, NEW k \in 1 .. N, i < k, m[i].pad = p, m[k].pad = p,
             \A l \in i + 1 .. k - 1 : m[l].pad # p
      PROVE  m[i].what # m[k].what
  <2>1. PICK a \in 1 .. N + 1 : a = i + 1
    BY <1>1
  <2>2. PICK c \in 1 .. N + 1 : c = k + 1
    BY <1>1
  <2>3. ASSUME NEW l \in a + 1 .. c - 1 PROVE mon[l].pad # p
    <3>1. PICK b \in i + 1 .. k - 1 : b = l - 1
      BY <1>1, <2>1, <2>2
    <3>2. b \in 1 .. N /\ l = b + 1
      BY <1>1, <2>1, <2>2, <3>1
    <3> QED
      BY <1>2, <1>5, <3>1, <3>2
  <2>4. mon[a] = m[i] /\ mon[c] = m[k] /\ a < c
    BY <1>2, <1>5, <2>1, <2>2
  <2>5. mon[a].what # mon[c].what
    <3>1. a \in 1 .. Len(mon) /\ c \in 1 .. Len(mon) /\ mon[a].pad = p /\ mon[c].pad = p
      BY <1>2, <1>5, <2>4
    <3> QED
      BY <2>3, <2>4, <3>1 DEF Told
  <2> QED
    BY <2>4, <2>5
<1>6. ASSUME \A i \in 1 .. N : m[i].pad # p
      PROVE  (p \notin dues => (p \in ins <=> p \in its)) /\ (p \in dues => p \in ins)
  <2>1. ASSUME NEW i \in 1 .. N + 1 PROVE mon[i].pad # p
    <3>1. CASE i = 1
      BY <3>1
    <3>2. CASE i # 1
      <4>1. PICK b \in 1 .. N : b = i - 1
        BY <1>1, <3>2
      <4>2. i = b + 1
        BY <3>2, <4>1
      <4> QED
        BY <1>2, <1>6, <4>1, <4>2
    <3> QED
      BY <3>1, <3>2
  <2> QED
    BY <1>2, <2>1 DEF Told
<1>7. p \in dues => p \notin its
  BY DEF Told
<1> QED
  BY <1>1, <1>3, <1>4, <1>5, <1>6, <1>7 DEF Told

\* A notice of the device is heard: it is opened if it is there, or forgotten.
LEMMA ToldHeard ==
    ASSUME NEW mon \in Seq(Notices), mon # <<>>, NEW p, NEW ins, NEW its, NEW dues, Told(mon, p, ins, its, dues),
           mon[1].pad = p, NEW m, m = Tail(mon), p \notin dues,
           NEW its2, mon[1].what = "add" => (p \in its2 <=> p \in ins), mon[1].what # "add" => p \notin its2
    PROVE  Told(m, p, ins, its2, dues)
<1>1. PICK N \in Nat : N = Len(m)
  BY HeadTailProperties
<1>2. Len(mon) = N + 1 /\ \A i \in 1 .. N : m[i] = mon[i + 1]
  BY <1>1, HeadTailProperties
<1>3. ASSUME NEW i \in 1 .. N, m[i].pad = p, \A l \in 1 .. i - 1 : m[l].pad # p, m[i].what = "add"
      PROVE  p \notin its2 /\ p \notin dues
  <2>1. PICK a \in 1 .. N + 1 : a = i + 1
    BY <1>1
  <2>2. ASSUME NEW l \in 1 + 1 .. a - 1 PROVE mon[l].pad # p
    <3>1. PICK b \in 1 .. i - 1 : b = l - 1
      BY <2>1
    <3>2. b \in 1 .. N /\ l = b + 1
      BY <1>1, <3>1
    <3> QED
      BY <1>2, <1>3, <3>1, <3>2
  <2>3. mon[a].pad = p /\ mon[a].what = "add"
    BY <1>2, <1>3, <2>1
  <2>4. 1 \in 1 .. N + 1 /\ 1 < a
    BY <1>1, <2>1
  <2>5. mon[1].what # mon[a].what
    BY <1>2, <2>2, <2>3, <2>4 DEF Told
  <2> QED
    BY <2>3, <2>5
<1>4. ASSUME NEW i \in 1 .. N, m[i].pad = p, \A l \in i + 1 .. N : m[l].pad # p
      PROVE  m[i].what = "add" <=> p \in ins
  <2>1. PICK a \in 1 .. N + 1 : a = i + 1
    BY <1>1
  <2>2. ASSUME NEW l \in a + 1 .. N + 1 PROVE mon[l].pad # p
    <3>1. PICK b \in i + 1 .. N : b = l - 1
      BY <1>1, <2>1
    <3>2. b \in 1 .. N /\ l = b + 1
      BY <1>1, <2>1, <3>1
    <3> QED
      BY <1>2, <1>4, <3>1, <3>2
  <2>3. mon[a].pad = p /\ mon[a].what = m[i].what
    BY <1>2, <1>4, <2>1
  <2>4. mon[a].what = "add" <=> p \in ins
    BY <1>2, <2>2, <2>3 DEF Told
  <2> QED
    BY <2>3, <2>4
<1>5. ASSUME NEW i \in 1 .. N, NEW k \in 1 .. N, i < k, m[i].pad = p, m[k].pad = p,
             \A l \in i + 1 .. k - 1 : m[l].pad # p
      PROVE  m[i].what # m[k].what
  <2>1. PICK a \in 1 .. N + 1 : a = i + 1
    BY <1>1
  <2>2. PICK c \in 1 .. N + 1 : c = k + 1
    BY <1>1
  <2>3. ASSUME NEW l \in a + 1 .. c - 1 PROVE mon[l].pad # p
    <3>1. PICK b \in i + 1 .. k - 1 : b = l - 1
      BY <1>1, <2>1, <2>2
    <3>2. b \in 1 .. N /\ l = b + 1
      BY <1>1, <2>1, <2>2, <3>1
    <3> QED
      BY <1>2, <1>5, <3>1, <3>2
  <2>4. mon[a] = m[i] /\ mon[c] = m[k] /\ a < c
    BY <1>2, <1>5, <2>1, <2>2
  <2>5. mon[a].what # mon[c].what
    <3>1. a \in 1 .. Len(mon) /\ c \in 1 .. Len(mon) /\ mon[a].pad = p /\ mon[c].pad = p
      BY <1>2, <1>5, <2>4
    <3> QED
      BY <2>3, <2>4, <3>1 DEF Told
  <2> QED
    BY <2>4, <2>5
<1>6. ASSUME \A i \in 1 .. N : m[i].pad # p
      PROVE  p \in ins <=> p \in its2
  <2>1. ASSUME NEW l \in 1 + 1 .. N + 1 PROVE mon[l].pad # p
    <3>1. PICK b \in 1 .. N : b = l - 1
      BY <1>1
    <3>2. l = b + 1
      BY <3>1
    <3> QED
      BY <1>2, <1>6, <3>1, <3>2
  <2>2. 1 \in 1 .. N + 1
    BY <1>1
  <2>3. mon[1].what = "add" <=> p \in ins
    BY <1>2, <2>1, <2>2 DEF Told
  <2> QED
    BY <2>3
<1>7. \A i \in 1 .. N : m[i].pad = p /\ (\A l \in 1 .. i - 1 : m[l].pad # p) /\ m[i].what = "add"
          => p \notin its2 /\ p \notin dues
  BY <1>3
<1>8. \A i \in 1 .. N : m[i].pad = p /\ (\A l \in i + 1 .. N : m[l].pad # p) => (m[i].what = "add" <=> p \in ins)
  BY <1>4
<1>9. \A i, k \in 1 .. N : i < k /\ m[i].pad = p /\ m[k].pad = p /\ (\A l \in i + 1 .. k - 1 : m[l].pad # p)
          => m[i].what # m[k].what
  BY <1>5
<1> QED
  BY <1>1, <1>6, <1>7, <1>8, <1>9 DEF Told

-----------------------------------------------------------------------------
(* Gamepads: the inductive invariant.                                        *)

PathsOf(js) == {js[i].path : i \in 1 .. Len(js)}
Due == IF phase = "scan" THEN plugged ELSE work
SeenOf(id) == IF Shown THEN view[id] ELSE Fresh

DevicesTyped ==
    /\ plugged \in SUBSET Pads /\ position \in [Pads -> Positions] /\ monitor \in Seq(Notices)
    /\ phase \in {"idle", "scan", "found", "ready", "hotplug"} /\ work \in SUBSET Pads
JoysticksTyped ==
    /\ joysticks \in Seq(Sticks) /\ opened \in Nat /\ lowId \in Nat /\ takenIds = {}
    /\ windowPads \in [DOMAIN windowPads -> Nat] /\ view \in [DOMAIN view -> PadViews]
PadsPhased ==
    /\ phase \in {"idle", "scan"} => joysticks = <<>>
    /\ phase = "idle" => monitor = <<>>
    /\ phase # "found" => work = {}
PadsShown ==
    /\ Shown => DOMAIN view = DOMAIN windowPads
    /\ ~Shown => DOMAIN view = {} /\ \A i \in 1 .. Len(joysticks) : joysticks[i].moved = {}
\* Until one goes, the joysticks are numbered as they came.
PadsNumbered ==
    ~reused =>
        /\ lowId = Len(joysticks) /\ opened = Len(joysticks)
        /\ \A i \in 1 .. Len(joysticks) : joysticks[i].pad = i - 1 /\ joysticks[i].serial = i - 1
        /\ DOMAIN windowPads = 0 .. Len(joysticks) - 1
        /\ \A id \in 0 .. Len(joysticks) - 1 : windowPads[id] = id
PadsTold ==
    ~doubled /\ phase # "idle" => \A p \in Pads : Told(monitor, p, plugged, PathsOf(joysticks), Due)
PadsApart ==
    ~doubled => \A i, k \in 1 .. Len(joysticks) : joysticks[i].path = joysticks[k].path => i = k
PadsLive == \A i \in 1 .. Len(joysticks) : joysticks[i].live => joysticks[i].path \in plugged
PadsResting == ~reused /\ ~doubled => \A p \in Pads : p \notin PathsOf(joysticks) => position[p] = Rest
PadsTracked ==
    ~reused /\ ~doubled =>
        \A i \in 1 .. Len(joysticks) : joysticks[i].live /\ ~joysticks[i].stale =>
            Tracks(joysticks[i], SeenOf(joysticks[i].pad), position[joysticks[i].path])

JoysticksInv == JoysticksTyped /\ PadsShown /\ PadsNumbered /\ PadsApart /\ PadsLive /\ PadsResting /\ PadsTracked
PadsWell == DevicesTyped /\ PadsPhased /\ PadsTold /\ JoysticksInv
PadsInv == ~padPanic => PadsWell

LEMMA FreshIs == Fresh \in PadViews
BY DEF Fresh, PadViews, Targets, Buttons, Axes, Scale

LEMMA RestIs == Rest \in Positions /\ HatOf(Rest) = Centred
<1>1. PICK lo \in Int, hi \in Int : lo = AxisInfo.min /\ hi = AxisInfo.max
  BY PadsAssumption
<1>2. Middle \in Int
  BY <1>1 DEF Middle
<1>3. Rest \in Positions
  BY <1>2 DEF Rest, Positions
<1>4. Rest["x"] = 0 /\ Rest["y"] = 0
  BY DEF Rest, Elements
<1>5. PICK c : c = HatAfter(Centred, "x", 0)
  OBVIOUS
<1>6. c = Centred
  <2>1. c \in Hats /\ Centred \in Hats
    BY <1>5, HatAfterIn DEF Centred, Hats
  <2>2. \A d \in Dirs : c[d] = Centred[d]
    BY <1>5 DEF HatAfter, Centred
  <2> QED
    BY <2>1, <2>2 DEF Hats
<1>7. PICK c2 : c2 = HatAfter(Centred, "y", 0)
  OBVIOUS
<1>8. c2 = Centred
  <2>1. c2 \in Hats /\ Centred \in Hats
    BY <1>7, HatAfterIn DEF Centred, Hats
  <2>2. \A d \in Dirs : c2[d] = Centred[d]
    BY <1>7 DEF HatAfter, Centred
  <2> QED
    BY <2>1, <2>2 DEF Hats
<1>9. HatOf(Rest) = Centred
  BY <1>4, <1>5, <1>6, <1>7, <1>8 DEF HatOf
<1> QED
  BY <1>3, <1>9

LEMMA PadsStart == PadsInit => PadsInv
<1> SUFFICES ASSUME PadsInit PROVE PadsInv
  OBVIOUS
<1>1. \A S : <<>> \in Seq(S) /\ <<>> \in [{} -> S] /\ DOMAIN <<>> = {} /\ Len(<<>>) = 0
  OBVIOUS
<1>2. 1 .. 0 = {}
  OBVIOUS
<1>3. DevicesTyped
  BY <1>1, RestIs DEF PadsInit, DevicesTyped
<1>4. JoysticksTyped
  BY <1>1 DEF PadsInit, JoysticksTyped
<1>5. PadsPhased /\ PadsTold
  BY DEF PadsInit, PadsPhased, PadsTold
<1>6. PadsShown
  BY <1>1, <1>2 DEF PadsInit, PadsShown, Shown
<1>7. PadsNumbered
  <2>1. Len(joysticks) = 0 /\ DOMAIN windowPads = {}
    BY <1>1 DEF PadsInit
  <2>2. 0 .. 0 - 1 = {}
    OBVIOUS
  <2> QED
    BY <1>2, <2>1, <2>2 DEF PadsInit, PadsNumbered
<1>8. PadsApart /\ PadsLive /\ PadsTracked
  BY <1>1, <1>2 DEF PadsInit, PadsApart, PadsLive, PadsTracked
<1>9. PadsResting
  BY DEF PadsInit, PadsResting
<1> QED
  BY <1>3, <1>4, <1>5, <1>6, <1>7, <1>8, <1>9 DEF PadsInv, PadsWell, JoysticksInv

LEMMA DeviceAddedIs ==
    ASSUME JoysticksTyped, NEW p \in Pads, DeviceAdded(p), ~padPanic'
    PROVE  /\ p \notin plugged => UNCHANGED <<joysticks, opened, lowId, takenIds, windowPads, view>>
           /\ p \in plugged =>
                /\ \E j \in Sticks :
                      /\ j.path = p /\ j.pad = lowId /\ j.serial = opened /\ j.hat = Centred /\ j.queue = <<>>
                      /\ j.live /\ j.moved = {} /\ ~j.stale /\ joysticks' = Append(joysticks, j)
                /\ lowId' = lowId + 1 /\ opened' = opened + 1 /\ takenIds' = takenIds
                /\ windowPads' = With(windowPads, lowId, opened)
                /\ view' = IF Shown THEN With(view, lowId, Fresh) ELSE view
<1>1. CASE p \notin plugged
  BY <1>1 DEF DeviceAdded, idVars
<1>2. CASE p \in plugged
  <2>1. ~NumberPanics(p)
    BY <1>2 DEF DeviceAdded
  <2>2. PICK lo \in Nat : lo = lowId
    BY DEF JoysticksTyped
  <2>3. Cardinality(takenIds) = 0 /\ takenIds = {}
    BY FS_EmptySet DEF JoysticksTyped
  <2>4. TakeGamepadId = lo
    <3>1. lo .. lo + 0 = {lo} /\ lo .. lo - 1 = {}
      BY <2>2
    <3>2. TakeGamepadId = CHOOSE i \in {lo} : i \notin {} /\ \A k \in lo .. i - 1 : k \in {}
      BY <2>2, <2>3, <3>1 DEF TakeGamepadId
    <3> QED
      BY <3>1, <3>2
  <2>5. PICK j : j = [path |-> p, pad |-> lo, serial |-> opened, hat |-> Centred, queue |-> <<>>,
                      live |-> TRUE, moved |-> {}, stale |-> FALSE,
                      mapping |-> IF mapped THEN Parsed(Line) ELSE <<>>]
    OBVIOUS
  <2>6. joysticks' = Append(joysticks, j) /\ lowId' = LowAfter(lo) /\ opened' = opened + 1 /\ takenIds' = takenIds
        /\ windowPads' = With(windowPads, lo, opened) /\ view' = IF Shown THEN With(view, lo, Fresh) ELSE view
    BY <1>2, <2>1, <2>4, <2>5 DEF DeviceAdded
  <2>7. LowAfter(lo) = lo + 1
    BY <2>2 DEF LowAfter
  <2>8. j \in Sticks
    <3>1. Centred \in Hats
      BY DEF Centred, Hats
    <3>2. <<>> \in Seq(Frames) /\ opened \in Nat
      BY DEF JoysticksTyped
    <3> QED
      BY <2>5, <3>1, <3>2 DEF Sticks
  <2> QED
    BY <1>2, <2>2, <2>5, <2>6, <2>7, <2>8
<1> QED
  BY <1>1, <1>2

\* A joystick added keeps what the joysticks and pads were known by.
LEMMA AddedKeeps ==
    ASSUME JoysticksInv, DevicesTyped, NEW p \in Pads, DeviceAdded(p), ~padPanic', HalvesIn(Parsed(Line)),
           ~doubled => p \notin PathsOf(joysticks),
           UNCHANGED <<plugged, position, phase, reused, doubled>>
    PROVE  /\ JoysticksInv'
           /\ PathsOf(joysticks)' = IF p \in plugged THEN PathsOf(joysticks) \cup {p} ELSE PathsOf(joysticks)
<1> USE DEF JoysticksInv
<1>1. CASE p \notin plugged
  <2>1. UNCHANGED <<joysticks, opened, lowId, takenIds, windowPads, view>>
    BY <1>1, DeviceAddedIs
  <2> QED
    BY <1>1, <2>1 DEF JoysticksTyped, PadsShown, PadsNumbered, PadsApart, PadsLive, PadsResting, PadsTracked,
                      Shown, SeenOf, PathsOf
<1>2. CASE p \in plugged
  <2>1. PICK j \in Sticks :
            /\ j.path = p /\ j.pad = lowId /\ j.serial = opened /\ j.hat = Centred /\ j.queue = <<>>
            /\ j.live /\ j.moved = {} /\ ~j.stale /\ joysticks' = Append(joysticks, j)
    BY <1>2, DeviceAddedIs
  <2>2. lowId' = lowId + 1 /\ opened' = opened + 1 /\ takenIds' = takenIds
        /\ windowPads' = With(windowPads, lowId, opened) /\ view' = IF Shown THEN With(view, lowId, Fresh) ELSE view
    BY <1>2, DeviceAddedIs
  <2>3. PICK lo \in Nat : lo = lowId
    BY DEF JoysticksTyped
  <2>4. PICK op \in Nat : op = opened
    BY DEF JoysticksTyped
  <2>5. PICK js \in Seq(Sticks) : js = joysticks
    BY DEF JoysticksTyped
  <2>6. PICK N \in Nat : N = Len(js)
    OBVIOUS
  <2>7. PICK ks : ks = joysticks'
    OBVIOUS
  <2>8. ks \in Seq(Sticks) /\ Len(ks) = N + 1 /\ ks[N + 1] = j /\ \A i \in 1 .. N : ks[i] = js[i]
    BY <2>1, <2>5, <2>6, <2>7, AppendProperties
  <2>9. \A i \in 1 .. N + 1 : i \in 1 .. N \/ i = N + 1
    BY <2>6
  <2>10. N + 1 \in 1 .. N + 1 /\ \A i \in 1 .. N : i \in 1 .. N + 1
    BY <2>6
  <2>11. PICK W : W = DOMAIN windowPads
    OBVIOUS
  <2>12. windowPads' \in [W \cup {lo} -> Nat] /\ DOMAIN windowPads' = W \cup {lo} /\ windowPads'[lo] = op
         /\ \A i \in W : i # lo => windowPads'[i] = windowPads[i]
    <3>1. PICK S : S = Nat
      OBVIOUS
    <3>2. PICK wp \in [W -> S] : wp = windowPads
      BY <2>11, <3>1 DEF JoysticksTyped
    <3>3. PICK k : k = lowId
      OBVIOUS
    <3>4. PICK v \in S : v = opened
      BY <3>1 DEF JoysticksTyped
    <3>5. windowPads' = With(wp, k, v)
      BY <2>2, <3>2, <3>3, <3>4
    <3>6. windowPads' \in [W \cup {k} -> S] /\ DOMAIN windowPads' = W \cup {k} /\ windowPads'[k] = v
          /\ \A i \in W : i # k => windowPads'[i] = wp[i]
      BY <3>2, <3>4, <3>5 DEF With
    <3> QED
      BY <2>3, <2>4, <3>1, <3>2, <3>3, <3>4, <3>6
  <2>13. PICK V : V = DOMAIN view
    OBVIOUS
  <2>14. Shown => view' \in [V \cup {lo} -> PadViews] /\ DOMAIN view' = V \cup {lo} /\ view'[lo] = Fresh
                  /\ \A i \in V : i # lo => view'[i] = view[i]
    <3>1. PICK vw \in [V -> PadViews] : vw = view
      BY <2>13 DEF JoysticksTyped
    <3>2. PICK k : k = lowId
      OBVIOUS
    <3>3. PICK v \in PadViews : v = Fresh
      BY FreshIs
    <3>4. Shown => view' = With(vw, k, v)
      BY <2>2, <3>1, <3>2, <3>3
    <3>5. Shown => view' \in [V \cup {k} -> PadViews] /\ DOMAIN view' = V \cup {k} /\ view'[k] = v
                   /\ \A i \in V : i # k => view'[i] = vw[i]
      BY <3>1, <3>3, <3>4 DEF With
    <3> QED
      BY <2>3, <3>1, <3>2, <3>3, <3>5
  <2>15. ~Shown => view' = view
    BY <2>2
  <2>16. JoysticksTyped'
    BY <2>2, <2>3, <2>4, <2>7, <2>8, <2>12, <2>14, <2>15 DEF JoysticksTyped
  <2>17. Shown' = Shown
    BY DEF Shown
  <2>18. PadsShown'
    <3>1. CASE Shown
      BY <2>11, <2>12, <2>13, <2>14, <2>17, <3>1 DEF PadsShown
    <3>2. CASE ~Shown
      <4>1. DOMAIN view' = {} /\ \A i \in 1 .. N : js[i].moved = {}
        BY <2>5, <2>6, <2>15, <3>2 DEF PadsShown
      <4>2. \A i \in 1 .. N + 1 : ks[i].moved = {}
        BY <2>1, <2>8, <2>9, <4>1
      <4> QED
        BY <2>7, <2>8, <2>17, <3>2, <4>1, <4>2 DEF PadsShown
    <3> QED
      BY <3>1, <3>2
  <2>19. PadsNumbered'
    <3> SUFFICES ASSUME ~reused PROVE PadsNumbered'
      BY DEF PadsNumbered
    <3>1. lo = N /\ op = N /\ W = 0 .. N - 1
          /\ (\A i \in 1 .. N : js[i].pad = i - 1 /\ js[i].serial = i - 1) /\ \A id \in 0 .. N - 1 : windowPads[id] = id
      BY <2>3, <2>4, <2>5, <2>6, <2>11 DEF PadsNumbered
    <3>2. \A i \in 1 .. N + 1 : ks[i].pad = i - 1 /\ ks[i].serial = i - 1
      <4>1. j.pad = N /\ j.serial = N /\ (N + 1) - 1 = N
        BY <2>1, <2>3, <2>4, <2>6, <3>1
      <4> QED
        BY <2>8, <2>9, <3>1, <4>1
    <3>3. W \cup {lo} = 0 .. (N + 1) - 1
      BY <2>6, <3>1
    <3>4. \A id \in 0 .. (N + 1) - 1 : windowPads'[id] = id
      <4>1. \A id \in 0 .. (N + 1) - 1 : id \in 0 .. N - 1 \/ id = N
        BY <2>6
      <4> QED
        BY <2>6, <2>12, <3>1, <4>1
    <3> QED
      BY <2>2, <2>3, <2>4, <2>7, <2>8, <2>12, <3>1, <3>2, <3>3, <3>4 DEF PadsNumbered
  <2>20. PathsOf(ks) = PathsOf(js) \cup {p}
    <3>1. PathsOf(js) = {js[i].path : i \in 1 .. N}
      BY <2>6 DEF PathsOf
    <3>2. PathsOf(ks) = {ks[i].path : i \in 1 .. N + 1}
      BY <2>8 DEF PathsOf
    <3> QED
      BY <2>1, <2>8, <2>9, <2>10, <3>1, <3>2
  <2>21. PadsApart'
    <3> SUFFICES ASSUME ~doubled PROVE PadsApart'
      BY DEF PadsApart
    <3>1. \A i \in 1 .. N : js[i].path # p
      BY <2>5, <2>6 DEF PathsOf
    <3>2. \A i, k \in 1 .. N : js[i].path = js[k].path => i = k
      BY <2>5, <2>6 DEF PadsApart
    <3>3. \A i, k \in 1 .. N + 1 : ks[i].path = ks[k].path => i = k
      BY <2>1, <2>8, <2>9, <3>1, <3>2
    <3> QED
      BY <2>7, <2>8, <3>3 DEF PadsApart
  <2>22. PadsLive'
    <3>1. \A i \in 1 .. N : js[i].live => js[i].path \in plugged
      BY <2>5, <2>6 DEF PadsLive
    <3>2. \A i \in 1 .. N + 1 : ks[i].live => ks[i].path \in plugged
      BY <1>2, <2>1, <2>8, <2>9, <3>1
    <3> QED
      BY <2>7, <2>8, <3>2 DEF PadsLive
  <2>23. PadsResting'
    BY <2>5, <2>7, <2>20 DEF PadsResting
  <2>24. PadsTracked'
    <3> SUFFICES ASSUME ~reused, ~doubled PROVE PadsTracked'
      BY DEF PadsTracked
    <3>1. lo = N /\ \A i \in 1 .. N : js[i].pad = i - 1
      BY <2>3, <2>5, <2>6 DEF PadsNumbered
    <3>2. Shown => V = 0 .. N - 1
      BY <2>5, <2>6, <2>13 DEF PadsShown, PadsNumbered
    <3>3. \A i \in 1 .. N : js[i].pad # lo /\ (Shown => js[i].pad \in V)
      BY <2>6, <3>1, <3>2
    <3>4. PICK pos \in Positions : pos = position[p]
      BY DEF DevicesTyped
    <3>5. ASSUME NEW i \in 1 .. N + 1, ks[i].live, ~ks[i].stale
          PROVE  Tracks(ks[i], (IF Shown THEN view'[ks[i].pad] ELSE Fresh), position[ks[i].path])
      <4>1. CASE i \in 1 .. N
        <5>1. Tracks(js[i], SeenOf(js[i].pad), position[js[i].path])
          BY <2>5, <2>6, <2>8, <3>5, <4>1 DEF PadsTracked
        <5>2. ks[i] = js[i]
          BY <2>8, <4>1
        <5>3. SeenOf(js[i].pad) = IF Shown THEN view'[js[i].pad] ELSE Fresh
          BY <2>14, <3>3, <4>1 DEF SeenOf
        <5> QED
          BY <5>1, <5>2, <5>3
      <4>2. CASE i = N + 1
        <5>1. ks[i] = j /\ j.path = p /\ j.pad = lo
          BY <2>1, <2>3, <2>8, <4>2
        <5>2. pos = Rest
          BY <3>4 DEF PadsResting
        <5>3. j.hat = HatOf(pos)
          BY <2>1, <5>2, RestIs
        <5>4. ViewShows(Fresh, j.mapping, j.moved, pos)
          <6>1. PICK ms \in Seq(MapEntries) : ms = j.mapping
            BY MappingIs
          <6>2. ASSUME NEW k \in 1 .. Len(ms) PROVE ~Applies(ms[k], {}, pos)
            <7>1. PICK m \in MapEntries : m = ms[k]
              OBVIOUS
            <7>2. m.from.kind \in {"button", "hat", "axis"}
              BY DEF MapEntries
            <7> QED
              BY <7>1, <7>2 DEF Applies
          <6> QED
            BY <2>1, <6>1, <6>2 DEF ViewShows
        <5>5. Tracks(j, Fresh, pos)
          BY <2>1, <5>3, <5>4, TracksIdle
        <5> QED
          BY <2>14, <3>4, <5>1, <5>5
      <4> QED
        BY <2>9, <4>1, <4>2
    <3> QED
      BY <2>7, <2>8, <2>17, <3>5 DEF PadsTracked, SeenOf
  <2> QED
    BY <1>2, <2>5, <2>7, <2>16, <2>18, <2>19, <2>20, <2>21, <2>22, <2>23, <2>24
<1> QED
  BY <1>1, <1>2

LEMMA RemoveAtIs ==
    ASSUME NEW S, NEW s \in Seq(S), NEW k \in 1 .. Len(s)
    PROVE  /\ RemoveAt(s, k) \in Seq(S) /\ Len(RemoveAt(s, k)) = Len(s) - 1
           /\ \A i \in 1 .. Len(s) - 1 : RemoveAt(s, k)[i] = IF i < k THEN s[i] ELSE s[i + 1]
<1>1. PICK n \in Nat : n = Len(s)
  OBVIOUS
<1>2. PICK a : a = SubSeq(s, 1, k - 1)
  OBVIOUS
<1>3. PICK b : b = SubSeq(s, k + 1, n)
  OBVIOUS
<1>4. a \in Seq(S) /\ Len(a) = k - 1 /\ \A i \in 1 .. k - 1 : a[i] = s[i]
  BY <1>1, <1>2, SubSeqProperties
<1>5. b \in Seq(S) /\ Len(b) = n - k /\ \A i \in 1 .. n - k : b[i] = s[i + k]
  BY <1>1, <1>3, SubSeqProperties
<1>6. RemoveAt(s, k) = a \o b
  BY <1>1, <1>2, <1>3 DEF RemoveAt
<1>7. (a \o b) \in Seq(S) /\ Len(a \o b) = n - 1
      /\ \A i \in 1 .. n - 1 : (a \o b)[i] = IF i <= k - 1 THEN a[i] ELSE b[i - (k - 1)]
  BY <1>1, <1>4, <1>5, ConcatProperties
<1>8. ASSUME NEW i \in 1 .. n - 1 PROVE (a \o b)[i] = IF i < k THEN s[i] ELSE s[i + 1]
  <2>1. CASE i < k
    BY <1>1, <1>4, <1>7, <2>1
  <2>2. CASE ~(i < k)
    <3>1. PICK m \in 1 .. n - k : m = i - (k - 1)
      BY <1>1, <2>2
    <3>2. b[m] = s[i + 1]
      BY <1>1, <1>5, <3>1
    <3> QED
      BY <1>1, <1>7, <2>2, <3>1, <3>2
  <2> QED
    BY <2>1, <2>2
<1> QED
  BY <1>1, <1>6, <1>7, <1>8

\* The first joystick of the device goes, and its pad.
LEMMA RemovedKeeps ==
    ASSUME JoysticksInv, NEW p \in Pads, DeviceRemoved(p), Shown,
           UNCHANGED <<plugged, position, phase, opened, doubled>>
    PROVE  JoysticksInv' /\ (~doubled => PathsOf(joysticks)' = PathsOf(joysticks) \ {p})
<1> USE DEF JoysticksInv
<1>1. PICK js \in Seq(Sticks) : js = joysticks
  BY DEF JoysticksTyped
<1>2. PICK N \in Nat : N = Len(js)
  OBVIOUS
<1>3. PICK its : its = {i \in 1 .. N : js[i].path = p}
  OBVIOUS
<1>4. DOMAIN joysticks = 1 .. N /\ its = {i \in DOMAIN joysticks : joysticks[i].path = p}
  BY <1>1, <1>2, <1>3
<1>5. PathsOf(joysticks) = {js[i].path : i \in 1 .. N}
  BY <1>1, <1>2 DEF PathsOf
<1>6. CASE its = {}
  <2>1. UNCHANGED <<joysticks, lowId, takenIds, windowPads, view, reused>>
    BY <1>4, <1>6 DEF DeviceRemoved, idVars
  <2>2. JoysticksInv'
    BY <2>1 DEF JoysticksTyped, PadsShown, PadsNumbered, PadsApart, PadsLive, PadsResting, PadsTracked,
                Shown, SeenOf, PathsOf
  <2>3. p \notin PathsOf(joysticks)
    BY <1>3, <1>5, <1>6
  <2> QED
    BY <2>1, <2>2, <2>3
<1>7. CASE its # {}
  <2>1. PICK first : first = CHOOSE i \in its : \A k \in its : i <= k
    OBVIOUS
  <2>2. first \in its
    <3>1. its \in SUBSET Nat
      BY <1>3
    <3>2. \E i \in its : \A k \in its : i <= k
      BY <1>7, <3>1, LeastNat
    <3> QED
      BY <2>1, <3>2
  <2>3. first \in 1 .. N /\ js[first].path = p
    BY <1>3, <2>2
  <2>4. PICK id : id = js[first].pad
    OBVIOUS
  <2>5. id \in Nat
    <3>1. PICK j \in Sticks : j = js[first]
      BY <1>2, <2>3
    <3> QED
      BY <2>4, <3>1 DEF Sticks
  <2>6. /\ joysticks' = RemoveAt(js, first) /\ lowId' = PutBack(id) /\ takenIds' = takenIds \ {id}
        /\ windowPads' = LessPad(windowPads, id) /\ view' = LessPad(view, id) /\ reused'
    BY <1>1, <1>4, <1>7, <2>1, <2>4 DEF DeviceRemoved, Forgotten
  <2>7. PICK ks : ks = joysticks'
    OBVIOUS
  <2>8. ks \in Seq(Sticks) /\ Len(ks) = N - 1 /\ \A i \in 1 .. N - 1 : ks[i] = IF i < first THEN js[i] ELSE js[i + 1]
    BY <1>2, <2>3, <2>6, <2>7, RemoveAtIs
  <2>9. PICK was : was = [i \in 1 .. N - 1 |-> IF i < first THEN i ELSE i + 1]
    OBVIOUS
  <2>10. \A i \in 1 .. N - 1 : was[i] \in 1 .. N /\ was[i] # first /\ ks[i] = js[was[i]]
    BY <1>2, <2>3, <2>8, <2>9
  <2>11. \A i, k \in 1 .. N - 1 : was[i] = was[k] => i = k
    BY <1>2, <2>3, <2>9
  <2>12. ASSUME NEW k \in 1 .. N, k # first PROVE \E i \in 1 .. N - 1 : was[i] = k
    <3>1. CASE k < first
      <4>1. k \in 1 .. N - 1 /\ was[k] = k
        BY <1>2, <2>3, <2>9, <3>1
      <4> QED
        BY <4>1
    <3>2. CASE ~(k < first)
      <4>1. PICK m \in 1 .. N - 1 : m = k - 1
        BY <1>2, <2>3, <2>12, <3>2
      <4>2. was[m] = k
        BY <1>2, <2>3, <2>9, <2>12, <3>2, <4>1
      <4> QED
        BY <4>2
    <3> QED
      BY <3>1, <3>2
  <2>13. JoysticksTyped'
    <3>1. PICK wp \in [DOMAIN windowPads -> Nat] : wp = windowPads
      BY DEF JoysticksTyped
    <3>2. windowPads' \in [DOMAIN windowPads' -> Nat]
      BY <2>6, <3>1 DEF LessPad
    <3>3. PICK vw \in [DOMAIN view -> PadViews] : vw = view
      BY DEF JoysticksTyped
    <3>4. view' \in [DOMAIN view' -> PadViews]
      BY <2>6, <3>3 DEF LessPad
    <3>5. lowId' \in Nat
      BY <2>5, <2>6 DEF PutBack, JoysticksTyped
    <3> QED
      BY <2>6, <2>7, <2>8, <3>2, <3>4, <3>5 DEF JoysticksTyped
  <2>14. PadsShown'
    <3>1. Shown' /\ DOMAIN view = DOMAIN windowPads
      BY DEF Shown, PadsShown
    <3>2. DOMAIN view' = DOMAIN windowPads'
      BY <2>6, <3>1 DEF LessPad
    <3> QED
      BY <3>1, <3>2 DEF PadsShown
  <2>15. PadsNumbered' /\ PadsResting' /\ PadsTracked'
    BY <2>6 DEF PadsNumbered, PadsResting, PadsTracked
  <2>16. PadsApart'
    <3> SUFFICES ASSUME ~doubled PROVE PadsApart'
      BY DEF PadsApart
    <3>1. \A i, k \in 1 .. N : js[i].path = js[k].path => i = k
      BY <1>1, <1>2 DEF PadsApart
    <3>2. \A i, k \in 1 .. N - 1 : ks[i].path = ks[k].path => i = k
      <4> TAKE i \in 1 .. N - 1
      <4> TAKE k \in 1 .. N - 1
      <4>1. PICK a \in 1 .. N : a = was[i] /\ ks[i] = js[a]
        BY <2>10
      <4>2. PICK b \in 1 .. N : b = was[k] /\ ks[k] = js[b]
        BY <2>10
      <4>3. ASSUME ks[i].path = ks[k].path PROVE i = k
        <5>1. a = b
          BY <3>1, <4>1, <4>2, <4>3
        <5> QED
          BY <2>11, <4>1, <4>2, <5>1
      <4> QED
        BY <4>3
    <3> QED
      BY <2>7, <2>8, <3>2 DEF PadsApart
  <2>17. PadsLive'
    <3>1. \A i \in 1 .. N : js[i].live => js[i].path \in plugged
      BY <1>1, <1>2 DEF PadsLive
    <3>2. \A i \in 1 .. N - 1 : ks[i].live => ks[i].path \in plugged
      BY <2>10, <3>1
    <3> QED
      BY <2>7, <2>8, <3>2 DEF PadsLive
  <2>18. ASSUME ~doubled PROVE PathsOf(ks) = PathsOf(joysticks) \ {p}
    <3>1. PathsOf(ks) = {ks[i].path : i \in 1 .. N - 1}
      BY <2>8 DEF PathsOf
    <3>2. \A i, k \in 1 .. N : js[i].path = js[k].path => i = k
      BY <1>1, <1>2, <2>18 DEF PadsApart
    <3>3. \A i \in 1 .. N - 1 : ks[i].path # p
      BY <2>3, <2>10, <3>2
    <3>4. \A i \in 1 .. N - 1 : ks[i].path \in PathsOf(joysticks)
      BY <1>5, <2>10
    <3>5. \A k \in 1 .. N : js[k].path # p => \E i \in 1 .. N - 1 : ks[i].path = js[k].path
      <4> TAKE k \in 1 .. N
      <4> HAVE js[k].path # p
      <4>1. k # first
        BY <2>3
      <4>2. PICK i \in 1 .. N - 1 : was[i] = k
        BY <2>12, <4>1
      <4>3. ks[i] = js[k]
        BY <2>10, <4>2
      <4> QED
        BY <4>3
    <3> QED
      BY <1>5, <3>1, <3>3, <3>4, <3>5
  <2> QED
    BY <2>7, <2>13, <2>14, <2>15, <2>16, <2>17, <2>18
<1> QED
  BY <1>6, <1>7

LEMMA JoysticksSame ==
    ASSUME JoysticksInv, UNCHANGED <<joysticks, opened, lowId, takenIds, windowPads, view, reused, doubled, plugged, position>>,
           Shown' = Shown
    PROVE  JoysticksInv' /\ PathsOf(joysticks)' = PathsOf(joysticks)
<1>1. PathsOf(joysticks)' = PathsOf(joysticks)
  BY DEF PathsOf
<1>2. JoysticksTyped' /\ PadsShown' /\ PadsNumbered' /\ PadsApart' /\ PadsLive'
  BY DEF JoysticksInv, JoysticksTyped, PadsShown, PadsNumbered, PadsApart, PadsLive
<1>3. PadsResting' /\ PadsTracked'
  BY <1>1 DEF JoysticksInv, PadsResting, PadsTracked, SeenOf
<1> QED
  BY <1>1, <1>2, <1>3 DEF JoysticksInv

\* What a step makes of each joystick, but not of which there are.
LEMMA EachKeeps ==
    ASSUME JoysticksInv, NEW ks \in Seq(Sticks), joysticks' = ks, Len(ks) = Len(joysticks),
           \A i \in 1 .. Len(joysticks) :
               /\ ks[i].path = joysticks[i].path /\ ks[i].pad = joysticks[i].pad /\ ks[i].serial = joysticks[i].serial
               /\ ~Shown => ks[i].moved = joysticks[i].moved,
           view' \in [DOMAIN view -> PadViews],
           UNCHANGED <<phase, opened, lowId, takenIds, windowPads, reused>>, doubled => doubled'
    PROVE  JoysticksTyped' /\ PadsShown' /\ PadsNumbered' /\ PadsApart' /\ PathsOf(joysticks)' = PathsOf(joysticks)
<1> USE DEF JoysticksInv
<1>1. PICK N \in Nat : N = Len(ks)
  OBVIOUS
<1>2. PICK js : js = joysticks
  OBVIOUS
<1>3. Len(js) = N /\ \A i \in 1 .. N : ks[i].path = js[i].path /\ ks[i].pad = js[i].pad /\ ks[i].serial = js[i].serial
      /\ (~Shown => ks[i].moved = js[i].moved)
  BY <1>1, <1>2
<1>4. JoysticksTyped'
  <2>1. DOMAIN view' = DOMAIN view
    OBVIOUS
  <2> QED
    BY <2>1 DEF JoysticksTyped
<1>5. Shown' = Shown
  BY DEF Shown
<1>6. PadsShown'
  <2>1. DOMAIN view' = DOMAIN view
    OBVIOUS
  <2>2. ~Shown => \A i \in 1 .. N : js[i].moved = {}
    BY <1>2, <1>3 DEF PadsShown
  <2> QED
    BY <1>1, <1>3, <1>5, <2>1, <2>2 DEF PadsShown
<1>7. PadsNumbered'
  <2> SUFFICES ASSUME ~reused PROVE PadsNumbered'
    BY DEF PadsNumbered
  <2>1. lowId = N /\ opened = N /\ DOMAIN windowPads = 0 .. N - 1 /\ (\A id \in 0 .. N - 1 : windowPads[id] = id)
        /\ \A i \in 1 .. N : js[i].pad = i - 1 /\ js[i].serial = i - 1
    BY <1>2, <1>3 DEF PadsNumbered
  <2>2. \A i \in 1 .. N : ks[i].pad = i - 1 /\ ks[i].serial = i - 1
    BY <1>3, <2>1
  <2> QED
    BY <1>1, <2>1, <2>2 DEF PadsNumbered
<1>8. PadsApart'
  <2> SUFFICES ASSUME ~doubled PROVE PadsApart'
    BY DEF PadsApart
  <2>1. \A i, k \in 1 .. N : js[i].path = js[k].path => i = k
    BY <1>2, <1>3 DEF PadsApart
  <2>2. \A i, k \in 1 .. N : ks[i].path = ks[k].path => i = k
    BY <1>3, <2>1
  <2> QED
    BY <1>1, <2>2 DEF PadsApart
<1>9. PathsOf(ks) = PathsOf(js)
  BY <1>1, <1>3 DEF PathsOf
<1> QED
  BY <1>2, <1>4, <1>6, <1>7, <1>8, <1>9

LEMMA IdleKeeps ==
    ASSUME PadsWell, LoadMappings \/ \E b \in BOOLEAN : OnWindowFocused(b)
    PROVE  PadsWell'
<1>1. UNCHANGED <<joysticks, opened, lowId, takenIds, windowPads, view, reused, doubled, plugged, position, phase, work, monitor>>
  BY DEF LoadMappings, OnWindowFocused, deviceVars, idVars
<1>2. JoysticksInv'
  <2>1. Shown' = Shown
    BY <1>1 DEF Shown
  <2> QED
    BY <1>1, <2>1, JoysticksSame DEF PadsWell
<1> QED
  BY <1>1, <1>2 DEF PadsWell, DevicesTyped, PadsPhased, PadsTold, Due, PathsOf

LEMMA InitializeKeeps ==
    ASSUME PadsWell, Initialize
    PROVE  PadsWell'
<1>1. UNCHANGED <<joysticks, opened, lowId, takenIds, windowPads, view, reused, doubled, plugged, position, work, monitor>>
      /\ phase = "idle" /\ phase' = "scan"
  BY DEF Initialize, deviceVars, idVars
<1>2. JoysticksInv'
  <2>1. Shown' = Shown
    BY <1>1 DEF Shown
  <2> QED
    BY <1>1, <2>1, JoysticksSame DEF PadsWell
<1>3. PadsTold'
  <2>1. PICK mon : mon = monitor'
    OBVIOUS
  <2>2. PICK its : its = PathsOf(joysticks)'
    OBVIOUS
  <2>3. PICK dues : dues = Due'
    OBVIOUS
  <2>4. mon = <<>> /\ dues = plugged /\ its = {}
    <3>1. joysticks' = <<>> /\ monitor' = <<>>
      BY <1>1 DEF PadsWell, PadsPhased
    <3>2. Len(<<>>) = 0 /\ 1 .. 0 = {}
      OBVIOUS
    <3> QED
      BY <1>1, <2>1, <2>2, <2>3, <3>1, <3>2 DEF Due, PathsOf
  <2>5. \A p \in Pads : Told(mon, p, plugged, its, dues)
    BY <2>4, ToldStart
  <2> QED
    BY <1>1, <2>1, <2>2, <2>3, <2>5 DEF PadsTold
<1>4. DevicesTyped' /\ PadsPhased'
  BY <1>1 DEF PadsWell, DevicesTyped, PadsPhased
<1> QED
  BY <1>2, <1>3, <1>4 DEF PadsWell

LEMMA ScanDevicesKeeps ==
    ASSUME PadsWell, ScanDevices
    PROVE  PadsWell'
<1>1. UNCHANGED <<joysticks, opened, lowId, takenIds, windowPads, view, reused, doubled, plugged, position, monitor>>
      /\ phase = "scan" /\ phase' = "found" /\ work' = plugged
  BY DEF ScanDevices, deviceVars, idVars
<1>2. JoysticksInv' /\ PathsOf(joysticks)' = PathsOf(joysticks)
  <2>1. Shown' = Shown
    BY <1>1 DEF Shown
  <2> QED
    BY <1>1, <2>1, JoysticksSame DEF PadsWell
<1>3. Due' = Due
  BY <1>1 DEF Due
<1>4. PadsTold'
  BY <1>1, <1>2, <1>3 DEF PadsWell, PadsTold
<1>5. DevicesTyped' /\ PadsPhased'
  BY <1>1 DEF PadsWell, DevicesTyped, PadsPhased
<1> QED
  BY <1>2, <1>4, <1>5 DEF PadsWell

LEMMA UpdatePadsKeeps ==
    ASSUME PadsWell, UpdatePads
    PROVE  PadsWell'
<1>1. UNCHANGED <<joysticks, opened, lowId, takenIds, windowPads, view, reused, doubled, plugged, position, monitor, work>>
      /\ phase = "ready" /\ phase' = "hotplug"
  BY DEF UpdatePads, deviceVars, idVars
<1>2. JoysticksInv' /\ PathsOf(joysticks)' = PathsOf(joysticks)
  <2>1. Shown' = Shown
    BY <1>1 DEF Shown
  <2> QED
    BY <1>1, <2>1, JoysticksSame DEF PadsWell
<1>3. Due' = Due
  BY <1>1 DEF Due
<1>4. PadsTold'
  BY <1>1, <1>2, <1>3 DEF PadsWell, PadsTold
<1>5. DevicesTyped' /\ PadsPhased'
  BY <1>1 DEF PadsWell, DevicesTyped, PadsPhased
<1> QED
  BY <1>2, <1>4, <1>5 DEF PadsWell

\* The pads there are become known to the game, none of them moved yet.
LEMMA AddWindowKeeps ==
    ASSUME PadsWell, AddWindow
    PROVE  PadsWell'
<1> USE DEF PadsWell, JoysticksInv
<1>1. UNCHANGED <<joysticks, opened, lowId, takenIds, windowPads, reused, doubled, plugged, position, monitor, work>>
      /\ phase = "found" /\ phase' = "ready" /\ view' = [id \in DOMAIN windowPads |-> Fresh] /\ work = {}
  BY DEF AddWindow, deviceVars, idVars
<1>2. Due' = Due /\ PathsOf(joysticks)' = PathsOf(joysticks)
  BY <1>1 DEF Due, PathsOf
<1>3. PadsTold' /\ PadsResting'
  BY <1>1, <1>2 DEF PadsTold, PadsResting
<1>4. DevicesTyped' /\ PadsPhased'
  BY <1>1 DEF DevicesTyped, PadsPhased
<1>5. JoysticksTyped'
  <2>1. view' \in [DOMAIN view' -> PadViews]
    BY <1>1, FreshIs
  <2> QED
    BY <1>1, <2>1 DEF JoysticksTyped
<1>6. Shown' /\ ~Shown
  BY <1>1 DEF Shown
<1>7. PadsShown'
  BY <1>1, <1>6 DEF PadsShown
<1>8. PadsNumbered' /\ PadsApart' /\ PadsLive'
  BY <1>1 DEF PadsNumbered, PadsApart, PadsLive
<1>9. PadsTracked'
  <2> SUFFICES ASSUME ~reused, ~doubled, NEW i \in 1 .. Len(joysticks), joysticks[i].live, ~joysticks[i].stale
               PROVE  Tracks(joysticks[i], SeenOf(joysticks[i].pad)', position[joysticks[i].path])
    BY <1>1 DEF PadsTracked, SeenOf
  <2>1. Tracks(joysticks[i], SeenOf(joysticks[i].pad), position[joysticks[i].path])
    BY DEF PadsTracked
  <2>2. SeenOf(joysticks[i].pad) = Fresh
    BY <1>6 DEF SeenOf
  <2>3. joysticks[i].pad \in DOMAIN windowPads
    <3>1. PICK N \in Nat : N = Len(joysticks)
      BY DEF JoysticksTyped
    <3>2. joysticks[i].pad = i - 1 /\ DOMAIN windowPads = 0 .. N - 1
      BY <3>1 DEF PadsNumbered
    <3> QED
      BY <3>1, <3>2
  <2>4. SeenOf(joysticks[i].pad)' = Fresh
    BY <1>1, <1>6, <2>3 DEF SeenOf
  <2> QED
    BY <2>1, <2>2, <2>4
<1> QED
  BY <1>3, <1>4, <1>5, <1>7, <1>8, <1>9

LEMMA PlugKeeps ==
    ASSUME PadsWell, NEW p \in Pads, Plug(p)
    PROVE  PadsWell'
<1> USE DEF PadsWell, JoysticksInv
<1>1. /\ UNCHANGED <<phase, work, joysticks, opened, lowId, takenIds, windowPads, view, reused>>
      /\ p \notin plugged /\ plugged' = plugged \cup {p} /\ position' = [position EXCEPT ![p] = Rest]
      /\ doubled' = (doubled \/ phase = "scan") /\ Announce("add", p)
  BY DEF Plug, idVars
<1>2. PICK n \in Notices : n = [what |-> "add", pad |-> p]
  BY DEF Notices
<1>3. monitor' = IF phase # "idle" THEN Append(monitor, n) ELSE monitor
  BY <1>1, <1>2 DEF Announce, Listening
<1>4. PICK mon \in Seq(Notices) : mon = monitor
  BY DEF DevicesTyped
<1>5. Append(mon, n) \in Seq(Notices)
  BY AppendProperties
<1>6. DevicesTyped' /\ PadsPhased'
  <2>1. monitor' \in Seq(Notices)
    BY <1>3, <1>4, <1>5
  <2>2. position' \in [Pads -> Positions]
    BY <1>1, RestIs DEF DevicesTyped
  <2> QED
    BY <1>1, <1>3, <2>1, <2>2 DEF DevicesTyped, PadsPhased
<1>7. Shown' = Shown
  BY <1>1 DEF Shown
<1>8. JoysticksTyped' /\ PadsShown' /\ PadsNumbered' /\ PadsApart' /\ PadsLive' /\ PathsOf(joysticks)' = PathsOf(joysticks)
  BY <1>1, <1>7 DEF JoysticksTyped, PadsShown, PadsNumbered, PadsApart, PadsLive, PathsOf
<1>9. PadsResting'
  <2> SUFFICES ASSUME ~reused, ~doubled, NEW q \in Pads, q \notin PathsOf(joysticks) PROVE position'[q] = Rest
    BY <1>1, <1>8 DEF PadsResting
  <2>1. position[q] = Rest
    BY DEF PadsResting
  <2> QED
    BY <1>1, <2>1 DEF DevicesTyped
<1>10. PadsTracked'
  <2> SUFFICES ASSUME ~reused, ~doubled, NEW i \in 1 .. Len(joysticks), joysticks[i].live, ~joysticks[i].stale
               PROVE  Tracks(joysticks[i], SeenOf(joysticks[i].pad), position'[joysticks[i].path])
    BY <1>1, <1>7 DEF PadsTracked, SeenOf
  <2>1. Tracks(joysticks[i], SeenOf(joysticks[i].pad), position[joysticks[i].path])
    BY DEF PadsTracked
  <2>2. joysticks[i].path # p
    BY <1>1 DEF PadsLive
  <2>3. position'[joysticks[i].path] = position[joysticks[i].path]
    BY <1>1, <2>2 DEF DevicesTyped, PadsLive
  <2> QED
    BY <2>1, <2>3
<1>11. PadsTold'
  <2> SUFFICES ASSUME ~doubled, phase # "scan", phase # "idle", NEW q \in Pads
               PROVE  Told(monitor', q, plugged', PathsOf(joysticks), Due')
    BY <1>1, <1>8 DEF PadsTold
  <2>1. PICK m : m = monitor'
    OBVIOUS
  <2>2. m = Append(mon, n)
    BY <1>3, <1>4, <2>1
  <2>3. PICK ins : ins = plugged
    OBVIOUS
  <2>4. PICK ins2 : ins2 = plugged'
    OBVIOUS
  <2>5. PICK its : its = PathsOf(joysticks)
    OBVIOUS
  <2>6. PICK dues : dues = work
    OBVIOUS
  <2>7. Due = dues /\ Due' = dues
    BY <1>1, <2>6 DEF Due
  <2>8. Told(mon, q, ins, its, dues)
    BY <1>4, <2>3, <2>5, <2>7 DEF PadsTold
  <2>9. CASE q = p
    <3>1. n.pad = q /\ (n.what = "add" <=> q \notin ins) /\ (q \in ins2 <=> q \notin ins)
      BY <1>1, <1>2, <2>3, <2>4, <2>9
    <3>2. Told(m, q, ins2, its, dues)
      BY <2>2, <2>8, <3>1, ToldMore
    <3> QED
      BY <2>1, <2>4, <2>5, <2>7, <3>2
  <2>10. CASE q # p
    <3>1. n.pad # q /\ (q \in ins2 <=> q \in ins)
      BY <1>1, <1>2, <2>3, <2>4, <2>10
    <3>2. Told(m, q, ins, its, dues)
      BY <2>2, <2>8, <3>1, ToldOther
    <3>3. Told(m, q, ins2, its, dues)
      BY <3>1, <3>2, ToldSame
    <3> QED
      BY <2>1, <2>4, <2>5, <2>7, <3>3
  <2> QED
    BY <2>9, <2>10
<1> QED
  BY <1>6, <1>8, <1>9, <1>10, <1>11

LEMMA UnplugKeeps ==
    ASSUME PadsWell, NEW p \in Pads, Unplug(p)
    PROVE  PadsWell'
<1> USE DEF PadsWell, JoysticksInv
<1>1. /\ UNCHANGED <<position, phase, work, opened, lowId, takenIds, windowPads, view, reused, doubled>>
      /\ p \in plugged /\ plugged' = plugged \ {p} /\ Announce("remove", p)
      /\ joysticks' = [i \in DOMAIN joysticks |-> [joysticks[i] EXCEPT !.live = @ /\ joysticks[i].path # p]]
  BY DEF Unplug, idVars
<1>2. PICK n \in Notices : n = [what |-> "remove", pad |-> p]
  BY DEF Notices
<1>3. monitor' = IF phase # "idle" THEN Append(monitor, n) ELSE monitor
  BY <1>1, <1>2 DEF Announce, Listening
<1>4. PICK mon \in Seq(Notices) : mon = monitor
  BY DEF DevicesTyped
<1>5. Append(mon, n) \in Seq(Notices)
  BY AppendProperties
<1>6. DevicesTyped'
  <2>1. monitor' \in Seq(Notices)
    BY <1>3, <1>4, <1>5
  <2> QED
    BY <1>1, <2>1 DEF DevicesTyped
<1>7. PICK js \in Seq(Sticks) : js = joysticks
  BY DEF JoysticksTyped
<1>8. PICK N \in Nat : N = Len(js)
  OBVIOUS
<1>9. PICK ks : ks = joysticks'
  OBVIOUS
<1>10. ks = [i \in 1 .. N |-> [js[i] EXCEPT !.live = @ /\ js[i].path # p]]
  BY <1>1, <1>7, <1>8, <1>9
<1>11. ASSUME NEW i \in 1 .. N
       PROVE  /\ ks[i] \in Sticks /\ ks[i].path = js[i].path /\ ks[i].pad = js[i].pad /\ ks[i].serial = js[i].serial
              /\ ks[i].hat = js[i].hat /\ ks[i].queue = js[i].queue /\ ks[i].moved = js[i].moved
              /\ ks[i].stale = js[i].stale /\ ks[i].mapping = js[i].mapping
              /\ ks[i].live <=> js[i].live /\ js[i].path # p
  <2>1. PICK j \in Sticks : j = js[i]
    BY <1>8
  <2>2. PICK b \in BOOLEAN : b = (j.live /\ j.path # p)
    OBVIOUS
  <2>3. ks[i] = [j EXCEPT !.live = b]
    BY <1>10, <2>1, <2>2
  <2>4. [j EXCEPT !.live = b] \in Sticks
    BY DEF Sticks
  <2> QED
    BY <2>1, <2>2, <2>3, <2>4 DEF Sticks
<1>12. ks \in Seq(Sticks) /\ Len(ks) = N
  <2>1. PICK h : h = [i \in 1 .. N |-> ks[i]]
    OBVIOUS
  <2>2. h \in Seq(Sticks) /\ Len(h) = N
    BY <1>11, <2>1
  <2>3. ks = h
    BY <1>10, <2>1
  <2> QED
    BY <2>2, <2>3
<1>13. view' \in [DOMAIN view -> PadViews]
  BY <1>1 DEF JoysticksTyped
<1>14. JoysticksTyped' /\ PadsShown' /\ PadsNumbered' /\ PadsApart' /\ PathsOf(joysticks)' = PathsOf(joysticks)
  <2>1. ks \in Seq(Sticks) /\ joysticks' = ks /\ Len(ks) = Len(joysticks)
    BY <1>7, <1>8, <1>9, <1>12
  <2>2. \A i \in 1 .. Len(joysticks) :
            /\ ks[i].path = joysticks[i].path /\ ks[i].pad = joysticks[i].pad /\ ks[i].serial = joysticks[i].serial
            /\ ~Shown => ks[i].moved = joysticks[i].moved
    BY <1>7, <1>8, <1>11
  <2>3. UNCHANGED <<phase, opened, lowId, takenIds, windowPads, reused>> /\ (doubled => doubled')
    BY <1>1
  <2> QED
    BY <1>13, <2>1, <2>2, <2>3, EachKeeps
<1>15. PadsLive'
  <2>1. \A i \in 1 .. N : js[i].live => js[i].path \in plugged
    BY <1>7, <1>8 DEF PadsLive
  <2>2. \A i \in 1 .. N : ks[i].live => ks[i].path \in plugged'
    BY <1>1, <1>11, <2>1
  <2> QED
    BY <1>9, <1>12, <2>2 DEF PadsLive
<1>16. PadsResting'
  BY <1>1, <1>14 DEF PadsResting
<1>17. Shown' = Shown
  BY <1>1 DEF Shown
<1>18. PadsTracked'
  <2> SUFFICES ASSUME ~reused, ~doubled, NEW i \in 1 .. N, ks[i].live, ~ks[i].stale
               PROVE  Tracks(ks[i], SeenOf(ks[i].pad), position[ks[i].path])
    <3> SUFFICES ASSUME ~reused', ~doubled', NEW i \in 1 .. Len(joysticks'), joysticks'[i].live, ~joysticks'[i].stale
                 PROVE  Tracks(joysticks'[i], SeenOf(joysticks[i].pad)', position'[joysticks'[i].path])
      BY DEF PadsTracked
    <3>1. i \in 1 .. N /\ ~reused /\ ~doubled /\ ks[i].live /\ ~ks[i].stale
      BY <1>1, <1>9, <1>12
    <3>2. SeenOf(joysticks[i].pad)' = SeenOf(ks[i].pad)
      BY <1>1, <1>9, <1>17 DEF SeenOf
    <3> QED
      BY <1>1, <1>9, <3>1, <3>2
  <2>1. Tracks(js[i], SeenOf(js[i].pad), position[js[i].path])
    BY <1>7, <1>8, <1>11 DEF PadsTracked
  <2> QED
    BY <1>11, <2>1 DEF Tracks
<1>19. PadsPhased'
  <2>1. phase \in {"idle", "scan"} => joysticks' = <<>>
    <3>1. N = 0 => ks = <<>>
      BY <1>12
    <3>2. phase \in {"idle", "scan"} => N = 0
      BY <1>7, <1>8 DEF PadsPhased
    <3> QED
      BY <1>9, <3>1, <3>2
  <2> QED
    BY <1>1, <1>3, <2>1 DEF PadsPhased
<1>20. PadsTold'
  <2> SUFFICES ASSUME ~doubled, phase # "idle", NEW q \in Pads
               PROVE  Told(monitor', q, plugged', PathsOf(joysticks), Due')
    BY <1>1, <1>14 DEF PadsTold
  <2>1. PICK m : m = monitor'
    OBVIOUS
  <2>2. m = Append(mon, n)
    BY <1>3, <1>4, <2>1
  <2>3. PICK ins : ins = plugged
    OBVIOUS
  <2>4. PICK ins2 : ins2 = plugged'
    OBVIOUS
  <2>5. PICK its : its = PathsOf(joysticks)
    OBVIOUS
  <2>6. PICK dues : dues = Due
    OBVIOUS
  <2>7. PICK dues2 : dues2 = Due'
    OBVIOUS
  <2>8. Told(mon, q, ins, its, dues)
    BY <1>4, <2>3, <2>5, <2>6 DEF PadsTold
  <2>9. CASE q = p
    <3>1. n.pad = q /\ (n.what = "add" <=> q \notin ins) /\ (q \in ins2 <=> q \notin ins) /\ (q \in dues2 => q \in dues)
      BY <1>1, <1>2, <2>3, <2>4, <2>6, <2>7, <2>9 DEF Due
    <3>2. Told(m, q, ins2, its, dues2)
      BY <2>2, <2>8, <3>1, ToldMore
    <3> QED
      BY <2>1, <2>4, <2>5, <2>7, <3>2
  <2>10. CASE q # p
    <3>1. n.pad # q /\ (q \in ins2 <=> q \in ins) /\ (q \in dues2 <=> q \in dues)
      BY <1>1, <1>2, <2>3, <2>4, <2>6, <2>7, <2>10 DEF Due
    <3>2. Told(m, q, ins, its, dues)
      BY <2>2, <2>8, <3>1, ToldOther
    <3>3. Told(m, q, ins2, its, dues2)
      BY <3>1, <3>2, ToldSame
    <3> QED
      BY <2>1, <2>4, <2>5, <2>7, <3>3
  <2> QED
    BY <2>9, <2>10
<1> QED
  BY <1>6, <1>14, <1>15, <1>16, <1>18, <1>19, <1>20

LEMMA MoveKeeps ==
    ASSUME PadsWell, NEW mv \in Moves, Move(mv.pad, mv.el, mv.value)
    PROVE  PadsWell'
<1> USE DEF PadsWell, JoysticksInv
<1>1. PICK p \in Pads : p = mv.pad
  BY PadsAssumption
<1>2. PICK el \in Elements : el = mv.el
  BY PadsAssumption
<1>3. PICK v \in Int : v = mv.value
  BY PadsAssumption
<1>4. PICK f \in Frames : f = [el |-> el, value |-> v]
  BY DEF Frames
<1>5. f.el = el /\ f.value = v
  BY <1>4
<1>6. /\ UNCHANGED <<plugged, monitor, phase, work, opened, lowId, takenIds, windowPads, view, reused, doubled>>
      /\ phase = "ready" /\ \E i \in DOMAIN joysticks : joysticks[i].path = p
      /\ position' = [position EXCEPT ![p][el] = v]
      /\ joysticks' = [i \in DOMAIN joysticks |-> WithFrame(joysticks[i], p, f)]
  BY <1>1, <1>2, <1>3, <1>4 DEF Move, idVars
<1>7. PICK js \in Seq(Sticks) : js = joysticks
  BY DEF JoysticksTyped
<1>8. PICK N \in Nat : N = Len(js)
  OBVIOUS
<1>9. PICK ks : ks = joysticks'
  OBVIOUS
<1>10. ks = [i \in 1 .. N |-> WithFrame(js[i], p, f)]
  BY <1>6, <1>7, <1>8, <1>9
<1>11. PICK pos \in Positions : pos = position[p]
  BY DEF DevicesTyped
<1>12. PICK to \in Positions : to = Moved(pos, f)
  BY <1>2, <1>3, <1>5 DEF Moved, Positions
<1>13. position' \in [Pads -> Positions] /\ position'[p] = to /\ \A q \in Pads : q # p => position'[q] = position[q]
  <2>1. to = [pos EXCEPT ![el] = v]
    BY <1>5, <1>12 DEF Moved
  <2>2. position' = [position EXCEPT ![p] = to]
    BY <1>6, <1>11, <2>1
  <2> QED
    BY <2>2 DEF DevicesTyped
<1>14. Lost \in Frames
  BY DEF Lost, Frames
<1>15. ASSUME NEW i \in 1 .. N
       PROVE  /\ ks[i] \in Sticks /\ ks[i].path = js[i].path /\ ks[i].pad = js[i].pad /\ ks[i].serial = js[i].serial
              /\ ks[i].hat = js[i].hat /\ ks[i].mapping = js[i].mapping /\ (ks[i].live <=> js[i].live)
              /\ js[i].path # p => ks[i] = js[i]
              /\ js[i].path = p /\ js[i].live /\ ~ks[i].stale =>
                    ~js[i].stale /\ ks[i].queue = Append(js[i].queue, f) /\ ks[i].moved = More(js[i].moved, f)
  <2>1. PICK j \in Sticks : j = js[i]
    BY <1>8
  <2>2. ks[i] = WithFrame(j, p, f)
    BY <1>10, <2>1
  <2>3. CASE j.path # p \/ ~j.live
    BY <2>1, <2>2, <2>3 DEF WithFrame
  <2>4. CASE j.path = p /\ j.live /\ Len(j.queue) < MaxFrames
    <3>1. PICK q \in Seq(Frames) : q = Append(j.queue, f)
      BY AppendProperties DEF Sticks
    <3>2. PICK more \in SUBSET Elements : more = More(j.moved, f)
      BY <1>5 DEF Sticks, More
    <3>3. ks[i] = [j EXCEPT !.queue = q, !.moved = more]
      BY <2>2, <2>4, <3>1, <3>2 DEF WithFrame, More
    <3>4. [j EXCEPT !.queue = q, !.moved = more] \in Sticks
      BY DEF Sticks
    <3> QED
      BY <2>1, <2>4, <3>1, <3>2, <3>3, <3>4 DEF Sticks
  <2>5. CASE j.path = p /\ j.live /\ ~(Len(j.queue) < MaxFrames)
    <3>1. PICK q \in Seq(Frames) : q = <<Lost>>
      <4>1. PICK l \in Frames : l = Lost
        BY <1>14
      <4>2. <<l>> \in Seq(Frames)
        OBVIOUS
      <4> QED
        BY <4>1, <4>2
    <3>2. ks[i] = [j EXCEPT !.queue = q, !.stale = TRUE]
      BY <2>2, <2>5, <3>1 DEF WithFrame
    <3>3. [j EXCEPT !.queue = q, !.stale = TRUE] \in Sticks
      BY DEF Sticks
    <3> QED
      BY <2>1, <2>5, <3>2, <3>3 DEF Sticks
  <2> QED
    BY <2>3, <2>4, <2>5
<1>16. ks \in Seq(Sticks) /\ Len(ks) = N
  BY <1>10, <1>15
<1>17. Shown /\ Shown' = Shown
  BY <1>6 DEF Shown
<1>18. JoysticksTyped' /\ PadsShown' /\ PadsNumbered' /\ PadsApart' /\ PathsOf(joysticks)' = PathsOf(joysticks)
  <2>1. ks \in Seq(Sticks) /\ joysticks' = ks /\ Len(ks) = Len(joysticks)
    BY <1>7, <1>8, <1>9, <1>16
  <2>2. \A i \in 1 .. Len(joysticks) :
            /\ ks[i].path = joysticks[i].path /\ ks[i].pad = joysticks[i].pad /\ ks[i].serial = joysticks[i].serial
            /\ ~Shown => ks[i].moved = joysticks[i].moved
    BY <1>7, <1>8, <1>15, <1>17
  <2>3. UNCHANGED <<phase, opened, lowId, takenIds, windowPads, reused>> /\ (doubled => doubled')
    BY <1>6
  <2>4. view' \in [DOMAIN view -> PadViews]
    BY <1>6 DEF JoysticksTyped
  <2> QED
    BY <2>1, <2>2, <2>3, <2>4, EachKeeps
<1>19. PadsLive'
  <2>1. \A i \in 1 .. N : js[i].live => js[i].path \in plugged
    BY <1>7, <1>8 DEF PadsLive
  <2>2. \A i \in 1 .. N : ks[i].live => ks[i].path \in plugged
    BY <1>15, <2>1
  <2> QED
    BY <1>6, <1>9, <1>16, <2>2 DEF PadsLive
<1>20. PadsResting'
  <2>1. p \in PathsOf(joysticks)
    BY <1>6, <1>7, <1>8 DEF PathsOf
  <2>2. ASSUME ~reused, ~doubled, NEW q \in Pads, q \notin PathsOf(joysticks) PROVE position'[q] = Rest
    <3>1. position[q] = Rest
      BY <2>2 DEF PadsResting
    <3> QED
      BY <1>13, <2>1, <2>2, <3>1
  <2> QED
    BY <1>6, <1>18, <2>2 DEF PadsResting
<1>21. PadsTracked'
  <2> SUFFICES ASSUME ~reused, ~doubled, NEW i \in 1 .. N, ks[i].live, ~ks[i].stale
               PROVE  Tracks(ks[i], view[ks[i].pad], position'[ks[i].path])
    <3> SUFFICES ASSUME ~reused', ~doubled', NEW i \in 1 .. Len(joysticks'), joysticks'[i].live, ~joysticks'[i].stale
                 PROVE  Tracks(joysticks'[i], SeenOf(joysticks[i].pad)', position'[joysticks'[i].path])
      BY DEF PadsTracked
    <3>1. i \in 1 .. N /\ ~reused /\ ~doubled /\ ks[i].live /\ ~ks[i].stale
      BY <1>6, <1>9, <1>16
    <3>2. SeenOf(joysticks[i].pad)' = view[ks[i].pad]
      BY <1>6, <1>9, <1>17 DEF SeenOf
    <3> QED
      BY <1>9, <3>1, <3>2
  <2>1. PICK j \in Sticks : j = js[i]
    BY <1>8
  <2>2. PICK r \in Sticks : r = ks[i]
    BY <1>15
  <2>3. PICK w : w = SeenOf(j.pad) /\ w = view[j.pad]
    BY <1>17 DEF SeenOf
  <2>4. CASE j.path # p
    <3>1. ~j.stale /\ j.live
      BY <1>15, <2>1, <2>4
    <3>2. Tracks(j, w, position[j.path])
      BY <1>7, <1>8, <2>1, <2>3, <3>1 DEF PadsTracked
    <3>3. r = j /\ position'[j.path] = position[j.path]
      BY <1>13, <1>15, <2>1, <2>2, <2>4 DEF Sticks
    <3> QED
      BY <2>2, <2>3, <3>2, <3>3
  <2>5. CASE j.path = p
    <3>1. ~j.stale /\ j.live /\ r.queue = Append(j.queue, f) /\ r.moved = More(j.moved, f)
          /\ r.hat = j.hat /\ r.mapping = j.mapping /\ r.pad = j.pad /\ r.path = p
      BY <1>15, <2>1, <2>2, <2>5
    <3>2. Tracks(j, w, pos)
      BY <1>7, <1>8, <1>11, <2>1, <2>3, <2>5, <3>1 DEF PadsTracked
    <3>3. f.el \in Elements /\ to = Moved(pos, f)
      BY <1>5, <1>12
    <3>4. Tracks(r, w, to)
      BY <3>1, <3>2, <3>3, TracksMoved
    <3> QED
      BY <1>13, <2>2, <2>3, <3>1, <3>4
  <2> QED
    BY <2>4, <2>5
<1>22. DevicesTyped' /\ PadsPhased'
  BY <1>6, <1>13 DEF DevicesTyped, PadsPhased
<1>23. PadsTold'
  <2>1. Due' = Due
    BY <1>6 DEF Due
  <2> QED
    BY <1>6, <1>18, <2>1 DEF PadsTold
<1> QED
  BY <1>18, <1>19, <1>20, <1>21, <1>22, <1>23

LEMMA PollJoysticksKeeps ==
    ASSUME PadsWell, PollJoysticks, HalvesIn(Parsed(Line))
    PROVE  PadsWell'
<1> USE DEF PadsWell, JoysticksInv
<1>1. /\ UNCHANGED <<plugged, position, monitor, work, opened, lowId, takenIds, windowPads, reused, doubled>>
      /\ phase = "hotplug" /\ phase' = "ready" /\ view' = AllPolled
      /\ joysticks' = [i \in DOMAIN joysticks |->
            [joysticks[i] EXCEPT !.hat = Polled(view, joysticks[i]).hat, !.queue = LeftAfter(@)]]
  BY DEF PollJoysticks, deviceVars, idVars
<1>2. PICK js \in Seq(Sticks) : js = joysticks
  BY DEF JoysticksTyped
<1>3. PICK N \in Nat : N = Len(js)
  OBVIOUS
<1>4. PICK ks : ks = joysticks'
  OBVIOUS
<1>5. PICK D : D = DOMAIN view
  OBVIOUS
<1>6. PICK vw \in [D -> PadViews] : vw = view
  BY <1>5 DEF JoysticksTyped
<1>7. /\ ks = [i \in 1 .. N |-> ks[i]]
      /\ \A i \in 1 .. N : ks[i] = [js[i] EXCEPT !.hat = Polled(vw, js[i]).hat, !.queue = LeftAfter(@)]
  <2>1. DOMAIN joysticks = 1 .. N
    BY <1>2, <1>3
  <2> QED
    BY <1>1, <1>2, <1>4, <1>6, <2>1
<1>8. ASSUME NEW i \in 1 .. N
      PROVE  /\ ks[i] \in Sticks /\ ks[i].path = js[i].path /\ ks[i].pad = js[i].pad /\ ks[i].serial = js[i].serial
             /\ ks[i].hat = Polled(vw, js[i]).hat /\ ks[i].queue = LeftAfter(js[i].queue) /\ ks[i].moved = js[i].moved
             /\ ks[i].mapping = js[i].mapping /\ (ks[i].live <=> js[i].live) /\ (ks[i].stale <=> js[i].stale)
  <2>1. PICK j \in Sticks : j = js[i]
    BY <1>3
  <2>2. PICK h \in Hats : h = Polled(vw, j).hat
    BY PolledIs DEF PolledOf
  <2>3. PICK q \in Seq(Frames) : q = LeftAfter(j.queue)
    <3>1. j.queue \in Seq(Frames)
      BY DEF Sticks
    <3> QED
      BY <3>1, ReadNowIs
  <2>4. ks[i] = [j EXCEPT !.hat = h, !.queue = q]
    BY <1>7, <2>1, <2>2, <2>3
  <2>5. [j EXCEPT !.hat = h, !.queue = q] \in Sticks
    BY DEF Sticks
  <2> QED
    BY <2>1, <2>2, <2>3, <2>4, <2>5 DEF Sticks
<1>9. ks \in Seq(Sticks) /\ Len(ks) = N
  <2>1. PICK h : h = [i \in 1 .. N |-> ks[i]]
    OBVIOUS
  <2>2. h \in Seq(Sticks) /\ Len(h) = N
    BY <1>8, <2>1
  <2> QED
    BY <1>7, <2>1, <2>2
<1>10. Shown /\ Shown'
  BY <1>1 DEF Shown
<1>11. AllPolled \in [D -> PadViews]
  <2>1. PICK g : AllPolledBy(g, D)
    BY <1>2, <1>6, AllPolledIs
  <2>2. N \in 0 .. N
    BY <1>3
  <2> QED
    BY <1>2, <1>3, <2>1, <2>2 DEF AllPolledBy
<1>12. JoysticksTyped'
  BY <1>1, <1>4, <1>9, <1>11 DEF JoysticksTyped
<1>13. PadsShown'
  BY <1>1, <1>5, <1>10, <1>11 DEF PadsShown
<1>14. PadsNumbered'
  <2> SUFFICES ASSUME ~reused PROVE PadsNumbered'
    BY <1>1 DEF PadsNumbered
  <2>1. lowId = N /\ opened = N /\ DOMAIN windowPads = 0 .. N - 1 /\ (\A id \in 0 .. N - 1 : windowPads[id] = id)
        /\ \A i \in 1 .. N : js[i].pad = i - 1 /\ js[i].serial = i - 1
    BY <1>2, <1>3 DEF PadsNumbered
  <2>2. \A i \in 1 .. N : ks[i].pad = i - 1 /\ ks[i].serial = i - 1
    BY <1>8, <2>1
  <2> QED
    BY <1>1, <1>4, <1>9, <2>1, <2>2 DEF PadsNumbered
<1>15. PadsApart'
  <2> SUFFICES ASSUME ~doubled PROVE PadsApart'
    BY <1>1 DEF PadsApart
  <2>1. \A i, k \in 1 .. N : js[i].path = js[k].path => i = k
    BY <1>2, <1>3 DEF PadsApart
  <2>2. \A i, k \in 1 .. N : ks[i].path = ks[k].path => i = k
    BY <1>8, <2>1
  <2> QED
    BY <1>4, <1>9, <2>2 DEF PadsApart
<1>16. PathsOf(joysticks)' = PathsOf(joysticks)
  <2>1. PathsOf(ks) = PathsOf(js)
    BY <1>3, <1>8, <1>9 DEF PathsOf
  <2> QED
    BY <1>2, <1>4, <2>1
<1>17. PadsLive'
  <2>1. \A i \in 1 .. N : js[i].live => js[i].path \in plugged
    BY <1>2, <1>3 DEF PadsLive
  <2>2. \A i \in 1 .. N : ks[i].live => ks[i].path \in plugged
    BY <1>8, <2>1
  <2> QED
    BY <1>1, <1>4, <1>9, <2>2 DEF PadsLive
<1>18. PadsResting'
  BY <1>1, <1>16 DEF PadsResting
<1>19. PadsTracked'
  <2> SUFFICES ASSUME ~reused, ~doubled, NEW i \in 1 .. N, ks[i].live, ~ks[i].stale
               PROVE  Tracks(ks[i], view'[ks[i].pad], position[ks[i].path])
    <3> SUFFICES ASSUME ~reused', ~doubled', NEW i \in 1 .. Len(joysticks'), joysticks'[i].live, ~joysticks'[i].stale
                 PROVE  Tracks(joysticks'[i], SeenOf(joysticks[i].pad)', position'[joysticks'[i].path])
      BY DEF PadsTracked
    <3>1. i \in 1 .. N /\ ~reused /\ ~doubled /\ ks[i].live /\ ~ks[i].stale
      BY <1>1, <1>4, <1>9
    <3>2. SeenOf(joysticks[i].pad)' = view'[ks[i].pad]
      BY <1>4, <1>10 DEF SeenOf
    <3> QED
      BY <1>1, <1>4, <3>1, <3>2
  <2>1. PICK j \in Sticks : j = js[i]
    BY <1>3
  <2>2. PICK r \in Sticks : r = ks[i]
    BY <1>8
  <2>3. PICK pos \in Positions : pos = position[j.path]
    BY DEF DevicesTyped, Sticks
  <2>4. (\A k \in 1 .. N : js[k].pad = k - 1) /\ D = 0 .. N - 1
    BY <1>2, <1>3, <1>5, <1>10 DEF PadsShown, PadsNumbered
  <2>5. PICK id \in D : id = j.pad
    <3>1. i - 1 \in 0 .. N - 1
      BY <1>3
    <3> QED
      BY <2>1, <2>4, <3>1
  <2>6. Tracks(j, vw[id], pos)
    <3>1. Tracks(js[i], SeenOf(js[i].pad), position[js[i].path])
      BY <1>2, <1>3, <1>8 DEF PadsTracked
    <3>2. SeenOf(js[i].pad) = vw[id]
      BY <1>6, <1>10, <2>1, <2>5 DEF SeenOf
    <3> QED
      BY <2>1, <2>3, <3>1, <3>2
  <2>7. HalvesIn(j.mapping)
    <3>1. HalvesIn(<<>>)
      <4>1. 1 .. Len(<<>>) = {}
        OBVIOUS
      <4> QED
        BY <4>1 DEF HalvesIn
    <3> QED
      BY <3>1, MappingIs
  <2>8. Polled(vw, j).hat = HatOf(pos) /\ LeftAfter(j.queue) = <<>>
    BY <2>5, <2>6, <2>7, PolledTracks
  <2>9. \A a, b \in 1 .. N : js[a].pad = js[b].pad => a = b
    BY <2>4
  <2>10. PICK pads \in [D -> PadViews] : pads[id] = vw[id] /\ AllPolled[id] = Polled(pads, j).view[id]
    <3>1. view \in [D -> PadViews] /\ joysticks \in Seq(Sticks) /\ i \in 1 .. Len(joysticks) /\ joysticks[i].pad \in D
          /\ PadsDiffer
      BY <1>2, <1>3, <1>6, <2>1, <2>5, <2>9 DEF PadsDiffer
    <3>2. PolledAlone(D, i)
      BY <3>1, AllPolledEach
    <3> QED
      BY <1>2, <1>6, <2>1, <2>5, <3>2 DEF PolledAlone
  <2>11. Tracks(j, pads[j.pad], pos)
    BY <2>5, <2>6, <2>10
  <2>12. ViewShows(Polled(pads, j).view[j.pad], j.mapping, j.moved, pos)
    BY <2>5, <2>7, <2>11, PolledTracks
  <2>13. PICK w : w = AllPolled[id]
    OBVIOUS
  <2>14. r.queue = <<>> /\ r.hat = HatOf(pos) /\ r.moved = j.moved /\ r.mapping = j.mapping /\ r.pad = id /\ r.path = j.path
    BY <1>8, <2>1, <2>2, <2>5, <2>8
  <2>15. ViewShows(w, r.mapping, r.moved, pos) /\ r.moved \in SUBSET Elements
    BY <2>5, <2>10, <2>12, <2>13, <2>14 DEF Sticks
  <2>16. Tracks(r, w, pos)
    BY <2>14, <2>15, TracksIdle
  <2> QED
    BY <1>1, <2>2, <2>3, <2>13, <2>14, <2>16
<1>20. DevicesTyped' /\ PadsPhased'
  BY <1>1 DEF DevicesTyped, PadsPhased
<1>21. PadsTold'
  <2>1. Due' = Due
    BY <1>1 DEF Due
  <2> QED
    BY <1>1, <1>16, <2>1 DEF PadsTold
<1> QED
  BY <1>12, <1>13, <1>14, <1>15, <1>17, <1>18, <1>19, <1>20, <1>21

LEMMA AddFoundKeeps ==
    ASSUME PadsWell, NEW p \in Pads, AddFound(p), ~padPanic', HalvesIn(Parsed(Line))
    PROVE  PadsWell'
<1> USE DEF PadsWell
<1>1. /\ UNCHANGED <<plugged, position, monitor, phase, reused, doubled>>
      /\ phase = "found" /\ p \in work /\ work' = work \ {p} /\ DeviceAdded(p)
  BY DEF AddFound, deviceVars
<1>2. Due = work /\ Due' = work'
  BY <1>1 DEF Due
<1>3. \A q \in Pads : ~doubled => Told(monitor, q, plugged, PathsOf(joysticks), work)
  BY <1>1, <1>2 DEF PadsTold
<1>4. ~doubled => p \notin PathsOf(joysticks)
  BY <1>1, <1>3 DEF Told
<1>5. JoysticksInv' /\ PathsOf(joysticks)' = IF p \in plugged THEN PathsOf(joysticks) \cup {p} ELSE PathsOf(joysticks)
  BY <1>1, <1>4, AddedKeeps
<1>6. DevicesTyped' /\ PadsPhased'
  BY <1>1 DEF DevicesTyped, PadsPhased
<1>7. PadsTold'
  <2> SUFFICES ASSUME ~doubled, NEW q \in Pads
               PROVE  Told(monitor, q, plugged, PathsOf(joysticks)', Due')
    BY <1>1 DEF PadsTold
  <2>1. PICK its : its = PathsOf(joysticks)
    OBVIOUS
  <2>2. PICK its2 : its2 = PathsOf(joysticks)'
    OBVIOUS
  <2>3. PICK dues2 : dues2 = Due'
    OBVIOUS
  <2>4. Told(monitor, q, plugged, its, work)
    BY <1>3, <2>1
  <2>5. CASE q = p
    <3>1. q \in work /\ q \notin dues2 /\ (q \in its2 <=> q \in plugged)
      BY <1>1, <1>2, <1>4, <1>5, <2>2, <2>3, <2>5
    <3>2. Told(monitor, q, plugged, its2, dues2)
      BY <2>4, <3>1, ToldFound
    <3> QED
      BY <2>2, <2>3, <3>2
  <2>6. CASE q # p
    <3>1. (q \in dues2 <=> q \in work) /\ (q \in its2 <=> q \in its)
      BY <1>1, <1>2, <1>5, <2>1, <2>2, <2>3, <2>6
    <3>2. Told(monitor, q, plugged, its2, dues2)
      BY <2>4, <3>1, ToldSame
    <3> QED
      BY <2>2, <2>3, <3>2
  <2> QED
    BY <2>5, <2>6
<1> QED
  BY <1>5, <1>6, <1>7

LEMMA HandleHotplugKeeps ==
    ASSUME PadsWell, HandleHotplug, ~padPanic, ~padPanic', HalvesIn(Parsed(Line))
    PROVE  PadsWell'
<1> USE DEF PadsWell
<1>1. /\ UNCHANGED <<plugged, position, phase, work, doubled>>
      /\ phase = "hotplug" /\ monitor # <<>> /\ monitor' = Tail(monitor)
  BY DEF HandleHotplug, deviceVars
<1>2. PICK mon \in Seq(Notices) : mon = monitor
  BY DEF DevicesTyped
<1>3. PICK n \in Notices : n = mon[1] /\ n = Head(mon)
  BY <1>1, <1>2, HeadTailProperties
<1>4. PICK p \in Pads : p = n.pad
  BY DEF Notices
<1>5. PICK m \in Seq(Notices) : m = Tail(mon)
  BY <1>1, <1>2, HeadTailProperties
<1>6. Due = work /\ Due' = work /\ work = {}
  BY <1>1 DEF Due, PadsPhased
<1>7. PICK its : its = PathsOf(joysticks)
  OBVIOUS
<1>8. PICK its2 : its2 = PathsOf(joysticks)'
  OBVIOUS
<1>9. \A q \in Pads : ~doubled => Told(mon, q, plugged, its, work)
  BY <1>1, <1>2, <1>6, <1>7 DEF PadsTold
<1>10. mon # <<>> /\ 1 \in 1 .. Len(mon) /\ 1 .. 1 - 1 = {}
  BY <1>1, <1>2
<1>11. DevicesTyped' /\ PadsPhased'
  BY <1>1, <1>2, <1>5 DEF DevicesTyped, PadsPhased
<1>12. JoysticksInv' /\ \A q \in Pads : ~doubled =>
          /\ q # p => (q \in its2 <=> q \in its)
          /\ q = p /\ n.what = "add" => (q \in its2 <=> q \in plugged)
          /\ q = p /\ n.what # "add" => q \notin its2
  <2>1. CASE n.what = "add"
    <3>1. DeviceAdded(p) /\ reused' = reused
      BY <1>2, <1>3, <1>4, <2>1 DEF HandleHotplug
    <3>2. ASSUME ~doubled PROVE p \notin PathsOf(joysticks)
      <4>1. Told(mon, p, plugged, its, work)
        BY <1>9, <3>2
      <4>2. mon[1].pad = p /\ mon[1].what = "add" /\ \A l \in 1 .. 1 - 1 : mon[l].pad # p
        BY <1>3, <1>4, <1>10, <2>1
      <4> QED
        BY <1>7, <1>10, <4>1, <4>2 DEF Told
    <3>3. JoysticksInv' /\ PathsOf(joysticks)' = IF p \in plugged THEN PathsOf(joysticks) \cup {p} ELSE PathsOf(joysticks)
      BY <1>1, <3>1, <3>2, AddedKeeps
    <3> QED
      BY <1>7, <1>8, <2>1, <3>2, <3>3
  <2>2. CASE n.what # "add"
    <3>1. DeviceRemoved(p) /\ opened' = opened
      BY <1>2, <1>3, <1>4, <2>2 DEF HandleHotplug
    <3>2. Shown
      BY <1>1 DEF Shown
    <3>3. JoysticksInv' /\ (~doubled => PathsOf(joysticks)' = PathsOf(joysticks) \ {p})
      BY <1>1, <3>1, <3>2, RemovedKeeps
    <3> QED
      BY <1>7, <1>8, <2>2, <3>3
  <2> QED
    BY <2>1, <2>2
<1>13. PadsTold'
  <2> SUFFICES ASSUME ~doubled, NEW q \in Pads
               PROVE  Told(m, q, plugged, its2, work)
    BY <1>1, <1>2, <1>5, <1>6, <1>8 DEF PadsTold
  <2>1. Told(mon, q, plugged, its, work) /\ q \notin work
    BY <1>6, <1>9
  <2>2. CASE q = p
    <3>1. mon[1].pad = q /\ (mon[1].what = "add" => (q \in its2 <=> q \in plugged)) /\ (mon[1].what # "add" => q \notin its2)
      BY <1>3, <1>4, <1>12, <2>2
    <3> QED
      BY <1>5, <1>10, <2>1, <3>1, ToldHeard
  <2>3. CASE q # p
    <3>1. mon[1].pad # q /\ (q \in its2 <=> q \in its)
      BY <1>3, <1>4, <1>12, <2>3
    <3>2. Told(m, q, plugged, its, work)
      BY <1>5, <1>10, <2>1, <3>1, ToldOtherHeard
    <3> QED
      BY <3>1, <3>2, ToldSame
  <2> QED
    BY <2>2, <2>3
<1> QED
  BY <1>11, <1>12, <1>13

LEMMA PadsStep ==
    ASSUME HalvesIn(Parsed(Line)), PadsInv, [PadsNext]_padsVars
    PROVE  PadsInv'
<1> SUFFICES ASSUME ~padPanic' PROVE PadsWell'
  BY DEF PadsInv
<1>1. CASE UNCHANGED padsVars
  <2>1. /\ UNCHANGED <<joysticks, opened, lowId, takenIds, windowPads, view, reused, doubled, plugged, position>>
        /\ UNCHANGED <<monitor, phase, work, padPanic>>
    BY <1>1 DEF padsVars, deviceVars, idVars
  <2>2. PadsWell
    BY <2>1 DEF PadsInv
  <2>3. Shown' = Shown /\ Due' = Due
    BY <2>1 DEF Shown, Due
  <2>4. JoysticksInv' /\ PathsOf(joysticks)' = PathsOf(joysticks)
    BY <2>1, <2>2, <2>3, JoysticksSame DEF PadsWell
  <2>5. DevicesTyped' /\ PadsPhased'
    BY <2>1, <2>2 DEF PadsWell, DevicesTyped, PadsPhased
  <2>6. PadsTold'
    BY <2>1, <2>2, <2>3, <2>4 DEF PadsWell, PadsTold
  <2> QED
    BY <2>4, <2>5, <2>6 DEF PadsWell
<1>2. CASE PadsNext /\ ~UNCHANGED padsVars
  <2>1. ~padPanic
    BY <1>2 DEF PadsNext
  <2>2. PadsWell
    BY <2>1 DEF PadsInv
  <2>3. CASE \E p \in Pads : Plug(p) \/ Unplug(p) \/ AddFound(p)
    BY <2>2, <2>3, PlugKeeps, UnplugKeeps, AddFoundKeeps
  <2>4. CASE \E f \in Moves : Move(f.pad, f.el, f.value)
    BY <2>2, <2>4, MoveKeeps
  <2>5. CASE LoadMappings \/ \E b \in BOOLEAN : OnWindowFocused(b)
    BY <2>2, <2>5, IdleKeeps
  <2>6. CASE Initialize \/ ScanDevices \/ AddWindow \/ UpdatePads
    BY <2>2, <2>6, InitializeKeeps, ScanDevicesKeeps, AddWindowKeeps, UpdatePadsKeeps
  <2>7. CASE HandleHotplug
    BY <2>1, <2>2, <2>7, HandleHotplugKeeps
  <2>8. CASE PollJoysticks
    BY <2>2, <2>8, PollJoysticksKeeps
  <2> QED
    BY <1>2, <2>1, <2>3, <2>4, <2>5, <2>6, <2>7, <2>8 DEF PadsNext
<1> QED
  BY <1>1, <1>2

LEMMA PadsInvSound ==
    ASSUME PadsInv
    PROVE  PadsSound
<1> SUFFICES ASSUME ~padPanic PROVE IdsDistinct /\ PadsKnown /\ JoysticksAreDevices /\ SeenAsIs
  BY DEF PadsSound
<1> USE DEF PadsInv, PadsWell, JoysticksInv
<1>1. PICK js \in Seq(Sticks) : js = joysticks
  BY DEF JoysticksTyped
<1>2. PICK N \in Nat : N = Len(js) /\ DOMAIN js = 1 .. N
  OBVIOUS
<1>3. ~reused => (\A i \in 1 .. N : js[i].pad = i - 1 /\ js[i].serial = i - 1)
                 /\ DOMAIN windowPads = 0 .. N - 1 /\ \A id \in 0 .. N - 1 : windowPads[id] = id
  BY <1>1, <1>2 DEF PadsNumbered
<1>4. IdsDistinct
  <2> SUFFICES ASSUME ~reused, NEW i \in 1 .. N, NEW k \in 1 .. N
               PROVE  js[i].pad = i - 1 /\ (js[i].pad = js[k].pad => i = k)
    BY <1>1, <1>2 DEF IdsDistinct
  <2>1. js[i].pad = i - 1 /\ js[k].pad = k - 1
    BY <1>3
  <2> QED
    BY <2>1
<1>5. PadsKnown
  <2>1. ASSUME ~reused, NEW id \in DOMAIN windowPads
        PROVE  \E i \in DOMAIN joysticks : joysticks[i].pad = id /\ joysticks[i].serial = windowPads[id]
    <3>1. id \in 0 .. N - 1 /\ windowPads[id] = id
      BY <1>3, <2>1
    <3>2. PICK i \in 1 .. N : i = id + 1
      BY <1>2, <3>1
    <3>3. js[i].pad = id /\ js[i].serial = id
      BY <1>3, <2>1, <3>1, <3>2
    <3> QED
      BY <1>1, <1>2, <3>1, <3>3
  <2>2. Shown => DOMAIN view = DOMAIN windowPads
    BY DEF PadsShown
  <2> QED
    BY <2>1, <2>2 DEF PadsKnown
<1>6. JoysticksAreDevices
  <2> SUFFICES ASSUME phase = "hotplug", monitor = <<>>, ~doubled
               PROVE  /\ {joysticks[i].path : i \in DOMAIN joysticks} = plugged
                      /\ \A i, k \in DOMAIN joysticks : joysticks[i].path = joysticks[k].path => i = k
    BY DEF JoysticksAreDevices
  <2>1. {joysticks[i].path : i \in DOMAIN joysticks} = PathsOf(js)
    BY <1>1, <1>2 DEF PathsOf
  <2>2. \A i, k \in DOMAIN joysticks : joysticks[i].path = joysticks[k].path => i = k
    BY <1>1, <1>2 DEF PadsApart
  <2>3. Due = {}
    BY DEF Due, PadsPhased
  <2>4. ASSUME NEW p \in Pads PROVE p \in plugged <=> p \in PathsOf(js)
    <3>1. PICK dues : dues = Due
      OBVIOUS
    <3>2. Told(monitor, p, plugged, PathsOf(js), dues)
      BY <1>1, <3>1 DEF PadsTold
    <3>3. p \notin dues
      BY <2>3, <3>1
    <3> QED
      BY <3>2, <3>3, ToldNone
  <2>5. plugged \in SUBSET Pads
    BY DEF DevicesTyped
  <2>6. PathsOf(js) \in SUBSET Pads
    <3>1. ASSUME NEW i \in 1 .. N PROVE js[i].path \in Pads
      <4>1. PICK j \in Sticks : j = js[i]
        BY <1>2
      <4> QED
        BY <4>1 DEF Sticks
    <3> QED
      BY <1>2, <3>1 DEF PathsOf
  <2> QED
    BY <2>1, <2>2, <2>4, <2>5, <2>6
<1>7. SeenAsIs
  <2>1. ASSUME NEW id \in DOMAIN view
        PROVE  view[id]["lefttrigger"] \in 0 .. Scale /\ view[id]["leftx"] \in -Scale .. Scale
    <3>1. PICK v \in PadViews : v = view[id]
      BY DEF JoysticksTyped
    <3> QED
      BY <3>1 DEF PadViews
  <2>2. ASSUME NEW i \in 1 .. N, ~reused, ~doubled, js[i].live, ~js[i].stale, js[i].queue = <<>>,
               NEW k \in DOMAIN js[i].mapping, Applies(js[i].mapping[k], js[i].moved, position[js[i].path])
        PROVE  view[js[i].pad][js[i].mapping[k].to.target] = Means(js[i].mapping[k], position[js[i].path])
    <3>1. PICK j \in Sticks : j = js[i]
      BY <1>2
    <3>2. PICK ms \in Seq(MapEntries) : ms = j.mapping
      BY MappingIs
    <3>3. k \in 1 .. Len(ms)
      BY <2>2, <3>1, <3>2
    <3>4. PICK m \in MapEntries : m = ms[k]
      BY <3>3
    <3>5. PICK pos \in Positions : pos = position[j.path]
      BY DEF DevicesTyped, Sticks
    <3>6. Applies(m, j.moved, pos)
      BY <2>2, <3>1, <3>2, <3>4, <3>5
    <3>7. Shown
      <4>1. ~Shown => j.moved = {}
        BY <1>1, <1>2, <3>1 DEF PadsShown
      <4>2. m.from.kind \in {"button", "hat", "axis"}
        BY DEF MapEntries
      <4>3. ~Applies(m, {}, pos)
        BY <4>2 DEF Applies
      <4> QED
        BY <3>6, <4>1, <4>3
    <3>8. PICK v : v = view[j.pad]
      OBVIOUS
    <3>9. Tracks(j, v, pos)
      <4>1. Tracks(joysticks[i], SeenOf(joysticks[i].pad), position[joysticks[i].path])
        BY <1>1, <1>2, <2>2 DEF PadsTracked
      <4>2. SeenOf(j.pad) = v
        BY <3>7, <3>8 DEF SeenOf
      <4> QED
        BY <1>1, <3>1, <3>5, <4>1, <4>2
    <3>10. ViewShows(v, j.mapping, j.moved, pos)
      BY <2>2, <3>1, <3>9, TracksRead
    <3>11. v[m.to.target] = Means(m, pos)
      BY <3>2, <3>3, <3>4, <3>6, <3>10 DEF ViewShows
    <3> QED
      BY <3>1, <3>2, <3>4, <3>5, <3>8, <3>11
  <2> QED
    BY <1>1, <1>2, <2>1, <2>2 DEF SeenAsIs
<1> QED
  BY <1>4, <1>5, <1>6, <1>7

\* MapEntries of the line that share a target are halves of one axis and agree
\* where both have a value, as SDL's lines have them.
HalvesAgree == HalvesIn(Parsed(Line))

\* Until an id comes back the joysticks are numbered as they were opened, the
\* game and the window know the same pads, with no notice of udev left the
\* joysticks are the devices, each once, and what moved of a device is seen by
\* the game as it is: for any devices, frames and line whose halves agree
\* (gamepad/: initialize, update, on_device_added, on_device_removed and poll).
THEOREM PadsStaySound == HalvesAgree => (PadsSpec => []PadsSound)
<1> SUFFICES ASSUME HalvesAgree PROVE PadsSpec => []PadsSound
  OBVIOUS
<1>1. PadsInit => PadsInv
  BY PadsStart
<1>2. PadsInv /\ [PadsNext]_padsVars => PadsInv'
  BY PadsStep DEF HalvesAgree
<1>3. PadsInv => PadsSound
  BY PadsInvSound
<1> QED
  BY <1>1, <1>2, <1>3, PTL DEF PadsSpec
=============================================================================
