---------------------------- MODULE PthreadProofs ----------------------------
(***************************************************************************)
(* Theorems about Pthreads for any threads, objects and host objects.      *)
(***************************************************************************)
EXTENDS Pthreads, FiniteSetTheorems, SequenceTheorems, TLAPS

-----------------------------------------------------------------------------
(* The inductive invariant. *)

Waits == {"wait", "timedwait"}
Converts == {"load", "make", "cas", "reload"}
Stages == Converts \cup {"idle", "host", "waiting", "relock"}

Shapes ==
    /\ payload \in [Objects -> Hosts \cup {Null}]
    /\ declared \in [Mutexes -> Kinds] /\ usable \subseteq Objects
    /\ live \subseteq Hosts /\ hostKind \in [Hosts -> Kinds]
    /\ held \in [Hosts -> [Threads -> Nat]] /\ excl \in [Hosts -> BOOLEAN]
    /\ stage \in [Threads -> Stages] /\ op \in [Threads -> Ops \cup {"none"}]
    /\ args \in [Threads -> Seq(Objects)] /\ hosts \in [Threads -> Seq(Hosts)]
    /\ mine \in [Threads -> Hosts \cup {Null}]
    /\ claims \in [Objects -> [Threads -> Nat]]
    /\ exclusive \in [Objects -> BOOLEAN]
    /\ \A o \in Objects \ usable : payload[o] = Null

\* A host object is that of one object, or of one thread that made it.
Owners ==
    /\ \A o \in Objects : payload[o] # Null => payload[o] \in live
    /\ \A t \in Threads : mine[t] # Null => mine[t] \in live
    /\ \A h \in live : \/ \E o \in Objects : payload[o] = h
                       \/ \E t \in Threads : mine[t] = h
    /\ \A o, p \in Objects : payload[o] # Null /\ payload[o] = payload[p] => o = p
    /\ \A t, u \in Threads : mine[t] # Null /\ mine[t] = mine[u] => t = u
    /\ \A o \in Objects, t \in Threads : payload[o] # Null => payload[o] # mine[t]

\* An object without a host object was never locked; one with a host object is
\* locked where that one is.
Attached(o) ==
    IF payload[o] = Null THEN claims[o] = Nobody /\ ~exclusive[o]
    ELSE /\ held[payload[o]] = claims[o]
         /\ excl[payload[o]] <=> exclusive[o]
         /\ o \in Mutexes => hostKind[payload[o]] = declared[o]

\* A host object that was just made is free, and of the kind it is made for.
Fresh(t) ==
    mine[t] # Null =>
        /\ held[mine[t]] = Nobody /\ ~excl[mine[t]]
        /\ Converting(t) \in Mutexes => hostKind[mine[t]] = declared[Converting(t)]

\* A call keeps its objects usable, found their host objects in order, and was
\* legal when it began.
CallOK(t) ==
    IF stage[t] = "idle" THEN hosts[t] = <<>> /\ mine[t] = Null
    ELSE /\ op[t] \in Ops /\ Len(args[t]) = IF op[t] \in Waits THEN 2 ELSE 1
         /\ \A k \in 1 .. Len(args[t]) : args[t][k] \in usable
         /\ Len(hosts[t]) <= Len(args[t])
         /\ stage[t] \in Converts <=> Len(hosts[t]) < Len(args[t])
         /\ \A k \in 1 .. Len(hosts[t]) : hosts[t][k] = payload[args[t][k]]
         /\ mine[t] # Null <=> stage[t] \in {"cas", "reload"}
         /\ stage[t] = "reload" => payload[Converting(t)] # Null
         /\ stage[t] \in {"waiting", "relock"} => op[t] \in Waits
         /\ op[t] = "unlock" => claims[args[t][1]][t] > 0
         /\ op[t] \in Waits /\ stage[t] \notin {"waiting", "relock"}
               => claims[args[t][2]][t] > 0

\* A lock that is held exclusively has one holder.
OneHolder(o) ==
    exclusive[o] => \E t \in Threads : /\ claims[o][t] > 0
                                       /\ \A u \in Threads : claims[o][u] > 0 => u = t

PthreadInv ==
    /\ Shapes /\ Owners
    /\ \A o \in Objects : Attached(o) /\ OneHolder(o)
    /\ \A t \in Threads : Fresh(t) /\ CallOK(t)

-----------------------------------------------------------------------------
(* Facts about calls. *)

\* The object that is converted next is one of the call's.
LEMMA ConvertingIs ==
    ASSUME PthreadInv, NEW t \in Threads, stage[t] \in Converts
    PROVE  /\ Len(hosts[t]) \in Nat /\ Len(args[t]) \in Nat
           /\ Len(hosts[t]) + 1 \in 1 .. Len(args[t])
           /\ Converting(t) = args[t][Len(hosts[t]) + 1]
           /\ Converting(t) \in usable /\ Converting(t) \in Objects
<1>1. CallOK(t) /\ stage[t] # "idle" /\ usable \subseteq Objects
  BY DEF PthreadInv, Shapes, Converts
<1>2. Len(hosts[t]) \in Nat /\ Len(args[t]) \in Nat
  BY LenProperties DEF PthreadInv, Shapes
<1>3. Len(hosts[t]) + 1 \in 1 .. Len(args[t])
  BY <1>1, <1>2 DEF CallOK
<1>4. args[t][Len(hosts[t]) + 1] \in usable
  BY <1>1, <1>3 DEF CallOK
<1> QED
  BY <1>1, <1>2, <1>3, <1>4 DEF Converting

\* What other threads do leaves a call as it is.
LEMMA CallStays ==
    ASSUME Shapes, NEW t \in Threads, CallOK(t),
           stage'[t] = stage[t], op'[t] = op[t], args'[t] = args[t],
           hosts'[t] = hosts[t], mine'[t] = mine[t],
           stage[t] # "idle" =>
              \A k \in 1 .. Len(args[t]) :
                 /\ args[t][k] \in usable'
                 /\ payload[args[t][k]] # Null => payload'[args[t][k]] = payload[args[t][k]]
                 /\ claims'[args[t][k]][t] = claims[args[t][k]][t]
    PROVE  CallOK(t)'
<1>1. CASE stage[t] = "idle"
  BY <1>1 DEF CallOK
<1>2. CASE stage[t] # "idle"
  <2>1. Len(hosts[t]) \in Nat /\ Len(args[t]) \in Nat
    BY LenProperties DEF Shapes
  <2>2. ASSUME NEW k \in 1 .. Len(hosts[t])
        PROVE  hosts[t][k] = payload'[args[t][k]]
    <3>1. hosts[t][k] \in Hosts /\ Null \notin Hosts
      BY ElementOfSeq, PthreadAssumption DEF Shapes
    <3>2. k \in 1 .. Len(args[t]) /\ hosts[t][k] = payload[args[t][k]]
      BY <1>2, <2>1 DEF CallOK
    <3> QED
      BY <1>2, <3>1, <3>2
  <2>3. stage[t] = "reload" => payload'[Converting(t)'] # Null
    <3>1. SUFFICES ASSUME stage[t] = "reload" PROVE payload'[Converting(t)'] # Null
      OBVIOUS
    <3>2. Len(hosts[t]) + 1 \in 1 .. Len(args[t])
      BY <1>2, <2>1, <3>1 DEF CallOK, Converts
    <3>3. payload[args[t][Len(hosts[t]) + 1]] # Null
      BY <1>2, <3>1 DEF CallOK, Converting
    <3> QED
      BY <1>2, <3>2, <3>3 DEF Converting
  <2>4. /\ op[t] = "unlock" => claims'[args[t][1]][t] > 0
        /\ op[t] \in Waits /\ stage[t] \notin {"waiting", "relock"}
               => claims'[args[t][2]][t] > 0
    <3>0. Len(args[t]) = IF op[t] \in Waits THEN 2 ELSE 1
      BY <1>2 DEF CallOK
    <3>1. op[t] = "unlock" => 1 \in 1 .. Len(args[t])
      BY <3>0 DEF Waits
    <3>2. op[t] \in Waits => 2 \in 1 .. Len(args[t])
      BY <3>0
    <3>3. /\ op[t] = "unlock" => claims'[args[t][1]][t] = claims[args[t][1]][t]
          /\ op[t] \in Waits => claims'[args[t][2]][t] = claims[args[t][2]][t]
      BY <1>2, <3>1, <3>2
    <3>4. /\ op[t] = "unlock" => claims[args[t][1]][t] > 0
          /\ op[t] \in Waits /\ stage[t] \notin {"waiting", "relock"}
                 => claims[args[t][2]][t] > 0
      BY <1>2 DEF CallOK
    <3> QED
      BY <3>3, <3>4
  <2> QED
    BY <1>2, <2>2, <2>3, <2>4 DEF CallOK
<1> QED
  BY <1>1, <1>2

LEMMA FreshStays ==
    ASSUME NEW t \in Threads, Fresh(t), mine'[t] = mine[t], args'[t] = args[t],
           hosts'[t] = hosts[t],
           mine[t] # Null =>
              /\ held'[mine[t]] = held[mine[t]] /\ (excl'[mine[t]] <=> excl[mine[t]])
              /\ hostKind'[mine[t]] = hostKind[mine[t]]
              /\ Converting(t) \in Mutexes => declared'[Converting(t)] = declared[Converting(t)]
    PROVE  Fresh(t)'
<1>1. Converting(t)' = Converting(t)
  BY DEF Converting
<1> QED
  BY <1>1 DEF Fresh

\* The host object of the object converted last is appended.
LEMMA ConvertedKeeps ==
    ASSUME PthreadInv, NEW t \in Threads, stage[t] \in Converts, NEW host \in Hosts,
           Converted(t, host), payload'[Converting(t)] = host,
           \A o \in Objects : payload[o] # Null => payload'[o] = payload[o],
           UNCHANGED <<op, args, usable, claims>>, mine'[t] = Null
    PROVE  /\ CallOK(t)'
           /\ hosts' \in [Threads -> Seq(Hosts)] /\ stage' \in [Threads -> Stages]
           /\ \A u \in Threads \ {t} : hosts'[u] = hosts[u] /\ stage'[u] = stage[u]
<1> DEFINE n == Len(hosts[t])
           new == Append(hosts[t], host)
<1>1. /\ n \in Nat /\ Len(args[t]) \in Nat /\ n + 1 \in 1 .. Len(args[t])
      /\ Converting(t) = args[t][n + 1]
  BY ConvertingIs
<1>2. /\ hosts' = [hosts EXCEPT ![t] = new] /\ hosts[t] \in Seq(Hosts)
      /\ stage' = [stage EXCEPT ![t] = IF n + 1 = Len(args[t]) THEN "host" ELSE "load"]
  BY DEF Converted, PthreadInv, Shapes
<1>3. /\ new \in Seq(Hosts) /\ Len(new) = n + 1
      /\ \A k \in 1 .. n : new[k] = hosts[t][k]
      /\ new[n + 1] = host
  BY <1>2, AppendProperties
<1>4. CallOK(t) /\ stage[t] # "idle" /\ Shapes
  BY DEF PthreadInv, Converts
<1> HIDE DEF n, new
<1>5. hosts'[t] = new /\ stage'[t] = IF n + 1 = Len(args[t]) THEN "host" ELSE "load"
  BY <1>2, <1>4 DEF Shapes
<1>6. ASSUME NEW k \in 1 .. n + 1 PROVE hosts'[t][k] = payload'[args[t][k]]
  <2>1. CASE k = n + 1
    BY <1>1, <1>3, <1>5, <2>1
  <2>2. CASE k \in 1 .. n
    <3>1. hosts[t][k] = payload[args[t][k]] /\ hosts[t][k] \in Hosts
      BY <1>2, <1>4, <2>2, ElementOfSeq DEF CallOK, n
    <3>2. args[t][k] \in Objects
      BY <1>1, <1>4, <2>2 DEF CallOK, Shapes
    <3>3. payload'[args[t][k]] = payload[args[t][k]]
      BY <3>1, <3>2, PthreadAssumption
    <3> QED
      BY <1>3, <1>5, <2>2, <3>1, <3>3
  <2> QED
    BY <1>1, <2>1, <2>2
<1>7. CallOK(t)'
  <2>1. stage'[t] \in {"host", "load"} /\ (stage'[t] = "load" <=> n + 1 < Len(args[t]))
    BY <1>1, <1>5
  <2>2. Len(hosts'[t]) = n + 1
    BY <1>3, <1>5
  <2>3. /\ op[t] = "unlock" => claims[args[t][1]][t] > 0
        /\ op[t] \in Waits => claims[args[t][2]][t] > 0
    BY <1>4 DEF CallOK, Converts
  <2>4. /\ op[t] \in Ops /\ Len(args[t]) = IF op[t] \in Waits THEN 2 ELSE 1
        /\ \A k \in 1 .. Len(args[t]) : args[t][k] \in usable
    BY <1>4 DEF CallOK
  <2>5. n + 1 <= Len(args[t])
    BY <1>1
  <2>6. stage'[t] \in Converts <=> n + 1 < Len(args[t])
    BY <2>1 DEF Converts
  <2>7. /\ stage'[t] # "idle" /\ stage'[t] \notin {"cas", "reload"}
        /\ stage'[t] \notin {"waiting", "relock"}
    BY <2>1
  <2> QED
    BY <1>6, <2>2, <2>3, <2>4, <2>5, <2>6, <2>7 DEF CallOK
<1>8. hosts' \in [Threads -> Seq(Hosts)] /\ stage' \in [Threads -> Stages]
  BY <1>2, <1>3, <1>4 DEF Shapes, Stages, Converts
<1> QED
  BY <1>2, <1>4, <1>7, <1>8 DEF Shapes

-----------------------------------------------------------------------------
(* A call begins. *)

LEMMA StartKeeps ==
    ASSUME PthreadInv, NEW t \in Threads, NEW call \in Ops, NEW objects \in Seq(Objects),
           Start(t, call, objects), Len(objects) = IF call \in Waits THEN 2 ELSE 1,
           call = "unlock" => claims[objects[1]][t] > 0,
           call \in Waits => claims[objects[2]][t] > 0
    PROVE  PthreadInv'
<1>1. /\ stage[t] = "idle" /\ stage' = [stage EXCEPT ![t] = "load"]
      /\ op' = [op EXCEPT ![t] = call] /\ args' = [args EXCEPT ![t] = objects]
      /\ hosts' = [hosts EXCEPT ![t] = <<>>]
      /\ {objects[k] : k \in DOMAIN objects} \subseteq usable
      /\ UNCHANGED <<payload, declared, usable, live, hostKind, held, excl, mine,
                     claims, exclusive>>
  BY DEF Start, objectVars, hostVars, claimVars
<1>2. Shapes /\ mine[t] = Null /\ <<>> \in Seq(Hosts) /\ Len(<<>>) = 0
  BY <1>1 DEF PthreadInv, CallOK
<1>3. Shapes'
  <2>1. stage' \in [Threads -> Stages] /\ op' \in [Threads -> Ops \cup {"none"}]
    BY <1>1, <1>2 DEF Shapes, Stages, Converts
  <2>2. args' \in [Threads -> Seq(Objects)] /\ hosts' \in [Threads -> Seq(Hosts)]
    BY <1>1, <1>2 DEF Shapes
  <2> QED
    BY <1>1, <1>2, <2>1, <2>2 DEF Shapes
<1>4. Owners'
  BY <1>1 DEF PthreadInv, Owners
<1>5. ASSUME NEW o \in Objects PROVE Attached(o)' /\ OneHolder(o)'
  BY <1>1 DEF PthreadInv, Attached, OneHolder
<1>6. ASSUME NEW u \in Threads PROVE Fresh(u)' /\ CallOK(u)'
  <2>1. CASE u # t
    <3>1. /\ stage'[u] = stage[u] /\ op'[u] = op[u] /\ args'[u] = args[u]
          /\ hosts'[u] = hosts[u] /\ mine'[u] = mine[u]
      BY <1>1, <1>2, <2>1 DEF Shapes
    <3>2. stage[u] # "idle" => \A k \in 1 .. Len(args[u]) : args[u][k] \in usable
      BY DEF PthreadInv, CallOK
    <3>3. Fresh(u) /\ CallOK(u)
      BY DEF PthreadInv
    <3>4. CallOK(u)'
      BY <1>1, <1>2, <3>1, <3>2, <3>3, CallStays
    <3>5. Fresh(u)'
      BY <1>1, <3>1, <3>3, FreshStays
    <3> QED
      BY <3>4, <3>5
  <2>2. CASE u = t
    <3>1. /\ stage'[t] = "load" /\ op'[t] = call /\ args'[t] = objects
          /\ hosts'[t] = <<>> /\ mine'[t] = Null
      BY <1>1, <1>2 DEF Shapes
    <3>2. \A k \in 1 .. Len(objects) : objects[k] \in usable
      BY <1>1, LenProperties
    <3>3. 0 < Len(objects) /\ Len(objects) \in Nat
      OBVIOUS
    <3>4. CallOK(t)'
      <4>1. call = "unlock" => claims'[args'[t][1]][t] > 0
        BY <1>1, <3>1
      <4>2. call \in Waits => claims'[args'[t][2]][t] > 0
        BY <1>1, <3>1
      <4> QED
        <5>1. Len(hosts'[t]) = 0 /\ \A k \in 1 .. Len(hosts'[t]) :
                 hosts'[t][k] = payload'[args'[t][k]]
          BY <1>2, <3>1
        <5>2. /\ op'[t] \in Ops /\ Len(args'[t]) = IF op'[t] \in Waits THEN 2 ELSE 1
              /\ \A k \in 1 .. Len(args'[t]) : args'[t][k] \in usable'
          <6>1. usable' = usable /\ op'[t] = call /\ args'[t] = objects
            BY <1>1, <3>1
          <6> QED
            BY <6>1, <3>2
        <5>3. /\ stage'[t] \in Converts /\ stage'[t] # "idle"
              /\ stage'[t] \notin {"cas", "reload"} /\ stage'[t] \notin {"waiting", "relock"}
          BY <3>1 DEF Converts
        <5>4. Len(hosts'[t]) < Len(args'[t]) /\ Len(hosts'[t]) <= Len(args'[t])
          <6>1. args'[t] = objects
            BY <3>1
          <6> QED
            BY <5>1, <6>1, <3>3
        <5> QED
          BY <3>1, <4>1, <4>2, <5>1, <5>2, <5>3, <5>4 DEF CallOK
    <3>5. Fresh(t)'
      BY <3>1 DEF Fresh
    <3> QED
      BY <2>2, <3>4, <3>5
  <2> QED
    BY <2>1, <2>2
<1> QED
  BY <1>3, <1>4, <1>5, <1>6 DEF PthreadInv

LEMMA CallsKeep ==
    ASSUME PthreadInv, NEW t \in Threads,
           \/ \E o \in Objects : CallOn(t, o)
           \/ \E c \in Conds, m \in Mutexes : CallWait(t, c, m)
    PROVE  PthreadInv'
<1>1. ASSUME NEW o \in Objects, CallOn(t, o) PROVE PthreadInv'
  <2>1. PICK call \in Ops \ {"wait", "timedwait"} : Legal(t, call, o) /\ Start(t, call, <<o>>)
    BY <1>1 DEF CallOn
  <2>2. <<o>> \in Seq(Objects) /\ Len(<<o>>) = 1 /\ <<o>>[1] = o
    OBVIOUS
  <2>3. call = "unlock" => claims[o][t] > 0
    BY <2>1 DEF Legal
  <2>4. call \notin Waits /\ call \in Ops
    BY <2>1 DEF Waits
  <2> QED
    BY <2>1, <2>2, <2>3, <2>4, StartKeeps
<1>2. ASSUME NEW c \in Conds, NEW m \in Mutexes, CallWait(t, c, m) PROVE PthreadInv'
  <2>1. PICK call \in {"wait", "timedwait"} : claims[m][t] = 1 /\ Start(t, call, <<c, m>>)
    BY <1>2 DEF CallWait
  <2>2. c \in Objects /\ m \in Objects
    BY DEF Objects
  <2>3. <<c, m>> \in Seq(Objects) /\ Len(<<c, m>>) = 2 /\ <<c, m>>[2] = m
    BY <2>2
  <2>4. call \in Waits /\ call \in Ops /\ call # "unlock"
    BY <2>1 DEF Waits, Ops
  <2>5. PICK objects \in Seq(Objects) : objects = <<c, m>>
    BY <2>3
  <2>6. Start(t, call, objects) /\ Len(objects) = 2 /\ claims[objects[2]][t] > 0
    BY <2>1, <2>3, <2>5
  <2> QED
    BY <2>4, <2>6, StartKeeps
<1> QED
  BY <1>1, <1>2

-----------------------------------------------------------------------------
(* There is always a host object to make. *)

LEMMA FreeHostExists ==
    ASSUME PthreadInv,
           (\E o \in Objects : payload[o] = Null) \/ (\E t \in Threads : mine[t] = Null)
    PROVE  FreeHost \in Hosts /\ FreeHost \notin live
<1> DEFINE A == {o \in Objects : payload[o] # Null}
           B == {t \in Threads : mine[t] # Null}
           P == {payload[o] : o \in A}
           M == {mine[t] : t \in B}
           f == [o \in A |-> payload[o]]
           g == [t \in B |-> mine[t]]
<1>1. IsFiniteSet(A) /\ IsFiniteSet(B) /\ A \subseteq Objects /\ B \subseteq Threads
  BY PthreadAssumption, FS_Subset
<1>2. f \in Surjection(A, P) /\ g \in Surjection(B, M)
  BY DEF Surjection
<1>3. /\ IsFiniteSet(P) /\ Cardinality(P) <= Cardinality(A)
      /\ IsFiniteSet(M) /\ Cardinality(M) <= Cardinality(B)
  <2> HIDE DEF A, B, P, M, f, g
  <2> QED
    BY <1>1, <1>2, FS_Surjection
<1>4. live \subseteq P \cup M
  <2>1. Null \notin Hosts /\ live \subseteq Hosts
    BY PthreadAssumption DEF PthreadInv, Shapes
  <2>2. ASSUME NEW h \in live PROVE h \in P \cup M
    <3>1. h # Null
      BY <2>1
    <3>2. (\E o \in Objects : payload[o] = h) \/ (\E t \in Threads : mine[t] = h)
      BY DEF PthreadInv, Owners
    <3> QED
      BY <3>1, <3>2
  <2> QED
    BY <2>2
<1>5. A # Objects \/ B # Threads
  OBVIOUS
<1> HIDE DEF A, B, P, M, f, g
<1>6. /\ Cardinality(A) \in Nat /\ Cardinality(B) \in Nat
      /\ Cardinality(Objects) \in Nat /\ Cardinality(Threads) \in Nat
      /\ Cardinality(P) \in Nat /\ Cardinality(M) \in Nat
      /\ Cardinality(P \cap M) \in Nat
  BY <1>1, <1>3, PthreadAssumption, FS_CardinalityType, FS_Intersection
<1>7. Cardinality(A) + Cardinality(B) < Cardinality(Objects) + Cardinality(Threads)
  <2>1. /\ Cardinality(A) <= Cardinality(Objects) /\ (Cardinality(Objects) = Cardinality(A) => Objects = A)
        /\ Cardinality(B) <= Cardinality(Threads) /\ (Cardinality(Threads) = Cardinality(B) => Threads = B)
    BY <1>1, PthreadAssumption, FS_Subset
  <2> QED
    BY <1>5, <1>6, <2>1
<1>8. IsFiniteSet(P \cup M)
      /\ Cardinality(P \cup M) = Cardinality(P) + Cardinality(M) - Cardinality(P \cap M)
  BY <1>3, FS_Union
<1>9. IsFiniteSet(live) /\ Cardinality(live) <= Cardinality(P \cup M)
      /\ Cardinality(live) \in Nat
  BY <1>4, <1>8, FS_Subset, FS_CardinalityType
<1>10. Cardinality(live) < Cardinality(Objects) + Cardinality(Threads)
  BY <1>3, <1>6, <1>7, <1>8, <1>9
<1>11. live # Hosts
  <2>1. SUFFICES ASSUME live = Hosts PROVE FALSE
    OBVIOUS
  <2>2. Cardinality(live) >= Cardinality(Objects) + Cardinality(Threads)
    BY <2>1, PthreadAssumption
  <2> QED
    BY <1>6, <1>9, <1>10, <2>2
<1>12. \E h \in Hosts : h \notin live
  BY <1>11 DEF PthreadInv, Shapes
<1> QED
  BY <1>12 DEF FreeHost

-----------------------------------------------------------------------------
(* The conversions. *)

\* A call elsewhere survives when host objects only appear where there was none.
LEMMA OtherCalls ==
    ASSUME PthreadInv, NEW t \in Threads, NEW u \in Threads, u # t,
           stage'[u] = stage[u], hosts'[u] = hosts[u], mine'[u] = mine[u],
           UNCHANGED <<op, args, usable, claims>>,
           \A o \in Objects : payload[o] # Null => payload'[o] = payload[o]
    PROVE  CallOK(u)'
<1>1. Shapes /\ CallOK(u)
  BY DEF PthreadInv
<1>2. stage[u] # "idle" => \A k \in 1 .. Len(args[u]) : args[u][k] \in usable
  BY <1>1 DEF CallOK
<1>3. usable \subseteq Objects
  BY <1>1 DEF Shapes
<1> QED
  BY <1>1, <1>2, <1>3, CallStays

LEMMA LoadKeeps == ASSUME PthreadInv, NEW t \in Threads, LoadPayload(t) PROVE PthreadInv'
<1> DEFINE o == Converting(t)
<1>0. /\ stage[t] = "load" /\ stage[t] \in Converts /\ Shapes /\ CallOK(t)
      /\ UNCHANGED <<op, args, mine, payload, declared, usable, live, hostKind, held,
                     excl, claims, exclusive>>
  BY DEF LoadPayload, PthreadInv, Converts, objectVars, hostVars, claimVars
<1>1. mine[t] = Null /\ o \in Objects
  BY <1>0, ConvertingIs DEF CallOK
<1>2. /\ CallOK(t)'
      /\ hosts' \in [Threads -> Seq(Hosts)] /\ stage' \in [Threads -> Stages]
      /\ \A u \in Threads \ {t} : hosts'[u] = hosts[u] /\ stage'[u] = stage[u]
  <2>1. CASE payload[o] # Null
    <3>1. Converted(t, payload[o]) /\ payload[o] \in Hosts
      BY <1>0, <1>1, <2>1 DEF LoadPayload, Shapes
    <3> HIDE DEF o
    <3> QED
      BY <1>0, <1>1, <3>1, ConvertedKeeps DEF o
  <2>2. CASE payload[o] = Null
    <3>1. stage' = [stage EXCEPT ![t] = "make"] /\ hosts' = hosts
      BY <2>2 DEF LoadPayload
    <3>2. stage'[t] = "make" /\ stage' \in [Threads -> Stages]
          /\ \A u \in Threads \ {t} : stage'[u] = stage[u]
      BY <1>0, <3>1 DEF Shapes, Stages, Converts
    <3>3. CallOK(t)'
      <4>1. Len(hosts[t]) < Len(args[t])
        BY <1>0 DEF CallOK, Converts
      <4> QED
        BY <1>0, <1>1, <3>1, <3>2, <4>1 DEF CallOK, Converts
    <3> QED
      BY <1>0, <3>1, <3>2, <3>3 DEF Shapes
  <2> QED
    BY <2>1, <2>2
<1>3. ASSUME NEW u \in Threads PROVE Fresh(u)' /\ CallOK(u)'
  <2>1. CASE u # t
    <3>1. hosts'[u] = hosts[u] /\ stage'[u] = stage[u] /\ Fresh(u)
      BY <1>2, <2>1 DEF PthreadInv
    <3> QED
      BY <1>0, <2>1, <3>1, OtherCalls, FreshStays
  <2>2. CASE u = t
    BY <1>0, <1>1, <1>2, <2>2 DEF Fresh
  <2> QED
    BY <2>1, <2>2
<1>4. Shapes' /\ Owners'
  BY <1>0, <1>2 DEF PthreadInv, Shapes, Owners
<1>5. \A p \in Objects : Attached(p)' /\ OneHolder(p)'
  BY <1>0 DEF PthreadInv, Attached, OneHolder
<1> QED
  BY <1>3, <1>4, <1>5 DEF PthreadInv

LEMMA MakeKeeps == ASSUME PthreadInv, NEW t \in Threads, MakeHost(t) PROVE PthreadInv'
<1> DEFINE h == FreeHost
           o == Converting(t)
<1>0. /\ stage[t] = "make" /\ stage[t] \in Converts /\ Shapes /\ CallOK(t) /\ Owners
      /\ UNCHANGED <<op, args, hosts, payload, declared, usable, claims, exclusive>>
  BY DEF MakeHost, PthreadInv, Converts, objectVars, claimVars
<1>1. mine[t] = Null /\ o \in Objects /\ Null \notin Hosts
  BY <1>0, ConvertingIs, PthreadAssumption DEF CallOK
<1>2. h \in Hosts /\ h \notin live
  BY <1>1, FreeHostExists
<1>3. /\ live' = live \cup {h} /\ held' = [held EXCEPT ![h] = Nobody]
      /\ hostKind' = [hostKind EXCEPT ![h] = IF o \in Mutexes THEN declared[o] ELSE "normal"]
      /\ excl' = [excl EXCEPT ![h] = FALSE]
      /\ mine' = [mine EXCEPT ![t] = h] /\ stage' = [stage EXCEPT ![t] = "cas"]
  BY <1>0 DEF MakeHost, NewHost
<1> HIDE DEF h, o
<1>4. /\ mine'[t] = h /\ stage'[t] = "cas"
      /\ \A u \in Threads \ {t} : mine'[u] = mine[u] /\ stage'[u] = stage[u]
  BY <1>0, <1>3 DEF Shapes
<1>5. /\ held'[h] = Nobody /\ ~excl'[h] /\ (o \in Mutexes => hostKind'[h] = declared[o])
      /\ \A g \in Hosts \ {h} : /\ held'[g] = held[g] /\ (excl'[g] <=> excl[g])
                                /\ hostKind'[g] = hostKind[g]
  BY <1>0, <1>2, <1>3 DEF Shapes
<1>6. Shapes'
  <2>1. live' \subseteq Hosts /\ held' \in [Hosts -> [Threads -> Nat]]
    BY <1>0, <1>2, <1>3 DEF Shapes, Nobody
  <2>2. hostKind' \in [Hosts -> Kinds]
    BY <1>0, <1>2, <1>3 DEF Shapes, Kinds
  <2>3. excl' \in [Hosts -> BOOLEAN]
    BY <1>0, <1>2, <1>3 DEF Shapes
  <2>4. mine' \in [Threads -> Hosts \cup {Null}] /\ stage' \in [Threads -> Stages]
    BY <1>0, <1>2, <1>3 DEF Shapes, Stages, Converts
  <2> QED
    BY <1>0, <2>1, <2>2, <2>3, <2>4 DEF Shapes
<1>7. Owners'
  <2>1. \A p \in Objects : payload[p] # h
    BY <1>0, <1>1, <1>2 DEF Owners
  <2>2. \A u \in Threads : mine[u] # h
    BY <1>0, <1>1, <1>2 DEF Owners
  <2>3. \A g \in live' : \/ \E p \in Objects : payload'[p] = g
                         \/ \E u \in Threads : mine'[u] = g
    <3>1. ASSUME NEW g \in live, NEW u \in Threads, mine[u] = g PROVE mine'[u] = g
      BY <1>0, <1>1, <1>4, <3>1 DEF Shapes
    <3> QED
      BY <1>0, <1>3, <1>4, <3>1 DEF Owners
  <2>4. \A u, v \in Threads : mine'[u] # Null /\ mine'[u] = mine'[v] => u = v
    BY <1>0, <1>4, <2>2 DEF Owners
  <2> QED
    BY <1>0, <1>3, <1>4, <2>1, <2>2, <2>3, <2>4 DEF Owners
<1>8. ASSUME NEW p \in Objects PROVE Attached(p)' /\ OneHolder(p)'
  <2>1. Attached(p) /\ OneHolder(p)
    BY DEF PthreadInv
  <2>2. payload[p] # Null => payload[p] \in Hosts \ {h}
    BY <1>0, <1>2 DEF Owners, Shapes
  <2>3. Attached(p)'
    BY <1>0, <1>5, <2>1, <2>2 DEF Attached
  <2> QED
    BY <1>0, <2>1, <2>3 DEF OneHolder
<1>9. ASSUME NEW u \in Threads PROVE Fresh(u)' /\ CallOK(u)'
  <2>1. CASE u # t
    <3>1. mine'[u] = mine[u] /\ stage'[u] = stage[u] /\ Fresh(u)
      BY <1>4, <2>1 DEF PthreadInv
    <3>2. mine[u] # Null => mine[u] \in Hosts \ {h}
      BY <1>0, <1>2 DEF Owners, Shapes
    <3>3. Fresh(u)'
      BY <1>0, <1>5, <3>1, <3>2, FreshStays
    <3> QED
      BY <1>0, <2>1, <3>1, <3>3, OtherCalls
  <2>2. CASE u = t
    <3>1. Converting(t)' = o
      BY <1>0 DEF Converting, o
    <3>2. Fresh(t)'
      BY <1>0, <1>4, <1>5, <3>1 DEF Fresh
    <3>3. CallOK(t)'
      <4>1. Len(hosts[t]) < Len(args[t])
        BY <1>0 DEF CallOK, Converts
      <4>2. mine'[t] # Null
        BY <1>1, <1>2, <1>4
      <4> QED
        BY <1>0, <1>4, <4>1, <4>2 DEF CallOK, Converts
    <3> QED
      BY <2>2, <3>2, <3>3
  <2> QED
    BY <2>1, <2>2
<1> QED
  BY <1>6, <1>7, <1>8, <1>9 DEF PthreadInv

LEMMA TryInitKeeps == ASSUME PthreadInv, NEW t \in Threads, TryInitPayload(t) PROVE PthreadInv'
<1> DEFINE o == Converting(t)
           h == mine[t]
<1>0. /\ stage[t] = "cas" /\ stage[t] \in Converts /\ Shapes /\ CallOK(t) /\ Owners
      /\ UNCHANGED <<op, args, declared, usable, live, hostKind, held, excl, claims, exclusive>>
  BY DEF TryInitPayload, PthreadInv, Converts, hostVars, claimVars
<1>1. /\ h # Null /\ h \in live /\ h \in Hosts /\ o \in Objects /\ o \in usable
      /\ Null \notin Hosts
  BY <1>0, ConvertingIs, PthreadAssumption DEF CallOK, Owners, Shapes
<1>2. CASE payload[o] = Null
  <2>1. /\ payload' = [payload EXCEPT ![o] = h] /\ Converted(t, h)
        /\ mine' = [mine EXCEPT ![t] = Null]
    BY <1>2 DEF TryInitPayload, TakesSlot
  <2> HIDE DEF h
  <2>2. /\ payload'[o] = h /\ mine'[t] = Null
        /\ \A p \in Objects \ {o} : payload'[p] = payload[p]
        /\ \A u \in Threads \ {t} : mine'[u] = mine[u]
    BY <1>0, <1>1, <2>1 DEF Shapes
  <2>3. \A p \in Objects : payload[p] # Null => payload'[p] = payload[p]
    BY <1>2, <2>2
  <2>4. /\ CallOK(t)'
        /\ hosts' \in [Threads -> Seq(Hosts)] /\ stage' \in [Threads -> Stages]
        /\ \A u \in Threads \ {t} : hosts'[u] = hosts[u] /\ stage'[u] = stage[u]
    <3>1. payload'[Converting(t)] = h
      BY <2>2
    <3> HIDE DEF o
    <3> QED
      BY <1>0, <1>1, <2>1, <2>2, <2>3, <3>1, ConvertedKeeps
  <2> HIDE DEF o
  <2>5. Shapes'
    <3>1. /\ payload' \in [Objects -> Hosts \cup {Null}]
          /\ mine' \in [Threads -> Hosts \cup {Null}]
      BY <1>0, <1>1, <2>1 DEF Shapes
    <3>2. \A p \in Objects \ usable : payload'[p] = Null
      BY <1>0, <1>1, <2>2 DEF Shapes
    <3> QED
      BY <1>0, <2>4, <3>1, <3>2 DEF Shapes
  <2>6. Owners'
    <3>1. \A p \in Objects : payload[p] # Null => payload[p] # h
      BY <1>0 DEF Owners, h
    <3>2. \A u \in Threads \ {t} : mine[u] # h
      BY <1>0, <1>1 DEF Owners, h
    <3>3. ASSUME NEW g \in live
          PROVE  (\E p \in Objects : payload'[p] = g) \/ (\E u \in Threads : mine'[u] = g)
      <4>1. CASE g = h
        BY <1>1, <2>2, <4>1
      <4>2. ASSUME NEW p \in Objects, payload[p] = g PROVE payload'[p] = g
        <5>1. g # Null
          BY <1>0, <1>1 DEF Shapes
        <5> QED
          BY <2>3, <4>2, <5>1
      <4>3. ASSUME g # h, NEW u \in Threads, mine[u] = g PROVE mine'[u] = g
        BY <2>2, <4>3 DEF h
      <4> QED
        BY <1>0, <4>1, <4>2, <4>3 DEF Owners
    <3>4. \A p, q \in Objects : payload'[p] # Null /\ payload'[p] = payload'[q] => p = q
      BY <1>0, <1>1, <2>2, <3>1 DEF Owners
    <3>5. \A u, v \in Threads : mine'[u] # Null /\ mine'[u] = mine'[v] => u = v
      BY <1>0, <2>2 DEF Owners
    <3>6. \A p \in Objects, u \in Threads : payload'[p] # Null => payload'[p] # mine'[u]
      BY <1>0, <1>1, <2>2, <3>2 DEF Owners
    <3>7. /\ \A p \in Objects : payload'[p] # Null => payload'[p] \in live
          /\ \A u \in Threads : mine'[u] # Null => mine'[u] \in live
      BY <1>0, <1>1, <2>2 DEF Owners
    <3> QED
      BY <1>0, <3>3, <3>4, <3>5, <3>6, <3>7 DEF Owners
  <2>7. ASSUME NEW p \in Objects PROVE Attached(p)' /\ OneHolder(p)'
    <3>1. Attached(p) /\ OneHolder(p) /\ Fresh(t)
      BY DEF PthreadInv
    <3>2. CASE p = o
      <4>1. /\ held[h] = Nobody /\ ~excl[h] /\ (o \in Mutexes => hostKind[h] = declared[o])
        BY <1>1, <3>1 DEF Fresh, h, o
      <4>2. claims[o] = Nobody /\ ~exclusive[o]
        BY <1>2, <3>1, <3>2 DEF Attached
      <4> QED
        BY <1>0, <1>1, <2>2, <3>1, <3>2, <4>1, <4>2 DEF Attached, OneHolder
    <3>3. CASE p # o
      BY <1>0, <2>2, <3>1, <3>3 DEF Attached, OneHolder
    <3> QED
      BY <3>2, <3>3
  <2>8. ASSUME NEW u \in Threads PROVE Fresh(u)' /\ CallOK(u)'
    <3>1. CASE u # t
      <4>1. hosts'[u] = hosts[u] /\ stage'[u] = stage[u] /\ mine'[u] = mine[u] /\ Fresh(u)
        BY <2>2, <2>4, <3>1 DEF PthreadInv
      <4>2. Fresh(u)'
        BY <1>0, <4>1, FreshStays
      <4> QED
        BY <1>0, <2>3, <3>1, <4>1, <4>2, OtherCalls
    <3>2. CASE u = t
      BY <2>2, <2>4, <3>2 DEF Fresh
    <3> QED
      BY <3>1, <3>2
  <2> QED
    BY <2>5, <2>6, <2>7, <2>8 DEF PthreadInv
<1>3. CASE payload[o] # Null
  <2>1. stage' = [stage EXCEPT ![t] = "reload"] /\ UNCHANGED <<payload, hosts, mine>>
    BY <1>3 DEF TryInitPayload, TakesSlot
  <2>2. stage'[t] = "reload" /\ stage' \in [Threads -> Stages]
        /\ \A u \in Threads \ {t} : stage'[u] = stage[u]
    BY <1>0, <2>1 DEF Shapes, Stages, Converts
  <2>3. Shapes' /\ Owners'
    BY <1>0, <2>1, <2>2 DEF Shapes, Owners
  <2>4. \A p \in Objects : Attached(p)' /\ OneHolder(p)'
    BY <1>0, <2>1 DEF PthreadInv, Attached, OneHolder
  <2>5. ASSUME NEW u \in Threads PROVE Fresh(u)' /\ CallOK(u)'
    <3>1. Fresh(u)'
      BY <1>0, <2>1, FreshStays DEF PthreadInv
    <3>2. CASE u # t
      BY <1>0, <2>1, <2>2, <3>1, <3>2, OtherCalls
    <3>3. CASE u = t
      <4>1. Converting(t)' = o
        BY <1>0, <2>1 DEF Converting
      <4>2. CallOK(t)'
        BY <1>0, <1>1, <1>3, <2>1, <2>2, <4>1 DEF CallOK, Converts
      <4> QED
        BY <3>1, <3>3, <4>2
    <3> QED
      BY <3>2, <3>3
  <2> QED
    BY <2>3, <2>4, <2>5 DEF PthreadInv
<1> QED
  BY <1>2, <1>3

LEMMA ReloadKeeps == ASSUME PthreadInv, NEW t \in Threads, Reload(t) PROVE PthreadInv'
<1> DEFINE o == Converting(t)
           h == mine[t]
<1>0. /\ stage[t] = "reload" /\ stage[t] \in Converts /\ Shapes /\ CallOK(t) /\ Owners
      /\ UNCHANGED <<op, args, hostKind, held, excl, payload, declared, usable, claims, exclusive>>
      /\ Converted(t, payload[o]) /\ live' = live \ {h} /\ mine' = [mine EXCEPT ![t] = Null]
  BY DEF Reload, Freed, PthreadInv, Converts, objectVars, claimVars
<1>1. /\ h # Null /\ h \in live /\ o \in Objects /\ payload[o] # Null /\ payload[o] \in Hosts
  BY <1>0, ConvertingIs DEF CallOK, Owners, Shapes
<1>2. mine'[t] = Null /\ \A u \in Threads \ {t} : mine'[u] = mine[u]
  BY <1>0 DEF Shapes
<1> HIDE DEF h
<1>3. /\ CallOK(t)'
      /\ hosts' \in [Threads -> Seq(Hosts)] /\ stage' \in [Threads -> Stages]
      /\ \A u \in Threads \ {t} : hosts'[u] = hosts[u] /\ stage'[u] = stage[u]
  <2>1. payload'[Converting(t)] = payload[o] /\ Converted(t, payload[o])
    BY <1>0
  <2> HIDE DEF o
  <2> QED
    BY <1>0, <1>1, <1>2, <2>1, ConvertedKeeps
<1> HIDE DEF o
<1>4. Shapes'
  <2>1. mine' \in [Threads -> Hosts \cup {Null}] /\ live' \subseteq Hosts
    BY <1>0 DEF Shapes
  <2> QED
    BY <1>0, <1>3, <2>1 DEF Shapes
<1>5. Owners'
  <2>1. \A p \in Objects : payload[p] # Null => payload[p] # h
    BY <1>0 DEF Owners, h
  <2>2. \A u \in Threads \ {t} : mine[u] # h
    BY <1>0, <1>1 DEF Owners, h
  <2>3. ASSUME NEW g \in live'
        PROVE  (\E p \in Objects : payload'[p] = g) \/ (\E u \in Threads : mine'[u] = g)
    <3>1. g \in live /\ g # h
      BY <1>0
    <3>2. ASSUME NEW u \in Threads, mine[u] = g PROVE mine'[u] = g
      BY <1>2, <3>1, <3>2 DEF h
    <3> QED
      BY <1>0, <3>1, <3>2 DEF Owners
  <2> QED
    BY <1>0, <1>2, <2>1, <2>2, <2>3 DEF Owners
<1>6. \A p \in Objects : Attached(p)' /\ OneHolder(p)'
  BY <1>0 DEF PthreadInv, Attached, OneHolder
<1>7. ASSUME NEW u \in Threads PROVE Fresh(u)' /\ CallOK(u)'
  <2>1. CASE u # t
    <3>1. hosts'[u] = hosts[u] /\ stage'[u] = stage[u] /\ mine'[u] = mine[u] /\ Fresh(u)
      BY <1>2, <1>3, <2>1 DEF PthreadInv
    <3>2. Fresh(u)'
      BY <1>0, <3>1, FreshStays
    <3> QED
      BY <1>0, <2>1, <3>1, <3>2, OtherCalls
  <2>2. CASE u = t
    BY <1>2, <1>3, <2>2 DEF Fresh
  <2> QED
    BY <2>1, <2>2
<1> QED
  BY <1>4, <1>5, <1>6, <1>7 DEF PthreadInv

-----------------------------------------------------------------------------
(* The host's operations. *)

\* A call that has converted all its objects has made none for itself.
LEMMA AtHost ==
    ASSUME PthreadInv, NEW t \in Threads, stage[t] \in {"host", "waiting", "relock"}
    PROVE  /\ mine[t] = Null /\ Len(hosts[t]) = Len(args[t]) /\ op[t] \in Ops
           /\ args[t][1] \in Objects /\ hosts[t][1] = payload[args[t][1]]
           /\ payload[args[t][1]] \in Hosts
           /\ op[t] \in Waits =>
                 /\ args[t][2] \in Objects /\ hosts[t][2] = payload[args[t][2]]
                 /\ payload[args[t][2]] \in Hosts
<1>1. CallOK(t) /\ stage[t] # "idle" /\ stage[t] \notin Converts /\ Shapes
  BY DEF PthreadInv, Converts
<1>2. Len(hosts[t]) \in Nat /\ Len(args[t]) \in Nat
  BY <1>1, LenProperties DEF Shapes
<1>3. Len(hosts[t]) = Len(args[t]) /\ Len(args[t]) = IF op[t] \in Waits THEN 2 ELSE 1
  BY <1>1, <1>2 DEF CallOK
<1>4. ASSUME NEW k \in 1 .. Len(args[t])
      PROVE  args[t][k] \in Objects /\ hosts[t][k] = payload[args[t][k]] /\ hosts[t][k] \in Hosts
  <2>1. args[t][k] \in usable /\ hosts[t][k] = payload[args[t][k]]
    BY <1>1, <1>3 DEF CallOK
  <2>2. hosts[t] \in Seq(Hosts) /\ k \in 1 .. Len(hosts[t])
    BY <1>1, <1>3 DEF Shapes
  <2>3. hosts[t][k] \in Hosts
    BY <2>2, ElementOfSeq
  <2> QED
    BY <1>1, <2>1, <2>3 DEF Shapes
<1>5. 1 \in 1 .. Len(args[t]) /\ (op[t] \in Waits => 2 \in 1 .. Len(args[t]))
  BY <1>3
<1>6. mine[t] = Null /\ op[t] \in Ops
  BY <1>1 DEF CallOK, Converts
<1> QED
  BY <1>3, <1>4, <1>5, <1>6

\* Locking and unlocking change the host object and what the program may rely
\* on in the same way, for one thread.
LEMMA LockChanges ==
    ASSUME PthreadInv, NEW t \in Threads, NEW o \in Objects, payload[o] \in Hosts,
           NEW x \in Nat, NEW b \in BOOLEAN,
           held' = [held EXCEPT ![payload[o]][t] = x],
           excl' = [excl EXCEPT ![payload[o]] = b],
           claims' = [claims EXCEPT ![o][t] = x],
           exclusive' = [exclusive EXCEPT ![o] = b],
           b => x > 0 /\ \A u \in Threads \ {t} : claims[o][u] = 0,
           UNCHANGED <<payload, declared, usable, live, hostKind, mine>>,
           mine[t] = Null, stage' \in [Threads -> Stages],
           op' \in [Threads -> Ops \cup {"none"}], args' \in [Threads -> Seq(Objects)],
           hosts' \in [Threads -> Seq(Hosts)],
           \A u \in Threads \ {t} : /\ stage'[u] = stage[u] /\ op'[u] = op[u]
                                    /\ args'[u] = args[u] /\ hosts'[u] = hosts[u],
           CallOK(t)'
    PROVE  PthreadInv'
<1> DEFINE h == payload[o]
<1>0. Shapes /\ Owners /\ h \in Hosts /\ Null \notin Hosts /\ h # Null
  BY PthreadAssumption DEF PthreadInv
<1>1. /\ held'[h] = [held[h] EXCEPT ![t] = x]
      /\ claims'[o] = [claims[o] EXCEPT ![t] = x]
      /\ \A g \in Hosts \ {h} : held'[g] = held[g] /\ (excl'[g] <=> excl[g])
      /\ \A p \in Objects \ {o} : claims'[p] = claims[p] /\ (exclusive'[p] <=> exclusive[p])
      /\ (excl'[h] <=> b) /\ (exclusive'[o] <=> b)
      /\ \A u \in Threads : claims'[o][u] = IF u = t THEN x ELSE claims[o][u]
  BY <1>0 DEF Shapes
<1>2. Shapes'
  <2>1. held' \in [Hosts -> [Threads -> Nat]] /\ claims' \in [Objects -> [Threads -> Nat]]
    BY <1>0 DEF Shapes
  <2>2. excl' \in [Hosts -> BOOLEAN] /\ exclusive' \in [Objects -> BOOLEAN]
    BY <1>0 DEF Shapes
  <2> QED
    BY <1>0, <2>1, <2>2 DEF Shapes
<1>3. Owners'
  BY <1>0 DEF Owners
<1> HIDE DEF h
<1>4. ASSUME NEW p \in Objects PROVE Attached(p)' /\ OneHolder(p)'
  <2>1. Attached(p) /\ OneHolder(p)
    BY DEF PthreadInv
  <2>2. CASE p = o
    <3>1. held[h] = claims[o] /\ (o \in Mutexes => hostKind[h] = declared[o])
      BY <1>0, <2>1, <2>2 DEF Attached, h
    <3>2. held'[h] = claims'[o]
      BY <1>1, <3>1
    <3>3. Attached(o)'
      BY <1>0, <1>1, <3>1, <3>2 DEF Attached, h
    <3>4. OneHolder(o)'
      <4>1. b => \A u \in Threads : claims'[o][u] > 0 => u = t
        BY <1>1
      <4>2. b => claims'[o][t] > 0
        BY <1>1
      <4> QED
        BY <1>1, <4>1, <4>2 DEF OneHolder
    <3> QED
      BY <2>2, <3>3, <3>4
  <2>3. CASE p # o
    <3>1. payload[p] # Null => payload[p] # h /\ payload[p] \in Hosts
      BY <1>0, <2>3 DEF Owners, Shapes, h
    <3>2. claims'[p] = claims[p] /\ (exclusive'[p] <=> exclusive[p]) /\ payload'[p] = payload[p]
      BY <1>1, <2>3
    <3>3. payload[p] # Null =>
             /\ held'[payload[p]] = held[payload[p]] /\ (excl'[payload[p]] <=> excl[payload[p]])
             /\ hostKind'[payload[p]] = hostKind[payload[p]]
      BY <1>1, <3>1
    <3>4. Attached(p)'
      <4>1. CASE payload[p] = Null
        BY <2>1, <3>2, <4>1 DEF Attached
      <4>2. CASE payload[p] # Null
        BY <2>1, <3>2, <3>3, <4>2 DEF Attached
      <4> QED
        BY <4>1, <4>2
    <3> QED
      BY <2>1, <3>2, <3>4 DEF OneHolder
  <2> QED
    BY <2>2, <2>3
<1>5. ASSUME NEW u \in Threads PROVE Fresh(u)' /\ CallOK(u)'
  <2>1. Fresh(u) /\ CallOK(u)
    BY DEF PthreadInv
  <2>2. CASE u = t
    BY <2>2 DEF Fresh
  <2>3. CASE u # t
    <3>1. mine[u] # Null => mine[u] # h /\ mine[u] \in Hosts
      BY <1>0 DEF Owners, Shapes, h
    <3>2. Fresh(u)'
      BY <1>1, <2>1, <2>3, <3>1, FreshStays
    <3>3. stage[u] # "idle" =>
             \A k \in 1 .. Len(args[u]) : /\ args[u][k] \in usable
                                          /\ claims'[args[u][k]][u] = claims[args[u][k]][u]
      <4>1. ASSUME NEW q \in Objects PROVE claims'[q][u] = claims[q][u]
        BY <1>1, <2>3
      <4> QED
        BY <1>0, <2>1, <4>1 DEF CallOK, Shapes
    <3>4. CallOK(u)'
      BY <1>0, <2>1, <2>3, <3>3, CallStays
    <3> QED
      BY <3>2, <3>4
  <2> QED
    BY <2>2, <2>3
<1> QED
  BY <1>2, <1>3, <1>4, <1>5 DEF PthreadInv

\* A call that returns leaves nothing behind.
LEMMA ReturnsIdle ==
    ASSUME Shapes, NEW t \in Threads, mine[t] = Null, Returns(t)
    PROVE  /\ stage' \in [Threads -> Stages] /\ op' \in [Threads -> Ops \cup {"none"}]
           /\ args' \in [Threads -> Seq(Objects)] /\ hosts' \in [Threads -> Seq(Hosts)]
           /\ \A u \in Threads \ {t} : /\ stage'[u] = stage[u] /\ op'[u] = op[u]
                                       /\ args'[u] = args[u] /\ hosts'[u] = hosts[u]
           /\ mine' = mine /\ CallOK(t)'
<1>1. <<>> \in Seq(Objects) /\ <<>> \in Seq(Hosts)
  OBVIOUS
<1>2. stage' \in [Threads -> Stages] /\ op' \in [Threads -> Ops \cup {"none"}]
  BY DEF Shapes, Returns, Stages
<1>3. args' \in [Threads -> Seq(Objects)] /\ hosts' \in [Threads -> Seq(Hosts)]
  BY <1>1 DEF Shapes, Returns
<1>4. stage'[t] = "idle" /\ hosts'[t] = <<>> /\ mine' = mine
  BY DEF Shapes, Returns
<1>5. CallOK(t)'
  BY <1>4 DEF CallOK
<1> QED
  BY <1>2, <1>3, <1>4, <1>5 DEF Shapes, Returns

\* What Take and Drop change, in the form of LockChanges.
LEMMA TakeChanges ==
    ASSUME PthreadInv, NEW t \in Threads, NEW o \in Objects, payload[o] \in Hosts,
           NEW shared \in BOOLEAN, ~shared => Others(t, payload[o]) = {},
           Take(t, o, payload[o], shared)
    PROVE  \E x \in Nat, b \in BOOLEAN :
              /\ held' = [held EXCEPT ![payload[o]][t] = x]
              /\ excl' = [excl EXCEPT ![payload[o]] = b]
              /\ claims' = [claims EXCEPT ![o][t] = x]
              /\ exclusive' = [exclusive EXCEPT ![o] = b]
              /\ b => x > 0 /\ \A u \in Threads \ {t} : claims[o][u] = 0
<1> DEFINE h == payload[o]
           x == claims[o][t] + 1
           b == ~shared
<1>1. Shapes /\ Attached(o) /\ h # Null
  BY PthreadAssumption DEF PthreadInv
<1>2. held[h] = claims[o] /\ claims[o][t] \in Nat /\ \A u \in Threads : claims[o][u] \in Nat
  BY <1>1 DEF Attached, Shapes
<1>3. /\ held' = [held EXCEPT ![h][t] = held[h][t] + 1] /\ excl' = [excl EXCEPT ![h] = ~shared]
      /\ claims' = [claims EXCEPT ![o][t] = claims[o][t] + 1]
      /\ exclusive' = [exclusive EXCEPT ![o] = ~shared]
  BY <1>1 DEF Take, Shapes
<1>4. b => Others(t, h) = {}
  OBVIOUS
<1>5. b => \A u \in Threads \ {t} : claims[o][u] = 0
  <2>1. ASSUME b, NEW u \in Threads \ {t} PROVE claims[o][u] = 0
    <3>1. ~(held[h][u] > 0)
      BY <1>4, <2>1 DEF Others
    <3> QED
      BY <1>2, <3>1
  <2> QED
    BY <2>1
<1>6. x \in Nat /\ x > 0 /\ b \in BOOLEAN
  BY <1>2
<1>7. held' = [held EXCEPT ![h][t] = x]
  BY <1>2, <1>3
<1> QED
  BY <1>3, <1>5, <1>6, <1>7

LEMMA DropChanges ==
    ASSUME PthreadInv, NEW t \in Threads, NEW o \in Objects, payload[o] \in Hosts,
           claims[o][t] > 0, Drop(t, o, payload[o])
    PROVE  \E x \in Nat, b \in BOOLEAN :
              /\ held' = [held EXCEPT ![payload[o]][t] = x]
              /\ excl' = [excl EXCEPT ![payload[o]] = b]
              /\ claims' = [claims EXCEPT ![o][t] = x]
              /\ exclusive' = [exclusive EXCEPT ![o] = b]
              /\ b => x > 0 /\ \A u \in Threads \ {t} : claims[o][u] = 0
<1> DEFINE h == payload[o]
           x == claims[o][t] - 1
           b == exclusive[o] /\ claims[o][t] > 1
<1>1. Shapes /\ Attached(o) /\ OneHolder(o) /\ h # Null
  BY PthreadAssumption DEF PthreadInv
<1>2. /\ held[h] = claims[o] /\ \A u \in Threads : claims[o][u] \in Nat
      /\ excl[h] <=> exclusive[o]
  BY <1>1 DEF Attached, Shapes
<1>3. /\ held' = [held EXCEPT ![h][t] = held[h][t] - 1]
      /\ excl' = [excl EXCEPT ![h] = excl[h] /\ held[h][t] > 1]
      /\ claims' = [claims EXCEPT ![o][t] = claims[o][t] - 1]
      /\ exclusive' = [exclusive EXCEPT ![o] = exclusive[o] /\ claims[o][t] > 1]
  BY <1>1 DEF Drop, Shapes
<1>4. held' = [held EXCEPT ![h][t] = x]
  BY <1>2, <1>3
<1>5. excl' = [excl EXCEPT ![h] = b]
  <2>1. (excl[h] /\ held[h][t] > 1) = b
    BY <1>1, <1>2 DEF Shapes
  <2> QED
    BY <1>3, <2>1
<1>6. x \in Nat /\ b \in BOOLEAN /\ (b => x > 0)
  BY <1>2
<1>7. b => \A u \in Threads \ {t} : claims[o][u] = 0
  <2>1. ASSUME b, NEW u \in Threads \ {t} PROVE claims[o][u] = 0
    <3>1. ~(claims[o][u] > 0)
      BY <1>1, <2>1 DEF OneHolder
    <3> QED
      BY <1>2, <3>1
  <2> QED
    BY <2>1
<1> QED
  BY <1>3, <1>4, <1>5, <1>6, <1>7

LEMMA HostLocksKeeps == ASSUME PthreadInv, NEW t \in Threads, HostLocks(t) PROVE PthreadInv'
<1> DEFINE o == args[t][1]
           h == hosts[t][1]
<1>0. /\ stage[t] = "host" /\ Returns(t) /\ Shapes
      /\ UNCHANGED <<live, hostKind, payload, declared, usable>>
  BY DEF HostLocks, PthreadInv, objectVars
<1>1. mine[t] = Null /\ o \in Objects /\ h = payload[o] /\ payload[o] \in Hosts
  BY <1>0, AtHost
<1>2. /\ stage' \in [Threads -> Stages] /\ op' \in [Threads -> Ops \cup {"none"}]
      /\ args' \in [Threads -> Seq(Objects)] /\ hosts' \in [Threads -> Seq(Hosts)]
      /\ \A u \in Threads \ {t} : /\ stage'[u] = stage[u] /\ op'[u] = op[u]
                                  /\ args'[u] = args[u] /\ hosts'[u] = hosts[u]
      /\ mine' = mine /\ CallOK(t)'
  BY <1>0, <1>1, ReturnsIdle
<1>3. CASE Grants(t, h, op[t]) /\ Take(t, o, h, op[t] = "rdlock")
  <2>1. PICK x \in Nat, b \in BOOLEAN :
              /\ held' = [held EXCEPT ![payload[o]][t] = x]
              /\ excl' = [excl EXCEPT ![payload[o]] = b]
              /\ claims' = [claims EXCEPT ![o][t] = x]
              /\ exclusive' = [exclusive EXCEPT ![o] = b]
              /\ b => x > 0 /\ \A u \in Threads \ {t} : claims[o][u] = 0
    <3>1. PICK shared \in BOOLEAN : shared = (op[t] = "rdlock")
      OBVIOUS
    <3>2. ~shared => Others(t, payload[o]) = {}
      BY <1>1, <1>3, <3>1 DEF Grants
    <3>3. Take(t, o, payload[o], shared)
      BY <1>1, <1>3, <3>1
    <3>4. PICK p \in Objects : p = o
      BY <1>1
    <3>5. /\ payload[p] \in Hosts
          /\ ~shared => Others(t, payload[p]) = {}
          /\ Take(t, p, payload[p], shared)
      BY <1>1, <3>2, <3>3, <3>4
    <3>6. \E x \in Nat, b \in BOOLEAN :
              /\ held' = [held EXCEPT ![payload[p]][t] = x]
              /\ excl' = [excl EXCEPT ![payload[p]] = b]
              /\ claims' = [claims EXCEPT ![p][t] = x]
              /\ exclusive' = [exclusive EXCEPT ![p] = b]
              /\ b => x > 0 /\ \A u \in Threads \ {t} : claims[p][u] = 0
      <4>1. CASE shared
        BY <3>5, <4>1, TakeChanges
      <4>2. CASE ~shared
        <5>1. Others(t, payload[p]) = {} /\ Take(t, p, payload[p], shared)
          BY <3>5, <4>2
        <5> QED
          BY <3>5, <5>1, TakeChanges
      <4> QED
        BY <4>1, <4>2
    <3> QED
      BY <3>4, <3>6
  <2> HIDE DEF o, h
  <2> QED
    BY <1>0, <1>1, <1>2, <2>1, LockChanges
<1>4. CASE UNCHANGED <<held, excl, claims, exclusive>>
  <2>1. Shapes' /\ Owners'
    BY <1>0, <1>2, <1>4 DEF PthreadInv, Shapes, Owners
  <2>2. \A p \in Objects : Attached(p)' /\ OneHolder(p)'
    BY <1>0, <1>4 DEF PthreadInv, Attached, OneHolder
  <2>3. ASSUME NEW u \in Threads PROVE Fresh(u)' /\ CallOK(u)'
    <3>1. CASE u = t
      BY <1>1, <1>2, <3>1 DEF Fresh
    <3>2. CASE u # t
      <4>1. Fresh(u) /\ CallOK(u)
        BY DEF PthreadInv
      <4>2. stage[u] # "idle" => \A k \in 1 .. Len(args[u]) : args[u][k] \in usable
        BY <4>1 DEF CallOK
      <4> QED
        BY <1>0, <1>2, <1>4, <3>2, <4>1, <4>2, FreshStays, CallStays
    <3> QED
      BY <3>1, <3>2
  <2> QED
    BY <2>1, <2>2, <2>3 DEF PthreadInv
<1> QED
  BY <1>3, <1>4 DEF HostLocks, claimVars

LEMMA HostUnlocksKeeps ==
    ASSUME PthreadInv, NEW t \in Threads, HostUnlocks(t) PROVE PthreadInv'
<1> DEFINE o == args[t][1]
<1>0. /\ stage[t] = "host" /\ op[t] = "unlock" /\ Returns(t) /\ Shapes
      /\ Drop(t, o, hosts[t][1])
      /\ UNCHANGED <<live, hostKind, payload, declared, usable>>
  BY DEF HostUnlocks, PthreadInv, objectVars
<1>1. mine[t] = Null /\ o \in Objects /\ hosts[t][1] = payload[o] /\ payload[o] \in Hosts
  BY <1>0, AtHost
<1>2. /\ stage' \in [Threads -> Stages] /\ op' \in [Threads -> Ops \cup {"none"}]
      /\ args' \in [Threads -> Seq(Objects)] /\ hosts' \in [Threads -> Seq(Hosts)]
      /\ \A u \in Threads \ {t} : /\ stage'[u] = stage[u] /\ op'[u] = op[u]
                                  /\ args'[u] = args[u] /\ hosts'[u] = hosts[u]
      /\ mine' = mine /\ CallOK(t)'
  BY <1>0, <1>1, ReturnsIdle
<1>3. claims[o][t] > 0
  BY <1>0 DEF PthreadInv, CallOK
<1> HIDE DEF o
<1>4. PICK x \in Nat, b \in BOOLEAN :
              /\ held' = [held EXCEPT ![payload[o]][t] = x]
              /\ excl' = [excl EXCEPT ![payload[o]] = b]
              /\ claims' = [claims EXCEPT ![o][t] = x]
              /\ exclusive' = [exclusive EXCEPT ![o] = b]
              /\ b => x > 0 /\ \A u \in Threads \ {t} : claims[o][u] = 0
  BY <1>0, <1>1, <1>3, DropChanges
<1> QED
  BY <1>0, <1>1, <1>2, <1>4, LockChanges

LEMMA HostWaitsKeeps ==
    ASSUME PthreadInv, NEW t \in Threads, HostWaits(t) PROVE PthreadInv'
<1> DEFINE o == args[t][2]
<1>0. /\ stage[t] = "host" /\ op[t] \in Waits /\ Shapes /\ CallOK(t)
      /\ Drop(t, o, hosts[t][2]) /\ stage' = [stage EXCEPT ![t] = "waiting"]
      /\ UNCHANGED <<op, args, hosts, mine, live, hostKind, payload, declared, usable>>
  BY DEF HostWaits, PthreadInv, objectVars, Waits
<1>1. /\ mine[t] = Null /\ o \in Objects /\ hosts[t][2] = payload[o] /\ payload[o] \in Hosts
      /\ Len(hosts[t]) = Len(args[t])
  BY <1>0, AtHost
<1>2. claims[o][t] > 0
  BY <1>0 DEF CallOK
<1>3. /\ stage' \in [Threads -> Stages] /\ stage'[t] = "waiting"
      /\ \A u \in Threads \ {t} : stage'[u] = stage[u]
  BY <1>0 DEF Shapes, Stages
<1>4. CallOK(t)'
  <2>1. op[t] # "unlock"
    BY <1>0 DEF Waits
  <2>2. ~(Len(hosts[t]) < Len(args[t]))
    BY <1>0 DEF CallOK, Converts
  <2> QED
    BY <1>0, <1>1, <1>3, <2>1, <2>2 DEF CallOK, Converts
<1> HIDE DEF o
<1>5. PICK x \in Nat, b \in BOOLEAN :
              /\ held' = [held EXCEPT ![payload[o]][t] = x]
              /\ excl' = [excl EXCEPT ![payload[o]] = b]
              /\ claims' = [claims EXCEPT ![o][t] = x]
              /\ exclusive' = [exclusive EXCEPT ![o] = b]
              /\ b => x > 0 /\ \A u \in Threads \ {t} : claims[o][u] = 0
  BY <1>0, <1>1, <1>2, DropChanges
<1>6. /\ op' \in [Threads -> Ops \cup {"none"}]
      /\ args' \in [Threads -> Seq(Objects)] /\ hosts' \in [Threads -> Seq(Hosts)]
  BY <1>0 DEF Shapes
<1> QED
  BY <1>0, <1>1, <1>3, <1>4, <1>5, <1>6, LockChanges

LEMMA WaitRelocksKeeps ==
    ASSUME PthreadInv, NEW t \in Threads, WaitRelocks(t) PROVE PthreadInv'
<1> DEFINE o == args[t][2]
<1>0. /\ stage[t] = "relock" /\ Returns(t) /\ Shapes
      /\ Grants(t, hosts[t][2], "lock") /\ Take(t, o, hosts[t][2], FALSE)
      /\ UNCHANGED <<live, hostKind, payload, declared, usable>>
  BY DEF WaitRelocks, PthreadInv, objectVars
<1>1. op[t] \in Waits
  BY <1>0 DEF PthreadInv, CallOK
<1>2. mine[t] = Null /\ o \in Objects /\ hosts[t][2] = payload[o] /\ payload[o] \in Hosts
  BY <1>0, <1>1, AtHost
<1>3. /\ stage' \in [Threads -> Stages] /\ op' \in [Threads -> Ops \cup {"none"}]
      /\ args' \in [Threads -> Seq(Objects)] /\ hosts' \in [Threads -> Seq(Hosts)]
      /\ \A u \in Threads \ {t} : /\ stage'[u] = stage[u] /\ op'[u] = op[u]
                                  /\ args'[u] = args[u] /\ hosts'[u] = hosts[u]
      /\ mine' = mine /\ CallOK(t)'
  BY <1>0, <1>2, ReturnsIdle
<1> HIDE DEF o
<1>4. PICK x \in Nat, b \in BOOLEAN :
              /\ held' = [held EXCEPT ![payload[o]][t] = x]
              /\ excl' = [excl EXCEPT ![payload[o]] = b]
              /\ claims' = [claims EXCEPT ![o][t] = x]
              /\ exclusive' = [exclusive EXCEPT ![o] = b]
              /\ b => x > 0 /\ \A u \in Threads \ {t} : claims[o][u] = 0
  <2>1. PICK shared \in BOOLEAN : shared = FALSE
    OBVIOUS
  <2>2. ~shared => Others(t, payload[o]) = {}
    BY <1>0, <1>2 DEF Grants
  <2>3. Take(t, o, payload[o], shared)
    BY <1>0, <1>2, <2>1
  <2> QED
    BY <1>2, <2>2, <2>3, TakeChanges
<1> QED
  BY <1>0, <1>2, <1>3, <1>4, LockChanges

\* Threads that stop waiting go on to lock again; who signals may return.
LEMMA WakingKeeps ==
    ASSUME PthreadInv, NEW woken \in SUBSET Threads, NEW done \in SUBSET Threads,
           \A u \in woken : stage[u] = "waiting", \A u \in done : stage[u] = "host",
           UNCHANGED <<payload, declared, usable, live, hostKind, held, excl, mine,
                       claims, exclusive>>,
           stage' = [u \in Threads |-> IF u \in done THEN "idle"
                                       ELSE IF u \in woken THEN "relock" ELSE stage[u]],
           op' \in [Threads -> Ops \cup {"none"}], args' \in [Threads -> Seq(Objects)],
           hosts' \in [Threads -> Seq(Hosts)],
           \A u \in Threads \ done : /\ op'[u] = op[u] /\ args'[u] = args[u]
                                     /\ hosts'[u] = hosts[u],
           \A u \in done : hosts'[u] = <<>>
    PROVE  PthreadInv'
<1>0. Shapes
  BY DEF PthreadInv
<1>1. Shapes' /\ Owners'
  <2>1. stage' \in [Threads -> Stages]
    BY <1>0 DEF Shapes, Stages
  <2> QED
    BY <2>1 DEF PthreadInv, Shapes, Owners
<1>2. \A p \in Objects : Attached(p)' /\ OneHolder(p)'
  BY DEF PthreadInv, Attached, OneHolder
<1>3. ASSUME NEW u \in Threads PROVE Fresh(u)' /\ CallOK(u)'
  <2>1. Fresh(u) /\ CallOK(u)
    BY DEF PthreadInv
  <2>2. CASE u \in done
    <3>1. mine[u] = Null
      BY <2>2, AtHost
    <3> QED
      BY <2>2, <3>1 DEF Fresh, CallOK
  <2>3. CASE u \in woken \ done
    <3>1. mine[u] = Null /\ op[u] \in Waits /\ stage[u] = "waiting" /\ stage'[u] = "relock"
      BY <2>1, <2>3, AtHost DEF CallOK
    <3>2. op[u] # "unlock"
      BY <3>1 DEF Waits
    <3> QED
      BY <2>1, <2>3, <3>1, <3>2 DEF Fresh, CallOK, Converts
  <2>4. CASE u \notin woken \cup done
    <3>1. /\ stage'[u] = stage[u] /\ op'[u] = op[u] /\ args'[u] = args[u]
          /\ hosts'[u] = hosts[u] /\ mine'[u] = mine[u]
      BY <2>4
    <3>2. stage[u] # "idle" => \A k \in 1 .. Len(args[u]) : args[u][k] \in usable
      BY <2>1 DEF CallOK
    <3> QED
      BY <1>0, <2>1, <3>1, <3>2, FreshStays, CallStays
  <2> QED
    BY <2>2, <2>3, <2>4
<1> QED
  BY <1>1, <1>2, <1>3 DEF PthreadInv

LEMMA HostSignalsKeeps ==
    ASSUME PthreadInv, NEW t \in Threads, HostSignals(t) PROVE PthreadInv'
<1>0. /\ stage[t] = "host" /\ Shapes
      /\ op' = [op EXCEPT ![t] = "none"] /\ hosts' = [hosts EXCEPT ![t] = <<>>]
      /\ args' = [args EXCEPT ![t] = <<>>]
      /\ UNCHANGED <<payload, declared, usable, live, hostKind, held, excl, mine,
                     claims, exclusive>>
  BY DEF HostSignals, PthreadInv, objectVars, hostVars, claimVars
<1>1. PICK woken \in SUBSET Waiters(hosts[t][1]) :
         stage' = [u \in Threads |-> IF u = t THEN "idle"
                                     ELSE IF u \in woken THEN "relock" ELSE stage[u]]
  BY DEF HostSignals
<1>2. woken \subseteq Threads /\ \A u \in woken : stage[u] = "waiting"
  BY <1>1 DEF Waiters
<1>3. stage' = [u \in Threads |-> IF u \in {t} THEN "idle"
                                  ELSE IF u \in woken THEN "relock" ELSE stage[u]]
  BY <1>1
<1>4. <<>> \in Seq(Objects) /\ <<>> \in Seq(Hosts)
  OBVIOUS
<1>5. /\ op' \in [Threads -> Ops \cup {"none"}]
      /\ args' \in [Threads -> Seq(Objects)] /\ hosts' \in [Threads -> Seq(Hosts)]
      /\ \A u \in Threads \ {t} : op'[u] = op[u] /\ args'[u] = args[u] /\ hosts'[u] = hosts[u]
      /\ \A u \in {t} : hosts'[u] = <<>>
  BY <1>0, <1>4 DEF Shapes
<1>6. PICK done \in SUBSET Threads : done = {t}
  OBVIOUS
<1>7. /\ \A u \in done : stage[u] = "host" /\ hosts'[u] = <<>>
      /\ stage' = [u \in Threads |-> IF u \in done THEN "idle"
                                     ELSE IF u \in woken THEN "relock" ELSE stage[u]]
      /\ \A u \in Threads \ done : op'[u] = op[u] /\ args'[u] = args[u] /\ hosts'[u] = hosts[u]
  BY <1>0, <1>3, <1>5, <1>6
<1>8. woken \in SUBSET Threads
  BY <1>2
<1> QED
  BY <1>0, <1>2, <1>5, <1>7, <1>8, WakingKeeps

LEMMA TimesOutKeeps ==
    ASSUME PthreadInv, NEW t \in Threads, TimesOut(t) PROVE PthreadInv'
<1>0. /\ stage[t] = "waiting" /\ Shapes /\ stage' = [stage EXCEPT ![t] = "relock"]
      /\ UNCHANGED <<op, args, hosts, payload, declared, usable, live, hostKind, held, excl,
                     mine, claims, exclusive>>
  BY DEF TimesOut, PthreadInv, objectVars, hostVars, claimVars
<1>1. stage' = [u \in Threads |-> IF u \in {} THEN "idle"
                                  ELSE IF u \in {t} THEN "relock" ELSE stage[u]]
  BY <1>0 DEF Shapes
<1>2. /\ op' \in [Threads -> Ops \cup {"none"}]
      /\ args' \in [Threads -> Seq(Objects)] /\ hosts' \in [Threads -> Seq(Hosts)]
  BY <1>0 DEF Shapes
<1>3. {t} \in SUBSET Threads /\ {} \in SUBSET Threads /\ \A u \in {t} : stage[u] = "waiting"
  BY <1>0
<1> QED
  BY <1>0, <1>1, <1>2, <1>3, WakingKeeps

-----------------------------------------------------------------------------
(* Objects are initialised and destroyed. *)

LEMMA InitObjectKeeps ==
    ASSUME PthreadInv, NEW o \in Objects, InitObject(o) PROVE PthreadInv'
<1> DEFINE h == FreeHost
<1>0. /\ Shapes /\ Owners /\ Null \notin Hosts /\ payload[o] = Null /\ o \notin usable
      /\ UNCHANGED <<stage, op, args, hosts, mine, claims, exclusive>>
      /\ usable' = usable \cup {o} /\ payload' = [payload EXCEPT ![o] = h]
  BY PthreadAssumption DEF PthreadInv, Shapes, InitObject, callVars, claimVars
<1>1. h \in Hosts /\ h \notin live
  BY <1>0, FreeHostExists
<1>2. /\ declared' \in [Mutexes -> Kinds]
      /\ \A p \in Mutexes \ {o} : declared'[p] = declared[p]
  <2>1. PICK kind \in InitKinds :
           declared' = IF o \in Mutexes THEN [declared EXCEPT ![o] = kind] ELSE declared
    BY DEF InitObject
  <2>2. kind \in Kinds
    BY PthreadAssumption
  <2> QED
    BY <1>0, <2>1, <2>2 DEF Shapes
<1>3. /\ live' = live \cup {h} /\ held' = [held EXCEPT ![h] = Nobody]
      /\ hostKind' = [hostKind EXCEPT ![h] = IF o \in Mutexes THEN declared'[o] ELSE "normal"]
      /\ excl' = [excl EXCEPT ![h] = FALSE]
  BY DEF InitObject, NewHost
<1> HIDE DEF h
<1>4. payload'[o] = h /\ \A p \in Objects \ {o} : payload'[p] = payload[p]
  BY <1>0 DEF Shapes
<1>5. /\ held'[h] = Nobody /\ ~excl'[h] /\ (o \in Mutexes => hostKind'[h] = declared'[o])
      /\ \A g \in Hosts \ {h} : /\ held'[g] = held[g] /\ (excl'[g] <=> excl[g])
                                /\ hostKind'[g] = hostKind[g]
  BY <1>0, <1>1, <1>3 DEF Shapes
<1>6. Shapes'
  <2>1. live' \subseteq Hosts /\ held' \in [Hosts -> [Threads -> Nat]]
    BY <1>0, <1>1, <1>3 DEF Shapes, Nobody
  <2>2. hostKind' \in [Hosts -> Kinds]
    <3>1. (IF o \in Mutexes THEN declared'[o] ELSE "normal") \in Kinds
      BY <1>2 DEF Kinds
    <3> QED
      BY <1>0, <1>3, <3>1 DEF Shapes
  <2>3. excl' \in [Hosts -> BOOLEAN]
    BY <1>0, <1>1, <1>3 DEF Shapes
  <2>4. /\ payload' \in [Objects -> Hosts \cup {Null}] /\ usable' \subseteq Objects
        /\ \A p \in Objects \ usable' : payload'[p] = Null
    BY <1>0, <1>1, <1>4 DEF Shapes
  <2> QED
    BY <1>0, <1>2, <2>1, <2>2, <2>3, <2>4 DEF Shapes
<1>7. Owners'
  <2>1. \A p \in Objects : payload[p] # h
    BY <1>0, <1>1 DEF Owners
  <2>2. \A u \in Threads : mine[u] # h
    BY <1>0, <1>1 DEF Owners
  <2>3. \A g \in live' : \/ \E p \in Objects : payload'[p] = g
                         \/ \E u \in Threads : mine'[u] = g
    <3>1. ASSUME NEW g \in live, NEW p \in Objects, payload[p] = g PROVE payload'[p] = g
      BY <1>0, <1>4, <3>1 DEF Shapes
    <3> QED
      BY <1>0, <1>3, <1>4, <3>1 DEF Owners
  <2>4. \A p, q \in Objects : payload'[p] # Null /\ payload'[p] = payload'[q] => p = q
    BY <1>0, <1>4, <2>1 DEF Owners
  <2> QED
    BY <1>0, <1>3, <1>4, <2>1, <2>2, <2>3, <2>4 DEF Owners
<1>8. ASSUME NEW p \in Objects PROVE Attached(p)' /\ OneHolder(p)'
  <2>1. Attached(p) /\ OneHolder(p)
    BY DEF PthreadInv
  <2>2. CASE p = o
    <3>1. claims[o] = Nobody /\ ~exclusive[o]
      BY <1>0, <2>1, <2>2 DEF Attached
    <3>2. Attached(o)'
      BY <1>0, <1>1, <1>4, <1>5, <3>1 DEF Attached
    <3> QED
      BY <1>0, <2>1, <2>2, <3>2 DEF OneHolder
  <2>3. CASE p # o
    <3>1. payload[p] # Null => payload[p] \in Hosts \ {h}
      BY <1>0, <1>1 DEF Owners, Shapes
    <3>2. payload'[p] = payload[p] /\ (p \in Mutexes => declared'[p] = declared[p])
      BY <1>2, <1>4, <2>3
    <3>3. Attached(p)'
      BY <1>0, <1>5, <2>1, <3>1, <3>2 DEF Attached
    <3> QED
      BY <1>0, <2>1, <3>3 DEF OneHolder
  <2> QED
    BY <2>2, <2>3
<1>9. ASSUME NEW u \in Threads PROVE Fresh(u)' /\ CallOK(u)'
  <2>1. Fresh(u) /\ CallOK(u)
    BY DEF PthreadInv
  <2>2. stage[u] # "idle" =>
           \A k \in 1 .. Len(args[u]) :
              /\ args[u][k] \in usable' /\ args[u][k] \in Objects \ {o}
              /\ payload'[args[u][k]] = payload[args[u][k]]
    BY <1>0, <1>4, <2>1 DEF CallOK, Shapes
  <2>3. CallOK(u)'
    BY <1>0, <2>1, <2>2, CallStays
  <2>4. Fresh(u)'
    <3>1. CASE mine[u] = Null
      BY <1>0, <3>1 DEF Fresh
    <3>2. CASE mine[u] # Null
      <4>1. mine[u] \in Hosts \ {h}
        BY <1>0, <1>1, <3>2 DEF Owners, Shapes
      <4>2. stage[u] \in Converts
        BY <2>1, <3>2 DEF CallOK, Converts
      <4>3. Converting(u) \in usable
        BY <4>2, ConvertingIs
      <4>4. Converting(u) \in Mutexes => declared'[Converting(u)] = declared[Converting(u)]
        BY <1>0, <1>2, <4>3
      <4> QED
        BY <1>0, <1>5, <2>1, <4>1, <4>4, FreshStays
    <3> QED
      BY <3>1, <3>2
  <2> QED
    BY <2>3, <2>4
<1> QED
  BY <1>6, <1>7, <1>8, <1>9 DEF PthreadInv

LEMMA DestroyObjectKeeps ==
    ASSUME PthreadInv, NEW o \in Objects, DestroyObject(o) PROVE PthreadInv'
<1>0. /\ Shapes /\ Owners /\ Null \notin Hosts /\ ~InUse(o)
      /\ UNCHANGED <<declared, hostKind, held, excl, stage, op, args, hosts, mine, claims,
                     exclusive>>
      /\ usable' = usable \ {o} /\ payload' = [payload EXCEPT ![o] = Null]
      /\ live' = live \ {payload[o]}
  BY PthreadAssumption DEF PthreadInv, DestroyObject, callVars, claimVars
<1>1. payload'[o] = Null /\ \A p \in Objects \ {o} : payload'[p] = payload[p]
  BY <1>0 DEF Shapes
<1>2. claims[o] = Nobody /\ ~exclusive[o]
  <2>1. \A t \in Threads : claims[o][t] \in Nat /\ ~(claims[o][t] > 0)
    BY <1>0 DEF InUse, Shapes
  <2>2. \A t \in Threads : claims[o][t] = 0
    BY <2>1
  <2>3. claims[o] = Nobody
    BY <1>0, <2>2 DEF Nobody, Shapes
  <2>4. OneHolder(o)
    BY DEF PthreadInv
  <2> QED
    BY <2>1, <2>3, <2>4 DEF OneHolder
<1>3. Shapes'
  <2>1. /\ payload' \in [Objects -> Hosts \cup {Null}] /\ usable' \subseteq Objects
        /\ \A p \in Objects \ usable' : payload'[p] = Null
    BY <1>0, <1>1 DEF Shapes
  <2> QED
    BY <1>0, <2>1 DEF Shapes
<1>4. Owners'
  <2>1. \A p \in Objects : payload'[p] # Null => p # o /\ payload[p] # payload[o]
    BY <1>0, <1>1 DEF Owners
  <2>2. \A t \in Threads : mine[t] # Null => mine[t] # payload[o]
    BY <1>0 DEF Owners
  <2>3. ASSUME NEW g \in live'
        PROVE  (\E p \in Objects : payload'[p] = g) \/ (\E t \in Threads : mine'[t] = g)
    <3>1. g \in live /\ g # payload[o]
      BY <1>0
    <3>2. ASSUME NEW p \in Objects, payload[p] = g PROVE payload'[p] = g
      BY <1>1, <3>1, <3>2
    <3> QED
      BY <1>0, <3>1, <3>2 DEF Owners
  <2> QED
    BY <1>0, <1>1, <2>1, <2>2, <2>3 DEF Owners
<1>5. ASSUME NEW p \in Objects PROVE Attached(p)' /\ OneHolder(p)'
  <2>1. Attached(p) /\ OneHolder(p)
    BY DEF PthreadInv
  <2>2. CASE p = o
    BY <1>0, <1>1, <1>2, <2>1, <2>2 DEF Attached, OneHolder
  <2>3. CASE p # o
    BY <1>0, <1>1, <2>1, <2>3 DEF Attached, OneHolder
  <2> QED
    BY <2>2, <2>3
<1>6. ASSUME NEW u \in Threads PROVE Fresh(u)' /\ CallOK(u)'
  <2>1. Fresh(u) /\ CallOK(u)
    BY DEF PthreadInv
  <2>2. stage[u] # "idle" =>
           \A k \in 1 .. Len(args[u]) :
              /\ args[u][k] \in usable' /\ payload'[args[u][k]] = payload[args[u][k]]
    <3>1. SUFFICES ASSUME stage[u] # "idle", NEW k \in 1 .. Len(args[u])
                   PROVE  /\ args[u][k] \in usable'
                          /\ payload'[args[u][k]] = payload[args[u][k]]
      OBVIOUS
    <3>2. args[u][k] \in usable /\ args[u][k] \in Objects
      BY <1>0, <2>1, <3>1 DEF CallOK, Shapes
    <3>3. k \in DOMAIN args[u]
      BY <1>0, LenProperties DEF Shapes
    <3>4. args[u][k] # o
      BY <1>0, <3>1, <3>3 DEF InUse
    <3> QED
      BY <1>0, <1>1, <3>2, <3>4
  <2>3. CallOK(u)'
    BY <1>0, <2>1, <2>2, CallStays
  <2>4. Fresh(u)'
    BY <1>0, <2>1, FreshStays
  <2> QED
    BY <2>3, <2>4
<1> QED
  BY <1>3, <1>4, <1>5, <1>6 DEF PthreadInv

-----------------------------------------------------------------------------
(* The theorems. *)

LEMMA PthreadStart == PthreadInit => PthreadInv
<1> SUFFICES ASSUME PthreadInit PROVE PthreadInv
  OBVIOUS
<1>1. Shapes
  <2>1. <<>> \in Seq(Objects) /\ <<>> \in Seq(Hosts)
    OBVIOUS
  <2> QED
    BY <2>1, PthreadAssumption DEF PthreadInit, Shapes, Kinds, Nobody, Stages
<1>2. Owners
  BY DEF PthreadInit, Owners
<1>3. \A o \in Objects : Attached(o) /\ OneHolder(o)
  BY DEF PthreadInit, Attached, OneHolder
<1>4. \A t \in Threads : Fresh(t) /\ CallOK(t)
  BY DEF PthreadInit, Fresh, CallOK
<1> QED
  BY <1>1, <1>2, <1>3, <1>4 DEF PthreadInv

LEMMA PthreadStep == PthreadInv /\ [PthreadNext]_pthreadVars => PthreadInv'
<1> SUFFICES ASSUME PthreadInv, [PthreadNext]_pthreadVars PROVE PthreadInv'
  OBVIOUS
<1>1. ASSUME NEW t \in Threads,
             \/ \E o \in Objects : CallOn(t, o)
             \/ \E c \in Conds, m \in Mutexes : CallWait(t, c, m)
      PROVE  PthreadInv'
  BY <1>1, CallsKeep
<1>2. ASSUME NEW t \in Threads, ShimStep(t) PROVE PthreadInv'
  BY <1>2, LoadKeeps, MakeKeeps, TryInitKeeps, ReloadKeeps DEF ShimStep
<1>3. ASSUME NEW t \in Threads, HostStep(t) PROVE PthreadInv'
  BY <1>3, HostLocksKeeps, HostUnlocksKeeps, HostWaitsKeeps, WaitRelocksKeeps,
     HostSignalsKeeps DEF HostStep
<1>4. ASSUME NEW t \in Threads, TimesOut(t) PROVE PthreadInv'
  BY <1>4, TimesOutKeeps
<1>5. ASSUME NEW o \in Objects, InitObject(o) \/ DestroyObject(o) PROVE PthreadInv'
  BY <1>5, InitObjectKeeps, DestroyObjectKeeps
<1>6. CASE UNCHANGED pthreadVars
  BY <1>6 DEF pthreadVars, PthreadInv, Shapes, Owners, Attached, OneHolder, Fresh, CallOK,
     Converting
<1> QED
  BY <1>1, <1>2, <1>3, <1>4, <1>5, <1>6 DEF PthreadNext

(* However many threads convert the same objects at the same time, and     *)
(* lock, wait, signal, initialise and destroy them (pthreads.rs), every    *)
(* host object has one owner and every call has found those of its objects.*)
THEOREM PthreadInvariant == PthreadSpec => []PthreadInv
BY PthreadStart, PthreadStep, PTL DEF PthreadSpec

LEMMA ExclusiveFromInv == PthreadInv => LockExclusive
<1> SUFFICES ASSUME PthreadInv, NEW o \in Objects, exclusive[o]
             PROVE  Cardinality({t \in Threads : claims[o][t] > 0}) = 1
  BY DEF LockExclusive
<1>1. PICK t \in Threads : claims[o][t] > 0 /\ \A u \in Threads : claims[o][u] > 0 => u = t
  BY DEF PthreadInv, OneHolder
<1>2. {u \in Threads : claims[o][u] > 0} = {t}
  BY <1>1
<1> QED
  BY <1>2, FS_Singleton

LEMMA OwnedFromInv == PthreadInv => HostsOwned
<1> SUFFICES ASSUME PthreadInv PROVE HostsOwned
  OBVIOUS
<1>0. Shapes /\ Owners /\ Null \notin Hosts
  BY PthreadAssumption DEF PthreadInv
<1>1. ASSUME NEW h \in live
      PROVE  Cardinality({o \in Objects : payload[o] = h})
             + Cardinality({t \in Threads : mine[t] = h}) = 1
  <2>1. h # Null /\ Cardinality({}) = 0
    BY <1>0, FS_EmptySet DEF Shapes
  <2>2. CASE \E o \in Objects : payload[o] = h
    <3>1. PICK o \in Objects : payload[o] = h
      BY <2>2
    <3>2. {p \in Objects : payload[p] = h} = {o}
      BY <1>0, <2>1, <3>1 DEF Owners
    <3>3. {t \in Threads : mine[t] = h} = {}
      BY <1>0, <2>1, <3>1 DEF Owners
    <3>4. Cardinality({o}) = 1
      BY FS_Singleton
    <3> QED
      BY <2>1, <3>2, <3>3, <3>4
  <2>3. CASE ~\E o \in Objects : payload[o] = h
    <3>1. PICK t \in Threads : mine[t] = h
      BY <1>0, <2>3 DEF Owners
    <3>2. {u \in Threads : mine[u] = h} = {t}
      BY <1>0, <2>1, <3>1 DEF Owners
    <3>3. {o \in Objects : payload[o] = h} = {}
      BY <2>3
    <3>4. Cardinality({t}) = 1
      BY FS_Singleton
    <3> QED
      BY <2>1, <3>2, <3>3, <3>4
  <2> QED
    BY <2>2, <2>3
<1>2. ASSUME NEW o \in Objects, payload[o] # Null
      PROVE  /\ payload[o] \in live /\ held[payload[o]] = claims[o]
             /\ o \in Mutexes => hostKind[payload[o]] = declared[o]
  BY <1>0, <1>2 DEF PthreadInv, Attached, Owners
<1>3. ASSUME NEW t \in Threads, NEW k \in DOMAIN hosts[t]
      PROVE  hosts[t][k] = payload[args[t][k]]
  <2>1. k \in 1 .. Len(hosts[t]) /\ CallOK(t)
    BY <1>0, LenProperties DEF Shapes, PthreadInv
  <2>2. stage[t] # "idle"
    BY <2>1 DEF CallOK
  <2> QED
    BY <2>1, <2>2 DEF CallOK
<1> QED
  BY <1>1, <1>2, <1>3 DEF HostsOwned

(* One thread at a time in a lock, on a host object that belongs to it and *)
(* to nothing else: to_host_mutex and the compare and exchange of          *)
(* pthreads.rs keep it for any number of threads and objects.              *)
THEOREM LocksStaySound == PthreadSpec => []LocksSound
<1>1. PthreadInv => LocksSound
  BY ExclusiveFromInv, OwnedFromInv DEF LocksSound
<1> QED
  BY <1>1, PthreadInvariant, PTL
=============================================================================
