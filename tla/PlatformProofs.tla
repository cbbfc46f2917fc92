--------------------------- MODULE PlatformProofs ---------------------------
(***************************************************************************)
(* Theorems about the parts of the platform that the game calls: Stdio and *)
(* ThreadLife, for any threads and streams, TlsModules, for any libraries, *)
(* pages and blocks, and BionicPort, for any libraries, addresses, link    *)
(* maps and configuration files.                                           *)
(***************************************************************************)
EXTENDS Stdio, ThreadLife, TlsModules, BionicPort,
        FiniteSetTheorems, SequenceTheorems, WellFoundedInduction, TLAPS

-----------------------------------------------------------------------------
(* Stdio: the streams the game may use.                                    *)

StdioInv == StdioTypeOK /\ StreamsOpen

LEMMA HostFileNumbers ==
    NullFile \notin HostFiles /\ Cardinality(Wrappers) \in Nat
BY StdioAssumption, FS_CardinalityType DEF HostFiles, NullFile

\* There are enough host FILEs for the standard streams.
LEMMA StandardFiles ==
    \E w \in [Wrappers -> HostFiles \cup {NullFile}] :
        /\ \A f \in Wrappers : w[f] = NullFile <=> f \notin Standard
        /\ \A f, g \in Standard : w[f] = w[g] => f = g
<1>1. PICK b : b \in Bijection(1 .. Cardinality(Wrappers), Wrappers)
  BY StdioAssumption, FS_CardinalityType DEF ExistsBijection
<1>2. \A f \in Wrappers : \E i \in HostFiles : b[i] = f
  BY <1>1 DEF Bijection, Surjection, HostFiles
<1> DEFINE number(f) == CHOOSE i \in HostFiles : b[i] = f
           w == [f \in Wrappers |-> IF f \in Standard THEN number(f) ELSE NullFile]
<1>3. \A f \in Wrappers : number(f) \in HostFiles /\ b[number(f)] = f
  BY <1>2
<1> HIDE DEF number
<1>4. w \in [Wrappers -> HostFiles \cup {NullFile}]
  BY <1>3
<1>5. \A f \in Wrappers : w[f] = NullFile <=> f \notin Standard
  BY <1>3, HostFileNumbers
<1>6. \A f, g \in Standard : w[f] = w[g] => f = g
  BY <1>3, StdioAssumption
<1> HIDE DEF w
<1> QED
  BY <1>4, <1>5, <1>6

LEMMA StdioStart == StdioInit => StdioInv
<1> SUFFICES ASSUME StdioInit PROVE StdioInv
  OBVIOUS
<1>1. /\ wrapped \in [Wrappers -> HostFiles \cup {NullFile}]
      /\ \A f \in Wrappers : wrapped[f] = NullFile <=> f \notin Standard
      /\ \A f, g \in Standard : wrapped[f] = wrapped[g] => f = g
  BY StandardFiles DEF StdioInit
<1>2. openFiles \subseteq HostFiles /\ \A f \in Standard : wrapped[f] \in openFiles
  <2>1. \A f \in Standard : f \in Wrappers /\ wrapped[f] \in HostFiles
    BY <1>1, StdioAssumption
  <2>2. openFiles = {wrapped[f] : f \in Standard}
    BY DEF StdioInit
  <2> QED
    BY <2>1, <2>2
<1>3. position \in [HostFiles -> 0 .. FileSize]
  BY StdioAssumption DEF StdioInit
<1>4. StdioTypeOK
  BY <1>1, <1>2, <1>3, StdioAssumption DEF StdioInit, StdioTypeOK
<1>5. StreamsOpen
  BY <1>1, <1>2 DEF StdioInit, StreamsOpen
<1> QED
  BY <1>4, <1>5 DEF StdioInv

LEMMA HostOpensTypes ==
    ASSUME StdioTypeOK, NEW h \in HostFiles \cup {NullFile}, HostOpens(h)
    PROVE  /\ openFiles' = (openFiles \cup {h}) \ {NullFile} /\ openFiles' \subseteq HostFiles
           /\ position' \in [HostFiles -> 0 .. FileSize]
           /\ hostEof' \in [HostFiles -> BOOLEAN]
<1>1. position' \in [HostFiles -> 0 .. FileSize]
  BY StdioAssumption DEF HostOpens, StdioTypeOK
<1>2. hostEof' \in [HostFiles -> BOOLEAN]
  BY DEF HostOpens, StdioTypeOK
<1> QED
  BY <1>1, <1>2 DEF HostOpens, StdioTypeOK

\* A new wrapper keeps the streams apart when no stream that stays in use has
\* its host FILE.
LEMMA WrapKeeps ==
    ASSUME StdioInv, NEW h \in HostFiles \cup {NullFile}, NEW also \in SUBSET usableFiles,
           WrapFile(h, also), openFiles' \subseteq HostFiles,
           position' \in [HostFiles -> 0 .. FileSize],
           hostEof' \in [HostFiles -> BOOLEAN],
           h # NullFile => h \in openFiles',
           \A f \in also : wrapped[f] \in openFiles' /\ wrapped[f] # h
    PROVE  StdioInv'
<1>0. /\ boxed \subseteq Wrappers /\ usableFiles \subseteq boxed
      /\ wrapped \in [Wrappers -> HostFiles \cup {NullFile}]
      /\ flagEof \in [Wrappers -> BOOLEAN]
      /\ \A f, g \in usableFiles : wrapped[f] = wrapped[g] => f = g
  BY DEF StdioInv, StdioTypeOK, StreamsOpen
<1>1. CASE Wraps(h)
  <2>1. PICK n \in Wrappers \ boxed :
           /\ boxed' = boxed \cup {n} /\ usableFiles' = also \cup {n}
           /\ wrapped' = [wrapped EXCEPT ![n] = h]
           /\ flagEof' = [flagEof EXCEPT ![n] = FALSE]
    BY <1>1 DEF WrapFile
  <2>2. \A f \in also : f # n /\ wrapped'[f] = wrapped[f]
    BY <1>0, <2>1
  <2>3. wrapped'[n] = h /\ h \in openFiles'
    BY <1>0, <1>1, <2>1 DEF Wraps
  <2>4. StdioTypeOK'
    BY <1>0, <2>1 DEF StdioTypeOK
  <2>5. StreamsOpen'
    BY <1>0, <2>1, <2>2, <2>3 DEF StreamsOpen
  <2> QED
    BY <2>4, <2>5 DEF StdioInv
<1>2. CASE ~Wraps(h)
  <2>1. usableFiles' = also /\ UNCHANGED <<boxed, wrapped, flagEof>>
    BY <1>2 DEF WrapFile
  <2> QED
    BY <1>0, <2>1 DEF StdioInv, StdioTypeOK, StreamsOpen
<1> QED
  BY <1>1, <1>2

LEMMA FopenKeeps == ASSUME StdioInv, Fopen PROVE StdioInv'
<1>1. PICK h \in (HostFiles \ openFiles) \cup {NullFile} :
         HostOpens(h) /\ WrapFile(h, usableFiles)
  BY DEF Fopen
<1>2. StdioTypeOK /\ h \in HostFiles \cup {NullFile}
  BY <1>1 DEF StdioInv
<1>3. \A f \in usableFiles : wrapped[f] \in openFiles /\ wrapped[f] # NullFile
  BY HostFileNumbers DEF StdioInv, StreamsOpen, StdioTypeOK
<1>4. /\ openFiles' = (openFiles \cup {h}) \ {NullFile} /\ openFiles' \subseteq HostFiles
      /\ position' \in [HostFiles -> 0 .. FileSize]
      /\ hostEof' \in [HostFiles -> BOOLEAN]
  BY <1>1, <1>2, HostOpensTypes
<1>5. \A f \in usableFiles : wrapped[f] \in openFiles' /\ wrapped[f] # h
  BY <1>1, <1>3, <1>4
<1>6. h # NullFile => h \in openFiles'
  BY <1>4
<1> QED
  BY <1>1, <1>2, <1>4, <1>5, <1>6, WrapKeeps

LEMMA FreopenKeeps == ASSUME StdioInv, NEW f \in Wrappers, Freopen(f) PROVE StdioInv'
<1> DEFINE also == usableFiles \ {f}
           h == wrapped[f]
<1>1. /\ f \in usableFiles /\ StdioTypeOK /\ h \in openFiles /\ h \in HostFiles
      /\ h # NullFile /\ NullFile \notin HostFiles /\ openFiles \subseteq HostFiles
      /\ \A g \in also : wrapped[g] \in openFiles /\ wrapped[g] # h /\ wrapped[g] # NullFile
  BY HostFileNumbers DEF Freopen, StdioInv, StreamsOpen, StdioTypeOK
<1>2. CASE HostOpens(h) /\ WrapFile(h, also)
  <2>1. /\ openFiles' = (openFiles \cup {h}) \ {NullFile} /\ openFiles' \subseteq HostFiles
        /\ position' \in [HostFiles -> 0 .. FileSize]
        /\ hostEof' \in [HostFiles -> BOOLEAN]
    BY <1>1, <1>2, HostOpensTypes
  <2>2. \A g \in also : wrapped[g] \in openFiles' /\ wrapped[g] # h
    BY <1>1, <2>1
  <2>3. h \in openFiles'
    BY <1>1, <2>1
  <2> QED
    BY <1>1, <1>2, <2>1, <2>2, <2>3, WrapKeeps
<1>3. CASE /\ openFiles' = openFiles \ {h} /\ UNCHANGED <<position, hostEof>>
           /\ WrapFile(NullFile, also)
  <2>1. /\ position' \in [HostFiles -> 0 .. FileSize]
        /\ hostEof' \in [HostFiles -> BOOLEAN] /\ openFiles' \subseteq HostFiles
    BY <1>1, <1>3 DEF StdioTypeOK
  <2>2. \A g \in also : wrapped[g] \in openFiles' /\ wrapped[g] # NullFile
    BY <1>1, <1>3
  <2> QED
    BY <1>3, <2>1, <2>2, WrapKeeps
<1> QED
  BY <1>2, <1>3 DEF Freopen

LEMMA ReadingKeeps ==
    ASSUME StdioInv, UNCHANGED <<boxed, wrapped, openFiles, usableFiles>>,
           flagEof' \in [Wrappers -> BOOLEAN], hostEof' \in [HostFiles -> BOOLEAN],
           position' \in [HostFiles -> 0 .. FileSize]
    PROVE  StdioInv'
BY DEF StdioInv, StdioTypeOK, StreamsOpen

LEMMA HostReadsTypes ==
    ASSUME StdioTypeOK, NEW h \in HostFiles, HostReads(h)
    PROVE  /\ hostEof' \in [HostFiles -> BOOLEAN]
           /\ position' \in [HostFiles -> 0 .. FileSize]
<1>1. position[h] < FileSize => position[h] + 1 \in 0 .. FileSize
  BY StdioAssumption DEF StdioTypeOK
<1>2. hostEof' \in [HostFiles -> BOOLEAN]
  BY DEF HostReads, StdioTypeOK
<1>3. position' \in [HostFiles -> 0 .. FileSize]
  BY <1>1 DEF HostReads, StdioTypeOK
<1> QED
  BY <1>2, <1>3

LEMMA StdioStep == StdioInv /\ [StdioNext]_stdioVars => StdioInv'
<1> SUFFICES ASSUME StdioInv, [StdioNext]_stdioVars PROVE StdioInv'
  OBVIOUS
<1>0. StdioTypeOK /\ \A f \in usableFiles : wrapped[f] \in HostFiles
  BY DEF StdioInv, StreamsOpen, StdioTypeOK
<1>1. ASSUME NEW f \in Wrappers, Fclose(f) PROVE StdioInv'
  <2>1. StdioTypeOK'
    BY <1>0, <1>1 DEF Fclose, StdioTypeOK
  <2>2. StreamsOpen'
    BY <1>1 DEF Fclose, StdioInv, StreamsOpen
  <2> QED
    BY <2>1, <2>2 DEF StdioInv
<1>2. ASSUME NEW f \in Wrappers, Fread(f) PROVE StdioInv'
  <2>1. /\ hostEof' \in [HostFiles -> BOOLEAN]
        /\ position' \in [HostFiles -> 0 .. FileSize]
    BY <1>0, <1>2, HostReadsTypes DEF Fread
  <2>2. flagEof' \in [Wrappers -> BOOLEAN]
    BY <1>0, <1>2, <2>1 DEF Fread, UpdateFeof, StdioTypeOK
  <2> QED
    BY <1>2, <2>1, <2>2, ReadingKeeps DEF Fread
<1>3. ASSUME NEW f \in Wrappers, ReadUnwrapped(f) PROVE StdioInv'
  <2>1. /\ hostEof' \in [HostFiles -> BOOLEAN]
        /\ position' \in [HostFiles -> 0 .. FileSize]
    BY <1>0, <1>3, HostReadsTypes DEF ReadUnwrapped
  <2> QED
    BY <1>0, <1>3, <2>1, ReadingKeeps DEF ReadUnwrapped, StdioTypeOK
<1>4. ASSUME NEW f \in Wrappers, Reposition(f) PROVE StdioInv'
  <2>1. PICK p \in {0, position[wrapped[f]]} :
           position' = [position EXCEPT ![wrapped[f]] = p]
    BY <1>4 DEF Reposition
  <2>2. p \in 0 .. FileSize
    BY <1>0, <1>4, StdioAssumption DEF Reposition, StdioTypeOK
  <2>3. position' \in [HostFiles -> 0 .. FileSize]
    BY <1>0, <2>1, <2>2 DEF StdioTypeOK
  <2>4. hostEof' \in [HostFiles -> BOOLEAN] /\ flagEof' \in [Wrappers -> BOOLEAN]
    BY <1>0, <1>4 DEF Reposition, StdioTypeOK
  <2> QED
    BY <1>4, <2>3, <2>4, ReadingKeeps DEF Reposition
<1>5. CASE UNCHANGED stdioVars
  BY <1>5 DEF stdioVars, StdioInv, StdioTypeOK, StreamsOpen
<1> QED
  BY <1>1, <1>2, <1>3, <1>4, <1>5, FopenKeeps, FreopenKeeps DEF StdioNext

\* With any number of streams, opened, reopened and closed in any order, each
\* one in use has an open FILE of its own, and fread passes the end on.
THEOREM StreamsStaySound == StdioSpec => StreamsSound
<1> DEFINE Reaches == \A f \in Wrappers : Fread(f) /\ hostEof'[wrapped[f]] => flagEof'[f]
<1>1. StdioSpec => []StdioInv
  BY StdioStart, StdioStep, PTL DEF StdioSpec
<1>2. StdioInv => StreamsOpen
  BY DEF StdioInv
<1>3. StdioInv => Reaches
  BY DEF StdioInv, StdioTypeOK, Fread, UpdateFeof
<1>4. StdioSpec => [][Reaches]_stdioVars
  <2> HIDE DEF Reaches
  <2> QED
    BY <1>1, <1>3, PTL
<1>5. StdioSpec => []StreamsOpen
  BY <1>1, <1>2, PTL
<1> QED
  BY <1>4, <1>5, PTL DEF StreamsSound, EofReaches

-----------------------------------------------------------------------------
(* ThreadLife: the thread mover.                                           *)

CreateStages == {"idle", "armed", "done", "tid", "claim", "send", "host"}

\* Who the mover is armed for, and how far each creator may get.
MoverTypes ==
    /\ arming \in 0 .. 3 /\ (moverArmed <=> arming = 3) /\ moverDone \in BOOLEAN
    /\ arming # 0 => moverTid = StartThread
    /\ creating \in [Creators -> CreateStages] /\ fn \in [Creators -> Nat]
    /\ created \in Nat /\ firstFn \in Nat /\ firstFn <= created
    /\ \A n \in ownThread : n \in Nat /\ n <= created
    /\ arming \in {1, 2} => creating[StartThread] = "idle"
    /\ \A t \in Creators :
          /\ creating[t] \in {"done", "tid", "claim", "send"} => arming = 3
          /\ creating[t] \in {"claim", "send"} => t = StartThread
          /\ fn[t] <= created

\* No other call, and no thread of its own, has the first start routine.
FirstApart ==
    firstFn # NoFn =>
        /\ firstFn \notin ownThread
        /\ \A t \in Creators : t # StartThread /\ creating[t] # "idle" => fn[t] # firstFn

\* Where the first start routine is: not given out, on its way, or moved.
FirstPlace ==
    \/ /\ firstFn = NoFn /\ moverDone = FALSE /\ captured = <<>> /\ mainFn = NoFn
       /\ arming = 3 => creating[StartThread] = "idle"
    \/ /\ arming = 3 /\ firstFn # NoFn /\ fn[StartThread] = firstFn
       /\ captured = <<>> /\ mainFn = NoFn
       /\ \/ moverDone = FALSE /\ creating[StartThread] \in {"armed", "done", "tid", "claim"}
          \/ moverDone = TRUE /\ creating[StartThread] = "send"
    \/ /\ arming = 3 /\ firstFn # NoFn /\ moverDone = TRUE
       /\ creating[StartThread] \in {"idle", "armed", "done", "host"}
       /\ creating[StartThread] # "idle" => fn[StartThread] # firstFn
       /\ \/ captured = <<firstFn>> /\ mainFn = NoFn
          \/ captured = <<>> /\ mainFn = firstFn

MoverInv == MoverTypes /\ FirstApart /\ FirstPlace

LEMMA MoverStart == ThreadLifeInit => MoverInv
<1> SUFFICES ASSUME ThreadLifeInit PROVE MoverInv
  OBVIOUS
<1>1. /\ StartThread \in Creators /\ arming = 0 /\ moverArmed = FALSE /\ moverDone = FALSE
      /\ creating = [t \in Creators |-> "idle"] /\ fn = [t \in Creators |-> 0]
      /\ created = 0 /\ firstFn = NoFn /\ NoFn = 0 /\ ownThread = {} /\ mainFn = NoFn
      /\ captured = <<>>
  BY ThreadLifeAssumption DEF ThreadLifeInit, NoFn
<1>2. creating \in [Creators -> CreateStages] /\ fn \in [Creators -> Nat]
  BY <1>1 DEF CreateStages
<1>3. MoverTypes
  <2>1. ~moverArmed /\ moverDone \in BOOLEAN
    BY <1>1, Zenon
  <2> QED
    BY <1>1, <1>2, <2>1 DEF MoverTypes
<1> QED
  BY <1>1, <1>3 DEF MoverInv, FirstApart, FirstPlace

LEMMA ArmKeeps == ASSUME MoverInv, Arm PROVE MoverInv'
<1>0. /\ StartThread \in Creators /\ creating[StartThread] = "idle"
      /\ arming \in {0, 1, 2} /\ arming' = arming + 1
      /\ UNCHANGED <<captured, creating, fn, created, firstFn, ownThread, mainFn>>
      /\ moverDone' \in BOOLEAN /\ moverTid' = StartThread
      /\ moverArmed' <=> arming = 2
  <2>1. MoverTypes /\ arming \in {0, 1, 2}
    BY DEF MoverInv, MoverTypes, Arm
  <2>2. /\ StartThread \in Creators /\ creating[StartThread] = "idle" /\ arming' = arming + 1
        /\ UNCHANGED <<captured, creating, fn, created, firstFn, ownThread, mainFn>>
    BY ThreadLifeAssumption DEF Arm
  <2>3. CASE arming = 0
    <3>1. moverTid' = StartThread /\ UNCHANGED <<moverDone, moverArmed>>
      BY <2>3 DEF Arm
    <3> QED
      BY <2>1, <2>2, <2>3, <3>1 DEF MoverTypes
  <2>4. CASE arming = 1
    <3>1. moverDone' = FALSE /\ UNCHANGED <<moverTid, moverArmed>>
      BY <2>4 DEF Arm
    <3>2. moverDone' \in BOOLEAN
      BY <3>1, Zenon
    <3>3. moverTid' = StartThread /\ ~moverArmed'
      BY <2>1, <2>4, <3>1 DEF MoverTypes
    <3> QED
      BY <2>1, <2>2, <2>4, <3>2, <3>3
  <2>5. CASE arming = 2
    <3>1. moverArmed' = TRUE /\ UNCHANGED <<moverTid, moverDone>>
      BY <2>5 DEF Arm
    <3> QED
      BY <2>1, <2>2, <2>5, <3>1 DEF MoverTypes
  <2> QED
    BY <2>1, <2>3, <2>4, <2>5
<1>1. MoverTypes'
  <2>1. arming' \in 0 .. 3 /\ (arming' = 3 <=> arming = 2) /\ arming # 3
    BY <1>0
  <2> QED
    BY <1>0, <2>1 DEF MoverInv, MoverTypes
<1>2. FirstApart'
  BY DEF MoverInv, FirstApart, Arm
<1>3. firstFn = NoFn
  BY DEF MoverInv, MoverTypes, FirstPlace, Arm
<1>4. FirstPlace'
  <2>1. moverDone' = FALSE /\ captured = <<>> /\ mainFn = NoFn
    BY <1>0, <1>3 DEF MoverInv, FirstPlace, Arm
  <2> QED
    BY <1>0, <1>3, <2>1 DEF FirstPlace
<1> QED
  BY <1>1, <1>2, <1>4 DEF MoverInv

LEMMA MoverCreateKeeps ==
    ASSUME MoverInv, NEW t \in Creators, Create(t)
    PROVE  MoverInv'
<1>0. /\ StartThread \in Creators /\ NoFn = 0
      /\ MoverTypes /\ FirstApart /\ FirstPlace
  BY ThreadLifeAssumption DEF MoverInv, NoFn
<1>1. /\ creating[t] = "idle" /\ (t = StartThread => arming \in {0, 3})
      /\ created' = created + 1 /\ created \in Nat /\ firstFn \in Nat /\ firstFn <= created
      /\ creating' = [creating EXCEPT ![t] = "armed"]
      /\ fn' = [fn EXCEPT ![t] = created + 1]
      /\ firstFn' = IF t = StartThread /\ arming = 3 /\ firstFn = NoFn THEN created + 1
                    ELSE firstFn
      /\ UNCHANGED <<arming, moverArmed, moverTid, moverDone, captured, ownThread, mainFn>>
  BY <1>0 DEF Create, Step, MoverTypes
<1>2. \A u \in Creators :
         /\ creating'[u] = (IF u = t THEN "armed" ELSE creating[u])
         /\ fn'[u] = (IF u = t THEN created + 1 ELSE fn[u])
  BY <1>0, <1>1 DEF MoverTypes
<1>3. MoverTypes'
  <2>1. creating' \in [Creators -> CreateStages] /\ fn' \in [Creators -> Nat]
    BY <1>0, <1>1 DEF MoverTypes, CreateStages
  <2>2. \A u \in Creators :
           /\ creating'[u] \in {"done", "tid", "claim", "send"} => arming' = 3
           /\ creating'[u] \in {"claim", "send"} => u = StartThread
           /\ fn'[u] <= created'
    BY <1>0, <1>1, <1>2 DEF MoverTypes
  <2>3. arming' \in {1, 2} => creating'[StartThread] = "idle"
    BY <1>0, <1>1, <1>2 DEF MoverTypes
  <2>4. \A n \in ownThread' : n \in Nat /\ n <= created'
    BY <1>0, <1>1 DEF MoverTypes
  <2> QED
    BY <1>0, <1>1, <2>1, <2>2, <2>3, <2>4 DEF MoverTypes
<1>4. FirstApart'
  <2>1. CASE firstFn' = firstFn
    BY <1>0, <1>1, <1>2, <2>1 DEF FirstApart
  <2>2. CASE t = StartThread /\ firstFn' = created + 1
    BY <1>0, <1>1, <1>2, <2>2 DEF FirstApart, MoverTypes
  <2> QED
    BY <1>1, <2>1, <2>2
<1>5. FirstPlace'
  <2>1. CASE t # StartThread
    BY <1>0, <1>1, <1>2, <2>1 DEF FirstPlace
  <2>2. CASE t = StartThread /\ firstFn = NoFn
    BY <1>0, <1>1, <1>2, <2>2 DEF FirstPlace, MoverTypes
  <2>3. CASE t = StartThread /\ firstFn # NoFn
    <3>1. firstFn' = firstFn /\ creating'[t] = "armed" /\ fn'[t] # firstFn
      BY <1>1, <1>2, <2>3
    <3>2. /\ arming = 3 /\ moverDone = TRUE
          /\ \/ captured = <<firstFn>> /\ mainFn = NoFn
             \/ captured = <<>> /\ mainFn = firstFn
      BY <1>0, <1>1, <2>3 DEF FirstPlace
    <3> QED
      BY <1>1, <2>3, <3>1, <3>2 DEF FirstPlace
  <2> QED
    BY <2>1, <2>2, <2>3
<1> QED
  BY <1>3, <1>4, <1>5 DEF MoverInv

\* A step of one creator that moves nothing to the main thread.
LEMMA CreatorMoves ==
    ASSUME MoverInv, NEW t \in Creators, NEW to \in CreateStages,
           creating' = [creating EXCEPT ![t] = to], creating[t] # "idle",
           UNCHANGED <<arming, moverArmed, moverTid, captured, fn, created, firstFn, mainFn>>,
           to \in {"done", "tid", "claim", "send"} => arming = 3,
           to \in {"claim", "send"} => t = StartThread,
           moverDone' \in BOOLEAN, FirstApart', FirstPlace',
           \A n \in ownThread' : n \in ownThread \/ n = fn[t]
    PROVE  MoverInv'
<1>0. StartThread \in Creators /\ MoverTypes
  BY ThreadLifeAssumption DEF MoverInv
<1>1. \A u \in Creators : creating'[u] = IF u = t THEN to ELSE creating[u]
  BY <1>0 DEF MoverTypes
<1>2. creating' \in [Creators -> CreateStages]
  BY <1>0 DEF MoverTypes
<1>3. arming \in {1, 2} => t # StartThread
  BY <1>0 DEF MoverTypes
<1>4. \A n \in ownThread' : n \in Nat /\ n <= created
  BY <1>0 DEF MoverTypes
<1>5. MoverTypes'
  BY <1>0, <1>1, <1>2, <1>3, <1>4 DEF MoverTypes
<1> QED
  BY <1>5 DEF MoverInv

LEMMA TryCaptureKeeps ==
    ASSUME MoverInv, NEW t \in Creators, TryCapture(t)
    PROVE  MoverInv'
<1>0. /\ StartThread \in Creators /\ MoverTypes /\ FirstApart /\ FirstPlace
      /\ UNCHANGED <<arming, moverArmed, moverTid, moverDone, captured, fn, created,
                     firstFn, ownThread, mainFn>>
  BY ThreadLifeAssumption DEF MoverInv, TryCapture
<1>1. PICK to \in CreateStages :
         /\ creating' = [creating EXCEPT ![t] = to]
         /\ \/ creating[t] = "armed" /\ to = IF moverArmed THEN "done" ELSE "host"
            \/ creating[t] = "done" /\ to = IF moverDone THEN "host" ELSE "tid"
            \/ creating[t] = "tid" /\ to = IF t = moverTid THEN "claim" ELSE "host"
  BY DEF TryCapture, Step, FromStarter, CreateStages
<1>2. \A u \in Creators : creating'[u] = IF u = t THEN to ELSE creating[u]
  BY <1>0, <1>1 DEF MoverTypes
<1>3. creating[t] # "idle"
  BY <1>1
<1>4. /\ to \in {"done", "tid", "claim", "send"} => arming = 3
      /\ to \in {"claim", "send"} => t = StartThread
  BY <1>0, <1>1 DEF MoverTypes
<1>5. FirstApart'
  BY <1>0, <1>2, <1>3 DEF FirstApart
<1>6. FirstPlace'
  <2>1. CASE t # StartThread
    BY <1>0, <1>2, <2>1 DEF FirstPlace
  <2>2. CASE t = StartThread
    <3>1. firstFn = NoFn => arming # 3
      BY <1>0, <1>3, <2>2 DEF FirstPlace
    <3>2. arming = 3 => moverArmed /\ moverTid = StartThread
      BY <1>0 DEF MoverTypes
    <3>3. CASE firstFn = NoFn
      BY <1>0, <3>1, <3>3 DEF FirstPlace
    <3>4. CASE firstFn # NoFn /\ moverDone = FALSE
      BY <1>0, <1>1, <1>2, <2>2, <3>2, <3>4 DEF FirstPlace
    <3>5. CASE firstFn # NoFn /\ moverDone # FALSE
      BY <1>0, <1>1, <1>2, <2>2, <3>2, <3>5 DEF FirstPlace
    <3> QED
      BY <3>3, <3>4, <3>5
  <2> QED
    BY <2>1, <2>2
<1> QED
  BY <1>0, <1>1, <1>3, <1>4, <1>5, <1>6, CreatorMoves DEF MoverTypes

LEMMA ClaimKeeps ==
    ASSUME MoverInv, NEW t \in Creators, Claim(t)
    PROVE  MoverInv'
<1>0. /\ StartThread \in Creators /\ MoverTypes /\ FirstApart /\ FirstPlace
      /\ UNCHANGED <<arming, moverArmed, moverTid, captured, fn, created, firstFn,
                     ownThread, mainFn>>
      /\ creating[t] = "claim" /\ moverDone' = TRUE
      /\ creating' = [creating EXCEPT ![t] = IF moverDone THEN "host" ELSE "send"]
  BY ThreadLifeAssumption DEF MoverInv, Claim, Step
\* Only the first call of the start thread gets as far as to claim.
<1>1. t = StartThread /\ arming = 3
  BY <1>0 DEF MoverTypes
<1>2. /\ moverDone = FALSE /\ firstFn # NoFn /\ fn[t] = firstFn
      /\ captured = <<>> /\ mainFn = NoFn
  BY <1>0, <1>1 DEF FirstPlace
<1>3. creating' = [creating EXCEPT ![t] = "send"] /\ creating'[t] = "send"
  BY <1>0, <1>2 DEF MoverTypes
<1>4. FirstApart'
  BY <1>0, <1>1, <1>3 DEF FirstApart, MoverTypes
<1>5. FirstPlace'
  BY <1>0, <1>1, <1>2, <1>3 DEF FirstPlace
<1> QED
  BY <1>0, <1>1, <1>3, <1>4, <1>5, CreatorMoves DEF CreateStages

LEMMA SendKeeps ==
    ASSUME MoverInv, NEW t \in Creators, Send(t)
    PROVE  MoverInv'
<1>0. /\ StartThread \in Creators /\ MoverTypes /\ FirstApart /\ FirstPlace
      /\ UNCHANGED <<arming, moverArmed, moverTid, moverDone, fn, created, firstFn,
                     ownThread, mainFn>>
      /\ creating[t] = "send" /\ captured' = Append(captured, fn[t])
      /\ creating' = [creating EXCEPT ![t] = "idle"]
  BY ThreadLifeAssumption DEF MoverInv, Send, Step
<1>1. t = StartThread /\ arming = 3
  BY <1>0 DEF MoverTypes
<1>2. /\ moverDone = TRUE /\ firstFn # NoFn /\ fn[t] = firstFn
      /\ captured = <<>> /\ mainFn = NoFn
  BY <1>0, <1>1 DEF FirstPlace
<1>3. captured' = <<firstFn>> /\ \A u \in Creators :
         creating'[u] = IF u = t THEN "idle" ELSE creating[u]
  BY <1>0, <1>2 DEF MoverTypes
<1>4. FirstApart'
  BY <1>0, <1>1, <1>3 DEF FirstApart
<1>5. FirstPlace'
  BY <1>0, <1>1, <1>2, <1>3 DEF FirstPlace
<1>6. MoverTypes'
  <2>1. creating' \in [Creators -> CreateStages]
    BY <1>0 DEF MoverTypes, CreateStages
  <2> QED
    BY <1>0, <1>1, <1>3, <2>1 DEF MoverTypes
<1> QED
  BY <1>4, <1>5, <1>6 DEF MoverInv

LEMMA HostCreateKeeps ==
    ASSUME MoverInv, NEW t \in Creators, HostCreate(t)
    PROVE  MoverInv'
<1>0. /\ StartThread \in Creators /\ MoverTypes /\ FirstApart /\ FirstPlace
      /\ UNCHANGED <<arming, moverArmed, moverTid, moverDone, captured, fn, created,
                     firstFn, mainFn>>
      /\ creating[t] = "host" /\ ownThread' = ownThread \cup {fn[t]}
      /\ creating' = [creating EXCEPT ![t] = "idle"]
  BY ThreadLifeAssumption DEF MoverInv, HostCreate, Step
<1>1. \A u \in Creators : creating'[u] = IF u = t THEN "idle" ELSE creating[u]
  BY <1>0 DEF MoverTypes
<1>2. firstFn # NoFn => fn[t] # firstFn
  BY <1>0 DEF FirstApart, FirstPlace
<1>3. FirstApart'
  BY <1>0, <1>1, <1>2 DEF FirstApart
<1>4. FirstPlace'
  <2>1. CASE t # StartThread
    BY <1>0, <1>1, <2>1 DEF FirstPlace
  <2>2. CASE t = StartThread
    BY <1>0, <1>1, <2>2 DEF FirstPlace
  <2> QED
    BY <2>1, <2>2
<1> QED
  BY <1>0, <1>3, <1>4, CreatorMoves DEF CreateStages, MoverTypes

LEMMA TakeCapturedKeeps == ASSUME MoverInv, TakeCaptured PROVE MoverInv'
<1>0. /\ MoverTypes /\ FirstApart /\ FirstPlace /\ captured # <<>>
      /\ mainFn' = Head(captured) /\ captured' = Tail(captured)
      /\ UNCHANGED <<arming, moverArmed, moverTid, moverDone, creating, fn, created,
                     firstFn, ownThread>>
  BY DEF MoverInv, TakeCaptured
<1>1. /\ captured = <<firstFn>> /\ arming = 3 /\ firstFn # NoFn /\ moverDone = TRUE
      /\ creating[StartThread] \in {"idle", "armed", "done", "host"}
      /\ creating[StartThread] # "idle" => fn[StartThread] # firstFn
  BY <1>0 DEF FirstPlace
<1>2. mainFn' = firstFn /\ captured' = <<>>
  BY <1>0, <1>1
<1>3. FirstPlace'
  BY <1>0, <1>1, <1>2 DEF FirstPlace
<1> QED
  BY <1>0, <1>3 DEF MoverInv, MoverTypes, FirstApart

LEMMA MoverStep == MoverInv /\ [ThreadLifeNext]_threadLifeVars => MoverInv'
<1> SUFFICES ASSUME MoverInv, [ThreadLifeNext]_threadLifeVars PROVE MoverInv'
  OBVIOUS
<1>1. CASE MoverNext
  BY <1>1, ArmKeeps, MoverCreateKeeps, TryCaptureKeeps, ClaimKeeps, SendKeeps,
     HostCreateKeeps, TakeCapturedKeeps DEF MoverNext
<1>2. CASE UNCHANGED moverVars
  BY <1>2 DEF moverVars, MoverInv, MoverTypes, FirstApart, FirstPlace
<1> QED
  BY <1>1, <1>2 DEF ThreadLifeNext, OnceNext, DtorNext, threadLifeVars

LEMMA MoverSound == MoverInv => MainRunsFirst
<1> SUFFICES ASSUME MoverInv PROVE MainRunsFirst
  OBVIOUS
<1>1. captured \in {<<>>, <<firstFn>>} /\ (mainFn # NoFn => mainFn = firstFn /\ captured = <<>>)
      /\ (captured # <<>> => mainFn # firstFn)
  BY DEF MoverInv, FirstPlace, NoFn
<1>2. ToSet(<<>>) = {} /\ ToSet(<<firstFn>>) = {firstFn}
  BY DEF ToSet
<1> QED
  BY <1>1, <1>2 DEF MoverInv, FirstApart, MainRunsFirst

-----------------------------------------------------------------------------
(* ThreadLife: pthread_once.                                               *)

OncePlaces == {"never", "running", "check", "spin", "returned"}

\* The control word says whether the routine runs, and one thread runs it.
OnceInv ==
    /\ control \in [Onces -> 0 .. 2]
    /\ onceAt \in [Creators -> [Onces -> OncePlaces]]
    /\ onceRan = [o \in Onces |-> IF control[o] = 2 THEN 1 ELSE 0]
    /\ \A o \in Onces, t \in Creators :
          /\ onceAt[t][o] = "running" => control[o] = 1
          /\ onceAt[t][o] = "returned" => control[o] = 2
          /\ onceAt[t][o] \in {"check", "spin"} => control[o] # 0
          /\ \A u \in Creators :
                onceAt[t][o] = "running" /\ onceAt[u][o] = "running" => t = u

LEMMA OnceStart == ThreadLifeInit => OnceInv
BY DEF ThreadLifeInit, OnceInv, OncePlaces

\* A thread goes to another place with one control.
LEMMA GoesTo ==
    ASSUME OnceInv, NEW t \in Creators, NEW o \in Onces, NEW place \in OncePlaces,
           Goes(t, o, place)
    PROVE  /\ onceAt' \in [Creators -> [Onces -> OncePlaces]]
           /\ \A u \in Creators, p \in Onces :
                 onceAt'[u][p] = IF u = t /\ p = o THEN place ELSE onceAt[u][p]
BY DEF OnceInv, Goes

LEMMA OnceStep == OnceInv /\ [ThreadLifeNext]_threadLifeVars => OnceInv'
<1> SUFFICES ASSUME OnceInv, [ThreadLifeNext]_threadLifeVars PROVE OnceInv'
  OBVIOUS
<1>1. ASSUME NEW t \in Creators, NEW o \in Onces, OnceEnters(t, o) PROVE OnceInv'
  <2>0. onceAt[t][o] \in {"never", "returned"} /\ onceRan' = onceRan
    BY <1>1 DEF OnceEnters
  <2>1. CASE control[o] = 0
    <3>1. control' = [control EXCEPT ![o] = 1] /\ Goes(t, o, "running")
      BY <1>1, <2>1 DEF OnceEnters
    <3>2. /\ onceAt' \in [Creators -> [Onces -> OncePlaces]]
          /\ \A u \in Creators, p \in Onces :
                onceAt'[u][p] = IF u = t /\ p = o THEN "running" ELSE onceAt[u][p]
      BY <3>1, GoesTo DEF OncePlaces
    <3>3. control' \in [Onces -> 0 .. 2]
          /\ \A p \in Onces : control'[p] = IF p = o THEN 1 ELSE control[p]
      BY <3>1 DEF OnceInv
    <3>4. onceRan' = [p \in Onces |-> IF control'[p] = 2 THEN 1 ELSE 0]
      BY <2>0, <2>1, <3>3 DEF OnceInv
    <3> QED
      BY <2>1, <3>2, <3>3, <3>4 DEF OnceInv
  <2>2. CASE control[o] # 0
    <3>1. control' = control /\ Goes(t, o, "check")
      BY <1>1, <2>2 DEF OnceEnters, FoundSet
    <3>2. /\ onceAt' \in [Creators -> [Onces -> OncePlaces]]
          /\ \A u \in Creators, p \in Onces :
                onceAt'[u][p] = IF u = t /\ p = o THEN "check" ELSE onceAt[u][p]
      BY <3>1, GoesTo DEF OncePlaces
    <3> QED
      BY <2>0, <2>2, <3>1, <3>2 DEF OnceInv
  <2> QED
    BY <2>1, <2>2
<1>2. ASSUME NEW t \in Creators, NEW o \in Onces, OnceRuns(t, o) PROVE OnceInv'
  <2>0. /\ onceAt[t][o] = "running" /\ Goes(t, o, "returned")
        /\ onceRan' = [onceRan EXCEPT ![o] = @ + 1]
        /\ control' = [control EXCEPT ![o] = 2]
    BY <1>2 DEF OnceRuns
  <2>1. /\ onceAt' \in [Creators -> [Onces -> OncePlaces]]
        /\ \A u \in Creators, p \in Onces :
              onceAt'[u][p] = IF u = t /\ p = o THEN "returned" ELSE onceAt[u][p]
    BY <2>0, GoesTo DEF OncePlaces
  <2>2. control[o] = 1 /\ onceRan[o] = 0
    BY <2>0 DEF OnceInv
  <2>3. control' \in [Onces -> 0 .. 2]
        /\ \A p \in Onces : control'[p] = IF p = o THEN 2 ELSE control[p]
    BY <2>0 DEF OnceInv
  <2>4. onceRan' = [p \in Onces |-> IF control'[p] = 2 THEN 1 ELSE 0]
    BY <2>0, <2>2, <2>3 DEF OnceInv
  <2> QED
    BY <2>0, <2>1, <2>3, <2>4, SMTT(30) DEF OnceInv
<1>3. ASSUME NEW t \in Creators, NEW o \in Onces, OnceChecks(t, o) PROVE OnceInv'
  <2> DEFINE place == IF control[o] = 2 THEN "returned" ELSE "spin"
  <2>0. onceAt[t][o] = "check" /\ Goes(t, o, place) /\ UNCHANGED <<control, onceRan>>
    BY <1>3 DEF OnceChecks
  <2>1. place \in OncePlaces
    BY DEF OncePlaces
  <2>2. /\ onceAt' \in [Creators -> [Onces -> OncePlaces]]
        /\ \A u \in Creators, p \in Onces :
              onceAt'[u][p] = IF u = t /\ p = o THEN place ELSE onceAt[u][p]
    BY <2>0, <2>1, GoesTo
  <2> QED
    BY <2>0, <2>2 DEF OnceInv
<1>4. ASSUME NEW t \in Creators, NEW o \in Onces, OnceSpins(t, o) PROVE OnceInv'
  <2>0. /\ onceAt[t][o] = "spin" /\ control[o] # 1 /\ Goes(t, o, "returned")
        /\ UNCHANGED <<control, onceRan>>
    BY <1>4 DEF OnceSpins
  <2>1. control[o] = 2
    BY <2>0 DEF OnceInv
  <2>2. /\ onceAt' \in [Creators -> [Onces -> OncePlaces]]
        /\ \A u \in Creators, p \in Onces :
              onceAt'[u][p] = IF u = t /\ p = o THEN "returned" ELSE onceAt[u][p]
    BY <2>0, GoesTo DEF OncePlaces
  <2> QED
    BY <2>0, <2>1, <2>2 DEF OnceInv
<1>5. CASE UNCHANGED onceVars
  BY <1>5 DEF onceVars, OnceInv
<1> QED
  BY <1>1, <1>2, <1>3, <1>4, <1>5
     DEF ThreadLifeNext, MoverNext, OnceNext, DtorNext, threadLifeVars

LEMMA OnceSound == OnceInv => OnceDone
BY DEF OnceInv, OnceDone

-----------------------------------------------------------------------------
(* ThreadLife: the destructors of thread locals.                           *)

\* Places skip + 1, skip + 2, ... of the destructors n, n - 1, ... 1.
CountsDown(s, skip, n) ==
    s \in Seq(Nat) /\ \A k \in 1 .. Len(s) : s[k] = n + 1 - (skip + k)

DtorInv ==
    /\ registered \in Nat /\ known \in Nat
    /\ finalizer \in {"no", "running", "ended"}
    /\ finalizer = "no" =>
          /\ known = registered /\ Len(dtors) = registered
          /\ CountsDown(dtors, 0, registered) /\ dtorsRun = <<>>
    /\ finalizer = "running" =>
          /\ Len(dtorsRun) + Len(current) = known
          /\ CountsDown(dtorsRun, 0, known) /\ CountsDown(current, Len(dtorsRun), known)
    /\ finalizer = "ended" => Len(dtorsRun) = known /\ CountsDown(dtorsRun, 0, known)

\* Operations on sequences of numbers.
LEMMA NumberSeqs ==
    ASSUME NEW s \in Seq(Nat)
    PROVE  /\ Len(s) \in Nat /\ DOMAIN s = 1 .. Len(s)
           /\ \A n \in Nat : /\ <<n>> \o s \in Seq(Nat) /\ Len(<<n>> \o s) = Len(s) + 1
                             /\ (<<n>> \o s)[1] = n
                             /\ \A k \in 2 .. Len(s) + 1 : (<<n>> \o s)[k] = s[k - 1]
           /\ \A n \in Nat : /\ Append(s, n) \in Seq(Nat) /\ Len(Append(s, n)) = Len(s) + 1
                             /\ \A k \in 1 .. Len(s) : Append(s, n)[k] = s[k]
                             /\ Append(s, n)[Len(s) + 1] = n
           /\ s # <<>> =>
                 /\ Len(s) >= 1 /\ Head(s) = s[1] /\ Head(s) \in Nat
                 /\ Tail(s) \in Seq(Nat) /\ Len(Tail(s)) = Len(s) - 1
                 /\ \A k \in 1 .. Len(s) - 1 : Tail(s)[k] = s[k + 1]
<1>1. Len(s) \in Nat /\ DOMAIN s = 1 .. Len(s)
  BY LenProperties
<1>2. ASSUME NEW n \in Nat
      PROVE  /\ <<n>> \o s \in Seq(Nat) /\ Len(<<n>> \o s) = Len(s) + 1
             /\ (<<n>> \o s)[1] = n
             /\ \A k \in 2 .. Len(s) + 1 : (<<n>> \o s)[k] = s[k - 1]
  <2>1. <<n>> \in Seq(Nat) /\ Len(<<n>>) = 1 /\ <<n>>[1] = n
    OBVIOUS
  <2>2. /\ <<n>> \o s \in Seq(Nat) /\ Len(<<n>> \o s) = Len(<<n>>) + Len(s)
        /\ \A k \in 1 .. Len(<<n>>) + Len(s) :
              (<<n>> \o s)[k] = IF k <= Len(<<n>>) THEN <<n>>[k] ELSE s[k - Len(<<n>>)]
    BY <2>1, ConcatProperties
  <2> QED
    BY <1>1, <2>1, <2>2
<1>3. ASSUME NEW n \in Nat
      PROVE  /\ Append(s, n) \in Seq(Nat) /\ Len(Append(s, n)) = Len(s) + 1
             /\ \A k \in 1 .. Len(s) : Append(s, n)[k] = s[k]
             /\ Append(s, n)[Len(s) + 1] = n
  BY <1>3, AppendProperties
<1>4. ASSUME s # <<>>
      PROVE  /\ Len(s) >= 1 /\ Head(s) = s[1] /\ Head(s) \in Nat
             /\ Tail(s) \in Seq(Nat) /\ Len(Tail(s)) = Len(s) - 1
             /\ \A k \in 1 .. Len(s) - 1 : Tail(s)[k] = s[k + 1]
  <2>1. /\ Head(s) \in Nat /\ Tail(s) \in Seq(Nat) /\ Len(Tail(s)) = Len(s) - 1
        /\ \A k \in 1 .. Len(Tail(s)) : Tail(s)[k] = s[k + 1]
    BY <1>4, HeadTailProperties
  <2>2. Len(s) # 0
    BY <1>4, EmptySeq
  <2>3. Head(s) = s[1]
    BY <1>4
  <2> QED
    BY <1>1, <2>1, <2>2, <2>3
<1> QED
  BY <1>1, <1>2, <1>3, <1>4

LEMMA DtorStart == ThreadLifeInit => DtorInv
<1>1. <<>> \in Seq(Nat) /\ Len(<<>>) = 0
  OBVIOUS
<1> QED
  BY <1>1 DEF ThreadLifeInit, DtorInv, CountsDown

LEMMA DtorStep == DtorInv /\ [ThreadLifeNext]_threadLifeVars => DtorInv'
<1> SUFFICES ASSUME DtorInv, [ThreadLifeNext]_threadLifeVars PROVE DtorInv'
  OBVIOUS
<1>1. ASSUME RegisterDtor PROVE DtorInv'
  <2>0. /\ registered' = registered + 1 /\ dtors' = <<registered + 1>> \o dtors
        /\ known' = IF finalizer = "no" THEN registered + 1 ELSE known
        /\ finalizer # "ended" /\ UNCHANGED <<finalizer, current, dtorsRun>>
        /\ registered \in Nat
    BY <1>1 DEF RegisterDtor, DtorInv
  <2>1. CASE finalizer = "no"
    <3>1. /\ dtors \in Seq(Nat) /\ Len(dtors) = registered /\ dtorsRun = <<>>
          /\ \A k \in 1 .. registered : dtors[k] = registered + 1 - k
      BY <2>1 DEF DtorInv, CountsDown
    <3>2. /\ dtors' \in Seq(Nat) /\ Len(dtors') = registered + 1
          /\ dtors'[1] = registered + 1
          /\ \A k \in 2 .. registered + 1 : dtors'[k] = dtors[k - 1]
      BY <2>0, <3>1, NumberSeqs
    <3>3. CountsDown(dtors', 0, registered')
      <4>1. ASSUME NEW k \in 1 .. registered + 1
            PROVE  dtors'[k] = registered + 1 + 1 - (0 + k)
        <5>1. CASE k = 1
          BY <2>0, <3>2, <5>1
        <5>2. CASE k # 1
          <6>1. k - 1 \in 1 .. registered /\ k \in 2 .. registered + 1
            BY <2>0, <5>2
          <6>2. dtors'[k] = registered + 1 - (k - 1)
            BY <3>1, <3>2, <6>1
          <6>3. registered \in Nat /\ k \in Int
            BY <2>0
          <6>4. registered + 1 - (k - 1) = registered + 1 + 1 - (0 + k)
            BY <6>3
          <6> QED
            BY <6>2, <6>4
        <5> QED
          BY <5>1, <5>2
      <4> QED
        BY <2>0, <3>2, <4>1 DEF CountsDown
    <3> QED
      BY <2>0, <2>1, <3>1, <3>2, <3>3 DEF DtorInv
  <2>2. CASE finalizer = "running"
    BY <2>0, <2>2 DEF DtorInv
  <2> QED
    BY <2>0, <2>1, <2>2 DEF DtorInv
<1>2. ASSUME BeginFinalize PROVE DtorInv'
  <2>1. /\ finalizer = "no" /\ finalizer' = "running" /\ current' = dtors
        /\ UNCHANGED <<dtors, dtorsRun, registered, known>>
    BY <1>2 DEF BeginFinalize
  <2>2. /\ dtorsRun = <<>> /\ known = registered /\ Len(dtors) = registered
        /\ registered \in Nat /\ CountsDown(dtors, 0, registered)
    BY <2>1 DEF DtorInv
  <2>3. Len(<<>>) = 0 /\ <<>> \in Seq(Nat)
    OBVIOUS
  <2>4. CountsDown(dtorsRun, 0, known)
    BY <2>2, <2>3 DEF CountsDown
  <2> QED
    BY <2>1, <2>2, <2>3, <2>4 DEF DtorInv
<1>3. ASSUME RunDtor PROVE DtorInv'
  <2>1. /\ finalizer = "running" /\ current # <<>>
        /\ dtorsRun' = Append(dtorsRun, Head(current)) /\ current' = Tail(current)
        /\ UNCHANGED <<dtors, finalizer, registered, known>>
    BY <1>3 DEF RunDtor
  <2> DEFINE n == Len(dtorsRun)
             m == Len(current)
  <2>2. /\ n + m = known /\ known \in Nat /\ dtorsRun \in Seq(Nat) /\ current \in Seq(Nat)
        /\ \A k \in 1 .. n : dtorsRun[k] = known + 1 - (0 + k)
        /\ \A k \in 1 .. m : current[k] = known + 1 - (n + k)
    BY <2>1 DEF DtorInv, CountsDown
  <2>3. n \in Nat /\ m \in Nat /\ m >= 1
    BY <2>1, <2>2, NumberSeqs
  <2>4. /\ Head(current) = current[1] /\ Head(current) \in Nat
        /\ current' \in Seq(Nat) /\ Len(current') = m - 1
        /\ \A k \in 1 .. m - 1 : current'[k] = current[k + 1]
    BY <2>1, <2>2, NumberSeqs
  <2>5. /\ dtorsRun' \in Seq(Nat) /\ Len(dtorsRun') = n + 1
        /\ \A k \in 1 .. n : dtorsRun'[k] = dtorsRun[k]
        /\ dtorsRun'[n + 1] = Head(current)
    BY <2>1, <2>2, <2>4, NumberSeqs
  <2> HIDE DEF n, m
  <2>6. Head(current) = known + 1 - (n + 1)
    BY <2>2, <2>3, <2>4
  <2>7. ASSUME NEW k \in 1 .. n + 1 PROVE dtorsRun'[k] = known + 1 - (0 + k)
    <3>1. CASE k \in 1 .. n
      BY <2>2, <2>5, <3>1
    <3>2. CASE k = n + 1
      BY <2>2, <2>3, <2>5, <2>6, <3>2
    <3> QED
      BY <2>3, <3>1, <3>2
  <2>8. ASSUME NEW k \in 1 .. m - 1 PROVE current'[k] = known + 1 - ((n + 1) + k)
    <3>1. k + 1 \in 1 .. m
      BY <2>3
    <3>2. current'[k] = known + 1 - (n + (k + 1))
      BY <2>2, <2>4, <3>1
    <3> QED
      BY <2>2, <2>3, <3>2
  <2>9. CountsDown(dtorsRun', 0, known') /\ CountsDown(current', Len(dtorsRun'), known')
    BY <2>1, <2>4, <2>5, <2>7, <2>8 DEF CountsDown
  <2>10. Len(dtorsRun') + Len(current') = known'
    <3>1. (n + 1) + (m - 1) = n + m
      BY <2>3
    <3> QED
      BY <2>1, <2>2, <2>4, <2>5, <3>1
  <2> QED
    BY <2>1, <2>9, <2>10 DEF DtorInv
<1>4. ASSUME EndFinalize PROVE DtorInv'
  <2>1. /\ finalizer = "running" /\ current = <<>> /\ finalizer' = "ended"
        /\ UNCHANGED <<dtorsRun, registered, known>>
    BY <1>4 DEF EndFinalize
  <2>2. Len(current) = 0
    BY <2>1
  <2>3. /\ Len(dtorsRun) + Len(current) = known /\ CountsDown(dtorsRun, 0, known)
    BY <2>1 DEF DtorInv
  <2>4. Len(dtorsRun) \in Nat
    BY <2>3, NumberSeqs DEF CountsDown
  <2>5. Len(dtorsRun) = known
    BY <2>2, <2>3, <2>4
  <2> QED
    BY <2>1, <2>3, <2>5 DEF DtorInv
<1>5. CASE UNCHANGED dtorVars
  BY <1>5 DEF dtorVars, DtorInv, CountsDown
<1> QED
  BY <1>1, <1>2, <1>3, <1>4, <1>5
     DEF ThreadLifeNext, MoverNext, OnceNext, DtorNext, threadLifeVars

LEMMA DtorSound == DtorInv => DtorsRunOnce
<1> SUFFICES ASSUME DtorInv, finalizer = "ended"
             PROVE  dtorsRun = [k \in 1 .. known |-> known + 1 - k]
  BY DEF DtorsRunOnce
<1>1. /\ Len(dtorsRun) = known /\ known \in Nat /\ dtorsRun \in Seq(Nat)
      /\ \A k \in 1 .. known : dtorsRun[k] = known + 1 - (0 + k)
  BY DEF DtorInv, CountsDown
<1>2. dtorsRun = [k \in 1 .. known |-> dtorsRun[k]]
  BY <1>1
<1>3. \A k \in 1 .. known : dtorsRun[k] = known + 1 - k
  BY <1>1
<1> QED
  BY <1>2, <1>3

\* However the creators, the main thread, the callers of pthread_once and a
\* thread that ends interleave, each routine is run once and where it belongs.
THEOREM RoutinesStayOnce == ThreadLifeSpec => []RoutinesRunOnce
<1> DEFINE Inv == MoverInv /\ OnceInv /\ DtorInv
<1>1. ThreadLifeInit => Inv
  BY MoverStart, OnceStart, DtorStart
<1>2. Inv /\ [ThreadLifeNext]_threadLifeVars => Inv'
  BY MoverStep, OnceStep, DtorStep
<1>3. Inv => RoutinesRunOnce
  BY MoverSound, OnceSound, DtorSound DEF RoutinesRunOnce
<1> HIDE DEF Inv
<1> QED
  BY <1>1, <1>2, <1>3, PTL DEF ThreadLifeSpec

-----------------------------------------------------------------------------
(* TlsModules: the table of thread-local segments.                           *)

TlsSlots == [base : TlsBases \cup {NoBase}, generation : Nat]
InTable == 1 .. Len(modules)
SlotUsed(i) == modules[i].base # NoBase
Registers(t) == registering[t] # NotRegistering

TableTypes ==
    /\ modules \in Seq(TlsSlots) /\ generation \in Nat \ {0}
    /\ moduleId \in [TlsBases -> Nat] /\ registering \in [TlsThreads -> TlsSlots]

\* The id of a library that is registered names its slot, and the slot its id.
TableOwned ==
    /\ \A b \in TlsBases : moduleId[b] # NoModule =>
          moduleId[b] \in InTable /\ modules[moduleId[b]].base = b
    /\ \A i \in InTable : IF SlotUsed(i) THEN moduleId[modules[i].base] = i ELSE modules[i] = FreeSlot

\* Threads that are between counter and mutex have libraries of their own.
RegisteringApart ==
    \A t \in TlsThreads : Registers(t) =>
        /\ registering[t].base \in TlsBases /\ moduleId[registering[t].base] = NoModule
        /\ \A u \in TlsThreads : u # t => registering[u].base # registering[t].base

\* A generation was handed out before, and once.
GenerationsApart ==
    /\ \A t \in TlsThreads : Registers(t) =>
          /\ registering[t].generation \in 2 .. generation
          /\ \A u \in TlsThreads : u # t => registering[u].generation # registering[t].generation
          /\ \A i \in InTable : modules[i].generation # registering[t].generation
    /\ \A i \in InTable : SlotUsed(i) => modules[i].generation \in 2 .. generation
    /\ \A i, j \in InTable : SlotUsed(i) /\ modules[i].generation = modules[j].generation => i = j

TableInv == TableTypes /\ TableOwned /\ RegisteringApart /\ GenerationsApart

LEMMA LeastNat ==
    ASSUME NEW T \in SUBSET Nat, T # {}
    PROVE  \E x \in T : \A y \in T : x <= y
<1>1. PICK Rel : Rel = {ss \in Nat \X Nat : ss[1] < ss[2]}
  OBVIOUS
<1>2. IsWellFoundedOn(Rel, Nat)
  BY <1>1, NatLessThanWellFounded DEF OpToRel
<1>3. PICK x \in T : \A y \in T : ~(<<y, x>> \in Rel)
  BY <1>2, WFMin
<1>4. \A y \in T : ~(y < x)
  BY <1>1, <1>3
<1> QED
  BY <1>4

LEMMA MinIsLeast ==
    ASSUME NEW T \in SUBSET Nat, T # {}
    PROVE  Min(T) \in T /\ \A y \in T : Min(T) <= y
BY LeastNat DEF Min

\* The lookup by base finds the slot the library's id names.
LEMMA FindsOwnSlot ==
    ASSUME TableInv, NEW b \in TlsBases, moduleId[b] # NoModule
    PROVE  FindTlsModuleId(b) = moduleId[b] /\ moduleId[b] \in InTable
<1>1. PICK n \in Nat : n = Len(modules)
  BY DEF TableInv, TableTypes
<1>2. PICK k : k = moduleId[b]
  OBVIOUS
<1>3. k \in 1 .. n /\ modules[k].base = b /\ b # NoBase
  BY <1>1, <1>2, TlsAssumption DEF TableInv, TableOwned, InTable, NoBase
<1>4. \A i \in 1 .. n : modules[i].base = b => i = k
  BY <1>1, <1>2, <1>3 DEF TableInv, TableOwned, InTable, SlotUsed
<1>5. PICK T : T = {i \in 1 .. Len(modules) : modules[i].base = b} \cup {Len(modules) + 1}
  OBVIOUS
<1>6. T = {k, n + 1}
  BY <1>1, <1>3, <1>4, <1>5
<1>7. T \in SUBSET Nat /\ T # {}
  BY <1>1, <1>3, <1>6
<1>8. Min(T) \in T /\ \A y \in T : Min(T) <= y
  BY <1>7, MinIsLeast
<1>9. Min(T) = k
  BY <1>1, <1>3, <1>6, <1>8
<1>10. k % (n + 1) = k
  BY <1>1, <1>3
<1>11. FindTlsModuleId(b) = Min(T) % (Len(modules) + 1)
  BY <1>5 DEF FindTlsModuleId
<1> QED
  BY <1>1, <1>2, <1>3, <1>9, <1>10, <1>11 DEF InTable

\* The slot taken is free, or one more.
LEMMA SlotIsFree ==
    ASSUME TableInv
    PROVE  /\ SlotFor \in 1 .. Len(modules) + 1
           /\ SlotFor \in InTable => modules[SlotFor].base = NoBase
<1>1. PICK n \in Nat : n = Len(modules)
  BY DEF TableInv, TableTypes
<1>2. PICK T : T = {i \in 1 .. Len(modules) : modules[i].base = NoBase} \cup {Len(modules) + 1}
  OBVIOUS
<1>3. T \in SUBSET Nat /\ T # {}
  BY <1>1, <1>2
<1>4. Min(T) \in T
  BY <1>3, MinIsLeast
<1>5. SlotFor = Min(T)
  BY <1>2 DEF SlotFor
<1> QED
  BY <1>1, <1>2, <1>4, <1>5 DEF InTable

LEMMA TableStarts == TlsInit => TableInv
<1> SUFFICES ASSUME TlsInit PROVE TableInv
  OBVIOUS
<1>1. modules = <<>> /\ InTable = {}
  BY DEF TlsInit, InTable
<1>2. TableTypes
  BY DEF TlsInit, TableTypes, NoModule, NotRegistering, FreeSlot, TlsSlots
<1>3. \A t \in TlsThreads : ~Registers(t)
  BY DEF TlsInit, Registers
<1>4. TableOwned
  BY <1>1 DEF TlsInit, TableOwned
<1> QED
  BY <1>1, <1>2, <1>3, <1>4 DEF TableInv, RegisteringApart, GenerationsApart

LEMMA AdvanceKeeps ==
    ASSUME TableInv, NEW t \in TlsThreads, NEW b \in TlsBases, AdvanceGeneration(t, b)
    PROVE  TableInv'
<1>1. PICK g \in Nat : g = generation /\ g # 0
  BY DEF TableInv, TableTypes
<1>2. PICK r : r = [base |-> b, generation |-> g + 1]
  OBVIOUS
<1>3. r \in TlsSlots /\ r.base = b /\ r.generation = g + 1
  BY <1>1, <1>2 DEF TlsSlots
<1>4. /\ registering[t] = NotRegistering /\ moduleId[b] = NoModule
      /\ \A u \in TlsThreads : registering[u].base # b
      /\ generation' = g + 1 /\ registering' = [registering EXCEPT ![t] = r]
      /\ modules' = modules /\ moduleId' = moduleId
  BY <1>1, <1>2 DEF AdvanceGeneration
<1>5. /\ registering'[t] = r
      /\ \A u \in TlsThreads : u # t => registering'[u] = registering[u]
  BY <1>4 DEF TableInv, TableTypes
<1>6. TableTypes'
  <2>1. registering' \in [TlsThreads -> TlsSlots]
    BY <1>3, <1>4 DEF TableInv, TableTypes
  <2> QED
    BY <1>1, <1>4, <2>1 DEF TableInv, TableTypes
<1>7. TableOwned'
  BY <1>4 DEF TableInv, TableOwned, InTable, SlotUsed
<1>8. RegisteringApart'
  BY <1>3, <1>4, <1>5 DEF TableInv, RegisteringApart, Registers
<1>9. \A u \in TlsThreads : registering[u].generation # g + 1
  <2>1. \A u \in TlsThreads : Registers(u) => registering[u].generation \in 2 .. g
    BY <1>1 DEF TableInv, GenerationsApart
  <2>2. \A u \in TlsThreads : ~Registers(u) => registering[u].generation = 0
    BY DEF Registers, NotRegistering, FreeSlot
  <2> QED
    BY <1>1, <2>1, <2>2
<1>10. \A i \in InTable : modules[i].generation # g + 1
  <2>1. \A i \in InTable : SlotUsed(i) => modules[i].generation \in 2 .. g
    BY <1>1 DEF TableInv, GenerationsApart
  <2>2. \A i \in InTable : ~SlotUsed(i) => modules[i].generation = 0
    BY DEF TableInv, TableOwned, FreeSlot
  <2> QED
    BY <1>1, <2>1, <2>2
<1>11. GenerationsApart'
  <2>1. InTable' = InTable /\ \A i \in InTable : SlotUsed(i)' = SlotUsed(i)
    BY <1>4 DEF InTable, SlotUsed
  <2>2. \A u \in TlsThreads : u # t => Registers(u)' = Registers(u)
    BY <1>5 DEF Registers, NotRegistering
  <2>3. 2 .. g \subseteq 2 .. g + 1 /\ g + 1 \in 2 .. g + 1
    BY <1>1
  <2>4. ASSUME NEW u \in TlsThreads, Registers(u)'
        PROVE  /\ registering'[u].generation \in 2 .. g + 1
               /\ \A w \in TlsThreads : w # u => registering'[w].generation # registering'[u].generation
               /\ \A i \in InTable : modules[i].generation # registering'[u].generation
    <3>1. CASE u = t
      BY <1>3, <1>5, <1>9, <1>10, <2>3, <3>1
    <3>2. CASE u # t
      <4>1. Registers(u) /\ registering'[u] = registering[u]
        BY <1>5, <2>2, <2>4, <3>2
      <4>2. /\ registering[u].generation \in 2 .. g
            /\ \A w \in TlsThreads : w # u => registering[w].generation # registering[u].generation
            /\ \A i \in InTable : modules[i].generation # registering[u].generation
        BY <1>1, <4>1 DEF TableInv, GenerationsApart
      <4> QED
        BY <1>3, <1>5, <1>9, <2>3, <3>2, <4>1, <4>2
    <3> QED
      BY <3>1, <3>2
  <2>5. \A i \in InTable : SlotUsed(i) => modules[i].generation \in 2 .. g + 1
    BY <1>1, <2>3 DEF TableInv, GenerationsApart
  <2>6. \A i, j \in InTable : SlotUsed(i) /\ modules[i].generation = modules[j].generation => i = j
    BY DEF TableInv, GenerationsApart
  <2> QED
    BY <1>4, <2>1, <2>4, <2>5, <2>6 DEF GenerationsApart
<1> QED
  BY <1>6, <1>7, <1>8, <1>11 DEF TableInv

LEMMA RegisterKeeps ==
    ASSUME TableInv, NEW t \in TlsThreads, RegisterTlsModule(t)
    PROVE  TableInv'
<1>1. PICK n \in Nat : n = Len(modules)
  BY DEF TableInv, TableTypes
<1>2. PICK r \in TlsSlots : r = registering[t]
  BY DEF TableInv, TableTypes
<1>3. PICK b : b = r.base
  OBVIOUS
<1>4. PICK g : g = r.generation
  OBVIOUS
<1>5. PICK s : s = SlotFor
  OBVIOUS
<1>6. s \in 1 .. n + 1 /\ (s \in 1 .. n => modules[s].base = NoBase)
  BY <1>1, <1>5, SlotIsFree DEF InTable
<1>7. /\ r # NotRegistering
      /\ modules' = IF s > n THEN Append(modules, r) ELSE [modules EXCEPT ![s] = r]
      /\ moduleId' = [moduleId EXCEPT ![b] = s]
      /\ registering' = [registering EXCEPT ![t] = NotRegistering]
      /\ generation' = generation
  BY <1>1, <1>2, <1>3, <1>5 DEF RegisterTlsModule
<1>8. /\ b \in TlsBases /\ moduleId[b] = NoModule /\ b # NoBase
      /\ \A u \in TlsThreads : u # t => registering[u].base # b
      /\ g \in 2 .. generation
      /\ \A u \in TlsThreads : u # t => registering[u].generation # g
      /\ \A i \in 1 .. n : modules[i].generation # g
  BY <1>1, <1>2, <1>3, <1>4, <1>7, TlsAssumption
     DEF TableInv, RegisteringApart, GenerationsApart, Registers, InTable, NoBase
<1>9. PICK m : m = Len(modules')
  OBVIOUS
<1>10. /\ modules' \in Seq(TlsSlots) /\ m \in {n, n + 1} /\ s \in 1 .. m
       /\ \A i \in 1 .. m : i # s => i \in 1 .. n /\ modules'[i] = modules[i]
       /\ \A i \in 1 .. n : i \in 1 .. m
       /\ modules'[s] = r
  <2>0. modules \in Seq(TlsSlots)
    BY DEF TableInv, TableTypes
  <2>1. CASE s > n
    <3>1. modules' = Append(modules, r) /\ s = n + 1
      BY <1>1, <1>6, <1>7, <2>1
    <3>2. modules' \in Seq(TlsSlots) /\ m = n + 1
      BY <1>1, <1>9, <2>0, <3>1
    <3>3. modules'[s] = r
      BY <1>1, <2>0, <3>1
    <3>4. \A i \in 1 .. n : modules'[i] = modules[i]
      BY <1>1, <2>0, <3>1
    <3> QED
      BY <1>1, <3>1, <3>2, <3>3, <3>4
  <2>2. CASE ~(s > n)
    <3>1. modules' = [modules EXCEPT ![s] = r] /\ s \in 1 .. n
      BY <1>1, <1>6, <1>7, <2>2
    <3>2. modules' \in Seq(TlsSlots) /\ m = n
      BY <1>1, <1>9, <2>0, <3>1
    <3> QED
      BY <1>1, <2>0, <3>1, <3>2
  <2> QED
    BY <2>1, <2>2
<1>11. InTable = 1 .. n /\ InTable' = 1 .. m
  BY <1>1, <1>9 DEF InTable
<1>12. /\ registering'[t] = NotRegistering
       /\ \A u \in TlsThreads : u # t => registering'[u] = registering[u]
       /\ registering' \in [TlsThreads -> TlsSlots]
  <2>1. NotRegistering \in TlsSlots
    BY DEF NotRegistering, FreeSlot, TlsSlots
  <2> QED
    BY <1>7, <2>1 DEF TableInv, TableTypes
<1>13. /\ moduleId'[b] = s /\ \A c \in TlsBases : c # b => moduleId'[c] = moduleId[c]
       /\ moduleId' \in [TlsBases -> Nat]
  BY <1>1, <1>6, <1>7, <1>8 DEF TableInv, TableTypes
<1>14. \A i \in 1 .. n : modules[i].base # b
  <2>1. \A i \in 1 .. n : modules[i].base = b => moduleId[b] = i
    BY <1>8, <1>11 DEF TableInv, TableOwned, SlotUsed
  <2> QED
    BY <1>1, <1>8, <2>1 DEF NoModule
<1>15. TableTypes'
  BY <1>7, <1>10, <1>12, <1>13 DEF TableInv, TableTypes
<1>16. TableOwned'
  <2>1. ASSUME NEW c \in TlsBases, moduleId'[c] # NoModule
        PROVE  moduleId'[c] \in 1 .. m /\ modules'[moduleId'[c]].base = c
    <3>1. CASE c = b
      BY <1>3, <1>10, <1>13, <3>1
    <3>2. CASE c # b
      <4>1. PICK k : k = moduleId[c]
        OBVIOUS
      <4>2. k \in 1 .. n /\ modules[k].base = c /\ moduleId'[c] = k
        BY <1>11, <1>13, <2>1, <3>2, <4>1 DEF TableInv, TableOwned
      <4>3. k # s
        BY <1>6, <4>2, TlsAssumption DEF NoBase
      <4> QED
        BY <1>10, <4>2, <4>3
    <3> QED
      BY <3>1, <3>2
  <2>2. ASSUME NEW i \in 1 .. m
        PROVE  IF modules'[i].base # NoBase THEN moduleId'[modules'[i].base] = i
               ELSE modules'[i] = FreeSlot
    <3>1. CASE i = s
      BY <1>3, <1>8, <1>10, <1>13, <3>1
    <3>2. CASE i # s
      <4>1. i \in 1 .. n /\ modules'[i] = modules[i]
        BY <1>10, <3>2
      <4>2. IF modules[i].base # NoBase THEN moduleId[modules[i].base] = i
            ELSE modules[i] = FreeSlot
        BY <1>11, <4>1 DEF TableInv, TableOwned, SlotUsed
      <4>3. modules[i].base # NoBase => modules[i].base \in TlsBases \ {b}
        <5>1. modules[i] \in TlsSlots
          BY <1>1, <4>1 DEF TableInv, TableTypes
        <5> QED
          BY <1>14, <4>1, <5>1 DEF TlsSlots
      <4> QED
        BY <1>13, <4>1, <4>2, <4>3
    <3> QED
      BY <3>1, <3>2
  <2> QED
    BY <1>11, <2>1, <2>2 DEF TableOwned, SlotUsed
<1>17. \A u \in TlsThreads : Registers(u)' => u # t /\ Registers(u) /\ registering'[u] = registering[u]
  BY <1>12 DEF Registers, NotRegistering
<1>18. RegisteringApart'
  <2>1. ASSUME NEW u \in TlsThreads, Registers(u)'
        PROVE  /\ registering'[u].base \in TlsBases /\ moduleId'[registering'[u].base] = NoModule
               /\ \A w \in TlsThreads : w # u => registering'[w].base # registering'[u].base
    <3>1. u # t /\ Registers(u) /\ registering'[u] = registering[u]
      BY <1>17, <2>1
    <3>2. /\ registering[u].base \in TlsBases /\ moduleId[registering[u].base] = NoModule
          /\ \A w \in TlsThreads : w # u => registering[w].base # registering[u].base
      BY <3>1 DEF TableInv, RegisteringApart
    <3>3. registering[u].base # b
      BY <1>8, <3>1
    <3>4. NotRegistering.base # registering[u].base
      BY <3>2, TlsAssumption DEF NotRegistering, FreeSlot, NoBase
    <3> QED
      BY <1>12, <1>13, <3>1, <3>2, <3>3, <3>4
  <2> QED
    BY <2>1 DEF RegisteringApart
<1>19. GenerationsApart'
  <2>1. ASSUME NEW u \in TlsThreads, Registers(u)'
        PROVE  /\ registering'[u].generation \in 2 .. generation
               /\ \A w \in TlsThreads : w # u => registering'[w].generation # registering'[u].generation
               /\ \A i \in 1 .. m : modules'[i].generation # registering'[u].generation
    <3>1. u # t /\ Registers(u) /\ registering'[u] = registering[u]
      BY <1>17, <2>1
    <3>2. /\ registering[u].generation \in 2 .. generation
          /\ \A w \in TlsThreads : w # u => registering[w].generation # registering[u].generation
          /\ \A i \in 1 .. n : modules[i].generation # registering[u].generation
      BY <1>11, <3>1 DEF TableInv, GenerationsApart
    <3>3. registering[u].generation # g
      BY <1>8, <3>1
    <3>4. registering'[t].generation # registering[u].generation
      <4>1. registering'[t].generation = 0
        BY <1>12 DEF NotRegistering, FreeSlot
      <4> QED
        BY <3>2, <4>1 DEF TableInv, TableTypes
    <3>5. \A w \in TlsThreads : w # u => registering'[w].generation # registering[u].generation
      BY <1>12, <3>2, <3>4
    <3>6. \A i \in 1 .. m : modules'[i].generation # registering[u].generation
      BY <1>4, <1>10, <3>2, <3>3
    <3> QED
      BY <3>1, <3>2, <3>5, <3>6
  <2>2. ASSUME NEW i \in 1 .. m, modules'[i].base # NoBase PROVE modules'[i].generation \in 2 .. generation
    <3>1. CASE i = s
      BY <1>4, <1>8, <1>10, <3>1
    <3>2. CASE i # s
      BY <1>10, <1>11, <2>2, <3>2 DEF TableInv, GenerationsApart, SlotUsed
    <3> QED
      BY <3>1, <3>2
  <2>3. ASSUME NEW i \in 1 .. m, NEW j \in 1 .. m, modules'[i].base # NoBase,
               modules'[i].generation = modules'[j].generation
        PROVE  i = j
    <3>1. CASE i # s /\ j # s
      BY <1>10, <1>11, <2>3, <3>1 DEF TableInv, GenerationsApart, SlotUsed
    <3>2. CASE i = s \/ j = s
      BY <1>4, <1>8, <1>10, <2>3, <3>2
    <3> QED
      BY <3>1, <3>2
  <2> QED
    BY <1>7, <1>11, <2>1, <2>2, <2>3 DEF GenerationsApart, SlotUsed
<1> QED
  BY <1>15, <1>16, <1>18, <1>19 DEF TableInv

LEMMA UnregisterKeeps ==
    ASSUME TableInv, NEW b \in TlsBases, UnregisterTlsModule(b)
    PROVE  TableInv'
<1>1. PICK n \in Nat : n = Len(modules)
  BY DEF TableInv, TableTypes
<1>2. PICK s : s = moduleId[b]
  OBVIOUS
<1>3. s \in 1 .. n /\ s = FindTlsModuleId(b) /\ modules[s].base = b
  <2>1. moduleId[b] # NoModule
    BY DEF UnregisterTlsModule
  <2> QED
    BY <1>1, <1>2, <2>1, FindsOwnSlot DEF InTable, TableInv, TableOwned
<1>4. PICK f \in TlsSlots : f = FreeSlot
  BY DEF FreeSlot, TlsSlots
<1>5. /\ modules' = [modules EXCEPT ![s] = f]
      /\ moduleId' = [moduleId EXCEPT ![b] = NoModule]
      /\ generation' = generation /\ registering' = registering
  BY <1>3, <1>4 DEF UnregisterTlsModule
<1>6. f.base = NoBase /\ f.generation = 0
  BY <1>4 DEF FreeSlot
<1>7. /\ modules' \in Seq(TlsSlots) /\ Len(modules') = n /\ modules'[s] = f
      /\ \A i \in 1 .. n : i # s => modules'[i] = modules[i]
  BY <1>1, <1>3, <1>5 DEF TableInv, TableTypes
<1>8. InTable = 1 .. n /\ InTable' = 1 .. n
  BY <1>1, <1>7 DEF InTable
<1>9. /\ moduleId'[b] = NoModule /\ moduleId' \in [TlsBases -> Nat]
      /\ \A c \in TlsBases : c # b => moduleId'[c] = moduleId[c]
  BY <1>5 DEF TableInv, TableTypes, NoModule
<1>10. TableTypes'
  BY <1>5, <1>7, <1>9 DEF TableInv, TableTypes
<1>11. \A i \in 1 .. n : modules[i].base = b => i = s
  BY <1>2, <1>8, TlsAssumption DEF TableInv, TableOwned, SlotUsed, NoBase
<1>12. \A i \in 1 .. n : modules[i].base # NoBase => modules[i].base \in TlsBases
  <2>1. \A i \in 1 .. n : modules[i] \in TlsSlots
    BY <1>1 DEF TableInv, TableTypes
  <2> QED
    BY <2>1 DEF TlsSlots
<1>13. TableOwned'
  <2>1. ASSUME NEW c \in TlsBases, moduleId'[c] # NoModule
        PROVE  moduleId'[c] \in 1 .. n /\ modules'[moduleId'[c]].base = c
    <3>1. c # b /\ moduleId'[c] = moduleId[c]
      BY <1>9, <2>1
    <3>2. moduleId[c] \in 1 .. n /\ modules[moduleId[c]].base = c
      BY <1>8, <2>1, <3>1 DEF TableInv, TableOwned
    <3>3. moduleId[c] # s
      BY <1>3, <3>1, <3>2
    <3> QED
      BY <1>7, <3>1, <3>2, <3>3
  <2>2. ASSUME NEW i \in 1 .. n
        PROVE  IF modules'[i].base # NoBase THEN moduleId'[modules'[i].base] = i
               ELSE modules'[i] = FreeSlot
    <3>1. CASE i = s
      BY <1>4, <1>6, <1>7, <3>1
    <3>2. CASE i # s
      BY <1>7, <1>8, <1>9, <1>11, <1>12, <3>2 DEF TableInv, TableOwned, SlotUsed
    <3> QED
      BY <3>1, <3>2
  <2> QED
    BY <1>8, <2>1, <2>2 DEF TableOwned, SlotUsed
<1>14. \A u \in TlsThreads : Registers(u)' = Registers(u)
  BY <1>5 DEF Registers
<1>15. RegisteringApart'
  <2>1. \A c \in TlsBases : moduleId[c] = NoModule => moduleId'[c] = NoModule
    BY <1>9
  <2> QED
    BY <1>5, <1>14, <2>1 DEF TableInv, RegisteringApart
<1>16. GenerationsApart'
  <2>1. \A u \in TlsThreads : Registers(u) => registering[u].generation # 0
    BY DEF TableInv, GenerationsApart, TableTypes
  <2>2. \A i \in 1 .. n : modules[i].base # NoBase => modules[i].generation # 0
    BY <1>8 DEF TableInv, GenerationsApart, TableTypes, SlotUsed
  <2>3. ASSUME NEW u \in TlsThreads, Registers(u), NEW i \in 1 .. n
        PROVE  modules'[i].generation # registering[u].generation
    BY <1>6, <1>7, <1>8, <2>1, <2>3 DEF TableInv, GenerationsApart
  <2>4. ASSUME NEW i \in 1 .. n, modules'[i].base # NoBase PROVE modules'[i].generation \in 2 .. generation
    BY <1>6, <1>7, <1>8, <2>4 DEF TableInv, GenerationsApart, SlotUsed
  <2>5. ASSUME NEW i \in 1 .. n, NEW j \in 1 .. n, modules'[i].base # NoBase,
               modules'[i].generation = modules'[j].generation
        PROVE  i = j
    BY <1>6, <1>7, <1>8, <2>2, <2>5 DEF TableInv, GenerationsApart, SlotUsed
  <2> QED
    BY <1>5, <1>8, <1>14, <2>3, <2>4, <2>5 DEF TableInv, GenerationsApart, SlotUsed
<1> QED
  BY <1>10, <1>13, <1>15, <1>16 DEF TableInv

LEMMA TableKept == TableInv /\ [TlsNext]_tlsVars => TableInv'
<1> SUFFICES ASSUME TableInv, [TlsNext]_tlsVars PROVE TableInv'
  OBVIOUS
<1>1. ASSUME NEW t \in TlsThreads, NEW b \in TlsBases, AdvanceGeneration(t, b) PROVE TableInv'
  BY <1>1, AdvanceKeeps
<1>2. ASSUME NEW t \in TlsThreads, RegisterTlsModule(t) PROVE TableInv'
  BY <1>2, RegisterKeeps
<1>3. ASSUME NEW b \in TlsBases, UnregisterTlsModule(b) PROVE TableInv'
  BY <1>3, UnregisterKeeps
<1>4. CASE UNCHANGED tlsVars
  BY <1>4 DEF tlsVars, TableInv, TableTypes, TableOwned, RegisteringApart, GenerationsApart,
              InTable, SlotUsed, Registers
<1> QED
  BY <1>1, <1>2, <1>3, <1>4 DEF TlsNext

LEMMA TableIsOwned == TableInv => ModulesOwned
<1> SUFFICES ASSUME TableInv PROVE ModulesOwned
  OBVIOUS
<1>1. ASSUME NEW b \in TlsBases, moduleId[b] # NoModule
      PROVE  GetTlsModule(moduleId[b]).base = b /\ FindTlsModuleId(b) = moduleId[b]
  <2>1. FindTlsModuleId(b) = moduleId[b] /\ moduleId[b] \in InTable
    BY <1>1, FindsOwnSlot
  <2>2. modules[moduleId[b]].base = b /\ b # NoBase
    BY <1>1, TlsAssumption DEF TableInv, TableOwned, NoBase
  <2> QED
    BY <2>1, <2>2 DEF GetTlsModule, InTable
<1>2. \A i \in InTable : SlotUsed(i) => moduleId[modules[i].base] = i
  BY DEF TableInv, TableOwned
<1>3. \A i, j \in InTable :
          modules[i] # FreeSlot /\ modules[i].generation = modules[j].generation => i = j
  BY DEF TableInv, TableOwned, GenerationsApart
<1> QED
  BY <1>1, <1>2, <1>3 DEF ModulesOwned, InTable, SlotUsed
-----------------------------------------------------------------------------
(* TlsModules: the block allocator.                                          *)

Memory == [Blocks -> [next : Blocks \cup {NullBlock}, count : 0 .. BlocksPerPage]]
MappedBlocks == UNION {BlocksOf(p) : p \in ToSet(pages)}
BlockTypes ==
    /\ mapped \in 0 .. MaxPages /\ pages \in Seq(1 .. mapped)
    /\ info \in Memory
    /\ given \subseteq Blocks /\ IsFiniteSet(given) /\ allocated = Cardinality(given)
\* The blocks of a run of c from b on.
RunOf(b, c) == {x \in Blocks : x[1] = b[1] /\ b[2] <= x[2] /\ x[2] < b[2] + c}
RunIn(memory, b) == RunOf(b, memory[b].count)

\* l is the list that starts with first: the heads of its runs, in order.
Linked(memory, l, first) ==
    /\ l \in Seq(Blocks) /\ first = IF l = <<>> THEN NullBlock ELSE l[1]
    /\ \A i \in 1 .. Len(l) : memory[l[i]].next = IF i = Len(l) THEN NullBlock ELSE l[i + 1]
RunsFit(memory, l) == \A i \in 1 .. Len(l) :
    memory[l[i]].count >= 1 /\ l[i][2] + memory[l[i]].count <= BlocksPerPage
\* Every block of all is in one run of the list or held.
Covered(memory, l, held, all) ==
    /\ \A i, j \in 1 .. Len(l) : i # j => RunIn(memory, l[i]) \cap RunIn(memory, l[j]) = {}
    /\ \A i \in 1 .. Len(l) : RunIn(memory, l[i]) \cap held = {}
    /\ \A x : x \in all <=> x \in held \/ \E i \in 1 .. Len(l) : x \in RunIn(memory, l[i])
FreeListIs(memory, l, first, held, all) ==
    Linked(memory, l, first) /\ RunsFit(memory, l) /\ Covered(memory, l, held, all)

BlockInv == BlockTypes /\ \E l : FreeListIs(info, l, freeList, given, MappedBlocks)

LEMMA BlocksAre ==
    /\ \A b \in Blocks : b[1] \in PageIds /\ b[2] \in 0 .. BlocksPerPage - 1 /\ b = <<b[1], b[2]>>
    /\ \A p \in PageIds, k \in 0 .. BlocksPerPage - 1 : <<p, k>> \in Blocks
    /\ NullBlock \notin Blocks /\ PageIds \subseteq Nat \ {0} /\ BlocksPerPage \in Nat \ {0}
BY BlockAssumption DEF Blocks, PageIds, NullBlock

LEMMA RunBlocksAre ==
    ASSUME NEW b \in Blocks, NEW c \in Nat, info[b].count = c, b[2] + c <= BlocksPerPage
    PROVE  RunBlocks(b) = RunOf(b, c)
<1>1. RunBlocks(b) = {<<b[1], b[2] + k>> : k \in 0 .. c - 1}
  BY DEF RunBlocks
<1>2. ASSUME NEW k \in 0 .. c - 1 PROVE <<b[1], b[2] + k>> \in RunOf(b, c)
  <2>1. b[1] \in PageIds /\ b[2] \in 0 .. BlocksPerPage - 1 /\ BlocksPerPage \in Nat
    BY BlocksAre
  <2>2. PICK j : j = b[2] + k
    OBVIOUS
  <2>3. j \in 0 .. BlocksPerPage - 1 /\ b[2] <= j /\ j < b[2] + c
    BY <2>1, <2>2
  <2>4. PICK x : x = <<b[1], j>>
    OBVIOUS
  <2>5. x \in Blocks /\ x[1] = b[1] /\ x[2] = j
    BY <2>1, <2>3, <2>4, BlocksAre
  <2> QED
    BY <2>2, <2>3, <2>4, <2>5 DEF RunOf
<1>3. ASSUME NEW x \in RunOf(b, c) PROVE \E k \in 0 .. c - 1 : x = <<b[1], b[2] + k>>
  <2>1. /\ x \in Blocks /\ x[1] = b[1] /\ b[2] <= x[2] /\ x[2] < b[2] + c
        /\ x[2] \in Nat /\ b[2] \in Nat /\ x = <<x[1], x[2]>>
    BY BlocksAre DEF RunOf
  <2>2. x[2] - b[2] \in 0 .. c - 1 /\ b[2] + (x[2] - b[2]) = x[2]
    BY <2>1
  <2> QED
    BY <2>1, <2>2
<1> QED
  BY <1>1, <1>2, <1>3

LEMMA RunOfOne ==
    ASSUME NEW b \in Blocks
    PROVE  RunOf(b, 1) = {b}
<1>1. b[2] \in Nat /\ b = <<b[1], b[2]>>
  BY BlocksAre
<1>2. \A x \in RunOf(b, 1) : x = b
  <2> TAKE x \in RunOf(b, 1)
  <2>1. x[1] = b[1] /\ b[2] <= x[2] /\ x[2] < b[2] + 1 /\ x[2] \in Nat /\ x = <<x[1], x[2]>>
    BY BlocksAre DEF RunOf
  <2>2. x[2] = b[2]
    BY <1>1, <2>1
  <2> QED
    BY <1>1, <2>1, <2>2
<1>3. b \in RunOf(b, 1)
  BY <1>1 DEF RunOf
<1> QED
  BY <1>2, <1>3

LEMMA RunOfMore ==
    ASSUME NEW b \in Blocks, NEW c \in Nat, c > 1, b[2] + c <= BlocksPerPage
    PROVE  /\ After(b) \in Blocks /\ After(b) # b /\ After(b)[2] = b[2] + 1
           /\ After(b) \in RunOf(b, c)
           /\ RunOf(b, c) = {b} \cup RunOf(After(b), c - 1)
           /\ b \notin RunOf(After(b), c - 1)
<1>1. b[1] \in PageIds /\ b[2] \in 0 .. BlocksPerPage - 1 /\ b = <<b[1], b[2]>> /\ BlocksPerPage \in Nat
  BY BlocksAre
<1>2. PICK a : a = After(b)
  OBVIOUS
<1>3. b[2] + 1 \in 0 .. BlocksPerPage - 1
  BY <1>1
<1>4. a \in Blocks /\ a[1] = b[1] /\ a[2] = b[2] + 1
  BY <1>1, <1>2, <1>3, BlocksAre DEF After
<1>5. a # b
  BY <1>1, <1>4
<1>6. a \in RunOf(b, c)
  BY <1>1, <1>4 DEF RunOf
<1>7. b \notin RunOf(a, c - 1)
  BY <1>1, <1>4 DEF RunOf
<1>8. b \in RunOf(b, c)
  BY <1>1 DEF RunOf
<1>9. ASSUME NEW x \in Blocks, x # b PROVE x \in RunOf(b, c) <=> x \in RunOf(a, c - 1)
  <2>1. x[2] \in Nat /\ x = <<x[1], x[2]>>
    BY BlocksAre
  <2>2. x[1] = b[1] => x[2] # b[2]
    BY <1>1, <1>9, <2>1
  <2>3. x[1] = b[1] => (b[2] <= x[2] <=> a[2] <= x[2])
    BY <1>1, <1>4, <2>1, <2>2
  <2>4. b[2] + c = a[2] + (c - 1)
    BY <1>1, <1>4
  <2> QED
    BY <1>4, <2>3, <2>4 DEF RunOf
<1>10. RunOf(b, c) = {b} \cup RunOf(a, c - 1)
  BY <1>7, <1>8, <1>9 DEF RunOf
<1> QED
  BY <1>2, <1>4, <1>5, <1>6, <1>7, <1>10

LEMMA RunOfPage ==
    ASSUME NEW p \in PageIds
    PROVE  /\ <<p, 0>> \in Blocks /\ <<p, 0>>[2] = 0 /\ <<p, 0>>[1] = p
           /\ RunOf(<<p, 0>>, BlocksPerPage) = BlocksOf(p)
           /\ \A x \in BlocksOf(p) : x \in Blocks /\ x[1] = p
<1>1. BlocksPerPage \in Nat \ {0}
  BY BlocksAre
<1>2. PICK b : b = <<p, 0>>
  OBVIOUS
<1>3. b \in Blocks /\ b[1] = p /\ b[2] = 0
  BY <1>1, <1>2, BlocksAre
<1>4. \A x \in BlocksOf(p) : x \in Blocks /\ x[1] = p
  BY DEF BlocksOf, Blocks
<1>5. \A x \in Blocks : x[1] = p => x \in BlocksOf(p)
  BY DEF BlocksOf, Blocks
<1>6. \A x \in Blocks : 0 <= x[2] /\ x[2] < 0 + BlocksPerPage
  BY <1>1, BlocksAre
<1>7. RunOf(b, BlocksPerPage) = BlocksOf(p)
  BY <1>3, <1>4, <1>5, <1>6 DEF RunOf
<1> QED
  BY <1>2, <1>3, <1>4, <1>7

\* Nothing outside a list is one of its heads.
LEMMA HeadsApart ==
    ASSUME NEW memory \in Memory, NEW l, NEW first, NEW held, NEW all,
           FreeListIs(memory, l, first, held, all)
    PROVE  /\ \A i \in 1 .. Len(l) : l[i] \in Blocks /\ l[i] \in RunIn(memory, l[i]) /\ l[i] \notin held
           /\ \A i, j \in 1 .. Len(l) : i # j => l[i] # l[j] /\ l[i] \notin RunIn(memory, l[j])
           /\ Len(l) \in Nat
<1>1. l \in Seq(Blocks) /\ Len(l) \in Nat
  BY DEF FreeListIs, Linked
<1>2. ASSUME NEW i \in 1 .. Len(l) PROVE l[i] \in Blocks /\ l[i] \in RunIn(memory, l[i])
  <2>1. l[i] \in Blocks
    BY <1>1
  <2>2. l[i][2] \in Nat /\ memory[l[i]].count \in Nat
    BY <2>1, BlocksAre DEF Memory
  <2>3. memory[l[i]].count >= 1
    BY DEF FreeListIs, RunsFit
  <2> QED
    BY <2>1, <2>2, <2>3 DEF RunIn, RunOf
<1> QED
  BY <1>1, <1>2 DEF FreeListIs, Covered

LEMMA RestIs ==
    ASSUME NEW memory \in Memory, NEW front \in Blocks, NEW c \in Nat \ {0},
           memory[front].count = c, front[2] + c <= BlocksPerPage
    PROVE  /\ Rest(front, memory) \in Memory
           /\ c > 1 => /\ Rest(front, memory)[After(front)].next = memory[front].next
                       /\ Rest(front, memory)[After(front)].count = c - 1
           /\ \A x \in Blocks : x # front /\ (c > 1 => x # After(front)) => Rest(front, memory)[x] = memory[x]
<1>1. PICK z : z = Zeroed
  OBVIOUS
<1>2. z \in [next : Blocks \cup {NullBlock}, count : 0 .. BlocksPerPage]
  BY <1>1, BlocksAre DEF Zeroed
<1>3. CASE c > 1
  <2>1. PICK a : a = After(front)
    OBVIOUS
  <2>2. a \in Blocks /\ a # front
    BY <1>3, <2>1, RunOfMore
  <2>3. PICK m : m = memory[front]
    OBVIOUS
  <2>4. m \in [next : Blocks \cup {NullBlock}, count : 0 .. BlocksPerPage] /\ m.count = c
    BY <2>3 DEF Memory
  <2>5. PICK r : r = [m EXCEPT !.count = @ - 1]
    OBVIOUS
  <2>6. r \in [next : Blocks \cup {NullBlock}, count : 0 .. BlocksPerPage] /\ r.count = c - 1 /\ r.next = m.next
    BY <1>3, <2>4, <2>5, BlocksAre
  <2>7. Rest(front, memory) = [memory EXCEPT ![a] = r, ![front] = z]
    BY <1>1, <1>3, <2>1, <2>3, <2>5 DEF Rest
  <2>8. [memory EXCEPT ![a] = r, ![front] = z] \in Memory
    BY <1>2, <2>6 DEF Memory
  <2>9. Rest(front, memory)[a] = r
    BY <2>2, <2>7 DEF Memory
  <2>10. \A x \in Blocks : x # front /\ x # a => Rest(front, memory)[x] = memory[x]
    BY <2>7 DEF Memory
  <2> QED
    BY <1>3, <2>1, <2>3, <2>6, <2>7, <2>8, <2>9, <2>10
<1>4. CASE ~(c > 1)
  <2>1. Rest(front, memory) = [memory EXCEPT ![front] = z]
    BY <1>1, <1>4 DEF Rest
  <2>2. [memory EXCEPT ![front] = z] \in Memory
    BY <1>2 DEF Memory
  <2>3. \A x \in Blocks : x # front => Rest(front, memory)[x] = memory[x]
    BY <2>1 DEF Memory
  <2> QED
    BY <1>4, <2>1, <2>2, <2>3
<1> QED
  BY <1>3, <1>4

\* Giving away the head of a list leaves the list of the other blocks.
LEMMA GivesHead ==
    ASSUME NEW memory \in Memory, NEW l, NEW front, NEW held, NEW all, front # NullBlock,
           FreeListIs(memory, l, front, held, all)
    PROVE  /\ front \in Blocks /\ front \notin held /\ Rest(front, memory) \in Memory
           /\ \E k : FreeListIs(Rest(front, memory), k,
                                IF memory[front].count > 1 THEN After(front) ELSE memory[front].next,
                                held \cup {front}, all)
<1>1. l \in Seq(Blocks) /\ Len(l) \in Nat \ {0} /\ front = l[1]
  <2>1. l \in Seq(Blocks) /\ l # <<>> /\ front = l[1]
    BY DEF FreeListIs, Linked
  <2> QED
    BY <2>1
<1>2. PICK n \in Nat \ {0} : n = Len(l)
  BY <1>1
<1>3. /\ \A i \in 1 .. n : l[i] \in Blocks /\ l[i] \in RunIn(memory, l[i]) /\ l[i] \notin held
      /\ \A i, j \in 1 .. n : i # j => l[i] # l[j] /\ l[i] \notin RunIn(memory, l[j])
  BY <1>2, HeadsApart
<1>4. 1 \in 1 .. n
  BY <1>2
<1>5. front \in Blocks /\ front \notin held
  BY <1>1, <1>3, <1>4
<1>6. PICK c : c = memory[front].count
  OBVIOUS
<1>7. c \in Nat \ {0} /\ front[2] + c <= BlocksPerPage
  <2>1. memory[front].count >= 1 /\ front[2] + memory[front].count <= BlocksPerPage
    BY <1>1, <1>2, <1>4 DEF FreeListIs, RunsFit
  <2>2. memory[front].count \in Nat
    BY <1>5, BlocksAre DEF Memory
  <2> QED
    BY <1>6, <2>1, <2>2
<1>8. PICK m : m = Rest(front, memory)
  OBVIOUS
<1>9. /\ m \in Memory
      /\ c > 1 => m[After(front)].next = memory[front].next /\ m[After(front)].count = c - 1
      /\ \A x \in Blocks : x # front /\ (c > 1 => x # After(front)) => m[x] = memory[x]
  BY <1>5, <1>6, <1>7, <1>8, RestIs
<1>10. RunIn(memory, front) = RunOf(front, c)
  BY <1>6 DEF RunIn
<1>11. ASSUME NEW i \in 2 .. n
       PROVE  i \in 1 .. n /\ l[i] \in Blocks /\ m[l[i]] = memory[l[i]] /\ RunIn(m, l[i]) = RunIn(memory, l[i])
  <2>1. i \in 1 .. n /\ i # 1 /\ l[i] \in Blocks /\ l[i] # front /\ l[i] \notin RunOf(front, c)
    BY <1>1, <1>2, <1>3, <1>4, <1>10
  <2>2. c > 1 => l[i] # After(front)
    BY <1>5, <1>7, <2>1, RunOfMore
  <2> QED
    BY <1>9, <2>1, <2>2 DEF RunIn
<1>12. \A i \in 1 .. n : memory[l[i]].next = IF i = n THEN NullBlock ELSE l[i + 1]
  BY <1>2 DEF FreeListIs, Linked
<1>13. \A i \in 1 .. n : memory[l[i]].count >= 1 /\ l[i][2] + memory[l[i]].count <= BlocksPerPage
  BY <1>2 DEF FreeListIs, RunsFit
<1>14. /\ \A i, j \in 1 .. n : i # j => RunIn(memory, l[i]) \cap RunIn(memory, l[j]) = {}
       /\ \A i \in 1 .. n : RunIn(memory, l[i]) \cap held = {}
       /\ \A x : x \in all <=> x \in held \/ \E i \in 1 .. n : x \in RunIn(memory, l[i])
  BY <1>2 DEF FreeListIs, Covered
<1>15. CASE c > 1
  <2>1. PICK a : a = After(front)
    OBVIOUS
  <2>2. /\ a \in Blocks /\ a # front /\ a[2] = front[2] + 1 /\ a \in RunOf(front, c)
        /\ RunOf(front, c) = {front} \cup RunOf(a, c - 1) /\ front \notin RunOf(a, c - 1)
    BY <1>5, <1>7, <1>15, <2>1, RunOfMore
  <2>3. PICK k : k = [l EXCEPT ![1] = a]
    OBVIOUS
  <2>4. /\ k \in Seq(Blocks) /\ Len(k) = n /\ k[1] = a
        /\ \A i \in 2 .. n : k[i] = l[i]
    BY <1>1, <1>2, <2>2, <2>3
  <2>5. RunIn(m, a) = RunOf(a, c - 1)
    BY <1>9, <1>15, <2>1 DEF RunIn
  <2>6. \A i \in 1 .. n : i = 1 \/ i \in 2 .. n
    BY <1>2
  <2>7. Linked(m, k, a)
    <3>1. k # <<>>
      BY <1>2, <2>4
    <3>2. ASSUME NEW i \in 1 .. n PROVE m[k[i]].next = IF i = n THEN NullBlock ELSE k[i + 1]
      <4>1. i # n => i + 1 \in 2 .. n
        BY <1>2
      <4>2. m[k[i]].next = memory[l[i]].next
        BY <1>1, <1>9, <1>11, <1>15, <2>1, <2>4, <2>6
      <4> QED
        BY <1>12, <2>4, <4>1, <4>2
    <3> QED
      BY <2>4, <3>1, <3>2 DEF Linked
  <2>8. RunsFit(m, k)
    <3>1. ASSUME NEW i \in 1 .. n PROVE m[k[i]].count >= 1 /\ k[i][2] + m[k[i]].count <= BlocksPerPage
      <4>1. CASE i = 1
        <5>1. front[2] \in Nat
          BY <1>5, BlocksAre
        <5>2. k[i] = a /\ m[k[i]].count = c - 1
          BY <1>9, <1>15, <2>1, <2>4, <4>1
        <5>3. c - 1 >= 1 /\ (front[2] + 1) + (c - 1) <= BlocksPerPage
          BY <1>7, <1>15, <5>1
        <5> QED
          BY <2>2, <5>2, <5>3
      <4>2. CASE i \in 2 .. n
        BY <1>11, <1>13, <2>4, <4>2
      <4> QED
        BY <2>6, <4>1, <4>2
    <3> QED
      BY <2>4, <3>1 DEF RunsFit
  <2>9. /\ \A i \in 1 .. n : RunIn(m, k[i]) \subseteq RunIn(memory, l[i])
        /\ \A i \in 2 .. n : RunIn(m, k[i]) = RunIn(memory, l[i])
        /\ RunIn(memory, l[1]) = {front} \cup RunIn(m, k[1]) /\ front \notin RunIn(m, k[1])
    BY <1>1, <1>10, <1>11, <2>2, <2>4, <2>5, <2>6
  <2>10. Covered(m, k, held \cup {front}, all)
    <3>1. \A i, j \in 1 .. n : i # j => RunIn(m, k[i]) \cap RunIn(m, k[j]) = {}
      BY <1>14, <2>9
    <3>2. \A i \in 1 .. n : RunIn(m, k[i]) \cap (held \cup {front}) = {}
      <4>1. \A i \in 2 .. n : front \notin RunIn(m, k[i])
        BY <1>1, <1>3, <1>4, <1>11, <2>4, <2>9
      <4> QED
        BY <1>14, <2>6, <2>9, <4>1
    <3>3. \A x : x \in all <=> x \in held \cup {front} \/ \E i \in 1 .. n : x \in RunIn(m, k[i])
      BY <1>4, <1>14, <2>6, <2>9
    <3> QED
      BY <2>4, <3>1, <3>2, <3>3 DEF Covered
  <2> QED
    BY <1>5, <1>6, <1>8, <1>9, <1>15, <2>1, <2>7, <2>8, <2>10 DEF FreeListIs
<1>16. CASE ~(c > 1)
  <2>1. c = 1
    BY <1>7, <1>16
  <2>2. RunIn(memory, l[1]) = {front}
    BY <1>1, <1>5, <1>10, <2>1, RunOfOne
  <2>3. PICK k : k = Tail(l)
    OBVIOUS
  <2>4. /\ k \in Seq(Blocks) /\ Len(k) = n - 1
        /\ \A i \in 1 .. n - 1 : k[i] = l[i + 1]
    BY <1>1, <1>2, <2>3
  <2>5. \A i \in 1 .. n - 1 : i + 1 \in 2 .. n /\ i + 1 \in 1 .. n
    BY <1>2
  <2>6. \A i \in 1 .. n : i = 1 \/ \E j \in 1 .. n - 1 : i = j + 1
    <3> TAKE i \in 1 .. n
    <3>1. i = 1 \/ (i - 1 \in 1 .. n - 1 /\ i = (i - 1) + 1)
      BY <1>2
    <3> QED
      BY <3>1
  <2>7. \A i \in 1 .. n - 1 : m[k[i]] = memory[l[i + 1]] /\ RunIn(m, k[i]) = RunIn(memory, l[i + 1])
    BY <1>11, <2>4, <2>5
  <2>8. Linked(m, k, memory[front].next)
    <3>1. memory[front].next = IF n = 1 THEN NullBlock ELSE l[1 + 1]
      BY <1>1, <1>4, <1>12
    <3>2. memory[front].next = IF k = <<>> THEN NullBlock ELSE k[1]
      <4>1. CASE n = 1
        <5>1. k = <<>>
          BY <2>4, <4>1
        <5> QED
          BY <3>1, <4>1, <5>1
      <4>2. CASE n # 1
        <5>1. 1 \in 1 .. n - 1 /\ k # <<>>
          BY <1>2, <2>4, <4>2
        <5> QED
          BY <2>4, <3>1, <4>2, <5>1
      <4> QED
        BY <4>1, <4>2
    <3>3. ASSUME NEW i \in 1 .. n - 1 PROVE m[k[i]].next = IF i = n - 1 THEN NullBlock ELSE k[i + 1]
      <4>1. memory[l[i + 1]].next = IF i + 1 = n THEN NullBlock ELSE l[(i + 1) + 1]
        BY <1>12, <2>5
      <4>2. i # n - 1 => i + 1 \in 1 .. n - 1
        BY <1>2
      <4>3. i + 1 = n <=> i = n - 1
        BY <1>2
      <4> QED
        BY <2>4, <2>7, <4>1, <4>2, <4>3
    <3> QED
      BY <2>4, <3>2, <3>3 DEF Linked
  <2>9. RunsFit(m, k)
    BY <1>13, <2>4, <2>5, <2>7 DEF RunsFit
  <2>10. Covered(m, k, held \cup {front}, all)
    <3>1. \A i, j \in 1 .. n - 1 : i # j => RunIn(m, k[i]) \cap RunIn(m, k[j]) = {}
      <4> TAKE i, j \in 1 .. n - 1
      <4>1. i # j => i + 1 # j + 1
        BY <1>2
      <4> QED
        BY <1>14, <2>5, <2>7, <4>1
    <3>2. \A i \in 1 .. n - 1 : RunIn(m, k[i]) \cap (held \cup {front}) = {}
      <4> TAKE i \in 1 .. n - 1
      <4>1. i + 1 # 1 /\ i + 1 \in 1 .. n
        BY <1>2
      <4>2. front \notin RunIn(memory, l[i + 1])
        BY <1>1, <1>3, <1>4, <4>1
      <4> QED
        BY <1>14, <2>7, <4>1, <4>2
    <3>3. \A x : x \in all <=> x \in held \cup {front} \/ \E i \in 1 .. n - 1 : x \in RunIn(m, k[i])
      <4>1. \A x : (\E i \in 1 .. n : x \in RunIn(memory, l[i]))
                    <=> x = front \/ \E j \in 1 .. n - 1 : x \in RunIn(memory, l[j + 1])
        BY <1>4, <2>2, <2>5, <2>6
      <4>2. \A x : (\E j \in 1 .. n - 1 : x \in RunIn(memory, l[j + 1]))
                    <=> \E j \in 1 .. n - 1 : x \in RunIn(m, k[j])
        BY <2>7
      <4> QED
        BY <1>14, <4>1, <4>2
    <3> QED
      BY <2>4, <3>1, <3>2, <3>3 DEF Covered
  <2> QED
    BY <1>5, <1>6, <1>8, <1>9, <1>16, <2>8, <2>9, <2>10 DEF FreeListIs
<1> QED
  BY <1>15, <1>16

LEMMA MappedAre ==
    ASSUME BlockTypes
    PROVE  /\ \A x \in MappedBlocks : x \in Blocks /\ x[1] <= mapped
           /\ ToSet(pages) \subseteq 1 .. mapped
<1>1. mapped \in 0 .. MaxPages /\ pages \in Seq(1 .. mapped) /\ MaxPages \in Nat
  BY BlockAssumption DEF BlockTypes
<1>2. ToSet(pages) \subseteq 1 .. mapped
  BY <1>1 DEF ToSet
<1>3. \A p \in 1 .. mapped : p \in PageIds /\ p <= mapped
  BY <1>1 DEF PageIds
<1>4. \A p \in PageIds : \A x \in BlocksOf(p) : x \in Blocks /\ x[1] = p
  BY RunOfPage
<1>5. ASSUME NEW x \in MappedBlocks PROVE x \in Blocks /\ x[1] <= mapped
  <2>1. PICK p \in ToSet(pages) : x \in BlocksOf(p)
    BY DEF MappedBlocks
  <2>2. p \in PageIds /\ p <= mapped
    BY <1>2, <1>3, <2>1
  <2> QED
    BY <1>4, <2>1, <2>2
<1> QED
  BY <1>2, <1>5

\* A new page is one run, the only one.
LEMMA NewPageList ==
    ASSUME BlockTypes, NEW l, FreeListIs(info, l, freeList, given, MappedBlocks),
           freeList = NullBlock, mapped < MaxPages
    PROVE  /\ WithNewPage \in Memory /\ FirstOfNewPage # NullBlock
           /\ mapped + 1 \in PageIds
           /\ \E k : FreeListIs(WithNewPage, k, FirstOfNewPage, given,
                                MappedBlocks \cup BlocksOf(mapped + 1))
<1>1. mapped \in 0 .. MaxPages /\ MaxPages \in Nat /\ BlocksPerPage \in Nat \ {0}
  BY BlockAssumption DEF BlockTypes
<1>2. PICK p : p = mapped + 1
  OBVIOUS
<1>3. p \in PageIds
  BY <1>1, <1>2 DEF PageIds
<1>4. PICK h : h = FirstOfNewPage
  OBVIOUS
<1>5. h = <<p, 0>>
  BY <1>2, <1>4 DEF FirstOfNewPage
<1>6. /\ h \in Blocks /\ h[1] = p /\ h[2] = 0 /\ RunOf(h, BlocksPerPage) = BlocksOf(p)
      /\ \A x \in BlocksOf(p) : x \in Blocks /\ x[1] = p
  BY <1>3, <1>5, RunOfPage
<1>7. h # NullBlock
  BY <1>6, BlocksAre
<1>8. l \in Seq(Blocks) /\ Len(l) = 0
  <2>1. l \in Seq(Blocks) /\ (l # <<>> => l[1] = NullBlock)
    BY DEF FreeListIs, Linked
  <2>2. Len(l) # 0 => 1 \in 1 .. Len(l)
    BY <2>1
  <2>3. Len(l) # 0 => l[1] \in Blocks
    BY <2>1, <2>2
  <2>4. l = <<>> => Len(l) = 0
    OBVIOUS
  <2> QED
    BY <2>1, <2>3, <2>4, BlocksAre
<1>9. \A x : x \in MappedBlocks <=> x \in given
  BY <1>8 DEF FreeListIs, Covered
<1>10. \A x \in BlocksOf(p) : x \notin given
  <2>1. \A x \in given : x[1] <= mapped
    BY <1>9, MappedAre
  <2> QED
    BY <1>1, <1>2, <1>6, <2>1
<1>11. PICK r : r = [next |-> freeList, count |-> BlocksPerPage]
  OBVIOUS
<1>12. r \in [next : Blocks \cup {NullBlock}, count : 0 .. BlocksPerPage] /\ r.next = NullBlock
       /\ r.count = BlocksPerPage
  BY <1>1, <1>11
<1>13. PICK m : m = WithNewPage
  OBVIOUS
<1>14. m = [info EXCEPT ![h] = r]
  BY <1>4, <1>11, <1>13 DEF WithNewPage
<1>15. m \in Memory /\ m[h] = r
  BY <1>6, <1>12, <1>14 DEF BlockTypes, Memory
<1>16. RunIn(m, h) = BlocksOf(p)
  BY <1>6, <1>12, <1>15 DEF RunIn
<1>17. PICK k : k = <<h>>
  OBVIOUS
<1>18. k \in Seq(Blocks) /\ Len(k) = 1 /\ k[1] = h /\ k # <<>> /\ \A i \in 1 .. 1 : i = 1
  BY <1>6, <1>17
<1>19. Linked(m, k, h)
  BY <1>12, <1>15, <1>18 DEF Linked
<1>20. RunsFit(m, k)
  BY <1>1, <1>6, <1>12, <1>15, <1>18 DEF RunsFit
<1>21. Covered(m, k, given, MappedBlocks \cup BlocksOf(p))
  <2>1. \A i \in 1 .. 1 : RunIn(m, k[i]) = BlocksOf(p)
    BY <1>16, <1>18
  <2>2. 1 \in 1 .. 1
    OBVIOUS
  <2> QED
    BY <1>9, <1>10, <1>18, <2>1, <2>2 DEF Covered
<1> QED
  BY <1>2, <1>3, <1>4, <1>7, <1>13, <1>15, <1>19, <1>20, <1>21 DEF FreeListIs

LEMMA GivenCounted ==
    ASSUME BlockTypes, NEW b \in Blocks
    PROVE  /\ b \notin given => /\ IsFiniteSet(given \cup {b})
                                /\ Cardinality(given \cup {b}) = allocated + 1
           /\ b \in given => /\ IsFiniteSet(given \ {b})
                             /\ Cardinality(given \ {b}) = allocated - 1
BY FS_AddElement, FS_RemoveElement DEF BlockTypes

LEMMA AllocKeeps ==
    ASSUME BlockInv, Alloc
    PROVE  BlockInv'
<1>1. BlockTypes
  BY DEF BlockInv
<1>2. PICK l : FreeListIs(info, l, freeList, given, MappedBlocks)
  BY DEF BlockInv
<1>3. CASE freeList # NullBlock /\ Give(freeList, info) /\ UNCHANGED <<pages, mapped>>
  <2>1. PICK h : h = freeList
    OBVIOUS
  <2>2. info \in Memory /\ h # NullBlock /\ FreeListIs(info, l, h, given, MappedBlocks)
    BY <1>1, <1>2, <1>3, <2>1 DEF BlockTypes
  <2>3. /\ h \in Blocks /\ h \notin given /\ Rest(h, info) \in Memory
        /\ \E k : FreeListIs(Rest(h, info), k,
                             IF info[h].count > 1 THEN After(h) ELSE info[h].next,
                             given \cup {h}, MappedBlocks)
    BY <2>2, GivesHead
  <2>4. /\ info' = Rest(h, info) /\ given' = given \cup {h} /\ allocated' = allocated + 1
        /\ freeList' = IF info[h].count > 1 THEN After(h) ELSE info[h].next
        /\ pages' = pages /\ mapped' = mapped /\ MappedBlocks' = MappedBlocks
    BY <1>3, <2>1 DEF Give, MappedBlocks
  <2>5. BlockTypes'
    BY <1>1, <2>3, <2>4, GivenCounted DEF BlockTypes
  <2>6. \E k : FreeListIs(info', k, freeList', given', MappedBlocks')
    BY <2>3, <2>4
  <2> QED
    BY <2>5, <2>6 DEF BlockInv
<1>4. CASE /\ freeList = NullBlock /\ mapped < MaxPages
           /\ Give(FirstOfNewPage, WithNewPage)
           /\ pages' = <<mapped + 1>> \o pages /\ mapped' = mapped + 1
  <2>1. PICK h : h = FirstOfNewPage
    OBVIOUS
  <2>2. PICK w : w = WithNewPage
    OBVIOUS
  <2>3. PICK all : all = MappedBlocks \cup BlocksOf(mapped + 1)
    OBVIOUS
  <2>4. /\ w \in Memory /\ h # NullBlock /\ mapped + 1 \in PageIds
        /\ \E k : FreeListIs(w, k, h, given, all)
    BY <1>1, <1>2, <1>4, <2>1, <2>2, <2>3, NewPageList
  <2>5. PICK k0 : FreeListIs(w, k0, h, given, all)
    BY <2>4
  <2>6. /\ h \in Blocks /\ h \notin given /\ Rest(h, w) \in Memory
        /\ \E k : FreeListIs(Rest(h, w), k, IF w[h].count > 1 THEN After(h) ELSE w[h].next,
                             given \cup {h}, all)
    BY <2>4, <2>5, GivesHead
  <2>7. /\ info' = Rest(h, w) /\ given' = given \cup {h} /\ allocated' = allocated + 1
        /\ freeList' = IF w[h].count > 1 THEN After(h) ELSE w[h].next
    BY <1>4, <2>1, <2>2 DEF Give
  <2>8. mapped \in 0 .. MaxPages /\ MaxPages \in Nat /\ pages \in Seq(1 .. mapped)
    BY <1>1, BlockAssumption DEF BlockTypes
  <2>9. /\ mapped' \in 0 .. MaxPages
        /\ pages' \in Seq(1 .. mapped') /\ ToSet(pages') = ToSet(pages) \cup {mapped + 1}
    <3>1. PICK n : n = mapped + 1
      OBVIOUS
    <3>2. PICK q : q = <<n>> \o pages
      OBVIOUS
    <3>3. 1 .. mapped \subseteq 1 .. n /\ n \in 1 .. n /\ n \in 0 .. MaxPages
      BY <1>4, <2>8, <3>1
    <3>4. pages \in Seq(1 .. n) /\ <<n>> \in Seq(1 .. n)
      BY <2>8, <3>3
    <3>5. q \in Seq(1 .. n)
      BY <3>2, <3>4
    <3>6. /\ Len(q) = Len(pages) + 1 /\ q[1] = n
          /\ \A i \in 1 .. Len(pages) : q[i + 1] = pages[i]
      BY <3>2, <3>4
    <3>7. Len(pages) \in Nat /\ DOMAIN pages = 1 .. Len(pages) /\ DOMAIN q = 1 .. Len(pages) + 1
      BY <3>4, <3>5, <3>6
    <3>8. ToSet(q) = ToSet(pages) \cup {n}
      <4>1. \A i \in DOMAIN q : q[i] \in ToSet(pages) \cup {n}
        <5> TAKE i \in DOMAIN q
        <5>1. CASE i = 1
          BY <3>6, <5>1
        <5>2. CASE i # 1
          <6>1. i - 1 \in DOMAIN pages /\ (i - 1) + 1 = i
            BY <3>7, <5>2
          <6> QED
            BY <3>6, <3>7, <6>1 DEF ToSet
        <5> QED
          BY <5>1, <5>2
      <4>2. n \in ToSet(q)
        <5>1. 1 \in DOMAIN q
          BY <3>7
        <5> QED
          BY <3>6, <5>1 DEF ToSet
      <4>3. \A i \in DOMAIN pages : pages[i] \in ToSet(q)
        <5> TAKE i \in DOMAIN pages
        <5>1. i + 1 \in DOMAIN q /\ q[i + 1] = pages[i]
          BY <3>6, <3>7
        <5> QED
          BY <5>1 DEF ToSet
      <4>4. ToSet(q) \subseteq ToSet(pages) \cup {n}
        BY <4>1 DEF ToSet
      <4>5. ToSet(pages) \subseteq ToSet(q)
        BY <4>3 DEF ToSet
      <4> QED
        BY <4>2, <4>4, <4>5
    <3> QED
      BY <1>4, <3>1, <3>2, <3>3, <3>5, <3>8
  <2>10. MappedBlocks' = all
    BY <2>3, <2>9 DEF MappedBlocks
  <2>11. BlockTypes'
    BY <1>1, <2>6, <2>7, <2>9, GivenCounted DEF BlockTypes
  <2>12. \E k : FreeListIs(info', k, freeList', given', MappedBlocks')
    BY <2>6, <2>7, <2>10
  <2> QED
    BY <2>11, <2>12 DEF BlockInv
<1> QED
  BY <1>3, <1>4 DEF Alloc

LEMMA FreeKeeps ==
    ASSUME BlockInv, FreeBlock
    PROVE  BlockInv'
<1>1. BlockTypes
  BY DEF BlockInv
<1>2. PICK l : FreeListIs(info, l, freeList, given, MappedBlocks)
  BY DEF BlockInv
<1>3. PICK b \in given :
         /\ info' = [info EXCEPT ![b] = [next |-> freeList, count |-> 1]]
         /\ freeList' = b
         /\ given' = given \ {b} /\ allocated' = allocated - 1
         /\ pages' = pages /\ mapped' = mapped
  BY DEF FreeBlock
<1>4. b \in Blocks
  BY <1>1 DEF BlockTypes
<1>5. PICK n \in Nat : n = Len(l)
  BY <1>2 DEF FreeListIs, Linked
<1>6. info \in Memory
  BY <1>1 DEF BlockTypes
<1>7. /\ \A i \in 1 .. n : l[i] \in Blocks /\ l[i] \in RunIn(info, l[i]) /\ l[i] \notin given
      /\ \A i, j \in 1 .. n : i # j => l[i] # l[j] /\ l[i] \notin RunIn(info, l[j])
  BY <1>2, <1>5, <1>6, HeadsApart
<1>8. /\ l \in Seq(Blocks) /\ freeList = IF l = <<>> THEN NullBlock ELSE l[1]
      /\ \A i \in 1 .. n : info[l[i]].next = IF i = n THEN NullBlock ELSE l[i + 1]
  BY <1>2, <1>5 DEF FreeListIs, Linked
<1>9. PICK r : r = [next |-> freeList, count |-> 1]
  OBVIOUS
<1>10. freeList \in Blocks \cup {NullBlock}
  <2>1. l # <<>> => 1 \in 1 .. n
    BY <1>5, <1>8
  <2> QED
    BY <1>7, <1>8, <2>1
<1>11. /\ r \in [next : Blocks \cup {NullBlock}, count : 0 .. BlocksPerPage]
       /\ r.next = freeList /\ r.count = 1
  BY <1>9, <1>10, BlocksAre
<1>12. PICK m : m = info'
  OBVIOUS
<1>13. m = [info EXCEPT ![b] = r]
  BY <1>3, <1>9, <1>12
<1>14. m \in Memory /\ m[b] = r /\ \A x \in Blocks : x # b => m[x] = info[x]
  BY <1>4, <1>6, <1>11, <1>13 DEF Memory
<1>15. RunIn(m, b) = {b}
  BY <1>4, <1>11, <1>14, RunOfOne DEF RunIn
<1>16. ASSUME NEW i \in 1 .. n PROVE m[l[i]] = info[l[i]] /\ RunIn(m, l[i]) = RunIn(info, l[i])
  BY <1>7, <1>14 DEF RunIn
<1>17. PICK k : k = <<b>> \o l
  OBVIOUS
<1>18. /\ k \in Seq(Blocks) /\ Len(k) = n + 1 /\ k[1] = b /\ k # <<>>
       /\ \A i \in 1 .. n : k[i + 1] = l[i]
  BY <1>4, <1>5, <1>8, <1>17
<1>19. \A i \in 1 .. n + 1 : i = 1 \/ \E j \in 1 .. n : i = j + 1
  <2> TAKE i \in 1 .. n + 1
  <2>1. i = 1 \/ (i - 1 \in 1 .. n /\ i = (i - 1) + 1)
    BY <1>5
  <2> QED
    BY <2>1
<1>20. 1 \in 1 .. n + 1 /\ \A i \in 1 .. n : i + 1 \in 1 .. n + 1 /\ i + 1 # 1
  BY <1>5
<1>21. Linked(m, k, b)
  <2>1. ASSUME NEW i \in 1 .. n + 1 PROVE m[k[i]].next = IF i = n + 1 THEN NullBlock ELSE k[i + 1]
    <3>1. CASE i = 1
      <4>1. m[k[i]].next = freeList
        BY <1>11, <1>14, <1>18, <3>1
      <4>2. CASE n = 0
        <5>1. l = <<>>
          <6>1. l \in Seq(Blocks) /\ Len(l) = 0
            BY <1>5, <1>8, <4>2
          <6> QED
            BY <6>1
        <5> QED
          BY <1>8, <3>1, <4>1, <4>2, <5>1
      <4>3. CASE n # 0
        <5>1. 1 \in 1 .. n /\ l # <<>> /\ i # n + 1
          BY <1>5, <3>1, <4>3
        <5> QED
          BY <1>8, <1>18, <3>1, <4>1, <5>1
      <4> QED
        BY <4>2, <4>3
    <3>2. ASSUME NEW j \in 1 .. n, i = j + 1 PROVE m[k[i]].next = IF i = n + 1 THEN NullBlock ELSE k[i + 1]
      <4>1. m[k[i]].next = info[l[j]].next
        BY <1>16, <1>18, <3>2
      <4>2. j # n => j + 1 \in 1 .. n
        BY <1>5
      <4>3. i = n + 1 <=> j = n
        BY <1>5, <3>2
      <4> QED
        BY <1>8, <1>18, <3>2, <4>1, <4>2, <4>3
    <3> QED
      BY <1>19, <3>1, <3>2
  <2> QED
    BY <1>18, <2>1 DEF Linked
<1>22. RunsFit(m, k)
  <2>1. \A i \in 1 .. n : info[l[i]].count >= 1 /\ l[i][2] + info[l[i]].count <= BlocksPerPage
    BY <1>2, <1>5 DEF FreeListIs, RunsFit
  <2>2. m[b].count >= 1 /\ b[2] + m[b].count <= BlocksPerPage
    <3>1. b[2] \in 0 .. BlocksPerPage - 1 /\ BlocksPerPage \in Nat
      BY <1>4, BlocksAre
    <3> QED
      BY <1>11, <1>14, <3>1
  <2>3. ASSUME NEW i \in 1 .. n + 1 PROVE m[k[i]].count >= 1 /\ k[i][2] + m[k[i]].count <= BlocksPerPage
    <3>1. CASE i = 1
      BY <1>18, <2>2, <3>1
    <3>2. ASSUME NEW j \in 1 .. n, i = j + 1 PROVE m[k[i]].count >= 1 /\ k[i][2] + m[k[i]].count <= BlocksPerPage
      <4>1. k[i] = l[j] /\ m[l[j]] = info[l[j]]
        BY <1>16, <1>18, <3>2
      <4> QED
        BY <2>1, <4>1
    <3> QED
      BY <1>19, <3>1, <3>2
  <2> QED
    BY <1>18, <2>3 DEF RunsFit
<1>23. Covered(m, k, given', MappedBlocks)
  <2>1. /\ \A i, j \in 1 .. n : i # j => RunIn(info, l[i]) \cap RunIn(info, l[j]) = {}
        /\ \A i \in 1 .. n : RunIn(info, l[i]) \cap given = {}
        /\ \A x : x \in MappedBlocks <=> x \in given \/ \E i \in 1 .. n : x \in RunIn(info, l[i])
    BY <1>2, <1>5 DEF FreeListIs, Covered
  <2>2. \A i \in 1 .. n : RunIn(m, k[i + 1]) = RunIn(info, l[i])
    BY <1>16, <1>18
  <2>7. RunIn(m, k[1]) = {b} /\ \A i \in 1 .. n : b \notin RunIn(m, k[i + 1])
    <3>1. \A i \in 1 .. n : b \notin RunIn(info, l[i])
      BY <2>1
    <3> QED
      BY <1>15, <1>18, <2>2, <3>1
  <2>3. ASSUME NEW i \in 1 .. n + 1, NEW j \in 1 .. n + 1, i # j
        PROVE  RunIn(m, k[i]) \cap RunIn(m, k[j]) = {}
    <3>1. CASE i = 1
      <4>1. PICK y \in 1 .. n : j = y + 1
        BY <1>19, <2>3, <3>1
      <4> QED
        BY <2>7, <3>1, <4>1
    <3>2. CASE j = 1
      <4>1. PICK y \in 1 .. n : i = y + 1
        BY <1>19, <2>3, <3>2
      <4> QED
        BY <2>7, <3>2, <4>1
    <3>3. CASE i # 1 /\ j # 1
      <4>1. PICK y \in 1 .. n : i = y + 1
        BY <1>19, <3>3
      <4>2. PICK z \in 1 .. n : j = z + 1
        BY <1>19, <3>3
      <4>3. y # z
        BY <2>3, <4>1, <4>2
      <4> QED
        BY <2>1, <2>2, <4>1, <4>2, <4>3
    <3> QED
      BY <3>1, <3>2, <3>3
  <2>4. ASSUME NEW i \in 1 .. n + 1 PROVE RunIn(m, k[i]) \cap given' = {}
    <3>1. CASE i = 1
      BY <1>3, <2>7, <3>1
    <3>2. ASSUME NEW j \in 1 .. n, i = j + 1 PROVE RunIn(m, k[i]) \cap given' = {}
      <4>1. RunIn(m, k[i]) = RunIn(info, l[j]) /\ RunIn(info, l[j]) \cap given = {}
        BY <2>1, <2>2, <3>2
      <4> QED
        BY <1>3, <4>1
    <3> QED
      BY <1>19, <3>1, <3>2
  <2>5. \A x : (\E i \in 1 .. n + 1 : x \in RunIn(m, k[i]))
                <=> x = b \/ \E i \in 1 .. n : x \in RunIn(info, l[i])
    BY <1>15, <1>18, <1>19, <1>20, <2>2
  <2>6. \A x : x \in MappedBlocks <=> x \in given' \/ \E i \in 1 .. n + 1 : x \in RunIn(m, k[i])
    BY <1>3, <2>1, <2>5
  <2> QED
    BY <1>18, <2>3, <2>4, <2>6 DEF Covered
<1>24. MappedBlocks' = MappedBlocks
  BY <1>3 DEF MappedBlocks
<1>25. BlockTypes'
  BY <1>1, <1>3, <1>4, <1>12, <1>14, GivenCounted DEF BlockTypes
<1>26. FreeListIs(info', k, freeList', given', MappedBlocks')
  BY <1>3, <1>12, <1>21, <1>22, <1>23, <1>24 DEF FreeListIs
<1> QED
  BY <1>25, <1>26 DEF BlockInv

\* A list with no block in it.
LEMMA EmptyList ==
    ASSUME NEW memory
    PROVE  FreeListIs(memory, <<>>, NullBlock, {}, {})
<1>1. PICK l : l = <<>>
  OBVIOUS
<1>2. l \in Seq(Blocks) /\ Len(l) = 0
  BY <1>1
<1> QED
  BY <1>1, <1>2 DEF FreeListIs, Linked, RunsFit, Covered

LEMMA ZeroedMemory == [b \in Blocks |-> Zeroed] \in Memory
<1>1. Zeroed \in [next : Blocks \cup {NullBlock}, count : 0 .. BlocksPerPage]
  BY BlocksAre DEF Zeroed
<1> QED
  BY <1>1 DEF Memory

LEMMA PurgeKeeps ==
    ASSUME BlockInv, Purge
    PROVE  BlockInv'
<1>1. BlockTypes
  BY DEF BlockInv
<1>2. /\ allocated = 0 /\ info' = [b \in Blocks |-> Zeroed] /\ pages' = <<>> /\ freeList' = NullBlock
      /\ mapped' = mapped /\ allocated' = allocated /\ given' = given
  BY DEF Purge
<1>3. given = {}
  BY <1>1, <1>2, FS_EmptySet DEF BlockTypes
<1>4. MappedBlocks' = {}
  BY <1>2 DEF MappedBlocks, ToSet
<1>5. pages' \in Seq(1 .. mapped')
  BY <1>2
<1>6. BlockTypes'
  BY <1>1, <1>2, <1>5, ZeroedMemory DEF BlockTypes
<1>7. FreeListIs(info', <<>>, freeList', given', MappedBlocks')
  BY <1>2, <1>3, <1>4, EmptyList
<1> QED
  BY <1>6, <1>7 DEF BlockInv

LEMMA BlocksStart == AllocatorInit => BlockInv
<1> SUFFICES ASSUME AllocatorInit PROVE BlockInv
  OBVIOUS
<1>1. /\ info = [b \in Blocks |-> Zeroed] /\ pages = <<>> /\ freeList = NullBlock
      /\ mapped = 0 /\ allocated = 0 /\ given = {}
  BY DEF AllocatorInit
<1>2. MappedBlocks = {}
  BY <1>1 DEF MappedBlocks, ToSet
<1>3. pages \in Seq(1 .. mapped) /\ mapped \in 0 .. MaxPages
  BY <1>1, BlockAssumption
<1>4. BlockTypes
  BY <1>1, <1>3, ZeroedMemory, FS_EmptySet DEF BlockTypes
<1>5. FreeListIs(info, <<>>, freeList, given, MappedBlocks)
  BY <1>1, <1>2, EmptyList
<1> QED
  BY <1>4, <1>5 DEF BlockInv

LEMMA BlocksKept == BlockInv /\ [AllocatorNext]_blockVars => BlockInv'
<1> SUFFICES ASSUME BlockInv, [AllocatorNext]_blockVars PROVE BlockInv'
  OBVIOUS
<1>1. CASE UNCHANGED blockVars
  BY <1>1 DEF blockVars, BlockInv, BlockTypes, MappedBlocks
<1> QED
  BY <1>1, AllocKeeps, FreeKeeps, PurgeKeeps DEF AllocatorNext
\* A list without repetition is no longer than there are blocks.
LEMMA ListFits ==
    ASSUME NEW l \in Seq(Blocks), \A i, j \in 1 .. Len(l) : i # j => l[i] # l[j]
    PROVE  Cardinality(Blocks) \in Nat /\ Len(l) <= Cardinality(Blocks)
<1>1. IsFiniteSet(Blocks)
  <2>1. BlocksPerPage - 1 \in Int /\ MaxPages \in Int
    BY BlockAssumption
  <2>2. IsFiniteSet(PageIds) /\ IsFiniteSet(0 .. BlocksPerPage - 1)
    BY <2>1, FS_Interval DEF PageIds
  <2> QED
    BY <2>2, FS_Product DEF Blocks
<1>2. Cardinality(Blocks) \in Nat
  BY <1>1, FS_CardinalityType
<1>3. PICK n \in Nat : n = Len(l)
  OBVIOUS
<1>4. IsFiniteSet(1 .. n) /\ Cardinality(1 .. n) = n
  <2>1. 1 \in Int /\ n \in Int
    OBVIOUS
  <2>2. /\ IsFiniteSet(1 .. n)
        /\ Cardinality(1 .. n) = IF 1 > n THEN 0 ELSE n - 1 + 1
    BY <2>1, FS_Interval
  <2>3. (IF 1 > n THEN 0 ELSE n - 1 + 1) = n
    OBVIOUS
  <2> QED
    BY <2>2, <2>3
<1>5. PICK f \in [1 .. n -> Blocks] : \A i \in 1 .. n : f[i] = l[i]
  <2>1. \A i \in 1 .. n : l[i] \in Blocks
    BY <1>3
  <2>2. [i \in 1 .. n |-> l[i]] \in [1 .. n -> Blocks]
    BY <2>1
  <2> QED
    BY <2>2
<1>6. ASSUME Cardinality(Blocks) < n PROVE FALSE
  <2>1. \E i, j \in 1 .. n : i # j /\ f[i] = f[j]
    BY <1>1, <1>4, <1>6, FS_PigeonHole
  <2> QED
    BY <1>3, <1>5, <2>1
<1> QED
  BY <1>2, <1>3, <1>6

\* FreeRuns follows the list to its end.
LEMMA FreeRunsAre ==
    ASSUME BlockTypes, NEW l, FreeListIs(info, l, freeList, given, MappedBlocks)
    PROVE  FreeRuns = l
<1>1. l \in Seq(Blocks) /\ info \in Memory
  BY DEF FreeListIs, Linked, BlockTypes
<1>2. PICK n \in Nat : n = Len(l)
  BY <1>1
<1>3. /\ freeList = IF l = <<>> THEN NullBlock ELSE l[1]
      /\ \A i \in 1 .. n : info[l[i]].next = IF i = n THEN NullBlock ELSE l[i + 1]
  BY <1>2 DEF FreeListIs, Linked
<1>4. PICK N : N = Cardinality(Blocks)
  OBVIOUS
<1>5. N \in Nat /\ n <= N
  <2>1. \A i, j \in 1 .. Len(l) : i # j => l[i] # l[j]
    BY <1>1, HeadsApart
  <2> QED
    BY <1>1, <1>2, <1>4, <2>1, ListFits
<1>6. PICK w : w = Append(l, NullBlock)
  OBVIOUS
<1>7. PICK B : B = Blocks \cup {NullBlock}
  OBVIOUS
<1>8. l \in Seq(B) /\ NullBlock \in B
  BY <1>1, <1>7
<1>9. /\ w \in Seq(B) /\ Len(w) = n + 1 /\ w[n + 1] = NullBlock
      /\ \A i \in 1 .. n : w[i] = l[i]
  BY <1>2, <1>6, <1>8
<1>10. \A i \in 1 .. n : w[i] \in Blocks /\ w[i] # NullBlock /\ info[w[i]].next = w[i + 1]
  <2> TAKE i \in 1 .. n
  <2>1. l[i] \in Blocks
    BY <1>1, <1>2
  <2>2. i # n => i + 1 \in 1 .. n
    BY <1>2
  <2> QED
    BY <1>3, <1>9, <2>1, <2>2, BlocksAre
<1>11. w[1] = freeList
  <2>1. CASE n = 0
    <3>0. l \in Seq(Blocks) /\ Len(l) = 0
      BY <1>1, <1>2, <2>1
    <3>1. l = <<>>
      BY <3>0
    <3> QED
      BY <1>3, <1>9, <2>1, <3>1
  <2>2. CASE n # 0
    <3>1. 1 \in 1 .. n /\ l # <<>>
      BY <1>2, <2>2
    <3> QED
      BY <1>3, <1>9, <3>1
  <2> QED
    BY <2>1, <2>2
<1> DEFINE upto(k) == IF k < n THEN k + 1 ELSE n + 1
           P(f) == f = [k \in 0 .. N |->
                          IF k = 0 THEN <<freeList>>
                          ELSE LET before == f[k - 1] IN
                               IF Last(before) = NullBlock THEN before
                               ELSE Append(before, info[Last(before)].next)]
           c == CHOOSE f : P(f)
<1>12. FreeRuns = Front(c[N])
  BY <1>4 DEF FreeRuns
<1>13. PICK g : g = [k \in 0 .. N |-> SubSeq(w, 1, upto(k))]
  OBVIOUS
<1>14. \A k \in 0 .. N : upto(k) \in 1 .. n + 1
  BY <1>2
<1>15. ASSUME NEW j \in 1 .. n + 1
       PROVE  LET s == SubSeq(w, 1, j) IN
              /\ s \in Seq(B) /\ Len(s) = j /\ Last(s) = w[j]
              /\ j <= n => Append(s, w[j + 1]) = SubSeq(w, 1, j + 1)
  <2>1. j \in Nat /\ j >= 1 /\ j <= n + 1 /\ j \in Int
    BY <1>2
  <2>2. \A i \in 1 .. j : w[i] \in B
    BY <1>9, <2>1
  <2>3. PICK s : s = SubSeq(w, 1, j)
    OBVIOUS
  <2>4. /\ SubSeq(w, 1, j) \in Seq(B)
        /\ Len(SubSeq(w, 1, j)) = IF 1 <= j THEN j - 1 + 1 ELSE 0
        /\ \A i \in 1 .. j - 1 + 1 : SubSeq(w, 1, j)[i] = w[1 + i - 1]
    BY <2>1, <2>2, SubSeqProperties
  <2>5. s \in Seq(B) /\ Len(s) = j /\ s[j] = w[j]
    BY <2>1, <2>3, <2>4
  <2>6. ASSUME j <= n PROVE Append(s, w[j + 1]) = SubSeq(w, 1, j + 1)
    <3>1. j + 1 \in 1 .. Len(w) /\ 1 \in 1 .. Len(w) /\ j + 1 \in 1 .. Len(w) /\ (j + 1) - 1 = j
      BY <1>9, <2>1, <2>6
    <3>2. SubSeq(w, 1, j + 1) = SubSeq(w, 1, j) \o <<w[j + 1]>>
      BY <1>9, <3>1, SubSeqRecursiveSecond
    <3>3. w[j + 1] \in B
      BY <1>9, <3>1
    <3>4. Append(s, w[j + 1]) = s \o <<w[j + 1]>>
      BY <2>5, <3>3
    <3> QED
      BY <2>3, <3>2, <3>4
  <2> QED
    BY <2>3, <2>5, <2>6 DEF Last
<1>16. \A k \in 0 .. N : g[k] \in Seq(B) /\ Last(g[k]) = w[upto(k)]
  BY <1>13, <1>14, <1>15
<1>17. g[0] = <<freeList>>
  <2>1. upto(0) = 1 /\ 0 \in 0 .. N /\ 1 \in 1 .. n + 1
    BY <1>2, <1>5
  <2>2. g[0] \in Seq(B) /\ Len(g[0]) = 1 /\ Last(g[0]) = freeList
    BY <1>11, <1>13, <1>15, <2>1
  <2>3. PICK s \in Seq(B) : s = g[0]
    BY <2>2
  <2>4. s = <<s[1]>> /\ s[1] = freeList
    BY <2>2, <2>3 DEF Last
  <2> QED
    BY <2>3, <2>4
<1>18. ASSUME NEW k \in 1 .. N
       PROVE  g[k] = IF Last(g[k - 1]) = NullBlock THEN g[k - 1]
                     ELSE Append(g[k - 1], info[Last(g[k - 1])].next)
  <2>1. k \in 0 .. N /\ k - 1 \in 0 .. N
    BY <1>5
  <2>2. CASE k <= n
    <3>1. upto(k - 1) = k /\ upto(k) = k + 1 /\ k \in 1 .. n /\ k \in 1 .. n + 1
      BY <1>2, <1>5, <2>2
    <3>2. g[k - 1] = SubSeq(w, 1, k) /\ g[k] = SubSeq(w, 1, k + 1)
      BY <1>13, <2>1, <3>1
    <3>3. Last(g[k - 1]) = w[k] /\ Append(g[k - 1], w[k + 1]) = SubSeq(w, 1, k + 1)
      BY <1>15, <2>2, <3>1, <3>2
    <3> QED
      BY <1>10, <3>1, <3>2, <3>3
  <2>3. CASE ~(k <= n)
    <3>1. upto(k - 1) = n + 1 /\ upto(k) = n + 1
      BY <1>2, <1>5, <2>3
    <3>2. Last(g[k - 1]) = NullBlock /\ g[k] = g[k - 1]
      BY <1>9, <1>13, <1>16, <2>1, <3>1
    <3> QED
      BY <3>2
  <2> QED
    BY <2>2, <2>3
<1>19. P(g)
  <2>1. g = [k \in 0 .. N |-> g[k]]
    BY <1>13
  <2>2. \A k \in 0 .. N : k # 0 => k \in 1 .. N
    BY <1>5
  <2>3. \A k \in 0 .. N : g[k] = IF k = 0 THEN <<freeList>>
                                 ELSE LET before == g[k - 1] IN
                                      IF Last(before) = NullBlock THEN before
                                      ELSE Append(before, info[Last(before)].next)
    BY <1>17, <1>18, <2>2
  <2> QED
    BY <2>1, <2>3
<1>20. P(c)
  BY <1>19
<1> HIDE DEF c, upto
<1>21. c[0] = <<freeList>>
       /\ \A k \in 1 .. N : c[k] = IF Last(c[k - 1]) = NullBlock THEN c[k - 1]
                                   ELSE Append(c[k - 1], info[Last(c[k - 1])].next)
  <2>1. \A k \in 1 .. N : k \in 0 .. N /\ k # 0
    BY <1>5
  <2>2. 0 \in 0 .. N
    BY <1>5
  <2> QED
    BY <1>20, <2>1, <2>2
<1> HIDE DEF P
<1> DEFINE Bad == {k \in 0 .. N : c[k] # g[k]}
<1>22. Bad = {}
  <2> SUFFICES ASSUME Bad # {} PROVE FALSE
    OBVIOUS
  <2>1. Bad \in SUBSET Nat
    BY <1>5
  <2>2. PICK k \in Bad : \A m \in Bad : k <= m
    <3> HIDE DEF Bad
    <3> QED BY <2>1, LeastNat
  <2>3. k \in 0 .. N /\ c[k] # g[k]
    OBVIOUS
  <2>4. k # 0
    BY <1>17, <1>21, <2>3
  <2>5. k \in 1 .. N /\ k - 1 \in 0 .. N /\ ~(k <= k - 1)
    BY <1>5, <2>3, <2>4
  <2>6. c[k - 1] = g[k - 1]
    BY <2>2, <2>5
  <2> QED
    BY <1>18, <1>21, <2>3, <2>5, <2>6
<1>23. c[N] = g[N] /\ g[N] = w
  <2>1. N \in 0 .. N /\ upto(N) = n + 1
    BY <1>2, <1>5 DEF upto
  <2>2. SubSeq(w, 1, Len(w)) = w
    BY <1>9, SubSeqFull
  <2> QED
    BY <1>9, <1>13, <1>22, <2>1, <2>2
<1>24. Front(w) = l
  <2>1. (n + 1) - 1 = n
    BY <1>2
  <2>2. /\ SubSeq(w, 1, n) \in Seq(B)
        /\ Len(SubSeq(w, 1, n)) = IF 1 <= n THEN n - 1 + 1 ELSE 0
        /\ \A i \in 1 .. n - 1 + 1 : SubSeq(w, 1, n)[i] = w[1 + i - 1]
    <3>1. \A i \in 1 .. n : w[i] \in B
      BY <1>9
    <3>2. n \in Int
      BY <1>2
    <3> QED
      BY <3>1, <3>2, SubSeqProperties
  <2>3. PICK s : s = SubSeq(w, 1, n)
    OBVIOUS
  <2>4. s \in Seq(B) /\ Len(s) = n
    BY <1>2, <2>2, <2>3
  <2>5. \A i \in 1 .. n : s[i] = l[i]
    BY <1>2, <1>9, <2>2, <2>3
  <2>6. s = l
    BY <1>2, <1>8, <2>4, <2>5
  <2> QED
    BY <1>9, <2>1, <2>3, <2>6 DEF Front
<1> QED
  BY <1>12, <1>23, <1>24

LEMMA BlocksAreAccounted == BlockInv => BlocksAccounted
<1> SUFFICES ASSUME BlockInv PROVE BlocksAccounted
  OBVIOUS
<1>1. BlockTypes
  BY DEF BlockInv
<1>2. PICK l : FreeListIs(info, l, freeList, given, MappedBlocks)
  BY DEF BlockInv
<1>3. FreeRuns = l
  BY <1>1, <1>2, FreeRunsAre
<1>4. \A i \in 1 .. Len(l) : l[i] \in Blocks
  BY <1>1, <1>2, HeadsApart DEF BlockTypes
<1>5. \A i \in 1 .. Len(l) : RunBlocks(l[i]) = RunIn(info, l[i])
  <2> TAKE i \in 1 .. Len(l)
  <2>1. l[i] \in Blocks
    BY <1>4
  <2>2. info[l[i]].count \in Nat
    BY <1>1, <2>1, BlocksAre DEF BlockTypes, Memory
  <2>3. l[i][2] + info[l[i]].count <= BlocksPerPage
    BY <1>2 DEF FreeListIs, RunsFit
  <2> QED
    BY <2>1, <2>2, <2>3, RunBlocksAre DEF RunIn
<1>6. /\ \A i, j \in 1 .. Len(l) : i # j => RunBlocks(l[i]) \cap RunBlocks(l[j]) = {}
      /\ \A i \in 1 .. Len(l) : RunBlocks(l[i]) \cap given = {}
      /\ \A x : x \in MappedBlocks <=> x \in given \/ \E i \in 1 .. Len(l) : x \in RunBlocks(l[i])
  BY <1>2, <1>5 DEF FreeListIs, Covered
<1>7. given \cup UNION {RunBlocks(l[i]) : i \in 1 .. Len(l)} = MappedBlocks
  BY <1>6
<1>8. allocated = Cardinality(given)
  BY <1>1 DEF BlockTypes
<1> QED
  BY <1>3, <1>6, <1>7, <1>8, ZenonT(60) DEF BlocksAccounted, MappedBlocks

\* For any threads, libraries, pages and order of loading and unloading: no
\* thread-local module has two owners or two ids (tls.rs), and a block of the
\* allocator is with one caller or once in the free list (block_allocator.rs).
THEOREM TlsStaysSound == TlsSpec /\ AllocatorSpec => []TlsSound
<1>1. TlsInit => TableInv
  BY TableStarts
<1>2. TableInv /\ [TlsNext]_tlsVars => TableInv'
  BY TableKept
<1>3. AllocatorInit => BlockInv
  BY BlocksStart
<1>4. BlockInv /\ [AllocatorNext]_blockVars => BlockInv'
  BY BlocksKept
<1>5. TableInv /\ BlockInv => TlsSound
  BY TableIsOwned, BlocksAreAccounted DEF TlsSound
<1> QED
  BY <1>1, <1>2, <1>3, <1>4, <1>5, PTL DEF TlsSpec, AllocatorSpec

-----------------------------------------------------------------------------
(* The debugger's list.                                                      *)

\* s without the element at k.
LEMMA DroppedIs ==
    ASSUME NEW S, NEW s \in Seq(S), NEW k \in 1 .. Len(s), \A j \in 1 .. Len(s) : s[j] = s[k] => j = k
    PROVE  /\ Dropped(s, s[k]) \in Seq(S) /\ Len(Dropped(s, s[k])) = Len(s) - 1
           /\ \A i \in 1 .. Len(s) - 1 : Dropped(s, s[k])[i] = IF i < k THEN s[i] ELSE s[i + 1]
<1>1. (CHOOSE i \in 1 .. Len(s) : s[i] = s[k]) = k
  OBVIOUS
<1>2. PICK n \in Nat : n = Len(s)
  OBVIOUS
<1>3. PICK a : a = SubSeq(s, 1, k - 1)
  OBVIOUS
<1>4. PICK b : b = SubSeq(s, k + 1, n)
  OBVIOUS
<1>5. a \in Seq(S) /\ Len(a) = k - 1 /\ \A i \in 1 .. k - 1 : a[i] = s[i]
  BY <1>2, <1>3, SubSeqProperties
<1>6. b \in Seq(S) /\ Len(b) = n - k /\ \A i \in 1 .. n - k : b[i] = s[i + k]
  BY <1>2, <1>4, SubSeqProperties
<1>7. Dropped(s, s[k]) = a \o b
  BY <1>1, <1>2, <1>3, <1>4 DEF Dropped, RemoveAt
<1>8. /\ a \o b \in Seq(S) /\ Len(a \o b) = n - 1
      /\ \A i \in 1 .. n - 1 : (a \o b)[i] = IF i < k THEN s[i] ELSE s[i + 1]
  <2>1. /\ a \o b \in Seq(S) /\ Len(a \o b) = Len(a) + Len(b)
        /\ \A i \in 1 .. Len(a) + Len(b) : (a \o b)[i] = IF i <= Len(a) THEN a[i] ELSE b[i - Len(a)]
    BY <1>5, <1>6, ConcatProperties
  <2>2. Len(a \o b) = n - 1
    BY <1>2, <1>5, <1>6, <2>1
  <2>3. ASSUME NEW i \in 1 .. n - 1 PROVE (a \o b)[i] = IF i < k THEN s[i] ELSE s[i + 1]
    <3>1. CASE i < k
      BY <1>2, <1>5, <1>6, <2>1, <3>1
    <3>2. CASE i >= k
      <4>1. i - (k - 1) \in 1 .. n - k /\ (a \o b)[i] = b[i - (k - 1)]
        BY <1>2, <1>5, <1>6, <2>1, <3>2
      <4>2. (i - (k - 1)) + k = i + 1
        OBVIOUS
      <4> QED
        BY <1>6, <3>2, <4>1, <4>2
    <3> QED
      <4>1. k \in Int /\ i \in Int
        BY <1>2
      <4>2. i < k \/ i >= k
        BY <4>1
      <4> QED
        BY <4>2, <3>1, <3>2
  <2> QED
    BY <2>1, <2>2, <2>3
<1> QED
  BY <1>2, <1>7, <1>8

SomeMap == LinkMaps \cup {NullMap}
GdbTypes ==
    /\ head \in SomeMap /\ tailMap \in SomeMap
    /\ links \in [LinkMaps -> [next : SomeMap, prev : SomeMap]]
    /\ debugState \in {"consistent", "add", "delete"}
    /\ working \in [thread : GdbThreads \cup {NullMap}, does : {"nothing", "add", "delete"},
                    map : SomeMap, at : {"done", "links", "tail", "leave"}]
    /\ listed \in Seq(LinkMaps) /\ headless \in BOOLEAN
    /\ \A i, j \in 1 .. Len(listed) : i # j => listed[i] # listed[j]

\* The maps from the head, while it leads to the first of them, are those of s,
\* chained both ways; and the tail is the last of them.
LinkedAs(s) ==
    /\ headless \/ head = IF Len(s) = 0 THEN NullMap ELSE s[1]
    /\ \A i \in 1 .. Len(s) :
          /\ links[s[i]].next = IF i = Len(s) THEN NullMap ELSE s[i + 1]
          /\ links[s[i]].prev = IF i = 1 THEN NullMap ELSE s[i - 1]
EndsAt(s) == tailMap = IF Len(s) = 0 THEN NullMap ELSE s[Len(s)]

\* What the thread in the mutex has done to them so far.
GdbSteps ==
    /\ debugState = "consistent" => working.at = "done"
    /\ working.at \in {"links", "tail"} => working.does \in {"add", "delete"}
    /\ working.at # "tail" => LinkedAs(listed) /\ EndsAt(listed)
    /\ working.at \in {"links", "tail"} /\ working.does = "add" =>
          working.map \in LinkMaps /\ \A i \in 1 .. Len(listed) : listed[i] # working.map
    /\ working.at = "tail" /\ working.does = "add" => LinkedAs(Append(listed, working.map))
    /\ working.at \in {"links", "tail"} /\ working.does = "delete" =>
          \E k \in 1 .. Len(listed) : listed[k] = working.map
    /\ working.at = "tail" /\ working.does = "delete" =>
          LinkedAs(listed) /\ EndsAt(Dropped(listed, working.map))

GdbInv == GdbTypes /\ GdbSteps

LEMMA GdbInitInv == GdbInit => GdbInv
<1> SUFFICES ASSUME GdbInit PROVE GdbInv
  OBVIOUS
<1>1. listed = <<>> /\ Len(listed) = 0 /\ listed \in Seq(LinkMaps)
  BY EmptySeq DEF GdbInit
<1>2. GdbTypes
  <2>1. head \in SomeMap /\ tailMap \in SomeMap /\ debugState = "consistent" /\ headless = FALSE
    BY DEF GdbInit, SomeMap
  <2>2. links \in [LinkMaps -> [next : SomeMap, prev : SomeMap]]
    BY DEF GdbInit, SomeMap
  <2>3. working \in [thread : GdbThreads \cup {NullMap}, does : {"nothing", "add", "delete"},
                     map : SomeMap, at : {"done", "links", "tail", "leave"}]
    BY DEF GdbInit, SomeMap, NoWork
  <2>4. \A i, j \in 1 .. Len(listed) : i # j => listed[i] # listed[j]
    BY <1>1
  <2> QED
    BY <1>1, <2>1, <2>2, <2>3, <2>4 DEF GdbTypes
<1>3. working.at = "done"
  BY DEF GdbInit, NoWork
<1>4. LinkedAs(listed) /\ EndsAt(listed)
  BY <1>1 DEF GdbInit, LinkedAs, EndsAt
<1> QED
  BY <1>2, <1>3, <1>4 DEF GdbInv, GdbSteps

LEMMA NotifyKeeps ==
    ASSUME GdbInv, NEW t \in GdbThreads, NEW what \in {"add", "delete"}, NEW m \in LinkMaps, Notify(t, what, m)
    PROVE  GdbInv'
<1>1. GdbTypes /\ GdbSteps
  BY DEF GdbInv
<1>2. UNCHANGED <<head, tailMap, links, listed, headless>> /\ debugState' = what
  BY DEF Notify
<1>3. working.at = "done"
  BY DEF Notify, NoWork
<1>4. /\ working' = [thread |-> t, does |-> what, map |-> m, at |-> "links"]
      /\ working'.does = what /\ working'.map = m /\ working'.at = "links"
  BY DEF Notify
<1>5. GdbTypes'
  BY <1>1, <1>2, <1>4 DEF GdbTypes, SomeMap
<1>6. LinkedAs(listed)' /\ EndsAt(listed)'
  BY <1>1, <1>2, <1>3 DEF GdbSteps, LinkedAs, EndsAt
<1>7. \A x \in LinkMaps : x \in ToSet(listed) <=> \E i \in 1 .. Len(listed) : listed[i] = x
  BY DEF ToSet
<1>8. what = "add" => \A i \in 1 .. Len(listed) : listed[i] # m
  BY <1>7 DEF Notify
<1>9. what = "delete" => \E k \in 1 .. Len(listed) : listed[k] = m
  BY <1>7 DEF Notify
<1>10. GdbSteps'
  BY <1>2, <1>4, <1>6, <1>8, <1>9 DEF GdbSteps
<1> QED
  BY <1>5, <1>10 DEF GdbInv

LEMMA InsertLinksKeeps == GdbInv /\ InsertLinks => GdbInv'
<1> SUFFICES ASSUME GdbInv, InsertLinks PROVE GdbInv'
  OBVIOUS
<1>1. GdbTypes /\ GdbSteps
  BY DEF GdbInv
<1>2. working.does = "add" /\ working.at = "links" /\ UNCHANGED <<tailMap, debugState, listed>>
  BY DEF InsertLinks
<1>3. PICK m \in LinkMaps : m = working.map /\ \A i \in 1 .. Len(listed) : listed[i] # m
  BY <1>1, <1>2 DEF GdbSteps
<1>4. working' = [working EXCEPT !.at = "tail"]
  BY DEF InsertLinks
<1>5. working'.does = "add" /\ working'.map = m /\ working'.at = "tail"
  BY <1>1, <1>2, <1>3, <1>4 DEF GdbTypes
<1>6. LinkedAs(listed) /\ EndsAt(listed)
  BY <1>1, <1>2 DEF GdbSteps
<1>7. PICK n \in Nat : n = Len(listed)
  BY <1>1 DEF GdbTypes
<1>8. PICK s \in Seq(LinkMaps) : s = Append(listed, m)
  BY <1>1, AppendProperties DEF GdbTypes
<1>9. Len(s) = n + 1 /\ s[n + 1] = m /\ \A i \in 1 .. n : s[i] = listed[i] /\ listed[i] \in LinkMaps
  BY <1>1, <1>7, <1>8, AppendProperties DEF GdbTypes
<1>10. NullMap \notin LinkMaps
  BY GdbAssumption DEF NullMap
<1>11. ASSUME n = 0
       PROVE  /\ head' \in SomeMap /\ headless' \in BOOLEAN
              /\ links' \in [LinkMaps -> [next : SomeMap, prev : SomeMap]] /\ LinkedAs(s)'
  <2>1. tailMap = NullMap
    BY <1>6, <1>7, <1>11 DEF EndsAt
  <2>2. head' = m /\ headless' = FALSE /\ links' = [links EXCEPT ![m] = [next |-> NullMap, prev |-> NullMap]]
    BY <1>3, <2>1 DEF InsertLinks
  <2>3. head' \in SomeMap /\ links' \in [LinkMaps -> [next : SomeMap, prev : SomeMap]]
    BY <1>1, <2>2 DEF GdbTypes, SomeMap
  <2>4. links'[m].next = NullMap /\ links'[m].prev = NullMap
    BY <1>1, <2>2 DEF GdbTypes
  <2>5. LinkedAs(s)'
    <3>1. \A i \in 1 .. Len(s) : i = 1 /\ s[i] = m
      BY <1>9, <1>11
    <3> QED
      BY <1>9, <1>11, <2>2, <2>4, <3>1 DEF LinkedAs
  <2> QED
    BY <2>2, <2>3, <2>5
<1>12. ASSUME n # 0
       PROVE  /\ head' \in SomeMap /\ headless' \in BOOLEAN
              /\ links' \in [LinkMaps -> [next : SomeMap, prev : SomeMap]] /\ LinkedAs(s)'
  <2>1. PICK last \in LinkMaps : last = listed[n]
    BY <1>9, <1>12
  <2>2. tailMap = last /\ last # m /\ last # NullMap
    BY <1>3, <1>6, <1>7, <1>10, <1>12, <2>1 DEF EndsAt
  <2>3. /\ links' = [links EXCEPT ![last].next = m, ![m] = [next |-> NullMap, prev |-> last]]
        /\ head' = head /\ headless' = headless
    BY <1>3, <2>2 DEF InsertLinks
  <2>4. head' \in SomeMap /\ links' \in [LinkMaps -> [next : SomeMap, prev : SomeMap]]
    BY <1>1, <2>1, <2>3 DEF GdbTypes, SomeMap
  <2>5. /\ links'[m].next = NullMap /\ links'[m].prev = last
        /\ links'[last].next = m /\ links'[last].prev = links[last].prev
        /\ \A x \in LinkMaps : x # m /\ x # last => links'[x] = links[x]
    BY <1>1, <2>1, <2>2, <2>3 DEF GdbTypes
  <2>6. ASSUME NEW i \in 1 .. n + 1
        PROVE  /\ links'[s[i]].next = IF i = n + 1 THEN NullMap ELSE s[i + 1]
               /\ links'[s[i]].prev = IF i = 1 THEN NullMap ELSE s[i - 1]
    <3>1. CASE i = n + 1
      BY <1>9, <1>12, <2>1, <2>5, <3>1
    <3>2. CASE i = n
      BY <1>6, <1>7, <1>9, <1>12, <2>1, <2>5, <3>2 DEF LinkedAs
    <3>3. CASE i \in 1 .. n - 1
      <4>1. listed[i] # last /\ listed[i] # m
        BY <1>1, <1>3, <1>7, <2>1, <3>3 DEF GdbTypes
      <4>2. s[i] = listed[i] /\ s[i + 1] = listed[i + 1] /\ (i # 1 => s[i - 1] = listed[i - 1])
        BY <1>9, <3>3
      <4>3. links'[s[i]] = links[listed[i]]
        BY <1>9, <2>5, <3>3, <4>1, <4>2
      <4> QED
        BY <1>6, <1>7, <3>3, <4>2, <4>3, SMTT(30) DEF LinkedAs
    <3> QED
      BY <3>1, <3>2, <3>3
  <2>7. headless' \/ head' = s[1]
    BY <1>6, <1>7, <1>9, <1>12, <2>3 DEF LinkedAs
  <2>8. LinkedAs(s)'
    BY <1>9, <2>6, <2>7 DEF LinkedAs
  <2>9. headless' \in BOOLEAN
    BY <1>1, <2>3 DEF GdbTypes
  <2> QED
    BY <2>4, <2>8, <2>9
<1>13. GdbTypes'
  BY <1>1, <1>2, <1>4, <1>11, <1>12 DEF GdbTypes, SomeMap
<1>14. debugState # "consistent"
  BY <1>1, <1>2 DEF GdbSteps
<1>15. GdbSteps'
  BY <1>2, <1>3, <1>5, <1>8, <1>11, <1>12, <1>14 DEF GdbSteps
<1> QED
  BY <1>13, <1>15 DEF GdbInv

LEMMA InsertTailKeeps == GdbInv /\ InsertTail => GdbInv'
<1> SUFFICES ASSUME GdbInv, InsertTail PROVE GdbInv'
  OBVIOUS
<1>1. GdbTypes /\ GdbSteps
  BY DEF GdbInv
<1>2. /\ working.does = "add" /\ working.at = "tail" /\ UNCHANGED <<head, links, debugState, headless>>
      /\ working' = [working EXCEPT !.at = "leave"] /\ tailMap' = working.map
  BY DEF InsertTail
<1>3. PICK m \in LinkMaps : m = working.map /\ \A i \in 1 .. Len(listed) : listed[i] # m
  BY <1>1, <1>2 DEF GdbSteps
<1>4. listed' = Append(listed, m)
  BY <1>3 DEF InsertTail
<1>5. working'.at = "leave" /\ debugState # "consistent"
  BY <1>1, <1>2 DEF GdbTypes, GdbSteps
<1>6. PICK n \in Nat : n = Len(listed)
  BY <1>1 DEF GdbTypes
<1>7. /\ listed' \in Seq(LinkMaps) /\ Len(listed') = n + 1 /\ listed'[n + 1] = m
      /\ \A i \in 1 .. n : listed'[i] = listed[i]
  BY <1>1, <1>4, <1>6, AppendProperties DEF GdbTypes
<1>8. LinkedAs(listed)'
  BY <1>1, <1>2, <1>3, <1>4 DEF GdbSteps, LinkedAs
<1>9. EndsAt(listed)'
  BY <1>2, <1>3, <1>7 DEF EndsAt
<1>10. \A i, j \in 1 .. n + 1 : i # j => listed'[i] # listed'[j]
  <2>1. \A i \in 1 .. n + 1 : i \in 1 .. n \/ i = n + 1
    OBVIOUS
  <2> QED
    BY <1>1, <1>3, <1>6, <1>7, <2>1 DEF GdbTypes
<1>11. GdbTypes'
  BY <1>1, <1>2, <1>3, <1>7, <1>10 DEF GdbTypes, SomeMap
<1>12. GdbSteps'
  BY <1>2, <1>5, <1>8, <1>9 DEF GdbSteps
<1> QED
  BY <1>11, <1>12 DEF GdbInv

\* The list without the map that is withdrawn: it is at k.
LEMMA WithoutMap ==
    ASSUME GdbTypes, NEW k \in 1 .. Len(listed), NEW d, d = Dropped(listed, listed[k])
    PROVE  /\ d \in Seq(LinkMaps) /\ Len(d) = Len(listed) - 1
           /\ \A i \in 1 .. Len(listed) - 1 : d[i] = IF i < k THEN listed[i] ELSE listed[i + 1]
<1>1. listed \in Seq(LinkMaps) /\ k \in 1 .. Len(listed)
  BY DEF GdbTypes
<1>2. \A j \in 1 .. Len(listed) : listed[j] = listed[k] => j = k
  BY <1>1 DEF GdbTypes
<1> QED
  BY <1>1, <1>2, DroppedIs

LEMMA RemoveTailKeeps == GdbInv /\ RemoveTail => GdbInv'
<1> SUFFICES ASSUME GdbInv, RemoveTail PROVE GdbInv'
  OBVIOUS
<1>1. GdbTypes /\ GdbSteps
  BY DEF GdbInv
<1>2. /\ working.does = "delete" /\ working.at = "links" /\ UNCHANGED <<head, links, debugState, listed, headless>>
      /\ working' = [working EXCEPT !.at = "tail"]
  BY DEF RemoveTail
<1>3. PICK k \in 1 .. Len(listed) : listed[k] = working.map
  BY <1>1, <1>2 DEF GdbSteps
<1>4. PICK n \in Nat : n = Len(listed)
  BY <1>1 DEF GdbTypes
<1>5. k \in 1 .. n /\ n # 0 /\ (k # 1 => k - 1 \in 1 .. n)
  BY <1>3, <1>4
<1>6. PICK d : d = Dropped(listed, listed[k])
  OBVIOUS
<1>7. /\ d \in Seq(LinkMaps) /\ Len(d) = n - 1
      /\ \A i \in 1 .. n - 1 : d[i] = IF i < k THEN listed[i] ELSE listed[i + 1]
  BY <1>1, <1>3, <1>4, <1>6, WithoutMap
<1>8. working'.does = "delete" /\ working'.map = listed[k] /\ working'.at = "tail" /\ debugState # "consistent"
  BY <1>1, <1>2, <1>3 DEF GdbTypes, GdbSteps
<1>9. LinkedAs(listed) /\ EndsAt(listed)
  BY <1>1, <1>2 DEF GdbSteps
<1>10. PICK before \in SomeMap : before = IF k = 1 THEN NullMap ELSE listed[k - 1]
  BY <1>1, <1>4, <1>5 DEF GdbTypes, SomeMap
<1>11. /\ tailMap = listed[n] /\ links[listed[k]].prev = before /\ listed[n] \in LinkMaps
       /\ tailMap' = IF listed[n] = listed[k] THEN before ELSE listed[n]
  <2>1. tailMap = listed[n] /\ links[listed[k]].prev = before /\ listed[n] \in LinkMaps
    BY <1>1, <1>4, <1>5, <1>9, <1>10 DEF LinkedAs, EndsAt, GdbTypes
  <2> QED
    BY <1>3, <2>1 DEF RemoveTail, TailWithout
<1>12. tailMap' = IF n - 1 = 0 THEN NullMap ELSE d[n - 1]
  <2>1. CASE k = n
    <3>1. tailMap' = before
      BY <1>11, <2>1
    <3>2. n # 1 => n - 1 \in 1 .. n - 1 /\ n - 1 < k
      BY <1>5, <2>1
    <3>3. n # 1 => d[n - 1] = listed[n - 1]
      BY <1>7, <3>2
    <3> QED
      BY <1>10, <2>1, <3>1, <3>3
  <2>2. CASE k # n
    <3>1. listed[n] # listed[k]
      BY <1>1, <1>4, <1>5, <2>2 DEF GdbTypes
    <3>2. n - 1 \in 1 .. n - 1 /\ ~(n - 1 < k)
      BY <1>5, <2>2
    <3>3. d[n - 1] = listed[(n - 1) + 1]
      BY <1>7, <3>2
    <3> QED
      BY <1>11, <3>1, <3>2, <3>3
  <2> QED
    BY <2>1, <2>2
<1>13. GdbTypes'
  BY <1>1, <1>2, <1>10, <1>11 DEF GdbTypes, SomeMap
<1>14. LinkedAs(listed)'
  BY <1>2, <1>9 DEF LinkedAs
<1>15. EndsAt(Dropped(listed, working.map))'
  <2>1. Dropped(listed, working.map)' = d
    BY <1>2, <1>6, <1>8
  <2> QED
    BY <1>7, <1>12, <2>1 DEF EndsAt
<1>16. GdbSteps'
  BY <1>2, <1>3, <1>8, <1>14, <1>15 DEF GdbSteps
<1> QED
  BY <1>13, <1>16 DEF GdbInv

LEMMA RemoveLinksKeeps == GdbInv /\ RemoveLinks => GdbInv'
<1> SUFFICES ASSUME GdbInv, RemoveLinks PROVE GdbInv'
  OBVIOUS
<1>1. GdbTypes /\ GdbSteps
  BY DEF GdbInv
<1>2. /\ working.does = "delete" /\ working.at = "tail" /\ UNCHANGED <<head, tailMap, debugState>>
      /\ working' = [working EXCEPT !.at = "leave"]
  BY DEF RemoveLinks
<1>3. PICK k \in 1 .. Len(listed) : listed[k] = working.map
  BY <1>1, <1>2 DEF GdbSteps
<1>4. PICK n \in Nat : n = Len(listed)
  BY <1>1 DEF GdbTypes
<1>5. k \in 1 .. n /\ n # 0 /\ (k # 1 => k - 1 \in 1 .. n)
  BY <1>3, <1>4
<1>6. PICK d : d = Dropped(listed, listed[k])
  OBVIOUS
<1>7. /\ d \in Seq(LinkMaps) /\ Len(d) = n - 1
      /\ \A i \in 1 .. n - 1 : d[i] = IF i < k THEN listed[i] ELSE listed[i + 1]
  BY <1>1, <1>3, <1>4, <1>6, WithoutMap
<1>8. LinkedAs(listed) /\ EndsAt(d)
  BY <1>1, <1>2, <1>3, <1>6 DEF GdbSteps
<1>9. \A i \in 1 .. n : /\ listed[i] \in LinkMaps
                        /\ links[listed[i]].next = IF i = n THEN NullMap ELSE listed[i + 1]
                        /\ links[listed[i]].prev = IF i = 1 THEN NullMap ELSE listed[i - 1]
  BY <1>1, <1>4, <1>8 DEF GdbTypes, LinkedAs
<1>10. PICK before, after : before = links[listed[k]].prev /\ after = links[listed[k]].next
  OBVIOUS
<1>11. before = (IF k = 1 THEN NullMap ELSE listed[k - 1]) /\ after = IF k = n THEN NullMap ELSE listed[k + 1]
  BY <1>5, <1>9, <1>10
<1>12. before \in SomeMap /\ after \in SomeMap
  BY <1>5, <1>9, <1>11 DEF SomeMap
<1>13. links' = [x \in LinkMaps |->
                    [next |-> IF x = before THEN after ELSE links[x].next,
                     prev |-> IF x = after THEN before ELSE links[x].prev]]
  BY <1>3, <1>10 DEF RemoveLinks
<1>14. links' \in [LinkMaps -> [next : SomeMap, prev : SomeMap]]
  <2>1. \A x \in LinkMaps : links[x].next \in SomeMap /\ links[x].prev \in SomeMap
    BY <1>1 DEF GdbTypes
  <2> QED
    BY <1>12, <1>13, <2>1
<1>15. \A x \in LinkMaps : /\ links'[x].next = IF x = before THEN after ELSE links[x].next
                           /\ links'[x].prev = IF x = after THEN before ELSE links[x].prev
  BY <1>13
<1>16. \A i, j \in 1 .. n : i # j => listed[i] # listed[j]
  BY <1>1, <1>4 DEF GdbTypes
<1>17. NullMap \notin LinkMaps
  BY GdbAssumption DEF NullMap
<1>18. \A i \in 1 .. n : (listed[i] = before <=> i = k - 1) /\ (listed[i] = after <=> i = k + 1)
  <2>1. ASSUME NEW i \in 1 .. n PROVE (listed[i] = before <=> i = k - 1) /\ (listed[i] = after <=> i = k + 1)
    <3>1. listed[i] = before <=> i = k - 1
      <4>1. CASE k = 1
        BY <1>9, <1>11, <1>17, <4>1
      <4>2. CASE k # 1
        BY <1>5, <1>11, <1>16, <4>2
      <4> QED
        BY <4>1, <4>2
    <3>2. CASE k = n
      BY <1>9, <1>11, <1>17, <3>1, <3>2
    <3>3. CASE k # n
      <4>1. k + 1 \in 1 .. n /\ after = listed[k + 1]
        BY <1>5, <1>11, <3>3
      <4> QED
        BY <1>16, <3>1, <4>1
    <3> QED
      BY <3>2, <3>3
  <2> QED
    BY <2>1
<1>19. ASSUME NEW i \in 1 .. n - 1
       PROVE  /\ links'[d[i]].next = IF i = n - 1 THEN NullMap ELSE d[i + 1]
              /\ links'[d[i]].prev = IF i = 1 THEN NullMap ELSE d[i - 1]
  <2>1. CASE i < k
    <3>1. d[i] = listed[i] /\ i \in 1 .. n
      BY <1>4, <1>7, <2>1
    <3>2. listed[i] # after
      BY <1>5, <1>18, <2>1, <3>1
    <3>3. links'[d[i]].prev = IF i = 1 THEN NullMap ELSE listed[i - 1]
      <4>1. PICK y \in LinkMaps : y = listed[i]
        BY <1>9, <3>1
      <4>2. links'[y].prev = links[y].prev
        BY <1>15, <3>2, <4>1
      <4> QED
        BY <1>9, <3>1, <4>1, <4>2
    <3>4. i # 1 => d[i - 1] = listed[i - 1]
      BY <1>5, <1>7, <2>1
    <3>5. CASE i = k - 1
      <4>1. links'[d[i]].next = IF k = n THEN NullMap ELSE listed[k + 1]
        BY <1>9, <1>11, <1>15, <3>1, <3>5
      <4>2. (i = n - 1 <=> k = n) /\ i + 1 = k
        BY <1>5, <3>5
      <4>3. k # n => k \in 1 .. n - 1 /\ ~(k < k)
        BY <1>5
      <4>4. k # n => d[k] = listed[k + 1]
        BY <1>7, <4>3
      <4> QED
        BY <3>3, <3>4, <4>1, <4>2, <4>4
    <3>6. CASE i # k - 1
      <4>1. links'[d[i]].next = links[listed[i]].next
        BY <1>9, <1>15, <1>18, <3>1, <3>6
      <4>2. i # n /\ i # n - 1 /\ i + 1 \in 1 .. n - 1 /\ i + 1 < k
        BY <1>5, <2>1, <3>6
      <4>3. links'[d[i]].next = listed[i + 1] /\ d[i + 1] = listed[i + 1]
        BY <1>7, <1>9, <3>1, <4>1, <4>2
      <4> QED
        BY <3>3, <3>4, <4>2, <4>3
    <3> QED
      BY <3>5, <3>6
  <2>2. CASE ~(i < k)
    <3>1. d[i] = listed[i + 1] /\ i + 1 \in 1 .. n /\ i \in 1 .. n
      BY <1>4, <1>5, <1>7, <2>2
    <3>2. i + 1 # k - 1
      BY <1>5, <2>2
    <3>3. PICK y \in LinkMaps : y = listed[i + 1]
      BY <1>9, <3>1
    <3>4. y # before
      BY <1>18, <3>1, <3>2, <3>3
    <3>5. links'[y].next = links[y].next
      BY <1>15, <3>3, <3>4
    <3>6. PICK j \in 1 .. n : j = i + 1
      BY <3>1
    <3>7. links[y].next = IF j = n THEN NullMap ELSE listed[j + 1]
      BY <1>9, <3>3, <3>6
    <3>8. j # n => j \in 1 .. n - 1 /\ ~(j < k)
      BY <1>5, <2>2, <3>6
    <3>9. j # n => d[j] = listed[j + 1]
      BY <1>7, <3>8
    <3>10. links'[d[i]].next = IF i = n - 1 THEN NullMap ELSE d[i + 1]
      BY <3>1, <3>3, <3>5, <3>6, <3>7, <3>9
    <3>11. links[y].prev = listed[i]
      <4>1. j # 1 /\ j - 1 = i
        BY <3>6
      <4> QED
        BY <1>9, <3>3, <3>6, <4>1
    <3>12. CASE i = k
      <4>1. y = after
        BY <1>18, <3>1, <3>3, <3>12
      <4>2. links'[y].prev = before
        BY <1>15, <3>3, <4>1
      <4>3. k # 1 => k - 1 \in 1 .. n - 1 /\ k - 1 < k
        BY <1>5
      <4>4. k # 1 => d[k - 1] = listed[k - 1]
        BY <1>7, <4>3
      <4> QED
        BY <1>11, <3>1, <3>3, <3>10, <3>12, <4>2, <4>4
    <3>13. CASE i # k
      <4>1. y # after
        BY <1>5, <1>18, <3>1, <3>3, <3>13
      <4>2. links'[y].prev = listed[i]
        BY <1>15, <3>3, <3>11, <4>1
      <4>3. i # 1 /\ i - 1 \in 1 .. n - 1 /\ ~(i - 1 < k)
        BY <1>5, <2>2, <3>13
      <4>4. d[i - 1] = listed[(i - 1) + 1]
        BY <1>7, <4>3
      <4> QED
        BY <3>1, <3>3, <3>10, <4>2, <4>3, <4>4
    <3> QED
      BY <3>12, <3>13
  <2> QED
    BY <2>1, <2>2
<1>20. listed' = d
  BY <1>3, <1>6 DEF RemoveLinks
<1>21. headless' \/ head' = IF n - 1 = 0 THEN NullMap ELSE d[1]
  <2>1. headless' = (headless \/ listed[k] = listed[1])
    BY <1>3 DEF RemoveLinks
  <2>2. CASE k = 1
    BY <2>1, <2>2
  <2>3. CASE k # 1
    <3>1. headless \/ head = listed[1]
      BY <1>4, <1>5, <1>8 DEF LinkedAs
    <3>2. 1 \in 1 .. n - 1 /\ 1 < k /\ n - 1 # 0
      BY <1>5, <2>3
    <3>3. d[1] = listed[1]
      BY <1>7, <3>2
    <3>4. CASE headless
      BY <2>1, <3>4
    <3>5. CASE head = listed[1]
      BY <1>2, <3>2, <3>3, <3>5
    <3> QED
      BY <3>1, <3>4, <3>5
  <2> QED
    BY <2>2, <2>3
<1>22. LinkedAs(listed)' /\ EndsAt(listed)'
  BY <1>2, <1>7, <1>8, <1>19, <1>20, <1>21 DEF LinkedAs, EndsAt
<1>23. \A i, j \in 1 .. n - 1 : i # j => d[i] # d[j]
  <2>1. ASSUME NEW i \in 1 .. n - 1, NEW j \in 1 .. n - 1, i # j PROVE d[i] # d[j]
    <3>1. PICK p \in 1 .. n : p = IF i < k THEN i ELSE i + 1
      BY <1>4, <1>5
    <3>2. PICK q \in 1 .. n : q = IF j < k THEN j ELSE j + 1
      BY <1>4, <1>5
    <3>3. p # q
      BY <1>5, <2>1, <3>1, <3>2
    <3>4. d[i] = listed[p] /\ d[j] = listed[q]
      BY <1>7, <3>1, <3>2
    <3> QED
      BY <1>16, <3>3, <3>4
  <2> QED
    BY <2>1
<1>24. GdbTypes'
  <2>1. headless' \in BOOLEAN
    BY <1>1 DEF RemoveLinks, GdbTypes
  <2> QED
    BY <1>1, <1>2, <1>7, <1>14, <1>20, <1>23, <2>1 DEF GdbTypes
<1>25. working'.at = "leave" /\ debugState # "consistent"
  BY <1>1, <1>2 DEF GdbTypes, GdbSteps
<1>26. GdbSteps'
  BY <1>2, <1>22, <1>25 DEF GdbSteps
<1> QED
  BY <1>24, <1>26 DEF GdbInv

LEMMA LeaveMutexKeeps == GdbInv /\ LeaveMutex => GdbInv'
<1> SUFFICES ASSUME GdbInv, LeaveMutex PROVE GdbInv'
  OBVIOUS
<1>1. GdbTypes /\ GdbSteps
  BY DEF GdbInv
<1>2. working.at = "leave" /\ UNCHANGED <<head, tailMap, links, listed, headless>>
  BY DEF LeaveMutex
<1>3. working' = NoWork /\ debugState' = "consistent" /\ working'.at = "done"
  BY DEF LeaveMutex, NoWork
<1>4. GdbTypes'
  BY <1>1, <1>2, <1>3 DEF GdbTypes, SomeMap, NoWork
<1>5. LinkedAs(listed)' /\ EndsAt(listed)'
  BY <1>1, <1>2 DEF GdbSteps, LinkedAs, EndsAt
<1>6. GdbSteps'
  BY <1>3, <1>5 DEF GdbSteps
<1> QED
  BY <1>4, <1>6 DEF GdbInv

LEMMA GdbInvariant == GdbSpec => []GdbInv
<1>1. ASSUME GdbInv, [GdbNext]_gdbVars PROVE GdbInv'
  <2>1. CASE UNCHANGED gdbVars
    <3>1. UNCHANGED <<head, tailMap, links, debugState, working, listed, headless>>
      BY <2>1 DEF gdbVars
    <3>2. GdbTypes'
      BY <1>1, <3>1 DEF GdbInv, GdbTypes
    <3> QED
      BY <1>1, <3>1, <3>2 DEF GdbInv, GdbSteps, LinkedAs, EndsAt
  <2>2. CASE GdbNext
    BY <1>1, <2>2, NotifyKeeps, InsertLinksKeeps, InsertTailKeeps, RemoveTailKeeps, RemoveLinksKeeps,
       LeaveMutexKeeps DEF GdbNext
  <2> QED
    BY <1>1, <2>1, <2>2
<1> QED
  BY GdbInitInv, <1>1, PTL DEF GdbSpec

LEMMA ListingFits ==
    ASSUME NEW l \in Seq(LinkMaps), \A i, j \in 1 .. Len(l) : i # j => l[i] # l[j]
    PROVE  Cardinality(LinkMaps) \in Nat /\ Len(l) <= Cardinality(LinkMaps)
<1>1. IsFiniteSet(LinkMaps)
  BY GdbAssumption
<1>2. Cardinality(LinkMaps) \in Nat
  BY <1>1, FS_CardinalityType
<1>3. PICK n \in Nat : n = Len(l)
  OBVIOUS
<1>4. IsFiniteSet(1 .. n) /\ Cardinality(1 .. n) = n
  <2>1. 1 \in Int /\ n \in Int
    OBVIOUS
  <2>2. /\ IsFiniteSet(1 .. n)
        /\ Cardinality(1 .. n) = IF 1 > n THEN 0 ELSE n - 1 + 1
    BY <2>1, FS_Interval
  <2>3. (IF 1 > n THEN 0 ELSE n - 1 + 1) = n
    OBVIOUS
  <2> QED
    BY <2>2, <2>3
<1>5. PICK f \in [1 .. n -> LinkMaps] : \A i \in 1 .. n : f[i] = l[i]
  <2>1. \A i \in 1 .. n : l[i] \in LinkMaps
    BY <1>3
  <2>2. [i \in 1 .. n |-> l[i]] \in [1 .. n -> LinkMaps]
    BY <2>1
  <2> QED
    BY <2>2
<1>6. ASSUME Cardinality(LinkMaps) < n PROVE FALSE
  <2>1. \E i, j \in 1 .. n : i # j /\ f[i] = f[j]
    BY <1>1, <1>4, <1>6, FS_PigeonHole
  <2> QED
    BY <1>3, <1>5, <2>1
<1> QED
  BY <1>2, <1>3, <1>6

\* The maps from m are those of l, if each leads to the next in l.
LEMMA ChainIs ==
    ASSUME NEW l \in Seq(LinkMaps), \A i, j \in 1 .. Len(l) : i # j => l[i] # l[j],
           NEW dir, NEW m, m = IF Len(l) = 0 THEN NullMap ELSE l[1],
           \A i \in 1 .. Len(l) : links[l[i]][dir] = IF i = Len(l) THEN NullMap ELSE l[i + 1]
    PROVE  Chain(m, dir) = l
<1>1. l \in Seq(LinkMaps) /\ NullMap \notin LinkMaps
  BY GdbAssumption DEF NullMap
<1>2. PICK n \in Nat : n = Len(l)
  BY <1>1
<1>3. /\ m = IF n = 0 THEN NullMap ELSE l[1]
      /\ \A i \in 1 .. n : links[l[i]][dir] = IF i = n THEN NullMap ELSE l[i + 1]
  BY <1>2
<1>4. PICK N : N = Cardinality(LinkMaps)
  OBVIOUS
<1>5. N \in Nat /\ n <= N
  BY <1>1, <1>2, <1>4, ListingFits
<1>6. PICK w : w = Append(l, NullMap)
  OBVIOUS
<1>7. PICK B : B = LinkMaps \cup {NullMap}
  OBVIOUS
<1>8. l \in Seq(B) /\ NullMap \in B
  BY <1>1, <1>7
<1>9. /\ w \in Seq(B) /\ Len(w) = n + 1 /\ w[n + 1] = NullMap
      /\ \A i \in 1 .. n : w[i] = l[i]
  BY <1>2, <1>6, <1>8
<1>10. \A i \in 1 .. n : w[i] \in LinkMaps /\ w[i] # NullMap /\ links[w[i]][dir] = w[i + 1]
  <2> TAKE i \in 1 .. n
  <2>1. l[i] \in LinkMaps
    BY <1>1, <1>2
  <2>2. i # n => i + 1 \in 1 .. n
    BY <1>2
  <2> QED
    BY <1>3, <1>9, <2>1, <2>2, <1>1
<1>11. w[1] = m
  <2>1. CASE n = 0
    <3>0. l \in Seq(LinkMaps) /\ Len(l) = 0
      BY <1>1, <1>2, <2>1
    <3>1. l = <<>>
      BY <3>0
    <3> QED
      BY <1>3, <1>9, <2>1, <3>1
  <2>2. CASE n # 0
    <3>1. 1 \in 1 .. n /\ l # <<>>
      BY <1>2, <2>2
    <3> QED
      BY <1>3, <1>9, <3>1
  <2> QED
    BY <2>1, <2>2
<1> DEFINE upto(k) == IF k < n THEN k + 1 ELSE n + 1
           P(f) == f = [k \in 0 .. N |->
                          IF k = 0 THEN <<m>>
                          ELSE LET before == f[k - 1] IN
                               IF Last(before) = NullMap THEN before
                               ELSE Append(before, links[Last(before)][dir])]
           c == CHOOSE f : P(f)
<1>12. Chain(m, dir) = Front(c[N])
  BY <1>4 DEF Chain
<1>13. PICK g : g = [k \in 0 .. N |-> SubSeq(w, 1, upto(k))]
  OBVIOUS
<1>14. \A k \in 0 .. N : upto(k) \in 1 .. n + 1
  BY <1>2
<1>15. ASSUME NEW j \in 1 .. n + 1
       PROVE  LET s == SubSeq(w, 1, j) IN
              /\ s \in Seq(B) /\ Len(s) = j /\ Last(s) = w[j]
              /\ j <= n => Append(s, w[j + 1]) = SubSeq(w, 1, j + 1)
  <2>1. j \in Nat /\ j >= 1 /\ j <= n + 1 /\ j \in Int
    BY <1>2
  <2>2. \A i \in 1 .. j : w[i] \in B
    BY <1>9, <2>1
  <2>3. PICK s : s = SubSeq(w, 1, j)
    OBVIOUS
  <2>4. /\ SubSeq(w, 1, j) \in Seq(B)
        /\ Len(SubSeq(w, 1, j)) = IF 1 <= j THEN j - 1 + 1 ELSE 0
        /\ \A i \in 1 .. j - 1 + 1 : SubSeq(w, 1, j)[i] = w[1 + i - 1]
    BY <2>1, <2>2, SubSeqProperties
  <2>5. s \in Seq(B) /\ Len(s) = j /\ s[j] = w[j]
    BY <2>1, <2>3, <2>4
  <2>6. ASSUME j <= n PROVE Append(s, w[j + 1]) = SubSeq(w, 1, j + 1)
    <3>1. j + 1 \in 1 .. Len(w) /\ 1 \in 1 .. Len(w) /\ j + 1 \in 1 .. Len(w) /\ (j + 1) - 1 = j
      BY <1>9, <2>1, <2>6
    <3>2. SubSeq(w, 1, j + 1) = SubSeq(w, 1, j) \o <<w[j + 1]>>
      BY <1>9, <3>1, SubSeqRecursiveSecond
    <3>3. w[j + 1] \in B
      BY <1>9, <3>1
    <3>4. Append(s, w[j + 1]) = s \o <<w[j + 1]>>
      BY <2>5, <3>3
    <3> QED
      BY <2>3, <3>2, <3>4
  <2> QED
    BY <2>3, <2>5, <2>6 DEF Last
<1>16. \A k \in 0 .. N : g[k] \in Seq(B) /\ Last(g[k]) = w[upto(k)]
  BY <1>13, <1>14, <1>15
<1>17. g[0] = <<m>>
  <2>1. upto(0) = 1 /\ 0 \in 0 .. N /\ 1 \in 1 .. n + 1
    BY <1>2, <1>5
  <2>2. g[0] \in Seq(B) /\ Len(g[0]) = 1 /\ Last(g[0]) = m
    BY <1>11, <1>13, <1>15, <2>1
  <2>3. PICK s \in Seq(B) : s = g[0]
    BY <2>2
  <2>4. s = <<s[1]>> /\ s[1] = m
    BY <2>2, <2>3 DEF Last
  <2> QED
    BY <2>3, <2>4
<1>18. ASSUME NEW k \in 1 .. N
       PROVE  g[k] = IF Last(g[k - 1]) = NullMap THEN g[k - 1]
                     ELSE Append(g[k - 1], links[Last(g[k - 1])][dir])
  <2>1. k \in 0 .. N /\ k - 1 \in 0 .. N
    BY <1>5
  <2>2. CASE k <= n
    <3>1. upto(k - 1) = k /\ upto(k) = k + 1 /\ k \in 1 .. n /\ k \in 1 .. n + 1
      BY <1>2, <1>5, <2>2
    <3>2. g[k - 1] = SubSeq(w, 1, k) /\ g[k] = SubSeq(w, 1, k + 1)
      BY <1>13, <2>1, <3>1
    <3>3. Last(g[k - 1]) = w[k] /\ Append(g[k - 1], w[k + 1]) = SubSeq(w, 1, k + 1)
      BY <1>15, <2>2, <3>1, <3>2
    <3> QED
      BY <1>10, <3>1, <3>2, <3>3
  <2>3. CASE ~(k <= n)
    <3>1. upto(k - 1) = n + 1 /\ upto(k) = n + 1
      BY <1>2, <1>5, <2>3
    <3>2. Last(g[k - 1]) = NullMap /\ g[k] = g[k - 1]
      BY <1>9, <1>13, <1>16, <2>1, <3>1
    <3> QED
      BY <3>2
  <2> QED
    BY <2>2, <2>3
<1>19. P(g)
  <2>1. g = [k \in 0 .. N |-> g[k]]
    BY <1>13
  <2>2. \A k \in 0 .. N : k # 0 => k \in 1 .. N
    BY <1>5
  <2>3. \A k \in 0 .. N : g[k] = IF k = 0 THEN <<m>>
                                 ELSE LET before == g[k - 1] IN
                                      IF Last(before) = NullMap THEN before
                                      ELSE Append(before, links[Last(before)][dir])
    BY <1>17, <1>18, <2>2
  <2> QED
    BY <2>1, <2>3
<1>20. P(c)
  BY <1>19
<1> HIDE DEF c, upto
<1>21. c[0] = <<m>>
       /\ \A k \in 1 .. N : c[k] = IF Last(c[k - 1]) = NullMap THEN c[k - 1]
                                   ELSE Append(c[k - 1], links[Last(c[k - 1])][dir])
  <2>1. \A k \in 1 .. N : k \in 0 .. N /\ k # 0
    BY <1>5
  <2>2. 0 \in 0 .. N
    BY <1>5
  <2> QED
    BY <1>20, <2>1, <2>2
<1> HIDE DEF P
<1> DEFINE Bad == {k \in 0 .. N : c[k] # g[k]}
<1>22. Bad = {}
  <2> SUFFICES ASSUME Bad # {} PROVE FALSE
    OBVIOUS
  <2>1. Bad \in SUBSET Nat
    BY <1>5
  <2>2. PICK k \in Bad : \A x \in Bad : k <= x
    <3> HIDE DEF Bad
    <3> QED BY <2>1, LeastNat
  <2>3. k \in 0 .. N /\ c[k] # g[k]
    OBVIOUS
  <2>4. k # 0
    BY <1>17, <1>21, <2>3
  <2>5. k \in 1 .. N /\ k - 1 \in 0 .. N /\ ~(k <= k - 1)
    BY <1>5, <2>3, <2>4
  <2>6. c[k - 1] = g[k - 1]
    BY <2>2, <2>5
  <2> QED
    BY <1>18, <1>21, <2>3, <2>5, <2>6
<1>23. c[N] = g[N] /\ g[N] = w
  <2>1. N \in 0 .. N /\ upto(N) = n + 1
    BY <1>2, <1>5 DEF upto
  <2>2. SubSeq(w, 1, Len(w)) = w
    BY <1>9, SubSeqFull
  <2> QED
    BY <1>9, <1>13, <1>22, <2>1, <2>2
<1>24. Front(w) = l
  <2>1. (n + 1) - 1 = n
    BY <1>2
  <2>2. /\ SubSeq(w, 1, n) \in Seq(B)
        /\ Len(SubSeq(w, 1, n)) = IF 1 <= n THEN n - 1 + 1 ELSE 0
        /\ \A i \in 1 .. n - 1 + 1 : SubSeq(w, 1, n)[i] = w[1 + i - 1]
    <3>1. \A i \in 1 .. n : w[i] \in B
      BY <1>9
    <3>2. n \in Int
      BY <1>2
    <3> QED
      BY <3>1, <3>2, SubSeqProperties
  <2>3. PICK s : s = SubSeq(w, 1, n)
    OBVIOUS
  <2>4. s \in Seq(B) /\ Len(s) = n
    BY <1>2, <2>2, <2>3
  <2>5. \A i \in 1 .. n : s[i] = l[i]
    BY <1>2, <1>9, <2>2, <2>3
  <2>6. s = l
    BY <1>2, <1>8, <2>4, <2>5
  <2> QED
    BY <1>9, <2>1, <2>3, <2>6 DEF Front
<1> QED
  BY <1>12, <1>23, <1>24

LEMMA DebuggerMeetsAll == GdbInv => DebuggerSeesAll
<1> SUFFICES ASSUME GdbInv, debugState = "consistent"
             PROVE  /\ Chain(Oldest, "next") = listed /\ Chain(tailMap, "prev") = Reverse(listed)
                    /\ headless \/ head = Oldest
  BY DEF DebuggerSeesAll
<1>1. GdbTypes /\ LinkedAs(listed) /\ EndsAt(listed)
  BY DEF GdbInv, GdbSteps
<1>2. PICK n \in Nat : n = Len(listed)
  BY <1>1 DEF GdbTypes
<1>3. \A i \in 1 .. n : /\ links[listed[i]]["next"] = IF i = n THEN NullMap ELSE listed[i + 1]
                        /\ links[listed[i]]["prev"] = IF i = 1 THEN NullMap ELSE listed[i - 1]
  BY <1>1, <1>2 DEF LinkedAs
<1>4. listed \in Seq(LinkMaps) /\ \A i, j \in 1 .. n : i # j => listed[i] # listed[j]
  BY <1>1, <1>2 DEF GdbTypes
<1>5. /\ Oldest = IF n = 0 THEN NullMap ELSE listed[1]
      /\ headless \/ head = Oldest
  <2>1. Oldest = IF n = 0 THEN NullMap ELSE listed[1]
    BY <1>2, <1>4, EmptySeq DEF Oldest
  <2> QED
    BY <1>1, <1>2, <2>1 DEF LinkedAs
<1>6. Chain(Oldest, "next") = listed
  <2>1. PICK x, d : x = Oldest /\ d = "next"
    OBVIOUS
  <2>2. /\ \A i, j \in 1 .. Len(listed) : i # j => listed[i] # listed[j]
        /\ x = IF Len(listed) = 0 THEN NullMap ELSE listed[1]
        /\ \A i \in 1 .. Len(listed) : links[listed[i]][d] = IF i = Len(listed) THEN NullMap ELSE listed[i + 1]
    BY <1>2, <1>3, <1>4, <1>5, <2>1
  <2>3. Chain(x, d) = listed
    BY <1>4, <2>2, ChainIs
  <2> QED
    BY <2>1, <2>3
<1>7. PICK r : r = Reverse(listed)
  OBVIOUS
<1>8. \A i \in 1 .. n : (n - i) + 1 \in 1 .. n
  BY <1>2
<1>9. r \in Seq(LinkMaps) /\ Len(r) = n /\ \A i \in 1 .. n : r[i] = listed[(n - i) + 1]
  BY <1>2, <1>4, <1>7, <1>8 DEF Reverse
<1>10. \A i, j \in 1 .. Len(r) : i # j => r[i] # r[j]
  <2> TAKE i, j \in 1 .. Len(r)
  <2>1. i # j => (n - i) + 1 # (n - j) + 1
    BY <1>2, <1>9
  <2> QED
    BY <1>4, <1>8, <1>9, <2>1
<1>11. \A i \in 1 .. Len(r) : links[r[i]]["prev"] = IF i = Len(r) THEN NullMap ELSE r[i + 1]
  <2> TAKE i \in 1 .. Len(r)
  <2>1. PICK k \in 1 .. n : k = (n - i) + 1
    BY <1>8, <1>9
  <2>2. links[r[i]]["prev"] = IF k = 1 THEN NullMap ELSE listed[k - 1]
    BY <1>3, <1>9, <2>1
  <2>3. k = 1 <=> i = n
    BY <1>2, <1>9, <2>1
  <2>4. i # n => i + 1 \in 1 .. n /\ (n - (i + 1)) + 1 = k - 1
    BY <1>2, <1>9, <2>1
  <2>5. i # n => r[i + 1] = listed[k - 1]
    BY <1>9, <2>4
  <2> QED
    BY <1>9, <2>2, <2>3, <2>5
<1>12. tailMap = IF Len(r) = 0 THEN NullMap ELSE r[1]
  <2>1. n # 0 => 1 \in 1 .. n /\ (n - 1) + 1 = n
    BY <1>2
  <2> QED
    BY <1>1, <1>2, <1>9, <2>1 DEF EndsAt
<1>13. Chain(tailMap, "prev") = r
  <2>1. PICK x, d : x = tailMap /\ d = "prev"
    OBVIOUS
  <2>2. /\ x = IF Len(r) = 0 THEN NullMap ELSE r[1]
        /\ \A i \in 1 .. Len(r) : links[r[i]][d] = IF i = Len(r) THEN NullMap ELSE r[i + 1]
    BY <1>11, <1>12, <2>1
  <2>3. Chain(x, d) = r
    <3>1. r \in Seq(LinkMaps)
      BY <1>9
    <3> QED
      BY <3>1, <1>10, <2>2, ChainIs
  <2> QED
    BY <2>1, <2>3
<1> QED
  BY <1>5, <1>6, <1>7, <1>13

-----------------------------------------------------------------------------
(* A function defined by what each step makes of the one before.             *)

Steps(g, S, n, a, step) ==
    g \in [0 .. n -> S] /\ g[0] = a /\ \A i \in 1 .. n : g[i] = step[i][g[i - 1]]
StepsIn(S, n, step) == \A i \in 1 .. n : \A x \in S : step[i][x] \in S

LEMMA StepsExist ==
    ASSUME NEW S, NEW n \in Nat, NEW a \in S, NEW step, StepsIn(S, n, step)
    PROVE  \E g : Steps(g, S, n, a, step)
<1> USE DEF StepsIn, Steps
<1> DEFINE Upto(g, k) == Steps(g, S, k, a, step)
           Bad == {k \in 0 .. n : ~ \E g : Upto(g, k)}
<1> SUFFICES ASSUME Bad # {} PROVE FALSE
  <2>1. n \in 0 .. n
    OBVIOUS
  <2> QED
    BY <2>1
<1>1. Bad \in SUBSET Nat
  OBVIOUS
<1>2. PICK k \in Bad : \A m \in Bad : k <= m
  <2> HIDE DEF Bad
  <2> QED BY <1>1, LeastNat
<1>3. k \in 0 .. n
  OBVIOUS
<1>4. k # 0
  <2>1. PICK g : g = [i \in 0 .. 0 |-> a]
    OBVIOUS
  <2>2. Upto(g, 0)
    BY <2>1
  <2> QED
    BY <2>2
<1>5. k - 1 \in 0 .. n /\ k \in 1 .. n
  BY <1>3, <1>4
<1>6. ~(k - 1 \in Bad)
  <2>1. ~(k <= k - 1)
    BY <1>3
  <2> HIDE DEF Bad
  <2> QED
    BY <1>2, <2>1
<1>7. PICK g : Upto(g, k - 1)
  BY <1>5, <1>6
<1> HIDE DEF Bad
<1>8. PICK h : h = [i \in 0 .. k |-> IF i = k THEN step[k][g[k - 1]] ELSE g[i]]
  OBVIOUS
<1>9. k - 1 \in 0 .. k - 1 /\ \A i \in 0 .. k : i # k => i \in 0 .. k - 1
  BY <1>5
<1>10. g[k - 1] \in S /\ step[k][g[k - 1]] \in S
  BY <1>5, <1>7, <1>9
<1>11. h \in [0 .. k -> S]
  BY <1>7, <1>8, <1>9, <1>10
<1>12. h[0] = a
  BY <1>4, <1>5, <1>7, <1>8
<1>13. ASSUME NEW i \in 1 .. k PROVE h[i] = step[i][h[i - 1]]
  <2>1. i - 1 \in 0 .. k - 1 /\ i - 1 # k /\ i \in 0 .. k /\ i - 1 \in 0 .. k
    BY <1>5
  <2>2. h[i - 1] = g[i - 1]
    BY <1>8, <2>1
  <2>3. CASE i = k
    BY <1>8, <2>1, <2>2, <2>3
  <2>4. CASE i # k
    <3>1. i \in 1 .. k - 1
      BY <1>5, <2>4
    <3> QED
      BY <1>7, <1>8, <2>1, <2>2, <2>4, <3>1
  <2> QED
    BY <2>3, <2>4
<1>14. Upto(h, k)
  BY <1>11, <1>12, <1>13
<1> QED
  BY <1>2, <1>3, <1>14 DEF Bad

-----------------------------------------------------------------------------
(* The shadow of control flow integrity.                                     *)

LEMMA Multiples ==
    ASSUME NEW b \in Nat \ {0}, NEW j \in Int, NEW k \in Int, b * j < b * k + b
    PROVE  j <= k
<1>1. CASE j > k
  <2>1. PICK e \in Nat : j = k + 1 + e
    BY <1>1
  <2>2. b * j = b * k + b + b * e
    BY <2>1
  <2>3. b * e \in Nat /\ b * k \in Int
    OBVIOUS
  <2> QED
    BY <2>2, <2>3
<1> QED
  BY <1>1

LEMMA Divides ==
    ASSUME NEW b \in Nat \ {0}, NEW x \in Nat
    PROVE  /\ x \div b \in Nat /\ x % b \in 0 .. b - 1 /\ b * (x \div b) \in Nat
           /\ x = b * (x \div b) + (x % b)
OBVIOUS

\* Whole multiples of b with a rest below b.
LEMMA RemainderIs ==
    ASSUME NEW b \in Nat \ {0}, NEW q \in Nat, NEW r \in 0 .. b - 1, NEW x \in Nat, x = b * q + r
    PROVE  x % b = r /\ x \div b = q
<1>1. PICK p \in Nat, s \in 0 .. b - 1 : p = x \div b /\ s = x % b /\ x = b * p + s
  BY Divides
<1>2. PICK c \in Nat, d \in Nat : c = b * p /\ d = b * q
  OBVIOUS
<1>3. c < d + b /\ d < c + b
  BY <1>1, <1>2
<1>4. p <= q /\ q <= p
  BY <1>2, <1>3, Multiples
<1>5. p = q
  BY <1>4
<1> QED
  BY <1>1, <1>5

LEMMA GranulesRise ==
    ASSUME NEW x \in Nat, NEW y \in Nat, x <= y
    PROVE  x \div Granule <= y \div Granule
<1>1. Granule \in Nat \ {0}
  BY CfiAssumption
<1>2. PICK p \in Nat, s \in 0 .. Granule - 1 : p = x \div Granule /\ x = Granule * p + s
  BY <1>1, Divides
<1>3. PICK q \in Nat, t \in 0 .. Granule - 1 : q = y \div Granule /\ y = Granule * q + t
  BY <1>1, Divides
<1>4. PICK c \in Nat, d \in Nat : c = Granule * p /\ d = Granule * q
  BY <1>1
<1>5. c < d + Granule
  BY <1>1, <1>2, <1>3, <1>4
<1> QED
  BY <1>1, <1>2, <1>3, <1>4, <1>5, Multiples

LEMMA WrapsOnce ==
    ASSUME NEW b \in Nat \ {0}, NEW x \in Nat, b <= x, x < b + b
    PROVE  x % b = x - b
<1>1. PICK r \in 0 .. b - 1 : r = x - b
  OBVIOUS
<1>2. PICK one \in Nat : one = 1
  OBVIOUS
<1>3. b * one = b
  BY <1>2
<1>4. x = b * one + r
  BY <1>1, <1>3
<1>5. x % b = r
  BY <1>1, <1>4, RemainderIs
<1> QED
  BY <1>1, <1>5

\* Where the range a library covers starts.
TopOf(l) == IF l.check = 0 THEN l.base ELSE l.check

LEMMA LibraryPlace ==
    ASSUME NEW l \in CfiLibraries
    PROVE  /\ l.base \in Nat /\ l.size \in Nat \ {0} /\ l.check \in Nat
           /\ TopOf(l) \in Nat /\ l.base <= TopOf(l) /\ TopOf(l) <= l.base + l.size - 1
           /\ l.base + l.size - 1 \in Nat
           /\ CoveredFrom(l) \in Nat /\ CoveredFrom(l) <= TopOf(l) /\ TopOf(l) < CoveredFrom(l) + Granule
           /\ TopOf(l) \div Granule \in Nat
           /\ CoveredFrom(l) = Granule * (TopOf(l) \div Granule)
           /\ CoveredFrom(l) \div Granule = TopOf(l) \div Granule
           /\ l.base \div Granule <= TopOf(l) \div Granule
           /\ TopOf(l) \div Granule <= (l.base + l.size - 1) \div Granule
           /\ (l.base + l.size - 1) \div Granule \in 0 .. MaxGranules
<1>1. Granule \in Nat \ {0} /\ MaxGranules \in Nat
  BY CfiAssumption
<1>2. PICK b \in Nat, s \in Nat \ {0}, c \in Nat :
         /\ b = l.base /\ s = l.size /\ c = l.check
         /\ c = 0 \/ (b <= c /\ c < b + s)
         /\ b + s <= (MaxGranules + 1) * Granule
  BY CfiAssumption
<1>3. PICK t \in Nat : t = TopOf(l) /\ b <= t /\ t <= b + s - 1
  BY <1>2 DEF TopOf
<1>4. CoveredFrom(l) = t - (t % Granule)
  <2>1. (IF b > c THEN b ELSE c) = t
    BY <1>2, <1>3 DEF TopOf
  <2> QED
    BY <1>2, <2>1 DEF CoveredFrom
<1>5. PICK q \in Nat, r \in 0 .. Granule - 1 : q = t \div Granule /\ r = t % Granule /\ t = Granule * q + r
  <2>1. t \div Granule \in Nat /\ t % Granule \in 0 .. Granule - 1
    BY <1>1, Divides
  <2>2. t = Granule * (t \div Granule) + (t % Granule)
    BY <1>1, Divides
  <2> QED
    BY <2>1, <2>2
<1>6. PICK f \in Nat : f = Granule * q
  BY <1>1
<1>7. CoveredFrom(l) = f /\ f <= t /\ t < f + Granule
  BY <1>1, <1>4, <1>5, <1>6
<1>8. f \div Granule = q
  <2>1. 0 \in 0 .. Granule - 1 /\ f = Granule * q + 0
    BY <1>1, <1>6
  <2> QED
    BY <1>1, <2>1, RemainderIs
<1>9. PICK e \in Nat : e = b + s - 1
  BY <1>2
<1>10. b \div Granule <= q /\ q <= e \div Granule
  BY <1>2, <1>3, <1>5, <1>9, GranulesRise
<1>11. e \div Granule \in 0 .. MaxGranules
  <2>0. e \div Granule \in Nat /\ e % Granule \in 0 .. Granule - 1 /\ e = Granule * (e \div Granule) + (e % Granule)
    BY <1>1, Divides
  <2>1. PICK p \in Nat, x \in 0 .. Granule - 1 : p = e \div Granule /\ e = Granule * p + x
    BY <2>0
  <2>2. PICK z \in Nat : z = (MaxGranules + 1) * Granule
    BY <1>1
  <2>3. PICK c1 \in Nat, d1 \in Nat : c1 = Granule * p /\ d1 = Granule * MaxGranules
    BY <1>1
  <2>4. c1 < d1 + Granule
    <3>1. z = d1 + Granule
      BY <1>1, <2>2, <2>3
    <3>2. e + 1 <= z
      BY <1>2, <1>9, <2>2
    <3>3. c1 <= e
      BY <2>1, <2>3
    <3> QED
      BY <1>1, <3>1, <3>2, <3>3
  <2>5. p <= MaxGranules
    BY <1>1, <2>3, <2>4, Multiples
  <2> QED
    BY <2>1, <2>5
<1> QED
  BY <1>2, <1>3, <1>5, <1>6, <1>7, <1>8, <1>9, <1>10, <1>11

\* The value of the first granule and of granule g, before the slot is looked at.
FirstOf(l) == (CoveredFrom(l) + Granule - l.check + RegularMin) % ShadowValues
ValueAt(l, g) == (FirstOf(l) + (g - CoveredFrom(l) \div Granule) * Granule) % ShadowValues

LEMMA FirstIs ==
    ASSUME NEW l \in CfiLibraries, l.check # 0
    PROVE  /\ FirstOf(l) = CoveredFrom(l) + Granule - l.check + RegularMin
           /\ FirstOf(l) \in 3 .. Granule + 2 /\ FirstOf(l) < ShadowValues
<1>1. PICK f \in Nat, c \in Nat : f = CoveredFrom(l) /\ c = l.check /\ f <= c /\ c < f + Granule
  BY LibraryPlace DEF TopOf
<1>2. Granule \in Nat \ {0} /\ ShadowValues \in Nat \ {0} /\ ShadowValues > Granule + 2
  BY CfiAssumption
<1>3. PICK x \in Nat : x = f + Granule - c + 2
  BY <1>1, <1>2
<1>4. x \in 3 .. Granule + 2 /\ x \in 0 .. ShadowValues - 1
  BY <1>1, <1>2, <1>3
<1>5. x % ShadowValues = x
  <2>1. x = ShadowValues * 0 + x
    BY <1>2, <1>4
  <2> QED
    BY <1>2, <1>4, <2>1, RemainderIs
<1>6. FirstOf(l) = x
  BY <1>1, <1>3, <1>5 DEF FirstOf, RegularMin
<1> QED
  BY <1>1, <1>2, <1>3, <1>4, <1>6 DEF RegularMin

\* The granules a library covers are its own, the first ones left out.
LEMMA CoveredIs ==
    ASSUME NEW l \in CfiLibraries
    PROVE  /\ CoveredOf(l) = {g \in 0 .. MaxGranules :
                                TopOf(l) \div Granule <= g /\ g <= (l.base + l.size - 1) \div Granule}
           /\ Granules(l) = {g \in 0 .. MaxGranules :
                                l.base \div Granule <= g /\ g <= (l.base + l.size - 1) \div Granule}
           /\ CoveredOf(l) \subseteq Granules(l)
<1>1. Granule \in Nat \ {0} /\ MaxGranules \in Nat
  BY CfiAssumption
<1>2. PICK b \in Nat, p \in Nat, q \in Nat, e \in Nat :
        /\ b = l.base \div Granule /\ p = TopOf(l) \div Granule /\ q = CoveredFrom(l) \div Granule
        /\ e = (l.base + l.size - 1) \div Granule /\ b <= p /\ p = q
  <2>1. l.base \in Nat /\ TopOf(l) \in Nat /\ CoveredFrom(l) \in Nat /\ l.base + l.size - 1 \in Nat
    BY LibraryPlace
  <2>2. \A x \in Nat : x \div Granule \in Nat
    BY <1>1
  <2> QED
    BY <2>1, <2>2, LibraryPlace
<1>2a. (l.base + l.size) - 1 = l.base + l.size - 1
  BY LibraryPlace
<1>3. CoveredOf(l) = {g \in 0 .. MaxGranules : p <= g /\ g <= e}
  <2>1. CoveredOf(l) = {g \in 0 .. MaxGranules : CoveredFrom(l) \div Granule <= g /\ g <= ((l.base + l.size) - 1) \div Granule}
    BY DEF CoveredOf, GranulesOf
  <2> QED
    BY <1>2, <1>2a, <2>1
<1>4. Granules(l) = {g \in 0 .. MaxGranules : b <= g /\ g <= e}
  <2>1. Granules(l) = {g \in 0 .. MaxGranules : l.base \div Granule <= g /\ g <= ((l.base + l.size) - 1) \div Granule}
    BY DEF Granules, GranulesOf
  <2> QED
    BY <1>2, <1>2a, <2>1
<1>5. CoveredOf(l) \subseteq Granules(l)
  BY <1>1, <1>2, <1>3, <1>4
<1> QED
  BY <1>2, <1>3, <1>4, <1>5

\* What the slots hold while the libraries of L are there, but for W: a slot of
\* one library is its value or unchecked, a slot of two is unchecked.
SlotsHold(s, L, W) ==
    \A l \in L : \A g \in CoveredOf(l) \ W :
       /\ s[g] = Unchecked \/ (l.check # 0 /\ s[g] = SlotValue(Invalid, ValueAt(l, g), FirstOf(l)))
       /\ \A o \in L \ {l} : g \in CoveredOf(o) => s[g] = Unchecked

Slots == [0 .. MaxGranules -> Nat]

LEMMA SlotTypes ==
    ASSUME NEW l \in CfiLibraries, NEW g \in CoveredOf(l), NEW old \in Nat
    PROVE  /\ ValueAt(l, g) \in Nat
           /\ SlotValue(old, ValueAt(l, g), FirstOf(l)) \in Nat
           /\ old # Invalid => SlotValue(old, ValueAt(l, g), FirstOf(l)) = Unchecked
           /\ l.check # 0 => SlotValue(old, ValueAt(l, g), FirstOf(l)) # Invalid
<1>1. Granule \in Nat \ {0} /\ ShadowValues \in Nat \ {0}
  BY CfiAssumption
<1>2. PICK f \in Nat, q \in Nat : f = CoveredFrom(l) /\ q = f \div Granule
  BY LibraryPlace
<1>3. g \in Nat /\ q <= g
  BY <1>2, CoveredIs, LibraryPlace, CfiAssumption
<1>4. (g - q) * Granule \in Nat
  BY <1>1, <1>2, <1>3
<1>5. FirstOf(l) \in Nat
  <2>1. f + Granule - l.check + RegularMin \in Int
    BY <1>1, <1>2, LibraryPlace DEF RegularMin
  <2> QED
    BY <1>1, <1>2, <2>1 DEF FirstOf
<1>6. ValueAt(l, g) \in Nat
  <2>1. PICK z \in Nat : z = FirstOf(l) + (g - q) * Granule
    BY <1>4, <1>5
  <2>2. z % ShadowValues \in Nat
    BY <1>1
  <2> QED
    BY <1>2, <2>1, <2>2 DEF ValueAt
<1>7. PICK v \in Nat, w \in Nat : v = ValueAt(l, g) /\ w = FirstOf(l)
  BY <1>5, <1>6
<1>8. l.check # 0 => w >= 3
  BY <1>7, FirstIs
<1> QED
  BY <1>7, <1>8 DEF SlotValue, Unchecked, Invalid

LEMMA AddLibraryHolds ==
    ASSUME NEW s \in Slots, NEW L \in SUBSET CfiLibraries, NEW l \in CfiLibraries, l \notin L, NEW W,
           SlotsHold(s, L, W)
    PROVE  AddLibrary(s, l) \in Slots /\ SlotsHold(AddLibrary(s, l), L \cup {l}, W)
<1>1. PICK n : n = AddLibrary(s, l)
  OBVIOUS
<1>2. DOMAIN s = 0 .. MaxGranules
  BY DEF Slots
<1>3. CoveredOf(l) \subseteq 0 .. MaxGranules /\ CoveredOf(l) \subseteq Granules(l)
  BY CoveredIs
<1>4. /\ n \in Slots
      /\ \A g \in CoveredOf(l) :
            /\ n[g] = Unchecked \/ (l.check # 0 /\ n[g] = SlotValue(Invalid, ValueAt(l, g), FirstOf(l)))
            /\ s[g] # Invalid => n[g] = Unchecked
      /\ \A g \in 0 .. MaxGranules : n[g] = s[g] \/ n[g] = Unchecked \/ g \in CoveredOf(l)
  <2>1. CASE l.check = 0
    <3>1. l.base < l.base + l.size
      BY LibraryPlace
    <3>2. n = [g \in 0 .. MaxGranules |-> IF g \in Granules(l) THEN Unchecked ELSE s[g]]
      BY <1>1, <1>2, <2>1, <3>1 DEF AddLibrary, AddConstant, Granules
    <3>3. n \in Slots
      BY <3>2 DEF Slots, Unchecked
    <3> QED
      BY <1>3, <3>2, <3>3
  <2>2. CASE l.check # 0
    <3>1. CoveredFrom(l) < l.base + l.size
      <4>1. PICK b \in Nat, z \in Nat, f \in Nat, t \in Nat :
              b = l.base /\ z = l.size /\ f = CoveredFrom(l) /\ t = TopOf(l) /\ f <= t /\ t <= b + z - 1
        BY LibraryPlace
      <4> QED
        BY <4>1
    <3>2. n = [g \in 0 .. MaxGranules |->
                 IF g \in CoveredOf(l) THEN SlotValue(s[g], ValueAt(l, g), FirstOf(l)) ELSE s[g]]
      BY <1>1, <1>2, <2>2, <3>1 DEF AddLibrary, Add, CoveredOf, ValueAt, FirstOf
    <3>3. \A g \in 0 .. MaxGranules : s[g] \in Nat
      BY DEF Slots
    <3>4. n \in Slots
      BY <1>3, <3>2, <3>3, SlotTypes DEF Slots
    <3>5. ASSUME NEW g \in CoveredOf(l)
          PROVE  /\ n[g] = Unchecked \/ (l.check # 0 /\ n[g] = SlotValue(Invalid, ValueAt(l, g), FirstOf(l)))
                 /\ s[g] # Invalid => n[g] = Unchecked
      <4>1. n[g] = SlotValue(s[g], ValueAt(l, g), FirstOf(l)) /\ s[g] \in Nat
        BY <1>3, <3>2, <3>3
      <4> QED
        BY <2>2, <4>1, SlotTypes
    <3> QED
      BY <3>2, <3>4, <3>5
  <2> QED
    BY <2>1, <2>2
<1>5. ASSUME NEW o \in L, NEW g \in CoveredOf(o) \ W
      PROVE  /\ g \in 0 .. MaxGranules /\ s[g] # Invalid
             /\ s[g] = Unchecked => n[g] = Unchecked
             /\ g \in CoveredOf(l) => n[g] = Unchecked
             /\ g \notin CoveredOf(l) => n[g] = s[g] \/ n[g] = Unchecked
  <2>1. g \in 0 .. MaxGranules /\ o \in CfiLibraries
    BY CoveredIs
  <2>2. s[g] # Invalid
    <3>1. Invalid \in Nat /\ Unchecked # Invalid
      BY DEF Invalid, Unchecked
    <3> QED
      BY <2>1, <3>1, SlotTypes DEF SlotsHold
  <2>3. Unchecked # Invalid
    BY DEF Invalid, Unchecked
  <2> QED
    BY <1>4, <2>1, <2>2, <2>3
<1>6. ASSUME NEW o \in L \cup {l}, NEW g \in CoveredOf(o) \ W
      PROVE  n[g] = Unchecked \/ (o.check # 0 /\ n[g] = SlotValue(Invalid, ValueAt(o, g), FirstOf(o)))
  <2>1. CASE o = l
    BY <1>4, <2>1
  <2>2. CASE o \in L
    <3>1. s[g] = Unchecked \/ (o.check # 0 /\ s[g] = SlotValue(Invalid, ValueAt(o, g), FirstOf(o)))
      BY <2>2 DEF SlotsHold
    <3> QED
      BY <1>5, <2>2, <3>1
  <2> QED
    BY <2>1, <2>2
<1>7. ASSUME NEW o \in L \cup {l}, NEW g \in CoveredOf(o) \ W, NEW p \in (L \cup {l}) \ {o}, g \in CoveredOf(p)
      PROVE  n[g] = Unchecked
  <2>1. CASE o = l
    <3>1. p \in L /\ g \in CoveredOf(p) \ W
      BY <1>7, <2>1
    <3> QED
      BY <1>5, <2>1, <3>1
  <2>2. CASE p = l
    <3>1. o \in L
      BY <2>2
    <3> QED
      BY <1>5, <1>7, <2>2, <3>1
  <2>3. CASE o \in L /\ p \in L
    <3>1. s[g] = Unchecked
      BY <1>7, <2>3 DEF SlotsHold
    <3> QED
      BY <1>5, <2>3, <3>1
  <2> QED
    BY <2>1, <2>2, <2>3
<1> QED
  BY <1>1, <1>4, <1>6, <1>7 DEF SlotsHold

LEMMA AddLibraryType ==
    ASSUME NEW s \in Slots, NEW l \in CfiLibraries
    PROVE  AddLibrary(s, l) \in Slots
<1>1. SlotsHold(s, {}, {})
  BY DEF SlotsHold
<1>2. {} \in SUBSET CfiLibraries /\ l \notin {}
  OBVIOUS
<1> QED
  BY <1>1, <1>2, AddLibraryHolds

FirstLibraries(ls, k) == {ls[i] : i \in 1 .. k}

LEMMA AddAllHolds ==
    ASSUME NEW ls \in Seq(CfiLibraries), \A i, j \in 1 .. Len(ls) : i # j => ls[i] # ls[j], NEW W
    PROVE  AddAll(Empty, ls) \in Slots /\ SlotsHold(AddAll(Empty, ls), FirstLibraries(ls, Len(ls)), W)
<1>1. PICK n \in Nat : n = Len(ls)
  OBVIOUS
<1>2. \A i \in 1 .. n : ls[i] \in CfiLibraries
  BY <1>1
<1>3. Empty \in Slots
  BY DEF Empty, Slots, Invalid
<1>4. PICK step : step = [i \in 1 .. n |-> [x \in Slots |-> AddLibrary(x, ls[i])]]
  OBVIOUS
<1>5. \A i \in 1 .. n : \A x \in Slots : step[i][x] \in Slots
  BY <1>2, <1>4, AddLibraryType
<1>6. PICK g \in [0 .. n -> Slots] : g[0] = Empty /\ \A i \in 1 .. n : g[i] = step[i][g[i - 1]]
  <2>1. StepsIn(Slots, n, step)
    BY <1>5 DEF StepsIn
  <2>2. \E g : Steps(g, Slots, n, Empty, step)
    BY <1>1, <1>3, <2>1, StepsExist
  <2> QED
    BY <2>2 DEF Steps
<1>7. \A i \in 1 .. n : i - 1 \in 0 .. n /\ i \in 0 .. n /\ g[i] = AddLibrary(g[i - 1], ls[i])
  <2> TAKE i \in 1 .. n
  <2>1. i - 1 \in 0 .. n /\ i \in 0 .. n
    BY <1>1
  <2>2. g[i - 1] \in Slots
    BY <1>6, <2>1
  <2> QED
    BY <1>4, <1>6, <2>1, <2>2
<1> DEFINE P(f) == f = [i \in 0 .. n |-> IF i = 0 THEN Empty ELSE AddLibrary(f[i - 1], ls[i])]
           c == CHOOSE f : P(f)
<1>8. AddAll(Empty, ls) = c[n]
  BY <1>1 DEF AddAll
<1>9. P(g)
  <2>1. \A i \in 0 .. n : i # 0 => i \in 1 .. n
    BY <1>1
  <2>2. \A i \in 0 .. n : g[i] = IF i = 0 THEN Empty ELSE AddLibrary(g[i - 1], ls[i])
    BY <1>6, <1>7, <2>1
  <2>3. g = [i \in 0 .. n |-> g[i]]
    BY <1>6
  <2> QED
    BY <2>2, <2>3
<1>10. P(c)
  BY <1>9
<1> HIDE DEF c
<1>11. c[0] = Empty /\ \A i \in 1 .. n : c[i] = AddLibrary(c[i - 1], ls[i])
  <2>1. 0 \in 0 .. n /\ \A i \in 1 .. n : i # 0 /\ i \in 0 .. n
    BY <1>1
  <2> QED
    BY <1>10, <2>1
<1> HIDE DEF P
<1> DEFINE Bad == {k \in 0 .. n : ~(c[k] \in Slots /\ SlotsHold(c[k], FirstLibraries(ls, k), W))}
<1>12. Bad = {}
  <2> SUFFICES ASSUME Bad # {} PROVE FALSE
    OBVIOUS
  <2>1. Bad \in SUBSET Nat
    BY <1>1
  <2>2. PICK k \in Bad : \A m \in Bad : k <= m
    <3> HIDE DEF Bad
    <3> QED BY <2>1, LeastNat
  <2>3. k \in 0 .. n /\ ~(c[k] \in Slots /\ SlotsHold(c[k], FirstLibraries(ls, k), W))
    OBVIOUS
  <2>4. k # 0
    <3>1. FirstLibraries(ls, 0) = {}
      BY DEF FirstLibraries
    <3>2. SlotsHold(Empty, {}, W)
      BY DEF SlotsHold
    <3> QED
      BY <1>3, <1>11, <2>3, <3>1, <3>2
  <2>5. k \in 1 .. n /\ k - 1 \in 0 .. n /\ ~(k <= k - 1)
    BY <1>1, <2>3, <2>4
  <2>6. c[k - 1] \in Slots /\ SlotsHold(c[k - 1], FirstLibraries(ls, k - 1), W)
    BY <2>2, <2>5
  <2>7. PICK L, l : L = FirstLibraries(ls, k - 1) /\ l = ls[k]
    OBVIOUS
  <2>8. L \in SUBSET CfiLibraries /\ l \in CfiLibraries /\ l \notin L
    <3>1. \A i \in 1 .. k - 1 : i \in 1 .. n /\ i # k
      BY <1>1, <2>5
    <3>2. \A i \in 1 .. k - 1 : ls[i] \in CfiLibraries /\ ls[i] # ls[k]
      BY <1>1, <1>2, <2>5, <3>1
    <3> QED
      BY <1>2, <2>5, <2>7, <3>2 DEF FirstLibraries
  <2>9. L \cup {l} = FirstLibraries(ls, k)
    <3>1. \A i \in 1 .. k : i \in 1 .. k - 1 \/ i = k
      BY <2>5
    <3>2. k \in 1 .. k /\ \A i \in 1 .. k - 1 : i \in 1 .. k
      BY <2>5
    <3> QED
      BY <2>7, <3>1, <3>2 DEF FirstLibraries
  <2>10. PICK s \in Slots : s = c[k - 1]
    BY <2>6
  <2>11. AddLibrary(s, l) \in Slots /\ SlotsHold(AddLibrary(s, l), L \cup {l}, W)
    BY <2>6, <2>7, <2>8, <2>10, AddLibraryHolds
  <2> QED
    BY <1>11, <2>3, <2>5, <2>7, <2>9, <2>10, <2>11
<1>13. n \in 0 .. n
  BY <1>1
<1> QED
  BY <1>1, <1>8, <1>12, <1>13

-----------------------------------------------------------------------------
(* The inductive invariant.                                                  *)

CfiTypes ==
    /\ shadow = <<>> \/ shadow \in Slots
    /\ inSolist \in Seq(CfiLibraries) /\ linkDone \in BOOLEAN
    /\ wiped \in SUBSET (0 .. MaxGranules)

\* Libraries do not overlap, so none is there twice.
LibrariesApart ==
    \A i, j \in 1 .. Len(inSolist) : i # j =>
       \/ inSolist[i].base >= inSolist[j].base + inSolist[j].size
       \/ inSolist[j].base >= inSolist[i].base + inSolist[i].size

CfiInv ==
    /\ CfiTypes /\ LibrariesApart
    /\ HasShadow => linkDone
    /\ HasShadow => SlotsHold(shadow, Libs, wiped)

LEMMA LibrariesDiffer ==
    ASSUME CfiTypes, LibrariesApart, NEW i \in 1 .. Len(inSolist), NEW j \in 1 .. Len(inSolist), i # j
    PROVE  inSolist[i] # inSolist[j]
<1> SUFFICES ASSUME inSolist[i] = inSolist[j] PROVE FALSE
  OBVIOUS
<1>1. PICK l \in CfiLibraries : l = inSolist[i] /\ l = inSolist[j]
  BY DEF CfiTypes
<1>2. l.base >= l.base + l.size
  BY <1>1 DEF LibrariesApart
<1>3. PICK b \in Nat, z \in Nat \ {0} : b = l.base /\ z = l.size
  BY LibraryPlace
<1> QED
  BY <1>2, <1>3

LEMMA LibsAre ==
    ASSUME CfiTypes
    PROVE  Libs = FirstLibraries(inSolist, Len(inSolist)) /\ Libs \in SUBSET CfiLibraries
BY DEF CfiTypes, Libs, FirstLibraries

LEMMA MaybeInitHolds ==
    ASSUME NEW ls \in Seq(CfiLibraries), \A i, j \in 1 .. Len(ls) : i # j => ls[i] # ls[j],
           NEW wanted, NEW W, MaybeInit(wanted, ls), shadow = <<>>
    PROVE  shadow' = <<>> \/ (shadow' \in Slots /\ SlotsHold(shadow', FirstLibraries(ls, Len(ls)), W))
BY AddAllHolds DEF MaybeInit

LEMMA CfiInitInv == CfiInit => CfiInv
<1> SUFFICES ASSUME CfiInit PROVE CfiInv
  OBVIOUS
<1>1. inSolist \in Seq(CfiLibraries) /\ Len(inSolist) = 0
  BY EmptySeq DEF CfiInit
<1> QED
  <2>1. LibrariesApart
    BY <1>1 DEF LibrariesApart
  <2>2. CfiTypes /\ ~HasShadow
    BY <1>1 DEF CfiInit, CfiTypes, HasShadow
  <2> QED
    BY <2>1, <2>2 DEF CfiInv

LEMMA AfterLoadKeeps == CfiInv /\ AfterLoad => CfiInv'
<1> SUFFICES ASSUME CfiInv, AfterLoad PROVE CfiInv'
  OBVIOUS
<1>1. CfiTypes /\ LibrariesApart /\ (HasShadow => SlotsHold(shadow, Libs, wiped)) /\ (HasShadow => linkDone)
  BY DEF CfiInv
<1>2. PICK l \in CfiLibraries :
       /\ \A o \in Libs : l.base >= o.base + o.size \/ o.base >= l.base + l.size
       /\ inSolist' = Append(inSolist, l)
       /\ \/ ~linkDone /\ UNCHANGED shadow
          \/ linkDone /\ ~HasShadow /\ MaybeInit(l.check # 0, inSolist')
          \/ HasShadow /\ shadow' = AddLibrary(shadow, l)
       /\ UNCHANGED <<linkDone, wiped>>
  BY DEF AfterLoad
<1>3. PICK n \in Nat : n = Len(inSolist)
  BY <1>1 DEF CfiTypes
<1>4. PICK ls \in Seq(CfiLibraries) : ls = inSolist'
  BY <1>1, <1>2, AppendProperties DEF CfiTypes
<1>5. Len(ls) = n + 1 /\ ls[n + 1] = l /\ \A i \in 1 .. n : ls[i] = inSolist[i] /\ inSolist[i] \in Libs
  BY <1>1, <1>2, <1>3, <1>4, AppendProperties DEF CfiTypes, Libs
<1>6. LibrariesApart'
  <2>1. \A i \in 1 .. n + 1 : i \in 1 .. n \/ i = n + 1
    BY <1>3
  <2>2. \A i \in 1 .. n : \/ l.base >= ls[i].base + ls[i].size
                          \/ ls[i].base >= l.base + l.size
    BY <1>2, <1>5
  <2>3. \A i, j \in 1 .. n : i # j =>
           \/ ls[i].base >= ls[j].base + ls[j].size
           \/ ls[j].base >= ls[i].base + ls[i].size
    BY <1>1, <1>3, <1>5 DEF LibrariesApart
  <2>4. \A i, j \in 1 .. n + 1 : i # j =>
           \/ ls[i].base >= ls[j].base + ls[j].size
           \/ ls[j].base >= ls[i].base + ls[i].size
    BY <1>5, <2>1, <2>2, <2>3
  <2> QED
    BY <1>4, <1>5, <2>4 DEF LibrariesApart
<1>7. Libs' = Libs \cup {l} /\ Libs' = FirstLibraries(ls, Len(ls))
  <2>1. \A i \in 1 .. n + 1 : i \in 1 .. n \/ i = n + 1
    BY <1>3
  <2>2. n + 1 \in 1 .. n + 1 /\ \A i \in 1 .. n : i \in 1 .. n + 1
    BY <1>3
  <2>3. Libs' = {ls[i] : i \in 1 .. n + 1}
    BY <1>4, <1>5 DEF Libs
  <2>4. Libs = {inSolist[i] : i \in 1 .. n}
    BY <1>3 DEF Libs
  <2> QED
    BY <1>5, <2>1, <2>2, <2>3, <2>4 DEF FirstLibraries
<1>8. /\ shadow' = <<>> \/ (shadow' \in Slots /\ SlotsHold(shadow', Libs', wiped))
      /\ shadow' # <<>> => linkDone
  <2>1. CASE ~linkDone /\ UNCHANGED shadow /\ ~HasShadow
    BY <1>1, <2>1 DEF CfiTypes, HasShadow
  <2>2. CASE linkDone /\ ~HasShadow /\ MaybeInit(l.check # 0, inSolist')
    <3>1. \A i, j \in 1 .. Len(ls) : i # j => ls[i] # ls[j]
      <4>1. \A i, j \in 1 .. Len(ls) : i # j =>
              \/ ls[i].base >= ls[j].base + ls[j].size
              \/ ls[j].base >= ls[i].base + ls[i].size
        BY <1>4, <1>6 DEF LibrariesApart
      <4>2. ASSUME NEW i \in 1 .. Len(ls), NEW j \in 1 .. Len(ls), i # j, ls[i] = ls[j] PROVE FALSE
        <5>1. PICK k \in CfiLibraries : k = ls[i] /\ k = ls[j]
          BY <4>2
        <5>2. k.base >= k.base + k.size
          BY <4>1, <4>2, <5>1
        <5>3. PICK b \in Nat, z \in Nat \ {0} : b = k.base /\ z = k.size
          BY LibraryPlace
        <5> QED
          BY <5>2, <5>3
      <4> QED
        BY <4>2
    <3>2. shadow = <<>> /\ MaybeInit(l.check # 0, ls)
      BY <1>1, <1>4, <2>2 DEF CfiTypes, HasShadow
    <3> QED
      BY <1>7, <2>2, <3>1, <3>2, MaybeInitHolds
  <2>3. CASE HasShadow /\ shadow' = AddLibrary(shadow, l)
    <3>1. shadow \in Slots /\ SlotsHold(shadow, Libs, wiped)
      BY <1>1, <2>3 DEF CfiTypes, HasShadow
    <3>2. l \notin Libs
      <4>1. PICK b \in Nat, z \in Nat \ {0} : b = l.base /\ z = l.size
        BY LibraryPlace
      <4> QED
        BY <1>2, <4>1
    <3>3. Libs \in SUBSET CfiLibraries
      BY <1>1, LibsAre
    <3> QED
      BY <1>1, <1>7, <2>3, <3>1, <3>2, <3>3, AddLibraryHolds
  <2>4. CASE ~linkDone /\ UNCHANGED shadow /\ HasShadow
    BY <1>1, <2>4
  <2> QED
    BY <1>2, <2>1, <2>2, <2>3, <2>4
<1>9. CfiTypes'
  BY <1>1, <1>2, <1>4, <1>8 DEF CfiTypes
<1> QED
  BY <1>2, <1>6, <1>8, <1>9 DEF CfiInv, HasShadow

LEMMA BeforeUnloadKeeps == CfiInv /\ BeforeUnload => CfiInv'
<1> SUFFICES ASSUME CfiInv, BeforeUnload PROVE CfiInv'
  OBVIOUS
<1>1. CfiTypes /\ LibrariesApart /\ (HasShadow => SlotsHold(shadow, Libs, wiped)) /\ (HasShadow => linkDone)
  BY DEF CfiInv
<1>2. PICK l \in Libs :
       /\ shadow' = IF HasShadow THEN AddConstant(shadow, l.base, l.base + l.size, Invalid) ELSE shadow
       /\ inSolist' = Dropped(inSolist, l)
       /\ wiped' = (wiped \cup Granules(l)) \cap UNION {Granules(o) : o \in Libs \ {l}}
       /\ UNCHANGED linkDone
  BY DEF BeforeUnload
<1>3. PICK n \in Nat : n = Len(inSolist)
  BY <1>1 DEF CfiTypes
<1>4. PICK k \in 1 .. n : inSolist[k] = l
  BY <1>3 DEF Libs
<1>5. l \in CfiLibraries
  BY <1>1, LibsAre
<1>6. PICK ls : ls = inSolist'
  OBVIOUS
<1>7. /\ ls \in Seq(CfiLibraries) /\ Len(ls) = n - 1
      /\ \A i \in 1 .. n - 1 : ls[i] = IF i < k THEN inSolist[i] ELSE inSolist[i + 1]
  <2>1. \A j \in 1 .. Len(inSolist) : inSolist[j] = inSolist[k] => j = k
    BY <1>1, <1>3, LibrariesDiffer
  <2>2. inSolist \in Seq(CfiLibraries) /\ k \in 1 .. Len(inSolist)
    BY <1>1, <1>3 DEF CfiTypes
  <2> QED
    BY <1>2, <1>3, <1>4, <1>6, <2>1, <2>2, DroppedIs
<1>8. \A i \in 1 .. n - 1 : \E p \in 1 .. n :
         /\ p = (IF i < k THEN i ELSE i + 1) /\ p # k /\ ls[i] = inSolist[p]
  <2> TAKE i \in 1 .. n - 1
  <2>1. PICK p \in 1 .. n : p = IF i < k THEN i ELSE i + 1
    BY <1>3, <1>4
  <2>2. p # k /\ ls[i] = inSolist[p]
    BY <1>3, <1>4, <1>7, <2>1
  <2> QED
    BY <2>1, <2>2
<1>9. LibrariesApart'
  <2>1. ASSUME NEW i \in 1 .. n - 1, NEW j \in 1 .. n - 1, i # j
        PROVE  \/ ls[i].base >= ls[j].base + ls[j].size
               \/ ls[j].base >= ls[i].base + ls[i].size
    <3>1. PICK p \in 1 .. n : p = (IF i < k THEN i ELSE i + 1) /\ p # k /\ ls[i] = inSolist[p]
      BY <1>8
    <3>2. PICK q \in 1 .. n : q = (IF j < k THEN j ELSE j + 1) /\ q # k /\ ls[j] = inSolist[q]
      BY <1>8
    <3>3. p # q
      BY <1>3, <1>4, <2>1, <3>1, <3>2
    <3> QED
      BY <1>1, <1>3, <3>1, <3>2, <3>3 DEF LibrariesApart
  <2> QED
    BY <1>6, <1>7, <2>1 DEF LibrariesApart
<1>10. Libs' \subseteq Libs \ {l}
  <2>1. ASSUME NEW o \in Libs' PROVE o \in Libs \ {l}
    <3>1. PICK i \in 1 .. n - 1 : o = ls[i]
      BY <1>6, <1>7 DEF Libs
    <3>2. PICK p \in 1 .. n : p # k /\ o = inSolist[p]
      BY <1>8, <3>1
    <3>3. o # l
      BY <1>1, <1>3, <1>4, <3>2, LibrariesDiffer
    <3> QED
      BY <1>3, <3>2, <3>3 DEF Libs
  <2> QED
    BY <2>1
<1>11. HasShadow => /\ shadow \in Slots /\ shadow' \in Slots
                    /\ \A g \in 0 .. MaxGranules : g \notin Granules(l) => shadow'[g] = shadow[g]
  <2> SUFFICES ASSUME HasShadow
               PROVE  /\ shadow \in Slots /\ shadow' \in Slots
                      /\ \A g \in 0 .. MaxGranules : g \notin Granules(l) => shadow'[g] = shadow[g]
    OBVIOUS
  <2>1. shadow \in Slots
    BY <1>1 DEF CfiTypes, HasShadow
  <2>2. shadow' = [g \in 0 .. MaxGranules |->
                     IF l.base < l.base + l.size /\ g \in Granules(l) THEN Invalid ELSE shadow[g]]
    BY <1>2, <2>1 DEF AddConstant, Granules, Slots
  <2> QED
    BY <2>1, <2>2 DEF Slots, Invalid
<1>12. wiped' \in SUBSET (0 .. MaxGranules)
  BY <1>1, <1>2, <1>5, CoveredIs DEF CfiTypes
<1>13. CfiTypes'
  BY <1>1, <1>2, <1>6, <1>7, <1>11, <1>12 DEF CfiTypes
<1>14. ASSUME HasShadow PROVE SlotsHold(shadow, Libs, wiped)'
  <2>1. SlotsHold(shadow, Libs, wiped)
    BY <1>1, <1>14
  <2>2. ASSUME NEW o \in Libs', NEW g \in CoveredOf(o) \ wiped'
        PROVE  /\ o \in Libs /\ g \in CoveredOf(o) \ wiped /\ shadow'[g] = shadow[g]
    <3>1. o \in Libs \ {l} /\ o \in CfiLibraries
      BY <1>1, <1>10, LibsAre
    <3>2. g \in Granules(o) /\ g \in 0 .. MaxGranules
      BY <3>1, CoveredIs
    <3>3. g \notin wiped /\ g \notin Granules(l)
      BY <1>2, <3>1, <3>2
    <3> QED
      BY <1>11, <1>14, <3>1, <3>2, <3>3
  <2>3. ASSUME NEW o \in Libs', NEW g \in CoveredOf(o) \ wiped'
        PROVE  /\ \/ shadow'[g] = Unchecked
                  \/ o.check # 0 /\ shadow'[g] = SlotValue(Invalid, ValueAt(o, g), FirstOf(o))
               /\ \A p \in Libs' \ {o} : g \in CoveredOf(p) => shadow'[g] = Unchecked
    BY <1>10, <2>1, <2>2, <2>3 DEF SlotsHold
  <2> QED
    BY <2>3 DEF SlotsHold, CoveredOf, CoveredFrom, GranulesOf, ValueAt, FirstOf
<1>15. HasShadow' => HasShadow
  BY <1>2 DEF HasShadow
<1> QED
  BY <1>1, <1>2, <1>9, <1>13, <1>14, <1>15 DEF CfiInv

LEMMA InitialLinkDoneKeeps == CfiInv /\ InitialLinkDone => CfiInv'
<1> SUFFICES ASSUME CfiInv, InitialLinkDone PROVE CfiInv'
  OBVIOUS
<1>1. CfiTypes /\ LibrariesApart /\ ~HasShadow /\ shadow = <<>>
  BY DEF CfiInv, InitialLinkDone, HasShadow
<1>2. linkDone' = TRUE /\ UNCHANGED <<inSolist, wiped>> /\ MaybeInit(\E l \in Libs : l.check # 0, inSolist)
  BY DEF InitialLinkDone
<1>3. PICK wanted : wanted = (\E l \in Libs : l.check # 0)
  OBVIOUS
<1>4. MaybeInit(wanted, inSolist)
  BY <1>2, <1>3 DEF MaybeInit
<1>5. inSolist \in Seq(CfiLibraries)
  BY <1>1 DEF CfiTypes
<1>6. \A i, j \in 1 .. Len(inSolist) : i # j => inSolist[i] # inSolist[j]
  BY <1>1, LibrariesDiffer
<1>7. shadow' = <<>> \/ (shadow' \in Slots /\ SlotsHold(shadow', FirstLibraries(inSolist, Len(inSolist)), wiped))
  BY <1>1, <1>4, <1>5, <1>6, MaybeInitHolds
<1>8. Libs' = FirstLibraries(inSolist, Len(inSolist))
  BY <1>1, <1>2, LibsAre DEF Libs
<1>9. CfiTypes' /\ LibrariesApart'
  BY <1>1, <1>2, <1>7 DEF CfiTypes, LibrariesApart
<1> QED
  BY <1>2, <1>7, <1>8, <1>9 DEF CfiInv, HasShadow

LEMMA CfiInvariant == CfiSpec => []CfiInv
<1>1. ASSUME CfiInv, [CfiNext]_cfiVars PROVE CfiInv'
  <2>1. CASE UNCHANGED cfiVars
    <3>1. UNCHANGED <<shadow, inSolist, linkDone, wiped>>
      BY <2>1 DEF cfiVars
    <3>2. CfiTypes' /\ LibrariesApart' /\ HasShadow' = HasShadow /\ Libs' = Libs
      BY <1>1, <3>1 DEF CfiInv, CfiTypes, LibrariesApart, HasShadow, Libs
    <3> QED
      BY <1>1, <3>1, <3>2 DEF CfiInv
  <2>2. CASE CfiNext
    BY <1>1, <2>2, AfterLoadKeeps, BeforeUnloadKeeps, InitialLinkDoneKeeps DEF CfiNext
  <2> QED
    BY <1>1, <2>1, <2>2
<1> QED
  BY CfiInitInv, <1>1, PTL DEF CfiSpec

\* A slot that holds the value of l leads from any of its addresses to its check.
LEMMA ValueLeadsToCheck ==
    ASSUME NEW l \in CfiLibraries, l.check # 0, l.size + Granule <= ShadowValues,
           NEW a \in CoveredFrom(l) .. l.base + l.size - 1, NEW g, g = a \div Granule,
           shadow[g] = SlotValue(Invalid, ValueAt(l, g), FirstOf(l)), shadow[g] >= RegularMin
    PROVE  CheckFrom(a) = l.check
<1>1. Granule \in Nat \ {0} /\ ShadowValues \in Nat \ {0} /\ ShadowValues > Granule + 2
  BY CfiAssumption
<1>2. PICK b \in Nat, z \in Nat \ {0}, c \in Nat, f \in Nat, q \in Nat, e \in Nat :
        /\ b = l.base /\ z = l.size /\ c = l.check /\ f = CoveredFrom(l) /\ q = f \div Granule
        /\ e = b + z - 1
        /\ b <= c /\ c <= b + z - 1 /\ f <= c /\ c < f + Granule /\ f = Granule * q
  BY LibraryPlace DEF TopOf
<1>3. a \in Nat /\ f <= a /\ a <= b + z - 1
  BY <1>2
<1>4. PICK x \in Nat, y \in 0 .. Granule - 1 : x = a \div Granule /\ y = a % Granule /\ a = Granule * x + y
  <2>1. /\ a \div Granule \in Nat /\ a % Granule \in 0 .. Granule - 1
        /\ a = Granule * (a \div Granule) + (a % Granule)
    BY <1>1, <1>3, Divides
  <2> QED
    BY <2>1
<1>5. g = x /\ q <= x
  <2>1. q <= x
    BY <1>2, <1>3, <1>4, GranulesRise
  <2> QED
    BY <1>4, <2>1
<1>6. PICK k \in Nat : k = Granule * x
  BY <1>1
<1>7. (g - q) * Granule = k - f
  <2>1. (x - q) * Granule = Granule * x - Granule * q
    BY <1>1
  <2> QED
    BY <1>2, <1>5, <1>6, <2>1
<1>8. PICK first \in Nat : first = FirstOf(l) /\ first = f + Granule - c + 2 /\ first >= 3 /\ first <= Granule + 2
  <2>1. FirstOf(l) = CoveredFrom(l) + Granule - l.check + RegularMin /\ FirstOf(l) \in 3 .. Granule + 2
    BY FirstIs
  <2>2. FirstOf(l) = f + Granule - c + 2
    BY <1>2, <2>1 DEF RegularMin
  <2>3. FirstOf(l) \in Nat /\ FirstOf(l) >= 3 /\ FirstOf(l) <= Granule + 2
    BY <1>1, <2>1
  <2> QED
    BY <2>2, <2>3
<1>9. PICK w \in Nat : w = first + (k - f)
  <2>1. f <= k
    <3>1. PICK j \in Nat : x = q + j
      BY <1>5
    <3>2. Granule * x = Granule * q + Granule * j /\ Granule * j \in Nat
      BY <1>1, <3>1
    <3> QED
      BY <1>2, <1>6, <3>2
  <2> QED
    BY <1>8, <2>1
<1>10. ValueAt(l, g) = w % ShadowValues
  BY <1>2, <1>7, <1>8, <1>9 DEF ValueAt
<1>11. k - f < ShadowValues
  BY <1>1, <1>2, <1>3, <1>4, <1>6
<1>12. CASE w < ShadowValues
  <2>1. w % ShadowValues = w
    <3>1. w = ShadowValues * 0 + w /\ w \in 0 .. ShadowValues - 1
      BY <1>1, <1>12
    <3> QED
      BY <1>1, <3>1, RemainderIs
  <2>2. shadow[g] = w
    <3>1. ~(w < first)
      BY <1>9, <1>8, <1>1, <1>2, <1>6, <1>5, <1>4
    <3> QED
      BY <1>8, <1>10, <2>1, <3>1 DEF SlotValue
  <2>3. CheckFrom(a) = a - y + Granule - (w - 2)
    BY <1>4, <1>5, <2>2 DEF CheckFrom, RegularMin
  <2>4. a - y + Granule - (w - 2) = c
    <3>1. a - y = k
      BY <1>1, <1>3, <1>4, <1>6
    <3>2. w = f + Granule - c + 2 + (k - f)
      BY <1>8, <1>9
    <3> QED
      BY <1>1, <1>2, <1>3, <1>4, <1>6, <3>1, <3>2
  <2> QED
    BY <1>2, <2>3, <2>4
<1>13. CASE w >= ShadowValues
  <2>1. w % ShadowValues = w - ShadowValues
    <3>1. ShadowValues \in Nat \ {0} /\ w \in Nat /\ ShadowValues <= w
      BY <1>1, <1>9, <1>13
    <3>2. w < ShadowValues + ShadowValues
      BY <1>1, <1>2, <1>6, <1>8, <1>9, <1>11
    <3> QED
      BY <3>1, <3>2, WrapsOnce
  <2>2. w - ShadowValues < first
    BY <1>1, <1>8, <1>9, <1>11
  <2>3. shadow[g] = Unchecked
    BY <1>8, <1>10, <2>1, <2>2 DEF SlotValue
  <2> QED
    BY <2>3 DEF Unchecked, RegularMin
<1> QED
  BY <1>1, <1>9, <1>12, <1>13

LEMMA ChecksReach == CfiInv => ChecksReachTheirLibrary
<1> SUFFICES ASSUME CfiInv, HasShadow, NEW l \in Libs
             PROVE  /\ \A a \in CoveredFrom(l) .. l.base + l.size - 1 :
                          shadow[a \div Granule] >= RegularMin /\ a \div Granule \notin wiped
                          /\ l.size + Granule <= ShadowValues /\ l.check # 0
                             => CheckFrom(a) = l.check
                    /\ \A g \in CoveredOf(l) \ wiped : shadow[g] # Invalid
                    /\ \A o \in Libs \ {l}, g \in CoveredOf(l) \ wiped :
                          g \in CoveredOf(o) => shadow[g] \in {Invalid, Unchecked}
  BY DEF ChecksReachTheirLibrary
<1>1. CfiTypes /\ SlotsHold(shadow, Libs, wiped)
  BY DEF CfiInv
<1>2. l \in CfiLibraries
  BY <1>1, LibsAre
<1>3. ASSUME NEW a \in CoveredFrom(l) .. l.base + l.size - 1,
             shadow[a \div Granule] >= RegularMin, a \div Granule \notin wiped,
             l.size + Granule <= ShadowValues, l.check # 0
      PROVE  CheckFrom(a) = l.check
  <2>1. PICK f \in Nat, e \in Nat : f = CoveredFrom(l) /\ e = l.base + l.size - 1
    BY <1>2, LibraryPlace
  <2>2. a \in Nat /\ f <= a /\ a <= e
    BY <2>1
  <2>3. PICK g : g = a \div Granule
    OBVIOUS
  <2>4. g \in Nat /\ f \div Granule <= g /\ g <= e \div Granule
    BY <2>1, <2>2, <2>3, GranulesRise, CfiAssumption
  <2>5. e \div Granule \in 0 .. MaxGranules /\ f \div Granule = TopOf(l) \div Granule
    BY <1>2, <2>1, LibraryPlace
  <2>6. g \in CoveredOf(l)
    BY <1>2, <2>1, <2>4, <2>5, CoveredIs, CfiAssumption
  <2>7. shadow[g] = Unchecked \/ shadow[g] = SlotValue(Invalid, ValueAt(l, g), FirstOf(l))
    BY <1>1, <1>3, <2>3, <2>6 DEF SlotsHold
  <2>8. shadow[g] # Unchecked
    BY <1>3, <2>3 DEF Unchecked, RegularMin
  <2> QED
    BY <1>2, <1>3, <2>3, <2>7, <2>8, ValueLeadsToCheck
<1>4. ASSUME NEW g \in CoveredOf(l) \ wiped PROVE shadow[g] # Invalid
  <2>1. Invalid \in Nat /\ Unchecked # Invalid
    BY DEF Invalid, Unchecked
  <2> QED
    BY <1>1, <1>2, <2>1, SlotTypes DEF SlotsHold
<1>5. ASSUME NEW o \in Libs \ {l}, NEW g \in CoveredOf(l) \ wiped, g \in CoveredOf(o)
      PROVE  shadow[g] \in {Invalid, Unchecked}
  BY <1>1, <1>5 DEF SlotsHold
<1> QED
  BY <1>3, <1>4, <1>5

-----------------------------------------------------------------------------
(* The reader of the configuration.                                          *)

LEMMA LineTypes ==
    ASSUME NEW l \in ConfigLines
    PROVE  /\ l.kind \in {"section", "assign", "append"}
           /\ l.kind # "section" => l.name \in Seq(STRING) /\ l.value \in Seq(STRING)
<1>1. \/ l \in [kind : {"section"}, name : STRING]
      \/ l \in [kind : {"assign", "append"}, name : Seq(STRING), value : Seq(STRING)]
  BY ConfigAssumption
<1> QED
  BY <1>1

\* What line k, below the header at h, makes of the value of n.
IsNew(n, h, k) == \A j \in h + 1 .. k - 1 : file[j].name # n
LineMakes(n, h, k, old) ==
    IF k <= h \/ Header(k) \/ file[k].name # n THEN old
    ELSE IF file[k].kind = "assign" \/ IsNew(n, h, k) THEN file[k].value
    ELSE IF KeyOf(n) \in Appendable THEN old \o file[k].value
    ELSE old
HistoryIs(v, n, h) ==
    /\ v \in [0 .. Len(file) -> Seq(STRING)] /\ v[0] = NoValue
    /\ \A k \in 1 .. Len(file) : v[k] = LineMakes(n, h, k, v[k - 1])

\* The lines below the header at h up to the one before c are all of the section.
Plain(h, c) == \A j \in h + 1 .. c - 1 : ~Header(j)
Opens(i, h) ==
    /\ Picks(i) /\ Header(h) /\ file[h].name = file[i].name[2]
    /\ \A j \in 1 .. h - 1 : ~(Header(j) /\ file[j].name = file[i].name[2])

\* The properties are those of the lines from h + 1 to c - 1.
PropertiesOf(h, c) ==
    /\ DOMAIN properties = {file[k].name : k \in h + 1 .. c - 1}
    /\ \A n \in DOMAIN properties : \E v : HistoryIs(v, n, h) /\ properties[n] = v[c - 1]

Unread == cursor = 1 /\ reading = "pick" /\ section = "" /\ properties = <<>>
ConfigTypes ==
    /\ file \in Seq(ConfigLines) /\ cursor \in Nat \ {0}
    /\ reading \in {"pick", "find", "collect", "link", "read", "failed"}
    /\ file = <<>> => Unread
    /\ reading \in {"pick", "find", "collect"} => cursor <= Len(file) + 1
    /\ reading \in {"pick", "find"} => properties = <<>>
    /\ reading \in {"pick", "find", "collect", "link"} => nsLinks = {}

PickInv == reading = "pick" => \A j \in 1 .. cursor - 1 : ~Header(j) /\ ~DirOver(j)
FindInv ==
    reading = "find" =>
       \E i \in 1 .. cursor - 1 :
          /\ Picks(i) /\ section = file[i].name[2]
          /\ \A j \in 1 .. cursor - 1 : ~(Header(j) /\ file[j].name = section)
CollectInv ==
    reading = "collect" =>
       \E i, h \in 1 .. cursor - 1 : Opens(i, h) /\ Plain(h, cursor) /\ PropertiesOf(h, cursor)
LinkInv ==
    reading \in {"link", "read"} =>
       /\ \E i, h \in 1 .. Len(file) : \E e \in h + 1 .. Len(file) + 1 :
             /\ Opens(i, h) /\ Plain(h, e) /\ PropertiesOf(h, e)
             /\ e = Len(file) + 1 \/ Header(e)
       /\ namespaces = <<DefaultNs>> \o ValueOf(properties, <<"additional", "namespaces">>)
       /\ \A l \in nsLinks : l[2] \in ToSet(namespaces) /\ l[3] # NoValue

ConfigInv == ConfigTypes /\ PickInv /\ FindInv /\ CollectInv /\ LinkInv

LEMMA HistoryExists ==
    ASSUME file \in Seq(ConfigLines), NEW n, NEW h \in Nat
    PROVE  \E v : HistoryIs(v, n, h)
<1>1. PICK N \in Nat : N = Len(file)
  OBVIOUS
<1>2. ASSUME NEW k \in 1 .. N, NEW x \in Seq(STRING) PROVE LineMakes(n, h, k, x) \in Seq(STRING)
  <2>1. CASE k <= h \/ Header(k) \/ file[k].name # n
    BY <2>1 DEF LineMakes
  <2>2. CASE ~(k <= h \/ Header(k) \/ file[k].name # n)
    <3>1. file[k] \in ConfigLines
      BY <1>1
    <3>2. file[k].kind # "section"
      BY <2>2 DEF Header
    <3>3. file[k].value \in Seq(STRING)
      BY <3>1, <3>2, LineTypes
    <3>4. PICK y \in Seq(STRING) : y = file[k].value
      BY <3>3
    <3>5. x \o y \in Seq(STRING)
      BY ConcatProperties
    <3> QED
      BY <2>2, <3>4, <3>5 DEF LineMakes
  <2> QED
    BY <2>1, <2>2
<1>3. PICK step : step = [k \in 1 .. N |-> [x \in Seq(STRING) |-> LineMakes(n, h, k, x)]]
  OBVIOUS
<1>4. PICK S : S = Seq(STRING)
  OBVIOUS
<1>5. \A k \in 1 .. N : \A x \in S : step[k][x] = LineMakes(n, h, k, x)
  BY <1>3, <1>4
<1>6. StepsIn(S, N, step)
  BY <1>2, <1>4, <1>5 DEF StepsIn
<1>7. PICK a \in S : a = NoValue
  <2>1. <<>> \in Seq(STRING)
    OBVIOUS
  <2> QED
    BY <1>4, <2>1 DEF NoValue
<1>8. \E g : Steps(g, S, N, a, step)
  BY <1>1, <1>6, <1>7, StepsExist
<1>9. PICK g : Steps(g, S, N, a, step)
  BY <1>8
<1>10. g \in [0 .. N -> S] /\ g[0] = a /\ \A k \in 1 .. N : g[k] = step[k][g[k - 1]]
  BY <1>9 DEF Steps
<1>11. \A k \in 1 .. N : k - 1 \in 0 .. N
  BY <1>1
<1>12. \A k \in 1 .. N : g[k] = LineMakes(n, h, k, g[k - 1])
  <2> TAKE k \in 1 .. N
  <2>1. g[k - 1] \in S
    BY <1>10, <1>11
  <2> QED
    BY <1>5, <1>10, <2>1
<1>13. HistoryIs(g, n, h)
  BY <1>1, <1>4, <1>7, <1>10, <1>12 DEF HistoryIs
<1> QED
  BY <1>13

\* Nothing said of the file changes while the file does not.
LEMMA SameFile ==
    ASSUME file' = file
    PROVE  /\ \A j : (Header(j)' <=> Header(j)) /\ (DirOver(j)' <=> DirOver(j)) /\ (Picks(j)' <=> Picks(j))
           /\ \A i, h : Opens(i, h)' <=> Opens(i, h)
           /\ \A h, c : Plain(h, c)' <=> Plain(h, c)
           /\ \A v, n, h : HistoryIs(v, n, h)' <=> HistoryIs(v, n, h)
<1>1. \A j : Header(j)' <=> Header(j)
  BY DEF Header
<1>2. \A j : DirOver(j)' <=> DirOver(j)
  BY <1>1 DEF DirOver
<1>3. \A j : Picks(j)' <=> Picks(j)
  BY <1>2 DEF Picks
<1>4. \A i, h : Opens(i, h)' <=> Opens(i, h)
  BY <1>1, <1>3 DEF Opens
<1>5. \A h, c : Plain(h, c)' <=> Plain(h, c)
  BY <1>1 DEF Plain
<1>6. \A n, h, k : IsNew(n, h, k)' <=> IsNew(n, h, k)
  BY DEF IsNew
<1>7. \A n, h, k, x : LineMakes(n, h, k, x)' = LineMakes(n, h, k, x)
  BY <1>1, <1>6 DEF LineMakes
<1>8. \A v, n, h : HistoryIs(v, n, h)' <=> HistoryIs(v, n, h)
  BY <1>7 DEF HistoryIs
<1> QED
  BY <1>1, <1>2, <1>3, <1>4, <1>5, <1>8

-----------------------------------------------------------------------------

LEMMA ConfigStarts == ASSUME ConfigInit PROVE ConfigInv
<1>1. file = <<>> /\ cursor = 1 /\ reading = "pick" /\ nsLinks = {} /\ Unread /\ properties = <<>>
  BY DEF ConfigInit, Unread
<1>2. file \in Seq(ConfigLines) /\ Len(file) = 0
  BY <1>1
<1>3. ConfigTypes
  BY <1>1, <1>2 DEF ConfigTypes
<1>4. PickInv /\ FindInv /\ CollectInv /\ LinkInv
  BY <1>1 DEF PickInv, FindInv, CollectInv, LinkInv
<1> QED
  BY <1>3, <1>4 DEF ConfigInv

LEMMA OpenConfigKeeps == ASSUME ConfigInv, OpenConfig PROVE ConfigInv'
<1>1. ConfigTypes /\ file = <<>> /\ Unread /\ nsLinks = {}
  BY DEF ConfigInv, ConfigTypes, OpenConfig, Unread
<1>2. /\ cursor' = 1 /\ reading' = "pick" /\ section' = "" /\ properties' = <<>> /\ nsLinks' = {}
  BY <1>1 DEF OpenConfig, Unread
<1>8. file' \in Seq(ConfigLines) /\ Len(file') \in Nat
  BY ConfigAssumption DEF OpenConfig
<1>12. cursor' = 1
  BY <1>1 DEF OpenConfig, Unread
<1>9. ConfigTypes'
  <2>2. reading' = "pick" /\ section' = "" /\ properties' = <<>>
    BY <1>1 DEF OpenConfig, Unread
  <2>3. Unread'
    BY <1>12, <2>2 DEF Unread
  <2>1. Unread' /\ cursor' \in Nat \ {0} /\ cursor' <= Len(file') + 1
    BY <1>8, <1>12, <2>3
  <2> QED
    BY <1>2, <1>8, <2>1 DEF ConfigTypes
<1>10. PickInv'
  <2>1. \A j \in 1 .. cursor' - 1 : FALSE
    BY <1>12
  <2> QED
    BY <2>1 DEF PickInv
<1>11. FindInv' /\ CollectInv' /\ LinkInv'
  BY <1>2 DEF FindInv, CollectInv, LinkInv
<1> QED
  BY <1>9, <1>10, <1>11 DEF ConfigInv

LEMMA PickSectionKeeps == ASSUME ConfigInv, PickSection PROVE ConfigInv'
<1>1. /\ file # <<>> /\ reading = "pick" /\ cursor' = cursor + 1 /\ file' = file /\ nsLinks' = nsLinks
      /\ properties' = properties
  BY DEF PickSection, Reads
<1>2. /\ file \in Seq(ConfigLines) /\ cursor \in Nat \ {0} /\ cursor <= Len(file) + 1
      /\ properties = <<>> /\ nsLinks = {}
      /\ \A j \in 1 .. cursor - 1 : ~Header(j) /\ ~DirOver(j)
  BY <1>1 DEF ConfigInv, ConfigTypes, PickInv
<1>3. PICK N \in Nat : N = Len(file)
  BY <1>2
<1>4. /\ \A j : (Header(j)' <=> Header(j)) /\ (DirOver(j)' <=> DirOver(j)) /\ (Picks(j)' <=> Picks(j))
  BY <1>1, SameFile
<1>5. \A j \in 1 .. cursor : j = cursor \/ j \in 1 .. cursor - 1
  BY <1>2
<1>6. CASE AtEnd \/ Line.kind = "section"
  <2>1. reading' = "failed"
    BY <1>6 DEF PickSection
  <2>2. ConfigTypes'
    BY <1>1, <1>2, <2>1 DEF ConfigTypes
  <2>3. PickInv' /\ FindInv' /\ CollectInv' /\ LinkInv'
    BY <2>1 DEF PickInv, FindInv, CollectInv, LinkInv
  <2> QED
    BY <2>2, <2>3 DEF ConfigInv
<1>7. CASE ~AtEnd /\ Line.kind # "section"
  <2>1. cursor <= N /\ ~Header(cursor)
    BY <1>2, <1>3, <1>7 DEF AtEnd, Line, Header
  <2>2. \A j \in 1 .. cursor : ~Header(j)
    BY <1>2, <1>5, <2>1
  <2>3. cursor' - 1 = cursor /\ cursor \in 1 .. cursor /\ cursor' <= N + 1 /\ cursor' \in Nat \ {0}
    BY <1>1, <1>2, <2>1
  <2>4. CASE Line.kind = "assign" /\ Line.name[1] = "dir" /\ Line.value[1] \in Covering
    <3>1. reading' = "find" /\ section' = file[cursor].name[2]
      BY <1>7, <2>4 DEF PickSection, Line
    <3>2. DirOver(cursor)
      BY <2>2, <2>4 DEF DirOver, Line
    <3>3. Picks(cursor)
      BY <1>2, <3>2 DEF Picks
    <3>4. ConfigTypes'
      BY <1>1, <1>2, <1>3, <2>3, <3>1 DEF ConfigTypes
    <3>5. FindInv'
      BY <1>1, <1>4, <2>2, <2>3, <3>1, <3>3 DEF FindInv
    <3>6. PickInv' /\ CollectInv' /\ LinkInv'
      BY <3>1 DEF PickInv, CollectInv, LinkInv
    <3> QED
      BY <3>4, <3>5, <3>6 DEF ConfigInv
  <2>5. CASE ~(Line.kind = "assign" /\ Line.name[1] = "dir" /\ Line.value[1] \in Covering)
    <3>1. reading' = "pick"
      BY <1>7, <2>5 DEF PickSection
    <3>2. ~DirOver(cursor)
      BY <2>5 DEF DirOver, Line
    <3>3. \A j \in 1 .. cursor : ~DirOver(j)
      BY <1>2, <1>5, <3>2
    <3>4. PickInv'
      BY <1>4, <2>2, <2>3, <3>3 DEF PickInv
    <3>5. ConfigTypes'
      BY <1>1, <1>2, <1>3, <2>3, <3>1 DEF ConfigTypes
    <3>6. FindInv' /\ CollectInv' /\ LinkInv'
      BY <3>1 DEF FindInv, CollectInv, LinkInv
    <3> QED
      BY <3>4, <3>5, <3>6 DEF ConfigInv
  <2> QED
    BY <2>4, <2>5
<1> QED
  BY <1>6, <1>7

LEMMA FindSectionKeeps == ASSUME ConfigInv, FindSection PROVE ConfigInv'
<1>1. /\ file # <<>> /\ reading = "find" /\ cursor' = cursor + 1 /\ file' = file /\ nsLinks' = nsLinks
      /\ properties' = properties /\ section' = section
  BY DEF FindSection, Reads
<1>2. /\ file \in Seq(ConfigLines) /\ cursor \in Nat \ {0} /\ cursor <= Len(file) + 1
      /\ properties = <<>> /\ nsLinks = {}
  BY <1>1 DEF ConfigInv, ConfigTypes
<1>3. PICK i \in 1 .. cursor - 1 :
          /\ Picks(i) /\ section = file[i].name[2]
          /\ \A j \in 1 .. cursor - 1 : ~(Header(j) /\ file[j].name = section)
  BY <1>1 DEF ConfigInv, FindInv
<1>4. PICK N \in Nat : N = Len(file)
  BY <1>2
<1>5. /\ \A j : (Header(j)' <=> Header(j)) /\ (Picks(j)' <=> Picks(j))
      /\ \A k, h : Opens(k, h)' <=> Opens(k, h)
      /\ \A h, c : Plain(h, c)' <=> Plain(h, c)
  BY <1>1, SameFile
<1>6. /\ \A j \in 1 .. cursor : j = cursor \/ j \in 1 .. cursor - 1
      /\ i \in 1 .. cursor /\ cursor \in 1 .. cursor /\ cursor' - 1 = cursor /\ cursor' \in Nat \ {0}
  BY <1>1, <1>2
<1>7. CASE AtEnd
  <2>1. reading' = "failed"
    BY <1>7 DEF FindSection
  <2>2. ConfigTypes'
    BY <1>1, <1>2, <1>6, <2>1 DEF ConfigTypes
  <2>3. PickInv' /\ FindInv' /\ CollectInv' /\ LinkInv'
    BY <2>1 DEF PickInv, FindInv, CollectInv, LinkInv
  <2> QED
    BY <2>2, <2>3 DEF ConfigInv
<1>8. CASE ~AtEnd /\ Line.kind = "section" /\ Line.name = section
  <2>1. reading' = "collect"
    BY <1>8 DEF FindSection
  <2>2. cursor <= N /\ Header(cursor) /\ file[cursor].name = section
    BY <1>2, <1>4, <1>8 DEF AtEnd, Line, Header
  <2>3. Opens(i, cursor)
    BY <1>3, <2>2 DEF Opens
  <2>4. PICK h \in Nat : h = cursor
    BY <1>2
  <2>10. h + 1 .. (h + 1) - 1 = {}
    OBVIOUS
  <2>5. Plain(h, h + 1)
    BY <2>10 DEF Plain
  <2>6. PropertiesOf(h, h + 1)'
    <3>1. DOMAIN properties' = {}
      BY <1>1, <1>2
    <3>2. {file'[k].name : k \in h + 1 .. (h + 1) - 1} = {}
      BY <2>10
    <3> QED
      BY <3>1, <3>2 DEF PropertiesOf
  <2>7. CollectInv'
    <3>1. Opens(i, h)' /\ Plain(h, h + 1)'
      BY <1>5, <2>3, <2>4, <2>5
    <3>2. cursor' = h + 1 /\ i \in 1 .. cursor' - 1 /\ h \in 1 .. cursor' - 1
      BY <1>1, <1>6, <2>4
    <3> QED
      BY <2>6, <3>1, <3>2 DEF CollectInv
  <2>8. ConfigTypes'
    BY <1>1, <1>2, <1>4, <1>6, <2>1, <2>2 DEF ConfigTypes
  <2>9. PickInv' /\ FindInv' /\ LinkInv'
    BY <2>1 DEF PickInv, FindInv, LinkInv
  <2> QED
    BY <2>7, <2>8, <2>9 DEF ConfigInv
<1>9. CASE ~AtEnd /\ ~(Line.kind = "section" /\ Line.name = section)
  <2>1. reading' = "find"
    BY <1>9 DEF FindSection
  <2>2. cursor <= N /\ ~(Header(cursor) /\ file[cursor].name = section)
    BY <1>2, <1>4, <1>9 DEF AtEnd, Line, Header
  <2>3. FindInv'
    <3>1. \A j \in 1 .. cursor : ~(Header(j) /\ file[j].name = section)
      BY <1>3, <1>6, <2>2
    <3>2. \A j \in 1 .. cursor' - 1 : ~(Header(j)' /\ file'[j].name = section')
      BY <1>1, <1>5, <1>6, <3>1
    <3>3. Picks(i)' /\ section' = file'[i].name[2] /\ i \in 1 .. cursor' - 1
      BY <1>1, <1>3, <1>5, <1>6
    <3> QED
      BY <3>2, <3>3 DEF FindInv
  <2>4. ConfigTypes'
    BY <1>1, <1>2, <1>4, <1>6, <2>1, <2>2 DEF ConfigTypes
  <2>5. PickInv' /\ CollectInv' /\ LinkInv'
    BY <2>1 DEF PickInv, CollectInv, LinkInv
  <2> QED
    BY <2>3, <2>4, <2>5 DEF ConfigInv
<1> QED
  BY <1>7, <1>8, <1>9

\* A line of the section adds its value to the properties as it adds it to
\* their history.
LEMMA CollectedIs ==
    ASSUME file \in Seq(ConfigLines), NEW c \in 1 .. Len(file), NEW h \in 1 .. c - 1,
           ~Header(c), PropertiesOf(h, c), properties' = Collected(file[c]), file' = file
    PROVE  PropertiesOf(h, c + 1)'
<1>1. PICK l \in ConfigLines : l = file[c]
  OBVIOUS
<1>2. l.kind # "section" /\ l.name \in Seq(STRING) /\ l.value \in Seq(STRING)
  BY <1>1, LineTypes DEF Header
<1>3. DOMAIN properties = {file[k].name : k \in h + 1 .. c - 1}
  BY DEF PropertiesOf
<1>4. h + 1 .. (c + 1) - 1 = (h + 1 .. c - 1) \cup {c}
  OBVIOUS
<1>5. {file[k].name : k \in h + 1 .. (c + 1) - 1} = DOMAIN properties \cup {l.name}
  BY <1>1, <1>3, <1>4
<1>6. IsNew(l.name, h, c) <=> l.name \notin DOMAIN properties
  BY <1>3 DEF IsNew
<1>7. ~(c <= h) /\ (c + 1) - 1 = c /\ h \in Nat /\ c - 1 \in 0 .. Len(file)
  OBVIOUS
\* What the history says after the line.
<1>8. ASSUME NEW n, NEW v, HistoryIs(v, n, h)
      PROVE  v[c] = LineMakes(n, h, c, v[c - 1])
  BY <1>8 DEF HistoryIs
<1>9. ASSUME NEW n \in DOMAIN properties, n # l.name, properties'[n] = properties[n]
      PROVE  \E v : HistoryIs(v, n, h) /\ properties'[n] = v[(c + 1) - 1]
  <2>1. PICK v : HistoryIs(v, n, h) /\ properties[n] = v[c - 1]
    BY <1>9 DEF PropertiesOf
  <2>2. LineMakes(n, h, c, v[c - 1]) = v[c - 1]
    BY <1>1, <1>9 DEF LineMakes
  <2>3. v[c] = v[c - 1]
    BY <1>8, <2>1, <2>2
  <2> QED
    BY <1>7, <1>9, <2>1, <2>3
\* The line gives the value.
<1>10. CASE l.kind = "assign" \/ l.name \notin DOMAIN properties
  <2>1. properties' = [n \in DOMAIN properties \cup {l.name} |-> IF n = l.name THEN l.value ELSE properties[n]]
    BY <1>1, <1>2, <1>10 DEF Collected
  <2>2. DOMAIN properties' = DOMAIN properties \cup {l.name}
    BY <2>1
  <2>3. ASSUME NEW n \in DOMAIN properties'
        PROVE  \E v : HistoryIs(v, n, h) /\ properties'[n] = v[(c + 1) - 1]
    <3>1. CASE n = l.name
      <4>1. PICK v : HistoryIs(v, n, h)
        BY <1>7, HistoryExists
      <4>2. LineMakes(n, h, c, v[c - 1]) = l.value
        BY <1>1, <1>6, <1>7, <1>10, <3>1 DEF LineMakes
      <4>3. v[c] = l.value
        BY <1>8, <4>1, <4>2
      <4>4. properties'[n] = l.value
        BY <2>1, <2>2, <3>1
      <4> QED
        BY <1>7, <4>1, <4>3, <4>4
    <3>2. CASE n # l.name
      <4>1. n \in DOMAIN properties /\ properties'[n] = properties[n]
        BY <2>1, <2>2, <3>2
      <4> QED
        BY <1>9, <3>2, <4>1
    <3> QED
      BY <3>1, <3>2
  <2>4. DOMAIN properties' = {file'[k].name : k \in h + 1 .. (c + 1) - 1}
    BY <1>5, <2>2
  <2>5. \A n \in DOMAIN properties' : \E v : HistoryIs(v, n, h)' /\ properties'[n] = v[(c + 1) - 1]
    BY <2>3, SameFile
  <2> QED
    BY <2>4, <2>5 DEF PropertiesOf
\* The line appends to it.
<1>11. CASE ~(l.kind = "assign" \/ l.name \notin DOMAIN properties) /\ KeyOf(l.name) \in Appendable
  <2>1. properties' = [properties EXCEPT ![l.name] = properties[l.name] \o l.value]
    BY <1>1, <1>2, <1>11 DEF Collected
  <2>2. DOMAIN properties' = DOMAIN properties /\ DOMAIN properties = DOMAIN properties \cup {l.name}
    BY <1>11, <2>1
  <2>3. ASSUME NEW n \in DOMAIN properties'
        PROVE  \E v : HistoryIs(v, n, h) /\ properties'[n] = v[(c + 1) - 1]
    <3>1. CASE n = l.name
      <4>1. PICK v : HistoryIs(v, n, h) /\ properties[n] = v[c - 1]
        BY <2>2 DEF PropertiesOf
      <4>2. LineMakes(n, h, c, v[c - 1]) = v[c - 1] \o l.value
        BY <1>1, <1>6, <1>7, <1>11, <3>1 DEF LineMakes
      <4>3. v[c] = v[c - 1] \o l.value
        BY <1>8, <4>1, <4>2
      <4>4. properties'[n] = properties[n] \o l.value
        BY <2>1, <2>2, <3>1
      <4> QED
        BY <1>7, <4>1, <4>3, <4>4
    <3>2. CASE n # l.name
      <4>1. n \in DOMAIN properties /\ properties'[n] = properties[n]
        BY <2>1, <2>2, <3>2
      <4> QED
        BY <1>9, <3>2, <4>1
    <3> QED
      BY <3>1, <3>2
  <2>4. DOMAIN properties' = {file'[k].name : k \in h + 1 .. (c + 1) - 1}
    <3> QED
      BY <1>5, <2>2
  <2>5. \A n \in DOMAIN properties' : \E v : HistoryIs(v, n, h)' /\ properties'[n] = v[(c + 1) - 1]
    BY <2>3, SameFile
  <2> QED
    BY <2>4, <2>5 DEF PropertiesOf
\* The line is passed over.
<1>12. CASE ~(l.kind = "assign" \/ l.name \notin DOMAIN properties) /\ KeyOf(l.name) \notin Appendable
  <2>1. properties' = properties
    BY <1>1, <1>2, <1>12 DEF Collected
  <2>2. DOMAIN properties = DOMAIN properties \cup {l.name}
    BY <1>12
  <2>3. ASSUME NEW n \in DOMAIN properties'
        PROVE  \E v : HistoryIs(v, n, h) /\ properties'[n] = v[(c + 1) - 1]
    <3>1. PICK v : HistoryIs(v, n, h) /\ properties[n] = v[c - 1]
      BY <2>1 DEF PropertiesOf
    <3>2. LineMakes(n, h, c, v[c - 1]) = v[c - 1]
      BY <1>1, <1>6, <1>7, <1>12 DEF LineMakes
    <3>3. v[c] = v[c - 1]
      BY <1>8, <3>1, <3>2
    <3> QED
      BY <1>7, <2>1, <3>1, <3>3
  <2> QED
    BY <1>5, <2>1, <2>2, <2>3, SameFile DEF PropertiesOf
<1> QED
  BY <1>10, <1>11, <1>12

LEMMA CollectKeeps == ASSUME ConfigInv, Collect PROVE ConfigInv'
<1>1. /\ file # <<>> /\ reading = "collect" /\ cursor' = cursor + 1 /\ file' = file /\ nsLinks' = nsLinks
      /\ section' = section
  BY DEF Collect, Reads
<1>2. file \in Seq(ConfigLines) /\ cursor \in Nat \ {0} /\ cursor <= Len(file) + 1 /\ nsLinks = {}
  BY <1>1 DEF ConfigInv, ConfigTypes
<1>3. PICK i \in 1 .. cursor - 1, h \in 1 .. cursor - 1 :
          Opens(i, h) /\ Plain(h, cursor) /\ PropertiesOf(h, cursor)
  BY <1>1 DEF ConfigInv, CollectInv
<1>4. PICK N \in Nat : N = Len(file)
  BY <1>2
<1>5. PICK c \in Nat : c = cursor
  BY <1>2
<1>6. i \in 1 .. N /\ h \in 1 .. N /\ h \in Nat /\ c \in h + 1 .. N + 1 /\ cursor' = c + 1
      /\ cursor' \in Nat \ {0} /\ i \in 1 .. cursor' - 1 /\ h \in 1 .. cursor' - 1
  BY <1>1, <1>2, <1>4, <1>5
<1>7. CASE AtEnd \/ EndsSection(Line)
  <2>1. /\ reading' = "link" /\ properties' = properties
        /\ namespaces' = <<DefaultNs>> \o ValueOf(properties, <<"additional", "namespaces">>)
    BY <1>7 DEF Collect
  <2>2. ConfigTypes'
    BY <1>1, <1>2, <1>6, <2>1 DEF ConfigTypes
  <2>3. c = N + 1 \/ Header(c)
    BY <1>2, <1>4, <1>5, <1>7 DEF AtEnd, EndsSection, Line, Header
  <2>4. /\ Opens(i, h)' /\ Plain(h, c)' /\ (c = N + 1 \/ Header(c)')
    BY <1>1, <1>3, <1>5, <2>3, SameFile
  <2>5. PropertiesOf(h, c)'
    <3>1. /\ DOMAIN properties = {file[k].name : k \in h + 1 .. c - 1}
          /\ \A n \in DOMAIN properties : \E v : HistoryIs(v, n, h) /\ properties[n] = v[c - 1]
      BY <1>3, <1>5 DEF PropertiesOf
    <3>2. DOMAIN properties' = {file'[k].name : k \in h + 1 .. c - 1}
      BY <1>1, <2>1, <3>1
    <3>3. \A n \in DOMAIN properties' : \E v : HistoryIs(v, n, h)' /\ properties'[n] = v[c - 1]
      BY <1>1, <2>1, <3>1, SameFile
    <3> QED
      BY <3>2, <3>3 DEF PropertiesOf
  <2>6. namespaces' = <<DefaultNs>> \o ValueOf(properties', <<"additional", "namespaces">>)
    BY <2>1
  <2>7. nsLinks' = {} /\ Len(file') = N
    BY <1>1, <1>2, <1>4
  <2>8. LinkInv'
    BY <1>6, <2>4, <2>5, <2>6, <2>7 DEF LinkInv
  <2>9. PickInv' /\ FindInv' /\ CollectInv'
    BY <2>1 DEF PickInv, FindInv, CollectInv
  <2> QED
    BY <2>2, <2>8, <2>9 DEF ConfigInv
<1>8. CASE ~AtEnd /\ ~EndsSection(Line)
  <2>1. reading' = "collect" /\ properties' = Collected(file[c])
    BY <1>1, <1>5, <1>8 DEF Collect, Line
  <2>2. c \in 1 .. N /\ ~Header(c) /\ h \in 1 .. c - 1
    BY <1>2, <1>4, <1>5, <1>6, <1>8 DEF AtEnd, EndsSection, Line, Header
  <2>3. PropertiesOf(h, c + 1)'
    BY <1>1, <1>2, <1>3, <1>4, <1>5, <2>1, <2>2, CollectedIs
  <2>4. Plain(h, c + 1)
    <3>1. \A j \in h + 1 .. (c + 1) - 1 : j = c \/ j \in h + 1 .. c - 1
      BY <1>6
    <3> QED
      BY <1>3, <1>5, <2>2, <3>1 DEF Plain
  <2>5. Opens(i, h)' /\ Plain(h, c + 1)'
    BY <1>1, <1>3, <2>4, SameFile
  <2>6. CollectInv'
    BY <1>6, <2>3, <2>5 DEF CollectInv
  <2>7. ConfigTypes'
    BY <1>1, <1>2, <1>4, <1>6, <2>1, <2>2 DEF ConfigTypes
  <2>8. PickInv' /\ FindInv' /\ LinkInv'
    BY <2>1 DEF PickInv, FindInv, LinkInv
  <2> QED
    BY <2>6, <2>7, <2>8 DEF ConfigInv
<1> QED
  BY <1>7, <1>8

LEMMA MakeLinksKeeps == ASSUME ConfigInv, MakeLinks PROVE ConfigInv'
<1>1. /\ reading = "link" /\ UNCHANGED <<file, cursor, section, properties, namespaces>>
      /\ reading' \in {"read", "failed"}
  BY DEF MakeLinks
<1>2. ConfigTypes'
  BY <1>1 DEF ConfigInv, ConfigTypes, Unread
<1>3. PickInv' /\ FindInv' /\ CollectInv'
  BY <1>1 DEF PickInv, FindInv, CollectInv
<1>4. /\ \E i, h \in 1 .. Len(file) : \E e \in h + 1 .. Len(file) + 1 :
            /\ Opens(i, h) /\ Plain(h, e) /\ PropertiesOf(h, e)
            /\ e = Len(file) + 1 \/ Header(e)
      /\ namespaces = <<DefaultNs>> \o ValueOf(properties, <<"additional", "namespaces">>)
  BY <1>1 DEF ConfigInv, LinkInv
<1>11. PICK i \in 1 .. Len(file), h \in 1 .. Len(file) : \E e \in h + 1 .. Len(file) + 1 :
            /\ Opens(i, h) /\ Plain(h, e) /\ PropertiesOf(h, e)
            /\ e = Len(file) + 1 \/ Header(e)
  BY <1>4
<1>5. PICK e \in h + 1 .. Len(file) + 1 :
            /\ Opens(i, h) /\ Plain(h, e) /\ PropertiesOf(h, e)
            /\ e = Len(file) + 1 \/ Header(e)
  BY <1>11
<1>6. /\ Opens(i, h)' /\ Plain(h, e)' /\ (e = Len(file') + 1 \/ Header(e)')
  BY <1>1, <1>5, SameFile
<1>7. PropertiesOf(h, e)'
  <2>1. /\ DOMAIN properties = {file[k].name : k \in h + 1 .. e - 1}
        /\ \A n \in DOMAIN properties : \E v : HistoryIs(v, n, h) /\ properties[n] = v[e - 1]
    BY <1>5 DEF PropertiesOf
  <2>2. DOMAIN properties' = {file'[k].name : k \in h + 1 .. e - 1}
    BY <1>1, <2>1
  <2>3. \A n \in DOMAIN properties' : \E v : HistoryIs(v, n, h)' /\ properties'[n] = v[e - 1]
    BY <1>1, <2>1, SameFile
  <2> QED
    BY <2>2, <2>3 DEF PropertiesOf
<1>8. namespaces' = <<DefaultNs>> \o ValueOf(properties', <<"additional", "namespaces">>)
  BY <1>1, <1>4
<1>9. ASSUME reading' = "read", NEW l \in nsLinks' PROVE l[2] \in ToSet(namespaces') /\ l[3] # NoValue
  <2>1. /\ \A n \in ToSet(namespaces) : \A to \in LinksOf(n) : GoodLink(n, to)
        /\ nsLinks' = UNION {{<<n, to, IF AllowAll(n, to) THEN <<"all">> ELSE SharedLibs(n, to)>> :
                                 to \in LinksOf(n)} : n \in ToSet(namespaces)}
    BY <1>9 DEF MakeLinks
  <2>6. PICK n \in ToSet(namespaces) : \E to \in LinksOf(n) :
            l = <<n, to, IF AllowAll(n, to) THEN <<"all">> ELSE SharedLibs(n, to)>>
    BY <1>9, <2>1
  <2>2. PICK to \in LinksOf(n) :
            l = <<n, to, IF AllowAll(n, to) THEN <<"all">> ELSE SharedLibs(n, to)>>
    BY <2>6
  <2>3. to \in ToSet(namespaces) /\ (AllowAll(n, to) <=> SharedLibs(n, to) = NoValue)
    BY <2>1, <2>2 DEF GoodLink
  <2>4. l[2] = to /\ l[3] = IF AllowAll(n, to) THEN <<"all">> ELSE SharedLibs(n, to)
    BY <2>2
  <2>5. <<"all">> # NoValue
    BY DEF NoValue
  <2> QED
    BY <1>1, <2>3, <2>4, <2>5
<1>10. LinkInv'
  BY <1>1, <1>5, <1>6, <1>7, <1>8, <1>9 DEF LinkInv
<1> QED
  BY <1>2, <1>3, <1>10 DEF ConfigInv

LEMMA ConfigStutters == ASSUME ConfigInv, UNCHANGED configVars PROVE ConfigInv'
<1>1. UNCHANGED <<file, cursor, reading, section, properties, namespaces, nsLinks>>
  BY DEF configVars
<1>2. /\ file' = file /\ cursor' = cursor /\ reading' = reading /\ section' = section
      /\ properties' = properties /\ namespaces' = namespaces /\ nsLinks' = nsLinks
  BY <1>1
<1>3. /\ \A j : (Header(j)' <=> Header(j)) /\ (DirOver(j)' <=> DirOver(j)) /\ (Picks(j)' <=> Picks(j))
      /\ \A i, h : Opens(i, h)' <=> Opens(i, h)
      /\ \A h, c : Plain(h, c)' <=> Plain(h, c)
      /\ \A v, n, h : HistoryIs(v, n, h)' <=> HistoryIs(v, n, h)
  BY <1>2, SameFile
<1>4. \A h, c : PropertiesOf(h, c)' <=> PropertiesOf(h, c)
  BY <1>2, <1>3 DEF PropertiesOf
<1>5. ConfigTypes' /\ PickInv' /\ FindInv'
  BY <1>2, <1>3 DEF ConfigInv, ConfigTypes, Unread, PickInv, FindInv
<1>6. CollectInv' /\ LinkInv'
  BY <1>2, <1>3, <1>4 DEF ConfigInv, CollectInv, LinkInv
<1> QED
  BY <1>5, <1>6 DEF ConfigInv

LEMMA ConfigInvariant == ConfigSpec => []ConfigInv
<1>1. ConfigInit => ConfigInv
  BY ConfigStarts
<1>2. ConfigInv /\ [ConfigNext]_configVars => ConfigInv'
  BY OpenConfigKeeps, PickSectionKeeps, FindSectionKeeps, CollectKeeps, MakeLinksKeeps, ConfigStutters
     DEF ConfigNext
<1> QED
  BY <1>1, <1>2, PTL DEF ConfigSpec

-----------------------------------------------------------------------------
(* What a file means is what its one section says.                           *)

LEMMA PickIsOne ==
    ASSUME NEW i \in Nat \ {0}, NEW k \in Nat \ {0}, Picks(i), Picks(k)
    PROVE  i = k
<1>1. DirOver(i) /\ DirOver(k)
  BY DEF Picks
<1>2. CASE i < k
  <2>1. i \in 1 .. k - 1
    BY <1>2
  <2> QED
    BY <1>1, <2>1 DEF Picks
<1>3. CASE k < i
  <2>1. k \in 1 .. i - 1
    BY <1>3
  <2> QED
    BY <1>1, <2>1 DEF Picks
<1> QED
  BY <1>2, <1>3

LEMMA WithinIs ==
    ASSUME file \in Seq(ConfigLines), NEW i \in 1 .. Len(file), NEW h \in 1 .. Len(file),
           NEW e \in h + 1 .. Len(file) + 1, Opens(i, h), Plain(h, e), e = Len(file) + 1 \/ Header(e),
           NEW k \in 1 .. Len(file)
    PROVE  Within(k) <=> k \in h + 1 .. e - 1
<1>1. PICK N \in Nat : N = Len(file)
  OBVIOUS
<1>2. Picks(i) /\ Header(h) /\ file[h].name = file[i].name[2]
      /\ \A j \in 1 .. h - 1 : ~(Header(j) /\ file[j].name = file[i].name[2])
  BY DEF Opens
<1>3. \A j \in 1 .. i : ~Header(j)
  BY <1>2 DEF Picks, DirOver
<1>4. i < h
  BY <1>2, <1>3
<1>5. ASSUME Within(k) PROVE k \in h + 1 .. e - 1
  <2>1. PICK p \in 1 .. k - 1, q \in 1 .. k - 1 :
           /\ Picks(p) /\ Header(q) /\ file[q].name = file[p].name[2]
           /\ \A j \in 1 .. q - 1 : ~(Header(j) /\ file[j].name = file[p].name[2])
           /\ \A j \in q + 1 .. k : ~Header(j)
    BY <1>5 DEF Within
  <2>2. p = i
    BY <1>2, <2>1, PickIsOne
  <2>3. ~(q < h)
    <3>1. ASSUME q < h PROVE FALSE
      <4>1. q \in 1 .. h - 1
        BY <3>1
      <4> QED
        BY <1>2, <2>1, <2>2, <4>1
    <3> QED
      BY <3>1
  <2>4. ~(h < q)
    <3>1. ASSUME h < q PROVE FALSE
      <4>1. h \in 1 .. q - 1
        BY <3>1
      <4> QED
        BY <1>2, <2>1, <2>2, <4>1
    <3> QED
      BY <3>1
  <2>5. q = h
    BY <2>3, <2>4
  <2>6. ~(k >= e)
    <3>1. ASSUME k >= e PROVE FALSE
      <4>1. e \in h + 1 .. k /\ e # Len(file) + 1
        BY <1>1, <3>1
      <4> QED
        BY <2>1, <2>5, <4>1
    <3> QED
      BY <3>1
  <2> QED
    BY <2>1, <2>5, <2>6
<1>6. ASSUME k \in h + 1 .. e - 1 PROVE Within(k)
  <2>1. i \in 1 .. k - 1 /\ h \in 1 .. k - 1
    BY <1>4, <1>6
  <2>2. \A j \in h + 1 .. k : ~Header(j)
    <3>1. \A j \in h + 1 .. k : j \in h + 1 .. e - 1
      BY <1>6
    <3> QED
      BY <3>1 DEF Plain
  <2> QED
    BY <1>2, <2>1, <2>2 DEF Within
<1> QED
  BY <1>5, <1>6

\* The values of a history from the last assignment on.
LEMMA MeantIs ==
    ASSUME file \in Seq(ConfigLines), NEW i \in 1 .. Len(file), NEW h \in 1 .. Len(file),
           NEW e \in h + 1 .. Len(file) + 1, Opens(i, h), Plain(h, e), e = Len(file) + 1 \/ Header(e),
           NEW m \in h + 1 .. e - 1, NEW v, HistoryIs(v, file[m].name, h)
    PROVE  Meant(file[m].name) = v[e - 1]
<1>1. PICK N \in Nat : N = Len(file)
  OBVIOUS
<1>2. PICK n : n = file[m].name
  OBVIOUS
<1>3. PICK about : about = {k \in 1 .. Len(file) : Within(k) /\ file[k].name = n}
  OBVIOUS
<1>4. about = {k \in h + 1 .. e - 1 : file[k].name = n}
  <2>1. \A k \in h + 1 .. e - 1 : k \in 1 .. Len(file)
    BY <1>1
  <2>2. \A k \in 1 .. Len(file) : Within(k) <=> k \in h + 1 .. e - 1
    BY WithinIs
  <2> QED
    BY <1>3, <2>1, <2>2
<1>5. about \in SUBSET Nat /\ about # {} /\ \A k \in about : k \in 1 .. N /\ Within(k) /\ h < k /\ k < e
  <2>1. \A k \in about : k \in 1 .. N /\ Within(k)
    BY <1>1, <1>3
  <2>2. \A k \in about : k \in Nat /\ h < k /\ k < e
    BY <1>4
  <2>3. m \in about
    BY <1>2, <1>4
  <2> QED
    BY <2>1, <2>2, <2>3
<1>6. PICK f \in about : \A j \in about : f <= j
  BY <1>5, LeastNat
<1>7. (CHOOSE k \in about : \A j \in about : k <= j) = f
  <2>1. \A k \in about : (\A j \in about : k <= j) => k = f
    BY <1>5, <1>6
  <2> QED
    BY <1>6, <2>1
\* The last assignment, or the first line of all.
<1>8. PICK d \in about : (Sets(d) \/ d = f) /\ \A j \in about : Sets(j) => j <= d
  <2>1. CASE \E j \in about : Sets(j)
    <3>1. PICK T : T = {x \in Nat : \E j \in about : Sets(j) /\ x = N - j}
      OBVIOUS
    <3>2. T \in SUBSET Nat /\ T # {}
      <4>1. PICK j \in about : Sets(j)
        BY <2>1
      <4>2. N - j \in Nat
        BY <1>5
      <4> QED
        BY <3>1, <4>1, <4>2
    <3>3. PICK x \in T : \A y \in T : x <= y
      BY <3>2, LeastNat
    <3>4. PICK j \in about : Sets(j) /\ x = N - j
      BY <3>1, <3>3
    <3>5. ASSUME NEW y \in about, Sets(y) PROVE y <= j
      <4>1. N - y \in T
        BY <1>5, <3>1, <3>5
      <4>2. N - j <= N - y
        BY <3>3, <3>4, <4>1
      <4> QED
        BY <1>5, <4>2
    <3> QED
      BY <3>4, <3>5
  <2>2. CASE ~ \E j \in about : Sets(j)
    BY <2>2
  <2> QED
    BY <2>1, <2>2
<1>9. (CHOOSE k \in about : (Sets(k) \/ k = f) /\ \A j \in about : Sets(j) => j <= k) = d
  <2>1. ASSUME NEW k \in about, Sets(k) \/ k = f, \A j \in about : Sets(j) => j <= k PROVE k = d
    <3>1. k \in Nat /\ d \in Nat /\ f <= k /\ f <= d
      BY <1>5, <1>6
    <3>2. CASE Sets(k) /\ Sets(d)
      BY <1>8, <2>1, <3>1, <3>2
    <3>3. CASE ~Sets(k)
      <4>1. k = f
        BY <2>1, <3>3
      <4>2. CASE Sets(d)
        <5>1. d <= k
          BY <2>1, <4>2
        <5> QED
          BY <1>5, <3>1, <4>1, <5>1
      <4>3. CASE ~Sets(d)
        BY <1>8, <4>1, <4>3
      <4> QED
        BY <4>2, <4>3
    <3>4. CASE ~Sets(d)
      <4>1. d = f
        BY <1>8, <3>4
      <4>2. CASE Sets(k)
        <5>1. k <= d
          BY <1>8, <4>2
        <5> QED
          BY <1>5, <3>1, <4>1, <5>1
      <4>3. CASE ~Sets(k)
        BY <2>1, <4>1, <4>3
      <4> QED
        BY <4>2, <4>3
    <3> QED
      BY <3>2, <3>3, <3>4
  <2> QED
    BY <1>8, <2>1
<1>10. d \in 1 .. N /\ h < d /\ d < e /\ d \in Nat /\ h \in Nat /\ e \in Nat /\ e - 1 \in d .. N
  BY <1>1, <1>5
\* What the history does from there on.
<1>11. \A k \in 1 .. N : v[k] = LineMakes(n, h, k, v[k - 1])
  BY <1>1, <1>2 DEF HistoryIs
<1>12. \A k \in h + 1 .. e - 1 : ~Header(k)
  BY DEF Plain
<1>13. v[d] = file[d].value
  <2>1. ~(d <= h) /\ ~Header(d) /\ file[d].name = n
    BY <1>4, <1>10, <1>12
  <2>2. file[d].kind = "assign" \/ IsNew(n, h, d)
    <3>1. CASE Sets(d)
      BY <3>1 DEF Sets
    <3>2. CASE d = f
      <4>1. \A j \in h + 1 .. d - 1 : j \in h + 1 .. e - 1 /\ ~(f <= j)
        BY <1>10, <3>2
      <4>2. \A j \in h + 1 .. d - 1 : file[j].name # n
        BY <1>4, <1>6, <4>1
      <4> QED
        BY <4>2 DEF IsNew
    <3> QED
      BY <1>8, <3>1, <3>2
  <2>3. LineMakes(n, h, d, v[d - 1]) = file[d].value
    BY <2>1, <2>2 DEF LineMakes
  <2> QED
    BY <1>10, <1>11, <2>3
<1>14. PICK later : later = {k \in about : k > d /\ KeyOf(n) \in Appendable}
  OBVIOUS
<1>15. ASSUME NEW k \in d + 1 .. e - 1
       PROVE  v[k] = v[k - 1] \o IF k \in later THEN file[k].value ELSE <<>>
  <2>1. k \in 1 .. N /\ k \in h + 1 .. e - 1 /\ ~(k <= h) /\ k > d /\ k - 1 \in 0 .. N
    BY <1>10
  <2>2. v[k] = LineMakes(n, h, k, v[k - 1])
    BY <1>11, <2>1
  <2>3. PICK x \in Seq(STRING) : x = v[k - 1]
    BY <1>1, <2>1 DEF HistoryIs
  <2>4. x \o <<>> = x
    BY <2>3
  <2>5. CASE file[k].name # n
    <3>1. k \notin later
      BY <1>4, <1>14, <2>5
    <3>2. LineMakes(n, h, k, v[k - 1]) = v[k - 1]
      BY <2>5 DEF LineMakes
    <3> QED
      BY <2>2, <2>3, <2>4, <3>1, <3>2
  <2>6. CASE file[k].name = n
    <3>1. k \in about
      BY <1>4, <2>1, <2>6
    <3>2. ~Sets(k)
      BY <1>8, <1>10, <2>1, <3>1
    <3>3. file[k].kind # "assign"
      BY <1>5, <3>1, <3>2 DEF Sets
    <3>4. ~IsNew(n, h, k)
      <4>1. d \in h + 1 .. k - 1 /\ file[d].name = n
        BY <1>4, <1>10, <2>1
      <4> QED
        BY <4>1 DEF IsNew
    <3>5. ~Header(k)
      BY <1>12, <2>1
    <3>6. LineMakes(n, h, k, v[k - 1]) =
             IF KeyOf(n) \in Appendable THEN v[k - 1] \o file[k].value ELSE v[k - 1]
      BY <2>1, <2>6, <3>3, <3>4, <3>5 DEF LineMakes
    <3>7. k \in later <=> KeyOf(n) \in Appendable
      BY <1>14, <2>1, <3>1
    <3> QED
      BY <2>2, <2>3, <2>4, <3>6, <3>7
  <2> QED
    BY <2>5, <2>6
\* The function of the definition is that history, held from the end of the
\* section on.
<1>16. PICK w : w = [k \in d .. N |-> IF k < e THEN v[k] ELSE v[e - 1]]
  OBVIOUS
<1>17. ASSUME NEW k \in d + 1 .. N, k >= e
       PROVE  k \notin later /\ w[k] = w[k - 1]
  <2>1. k \notin later
    BY <1>5, <1>14, <1>17
  <2>2. k \in d .. N /\ k - 1 \in d .. N /\ ~(k < e)
    BY <1>10, <1>17
  <2>3. w[k] = v[e - 1]
    BY <1>16, <2>2
  <2>4. w[k - 1] = v[e - 1]
    <3>1. k - 1 < e => k - 1 = e - 1
      BY <1>10, <1>17
    <3> QED
      BY <1>16, <2>2, <3>1
  <2> QED
    BY <2>1, <2>3, <2>4
<1>18. \A k \in d .. N : w[k] \in Seq(STRING)
  <2>1. \A k \in 0 .. N : v[k] \in Seq(STRING)
    BY <1>1 DEF HistoryIs
  <2>2. e - 1 \in 0 .. N /\ \A k \in d .. N : k \in 0 .. N
    BY <1>10
  <2> QED
    BY <1>16, <2>1, <2>2
<1>19. w = [k \in d .. N |-> IF k = d THEN file[k].value
                             ELSE w[k - 1] \o IF k \in later THEN file[k].value ELSE <<>>]
  <2>1. ASSUME NEW k \in d .. N
        PROVE  w[k] = IF k = d THEN file[k].value
                      ELSE w[k - 1] \o IF k \in later THEN file[k].value ELSE <<>>
    <3>1. CASE k = d
      BY <1>10, <1>13, <1>16, <3>1
    <3>2. CASE k # d /\ k < e
      <4>1. k \in d + 1 .. e - 1 /\ k - 1 \in d .. N /\ k - 1 < e
        BY <1>10, <3>2
      <4>2. w[k] = v[k] /\ w[k - 1] = v[k - 1]
        BY <1>16, <3>2, <4>1
      <4> QED
        BY <1>15, <3>2, <4>1, <4>2
    <3>3. CASE k # d /\ k >= e
      <4>1. k \in d + 1 .. N /\ k - 1 \in d .. N
        BY <1>10, <3>3
      <4>2. k \notin later /\ w[k] = w[k - 1]
        BY <1>17, <3>3, <4>1
      <4>3. PICK x \in Seq(STRING) : x = w[k - 1]
        BY <1>18, <4>1
      <4>4. x \o <<>> = x
        BY <4>3
      <4> QED
        BY <3>3, <4>2, <4>3, <4>4
    <3> QED
      <4>1. k < e \/ k >= e
        BY <1>10
      <4> QED
        BY <4>1, <3>1, <3>2, <3>3
  <2>2. PICK b : b = [k \in d .. N |-> IF k = d THEN file[k].value
                             ELSE w[k - 1] \o IF k \in later THEN file[k].value ELSE <<>>]
    OBVIOUS
  <2>3. \A k \in d .. N : w[k] = b[k]
    BY <2>1, <2>2
  <2>4. w = b
    BY <1>16, <2>2, <2>3
  <2> QED
    BY <2>2, <2>4
\* There is no other.
<1>20. ASSUME NEW u, u = [k \in d .. N |-> IF k = d THEN file[k].value
                             ELSE u[k - 1] \o IF k \in later THEN file[k].value ELSE <<>>]
       PROVE  u = w
  <2>1. PICK T : T = {k \in d .. N : u[k] # w[k]}
    OBVIOUS
  <2>2. ASSUME T # {} PROVE FALSE
    <3>1. T \in SUBSET Nat
      BY <1>10, <2>1
    <3>2. PICK k \in T : \A y \in T : k <= y
      BY <2>2, <3>1, LeastNat
    <3>3. k \in d .. N /\ u[k] # w[k]
      BY <2>1, <3>2
    <3>4. k # d
      BY <1>19, <1>20, <3>3
    <3>5. k - 1 \in d .. N /\ ~(k <= k - 1)
      BY <1>10, <3>3, <3>4
    <3>6. u[k - 1] = w[k - 1]
      BY <2>1, <3>2, <3>5
    <3> QED
      BY <1>19, <1>20, <3>3, <3>4, <3>6
  <2>3. \A k \in d .. N : u[k] = w[k]
    BY <2>1, <2>2
  <2>4. u = [k \in d .. N |-> u[k]] /\ w = [k \in d .. N |-> w[k]]
    BY <1>16, <1>20
  <2> QED
    BY <2>3, <2>4
<1>21. Meant(n) = w[N]
  <2> DEFINE A == {k \in 1 .. Len(file) : Within(k) /\ file[k].name = n}
             F == CHOOSE k \in A : \A j \in A : k <= j
             D == CHOOSE k \in A : (Sets(k) \/ k = F) /\ \A j \in A : Sets(j) => j <= k
             L == {k \in A : k > D /\ KeyOf(n) \in Appendable}
             V == CHOOSE u : u = [k \in D .. Len(file) |->
                      IF k = D THEN file[k].value
                      ELSE u[k - 1] \o IF k \in L THEN file[k].value ELSE <<>>]
  <2>1. Meant(n) = V[Len(file)]
    BY DEF Meant
  <2>2. A = about
    BY <1>3
  <2> HIDE DEF A
  <2>3. F = f
    BY <1>7, <2>2
  <2> HIDE DEF F
  <2>4. D = d
    BY <1>9, <2>2, <2>3
  <2> HIDE DEF D
  <2>5. L = later
    BY <1>14, <2>2, <2>4
  <2> HIDE DEF L
  <2>6. V = w
    BY <1>1, <1>19, <1>20, <2>4, <2>5
  <2> HIDE DEF V
  <2> QED
    BY <1>1, <2>1, <2>6
<1>22. w[N] = v[e - 1]
  <2>1. N \in d .. N /\ (N < e => N = e - 1)
    BY <1>1, <1>10
  <2> QED
    BY <1>16, <2>1
<1> QED
  BY <1>2, <1>21, <1>22

LEMMA ReadAsMeant == ConfigInv => ConfigMeans
<1> SUFFICES ASSUME ConfigInv, reading \in {"link", "read"}
             PROVE  /\ DOMAIN properties = Names2
                    /\ \A n \in Names2 : properties[n] = Meant(n)
                    /\ \A l \in nsLinks :
                          /\ l[2] \in {DefaultNs} \cup ToSet(ValueOf(properties, <<"additional", "namespaces">>))
                          /\ l[3] # NoValue
  BY DEF ConfigMeans
<1>1. /\ \E i, h \in 1 .. Len(file) : \E e \in h + 1 .. Len(file) + 1 :
            /\ Opens(i, h) /\ Plain(h, e) /\ PropertiesOf(h, e)
            /\ e = Len(file) + 1 \/ Header(e)
      /\ namespaces = <<DefaultNs>> \o ValueOf(properties, <<"additional", "namespaces">>)
      /\ \A l \in nsLinks : l[2] \in ToSet(namespaces) /\ l[3] # NoValue
  BY DEF ConfigInv, LinkInv
<1>2. PICK i \in 1 .. Len(file), h \in 1 .. Len(file) : \E e \in h + 1 .. Len(file) + 1 :
            /\ Opens(i, h) /\ Plain(h, e) /\ PropertiesOf(h, e)
            /\ e = Len(file) + 1 \/ Header(e)
  BY <1>1
<1>3. PICK e \in h + 1 .. Len(file) + 1 :
            /\ Opens(i, h) /\ Plain(h, e) /\ PropertiesOf(h, e)
            /\ e = Len(file) + 1 \/ Header(e)
  BY <1>2
<1>4. file \in Seq(ConfigLines)
  BY DEF ConfigInv, ConfigTypes
<1>5. PICK N \in Nat : N = Len(file)
  BY <1>4
<1>6. /\ DOMAIN properties = {file[k].name : k \in h + 1 .. e - 1}
      /\ \A n \in DOMAIN properties : \E v : HistoryIs(v, n, h) /\ properties[n] = v[e - 1]
  BY <1>3 DEF PropertiesOf
<1>7. DOMAIN properties = Names2
  <2>1. \A k \in 1 .. Len(file) : Within(k) <=> k \in h + 1 .. e - 1
    BY <1>2, <1>3, <1>4, WithinIs
  <2>2. \A k \in h + 1 .. e - 1 : k \in 1 .. Len(file)
    BY <1>2, <1>3, <1>5
  <2>3. {j \in 1 .. Len(file) : Within(j)} = h + 1 .. e - 1
    BY <2>1, <2>2
  <2> QED
    BY <1>6, <2>3 DEF Names2
<1>8. ASSUME NEW n \in Names2 PROVE properties[n] = Meant(n)
  <2>1. PICK m \in h + 1 .. e - 1 : n = file[m].name
    BY <1>6, <1>7, <1>8
  <2>2. PICK v : HistoryIs(v, n, h) /\ properties[n] = v[e - 1]
    BY <1>6, <1>7, <1>8
  <2>3. HistoryIs(v, file[m].name, h)
    BY <2>1, <2>2
  <2>4. Meant(file[m].name) = v[e - 1]
    BY <1>2, <1>3, <1>4, <2>3, MeantIs
  <2> QED
    BY <2>1, <2>2, <2>4
\* The namespaces are the default one and those the section names.
<1>9. ToSet(namespaces) \subseteq {DefaultNs} \cup ToSet(ValueOf(properties, <<"additional", "namespaces">>))
  <2>1. PICK q : q = ValueOf(properties, <<"additional", "namespaces">>)
    OBVIOUS
  <2>2. PICK n : n = <<"additional", "namespaces">>
    OBVIOUS
  <2>3. q \in Seq(STRING)
    <3>1. CASE n \in DOMAIN properties
      <4>1. PICK v : HistoryIs(v, n, h) /\ properties[n] = v[e - 1]
        BY <1>6, <3>1
      <4>2. e - 1 \in 0 .. Len(file)
        BY <1>2, <1>3, <1>5
      <4>3. v[e - 1] \in Seq(STRING)
        BY <4>1, <4>2 DEF HistoryIs
      <4> QED
        BY <2>1, <2>2, <3>1, <4>1, <4>3 DEF ValueOf
    <3>2. CASE n \notin DOMAIN properties
      <4>1. <<>> \in Seq(STRING)
        OBVIOUS
      <4> QED
        BY <2>1, <2>2, <3>2, <4>1 DEF ValueOf, NoValue
    <3> QED
      BY <3>1, <3>2
  <2>4. PICK d : d = <<DefaultNs>>
    OBVIOUS
  <2>9. PICK S : S = STRING \cup {DefaultNs}
    OBVIOUS
  <2>5. d \in Seq(S) /\ Len(d) = 1 /\ d[1] = DefaultNs
    <3>1. PICK x \in S : x = DefaultNs
      BY <2>9
    <3>2. d = <<x>>
      BY <2>4, <3>1
    <3>3. <<x>> \in Seq(S) /\ Len(<<x>>) = 1 /\ <<x>>[1] = x
      OBVIOUS
    <3> QED
      BY <3>1, <3>2, <3>3
  <2>10. q \in Seq(S)
    <3>1. PICK U : U = STRING
      OBVIOUS
    <3>2. q \in Seq(U) /\ U \subseteq S
      BY <2>3, <2>9, <3>1
    <3>3. \A j \in 1 .. Len(q) : q[j] \in U
      BY <3>2
    <3>4. \A j \in 1 .. Len(q) : q[j] \in S
      BY <3>2, <3>3
    <3> QED
      BY <3>2, <3>4
  <2>6. /\ d \o q \in Seq(S) /\ Len(d \o q) = Len(d) + Len(q)
        /\ \A j \in 1 .. Len(d) + Len(q) : (d \o q)[j] = IF j <= Len(d) THEN d[j] ELSE q[j - Len(d)]
    BY <2>5, <2>10, ConcatProperties
  <2>7. namespaces = d \o q
    BY <1>1, <2>1, <2>4
  <2>8. ASSUME NEW x \in ToSet(namespaces) PROVE x = DefaultNs \/ x \in ToSet(q)
    <3>1. PICK j \in 1 .. 1 + Len(q) : x = (d \o q)[j]
      BY <2>5, <2>6, <2>7, <2>8 DEF ToSet
    <3>2. CASE j = 1
      BY <2>5, <2>6, <3>1, <3>2
    <3>3. CASE j # 1
      <4>1. Len(q) \in Nat
        BY <2>3
      <4>2. j - 1 \in 1 .. Len(q) /\ x = q[j - 1]
        BY <2>5, <2>6, <3>1, <3>3, <4>1
      <4> QED
        BY <2>3, <4>2 DEF ToSet
    <3> QED
      BY <3>2, <3>3
  <2> QED
    BY <2>1, <2>8
<1> QED
  BY <1>1, <1>7, <1>8, <1>9

-----------------------------------------------------------------------------

\* Every part that is ported from bionic does what it is for: whenever the
\* state of r_debug is consistent the debugger meets the libraries in the order
\* of their loads and back, a regular value of the CFI shadow leads to the check
\* function of the library at the address, and a configuration that was read
\* means what its one section says (gdb_support.rs, cfi.rs, linker_config.rs).
THEOREM BionicPortStaysSound == GdbSpec /\ CfiSpec /\ ConfigSpec => []BionicPortSound
<1>1. GdbInv /\ CfiInv /\ ConfigInv => BionicPortSound
  BY DebuggerMeetsAll, ChecksReach, ReadAsMeant DEF BionicPortSound
<1> QED
  BY <1>1, GdbInvariant, CfiInvariant, ConfigInvariant, PTL
=============================================================================
