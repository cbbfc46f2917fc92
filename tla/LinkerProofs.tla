---------------------------- MODULE LinkerProofs ----------------------------
(***************************************************************************)
(* Theorems about Linker for every set of threads, files and calls: the    *)
(* handles it gives out, and the addresses that lead into its images.      *)
(***************************************************************************)
EXTENDS Linker, FiniteSetTheorems, TLAPS

-----------------------------------------------------------------------------
(* The inductive invariant. *)

\* A load in flight is not registered.  The loads of one thread are nested: each
\* was allocated after its parent, and there is none between the two, so the
\* innermost one is the newest.
LoadsNested ==
    /\ DOMAIN loading \cap Libs = {}
    /\ \A t \in Threads : cur[t] # NoLoad =>
          /\ cur[t] \in DOMAIN loading
          /\ loading[cur[t]].thread = t
    /\ \A h \in DOMAIN loading : LET p == loading[h].parent IN
          /\ h <= cur[loading[h].thread]
          /\ p # NoLoad => p \in DOMAIN loading /\ p < h /\ loading[p].thread = loading[h].thread
          /\ \A k \in DOMAIN loading :
               loading[k].thread = loading[h].thread /\ k < h => k <= p

\* Where a thread is fixes what its other fields mean.
PcMeaning ==
    \A t \in Threads :
        /\ pc[t] \in {"deps", "link", "ctor"} => cur[t] # NoLoad
        /\ pc[t] = "open" => req[t].name \in Names
        /\ pc[t] = "close" => arg[t] \in Handles

\* The registry part of the invariant.
RegistryInv == TypeOK /\ LoadsNested /\ PcMeaning /\ NamesLive

\* The threads about to close a handle give up different references of it.
CloseCovered == \A h \in Handles : Cardinality(Closers(h)) <= owners[h]

HandleInv == RegistryInv /\ CloseCovered

-----------------------------------------------------------------------------
(* Facts about the data the steps build. *)

LEMMA NoReqType == NoReq \in RequestType /\ NoReq.ext = Empty
<1>1. Empty \in [{} -> {Launcher, Dispatch}]
  BY DEF Empty
<1>2. Empty \in Exts
  BY <1>1 DEF Exts, Partial
<1> QED
  BY <1>2 DEF NoReq, Request, RequestType

LEMMA AllType ==
    ASSUME NEW S \in SUBSET Syms, NEW a \in {Launcher, Dispatch}
    PROVE  All(S, a) \in Exts
<1>1. All(S, a) \in [S -> {Launcher, Dispatch}]
  BY DEF All
<1> QED
  BY <1>1 DEF Exts, Partial

LEMMA OverlayType ==
    ASSUME NEW f \in Exts, NEW g \in Exts
    PROVE  Overlay(f, g) \in Exts
<1>1. PICK R \in SUBSET Syms : f \in [R -> {Launcher, Dispatch}]
  BY DEF Exts, Partial
<1>2. PICK S \in SUBSET Syms : g \in [S -> {Launcher, Dispatch}]
  BY DEF Exts, Partial
<1>3. Overlay(f, g) \in [R \cup S -> {Launcher, Dispatch}]
  BY <1>1, <1>2 DEF Overlay
<1> QED
  BY <1>3 DEF Exts, Partial

-----------------------------------------------------------------------------
(* One lemma per step of a load. *)

LEMMA OpenAgainKeeps ==
    ASSUME NEW t \in Threads, RegistryInv, OpenAgain(t)
    PROVE  RegistryInv'
<1> DEFINE h == byName[req[t].name]
<1>0. h \in Libs /\ h \in Handles
  BY DEF RegistryInv, TypeOK, RegistryTypes, OpenAgain, Registered
<1>1. RegistryTypes'
  <2>1. \A k \in Libs : byHandle'[k] \in LibraryType
    BY <1>0 DEF RegistryInv, TypeOK, RegistryTypes, OpenAgain, Libs, LibraryType
  <2>2. owners' \in [Handles -> Nat]
    BY <1>0 DEF RegistryInv, TypeOK, RegistryTypes, OpenAgain, Credit
  <2>3. Libs' = Libs /\ Handles' = Handles
    BY DEF OpenAgain, Libs, Handles
  <2> QED
    BY <2>1, <2>2, <2>3 DEF RegistryInv, TypeOK, RegistryTypes, OpenAgain
<1>2. LoadTypes'
  BY DEF RegistryInv, TypeOK, LoadTypes, OpenAgain, Handles
<1>3. ThreadTypes'
  BY NoReqType DEF RegistryInv, TypeOK, ThreadTypes, OpenAgain, Return, Goto, PcType
<1>4. LockTypes'
  BY DEF RegistryInv, TypeOK, LockTypes, OpenAgain, WriteSection
<1>5. LoadsNested'
  BY DEF RegistryInv, LoadsNested, OpenAgain, Libs
<1>6. PcMeaning'
  BY DEF RegistryInv, TypeOK, ThreadTypes, PcMeaning, OpenAgain, Return, Goto, Handles
<1>7. NamesLive'
  BY DEF RegistryInv, NamesLive, OpenAgain, Libs
<1> QED
  BY <1>1, <1>2, <1>3, <1>4, <1>5, <1>6, <1>7 DEF RegistryInv, TypeOK

LEMMA OpenStubKeeps ==
    ASSUME NEW t \in Threads, RegistryInv, OpenStub(t)
    PROVE  RegistryInv'
<1>1. RegistryTypes'
  <2>1. req[t].name \in Names /\ req[t].ext \in Exts
    BY DEF RegistryInv, TypeOK, ThreadTypes, PcMeaning, OpenStub, RequestType
  <2>2. [refs |-> 1, stub |-> TRUE, ext |-> req[t].ext] \in LibraryType
    BY <2>1 DEF LibraryType
  <2>3. Libs' \subseteq Handles' /\ \A h \in Libs' : byHandle'[h] \in LibraryType
    BY <2>2 DEF RegistryInv, TypeOK, RegistryTypes, OpenStub, Insert, Libs, Handles
  <2>4. owners' \in [Handles' -> Nat]
    BY DEF RegistryInv, TypeOK, RegistryTypes, OpenStub, Insert, Credit, Handles
  <2>5. DOMAIN byName' \subseteq Names
    BY <2>1 DEF RegistryInv, TypeOK, RegistryTypes, OpenStub, Insert
  <2>6. nextHandle' \in Nat \ {0} /\ relocErr' \in BOOLEAN
    BY DEF RegistryInv, TypeOK, RegistryTypes, OpenStub
  <2> QED
    BY <2>3, <2>4, <2>5, <2>6 DEF RegistryTypes
<1>2. LoadTypes'
  BY DEF RegistryInv, TypeOK, LoadTypes, RegistryTypes, OpenStub, Handles
<1>3. ThreadTypes'
  BY NoReqType DEF RegistryInv, TypeOK, ThreadTypes, OpenStub, Return, Goto, PcType
<1>4. LockTypes'
  BY DEF RegistryInv, TypeOK, LockTypes, OpenStub, WriteSection
<1>5. LoadsNested'
  BY DEF RegistryInv, TypeOK, LoadTypes, RegistryTypes, LoadsNested, OpenStub, Libs, Handles, Insert
<1>6. PcMeaning'
  BY DEF RegistryInv, TypeOK, RegistryTypes, ThreadTypes, PcMeaning, OpenStub, Return, Goto, Handles
<1>7. NamesLive'
  BY DEF RegistryInv, NamesLive, OpenStub, Libs, Insert
<1> QED
  BY <1>1, <1>2, <1>3, <1>4, <1>5, <1>6, <1>7 DEF RegistryInv, TypeOK

LEMMA OpenElfKeeps ==
    ASSUME NEW t \in Threads, RegistryInv, OpenElf(t)
    PROVE  RegistryInv'
<1> DEFINE n == req[t].name
<1>1. RegistryTypes'
  BY DEF RegistryInv, TypeOK, RegistryTypes, OpenElf, Insert, Libs, Handles
<1>2. LoadTypes'
  <2>1. n \in Elf /\ Needed[n] \in Seq(Names) /\ req[t].ext \in Exts /\ req[t].ctors \in BOOLEAN
        /\ cur[t] \in Nat
    BY FilesAssumption DEF RegistryInv, TypeOK, ThreadTypes, OpenElf, RequestType
  <2>2. [thread |-> t, name |-> n, parent |-> cur[t], todo |-> Needed[n],
         ext |-> req[t].ext, ctors |-> req[t].ctors] \in LoadType
    BY <2>1 DEF LoadType
  <2>3. IsImage([file |-> n, ctors |-> req[t].ctors, linked |-> FALSE,
                 got |-> Empty, bound |-> FALSE, inits |-> 0])
    BY <2>1 DEF IsImage, Empty
  <2>4. DOMAIN images' \subseteq Handles' /\ \A h \in DOMAIN images' : IsImage(images'[h])
    BY <2>3 DEF RegistryInv, TypeOK, RegistryTypes, LoadTypes, OpenElf, Insert, Handles
  <2>5. DOMAIN loading' \subseteq DOMAIN images' /\ \A h \in DOMAIN loading' : loading'[h] \in LoadType
    BY <2>2 DEF RegistryInv, TypeOK, RegistryTypes, LoadTypes, OpenElf, Insert, Handles
  <2> QED
    BY <2>4, <2>5 DEF LoadTypes
<1>3. ThreadTypes'
  BY NoReqType DEF RegistryInv, TypeOK, RegistryTypes, ThreadTypes, OpenElf, Goto, PcType
<1>4. LockTypes'
  BY DEF RegistryInv, TypeOK, LockTypes, OpenElf, DropForDependencies, WriteSection
<1>5. LoadsNested'
  <2> DEFINE h == nextHandle
             f == [thread |-> t, name |-> n, parent |-> cur[t], todo |-> Needed[n],
                   ext |-> req[t].ext, ctors |-> req[t].ctors]
  <2>0. /\ h \in Nat \ {0} /\ DOMAIN loading \cup Libs \subseteq Handles
        /\ \A u \in Threads : cur[u] \in Nat
    <3>1. h \in Nat \ {0} /\ Libs \subseteq Handles
      BY DEF RegistryInv, TypeOK, RegistryTypes
    <3>2. DOMAIN loading \subseteq Handles
      BY DEF RegistryInv, TypeOK, LoadTypes
    <3>3. \A u \in Threads : cur[u] \in Nat
      BY DEF RegistryInv, TypeOK, ThreadTypes
    <3> QED
      BY <3>1, <3>2, <3>3
  <2>1. /\ h \in Nat \ {0} /\ \A k \in DOMAIN loading \cup Libs : k \in Nat /\ k < h
        /\ \A u \in Threads : cur[u] \in Nat
    BY <2>0 DEF Handles
  <2>2. /\ DOMAIN loading' = DOMAIN loading \cup {h} /\ Libs' = Libs
        /\ loading'[h] = f /\ \A k \in DOMAIN loading : loading'[k] = loading[k]
    BY <2>1 DEF OpenElf, Insert, Libs
  <2>3. cur'[t] = h /\ \A u \in Threads \ {t} : cur'[u] = cur[u]
    BY DEF RegistryInv, TypeOK, ThreadTypes, OpenElf
  <2>4. f.thread = t /\ f.parent = cur[t]
    OBVIOUS
  <2>5. DOMAIN loading' \cap Libs' = {}
    BY <2>1, <2>2 DEF RegistryInv, LoadsNested
  <2>6. ASSUME NEW u \in Threads, cur'[u] # NoLoad
        PROVE  cur'[u] \in DOMAIN loading' /\ loading'[cur'[u]].thread = u
    BY <2>1, <2>2, <2>3, <2>4, <2>6 DEF RegistryInv, LoadsNested
  <2>7. ASSUME NEW k \in DOMAIN loading'
        PROVE  LET p == loading'[k].parent IN
                 /\ k <= cur'[loading'[k].thread]
                 /\ p # NoLoad => p \in DOMAIN loading' /\ p < k
                                  /\ loading'[p].thread = loading'[k].thread
                 /\ \A j \in DOMAIN loading' :
                      loading'[j].thread = loading'[k].thread /\ j < k => j <= p
    <3>1. CASE k = h
      BY <3>1, <2>1, <2>2, <2>3, <2>4 DEF RegistryInv, LoadsNested
    <3>2. CASE k # h
      <4>1. k \in DOMAIN loading /\ loading'[k] = loading[k] /\ k < h /\ loading[k].thread \in Threads
        BY <3>2, <2>1, <2>2, <2>7 DEF RegistryInv, TypeOK, LoadTypes, LoadType
      <4>2. k <= cur'[loading'[k].thread]
        BY <4>1, <2>1, <2>3 DEF RegistryInv, LoadsNested
      <4> QED
        BY <4>1, <4>2, <2>1, <2>2, <2>4 DEF RegistryInv, LoadsNested
    <3> QED
      BY <3>1, <3>2
  <2> QED
    BY <2>5, <2>6, <2>7 DEF LoadsNested
<1>6. PcMeaning'
  BY DEF RegistryInv, TypeOK, RegistryTypes, ThreadTypes, PcMeaning, OpenElf, Goto, Handles, NoLoad
<1>7. NamesLive'
  BY DEF RegistryInv, NamesLive, OpenElf, Libs
<1> QED
  BY <1>1, <1>2, <1>3, <1>4, <1>5, <1>6, <1>7 DEF RegistryInv, TypeOK

LEMMA FinishKeeps ==
    ASSUME NEW t \in Threads, RegistryInv, Finish(t)
    PROVE  RegistryInv'
<1> DEFINE h == cur[t]
<1>0. /\ h \in DOMAIN loading /\ h \in DOMAIN images /\ h \in Handles
      /\ loading[h] \in LoadType /\ IsImage(images[h])
  BY DEF RegistryInv, TypeOK, LoadTypes, LoadsNested, PcMeaning, Finish
<1>1. RegistryTypes'
  <2>1. [refs |-> 1, stub |-> FALSE, ext |-> loading[h].ext] \in LibraryType
    BY <1>0 DEF LibraryType, LoadType
  <2>2. Libs' \subseteq Handles' /\ \A k \in Libs' : byHandle'[k] \in LibraryType
    BY <1>0, <2>1 DEF RegistryInv, TypeOK, RegistryTypes, Finish, Insert, Libs, Handles
  <2>3. owners' \in [Handles' -> Nat]
    BY <1>0 DEF RegistryInv, TypeOK, RegistryTypes, Finish, Credit, Handles
  <2>4. DOMAIN byName' \subseteq Names
    BY <1>0, FilesAssumption
    DEF RegistryInv, TypeOK, RegistryTypes, Finish, Overlay, All, LoadType
  <2> QED
    BY <2>2, <2>3, <2>4 DEF RegistryInv, TypeOK, RegistryTypes, Finish
<1>2. LoadTypes'
  BY <1>0 DEF RegistryInv, TypeOK, LoadTypes, Finish, Keep, Handles, IsImage
<1>3. ThreadTypes'
  BY <1>0, NoReqType DEF RegistryInv, TypeOK, ThreadTypes, Finish, Return, Goto, PcType, LoadType
<1>4. LockTypes'
  BY DEF RegistryInv, TypeOK, LockTypes, Finish
<1>5. LoadsNested'
  <2> DEFINE p == loading[h].parent
  <2>1. /\ \A k \in DOMAIN loading : k \in Nat /\ loading[k].thread \in Threads
        /\ \A u \in Threads : cur[u] \in Nat
        /\ loading[h].thread = t /\ p \in Nat
    BY <1>0 DEF RegistryInv, TypeOK, RegistryTypes, LoadTypes, ThreadTypes, Handles, LoadType,
                LoadsNested, PcMeaning, Finish
  <2>2. /\ DOMAIN loading' = DOMAIN loading \ {h} /\ Libs' = Libs \cup {h}
        /\ \A k \in DOMAIN loading' : loading'[k] = loading[k]
    BY DEF Finish, Insert, Keep, Libs
  <2>3. cur'[t] = p /\ \A u \in Threads \ {t} : cur'[u] = cur[u]
    BY DEF RegistryInv, TypeOK, ThreadTypes, Finish
  <2>4. p # NoLoad => p \in DOMAIN loading' /\ loading[p].thread = t
    BY <1>0, <2>1, <2>2 DEF RegistryInv, LoadsNested
  <2>5. DOMAIN loading' \cap Libs' = {}
    BY <2>2 DEF RegistryInv, LoadsNested
  <2>6. ASSUME NEW u \in Threads, cur'[u] # NoLoad
        PROVE  cur'[u] \in DOMAIN loading' /\ loading'[cur'[u]].thread = u
    BY <2>1, <2>2, <2>3, <2>4, <2>6 DEF RegistryInv, LoadsNested
  <2>7. ASSUME NEW k \in DOMAIN loading'
        PROVE  LET q == loading'[k].parent IN
                 /\ k <= cur'[loading'[k].thread]
                 /\ q # NoLoad => q \in DOMAIN loading' /\ q < k
                                  /\ loading'[q].thread = loading'[k].thread
                 /\ \A j \in DOMAIN loading' :
                      loading'[j].thread = loading'[k].thread /\ j < k => j <= q
    <3>1. k \in DOMAIN loading /\ k # h /\ loading'[k] = loading[k] /\ k \in Nat
          /\ loading[k].thread \in Threads
      BY <2>1, <2>2, <2>7
    <3>2. k <= cur'[loading'[k].thread]
      <4>1. CASE loading[k].thread = t
        <5>1. k < h
          BY <1>0, <2>1, <3>1, <4>1 DEF RegistryInv, LoadsNested
        <5> QED
          BY <1>0, <2>1, <2>3, <3>1, <4>1, <5>1 DEF RegistryInv, LoadsNested
      <4>2. CASE loading[k].thread # t
        BY <2>3, <3>1, <4>2 DEF RegistryInv, LoadsNested
      <4> QED
        BY <4>1, <4>2
    <3>3. loading[k].parent # h
      <4> SUFFICES ASSUME loading[k].parent = h PROVE FALSE
        OBVIOUS
      <4>1. h < k /\ loading[k].thread = t
        BY <1>0, <2>1, <3>1 DEF RegistryInv, LoadsNested, TypeOK, RegistryTypes, Handles, NoLoad
      <4>2. k <= h
        BY <3>1, <4>1 DEF RegistryInv, LoadsNested
      <4> QED
        BY <1>0, <3>1, <4>1, <4>2 DEF Handles
    <3> QED
      BY <2>2, <3>1, <3>2, <3>3 DEF RegistryInv, LoadsNested
  <2> QED
    BY <2>5, <2>6, <2>7 DEF LoadsNested
<1>6. PcMeaning'
  BY SMTT(30) DEF RegistryInv, TypeOK, RegistryTypes, ThreadTypes, PcMeaning, Finish, Return, Goto, Handles
<1>7. NamesLive'
  BY DEF RegistryInv, NamesLive, Finish, Libs, Insert, Overlay, All
<1> QED
  BY <1>1, <1>2, <1>3, <1>4, <1>5, <1>6, <1>7 DEF RegistryInv, TypeOK

LEMMA DependencyKeeps ==
    ASSUME NEW t \in Threads, RegistryInv, SkipDep(t) \/ LoadDep(t)
    PROVE  RegistryInv'
<1> DEFINE h == cur[t]
<1>0. /\ h \in DOMAIN loading /\ loading[h] \in LoadType /\ loading[h].todo # <<>>
      /\ Head(loading[h].todo) \in Names /\ Tail(loading[h].todo) \in Seq(Names)
  <2>1. h \in DOMAIN loading /\ loading[h] \in LoadType /\ loading[h].todo # <<>>
    BY DEF RegistryInv, TypeOK, LoadTypes, LoadsNested, PcMeaning, SkipDep, LoadDep
  <2> QED
    BY <2>1 DEF LoadType
<1>1. loading' = [loading EXCEPT ![h].todo = Tail(@)]
  BY DEF SkipDep, LoadDep
<1>2. RegistryTypes' /\ LockTypes' /\ NamesLive' /\ Libs' = Libs /\ cur' = cur
  BY DEF RegistryInv, TypeOK, RegistryTypes, LockTypes, NamesLive, SkipDep, LoadDep, regVars,
         lockVars, Libs, Handles
<1>3. LoadTypes'
  <2>1. images' = images /\ Handles' = Handles /\ DOMAIN loading' = DOMAIN loading
    BY <1>1 DEF SkipDep, LoadDep, regVars, Handles
  <2>2. \A k \in DOMAIN loading' : loading'[k] \in LoadType
    BY <1>0, <1>1 DEF RegistryInv, TypeOK, LoadTypes, LoadType
  <2> QED
    BY <2>1, <2>2 DEF RegistryInv, TypeOK, LoadTypes
<1>4. ThreadTypes'
  <2>1. Request(Head(loading[h].todo), TRUE, FALSE, loading[h].ext) \in RequestType
    BY <1>0 DEF Request, RequestType, LoadType
  <2>2. CASE SkipDep(t)
    BY <2>2 DEF RegistryInv, TypeOK, ThreadTypes, SkipDep, callVars
  <2>3. CASE LoadDep(t)
    BY <2>1, <2>3 DEF RegistryInv, TypeOK, ThreadTypes, LoadDep, Goto, PcType
  <2> QED
    BY <2>2, <2>3
<1>5. LoadsNested'
  BY <1>0, <1>1, <1>2 DEF RegistryInv, TypeOK, LoadTypes, LoadsNested, LoadType
<1>6. PcMeaning'
  BY <1>0, <1>2 DEF RegistryInv, TypeOK, ThreadTypes, PcMeaning, SkipDep, LoadDep, regVars, callVars,
                    Goto, Handles, Request
<1> QED
  BY <1>2, <1>3, <1>4, <1>5, <1>6 DEF RegistryInv, TypeOK

LEMMA LinkKeeps ==
    ASSUME NEW t \in Threads, RegistryInv, Link(t)
    PROVE  RegistryInv'
<1> DEFINE h == cur[t]
           found == {s \in Imports[images[h].file] : Candidates(h, loading[h].ext, s) # {}}
<1>0. h \in DOMAIN images /\ IsImage(images[h])
  BY SMTT(30) DEF RegistryInv, TypeOK, LoadTypes, LoadsNested, PcMeaning, Link
<1>1. RegistryTypes' /\ LockTypes' /\ NamesLive' /\ LoadsNested'
  BY DEF RegistryInv, TypeOK, RegistryTypes, LockTypes, NamesLive, LoadsNested, Link, loadVars,
         Libs, Handles
<1>2. LoadTypes'
  <2>1. PICK got : /\ DOMAIN got = found
                   /\ images' = [images EXCEPT ![h].got = got, ![h].linked = TRUE,
                                     ![h].bound = (found = Imports[images[h].file])]
    BY DEF Link
  <2>2. found \subseteq Syms
    BY <1>0, FilesAssumption DEF IsImage
  <2>3. DOMAIN images' = DOMAIN images /\ \A k \in DOMAIN images' : IsImage(images'[k])
    BY <1>0, <2>1, <2>2 DEF RegistryInv, TypeOK, LoadTypes, IsImage
  <2> QED
    BY <2>3, ZenonT(60) DEF RegistryInv, TypeOK, LoadTypes, Link, loadVars, Handles
<1>3. ThreadTypes'
  BY DEF RegistryInv, TypeOK, ThreadTypes, Link, loadVars, Goto, PcType
<1>4. PcMeaning'
  BY DEF RegistryInv, TypeOK, ThreadTypes, PcMeaning, Link, loadVars, Goto, Handles
<1> QED
  BY <1>1, <1>2, <1>3, <1>4 DEF RegistryInv, TypeOK

LEMMA LoadStepKeeps ==
    ASSUME NEW t \in Threads, RegistryInv, LoadStep(t)
    PROVE  RegistryInv'
<1>1. CASE DepsDone(t)
  BY <1>1 DEF RegistryInv, TypeOK, RegistryTypes, LoadTypes, ThreadTypes, LockTypes, LoadsNested,
              PcMeaning, NamesLive, DepsDone, regVars, loadVars, lockVars, Goto, PcType, Libs, Handles
<1>2. CASE AfterLoad(t)
  BY <1>2 DEF RegistryInv, TypeOK, RegistryTypes, LoadTypes, ThreadTypes, LockTypes, LoadsNested,
              PcMeaning, NamesLive, AfterLoad, WriteSection, Goto, PcType, Libs, Handles
<1> QED
  BY <1>1, <1>2, OpenAgainKeeps, OpenStubKeeps, OpenElfKeeps, DependencyKeeps, LinkKeeps, FinishKeeps
  DEF LoadStep

-----------------------------------------------------------------------------
(* The other steps inside a call. *)

\* A thread that closes a handle owns a reference to it.
LEMMA CloserOwns ==
    ASSUME NEW t \in Threads, HandleInv, pc[t] = "close"
    PROVE  arg[t] \in Handles /\ owners[arg[t]] >= 1
<1> DEFINE h == arg[t]
<1>1. h \in Handles /\ owners[h] \in Nat
  BY DEF HandleInv, RegistryInv, PcMeaning, TypeOK, RegistryTypes
<1>2. IsFiniteSet(Closers(h))
  BY ThreadsAssumption, FS_Subset DEF Closers
<1>3. Closers(h) # {}
  BY DEF Closers
<1>4. Cardinality(Closers(h)) \in Nat /\ Cardinality(Closers(h)) # 0
  BY <1>2, <1>3, FS_EmptySet, FS_CardinalityType
<1> QED
  BY <1>1, <1>4 DEF HandleInv, CloseCovered

LEMMA CloseKeeps ==
    ASSUME NEW t \in Threads, HandleInv, Close(t)
    PROVE  RegistryInv'
<1> DEFINE h == arg[t]
<1>1. RegistryTypes'
  <2>1. Libs' \subseteq Libs /\ \A k \in Libs' : byHandle'[k] \in LibraryType
    BY DEF HandleInv, RegistryInv, TypeOK, RegistryTypes, Close, Shared, NamesForgotten, Keep, Libs, LibraryType
  <2>2. owners' \in [Handles -> Nat]
    BY CloserOwns DEF HandleInv, RegistryInv, TypeOK, RegistryTypes, Close
  <2>3. DOMAIN byName' \subseteq DOMAIN byName
    BY DEF Close, NamesForgotten, Keep
  <2> QED
    BY <2>1, <2>2, <2>3 DEF HandleInv, RegistryInv, TypeOK, RegistryTypes, Close, Handles
<1>2. LoadTypes' /\ LockTypes'
  BY DEF HandleInv, RegistryInv, TypeOK, LoadTypes, LockTypes, Close, WriteSection, loadVars, Handles
<1>3. ThreadTypes'
  BY DEF HandleInv, RegistryInv, TypeOK, ThreadTypes, Close, loadVars, Goto, PcType, NoLoad
<1>4. LoadsNested'
  <2>1. Libs' \subseteq Libs
    BY DEF Close, NamesForgotten, Keep, Libs
  <2> QED
    BY <2>1 DEF HandleInv, RegistryInv, LoadsNested, Close, loadVars
<1>5. PcMeaning'
  BY DEF HandleInv, RegistryInv, TypeOK, ThreadTypes, PcMeaning, Close, loadVars, Goto, Handles
<1>6. NamesLive'
  BY DEF HandleInv, RegistryInv, NamesLive, Close, NamesForgotten, Keep, Libs
<1> QED
  BY <1>1, <1>2, <1>3, <1>4, <1>5, <1>6 DEF RegistryInv, TypeOK

LEMMA AddSymbolsKeeps ==
    ASSUME NEW t \in Threads, RegistryInv, AddSymbols(t)
    PROVE  RegistryInv'
<1>1. \A k \in Libs : byHandle'[k] \in LibraryType
  <2>1. All(Hooks, Launcher) \in Exts
    BY AllType, FilesAssumption
  <2>2. \A k \in Libs : byHandle[k] \in LibraryType
    BY DEF RegistryInv, TypeOK, RegistryTypes
  <2>3. \A k \in Libs : Overlay(byHandle[k].ext, All(Hooks, Launcher)) \in Exts
    BY <2>1, <2>2, OverlayType DEF LibraryType
  <2> QED
    BY <2>2, <2>3 DEF AddSymbols, LibraryType
<1>2. RegistryTypes' /\ NamesLive' /\ Libs' = Libs
  BY <1>1 DEF RegistryInv, TypeOK, RegistryTypes, NamesLive, AddSymbols, Libs, Handles
<1>3. LoadTypes' /\ LockTypes' /\ LoadsNested'
  BY <1>2 DEF RegistryInv, TypeOK, LoadTypes, LockTypes, LoadsNested, AddSymbols, WriteSection,
              loadVars, Handles
<1>4. ThreadTypes' /\ PcMeaning'
  BY DEF RegistryInv, TypeOK, ThreadTypes, PcMeaning, AddSymbols, loadVars, Goto, PcType, NoLoad,
         Handles
<1> QED
  BY <1>2, <1>3, <1>4 DEF RegistryInv, TypeOK

LEMMA StepKeeps ==
    ASSUME NEW t \in Threads, HandleInv, Step(t)
    PROVE  RegistryInv'
<1> USE DEF HandleInv
<1>1. CASE Queue(t)
  BY <1>1 DEF RegistryInv, TypeOK, RegistryTypes, LoadTypes, ThreadTypes, LockTypes, LoadsNested,
              PcMeaning, NamesLive, Queue, regVars, loadVars, callVars, Libs, Handles
<1>2. CASE DlsymGlobal(t)
  BY <1>2 DEF RegistryInv, TypeOK, RegistryTypes, LoadTypes, ThreadTypes, LockTypes, LoadsNested,
              PcMeaning, NamesLive, DlsymGlobal, regVars, loadVars, Goto, PcType, Libs, Handles
<1>3. CASE RunInit(t)
  <2>1. DOMAIN images' = DOMAIN images /\ \A k \in DOMAIN images' : IsImage(images'[k])
    BY <1>3 DEF RegistryInv, TypeOK, LoadTypes, RunInit, IsImage
  <2>2. LoadTypes'
    BY <1>3, <2>1 DEF RegistryInv, TypeOK, LoadTypes, RunInit, Handles
  <2>3. ThreadTypes' /\ PcMeaning'
    BY <1>3, NoReqType DEF RegistryInv, TypeOK, ThreadTypes, PcMeaning, RunInit, Goto, PcType, Handles
  <2> QED
    BY <1>3, <2>2, <2>3
    DEF RegistryInv, TypeOK, RegistryTypes, LockTypes, LoadsNested, NamesLive, RunInit, lockVars,
        Libs, Handles
<1> QED
  BY <1>1, <1>2, <1>3, LoadStepKeeps, CloseKeeps, AddSymbolsKeeps DEF Step

-----------------------------------------------------------------------------
(* New calls. *)

LEMMA CallKeeps ==
    ASSUME NEW t \in Threads, RegistryInv, Call(t)
    PROVE  RegistryInv'
<1>1. UNCHANGED <<byHandle, byName, globals, nextHandle, relocErr, images, loading, cur, owners>>
  BY DEF Call, CallOpen, CallFmod, CallSqlite, CallClose, CallModHook, CallAdd, DlsymOwn, CallInit,
         regVars, loadVars
<1>2. RegistryTypes' /\ LoadTypes' /\ LoadsNested' /\ NamesLive'
  BY <1>1 DEF RegistryInv, TypeOK, RegistryTypes, LoadTypes, LoadsNested, NamesLive, Libs, Handles
<1>3. LockTypes'
  BY DEF RegistryInv, TypeOK, LockTypes, Call, CallOpen, CallFmod, CallSqlite, CallClose,
         CallModHook, CallAdd, DlsymOwn, CallInit, lockVars
<1>4. ThreadTypes' /\ PcMeaning'
  <2>1. CASE \E r \in Requests : CallOpen(t, r)
    <3>1. PICK r \in Requests : CallOpen(t, r)
      BY <2>1
    <3>2. r \in RequestType /\ r.name \in Names
      <4>1. PICK n \in Names, ctors \in BOOLEAN, stub \in BOOLEAN, S \in {{}, Hooks} :
               r = Request(n, ctors, stub, All(S, Launcher))
        BY DEF Requests
      <4>2. S \in SUBSET Syms
        BY FilesAssumption
      <4>3. All(S, Launcher) \in Exts
        BY <4>2, AllType
      <4> QED
        BY <4>1, <4>3 DEF Request, RequestType
    <3> QED
      BY <1>1, <3>1, <3>2 DEF RegistryInv, TypeOK, ThreadTypes, PcMeaning, CallOpen, Begin, Goto,
                              PcType, Handles, lockVars
  <2>2. CASE \E n \in FmodNames : CallFmod(t, n)
    <3>1. PICK n \in FmodNames : CallFmod(t, n)
      BY <2>2
    <3>2. Request(n, TRUE, FALSE, All(DlSyms, Dispatch)) \in RequestType /\ n \in Names
      BY AllType, FilesAssumption DEF Request, RequestType
    <3> QED
      BY <1>1, <3>1, <3>2 DEF RegistryInv, TypeOK, ThreadTypes, PcMeaning, CallFmod, Begin, Goto,
                              PcType, Handles, Request
  <2>3. CASE \E n \in SqliteNames : CallSqlite(t, n)
    <3>1. PICK n \in SqliteNames : CallSqlite(t, n)
      BY <2>3
    <3>2. Request(n, FALSE, FALSE, Empty) \in RequestType /\ n \in Names
      BY NoReqType, FilesAssumption DEF Request, RequestType, NoReq
    <3> QED
      BY <1>1, <3>1, <3>2 DEF RegistryInv, TypeOK, ThreadTypes, PcMeaning, CallSqlite, Begin, Goto,
                              PcType, Handles, Request
  <2>4. CASE \E h \in DOMAIN owners : \/ CallClose(t, h) \/ CallModHook(t, h) \/ CallAdd(t, h)
                                      \/ \E s \in Asked : DlsymOwn(t, h, s)
    <3>1. \A h \in DOMAIN owners : h \in Handles
      BY DEF RegistryInv, TypeOK, RegistryTypes
    <3>2. \A h \in DOMAIN owners : h \in Nat
      BY <3>1 DEF Handles
    <3>3. \A n \in DOMAIN byName : byName[n] \in Nat
      <4>1. \A n \in DOMAIN byName : byName[n] \in Handles
        BY DEF RegistryInv, TypeOK, RegistryTypes, NamesLive
      <4> QED
        BY <4>1 DEF Handles
    <3> QED
      BY <1>1, <2>4, <3>1, <3>2, <3>3
      DEF RegistryInv, TypeOK, ThreadTypes, PcMeaning, CallClose, CallModHook, CallAdd, DlsymOwn,
          Begin, Goto, PcType, Handles, loadVars
  <2>5. CASE \E n \in InitNames : CallInit(t, n)
    <3>1. PICK n \in InitNames : CallInit(t, n)
      BY <2>5
    <3>2. [NoReq EXCEPT !.name = n] \in RequestType
      BY NoReqType, FilesAssumption DEF RequestType
    <3> QED
      BY <1>1, <3>1, <3>2 DEF RegistryInv, TypeOK, ThreadTypes, PcMeaning, CallInit, Begin, Goto,
                              PcType, Handles
  <2> QED
    BY <2>1, <2>2, <2>3, <2>4, <2>5 DEF Call
<1> QED
  BY <1>2, <1>3, <1>4 DEF RegistryInv, TypeOK

-----------------------------------------------------------------------------
(* The threads about to close a handle. *)

\* A step of one thread leaves the program counter and the argument of the
\* others alone.
LEMMA OtherThreads ==
    ASSUME NEW t \in Threads, RegistryInv, Call(t) \/ Step(t)
    PROVE  \A u \in Threads \ {t} : pc'[u] = pc[u] /\ arg'[u] = arg[u]
<1>1. CASE Call(t)
  BY <1>1 DEF RegistryInv, TypeOK, ThreadTypes, Call, CallOpen, CallFmod, CallSqlite, CallClose,
              CallModHook, CallAdd, DlsymOwn, CallInit, Goto
<1>2. CASE LoadStep(t)
  BY <1>2 DEF RegistryInv, TypeOK, ThreadTypes, LoadStep, OpenAgain, OpenStub, OpenElf, SkipDep,
              LoadDep, DepsDone, Link, Finish, AfterLoad, Return, Goto, callVars
<1>3. CASE Step(t) /\ ~LoadStep(t)
  BY <1>3 DEF RegistryInv, TypeOK, ThreadTypes, Step, Queue, Close, DlsymGlobal, AddSymbols, RunInit,
              Goto, callVars
<1> QED
  BY <1>1, <1>2, <1>3

\* Only the start and the end of a close change who is about to close, and
\* only the end of one lowers the number of references callers own.
LEMMA OthersKeepClosers ==
    ASSUME NEW t \in Threads, RegistryInv, Call(t) \/ Step(t),
           ~(\E h \in DOMAIN owners : CallClose(t, h)), ~(Close(t) /\ pc[t] = "close")
    PROVE  /\ pc[t] = "close" \/ pc'[t] = "close" => pc'[t] = pc[t] /\ arg'[t] = arg[t]
           /\ Handles \subseteq Handles'
           /\ \A h \in Handles : owners'[h] >= owners[h]
           /\ owners' \in [Handles' -> Nat]
<1>0. /\ owners \in [Handles -> Nat] /\ pc \in [Threads -> PcType] /\ nextHandle \in Nat \ {0}
  BY DEF RegistryInv, TypeOK, RegistryTypes, ThreadTypes
<1>a. ASSUME owners' = owners, nextHandle' = nextHandle
      PROVE  /\ Handles \subseteq Handles' /\ \A h \in Handles : owners'[h] >= owners[h]
             /\ owners' \in [Handles' -> Nat]
  BY <1>0, <1>a DEF Handles
<1>1. CASE Call(t)
  <2>1. owners' = owners /\ nextHandle' = nextHandle
    BY <1>1 DEF Call, CallOpen, CallFmod, CallSqlite, CallClose, CallModHook, CallAdd, DlsymOwn,
                CallInit, regVars
  <2>2. pc[t] = "idle"
    BY <1>1 DEF Call, CallOpen, CallFmod, CallSqlite, CallClose, CallModHook, CallAdd, DlsymOwn,
                CallInit, Begin
  <2>3. pc'[t] # "close"
    BY <1>0, <1>1 DEF Call, CallOpen, CallFmod, CallSqlite, CallModHook, CallAdd, DlsymOwn,
                      CallInit, Goto
  <2> QED
    BY <1>a, <2>1, <2>2, <2>3
<1>2. CASE LoadStep(t)
  <2>1. pc[t] # "close" /\ pc'[t] # "close"
    BY <1>2 DEF RegistryInv, TypeOK, ThreadTypes, LoadStep, OpenAgain, OpenStub, OpenElf, SkipDep,
                LoadDep, DepsDone, Link, Finish, AfterLoad, Return, Goto, callVars
  <2>2. CASE OpenAgain(t)
    <3>1. byName[req[t].name] \in Handles
      BY <2>2 DEF RegistryInv, TypeOK, RegistryTypes, OpenAgain, Registered
    <3> QED
      BY <2>1, <2>2, <3>1 DEF RegistryInv, TypeOK, RegistryTypes, OpenAgain, Credit, Handles
  <2>3. CASE OpenStub(t)
    BY <2>1, <2>3 DEF RegistryInv, TypeOK, RegistryTypes, OpenStub, Credit, Insert, Handles
  <2>4. CASE OpenElf(t)
    <3>1. owners' = Insert(owners, nextHandle, 0) /\ nextHandle' = nextHandle + 1
      BY <2>4 DEF OpenElf
    <3>2. Handles' = Handles \cup {nextHandle} /\ nextHandle \notin Handles
      BY <1>0, <3>1 DEF Handles
    <3> QED
      BY <1>0, <2>1, <3>1, <3>2 DEF Insert
  <2>5. CASE Finish(t)
    <3>1. cur[t] \in Handles
      BY <2>5 DEF RegistryInv, TypeOK, LoadTypes, LoadsNested, PcMeaning, Finish
    <3>2. owners' = Credit(owners, cur[t], loading[cur[t]].parent) /\ Handles' = Handles
      BY <2>5 DEF Finish, Handles
    <3> QED
      BY <1>0, <2>1, <3>1, <3>2 DEF Credit
  <2>6. CASE SkipDep(t) \/ LoadDep(t) \/ DepsDone(t) \/ Link(t) \/ AfterLoad(t)
    <3>1. owners' = owners /\ nextHandle' = nextHandle
      BY <2>6 DEF SkipDep, LoadDep, DepsDone, Link, AfterLoad, regVars
    <3> QED
      BY <1>a, <2>1, <3>1
  <2> QED
    BY <1>2, <2>2, <2>3, <2>4, <2>5, <2>6 DEF LoadStep
<1>3. CASE Step(t) /\ ~LoadStep(t)
  <2>1. CASE pc[t] # "close"
    <3>1. owners' = owners /\ nextHandle' = nextHandle
      BY <1>3, <2>1 DEF Step, Queue, Close, DlsymGlobal, AddSymbols, RunInit, regVars
    <3>2. pc'[t] # "close"
      BY <1>0, <1>3, <2>1 DEF Step, Queue, Close, DlsymGlobal, AddSymbols, RunInit, Goto, callVars
    <3> QED
      BY <1>a, <2>1, <3>1, <3>2
  <2>2. CASE pc[t] = "close"
    <3>1. pc' = pc /\ arg' = arg /\ owners' = owners /\ nextHandle' = nextHandle
      BY <1>3, <2>2 DEF Step, Queue, DlsymGlobal, AddSymbols, RunInit, callVars, regVars
    <3> QED
      BY <1>a, <3>1
  <2> QED
    BY <2>1, <2>2
<1> QED
  BY <1>1, <1>2, <1>3

LEMMA ClosersCovered ==
    ASSUME NEW t \in Threads, HandleInv, Call(t) \/ Step(t)
    PROVE  CloseCovered'
<1> USE DEF HandleInv
<1>0. \A h : IsFiniteSet(Closers(h)) /\ Cardinality(Closers(h)) \in Nat
  BY ThreadsAssumption, FS_Subset, FS_CardinalityType DEF Closers
<1>1. CASE \E h \in DOMAIN owners : CallClose(t, h)
  <2>1. PICK h \in DOMAIN owners : CallClose(t, h)
    BY <1>1
  <2>2. /\ owners' = owners /\ Handles' = Handles /\ h \in Handles /\ owners[h] \in Nat
        /\ Cardinality(Closers(h)) < owners[h]
    BY <1>0, <2>1 DEF CallClose, regVars, Handles, RegistryInv, TypeOK, RegistryTypes
  <2>3. t \notin Closers(h) /\ Closers(h)' = Closers(h) \cup {t}
    BY <2>1 DEF Closers, CallClose, Begin, Goto, RegistryInv, TypeOK, ThreadTypes
  <2>4. Cardinality(Closers(h)') = Cardinality(Closers(h)) + 1
    BY <1>0, <2>3, FS_AddElement
  <2>5. \A k \in Handles \ {h} : Closers(k)' = Closers(k)
    BY <2>1 DEF Closers, CallClose, Begin, Goto, RegistryInv, TypeOK, ThreadTypes
  <2> QED
    BY <1>0, <2>2, <2>4, <2>5 DEF CloseCovered
<1>2. CASE Close(t) /\ pc[t] = "close"
  <2>1. PICK h \in Handles : h = arg[t]
    BY <1>2, CloserOwns
  <2>2. /\ owners' = [owners EXCEPT ![h] = @ - 1] /\ Handles' = Handles
        /\ owners \in [Handles -> Nat]
    BY <1>2, <2>1 DEF Close, Handles, RegistryInv, TypeOK, RegistryTypes
  <2>3. pc'[t] = "idle" /\ \A u \in Threads \ {t} : pc'[u] = pc[u] /\ arg'[u] = arg[u]
    BY <1>2, OtherThreads DEF Close, Goto, RegistryInv, TypeOK, ThreadTypes
  <2>4. t \in Closers(h) /\ Closers(h)' = Closers(h) \ {t}
    BY <1>2, <2>1, <2>3 DEF Closers
  <2>5. Cardinality(Closers(h)') = Cardinality(Closers(h)) - 1
    BY <1>0, <2>4, FS_RemoveElement
  <2>6. \A k \in Handles \ {h} : Closers(k)' = Closers(k)
    BY <1>2, <2>1, <2>3 DEF Closers
  <2>7. ASSUME NEW k \in Handles
        PROVE  Cardinality(Closers(k)') <= owners'[k]
    <3>1. CASE k = h
      <4>1. Cardinality(Closers(h)) <= owners[h] /\ owners'[h] = owners[h] - 1
            /\ owners[h] \in Nat
        BY <2>2 DEF CloseCovered
      <4> QED
        BY <1>0, <2>5, <3>1, <4>1
    <3>2. CASE k # h
      BY <2>2, <2>6, <3>2 DEF CloseCovered
    <3> QED
      BY <3>1, <3>2
  <2> QED
    BY <2>2, <2>7 DEF CloseCovered
<1>3. CASE ~(\E h \in DOMAIN owners : CallClose(t, h)) /\ ~(Close(t) /\ pc[t] = "close")
  <2>1. \A h : Closers(h)' = Closers(h)
    BY <1>3, OthersKeepClosers, OtherThreads DEF Closers
  <2>2. \A h \in Handles' \ Handles : Closers(h) = {}
    BY DEF Closers, RegistryInv, PcMeaning
  <2>3. /\ \A h \in Handles : owners'[h] >= owners[h] /\ owners[h] \in Nat
        /\ \A h \in Handles' : owners'[h] \in Nat
    BY <1>3, OthersKeepClosers DEF RegistryInv, TypeOK, RegistryTypes
  <2>4. ASSUME NEW h \in Handles'
        PROVE  Cardinality(Closers(h)') <= owners'[h]
    <3>1. CASE h \in Handles
      BY <1>0, <2>1, <2>3, <3>1 DEF CloseCovered
    <3>2. CASE h \notin Handles
      BY <2>1, <2>2, <2>3, <3>2, FS_EmptySet
    <3> QED
      BY <3>1, <3>2
  <2> QED
    BY <2>4 DEF CloseCovered
<1> QED
  BY <1>1, <1>2, <1>3

-----------------------------------------------------------------------------
(* The theorems. *)

LEMMA InitHolds == Init => HandleInv
<1> SUFFICES ASSUME Init PROVE HandleInv
  OBVIOUS
<1> USE DEF Init, Empty, Libs, Handles, NoLoad
<1>a. RegistryTypes
  <2>1. Handles = {} /\ Libs = {} /\ DOMAIN byName = {}
    OBVIOUS
  <2>2. [x \in {} |-> 0] \in [{} -> Nat]
    OBVIOUS
  <2>3. owners \in [{} -> Nat]
    BY <2>2
  <2>4. nextHandle \in Nat \ {0}
    OBVIOUS
  <2>5. relocErr \in BOOLEAN
    BY Zenon
  <2> HIDE DEF Init, Handles, Libs
  <2> QED
    BY <2>1, <2>3, <2>4, <2>5 DEF RegistryTypes
<1>b. LoadTypes /\ NamesLive
  BY DEF LoadTypes, NamesLive
<1>c. LockTypes /\ LoadsNested
  BY DEF LockTypes, LoadsNested
<1>2. ThreadTypes /\ PcMeaning
  BY NoReqType DEF ThreadTypes, PcMeaning, PcType
<1>3. CloseCovered
  BY DEF CloseCovered
<1> QED
  BY <1>a, <1>b, <1>c, <1>2, <1>3 DEF HandleInv, RegistryInv, TypeOK

LEMMA StutterKeeps == HandleInv /\ UNCHANGED vars => HandleInv'
BY DEF HandleInv, RegistryInv, TypeOK, RegistryTypes, LoadTypes, ThreadTypes, LockTypes, LoadsNested,
       NamesLive, PcMeaning, CloseCovered, Closers, vars, regVars, loadVars, lockVars, callVars,
       Libs, Handles

\* Every step of every thread keeps the inductive invariant.
LEMMA NextKeeps == HandleInv /\ [Next]_vars => HandleInv'
<1> SUFFICES ASSUME HandleInv, [Next]_vars PROVE HandleInv'
  OBVIOUS
<1>1. ASSUME NEW t \in Threads, Call(t) \/ Step(t) PROVE HandleInv'
  BY <1>1, CallKeeps, StepKeeps, ClosersCovered DEF HandleInv
<1> QED
  BY <1>1, StutterKeeps DEF Next

\* The inductive invariant holds in every reachable state, for any number of
\* threads, files and calls.
THEOREM HandlesInvariant == Spec => []HandleInv
BY NextKeeps, InitHolds, PTL DEF Spec

\* Every variable keeps the shape of its Rust type, and no name ever leads to a
\* library that is not registered, in spite of the loads that release the lock.
THEOREM TypeCorrect == Spec => []TypeOK
BY HandlesInvariant, PTL DEF HandleInv, RegistryInv

\* libraries_by_name never dangles.
THEOREM NamesAlwaysLive == Spec => []NamesLive
BY HandlesInvariant, PTL DEF HandleInv, RegistryInv

-----------------------------------------------------------------------------
(* References. *)

\* The count of a registered library covers the references callers own, and no
\* one owns a reference to anything else; no mod is giving up a looked-up handle.
OwnersCounted ==
    /\ \A h \in Handles : IF h \in Libs THEN owners[h] <= byHandle[h].refs ELSE owners[h] = 0
    /\ \A t \in Threads : pc[t] # "unhook"

LEMMA OwnersStayCounted ==
    ASSUME NEW t \in Threads, LookupClosers = {}, HandleInv, OwnersCounted, Call(t) \/ Step(t)
    PROVE  OwnersCounted'
<1>0. /\ owners \in [Handles -> Nat] /\ pc \in [Threads -> PcType]
      /\ nextHandle \in Nat \ {0} /\ nextHandle \notin Handles /\ Libs \subseteq Handles
      /\ \A h \in Libs : byHandle[h] \in LibraryType
  BY DEF HandleInv, RegistryInv, TypeOK, RegistryTypes, ThreadTypes, Handles
<1>a. \A u \in Threads : pc'[u] # "unhook"
  <2>1. pc'[t] # "unhook"
    <3>1. CASE Call(t)
      BY <1>0, <3>1 DEF Call, CallOpen, CallFmod, CallSqlite, CallClose, CallModHook, CallAdd,
                        DlsymOwn, CallInit, Goto
    <3>2. CASE LoadStep(t)
      BY <1>0, <3>2 DEF OwnersCounted, LoadStep, OpenAgain, OpenStub, OpenElf, SkipDep, LoadDep,
                        DepsDone, Link, Finish, AfterLoad, Return, Goto, callVars
    <3>3. CASE Step(t) /\ ~LoadStep(t)
      BY <1>0, <3>3 DEF OwnersCounted, Step, Queue, Close, DlsymGlobal, AddSymbols, RunInit, Goto,
                        callVars
    <3> QED
      BY <3>1, <3>2, <3>3
  <2> QED
    BY <2>1, OtherThreads DEF HandleInv, OwnersCounted
<1>b. ASSUME byHandle' = byHandle, owners' = owners, nextHandle' = nextHandle
      PROVE  OwnersCounted'
  BY <1>a, <1>b DEF OwnersCounted, Libs, Handles
<1>1. CASE Call(t)
  <2>1. byHandle' = byHandle /\ owners' = owners /\ nextHandle' = nextHandle
    BY <1>1 DEF Call, CallOpen, CallFmod, CallSqlite, CallClose, CallModHook, CallAdd, DlsymOwn,
                CallInit, regVars
  <2> QED
    BY <1>b, <2>1
<1>2. CASE OpenAgain(t)
  <2>1. PICK h \in Libs : h = byName[req[t].name]
    BY <1>2 DEF OpenAgain, Registered
  <2>2. /\ byHandle' = [byHandle EXCEPT ![h].refs = @ + 1]
        /\ owners' = Credit(owners, h, cur[t]) /\ nextHandle' = nextHandle
    BY <1>2, <2>1 DEF OpenAgain
  <2> QED
    BY <1>0, <1>a, <2>2 DEF OwnersCounted, Credit, Libs, Handles, LibraryType
<1>3. CASE OpenStub(t)
  <2>1. /\ byHandle' = Insert(byHandle, nextHandle, [refs |-> 1, stub |-> TRUE, ext |-> req[t].ext])
        /\ owners' = Credit(Insert(owners, nextHandle, 0), nextHandle, cur[t])
        /\ nextHandle' = nextHandle + 1
    BY <1>3 DEF OpenStub
  <2>2. Handles' = Handles \cup {nextHandle}
    BY <1>0, <2>1 DEF Handles
  <2>3. Libs' = Libs \cup {nextHandle} /\ byHandle'[nextHandle].refs = 1
        /\ \A h \in Libs : byHandle'[h] = byHandle[h]
    BY <1>0, <2>1 DEF Insert, Libs
  <2>4. owners'[nextHandle] \in {0, 1} /\ \A h \in Handles : owners'[h] = owners[h]
    BY <1>0, <2>1 DEF Credit, Insert
  <2> QED
    BY <1>0, <1>a, <2>2, <2>3, <2>4 DEF OwnersCounted
<1>4. CASE OpenElf(t)
  <2>1. byHandle' = byHandle /\ owners' = Insert(owners, nextHandle, 0)
        /\ nextHandle' = nextHandle + 1
    BY <1>4 DEF OpenElf
  <2>2. Handles' = Handles \cup {nextHandle} /\ Libs' = Libs
    BY <1>0, <2>1 DEF Handles, Libs
  <2>3. owners'[nextHandle] = 0 /\ \A h \in Handles : owners'[h] = owners[h]
    BY <1>0, <2>1 DEF Insert
  <2> QED
    BY <1>0, <1>a, <2>1, <2>2, <2>3 DEF OwnersCounted
<1>5. CASE Finish(t)
  <2>1. PICK h \in Handles : h = cur[t] /\ h \notin Libs
    BY <1>5 DEF HandleInv, RegistryInv, TypeOK, LoadTypes, LoadsNested, PcMeaning, Finish
  <2>2. /\ byHandle' = Insert(byHandle, h, [refs |-> 1, stub |-> FALSE, ext |-> loading[h].ext])
        /\ owners' = Credit(owners, h, loading[h].parent) /\ Handles' = Handles
    BY <1>5, <2>1 DEF Finish, Handles
  <2>3. Libs' = Libs \cup {h} /\ byHandle'[h].refs = 1
        /\ \A k \in Libs : byHandle'[k] = byHandle[k]
    BY <2>1, <2>2 DEF Insert, Libs
  <2>4. owners'[h] \in {0, 1} /\ \A k \in Handles \ {h} : owners'[k] = owners[k]
    BY <1>0, <2>1, <2>2 DEF OwnersCounted, Credit
  <2>5. ASSUME NEW k \in Handles
        PROVE  IF k \in Libs' THEN owners'[k] <= byHandle'[k].refs ELSE owners'[k] = 0
    <3>1. CASE k = h
      BY <2>3, <2>4, <3>1
    <3>2. CASE k # h
      BY <2>3, <2>4, <3>2 DEF OwnersCounted
    <3> QED
      BY <3>1, <3>2
  <2> QED
    BY <1>a, <2>2, <2>5 DEF OwnersCounted
<1>6. CASE SkipDep(t) \/ LoadDep(t) \/ DepsDone(t) \/ Link(t) \/ AfterLoad(t)
  <2>1. byHandle' = byHandle /\ owners' = owners /\ nextHandle' = nextHandle
    BY <1>6 DEF SkipDep, LoadDep, DepsDone, Link, AfterLoad, regVars
  <2> QED
    BY <1>b, <2>1
<1>7. CASE Close(t)
  <2>1. pc[t] = "close"
    BY <1>7 DEF Close, OwnersCounted
  <2>2. PICK h \in Handles : h = arg[t] /\ owners[h] >= 1
    BY <2>1, CloserOwns
  <2>3. owners' = [owners EXCEPT ![h] = @ - 1] /\ Handles' = Handles /\ h \in Libs
    BY <1>0, <1>7, <2>1, <2>2 DEF Close, Handles, OwnersCounted
  <2>4. CASE byHandle[h].refs > 1
    <3>1. byHandle' = [byHandle EXCEPT ![h].refs = @ - 1]
      BY <1>7, <2>2, <2>3, <2>4 DEF Close, Shared
    <3> QED
      BY <1>0, <1>a, <2>3, <3>1 DEF OwnersCounted, Libs, LibraryType
  <2>5. CASE ~(byHandle[h].refs > 1)
    <3>1. byHandle' = Keep(byHandle, Libs \ {h})
      BY <1>7, <2>2, <2>5 DEF Close, Shared
    <3>2. Libs' = Libs \ {h} /\ \A k \in Libs' : byHandle'[k] = byHandle[k]
      BY <3>1 DEF Keep, Libs
    <3>3. owners'[h] = 0
      BY <1>0, <2>2, <2>3, <2>5 DEF OwnersCounted, LibraryType
    <3> QED
      BY <1>0, <1>a, <2>3, <3>2, <3>3 DEF OwnersCounted
  <2> QED
    BY <2>4, <2>5
<1>8. CASE AddSymbols(t)
  <2>1. /\ Libs' = Libs /\ Handles' = Handles /\ owners' = owners
        /\ \A h \in Libs : byHandle'[h].refs = byHandle[h].refs
    BY <1>0, <1>8 DEF AddSymbols, Libs, Handles, LibraryType
  <2> QED
    BY <1>a, <2>1 DEF OwnersCounted
<1>9. CASE Queue(t) \/ DlsymGlobal(t) \/ RunInit(t)
  <2>1. byHandle' = byHandle /\ owners' = owners /\ nextHandle' = nextHandle
    BY <1>9 DEF Queue, DlsymGlobal, RunInit, regVars
  <2> QED
    BY <1>b, <2>1
<1> QED
  BY <1>1, <1>2, <1>3, <1>4, <1>5, <1>6, <1>7, <1>8, <1>9 DEF Step, LoadStep

\* While no mod closes a handle it only looked up, a reference a caller has not
\* closed keeps its library registered, for any number of threads and calls.
THEOREM ReferencesCover ==
    ASSUME LookupClosers = {}
    PROVE  Spec => []RefsCoverOwners
<1>1. Init => OwnersCounted
  <2> SUFFICES ASSUME Init PROVE OwnersCounted
    OBVIOUS
  <2>1. Handles = {}
    BY DEF Init, Handles
  <2> QED
    BY <2>1 DEF Init, OwnersCounted
<1>2. HandleInv /\ OwnersCounted /\ [Next]_vars => OwnersCounted'
  <2>1. CASE UNCHANGED vars
    BY <2>1 DEF OwnersCounted, vars, regVars, callVars, Libs, Handles
  <2>2. CASE Next
    BY <2>2, OwnersStayCounted DEF Next
  <2> QED
    BY <2>1, <2>2
<1>3. HandleInv /\ OwnersCounted => RefsCoverOwners
  BY DEF HandleInv, RegistryInv, TypeOK, RegistryTypes, OwnersCounted, RefsCoverOwners, LibraryType
<1> QED
  BY <1>1, <1>2, <1>3, HandlesInvariant, PTL DEF Spec

-----------------------------------------------------------------------------
(* The linker implements HandleTable. *)

LEMMA SameTable ==
    ASSUME References' = References, IssuedHandles' = IssuedHandles
    PROVE  UNCHANGED Table!tableVars
BY DEF Table!tableVars

\* A load that needs a file is registered only by its last step, so mapping the
\* file and allocating the handle are invisible to the table.
LEMMA LoadImplementsTable ==
    ASSUME NEW t \in Threads, HandleInv, LoadStep(t)
    PROVE  [Table!TableNext]_(Table!tableVars)
<1>0. /\ nextHandle \in Nat \ {0} /\ nextHandle \notin Handles /\ Libs \subseteq Handles
      /\ DOMAIN loading \subseteq Handles
      /\ IssuedHandles = Handles \ DOMAIN loading
      /\ \A k \in Libs : byHandle[k] \in LibraryType
  BY DEF HandleInv, RegistryInv, TypeOK, RegistryTypes, LoadTypes, Handles, IssuedHandles
<1>a. ASSUME byHandle' = byHandle, nextHandle' = nextHandle, DOMAIN loading' = DOMAIN loading
      PROVE  UNCHANGED Table!tableVars
  BY <1>a, SameTable DEF References, IssuedHandles, Libs
<1>1. CASE OpenAgain(t)
  <2>1. PICK h \in Libs : h = byName[req[t].name]
    BY <1>1 DEF OpenAgain, Registered
  <2>2. byHandle' = [byHandle EXCEPT ![h].refs = @ + 1] /\ IssuedHandles' = IssuedHandles
    BY <1>1, <2>1 DEF OpenAgain, IssuedHandles
  <2>3. References' = [References EXCEPT ![h] = @ + 1] /\ h \in DOMAIN References
    BY <1>0, <2>1, <2>2 DEF References, Libs, LibraryType
  <2>4. Table!Retain(h)
    BY <2>2, <2>3 DEF Table!Retain
  <2> QED
    BY <2>3, <2>4 DEF Table!TableNext
<1>2. CASE OpenStub(t)
  <2> DEFINE h == nextHandle
             lib == [refs |-> 1, stub |-> TRUE, ext |-> req[t].ext]
  <2>1. /\ byHandle' = Insert(byHandle, h, lib)
        /\ nextHandle' = nextHandle + 1 /\ loading' = loading
    BY <1>2 DEF OpenStub
  <2>2. IssuedHandles' = IssuedHandles \cup {h} /\ h \notin IssuedHandles
    BY <1>0, <2>1 DEF IssuedHandles, Handles
  <2>3. References' = [k \in DOMAIN References \cup {h} |-> IF k = h THEN 1 ELSE References[k]]
    BY <2>1 DEF References, Libs, Insert
  <2>4. Table!Issue(h) /\ h \in IssuedHandles' \ IssuedHandles
    BY <2>2, <2>3 DEF Table!Issue
  <2> QED
    BY <2>4 DEF Table!TableNext
<1>3. CASE OpenElf(t)
  <2>1. /\ byHandle' = byHandle /\ nextHandle' = nextHandle + 1
        /\ DOMAIN loading' = DOMAIN loading \cup {nextHandle}
    BY <1>3 DEF OpenElf, Insert
  <2>2. IssuedHandles' = IssuedHandles
    BY <1>0, <2>1 DEF IssuedHandles, Handles
  <2> QED
    BY <2>1, <2>2, SameTable DEF References, Libs
<1>4. CASE Finish(t)
  <2>1. PICK h \in Handles : h = cur[t] /\ h \in DOMAIN loading
    BY <1>4 DEF HandleInv, RegistryInv, TypeOK, LoadTypes, LoadsNested, PcMeaning, Finish
  <2> DEFINE lib == [refs |-> 1, stub |-> FALSE, ext |-> loading[h].ext]
  <2>2. /\ byHandle' = Insert(byHandle, h, lib) /\ nextHandle' = nextHandle
        /\ DOMAIN loading' = DOMAIN loading \ {h}
    BY <1>4, <2>1 DEF Finish, Keep
  <2>3. IssuedHandles' = IssuedHandles \cup {h} /\ h \notin IssuedHandles
    BY <1>0, <2>1, <2>2 DEF IssuedHandles, Handles
  <2>4. References' = [k \in DOMAIN References \cup {h} |-> IF k = h THEN 1 ELSE References[k]]
    BY <2>2 DEF References, Libs, Insert
  <2>5. Table!Issue(h) /\ h \in IssuedHandles' \ IssuedHandles
    BY <2>3, <2>4 DEF Table!Issue
  <2> QED
    BY <2>5 DEF Table!TableNext
<1>5. CASE SkipDep(t) \/ LoadDep(t) \/ DepsDone(t) \/ Link(t) \/ AfterLoad(t)
  <2>1. byHandle' = byHandle /\ nextHandle' = nextHandle /\ DOMAIN loading' = DOMAIN loading
    BY <1>5 DEF SkipDep, LoadDep, DepsDone, Link, AfterLoad, regVars, loadVars
  <2> QED
    BY <1>a, <2>1
<1> QED
  BY <1>1, <1>2, <1>3, <1>4, <1>5 DEF LoadStep

LEMMA CloseImplementsTable ==
    ASSUME NEW t \in Threads, HandleInv, Close(t)
    PROVE  [Table!TableNext]_(Table!tableVars)
<1>0. IssuedHandles' = IssuedHandles
  BY DEF Close, IssuedHandles, loadVars
<1>1. CASE arg[t] \notin Libs
  <2>1. byHandle' = Keep(byHandle, Libs \ {arg[t]})
    BY <1>1 DEF Close, Shared
  <2>2. References' = References
    BY <1>1, <2>1 DEF References, Libs, Keep
  <2> QED
    BY <1>0, <2>2, SameTable
<1>2. CASE arg[t] \in Libs
  <2>1. PICK h \in Libs : h = arg[t]
    BY <1>2
  <2>0. \A k \in Libs : byHandle[k] \in LibraryType
    BY DEF HandleInv, RegistryInv, TypeOK, RegistryTypes
  <2>2. h \in DOMAIN References /\ References[h] = byHandle[h].refs /\ References[h] \in Nat \ {0}
    BY <2>0 DEF References, LibraryType
  <2>3. CASE byHandle[h].refs > 1
    <3>1. byHandle' = [byHandle EXCEPT ![h].refs = @ - 1]
      BY <2>1, <2>3 DEF Close, Shared
    <3>2. References' = [References EXCEPT ![h] = @ - 1]
      BY <2>0, <3>1 DEF References, Libs, LibraryType
    <3>3. Table!Release(h)
      BY <1>0, <2>2, <2>3, <3>2 DEF Table!Release
    <3> QED
      BY <2>2, <3>3 DEF Table!TableNext
  <2>4. CASE ~(byHandle[h].refs > 1)
    <3>1. byHandle' = Keep(byHandle, Libs \ {h})
      BY <2>1, <2>4 DEF Close, Shared
    <3>2. References' = [k \in DOMAIN References \ {h} |-> References[k]]
      BY <3>1 DEF References, Libs, Keep
    <3>3. References[h] = 1
      BY <2>2, <2>4
    <3>4. Table!Retire(h)
      BY <1>0, <2>2, <3>2, <3>3 DEF Table!Retire
    <3> QED
      BY <2>2, <3>4 DEF Table!TableNext
  <2> QED
    BY <2>3, <2>4
<1> QED
  BY <1>1, <1>2

LEMMA StepImplementsTable ==
    ASSUME HandleInv, [Next]_vars
    PROVE  [Table!TableNext]_(Table!tableVars)
<1>a. ASSUME byHandle' = byHandle, nextHandle' = nextHandle, loading' = loading
      PROVE  UNCHANGED Table!tableVars
  BY <1>a, SameTable DEF References, IssuedHandles, Libs
<1>1. CASE UNCHANGED vars
  BY <1>1, <1>a DEF vars, regVars, loadVars
<1>2. ASSUME NEW t \in Threads, Call(t)
      PROVE  UNCHANGED Table!tableVars
  <2>1. byHandle' = byHandle /\ nextHandle' = nextHandle /\ loading' = loading
    BY <1>2 DEF Call, CallOpen, CallFmod, CallSqlite, CallClose, CallModHook, CallAdd, DlsymOwn,
                CallInit, regVars, loadVars
  <2> QED
    BY <1>a, <2>1
<1>3. ASSUME NEW t \in Threads, Queue(t) \/ DlsymGlobal(t) \/ RunInit(t)
      PROVE  UNCHANGED Table!tableVars
  <2>1. byHandle' = byHandle /\ nextHandle' = nextHandle /\ loading' = loading
    BY <1>3 DEF Queue, DlsymGlobal, RunInit, regVars, loadVars
  <2> QED
    BY <1>a, <2>1
<1>4. ASSUME NEW t \in Threads, AddSymbols(t)
      PROVE  UNCHANGED Table!tableVars
  <2>1. \A h \in Libs : byHandle[h] \in LibraryType
    BY DEF HandleInv, RegistryInv, TypeOK, RegistryTypes
  <2>2. Libs' = Libs /\ \A h \in Libs : byHandle'[h].refs = byHandle[h].refs
    BY <1>4, <2>1 DEF AddSymbols, Libs, LibraryType
  <2>3. References' = References
    BY <2>2 DEF References
  <2>4. IssuedHandles' = IssuedHandles
    BY <1>4 DEF AddSymbols, IssuedHandles, loadVars
  <2> QED
    BY <2>3, <2>4, SameTable
<1> QED
  BY <1>1, <1>2, <1>3, <1>4, LoadImplementsTable, CloseImplementsTable DEF Next, Step

\* To its callers the linker is an atomic table of reference-counted handles: a
\* dead handle never comes back, and every count moves by one, although a load
\* takes several critical sections and other threads run between them.
THEOREM LinkerImplementsTable == Spec => TableSpec
<1>1. Init => Table!TableInit
  <2> SUFFICES ASSUME Init PROVE Table!TableInit
    OBVIOUS
  <2>1. DOMAIN References = {}
    BY DEF Init, References, Libs, Empty
  <2>2. IssuedHandles = {}
    BY DEF Init, IssuedHandles
  <2> QED
    BY <2>1, <2>2 DEF Table!TableInit
<1> QED
  BY <1>1, HandlesInvariant, StepImplementsTable, PTL DEF Spec, TableSpec, Table!TableSpec

-----------------------------------------------------------------------------
(* The addresses the linker hands out: they lead to relocated images, and an *)
(* initialised image relies on initialised ones.  The inductive invariant.   *)

\* An address that may be bound by anyone: not of an image, or of an image
\* whose load is over and has run the constructors it was going to run.
Ready(a) ==
    \/ a \in {Launcher, Dispatch}
    \/ /\ a \in DOMAIN images /\ a \notin DOMAIN loading
       /\ images[a].linked
       /\ images[a].ctors /\ images[a].bound => images[a].inits > 0

\* The image that is between Link and Finish, under the write lock: its exports
\* are public, its constructors have not run.
Publishing(a) == \E t \in Threads : pc[t] = "ctor" /\ cur[t] = a

GlobalsReady == \A s \in DOMAIN globals : Ready(globals[s]) \/ Publishing(globals[s])

\* A GOT leads to ready images, and to its own while that one is being loaded.
GotsReady ==
    \A h \in DOMAIN images : \A s \in DOMAIN images[h].got :
        \/ Ready(images[h].got[s])
        \/ images[h].got[s] = h /\ h \in DOMAIN loading /\ images[h].linked

\* The copies of the wrappers are taken when nobody holds the write lock.
SnapsReady ==
    /\ DOMAIN snap = Threads
    /\ \A t \in Threads : \A s \in DOMAIN snap[t] : Ready(snap[t][s])

LibrariesReady == \A h \in Libs : ~byHandle[h].stub => h \in DOMAIN images /\ Ready(h)

\* Between Link and Finish the thread holds the write lock.
CtorsUnderLock == \A t \in Threads : pc[t] = "ctor" => writer = t /\ images[cur[t]].linked

LoadsFresh ==
    \A h \in DOMAIN loading : images[h].inits = 0 /\ images[h].ctors = loading[h].ctors

AddressInv ==
    GlobalsReady /\ GotsReady /\ SnapsReady /\ LibrariesReady /\ CtorsUnderLock /\ LoadsFresh

\* What the client does with the game, whose constructors it defers: it is not
\* loaded through the loader for fmod, nothing needs it, and no other file bears
\* its soname.
GameLoadedBare ==
    \A n \in InitNames :
        /\ n \notin FmodNames
        /\ \A f \in Elf : /\ \A i \in DOMAIN Needed[f] : Needed[f][i] # n
                          /\ Soname[f] = n => f \in InitNames

\* So it is always loaded without constructors, and they never run in an image
\* with unresolved symbols.
GameInv ==
    /\ \A h \in DOMAIN loading :
         /\ \A i \in DOMAIN loading[h].todo : loading[h].todo[i] \notin InitNames
         /\ loading[h].name \in InitNames => ~loading[h].ctors
    /\ \A t \in Threads : pc[t] = "open" /\ req[t].name \in InitNames => ~req[t].ctors
    /\ \A t \in Threads : pc[t] = "init" => req[t].name \in InitNames
    /\ \A n \in DOMAIN byName \cap InitNames :
         ~byHandle[byName[n]].stub => ~images[byName[n]].ctors

BoundWhenInitialised ==
    \A h \in DOMAIN images : images[h].ctors /\ images[h].inits > 0 => images[h].bound

-----------------------------------------------------------------------------
(* Readiness is not lost.                                                    *)

\* What is mapped and no longer being loaded stays as it is, but for the
\* constructors it may run.
Settled ==
    \A a \in DOMAIN images \ DOMAIN loading :
        /\ a \in DOMAIN images' /\ a \notin DOMAIN loading'
        /\ images'[a].linked = images[a].linked
        /\ images'[a].ctors = images[a].ctors /\ images'[a].bound = images[a].bound
        /\ images[a].inits > 0 => images'[a].inits > 0

LEMMA ReadyStays ==
    ASSUME Settled, NEW a, Ready(a)
    PROVE  Ready(a)'
BY DEF Settled, Ready

\* What a thread that holds no lock may be doing to the addresses: nothing.
Plain ==
    /\ UNCHANGED <<globals, images, cur, snap, writer>>
    /\ DOMAIN loading' = DOMAIN loading
    /\ \A h \in DOMAIN loading : loading'[h].ctors = loading[h].ctors
    /\ DOMAIN byHandle' \subseteq DOMAIN byHandle
    /\ \A h \in DOMAIN byHandle' : byHandle'[h].stub = byHandle[h].stub
    /\ \A t \in Threads : pc'[t] = "ctor" <=> pc[t] = "ctor"

LEMMA PlainKeeps ==
    ASSUME AddressInv, Plain
    PROVE  AddressInv'
<1>1. Settled
  BY DEF Plain, Settled
<1>2. \A a : Ready(a) => Ready(a)'
  BY <1>1, ReadyStays
<1>3. \A a : Publishing(a) => Publishing(a)'
  BY DEF Plain, Publishing
<1>4. GlobalsReady'
  BY <1>2, <1>3 DEF AddressInv, GlobalsReady, Plain
<1>5. GotsReady'
  BY <1>2 DEF AddressInv, GotsReady, Plain
<1>6. SnapsReady'
  BY <1>2 DEF AddressInv, SnapsReady, Plain
<1>7. LibrariesReady'
  BY <1>2 DEF AddressInv, LibrariesReady, Plain, Libs
<1>8. CtorsUnderLock' /\ LoadsFresh'
  BY DEF AddressInv, CtorsUnderLock, LoadsFresh, Plain
<1> QED
  BY <1>4, <1>5, <1>6, <1>7, <1>8 DEF AddressInv

\* When the write lock is free no image is between Link and Finish.
LEMMA FreeLock ==
    ASSUME AddressInv, ThreadTypes, writer = NoThread
    PROVE  /\ \A t \in Threads : pc[t] # "ctor"
           /\ \A s \in DOMAIN globals : Ready(globals[s])
<1>1. \A t \in Threads : pc[t] # "ctor"
  BY ThreadsAssumption DEF AddressInv, CtorsUnderLock
<1> QED
  BY <1>1 DEF AddressInv, GlobalsReady, Publishing

\* External symbols never lead to an image.
LEMMA ExternalReady ==
    ASSUME NEW e \in Exts, NEW s \in DOMAIN e
    PROVE  Ready(e[s])
BY DEF Exts, Partial, Ready

-----------------------------------------------------------------------------
(* One lemma per step that touches images, global symbols or libraries.      *)

LEMMA RequestExternal ==
    ASSUME RegistryInv, NEW t \in Threads
    PROVE  req[t].ext \in Exts
<1>1. req[t] \in RequestType
  BY DEF RegistryInv, TypeOK, ThreadTypes
<1> QED
  BY <1>1 DEF RequestType

LEMMA FreshHandle ==
    ASSUME RegistryInv
    PROVE  nextHandle \notin DOMAIN images \cup DOMAIN loading \cup Libs
<1>1. nextHandle \notin Handles
  BY DEF RegistryInv, TypeOK, RegistryTypes, Handles
<1> QED
  BY <1>1 DEF RegistryInv, TypeOK, RegistryTypes, LoadTypes

LEMMA OpenStubAddresses ==
    ASSUME NEW t \in Threads, RegistryInv, AddressInv, OpenStub(t)
    PROVE  AddressInv'
<1>0. req[t].ext \in Exts /\ nextHandle \notin Libs
  BY RequestExternal, FreshHandle
<1>1. Settled
  BY DEF OpenStub, Settled
<1>2. \A a : Ready(a) => Ready(a)'
  BY <1>1, ReadyStays
<1>3. \A u \in Threads : pc[u] = "ctor" <=> pc'[u] = "ctor"
  BY DEF OpenStub, Return, Goto, RegistryInv, TypeOK, ThreadTypes
<1>4. \A a : Publishing(a) => Publishing(a)'
  BY <1>3 DEF OpenStub, Publishing
<1>5. GlobalsReady'
  <2> SUFFICES ASSUME NEW s \in DOMAIN globals', NEW a, a = globals'[s]
               PROVE  Ready(a)' \/ Publishing(a)'
    BY DEF GlobalsReady
  <2>1. globals' = Overlay(globals, req[t].ext)
    BY DEF OpenStub, Externals
  <2>2. CASE s \in DOMAIN req[t].ext
    BY <1>0, <1>2, <2>1, <2>2, ExternalReady DEF Overlay
  <2>3. CASE s \notin DOMAIN req[t].ext
    BY <1>2, <1>4, <2>1, <2>3 DEF Overlay, AddressInv, GlobalsReady
  <2> QED
    BY <2>2, <2>3
<1>6. GotsReady' /\ SnapsReady'
  BY <1>2 DEF AddressInv, GotsReady, SnapsReady, OpenStub
<1>7. LibrariesReady'
  BY <1>0, <1>2 DEF AddressInv, LibrariesReady, OpenStub, Insert, Libs
<1>8. CtorsUnderLock' /\ LoadsFresh'
  BY <1>3 DEF AddressInv, CtorsUnderLock, LoadsFresh, OpenStub, WriteSection
<1> QED
  BY <1>5, <1>6, <1>7, <1>8 DEF AddressInv

LEMMA OpenElfAddresses ==
    ASSUME NEW t \in Threads, RegistryInv, AddressInv, OpenElf(t)
    PROVE  AddressInv'
<1> DEFINE n == req[t].name
           image == [file |-> n, ctors |-> req[t].ctors, linked |-> FALSE,
                     got |-> Empty, bound |-> FALSE, inits |-> 0]
<1>0. /\ req[t].ext \in Exts
      /\ nextHandle \notin DOMAIN images /\ nextHandle \notin DOMAIN loading
  BY RequestExternal, FreshHandle
<1>1. /\ images' = Insert(images, nextHandle, image)
      /\ DOMAIN loading' = DOMAIN loading \cup {nextHandle}
      /\ \A h \in DOMAIN loading : loading'[h] = loading[h]
      /\ loading'[nextHandle].ctors = req[t].ctors
  BY <1>0 DEF OpenElf, Insert
<1>2. Settled
  BY <1>0, <1>1 DEF Settled, Insert
<1>3. \A a : Ready(a) => Ready(a)'
  BY <1>2, ReadyStays
<1>4. \A u \in Threads : pc[u] # "ctor" /\ pc'[u] # "ctor"
  BY FreeLock DEF OpenElf, DropForDependencies, WriteSection, CanWrite, Goto, RegistryInv, TypeOK,
                  ThreadTypes
<1>5. GlobalsReady'
  <2> SUFFICES ASSUME NEW s \in DOMAIN globals', NEW a, a = globals'[s]
               PROVE  Ready(a)'
    BY DEF GlobalsReady
  <2>1. globals' = Overlay(globals, req[t].ext)
    BY DEF OpenElf, Externals
  <2>2. CASE s \in DOMAIN req[t].ext
    BY <1>0, <1>3, <2>1, <2>2, ExternalReady DEF Overlay
  <2>3. CASE s \notin DOMAIN req[t].ext
    BY <1>3, <1>4, <2>1, <2>3 DEF Overlay, AddressInv, GlobalsReady, Publishing
  <2> QED
    BY <2>2, <2>3
<1>6. GotsReady'
  <2> SUFFICES ASSUME NEW h \in DOMAIN images', NEW s \in DOMAIN images'[h].got,
                      NEW a, a = images'[h].got[s]
               PROVE  Ready(a)' \/ (a = h /\ h \in DOMAIN loading' /\ images'[h].linked)
    BY DEF GotsReady
  <2>1. h # nextHandle /\ h \in DOMAIN images /\ images'[h] = images[h]
    BY <1>1 DEF Insert, Empty
  <2> QED
    BY <1>1, <1>3, <2>1 DEF AddressInv, GotsReady
<1>7. SnapsReady'
  BY <1>3 DEF AddressInv, SnapsReady, OpenElf
<1>8. LibrariesReady'
  BY <1>1, <1>3 DEF AddressInv, LibrariesReady, OpenElf, Insert, Libs
<1>9. CtorsUnderLock'
  BY <1>4 DEF CtorsUnderLock
<1>10. LoadsFresh'
  <2> SUFFICES ASSUME NEW h \in DOMAIN loading'
               PROVE  images'[h].inits = 0 /\ images'[h].ctors = loading'[h].ctors
    BY DEF LoadsFresh
  <2>1. CASE h = nextHandle
    BY <1>1, <2>1 DEF Insert
  <2>2. CASE h # nextHandle
    <3>1. h \in DOMAIN loading /\ h \in DOMAIN images /\ images'[h] = images[h]
      BY <1>1, <2>2 DEF Insert, RegistryInv, TypeOK, LoadTypes
    <3> QED
      BY <1>1, <3>1 DEF AddressInv, LoadsFresh
  <2> QED
    BY <2>1, <2>2
<1> QED
  BY <1>5, <1>6, <1>7, <1>8, <1>9, <1>10 DEF AddressInv

\* Relocation: whatever `resolve` finds is ready, or the library's own.
LEMMA CandidatesReady ==
    ASSUME NEW h \in DOMAIN loading, RegistryInv, AddressInv, writer = NoThread,
           NEW s, NEW a \in Candidates(h, loading[h].ext, s)
    PROVE  Ready(a) \/ a = h
<1>0. loading[h].ext \in Exts
  BY DEF RegistryInv, TypeOK, LoadTypes, LoadType
<1>1. CASE s \in DOMAIN loading[h].ext
  BY <1>0, <1>1, ExternalReady DEF Candidates
<1>2. CASE s \notin DOMAIN loading[h].ext /\ s \in Defines[images[h].file]
  BY <1>2 DEF Candidates
<1>3. CASE s \notin DOMAIN loading[h].ext /\ s \notin Defines[images[h].file]
  <2>1. a \in Elsewhere(s)
    BY <1>3 DEF Candidates
  <2>2. CASE s \in DOMAIN globals
    BY <2>1, <2>2, FreeLock DEF Elsewhere, RegistryInv, TypeOK
  <2>3. CASE s \notin DOMAIN globals
    <3>1. CASE a = Launcher
      BY <3>1 DEF Ready
    <3>2. CASE \E k \in Libs : ~byHandle[k].stub /\ a = k
      BY <3>2 DEF AddressInv, LibrariesReady
    <3>3. CASE \E k \in Libs : s \in DOMAIN byHandle[k].ext /\ a = byHandle[k].ext[s]
      <4>1. PICK k \in Libs : s \in DOMAIN byHandle[k].ext /\ a = byHandle[k].ext[s]
        BY <3>3
      <4>2. byHandle[k].ext \in Exts
        BY DEF RegistryInv, TypeOK, RegistryTypes, LibraryType
      <4> QED
        BY <4>1, <4>2, ExternalReady
    <3> QED
      BY <2>1, <2>3, <3>1, <3>2, <3>3 DEF Elsewhere
  <2> QED
    BY <2>2, <2>3
<1> QED
  BY <1>1, <1>2, <1>3

LEMMA LinkAddresses ==
    ASSUME NEW t \in Threads, RegistryInv, AddressInv, Link(t)
    PROVE  AddressInv'
<1> DEFINE h == cur[t]
           file == images[h].file
           found == {s \in Imports[file] : Candidates(h, loading[h].ext, s) # {}}
<1>0. /\ h \in DOMAIN loading /\ h \in DOMAIN images /\ IsImage(images[h])
      /\ writer = NoThread /\ writer' = t
  BY DEF RegistryInv, TypeOK, LoadTypes, LoadsNested, PcMeaning, Link, CanWrite
<1>1. PICK got : /\ DOMAIN got = found
                 /\ \A s \in found : got[s] \in Candidates(h, loading[h].ext, s)
                 /\ images' = [images EXCEPT ![h].got = got, ![h].linked = TRUE,
                                   ![h].bound = (found = Imports[file])]
  BY DEF Link
<1>2. /\ DOMAIN images' = DOMAIN images
      /\ \A k \in DOMAIN images \ {h} : images'[k] = images[k]
      /\ images'[h].got = got /\ images'[h].linked = TRUE
      /\ images'[h].ctors = images[h].ctors /\ images'[h].inits = images[h].inits
  BY <1>0, <1>1 DEF IsImage
<1>3. loading' = loading /\ cur' = cur /\ snap' = snap /\ byHandle' = byHandle
  BY DEF Link, loadVars
<1>4. Settled
  BY <1>0, <1>2, <1>3 DEF Settled
<1>5. \A a : Ready(a) => Ready(a)'
  BY <1>4, ReadyStays
<1>6. /\ \A u \in Threads : pc[u] # "ctor"
      /\ \A s \in DOMAIN globals : Ready(globals[s])
  BY <1>0, FreeLock DEF RegistryInv, TypeOK
<1>7. pc' = [pc EXCEPT ![t] = "ctor"] /\ pc'[t] = "ctor"
  BY DEF Link, Goto, RegistryInv, TypeOK, ThreadTypes
<1>8. GlobalsReady'
  <2> SUFFICES ASSUME NEW s \in DOMAIN globals', NEW a, a = globals'[s]
               PROVE  Ready(a)' \/ Publishing(a)'
    BY DEF GlobalsReady
  <2>1. globals' = Publish(globals, h, file)
    BY DEF Link
  <2>2. CASE s \in DOMAIN globals
    BY <1>5, <1>6, <2>1, <2>2 DEF Publish, Overlay
  <2>3. CASE s \notin DOMAIN globals
    <3>1. a = h
      BY <2>1, <2>3 DEF Publish, Overlay, All
    <3> QED
      BY <1>3, <1>7, <3>1 DEF Publishing
  <2> QED
    BY <2>2, <2>3, SMTT(30)
<1>9. GotsReady'
  <2> SUFFICES ASSUME NEW k \in DOMAIN images', NEW s \in DOMAIN images'[k].got,
                      NEW a, a = images'[k].got[s]
               PROVE  Ready(a)' \/ (a = k /\ k \in DOMAIN loading' /\ images'[k].linked)
    BY DEF GotsReady
  <2>1. CASE k = h
    <3>1. a \in Candidates(h, loading[h].ext, s)
      BY <1>1, <1>2, <2>1
    <3>2. Ready(a) \/ a = h
      BY <1>0, <3>1, CandidatesReady
    <3> QED
      BY <1>0, <1>2, <1>3, <1>5, <2>1, <3>2
  <2>2. CASE k # h
    BY <1>2, <1>3, <1>5, <2>2 DEF AddressInv, GotsReady
  <2> QED
    BY <2>1, <2>2
<1>10. SnapsReady' /\ LibrariesReady'
  BY <1>2, <1>3, <1>5 DEF AddressInv, SnapsReady, LibrariesReady, Libs
<1>11. CtorsUnderLock'
  BY <1>0, <1>2, <1>3, <1>6, <1>7 DEF CtorsUnderLock, RegistryInv, TypeOK, ThreadTypes
<1>12. LoadsFresh'
  BY <1>0, <1>2, <1>3 DEF AddressInv, LoadsFresh, RegistryInv, TypeOK, LoadTypes
<1> QED
  BY <1>8, <1>9, <1>10, <1>11, <1>12, SMTT(30) DEF AddressInv

LEMMA FinishAddresses ==
    ASSUME NEW t \in Threads, RegistryInv, AddressInv, Finish(t)
    PROVE  AddressInv'
<1> DEFINE h == cur[t]
           p == loading[h].parent
<1>0. /\ h \in DOMAIN loading /\ h \in DOMAIN images /\ IsImage(images[h])
      /\ h \notin Libs
  BY DEF RegistryInv, TypeOK, LoadTypes, LoadsNested, PcMeaning, Finish
<1>1. images[h].linked /\ images[h].inits = 0 /\ images[h].ctors = loading[h].ctors
  BY <1>0 DEF AddressInv, CtorsUnderLock, LoadsFresh, Finish
<1>2. /\ DOMAIN images' = DOMAIN images
      /\ \A k \in DOMAIN images \ {h} : images'[k] = images[k]
      /\ images'[h].got = images[h].got /\ images'[h].linked = images[h].linked
      /\ images'[h].ctors = images[h].ctors /\ images'[h].bound = images[h].bound
      /\ RunsCtors(h) => images'[h].inits = images[h].inits + 1
  BY <1>0 DEF Finish, IsImage
<1>3. /\ DOMAIN loading' = DOMAIN loading \ {h}
      /\ \A k \in DOMAIN loading' : loading'[k] = loading[k]
      /\ snap' = snap /\ globals' = globals
  BY DEF Finish, Keep
<1>4. Settled
  BY <1>0, <1>2, <1>3 DEF Settled
<1>5. \A a : Ready(a) => Ready(a)'
  BY <1>4, ReadyStays
<1>6. ASSUME NEW a, a = h PROVE Ready(a)'
  <2>1. images[h].ctors /\ images[h].bound => images'[h].inits > 0
    BY <1>1, <1>2 DEF RunsCtors
  <2> QED
    BY <1>0, <1>1, <1>2, <1>3, <1>6, <2>1 DEF Ready
<1>7. \A u \in Threads : pc[u] = "ctor" => u = t
  BY DEF AddressInv, CtorsUnderLock, Finish
<1>8. \A u \in Threads : pc'[u] # "ctor"
  BY <1>7 DEF Finish, Return, Goto, RegistryInv, TypeOK, ThreadTypes
<1>9. GlobalsReady'
  <2> SUFFICES ASSUME NEW s \in DOMAIN globals', NEW a, a = globals'[s]
               PROVE  Ready(a)'
    BY DEF GlobalsReady
  <2>1. Ready(a) \/ a = h
    BY <1>3, <1>7 DEF AddressInv, GlobalsReady, Publishing
  <2> QED
    BY <1>5, <1>6, <2>1
<1>10. GotsReady'
  <2> SUFFICES ASSUME NEW k \in DOMAIN images', NEW s \in DOMAIN images'[k].got,
                      NEW a, a = images'[k].got[s]
               PROVE  Ready(a)' \/ (a = k /\ k \in DOMAIN loading' /\ images'[k].linked)
    BY DEF GotsReady
  <2>1. k \in DOMAIN images /\ images'[k].got = images[k].got
        /\ images'[k].linked = images[k].linked
    BY <1>2
  <2>2. Ready(a) \/ (a = k /\ k \in DOMAIN loading /\ images[k].linked)
    BY <2>1 DEF AddressInv, GotsReady
  <2> QED
    BY <1>3, <1>5, <1>6, <2>1, <2>2
<1>11. SnapsReady'
  BY <1>3, <1>5 DEF AddressInv, SnapsReady
<1>12. LibrariesReady'
  <2> SUFFICES ASSUME NEW k \in Libs', ~byHandle'[k].stub
               PROVE  k \in DOMAIN images' /\ Ready(k)'
    BY DEF LibrariesReady
  <2>1. CASE k = h
    BY <1>0, <1>2, <1>6, <2>1
  <2>2. CASE k # h
    <3>1. k \in Libs /\ byHandle'[k] = byHandle[k]
      BY <2>2 DEF Finish, Insert, Libs
    <3> QED
      BY <1>2, <1>5, <3>1 DEF AddressInv, LibrariesReady
  <2> QED
    BY <2>1, <2>2
<1>13. CtorsUnderLock'
  BY <1>8 DEF CtorsUnderLock
<1>14. LoadsFresh'
  BY <1>2, <1>3 DEF AddressInv, LoadsFresh, RegistryInv, TypeOK, LoadTypes
<1> QED
  BY <1>9, <1>10, <1>11, <1>12, <1>13, <1>14 DEF AddressInv

LEMMA AfterLoadAddresses ==
    ASSUME NEW t \in Threads, RegistryInv, AddressInv, AfterLoad(t)
    PROVE  AddressInv'
<1>1. Settled
  BY DEF AfterLoad, Settled
<1>2. \A a : Ready(a) => Ready(a)'
  BY <1>1, ReadyStays
<1>3. /\ \A u \in Threads : pc[u] # "ctor"
      /\ \A s \in DOMAIN globals : Ready(globals[s])
  BY FreeLock DEF AfterLoad, WriteSection, CanWrite, RegistryInv, TypeOK
<1>4. GlobalsReady'
  <2> SUFFICES ASSUME NEW s \in DOMAIN globals', NEW a, a = globals'[s]
               PROVE  Ready(a)
    BY <1>2 DEF GlobalsReady
  <2>1. CASE globals' = Overlay(globals, snap[t])
    <3>1. CASE s \in DOMAIN snap[t]
      BY <2>1, <3>1 DEF Overlay, AddressInv, SnapsReady
    <3>2. CASE s \notin DOMAIN snap[t]
      BY <1>3, <2>1, <3>2 DEF Overlay
    <3> QED
      BY <3>1, <3>2
  <2>2. CASE globals' = Keep(globals, DOMAIN snap[t] \cup SqliteSyms)
    BY <1>3, <2>2 DEF Keep
  <2> QED
    BY <2>1, <2>2 DEF AfterLoad
<1>5. GotsReady' /\ LibrariesReady'
  BY <1>2 DEF AddressInv, GotsReady, LibrariesReady, AfterLoad, Libs
<1>6. SnapsReady'
  <2>1. DOMAIN snap' = Threads /\ \A u \in Threads : snap'[u] = IF u = t THEN Empty ELSE snap[u]
    BY DEF AfterLoad, AddressInv, SnapsReady
  <2>2. DOMAIN Empty = {}
    BY DEF Empty
  <2> QED
    BY <1>2, <2>1, <2>2 DEF AddressInv, SnapsReady
<1>7. CtorsUnderLock' /\ LoadsFresh'
  BY <1>3 DEF AddressInv, CtorsUnderLock, LoadsFresh, AfterLoad, Goto, RegistryInv, TypeOK,
              ThreadTypes
<1> QED
  BY <1>4, <1>5, <1>6, <1>7 DEF AddressInv

LEMMA AddSymbolsAddresses ==
    ASSUME NEW t \in Threads, RegistryInv, AddressInv, AddSymbols(t)
    PROVE  AddressInv'
<1>1. Settled
  BY DEF AddSymbols, Settled, loadVars
<1>2. \A a : Ready(a) => Ready(a)'
  BY <1>1, ReadyStays
<1>3. /\ \A u \in Threads : pc[u] # "ctor"
      /\ \A s \in DOMAIN globals : Ready(globals[s])
  BY FreeLock DEF AddSymbols, WriteSection, CanWrite, RegistryInv, TypeOK
<1>4. GlobalsReady'
  <2> SUFFICES ASSUME NEW s \in DOMAIN globals', NEW a, a = globals'[s]
               PROVE  Ready(a)
    BY <1>2 DEF GlobalsReady
  <2>1. globals' = Overlay(globals, All(Hooks, Launcher))
    BY DEF AddSymbols
  <2>2. CASE s \in Hooks
    BY <2>1, <2>2 DEF Overlay, All, Ready
  <2>3. CASE s \notin Hooks
    BY <1>3, <2>1, <2>3 DEF Overlay, All
  <2> QED
    BY <2>2, <2>3
<1>5. GotsReady' /\ SnapsReady'
  BY <1>2 DEF AddressInv, GotsReady, SnapsReady, AddSymbols, loadVars
<1>6. LibrariesReady'
  <2>1. Libs' = Libs /\ \A k \in Libs : byHandle'[k].stub = byHandle[k].stub
    <3>1. \A k \in Libs : byHandle[k] \in LibraryType
      BY DEF RegistryInv, TypeOK, RegistryTypes
    <3> QED
      BY <3>1 DEF AddSymbols, Libs, LibraryType
  <2> QED
    BY <1>2, <2>1 DEF AddressInv, LibrariesReady, AddSymbols
<1>7. CtorsUnderLock' /\ LoadsFresh'
  BY <1>3 DEF AddressInv, CtorsUnderLock, LoadsFresh, AddSymbols, loadVars, Goto, RegistryInv,
              TypeOK, ThreadTypes
<1> QED
  BY <1>4, <1>5, <1>6, <1>7 DEF AddressInv

LEMMA RunInitAddresses ==
    ASSUME NEW t \in Threads, RegistryInv, AddressInv, RunInit(t)
    PROVE  AddressInv'
<1> DEFINE h == byName[req[t].name]
<1>0. loading' = loading /\ cur' = cur /\ writer' = writer /\ snap' = snap /\ byHandle' = byHandle
  BY DEF RunInit, lockVars
<1>1. /\ DOMAIN images' = DOMAIN images
      /\ \A k \in DOMAIN images :
           /\ images'[k].linked = images[k].linked /\ images'[k].got = images[k].got
           /\ images'[k].ctors = images[k].ctors /\ images'[k].bound = images[k].bound
           /\ images[k].inits > 0 => images'[k].inits > 0
           /\ k \in DOMAIN loading => images'[k].inits = images[k].inits
  <2>1. CASE images' = images
    BY <2>1
  <2>2. CASE Registered(req[t].name) /\ images' = [images EXCEPT ![h].inits = @ + 1]
    <3>1. h \in Libs /\ h \notin DOMAIN loading
      BY <2>2 DEF Registered, RegistryInv, LoadsNested
    <3>2. \A k \in DOMAIN images : IsImage(images[k])
      BY SMTT(30) DEF RegistryInv, TypeOK, LoadTypes
    <3> QED
      BY <2>2, <3>1, <3>2 DEF IsImage
  <2> QED
    BY <2>1, <2>2 DEF RunInit
<1>2. Settled
  BY <1>1 DEF RunInit, Settled
<1>3. \A a : Ready(a) => Ready(a)'
  BY <1>2, ReadyStays
<1>4. \A u \in Threads : pc'[u] = "ctor" <=> pc[u] = "ctor"
  BY DEF RunInit, Goto, RegistryInv, TypeOK, ThreadTypes
<1>5. GlobalsReady'
  BY <1>3, <1>4 DEF AddressInv, GlobalsReady, RunInit, Publishing
<1>6. GotsReady' /\ SnapsReady' /\ LibrariesReady'
  <2>1. GotsReady'
    BY <1>0, <1>1, <1>3 DEF AddressInv, GotsReady
  <2>2. SnapsReady'
    BY <1>0, <1>3 DEF AddressInv, SnapsReady
  <2>3. LibrariesReady'
    BY <1>0, <1>1, <1>3 DEF AddressInv, LibrariesReady, Libs
  <2> QED
    BY <2>1, <2>2, <2>3
<1>7. CtorsUnderLock'
  <2>1. \A u \in Threads : pc[u] = "ctor" => cur[u] \in DOMAIN images
    BY DEF RegistryInv, TypeOK, LoadTypes, LoadsNested, PcMeaning
  <2> QED
    BY <1>0, <1>1, <1>4, <2>1 DEF AddressInv, CtorsUnderLock
<1>8. LoadsFresh'
  <2>1. DOMAIN loading \subseteq DOMAIN images
    BY DEF RegistryInv, TypeOK, LoadTypes
  <2> QED
    BY <1>0, <1>1, <2>1 DEF AddressInv, LoadsFresh
<1> QED
  BY <1>5, <1>6, <1>7, <1>8 DEF AddressInv

-----------------------------------------------------------------------------
(* The other steps, and the invariant.                                       *)

\* Steps that move a thread, a reference or an entry of todo only.
LEMMA PlainSteps ==
    ASSUME NEW t \in Threads, RegistryInv, AddressInv,
           \/ Queue(t) \/ OpenAgain(t) \/ SkipDep(t) \/ LoadDep(t) \/ DepsDone(t)
           \/ Close(t) \/ DlsymGlobal(t)
    PROVE  AddressInv'
<1>0. pc \in [Threads -> PcType] /\ \A h \in Libs : byHandle[h] \in LibraryType
  BY DEF RegistryInv, TypeOK, RegistryTypes, ThreadTypes
<1>1. CASE Queue(t)
  BY <1>1, PlainKeeps DEF Queue, Plain, regVars, loadVars, callVars
<1>2. CASE OpenAgain(t)
  <2>1. Registered(req[t].name)
    BY <1>2 DEF OpenAgain
  <2>2. /\ DOMAIN byHandle' = DOMAIN byHandle
        /\ \A h \in Libs : byHandle'[h].stub = byHandle[h].stub
    BY <1>0, <1>2, <2>1 DEF OpenAgain, Registered, Libs, LibraryType
  <2> QED
    BY <1>0, <1>2, <2>2, PlainKeeps DEF OpenAgain, Plain, WriteSection, Return, Goto, Libs
<1>3. CASE SkipDep(t) \/ LoadDep(t)
  <2>1. cur[t] \in DOMAIN loading /\ loading[cur[t]] \in LoadType
    BY <1>3 DEF RegistryInv, TypeOK, LoadTypes, LoadsNested, PcMeaning, SkipDep, LoadDep
  <2>2. loading' = [loading EXCEPT ![cur[t]].todo = Tail(@)]
    BY <1>3 DEF SkipDep, LoadDep
  <2>3. /\ DOMAIN loading' = DOMAIN loading
        /\ \A h \in DOMAIN loading : loading'[h].ctors = loading[h].ctors
    BY <2>1, <2>2 DEF LoadType
  <2> QED
    BY <1>0, <1>3, <2>3, PlainKeeps DEF SkipDep, LoadDep, Plain, regVars, lockVars, callVars, Goto
<1>4. CASE DepsDone(t)
  BY <1>0, <1>4, PlainKeeps DEF DepsDone, Plain, regVars, loadVars, lockVars, Goto
<1>5. CASE Close(t)
  <2>1. /\ DOMAIN byHandle' \subseteq DOMAIN byHandle
        /\ \A h \in DOMAIN byHandle' : byHandle'[h].stub = byHandle[h].stub
    BY <1>0, <1>5 DEF Close, Shared, Keep, Libs, LibraryType
  <2> QED
    BY <1>0, <1>5, <2>1, PlainKeeps DEF Close, Plain, loadVars, Goto
<1>6. CASE DlsymGlobal(t)
  BY <1>0, <1>6, PlainKeeps DEF DlsymGlobal, Plain, regVars, loadVars, Goto
<1> QED
  BY <1>1, <1>2, <1>3, <1>4, <1>5, <1>6

LEMMA StepAddresses ==
    ASSUME NEW t \in Threads, RegistryInv, AddressInv, Step(t)
    PROVE  AddressInv'
BY PlainSteps, OpenStubAddresses, OpenElfAddresses, LinkAddresses, FinishAddresses,
   AfterLoadAddresses, AddSymbolsAddresses, RunInitAddresses
DEF Step, LoadStep

\* The two wrappers copy global symbols when nobody is between Link and Finish.
LEMMA WrapperAddresses ==
    ASSUME NEW t \in Threads, RegistryInv, AddressInv,
           \/ \E n \in FmodNames : CallFmod(t, n)
           \/ \E n \in SqliteNames : CallSqlite(t, n)
    PROVE  AddressInv'
<1>1. /\ CanRead /\ pc' = [pc EXCEPT ![t] = "open"] /\ pc[t] = "idle"
      /\ UNCHANGED <<byHandle, globals, images, loading, cur, writer>>
      /\ snap' = [snap EXCEPT ![t] = Keep(globals, DlSyms)]
         \/ snap' = [snap EXCEPT ![t] = globals]
  BY DEF CallFmod, CallSqlite, Begin, Goto, regVars, lockVars
<1>2. Settled
  BY <1>1 DEF Settled
<1>3. \A a : Ready(a) => Ready(a)'
  BY <1>2, ReadyStays
<1>4. /\ \A u \in Threads : pc[u] # "ctor" /\ pc'[u] # "ctor"
      /\ \A s \in DOMAIN globals : Ready(globals[s])
  BY <1>1, FreeLock DEF CanRead, RegistryInv, TypeOK, ThreadTypes
<1>5. GlobalsReady' /\ GotsReady' /\ LibrariesReady' /\ LoadsFresh'
  BY <1>1, <1>3, <1>4
  DEF AddressInv, GlobalsReady, GotsReady, LibrariesReady, LoadsFresh, Libs
<1>6. SnapsReady'
  <2>1. /\ DOMAIN snap' = Threads /\ \A u \in Threads \ {t} : snap'[u] = snap[u]
        /\ snap'[t] = Keep(globals, DlSyms) \/ snap'[t] = globals
    BY <1>1 DEF AddressInv, SnapsReady
  <2>2. \A s \in DOMAIN snap'[t] : s \in DOMAIN globals /\ snap'[t][s] = globals[s]
    BY <2>1 DEF Keep
  <2> QED
    BY <1>3, <1>4, <2>1, <2>2 DEF AddressInv, SnapsReady
<1>7. CtorsUnderLock'
  BY <1>4 DEF CtorsUnderLock
<1> QED
  BY <1>5, <1>6, <1>7 DEF AddressInv

LEMMA CallAddresses ==
    ASSUME NEW t \in Threads, RegistryInv, AddressInv, Call(t)
    PROVE  AddressInv'
<1>0. pc \in [Threads -> PcType]
  BY DEF RegistryInv, TypeOK, ThreadTypes
<1>1. CASE \E r \in Requests : CallOpen(t, r)
  BY <1>0, <1>1, PlainKeeps DEF CallOpen, Begin, Goto, Plain, regVars, lockVars
<1>2. CASE \E h \in DOMAIN owners : \/ CallClose(t, h) \/ CallModHook(t, h) \/ CallAdd(t, h)
                                    \/ \E s \in Asked : DlsymOwn(t, h, s)
  BY <1>0, <1>2, PlainKeeps
  DEF CallClose, CallModHook, CallAdd, DlsymOwn, Begin, Goto, Plain, regVars, loadVars, lockVars
<1>3. CASE \E n \in InitNames : CallInit(t, n)
  BY <1>0, <1>3, PlainKeeps DEF CallInit, Begin, Goto, Plain, regVars, lockVars
<1> QED
  BY <1>1, <1>2, <1>3, WrapperAddresses DEF Call

LEMMA InitAddresses == Init => AddressInv
<1> SUFFICES ASSUME Init PROVE AddressInv
  OBVIOUS
<1>1. DOMAIN Empty = {}
  BY DEF Empty
<1> QED
  BY <1>1 DEF Init, AddressInv, GlobalsReady, GotsReady, SnapsReady, LibrariesReady, CtorsUnderLock,
              LoadsFresh, Libs

\* A step that leaves every variable alone.
LEMMA StutterAddresses == AddressInv /\ UNCHANGED vars => AddressInv'
<1> SUFFICES ASSUME AddressInv, UNCHANGED vars PROVE AddressInv'
  OBVIOUS
<1>1. Plain
  BY DEF Plain, vars, regVars, loadVars, lockVars, callVars
<1> QED
  BY <1>1, PlainKeeps

LEMMA NextAddresses == HandleInv /\ AddressInv /\ [Next]_vars => AddressInv'
<1> SUFFICES ASSUME HandleInv, AddressInv, [Next]_vars PROVE AddressInv'
  OBVIOUS
<1>1. ASSUME NEW t \in Threads, Call(t) \/ Step(t) PROVE AddressInv'
  BY <1>1, StepAddresses, CallAddresses DEF HandleInv
<1> QED
  BY <1>1, StutterAddresses DEF Next

LEMMA AddressesInvariant == Spec => []AddressInv
BY InitAddresses, NextAddresses, HandlesInvariant, PTL DEF Spec

\* Neither the global scope nor a GOT leads into an image that is mapped but not
\* relocated, although a load gives the lock up between the two and other threads
\* publish, restore and look up symbols meanwhile.
THEOREM AddressesLinked == Spec => []OnlyLinkedAddresses
<1>1. HandleInv /\ AddressInv => OnlyLinkedAddresses
  <2> SUFFICES ASSUME HandleInv, AddressInv PROVE OnlyLinkedAddresses
    OBVIOUS
  <2> DEFINE ok(a) == a \in {Launcher, Dispatch} \/ (a \in DOMAIN images /\ images[a].linked)
  <2>1. \A a : Ready(a) => ok(a)
    BY DEF Ready
  <2>2. \A a : Publishing(a) => ok(a)
    BY DEF Publishing, AddressInv, CtorsUnderLock, HandleInv, RegistryInv, TypeOK, LoadTypes,
           LoadsNested, PcMeaning
  <2>3. \A s \in DOMAIN globals : ok(globals[s])
    BY <2>1, <2>2 DEF AddressInv, GlobalsReady
  <2>4. \A h \in DOMAIN images : \A s \in DOMAIN images[h].got : ok(images[h].got[s])
    BY <2>1 DEF AddressInv, GotsReady
  <2> QED
    BY <2>3, <2>4 DEF OnlyLinkedAddresses
<1> QED
  BY <1>1, AddressesInvariant, HandlesInvariant, PTL

-----------------------------------------------------------------------------
(* Constructors.                                                             *)

LEMMA GameLoads ==
    ASSUME NEW t \in Threads, GameLoadedBare, RegistryInv, AddressInv, GameInv, LoadStep(t)
    PROVE  GameInv'
<1>0. /\ pc \in [Threads -> PcType] /\ req \in [Threads -> RequestType]
      /\ \A n \in DOMAIN byName : byName[n] \in Libs
      /\ \A h \in Libs : ~byHandle[h].stub => h \in DOMAIN images /\ h \notin DOMAIN loading
  BY DEF RegistryInv, TypeOK, ThreadTypes, NamesLive, AddressInv, LibrariesReady, LoadsNested
<1>1. CASE OpenAgain(t)
  <2>1. \A h \in Libs : byHandle'[h].stub = byHandle[h].stub
    BY <1>1 DEF OpenAgain, Registered, RegistryInv, TypeOK, RegistryTypes, LibraryType
  <2> QED
    BY <1>0, <1>1, <2>1 DEF GameInv, OpenAgain, Return, Goto
<1>2. CASE OpenStub(t)
  <2>1. \A n \in DOMAIN byName' \cap InitNames :
          ~byHandle'[byName'[n]].stub => ~images'[byName'[n]].ctors
    <3> SUFFICES ASSUME NEW n \in DOMAIN byName' \cap InitNames, ~byHandle'[byName'[n]].stub
                 PROVE  ~images'[byName'[n]].ctors
      OBVIOUS
    <3>1. n # req[t].name
      BY <1>2 DEF OpenStub, Insert
    <3>2. n \in DOMAIN byName /\ byName'[n] = byName[n]
      BY <1>2, <3>1 DEF OpenStub, Insert
    <3>3. byName[n] # nextHandle
      BY <1>0, <3>2, FreshHandle
    <3>4. byHandle'[byName[n]] = byHandle[byName[n]]
      BY <1>0, <1>2, <3>2, <3>3 DEF OpenStub, Insert, Libs
    <3> QED
      BY <1>2, <3>2, <3>4 DEF GameInv, OpenStub
  <2> QED
    BY <1>0, <1>2, <2>1 DEF GameInv, OpenStub, Return, Goto
<1>3. CASE OpenElf(t)
  <2> DEFINE n == req[t].name
  <2>1. /\ DOMAIN loading' = DOMAIN loading \cup {nextHandle}
        /\ \A h \in DOMAIN loading : loading'[h] = loading[h]
        /\ loading'[nextHandle].todo = Needed[n] /\ loading'[nextHandle].name = n
        /\ loading'[nextHandle].ctors = req[t].ctors
        /\ n \in Elf /\ pc[t] = "open"
    BY <1>3, FreshHandle DEF OpenElf, Insert
  <2>2. \A h \in DOMAIN loading' :
          /\ \A i \in DOMAIN loading'[h].todo : loading'[h].todo[i] \notin InitNames
          /\ loading'[h].name \in InitNames => ~loading'[h].ctors
    BY <2>1 DEF GameInv, GameLoadedBare
  <2>3. \A k \in DOMAIN images : images'[k] = images[k]
    BY <1>3, FreshHandle DEF OpenElf, Insert
  <2>4. \A m \in DOMAIN byName' \cap InitNames :
          ~byHandle'[byName'[m]].stub => ~images'[byName'[m]].ctors
    BY <1>0, <1>3, <2>3 DEF GameInv, OpenElf
  <2> QED
    BY <1>0, <1>3, <2>2, <2>4 DEF GameInv, OpenElf, Goto
<1>4. CASE SkipDep(t) \/ LoadDep(t)
  <2> DEFINE h == cur[t]
  <2>1. /\ h \in DOMAIN loading /\ loading[h].todo \in Seq(Names) /\ loading[h].todo # <<>>
        /\ loading[h] \in LoadType
    BY <1>4 DEF RegistryInv, TypeOK, LoadTypes, LoadType, LoadsNested, PcMeaning, SkipDep, LoadDep
  <2>2. loading' = [loading EXCEPT ![h].todo = Tail(@)]
    BY <1>4 DEF SkipDep, LoadDep
  <2>3. /\ DOMAIN loading' = DOMAIN loading
        /\ \A k \in DOMAIN loading : loading'[k].name = loading[k].name
                                     /\ loading'[k].ctors = loading[k].ctors
        /\ \A k \in DOMAIN loading \ {h} : loading'[k] = loading[k]
        /\ loading'[h].todo = Tail(loading[h].todo)
    BY <2>1, <2>2 DEF LoadType
  <2>4. \A i \in DOMAIN Tail(loading[h].todo) : Tail(loading[h].todo)[i] \notin InitNames
    <3> DEFINE todo == loading[h].todo
    <3>1. \A i \in DOMAIN todo : todo[i] \notin InitNames
      BY <2>1 DEF GameInv
    <3>2. \A i \in DOMAIN Tail(todo) : i + 1 \in DOMAIN todo /\ Tail(todo)[i] = todo[i + 1]
      BY <2>1
    <3> QED
      BY <3>1, <3>2
  <2>5. \A k \in DOMAIN loading' :
          /\ \A i \in DOMAIN loading'[k].todo : loading'[k].todo[i] \notin InitNames
          /\ loading'[k].name \in InitNames => ~loading'[k].ctors
    BY <2>3, <2>4 DEF GameInv
  <2>6. Head(loading[h].todo) \notin InitNames
    BY <2>1 DEF GameInv
  <2>7. \A u \in Threads :
          /\ pc'[u] = "open" /\ req'[u].name \in InitNames => ~req'[u].ctors
          /\ pc'[u] = "init" => req'[u].name \in InitNames
    <3>1. CASE SkipDep(t)
      BY <3>1 DEF GameInv, SkipDep, callVars
    <3>2. CASE LoadDep(t)
      BY <1>0, <2>6, <3>2 DEF GameInv, LoadDep, Goto, Request
    <3> QED
      BY <1>4, <3>1, <3>2
  <2>8. UNCHANGED <<byName, byHandle, images>>
    BY <1>4 DEF SkipDep, LoadDep, regVars
  <2> QED
    BY <2>5, <2>7, <2>8 DEF GameInv
<1>5. CASE DepsDone(t)
  BY <1>0, <1>5 DEF GameInv, DepsDone, regVars, loadVars, Goto
<1>6. CASE Link(t)
  <2>1. \A k \in DOMAIN images : images'[k].ctors = images[k].ctors
    BY <1>6, SMTT(30) DEF Link, RegistryInv, TypeOK, LoadTypes, IsImage
  <2>2. DOMAIN images' = DOMAIN images
    BY <1>6, SMTT(30) DEF Link
  <2>3. /\ UNCHANGED <<loading, req, byName, byHandle>>
        /\ \A u \in Threads : pc'[u] \in {"open", "init"} => pc'[u] = pc[u]
    BY <1>0, <1>6 DEF Link, loadVars, Goto
  <2> QED
    BY <1>0, <2>1, <2>2, <2>3 DEF GameInv
<1>7. CASE Finish(t)
  <2> DEFINE h == cur[t]
             f == loading[h]
  <2>0. /\ h \in DOMAIN loading /\ h \in DOMAIN images /\ h \notin Libs /\ f.name \in Elf
        /\ images[h].ctors = f.ctors
    BY <1>7 DEF RegistryInv, TypeOK, LoadTypes, LoadType, LoadsNested, PcMeaning, AddressInv,
                LoadsFresh, Finish
  <2>1. \A k \in DOMAIN images : images'[k].ctors = images[k].ctors
    BY <1>7 DEF Finish, RegistryInv, TypeOK, LoadTypes, IsImage
  <2>2. \A n \in DOMAIN byName' \cap InitNames :
          ~byHandle'[byName'[n]].stub => ~images'[byName'[n]].ctors
    <3> SUFFICES ASSUME NEW n \in DOMAIN byName' \cap InitNames, ~byHandle'[byName'[n]].stub
                 PROVE  ~images'[byName'[n]].ctors
      OBVIOUS
    <3>1. CASE n \in {Soname[f.name], f.name}
      <4>1. byName'[n] = h
        BY <1>7, <3>1 DEF Finish, Overlay, All
      <4>2. f.name \in InitNames
        BY <2>0, <3>1 DEF GameLoadedBare
      <4> QED
        BY <2>0, <2>1, <4>1, <4>2 DEF GameInv
    <3>2. CASE n \notin {Soname[f.name], f.name}
      <4>1. n \in DOMAIN byName /\ byName'[n] = byName[n]
        BY <1>7, <3>2 DEF Finish, Overlay, All
      <4>2. byName[n] # h /\ byHandle'[byName[n]] = byHandle[byName[n]]
        BY <1>0, <1>7, <2>0, <4>1 DEF Finish, Insert, Libs
      <4> QED
        BY <1>0, <2>1, <4>1, <4>2 DEF GameInv
    <3> QED
      BY <3>1, <3>2
  <2>3. /\ DOMAIN loading' \subseteq DOMAIN loading
        /\ \A k \in DOMAIN loading' : loading'[k] = loading[k]
    BY <1>7 DEF Finish, Keep
  <2>4. \A u \in Threads : pc'[u] \in {"open", "init"} => pc[u] = pc'[u] /\ req'[u] = req[u]
    BY <1>0, <1>7 DEF Finish, Return, Goto
  <2> QED
    BY <2>2, <2>3, <2>4 DEF GameInv
<1>8. CASE AfterLoad(t)
  BY <1>0, <1>8 DEF GameInv, AfterLoad, Goto
<1> QED
  BY <1>1, <1>2, <1>3, <1>4, <1>5, <1>6, <1>7, <1>8 DEF LoadStep

LEMMA GameSteps ==
    ASSUME NEW t \in Threads, GameLoadedBare, RegistryInv, AddressInv, GameInv, Step(t)
    PROVE  GameInv'
<1>0. /\ pc \in [Threads -> PcType] /\ \A n \in DOMAIN byName : byName[n] \in Libs
      /\ \A h \in Libs : byHandle[h] \in LibraryType
      /\ \A h \in Libs : ~byHandle[h].stub => h \in DOMAIN images
  BY DEF RegistryInv, TypeOK, RegistryTypes, ThreadTypes, NamesLive, AddressInv, LibrariesReady
<1>1. CASE Queue(t)
  BY <1>1 DEF GameInv, Queue, regVars, loadVars, callVars
<1>2. CASE Close(t)
  <2>1. /\ DOMAIN byName' \subseteq DOMAIN byName
        /\ \A n \in DOMAIN byName' : byName'[n] = byName[n]
    BY <1>2 DEF Close, NamesForgotten, Keep
  <2>2. \A n \in DOMAIN byName' : byHandle'[byName[n]].stub = byHandle[byName[n]].stub
    <3>1. CASE Shared(arg[t])
      BY <1>0, <1>2, <2>1, <3>1 DEF Close, Shared, Libs, LibraryType
    <3>2. CASE ~Shared(arg[t])
      <4>1. \A n \in DOMAIN byName' : byName[n] # arg[t]
        BY <1>0, <1>2, <3>2 DEF Close, NamesForgotten, Keep
      <4> QED
        BY <1>0, <1>2, <2>1, <3>2, <4>1 DEF Close, Keep, Libs
    <3> QED
      BY <3>1, <3>2
  <2> QED
    BY <1>0, <1>2, <2>1, <2>2 DEF GameInv, Close, loadVars, Goto
<1>3. CASE DlsymGlobal(t)
  BY <1>0, <1>3 DEF GameInv, DlsymGlobal, regVars, loadVars, Goto
<1>4. CASE AddSymbols(t)
  <2>1. \A h \in Libs : byHandle'[h].stub = byHandle[h].stub
    BY <1>0, <1>4 DEF AddSymbols, Libs, LibraryType
  <2> QED
    BY <1>0, <1>4, <2>1 DEF GameInv, AddSymbols, loadVars, Goto
<1>5. CASE RunInit(t)
  <2>1. \A k \in DOMAIN images : images'[k].ctors = images[k].ctors
    BY <1>5 DEF RunInit, RegistryInv, TypeOK, LoadTypes, IsImage
  <2>2. \A u \in Threads : pc'[u] \in {"open", "init"} => pc[u] = pc'[u] /\ req'[u] = req[u]
    BY <1>0, <1>5 DEF RunInit, Goto
  <2> QED
    BY <1>0, <1>5, <2>1, <2>2 DEF GameInv, RunInit
<1> QED
  BY <1>1, <1>2, <1>3, <1>4, <1>5, GameLoads DEF Step

LEMMA GameCalls ==
    ASSUME NEW t \in Threads, GameLoadedBare, RegistryInv, GameInv, Call(t)
    PROVE  GameInv'
<1>0. /\ pc \in [Threads -> PcType] /\ req \in [Threads -> RequestType]
  BY DEF RegistryInv, TypeOK, ThreadTypes
<1>1. UNCHANGED <<byName, byHandle, images, loading>>
  BY DEF Call, CallOpen, CallFmod, CallSqlite, CallClose, CallModHook, CallAdd, DlsymOwn, CallInit,
         regVars, loadVars
<1>2. \A u \in Threads :
        /\ pc'[u] = "open" /\ req'[u].name \in InitNames => ~req'[u].ctors
        /\ pc'[u] = "init" => req'[u].name \in InitNames
  <2>1. CASE \E r \in Requests : CallOpen(t, r)
    BY <1>0, <2>1 DEF GameInv, CallOpen, Goto
  <2>2. CASE \E n \in FmodNames : CallFmod(t, n)
    BY <1>0, <2>2 DEF GameInv, GameLoadedBare, CallFmod, Goto, Request
  <2>3. CASE \E n \in SqliteNames : CallSqlite(t, n)
    BY <1>0, <2>3 DEF GameInv, CallSqlite, Goto, Request
  <2>4. CASE \E n \in InitNames : CallInit(t, n)
    BY <1>0, <2>4 DEF GameInv, CallInit, Goto
  <2>5. CASE \E h \in DOMAIN owners : \/ CallClose(t, h) \/ CallModHook(t, h) \/ CallAdd(t, h)
                                      \/ \E s \in Asked : DlsymOwn(t, h, s)
    BY <1>0, <2>5 DEF GameInv, CallClose, CallModHook, CallAdd, DlsymOwn, Goto, loadVars
  <2> QED
    BY <2>1, <2>2, <2>3, <2>4, <2>5 DEF Call
<1> QED
  BY <1>1, <1>2 DEF GameInv

\* Constructors run in an image when its own load ends, if it is bound, and
\* later only in the game, which was loaded without them.
LEMMA StepsRunBound ==
    ASSUME NEW t \in Threads, RegistryInv, AddressInv, GameInv, BoundWhenInitialised,
           Call(t) \/ Step(t)
    PROVE  BoundWhenInitialised'
<1>0. \A h \in DOMAIN images : IsImage(images[h])
  BY DEF RegistryInv, TypeOK, LoadTypes
<1>1. CASE images' = images
  BY <1>1 DEF BoundWhenInitialised
<1>2. CASE OpenElf(t)
  <2>1. \A h \in DOMAIN images' : \/ h \in DOMAIN images /\ images'[h] = images[h]
                                  \/ images'[h].inits = 0
    BY <1>2 DEF OpenElf, Insert
  <2> QED
    BY <2>1 DEF BoundWhenInitialised
<1>3. CASE Link(t)
  <2> DEFINE h == cur[t]
  <2>1. h \in DOMAIN loading /\ h \in DOMAIN images
    BY <1>3 DEF RegistryInv, TypeOK, LoadTypes, LoadsNested, PcMeaning, Link
  <2>2. DOMAIN images' = DOMAIN images /\ images'[h].inits = images[h].inits
        /\ \A k \in DOMAIN images \ {h} : images'[k] = images[k]
    <3>1. PICK got, bound :
            images' = [images EXCEPT ![h].got = got, ![h].linked = TRUE, ![h].bound = bound]
      BY <1>3 DEF Link
    <3> QED
      BY <1>0, <2>1, <3>1 DEF IsImage
  <2>3. images[h].inits = 0
    BY <2>1 DEF AddressInv, LoadsFresh
  <2> QED
    BY <2>2, <2>3, SMTT(30) DEF BoundWhenInitialised
<1>4. CASE Finish(t)
  <2> DEFINE h == cur[t]
  <2>1. h \in DOMAIN loading /\ h \in DOMAIN images
    BY <1>4 DEF RegistryInv, TypeOK, LoadTypes, LoadsNested, PcMeaning, Finish
  <2>2. DOMAIN images' = DOMAIN images /\ images'[h].bound = images[h].bound
        /\ (~RunsCtors(h) => images'[h].inits = images[h].inits)
        /\ \A k \in DOMAIN images \ {h} : images'[k] = images[k]
    BY <1>0, <1>4, <2>1 DEF Finish, IsImage
  <2>3. images[h].inits = 0
    BY <2>1 DEF AddressInv, LoadsFresh
  <2> QED
    BY <2>2, <2>3 DEF BoundWhenInitialised, RunsCtors
<1>5. CASE RunInit(t) /\ images' # images
  <2> DEFINE h == byName[req[t].name]
  <2>1. Registered(req[t].name) /\ ~byHandle[h].stub
        /\ images' = [images EXCEPT ![h].inits = @ + 1]
    BY <1>5 DEF RunInit
  <2>2. h \in DOMAIN images
    BY <2>1 DEF Registered, AddressInv, LibrariesReady
  <2>3. ~images[h].ctors
    BY <1>5, <2>1 DEF GameInv, Registered, RunInit
  <2> QED
    BY <1>0, <2>1, <2>2, <2>3 DEF BoundWhenInitialised, IsImage
<1> QED
  BY <1>1, <1>2, <1>3, <1>4, <1>5
  DEF Call, Step, LoadStep, CallOpen, CallFmod, CallSqlite, CallClose, CallModHook, CallAdd, DlsymOwn,
      CallInit, Queue, OpenAgain, OpenStub, SkipDep, LoadDep, DepsDone, AfterLoad, Close,
      DlsymGlobal, AddSymbols, regVars, loadVars

LEMMA InitBare == Init => GameInv /\ BoundWhenInitialised
<1> SUFFICES ASSUME Init PROVE GameInv /\ BoundWhenInitialised
  OBVIOUS
<1>1. DOMAIN Empty = {}
  BY DEF Empty
<1> QED
  BY <1>1 DEF Init, GameInv, BoundWhenInitialised

LEMMA NextBare ==
    ASSUME GameLoadedBare
    PROVE  HandleInv /\ AddressInv /\ GameInv /\ BoundWhenInitialised /\ [Next]_vars
             => GameInv' /\ BoundWhenInitialised'
<1> SUFFICES ASSUME HandleInv, AddressInv, GameInv, BoundWhenInitialised, [Next]_vars
             PROVE  GameInv' /\ BoundWhenInitialised'
  OBVIOUS
<1>1. ASSUME NEW t \in Threads, Call(t) \/ Step(t) PROVE GameInv' /\ BoundWhenInitialised'
  BY <1>1, GameSteps, GameCalls, StepsRunBound DEF HandleInv
<1>2. CASE UNCHANGED vars
  BY <1>2 DEF GameInv, BoundWhenInitialised, vars, regVars, loadVars, callVars
<1> QED
  BY <1>1, <1>2 DEF Next

\* As long as the game is only ever loaded the way the client loads it, an image
\* runs its constructors only fully bound, and every initialised image relies on
\* initialised ones; together with AddressesLinked this is AddressesSound.
THEOREM AddressesStaySound ==
    ASSUME GameLoadedBare
    PROVE  Spec => []AddressesSound
<1>1. HandleInv /\ AddressInv /\ BoundWhenInitialised => InitBeforeUse
  <2> SUFFICES ASSUME HandleInv, AddressInv, BoundWhenInitialised,
                      NEW h \in DOMAIN images, images[h].ctors, images[h].inits > 0
               PROVE  /\ images[h].bound
                      /\ \A s \in DOMAIN images[h].got :
                           LET a == images[h].got[s]
                           IN  a \in DOMAIN images /\ images[a].ctors /\ images[a].bound
                                 => images[a].inits > 0
    BY DEF InitBeforeUse
  <2>1. images[h].bound
    BY DEF BoundWhenInitialised
  <2>2. h \notin DOMAIN loading
    BY DEF AddressInv, LoadsFresh
  <2>3. \A s \in DOMAIN images[h].got : Ready(images[h].got[s])
    BY <2>2 DEF AddressInv, GotsReady
  <2>4. Launcher \notin DOMAIN images /\ Dispatch \notin DOMAIN images
    BY DEF HandleInv, RegistryInv, TypeOK, RegistryTypes, LoadTypes, Handles, Launcher, Dispatch
  <2> QED
    BY <2>1, <2>3, <2>4 DEF Ready
<1>2. Spec => [](GameInv /\ BoundWhenInitialised)
  BY InitBare, NextBare, HandlesInvariant, AddressesInvariant, PTL DEF Spec
<1> QED
  BY <1>1, <1>2, HandlesInvariant, AddressesInvariant, AddressesLinked, PTL DEF AddressesSound

=============================================================================
