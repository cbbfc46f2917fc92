----------------------------- MODULE MCPlatform -----------------------------
(***************************************************************************)
(* Instances of the components that stand in for Android below the game:   *)
(* the linker's work on one file, libc-shim and the hook manager.  The     *)
(* components share no state, so they are checked one at a time: component *)
(* says whose turn it is, and the others keep their initial state.         *)
(***************************************************************************)
EXTENDS Segments, SymbolTables, Relocations, TlsModules, LibDl, BionicPort,
        HookManager, Pthreads, ThreadLife, Stdio, Epoll

CONSTANTS n1, n2, n3, t1, t2, game, dep, symF, symG, mutex1, cond1,
          rwlock1, once1, w1, w2, w3, fd1

\* Segments that do not share a page, with offset and address congruent, as
\* the linkers that make libraries lay them out; the last may have a bss.
Segment(o, v, fs, ms, w) ==
    [type |-> "load", offset |-> o, vaddr |-> v, filesz |-> fs, memsz |-> ms, writable |-> w]
TableAt(v) == [type |-> "phdr", vaddr |-> v]
MCLayouts ==
    {<<>>} \cup
    {own \o <<Segment(0, 0, 3, 3, FALSE)>> \o data :
        own \in {<<>>, <<TableAt(0)>>, <<TableAt(3)>>},
        data \in {<<>>} \cup {<<Segment(o, 4 + (o % 2), fs, ms, TRUE)>> :
                       o \in {3, 4}, fs \in 0 .. 2, ms \in {2, 5}}}

\* n1 and n2 collide in both tables; n3 differs from them in the bloom filter.
MCGnuHash == (n1 :> 6) @@ (n2 :> 6) @@ (n3 :> 9)
MCElfHash == (n1 :> 1) @@ (n2 :> 1) @@ (n3 :> 2)

\* Tables as linkers emit them: GLOB_DAT and JUMP_SLOT without addend.
MCEntry(y, s, a, p) == [type |-> y, sym |-> s, addend |-> a, place |-> p]
MCSymbolic(p) ==
    {MCEntry(y, s, IF y = "glob_dat" THEN 0 ELSE 14, p) : y \in {"64", "pc32", "glob_dat"}, s \in 1 .. 2}
MCEntries(p) ==
    {MCEntry("relative", 0, 3, p), MCEntry("irelative", 0, 3, p), MCEntry("none", 0, 0, p)} \cup
    {MCEntry(y, 1, 2, p) : y \in {"32", "copy", "dtpmod", "dtpoff", "tpoff", "tlsdesc"}} \cup MCSymbolic(p)
MCAbsolute(p) == {MCEntry("64", s, p, p) : s \in 1 .. 2}
MCTables == {<<a, b>> : a \in MCEntries(1), b \in MCSymbolic(2)} \cup
            {<<a, b, c, d>> : a \in MCAbsolute(1), b \in MCAbsolute(2),
                              c \in MCAbsolute(4), d \in MCAbsolute(5)}
MCPltTables == {<<>>} \cup {<<[type |-> "jump_slot", sym |-> 1, addend |-> 0, place |-> 3]>>}
MCSymbolKinds ==
    {<<[hook |-> h, global |-> g, weak |-> w], [hook |-> -1, global |-> 7, weak |-> FALSE]>> :
        h \in {-1, 5}, g \in {-1, 14}, w \in BOOLEAN}

\* Libraries of whole units: some share a granule, one wraps round the values.
MCCfiLibraries ==
    {l \in {[base |-> b, size |-> s, check |-> IF c = -1 THEN 0 ELSE b + c] :
        b \in {4, 10, 16}, s \in {5, 12, 18}, c \in {-1, 0, 5}} : l.check < l.base + l.size}

MCMember(s, i, a) == [step |-> s, info |-> i, addend |-> a]
\* Steps and addends that are small, negative and of two bytes.
MCPackedGroups ==
    {[byOffset |-> o, byInfo |-> i, addends |-> a,
      members |-> <<MCMember(s, 9, d)>> \o
         IF long THEN <<MCMember(s, 9, 60), MCMember(s, IF i THEN 9 ELSE 8, 1)>> ELSE <<>>] :
        o, i, long \in BOOLEAN, a \in {"none", "own", "shared"}, s \in {3, 40}, d \in {60}}

MCSet(n, v) == [kind |-> "assign", name |-> n, value |-> v]
MCMore(n, v) == [kind |-> "append", name |-> n, value |-> v]
MCHeader(s) == [kind |-> "section", name |-> s]
MCConfigLines ==
    {MCSet(<<"dir", "app">>, <<"/system">>), MCHeader("app"), MCHeader("other"),
     MCSet(<<"additional", "namespaces">>, <<"vndk">>), MCMore(<<"additional", "namespaces">>, <<"vndk">>),
     MCSet(<<"namespace", "default", "links">>, <<"vndk">>),
     MCMore(<<"namespace", "default", "link", "vndk", "shared_libs">>, <<"libc">>),
     MCMore(<<"namespace", "default", "link", "vndk", "allow_all_shared_libs">>, <<"true">>)}
\* Any three lines, and sections long enough to have a link.
MCConfigFiles ==
    UNION {[1 .. n -> MCConfigLines] : n \in 1 .. 3} \cup
    {<<MCSet(<<"dir", "app">>, <<"/system">>), MCHeader("app")>> \o lines :
        lines \in [1 .. 4 -> {l \in MCConfigLines : l.kind # "section" /\ l.name[1] # "dir"}]}

\* A game that needs a library: each exports a symbol and has slots for both.
TwoLibs == {game, dep}
TwoSyms == {symF, symG}
GameG == {<<game, symG>>}
GameNeedsDep == [l \in TwoLibs |-> IF l = game THEN {dep} ELSE {}]
OwnExports == [l \in TwoLibs |-> IF l = game THEN {symG} ELSE {symF}]
AllRelocs == [l \in TwoLibs |-> IF l = game THEN {symF, symG} ELSE {symF}]

\* The one mutex has the initial value of a recursive one.
RecursiveMutex == [x \in {mutex1} |-> "recursive"]

VARIABLE component     \* the component this behaviour is about

allVars == <<component, segmentVars, symbolVars, relocationVars, tlsVars,
             blockVars, dlVars, gdbVars, cfiVars, packedVars, configVars,
             hookVars, pthreadVars, threadLifeVars, stdioVars, epollVars>>

Components == {"segments", "symbols", "relocations", "tls", "blocks",
               "libdl", "gdb", "cfi", "packed", "config", "hooks",
               "pthreads", "threads", "stdio", "epoll"}

SuiteInit ==
    /\ component \in Components
    /\ SegmentsInit
    /\ SymbolsInit
    /\ RelocationInit
    /\ TlsInit
    /\ AllocatorInit
    /\ LibDlInit
    /\ GdbInit
    /\ CfiInit
    /\ PackedInit
    /\ ConfigInit
    /\ HookInit
    /\ PthreadInit
    /\ ThreadLifeInit
    /\ StdioInit
    /\ EpollInit

OnlySegments == component = "segments" /\ UNCHANGED <<component,
             symbolVars, relocationVars, tlsVars, blockVars, dlVars,
             gdbVars, cfiVars, packedVars, configVars, hookVars,
             pthreadVars, threadLifeVars, stdioVars, epollVars>>
OnlySymbols == component = "symbols" /\ UNCHANGED <<component, segmentVars,
             relocationVars, tlsVars, blockVars, dlVars, gdbVars, cfiVars,
             packedVars, configVars, hookVars, pthreadVars, threadLifeVars,
             stdioVars, epollVars>>
OnlyRelocations == component = "relocations" /\ UNCHANGED <<component,
             segmentVars, symbolVars, tlsVars, blockVars, dlVars, gdbVars,
             cfiVars, packedVars, configVars, hookVars, pthreadVars,
             threadLifeVars, stdioVars, epollVars>>
OnlyTls == component = "tls" /\ UNCHANGED <<component, segmentVars,
             symbolVars, relocationVars, blockVars, dlVars, gdbVars,
             cfiVars, packedVars, configVars, hookVars, pthreadVars,
             threadLifeVars, stdioVars, epollVars>>
OnlyBlocks == component = "blocks" /\ UNCHANGED <<component, segmentVars,
             symbolVars, relocationVars, tlsVars, dlVars, gdbVars, cfiVars,
             packedVars, configVars, hookVars, pthreadVars, threadLifeVars,
             stdioVars, epollVars>>
OnlyLibdl == component = "libdl" /\ UNCHANGED <<component, segmentVars,
             symbolVars, relocationVars, tlsVars, blockVars, gdbVars,
             cfiVars, packedVars, configVars, hookVars, pthreadVars,
             threadLifeVars, stdioVars, epollVars>>
OnlyGdb == component = "gdb" /\ UNCHANGED <<component, segmentVars,
             symbolVars, relocationVars, tlsVars, blockVars, dlVars,
             cfiVars, packedVars, configVars, hookVars, pthreadVars,
             threadLifeVars, stdioVars, epollVars>>
OnlyCfi == component = "cfi" /\ UNCHANGED <<component, segmentVars,
             symbolVars, relocationVars, tlsVars, blockVars, dlVars,
             gdbVars, packedVars, configVars, hookVars, pthreadVars,
             threadLifeVars, stdioVars, epollVars>>
OnlyPacked == component = "packed" /\ UNCHANGED <<component, segmentVars,
             symbolVars, relocationVars, tlsVars, blockVars, dlVars,
             gdbVars, cfiVars, configVars, hookVars, pthreadVars,
             threadLifeVars, stdioVars, epollVars>>
OnlyConfig == component = "config" /\ UNCHANGED <<component, segmentVars,
             symbolVars, relocationVars, tlsVars, blockVars, dlVars,
             gdbVars, cfiVars, packedVars, hookVars, pthreadVars,
             threadLifeVars, stdioVars, epollVars>>
OnlyHooks == component = "hooks" /\ UNCHANGED <<component, segmentVars,
             symbolVars, relocationVars, tlsVars, blockVars, dlVars,
             gdbVars, cfiVars, packedVars, configVars, pthreadVars,
             threadLifeVars, stdioVars, epollVars>>
OnlyPthreads == component = "pthreads" /\ UNCHANGED <<component,
             segmentVars, symbolVars, relocationVars, tlsVars, blockVars,
             dlVars, gdbVars, cfiVars, packedVars, configVars, hookVars,
             threadLifeVars, stdioVars, epollVars>>
OnlyThreads == component = "threads" /\ UNCHANGED <<component, segmentVars,
             symbolVars, relocationVars, tlsVars, blockVars, dlVars,
             gdbVars, cfiVars, packedVars, configVars, hookVars,
             pthreadVars, stdioVars, epollVars>>
OnlyStdio == component = "stdio" /\ UNCHANGED <<component, segmentVars,
             symbolVars, relocationVars, tlsVars, blockVars, dlVars,
             gdbVars, cfiVars, packedVars, configVars, hookVars,
             pthreadVars, threadLifeVars, epollVars>>
OnlyEpoll == component = "epoll" /\ UNCHANGED <<component, segmentVars,
             symbolVars, relocationVars, tlsVars, blockVars, dlVars,
             gdbVars, cfiVars, packedVars, configVars, hookVars,
             pthreadVars, threadLifeVars, stdioVars>>

SuiteNext ==
    \/ OnlySegments /\ SegmentsNext
    \/ OnlySymbols /\ SymbolsNext
    \/ OnlyRelocations /\ RelocationNext
    \/ OnlyTls /\ TlsNext
    \/ OnlyBlocks /\ AllocatorNext
    \/ OnlyLibdl /\ LibDlNext
    \/ OnlyGdb /\ GdbNext
    \/ OnlyCfi /\ CfiNext
    \/ OnlyPacked /\ PackedNext
    \/ OnlyConfig /\ ConfigNext
    \/ OnlyHooks /\ HookNext
    \/ OnlyPthreads /\ PthreadNext
    \/ OnlyThreads /\ ThreadLifeNext
    \/ OnlyStdio /\ StdioNext
    \/ OnlyEpoll /\ EpollNext

SuiteSpec ==
    /\ SuiteInit /\ [][SuiteNext]_allVars
    /\ \A t \in DlThreads : WF_allVars(OnlyLibdl /\ Answered(t))
    /\ \A t \in DlThreads : WF_allVars(OnlyLibdl /\ CallbackReturns(t))
=============================================================================
