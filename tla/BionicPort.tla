---------------------------- MODULE BionicPort -----------------------------
(***************************************************************************)
(* Three parts of the linker that are ported from bionic: the list of      *)
(* libraries a debugger follows, the shadow of control flow integrity, and *)
(* the reader of the configuration file.  They share no state.             *)
(***************************************************************************)
EXTENDS Integers, Sequences, FiniteSets, SequencesExt

\* s without its element x.
Dropped(s, x) == RemoveAt(s, CHOOSE i \in 1 .. Len(s) : s[i] = x)

(***************************************************************************)
(* The shadow of control flow integrity, cfi.rs: one 16 bit value for each *)
(* granule of memory says how far below it the __cfi_check of the library  *)
(* there lies.  Addresses are counted in units of K_CFI_CHECK_ALIGN.       *)
(***************************************************************************)
CONSTANTS Granule,       \* K_SHADOW_ALIGN in those units: the step between granules
          ShadowValues,  \* number of values of a slot (2^16)
          MaxGranules,   \* the address space
          CfiLibraries   \* [base, size, check] of each library; check 0: it has none

\* A library lies in the address space, and its __cfi_check in the library.
ASSUME CfiAssumption ==
    /\ Granule \in Nat \ {0} /\ MaxGranules \in Nat
    /\ ShadowValues \in Nat /\ ShadowValues > Granule + 2
    /\ \A l \in CfiLibraries :
          /\ l.base \in Nat /\ l.size \in Nat \ {0} /\ l.check \in Nat
          /\ l.check = 0 \/ (l.base <= l.check /\ l.check < l.base + l.size)
          /\ l.base + l.size <= (MaxGranules + 1) * Granule

VARIABLES shadow,        \* the slots, or <<>> while there is no shadow
          inSolist,        \* the libraries of the solist, in order
          linkDone,      \* initial_link_done
          wiped          \* ghost: granules invalidated under a library that still has them

cfiVars == <<shadow, inSolist, linkDone, wiped>>

Invalid == 0
Unchecked == 1
RegularMin == 2
HasShadow == shadow # <<>>
Empty == [g \in 0 .. MaxGranules |-> Invalid]
Libs == {inSolist[i] : i \in 1 .. Len(inSolist)}

\* The granules of [from, to), and where the range covered with regular
\* values starts.
GranulesOf(from, to) == {g \in 0 .. MaxGranules : from \div Granule <= g /\ g <= (to - 1) \div Granule}
Granules(l) == GranulesOf(l.base, l.base + l.size)
CoveredFrom(l) ==
    LET from == IF l.base > l.check THEN l.base ELSE l.check IN from - (from % Granule)

AddConstant(s, from, to, v) ==
    [g \in DOMAIN s |-> IF from < to /\ g \in GranulesOf(from, to) THEN v ELSE s[g]]

\* add: the value grows by the step with each granule; a slot in use, or one
\* whose value has wrapped around, is left unchecked.
\* Mutant: a slot in use is overwritten.
Overwritten(old, v, first) == IF v < first THEN Unchecked ELSE v
SlotValue(old, v, first) == IF v < first \/ old # Invalid THEN Unchecked ELSE v

Add(s, l) ==
    LET from == CoveredFrom(l)
        first == (from + Granule - l.check + RegularMin) % ShadowValues
    IN  [g \in DOMAIN s |->
            IF from < l.base + l.size /\ g \in GranulesOf(from, l.base + l.size)
            THEN SlotValue(s[g], (first + (g - from \div Granule) * Granule) % ShadowValues, first)
            ELSE s[g]]

AddLibrary(s, l) ==
    IF l.check = 0 THEN AddConstant(s, l.base, l.base + l.size, Unchecked) ELSE Add(s, l)
AddAll(s, ls) ==
    LET added[i \in 0 .. Len(ls)] == IF i = 0 THEN s ELSE AddLibrary(added[i - 1], ls[i])
    IN  added[Len(ls)]

CfiInit ==
    /\ shadow = <<>> /\ inSolist = <<>> /\ linkDone = FALSE
    /\ wiped = {}

\* map_shadow may fail.
MaybeInit(wanted, ls) ==
    \/ ~wanted /\ UNCHANGED shadow
    \/ wanted /\ shadow' \in {shadow, AddAll(Empty, ls)}

\* Libraries do not overlap in memory; after_load is called with the new one
\* in the solist.
AfterLoad ==
    \E l \in CfiLibraries :
       /\ \A o \in Libs : l.base >= o.base + o.size \/ o.base >= l.base + l.size
       /\ inSolist' = Append(inSolist, l)
       /\ \/ ~linkDone /\ UNCHANGED shadow
          \/ linkDone /\ ~HasShadow /\ MaybeInit(l.check # 0, inSolist')
          \/ HasShadow /\ shadow' = AddLibrary(shadow, l)
       /\ UNCHANGED <<linkDone, wiped>>

BeforeUnload ==
    \E l \in Libs :
       /\ shadow' = IF HasShadow THEN AddConstant(shadow, l.base, l.base + l.size, Invalid) ELSE shadow
       /\ inSolist' = Dropped(inSolist, l)
       /\ wiped' = (wiped \cup Granules(l)) \cap UNION {Granules(o) : o \in Libs \ {l}}
       /\ UNCHANGED linkDone

InitialLinkDone ==
    /\ ~linkDone /\ linkDone' = TRUE
    /\ MaybeInit(\E l \in Libs : l.check # 0, inSolist)
    /\ UNCHANGED <<inSolist, wiped>>

CfiNext == AfterLoad \/ BeforeUnload \/ InitialLinkDone
CfiSpec == CfiInit /\ [][CfiNext]_cfiVars

-----------------------------------------------------------------------------
\* What __cfi_slowpath works out of the slot of an address.
CheckFrom(a) == a - (a % Granule) + Granule - (shadow[a \div Granule] - RegularMin)
CoveredOf(l) == GranulesOf(CoveredFrom(l), l.base + l.size)

\* A regular value leads from any address at or above the check function to
\* the check function of the library there; the slots of a library
\* are never invalid from its check function on; and a granule two libraries
\* share there is never checked against one of them.  All this ends for a
\* granule when one of the libraries that share it is unloaded: the code makes
\* it invalid under the other.
\* Libraries are shorter than the values count by a granule (256 MB in the code,
\* less 256 KB: a longer one wraps round to values of granules far below).
ChecksReachTheirLibrary ==
    HasShadow =>
      \A l \in Libs :
        /\ \A a \in CoveredFrom(l) .. l.base + l.size - 1 :
              shadow[a \div Granule] >= RegularMin /\ a \div Granule \notin wiped
              /\ l.size + Granule <= ShadowValues /\ l.check # 0
                 => CheckFrom(a) = l.check
        /\ \A g \in CoveredOf(l) \ wiped : shadow[g] # Invalid
        /\ \A o \in Libs \ {l}, g \in CoveredOf(l) \ wiped :
              g \in CoveredOf(o) => shadow[g] \in {Invalid, Unchecked}

-----------------------------------------------------------------------------
(***************************************************************************)
(* The list of loaded libraries a debugger follows, gdb_support.rs: link   *)
(* maps chained both ways under R_DEBUG_MUTEX, the head in r_debug and the *)
(* tail beside it.  The debugger may look whenever r_state is consistent.  *)
(***************************************************************************)
CONSTANTS GdbThreads, LinkMaps

ASSUME GdbAssumption == IsFiniteSet(LinkMaps) /\ "null" \notin LinkMaps

VARIABLES head,       \* r_map
          tailMap,    \* R_DEBUG_TAIL
          links,      \* l_next and l_prev of every map
          debugState, \* r_state
          working,    \* the thread in the mutex: what it does to which map, and how far it is
          listed,     \* ghost: the maps told about and not withdrawn, oldest first
          headless    \* ghost: the first map was withdrawn, and the list was not begun anew

gdbVars == <<head, tailMap, links, debugState, working, listed, headless>>

NullMap == "null"
NoWork == [thread |-> NullMap, does |-> "nothing", map |-> NullMap, at |-> "done"]

GdbInit ==
    /\ head = NullMap /\ tailMap = NullMap
    /\ links = [m \in LinkMaps |-> [next |-> NullMap, prev |-> NullMap]]
    /\ debugState = "consistent" /\ working = NoWork /\ listed = <<>> /\ headless = FALSE

\* notify_gdb_of_load and notify_gdb_of_unload take the mutex and change the
\* state first.
Notify(t, what, m) ==
    /\ working = NoWork
    /\ IF what = "add" THEN m \notin ToSet(listed) ELSE m \in ToSet(listed)
    /\ working' = [thread |-> t, does |-> what, map |-> m, at |-> "links"]
    /\ debugState' = what
    /\ UNCHANGED <<head, tailMap, links, listed, headless>>

\* insert_link_map_into_debug_map up to set_tail.
InsertLinks ==
    /\ working.does = "add" /\ working.at = "links"
    /\ LET m == working.map IN
       IF tailMap # NullMap
       THEN /\ links' = [links EXCEPT ![tailMap].next = m,
                                      ![m] = [next |-> NullMap, prev |-> tailMap]]
            /\ UNCHANGED <<head, headless>>
       ELSE /\ head' = m /\ headless' = FALSE
            /\ links' = [links EXCEPT ![m] = [next |-> NullMap, prev |-> NullMap]]
    /\ working' = [working EXCEPT !.at = "tail"]
    /\ UNCHANGED <<tailMap, debugState, listed>>
InsertTail ==
    /\ working.does = "add" /\ working.at = "tail"
    /\ tailMap' = working.map
    /\ listed' = Append(listed, working.map)
    /\ working' = [working EXCEPT !.at = "leave"]
    /\ UNCHANGED <<head, links, debugState, headless>>

\* remove_link_map_from_debug_map, the tail first.
\* Mutant: the tail is left on the removed map.
TailStays(m) == tailMap
TailWithout(m) == IF tailMap = m THEN links[m].prev ELSE tailMap

RemoveTail ==
    /\ working.does = "delete" /\ working.at = "links"
    /\ tailMap' = TailWithout(working.map)
    /\ working' = [working EXCEPT !.at = "tail"]
    /\ UNCHANGED <<head, links, debugState, listed, headless>>
\* r_map is not changed: it goes on leading to the first map ever listed.
RemoveLinks ==
    /\ working.does = "delete" /\ working.at = "tail"
    /\ LET m == working.map  before == links[m].prev  after == links[m].next IN
       links' = [x \in LinkMaps |->
                    [next |-> IF x = before THEN after ELSE links[x].next,
                     prev |-> IF x = after THEN before ELSE links[x].prev]]
    /\ listed' = Dropped(listed, working.map)
    /\ headless' = (headless \/ working.map = listed[1])
    /\ working' = [working EXCEPT !.at = "leave"]
    /\ UNCHANGED <<head, tailMap, debugState>>

LeaveMutex ==
    /\ working.at = "leave"
    /\ debugState' = "consistent" /\ working' = NoWork
    /\ UNCHANGED <<head, tailMap, links, listed, headless>>

GdbNext ==
    \/ \E t \in GdbThreads, what \in {"add", "delete"}, m \in LinkMaps : Notify(t, what, m)
    \/ InsertLinks \/ InsertTail \/ RemoveTail \/ RemoveLinks \/ LeaveMutex
GdbSpec == GdbInit /\ [][GdbNext]_gdbVars

-----------------------------------------------------------------------------
\* The maps from m along one of the two directions.
Chain(m, dir) ==
    LET walk[n \in 0 .. Cardinality(LinkMaps)] ==
            IF n = 0 THEN <<m>>
            ELSE IF Last(walk[n - 1]) = NullMap THEN walk[n - 1]
            ELSE Append(walk[n - 1], links[Last(walk[n - 1])][dir])
    IN  Front(walk[Cardinality(LinkMaps)])

\* Whenever the state says consistent, l_next from the oldest map meets the
\* libraries in the order they were loaded, l_prev from the tail takes the
\* debugger back the same way, and r_map leads to the oldest map.  The last
\* does not hold once the first map was withdrawn: remove_link_map_from_debug_map
\* leaves r_map on it, until a map is added to an empty list.
Oldest == IF listed = <<>> THEN NullMap ELSE listed[1]
DebuggerSeesAll ==
    debugState = "consistent" =>
        /\ Chain(Oldest, "next") = listed
        /\ Chain(tailMap, "prev") = Reverse(listed)
        /\ ~headless => head = Oldest

-----------------------------------------------------------------------------
(***************************************************************************)
(* The reader of ld.config.txt, linker_config.rs: the first dir line over  *)
(* the binary names a section, the properties of that section alone are    *)
(* collected, and the namespaces and their links are made of them.         *)
(* A value is the sequence of its items; a line is a section header, an    *)
(* assignment or an append.                                                *)
(***************************************************************************)
CONSTANTS ConfigLines,   \* lines a file may have
          ConfigFiles,   \* and the files, sequences of them
          Covering       \* the directories the binary is under

ASSUME ConfigAssumption ==
    /\ ConfigFiles \subseteq Seq(ConfigLines)
    /\ ConfigLines \subseteq
          [kind : {"section"}, name : STRING] \cup
          [kind : {"assign", "append"}, name : Seq(STRING), value : Seq(STRING)]

VARIABLES file, cursor,  \* the lines and the next of them
          reading,       \* what parse_config_file is doing: "pick", "find", "collect"; then "link", "read", "failed"
          section,       \* the section picked
          properties,    \* the values collected, by name
          namespaces,    \* the namespaces made, default first
          nsLinks        \* the links of each: <<from, to, libs>>, libs "all" or the list

configVars == <<file, cursor, reading, section, properties, namespaces, nsLinks>>

DefaultNs == "default"
NoValue == <<>>
ValueOf(p, n) == IF n \in DOMAIN p THEN p[n] ELSE NoValue
KeyOf(n) == Last(n)                     \* the last part of a property name
Appendable == {"namespaces", "links", "paths", "shared_libs"}

\* A header ends a section, and the search for the dir lines too.
\* Mutant: the section runs on to the end of the file.
NeverEnds(l) == FALSE
EndsSection(l) == l.kind = "section"

ConfigInit ==
    /\ file = <<>> /\ cursor = 1 /\ reading = "pick" /\ section = ""
    /\ properties = <<>> /\ namespaces = <<>> /\ nsLinks = {}

OpenConfig ==
    /\ file = <<>>
    /\ file' \in ConfigFiles
    /\ UNCHANGED <<cursor, reading, section, properties, namespaces, nsLinks>>

AtEnd == cursor > Len(file)
Line == file[cursor]
Reads(phase) == file # <<>> /\ reading = phase /\ cursor' = cursor + 1 /\ UNCHANGED <<file, nsLinks>>

\* Step 1: the first dir line over the binary; appends and other names are
\* passed over.
PickSection ==
    /\ Reads("pick")
    /\ LET picks == /\ ~AtEnd /\ Line.kind = "assign"
                    /\ Line.name[1] = "dir" /\ Line.value[1] \in Covering
           gone == AtEnd \/ Line.kind = "section"
       IN  /\ section' = IF picks THEN Line.name[2] ELSE section
           /\ reading' = IF gone THEN "failed" ELSE IF picks THEN "find" ELSE "pick"
    /\ UNCHANGED <<properties, namespaces>>

\* Step 2: skip to its header.
FindSection ==
    /\ Reads("find")
    /\ reading' = IF AtEnd THEN "failed"
                  ELSE IF Line.kind = "section" /\ Line.name = section THEN "collect" ELSE "find"
    /\ UNCHANGED <<section, properties, namespaces>>

\* Step 3: the properties up to the next header, and then the namespaces.
Collected(l) ==
    IF l.kind = "section" THEN properties
    ELSE IF l.kind = "assign" \/ l.name \notin DOMAIN properties
    THEN [n \in DOMAIN properties \cup {l.name} |-> IF n = l.name THEN l.value ELSE properties[n]]
    ELSE IF KeyOf(l.name) \in Appendable THEN [properties EXCEPT ![l.name] = @ \o l.value]
    ELSE properties
Collect ==
    /\ Reads("collect")
    /\ IF AtEnd \/ EndsSection(Line)
       THEN /\ reading' = "link"
            /\ namespaces' = <<DefaultNs>> \o ValueOf(properties, <<"additional", "namespaces">>)
            /\ UNCHANGED properties
       ELSE /\ properties' = Collected(Line) /\ UNCHANGED <<reading, namespaces>>
    /\ UNCHANGED section

\* read_binary_config: a link must lead to a namespace that was made, and say
\* which libraries it is for in one of the two ways.
LinksOf(n) == ToSet(ValueOf(properties, <<"namespace", n, "links">>))
SharedLibs(n, to) == ValueOf(properties, <<"namespace", n, "link", to, "shared_libs">>)
AllowAll(n, to) ==
    ValueOf(properties, <<"namespace", n, "link", to, "allow_all_shared_libs">>) = <<"true">>
GoodLink(n, to) ==
    to \in ToSet(namespaces) /\ (AllowAll(n, to) <=> SharedLibs(n, to) = NoValue)
MakeLinks ==
    /\ reading = "link"
    /\ IF \A n \in ToSet(namespaces) : \A to \in LinksOf(n) : GoodLink(n, to)
       THEN /\ nsLinks' = UNION {{<<n, to, IF AllowAll(n, to) THEN <<"all">> ELSE SharedLibs(n, to)>> :
                                    to \in LinksOf(n)} : n \in ToSet(namespaces)}
            /\ reading' = "read"
       ELSE reading' = "failed" /\ UNCHANGED nsLinks
    /\ UNCHANGED <<file, cursor, section, properties, namespaces>>

ConfigNext == OpenConfig \/ PickSection \/ FindSection \/ Collect \/ MakeLinks
ConfigSpec == ConfigInit /\ [][ConfigNext]_configVars

-----------------------------------------------------------------------------
\* What a file means, line by line: the dir lines stand before every header.
Header(i) == file[i].kind = "section"
DirOver(i) ==
    /\ file[i].kind = "assign" /\ file[i].name[1] = "dir" /\ file[i].value[1] \in Covering
    /\ \A j \in 1 .. i : ~Header(j)
Picks(i) == DirOver(i) /\ \A j \in 1 .. i - 1 : ~DirOver(j)
Within(k) ==
    \E i, h \in 1 .. k - 1 :
       /\ Picks(i) /\ Header(h) /\ file[h].name = file[i].name[2]
       /\ \A j \in 1 .. h - 1 : ~(Header(j) /\ file[j].name = file[i].name[2])
       /\ \A j \in h + 1 .. k : ~Header(j)
Sets(k) == Within(k) /\ file[k].kind = "assign"
Names2 == {file[k].name : k \in {j \in 1 .. Len(file) : Within(j)}}
Meant(n) ==
    LET about == {k \in 1 .. Len(file) : Within(k) /\ file[k].name = n}
        first == CHOOSE k \in about : \A j \in about : k <= j
        from == CHOOSE k \in about :
                   /\ Sets(k) \/ k = first
                   /\ \A j \in about : Sets(j) => j <= k
        later == {k \in about : k > from /\ KeyOf(n) \in Appendable}
        value[k \in from .. Len(file)] ==
            IF k = from THEN file[k].value
            ELSE value[k - 1] \o IF k \in later THEN file[k].value ELSE <<>>
    IN  value[Len(file)]

\* A file that was read gives every property the value its own section says,
\* each the last assignment with the appends after it, and no line of another
\* section counts; a link leads to a namespace of that section and carries
\* either all libraries or a list that is not empty.
ConfigMeans ==
    reading \in {"link", "read"} =>
      /\ DOMAIN properties = Names2
      /\ \A n \in Names2 : properties[n] = Meant(n)
      /\ \A l \in nsLinks :
            /\ l[2] \in {DefaultNs} \cup ToSet(ValueOf(properties, <<"additional", "namespaces">>))
            /\ l[3] # NoValue

-----------------------------------------------------------------------------
(* The ported parts: the debugger's list holds every library, a CFI check  *)
(* reaches the library of its address, a configuration means what its      *)
(* sections say (gdb_support.rs, cfi.rs, linker_config.rs).                *)
BionicPortSound == DebuggerSeesAll /\ ChecksReachTheirLibrary /\ ConfigMeans
=============================================================================
