---------------------------- MODULE Relocations ----------------------------
(***************************************************************************)
(* Relocation of one image by apply_relocations of reloc.rs: three tables  *)
(* (RELA, REL and the PLT's, of either kind), symbols looked up through a  *)
(* memory of the last symbol and a cache per table, hooks before the       *)
(* global scope; and by relocate of relocate.rs, the port of bionic's      *)
(* relocator, with one cache entry for all tables.  Words wrap at          *)
(* WordSize, the 32-bit forms at HalfSize.                                 *)
(***************************************************************************)
EXTENDS Integers, Sequences, SequencesExt, FiniteSets

CONSTANTS Tables,      \* sequences of relocations the first table may hold
          PltTables,   \* and the table of the PLT
          SymbolKinds, \* what each symbol may be: a sequence of records
          DynsymCounts,\* what the loader made of the hash table
          Base,        \* where the image is
          Places,      \* words the relocations apply to
          WordSize, HalfSize

VARIABLES object,   \* the image: symbols, dynsym_count and tables
          table,    \* 1, 2, 3: which table is at work; 4 when all are done
          entry,    \* the next relocation of it
          words,    \* contents of Places
          last, cache, errors

relocationVars == <<object, table, entry, words, last, cache, errors>>

Unresolved == -1
NoSymbol == -2

\* resolve_sym: symbol 0 and names out of range resolve to nothing; hooks
\* come before the global scope.
ResolveSym(s) ==
    IF s = 0 THEN Unresolved
    ELSE IF object.symbols[s].hook # Unresolved THEN object.symbols[s].hook
    ELSE object.symbols[s].global

IsWeak(s) == object.symbols[s].weak

-----------------------------------------------------------------------------
CurrentTable == object.tables[table]
Entry == CurrentTable.entries[entry]
UsesVec == object.dynsymCount > 0

Cached(s) == s \in DOMAIN cache /\ (UsesVec => s < object.dynsymCount)

NothingCached == [x \in {} |-> Unresolved]
NothingLast == [sym |-> NoSymbol, val |-> Unresolved]

\* Mutant: a hit of the cache does not become the last symbol.
RemembersMisses(s, v) == IF Cached(s) THEN [last EXCEPT !.sym = s] ELSE [sym |-> s, val |-> v]
Remembers(s, v) == [sym |-> s, val |-> v]

ResolveCached(s) ==
    IF s = last.sym THEN last.val
    ELSE IF Cached(s) THEN cache[s]
    ELSE ResolveSym(s)

CacheAfter(s) ==
    IF s = last.sym \/ (UsesVec /\ s >= object.dynsymCount) \/ Cached(s) THEN cache
    ELSE [x \in DOMAIN cache \cup {s} |-> IF x = s THEN ResolveSym(s) ELSE cache[x]]

Word(v) == v % WordSize

\* A 32-bit relocation writes the low half of its word.
LowHalf(e, v) == (words[e.place] \div HalfSize) * HalfSize + (v % HalfSize)

\* A table with explicit addends adds them to absolute and GLOB_DAT targets;
\* apply_rel reads what the place holds, and uses it for RELATIVE alone.
Written(e, sv) ==
    CASE e.type \in {"64", "glob_dat"} -> Word(sv + (IF CurrentTable.rela THEN e.addend ELSE 0))
      [] e.type = "jump_slot" -> Word(sv)
      [] e.type = "pc32" -> LowHalf(e, sv + e.addend - e.place)

\* A PC-relative relocation of a table without addends is not supported.
Supported(e) == e.type \in {"relative", "64", "glob_dat", "jump_slot"}
                \/ (e.type = "pc32" /\ CurrentTable.rela)

NextEntry == entry' = entry + 1 /\ UNCHANGED <<object, table>>

ApplyRelative ==
    /\ Entry.type = "relative"
    /\ words' = [words EXCEPT ![Entry.place] =
                    Word(Base + (IF CurrentTable.rela THEN Entry.addend ELSE @))]
    /\ NextEntry /\ UNCHANGED <<last, cache, errors>>

\* A weak symbol, and symbol 0, leave the place alone when unresolved.
ApplySymbolic ==
    LET s == Entry.sym
        sv == ResolveCached(s)
    IN
    /\ Entry.type # "relative" /\ Supported(Entry)
    /\ words' = IF sv = Unresolved THEN words
                ELSE [words EXCEPT ![Entry.place] = Written(Entry, sv)]
    /\ errors' = IF sv = Unresolved /\ s # 0 /\ ~IsWeak(s)
                 THEN Append(errors, [kind |-> "symbol", sym |-> s]) ELSE errors
    /\ last' = IF s = last.sym THEN last ELSE Remembers(s, sv)
    /\ cache' = CacheAfter(s)
    /\ NextEntry

ApplyUnsupported ==
    /\ Entry.type # "relative" /\ ~Supported(Entry)
    /\ errors' = Append(errors, [kind |-> "type", sym |-> Entry.sym])
    /\ NextEntry /\ UNCHANGED <<words, last, cache>>

-----------------------------------------------------------------------------
(* relocate.rs: process_relocation                                          *)

\* What the place is taken to hold: REL tables keep their addends there.
AddendOf(e) == IF CurrentTable.rela THEN e.addend ELSE words[e.place]

\* SymCache: a symbol that resolves to nothing empties it.
CacheLookup(s) == IF s = last.sym THEN last.val ELSE ResolveSym(s)

ProcessRelative ==
    /\ Entry.type = "relative"
    /\ words' = [words EXCEPT ![Entry.place] = Word(Base + AddendOf(Entry))]
    /\ NextEntry /\ UNCHANGED <<last, cache, errors>>

ProcessNone == Entry.type = "none" /\ NextEntry /\ UNCHANGED <<words, last, cache, errors>>

ThreadLocal == {"dtpmod", "dtpoff", "tpoff", "tlsdesc"}

\* What the resolver function at an address returns.
CallIfuncResolver(a) == Word(a + 1)

\* find_tls_module_id is given the address of the symbol for the base of its
\* library, and looks for a module that begins there.
ModuleBeginningAt(a) == IF a = Base THEN 1 ELSE 0

Processed(e, sv) ==
    CASE e.type \in {"64", "dtpoff", "tpoff"} -> Word(sv + AddendOf(e))
      [] e.type \in {"glob_dat", "jump_slot"} -> Word(sv)
      [] e.type = "pc32" -> LowHalf(e, sv + AddendOf(e) - e.place)
      [] e.type = "32" -> LowHalf(e, sv + AddendOf(e))
      [] e.type = "irelative" -> CallIfuncResolver(Word(Base + AddendOf(e)))
      [] e.type = "dtpmod" -> ModuleBeginningAt(sv)

\* Whatever nobody defines is taken for a weak symbol, except for thread-local
\* ones.
ProcessSymbolic ==
    LET e == Entry
        found == IF e.sym = 0 THEN 0 ELSE CacheLookup(e.sym)
        refused == \/ e.type \in {"copy", "tlsdesc"}
                   \/ e.type \in ThreadLocal /\ found = Unresolved
    IN
    /\ e.type \notin {"relative", "none"}
    /\ last' = CASE e.sym \in {0, last.sym} -> last
                 [] found = Unresolved -> NothingLast
                 [] OTHER -> [sym |-> e.sym, val |-> found]
    /\ words' = IF refused THEN words
                ELSE [words EXCEPT ![e.place] = Processed(e, IF found = Unresolved THEN 0 ELSE found)]
    /\ errors' = IF refused THEN Append(errors, [kind |-> e.type, sym |-> e.sym]) ELSE errors
    /\ NextEntry /\ UNCHANGED cache

-----------------------------------------------------------------------------
\* In reloc.rs each table has its own memory and cache.
NextTable ==
    /\ entry > Len(CurrentTable.entries)
    /\ table' = table + 1 /\ entry' = 1
    /\ last' = IF object.general THEN last ELSE NothingLast
    /\ cache' = NothingCached
    /\ UNCHANGED <<object, words, errors>>

-----------------------------------------------------------------------------
RelocationInit ==
    /\ object = <<>> /\ table = 0 /\ entry = 1
    /\ words = [p \in Places |-> 0]
    /\ last = NothingLast /\ cache = NothingCached /\ errors = <<>>

\* REL is what 32-bit toolchains emit: a library has one kind, and the PLT's
\* table is of that kind.  The places of a REL table hold the addends.
RelocationStart ==
    /\ table = 0 /\ table' = 1
    /\ \E first \in Tables, plt \in PltTables, symbols \in SymbolKinds, n \in DynsymCounts, rela \in BOOLEAN,
          general \in BOOLEAN :
         /\ object' = [general |-> general, symbols |-> symbols, dynsymCount |-> n,
                       tables |-> <<[rela |-> TRUE, entries |-> IF rela THEN first ELSE <<>>],
                                    [rela |-> FALSE, entries |-> IF rela THEN <<>> ELSE first],
                                    [rela |-> rela, entries |-> plt]>>]
         /\ words' = IF rela THEN words
                     ELSE [p \in Places |->
                             IF \E e \in Range(first \o plt) : e.place = p
                             THEN (CHOOSE e \in Range(first \o plt) : e.place = p).addend ELSE 0]
    /\ UNCHANGED <<entry, last, cache, errors>>

RelocationNext ==
    \/ RelocationStart
    \/ table \in 1 .. 3 /\ NextTable
    \/ /\ table \in 1 .. 3 /\ entry <= Len(CurrentTable.entries)
       /\ \/ ~object.general /\ (ApplyRelative \/ ApplySymbolic \/ ApplyUnsupported)
          \/ object.general /\ (ProcessRelative \/ ProcessNone \/ ProcessSymbolic)

-----------------------------------------------------------------------------
Done(t) == IF t < table THEN object.tables[t].entries
           ELSE IF t = table THEN SubSeq(object.tables[t].entries, 1, entry - 1) ELSE <<>>

\* What the ABI asks of one relocation, with no caches; 0 for a weak symbol
\* nobody defines.
Target(e) ==
    LET sv == IF e.sym = 0 \/ ResolveSym(e.sym) = Unresolved THEN 0 ELSE ResolveSym(e.sym)
    IN  CASE e.type = "relative" -> Word(Base + e.addend)
          [] e.type = "irelative" -> CallIfuncResolver(Word(Base + e.addend))
          [] e.type \in {"glob_dat", "jump_slot"} -> Word(sv)
          [] e.type = "64" -> Word(sv + e.addend)
          [] e.type = "pc32" -> (sv + e.addend - e.place) % HalfSize
          [] e.type = "32" -> (sv + e.addend) % HalfSize
Holds(e) ==
    Target(e) = IF e.type \in {"pc32", "32"} THEN words[e.place] % HalfSize ELSE words[e.place]

IsUndefined(e) == e.sym # 0 /\ ResolveSym(e.sym) = Unresolved

\* What each of the two reports: reloc.rs also strong symbols nobody defines.
Failed(t, e) ==
    IF object.general
    THEN e.type \in {"copy", "tlsdesc"} \/ (e.type \in ThreadLocal /\ IsUndefined(e))
    ELSE \/ e.type \in {"none", "32", "irelative", "copy"} \cup ThreadLocal
         \/ e.type = "pc32" /\ ~object.tables[t].rela
         \/ e.type # "relative" /\ IsUndefined(e) /\ ~IsWeak(e.sym)

\* Places reloc.rs leaves as the file has them.
Untouched(e) ==
    e.type = "none" \/ (~object.general /\ e.type # "relative" /\ (e.sym = 0 \/ IsUndefined(e)))

\* The addend of an absolute relocation of a REL table is lost in reloc.rs:
\* apply_rel reads it from the place and writes the bare symbol over it.
AddendDropped(t, e) == ~object.general /\ ~object.tables[t].rela /\ e.type = "64" /\ e.addend # 0

\* Every relocation applied so far left at its place what its symbol asks
\* for, whatever the caches hold by then, and the errors are exactly the
\* entries that are unsupported or undefined.  Two kinds of entry are not
\* judged: those whose addend is lost (AddendDropped), and thread-local ones,
\* which relocate.rs fills with the address of the symbol instead of its
\* offset, and with the module that begins at that address.
RelocatedAsAsked ==
    table > 0 =>
      /\ \A t \in 1 .. 3 : \A e \in Range(Done(t)) :
            \/ Failed(t, e) \/ Untouched(e) \/ AddendDropped(t, e) \/ e.type \in ThreadLocal
            \/ Holds(e)
      /\ Len(errors) = SumFunction([t \in 1 .. 3 |->
                           Len(SelectSeq(Done(t), LAMBDA e : Failed(t, e)))])

-----------------------------------------------------------------------------
(***************************************************************************)
(* Android's packed relocations, reloc_iter.rs: groups of relocations that *)
(* share an offset delta, an info or an addend, as signed LEB128 numbers.  *)
(* Bytes carry PayloadBits bits here and words are WordLimit wide.         *)
(***************************************************************************)
CONSTANTS PayloadLimit,  \* 2^7 in the code: values of a byte without its flag
          WordLimit,     \* 2^64 in the code
          PackedGroups   \* groups a table may consist of

VARIABLES groups,        \* the table, as its writer meant it
          stream,        \* the bytes still to be decoded
          toVisit,       \* relocations still to come, as the first number announced
          group,         \* the group being decoded
          reloc,         \* the running relocation
          visited        \* what the callback was given

packedVars == <<groups, stream, toVisit, group, reloc, visited>>

NoGroup == [left |-> 0, byOffset |-> FALSE, byInfo |-> FALSE, addends |-> "none", delta |-> 0]
Byte(p, more) == [payload |-> p, more |-> more]

-----------------------------------------------------------------------------
(* The writer of the table.                                                 *)

\* Signed LEB128 of a number of the word, the top half being negative.
Signed(v) == IF v < WordLimit \div 2 THEN v ELSE v - WordLimit
Encode(v) ==
    LET enc[n \in -(WordLimit \div 2) .. WordLimit \div 2] ==
            IF n \in -(PayloadLimit \div 2) .. PayloadLimit \div 2 - 1
            THEN <<Byte(n % PayloadLimit, FALSE)>>
            ELSE <<Byte(n % PayloadLimit, TRUE)>> \o enc[n \div PayloadLimit]
    IN  enc[Signed(v)]
Flags(g) == (IF g.byInfo THEN 1 ELSE 0) + (IF g.byOffset THEN 2 ELSE 0)
            + (IF g.addends = "own" THEN 8 ELSE IF g.addends = "shared" THEN 12 ELSE 0)
EncodeMember(g, m) ==
    (IF g.byOffset THEN <<>> ELSE Encode(m.step)) \o
    (IF g.byInfo THEN <<>> ELSE Encode(m.info)) \o
    (IF g.addends = "own" THEN Encode(m.addend) ELSE <<>>)
EncodeGroup(g) ==
    Encode(Len(g.members)) \o Encode(Flags(g)) \o
    (IF g.byOffset THEN Encode(g.members[1].step) ELSE <<>>) \o
    (IF g.byInfo THEN Encode(g.members[1].info) ELSE <<>>) \o
    (IF g.addends = "shared" THEN Encode(g.members[1].addend) ELSE <<>>) \o
    FlattenSeq([i \in 1 .. Len(g.members) |-> EncodeMember(g, g.members[i])])
Members == FlattenSeq([i \in 1 .. Len(groups) |-> groups[i].members])

-----------------------------------------------------------------------------
(* Sleb128Decoder::pop_front                                                *)

\* The bytes of the first number of a stream.
NumberOf(s) == SubSeq(s, 1, CHOOSE i \in 1 .. Len(s) : ~s[i].more /\ \A j \in 1 .. i - 1 : s[j].more)
\* Mutant: the sign bit of the last byte is not looked at.
Unsigned(s) ==
    LET n == NumberOf(s)
    IN  FoldLeft(LAMBDA v, i : v + n[i].payload * PayloadLimit^(i - 1), 0, [i \in 1 .. Len(n) |-> i])
           % WordLimit
Decode(s) ==
    LET n == NumberOf(s)
        v == FoldLeft(LAMBDA a, i : a + n[i].payload * PayloadLimit^(i - 1), 0, [i \in 1 .. Len(n) |-> i])
    IN  (IF n[Len(n)].payload >= PayloadLimit \div 2 THEN v - PayloadLimit^Len(n) ELSE v) % WordLimit
PopFront(s) == SubSeq(s, Len(NumberOf(s)) + 1, Len(s))
Popped(s, k) ==
    LET after[i \in 0 .. k] == IF i = 0 THEN s ELSE PopFront(after[i - 1])
    IN  after[k]
Number(s, k) == Decode(Popped(s, k - 1))
Count(b) == IF b THEN 1 ELSE 0

PackedInit ==
    /\ groups = <<>> /\ stream = <<>> /\ toVisit = 0 /\ group = NoGroup
    /\ reloc = [offset |-> 0, info |-> 0, addend |-> 0] /\ visited = <<>>

\* The table begins with the number of relocations and the first offset.
OpenPacked ==
    /\ groups = <<>>
    /\ groups' \in UNION {[1 .. n -> PackedGroups] : n \in 1 .. 2}
    /\ \E first \in {0, WordLimit - 1} :
          LET s == Encode(Len(Members')) \o Encode(first) \o
                      FlattenSeq([i \in 1 .. Len(groups') |-> EncodeGroup(groups'[i])]) IN
          /\ toVisit' = Number(s, 1)
          /\ reloc' = [reloc EXCEPT !.offset = Number(s, 2)]
          /\ stream' = Popped(s, 2)
    /\ UNCHANGED <<group, visited>>

\* The head of a group.
NextGroup ==
    /\ group.left = 0 /\ toVisit > 0
    /\ LET flags == Number(stream, 2)
           byOffset == (flags \div 2) % 2 = 1
           byInfo == flags % 2 = 1
           addends == IF flags \div 4 = 2 THEN "own" ELSE IF flags \div 4 = 3 THEN "shared" ELSE "none"
           atInfo == 3 + Count(byOffset)
           atAddend == atInfo + Count(byInfo)
       IN
       /\ group' = [left |-> Number(stream, 1), byOffset |-> byOffset, byInfo |-> byInfo,
                    addends |-> addends, delta |-> IF byOffset THEN Number(stream, 3) ELSE 0]
       /\ reloc' = [reloc EXCEPT
                       !.info = IF byInfo THEN Number(stream, atInfo) ELSE @,
                       !.addend = CASE addends = "own" -> @
                                    [] addends = "shared" -> (@ + Number(stream, atAddend)) % WordLimit
                                    [] OTHER -> 0]
       /\ stream' = Popped(stream, atAddend - 1 + Count(addends = "shared"))
    /\ UNCHANGED <<groups, toVisit, visited>>

\* A relocation of the group, given to the callback, which may stop the walk.
NextReloc ==
    /\ group.left > 0
    /\ LET atInfo == 1 + Count(~group.byOffset)
           atAddend == atInfo + Count(~group.byInfo)
           step == IF group.byOffset THEN group.delta ELSE Number(stream, 1)
       IN
       /\ reloc' = [offset |-> (reloc.offset + step) % WordLimit,
                    info |-> IF group.byInfo THEN reloc.info ELSE Number(stream, atInfo),
                    addend |-> IF group.addends = "own"
                               THEN (reloc.addend + Number(stream, atAddend)) % WordLimit
                               ELSE reloc.addend]
       /\ stream' = Popped(stream, atAddend - 1 + Count(group.addends = "own"))
    /\ visited' = Append(visited, reloc')
    /\ group' = [group EXCEPT !.left = @ - 1]
    /\ toVisit' = toVisit - 1
    /\ UNCHANGED groups

PackedNext == OpenPacked \/ NextGroup \/ NextReloc

-----------------------------------------------------------------------------
\* The relocations the table stands for: offsets add up from the first, and
\* addends from the last group without any.
SumOfSteps(i) == FoldLeft(LAMBDA a, m : a + m.step, 0, SubSeq(Members, 1, i))
GroupOf(i) ==
    CHOOSE k \in 1 .. Len(groups) :
       /\ i <= FoldLeft(LAMBDA a, g : a + Len(g.members), 0, SubSeq(groups, 1, k))
       /\ i > FoldLeft(LAMBDA a, g : a + Len(g.members), 0, SubSeq(groups, 1, k - 1))
AddendAfter ==
    LET after[i \in 0 .. Len(Members)] ==
            IF i = 0 THEN 0
            ELSE LET g == groups[GroupOf(i)]
                     first == i = 1 \/ GroupOf(i - 1) # GroupOf(i)
                 IN  CASE g.addends = "none" -> 0
                       [] g.addends = "own" -> after[i - 1] + Members[i].addend
                       [] OTHER -> after[i - 1] + IF first THEN Members[i].addend ELSE 0
    IN  after

\* The callback is given exactly the relocations the table stands for, in
\* order, and the table has been read to its end when all have been visited.
UnpacksAll ==
    groups # <<>> =>
      /\ \A i \in 1 .. Len(visited) :
            /\ (visited[i].offset - visited[1].offset) % WordLimit
                  = (SumOfSteps(i) - SumOfSteps(1)) % WordLimit
            /\ visited[i].info = Members[i].info
            /\ visited[i].addend = AddendAfter[i] % WordLimit
      /\ toVisit = 0 => Len(visited) = Len(Members) /\ stream = <<>>

-----------------------------------------------------------------------------
(* Relocation tables, plain and packed, end with the places holding what   *)
(* the entries ask for (reloc.rs, relocate.rs, reloc_iter.rs).             *)
RelocationSound == RelocatedAsAsked /\ UnpacksAll
=============================================================================
