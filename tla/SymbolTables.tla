---------------------------- MODULE SymbolTables ----------------------------
(***************************************************************************)
(* The lookup of a name in one library: symbol.rs over the hash tables     *)
(* that loader.rs reads out of the image.  The tables are those the static *)
(* linker wrote; hashes are constants, since only what collides matters.   *)
(***************************************************************************)
EXTENDS Integers, Sequences, FiniteSets, FiniteSetsExt

CONSTANTS Names,        \* symbol names
          GnuHash,      \* what both sides compute for DT_GNU_HASH
          ElfHash,      \* what the static linker uses for DT_HASH
          SysvHash,     \* what sysv_hash of symbol.rs computes
          WordBits,     \* bits of a word of the bloom filter
          LowByte,      \* chain values are masked with LowByte - 1
          MaxSymbols,
          MaxBuckets, BloomWords, BloomShift, Gaps  \* sizes of the tables and of what is between them

ASSUME SymbolsAssumption ==
    /\ GnuHash \in [Names -> Nat] /\ ElfHash \in [Names -> Nat] /\ SysvHash \in [Names -> Nat]
    /\ WordBits \in Nat \ {0} /\ LowByte \in Nat \ {0} /\ MaxSymbols \in Nat
    /\ MaxBuckets \in Nat /\ BloomWords \in Nat \ {0} /\ BloomShift \in Nat /\ Gaps \subseteq Nat

VARIABLES library, name

symbolVars == <<library, name>>

None == -1
Undefined == 0    \* st_shndx of an import

\* Symbol 0 is the null symbol; the others are named.
Symbols == library.symbols
Indices == 1 .. Len(Symbols)
IsDefinition(i, n) == Symbols[i].name = n /\ Symbols[i].section # Undefined

-----------------------------------------------------------------------------
(* The static linker: exports last, ordered by bucket.                      *)

GnuBucketOf(n) == GnuHash[n] % library.buckets
GnuSorted ==
    /\ \A i \in Indices : i < library.symoffset <=> Symbols[i].section = Undefined
    /\ \A i, j \in library.symoffset .. Len(Symbols) :
          i < j => GnuBucketOf(Symbols[i].name) <= GnuBucketOf(Symbols[j].name)
GnuMembers(b) == {i \in library.symoffset .. Len(Symbols) : GnuBucketOf(Symbols[i].name) = b}
GnuBucket(b) == IF GnuMembers(b) = {} THEN 0 ELSE Min(GnuMembers(b))
\* A chain entry is the hash, its lowest bit set at the end of the bucket.
GnuEnds(i) == i = Max(GnuMembers(GnuBucketOf(Symbols[i].name)))
BloomBits(w) ==
    UNION {IF (h \div WordBits) % library.bloomWords = w
           THEN {h % WordBits, (h \div 2^library.bloomShift) % WordBits} ELSE {} :
           h \in {GnuHash[Symbols[i].name] : i \in library.symoffset .. Len(Symbols)}}

\* DT_HASH chains run from the last symbol of a bucket to the first.
SysvMembers(b) == {i \in Indices : ElfHash[Symbols[i].name] % library.buckets = b}
SysvBucket(b) == Max(SysvMembers(b) \cup {0})
SysvChain(i) ==
    LET earlier == {j \in SysvMembers(ElfHash[Symbols[i].name] % library.buckets) : j < i}
    IN  Max(earlier \cup {0})

-----------------------------------------------------------------------------
(* loader.rs                                                                *)

\* The number of symbols is worked out from the distance of .gnu.hash and
\* .dynstr, taken to be adjacent.
DynsymCount ==
    LET header == 16 + library.bloomWords * 8 + library.buckets * 4
        inTable == IF library.distance > header THEN (library.distance - header) \div 4 ELSE 0
    IN  IF library.distance > 0 THEN library.symoffset + inTable ELSE library.symoffset

-----------------------------------------------------------------------------
(* symbol.rs                                                                *)

\* Mutant: the second bit is taken from another word.
BloomMissesSecond(h) ==
    ~({h % WordBits, (h \div 2^library.bloomShift) % WordBits}
         \subseteq BloomBits((h \div WordBits + 1) % library.bloomWords))
BloomMisses(h) ==
    ~({h % WordBits, (h \div 2^library.bloomShift) % WordBits}
         \subseteq BloomBits((h \div WordBits) % library.bloomWords))

FindSymbolGnu(n) ==
    LET h == GnuHash[n]
        start == GnuBucket(h % library.buckets)
        last == Min({i \in start .. Len(Symbols) : GnuEnds(i)})
        found == {i \in start .. last :
                     /\ GnuHash[Symbols[i].name] \div 2 = h \div 2
                     /\ IsDefinition(i, n)}
    IN  IF BloomMisses(h) \/ start < library.symoffset \/ found = {} THEN None ELSE Min(found)

\* The walk stops at a chain value whose low byte is zero, not only at zero.
FindSymbolSysv(n) ==
    LET walk[i \in 0 .. Len(Symbols)] ==
            IF i = 0 THEN None
            ELSE IF IsDefinition(i, n) THEN i
            ELSE IF SysvChain(i) % LowByte = 0 THEN None
            ELSE walk[SysvChain(i)]
    IN  walk[SysvBucket(SysvHash[n] % library.buckets)]

FindSymbol(n) == IF library.gnu THEN FindSymbolGnu(n) ELSE FindSymbolSysv(n)

-----------------------------------------------------------------------------
Symbol == [name : Names, section : {Undefined, 1}]
Unique(s) == \A i, j \in 1 .. Len(s) : s[i].name = s[j].name => i = j

SymbolsInit == library = <<>> /\ name = None

\* A library as a static linker can have made it.
LoadSymbols ==
    /\ library = <<>>
    /\ \E k \in 1 .. MaxSymbols :
       \E s \in {t \in [1 .. k -> Symbol] : Unique(t)}, b \in 1 .. MaxBuckets, g \in BOOLEAN, gap \in Gaps :
          LET offset == 1 + Cardinality({i \in 1 .. k : s[i].section = Undefined}) IN
          library' = [symbols |-> s, gnu |-> g, buckets |-> b, symoffset |-> offset,
                      bloomWords |-> BloomWords, bloomShift |-> BloomShift,
                      distance |-> 16 + BloomWords * 8 + b * 4 + (k + 1 - offset) * 4 + gap]
    /\ library'.gnu => GnuSorted'
    /\ UNCHANGED name

Lookup ==
    /\ library # <<>> /\ name = None
    /\ name' \in Names
    /\ UNCHANGED library

SymbolsNext == LoadSymbols \/ Lookup

SymbolsSpec == SymbolsInit /\ [][SymbolsNext]_symbolVars

-----------------------------------------------------------------------------
Definitions == {i \in Indices : IsDefinition(i, name)}

\* With DT_GNU_HASH a name is found exactly when the library defines it, and
\* the count of symbols covers them all.  With DT_HASH what is found is a
\* definition of the name, and none is missed when both sides hash alike and
\* no chain value has a zero low byte.
FindsDefinitions ==
    name # None =>
      /\ FindSymbol(name) # None => FindSymbol(name) \in Definitions
      /\ library.gnu => /\ Definitions # {} => FindSymbol(name) # None
                        /\ Len(Symbols) < DynsymCount
      /\ ~library.gnu /\ SysvHash = ElfHash /\ Len(Symbols) < LowByte /\ Definitions # {}
            => FindSymbol(name) # None
=============================================================================
