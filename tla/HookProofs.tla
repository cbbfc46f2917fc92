----------------------------- MODULE HookProofs -----------------------------
(***************************************************************************)
(* Theorems about HookManager, for any libraries, symbols and hooks, about *)
(* Segments, for any page size, layouts and files, and about SymbolTables, *)
(* for any names, hashes and sizes of the tables.                          *)
(***************************************************************************)
EXTENDS HookManager, Segments, SymbolTables,
        Sequences, SequenceTheorems, FiniteSetTheorems, WellFoundedInduction, TLAPS

-----------------------------------------------------------------------------
(* The inductive invariant. *)

\* A hook is above every older live hook of its symbol, the last one above all.
OldestFirst ==
    \A g, h \in DOMAIN hook : hook[g].key = hook[h].key =>
        /\ g < h => g <= hook[h].parent
        /\ g <= arena[hook[h].key].last

\* A hook that calls another one calls the one below it; a hook that was not
\* made yet has no orig.
OrigBelow ==
    /\ \A h \in DOMAIN hook, g \in Hooks :
          hook[h].slot /\ orig[h] = At(g) => hook[h].parent = g
    /\ \A h \in Hooks : h > made => orig[h] = NullAddr

\* A table names symbols that were hooked, and a slot is as the linker wrote it
\* until its content was kept.
SlotsKept ==
    /\ \A l \in Handles, s \in Syms :
          hookTables[l][s] # NoKey => hookTables[l][s] \in DOMAIN arena
    /\ \A l \in Handles, s \in Syms :
          (<<l, s>> \in DOMAIN arena => arena[<<l, s>>].original = NullAddr)
              => got[l][s] = Pristine(l, s)

HookInv ==
    /\ HookTypes /\ ChainWellFormed /\ OldestFirst /\ OrigBelow
    /\ SlotsKept /\ OriginalPristine

-----------------------------------------------------------------------------
(* Addresses and records. *)

\* Null, the hooks and what the linker wrote are different addresses.
LEMMA HookAddresses ==
    ASSUME NEW l \in Handles, NEW s \in Syms, NEW g \in Hooks, NEW h \in Hooks
    PROVE  /\ Pristine(l, s) # NullAddr /\ At(h) # NullAddr
           /\ At(h) # Pristine(l, s) /\ (At(g) = At(h) => g = h)
           /\ Pristine(l, s) = <<l, s>> /\ <<l, s>> # NoKey
<1>1. Len(<<l, s>>) = 2 /\ Len(<<h>>) = 1 /\ Len(<<>>) = 0
  OBVIOUS
<1>2. <<l, s>> # <<>> /\ <<h>> # <<>> /\ <<h>> # <<l, s>>
  BY <1>1
<1>3. <<g>> = <<h>> => g = h
  OBVIOUS
<1> QED
  BY <1>2, <1>3 DEF Pristine, NullAddr, At, NoKey

LEMMA KeyParts ==
    ASSUME NEW k \in Keys
    PROVE  k[1] \in Handles /\ k[2] \in Syms /\ k = <<k[1], k[2]>>
BY DEF Keys

LEMMA HookNumbers ==
    /\ Hooks \subseteq Nat /\ NoHook \notin Hooks /\ NoHook \in Nat
    /\ \A h \in Hooks : h > NoHook
BY HookAssumption DEF Hooks, NoHook

\* The fields of what the chains are made of.
LEMMA ChainTypes ==
    ASSUME HookTypes
    PROVE  /\ DOMAIN hook \subseteq Hooks /\ DOMAIN arena \subseteq Keys
           /\ \A h \in DOMAIN hook :
                 /\ hook[h].key \in Keys /\ hook[h].slot \in BOOLEAN
                 /\ hook[h].parent \in Hooks \cup {NoHook}
                 /\ hook[h].child \in Hooks \cup {NoHook}
                 /\ h <= made /\ h \in Nat
           /\ \A k \in DOMAIN arena :
                 /\ arena[k].original \in Values
                 /\ arena[k].first \in DOMAIN hook \cup {NoHook}
                 /\ arena[k].last \in DOMAIN hook \cup {NoHook}
           /\ made \in Nat /\ made <= MaxHooks
<1>1. made \in Nat /\ made <= MaxHooks /\ DOMAIN hook \subseteq 1 .. made
  BY HookAssumption DEF HookTypes
<1>2. DOMAIN hook \subseteq Hooks /\ \A h \in DOMAIN hook : h <= made /\ h \in Nat
  BY <1>1, HookAssumption DEF Hooks
<1>3. \A h \in DOMAIN hook : hook[h] \in HookRec
  BY DEF HookTypes
<1>4. \A k \in DOMAIN arena : arena[k] \in SymbolRec
  BY DEF HookTypes
<1> QED
  BY <1>1, <1>2, <1>3, <1>4 DEF HookTypes, HookRec, SymbolRec

-----------------------------------------------------------------------------
(* A new hook joins its chain at the end. *)

LEMMA CreateKeeps ==
    ASSUME HookInv, NEW l \in Handles, NEW s \in Syms, NEW slot \in BOOLEAN,
           CreateHook(l, s, slot)
    PROVE  HookInv'
<1> DEFINE k == <<l, s>>
           sym == HookedSymbol(l, s)
           h == made + 1
           parent == Below(sym)
           rec == [key |-> k, parent |-> parent, child |-> NoHook, slot |-> slot]
           grown == [sym EXCEPT !.first = IF @ = NoHook THEN h ELSE @, !.last = h]
<1>0. /\ HookTypes /\ ChainWellFormed /\ OldestFirst /\ OrigBelow
      /\ SlotsKept /\ OriginalPristine /\ k \in Keys
  BY DEF HookInv, Keys
<1>1. /\ h \in Hooks /\ h \in Nat /\ h > made /\ made \in Nat /\ h \notin DOMAIN hook
      /\ \A g \in DOMAIN hook : g < h
  BY <1>0, ChainTypes, HookAssumption DEF CreateHook, Hooks
\* What is known of the chain.
<1>2. /\ sym = [original |-> sym.original, first |-> sym.first, last |-> sym.last]
      /\ sym.original \in Values
      /\ sym.first \in DOMAIN hook \cup {NoHook} /\ sym.last \in DOMAIN hook \cup {NoHook}
      /\ sym.first = NoHook <=> sym.last = NoHook
      /\ k \in DOMAIN arena => sym = arena[k]
      /\ k \notin DOMAIN arena => sym.original = NullAddr /\ sym.last = NoHook
  <2>1. CASE k \in DOMAIN arena
    <3>1. sym = arena[k]
      BY <2>1 DEF HookedSymbol
    <3>2. arena[k] \in SymbolRec
      BY <1>0, <2>1 DEF HookTypes
    <3> HIDE DEF sym
    <3> QED
      BY <1>0, <2>1, <3>1, <3>2 DEF SymbolRec, ChainWellFormed
  <2>2. CASE k \notin DOMAIN arena
    <3>1. sym = [original |-> NullAddr, first |-> NoHook, last |-> NoHook]
      BY <2>2 DEF HookedSymbol
    <3> HIDE DEF sym
    <3> QED
      BY <2>2, <3>1 DEF Values
  <2> QED
    BY <2>1, <2>2
<1>3. parent = sym.last
  BY <1>2 DEF Below
<1>4. /\ made' = h
      /\ hookTables' = IF k \in DOMAIN arena THEN hookTables ELSE SetHook(l, s)
      /\ arena' = [j \in DOMAIN arena \cup {k} |-> IF j = k THEN grown ELSE arena[j]]
      /\ hook' = [g \in DOMAIN hook \cup {h} |->
                     IF g = h THEN rec
                     ELSE IF g = parent THEN [hook[g] EXCEPT !.child = h] ELSE hook[g]]
      /\ orig' = IF slot /\ parent # NoHook THEN [orig EXCEPT ![h] = At(parent)] ELSE orig
      /\ UNCHANGED <<loaded, libs, deps, got, fault, modAsked>>
  BY DEF CreateHook
<1> HIDE DEF sym, parent
<1>5. /\ grown = [original |-> sym.original,
                  first |-> IF sym.first = NoHook THEN h ELSE sym.first, last |-> h]
      /\ rec.key = k /\ rec.parent = parent /\ rec.child = NoHook /\ rec.slot = slot
  <2>1. rec.key = k /\ rec.parent = parent /\ rec.child = NoHook /\ rec.slot = slot
    OBVIOUS
  <2>2. grown = [original |-> sym.original,
                 first |-> IF sym.first = NoHook THEN h ELSE sym.first, last |-> h]
    <3> HIDE DEF h
    <3>1. grown = [[original |-> sym.original, first |-> sym.first, last |-> sym.last]
                      EXCEPT !.first = IF @ = NoHook THEN h ELSE @, !.last = h]
      BY <1>2
    <3> HIDE DEF grown
    <3> QED
      BY <3>1
  <2> QED
    BY <2>1, <2>2
<1>6. /\ DOMAIN arena' = DOMAIN arena \cup {k}
      /\ arena'[k].original = sym.original /\ arena'[k].last = h
      /\ arena'[k].first = IF sym.first = NoHook THEN h ELSE sym.first
      /\ \A j \in DOMAIN arena : j # k => arena'[j] = arena[j]
  BY <1>4, <1>5
<1>7. /\ DOMAIN hook' = DOMAIN hook \cup {h}
      /\ hook'[h].key = k /\ hook'[h].parent = parent /\ hook'[h].child = NoHook
      /\ hook'[h].slot = slot
  BY <1>4
<1>8. \A g \in DOMAIN hook :
         /\ hook'[g].key = hook[g].key /\ hook'[g].parent = hook[g].parent
         /\ hook'[g].slot = hook[g].slot
         /\ hook'[g].child = IF g = parent THEN h ELSE hook[g].child
  <2>1. \A g \in DOMAIN hook : hook[g] \in HookRec /\ g # h
    BY <1>0, <1>1 DEF HookTypes
  <2> QED
    BY <1>4, <2>1 DEF HookRec
<1> HIDE DEF grown, rec, h
<1>9. parent # NoHook => /\ parent \in DOMAIN hook /\ hook[parent].key = k
                         /\ hook[parent].child = NoHook /\ k \in DOMAIN arena
                         /\ arena[k].last = parent
  BY <1>0, <1>2, <1>3 DEF ChainWellFormed
<1>10. HookTypes'
  <2>1. arena' \in [DOMAIN arena' -> SymbolRec']
    <3>1. ASSUME NEW j \in DOMAIN arena' PROVE arena'[j] \in SymbolRec'
      <4>1. CASE j = k
        <5>1. arena'[j] = [original |-> sym.original,
                  first |-> IF sym.first = NoHook THEN h ELSE sym.first, last |-> h]
          BY <1>4, <1>5, <4>1
        <5> QED
          BY <1>2, <1>7, <5>1 DEF SymbolRec
      <4>2. CASE j # k
        <5>1. j \in DOMAIN arena /\ arena'[j] = arena[j]
          BY <1>6, <3>1, <4>2
        <5>2. arena[j] \in SymbolRec
          BY <1>0, <5>1 DEF HookTypes
        <5> QED
          BY <1>7, <5>1, <5>2 DEF SymbolRec
      <4> QED
        BY <4>1, <4>2
    <3> QED
      BY <1>4, <3>1
  <2>2. hook' \in [DOMAIN hook' -> HookRec]
    <3>1. rec \in HookRec
      BY <1>0, <1>2, <1>3, ChainTypes DEF rec, HookRec
    <3>2. ASSUME NEW g \in DOMAIN hook PROVE [hook[g] EXCEPT !.child = h] \in HookRec
      BY <1>0, <1>1, ZenonT(60) DEF HookTypes, HookRec
    <3> QED
      BY <1>0, <1>4, <3>1, <3>2 DEF HookTypes
  <2>3. DOMAIN hook' \subseteq 1 .. made' /\ made' \in 0 .. MaxHooks
    BY <1>0, <1>1, <1>4, <1>7, ChainTypes DEF h, Hooks
  <2>4. orig' \in [Hooks -> Values]
    BY <1>0, <1>1, <1>4, <1>9, ChainTypes DEF HookTypes, Values
  <2>5. hookTables' \in [Handles -> [Syms -> Keys \cup {NoKey}]]
    BY <1>0, <1>4 DEF HookTypes, SetHook
  <2>6. DOMAIN arena' \subseteq Keys
    BY <1>0, <1>6, ChainTypes
  <2> QED
    BY <1>0, <1>4, <2>1, <2>2, <2>3, <2>4, <2>5, <2>6 DEF HookTypes
<1>11. ChainWellFormed'
  <2>1. ASSUME NEW g \in DOMAIN hook'
        PROVE  LET p == hook'[g].parent
                   c == hook'[g].child
                   j == hook'[g].key
               IN  /\ j \in DOMAIN arena'
                   /\ p # NoHook => /\ p \in DOMAIN hook' /\ p < g
                                    /\ hook'[p].child = g /\ hook'[p].key = j
                   /\ c # NoHook => /\ c \in DOMAIN hook' /\ g < c
                                    /\ hook'[c].parent = g /\ hook'[c].key = j
                   /\ (p = NoHook) <=> (arena'[j].first = g)
                   /\ (c = NoHook) <=> (arena'[j].last = g)
    <3>1. CASE g = h
      <4>1. parent # NoHook => parent < h /\ hook'[parent].child = h /\ hook'[parent].key = k
        BY <1>1, <1>8, <1>9
      <4>2. parent = NoHook <=> arena'[k].first = h
        BY <1>1, <1>2, <1>3, <1>6, HookNumbers
      <4> QED
        BY <1>6, <1>7, <1>9, <3>1, <4>1, <4>2
    <3>2. CASE g \in DOMAIN hook
      <4> DEFINE p == hook[g].parent
                 c == hook[g].child
                 j == hook[g].key
      <4>1. /\ j \in DOMAIN arena /\ g # h /\ g < h
            /\ p # NoHook => /\ p \in DOMAIN hook /\ p < g
                             /\ hook[p].child = g /\ hook[p].key = j
            /\ c # NoHook => /\ c \in DOMAIN hook /\ g < c
                             /\ hook[c].parent = g /\ hook[c].key = j
            /\ (p = NoHook) <=> (arena[j].first = g)
            /\ (c = NoHook) <=> (arena[j].last = g)
        BY <1>0, <1>1, <3>2 DEF ChainWellFormed
      <4>2. p # NoHook => hook'[p].child = g /\ hook'[p].key = j /\ p \in DOMAIN hook'
        <5>1. p # NoHook => p # parent
          BY <1>9, <4>1, <3>2, HookNumbers, ChainTypes, <1>0
        <5> QED
          BY <1>7, <1>8, <4>1, <5>1
      <4>3. p = NoHook <=> arena'[j].first = g
        BY <1>2, <1>6, <4>1, HookNumbers, ChainTypes, <1>0, <3>2
      <4>4. CASE g = parent
        <5>1. /\ hook'[g].child = h /\ h # NoHook /\ j = k /\ arena'[k].last = h
              /\ hook'[h].parent = g /\ hook'[h].key = k /\ h \in DOMAIN hook'
          BY <1>1, <1>6, <1>7, <1>8, <1>9, <3>2, <4>4, HookNumbers, ChainTypes, <1>0
        <5> QED
          BY <1>6, <1>8, <3>2, <4>1, <4>2, <4>3, <5>1
      <4>5. CASE g # parent
        <5>1. hook'[g].child = c /\ (c = NoHook <=> arena'[j].last = g)
          <6>1. j = k => arena[k].last # g /\ arena'[j].last # g
            BY <1>0, <1>2, <1>3, <1>6, <4>1, <4>5
          <6> QED
            BY <1>6, <1>8, <3>2, <4>1, <4>5, <6>1
        <5>2. c # NoHook => /\ c \in DOMAIN hook' /\ g < c
                            /\ hook'[c].parent = g /\ hook'[c].key = j
          BY <1>7, <1>8, <4>1
        <5> QED
          BY <1>6, <1>8, <3>2, <4>1, <4>2, <4>3, <5>1, <5>2
      <4> QED
        BY <4>4, <4>5
    <3> QED
      BY <1>7, <2>1, <3>1, <3>2
  <2>2. ASSUME NEW j \in DOMAIN arena'
        PROVE  /\ (arena'[j].first = NoHook) <=> (arena'[j].last = NoHook)
               /\ \A e \in {arena'[j].first, arena'[j].last} \ {NoHook} :
                     e \in DOMAIN hook' /\ hook'[e].key = j
    <3>1. CASE j = k
      <4>1. sym.first # NoHook => sym.first \in DOMAIN hook /\ hook[sym.first].key = k
        BY <1>0, <1>2 DEF ChainWellFormed
      <4> QED
        BY <1>1, <1>6, <1>7, <1>8, <3>1, <4>1, HookNumbers
    <3>2. CASE j # k
      BY <1>0, <1>6, <1>7, <1>8, <2>2, <3>2 DEF ChainWellFormed
    <3> QED
      BY <3>1, <3>2
  <2> QED
    BY <2>1, <2>2 DEF ChainWellFormed
<1>12. OldestFirst'
  <2> SUFFICES ASSUME NEW f \in DOMAIN hook', NEW g \in DOMAIN hook',
                      hook'[f].key = hook'[g].key
               PROVE  /\ f < g => f <= hook'[g].parent
                      /\ f <= arena'[hook'[g].key].last
    BY DEF OldestFirst
  <2>1. CASE f \in DOMAIN hook /\ g \in DOMAIN hook
    <3>1. hook[f].key = hook[g].key /\ hook[g].key \in DOMAIN arena
      BY <1>0, <1>8, <2>1 DEF ChainWellFormed
    <3>2. (f < g => f <= hook[g].parent) /\ f <= arena[hook[g].key].last /\ f < h
      BY <1>0, <1>1, <2>1, <3>1 DEF OldestFirst
    <3>3. f \in Nat /\ h \in Nat
      BY <1>0, <1>1, <2>1, ChainTypes
    <3> QED
      BY <1>6, <1>8, <2>1, <3>1, <3>2, <3>3
  <2>2. CASE f \in DOMAIN hook /\ g = h
    <3>1. hook[f].key = k /\ k \in DOMAIN arena
      BY <1>0, <1>7, <1>8, <2>2 DEF ChainWellFormed
    <3>2. f <= arena[k].last /\ f < h /\ f \in Nat
      BY <1>0, <1>1, <2>2, <3>1, ChainTypes DEF OldestFirst
    <3>3. parent = arena[k].last
      BY <1>2, <1>3, <3>1
    <3> QED
      BY <1>1, <1>6, <1>7, <2>2, <3>2, <3>3
  <2>3. CASE f = h
    <3>1. ~(f < g) /\ f <= h
      BY <1>0, <1>1, <1>7, <2>3, ChainTypes
    <3>2. hook'[g].key = k
      BY <1>7, <2>3
    <3> QED
      BY <1>6, <3>1, <3>2
  <2> QED
    BY <1>7, <2>1, <2>2, <2>3
<1>13. OrigBelow'
  <2>1. ASSUME NEW f \in DOMAIN hook', NEW g \in Hooks, hook'[f].slot, orig'[f] = At(g)
        PROVE  hook'[f].parent = g
    <3>1. CASE f = h
      <4>1. slot /\ (parent = NoHook => orig[h] = At(g))
        BY <1>0, <1>1, <1>4, <1>7, <2>1, <3>1 DEF HookTypes
      <4>2. orig[h] = NullAddr
        BY <1>0, <1>1 DEF OrigBelow
      <4>3. orig[h] # At(g)
        BY <1>0, <4>2, HookAddresses, <1>1 DEF At, NullAddr
      <4>4. orig'[h] = At(parent) /\ parent \in Hooks
        BY <1>0, <1>1, <1>4, <1>9, <4>1, <4>3, ChainTypes DEF HookTypes
      <4>5. parent = g
        BY <2>1, <3>1, <4>4 DEF At
      <4> QED
        BY <1>7, <3>1, <4>5
    <3>2. CASE f \in DOMAIN hook
      <4>1. f # h /\ orig'[f] = orig[f] /\ f \in Hooks
        BY <1>0, <1>1, <1>4, <3>2, ChainTypes DEF HookTypes
      <4> QED
        BY <1>0, <1>8, <2>1, <3>2, <4>1, ZenonT(60) DEF OrigBelow
    <3> QED
      BY <1>7, <2>1, <3>1, <3>2
  <2>2. ASSUME NEW f \in Hooks, f > made' PROVE orig'[f] = NullAddr
    <3>1. f # h /\ f > made
      BY <1>1, <1>4, <2>2, HookNumbers
    <3> QED
      BY <1>0, <1>4, <3>1 DEF OrigBelow, HookTypes
  <2> QED
    BY <2>1, <2>2 DEF OrigBelow
<1>14. SlotsKept'
  <2>1. ASSUME NEW d \in Handles, NEW t \in Syms, hookTables'[d][t] # NoKey
        PROVE  hookTables'[d][t] \in DOMAIN arena'
    <3>1. hookTables'[d][t] = hookTables[d][t] \/ hookTables'[d][t] = k
      BY <1>0, <1>4 DEF SetHook, HookTypes
    <3> QED
      BY <1>0, <1>6, <2>1, <3>1 DEF SlotsKept
  <2>2. ASSUME NEW d \in Handles, NEW t \in Syms,
               <<d, t>> \in DOMAIN arena' => arena'[<<d, t>>].original = NullAddr
        PROVE  got'[d][t] = Pristine(d, t)
    <3>1. <<d, t>> \in DOMAIN arena => arena[<<d, t>>].original = NullAddr
      BY <1>2, <1>6, <2>2
    <3> QED
      BY <1>0, <1>4, <3>1 DEF SlotsKept
  <2> QED
    BY <2>1, <2>2 DEF SlotsKept
<1>15. OriginalPristine'
  BY <1>0, <1>2, <1>6 DEF OriginalPristine
<1> QED
  BY <1>10, <1>11, <1>12, <1>13, <1>14, <1>15 DEF HookInv

-----------------------------------------------------------------------------
(* A deleted hook leaves its neighbours linked to each other. *)

LEMMA DeleteKeeps ==
    ASSUME HookInv, NEW h \in Hooks, DeleteHook(h)
    PROVE  HookInv'
<1> DEFINE p == hook[h].parent
           c == hook[h].child
           k == hook[h].key
<1>0. /\ HookTypes /\ ChainWellFormed /\ OldestFirst /\ OrigBelow
      /\ SlotsKept /\ OriginalPristine /\ h \in DOMAIN hook
  BY DEF HookInv, DeleteHook
<1>1. /\ k \in DOMAIN arena /\ k \in Keys /\ h \in Nat /\ h # NoHook
      /\ p # NoHook => p \in DOMAIN hook /\ p < h /\ hook[p].child = h /\ hook[p].key = k
      /\ c # NoHook => c \in DOMAIN hook /\ h < c /\ hook[c].parent = h /\ hook[c].key = k
      /\ p = NoHook <=> arena[k].first = h
      /\ c = NoHook <=> arena[k].last = h
      /\ p \in Hooks \cup {NoHook} /\ c \in Hooks \cup {NoHook}
  BY <1>0, ChainTypes, HookNumbers DEF ChainWellFormed
<1>2. p # h /\ c # h /\ (p # NoHook => p # c)
  <2>1. p \in Nat /\ c \in Nat /\ h \in Nat /\ h # NoHook
    BY <1>1, HookNumbers
  <2>2. (p # NoHook => p < h) /\ (c # NoHook => h < c)
    BY <1>1
  <2> HIDE DEF p, c
  <2> QED
    BY <2>1, <2>2 DEF NoHook
<1>3. /\ hook' = [g \in DOMAIN hook \ {h} |->
                     IF g = c THEN [hook[g] EXCEPT !.parent = p]
                     ELSE IF g = p THEN [hook[g] EXCEPT !.child = c] ELSE hook[g]]
      /\ arena' = [arena EXCEPT ![k] = Ends(arena[k], h)]
      /\ orig' = IF c # NoHook /\ hook[c].slot
                 THEN [orig EXCEPT ![c] = IF p # NoHook THEN At(p) ELSE arena[k].original]
                 ELSE orig
      /\ UNCHANGED <<loaded, libs, deps, hookTables, made, got, fault, modAsked>>
  BY DEF DeleteHook, Unlinked, NewOrig
<1>4. \A g \in DOMAIN hook : hook[g] \in HookRec /\ g \in Hooks /\ g # NoHook /\ g \in Nat
  BY <1>0, ChainTypes, HookNumbers DEF HookTypes
<1> HIDE DEF p, c, k
<1>5. DOMAIN hook' = DOMAIN hook \ {h} /\ DOMAIN arena' = DOMAIN arena
  BY <1>3
<1>6. ASSUME NEW g \in DOMAIN hook' PROVE
         /\ hook'[g] \in HookRec
         /\ hook'[g].key = hook[g].key /\ hook'[g].slot = hook[g].slot
         /\ hook'[g].parent = (IF g = c THEN p ELSE hook[g].parent)
         /\ hook'[g].child = (IF g = p THEN c ELSE hook[g].child)
  <2>1. hook[g] \in HookRec /\ g \in DOMAIN hook /\ g # h /\ g # NoHook
    BY <1>4, <1>5, <1>6
  <2>2. CASE g = c
    <3>1. hook'[g] = [hook[g] EXCEPT !.parent = p] /\ g # p
      BY <1>2, <1>3, <2>1, <2>2
    <3> QED
      BY <1>1, <2>1, <2>2, <3>1 DEF HookRec
  <2>3. CASE g # c /\ g = p
    <3>1. hook'[g] = [hook[g] EXCEPT !.child = c]
      BY <1>3, <2>1, <2>3
    <3> QED
      BY <1>1, <2>1, <2>3, <3>1 DEF HookRec
  <2>4. CASE g # c /\ g # p
    BY <1>3, <2>1, <2>4
  <2> QED
    BY <2>2, <2>3, <2>4
<1>7. /\ arena'[k].original = arena[k].original
      /\ arena'[k].first = (IF arena[k].first = h THEN c ELSE arena[k].first)
      /\ arena'[k].last = (IF arena[k].last = h THEN p ELSE arena[k].last)
      /\ arena'[k] = [original |-> arena'[k].original, first |-> arena'[k].first,
                      last |-> arena'[k].last]
  <2>1. arena[k] \in SymbolRec
    BY <1>0, <1>1 DEF HookTypes
  <2>2. arena'[k] = [arena[k] EXCEPT !.first = IF @ = h THEN c ELSE @,
                                     !.last = IF @ = h THEN p ELSE @]
    BY <1>1, <1>3 DEF Ends, c, p
  <2>3. arena[k] = [original |-> arena[k].original, first |-> arena[k].first,
                    last |-> arena[k].last]
    BY <2>1 DEF SymbolRec
  <2> QED
    BY <2>2, <2>3
<1>8. \A j \in DOMAIN arena : j # k => arena'[j] = arena[j]
  BY <1>3
<1>9. ASSUME NEW j \in DOMAIN arena PROVE
         /\ arena'[j].original = arena[j].original
         /\ arena'[j].first \in DOMAIN hook' \cup {NoHook}
         /\ arena'[j].last \in DOMAIN hook' \cup {NoHook}
         /\ arena'[j].first = NoHook <=> arena'[j].last = NoHook
         /\ \A e \in {arena'[j].first, arena'[j].last} \ {NoHook} :
               e \in DOMAIN hook' /\ hook'[e].key = j
  <2>1. /\ arena[j].first \in DOMAIN hook \cup {NoHook}
        /\ arena[j].last \in DOMAIN hook \cup {NoHook}
        /\ arena[j].first = NoHook <=> arena[j].last = NoHook
        /\ \A e \in {arena[j].first, arena[j].last} \ {NoHook} :
              e \in DOMAIN hook /\ hook[e].key = j
    BY <1>0, ChainTypes DEF ChainWellFormed
  <2>2. CASE j # k
    <3>1. arena'[j] = arena[j] /\ arena[j].first # h /\ arena[j].last # h
      BY <1>0, <1>1, <1>8, <1>9, <2>1, <2>2 DEF k
    <3> QED
      BY <1>5, <1>6, <2>1, <3>1
  <2>3. CASE j = k
    <3>1. c # NoHook => c \in DOMAIN hook' /\ hook'[c].key = k
      BY <1>1, <1>2, <1>5, <1>6
    <3>2. p # NoHook => p \in DOMAIN hook' /\ hook'[p].key = k
      BY <1>1, <1>2, <1>5, <1>6
    <3>3. /\ arena'[k].first \in DOMAIN hook' \cup {NoHook}
          /\ arena'[k].first # NoHook => hook'[arena'[k].first].key = k
      BY <1>5, <1>6, <1>7, <2>1, <2>3, <3>1
    <3>4. /\ arena'[k].last \in DOMAIN hook' \cup {NoHook}
          /\ arena'[k].last # NoHook => hook'[arena'[k].last].key = k
      BY <1>5, <1>6, <1>7, <2>1, <2>3, <3>2
    <3>5. arena'[k].first = NoHook <=> arena'[k].last = NoHook
      BY <1>1, <1>7, <2>1, <2>3
    <3> QED
      BY <1>7, <2>3, <3>3, <3>4, <3>5
  <2> QED
    BY <2>2, <2>3
<1>10. HookTypes'
  <2>1. arena' \in [DOMAIN arena' -> SymbolRec']
    <3>1. ASSUME NEW j \in DOMAIN arena PROVE arena'[j] \in SymbolRec'
      <4>1. arena[j] \in SymbolRec
        BY <1>0 DEF HookTypes
      <4>2. arena'[j] = [original |-> arena'[j].original, first |-> arena'[j].first,
                         last |-> arena'[j].last]
        BY <1>7, <1>8, <4>1 DEF SymbolRec
      <4>3. arena'[j].original \in Values
        BY <1>9, <4>1 DEF SymbolRec
      <4> QED
        BY <1>9, <4>2, <4>3 DEF SymbolRec
    <3> QED
      BY <1>3, <1>5, <3>1
  <2>2. hook' \in [DOMAIN hook' -> HookRec]
    BY <1>3, <1>5, <1>6
  <2>3. orig' \in [Hooks -> Values]
    <3>1. arena[k].original \in Values /\ (p # NoHook => At(p) \in Values)
      BY <1>0, <1>1, ChainTypes DEF Values
    <3> QED
      BY <1>0, <1>3, <3>1 DEF HookTypes
  <2> QED
    BY <1>0, <1>3, <1>5, <2>1, <2>2, <2>3 DEF HookTypes
<1>11. ChainWellFormed'
  <2>1. ASSUME NEW g \in DOMAIN hook'
        PROVE  LET q == hook'[g].parent
                   d == hook'[g].child
                   j == hook'[g].key
               IN  /\ j \in DOMAIN arena'
                   /\ q # NoHook => /\ q \in DOMAIN hook' /\ q < g
                                    /\ hook'[q].child = g /\ hook'[q].key = j
                   /\ d # NoHook => /\ d \in DOMAIN hook' /\ g < d
                                    /\ hook'[d].parent = g /\ hook'[d].key = j
                   /\ (q = NoHook) <=> (arena'[j].first = g)
                   /\ (d = NoHook) <=> (arena'[j].last = g)
    <3> DEFINE q == hook[g].parent
               d == hook[g].child
               j == hook[g].key
    <3>1. /\ j \in DOMAIN arena /\ g # h /\ g \in DOMAIN hook
          /\ q # NoHook => /\ q \in DOMAIN hook /\ q < g
                           /\ hook[q].child = g /\ hook[q].key = j
          /\ d # NoHook => /\ d \in DOMAIN hook /\ g < d
                           /\ hook[d].parent = g /\ hook[d].key = j
          /\ (q = NoHook) <=> (arena[j].first = g)
          /\ (d = NoHook) <=> (arena[j].last = g)
      BY <1>0, <1>5, <2>1 DEF ChainWellFormed
    <3>2. /\ hook'[g].key = j
          /\ hook'[g].parent = (IF g = c THEN p ELSE q)
          /\ hook'[g].child = (IF g = p THEN c ELSE d)
      BY <1>6, <2>1
    <3>3. /\ g # c => q # h
          /\ g # p => d # h
          /\ g = c => q = h /\ j = k
          /\ g = p => d = h /\ j = k
      BY <1>1, <1>4, <3>1 DEF c, p
    <3>4. g # NoHook /\ g \in Nat
      BY <1>4, <3>1
    <3> HIDE DEF q, d, j
    <3>5. hook'[g].parent # NoHook =>
             /\ hook'[g].parent \in DOMAIN hook' /\ hook'[g].parent < g
             /\ hook'[hook'[g].parent].child = g /\ hook'[hook'[g].parent].key = j
      <4>1. CASE g = c
        <5>1. ASSUME p # NoHook
              PROVE  p \in DOMAIN hook' /\ p < g /\ hook'[p].child = g /\ hook'[p].key = j
          <6>1. p \in DOMAIN hook' /\ p \in Nat /\ c \in Nat
            BY <1>1, <1>2, <1>4, <1>5, <3>1, <4>1, <5>1
          <6>2. p < h /\ h < c
            BY <1>1, <3>4, <4>1, <5>1
          <6>3. hook'[p].child = c /\ hook'[p].key = k
            BY <1>1, <1>6, <5>1, <6>1
          <6> QED
            BY <1>1, <3>3, <4>1, <6>1, <6>2, <6>3
        <5> QED
          BY <3>2, <4>1, <5>1
      <4>2. CASE g # c
        <5>1. ASSUME q # NoHook
              PROVE  q \in DOMAIN hook' /\ q < g /\ hook'[q].child = g /\ hook'[q].key = j
          <6>1. q \in DOMAIN hook' /\ q # p
            BY <1>1, <1>5, <3>1, <3>3, <4>2, <5>1
          <6> QED
            BY <1>6, <3>1, <5>1, <6>1
        <5> QED
          BY <3>2, <4>2, <5>1
      <4> QED
        BY <4>1, <4>2
    <3>6. hook'[g].child # NoHook =>
             /\ hook'[g].child \in DOMAIN hook' /\ g < hook'[g].child
             /\ hook'[hook'[g].child].parent = g /\ hook'[hook'[g].child].key = j
      <4>1. CASE g = p
        <5>1. ASSUME c # NoHook
              PROVE  c \in DOMAIN hook' /\ g < c /\ hook'[c].parent = g /\ hook'[c].key = j
          <6>1. c \in DOMAIN hook' /\ p \in Nat /\ c \in Nat
            BY <1>1, <1>2, <1>4, <1>5, <3>1, <4>1, <5>1
          <6>2. p < h /\ h < c
            BY <1>1, <3>4, <4>1, <5>1
          <6>3. hook'[c].parent = p /\ hook'[c].key = k
            BY <1>1, <1>6, <5>1, <6>1
          <6> QED
            BY <1>1, <3>3, <4>1, <6>1, <6>2, <6>3
        <5> QED
          BY <3>2, <4>1, <5>1
      <4>2. CASE g # p
        <5>1. ASSUME d # NoHook
              PROVE  d \in DOMAIN hook' /\ g < d /\ hook'[d].parent = g /\ hook'[d].key = j
          <6>1. d \in DOMAIN hook' /\ d # c
            BY <1>1, <1>5, <3>1, <3>3, <4>2, <5>1
          <6> QED
            BY <1>6, <3>1, <5>1, <6>1
        <5> QED
          BY <3>2, <4>2, <5>1
      <4> QED
        BY <4>1, <4>2
    <3>7. hook'[g].parent = NoHook <=> arena'[j].first = g
      BY <1>1, <1>7, <1>8, <3>1, <3>2, <3>3, <3>4
    <3>8. hook'[g].child = NoHook <=> arena'[j].last = g
      BY <1>1, <1>7, <1>8, <3>1, <3>2, <3>3, <3>4
    <3> QED
      BY <1>5, <3>1, <3>2, <3>5, <3>6, <3>7, <3>8
  <2> QED
    BY <1>5, <1>9, <2>1 DEF ChainWellFormed
<1>12. OldestFirst'
  <2> SUFFICES ASSUME NEW f \in DOMAIN hook', NEW g \in DOMAIN hook',
                      hook'[f].key = hook'[g].key
               PROVE  /\ f < g => f <= hook'[g].parent
                      /\ f <= arena'[hook'[g].key].last
    BY DEF OldestFirst
  <2>1. /\ f \in DOMAIN hook /\ g \in DOMAIN hook /\ f # h /\ f \in Nat
        /\ hook[f].key = hook[g].key /\ hook'[g].key = hook[g].key
        /\ hook[g].key \in DOMAIN arena
    BY <1>0, <1>4, <1>5, <1>6 DEF ChainWellFormed
  <2>2. (f < g => f <= hook[g].parent) /\ f <= arena[hook[g].key].last
    BY <1>0, <2>1 DEF OldestFirst
  <2>3. hook[f].key = k /\ f < h => f <= p
    BY <1>0, <2>1 DEF OldestFirst, k, p
  <2>4. CASE g = c
    <3>1. hook[g].parent = h /\ hook[f].key = k
      BY <1>1, <1>4, <2>1, <2>4
    <3>2. f < g => f <= p
      BY <1>1, <2>1, <2>2, <2>3, <3>1
    <3>3. arena'[k].last = arena[k].last
      BY <1>1, <1>4, <1>7, <2>1, <2>4
    <3> QED
      BY <1>6, <2>1, <2>2, <2>4, <3>1, <3>2, <3>3
  <2>5. CASE g # c
    <3>1. f <= arena'[hook[g].key].last
      BY <1>1, <1>7, <1>8, <2>1, <2>2, <2>3
    <3> QED
      BY <1>6, <2>1, <2>2, <2>5, <3>1
  <2> QED
    BY <2>4, <2>5
<1>13. OrigBelow'
  <2>1. ASSUME NEW f \in DOMAIN hook', NEW g \in Hooks, hook'[f].slot, orig'[f] = At(g)
        PROVE  hook'[f].parent = g
    <3>1. f \in DOMAIN hook /\ f \in Hooks /\ hook[f].slot
      BY <1>4, <1>5, <1>6, <2>1
    <3>2. CASE f = c
      <4>1. orig'[c] = IF p # NoHook THEN At(p) ELSE arena[k].original
        BY <1>0, <1>3, <1>4, <3>1, <3>2 DEF HookTypes
      <4>2. arena[k].original # At(g)
        BY <1>0, <1>1, KeyParts, HookAddresses DEF OriginalPristine
      <4>3. At(p) = At(g) /\ p # NoHook
        BY <2>1, <3>2, <4>1, <4>2
      <4>4. p = g
        BY <1>1, <4>3, HookAddresses, KeyParts
      <4> QED
        BY <1>6, <2>1, <3>2, <4>4
    <3>3. CASE f # c
      <4>1. orig'[f] = orig[f]
        BY <1>0, <1>3, <3>1, <3>3 DEF HookTypes
      <4>2. hook[f].parent = g
        BY <1>0, <2>1, <3>1, <4>1 DEF OrigBelow
      <4> QED
        BY <1>6, <2>1, <3>3, <4>2
    <3> QED
      BY <3>2, <3>3
  <2>2. ASSUME NEW f \in Hooks, f > made' PROVE orig'[f] = NullAddr
    <3>1. c # NoHook => f # c
      BY <1>0, <1>1, <1>3, <2>2, ChainTypes, HookNumbers
    <3> QED
      BY <1>0, <1>3, <2>2, <3>1 DEF OrigBelow, HookTypes
  <2> QED
    BY <2>1, <2>2 DEF OrigBelow
<1>14. SlotsKept'
  <2>1. \A j \in DOMAIN arena : arena'[j].original = arena[j].original
    BY <1>9
  <2> QED
    BY <1>0, <1>3, <1>5, <2>1 DEF SlotsKept
<1>15. OriginalPristine'
  BY <1>0, <1>5, <1>9 DEF OriginalPristine
<1> QED
  BY <1>10, <1>11, <1>12, <1>13, <1>14, <1>15 DEF HookInv

-----------------------------------------------------------------------------
(* Applying the hooks keeps what the linker wrote, once. *)

LEMMA ApplyKeeps ==
    ASSUME HookInv, Apply, modAsked' \subseteq ModHooked
    PROVE  HookInv'
<1>0. /\ HookTypes /\ ChainWellFormed /\ OldestFirst /\ OrigBelow
      /\ SlotsKept /\ OriginalPristine
  BY DEF HookInv
<1>1. /\ DOMAIN arena' = DOMAIN arena
      /\ \A j \in DOMAIN arena :
            arena'[j] = IF Captures(j)
                        THEN [arena[j] EXCEPT !.original = got[j[1]][j[2]]] ELSE arena[j]
      /\ UNCHANGED <<loaded, libs, deps, hookTables, made, hook, fault>>
  BY DEF Apply
\* What is captured is what the linker wrote.
<1>2. ASSUME NEW j \in DOMAIN arena, Captures(j)
      PROVE  got[j[1]][j[2]] = Pristine(j[1], j[2])
  <2>1. j[1] \in Handles /\ j[2] \in Syms /\ j = <<j[1], j[2]>>
    BY <1>0, <1>2, ChainTypes, KeyParts
  <2>2. arena[<<j[1], j[2]>>].original = NullAddr
    BY <1>2, <2>1 DEF Captures
  <2> QED
    BY <1>0, <2>1, <2>2 DEF SlotsKept
<1>3. ASSUME NEW j \in DOMAIN arena
      PROVE  /\ arena'[j].first = arena[j].first /\ arena'[j].last = arena[j].last
             /\ arena'[j].original = (IF Captures(j) THEN Pristine(j[1], j[2])
                                      ELSE arena[j].original)
             /\ arena'[j] \in SymbolRec
  <2>1. arena[j] \in SymbolRec /\ Pristine(j[1], j[2]) \in Values
    BY <1>0, <1>3, ChainTypes, KeyParts DEF HookTypes, Pristine, Values
  <2>2. CASE Captures(j)
    <3>1. arena'[j] = [arena[j] EXCEPT !.original = Pristine(j[1], j[2])]
      BY <1>1, <1>2, <1>3, <2>2
    <3> QED
      BY <2>1, <2>2, <3>1 DEF SymbolRec
  <2>3. CASE ~Captures(j)
    BY <1>1, <1>3, <2>1, <2>3
  <2> QED
    BY <2>2, <2>3
<1>4. ASSUME NEW h \in Hooks
      PROVE  /\ orig'[h] = orig[h]
                \/ /\ h \in DOMAIN hook
                   /\ \E l \in Handles, s \in Syms : orig'[h] = Pristine(l, s)
             /\ orig'[h] \in Values
  <2> DEFINE j == hook[h].key
             fills == /\ h \in DOMAIN hook /\ hook[h].slot
                      /\ Captures(j) /\ arena[j].first = h
  <2>1. orig'[h] = IF fills THEN got[j[1]][j[2]] ELSE orig[h]
    BY <1>4 DEF Apply
  <2>2. CASE fills
    <3>1. j \in DOMAIN arena /\ j[1] \in Handles /\ j[2] \in Syms
      BY <1>0, <2>2, ChainTypes, KeyParts DEF ChainWellFormed
    <3>2. orig'[h] = Pristine(j[1], j[2])
      BY <1>2, <2>1, <2>2, <3>1
    <3>3. Pristine(j[1], j[2]) \in Values
      BY <3>1 DEF Pristine, Values, Keys
    <3> QED
      BY <2>2, <3>1, <3>2, <3>3
  <2>3. CASE ~fills
    BY <1>0, <2>1, <2>3 DEF HookTypes
  <2> QED
    BY <2>2, <2>3
<1>5. HookTypes'
  <2>1. SymbolRec' = SymbolRec
    BY <1>1 DEF SymbolRec
  <2>2. arena' \in [DOMAIN arena' -> SymbolRec']
    <3>1. arena' = [j \in DOMAIN arena |-> arena'[j]]
      BY DEF Apply
    <3> QED
      BY <1>1, <1>3, <2>1, <3>1
  <2>3. orig' \in [Hooks -> Values]
    <3>1. orig' = [h \in Hooks |-> orig'[h]]
      BY DEF Apply
    <3> QED
      BY <1>4, <3>1
  <2>4. got' \in [Handles -> [Syms -> Values]]
    <3>1. ASSUME NEW l \in Handles, NEW s \in Syms, Patched(l, s)
          PROVE  Replacement(arena[<<l, s>>]) \in Values
      <4>1. hookTables[l][s] = <<l, s>> /\ <<l, s>> # NoKey
        <5>1. <<l, s>> # <<>>
          OBVIOUS
        <5> QED
          BY <3>1, <5>1 DEF Patched, NoKey
      <4>2. <<l, s>> \in DOMAIN arena
        BY <1>0, <4>1 DEF SlotsKept
      <4>3. /\ arena[<<l, s>>].original \in Values
            /\ arena[<<l, s>>].last \in Hooks \cup {NoHook}
        BY <1>0, <4>2, ChainTypes
      <4> QED
        BY <4>3 DEF Replacement, Values
    <3>2. \A l \in Handles, s \in Syms : got[l][s] \in Values
      BY <1>0 DEF HookTypes
    <3>3. got' = [l \in Handles |-> [s \in Syms |->
                    IF Patched(l, s) THEN Replacement(arena[<<l, s>>]) ELSE got[l][s]]]
      BY DEF Apply
    <3> QED
      BY <3>1, <3>2, <3>3
  <2> QED
    BY <1>0, <1>1, <2>2, <2>3, <2>4 DEF HookTypes
<1>6. ChainWellFormed'
  BY <1>0, <1>1, <1>3 DEF ChainWellFormed
<1>7. OldestFirst'
  BY <1>0, <1>1, <1>3 DEF OldestFirst, ChainWellFormed
<1>8. OrigBelow'
  <2>1. ASSUME NEW h \in DOMAIN hook, NEW g \in Hooks, hook[h].slot, orig'[h] = At(g)
        PROVE  hook[h].parent = g
    <3>1. h \in Hooks /\ orig'[h] = orig[h]
      BY <1>0, <1>4, <2>1, ChainTypes, HookAddresses
    <3> QED
      BY <1>0, <2>1, <3>1 DEF OrigBelow
  <2>2. ASSUME NEW h \in Hooks, h > made PROVE orig'[h] = NullAddr
    <3>1. h \notin DOMAIN hook
      BY <1>0, <2>2, ChainTypes, HookNumbers
    <3> QED
      BY <1>0, <1>4, <2>2, <3>1 DEF OrigBelow
  <2> QED
    BY <1>1, <2>1, <2>2 DEF OrigBelow
<1>9. SlotsKept'
  <2>1. ASSUME NEW l \in Handles, NEW s \in Syms,
               <<l, s>> \in DOMAIN arena => arena'[<<l, s>>].original = NullAddr
        PROVE  got'[l][s] = Pristine(l, s)
    <3>1. <<l, s>>[1] = l /\ <<l, s>>[2] = s /\ <<l, s>> # <<>>
      OBVIOUS
    <3>2. Pristine(l, s) # NullAddr
      BY <3>1 DEF Pristine, NullAddr
    <3>3. /\ <<l, s>> \in DOMAIN arena => ~Captures(<<l, s>>)
          /\ <<l, s>> \in DOMAIN arena => arena[<<l, s>>].original = NullAddr
      BY <1>3, <2>1, <3>1, <3>2
    <3>4. Patched(l, s) => <<l, s>> \in DOMAIN arena
      BY <1>0, <3>1 DEF Patched, SlotsKept, NoKey
    <3>5. ~Patched(l, s)
      BY <3>1, <3>3, <3>4 DEF Captures
    <3>6. got'[l][s] = got[l][s]
      BY <3>5 DEF Apply
    <3> QED
      BY <1>0, <3>3, <3>6 DEF SlotsKept
  <2> QED
    BY <1>0, <1>1, <2>1 DEF SlotsKept
<1>10. OriginalPristine'
  BY <1>0, <1>1, <1>3 DEF OriginalPristine
<1> QED
  BY <1>5, <1>6, <1>7, <1>8, <1>9, <1>10 DEF HookInv

-----------------------------------------------------------------------------
(* HookInv holds in every state. *)

LEMMA HookStart == HookInit => HookInv
<1> SUFFICES ASSUME HookInit PROVE HookInv
  OBVIOUS
<1>1. HookTypes
  <2>1. \A l \in Handles, s \in Syms : Pristine(l, s) \in Values
    BY DEF Pristine, Values, Keys
  <2>2. got \in [Handles -> [Syms -> Values]]
    BY <2>1 DEF HookInit
  <2>3. DOMAIN arena = {} /\ DOMAIN hook = {}
    BY DEF HookInit
  <2>4. arena \in [DOMAIN arena -> SymbolRec] /\ hook \in [DOMAIN hook -> HookRec]
    BY DEF HookInit
  <2>5. orig \in [Hooks -> Values]
    BY DEF HookInit, Values
  <2>6. hookTables \in [Handles -> [Syms -> Keys \cup {NoKey}]]
    BY DEF HookInit
  <2>7. made \in 0 .. MaxHooks
    BY HookAssumption DEF HookInit
  <2> QED
    BY <2>2, <2>3, <2>4, <2>5, <2>6, <2>7 DEF HookInit, HookTypes
<1>2. ChainWellFormed /\ OldestFirst /\ OriginalPristine
  BY DEF HookInit, ChainWellFormed, OldestFirst, OriginalPristine
<1>3. OrigBelow
  BY DEF HookInit, OrigBelow
<1>4. SlotsKept
  BY DEF HookInit, SlotsKept
<1> QED
  BY <1>1, <1>2, <1>3, <1>4 DEF HookInv

\* The linker's steps, and those that leave the chains and the slots alone.
LEMMA OthersKeep ==
    ASSUME HookInv, UNCHANGED <<arena, made, hook, orig, got, modAsked>>,
           loaded' \subseteq Handles, libs' \subseteq Handles,
           deps' \in [Handles -> SUBSET Handles], fault' \in BOOLEAN,
           hookTables' \in [Handles -> [Syms -> Keys \cup {NoKey}]],
           \A l \in Handles, s \in Syms :
              hookTables'[l][s] = hookTables[l][s] \/ hookTables'[l][s] = NoKey
    PROVE  HookInv'
<1>1. HookTypes'
  <2>1. SymbolRec' = SymbolRec
    BY DEF SymbolRec
  <2> QED
    BY <2>1 DEF HookInv, HookTypes
<1>2. ChainWellFormed' /\ OldestFirst' /\ OrigBelow' /\ OriginalPristine'
  BY DEF HookInv, ChainWellFormed, OldestFirst, OrigBelow, OriginalPristine
<1>3. SlotsKept'
  BY DEF HookInv, SlotsKept
<1> QED
  BY <1>1, <1>2, <1>3 DEF HookInv

LEMMA HookStep == HookInv /\ [HookNext]_hookVars => HookInv'
<1> SUFFICES ASSUME HookInv, [HookNext]_hookVars PROVE HookInv'
  OBVIOUS
<1>0. HookTypes
  BY DEF HookInv
<1>1. ASSUME NEW l \in Handles, LinkerLoads(l) PROVE HookInv'
  BY <1>0, <1>1, OthersKeep DEF LinkerLoads, HookTypes
<1>2. ASSUME NEW l \in Handles, LinkerUnloads(l) PROVE HookInv'
  BY <1>0, <1>2, OthersKeep DEF LinkerUnloads, HookTypes
<1>3. ASSUME NEW l \in Handles, HookLibrary(l) PROVE HookInv'
  <2>1. /\ UNCHANGED <<arena, made, hook, orig, got, modAsked>>
        /\ loaded' \subseteq Handles /\ libs' \subseteq Handles /\ fault' \in BOOLEAN
    BY <1>0, <1>3 DEF HookLibrary, HookTypes
  <2>2. deps' \in [Handles -> SUBSET Handles]
    BY <1>0, <1>3 DEF HookLibrary, HookTypes
  <2>3. hookTables' \in [Handles -> [Syms -> Keys \cup {NoKey}]]
    BY <1>0, <1>3 DEF HookLibrary, HookTypes
  <2>4. \A d \in Handles, s \in Syms :
           hookTables'[d][s] = hookTables[d][s] \/ hookTables'[d][s] = NoKey
    BY <1>0, <1>3 DEF HookLibrary, HookTypes
  <2> QED
    BY <2>1, <2>2, <2>3, <2>4, OthersKeep
<1>4. ASSUME NEW l \in Handles, UnhookLibrary(l) PROVE HookInv'
  <2>1. /\ UNCHANGED <<arena, made, hook, orig, got, modAsked>>
        /\ loaded' \subseteq Handles /\ libs' \subseteq Handles /\ fault' \in BOOLEAN
    BY <1>0, <1>4 DEF UnhookLibrary, HookTypes
  <2>2. deps' \in [Handles -> SUBSET Handles]
    BY <1>0, <1>4 DEF UnhookLibrary, HookTypes
  <2>3. hookTables' \in [Handles -> [Syms -> Keys \cup {NoKey}]]
    BY <1>0, <1>4 DEF UnhookLibrary, HookTypes
  <2>4. \A d \in Handles, s \in Syms :
           hookTables'[d][s] = hookTables[d][s] \/ hookTables'[d][s] = NoKey
    BY <1>0, <1>4 DEF UnhookLibrary, HookTypes
  <2> QED
    BY <2>1, <2>2, <2>3, <2>4, OthersKeep
<1>5. ASSUME NEW l \in Handles, NEW s \in Syms, NEW slot \in BOOLEAN,
             CreateHook(l, s, slot)
      PROVE  HookInv'
  BY <1>5, CreateKeeps
<1>6. ASSUME NEW h \in Hooks, DeleteHook(h) PROVE HookInv'
  BY <1>6, DeleteKeeps
<1>7. ASSUME NEW h \in Hooks, DeleteCrashes(h) PROVE HookInv'
  BY <1>0, <1>7, OthersKeep DEF DeleteCrashes, HookTypes
<1>8. ASSUME ApplyHooks PROVE HookInv'
  BY <1>0, <1>8, ApplyKeeps DEF ApplyHooks, HookTypes
<1>9. ASSUME NEW l \in Handles, NEW s \in Syms, ModHook(l, s) PROVE HookInv'
  BY <1>0, <1>9, ApplyKeeps DEF ModHook, HookTypes
<1>10. CASE UNCHANGED hookVars
  BY <1>0, <1>10, OthersKeep DEF hookVars, HookTypes
<1> QED
  BY <1>1, <1>2, <1>3, <1>4, <1>5, <1>6, <1>7, <1>8, <1>9, <1>10 DEF HookNext

\* The chains, the orig pointers, the originals and the slots are sound in every
\* state, for any libraries, symbols and hooks.
THEOREM HookInvariant == HookSpec => []HookInv
<1>1. HookInit => HookInv
  BY HookStart
<1>2. HookInv /\ [HookNext]_hookVars => HookInv'
  BY HookStep
<1> QED
  BY <1>1, <1>2, PTL DEF HookSpec

-----------------------------------------------------------------------------
(* What the invariant is for. *)

LEMMA OrigsLive == HookInv => OrigNeverDead
<1> SUFFICES ASSUME HookInv, NEW h \in DOMAIN hook, hook[h].slot,
                    NEW g \in Hooks, orig[h] = At(g)
             PROVE  g \in DOMAIN hook
  BY DEF OrigNeverDead
<1>1. hook[h].parent = g /\ g # NoHook
  BY HookNumbers DEF HookInv, OrigBelow
<1> QED
  BY <1>1 DEF HookInv, ChainWellFormed

\* The last hook of a chain is the newest live hook of its symbol.
LEMMA LastIsNewest ==
    ASSUME HookInv, NEW l \in Handles, NEW s \in Syms, <<l, s>> \in DOMAIN arena
    PROVE  LET last == arena[<<l, s>>].last
           IN  /\ last = NoHook <=> Live(l, s) = {}
               /\ last # NoHook =>
                     last = CHOOSE h \in Live(l, s) : \A g \in Live(l, s) : g <= h
<1> DEFINE last == arena[<<l, s>>].last
<1>1. ASSUME NEW g \in Live(l, s)
      PROVE  g <= last /\ g \in Nat /\ g > NoHook /\ last \in Nat
  <2>1. g \in DOMAIN hook /\ hook[g].key = <<l, s>>
    BY DEF Live
  <2>2. g <= last
    BY <2>1 DEF HookInv, OldestFirst
  <2>3. g \in Hooks /\ last \in Hooks \cup {NoHook}
    BY <2>1, ChainTypes DEF HookInv
  <2> QED
    BY <2>2, <2>3, HookNumbers
<1>2. last # NoHook => last \in Live(l, s)
  BY DEF HookInv, ChainWellFormed, Live
<1> HIDE DEF last
<1>3. last = NoHook <=> Live(l, s) = {}
  BY <1>1, <1>2 DEF NoHook
<1>4. ASSUME last # NoHook
      PROVE  last = CHOOSE h \in Live(l, s) : \A g \in Live(l, s) : g <= h
  <2>1. ASSUME NEW h \in Live(l, s), \A g \in Live(l, s) : g <= h PROVE h = last
    <3>1. last <= h
      BY <1>2, <1>4, <2>1
    <3> QED
      BY <1>1, <3>1
  <2>2. last \in Live(l, s) /\ \A g \in Live(l, s) : g <= last
    BY <1>1, <1>2, <1>4
  <2> QED
    BY <2>1, <2>2
<1> QED
  BY <1>3, <1>4 DEF last

LEMMA ApplyLeadsToNewest ==
    ASSUME HookInv, Apply, NEW l \in libs, NEW s \in Relocs[l],
           <<l, s>> \in DOMAIN arena, hookTables[l][s] = <<l, s>>
    PROVE  got'[l][s] = IF Live(l, s) = {} THEN Pristine(l, s)
                        ELSE At(CHOOSE h \in Live(l, s) :
                                   \A g \in Live(l, s) : g <= h)
<1> DEFINE sym == arena[<<l, s>>]
<1>1. l \in Handles /\ s \in Syms
  BY HookAssumption DEF HookInv, HookTypes
<1>2. got'[l][s] = IF Patched(l, s) THEN Replacement(sym) ELSE got[l][s]
  BY <1>1 DEF Apply
<1>3. CASE sym.last # NoHook
  <2>1. Patched(l, s) /\ Replacement(sym) = At(sym.last)
    BY <1>3 DEF Patched, Replacement
  <2> QED
    BY <1>1, <1>2, <1>3, <2>1, LastIsNewest
<1>4. CASE sym.last = NoHook
  <2>1. got'[l][s] = Pristine(l, s)
    <3>1. CASE sym.original # NullAddr
      <4>1. Patched(l, s) /\ Replacement(sym) = sym.original
        BY <1>4, <3>1 DEF Patched, Replacement
      <4>2. sym.original = Pristine(<<l, s>>[1], <<l, s>>[2])
        BY <3>1 DEF HookInv, OriginalPristine
      <4>3. <<l, s>>[1] = l /\ <<l, s>>[2] = s
        OBVIOUS
      <4> QED
        BY <1>2, <4>1, <4>2, <4>3
    <3>2. CASE sym.original = NullAddr
      <4>1. ~Patched(l, s)
        BY <1>4, <3>2 DEF Patched
      <4>2. got[l][s] = Pristine(l, s)
        BY <1>1, <3>2 DEF HookInv, SlotsKept
      <4> QED
        BY <1>2, <4>1, <4>2
    <3> QED
      BY <3>1, <3>2
  <2> QED
    BY <1>1, <1>4, <2>1, LastIsNewest
<1> QED
  BY <1>3, <1>4

\* Whatever is created, deleted, applied, removed and added again, every chain
\* is sound, no hook calls a deleted one, an original is what the linker wrote,
\* and an applied slot leads to the newest live hook or back to the original.
THEOREM HooksStaySound == HookSpec => HooksSound
<1>1. HookSpec => []HookInv
  BY HookInvariant
<1>2. HookInv => ChainWellFormed /\ OrigNeverDead /\ OriginalPristine
  BY OrigsLive DEF HookInv
<1> DEFINE Leads ==
        Apply => \A l \in libs : \A s \in Relocs[l] :
            (<<l, s>> \in DOMAIN arena /\ hookTables[l][s] = <<l, s>>) =>
                got'[l][s] = IF Live(l, s) = {} THEN Pristine(l, s)
                             ELSE At(CHOOSE h \in Live(l, s) :
                                        \A g \in Live(l, s) : g <= h)
<1>3. HookInv => Leads
  BY ApplyLeadsToNewest
<1>4. HookSpec => []ChainWellFormed /\ []OrigNeverDead /\ []OriginalPristine
  BY <1>1, <1>2, PTL
<1>5. HookSpec => [][Leads]_hookVars
  <2> HIDE DEF Leads
  <2> QED
    BY <1>1, <1>3, PTL
<1>6. HookSpec => AppliedSlots
  BY <1>5, PTL DEF AppliedSlots
<1> QED
  BY <1>4, <1>6, PTL DEF HooksSound

-----------------------------------------------------------------------------
(* Segments: a library in memory.                                            *)

Contents == [Addresses -> Int]
PagesOf(h) == PageStart(h.vaddr) .. PageEnd(h.vaddr + h.memsz) - 1
Whole(h) == h.offset + h.filesz <= program.size
\* A header of the layouts the linkers make.
LaidOut(h) ==
    /\ h \in LoadHeader /\ h.offset % PageSize = h.vaddr % PageSize
    /\ h.vaddr + h.memsz <= MaxAddr + 1
    /\ h.filesz = h.memsz \/ (h.filesz < h.memsz /\ h.writable)
\* new is old but for pages of h, and holds what h asks for.
WritesOnly(h, old, new) ==
    new \in Contents /\ \A x \in Addresses : x \notin PagesOf(h) => new[x] = old[x]
HoldsImage(h, mem) ==
    \A x \in h.vaddr .. h.vaddr + h.memsz - 1 :
       mem[x] = IF x < h.vaddr + h.filesz THEN h.offset + x - h.vaddr ELSE Zero

ByLoadElf == reader.kind = "load_elf"
ReadInto == reader.kind = "ElfReader" /\ ~reader.smallPages
InPhase == {"new", "start", "read", "segments", "loaded", "failed", "dropped"}

SegmentTypes ==
    /\ memory \in Contents /\ phase \in InPhase
    /\ phase # "new" =>
         /\ program \in [headers : Layouts, size : FileSizes, sound : Soundness, phoff : {1}]
         /\ \/ reader \in [kind : {"load_elf"}, fd : BOOLEAN]
            \/ reader \in [kind : {"ElfReader"}, mappedByCaller : BOOLEAN, smallPages : BOOLEAN, sdk : {25, 26}]
    /\ phase \in {"segments", "loaded"} => segment \in 1 .. Len(Loads) + 1
    /\ phase \in {"new", "start", "read"} => segment = 1 /\ memory = [x \in Addresses |-> NoAccess]
    /\ phase = "loaded" => segment = Len(Loads) + 1

\* What was mapped up to now, and the pages that are to be read into.
MappedSoFar ==
    phase \in {"segments", "loaded"} =>
       /\ (ByLoadElf => ~refused /\ \A h \in Range(Loads) : Whole(h)) =>
             \A i \in 1 .. segment - 1 : HoldsImage(Loads[i], memory)
       /\ ReadInto => \A i \in segment .. Len(Loads) :
             \A x \in PagesOf(Loads[i]) \cap Addresses : memory[x] = Zero

SegmentsInv == SegmentTypes /\ MappedSoFar /\ PagesOnly

\* Page arithmetic.
LEMMA Pages ==
    ASSUME NEW a \in Nat
    PROVE  /\ PageStart(a) \in Nat /\ PageEnd(a) \in Nat
           /\ PageStart(a) <= a /\ a < PageStart(a) + PageSize
           /\ a <= PageEnd(a) /\ PageEnd(a) < a + PageSize
           /\ PageStart(a) = PageSize * (a \div PageSize)
           /\ PageEnd(a) = PageSize * ((a + PageSize - 1) \div PageSize)
           /\ a - PageStart(a) = a % PageSize
<1>1. PageSize \in Nat \ {0}
  BY PageAssumption
<1>2. \A b \in Nat : /\ b \div PageSize \in Nat /\ b % PageSize \in 0 .. PageSize - 1
                     /\ b = PageSize * (b \div PageSize) + (b % PageSize)
  BY <1>1
<1>3. \A b \in Nat : (b \div PageSize) * PageSize = PageSize * (b \div PageSize)
                     /\ PageSize * (b \div PageSize) \in Nat
  BY <1>1, <1>2
<1>4. PICK b \in Nat : b = a + PageSize - 1
  BY <1>1
<1>5. PICK c \in Nat, d \in Nat : c = PageSize * (a \div PageSize) /\ d = PageSize * (b \div PageSize)
  BY <1>3
<1>6. a - c = a % PageSize /\ b - d = b % PageSize
  BY <1>2, <1>5
<1>7. PageStart(a) = c /\ PageEnd(a) = d
  BY <1>3, <1>4, <1>5 DEF PageStart, PageEnd
<1> QED
  BY <1>1, <1>2, <1>4, <1>5, <1>6, <1>7

LEMMA WholePages ==
    ASSUME NEW j \in Int, NEW k \in Int, PageSize * j < PageSize * k + PageSize
    PROVE  PageSize * j <= PageSize * k
<1>1. PageSize \in Nat \ {0}
  BY PageAssumption
<1>2. CASE j <= k
  BY <1>1, <1>2
<1>3. CASE j > k
  <2>1. PICK e \in Nat : j = k + 1 + e
    BY <1>3
  <2>2. PageSize * j = PageSize * k + PageSize + PageSize * e
    BY <1>1, <2>1
  <2>3. PageSize * e \in Nat
    BY <1>1
  <2> QED
    BY <1>1, <2>2, <2>3
<1> QED
  BY <1>2, <1>3

\* A page boundary less than a page past b is at most b's page end.
LEMMA PageEndLeast ==
    ASSUME NEW a \in Nat, NEW b \in Nat, NEW k \in Nat, NEW c \in Nat,
           c = PageStart(a) + PageEnd(k), c < b + PageSize
    PROVE  c <= PageEnd(b)
<1>1. PICK p \in Nat, q \in Nat, r \in Nat :
        p = a \div PageSize /\ q = (k + PageSize - 1) \div PageSize /\ r = (b + PageSize - 1) \div PageSize
  BY PageAssumption
<1>2. PageStart(a) = PageSize * p /\ PageEnd(k) = PageSize * q /\ PageEnd(b) = PageSize * r
  BY <1>1, Pages
<1>3. PageSize * (p + q) = PageSize * p + PageSize * q
  BY PageAssumption
<1>4. c = PageSize * (p + q) /\ b <= PageSize * r
  BY <1>2, <1>3, Pages
<1>5. PageSize * (p + q) < PageSize * r + PageSize
  BY <1>4, PageAssumption
<1> QED
  BY <1>2, <1>4, <1>5, WholePages

LEMMA PagesOrdered ==
    ASSUME NEW a \in Nat, NEW b \in Nat, a <= b
    PROVE  PageStart(a) <= PageStart(b) /\ PageEnd(a) <= PageEnd(b)
<1>1. PICK p \in Nat, q \in Nat, r \in Nat, s \in Nat :
        /\ p = a \div PageSize /\ q = b \div PageSize
        /\ r = (a + PageSize - 1) \div PageSize /\ s = (b + PageSize - 1) \div PageSize
  <2>1. \A c \in Nat : c \div PageSize \in Nat
    BY PageAssumption
  <2>2. a + PageSize - 1 \in Nat /\ b + PageSize - 1 \in Nat
    BY PageAssumption
  <2> QED
    BY <2>1, <2>2
<1>2. /\ PageStart(a) = PageSize * p /\ PageStart(b) = PageSize * q
      /\ PageEnd(a) = PageSize * r /\ PageEnd(b) = PageSize * s
  BY <1>1, Pages
<1>3. /\ PageSize * p < PageSize * q + PageSize /\ PageSize * r < PageSize * s + PageSize
  <2>1. PICK c \in Nat, d \in Nat, e \in Nat, f \in Nat :
           c = PageSize * p /\ d = PageSize * q /\ e = PageSize * r /\ f = PageSize * s
    BY PageAssumption
  <2>2. c <= a /\ b < d + PageSize /\ e < a + PageSize /\ b <= f
    BY <1>2, <2>1, Pages
  <2> QED
    BY <2>1, <2>2, PageAssumption
<1> QED
  BY <1>2, <1>3, WholePages

\* The pages of a header, and those of its part of the file.
LEMMA HeaderPages ==
    ASSUME NEW h, LaidOut(h),
           NEW first, first = PageStart(h.vaddr), NEW length, length = h.offset + h.filesz - PageStart(h.offset)
    PROVE  /\ first \in Nat /\ length \in Nat /\ first <= h.vaddr
           /\ PageStart(h.offset) \in Nat /\ h.offset - PageStart(h.offset) = h.vaddr - first
           /\ first + length = h.vaddr + h.filesz
           /\ first + PageEnd(length) <= PageEnd(h.vaddr + h.memsz)
           /\ first + length <= first + PageEnd(length)
           /\ PageEnd(h.vaddr + h.filesz) \in Nat /\ PageEnd(h.vaddr + h.memsz) \in Nat
           /\ h.vaddr + h.filesz <= PageEnd(h.vaddr + h.filesz)
           /\ PageEnd(h.vaddr + h.filesz) <= PageEnd(h.vaddr + h.memsz)
           /\ h.vaddr + h.memsz <= PageEnd(h.vaddr + h.memsz)
           /\ PageEnd(length) \in Nat /\ first + PageEnd(length) <= PageEnd(h.vaddr + h.filesz)
<1>1. PICK v \in Nat, o \in Nat, fs \in Nat, ms \in Nat : v = h.vaddr /\ o = h.offset /\ fs = h.filesz /\ ms = h.memsz
  BY DEF LaidOut, LoadHeader
<1>2. fs <= ms /\ o % PageSize = v % PageSize
  BY <1>1 DEF LaidOut
<1>3. PICK n \in Nat : n = v + fs
  OBVIOUS
<1>4. PICK m \in Nat : m = v + ms
  OBVIOUS
<1>5. PICK s \in Nat : s = PageStart(o)
  BY Pages
<1>6. o - s = o % PageSize /\ v - first = v % PageSize /\ first \in Nat /\ first <= v /\ s <= o
  BY <1>1, <1>5, Pages
<1>7. length \in Nat /\ first + length = n
  BY <1>1, <1>2, <1>3, <1>5, <1>6
<1>8. PageEnd(length) \in Nat /\ length <= PageEnd(length) /\ PageEnd(length) < length + PageSize
  BY <1>7, Pages
<1>9. PageEnd(n) \in Nat /\ n <= PageEnd(n) /\ PageEnd(m) \in Nat /\ m <= PageEnd(m)
  BY Pages
<1>10. PageEnd(n) <= PageEnd(m)
  <2>1. n <= m
    BY <1>2, <1>3, <1>4
  <2> QED
    BY <2>1, PagesOrdered
<1>11. first + PageEnd(length) <= PageEnd(n)
  <2>1. PICK c \in Nat : c = PageStart(v) + PageEnd(length)
    BY <1>1, <1>6, <1>8
  <2>2. c < n + PageSize
    BY <1>1, <1>6, <1>7, <1>8, <2>1, PageAssumption
  <2>3. c <= PageEnd(n)
    BY <1>7, <2>1, <2>2, PageEndLeast
  <2> QED
    BY <1>1, <2>1, <2>3
<1> QED
  BY <1>1, <1>2, <1>3, <1>4, <1>5, <1>6, <1>7, <1>8, <1>9, <1>10, <1>11

-----------------------------------------------------------------------------
\* What the loaders make of one segment.
LEMMA HeaderNumbers ==
    ASSUME NEW h, LaidOut(h)
    PROVE  /\ h.offset \in Nat /\ h.vaddr \in Nat /\ h.filesz \in Nat /\ h.memsz \in Nat
           /\ h.writable \in BOOLEAN /\ h.filesz <= h.memsz
           /\ h.vaddr + h.memsz <= MaxAddr + 1 /\ (h.filesz = h.memsz \/ h.writable)
BY DEF LaidOut, LoadHeader

LEMMA MapWrites ==
    ASSUME NEW h, LaidOut(h), NEW mem \in Contents, program.size \in Nat,
           NEW new, new = ZeroPages(ZeroTail(FilePages(mem, h), h), h)
    PROVE  WritesOnly(h, mem, new) /\ (Whole(h) => HoldsImage(h, new))
<1>1. PICK v \in Nat, o \in Nat, fs \in Nat, ms \in Nat : v = h.vaddr /\ o = h.offset /\ fs = h.filesz /\ ms = h.memsz
  BY HeaderNumbers
<1>2. PICK first : first = PageStart(h.vaddr)
  OBVIOUS
<1>3. PICK length : length = h.offset + h.filesz - PageStart(h.offset)
  OBVIOUS
<1>4. PICK from, last, end, stop : /\ from = PageStart(o) /\ last = first + PageEnd(length)
                              /\ end = PageEnd(v + fs) /\ stop = PageEnd(v + ms)
  OBVIOUS
<1>5. /\ first \in Nat /\ length \in Nat /\ from \in Nat /\ end \in Nat /\ stop \in Nat /\ last \in Nat
      /\ first <= v /\ o - from = v - first /\ last <= end /\ v + fs <= end /\ end <= stop /\ v + ms <= stop
      /\ v + fs <= last
  BY <1>1, <1>2, <1>3, <1>4, HeaderPages
<1>6. \A x \in Addresses : FilePages(mem, h)[x] =
        IF first <= x /\ x < last THEN FileByte(from + x - first) ELSE mem[x]
  <2>1. FilePages(mem, h) = [x \in Addresses |-> IF x \in first .. first + PageEnd(length) - 1
                                                THEN FileByte(PageStart(h.offset) + x - first) ELSE mem[x]]
    BY <1>2, <1>3, Zenon DEF FilePages
  <2>2. PICK start, p : start = PageStart(h.offset) /\ p = PageEnd(length)
    OBVIOUS
  <2>3. FilePages(mem, h) = [x \in Addresses |-> IF x \in first .. first + p - 1
                                                THEN FileByte(start + x - first) ELSE mem[x]]
    BY <2>1, <2>2
  <2>4. start = from /\ first + p = last
    BY <1>1, <1>4, <2>2
  <2>5. p \in Int /\ start \in Int
    BY <1>2, <1>3, <2>2, HeaderPages
  <2>6. \A x \in Addresses : x \in Int /\ (x \in first .. first + p - 1 <=> first <= x /\ x < last)
    BY <1>5, <2>4, <2>5 DEF Addresses
  <2> QED
    BY <2>3, <2>4, <2>6
<1>7. \A x \in Addresses : ZeroTail(FilePages(mem, h), h)[x] =
        IF h.writable /\ v + fs <= x /\ x < end THEN Zero ELSE FilePages(mem, h)[x]
  <2>1. ZeroTail(FilePages(mem, h), h) = [x \in Addresses |-> IF h.writable /\ x \in v + fs .. end - 1 THEN Zero ELSE FilePages(mem, h)[x]]
    BY <1>1, <1>4 DEF ZeroTail
  <2>2. \A x \in Addresses : x \in Int /\ (x \in v + fs .. end - 1 <=> v + fs <= x /\ x < end)
    BY <1>5 DEF Addresses
  <2> QED
    BY <2>1, <2>2
<1>8. \A x \in Addresses : new[x] =
        IF end <= x /\ x < stop THEN Zero ELSE ZeroTail(FilePages(mem, h), h)[x]
  <2>1. new = [x \in Addresses |-> IF x \in end .. stop - 1 THEN Zero ELSE ZeroTail(FilePages(mem, h), h)[x]]
    BY <1>1, <1>4 DEF ZeroPages
  <2>2. \A x \in Addresses : x \in Int /\ (x \in end .. stop - 1 <=> end <= x /\ x < stop)
    BY <1>5 DEF Addresses
  <2> QED
    BY <2>1, <2>2
<1>9. PICK g : g = FilePages(mem, h)
  OBVIOUS
<1>10. \A x \in Addresses : new[x] =
        IF (end <= x /\ x < stop) \/ (h.writable /\ v + fs <= x /\ x < end) THEN Zero
        ELSE IF first <= x /\ x < last THEN FileByte(from + x - first) ELSE mem[x]
  BY <1>6, <1>7, <1>8
<1>11. \A k \in Int : FileByte(k) \in Int
  BY DEF FileByte, Zero
<1>12. new \in Contents
  <2>1. \A x \in Addresses : new[x] \in Int
    <3> TAKE x \in Addresses
    <3>1. x \in Int /\ mem[x] \in Int
      BY DEF Addresses, Contents
    <3>2. from + x - first \in Int
      BY <1>5, <3>1
    <3> QED
      BY <1>10, <1>11, <3>1, <3>2 DEF Zero
  <2>2. new = [x \in Addresses |-> new[x]]
    BY DEF ZeroPages
  <2> QED
    BY <2>1, <2>2 DEF Contents
<1>13. ASSUME NEW x \in Addresses, x \notin PagesOf(h) PROVE new[x] = mem[x]
  <2>1. x \in Int /\ (x < first \/ stop <= x)
    BY <1>1, <1>2, <1>4, <1>5, <1>13 DEF PagesOf, Addresses
  <2> QED
    BY <1>5, <1>10, <2>1
<1>14. ASSUME Whole(h), NEW x \in v .. v + ms - 1
       PROVE  new[x] = IF x < v + fs THEN o + x - v ELSE Zero
  <2>1. x \in Addresses /\ x \in Nat
    BY <1>1, HeaderNumbers, PageAssumption DEF Addresses
  <2>2. CASE x < v + fs
    <3>1. new[x] = FileByte(from + x - first)
      BY <1>5, <1>10, <2>1, <2>2, <1>14
    <3>2. o + fs <= program.size
      BY <1>1, <1>14 DEF Whole
    <3>3. from + x - first = o + x - v /\ o + x - v < program.size
      BY <1>5, <2>1, <2>2, <3>2
    <3> QED
      BY <2>2, <3>1, <3>3 DEF FileByte
  <2>3. CASE ~(x < v + fs)
    <3>1. h.writable
      BY <1>1, <1>14, <2>3, HeaderNumbers
    <3> QED
      BY <1>5, <1>10, <1>14, <2>1, <2>3, <3>1
  <2> QED
    BY <2>2, <2>3
<1> QED
  BY <1>1, <1>12, <1>13, <1>14 DEF WritesOnly, HoldsImage

\* A segment with no part of its pages in the file is not mapped.
LEMMA ZeroWrites ==
    ASSUME NEW h, LaidOut(h), NEW mem \in Contents, h.offset + h.filesz - PageStart(h.offset) = 0,
           NEW new, new = ZeroPages(ZeroTail(mem, h), h)
    PROVE  WritesOnly(h, mem, new) /\ HoldsImage(h, new)
<1>1. PICK v \in Nat, o \in Nat, fs \in Nat, ms \in Nat : v = h.vaddr /\ o = h.offset /\ fs = h.filesz /\ ms = h.memsz
  BY HeaderNumbers
<1>2. PICK first : first = PageStart(h.vaddr)
  OBVIOUS
<1>3. PICK length : length = h.offset + h.filesz - PageStart(h.offset)
  OBVIOUS
<1>4. PICK from, end, stop : from = PageStart(o) /\ end = PageEnd(v + fs) /\ stop = PageEnd(v + ms)
  OBVIOUS
<1>5. /\ first \in Nat /\ length = 0 /\ from \in Nat /\ end \in Nat /\ stop \in Nat
      /\ first <= v /\ o - from = v - first /\ v + fs <= end /\ end <= stop /\ v + ms <= stop
      /\ first + length = v + fs /\ from <= o
  <2>1. /\ first \in Nat /\ length = 0 /\ end \in Nat /\ stop \in Nat
        /\ first <= v /\ o - from = v - first /\ v + fs <= end /\ end <= stop /\ v + ms <= stop
        /\ first + length = v + fs
    BY <1>1, <1>2, <1>3, <1>4, HeaderPages
  <2>2. from \in Nat /\ from <= o
    BY <1>4, Pages
  <2> QED
    BY <2>1, <2>2
<1>6. v = first /\ fs = 0
  BY <1>5
<1>7. end = v
  <2>1. end < v + PageSize /\ end = PageSize * ((v + PageSize - 1) \div PageSize) /\ v = PageSize * (v \div PageSize)
    BY <1>1, <1>2, <1>4, <1>6, Pages
  <2>2. v \div PageSize \in Int /\ (v + PageSize - 1) \div PageSize \in Int
    BY PageAssumption
  <2>3. end <= v
    BY <2>1, <2>2, WholePages
  <2> QED
    BY <1>5, <1>6, <2>3
<1>8. \A x \in Addresses : ZeroTail(mem, h)[x] = IF h.writable /\ v + fs <= x /\ x < end THEN Zero ELSE mem[x]
  <2>1. ZeroTail(mem, h) = [x \in Addresses |-> IF h.writable /\ x \in v + fs .. end - 1 THEN Zero ELSE mem[x]]
    BY <1>1, <1>4 DEF ZeroTail
  <2>2. \A x \in Addresses : x \in Int /\ (x \in v + fs .. end - 1 <=> v + fs <= x /\ x < end)
    BY <1>5 DEF Addresses
  <2> QED
    BY <2>1, <2>2
<1>9. \A x \in Addresses : new[x] = IF end <= x /\ x < stop THEN Zero ELSE ZeroTail(mem, h)[x]
  <2>1. new = [x \in Addresses |-> IF x \in end .. stop - 1 THEN Zero ELSE ZeroTail(mem, h)[x]]
    BY <1>1, <1>4 DEF ZeroPages
  <2>2. \A x \in Addresses : x \in Int /\ (x \in end .. stop - 1 <=> end <= x /\ x < stop)
    BY <1>5 DEF Addresses
  <2> QED
    BY <2>1, <2>2
<1>10. \A x \in Addresses : new[x] = IF v <= x /\ x < stop THEN Zero ELSE mem[x]
  <2> TAKE x \in Addresses
  <2>1. x \in Int
    BY DEF Addresses
  <2> QED
    BY <1>5, <1>6, <1>7, <1>8, <1>9, <2>1
<1>11. new \in Contents
  <2>1. \A x \in Addresses : new[x] \in Int
    BY <1>10 DEF Contents, Zero
  <2>2. new = [x \in Addresses |-> new[x]]
    BY DEF ZeroPages
  <2> QED
    BY <2>1, <2>2 DEF Contents
<1>12. ASSUME NEW x \in Addresses, x \notin PagesOf(h) PROVE new[x] = mem[x]
  <2>1. x \in Int /\ (x < first \/ stop <= x)
    BY <1>1, <1>2, <1>4, <1>5, <1>12 DEF PagesOf, Addresses
  <2> QED
    BY <1>5, <1>6, <1>10, <2>1
<1>13. ASSUME NEW x \in v .. v + ms - 1 PROVE new[x] = IF x < v + fs THEN o + x - v ELSE Zero
  <2>1. x \in Addresses /\ x \in Nat
    BY <1>1, HeaderNumbers, PageAssumption DEF Addresses
  <2> QED
    BY <1>5, <1>6, <1>10, <1>13, <2>1
<1> QED
  BY <1>1, <1>11, <1>12, <1>13 DEF WritesOnly, HoldsImage

LEMMA CopyWrites ==
    ASSUME NEW h, LaidOut(h), NEW mem \in Contents, program.size \in Nat,
           NEW fresh, fresh = [x \in Addresses |-> IF x \in PagesOf(h) THEN Zero ELSE mem[x]],
           NEW new, new = IF Whole(h)
                          THEN [x \in Addresses |-> IF x \in h.vaddr .. h.vaddr + h.filesz - 1
                                                    THEN h.offset + x - h.vaddr ELSE fresh[x]]
                          ELSE fresh
    PROVE  WritesOnly(h, mem, new) /\ (Whole(h) => HoldsImage(h, new))
<1>1. PICK v \in Nat, o \in Nat, fs \in Nat, ms \in Nat : v = h.vaddr /\ o = h.offset /\ fs = h.filesz /\ ms = h.memsz
  BY HeaderNumbers
<1>2. PICK first, stop : first = PageStart(v) /\ stop = PageEnd(v + ms)
  OBVIOUS
<1>3. first \in Nat /\ stop \in Nat /\ first <= v /\ v + ms <= stop /\ fs <= ms /\ v + ms <= MaxAddr + 1
  BY <1>1, <1>2, HeaderPages, HeaderNumbers
<1>4. PagesOf(h) = first .. stop - 1
  BY <1>1, <1>2 DEF PagesOf
<1>5. fresh \in Contents /\ \A x \in Addresses : fresh[x] = IF x \in PagesOf(h) THEN Zero ELSE mem[x]
  BY DEF Contents, Zero
<1>6. CASE ~Whole(h)
  BY <1>5, <1>6 DEF WritesOnly
<1>7. CASE Whole(h)
  <2>1. new = [x \in Addresses |-> IF x \in v .. v + fs - 1 THEN o + x - v ELSE fresh[x]]
    BY <1>1, <1>7
  <2>2. new \in Contents
    <3>1. \A x \in Addresses : (IF x \in v .. v + fs - 1 THEN o + x - v ELSE fresh[x]) \in Int
      BY <1>5 DEF Addresses, Contents
    <3> QED
      BY <2>1, <3>1 DEF Contents
  <2>3. \A x \in Addresses : x \notin PagesOf(h) => new[x] = mem[x]
    <3> SUFFICES ASSUME NEW x \in Addresses, x \notin PagesOf(h) PROVE new[x] = mem[x]
      OBVIOUS
    <3>1. x \in Int /\ ~(x \in v .. v + fs - 1)
      BY <1>3, <1>4 DEF Addresses
    <3> QED
      BY <1>5, <2>1, <3>1
  <2>4. \A x \in v .. v + ms - 1 : new[x] = IF x < v + fs THEN o + x - v ELSE Zero
    <3> TAKE x \in v .. v + ms - 1
    <3>1. x \in Addresses /\ x \in PagesOf(h) /\ x \in Int
      BY <1>3, <1>4, PageAssumption DEF Addresses
    <3> QED
      BY <1>5, <2>1, <3>1
  <2> QED
    BY <1>1, <2>2, <2>3, <2>4 DEF WritesOnly, HoldsImage
<1> QED
  BY <1>6, <1>7

\* Bytes read into pages that are zero.
LEMMA ReadWrites ==
    ASSUME NEW h, LaidOut(h), NEW mem \in Contents, program.size \in Nat, Whole(h),
           \A x \in PagesOf(h) \cap Addresses : mem[x] = Zero,
           NEW first, first = PageStart(h.vaddr), NEW length, length = h.offset + h.filesz - PageStart(h.offset),
           NEW new, new = [x \in Addresses |-> IF x \in first .. first + length - 1
                                               THEN FilePages(mem, h)[x] ELSE mem[x]]
    PROVE  WritesOnly(h, mem, new) /\ HoldsImage(h, new)
<1>1. PICK v \in Nat, o \in Nat, fs \in Nat, ms \in Nat : v = h.vaddr /\ o = h.offset /\ fs = h.filesz /\ ms = h.memsz
  BY HeaderNumbers
<1>4. PICK from, last, stop : from = PageStart(o) /\ last = first + PageEnd(length) /\ stop = PageEnd(v + ms)
  OBVIOUS
<1>5. /\ first \in Nat /\ length \in Nat /\ from \in Nat /\ stop \in Nat /\ last \in Nat
      /\ first <= v /\ o - from = v - first /\ v + ms <= stop
      /\ first + length = v + fs /\ first + length <= last /\ fs <= ms /\ v + ms <= MaxAddr + 1
  BY <1>1, <1>4, HeaderPages, HeaderNumbers
<1>6. \A x \in Addresses : FilePages(mem, h)[x] =
        IF first <= x /\ x < last THEN FileByte(from + x - first) ELSE mem[x]
  <2>1. FilePages(mem, h) = [x \in Addresses |-> IF x \in first .. first + PageEnd(length) - 1
                                                THEN FileByte(PageStart(h.offset) + x - first) ELSE mem[x]]
    BY Zenon DEF FilePages
  <2>2. PICK start, p : start = PageStart(h.offset) /\ p = PageEnd(length)
    OBVIOUS
  <2>3. FilePages(mem, h) = [x \in Addresses |-> IF x \in first .. first + p - 1
                                                THEN FileByte(start + x - first) ELSE mem[x]]
    BY <2>1, <2>2
  <2>4. start = from /\ first + p = last
    BY <1>1, <1>4, <2>2
  <2>5. p \in Int /\ start \in Int
    BY <2>2, HeaderPages
  <2>6. \A x \in Addresses : x \in Int /\ (x \in first .. first + p - 1 <=> first <= x /\ x < last)
    <3>1. first \in Int /\ last \in Int
      BY <1>5
    <3> QED
      BY <2>4, <2>5, <3>1 DEF Addresses
  <2> QED
    BY <2>3, <2>4, <2>6
<1>7. \A x \in Addresses : new[x] = IF first <= x /\ x < v + fs THEN FileByte(from + x - first) ELSE mem[x]
  <2> TAKE x \in Addresses
  <2>1. x \in Int /\ (x \in first .. first + length - 1 <=> first <= x /\ x < v + fs)
    BY <1>5 DEF Addresses
  <2> QED
    BY <1>5, <1>6, <2>1
<1>11. \A k \in Int : FileByte(k) \in Int
  BY DEF FileByte, Zero
<1>12. new \in Contents
  <2>1. \A x \in Addresses : new[x] \in Int
    <3> TAKE x \in Addresses
    <3>1. x \in Int /\ mem[x] \in Int
      BY DEF Addresses, Contents
    <3>2. from + x - first \in Int
      BY <1>5, <3>1
    <3> QED
      BY <1>7, <1>11, <3>1, <3>2
  <2>2. new = [x \in Addresses |-> new[x]]
    OBVIOUS
  <2> QED
    BY <2>1, <2>2 DEF Contents
<1>13. PagesOf(h) = first .. stop - 1
  BY <1>1, <1>4 DEF PagesOf
<1>14. ASSUME NEW x \in Addresses, x \notin PagesOf(h) PROVE new[x] = mem[x]
  <2>1. x \in Int /\ (x < first \/ stop <= x)
    BY <1>5, <1>13, <1>14 DEF Addresses
  <2> QED
    BY <1>5, <1>7, <2>1
<1>15. ASSUME NEW x \in v .. v + ms - 1 PROVE new[x] = IF x < v + fs THEN o + x - v ELSE Zero
  <2>1. x \in Addresses /\ x \in Nat /\ x \in PagesOf(h)
    BY <1>5, <1>13, PageAssumption DEF Addresses
  <2>2. CASE x < v + fs
    <3>1. new[x] = FileByte(from + x - first)
      BY <1>5, <1>7, <2>1, <2>2, <1>15
    <3>2. from + x - first = o + x - v /\ o + x - v < program.size
      BY <1>1, <1>5, <2>1, <2>2 DEF Whole
    <3> QED
      BY <2>2, <3>1, <3>2 DEF FileByte
  <2>3. CASE ~(x < v + fs)
    BY <1>5, <1>7, <2>1, <2>3
  <2> QED
    BY <2>2, <2>3
<1> QED
  BY <1>1, <1>12, <1>14, <1>15 DEF WritesOnly, HoldsImage

-----------------------------------------------------------------------------
\* The layout of a library that is being loaded.
LEMMA LayoutIs ==
    ASSUME SegmentTypes, phase # "new"
    PROVE  /\ Loads \in Seq(LoadHeader) /\ program.size \in Nat
           /\ \A i \in 1 .. Len(Loads) : LaidOut(Loads[i])
           /\ \A i, j \in 1 .. Len(Loads) : i < j =>
                 PageEnd(Loads[i].vaddr + Loads[i].memsz) <= PageStart(Loads[j].vaddr)
           /\ Range(Loads) = {Loads[i] : i \in 1 .. Len(Loads)}
<1>1. PICK l \in Layouts : l = program.headers
  BY DEF SegmentTypes
<1>2. Loads = LoadsOf(l)
  BY <1>1 DEF Loads
<1>3. LoadsOf(l) \in Seq(LoadHeader) /\ program.size \in Nat
  BY LayoutAssumption DEF SegmentTypes
<1>4. PICK s \in Seq(LoadHeader) : s = LoadsOf(l)
  BY <1>3
<1>5. \A i \in 1 .. Len(s) : s[i] \in LoadHeader
  BY <1>4
<1>6. \A i \in 1 .. Len(s) : LaidOut(s[i])
  BY <1>4, <1>5, LayoutAssumption DEF LaidOut
<1>7. \A i, j \in 1 .. Len(s) : i < j => PageEnd(s[i].vaddr + s[i].memsz) <= PageStart(s[j].vaddr)
  BY <1>4, LayoutAssumption
<1>8. Range(s) = {s[i] : i \in 1 .. Len(s)}
  BY <1>4 DEF Range
<1> QED
  BY <1>2, <1>3, <1>4, <1>6, <1>7, <1>8

\* Two segments have no page in common.
LEMMA PagesApart ==
    ASSUME SegmentTypes, phase # "new", NEW i \in 1 .. Len(Loads), NEW j \in 1 .. Len(Loads), i # j
    PROVE  PagesOf(Loads[i]) \cap PagesOf(Loads[j]) = {}
<1>1. PICK n \in Nat : n = Len(Loads)
  BY LayoutIs
<1>2. PICK g, h : g = Loads[i] /\ h = Loads[j]
  OBVIOUS
<1>3. LaidOut(g) /\ LaidOut(h)
  BY <1>2, LayoutIs
<1>4. PICK a \in Nat, b \in Nat, c \in Nat, d \in Nat :
         a = PageStart(g.vaddr) /\ b = PageEnd(g.vaddr + g.memsz) /\ c = PageStart(h.vaddr) /\ d = PageEnd(h.vaddr + h.memsz)
  BY <1>3, HeaderPages
<1>5. PagesOf(g) = a .. b - 1 /\ PagesOf(h) = c .. d - 1
  BY <1>4 DEF PagesOf
<1>6. b <= c \/ d <= a
  <2>1. i < j \/ j < i
    BY <1>1
  <2> QED
    BY <1>2, <1>4, <2>1, LayoutIs
<1> QED
  BY <1>2, <1>4, <1>5, <1>6

\* The addresses a header asks for are in its pages.
LEMMA ImageInPages ==
    ASSUME NEW h, LaidOut(h), NEW x \in h.vaddr .. h.vaddr + h.memsz - 1
    PROVE  x \in PagesOf(h) /\ x \in Addresses
<1>1. PICK v \in Nat, ms \in Nat : v = h.vaddr /\ ms = h.memsz /\ v + ms <= MaxAddr + 1
  BY HeaderNumbers
<1>2. PICK a \in Nat, b \in Nat : a = PageStart(v) /\ b = PageEnd(v + ms)
  BY <1>1, HeaderPages
<1>3. a <= v /\ v + ms <= b /\ PagesOf(h) = a .. b - 1
  BY <1>1, <1>2, HeaderPages DEF PagesOf
<1> QED
  <2>1. x \in v .. v + ms - 1
    BY <1>1
  <2>2. x \in Int /\ v <= x /\ x < v + ms
    BY <1>1, <2>1
  <2>3. x \in a .. b - 1
    BY <1>1, <1>2, <1>3, <2>2
  <2>4. x \in 0 .. MaxAddr
    BY <1>1, <2>2, PageAssumption
  <2> QED
    BY <1>3, <2>3, <2>4 DEF Addresses

\* A segment written leaves what the others hold.
LEMMA OthersHold ==
    ASSUME SegmentTypes, phase # "new", NEW i \in 1 .. Len(Loads), NEW j \in 1 .. Len(Loads), i # j,
           NEW new, WritesOnly(Loads[j], memory, new), HoldsImage(Loads[i], memory)
    PROVE  HoldsImage(Loads[i], new)
<1>1. PICK g : g = Loads[i]
  OBVIOUS
<1>2. LaidOut(g) /\ PagesOf(g) \cap PagesOf(Loads[j]) = {}
  BY <1>1, LayoutIs, PagesApart
<1>3. ASSUME NEW x \in g.vaddr .. g.vaddr + g.memsz - 1
      PROVE  new[x] = memory[x]
  BY <1>2, <1>3, ImageInPages DEF WritesOnly
<1> QED
  BY <1>1, <1>3 DEF HoldsImage

-----------------------------------------------------------------------------
\* The steps of the loaders.
Vouched == ByLoadElf => ~refused /\ \A h \in Range(Loads) : Whole(h)

LEMMA WriteKeeps ==
    ASSUME SegmentsInv, phase = "segments", segment \in 1 .. Len(Loads),
           WritesOnly(Loads[segment], memory, memory'),
           Vouched => HoldsImage(Loads[segment], memory'),
           segment' = segment + 1, program' = program, reader' = reader, phase' = phase, refused' = refused
    PROVE  SegmentsInv'
<1>1. SegmentTypes /\ MappedSoFar /\ PagesOnly
  BY DEF SegmentsInv
<1>2. Loads' = Loads /\ Vouched' = Vouched
  BY DEF Loads, Vouched, ByLoadElf, Whole
<1>3. PICK n \in Nat : n = Len(Loads)
  BY <1>1, LayoutIs
<1>4. segment \in 1 .. n /\ segment' \in 1 .. n + 1
  BY <1>3
<1>5. SegmentTypes'
  <2>1. memory' \in Contents
    BY DEF WritesOnly
  <2> QED
    BY <1>1, <1>2, <1>3, <1>4, <2>1 DEF SegmentTypes
<1>6. MappedSoFar'
  <2>1. ASSUME Vouched, NEW i \in 1 .. segment PROVE HoldsImage(Loads[i], memory')
    <3>1. CASE i = segment
      BY <2>1, <3>1
    <3>2. CASE i # segment
      <4>1. i \in 1 .. segment - 1 /\ i \in 1 .. Len(Loads)
        BY <1>3, <1>4, <2>1, <3>2
      <4>2. HoldsImage(Loads[i], memory)
        BY <1>1, <2>1, <4>1 DEF MappedSoFar, Vouched
      <4> QED
        BY <1>1, <3>2, <4>1, <4>2, OthersHold
    <3> QED
      BY <3>1, <3>2
  <2>2. ASSUME ReadInto, NEW i \in segment + 1 .. n, NEW x \in PagesOf(Loads[i]) \cap Addresses
        PROVE  memory'[x] = Zero
    <3>1. i \in 1 .. Len(Loads) /\ i # segment /\ i \in segment .. Len(Loads)
      BY <1>3, <1>4, <2>2
    <3>2. memory[x] = Zero
      BY <1>1, <2>2, <3>1 DEF MappedSoFar
    <3>3. x \notin PagesOf(Loads[segment])
      BY <1>1, <2>2, <3>1, PagesApart
    <3> QED
      BY <2>2, <3>2, <3>3 DEF WritesOnly
  <2>3. ReadInto' = ReadInto /\ ByLoadElf' = ByLoadElf
    BY DEF ReadInto, ByLoadElf
  <2>4. segment' - 1 = segment
    BY <1>4
  <2> QED
    BY <1>2, <1>3, <2>1, <2>2, <2>3, <2>4 DEF MappedSoFar, Vouched, Whole, PagesOf, HoldsImage
<1>7. PagesOnly'
  <2>1. Loads[segment] \in Range(Loads)
    BY <1>1, LayoutIs
  <2> QED
    BY <1>1, <1>2, <2>1 DEF PagesOnly, WritesOnly, PagesOf
<1> QED
  BY <1>5, <1>6, <1>7 DEF SegmentsInv

LEMMA MapKeeps == SegmentsInv /\ phase = "segments" /\ segment <= Len(Loads) /\ MapFromFile => SegmentsInv'
<1> SUFFICES ASSUME SegmentsInv, phase = "segments", segment <= Len(Loads), MapFromFile PROVE SegmentsInv'
  OBVIOUS
<1>1. SegmentTypes
  BY DEF SegmentsInv
<1>2. segment \in 1 .. Len(Loads)
  BY <1>1, LayoutIs DEF SegmentTypes
<1>3. PICK h : h = Loads[segment]
  OBVIOUS
<1>4. LaidOut(h) /\ memory \in Contents /\ program.size \in Nat /\ h \in Range(Loads)
  BY <1>1, <1>2, <1>3, LayoutIs DEF SegmentTypes
<1>5. memory' = ZeroPages(ZeroTail(FilePages(memory, h), h), h)
  BY <1>3 DEF MapFromFile
<1>6. WritesOnly(h, memory, memory') /\ (Whole(h) => HoldsImage(h, memory'))
  BY <1>4, <1>5, MapWrites
<1>7. reader.kind = "load_elf"
  BY DEF MapFromFile
<1> QED
  BY <1>2, <1>3, <1>4, <1>6, <1>7, WriteKeeps DEF MapFromFile, Vouched, ByLoadElf

LEMMA CopyKeeps == SegmentsInv /\ phase = "segments" /\ segment <= Len(Loads) /\ CopyIn => SegmentsInv'
<1> SUFFICES ASSUME SegmentsInv, phase = "segments", segment <= Len(Loads), CopyIn PROVE SegmentsInv'
  OBVIOUS
<1>1. SegmentTypes
  BY DEF SegmentsInv
<1>2. segment \in 1 .. Len(Loads)
  BY <1>1, LayoutIs DEF SegmentTypes
<1>3. PICK h : h = Loads[segment]
  OBVIOUS
<1>4. LaidOut(h) /\ memory \in Contents /\ program.size \in Nat /\ h \in Range(Loads)
  BY <1>1, <1>2, <1>3, LayoutIs DEF SegmentTypes
<1>5. PICK fresh : fresh = [x \in Addresses |-> IF x \in PagesOf(h) THEN Zero ELSE memory[x]]
  OBVIOUS
<1>6. memory' = IF Whole(h)
                THEN [x \in Addresses |-> IF x \in h.vaddr .. h.vaddr + h.filesz - 1
                                          THEN h.offset + x - h.vaddr ELSE fresh[x]]
                ELSE fresh
  BY <1>3, <1>5 DEF CopyIn, Whole, PagesOf
<1>7. WritesOnly(h, memory, memory') /\ (Whole(h) => HoldsImage(h, memory'))
  BY <1>4, <1>5, <1>6, CopyWrites
<1>8. reader.kind = "load_elf"
  BY DEF CopyIn
<1> QED
  BY <1>2, <1>3, <1>4, <1>7, <1>8, WriteKeeps DEF CopyIn, Vouched, ByLoadElf

LEMMA LoadKeeps == SegmentsInv /\ phase = "segments" /\ segment <= Len(Loads) /\ LoadSegment => SegmentsInv'
<1> SUFFICES ASSUME SegmentsInv, phase = "segments", segment <= Len(Loads), LoadSegment PROVE SegmentsInv'
  OBVIOUS
<1>1. SegmentTypes /\ MappedSoFar
  BY DEF SegmentsInv
<1>2. segment \in 1 .. Len(Loads)
  BY <1>1, LayoutIs DEF SegmentTypes
<1>3. PICK h : h = Loads[segment]
  OBVIOUS
<1>4. LaidOut(h) /\ memory \in Contents /\ program.size \in Nat /\ h \in Range(Loads)
  BY <1>1, <1>2, <1>3, LayoutIs DEF SegmentTypes
<1>5. reader.kind = "ElfReader" /\ reader.smallPages \in BOOLEAN
  BY <1>1 DEF LoadSegment, SegmentTypes
<1>6. Whole(h)
  <2>1. ~SegmentPastEnd(h)
    BY <1>3 DEF LoadSegment
  <2> QED
    BY <1>4, <2>1, HeaderNumbers DEF SegmentPastEnd, Whole
<1>7. PICK first : first = PageStart(h.vaddr)
  OBVIOUS
<1>8. PICK length : length = h.offset + h.filesz - PageStart(h.offset)
  OBVIOUS
<1>9. WritesOnly(h, memory, memory') /\ HoldsImage(h, memory')
  <2>1. CASE reader.smallPages /\ length # 0
    <3>1. memory' = ZeroPages(ZeroTail(FilePages(memory, h), h), h)
      BY <1>3, <1>8, <2>1 DEF LoadSegment
    <3> QED
      BY <1>4, <1>6, <3>1, MapWrites
  <2>2. CASE reader.smallPages /\ length = 0
    <3>1. memory' = ZeroPages(ZeroTail(memory, h), h)
      BY <1>3, <1>8, <2>2 DEF LoadSegment
    <3> QED
      BY <1>4, <1>8, <2>2, <3>1, ZeroWrites
  <2>3. CASE ~reader.smallPages
    <3>1. memory' = [x \in Addresses |-> IF x \in first .. first + length - 1
                                         THEN FilePages(memory, h)[x] ELSE memory[x]]
      BY <1>3, <1>7, <1>8, <2>3, Zenon DEF LoadSegment
    <3>2. ReadInto
      BY <1>5, <2>3 DEF ReadInto
    <3>3. segment \in segment .. Len(Loads)
      BY <1>1, <1>2, LayoutIs
    <3>4. \A x \in PagesOf(h) \cap Addresses : memory[x] = Zero
      BY <1>1, <1>3, <3>2, <3>3 DEF MappedSoFar, LoadSegment
    <3> QED
      BY <1>4, <1>6, <1>7, <1>8, <3>1, <3>4, ReadWrites
  <2> QED
    BY <1>5, <2>1, <2>2, <2>3
<1> QED
  BY <1>2, <1>3, <1>9, WriteKeeps DEF LoadSegment

\* The reservation of the reader covers the pages of every segment.
LEMMA ReservationCovers ==
    ASSUME SegmentTypes, phase # "new", NEW i \in 1 .. Len(Loads)
    PROVE  /\ LoadStart \in Nat /\ PageEnd(Extent) \in Nat
           /\ LoadStart <= PageStart(Loads[i].vaddr)
           /\ PageEnd(Loads[i].vaddr + Loads[i].memsz) <= PageEnd(Extent)
<1>1. PICK n \in Nat : n = Len(Loads)
  BY LayoutIs
<1>2. PICK start, stop : /\ start = [j \in 1 .. n |-> Loads[j].vaddr]
                         /\ stop = [j \in 1 .. n |-> Loads[j].vaddr + Loads[j].memsz]
  OBVIOUS
<1>3. \A j \in 1 .. n : start[j] \in Nat /\ stop[j] \in Nat /\ start[j] <= stop[j]
  <2> TAKE j \in 1 .. n
  <2>1. PICK h : h = Loads[j]
    OBVIOUS
  <2>2. h.vaddr \in Nat /\ h.memsz \in Nat
    BY <1>1, <2>1, LayoutIs, HeaderNumbers
  <2>3. start[j] = h.vaddr /\ stop[j] = h.vaddr + h.memsz
    BY <1>2, <2>1
  <2> QED
    BY <2>2, <2>3
<1>4. \A j, k \in 1 .. n : j < k => stop[j] <= start[k]
  <2> SUFFICES ASSUME NEW j \in 1 .. n, NEW k \in 1 .. n, j < k PROVE stop[j] <= start[k]
    OBVIOUS
  <2>1. PageEnd(stop[j]) <= PageStart(start[k])
    BY <1>1, <1>2, LayoutIs
  <2>2. /\ PageEnd(stop[j]) \in Nat /\ stop[j] <= PageEnd(stop[j])
        /\ PageStart(start[k]) \in Nat /\ PageStart(start[k]) <= start[k]
    BY <1>3, Pages
  <2> QED
    BY <1>3, <2>1, <2>2
<1>5. PICK starts, stops : starts = {start[j] : j \in 1 .. n} /\ stops = {stop[j] : j \in 1 .. n}
  OBVIOUS
<1>6. {h.vaddr : h \in Range(Loads)} = starts /\ {h.vaddr + h.memsz : h \in Range(Loads)} = stops
  <2>1. Range(Loads) = {Loads[j] : j \in 1 .. n}
    BY <1>1, LayoutIs
  <2> QED
    BY <1>2, <1>5, <2>1
<1>7. PICK low : low = Min(starts)
  OBVIOUS
<1>8. low \in Nat /\ \A j \in 1 .. n : low <= start[j]
  <2>1. i \in 1 .. n /\ 1 \in 1 .. n
    BY <1>1
  <2>2. \A j \in 1 .. n : start[1] <= start[j]
    <3> TAKE j \in 1 .. n
    <3>1. CASE j = 1
      BY <1>3, <3>1
    <3>2. CASE j # 1
      BY <1>3, <1>4, <2>1, <3>2
    <3> QED
      BY <3>1, <3>2
  <2>3. start[1] \in starts /\ \A x \in starts : start[1] <= x
    BY <1>5, <2>1, <2>2
  <2>4. low \in starts /\ \A x \in starts : low <= x
    BY <1>7, <2>3 DEF Min
  <2> QED
    BY <1>3, <1>5, <2>4
<1>9. PICK high : high = Max(stops)
  OBVIOUS
<1>10. high \in Nat /\ \A j \in 1 .. n : stop[j] <= high
  <2>1. n \in 1 .. n
    BY <1>1
  <2>2. \A j \in 1 .. n : stop[j] <= stop[n]
    <3> TAKE j \in 1 .. n
    <3>1. CASE j = n
      BY <1>3, <3>1
    <3>2. CASE j # n
      BY <1>3, <1>4, <2>1, <3>2
    <3> QED
      BY <3>1, <3>2
  <2>3. stop[n] \in stops /\ \A x \in stops : stop[n] >= x
    <3>1. \A x \in stops : \E j \in 1 .. n : x = stop[j]
      BY <1>5
    <3> QED
      BY <1>3, <1>5, <2>1, <2>2, <3>1
  <2>4. high \in stops /\ \A x \in stops : high >= x
    BY <1>9, <2>3 DEF Max
  <2>5. \A j \in 1 .. n : stop[j] \in stops
    BY <1>5
  <2> QED
    BY <1>3, <1>5, <2>4, <2>5
<1>11. LoadStart = PageStart(low) /\ Extent = high
  BY <1>6, <1>7, <1>9 DEF LoadStart, Extent
<1>12. PageStart(low) \in Nat /\ PageEnd(high) \in Nat
  BY <1>8, <1>10, Pages
<1>13. i \in 1 .. n /\ low <= start[i] /\ stop[i] <= high
  BY <1>1, <1>8, <1>10
<1>14. PageStart(low) <= PageStart(start[i]) /\ PageEnd(stop[i]) <= PageEnd(high)
  BY <1>3, <1>8, <1>10, <1>13, PagesOrdered
<1> QED
  BY <1>2, <1>11, <1>12, <1>13, <1>14

LEMMA ReserveKeeps == SegmentsInv /\ ReserveAddressSpace => SegmentsInv'
<1> SUFFICES ASSUME SegmentsInv, ReserveAddressSpace PROVE SegmentsInv'
  OBVIOUS
<1>1. SegmentTypes /\ phase = "read" /\ phase # "new" /\ reader.kind = "ElfReader"
  BY DEF SegmentsInv, ReserveAddressSpace
<1>2. memory = [x \in Addresses |-> NoAccess] /\ segment = 1 /\ reader.smallPages \in BOOLEAN
  BY <1>1 DEF SegmentTypes
<1>3. program' = program /\ reader' = reader /\ segment' = segment /\ Loads' = Loads
  BY DEF ReserveAddressSpace, Loads
<1>4. CASE phase' = "failed" /\ memory' = memory
  <2>1. SegmentTypes'
    BY <1>1, <1>3, <1>4 DEF SegmentTypes, InPhase
  <2>2. MappedSoFar'
    BY <1>4 DEF MappedSoFar
  <2>3. PagesOnly'
    BY <1>2, <1>3, <1>4 DEF PagesOnly
  <2> QED
    BY <2>1, <2>2, <2>3 DEF SegmentsInv
<1>5. CASE /\ memory' = Over(LoadStart, PageEnd(Extent), IF reader.smallPages THEN NoAccess ELSE Zero)
           /\ phase' = "segments"
  <2>1. \A x \in Addresses :
           memory'[x] = IF x \in LoadStart .. PageEnd(Extent) - 1 /\ ~reader.smallPages THEN Zero ELSE NoAccess
    BY <1>2, <1>5 DEF Over
  <2>2. memory' \in Contents
    <3>1. memory' = [x \in Addresses |-> memory'[x]]
      BY <1>5 DEF Over
    <3> QED
      BY <2>1, <3>1 DEF Contents, Zero, NoAccess
  <2>3. PICK n \in Nat : n = Len(Loads)
    BY <1>1, LayoutIs
  <2>4. SegmentTypes'
    <3>1. segment' \in 1 .. Len(Loads) + 1
      BY <1>2, <1>3, <2>3
    <3> QED
      BY <1>1, <1>3, <1>5, <2>2, <3>1 DEF SegmentTypes, InPhase
  <2>5. MappedSoFar'
    <3>1. ASSUME ~reader.smallPages, NEW i \in 1 .. n, NEW x \in PagesOf(Loads[i]) \cap Addresses
          PROVE  memory'[x] = Zero
      <4>1. PICK h : h = Loads[i]
        OBVIOUS
      <4>2. LaidOut(h)
        BY <1>1, <2>3, <4>1, LayoutIs
      <4>3. PICK a \in Nat, b \in Nat : a = PageStart(h.vaddr) /\ b = PageEnd(h.vaddr + h.memsz)
        BY <4>2, HeaderPages
      <4>4. PICK c \in Nat, d \in Nat : c = LoadStart /\ d = PageEnd(Extent)
        BY <1>1, <2>3, ReservationCovers
      <4>5. c <= a /\ b <= d
        BY <1>1, <2>3, <4>1, <4>3, <4>4, ReservationCovers
      <4>6. x \in a .. b - 1 /\ x \in Addresses
        BY <3>1, <4>1, <4>3 DEF PagesOf
      <4>7. x \in c .. d - 1
        BY <4>5, <4>6
      <4> QED
        BY <2>1, <3>1, <4>4, <4>6, <4>7
    <3>2. segment' - 1 = 0 /\ segment' .. n = 1 .. n
      BY <1>2, <1>3
    <3>3. \A i : i \notin 1 .. 0
      OBVIOUS
    <3> QED
      BY <1>3, <2>3, <3>1, <3>2, <3>3 DEF MappedSoFar, ReadInto, PagesOf
  <2>6. PagesOnly'
    BY <1>1, <1>2, <1>3, <2>1 DEF PagesOnly
  <2> QED
    BY <2>4, <2>5, <2>6 DEF SegmentsInv
<1> QED
  BY <1>4, <1>5 DEF ReserveAddressSpace

LEMMA SegmentsStart == SegmentsInit => SegmentsInv
BY DEF SegmentsInit, SegmentsInv, SegmentTypes, MappedSoFar, PagesOnly, Contents, InPhase, NoAccess

\* The steps that write nothing, or nothing but a new start.
LEMMA NothingWrittenKeeps ==
    ASSUME SegmentsInv,
           \/ Open \/ ReserveAll \/ Read \/ SegmentsDone \/ DropReader
           \/ phase = "segments" /\ segment <= Len(Loads) /\ (LeaveOut \/ LoadFails)
           \/ UNCHANGED segmentVars
    PROVE  SegmentsInv'
<1>1. SegmentTypes /\ MappedSoFar /\ PagesOnly
  BY DEF SegmentsInv
<1>2. CASE Open
  <2>1. memory' = [x \in Addresses |-> NoAccess]
    BY <1>1, <1>2 DEF Open, SegmentTypes
  <2>2. SegmentTypes' /\ MappedSoFar'
    BY <1>1, <1>2 DEF Open, SegmentTypes, MappedSoFar, InPhase
  <2>3. PagesOnly'
    BY <1>2, <2>1 DEF Open, PagesOnly
  <2> QED
    BY <2>2, <2>3 DEF SegmentsInv
<1>3. CASE ReserveAll
  <2>1. phase = "start" /\ phase # "new" /\ memory = [x \in Addresses |-> NoAccess] /\ segment = 1
    BY <1>1, <1>3 DEF ReserveAll, SegmentTypes
  <2>2. memory' = memory /\ reader.kind = "load_elf"
    BY <1>3, <2>1 DEF ReserveAll, Over
  <2>3. Loads' = Loads /\ program' = program /\ reader' = reader /\ segment' = segment
    BY <1>3 DEF ReserveAll, Loads
  <2>4. phase' \in {"segments", "failed"}
    BY <1>3 DEF ReserveAll
  <2>5. PICK n \in Nat : n = Len(Loads)
    BY <1>1, <2>1, LayoutIs
  <2>6. 1 \in 1 .. n + 1 /\ \A i : i \notin 1 .. 1 - 1
    OBVIOUS
  <2>7. SegmentTypes'
    BY <1>1, <2>1, <2>2, <2>3, <2>4, <2>5, <2>6 DEF SegmentTypes, InPhase
  <2>8. MappedSoFar'
    BY <2>1, <2>2, <2>3, <2>6 DEF MappedSoFar, ReadInto
  <2>9. PagesOnly'
    BY <2>1, <2>2 DEF PagesOnly
  <2> QED
    BY <2>7, <2>8, <2>9 DEF SegmentsInv
<1>4. CASE Read
  <2>1. Loads' = Loads
    BY <1>4 DEF Read, Loads
  <2> QED
    BY <1>1, <1>4, <2>1 DEF Read, SegmentsInv, SegmentTypes, MappedSoFar, PagesOnly, InPhase
<1>5. CASE SegmentsDone
  <2>1. Loads' = Loads /\ program' = program /\ reader' = reader /\ memory' = memory /\ segment' = segment /\ refused' = refused
    BY <1>5 DEF SegmentsDone, Loads
  <2>2. phase = "segments" /\ phase' \in {"loaded", "failed"} /\ segment = Len(Loads) + 1
    <3>1. phase = "segments" /\ phase' \in {"loaded", "failed"} /\ segment > Len(Loads)
      BY <1>5 DEF SegmentsDone
    <3>2. PICK n \in Nat : n = Len(Loads)
      BY <1>1, <3>1, LayoutIs
    <3> QED
      BY <1>1, <3>1, <3>2 DEF SegmentTypes
  <2>3. SegmentTypes'
    BY <1>1, <2>1, <2>2 DEF SegmentTypes, InPhase
  <2>4. MappedSoFar'
    BY <1>1, <2>1, <2>2 DEF MappedSoFar, ByLoadElf, ReadInto, Whole
  <2>5. PagesOnly'
    BY <1>1, <2>1, <2>2 DEF PagesOnly
  <2> QED
    BY <2>3, <2>4, <2>5 DEF SegmentsInv
<1>6. CASE DropReader
  <2>1. Loads' = Loads /\ program' = program /\ reader' = reader /\ phase' = "dropped" /\ phase \in {"loaded", "failed"}
    BY <1>6 DEF DropReader, Loads
  <2>2. memory' = memory \/ memory' = [x \in Addresses |-> NoAccess]
    BY <1>6 DEF DropReader
  <2>3. SegmentTypes'
    BY <1>1, <2>1, <2>2 DEF SegmentTypes, InPhase, Contents, NoAccess
  <2>4. MappedSoFar'
    BY <2>1 DEF MappedSoFar
  <2>5. PagesOnly'
    BY <1>1, <2>1, <2>2 DEF PagesOnly
  <2> QED
    BY <2>3, <2>4, <2>5 DEF SegmentsInv
<1>7. CASE phase = "segments" /\ segment <= Len(Loads) /\ LeaveOut
  <2>1. Loads' = Loads /\ program' = program /\ reader' = reader /\ memory' = memory /\ phase' = phase
        /\ segment' = segment + 1 /\ refused' = TRUE /\ reader.kind = "load_elf"
    BY <1>7 DEF LeaveOut, Loads
  <2>2. PICK n \in Nat : n = Len(Loads)
    BY <1>1, <1>7, LayoutIs
  <2>3. segment' \in 1 .. n + 1
    BY <1>1, <1>7, <2>1, <2>2 DEF SegmentTypes
  <2>4. SegmentTypes'
    BY <1>1, <1>7, <2>1, <2>2, <2>3 DEF SegmentTypes
  <2>5. MappedSoFar'
    BY <2>1 DEF MappedSoFar, ReadInto, ByLoadElf
  <2>6. PagesOnly'
    BY <1>1, <2>1 DEF PagesOnly
  <2> QED
    BY <2>4, <2>5, <2>6 DEF SegmentsInv
<1>8. CASE phase = "segments" /\ segment <= Len(Loads) /\ LoadFails
  <2>1. Loads' = Loads /\ program' = program /\ reader' = reader /\ memory' = memory /\ phase' = "failed"
    BY <1>8 DEF LoadFails, Loads
  <2> QED
    BY <1>1, <1>8, <2>1 DEF SegmentsInv, SegmentTypes, MappedSoFar, PagesOnly, InPhase
<1>9. CASE UNCHANGED segmentVars
  <2>1. /\ program' = program /\ reader' = reader /\ memory' = memory /\ phase' = phase
        /\ segment' = segment /\ refused' = refused
    BY <1>9 DEF segmentVars
  <2>2. Loads' = Loads
    BY <2>1 DEF Loads
  <2> QED
    BY <1>1, <2>1, <2>2 DEF SegmentsInv, SegmentTypes, MappedSoFar, PagesOnly, ByLoadElf, ReadInto, Whole
<1> QED
  BY <1>2, <1>3, <1>4, <1>5, <1>6, <1>7, <1>8, <1>9

\* A library that is loaded is in memory as its headers ask, whichever loader
\* and host page size, and neither loader writes outside the pages of the
\* segments (load_elf of loader.rs, ElfReader of phdr.rs).
THEOREM ImagesAsAsked == SegmentsSpec => []LoadedAsAsked
<1>1. SegmentsInit => SegmentsInv
  BY SegmentsStart
<1>2. SegmentsInv /\ [SegmentsNext]_segmentVars => SegmentsInv'
  BY MapKeeps, CopyKeeps, LoadKeeps, ReserveKeeps, NothingWrittenKeeps DEF SegmentsNext
<1>3. SegmentsInv => LoadedAsAsked
  <2> SUFFICES ASSUME SegmentsInv PROVE ImageMatches /\ PagesOnly
    BY DEF LoadedAsAsked
  <2>1. SegmentTypes /\ MappedSoFar /\ PagesOnly
    BY DEF SegmentsInv
  <2>2. ASSUME phase = "loaded", Vouched, NEW h \in Range(Loads) PROVE ImageOf(h)
    <3>1. PICK i \in 1 .. Len(Loads) : h = Loads[i]
      BY <2>1, <2>2, LayoutIs
    <3>2. PICK n \in Nat : n = Len(Loads)
      BY <2>1, <2>2, LayoutIs
    <3>3. i \in 1 .. segment - 1
      BY <2>1, <2>2, <3>2 DEF SegmentTypes
    <3> QED
      BY <2>1, <2>2, <3>1, <3>3 DEF MappedSoFar, Vouched, HoldsImage, ImageOf
  <2> QED
    BY <2>1, <2>2 DEF ImageMatches, Vouched, ByLoadElf, Whole
<1> QED
  BY <1>1, <1>2, <1>3, PTL DEF SegmentsSpec

-----------------------------------------------------------------------------
(* Symbol tables.  What a static linker can have made of a library.          *)

Tables ==
    /\ Symbols \in Seq(Symbol) /\ Unique(Symbols)
    /\ library.symoffset \in 1 .. Len(Symbols) + 1 /\ library.buckets \in Nat \ {0}
    /\ library.bloomWords = BloomWords /\ library.gnu \in BOOLEAN
    /\ library.distance - (16 + BloomWords * 8 + library.buckets * 4 + (Len(Symbols) + 1 - library.symoffset) * 4) \in Nat
    /\ library.distance \in Nat
    /\ library.gnu => GnuSorted

SymbolsInv ==
    /\ library = <<>> \/ Tables
    /\ name # None => name \in Names /\ Tables

\* Every set of naturals that is not empty has a least element.
LEMMA LeastNat ==
    ASSUME NEW T \in SUBSET Nat, T # {}
    PROVE  \E x \in T : \A y \in T : x <= y
<1>1. PICK Rel : Rel = {ss \in Nat \X Nat : ss[1] < ss[2]}
  OBVIOUS
<1>2. IsWellFoundedOn(Rel, Nat)
  BY <1>1, NatLessThanWellFounded DEF OpToRel
<1>3. PICK x \in T : \A y \in T : ~(<<y, x>> \in Rel)
  BY <1>2, WFMin
<1>4. \A y \in T : ~(y < x)
  BY <1>1, <1>3
<1> QED
  BY <1>4

LEMMA MinIsLeast ==
    ASSUME NEW T \in SUBSET Nat, T # {}
    PROVE  Min(T) \in T /\ \A y \in T : Min(T) <= y
BY LeastNat DEF Min

LEMMA MaxIsGreatest ==
    ASSUME NEW n \in Nat, NEW T \in SUBSET (0 .. n), T # {}
    PROVE  Max(T) \in T /\ \A y \in T : y <= Max(T)
<1>1. PICK U : U = {n - x : x \in T}
  OBVIOUS
<1>2. U \in SUBSET Nat /\ U # {}
  <2>1. \A x \in T : x \in 0 .. n
    OBVIOUS
  <2>2. \A x \in 0 .. n : n - x \in Nat
    OBVIOUS
  <2> QED
    BY <2>1, <2>2, <1>1
<1>3. PICK u \in U : \A y \in U : u <= y
  BY <1>2, LeastNat
<1>4. PICK x \in T : u = n - x
  BY <1>1, <1>3
<1>5. ASSUME NEW y \in T PROVE y <= x
  <2>1. n - y \in U
    BY <1>1
  <2>2. n - x <= n - y
    BY <2>1, <1>3, <1>4
  <2>3. x \in 0 .. n /\ y \in 0 .. n
    OBVIOUS
  <2> QED
    BY <2>2, <2>3
<1>6. \E g \in T : \A y \in T : g >= y
  BY <1>5
<1>7. Max(T) \in T /\ \A y \in T : Max(T) >= y
  BY <1>6 DEF Max
<1> QED
  BY <1>7

LEMMA SymbolsStart == SymbolsInit => SymbolsInv
BY DEF SymbolsInit, SymbolsInv

LEMMA LoadSymbolsKeeps ==
    ASSUME SymbolsInv, LoadSymbols
    PROVE  SymbolsInv'
<1>0. PICK k \in 1 .. MaxSymbols :
        \E s \in {t \in [1 .. k -> Symbol] : Unique(t)}, b \in 1 .. MaxBuckets, g \in BOOLEAN, gap \in Gaps :
           LET offset == 1 + Cardinality({i \in 1 .. k : s[i].section = Undefined}) IN
           library' = [symbols |-> s, gnu |-> g, buckets |-> b, symoffset |-> offset,
                       bloomWords |-> BloomWords, bloomShift |-> BloomShift,
                       distance |-> 16 + BloomWords * 8 + b * 4 + (k + 1 - offset) * 4 + gap]
  BY DEF LoadSymbols
<1>1. PICK s \in {t \in [1 .. k -> Symbol] : Unique(t)}, b \in 1 .. MaxBuckets, g \in BOOLEAN, gap \in Gaps :
         library' = [symbols |-> s, gnu |-> g, buckets |-> b,
                     symoffset |-> 1 + Cardinality({i \in 1 .. k : s[i].section = Undefined}),
                     bloomWords |-> BloomWords, bloomShift |-> BloomShift,
                     distance |-> 16 + BloomWords * 8 + b * 4
                        + (k + 1 - (1 + Cardinality({i \in 1 .. k : s[i].section = Undefined}))) * 4 + gap]
  BY <1>0
<1>2. PICK c : c = Cardinality({i \in 1 .. k : s[i].section = Undefined})
  OBVIOUS
<1>3. k \in Nat /\ MaxSymbols \in Nat
  BY SymbolsAssumption
<1>4. c \in 0 .. k
  <2>1. 1 \in Int /\ k \in Int
    BY <1>3
  <2>2. IsFiniteSet(1 .. k) /\ Cardinality(1 .. k) = IF 1 > k THEN 0 ELSE k - 1 + 1
    BY <2>1, FS_Interval
  <2>3. {i \in 1 .. k : s[i].section = Undefined} \subseteq 1 .. k
    OBVIOUS
  <2>4. IsFiniteSet({i \in 1 .. k : s[i].section = Undefined}) /\ c <= Cardinality(1 .. k)
    BY <2>2, <2>3, <1>2, FS_Subset
  <2>5. c \in Nat
    BY <2>4, <1>2, FS_CardinalityType
  <2> QED
    BY <2>2, <2>4, <2>5, <1>3
<1>5. s \in Seq(Symbol) /\ Len(s) = k
  BY <1>3
<1>6. /\ library'.symbols = s /\ library'.gnu = g /\ library'.buckets = b
      /\ library'.symoffset = 1 + c /\ library'.bloomWords = BloomWords
      /\ library'.distance = 16 + BloomWords * 8 + b * 4 + (k + 1 - (1 + c)) * 4 + gap
  BY <1>1, <1>2
<1>7. library'.gnu => GnuSorted'
  BY DEF LoadSymbols
<1>8. gap \in Nat /\ MaxBuckets \in Nat
  BY SymbolsAssumption
<1>9. Symbols' = s
  BY <1>6 DEF Symbols
<1>10. library'.symoffset \in 1 .. k + 1
  BY <1>3, <1>4, <1>6
<1>13. library'.distance \in Nat
       /\ library'.distance - (16 + BloomWords * 8 + library'.buckets * 4 + (k + 1 - library'.symoffset) * 4) \in Nat
  <2>1. PICK m \in Nat : m = k + 1 - (1 + c)
    BY <1>3, <1>4
  <2>2. library'.distance = 16 + BloomWords * 8 + b * 4 + m * 4 + gap
    BY <2>1, <1>6
  <2>3. b \in Nat /\ BloomWords \in Nat
    BY <1>8, SymbolsAssumption
  <2>4. library'.distance - (16 + BloomWords * 8 + b * 4 + m * 4) = gap /\ library'.distance \in Nat
    BY <2>2, <2>3, <1>8
  <2> QED
    BY <2>1, <2>4, <1>6, <1>8
<1>11. Tables'
  BY <1>1, <1>5, <1>6, <1>7, <1>9, <1>10, <1>13 DEF Tables
<1>12. name' = name
  BY DEF LoadSymbols
<1> QED
  BY <1>11, <1>12 DEF SymbolsInv

LEMMA SymbolsKeep == SymbolsInv /\ [SymbolsNext]_symbolVars => SymbolsInv'
<1> SUFFICES ASSUME SymbolsInv, [SymbolsNext]_symbolVars PROVE SymbolsInv'
  OBVIOUS
<1>1. CASE LoadSymbols
  BY <1>1, LoadSymbolsKeeps
<1>2. ASSUME UNCHANGED library PROVE Tables' = Tables
  BY <1>2 DEF Tables, Symbols, GnuSorted, GnuBucketOf, Indices, Unique
<1>3. CASE Lookup
  BY <1>2, <1>3 DEF SymbolsInv, Lookup
<1>4. CASE UNCHANGED symbolVars
  BY <1>2, <1>4 DEF SymbolsInv, symbolVars
<1> QED
  BY <1>1, <1>3, <1>4 DEF SymbolsNext

-----------------------------------------------------------------------------
(* DT_GNU_HASH.                                                              *)

LEMMA CountSums ==
    ASSUME NEW m \in Nat, NEW b \in Nat, NEW gap \in Nat
    PROVE  /\ 16 + BloomWords * 8 + b * 4 + m * 4 + gap = (16 + BloomWords * 8 + b * 4) + (m * 4 + gap)
           /\ 16 + BloomWords * 8 + b * 4 \in Nat /\ m * 4 + gap \in Nat
           /\ m * 4 + gap > 0 => (m * 4 + gap) \div 4 >= m /\ (m * 4 + gap) \div 4 \in Nat
           /\ ~(m * 4 + gap > 0) => m = 0
<1>1. PICK z \in Nat : z = m * 4 + gap
  OBVIOUS
<1>2. PICK q : q = z \div 4
  OBVIOUS
<1>3. q \in Int /\ z < 4 * (q + 1) /\ z >= 4 * q
  BY <1>1, <1>2
<1>4. q >= m
  BY <1>1, <1>3
<1>5. q \in Nat
  BY <1>1, <1>3
<1>6. BloomWords \in Nat
  BY SymbolsAssumption
<1> QED
  BY <1>1, <1>2, <1>4, <1>5, <1>6

LEMMA CountCovers ==
    ASSUME Tables
    PROVE  Len(Symbols) < DynsymCount
<1>2. PICK k \in Nat, o \in Nat, b \in Nat :
        k = Len(Symbols) /\ o = library.symoffset /\ o \in 1 .. k + 1 /\ b = library.buckets
  BY DEF Tables
<1>3. PICK m \in Nat : m = k + 1 - o
  BY <1>2
<1>14. BloomWords \in Nat
  BY SymbolsAssumption
<1>1. PICK gap \in Nat : library.distance = 16 + BloomWords * 8 + b * 4 + m * 4 + gap
  <2>1. PICK y \in Nat : y = library.distance
    BY DEF Tables
  <2>2. y - (16 + BloomWords * 8 + b * 4 + m * 4) \in Nat
    BY <2>1, <1>2, <1>3 DEF Tables
  <2>3. PICK gap \in Nat : gap = y - (16 + BloomWords * 8 + b * 4 + m * 4)
    BY <2>2
  <2>4. y = 16 + BloomWords * 8 + b * 4 + m * 4 + gap
    BY <2>1, <2>3, <1>14
  <2> QED
    BY <2>1, <2>4
<1>4. PICK r \in Nat : r = 16 + BloomWords * 8 + b * 4
  BY CountSums
<1>5. PICK z \in Nat : z = m * 4 + gap
  BY CountSums
<1>6. library.distance = 16 + BloomWords * 8 + b * 4 + m * 4 + gap
  BY <1>1
<1>7. library.distance = r + z
  BY <1>4, <1>5, <1>6, CountSums
<1>8. library.bloomWords = BloomWords
  BY DEF Tables
<1>9. 16 + library.bloomWords * 8 + library.buckets * 4 = r
  BY <1>2, <1>4, <1>8
<1>10. r > 0
  BY <1>2, <1>4, <1>14
<1>11. DynsymCount = o + (IF z > 0 THEN z \div 4 ELSE 0)
  <2>1. PICK y \in Nat : y = library.distance
    BY <1>7
  <2>2. y > 0 /\ y - r = z /\ (y > r <=> z > 0)
    BY <2>1, <1>7, <1>10
  <2>3. DynsymCount = IF y > 0 THEN o + (IF y > r THEN (y - r) \div 4 ELSE 0) ELSE o
    BY <2>1, <1>2, <1>9 DEF DynsymCount
  <2> QED
    BY <2>2, <2>3
<1>12. CASE z > 0
  <2>1. z \div 4 >= m /\ z \div 4 \in Nat
    BY <1>5, <1>12, CountSums
  <2> QED
    BY <2>1, <1>2, <1>3, <1>11, <1>12
<1>13. CASE ~(z > 0)
  <2>1. m = 0
    BY <1>5, <1>13, CountSums
  <2> QED
    BY <2>1, <1>2, <1>3, <1>11, <1>13
<1> QED
  BY <1>12, <1>13

\* A bucket leads to the first symbol of its chain, which has an end.
LEMMA ChainEnds ==
    ASSUME Tables, NEW b, GnuBucket(b) >= library.symoffset
    PROVE  /\ GnuBucket(b) \in GnuMembers(b) /\ \A i \in GnuMembers(b) : GnuBucket(b) <= i
           /\ GnuBucket(b) \in library.symoffset .. Len(Symbols)
           /\ Min({i \in GnuBucket(b) .. Len(Symbols) : GnuEnds(i)}) \in
                 {i \in GnuBucket(b) .. Len(Symbols) : GnuEnds(i)}
<1>1. PICK k \in Nat, o \in Nat : k = Len(Symbols) /\ o = library.symoffset /\ o \in 1 .. k + 1
  BY DEF Tables
<1>2. GnuMembers(b) \in SUBSET (0 .. k) /\ GnuMembers(b) \in SUBSET Nat /\ GnuMembers(b) \in SUBSET (o .. k)
  BY <1>1 DEF GnuMembers
<1>3. GnuMembers(b) # {}
  BY <1>1 DEF GnuBucket
<1>4. PICK start \in GnuMembers(b) : start = GnuBucket(b) /\ \A i \in GnuMembers(b) : start <= i
  BY <1>2, <1>3, MinIsLeast DEF GnuBucket
<1>5. PICK e \in GnuMembers(b) : e = Max(GnuMembers(b))
  BY <1>1, <1>2, <1>3, MaxIsGreatest
<1>6. start <= e /\ e \in o .. k /\ start \in o .. k
  BY <1>2, <1>4
<1>7. GnuBucketOf(Symbols[e].name) = b
  BY DEF GnuMembers
<1>8. GnuEnds(e)
  BY <1>5, <1>7 DEF GnuEnds
<1>9. PICK Closing : Closing = {i \in start .. k : GnuEnds(i)}
  OBVIOUS
<1>10. e \in Closing /\ Closing \in SUBSET Nat
  BY <1>6, <1>8, <1>9
<1>11. Min(Closing) \in Closing
  BY <1>10, MinIsLeast
<1> QED
  BY <1>1, <1>4, <1>6, <1>9, <1>11

\* The search as one expression, with its parts named.
GnuFound(n, b, last) ==
    {i \in GnuBucket(b) .. last : GnuHash[Symbols[i].name] \div 2 = GnuHash[n] \div 2 /\ IsDefinition(i, n)}

LEMMA GnuSearch ==
    ASSUME Tables, NEW n \in Names
    PROVE  LET b == GnuHash[n] % library.buckets
               found == GnuFound(n, b, Min({i \in GnuBucket(b) .. Len(Symbols) : GnuEnds(i)}))
           IN  FindSymbolGnu(n) = IF BloomMisses(GnuHash[n]) \/ GnuBucket(b) < library.symoffset \/ found = {}
                                  THEN None ELSE Min(found)
BY DEF FindSymbolGnu, GnuFound

LEMMA GnuFindsOnlyDefinitions ==
    ASSUME Tables, NEW n \in Names, FindSymbolGnu(n) # None
    PROVE  FindSymbolGnu(n) \in Indices /\ IsDefinition(FindSymbolGnu(n), n)
<1>1. PICK b : b = GnuHash[n] % library.buckets
  OBVIOUS
<1>2. PICK last : last = Min({i \in GnuBucket(b) .. Len(Symbols) : GnuEnds(i)})
  OBVIOUS
<1>3. PICK found : found = GnuFound(n, b, last)
  OBVIOUS
<1>4. ~(GnuBucket(b) < library.symoffset) /\ found # {} /\ FindSymbolGnu(n) = Min(found)
  BY <1>1, <1>2, <1>3, GnuSearch
<1>5. PICK k \in Nat, o \in Nat : k = Len(Symbols) /\ o = library.symoffset /\ o \in 1 .. k + 1
  BY DEF Tables
<1>6. GnuBucket(b) \in Nat
  <2>1. GnuMembers(b) \in SUBSET Nat
    BY <1>5 DEF GnuMembers
  <2> QED
    BY <2>1, MinIsLeast DEF GnuBucket
<1>7. GnuBucket(b) >= library.symoffset
  BY <1>4, <1>5, <1>6
<1>8. GnuBucket(b) \in o .. k /\ last \in GnuBucket(b) .. k
  BY <1>2, <1>5, <1>7, ChainEnds
<1>9. \A i \in found : i \in 1 .. k /\ IsDefinition(i, n)
  BY <1>3, <1>5, <1>8 DEF GnuFound
<1>10. found \in SUBSET Nat
  BY <1>9
<1>11. Min(found) \in found
  BY <1>4, <1>10, MinIsLeast
<1> QED
  BY <1>4, <1>5, <1>9, <1>11 DEF Indices

LEMMA GnuFindsDefinitions ==
    ASSUME Tables, library.gnu, NEW n \in Names, NEW d \in Indices, IsDefinition(d, n)
    PROVE  FindSymbolGnu(n) # None
<1>1. PICK k \in Nat, o \in Nat : k = Len(Symbols) /\ o = library.symoffset /\ o \in 1 .. k + 1
  BY DEF Tables
<1>2. PICK b : b = GnuHash[n] % library.buckets
  OBVIOUS
<1>3. d \in o .. k /\ Symbols[d].name = n
  <2>1. d < o <=> Symbols[d].section = Undefined
    BY <1>1 DEF Tables, GnuSorted
  <2> QED
    BY <2>1, <1>1 DEF IsDefinition, Indices
<1>4. d \in GnuMembers(b)
  BY <1>1, <1>2, <1>3 DEF GnuMembers, GnuBucketOf
<1>5. GnuMembers(b) \in SUBSET (o .. k) /\ GnuMembers(b) \in SUBSET Nat /\ GnuMembers(b) \in SUBSET (0 .. k)
  BY <1>1 DEF GnuMembers
<1>6. PICK start \in GnuMembers(b) : start = GnuBucket(b)
  BY <1>4, <1>5, MinIsLeast DEF GnuBucket
<1>7. start \in o .. k /\ start >= library.symoffset
  BY <1>1, <1>5, <1>6
<1>8. start <= d
  BY <1>4, <1>6, <1>7, ChainEnds
<1>9. PICK last : last = Min({i \in GnuBucket(b) .. Len(Symbols) : GnuEnds(i)})
  OBVIOUS
<1>10. last \in start .. k /\ GnuEnds(last)
  BY <1>1, <1>6, <1>7, <1>9, ChainEnds
<1>11. d <= last
  <2> SUFFICES ASSUME last < d PROVE FALSE
    BY <1>3, <1>10
  <2>1. \A i, j \in o .. k : i < j => GnuBucketOf(Symbols[i].name) <= GnuBucketOf(Symbols[j].name)
    BY <1>1 DEF Tables, GnuSorted
  <2>2. GnuBucketOf(Symbols[start].name) = b /\ GnuBucketOf(Symbols[d].name) = b
    BY <1>4, <1>6 DEF GnuMembers
  <2>3. last \in o .. k
    BY <1>7, <1>10
  <2>4. GnuBucketOf(Symbols[last].name) <= b
    BY <2>1, <2>2, <2>3, <1>3
  <2>5. b <= GnuBucketOf(Symbols[last].name)
    <3>1. CASE start = last
      BY <3>1, <2>2, <2>4
    <3>2. CASE start < last
      BY <3>2, <2>1, <2>2, <2>3, <1>7
    <3> QED
      BY <3>1, <3>2, <1>7, <1>10
  <2>6. Symbols[last].name \in Names
    <3>1. last \in 1 .. Len(Symbols)
      BY <1>1, <2>3
    <3>2. Symbols \in Seq(Symbol)
      BY DEF Tables
    <3>3. Symbols[last] \in Symbol
      BY <3>1, <3>2
    <3> QED
      BY <3>3 DEF Symbol
  <2>7. b \in Int /\ GnuBucketOf(Symbols[last].name) \in Int
    <3>1. PICK m \in Nat \ {0} : m = library.buckets
      BY DEF Tables
    <3>2. GnuHash[n] \in Nat /\ GnuHash[Symbols[last].name] \in Nat
      BY <2>6, SymbolsAssumption
    <3>3. \A h \in Nat : h % m \in Int
      OBVIOUS
    <3> QED
      BY <3>1, <3>2, <3>3, <1>2 DEF GnuBucketOf
  <2>8. GnuBucketOf(Symbols[last].name) = b
    BY <2>4, <2>5, <2>7
  <2>9. last = Max(GnuMembers(b))
    BY <2>8, <1>10 DEF GnuEnds
  <2>10. d <= Max(GnuMembers(b))
    BY <1>4, <1>5, MaxIsGreatest
  <2> QED
    BY <2>9, <2>10, <2>3, <1>3
<1>12. PICK found : found = GnuFound(n, b, last)
  OBVIOUS
<1>13. d \in found
  <2>1. d \in start .. last
    BY <1>3, <1>7, <1>8, <1>10, <1>11
  <2> QED
    BY <2>1, <1>3, <1>6, <1>12 DEF GnuFound
<1>14. ~BloomMisses(GnuHash[n])
  <2>1. PICK w : w = (GnuHash[n] \div WordBits) % library.bloomWords
    OBVIOUS
  <2>2. GnuHash[n] \in {GnuHash[Symbols[i].name] : i \in library.symoffset .. Len(Symbols)}
    BY <1>1, <1>3
  <2>3. {GnuHash[n] % WordBits, (GnuHash[n] \div 2^library.bloomShift) % WordBits} \subseteq BloomBits(w)
    BY <2>1, <2>2 DEF BloomBits
  <2> QED
    BY <2>1, <2>3 DEF BloomMisses
<1>15. ~(GnuBucket(b) < library.symoffset)
  BY <1>1, <1>6, <1>7
<1>16. FindSymbolGnu(n) = Min(found)
  BY <1>2, <1>9, <1>12, <1>13, <1>14, <1>15, GnuSearch
<1>17. found \in SUBSET Nat
  BY <1>1, <1>6, <1>7, <1>10, <1>12 DEF GnuFound
<1>18. Min(found) \in Nat
  BY <1>13, <1>17, MinIsLeast
<1> QED
  BY <1>16, <1>18 DEF None

-----------------------------------------------------------------------------
(* DT_HASH.                                                                  *)

SysvMates(i) == SysvMembers(ElfHash[Symbols[i].name] % library.buckets)

\* A chain runs back through the bucket and leaves nothing out.
LEMMA ChainGoesBack ==
    ASSUME Tables, NEW i \in Indices
    PROVE  /\ SysvChain(i) \in 0 .. Len(Symbols) /\ SysvChain(i) < i
           /\ SysvChain(i) # 0 =>
                 SysvChain(i) \in SysvMates(i) /\ SysvChain(i) \in Indices /\ SysvMates(SysvChain(i)) = SysvMates(i)
           /\ \A j \in SysvMates(i) : j < i => j <= SysvChain(i)
           /\ i \in SysvMates(i)
<1>1. PICK k \in Nat : k = Len(Symbols) /\ i \in 1 .. k
  BY DEF Tables, Indices
<1>2. PICK earlier : earlier = {j \in SysvMates(i) : j < i}
  OBVIOUS
<1>3. SysvMates(i) \in SUBSET (1 .. k)
  BY <1>1 DEF SysvMates, SysvMembers, Indices
<1>4. PICK all : all = earlier \cup {0}
  OBVIOUS
<1>5. all \in SUBSET (0 .. k) /\ all # {}
  BY <1>2, <1>3, <1>4
<1>6. SysvChain(i) = Max(all)
  BY <1>2, <1>4 DEF SysvChain, SysvMates
<1>7. SysvChain(i) \in all /\ \A j \in all : j <= SysvChain(i)
  BY <1>1, <1>5, <1>6, MaxIsGreatest
<1>8. \A j \in all : j < i
  BY <1>1, <1>2, <1>4
<1>9. SysvChain(i) # 0 => SysvChain(i) \in SysvMates(i)
  BY <1>2, <1>4, <1>7
<1>10. \A j \in SysvMates(i) : SysvMates(j) = SysvMates(i)
  BY DEF SysvMates, SysvMembers
<1>11. \A j \in SysvMates(i) : j < i => j \in all
  BY <1>2, <1>4
<1>12. i \in SysvMates(i)
  BY DEF SysvMates, SysvMembers
<1> QED
  BY <1>1, <1>3, <1>5, <1>7, <1>8, <1>9, <1>10, <1>11, <1>12 DEF Indices

\* f is what the search answers from each symbol on.
WalkIs(f, n) ==
    f = [i \in 0 .. Len(Symbols) |->
            IF i = 0 THEN None
            ELSE IF IsDefinition(i, n) THEN i
            ELSE IF SysvChain(i) % LowByte = 0 THEN None
            ELSE f[SysvChain(i)]]

\* The definitions the search can reach from symbol i.
Reached(n, i) ==
    {d \in Indices : /\ IsDefinition(d, n) /\ d \in SysvMates(i) /\ d <= i
                     /\ \A m \in SysvMates(i) : d < m /\ m <= i => SysvChain(m) % LowByte # 0}

LEMMA WalkExists ==
    ASSUME Tables, NEW n \in Names
    PROVE  \E f : WalkIs(f, n)
<1>1. PICK h : h = [i \in 0 .. Len(Symbols) |->
                      IF i = 0 \/ Reached(n, i) = {} THEN None ELSE CHOOSE d \in Reached(n, i) : TRUE]
  OBVIOUS
<1>2. PICK k \in Nat : k = Len(Symbols)
  BY DEF Tables
<1>3. 0 % LowByte = 0
  BY SymbolsAssumption
<1>4. ASSUME NEW i \in 0 .. Len(Symbols)
      PROVE  h[i] = IF i = 0 THEN None
                    ELSE IF IsDefinition(i, n) THEN i
                    ELSE IF SysvChain(i) % LowByte = 0 THEN None
                    ELSE h[SysvChain(i)]
  <2>1. CASE i = 0
    BY <2>1, <1>1
  <2>2. CASE i # 0 /\ IsDefinition(i, n)
    <3>1. i \in Indices
      BY <2>2, <1>2 DEF Indices
    <3>2. i \in SysvMates(i)
      BY <3>1, ChainGoesBack
    <3>3. \A m \in SysvMates(i) : ~(i < m /\ m <= i)
      <4>1. SysvMates(i) \subseteq Nat /\ i \in Nat
        BY <1>2 DEF SysvMates, SysvMembers, Indices
      <4> QED
        BY <4>1
    <3>4. i <= i
      BY <1>2
    <3>5. i \in Reached(n, i)
      BY <2>2, <3>1, <3>2, <3>3, <3>4 DEF Reached
    <3>6. \A d \in Reached(n, i) : d = i
      <4>1. \A d \in Reached(n, i) : d \in 1 .. Len(Symbols) /\ Symbols[d].name = Symbols[i].name
        BY <2>2 DEF Reached, IsDefinition, Indices
      <4> QED
        BY <4>1, <3>1 DEF Tables, Unique, Indices
    <3> QED
      BY <2>2, <3>5, <3>6, <1>1
  <2>3. CASE i # 0 /\ ~IsDefinition(i, n) /\ SysvChain(i) % LowByte = 0
    <3>1. i \in Indices /\ i \in Nat
      BY <2>3, <1>2 DEF Indices
    <3>2. i \in SysvMates(i)
      BY <3>1, ChainGoesBack
    <3>3. ASSUME NEW d \in Reached(n, i) PROVE FALSE
      <4>1. d # i /\ d <= i /\ d \in Nat
        BY <2>3, <1>2 DEF Reached, Indices
      <4>2. d < i /\ i <= i
        BY <4>1, <3>1
      <4> QED
        BY <4>2, <3>2, <2>3 DEF Reached
    <3> QED
      BY <3>3, <2>3, <1>1
  <2>4. CASE i # 0 /\ ~IsDefinition(i, n) /\ SysvChain(i) % LowByte # 0
    <3>1. i \in Indices /\ i \in Nat
      BY <2>4, <1>2 DEF Indices
    <3>2. PICK c : c = SysvChain(i)
      OBVIOUS
    <3>3. c # 0
      BY <3>2, <2>4, <1>3
    <3>4. /\ c \in 0 .. k /\ c < i /\ c \in SysvMates(i) /\ c \in Indices /\ SysvMates(c) = SysvMates(i)
          /\ \A j \in SysvMates(i) : j < i => j <= c
      BY <3>1, <3>2, <3>3, <1>2, ChainGoesBack
    <3>5. SysvMates(i) \subseteq Nat /\ Indices \subseteq Nat
      BY DEF SysvMates, SysvMembers, Indices
    <3>6. ASSUME NEW d \in Reached(n, i) PROVE d \in Reached(n, c)
      <4>1. d # i /\ d <= i /\ d \in Nat /\ d \in SysvMates(i) /\ d \in Indices /\ IsDefinition(d, n)
        BY <2>4, <3>5 DEF Reached
      <4>2. d <= c
        BY <4>1, <3>1, <3>4
      <4>3. ASSUME NEW m \in SysvMates(c), d < m, m <= c PROVE SysvChain(m) % LowByte # 0
        <5>1. m \in SysvMates(i) /\ m \in Nat
          BY <3>4, <3>5
        <5>2. m <= i
          BY <5>1, <4>3, <3>1, <3>4
        <5> QED
          BY <5>1, <5>2, <4>3 DEF Reached
      <4> QED
        BY <4>1, <4>2, <4>3, <3>4 DEF Reached
    <3>7. ASSUME NEW d \in Reached(n, c) PROVE d \in Reached(n, i)
      <4>1. d <= c /\ d \in Nat /\ d \in SysvMates(i) /\ d \in Indices /\ IsDefinition(d, n)
        BY <3>4, <3>5 DEF Reached
      <4>2. d <= i
        BY <4>1, <3>1, <3>4
      <4>3. ASSUME NEW m \in SysvMates(i), d < m, m <= i PROVE SysvChain(m) % LowByte # 0
        <5>1. CASE m = i
          BY <5>1, <2>4
        <5>2. CASE m # i
          <6>1. m <= c
            BY <5>2, <4>3, <3>1, <3>4, <3>5
          <6> QED
            BY <6>1, <4>3, <3>4 DEF Reached
        <5> QED
          BY <5>1, <5>2
      <4> QED
        BY <4>1, <4>2, <4>3 DEF Reached
    <3>8. Reached(n, c) = Reached(n, i)
      BY <3>6, <3>7
    <3>9. h[c] = h[i]
      BY <3>3, <3>4, <3>8, <2>4, <1>1, <1>2
    <3> QED
      BY <3>2, <3>9, <2>4
  <2> QED
    BY <2>1, <2>2, <2>3, <2>4
<1>5. h = [i \in 0 .. Len(Symbols) |-> h[i]]
  BY <1>1
<1>6. h = [i \in 0 .. Len(Symbols) |->
            IF i = 0 THEN None
            ELSE IF IsDefinition(i, n) THEN i
            ELSE IF SysvChain(i) % LowByte = 0 THEN None
            ELSE h[SysvChain(i)]]
  BY <1>4, <1>5
<1> QED
  BY <1>6 DEF WalkIs

LEMMA SysvSearch ==
    ASSUME Tables, NEW n \in Names
    PROVE  \E f : /\ FindSymbolSysv(n) = f[SysvBucket(SysvHash[n] % library.buckets)]
                  /\ \A i \in 0 .. Len(Symbols) :
                        f[i] = IF i = 0 THEN None
                               ELSE IF IsDefinition(i, n) THEN i
                               ELSE IF SysvChain(i) % LowByte = 0 THEN None
                               ELSE f[SysvChain(i)]
<1>1. PICK f : f = CHOOSE g : WalkIs(g, n)
  OBVIOUS
<1>2. WalkIs(f, n)
  BY <1>1, WalkExists
<1>3. FindSymbolSysv(n) = f[SysvBucket(SysvHash[n] % library.buckets)]
  BY <1>1 DEF FindSymbolSysv, WalkIs
<1>4. f = [i \in 0 .. Len(Symbols) |->
            IF i = 0 THEN None
            ELSE IF IsDefinition(i, n) THEN i
            ELSE IF SysvChain(i) % LowByte = 0 THEN None
            ELSE f[SysvChain(i)]]
  BY <1>2 DEF WalkIs
<1>5. PICK g : g = [i \in 0 .. Len(Symbols) |->
            IF i = 0 THEN None
            ELSE IF IsDefinition(i, n) THEN i
            ELSE IF SysvChain(i) % LowByte = 0 THEN None
            ELSE f[SysvChain(i)]]
  OBVIOUS
<1>6. f = g
  BY <1>4, <1>5
<1>7. \A i \in 0 .. Len(Symbols) :
        g[i] = IF i = 0 THEN None
               ELSE IF IsDefinition(i, n) THEN i
               ELSE IF SysvChain(i) % LowByte = 0 THEN None
               ELSE f[SysvChain(i)]
  BY <1>5
<1> QED
  BY <1>3, <1>6, <1>7

\* Where the search of a bucket begins.
LEMMA SysvBucketIs ==
    ASSUME Tables, NEW b
    PROVE  /\ SysvBucket(b) \in 0 .. Len(Symbols) /\ \A i \in SysvMembers(b) : i <= SysvBucket(b)
           /\ SysvBucket(b) # 0 => SysvBucket(b) \in SysvMembers(b)
<1>1. PICK k \in Nat : k = Len(Symbols)
  BY DEF Tables
<1>2. PICK all : all = SysvMembers(b) \cup {0}
  OBVIOUS
<1>3. all \in SUBSET (0 .. k) /\ all # {}
  BY <1>1, <1>2 DEF SysvMembers, Indices
<1>4. SysvBucket(b) = Max(all)
  BY <1>2 DEF SysvBucket
<1>5. SysvBucket(b) \in all /\ \A i \in all : i <= SysvBucket(b)
  BY <1>1, <1>3, <1>4, MaxIsGreatest
<1> QED
  BY <1>1, <1>2, <1>3, <1>5

LEMMA SysvFindsOnlyDefinitions ==
    ASSUME Tables, NEW n \in Names, FindSymbolSysv(n) # None
    PROVE  FindSymbolSysv(n) \in Indices /\ IsDefinition(FindSymbolSysv(n), n)
<1>1. PICK k \in Nat : k = Len(Symbols) /\ Indices = 1 .. k
  BY DEF Tables, Indices
<1>2. PICK f : /\ FindSymbolSysv(n) = f[SysvBucket(SysvHash[n] % library.buckets)]
               /\ \A i \in 0 .. k : f[i] = IF i = 0 THEN None
                                           ELSE IF IsDefinition(i, n) THEN i
                                           ELSE IF SysvChain(i) % LowByte = 0 THEN None
                                           ELSE f[SysvChain(i)]
  BY <1>1, SysvSearch
<1> DEFINE Bad == {i \in 0 .. k : f[i] # None /\ ~(f[i] \in Indices /\ IsDefinition(f[i], n))}
<1>3. Bad = {}
  <2> SUFFICES ASSUME Bad # {} PROVE FALSE
    OBVIOUS
  <2>1. PICK i \in Bad : \A j \in Bad : i <= j
    <3>1. Bad \in SUBSET Nat
      OBVIOUS
    <3> HIDE DEF Bad
    <3> QED BY <3>1, LeastNat
  <2>2. i \in 0 .. k /\ f[i] # None /\ ~(f[i] \in Indices /\ IsDefinition(f[i], n))
    OBVIOUS
  <2>3. i \in Indices /\ i \in Nat /\ ~IsDefinition(i, n) /\ f[i] = f[SysvChain(i)]
    BY <2>2, <1>1, <1>2
  <2>4. PICK c \in 0 .. k : c = SysvChain(i) /\ c < i
    BY <2>3, <1>1, ChainGoesBack
  <2>5. c \in Bad
    BY <2>2, <2>3, <2>4
  <2>6. i <= c
    BY <2>1, <2>5
  <2> QED
    BY <2>3, <2>4, <2>6
<1>4. SysvBucket(SysvHash[n] % library.buckets) \in 0 .. k
  BY <1>1, SysvBucketIs
<1> QED
  BY <1>2, <1>3, <1>4

LEMMA SysvFindsDefinitions ==
    ASSUME Tables, NEW n \in Names, NEW d \in Indices, IsDefinition(d, n),
           SysvHash = ElfHash, Len(Symbols) < LowByte
    PROVE  FindSymbolSysv(n) # None
<1>1. PICK k \in Nat : k = Len(Symbols) /\ Indices = 1 .. k
  BY DEF Tables, Indices
<1>2. PICK f : /\ FindSymbolSysv(n) = f[SysvBucket(SysvHash[n] % library.buckets)]
               /\ \A i \in 0 .. k : f[i] = IF i = 0 THEN None
                                           ELSE IF IsDefinition(i, n) THEN i
                                           ELSE IF SysvChain(i) % LowByte = 0 THEN None
                                           ELSE f[SysvChain(i)]
  BY <1>1, SysvSearch
<1> DEFINE Bad == {i \in SysvMates(d) : d <= i /\ f[i] = None}
<1>3. Bad = {}
  <2> SUFFICES ASSUME Bad # {} PROVE FALSE
    OBVIOUS
  <2>0. SysvMates(d) \subseteq Indices
    BY DEF SysvMates, SysvMembers
  <2>1. PICK i \in Bad : \A j \in Bad : i <= j
    <3>1. Bad \in SUBSET Nat
      BY <2>0, <1>1
    <3> HIDE DEF Bad
    <3> QED BY <3>1, LeastNat
  <2>2. i \in SysvMates(d) /\ i \in Indices /\ d <= i /\ f[i] = None
    BY <2>0
  <2>3. i \in 1 .. k /\ i \in 0 .. k /\ i # None /\ d \in 1 .. k
    BY <2>2, <1>1 DEF None
  <2>4. ~IsDefinition(i, n)
    BY <2>2, <2>3, <1>2
  <2>5. d < i
    BY <2>2, <2>3, <2>4
  <2>6. SysvMates(i) = SysvMates(d)
    BY <2>2 DEF SysvMates, SysvMembers
  <2>7. d \in SysvMates(i)
    BY <2>6, ChainGoesBack
  <2>8. PICK c \in 0 .. k : c = SysvChain(i)
    BY <2>2, <1>1, ChainGoesBack
  <2>9. c < i /\ d <= c /\ (c # 0 => c \in SysvMates(i))
    BY <2>2, <2>5, <2>7, <2>8, ChainGoesBack
  <2>10. c # 0 /\ c \in SysvMates(d)
    BY <2>3, <2>6, <2>9
  <2>11. c % LowByte # 0
    <3>1. PICK l \in Nat : l = LowByte
      BY SymbolsAssumption
    <3>2. c < l /\ c \in Nat
      BY <3>1, <1>1
    <3>3. c % l = c
      BY <3>2
    <3> QED
      BY <3>1, <3>3, <2>10
  <2>12. f[i] = f[c]
    BY <2>3, <2>4, <2>8, <2>11, <1>2
  <2>13. c \in Bad
    BY <2>2, <2>9, <2>10, <2>12
  <2>14. i <= c
    BY <2>1, <2>13
  <2> QED
    BY <2>3, <2>9, <2>14
<1>4. PICK b : b = SysvHash[n] % library.buckets
  OBVIOUS
<1>5. SysvMates(d) = SysvMembers(b) /\ d \in SysvMembers(b)
  BY <1>4 DEF SysvMates, SysvMembers, IsDefinition
<1>6. PICK s \in 0 .. k : s = SysvBucket(b)
  BY <1>1, SysvBucketIs
<1>7. d <= s /\ (s # 0 => s \in SysvMembers(b))
  BY <1>5, <1>6, SysvBucketIs
<1>8. s \in SysvMates(d)
  <2>1. d \in 1 .. k
    BY <1>1
  <2> QED
    BY <2>1, <1>5, <1>7
<1>9. f[s] # None
  BY <1>3, <1>7, <1>8
<1> QED
  BY <1>2, <1>4, <1>6, <1>9

LEMMA SymbolsEnd == SymbolsInv => FindsDefinitions
<1> SUFFICES ASSUME SymbolsInv, name # None
             PROVE  /\ FindSymbol(name) # None => FindSymbol(name) \in Definitions
                    /\ library.gnu => /\ Definitions # {} => FindSymbol(name) # None
                                      /\ Len(Symbols) < DynsymCount
                    /\ ~library.gnu /\ SysvHash = ElfHash /\ Len(Symbols) < LowByte /\ Definitions # {}
                          => FindSymbol(name) # None
  BY DEF FindsDefinitions
<1>1. Tables /\ name \in Names
  BY DEF SymbolsInv
<1>2. CASE library.gnu
  <2>1. FindSymbol(name) = FindSymbolGnu(name)
    BY <1>2 DEF FindSymbol
  <2>2. FindSymbolGnu(name) # None => FindSymbolGnu(name) \in Definitions
    BY <1>1, GnuFindsOnlyDefinitions DEF Definitions
  <2>3. Definitions # {} => FindSymbolGnu(name) # None
    BY <1>1, <1>2, GnuFindsDefinitions DEF Definitions
  <2> QED
    BY <2>1, <2>2, <2>3, <1>1, <1>2, CountCovers
<1>3. CASE ~library.gnu
  <2>1. FindSymbol(name) = FindSymbolSysv(name)
    BY <1>3 DEF FindSymbol
  <2>2. FindSymbolSysv(name) # None => FindSymbolSysv(name) \in Definitions
    BY <1>1, SysvFindsOnlyDefinitions DEF Definitions
  <2>3. SysvHash = ElfHash /\ Len(Symbols) < LowByte /\ Definitions # {} => FindSymbolSysv(name) # None
    BY <1>1, SysvFindsDefinitions DEF Definitions
  <2> QED
    BY <2>1, <2>2, <2>3, <1>3
<1> QED
  BY <1>2, <1>3

\* For any names, hashes and libraries a static linker can have made: with
\* DT_GNU_HASH a name is found exactly when the library defines it, though the
\* count of symbols is worked out from the distance of two tables; with DT_HASH
\* what is found is a definition, and none is missed if both sides hash alike and
\* no index has a zero low byte (symbol.rs, loader.rs).
THEOREM LookupsFindDefinitions == SymbolsSpec => []FindsDefinitions
<1>1. SymbolsInv /\ [SymbolsNext]_symbolVars => SymbolsInv'
  BY SymbolsKeep
<1> QED
  BY <1>1, SymbolsStart, SymbolsEnd, PTL DEF SymbolsSpec
=============================================================================
