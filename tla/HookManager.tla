---------------------------- MODULE HookManager ----------------------------
(***************************************************************************)
(* The hook manager of crates/corelib/src/hook_manager.rs.                 *)
(*                                                                         *)
(* A mod hooks a symbol that a library exports: every hook of a symbol is  *)
(* a member of a doubly linked chain, oldest first.  Applying the hooks    *)
(* writes the newest one into the library's own GOT slots for the symbol;  *)
(* each hook is given, through its orig pointer, whatever lies below it.   *)
(*                                                                         *)
(* All operations run under one mutex, so each is one step.  Hooks are     *)
(* numbered in the order they are created.  A GOT has one slot per symbol    *)
(* here: two relocations against one symbol hold the same address.  A      *)
(* HookedSymbol is named by its library and symbol, which the code's arena *)
(* index is in bijection with, because neither is ever removed.            *)
(***************************************************************************)
EXTENDS Naturals, FiniteSets

CONSTANTS
    Handles,     \* handles of the linker
    Syms,        \* symbol names
    Exports,     \* [Handles -> SUBSET Syms], what find_symbol_index finds
    Relocs,      \* [Handles -> SUBSET Syms], symbols a GOT slot refers to
    Needs,       \* [Handles -> SUBSET Handles], DT_NEEDED
    Removable,   \* libraries mods remove again
    ModHooked,   \* <<library, symbol>> given to mcpelauncher_hook
    MaxHooks     \* bound: hooks ever created

ASSUME HookAssumption ==
    /\ Exports \in [Handles -> SUBSET Syms]
    /\ Relocs \in [Handles -> SUBSET Syms]
    /\ Needs \in [Handles -> SUBSET Handles]
    /\ Removable \subseteq Handles /\ ModHooked \subseteq Handles \X Syms
    /\ MaxHooks \in Nat

Hooks == 1 .. MaxHooks
NoHook == 0                   \* no hook
Keys == Handles \X Syms
NoKey == <<>>

(* Addresses: null, the replacement of a hook, and what the linker wrote   *)
(* into a slot.                                                            *)
NullAddr == <<>>
At(h) == <<h>>
Pristine(l, s) == <<l, s>>
Values == {NullAddr} \cup {At(h) : h \in Hooks} \cup Keys

VARIABLES
    loaded,    \* handles the linker has registered
    libs,      \* handles with a LibInfo
    deps,      \* LibInfo.dependencies (and, read backwards, dependents)
    hookTables,\* LibInfo.hooked_symbols
    arena,     \* hooked symbols: key -> [original, first, last]
    made,      \* hooks created so far
    hook,      \* live HookInstances: [key, parent, child, slot]
    orig,      \* the variables orig pointers lead to, by hook
    got,       \* GOT slots
    fault,     \* a null pointer was written through
    modAsked   \* history: keys given to mcpelauncher_hook

hookVars == <<loaded, libs, deps, hookTables, arena, made, hook, orig, got,
              fault, modAsked>>

HookRec == [key : Keys, parent : Hooks \cup {NoHook},
            child : Hooks \cup {NoHook},
            slot : BOOLEAN]
SymbolRec == [original : Values, first : DOMAIN hook \cup {NoHook},
              last : DOMAIN hook \cup {NoHook}]

HookTypes ==
    /\ loaded \subseteq Handles /\ libs \subseteq Handles
    /\ deps \in [Handles -> SUBSET Handles]
    /\ hookTables \in [Handles -> [Syms -> Keys \cup {NoKey}]]
    /\ DOMAIN arena \subseteq Keys /\ arena \in [DOMAIN arena -> SymbolRec]
    /\ made \in 0 .. MaxHooks
    /\ DOMAIN hook \subseteq 1 .. made /\ hook \in [DOMAIN hook -> HookRec]
    /\ orig \in [Hooks -> Values]
    /\ got \in [Handles -> [Syms -> Values]]
    /\ fault \in BOOLEAN
    /\ modAsked \subseteq ModHooked

HookInit ==
    /\ loaded = {} /\ libs = {}
    /\ deps = [l \in Handles |-> {}]
    /\ hookTables = [l \in Handles |-> [s \in Syms |-> NoKey]]
    /\ arena = [k \in {} |-> [original |-> NullAddr, first |-> NoHook, last |-> NoHook]]
    /\ made = 0
    /\ hook = [h \in {} |-> [key |-> NoKey, parent |-> NoHook, child |-> NoHook,
                             slot |-> FALSE]]
    /\ orig = [h \in Hooks |-> NullAddr]
    /\ got = [l \in Handles |-> [s \in Syms |-> Pristine(l, s)]]
    /\ fault = FALSE
    /\ modAsked = {}

-----------------------------------------------------------------------------
(* The linker loads and unloads; an unloaded image stays mapped.           *)

LinkerLoads(l) ==
    /\ l \notin loaded
    /\ loaded' = loaded \cup {l}
    /\ UNCHANGED <<libs, deps, hookTables, arena, made, hook, orig, got, fault, modAsked>>

LinkerUnloads(l) ==
    /\ l \in loaded /\ l \in Removable
    /\ loaded' = loaded \ {l}
    /\ UNCHANGED <<libs, deps, hookTables, arena, made, hook, orig, got, fault, modAsked>>

-----------------------------------------------------------------------------
(* linker_rust_find_symbol_index_by_name: defined symbols of a registered  *)
(* library only.                                                           *)
Found(l, s) == l \in loaded /\ s \in Exports[l]

(* add_library: a library without a base is not registered; dependencies   *)
(* the linker does not know yet are left out.                              *)
HookLibrary(l) ==
    /\ l \in loaded /\ l \notin libs
    /\ libs' = libs \cup {l}
    /\ deps' = [deps EXCEPT ![l] = Needs[l] \cap loaded]
    /\ hookTables' = [hookTables EXCEPT ![l] = [s \in Syms |-> NoKey]]
    /\ UNCHANGED <<loaded, arena, made, hook, orig, got, fault, modAsked>>

UnhookLibrary(l) ==
    /\ l \in libs /\ l \in Removable
    /\ libs' = libs \ {l}
    /\ deps' = [deps EXCEPT ![l] = {}]
    /\ hookTables' = [hookTables EXCEPT ![l] = [s \in Syms |-> NoKey]]
    /\ UNCHANGED <<loaded, arena, made, hook, orig, got, fault, modAsked>>

(* The tables of the library and of its dependents that define the symbol  *)
(* too, when the symbol is hooked for the first time.                      *)
SetHook(l, s) ==
    [d \in Handles |->
        IF d = l \/ (d \in libs /\ l \in deps[d] /\ Found(d, s))
        THEN [hookTables[d] EXCEPT ![s] = <<l, s>>]
        ELSE hookTables[d]]

HookedSymbol(l, s) ==
    IF <<l, s>> \in DOMAIN arena
    THEN arena[<<l, s>>]
    ELSE [original |-> NullAddr, first |-> NoHook, last |-> NoHook]

(* Mutant: the parent is taken from the wrong end. *)
BelowFirst(sym) == sym.first

(* Below(sym): what the first orig of a hook of this symbol is set to when *)
(* the hook is created; NoHook means the variable is left alone.             *)
Below(sym) == IF sym.first = NoHook THEN NoHook ELSE sym.last

(* create_hook: append to the chain.  The first hook gets no orig here.    *)
CreateHook(l, s, slot) ==
    LET sym == HookedSymbol(l, s)
        h == made + 1
        parent == Below(sym)
        rec == [key |-> <<l, s>>, parent |-> parent, child |-> NoHook,
                slot |-> slot]
        grown == [sym EXCEPT !.first = IF @ = NoHook THEN h ELSE @, !.last = h]
    IN  /\ made < MaxHooks
        /\ l \in libs /\ Found(l, s)
        /\ made' = h
        /\ hookTables' = IF <<l, s>> \in DOMAIN arena THEN hookTables ELSE SetHook(l, s)
        /\ arena' = [k \in DOMAIN arena \cup {<<l, s>>} |->
                        IF k = <<l, s>> THEN grown ELSE arena[k]]
        /\ hook' = [g \in DOMAIN hook \cup {h} |->
                        IF g = h THEN rec
                        ELSE IF g = parent THEN [hook[g] EXCEPT !.child = h]
                        ELSE hook[g]]
        /\ orig' = IF slot /\ parent # NoHook
                   THEN [orig EXCEPT ![h] = At(parent)] ELSE orig
        /\ UNCHANGED <<loaded, libs, deps, got, fault, modAsked>>

(* Mutant: the child keeps calling the deleted hook. *)
NewOrigKept(h) == At(h)

(* delete_hook: what the child's orig is set to.                           *)
NewOrig(h) ==
    IF hook[h].parent # NoHook THEN At(hook[h].parent)
    ELSE arena[hook[h].key].original

(* The code checks for a null orig only where the hook has no parent.      *)
WritesNull(h) ==
    /\ hook[h].child # NoHook /\ hook[h].parent # NoHook
    /\ ~hook[hook[h].child].slot

Unlinked(h) ==
    LET p == hook[h].parent
        c == hook[h].child
    IN  [g \in DOMAIN hook \ {h} |->
            IF g = c THEN [hook[g] EXCEPT !.parent = p]
            ELSE IF g = p THEN [hook[g] EXCEPT !.child = c]
            ELSE hook[g]]

(* Mutant: last_hook is not corrected. *)
EndsLastKept(sym, h) ==
    [sym EXCEPT !.first = IF @ = h THEN hook[h].child ELSE @]

(* The ends of the chain after h left it.                                  *)
Ends(sym, h) ==
    [sym EXCEPT !.first = IF @ = h THEN hook[h].child ELSE @,
                !.last = IF @ = h THEN hook[h].parent ELSE @]

DeleteHook(h) ==
    /\ h \in DOMAIN hook /\ ~WritesNull(h)
    /\ hook' = Unlinked(h)
    /\ orig' = IF hook[h].child # NoHook /\ hook[hook[h].child].slot
               THEN [orig EXCEPT ![hook[h].child] = NewOrig(h)] ELSE orig
    /\ arena' = [arena EXCEPT ![hook[h].key] = Ends(@, h)]
    /\ UNCHANGED <<loaded, libs, deps, hookTables, made, got, fault, modAsked>>

DeleteCrashes(h) ==
    /\ h \in DOMAIN hook /\ WritesNull(h)
    /\ fault' = TRUE
    /\ UNCHANGED <<loaded, libs, deps, hookTables, arena, made, hook, orig, got, modAsked>>

-----------------------------------------------------------------------------
(* apply_hooks: every slot of a registered library whose table entry is    *)
(* the library's own symbol.                                               *)

Patched(l, s) ==
    /\ l \in libs /\ s \in Relocs[l]
    /\ hookTables[l][s] = <<l, s>>
    /\ \/ arena[<<l, s>>].last # NoHook
       \/ arena[<<l, s>>].original # NullAddr

(* Mutant: the oldest hook wins. *)
ReplacementFirst(sym) == IF sym.last # NoHook THEN At(sym.first) ELSE sym.original

Replacement(sym) == IF sym.last # NoHook THEN At(sym.last) ELSE sym.original

(* Mutant: the original is read again at every application. *)
CapturesAlways(k) == Patched(k[1], k[2])

(* The prior content is kept as the original the first time a slot is      *)
(* patched, and given to the oldest hook.                                  *)
Captures(k) == Patched(k[1], k[2]) /\ arena[k].original = NullAddr

Apply ==
    /\ got' = [l \in Handles |-> [s \in Syms |->
                 IF Patched(l, s) THEN Replacement(arena[<<l, s>>])
                 ELSE got[l][s]]]
    /\ arena' = [k \in DOMAIN arena |->
                   IF Captures(k)
                   THEN [arena[k] EXCEPT !.original = got[k[1]][k[2]]]
                   ELSE arena[k]]
    /\ orig' = [h \in Hooks |->
                  IF /\ h \in DOMAIN hook /\ hook[h].slot
                     /\ Captures(hook[h].key)
                     /\ arena[hook[h].key].first = h
                  THEN got[hook[h].key[1]][hook[h].key[2]]
                  ELSE orig[h]]
    /\ UNCHANGED <<loaded, libs, deps, hookTables, made, hook, fault>>

ApplyHooks == Apply /\ UNCHANGED modAsked

(* mcpelauncher_hook: the linker's dladdr never names a symbol, so no hook *)
(* is created; the hooks are applied all the same.                         *)
ModHook(l, s) ==
    /\ <<l, s>> \in ModHooked /\ Found(l, s) /\ l \in libs
    /\ modAsked' = modAsked \cup {<<l, s>>}
    /\ Apply

HookNext ==
    /\ ~fault
    /\ \/ \E l \in Handles : LinkerLoads(l) \/ LinkerUnloads(l)
       \/ \E l \in Handles : HookLibrary(l) \/ UnhookLibrary(l)
       \/ \E l \in Handles, s \in Syms, slot \in BOOLEAN : CreateHook(l, s, slot)
       \/ \E h \in Hooks : DeleteHook(h) \/ DeleteCrashes(h)
       \/ ApplyHooks
       \/ \E l \in Handles, s \in Syms : ModHook(l, s)

HookSpec == HookInit /\ [][HookNext]_hookVars

-----------------------------------------------------------------------------
(* Properties                                                              *)

Live(l, s) == {h \in DOMAIN hook : hook[h].key = <<l, s>>}

(* The chain of every symbol is a doubly linked list of live hooks of that *)
(* symbol, oldest first, whose ends are first_hook and last_hook, under    *)
(* any order of create and delete (create_hook_by_index, delete_hook).     *)
ChainWellFormed ==
    /\ \A h \in DOMAIN hook :
         LET p == hook[h].parent
             c == hook[h].child
             k == hook[h].key
         IN  /\ k \in DOMAIN arena
             /\ p # NoHook => /\ p \in DOMAIN hook /\ p < h
                            /\ hook[p].child = h /\ hook[p].key = k
             /\ c # NoHook => /\ c \in DOMAIN hook /\ h < c
                            /\ hook[c].parent = h /\ hook[c].key = k
             /\ (p = NoHook) <=> (arena[k].first = h)
             /\ (c = NoHook) <=> (arena[k].last = h)
    /\ \A k \in DOMAIN arena :
         /\ (arena[k].first = NoHook) <=> (arena[k].last = NoHook)
         /\ \A e \in {arena[k].first, arena[k].last} \ {NoHook} :
               e \in DOMAIN hook /\ hook[e].key = k

(* What a live hook calls through its orig is never a hook that was        *)
(* deleted, whatever was deleted below it (delete_hook's rewrite of the    *)
(* child's orig).                                                          *)
OrigNeverDead ==
    \A h \in DOMAIN hook :
        hook[h].slot =>
            \A g \in Hooks : orig[h] = At(g) => g \in DOMAIN hook

(* A captured original is what the linker wrote, never another hook: no    *)
(* hook is called for ever once all are deleted (apply_relocs).            *)
OriginalPristine ==
    \A k \in DOMAIN arena :
        arena[k].original \in {NullAddr, Pristine(k[1], k[2])}

(* Once the hooks are applied, the slot of a hooked symbol leads to the    *)
(* newest live hook, or back to the linker's address when none is left.    *)
AppliedSlots ==
    [][Apply =>
        \A l \in libs : \A s \in Relocs[l] :
            (<<l, s>> \in DOMAIN arena /\ hookTables[l][s] = <<l, s>>) =>
                got'[l][s] =
                    IF Live(l, s) = {} THEN Pristine(l, s)
                    ELSE At(CHOOSE h \in Live(l, s) :
                               \A g \in Live(l, s) : g <= h)]_hookVars

(* Together: whatever is created, deleted, applied, removed and added      *)
(* again, the chain, the orig pointers, the originals and the slots stay   *)
(* sound.                                                                  *)
HooksSound ==
    [](ChainWellFormed /\ OrigNeverDead /\ OriginalPristine) /\ AppliedSlots

(* The manager-wide map and each library's quick map name the same hooked  *)
(* symbol (HookedSymbol, "referenced by both").                            *)
QuickMapAgrees ==
    \A k \in DOMAIN arena : k[1] \in libs => hookTables[k[1]][k[2]] = k

(* Once the hooks are applied, a dependent's slot for a hooked symbol      *)
(* leads to a hook ("Propagate to every dependent LibInfo").               *)
DependentsHooked ==
    [][Apply =>
        \A d \in libs : \A l \in deps[d] : \A s \in Relocs[d] :
            (l \in libs /\ Live(l, s) # {})
                => got'[d][s] # Pristine(d, s)]_hookVars

(* Once the hooks are applied every hook that modAsked for it knows what lies *)
(* below it ("orig out-ptr filled on first patch").                        *)
OrigFilled ==
    [][Apply =>
        \A h \in DOMAIN hook :
            (hook[h].slot /\ Patched(hook[h].key[1], hook[h].key[2]))
                => orig'[h] # NullAddr]_hookVars

(* The manager never writes through a null pointer: its raw pointers lead  *)
(* into memory that outlives it (the SAFETY note of HookManager).          *)
NoNullWrite == ~fault

(* A symbol given to mcpelauncher_hook, of a library the manager knows, is *)
(* hooked ("hook it").                                                     *)
ModHookHooks == modAsked \subseteq DOMAIN arena
=============================================================================
