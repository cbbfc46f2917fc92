---------------------------- MODULE TlsModules -----------------------------
(***************************************************************************)
(* The table of thread-local segments, tls.rs: a library that has one gets *)
(* the first free slot and a generation; relocations look ids up by base.  *)
(* The generation is advanced before the table's mutex is taken, so two    *)
(* threads may write the table in the other order.                         *)
(***************************************************************************)
EXTENDS Integers, Sequences, FiniteSets, FiniteSetsExt, SequencesExt

CONSTANTS TlsThreads, TlsBases,   \* load addresses, one per library
          MaxGeneration           \* bound on registrations

\* A library that is loaded is not at address 0, which marks a free slot.
ASSUME TlsAssumption == 0 \notin TlsBases

VARIABLES modules,      \* the table: [base, generation] of each slot
          generation,   \* NEXT_GENERATION
          moduleId,     \* tls_module_id of the soinfo at each base
          registering   \* per thread: [base, generation] between counter and mutex

tlsVars == <<modules, generation, moduleId, registering>>

NoBase == 0
NoModule == 0                                  \* TLS_UNINITIALIZED_MODULE_ID
FreeSlot == [base |-> NoBase, generation |-> 0]
NotRegistering == FreeSlot

\* get_tls_module: only a slot in use is a module.
GetTlsModule(id) ==
    IF id \in 1 .. Len(modules) /\ modules[id].base # NoBase THEN modules[id] ELSE FreeSlot

\* find_tls_module_id of relocate.rs.
FindTlsModuleId(b) == Min({i \in 1 .. Len(modules) : modules[i].base = b} \cup {Len(modules) + 1})
                         % (Len(modules) + 1)

TlsInit ==
    /\ modules = <<>> /\ generation = 1
    /\ moduleId = [b \in TlsBases |-> NoModule]
    /\ registering = [t \in TlsThreads |-> NotRegistering]

\* register_soinfo_tls up to the counter; one thread has the soinfo.
AdvanceGeneration(t, b) ==
    /\ registering[t] = NotRegistering /\ generation < MaxGeneration
    /\ moduleId[b] = NoModule
    /\ \A u \in TlsThreads : registering[u].base # b
    /\ generation' = generation + 1
    /\ registering' = [registering EXCEPT ![t] = [base |-> b, generation |-> generation + 1]]
    /\ UNCHANGED <<modules, moduleId>>

\* Mutant: the scan for a free slot stops one short and takes the last slot.
LastSlotOnly == IF modules = <<>> THEN 1 ELSE Len(modules)
SlotFor == Min({i \in 1 .. Len(modules) : modules[i].base = NoBase} \cup {Len(modules) + 1})

RegisterTlsModule(t) ==
    LET r == registering[t]  slot == SlotFor IN
    /\ r # NotRegistering
    /\ modules' = IF slot > Len(modules) THEN Append(modules, r) ELSE [modules EXCEPT ![slot] = r]
    /\ moduleId' = [moduleId EXCEPT ![r.base] = slot]
    /\ registering' = [registering EXCEPT ![t] = NotRegistering]
    /\ UNCHANGED generation

\* unregister_soinfo_tls frees the first slot of the base.
UnregisterTlsModule(b) ==
    /\ moduleId[b] # NoModule
    /\ modules' = [modules EXCEPT ![FindTlsModuleId(b)] = FreeSlot]
    /\ moduleId' = [moduleId EXCEPT ![b] = NoModule]
    /\ UNCHANGED <<generation, registering>>

TlsNext ==
    \/ \E t \in TlsThreads, b \in TlsBases : AdvanceGeneration(t, b)
    \/ \E t \in TlsThreads : RegisterTlsModule(t)
    \/ \E b \in TlsBases : UnregisterTlsModule(b)

TlsSpec == TlsInit /\ [][TlsNext]_tlsVars

-----------------------------------------------------------------------------
\* Libraries have modules of their own for as long as they are registered: the
\* id of a soinfo names the slot with its base, the lookup by base finds that
\* id, a slot nobody owns is free, and no generation was handed out twice.
ModulesOwned ==
    /\ \A b \in TlsBases : moduleId[b] # NoModule =>
          /\ GetTlsModule(moduleId[b]).base = b
          /\ FindTlsModuleId(b) = moduleId[b]
    /\ \A i \in 1 .. Len(modules) :
          modules[i].base # NoBase => moduleId[modules[i].base] = i
    /\ \A i, j \in 1 .. Len(modules) :
          modules[i] # FreeSlot /\ modules[i].generation = modules[j].generation => i = j

-----------------------------------------------------------------------------
(***************************************************************************)
(* LinkerBlockAllocator of block_allocator.rs: blocks of one size cut from *)
(* mapped pages.  The free list lives in the blocks themselves: the first  *)
(* block of a free run holds the run's length and the next run.            *)
(***************************************************************************)
CONSTANTS BlocksPerPage, MaxPages

\* A page has room for a block.
ASSUME BlockAssumption == BlocksPerPage \in Nat \ {0} /\ MaxPages \in Nat

VARIABLES pages,       \* page_list, newest first
          mapped,      \* number of pages mapped so far: addresses are not reused
          freeList,    \* free_block_list
          info,        \* FreeBlockInfo at the head of each run; zero in other blocks
          allocated,   \* the counter
          given        \* the blocks callers hold

blockVars == <<pages, mapped, freeList, info, allocated, given>>

NullBlock == <<0, 0>>
Zeroed == [next |-> NullBlock, count |-> 0]
PageIds == 1 .. MaxPages
Blocks == PageIds \X (0 .. BlocksPerPage - 1)
BlocksOf(p) == {p} \X (0 .. BlocksPerPage - 1)
After(b) == <<b[1], b[2] + 1>>

AllocatorInit ==
    /\ pages = <<>> /\ mapped = 0 /\ freeList = NullBlock
    /\ info = [b \in Blocks |-> Zeroed]
    /\ allocated = 0 /\ given = {}

\* The free list, the page list and the memory after create_new_page.
FirstOfNewPage == <<mapped + 1, 0>>
WithNewPage ==
    [info EXCEPT ![FirstOfNewPage] = [next |-> freeList, count |-> BlocksPerPage]]

\* Taking the head of a list: the rest of its run becomes the head.
\* Mutant: the rest of the run keeps the whole run's length.
RestSameLength(head, memory) ==
    IF memory[head].count > 1
    THEN [memory EXCEPT ![After(head)] = memory[head], ![head] = Zeroed]
    ELSE [memory EXCEPT ![head] = Zeroed]
Rest(head, memory) ==
    IF memory[head].count > 1
    THEN [memory EXCEPT ![After(head)] = [memory[head] EXCEPT !.count = @ - 1], ![head] = Zeroed]
    ELSE [memory EXCEPT ![head] = Zeroed]

Give(head, memory) ==
    /\ info' = Rest(head, memory)
    /\ freeList' = IF memory[head].count > 1 THEN After(head) ELSE memory[head].next
    /\ given' = given \cup {head}
    /\ allocated' = allocated + 1

Alloc ==
    \/ /\ freeList # NullBlock
       /\ Give(freeList, info)
       /\ UNCHANGED <<pages, mapped>>
    \/ /\ freeList = NullBlock /\ mapped < MaxPages
       /\ Give(FirstOfNewPage, WithNewPage)
       /\ pages' = <<mapped + 1>> \o pages /\ mapped' = mapped + 1

\* A block is a run of one when it comes back; find_page and the alignment
\* test pass for every block the allocator gave.
FreeBlock ==
    \E b \in given :
       /\ b[1] \in ToSet(pages)
       /\ info' = [info EXCEPT ![b] = [next |-> freeList, count |-> 1]]
       /\ freeList' = b
       /\ given' = given \ {b} /\ allocated' = allocated - 1
       /\ UNCHANGED <<pages, mapped>>

\* purge unmaps everything, but only when nothing is allocated.
Purge ==
    /\ allocated = 0 /\ pages # <<>>
    /\ info' = [b \in Blocks |-> Zeroed]
    /\ pages' = <<>> /\ freeList' = NullBlock
    /\ UNCHANGED <<mapped, allocated, given>>

AllocatorNext == Alloc \/ FreeBlock \/ Purge

AllocatorSpec == AllocatorInit /\ [][AllocatorNext]_blockVars

-----------------------------------------------------------------------------
\* The runs of the free list, followed at most once per block.
FreeRuns ==
    LET walk[n \in 0 .. Cardinality(Blocks)] ==
            IF n = 0 THEN <<freeList>>
            ELSE LET before == walk[n - 1] IN
                 IF Last(before) = NullBlock THEN before ELSE Append(before, info[Last(before)].next)
    IN  Front(walk[Cardinality(Blocks)])
RunBlocks(b) == {<<b[1], b[2] + k>> : k \in 0 .. info[b].count - 1}

\* Every mapped block is either with a caller or in exactly one run of the
\* free list, no block lies outside its page or in an unmapped one, and the
\* counter that lets purge unmap everything is the number of blocks out.
BlocksAccounted ==
    /\ allocated = Cardinality(given)
    /\ given \cup UNION {RunBlocks(FreeRuns[i]) : i \in 1 .. Len(FreeRuns)}
         = UNION {BlocksOf(p) : p \in ToSet(pages)}
    /\ \A i, j \in 1 .. Len(FreeRuns) :
          i # j => RunBlocks(FreeRuns[i]) \cap RunBlocks(FreeRuns[j]) = {}
    /\ \A i \in 1 .. Len(FreeRuns) : RunBlocks(FreeRuns[i]) \cap given = {}

-----------------------------------------------------------------------------
(* Static TLS: no module slot has two owners, and every block of the       *)
(* allocator is in use or free, never both (tls.rs, block_allocator.rs).   *)
TlsSound == ModulesOwned /\ BlocksAccounted
=============================================================================
