------------------------------- MODULE JavaVm -------------------------------
(***************************************************************************)
(* crates/libjnivm-sys: the Java VM the game talks to.  There is no        *)
(* bytecode: a class is a table of natives, which the launcher fills at    *)
(* start-up and the game completes and overrides later, from any thread.   *)
(* One mutex guards all tables; GetMethodID and NewObject take it several  *)
(* times in a call.                                                        *)
(***************************************************************************)
EXTENDS Naturals, Sequences, SequencesExt

CONSTANTS
    Classes,       \* class names, numbered in lexicographic order
    ObjectClass,   \* java/lang/Object
    NativeTables,  \* what is registered in one call: functions [class, method, by]
    VmThreads,
    MaxUses        \* bound: method ids asked for and objects created

\* Class 0 is the null class.
ASSUME VmAssumption ==
    /\ Classes \subseteq Nat \ {0} /\ ObjectClass \in Classes
    /\ NativeTables \subseteq SUBSET [class : Classes, method : STRING, by : STRING]

VARIABLES
    handles,   \* class names in the order of their handles
    tables,    \* classes: class -> (name, signature) -> function
    lastGiven, \* ghost: what was last registered for each name
    ids,       \* the method ids issued, with what they were asked for
    objects,   \* the objects created
    vmCall     \* thread -> the call it is in

vmVars == <<handles, tables, lastGiven, ids, objects, vmCall>>

-----------------------------------------------------------------------------
NoTable == [m \in {} |-> 0]
NoNative == [class |-> 0, method |-> "none", by |-> "nobody"]
NoArgInit == "<init>()V"
ArgInits == {"<init>(J)V", "<init>(I)V"}
NativeFns == UNION NativeTables
Methods == {f.method : f \in NativeFns}

Out == [at |-> "game"]

\* old with the entries of new, which win.
Extended(old, new) ==
    [x \in DOMAIN old \cup DOMAIN new |-> IF x \in DOMAIN new THEN new[x] ELSE old[x]]

\* A use that is under way counts too.
MayUse(t) ==
    /\ vmCall[t].at = "game"
    /\ Len(ids) + Len(objects) + Cardinality({u \in VmThreads : vmCall[u].at = "missed"}) < MaxUses

VmInit ==
    /\ handles = << >>
    /\ tables = NoTable
    /\ lastGiven = [c \in Classes |-> NoTable]
    /\ ids = << >>
    /\ objects = << >>
    /\ vmCall = [t \in VmThreads |-> Out]

-----------------------------------------------------------------------------
(* Classes and natives *)

\* Mutant: only the newest handle is looked at.
KnownNewest(c) == {h \in DOMAIN handles : handles[h] = c /\ h = Len(handles)}
Known(c) == {h \in DOMAIN handles : handles[h] = c}

\* A new handle comes with an empty table: whatever the class had would be lost.
FindClass(c) ==
    /\ Known(c) = {}
    /\ handles' = Append(handles, c)
    /\ tables' = Extended(tables, [k \in {c} |-> NoTable])
    /\ UNCHANGED <<lastGiven, ids, objects, vmCall>>

ClassOf(o) == IF objects[o].class = 0 THEN ObjectClass ELSE objects[o].class

GetObjectClass(o) ==
    /\ Known(ClassOf(o)) = {}
    /\ handles' = Append(handles, ClassOf(o))
    /\ tables' = Extended([k \in {ClassOf(o)} |-> NoTable], tables)
    /\ UNCHANGED <<lastGiven, ids, objects, vmCall>>

\* The table of one call, by name and signature.
TableOf(fs) == [m \in {f.method : f \in fs} |-> CHOOSE f \in fs : f.method = m]
RegisterNativesOf(h, fs) ==
    LET c == handles[h]
    IN  /\ \A f \in fs : f.class = c
        /\ tables' = [tables EXCEPT ![c] = Extended(@, TableOf(fs))]
        /\ lastGiven' = [lastGiven EXCEPT ![c] = Extended(@, TableOf(fs))]
        /\ UNCHANGED <<handles, ids, objects, vmCall>>

-----------------------------------------------------------------------------
(* Method ids *)

Having(m) == {c \in DOMAIN tables : m \in DOMAIN tables[c]}

\* Mutant: the smallest class wins even when the asked one has the method.
BestSmallest(c, m) == Min(Having(m))
\* The class asked for, or else the smallest name, never the order of a HashMap.
Best(c, m) == IF c \in Having(m) THEN c ELSE Min(Having(m))

\* owned is a ghost: the class had the method when it was asked for.
MethodId(c, m, f) == [class |-> c, method |-> m, native |-> f, owned |-> c \in Having(m)]

\* The search, under the lock.  A name nobody registered leads to a token, boxed
\* and entered under the lock taken again.
GetMethodID(t, c, m) ==
    /\ MayUse(t)
    /\ IF Having(m) # {}
       THEN ids' = Append(ids, MethodId(c, m, tables[Best(c, m)][m])) /\ UNCHANGED vmCall
       ELSE /\ vmCall' = [vmCall EXCEPT ![t] = [at |-> "missed", id |-> MethodId(c, m, NoNative)]]
            /\ UNCHANGED ids
    /\ UNCHANGED <<handles, tables, lastGiven, objects>>

IssueToken(t) ==
    /\ vmCall[t].at = "missed"
    /\ ids' = Append(ids, vmCall[t].id)
    /\ vmCall' = [vmCall EXCEPT ![t] = Out]
    /\ UNCHANGED <<handles, tables, lastGiven, objects>>

\* Mutant: a token stays what it was when it was issued.
ResolvedNever(m) == NoNative
\* A token means whatever is registered under its name by now.
Resolved(m) == IF Having(m) = {} THEN NoNative ELSE tables[Min(Having(m))][m]

\* What Call<Type>Method calls; NoNative makes it answer 0 or null.
find_method(id) ==
    CASE id.native = NoNative -> Resolved(id.method)
      [] \E c \in DOMAIN tables : id.native \in Range(tables[c]) -> id.native
      [] OTHER -> NoNative

-----------------------------------------------------------------------------
(* Objects *)

\* The constructor NewObjectV and NewObjectA would run now: the one without
\* arguments, or any other one; the id that names one is not looked at.
Constructors(c) ==
    LET table == IF c \in DOMAIN tables THEN tables[c] ELSE NoTable
        others == DOMAIN table \cap ArgInits
    IN  IF NoArgInit \in DOMAIN table THEN {table[NoArgInit]}
        ELSE IF others = {} THEN {NoNative} ELSE {table[m] : m \in others}

\* Allocated and lastGiven its class; a null class (0) leaves it without one.
\* wanted is a ghost: the constructor the caller named, NoNative for NewObject.
NewObject(t, c, wanted) ==
    /\ MayUse(t)
    /\ objects' = Append(objects, [class |-> c, ran |-> NoNative, wanted |-> wanted])
    /\ vmCall' = [vmCall EXCEPT ![t] = IF wanted = NoNative THEN @
                                       ELSE [at |-> "constructing", object |-> Len(objects) + 1]]
    /\ UNCHANGED <<handles, tables, lastGiven, ids>>

\* Mutant: the search goes on to other classes, as that of GetMethodID does.
InitClassAnywhere(o) == IF Having(NoArgInit) # {} THEN Min(Having(NoArgInit)) ELSE objects[o].class
InitClass(o) == objects[o].class

invoke_init(t) ==
    /\ vmCall[t].at = "constructing"
    /\ LET o == vmCall[t].object
       IN  \E f \in Constructors(InitClass(o)) : objects' = [objects EXCEPT ![o].ran = f]
    /\ vmCall' = [vmCall EXCEPT ![t] = Out]
    /\ UNCHANGED <<handles, tables, lastGiven, ids>>

-----------------------------------------------------------------------------
(* Arguments, strings and arrays *)

\* Six integer registers are saved; an argument that found none is on the stack.
RegisterSlots == 6
\* Mutant: one register too many.
SavedToo(slot) == slot <= RegisterSlots
Saved(slot) == slot < RegisterSlots

\* va is where the reading is: the next slot, the next word on the stack, and the
\* arguments read so far, as their numbers in the caller's list; the first of
\* them is in slot first.
read_gp_arg(first, va) ==
    IF Saved(va.slot)
    THEN [va EXCEPT !.slot = @ + 1, !.read = Append(@, va.slot + 1 - first)]
    ELSE [va EXCEPT !.word = @ + 1, !.read = Append(@, va.word + 1 + RegisterSlots - first)]

read_va_list_args(first) ==
    LET a1 == read_gp_arg(first, [slot |-> first, word |-> 0, read |-> << >>])
        a2 == read_gp_arg(first, a1)
        a3 == read_gp_arg(first, a2)
    IN  read_gp_arg(first, a3).read

\* A string is its characters, each of one or two UTF-16 units.
Units(s) == FoldSeq(+, 0, s)
\* Mutant: characters are counted.
LengthInChars(s) == Len(s)
GetStringLength(s) == Units(s)
\* Start and length count characters.
GetStringRegion(s, start, len) == SubSeq(s, start + 1, Min({start + len, Len(s)}))

\* Mutant: the length is only limited by the array's.
CopiedPastEnd(size, start, len) == Min({len, size})
\* Get<Type>ArrayRegion and Set<Type>ArrayRegion: how many elements they copy.
Copied(size, start, len) == Min({len, IF size < start THEN 0 ELSE size - start})

-----------------------------------------------------------------------------
VmNext ==
    \/ \E c \in Classes : FindClass(c)
    \/ \E o \in DOMAIN objects : GetObjectClass(o)
    \/ \E h \in DOMAIN handles : \E fs \in NativeTables : RegisterNativesOf(h, fs)
    \/ \E t \in VmThreads :
          \/ IssueToken(t) \/ invoke_init(t)
          \/ \E c \in Range(handles) :
                \/ \E m \in Methods : GetMethodID(t, c, m)
                \/ \E f \in NativeFns : f.class = c /\ f.method \in ArgInits \cup {NoArgInit} /\ NewObject(t, c, f)
          \/ \E c \in Range(handles) \cup {0} : NewObject(t, c, NoNative)

VmSpec == VmInit /\ [][VmNext]_vmVars

-----------------------------------------------------------------------------
(* Properties *)

\* However classes are found, a class has one handle and one table, and nothing
\* that was registered is lost but to a later native of the same name (the
\* comment in jni_GetObjectClass: "Never clobber a registered class").
TablesKept ==
    /\ IsInjective(handles) /\ DOMAIN tables = Range(handles)
    /\ \A c \in Range(handles) : tables[c] = lastGiven[c]

\* The function behind the id gave way to another of the same name.
Replaced(id) == id.native # NoNative /\ tables[id.native.class][id.method] # id.native

\* An id calls a native of its own name, and of the class asked for when that
\* had one; a token issued in spite of a registration it raced with finds it.
IdsSound ==
    \A k \in DOMAIN ids : LET f == find_method(ids[k]) IN
       /\ f # NoNative => f.method = ids[k].method
       /\ Having(ids[k].method) # {} /\ ~Replaced(ids[k]) => f # NoNative
       /\ ids[k].owned /\ ~Replaced(ids[k]) => f.class = ids[k].class

\* No constructor of another class runs on an object, and none where none was
\* asked for.
ObjectsSound ==
    \A o \in DOMAIN objects :
       /\ objects[o].ran # NoNative =>
             objects[o].ran.class = objects[o].class /\ objects[o].wanted # NoNative

Strings == UNION {[1 .. n -> 1 .. 2] : n \in 0 .. 3}

\* The first four integer arguments arrive in order, however many registers the
\* named ones took; the region of a whole string fills a buffer of its length,
\* and a part of a string without surrogate pairs stays in one of its own; an
\* array is never copied from or to beyond its end.
DataSound ==
    /\ \A first \in 0 .. RegisterSlots : read_va_list_args(first) = <<1, 2, 3, 4>>
    /\ \A s \in Strings : Units(GetStringRegion(s, 0, GetStringLength(s))) = GetStringLength(s)
    /\ \A s \in Strings : Range(s) \subseteq {1} =>
          \A start, len \in 0 .. 4 : Units(GetStringRegion(s, start, len)) <= len
    /\ \A size, start, len \in 0 .. 4 :
          Copied(size, start, len) > 0 => start + Copied(size, start, len) <= size

\* What the game relies on when it calls Java: the tables, the ids, the objects,
\* and once there is a method to call, what is passed to it and back.
JavaSound == TablesKept /\ IdsSound /\ ObjectsSound /\ (ids # << >> => DataSound)

(* Definitions that the code violates. *)

\* An id keeps calling its method when the native is registered anew.
IdsOutliveNatives == \A k \in DOMAIN ids : Having(ids[k].method) # {} => find_method(ids[k]) # NoNative

\* An object is built by the constructor that was named.
InitAsAsked == \A o \in DOMAIN objects : objects[o].ran \in {NoNative, objects[o].wanted}

\* A part of any string fits in a buffer of as many units as were asked for.
PartsFit ==
    \A s \in Strings : \A start, len \in 0 .. 4 : Units(GetStringRegion(s, start, len)) <= len
=============================================================================
