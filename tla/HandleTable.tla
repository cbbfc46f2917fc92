---------------------------- MODULE HandleTable ----------------------------
(***************************************************************************)
(* What the linker's clients rely on, without threads, locks or ELF files: *)
(* a table of reference-counted handles.  A load yields a handle that was  *)
(* never issued before; loading again and closing change its count by one; *)
(* the close of the last reference retires the handle for good.            *)
(* Implemented by Linker (see TableSpec there).                            *)
(***************************************************************************)
EXTENDS Integers

VARIABLES
    refs,    \* handle -> number of references, for the handles that are valid
    issued   \* every handle that was ever valid

tableVars == <<refs, issued>>

TableInit == DOMAIN refs = {} /\ issued = {}

\* A library is registered under a new handle.
Issue(h) ==
    /\ h \notin issued
    /\ issued' = issued \cup {h}
    /\ refs' = [k \in DOMAIN refs \cup {h} |-> IF k = h THEN 1 ELSE refs[k]]

\* A library that is already loaded is loaded again.
Retain(h) ==
    /\ h \in DOMAIN refs
    /\ refs' = [refs EXCEPT ![h] = @ + 1]
    /\ UNCHANGED issued

\* One of several references is closed.
Release(h) ==
    /\ h \in DOMAIN refs /\ refs[h] > 1
    /\ refs' = [refs EXCEPT ![h] = @ - 1]
    /\ UNCHANGED issued

\* The last reference is closed.
Retire(h) ==
    /\ h \in DOMAIN refs /\ refs[h] = 1
    /\ refs' = [k \in DOMAIN refs \ {h} |-> refs[k]]
    /\ UNCHANGED issued

TableNext ==
    \/ \E h \in issued' \ issued : Issue(h)
    \/ \E h \in DOMAIN refs : Retain(h) \/ Release(h) \/ Retire(h)

TableSpec == TableInit /\ [][TableNext]_tableVars
=============================================================================
