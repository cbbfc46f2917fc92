-------------------------------- MODULE Rpc --------------------------------
(***************************************************************************)
(* What crates/simple-ipc promises a caller: every call it makes ends at   *)
(* most once; with an answer only when the service gave that answer to     *)
(* that very call, and otherwise with a failure of the connection.         *)
(***************************************************************************)
CONSTANTS Ids, Answers, Failures

VARIABLES
    asked,     \* calls made
    served,    \* call -> the answer the service computed, or "none"
    outcome    \* call -> what the caller got, or "none"

rpcVars == <<asked, served, outcome>>

RpcInit ==
    /\ asked = {}
    /\ served = [i \in Ids |-> "none"]
    /\ outcome = [i \in Ids |-> "none"]

Ask(i) ==
    /\ i \notin asked
    /\ asked' = asked \cup {i}
    /\ UNCHANGED <<served, outcome>>

Serve(i, a) ==
    /\ i \in asked /\ served[i] = "none"
    /\ served' = [served EXCEPT ![i] = a]
    /\ UNCHANGED <<asked, outcome>>

Answer(i) ==
    /\ served[i] # "none" /\ outcome[i] = "none"
    /\ outcome' = [outcome EXCEPT ![i] = served[i]]
    /\ UNCHANGED <<asked, served>>

(* One event can fail several calls: the connection is lost for all.       *)
Fail(is, why) ==
    /\ is # {} /\ is \subseteq {i \in asked : outcome[i] = "none"}
    /\ outcome' = [i \in Ids |-> IF i \in is THEN why ELSE outcome[i]]
    /\ UNCHANGED <<asked, served>>

RpcNext ==
    \/ \E i \in Ids : Ask(i) \/ Answer(i) \/ \E a \in Answers : Serve(i, a)
    \/ \E is \in SUBSET Ids, why \in Failures : Fail(is, why)

RpcSpec == RpcInit /\ [][RpcNext]_rpcVars
=============================================================================
