--------------------------- MODULE GatherContract ---------------------------
(***************************************************************************)
(* What DiskEngramTable.gather promises its callers (docstrings of lines   *)
(* 111-120, 202 and 206-209, and the comment of lines 307-309), with no    *)
(* threads, slices or buffers: a gather ends once, with exactly its rows   *)
(* if all its reads succeeded and with an exception if one failed.         *)
(***************************************************************************)
EXTENDS Integers

CONSTANTS Callers, Requests, MaxGathers

VARIABLES
    serving,   \* the callers whose gather is under way
    asked,     \* gathers asked for so far
    request,   \* per caller: its gather
    outcome,   \* per caller: how its last gather ended
    failed     \* the gathers one of whose reads failed

contractVars == <<serving, asked, request, outcome, failed>>

Rows(r) == [k \in 0 .. r.n - 1 |-> IF k \in r.owned THEN <<r.id, k>> ELSE <<0, 0>>]
Nothing == [id |-> 0, n |-> 0, owned |-> {}]

ContractInit ==
    /\ serving = {}
    /\ asked = 0
    /\ request = [c \in Callers |-> Nothing]
    /\ outcome = [c \in Callers |-> [status |-> "none", job |-> Nothing, rows |-> <<>>]]
    /\ failed = {}

Ask(c) ==
    /\ c \notin serving
    /\ asked < MaxGathers
    /\ asked' = asked + 1
    /\ serving' = serving \cup {c}
    /\ \E r \in Requests :
         request' = [request EXCEPT ![c] = [id |-> asked + 1, n |-> r.n, owned |-> r.owned]]
    /\ UNCHANGED <<outcome, failed>>

End(c, status, rows) ==
    /\ c \in serving
    /\ serving' = serving \ {c}
    /\ outcome' = [outcome EXCEPT
                     ![c] = [status |-> status, job |-> request[c], rows |-> rows]]
    /\ UNCHANGED <<asked, request>>

Deliver(c) ==
    /\ request[c].id \notin failed
    /\ End(c, "ok", Rows(request[c]))
    /\ UNCHANGED failed

\* The read that fails may be the gather's last step.
Refuse(c) ==
    /\ End(c, "raised", <<>>)
    /\ failed' = failed \cup {request[c].id}

ReadError(c) ==
    /\ c \in serving
    /\ failed' = failed \cup {request[c].id}
    /\ UNCHANGED <<serving, asked, request, outcome>>

ContractNext ==
    \E c \in Callers : Ask(c) \/ Deliver(c) \/ Refuse(c) \/ ReadError(c)

ContractSafety == ContractInit /\ [][ContractNext]_contractVars
=============================================================================
