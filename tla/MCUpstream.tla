----------------------------- MODULE MCUpstream -----------------------------
(* TLC's instances of the container upstream: "failover", blob requests over  *)
(* two endpoints, "request", calls of Client.do that share the bearer tokens  *)
(* of one scope, and "health", the records of one endpoint and one of its     *)
(* repositories.  A behaviour is of one part; the variables of the other      *)
(* modules keep their first value.                                            *)
EXTENDS Upstream

CONSTANTS g, c
VARIABLE part

calls == <<call, cached, live, issued, lost, flight, orphan>>
records == <<states, upd, pending, batch, sql, hot, starts, updates, fate, failed>>

MCRequests == {g, c}
MCConsumers == {c}
MCCancellable == {g}
MCEndpoints == 1 .. 2
MCPolicies == {"latency", "round_robin"}
MCFailuresOf == <<{"failed", "allowlist"}, {"mismatch", "fatal"}>>
MCLatency == [e \in MCEndpoints |-> 20]

MCInit ==
    /\ part \in {"failover", "request", "health"}
    /\ Init /\ (part # "failover" => policy = "latency")
    /\ R!Init /\ H!Init

MCNext ==
    \/ part = "failover" /\ Next /\ UNCHANGED <<part, calls, records>>
    \/ part = "request" /\ R!Next /\ UNCHANGED <<part, vars, records>>
    \/ part = "health" /\ H!Next /\ UNCHANGED <<part, vars, calls>>

MCSpec ==
    /\ MCInit /\ [][MCNext]_<<part, vars, calls, records>>
    /\ WF_vars(part = "failover" /\ Progress)
=============================================================================
