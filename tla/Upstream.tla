------------------------------ MODULE Upstream ------------------------------
(* The container upstream, its parts side by side over variables of their     *)
(* own: blob requests over the endpoints (UpstreamFailover), calls of         *)
(* Client.do that share the bearer tokens of one scope (UpstreamRequest, as   *)
(* R), and the health records of one endpoint and one of its repositories     *)
(* (EndpointHealth, as H).                                                    *)
EXTENDS UpstreamFailover

CONSTANTS Calls, Attempts, MaxTokens, PublicMirror
VARIABLES call, cached, live, issued, lost, flight, orphan
R == INSTANCE UpstreamRequest

CONSTANTS Updaters, Flushers, Threshold, MaxUpdates, MaxStarts
VARIABLES states, upd, pending, batch, sql, hot, starts, updates, fate, failed
H == INSTANCE EndpointHealth

\* Client.do: callers of one scope share tokens, and a caller is handed one open
\* body with a response and none with an error.
CallsAccounted == R!CallsAccounted

\* Every health change is on its way to the store until it is written, and what is
\* kept never blames the endpoint for a repository's failures (tracker and buffer).
HealthKept == H!HealthKept
=============================================================================
