------------------------------- MODULE Fills --------------------------------
(* The three ways in which the caches fill something once for many callers,   *)
(* side by side over variables of their own: artifactcache with its leases    *)
(* (ArtifactFill), the fill pool of the Maven proxy (MavenFill, as M) and a   *)
(* shared fill of the object disk cache (DiskCacheFlight, as D).              *)
EXTENDS ArtifactFill

CONSTANTS Clients, Keys, Tasks, Workers, Getters
VARIABLES
    stored, active, closed, task, file, client,
    fill, getter, producer, closer, shut, rootOpen, body

M == INSTANCE MavenFill
D == INSTANCE DiskCacheFlight WITH Callers <- Getters, caller <- getter, closed <- shut

\* What a Maven task has published can be opened by every caller it has counted and
\* stays while one of them reads it, and every replay file on the disk is somebody's
\* (fill_task.go, prepared_response.go).
ReplaysKept == M!ReplaysKept

\* The references of a shared fill are the calls that hold it, and a call that leaves
\* never cancels the fill under another that reads (disk_cache_flight_lifecycle.go).
\* Only a complete fill that was read to the end is published, and nothing of it is left
\* once everybody has returned.
FlightsSound == D!FlightsSound
=============================================================================
