------------------------------- MODULE Bodies -------------------------------
(* The two kinds of response bodies that outlive a request's handler, over    *)
(* variables of their own: one that resumes after interrupted reads           *)
(* (TransferRecover), and blobs that are streamed to clients while they are   *)
(* stored (BlobProxy, as B).                                                  *)
EXTENDS TransferRecover

CONSTANTS Requests, Nodes, NodeOf, Kinds, FallbackGate, MaxExpiries
VARIABLES small, object, blobRow, repoRow, lease, fill, filled, req, task, permits, expiries

B == INSTANCE BlobProxy

\* Nobody waits for a blob fill that no one is working on, nor for a lease but one that a
\* failed call of the backend left behind; the permits of the fallback gate are held by
\* fetches and by bodies being read; a blob's row comes after its object, the repository's
\* row after the blob's (blob_proxy.go, blob_lease.go, blob_open_fallback.go).
BlobsOwned == B!BlobsOwned

\* A client that reads a streamed blob to its end and closes it without error knows that
\* it is cached, rows included (the streamed body's Close waits for the store task).
CloseMeansStored == B!CloseMeansStored
=============================================================================
