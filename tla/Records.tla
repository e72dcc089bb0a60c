------------------------------ MODULE Records -------------------------------
(* The two batches of the metadata store side by side, over variables of      *)
(* their own: the writes of one pull record (PullWriteBatch) and the catalog  *)
(* refreshes of an alias that follow committed mutations (CatalogRefresh, as  *)
(* C).                                                                        *)
EXTENDS PullWriteBatch

CONSTANTS Committers, Interruptible, Repositories, Touches, SQLite
VARIABLES mutation, refresh, newest, batch, catalogMu, committed, catalog

C == INSTANCE CatalogRefresh WITH
        Callers <- Committers, Cancellable <- Interruptible,
        caller <- mutation, state <- refresh, current <- newest, flight <- batch

\* README.md:40, "Each caller waits for a batch covering its committed mutation": a call
\* that returns without error is counted in the catalog, with every earlier ticket, and
\* no coordination state stays behind.
RefreshCovers == C!RefreshCovers
=============================================================================
