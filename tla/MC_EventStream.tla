--------------------------- MODULE MC_EventStream ---------------------------
(***************************************************************************)
(* A small instance of EventStream: the requests and workers of MC_AIRuns. *)
(***************************************************************************)
EXTENDS EventStream, MC_AIRuns

OneChat == {Chat}
=============================================================================
