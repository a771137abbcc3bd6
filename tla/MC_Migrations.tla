--------------------------- MODULE MC_Migrations ---------------------------
(***************************************************************************)
(* Small instances of Migrations: an image being replaced, an importer of  *)
(* the newer checkout, and the worker.                                     *)
(***************************************************************************)
EXTENDS Migrations, TLC

CONSTANTS old, new, imp, wrk

Roles == old :> "web" @@ new :> "web" @@ imp :> "importer" @@ wrk :> "worker"
\* Version 1 can run again, 2 and 3 add a column, and 3 is of the newer release only.
Releases == old :> 2 @@ new :> 3 @@ imp :> 3 @@ wrk :> 0
AddColumns == {2, 3}
=============================================================================
