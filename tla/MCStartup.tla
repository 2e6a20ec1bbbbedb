----------------------------- MODULE MCStartup -----------------------------
(* Startup on small instances; the bounds are in the .cfg file. *)
EXTENDS Startup
=============================================================================
