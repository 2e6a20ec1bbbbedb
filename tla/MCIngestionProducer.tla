------------------------ MODULE MCIngestionProducer ------------------------
(* IngestionProducer on small instances; the bounds are in the .cfg file. *)
EXTENDS IngestionProducer
=============================================================================
