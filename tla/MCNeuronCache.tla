--------------------------- MODULE MCNeuronCache ---------------------------
(* Small instances of NeuronCacheAge: two layers of three slices each. *)
EXTENDS NeuronCacheAge

MCKeys == {1, 2} \X {0, 1, 2} \X {0}
=============================================================================
