---------------------------- MODULE MCMeasurement ----------------------------
(* Instances of Measurement for TLC: each of -L and -D, with the other off. *)
EXTENDS Measurement

MCMeasured == {<<TRUE, FALSE>>, <<FALSE, TRUE>>}
=============================================================================
