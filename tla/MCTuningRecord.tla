--------------------------- MODULE MCTuningRecord ---------------------------
(* Instances of TuningRecord for TLC. *)
EXTENDS TuningRecord

\* A release, its patch release and the next minor one.
MCVersions == {<<0, 0>>, <<0, 1>>, <<1, 0>>}

=============================================================================
