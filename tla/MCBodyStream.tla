---------------------------- MODULE MCBodyStream ----------------------------
(***************************************************************************)
(* Instances of BodyStream for TLC: all producers, and the engine's alone. *)
(***************************************************************************)
EXTENDS BodyStream

EveryProducer == AllModes
EngineModes   == {"image", "file", "static"}
=============================================================================
