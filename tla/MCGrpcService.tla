---------------------------- MODULE MCGrpcService ----------------------------
(***************************************************************************)
(* The instance of GrpcService for TLC.                                    *)
(***************************************************************************)
EXTENDS GrpcService

TwoSessions == 1 .. 2
EventOfTwo == [s \in TwoSessions |-> "e1"]
OneCompletion == {<<1, "completed">>}
=============================================================================
