--------------------------- MODULE MCFlowPublisher ---------------------------
(* Instances of FlowPublisher for TLC.                                     *)
EXTENDS FlowPublisher, TLC

CONSTANT a

=============================================================================
