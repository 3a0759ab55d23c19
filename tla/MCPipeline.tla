------------------------------ MODULE MCPipeline ------------------------------
(* Instances of DeliveryPipeline for TLC. *)
EXTENDS DeliveryPipeline, TLC

\* Two retries: the shape of the ladder, with the delays out of the picture.
MCSchedule == <<1, 2>>
MCMsgIds == 1 .. 4
HandlerSymmetry == Permutations(Handlers)
HandlerDeliverySymmetry ==
    Permutations(Handlers) \cup Permutations(Deliveries)
=============================================================================
