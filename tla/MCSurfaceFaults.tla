--------------------------- MODULE MCSurfaceFaults ---------------------------
(* SurfaceService and SurfaceDelivery on one instance: the clocks of the one *)
(* and the message of the other observe the same election.                   *)
EXTENDS SurfaceService, SurfaceDelivery, SurfaceInstances

ObservedInit == ServiceInit /\ DeliveryInit

ObservedNext ==
    \/ ServiceNext /\ Follow
    \/ Publish /\ UNCHANGED <<overlap, unread>>

ObservedSpec == ObservedInit /\ [][ObservedNext]_<<serviceVars, deliveryVars>>

=============================================================================
