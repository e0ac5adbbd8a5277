--------------------------- MODULE MCDeviceRollout ---------------------------
(***************************************************************************)
(* Instances of DeviceRollout for TLC: cohorts of one and of two devices,  *)
(* numbered from 1, which two releases expose in opposite orders.          *)
(***************************************************************************)
EXTENDS DeviceRollout

CONSTANT forward    \* the release that exposes its cohort in ascending order

HalfThenAll == <<50, 100>>

AllAtOnce == <<100>>

Opposite ==
  [r \in Releases |-> [d \in Devices |->
     IF r = forward THEN d - 1 ELSE Cardinality(Devices) - d]]
=============================================================================
