----------------------------- MODULE MCGpuBroker -----------------------------
(* Small instances of GpuBroker for TLC: an image and a vision server.       *)
EXTENDS GpuBroker, TLC

CONSTANTS image, vision, i1, i2, v1, v2

BoxOf == [r \in Requests |-> IF r \in {i1, i2} THEN image ELSE vision]
=============================================================================
