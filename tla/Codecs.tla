-------------------------------- MODULE Codecs --------------------------------
(***************************************************************************)
(* The two wire formats of the bridge side by side: envelopes and Draco    *)
(* point clouds.  They do not interact; a behaviour exercises one of them. *)
(***************************************************************************)
EXTENDS EnvelopeCodec, PointCloudCodec

NoEnvelope == envelope = <<>> /\ wire = <<>> /\ stage = "none"
NoCloud    == cloud = <<>> /\ packet = NoPacket /\ result = {} /\ step = "none"

Init == (EnvelopeInit /\ NoCloud) \/ (CloudInit /\ NoEnvelope)

Next == (EnvelopeNext /\ UNCHANGED cloudVars) \/ (CloudNext /\ UNCHANGED envelopeVars)

Spec == Init /\ [][Next]_<<envelopeVars, cloudVars>>
=============================================================================
