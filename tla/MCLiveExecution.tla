-------------------------- MODULE MCLiveExecution --------------------------
(* A small live session for TLC. *)
EXTENDS LiveExecution

CONSTANTS s1, s2, s3   \* the slices of the iceberg

MCSlices == <<s1, s2, s3>>
MCBrokerIds == OrderIds \cup {Entry, LegA, LegB, s1, s2, s3}
=============================================================================
