----------------------------- MODULE MCSseStream -----------------------------
(* Instances of SseStream for TLC. *)
EXTENDS SseStream, ThinkingTags

AllFaults == FaultKinds
=============================================================================
