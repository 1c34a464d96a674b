----------------------------- MODULE MCLiveServer -----------------------------
(* A small instance of LiveServer: one topic, two payloads. *)
EXTENDS LiveServer

CONSTANTS t1, v1, v2
=============================================================================
