--------------------------- MODULE MCRemoteIndex ---------------------------
(* A small instance of RemoteIndex for TLC. *)
EXTENDS RemoteIndex
============================================================================
