-------------------------- MODULE MCControlStreams --------------------------
(***************************************************************************)
(* ControlStreams for TLC, with the default ids of http3_connection.c.     *)
(***************************************************************************)
EXTENDS ControlStreams

MCDefaults == <<2, 6, 10>>
=============================================================================
