---------------------------- MODULE MCRPCStream ----------------------------
(* RPCStream for TLC.                                                      *)
EXTENDS RPCStream

===========================================================================
