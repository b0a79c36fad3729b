---------------------------- MODULE MCRpcBackend ----------------------------
(* Instances of RpcBackend for TLC.                                          *)
EXTENDS RpcBackend

AllTransports == {"json", "xml", "ws"}
=============================================================================
