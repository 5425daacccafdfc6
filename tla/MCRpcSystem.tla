---------------------------- MODULE MCRpcSystem -----------------------------
(* RpcSystem with two calls that call back, so that the numbers of calls   *)
(* back start over on another connection.                                  *)
EXTENDS RpcSystem

TwoRequests == <<Request, Request>>
=============================================================================
