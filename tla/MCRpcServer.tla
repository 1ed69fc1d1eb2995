----------------------------- MODULE MCRpcServer -----------------------------
(* Small instances of RpcServer for TLC. *)
EXTENDS RpcServer

CONSTANTS c1, c2, c3

\* A client that pipelines, perhaps more than MaxPending, or goes wrong, one with a
\* call, and one that only connects.
MCScripts ==
  [c \in Clients |->
     CASE c = c1 -> {<<"poll", "call">>, <<"bad">>, <<"illpoll", "call", "call">>, <<"long">>}
       [] c = c2 -> {<<"call">>}
       [] c = c3 -> {<<>>}]

=============================================================================
