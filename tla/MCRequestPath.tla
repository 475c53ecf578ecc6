---------------------------- MODULE MCRequestPath ----------------------------
(* One request, followed for three passes through the proxy: one more than   *)
(* NoProxyLoop allows.                                                       *)
EXTENDS RequestPath

MCMaxHops == 3
=============================================================================
