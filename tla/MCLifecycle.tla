----------------------------- MODULE MCLifecycle ----------------------------
(* Both platforms, any address families, two listeners, with and without   *)
(* -bind-iface.                                                            *)
EXTENDS BoundTunnel
=============================================================================
