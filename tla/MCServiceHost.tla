---------------------------- MODULE MCServiceHost ----------------------------
(* Two connections over two pipe instances.                                  *)
EXTENDS ServiceHost
CONSTANTS c1, c2
MCConns == {c1, c2}
MCSubscribers == {c1}
==============================================================================
