--------------------------- MODULE MCServerLifecycle ---------------------------
(* Small instances of ServerLifecycle for TLC: two workers let a worker be  *)
(* cancelled and replaced, and a server be stopped and started again.       *)
EXTENDS ServerLifecycle
================================================================================
