---------------------------- MODULE MCClientCache ----------------------------
(* ClientCache on small sets: two pids and three processes, so a grandchild   *)
(* may be given its grandparent's pid, and a table with its clients.          *)
EXTENDS ClientCache
=============================================================================
