------------------------------ MODULE MCPacking ------------------------------
(* Packing on a small instance: two context names, five plans of nine slots.  *)
(* The units are scaled down so that a few slots fill a server: a 4 MiB       *)
(* server holds two slots of 1 byte, a 6 MiB one a slot of 2, and 7 MiB are   *)
(* made for one of 4.                                                         *)
EXTENDS Packing

CONSTANTS n1, n2, b1, b2, b3, b4, b5

MCSlots == 1 .. 9
MCPlanOf == <<b1, b1, b1, b2, b2, b3, b4, b4, b5>>
MCNameOf == <<n1, n1, n2, n1, n1, n1, n1, n1, n1>>
MCSizeOf ==
    LET size(c, d) == [chunks |-> c, dense |-> d, tasks |-> 1]
    IN <<size(1, 1), size(4, 1), size(1, 1), size(1, 1), size(2, 1), size(1, 6),
         size(1, 2), size(1, 1), size(1, 1)>>
MCRank == <<3, 2, 1, 6, 5, 4, 9, 8, 7>>
MCArgs == {[offer |-> {4, 6}, workers |-> 1], [offer |-> {6}, workers |-> 1],
           [offer |-> {1, 6}, workers |-> 1]}
=============================================================================
