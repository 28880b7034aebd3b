------------------------------ MODULE MCNotify ------------------------------
(***************************************************************************)
(* Small instances of Notify.  A day has three units and the lead window   *)
(* one: `owl' leaves right after midnight of day 1 and is seen from the    *)
(* last unit of day 0, `lark' leaves in that last unit, and `both' leaves  *)
(* on two successive days.                                                 *)
(***************************************************************************)
EXTENDS Notify

CONSTANTS owl, lark, both, j1, j2, redeliver, nobody

MCDeparture == [a \in Alerts |-> CASE a = owl  -> 0
                                   [] a = lark -> 2
                                   [] a = both -> 1]

MCRecurs == [a \in Alerts |-> CASE a = owl  -> {2}
                                [] a = lark -> {1, 3}
                                [] a = both -> {1, 2}]
=============================================================================
