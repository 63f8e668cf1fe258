--------------------------- MODULE MCModelRepair ---------------------------
(* ModelRepair on small models: the dependency lists a step may have; in   *)
(* the second set one of them names its item twice.                        *)
EXTENDS ModelRepair

CONSTANTS m1, m2, p1, p2

MCLists == {<<>>, <<m1>>, <<p1>>, <<p2>>}
MCListsTwice == {<<>>, <<m1>>, <<m1, m1>>}
============================================================================
