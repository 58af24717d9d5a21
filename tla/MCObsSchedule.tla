---------------------------- MODULE MCObsSchedule -----------------------------
(***************************************************************************)
(* The designs TLC delivers: two blocks that overlap, each of them alone   *)
(* and later, and none.                                                    *)
(***************************************************************************)
EXTENDS ObsSchedule

Block(id, start, end) == [id |-> id, start |-> start, end |-> end]

ExampleSheets ==
    {<<Block("a", 1, 3), Block("b", 2, 4)>>, <<Block("b", 3, 4)>>, <<Block("a", 2, 3)>>, <<>>}
=============================================================================
