---------------------------- MODULE MCSizingLoop ----------------------------
(* SizingLoop on small quotas.                                             *)
EXTENDS SizingLoop

\* A key in fine units and one in coarse units, as cpu and memory are.
FineAndCoarse == {"cpu", "memory"}
MCGranule  == [r \in Resources |-> IF r = "memory" THEN 8 ELSE 1]
MCHeadroom == [r \in Resources |-> 25]
MCMinLimit == [r \in Resources |-> IF r = "memory" THEN 10 ELSE 2]

\* One key in fine units, with no minimum.
FineOnly  == {"cpu"}
NoMinimum == [r \in Resources |-> 0]
=============================================================================
