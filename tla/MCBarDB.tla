------------------------------ MODULE MCBarDB ------------------------------
(* Instances of BarDB for TLC: durations in ticks, so small that a call    *)
(* crosses a boundary and a series fills more than one segment.            *)
EXTENDS BarDB, TLC

CONSTANTS s1, s2

OneSymbol == {s1}
M1 == {"M1"}
M1AndD1 == {"M1", "D1"}
OneTick == [tf \in {"M1"} |-> 1]
Ticks == [tf \in {"M1", "D1"} |-> IF tf = "M1" THEN 1 ELSE 2]
=============================================================================
