---------------------------- MODULE MCStatistics ----------------------------
EXTENDS Statistics

\* A cumulative variable reported by period, and in a sliding window.
MCKinds == {NewObject(TRUE, FALSE), NewObject(TRUE, TRUE)}
\* A variable that grows, rests and grows faster.
MCGrowths == {[t \in StartTime..EndTime |-> IF t % 3 = 0 THEN 3 ELSE (t % 3) - 1]}
MCIntervals == <<0, 1>>
=============================================================================
