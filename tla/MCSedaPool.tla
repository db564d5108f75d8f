----------------------------- MODULE MCSedaPool -----------------------------
(* SedaPool for TLC: a front stage that feeds a back stage.                *)
EXTENDS SedaPoolRefinement, TLC

CONSTANTS front, back, w1, w2, w3, p1

MCStages == {front, back}
MCPipeline == [s \in MCStages |-> IF s = front THEN {back} ELSE {}]
MCOneStage == {front}
MCNoPipeline == [s \in MCOneStage |-> {}]

\* Events are interchangeable in every safety property.
EventSymmetry == Permutations(Events)

=============================================================================
