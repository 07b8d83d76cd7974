-------------------------------- MODULE MCLab --------------------------------
EXTENDS LabCommands

Recording == {"capture", "aec"}
Validation == {"realtime-aec", "stability-report"}
BypassValidation == {"bypass", "stability-report"}
LabScripts == {Recording, Validation, BypassValidation}

\* The gate is 7 intervals; 8 leave room for a disturbance.
LabPlans == {[schema |-> 2, requested |-> 2], [schema |-> 3, requested |-> 2],
             [schema |-> 3, requested |-> 8]}

Measure(ppm, silent, stale) ==
  [ppm |-> ppm, uncertainty |-> 2, silent |-> silent, stale |-> stale]
Steady == Measure(0, FALSE, FALSE)
\* Only a faster render device: DriftIsSymmetric mirrors each of them.
Drifts == {Measure(4, TRUE, FALSE), Measure(8, FALSE, FALSE)}

\* Every window measures the same, or the third one differs.
Profile(usual, third) == [i \in 1..4 |-> IF i = 3 THEN third ELSE usual]
LabProfiles == {Profile(Steady, Steady), Profile(Measure(4, TRUE, FALSE), Measure(-4, FALSE, TRUE))}
                 \union {Profile(d, d) : d \in Drifts} \union {Profile(d, Steady) : d \in Drifts}
LabTrends == {<<>>, <<1>>, <<2>>}

Operator(confirmed, explained, notes) ==
  [given |-> TRUE, confirmed |-> confirmed, explained |-> explained, notes |-> notes]
LabOperators == {Operator(TRUE, {}, FALSE), Operator(TRUE, Explainable, TRUE)}
=============================================================================
