SPECIFICATION Spec
INVARIANTS
    SurvivesPowerLoss
