\* The challenge scenario on an empty contract that nobody else uses.
SPECIFICATION Spec
CONSTANTS
    PageSize = 50
    MaxLost = 0
    MaxBounties = 1
    MaxSubmissions = 1
    MaxChallenges = 1
    MaxRuns = 2
    MaxElsewhere = 0
INVARIANT EvaluationWaitsForItsSubmission
CHECK_DEADLOCK FALSE
