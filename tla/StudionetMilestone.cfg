\* Two bounties on a page of one, one lost answer, four stages or deployments,
\* one transaction from elsewhere at any time.
SPECIFICATION Spec
CONSTANTS
    PageSize = 1
    MaxLost = 1
    MaxBounties = 2
    MaxSubmissions = 2
    MaxChallenges = 1
    MaxRuns = 4
    MaxElsewhere = 1
INVARIANTS
    AdoptedRecordsAreTheScenarios
    ScenariosShareNoBounty
CHECK_DEADLOCK FALSE
