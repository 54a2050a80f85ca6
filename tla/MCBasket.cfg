SPECIFICATION BasketSpec
CONSTANTS
    tea = tea
    milk = milk
    bread = bread
    Rules <- MCRules
    Slices = 2
    MaxPerSlice = 4
    max_rules = 2
INVARIANTS
    BestDirectionSurvives
    SlicesAreIndependent
    SummaryHasTheStrongest
CHECK_DEADLOCK FALSE
