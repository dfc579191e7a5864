SPECIFICATION Spec
CONSTANTS
    MaxTran = 3
    Plans <- MCPlans
INVARIANTS
    NoTransactionLeftOpen
    MainOwnsTransaction
PROPERTY ImplementsNestedStore
CHECK_DEADLOCK FALSE
