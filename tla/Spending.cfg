SPECIFICATION SpendingSpec
INVARIANTS
    PayoutsAreBacked
    OnePayoutPerReward
    AllOrNothing
    EveryMessageSent
    ServicesEndInTime
    BilledOnce
    TransferKeepsOwners
    BulkKeepsFaith
    AdminFollowsRow
    TermPaidFor
PROPERTIES
    PaidForGood
    LockLostOnlyToStale
    PurgedOnlyAfterGrace
CHECK_DEADLOCK FALSE
