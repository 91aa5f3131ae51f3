CONSTANTS
    d1 = d1
    w1 = w1
    w2 = w2
    Deposit = {d1}
    Withdrawal = {w1}
    Proposed <- MCNoneProposed
    Selected <- MCSelected
    WITHDRAWAL_BUNDLE_FAILURE_GAP = 1
    Unspent = Unspent
    Regular = Regular
    MaxHeight = 2
    MaxEvents = 2
    MaxBody = 1
    MaxLeftOver = 1
    MaxReported = 2
SPECIFICATION Spec
PROPERTY DisconnectNeverPanics
