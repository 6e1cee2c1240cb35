\* A page that asks twice, at once (it may close its form and open it again) or
\* after an error, and any other calls of the token.  A cent is three wei, the
\* amount one cent, and a conversion is off by at most one wei.
SPECIFICATION TransferSpec
CONSTANTS
    MaxAddress = 2
    MaxUint = 4
    Deployer = 1
    InitialSupply = 3
    Page = {p1}
    MaxRequests = 2
    Organization = {1, 2}
    orgId <- PageOfOne
    Amounts = {3}
    Cent = 3
    ConversionError = 1
    CallAmounts = {2}
    Spenders = {2}
INVARIANTS
    
    MovedOncePlusLostAnswers
PROPERTIES
    SuccessIsExecuted
    PostEnds
