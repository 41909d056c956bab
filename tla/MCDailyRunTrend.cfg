\* A trend draft next to a company claim, two modes, every answer of Buffer, a crash; fair runs.
SPECIFICATION RFairSpec
CONSTANTS
    Classes <- MCClasses
    PublishableClasses <- MCPublishable
    AutoClasses = {"PUBLIC"}
    Pillars = {"education"}
    AutoPillars = {"education"}
    EvidencePillars = {}
    Categories = {"CUSTOMER"}
    EvidenceCategories = {"CUSTOMER"}
    Items = {"h", "e"}
    ContentOf <- MCContentOf
    Looks <- MCLooks
    Deciders = {d1}
    ConfigModes <- TrustedOrHuman
    MaxRequests = 1
    MaxAborts = 1
    Variants = {"h1"}
    ItemOf <- MCItemOf
    MaxAttempts = 2
    AttemptsCap = 3
    PostsCap = 2
    Answers <- FromBuffer
INVARIANTS ApprovalHasAuthority HumanGate
PROPERTIES FailedIsResolved PostedOnce
