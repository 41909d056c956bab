\* One company claim, two people deciding at once, one rolled-back run.
SPECIFICATION Spec
CONSTANTS
    Classes <- MCClasses
    PublishableClasses <- MCPublishable
    AutoClasses = {"PUBLIC"}
    Pillars = {"education"}
    AutoPillars = {"education"}
    EvidencePillars = {}
    Categories = {"CUSTOMER"}
    EvidenceCategories = {"CUSTOMER"}
    Items = {"e"}
    ContentOf <- MCContentOf
    Looks <- MCLooks
    Deciders = {d1, d2}
    ConfigModes <- AllModes
    MaxRequests = 2
    MaxAborts = 1
INVARIANTS TypeOK OneOpenRequest PendingIsDecidable
PROPERTY RejectionSettles
