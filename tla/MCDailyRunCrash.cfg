\* The run dies after the provider took the post.
SPECIFICATION RSpec
CONSTANTS
    Classes <- MCClasses
    PublishableClasses <- MCPublishable
    AutoClasses = {"PUBLIC"}
    Pillars = {"education"}
    AutoPillars = {"education"}
    EvidencePillars = {}
    Categories = {"CUSTOMER"}
    EvidenceCategories = {"CUSTOMER"}
    Items = {"a"}
    ContentOf <- MCContentOf
    Looks <- MCLooks
    Deciders = {d1}
    ConfigModes <- MixedOrHuman
    MaxRequests = 1
    MaxAborts = 1
    Variants = {"a1"}
    ItemOf <- MCItemOf
    MaxAttempts = 1
    AttemptsCap = 2
    PostsCap = 2
    Answers <- CreatedOnly
INVARIANT NoDoublePost
