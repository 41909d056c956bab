\* One item with two variants, a person deciding, a crash, publishing off for some calls.
SPECIFICATION RSpec
CONSTANTS
    Classes <- MCClasses
    PublishableClasses <- MCPublishable
    AutoClasses = {"PUBLIC"}
    Pillars = {"education"}
    AutoPillars = {"education"}
    EvidencePillars = {}
    Categories = {"CUSTOMER"}
    EvidenceCategories = {"CUSTOMER"}
    Items = {"a"}
    ContentOf <- MCContentOf
    Looks <- MCLooks
    Deciders = {d1}
    ConfigModes <- MixedOrHuman
    MaxRequests = 1
    MaxAborts = 1
    Variants = {"a1", "a2"}
    ItemOf <- MCItemOf
    MaxAttempts = 1
    AttemptsCap = 2
    PostsCap = 2
    Answers <- SomeAnswers
INVARIANTS RTypeOK LiveIsReal AttemptsAudited PublishedIsWhole
PROPERTIES LiveRowsFrozen ApprovalSurvivesOutage
