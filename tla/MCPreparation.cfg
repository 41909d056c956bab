\* Seven items, three configurations, two model calls a run, one rolled-back run.
SPECIFICATION FairSpec
CONSTANTS
    Classes <- MCClasses
    PublishableClasses <- MCPublishable
    AutoClasses = {"PUBLIC"}
    Pillars = {"education", "company"}
    AutoPillars = {"education"}
    EvidencePillars = {"company"}
    Categories = {"CUSTOMER", "PARTNER"}
    EvidenceCategories = {"CUSTOMER"}
    Platforms = {"linkedin", "facebook", "instagram"}
    MediaFirst = {"instagram"}
    Reads <- MCReads
    CommentTags = {"instagram"}
    TagMarks <- MCTagMarks
    ModelTexts <- MCModelTexts
    MaxCalls = 2
    MaxCost = 2
    Estimate = 1
    Costs = {1, 2}
    EvidenceIds = {"EV-1", "MKT-1"}
    ItemIds = {"MKT-1"}
    Kinds = {"CERTIFICATE", "AI_OUTPUT"}
    AcceptedKinds = {"CERTIFICATE", "AI_OUTPUT"}
    Subjects <- MCSubjects
    Configs <- MCConfigs
    MaxAborts = 1
INVARIANTS PrepTypeOK FailsClosed EvidenceIsIndependent UnattendedIsRoutine ApprovedCopyStands ModelOnlyTightens BudgetHolds
PROPERTY TemplatesStand
