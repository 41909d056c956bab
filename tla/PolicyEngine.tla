----------------------------- MODULE PolicyEngine -----------------------------
(***************************************************************************)
(* The disclosure and publication policy of app/policy/engine.py: what it  *)
(* says about one content item (evaluate, _requires_approval) and who may  *)
(* be let through to a platform (authorise_publication).                   *)
(*                                                                         *)
(* The text of an item is abstracted to what the scans of restricted.py    *)
(* find in it; an item reaches this module as a record of those findings   *)
(* and of the columns evaluate() reads.                                    *)
(***************************************************************************)

CONSTANTS
    Classes,               \* disclosure_classes of config/policy.yaml
    PublishableClasses,    \* publishable_classes
    AutoClasses,           \* auto_publishable_classes
    Pillars,               \* pillar keys
    AutoPillars,           \* auto_eligible pillars that are in auto_eligible_pillars
    EvidencePillars,       \* pillars with requires_evidence
    Categories,            \* keys of restricted_categories.require_human_approval
    EvidenceCategories     \* evidence.required_for_categories

\* A column that is NULL, and a class that config does not list.
Unclassified == "NULL"
UnknownClass == "UNKNOWN"

ASSUME ConfigAssumption == Unclassified \notin Classes /\ UnknownClass \notin Classes

Modes == {"MODE_1_APPROVAL_REQUIRED", "MODE_2_TRUSTED_AUTOPUBLISH", "MODE_3_MIXED"}

Requirements == {"AUTO_APPROVED", "HUMAN_APPROVAL_REQUIRED", "NEVER_PUBLISH"}

ApprovalStatuses == {"DRAFT", "PENDING_APPROVAL", "APPROVED", "REJECTED", "WITHDRAWN"}

\* What a scan of the outbound fields for the terms of each category returns.
Hits == SUBSET Categories

Content ==
    [class       : Classes \cup {Unclassified, UnknownClass},
     requirement : Requirements,
     pillar      : Pillars,
     restricted  : BOOLEAN,             \* block_publication term in an outbound field
     sensitive   : Hits,                \* require_human_approval categories hit
     prohibited  : BOOLEAN,             \* prohibited phrase in an outbound field
     bareMedia   : BOOLEAN]             \* a media-first variant that carries no media

Codes ==
    {"NO_CLASSIFICATION", "UNKNOWN_CLASSIFICATION", "NOT_PUBLISHABLE_CLASS",
     "MARKED_NEVER_PUBLISH", "RESTRICTED_CONTENT", "PROHIBITED_PHRASE",
     "MISSING_EVIDENCE", "MISSING_MEDIA"}

\* The codes of S whose condition holds.
When(code, cond) == {c \in {code} : cond}

ClassificationCodes(c) ==
    When("NO_CLASSIFICATION", c.class = Unclassified)
      \cup When("UNKNOWN_CLASSIFICATION", c.class \notin Classes \cup {Unclassified})
      \cup When("NOT_PUBLISHABLE_CLASS", c.class \in Classes \ PublishableClasses)

NeedsEvidence(c) ==
    c.sensitive \cap EvidenceCategories # {} \/ c.pillar \in EvidencePillars

BlockingCodes(c, linked) ==
    ClassificationCodes(c)
      \cup When("MARKED_NEVER_PUBLISH", c.requirement = "NEVER_PUBLISH")
      \cup When("RESTRICTED_CONTENT", c.restricted)
      \cup When("PROHIBITED_PHRASE", c.prohibited)
      \cup When("MISSING_EVIDENCE", NeedsEvidence(c) /\ ~linked)
      \cup When("MISSING_MEDIA", c.bareMedia)

AutoEligible(c) == c.class \in AutoClasses /\ c.pillar \in AutoPillars

\* Who has to look at content that nothing blocks, mode by mode.
HumanNeeded(c, mode) ==
    \/ c.requirement = "HUMAN_APPROVAL_REQUIRED"
    \/ mode = "MODE_1_APPROVAL_REQUIRED"
    \/ mode = "MODE_2_TRUSTED_AUTOPUBLISH" /\ ~AutoEligible(c)
    \/ /\ mode = "MODE_3_MIXED"
       /\ c.sensitive # {} \/ ~AutoEligible(c) \/ c.requirement # "AUTO_APPROVED"

RequiresApproval(c, mode, allowed) ==
    allowed /\ c.requirement # "NEVER_PUBLISH" /\ HumanNeeded(c, mode)

\* The PolicyDecision of one evaluation.
Evaluate(c, linked, mode) ==
    LET codes == BlockingCodes(c, linked)
    IN  [blocked           |-> codes # {},
         requires_approval |-> RequiresApproval(c, mode, codes = {}),
         codes             |-> codes]

Decisions == [blocked : BOOLEAN, requires_approval : BOOLEAN, codes : SUBSET Codes]

\* authorise_publication returns rather than raising. "none" is approver=None.
ApproverKinds == {"none", "human", "rule", "other"}

Authorised(decision, status, approver) ==
    /\ ~decision.blocked
    /\ decision.requires_approval => status = "APPROVED"
    /\ approver \in {"none", "human", "rule"}
-------------------------------------------------------------------------------
\* Whether content goes out that nobody approved.
Unattended(c, linked, mode) ==
    LET decision == Evaluate(c, linked, mode)
    IN  Authorised(decision, "DRAFT", "none")

\* FailsClosed: whatever the status, the mode and the approver, nothing leaves
\* that is unclassified, of a class not publishable, marked NEVER_PUBLISH or
\* short of the evidence its pillar or its claims ask for (README.md:69-92).
FailsClosedOn(c, linked, mode, status, approver) ==
    Authorised(Evaluate(c, linked, mode), status, approver) =>
        /\ c.class \in PublishableClasses
        /\ c.requirement # "NEVER_PUBLISH"
        /\ NeedsEvidence(c) => linked

\* UnattendedIsRoutine: the modes let pass unapproved exactly what the table of
\* README.md:119-126 says: nothing in MODE_1, auto-eligible content in MODE_2,
\* and of that only what makes no sensitive claim in MODE_3.
UnattendedIsRoutineOn(c, linked, mode) ==
    Unattended(c, linked, mode) =>
        /\ AutoEligible(c) /\ c.requirement = "AUTO_APPROVED"
        /\ mode # "MODE_1_APPROVAL_REQUIRED"
        /\ mode = "MODE_3_MIXED" => c.sensitive = {}

\* StricterModesClearLess: switching to a stricter mode never clears content
\* that the looser mode held back, so a mode can be tightened at any time.
StricterModesClearLessOn(c, linked, status, approver) ==
    LET Clears(mode) == Authorised(Evaluate(c, linked, mode), status, approver)
    IN  /\ Clears("MODE_1_APPROVAL_REQUIRED") => Clears("MODE_3_MIXED")
        /\ Clears("MODE_3_MIXED") => Clears("MODE_2_TRUSTED_AUTOPUBLISH")
===============================================================================
