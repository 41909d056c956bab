-------------------------- MODULE PolicyEngine_proofs --------------------------
(* What the policy guarantees for every content item, configuration and mode. *)
EXTENDS PolicyEngine, TLAPS

\* Codes that block, one by one: each condition puts its code into the decision.
LEMMA BlockedBy ==
    ASSUME NEW c \in Content, NEW linked \in BOOLEAN, NEW mode \in Modes,
           ~Evaluate(c, linked, mode).blocked
    PROVE  /\ c.class \in PublishableClasses
           /\ c.requirement # "NEVER_PUBLISH"
           /\ NeedsEvidence(c) => linked
<1> DEFINE codes == BlockingCodes(c, linked)
<1>1. codes = {}
  BY DEF Evaluate
<1>2. c.class \in PublishableClasses
  <2>1. ClassificationCodes(c) = {}
    BY <1>1 DEF BlockingCodes
  <2>2. c.class # Unclassified
    BY <2>1 DEF ClassificationCodes, When
  <2>3. c.class \in Classes
    BY <2>1, <2>2 DEF ClassificationCodes, When
  <2>4. QED
    BY <2>1, <2>3 DEF ClassificationCodes, When
<1>3. c.requirement # "NEVER_PUBLISH"
  BY <1>1 DEF BlockingCodes, When
<1>4. NeedsEvidence(c) => linked
  BY <1>1 DEF BlockingCodes, When
<1>5. QED
  BY <1>2, <1>3, <1>4

\* The policy fails closed (README.md:69-92): nothing unclassified, of a class
\* that is not publishable, marked NEVER_PUBLISH or short of evidence is ever
\* authorised, under any mode, status or approver.
THEOREM PolicyFailsClosed ==
    \A c \in Content, linked \in BOOLEAN, mode \in Modes, status \in ApprovalStatuses,
       approver \in ApproverKinds : FailsClosedOn(c, linked, mode, status, approver)
BY BlockedBy DEF FailsClosedOn, Authorised

\* What goes out without an approval is routine: the operating modes of
\* README.md:119-126, for every configuration of classes and pillars.
THEOREM PolicyUnattendedIsRoutine ==
    \A c \in Content, linked \in BOOLEAN, mode \in Modes : UnattendedIsRoutineOn(c, linked, mode)
<1> SUFFICES ASSUME NEW c \in Content, NEW linked \in BOOLEAN, NEW mode \in Modes,
                    Unattended(c, linked, mode)
             PROVE  /\ AutoEligible(c) /\ c.requirement = "AUTO_APPROVED"
                    /\ mode # "MODE_1_APPROVAL_REQUIRED"
                    /\ mode = "MODE_3_MIXED" => c.sensitive = {}
  BY DEF UnattendedIsRoutineOn
<1>1. /\ ~Evaluate(c, linked, mode).blocked
      /\ ~Evaluate(c, linked, mode).requires_approval
  BY DEF Unattended, Authorised
<1>2. c.requirement # "NEVER_PUBLISH"
  BY <1>1, BlockedBy
<1>3. ~HumanNeeded(c, mode)
  BY <1>1, <1>2 DEF Evaluate, RequiresApproval
<1>4. c.requirement \in Requirements
  BY DEF Content
<1>5. QED
  BY <1>2, <1>3, <1>4 DEF HumanNeeded, Modes, Requirements

\* Tightening the mode never clears anything: MODE_1 is at least as strict as
\* MODE_3, and MODE_3 as MODE_2 (_requires_approval, engine.py:231-262).
THEOREM PolicyStricterModesClearLess ==
    \A c \in Content, linked \in BOOLEAN, status \in ApprovalStatuses,
       approver \in ApproverKinds : StricterModesClearLessOn(c, linked, status, approver)
BY DEF StricterModesClearLessOn, Authorised, Evaluate, RequiresApproval, HumanNeeded

\* An item marked HUMAN_APPROVAL_REQUIRED is blocked or waits for a person, in
\* every mode: what the queue and the run rely on.
LEMMA HumanItemsWait ==
    ASSUME NEW c \in Content, NEW linked \in BOOLEAN, NEW mode,
           c.requirement = "HUMAN_APPROVAL_REQUIRED",
           ~Evaluate(c, linked, mode).blocked
    PROVE  Evaluate(c, linked, mode).requires_approval
BY DEF Evaluate, RequiresApproval, HumanNeeded
===============================================================================
