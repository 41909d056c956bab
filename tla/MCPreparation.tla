----------------------------- MODULE MCPreparation -----------------------------
(* Instances of Preparation: three platforms, of which instagram wants media,  *)
(* and a few items that differ in what the policy looks at.                    *)
EXTENDS Preparation

MCReads == [p \in Platforms |->
    IF p = "instagram" THEN {"first", "cta"} ELSE {"first", "rest", "cta"}]

MCTagMarks == [k \in Pillars |-> IF k = "company" THEN {"PARTNER"} ELSE {}]

MCClasses == {"PUBLIC", "PUBLIC_AFTER_APPROVAL", "INTERNAL_ONLY"}
MCPublishable == {"PUBLIC", "PUBLIC_AFTER_APPROVAL"}

Blank == [part \in Parts |-> {}]

Routine == [class |-> "PUBLIC", requirement |-> "AUTO_APPROVED", pillar |-> "education",
            text |-> Blank, media |-> FALSE]
Claim     == [Routine EXCEPT !.class = "PUBLIC_AFTER_APPROVAL",
                             !.text = [Blank EXCEPT !["rest"] = {"CUSTOMER"}]]
Milestone == [Routine EXCEPT !.pillar = "company"]
Trend     == [Routine EXCEPT !.class = "PUBLIC_AFTER_APPROVAL",
                             !.requirement = "HUMAN_APPROVAL_REQUIRED"]
Barred    == [Routine EXCEPT !.text = [Blank EXCEPT !["topic"] = {"RESTRICTED"}]]
Filler    == [Routine EXCEPT !.text = [Blank EXCEPT !["cta"] = {"UNSTYLED"}]]
Visual    == [Routine EXCEPT !.media = TRUE]

MCSubjects == {Routine, Claim, Milestone, Trend, Barred, Filler, Visual}

MCModelTexts == {{}, {"CUSTOMER"}, {"PROHIBITED"}}

MCConfigs ==
    {[mode |-> "MODE_3_MIXED", strict |-> TRUE, ai |-> TRUE, drafts |-> FALSE],
     [mode |-> "MODE_3_MIXED", strict |-> FALSE, ai |-> FALSE, drafts |-> TRUE],
     [mode |-> "MODE_2_TRUSTED_AUTOPUBLISH", strict |-> FALSE, ai |-> FALSE, drafts |-> FALSE],
     [mode |-> "MODE_1_APPROVAL_REQUIRED", strict |-> FALSE, ai |-> FALSE, drafts |-> FALSE]}
===============================================================================
