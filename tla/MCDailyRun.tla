------------------------------ MODULE MCDailyRun ------------------------------
(* Instances of DailyRun: "h" is a captured trend draft only a person may    *)
(* release, whose copy has a prohibited phrase in some runs, "a" routine     *)
(* education a rule may release, "e" a company claim blocked until evidence  *)
(* is linked.  A variant is named after its item: h1 belongs to h.           *)
EXTENDS DailyRun

MCClasses == {"PUBLIC", "PUBLIC_AFTER_APPROVAL", "INTERNAL_ONLY"}
MCPublishable == {"PUBLIC", "PUBLIC_AFTER_APPROVAL"}

Plain == [class |-> "PUBLIC", requirement |-> "AUTO_APPROVED", pillar |-> "education",
          restricted |-> FALSE, sensitive |-> {}, prohibited |-> FALSE, bareMedia |-> FALSE]

ContentByName ==
    [h |-> [Plain EXCEPT !.class = "PUBLIC_AFTER_APPROVAL",
                         !.requirement = "HUMAN_APPROVAL_REQUIRED"],
     a |-> Plain,
     e |-> [Plain EXCEPT !.sensitive = {"CUSTOMER"}]]

MCContentOf == [i \in Items |-> ContentByName[i]]

MCLooks ==
    [i \in Items |-> IF i = "h"
       THEN {ContentByName[i], [ContentByName[i] EXCEPT !.prohibited = TRUE]}
       ELSE {ContentByName[i]}]

ItemByVariant == [h1 |-> "h", a1 |-> "a", a2 |-> "a"]

MCItemOf == [v \in Variants |-> ItemByVariant[v]]

Faultless == {Sent, Staged, Refused, Outage}
SomeAnswers == {Sent, Outage, NotTransmitted}
CreatedOnly == {Sent, Staged}
FromBuffer == BufferAnswers

MixedOrHuman == {"MODE_1_APPROVAL_REQUIRED", "MODE_3_MIXED"}
TrustedOrHuman == {"MODE_1_APPROVAL_REQUIRED", "MODE_2_TRUSTED_AUTOPUBLISH"}
===============================================================================
