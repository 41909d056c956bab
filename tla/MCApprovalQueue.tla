--------------------------- MODULE MCApprovalQueue ---------------------------
(* Instances of ApprovalQueue: a captured trend draft that only a person may *)
(* release (h), routine education a rule may release (a), and a company      *)
(* claim that is blocked until evidence is linked (e); in some run the copy  *)
(* of each has a prohibited phrase.                                          *)
EXTENDS ApprovalQueue

MCClasses == {"PUBLIC", "PUBLIC_AFTER_APPROVAL", "INTERNAL_ONLY"}
MCPublishable == {"PUBLIC", "PUBLIC_AFTER_APPROVAL"}

Plain == [class |-> "PUBLIC", requirement |-> "AUTO_APPROVED", pillar |-> "education",
          restricted |-> FALSE, sensitive |-> {}, prohibited |-> FALSE, bareMedia |-> FALSE]

ContentByName ==
    [h |-> [Plain EXCEPT !.class = "PUBLIC_AFTER_APPROVAL",
                         !.requirement = "HUMAN_APPROVAL_REQUIRED"],
     a |-> Plain,
     e |-> [Plain EXCEPT !.sensitive = {"CUSTOMER"}]]

MCContentOf == [i \in Items |-> ContentByName[i]]

MCLooks ==
    [i \in Items |-> {ContentByName[i], [ContentByName[i] EXCEPT !.prohibited = TRUE]}]

AllModes == Modes
===============================================================================
