------------------------------- MODULE DraftOnce -------------------------------
(***************************************************************************)
(* What the capture bridge promises its sender, without saying how: a trend *)
(* event becomes one draft of its own and keeps it ("An accepted event      *)
(* becomes one HUMAN_APPROVAL_REQUIRED draft", "Duplicate POST -> same      *)
(* event, same draft", docs/RDX-PLATFORM-STANDARD-v1.md:236-248).           *)
(***************************************************************************)
EXTENDS Naturals

CONSTANTS Events, MaxNumber

VARIABLE draft      \* the content number of each event's draft, 0 while it has none

Init == draft \in [Events -> 0 .. MaxNumber]

Convert(S) ==
    /\ \A e \in S : draft[e] = 0
    /\ \E new \in [S -> 1 .. MaxNumber] :
          /\ \A e, f \in S : new[e] = new[f] => e = f
          /\ \A e \in S, f \in Events \ S : new[e] # draft[f]
          /\ draft' = [e \in Events |-> IF e \in S THEN new[e] ELSE draft[e]]

Next == \E S \in SUBSET Events : Convert(S)

Spec == Init /\ [][Next]_draft
===============================================================================
