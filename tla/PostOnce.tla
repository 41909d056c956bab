------------------------------- MODULE PostOnce -------------------------------
(***************************************************************************)
(* What app/publisher/service.py promises about the provider, without      *)
(* saying how: a variant known to be live is not posted ("Re-publishing    *)
(* would double-post", service.py:104), and what is on record stays known. *)
(* A variant is posted again only when its post is not known: its reply    *)
(* was lost, or the run died before it had recorded it.                    *)
(***************************************************************************)
EXTENDS Naturals

CONSTANTS Variants, Cap    \* bound: posts are counted up to Cap

VARIABLES posts,      \* how often each variant has been posted
          known,      \* variants that whoever publishes now knows to be live
          recorded    \* variants on record as live, for every later run to see

Init == posts = [v \in Variants |-> 0] /\ known = {} /\ recorded = {}

OneMore(v) == posts' = [posts EXCEPT ![v] = IF @ < Cap THEN @ + 1 ELSE @]

Post(v) ==
    /\ v \notin known
    /\ OneMore(v)
    /\ known' = known \cup {v}
    /\ UNCHANGED recorded

PostUnheard(v) == v \notin known /\ OneMore(v) /\ UNCHANGED <<known, recorded>>

Record == recorded' = known /\ UNCHANGED <<posts, known>>

\* The run dies, possibly in the middle of a post.
Die ==
    /\ UNCHANGED posts \/ \E v \in Variants \ known : OneMore(v)
    /\ known' = recorded
    /\ UNCHANGED recorded

Next == (\E v \in Variants : Post(v) \/ PostUnheard(v)) \/ Record \/ Die

Spec == Init /\ [][Next]_<<posts, known, recorded>>
===============================================================================
