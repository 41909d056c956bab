-------------------------- MODULE MCCalendarPlanner --------------------------
(* Three days: a first one whose slots meet the daily ceiling and the        *)
(* spacing, a second one with shared slots, and a last one that meets the    *)
(* weekly ceiling.  Two items share a body on linkedin, one has a body too   *)
(* short for facebook, one has no variant there.                             *)
EXTENDS CalendarPlanner

Slot(day, at, platform, pillars) ==
    [day |-> day, at |-> at, platform |-> platform, pillars |-> pillars]

MCGrid ==
    {Slot(1, 8, "facebook", <<"edu">>), Slot(1, 8, "linkedin", <<"edu">>),
     Slot(1, 20, "linkedin", <<"edu">>),
     Slot(2, 39, "linkedin", <<"cap", "edu">>), Slot(2, 39, "facebook", <<"cap", "edu">>),
     Slot(3, 60, "linkedin", <<"edu">>)}

MCPlatformRank == [facebook |-> 1, linkedin |-> 2]

MCPillarOf == [a |-> "edu", b |-> "edu", c |-> "cap"]

MCBodyOf ==
    [a |-> [facebook |-> "x", linkedin |-> "y"],
     b |-> [facebook |-> "none", linkedin |-> "z"],
     c |-> [facebook |-> "tiny", linkedin |-> "y"]]
===============================================================================
