---------------------------- MODULE CalendarPlanner ----------------------------
(***************************************************************************)
(* The calendar of app/calendar/planner.py as the daily run uses it: the   *)
(* week's slots are planned anew in every run (plan_week, fill_slots),     *)
(* written over the rows of earlier runs (persist), and what is dated      *)
(* today is published.  One week is modelled; rows of other weeks are      *)
(* under other keys.                                                       *)
(*                                                                         *)
(* An item is abstracted to its pillar and, per platform, the fingerprint  *)
(* of its body and whether that is long enough; what the provider answers  *)
(* to whether the variant is live afterwards (DailyRun has the rest).      *)
(***************************************************************************)
EXTENDS Naturals, FiniteSets, Sequences

CONSTANTS
    Grid,            \* slots of a week: [day, at, platform, pillars], at in hours from Monday
    PlatformRank,    \* the alphabetical order of the platforms
    Items,
    PillarOf,
    BodyOf,          \* [item][platform]: a fingerprint, or NoBody without a variant
    ShortBodies,     \* fingerprints of bodies below min_body_chars
    NoBody,
    MaxPerDay,       \* max_posts_per_day
    MaxPerWeek,      \* max_posts_per_week
    MinGap,          \* min_hours_between_posts_same_platform
    Days             \* bound: the last day of the week on which there is a run

Platforms == DOMAIN PlatformRank
NoItem    == "nothing"

ASSUME PlannerAssumption ==
    /\ IsFiniteSet(Items)
    /\ NoItem \notin Items
    /\ PlatformRank \in [Platforms -> Nat]
    /\ \A s \in Grid : s.day \in Nat /\ s.at \in Nat /\ s.platform \in Platforms
    /\ \A s \in Grid : DOMAIN s.pillars \subseteq Nat
    /\ \A s, t \in Grid :
          <<s.at, s.platform>> = <<t.at, t.platform>> => s = t
    /\ \A s, t \in Grid : s.day < t.day => s.at < t.at
    /\ MaxPerDay \in Nat /\ MaxPerWeek \in Nat /\ MinGap \in Nat /\ Days \in Nat

VARIABLES
    approved,    \* items a run would find APPROVED, classified and not blocked
    old,         \* items whose variants were created before the lookback window
    pubs,        \* publications by item and platform
    plan,        \* schedule_slots
    today,
    phase,       \* where the run is
    order,       \* its approved candidates, in the order of the SELECT
    todo,        \* slots it has not come to
    rows         \* the slots as it has filled or skipped them

runVars == <<phase, order, todo, rows>>
vars    == <<approved, old, pubs, plan, today, runVars>>

Reasons == {"none", "candidate", "variant", "short", "daily", "weekly", "spacing", "duplicate"}
SlotRow == [status : {"OPEN", "FILLED", "SKIPPED"}, item : Items \cup {NoItem}, reason : Reasons]

\* Seeded bug: the reason lands in status.
SkippedInStatus(r) == [status |-> r, item |-> NoItem, reason |-> r]

Open       == [status |-> "OPEN", item |-> NoItem, reason |-> "none"]
Filled(i)  == [status |-> "FILLED", item |-> i, reason |-> "none"]
Skipped(r) == [status |-> "SKIPPED", item |-> NoItem, reason |-> r]

FilledIn(table) == {s \in Grid : table[s].status = "FILLED"}

Init ==
    /\ approved = {} /\ old = {}
    /\ pubs = [i \in Items |-> [p \in Platforms |-> "NONE"]]
    /\ plan = [s \in Grid |-> Open]
    /\ today = 1
    /\ phase = "idle" /\ order = <<>> /\ todo = {}
    /\ rows = plan
-------------------------------------------------------------------------------
\* An item is approved, or rejected or blocked after all.  The run reads the items
\* once, so a decision made meanwhile is to the calendar one made afterwards.
Decide(i) ==
    /\ phase = "idle"
    /\ approved' = IF i \in approved THEN approved \ {i} ELSE approved \cup {i}
    /\ UNCHANGED <<old, pubs, plan, today, runVars>>

\* A day goes by, and some variants leave the lookback window.
NextDay(aged) ==
    /\ phase = "idle" /\ today < Days
    /\ today' = today + 1
    /\ old' = old \cup aged
    /\ UNCHANGED <<approved, pubs, plan, runVars>>
-------------------------------------------------------------------------------
\* plan_week: the empty grid; the candidates come in no particular order.
StartRun ==
    /\ phase = "idle"
    /\ phase' = "plan"
    /\ order' \in {q \in [1 .. Cardinality(approved) -> approved] :
                     \A i \in approved : \E k \in DOMAIN q : q[k] = i}
    /\ todo' = Grid
    /\ rows' = [s \in Grid |-> Open]
    /\ UNCHANGED <<approved, old, pubs, plan, today>>

Earlier(s, t) ==
    \/ s.at < t.at
    \/ s.at = t.at /\ PlatformRank[s.platform] < PlatformRank[t.platform]

\* Seeded bug: a second platform of the same item does not count.
WeekTotalByItem == Cardinality({rows[s].item : s \in FilledIn(rows)})

\* The counters of fill_slots, read off the slots filled so far.
WeekTotal     == Cardinality(FilledIn(rows))
PerDay(day)   == Cardinality({s \in FilledIn(rows) : s.day = day})
AssignedTo(i) == {s.day : s \in {t \in FilledIn(rows) : rows[t].item = i}}
TooClose(s)   == \E t \in FilledIn(rows) : t.platform = s.platform /\ s.at < t.at + MinGap

\* find_duplicate_variant: the other recent variants with this body.
Twins(i, p) ==
    {j \in Items \ ({i} \cup old) : BodyOf[j][p] = BodyOf[i][p]}

\* _recently_published looks at one of them, whichever the query returns.
RecentlyPublished(i, p) ==
    IF Twins(i, p) = {} THEN {FALSE} ELSE {pubs[j][p] = "LIVE" : j \in Twins(i, p)}

\* Where the pillar of an item stands in the list of a slot.
Places(s, i) == {k \in DOMAIN s.pillars : s.pillars[k] = PillarOf[i]}

\* Seeded bugs: the item is not held to its day; the second pillar is not tried.
ConsideredAnyDay(s) == {n \in DOMAIN order : Places(s, order[n]) # {}}
ConsideredFirst(s)  ==
    {n \in DOMAIN order : PillarOf[order[n]] = s.pillars[1] /\ AssignedTo(order[n]) \subseteq {s.day}}

\* The candidates _choose looks at: of a pillar of the slot, on no other day.
Considered(s) ==
    {n \in DOMAIN order : Places(s, order[n]) # {} /\ AssignedTo(order[n]) \subseteq {s.day}}

\* What it finds out about one of them.
Verdict(s, n, duplicate) ==
    LET body == BodyOf[order[n]][s.platform]
    IN  CASE body = NoBody         -> "variant"
          [] body \in ShortBodies  -> "short"
          [] body \notin ShortBodies \cup {NoBody} /\ duplicate -> "duplicate"
          [] OTHER                 -> "none"

\* Seeded bug: the loop goes through the candidates first.
BeforeByCandidate(s, m, n) == m <= n

\* The loop goes pillar by pillar, and through the candidates for each.
Before(s, m, n) ==
    LET first(k) == CHOOSE a \in Places(s, order[k]) : \A b \in Places(s, order[k]) : a <= b
    IN  \/ first(m) < first(n)
        \/ first(m) = first(n) /\ m <= n

\* The reason of a slot no candidate fits: the last body refused, else a missing variant.
ReasonOf(s, seen, verdict) ==
    LET refused == {n \in seen : verdict[n] # "variant"}
    IN  CASE seen = {}    -> {"candidate"}
          [] seen # {} /\ refused = {} -> {"variant"}
          [] OTHER -> {verdict[n] : n \in {k \in refused : \A m \in refused : Before(s, m, k)}}

\* What _choose may return, as the row it leads to: the first that fits.
Row(s, seen, verdict) ==
    LET fit == {n \in seen : verdict[n] = "none"}
    IN  IF fit = {} THEN {Skipped(r) : r \in ReasonOf(s, seen, verdict)}
        ELSE {Filled(order[n]) : n \in {k \in fit : \A m \in fit : Before(s, k, m)}}

Outcomes(s) ==
    LET seen == Considered(s)
    IN  UNION {Row(s, seen, [n \in seen |-> Verdict(s, n, duplicate[n])]) :
            duplicate \in {d \in [seen -> BOOLEAN] :
                \A n \in seen : d[n] \in RecentlyPublished(order[n], s.platform)}}

\* The ceilings come first, the week before the day before the spacing.
RowsFor(s) ==
    IF WeekTotal >= MaxPerWeek THEN {Skipped("weekly")}
    ELSE IF PerDay(s.day) >= MaxPerDay THEN {Skipped("daily")}
    ELSE IF TooClose(s) THEN {Skipped("spacing")}
    ELSE Outcomes(s)

\* One iteration of fill_slots.
FillSlot(s) ==
    /\ phase = "plan"
    /\ s \in todo /\ \A t \in todo \ {s} : Earlier(s, t)
    /\ todo' = todo \ {s}
    /\ \E row \in RowsFor(s) : rows' = [rows EXCEPT ![s] = row]
    /\ UNCHANGED <<approved, old, pubs, plan, today, phase, order>>

Forget ==
    /\ phase' = "idle" /\ order' = <<>> /\ todo' = {}
    /\ rows' = [s \in Grid |-> Open]

\* persist: every slot of the week, over what an earlier run wrote.
Persist == plan' = rows

DueToday == {<<rows[s].item, s.platform>> : s \in {t \in FilledIn(rows) : t.day = today}}
Failed   == {v \in Items \X Platforms : pubs[v[1]][v[2]] = "FAILED"}

\* _publish_due of the slots dated today and _retry_failed of what failed before,
\* each refused, failed or live, and nothing that is live; then the commit.
PublishAndCommit ==
    /\ phase = "plan" /\ todo = {}
    /\ Persist
    /\ \E sent \in SUBSET {v \in DueToday \cup Failed : pubs[v[1]][v[2]] # "LIVE"} :
          \E live \in SUBSET sent :
             pubs' = [i \in Items |-> [p \in Platforms |->
                CASE <<i, p>> \in live        -> "LIVE"
                  [] <<i, p>> \in sent \ live -> "FAILED"
                  [] OTHER                    -> pubs[i][p]]]
    /\ Forget
    /\ UNCHANGED <<approved, old, today>>

\* The run is rolled back.
Rollback ==
    /\ phase = "plan"
    /\ Forget
    /\ UNCHANGED <<approved, old, pubs, plan, today>>

Next ==
    \/ \E i \in Items : Decide(i)
    \/ \E aged \in SUBSET Items : NextDay(aged)
    \/ StartRun
    \/ \E s \in Grid : FillSlot(s)
    \/ PublishAndCommit
    \/ Rollback

Spec == Init /\ [][Next]_vars
-------------------------------------------------------------------------------
\* TypeOK: the slots, the publications and the run have the shape of the code.
TypeOK ==
    /\ approved \in SUBSET Items /\ old \in SUBSET Items
    /\ pubs \in [Items -> [Platforms -> {"NONE", "FAILED", "LIVE"}]]
    /\ plan \in [Grid -> SlotRow] /\ rows \in [Grid -> SlotRow]
    /\ today \in Nat
    /\ phase \in {"idle", "plan"}
    /\ order \in Seq(Items)
    /\ todo \in SUBSET Grid

\* CeilingsHold: the stored calendar never has more posts on a day or in the
\* week, or posts on a platform closer together, than cadence.yaml allows,
\* however many runs have written it over each other.
Ceilings(table) ==
    LET filled == FilledIn(table)
    IN  /\ Cardinality(filled) <= MaxPerWeek
        /\ \A d \in {s.day : s \in filled} :
              Cardinality({s \in filled : s.day = d}) <= MaxPerDay
        /\ \A s, t \in filled :
              s.platform = t.platform /\ s.at < t.at => s.at + MinGap <= t.at

CeilingsHold == Ceilings(plan)

\* The week as far as the run has come: what is left is open and comes after
\* everything that is filled or skipped.
RunInv ==
    /\ phase = "idle" => todo = {}
    /\ \A s \in Grid : rows[s].status = "OPEN" <=> phase = "idle" \/ s \in todo
    /\ \A s \in todo, t \in Grid \ todo : Earlier(t, s)

\* The inductive form of CeilingsHold.
CeilingInv ==
    /\ IsFiniteSet(FilledIn(rows)) /\ Ceilings(rows)
    /\ IsFiniteSet(FilledIn(plan)) /\ Ceilings(plan)

\* OneDayPerItem: in the stored calendar an item fills slots of one day only
\* ("the same idea running again on a different day", planner.py:181-184).
OneDay(table) ==
    \A s, t \in FilledIn(table) : table[s].item = table[t].item => s.day = t.day

OneDayPerItem == OneDay(plan)

\* Its inductive form: the slots the run is filling keep to it as well.
DayInv == OneDay(plan) /\ OneDay(rows)

\* What a candidate lacks for a slot, told from the finished plan.
Planned == phase = "plan" /\ todo = {}

Candidates(s) == {i \in {order[n] : n \in DOMAIN order} : Places(s, i) # {}}
RunsOnEarlierDay(s, i) ==
    \E t \in FilledIn(rows) : t.day < s.day /\ rows[t].item = i
HasBody(s, i)  == BodyOf[i][s.platform] # NoBody
IsShort(s, i)  == BodyOf[i][s.platform] \in ShortBodies
HasTwin(s, i)  == \E j \in Twins(i, s.platform) : pubs[j][s.platform] = "LIVE"
Qualified(s, i) ==
    ~RunsOnEarlierDay(s, i) /\ HasBody(s, i) /\ ~IsShort(s, i) /\ ~HasTwin(s, i)

\* SkipsAreJustified: a slot is skipped only if a ceiling is reached by earlier
\* slots or no candidate of its pillars qualifies, and for the recorded reason
\* ("skipped and the reason is recorded", README.md:99-100).
Justified(s) ==
    LET before == {t \in FilledIn(rows) : Earlier(t, s)}
        reason == rows[s].reason
    IN  CASE reason = "weekly"  -> Cardinality(before) >= MaxPerWeek
          [] reason = "daily"   -> Cardinality({t \in before : t.day = s.day}) >= MaxPerDay
          [] reason = "spacing" -> \E t \in before : t.platform = s.platform /\ s.at < t.at + MinGap
          [] OTHER              ->
               /\ \A i \in Candidates(s) : ~Qualified(s, i)
               /\ reason = "candidate" => \A i \in Candidates(s) : RunsOnEarlierDay(s, i)
               /\ reason = "variant" => \E i \in Candidates(s) : ~HasBody(s, i)
               /\ reason = "short" => \E i \in Candidates(s) : IsShort(s, i)
               /\ reason = "duplicate" => \E i \in Candidates(s) : HasTwin(s, i)

SkipsAreJustified ==
    Planned => \A s \in {t \in Grid : rows[t].status = "SKIPPED"} : Justified(s)

\* EditorsOrder: a shared slot runs the first of its pillars that has anything
\* qualified ("the order in cadence.yaml decides", planner.py:55-57).
FirstChoice(s) ==
    \E k \in Places(s, rows[s].item) :
       \A i \in Candidates(s) : Qualified(s, i) => \A l \in Places(s, i) : k <= l

EditorsOrder == Planned => \A s \in FilledIn(rows) : FirstChoice(s)

\* Both hold of every slot from the moment the run comes to it: what it fills
\* later is neither earlier nor on an earlier day.
ChoiceInv ==
    \A s \in Grid \ todo :
       /\ rows[s].status = "SKIPPED" => Justified(s)
       /\ rows[s].status = "FILLED" => FirstChoice(s)
===============================================================================
