------------------------- MODULE CalendarPlanner_proofs -------------------------
(***************************************************************************)
(* Theorems about CalendarPlanner, for any grid, items and limits.         *)
(***************************************************************************)
EXTENDS CalendarPlanner, FiniteSetTheorems, WellFoundedInduction, TLAPS

\* A slot that is filled got one of the candidates _choose considered; any other
\* row is a skip with one of the reasons.
LEMMA RowsOutcome ==
    ASSUME TypeOK, NEW s \in Grid, NEW row \in RowsFor(s)
    PROVE  \/ \E n \in Considered(s) : row = Filled(order[n])
           \/ \E r \in Reasons : row = Skipped(r)
<1>1. CASE row \notin Outcomes(s)
  BY <1>1 DEF RowsFor, Reasons
<1>2. CASE row \in Outcomes(s)
  <2>1. PICK duplicate \in [Considered(s) -> BOOLEAN] :
           row \in Row(s, Considered(s), [n \in Considered(s) |-> Verdict(s, n, duplicate[n])])
    BY <1>2 DEF Outcomes
  <2> DEFINE verdict == [n \in Considered(s) |-> Verdict(s, n, duplicate[n])]
  <2>2. \A n \in Considered(s) : verdict[n] \in Reasons
    BY DEF Verdict, Reasons
  <2>3. row \in Row(s, Considered(s), verdict)
    BY <2>1
  <2> HIDE DEF verdict
  <2>4. ReasonOf(s, Considered(s), verdict) \subseteq Reasons
    BY <2>2 DEF ReasonOf, Reasons
  <2>5. QED
    BY <2>3, <2>4 DEF Row
<1>3. QED
  BY <1>1, <1>2

LEMMA RowsTyped ==
    ASSUME TypeOK, NEW s \in Grid, NEW row \in RowsFor(s)
    PROVE  row \in SlotRow
<1>1. \A n \in Considered(s) : order[n] \in Items
  BY DEF Considered, TypeOK
<1>2. \A n \in Considered(s) : Filled(order[n]) \in SlotRow
  BY <1>1 DEF Filled, SlotRow, Reasons
<1>3. \A r \in Reasons : Skipped(r) \in SlotRow
  BY DEF Skipped, SlotRow
<1>4. QED
  BY <1>2, <1>3, RowsOutcome

LEMMA OpenTyped == Open \in SlotRow
BY DEF Open, SlotRow, Reasons

\* The SELECT returns a sequence of items.
LEMMA OrderTyped ==
    ASSUME NEW A \in SUBSET Items, NEW q \in [1 .. Cardinality(A) -> A]
    PROVE  q \in Seq(Items)
<1>1. IsFiniteSet(A)
  BY PlannerAssumption, FS_Subset
<1>2. Cardinality(A) \in Nat
  BY <1>1, FS_CardinalityType
<1>3. QED
  BY <1>2

LEMMA ForgetTyped ==
    ASSUME TypeOK, Forget
    PROVE  /\ phase' \in {"idle", "plan"} /\ order' \in Seq(Items)
           /\ todo' \in SUBSET Grid /\ rows' \in [Grid -> SlotRow]
BY OpenTyped DEF Forget

\* The calendar, the publications and the run keep their shape, whatever the
\* grid, the limits and the number of items and runs.
THEOREM PlannerTypeCorrect == Spec => []TypeOK
<1>1. Init => TypeOK
  BY OpenTyped DEF Init, TypeOK
<1>2. TypeOK /\ [Next]_vars => TypeOK'
  <2> SUFFICES ASSUME TypeOK, [Next]_vars PROVE TypeOK'
    OBVIOUS
  <2>1. ASSUME NEW i \in Items, Decide(i) PROVE TypeOK'
    BY <2>1 DEF Decide, TypeOK, runVars
  <2>2. ASSUME NEW aged \in SUBSET Items, NextDay(aged) PROVE TypeOK'
    BY <2>2 DEF NextDay, TypeOK, runVars
  <2>3. CASE StartRun
    <3>1. order' \in Seq(Items)
      BY <2>3, OrderTyped DEF StartRun, TypeOK
    <3>2. QED
      BY <2>3, <3>1, OpenTyped DEF StartRun, TypeOK
  <2>4. ASSUME NEW s \in Grid, FillSlot(s) PROVE TypeOK'
    <3>1. rows' \in [Grid -> SlotRow]
      BY <2>4, RowsTyped DEF FillSlot, TypeOK
    <3>2. QED
      BY <2>4, <3>1 DEF FillSlot, TypeOK
  <2>5. CASE PublishAndCommit
    <3>1. plan' \in [Grid -> SlotRow]
      BY <2>5 DEF PublishAndCommit, Persist, TypeOK
    <3>2. pubs' \in [Items -> [Platforms -> {"NONE", "FAILED", "LIVE"}]]
      BY <2>5 DEF PublishAndCommit, TypeOK
    <3>3. QED
      BY <2>5, <3>1, <3>2, ForgetTyped DEF PublishAndCommit, TypeOK
  <2>6. CASE Rollback
    BY <2>6, ForgetTyped DEF Rollback, TypeOK
  <2>7. CASE UNCHANGED vars
    BY <2>7 DEF vars, runVars, TypeOK
  <2>8. QED
    BY <2>1, <2>2, <2>3, <2>4, <2>5, <2>6, <2>7 DEF Next
<1>3. QED
  BY <1>1, <1>2, PTL DEF Spec

\* An empty week holds every item to one day.
LEMMA OpenOneDay == OneDay([s \in Grid |-> Open])
BY DEF OneDay, FilledIn, Open

\* Filling one more slot keeps every item on one day: _choose passes over an
\* item that has been given to another day.
LEMMA FillOneDay ==
    ASSUME TypeOK, OneDay(rows), NEW s \in Grid, NEW row \in RowsFor(s)
    PROVE  OneDay([rows EXCEPT ![s] = row])
<1> DEFINE new == [rows EXCEPT ![s] = row]
<1>1. new \in [Grid -> SlotRow] /\ new[s] = row /\ \A t \in Grid \ {s} : new[t] = rows[t]
  BY RowsTyped DEF TypeOK
<1>2. ASSUME row.status = "FILLED", NEW t \in FilledIn(rows), rows[t].item = row.item
      PROVE  t.day = s.day
  <2>1. PICK n \in Considered(s) : row = Filled(order[n])
    BY <1>2, RowsOutcome DEF Skipped
  <2>2. AssignedTo(row.item) \subseteq {s.day}
    BY <2>1 DEF Considered, Filled
  <2>3. t.day \in AssignedTo(row.item)
    BY <1>2 DEF AssignedTo
  <2>4. QED
    BY <2>2, <2>3
<1>3. QED
  <2> SUFFICES ASSUME NEW t \in FilledIn(new), NEW u \in FilledIn(new),
                      new[t].item = new[u].item
               PROVE  t.day = u.day
    BY DEF OneDay
  <2>1. t \in Grid /\ u \in Grid /\ new[t].status = "FILLED" /\ new[u].status = "FILLED"
    BY DEF FilledIn
  <2> HIDE DEF new
  <2>2. \A v \in {t, u} : v # s => v \in FilledIn(rows) /\ rows[v] = new[v]
    BY <1>1, <2>1 DEF FilledIn
  <2>3. CASE t = s /\ u = s
    BY <2>3
  <2>4. CASE t = s /\ u # s
    BY <1>1, <1>2, <2>1, <2>2, <2>4
  <2>5. CASE t # s /\ u = s
    BY <1>1, <1>2, <2>1, <2>2, <2>5
  <2>6. CASE t # s /\ u # s
    BY <2>2, <2>6 DEF OneDay
  <2>7. QED
    BY <2>3, <2>4, <2>5, <2>6

\* However often the week is planned again, the stored calendar runs an item on
\* one day only (planner.py:181-184).
THEOREM ItemsKeepTheirDay == Spec => []OneDayPerItem
<1>1. Init => DayInv
  BY OpenOneDay DEF Init, DayInv
<1>2. TypeOK /\ DayInv /\ [Next]_vars => DayInv'
  <2> SUFFICES ASSUME TypeOK, DayInv, [Next]_vars PROVE DayInv'
    OBVIOUS
  <2> USE DEF DayInv
  <2>1. ASSUME NEW i \in Items, Decide(i) PROVE DayInv'
    BY <2>1 DEF Decide, runVars, OneDay, FilledIn
  <2>2. ASSUME NEW aged \in SUBSET Items, NextDay(aged) PROVE DayInv'
    BY <2>2 DEF NextDay, runVars, OneDay, FilledIn
  <2>3. CASE StartRun
    BY <2>3, OpenOneDay DEF StartRun, OneDay, FilledIn
  <2>4. ASSUME NEW s \in Grid, FillSlot(s) PROVE DayInv'
    <3>1. PICK row \in RowsFor(s) : rows' = [rows EXCEPT ![s] = row]
      BY <2>4 DEF FillSlot
    <3>2. OneDay(rows')
      BY <3>1, FillOneDay
    <3>3. QED
      BY <2>4, <3>2 DEF FillSlot, OneDay, FilledIn
  <2>5. CASE PublishAndCommit
    BY <2>5, OpenOneDay DEF PublishAndCommit, Persist, Forget, OneDay, FilledIn
  <2>6. CASE Rollback
    BY <2>6, OpenOneDay DEF Rollback, Forget, OneDay, FilledIn
  <2>7. CASE UNCHANGED vars
    BY <2>7 DEF vars, runVars, OneDay, FilledIn
  <2>8. QED
    BY <2>1, <2>2, <2>3, <2>4, <2>5, <2>6, <2>7 DEF Next
<1>3. DayInv => OneDayPerItem
  BY DEF DayInv, OneDayPerItem
<1>4. QED
  BY <1>1, <1>2, <1>3, PlannerTypeCorrect, PTL DEF Spec
-------------------------------------------------------------------------------
(* The order of the slots, and what filling one does.                        *)

LEMMA EarlierOnce ==
    ASSUME NEW s \in Grid, NEW t \in Grid, Earlier(s, t)
    PROVE  s # t /\ ~Earlier(t, s) /\ s.at <= t.at /\ ~(t.day < s.day)
<1>1. /\ s.at \in Nat /\ t.at \in Nat /\ PlatformRank[s.platform] \in Nat
      /\ PlatformRank[t.platform] \in Nat /\ (t.day < s.day => t.at < s.at)
  BY PlannerAssumption
<1>2. QED
  BY <1>1 DEF Earlier

\* A slot the run comes to is open, and all that is filled comes before it.
LEMMA FillEffect ==
    ASSUME TypeOK, RunInv, NEW s \in Grid, FillSlot(s)
    PROVE  /\ s \in todo /\ phase = "plan" /\ phase' = "plan" /\ todo' = todo \ {s}
           /\ s \notin FilledIn(rows)
           /\ \A t \in FilledIn(rows) : Earlier(t, s)
           /\ \A t \in todo' : Earlier(s, t)
           /\ \E row \in RowsFor(s) :
                 /\ row \in SlotRow /\ row.status # "OPEN"
                 /\ rows' \in [Grid -> SlotRow] /\ rows'[s] = row
                 /\ \A t \in Grid \ {s} : rows'[t] = rows[t]
                 /\ row.status # "FILLED" => FilledIn(rows') = FilledIn(rows)
                 /\ row.status = "FILLED" => FilledIn(rows') = FilledIn(rows) \cup {s}
<1>1. /\ s \in todo /\ phase = "plan" /\ phase' = "plan" /\ todo' = todo \ {s}
      /\ \A t \in todo' : Earlier(s, t)
  BY DEF FillSlot
<1>2. s \notin FilledIn(rows) /\ \A t \in FilledIn(rows) : Earlier(t, s)
  BY <1>1 DEF RunInv, FilledIn
<1>3. PICK row \in RowsFor(s) : rows' = [rows EXCEPT ![s] = row]
  BY DEF FillSlot
<1>4. row \in SlotRow
  BY RowsTyped
<1>5. row.status # "OPEN"
  BY RowsOutcome DEF Filled, Skipped
<1>6. /\ rows' \in [Grid -> SlotRow] /\ rows'[s] = row
      /\ \A t \in Grid \ {s} : rows'[t] = rows[t]
  BY <1>3, <1>4 DEF TypeOK
<1>7. row.status # "FILLED" => FilledIn(rows') = FilledIn(rows)
  BY <1>2, <1>6 DEF FilledIn
<1>8. row.status = "FILLED" => FilledIn(rows') = FilledIn(rows) \cup {s}
  BY <1>2, <1>6 DEF FilledIn
<1>9. QED
  BY <1>1, <1>2, <1>4, <1>5, <1>6, <1>7, <1>8

LEMMA RunInvariant == Spec => [](TypeOK /\ RunInv)
<1>1. Init => RunInv
  BY DEF Init, RunInv, Open
<1>2. TypeOK /\ RunInv /\ [Next]_vars => RunInv'
  <2> SUFFICES ASSUME TypeOK, RunInv, [Next]_vars PROVE RunInv'
    OBVIOUS
  <2>1. ASSUME UNCHANGED runVars PROVE RunInv'
    BY <2>1 DEF runVars, RunInv, Earlier
  <2>2. CASE StartRun
    BY <2>2 DEF StartRun, RunInv, Open
  <2>3. ASSUME NEW s \in Grid, FillSlot(s) PROVE RunInv'
    <3>1. /\ s \in todo /\ phase = "plan" /\ phase' = "plan" /\ todo' = todo \ {s}
          /\ \A t \in todo' : Earlier(s, t)
          /\ rows'[s].status # "OPEN" /\ \A t \in Grid \ {s} : rows'[t] = rows[t]
      BY <2>3, FillEffect
    <3>2. \A t \in Grid : rows'[t].status = "OPEN" <=> phase' = "idle" \/ t \in todo'
      BY <3>1 DEF RunInv
    <3>3. \A u \in todo', t \in Grid \ todo' : Earlier(t, u)
      BY <3>1 DEF RunInv
    <3>4. QED
      BY <3>1, <3>2, <3>3 DEF RunInv, Earlier
  <2>4. ASSUME Forget PROVE RunInv'
    BY <2>4 DEF Forget, RunInv, Open
  <2>5. QED
    BY <2>1, <2>2, <2>3, <2>4 DEF Next, Decide, NextDay, PublishAndCommit, Rollback, vars
<1>3. QED
  BY <1>1, <1>2, PlannerTypeCorrect, PTL DEF Spec
-------------------------------------------------------------------------------
(* The ceilings.                                                             *)

LEMMA OpenCeilings ==
    LET empty == [s \in Grid |-> Open]
    IN  IsFiniteSet(FilledIn(empty)) /\ Ceilings(empty)
<1> DEFINE empty == [s \in Grid |-> Open]
<1>1. FilledIn(empty) = {}
  BY DEF FilledIn, Open
<1>2. 0 <= MaxPerWeek
  BY PlannerAssumption
<1> HIDE DEF empty
<1>3. QED
  BY <1>1, <1>2, FS_EmptySet DEF Ceilings, empty

\* One more slot, filled because no ceiling was reached, keeps to the ceilings.
LEMMA FillCeilings ==
    ASSUME TypeOK, RunInv, CeilingInv, NEW s \in Grid, FillSlot(s)
    PROVE  IsFiniteSet(FilledIn(rows')) /\ Ceilings(rows')
<1> DEFINE filled == FilledIn(rows)
           On(S, d) == {t \in S : t.day = d}
<1>1. PICK row \in RowsFor(s) :
         /\ rows'[s] = row
         /\ row.status # "FILLED" => FilledIn(rows') = filled
         /\ row.status = "FILLED" => FilledIn(rows') = filled \cup {s}
  BY FillEffect
<1>2. s \notin filled /\ \A t \in filled : Earlier(t, s)
  BY FillEffect
<1>3. IsFiniteSet(filled) /\ filled \subseteq Grid
  BY DEF CeilingInv, FilledIn
<1>4. CASE row.status # "FILLED"
  BY <1>1, <1>3, <1>4 DEF CeilingInv, Ceilings
<1>5. CASE row.status = "FILLED"
  <2> DEFINE new == filled \cup {s}
  <2>1. ~(WeekTotal >= MaxPerWeek) /\ ~(PerDay(s.day) >= MaxPerDay) /\ ~TooClose(s)
    BY <1>5 DEF RowsFor, Skipped
  <2>2. /\ MaxPerDay \in Nat /\ MaxPerWeek \in Nat /\ MinGap \in Nat
        /\ \A t \in Grid : t.at \in Nat
    BY PlannerAssumption
  <2>3. IsFiniteSet(new) /\ Cardinality(new) <= MaxPerWeek
    <3>1. IsFiniteSet(new) /\ Cardinality(new) = Cardinality(filled) + 1
      BY <1>2, <1>3, FS_AddElement
    <3>2. Cardinality(filled) \in Nat
      BY <1>3, FS_CardinalityType
    <3>3. QED
      BY <2>1, <2>2, <3>1, <3>2 DEF WeekTotal
  <2>4. ASSUME NEW d \in {t.day : t \in new} PROVE Cardinality(On(new, d)) <= MaxPerDay
    <3>1. CASE d = s.day
      <4>1. On(new, d) = On(filled, d) \cup {s}
        BY <3>1
      <4>2. IsFiniteSet(On(filled, d)) /\ s \notin On(filled, d)
        BY <1>2, <1>3, FS_Subset
      <4>3. Cardinality(On(new, d)) = Cardinality(On(filled, d)) + 1
        BY <4>1, <4>2, FS_AddElement
      <4>4. Cardinality(On(filled, d)) \in Nat
        BY <4>2, FS_CardinalityType
      <4>5. QED
        BY <2>1, <2>2, <3>1, <4>3, <4>4 DEF PerDay
    <3>2. CASE d # s.day
      <4>1. On(new, d) = On(filled, d) /\ d \in {t.day : t \in filled}
        BY <3>2
      <4>2. QED
        BY <4>1 DEF CeilingInv, Ceilings
    <3>3. QED
      BY <3>1, <3>2
  <2>5. ASSUME NEW t \in new, NEW u \in new, t.platform = u.platform, t.at < u.at
        PROVE  t.at + MinGap <= u.at
    <3>1. t \in Grid /\ u \in Grid
      BY <1>3
    <3>2. t # s
      BY <1>2, <2>2, <2>5, <3>1, EarlierOnce
    <3>3. CASE u = s
      BY <2>1, <2>2, <2>5, <3>1, <3>2, <3>3 DEF TooClose
    <3>4. CASE u # s
      BY <2>5, <3>2, <3>4 DEF CeilingInv, Ceilings
    <3>5. QED
      BY <3>3, <3>4
  <2>6. FilledIn(rows') = new
    BY <1>1, <1>5
  <2> HIDE DEF new
  <2>7. QED
    BY <2>3, <2>4, <2>5, <2>6 DEF Ceilings
<1>6. QED
  BY <1>4, <1>5

\* CeilingsHold: for any grid and limits, the stored calendar keeps to the posts
\* per day and week and to the spacing, however often it is planned anew.
THEOREM CalendarKeepsCeilings == Spec => []CeilingsHold
<1>1. Init => CeilingInv
  BY OpenCeilings DEF Init, CeilingInv
<1>2. TypeOK /\ RunInv /\ CeilingInv /\ [Next]_vars => CeilingInv'
  <2> SUFFICES ASSUME TypeOK, RunInv, CeilingInv, [Next]_vars PROVE CeilingInv'
    OBVIOUS
  <2>1. CASE UNCHANGED <<rows, plan>>
    BY <2>1 DEF CeilingInv, Ceilings, FilledIn
  <2>2. ASSUME rows' = [s \in Grid |-> Open], plan' \in {plan, rows} PROVE CeilingInv'
    <3>1. IsFiniteSet(FilledIn(rows')) /\ Ceilings(rows')
      BY <2>2, OpenCeilings
    <3>2. IsFiniteSet(FilledIn(plan')) /\ Ceilings(plan')
      BY <2>2 DEF CeilingInv
    <3>3. QED
      BY <3>1, <3>2 DEF CeilingInv, Ceilings, FilledIn
  <2>3. ASSUME NEW s \in Grid, FillSlot(s) PROVE CeilingInv'
    <3>1. IsFiniteSet(FilledIn(rows')) /\ Ceilings(rows')
      BY <2>3, FillCeilings
    <3>2. plan' = plan
      BY <2>3 DEF FillSlot
    <3>3. QED
      BY <3>1, <3>2 DEF CeilingInv, Ceilings, FilledIn
  <2>4. QED
    BY <2>1, <2>2, <2>3
       DEF Next, Decide, NextDay, StartRun, PublishAndCommit, Persist, Rollback, Forget, vars,
           runVars
<1>3. CeilingInv => CeilingsHold
  BY DEF CeilingInv, CeilingsHold
<1>4. QED
  BY <1>1, <1>2, <1>3, RunInvariant, PTL DEF Spec
-------------------------------------------------------------------------------
(* The choice for a slot.                                                    *)

\* A pillar has a first place in the list of a slot.
LEMMA LeastPlace ==
    ASSUME NEW s \in Grid, NEW i, Places(s, i) # {}
    PROVE  \E a \in Places(s, i) : \A b \in Places(s, i) : a <= b
<1>1. Places(s, i) \subseteq Nat
  BY PlannerAssumption DEF Places
<1>2. PICK a \in Places(s, i) : \A b \in Places(s, i) : <<b, a>> \notin OpToRel(<, Nat)
  BY <1>1, WFMin, NatLessThanWellFounded, Zenon
<1>3. \A b \in Places(s, i) : ~(b < a)
  BY <1>1, <1>2 DEF OpToRel
<1>4. QED
  BY <1>1, <1>3

\* Every candidate of the slot's pillars is considered or runs on an earlier day.
LEMMA CandidatesConsidered ==
    ASSUME TypeOK, NEW s \in Grid, \A t \in FilledIn(rows) : Earlier(t, s),
           NEW i \in Candidates(s)
    PROVE  RunsOnEarlierDay(s, i) \/ \E n \in Considered(s) : order[n] = i
<1>1. PICK n \in DOMAIN order : order[n] = i /\ Places(s, i) # {}
  BY DEF Candidates
<1>2. CASE AssignedTo(i) \subseteq {s.day}
  BY <1>1, <1>2 DEF Considered
<1>3. CASE ~(AssignedTo(i) \subseteq {s.day})
  <2>1. PICK t \in FilledIn(rows) : rows[t].item = i /\ t.day # s.day
    BY <1>3 DEF AssignedTo
  <2>2. t \in Grid /\ ~(s.day < t.day) /\ t.day \in Nat /\ s.day \in Nat
    BY EarlierOnce, PlannerAssumption DEF FilledIn
  <2>3. t.day < s.day
    BY <2>1, <2>2
  <2>4. QED
    BY <2>1, <2>3 DEF RunsOnEarlierDay
<1>4. QED
  BY <1>2, <1>3

\* What the verdict on a considered candidate tells of it.
LEMMA VerdictTells ==
    ASSUME TypeOK, NEW s \in Grid, NEW n \in Considered(s),
           NEW duplicate \in RecentlyPublished(order[n], s.platform)
    PROVE  LET i == order[n]
               v == Verdict(s, n, duplicate)
           IN  /\ i \in Candidates(s)
               /\ v \in {"variant", "short", "duplicate", "none"}
               /\ v = "variant" => ~HasBody(s, i)
               /\ v = "short" => IsShort(s, i)
               /\ v = "duplicate" => HasTwin(s, i)
               /\ Qualified(s, i) => v = "none"
<1> DEFINE i == order[n]
           v == Verdict(s, n, duplicate)
<1>1. i \in Candidates(s)
  BY DEF Considered, Candidates
<1>2. duplicate = TRUE => HasTwin(s, i)
  BY DEF RecentlyPublished, HasTwin
<1>3. duplicate \in BOOLEAN
  BY DEF RecentlyPublished
<1>4. CASE ~HasBody(s, i)
  BY <1>1, <1>4 DEF Verdict, HasBody, IsShort, Qualified
<1>5. CASE HasBody(s, i) /\ IsShort(s, i)
  BY <1>1, <1>5 DEF Verdict, HasBody, IsShort, Qualified
<1>6. CASE HasBody(s, i) /\ ~IsShort(s, i) /\ duplicate = TRUE
  BY <1>1, <1>2, <1>6 DEF Verdict, HasBody, IsShort, Qualified
<1>7. CASE HasBody(s, i) /\ ~IsShort(s, i) /\ duplicate = FALSE
  BY <1>1, <1>7 DEF Verdict, HasBody, IsShort, Qualified
<1>8. QED
  BY <1>3, <1>4, <1>5, <1>6, <1>7

\* Why the run fills or skips a slot, told of the slots filled before it.
LEMMA ChoiceTells ==
    ASSUME TypeOK, NEW s \in Grid, \A t \in FilledIn(rows) : Earlier(t, s),
           NEW row \in RowsFor(s)
    PROVE  /\ row.status = "FILLED" =>
                 \E k \in Places(s, row.item) : \A i \in Candidates(s) :
                    Qualified(s, i) => \A l \in Places(s, i) : k <= l
           /\ row.status = "SKIPPED" =>
                 \/ row.reason = "weekly" /\ WeekTotal >= MaxPerWeek
                 \/ row.reason = "daily" /\ PerDay(s.day) >= MaxPerDay
                 \/ row.reason = "spacing" /\ TooClose(s)
                 \/ /\ row.reason \in {"candidate", "variant", "short", "duplicate"}
                    /\ \A i \in Candidates(s) : ~Qualified(s, i)
                    /\ row.reason = "candidate" =>
                          \A i \in Candidates(s) : RunsOnEarlierDay(s, i)
                    /\ row.reason = "variant" => \E i \in Candidates(s) : ~HasBody(s, i)
                    /\ row.reason = "short" => \E i \in Candidates(s) : IsShort(s, i)
                    /\ row.reason = "duplicate" => \E i \in Candidates(s) : HasTwin(s, i)
<1>1. CASE row \notin Outcomes(s)
  BY <1>1 DEF RowsFor, Skipped
<1>2. CASE row \in Outcomes(s)
  <2> DEFINE seen == Considered(s)
  <2>1. PICK duplicate \in [seen -> BOOLEAN] :
           /\ \A n \in seen : duplicate[n] \in RecentlyPublished(order[n], s.platform)
           /\ row \in Row(s, seen, [n \in seen |-> Verdict(s, n, duplicate[n])])
    BY <1>2 DEF Outcomes
  <2> DEFINE verdict == [n \in seen |-> Verdict(s, n, duplicate[n])]
             fit     == {n \in seen : verdict[n] = "none"}
             refused == {n \in seen : verdict[n] # "variant"}
  <2>2. \A n \in seen :
           /\ order[n] \in Candidates(s)
           /\ verdict[n] \in {"variant", "short", "duplicate", "none"}
           /\ verdict[n] = "variant" => ~HasBody(s, order[n])
           /\ verdict[n] = "short" => IsShort(s, order[n])
           /\ verdict[n] = "duplicate" => HasTwin(s, order[n])
           /\ Qualified(s, order[n]) => verdict[n] = "none"
    BY <2>1, VerdictTells
  <2>3. row \in Row(s, seen, verdict)
    BY <2>1
  <2>4. \A i \in Candidates(s) : Qualified(s, i) => \E n \in fit : order[n] = i
    BY <2>2, CandidatesConsidered DEF Qualified
  <2>5. \A n \in seen : Places(s, order[n]) # {}
    BY DEF Considered
  <2> HIDE DEF verdict, seen
  <2>6. CASE fit # {}
    <3>1. PICK k \in fit : row = Filled(order[k]) /\ \A m \in fit : Before(s, k, m)
      BY <2>3, <2>6 DEF Row
    <3> DEFINE first(n) == CHOOSE a \in Places(s, order[n]) :
                              \A b \in Places(s, order[n]) : a <= b
    <3>2. ASSUME NEW n \in fit
          PROVE  first(n) \in Places(s, order[n]) /\ \A b \in Places(s, order[n]) : first(n) <= b
      BY <2>5, LeastPlace
    <3>3. \A n \in fit : first(n) \in Nat /\ Places(s, order[n]) \subseteq Nat
      BY <3>2, PlannerAssumption DEF Places
    <3>4. \A m \in fit : first(k) <= first(m)
      <4> SUFFICES ASSUME NEW m \in fit PROVE first(k) <= first(m)
        OBVIOUS
      <4>1. first(k) < first(m) \/ (first(k) = first(m) /\ k <= m)
        BY <3>1 DEF Before
      <4>2. first(k) \in Nat /\ first(m) \in Nat
        BY <3>1, <3>3
      <4> HIDE DEF first
      <4>3. QED
        BY <4>1, <4>2
    <3> HIDE DEF first
    <3>5. ASSUME NEW i \in Candidates(s), Qualified(s, i), NEW l \in Places(s, i)
          PROVE  first(k) <= l
      <4>1. PICK m \in fit : order[m] = i
        BY <2>4, <3>5
      <4>2. first(k) <= first(m) /\ first(m) <= l /\ l \in Nat
        BY <3>2, <3>3, <3>4, <4>1
      <4>3. first(k) \in Nat /\ first(m) \in Nat
        BY <3>1, <3>3, <4>1
      <4>4. QED
        BY <4>2, <4>3
    <3>6. row.status = "FILLED" /\ row.item = order[k]
      BY <3>1 DEF Filled
    <3>7. first(k) \in Places(s, row.item)
      BY <3>1, <3>2, <3>6
    <3>8. QED
      BY <3>5, <3>6, <3>7
  <2>7. CASE fit = {}
    <3>1. PICK r \in ReasonOf(s, seen, verdict) : row = Skipped(r)
      BY <2>3, <2>7 DEF Row
    <3>2. row.status = "SKIPPED" /\ row.reason = r
      BY <3>1 DEF Skipped
    <3>3. \A i \in Candidates(s) : ~Qualified(s, i)
      BY <2>4, <2>7
    <3>4. CASE seen = {}
      <4>1. r = "candidate"
        BY <3>4 DEF ReasonOf
      <4>2. \A i \in Candidates(s) : RunsOnEarlierDay(s, i)
        BY <3>4, CandidatesConsidered DEF seen
      <4>3. QED
        BY <3>2, <3>3, <4>1, <4>2
    <3>5. CASE seen # {} /\ refused = {}
      <4>1. r = "variant"
        BY <3>5 DEF ReasonOf
      <4>2. PICK n \in seen : verdict[n] = "variant"
        BY <3>5
      <4>3. QED
        BY <2>2, <3>2, <3>3, <4>1, <4>2
    <3>6. CASE seen # {} /\ refused # {}
      <4>1. PICK n \in refused : r = verdict[n]
        BY <3>6 DEF ReasonOf
      <4>2. r \in {"short", "duplicate"}
        BY <2>2, <2>7, <4>1
      <4>3. QED
        BY <2>2, <3>2, <3>3, <4>1, <4>2
    <3>7. QED
      BY <3>4, <3>5, <3>6
  <2>8. QED
    BY <2>6, <2>7
<1>3. QED
  BY <1>1, <1>2

\* Filling a slot leaves what is known of earlier slots as it is.
LEMMA LaterSlotsDontMatter ==
    ASSUME TypeOK, RunInv, NEW s \in Grid, FillSlot(s), NEW u \in Grid, Earlier(u, s) \/ u = s
    PROVE  /\ \A t \in Grid : Earlier(t, u) =>
                 rows'[t] = rows[t] /\ (t \in FilledIn(rows') <=> t \in FilledIn(rows))
           /\ \A i : /\ (i \in Candidates(u)') <=> i \in Candidates(u)
                     /\ RunsOnEarlierDay(u, i)' <=> RunsOnEarlierDay(u, i)
                     /\ HasBody(u, i)' <=> HasBody(u, i)
                     /\ IsShort(u, i)' <=> IsShort(u, i)
                     /\ HasTwin(u, i)' <=> HasTwin(u, i)
                     /\ Qualified(u, i)' <=> Qualified(u, i)
<1>1. /\ \A t \in Grid \ {s} : rows'[t] = rows[t]
      /\ \A t \in Grid \ {s} : t \in FilledIn(rows') <=> t \in FilledIn(rows)
      /\ FilledIn(rows) \subseteq Grid /\ FilledIn(rows') \subseteq Grid
  BY FillEffect DEF FilledIn
<1>2. ~Earlier(s, u) /\ ~(s.day < u.day)
  BY EarlierOnce, PlannerAssumption
<1>3. \A t \in Grid : Earlier(t, u) =>
         rows'[t] = rows[t] /\ (t \in FilledIn(rows') <=> t \in FilledIn(rows))
  BY <1>1, <1>2
<1>4. UNCHANGED <<order, pubs, old>>
  BY DEF FillSlot
<1>5. ASSUME NEW i PROVE RunsOnEarlierDay(u, i)' <=> RunsOnEarlierDay(u, i)
  BY <1>1, <1>2 DEF RunsOnEarlierDay
<1>6. ASSUME NEW i
      PROVE  /\ (i \in Candidates(u)') <=> i \in Candidates(u)
             /\ HasBody(u, i)' <=> HasBody(u, i)
             /\ IsShort(u, i)' <=> IsShort(u, i)
             /\ HasTwin(u, i)' <=> HasTwin(u, i)
  BY <1>4 DEF Candidates, Places, HasBody, IsShort, HasTwin, Twins
<1>7. ASSUME NEW i PROVE Qualified(u, i)' <=> Qualified(u, i)
  BY <1>5, <1>6 DEF Qualified
<1>8. QED
  BY <1>3, <1>5, <1>6, <1>7

LEMMA FillChoice ==
    ASSUME TypeOK, RunInv, ChoiceInv, NEW s \in Grid, FillSlot(s), NEW u \in Grid \ todo'
    PROVE  /\ rows'[u].status = "SKIPPED" => Justified(u)'
           /\ rows'[u].status = "FILLED" => FirstChoice(u)'
<1> DEFINE before == {t \in FilledIn(rows) : Earlier(t, u)}
<1>1. s \in todo /\ todo' = todo \ {s} /\ \A t \in FilledIn(rows) : Earlier(t, s)
  BY FillEffect
<1>2. Earlier(u, s) \/ u = s
  BY <1>1 DEF RunInv
<1>3. /\ \A t \in Grid : Earlier(t, u) =>
            rows'[t] = rows[t] /\ (t \in FilledIn(rows') <=> t \in FilledIn(rows))
      /\ \A i : /\ (i \in Candidates(u)') <=> i \in Candidates(u)
                /\ RunsOnEarlierDay(u, i)' <=> RunsOnEarlierDay(u, i)
                /\ HasBody(u, i)' <=> HasBody(u, i)
                /\ IsShort(u, i)' <=> IsShort(u, i)
                /\ HasTwin(u, i)' <=> HasTwin(u, i)
                /\ Qualified(u, i)' <=> Qualified(u, i)
  BY <1>2, LaterSlotsDontMatter
<1>4. {t \in FilledIn(rows') : Earlier(t, u)} = before
  BY <1>3 DEF FilledIn
<1>5. CASE u # s
  <2>1. u \notin todo /\ rows'[u] = rows[u]
    BY <1>1, <1>5, FillEffect
  <2>2. rows[u].status = "FILLED" => FirstChoice(u)
    BY <2>1 DEF ChoiceInv
  <2>3. rows'[u].status = "FILLED" => FirstChoice(u)'
    BY <1>3, <2>1, <2>2 DEF FirstChoice, Places
  <2>4. rows[u].status = "SKIPPED" => Justified(u)
    BY <2>1 DEF ChoiceInv
  <2>5. rows'[u].status = "SKIPPED" => Justified(u)'
    BY <1>3, <1>4, <2>1, <2>4 DEF Justified, Earlier
  <2>6. QED
    BY <2>3, <2>5
<1>6. CASE u = s
  <2>1. PICK row \in RowsFor(s) : rows'[s] = row
    BY FillEffect
  <2>2. /\ row.status = "FILLED" =>
              \E k \in Places(s, row.item) : \A i \in Candidates(s) :
                 Qualified(s, i) => \A l \in Places(s, i) : k <= l
        /\ row.status = "SKIPPED" =>
              \/ row.reason = "weekly" /\ WeekTotal >= MaxPerWeek
              \/ row.reason = "daily" /\ PerDay(s.day) >= MaxPerDay
              \/ row.reason = "spacing" /\ TooClose(s)
              \/ /\ row.reason \in {"candidate", "variant", "short", "duplicate"}
                 /\ \A i \in Candidates(s) : ~Qualified(s, i)
                 /\ row.reason = "candidate" => \A i \in Candidates(s) : RunsOnEarlierDay(s, i)
                 /\ row.reason = "variant" => \E i \in Candidates(s) : ~HasBody(s, i)
                 /\ row.reason = "short" => \E i \in Candidates(s) : IsShort(s, i)
                 /\ row.reason = "duplicate" => \E i \in Candidates(s) : HasTwin(s, i)
    BY <1>1, ChoiceTells
  <2>3. rows'[u].status = "FILLED" => FirstChoice(u)'
    BY <1>3, <1>6, <2>1, <2>2 DEF FirstChoice, Places
  <2>4. before = FilledIn(rows)
    BY <1>1, <1>6
  <2>5. rows'[u].status = "SKIPPED" => Justified(u)'
    <3> SUFFICES ASSUME row.status = "SKIPPED" PROVE Justified(u)'
      BY <1>6, <2>1
    <3>1. CASE row.reason = "weekly" /\ WeekTotal >= MaxPerWeek
      BY <1>4, <1>6, <2>1, <2>4, <3>1 DEF Justified, WeekTotal, Earlier
    <3>2. CASE row.reason = "daily" /\ PerDay(s.day) >= MaxPerDay
      BY <1>4, <1>6, <2>1, <2>4, <3>2 DEF Justified, PerDay, Earlier
    <3>3. CASE row.reason = "spacing" /\ TooClose(s)
      BY <1>4, <1>6, <2>1, <2>4, <3>3 DEF Justified, TooClose, Earlier
    <3>4. CASE row.reason \notin {"weekly", "daily", "spacing"}
      BY <1>3, <1>6, <2>1, <2>2, <3>4 DEF Justified
    <3>5. QED
      BY <2>2, <3>1, <3>2, <3>3, <3>4
  <2>6. QED
    BY <2>3, <2>5
<1>7. QED
  BY <1>5, <1>6

LEMMA ChoiceInvariant == Spec => [](TypeOK /\ RunInv /\ ChoiceInv)
<1>1. Init => ChoiceInv
  BY DEF Init, ChoiceInv, Open
<1>2. TypeOK /\ RunInv /\ ChoiceInv /\ [Next]_vars => ChoiceInv'
  <2> SUFFICES ASSUME TypeOK, RunInv, ChoiceInv, [Next]_vars PROVE ChoiceInv'
    OBVIOUS
  <2>1. ASSUME phase = "idle", UNCHANGED runVars PROVE ChoiceInv'
    BY <2>1 DEF RunInv, ChoiceInv, runVars
  <2>2. CASE StartRun
    BY <2>2 DEF StartRun, ChoiceInv
  <2>3. ASSUME NEW s \in Grid, FillSlot(s) PROVE ChoiceInv'
    BY <2>3, FillChoice DEF ChoiceInv
  <2>4. ASSUME Forget PROVE ChoiceInv'
    BY <2>4 DEF Forget, ChoiceInv, Open
  <2>5. CASE UNCHANGED vars
    <3>1. UNCHANGED <<rows, order, todo, pubs, old>>
      BY <2>5 DEF vars, runVars
    <3>2. ASSUME NEW s \in Grid
          PROVE  /\ Candidates(s)' = Candidates(s)
                 /\ \A i : /\ Qualified(s, i)' <=> Qualified(s, i)
                           /\ RunsOnEarlierDay(s, i)' <=> RunsOnEarlierDay(s, i)
                           /\ HasBody(s, i)' <=> HasBody(s, i)
                           /\ IsShort(s, i)' <=> IsShort(s, i)
                           /\ HasTwin(s, i)' <=> HasTwin(s, i)
      BY <3>1 DEF Candidates, Qualified, RunsOnEarlierDay, HasBody, IsShort, HasTwin, Twins,
         Places, FilledIn
    <3>3. ASSUME NEW s \in Grid PROVE FirstChoice(s)' <=> FirstChoice(s)
      BY <3>1, <3>2 DEF FirstChoice, Places
    <3>4. ASSUME NEW s \in Grid PROVE Justified(s)' <=> Justified(s)
      <4>1. {t \in FilledIn(rows') : Earlier(t, s)} = {t \in FilledIn(rows) : Earlier(t, s)}
        BY <3>1
      <4>2. QED
        BY <3>1, <3>2, <4>1 DEF Justified, Earlier
    <3>5. QED
      BY <3>1, <3>3, <3>4 DEF ChoiceInv
  <2>6. QED
    BY <2>1, <2>2, <2>3, <2>4, <2>5 DEF Next, Decide, NextDay, PublishAndCommit, Rollback
<1>3. QED
  BY <1>1, <1>2, RunInvariant, PTL DEF Spec

\* SkipsAreJustified: for any grid, candidates and limits, a slot of the finished
\* plan stays empty only for the reason on record, told of the whole week.
THEOREM SkipsHaveReasons == Spec => []SkipsAreJustified
<1>1. ChoiceInv => SkipsAreJustified
  BY DEF ChoiceInv, SkipsAreJustified, Planned
<1>2. QED
  BY <1>1, ChoiceInvariant, PTL

\* EditorsOrder: for any grid and candidates, a shared slot runs the first of its
\* pillars that has anything qualified.
THEOREM EditorDecides == Spec => []EditorsOrder
<1>1. ChoiceInv => EditorsOrder
  BY DEF ChoiceInv, EditorsOrder, Planned, FilledIn
<1>2. QED
  BY <1>1, ChoiceInvariant, PTL
===============================================================================
