------------------------- MODULE ApprovalQueue_proofs -------------------------
(***************************************************************************)
(* Type correctness and the approval invariants of ApprovalQueue, for every *)
(* set of items, contents, deciders and modes.  The lemmas are about single *)
(* actions, so that DailyRun_proofs can use them for the actions it shares. *)
(***************************************************************************)
EXTENDS ApprovalQueue, PolicyEngine_proofs, SequenceTheorems

\* An EXCEPT at any index keeps a sequence a sequence of the same length.
LEMMA ExceptAnywhere ==
    ASSUME NEW S, NEW seq \in Seq(S), NEW n, NEW e \in S
    PROVE  /\ [seq EXCEPT ![n] = e] \in Seq(S)
           /\ DOMAIN [seq EXCEPT ![n] = e] = DOMAIN seq
<1>1. CASE n \in 1 .. Len(seq)
  BY <1>1, ExceptSeq
<1>2. CASE n \notin 1 .. Len(seq)
  <2>1. seq \in [1 .. Len(seq) -> S]
    BY LenProperties
  <2>2. [seq EXCEPT ![n] = e] = seq
    BY <1>2, <2>1
  <2>3. QED
    BY <2>2
<1>3. QED
  BY <1>1, <1>2

LEMMA RowTypes ==
    /\ FreshItem \in ItemRow
    /\ OpenRow \in ApprovalRow /\ RuleRow \in ApprovalRow
    /\ IdleDecider \in Decider
    /\ DefaultMode \in Modes
<1>1. (CHOOSE i \in Items : TRUE) \in Items
  BY QueueAssumption
<1>2. FreshItem \in ItemRow
  BY DEF FreshItem, ItemRow, ApprovalStatuses, Lifecycles
<1>3. QED
  BY <1>1, <1>2 DEF OpenRow, RuleRow, ApprovalRow, IdleDecider, Decider, Verdicts, DefaultMode,
     Modes
\* What a run may see of the items includes what they were created as.
LEMMA InitialSight == ContentOf \in Sights
BY QueueAssumption DEF Sights
-------------------------------------------------------------------------------
\* Type correctness, action by action.
LEMMA InitType == Init => TypeOK
<1> SUFFICES ASSUME Init PROVE TypeOK
  OBVIOUS
<1>1. <<>> \in Seq(ApprovalRow) /\ <<>> \in Seq({OpenRow, RuleRow})
  BY EmptySeq
<1>2. 0 \in 0 .. MaxAborts
  BY QueueAssumption
<1>3. QED
  BY <1>1, <1>2, RowTypes, InitialSight, QueueAssumption DEF Init, TypeOK

LEMMA StartRunType == TypeOK /\ StartRun => TypeOK'
BY DEF TypeOK, StartRun, tableVars, configVars

LEMMA SaveType ==
    ASSUME TypeOK, NEW i \in Items, NEW row \in ItemRow, Save(i, row)
    PROVE  /\ object' \in [Items -> ItemRow] /\ mine' \in [Items -> ItemRow]
           /\ wrote' \in SUBSET Items
BY DEF TypeOK, Save, WriteRow

LEMMA AppendType ==
    ASSUME TypeOK, NEW i \in Items, NEW row \in {OpenRow, RuleRow},
           inserted' = [inserted EXCEPT ![i] = Append(@, row)]
    PROVE  inserted' \in [Items -> Seq({OpenRow, RuleRow})]
<1>1. Append(inserted[i], row) \in Seq({OpenRow, RuleRow})
  BY DEF TypeOK
<1>2. QED
  BY <1>1 DEF TypeOK

LEMMA ObjectWith ==
    ASSUME TypeOK, NEW i \in Items
    PROVE  /\ [object[i] EXCEPT !.lifecycle = "BLOCKED"] \in ItemRow
           /\ \A s \in ApprovalStatuses : [object[i] EXCEPT !.status = s] \in ItemRow
<1>1. object[i] \in ItemRow
  BY DEF TypeOK
<1>2. QED
  BY <1>1 DEF ItemRow, Lifecycles

LEMMA PrepareType ==
    ASSUME TypeOK, NEW i \in Items, PrepareItem(i)
    PROVE  TypeOK'
<1> USE DEF PrepareItem
<1>1. /\ "PENDING_APPROVAL" \in ApprovalStatuses /\ "APPROVED" \in ApprovalStatuses
  BY DEF ApprovalStatuses
<1>2. /\ object' \in [Items -> ItemRow] /\ mine' \in [Items -> ItemRow]
      /\ wrote' \in SUBSET Items
      /\ inserted' \in [Items -> Seq({OpenRow, RuleRow})]
      /\ cands' \in SUBSET Items /\ todo' \in SUBSET cands'
  <2>0. /\ object \in [Items -> ItemRow] /\ mine \in [Items -> ItemRow]
        /\ wrote \in SUBSET Items /\ inserted \in [Items -> Seq({OpenRow, RuleRow})]
        /\ cands \in SUBSET Items /\ todo \in SUBSET cands /\ todo' = todo \ {i}
    BY DEF TypeOK
  <2>1. CASE MarkBlocked(i)
    BY <2>0, <2>1, SaveType, ObjectWith DEF MarkBlocked
  <2>2. CASE RequestApproval(i)
    <3>1. CASE HasOpenRequest(i)
      BY <2>0, <2>2, <3>1 DEF RequestApproval
    <3>2. CASE ~HasOpenRequest(i)
      BY <1>1, <2>0, <2>2, <3>2, SaveType, ObjectWith, AppendType DEF RequestApproval
    <3>3. QED
      BY <3>1, <3>2
  <2>3. CASE AutoApprove(i)
    BY <1>1, <2>0, <2>3, SaveType, ObjectWith, AppendType DEF AutoApprove
  <2>4. CASE LeaveAsIs(i)
    BY <2>0, <2>4 DEF LeaveAsIs
  <2>5. QED
    BY <2>1, <2>2, <2>3, <2>4
<1>3. QED
  BY <1>2 DEF TypeOK, tableVars, configVars

LEMMA ForgetType ==
    ASSUME TypeOK, ForgetRun
    PROVE  /\ phase' = "idle" /\ mode' \in Modes /\ runMode' \in Modes /\ linked' \in SUBSET Items
           /\ seen' \in Sights
           /\ cands' \in SUBSET Items /\ todo' \in SUBSET cands' /\ wrote' \in SUBSET Items
           /\ object' \in [Items -> ItemRow] /\ mine' \in [Items -> ItemRow]
           /\ inserted' \in [Items -> Seq({OpenRow, RuleRow})]
           /\ deciders' \in [Deciders -> Decider]
<1>1. <<>> \in Seq({OpenRow, RuleRow})
  BY EmptySeq
<1>2. QED
  BY <1>1, RowTypes, InitialSight DEF TypeOK, ForgetRun, configVars

LEMMA CommitTablesType == TypeOK /\ CommitTables => TypeOK'
<1> SUFFICES ASSUME TypeOK, CommitTables PROVE TypeOK'
  OBVIOUS
<1>1. items' \in [Items -> ItemRow]
  BY DEF TypeOK, CommitTables, RowSeenByRun
<1>2. approvals' \in [Items -> Seq(ApprovalRow)]
  <2>1. ASSUME NEW i \in Items
        PROVE  approvals[i] \o inserted[i] \in Seq(ApprovalRow)
    <3>1. {OpenRow, RuleRow} \subseteq ApprovalRow
      BY RowTypes
    <3>2. inserted[i] \in Seq({OpenRow, RuleRow})
      BY DEF TypeOK
    <3>3. inserted[i] \in Seq(ApprovalRow)
      BY <3>1, <3>2, SeqMonotonic
    <3>4. QED
      BY <3>3, ConcatProperties DEF TypeOK
  <2>2. QED
    BY <2>1 DEF CommitTables
<1>3. granted' \in [Items -> SUBSET {"human", "rule"}]
  BY DEF TypeOK, CommitTables
<1>4. ForgetRun /\ aborts' = aborts
  BY DEF CommitTables
<1>5. QED
  BY <1>1, <1>2, <1>3, <1>4, ForgetType DEF TypeOK

LEMMA RollbackTablesType == TypeOK /\ RollbackTables => TypeOK'
<1> SUFFICES ASSUME TypeOK, RollbackTables PROVE TypeOK'
  OBVIOUS
<1>1. aborts' \in 0 .. MaxAborts
  BY QueueAssumption DEF TypeOK, RollbackTables
<1>2. QED
  BY <1>1, ForgetType DEF TypeOK, RollbackTables, tableVars

LEMMA DecisionType == TypeOK /\ DecisionStep => TypeOK'
<1> SUFFICES ASSUME TypeOK, NEW d \in Deciders,
                    \/ \E i \in Items, v \in Verdicts : SelectPending(d, i, v)
                    \/ UpdateRow(d) \/ CommitDecision(d) \/ AbandonDecision(d)
             PROVE  TypeOK'
  BY DEF DecisionStep
<1>0. deciders \in [Deciders -> Decider] /\ deciders[d] \in Decider
  BY DEF TypeOK
<1>1. ASSUME NEW i \in Items, NEW v \in Verdicts, SelectPending(d, i, v)
      PROVE  TypeOK'
  <2>1. LatestOpen(approvals[i]) \subseteq Nat
    <3>1. approvals[i] \in Seq(ApprovalRow)
      BY DEF TypeOK
    <3>2. QED
      BY <3>1 DEF OpenRows, LatestOpen
  <2>2. deciders' \in [Deciders -> Decider]
    <3>1. PICK k \in Nat : deciders' = [deciders EXCEPT ![d] =
             [@ EXCEPT !.stage = "selected", !.item = i, !.verdict = v, !.row = k]]
      BY <1>1, <2>1 DEF SelectPending
    <3>2. [deciders[d] EXCEPT !.stage = "selected", !.item = i, !.verdict = v, !.row = k]
             \in Decider
      BY <1>0 DEF Decider
    <3>3. QED
      BY <1>0, <3>1, <3>2
  <2>3. QED
    BY <1>1, <2>2 DEF SelectPending, TypeOK, tableVars, configVars, runVars
<1>2. CASE UpdateRow(d)
  <2>1. items[deciders[d].item] \in ItemRow
    BY <1>0 DEF TypeOK, Decider
  <2>2. deciders' \in [Deciders -> Decider]
    BY <1>0, <1>2, <2>1 DEF UpdateRow, Decider
  <2>3. QED
    BY <1>2, <2>2 DEF UpdateRow, TypeOK, tableVars, configVars, runVars
<1>3. CASE CommitDecision(d)
  <2> DEFINE i == deciders[d].item
             v == deciders[d].verdict
  <2>1. i \in Items /\ v \in Verdicts /\ deciders[d].copy \in ItemRow
    BY <1>0 DEF Decider
  <2>2. approvals' \in [Items -> Seq(ApprovalRow)]
    <3>1. [decision |-> v, by |-> "human"] \in ApprovalRow
      BY <2>1 DEF ApprovalRow, Verdicts
    <3>2. [approvals[i] EXCEPT ![deciders[d].row] = [decision |-> v, by |-> "human"]]
             \in Seq(ApprovalRow)
      BY <2>1, <3>1, ExceptAnywhere DEF TypeOK
    <3>3. QED
      BY <1>3, <2>1, <3>2 DEF CommitDecision, TypeOK
  <2>3. items' \in [Items -> ItemRow]
    <3>1. [deciders[d].copy EXCEPT !.status = v] \in ItemRow
      BY <2>1 DEF ItemRow, Verdicts, ApprovalStatuses
    <3>2. QED
      BY <1>3, <2>1, <3>1 DEF CommitDecision, TypeOK
  <2>4. granted' \in [Items -> SUBSET {"human", "rule"}]
    BY <1>3, <2>1 DEF CommitDecision, TypeOK
  <2>5. deciders' \in [Deciders -> Decider]
    BY <1>0, <1>3, RowTypes DEF CommitDecision, Forget
  <2>6. QED
    BY <1>3, <2>2, <2>3, <2>4, <2>5 DEF CommitDecision, TypeOK, configVars, runVars
<1>4. CASE AbandonDecision(d)
  BY <1>0, <1>4, RowTypes DEF AbandonDecision, Forget, TypeOK, tableVars, configVars, runVars
<1>5. QED
  BY <1>1, <1>2, <1>3, <1>4

LEMMA OperatorType == TypeOK /\ OperatorStep => TypeOK'
<1>1. ASSUME TypeOK, NEW m \in ConfigModes, ChangeMode(m)
      PROVE  TypeOK'
  <2>1. mode' \in Modes
    BY <1>1, QueueAssumption DEF ChangeMode
  <2>2. QED
    BY <1>1, <2>1 DEF ChangeMode, TypeOK, tableVars, runVars
<1>2. ASSUME TypeOK, NEW i \in Items, LinkEvidence(i)
      PROVE  TypeOK'
  BY <1>2 DEF LinkEvidence, TypeOK, tableVars, runVars
<1>3. QED
  BY <1>1, <1>2 DEF OperatorStep

LEMMA StutterType == TypeOK /\ UNCHANGED queueVars => TypeOK'
BY DEF TypeOK, queueVars, tableVars, configVars, runVars

\* TypeOK holds in every behaviour: every table, transaction and in-memory
\* object keeps the shape queue.py and pipeline.py give it.
THEOREM TypeCorrect == Spec => []TypeOK
<1>1. Init => TypeOK
  BY InitType
<1>2. TypeOK /\ [Next]_queueVars => TypeOK'
  <2> SUFFICES ASSUME TypeOK, [Next]_queueVars PROVE TypeOK'
    OBVIOUS
  <2>1. CASE StartRun
    BY <2>1, StartRunType
  <2>2. ASSUME NEW i \in Items, PrepareItem(i) PROVE TypeOK'
    BY <2>2, PrepareType
  <2>3. CASE CommitRun
    BY <2>3, CommitTablesType DEF CommitRun
  <2>4. CASE AbortRun
    BY <2>4, RollbackTablesType DEF AbortRun
  <2>5. CASE DecisionStep
    BY <2>5, DecisionType
  <2>6. CASE OperatorStep
    BY <2>6, OperatorType
  <2>7. CASE UNCHANGED queueVars
    BY <2>7, StutterType
  <2>8. QED
    BY <2>1, <2>2, <2>3, <2>4, <2>5, <2>6, <2>7 DEF Next, RunStep
<1>3. QED
  BY <1>1, <1>2, PTL DEF Spec
-------------------------------------------------------------------------------
\* Authority: an approval is never taken back from the history, so what was
\* backed by one stays backed.
LEMMA GrantedGrows ==
    ASSUME TypeOK, \/ CommitTables \/ DecisionStep \/ UNCHANGED granted, NEW i \in Items
    PROVE  granted[i] \subseteq granted'[i]
<1>1. CASE CommitTables
  BY <1>1 DEF CommitTables, TypeOK
<1>2. CASE DecisionStep
  <2>1. CASE granted' = granted
    BY <2>1
  <2>2. ASSUME NEW d \in Deciders, CommitDecision(d)
        PROVE  granted[i] \subseteq granted'[i]
    <3>1. PICK j \in Items, v \in Verdicts :
             granted' = [granted EXCEPT ![j] = IF v = "APPROVED" THEN @ \cup {"human"} ELSE @]
      BY <2>2 DEF CommitDecision, TypeOK, Decider
    <3>2. QED
      BY <3>1 DEF TypeOK
  <2>3. QED
    BY <1>2, <2>1, <2>2 DEF DecisionStep, SelectPending, UpdateRow, AbandonDecision, tableVars
<1>3. QED
  BY <1>1, <1>2

LEMMA BackedStays ==
    ASSUME NEW i \in Items, granted[i] \subseteq granted'[i], inserted'[i] = inserted[i]
    PROVE  /\ HasAuthority(i) => HasAuthority(i)'
           /\ Backed(i) => Backed(i)'
BY DEF HasAuthority, Backed

LEMMA InitAuthority == Init => AuthorityInv
BY DEF Init, AuthorityInv, FreshItem

LEMMA StartRunAuthority ==
    ASSUME TypeOK, AuthorityInv, StartRun
    PROVE  AuthorityInv'
BY DEF TypeOK, AuthorityInv, StartRun, Backed, HasAuthority, tableVars, configVars

LEMMA PrepareAuthority ==
    ASSUME TypeOK, AuthorityInv, NEW i \in Items, PrepareItem(i)
    PROVE  AuthorityInv'
<1> SUFFICES ASSUME NEW j \in Items
             PROVE  /\ items'[j].status = "APPROVED" => HasAuthority(j)'
                    /\ object'[j].status = "APPROVED" => Backed(j)'
                    /\ mine'[j].status = "APPROVED" => Backed(j)'
  BY DEF AuthorityInv
<1>0. /\ items' = items /\ granted' = granted
      /\ object \in [Items -> ItemRow] /\ mine \in [Items -> ItemRow]
      /\ inserted \in [Items -> Seq({OpenRow, RuleRow})]
      /\ object[j] \in ItemRow /\ mine[j] \in ItemRow
  BY DEF PrepareItem, tableVars, TypeOK
<1>1. HasAuthority(j)' <=> HasAuthority(j)
  BY <1>0 DEF HasAuthority
<1>2. Backed(j) => Backed(j)'
  <2>1. CASE inserted' = inserted
    BY <1>0, <2>1 DEF Backed, HasAuthority
  <2>2. ASSUME NEW row \in {OpenRow, RuleRow}, inserted' = [inserted EXCEPT ![i] = Append(@, row)]
        PROVE  Backed(j) => Backed(j)'
    <3>1. ASSUME NEW k \in DOMAIN inserted[j]
          PROVE  k \in DOMAIN inserted'[j] /\ inserted'[j][k] = inserted[j][k]
      <4>1. CASE j = i
        <5>1. inserted[j] \in Seq({OpenRow, RuleRow}) /\ inserted'[j] = Append(inserted[j], row)
          BY <1>0, <2>2, <4>1
        <5>2. QED
          BY <3>1, <5>1, AppendProperties
      <4>2. CASE j # i
        BY <1>0, <2>2, <3>1, <4>2
      <4>3. QED
        BY <4>1, <4>2
    <3>2. QED
      BY <1>1, <3>1 DEF Backed
  <2>3. QED
    BY <2>1, <2>2 DEF PrepareItem, MarkBlocked, RequestApproval, AutoApprove, LeaveAsIs
<1>3. /\ object'[j].status = "APPROVED" => object[j].status = "APPROVED" \/ (j = i /\ AutoApprove(i))
      /\ mine'[j].status = "APPROVED" => \/ mine[j].status = "APPROVED"
                                        \/ object[j].status = "APPROVED"
                                        \/ (j = i /\ AutoApprove(i))
  BY <1>0 DEF PrepareItem, MarkBlocked, RequestApproval, AutoApprove, LeaveAsIs, Save, WriteRow, ItemRow
<1>4. AutoApprove(i) => Backed(i)'
  <2> SUFFICES ASSUME AutoApprove(i) PROVE Backed(i)'
    OBVIOUS
  <2>1. inserted[i] \in Seq({OpenRow, RuleRow}) /\ inserted'[i] = Append(inserted[i], RuleRow)
    BY <1>0 DEF AutoApprove
  <2>2. Len(inserted[i]) + 1 \in DOMAIN inserted'[i]
        /\ inserted'[i][Len(inserted[i]) + 1] = RuleRow
    BY <2>1, AppendProperties
  <2>3. QED
    BY <2>2 DEF AutoApprove, Backed
<1>5. QED
  BY <1>0, <1>1, <1>2, <1>3, <1>4 DEF AuthorityInv

\* The commit turns what the run held ready into what everybody sees.
LEMMA CommitTablesAuthority ==
    ASSUME TypeOK, AuthorityInv, CommitTables
    PROVE  AuthorityInv'
<1>1. ASSUME NEW i \in Items, Backed(i)
      PROVE  HasAuthority(i)'
  BY <1>1 DEF Backed, HasAuthority, CommitTables, TypeOK
<1>2. ASSUME NEW i \in Items, items'[i].status = "APPROVED"
      PROVE  HasAuthority(i)'
  BY <1>1, <1>2 DEF CommitTables, RowSeenByRun, AuthorityInv, Backed
<1>3. ASSUME NEW i \in Items
      PROVE  object'[i].status # "APPROVED" /\ mine'[i].status # "APPROVED"
  BY DEF CommitTables, ForgetRun, FreshItem
<1>4. QED
  BY <1>2, <1>3 DEF AuthorityInv

LEMMA RollbackTablesAuthority ==
    ASSUME TypeOK, AuthorityInv, RollbackTables
    PROVE  AuthorityInv'
BY DEF RollbackTables, ForgetRun, FreshItem, AuthorityInv, HasAuthority, tableVars

LEMMA DecisionAuthority ==
    ASSUME TypeOK, AuthorityInv, DecisionStep
    PROVE  AuthorityInv'
<1>1. /\ object' = object /\ mine' = mine /\ inserted' = inserted
  BY DEF DecisionStep, SelectPending, UpdateRow, CommitDecision, AbandonDecision, runVars
<1>2. ASSUME NEW i \in Items
      PROVE  /\ HasAuthority(i) => HasAuthority(i)'
             /\ Backed(i) => Backed(i)'
  BY <1>1, GrantedGrows, BackedStays
<1>3. ASSUME NEW i \in Items, items'[i].status = "APPROVED"
      PROVE  HasAuthority(i)'
  <2>1. CASE items' = items
    BY <1>2, <1>3, <2>1 DEF AuthorityInv
  <2>2. ASSUME NEW d \in Deciders, CommitDecision(d)
        PROVE  HasAuthority(i)'
    <3>1. deciders[d].item \in Items /\ deciders[d].copy \in ItemRow
      BY DEF TypeOK, Decider
    <3>2. CASE i = deciders[d].item
      <4>1. deciders[d].verdict = "APPROVED"
        BY <1>3, <2>2, <3>1, <3>2 DEF CommitDecision, TypeOK, ItemRow
      <4>2. QED
        BY <2>2, <3>1, <3>2, <4>1 DEF CommitDecision, TypeOK, HasAuthority
    <3>3. CASE i # deciders[d].item
      <4>1. items'[i] = items[i]
        BY <2>2, <3>1, <3>3 DEF CommitDecision, TypeOK
      <4>2. QED
        BY <1>2, <1>3, <4>1 DEF AuthorityInv
    <3>4. QED
      BY <3>2, <3>3
  <2>3. QED
    BY <2>1, <2>2 DEF DecisionStep, SelectPending, UpdateRow, AbandonDecision, tableVars
<1>4. QED
  BY <1>1, <1>2, <1>3 DEF AuthorityInv

LEMMA OperatorAuthority ==
    ASSUME AuthorityInv, OperatorStep \/ UNCHANGED queueVars
    PROVE  AuthorityInv'
BY DEF AuthorityInv, OperatorStep, ChangeMode, LinkEvidence, queueVars, tableVars, runVars,
   Backed, HasAuthority

\* ApprovalHasAuthority: an item that reads APPROVED has been approved, one
\* marked HUMAN_APPROVAL_REQUIRED by a person, whatever the run and the deciders
\* write back from objects they read earlier (queue.py:3-9).
THEOREM ApprovalsAreReal == Spec => []ApprovalHasAuthority
<1>1. Init => AuthorityInv
  BY InitAuthority
<1>2. TypeOK /\ AuthorityInv /\ [Next]_queueVars => AuthorityInv'
  <2> SUFFICES ASSUME TypeOK, AuthorityInv, [Next]_queueVars PROVE AuthorityInv'
    OBVIOUS
  <2>1. CASE StartRun
    BY <2>1, StartRunAuthority
  <2>2. ASSUME NEW i \in Items, PrepareItem(i) PROVE AuthorityInv'
    BY <2>2, PrepareAuthority
  <2>3. CASE CommitRun
    BY <2>3, CommitTablesAuthority DEF CommitRun
  <2>4. CASE AbortRun
    BY <2>4, RollbackTablesAuthority DEF AbortRun
  <2>5. CASE DecisionStep
    BY <2>5, DecisionAuthority
  <2>6. CASE OperatorStep \/ UNCHANGED queueVars
    BY <2>6, OperatorAuthority
  <2>7. QED
    BY <2>1, <2>2, <2>3, <2>4, <2>5, <2>6 DEF Next, RunStep
<1>3. AuthorityInv => ApprovalHasAuthority
  BY DEF AuthorityInv, ApprovalHasAuthority
<1>4. QED
  BY <1>1, <1>2, <1>3, TypeCorrect, PTL DEF Spec
-------------------------------------------------------------------------------
(* Open requests: rows of the queue that are still PENDING.                  *)

LEMMA OpenAfterAppend ==
    ASSUME NEW rows \in Seq({OpenRow, RuleRow}), NEW row \in {OpenRow, RuleRow}
    PROVE  OpenRows(Append(rows, row)) =
              OpenRows(rows) \cup (IF row = OpenRow THEN {Len(rows) + 1} ELSE {})
<1> DEFINE longer == Append(rows, row)
<1>1. /\ DOMAIN longer = DOMAIN rows \cup {Len(rows) + 1}
      /\ \A k \in DOMAIN rows : longer[k] = rows[k]
      /\ longer[Len(rows) + 1] = row
      /\ Len(rows) + 1 \notin DOMAIN rows
  BY AppendProperties
<1>2. row.decision = "PENDING" <=> row = OpenRow
  BY DEF OpenRow, RuleRow
<1> HIDE DEF longer
<1>3. ASSUME NEW k
      PROVE  k \in OpenRows(longer) <=>
                k \in OpenRows(rows) \/ (row = OpenRow /\ k = Len(rows) + 1)
  <2>1. CASE k \in DOMAIN rows
    BY <1>1, <2>1 DEF OpenRows
  <2>2. CASE k \notin DOMAIN rows
    BY <1>1, <1>2, <2>2 DEF OpenRows
  <2>3. QED
    BY <2>1, <2>2
<1>4. OpenRows(longer) = OpenRows(rows) \cup (IF row = OpenRow THEN {Len(rows) + 1} ELSE {})
  BY <1>3
<1>5. QED
  BY <1>4 DEF longer

LEMMA OpenAfterConcat ==
    ASSUME NEW a \in Seq(ApprovalRow), NEW b \in Seq({OpenRow, RuleRow})
    PROVE  /\ OpenRows(a) \subseteq OpenRows(a \o b)
           /\ \A k \in OpenRows(b) : Len(a) + k \in OpenRows(a \o b)
           /\ \A k \in OpenRows(a \o b) :
                 k \in Nat /\ (k \in OpenRows(a) \/ (k > Len(a) /\ k - Len(a) \in OpenRows(b)))
<1> DEFINE both == a \o b
<1>1. b \in Seq(ApprovalRow)
  BY RowTypes, SeqMonotonic
<1>2. /\ Len(a) \in Nat /\ Len(b) \in Nat
      /\ DOMAIN a = 1 .. Len(a) /\ DOMAIN b = 1 .. Len(b)
  BY <1>1, LenProperties
<1>3. /\ DOMAIN both = 1 .. Len(a) + Len(b)
      /\ \A k \in 1 .. Len(a) + Len(b) : both[k] = IF k <= Len(a) THEN a[k] ELSE b[k - Len(a)]
  BY <1>1, <1>2, ConcatProperties, LenProperties
<1> HIDE DEF both
<1>4. OpenRows(a) \subseteq OpenRows(both)
  BY <1>2, <1>3 DEF OpenRows
<1>5. ASSUME NEW k \in OpenRows(b) PROVE Len(a) + k \in OpenRows(both)
  <2>1. k \in 1 .. Len(b) /\ b[k].decision = "PENDING"
    BY <1>2, <1>5 DEF OpenRows
  <2>2. Len(a) + k \in 1 .. Len(a) + Len(b) /\ ~(Len(a) + k <= Len(a)) /\ (Len(a) + k) - Len(a) = k
    BY <1>2, <2>1
  <2>3. QED
    BY <1>3, <2>1, <2>2 DEF OpenRows
<1>6. ASSUME NEW k \in OpenRows(both)
      PROVE  k \in Nat /\ (k \in OpenRows(a) \/ (k > Len(a) /\ k - Len(a) \in OpenRows(b)))
  <2>1. k \in 1 .. Len(a) + Len(b) /\ both[k].decision = "PENDING"
    BY <1>3, <1>6 DEF OpenRows
  <2>2. CASE k <= Len(a)
    BY <1>2, <1>3, <2>1, <2>2 DEF OpenRows
  <2>3. CASE ~(k <= Len(a))
    <3>1. k - Len(a) \in 1 .. Len(b) /\ k > Len(a)
      BY <1>2, <2>1, <2>3
    <3>2. QED
      BY <1>2, <1>3, <2>1, <2>3, <3>1 DEF OpenRows
  <2>4. QED
    BY <2>2, <2>3
<1>7. QED
  BY <1>4, <1>5, <1>6 DEF both

\* A decision opens nothing.
LEMMA DecisionCloses ==
    ASSUME TypeOK, DecisionStep, NEW i \in Items
    PROVE  /\ OpenRows(approvals'[i]) \subseteq OpenRows(approvals[i])
           /\ approvals'[i] # approvals[i] => items'[i].status \in Verdicts /\ i \notin wrote
           /\ items'[i] # items[i] => items'[i].status \in Verdicts
<1>1. CASE approvals' = approvals /\ items' = items
  BY <1>1
<1>2. ASSUME NEW d \in Deciders, CommitDecision(d)
      PROVE  /\ OpenRows(approvals'[i]) \subseteq OpenRows(approvals[i])
             /\ approvals'[i] # approvals[i] => items'[i].status \in Verdicts /\ i \notin wrote
             /\ items'[i] # items[i] => items'[i].status \in Verdicts
  <2> DEFINE j == deciders[d].item
             v == deciders[d].verdict
             r == [decision |-> v, by |-> "human"]
             done == [approvals[j] EXCEPT ![deciders[d].row] = r]
  <2>1. /\ j \in Items /\ v \in Verdicts /\ deciders[d].copy \in ItemRow
        /\ r \in ApprovalRow /\ r.decision # "PENDING"
    BY DEF TypeOK, Decider, Verdicts, ApprovalRow
  <2>2. /\ approvals' = [approvals EXCEPT ![j] = done]
        /\ items' = [items EXCEPT ![j] = [deciders[d].copy EXCEPT !.status = v]]
        /\ j \notin wrote
    BY <1>2 DEF CommitDecision
  <2>3. CASE i = j
    <3>1. approvals'[i] = done /\ items'[i].status = v
      BY <2>1, <2>2, <2>3 DEF TypeOK, ItemRow
    <3>2. approvals[j] \in Seq(ApprovalRow)
      BY <2>1 DEF TypeOK
    <3>3. DOMAIN done = DOMAIN approvals[j]
      BY <2>1, <3>2, ExceptAnywhere
    <3>4. \A k \in DOMAIN done : done[k] = approvals[j][k] \/ done[k] = r
      BY <3>3
    <3>5. OpenRows(done) \subseteq OpenRows(approvals[j])
      <4> HIDE DEF done, r
      <4>1. QED
        BY <2>1, <3>3, <3>4 DEF OpenRows
    <3>6. QED
      BY <2>1, <2>2, <2>3, <3>1, <3>5
  <2>4. CASE i # j
    BY <2>2, <2>4 DEF TypeOK
  <2>5. QED
    BY <2>3, <2>4
<1>3. QED
  BY <1>1, <1>2 DEF DecisionStep, SelectPending, UpdateRow, AbandonDecision, tableVars

LEMMA DecisionsLeaveTheRun ==
    DecisionStep => UNCHANGED <<runVars, configVars>>
BY DEF DecisionStep, SelectPending, UpdateRow, CommitDecision, AbandonDecision

\* What one iteration of the run makes of an item and of the others.
LEMMA PrepareEffect ==
    ASSUME TypeOK, NEW i \in Items, PrepareItem(i), NEW j \in Items
    PROVE  \/ /\ inserted'[j] = inserted[j] /\ mine'[j] = mine[j] /\ object'[j] = object[j]
              /\ j \in wrote' <=> j \in wrote
           \/ /\ j = i /\ j \in wrote' /\ inserted'[j] = inserted[j]
              /\ DecisionOn(j).blocked
              /\ mine'[j] = object'[j] /\ mine'[j].status = object[j].status
           \/ /\ j = i /\ j \in wrote' /\ ~HasOpenRequest(j)
              /\ DecisionOn(j).requires_approval
              /\ inserted'[j] = Append(inserted[j], OpenRow)
              /\ mine'[j] = object'[j] /\ mine'[j].status = "PENDING_APPROVAL"
           \/ /\ j = i /\ j \in wrote'
              /\ inserted'[j] = Append(inserted[j], RuleRow)
              /\ mine'[j] = object'[j] /\ mine'[j].status = "APPROVED"
<1>0. /\ object \in [Items -> ItemRow] /\ mine \in [Items -> ItemRow]
      /\ inserted \in [Items -> Seq({OpenRow, RuleRow})] /\ object[i] \in ItemRow
  BY DEF TypeOK
<1>1. CASE MarkBlocked(i)
  BY <1>0, <1>1 DEF MarkBlocked, Save, WriteRow, ItemRow
<1>2. CASE RequestApproval(i)
  <2>1. CASE HasOpenRequest(i)
    BY <1>2, <2>1 DEF RequestApproval
  <2>2. CASE ~HasOpenRequest(i)
    <3>1. /\ wrote' = wrote \cup {i}
          /\ inserted' = [inserted EXCEPT ![i] = Append(@, OpenRow)]
          /\ object' = [object EXCEPT ![i] = [object[i] EXCEPT !.status = "PENDING_APPROVAL"]]
          /\ mine' = [mine EXCEPT ![i] = [object[i] EXCEPT !.status = "PENDING_APPROVAL"]]
          /\ DecisionOn(i).requires_approval
      BY <1>2, <2>2 DEF RequestApproval, Save, WriteRow
    <3> DEFINE row == [object[i] EXCEPT !.status = "PENDING_APPROVAL"]
    <3>2. row.status = "PENDING_APPROVAL"
      BY <1>0 DEF ItemRow
    <3> HIDE DEF row
    <3>3. QED
      BY <1>0, <2>2, <3>1, <3>2 DEF row
  <2>3. QED
    BY <2>1, <2>2
<1>3. CASE AutoApprove(i)
  BY <1>0, <1>3 DEF AutoApprove, Save, WriteRow, ItemRow
<1>4. CASE LeaveAsIs(i)
  BY <1>4 DEF LeaveAsIs
<1>5. QED
  BY <1>1, <1>2, <1>3, <1>4 DEF PrepareItem
-------------------------------------------------------------------------------
LEMMA NoOpenRows == OpenRows(<<>>) = {}
<1>1. DOMAIN <<>> = {}
  OBVIOUS
<1>2. QED
  BY <1>1 DEF OpenRows

LEMMA InitOpen == Init => OpenInv
<1> SUFFICES ASSUME Init, NEW i \in Items
             PROVE  OpenAtMostOnce(i) /\ (inserted[i] # <<>> => i \in wrote)
  BY DEF OpenInv
<1>1. approvals[i] = <<>> /\ inserted[i] = <<>>
  BY DEF Init
<1>2. QED
  BY <1>1, NoOpenRows DEF OpenAtMostOnce

LEMMA PrepareOpen ==
    ASSUME TypeOK, OpenInv, NEW i \in Items, PrepareItem(i)
    PROVE  OpenInv'
<1> SUFFICES ASSUME NEW j \in Items PROVE OpenAtMostOnce(j)' /\ (inserted'[j] # <<>> => j \in wrote')
  BY DEF OpenInv
<1>0. approvals' = approvals /\ inserted[j] \in Seq({OpenRow, RuleRow})
  BY DEF PrepareItem, tableVars, TypeOK
<1>1. OpenAtMostOnce(j) /\ (inserted[j] # <<>> => j \in wrote)
  BY DEF OpenInv
<1>2. CASE inserted'[j] = inserted[j] /\ (j \in wrote => j \in wrote')
  BY <1>0, <1>1, <1>2 DEF OpenAtMostOnce
<1>3. CASE j \in wrote' /\ ~HasOpenRequest(j) /\ inserted'[j] = Append(inserted[j], OpenRow)
  BY <1>0, <1>3, OpenAfterAppend DEF OpenAtMostOnce, HasOpenRequest
<1>4. CASE j \in wrote' /\ inserted'[j] = Append(inserted[j], RuleRow)
  <2>1. OpenRow # RuleRow
    BY DEF OpenRow, RuleRow
  <2>2. OpenRows(inserted'[j]) = OpenRows(inserted[j])
    BY <1>0, <1>4, <2>1, OpenAfterAppend
  <2>3. QED
    BY <1>0, <1>1, <1>4, <2>2 DEF OpenAtMostOnce
<1>5. QED
  BY <1>2, <1>3, <1>4, PrepareEffect

LEMMA CommitTablesOpen ==
    ASSUME TypeOK, OpenInv, CommitTables
    PROVE  OpenInv'
<1> SUFFICES ASSUME NEW i \in Items PROVE OpenAtMostOnce(i)' /\ (inserted'[i] # <<>> => i \in wrote')
  BY DEF OpenInv
<1>1. inserted'[i] = <<>> /\ OpenRows(inserted'[i]) = {}
  BY NoOpenRows DEF CommitTables, ForgetRun
<1>2. approvals'[i] = approvals[i] \o inserted[i]
  BY DEF CommitTables
<1>3. approvals[i] \in Seq(ApprovalRow) /\ inserted[i] \in Seq({OpenRow, RuleRow})
  BY DEF TypeOK
<1>4. OpenAtMostOnce(i)
  BY DEF OpenInv
<1>5. ASSUME NEW j \in OpenRows(approvals'[i]), NEW k \in OpenRows(approvals'[i])
      PROVE  j = k
  <2>1. /\ j \in Nat /\ (j \in OpenRows(approvals[i]) \/ (j > Len(approvals[i]) /\ j - Len(approvals[i]) \in OpenRows(inserted[i])))
        /\ k \in Nat /\ (k \in OpenRows(approvals[i]) \/ (k > Len(approvals[i]) /\ k - Len(approvals[i]) \in OpenRows(inserted[i])))
    BY <1>2, <1>3, OpenAfterConcat
  <2>2. Len(approvals[i]) \in Nat
    BY <1>3, LenProperties
  <2>3. CASE OpenRows(inserted[i]) = {}
    BY <1>4, <2>1, <2>3 DEF OpenAtMostOnce
  <2>4. CASE OpenRows(approvals[i]) = {}
    <3>1. j - Len(approvals[i]) = k - Len(approvals[i])
      BY <1>4, <2>1, <2>4 DEF OpenAtMostOnce
    <3>2. QED
      BY <2>1, <2>2, <3>1
  <2>5. QED
    BY <1>4, <2>3, <2>4 DEF OpenAtMostOnce
<1>6. QED
  BY <1>1, <1>5 DEF OpenAtMostOnce

LEMMA RollbackTablesOpen == OpenInv /\ RollbackTables => OpenInv'
BY NoOpenRows DEF OpenInv, OpenAtMostOnce, RollbackTables, ForgetRun, tableVars

LEMMA DecisionOpen == TypeOK /\ OpenInv /\ DecisionStep => OpenInv'
<1> SUFFICES ASSUME TypeOK, OpenInv, DecisionStep, NEW i \in Items
             PROVE  OpenAtMostOnce(i)' /\ (inserted'[i] # <<>> => i \in wrote')
  BY DEF OpenInv
<1>1. inserted' = inserted /\ wrote' = wrote
  BY DecisionsLeaveTheRun DEF runVars
<1>2. QED
  BY <1>1, DecisionCloses DEF OpenInv, OpenAtMostOnce

LEMMA OpenInvariant == Spec => []OpenInv
<1>1. TypeOK /\ OpenInv /\ [Next]_queueVars => OpenInv'
  <2> SUFFICES ASSUME TypeOK, OpenInv, [Next]_queueVars PROVE OpenInv'
    OBVIOUS
  <2>1. CASE StartRun
    BY <2>1 DEF StartRun, OpenInv, OpenAtMostOnce, tableVars
  <2>2. ASSUME NEW i \in Items, PrepareItem(i) PROVE OpenInv'
    BY <2>2, PrepareOpen
  <2>3. CASE CommitRun
    BY <2>3, CommitTablesOpen DEF CommitRun
  <2>4. CASE AbortRun
    BY <2>4, RollbackTablesOpen DEF AbortRun
  <2>5. CASE DecisionStep
    BY <2>5, DecisionOpen
  <2>6. CASE OperatorStep
    BY <2>6 DEF OperatorStep, ChangeMode, LinkEvidence, OpenInv, OpenAtMostOnce, tableVars, runVars
  <2>7. CASE UNCHANGED queueVars
    BY <2>7 DEF queueVars, OpenInv, OpenAtMostOnce, tableVars, runVars
  <2>8. QED
    BY <2>1, <2>2, <2>3, <2>4, <2>5, <2>6, <2>7 DEF Next, RunStep
<1>2. QED
  BY <1>1, InitOpen, TypeCorrect, PTL DEF Spec

\* OneOpenRequest: however runs, rollbacks and decisions interleave, an item has
\* at most one open request (queue.py:55).
THEOREM NeverQueuedTwice == Spec => []OneOpenRequest
<1>1. OpenInv => OneOpenRequest
  BY DEF OpenInv, OpenAtMostOnce, OneOpenRequest
<1>2. QED
  BY <1>1, OpenInvariant, PTL

\* Where no request is open and no command is at work, none can begin.
Undecidable(i) ==
    /\ OpenRows(approvals[i]) = {}
    /\ \A d \in Deciders : deciders[d].item = i => deciders[d].stage = "idle"

LEMMA DecisionElsewhere ==
    ASSUME TypeOK, DecisionStep, NEW i \in Items, Undecidable(i)
    PROVE  Undecidable(i)' /\ items'[i] = items[i] /\ approvals'[i] = approvals[i]
<1>1. /\ OpenRows(approvals[i]) = {}
      /\ \A d \in Deciders : deciders[d].item = i => deciders[d].stage = "idle"
      /\ deciders \in [Deciders -> Decider]
  BY DEF TypeOK, Undecidable
<1>2. PICK d \in Deciders : \/ \E j \in Items, v \in Verdicts : SelectPending(d, j, v)
                           \/ UpdateRow(d) \/ CommitDecision(d) \/ AbandonDecision(d)
  BY DEF DecisionStep
<1>3. ASSUME NEW j \in Items, NEW v \in Verdicts, SelectPending(d, j, v)
      PROVE  Undecidable(i)' /\ items'[i] = items[i] /\ approvals'[i] = approvals[i]
  <2>1. i # j
    BY <1>1, <1>3 DEF SelectPending, LatestOpen
  <2>2. PICK k : deciders' = [deciders EXCEPT ![d] =
           [@ EXCEPT !.stage = "selected", !.item = j, !.verdict = v, !.row = k]]
    BY <1>3 DEF SelectPending
  <2>3. deciders'[d].item = j /\ \A e \in Deciders \ {d} : deciders'[e] = deciders[e]
    BY <1>1, <2>2 DEF Decider
  <2>4. QED
    BY <1>1, <1>3, <2>1, <2>3 DEF SelectPending, Undecidable, tableVars
<1>4. CASE UpdateRow(d)
  <2>1. deciders[d].item # i
    BY <1>1, <1>4 DEF UpdateRow
  <2>2. deciders'[d].item = deciders[d].item /\ \A e \in Deciders \ {d} : deciders'[e] = deciders[e]
    BY <1>1, <1>4 DEF UpdateRow, Decider
  <2>3. QED
    BY <1>1, <1>4, <2>1, <2>2 DEF UpdateRow, Undecidable, tableVars
<1>5. CASE CommitDecision(d) \/ AbandonDecision(d)
  <2>1. deciders'[d].stage = "idle" /\ \A e \in Deciders \ {d} : deciders'[e] = deciders[e]
    BY <1>1, <1>5 DEF CommitDecision, AbandonDecision, Forget, IdleDecider
  <2>2. deciders[d].stage # "idle" => deciders[d].item # i
    BY <1>1
  <2>3. items'[i] = items[i] /\ approvals'[i] = approvals[i]
    BY <1>5, <2>2 DEF CommitDecision, AbandonDecision, tableVars, TypeOK
  <2>4. QED
    BY <1>1, <2>1, <2>3 DEF Undecidable
<1>6. QED
  BY <1>2, <1>3, <1>4, <1>5

\* RejectionSettles: nothing reopens a rejection that is settled, because no run
\* selects the item, none that is at work writes it, and no request of it is open
\* (pipeline.py:185, queue.py:100-112).
THEOREM RejectionsSettle == Spec => RejectionSettles
<1>1. TypeOK /\ OpenInv /\ [Next]_queueVars => [\A i \in Items : Settled(i) => Settled(i)']_queueVars
  <2> SUFFICES ASSUME TypeOK, OpenInv, Next, NEW i \in Items, Settled(i)
               PROVE  Settled(i)'
    OBVIOUS
  <2>1. /\ items[i].status = "REJECTED" /\ OpenRows(approvals[i]) = {}
        /\ i \notin cands /\ i \notin wrote
        /\ \A d \in Deciders : deciders[d].item = i => deciders[d].stage = "idle"
    BY DEF Settled
  <2>2. inserted[i] = <<>>
    BY <2>1 DEF OpenInv
  <2>3. CASE StartRun
    BY <2>1, <2>3 DEF StartRun, Settled, tableVars
  <2>4. ASSUME NEW j \in Items, PrepareItem(j) PROVE Settled(i)'
    <3>1. i # j /\ cands' \subseteq cands
      BY <2>1, <2>4 DEF PrepareItem, TypeOK, MarkBlocked, RequestApproval, AutoApprove, LeaveAsIs
    <3>2. i \notin wrote'
      BY <2>1, <2>4, <3>1, PrepareEffect
    <3>3. QED
      BY <2>1, <2>4, <3>1, <3>2 DEF PrepareItem, Settled, tableVars
  <2>5. CASE CommitRun
    <3>1. items'[i] = items[i]
      BY <2>1, <2>5 DEF CommitRun, CommitTables, RowSeenByRun
    <3>2. approvals'[i] = approvals[i]
      <4>1. approvals[i] \in Seq(ApprovalRow)
        BY DEF TypeOK
      <4>2. QED
        BY <2>2, <2>5, <4>1, ConcatEmptySeq DEF CommitRun, CommitTables
    <3>3. QED
      BY <2>1, <2>5, <3>1, <3>2 DEF CommitRun, CommitTables, ForgetRun, Settled
  <2>6. CASE AbortRun
    BY <2>1, <2>6 DEF AbortRun, RollbackTables, ForgetRun, Settled, tableVars
  <2>7. CASE DecisionStep
    <3>1. cands' = cands /\ wrote' = wrote
      BY <2>7, DecisionsLeaveTheRun DEF runVars
    <3>2. Undecidable(i)' /\ items'[i] = items[i]
      BY <2>1, <2>7, DecisionElsewhere DEF Undecidable
    <3>3. QED
      BY <2>1, <3>1, <3>2 DEF Settled, Undecidable
  <2>8. CASE OperatorStep
    BY <2>1, <2>8 DEF OperatorStep, ChangeMode, LinkEvidence, Settled, tableVars, runVars
  <2>9. QED
    BY <2>3, <2>4, <2>5, <2>6, <2>7, <2>8 DEF Next, RunStep
<1>2. QED
  BY <1>1, OpenInvariant, TypeCorrect, PTL DEF Spec, RejectionSettles
-------------------------------------------------------------------------------
(* Pending items.                                                            *)

\* Whatever a run sees of an item, its approval_requirement is what it was.
LEMMA SightsKeepTheRequirement ==
    ASSUME TypeOK, NEW i \in Items
    PROVE  seen[i] \in Content /\ seen[i].requirement = ContentOf[i].requirement
<1>1. seen[i] \in Looks[i]
  BY DEF TypeOK, Sights
<1>2. QED
  BY <1>1, QueueAssumption

\* An item that nothing blocks is queued, approved by the rule, or approved before.
LEMMA LeftAsIsApproved ==
    ASSUME TypeOK, NEW i \in Items, LeaveAsIs(i)
    PROVE  object[i].status = "APPROVED"
<1> SUFFICES ASSUME ~DecisionOn(i).blocked, ~DecisionOn(i).requires_approval,
                    ContentOf[i].requirement # "AUTO_APPROVED"
             PROVE  FALSE
  BY DEF LeaveAsIs
<1>1. seen[i].requirement \in Requirements \ {"AUTO_APPROVED"}
  BY SightsKeepTheRequirement DEF Content
<1>2. BlockingCodes(seen[i], i \in linked) = {}
  BY DEF DecisionOn, Evaluate
<1>3. seen[i].requirement # "NEVER_PUBLISH"
  BY <1>2 DEF BlockingCodes, When
<1>4. seen[i].requirement = "HUMAN_APPROVAL_REQUIRED"
  BY <1>1, <1>3 DEF Requirements
<1>5. QED
  BY <1>2, <1>3, <1>4 DEF DecisionOn, Evaluate, RequiresApproval, HumanNeeded

LEMMA StartRunPending ==
    ASSUME TypeOK, PendingInv, StartRun
    PROVE  PendingInv'
<1> SUFFICES ASSUME NEW i \in Items PROVE PendingOK(i)'
  BY DEF PendingInv
<1>1. PendingOK(i)
  BY DEF PendingInv
<1>2. i \notin wrote /\ wrote' = wrote /\ phase' = "prepare"
  BY <1>1 DEF StartRun, PendingOK
<1>3. /\ items' = items /\ approvals' = approvals /\ object' = items /\ todo' = cands'
      /\ i \in cands' => items[i].status # "REJECTED"
  BY DEF StartRun, tableVars
<1>4. RowSeenByRun(i)' = object'[i]
  BY <1>2, <1>3 DEF RowSeenByRun
<1>5. QED
  BY <1>1, <1>2, <1>3, <1>4 DEF PendingOK

LEMMA PreparePending ==
    ASSUME TypeOK, PendingInv, NEW i \in Items, PrepareItem(i)
    PROVE  PendingInv'
<1> SUFFICES ASSUME NEW j \in Items PROVE PendingOK(j)'
  BY DEF PendingInv
<1>0. /\ approvals' = approvals /\ items' = items /\ phase = "prepare" /\ phase' = phase
      /\ i \in todo /\ i \in cands /\ todo' = todo \ {i} /\ cands' \subseteq cands
      /\ object \in [Items -> ItemRow] /\ mine \in [Items -> ItemRow]
      /\ inserted \in [Items -> Seq({OpenRow, RuleRow})] /\ object[i] \in ItemRow
  BY DEF PrepareItem, MarkBlocked, RequestApproval, AutoApprove, LeaveAsIs, tableVars, TypeOK
<1>1. PendingOK(j)
  BY DEF PendingInv
<1>2. CASE j # i
  <2>1. /\ object'[j] = object[j] /\ mine'[j] = mine[j] /\ inserted'[j] = inserted[j]
        /\ j \in wrote' <=> j \in wrote
        /\ j \in cands' <=> j \in cands
    BY <1>0, <1>2 DEF PrepareItem, MarkBlocked, RequestApproval, AutoApprove, LeaveAsIs, Save,
       WriteRow
  <2>2. RowSeenByRun(j)' = RowSeenByRun(j) /\ (HasOpenRequest(j)' <=> HasOpenRequest(j))
    BY <1>0, <2>1 DEF RowSeenByRun, HasOpenRequest
  <2>3. QED
    BY <1>0, <1>1, <1>2, <2>1, <2>2 DEF PendingOK
<1>3. CASE j = i
  <2>1. CASE MarkBlocked(i)
    <3>1. mine'[i].lifecycle = "BLOCKED" /\ i \in wrote' /\ i \notin cands'
      BY <1>0, <2>1 DEF MarkBlocked, Save, WriteRow, ItemRow
    <3>2. QED
      BY <1>0, <1>1, <1>3, <3>1 DEF PendingOK, Parked
  <2>2. CASE RequestApproval(i) /\ HasOpenRequest(i)
    <3>1. /\ object' = object /\ mine' = mine /\ wrote' = wrote /\ inserted' = inserted
          /\ cands' = cands
      BY <2>2 DEF RequestApproval
    <3>2. RowSeenByRun(i)' = RowSeenByRun(i) /\ HasOpenRequest(i)'
      BY <1>0, <2>2, <3>1 DEF RowSeenByRun, HasOpenRequest
    <3>3. QED
      BY <1>0, <1>1, <1>3, <3>1, <3>2 DEF PendingOK
  <2>3. CASE RequestApproval(i) /\ ~HasOpenRequest(i)
    <3>1. /\ object'[i].status = "PENDING_APPROVAL" /\ i \in wrote'
          /\ inserted'[i] = Append(inserted[i], OpenRow)
      BY <1>0, <2>3 DEF RequestApproval, Save, WriteRow, ItemRow
    <3>2. OpenRows(inserted'[i]) # {}
      BY <1>0, <3>1, OpenAfterAppend
    <3>3. QED
      BY <1>0, <1>1, <1>3, <3>1, <3>2 DEF PendingOK, HasOpenRequest
  <2>4. CASE AutoApprove(i)
    <3>1. mine'[i].status = "APPROVED" /\ object'[i].status = "APPROVED" /\ i \in wrote'
      BY <1>0, <2>4 DEF AutoApprove, Save, WriteRow, ItemRow
    <3>2. RowSeenByRun(i)' = mine'[i]
      BY <3>1 DEF RowSeenByRun
    <3>3. QED
      BY <1>0, <1>1, <1>3, <3>1, <3>2 DEF PendingOK, Parked
  <2>5. CASE LeaveAsIs(i)
    <3>1. /\ object' = object /\ mine' = mine /\ wrote' = wrote /\ inserted' = inserted
          /\ cands' = cands /\ object[i].status = "APPROVED"
      BY <2>5, LeftAsIsApproved DEF LeaveAsIs
    <3>2. RowSeenByRun(i)' = RowSeenByRun(i)
      BY <1>0, <3>1 DEF RowSeenByRun
    <3>3. QED
      BY <1>0, <1>1, <1>3, <3>1, <3>2 DEF PendingOK
  <2>6. QED
    BY <2>1, <2>2, <2>3, <2>4, <2>5 DEF PrepareItem
<1>4. QED
  BY <1>2, <1>3

LEMMA CommitTablesPending ==
    ASSUME TypeOK, PendingInv, CommitTables
    PROVE  PendingInv'
<1> SUFFICES ASSUME NEW i \in Items PROVE PendingOK(i)'
  BY DEF PendingInv
<1>1. wrote' = {} /\ cands' = {}
  BY DEF CommitTables, ForgetRun
<1>2. items'[i] = RowSeenByRun(i) /\ approvals'[i] = approvals[i] \o inserted[i]
  BY DEF CommitTables
<1>3. approvals[i] \in Seq(ApprovalRow) /\ inserted[i] \in Seq({OpenRow, RuleRow})
  BY DEF TypeOK
<1>4. PendingOK(i)
  BY DEF PendingInv
<1>5. Parked(items'[i]) => OpenRows(approvals'[i]) # {}
  <2>1. CASE i \in wrote
    BY <1>2, <1>3, <1>4, <2>1, OpenAfterConcat DEF RowSeenByRun, PendingOK
  <2>2. CASE i \notin wrote
    BY <1>2, <1>3, <1>4, <2>2, OpenAfterConcat DEF RowSeenByRun, PendingOK
  <2>3. QED
    BY <2>1, <2>2
<1>6. QED
  BY <1>1, <1>5 DEF PendingOK

LEMMA RollbackTablesPending ==
    ASSUME PendingInv, RollbackTables
    PROVE  PendingInv'
BY DEF RollbackTables, ForgetRun, PendingInv, PendingOK, tableVars

LEMMA DecisionPending == TypeOK /\ PendingInv /\ DecisionStep => PendingInv'
<1> SUFFICES ASSUME TypeOK, PendingInv, DecisionStep, NEW i \in Items
             PROVE  PendingOK(i)'
  BY DEF PendingInv
<1>1. UNCHANGED <<phase, cands, todo, inserted, wrote, mine, object>>
  BY DecisionsLeaveTheRun DEF runVars
<1>2. PendingOK(i) /\ "PENDING_APPROVAL" \notin Verdicts
  BY DEF PendingInv, Verdicts
<1>3. CASE items'[i].status \in Verdicts
  <2>1. i \in wrote => approvals'[i] = approvals[i]
    BY DecisionCloses
  <2>2. i \in wrote => RowSeenByRun(i)' = RowSeenByRun(i) /\ (HasOpenRequest(i)' <=> HasOpenRequest(i))
    BY <1>1, <2>1 DEF RowSeenByRun, HasOpenRequest
  <2>3. i \notin wrote => RowSeenByRun(i)'.status # "PENDING_APPROVAL"
    BY <1>1, <1>2, <1>3 DEF RowSeenByRun
  <2>4. ~Parked(items'[i])
    BY <1>2, <1>3 DEF Parked
  <2>5. QED
    BY <1>1, <1>2, <2>2, <2>3, <2>4 DEF PendingOK
<1>4. CASE items'[i].status \notin Verdicts
  <2>1. items'[i] = items[i] /\ approvals'[i] = approvals[i]
    BY <1>4, DecisionCloses
  <2>2. RowSeenByRun(i)' = RowSeenByRun(i) /\ (HasOpenRequest(i)' <=> HasOpenRequest(i))
    BY <1>1, <2>1 DEF RowSeenByRun, HasOpenRequest
  <2>3. QED
    BY <1>1, <1>2, <2>1, <2>2 DEF PendingOK
<1>5. QED
  BY <1>3, <1>4

\* What an item's PENDING_APPROVAL depends on.
pendingVars == <<items, approvals, phase, cands, todo, object, wrote, mine, inserted>>

LEMMA NothingPending == PendingInv /\ UNCHANGED pendingVars => PendingInv'
BY DEF PendingInv, PendingOK, pendingVars, RowSeenByRun, HasOpenRequest

LEMMA OperatorPending == PendingInv /\ OperatorStep => PendingInv'
<1> SUFFICES ASSUME PendingInv, OperatorStep PROVE PendingInv'
  OBVIOUS
<1>1. UNCHANGED pendingVars
  BY DEF OperatorStep, ChangeMode, LinkEvidence, tableVars, runVars, pendingVars
<1>2. QED
  BY <1>1, NothingPending

\* PendingIsDecidable: an item that reads PENDING_APPROVAL can be decided on unless
\* it is marked BLOCKED, and in a run that finds it unblocked whatever its mark,
\* however its copy and the configuration change from run to run (queue.py:49-79,
\* pipeline.py:195-235).
THEOREM PendingCanBeDecided == Spec => []PendingIsDecidable
<1>1. Init => PendingInv
  BY DEF Init, PendingInv, PendingOK, FreshItem, Parked
<1>2. TypeOK /\ PendingInv /\ [Next]_queueVars => PendingInv'
  <2> SUFFICES ASSUME TypeOK, PendingInv, [Next]_queueVars PROVE PendingInv'
    OBVIOUS
  <2>1. CASE StartRun
    BY <2>1, StartRunPending
  <2>2. ASSUME NEW i \in Items, PrepareItem(i) PROVE PendingInv'
    BY <2>2, PreparePending
  <2>3. CASE CommitRun
    BY <2>3, CommitTablesPending DEF CommitRun
  <2>4. CASE AbortRun
    BY <2>4, RollbackTablesPending DEF AbortRun
  <2>5. CASE DecisionStep
    BY <2>5, DecisionPending
  <2>6. CASE OperatorStep
    BY <2>6, OperatorPending
  <2>7. CASE UNCHANGED queueVars
    BY <2>7, NothingPending DEF queueVars, tableVars, runVars, pendingVars
  <2>8. QED
    BY <2>1, <2>2, <2>3, <2>4, <2>5, <2>6, <2>7 DEF Next, RunStep
<1>3. TypeOK /\ PendingInv => PendingIsDecidable
  BY DEF TypeOK, PendingInv, PendingOK, PendingIsDecidable
<1>4. QED
  BY <1>1, <1>2, <1>3, TypeCorrect, PTL DEF Spec
-------------------------------------------------------------------------------
(* Deciding once.  MCApprovalQueueTwice shows two commands that decide on    *)
(* one request; it takes two at work on the item at the same time.           *)

Apart ==
    \A d, e \in Deciders :
        /\ deciders[d].stage # "idle" /\ deciders[e].stage # "idle"
        /\ deciders[d].item = deciders[e].item
        => d = e

\* What a command has selected is still open.
HoldsOpen ==
    \A d \in Deciders :
        deciders[d].stage # "idle" => deciders[d].row \in OpenRows(approvals[deciders[d].item])

DecidedStay ==
    \A i \in Items : \A k \in DOMAIN approvals[i] :
        approvals[i][k].decision # "PENDING" => approvals'[i][k] = approvals[i][k]

LEMMA CommitTablesDecided ==
    ASSUME TypeOK, HoldsOpen, CommitTables
    PROVE  HoldsOpen' /\ DecidedStay
<1>1. deciders' = deciders /\ deciders \in [Deciders -> Decider]
  BY DEF CommitTables, ForgetRun, TypeOK
<1>2. ASSUME NEW i \in Items
      PROVE  /\ OpenRows(approvals[i]) \subseteq OpenRows(approvals'[i])
             /\ \A k \in DOMAIN approvals[i] : approvals'[i][k] = approvals[i][k]
  <2>1. /\ approvals'[i] = approvals[i] \o inserted[i]
        /\ approvals[i] \in Seq(ApprovalRow) /\ inserted[i] \in Seq({OpenRow, RuleRow})
    BY DEF CommitTables, TypeOK
  <2>2. inserted[i] \in Seq(ApprovalRow)
    BY <2>1, RowTypes, SeqMonotonic
  <2>3. \A k \in DOMAIN approvals[i] : approvals'[i][k] = approvals[i][k]
    <3> DEFINE a == approvals[i]
               b == inserted[i]
    <3>1. /\ Len(a) \in Nat /\ Len(b) \in Nat /\ DOMAIN a = 1 .. Len(a)
          /\ \A k \in 1 .. Len(a) + Len(b) : (a \o b)[k] = IF k <= Len(a) THEN a[k] ELSE b[k - Len(a)]
      BY <2>1, <2>2, ConcatProperties, LenProperties
    <3> HIDE DEF a, b
    <3>2. \A k \in DOMAIN a : (a \o b)[k] = a[k]
      BY <3>1
    <3>3. QED
      BY <2>1, <3>2 DEF a, b
  <2>4. OpenRows(approvals[i]) \subseteq OpenRows(approvals[i] \o inserted[i])
    BY <2>1, OpenAfterConcat
  <2>5. QED
    BY <2>1, <2>3, <2>4
<1>3. HoldsOpen'
  BY <1>1, <1>2 DEF HoldsOpen, Decider
<1>4. QED
  BY <1>2, <1>3 DEF DecidedStay

LEMMA DecisionDecidesOnce ==
    ASSUME TypeOK, HoldsOpen, Apart, DecisionStep
    PROVE  HoldsOpen' /\ DecidedStay
<1>1. /\ deciders \in [Deciders -> Decider]
      /\ approvals \in [Items -> Seq(ApprovalRow)]
  BY DEF TypeOK
<1>2. PICK d \in Deciders : \/ \E i \in Items, v \in Verdicts : SelectPending(d, i, v)
                           \/ UpdateRow(d) \/ CommitDecision(d) \/ AbandonDecision(d)
  BY DEF DecisionStep
<1>3. ASSUME NEW i \in Items, NEW v \in Verdicts, SelectPending(d, i, v)
      PROVE  HoldsOpen' /\ DecidedStay
  <2>1. PICK k \in OpenRows(approvals[i]) : deciders' = [deciders EXCEPT ![d] =
           [@ EXCEPT !.stage = "selected", !.item = i, !.verdict = v, !.row = k]]
    BY <1>3 DEF SelectPending, LatestOpen
  <2>2. /\ approvals' = approvals
        /\ deciders'[d].item = i /\ deciders'[d].row = k
        /\ \A e \in Deciders \ {d} : deciders'[e] = deciders[e]
    BY <1>1, <1>3, <2>1 DEF SelectPending, tableVars, Decider
  <2>3. QED
    BY <2>1, <2>2 DEF HoldsOpen, DecidedStay
<1>4. CASE UpdateRow(d)
  <2>1. /\ approvals' = approvals /\ deciders[d].stage # "idle"
        /\ deciders'[d].item = deciders[d].item /\ deciders'[d].row = deciders[d].row
        /\ \A e \in Deciders \ {d} : deciders'[e] = deciders[e]
    BY <1>1, <1>4 DEF UpdateRow, tableVars, Decider
  <2>2. QED
    BY <2>1 DEF HoldsOpen, DecidedStay
<1>5. CASE AbandonDecision(d)
  <2>1. /\ approvals' = approvals /\ deciders'[d].stage = "idle"
        /\ \A e \in Deciders \ {d} : deciders'[e] = deciders[e]
    BY <1>1, <1>5 DEF AbandonDecision, Forget, IdleDecider, tableVars
  <2>2. QED
    BY <2>1 DEF HoldsOpen, DecidedStay
<1>6. CASE CommitDecision(d)
  <2> DEFINE i == deciders[d].item
             r == deciders[d].row
             row == [decision |-> deciders[d].verdict, by |-> "human"]
  <2>1. /\ i \in Items /\ r \in OpenRows(approvals[i]) /\ deciders[d].stage # "idle"
        /\ approvals' = [approvals EXCEPT ![i] = [approvals[i] EXCEPT ![r] = row]]
        /\ deciders'[d].stage = "idle" /\ \A e \in Deciders \ {d} : deciders'[e] = deciders[e]
    BY <1>1, <1>6 DEF CommitDecision, Forget, IdleDecider, Decider, HoldsOpen
  <2>2. \A j \in Items \ {i} : approvals'[j] = approvals[j]
    BY <1>1, <2>1
  <2>3. \A k \in DOMAIN approvals[i] : k # r => approvals'[i][k] = approvals[i][k]
    BY <1>1, <2>1
  <2>4. approvals[i][r].decision = "PENDING"
    BY <2>1 DEF OpenRows
  <2>5. HoldsOpen'
    <3>1. ASSUME NEW e \in Deciders, deciders'[e].stage # "idle"
          PROVE  deciders'[e].row \in OpenRows(approvals'[deciders'[e].item])
      <4>1. e # d /\ deciders'[e] = deciders[e] /\ deciders[e].item \in Items
        BY <1>1, <2>1, <3>1 DEF Decider
      <4>2. deciders[e].item # i
        BY <2>1, <3>1, <4>1 DEF Apart
      <4>3. QED
        BY <2>2, <3>1, <4>1, <4>2 DEF HoldsOpen
    <3>2. QED
      BY <3>1 DEF HoldsOpen
  <2>6. DecidedStay
    <3> HIDE DEF i, r
    <3>1. QED
      BY <2>2, <2>3, <2>4 DEF DecidedStay
  <2>7. QED
    BY <2>5, <2>6
<1>7. QED
  BY <1>2, <1>3, <1>4, <1>5, <1>6

LEMMA NothingDecided ==
    ASSUME HoldsOpen, UNCHANGED <<approvals, deciders>>
    PROVE  HoldsOpen' /\ DecidedStay
BY DEF HoldsOpen, DecidedStay

\* DecidedOnce holds as long as no two commands are at work on the same item: a
\* request that was decided is not decided again (queue.py:93-112).
THEOREM DecidedOnceApart == Spec /\ []Apart => DecidedOnce
<1>1. Init => HoldsOpen
  BY DEF Init, HoldsOpen, IdleDecider
<1>2. TypeOK /\ HoldsOpen /\ Apart /\ [Next]_queueVars => HoldsOpen' /\ [DecidedStay]_queueVars
  <2> SUFFICES ASSUME TypeOK, HoldsOpen, Apart, [Next]_queueVars PROVE HoldsOpen' /\ DecidedStay
    OBVIOUS
  <2>1. CASE CommitRun
    BY <2>1, CommitTablesDecided DEF CommitRun
  <2>2. CASE DecisionStep
    BY <2>2, DecisionDecidesOnce
  <2>3. CASE UNCHANGED <<approvals, deciders>>
    BY <2>3, NothingDecided
  <2>4. QED
    BY <2>1, <2>2, <2>3 DEF Next, RunStep, StartRun, PrepareItem, AbortRun, RollbackTables,
       ForgetRun, OperatorStep, ChangeMode, LinkEvidence, tableVars, queueVars
<1>3. [DecidedStay]_queueVars
        <=> [\A i \in Items : \A k \in DOMAIN approvals[i] :
               approvals[i][k].decision # "PENDING" => approvals'[i][k] = approvals[i][k]]_queueVars
  BY DEF DecidedStay
<1>4. QED
  BY <1>1, <1>2, <1>3, TypeCorrect, PTL DEF Spec, DecidedOnce
===============================================================================
