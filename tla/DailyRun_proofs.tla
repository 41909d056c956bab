---------------------------- MODULE DailyRun_proofs ----------------------------
(***************************************************************************)
(* What DailyRun keeps for every set of items, variants and modes, every   *)
(* set of answers and any number of crashes: the types, the human gate in  *)
(* front of the provider, and the agreement of the publications rows with  *)
(* what the provider has.                                                  *)
(***************************************************************************)
EXTENDS DailyRun, ApprovalQueue_proofs

LEMMA BumpType ==
    /\ \A n \in 0 .. AttemptsCap : Bump(n, AttemptsCap) \in 0 .. AttemptsCap
    /\ \A n \in 0 .. PostsCap : Bump(n, PostsCap) \in 0 .. PostsCap
BY RunAssumption DEF Bump

\* A post, once made, stays and counts.
LEMMA PostedType ==
    ASSUME RTypeOK, NEW v \in Variants, NEW created \in BOOLEAN, Posted(v, created)
    PROVE  /\ posts' \in [Variants -> 0 .. PostsCap]
           /\ created => posts'[v] > 0
           /\ \A u \in Variants : posts[u] > 0 => posts'[u] > 0
           /\ \A u \in Variants : posts'[u] > 0 => posts[u] > 0 \/ (created /\ u = v)
<1>1. /\ posts \in [Variants -> 0 .. PostsCap] /\ posts[v] \in 0 .. PostsCap
      /\ PostsCap \in Nat /\ 1 < PostsCap
  BY RunAssumption DEF RTypeOK, PubTypeOK
<1>2. Bump(posts[v], PostsCap) \in 0 .. PostsCap /\ Bump(posts[v], PostsCap) > 0
  BY <1>1 DEF Bump
<1>3. posts' = [posts EXCEPT ![v] = IF created THEN Bump(posts[v], PostsCap) ELSE posts[v]]
  BY DEF Posted
<1>4. QED
  BY <1>1, <1>2, <1>3

LEMMA NoCallType == NoCall \in [variant : Variants, item : ItemRow]
BY RowTypes, RunAssumption DEF NoCall

LEMMA RowSeenType ==
    ASSUME TypeOK, NEW i \in Items
    PROVE  RowSeenByRun(i) \in ItemRow
BY DEF TypeOK, RowSeenByRun

LEMMA LifecycleType ==
    ASSUME NEW i, NEW p
    PROVE  LifecycleOf(i, p) \in Lifecycles
BY DEF LifecycleOf, Lifecycles

LEMMA EmptyPubs ==
    /\ [v \in Variants |-> NoRow] \in [Variants -> PubRow]
    /\ [v \in Variants |-> 0] \in [Variants -> Nat]
    /\ [v \in Variants |-> 0] \in [Variants -> 0 .. PostsCap]
<1>1. NoRow \in PubRow
  BY RunAssumption DEF NoRow, PubRow, PubStatuses
<1>2. QED
  BY <1>1, RunAssumption

LEMMA RInitType == RInit => RTypeOK
<1> SUFFICES ASSUME RInit PROVE RTypeOK
  OBVIOUS
<1>1. TypeOK
  BY InitType DEF RInit
<1>2. PubTypeOK
  BY EmptyPubs, NoCallType DEF RInit, PubTypeOK
<1>3. QED
  BY <1>1, <1>2 DEF RTypeOK

LEMMA ToPhaseType ==
    ASSUME TypeOK, NEW p \in {"publish", "calling", "retry", "retrying"}, ToPhase(p),
           mine' \in [Items -> ItemRow], wrote' \in SUBSET Items
    PROVE  TypeOK'
BY DEF TypeOK, ToPhase, tableVars, configVars

LEMMA SendType ==
    ASSUME RTypeOK, NEW v \in Variants, PublishDue(v) \/ RetryOne(v)
    PROVE  RTypeOK'
<1>1. /\ mySubmitted' \in [Variants -> Nat]
      /\ call' \in [variant : Variants, item : ItemRow]
      /\ phase' \in {"publish", "calling", "retry", "retrying"}
  <2>1. ASSUME NEW p \in {"calling", "retrying"}, Submit(v, p)
        PROVE  /\ mySubmitted' \in [Variants -> Nat]
               /\ call' \in [variant : Variants, item : ItemRow]
               /\ phase' = p
    <3>1. ItemOf[v] \in Items
      BY RunAssumption
    <3>2. RowSeenByRun(ItemOf[v]) \in ItemRow
      BY <3>1, RowSeenType DEF RTypeOK
    <3>3. mySubmitted' \in [Variants -> Nat]
      BY <2>1 DEF Submit, OneMoreEvent, RTypeOK, PubTypeOK
    <3>4. QED
      BY <2>1, <3>2, <3>3 DEF Submit
  <2>2. CASE PublishDue(v)
    BY <2>1, <2>2 DEF PublishDue, Skip, RTypeOK, PubTypeOK
  <2>3. CASE RetryOne(v)
    BY <2>1, <2>3 DEF RetryOne, Skip, RTypeOK, PubTypeOK
  <2>4. QED
    BY <2>2, <2>3
<1>2. PubTypeOK'
  BY <1>1 DEF PublishDue, RetryOne, pubVars, PubTypeOK, RTypeOK
<1>3. TypeOK'
  BY <1>1 DEF PublishDue, RetryOne, RTypeOK, PubTypeOK, TypeOK, tableVars, configVars
<1>4. QED
  BY <1>2, <1>3 DEF RTypeOK

LEMMA AnswerType == Answers \subseteq Answer
<1>1. Sent \in Answer /\ Staged \in Answer
  BY DEF Sent, Staged, Answer, PubStatuses
<1>2. Refused \in Answer /\ Outage \in Answer /\ LostReply \in Answer
  BY DEF Refused, Outage, LostReply, Answer, PubStatuses
<1>3. NotTransmitted \in Answer
  BY DEF NotTransmitted, Answer, PubStatuses
<1>4. QED
  BY <1>1, <1>2, <1>3, RunAssumption DEF AnyAnswer, BufferAnswers

\* What a write of the run's transaction does to the rows it holds.
LEMMA AnswersEffect ==
    ASSUME RTypeOK, NEW answer \in Answers, ProviderAnswers(answer)
    PROVE  LET v == call.variant
               i == ItemOf[v]
           IN  /\ v \in Variants /\ i \in Items /\ call.item \in ItemRow
               /\ answer \in Answer /\ Posted(v, answer.created)
               /\ \E row \in PubRow : /\ row.status = answer.status
                                      /\ myPubs' = [myPubs EXCEPT ![v] = row]
               /\ \E l \in Lifecycles :
                     mine' = [mine EXCEPT ![i] = [call.item EXCEPT !.lifecycle = l]]
               /\ wrote' = wrote \cup {i}
<1> DEFINE v == call.variant
           i == ItemOf[v]
           row == [status |-> answer.status, retryable |-> answer.retryable,
                   attempts |-> Bump(myPubs[v].attempts, AttemptsCap)]
<1>1. v \in Variants /\ i \in Items /\ call.item \in ItemRow /\ answer \in Answer
  BY RunAssumption, AnswerType DEF RTypeOK, PubTypeOK
<1>2. Posted(v, answer.created)
  BY DEF ProviderAnswers
<1>3. row \in PubRow
  <2>1. Bump(myPubs[v].attempts, AttemptsCap) \in 0 .. AttemptsCap
    BY <1>1, BumpType DEF RTypeOK, PubTypeOK, PubRow
  <2>2. QED
    BY <1>1, <2>1 DEF PubRow, Answer
<1>4. myPubs' = [myPubs EXCEPT ![v] = row]
  BY <1>1 DEF ProviderAnswers, RTypeOK, PubTypeOK
<1>5. /\ mine' = [mine EXCEPT ![i] = [call.item EXCEPT !.lifecycle = LifecycleOf(i, myPubs')]]
      /\ wrote' = wrote \cup {i}
  BY DEF ProviderAnswers, WriteRow
<1>6. LifecycleOf(i, myPubs') \in Lifecycles
  BY LifecycleType
<1>7. QED
  BY <1>1, <1>2, <1>3, <1>4, <1>5, <1>6

LEMMA AnswersType ==
    ASSUME RTypeOK, NEW answer \in Answers, ProviderAnswers(answer)
    PROVE  RTypeOK'
<1>1. PICK l \in Lifecycles :
         mine' = [mine EXCEPT ![ItemOf[call.variant]] = [call.item EXCEPT !.lifecycle = l]]
  BY AnswersEffect
<1>2. [call.item EXCEPT !.lifecycle = l] \in ItemRow
  BY AnswersEffect DEF ItemRow
<1>3. mine' \in [Items -> ItemRow] /\ wrote' \in SUBSET Items
  BY <1>1, <1>2, AnswersEffect DEF RTypeOK, PubTypeOK, TypeOK
<1>4. TypeOK'
  BY <1>3, ToPhaseType DEF ProviderAnswers, RTypeOK, PubTypeOK
<1>5. posts' \in [Variants -> 0 .. PostsCap]
  BY AnswersEffect, PostedType DEF Answer
<1>6. myPubs' \in [Variants -> PubRow]
  BY AnswersEffect DEF RTypeOK, PubTypeOK
<1>7. mySubmitted' \in [Variants -> Nat] /\ myOutcomes' \in [Variants -> Nat]
  <2>1. mySubmitted \in [Variants -> Nat] /\ myOutcomes \in [Variants -> Nat]
    BY DEF RTypeOK, PubTypeOK
  <2>2. CASE answer.status = "QUEUED"
    BY <2>1, <2>2 DEF ProviderAnswers, RecordResult, OneMoreEvent
  <2>3. CASE answer.status # "QUEUED"
    BY <2>1, <2>3 DEF ProviderAnswers, RecordResult, OneMoreEvent
  <2>4. QED
    BY <2>2, <2>3
<1>8. PubTypeOK'
  BY <1>5, <1>6, <1>7, NoCallType DEF ProviderAnswers, pubVars, PubTypeOK, RTypeOK
<1>9. QED
  BY <1>4, <1>8 DEF RTypeOK

LEMMA CommitType == RTypeOK /\ Commit => RTypeOK'
<1> SUFFICES ASSUME RTypeOK, Commit PROVE RTypeOK'
  OBVIOUS
<1>1. TypeOK'
  BY CommitTablesType DEF Commit, RTypeOK, PubTypeOK
<1>2. PubTypeOK'
  BY EmptyPubs, NoCallType DEF Commit, ForgetSend, PubTypeOK, RTypeOK
<1>3. QED
  BY <1>1, <1>2 DEF RTypeOK

LEMMA AbortType ==
    ASSUME RTypeOK, NEW created \in BOOLEAN, Abort(created)
    PROVE  RTypeOK'
<1>1. TypeOK'
  BY RollbackTablesType DEF Abort, RTypeOK, PubTypeOK
<1>2. call.variant \in Variants
  BY DEF RTypeOK, PubTypeOK
<1>3. posts' \in [Variants -> 0 .. PostsCap]
  BY <1>2, PostedType DEF Abort
<1>4. PubTypeOK'
  BY <1>3, EmptyPubs, NoCallType DEF Abort, ForgetSend, pubVars, PubTypeOK, RTypeOK
<1>5. QED
  BY <1>1, <1>4 DEF RTypeOK

LEMMA BeginType ==
    ASSUME RTypeOK, BeginRetrying \/ \E slots \in SUBSET Variants : BeginPublishing(slots)
    PROVE  RTypeOK'
<1>1. TypeOK'
  BY ToPhaseType DEF BeginRetrying, BeginPublishing, RTypeOK, PubTypeOK, TypeOK
<1>2. PubTypeOK'
  BY DEF BeginRetrying, BeginPublishing, pubVars, myAudit, PubTypeOK, RTypeOK
<1>3. QED
  BY <1>1, <1>2 DEF RTypeOK

\* RTypeOK holds in every behaviour: rows, counters, the call under way and the
\* posts keep the shape service.py and pipeline.py give them.
THEOREM RunTypeCorrect == RSpec => []RTypeOK
<1>1. RInit => RTypeOK
  BY RInitType
<1>2. RTypeOK /\ [RNext]_vars => RTypeOK'
  <2> SUFFICES ASSUME RTypeOK, [RNext]_vars PROVE RTypeOK'
    OBVIOUS
  <2>0. TypeOK /\ PubTypeOK
    BY DEF RTypeOK
  <2>1. CASE Start
    <3>1. TypeOK'
      BY <2>0, <2>1, StartRunType DEF Start
    <3>2. PubTypeOK'
      BY <2>0, <2>1 DEF Start, pubVars, PubTypeOK
    <3>3. QED
      BY <3>1, <3>2 DEF RTypeOK
  <2>2. ASSUME NEW i \in Items, Prepare(i) PROVE RTypeOK'
    <3>1. TypeOK'
      BY <2>0, <2>2, PrepareType DEF Prepare
    <3>2. PubTypeOK'
      BY <2>0, <2>2 DEF Prepare, pubVars, sendVars, myAudit, PubTypeOK
    <3>3. QED
      BY <3>1, <3>2 DEF RTypeOK
  <2>3. CASE BeginRetrying \/ \E slots \in SUBSET Variants : BeginPublishing(slots)
    BY <2>3, BeginType
  <2>4. ASSUME NEW v \in Variants, PublishDue(v) \/ RetryOne(v) PROVE RTypeOK'
    BY <2>4, SendType
  <2>5. ASSUME NEW answer \in Answers, ProviderAnswers(answer) PROVE RTypeOK'
    BY <2>5, AnswersType
  <2>6. CASE Commit
    BY <2>6, CommitType
  <2>7. ASSUME NEW created \in BOOLEAN, Abort(created) PROVE RTypeOK'
    BY <2>7, AbortType
  <2>8. CASE OthersStep \/ UNCHANGED vars
    <3>1. TypeOK'
      BY <2>0, <2>8, DecisionType, OperatorType, StutterType DEF OthersStep, vars
    <3>2. PubTypeOK'
      BY <2>0, <2>8 DEF OthersStep, pubVars, sendVars, myAudit, vars, PubTypeOK
    <3>3. QED
      BY <3>1, <3>2 DEF RTypeOK
  <2>9. QED
    BY <2>1, <2>2, <2>3, <2>4, <2>5, <2>6, <2>7, <2>8 DEF RNext, SendStep
<1>3. QED
  BY <1>1, <1>2, PTL DEF RSpec
-------------------------------------------------------------------------------
\* The human gate.
LEMMA RInitGate == RInit => HumanGateInv
BY InitAuthority DEF RInit, HumanGateInv, CallInv, Calling, HumanGate, Init

\* Where nothing moves that the gate speaks of, it stays shut.
LEMMA GateFrame ==
    ASSUME RTypeOK, HumanGateInv, AuthorityInv', posts' = posts, call' = call, phase' = phase,
           \A i \in Items : granted[i] \subseteq granted'[i],
           \A i \in Items : inserted'[i] = inserted[i]
    PROVE  HumanGateInv'
<1>1. ItemOf[call.variant] \in Items /\ \A v \in Variants : ItemOf[v] \in Items
  BY RunAssumption DEF RTypeOK, PubTypeOK
<1>2. ASSUME NEW i \in Items
      PROVE  Backed(i) => Backed(i)'
  BY BackedStays
<1>3. CallInv'
  BY <1>1, <1>2 DEF HumanGateInv, CallInv, Calling
<1>4. HumanGate'
  BY <1>1 DEF HumanGateInv, HumanGate
<1>5. QED
  BY <1>3, <1>4 DEF HumanGateInv

\* Outside a call the gate asks for nothing but the history.
LEMMA GateIdle ==
    ASSUME RTypeOK, HumanGateInv, AuthorityInv', ~Calling',
           \A v \in Variants : posts'[v] > 0 => posts[v] > 0 \/ (Calling /\ v = call.variant),
           \A i \in Items : granted[i] \subseteq granted'[i]
    PROVE  HumanGateInv'
<1>1. \A v \in Variants : ItemOf[v] \in Items
  BY RunAssumption
<1>2. HumanGate'
  <2> SUFFICES ASSUME NEW v \in Variants, posts'[v] > 0,
                      ContentOf[ItemOf[v]].requirement = "HUMAN_APPROVAL_REQUIRED"
               PROVE  "human" \in granted'[ItemOf[v]]
    BY DEF HumanGate
  <2>1. CASE posts[v] > 0
    BY <1>1, <2>1 DEF HumanGateInv, HumanGate
  <2>2. CASE Calling /\ v = call.variant
    BY <1>1, <2>2 DEF HumanGateInv, CallInv
  <2>3. QED
    BY <2>1, <2>2
<1>3. CallInv'
  BY DEF CallInv
<1>4. QED
  BY <1>2, <1>3 DEF HumanGateInv

\* An item the run reads as APPROVED is backed by an approval.
LEMMA RowSeenBacked ==
    ASSUME AuthorityInv, NEW i \in Items, RowSeenByRun(i).status = "APPROVED"
    PROVE  Backed(i)
BY DEF AuthorityInv, RowSeenByRun, Backed

\* A HUMAN_APPROVAL_REQUIRED item is submitted only where its row reads APPROVED.
LEMMA HumanCleared ==
    ASSUME TypeOK, NEW v \in Variants, NEW p, Submit(v, p),
           ContentOf[ItemOf[v]].requirement = "HUMAN_APPROVAL_REQUIRED"
    PROVE  RowSeenByRun(ItemOf[v]).status = "APPROVED"
<1>1. /\ seen[ItemOf[v]] \in Content /\ (ItemOf[v] \in linked) \in BOOLEAN
      /\ seen[ItemOf[v]].requirement = "HUMAN_APPROVAL_REQUIRED"
  BY RunAssumption, SightsKeepTheRequirement
<1>2. Authorised(DecisionOn(ItemOf[v]), RowSeenByRun(ItemOf[v]).status, "none")
  BY DEF Submit, MayPublish
<1>3. ~DecisionOn(ItemOf[v]).blocked
  BY <1>2 DEF Authorised
<1>4. DecisionOn(ItemOf[v]).requires_approval
  BY <1>1, <1>3, HumanItemsWait DEF DecisionOn
<1>5. QED
  BY <1>2, <1>4 DEF Authorised

\* The submission is where the gate is: what is cleared for a HUMAN item was
\* approved by a person.
LEMMA SendGate ==
    ASSUME RTypeOK, HumanGateInv, NEW v \in Variants, PublishDue(v) \/ RetryOne(v)
    PROVE  HumanGateInv'
<1>1. /\ posts' = posts /\ granted' = granted /\ inserted' = inserted
      /\ items' = items /\ object' = object /\ mine' = mine
  BY DEF PublishDue, RetryOne, tableVars
<1>2. ItemOf[v] \in Items
  BY RunAssumption
<1>3. AuthorityInv'
  BY <1>1 DEF HumanGateInv, AuthorityInv, Backed, HasAuthority
<1>4. CASE Skip(v)
  BY <1>1, <1>3, <1>4, GateFrame DEF Skip
<1>5. ASSUME NEW p, Submit(v, p)
      PROVE  CallInv'
  <2>1. call' = [variant |-> v, item |-> RowSeenByRun(ItemOf[v])]
    BY <1>5 DEF Submit
  <2>2. RowSeenByRun(ItemOf[v]).status = "APPROVED" => Backed(ItemOf[v])
    BY <1>2, RowSeenBacked DEF HumanGateInv
  <2>3. ASSUME ContentOf[ItemOf[v]].requirement = "HUMAN_APPROVAL_REQUIRED"
        PROVE  "human" \in granted[ItemOf[v]]
    <3>1. RowSeenByRun(ItemOf[v]).status = "APPROVED"
      BY <1>5, <2>3, HumanCleared DEF RTypeOK
    <3>2. QED
      BY <2>2, <2>3, <3>1 DEF Backed, HasAuthority
  <2>4. Backed(ItemOf[v])' <=> Backed(ItemOf[v])
    BY <1>1 DEF Backed, HasAuthority
  <2>5. QED
    BY <1>1, <2>1, <2>2, <2>3, <2>4 DEF CallInv
<1>6. HumanGate'
  BY <1>1 DEF HumanGateInv, HumanGate
<1>7. QED
  BY <1>3, <1>4, <1>5, <1>6 DEF PublishDue, RetryOne, HumanGateInv

\* The row written after the call is that of the object loaded before it.
LEMMA AnswersGate ==
    ASSUME RTypeOK, HumanGateInv, NEW answer \in Answers, ProviderAnswers(answer)
    PROVE  HumanGateInv'
<1> DEFINE i == ItemOf[call.variant]
<1>1. /\ items' = items /\ granted' = granted /\ object' = object /\ inserted' = inserted
      /\ ~Calling' /\ Calling
  BY DEF ProviderAnswers, ToPhase, tableVars, Calling
<1>2. ASSUME NEW j \in Items
      PROVE  (Backed(j)' <=> Backed(j)) /\ (HasAuthority(j)' <=> HasAuthority(j))
  BY <1>1 DEF Backed, HasAuthority
<1>3. ASSUME NEW j \in Items, mine'[j].status = "APPROVED"
      PROVE  Backed(j)
  <2>1. PICK l \in Lifecycles : mine' = [mine EXCEPT ![i] = [call.item EXCEPT !.lifecycle = l]]
    BY AnswersEffect
  <2>2. CASE j = i
    <3>1. call.item \in ItemRow /\ mine \in [Items -> ItemRow]
      BY AnswersEffect DEF RTypeOK, TypeOK
    <3>2. call.item.status = "APPROVED"
      BY <1>3, <2>1, <2>2, <3>1 DEF ItemRow
    <3>3. QED
      BY <1>1, <2>2, <3>2 DEF HumanGateInv, CallInv
  <2>3. CASE j # i
    BY <1>3, <2>1, <2>3 DEF HumanGateInv, AuthorityInv, RTypeOK, TypeOK
  <2>4. QED
    BY <2>2, <2>3
<1>4. AuthorityInv'
  BY <1>1, <1>2, <1>3 DEF HumanGateInv, AuthorityInv
<1>5. \A v \in Variants : posts'[v] > 0 => posts[v] > 0 \/ (Calling /\ v = call.variant)
  BY <1>1, AnswersEffect, PostedType DEF Answer
<1>6. QED
  BY <1>1, <1>4, <1>5, GateIdle

LEMMA GateInvariant == RSpec => [](RTypeOK /\ HumanGateInv)
<1>1. RInit => HumanGateInv
  BY RInitGate
<1>2. RTypeOK /\ RTypeOK' /\ HumanGateInv /\ [RNext]_vars => HumanGateInv'
  <2> SUFFICES ASSUME RTypeOK, RTypeOK', HumanGateInv, [RNext]_vars PROVE HumanGateInv'
    OBVIOUS
  <2>0. TypeOK /\ AuthorityInv
    BY DEF RTypeOK, HumanGateInv
  <2>1. CASE Start
    <3>1. AuthorityInv' /\ granted' = granted /\ posts' = posts /\ ~Calling'
      BY <2>0, <2>1, StartRunAuthority DEF Start, StartRun, tableVars, Calling
    <3>2. QED
      BY <3>1, GateIdle
  <2>2. ASSUME NEW i \in Items, Prepare(i) PROVE HumanGateInv'
    <3>1. AuthorityInv' /\ granted' = granted /\ posts' = posts /\ ~Calling'
      BY <2>0, <2>2, PrepareAuthority DEF Prepare, PrepareItem, tableVars, Calling
    <3>2. QED
      BY <3>1, GateIdle
  <2>3. CASE BeginRetrying \/ \E slots \in SUBSET Variants : BeginPublishing(slots)
    <3>1. /\ items' = items /\ granted' = granted /\ object' = object /\ mine' = mine
          /\ inserted' = inserted /\ posts' = posts /\ ~Calling'
      BY <2>3 DEF BeginRetrying, BeginPublishing, ToPhase, tableVars, Calling
    <3>2. AuthorityInv'
      BY <2>0, <3>1 DEF AuthorityInv, Backed, HasAuthority
    <3>3. QED
      BY <3>1, <3>2, GateIdle
  <2>4. ASSUME NEW v \in Variants, PublishDue(v) \/ RetryOne(v) PROVE HumanGateInv'
    BY <2>4, SendGate
  <2>5. ASSUME NEW answer \in Answers, ProviderAnswers(answer) PROVE HumanGateInv'
    BY <2>5, AnswersGate
  <2>6. CASE Commit
    <3>1. AuthorityInv' /\ posts' = posts /\ ~Calling'
      BY <2>0, <2>6, CommitTablesAuthority DEF Commit, CommitTables, ForgetRun, Calling
    <3>2. \A i \in Items : granted[i] \subseteq granted'[i]
      BY <2>0, <2>6, GrantedGrows DEF Commit
    <3>3. QED
      BY <3>1, <3>2, GateIdle
  <2>7. ASSUME NEW created \in BOOLEAN, Abort(created) PROVE HumanGateInv'
    <3>1. AuthorityInv' /\ granted' = granted /\ ~Calling'
      BY <2>0, <2>7, RollbackTablesAuthority
         DEF Abort, RollbackTables, ForgetRun, Calling, tableVars
    <3>2. \A v \in Variants : posts'[v] > 0 => posts[v] > 0 \/ (Calling /\ v = call.variant)
      BY <2>7, PostedType DEF Abort, RTypeOK, PubTypeOK
    <3>3. QED
      BY <3>1, <3>2, GateIdle
  <2>8. CASE OthersStep \/ UNCHANGED vars
    <3>1. AuthorityInv'
      BY <2>0, <2>8, DecisionAuthority, OperatorAuthority DEF OthersStep, vars
    <3>2. /\ posts' = posts /\ call' = call /\ phase' = phase /\ inserted' = inserted
      BY <2>8 DEF OthersStep, OperatorStep, ChangeMode, LinkEvidence, DecisionStep, SelectPending,
         UpdateRow, CommitDecision, AbandonDecision, sendVars, runVars, vars, queueVars
    <3>3. \A i \in Items : granted[i] \subseteq granted'[i]
      BY <2>0, <2>8, GrantedGrows DEF OthersStep, OperatorStep, ChangeMode, LinkEvidence, vars,
         queueVars, tableVars
    <3>4. QED
      BY <3>1, <3>2, <3>3, GateFrame
  <2>9. QED
    BY <2>1, <2>2, <2>3, <2>4, <2>5, <2>6, <2>7, <2>8 DEF RNext, SendStep
<1>3. QED
  BY <1>1, <1>2, RunTypeCorrect, PTL DEF RSpec

\* HumanGate: no post of a HUMAN_APPROVAL_REQUIRED item exists before a person's
\* approval of it was committed, whatever the modes, the answers of the provider,
\* the retries and the rolled-back runs.
THEOREM HumanGateHolds == RSpec => []HumanGate
<1>1. HumanGateInv => HumanGate
  BY DEF HumanGateInv
<1>2. QED
  BY <1>1, GateInvariant, PTL
-------------------------------------------------------------------------------
\* The publications rows against the posts at the provider.
LEMMA LiveAnswers ==
    ASSUME NEW answer \in Answers, Live(answer.status)
    PROVE  answer.created
BY RunAssumption
   DEF AnyAnswer, BufferAnswers, NotTransmitted, Sent, Staged, Refused, Outage, LostReply, Live

\* While the run holds its tables and nobody's posts are taken back.
LEMMA RecordFrame ==
    ASSUME RTypeOK, RecordInv, pubs' = pubs, myPubs' = myPubs,
           Calling' => ~IsLive(myPubs, call.variant)',
           phase = "idle" => phase' = "idle",
           \A v \in Variants : posts[v] > 0 => posts'[v] > 0
    PROVE  RecordInv'
BY DEF RecordInv, IsLive, HasRow

\* Between runs only the committed rows count.
LEMMA RecordIdle ==
    ASSUME RTypeOK, phase' = "idle", ForgetSend,
           \A v \in Variants : IsLive(pubs, v)' => posts'[v] > 0
    PROVE  RecordInv'
BY DEF RecordInv, ForgetSend, IsLive, HasRow, NoRow, Live, Calling

LEMMA AnswersRecord ==
    ASSUME RTypeOK, RecordInv, NEW answer \in Answers, ProviderAnswers(answer)
    PROVE  RecordInv'
<1> DEFINE v == call.variant
<1>1. PICK row \in PubRow :
         row.status = answer.status /\ myPubs' = [myPubs EXCEPT ![v] = row]
  BY AnswersEffect
<1>2. /\ v \in Variants /\ Calling /\ ~Calling' /\ phase' # "idle" /\ phase # "idle"
      /\ pubs' = pubs /\ myPubs \in [Variants -> PubRow]
  BY AnswersEffect DEF ProviderAnswers, ToPhase, Calling, pubVars, RTypeOK, PubTypeOK
<1>3. /\ answer.created => posts'[v] > 0
      /\ \A u \in Variants : posts[u] > 0 => posts'[u] > 0
  BY AnswersEffect, PostedType DEF Answer
<1>4. ~IsLive(pubs, v)
  <2>1. IsLive(pubs, v) => IsLive(myPubs, v)
    BY <1>2 DEF RecordInv, IsLive, HasRow
  <2>2. QED
    BY <1>2, <2>1 DEF RecordInv
<1>5. ASSUME NEW u \in Variants
      PROVE  /\ IsLive(pubs, u)' \/ IsLive(myPubs, u)' => posts'[u] > 0
             /\ IsLive(pubs, u)' => myPubs'[u] = pubs'[u]
  <2>1. CASE u = v
    <3>1. ~IsLive(pubs, u)'
      BY <1>2, <1>4, <2>1 DEF IsLive, HasRow
    <3>2. IsLive(myPubs, u)' => Live(answer.status)
      BY <1>1, <1>2, <2>1 DEF IsLive
    <3>3. QED
      BY <1>3, <2>1, <3>1, <3>2, LiveAnswers
  <2>2. CASE u # v
    <3>1. myPubs'[u] = myPubs[u]
      BY <1>1, <1>2, <2>2
    <3>2. QED
      BY <1>2, <1>3, <3>1 DEF RecordInv, IsLive, HasRow
  <2>3. QED
    BY <2>1, <2>2
<1>6. QED
  BY <1>2, <1>5 DEF RecordInv

\* RecordInv is inductive: the run holds every live row unchanged and calls the
\* provider for none of them, and what it records as live was posted.
LEMMA RecordInvariant == RSpec => [](RTypeOK /\ RecordInv)
<1>1. RInit => RecordInv
  BY DEF RInit, Init, RecordInv, IsLive, HasRow, NoRow, Calling
<1>2. RTypeOK /\ RecordInv /\ [RNext]_vars => RecordInv'
  <2> SUFFICES ASSUME RTypeOK, RecordInv, [RNext]_vars PROVE RecordInv'
    OBVIOUS
  <2>1. CASE Start
    BY <2>1 DEF Start, StartRun, pubVars, RecordInv, Calling, IsLive, HasRow
  <2>2. ASSUME NEW i \in Items, Prepare(i) PROVE RecordInv'
    BY <2>2, RecordFrame DEF Prepare, PrepareItem, pubVars, sendVars, Calling
  <2>3. CASE BeginRetrying \/ \E slots \in SUBSET Variants : BeginPublishing(slots)
    <3>1. /\ pubs' = pubs /\ myPubs' = myPubs /\ posts' = posts /\ ~Calling' /\ phase # "idle"
      BY <2>3 DEF BeginRetrying, BeginPublishing, ToPhase, pubVars, Calling
    <3>2. QED
      BY <3>1, RecordFrame
  <2>4. ASSUME NEW v \in Variants, PublishDue(v) \/ RetryOne(v) PROVE RecordInv'
    <3>1. /\ pubs' = pubs /\ myPubs' = myPubs /\ posts' = posts /\ phase # "idle"
      BY <2>4 DEF PublishDue, RetryOne, pubVars
    <3>2. CASE Skip(v)
      BY <2>4, <3>1, <3>2, RecordFrame DEF Skip, PublishDue, RetryOne, Calling
    <3>3. ASSUME NEW p, Submit(v, p)
          PROVE  ~IsLive(myPubs, call.variant)'
      BY <3>1, <3>3 DEF Submit, IsLive, HasRow
    <3>4. QED
      BY <2>4, <3>1, <3>2, <3>3, RecordFrame DEF PublishDue, RetryOne
  <2>5. ASSUME NEW answer \in Answers, ProviderAnswers(answer) PROVE RecordInv'
    BY <2>5, AnswersRecord
  <2>6. CASE Commit
    <3>1. \A v \in Variants : IsLive(pubs, v)' => posts'[v] > 0
      BY <2>6 DEF Commit, RecordInv, IsLive, HasRow
    <3>2. QED
      BY <2>6, <3>1, RecordIdle DEF Commit, CommitTables, ForgetRun
  <2>7. ASSUME NEW created \in BOOLEAN, Abort(created) PROVE RecordInv'
    <3>1. \A v \in Variants : posts[v] > 0 => posts'[v] > 0
      BY <2>7, PostedType DEF Abort, RTypeOK, PubTypeOK
    <3>2. \A v \in Variants : IsLive(pubs, v)' => posts'[v] > 0
      BY <2>7, <3>1 DEF Abort, pubVars, RecordInv, IsLive, HasRow
    <3>3. QED
      BY <2>7, <3>2, RecordIdle DEF Abort, RollbackTables, ForgetRun
  <2>8. CASE OthersStep \/ UNCHANGED vars
    <3>1. /\ posts' = posts /\ call' = call /\ phase' = phase /\ myPubs' = myPubs /\ pubs' = pubs
      BY <2>8 DEF OthersStep, OperatorStep, ChangeMode, LinkEvidence, DecisionStep, SelectPending,
         UpdateRow, CommitDecision, AbandonDecision, sendVars, pubVars, runVars, vars, queueVars
    <3>2. Calling' => ~IsLive(myPubs, call.variant)'
      BY <3>1 DEF RecordInv, Calling, IsLive, HasRow
    <3>3. QED
      BY <3>1, <3>2, RecordFrame
  <2>9. QED
    BY <2>1, <2>2, <2>3, <2>4, <2>5, <2>6, <2>7, <2>8 DEF RNext, SendStep
<1>3. QED
  BY <1>1, <1>2, RunTypeCorrect, PTL DEF RSpec

\* LiveIsReal: a publication on record as live exists at the provider, after any
\* number of retries and rolled-back runs.
THEOREM LiveRowsAreReal == RSpec => []LiveIsReal
<1>1. RecordInv => LiveIsReal
  BY DEF RecordInv, LiveIsReal
<1>2. QED
  BY <1>1, RecordInvariant, PTL

\* LiveRowsFrozen: a live publication keeps its row: no later slot or retry
\* publishes it again or marks it failed (service.py:103-105).
THEOREM LiveRowsStay == RSpec => LiveRowsFrozen
<1>1. RTypeOK /\ RecordInv /\ [RNext]_vars
        => [\A v \in Variants : IsLive(pubs, v) => pubs'[v] = pubs[v]]_vars
  <2>1. ASSUME RNext, pubs' # pubs
        PROVE  phase # "idle" /\ pubs' = myPubs
    BY <2>1 DEF RNext, SendStep, Start, Prepare, BeginRetrying, BeginPublishing, PublishDue,
       RetryOne, ProviderAnswers, Commit, Abort, OthersStep, pubVars
  <2>2. QED
    BY <2>1 DEF RecordInv, vars, pubVars
<1>2. QED
  BY <1>1, RecordInvariant, PTL DEF RSpec, LiveRowsFrozen
-------------------------------------------------------------------------------
\* The promise of PostOnce, and what it comes to when nothing is lost.
Known    == {v \in Variants : IsLive(RowsInView, v)}
Recorded == {v \in Variants : IsLive(pubs, v)}

LEMMA AnswersPromise ==
    ASSUME RTypeOK, RecordInv, NEW answer \in Answers, ProviderAnswers(answer)
    PROVE  \/ Promise!Post(call.variant)
           \/ Promise!PostUnheard(call.variant)
           \/ UNCHANGED <<posts, Known, Recorded>>
<1> DEFINE v == call.variant
<1>1. PICK row \in PubRow :
         row.status = answer.status /\ myPubs' = [myPubs EXCEPT ![v] = row]
  BY AnswersEffect
<1>2. /\ v \in Variants /\ Calling /\ phase' # "idle" /\ phase # "idle" /\ pubs' = pubs
      /\ myPubs \in [Variants -> PubRow] /\ posts \in [Variants -> 0 .. PostsCap]
      /\ myPubs'[v].attempts # 0
  BY AnswersEffect, RunAssumption
     DEF ProviderAnswers, ToPhase, Calling, pubVars, RTypeOK, PubTypeOK, PubRow, Bump
<1>3. /\ \A u \in Variants : u \in Known <=> myPubs[u].attempts # 0 /\ Live(myPubs[u].status)
      /\ \A u \in Variants : u \in Known' <=> myPubs'[u].attempts # 0 /\ Live(myPubs'[u].status)
      /\ Known \subseteq Variants /\ Known' \subseteq Variants /\ Recorded' = Recorded
  BY <1>2 DEF RowsInView, Known, Recorded, IsLive, HasRow
<1>4. v \notin Known
  BY <1>2, <1>3 DEF RecordInv, IsLive, HasRow
<1>5. Known' = IF Live(answer.status) THEN Known \cup {v} ELSE Known
  <2>1. \A u \in Variants \ {v} : myPubs'[u] = myPubs[u]
    BY <1>1, <1>2
  <2>2. myPubs'[v].status = answer.status
    BY <1>1, <1>2
  <2>3. \A u \in Variants \ {v} : u \in Known' <=> u \in Known
    BY <1>3, <2>1
  <2>4. v \in Known' <=> Live(answer.status)
    BY <1>2, <1>3, <2>2
  <2>5. QED
    BY <1>2, <1>3, <1>4, <2>3, <2>4
<1>6. posts' = [posts EXCEPT ![v] = IF answer.created THEN Bump(@, PostsCap) ELSE @]
  BY AnswersEffect DEF Posted
<1>7. CASE ~answer.created
  <2>1. posts' = posts
    BY <1>2, <1>6, <1>7
  <2>2. QED
    BY <1>3, <1>5, <1>7, <2>1, LiveAnswers
<1>8. CASE answer.created
  <2>1. Promise!OneMore(v)
    BY <1>6, <1>8 DEF Promise!OneMore, Bump
  <2>2. QED
    BY <1>3, <1>4, <1>5, <2>1 DEF Promise!Post, Promise!PostUnheard, Known, Recorded
<1>9. QED
  BY <1>7, <1>8

\* PostedOnce: whatever crashes and whatever replies are lost, publish_variant
\* never asks for a variant that the rows it sees hold as live, and no run takes
\* a recorded one out of the later runs' view (service.py:103-105).
THEOREM KnownIsNotReposted == RSpec => PostedOnce
<1>1. RInit => Promise!Init
  BY DEF RInit, Init, Promise!Init, RowsInView, IsLive, HasRow, NoRow
<1>2. RTypeOK /\ RecordInv /\ [RNext]_vars => [Promise!Next]_<<posts, Known, Recorded>>
  <2> SUFFICES ASSUME RTypeOK, RecordInv, [RNext]_vars
               PROVE  [Promise!Next]_<<posts, Known, Recorded>>
    OBVIOUS
  <2>1. ASSUME posts' = posts, pubs' = pubs, myPubs' = myPubs,
               phase' # phase => phase # "idle" /\ phase' # "idle"
        PROVE  UNCHANGED <<posts, Known, Recorded>>
    BY <2>1 DEF RowsInView, Known, Recorded, IsLive, HasRow
  <2>2. CASE Start
    BY <2>2 DEF Start, StartRun, pubVars, RowsInView, Known, Recorded, IsLive, HasRow
  <2>3. ASSUME NEW i \in Items, Prepare(i) PROVE UNCHANGED <<posts, Known, Recorded>>
    BY <2>1, <2>3 DEF Prepare, PrepareItem, pubVars, sendVars
  <2>4. CASE BeginRetrying \/ \E slots \in SUBSET Variants : BeginPublishing(slots)
    BY <2>1, <2>4 DEF BeginRetrying, BeginPublishing, ToPhase, pubVars
  <2>5. ASSUME NEW v \in Variants, PublishDue(v) \/ RetryOne(v)
        PROVE  UNCHANGED <<posts, Known, Recorded>>
    BY <2>1, <2>5 DEF PublishDue, RetryOne, Skip, Submit, pubVars
  <2>6. ASSUME NEW answer \in Answers, ProviderAnswers(answer)
        PROVE  [Promise!Next]_<<posts, Known, Recorded>>
    <3>1. call.variant \in Variants
      BY DEF RTypeOK, PubTypeOK
    <3>2. QED
      BY <2>6, <3>1, AnswersPromise DEF Promise!Next
  <2>7. CASE Commit
    <3>1. /\ posts' = posts /\ pubs' = myPubs /\ phase # "idle" /\ phase' = "idle"
      BY <2>7 DEF Commit, CommitTables, ForgetRun
    <3>2. Recorded' = Known /\ Known' = Known
      BY <3>1 DEF RowsInView, Known, Recorded, IsLive, HasRow
    <3>3. QED
      BY <3>1, <3>2 DEF Promise!Next, Promise!Record, Known, Recorded
  <2>8. ASSUME NEW created \in BOOLEAN, Abort(created)
        PROVE  Promise!Die
    <3>1. /\ pubs' = pubs /\ phase # "idle" /\ phase' = "idle"
      BY <2>8 DEF Abort, RollbackTables, ForgetRun, pubVars
    <3>2. Recorded' = Recorded /\ Known' = Recorded
      BY <3>1 DEF RowsInView, Known, Recorded, IsLive, HasRow
    <3>3. posts' = posts \/ \E v \in Variants \ Known : Promise!OneMore(v)
      <4>1. CASE ~created
        BY <2>8, <4>1 DEF Abort, Posted, RTypeOK, PubTypeOK
      <4>2. CASE created
        <5>1. call.variant \in Variants \ Known
          BY <2>8, <3>1, <4>2 DEF Abort, RTypeOK, PubTypeOK, RecordInv, RowsInView, Known
        <5>2. Promise!OneMore(call.variant)
          BY <2>8, <4>2 DEF Abort, Posted, Bump, Promise!OneMore
        <5>3. QED
          BY <5>1, <5>2
      <4>3. QED
        BY <4>1, <4>2
    <3>4. QED
      BY <3>2, <3>3 DEF Promise!Die, Known, Recorded
  <2>9. CASE OthersStep \/ UNCHANGED vars
    <3>1. /\ posts' = posts /\ phase' = phase /\ myPubs' = myPubs /\ pubs' = pubs
      BY <2>9 DEF OthersStep, OperatorStep, ChangeMode, LinkEvidence, DecisionStep, SelectPending,
         UpdateRow, CommitDecision, AbandonDecision, sendVars, pubVars, runVars, vars, queueVars
    <3>2. QED
      BY <2>1, <3>1
  <2>10. QED
    BY <2>2, <2>3, <2>4, <2>5, <2>6, <2>7, <2>8, <2>9 DEF RNext, SendStep, Promise!Next
<1>3. QED
  BY <1>1, <1>2, RecordInvariant, PTL DEF RSpec, PostedOnce, Promise!Spec, Known, Recorded

LEMMA AnsweredInFull ==
    ASSUME NEW answer \in Answers, LostReply \notin Answers
    PROVE  answer \in Answer /\ (answer.created <=> Live(answer.status))
<1>1. answer \in {Sent, Staged, Refused, Outage, NotTransmitted}
  BY RunAssumption DEF AnyAnswer, BufferAnswers
<1>2. answer.created <=> Live(answer.status)
  BY <1>1 DEF Sent, Staged, Refused, Outage, NotTransmitted, Live
<1>3. QED
  BY <1>2, AnswerType

LEMMA AnswersKnown ==
    ASSUME RTypeOK, RecordInv, KnownInv, NEW answer \in Answers, LostReply \notin Answers,
           ProviderAnswers(answer)
    PROVE  KnownInv'
<1> DEFINE v == call.variant
<1>1. PICK row \in PubRow :
         row.status = answer.status /\ myPubs' = [myPubs EXCEPT ![v] = row]
  BY AnswersEffect
<1>2. /\ v \in Variants /\ Calling /\ phase' # "idle" /\ phase # "idle" /\ pubs' = pubs
      /\ myPubs \in [Variants -> PubRow] /\ posts \in [Variants -> 0 .. PostsCap]
      /\ myPubs'[v].attempts # 0
  BY AnswersEffect, RunAssumption
     DEF ProviderAnswers, ToPhase, Calling, pubVars, RTypeOK, PubTypeOK, PubRow, Bump
<1>3. posts[v] = 0 /\ ~IsLive(pubs, v)
  <2>1. ~IsLive(myPubs, v)
    BY <1>2 DEF RecordInv
  <2>2. posts[v] = 0
    BY <1>2, <2>1 DEF KnownInv, RowsInView
  <2>3. IsLive(pubs, v) => IsLive(myPubs, v)
    BY <1>2 DEF RecordInv, IsLive, HasRow
  <2>4. QED
    BY <2>1, <2>2, <2>3
<1>4. posts' = [posts EXCEPT ![v] = IF answer.created THEN 1 ELSE 0]
  <2>1. Bump(posts[v], PostsCap) = 1
    BY <1>3, RunAssumption DEF Bump
  <2>2. QED
    BY <1>3, <2>1, AnswersEffect DEF Posted
<1>5. ASSUME NEW u \in Variants
      PROVE  posts'[u] <= 1 /\ (posts'[u] > 0 => IsLive(myPubs, u)')
  <2>1. CASE u = v
    <3>1. posts'[u] <= 1 /\ (posts'[u] > 0 => answer.created)
      BY <1>2, <1>4, <2>1
    <3>2. Live(answer.status) => IsLive(myPubs, u)'
      BY <1>1, <1>2, <2>1 DEF IsLive, HasRow
    <3>3. QED
      BY <3>1, <3>2, AnsweredInFull
  <2>2. CASE u # v
    <3>1. posts'[u] = posts[u] /\ myPubs'[u] = myPubs[u]
      BY <1>1, <1>2, <1>4, <2>2
    <3>2. QED
      BY <1>2, <3>1 DEF KnownInv, RowsInView, IsLive, HasRow
  <2>3. QED
    BY <2>1, <2>2
<1>6. KnownInv'
  BY <1>2, <1>5 DEF KnownInv, RowsInView
<1>7. QED
  BY <1>6

\* NoDoublePost: as long as no run dies and every reply arrives, each variant is
\* posted at most once, as service.py:104 has it.
THEOREM PostsOnceWithoutFaults ==
    ASSUME MaxAborts = 0, LostReply \notin Answers
    PROVE  RSpec => []NoDoublePost
<1>1. RInit => KnownInv
  BY DEF RInit, Init, KnownInv, RowsInView
<1>2. RTypeOK /\ RecordInv /\ KnownInv /\ [RNext]_vars => KnownInv'
  <2> SUFFICES ASSUME RTypeOK, RecordInv, KnownInv, [RNext]_vars PROVE KnownInv'
    OBVIOUS
  <2>1. ASSUME posts' = posts, pubs' = pubs, myPubs' = myPubs,
               phase' # phase => phase # "idle" /\ phase' # "idle"
        PROVE  KnownInv'
    BY <2>1 DEF KnownInv, RowsInView, IsLive, HasRow
  <2>2. CASE Start
    BY <2>2 DEF Start, StartRun, pubVars, KnownInv, RowsInView, IsLive, HasRow
  <2>3. ASSUME NEW i \in Items, Prepare(i) PROVE KnownInv'
    BY <2>1, <2>3 DEF Prepare, PrepareItem, pubVars, sendVars
  <2>4. CASE BeginRetrying \/ \E slots \in SUBSET Variants : BeginPublishing(slots)
    BY <2>1, <2>4 DEF BeginRetrying, BeginPublishing, ToPhase, pubVars
  <2>5. ASSUME NEW v \in Variants, PublishDue(v) \/ RetryOne(v) PROVE KnownInv'
    BY <2>1, <2>5 DEF PublishDue, RetryOne, Skip, Submit, pubVars
  <2>6. ASSUME NEW answer \in Answers, ProviderAnswers(answer) PROVE KnownInv'
    BY <2>6, AnswersKnown
  <2>7. CASE Commit
    BY <2>7 DEF Commit, CommitTables, ForgetRun, KnownInv, RowsInView, IsLive, HasRow
  <2>8. ASSUME NEW created \in BOOLEAN, Abort(created) PROVE FALSE
    BY <2>8 DEF Abort, RollbackTables, RTypeOK, TypeOK
  <2>9. CASE OthersStep \/ UNCHANGED vars
    <3>1. /\ posts' = posts /\ phase' = phase /\ myPubs' = myPubs /\ pubs' = pubs
      BY <2>9 DEF OthersStep, OperatorStep, ChangeMode, LinkEvidence, DecisionStep, SelectPending,
         UpdateRow, CommitDecision, AbandonDecision, sendVars, pubVars, runVars, vars, queueVars
    <3>2. QED
      BY <2>1, <3>1
  <2>10. QED
    BY <2>2, <2>3, <2>4, <2>5, <2>6, <2>7, <2>8, <2>9 DEF RNext, SendStep
<1>3. KnownInv => NoDoublePost
  BY DEF KnownInv, NoDoublePost
<1>4. QED
  BY <1>1, <1>2, <1>3, RecordInvariant, PTL DEF RSpec
-------------------------------------------------------------------------------
\* The audit trail.
LEMMA AnswersAudit ==
    ASSUME RTypeOK, AuditInv, NEW answer \in Answers, ProviderAnswers(answer)
    PROVE  AuditInv'
<1> DEFINE v == call.variant
           more == IF myPubs[v].attempts < AttemptsCap THEN 1 ELSE 0
<1>1. /\ v \in Variants /\ Calling /\ ~Calling' /\ phase # "idle"
      /\ pubs' = pubs /\ submitted' = submitted /\ outcomes' = outcomes
      /\ myPubs \in [Variants -> PubRow] /\ AttemptsCap \in Nat
      /\ mySubmitted \in [Variants -> Nat] /\ myOutcomes \in [Variants -> Nat]
  BY RunAssumption DEF ProviderAnswers, ToPhase, Calling, pubVars, RTypeOK, PubTypeOK
<1>2. myPubs[v].attempts \in Nat /\ more \in {0, 1}
  BY <1>1 DEF PubRow
<1>3. /\ myPubs'[v].attempts = myPubs[v].attempts + more
      /\ \A u \in Variants \ {v} : myPubs'[u] = myPubs[u]
  BY <1>1, <1>2 DEF ProviderAnswers, Bump
<1>4. /\ mySubmitted[v] + myOutcomes[v] = 2 * myPubs[v].attempts + more
      /\ mySubmitted[v] >= myPubs[v].attempts + more
      /\ \A u \in Variants \ {v} : /\ mySubmitted[u] + myOutcomes[u] = 2 * myPubs[u].attempts
                                  /\ mySubmitted[u] >= myPubs[u].attempts
  BY <1>1 DEF AuditInv, Ahead, PubRow
<1>5. /\ mySubmitted'[v] + myOutcomes'[v] = mySubmitted[v] + myOutcomes[v] + more
      /\ mySubmitted'[v] >= mySubmitted[v]
      /\ \A u \in Variants \ {v} : /\ mySubmitted'[u] = mySubmitted[u]
                                  /\ myOutcomes'[u] = myOutcomes[u]
  <2>1. mySubmitted[v] \in Nat /\ myOutcomes[v] \in Nat
    BY <1>1
  <2>2. CASE myPubs[v].attempts < AttemptsCap
    <3>1. \/ mySubmitted' = [mySubmitted EXCEPT ![v] = @ + 1] /\ myOutcomes' = myOutcomes
          \/ myOutcomes' = [myOutcomes EXCEPT ![v] = @ + 1] /\ mySubmitted' = mySubmitted
      BY <2>2 DEF ProviderAnswers, RecordResult, OneMoreEvent
    <3>2. more = 1
      BY <2>2
    <3> HIDE DEF v, more
    <3>3. QED
      BY <1>1, <2>1, <3>1, <3>2
  <2>3. CASE ~(myPubs[v].attempts < AttemptsCap)
    BY <1>1, <2>1, <2>3 DEF ProviderAnswers, RecordResult, OneMoreEvent
  <2>4. QED
    BY <2>2, <2>3
<1>6. \A u \in Variants : /\ mySubmitted'[u] + myOutcomes'[u] = 2 * myPubs'[u].attempts
                         /\ mySubmitted'[u] >= myPubs'[u].attempts
  <2>1. mySubmitted[v] \in Nat /\ myOutcomes[v] \in Nat /\ mySubmitted'[v] \in Nat
    BY <1>1, AnswersType DEF RTypeOK, PubTypeOK
  <2>2. /\ mySubmitted'[v] + myOutcomes'[v] = 2 * myPubs'[v].attempts
        /\ mySubmitted'[v] >= myPubs'[v].attempts
    <3> HIDE DEF v, more
    <3>1. QED
      BY <1>2, <1>3, <1>4, <1>5, <2>1
  <2>3. QED
    BY <1>3, <1>4, <1>5, <2>2
<1>7. \A u \in Variants : myPubs'[u].attempts \in Nat
  BY AnswersType DEF RTypeOK, PubTypeOK, PubRow
<1>8. QED
  BY <1>1, <1>6, <1>7, AnswersType DEF AuditInv, AttemptsAudited, Ahead, RTypeOK, PubTypeOK

LEMMA SendAudit ==
    ASSUME RTypeOK, AuditInv, NEW v \in Variants, PublishDue(v) \/ RetryOne(v)
    PROVE  AuditInv'
<1>1. /\ pubs' = pubs /\ submitted' = submitted /\ outcomes' = outcomes
      /\ myPubs' = myPubs /\ myOutcomes' = myOutcomes /\ phase # "idle" /\ ~Calling
      /\ myPubs \in [Variants -> PubRow] /\ AttemptsCap \in Nat
      /\ mySubmitted \in [Variants -> Nat] /\ myOutcomes \in [Variants -> Nat]
  BY RunAssumption DEF PublishDue, RetryOne, pubVars, Calling, RTypeOK, PubTypeOK
<1>2. CASE Skip(v)
  BY <1>1, <1>2 DEF Skip, AuditInv, AttemptsAudited, Ahead, Calling
<1>3. ASSUME NEW p \in {"calling", "retrying"}, Submit(v, p)
      PROVE  AuditInv'
  <2> DEFINE more == IF myPubs[v].attempts < AttemptsCap THEN 1 ELSE 0
  <2>1. phase' = p /\ call'.variant = v
    BY <1>3 DEF Submit, OneMoreEvent
  <2>2. \A u \in Variants : /\ mySubmitted[u] + myOutcomes[u] = 2 * myPubs[u].attempts
                           /\ mySubmitted[u] >= myPubs[u].attempts
                           /\ mySubmitted[u] \in Nat /\ myOutcomes[u] \in Nat
                           /\ myPubs[u].attempts \in Nat
    BY <1>1 DEF AuditInv, Ahead, PubRow
  <2>3. /\ mySubmitted'[v] = mySubmitted[v] + more /\ more \in {0, 1}
        /\ \A u \in Variants \ {v} : mySubmitted'[u] = mySubmitted[u]
    BY <1>1, <1>3, <2>2 DEF Submit, OneMoreEvent
  <2>4. /\ mySubmitted'[v] + myOutcomes[v] = 2 * myPubs[v].attempts + more
        /\ mySubmitted'[v] >= myPubs[v].attempts + more
    <3> HIDE DEF more
    <3>1. QED
      BY <2>2, <2>3
  <2>5. \A u \in Variants \ {v} : /\ mySubmitted'[u] + myOutcomes[u] = 2 * myPubs[u].attempts + 0
                                 /\ mySubmitted'[u] >= myPubs[u].attempts + 0
    BY <2>2, <2>3
  <2>6. Calling'
    BY <2>1 DEF Calling
  <2>7. QED
    BY <1>1, <2>1, <2>4, <2>5, <2>6 DEF AuditInv, AttemptsAudited, Ahead
<1>4. QED
  BY <1>2, <1>3 DEF PublishDue, RetryOne

\* AttemptsAudited: every attempt a row counts has two events, that of its request
\* and that of its result, at least one of them SUBMITTED, and every two such events
\* are an attempt, committed together or not at all.
THEOREM AttemptsAreAudited == RSpec => []AttemptsAudited
<1>1. RInit => AuditInv
  BY DEF RInit, Init, AuditInv, AttemptsAudited, NoRow
<1>2. RTypeOK /\ AuditInv /\ [RNext]_vars => AuditInv'
  <2> SUFFICES ASSUME RTypeOK, AuditInv, [RNext]_vars PROVE AuditInv'
    OBVIOUS
  <2>0. \A v \in Variants :
           /\ pubs[v].attempts \in Nat /\ submitted[v] \in Nat /\ outcomes[v] \in Nat
           /\ myPubs[v].attempts \in Nat /\ mySubmitted[v] \in Nat /\ myOutcomes[v] \in Nat
    BY RunAssumption DEF RTypeOK, PubTypeOK, PubRow
  <2>1. CASE Start
    <3>1. /\ UNCHANGED <<pubs, submitted, outcomes>> /\ ~Calling'
          /\ myPubs' = pubs /\ mySubmitted' = submitted /\ myOutcomes' = outcomes
      BY <2>1 DEF Start, StartRun, pubVars, Calling
    <3>2. QED
      BY <2>0, <3>1 DEF AuditInv, AttemptsAudited, Ahead
  <2>2. ASSUME NEW i \in Items, Prepare(i) PROVE AuditInv'
    BY <2>2 DEF Prepare, PrepareItem, pubVars, sendVars, myAudit, AuditInv, AttemptsAudited, Ahead,
       Calling
  <2>3. CASE BeginRetrying \/ \E slots \in SUBSET Variants : BeginPublishing(slots)
    BY <2>3 DEF BeginRetrying, BeginPublishing, ToPhase, pubVars, myAudit, AuditInv,
       AttemptsAudited, Ahead, Calling
  <2>4. ASSUME NEW v \in Variants, PublishDue(v) \/ RetryOne(v) PROVE AuditInv'
    BY <2>4, SendAudit
  <2>5. ASSUME NEW answer \in Answers, ProviderAnswers(answer) PROVE AuditInv'
    BY <2>5, AnswersAudit
  <2>6. CASE Commit
    <3>1. /\ pubs' = myPubs /\ submitted' = mySubmitted /\ outcomes' = myOutcomes
          /\ phase # "idle" /\ ~Calling /\ phase' = "idle"
      BY <2>6 DEF Commit, CommitTables, ForgetRun, Calling
    <3>2. QED
      BY <2>0, <3>1 DEF AuditInv, AttemptsAudited, Ahead
  <2>7. ASSUME NEW created \in BOOLEAN, Abort(created) PROVE AuditInv'
    BY <2>7 DEF Abort, RollbackTables, ForgetRun, pubVars, AuditInv, AttemptsAudited, Ahead
  <2>8. CASE OthersStep \/ UNCHANGED vars
    <3>1. /\ phase' = phase /\ call' = call /\ myPubs' = myPubs /\ mySubmitted' = mySubmitted
          /\ pubs' = pubs /\ submitted' = submitted
          /\ myOutcomes' = myOutcomes /\ outcomes' = outcomes
      BY <2>8 DEF OthersStep, OperatorStep, ChangeMode, LinkEvidence, DecisionStep, SelectPending,
         UpdateRow, CommitDecision, AbandonDecision, sendVars, myAudit, pubVars, runVars, vars,
         queueVars
    <3>2. QED
      BY <3>1 DEF AuditInv, AttemptsAudited, Ahead, Calling
  <2>9. QED
    BY <2>1, <2>2, <2>3, <2>4, <2>5, <2>6, <2>7, <2>8 DEF RNext, SendStep
<1>3. AuditInv => AttemptsAudited
  BY DEF AuditInv
<1>4. QED
  BY <1>1, <1>2, <1>3, RunTypeCorrect, PTL DEF RSpec
-------------------------------------------------------------------------------
\* What PUBLISHED in lifecycle_status is worth.
LEMMA LifecyclePublished ==
    ASSUME NEW i \in Items, NEW p, LifecycleOf(i, p) = "PUBLISHED",
           NEW v \in VariantsOf(i), HasRow(p, v)
    PROVE  Whole(i, p)
<1> DEFINE rows == {u \in VariantsOf(i) : HasRow(p, u)}
<1>1. v \in rows
  OBVIOUS
<1>2. rows = VariantsOf(i) /\ \A u \in rows : p[u].status = "PUBLISHED"
  BY DEF LifecycleOf
<1>3. QED
  BY <1>2 DEF Whole, IsLive, Live

\* Rows that are live and do not change leave whole what is whole.
LEMMA WholeStays ==
    ASSUME NEW i \in Items, NEW p, NEW q, Whole(i, p),
           \A v \in Variants : IsLive(p, v) => q[v] = p[v]
    PROVE  Whole(i, q)
BY DEF Whole, VariantsOf, IsLive, HasRow

\* What the rows of a run say of an item's lifecycle only ever comes from its
\* object, or from a call.
LEMMA PrepareWhole ==
    ASSUME RTypeOK, WholeInv, NEW i \in Items, Prepare(i)
    PROVE  WholeInv'
<1>1. /\ UNCHANGED <<items, pubs, myPubs, phase, deciders>> /\ phase # "idle"
      /\ object \in [Items -> ItemRow] /\ mine \in [Items -> ItemRow] /\ object[i] \in ItemRow
  BY DEF Prepare, PrepareItem, tableVars, pubVars, sendVars, RTypeOK, TypeOK
<1>2. ASSUME NEW row, Save(i, row), row.lifecycle \in {object[i].lifecycle, "BLOCKED"}
      PROVE  WholeInv'
  <2>1. /\ object' = [object EXCEPT ![i] = row] /\ mine' = [mine EXCEPT ![i] = row]
        /\ wrote' = wrote \cup {i}
    BY <1>2 DEF Save, WriteRow
  <2>2. ASSUME NEW j \in Items
        PROVE  /\ object'[j].lifecycle = "PUBLISHED" => Whole(j, myPubs)
               /\ j \in wrote' /\ mine'[j].lifecycle = "PUBLISHED" => Whole(j, myPubs)
    <3>1. CASE j = i
      BY <1>1, <1>2, <2>1, <3>1 DEF WholeInv, PublishedIsWhole
    <3>2. CASE j # i
      BY <1>1, <2>1, <3>2 DEF WholeInv, PublishedIsWhole
    <3>3. QED
      BY <3>1, <3>2
  <2>3. QED
    BY <1>1, <2>2 DEF WholeInv, PublishedIsWhole, Whole, IsLive, HasRow
<1>3. CASE MarkBlocked(i)
  <2>1. Save(i, [object[i] EXCEPT !.lifecycle = "BLOCKED"])
    BY <1>3 DEF MarkBlocked
  <2>2. [object[i] EXCEPT !.lifecycle = "BLOCKED"].lifecycle = "BLOCKED"
    BY <1>1 DEF ItemRow
  <2>3. QED
    BY <1>2, <2>1, <2>2
<1>4. ASSUME NEW s, Save(i, [object[i] EXCEPT !.status = s])
      PROVE  WholeInv'
  <2>1. [object[i] EXCEPT !.status = s].lifecycle = object[i].lifecycle
    BY <1>1 DEF ItemRow
  <2>2. QED
    BY <1>2, <1>4, <2>1
<1>5. CASE UNCHANGED <<object, mine, wrote>>
  BY <1>1, <1>5 DEF WholeInv, PublishedIsWhole, Whole, IsLive, HasRow
<1>6. QED
  BY <1>3, <1>4, <1>5 DEF Prepare, PrepareItem, RequestApproval, AutoApprove, LeaveAsIs

LEMMA AnswersWhole ==
    ASSUME RTypeOK, RecordInv, WholeInv, NEW answer \in Answers, ProviderAnswers(answer)
    PROVE  WholeInv'
<1> DEFINE v == call.variant
           i == ItemOf[v]
<1>1. /\ v \in Variants /\ i \in Items /\ call.item \in ItemRow /\ mine \in [Items -> ItemRow]
      /\ UNCHANGED <<items, pubs, object, deciders>> /\ phase # "idle" /\ Calling
      /\ wrote' = wrote \cup {i}
  BY AnswersEffect
     DEF ProviderAnswers, ToPhase, tableVars, pubVars, Calling, RTypeOK, PubTypeOK, TypeOK
<1>2. PICK row \in PubRow : row.status = answer.status /\ myPubs' = [myPubs EXCEPT ![v] = row]
  BY AnswersEffect
<1>3. mine' = [mine EXCEPT ![i] = [call.item EXCEPT !.lifecycle = LifecycleOf(i, myPubs')]]
  BY DEF ProviderAnswers, WriteRow
<1>4. ~IsLive(myPubs, v) /\ myPubs \in [Variants -> PubRow]
  BY <1>1 DEF RecordInv, RTypeOK, PubTypeOK
<1>5. \A u \in Variants : IsLive(myPubs, u) => myPubs'[u] = myPubs[u]
  BY <1>2, <1>4
<1>6. \A j \in Items : Whole(j, myPubs) => Whole(j, myPubs')
  BY <1>5, WholeStays
<1>7. HasRow(myPubs', v) /\ v \in VariantsOf(i)
  BY <1>1, <1>4, RunAssumption DEF ProviderAnswers, HasRow, VariantsOf, PubRow, Bump
<1>8. ASSUME NEW j \in Items, j \in wrote', mine'[j].lifecycle = "PUBLISHED"
      PROVE  Whole(j, myPubs')
  <2>1. CASE j = i
    <3>1. LifecycleOf(i, myPubs') = "PUBLISHED"
      BY <1>1, <1>3, <1>8, <2>1 DEF ItemRow
    <3>2. QED
      BY <1>1, <1>7, <2>1, <3>1, LifecyclePublished
  <2>2. CASE j # i
    BY <1>1, <1>3, <1>6, <1>8, <2>2 DEF WholeInv, PublishedIsWhole
  <2>3. QED
    BY <2>1, <2>2
<1>9. \A j \in Items : Whole(j, pubs)' <=> Whole(j, pubs)
  BY <1>1 DEF Whole, IsLive, HasRow
<1>10. \A j \in Items : Whole(j, myPubs)' <=> Whole(j, myPubs')
  BY DEF Whole, IsLive, HasRow
<1>11. ASSUME NEW j \in Items, object'[j].lifecycle = "PUBLISHED"
       PROVE  Whole(j, myPubs)'
  BY <1>1, <1>6, <1>10, <1>11 DEF WholeInv, PublishedIsWhole
<1>12. /\ \A j \in Items : items'[j].lifecycle = "PUBLISHED" => Whole(j, pubs)'
       /\ \A d \in Deciders : deciders'[d].stage = "updated"
             /\ deciders'[d].copy.lifecycle = "PUBLISHED" => Whole(deciders[d].item, pubs)'
  <2>1. \A d \in Deciders : deciders[d].item \in Items
    BY DEF RTypeOK, TypeOK, Decider
  <2>2. QED
    BY <1>1, <1>9, <2>1 DEF WholeInv, PublishedIsWhole
<1>13. phase' # "idle"
  BY DEF ProviderAnswers, ToPhase
<1>14. QED
  BY <1>8, <1>10, <1>11, <1>12, <1>13 DEF WholeInv, PublishedIsWhole

\* The commit publishes the run's rows and what it wrote at the same time.
LEMMA CommitWhole == RTypeOK /\ RecordInv /\ WholeInv /\ Commit => WholeInv'
<1> SUFFICES ASSUME RTypeOK, RecordInv, WholeInv, Commit PROVE WholeInv'
  OBVIOUS
<1>1. /\ pubs' = myPubs /\ phase' = "idle" /\ phase # "idle" /\ deciders' = deciders /\ wrote' = {}
      /\ items' = [i \in Items |-> RowSeenByRun(i)]
  BY DEF Commit, CommitTables, ForgetRun
<1>2. \A j \in Items : Whole(j, pubs) => Whole(j, myPubs)
  BY <1>1, WholeStays DEF RecordInv
<1>3. \A j \in Items : Whole(j, pubs)' <=> Whole(j, myPubs)
  BY <1>1 DEF Whole, IsLive, HasRow
<1>4. ASSUME NEW j \in Items, items'[j].lifecycle = "PUBLISHED"
      PROVE  Whole(j, pubs)'
  BY <1>1, <1>2, <1>3, <1>4 DEF RowSeenByRun, WholeInv, PublishedIsWhole
<1>5. \A d \in Deciders : deciders[d].item \in Items
  BY DEF RTypeOK, TypeOK, Decider
<1>6. QED
  BY <1>1, <1>2, <1>3, <1>4, <1>5 DEF WholeInv, PublishedIsWhole

\* A decider writes back the lifecycle it read, and what is whole stays so.
LEMMA DecisionWhole ==
    ASSUME RTypeOK, WholeInv, DecisionStep, UNCHANGED <<pubVars, sendVars>>
    PROVE  WholeInv'
<1>1. UNCHANGED <<pubs, myPubs, object, mine, wrote, phase>>
  BY DecisionsLeaveTheRun DEF runVars, pubVars, sendVars
<1>2. deciders \in [Deciders -> Decider] /\ items \in [Items -> ItemRow]
  BY DEF RTypeOK, TypeOK
<1>3. PICK d \in Deciders : \/ \E j \in Items, v \in Verdicts : SelectPending(d, j, v)
                           \/ UpdateRow(d) \/ CommitDecision(d) \/ AbandonDecision(d)
  BY DEF DecisionStep
<1>4. deciders[d] \in Decider /\ deciders[d].item \in Items /\ deciders[d].copy \in ItemRow
  BY <1>2 DEF Decider
<1>5. \A e \in Deciders \ {d} : deciders'[e] = deciders[e]
  BY <1>2, <1>3 DEF SelectPending, UpdateRow, CommitDecision, AbandonDecision, Forget
<1>6. ASSUME deciders'[d].stage = "updated", deciders'[d].copy.lifecycle = "PUBLISHED"
      PROVE  Whole(deciders'[d].item, pubs)
  <2>1. UpdateRow(d)
    <3>1. ASSUME NEW j \in Items, NEW v \in Verdicts, SelectPending(d, j, v) PROVE FALSE
      <4>1. deciders'[d].stage = "selected"
        BY <1>2, <3>1 DEF SelectPending, Decider
      <4>2. QED
        BY <1>6, <4>1
    <3>2. CASE CommitDecision(d) \/ AbandonDecision(d)
      BY <1>2, <1>6, <3>2 DEF CommitDecision, AbandonDecision, Forget, IdleDecider
    <3>3. QED
      BY <1>3, <3>1, <3>2
  <2>2. deciders'[d].item = deciders[d].item /\ deciders'[d].copy = items[deciders[d].item]
    BY <1>2, <2>1 DEF UpdateRow, Decider
  <2>3. QED
    BY <1>4, <1>6, <2>2 DEF WholeInv, PublishedIsWhole
<1>7. ASSUME NEW j \in Items, items'[j].lifecycle = "PUBLISHED"
      PROVE  Whole(j, pubs)
  <2>1. CASE items'[j] = items[j]
    BY <1>7, <2>1 DEF WholeInv, PublishedIsWhole
  <2>2. CASE items'[j] # items[j]
    <3>1. CommitDecision(d)
      BY <1>3, <2>2 DEF SelectPending, UpdateRow, AbandonDecision, tableVars
    <3>2. /\ deciders[d].stage = "updated" /\ j = deciders[d].item
          /\ items'[j] = [deciders[d].copy EXCEPT !.status = deciders[d].verdict]
      BY <1>2, <2>2, <3>1 DEF CommitDecision
    <3>3. deciders[d].copy.lifecycle = "PUBLISHED"
      BY <1>4, <1>7, <3>2 DEF ItemRow
    <3>4. QED
      BY <3>2, <3>3 DEF WholeInv, PublishedIsWhole
  <2>3. QED
    BY <2>1, <2>2
<1>8. QED
  BY <1>1, <1>5, <1>6, <1>7 DEF WholeInv, PublishedIsWhole, Whole, IsLive, HasRow

\* PublishedIsWhole: lifecycle PUBLISHED is never restored from an old object to
\* an item of which a variant is missing, because a row that is published stays.
THEOREM PublishedItemsAreWhole == RSpec => []PublishedIsWhole
<1>1. RInit => WholeInv
  BY DEF RInit, Init, WholeInv, PublishedIsWhole, FreshItem, IdleDecider
<1>2. RTypeOK /\ RecordInv /\ WholeInv /\ [RNext]_vars => WholeInv'
  <2> SUFFICES ASSUME RTypeOK, RecordInv, WholeInv, [RNext]_vars PROVE WholeInv'
    OBVIOUS
  <2>1. CASE Start
    <3>1. /\ items' = items /\ pubs' = pubs /\ deciders' = deciders /\ wrote' = {}
          /\ object' = items /\ myPubs' = pubs /\ phase' # "idle"
      BY <2>1 DEF Start, StartRun, tableVars, pubVars, WholeInv
    <3>2. QED
      BY <3>1 DEF WholeInv, PublishedIsWhole, Whole, IsLive, HasRow
  <2>2. ASSUME NEW i \in Items, Prepare(i) PROVE WholeInv'
    BY <2>2, PrepareWhole
  <2>3. CASE BeginRetrying \/ \E slots \in SUBSET Variants : BeginPublishing(slots)
    BY <2>3 DEF BeginRetrying, BeginPublishing, ToPhase, tableVars, pubVars, WholeInv,
       PublishedIsWhole, Whole, IsLive, HasRow
  <2>4. ASSUME NEW v \in Variants, PublishDue(v) \/ RetryOne(v) PROVE WholeInv'
    <3>1. /\ UNCHANGED <<items, pubs, myPubs, object, mine, wrote, deciders>>
          /\ phase # "idle" /\ phase' # "idle"
      BY <2>4 DEF PublishDue, RetryOne, Skip, Submit, tableVars, pubVars
    <3>2. QED
      BY <3>1 DEF WholeInv, PublishedIsWhole, Whole, IsLive, HasRow
  <2>5. ASSUME NEW answer \in Answers, ProviderAnswers(answer) PROVE WholeInv'
    BY <2>5, AnswersWhole
  <2>6. CASE Commit
    BY <2>6, CommitWhole
  <2>7. ASSUME NEW created \in BOOLEAN, Abort(created) PROVE WholeInv'
    BY <2>7 DEF Abort, RollbackTables, ForgetRun, tableVars, pubVars, WholeInv, PublishedIsWhole,
       Whole, IsLive, HasRow
  <2>8. CASE OthersStep
    <3>1. CASE DecisionStep
      BY <2>8, <3>1, DecisionWhole DEF OthersStep
    <3>2. CASE OperatorStep
      BY <2>8, <3>2 DEF OthersStep, OperatorStep, ChangeMode, LinkEvidence, tableVars, runVars,
         pubVars, sendVars, WholeInv, PublishedIsWhole, Whole, IsLive, HasRow
    <3>3. QED
      BY <2>8, <3>1, <3>2 DEF OthersStep
  <2>9. CASE UNCHANGED vars
    BY <2>9 DEF vars, queueVars, tableVars, runVars, pubVars, sendVars, WholeInv,
       PublishedIsWhole, Whole, IsLive, HasRow
  <2>10. QED
    BY <2>1, <2>2, <2>3, <2>4, <2>5, <2>6, <2>7, <2>8, <2>9 DEF RNext, SendStep
<1>3. WholeInv => PublishedIsWhole
  BY DEF WholeInv, PublishedIsWhole
<1>4. QED
  BY <1>1, <1>2, <1>3, RecordInvariant, PTL DEF RSpec
-------------------------------------------------------------------------------
\* What has been decided on stays decided on, once it was submitted.
LEMMA DecisionDecides ==
    ASSUME TypeOK, DecisionStep, NEW j \in Items
    PROVE  items'[j] = items[j] \/ Decided(items'[j])
<1>1. deciders \in [Deciders -> Decider] /\ items \in [Items -> ItemRow]
  BY DEF TypeOK
<1>2. PICK d \in Deciders : \/ \E i \in Items, v \in Verdicts : SelectPending(d, i, v)
                           \/ UpdateRow(d) \/ CommitDecision(d) \/ AbandonDecision(d)
  BY DEF DecisionStep
<1>3. CASE CommitDecision(d)
  <2>1. deciders[d].verdict \in Verdicts /\ deciders[d].copy \in ItemRow
    BY <1>1 DEF Decider
  <2>2. items' = [items EXCEPT ![deciders[d].item] =
                     [deciders[d].copy EXCEPT !.status = deciders[d].verdict]]
    BY <1>3 DEF CommitDecision
  <2>3. [deciders[d].copy EXCEPT !.status = deciders[d].verdict].status \in Verdicts
    BY <2>1 DEF ItemRow
  <2>4. QED
    BY <1>1, <2>2, <2>3 DEF Decided
<1>4. CASE ~CommitDecision(d)
  BY <1>2, <1>4 DEF SelectPending, UpdateRow, AbandonDecision, tableVars
<1>5. QED
  BY <1>3, <1>4

\* The loop of a run sends nothing back to the queue that reads APPROVED.
LEMMA PrepareDecided ==
    ASSUME RTypeOK, SettledInv, NEW i \in Items, Prepare(i), NEW j \in Items
    PROVE  /\ Decided(object[j]) => Decided(object'[j])
           /\ Decided(object'[j]) => Decided(RowSeenByRun(j)')
           /\ object'[j].status = "REJECTED" => j \notin cands'
<1>1. /\ TypeOK /\ PrepareItem(i) /\ items' = items /\ i \in todo /\ phase = "prepare"
      /\ object \in [Items -> ItemRow]
  BY DEF Prepare, PrepareItem, tableVars, RTypeOK, TypeOK
<1>2. cands' \subseteq cands /\ i \in cands
  BY <1>1 DEF PrepareItem, MarkBlocked, RequestApproval, AutoApprove, LeaveAsIs, TypeOK
<1>3. object[i].status # "REJECTED"
  BY <1>1, <1>2 DEF SettledInv
<1>4. /\ Decided(object[j]) => Decided(RowSeenByRun(j))
      /\ object[j].status = "REJECTED" => j \notin cands
  BY <1>1 DEF SettledInv
<1>5. CASE mine'[j] = mine[j] /\ object'[j] = object[j] /\ (j \in wrote' <=> j \in wrote)
  <2>1. RowSeenByRun(j)' = RowSeenByRun(j)
    BY <1>1, <1>5 DEF RowSeenByRun
  <2>2. QED
    BY <1>2, <1>4, <1>5, <2>1
<1>6. CASE j # i
  BY <1>1, <1>5, <1>6 DEF PrepareItem, MarkBlocked, RequestApproval, AutoApprove, LeaveAsIs, Save,
     WriteRow, TypeOK
<1>7. ASSUME j = i, NEW row \in ItemRow, Save(i, row), Decided(object[i]) => Decided(row),
             row.status # "REJECTED"
      PROVE  /\ Decided(object[j]) => Decided(object'[j])
             /\ Decided(object'[j]) => Decided(RowSeenByRun(j)')
             /\ object'[j].status = "REJECTED" => j \notin cands'
  <2>1. object'[i] = row /\ mine'[i] = row /\ i \in wrote'
    BY <1>1, <1>7 DEF Save, WriteRow, TypeOK
  <2>2. RowSeenByRun(j)' = row
    BY <1>7, <2>1 DEF RowSeenByRun
  <2>3. QED
    BY <1>7, <2>1, <2>2
<1>8. ~Decided(object[i]) \/ object[i].status = "APPROVED"
  BY <1>3 DEF Decided, Verdicts
<1>9. object[i] \in ItemRow
  BY <1>1
<1>10. CASE j = i /\ MarkBlocked(i)
  <2>1. [object[i] EXCEPT !.lifecycle = "BLOCKED"].status = object[i].status
        /\ [object[i] EXCEPT !.lifecycle = "BLOCKED"] \in ItemRow
    BY <1>9 DEF ItemRow, Lifecycles
  <2>2. QED
    BY <1>3, <1>7, <1>10, <2>1 DEF MarkBlocked, Decided
<1>11. CASE j = i /\ RequestApproval(i)
  <2>1. CASE HasOpenRequest(i)
    BY <1>5, <1>11, <2>1 DEF RequestApproval
  <2>2. CASE ~HasOpenRequest(i)
    <3>1. [object[i] EXCEPT !.status = "PENDING_APPROVAL"].status = "PENDING_APPROVAL"
          /\ [object[i] EXCEPT !.status = "PENDING_APPROVAL"] \in ItemRow
      BY <1>9 DEF ItemRow, ApprovalStatuses
    <3>2. object[i].status # "APPROVED"
      BY <1>11 DEF RequestApproval
    <3>3. QED
      BY <1>7, <1>8, <1>11, <2>2, <3>1, <3>2 DEF RequestApproval
  <2>3. QED
    BY <2>1, <2>2
<1>12. CASE j = i /\ AutoApprove(i)
  <2>1. [object[i] EXCEPT !.status = "APPROVED"].status = "APPROVED"
        /\ [object[i] EXCEPT !.status = "APPROVED"] \in ItemRow
    BY <1>9 DEF ItemRow, ApprovalStatuses
  <2>2. QED
    BY <1>7, <1>12, <2>1 DEF AutoApprove, Decided, Verdicts
<1>13. CASE j = i /\ LeaveAsIs(i)
  BY <1>5, <1>13 DEF LeaveAsIs
<1>14. QED
  BY <1>1, <1>6, <1>10, <1>11, <1>12, <1>13 DEF PrepareItem

LEMMA AnswersSettled ==
    ASSUME RTypeOK, SettledInv, NEW answer \in Answers, ProviderAnswers(answer)
    PROVE  SettledInv'
<1> DEFINE v == call.variant
           i == ItemOf[v]
<1>1. /\ v \in Variants /\ i \in Items /\ call.item \in ItemRow /\ mine \in [Items -> ItemRow]
      /\ UNCHANGED <<items, pubs, object, cands, todo, due, retries>> /\ Calling /\ ~Calling'
      /\ phase \notin {"idle", "prepare"} /\ phase' \notin {"idle", "prepare"}
      /\ wrote' = wrote \cup {i}
  BY AnswersEffect
     DEF ProviderAnswers, ToPhase, tableVars, pubVars, Calling, RTypeOK, PubTypeOK, TypeOK
<1>2. PICK l \in Lifecycles : mine' = [mine EXCEPT ![i] = [call.item EXCEPT !.lifecycle = l]]
  BY AnswersEffect
<1>3. PICK row \in PubRow : myPubs' = [myPubs EXCEPT ![v] = row]
  BY AnswersEffect
<1>4. myPubs \in [Variants -> PubRow]
  BY DEF RTypeOK, PubTypeOK
<1>5. HasRow(myPubs', v)
  BY <1>1, <1>4, RunAssumption DEF ProviderAnswers, HasRow, PubRow, Bump
<1>6. \A u \in Variants \ {v} : HasRow(myPubs', u) <=> HasRow(myPubs, u)
  BY <1>3, <1>4 DEF HasRow
<1>7. mine'[i].status = call.item.status /\ Decided(call.item) /\ Decided(object[i])
  BY <1>1, <1>2 DEF SettledInv, ItemRow
<1>8. ASSUME NEW j \in Items, Decided(object[j]) PROVE Decided(RowSeenByRun(j)')
  <2>1. CASE j = i
    BY <1>1, <1>7, <2>1 DEF RowSeenByRun, Decided
  <2>2. CASE j # i
    BY <1>1, <1>2, <1>8, <2>2 DEF SettledInv, RowSeenByRun
  <2>3. QED
    BY <2>1, <2>2
<1>9. \A u \in Variants : HasRow(myPubs', u) \/ u \in due \cup retries => Decided(object[ItemOf[u]])
  BY <1>1, <1>6, <1>7 DEF SettledInv
<1>10. \A u \in Variants : HasRow(pubs, u) => HasRow(myPubs', u)
  BY <1>1, <1>5, <1>6 DEF SettledInv
<1>11. \A j \in Items : object[j].status = "REJECTED" => j \notin cands
  BY <1>1 DEF SettledInv
<1>12. \A u \in Variants : HasRow(pubs, u) => Decided(items[ItemOf[u]])
  BY DEF SettledInv
<1>13. QED
  BY <1>1, <1>8, <1>9, <1>10, <1>11, <1>12 DEF SettledInv, HasRow, Decided

LEMMA SettledInvariant == RSpec => [](RTypeOK /\ SettledInv)
<1>1. RInit => SettledInv
  BY DEF RInit, Init, SettledInv, HasRow, NoRow, Calling
<1>2. RTypeOK /\ SettledInv /\ [RNext]_vars => SettledInv'
  <2> SUFFICES ASSUME RTypeOK, SettledInv, [RNext]_vars PROVE SettledInv'
    OBVIOUS
  <2>0. \A v \in Variants : ItemOf[v] \in Items
    BY RunAssumption
  <2>1. CASE Start
    <3>1. /\ items' = items /\ pubs' = pubs /\ myPubs' = pubs /\ object' = items /\ wrote' = {}
          /\ phase' = "prepare" /\ due' = due /\ retries' = retries
          /\ todo' = cands' /\ \A i \in cands' : items[i].status # "REJECTED"
      BY <2>1 DEF Start, StartRun, tableVars, pubVars, SettledInv
    <3>2. due = {} /\ retries = {}
      BY <2>1 DEF Start, StartRun, SettledInv
    <3>3. QED
      BY <2>0, <3>1, <3>2 DEF SettledInv, RowSeenByRun, HasRow, Calling, Decided
  <2>2. ASSUME NEW i \in Items, Prepare(i) PROVE SettledInv'
    <3>1. /\ UNCHANGED <<items, pubs, myPubs, due, retries, call, phase>> /\ phase = "prepare"
          /\ todo' = todo \ {i} /\ cands \ {i} \subseteq cands'
      BY <2>2 DEF Prepare, PrepareItem, tableVars, pubVars, sendVars, MarkBlocked, RequestApproval,
         AutoApprove, LeaveAsIs
    <3>2. \A j \in Items : /\ Decided(object[j]) => Decided(object'[j])
                           /\ Decided(object'[j]) => Decided(RowSeenByRun(j)')
                           /\ object'[j].status = "REJECTED" => j \notin cands'
      BY <2>2, PrepareDecided
    <3>3. QED
      BY <2>0, <3>1, <3>2 DEF SettledInv, HasRow, Calling, Decided
  <2>3. ASSUME NEW slots \in SUBSET Variants, BeginPublishing(slots) PROVE SettledInv'
    <3>1. \A v \in slots : Decided(object[ItemOf[v]])
      BY <2>3 DEF BeginPublishing, Decided, Verdicts
    <3>2. /\ UNCHANGED <<items, pubs, myPubs, object, mine, wrote, cands, todo, retries>>
          /\ todo = {} /\ due' = slots /\ phase = "prepare" /\ phase' = "publish"
      BY <2>3 DEF BeginPublishing, ToPhase, tableVars, pubVars
    <3>3. QED
      BY <3>1, <3>2 DEF SettledInv, RowSeenByRun, HasRow, Calling, Decided
  <2>4. CASE BeginRetrying
    <3>1. /\ UNCHANGED <<items, pubs, myPubs, object, mine, wrote, cands, todo, due>>
          /\ phase = "publish" /\ phase' = "retry"
          /\ \A v \in retries' : HasRow(myPubs, v)
      BY <2>4 DEF BeginRetrying, MayRetry, ToPhase, tableVars, pubVars
    <3>2. QED
      BY <3>1 DEF SettledInv, RowSeenByRun, HasRow, Calling, Decided
  <2>5. ASSUME NEW v \in Variants, PublishDue(v) \/ RetryOne(v) PROVE SettledInv'
    <3>1. /\ UNCHANGED <<items, pubs, myPubs, object, mine, wrote, cands, todo>>
          /\ due' \subseteq due /\ retries' \subseteq retries /\ v \in due \cup retries
          /\ phase \in {"publish", "retry"}
          /\ \/ phase' = phase /\ call' = call
             \/ /\ phase' \in {"calling", "retrying"}
                /\ call' = [variant |-> v, item |-> RowSeenByRun(ItemOf[v])]
      BY <2>5 DEF PublishDue, RetryOne, Skip, Submit, tableVars, pubVars
    <3>2. Decided(object[ItemOf[v]]) /\ Decided(RowSeenByRun(ItemOf[v]))
      BY <2>0, <3>1 DEF SettledInv
    <3>3. QED
      BY <3>1, <3>2 DEF SettledInv, RowSeenByRun, HasRow, Calling, Decided
  <2>6. ASSUME NEW answer \in Answers, ProviderAnswers(answer) PROVE SettledInv'
    BY <2>6, AnswersSettled
  <2>7. CASE Commit
    <3>1. /\ pubs' = myPubs /\ phase' = "idle" /\ phase # "idle"
          /\ wrote' = {} /\ todo' = {} /\ due' = {} /\ retries' = {}
          /\ items' = [i \in Items |-> RowSeenByRun(i)]
      BY <2>7 DEF Commit, CommitTables, ForgetRun, ForgetSend
    <3>2. \A v \in Variants : HasRow(myPubs, v) => Decided(RowSeenByRun(ItemOf[v]))
      BY <2>0, <3>1 DEF SettledInv
    <3>3. QED
      BY <2>0, <3>1, <3>2 DEF SettledInv, HasRow, Calling
  <2>8. ASSUME NEW created \in BOOLEAN, Abort(created) PROVE SettledInv'
    BY <2>8 DEF Abort, RollbackTables, ForgetRun, ForgetSend, tableVars, pubVars, SettledInv,
       HasRow, Calling, Decided
  <2>9. CASE OthersStep /\ DecisionStep
    <3>1. UNCHANGED <<pubs, myPubs, due, retries, call, phase, cands, todo, object, mine, wrote>>
      BY <2>9, DecisionsLeaveTheRun DEF OthersStep, runVars, pubVars, sendVars
    <3>2. \A j \in Items : items'[j] = items[j] \/ Decided(items'[j])
      BY <2>9, DecisionDecides DEF RTypeOK
    <3>3. \A j \in Items : Decided(RowSeenByRun(j)) => Decided(RowSeenByRun(j)')
      BY <3>1, <3>2 DEF RowSeenByRun
    <3>4. QED
      BY <2>0, <3>1, <3>2, <3>3 DEF SettledInv, HasRow, Calling, Decided
  <2>10. CASE (OthersStep /\ OperatorStep) \/ UNCHANGED vars
    <3>1. UNCHANGED <<items, pubs, myPubs, due, retries, call, phase, cands, todo, object, mine,
                      wrote>>
      BY <2>10 DEF OthersStep, OperatorStep, ChangeMode, LinkEvidence, tableVars, runVars, pubVars,
         sendVars, vars, queueVars
    <3>2. QED
      BY <3>1 DEF SettledInv, HasRow, Calling, Decided, RowSeenByRun
  <2>11. QED
    BY <2>1, <2>2, <2>3, <2>4, <2>5, <2>6, <2>7, <2>8, <2>9, <2>10 DEF RNext, SendStep, OthersStep
<1>3. QED
  BY <1>1, <1>2, RunTypeCorrect, PTL DEF RSpec

\* ApprovalSurvivesOutage: for any number of people, runs, crashes and changes of
\* mode, an item that was submitted leaves APPROVED only for REJECTED.
THEOREM ApprovalsSurvive == RSpec => ApprovalSurvivesOutage
<1>1. RTypeOK /\ SettledInv /\ SettledInv' /\ [RNext]_vars =>
         [\A v \in Variants :
             LET i == ItemOf[v]
             IN  HasRow(pubs, v) /\ items[i].status = "APPROVED" /\ items'[i].status # "APPROVED"
                    => items'[i].status = "REJECTED"]_vars
  <2> SUFFICES ASSUME RTypeOK, SettledInv, RNext, NEW v \in Variants, HasRow(pubs, v),
                      items[ItemOf[v]].status = "APPROVED"
               PROVE  Decided(items'[ItemOf[v]])
    BY DEF Decided, Verdicts
  <2> DEFINE i == ItemOf[v]
  <2>1. i \in Items /\ Decided(items[i])
    BY RunAssumption DEF SettledInv
  <2>2. CASE items' = items
    BY <2>1, <2>2
  <2>3. CASE Commit
    <3>1. phase # "idle" /\ items'[i] = RowSeenByRun(i)
      BY <2>1, <2>3 DEF Commit, CommitTables
    <3>2. QED
      BY <2>1, <3>1 DEF SettledInv
  <2>4. CASE DecisionStep
    BY <2>1, <2>4, DecisionDecides DEF RTypeOK
  <2>5. QED
    BY <2>2, <2>3, <2>4 DEF RNext, SendStep, OthersStep, OperatorStep, ChangeMode, LinkEvidence,
       Start, StartRun, Prepare, PrepareItem, BeginPublishing, BeginRetrying, ToPhase, PublishDue,
       RetryOne, ProviderAnswers, Abort, RollbackTables, tableVars
<1>2. QED
  BY <1>1, SettledInvariant, PTL DEF RSpec, ApprovalSurvivesOutage
-------------------------------------------------------------------------------
(* What ApprovalQueue promises of the queue, for the run that also publishes. *)

\* An item that reads APPROVED has been approved, also where the run writes back
\* the row of an item it published (_update_item_lifecycle).
THEOREM ApprovalsAreRealInTheRun == RSpec => []ApprovalHasAuthority
<1>1. HumanGateInv => ApprovalHasAuthority
  BY DEF HumanGateInv, AuthorityInv, ApprovalHasAuthority
<1>2. QED
  BY <1>1, GateInvariant, PTL

\* The steps that choose what to publish leave the queue alone.
Choosing ==
    \/ \E slots \in SUBSET Variants : BeginPublishing(slots)
    \/ BeginRetrying
    \/ \E v \in Variants : PublishDue(v) \/ RetryOne(v)

LEMMA ChoosingLeaves ==
    Choosing =>
        /\ UNCHANGED <<tableVars, configVars, cands, todo, object, wrote, mine, inserted, deciders>>
        /\ phase # "idle" /\ phase' # "idle"
BY DEF Choosing, BeginPublishing, BeginRetrying, PublishDue, RetryOne, Skip, Submit, ToPhase

LEMMA AnswersLeave ==
    ASSUME NEW answer \in Answers, ProviderAnswers(answer)
    PROVE  /\ UNCHANGED <<tableVars, configVars, cands, todo, object, inserted, deciders>>
           /\ wrote \subseteq wrote'
BY DEF ProviderAnswers, ToPhase, WriteRow

LEMMA RunSteps ==
    ASSUME RNext
    PROVE  \/ StartRun
           \/ \E i \in Items : PrepareItem(i)
           \/ Choosing
           \/ \E answer \in Answers : ProviderAnswers(answer)
           \/ CommitTables
           \/ RollbackTables
           \/ DecisionStep
           \/ OperatorStep
BY DEF RNext, SendStep, Start, Prepare, Choosing, Commit, Abort, OthersStep

\* An item has at most one open request, however runs that publish, rollbacks and
\* decisions interleave (queue.py:55).
THEOREM NeverQueuedTwiceInTheRun == RSpec => []OneOpenRequest
<1>1. RInit => OpenInv
  BY InitOpen DEF RInit
<1>2. RTypeOK /\ OpenInv /\ [RNext]_vars => OpenInv'
  <2> SUFFICES ASSUME RTypeOK, OpenInv, [RNext]_vars PROVE OpenInv'
    OBVIOUS
  <2>0. TypeOK
    BY DEF RTypeOK
  <2>1. CASE CommitTables \/ RollbackTables
    BY <2>0, <2>1, CommitTablesOpen, RollbackTablesOpen
  <2>2. ASSUME NEW i \in Items, PrepareItem(i) PROVE OpenInv'
    BY <2>0, <2>2, PrepareOpen
  <2>3. CASE DecisionStep
    BY <2>0, <2>3, DecisionOpen
  <2>4. CASE UNCHANGED <<approvals, inserted>> /\ wrote \subseteq wrote'
    BY <2>4 DEF OpenInv, OpenAtMostOnce
  <2>5. StartRun \/ OperatorStep \/ UNCHANGED vars
           => UNCHANGED <<approvals, inserted>> /\ wrote \subseteq wrote'
    BY DEF StartRun, OperatorStep, ChangeMode, LinkEvidence, tableVars, runVars, queueVars, vars
  <2>6. Choosing \/ (\E answer \in Answers : ProviderAnswers(answer))
           => UNCHANGED <<approvals, inserted>> /\ wrote \subseteq wrote'
    BY ChoosingLeaves, AnswersLeave DEF tableVars
  <2>7. QED
    BY <2>1, <2>2, <2>3, <2>4, <2>5, <2>6, RunSteps
<1>3. OpenInv => OneOpenRequest
  BY DEF OpenInv, OpenAtMostOnce, OneOpenRequest
<1>4. QED
  BY <1>1, <1>2, <1>3, RunTypeCorrect, PTL DEF RSpec

\* A row that reads PENDING_APPROVAL can be decided on unless it is marked BLOCKED,
\* whatever its copy has become since it was queued: what the run writes back of an
\* item it published has been decided on when it was read.
THEOREM PendingCanBeDecidedInTheRun == RSpec => []PendingIsDecidable
<1>1. RInit => PendingInv
  BY DEF RInit, Init, PendingInv, PendingOK, FreshItem, Parked
<1>2. RTypeOK /\ SettledInv /\ PendingInv /\ [RNext]_vars => PendingInv'
  <2> SUFFICES ASSUME RTypeOK, SettledInv, PendingInv, [RNext]_vars PROVE PendingInv'
    OBVIOUS
  <2>0. TypeOK
    BY DEF RTypeOK
  <2>1. CASE CommitTables
    BY <2>0, <2>1, CommitTablesPending
  <2>2. CASE RollbackTables
    BY <2>2, RollbackTablesPending
  <2>3. ASSUME NEW i \in Items, PrepareItem(i) PROVE PendingInv'
    BY <2>0, <2>3, PreparePending
  <2>4. CASE DecisionStep
    BY <2>0, <2>4, DecisionPending
  <2>5. CASE StartRun
    BY <2>0, <2>5, StartRunPending
  <2>6. CASE OperatorStep
    BY <2>6, OperatorPending
  <2>7. CASE Choosing
    <3>1. /\ UNCHANGED <<items, approvals, cands, todo, object, wrote, mine, inserted>>
          /\ phase # "idle" /\ phase' # "idle"
      BY <2>7, ChoosingLeaves DEF tableVars
    <3>2. QED
      BY <3>1 DEF PendingInv, PendingOK, RowSeenByRun, HasOpenRequest
  <2>8. CASE UNCHANGED vars
    <3>1. UNCHANGED pendingVars
      BY <2>8 DEF vars, queueVars, tableVars, runVars, pendingVars
    <3>2. QED
      BY <3>1, NothingPending
  <2>9. ASSUME NEW answer \in Answers, ProviderAnswers(answer) PROVE PendingInv'
    <3> DEFINE i == ItemOf[call.variant]
    <3>1. /\ UNCHANGED <<items, approvals, cands, todo, object, inserted>> /\ todo = {}
          /\ phase # "idle" /\ phase' # "idle"
          /\ wrote' = wrote \cup {i} /\ mine \in [Items -> ItemRow] /\ call.item \in ItemRow
      BY <2>0, <2>9, AnswersLeave, AnswersEffect
         DEF ProviderAnswers, ToPhase, Calling, SettledInv, tableVars, TypeOK
    <3>2. PICK l \in Lifecycles : mine' = [mine EXCEPT ![i] = [call.item EXCEPT !.lifecycle = l]]
      BY <2>9, AnswersEffect
    <3>3. Decided(call.item)
      BY <2>9 DEF ProviderAnswers, SettledInv
    <3>4. ASSUME NEW j \in Items PROVE PendingOK(j)'
      <4>1. j = i => mine'[j].status \in Verdicts /\ j \in wrote'
        BY <3>1, <3>2, <3>3 DEF Decided, ItemRow
      <4>2. j # i => mine'[j] = mine[j] /\ (j \in wrote' <=> j \in wrote)
        BY <3>1, <3>2
      <4>3. PendingOK(j) /\ "PENDING_APPROVAL" \notin Verdicts
        BY DEF PendingInv, Verdicts
      <4> HIDE DEF i
      <4>4. QED
        BY <3>1, <4>1, <4>2, <4>3 DEF PendingOK, Parked, RowSeenByRun, HasOpenRequest
    <3>5. QED
      BY <3>4 DEF PendingInv
  <2>10. QED
    BY <2>1, <2>2, <2>3, <2>4, <2>5, <2>6, <2>7, <2>8, <2>9, RunSteps
<1>3. TypeOK /\ PendingInv => PendingIsDecidable
  BY DEF TypeOK, PendingInv, PendingOK, PendingIsDecidable
<1>4. QED
  BY <1>1, <1>2, <1>3, SettledInvariant, PTL DEF RSpec, RTypeOK

\* Also with a run that publishes in between, a decided request is not decided
\* again as long as no two commands are at work on the same item.
THEOREM DecidedOnceApartInTheRun == RSpec /\ []Apart => DecidedOnce
<1>1. RInit => HoldsOpen
  BY DEF RInit, Init, HoldsOpen, IdleDecider
<1>2. RTypeOK /\ HoldsOpen /\ Apart /\ [RNext]_vars => HoldsOpen' /\ [DecidedStay]_queueVars
  <2> SUFFICES ASSUME RTypeOK, HoldsOpen, Apart, [RNext]_vars PROVE HoldsOpen' /\ DecidedStay
    OBVIOUS
  <2>0. TypeOK
    BY DEF RTypeOK
  <2>1. CASE CommitTables
    BY <2>0, <2>1, CommitTablesDecided
  <2>2. CASE DecisionStep
    BY <2>0, <2>2, DecisionDecidesOnce
  <2>3. CASE UNCHANGED <<approvals, deciders>>
    BY <2>3, NothingDecided
  <2>4. Choosing \/ (\E answer \in Answers : ProviderAnswers(answer))
           => UNCHANGED <<approvals, deciders>>
    BY ChoosingLeaves, AnswersLeave DEF tableVars
  <2>5. QED
    BY <2>1, <2>2, <2>3, <2>4, RunSteps DEF StartRun, PrepareItem, RollbackTables, ForgetRun,
       OperatorStep, ChangeMode, LinkEvidence, tableVars, runVars, queueVars, vars
<1>3. [DecidedStay]_queueVars
        <=> [\A i \in Items : \A k \in DOMAIN approvals[i] :
               approvals[i][k].decision # "PENDING" => approvals'[i][k] = approvals[i][k]]_queueVars
  BY DEF DecidedStay
<1>4. QED
  BY <1>1, <1>2, <1>3, RunTypeCorrect, PTL DEF RSpec, DecidedOnce
-------------------------------------------------------------------------------
(* Rejections.  RejectionSettles of ApprovalQueue is too weak here, because a *)
(* retry writes the row of a rejected item, and says nothing of the provider. *)

Human(i) == ContentOf[i].requirement = "HUMAN_APPROVAL_REQUIRED"

\* Rejected, and nobody is at work with what it read of the item before that.
AtRest(i) ==
    /\ items[i].status = "REJECTED" /\ Undecidable(i) /\ inserted[i] = <<>>
    /\ i \notin cands
    /\ i \in wrote => mine[i].status = "REJECTED"
    /\ Calling /\ ItemOf[call.variant] = i => call.item.status = "REJECTED"

CallApproved ==
    Calling /\ Human(ItemOf[call.variant]) => call.item.status = "APPROVED"

LEMMA SendRests ==
    ASSUME RTypeOK, CallApproved, NEW v \in Variants, PublishDue(v) \/ RetryOne(v)
    PROVE  /\ CallApproved'
           /\ posts' = posts
           /\ \A i \in Items : AtRest(i) => AtRest(i)'
<1>1. /\ UNCHANGED <<items, approvals, inserted, cands, wrote, mine, deciders, posts>>
      /\ ~Calling
  BY DEF PublishDue, RetryOne, tableVars, Calling
<1>2. CASE UNCHANGED <<phase, call>>
  BY <1>1, <1>2 DEF CallApproved, AtRest, Undecidable, Calling
<1>3. ASSUME NEW p, Submit(v, p)
      PROVE  CallApproved' /\ \A i \in Items : AtRest(i) => AtRest(i)'
  <2>1. call' = [variant |-> v, item |-> RowSeenByRun(ItemOf[v])]
    BY <1>3 DEF Submit
  <2>2. CallApproved'
    BY <1>3, <2>1, HumanCleared DEF CallApproved, Human, RTypeOK
  <2>3. ASSUME NEW i \in Items, AtRest(i) PROVE AtRest(i)'
    <3>1. RowSeenByRun(i).status = "REJECTED"
      BY <2>3 DEF AtRest, RowSeenByRun
    <3>2. QED
      BY <1>1, <2>1, <2>3, <3>1 DEF AtRest, Undecidable
  <2>4. QED
    BY <2>2, <2>3
<1>4. QED
  BY <1>1, <1>2, <1>3 DEF PublishDue, RetryOne, Skip

LEMMA AnswersRest ==
    ASSUME RTypeOK, CallApproved, NEW answer \in Answers, ProviderAnswers(answer)
    PROVE  /\ CallApproved'
           /\ \A v \in Variants : v # call.variant => posts'[v] = posts[v]
           /\ \A i \in Items : AtRest(i) => AtRest(i)'
<1> DEFINE j == ItemOf[call.variant]
<1>1. /\ UNCHANGED <<items, approvals, inserted, cands, deciders>> /\ wrote' = wrote \cup {j}
      /\ Calling /\ ~Calling' /\ mine \in [Items -> ItemRow] /\ call.item \in ItemRow
  BY AnswersLeave, AnswersEffect DEF ProviderAnswers, ToPhase, tableVars, Calling, RTypeOK, TypeOK
<1>2. PICK l \in Lifecycles : mine' = [mine EXCEPT ![j] = [call.item EXCEPT !.lifecycle = l]]
  BY AnswersEffect
<1>3. CallApproved'
  BY <1>1 DEF CallApproved
<1>4. \A v \in Variants : v # call.variant => posts'[v] = posts[v]
  BY AnswersEffect DEF Posted, RTypeOK, PubTypeOK
<1>5. ASSUME NEW i \in Items, AtRest(i) PROVE AtRest(i)'
  <2>1. i \in wrote' => mine'[i].status = "REJECTED"
    <3>1. CASE i = j
      BY <1>1, <1>2, <1>5, <3>1 DEF AtRest, ItemRow
    <3>2. CASE i # j
      BY <1>1, <1>2, <1>5, <3>2 DEF AtRest
    <3>3. QED
      BY <3>1, <3>2
  <2>2. QED
    BY <1>1, <1>5, <2>1 DEF AtRest, Undecidable
<1>6. QED
  BY <1>3, <1>4, <1>5

LEMMA TablesRest ==
    ASSUME TypeOK, NEW i \in Items, AtRest(i), CommitTables \/ RollbackTables
    PROVE  AtRest(i)'
<1>1. CASE CommitTables
  <2>1. items'[i].status = "REJECTED"
    BY <1>1 DEF CommitTables, RowSeenByRun, AtRest
  <2>2. approvals'[i] = approvals[i]
    <3>1. approvals[i] \in Seq(ApprovalRow) /\ inserted[i] = <<>>
      BY DEF TypeOK, AtRest
    <3>2. QED
      BY <1>1, <3>1, ConcatEmptySeq DEF CommitTables
  <2>3. QED
    BY <1>1, <2>1, <2>2 DEF CommitTables, ForgetRun, AtRest, Undecidable, Calling
<1>2. CASE RollbackTables
  BY <1>2 DEF RollbackTables, ForgetRun, AtRest, Undecidable, Calling, tableVars
<1>3. QED
  BY <1>1, <1>2

\* Once a rejection is at rest it stands: no retry, no stale object of a run and no
\* command undoes it, and of an item that only a person may release the provider is
\* never sent another post (_retry_failed, _update_item_lifecycle,
\* authorise_publication).  Of an item that a rule may release it can be: see
\* RejectedStaysUnsent.
RejectionIsFinal ==
    [][\A i \in Items : AtRest(i) =>
          /\ AtRest(i)'
          /\ Human(i) => \A v \in VariantsOf(i) : posts'[v] = posts[v]]_vars

THEOREM RejectionsStand == RSpec => RejectionIsFinal
<1>1. RInit => CallApproved
  BY DEF RInit, Init, CallApproved, Calling
<1>2. RTypeOK /\ CallApproved /\ [RNext]_vars => CallApproved'
  <2> SUFFICES ASSUME RTypeOK, CallApproved, [RNext]_vars PROVE CallApproved'
    OBVIOUS
  <2>1. ASSUME NEW v \in Variants, PublishDue(v) \/ RetryOne(v) PROVE CallApproved'
    BY <2>1, SendRests
  <2>2. ASSUME NEW answer \in Answers, ProviderAnswers(answer) PROVE CallApproved'
    BY <2>2, AnswersRest
  <2>3. CASE ~Calling'
    BY <2>3 DEF CallApproved
  <2>4. CASE OthersStep \/ UNCHANGED vars
    <3>1. UNCHANGED <<phase, call>>
      BY <2>4 DEF OthersStep, OperatorStep, ChangeMode, LinkEvidence, DecisionStep, SelectPending,
         UpdateRow, CommitDecision, AbandonDecision, sendVars, runVars, vars, queueVars
    <3>2. QED
      BY <3>1 DEF CallApproved, Calling
  <2>5. QED
    BY <2>1, <2>2, <2>3, <2>4 DEF RNext, SendStep, Start, StartRun, Prepare, PrepareItem,
       BeginPublishing, BeginRetrying, ToPhase, Commit, CommitTables, Abort, RollbackTables,
       ForgetRun, Calling
<1>3. ASSUME RTypeOK, CallApproved, RNext, NEW i \in Items, AtRest(i)
      PROVE  AtRest(i)'
  <2>0. TypeOK
    BY <1>3 DEF RTypeOK
  <2>1. CASE StartRun
    BY <1>3, <2>1 DEF StartRun, AtRest, Undecidable, Calling, tableVars
  <2>2. ASSUME NEW j \in Items, PrepareItem(j) PROVE AtRest(i)'
    <3>1. i # j /\ cands' \subseteq cands /\ UNCHANGED <<items, approvals, deciders>> /\ ~Calling'
      BY <1>3, <2>0, <2>2 DEF PrepareItem, TypeOK, MarkBlocked, RequestApproval, AutoApprove,
         LeaveAsIs, AtRest, tableVars, Calling
    <3>2. inserted'[i] = inserted[i] /\ mine'[i] = mine[i] /\ (i \in wrote' <=> i \in wrote)
      BY <2>0, <2>2, <3>1, PrepareEffect
    <3>3. QED
      BY <1>3, <3>1, <3>2 DEF AtRest, Undecidable
  <2>3. CASE BeginRetrying \/ \E slots \in SUBSET Variants : BeginPublishing(slots)
    BY <1>3, <2>3 DEF BeginRetrying, BeginPublishing, ToPhase, AtRest, Undecidable, Calling,
       tableVars
  <2>4. ASSUME NEW v \in Variants, PublishDue(v) \/ RetryOne(v) PROVE AtRest(i)'
    BY <1>3, <2>4, SendRests
  <2>5. ASSUME NEW answer \in Answers, ProviderAnswers(answer) PROVE AtRest(i)'
    BY <1>3, <2>5, AnswersRest
  <2>6. CASE CommitTables \/ RollbackTables
    BY <1>3, <2>0, <2>6, TablesRest
  <2>7. CASE OthersStep /\ DecisionStep
    <3>1. UNCHANGED <<inserted, cands, wrote, mine, phase, call>>
      BY <2>7, DecisionsLeaveTheRun DEF OthersStep, runVars, sendVars
    <3>2. Undecidable(i)' /\ items'[i] = items[i]
      BY <1>3, <2>0, <2>7, DecisionElsewhere DEF AtRest
    <3>3. QED
      BY <1>3, <3>1, <3>2 DEF AtRest, Calling
  <2>8. CASE OthersStep /\ OperatorStep
    BY <1>3, <2>8 DEF OthersStep, OperatorStep, ChangeMode, LinkEvidence, AtRest, Undecidable,
       Calling, tableVars, runVars, sendVars
  <2>9. QED
    BY <1>3, <2>1, <2>2, <2>3, <2>4, <2>5, <2>6, <2>7, <2>8
       DEF RNext, SendStep, Start, Prepare, Commit, Abort, OthersStep
<1>4. ASSUME RTypeOK, CallApproved, RNext, NEW i \in Items, AtRest(i), Human(i),
             NEW v \in VariantsOf(i)
      PROVE  posts'[v] = posts[v]
  <2>1. v \in Variants /\ ItemOf[v] = i /\ posts \in [Variants -> 0 .. PostsCap]
    BY <1>4 DEF VariantsOf, RTypeOK, PubTypeOK
  <2>2. ~(Calling /\ call.variant = v)
    BY <1>4, <2>1 DEF AtRest, CallApproved
  <2>3. ASSUME NEW answer \in Answers, ProviderAnswers(answer) PROVE posts'[v] = posts[v]
    BY <1>4, <2>1, <2>2, <2>3, AnswersRest DEF ProviderAnswers
  <2>4. ASSUME NEW created \in BOOLEAN, Abort(created) PROVE posts'[v] = posts[v]
    BY <2>1, <2>2, <2>4 DEF Abort, Posted
  <2>5. QED
    BY <1>4, <2>3, <2>4 DEF RNext, SendStep, OthersStep, Start, Prepare, BeginPublishing,
       BeginRetrying, PublishDue, RetryOne, Commit
<1>5. RTypeOK /\ CallApproved /\ [RNext]_vars =>
         [\A i \in Items : AtRest(i) =>
             /\ AtRest(i)'
             /\ Human(i) => \A v \in VariantsOf(i) : posts'[v] = posts[v]]_vars
  BY <1>3, <1>4
<1>6. QED
  BY <1>1, <1>2, <1>5, RunTypeCorrect, PTL DEF RSpec, RejectionIsFinal
===============================================================================
