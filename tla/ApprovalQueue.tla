---------------------------- MODULE ApprovalQueue ----------------------------
(***************************************************************************)
(* The tables content_items and approvals, the people who decide on a      *)
(* queued item (scripts/approve.py, queue.decide) and the daily run that   *)
(* queues or auto-approves what it finds (pipeline._prepare_content,       *)
(* queue.request_approval, queue.auto_approve).                            *)
(*                                                                         *)
(* A person's decision and the daily run are one database transaction      *)
(* each, at PostgreSQL's default level READ COMMITTED: a statement sees    *)
(* what is committed when it starts and what its own transaction wrote, an *)
(* UPDATE waits for the lock on its row, and save_item writes the whole    *)
(* row from an object read earlier.  So each transaction is cut where a    *)
(* commit of another one can fall between its statements and be missed.    *)
(* One run is active at a time (the concurrency group of the workflow).    *)
(***************************************************************************)
EXTENDS PolicyEngine, Naturals, Sequences

CONSTANTS
    Items,         \* content ids
    ContentOf,     \* what the policy engine sees of each item when it is created
    Looks,         \* what it may see of the item in some run: copy is built later or by
                   \* a model, and the operator edits pillars and phrase lists between runs
    Deciders,      \* concurrent invocations of scripts/approve.py
    ConfigModes,   \* bound: the operating modes the operator switches between
    MaxRequests,   \* bound: rows of one item after which nobody decides on it any more
    MaxAborts      \* bound: transactions of the run that are rolled back

ASSUME QueueAssumption ==
    /\ Items # {}
    /\ ContentOf \in [Items -> Content] /\ Looks \in [Items -> SUBSET Content]
    /\ \A i \in Items :
          /\ ContentOf[i] \in Looks[i]
          /\ \A c \in Looks[i] : c.requirement = ContentOf[i].requirement
    /\ ConfigModes \subseteq Modes
    /\ MaxRequests \in Nat
    /\ MaxAborts \in Nat

VARIABLES
    items,       \* content_items: approval_status and lifecycle_status by item
    approvals,   \* approvals: the rows of an item in approval_id order
    granted,     \* history: who has committed an approval of the item so far
    linked,      \* items with an evidence record linked
    mode,        \* policy.operating_mode in the checked-out config
    phase,       \* where the run is, "idle" between runs
    runMode,     \* the mode load_config gave to the run
    seen,        \* what the policy engine sees of each item in the run
    cands,       \* items the run selected and has not found blocked
    todo,        \* selected items it has not evaluated yet
    object,      \* its ContentItem of each selected item, as in memory
    wrote,       \* items whose row its transaction has written, hence locked
    mine,        \* that row, uncommitted
    inserted,    \* approvals rows it has inserted, uncommitted
    deciders,    \* the decision transactions
    aborts       \* how many runs were rolled back

tableVars  == <<items, approvals, granted>>
configVars == <<linked, mode>>
runVars    == <<phase, runMode, seen, cands, todo, object, wrote, mine, inserted, aborts>>
queueVars  == <<tableVars, configVars, runVars, deciders>>

Lifecycles == {"DRAFT", "SCHEDULED", "PUBLISHED", "PARTIALLY_PUBLISHED", "FAILED", "BLOCKED"}

ItemRow     == [status : ApprovalStatuses, lifecycle : Lifecycles]
ApprovalRow == [decision : {"PENDING", "APPROVED", "REJECTED"}, by : {"nobody", "human", "rule"}]
Verdicts    == {"APPROVED", "REJECTED"}

FreshItem == [status |-> "DRAFT", lifecycle |-> "DRAFT"]
OpenRow   == [decision |-> "PENDING", by |-> "nobody"]
RuleRow   == [decision |-> "APPROVED", by |-> "rule"]

\* Stage "selected": holds the id of a pending row.  Stage "updated": has written
\* (and locked) that row and loaded the item.
Decider ==
    [stage : {"idle", "selected", "updated"}, item : Items, row : Nat,
     verdict : Verdicts, copy : ItemRow]

\* config.operating_mode when policy.yaml names none; also the value of runMode
\* between runs, when no run holds a mode.
DefaultMode == "MODE_1_APPROVAL_REQUIRED"

\* What one run may see of all the items; only approval_requirement never changes.
Sights ==
    {s \in [Items -> UNION {Looks[i] : i \in Items}] : \A i \in Items : s[i] \in Looks[i]}

IdleDecider ==
    [stage |-> "idle", item |-> CHOOSE i \in Items : TRUE, row |-> 0,
     verdict |-> "REJECTED", copy |-> FreshItem]

OpenRows(rows)    == {k \in DOMAIN rows : rows[k].decision = "PENDING"}

\* Seeded bug: decide takes the latest row, decided or not.
LatestRow(rows) == {k \in DOMAIN rows : \A j \in DOMAIN rows : j <= k}

LatestOpen(rows)  == {k \in OpenRows(rows) : \A j \in OpenRows(rows) : j <= k}

\* Seeded bug: only requests of this run count.
RequestedByThisRun(i) == OpenRows(inserted[i]) # {}

HasOpenRequest(i) == OpenRows(approvals[i]) # {} \/ OpenRows(inserted[i]) # {}

\* What a statement of the run reads from content_items.
RowSeenByRun(i) == IF i \in wrote THEN mine[i] ELSE items[i]

Init ==
    /\ items = [i \in Items |-> FreshItem]
    /\ approvals = [i \in Items |-> <<>>]
    /\ granted = [i \in Items |-> {}]
    /\ linked = {}
    /\ mode \in ConfigModes
    /\ phase = "idle"
    /\ runMode = DefaultMode /\ seen = ContentOf
    /\ cands = {} /\ todo = {} /\ wrote = {}
    /\ object = items /\ mine = items
    /\ inserted = approvals
    /\ deciders = [d \in Deciders |-> IdleDecider]
    /\ aborts = 0
-------------------------------------------------------------------------------
\* The operator edits config/policy.yaml; a run keeps the mode it was started with.
ChangeMode(m) ==
    /\ m # mode
    /\ mode' = m
    /\ UNCHANGED <<tableVars, linked, runVars, deciders>>

\* Evidence is recorded (record_evidence) and a claim of the item linked to it
\* (link_claim).  evaluate asks only whether anything is linked, so the first link
\* is the one that counts, and items that never need evidence are left out.
LinkEvidence(i) ==
    /\ \E c \in Looks[i] : NeedsEvidence(c)
    /\ i \notin linked
    /\ linked' = linked \cup {i}
    /\ UNCHANGED <<tableVars, mode, runVars, deciders>>
-------------------------------------------------------------------------------
\* run_daily begins: config is loaded, the runs row is inserted and one SELECT
\* reads every item a run may have work for.  The item's text, its copy and the
\* config stay what they are until the run ends.
StartRun ==
    /\ phase = "idle"
    /\ phase' = "prepare"
    /\ runMode' = mode /\ seen' \in Sights
    /\ cands' = {i \in Items : items[i].status \in {"DRAFT", "PENDING_APPROVAL", "APPROVED"}}
    /\ todo' = cands'
    /\ object' = items
    /\ UNCHANGED <<tableVars, configVars, wrote, mine, inserted, deciders, aborts>>

DecisionOn(i) == Evaluate(seen[i], i \in linked, runMode)

\* save_item(conn, item, now) by the run: the whole row, as its object has it.
WriteRow(i, row) ==
    /\ mine' = [mine EXCEPT ![i] = row]
    /\ wrote' = wrote \cup {i}

Save(i, row) == object' = [object EXCEPT ![i] = row] /\ WriteRow(i, row)

\* Seeded bug: the block lands in approval_status.
MarkBlockedInStatus(i) ==
    /\ DecisionOn(i).blocked
    /\ Save(i, [object[i] EXCEPT !.status = "BLOCKED"])
    /\ cands' = cands \ {i}
    /\ UNCHANGED inserted

\* A blocked item is no candidate for the calendar.
MarkBlocked(i) ==
    /\ DecisionOn(i).blocked
    /\ Save(i, [object[i] EXCEPT !.lifecycle = "BLOCKED"])
    /\ cands' = cands \ {i}
    /\ UNCHANGED inserted

\* Seeded bug: approved items are sent back to the queue.
RequestApprovalAgain(i) ==
    /\ DecisionOn(i).requires_approval
    /\ IF HasOpenRequest(i)
         THEN UNCHANGED <<object, mine, wrote, inserted>>
         ELSE /\ inserted' = [inserted EXCEPT ![i] = Append(@, OpenRow)]
              /\ Save(i, [object[i] EXCEPT !.status = "PENDING_APPROVAL"])
    /\ UNCHANGED cands

RequestApproval(i) ==
    /\ DecisionOn(i).requires_approval
    /\ object[i].status # "APPROVED"
    /\ IF HasOpenRequest(i)
         THEN UNCHANGED <<object, mine, wrote, inserted>>
         ELSE /\ inserted' = [inserted EXCEPT ![i] = Append(@, OpenRow)]
              /\ Save(i, [object[i] EXCEPT !.status = "PENDING_APPROVAL"])
    /\ UNCHANGED cands

\* Seeded bug: the rule approves whatever nothing blocks.
AutoApproveUnblocked(i) ==
    /\ ~DecisionOn(i).blocked
    /\ object[i].status # "APPROVED"
    /\ inserted' = [inserted EXCEPT ![i] = Append(@, RuleRow)]
    /\ Save(i, [object[i] EXCEPT !.status = "APPROVED"])
    /\ UNCHANGED cands

AutoApprove(i) ==
    /\ ~DecisionOn(i).blocked /\ ~DecisionOn(i).requires_approval
    /\ ContentOf[i].requirement = "AUTO_APPROVED"
    /\ object[i].status # "APPROVED"
    /\ inserted' = [inserted EXCEPT ![i] = Append(@, RuleRow)]
    /\ Save(i, [object[i] EXCEPT !.status = "APPROVED"])
    /\ UNCHANGED cands

LeaveAsIs(i) ==
    /\ ~DecisionOn(i).blocked
    /\ object[i].status # "APPROVED" =>
          ~DecisionOn(i).requires_approval /\ ContentOf[i].requirement # "AUTO_APPROVED"
    /\ UNCHANGED <<object, mine, wrote, inserted, cands>>

\* One iteration of the loop of _prepare_content; the SELECT has no ORDER BY.
PrepareItem(i) ==
    /\ phase = "prepare" /\ i \in todo
    /\ todo' = todo \ {i}
    /\ MarkBlocked(i) \/ RequestApproval(i) \/ AutoApprove(i) \/ LeaveAsIs(i)
    /\ UNCHANGED <<tableVars, configVars, phase, runMode, seen, deciders, aborts>>

ForgetRun ==
    /\ phase' = "idle"
    /\ cands' = {} /\ todo' = {} /\ wrote' = {}
    /\ object' = [i \in Items |-> FreshItem]
    /\ mine' = [i \in Items |-> FreshItem]
    /\ inserted' = [i \in Items |-> <<>>]
    /\ runMode' = DefaultMode /\ seen' = ContentOf
    /\ UNCHANGED <<configVars, deciders>>

\* The transaction of run_daily commits.
CommitTables ==
    /\ items' = [i \in Items |-> RowSeenByRun(i)]
    /\ approvals' = [i \in Items |-> approvals[i] \o inserted[i]]
    /\ granted' = [i \in Items |->
          IF \E k \in DOMAIN inserted[i] : inserted[i][k] = RuleRow
            THEN granted[i] \cup {"rule"} ELSE granted[i]]
    /\ ForgetRun
    /\ UNCHANGED aborts

\* It is rolled back: an exception, a lost connection, the 20-minute job timeout.
RollbackTables ==
    /\ phase # "idle"
    /\ aborts < MaxAborts
    /\ aborts' = aborts + 1
    /\ ForgetRun
    /\ UNCHANGED tableVars

CommitRun == phase = "prepare" /\ todo = {} /\ CommitTables
AbortRun  == RollbackTables
-------------------------------------------------------------------------------
\* queue.decide: SELECT the latest PENDING row of the item.
SelectPending(d, i, verdict) ==
    /\ deciders[d].stage = "idle"
    /\ Len(approvals[i]) <= MaxRequests
    /\ \E k \in LatestOpen(approvals[i]) :
          deciders' = [deciders EXCEPT ![d] =
             [@ EXCEPT !.stage = "selected", !.item = i, !.verdict = verdict, !.row = k]]
    /\ UNCHANGED <<tableVars, configVars, runVars>>

\* Seeded bug: the UPDATE commits by itself.
UpdateRowAutocommit(d) ==
    LET i == deciders[d].item
    IN  /\ deciders[d].stage = "selected"
        /\ approvals' = [approvals EXCEPT ![i] =
              [@ EXCEPT ![deciders[d].row] = [decision |-> deciders[d].verdict, by |-> "human"]]]
        /\ deciders' = [deciders EXCEPT ![d] = [@ EXCEPT !.stage = "updated", !.copy = items[i]]]
        /\ UNCHANGED <<items, granted, configVars, runVars>>

\* UPDATE that row by its approval_id alone, then load_item.
UpdateRow(d) ==
    /\ deciders[d].stage = "selected"
    /\ \A e \in Deciders : deciders[e].stage = "updated" =>
          <<deciders[e].item, deciders[e].row>> # <<deciders[d].item, deciders[d].row>>
    /\ deciders' = [deciders EXCEPT ![d] =
          [@ EXCEPT !.stage = "updated", !.copy = items[deciders[d].item]]]
    /\ UNCHANGED <<tableVars, configVars, runVars>>

Forget(d) == deciders' = [deciders EXCEPT ![d] = IdleDecider]

\* save_item of the loaded object, once the run holds no lock on the row; commit.
CommitDecision(d) ==
    LET i == deciders[d].item
        v == deciders[d].verdict
    IN  /\ deciders[d].stage = "updated"
        /\ i \notin wrote
        /\ approvals' = [approvals EXCEPT ![i] =
              [@ EXCEPT ![deciders[d].row] = [decision |-> v, by |-> "human"]]]
        /\ items' = [items EXCEPT ![i] = [deciders[d].copy EXCEPT !.status = v]]
        /\ granted' = [granted EXCEPT ![i] = IF v = "APPROVED" THEN @ \cup {"human"} ELSE @]
        /\ Forget(d)
        /\ UNCHANGED <<configVars, runVars>>

\* The command is interrupted or loses its connection before the commit.
AbandonDecision(d) ==
    /\ deciders[d].stage # "idle"
    /\ Forget(d)
    /\ UNCHANGED <<tableVars, configVars, runVars>>

RunStep == StartRun \/ (\E i \in Items : PrepareItem(i)) \/ CommitRun

DecisionStep ==
    \E d \in Deciders :
        \/ \E i \in Items, v \in Verdicts : SelectPending(d, i, v)
        \/ UpdateRow(d)
        \/ CommitDecision(d)
        \/ AbandonDecision(d)

OperatorStep == (\E m \in ConfigModes : ChangeMode(m)) \/ (\E i \in Items : LinkEvidence(i))

Next == RunStep \/ AbortRun \/ DecisionStep \/ OperatorStep

Spec == Init /\ [][Next]_queueVars
-------------------------------------------------------------------------------
\* TypeOK: every table, transaction and object has the shape its code gives it.
TypeOK ==
    /\ items \in [Items -> ItemRow]
    /\ approvals \in [Items -> Seq(ApprovalRow)]
    /\ granted \in [Items -> SUBSET {"human", "rule"}]
    /\ linked \in SUBSET Items
    /\ mode \in Modes /\ runMode \in Modes /\ seen \in Sights
    /\ phase \in {"idle", "prepare", "publish", "calling", "retry", "retrying"}
    /\ cands \in SUBSET Items /\ todo \in SUBSET cands /\ wrote \in SUBSET Items
    /\ object \in [Items -> ItemRow] /\ mine \in [Items -> ItemRow]
    /\ inserted \in [Items -> Seq({OpenRow, RuleRow})]
    /\ deciders \in [Deciders -> Decider]
    /\ aborts \in 0 .. MaxAborts

\* Who must have approved an item whose status reads APPROVED.
HasAuthority(i) ==
    \/ "human" \in granted[i]
    \/ "rule" \in granted[i] /\ ContentOf[i].requirement = "AUTO_APPROVED"

\* ApprovalHasAuthority: an item reads APPROVED only after a decision that was
\* committed, and one marked HUMAN_APPROVAL_REQUIRED only after a person's,
\* whatever stale objects the run and the deciders write back (queue.py:3-9).
ApprovalHasAuthority ==
    \A i \in Items : items[i].status = "APPROVED" => HasAuthority(i)

\* The inductive form: an APPROVED in a row or object of the run is backed by an
\* approval that is committed or will be with the run.
Backed(i) ==
    \/ HasAuthority(i)
    \/ /\ ContentOf[i].requirement = "AUTO_APPROVED"
       /\ \E k \in DOMAIN inserted[i] : inserted[i][k] = RuleRow

AuthorityInv ==
    \A i \in Items :
        /\ items[i].status = "APPROVED" => HasAuthority(i)
        /\ object[i].status = "APPROVED" => Backed(i)
        /\ mine[i].status = "APPROVED" => Backed(i)

\* OneOpenRequest: an item never waits in the queue twice; request_approval
\* promises "the id of its existing open request" (queue.py:55).
OneOpenRequest ==
    \A i \in Items : \A j, k \in OpenRows(approvals[i]) : j = k

\* Its inductive form counts what the run has yet to commit, which is on rows
\* that it has locked.
OpenAtMostOnce(i) ==
    /\ \A j, k \in OpenRows(approvals[i]) : j = k
    /\ \A j, k \in OpenRows(inserted[i]) : j = k
    /\ OpenRows(approvals[i]) = {} \/ OpenRows(inserted[i]) = {}

OpenInv == \A i \in Items : OpenAtMostOnce(i) /\ (inserted[i] # <<>> => i \in wrote)

\* RejectionSettles: once an item is rejected, with no request open and no
\* transaction left that had read it before, nothing reopens it: no later run
\* selects it and no later command decides on it.
Settled(i) ==
    /\ items[i].status = "REJECTED" /\ OpenRows(approvals[i]) = {}
    /\ i \notin cands \cup wrote
    /\ \A d \in Deciders : deciders[d].item = i => deciders[d].stage = "idle"

RejectionSettles == [][\A i \in Items : Settled(i) => Settled(i)']_queueVars

\* DecidedOnce: a request that has been decided is not decided again; decide
\* records a decision "on a queued item" (queue.py:93) and raises LookupError
\* when there is no pending request (queue.py:111-112).
DecidedOnce ==
    [][\A i \in Items : \A k \in DOMAIN approvals[i] :
          approvals[i][k].decision # "PENDING" => approvals'[i][k] = approvals[i][k]]_queueVars

\* PendingIsDecidable: an item that reads PENDING_APPROVAL has an open request, so
\* that list_pending shows it and decide can act on it, or is marked BLOCKED; and
\* what a run has found unblocked reads so only with an open request, whatever
\* parked it before.  No decision that dies half-way and no stale object written
\* back parks an item where nobody can decide.  (A block written over a decision
\* made during the run takes the decision back until a run unblocks the item.)
Parked(row) == row.status = "PENDING_APPROVAL" /\ row.lifecycle # "BLOCKED"

PendingIsDecidable ==
    /\ \A i \in Items : Parked(items[i]) => OpenRows(approvals[i]) # {}
    /\ \A i \in cands \ todo :
          RowSeenByRun(i).status = "PENDING_APPROVAL" => HasOpenRequest(i)

\* Its inductive form: what the run writes back as pending it has queued itself,
\* an item it has yet to evaluate is not written, and one that it holds as approved
\* does not read pending.
PendingOK(i) ==
    /\ Parked(items[i]) => OpenRows(approvals[i]) # {}
    /\ i \in wrote /\ Parked(mine[i]) => OpenRows(inserted[i]) # {}
    /\ i \in wrote => phase # "idle" /\ i \notin todo
    /\ phase = "idle" => i \notin cands
    /\ i \in cands /\ object[i].status = "APPROVED" => RowSeenByRun(i).status # "PENDING_APPROVAL"
    /\ i \in cands => object[i].status # "REJECTED"
    /\ i \in cands \ todo /\ RowSeenByRun(i).status = "PENDING_APPROVAL" => HasOpenRequest(i)

PendingInv == \A i \in Items : PendingOK(i)
===============================================================================
