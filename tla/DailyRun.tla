------------------------------- MODULE DailyRun -------------------------------
(***************************************************************************)
(* The daily run end to end (pipeline.run_daily): the intake and approval  *)
(* steps of ApprovalQueue, then _publish_due and _retry_failed, both by    *)
(* publish_variant (app/publisher/service.py), then one commit for all of  *)
(* it.  The provider is called inside that transaction, so what it was     *)
(* asked to post survives a rollback and the record of it does not.        *)
(*                                                                         *)
(* The calendar is abstracted to its outcome, the approved variants that   *)
(* hold a slot dated today, and assert_publishable to leaving some of them *)
(* out.  Counters stop at a cap: what the code compares them with is below *)
(* it.                                                                     *)
(***************************************************************************)
EXTENDS ApprovalQueue, Publisher

CONSTANTS
    Variants,      \* variant ids
    ItemOf,        \* the item of a variant
    MaxAttempts,   \* publisher.retry.max_attempts of config/platforms.yaml
    AttemptsCap,   \* bound: the attempts on a variant are counted, with their events, up to here
    PostsCap,      \* bound: posts at the provider are counted up to here
    Answers        \* the answers the publisher may give

ASSUME RunAssumption ==
    /\ Variants # {} /\ ItemOf \in [Variants -> Items]
    /\ MaxAttempts \in Nat /\ AttemptsCap \in Nat /\ MaxAttempts < AttemptsCap
    /\ PostsCap \in Nat /\ 1 < PostsCap
    /\ Answers \subseteq AnyAnswer

VARIABLES
    pubs,        \* publications by variant; attempts = 0 stands for no row
    submitted,   \* publication_events: SUBMITTED events by variant, ...
    outcomes,    \* ... and its PUBLISHED, SCHEDULED and FAILED events
    myPubs,      \* the two tables as the run's transaction sees them
    mySubmitted,
    myOutcomes,
    due,         \* variants whose slot of today is still to be published
    retries,     \* rows retryable_publications returned, still to be retried
    call,        \* the provider call under way and the item object passed along
    posts        \* how many posts of each variant exist at the provider

pubVars  == <<pubs, submitted, outcomes>>
myAudit  == <<mySubmitted, myOutcomes>>
sendVars == <<myPubs, myAudit, due, retries, call>>
vars     == <<queueVars, pubVars, sendVars, posts>>

PubRow == [status : PubStatuses, attempts : 0 .. AttemptsCap, retryable : BOOLEAN]
NoRow  == [status |-> "FAILED", attempts |-> 0, retryable |-> FALSE]

NoCall == [variant |-> CHOOSE v \in Variants : TRUE, item |-> FreshItem]

Bump(n, cap) == IF n < cap THEN n + 1 ELSE n

VariantsOf(i)  == {v \in Variants : ItemOf[v] = i}
HasRow(p, v)   == p[v].attempts # 0
IsLive(p, v)   == HasRow(p, v) /\ Live(p[v].status)
MayRetry(p, v) == /\ HasRow(p, v) /\ p[v].status = "FAILED" /\ p[v].retryable
                  /\ p[v].attempts < MaxAttempts

RInit ==
    /\ Init
    /\ pubs = [v \in Variants |-> NoRow] /\ myPubs = pubs
    /\ submitted = [v \in Variants |-> 0] /\ mySubmitted = submitted
    /\ outcomes = submitted /\ myOutcomes = submitted
    /\ due = {} /\ retries = {} /\ call = NoCall
    /\ posts = [v \in Variants |-> 0]
-------------------------------------------------------------------------------
\* The steps of ApprovalQueue, which leave the publication tables alone.
Start ==
    /\ StartRun
    /\ myPubs' = pubs /\ mySubmitted' = submitted /\ myOutcomes' = outcomes
    /\ UNCHANGED <<pubVars, due, retries, call, posts>>

Prepare(i) == PrepareItem(i) /\ UNCHANGED <<pubVars, sendVars, posts>>

OthersStep == (DecisionStep \/ OperatorStep) /\ UNCHANGED <<pubVars, sendVars, posts>>
-------------------------------------------------------------------------------
\* publisher.publish has been called and has not returned.
Calling == phase \in {"calling", "retrying"}

ToPhase(p) ==
    /\ phase' = p
    /\ UNCHANGED <<tableVars, configVars, runMode, seen, cands, todo, object, inserted, deciders,
                   aborts>>

\* Every item is evaluated; fill_slots has put approved candidates into slots,
\* and those dated today are published one by one.
BeginPublishing(slots) ==
    /\ phase = "prepare" /\ todo = {}
    /\ \A v \in slots : ItemOf[v] \in cands /\ object[ItemOf[v]].status = "APPROVED"
    /\ due' = slots
    /\ ToPhase("publish")
    /\ UNCHANGED <<mine, wrote, pubVars, myPubs, myAudit, retries, call, posts>>

\* Seeded bug: only what still has a slot of today is retried.
BeginRetryingDue ==
    /\ phase = "publish" /\ due = {}
    /\ retries' = {v \in due : MayRetry(myPubs, v)}
    /\ ToPhase("retry")
    /\ UNCHANGED <<mine, wrote, pubVars, myPubs, myAudit, due, call, posts>>

\* All the retryable rows, read at once after the last slot.
BeginRetrying ==
    /\ phase = "publish" /\ due = {}
    /\ retries' = {v \in Variants : MayRetry(myPubs, v)}
    /\ ToPhase("retry")
    /\ UNCHANGED <<mine, wrote, pubVars, myPubs, myAudit, due, call, posts>>

\* authorise_publication on the item as it is now, with a fresh evaluation.
MayPublish(i) == Authorised(DecisionOn(i), RowSeenByRun(i).status, "none")

\* publish_variant: refused (the BLOCKED event is left out) or already live.
Skip(v) ==
    /\ ~MayPublish(ItemOf[v]) \/ IsLive(myPubs, v)
    /\ UNCHANGED <<phase, mySubmitted, call>>

\* The events of an attempt count as long as the attempt does.
OneMoreEvent(events, v) ==
    IF myPubs[v].attempts < AttemptsCap THEN [events EXCEPT ![v] = @ + 1] ELSE events

\* Seeded bugs: a live variant is submitted again; a retry leaves no SUBMITTED event.
SubmitAgain(v, p) ==
    /\ MayPublish(ItemOf[v])
    /\ mySubmitted' = OneMoreEvent(mySubmitted, v)
    /\ call' = [variant |-> v, item |-> RowSeenByRun(ItemOf[v])]
    /\ phase' = p

SubmitUnrecorded(v, p) ==
    /\ MayPublish(ItemOf[v])
    /\ ~IsLive(myPubs, v)
    /\ mySubmitted' = IF HasRow(myPubs, v) THEN mySubmitted ELSE OneMoreEvent(mySubmitted, v)
    /\ call' = [variant |-> v, item |-> RowSeenByRun(ItemOf[v])]
    /\ phase' = p

\* publish_variant: AUTHORISED and SUBMITTED are recorded, the provider is called.
Submit(v, p) ==
    /\ MayPublish(ItemOf[v])
    /\ ~IsLive(myPubs, v)
    /\ mySubmitted' = OneMoreEvent(mySubmitted, v)
    /\ call' = [variant |-> v, item |-> RowSeenByRun(ItemOf[v])]
    /\ phase' = p

\* One iteration of _publish_due, one of _retry_failed.
PublishDue(v) ==
    /\ phase = "publish" /\ v \in due
    /\ due' = due \ {v}
    /\ Skip(v) \/ Submit(v, "calling")
    /\ UNCHANGED <<tableVars, configVars, runMode, seen, cands, todo, object, wrote, mine, inserted,
                   deciders, aborts, pubVars, myPubs, myOutcomes, retries, posts>>

RetryOne(v) ==
    /\ phase = "retry" /\ v \in retries
    /\ retries' = retries \ {v}
    /\ Skip(v) \/ Submit(v, "retrying")
    /\ UNCHANGED <<tableVars, configVars, runMode, seen, cands, todo, object, wrote, mine, inserted,
                   deciders, aborts, pubVars, myPubs, myOutcomes, due, posts>>

\* Seeded bugs: a variant without a publication is overlooked; a status of
\* publications ends up in lifecycle_status.
LifecycleOfRows(i, p) ==
    LET rows == {v \in VariantsOf(i) : HasRow(p, v)}
    IN  CASE \A v \in rows : p[v].status = "PUBLISHED" -> "PUBLISHED"
          [] (\E v \in rows : Live(p[v].status)) /\ (\E v \in rows : p[v].status = "FAILED")
               -> "PARTIALLY_PUBLISHED"
          [] \A v \in rows : p[v].status = "FAILED" -> "FAILED"
          [] OTHER -> "SCHEDULED"

LifecycleOfOneRow(i, p) ==
    IF \E v \in VariantsOf(i) : p[v].status = "QUEUED" THEN "QUEUED" ELSE "PUBLISHED"

\* _update_item_lifecycle, from the publications rows of the item.
LifecycleOf(i, p) ==
    LET rows == {v \in VariantsOf(i) : HasRow(p, v)}
    IN  CASE rows = VariantsOf(i) /\ \A v \in rows : p[v].status = "PUBLISHED"
               -> "PUBLISHED"
          [] (\E v \in rows : Live(p[v].status)) /\ (\E v \in rows : p[v].status = "FAILED")
               -> "PARTIALLY_PUBLISHED"
          [] \A v \in rows : p[v].status = "FAILED"
               -> "FAILED"
          [] OTHER
               -> "SCHEDULED"

Posted(v, created) == posts' = [posts EXCEPT ![v] = IF created THEN Bump(@, PostsCap) ELSE @]

\* The event of the result: a status without one of its own is recorded as
\* SUBMITTED once more.
RecordResult(v, status) ==
    IF status = "QUEUED"
      THEN mySubmitted' = OneMoreEvent(mySubmitted, v) /\ UNCHANGED myOutcomes
      ELSE myOutcomes' = OneMoreEvent(myOutcomes, v) /\ UNCHANGED mySubmitted

\* The publisher returns: the row is upserted, the result recorded and the item
\* saved, whole, from the object that was loaded before the call.
ProviderAnswers(answer) ==
    LET v == call.variant
        i == ItemOf[v]
    IN  /\ Calling
        /\ Posted(v, answer.created)
        /\ myPubs' = [myPubs EXCEPT ![v] =
              [status |-> answer.status, retryable |-> answer.retryable,
               attempts |-> Bump(@.attempts, AttemptsCap)]]
        /\ RecordResult(v, answer.status)
        /\ WriteRow(i, [call.item EXCEPT !.lifecycle = LifecycleOf(i, myPubs')])
        /\ ToPhase(IF phase = "calling" THEN "publish" ELSE "retry")
        /\ call' = NoCall
        /\ UNCHANGED <<pubVars, due, retries>>

ForgetSend ==
    /\ myPubs' = [v \in Variants |-> NoRow]
    /\ mySubmitted' = [v \in Variants |-> 0] /\ myOutcomes' = mySubmitted'
    /\ due' = {} /\ retries' = {} /\ call' = NoCall

Commit ==
    /\ phase = "retry" /\ retries = {}
    /\ CommitTables
    /\ pubs' = myPubs /\ submitted' = mySubmitted /\ outcomes' = myOutcomes
    /\ ForgetSend
    /\ UNCHANGED posts

\* The run dies.  A call under way may have reached the provider all the same.
Abort(created) ==
    /\ RollbackTables
    /\ created => Calling
    /\ Posted(call.variant, created)
    /\ ForgetSend
    /\ UNCHANGED pubVars

SendStep ==
    \/ Start
    \/ \E i \in Items : Prepare(i)
    \/ \E slots \in SUBSET Variants : BeginPublishing(slots)
    \/ \E v \in Variants : PublishDue(v)
    \/ BeginRetrying
    \/ \E v \in Variants : RetryOne(v)
    \/ \E answer \in Answers : ProviderAnswers(answer)
    \/ Commit

RNext == SendStep \/ (\E created \in BOOLEAN : Abort(created)) \/ OthersStep

RSpec == RInit /\ [][RNext]_vars

\* Cron starts a run again and again, every call returns, and a run that is not
\* rolled back reaches its commit.
RFairSpec == RSpec /\ WF_vars(SendStep)
-------------------------------------------------------------------------------
\* RTypeOK: TypeOK, and the shape of the publication state.
PubTypeOK ==
    /\ pubs \in [Variants -> PubRow] /\ myPubs \in [Variants -> PubRow]
    /\ submitted \in [Variants -> Nat] /\ mySubmitted \in [Variants -> Nat]
    /\ outcomes \in [Variants -> Nat] /\ myOutcomes \in [Variants -> Nat]
    /\ due \in SUBSET Variants /\ retries \in SUBSET Variants
    /\ call \in [variant : Variants, item : ItemRow]
    /\ posts \in [Variants -> 0 .. PostsCap]

RTypeOK == TypeOK /\ PubTypeOK

\* HumanGate: a HUMAN_APPROVAL_REQUIRED item (every captured trend is one) has
\* no post at the provider before a person's approval of it was committed,
\* whatever the mode, the stale objects written back, the retries and crashes.
HumanGate ==
    \A v \in Variants :
        posts[v] > 0 /\ ContentOf[ItemOf[v]].requirement = "HUMAN_APPROVAL_REQUIRED"
          => "human" \in granted[ItemOf[v]]

\* The inductive forms of HumanGate, LiveIsReal and LiveRowsFrozen.  A call under
\* way carries an item that was cleared and a variant that is not live yet; what
\* the run holds as live is posted, and it holds every live row unchanged.
CallInv ==
    Calling =>
        /\ call.item.status = "APPROVED" => Backed(ItemOf[call.variant])
        /\ ContentOf[ItemOf[call.variant]].requirement = "HUMAN_APPROVAL_REQUIRED"
              => "human" \in granted[ItemOf[call.variant]]

HumanGateInv == AuthorityInv /\ CallInv /\ HumanGate

RecordInv ==
    /\ Calling => ~IsLive(myPubs, call.variant)
    /\ \A v \in Variants :
          /\ IsLive(pubs, v) \/ IsLive(myPubs, v) => posts[v] > 0
          /\ phase # "idle" /\ IsLive(pubs, v) => myPubs[v] = pubs[v]

\* Which rows of publications whoever looks next has before it: those the run's
\* transaction sees, between runs what is committed.
RowsInView == IF phase = "idle" THEN pubs ELSE myPubs

\* The inductive form of NoDoublePost where nothing is lost: the run knows of
\* every post there is.
KnownInv ==
    \A v \in Variants :
        /\ posts[v] <= 1
        /\ posts[v] > 0 => IsLive(RowsInView, v)

\* LiveIsReal: a publication on record as live exists at the provider.
LiveIsReal == \A v \in Variants : IsLive(pubs, v) => posts[v] > 0

\* AttemptsAudited: each attempt that a row counts has left two events in the audit
\* trail, the SUBMITTED of the request and that of its result (a second SUBMITTED if
\* nothing was transmitted, so SUBMITTED events alone count more than the attempts),
\* also after retries, rollbacks and half-finished calls.
AttemptsAudited ==
    \A v \in Variants :
        /\ submitted[v] + outcomes[v] = 2 * pubs[v].attempts
        /\ submitted[v] >= pubs[v].attempts

\* Its inductive form: in the run only a call under way is ahead of its row.
Ahead(v) ==
    IF Calling /\ v = call.variant /\ myPubs[v].attempts < AttemptsCap THEN 1 ELSE 0

AuditInv ==
    /\ AttemptsAudited
    /\ phase # "idle" => \A v \in Variants :
          /\ mySubmitted[v] + myOutcomes[v] = 2 * myPubs[v].attempts + Ahead(v)
          /\ mySubmitted[v] >= myPubs[v].attempts + Ahead(v)

\* LiveRowsFrozen: a publication that is live keeps its row; no later slot,
\* retry or mode change publishes it again or marks it failed.
LiveRowsFrozen == [][\A v \in Variants : IsLive(pubs, v) => pubs'[v] = pubs[v]]_vars

Whole(i, p) == \A v \in VariantsOf(i) : IsLive(p, v) /\ p[v].status = "PUBLISHED"

\* PublishedIsWhole: lifecycle PUBLISHED means every variant of the item is
\* published, however old the object was that some transaction wrote back.
PublishedIsWhole == \A i \in Items : items[i].lifecycle = "PUBLISHED" => Whole(i, pubs)

\* Its inductive form covers the objects: those of the run against the rows it
\* sees, those of the deciders against what is committed.
WholeInv ==
    /\ PublishedIsWhole
    /\ \A d \in Deciders :
          deciders[d].stage = "updated" /\ deciders[d].copy.lifecycle = "PUBLISHED"
             => Whole(deciders[d].item, pubs)
    /\ phase = "idle" => wrote = {}
    /\ phase # "idle" => \A i \in Items :
          /\ object[i].lifecycle = "PUBLISHED" => Whole(i, myPubs)
          /\ i \in wrote /\ mine[i].lifecycle = "PUBLISHED" => Whole(i, myPubs)

\* NoDoublePost: "Re-publishing would double-post" (service.py:104).
NoDoublePost == \A v \in Variants : posts[v] <= 1

\* RejectedStaysUnsent: nothing is submitted for an item that reads REJECTED;
\* authorise_publication lets pass what is "genuinely cleared to publish right
\* now" (engine.py:282) and the run reloads the item because it "may have been
\* approved or rejected since" (pipeline.py:274-275).
RejectedStaysUnsent ==
    [][~Calling /\ Calling' => RowSeenByRun(ItemOf[call'.variant]).status # "REJECTED"]_vars

Decided(row) == row.status \in Verdicts

\* ApprovalSurvivesOutage: an item whose publication was attempted, failed or not,
\* leaves APPROVED only for a person's REJECTED ("the content stays approved",
\* README.md:103-105): no stale row of a run or a command sends it back to the queue.
ApprovalSurvivesOutage ==
    [][\A v \in Variants :
          LET i == ItemOf[v]
          IN  HasRow(pubs, v) /\ items[i].status = "APPROVED" /\ items'[i].status # "APPROVED"
                 => items'[i].status = "REJECTED"]_vars

\* Its inductive form: what a run publishes has been decided on when the run read
\* it, and whatever is written over it later has been, too.
SettledInv ==
    /\ \A v \in Variants : HasRow(pubs, v) => Decided(items[ItemOf[v]])
    /\ phase = "idle" => wrote = {} /\ due = {} /\ retries = {}
    /\ phase # "idle" =>
          /\ \A v \in Variants :
                HasRow(myPubs, v) \/ v \in due \cup retries \/ (Calling /\ v = call.variant)
                   => Decided(object[ItemOf[v]])
          /\ \A v \in Variants : HasRow(pubs, v) => HasRow(myPubs, v)
          /\ \A i \in Items : Decided(object[i]) => Decided(RowSeenByRun(i))
          /\ \A i \in Items : object[i].status = "REJECTED" => i \notin cands
    /\ phase # "prepare" => todo = {}
    /\ Calling => Decided(call.item)

\* FailedIsResolved: a retryable failure does not stay behind: a later run publishes
\* it, has it refused for good or uses up its attempts, unless a person rejects the
\* item or a run finds it blocked (README.md:103-105, "the next run picks it up").
\* A row that turns QUEUED is none of these.
GivenUp(v) == /\ HasRow(pubs, v) /\ pubs[v].status = "FAILED"
              /\ ~pubs[v].retryable \/ pubs[v].attempts >= MaxAttempts

Withheld(i) == items[i].status # "APPROVED" \/ (phase # "idle" /\ DecisionOn(i).blocked)

FailedIsResolved ==
    \A v \in Variants : MayRetry(pubs, v) /\ ~Withheld(ItemOf[v])
        ~> IsLive(pubs, v) \/ GivenUp(v) \/ Withheld(ItemOf[v])

\* PostedOnce: the promise of PostOnce.  The provider is never asked for a variant
\* that the rows in view hold as live, and no crash takes a recorded one out of
\* view: so a second post takes a lost reply or a run that died after the first.
Promise == INSTANCE PostOnce WITH
    Cap      <- PostsCap,
    known    <- {v \in Variants : IsLive(RowsInView, v)},
    recorded <- {v \in Variants : IsLive(pubs, v)}

PostedOnce == Promise!Spec
===============================================================================
