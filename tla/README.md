# Verification of the RDX marketing engine

TLA+ models, TLC runs and TLAPS proofs for the engine in this repository: content items are
drafted, classified, queued for approval, put into a weekly calendar, published through Buffer
and retried; trend signals from CaptureOS arrive over HTTP and become drafts. Paths below are
relative to the repository; `app/…` is `src/app/…` here.

## 1. Inventory

| Part | State | Operations | Talks to |
| --- | --- | --- | --- |
| Policy engine `app/policy/` | none (config) | `evaluate`, `authorise_publication`, text scans | called by the run and by publication |
| Approval queue `app/approval/queue.py`, `scripts/approve.py` | `approvals`, `content_items.approval_status` | `request_approval`, `auto_approve` (run), `decide` (people) | whole-row `save_item` |
| Content store `app/content/` | `content_items`, `platform_variants`, `content_evidence` | `next_content_id`, `save_item`, `save_variants`, `link_claim` | everybody |
| Publication service `app/publisher/service.py` | `publications`, `publication_events`, `lifecycle_status` | `publish_variant`, `retryable_publications` | policy engine, publisher |
| Publisher adapters `app/publisher/{base,buffer}.py` | none | `publish`, `fetch_metrics`, `delete_post` | Buffer (external) |
| Daily run `app/pipeline.py`, `app/daily_run.py` | one transaction, `runs` | convert, prepare, plan, publish, retry, metrics | all of the above |
| Calendar `app/calendar/planner.py` | `schedule_slots` | `plan_week`, `fill_slots`, `persist` | daily run |
| Capture bridge `app/capture_bridge.py`, `app/capture_http.py`, `receiver/src/index.ts` | `marketing_events`, new `content_items` | intake, conversion | CaptureOS (HTTP), daily run |
| Platform adapters `app/platforms/adapters.py` | none | `build_all`, `enforce_style` | daily run |
| AI drafting `app/ai/drafting.py` | budget of a run, `ai_usage` | `improve`, `apply_draft` | daily run, a model (external) |
| Evidence `app/content/evidence.py` | `evidence_records`, `content_evidence` | `record_evidence`, `link_claim`, `evidence_for` | people, daily run |
| Metrics `app/metrics/collector.py` | `post_metrics` | `collect`, `metrics_between` | Buffer, daily run, weekly report |
| Weekly report `app/reports/weekly.py` | none | `build` | reads the tables |
| Contract capture `scripts/capture_fixtures.py` | `tests/fixtures` | `--execute`, `--metrics-only` | Buffer; run by a developer |
| Media library, configuration, clock, database | `media_assets`, `config/*.yaml` | use counting, loading, `transaction` | daily run |

What is hard: three kinds of transactions (people, HTTP requests, the run) meet at PostgreSQL's
READ COMMITTED, where read-then-write sequences interleave and `save_item` writes back whole
rows that were read earlier; the run is **one** transaction of up to twenty minutes around calls
to a provider that cannot be rolled back; replies get lost, runs are killed, requests are
repeated; the operating mode changes between the decision and its use; the copy of an item is
generated, perhaps by a model, next to the approval of that item; and the provider's account is
shared with a developer's tool and with people.

`PROJECT.json` lists every part with its status, and each hazard at its line.

## 2. Modules

| Module | Models | Extends / refines |
| --- | --- | --- |
| `PolicyEngine` | `policy/engine.py` as operators: `Evaluate`, `RequiresApproval`, `Authorised` | – |
| `ApprovalQueue` | items, approvals, deciders, the run's `_prepare_content` and commit | extends `PolicyEngine` |
| `Publisher` | the possible answers of `SocialPublisher.publish` and what happened at Buffer | – |
| `DailyRun` | the run end to end: prepare, publish due slots, retry, commit, crash | extends `ApprovalQueue`, `Publisher`; refines `PostOnce` |
| `PostOnce` | abstract: a variant is posted once, recorded only if posted, for good | – |
| `Preparation` | one item from its text to the wire: templates, a drafting model and its budget, evidence, evaluation, approval, publication | extends `PolicyEngine` |
| `BufferAccount` | the account at Buffer, what `createPost` may reply, and how `buffer.py` reads it | extends `Publisher` |
| `Metrics` | recorded publications, the collection of their figures, the report's window and sums | extends `BufferAccount` |
| `ContractCapture` | `capture_fixtures.py` | extends `BufferAccount` |
| `BufferUse` | one account with the engine, the capture tool and people at work on it | extends `Metrics`, `ContractCapture` |
| `CalendarPlanner` | the week's slots filled, stored and published over repeated runs | – |
| `CaptureIntake` | the Worker, its Python fallback and the run's conversion as transactions | refines `DraftOnce` |
| `DraftOnce` | abstract: an event gets one draft of its own and keeps it | – |
| `FiniteSums` | lemmas on sums over finite sets, for `Metrics` | – |
| `MC…` | instances for TLC | |
| `…_proofs` | theorems | |

Operators marked *Seeded bug* are the mutants of `PROJECT.json`: changed forms of the definition
that follows them, used only to show that the runs notice the change.

### How state and actions correspond to the code

**PolicyEngine.** An item is a record of the columns `evaluate` reads and of what the scans of
`restricted.py` find in its text. `BlockingCodes` is the list of blocking reasons, `HumanNeeded`
is `_requires_approval` mode by mode, `Authorised` is `authorise_publication` not raising.

**Preparation.** A text is the set of marks that a scan for it would find (a claim category, a
restricted term, a prohibited phrase, filler), so `Template` says which parts of an item a platform's
template draws on, `Rewritten` is `apply_draft`, and `Outbound` is `_outbound_fields`: the item's own
text stays in it whatever a model made of the body. `subject` is the item, which nothing changes;
`tables` are its committed rows and `own` the same rows as the run's transaction sees them. One run
is `StartRun` (`build_all` and the loop's start), `Improve` for each new variant, `Prepare` (the rest
of `_prepare_content`), then `Send`, `Answered` and `PassOver` for the variants that hold a slot or
are retried (any of those the tables allow: the calendar and the retry rules are elsewhere), and
`Commit` or `Abort`. `wire` is the platform whose publish call is under way: the safety properties
speak of it, because that is where copy leaves the system; `asDraft` says whether the call creates a
draft at the provider or a post, which `publish_variant` decides from a fresh evaluation in the mode of
the run and from `default_create_as_draft` (`drafts` of a configuration). Meanwhile people record and
link evidence; between runs they decide, and the operator changes the configuration. `shown` is
history: the copy there was to look at when the item was approved.
Here decisions fall between runs; `ApprovalQueue` has those that fall within one.

An approval outlives the mode it was given in: in MODE_1 a run still sends an item that a rule has
approved in MODE_2 or MODE_3, because `authorise_publication` asks only whether the status reads APPROVED.
"Everything waits for a human" (`README.md:121`) is then kept by the provider's half of the control
alone: the evaluation requires approval, so the item is created as a draft (`service.py:117-123`).
`UnattendedIsRoutine` is stated so, of what is posted outright and in the mode of the run that sends it.
It does not say that such a draft is ever looked at.

**ApprovalQueue.** `items` and `approvals` are the committed tables. The run has its own view:
`object` is the `ContentItem` of each row its one SELECT returned, `mine`/`wrote` the rows it has
written and locks, `inserted` the approvals rows it has added. `PrepareItem` is one iteration of
the loop of `_prepare_content`, with its four branches. A person's `decide` is cut in three where
another commit can fall: `SelectPending`, `UpdateRow` (which waits for the row lock and then loads
the item), `CommitDecision` (whose `save_item` waits for the run's lock). `granted` is history:
who has committed an approval. Items exist from the start; their arrival is `CaptureIntake`'s.
What the policy engine sees of an item may differ from run to run, because copy is built later or by a
model and the operator edits pillars and phrase lists: `Looks` is what it may be, `seen` what it is in
this run. Only `approval_requirement` never changes. So an item that waits for a decision may be found
blocked: the run then saves the whole row as it read it, PENDING_APPROVAL included, over a decision that
was committed meanwhile, and the request of that item is closed. `PendingIsDecidable` says how far this
goes: such an item is marked BLOCKED, and the run that finds it unblocked queues it again.

**DailyRun** adds `publications` (`pubs`; `attempts = 0` is "no row"), how many SUBMITTED events
(`submitted`) and how many other results (`outcomes`) `publication_events` holds of a variant, the
run's uncommitted versions of these, the due slots, the retry list, and `posts`, what exists at the
provider. An attempt leaves two events, that of the request and that of the result; a result of
status QUEUED (nothing was transmitted, because publishing is disabled) is recorded as SUBMITTED once
more (`service.py:167-173`), so the trail has more SUBMITTED events than attempts. `Submit` is `publish_variant` up to the call, `ProviderAnswers` the rest of
it including the lifecycle update and its whole-row `save_item`; `Abort(created)` is the run dying,
during a call with or without the post having been created. The calendar is abstracted to its
outcome: any set of approved candidates' variants may be due today, which includes what
`assert_publishable` leaves out. One slot per variant and day is exact: the cadence's
18 hours between posts on one platform rule out two.

**BufferAccount** refines what `Publisher` states as a table. A `Reply` is what the HTTP client gives
back: raised or not, GraphQL errors with or without a client code, the `MutationError` arm, and the
post with its id, status and `sentAt`. `Receipts` are the replies Buffer may give for a post in some
state, with errors beside a post, with no id, and with a status nobody has documented; `ResultOf` is
`publish` from there on. Whether `saveToDraft` is honoured is the constant `HonoursDraft`, because the
capture tool exists to find out; `born` is history: what each post was when it was made.

**Metrics.** `PublishPost` and `PublishNothing` are one `publish_variant` against the account, in a run
that commits or does not; `Collect` is `collect`, with an answer for any of the rows it asks about, and
may be repeated on a day; `seen` stands for all counters of a post. `MetricsBetween`, `Bucket` and
`ByPillar` are the report's queries as of today.

**ContractCapture.** `CreateTest` is `--execute` up to the fixture, with its three ways to give up;
`DeleteTest` and `KeepTest` are the clean-up and, in `Finish`, the optional metrics query that follows
it; `ReadMetrics` is `--metrics-only`. `removed` and `saidDeleted` are what the tool asked for and what
it told its user.

**CalendarPlanner** is the calendar by itself. `StartRun` is `plan_week` and the read of the
candidates, in any order; `FillSlot` is one iteration of `fill_slots`, on the earliest slot left;
`Outcomes` is `_choose`, where the one duplicate that `find_duplicate_variant` returns is any of
them; `PublishAndCommit` is `persist`, the publication of today's slots, the retries and the commit.
The counters `week_total`, `per_day`, `assigned_date`, `last_post_on_platform` are read off the slots
filled so far. A body is its fingerprint and whether it is long enough; publications are live, failed
or absent. The module shows what the calendar does *not* promise, too: every run plans the whole
week again, an item that is live stays a candidate, and only the plan, never the posts, is held to
the ceilings and to one day per item.

**CaptureIntake.** A transaction is a record with its stage, what it has chosen, and the rows it
has written and locks. Inserting a key or updating a row another open transaction has written
waits for that transaction; then an INSERT of a key that is there fails. `Probe` is the lookup in
`save_item`, which the Worker does not make: it always inserts. `Pending` are events that were
recorded without being converted (`intake` is a function of its own). `told` is what 200 answers
have told the sender, 0 for a null content id: `NotConvertible` is the fallback answering 200 for an
event whose row turned out to be somebody else's rejection.

## 3. Runs

Passing:

| Run | Question | Instance |
| --- | --- | --- |
| `preparation` | what may reach the wire: publishable, evidenced, posted outright only as the mode allows, as it was approved, within budget; copy without a model | 7 items, 3 platforms, 4 configurations, 2 model calls, 1 rollback, fair runs |
| `queue` | one open request; pending items can be decided on; rejections settle | 1 item, blocked in some runs, 2 deciders, 1 rollback, every mode |
| `daily` | rows, trail, lifecycle and approval agree | 1 item with 2 variants, a crash, publishing disabled for some calls |
| `daily_gate` | approvals have authority, no post before a person's approval, failures are resolved, no second post of a known one: refinement of `PostOnce` | a trend draft, blocked in some runs, next to a company claim, 2 modes, every answer of Buffer, retries, a crash, fair runs |
| `buffer_account` | rows are of real posts, figures counted once, the capture tool neither deletes nor records what it should not | 2 posts, 2 variants, 3 days, 1 capture, `saveToDraft` ignored |
| `planner` | ceilings, one day per item, honest skips, editor's order | 6 slots on 3 days, 2 platforms, 3 items, runs on 2 days |
| `capture` | drafts and events name each other, repeats are told the same; refinement of `DraftOnce` | 3 requests at the Worker, 2 events, repeats and failures |
| `capture_all` | rejected stays out; pending events get drafts | Worker, fallback and run at once, fair |

Runs that show a disagreement between the code and what a comment or document says
(`findings` in `PROJECT.json` quotes each line):

| Run | What TLC finds |
| --- | --- |
| `daily_crash` | a run that dies after the provider took the post posts again next time |
| `daily_rejected` | an auto-approved item rejected since is still submitted |
| `queue_decided_twice` | of two people deciding at once the second overwrites the first |
| `capture_shared` | `save_item` overwrites another event's draft after a number collision |

### Bounds

`MaxRequests` stops decisions on an item once it has more rows than that: two rounds through the
queue show every way a request, a decision and a rollback can overlap, and later rounds repeat
them. `MaxAborts` is one: what a rollback undoes does not depend on earlier ones. `AttemptsCap` is
above `MaxAttempts`, the only value attempts are compared with; in `daily` the first attempt is the last
that the retry step would take, so that what failed is tried again by slots, and `daily_gate` has the
retries. The events of an attempt are counted as long as the attempt is. `PostsCap` is 2, enough to tell
one post from more. `MaxNumber` is above the numbers the events of the instance can take where
drafts are counted. In `planner` the grid is small, but every reason to skip a slot occurs, and the runs of two days
write over each other's plans (`Days`). In `preparation` each item of `Subjects` differs from a routine one in one thing
the engine looks at, `Configs` are four configurations that differ in mode, style rules, drafting and in
whether everything goes to the provider as a draft, and two paid calls that may cost more than estimated reach the budget's limit from both sides;
`EvidenceIds` holds a record and a content id. In `buffer_account` two posts and two variants are
enough for a row to point at another's post, three days (`MaxNow`) for a sample to leave the window of
`Lookback`, and one test draft (`MaxTests`) meets every way of the account; `MaxSeen` tells a figure
from none. `HonoursDraft` is FALSE there: every behaviour with an honoured flag is one of those, too.
`ConfigModes` are the modes the operator switches between. Two deciders are
enough for every race on a row; a third could only repeat one.

### Fairness

`DailyRun!RFairSpec`: weak fairness of the run's steps. The workflow starts a run every day, its
concurrency group lets one run at a time, and each call returns (Buffer's client has a timeout).
Rollbacks are bounded by `MaxAborts`. People and the operator are never assumed to act.
`Preparation!FairSpec`: the same for its runs, whose rollbacks are bounded by `MaxAborts`; that copy
appears is promised only if house style is satisfied from some time on.
`CaptureIntake!FairSpec`: requests and runs go on by themselves, with strong fairness, because
PostgreSQL serves the waiters of a row in their order, so that requests that keep failing cannot keep
another one waiting for ever; and the run itself fails only finitely often. With weak fairness
instead, TLC shows the run starving behind a request that fails and is repeated.

## 4. Proofs

All for any values of the constants under the named assumptions `ConfigAssumption`,
`QueueAssumption`, `RunAssumption`, `PlannerAssumption`, `PreparationAssumption`,
`AccountAssumption`, `MetricsAssumption` (the posts that can exist are finitely many, so that their
figures have a sum) and `CaptureAssumption`.

Where a run shows a property violated, a theorem says how much of it holds: under a condition that names
the overlap or the fault, so that there is no other way to lose it, or in a weaker form. These are
`DecidedOnceApart` and `DecidedOnceApartInTheRun` for `queue_decided_twice`, `PostsOnceWithoutFaults`
for `daily_crash`, `RejectionsStand` for `daily_rejected`, and the `Undisturbed…` theorems for
`capture_shared`.

- `PolicyEngine_proofs`: `PolicyFailsClosed`, `PolicyUnattendedIsRoutine`,
  `PolicyStricterModesClearLess`, by cases on the blocking codes and modes.
- `Preparation_proofs`: seven invariants from one inductive invariant, `IInv`: the committed rows and
  those of the run satisfy `TablesOK` (copy exists only for platforms the item gets, written by its
  template or rewritten from it; what was shown at an approval is still there), linked ids are of
  acceptable records (`RecordsOK`), and what is on the wire is what an evaluation cleared (`RunOK`).
  `WireFailsClosed`, `WireIsEvidenced`, `ApprovedIsSent` read it off at the moment of `Send`, and so does
  `WireIsAttended`: a call that creates no draft is one whose fresh evaluation requires no approval,
  and `PolicyUnattendedIsRoutine` says what that takes in each mode; `ModelsOnlyTighten` rests on `Outbound` keeping the item's own text; `BudgetIsKept` is
  inductive by itself.
- `ApprovalQueue_proofs`: `TypeCorrect`, and `ApprovalsAreReal`. `ApprovalHasAuthority` is not
  inductive: a run commits rows it wrote from objects read before. `AuthorityInv` adds that an
  APPROVED in the run's objects and uncommitted rows is backed by an approval that is committed or
  that the run will commit with it. `NeverQueuedTwice` needs the rows the run has yet to commit
  (`OpenInv`: no item has an open row both in `approvals` and in `inserted`); `PendingCanBeDecided`
  (`PendingInv`) that what the run writes back as pending it has queued itself or marked BLOCKED, that an
  item it has yet to evaluate is not written, and that it never holds a rejected one; what is seen of the
  items may change with every run. `RejectionsSettle` uses of `OpenInv` that the run adds rows only for items
  whose row it holds. `DecidedOnceApart`: as long as no two people have the same item open at once
  (`Apart`), what a command has selected is still open when it writes (`HoldsOpen`), so the
  `UPDATE … WHERE approval_id` never meets a row that was decided on.
- `DailyRun_proofs`: `RunTypeCorrect`; `HumanGateHolds` from `HumanGateInv` (`AuthorityInv`, and
  `CallInv`: a call under way carries an item that was cleared when it was submitted);
  `LiveRowsAreReal` and `LiveRowsStay` from `RecordInv` (a call is never under way for a live
  variant; what the run holds as live is posted; the run holds every live row unchanged);
  `KnownIsNotReposted`, the refinement of `PostOnce` under every fault, from the same invariant; and
  `PostsOnceWithoutFaults`, no second post at all, from `KnownInv` (the run knows every post), under
  `MaxAborts = 0` and no lost reply. Neither can be dropped: `daily_crash` shows it of the first, and a
  lost reply is recorded as a retryable failure, which the retry step of the same run posts again.
  `AttemptsAreAudited` comes from `AuditInv` (in the run, only a call under way is ahead of its row, by the
  SUBMITTED event of its request) and
  `PublishedItemsAreWhole` from `WholeInv` (every object that may be written back, of the run or of a
  decider, says PUBLISHED only of what the tables it will be written to have live; this rests on live
  rows staying as they are).
  `ApprovalsAreRealInTheRun`, `NeverQueuedTwiceInTheRun`, `PendingCanBeDecidedInTheRun` and
  `DecidedOnceApartInTheRun` state the properties of the queue of the whole run, which writes items
  back after every call; they rest on `GateInvariant` and on lemmas that publication touches neither
  `approvals` nor the status in what it writes back. `RejectionsStand` is the part of the promise of
  `authorise_publication` that holds: `AtRest(i)` says that a rejection is committed, that no request is
  open and no decision under way, and that neither the run's objects nor the call carry the item as it
  was before; then nothing in the system leaves that state, and of an item that only a person may
  release no other post is sent, by no slot and no retry. Of an item a rule may release, one is:
  `daily_rejected`.
  `ApprovalsSurvive` holds for any number of deciders, from `SettledInv`: what a run publishes had been
  decided on when the run read it, and whatever was written over it since is decided, too; so an item
  with an attempt on record reads APPROVED or REJECTED, whichever stale row is written last. The
  converse does not hold, not even with one decider: a REJECTED that is committed while a call is under
  way is overwritten, when the run commits, by the object the run submitted, which reads APPROVED.
- `BufferUse_proofs`: `AnswersCovered` shows that `Publisher!BufferAnswers`, which `DailyRun` is
  checked with, covers every reply on the wire. `RowsAreReal`, `FiguresAreReal`,
  `CapturesCleanUpSafely`, `FixturesAreEvidence` and `DeletedNeverGoesOut` come from invariants that
  relate `born` to the account (a post that was sent when it was made is sent or deleted for ever),
  each by one step per action of the three users and of the account. `ReportedOnce` is about sums: the
  report adds up, by pillar, what the newest samples in the window say, and that is no more than what
  the posts were seen. It needs that figures of a post do not shrink from one sample to the next
  (`SeriesGrow`), that the newest sample of a publication is one, and that different publications are of
  different posts (`RecordedIsReal`); then the samples of the report map one to one to posts, and
  `FiniteSums` does the rest.
- `FiniteSums`: what the fold `SumFunction` yields on a finite set (empty, one element taken out, parts,
  injective maps, groups), shown for every finite set by way of a smallest counterexample: finite
  subsets are well-founded under inclusion (`SmallestSubset`), and a sequence of additions (`Adds`)
  witnesses each fold.
- `CaptureIntake_proofs`: `CaptureTypes` with `NumberInv` (a transaction that needs a content number
  has one). `RejectedNeverEnters` holds for the Worker, the fallback and the run together, from
  `KeptInv`: whatever a transaction has set out to convert, holds, or has queued is accepted or
  converted, or is a row of its own INSERT. The `Undisturbed…` theorems hold for every mix of the three,
  too, with any events pending, under `Undisturbed`: the number that a transaction looks up in
  `save_item` is still free, and no two of them are converting the same pending event. Then drafts and
  events name each other, no two events share a draft, every answer names the draft there is, and
  requests and runs together implement `DraftOnce`, a run with all its events in one `Convert`. The
  inductive invariant is `LinkInv`: whoever holds an event holds the number it goes with, or is about
  to, nobody else holds either, and a row in the tables that is accepted without a draft was pending; and a null answer was given for
  rejected events only (`NullIsRejected`), which are never converted.
  Neither condition can be dropped (`capture_shared` shows it of the first one; of the second TLC finds that a request
  at the Worker for an event that the run is converting gives it a second draft). Where the Worker's
  requests are all there is and nothing is pending (`WorkerAlone`) both hold by themselves
  (`WorkerUndisturbed`), which leaves `WorkerKeepsLinks`, `WorkerTellsTheSame` and `WorkerDraftsOnce`
  without a condition on the behaviour.
- `CalendarPlanner_proofs`: `PlannerTypeCorrect`; `ItemsKeepTheirDay` from `DayInv`: `OneDayPerItem`
  is about the stored week, which a run overwrites as a whole, so the slots the run is filling must
  keep an item to one day as well. A slot is filled only with a candidate whose earlier slots are
  of that day (`Considered`). `CalendarKeepsCeilings` comes from `CeilingInv`, the ceilings of the week
  as far as it is filled; `SkipsHaveReasons` and `EditorDecides` from `ChoiceInv`: what is true of a
  slot when the run comes to it stays true of it in the finished plan, because what is filled later
  is neither earlier nor on an earlier day (`RunInv`, and the order that `PlannerAssumption` asks of
  the grid and the platforms).

Only model-checked: liveness (`FailedIsResolved`, `RunsConvert`, `TemplatesStand`), which is out of the
prover's reach. `FailedIsResolved` is checked with the answers of Buffer: a retryable failure is
published, refused for good or out of attempts in the end, unless a person rejects the item or a run
finds it blocked. With publishing disabled between a failure and its retry it does not hold, because the
row turns QUEUED and `retryable_publications` selects FAILED rows only (`service.py:205`). Every other property of a passing run is a theorem. The other way round,
`RejectionsStand` is stated in the proofs only, because no run asserts it; TLC was used to find out that
it holds, and that a rejection at rest whose post failed before is indeed met by the retry step.

## 5. Not modelled

- Wording: the text that templates write, prompts, length limits, the layout of reports and
  fixtures, and their redaction. Where a property is about text (`Preparation`), text is what its scans
  find.
- The media library: nothing in the engine attaches media to a variant, so `assert_publishable` and
  `record_use` are never reached from a run, and an item that asks for media stays blocked for want of
  it (`PolicyEngine!Codes`, `View` in `Preparation`).
- Types of figures: one counter stands for impressions, reach and reactions; rates are left out.
- Loading of configuration, authentication and size checks of the HTTP endpoints (they change no
  state), SQLite (tests and local development only).
- Two daily runs at once: excluded by the concurrency group; a run started by hand on another machine
  is outside the models.
- What the weekly report says of slots: `posts_published` counts the slots of the plan, not posts
  (`weekly.py:60`), which the calendar's module shows to differ.

## 6. Plan

1. `CalendarPlanner` over two weeks, with a statement of what a published item may still claim (today
   it stays a candidate and can keep a newer one out of its lane); then composed with `DailyRun` in
   place of its abstract slots.
2. `Preparation` composed with the interleavings of `ApprovalQueue`, so that copy and decisions change
   within one run.
3. Proofs: a condition weaker than `Apart` under which decisions stay (an overlap is harmless unless
   both commands find the request open); the budget of a run with several items; what
   `CalendarPlanner` keeps over two weeks once it is modelled.
