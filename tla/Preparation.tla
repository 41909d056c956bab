------------------------------ MODULE Preparation ------------------------------
(***************************************************************************)
(* One content item from its text to the wire: the copy that the templates *)
(* (app/platforms/adapters.py) and a drafting model (app/ai/drafting.py)   *)
(* write for it, the evidence behind its claims (app/content/evidence.py), *)
(* and the daily run that evaluates all of it, approves or queues it and   *)
(* publishes it (pipeline._prepare_content, _publish_due, _retry_failed).  *)
(*                                                                         *)
(* A text is the set of marks that a scan for it would find.  Which        *)
(* variants hold a slot of today, and which failed publications are due    *)
(* for a retry, is any choice the tables allow: CalendarPlanner and        *)
(* DailyRun have the rules, ApprovalQueue has decisions made during a run. *)
(***************************************************************************)
EXTENDS PolicyEngine, Naturals

CONSTANTS
    Platforms,      \* names of config/platforms.yaml
    MediaFirst,     \* platforms with requires_media
    Reads,          \* the parts of an item's text that a platform's template draws on
    CommentTags,    \* platforms whose hashtags go into the first comment
    TagMarks,       \* what the hashtags of a pillar contain
    ModelTexts,     \* texts a drafting model may return
    MaxCalls,       \* ai.budget.max_calls_per_run
    MaxCost,        \* ai.budget.max_cost_usd_per_run, 0 for no limit
    Estimate,       \* max_cost_usd of the task "draft"
    Costs,          \* what a call may turn out to cost
    EvidenceIds,    \* ids under which evidence is recorded or linked
    ItemIds,        \* those of them that are content ids (MKT-...)
    Kinds,          \* kinds of evidence people offer
    AcceptedKinds,  \* evidence.accepted_kinds of config/policy.yaml
    Subjects,       \* bound: the items considered
    Configs,        \* bound: the configurations the operator switches between
    MaxAborts       \* bound: runs that are rolled back

\* What a scan of a text can find: the claim categories, a term of
\* block_publication, a prohibited phrase, and what house style forbids.
Marks == Categories \cup {"RESTRICTED", "PROHIBITED", "UNSTYLED"}

\* first and rest are core_message, cut after its first sentence.
Parts == {"topic", "first", "rest", "cta"}

Subject == [class : Classes \cup {Unclassified, UnknownClass}, requirement : Requirements,
            pillar : Pillars, text : [Parts -> SUBSET Marks], media : BOOLEAN]

\* mode: policy.operating_mode.  strict: the forbid lists of style cover UNSTYLED.
\* ai: ai.enabled, and a provider is registered for the task.  drafts:
\* publisher.default_create_as_draft.
Config == [mode : Modes, strict : BOOLEAN, ai : BOOLEAN, drafts : BOOLEAN]

GeneratedKinds == {"GENERATED", "AI_OUTPUT", "DRAFT_COPY", "CONTENT_ITEM", "MODEL_RESPONSE"}

ASSUME PreparationAssumption ==
    /\ MediaFirst \subseteq Platforms /\ CommentTags \subseteq Platforms
    /\ Reads \in [Platforms -> SUBSET Parts]
    /\ TagMarks \in [Pillars -> SUBSET Marks]
    /\ ModelTexts \subseteq SUBSET Marks
    /\ MaxCalls \in Nat /\ MaxCost \in Nat /\ Estimate \in Nat /\ Costs \subseteq Nat
    /\ ItemIds \subseteq EvidenceIds
    /\ Subjects \subseteq Subject /\ Configs \subseteq Config
    /\ MaxAborts \in Nat

VARIABLES
    subject,   \* the item: what nothing changes after it was created
    config,    \* the checked-out configuration
    records,   \* evidence_records: the kind of each record
    links,     \* content_evidence: ids linked to a claim of the item
    tables,    \* the rows of the item in content_items, approvals and platform_variants
    phase,     \* where the run is, "idle" between runs
    own,       \* those rows as the run's transaction sees them
    todo,      \* platforms still to be improved, later still to be published
    calls,     \* Budget of the run
    spent,
    wire,      \* the platform a publish call is under way for
    asDraft,   \* whether that call creates a draft at the provider, not a post
    aborts     \* how many runs were rolled back

operatorVars == <<config, records, links>>
runVars      == <<phase, own, todo, calls, spent, wire, asDraft>>
vars         == <<subject, operatorVars, tables, runVars, aborts>>

\* A platform_variants row: extra is what stays when the body is replaced (cta,
\* hashtags, first comment).  No writer stands for no row.
Variant   == [body : SUBSET Marks, extra : SUBSET Marks, writer : {"none", "template", "model"}]
NoVariant == [body |-> {}, extra |-> {}, writer |-> "none"]
Copies    == [Platforms -> Variant]
NoCopy    == [p \in Platforms |-> NoVariant]

Made(copy) == {p \in Platforms : copy[p].writer # "none"}

\* The item's row and its open request.  shown is history: the copy there was to
\* look at when the item was approved last.
Row == [status : ApprovalStatuses, open : BOOLEAN, shown : Copies]

FreshRow == [status |-> "DRAFT", open |-> FALSE, shown |-> NoCopy]

\* attempted: variants with a publications row, some of which may be retryable.
Tables == [row : Row, copy : Copies, attempted : SUBSET Platforms]

NoKind == "NO_RECORD"

Init ==
    /\ subject \in Subjects
    /\ config \in Configs
    /\ records = [e \in EvidenceIds |-> NoKind]
    /\ links = {}
    /\ tables = [row |-> FreshRow, copy |-> NoCopy, attempted |-> {}]
    /\ phase = "idle" /\ own = tables /\ todo = {}
    /\ calls = 0 /\ spent = 0 /\ wire = {} /\ asDraft = FALSE
    /\ aborts = 0
-------------------------------------------------------------------------------
\* The operator edits the files under config/; a run loads them when it starts.
ChangeConfig(c) ==
    /\ phase = "idle" /\ c # config
    /\ config' = c
    /\ UNCHANGED <<subject, records, links, tables, runVars, aborts>>

\* Seeded bug: only the configured list of accepted kinds is consulted.
RecordAnyAccepted(e, kind) ==
    /\ kind \in AcceptedKinds
    /\ records[e] = NoKind
    /\ records' = [records EXCEPT ![e] = kind]
    /\ UNCHANGED <<subject, config, links, tables, runVars, aborts>>

\* record_evidence; an id that is already on record is returned as it is.
RecordEvidence(e, kind) ==
    /\ kind \notin GeneratedKinds /\ kind \in AcceptedKinds
    /\ records[e] = NoKind
    /\ records' = [records EXCEPT ![e] = kind]
    /\ UNCHANGED <<subject, config, links, tables, runVars, aborts>>

\* link_claim; evaluate asks only whether anything is linked, so one claim will do.
LinkClaim(e) ==
    /\ e \notin ItemIds /\ records[e] # NoKind
    /\ e \notin links
    /\ links' = links \cup {e}
    /\ UNCHANGED <<subject, config, records, tables, runVars, aborts>>

\* What a decision makes of the row; an approval is of the copy that is there.
Decided(row, verdict, copy) ==
    IF verdict = "APPROVED"
      THEN [row EXCEPT !.status = "APPROVED", !.open = FALSE, !.shown = copy]
      ELSE [row EXCEPT !.status = "REJECTED", !.open = FALSE]

\* queue.decide between two runs: a person acts on the open request.
Decide(verdict) ==
    /\ phase = "idle" /\ tables.row.open
    /\ tables' = [tables EXCEPT !.row = Decided(tables.row, verdict, tables.copy)]
    /\ UNCHANGED <<subject, operatorVars, runVars, aborts>>
-------------------------------------------------------------------------------
\* _platforms_for: a visual platform only for items that ask for media.
PlatformsFor(s) == {p \in Platforms : p \in MediaFirst => s.media}

PartsOf(s, parts) == UNION {s.text[part] : part \in parts}

\* What _linkedin, _facebook or _instagram make of the item.
Template(s, p) ==
    [body   |-> PartsOf(s, Reads[p]) \cup (IF p \in CommentTags THEN {} ELSE TagMarks[s.pillar]),
     extra  |-> s.text["cta"] \cup TagMarks[s.pillar],
     writer |-> "template"]

Templates(s) == [p \in Platforms |-> IF p \in PlatformsFor(s) THEN Template(s, p) ELSE NoVariant]

\* build_all returns: enforce_style raises for none of the variants.
StyleHolds(s, c) ==
    \A p \in PlatformsFor(s) :
        c.strict => "UNSTYLED" \notin Template(s, p).body \cup Template(s, p).extra

Selected == tables.row.status \in {"DRAFT", "PENDING_APPROVAL", "APPROVED"}

\* Seeded bugs: copy is built anew in each run; a style failure is never tried again.
BuildsAnew == Selected /\ StyleHolds(subject, config)

BuildsOnce == Selected /\ Made(tables.copy) = {} /\ StyleHolds(subject, config)
                       /\ tables.row.status = "DRAFT"

\* An item that has no copy yet gets it, unless build_all raises.
Builds == Selected /\ Made(tables.copy) = {} /\ StyleHolds(subject, config)

\* run_daily begins, with a Budget of its own.
StartRun ==
    /\ phase = "idle"
    /\ phase' = "draft"
    /\ own' = IF Builds THEN [tables EXCEPT !.copy = Templates(subject)] ELSE tables
    /\ todo' = IF Builds THEN PlatformsFor(subject) ELSE {}
    /\ UNCHANGED <<subject, operatorVars, tables, calls, spent, wire, asDraft, aborts>>

\* Seeded bug: the estimate is not held against what is left.
CanSpendSomething == calls < MaxCalls /\ (MaxCost = 0 \/ spent <= MaxCost)

CanSpend == calls < MaxCalls /\ (MaxCost = 0 \/ spent + Estimate <= MaxCost)

\* The template stands: drafting is disabled or over budget, the provider is
\* unknown or raises.  None of that counts against the budget.
KeepTemplate == UNCHANGED <<own, calls, spent>>

\* apply_draft: the body is replaced, and nothing else.
Rewritten(copy, p, text) ==
    [copy EXCEPT ![p] = [body |-> text, extra |-> copy[p].extra, writer |-> "model"]]

\* The provider answers.  An empty text leaves the template, but was paid for.
Redraft(p, cost) ==
    /\ config.ai /\ CanSpend
    /\ calls' = calls + 1 /\ spent' = spent + cost
    /\ \/ UNCHANGED own
       \/ \E text \in ModelTexts :
             own' = [own EXCEPT !.copy = Rewritten(own.copy, p, text)]

\* improve and apply_draft, for one of the new variants.
Improve(p) ==
    /\ phase = "draft" /\ p \in todo
    /\ todo' = todo \ {p}
    /\ KeepTemplate \/ \E cost \in Costs : Redraft(p, cost)
    /\ UNCHANGED <<subject, operatorVars, tables, phase, wire, asDraft, aborts>>
-------------------------------------------------------------------------------
\* Seeded bug: once there is copy, the item's own text is not scanned.
OutboundOfCopy(s, copy) ==
    (IF Made(copy) = {} THEN PartsOf(s, Parts) ELSE {})
      \cup UNION {copy[p].body \cup copy[p].extra : p \in Platforms}

\* _outbound_fields: the item's own text and every field of every variant.
Outbound(s, copy) ==
    PartsOf(s, Parts) \cup UNION {copy[p].body \cup copy[p].extra : p \in Platforms}

\* What the policy engine sees; nothing in the code attaches media to a variant.
View(s, copy) ==
    [class       |-> s.class,
     requirement |-> s.requirement,
     pillar      |-> s.pillar,
     restricted  |-> "RESTRICTED" \in Outbound(s, copy),
     sensitive   |-> Outbound(s, copy) \cap Categories,
     prohibited  |-> "PROHIBITED" \in Outbound(s, copy),
     bareMedia   |-> Made(copy) \cap MediaFirst # {}]

\* Seeded bug: the item is judged by its templates, whoever wrote the copy.
DecisionOnTemplates(copy) == Evaluate(View(subject, Templates(subject)), links # {}, config.mode)

DecisionOn(copy) == Evaluate(View(subject, copy), links # {}, config.mode)

Decision == DecisionOn(own.copy)

Requested(row) == [row EXCEPT !.open = TRUE, !.status = "PENDING_APPROVAL"]

ByRule(row) == [row EXCEPT !.status = "APPROVED", !.shown = own.copy]

RequestApproval ==
    /\ Selected /\ Decision.requires_approval
    /\ own.row.status # "APPROVED"
    /\ own' = IF own.row.open THEN own ELSE [own EXCEPT !.row = Requested(own.row)]

AutoApprove ==
    /\ Selected /\ ~Decision.blocked /\ ~Decision.requires_approval
    /\ subject.requirement = "AUTO_APPROVED"
    /\ own.row.status # "APPROVED"
    /\ own' = [own EXCEPT !.row = ByRule(own.row)]

\* Seeded bug: the block lands in approval_status.
LeaveOrBlock ==
    /\ \/ ~Selected \/ Decision.blocked \/ own.row.status = "APPROVED"
       \/ ~Decision.requires_approval /\ subject.requirement # "AUTO_APPROVED"
    /\ own' = [own EXCEPT !.row.status = IF Decision.blocked THEN "BLOCKED" ELSE @]

\* Not selected, blocked, approved before, or nobody has to approve it.
LeaveAsIs ==
    /\ \/ ~Selected \/ Decision.blocked \/ own.row.status = "APPROVED"
       \/ ~Decision.requires_approval /\ subject.requirement # "AUTO_APPROVED"
    /\ UNCHANGED own

\* fill_slots takes only approved candidates, and of those the variants there are.
SlotsOf(rows) ==
    IF ~Decision.blocked /\ rows.row.status = "APPROVED" THEN Made(rows.copy) ELSE {}

\* The rest of _prepare_content for the item, the calendar and the rows that
\* retryable_publications finds.
Prepare ==
    /\ phase = "draft" /\ todo = {}
    /\ RequestApproval \/ AutoApprove \/ LeaveAsIs
    /\ phase' = "publish"
    /\ todo' \in SUBSET (SlotsOf(own') \cup own.attempted)
    /\ UNCHANGED <<subject, operatorVars, tables, calls, spent, wire, asDraft, aborts>>

\* authorise_publication, on an evaluation with the evidence there is now.
MayPublish == Authorised(Decision, own.row.status, "none")

\* Seeded bug: what has been approved is posted outright.
DraftUnlessApproved ==
    config.drafts \/ (Decision.requires_approval /\ own.row.status # "APPROVED")

\* create_as_draft: what the mode of this run wants a person to look at goes to the
\* provider as a draft, also if it has been approved here.
CreateAsDraft == Decision.requires_approval \/ config.drafts

\* publish_variant raises no objection and calls the publisher, ...
Send(p) ==
    /\ phase = "publish" /\ p \in todo
    /\ MayPublish
    /\ todo' = todo \ {p}
    /\ own' = [own EXCEPT !.attempted = @ \cup {p}]
    /\ phase' = "sending" /\ wire' = {p} /\ asDraft' = CreateAsDraft
    /\ UNCHANGED <<subject, operatorVars, tables, calls, spent, aborts>>

\* ... which answers, one way or the other; or the variant is refused, or is
\* found to be live already.
Answered ==
    /\ phase = "sending"
    /\ phase' = "publish" /\ wire' = {} /\ asDraft' = FALSE
    /\ UNCHANGED <<subject, operatorVars, tables, own, todo, calls, spent, aborts>>

PassOver(p) ==
    /\ phase = "publish" /\ p \in todo
    /\ ~MayPublish \/ p \in own.attempted
    /\ todo' = todo \ {p}
    /\ UNCHANGED <<subject, operatorVars, tables, phase, own, calls, spent, wire, asDraft, aborts>>

EndRun ==
    /\ phase' = "idle" /\ own' = tables' /\ todo' = {}
    /\ calls' = 0 /\ spent' = 0 /\ wire' = {} /\ asDraft' = FALSE
    /\ UNCHANGED <<subject, operatorVars>>

Commit ==
    /\ phase = "publish" /\ todo = {}
    /\ tables' = own
    /\ EndRun /\ UNCHANGED aborts

\* The run is rolled back: an exception, a lost connection, the job timeout.
Abort ==
    /\ phase # "idle" /\ aborts < MaxAborts
    /\ aborts' = aborts + 1
    /\ UNCHANGED tables /\ EndRun

RunStep ==
    \/ StartRun
    \/ \E p \in Platforms : Improve(p)
    \/ Prepare
    \/ \E p \in Platforms : Send(p)
    \/ Answered
    \/ \E p \in Platforms : PassOver(p)
    \/ Commit

OthersStep ==
    \/ \E c \in Configs : ChangeConfig(c)
    \/ \E e \in EvidenceIds, kind \in Kinds : RecordEvidence(e, kind)
    \/ \E e \in EvidenceIds : LinkClaim(e)
    \/ \E verdict \in {"APPROVED", "REJECTED"} : Decide(verdict)

Next == RunStep \/ Abort \/ OthersStep

Spec == Init /\ [][Next]_vars

\* Cron starts a run again and again, and a run that is not rolled back ends.
FairSpec == Spec /\ WF_vars(RunStep)
-------------------------------------------------------------------------------
\* PrepTypeOK: the tables and the run keep the shape their code gives them.
PrepTypeOK ==
    /\ subject \in Subjects /\ config \in Configs
    /\ records \in [EvidenceIds -> Kinds \cup {NoKind}] /\ links \in SUBSET EvidenceIds
    /\ tables \in Tables /\ own \in Tables
    /\ phase \in {"idle", "draft", "publish", "sending"}
    /\ todo \in SUBSET Platforms /\ wire \in SUBSET Platforms
    /\ calls \in Nat /\ spent \in Nat /\ asDraft \in BOOLEAN
    /\ aborts \in 0 .. MaxAborts

SentText(p) == own.copy[p].body \cup own.copy[p].extra

\* FailsClosed: whoever wrote the copy and whoever approved it, what is on the
\* wire is of a publishable class, not marked NEVER_PUBLISH, free of restricted
\* terms and prohibited phrases, and not for a platform that wants media
\* (engine.py:3-14).
FailsClosed ==
    \A p \in wire :
        /\ subject.class \in PublishableClasses
        /\ subject.requirement # "NEVER_PUBLISH"
        /\ SentText(p) \cap {"RESTRICTED", "PROHIBITED"} = {}
        /\ p \notin MediaFirst

\* EvidenceIsIndependent: an item whose pillar or whose text, that of a model
\* included, makes a claim that needs evidence is on the wire only with a record
\* behind it that is neither generated nor a content item (evidence.py:3-10).
EvidenceIsIndependent ==
    wire # {} /\ NeedsEvidence(View(subject, own.copy)) =>
        \E e \in links : /\ e \notin ItemIds
                         /\ records[e] \in AcceptedKinds \ GeneratedKinds

\* UnattendedIsRoutine: what is posted outright, with no draft left for a person to
\* release at the provider, is marked AUTO_APPROVED and of an auto-eligible class and
\* pillar, never in MODE_1 and in MODE_3 only without a sensitive claim in the text
\* there is now (README.md:119-126).  The mode is that of the run that sends it: an
\* approval given by a rule or a person in another mode does not carry over.
UnattendedIsRoutine ==
    wire # {} /\ ~asDraft =>
        /\ subject.requirement = "AUTO_APPROVED" /\ AutoEligible(View(subject, own.copy))
        /\ config.mode # "MODE_1_APPROVAL_REQUIRED"
        /\ config.mode = "MODE_3_MIXED" => View(subject, own.copy).sensitive = {}

\* ApprovedCopyStands: copy that was there when the item was approved is the copy
\* that goes out, word for word, after any number of runs, rolled back or not.
\* (An item can be approved before it has copy; then nobody saw what goes out.)
ApprovedCopyStands ==
    \A p \in wire : p \in Made(own.row.shown) => own.copy[p] = own.row.shown[p]

\* ModelOnlyTightens: no text of a model clears an item that its templates would
\* not clear; "nothing in the drafting layer, and no model, can reach past it"
\* (engine.py:12).
ModelOnlyTightens ==
    Made(own.copy) # {} =>
        \A mode \in Modes, status \in ApprovalStatuses :
            LET Clears(copy) == Authorised(Evaluate(View(subject, copy), links # {}, mode), status, "none")
            IN  Clears(own.copy) => Clears(Templates(subject))

\* BudgetHolds: a run makes no more paid calls than allowed, and what it spends
\* goes over the limit by no more than its last call cost over the estimate.
BudgetHolds ==
    /\ calls <= MaxCalls
    /\ MaxCost # 0 /\ calls > 0 => \E cost \in Costs : spent + Estimate <= MaxCost + cost

\* TemplatesStand: an item that no decision has closed gets its copy once house
\* style stays satisfied, with a model, without one or over budget: the engine
\* "never depends on one being available" (adapters.py:8).
TemplatesStand ==
    <>[]StyleHolds(subject, config)
        => <>(PlatformsFor(subject) \subseteq Made(tables.copy) \/ tables.row.status = "REJECTED")
===============================================================================
