-------------------------- MODULE Preparation_proofs --------------------------
(* What may reach the wire, for every item, configuration, evidence, model   *)
(* and budget.                                                               *)
EXTENDS Preparation, PolicyEngine_proofs

-------------------------------------------------------------------------------
(* The policy as the run uses it.                                            *)

\* authorise_publication, on an item, its copy and what is linked to its claims.
Clears(s, copy, linked, mode, status) ==
    Authorised(Evaluate(View(s, copy), linked, mode), status, "none")

LEMMA ViewIsContent ==
    ASSUME NEW s \in Subjects, NEW copy PROVE View(s, copy) \in Content
<1>1. s \in Subject
  BY PreparationAssumption
<1>2. Outbound(s, copy) \cap Categories \in Hits
  BY DEF Hits
<1>3. QED
  BY <1>1, <1>2 DEF View, Content, Subject

\* Evidence that comes in clears what was cleared before.
LEMMA EvidenceClearsMore ==
    ASSUME NEW s, NEW copy, NEW mode, NEW status, Clears(s, copy, FALSE, mode, status)
    PROVE  Clears(s, copy, TRUE, mode, status)
<1> DEFINE c == View(s, copy)
<1> HIDE DEF c
<1>1. ~Evaluate(c, FALSE, mode).blocked
  BY DEF Clears, Authorised, c
<1>2. BlockingCodes(c, FALSE) = {}
  BY <1>1 DEF Evaluate
<1>3. BlockingCodes(c, TRUE) = {}
  BY <1>2 DEF BlockingCodes, When
<1>4. Evaluate(c, TRUE, mode) = Evaluate(c, FALSE, mode)
  BY <1>2, <1>3 DEF Evaluate
<1>5. QED
  BY <1>4 DEF Clears, c

\* The same variants with more in them clear no more.
LEMMA FewerMarksClearMore ==
    ASSUME NEW s, NEW old, NEW new, NEW linked \in BOOLEAN, NEW mode, NEW status,
           Outbound(s, old) \subseteq Outbound(s, new),
           Made(old) = Made(new),
           Clears(s, new, linked, mode, status)
    PROVE  Clears(s, old, linked, mode, status)
<1> DEFINE o == View(s, old)
           n == View(s, new)
<1>1. /\ o.class = n.class /\ o.requirement = n.requirement /\ o.pillar = n.pillar
      /\ o.restricted => n.restricted
      /\ o.prohibited => n.prohibited
      /\ o.bareMedia => n.bareMedia
      /\ o.sensitive \subseteq n.sensitive
  BY DEF View
<1> HIDE DEF o, n
<1>2. BlockingCodes(n, linked) = {}
  BY DEF Clears, Authorised, Evaluate, n
<1>3. BlockingCodes(o, linked) = {}
  <2>1. ClassificationCodes(o) = ClassificationCodes(n)
    BY <1>1 DEF ClassificationCodes
  <2>2. NeedsEvidence(o) => NeedsEvidence(n)
    BY <1>1 DEF NeedsEvidence
  <2>3. QED
    BY <1>1, <1>2, <2>1, <2>2 DEF BlockingCodes, When
<1>4. HumanNeeded(o, mode) => HumanNeeded(n, mode)
  <2>1. AutoEligible(o) <=> AutoEligible(n)
    BY <1>1 DEF AutoEligible
  <2>2. o.sensitive # {} => n.sensitive # {}
    BY <1>1
  <2>3. QED
    BY <1>1, <2>1, <2>2 DEF HumanNeeded
<1>5. Evaluate(o, linked, mode).requires_approval => Evaluate(n, linked, mode).requires_approval
  BY <1>1, <1>2, <1>3, <1>4 DEF Evaluate, RequiresApproval
<1>6. ~Evaluate(o, linked, mode).blocked
  BY <1>3 DEF Evaluate
<1>7. QED
  BY <1>5, <1>6 DEF Clears, Authorised, o, n

\* What is cleared is clean, of a publishable class and backed by evidence.
LEMMA ClearedIsClean ==
    ASSUME NEW s \in Subjects, NEW copy, NEW linked \in BOOLEAN, NEW mode \in Modes, NEW status,
           Clears(s, copy, linked, mode, status)
    PROVE  /\ s.class \in PublishableClasses
           /\ s.requirement # "NEVER_PUBLISH"
           /\ NeedsEvidence(View(s, copy)) => linked
           /\ "RESTRICTED" \notin Outbound(s, copy) /\ "PROHIBITED" \notin Outbound(s, copy)
           /\ Made(copy) \cap MediaFirst = {}
<1> DEFINE c == View(s, copy)
<1>1. c \in Content
  BY ViewIsContent
<1>2. ~Evaluate(c, linked, mode).blocked
  BY DEF Clears, Authorised
<1>3. /\ c.class \in PublishableClasses /\ c.requirement # "NEVER_PUBLISH"
      /\ NeedsEvidence(c) => linked
  BY <1>1, <1>2, BlockedBy
<1>4. BlockingCodes(c, linked) = {}
  BY <1>2 DEF Evaluate
<1>5. ~c.restricted /\ ~c.prohibited /\ ~c.bareMedia
  <2> HIDE DEF c
  <2>1. QED
    BY <1>4 DEF BlockingCodes, When
<1>6. QED
  BY <1>3, <1>5 DEF View

\* What needs no approval in the mode there is, is routine in it.
LEMMA RuleIsRoutine ==
    ASSUME NEW c \in Content, NEW linked \in BOOLEAN, NEW mode \in Modes,
           ~Evaluate(c, linked, mode).blocked, ~Evaluate(c, linked, mode).requires_approval
    PROVE  /\ AutoEligible(c) /\ c.requirement = "AUTO_APPROVED"
           /\ mode # "MODE_1_APPROVAL_REQUIRED"
           /\ mode = "MODE_3_MIXED" => c.sensitive = {}
<1>1. Unattended(c, linked, mode)
  BY DEF Unattended, Authorised
<1>2. UnattendedIsRoutineOn(c, linked, mode)
  BY PolicyUnattendedIsRoutine
<1>3. QED
  BY <1>1, <1>2 DEF UnattendedIsRoutineOn
-------------------------------------------------------------------------------
(* The inductive invariant: what holds of the tables holds of the run's view *)
(* of them, so it outlives a commit and a rollback alike.                    *)

\* Copy there is comes from the templates, a model having replaced bodies only.
CopyOK(s, copy) ==
    Made(copy) # {} =>
        /\ Made(copy) = PlatformsFor(s)
        /\ \A p \in Made(copy) : copy[p].extra = Template(s, p).extra

TablesOK(s, T) ==
    /\ T \in Tables
    /\ CopyOK(s, T.copy)
    /\ T.attempted \subseteq Made(T.copy)
    /\ \A p \in Made(T.row.shown) : T.copy[p] = T.row.shown[p]

RecordsOK ==
    /\ \A e \in EvidenceIds : records[e] = NoKind \/ records[e] \in AcceptedKinds \ GeneratedKinds
    /\ \A e \in links : e \notin ItemIds /\ records[e] # NoKind

RunOK ==
    /\ phase = "draft" /\ todo # {} => Made(own.row.shown) = {} /\ todo \subseteq Made(own.copy)
    /\ phase \in {"publish", "sending"} => todo \subseteq Made(own.copy)
    /\ wire # {} =>
          /\ phase = "sending" /\ wire \subseteq Made(own.copy)
          /\ Clears(subject, own.copy, links # {}, config.mode, own.row.status)

IInv ==
    /\ PrepTypeOK
    /\ TablesOK(subject, tables) /\ TablesOK(subject, own)
    /\ RecordsOK /\ RunOK /\ BudgetHolds

LEMMA MayPublishClears ==
    MayPublish <=> Clears(subject, own.copy, links # {}, config.mode, own.row.status)
BY DEF MayPublish, Clears, Decision, DecisionOn

LEMMA FreshTables ==
    ASSUME NEW s PROVE TablesOK(s, [row |-> FreshRow, copy |-> NoCopy, attempted |-> {}])
<1> DEFINE T == [row |-> FreshRow, copy |-> NoCopy, attempted |-> {}]
<1>1. NoCopy \in Copies /\ Made(NoCopy) = {}
  BY DEF NoCopy, Copies, NoVariant, Variant, Made
<1>2. FreshRow \in Row /\ FreshRow.shown = NoCopy /\ FreshRow.status = "DRAFT"
  BY <1>1 DEF FreshRow, Row, ApprovalStatuses
<1>3. T.row = FreshRow /\ T.copy = NoCopy /\ T.attempted = {} /\ T \in Tables
  BY <1>1, <1>2 DEF Tables
<1> HIDE DEF T
<1>4. TablesOK(s, T)
  BY <1>1, <1>2, <1>3 DEF TablesOK, CopyOK
<1>5. QED
  BY <1>4 DEF T

LEMMA TemplatesAreCopy ==
    ASSUME NEW s \in Subjects
    PROVE  Templates(s) \in Copies /\ Made(Templates(s)) = PlatformsFor(s) /\ CopyOK(s, Templates(s))
<1>1. s \in Subject /\ TagMarks[s.pillar] \subseteq Marks
  BY PreparationAssumption DEF Subject
<1>2. \A parts \in SUBSET Parts : PartsOf(s, parts) \subseteq Marks
  BY <1>1 DEF PartsOf, Subject
<1>3. \A p \in Platforms : Template(s, p) \in Variant /\ Template(s, p).writer = "template"
  <2>1. \A p \in Platforms : PartsOf(s, Reads[p]) \subseteq Marks
    BY <1>2, PreparationAssumption
  <2>2. s.text["cta"] \subseteq Marks
    BY <1>1 DEF Subject, Parts
  <2>3. QED
    BY <1>1, <2>1, <2>2 DEF Template, Variant
<1>4. NoVariant \in Variant /\ NoVariant.writer = "none"
  BY DEF NoVariant, Variant
<1>5. PlatformsFor(s) \subseteq Platforms
  BY DEF PlatformsFor
<1>6. Templates(s) \in Copies
  BY <1>3, <1>4 DEF Templates, Copies
<1>7. Made(Templates(s)) = PlatformsFor(s)
  BY <1>3, <1>4, <1>5 DEF Templates, Made
<1>8. QED
  BY <1>5, <1>6, <1>7 DEF CopyOK, Templates
-------------------------------------------------------------------------------
(* The steps.                                                                *)

LEMMA InitInvariant == Init => IInv
<1> SUFFICES ASSUME Init PROVE IInv
  OBVIOUS
<1>1. TablesOK(subject, tables) /\ TablesOK(subject, own)
  BY FreshTables DEF Init
<1>2. PrepTypeOK
  <2>1. tables \in Tables /\ own \in Tables
    BY <1>1 DEF TablesOK
  <2>2. asDraft \in BOOLEAN
    BY DEF Init
  <2>3. /\ subject \in Subjects /\ config \in Configs
        /\ records \in [EvidenceIds -> Kinds \cup {NoKind}] /\ links \in SUBSET EvidenceIds
        /\ phase \in {"idle", "draft", "publish", "sending"}
        /\ todo \in SUBSET Platforms /\ wire \in SUBSET Platforms
        /\ calls \in Nat /\ spent \in Nat
        /\ aborts \in 0 .. MaxAborts
    BY PreparationAssumption DEF Init
  <2>4. QED
    BY <2>1, <2>2, <2>3 DEF PrepTypeOK
<1>3. RecordsOK /\ RunOK
  BY DEF Init, RecordsOK, RunOK
<1>4. BudgetHolds
  BY PreparationAssumption DEF Init, BudgetHolds
<1>5. QED
  BY <1>1, <1>2, <1>3, <1>4 DEF IInv

\* Outside the run: the configuration, the evidence, a decision between two runs.
LEMMA OthersKeep == ASSUME IInv, OthersStep PROVE IInv'
<1>1. ASSUME NEW c \in Configs, ChangeConfig(c) PROVE IInv'
  <2>1. PrepTypeOK' /\ RecordsOK' /\ BudgetHolds'
    BY <1>1 DEF IInv, PrepTypeOK, RecordsOK, BudgetHolds, ChangeConfig, runVars
  <2>2. RunOK'
    BY <1>1 DEF IInv, RunOK, ChangeConfig, runVars
  <2>3. QED
    BY <1>1, <2>1, <2>2 DEF IInv, ChangeConfig, runVars
<1>2. ASSUME NEW e \in EvidenceIds, NEW kind \in Kinds, RecordEvidence(e, kind) PROVE IInv'
  <2>1. PrepTypeOK' /\ BudgetHolds'
    BY <1>2 DEF IInv, PrepTypeOK, BudgetHolds, RecordEvidence, runVars
  <2>2. RunOK'
    BY <1>2 DEF IInv, RunOK, RecordEvidence, runVars
  <2>3. RecordsOK'
    <3>1. /\ records' = [records EXCEPT ![e] = kind] /\ links' = links
          /\ records[e] = NoKind /\ kind \in AcceptedKinds \ GeneratedKinds
          /\ records \in [EvidenceIds -> Kinds \cup {NoKind}] /\ links \subseteq EvidenceIds
      BY <1>2 DEF RecordEvidence, IInv, PrepTypeOK
    <3>2. QED
      BY <3>1 DEF IInv, RecordsOK
  <2>4. QED
    BY <1>2, <2>1, <2>2, <2>3 DEF IInv, RecordEvidence, runVars
<1>3. ASSUME NEW e \in EvidenceIds, LinkClaim(e) PROVE IInv'
  <2>1. PrepTypeOK' /\ BudgetHolds' /\ RecordsOK'
    BY <1>3 DEF IInv, PrepTypeOK, RecordsOK, BudgetHolds, LinkClaim, runVars
  <2>2. RunOK'
    <3>1. /\ UNCHANGED <<subject, own, config, phase, todo, wire>>
          /\ links # {} => links' # {}
      BY <1>3 DEF LinkClaim, runVars
    <3>2. Clears(subject, own.copy, links # {}, config.mode, own.row.status)
             => Clears(subject, own.copy, links' # {}, config.mode, own.row.status)
      BY <3>1, EvidenceClearsMore
    <3>3. QED
      BY <3>1, <3>2 DEF IInv, RunOK
  <2>3. QED
    BY <1>3, <2>1, <2>2 DEF IInv, LinkClaim, runVars
<1>4. ASSUME NEW verdict \in {"APPROVED", "REJECTED"}, Decide(verdict) PROVE IInv'
  <2> DEFINE row == Decided(tables.row, verdict, tables.copy)
  <2>1. tables \in Tables /\ TablesOK(subject, tables) /\ subject' = subject
    BY <1>4 DEF IInv, TablesOK, Decide
  <2>2. tables' = [tables EXCEPT !.row = row]
    BY <1>4 DEF Decide
  <2>3. /\ row \in Row
        /\ verdict = "APPROVED" => row.shown = tables.copy
        /\ verdict = "REJECTED" => row.shown = tables.row.shown
    BY <2>1 DEF Row, Tables, ApprovalStatuses, Decided
  <2> HIDE DEF row
  <2>4. tables' \in Tables /\ tables'.row = row /\ tables'.copy = tables.copy
        /\ tables'.attempted = tables.attempted
    BY <2>1, <2>2, <2>3 DEF Tables
  <2>5. TablesOK(subject, tables')
    BY <2>1, <2>3, <2>4 DEF TablesOK
  <2>6. PrepTypeOK' /\ RecordsOK' /\ BudgetHolds'
    BY <1>4, <2>4 DEF IInv, PrepTypeOK, RecordsOK, BudgetHolds, Decide, runVars, operatorVars
  <2>7. RunOK'
    BY <1>4 DEF IInv, RunOK, Decide, runVars, operatorVars
  <2>8. QED
    BY <1>4, <2>5, <2>6, <2>7 DEF IInv, Decide, runVars
<1>5. QED
  BY <1>1, <1>2, <1>3, <1>4 DEF OthersStep

LEMMA StartRunKeeps == ASSUME IInv, StartRun PROVE IInv'
<1>1. /\ subject \in Subjects /\ subject' = subject
      /\ PlatformsFor(subject) \subseteq Platforms
  BY DEF IInv, PrepTypeOK, StartRun, PlatformsFor
<1>2. CASE Builds
  <2>1. own' = [tables EXCEPT !.copy = Templates(subject)] /\ todo' = PlatformsFor(subject)
    BY <1>2 DEF StartRun
  <2>2. tables \in Tables /\ TablesOK(subject, tables) /\ Made(tables.copy) = {}
    BY <1>2 DEF IInv, TablesOK, Builds
  <2>3. /\ Templates(subject) \in Copies /\ Made(Templates(subject)) = PlatformsFor(subject)
        /\ CopyOK(subject, Templates(subject))
    BY <1>1, TemplatesAreCopy
  <2>4. /\ own' \in Tables /\ own'.copy = Templates(subject) /\ own'.row = tables.row
        /\ own'.attempted = tables.attempted
    BY <2>1, <2>2, <2>3 DEF Tables
  <2>5. tables.attempted = {} /\ Made(tables.row.shown) = {}
    <3>1. \A p \in Made(tables.row.shown) : p \in Made(tables.copy)
      BY <2>2 DEF TablesOK, Made
    <3>2. QED
      BY <2>2, <3>1 DEF TablesOK
  <2>6. TablesOK(subject, own')
    BY <2>2, <2>3, <2>4, <2>5 DEF TablesOK
  <2>7. RunOK'
    BY <2>1, <2>3, <2>4, <2>5 DEF StartRun, RunOK, IInv
  <2>8. QED
    BY <1>1, <2>1, <2>4, <2>6, <2>7
       DEF IInv, StartRun, PrepTypeOK, RecordsOK, BudgetHolds, operatorVars
<1>3. CASE ~Builds
  <2>1. own' = tables /\ todo' = {}
    BY <1>3 DEF StartRun
  <2>2. RunOK'
    BY <2>1 DEF StartRun, RunOK, IInv
  <2>3. QED
    BY <1>1, <2>1, <2>2 DEF IInv, StartRun, PrepTypeOK, RecordsOK, BudgetHolds, operatorVars
<1>4. QED
  BY <1>2, <1>3

\* A model replaces the body of one variant: no variant comes or goes, and what
\* the templates put beside the body stays.
LEMMA ImproveKeeps == ASSUME IInv, NEW p \in Platforms, Improve(p) PROVE IInv'
<1>1. /\ phase = "draft" /\ phase' = phase /\ p \in todo /\ todo' = todo \ {p}
      /\ UNCHANGED <<subject, operatorVars, tables, wire, asDraft, aborts>>
  BY DEF Improve
<1>2. wire = {} /\ Made(own.row.shown) = {} /\ p \in Made(own.copy)
  BY <1>1 DEF IInv, RunOK
<1>3. own \in Tables /\ TablesOK(subject, own)
  BY DEF IInv, TablesOK
<1>4. /\ TablesOK(subject, own') /\ own'.row = own.row
      /\ Made(own'.copy) = Made(own.copy)
  <2>1. CASE own' = own
    BY <1>3, <2>1
  <2>2. ASSUME NEW text \in ModelTexts,
               own' = [own EXCEPT !.copy = Rewritten(own.copy, p, text)]
        PROVE  /\ TablesOK(subject, own') /\ own'.row = own.row
               /\ Made(own'.copy) = Made(own.copy)
    <3> DEFINE variant == [body |-> text, extra |-> own.copy[p].extra, writer |-> "model"]
               copy == [own.copy EXCEPT ![p] = variant]
    <3>1. own.copy \in Copies /\ own.copy[p] \in Variant
      BY <1>3 DEF Tables, Copies
    <3>2. variant \in Variant /\ variant.extra = own.copy[p].extra /\ variant.writer = "model"
      BY <3>1, PreparationAssumption DEF Variant
    <3> HIDE DEF variant
    <3>3. /\ copy \in Copies /\ copy[p] = variant
          /\ \A q \in Platforms : q # p => copy[q] = own.copy[q]
      BY <3>1, <3>2 DEF Copies
    <3>4. own' = [own EXCEPT !.copy = copy]
      BY <2>2 DEF variant, Rewritten
    <3> HIDE DEF copy
    <3>5. /\ own' \in Tables /\ own'.copy = copy /\ own'.row = own.row
          /\ own'.attempted = own.attempted
      BY <1>3, <3>3, <3>4 DEF Tables
    <3>6. own.copy[p].writer # "none"
      BY <1>2 DEF Made
    <3>7. Made(copy) = Made(own.copy)
      BY <3>2, <3>3, <3>6 DEF Made
    <3>8. CopyOK(subject, copy)
      <4>1. \A q \in Made(copy) : q \in Platforms /\ copy[q].extra = own.copy[q].extra
        BY <3>2, <3>3 DEF Made
      <4>2. QED
        BY <1>3, <3>7, <4>1 DEF TablesOK, CopyOK
    <3>9. QED
      BY <1>2, <1>3, <3>5, <3>7, <3>8 DEF TablesOK
  <2>3. QED
    BY <2>1, <2>2 DEF Improve, KeepTemplate, Redraft
<1>5. BudgetHolds' /\ calls' \in Nat /\ spent' \in Nat
  <2>1. CASE UNCHANGED <<calls, spent>>
    BY <2>1 DEF IInv, PrepTypeOK, BudgetHolds
  <2>2. ASSUME NEW cost \in Costs, CanSpend, calls' = calls + 1, spent' = spent + cost
        PROVE  BudgetHolds' /\ calls' \in Nat /\ spent' \in Nat
    <3>1. calls \in Nat /\ spent \in Nat /\ cost \in Nat /\ MaxCalls \in Nat
          /\ MaxCost \in Nat /\ Estimate \in Nat
      BY PreparationAssumption DEF IInv, PrepTypeOK
    <3>2. calls < MaxCalls /\ (MaxCost # 0 => spent + Estimate <= MaxCost)
      BY <2>2 DEF CanSpend
    <3>3. calls' <= MaxCalls /\ (MaxCost # 0 => spent' + Estimate <= MaxCost + cost)
      BY <2>2, <3>1, <3>2
    <3>4. calls' \in Nat /\ spent' \in Nat
      BY <2>2, <3>1
    <3>5. QED
      BY <3>3, <3>4 DEF BudgetHolds
  <2>3. QED
    BY <2>1, <2>2 DEF Improve, KeepTemplate, Redraft
<1>6. RunOK'
  BY <1>1, <1>2, <1>4 DEF IInv, RunOK
<1>7. PrepTypeOK' /\ RecordsOK'
  BY <1>1, <1>4, <1>5 DEF IInv, PrepTypeOK, TablesOK, RecordsOK, operatorVars
<1>8. QED
  BY <1>1, <1>4, <1>5, <1>6, <1>7 DEF IInv

\* Requesting approval, approving by rule and leaving the item alone all leave rows
\* that the invariant allows.
LEMMA RowsPrepared ==
    ASSUME IInv, RequestApproval \/ AutoApprove \/ LeaveAsIs, subject' = subject
    PROVE  TablesOK(subject, own') /\ own'.copy = own.copy /\ own'.attempted = own.attempted
<1>1. own \in Tables /\ TablesOK(subject, own) /\ subject \in Subjects
      /\ own.row \in Row /\ own.copy \in Copies /\ config.mode \in Modes
  BY PreparationAssumption DEF IInv, TablesOK, PrepTypeOK, Tables, Config
<1>2. CASE own' = own
  BY <1>1, <1>2
<1>3. CASE own' = [own EXCEPT !.row = Requested(own.row)]
  <2> DEFINE row == Requested(own.row)
  <2>1. row \in Row /\ row.shown = own.row.shown
    BY <1>1 DEF Requested, Row, ApprovalStatuses
  <2> HIDE DEF row
  <2>2. /\ own' \in Tables /\ own'.row = row /\ own'.copy = own.copy
        /\ own'.attempted = own.attempted
    BY <1>1, <1>3, <2>1 DEF Tables, row
  <2>3. QED
    BY <1>1, <2>1, <2>2 DEF TablesOK
<1>4. CASE AutoApprove
  <2> DEFINE row == ByRule(own.row)
  <2>1. row \in Row /\ row.shown = own.copy /\ own' = [own EXCEPT !.row = row]
    BY <1>1, <1>4 DEF AutoApprove, ByRule, Row, ApprovalStatuses
  <2> HIDE DEF row
  <2>2. /\ own' \in Tables /\ own'.row = row /\ own'.copy = own.copy
        /\ own'.attempted = own.attempted
    BY <1>1, <2>1 DEF Tables
  <2>3. QED
    BY <1>1, <2>1, <2>2 DEF TablesOK
<1>5. QED
  BY <1>2, <1>3, <1>4 DEF RequestApproval, LeaveAsIs

LEMMA PrepareKeeps == ASSUME IInv, Prepare PROVE IInv'
<1>1. /\ phase' = "publish" /\ UNCHANGED <<subject, operatorVars, tables, calls, spent, wire, asDraft, aborts>>
      /\ todo' \subseteq SlotsOf(own') \cup own.attempted
  BY DEF Prepare
<1>2. wire = {}
  BY DEF IInv, RunOK, Prepare
<1>3. TablesOK(subject, own') /\ own'.copy = own.copy /\ own'.attempted = own.attempted
  BY <1>1, RowsPrepared DEF Prepare
<1>4. SlotsOf(own') \subseteq Made(own'.copy)
  BY DEF SlotsOf
<1>5. own.attempted \subseteq Made(own'.copy)
  BY <1>3 DEF TablesOK
<1>6. todo' \subseteq Made(own'.copy)
  BY <1>1, <1>4, <1>5
<1>7. RunOK'
  BY <1>1, <1>2, <1>6 DEF RunOK
<1>8. todo' \in SUBSET Platforms
  BY <1>6 DEF Made
<1>9. PrepTypeOK' /\ RecordsOK' /\ BudgetHolds'
  BY <1>1, <1>3, <1>8 DEF IInv, PrepTypeOK, TablesOK, RecordsOK, BudgetHolds, operatorVars
<1>10. QED
  BY <1>1, <1>3, <1>7, <1>9 DEF IInv

LEMMA SendKeeps == ASSUME IInv, NEW p \in Platforms, Send(p) PROVE IInv'
<1>1. /\ phase = "publish" /\ phase' = "sending" /\ p \in todo /\ todo' = todo \ {p} /\ wire' = {p}
      /\ own' = [own EXCEPT !.attempted = own.attempted \cup {p}]
      /\ UNCHANGED <<subject, operatorVars, tables, calls, spent, aborts>>
  BY DEF Send
<1>2. own \in Tables /\ TablesOK(subject, own)
  BY DEF IInv, TablesOK
<1>3. todo \subseteq Made(own.copy)
  BY <1>1 DEF IInv, RunOK
<1>4. /\ own' \in Tables /\ own'.row = own.row /\ own'.copy = own.copy
      /\ own'.attempted = own.attempted \cup {p}
  BY <1>1, <1>2 DEF Tables
<1>5. TablesOK(subject, own')
  BY <1>1, <1>2, <1>3, <1>4 DEF TablesOK
<1>6. Clears(subject, own.copy, links # {}, config.mode, own.row.status)
  BY MayPublishClears DEF Send
<1>7. RunOK'
  BY <1>1, <1>3, <1>4, <1>6 DEF RunOK, operatorVars
<1>8. asDraft' \in BOOLEAN
  BY PreparationAssumption DEF Send, CreateAsDraft, IInv, PrepTypeOK, Config, Decision, DecisionOn,
     Evaluate, RequiresApproval
<1>9. PrepTypeOK' /\ RecordsOK' /\ BudgetHolds'
  BY <1>1, <1>4, <1>8 DEF IInv, PrepTypeOK, RecordsOK, BudgetHolds, operatorVars
<1>10. QED
  BY <1>1, <1>5, <1>7, <1>8, <1>9 DEF IInv

LEMMA AnsweredKeeps == ASSUME IInv, Answered PROVE IInv'
<1>1. RunOK'
  BY DEF IInv, RunOK, Answered
<1>2. QED
  BY <1>1 DEF IInv, Answered, PrepTypeOK, RecordsOK, BudgetHolds, operatorVars

LEMMA PassOverKeeps == ASSUME IInv, NEW p \in Platforms, PassOver(p) PROVE IInv'
<1>1. RunOK'
  BY DEF IInv, RunOK, PassOver, operatorVars
<1>2. QED
  BY <1>1 DEF IInv, PassOver, PrepTypeOK, RecordsOK, BudgetHolds, operatorVars

\* A run that ends leaves the tables it had, or those it found.
LEMMA RunEndKeeps ==
    ASSUME IInv, EndRun, tables' = own \/ tables' = tables, aborts' \in 0 .. MaxAborts
    PROVE  IInv'
<1>1. TablesOK(subject', tables') /\ TablesOK(subject', own') /\ tables' \in Tables /\ own' \in Tables
  BY DEF IInv, EndRun, TablesOK
<1>2. RunOK' /\ RecordsOK'
  BY DEF IInv, RunOK, RecordsOK, EndRun, operatorVars
<1>3. BudgetHolds'
  BY PreparationAssumption DEF EndRun, BudgetHolds
<1>4. PrepTypeOK'
  BY <1>1 DEF IInv, PrepTypeOK, EndRun, operatorVars
<1>5. QED
  BY <1>1, <1>2, <1>3, <1>4 DEF IInv

LEMMA CommitKeeps == ASSUME IInv, Commit PROVE IInv'
BY RunEndKeeps DEF Commit, IInv, PrepTypeOK

LEMMA AbortKeeps == ASSUME IInv, Abort PROVE IInv'
<1>1. aborts' \in 0 .. MaxAborts
  BY PreparationAssumption DEF Abort, IInv, PrepTypeOK
<1>2. QED
  BY <1>1, RunEndKeeps DEF Abort

LEMMA NextInvariant == IInv /\ [Next]_vars => IInv'
<1> SUFFICES ASSUME IInv, [Next]_vars PROVE IInv'
  OBVIOUS
<1>1. CASE RunStep
  BY <1>1, StartRunKeeps, ImproveKeeps, PrepareKeeps, SendKeeps, AnsweredKeeps, PassOverKeeps,
     CommitKeeps DEF RunStep
<1>2. CASE Abort
  BY <1>2, AbortKeeps
<1>3. CASE OthersStep
  BY <1>3, OthersKeep
<1>4. CASE UNCHANGED vars
  <2>1. UNCHANGED <<subject, config, records, links, tables, phase, own, todo, calls, spent, wire,
                   asDraft, aborts>>
    BY <1>4 DEF vars, operatorVars, runVars
  <2>2. QED
    BY <2>1 DEF IInv, PrepTypeOK, RecordsOK, RunOK, BudgetHolds
<1>5. QED
  BY <1>1, <1>2, <1>3, <1>4 DEF Next

LEMMA Invariant == Spec => []IInv
BY InitInvariant, NextInvariant, PTL DEF Spec
-------------------------------------------------------------------------------
(* What follows from it.                                                     *)

\* The tables and the run keep their types.
THEOREM PreparationTypes == Spec => []PrepTypeOK
<1>1. IInv => PrepTypeOK
  BY DEF IInv
<1>2. QED
  BY Invariant, <1>1, PTL

\* The policy fails closed on the wire, whoever wrote the copy and whoever or
\* whatever approved it, across configuration changes and rolled back runs.
THEOREM WireFailsClosed == Spec => []FailsClosed
<1>1. IInv => FailsClosed
  <2> SUFFICES ASSUME IInv, NEW p \in wire
               PROVE  /\ subject.class \in PublishableClasses
                      /\ subject.requirement # "NEVER_PUBLISH"
                      /\ SentText(p) \cap {"RESTRICTED", "PROHIBITED"} = {}
                      /\ p \notin MediaFirst
    BY DEF FailsClosed
  <2>1. /\ subject \in Subjects /\ config.mode \in Modes
        /\ p \in Made(own.copy) /\ p \in Platforms
        /\ Clears(subject, own.copy, links # {}, config.mode, own.row.status)
    BY PreparationAssumption DEF IInv, RunOK, PrepTypeOK, Config
  <2>2. /\ subject.class \in PublishableClasses /\ subject.requirement # "NEVER_PUBLISH"
        /\ "RESTRICTED" \notin Outbound(subject, own.copy)
        /\ "PROHIBITED" \notin Outbound(subject, own.copy)
        /\ Made(own.copy) \cap MediaFirst = {}
    BY <2>1, ClearedIsClean
  <2>3. SentText(p) \subseteq Outbound(subject, own.copy)
    BY <2>1 DEF SentText, Outbound
  <2>4. QED
    BY <2>1, <2>2, <2>3
<1>2. QED
  BY Invariant, <1>1, PTL

\* No claim goes out on evidence the system produced itself.
THEOREM WireIsEvidenced == Spec => []EvidenceIsIndependent
<1>1. IInv => EvidenceIsIndependent
  <2> SUFFICES ASSUME IInv, wire # {}, NeedsEvidence(View(subject, own.copy))
               PROVE  \E e \in links : e \notin ItemIds /\ records[e] \in AcceptedKinds \ GeneratedKinds
    BY DEF EvidenceIsIndependent
  <2>1. /\ subject \in Subjects /\ config.mode \in Modes
        /\ Clears(subject, own.copy, links # {}, config.mode, own.row.status)
    BY PreparationAssumption DEF IInv, RunOK, PrepTypeOK, Config
  <2>2. links # {}
    BY <2>1, ClearedIsClean
  <2>3. PICK e \in links : TRUE
    BY <2>2
  <2>4. QED
    BY <2>3 DEF IInv, RecordsOK, PrepTypeOK
<1>2. QED
  BY Invariant, <1>1, PTL

\* What a run sends outright needs no approval in the mode the run has.
LEMMA SendIsAttended ==
    ASSUME IInv, NEW p \in Platforms, Send(p)
    PROVE  UnattendedIsRoutine'
<1> SUFFICES ASSUME ~asDraft'
             PROVE  /\ subject.requirement = "AUTO_APPROVED"
                    /\ AutoEligible(View(subject, own.copy))
                    /\ config.mode # "MODE_1_APPROVAL_REQUIRED"
                    /\ config.mode = "MODE_3_MIXED" => View(subject, own.copy).sensitive = {}
  <2>1. own \in Tables
    BY DEF IInv, PrepTypeOK
  <2>2. own'.copy = own.copy /\ UNCHANGED <<subject, config>>
    BY <2>1 DEF Send, Tables, operatorVars
  <2>3. QED
    BY <2>2 DEF UnattendedIsRoutine
<1>1. ~Decision.requires_approval /\ ~Decision.blocked
  BY DEF Send, CreateAsDraft, MayPublish, Authorised
<1>2. /\ View(subject, own.copy) \in Content /\ config.mode \in Modes
      /\ View(subject, own.copy).requirement = subject.requirement
  BY ViewIsContent, PreparationAssumption DEF IInv, PrepTypeOK, Config, View
<1>3. QED
  BY <1>1, <1>2, RuleIsRoutine DEF Decision, DecisionOn

\* Nothing is posted outright that is not routine in the mode of the run that sends
\* it, whoever approved it and whatever the mode was then.
THEOREM WireIsAttended == Spec => []UnattendedIsRoutine
<1>1. Init => UnattendedIsRoutine
  BY DEF Init, UnattendedIsRoutine
<1>2. IInv /\ UnattendedIsRoutine /\ [Next]_vars => UnattendedIsRoutine'
  <2> SUFFICES ASSUME IInv, UnattendedIsRoutine, [Next]_vars PROVE UnattendedIsRoutine'
    OBVIOUS
  <2>1. ASSUME NEW p \in Platforms, Send(p) PROVE UnattendedIsRoutine'
    BY <2>1, SendIsAttended
  <2>2. CASE wire' = {}
    BY <2>2 DEF UnattendedIsRoutine
  <2>3. CASE UNCHANGED <<subject, config, own, wire, asDraft>>
    BY <2>3 DEF UnattendedIsRoutine
  <2>4. wire # {} => phase = "sending"
    BY DEF IInv, RunOK
  <2>5. CASE RunStep \/ Abort
    BY <2>1, <2>2, <2>4, <2>5 DEF RunStep, Abort, StartRun, Improve, Prepare, Answered, PassOver,
       Commit, EndRun
  <2>6. CASE OthersStep \/ UNCHANGED vars
    BY <2>2, <2>3, <2>4, <2>6 DEF OthersStep, ChangeConfig, RecordEvidence, LinkClaim, Decide,
       vars, operatorVars, runVars
  <2>7. QED
    BY <2>5, <2>6 DEF Next
<1>3. QED
  BY <1>1, <1>2, Invariant, PTL DEF Spec

\* What was approved is what goes out.
THEOREM ApprovedIsSent == Spec => []ApprovedCopyStands
<1>1. IInv => ApprovedCopyStands
  BY DEF IInv, TablesOK, ApprovedCopyStands
<1>2. QED
  BY Invariant, <1>1, PTL

\* A drafting model can hold an item back and never clear it.
THEOREM ModelsOnlyTighten == Spec => []ModelOnlyTightens
<1>1. IInv => ModelOnlyTightens
  <2> SUFFICES ASSUME IInv, Made(own.copy) # {}, NEW mode \in Modes, NEW status \in ApprovalStatuses,
                      Clears(subject, own.copy, links # {}, mode, status)
               PROVE  Clears(subject, Templates(subject), links # {}, mode, status)
    BY DEF ModelOnlyTightens, Clears
  <2> DEFINE plain == Templates(subject)
  <2>1. /\ subject \in Subjects /\ Made(own.copy) = PlatformsFor(subject)
        /\ \A p \in Made(own.copy) : own.copy[p].extra = Template(subject, p).extra
    BY DEF IInv, PrepTypeOK, TablesOK, CopyOK
  <2>2. Made(plain) = PlatformsFor(subject)
    BY <2>1, TemplatesAreCopy
  <2>3. Outbound(subject, plain) \subseteq Outbound(subject, own.copy)
    <3> SUFFICES ASSUME NEW mark \in Outbound(subject, plain)
                 PROVE  mark \in Outbound(subject, own.copy)
      OBVIOUS
    <3>1. CASE mark \in PartsOf(subject, Parts)
      BY <3>1 DEF Outbound
    <3>2. CASE \E p \in Platforms : mark \in plain[p].body \cup plain[p].extra
      <4>1. PICK p \in Platforms : mark \in plain[p].body \cup plain[p].extra
        BY <3>2
      <4>2. p \in PlatformsFor(subject) /\ plain[p] = Template(subject, p)
        BY <4>1 DEF Templates, NoVariant
      <4>3. own.copy[p].extra = Template(subject, p).extra
        BY <2>1, <4>2
      <4>4. \/ mark \in PartsOf(subject, Reads[p]) \/ mark \in subject.text["cta"]
            \/ mark \in TagMarks[subject.pillar]
        BY <4>1, <4>2 DEF Template
      <4>5. mark \in TagMarks[subject.pillar] => mark \in own.copy[p].extra
        BY <4>3 DEF Template
      <4>6. Reads[p] \subseteq Parts /\ "cta" \in Parts
        BY PreparationAssumption DEF Parts
      <4>7. QED
        BY <4>4, <4>5, <4>6 DEF Outbound, PartsOf
    <3>3. QED
      BY <3>1, <3>2 DEF Outbound
  <2>4. (links # {}) \in BOOLEAN
    OBVIOUS
  <2> HIDE DEF plain
  <2>5. Clears(subject, plain, links # {}, mode, status)
    BY <2>1, <2>2, <2>3, <2>4, FewerMarksClearMore
  <2>6. QED
    BY <2>5 DEF plain
<1>2. QED
  BY Invariant, <1>1, PTL

\* The budget of a run, for any cost a call may turn out to have.
THEOREM BudgetIsKept == Spec => []BudgetHolds
<1>1. IInv => BudgetHolds
  BY DEF IInv
<1>2. QED
  BY Invariant, <1>1, PTL
===============================================================================
