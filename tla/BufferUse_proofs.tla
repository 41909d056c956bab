--------------------------- MODULE BufferUse_proofs ---------------------------
(* The account and its three users, for any number of posts and variants,    *)
(* honoured drafts or not.                                                   *)
EXTENDS BufferUse, FiniteSums

USE DEF PostStates

-------------------------------------------------------------------------------
(* The wire: what publish makes of an answer.                                *)

\* The reply of an exchange that made no post is an error of either kind.
LEMMA FailedShape == FailedResults = {Failed(TRUE), Failed(FALSE)}
<1>1. ResultOf(Silence) = Failed(TRUE)
  BY DEF ResultOf, Silence
<1>2. ResultOf(MutationError) = Failed(FALSE)
  BY DEF ResultOf, MutationError
<1>3. ResultOf(Heard("client", NoPost)) = Failed(FALSE)
  BY DEF ResultOf, Heard
<1>4. ResultOf(Heard("server", NoPost)) = Failed(TRUE)
  BY DEF ResultOf, Heard
<1>5. QED
  BY <1>1, <1>2, <1>3, <1>4 DEF FailedResults, NoChannel, Refusals

LEMMA ReceiptCases ==
    ASSUME NEW state \in {"draft", "queued", "sent"}, NEW reply \in Receipts[state]
    PROVE  \/ reply = Silence \/ reply = Heard("none", NoPost) \/ reply = Heard("server", NoPost)
           \/ \E e \in {"none", "server"}, shown \in Shown(state) : reply = Heard(e, shown)
BY DEF Receipts

LEMMA ReceiptShape ==
    ASSUME NEW state \in {"draft", "queued", "sent"}, NEW reply \in Receipts[state]
    PROVE  \/ ~reply.through \/ reply.errors = "server"
           \/ reply.through /\ reply.errors = "none" /\ ~reply.refused /\ ~reply.post.id
           \/ /\ reply.through /\ reply.errors = "none" /\ ~reply.refused
              /\ reply.post \in Shown(state)
BY ReceiptCases DEF Silence, Heard, NoPost

\* A post that was made reads as failed, staged or, if it went out, published.
LEMMA ResultShape ==
    ASSUME NEW state \in {"draft", "queued", "sent"}, NEW result \in ResultsOf[state]
    PROVE  /\ result \in {Failed(TRUE), [status |-> "SCHEDULED", retryable |-> TRUE],
                          [status |-> "PUBLISHED", retryable |-> TRUE]}
           /\ result.status = "PUBLISHED" => state = "sent"
<1>1. DOMAIN Receipts = {"draft", "queued", "sent"}
  BY DEF Receipts
<1>2. ResultsOf[state] = {ResultOf(reply) : reply \in Receipts[state]}
  BY <1>1 DEF ResultsOf
<1>3. PICK reply \in Receipts[state] : result = ResultOf(reply)
  BY <1>2
<1>4. CASE ~reply.through \/ reply.errors = "server"
  BY <1>3, <1>4 DEF ResultOf, Failed
<1>5. CASE reply.through /\ reply.errors = "none" /\ ~reply.refused /\ ~reply.post.id
  BY <1>3, <1>5 DEF ResultOf, Failed
<1>6. CASE /\ reply.through /\ reply.errors = "none" /\ ~reply.refused
           /\ reply.post \in Shown(state)
  <2>1. /\ reply.post.id
        /\ reply.post.sentAt \/ reply.post.status = "sent" => state = "sent"
    BY <1>6 DEF Shown
  <2>2. result = [status |-> StatusFrom(reply.post), retryable |-> TRUE]
    BY <1>3, <1>6, <2>1 DEF ResultOf
  <2>3. CASE reply.post.sentAt \/ reply.post.status = "sent"
    <3>1. result = [status |-> "PUBLISHED", retryable |-> TRUE] /\ state = "sent"
      BY <2>1, <2>2, <2>3 DEF StatusFrom
    <3>2. QED
      BY <3>1
  <2>4. CASE ~(reply.post.sentAt \/ reply.post.status = "sent")
    <3>1. result = [status |-> "SCHEDULED", retryable |-> TRUE]
      BY <2>2, <2>4 DEF StatusFrom
    <3>2. QED
      BY <3>1
  <2>5. QED
    BY <2>3, <2>4
<1>7. QED
  BY <1>4, <1>5, <1>6, ReceiptShape

\* Publisher leaves nothing out: whatever happened at Buffer and however it
\* answered, publish returns one of the answers that DailyRun reckons with.
THEOREM AnswersCovered ==
    /\ \A result \in FailedResults : AnswerOf(FALSE, result) \in BufferAnswers
    /\ \A state \in {"draft", "queued", "sent"} : \A result \in ResultsOf[state] :
          AnswerOf(TRUE, result) \in BufferAnswers
<1>1. \A result \in FailedResults : AnswerOf(FALSE, result) \in BufferAnswers
  <2>1. AnswerOf(FALSE, Failed(TRUE)) = Outage /\ AnswerOf(FALSE, Failed(FALSE)) = Refused
    BY DEF AnswerOf, Failed, Refused, Outage
  <2>2. QED
    BY <2>1, FailedShape DEF BufferAnswers
<1>2. ASSUME NEW state \in {"draft", "queued", "sent"}, NEW result \in ResultsOf[state]
      PROVE  AnswerOf(TRUE, result) \in BufferAnswers
  <2>1. /\ AnswerOf(TRUE, Failed(TRUE)) = LostReply
        /\ AnswerOf(TRUE, [status |-> "SCHEDULED", retryable |-> TRUE]) = Staged
        /\ AnswerOf(TRUE, [status |-> "PUBLISHED", retryable |-> TRUE]) = Sent
    BY DEF AnswerOf, Failed, LostReply, Staged, Sent
  <2>2. QED
    BY <2>1, ResultShape DEF BufferAnswers
<1>3. QED
  BY <1>1, <1>2

\* What the capture script takes to be staged had not gone out.
LEMMA StagedWasStaged ==
    ASSUME NEW state \in {"draft", "queued", "sent"}, NEW reply \in Receipts[state],
           reply.post.id, Classify(reply.post) = "STAGED_NOT_SENT"
    PROVE  state \in {"draft", "queued"}
<1>1. reply.post \in Shown(state)
  BY ReceiptCases DEF Silence, Heard, NoPost
<1>2. reply.post.status \in StagedStatuses
  BY DEF Classify
<1>3. QED
  BY <1>1, <1>2 DEF Shown, StagedStatuses
-------------------------------------------------------------------------------
(* The inductive invariant, part by part.                                    *)

AccountOK ==
    /\ account \in [Posts -> PostStates] /\ born \in [Posts -> PostStates]
    /\ \A p \in Posts : account[p] = "absent" <=> born[p] = "absent"
    /\ \A p \in Posts : born[p] = "sent" => account[p] \in {"sent", "deleted"}

RowsOK ==
    /\ rows \in [Variants -> Publications]
    /\ \A v \in Variants : rows[v].post # Nobody <=> Live(rows[v].status)
    /\ RecordedIsReal

MetricsOK == MetricsTypeOK /\ RowsOK /\ MeasuredWasSent

\* The samples of a publication, one after the other.
SeriesGrow ==
    /\ \A s \in metrics : s.at <= now
    /\ \A s, t \in metrics : s.pub = t.pub /\ s.at <= t.at => s.seen <= t.seen
    /\ \A s, t \in metrics : s.pub = t.pub /\ s.at = t.at => s = t

CaptureOK ==
    /\ CaptureTypeOK
    /\ \A p \in tests : born[p] # "absent"
    /\ post # Nothing => born[post] \in {"draft", "queued"}
    /\ fixtures.draft # Blank => fixtures.draft.of # Nothing
    /\ fixtures.metrics.checked => fixtures.metrics.of # Nothing
    /\ CleanupIsSafe /\ FixtureIsEvidence
    /\ \A p \in saidDeleted : account[p] \in {"sent", "deleted"}

IInv == AccountOK /\ MetricsOK /\ SeriesGrow /\ CaptureOK

\* What an account never takes back.
Grows ==
    \A p \in Posts :
        /\ born[p] # "absent" => born'[p] = born[p]
        /\ account[p] \in {"sent", "deleted"} => account'[p] \in {"sent", "deleted"}
        /\ account[p] = "deleted" => account'[p] = "deleted"

LEMMA CreateGrows ==
    ASSUME AccountOK, NEW p \in Posts, NEW state \in {"draft", "queued", "sent"}, Create(p, state)
    PROVE  AccountOK' /\ Grows /\ born'[p] = state /\ born[p] = "absent"
BY DEF AccountOK, Create, Grows

LEMMA NewStatesShape ==
    ASSUME NEW asDraft \in BOOLEAN PROVE NewStates(asDraft) \subseteq {"draft", "queued", "sent"}
BY DEF NewStates

LEMMA IdleGrows == ASSUME AccountOK, UNCHANGED accountVars PROVE AccountOK' /\ Grows
BY DEF AccountOK, accountVars, Grows

\* The account as its owner and its clock change it.
LEMMA AccountStepGrows == ASSUME AccountOK, AccountStep PROVE AccountOK' /\ Grows
<1> PICK p \in Posts : Dispatch(p) \/ Release(p) \/ Discard(p)
  BY DEF AccountStep
<1>1. UNCHANGED born
  BY DEF Dispatch, Release, Discard
<1>2. CASE Dispatch(p)
  BY <1>1, <1>2 DEF AccountOK, Dispatch, Grows
<1>3. CASE Release(p)
  BY <1>1, <1>3 DEF AccountOK, Release, Grows
<1>4. CASE Discard(p)
  BY <1>1, <1>4 DEF AccountOK, Discard, Grows
<1>5. QED
  BY <1>2, <1>3, <1>4
-------------------------------------------------------------------------------
(* The engine's part.                                                        *)

\* What the account does on its own disturbs no row and no sample.
LEMMA MetricsUnmoved ==
    ASSUME AccountOK, MetricsOK, AccountOK', Grows, UNCHANGED metricsVars
    PROVE  MetricsOK'
<1>1. RowsOK'
  BY DEF MetricsOK, RowsOK, RecordedIsReal, Publications, metricsVars, Grows, AccountOK
<1>2. \A s \in metrics : rows[s.pub].post \in Posts
  BY DEF MetricsOK, RowsOK, MeasuredWasSent, MetricsTypeOK, Samples, Publications, Live
<1>3. QED
  BY <1>1, <1>2 DEF MetricsOK, MetricsTypeOK, MeasuredWasSent, Samples, metricsVars, Grows, AccountOK

\* A row is replaced by one for a post that is new, or by one for none.
LEMMA RowReplaced ==
    ASSUME AccountOK, MetricsOK, AccountOK', Grows,
           NEW v \in Variants, ~Live(rows[v].status),
           NEW status \in PubStatuses, NEW id \in Posts \cup {Nobody},
           id # Nobody <=> Live(status),
           id # Nobody => born[id] = "absent" /\ born'[id] # "absent",
           status = "PUBLISHED" => born'[id] = "sent",
           rows' = [rows EXCEPT ![v] = [status |-> status, post |-> id]],
           UNCHANGED <<metrics, seen, now>>
    PROVE  MetricsOK'
<1> DEFINE row == [status |-> status, post |-> id]
<1>1. /\ rows' \in [Variants -> Publications]
      /\ rows'[v].status = status /\ rows'[v].post = id
      /\ \A w \in Variants : w # v => rows'[w] = rows[w]
  BY DEF MetricsOK, RowsOK, Publications
<1>2. \A w \in Variants : rows'[w].post # Nobody <=> Live(rows'[w].status)
  BY <1>1 DEF MetricsOK, RowsOK
<1>3. \A w \in Variants : rows[w].post # id \/ id = Nobody
  BY DEF MetricsOK, RowsOK, RecordedIsReal
<1>4. RecordedIsReal'
  <2> SUFFICES ASSUME NEW w \in Variants, Live(rows'[w].status)
               PROVE  /\ rows'[w].post # Nobody
                      /\ born'[rows'[w].post] # "absent"
                      /\ rows'[w].status = "PUBLISHED" => born'[rows'[w].post] = "sent"
                      /\ \A u \in Variants : rows'[u].post = rows'[w].post => u = w
    BY DEF RecordedIsReal
  <2>1. rows'[w].post # Nobody
    BY <1>2
  <2>2. CASE w = v
    BY <1>1, <1>3, <2>1, <2>2
  <2>3. CASE w # v
    <3>1. rows[w].post # Nobody /\ rows[w].post \in Posts /\ Live(rows[w].status)
      BY <1>1, <2>1, <2>3 DEF MetricsOK, RowsOK, Publications
    <3>2. /\ born[rows[w].post] # "absent"
          /\ rows[w].status = "PUBLISHED" => born[rows[w].post] = "sent"
          /\ \A u \in Variants : rows[u].post = rows[w].post => u = w
      BY <3>1 DEF MetricsOK, RowsOK, RecordedIsReal
    <3>3. born'[rows[w].post] = born[rows[w].post]
      BY <3>1, <3>2 DEF Grows
    <3>4. QED
      BY <1>1, <1>3, <2>1, <2>3, <3>1, <3>2, <3>3
  <2>4. QED
    BY <2>2, <2>3
<1>5. MeasuredWasSent'
  <2> SUFFICES ASSUME NEW s \in metrics
               PROVE  /\ rows'[s.pub].status = "PUBLISHED"
                      /\ account'[rows'[s.pub].post] \in {"sent", "deleted"}
                      /\ s.seen <= seen[rows'[s.pub].post]
    BY DEF MeasuredWasSent
  <2>1. s.pub \in Variants /\ rows[s.pub].status = "PUBLISHED"
    BY DEF MetricsOK, MetricsTypeOK, Samples, MeasuredWasSent
  <2>2. s.pub # v /\ rows'[s.pub] = rows[s.pub]
    BY <1>1, <2>1 DEF Live
  <2>3. rows[s.pub].post \in Posts
    BY <2>1 DEF MetricsOK, RowsOK, Publications, Live
  <2>4. QED
    BY <2>2, <2>3 DEF MetricsOK, MeasuredWasSent, Grows
<1>6. QED
  BY <1>1, <1>2, <1>4, <1>5 DEF MetricsOK, MetricsTypeOK, RowsOK

LEMMA PublishKeeps ==
    ASSUME AccountOK, MetricsOK, NEW v \in Variants, NEW commits \in BOOLEAN,
           \/ \E result \in FailedResults : PublishNothing(v, result, commits)
           \/ \E p \in Posts, asDraft \in BOOLEAN : \E state \in NewStates(asDraft) :
                 \E result \in ResultsOf[state] : PublishPost(v, p, asDraft, state, result, commits)
    PROVE  AccountOK' /\ MetricsOK' /\ Grows
<1>1. ASSUME NEW result \in FailedResults, PublishNothing(v, result, commits)
      PROVE  AccountOK' /\ MetricsOK' /\ Grows
  <2>1. AccountOK' /\ Grows
    BY <1>1, IdleGrows DEF PublishNothing
  <2>2. CASE commits
    <3>1. result.status = "FAILED"
      BY <1>1, FailedShape DEF Failed
    <3>2. QED
      BY <1>1, <2>1, <2>2, <3>1, RowReplaced DEF PublishNothing, Recorded, Live, PubStatuses
  <2>3. CASE ~commits
    BY <1>1, <2>1, <2>3, MetricsUnmoved DEF PublishNothing, Recorded, metricsVars
  <2>4. QED
    BY <2>1, <2>2, <2>3
<1>2. ASSUME NEW p \in Posts, NEW asDraft \in BOOLEAN, NEW state \in NewStates(asDraft),
             NEW result \in ResultsOf[state], PublishPost(v, p, asDraft, state, result, commits)
      PROVE  AccountOK' /\ MetricsOK' /\ Grows
  <2>1. state \in {"draft", "queued", "sent"}
    BY NewStatesShape
  <2>2. AccountOK' /\ Grows /\ born'[p] = state /\ born[p] = "absent"
    BY <1>2, <2>1, CreateGrows DEF PublishPost
  <2>3. /\ result.status \in {"FAILED", "SCHEDULED", "PUBLISHED"}
        /\ result.status = "PUBLISHED" => state = "sent"
    BY <2>1, ResultShape DEF Failed
  <2>4. CASE commits
    <3> DEFINE id == IF result.status = "FAILED" THEN Nobody ELSE p
    <3>1. /\ id \in Posts \cup {Nobody}
          /\ id # Nobody <=> Live(result.status)
          /\ id # Nobody => id = p
      BY <2>3, MetricsAssumption DEF Live
    <3>2. rows' = [rows EXCEPT ![v] = [status |-> result.status, post |-> id]]
      BY <1>2, <2>4 DEF PublishPost, Recorded
    <3>3. /\ id # Nobody => born[id] = "absent" /\ born'[id] # "absent"
          /\ result.status = "PUBLISHED" => born'[id] = "sent"
      BY <2>1, <2>2, <2>3, <3>1 DEF Live
    <3>4. /\ ~Live(rows[v].status) /\ result.status \in PubStatuses
          /\ UNCHANGED <<metrics, seen, now>>
      BY <1>2, <2>3 DEF PublishPost, PubStatuses
    <3> HIDE DEF id
    <3>5. QED
      BY <2>2, <3>1, <3>2, <3>3, <3>4, RowReplaced
  <2>5. CASE ~commits
    BY <1>2, <2>2, <2>5, MetricsUnmoved DEF PublishPost, Recorded, metricsVars
  <2>6. QED
    BY <2>2, <2>4, <2>5
<1>3. QED
  BY <1>1, <1>2

LEMMA LookKeeps ==
    ASSUME AccountOK, MetricsOK, NEW p \in Posts, Look(p)
    PROVE  AccountOK' /\ MetricsOK' /\ Grows
<1>1. AccountOK' /\ Grows
  BY IdleGrows DEF Look
<1>2. seen' \in [Posts -> 0..MaxSeen]
  BY MetricsAssumption DEF Look, MetricsOK, MetricsTypeOK
<1>3. RowsOK'
  BY DEF MetricsOK, RowsOK, RecordedIsReal, Look, accountVars
<1>4. ASSUME NEW s \in metrics PROVE s.seen <= seen'[rows[s.pub].post]
  <2>1. s.pub \in Variants /\ rows[s.pub].post \in Posts /\ s.seen \in Nat
    BY MetricsAssumption DEF MetricsOK, RowsOK, MeasuredWasSent, MetricsTypeOK, Samples, Publications, Live
  <2>2. s.seen <= seen[rows[s.pub].post]
    BY DEF MetricsOK, MeasuredWasSent
  <2>3. seen[rows[s.pub].post] \in Nat /\ seen'[rows[s.pub].post] >= seen[rows[s.pub].post]
    BY <2>1, MetricsAssumption DEF Look, MetricsOK, MetricsTypeOK
  <2>4. QED
    BY <2>1, <2>2, <2>3, <1>2, MetricsAssumption
<1>5. QED
  BY <1>1, <1>2, <1>3, <1>4 DEF MetricsOK, MetricsTypeOK, MeasuredWasSent, Look, accountVars

LEMMA CollectKeeps ==
    ASSUME AccountOK, MetricsOK, NEW answered \in SUBSET Variants, Collect(answered)
    PROVE  AccountOK' /\ MetricsOK' /\ Grows
<1>1. AccountOK' /\ Grows
  BY IdleGrows DEF Collect
<1>2. RowsOK'
  BY DEF MetricsOK, RowsOK, RecordedIsReal, Collect, accountVars
<1>3. ASSUME NEW v \in answered
      PROVE  /\ SampleOf(v) \in Samples /\ SampleOf(v).pub = v
             /\ rows[v].status = "PUBLISHED"
             /\ account[rows[v].post] \in {"sent", "deleted"}
             /\ SampleOf(v).seen <= seen[rows[v].post]
  <2>1. v \in Variants /\ rows[v].status = "PUBLISHED"
    BY DEF Collect, Due
  <2>2. rows[v].post \in Posts /\ born[rows[v].post] = "sent"
    BY <2>1 DEF MetricsOK, RowsOK, RecordedIsReal, Publications, Live
  <2>3. seen[rows[v].post] \in 0..MaxSeen /\ now \in 0..MaxNow
    BY <2>2 DEF MetricsOK, MetricsTypeOK
  <2>4. SampleOf(v) \in Samples /\ SampleOf(v).pub = v /\ SampleOf(v).seen = seen[rows[v].post]
    BY <2>1, <2>3 DEF SampleOf, Samples
  <2>5. QED
    BY <2>1, <2>2, <2>3, <2>4, MetricsAssumption DEF AccountOK
<1>4. \A s \in metrics' : s \in metrics \/ \E v \in answered : s = SampleOf(v)
  BY DEF Collect, Store
<1>5. metrics' \in SUBSET Samples
  BY <1>3, <1>4 DEF MetricsOK, MetricsTypeOK
<1>6. MeasuredWasSent'
  BY <1>3, <1>4 DEF Collect, MeasuredWasSent, MetricsOK, accountVars
<1>7. QED
  BY <1>1, <1>2, <1>5, <1>6 DEF MetricsOK, MetricsTypeOK, Collect

LEMMA NextDayKeeps ==
    ASSUME AccountOK, MetricsOK, NextDay PROVE AccountOK' /\ MetricsOK' /\ Grows
<1>1. AccountOK' /\ Grows
  BY IdleGrows DEF NextDay
<1>2. now' \in 0..MaxNow
  BY MetricsAssumption DEF NextDay, MetricsOK, MetricsTypeOK
<1>3. RowsOK' /\ MeasuredWasSent'
  BY DEF MetricsOK, RowsOK, RecordedIsReal, MeasuredWasSent, NextDay, accountVars
<1>4. QED
  BY <1>1, <1>2, <1>3 DEF MetricsOK, MetricsTypeOK, NextDay

LEMMA MetricsStepKeeps ==
    ASSUME AccountOK, MetricsOK, MetricsStep PROVE AccountOK' /\ MetricsOK' /\ Grows
BY PublishKeeps, LookKeeps, CollectKeeps, NextDayKeeps DEF MetricsStep
-------------------------------------------------------------------------------
(* The samples of a publication, one after the other.                        *)

LEMMA SeriesUnmoved == ASSUME SeriesGrow, UNCHANGED metricsVars PROVE SeriesGrow'
BY DEF SeriesGrow, metricsVars

\* A new sample is the newest of its publication and shows no less than the others.
LEMMA CollectGrows ==
    ASSUME AccountOK, MetricsOK, SeriesGrow, NEW answered \in SUBSET Variants, Collect(answered)
    PROVE  SeriesGrow'
<1>1. /\ \A s \in metrics' : s \in metrics \/ \E v \in answered : s = SampleOf(v)
      /\ \A s \in metrics' \ metrics : ~\E old \in metrics : old.pub = s.pub /\ old.at = s.at
      /\ now' = now
  BY DEF Collect, Store
<1>2. metrics \subseteq Samples /\ now \in Nat /\ \A s \in metrics : s.at \in Nat /\ s.seen \in Nat
  BY MetricsAssumption DEF MetricsOK, MetricsTypeOK, Samples
<1>3. ASSUME NEW v \in answered
      PROVE  /\ SampleOf(v).pub = v /\ SampleOf(v).at = now
             /\ SampleOf(v).seen = seen[rows[v].post] /\ SampleOf(v).seen \in Nat
  <2>1. v \in Variants /\ rows[v].post \in Posts
    BY DEF Collect, Due, MetricsOK, RowsOK, RecordedIsReal, Publications, Live
  <2>2. seen[rows[v].post] \in Nat
    BY <2>1, MetricsAssumption DEF MetricsOK, MetricsTypeOK
  <2>3. QED
    BY <2>2 DEF SampleOf
<1>4. \A s \in metrics' : s.at <= now'
  BY <1>1, <1>2, <1>3 DEF SeriesGrow
<1>5. ASSUME NEW s \in metrics', NEW t \in metrics', s.pub = t.pub, s.at <= t.at
      PROVE  s.seen <= t.seen /\ (s.at = t.at => s = t)
  <2>1. CASE s \in metrics /\ t \in metrics
    BY <1>5, <2>1 DEF SeriesGrow
  <2>2. CASE s \in metrics /\ t \notin metrics
    <3>1. PICK v \in answered : t = SampleOf(v)
      BY <1>1, <2>2
    <3>2. s.seen <= seen[rows[s.pub].post] /\ s.pub = v
      BY <1>3, <1>5, <2>2, <3>1 DEF MetricsOK, MeasuredWasSent
    <3>3. s.at # t.at
      BY <1>1, <1>5, <2>2
    <3>4. QED
      BY <1>3, <3>1, <3>2, <3>3
  <2>3. CASE s \notin metrics
    <3>1. PICK v \in answered : s = SampleOf(v)
      BY <1>1, <2>3
    <3>2. s.at = now
      BY <1>3, <3>1
    <3>3. t.at = now
      BY <1>1, <1>2, <1>3, <1>5, <3>2 DEF SeriesGrow
    <3>4. t \notin metrics
      BY <1>1, <1>5, <2>3, <3>2, <3>3
    <3>5. PICK w \in answered : t = SampleOf(w)
      BY <1>1, <3>4
    <3>6. v = w /\ s = t /\ s.seen \in Nat
      BY <1>3, <1>5, <3>1, <3>5
    <3>7. QED
      BY <3>6
  <2>4. QED
    BY <2>1, <2>2, <2>3
<1>6. QED
  BY <1>2, <1>3, <1>1, <1>4, <1>5 DEF SeriesGrow

LEMMA MetricsStepGrows ==
    ASSUME AccountOK, MetricsOK, SeriesGrow, MetricsStep PROVE SeriesGrow'
<1>1. CASE \E answered \in SUBSET Variants : Collect(answered)
  BY <1>1, CollectGrows
<1>2. CASE NextDay
  <2>1. now \in Nat /\ \A s \in metrics : s.at \in Nat
    BY MetricsAssumption DEF MetricsOK, MetricsTypeOK, Samples
  <2>2. QED
    BY <1>2, <2>1 DEF NextDay, SeriesGrow
<1>3. CASE UNCHANGED <<metrics, now>>
  BY <1>3 DEF SeriesGrow
<1>4. QED
  BY <1>1, <1>2, <1>3 DEF MetricsStep, PublishNothing, PublishPost, Look
-------------------------------------------------------------------------------
(* The weekly report, of one state.                                          *)

\* Of each publication with samples in the window there is a newest one.
LEMMA NewestSample ==
    ASSUME MetricsOK, NEW s \in Window
    PROVE  \E t \in MetricsBetween : t.pub = s.pub /\ s.at <= t.at
<1> DEFINE Mine == {t \in Window : t.pub = s.pub}
           Age(t) == MaxNow - t.at
           Ages == {Age(t) : t \in Mine}
<1>1. \A t \in Window : t.at \in 0..MaxNow
  BY DEF Window, MetricsOK, MetricsTypeOK, Samples
<1>2. Ages \subseteq Nat /\ Ages # {}
  BY <1>1, MetricsAssumption
<1>3. PICK a \in Ages : \A b \in Ages : ~(<<b, a>> \in OpToRel(<, Nat))
  <2> HIDE DEF Ages
  <2>1. QED
    BY <1>2, NatLessThanWellFounded, WFMin
<1>4. \A b \in Ages : ~(b < a)
  BY <1>2, <1>3 DEF OpToRel
<1>5. PICK t \in Mine : a = Age(t)
  OBVIOUS
<1>6. ASSUME NEW other \in Window, other.pub = t.pub PROVE other.at <= t.at
  <2>1. Age(other) \in Ages
    BY <1>5, <1>6
  <2>2. ~(Age(other) < Age(t))
    BY <1>4, <1>5, <2>1
  <2>3. other.at \in 0..MaxNow /\ t.at \in 0..MaxNow
    BY <1>1, <1>5, <1>6
  <2> HIDE DEF Ages
  <2>4. QED
    BY <2>2, <2>3, MetricsAssumption
<1>7. QED
  BY <1>5, <1>6 DEF MetricsBetween

\* Two samples of the report are of different posts.
LEMMA ReportedApart ==
    ASSUME MetricsOK, SeriesGrow, NEW s \in MetricsBetween, NEW t \in MetricsBetween
    PROVE  /\ rows[s.pub].post \in Posts
           /\ s.pub = t.pub => s = t
           /\ rows[s.pub].post = rows[t.pub].post => s = t
<1>1. /\ s \in Window /\ t \in Window /\ s \in metrics /\ t \in metrics
      /\ s.at \in Nat /\ t.at \in Nat /\ s.pub \in Variants /\ t.pub \in Variants
  BY MetricsAssumption DEF MetricsBetween, Window, MetricsOK, MetricsTypeOK, Samples
<1>2. s.pub = t.pub => s = t
  BY <1>1 DEF MetricsBetween, SeriesGrow
<1>3. rows[s.pub].status = "PUBLISHED" /\ rows[t.pub].status = "PUBLISHED"
  BY <1>1 DEF MetricsOK, MeasuredWasSent
<1>4. QED
  BY <1>1, <1>2, <1>3 DEF MetricsOK, RowsOK, RecordedIsReal, Publications, Live

\* The pillars partition what is reported, and each sample is of a post of its own.
LEMMA PillarsAddUp ==
    ASSUME MetricsOK, SeriesGrow
    PROVE  SumFunction([pillar \in DOMAIN ByPillar |-> ByPillar[pillar].seen]) <= SumFunction(seen)
<1> DEFINE S == MetricsBetween
           f == [s \in S |-> s.seen]
           h == [s \in S |-> rows[s.pub].post]
           P == {s.pillar : s \in S}
           group == [s \in S |-> s.pillar]
           total == [pillar \in P |-> ByPillar[pillar].seen]
<1>1. IsFiniteSet(Posts) /\ DOMAIN seen = Posts /\ \A p \in Posts : seen[p] \in Nat
  BY MetricsAssumption DEF MetricsOK, MetricsTypeOK
<1>2. \A s \in S : s \in metrics /\ f[s] = s.seen /\ f[s] \in Nat
  BY MetricsAssumption DEF MetricsBetween, Window, MetricsOK, MetricsTypeOK, Samples
<1>3. h \in Injection(S, Posts)
  BY ReportedApart DEF Injection, IsInjective
<1>4. IsFiniteSet(S)
  BY <1>1, <1>3, FS_Injection
<1>5. SumFunctionOnSet(f, S) <= SumFunctionOnSet(seen, Posts)
  <2>1. \A s \in S : f[s] <= seen[h[s]]
    BY <1>2 DEF MetricsOK, MeasuredWasSent
  <2> HIDE DEF S, f, h
  <2>2. QED
    BY <1>1, <1>2, <1>3, <2>1, SumInjects
<1>6. group \in [S -> P] /\ group \in Surjection(S, P)
  BY DEF Surjection
<1>7. IsFiniteSet(P)
  BY <1>4, <1>6, FS_Surjection
<1>8. ASSUME NEW pillar \in P
      PROVE  total[pillar] = SumFunctionOnSet(f, {s \in S : group[s] = pillar})
  <2> DEFINE mine == {s \in S : s.pillar = pillar}
             g == [s \in mine |-> s.seen]
  <2>1. mine = {s \in S : group[s] = pillar}
    OBVIOUS
  <2>2. total[pillar] = SumFunctionOnSet(g, mine)
    BY DEF ByPillar, Bucket, SumFunction
  <2>3. IsFiniteSet(mine) /\ \A s \in mine : g[s] = f[s]
    BY <1>4, FS_Subset
  <2> HIDE DEF mine, g, f, total, group
  <2>4. QED
    BY <2>1, <2>2, <2>3, SumAgrees
<1>9. SumFunctionOnSet(total, P) = SumFunctionOnSet(f, S)
  <2>1. \A s \in S : f[s] \in Nat
    BY <1>2
  <2>2. group \in [S -> P]
    BY <1>6
  <2>3. \A pillar \in P :
            total[pillar] = SumFunctionOnSet(f, {s \in S : group[s] = pillar})
    BY <1>8
  <2> HIDE DEF S, f, P, group, total
  <2>4. QED
    BY <1>4, <1>7, <2>1, <2>2, <2>3, SumOfGroups
<1>10. SumFunction(total) = SumFunctionOnSet(total, P) /\ DOMAIN ByPillar = P
  BY DEF SumFunction, ByPillar
<1>11. SumFunction(seen) = SumFunctionOnSet(seen, Posts)
  BY <1>1 DEF SumFunction
<1> HIDE DEF S, f, P, total
<1>12. QED
  BY <1>5, <1>9, <1>10, <1>11 DEF total

LEMMA ReportCountsOnce == ASSUME MetricsOK, SeriesGrow PROVE CountedOnce
<1>1. \A s, t \in MetricsBetween : s.pub = t.pub => s = t
  BY ReportedApart
<1>2. ASSUME NEW s \in metrics, s.at >= now - Lookback
      PROVE  \E t \in MetricsBetween : t.pub = s.pub /\ t.seen >= s.seen
  <2>1. s \in Window
    BY <1>2 DEF Window, SeriesGrow
  <2>2. PICK t \in MetricsBetween : t.pub = s.pub /\ s.at <= t.at
    BY <2>1, NewestSample
  <2>3. t \in metrics /\ s.seen \in Nat /\ t.seen \in Nat
    BY MetricsAssumption DEF MetricsBetween, Window, MetricsOK, MetricsTypeOK, Samples
  <2>4. QED
    BY <2>2, <2>3 DEF SeriesGrow
<1>3. QED
  BY <1>1, <1>2, PillarsAddUp DEF CountedOnce
-------------------------------------------------------------------------------
(* The script's part.                                                        *)

LEMMA CaptureUnmoved ==
    ASSUME AccountOK, CaptureOK, AccountOK', Grows, UNCHANGED captureVars
    PROVE  CaptureOK'
<1>1. /\ tests \subseteq Posts /\ removed \subseteq tests /\ saidDeleted \subseteq tests
      /\ post # Nothing => post \in tests
      /\ fixtures.draft.of \in Posts \cup {Nothing} /\ fixtures.metrics.of \in Posts \cup {Nothing}
  BY DEF CaptureOK, CaptureTypeOK, Documents
<1>2. /\ \A p \in tests : born'[p] # "absent" /\ born'[p] = born[p]
      /\ \A p \in saidDeleted : account'[p] \in {"sent", "deleted"}
  BY <1>1 DEF CaptureOK, Grows
<1>3. fixtures.draft # Blank => born'[fixtures.draft.of] = born[fixtures.draft.of]
  BY <1>1 DEF CaptureOK, FixtureIsEvidence, Grows
<1>4. fixtures.metrics.checked => account'[fixtures.metrics.of] \in {"sent", "deleted"}
  BY <1>1 DEF CaptureOK, FixtureIsEvidence, Grows
<1>5. QED
  BY <1>1, <1>2, <1>3, <1>4 DEF CaptureOK, CaptureTypeOK, CleanupIsSafe, FixtureIsEvidence, captureVars

\* What was written is still true, and what is written now is if it says so of a
\* post of which it is true.
TrueDraft(d) == d \in Documents /\ (d # Blank => d.of \in Posts /\ born'[d.of] \in {"draft", "queued"})

TrueFigures(d) == d \in Documents /\ (d.checked => d.of \in Posts /\ account'[d.of] \in {"sent", "deleted"})

LEMMA FixturesStayTrue ==
    ASSUME AccountOK, CaptureOK, Grows PROVE TrueDraft(fixtures.draft) /\ TrueFigures(fixtures.metrics)
BY DEF CaptureOK, CaptureTypeOK, Documents, FixtureIsEvidence, Grows, TrueDraft, TrueFigures

LEMMA FixturesWritten ==
    ASSUME fixtures' \in [draft : Documents, metrics : Documents],
           TrueDraft(fixtures'.draft), TrueFigures(fixtures'.metrics)
    PROVE  /\ fixtures'.draft # Blank => fixtures'.draft.of # Nothing
           /\ fixtures'.metrics.checked => fixtures'.metrics.of # Nothing
           /\ FixtureIsEvidence'
BY CaptureAssumption DEF FixtureIsEvidence, TrueDraft, TrueFigures

LEMMA CreateTestKeeps ==
    ASSUME AccountOK, CaptureOK, NEW p \in Posts, NEW state \in NewStates(TRUE),
           NEW reply \in Receipts[state], CreateTest(p, state, reply)
    PROVE  AccountOK' /\ CaptureOK' /\ Grows
<1>1. state \in {"draft", "queued", "sent"}
  BY NewStatesShape
<1>2. AccountOK' /\ Grows /\ born'[p] = state /\ born[p] = "absent"
  BY <1>1, CreateGrows DEF CreateTest
<1>3. /\ tests' = tests \cup {p} /\ tests \subseteq Posts
      /\ removed' = removed /\ removed \subseteq tests
      /\ saidDeleted' = saidDeleted /\ saidDeleted \subseteq removed
  BY DEF CreateTest, CaptureOK, CaptureTypeOK
<1>4. /\ \A q \in tests' : born'[q] # "absent"
      /\ \A q \in removed' : born'[q] # "sent"
      /\ \A q \in saidDeleted' : account'[q] \in {"sent", "deleted"}
  <2>1. \A q \in tests : q \in Posts /\ born'[q] = born[q] /\ born[q] # "absent"
    BY <1>2, <1>3 DEF CaptureOK, Grows
  <2>2. QED
    BY <1>1, <1>2, <1>3, <2>1 DEF CaptureOK, CleanupIsSafe, Grows
<1>5. CASE reply.post.id /\ Classify(reply.post) = "STAGED_NOT_SENT"
  <2>1. state \in {"draft", "queued"}
    BY <1>1, <1>5, StagedWasStaged
  <2>2. /\ post' = p
        /\ fixtures' = [draft |-> [of |-> p, checked |-> TRUE], metrics |-> fixtures.metrics]
    BY <1>5 DEF CreateTest, CaptureOK, CaptureTypeOK
  <2>3. TrueDraft([of |-> p, checked |-> TRUE])
    BY <1>2, <2>1 DEF TrueDraft, Documents
  <2>4. /\ fixtures' \in [draft : Documents, metrics : Documents]
        /\ fixtures'.draft # Blank => fixtures'.draft.of # Nothing
        /\ fixtures'.metrics.checked => fixtures'.metrics.of # Nothing
        /\ FixtureIsEvidence'
    <3>1. TrueFigures(fixtures.metrics)
      BY <1>2, FixturesStayTrue
    <3>2. /\ fixtures' \in [draft : Documents, metrics : Documents]
          /\ TrueDraft(fixtures'.draft) /\ TrueFigures(fixtures'.metrics)
      BY <2>2, <2>3, <3>1 DEF TrueDraft, TrueFigures
    <3>3. QED
      BY <3>2, FixturesWritten
  <2>5. QED
    BY <1>2, <1>3, <1>4, <2>1, <2>2, <2>4 DEF CaptureOK, CaptureTypeOK, CleanupIsSafe
<1>6. CASE ~(reply.post.id /\ Classify(reply.post) = "STAGED_NOT_SENT")
  <2>1. post' = post /\ fixtures' = fixtures
    BY <1>6 DEF CreateTest
  <2>2. /\ fixtures' \in [draft : Documents, metrics : Documents]
        /\ TrueDraft(fixtures'.draft) /\ TrueFigures(fixtures'.metrics)
    BY <1>2, <2>1, FixturesStayTrue DEF CaptureOK, CaptureTypeOK
  <2>3. /\ fixtures'.draft # Blank => fixtures'.draft.of # Nothing
        /\ fixtures'.metrics.checked => fixtures'.metrics.of # Nothing
        /\ FixtureIsEvidence'
    BY <2>2, FixturesWritten
  <2>4. post # Nothing => post \in Posts /\ born'[post] \in {"draft", "queued"}
    BY <1>2 DEF CaptureOK, CaptureTypeOK, Grows
  <2>5. post' \in tests' \cup {Nothing}
    BY <1>3, <2>1 DEF CaptureOK, CaptureTypeOK
  <2>6. QED
    BY <1>2, <1>3, <1>4, <2>1, <2>2, <2>3, <2>4, <2>5 DEF CaptureOK, CaptureTypeOK, CleanupIsSafe
<1>7. QED
  BY <1>5, <1>6

\* Finish leaves the createPost fixture alone and claims nothing of the other.
LEMMA FinishWrites ==
    ASSUME AccountOK, CaptureOK, AccountOK', Grows, NEW asked \in Posts \cup {Nothing}, Finish(asked)
    PROVE  /\ post' = Nothing
           /\ fixtures' \in [draft : Documents, metrics : Documents]
           /\ fixtures'.draft # Blank => fixtures'.draft.of # Nothing
           /\ fixtures'.metrics.checked => fixtures'.metrics.of # Nothing
           /\ FixtureIsEvidence'
<1>1. TrueDraft(fixtures.draft) /\ TrueFigures(fixtures.metrics)
  BY FixturesStayTrue
<1>2. asked # Nothing => TrueFigures([of |-> asked, checked |-> FALSE])
  BY DEF TrueFigures, Documents
<1>3. /\ fixtures' \in [draft : Documents, metrics : Documents]
      /\ TrueDraft(fixtures'.draft) /\ TrueFigures(fixtures'.metrics)
  <2>1. CASE asked = Nothing
    BY <1>1, <2>1 DEF Finish, CaptureOK, CaptureTypeOK
  <2>2. CASE asked # Nothing
    <3>1. fixtures' = [draft |-> fixtures.draft, metrics |-> [of |-> asked, checked |-> FALSE]]
      BY <2>2 DEF Finish, CaptureOK, CaptureTypeOK
    <3>2. QED
      BY <1>1, <1>2, <2>2, <3>1 DEF TrueDraft, TrueFigures
  <2>3. QED
    BY <2>1, <2>2
<1>4. QED
  BY <1>3, FixturesWritten DEF Finish

LEMMA DeleteTestKeeps ==
    ASSUME AccountOK, CaptureOK, NEW carriedOut \in BOOLEAN,
           NEW reply \in {"raised", "rejected", "deleted"},
           NEW asked \in Posts \cup {Nothing}, DeleteTest(carriedOut, reply, asked)
    PROVE  AccountOK' /\ CaptureOK' /\ Grows
<1>1. /\ post \in tests /\ post \in Posts /\ born[post] \in {"draft", "queued"}
      /\ tests \subseteq Posts /\ removed \subseteq tests /\ saidDeleted \subseteq removed
  BY DEF DeleteTest, CaptureOK, CaptureTypeOK
<1>2. /\ born' = born
      /\ account' = account \/ account' = [account EXCEPT ![post] = "deleted"]
      /\ account' # account => account[post] \in {"draft", "queued"}
  BY DEF DeleteTest
<1>3. AccountOK' /\ Grows
  BY <1>1, <1>2 DEF AccountOK, Grows
<1>4. reply = "deleted" => account'[post] \in {"sent", "deleted"}
  <2>1. account[post] # "absent" /\ account[post] \in PostStates
    BY <1>1 DEF AccountOK
  <2>2. QED
    BY <1>1, <2>1 DEF DeleteTest, AccountOK
<1>5. /\ removed' = removed \cup {post} /\ tests' = tests
      /\ saidDeleted' \subseteq removed'
      /\ \A p \in saidDeleted' : account'[p] \in {"sent", "deleted"}
  BY <1>1, <1>3, <1>4 DEF DeleteTest, Confirms, CaptureOK, Grows
<1>6. /\ post' = Nothing
      /\ fixtures' \in [draft : Documents, metrics : Documents]
      /\ fixtures'.draft # Blank => fixtures'.draft.of # Nothing
      /\ fixtures'.metrics.checked => fixtures'.metrics.of # Nothing
      /\ FixtureIsEvidence'
  BY <1>3, FinishWrites DEF DeleteTest
<1>7. QED
  BY <1>1, <1>2, <1>3, <1>5, <1>6 DEF CaptureOK, CaptureTypeOK, CleanupIsSafe

LEMMA KeepTestKeeps ==
    ASSUME AccountOK, CaptureOK, NEW asked \in Posts \cup {Nothing}, KeepTest(asked)
    PROVE  AccountOK' /\ CaptureOK' /\ Grows
<1>1. AccountOK' /\ Grows
  BY IdleGrows DEF KeepTest
<1>2. /\ post' = Nothing
      /\ fixtures' \in [draft : Documents, metrics : Documents]
      /\ fixtures'.draft # Blank => fixtures'.draft.of # Nothing
      /\ fixtures'.metrics.checked => fixtures'.metrics.of # Nothing
      /\ FixtureIsEvidence'
  BY <1>1, FinishWrites DEF KeepTest
<1>3. QED
  BY <1>1, <1>2 DEF KeepTest, CaptureOK, CaptureTypeOK, CleanupIsSafe, accountVars

LEMMA ReadMetricsKeeps ==
    ASSUME AccountOK, CaptureOK, NEW asked \in Posts, ReadMetrics(asked)
    PROVE  AccountOK' /\ CaptureOK' /\ Grows
<1>1. AccountOK' /\ Grows
  BY IdleGrows DEF ReadMetrics
<1>2. /\ TrueDraft(fixtures.draft)
      /\ TrueFigures([of |-> asked, checked |-> TRUE])
  BY <1>1, FixturesStayTrue DEF TrueFigures, Documents, ReadMetrics, HasBeenSent, accountVars
<1>3. /\ fixtures' \in [draft : Documents, metrics : Documents]
      /\ fixtures'.draft # Blank => fixtures'.draft.of # Nothing
      /\ fixtures'.metrics.checked => fixtures'.metrics.of # Nothing
      /\ FixtureIsEvidence'
  <2>1. fixtures' = [draft |-> fixtures.draft, metrics |-> [of |-> asked, checked |-> TRUE]]
    BY DEF ReadMetrics, CaptureOK, CaptureTypeOK
  <2>2. /\ fixtures' \in [draft : Documents, metrics : Documents]
        /\ TrueDraft(fixtures'.draft) /\ TrueFigures(fixtures'.metrics)
    BY <1>2, <2>1 DEF TrueDraft, TrueFigures
  <2>3. QED
    BY <2>2, FixturesWritten
<1>4. QED
  BY <1>1, <1>3 DEF ReadMetrics, CaptureOK, CaptureTypeOK, CleanupIsSafe, accountVars

LEMMA CaptureStepKeeps ==
    ASSUME AccountOK, CaptureOK, CaptureStep PROVE AccountOK' /\ CaptureOK' /\ Grows
BY CreateTestKeeps, DeleteTestKeeps, KeepTestKeeps, ReadMetricsKeeps DEF CaptureStep
-------------------------------------------------------------------------------
LEMMA InitInvariant == Init => IInv
<1> SUFFICES ASSUME Init PROVE IInv
  OBVIOUS
<1>1. AccountOK
  BY DEF Init, AccountInit, AccountOK
<1>2. MetricsOK
  BY MetricsAssumption DEF Init, MetricsInit, MetricsOK, MetricsTypeOK, RowsOK, RecordedIsReal,
     MeasuredWasSent, Publications, NoRow, Live
<1>3. CaptureOK
  BY DEF Init, CaptureInit, CaptureOK, CaptureTypeOK, CleanupIsSafe, FixtureIsEvidence, Blank, Documents
<1>4. SeriesGrow
  BY DEF Init, MetricsInit, SeriesGrow
<1>5. QED
  BY <1>1, <1>2, <1>3, <1>4 DEF IInv

LEMMA NextInvariant == IInv /\ [Next]_vars => IInv'
<1> SUFFICES ASSUME IInv, [Next]_vars PROVE IInv'
  OBVIOUS
<1> USE DEF IInv
<1>1. CASE MetricsStep /\ UNCHANGED captureVars
  BY <1>1, MetricsStepKeeps, MetricsStepGrows, CaptureUnmoved
<1>2. CASE CaptureStep /\ UNCHANGED metricsVars
  BY <1>2, CaptureStepKeeps, MetricsUnmoved, SeriesUnmoved
<1>3. CASE AccountStep /\ UNCHANGED <<metricsVars, captureVars>>
  BY <1>3, AccountStepGrows, MetricsUnmoved, SeriesUnmoved, CaptureUnmoved
<1>4. CASE UNCHANGED vars
  <2>1. UNCHANGED accountVars /\ UNCHANGED metricsVars /\ UNCHANGED captureVars
    BY <1>4 DEF vars
  <2>2. QED
    BY <2>1, IdleGrows, MetricsUnmoved, SeriesUnmoved, CaptureUnmoved
<1>5. QED
  BY <1>1, <1>2, <1>3, <1>4 DEF Next

LEMMA Invariant == Spec => []IInv
BY InitInvariant, NextInvariant, PTL DEF Spec

\* The tables, the script and the account keep their types.
THEOREM AccountTypes == Spec => []AccountTypeOK
<1>1. IInv => AccountTypeOK
  BY DEF IInv, AccountTypeOK, AccountOK, MetricsOK, CaptureOK
<1>2. QED
  BY Invariant, <1>1, PTL

\* A row that says SCHEDULED or PUBLISHED has a post of its own at Buffer, and
\* PUBLISHED means that it went out, whatever Buffer answered (publish,
\* _status_from, _upsert_publication).
THEOREM RowsAreReal == Spec => []RecordedIsReal
<1>1. IInv => RecordedIsReal
  BY DEF IInv, MetricsOK, RowsOK
<1>2. QED
  BY Invariant, <1>1, PTL

\* Every stored figure is of a post that went out (collect).
THEOREM FiguresAreReal == Spec => []MeasuredWasSent
<1>1. IInv => MeasuredWasSent
  BY DEF IInv, MetricsOK
<1>2. QED
  BY Invariant, <1>1, PTL

\* However often a publication was measured, the weekly report counts it once, by
\* its newest figures, and its pillars together report no more than the posts were
\* seen (metrics_between, _aggregate).
THEOREM ReportedOnce == Spec => []CountedOnce
<1>1. IInv => CountedOnce
  BY ReportCountsOnce DEF IInv
<1>2. QED
  BY Invariant, <1>1, PTL

\* The contract capture deletes no post that went out when it was created,
\* honoured drafts or not (capture_fixtures.py:318-339).
THEOREM CapturesCleanUpSafely == Spec => []CleanupIsSafe
<1>1. IInv => CleanupIsSafe
  BY DEF IInv, CaptureOK
<1>2. QED
  BY Invariant, <1>1, PTL

\* What the fixtures say about the state of their post is true.
THEOREM FixturesAreEvidence == Spec => []FixtureIsEvidence
<1>1. IInv => FixtureIsEvidence
  BY DEF IInv, CaptureOK
<1>2. QED
  BY Invariant, <1>1, PTL

\* A test draft reported as deleted never goes out (delete_post).
THEOREM DeletedNeverGoesOut == Spec => DeletedStaysUnsent
<1>1. IInv /\ [Next]_vars
        => [\A p \in saidDeleted : account[p] # "sent" => account'[p] # "sent"]_<<accountVars, captureVars>>
  <2> SUFFICES ASSUME IInv, [Next]_vars, NEW p \in saidDeleted, account[p] # "sent"
               PROVE  account'[p] # "sent"
    OBVIOUS
  <2>1. account[p] = "deleted" /\ p \in Posts
    BY DEF IInv, CaptureOK, CaptureTypeOK
  <2>2. Grows
    <3>1. AccountOK /\ MetricsOK /\ CaptureOK
      BY DEF IInv
    <3>2. QED
      BY <3>1, MetricsStepKeeps, CaptureStepKeeps, AccountStepGrows, IdleGrows DEF Next, vars
  <2>3. QED
    BY <2>1, <2>2 DEF Grows
<1>2. QED
  BY Invariant, <1>1, PTL DEF Spec, DeletedStaysUnsent
===============================================================================
