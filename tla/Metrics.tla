-------------------------------- MODULE Metrics --------------------------------
(***************************************************************************)
(* What becomes of a publication that was recorded: app/metrics/collector  *)
(* asks Buffer for its figures, app/reports/weekly adds them up.  Publish  *)
(* is one publish_variant against the account; which variants a run        *)
(* submits, and when, is DailyRun's business.                              *)
(***************************************************************************)
EXTENDS BufferAccount, FiniteSets, Functions, Integers

CONSTANTS
    Variants,     \* platform variants; one publication row each
    PillarOf,     \* the pillar of a variant's item
    Lookback,     \* lookback_days
    MaxNow,       \* bound: days
    MaxSeen       \* bound: the figures of a post

Nobody == "NOBODY"

ASSUME MetricsAssumption ==
    /\ Nobody \notin Posts /\ IsFiniteSet(Posts)
    /\ Lookback \in Nat /\ MaxNow \in Nat /\ MaxSeen \in Nat

VARIABLES
    rows,      \* publications
    metrics,   \* post_metrics
    seen,      \* what Buffer knows of each post: a sum of its counters
    now        \* the day

metricsVars == <<rows, metrics, seen, now>>

NoRow == [status |-> "NONE", post |-> Nobody]

Publications ==
    [status : PubStatuses \cup {"NONE"}, post : Posts \cup {Nobody}]

Samples == [pub : Variants, at : 0..MaxNow, seen : 0..MaxSeen, pillar : {PillarOf[v] : v \in Variants}]

MetricsInit ==
    /\ rows = [v \in Variants |-> NoRow]
    /\ metrics = {}
    /\ seen = [p \in Posts |-> 0]
    /\ now = 0

\* _upsert_publication: the id is that of the reply.  The run it belongs to may
\* still be rolled back, and the row with it.
Recorded(v, result, id, commits) ==
    rows' = IF commits
              THEN [rows EXCEPT ![v] = [status |-> result.status, post |-> id]] ELSE rows

\* publish_variant, with a channel or without, and no post comes of it.
PublishNothing(v, result, commits) ==
    /\ ~Live(rows[v].status)
    /\ result \in FailedResults
    /\ Recorded(v, result, Nobody, commits)
    /\ UNCHANGED <<accountVars, metrics, seen, now>>

\* publish_variant, and Buffer made post p.
PublishPost(v, p, asDraft, state, result, commits) ==
    /\ ~Live(rows[v].status)
    /\ state \in NewStates(asDraft) /\ result \in ResultsOf[state]
    /\ Create(p, state)
    /\ Recorded(v, result, IF result.status = "FAILED" THEN Nobody ELSE p, commits)
    /\ UNCHANGED <<metrics, seen, now>>

\* Somebody saw the post.
Look(p) ==
    /\ account[p] = "sent" /\ seen[p] < MaxSeen
    /\ seen' = [seen EXCEPT ![p] = @ + 1]
    /\ UNCHANGED <<accountVars, rows, metrics, now>>

\* What fetch_metrics may bring: a draft has no figures, nor has a deleted post;
\* that one in the queue has none is written nowhere.
HasFigures(p) == account[p] \in {"queued", "sent"}

\* Seeded bug: staged publications are measured too.
DueLive == {v \in Variants : Live(rows[v].status)}

\* The rows collect asks about.
Due == {v \in Variants : rows[v].status = "PUBLISHED"}

\* Seeded bug: the sample does not carry the pillar of its item.
SampleUnattributed(v) ==
    [pub |-> v, at |-> now, seen |-> seen[rows[v].post], pillar |-> "(unattributed)"]

\* The sample, attributed to what its item was then (_attribution).
SampleOf(v) == [pub |-> v, at |-> now, seen |-> seen[rows[v].post], pillar |-> PillarOf[v]]

\* _store: one sample of a publication at a time.
Store(samples) ==
    metrics \cup {s \in samples : ~\E old \in metrics : old.pub = s.pub /\ old.at = s.at}

\* collect: a sample of each due row that Buffer answered for (answered).
Collect(answered) ==
    /\ \A v \in answered : v \in Due /\ HasFigures(rows[v].post)
    /\ metrics' = Store({SampleOf(v) : v \in answered})
    /\ UNCHANGED <<accountVars, rows, seen, now>>

NextDay ==
    /\ now < MaxNow
    /\ now' = now + 1
    /\ UNCHANGED <<accountVars, rows, metrics, seen>>

MetricsStep ==
    \/ \E v \in Variants, commits \in BOOLEAN :
          \/ \E result \in FailedResults : PublishNothing(v, result, commits)
          \/ \E p \in Posts, asDraft \in BOOLEAN : \E state \in NewStates(asDraft) :
                \E result \in ResultsOf[state] : PublishPost(v, p, asDraft, state, result, commits)
    \/ \E p \in Posts : Look(p)
    \/ \E answered \in SUBSET Variants : Collect(answered)
    \/ NextDay
-------------------------------------------------------------------------------
(* The weekly report, as of now.                                           *)

Window == {s \in metrics : s.at >= now - Lookback /\ s.at <= now}

\* Seeded bug: every sample of the window is added up.
AllInWindow == Window

\* metrics_between: the latest sample of each publication in the window.
MetricsBetween == {s \in Window : \A other \in Window : other.pub = s.pub => other.at <= s.at}

\* _aggregate by pillar: how many posts, and what they were seen.
Bucket(pillar) ==
    LET mine == {s \in MetricsBetween : s.pillar = pillar}
    IN  [posts |-> Cardinality(mine),
         seen |-> SumFunction([s \in mine |-> s.seen])]

ByPillar == [pillar \in {s.pillar : s \in MetricsBetween} |-> Bucket(pillar)]
-------------------------------------------------------------------------------
MetricsTypeOK ==
    /\ rows \in [Variants -> Publications]
    /\ metrics \in SUBSET Samples
    /\ seen \in [Posts -> 0..MaxSeen]
    /\ now \in 0..MaxNow

\* RecordedIsReal: whatever createPost answered, a row that says SCHEDULED or
\* PUBLISHED has a post of its own at Buffer, and one that says PUBLISHED a post
\* that did go out ("staged is the safe reading", buffer.py:464).  A lost row may
\* leave a post behind; a lost post never leaves a row.
RecordedIsReal ==
    \A v \in Variants :
        Live(rows[v].status) =>
            /\ rows[v].post # Nobody
            /\ born[rows[v].post] # "absent"
            /\ rows[v].status = "PUBLISHED" => born[rows[v].post] = "sent"
            /\ \A w \in Variants : rows[w].post = rows[v].post => w = v

\* MeasuredWasSent: figures are stored only of posts that went out, though Buffer
\* may have some for others, and never more than Buffer has.
MeasuredWasSent ==
    \A s \in metrics :
        /\ rows[s.pub].status = "PUBLISHED"
        /\ account[rows[s.pub].post] \in {"sent", "deleted"}
        /\ s.seen <= seen[rows[s.pub].post]

\* CountedOnce: the report counts each publication once, by its newest figures,
\* however often it was measured in the window, and the pillars together report no
\* more than the posts were seen.
CountedOnce ==
    /\ \A s, t \in MetricsBetween : s.pub = t.pub => s = t
    /\ \A s \in metrics :
          s.at >= now - Lookback => \E t \in MetricsBetween : t.pub = s.pub /\ t.seen >= s.seen
    /\ SumFunction([pillar \in DOMAIN ByPillar |-> ByPillar[pillar].seen]) <= SumFunction(seen)
===============================================================================
