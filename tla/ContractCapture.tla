---------------------------- MODULE ContractCapture ----------------------------
(***************************************************************************)
(* scripts/capture_fixtures.py: a person runs it by hand against the       *)
(* account that the engine publishes to.  It creates a test draft, checks  *)
(* that it is staged, writes what it saw as a fixture and deletes it; or,  *)
(* with --metrics-only, it reads the metrics of a post that went out.      *)
(* Dry runs and missing arguments end before anything is sent and are left *)
(* out, as is the sanitising of the fixtures.                              *)
(***************************************************************************)
EXTENDS BufferAccount, FiniteSets, Naturals

CONSTANT MaxTests    \* bound: test posts the script creates

Nothing == "NOTHING"

ASSUME CaptureAssumption == Nothing \notin Posts /\ MaxTests \in Nat

VARIABLES
    post,         \* the post it is at work on
    tests,        \* posts the script created
    removed,      \* posts it asked Buffer to delete
    saidDeleted,  \* posts it reported as deleted
    fixtures      \* tests/fixtures: the post each document was captured from

captureVars == <<post, tests, removed, saidDeleted, fixtures>>

\* buffer_create_post_draft.json and buffer_post_metrics.json; checked: sentAt of
\* the post was looked at before the document was written.
Documents == [of : Posts \cup {Nothing}, checked : BOOLEAN]

Blank == [of |-> Nothing, checked |-> FALSE]

CaptureInit ==
    /\ post = Nothing
    /\ tests = {} /\ removed = {} /\ saidDeleted = {}
    /\ fixtures = [draft |-> Blank, metrics |-> Blank]

\* Seeded bug: what the adapter reads as staged is staged.
ClassifyByAdapter(shown) ==
    IF StatusFrom(shown) = "PUBLISHED" THEN "PUBLISHED" ELSE "STAGED_NOT_SENT"

\* classify_publication_state: an unknown status is not evidence of a draft.
Classify(shown) ==
    IF StatusFrom(shown) = "PUBLISHED" THEN "PUBLISHED"
    ELSE IF shown.status \in StagedStatuses THEN "STAGED_NOT_SENT" ELSE "AMBIGUOUS"

\* --execute.  Errors beside a post are not looked at.  Without an id the script
\* gives up, and what is not confirmed staged it leaves for a person to look into;
\* so does a lost reply.
CreateTest(p, state, reply) ==
    /\ post = Nothing /\ Cardinality(tests) < MaxTests
    /\ state \in NewStates(TRUE) /\ reply \in Receipts[state]
    /\ Create(p, state)
    /\ tests' = tests \cup {p}
    /\ IF reply.post.id /\ Classify(reply.post) = "STAGED_NOT_SENT"
         THEN /\ post' = p
              /\ fixtures' = [fixtures EXCEPT !.draft = [of |-> p, checked |-> TRUE]]
         ELSE UNCHANGED <<post, fixtures>>
    /\ UNCHANGED <<removed, saidDeleted>>

\* Seeded bug: a delete that did not raise counts as done.
ConfirmsUnlessRaised(reply) == reply # "raised"

\* delete_post returns True: no error, and the id of the deleted post.
Confirms(reply) == reply = "deleted"

\* With --metrics-post-id, the metrics query at the end: whatever comes back for
\* that post is written, unless the request raised.
Finish(asked) ==
    /\ fixtures' = IF asked = Nothing THEN fixtures
                   ELSE [fixtures EXCEPT !.metrics = [of |-> asked, checked |-> FALSE]]
    /\ post' = Nothing

\* Cleaning up: Buffer carries the request out or not, and the reply may be lost.
\* A post that went out in the meantime is not retracted.
DeleteTest(carriedOut, reply, asked) ==
    /\ post # Nothing
    /\ reply # "raised" => carriedOut = (reply = "deleted")
    /\ account' = IF carriedOut /\ account[post] \in {"draft", "queued"}
                    THEN [account EXCEPT ![post] = "deleted"] ELSE account
    /\ removed' = removed \cup {post}
    /\ saidDeleted' = IF Confirms(reply) THEN saidDeleted \cup {post} ELSE saidDeleted
    /\ Finish(asked)
    /\ UNCHANGED <<born, tests>>

\* --keep-draft.
KeepTest(asked) ==
    /\ post # Nothing
    /\ Finish(asked)
    /\ UNCHANGED <<accountVars, tests, removed, saidDeleted>>

\* Seeded bug: metrics are taken to prove that the post went out.
HasBeenSentByMetrics(p) == account[p] \in {"queued", "sent"}

\* sentAt of the post, as the query returns it.
HasBeenSent(p) == account[p] = "sent"

\* _capture_metrics_only: a query that raised, was rejected or shows a post that
\* was not sent ends it.
ReadMetrics(asked) ==
    /\ post = Nothing
    /\ HasBeenSent(asked)
    /\ fixtures' = [fixtures EXCEPT !.metrics = [of |-> asked, checked |-> TRUE]]
    /\ UNCHANGED <<accountVars, post, tests, removed, saidDeleted>>

CaptureStep ==
    \/ \E p \in Posts : \E state \in NewStates(TRUE) : \E reply \in Receipts[state] : CreateTest(p, state, reply)
    \/ \E carriedOut \in BOOLEAN, reply \in {"raised", "rejected", "deleted"}, asked \in Posts \cup {Nothing} :
          DeleteTest(carriedOut, reply, asked)
    \/ \E asked \in Posts \cup {Nothing} : KeepTest(asked)
    \/ \E asked \in Posts : ReadMetrics(asked)
-------------------------------------------------------------------------------
CaptureTypeOK ==
    /\ post \in tests \cup {Nothing}
    /\ tests \in SUBSET Posts /\ removed \in SUBSET tests /\ saidDeleted \in SUBSET removed
    /\ fixtures \in [draft : Documents, metrics : Documents]

\* CleanupIsSafe: the script never asks Buffer to delete a test post that went out
\* when it was created, as it may where saveToDraft is not honoured: that would
\* destroy the evidence (capture_fixtures.py:15-17).  One that was still in the
\* queue may go out before the delete.
CleanupIsSafe == \A p \in removed : born[p] # "sent"

\* FixtureIsEvidence: the createPost fixture was captured from a post that had not
\* gone out, and the metrics fixture, where the post was checked, from one that had
\* ("evidence, not intent", capture_fixtures.py:346), whatever became of the posts
\* since.
FixtureIsEvidence ==
    /\ fixtures.draft # Blank => born[fixtures.draft.of] \in {"draft", "queued"}
    /\ fixtures.metrics.checked => account[fixtures.metrics.of] \in {"sent", "deleted"}

\* DeletedStaysUnsent: a test post the script reports as deleted does not go out
\* afterwards: "a failure is reported, never assumed away, so a leftover draft is
\* visible rather than silent" (buffer.py:293-294).
DeletedStaysUnsent ==
    [][\A p \in saidDeleted : account[p] # "sent" => account'[p] # "sent"]_<<accountVars, captureVars>>
===============================================================================
