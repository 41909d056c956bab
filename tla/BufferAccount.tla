----------------------------- MODULE BufferAccount -----------------------------
(***************************************************************************)
(* The Buffer account and the wire: which posts there are, what createPost *)
(* may answer, and how the adapter (app/publisher/buffer.py) reads it.     *)
(* Publisher has the same answers without the wire.                        *)
(*                                                                         *)
(* The account is external.  Whether saveToDraft is honoured is "the       *)
(* assumption under test" of scripts/capture_fixtures.py, so a constant.   *)
(***************************************************************************)
EXTENDS Publisher

CONSTANTS
    Posts,          \* bound: ids that Buffer gives to posts
    HonoursDraft    \* whether saveToDraft keeps a post from going out

ASSUME AccountAssumption == HonoursDraft \in BOOLEAN

VARIABLES
    account,   \* what is in the account
    born       \* history: what each post was when createPost made it

accountVars == <<account, born>>

PostStates == {"absent", "draft", "queued", "sent", "deleted"}

AccountInit ==
    /\ account = [p \in Posts |-> "absent"]
    /\ born = account

\* What becomes of a post right after createPost.
NewStates(asDraft) ==
    IF asDraft /\ HonoursDraft THEN {"draft"}
    ELSE IF asDraft THEN {"draft", "queued", "sent"} ELSE {"queued", "sent"}

Create(p, state) ==
    /\ account[p] = "absent"
    /\ account' = [account EXCEPT ![p] = state]
    /\ born' = [born EXCEPT ![p] = state]

\* A post in the queue goes out at its time.
Dispatch(p) ==
    /\ account[p] = "queued"
    /\ account' = [account EXCEPT ![p] = "sent"]
    /\ UNCHANGED born

\* A person looks through the account: drafts are released or thrown away.
Release(p) ==
    /\ account[p] = "draft"
    /\ account' = [account EXCEPT ![p] = "queued"]
    /\ UNCHANGED born

Discard(p) ==
    /\ account[p] \in {"draft", "queued", "sent"}
    /\ account' = [account EXCEPT ![p] = "deleted"]
    /\ UNCHANGED born
-------------------------------------------------------------------------------
\* The post of a createPost payload; without an id it is of no use to anyone.
ShownPost == [id : BOOLEAN, status : {"draft", "buffer", "sent", "other"}, sentAt : BOOLEAN]
NoPost    == [id |-> FALSE, status |-> "other", sentAt |-> FALSE]

\* through: the request did not raise.  errors: the GraphQL errors carry a client
\* code or none.  refused: the MutationError arm of the union.
Reply == [through : BOOLEAN, errors : {"none", "client", "server"}, refused : BOOLEAN,
          post : ShownPost]

Silence == [through |-> FALSE, errors |-> "none", refused |-> FALSE, post |-> NoPost]

Heard(errors, post) == [through |-> TRUE, errors |-> errors, refused |-> FALSE, post |-> post]

MutationError == [through |-> TRUE, errors |-> "none", refused |-> TRUE, post |-> NoPost]

\* How Buffer shows a post of its own.  The documentation does not pin the status
\* of a sent one, and sentAt may still be empty.
Shown(state) ==
    {shown \in ShownPost :
        /\ shown.id
        /\ shown.sentAt => state = "sent"
        /\ shown.status = "draft" => state = "draft"
        /\ shown.status = "buffer" => state = "queued"
        /\ shown.status = "sent" => state = "sent"
        /\ shown.status = "other" => state = "sent"}

\* What createPost may answer when it made no post, and when it made one.
Refusals == {Silence, MutationError, Heard("client", NoPost), Heard("server", NoPost)}

Receipts ==
    [state \in {"draft", "queued", "sent"} |->
        {Silence, Heard("none", NoPost), Heard("server", NoPost)}
          \cup {Heard(e, shown) : e \in {"none", "server"}, shown \in Shown(state)}]

StagedStatuses == {"draft", "buffer"}

\* Seeded bug: whatever is not in draft is taken to be out.
StatusUnlessDraft(post) == IF post.status = "draft" THEN "SCHEDULED" ELSE "PUBLISHED"

\* _status_from: an unknown status reads as staged.
StatusFrom(post) ==
    IF post.sentAt \/ post.status = "sent" THEN "PUBLISHED" ELSE "SCHEDULED"

Failed(retryable) == [status |-> "FAILED", retryable |-> retryable]

\* BufferPublisher.publish, once a channel was found for the role.
ResultOf(reply) ==
    IF ~reply.through \/ reply.errors = "server" THEN Failed(TRUE)
    ELSE IF reply.errors = "client" \/ reply.refused THEN Failed(FALSE)
    ELSE IF ~reply.post.id THEN Failed(TRUE)
    ELSE [status |-> StatusFrom(reply.post), retryable |-> TRUE]

\* MissingChannel: content is never redirected to another role.
NoChannel == Failed(FALSE)

\* What publish returns when Buffer made no post, and when it made one.
FailedResults == {NoChannel} \cup {ResultOf(reply) : reply \in Refusals}

ResultsOf == [state \in DOMAIN Receipts |-> {ResultOf(reply) : reply \in Receipts[state]}]

\* The answer Publisher has for it.
AnswerOf(created, result) ==
    [created |-> created, status |-> result.status, retryable |-> result.retryable]
===============================================================================
