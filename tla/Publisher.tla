------------------------------ MODULE Publisher ------------------------------
(***************************************************************************)
(* One call of SocialPublisher.publish and what it may return: the answers *)
(* of BufferPublisher.publish (app/publisher/buffer.py), each with what    *)
(* happened at Buffer, and that of NullPublisher (app/publisher/base.py).  *)
(* Buffer itself is external: nothing the adapter sends lets it recognise  *)
(* a repeated request, since _build_input drops the idempotency key.       *)
(***************************************************************************)

PubStatuses == {"QUEUED", "SCHEDULED", "PUBLISHED", "FAILED"}

Answer == [created : BOOLEAN, status : PubStatuses, retryable : BOOLEAN]

\* A post with an id: sent already, or a draft or queued post at Buffer.
Sent   == [created |-> TRUE, status |-> "PUBLISHED", retryable |-> TRUE]
Staged == [created |-> TRUE, status |-> "SCHEDULED", retryable |-> TRUE]

\* No channel for the role, a client error, or the union's MutationError arm.
Refused == [created |-> FALSE, status |-> "FAILED", retryable |-> FALSE]

\* The request did not get through, or Buffer answered with a server error.
Outage == [created |-> FALSE, status |-> "FAILED", retryable |-> TRUE]

\* Buffer took the post, and the reply timed out or carried no post id.
LostReply == [created |-> TRUE, status |-> "FAILED", retryable |-> TRUE]

BufferAnswers == {Sent, Staged, Refused, Outage, LostReply}

\* publisher.enabled is false in config/platforms.yaml.
NotTransmitted == [created |-> FALSE, status |-> "QUEUED", retryable |-> TRUE]

\* What either adapter may answer; build_publisher takes the one the config enables.
AnyAnswer == BufferAnswers \cup {NotTransmitted}

\* Seeded bug: a post that was never transmitted counts as live.
LiveOrQueued(status) == status \in {"PUBLISHED", "SCHEDULED", "QUEUED"}

Live(status) == status \in {"PUBLISHED", "SCHEDULED"}
===============================================================================
