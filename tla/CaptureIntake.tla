---------------------------- MODULE CaptureIntake -----------------------------
(***************************************************************************)
(* Trend signals from CaptureOS: the tables marketing_events and            *)
(* content_items, the requests that write them (the Worker in               *)
(* receiver/src/index.ts and its fallback app/capture_http.py, both one     *)
(* transaction each) and the conversion step of the daily run               *)
(* (capture_bridge.convert_pending_accepted_events), which stays open until *)
(* the run commits.                                                         *)
(*                                                                          *)
(* READ COMMITTED: a SELECT sees what is committed and the transaction's    *)
(* own writes; an INSERT of a key, or an UPDATE of a row, that another open *)
(* transaction has written waits for it.  A payload is abstracted to its    *)
(* identity (event_id) and whether validate() accepts it, a content id to   *)
(* its sequence number.                                                     *)
(***************************************************************************)
EXTENDS Naturals, FiniteSets

CONSTANTS
    Events,        \* event ids: sanitised (signal_code, observed_period) pairs
    Payloads,      \* what the sender may post
    Workers,       \* concurrent requests at the Worker
    Locals,        \* concurrent requests at app/capture_http.py
    Runs,          \* the daily run, at most one
    Pending,       \* events intake() had recorded but not converted at the start
    MaxNumber      \* bound: content numbers of the year

\* What content_items has where there is no row.
NoEvent == "none"

\* A payload as event_id_for and validate() see it.
Payload == [event : Events, valid : BOOLEAN]

ASSUME CaptureAssumption ==
    /\ Events # {} /\ NoEvent \notin Events
    /\ Workers \cap Locals = {} /\ Runs \cap (Workers \cup Locals) = {}
    /\ Payloads \subseteq Payload
    /\ Pending \subseteq Events
    /\ MaxNumber \in Nat

VARIABLES
    events,      \* marketing_events: intake_status and content_id (0 for NULL)
    items,       \* content_items: the event a content number was drafted from
    txns,        \* the transactions under way
    told         \* content ids (0 for null) the sender got in a 200 answer, by event

vars == <<events, items, txns, told>>

Posters == Workers \cup Locals
Txns    == Posters \cup Runs
Numbers == 1 .. MaxNumber
EventRow == [status : {"ABSENT", "ACCEPTED", "REJECTED", "CONVERTED"}, draft : 0 .. MaxNumber]
Absent   == [status |-> "ABSENT", draft |-> 0]
Accepted == [status |-> "ACCEPTED", draft |-> 0]
Rejected == [status |-> "REJECTED", draft |-> 0]

Stages == {"idle", "record", "check", "number", "probe", "draft", "mark", "next", "done"}

\* A transaction: where it is, what it works on (event, whether its payload is
\* valid, the content number it chose, whether that row was there), the events it
\* has yet to convert, and the rows it has written and therefore locks.
Txn == [stage : Stages, event : Events, valid : BOOLEAN, number : 0 .. MaxNumber,
        exists : BOOLEAN, queue : SUBSET Events,
        eventRows : [Events -> EventRow], eventLocks : SUBSET Events,
        itemRows : [Numbers -> Events \cup {NoEvent}], itemLocks : SUBSET Numbers]

IdleTxn == [stage |-> "idle", event |-> CHOOSE e \in Events : TRUE, valid |-> FALSE,
            number |-> 0, exists |-> FALSE, queue |-> {},
            eventRows |-> [e \in Events |-> Absent], eventLocks |-> {},
            itemRows |-> [n \in Numbers |-> NoEvent], itemLocks |-> {}]

Init ==
    /\ events = [e \in Events |-> IF e \in Pending THEN Accepted ELSE Absent]
    /\ items = [n \in Numbers |-> NoEvent]
    /\ txns = [t \in Txns |-> IdleTxn]
    /\ told = [e \in Events |-> {}]

\* What transaction t reads from the two tables.
EventSeen(t, e) == IF e \in txns[t].eventLocks THEN txns[t].eventRows[e] ELSE events[e]
ItemSeen(t, n)  == IF n \in txns[t].itemLocks THEN txns[t].itemRows[n] ELSE items[n]

EventFree(t, e) == \A u \in Txns \ {t} : e \notin txns[u].eventLocks
ItemFree(t, n)  == \A u \in Txns \ {t} : n \notin txns[u].itemLocks

Become(t, txn) == txns' = [txns EXCEPT ![t] = txn]
GoTo(t, stage) == Become(t, [txns[t] EXCEPT !.stage = stage])
Tell(e, n)     == told' \in {told, [told EXCEPT ![e] = @ \cup {n}]}
Tables         == <<events, items, told>>
-------------------------------------------------------------------------------
\* A request arrives and the event is looked up; a rejected one is answered 400.
Post(t, p) ==
    /\ t \in Posters /\ txns[t].stage = "idle"
    /\ events[p.event].status # "REJECTED"
    /\ Become(t, [txns[t] EXCEPT !.event = p.event, !.valid = p.valid,
                     !.stage = IF events[p.event].status = "ABSENT" THEN "record" ELSE "check"])
    /\ UNCHANGED Tables

WriteEvent(txn, e, row) == [txn EXCEPT !.eventRows[e] = row, !.eventLocks = @ \cup {e}]

Rollback(t) == Become(t, IdleTxn) /\ UNCHANGED Tables

\* The verdict of validate() on the payload of the request.
Accepts(t) == txns[t].valid

\* INSERT of an event that validate() refuses; the transaction has nothing else to do.
RecordRejected(t) ==
    LET e == txns[t].event
    IN  /\ txns[t].stage = "record" /\ EventFree(t, e)
        /\ ~Accepts(t) /\ events[e] = Absent
        /\ events' = [events EXCEPT ![e] = Rejected]
        /\ Become(t, IdleTxn)
        /\ UNCHANGED <<items, told>>

\* Seeded bug: the INSERT is an upsert that takes over a row that is there by now.
RecordAcceptedOver(t) ==
    LET e == txns[t].event
    IN  /\ txns[t].stage = "record" /\ EventFree(t, e)
        /\ Accepts(t)
        /\ Become(t, [WriteEvent(txns[t], e, Accepted) EXCEPT !.stage = "check"])
        /\ UNCHANGED Tables

RecordAccepted(t) ==
    LET e == txns[t].event
    IN  /\ txns[t].stage = "record" /\ EventFree(t, e)
        /\ Accepts(t) /\ events[e] = Absent
        /\ Become(t, [WriteEvent(txns[t], e, Accepted) EXCEPT !.stage = "check"])
        /\ UNCHANGED Tables

\* Somebody else's row is there by now.  The INSERT fails; _record of the
\* fallback may have looked once more before it and then goes on.
RecordTaken(t) ==
    /\ txns[t].stage = "record" /\ EventFree(t, txns[t].event)
    /\ events[txns[t].event] # Absent
    /\ \/ Rollback(t)
       \/ t \in Locals /\ Accepts(t) /\ GoTo(t, "check") /\ UNCHANGED Tables
       \/ t \in Locals /\ ~Accepts(t) /\ Rollback(t)

\* convertEvent, convert_accepted_event: is there a draft already?
AlreadyDrafted(t) ==
    LET e == txns[t].event
        n == EventSeen(t, e).draft
    IN  /\ txns[t].stage = "check" /\ n # 0
        /\ IF t \in Runs
             THEN GoTo(t, "next") /\ UNCHANGED told
             ELSE Become(t, IdleTxn) /\ Tell(e, n)
        /\ UNCHANGED <<events, items>>

\* The fallback went on and the row is a rejected one: it still answers 200, with
\* status ACCEPTED and no content id.
NotConvertible(t) ==
    LET e == txns[t].event
    IN  /\ txns[t].stage = "check" /\ t \in Locals
        /\ EventSeen(t, e).status = "REJECTED"
        /\ Become(t, IdleTxn) /\ Tell(e, 0)
        /\ UNCHANGED <<events, items>>

\* Seeded bug: the content_id of the event is not looked at.
NeedsDraftAgain(t) ==
    /\ txns[t].stage = "check" /\ EventSeen(t, txns[t].event).status # "REJECTED"
    /\ GoTo(t, "number")
    /\ UNCHANGED Tables

\* Seeded bug: the intake status of the event is not looked at.
NeedsDraftAnyStatus(t) ==
    /\ txns[t].stage = "check" /\ EventSeen(t, txns[t].event).draft = 0
    /\ GoTo(t, "number")
    /\ UNCHANGED Tables

NeedsDraft(t) ==
    LET row == EventSeen(t, txns[t].event)
    IN  /\ txns[t].stage = "check"
        /\ row.draft = 0 /\ row.status # "REJECTED"
        /\ GoTo(t, "number")
        /\ UNCHANGED Tables

\* next_content_id, nextContentId: one above the highest number there is.
TakeNumber(t) ==
    LET used == {n \in Numbers : ItemSeen(t, n) # NoEvent}
    IN  /\ txns[t].stage = "number"
        /\ \E n \in Numbers :
              /\ \A u \in used : u < n
              /\ \A m \in 1 .. n - 1 : \E u \in used : m <= u
              /\ Become(t, [txns[t] EXCEPT !.number = n, !.exists = FALSE,
                               !.stage = IF t \in Workers THEN "draft" ELSE "probe"])
        /\ UNCHANGED Tables

\* save_item looks the id up before it decides between INSERT and UPDATE.
Probe(t) ==
    /\ txns[t].stage = "probe"
    /\ Become(t, [txns[t] EXCEPT !.exists = ItemSeen(t, txns[t].number) # NoEvent,
                                 !.stage = "draft"])
    /\ UNCHANGED Tables

\* Seeded bug: the draft is written outside the transaction.
WriteDraftAutocommit(t) ==
    LET n == txns[t].number
    IN  /\ txns[t].stage = "draft" /\ ItemFree(t, n)
        /\ txns[t].exists \/ items[n] = NoEvent
        /\ items' = [items EXCEPT ![n] = txns[t].event]
        /\ GoTo(t, "mark")
        /\ UNCHANGED <<events, told>>

WriteDraft(t) ==
    LET n == txns[t].number
    IN  /\ txns[t].stage = "draft" /\ ItemFree(t, n)
        /\ txns[t].exists \/ items[n] = NoEvent
        /\ Become(t, [txns[t] EXCEPT !.itemRows[n] = txns[t].event,
                         !.itemLocks = @ \cup {n}, !.stage = "mark"])
        /\ UNCHANGED Tables

\* The number has been taken since: duplicate key, the request fails.
NumberTaken(t) ==
    LET n == txns[t].number
    IN  /\ txns[t].stage = "draft" /\ ItemFree(t, n)
        /\ ~txns[t].exists /\ items[n] # NoEvent
        /\ Rollback(t)

\* Seeded bug: the UPDATE stores the draft's lifecycle word.
MarkConvertedDraft(t) ==
    LET e   == txns[t].event
        row == [status |-> "DRAFT", draft |-> txns[t].number]
    IN  /\ txns[t].stage = "mark" /\ EventFree(t, e)
        /\ Become(t, [WriteEvent(txns[t], e, row) EXCEPT
                         !.stage = IF t \in Runs THEN "next" ELSE "done"])
        /\ UNCHANGED Tables

\* mark_converted: UPDATE by event_id alone.
MarkConverted(t) ==
    LET e   == txns[t].event
        row == [status |-> "CONVERTED", draft |-> txns[t].number]
    IN  /\ txns[t].stage = "mark" /\ EventFree(t, e)
        /\ Become(t, [WriteEvent(txns[t], e, row) EXCEPT
                         !.stage = IF t \in Runs THEN "next" ELSE "done"])
        /\ UNCHANGED Tables

\* COMMIT; the answer may get lost on its way to the sender.
Commit(t) ==
    /\ txns[t].stage = "done"
    /\ events' = [e \in Events |-> EventSeen(t, e)]
    /\ items' = [n \in Numbers |-> ItemSeen(t, n)]
    /\ IF t \in Posters THEN Tell(txns[t].event, txns[t].number) ELSE UNCHANGED told
    /\ Become(t, IdleTxn)

\* A request or a run dies: connection lost, timeout, an error further on.
Fail(t) == txns[t].stage # "idle" /\ Rollback(t)
-------------------------------------------------------------------------------
\* Seeded bug: the run selects events that are marked converted and have no draft.
StartRunConverted(t) ==
    /\ t \in Runs /\ txns[t].stage = "idle"
    /\ Become(t, [txns[t] EXCEPT !.stage = "next",
                     !.queue = {e \in Events : events[e] = [status |-> "CONVERTED", draft |-> 0]}])
    /\ UNCHANGED Tables

\* The daily run begins: the accepted events that have no draft are selected.
StartRun(t) ==
    /\ t \in Runs /\ txns[t].stage = "idle"
    /\ Become(t, [txns[t] EXCEPT !.stage = "next", !.queue = {e \in Events : events[e] = Accepted}])
    /\ UNCHANGED Tables

ConvertNext(t) ==
    /\ txns[t].stage = "next"
    /\ \/ \E e \in txns[t].queue :
             Become(t, [txns[t] EXCEPT !.event = e, !.stage = "check", !.queue = @ \ {e}])
       \/ txns[t].queue = {} /\ GoTo(t, "done")
    /\ UNCHANGED Tables

Progress(t) ==
    \/ StartRun(t) \/ ConvertNext(t)
    \/ RecordRejected(t) \/ RecordAccepted(t) \/ RecordTaken(t)
    \/ AlreadyDrafted(t) \/ NotConvertible(t) \/ NeedsDraft(t)
    \/ TakeNumber(t) \/ Probe(t) \/ WriteDraft(t) \/ NumberTaken(t)
    \/ MarkConverted(t) \/ Commit(t)

Next == \E t \in Txns : (\E p \in Payloads : Post(t, p)) \/ Progress(t) \/ Fail(t)

Spec == Init /\ [][Next]_vars

\* Requests and runs go on by themselves, and cron starts the run again and again;
\* Postgres serves those who wait for a row in their order, so that nobody waits for
\* ever behind requests that keep failing (SF); outages that kill runs come to an end
\* (a run that commits nothing, or loses its number, also ends as if it had failed).
Fairness ==
    /\ \A t \in Txns : SF_vars(Progress(t))
    /\ <>[][\A t \in Runs : Fail(t) => Progress(t)]_vars

FairSpec == Spec /\ Fairness
-------------------------------------------------------------------------------
\* TypeOK: rows, transactions and answers have the shape the code gives them.
TypeOK ==
    /\ events \in [Events -> EventRow]
    /\ items \in [Numbers -> Events \cup {NoEvent}]
    /\ txns \in [Txns -> Txn]
    /\ told \in [Events -> SUBSET (0 .. MaxNumber)]

\* Where a transaction needs a content number, it has one; only a run goes on to
\* the next event.  With it, TypeOK is inductive.
NumberTxn(t, txn) ==
    /\ txn.stage = "next" => t \in Runs
    /\ txn.stage \in {"probe", "draft", "mark"} \/ (txn.stage = "done" /\ t \in Posters)
          => txn.number \in Numbers

NumberInv == \A t \in Txns : NumberTxn(t, txns[t])

\* LinksAgree: an event's draft was made from that event, and every draft is the
\* draft of its event: nothing is orphaned or overwritten by a colliding number.
LinksAgree ==
    /\ \A e \in Events : events[e].draft # 0 => items[events[e].draft] = e
    /\ \A n \in Numbers : items[n] # NoEvent => events[items[n]].draft = n

\* SameDraft: whatever requests race, are retried or fail half-way, every 200
\* answer for an event names the draft it has now, and one that names none is for an
\* event that has none ("Duplicate POST -> same event, same draft",
\* docs/RDX-PLATFORM-STANDARD-v1.md:236-237).
SameDraft == \A e \in Events : told[e] \subseteq {events[e].draft}

\* RejectedStaysOut: an event recorded as rejected never gets a draft ("can never
\* be converted into content", capture_bridge.py:256-257).
RejectedStaysOut ==
    [][\A e \in Events : events[e].status = "REJECTED" =>
          /\ events'[e] = events[e]
          /\ \A n \in Numbers : items'[n] # e]_vars

\* Its inductive form: what has a draft, and what a transaction has set out to
\* convert, is accepted or converted, or will be when the transaction commits.
Kept == {"ACCEPTED", "CONVERTED"}

StaysKept(txn, e, rows) == e \in txn.eventLocks \/ rows[e].status \in Kept

KeptTxn(txn, rows) ==
    /\ \A e \in txn.eventLocks :
          txn.eventRows[e].status \in Kept /\ rows[e].status # "REJECTED"
    /\ txn.stage = "check" =>
          StaysKept(txn, txn.event, rows) \/ rows[txn.event].status = "REJECTED"
    /\ txn.stage \in {"number", "probe", "draft", "mark"} => StaysKept(txn, txn.event, rows)
    /\ \A e \in txn.queue : rows[e].status \in Kept
    /\ \A n \in txn.itemLocks :
          txn.itemRows[n] \in Events /\ StaysKept(txn, txn.itemRows[n], rows)

KeptInv ==
    /\ \A e \in Events : events[e].status = "ABSENT" => events[e] = Absent
    /\ \A n \in Numbers : items[n] # NoEvent => events[items[n]].status \in Kept
    /\ \A t \in Txns : KeptTxn(txns[t], events)

\* OwnDraft: two events never share a draft ("An accepted event becomes **one**
\* HUMAN_APPROVAL_REQUIRED draft", docs/RDX-PLATFORM-STANDARD-v1.md:248).
OwnDraft ==
    \A e, f \in Events : events[e].draft = events[f].draft /\ events[e].draft # 0 => e = f

\* The promise of DraftOnce.
Promise == INSTANCE DraftOnce WITH draft <- [e \in Events |-> events[e].draft]

DraftedOnce == Promise!Spec

\* The two ways in which transactions disturb each other: save_item finds that
\* somebody has taken the number it was given (content/store.py:15-33), or two of
\* them are converting an event that was left pending (capture_bridge.py:352-377).
Drafting == {"number", "probe", "draft", "mark"}

Converting(t) ==
    txns[t].eventLocks \cup {e \in {txns[t].event} : txns[t].stage \in Drafting}

Undisturbed ==
    /\ \A t \in Txns : txns[t].stage = "probe" => ItemSeen(t, txns[t].number) = NoEvent
    /\ \A t, u \in Txns : t # u => Converting(t) \cap Converting(u) \cap Pending = {}

\* The inductive form of LinksAgree, SameDraft and DraftedOnce where neither happens:
\* whoever holds an event or a number holds the other one too, or is about to, has
\* made up the number itself, and nobody else holds either.
Converted(n) == [status |-> "CONVERTED", draft |-> n]

Linked(txn, e, n) ==
    /\ e \in txn.eventLocks /\ n \in txn.itemLocks
    /\ txn.eventRows[e] = Converted(n) /\ txn.itemRows[n] = e

EventsLinked(txn, rows) ==
    \A e \in txn.eventLocks :
       \/ /\ txn.eventRows[e] = Accepted /\ rows[e] = Absent
          /\ txn.event = e /\ txn.stage \in Drafting \cup {"check"}
       \/ /\ rows[e].draft = 0 /\ rows[e].status # "REJECTED"
          /\ \E n \in Numbers : Linked(txn, e, n)

ItemsLinked(txn, drafts) ==
    \A n \in txn.itemLocks :
       /\ drafts[n] = NoEvent
       /\ \/ txn.stage = "mark" /\ txn.number = n
          \/ \E e \in Events : Linked(txn, e, n)

\* What the stage of a transaction says about the event and the number it is at.
StageLinked(txn, rows) ==
    LET e == txn.event
        n == txn.number
    IN  /\ txn.stage \in {"idle", "record"}
              => txn.eventLocks = {} /\ txn.itemLocks = {} /\ txn.queue = {}
        /\ txn.stage \in Drafting \cup {"check"} /\ e \in txn.eventLocks
              => txn.eventRows[e] = Accepted
        /\ txn.stage = "check" /\ e \notin txn.eventLocks => rows[e] # Absent
        /\ txn.stage \in Drafting /\ e \notin txn.eventLocks => rows[e] = Accepted
        /\ txn.stage = "probe" => n \notin txn.itemLocks
        /\ txn.stage = "draft" => n \notin txn.itemLocks /\ ~txn.exists
        /\ txn.stage = "mark" => n \in txn.itemLocks /\ txn.itemRows[n] = e

QueueLinked(txn, rows) ==
    \A e \in txn.queue :
       /\ rows[e] # Absent /\ e \notin txn.eventLocks
       /\ txn.stage \in Drafting \cup {"check"} => txn.event # e

LinkedTxn(txn, rows, drafts) ==
    /\ EventsLinked(txn, rows) /\ ItemsLinked(txn, drafts)
    /\ StageLinked(txn, rows) /\ QueueLinked(txn, rows)

RowsLinked ==
    \A e \in Events :
       \/ events[e] \in {Absent, Rejected}
       \/ events[e] = Accepted /\ e \in Pending
       \/ events[e].status = "CONVERTED" /\ events[e].draft # 0

HoldersApart ==
    \A t, u \in Txns : t # u =>
       /\ txns[t].eventLocks \cap txns[u].eventLocks = {}
       /\ txns[t].itemLocks \cap txns[u].itemLocks = {}

NullIsRejected == \A e \in Events : 0 \in told[e] => events[e].status = "REJECTED"

LinkInv ==
    /\ LinksAgree /\ SameDraft /\ NullIsRejected /\ RowsLinked /\ HoldersApart
    /\ \A t \in Txns : LinkedTxn(txns[t], events, items)
    /\ \A t \in Posters :
          txns[t].stage = "done" => Linked(txns[t], txns[t].event, txns[t].number)

\* RunsConvert: an accepted event does not stay without a draft, whoever else is
\* writing, as long as runs keep being started and fail only now and then.
RunsConvert == \A e \in Events : events[e] = Accepted ~> events[e].draft # 0
===============================================================================
