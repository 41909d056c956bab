-------------------------- MODULE CaptureIntake_proofs --------------------------
(***************************************************************************)
(* What CaptureIntake keeps for any number of requests at the Worker and    *)
(* at the fallback, with or without a run at work, and any payloads: the    *)
(* types, and that a rejected event stays out of the content store.  Also,  *)
(* as long as nobody takes a number between next_content_id and save_item   *)
(* and no pending event is converted twice at once, that every event has    *)
(* one draft of its own and that every answer names it; where the Worker's  *)
(* requests are all there is, neither can happen.                           *)
(***************************************************************************)
EXTENDS CaptureIntake, TLAPS

LEMMA Constants ==
    /\ Events # {} /\ NoEvent \notin Events
    /\ Workers \cap Locals = {} /\ Runs \cap Posters = {}
    /\ Payloads \subseteq Payload /\ Pending \subseteq Events /\ MaxNumber \in Nat
BY CaptureAssumption DEF Posters

LEMMA RowShapes == Absent \in EventRow /\ Accepted \in EventRow /\ Rejected \in EventRow
BY Constants DEF Absent, Accepted, Rejected, EventRow

LEMMA IdleShape ==
    /\ IdleTxn \in Txn
    /\ IdleTxn.stage = "idle" /\ IdleTxn.queue = {}
    /\ IdleTxn.eventLocks = {} /\ IdleTxn.itemLocks = {}
<1>1. (CHOOSE e \in Events : TRUE) \in Events
  BY Constants
<1>2. /\ [e \in Events |-> Absent] \in [Events -> EventRow]
      /\ [n \in Numbers |-> NoEvent] \in [Numbers -> Events \cup {NoEvent}]
  BY RowShapes
<1>3. IdleTxn \in Txn
  BY <1>1, <1>2, Constants DEF IdleTxn, Txn, Stages
<1>4. QED
  BY <1>3 DEF IdleTxn

\* What a transaction reads has the shape of what is stored.
LEMMA SeenShape ==
    ASSUME TypeOK, NEW t \in Txns
    PROVE  /\ \A e \in Events : EventSeen(t, e) \in EventRow
           /\ \A n \in Numbers : ItemSeen(t, n) \in Events \cup {NoEvent}
BY DEF TypeOK, Txn, EventSeen, ItemSeen

\* A transaction that has written a row of marketing_events and goes on.
Written(x, e, row, s) == [WriteEvent(x, e, row) EXCEPT !.stage = s]

LEMMA WriteShape ==
    ASSUME NEW x \in Txn, NEW e \in Events, NEW row \in EventRow, NEW s \in Stages
    PROVE  LET y == Written(x, e, row, s)
           IN  /\ y \in Txn /\ y.stage = s
               /\ y.eventLocks = x.eventLocks \cup {e}
               /\ y.eventRows[e] = row
               /\ \A f \in Events \ {e} : y.eventRows[f] = x.eventRows[f]
               /\ y.event = x.event /\ y.number = x.number /\ y.queue = x.queue
               /\ y.itemRows = x.itemRows /\ y.itemLocks = x.itemLocks
<1> DEFINE z == WriteEvent(x, e, row)
           y == [z EXCEPT !.stage = s]
<1>1. z = [x EXCEPT !.eventRows = [x.eventRows EXCEPT ![e] = row],
                    !.eventLocks = x.eventLocks \cup {e}]
  BY DEF WriteEvent, Txn
<1>2. /\ [x.eventRows EXCEPT ![e] = row] \in [Events -> EventRow]
      /\ x.eventLocks \cup {e} \in SUBSET Events
  BY DEF Txn
<1>3. /\ z \in Txn /\ z.eventLocks = x.eventLocks \cup {e}
      /\ z.eventRows = [x.eventRows EXCEPT ![e] = row]
      /\ z.event = x.event /\ z.number = x.number /\ z.queue = x.queue
      /\ z.itemRows = x.itemRows /\ z.itemLocks = x.itemLocks
  BY <1>1, <1>2 DEF Txn
<1> HIDE DEF z
<1>4. /\ y \in Txn /\ y.stage = s /\ y.eventLocks = z.eventLocks /\ y.eventRows = z.eventRows
      /\ y.event = z.event /\ y.number = z.number /\ y.queue = z.queue
      /\ y.itemRows = z.itemRows /\ y.itemLocks = z.itemLocks
  BY <1>3 DEF Txn
<1>5. /\ z.eventRows[e] = row
      /\ \A f \in Events \ {e} : z.eventRows[f] = x.eventRows[f]
  BY <1>3 DEF Txn
<1>6. QED
  BY <1>3, <1>4, <1>5 DEF z, Written

\* A step of one transaction that leaves the tables alone.
LEMMA BecomeType ==
    ASSUME TypeOK, NumberInv, NEW t \in Txns, NEW x \in Txn, Become(t, x), NumberTxn(t, x)
    PROVE  txns' \in [Txns -> Txn] /\ NumberInv'
<1>1. /\ txns \in [Txns -> Txn] /\ txns' = [txns EXCEPT ![t] = x]
  BY DEF TypeOK, Become
<1>2. txns'[t] = x /\ \A u \in Txns \ {t} : txns'[u] = txns[u]
  BY <1>1
<1>3. \A u \in Txns : NumberTxn(u, txns'[u])
  BY <1>2 DEF NumberInv
<1>4. QED
  BY <1>1, <1>3 DEF NumberInv, NumberTxn

LEMMA QuietType ==
    ASSUME TypeOK, NumberInv, NEW t \in Txns, NEW x \in Txn, Become(t, x), NumberTxn(t, x),
           UNCHANGED Tables
    PROVE  TypeOK' /\ NumberInv'
BY BecomeType DEF TypeOK, Tables

LEMMA IdleNumber ==
    ASSUME NEW t \in Txns
    PROVE  NumberTxn(t, IdleTxn)
BY IdleShape DEF NumberTxn

LEMMA TellType ==
    ASSUME TypeOK, NEW e \in Events, NEW n \in 0 .. MaxNumber, Tell(e, n)
    PROVE  told' \in [Events -> SUBSET (0 .. MaxNumber)]
BY DEF TypeOK, Tell

LEMMA InitType == Init => TypeOK /\ NumberInv
<1> SUFFICES ASSUME Init PROVE TypeOK /\ NumberInv
  OBVIOUS
<1>1. TypeOK
  BY RowShapes, IdleShape DEF Init, TypeOK
<1>2. NumberInv
  BY IdleNumber DEF Init, NumberInv
<1>3. QED
  BY <1>1, <1>2

\* Every step that leaves the tables alone, by what its transaction becomes.
LEMMA MoveType ==
    ASSUME TypeOK, NumberInv, NEW t \in Txns,
           \/ \E p \in Payloads : Post(t, p)
           \/ RecordAccepted(t) \/ RecordTaken(t) \/ NeedsDraft(t) \/ TakeNumber(t)
           \/ Probe(t) \/ WriteDraft(t) \/ NumberTaken(t) \/ MarkConverted(t)
           \/ StartRun(t) \/ ConvertNext(t) \/ Fail(t)
    PROVE  TypeOK' /\ NumberInv'
<1> DEFINE x == txns[t]
<1>0. x \in Txn /\ x.event \in Events /\ NumberTxn(t, x) /\ UNCHANGED Tables
  BY DEF TypeOK, Txn, NumberInv, Post, RecordAccepted, RecordTaken, NeedsDraft, TakeNumber,
     Probe, WriteDraft, NumberTaken, MarkConverted, StartRun, ConvertNext, Fail, Rollback
<1> SUFFICES \E y \in Txn : Become(t, y) /\ NumberTxn(t, y)
  BY <1>0, QuietType
<1> HIDE DEF x
<1>1. ASSUME NEW p \in Payloads, Post(t, p)
      PROVE  \E y \in Txn : Become(t, y) /\ NumberTxn(t, y)
  <2>1. PICK s \in {"record", "check"} :
           Become(t, [x EXCEPT !.event = p.event, !.valid = p.valid, !.stage = s])
    BY <1>1 DEF Post, x
  <2>2. p.event \in Events /\ p.valid \in BOOLEAN
    BY Constants DEF Payload
  <2> DEFINE y == [x EXCEPT !.event = p.event, !.valid = p.valid, !.stage = s]
  <2>3. y \in Txn /\ y.stage = s
    BY <1>0, <2>2 DEF Txn, Stages
  <2>4. QED
    BY <2>1, <2>3 DEF NumberTxn
<1>2. ASSUME NEW e \in Events, NEW row \in EventRow, NEW s \in Stages,
             Become(t, Written(x, e, row, s)), NumberTxn(t, [x EXCEPT !.stage = s])
      PROVE  \E y \in Txn : Become(t, y) /\ NumberTxn(t, y)
  <2> DEFINE y == Written(x, e, row, s)
             z == [x EXCEPT !.stage = s]
  <2>1. y \in Txn /\ y.stage = s /\ y.number = x.number
    BY <1>0, WriteShape
  <2>2. z.stage = s /\ z.number = x.number
    BY <1>0 DEF Txn
  <2>3. NumberTxn(t, y)
    BY <1>2, <2>1, <2>2 DEF NumberTxn
  <2>4. QED
    BY <1>2, <2>1, <2>3
<1>3. CASE RecordAccepted(t)
  <2>1. Become(t, Written(x, x.event, Accepted, "check"))
    BY <1>3 DEF RecordAccepted, Written, x
  <2>2. [x EXCEPT !.stage = "check"].stage = "check"
    BY <1>0 DEF Txn
  <2>3. QED
    BY <1>0, <1>2, <2>1, <2>2, RowShapes DEF NumberTxn, Stages
<1>4. CASE MarkConverted(t)
  <2> DEFINE row == [status |-> "CONVERTED", draft |-> x.number]
             s == IF t \in Runs THEN "next" ELSE "done"
             z == [x EXCEPT !.stage = s]
  <2>1. x.number \in Numbers
    BY <1>0, <1>4 DEF MarkConverted, NumberTxn, x
  <2>2. row \in EventRow
    BY <2>1, Constants DEF EventRow, Numbers
  <2>3. Become(t, Written(x, x.event, row, s))
    BY <1>4 DEF MarkConverted, Written, x
  <2>4. z.stage = s /\ z.number = x.number
    BY <1>0 DEF Txn
  <2>5. NumberTxn(t, z) /\ s \in Stages
    BY <2>1, <2>4 DEF NumberTxn, Stages
  <2> HIDE DEF row, s
  <2>6. QED
    BY <1>0, <1>2, <2>2, <2>3, <2>5
<1>5. ASSUME Rollback(t)
      PROVE  \E y \in Txn : Become(t, y) /\ NumberTxn(t, y)
  BY <1>5, IdleShape, IdleNumber DEF Rollback
<1>6. ASSUME NEW s \in {"check", "number", "done"}, GoTo(t, s), s = "done" => t \notin Posters
      PROVE  \E y \in Txn : Become(t, y) /\ NumberTxn(t, y)
  <2> DEFINE y == [x EXCEPT !.stage = s]
  <2>1. y \in Txn /\ y.stage = s
    BY <1>0 DEF Txn, Stages
  <2>2. QED
    BY <1>6, <2>1 DEF GoTo, NumberTxn, x
<1>7. CASE TakeNumber(t)
  <2>1. PICK n \in Numbers, s \in {"draft", "probe"} :
           Become(t, [x EXCEPT !.number = n, !.exists = FALSE, !.stage = s])
    BY <1>7 DEF TakeNumber, x
  <2> DEFINE y == [x EXCEPT !.number = n, !.exists = FALSE, !.stage = s]
  <2>2. n \in 0 .. MaxNumber
    BY Constants DEF Numbers
  <2>3. y \in Txn /\ y.number = n /\ y.stage = s
    BY <1>0, <2>2 DEF Txn, Stages
  <2>4. QED
    BY <2>1, <2>3 DEF NumberTxn
<1>8. CASE Probe(t)
  <2>1. PICK b \in BOOLEAN : Become(t, [x EXCEPT !.exists = b, !.stage = "draft"])
    BY <1>8 DEF Probe, x
  <2> DEFINE y == [x EXCEPT !.exists = b, !.stage = "draft"]
  <2>2. y \in Txn /\ y.number = x.number /\ y.stage = "draft"
    BY <1>0 DEF Txn, Stages
  <2>3. x.number \in Numbers
    BY <1>0, <1>8 DEF Probe, NumberTxn, x
  <2>4. QED
    BY <2>1, <2>2, <2>3 DEF NumberTxn
<1>9. CASE WriteDraft(t)
  <2> DEFINE y == [x EXCEPT !.itemRows[x.number] = x.event, !.itemLocks = @ \cup {x.number},
                            !.stage = "mark"]
  <2>1. x.number \in Numbers
    BY <1>0, <1>9 DEF WriteDraft, NumberTxn, x
  <2>2. y \in Txn /\ y.number = x.number /\ y.stage = "mark"
    BY <1>0, <2>1 DEF Txn, Stages
  <2>3. Become(t, y)
    BY <1>9 DEF WriteDraft, x
  <2>4. QED
    BY <2>1, <2>2, <2>3 DEF NumberTxn
<1>10. CASE StartRun(t)
  <2> DEFINE q == {e \in Events : events[e] = Accepted}
             y == [x EXCEPT !.stage = "next", !.queue = q]
  <2>1. Become(t, y)
    BY <1>10 DEF StartRun, x
  <2>2. y \in Txn /\ y.stage = "next"
    BY <1>0 DEF Txn, Stages
  <2>3. QED
    BY <1>10, <2>1, <2>2 DEF StartRun, NumberTxn
<1>11. CASE ConvertNext(t)
  <2>1. ASSUME NEW e \in x.queue,
               Become(t, [x EXCEPT !.event = e, !.stage = "check", !.queue = @ \ {e}])
        PROVE  \E y \in Txn : Become(t, y) /\ NumberTxn(t, y)
    <3> DEFINE y == [x EXCEPT !.event = e, !.stage = "check", !.queue = @ \ {e}]
    <3>1. y \in Txn /\ y.stage = "check"
      BY <1>0 DEF Txn, Stages
    <3>2. QED
      BY <2>1, <3>1 DEF NumberTxn
  <2>2. t \notin Posters
    BY <1>0, <1>11, Constants DEF ConvertNext, NumberTxn, x
  <2>3. QED
    BY <1>6, <1>11, <2>1, <2>2 DEF ConvertNext, x
<1>12. QED
  BY <1>1, <1>3, <1>4, <1>5, <1>6, <1>7, <1>8, <1>9, <1>10, <1>11
     DEF RecordTaken, NeedsDraft, NumberTaken, Fail

LEMMA RejectType ==
    ASSUME TypeOK, NumberInv, NEW t \in Txns, RecordRejected(t)
    PROVE  TypeOK' /\ NumberInv'
<1>1. events' \in [Events -> EventRow] /\ items' = items /\ told' = told
  BY RowShapes DEF RecordRejected, TypeOK
<1>2. txns' \in [Txns -> Txn] /\ NumberInv'
  BY BecomeType, IdleShape, IdleNumber DEF RecordRejected
<1>3. QED
  BY <1>1, <1>2 DEF TypeOK

LEMMA AnsweredType ==
    ASSUME TypeOK, NumberInv, NEW t \in Txns, AlreadyDrafted(t)
    PROVE  TypeOK' /\ NumberInv'
<1> DEFINE x == txns[t]
           n == EventSeen(t, x.event).draft
<1>1. /\ x \in Txn /\ x.event \in Events /\ NumberTxn(t, x)
      /\ events' = events /\ items' = items /\ n \in 0 .. MaxNumber
  <2>1. x \in Txn /\ x.event \in Events /\ NumberTxn(t, x)
    BY DEF TypeOK, Txn, NumberInv
  <2>2. EventSeen(t, x.event) \in EventRow
    BY <2>1, SeenShape
  <2>3. QED
    BY <2>1, <2>2, Constants DEF AlreadyDrafted, EventRow
<1>2. CASE t \in Runs
  <2>1. [x EXCEPT !.stage = "next"] \in Txn /\ [x EXCEPT !.stage = "next"].stage = "next"
    BY <1>1 DEF Txn, Stages
  <2>2. Become(t, [x EXCEPT !.stage = "next"]) /\ told' = told
    BY <1>2 DEF AlreadyDrafted, GoTo
  <2>3. NumberTxn(t, [x EXCEPT !.stage = "next"])
    BY <1>2, <2>1 DEF NumberTxn
  <2>4. QED
    BY <1>1, <2>1, <2>2, <2>3, BecomeType DEF TypeOK
<1>3. CASE t \notin Runs
  <2>1. Become(t, IdleTxn) /\ Tell(x.event, n)
    BY <1>3 DEF AlreadyDrafted
  <2>2. QED
    BY <1>1, <2>1, IdleShape, IdleNumber, BecomeType, TellType DEF TypeOK
<1>4. QED
  BY <1>2, <1>3

LEMMA NullType ==
    ASSUME TypeOK, NumberInv, NEW t \in Txns, NotConvertible(t)
    PROVE  TypeOK' /\ NumberInv'
<1>1. /\ txns[t].event \in Events /\ Become(t, IdleTxn) /\ Tell(txns[t].event, 0)
      /\ events' = events /\ items' = items
  BY DEF TypeOK, Txn, NotConvertible
<1>2. 0 \in 0 .. MaxNumber
  BY Constants
<1>3. QED
  BY <1>1, <1>2, IdleShape, IdleNumber, BecomeType, TellType DEF TypeOK

LEMMA CommitType ==
    ASSUME TypeOK, NumberInv, NEW t \in Txns, Commit(t)
    PROVE  TypeOK' /\ NumberInv'
<1>1. events' \in [Events -> EventRow] /\ items' \in [Numbers -> Events \cup {NoEvent}]
  BY SeenShape DEF Commit
<1>2. told' \in [Events -> SUBSET (0 .. MaxNumber)]
  <2>1. txns[t].event \in Events /\ txns[t].number \in 0 .. MaxNumber
    BY DEF TypeOK, Txn
  <2>2. QED
    BY <2>1, TellType DEF Commit, TypeOK
<1>3. txns' \in [Txns -> Txn] /\ NumberInv'
  BY BecomeType, IdleShape, IdleNumber DEF Commit
<1>4. QED
  BY <1>1, <1>2, <1>3 DEF TypeOK

\* TypeOK: rows, transactions and answers keep their shape, because a transaction
\* that writes a draft has a content number by then.
THEOREM CaptureTypes == Spec => [](TypeOK /\ NumberInv)
<1>1. TypeOK /\ NumberInv /\ [Next]_vars => TypeOK' /\ NumberInv'
  <2> SUFFICES ASSUME TypeOK, NumberInv, [Next]_vars PROVE TypeOK' /\ NumberInv'
    OBVIOUS
  <2>1. ASSUME NEW t \in Txns, (\E p \in Payloads : Post(t, p)) \/ Progress(t) \/ Fail(t)
        PROVE  TypeOK' /\ NumberInv'
    BY <2>1, MoveType, RejectType, AnsweredType, NullType, CommitType DEF Progress
  <2>2. CASE UNCHANGED vars
    BY <2>2 DEF vars, TypeOK, NumberInv, NumberTxn
  <2>3. QED
    BY <2>1, <2>2 DEF Next
<1>2. QED
  BY <1>1, InitType, PTL DEF Spec
-------------------------------------------------------------------------------
(* Rejected events.                                                          *)

LEMMA KeptIdle ==
    ASSUME NEW rows
    PROVE  KeptTxn(IdleTxn, rows)
BY IdleShape DEF KeptTxn

\* A transaction that holds what it held, and has a reason to be where it is.
LEMMA SameHoldings ==
    ASSUME NEW x \in Txn, NEW y \in Txn, NEW rows, KeptTxn(x, rows),
           y.eventLocks = x.eventLocks, y.eventRows = x.eventRows,
           y.itemLocks = x.itemLocks, y.itemRows = x.itemRows,
           \A e \in y.queue : rows[e].status \in Kept,
           y.stage = "check" =>
              StaysKept(x, y.event, rows) \/ rows[y.event].status = "REJECTED",
           y.stage \in {"number", "probe", "draft", "mark"} => StaysKept(x, y.event, rows)
    PROVE  KeptTxn(y, rows)
BY DEF KeptTxn, StaysKept

\* Other transactions only add to what is accepted or converted, and reject
\* nothing that is held.
LEMMA KeptFrame ==
    ASSUME NEW x \in Txn, NEW r, NEW q, KeptTxn(x, r),
           \A e \in Events : r[e].status \in Kept => q[e].status \in Kept,
           \A e \in Events : r[e].status = "REJECTED" => q[e].status = "REJECTED",
           \A e \in x.eventLocks : q[e].status # "REJECTED"
    PROVE  KeptTxn(x, q)
BY DEF KeptTxn, StaysKept, Txn

LEMMA QuietKept ==
    ASSUME TypeOK, KeptInv, NEW t \in Txns, NEW y, Become(t, y), KeptTxn(y, events),
           UNCHANGED <<events, items>>
    PROVE  KeptInv'
<1>1. txns'[t] = y /\ \A u \in Txns \ {t} : txns'[u] = txns[u]
  BY DEF TypeOK, Become
<1>2. \A u \in Txns : KeptTxn(txns'[u], events)
  BY <1>1 DEF KeptInv
<1>3. \A u \in Txns : KeptTxn(txns[u], events)'
  BY <1>2 DEF KeptTxn, StaysKept
<1>4. QED
  BY <1>3 DEF KeptInv

LEMMA WriteKept ==
    ASSUME NEW x \in Txn, NEW e \in Events, NEW row \in EventRow, NEW s \in Stages,
           NEW rows, KeptTxn(x, rows), row.status \in Kept, rows[e].status # "REJECTED",
           s = "check" => e = x.event, s \notin {"number", "probe", "draft", "mark"}
    PROVE  KeptTxn(Written(x, e, row, s), rows)
<1> DEFINE y == Written(x, e, row, s)
<1>1. /\ y \in Txn /\ y.stage = s /\ y.eventLocks = x.eventLocks \cup {e}
      /\ y.eventRows[e] = row
      /\ \A f \in Events \ {e} : y.eventRows[f] = x.eventRows[f]
      /\ y.event = x.event /\ y.queue = x.queue
      /\ y.itemRows = x.itemRows /\ y.itemLocks = x.itemLocks
  BY WriteShape
<1> HIDE DEF y
<1>2. \A f \in y.eventLocks : y.eventRows[f].status \in Kept /\ rows[f].status # "REJECTED"
  BY <1>1 DEF KeptTxn, Txn
<1>3. \A f : StaysKept(x, f, rows) => StaysKept(y, f, rows)
  BY <1>1 DEF StaysKept
<1>4. y.stage = "check" => StaysKept(y, y.event, rows)
  BY <1>1 DEF StaysKept
<1>5. \A n \in y.itemLocks : y.itemRows[n] \in Events /\ StaysKept(y, y.itemRows[n], rows)
  BY <1>1, <1>3 DEF KeptTxn
<1>6. KeptTxn(y, rows)
  BY <1>1, <1>2, <1>4, <1>5 DEF KeptTxn
<1>7. QED
  BY <1>6 DEF y

LEMMA MoveKept ==
    ASSUME TypeOK, NumberInv, KeptInv, NEW t \in Txns,
           \/ \E p \in Payloads : Post(t, p)
           \/ RecordAccepted(t) \/ RecordTaken(t) \/ NotConvertible(t) \/ NeedsDraft(t)
           \/ TakeNumber(t) \/ Probe(t) \/ WriteDraft(t) \/ NumberTaken(t) \/ MarkConverted(t)
           \/ StartRun(t) \/ ConvertNext(t) \/ Fail(t) \/ AlreadyDrafted(t)
    PROVE  KeptInv'
<1> DEFINE x == txns[t]
<1>0. /\ x \in Txn /\ x.event \in Events /\ NumberTxn(t, x) /\ KeptTxn(x, events)
      /\ UNCHANGED <<events, items>>
      /\ \A e \in x.queue : events[e].status \in Kept
  BY DEF TypeOK, Txn, NumberInv, KeptInv, KeptTxn, Post, RecordAccepted, RecordTaken,
     NotConvertible, NeedsDraft, TakeNumber, Probe, WriteDraft, NumberTaken, MarkConverted,
     StartRun, ConvertNext, Fail, AlreadyDrafted, Rollback, Tables
<1>00. \A e \in Events : events[e].status \in Kept \cup {"ABSENT", "REJECTED"}
  BY DEF TypeOK, EventRow, Kept
<1> HIDE DEF x
<1> SUFFICES \E y : Become(t, y) /\ KeptTxn(y, events)
  BY <1>0, QuietKept
<1>1. ASSUME NEW p \in Payloads, Post(t, p)
      PROVE  \E y : Become(t, y) /\ KeptTxn(y, events)
  <2>1. PICK s \in {"record", "check"} :
           /\ Become(t, [x EXCEPT !.event = p.event, !.valid = p.valid, !.stage = s])
           /\ s = "check" => events[p.event].status # "ABSENT"
    BY <1>1 DEF Post, x
  <2>2. p.event \in Events /\ p.valid \in BOOLEAN /\ events[p.event].status # "REJECTED"
    BY <1>1, Constants DEF Payload, Post
  <2> DEFINE y == [x EXCEPT !.event = p.event, !.valid = p.valid, !.stage = s]
  <2>3. /\ y \in Txn /\ y.stage = s /\ y.event = p.event /\ y.queue = x.queue
        /\ y.eventLocks = x.eventLocks /\ y.eventRows = x.eventRows
        /\ y.itemLocks = x.itemLocks /\ y.itemRows = x.itemRows
    BY <1>0, <2>2 DEF Txn, Stages
  <2>4. s = "check" => StaysKept(x, p.event, events)
    BY <1>00, <2>1, <2>2 DEF StaysKept
  <2> HIDE DEF y
  <2>5. KeptTxn(y, events)
    BY <1>0, <2>3, <2>4, SameHoldings
  <2>6. QED
    BY <2>1, <2>5 DEF y
<1>2. CASE RecordAccepted(t)
  <2>1. Become(t, Written(x, x.event, Accepted, "check"))
    BY <1>2 DEF RecordAccepted, Written, x
  <2>2. events[x.event].status # "REJECTED" /\ Accepted.status \in Kept
    BY <1>2 DEF RecordAccepted, Absent, Accepted, Kept, x
  <2>3. KeptTxn(Written(x, x.event, Accepted, "check"), events)
    BY <1>0, <2>2, RowShapes, WriteKept DEF Stages
  <2>4. QED
    BY <2>1, <2>3
<1>3. CASE MarkConverted(t)
  <2> DEFINE row == [status |-> "CONVERTED", draft |-> x.number]
             s == IF t \in Runs THEN "next" ELSE "done"
  <2>1. x.number \in Numbers /\ x.stage = "mark"
    BY <1>0, <1>3 DEF MarkConverted, NumberTxn, x
  <2>2. row \in EventRow /\ row.status \in Kept
    BY <2>1, Constants DEF EventRow, Numbers, Kept
  <2>3. Become(t, Written(x, x.event, row, s))
    BY <1>3 DEF MarkConverted, Written, x
  <2>4. events[x.event].status # "REJECTED"
    BY <1>0, <2>1 DEF KeptTxn, StaysKept, Kept
  <2>5. s \in Stages /\ s # "check" /\ s \notin {"number", "probe", "draft", "mark"}
    BY DEF Stages
  <2> HIDE DEF row, s
  <2>6. KeptTxn(Written(x, x.event, row, s), events)
    BY <1>0, <2>2, <2>4, <2>5, WriteKept
  <2>7. QED
    BY <2>3, <2>6
<1>4. ASSUME Become(t, IdleTxn)
      PROVE  \E y : Become(t, y) /\ KeptTxn(y, events)
  BY <1>4, KeptIdle
<1>5. ASSUME NEW s \in Stages, GoTo(t, s),
             s = "check" =>
                StaysKept(x, x.event, events) \/ events[x.event].status = "REJECTED",
             s \in {"number", "probe", "draft", "mark"} => StaysKept(x, x.event, events)
      PROVE  \E y : Become(t, y) /\ KeptTxn(y, events)
  <2> DEFINE y == [x EXCEPT !.stage = s]
  <2>1. /\ y \in Txn /\ y.stage = s /\ y.event = x.event /\ y.queue = x.queue
        /\ y.eventLocks = x.eventLocks /\ y.eventRows = x.eventRows
        /\ y.itemLocks = x.itemLocks /\ y.itemRows = x.itemRows
    BY <1>0 DEF Txn
  <2>2. Become(t, y)
    BY <1>5 DEF GoTo, x
  <2> HIDE DEF y
  <2>3. KeptTxn(y, events)
    BY <1>0, <1>5, <2>1, SameHoldings
  <2>4. QED
    BY <2>2, <2>3
<1>6. CASE RecordTaken(t)
  <2>1. Become(t, IdleTxn) \/ GoTo(t, "check")
    BY <1>6 DEF RecordTaken, Rollback
  <2>2. events[x.event].status # "ABSENT"
    BY <1>0, <1>6 DEF RecordTaken, KeptInv, x
  <2>3. StaysKept(x, x.event, events) \/ events[x.event].status = "REJECTED"
    BY <1>0, <1>00, <2>2 DEF StaysKept
  <2>4. QED
    BY <1>4, <1>5, <2>1, <2>3 DEF Stages
<1>7. CASE NeedsDraft(t)
  <2>1. /\ x.stage = "check" /\ EventSeen(t, x.event).status # "REJECTED" /\ GoTo(t, "number")
    BY <1>7 DEF NeedsDraft, x
  <2>2. StaysKept(x, x.event, events) \/ events[x.event].status = "REJECTED"
    BY <1>0, <2>1 DEF KeptTxn
  <2>3. StaysKept(x, x.event, events)
    BY <2>1, <2>2 DEF StaysKept, EventSeen, x
  <2>4. QED
    BY <1>5, <2>1, <2>3 DEF Stages
<1>8. CASE AlreadyDrafted(t)
  BY <1>4, <1>5, <1>8 DEF AlreadyDrafted, Stages
<1>9. CASE TakeNumber(t)
  <2>1. PICK n \in Numbers, s \in {"draft", "probe"} :
           Become(t, [x EXCEPT !.number = n, !.exists = FALSE, !.stage = s])
    BY <1>9 DEF TakeNumber, x
  <2> DEFINE y == [x EXCEPT !.number = n, !.exists = FALSE, !.stage = s]
  <2>2. n \in 0 .. MaxNumber
    BY Constants DEF Numbers
  <2>3. /\ y \in Txn /\ y.stage = s /\ y.event = x.event /\ y.queue = x.queue
        /\ y.eventLocks = x.eventLocks /\ y.eventRows = x.eventRows
        /\ y.itemLocks = x.itemLocks /\ y.itemRows = x.itemRows
    BY <1>0, <2>2 DEF Txn, Stages
  <2>4. StaysKept(x, x.event, events)
    BY <1>0, <1>9 DEF TakeNumber, KeptTxn, x
  <2> HIDE DEF y
  <2>5. KeptTxn(y, events)
    BY <1>0, <2>3, <2>4, SameHoldings
  <2>6. QED
    BY <2>1, <2>5 DEF y
<1>10. CASE Probe(t)
  <2>1. PICK b \in BOOLEAN : Become(t, [x EXCEPT !.exists = b, !.stage = "draft"])
    BY <1>10 DEF Probe, x
  <2> DEFINE y == [x EXCEPT !.exists = b, !.stage = "draft"]
  <2>2. /\ y \in Txn /\ y.stage = "draft" /\ y.event = x.event /\ y.queue = x.queue
        /\ y.eventLocks = x.eventLocks /\ y.eventRows = x.eventRows
        /\ y.itemLocks = x.itemLocks /\ y.itemRows = x.itemRows
    BY <1>0 DEF Txn, Stages
  <2>3. StaysKept(x, x.event, events)
    BY <1>0, <1>10 DEF Probe, KeptTxn, x
  <2> HIDE DEF y
  <2>4. KeptTxn(y, events)
    BY <1>0, <2>2, <2>3, SameHoldings
  <2>5. QED
    BY <2>1, <2>4 DEF y
<1>11. CASE WriteDraft(t)
  <2> DEFINE n == x.number
             y == [x EXCEPT !.itemRows[n] = x.event, !.itemLocks = @ \cup {n}, !.stage = "mark"]
  <2>1. n \in Numbers /\ x.stage = "draft" /\ Become(t, y)
    BY <1>0, <1>11 DEF WriteDraft, NumberTxn, x
  <2>2. /\ y \in Txn /\ y.stage = "mark" /\ y.event = x.event /\ y.queue = x.queue
        /\ y.eventLocks = x.eventLocks /\ y.eventRows = x.eventRows
        /\ y.itemLocks = x.itemLocks \cup {n} /\ y.itemRows[n] = x.event
        /\ \A k \in Numbers \ {n} : y.itemRows[k] = x.itemRows[k]
    BY <1>0, <2>1 DEF Txn, Stages
  <2>3. StaysKept(x, x.event, events)
    BY <1>0, <2>1 DEF KeptTxn
  <2> HIDE DEF y
  <2>4. \A f : StaysKept(y, f, events) <=> StaysKept(x, f, events)
    BY <2>2 DEF StaysKept
  <2>5. \A k \in y.itemLocks : y.itemRows[k] \in Events /\ StaysKept(y, y.itemRows[k], events)
    BY <1>0, <2>1, <2>2, <2>3, <2>4 DEF KeptTxn, Txn
  <2>6. KeptTxn(y, events)
    BY <1>0, <2>2, <2>3, <2>4, <2>5 DEF KeptTxn
  <2>7. QED
    BY <2>1, <2>6
<1>12. CASE StartRun(t)
  <2> DEFINE q == {e \in Events : events[e] = Accepted}
             y == [x EXCEPT !.stage = "next", !.queue = q]
  <2>1. Become(t, y)
    BY <1>12 DEF StartRun, x
  <2>2. /\ y \in Txn /\ y.stage = "next" /\ y.queue = q
        /\ y.eventLocks = x.eventLocks /\ y.eventRows = x.eventRows
        /\ y.itemLocks = x.itemLocks /\ y.itemRows = x.itemRows
    BY <1>0 DEF Txn, Stages
  <2>3. \A e \in q : events[e].status \in Kept
    BY DEF Accepted, Kept
  <2> HIDE DEF y, q
  <2>4. KeptTxn(y, events)
    BY <1>0, <2>2, <2>3, SameHoldings
  <2>5. QED
    BY <2>1, <2>4
<1>13. CASE ConvertNext(t)
  <2>1. ASSUME NEW e \in x.queue,
               Become(t, [x EXCEPT !.event = e, !.stage = "check", !.queue = @ \ {e}])
        PROVE  \E y : Become(t, y) /\ KeptTxn(y, events)
    <3> DEFINE y == [x EXCEPT !.event = e, !.stage = "check", !.queue = @ \ {e}]
    <3>1. /\ y \in Txn /\ y.stage = "check" /\ y.event = e /\ y.queue = x.queue \ {e}
          /\ y.eventLocks = x.eventLocks /\ y.eventRows = x.eventRows
          /\ y.itemLocks = x.itemLocks /\ y.itemRows = x.itemRows
      BY <1>0 DEF Txn, Stages
    <3>2. StaysKept(x, e, events)
      BY <1>0 DEF StaysKept
    <3> HIDE DEF y
    <3>3. KeptTxn(y, events)
      BY <1>0, <3>1, <3>2, SameHoldings
    <3>4. QED
      BY <2>1, <3>3 DEF y
  <2>2. QED
    BY <1>5, <1>13, <2>1 DEF ConvertNext, Stages, x
<1>14. QED
  BY <1>1, <1>2, <1>3, <1>4, <1>6, <1>7, <1>8, <1>9, <1>10, <1>11, <1>12, <1>13
     DEF NotConvertible, NumberTaken, Fail, Rollback

LEMMA RejectKept ==
    ASSUME TypeOK, KeptInv, NEW t \in Txns, RecordRejected(t)
    PROVE  KeptInv'
<1> DEFINE e == txns[t].event
<1>1. /\ e \in Events /\ events[e] = Absent /\ EventFree(t, e)
      /\ events' = [events EXCEPT ![e] = Rejected] /\ items' = items /\ Become(t, IdleTxn)
  BY DEF TypeOK, Txn, RecordRejected
<1>2. txns'[t] = IdleTxn /\ \A u \in Txns \ {t} : txns'[u] = txns[u]
  BY <1>1 DEF TypeOK, Become
<1>3. events'[e] = Rejected /\ \A f \in Events \ {e} : events'[f] = events[f]
  BY <1>1 DEF TypeOK
<1>4. /\ Rejected.status = "REJECTED" /\ events[e].status = "ABSENT"
      /\ "ABSENT" \notin Kept
  BY <1>1 DEF Rejected, Absent, Kept
<1>5. ASSUME NEW u \in Txns PROVE KeptTxn(txns'[u], events')
  <2>1. CASE u = t
    BY <1>2, <2>1, KeptIdle
  <2>2. CASE u # t
    <3>1. txns[u] \in Txn /\ KeptTxn(txns[u], events) /\ e \notin txns[u].eventLocks
      BY <1>1, <2>2 DEF TypeOK, KeptInv, EventFree
    <3>2. /\ \A f \in Events : events[f].status \in Kept => events'[f].status \in Kept
          /\ \A f \in Events : events[f].status = "REJECTED" => events'[f].status = "REJECTED"
      BY <1>1, <1>3, <1>4
    <3>3. \A f \in txns[u].eventLocks : events'[f].status # "REJECTED"
      BY <1>3, <3>1 DEF KeptTxn, Txn
    <3>4. KeptTxn(txns[u], events')
      BY <3>1, <3>2, <3>3, KeptFrame
    <3>5. QED
      BY <1>2, <2>2, <3>4
  <2>3. QED
    BY <2>1, <2>2
<1>6. \A u \in Txns : KeptTxn(txns[u], events)'
  BY <1>5 DEF KeptTxn, StaysKept
<1>7. \A f \in Events : events'[f].status = "ABSENT" => events'[f] = Absent
  BY <1>3, <1>4 DEF KeptInv
<1>8. ASSUME NEW n \in Numbers, items'[n] # NoEvent PROVE events'[items'[n]].status \in Kept
  <2>1. items[n] \in Events /\ events[items[n]].status \in Kept
    BY <1>1, <1>8 DEF KeptInv, TypeOK
  <2>2. QED
    BY <1>1, <1>3, <1>4, <2>1
<1>9. QED
  BY <1>6, <1>7, <1>8 DEF KeptInv

\* What a commit does to the two tables, given what the transaction holds.
LEMMA CommitEffect ==
    ASSUME TypeOK, KeptInv, NEW t \in Txns, Commit(t)
    PROVE  /\ \A e \in Events : events'[e] = EventSeen(t, e)
           /\ \A e \in Events : e \in txns[t].eventLocks
                 => events'[e].status \in Kept /\ events[e].status # "REJECTED"
           /\ \A e \in Events : e \notin txns[t].eventLocks => events'[e] = events[e]
           /\ \A n \in Numbers : items'[n] # NoEvent =>
                 items'[n] \in Events /\ events'[items'[n]].status \in Kept
<1> DEFINE x == txns[t]
<1>1. x \in Txn /\ KeptTxn(x, events)
  BY DEF TypeOK, KeptInv
<1>2. /\ events' = [e \in Events |-> IF e \in x.eventLocks THEN x.eventRows[e] ELSE events[e]]
      /\ items' = [n \in Numbers |-> IF n \in x.itemLocks THEN x.itemRows[n] ELSE items[n]]
      /\ \A e \in Events : events'[e] = EventSeen(t, e)
  BY DEF Commit, EventSeen, ItemSeen
<1> HIDE DEF x
<1>3. \A e \in Events : e \in x.eventLocks
         => events'[e].status \in Kept /\ events[e].status # "REJECTED"
  BY <1>1, <1>2 DEF KeptTxn
<1>4. \A e \in Events : e \notin x.eventLocks => events'[e] = events[e]
  BY <1>2
<1>5. ASSUME NEW n \in Numbers, items'[n] # NoEvent
      PROVE  items'[n] \in Events /\ events'[items'[n]].status \in Kept
  <2>1. CASE n \in x.itemLocks
    <3>1. items'[n] = x.itemRows[n] /\ items'[n] \in Events /\ StaysKept(x, items'[n], events)
      BY <1>1, <1>2, <2>1 DEF KeptTxn
    <3>2. QED
      BY <1>3, <1>4, <3>1 DEF StaysKept
  <2>2. CASE n \notin x.itemLocks
    <3>1. items'[n] = items[n] /\ items'[n] \in Events /\ events[items'[n]].status \in Kept
      BY <1>2, <1>5, <2>2 DEF KeptInv, TypeOK
    <3>2. QED
      BY <1>3, <1>4, <3>1
  <2>3. QED
    BY <2>1, <2>2
<1>6. QED
  BY <1>2, <1>3, <1>4, <1>5 DEF x

LEMMA CommitKept ==
    ASSUME TypeOK, KeptInv, NEW t \in Txns, Commit(t)
    PROVE  KeptInv'
<1>1. txns'[t] = IdleTxn /\ \A u \in Txns \ {t} : txns'[u] = txns[u]
  BY DEF TypeOK, Become, Commit
<1>2. /\ \A f \in Events : events[f].status \in Kept => events'[f].status \in Kept
      /\ \A f \in Events : events[f].status = "REJECTED" <=> events'[f].status = "REJECTED"
  BY CommitEffect DEF Kept
<1>3. ASSUME NEW u \in Txns PROVE KeptTxn(txns'[u], events')
  <2>1. CASE u = t
    BY <1>1, <2>1, KeptIdle
  <2>2. CASE u # t
    <3>1. txns[u] \in Txn /\ KeptTxn(txns[u], events)
      BY DEF TypeOK, KeptInv
    <3>2. \A f \in txns[u].eventLocks : events'[f].status # "REJECTED"
      BY <1>2, <3>1 DEF KeptTxn, Txn
    <3>3. KeptTxn(txns[u], events')
      BY <1>2, <3>1, <3>2, KeptFrame
    <3>4. QED
      BY <1>1, <2>2, <3>3
  <2>3. QED
    BY <2>1, <2>2
<1>4. \A u \in Txns : KeptTxn(txns[u], events)'
  BY <1>3 DEF KeptTxn, StaysKept
<1>5. \A f \in Events : events'[f].status = "ABSENT" => events'[f] = Absent
  BY CommitEffect DEF KeptInv, Kept
<1>6. QED
  BY <1>4, <1>5, CommitEffect DEF KeptInv

LEMMA KeptInvariant == Spec => [](TypeOK /\ NumberInv /\ KeptInv)
<1>1. Init => KeptInv
  <2> SUFFICES ASSUME Init PROVE KeptInv
    OBVIOUS
  <2>1. \A t \in Txns : KeptTxn(txns[t], events)
    BY KeptIdle DEF Init
  <2>2. \A e \in Events : events[e].status = "ABSENT" => events[e] = Absent
    BY DEF Init, Accepted
  <2>3. QED
    BY <2>1, <2>2 DEF Init, KeptInv
<1>2. TypeOK /\ NumberInv /\ KeptInv /\ [Next]_vars => KeptInv'
  <2> SUFFICES ASSUME TypeOK, NumberInv, KeptInv, [Next]_vars PROVE KeptInv'
    OBVIOUS
  <2>1. ASSUME NEW t \in Txns, (\E p \in Payloads : Post(t, p)) \/ Progress(t) \/ Fail(t)
        PROVE  KeptInv'
    BY <2>1, MoveKept, RejectKept, CommitKept DEF Progress
  <2>2. CASE UNCHANGED vars
    BY <2>2 DEF vars, KeptInv, KeptTxn, StaysKept
  <2>3. QED
    BY <2>1, <2>2 DEF Next
<1>3. QED
  BY <1>1, <1>2, CaptureTypes, PTL DEF Spec

\* RejectedStaysOut: whichever of the Worker, its fallback and the run get hold of
\* it, and whatever is posted again, an event that was recorded as rejected keeps
\* its row and gets no draft (capture_bridge.py:256-257).
THEOREM RejectedNeverEnters == Spec => RejectedStaysOut
<1>1. TypeOK /\ KeptInv /\ [Next]_vars =>
        [\A e \in Events : events[e].status = "REJECTED" =>
            /\ events'[e] = events[e]
            /\ \A n \in Numbers : items'[n] # e]_vars
  <2> SUFFICES ASSUME TypeOK, KeptInv, Next, NEW e \in Events, events[e].status = "REJECTED"
               PROVE  events'[e] = events[e] /\ \A n \in Numbers : items'[n] # e
    OBVIOUS
  <2>1. "REJECTED" \notin Kept /\ e # NoEvent
    BY Constants DEF Kept
  <2>2. \A n \in Numbers : items[n] # e
    BY <2>1 DEF KeptInv
  <2>3. PICK t \in Txns : (\E p \in Payloads : Post(t, p)) \/ Progress(t) \/ Fail(t)
    BY DEF Next
  <2>4. CASE Commit(t)
    <3>1. events'[e] = events[e]
      BY <2>4, CommitEffect
    <3>2. QED
      BY <2>1, <2>4, <3>1, CommitEffect
  <2>5. CASE RecordRejected(t)
    <3>1. events[txns[t].event].status # "REJECTED"
      BY <2>5 DEF RecordRejected, Absent
    <3>2. QED
      BY <2>2, <2>5, <3>1 DEF RecordRejected, TypeOK
  <2>6. CASE events' = events /\ items' = items
    BY <2>2, <2>6
  <2>7. QED
    BY <2>3, <2>4, <2>5, <2>6 DEF Progress, Post, Fail, Rollback, Tables, StartRun, ConvertNext,
       RecordAccepted, RecordTaken, AlreadyDrafted, NotConvertible, NeedsDraft, TakeNumber, Probe,
       WriteDraft, NumberTaken, MarkConverted
<1>2. QED
  BY <1>1, KeptInvariant, PTL DEF Spec, RejectedStaysOut
-------------------------------------------------------------------------------
(* Drafts and events that name each other.                                   *)

\* Others may change what a transaction does not hold, except the event it is about
\* to convert, and take no row away.
LEMMA LinkFrame ==
    ASSUME NEW x \in Txn, NEW r, NEW q, NEW d, NEW f, LinkedTxn(x, r, d),
           \A e \in x.eventLocks : q[e] = r[e], \A n \in x.itemLocks : f[n] = d[n],
           \A e \in Events : r[e] # Absent => q[e] # Absent,
           x.stage \in Drafting /\ x.event \notin x.eventLocks => q[x.event] = r[x.event]
    PROVE  LinkedTxn(x, q, f)
<1>1. x.event \in Events /\ x.queue \subseteq Events
  BY DEF Txn
<1>2. EventsLinked(x, q) /\ ItemsLinked(x, f)
  BY DEF LinkedTxn, EventsLinked, ItemsLinked
<1>3. StageLinked(x, q) /\ QueueLinked(x, q)
  BY <1>1 DEF LinkedTxn, StageLinked, QueueLinked
<1>4. QED
  BY <1>2, <1>3 DEF LinkedTxn

LEMMA LinkIdle ==
    ASSUME NEW r, NEW d
    PROVE  LinkedTxn(IdleTxn, r, d)
BY IdleShape DEF LinkedTxn, EventsLinked, ItemsLinked, StageLinked, QueueLinked, Drafting

\* A transaction that goes on with what it holds.
LEMMA SameLinks ==
    ASSUME NEW x \in Txn, NEW y \in Txn, NEW r, NEW d, LinkedTxn(x, r, d),
           y.eventLocks = x.eventLocks, y.eventRows = x.eventRows,
           y.itemLocks = x.itemLocks, y.itemRows = x.itemRows, x.stage # "mark",
           \/ y.event = x.event /\ y.stage \in Drafting \cup {"check"}
           \/ x.stage \notin Drafting \cup {"check"}
           \/ x.event \notin x.eventLocks,
           StageLinked(y, r), QueueLinked(y, r)
    PROVE  LinkedTxn(y, r, d)
<1>1. \A e, n : Linked(x, e, n) <=> Linked(y, e, n)
  BY DEF Linked
<1>2. EventsLinked(y, r)
  BY <1>1 DEF LinkedTxn, EventsLinked
<1>3. ItemsLinked(y, d)
  BY <1>1 DEF LinkedTxn, ItemsLinked
<1>4. QED
  BY <1>2, <1>3 DEF LinkedTxn

\* What a transaction may become, the tables being what they are.
Fits(t, y) ==
    /\ LinkedTxn(y, events, items)
    /\ \A u \in Txns \ {t} : /\ y.eventLocks \cap txns[u].eventLocks = {}
                             /\ y.itemLocks \cap txns[u].itemLocks = {}
    /\ t \in Posters /\ y.stage = "done" => Linked(y, y.event, y.number)

LEMMA QuietLinks ==
    ASSUME TypeOK, LinkInv, NEW t \in Txns, NEW y, Become(t, y), UNCHANGED Tables, Fits(t, y)
    PROVE  LinkInv'
<1>1. txns'[t] = y /\ \A u \in Txns \ {t} : txns'[u] = txns[u]
  BY DEF TypeOK, Become
<1>2. events' = events /\ items' = items /\ told' = told
  BY DEF Tables
<1>3. \A u \in Txns : LinkedTxn(txns'[u], events', items')
  BY <1>1, <1>2 DEF LinkInv, Fits
<1>4. \A u \in Txns : LinkedTxn(txns[u], events, items)'
  BY <1>3 DEF LinkedTxn, EventsLinked, ItemsLinked, StageLinked, QueueLinked, Linked
<1>5. HoldersApart'
  BY <1>1 DEF LinkInv, HoldersApart, Fits
<1>6. LinksAgree' /\ SameDraft' /\ NullIsRejected' /\ RowsLinked'
  BY <1>2 DEF LinkInv, LinksAgree, SameDraft, NullIsRejected, RowsLinked
<1>7. \A u \in Posters :
         txns'[u].stage = "done" => Linked(txns'[u], txns'[u].event, txns'[u].number)
  BY <1>1 DEF LinkInv, Fits, Txns
<1>8. QED
  BY <1>4, <1>5, <1>6, <1>7 DEF LinkInv, Linked

LEMMA IdleFits ==
    ASSUME NEW t \in Txns
    PROVE  Fits(t, IdleTxn)
BY LinkIdle, IdleShape DEF Fits

\* Every step that leaves the tables alone, by what its transaction becomes.
LEMMA MoveLinks ==
    ASSUME TypeOK, NumberInv, LinkInv, Undisturbed, NEW t \in Txns,
           \/ \E p \in Payloads : Post(t, p)
           \/ RecordAccepted(t) \/ RecordTaken(t) \/ NeedsDraft(t) \/ TakeNumber(t)
           \/ Probe(t) \/ WriteDraft(t) \/ NumberTaken(t) \/ MarkConverted(t)
           \/ StartRun(t) \/ ConvertNext(t) \/ Fail(t)
    PROVE  LinkInv'
<1> DEFINE x == txns[t]
<1>0. /\ x \in Txn /\ x.event \in Events /\ NumberTxn(t, x) /\ LinkedTxn(x, events, items)
      /\ UNCHANGED Tables
      /\ \A u \in Txns \ {t} : /\ x.eventLocks \cap txns[u].eventLocks = {}
                               /\ x.itemLocks \cap txns[u].itemLocks = {}
  BY DEF TypeOK, Txn, NumberInv, LinkInv, HoldersApart, Post, RecordAccepted, RecordTaken,
     NeedsDraft, TakeNumber, Probe, WriteDraft, NumberTaken, MarkConverted, StartRun,
     ConvertNext, Fail, Rollback
<1> HIDE DEF x
<1> SUFFICES \E y : Become(t, y) /\ Fits(t, y)
  BY <1>0, QuietLinks
<1>a. Absent # Accepted /\ Accepted.draft = 0 /\ Absent.draft = 0
  BY DEF Absent, Accepted
<1>b. /\ EventsLinked(x, events) /\ ItemsLinked(x, items)
      /\ StageLinked(x, events) /\ QueueLinked(x, events)
  BY <1>0 DEF LinkedTxn
<1>1. ASSUME NEW y \in Txn, Become(t, y),
             y.eventLocks = x.eventLocks, y.eventRows = x.eventRows,
             y.itemLocks = x.itemLocks, y.itemRows = x.itemRows, x.stage # "mark",
             \/ y.event = x.event /\ y.stage \in Drafting \cup {"check"}
             \/ x.stage \notin Drafting \cup {"check"}
             \/ x.event \notin x.eventLocks,
             StageLinked(y, events), QueueLinked(y, events), t \in Posters => y.stage # "done"
      PROVE  \E z : Become(t, z) /\ Fits(t, z)
  <2>1. LinkedTxn(y, events, items)
    BY <1>0, <1>1, SameLinks
  <2>2. QED
    BY <1>0, <1>1, <2>1 DEF Fits
<1>2. ASSUME NEW p \in Payloads, Post(t, p)
      PROVE  \E y : Become(t, y) /\ Fits(t, y)
  <2>1. PICK s \in {"record", "check"} :
           /\ Become(t, [x EXCEPT !.event = p.event, !.valid = p.valid, !.stage = s])
           /\ s = "check" => events[p.event].status # "ABSENT"
    BY <1>2 DEF Post, x
  <2>2. p.event \in Events /\ p.valid \in BOOLEAN
    BY Constants DEF Payload
  <2> DEFINE y == [x EXCEPT !.event = p.event, !.valid = p.valid, !.stage = s]
  <2>3. /\ y \in Txn /\ y.stage = s /\ y.event = p.event /\ y.queue = x.queue
        /\ y.eventLocks = x.eventLocks /\ y.itemLocks = x.itemLocks
        /\ y.eventRows = x.eventRows /\ y.itemRows = x.itemRows
    BY <1>0, <2>2 DEF Txn, Stages
  <2>4. x.stage = "idle"
    BY <1>2 DEF Post, x
  <2>5. x.eventLocks = {} /\ x.itemLocks = {} /\ x.queue = {}
    BY <1>b, <2>4 DEF StageLinked
  <2>6. s = "check" => events[p.event] # Absent
    BY <2>1 DEF Absent
  <2> HIDE DEF y
  <2>7. StageLinked(y, events) /\ QueueLinked(y, events)
    BY <2>3, <2>5, <2>6 DEF StageLinked, QueueLinked, Drafting
  <2>8. Become(t, y)
    BY <2>1 DEF y
  <2>9. QED
    BY <1>1, <2>3, <2>4, <2>5, <2>7, <2>8
<1>3. CASE RecordAccepted(t)
  <2> DEFINE y == Written(x, x.event, Accepted, "check")
  <2>1. /\ Become(t, y) /\ x.stage = "record" /\ events[x.event] = Absent
        /\ \A u \in Txns \ {t} : x.event \notin txns[u].eventLocks
    BY <1>3 DEF RecordAccepted, Written, EventFree, x
  <2>2. "check" \in Stages
    BY DEF Stages
  <2>3. /\ y.stage = "check" /\ y.eventLocks = x.eventLocks \cup {x.event}
        /\ y.eventRows[x.event] = Accepted /\ y.event = x.event /\ y.itemLocks = x.itemLocks
        /\ y.queue = x.queue
    BY <1>0, <2>2, RowShapes, WriteShape
  <2>4. x.eventLocks = {} /\ x.itemLocks = {} /\ x.queue = {}
    BY <1>b, <2>1 DEF StageLinked
  <2> HIDE DEF y
  <2>5. LinkedTxn(y, events, items)
    BY <2>1, <2>3, <2>4 DEF LinkedTxn, EventsLinked, ItemsLinked, StageLinked, QueueLinked, Drafting
  <2>6. Fits(t, y)
    BY <2>1, <2>3, <2>4, <2>5 DEF Fits
  <2>7. QED
    BY <2>1, <2>6
<1>4. CASE MarkConverted(t)
  <2> DEFINE e == x.event
             n == x.number
             s == IF t \in Runs THEN "next" ELSE "done"
             y == Written(x, e, Converted(n), s)
  <2>1. /\ n \in Numbers /\ x.stage = "mark" /\ Become(t, y)
        /\ \A u \in Txns \ {t} : e \notin txns[u].eventLocks
    BY <1>0, <1>4 DEF MarkConverted, NumberTxn, Written, Converted, EventFree, x
  <2>2. Converted(n) \in EventRow /\ s \in Stages /\ s \in {"next", "done"}
    BY <2>1, Constants DEF EventRow, Numbers, Converted, Stages
  <2>3. /\ y.stage = s /\ y.eventLocks = x.eventLocks \cup {e}
        /\ y.eventRows[e] = Converted(n)
        /\ \A f \in Events \ {e} : y.eventRows[f] = x.eventRows[f]
        /\ y.event = e /\ y.number = n /\ y.queue = x.queue
        /\ y.itemLocks = x.itemLocks /\ y.itemRows = x.itemRows
    <3> HIDE DEF s
    <3>1. QED
      BY <1>0, <2>2, WriteShape
  <2>4. /\ n \in x.itemLocks /\ x.itemRows[n] = e
        /\ e \in x.eventLocks => x.eventRows[e] = Accepted
        /\ e \notin x.eventLocks => events[e] = Accepted
    BY <1>b, <2>1 DEF StageLinked, Drafting
  <2>5. \A m : x.eventRows[e] = Accepted => x.eventRows[e] # Converted(m)
    BY DEF Accepted, Converted
  <2>6. events[e].draft = 0 /\ events[e].status # "REJECTED"
    <3>1. e \in x.eventLocks => events[e] = Absent
      BY <1>b, <2>4, <2>5 DEF EventsLinked, Linked
    <3>2. QED
      BY <2>4, <3>1 DEF Absent, Accepted
  <2>7. Linked(y, e, n)
    BY <2>3, <2>4 DEF Linked
  <2>8. ASSUME NEW f \in Events, NEW m, Linked(x, f, m) PROVE Linked(y, f, m)
    <3>1. f # e
      BY <2>4, <2>5, <2>8 DEF Linked
    <3>2. QED
      BY <2>3, <2>8, <3>1 DEF Linked
  <2>9. x.eventLocks \subseteq Events /\ x.itemLocks \subseteq Numbers
    BY <1>0 DEF Txn
  <2> HIDE DEF y, s
  <2>10. EventsLinked(y, events)
    <3> SUFFICES ASSUME NEW f \in y.eventLocks
                 PROVE  /\ events[f].draft = 0 /\ events[f].status # "REJECTED"
                        /\ \E m \in Numbers : Linked(y, f, m)
      BY DEF EventsLinked
    <3>1. CASE f = e
      BY <2>1, <2>6, <2>7, <3>1
    <3>2. CASE f # e
      <4>1. f \in x.eventLocks /\ x.event # f
        BY <2>3, <3>2
      <4>2. QED
        BY <1>b, <2>8, <2>9, <4>1 DEF EventsLinked
    <3>3. QED
      BY <3>1, <3>2
  <2>11. ItemsLinked(y, items)
    BY <1>0, <1>b, <2>3, <2>7, <2>8 DEF ItemsLinked
  <2>12. StageLinked(y, events)
    BY <2>2, <2>3 DEF StageLinked, Drafting
  <2>13. QueueLinked(y, events)
    BY <1>b, <2>1, <2>2, <2>3 DEF QueueLinked, Drafting
  <2>14. Fits(t, y)
    BY <1>0, <2>1, <2>3, <2>7, <2>10, <2>11, <2>12, <2>13 DEF Fits, LinkedTxn
  <2>15. QED
    BY <2>1, <2>14 DEF y
<1>5. ASSUME Become(t, IdleTxn)
      PROVE  \E y : Become(t, y) /\ Fits(t, y)
  BY <1>5, IdleFits
<1>6. CASE RecordTaken(t)
  <2>1. CASE GoTo(t, "check")
    <3> DEFINE y == [x EXCEPT !.stage = "check"]
    <3>1. x.stage = "record" /\ events[x.event] # Absent /\ Become(t, y)
      BY <1>6, <2>1 DEF RecordTaken, GoTo, x
    <3>2. /\ y \in Txn /\ y.stage = "check" /\ y.event = x.event /\ y.queue = x.queue
          /\ y.eventLocks = x.eventLocks /\ y.itemLocks = x.itemLocks
          /\ y.eventRows = x.eventRows /\ y.itemRows = x.itemRows
      BY <1>0 DEF Txn, Stages
    <3>3. x.eventLocks = {} /\ x.itemLocks = {} /\ x.queue = {}
      BY <1>b, <3>1 DEF StageLinked
    <3> HIDE DEF y
    <3>4. StageLinked(y, events) /\ QueueLinked(y, events)
      BY <3>1, <3>2, <3>3 DEF StageLinked, QueueLinked, Drafting
    <3>5. QED
      BY <1>1, <3>1, <3>2, <3>3, <3>4
  <2>2. QED
    BY <1>5, <1>6, <2>1 DEF RecordTaken, Rollback
<1>7. CASE NeedsDraft(t)
  <2> DEFINE y == [x EXCEPT !.stage = "number"]
  <2>1. /\ x.stage = "check" /\ Become(t, y)
        /\ EventSeen(t, x.event).draft = 0 /\ EventSeen(t, x.event).status # "REJECTED"
    BY <1>7 DEF NeedsDraft, GoTo, x
  <2>2. /\ y \in Txn /\ y.stage = "number" /\ y.event = x.event /\ y.queue = x.queue
        /\ y.eventLocks = x.eventLocks /\ y.itemLocks = x.itemLocks
        /\ y.eventRows = x.eventRows /\ y.itemRows = x.itemRows
    BY <1>0 DEF Txn, Stages
  <2>3. x.event \notin x.eventLocks => events[x.event] = Accepted
    <3> SUFFICES ASSUME x.event \notin x.eventLocks PROVE events[x.event] = Accepted
      OBVIOUS
    <3>1. events[x.event].draft = 0 /\ events[x.event].status # "REJECTED"
      BY <2>1 DEF EventSeen, x
    <3>2. events[x.event] # Absent /\ events[x.event] # Rejected
      BY <1>b, <2>1, <3>1 DEF StageLinked, Rejected
    <3>3. QED
      BY <1>0, <3>1, <3>2 DEF LinkInv, RowsLinked
  <2> HIDE DEF y
  <2>4. StageLinked(y, events) /\ QueueLinked(y, events)
    BY <1>b, <2>1, <2>2, <2>3 DEF StageLinked, QueueLinked, Drafting
  <2>5. QED
    BY <1>1, <2>1, <2>2, <2>4 DEF Drafting
<1>8. CASE TakeNumber(t)
  <2>1. PICK n \in Numbers, s \in {"draft", "probe"} :
           /\ Become(t, [x EXCEPT !.number = n, !.exists = FALSE, !.stage = s])
           /\ \A u \in Numbers : ItemSeen(t, u) # NoEvent => u < n
    BY <1>8 DEF TakeNumber, x
  <2> DEFINE y == [x EXCEPT !.number = n, !.exists = FALSE, !.stage = s]
  <2>2. n \in 0 .. MaxNumber /\ n \in Nat /\ x.stage = "number"
    <3>1. x.stage = "number"
      BY <1>8 DEF TakeNumber, x
    <3>2. QED
      BY <3>1, Constants DEF Numbers
  <2>3. /\ y \in Txn /\ y.stage = s /\ ~y.exists /\ y.number = n /\ y.event = x.event
        /\ y.queue = x.queue /\ y.eventLocks = x.eventLocks /\ y.itemLocks = x.itemLocks
        /\ y.eventRows = x.eventRows /\ y.itemRows = x.itemRows
    BY <1>0, <2>2 DEF Txn, Stages
  <2>4. n \notin x.itemLocks
    <3> SUFFICES ASSUME n \in x.itemLocks PROVE FALSE
      OBVIOUS
    <3>1. x.itemRows[n] \in Events
      BY <1>b, <2>2 DEF ItemsLinked, Linked
    <3>2. ItemSeen(t, n) # NoEvent
      BY <3>1, Constants DEF ItemSeen, x
    <3>3. QED
      BY <2>1, <2>2, <3>2
  <2> HIDE DEF y
  <2>5. StageLinked(y, events) /\ QueueLinked(y, events)
    BY <1>b, <2>2, <2>3, <2>4 DEF StageLinked, QueueLinked, Drafting
  <2>6. Become(t, y)
    BY <2>1 DEF y
  <2>7. QED
    BY <1>1, <2>2, <2>3, <2>5, <2>6 DEF Drafting
<1>9. CASE Probe(t)
  <2> DEFINE y == [x EXCEPT !.exists = FALSE, !.stage = "draft"]
  <2>1. x.stage = "probe" /\ Become(t, y)
    BY <1>9 DEF Probe, Undisturbed, x
  <2>2. /\ y \in Txn /\ y.stage = "draft" /\ ~y.exists /\ y.event = x.event
        /\ y.number = x.number /\ y.queue = x.queue
        /\ y.eventLocks = x.eventLocks /\ y.itemLocks = x.itemLocks
        /\ y.eventRows = x.eventRows /\ y.itemRows = x.itemRows
    BY <1>0 DEF Txn, Stages
  <2> HIDE DEF y
  <2>3. StageLinked(y, events) /\ QueueLinked(y, events)
    BY <1>b, <2>1, <2>2 DEF StageLinked, QueueLinked, Drafting
  <2>4. QED
    BY <1>1, <2>1, <2>2, <2>3 DEF Drafting
<1>10. CASE WriteDraft(t)
  <2> DEFINE n == x.number
             y == [x EXCEPT !.itemRows[n] = x.event, !.itemLocks = @ \cup {n}, !.stage = "mark"]
  <2>1. /\ n \in Numbers /\ x.stage = "draft" /\ Become(t, y)
        /\ x.exists \/ items[n] = NoEvent
        /\ \A u \in Txns \ {t} : n \notin txns[u].itemLocks
    BY <1>0, <1>10 DEF WriteDraft, NumberTxn, ItemFree, x
  <2>2. /\ y.stage = "mark" /\ y.event = x.event /\ y.number = n /\ y.queue = x.queue
        /\ y.eventLocks = x.eventLocks /\ y.eventRows = x.eventRows
        /\ y.itemLocks = x.itemLocks \cup {n} /\ y.itemRows[n] = x.event
        /\ \A m \in Numbers \ {n} : y.itemRows[m] = x.itemRows[m]
    BY <1>0, <2>1 DEF Txn
  <2>3. n \notin x.itemLocks /\ ~x.exists
    BY <1>b, <2>1 DEF StageLinked
  <2>4. x.itemLocks \subseteq Numbers
    BY <1>0 DEF Txn
  <2> HIDE DEF y
  <2>5. \A e, m : Linked(x, e, m) => Linked(y, e, m)
    BY <2>2, <2>3, <2>4 DEF Linked
  <2>6. EventsLinked(y, events)
    BY <1>b, <2>1, <2>2, <2>5 DEF EventsLinked, Drafting
  <2>7. ItemsLinked(y, items)
    <3> SUFFICES ASSUME NEW m \in y.itemLocks
                 PROVE  /\ items[m] = NoEvent
                        /\ \/ y.stage = "mark" /\ y.number = m
                           \/ \E e \in Events : Linked(y, e, m)
      BY DEF ItemsLinked
    <3>1. CASE m = n
      BY <2>1, <2>2, <2>3, <3>1
    <3>2. CASE m # n
      BY <1>b, <2>1, <2>2, <2>5, <3>2 DEF ItemsLinked
    <3>3. QED
      BY <3>1, <3>2
  <2>8. StageLinked(y, events) /\ QueueLinked(y, events)
    BY <1>b, <2>1, <2>2 DEF StageLinked, QueueLinked, Drafting
  <2>9. Fits(t, y)
    BY <1>0, <2>1, <2>2, <2>6, <2>7, <2>8 DEF Fits, LinkedTxn
  <2>10. QED
    BY <2>1, <2>9
<1>11. CASE StartRun(t)
  <2> DEFINE q == {e \in Events : events[e] = Accepted}
             y == [x EXCEPT !.stage = "next", !.queue = q]
  <2>1. Become(t, y) /\ x.stage = "idle"
    BY <1>11 DEF StartRun, x
  <2>2. /\ y \in Txn /\ y.stage = "next" /\ y.queue = q
        /\ y.eventLocks = x.eventLocks /\ y.itemLocks = x.itemLocks
        /\ y.eventRows = x.eventRows /\ y.itemRows = x.itemRows
    BY <1>0 DEF Txn, Stages
  <2>3. x.eventLocks = {} /\ x.itemLocks = {}
    BY <1>b, <2>1 DEF StageLinked
  <2> HIDE DEF y
  <2>4. StageLinked(y, events) /\ QueueLinked(y, events)
    BY <1>a, <2>2, <2>3 DEF StageLinked, QueueLinked, Drafting
  <2>5. QED
    BY <1>1, <2>1, <2>2, <2>3, <2>4
<1>12. CASE ConvertNext(t)
  <2>1. x.stage = "next" /\ t \notin Posters
    BY <1>0, <1>12, Constants DEF ConvertNext, NumberTxn, x
  <2>2. ASSUME NEW e \in x.queue,
               Become(t, [x EXCEPT !.event = e, !.stage = "check", !.queue = @ \ {e}])
        PROVE  \E y : Become(t, y) /\ Fits(t, y)
    <3> DEFINE y == [x EXCEPT !.event = e, !.stage = "check", !.queue = @ \ {e}]
    <3>1. /\ y \in Txn /\ y.stage = "check" /\ y.event = e /\ y.queue = x.queue \ {e}
          /\ y.eventLocks = x.eventLocks /\ y.itemLocks = x.itemLocks
          /\ y.eventRows = x.eventRows /\ y.itemRows = x.itemRows
      BY <1>0 DEF Txn, Stages
    <3>2. events[e] # Absent /\ e \notin x.eventLocks
      BY <1>b DEF QueueLinked
    <3> HIDE DEF y
    <3>3. StageLinked(y, events) /\ QueueLinked(y, events)
      BY <1>b, <3>1, <3>2 DEF StageLinked, QueueLinked, Drafting
    <3>4. QED
      BY <1>1, <2>1, <2>2, <3>1, <3>3 DEF Drafting, y
  <2>3. ASSUME GoTo(t, "done")
        PROVE  \E y : Become(t, y) /\ Fits(t, y)
    <3> DEFINE y == [x EXCEPT !.stage = "done"]
    <3>1. /\ y \in Txn /\ y.stage = "done" /\ y.queue = x.queue
          /\ y.eventLocks = x.eventLocks /\ y.itemLocks = x.itemLocks
          /\ y.eventRows = x.eventRows /\ y.itemRows = x.itemRows
      BY <1>0 DEF Txn, Stages
    <3>2. Become(t, y)
      BY <2>3 DEF GoTo, x
    <3> HIDE DEF y
    <3>3. StageLinked(y, events) /\ QueueLinked(y, events)
      BY <1>b, <3>1 DEF StageLinked, QueueLinked, Drafting
    <3>4. QED
      BY <1>1, <2>1, <3>1, <3>2, <3>3 DEF Drafting
  <2>4. QED
    BY <1>12, <2>2, <2>3 DEF ConvertNext, x
<1>13. QED
  BY <1>2, <1>3, <1>4, <1>5, <1>6, <1>7, <1>8, <1>9, <1>10, <1>11, <1>12
     DEF NumberTaken, Fail, Rollback

\* A request that answers with what is in the row, and writes nothing.
LEMMA TellLinks ==
    ASSUME TypeOK, LinkInv, NEW t \in Txns, NEW e \in Events, NEW n,
           Become(t, IdleTxn), Tell(e, n), events' = events, items' = items,
           n = events[e].draft, n = 0 => events[e].status = "REJECTED"
    PROVE  LinkInv'
<1>1. txns'[t] = IdleTxn /\ \A u \in Txns \ {t} : txns'[u] = txns[u]
  BY DEF TypeOK, Become
<1>2. SameDraft' /\ NullIsRejected'
  BY DEF LinkInv, SameDraft, NullIsRejected, Tell, TypeOK
<1>3. \A u \in Txns : LinkedTxn(txns'[u], events', items')
  BY <1>1, LinkIdle DEF LinkInv
<1>4. \A u \in Txns : LinkedTxn(txns[u], events, items)'
  BY <1>3 DEF LinkedTxn, EventsLinked, ItemsLinked, StageLinked, QueueLinked, Linked
<1>5. HoldersApart'
  BY <1>1, IdleShape DEF LinkInv, HoldersApart
<1>6. LinksAgree' /\ RowsLinked'
  BY DEF LinkInv, LinksAgree, RowsLinked
<1>7. \A u \in Posters :
         txns'[u].stage = "done" => Linked(txns'[u], txns'[u].event, txns'[u].number)
  BY <1>1, IdleShape DEF LinkInv, Txns
<1>8. QED
  BY <1>2, <1>4, <1>5, <1>6, <1>7 DEF LinkInv, Linked

\* The rejected row that NotConvertible has found is committed, and has no draft.
LEMMA NullLinks ==
    ASSUME TypeOK, LinkInv, NEW t \in Txns, NotConvertible(t)
    PROVE  LinkInv' /\ events' = events
<1> DEFINE x == txns[t]
           e == x.event
<1>1. /\ e \in Events /\ x.stage = "check" /\ EventSeen(t, e).status = "REJECTED"
      /\ Become(t, IdleTxn) /\ Tell(e, 0) /\ events' = events /\ items' = items
      /\ StageLinked(x, events)
  BY DEF NotConvertible, LinkInv, LinkedTxn, TypeOK, Txn
<1>2. e \notin x.eventLocks /\ events[e].status = "REJECTED"
  BY <1>1 DEF EventSeen, StageLinked, Drafting, Accepted
<1>3. events[e].draft = 0
  BY <1>1, <1>2 DEF LinkInv, RowsLinked, Absent, Accepted, Rejected
<1>4. QED
  BY <1>1, <1>2, <1>3, TellLinks

LEMMA AnsweredLinks ==
    ASSUME TypeOK, LinkInv, NEW t \in Txns, AlreadyDrafted(t)
    PROVE  LinkInv' /\ events' = events
<1> DEFINE x == txns[t]
           e == x.event
           n == EventSeen(t, e).draft
<1>1. /\ x \in Txn /\ e \in Events /\ x.stage = "check" /\ n # 0
      /\ events' = events /\ items' = items
      /\ LinkedTxn(x, events, items) /\ StageLinked(x, events) /\ QueueLinked(x, events)
      /\ \A u \in Txns \ {t} : /\ x.eventLocks \cap txns[u].eventLocks = {}
                               /\ x.itemLocks \cap txns[u].itemLocks = {}
  BY DEF AlreadyDrafted, LinkInv, LinkedTxn, HoldersApart, TypeOK, Txn
<1>2. e \notin x.eventLocks /\ n = events[e].draft
  BY <1>1 DEF EventSeen, StageLinked, Drafting, Accepted
<1>3. CASE t \in Runs
  <2> DEFINE y == [x EXCEPT !.stage = "next"]
  <2>1. Become(t, y) /\ UNCHANGED Tables /\ t \notin Posters
    BY <1>3, Constants DEF AlreadyDrafted, GoTo, Tables
  <2>2. /\ y \in Txn /\ y.stage = "next" /\ y.queue = x.queue
        /\ y.eventLocks = x.eventLocks /\ y.itemLocks = x.itemLocks
        /\ y.eventRows = x.eventRows /\ y.itemRows = x.itemRows
    BY <1>1 DEF Txn, Stages
  <2> HIDE DEF x, y
  <2>3. StageLinked(y, events) /\ QueueLinked(y, events)
    BY <1>1, <2>2 DEF StageLinked, QueueLinked, Drafting
  <2>4. LinkedTxn(y, events, items)
    BY <1>1, <1>2, <2>2, <2>3, SameLinks
  <2>5. Fits(t, y)
    BY <1>1, <2>1, <2>2, <2>4 DEF Fits
  <2>6. QED
    BY <1>1, <2>1, <2>5, QuietLinks
<1>4. CASE t \notin Runs
  <2>1. Become(t, IdleTxn) /\ Tell(e, n)
    BY <1>4 DEF AlreadyDrafted
  <2>2. QED
    BY <1>1, <1>2, <2>1, TellLinks
<1>5. QED
  BY <1>3, <1>4

LEMMA RejectLinks ==
    ASSUME TypeOK, LinkInv, NEW t \in Txns, RecordRejected(t)
    PROVE  /\ LinkInv'
           /\ \A e \in Events : events'[e].draft = events[e].draft
<1> DEFINE e == txns[t].event
<1>1. /\ e \in Events /\ events[e] = Absent /\ EventFree(t, e)
      /\ events' = [events EXCEPT ![e] = Rejected] /\ items' = items /\ told' = told
      /\ Become(t, IdleTxn)
  BY DEF TypeOK, Txn, RecordRejected
<1>2. txns'[t] = IdleTxn /\ \A u \in Txns \ {t} : txns'[u] = txns[u]
  BY <1>1 DEF TypeOK, Become
<1>3. events'[e] = Rejected /\ \A f \in Events \ {e} : events'[f] = events[f]
  BY <1>1 DEF TypeOK
<1>4. \A f \in Events : events'[f].draft = events[f].draft
  BY <1>1, <1>3 DEF Absent, Rejected
<1> HIDE DEF e
<1>5. ASSUME NEW u \in Txns PROVE LinkedTxn(txns'[u], events', items')
  <2>1. CASE u = t
    BY <1>2, <2>1, LinkIdle
  <2>2. CASE u # t
    <3>1. /\ txns[u] \in Txn /\ e \notin txns[u].eventLocks /\ txns[u].eventLocks \subseteq Events
          /\ txns[u].event \in Events
          /\ LinkedTxn(txns[u], events, items) /\ StageLinked(txns[u], events)
      BY <1>1, <2>2 DEF TypeOK, Txn, LinkInv, LinkedTxn, EventFree
    <3>2. /\ \A f \in txns[u].eventLocks : events'[f] = events[f]
          /\ \A n \in txns[u].itemLocks : items'[n] = items[n]
      BY <1>1, <1>3, <3>1
    <3>3. \A f \in Events : events[f] # Absent => events'[f] # Absent
      BY <1>1, <1>3
    <3>4. txns[u].stage \in Drafting /\ txns[u].event \notin txns[u].eventLocks
             => events'[txns[u].event] = events[txns[u].event]
      BY <1>1, <1>3, <3>1 DEF StageLinked, Absent, Accepted
    <3>5. LinkedTxn(txns[u], events', items')
      BY <3>1, <3>2, <3>3, <3>4, LinkFrame
    <3>6. QED
      BY <1>2, <2>2, <3>5
  <2>3. QED
    BY <2>1, <2>2
<1>6. \A u \in Txns : LinkedTxn(txns[u], events, items)'
  BY <1>5 DEF LinkedTxn, EventsLinked, ItemsLinked, StageLinked, QueueLinked, Linked
<1>7. HoldersApart'
  BY <1>2, IdleShape DEF LinkInv, HoldersApart
<1>8. LinksAgree' /\ SameDraft' /\ NullIsRejected'
  BY <1>1, <1>3, <1>4 DEF LinkInv, LinksAgree, SameDraft, NullIsRejected, TypeOK, Rejected
<1>9. RowsLinked'
  BY <1>3 DEF LinkInv, RowsLinked
<1>10. \A u \in Posters :
          txns'[u].stage = "done" => Linked(txns'[u], txns'[u].event, txns'[u].number)
  BY <1>2, IdleShape DEF LinkInv, Txns
<1>11. QED
  BY <1>4, <1>6, <1>7, <1>8, <1>9, <1>10 DEF LinkInv, Linked

\* A commit adds drafts to the tables, for events and under numbers that had none.
LEMMA CommitAdds ==
    ASSUME TypeOK, NumberInv, LinkInv, NEW t \in Txns, Commit(t)
    PROVE  LET x == txns[t]
           IN  /\ \A e \in x.eventLocks :
                     /\ e \in Events /\ events[e].draft = 0 /\ events[e].status # "REJECTED"
                     /\ \E n \in Numbers : Linked(x, e, n) /\ events'[e] = Converted(n)
               /\ \A n \in x.itemLocks :
                     /\ n \in Numbers /\ items[n] = NoEvent
                     /\ \E e \in Events : Linked(x, e, n) /\ items'[n] = e
               /\ \A e \in Events \ x.eventLocks : events'[e] = events[e]
               /\ \A n \in Numbers \ x.itemLocks : items'[n] = items[n]
               /\ IF t \in Posters
                    THEN /\ Tell(x.event, x.number) /\ Linked(x, x.event, x.number)
                         /\ x.event \in Events /\ x.number \in Numbers
                    ELSE told' = told
<1> DEFINE x == txns[t]
<1>1. /\ x \in Txn /\ x.event \in Events /\ x.stage = "done" /\ NumberTxn(t, x)
      /\ x.eventLocks \subseteq Events /\ x.itemLocks \subseteq Numbers
      /\ EventsLinked(x, events) /\ ItemsLinked(x, items)
      /\ t \in Posters => Linked(x, x.event, x.number)
      /\ events' = [e \in Events |-> IF e \in x.eventLocks THEN x.eventRows[e] ELSE events[e]]
      /\ items' = [n \in Numbers |-> IF n \in x.itemLocks THEN x.itemRows[n] ELSE items[n]]
      /\ IF t \in Posters THEN Tell(x.event, x.number) ELSE told' = told
  BY DEF TypeOK, Txn, NumberInv, LinkInv, LinkedTxn, Commit, EventSeen, ItemSeen
<1> HIDE DEF x
<1>2. ASSUME NEW e \in x.eventLocks
      PROVE  /\ e \in Events /\ events[e].draft = 0 /\ events[e].status # "REJECTED"
             /\ \E n \in Numbers : Linked(x, e, n) /\ events'[e] = Converted(n)
  BY <1>1, <1>2 DEF EventsLinked, Linked, Drafting
<1>3. ASSUME NEW n \in x.itemLocks
      PROVE  /\ n \in Numbers /\ items[n] = NoEvent
             /\ \E e \in Events : Linked(x, e, n) /\ items'[n] = e
  BY <1>1, <1>3 DEF ItemsLinked, Linked
<1>4. t \in Posters => x.number \in Numbers
  BY <1>1 DEF NumberTxn
<1>5. QED
  BY <1>1, <1>2, <1>3, <1>4 DEF x

LEMMA CommitLinks ==
    ASSUME TypeOK, NumberInv, LinkInv, Undisturbed, NEW t \in Txns, Commit(t)
    PROVE  LinkInv'
<1> DEFINE x == txns[t]
<1>1. /\ \A e \in x.eventLocks :
            /\ e \in Events /\ events[e].draft = 0 /\ events[e].status # "REJECTED"
            /\ \E n \in Numbers : Linked(x, e, n) /\ events'[e] = Converted(n)
      /\ \A n \in x.itemLocks :
            /\ n \in Numbers /\ items[n] = NoEvent
            /\ \E e \in Events : Linked(x, e, n) /\ items'[n] = e
      /\ \A e \in Events \ x.eventLocks : events'[e] = events[e]
      /\ \A n \in Numbers \ x.itemLocks : items'[n] = items[n]
      /\ IF t \in Posters
           THEN /\ Tell(x.event, x.number) /\ Linked(x, x.event, x.number)
                /\ x.event \in Events /\ x.number \in Numbers
           ELSE told' = told
  BY CommitAdds
<1>2. txns'[t] = IdleTxn /\ \A u \in Txns \ {t} : txns'[u] = txns[u]
  BY DEF TypeOK, Become, Commit
<1>3. \A u \in Txns \ {t} : /\ x.eventLocks \cap txns[u].eventLocks = {}
                            /\ x.itemLocks \cap txns[u].itemLocks = {}
  BY DEF LinkInv, HoldersApart
<1>4. \A u \in Txns \ {t} :
         txns[u].stage \in Drafting /\ txns[u].event \in x.eventLocks
            => txns[u].event \notin Pending
  BY DEF Undisturbed, Converting
<1>5. \A n \in Numbers : Converted(n).draft = n /\ Converted(n).status = "CONVERTED"
  BY DEF Converted
<1>6. \A e, n, m : Linked(x, e, n) /\ Linked(x, e, m) /\ n \in Numbers /\ m \in Numbers => n = m
  BY <1>5 DEF Linked
<1> HIDE DEF x
<1>7. LinksAgree'
  <2>1. ASSUME NEW e \in Events, events'[e].draft # 0 PROVE items'[events'[e].draft] = e
    <3>1. CASE e \in x.eventLocks
      <4>1. PICK n \in Numbers : Linked(x, e, n) /\ events'[e] = Converted(n)
        BY <1>1, <3>1
      <4>2. n \in x.itemLocks /\ x.itemRows[n] = e
        BY <4>1 DEF Linked
      <4>3. items'[n] = e
        BY <1>1, <4>2 DEF Linked
      <4>4. QED
        BY <1>5, <4>1, <4>3
    <3>2. CASE e \notin x.eventLocks
      <4>1. /\ events'[e] = events[e] /\ items[events[e].draft] = e /\ e # NoEvent
        BY <1>1, <2>1, <3>2, Constants DEF LinkInv, LinksAgree
      <4>2. events[e].draft \in Numbers
        BY <2>1, <4>1, Constants DEF TypeOK, EventRow, Numbers
      <4>3. QED
        BY <1>1, <4>1, <4>2
    <3>3. QED
      BY <3>1, <3>2
  <2>2. ASSUME NEW n \in Numbers, items'[n] # NoEvent PROVE events'[items'[n]].draft = n
    <3>1. CASE n \in x.itemLocks
      <4>1. PICK e \in Events : Linked(x, e, n) /\ items'[n] = e
        BY <1>1, <3>1
      <4>2. e \in x.eventLocks
        BY <4>1 DEF Linked
      <4>3. events'[e] = Converted(n)
        BY <1>1, <1>6, <4>1, <4>2
      <4>4. QED
        BY <1>5, <4>1, <4>3
    <3>2. CASE n \notin x.itemLocks
      <4>1. /\ items'[n] = items[n] /\ items[n] \in Events /\ events[items[n]].draft = n
        BY <1>1, <2>2, <3>2 DEF LinkInv, LinksAgree, TypeOK
      <4>2. items[n] \notin x.eventLocks
        BY <1>1, <4>1 DEF Numbers
      <4>3. QED
        BY <1>1, <4>1, <4>2
    <3>3. QED
      BY <3>1, <3>2
  <2>3. QED
    BY <2>1, <2>2 DEF LinksAgree
<1>8. SameDraft'
  <2> SUFFICES ASSUME NEW e \in Events PROVE told'[e] \subseteq {events'[e].draft}
    BY DEF SameDraft
  <2>1. told[e] \subseteq {events[e].draft}
    BY DEF LinkInv, SameDraft
  <2>2. CASE e \in x.eventLocks
    <3>1. told[e] = {}
      BY <1>1, <2>1, <2>2 DEF LinkInv, NullIsRejected
    <3>2. CASE t \in Posters /\ e = x.event
      <4>1. told'[e] \subseteq {x.number}
        BY <1>1, <3>1, <3>2 DEF Tell, TypeOK
      <4>2. events'[e].draft = x.number
        BY <1>1, <1>5, <1>6, <2>2, <3>2
      <4>3. QED
        BY <4>1, <4>2
    <3>3. CASE ~(t \in Posters /\ e = x.event)
      BY <1>1, <3>1, <3>3 DEF Tell, TypeOK
    <3>4. QED
      BY <3>2, <3>3
  <2>3. CASE e \notin x.eventLocks
    <3>1. ~(t \in Posters /\ e = x.event)
      BY <1>1, <2>3 DEF Linked
    <3>2. told'[e] = told[e]
      BY <1>1, <3>1 DEF Tell, TypeOK
    <3>3. QED
      BY <1>1, <2>1, <2>3, <3>2
  <2>4. QED
    BY <2>2, <2>3
<1>9. RowsLinked'
  <2> SUFFICES ASSUME NEW e \in Events
               PROVE  \/ events'[e] \in {Absent, Rejected}
                      \/ events'[e] = Accepted /\ e \in Pending
                      \/ events'[e].status = "CONVERTED" /\ events'[e].draft # 0
    BY DEF RowsLinked
  <2>1. CASE e \in x.eventLocks
    <3>1. PICK n \in Numbers : events'[e] = Converted(n)
      BY <1>1, <2>1
    <3>2. n # 0
      BY DEF Numbers
    <3>3. QED
      BY <1>5, <3>1, <3>2
  <2>2. CASE e \notin x.eventLocks
    BY <1>1, <2>2 DEF LinkInv, RowsLinked
  <2>3. QED
    BY <2>1, <2>2
<1>10. \A e \in Events : events[e] # Absent => events'[e] # Absent
  <2> SUFFICES ASSUME NEW e \in Events, events[e] # Absent PROVE events'[e] # Absent
    OBVIOUS
  <2>1. CASE e \in x.eventLocks
    <3>1. PICK n \in Numbers : events'[e] = Converted(n)
      BY <1>1, <2>1
    <3>2. QED
      BY <1>5, <3>1 DEF Absent
  <2>2. CASE e \notin x.eventLocks
    BY <1>1, <2>2
  <2>3. QED
    BY <2>1, <2>2
<1>11. ASSUME NEW u \in Txns PROVE LinkedTxn(txns'[u], events', items')
  <2>1. CASE u = t
    BY <1>2, <2>1, LinkIdle
  <2>2. CASE u # t
    <3> DEFINE y == txns[u]
    <3>1. /\ y \in Txn /\ y.eventLocks \subseteq Events /\ y.itemLocks \subseteq Numbers
          /\ y.event \in Events
          /\ LinkedTxn(y, events, items) /\ StageLinked(y, events)
      BY DEF TypeOK, Txn, LinkInv, LinkedTxn
    <3>2. /\ \A e \in y.eventLocks : events'[e] = events[e]
          /\ \A n \in y.itemLocks : items'[n] = items[n]
      BY <1>1, <1>3, <2>2, <3>1
    <3>3. y.stage \in Drafting /\ y.event \notin y.eventLocks => events'[y.event] = events[y.event]
      <4> SUFFICES ASSUME y.stage \in Drafting, y.event \notin y.eventLocks
                   PROVE  events'[y.event] = events[y.event]
        OBVIOUS
      <4>1. events[y.event] = Accepted
        BY <3>1 DEF StageLinked
      <4>2. y.event \in Pending
        BY <3>1, <4>1 DEF LinkInv, RowsLinked, Absent, Accepted, Rejected
      <4>3. y.event \notin x.eventLocks
        BY <1>4, <2>2, <4>2
      <4>4. QED
        BY <1>1, <3>1, <4>3
    <3> HIDE DEF y
    <3>4. LinkedTxn(y, events', items')
      BY <1>10, <3>1, <3>2, <3>3, LinkFrame
    <3>5. QED
      BY <1>2, <2>2, <3>4 DEF y
  <2>3. QED
    BY <2>1, <2>2
<1>12. \A u \in Txns : LinkedTxn(txns[u], events, items)'
  BY <1>11 DEF LinkedTxn, EventsLinked, ItemsLinked, StageLinked, QueueLinked, Linked
<1>13. HoldersApart'
  BY <1>2, IdleShape DEF LinkInv, HoldersApart
<1>14. \A u \in Posters :
          txns'[u].stage = "done" => Linked(txns'[u], txns'[u].event, txns'[u].number)
  BY <1>2, IdleShape DEF LinkInv, Txns
<1>15. NullIsRejected'
  <2> SUFFICES ASSUME NEW e \in Events, 0 \in told'[e]
               PROVE  events'[e].status = "REJECTED"
    BY DEF NullIsRejected
  <2>1. 0 \in told[e]
    BY <1>1 DEF Tell, TypeOK, Numbers
  <2>2. events[e].status = "REJECTED"
    BY <2>1 DEF LinkInv, NullIsRejected
  <2>3. QED
    BY <1>1, <2>2
<1>16. QED
  BY <1>7, <1>8, <1>9, <1>12, <1>13, <1>14, <1>15 DEF LinkInv, Linked

LEMMA InitLinks == Init => LinkInv
<1> SUFFICES ASSUME Init PROVE LinkInv
  OBVIOUS
<1>1. \A e \in Events : events[e].draft = 0 /\ events[e] \in {Absent, Accepted}
  BY DEF Init, Absent, Accepted
<1>2. RowsLinked
  BY DEF Init, RowsLinked
<1>3. \A t \in Txns : txns[t] = IdleTxn
  BY DEF Init
<1>4. LinksAgree /\ SameDraft /\ NullIsRejected
  BY <1>1 DEF Init, LinksAgree, SameDraft, NullIsRejected
<1>5. HoldersApart
  BY <1>3, IdleShape DEF HoldersApart
<1>6. QED
  BY <1>2, <1>3, <1>4, <1>5, LinkIdle, IdleShape DEF LinkInv, Txns

LEMMA LinkInvariant == Spec /\ []Undisturbed => [](TypeOK /\ NumberInv /\ LinkInv)
<1>1. TypeOK /\ NumberInv /\ LinkInv /\ Undisturbed /\ [Next]_vars => LinkInv'
  <2> SUFFICES ASSUME TypeOK, NumberInv, LinkInv, Undisturbed, [Next]_vars PROVE LinkInv'
    OBVIOUS
  <2>1. ASSUME NEW t \in Txns, (\E p \in Payloads : Post(t, p)) \/ Progress(t) \/ Fail(t)
        PROVE  LinkInv'
    BY <2>1, MoveLinks, AnsweredLinks, NullLinks, RejectLinks, CommitLinks DEF Progress
  <2>2. CASE UNCHANGED vars
    BY <2>2 DEF vars, LinkInv, LinksAgree, SameDraft, NullIsRejected, RowsLinked, HoldersApart,
       LinkedTxn, EventsLinked, ItemsLinked, StageLinked, QueueLinked, Linked
  <2>3. QED
    BY <2>1, <2>2 DEF Next
<1>2. QED
  BY <1>1, InitLinks, CaptureTypes, PTL DEF Spec

\* LinksAgree: any mix of requests at the Worker, requests at the fallback and runs
\* keeps drafts and events together, whatever is repeated or fails half-way, unless
\* somebody takes the number between next_content_id and the lookup in save_item, or
\* two of them convert the same pending event (content/store.py:15-33,
\* capture_bridge.py:352-377).
THEOREM UndisturbedKeepsLinks == Spec /\ []Undisturbed => []LinksAgree
<1>1. LinkInv => LinksAgree
  BY DEF LinkInv
<1>2. QED
  BY <1>1, LinkInvariant, PTL

\* OwnDraft: under the same two conditions no two events share a draft; capture_shared
\* shows that without the first one they do.
THEOREM UndisturbedOwnsDrafts == Spec /\ []Undisturbed => []OwnDraft
<1>1. LinkInv => OwnDraft
  BY DEF LinkInv, LinksAgree, OwnDraft
<1>2. QED
  BY <1>1, LinkInvariant, PTL

\* SameDraft: and every 200 answer for an event names the draft it has, for good.
THEOREM UndisturbedTellsTheSame == Spec /\ []Undisturbed => []SameDraft
<1>1. LinkInv => SameDraft
  BY DEF LinkInv
<1>2. QED
  BY <1>1, LinkInvariant, PTL

\* A commit is a Convert of DraftOnce, of all the events the transaction converted.
LEMMA CommitConverts ==
    ASSUME TypeOK, NumberInv, LinkInv, NEW t \in Txns, Commit(t)
    PROVE  Promise!Next
<1> DEFINE x == txns[t]
           S == x.eventLocks
           drafts == [e \in Events |-> events[e].draft]
           new == [e \in S |-> events'[e].draft]
<1>1. /\ \A e \in S : /\ e \in Events /\ events[e].draft = 0
                      /\ \E n \in Numbers : Linked(x, e, n) /\ events'[e] = Converted(n)
      /\ \A n \in x.itemLocks : items[n] = NoEvent
      /\ \A e \in Events \ S : events'[e] = events[e]
  BY CommitAdds
<1> HIDE DEF x
<1>2. ASSUME NEW e \in S PROVE new[e] \in Numbers /\ Linked(x, e, new[e])
  <2>1. PICK n \in Numbers : Linked(x, e, n) /\ events'[e] = Converted(n)
    BY <1>1
  <2>2. new[e] = n
    BY <2>1 DEF Converted
  <2>3. QED
    BY <2>1, <2>2
<1>3. \A e, f \in S : new[e] = new[f] => e = f
  BY <1>2 DEF Linked
<1>4. ASSUME NEW e \in S, NEW f \in Events \ S PROVE new[e] # drafts[f]
  <2>1. new[e] \in Numbers /\ items[new[e]] = NoEvent
    BY <1>1, <1>2 DEF Linked
  <2>2. drafts[f] # 0 => items[drafts[f]] = f /\ f # NoEvent
    BY Constants DEF LinkInv, LinksAgree
  <2>3. QED
    BY <2>1, <2>2 DEF Numbers
<1>5. new \in [S -> 1 .. MaxNumber] /\ \A e \in S : drafts[e] = 0
  BY <1>1, <1>2 DEF Numbers
<1>6. drafts' = [e \in Events |-> IF e \in S THEN new[e] ELSE drafts[e]]
  BY <1>1
<1>7. S \in SUBSET Events
  BY <1>1
<1> HIDE DEF S, new, drafts
<1>8. \E a \in [S -> 1 .. MaxNumber] :
         /\ \A e, f \in S : a[e] = a[f] => e = f
         /\ \A e \in S, f \in Events \ S : a[e] # drafts[f]
         /\ drafts' = [e \in Events |-> IF e \in S THEN a[e] ELSE drafts[e]]
  BY <1>3, <1>4, <1>5, <1>6
<1>9. \A e \in S : drafts[e] = 0
  BY <1>5
<1>10. QED
  BY <1>7, <1>8, <1>9 DEF Promise!Next, Promise!Convert, drafts

\* DraftedOnce: under the same two conditions the capture bridge implements DraftOnce:
\* an accepted event becomes one draft of its own and keeps it, whoever converts it.
THEOREM UndisturbedDraftsOnce == Spec /\ []Undisturbed => DraftedOnce
<1> DEFINE drafts == [e \in Events |-> events[e].draft]
<1>1. Init => Promise!Init
  <2> SUFFICES ASSUME Init PROVE drafts \in [Events -> 0 .. MaxNumber]
    BY DEF Promise!Init
  <2>1. events \in [Events -> EventRow]
    BY InitType DEF TypeOK
  <2>2. QED
    BY <2>1 DEF EventRow
<1>2. TypeOK /\ NumberInv /\ LinkInv /\ [Next]_vars => [Promise!Next]_drafts
  <2> SUFFICES ASSUME TypeOK, NumberInv, LinkInv, [Next]_vars
               PROVE  Promise!Next \/ drafts' = drafts
    OBVIOUS
  <2>1. ASSUME NEW t \in Txns, RecordRejected(t) PROVE drafts' = drafts
    <3>1. \A e \in Events : events'[e].draft = events[e].draft
      BY <2>1, RejectLinks
    <3>2. QED
      BY <3>1
  <2>2. CASE events' = events
    BY <2>2
  <2>3. QED
    BY <2>1, <2>2, CommitConverts DEF Next, Progress, Post, Fail, Rollback, Tables, StartRun,
       ConvertNext, RecordAccepted, RecordTaken, AlreadyDrafted, NotConvertible, NeedsDraft,
       TakeNumber, Probe, WriteDraft, NumberTaken, MarkConverted, vars
<1>3. QED
  BY <1>1, <1>2, LinkInvariant, PTL DEF Spec, DraftedOnce, Promise!Spec
-------------------------------------------------------------------------------
(* Requests at the Worker alone: nothing can disturb them.                   *)

WorkerAlone == Locals = {} /\ Runs = {} /\ Pending = {}

NoProbe == \A t \in Txns : txns[t].stage # "probe"

LEMMA WorkerUndisturbed ==
    ASSUME WorkerAlone
    PROVE  Spec => []Undisturbed
<1>1. Txns = Workers /\ Pending = {}
  BY DEF WorkerAlone, Txns, Posters
<1>2. Init => NoProbe
  BY IdleShape DEF Init, NoProbe
<1>3. TypeOK /\ NoProbe /\ [Next]_vars => NoProbe'
  <2> SUFFICES ASSUME TypeOK, NoProbe, [Next]_vars, NEW u \in Txns PROVE txns'[u].stage # "probe"
    BY DEF NoProbe
  <2>1. ASSUME NEW t \in Txns, NEW y, Become(t, y), y.stage # "probe"
        PROVE  txns'[u].stage # "probe"
    <3>1. u = t => txns'[u] = y
      BY <2>1 DEF TypeOK, Become
    <3>2. u # t => txns'[u] = txns[u]
      BY <2>1 DEF TypeOK, Become
    <3>3. QED
      BY <2>1, <3>1, <3>2 DEF NoProbe
  <2>2. ASSUME NEW t \in Txns, (\E p \in Payloads : Post(t, p)) \/ Progress(t) \/ Fail(t)
        PROVE  \E y : Become(t, y) /\ y.stage # "probe"
    <3> DEFINE x == txns[t]
    <3>1. x \in Txn /\ t \in Workers
      BY <1>1 DEF TypeOK
    <3> HIDE DEF x
    <3>2. ASSUME NEW p \in Payloads, Post(t, p) PROVE \E y : Become(t, y) /\ y.stage # "probe"
      <4>1. PICK s \in {"record", "check"} :
               Become(t, [x EXCEPT !.event = p.event, !.valid = p.valid, !.stage = s])
        BY <3>2 DEF Post, x
      <4>2. [x EXCEPT !.event = p.event, !.valid = p.valid, !.stage = s].stage = s
        BY <3>1 DEF Txn
      <4>3. QED
        BY <4>1, <4>2
    <3>3. ASSUME NEW s \in Stages \ {"probe"}, GoTo(t, s)
          PROVE  \E y : Become(t, y) /\ y.stage # "probe"
      <4>1. [x EXCEPT !.stage = s].stage = s
        BY <3>1 DEF Txn
      <4>2. QED
        BY <3>3, <4>1 DEF GoTo, x
    <3>4. ASSUME NEW row, NEW s \in Stages \ {"probe"},
                 Become(t, Written(x, x.event, row, s))
          PROVE  \E y : Become(t, y) /\ y.stage # "probe"
      <4>1. Written(x, x.event, row, s).stage = s
        BY <3>1 DEF Written, WriteEvent, Txn
      <4>2. QED
        BY <3>4, <4>1
    <3>5. ASSUME Become(t, IdleTxn) PROVE \E y : Become(t, y) /\ y.stage # "probe"
      BY <3>5, IdleShape
    <3>6. CASE TakeNumber(t)
      <4>1. PICK n \in Numbers :
               Become(t, [x EXCEPT !.number = n, !.exists = FALSE, !.stage = "draft"])
        BY <3>1, <3>6 DEF TakeNumber, x
      <4>2. [x EXCEPT !.number = n, !.exists = FALSE, !.stage = "draft"].stage = "draft"
        BY <3>1 DEF Txn
      <4>3. QED
        BY <4>1, <4>2
    <3>7. CASE Probe(t)
      BY <3>7 DEF Probe, NoProbe
    <3>8. CASE WriteDraft(t)
      <4> DEFINE y == [x EXCEPT !.itemRows[x.number] = x.event, !.itemLocks = @ \cup {x.number},
                                !.stage = "mark"]
      <4>1. Become(t, y)
        BY <3>8 DEF WriteDraft, x
      <4>2. y.stage = "mark"
        BY <3>1 DEF Txn
      <4>3. QED
        BY <4>1, <4>2
    <3>9. t \notin Runs /\ ~StartRun(t)
      BY DEF WorkerAlone, StartRun
    <3>10. CASE ConvertNext(t)
      <4>1. ASSUME NEW e \in x.queue,
                   Become(t, [x EXCEPT !.event = e, !.stage = "check", !.queue = @ \ {e}])
            PROVE  \E y : Become(t, y) /\ y.stage # "probe"
        <5>1. [x EXCEPT !.event = e, !.stage = "check", !.queue = @ \ {e}].stage = "check"
          BY <3>1 DEF Txn
        <5>2. QED
          BY <4>1, <5>1
      <4>2. QED
        BY <3>3, <3>10, <4>1 DEF ConvertNext, Stages, x
    <3>11. CASE RecordAccepted(t) \/ MarkConverted(t)
      BY <3>4, <3>9, <3>11 DEF RecordAccepted, MarkConverted, Written, Stages, x
    <3>12. CASE \/ RecordRejected(t) \/ RecordTaken(t) \/ AlreadyDrafted(t) \/ NotConvertible(t)
                \/ NeedsDraft(t) \/ NumberTaken(t) \/ Commit(t) \/ Fail(t)
      BY <3>3, <3>5, <3>9, <3>12 DEF RecordRejected, RecordTaken, AlreadyDrafted, NotConvertible,
         NeedsDraft, NumberTaken, Commit, Fail, Rollback, Stages
    <3>13. QED
      BY <2>2, <3>2, <3>6, <3>7, <3>8, <3>9, <3>10, <3>11, <3>12 DEF Progress
  <2>3. CASE UNCHANGED vars
    BY <2>3 DEF vars, NoProbe
  <2>4. QED
    BY <2>1, <2>2, <2>3 DEF Next
<1>4. NoProbe => Undisturbed
  BY <1>1 DEF NoProbe, Undisturbed
<1>5. QED
  BY <1>2, <1>3, <1>4, CaptureTypes, PTL DEF Spec

\* Among requests at the Worker, however many race, are repeated or fail half-way, a
\* draft and its event name each other (convertEvent, receiver/src/index.ts:253-307).
THEOREM WorkerKeepsLinks ==
    ASSUME WorkerAlone
    PROVE  Spec => []LinksAgree
BY WorkerUndisturbed, UndisturbedKeepsLinks, PTL

\* And every 200 answer for an event names the draft it has.
THEOREM WorkerTellsTheSame ==
    ASSUME WorkerAlone
    PROVE  Spec => []SameDraft
BY WorkerUndisturbed, UndisturbedTellsTheSame, PTL

\* DraftedOnce: requests at the Worker implement DraftOnce: an event becomes one
\* draft of its own and keeps it.  capture_shared shows that the Worker and its
\* fallback together do not.
THEOREM WorkerDraftsOnce ==
    ASSUME WorkerAlone
    PROVE  Spec => DraftedOnce
BY WorkerUndisturbed, UndisturbedDraftsOnce, PTL
===============================================================================
