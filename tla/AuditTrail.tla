------------------------------ MODULE AuditTrail ------------------------------
(***************************************************************************)
(* The audit trail (src/infrastructure/audit and its migration,            *)
(* migrations/20260912_audit_logs.sql).  The contract's events reach the   *)
(* table audit_logs along two ways: the services record what they just     *)
(* did, and a listener inside the backend backfills from a persisted       *)
(* cursor and then follows the chain.  A row is identified by its          *)
(* idempotency_key, made of the transaction, a log index and the kind of   *)
(* event; a write that fails is retried, then parked in audit_outbox and   *)
(* drained from there.  AuditScript has the standalone script.             *)
(***************************************************************************)
EXTENDS Integers, Sequences, FiniteSets, SequencesExt

CONSTANTS
    Null,
    Event,              \* the events LibretaRegistry will emit
    KindOf,             \* LoanRegistered, PaymentConfirmed or LoanCompleted
    ApiEvent,           \* those whose caller records them as well
    BackfillBlocks,     \* AUDIT_BACKFILL_BLOCKS
    MaxBlock,           \* bound on the blocks mined
    MaxFaults,          \* bound on the calls that fail
    MaxCrashes          \* bound on the processes that stop

Kind == {KindOf[e] : e \in Event}

\* idempotency_key: the transaction and the kind give the event.
Row(e, i) == [event |-> e, index |-> i]

Rows == {Row(e, i) : e \in Event, i \in 0 .. Cardinality(Event)}

ASSUME AuditAssumption ==
    /\ IsFiniteSet(Event)
    /\ ApiEvent \subseteq Event
    /\ DOMAIN KindOf = Event
    /\ {BackfillBlocks, MaxBlock, MaxFaults, MaxCrashes} \subseteq Nat

VARIABLES
    head,       \* the latest block
    block,      \* the block of each event, 0 before it is emitted
    pos,        \* its log index in that block
    logs,       \* rows of audit_logs
    outbox,     \* rows of audit_outbox
    cursor,     \* audit_listener_state, Null where a writer has no row
    record,     \* the AuditService.record call of each source, or Null
    api,        \* what became of the call of each ApiEvent's caller
    flush,      \* the row flushOutbox has recorded and not yet deleted
    lst,        \* the listener in the backend
    faults, crashes

chainVars == <<head, block, pos>>
vars == <<head, block, pos, logs, outbox, cursor, record, api, flush,
          lst, faults, crashes>>

Source == {"api", "listener"}

Between(from, to) == {e \in Event : block[e] # 0 /\ from <= block[e] /\ block[e] <= to}

\* Mutant: Math.max(0, ...) is forgotten.
Unclamped(n) == n

AtLeast0(n) == IF n < 0 THEN 0 ELSE n
Later(m, n) == IF m < n THEN n ELSE m

Down == [phase |-> "DOWN", saw |-> 0, from |-> 0, latest |-> 0, todo |-> {},
         synced |-> 0, sub |-> [k \in Kind |-> Null], queue |-> <<>>]

Init ==
    /\ head = 0
    /\ block = [e \in Event |-> 0]
    /\ pos = [e \in Event |-> 0]
    /\ logs = {}
    /\ outbox = {}
    /\ cursor = [w \in {"listener", "script"} |-> Null]
    /\ record = [s \in Source |-> Null]
    /\ api = [e \in ApiEvent |-> "NO"]
    /\ flush = Null
    /\ lst = Down
    /\ faults = 0
    /\ crashes = 0

Fault == faults < MaxFaults /\ faults' = faults + 1

-----------------------------------------------------------------------------
(* HSK Chain: a block with some events, at distinct log indices. *)

MineBlock(S) ==
    /\ head < MaxBlock
    /\ \A e \in S : block[e] = 0
    /\ head' = head + 1
    /\ block' = [e \in Event |-> IF e \in S THEN head' ELSE block[e]]
    /\ \E index \in [S -> 0 .. Cardinality(S)] :
         /\ \A d, e \in S : index[d] = index[e] => d = e
         /\ pos' = [e \in Event |-> IF e \in S THEN index[e] ELSE pos[e]]
    /\ UNCHANGED <<logs, outbox, cursor, record, api, flush, lst, faults, crashes>>

-----------------------------------------------------------------------------
(* AuditService. *)

\* Mutant: one attempt less before the outbox.
TwoAttempts == 2

\* writeDirectWithRetry tries this often.
DirectAttempts == 3

Recording(row) == [row |-> row, attempt |-> 1]

\* A call of AuditService.record.
Recorded == [row : Rows, attempt : 1 .. DirectAttempts + 1]

ASSUME AuditNullAssumption == Null \notin Event \cup Rows \cup Recorded

\* InstallmentsService and LoansService record what they saw mined, with 0
\* for the log index.
ApiRecord(e) ==
    /\ api[e] = "NO"
    /\ block[e] # 0
    /\ record["api"] = Null
    /\ api' = [api EXCEPT ![e] = "CALLED"]
    /\ record' = [record EXCEPT !["api"] = Recording(Row(e, 0))]
    /\ UNCHANGED <<chainVars, logs, outbox, cursor, flush, lst, faults,
                   crashes>>

Returns(s) ==
    /\ record' = [record EXCEPT ![s] = Null]
    /\ api' = IF s = "api"
              THEN [api EXCEPT ![record[s].row.event] = "RETURNED"] ELSE api

\* An answer that is an error may hide a write that happened.
WriteDirect(s) ==
    /\ record[s] # Null
    /\ record[s].attempt <= DirectAttempts
    /\ \/ /\ logs' = logs \cup {record[s].row}
          /\ Returns(s)
          /\ UNCHANGED faults
       \/ /\ Fault
          /\ \E written \in BOOLEAN :
               logs' = IF written THEN logs \cup {record[s].row} ELSE logs
          /\ record' = [record EXCEPT ![s].attempt = @ + 1]
          /\ UNCHANGED api
    /\ UNCHANGED <<chainVars, outbox, cursor, flush, lst, crashes>>

\* enqueueOutbox: an error here is logged and the event dropped.
EnqueueOutbox(s) ==
    /\ record[s] # Null
    /\ record[s].attempt > DirectAttempts
    /\ \/ outbox' = outbox \cup {record[s].row} /\ UNCHANGED faults
       \/ Fault /\ UNCHANGED outbox
    /\ Returns(s)
    /\ UNCHANGED <<chainVars, logs, cursor, flush, lst, crashes>>

\* Mutant: a parked row is deleted first and written afterwards.
FlushDeletesFirst(row) ==
    /\ flush = Null
    /\ row \in outbox
    /\ outbox' = outbox \ {row}
    /\ flush' = row
    /\ UNCHANGED <<chainVars, logs, cursor, record, api, lst, faults, crashes>>

\* Mutant: a key that is in audit_logs already counts as a failed write.
FlushConflictFails(row) ==
    /\ flush = Null
    /\ row \in outbox
    /\ \/ row \notin logs /\ logs' = logs \cup {row} /\ flush' = row /\ UNCHANGED faults
       \/ Fault /\ UNCHANGED <<logs, flush>>
    /\ UNCHANGED <<chainVars, outbox, cursor, record, api, lst, crashes>>

\* flushOutbox, one row that is due: it is written first ...
FlushRecord(row) ==
    /\ flush = Null
    /\ row \in outbox
    /\ \/ logs' = logs \cup {row} /\ flush' = row /\ UNCHANGED faults
       \/ Fault /\ UNCHANGED <<logs, flush>>
    /\ UNCHANGED <<chainVars, outbox, cursor, record, api, lst, crashes>>

\* ... and then deleted; nobody looks at the answer of the deletion.
FlushDelete ==
    /\ flush # Null
    /\ \/ outbox' = outbox \ {flush} /\ UNCHANGED faults
       \/ Fault /\ UNCHANGED outbox
    /\ flush' = Null
    /\ UNCHANGED <<chainVars, logs, cursor, record, api, lst, crashes>>

-----------------------------------------------------------------------------
(* AuditListenerService. *)

\* setCursor: an error is logged and ignored.
SetCursor(w, n) ==
    \/ cursor' = [cursor EXCEPT ![w] = n] /\ UNCHANGED faults
    \/ Fault /\ UNCHANGED cursor

\* getCursor: an error is taken for the absence of a row.
GetCursor(w, c) ==
    \/ c = cursor[w] /\ UNCHANGED faults
    \/ c = Null /\ Fault

FirstBlock(c) == IF c = Null THEN AtLeast0(head - BackfillBlocks) ELSE c

\* start: the latest block and the cursor are read.
ListenerStart ==
    /\ lst.phase = "DOWN"
    /\ \E c \in {cursor["listener"], Null} :
         /\ GetCursor("listener", c)
         /\ lst' = [Down EXCEPT !.phase = "BACKFILL", !.latest = head,
                      !.saw = IF c = Null THEN 0 ELSE c,
                      !.from = FirstBlock(c),
                      !.todo = Between(FirstBlock(c), head)]
    /\ UNCHANGED <<chainVars, logs, outbox, cursor, record, api, flush, crashes>>

\* processEvent inside backfill.
BackfillNext(e) ==
    /\ lst.phase = "BACKFILL"
    /\ record["listener"] = Null
    /\ e \in lst.todo
    /\ record' = [record EXCEPT !["listener"] = Recording(Row(e, pos[e]))]
    /\ lst' = [lst EXCEPT !.todo = @ \ {e}]
    /\ UNCHANGED <<chainVars, logs, outbox, cursor, api, flush, faults,
                   crashes>>

\* queryFilter throws: start is scheduled again.
BackfillFails ==
    /\ lst.phase = "BACKFILL"
    /\ record["listener"] = Null
    /\ Fault
    /\ lst' = Down
    /\ UNCHANGED <<chainVars, logs, outbox, cursor, record, api, flush, crashes>>

\* Mutant: the last event's record is not awaited.
GoLiveEarly ==
    /\ lst.phase = "BACKFILL"
    /\ lst.todo = {}
    /\ SetCursor("listener", lst.latest)
    /\ lst' = [lst EXCEPT !.phase = "LIVE", !.synced = Later(lst.saw, lst.latest)]
    /\ UNCHANGED <<chainVars, logs, outbox, record, api, flush, crashes>>

\* The end of backfill and of start.
GoLive ==
    /\ lst.phase = "BACKFILL"
    /\ lst.todo = {}
    /\ record["listener"] = Null
    /\ SetCursor("listener", lst.latest)
    /\ lst' = [lst EXCEPT !.phase = "LIVE", !.synced = Later(lst.saw, lst.latest)]
    /\ UNCHANGED <<chainVars, logs, outbox, record, api, flush, crashes>>

\* attachListeners: each subscription polls from the block that is the latest
\* when it starts, not from the one backfill ended at.
Attach(k) ==
    /\ lst.phase = "LIVE"
    /\ lst.sub[k] = Null
    /\ lst' = [lst EXCEPT !.sub[k] = head]
    /\ UNCHANGED <<chainVars, logs, outbox, cursor, record, api, flush, faults, crashes>>

Precedes(d, e) ==
    block[d] < block[e] \/ (block[d] = block[e] /\ pos[d] < pos[e])

\* A set of events in the order of the chain.
InOrder(S) ==
    {s \in [1 .. Cardinality(S) -> S] :
        \A i, j \in DOMAIN s : i < j => Precedes(s[i], s[j])}

\* onEvent: a poll of one subscription, its events in the order of the chain.
OnEvents(k) ==
    LET new == {e \in Between(lst.sub[k] + 1, head) : KindOf[e] = k} IN
    /\ lst.phase = "LIVE"
    /\ lst.sub[k] # Null
    /\ lst.sub[k] < head
    /\ \E order \in InOrder(new) :
          lst' = [lst EXCEPT !.sub[k] = head, !.queue = @ \o order]
    /\ UNCHANGED <<chainVars, logs, outbox, cursor, record, api, flush,
                   faults, crashes>>

\* processEvent of the live queue: the block counts as synced before the
\* event is recorded.
ProcessEvent ==
    /\ lst.queue # <<>>
    /\ record["listener"] = Null
    /\ LET e == Head(lst.queue) IN
       /\ record' = [record EXCEPT !["listener"] = Recording(Row(e, pos[e]))]
       /\ lst' = [lst EXCEPT !.queue = Tail(@), !.synced = Later(@, block[e])]
    /\ UNCHANGED <<chainVars, logs, outbox, cursor, api, flush, faults,
                   crashes>>

\* flushCursor, on its timer.
FlushCursor ==
    /\ lst.phase = "LIVE"
    /\ cursor["listener"] # lst.synced
    /\ SetCursor("listener", lst.synced)
    /\ UNCHANGED <<chainVars, logs, outbox, record, api, flush, lst, crashes>>

\* The backend stops: what it held in memory is gone.
BackendCrash ==
    /\ crashes < MaxCrashes
    /\ crashes' = crashes + 1
    /\ record' = [s \in Source |-> Null]
    /\ flush' = Null
    /\ lst' = Down
    /\ UNCHANGED <<chainVars, logs, outbox, cursor, api, faults>>

-----------------------------------------------------------------------------

AuditServiceStep ==
    \/ \E e \in ApiEvent : ApiRecord(e)
    \/ \E s \in Source : WriteDirect(s) \/ EnqueueOutbox(s)
    \/ \E row \in outbox : FlushRecord(row)
    \/ FlushDelete

ListenerStep ==
    \/ ListenerStart
    \/ \E e \in Event : BackfillNext(e)
    \/ BackfillFails
    \/ GoLive
    \/ \E k \in Kind : Attach(k) \/ OnEvents(k)
    \/ ProcessEvent
    \/ FlushCursor

Next ==
    \/ \E S \in SUBSET Event : MineBlock(S)
    \/ AuditServiceStep
    \/ ListenerStep
    \/ BackendCrash

Spec == Init /\ [][Next]_vars

\* The intervals and loops of the backend keep going; the chain need not,
\* and nothing needs to fail or crash.
Fairness ==
    /\ \A s \in Source : WF_vars(WriteDirect(s) \/ EnqueueOutbox(s))
    /\ \A row \in Rows : WF_vars(FlushRecord(row))
    /\ WF_vars(FlushDelete)

FairSpec == Spec /\ Fairness

-----------------------------------------------------------------------------
(* Properties. *)

Durable == logs \cup outbox

\* What the listener holds in memory when the latest block is h.
ListenerState(h) ==
    [phase : {"DOWN", "BACKFILL", "LIVE"}, saw : 0 .. h, from : 0 .. h,
     latest : 0 .. h, todo : SUBSET Event, synced : 0 .. h,
     sub : [Kind -> (0 .. h) \cup {Null}], queue : Seq(Event)]

\* Every variable stays in its domain: no cursor is ahead of the chain.
AuditTypeOK ==
    /\ head \in 0 .. MaxBlock
    /\ block \in [Event -> 0 .. head]
    /\ pos \in [Event -> 0 .. Cardinality(Event)]
    /\ logs \subseteq Rows
    /\ outbox \subseteq Rows
    /\ cursor \in [{"listener", "script"} -> (0 .. head) \cup {Null}]
    /\ record \in [Source -> Recorded \cup {Null}]
    /\ api \in [ApiEvent -> {"NO", "CALLED", "RETURNED"}]
    /\ flush \in Rows \cup {Null}
    /\ lst \in ListenerState(head)
    /\ faults \in 0 .. MaxFaults
    /\ crashes \in 0 .. MaxCrashes

\* What flushOutbox moves is in one of the two tables at every moment, a
\* failing write, a failing deletion or a crash between them included.
DurableForever == [][Durable \subseteq Durable']_vars

\* The comment of flushOutbox (audit.service.ts:98): a parked event is
\* drained, also when an earlier write of it was applied although its answer
\* was an error, or the process stops before it is deleted: no row stays.
OutboxDrains == \A row \in Rows : []<>(row \notin outbox)

\* start's backfill leaves no hole: once the listener is live, every event
\* from the block it started at to the one it read as the latest is durable.
BackfillIsComplete ==
    lst.phase = "LIVE" =>
        \A e \in Between(lst.from, lst.latest) : Row(e, pos[e]) \in Durable

\* AuditService.record (audit.service.ts:70-74, "sin perder datos"): an event
\* whose record returned is stored or parked, as long as fewer calls fail than
\* record makes (DirectAttempts and the insert into the outbox).
RecordedIsDurable ==
    \A e \in ApiEvent : api[e] = "RETURNED" => Row(e, 0) \in Durable

\* The listener's cursor (20260912_audit_logs.sql:50, "para no perder
\* bloques"): every event in a block below it is durable, or still to be
\* delivered to or recorded by this process.
NoBlockLost ==
    cursor["listener"] # Null =>
        \A e \in Between(1, cursor["listener"] - 1) :
            \/ Row(e, pos[e]) \in Durable
            \/ e \in lst.todo
            \/ e \in ToSet(lst.queue)
            \/ record["listener"] # Null /\ record["listener"].row = Row(e, pos[e])
            \/ lst.sub[KindOf[e]] # Null /\ lst.sub[KindOf[e]] < block[e]

=============================================================================
