-------------------------- MODULE AuditTrailProofs --------------------------
(***************************************************************************)
(* Theorems about the audit trail, for any events and bounds.              *)
(***************************************************************************)
EXTENDS AuditTrail, FiniteSetTheorems, TLAPS

-----------------------------------------------------------------------------
(* The invariant. *)

\* The events of the blocks from one to another, as the chain has them now.
Stored(e) == Row(e, pos[e]) \in Durable

\* A call of record is about to write this row.
Held(s, row) == record[s] # Null /\ record[s].row = row

\* Every attempt but the first follows a call that failed.
AttemptsCounted ==
    \A s \in Source : record[s] # Null => record[s].attempt <= faults + 1

\* What the services record, they record with the log index 0.
ApiRecords ==
    record["api"] # Null => \E e \in ApiEvent : record["api"].row = Row(e, 0)

\* A parked row is deleted only after it was written.
FlushedIsLogged == flush # Null => flush \in logs

\* An event of the backfill is stored, to be done, or being recorded.
BackfillInv ==
    lst.phase = "BACKFILL" =>
        \A e \in Between(lst.from, lst.latest) :
            Stored(e) \/ e \in lst.todo \/ Held("listener", Row(e, pos[e]))

RecordInv == AttemptsCounted /\ ApiRecords /\ RecordedIsDurable

ListenerInv == BackfillInv /\ BackfillIsComplete

-----------------------------------------------------------------------------
(* Types. *)

\* What was in the chain, or below its head, still is.
LEMMA HeadGrows ==
  ASSUME NEW h \in Nat
  PROVE  /\ 0 .. h \subseteq 0 .. h + 1
         /\ ListenerState(h) \subseteq ListenerState(h + 1)
<1>1. 0 .. h \subseteq 0 .. h + 1
  OBVIOUS
<1>2. [Kind -> (0 .. h) \cup {Null}] \subseteq [Kind -> (0 .. h + 1) \cup {Null}]
  BY <1>1
<1>3. ListenerState(h) \subseteq ListenerState(h + 1)
  BY <1>1, <1>2 DEF ListenerState
<1> QED
  BY <1>1, <1>3

\* What a process holds in memory stays in its domain when parts of it change.
LEMMA ListenerStarts ==
  ASSUME NEW h \in Nat, NEW l \in ListenerState(h), NEW latest \in 0 .. h,
         NEW saw \in 0 .. h, NEW from \in 0 .. h, NEW todo \in SUBSET Event
  PROVE  [l EXCEPT !.phase = "BACKFILL", !.latest = latest,
             !.saw = saw, !.from = from, !.todo = todo] \in ListenerState(h)
  BY DEF ListenerState

\* A row of an event has a log index that the chain can give it.
LEMMA RowsOfEvents ==
  ASSUME NEW e \in Event, NEW i \in 0 .. Cardinality(Event)
  PROVE  Row(e, i) \in Rows
  BY DEF Rows

LEMMA EventCount == Cardinality(Event) \in Nat
  BY AuditAssumption, FS_CardinalityType

\* A block with some events.
LEMMA MineTypes ==
  ASSUME AuditTypeOK, NEW S \in SUBSET Event, MineBlock(S)
  PROVE  AuditTypeOK'
<1>1. head \in Nat /\ head < MaxBlock /\ head' = head + 1 /\ head' \in 0 .. MaxBlock
  BY AuditAssumption DEF AuditTypeOK, MineBlock
<1>2. block' \in [Event -> 0 .. head']
  BY <1>1 DEF AuditTypeOK, MineBlock
<1>3. pos' \in [Event -> 0 .. Cardinality(Event)]
  <2>1. PICK index \in [S -> 0 .. Cardinality(S)] :
           pos' = [e \in Event |-> IF e \in S THEN index[e] ELSE pos[e]]
    BY DEF MineBlock
  <2>2. Cardinality(S) \in Nat /\ Cardinality(S) <= Cardinality(Event)
    BY AuditAssumption, FS_Subset, FS_CardinalityType
  <2> QED
    BY <2>1, <2>2, EventCount DEF AuditTypeOK
<1>4. UNCHANGED <<logs, outbox, cursor, record, api, flush, lst, faults, crashes>>
  BY DEF MineBlock
<1>5. cursor \in [{"listener", "script"} -> (0 .. head') \cup {Null}]
  BY <1>1, HeadGrows DEF AuditTypeOK
<1> QED
  BY <1>1, <1>2, <1>3, <1>4, <1>5, HeadGrows DEF AuditTypeOK

\* The calls of AuditService.
LEMMA RecordTypes ==
  ASSUME AuditTypeOK, AuditServiceStep PROVE AuditTypeOK'
<1>1. ASSUME NEW e \in ApiEvent, ApiRecord(e) PROVE AuditTypeOK'
  <2>1. Recording(Row(e, 0)) \in Recorded
    BY AuditAssumption, RowsOfEvents, EventCount DEF Recording, Recorded, DirectAttempts
  <2> QED
    BY <1>1, <2>1 DEF ApiRecord, chainVars, AuditTypeOK
<1>2. ASSUME NEW s \in Source, Returns(s) PROVE
        /\ record' \in [Source -> Recorded \cup {Null}]
        /\ api' \in [ApiEvent -> {"NO", "CALLED", "RETURNED"}]
  BY <1>2 DEF Returns, AuditTypeOK
<1>3. ASSUME NEW s \in Source, WriteDirect(s) PROVE AuditTypeOK'
  <2>1. record[s] \in Recorded /\ record[s].row \in Rows
    BY <1>3 DEF WriteDirect, AuditTypeOK, Recorded
  <2>2. logs' \subseteq Rows
    BY <1>3, <2>1 DEF WriteDirect, AuditTypeOK
  <2>3. faults' \in 0 .. MaxFaults
    BY <1>3, AuditAssumption DEF WriteDirect, AuditTypeOK, Fault
  <2>4. /\ record' \in [Source -> Recorded \cup {Null}]
        /\ api' \in [ApiEvent -> {"NO", "CALLED", "RETURNED"}]
    <3>1. ASSUME record[s].attempt <= DirectAttempts
          PROVE  [record[s] EXCEPT !.attempt = @ + 1] \in Recorded
      BY <2>1, <3>1 DEF Recorded, DirectAttempts
    <3> QED
      BY <1>2, <1>3, <3>1 DEF WriteDirect, AuditTypeOK
  <2> QED
    BY <1>3, <2>2, <2>3, <2>4 DEF WriteDirect, chainVars, AuditTypeOK
<1>4. ASSUME NEW s \in Source, EnqueueOutbox(s) PROVE AuditTypeOK'
  <2>1. record[s] \in Recorded /\ record[s].row \in Rows
    BY <1>4 DEF EnqueueOutbox, AuditTypeOK, Recorded
  <2>2. outbox' \subseteq Rows /\ faults' \in 0 .. MaxFaults
    BY <1>4, <2>1, AuditAssumption DEF EnqueueOutbox, AuditTypeOK, Fault
  <2> QED
    BY <1>2, <1>4, <2>2 DEF EnqueueOutbox, chainVars, AuditTypeOK
<1>5. ASSUME NEW row \in outbox, FlushRecord(row) PROVE AuditTypeOK'
  BY <1>5, AuditAssumption DEF FlushRecord, Fault, chainVars, AuditTypeOK
<1>6. ASSUME FlushDelete PROVE AuditTypeOK'
  BY <1>6, AuditAssumption DEF FlushDelete, Fault, chainVars, AuditTypeOK
<1> QED
  BY <1>1, <1>3, <1>4, <1>5, <1>6 DEF AuditServiceStep

LEMMA CursorTypes ==
  ASSUME AuditTypeOK, NEW w \in {"listener", "script"}, NEW n \in 0 .. head, SetCursor(w, n)
  PROVE  /\ cursor' \in [{"listener", "script"} -> (0 .. head) \cup {Null}]
         /\ faults' \in 0 .. MaxFaults
  BY AuditAssumption DEF SetCursor, Fault, AuditTypeOK

\* The cursor that is read, or none, and the first block to look at.
LEMMA ReadCursorTypes ==
  ASSUME AuditTypeOK, NEW w \in {"listener", "script"}, NEW c \in {cursor[w], Null}
  PROVE  /\ FirstBlock(c) \in 0 .. head
         /\ c # Null => c \in 0 .. head
         /\ GetCursor(w, c) => faults' \in 0 .. MaxFaults
<1>1. c \in (0 .. head) \cup {Null} /\ head \in Nat /\ BackfillBlocks \in Nat
  BY AuditAssumption DEF AuditTypeOK
<1> QED
  BY <1>1, AuditAssumption DEF FirstBlock, AtLeast0, GetCursor, Fault, AuditTypeOK

\* The listener in the backend.
LEMMA ListenerTypes ==
  ASSUME AuditTypeOK, ListenerStep PROVE AuditTypeOK'
<1>1. lst \in ListenerState(head) /\ head \in Nat
  BY AuditAssumption DEF AuditTypeOK
<1>2. \A e \in Event : Recording(Row(e, pos[e])) \in Recorded
  BY RowsOfEvents DEF Recording, Recorded, DirectAttempts, AuditTypeOK
<1>3. Down \in ListenerState(head)
  BY <1>1 DEF Down, ListenerState
<1>4. ASSUME ListenerStart PROVE AuditTypeOK'
  <2>1. PICK c \in {cursor["listener"], Null} :
          /\ GetCursor("listener", c)
          /\ lst' = [Down EXCEPT !.phase = "BACKFILL", !.latest = head,
                        !.saw = IF c = Null THEN 0 ELSE c,
                        !.from = FirstBlock(c),
                        !.todo = Between(FirstBlock(c), head)]
    BY <1>4 DEF ListenerStart
  <2>2. FirstBlock(c) \in 0 .. head /\ (c # Null => c \in 0 .. head)
        /\ faults' \in 0 .. MaxFaults
    BY <2>1, ReadCursorTypes
  <2>3. Between(FirstBlock(c), head) \subseteq Event
    BY DEF Between
  <2>4. lst' \in ListenerState(head)
    <3>1. head \in 0 .. head /\ (IF c = Null THEN 0 ELSE c) \in 0 .. head
      BY <1>1, <2>2
    <3>2. Between(FirstBlock(c), head) \in SUBSET Event
      BY <2>3
    <3> QED
      BY <1>1, <1>3, <2>1, <2>2, <3>1, <3>2, ListenerStarts, Zenon
  <2> QED
    BY <1>4, <2>2, <2>4 DEF ListenerStart, chainVars, AuditTypeOK
<1>5. ASSUME NEW e \in Event, BackfillNext(e) PROVE AuditTypeOK'
  <2>1. lst' \in ListenerState(head)
    BY <1>1, <1>5 DEF BackfillNext, ListenerState
  <2> QED
    BY <1>2, <1>5, <2>1 DEF BackfillNext, chainVars, AuditTypeOK
<1>6. ASSUME BackfillFails PROVE AuditTypeOK'
  BY <1>3, <1>6, AuditAssumption DEF BackfillFails, Fault, chainVars, AuditTypeOK
<1>7. ASSUME GoLive PROVE AuditTypeOK'
  <2>1. lst' \in ListenerState(head) /\ lst.latest \in 0 .. head
    BY <1>1, <1>7 DEF GoLive, ListenerState, Later
  <2> QED
    BY <1>7, <2>1, CursorTypes DEF GoLive, chainVars, AuditTypeOK
<1>8. ASSUME NEW k \in Kind, Attach(k) PROVE AuditTypeOK'
  <2>1. lst' \in ListenerState(head)
    BY <1>1, <1>8 DEF Attach, ListenerState
  <2> QED
    BY <1>8, <2>1 DEF Attach, chainVars, AuditTypeOK
<1>9. ASSUME NEW k \in Kind, OnEvents(k) PROVE AuditTypeOK'
  <2>0. PICK new \in SUBSET Event : \E order \in InOrder(new) :
          lst' = [lst EXCEPT !.sub[k] = head, !.queue = @ \o order]
    BY <1>9 DEF OnEvents, Between
  <2>1. PICK order \in InOrder(new) :
          lst' = [lst EXCEPT !.sub[k] = head, !.queue = @ \o order]
    BY <2>0
  <2>2. order \in Seq(Event)
    <3>1. Cardinality(new) \in Nat
      BY AuditAssumption, FS_Subset, FS_CardinalityType
    <3> QED
      BY <3>1 DEF InOrder
  <2>3. lst' \in ListenerState(head)
    <3>1. lst.queue \o order \in Seq(Event)
      BY <1>1, <2>2 DEF ListenerState
    <3>2. [lst.sub EXCEPT ![k] = head] \in [Kind -> (0 .. head) \cup {Null}]
      BY <1>1 DEF ListenerState
    <3>3. PICK sub \in [Kind -> (0 .. head) \cup {Null}], queue \in Seq(Event) :
            lst' = [lst EXCEPT !.sub = sub, !.queue = queue]
      BY <2>1, <3>1, <3>2
    <3> QED
      BY <1>1, <3>3 DEF ListenerState
  <2> QED
    BY <1>9, <2>3 DEF OnEvents, chainVars, AuditTypeOK
<1>10. ASSUME ProcessEvent PROVE AuditTypeOK'
  <2>1. lst.queue \in Seq(Event) /\ lst.queue # << >> /\ lst.synced \in 0 .. head
    BY <1>1, <1>10 DEF ProcessEvent, ListenerState
  <2>2. PICK e \in Event : e = Head(lst.queue)
    BY <2>1
  <2>3. Tail(lst.queue) \in Seq(Event) /\ Later(lst.synced, block[e]) \in 0 .. head
    BY <2>1 DEF Later, AuditTypeOK
  <2>4. lst' \in ListenerState(head)
    BY <1>1, <1>10, <2>2, <2>3 DEF ProcessEvent, ListenerState
  <2> QED
    BY <1>2, <1>10, <2>2, <2>4 DEF ProcessEvent, chainVars, AuditTypeOK
<1>11. ASSUME FlushCursor PROVE AuditTypeOK'
  <2>1. lst.synced \in 0 .. head
    BY <1>1 DEF ListenerState
  <2> QED
    BY <1>11, <2>1, CursorTypes DEF FlushCursor, chainVars, AuditTypeOK
<1> QED
  BY <1>4, <1>5, <1>6, <1>7, <1>8, <1>9, <1>10, <1>11 DEF ListenerStep

LEMMA TypesKept == AuditTypeOK /\ [Next]_vars => AuditTypeOK'
<1> SUFFICES ASSUME AuditTypeOK, [Next]_vars PROVE AuditTypeOK'
  OBVIOUS
<1>1. CASE BackendCrash
  <2>1. Down \in ListenerState(head)
    BY AuditAssumption DEF Down, ListenerState, AuditTypeOK
  <2> QED
    BY <1>1, <2>1, AuditAssumption DEF BackendCrash, chainVars, AuditTypeOK
<1>2. CASE UNCHANGED vars
  BY <1>2 DEF vars, AuditTypeOK
<1> QED
  BY <1>1, <1>2, MineTypes, RecordTypes, ListenerTypes DEF Next

LEMMA InitTypes == Init => AuditTypeOK
<1>1. Down \in ListenerState(0)
  BY DEF Down, ListenerState
<1> QED
  BY <1>1, EventCount, AuditAssumption DEF Init, AuditTypeOK

\* AuditTypeOK: whatever fails or crashes, every variable stays in its domain.
THEOREM AuditTypesCorrect == Spec => []AuditTypeOK
  BY InitTypes, TypesKept, PTL DEF Spec

-----------------------------------------------------------------------------
(* What is stored stays stored. *)

\* No step takes away what is in one of the two tables.
LEMMA DurableGrows ==
  ASSUME FlushedIsLogged, [Next]_vars
  PROVE  /\ logs \subseteq logs' /\ Durable \subseteq Durable'
         /\ FlushedIsLogged'
<1> DEFINE Goal == /\ logs \subseteq logs' /\ Durable \subseteq Durable'
                   /\ FlushedIsLogged'
<1>1. ASSUME UNCHANGED <<logs, outbox, flush>> PROVE Goal
  BY <1>1 DEF FlushedIsLogged, Durable
<1>2. CASE AuditServiceStep
  <2>1. ASSUME NEW e, ApiRecord(e) PROVE Goal
    BY <1>1, <2>1 DEF ApiRecord
  <2>2. ASSUME NEW s, WriteDirect(s) \/ EnqueueOutbox(s) PROVE Goal
    BY <2>2 DEF WriteDirect, EnqueueOutbox, FlushedIsLogged, Durable
  <2>3. ASSUME NEW row, FlushRecord(row) PROVE Goal
    BY <2>3 DEF FlushRecord, FlushedIsLogged, Durable
  <2>4. ASSUME FlushDelete PROVE Goal
    BY <2>4 DEF FlushDelete, FlushedIsLogged, Durable
  <2> QED
    BY <1>2, <2>1, <2>2, <2>3, <2>4 DEF AuditServiceStep
<1>3. CASE ListenerStep
  BY <1>1, <1>3 DEF ListenerStep, ListenerStart, BackfillNext, BackfillFails, GoLive, Attach,
                    OnEvents, ProcessEvent, FlushCursor
<1>4. CASE BackendCrash
  BY <1>4 DEF BackendCrash, FlushedIsLogged, Durable
<1>5. ASSUME NEW S, MineBlock(S) PROVE Goal
  BY <1>1, <1>5 DEF MineBlock
<1> QED
  BY <1>1, <1>2, <1>3, <1>4, <1>5 DEF Next, vars

\* DurableForever: whatever fails or crashes in between, an audit row that is
\* written or parked is in one of the two tables from then on.
THEOREM DurableIsForever == Spec => DurableForever
<1>1. Init => FlushedIsLogged
  BY DEF Init, FlushedIsLogged
<1>2. FlushedIsLogged /\ [Next]_vars => FlushedIsLogged' /\ [Durable \subseteq Durable']_vars
  BY DurableGrows
<1> QED
  BY <1>1, <1>2, PTL DEF Spec, DurableForever

\* An event keeps its place in the chain.
LEMMA ChainStays ==
  ASSUME AuditTypeOK, [Next]_vars, NEW m, NEW n \in 0 .. head, NEW e, e \in Between(m, n)'
  PROVE  e \in Event /\ e \in Between(m, n) /\ pos'[e] = pos[e]
<1>1. ASSUME NEW S \in SUBSET Event, MineBlock(S)
      PROVE  e \in Event /\ e \in Between(m, n) /\ pos'[e] = pos[e]
  <2>1. e \in Event /\ block'[e] # 0 /\ m <= block'[e] /\ block'[e] <= n
    BY DEF Between
  <2>2. head \in Nat /\ block'[e] = IF e \in S THEN head + 1 ELSE block[e]
    BY <1>1, <2>1, AuditAssumption DEF MineBlock, AuditTypeOK
  <2>3. e \notin S
    BY <2>1, <2>2
  <2>4. pos'[e] = pos[e]
    BY <1>1, <2>1, <2>3 DEF MineBlock
  <2> QED
    BY <2>1, <2>2, <2>3, <2>4 DEF Between
<1>2. ASSUME UNCHANGED chainVars
      PROVE  e \in Event /\ e \in Between(m, n) /\ pos'[e] = pos[e]
  BY <1>2 DEF chainVars, Between
<1>3. CASE UNCHANGED vars
  BY <1>2, <1>3 DEF vars, chainVars
<1>4. CASE AuditServiceStep
  BY <1>2, <1>4 DEF AuditServiceStep, ApiRecord, WriteDirect, EnqueueOutbox, FlushRecord,
                    FlushDelete
<1>5. CASE ListenerStep
  BY <1>2, <1>5 DEF ListenerStep, ListenerStart, BackfillNext, BackfillFails, GoLive, Attach,
                    OnEvents, ProcessEvent, FlushCursor
<1>6. CASE BackendCrash
  BY <1>2, <1>6 DEF BackendCrash
<1> QED
  BY <1>1, <1>3, <1>4, <1>5, <1>6 DEF Next

-----------------------------------------------------------------------------
(* What record was asked to store. *)

\* record returns only when its row is stored, as long as fewer calls fail
\* than it makes.
LEMMA RecordReturns ==
  ASSUME AuditTypeOK, AttemptsCounted, MaxFaults <= DirectAttempts,
         NEW s \in Source, WriteDirect(s) \/ EnqueueOutbox(s)
  PROVE  /\ record[s] \in Recorded
         /\ \/ Returns(s) /\ record[s].row \in Durable' /\ faults' = faults
            \/ /\ record[s].attempt <= DirectAttempts
               /\ record' = [record EXCEPT ![s].attempt = @ + 1]
               /\ api' = api
               /\ faults' = faults + 1
<1>1. /\ record \in [Source -> Recorded \cup {Null}] /\ record[s] # Null
      /\ faults \in Nat /\ MaxFaults \in Nat
  BY AuditAssumption DEF WriteDirect, EnqueueOutbox, AuditTypeOK
<1>2. record[s] \in Recorded /\ record[s].attempt \in 1 .. DirectAttempts + 1
  BY <1>1 DEF Recorded
<1>3. CASE WriteDirect(s)
  BY <1>2, <1>3 DEF WriteDirect, Fault, Durable
<1>4. CASE EnqueueOutbox(s)
  <2>1. faults >= DirectAttempts
    BY <1>1, <1>2, <1>4 DEF EnqueueOutbox, AttemptsCounted, DirectAttempts
  <2>2. ~ Fault
    BY <1>1, <2>1 DEF Fault, DirectAttempts
  <2> QED
    BY <1>2, <1>4, <2>2 DEF EnqueueOutbox, Durable
<1> QED
  BY <1>3, <1>4

\* A call of record in progress is still in progress afterwards, or its row is
\* stored, or the backend has stopped.
LEMMA RecordStays ==
  ASSUME AuditTypeOK, AttemptsCounted, MaxFaults <= DirectAttempts, [Next]_vars,
         NEW s \in Source, NEW row, Held(s, row)
  PROVE  Held(s, row)' \/ row \in Durable' \/ BackendCrash
<1>0. record \in [Source -> Recorded \cup {Null}] /\ Null \notin Recorded
  BY AuditNullAssumption DEF AuditTypeOK
<1>1. CASE record'[s] = record[s]
  BY <1>1 DEF Held
<1>2. ASSUME NEW t \in Source, WriteDirect(t) \/ EnqueueOutbox(t), t # s
      PROVE  record'[s] = record[s]
  BY <1>0, <1>2 DEF WriteDirect, EnqueueOutbox, Returns
<1>3. CASE WriteDirect(s) \/ EnqueueOutbox(s)
  <2>1. CASE Returns(s) /\ record[s].row \in Durable'
    BY <2>1 DEF Held
  <2>2. CASE /\ record[s].attempt <= DirectAttempts
             /\ record' = [record EXCEPT ![s].attempt = @ + 1]
    <3>1. record[s] \in Recorded
      BY <1>3, RecordReturns
    <3>2. record'[s] = [record[s] EXCEPT !.attempt = @ + 1]
      BY <1>0, <2>2
    <3>3. record'[s] \in Recorded /\ record'[s].row = row
      BY <2>2, <3>1, <3>2 DEF Recorded, Held, DirectAttempts
    <3> QED
      BY <1>0, <3>3 DEF Held
  <2> QED
    BY <1>3, <2>1, <2>2, RecordReturns
<1>4. ASSUME NEW e, ApiRecord(e) PROVE record'[s] = record[s]
  BY <1>0, <1>4 DEF ApiRecord, Held, Source
<1>5. ASSUME ListenerStep PROVE record'[s] = record[s]
  BY <1>0, <1>5 DEF ListenerStep, ListenerStart, BackfillNext, BackfillFails, GoLive, Attach,
                    OnEvents, ProcessEvent, FlushCursor, Held, Source
<1>6. ASSUME UNCHANGED record PROVE record'[s] = record[s]
  BY <1>6
<1>7. ASSUME NEW S, MineBlock(S) PROVE record'[s] = record[s]
  BY <1>7 DEF MineBlock
<1>8. CASE AuditServiceStep
  <2>1. (\E row_1 : FlushRecord(row_1)) \/ FlushDelete => record'[s] = record[s]
    BY DEF FlushRecord, FlushDelete
  <2> QED
    BY <1>1, <1>2, <1>3, <1>4, <1>8, <2>1 DEF AuditServiceStep
<1> QED
  BY <1>1, <1>5, <1>7, <1>8 DEF Next, vars

LEMMA FaultsGrow == [Next]_vars => faults' \in {faults, faults + 1}
<1> SUFFICES ASSUME [Next]_vars PROVE faults' \in {faults, faults + 1}
  OBVIOUS
<1>1. CASE AuditServiceStep
  BY <1>1 DEF AuditServiceStep, ApiRecord, WriteDirect, EnqueueOutbox, FlushRecord, FlushDelete,
              Fault
<1>2. CASE ListenerStep
  BY <1>2 DEF ListenerStep, ListenerStart, BackfillNext, BackfillFails, GoLive, Attach, OnEvents,
              ProcessEvent, FlushCursor, GetCursor, SetCursor, Fault
<1> QED
  BY <1>1, <1>2 DEF Next, MineBlock, BackendCrash, vars

LEMMA RecordKept ==
  ASSUME MaxFaults <= DirectAttempts
  PROVE  AuditTypeOK /\ FlushedIsLogged /\ RecordInv /\ [Next]_vars => RecordInv'
<1> SUFFICES ASSUME AuditTypeOK, FlushedIsLogged, RecordInv, [Next]_vars
             PROVE  RecordInv'
  OBVIOUS
<1>1. /\ record \in [Source -> Recorded \cup {Null}]
      /\ api \in [ApiEvent -> {"NO", "CALLED", "RETURNED"}] /\ ApiEvent \subseteq Event
      /\ faults \in Nat /\ AttemptsCounted
  BY AuditAssumption DEF AuditTypeOK, RecordInv
<1>2. Durable \subseteq Durable' /\ faults' \in Nat /\ faults' >= faults
  BY <1>1, DurableGrows, FaultsGrow
<1> DEFINE Begun(s) == record'[s] # Null => record'[s].attempt = 1
           Fine(s) == record'[s] # Null => record'[s].attempt <= faults' + 1
<1>3. ASSUME NEW s \in Source, record'[s] = record[s] \/ Begun(s)
      PROVE  Fine(s)
  <2>1. CASE record'[s] = record[s] /\ record[s] # Null
    <3>1. record[s].attempt \in Nat /\ record[s].attempt <= faults + 1
      BY <1>1, <2>1 DEF AttemptsCounted, Recorded, DirectAttempts
    <3> QED
      BY <1>1, <1>2, <2>1, <3>1
  <2> QED
    BY <1>2, <1>3, <2>1
<1>4. ASSUME UNCHANGED <<record, api>> PROVE RecordInv'
  <2>1. AttemptsCounted'
    BY <1>3, <1>4 DEF AttemptsCounted
  <2> QED
    BY <1>2, <1>4, <2>1 DEF RecordInv, ApiRecords, RecordedIsDurable
<1>5. ASSUME NEW e \in ApiEvent, ApiRecord(e) PROVE RecordInv'
  <2>1. /\ record' = [record EXCEPT !["api"] = Recording(Row(e, 0))]
        /\ api' = [api EXCEPT ![e] = "CALLED"]
    BY <1>5 DEF ApiRecord
  <2>2. AttemptsCounted'
    <3>1. \A s \in Source : record'[s] = record[s] \/ Begun(s)
      BY <1>1, <2>1 DEF Recording
    <3> QED
      BY <1>3, <3>1 DEF AttemptsCounted
  <2>3. ApiRecords'
    BY <1>1, <2>1 DEF ApiRecords, Recording, Source
  <2>4. RecordedIsDurable'
    BY <1>1, <1>2, <2>1 DEF RecordedIsDurable, RecordInv
  <2> QED
    BY <2>2, <2>3, <2>4 DEF RecordInv
<1>6. ASSUME NEW s \in Source, WriteDirect(s) \/ EnqueueOutbox(s) PROVE RecordInv'
  <2>1. record[s] \in Recorded /\ record[s] # Null
    BY <1>1, <1>6, RecordReturns DEF WriteDirect, EnqueueOutbox
  <2>2. CASE Returns(s) /\ record[s].row \in Durable' /\ faults' = faults
    <3>1. record' = [record EXCEPT ![s] = Null]
      BY <2>2 DEF Returns
    <3>2. AttemptsCounted'
      <4>1. \A t \in Source : record'[t] = record[t] \/ Begun(t)
        BY <1>1, <3>1
      <4> QED
        BY <1>3, <4>1 DEF AttemptsCounted
    <3>3. ApiRecords'
      BY <1>1, <3>1 DEF ApiRecords, RecordInv, Source
    <3>4. RecordedIsDurable'
      <4>1. CASE s = "api"
        <5>1. PICK e \in ApiEvent : record[s].row = Row(e, 0)
          BY <2>1, <4>1 DEF RecordInv, ApiRecords
        <5>2. api' = [api EXCEPT ![e] = "RETURNED"]
          BY <2>2, <4>1, <5>1 DEF Returns, Row
        <5> QED
          BY <1>1, <1>2, <2>2, <5>1, <5>2 DEF RecordedIsDurable, RecordInv
      <4>2. CASE s # "api"
        BY <1>2, <2>2, <4>2 DEF Returns, RecordedIsDurable, RecordInv
      <4> QED
        BY <4>1, <4>2
    <3> QED
      BY <3>2, <3>3, <3>4 DEF RecordInv
  <2>3. CASE /\ record' = [record EXCEPT ![s].attempt = @ + 1]
             /\ api' = api /\ faults' = faults + 1
    <3>1. record'[s] = [record[s] EXCEPT !.attempt = @ + 1]
          /\ \A t \in Source : t # s => record'[t] = record[t]
      BY <1>1, <2>3
    <3>2. record'[s].attempt = record[s].attempt + 1 /\ record'[s].row = record[s].row
      BY <2>1, <3>1 DEF Recorded
    <3>3. record[s].attempt \in Nat /\ record[s].attempt <= faults + 1
      BY <1>1, <2>1 DEF AttemptsCounted, Recorded, DirectAttempts
    <3>4. Fine(s)
      BY <1>1, <2>3, <3>2, <3>3
    <3>5. AttemptsCounted'
      BY <1>3, <3>1, <3>4 DEF AttemptsCounted
    <3>6. ApiRecords'
      BY <2>1, <3>1, <3>2 DEF ApiRecords, RecordInv, Source
    <3>7. RecordedIsDurable'
      BY <1>2, <2>3 DEF RecordedIsDurable, RecordInv
    <3> QED
      BY <3>5, <3>6, <3>7 DEF RecordInv
  <2> QED
    BY <1>1, <1>6, <2>2, <2>3, RecordReturns
<1>7. ASSUME UNCHANGED api, record'["api"] = record["api"],
             record'["listener"] = record["listener"] \/ Begun("listener")
      PROVE  RecordInv'
  <2>1. AttemptsCounted'
    <3>1. \A s \in Source : record'[s] = record[s] \/ Begun(s)
      BY <1>7 DEF Source
    <3> QED
      BY <1>3, <3>1 DEF AttemptsCounted
  <2> QED
    BY <1>2, <1>7, <2>1 DEF RecordInv, ApiRecords, RecordedIsDurable
<1>8. ASSUME NEW e \in Event, BackfillNext(e) PROVE RecordInv'
  BY <1>1, <1>7, <1>8 DEF BackfillNext, Recording, Source
<1>9. ASSUME ProcessEvent PROVE RecordInv'
  BY <1>1, <1>7, <1>9 DEF ProcessEvent, Recording, Source
<1>10. ASSUME BackendCrash PROVE RecordInv'
  <2>1. api' = api /\ \A s \in Source : record'[s] = Null
    BY <1>10 DEF BackendCrash
  <2>2. AttemptsCounted'
    BY <2>1 DEF AttemptsCounted
  <2>3. ApiRecords' /\ RecordedIsDurable'
    BY <1>2, <2>1 DEF ApiRecords, RecordedIsDurable, RecordInv, Source
  <2> QED
    BY <2>2, <2>3 DEF RecordInv
<1>11. CASE AuditServiceStep
  <2>1. ASSUME (\E row : FlushRecord(row)) \/ FlushDelete PROVE RecordInv'
    BY <1>4, <2>1 DEF FlushRecord, FlushDelete
  <2> QED
    BY <1>5, <1>6, <1>11, <2>1 DEF AuditServiceStep
<1>12. CASE ListenerStep
  BY <1>4, <1>8, <1>9, <1>12 DEF ListenerStep, ListenerStart, BackfillFails, GoLive, Attach,
                                 OnEvents, FlushCursor
<1>13. ASSUME NEW S, MineBlock(S) PROVE RecordInv'
  BY <1>4, <1>13 DEF MineBlock
<1> QED
  BY <1>4, <1>10, <1>11, <1>12, <1>13 DEF Next, vars

\* RecordedIsDurable: an event whose record call returned to its service is in
\* one of the two tables.  The hypothesis is the one the property names: record
\* makes DirectAttempts attempts and then inserts into the outbox, and with
\* more failures than that it drops the event, as enqueueOutbox says.
THEOREM RecordedStaysDurable ==
  ASSUME MaxFaults <= DirectAttempts
  PROVE  Spec => []RecordedIsDurable
<1>1. Init => AuditTypeOK /\ FlushedIsLogged /\ RecordInv
  BY InitTypes
  DEF Init, FlushedIsLogged, RecordInv, AttemptsCounted, ApiRecords, RecordedIsDurable, Source
<1>2. AuditTypeOK /\ FlushedIsLogged /\ RecordInv /\ [Next]_vars
      => (AuditTypeOK /\ FlushedIsLogged /\ RecordInv)'
  BY RecordKept, TypesKept, DurableGrows
<1>3. RecordInv => RecordedIsDurable
  BY DEF RecordInv
<1> QED
  BY <1>1, <1>2, <1>3, PTL DEF Spec

-----------------------------------------------------------------------------
(* The backfill of the listener. *)

\* An event that was accounted for still is, unless the backend has stopped.
LEMMA AccountedStays ==
  ASSUME AuditTypeOK, AttemptsCounted, FlushedIsLogged, MaxFaults <= DirectAttempts,
         [Next]_vars, ~ BackendCrash, NEW m, NEW n \in 0 .. head,
         NEW e, e \in Between(m, n)'
  PROVE  /\ e \in Between(m, n) /\ pos'[e] = pos[e]
         /\ Stored(e) => Stored(e)'
         /\ Held("listener", Row(e, pos[e]))
              => Stored(e)' \/ Held("listener", Row(e, pos[e]))'
<1>1. e \in Between(m, n) /\ pos'[e] = pos[e]
  BY ChainStays
<1>2. Durable \subseteq Durable'
  BY DurableGrows
<1>3. ASSUME Held("listener", Row(e, pos[e]))
      PROVE  Stored(e)' \/ Held("listener", Row(e, pos[e]))'
  <2>1. PICK row : row = Row(e, pos[e])
    OBVIOUS
  <2>2. Held("listener", row)' \/ row \in Durable'
    BY <1>3, <2>1, RecordStays DEF Source
  <2>3. Row(e, pos'[e]) = row /\ Row(e, pos[e])' = row
    BY <1>1, <2>1 DEF Row
  <2> QED
    BY <2>2, <2>3 DEF Stored, Held
<1> QED
  BY <1>1, <1>2, <1>3 DEF Stored, Row

LEMMA ListenerKept ==
  ASSUME MaxFaults <= DirectAttempts
  PROVE  AuditTypeOK /\ FlushedIsLogged /\ AttemptsCounted /\ ListenerInv /\ [Next]_vars
         => ListenerInv'
<1> SUFFICES ASSUME AuditTypeOK, FlushedIsLogged, AttemptsCounted, ListenerInv, [Next]_vars
             PROVE  ListenerInv'
  OBVIOUS
<1>1. lst \in ListenerState(head) /\ head \in Nat /\ lst.from \in 0 .. head
      /\ lst.latest \in 0 .. head /\ Null \notin Recorded
  BY AuditAssumption, AuditNullAssumption DEF AuditTypeOK, ListenerState
<1>2. ASSUME lst'.phase = "DOWN" PROVE ListenerInv'
  BY <1>2 DEF ListenerInv, BackfillInv, BackfillIsComplete
<1>3. ASSUME lst' = Down PROVE ListenerInv'
  BY <1>2, <1>3 DEF Down
<1>4. ASSUME lst'.phase = lst.phase, lst'.from = lst.from, lst'.latest = lst.latest,
             lst'.todo = lst.todo, ~ BackendCrash
      PROVE  ListenerInv'
  <2>1. PICK m \in 0 .. head, n \in 0 .. head : m = lst.from /\ n = lst.latest
    BY <1>1
  <2>2. ASSUME lst.phase = "BACKFILL", NEW e, e \in Between(m, n)'
        PROVE  (Stored(e) \/ e \in lst.todo \/ Held("listener", Row(e, pos[e])))'
    <3>1. e \in Between(m, n) /\ pos'[e] = pos[e] /\ (Stored(e) => Stored(e)')
          /\ (Held("listener", Row(e, pos[e]))
                => Stored(e)' \/ Held("listener", Row(e, pos[e]))')
      BY <1>4, <2>2, AccountedStays
    <3>2. Stored(e) \/ e \in lst.todo \/ Held("listener", Row(e, pos[e]))
      BY <2>1, <2>2, <3>1 DEF ListenerInv, BackfillInv
    <3> QED
      BY <1>4, <3>1, <3>2
  <2>3. ASSUME lst.phase = "LIVE", NEW e, e \in Between(m, n)'
        PROVE  Stored(e)'
    <3>1. e \in Between(m, n) /\ (Stored(e) => Stored(e)')
      BY <1>4, <2>3, AccountedStays
    <3> QED
      BY <2>1, <2>3, <3>1 DEF ListenerInv, BackfillIsComplete, Stored
  <2>4. Between(lst.from, lst.latest)' = Between(m, n)'
    BY <1>4, <2>1 DEF Between
  <2> QED
    BY <1>4, <2>2, <2>3, <2>4 DEF ListenerInv, BackfillInv, BackfillIsComplete, Stored
<1>5. ASSUME ListenerStart PROVE ListenerInv'
  <2>1. PICK c \in {cursor["listener"], Null} :
          lst' = [Down EXCEPT !.phase = "BACKFILL", !.latest = head,
                    !.saw = IF c = Null THEN 0 ELSE c,
                    !.from = FirstBlock(c),
                    !.todo = Between(FirstBlock(c), head)]
    BY <1>5 DEF ListenerStart
  <2>2. PICK m : m = FirstBlock(c)
    OBVIOUS
  <2>3. lst'.phase = "BACKFILL" /\ lst'.from = m /\ lst'.latest = head
        /\ lst'.todo = Between(m, head)
    BY <2>1, <2>2 DEF Down
  <2>4. head' = head /\ UNCHANGED chainVars
    BY <1>5 DEF ListenerStart, chainVars
  <2>5. Between(lst.from, lst.latest)' = lst'.todo
    BY <2>3, <2>4 DEF Between, chainVars
  <2> QED
    BY <2>3, <2>5 DEF ListenerInv, BackfillInv, BackfillIsComplete
<1>6. ASSUME NEW d \in Event, BackfillNext(d) PROVE ListenerInv'
  <2>1. /\ lst.phase = "BACKFILL" /\ UNCHANGED <<chainVars, logs, outbox>>
        /\ record["listener"] = Null
        /\ record'["listener"] = Recording(Row(d, pos[d]))
        /\ lst'.phase = lst.phase /\ lst'.from = lst.from /\ lst'.latest = lst.latest
        /\ lst'.todo = lst.todo \ {d}
    BY <1>1, <1>6 DEF BackfillNext, ListenerState, AuditTypeOK, Source
  <2>2. Recording(Row(d, pos[d])) \in Recorded
    BY RowsOfEvents DEF Recording, Recorded, DirectAttempts, AuditTypeOK
  <2>3. Held("listener", Row(d, pos[d]))'
    BY <1>1, <2>1, <2>2 DEF Held, Recording, chainVars, Row
  <2>4. ASSUME NEW e, e \in Between(lst.from, lst.latest)'
        PROVE  (Stored(e) \/ e \in lst.todo \/ Held("listener", Row(e, pos[e])))'
    <3>1. e \in Between(lst.from, lst.latest) /\ pos'[e] = pos[e]
      BY <2>1, <2>4 DEF Between, chainVars
    <3>2. Stored(e) \/ e \in lst.todo
      BY <2>1, <3>1 DEF ListenerInv, BackfillInv, Held
    <3>3. Stored(e) => Stored(e)'
      BY <2>1 DEF Stored, Durable, chainVars
    <3> QED
      BY <2>1, <2>3, <3>2, <3>3
  <2> QED
    BY <2>1, <2>4 DEF ListenerInv, BackfillInv, BackfillIsComplete
<1>7. ASSUME GoLive PROVE ListenerInv'
  <2>1. /\ lst.phase = "BACKFILL" /\ lst.todo = {} /\ record["listener"] = Null
        /\ UNCHANGED <<chainVars, logs, outbox>>
        /\ lst'.phase = "LIVE" /\ lst'.from = lst.from /\ lst'.latest = lst.latest
    BY <1>1, <1>7 DEF GoLive, ListenerState
  <2>2. \A e \in Between(lst.from, lst.latest) : Stored(e)
    BY <2>1 DEF ListenerInv, BackfillInv, Held
  <2>3. Between(lst.from, lst.latest)' = Between(lst.from, lst.latest)
    BY <2>1 DEF Between, chainVars
  <2>4. BackfillIsComplete'
    BY <2>1, <2>2, <2>3 DEF BackfillIsComplete, Stored, Durable, chainVars, Row
  <2> QED
    BY <2>1, <2>4 DEF ListenerInv, BackfillInv
<1>8. CASE BackendCrash
  BY <1>3, <1>8 DEF BackendCrash
<1>9. CASE BackfillFails
  BY <1>3, <1>9 DEF BackfillFails
<1>10. ASSUME (\E k \in Kind : Attach(k) \/ OnEvents(k)) \/ ProcessEvent, ~ BackendCrash
       PROVE  ListenerInv'
  <2>1. lst'.phase = lst.phase /\ lst'.from = lst.from /\ lst'.latest = lst.latest
        /\ lst'.todo = lst.todo
    BY <1>1, <1>10 DEF Attach, OnEvents, ProcessEvent, ListenerState
  <2> QED
    BY <1>4, <1>10, <2>1
<1>11. ASSUME lst' = lst, ~ BackendCrash PROVE ListenerInv'
  BY <1>4, <1>11
<1>12. CASE ListenerStep /\ ~ BackendCrash
  BY <1>5, <1>6, <1>7, <1>9, <1>10, <1>11, <1>12 DEF ListenerStep, FlushCursor
<1>13. AuditServiceStep \/ (\E S : MineBlock(S)) \/ UNCHANGED vars
       => lst' = lst
  BY DEF AuditServiceStep, ApiRecord, WriteDirect, EnqueueOutbox, FlushRecord, FlushDelete,
         MineBlock, vars
<1> QED
  BY <1>8, <1>11, <1>12, <1>13 DEF Next

\* BackfillIsComplete: once the listener is live, every event of the blocks its
\* start read is in one of the two tables, whatever the chain and the services
\* did meanwhile.  The hypothesis is the one of RecordedStaysDurable:
\* the backfill stores its events by record.
THEOREM BackfillLeavesNoHole ==
  ASSUME MaxFaults <= DirectAttempts
  PROVE  Spec => []BackfillIsComplete
<1> DEFINE Inv == AuditTypeOK /\ FlushedIsLogged /\ RecordInv /\ ListenerInv
<1>1. Init => Inv
  BY InitTypes
  DEF Init, FlushedIsLogged, RecordInv, AttemptsCounted, ApiRecords, RecordedIsDurable, Source,
      ListenerInv, BackfillInv, BackfillIsComplete, Down
<1>2. Inv /\ [Next]_vars => Inv'
  BY ListenerKept, RecordKept, TypesKept, DurableGrows DEF RecordInv
<1>3. Inv => BackfillIsComplete
  BY DEF ListenerInv
<1> QED
  BY <1>1, <1>2, <1>3, PTL DEF Spec
=============================================================================
