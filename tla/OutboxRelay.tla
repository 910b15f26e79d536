---------------------------- MODULE OutboxRelay ----------------------------
(***************************************************************************)
(* The transactional outbox and the relay that turns its rows into handler  *)
(* calls (libs/events, driven by apps/api/src/events).  Every API process   *)
(* has one relay; its drain walks the registered outbox tables in order,    *)
(* reads a batch of unpublished rows of each, and awaits one handler at a   *)
(* time.  What it read is stale by the time it is used: another process may *)
(* be draining the same table.                                             *)
(***************************************************************************)
EXTENDS Integers, FiniteSets, FiniteSetsExt

CONSTANTS
  NRows, NTables,
  TableOf,       \* [Rows -> Tables]
  AggregateOf,   \* the aggregate whose event the row is
  HandlersOf,    \* [Rows -> Nat], handlers registered for the event type
  Poison,        \* rows that one handler always rejects
  Relays,        \* processes
  BatchSize,
  MaxFaults,     \* bound on handler failures of rows that are not poison
  MaxInterrupts, \* bound on processes stopped, or drains cut short by the database
  MaxAttempts    \* bound on the attempts column

Rows == 1 .. NRows       \* outbox ids: UUIDv7 ids sort in creation order
Tables == 1 .. NTables   \* registered outbox tables, in the order drained

ASSUME OutboxAssumption ==
  /\ NRows \in Nat /\ NTables \in Nat \ {0}
  /\ TableOf \in [Rows -> Tables] /\ HandlersOf \in [Rows -> Nat]
  /\ DOMAIN AggregateOf = Rows /\ Poison \subseteq Rows
  /\ BatchSize \in Nat \ {0} /\ MaxAttempts \in Nat
  /\ MaxFaults \in Nat /\ MaxInterrupts \in Nat

VARIABLES
  outbox,     \* [Rows -> [state, attempts]]
  effects,    \* [Rows -> [handler -> times its effect was recorded]]
  relays,     \* a drain in progress, with the batch it read
  failures,   \* observer: failed dispatches of each row, up to MaxAttempts
  faults, interrupts

vars == <<outbox, effects, relays, failures, faults, interrupts>>

Stopped == [pc |-> "idle", table |-> 1, batch |-> {}, seen |-> [r \in Rows |-> 0],
            handler |-> 1]

OutboxRow == [state : {"absent", "unpublished", "published"}, attempts : 0 .. MaxAttempts]
RelayRow == [pc : {"idle", "fetch", "dispatch"}, table : Tables,
             batch : SUBSET Rows, seen : [Rows -> 0 .. MaxAttempts], handler : Nat \ {0}]

TypeOK ==
  /\ outbox \in [Rows -> OutboxRow]
  /\ DOMAIN effects = Rows
  /\ \A r \in Rows : effects[r] \in [1 .. HandlersOf[r] -> Nat]
  /\ relays \in [Relays -> RelayRow]
  /\ failures \in [Rows -> 0 .. MaxAttempts]
  /\ faults \in 0 .. MaxFaults /\ interrupts \in 0 .. MaxInterrupts

Init ==
  /\ outbox = [r \in Rows |-> [state |-> "absent", attempts |-> 0]]
  /\ effects = [r \in Rows |-> [h \in 1 .. HandlersOf[r] |-> 0]]
  /\ relays = [p \in Relays |-> Stopped]
  /\ failures = [r \in Rows |-> 0]
  /\ faults = 0 /\ interrupts = 0

\* emitEvent: the row commits with the business write.  Writers of one
\* aggregate hold its row lock to commit, so its events commit in id order;
\* events of different aggregates may commit in any order.
EmitEvent(r) ==
  /\ outbox[r].state = "absent"
  /\ \A q \in Rows : (q < r /\ AggregateOf[q] = AggregateOf[r]) => outbox[q].state # "absent"
  /\ outbox' = [outbox EXCEPT ![r].state = "unpublished"]
  /\ UNCHANGED <<effects, relays, failures, faults, interrupts>>

\* drain: a call while a drain is running returns at once.
StartDrain(p) ==
  /\ relays[p].pc = "idle"
  /\ relays' = [relays EXCEPT ![p].pc = "fetch"]
  /\ UNCHANGED <<outbox, effects, failures, faults, interrupts>>

Unpublished(t) == {r \in Rows : TableOf[r] = t /\ outbox[r].state = "unpublished"}

\* Mutant: an off-by-one in the batch size.
BatchShort(t) ==
  {r \in Unpublished(t) : Cardinality({q \in Unpublished(t) : q < r}) < BatchSize - 1}

\* WHERE published_at IS NULL ORDER BY id LIMIT batchSize.
Batch(t) ==
  {r \in Unpublished(t) : Cardinality({q \in Unpublished(t) : q < r}) < BatchSize}

\* The relay record once table t is done: on to the next table, or finished.
AfterTable(t) ==
  IF t + 1 \in Tables THEN [Stopped EXCEPT !.pc = "fetch", !.table = t + 1] ELSE Stopped

Fetch(p) ==
  LET t == relays[p].table IN
  /\ relays[p].pc = "fetch"
  /\ relays' = [relays EXCEPT ![p] =
       IF Batch(t) = {} THEN AfterTable(t)
       ELSE [pc |-> "dispatch", table |-> t, batch |-> Batch(t), handler |-> 1,
             seen |-> [r \in Rows |-> IF r \in Batch(t) THEN outbox[r].attempts ELSE 0]]]
  /\ UNCHANGED <<outbox, effects, failures, faults, interrupts>>

\* The row being dispatched, and the relay once it is done with it.
Current(p) == Min(relays[p].batch)
AfterRow(p) ==
  LET rest == relays[p].batch \ {Current(p)} IN
  IF rest = {} THEN AfterTable(relays[p].table)
  ELSE [relays[p] EXCEPT !.batch = rest, !.handler = 1, !.seen[Current(p)] = 0]

\* INSERT ... ON CONFLICT DO NOTHING RETURNING, by which handlers make
\* redelivery harmless: the number of times the effect is on record.
InsertOnce(n) == IF n = 0 THEN 1 ELSE n

\* Mutant: the row is marked first and dispatched second.
HandleMarked(p) ==
  LET r == Current(p)
      h == relays[p].handler
  IN
  /\ relays[p].pc = "dispatch"
  /\ h <= HandlersOf[r]
  /\ outbox' = [outbox EXCEPT ![r].state = "published"]
  /\ effects' = [effects EXCEPT ![r][h] = IF r \in Poison THEN @ ELSE InsertOnce(@)]
  /\ relays' = [relays EXCEPT ![p].handler = h + 1]
  /\ UNCHANGED <<failures, faults, interrupts>>

\* A handler of the current row commits its own transaction and returns.
Handle(p) ==
  LET r == Current(p)
      h == relays[p].handler
  IN
  /\ relays[p].pc = "dispatch"
  /\ h <= HandlersOf[r]
  /\ r \in Poison => h < HandlersOf[r]
  /\ effects' = [effects EXCEPT ![r][h] = InsertOnce(@)]
  /\ relays' = [relays EXCEPT ![p].handler = h + 1]
  /\ UNCHANGED <<outbox, failures, faults, interrupts>>

Capped(n) == IF n > MaxAttempts THEN MaxAttempts ELSE n

\* A handler throws: the row stays unpublished, attempts is written from the
\* value read with the batch, and the drain goes on with the next row.
HandlerFails(p) ==
  LET r == Current(p) IN
  /\ relays[p].pc = "dispatch"
  /\ relays[p].handler <= HandlersOf[r]
  /\ IF r \in Poison THEN relays[p].handler = HandlersOf[r] /\ UNCHANGED faults
     ELSE faults < MaxFaults /\ faults' = faults + 1
  /\ outbox' = [outbox EXCEPT ![r].attempts = Capped(relays[p].seen[r] + 1)]
  /\ failures' = [failures EXCEPT ![r] = Capped(@ + 1)]
  /\ relays' = [relays EXCEPT ![p] = AfterRow(p)]
  /\ UNCHANGED <<effects, interrupts>>

\* Every handler returned: UPDATE ... WHERE published_at IS NULL.
MarkPublished(p) ==
  LET r == Current(p) IN
  /\ relays[p].pc = "dispatch"
  /\ relays[p].handler > HandlersOf[r]
  /\ outbox' = [outbox EXCEPT ![r].state = "published"]
  /\ relays' = [relays EXCEPT ![p] = AfterRow(p)]
  /\ UNCHANGED <<effects, failures, faults, interrupts>>

\* The process dies, or a query of the drain itself throws: `finally` clears
\* the flag and the batch is forgotten; rows and effects are committed facts.
Interrupt(p) ==
  /\ relays[p].pc # "idle"
  /\ interrupts < MaxInterrupts
  /\ interrupts' = interrupts + 1
  /\ relays' = [relays EXCEPT ![p] = Stopped]
  /\ UNCHANGED <<outbox, effects, failures, faults>>

Advance(p) == Fetch(p) \/ Handle(p) \/ HandlerFails(p) \/ MarkPublished(p)

Next ==
  \/ \E r \in Rows : EmitEvent(r)
  \/ \E p \in Relays : StartDrain(p)
  \/ \E p \in Relays : Advance(p)
  \/ \E p \in Relays : Interrupt(p)

Spec == Init /\ [][Next]_vars

\* The sweep timer keeps calling drain and an await that is pending returns.
Fairness == \A p \in Relays : WF_vars(StartDrain(p)) /\ WF_vars(Advance(p))
FairSpec == Spec /\ Fairness

---------------------------------------------------------------------------

Handled(r) == \A h \in 1 .. HandlersOf[r] : effects[r][h] > 0

\* At-least-once: a row is published only after every one of its handlers has
\* committed its effect, whatever crashed, failed or ran at the same time.
PublishedIsHandled ==
  \A r \in Rows : outbox[r].state = "published" => Handled(r)

\* Redelivery is harmless: a handler's effect is on record once, however many
\* relays picked the row up and however often a later handler failed.
EffectsOnce ==
  \A r \in Rows : \A h \in 1 .. HandlersOf[r] : effects[r][h] <= 1

\* A row whose dispatch has failed shows it, even when two relays write the
\* attempts column from what each of them read.
FailureIsVisible ==
  \A r \in Rows : failures[r] > 0 /\ MaxAttempts > 0 => outbox[r].attempts > 0

\* Publication is for good, and no effect is taken back.
PublishedForGood ==
  [][\A r \in Rows :
       /\ outbox[r].state = "published" => outbox'[r].state = "published"
       /\ Handled(r) => Handled(r)']_vars

\* No event is lost and none starves: as long as there are fewer poison rows
\* than a batch holds, every other row is eventually published.
HealthyRowsPublished ==
  \A r \in Rows \ Poison :
    (outbox[r].state = "unpublished") ~> (outbox[r].state = "published")

\* Delivery is exact in its effects: at least once by redelivery, once on record,
\* and never silently failed or taken back.
DeliveryIsExact ==
  /\ [](TypeOK /\ PublishedIsHandled /\ EffectsOnce /\ FailureIsVisible)
  /\ PublishedForGood
============================================================================
