---------------------------- MODULE OutboxProofs ----------------------------
(***************************************************************************)
(* Proofs about the work that timers start. Delivery: for every number of  *)
(* rows, tables, handlers and relays, every batch size and every bound on  *)
(* faults. One notification: for any number of workers, attempts and       *)
(* deaths. No-shows: for any windows and overlapping runs.                 *)
(***************************************************************************)
EXTENDS MCSweeps, FiniteSetTheorems, WellFoundedInduction, TLAPS

\* What a drain in progress can rely on: it has a current row, and the
\* handlers of that row it has passed have their effect on record.
DrainPlaced(p) ==
  relays[p].pc = "dispatch" =>
    /\ relays[p].batch # {}
    /\ \A h \in 1 .. HandlersOf[Current(p)] : h < relays[p].handler => effects[Current(p)][h] > 0
DrainsPlaced == \A p \in Relays : DrainPlaced(p)

\* The inductive invariant: PublishedIsHandled alone is not inductive, since
\* MarkPublished knows of the earlier handlers only through the drain.
DeliveryInv == TypeOK /\ DrainsPlaced /\ PublishedIsHandled /\ EffectsOnce /\ FailureIsVisible

\* A batch that is not empty has a first row (ORDER BY id).
LEMMA FirstOfBatch ==
  ASSUME NEW S \in SUBSET Rows, S # {}
  PROVE  Min(S) \in S
<1>1. \E x \in S : \A y \in S : x <= y
  <2>1. Rows \subseteq Nat
    BY OutboxAssumption DEF Rows
  <2>2. PICK x \in S : \A y \in S : ~ (<<y, x>> \in OpToRel(<, Nat))
    BY <2>1, NatLessThanWellFounded, WFMin, Zenon
  <2>3. \A y \in S : ~ (y < x)
    BY <2>1, <2>2 DEF OpToRel
  <2> QED
    BY <2>1, <2>3
<1> QED
  BY <1>1 DEF Min

\* Every relay that dispatches has a current row.
LEMMA CurrentIsRow ==
  ASSUME TypeOK, DrainsPlaced, NEW p \in Relays, relays[p].pc = "dispatch"
  PROVE  Current(p) \in relays[p].batch /\ Current(p) \in Rows
<1>1. relays[p].batch \in SUBSET Rows /\ relays[p].batch # {}
  BY DEF TypeOK, DrainsPlaced, DrainPlaced, RelayRow
<1> QED
  BY <1>1, FirstOfBatch DEF Current

---------------------------------------------------------------------------
(* Types.                                                                  *)

\* Editing one column leaves a row.
LEMMA RowEdits ==
  ASSUME NEW row \in OutboxRow
  PROVE  /\ \A s \in {"absent", "unpublished", "published"} : [row EXCEPT !.state = s] \in OutboxRow
         /\ \A n \in 0 .. MaxAttempts : [row EXCEPT !.attempts = n] \in OutboxRow
  BY DEF OutboxRow

\* So does editing one field of a drain.
LEMMA RelayEdits ==
  ASSUME NEW relay \in RelayRow
  PROVE  /\ \A x \in {"idle", "fetch", "dispatch"} : [relay EXCEPT !.pc = x] \in RelayRow
         /\ \A t \in Tables : [relay EXCEPT !.table = t] \in RelayRow
         /\ \A B \in SUBSET Rows : [relay EXCEPT !.batch = B] \in RelayRow
         /\ \A h \in Nat \ {0} : [relay EXCEPT !.handler = h] \in RelayRow
         /\ \A f \in [Rows -> 0 .. MaxAttempts] : [relay EXCEPT !.seen = f] \in RelayRow
  BY DEF RelayRow

\* The records a relay is left with have their shape.
LEMMA RelayTypes ==
  /\ Stopped \in RelayRow
  /\ \A t \in Tables : AfterTable(t) \in RelayRow
<1>1. Stopped \in RelayRow
  BY OutboxAssumption DEF Stopped, RelayRow, Tables
<1>2. ASSUME NEW t \in Tables, t + 1 \in Tables
      PROVE  [Stopped EXCEPT !.pc = "fetch", !.table = t + 1] \in RelayRow
  BY <1>1, <1>2, RelayEdits
<1> QED
  BY <1>1, <1>2 DEF AfterTable

\* A drain that goes on to its next row is still a drain.
LEMMA AfterRowType ==
  ASSUME TypeOK, DrainsPlaced, NEW p \in Relays, relays[p].pc = "dispatch"
  PROVE  AfterRow(p) \in RelayRow
<1>1. relays[p] \in RelayRow
  BY DEF TypeOK, RelayRow
<1>2. Current(p) \in Rows
  BY CurrentIsRow
<1>3. AfterTable(relays[p].table) \in RelayRow
  BY <1>1, RelayTypes DEF RelayRow
<1>4. [relays[p] EXCEPT !.batch = relays[p].batch \ {Current(p)}, !.handler = 1,
                        !.seen[Current(p)] = 0] \in RelayRow
  <2> DEFINE r1 == [relays[p] EXCEPT !.batch = relays[p].batch \ {Current(p)}]
             r2 == [r1 EXCEPT !.handler = 1]
  <2>1. r1 \in RelayRow
    BY <1>1, RelayEdits DEF RelayRow
  <2>2. r2 \in RelayRow
    BY <2>1, RelayEdits, 1 \in Nat \ {0}, Zenon
  <2> HIDE DEF r2
  <2>3. [r2.seen EXCEPT ![Current(p)] = 0] \in [Rows -> 0 .. MaxAttempts]
    BY <2>2, <1>2, OutboxAssumption DEF RelayRow
  <2>4. [r2 EXCEPT !.seen = [r2.seen EXCEPT ![Current(p)] = 0]] \in RelayRow
    BY <2>2, <2>3, RelayEdits
  <2> QED
    BY <2>4 DEF r2
<1> QED
  BY <1>3, <1>4 DEF AfterRow

\* The bound on attempts holds what it counts.
LEMMA CappedType == \A n \in Nat : Capped(n) \in 0 .. MaxAttempts
  BY OutboxAssumption DEF Capped

\* Every step keeps the shape of tables, relays and counters.
LEMMA NextTypes ==
  ASSUME DeliveryInv, [Next]_vars
  PROVE  TypeOK'
<1> USE DEF DeliveryInv
<1>1. ASSUME NEW r \in Rows, EmitEvent(r) PROVE TypeOK'
  <2>1. [outbox[r] EXCEPT !.state = "unpublished"] \in OutboxRow
    BY RowEdits DEF TypeOK
  <2> QED
    BY <1>1, <2>1 DEF TypeOK, EmitEvent
<1>2. ASSUME NEW p \in Relays, StartDrain(p) PROVE TypeOK'
  <2>1. [relays[p] EXCEPT !.pc = "fetch"] \in RelayRow
    BY RelayEdits DEF TypeOK
  <2> QED
    BY <1>2, <2>1 DEF TypeOK, StartDrain
<1>3. ASSUME NEW p \in Relays, Fetch(p) PROVE TypeOK'
  <2> DEFINE t == relays[p].table
             read == [pc |-> "dispatch", table |-> t, batch |-> Batch(t), handler |-> 1,
                      seen |-> [r \in Rows |-> IF r \in Batch(t) THEN outbox[r].attempts ELSE 0]]
  <2>1. t \in Tables
    BY DEF TypeOK, RelayRow
  <2>2. Batch(t) \in SUBSET Rows /\ \A r \in Rows : outbox[r].attempts \in 0 .. MaxAttempts
    BY DEF Batch, Unpublished, TypeOK, OutboxRow
  <2>3. read \in RelayRow
    BY <2>1, <2>2, OutboxAssumption DEF RelayRow
  <2>4. relays' \in [Relays -> RelayRow]
    BY <1>3, <2>1, <2>3, RelayTypes DEF Fetch, TypeOK
  <2> QED
    BY <1>3, <2>4 DEF Fetch, TypeOK
<1>4. ASSUME NEW p \in Relays, Handle(p) PROVE TypeOK'
  <2>1. Current(p) \in Rows
    BY <1>4, CurrentIsRow DEF Handle
  <2>2. relays[p].handler \in 1 .. HandlersOf[Current(p)] /\ relays[p].handler + 1 \in Nat \ {0}
    BY <1>4, <2>1, OutboxAssumption DEF Handle, TypeOK, RelayRow
  <2>3. DOMAIN effects' = Rows /\ \A r \in Rows : effects'[r] \in [1 .. HandlersOf[r] -> Nat]
    BY <1>4, <2>1, <2>2 DEF Handle, TypeOK, InsertOnce
  <2>4. [relays[p] EXCEPT !.handler = relays[p].handler + 1] \in RelayRow
    BY <2>2, RelayEdits DEF TypeOK
  <2> QED
    BY <1>4, <2>3, <2>4 DEF Handle, TypeOK
<1>5. ASSUME NEW p \in Relays, HandlerFails(p) PROVE TypeOK'
  <2>1. Current(p) \in Rows /\ AfterRow(p) \in RelayRow
    BY <1>5, CurrentIsRow, AfterRowType DEF HandlerFails
  <2>2. relays[p].seen[Current(p)] + 1 \in Nat /\ failures[Current(p)] + 1 \in Nat
    BY <2>1, OutboxAssumption DEF TypeOK, RelayRow
  <2>3. /\ [outbox[Current(p)] EXCEPT !.attempts = Capped(relays[p].seen[Current(p)] + 1)] \in OutboxRow
        /\ Capped(failures[Current(p)] + 1) \in 0 .. MaxAttempts
    BY <2>1, <2>2, CappedType, RowEdits DEF TypeOK
  <2>4. faults' \in 0 .. MaxFaults
    BY <1>5, OutboxAssumption DEF HandlerFails, TypeOK
  <2> QED
    BY <1>5, <2>1, <2>3, <2>4 DEF HandlerFails, TypeOK
<1>6. ASSUME NEW p \in Relays, MarkPublished(p) PROVE TypeOK'
  <2>1. Current(p) \in Rows /\ AfterRow(p) \in RelayRow
    BY <1>6, CurrentIsRow, AfterRowType DEF MarkPublished
  <2>2. [outbox[Current(p)] EXCEPT !.state = "published"] \in OutboxRow
    BY <2>1, RowEdits DEF TypeOK
  <2> QED
    BY <1>6, <2>1, <2>2 DEF MarkPublished, TypeOK
<1>7. ASSUME NEW p \in Relays, Interrupt(p) PROVE TypeOK'
  BY <1>7, RelayTypes, OutboxAssumption DEF Interrupt, TypeOK
<1>8. CASE UNCHANGED vars
  BY <1>8 DEF TypeOK, vars
<1> QED
  BY <1>1, <1>2, <1>3, <1>4, <1>5, <1>6, <1>7, <1>8 DEF Next, Advance

---------------------------------------------------------------------------
(* Deliveries.                                                             *)

\* Handlers of other drains only add to what is on record.
LEMMA EffectsGrow ==
  ASSUME DeliveryInv, [Next]_vars
  PROVE  \A r \in Rows : \A h \in 1 .. HandlersOf[r] :
           /\ effects[r][h] > 0 => effects'[r][h] > 0
           /\ effects'[r][h] <= 1
<1> USE DEF DeliveryInv
<1>1. ASSUME NEW p \in Relays, Handle(p)
      PROVE  \A r \in Rows : \A h \in 1 .. HandlersOf[r] :
               /\ effects[r][h] > 0 => effects'[r][h] > 0
               /\ effects'[r][h] <= 1
  <2> SUFFICES ASSUME NEW r \in Rows, NEW h \in 1 .. HandlersOf[r]
               PROVE  (effects[r][h] > 0 => effects'[r][h] > 0) /\ effects'[r][h] <= 1
    OBVIOUS
  <2>1. effects[r][h] \in Nat /\ effects[r][h] <= 1
    BY DEF TypeOK, EffectsOnce
  <2>2. effects'[r][h] \in {effects[r][h], InsertOnce(effects[r][h])}
    <3>1. Current(p) \in Rows
      BY <1>1, CurrentIsRow DEF Handle
    <3>2. effects' = [effects EXCEPT ![Current(p)][relays[p].handler] = InsertOnce(@)]
      BY <1>1 DEF Handle
    <3> HIDE DEF DeliveryInv
    <3>3. CASE r = Current(p) /\ h = relays[p].handler
      BY <3>2, <3>3 DEF DeliveryInv, TypeOK
    <3>4. CASE ~(r = Current(p) /\ h = relays[p].handler)
      BY <3>2, <3>4 DEF DeliveryInv, TypeOK
    <3> QED
      BY <3>3, <3>4
  <2> QED
    BY <2>1, <2>2 DEF InsertOnce
<1>2. CASE UNCHANGED effects
  BY <1>2 DEF EffectsOnce
<1> QED
  BY <1>1, <1>2 DEF Next, Advance, EmitEvent, StartDrain, Fetch, HandlerFails, MarkPublished,
    Interrupt, vars

\* A drain that has just turned to a row has passed none of its handlers.
LEMMA FreshDrain ==
  ASSUME TypeOK', NEW p \in Relays, relays'[p].handler = 1,
         relays'[p].pc = "dispatch" => relays'[p].batch # {}
  PROVE  DrainPlaced(p)'
<1>1. ASSUME relays'[p].pc = "dispatch"
      PROVE  HandlersOf[Current(p)'] \in Nat
  <2>1. relays'[p].batch \in SUBSET Rows
    BY DEF TypeOK, RelayRow
  <2> QED
    BY <1>1, <2>1, FirstOfBatch, OutboxAssumption DEF Current
<1> QED
  BY <1>1 DEF DrainPlaced

\* What a drain is left with after a row, or after a table.
LEMMA RestIsFresh ==
  ASSUME TypeOK, NEW p \in Relays
  PROVE  /\ Stopped.handler = 1 /\ Stopped.pc # "dispatch"
         /\ \A t \in Tables : AfterTable(t).handler = 1 /\ AfterTable(t).pc # "dispatch"
         /\ AfterRow(p).handler = 1
         /\ AfterRow(p).pc = "dispatch" => AfterRow(p).batch # {}
<1>1. Stopped.handler = 1 /\ Stopped.pc # "dispatch"
  BY DEF Stopped
<1>2. \A t \in Tables : AfterTable(t).handler = 1 /\ AfterTable(t).pc # "dispatch"
  BY <1>1 DEF AfterTable, Stopped
<1>3. relays[p] \in RelayRow /\ relays[p].table \in Tables
  BY DEF TypeOK, RelayRow
<1>4. CASE relays[p].batch \ {Current(p)} = {}
  BY <1>1, <1>2, <1>3, <1>4 DEF AfterRow
<1>5. CASE relays[p].batch \ {Current(p)} # {}
  BY <1>1, <1>2, <1>3, <1>5 DEF AfterRow, RelayRow
<1> QED
  BY <1>1, <1>2, <1>4, <1>5

\* A drain keeps its place, passes a handler that has committed, or turns to
\* something new.
LEMMA NextDrains ==
  ASSUME DeliveryInv, [Next]_vars
  PROVE  DrainsPlaced'
<1> USE DEF DeliveryInv
<1>1. TypeOK'
  BY NextTypes
<1> SUFFICES ASSUME NEW q \in Relays
             PROVE  DrainPlaced(q)'
  BY DEF DrainsPlaced
<1>2. CASE relays'[q] = relays[q]
  <2>1. Current(q)' = Current(q)
    BY <1>2 DEF Current
  <2>2. relays[q].pc = "dispatch" => Current(q) \in Rows
    BY CurrentIsRow
  <2> QED
    BY <1>2, <2>1, <2>2, EffectsGrow DEF DrainsPlaced, DrainPlaced
<1>3. CASE relays'[q].handler = 1 /\ (relays'[q].pc = "dispatch" => relays'[q].batch # {})
  BY <1>1, <1>3, FreshDrain
<1>4. CASE Handle(q)
  <2> DEFINE r == Current(q)
             h == relays[q].handler
  <2>1. r \in Rows /\ h \in 1 .. HandlersOf[r]
    BY <1>4, CurrentIsRow, OutboxAssumption DEF Handle, TypeOK, RelayRow
  <2>2. relays'[q] = [relays[q] EXCEPT !.handler = h + 1]
    BY <1>4 DEF Handle, TypeOK
  <2>3. relays'[q].batch = relays[q].batch /\ relays'[q].handler = h + 1
    BY <2>2 DEF TypeOK, RelayRow
  <2>4. Current(q)' = r
    BY <2>3 DEF Current
  <2>5. effects'[r][h] > 0
    <3>1. effects'[r][h] = InsertOnce(effects[r][h]) /\ effects[r][h] \in Nat
      BY <1>4, <2>1 DEF Handle, TypeOK
    <3> QED
      BY <3>1 DEF InsertOnce
  <2>6. ASSUME NEW g \in 1 .. HandlersOf[r], g < h + 1
        PROVE  effects'[r][g] > 0
    <3>1. CASE g = h
      BY <2>5, <3>1
    <3>2. CASE g < h
      BY <1>4, <2>1, <3>2, EffectsGrow DEF DrainsPlaced, DrainPlaced, Handle
    <3> QED
      BY <2>1, <2>6, <3>1, <3>2, OutboxAssumption
  <2>7. relays[q].batch # {}
    BY <1>4 DEF Handle, DrainsPlaced, DrainPlaced
  <2> QED
    BY <2>3, <2>4, <2>6, <2>7 DEF DrainPlaced
<1>5. ASSUME NEW p \in Relays, StartDrain(p) PROVE DrainPlaced(q)'
  <2>1. CASE q = p
    BY <1>5, <2>1 DEF StartDrain, TypeOK, RelayRow, DrainPlaced
  <2> QED
    BY <1>2, <1>5, <2>1 DEF StartDrain, TypeOK
<1>6. ASSUME NEW p \in Relays, Fetch(p) PROVE DrainPlaced(q)'
  <2>1. CASE q = p
    <3>1. relays[p].table \in Tables
      BY DEF TypeOK, RelayRow
    <3> QED
      BY <1>3, <1>6, <2>1, <3>1, RestIsFresh DEF Fetch, TypeOK
  <2> QED
    BY <1>2, <1>6, <2>1 DEF Fetch, TypeOK
<1>7. ASSUME NEW p \in Relays, HandlerFails(p) \/ MarkPublished(p) PROVE DrainPlaced(q)'
  <2>1. relays' = [relays EXCEPT ![p] = AfterRow(p)]
    BY <1>7 DEF HandlerFails, MarkPublished
  <2>2. CASE q = p
    BY <1>3, <2>1, <2>2, RestIsFresh DEF TypeOK
  <2> QED
    BY <1>2, <2>1, <2>2 DEF TypeOK
<1>8. ASSUME NEW p \in Relays, Interrupt(p) PROVE DrainPlaced(q)'
  <2>1. CASE q = p
    BY <1>3, <1>8, <2>1, RestIsFresh DEF Interrupt, TypeOK
  <2> QED
    BY <1>2, <1>8, <2>1 DEF Interrupt, TypeOK
<1>9. ASSUME NEW p \in Relays, Handle(p), q # p PROVE DrainPlaced(q)'
  BY <1>2, <1>9 DEF Handle, TypeOK
<1> QED
  BY <1>2, <1>4, <1>5, <1>6, <1>7, <1>8, <1>9 DEF Next, Advance, EmitEvent, vars

\* A row is marked only by a drain that has passed all of its handlers, and
\* no step takes the mark away.
LEMMA NextPublished ==
  ASSUME DeliveryInv, [Next]_vars, NEW r \in Rows
  PROVE  /\ outbox'[r].state = "published" => Handled(r)'
         /\ outbox[r].state = "published" => outbox'[r].state = "published"
         /\ Handled(r) => Handled(r)'
<1> USE DEF DeliveryInv
<1>1. Handled(r) => Handled(r)'
  BY EffectsGrow DEF Handled
<1>2. CASE outbox'[r].state = outbox[r].state
  BY <1>1, <1>2 DEF PublishedIsHandled
<1>3. ASSUME NEW p \in Relays, MarkPublished(p), r = Current(p)
      PROVE  Handled(r) /\ outbox'[r].state = "published"
  <2>1. Handled(r)
    <3>1. relays[p].handler \in Nat /\ HandlersOf[r] \in Nat /\ relays[p].handler > HandlersOf[r]
      BY <1>3, OutboxAssumption DEF MarkPublished, TypeOK, RelayRow
    <3>2. \A h \in 1 .. HandlersOf[r] : h < relays[p].handler => effects[r][h] > 0
      BY <1>3 DEF MarkPublished, DrainsPlaced, DrainPlaced
    <3> QED
      BY <3>1, <3>2 DEF Handled
  <2>2. outbox'[r].state = "published"
    BY <1>3 DEF MarkPublished, TypeOK, OutboxRow
  <2> QED
    BY <2>1, <2>2
<1>4. ASSUME NEW p \in Relays, MarkPublished(p), r # Current(p)
      PROVE  outbox'[r].state = outbox[r].state
  BY <1>4 DEF MarkPublished, TypeOK, OutboxRow
<1>5. ASSUME NEW p \in Relays, HandlerFails(p)
      PROVE  outbox'[r].state = outbox[r].state
  BY <1>5 DEF HandlerFails, TypeOK, OutboxRow
<1>6. ASSUME NEW e \in Rows, EmitEvent(e)
      PROVE  outbox'[r].state = outbox[r].state \/ (outbox[r].state = "absent" /\ outbox'[r].state = "unpublished")
  BY <1>6 DEF EmitEvent, TypeOK, OutboxRow
<1>7. CASE outbox' = outbox
  BY <1>2, <1>7
<1> QED
  BY <1>1, <1>2, <1>3, <1>4, <1>5, <1>6, <1>7 DEF Next, Advance, StartDrain, Fetch, Handle,
    Interrupt, vars

\* attempts is written from a stale read, yet never back to zero.
LEMMA NextVisible ==
  ASSUME DeliveryInv, [Next]_vars
  PROVE  FailureIsVisible'
<1> USE DEF DeliveryInv
<1> SUFFICES ASSUME NEW r \in Rows, failures'[r] > 0, MaxAttempts > 0
             PROVE  outbox'[r].attempts > 0
  BY DEF FailureIsVisible
<1>1. CASE failures'[r] = failures[r] /\ outbox'[r].attempts = outbox[r].attempts
  BY <1>1 DEF FailureIsVisible
<1>2. ASSUME NEW p \in Relays, HandlerFails(p) PROVE outbox'[r].attempts > 0
  <2>1. CASE r = Current(p)
    <3>1. outbox'[r].attempts = Capped(relays[p].seen[r] + 1)
      BY <1>2, <2>1 DEF HandlerFails, TypeOK, OutboxRow
    <3>2. relays[p].seen[r] \in Nat
      BY OutboxAssumption DEF TypeOK, RelayRow
    <3> QED
      BY <3>1, <3>2, OutboxAssumption DEF Capped
  <2> QED
    BY <1>1, <1>2, <2>1 DEF HandlerFails, TypeOK, OutboxRow
<1>3. ASSUME NEW p \in Relays, MarkPublished(p)
      PROVE  failures'[r] = failures[r] /\ outbox'[r].attempts = outbox[r].attempts
  BY <1>3 DEF MarkPublished, TypeOK, OutboxRow
<1>4. ASSUME NEW e \in Rows, EmitEvent(e)
      PROVE  failures'[r] = failures[r] /\ outbox'[r].attempts = outbox[r].attempts
  BY <1>4 DEF EmitEvent, TypeOK, OutboxRow
<1>5. CASE UNCHANGED <<failures, outbox>>
  BY <1>1, <1>5
<1> QED
  BY <1>1, <1>2, <1>3, <1>4, <1>5 DEF Next, Advance, StartDrain, Fetch, Handle, Interrupt, vars

\* The outbox starts empty with every relay stopped.
LEMMA InitDelivery ==
  ASSUME Init
  PROVE  DeliveryInv
<1>1. TypeOK
  BY RelayTypes, OutboxAssumption DEF Init, TypeOK, OutboxRow
<1>2. DrainsPlaced
  BY DEF Init, DrainsPlaced, DrainPlaced, Stopped
<1>3. PublishedIsHandled /\ EffectsOnce /\ FailureIsVisible
  BY OutboxAssumption DEF Init, PublishedIsHandled, EffectsOnce, FailureIsVisible
<1> QED
  BY <1>1, <1>2, <1>3 DEF DeliveryInv

\* Whatever number of relays drain the same tables, whatever fails and
\* whoever dies in between: a published row has had every handler, an effect
\* is on record at most once, a failure shows, and none of it is taken back
\* (OutboxRelay.drain with its ON CONFLICT DO NOTHING consumers).
THEOREM Delivery == Spec => DeliveryIsExact
<1>1. Init => DeliveryInv
  BY InitDelivery
<1>2. DeliveryInv /\ [Next]_vars => DeliveryInv'
  <2> SUFFICES ASSUME DeliveryInv, [Next]_vars
               PROVE  DeliveryInv'
    OBVIOUS
  <2>1. TypeOK' /\ DrainsPlaced' /\ FailureIsVisible'
    BY NextTypes, NextDrains, NextVisible
  <2>2. PublishedIsHandled'
    BY NextPublished DEF PublishedIsHandled
  <2>3. EffectsOnce'
    BY EffectsGrow DEF EffectsOnce
  <2> QED
    BY <2>1, <2>2, <2>3 DEF DeliveryInv
<1>3. DeliveryInv => TypeOK /\ PublishedIsHandled /\ EffectsOnce /\ FailureIsVisible
  BY DEF DeliveryInv
<1>4. DeliveryInv /\ [Next]_vars =>
        [\A r \in Rows :
           /\ outbox[r].state = "published" => outbox'[r].state = "published"
           /\ Handled(r) => Handled(r)']_vars
  BY NextPublished
<1> QED
  BY <1>1, <1>2, <1>3, <1>4, PTL DEF Spec, DeliveryIsExact, PublishedForGood

---------------------------------------------------------------------------

\* As long as nothing was disturbed there is one attempt at most, on a row still open and
\* leased, and what was delivered it is about to record.
AttemptAlone ==
  ~disturbed =>
    /\ \A v, w \in Workers : attempting[v] # "idle" /\ attempting[w] # "idle" => v = w
    /\ \A w \in Workers : attempting[w] # "idle" =>
         /\ StillOpen /\ notice.due = FALSE
         /\ delivered = IF attempting[w] = "accepted" THEN 1 ELSE 0
    /\ (\A w \in Workers : attempting[w] = "idle") => delivered = 0 \/ (delivered = 1 /\ notice.status = "sent")

\* What was sent stays sent unless a failure was recorded over it.
SentStays == ~overwritten => sentEvents = 0 \/ (sentEvents = 1 /\ notice.status = "sent")

\* Only a delivery that failed comes due.
DueFailed == notice.status # "failed" => notice.due = FALSE

NoticeInv == NoticeTypeOK /\ AttemptAlone /\ SentStays /\ DueFailed

Tries == {"idle", "sending", "accepted", "retryable", "permanent"}

\* What the type invariant and the bounds say of each variable.
LEMMA NoticeTypes ==
  ASSUME NoticeInv
  PROVE  /\ notice \in Notice /\ notice.attempts \in Nat
         /\ notice.due \in BOOLEAN
         /\ notice.read \in BOOLEAN
         /\ attempting \in [Workers -> Tries]
         /\ delivered \in 0 .. MaxSends /\ sentEvents \in Nat /\ MaxSends \in Nat
         /\ disturbed \in BOOLEAN /\ overwritten \in BOOLEAN
         /\ deaths \in 0 .. MaxDeaths /\ MaxDeaths \in Nat
<1>1. MaxSends \in Nat /\ MaxDeaths \in Nat
  BY NotificationsAssumption DEF MaxSends
<1>2. /\ notice \in Notice
      /\ attempting \in [Workers -> Tries]
      /\ delivered \in 0 .. MaxSends /\ sentEvents \in Nat
      /\ disturbed \in BOOLEAN /\ overwritten \in BOOLEAN
      /\ deaths \in 0 .. MaxDeaths
  BY DEF NoticeInv, NoticeTypeOK, Tries
<1>3. /\ notice.attempts \in Nat
      /\ notice.due \in BOOLEAN
      /\ notice.read \in BOOLEAN
  BY <1>2 DEF Notice
<1> QED
  BY <1>1, <1>2, <1>3

\* One worker goes on, and the others stay.
LEMMA OneWorker ==
  ASSUME NoticeInv, NEW w \in Workers, NEW what \in Tries, Doing(w, what)
  PROVE  /\ attempting' \in [Workers -> Tries]
         /\ attempting'[w] = what
         /\ \A v \in Workers : v # w => attempting'[v] = attempting[v]
  BY NoticeTypes DEF Doing

\* A row, in the words of its type.
LEMMA NoticeRows ==
  ASSUME NoticeInv
  PROVE  /\ \A s \in {"none", "pending", "suppressed", "sent", "failed", "dead_lettered"} :
              /\ [notice EXCEPT !.status = s] \in Notice
              /\ [notice EXCEPT !.status = s].status = s
              /\ [notice EXCEPT !.status = s].due = notice.due
              /\ [status |-> s, attempts |-> notice.attempts + 1, due |-> FALSE, read |-> notice.read] \in Notice
         /\ \A d \in BOOLEAN : /\ [notice EXCEPT !.due = d] \in Notice
                               /\ [notice EXCEPT !.due = d].status = notice.status
                               /\ [notice EXCEPT !.due = d].due = d
         /\ [notice EXCEPT !.read = TRUE] \in Notice
         /\ [notice EXCEPT !.read = TRUE].status = notice.status
         /\ [notice EXCEPT !.read = TRUE].due = notice.due
<1>1. /\ notice \in Notice /\ notice.attempts \in Nat
      /\ notice.due \in BOOLEAN
      /\ notice.read \in BOOLEAN
  BY NoticeTypes
<1>2. \A s \in {"none", "pending", "suppressed", "sent", "failed", "dead_lettered"} :
        /\ [notice EXCEPT !.status = s] \in Notice
        /\ [notice EXCEPT !.status = s].status = s
        /\ [notice EXCEPT !.status = s].due = notice.due
  BY <1>1 DEF Notice
<1>3. \A s \in {"none", "pending", "suppressed", "sent", "failed", "dead_lettered"} :
        [status |-> s, attempts |-> notice.attempts + 1, due |-> FALSE, read |-> notice.read] \in Notice
  BY <1>1 DEF Notice
<1>4. \A d \in BOOLEAN : /\ [notice EXCEPT !.due = d] \in Notice
                         /\ [notice EXCEPT !.due = d].status = notice.status
                         /\ [notice EXCEPT !.due = d].due = d
  BY <1>1 DEF Notice
<1>5. /\ [notice EXCEPT !.read = TRUE] \in Notice
      /\ [notice EXCEPT !.read = TRUE].status = notice.status
      /\ [notice EXCEPT !.read = TRUE].due = notice.due
  BY <1>1 DEF Notice
<1> QED
  BY <1>2, <1>3, <1>4, <1>5

\* The reservation is the first attempt's.
LEMMA ReserveSteps ==
  ASSUME NoticeInv, NEW w \in Workers, Reserve(w)
  PROVE  NoticeInv'
<1>1. /\ notice.status = "none" /\ attempting[w] = "idle" /\ notice.due = FALSE
      /\ UNCHANGED <<delivered, sentEvents, disturbed, overwritten, deaths>>
  BY DEF Reserve, Reserves, NoticeInv, DueFailed
<1>2. ~disturbed => (\A v \in Workers : attempting[v] = "idle") /\ delivered = 0
  BY <1>1 DEF NoticeInv, AttemptAlone, StillOpen
<1>3. ~overwritten => sentEvents = 0
  BY <1>1 DEF NoticeInv, SentStays
<1>4. SentStays'
  BY <1>1, <1>3 DEF SentStays
<1>5. CASE notice' = [notice EXCEPT !.status = "pending"] /\ Doing(w, "sending")
  <2>1. /\ attempting' \in [Workers -> Tries] /\ attempting'[w] = "sending"
        /\ \A v \in Workers : v # w => attempting'[v] = attempting[v]
    BY <1>5, OneWorker DEF Tries
  <2>2. notice' \in Notice /\ notice'.status = "pending" /\ notice'.due = FALSE
    BY <1>1, <1>5, NoticeRows
  <2>3. NoticeTypeOK'
    BY <1>1, <2>1, <2>2, NoticeTypes DEF NoticeTypeOK, Tries
  <2>4. AttemptAlone'
    BY <1>1, <1>2, <2>1, <2>2 DEF AttemptAlone, StillOpen
  <2> QED
    BY <1>4, <2>2, <2>3, <2>4 DEF NoticeInv, DueFailed
<1>6. CASE notice' = [notice EXCEPT !.status = "suppressed"] /\ UNCHANGED attempting
  <2>1. notice' \in Notice /\ notice'.status = "suppressed" /\ notice'.due = FALSE
    BY <1>1, <1>6, NoticeRows
  <2>2. NoticeTypeOK'
    BY <1>1, <1>6, <2>1, NoticeTypes DEF NoticeTypeOK, Tries
  <2>3. AttemptAlone'
    BY <1>1, <1>2, <1>6 DEF AttemptAlone, StillOpen
  <2> QED
    BY <1>4, <2>1, <2>2, <2>3 DEF NoticeInv, DueFailed
<1> QED
  BY <1>5, <1>6 DEF Reserve

\* The channel answers or loses its answer.
LEMMA SendSteps ==
  ASSUME NoticeInv, NEW w \in Workers, Send(w)
  PROVE  NoticeInv'
<1>1. attempting[w] = "sending" /\ UNCHANGED <<notice, sentEvents, overwritten, deaths>>
  BY DEF Send
<1>2. ~disturbed => /\ \A v \in Workers : v # w => attempting[v] = "idle"
                    /\ StillOpen /\ notice.due = FALSE /\ delivered = 0
  BY <1>1 DEF NoticeInv, AttemptAlone
<1>3. PICK what \in Tries : /\ Doing(w, what) /\ what # "idle"
                            /\ \/ what = "accepted" /\ delivered' = delivered + 1 /\ UNCHANGED disturbed
                               \/ delivered' = delivered + 1 /\ disturbed' = TRUE
                               \/ what # "accepted" /\ UNCHANGED <<delivered, disturbed>>
                            /\ delivered' = delivered \/ delivered < MaxSends
  BY DEF Send, Tries
<1>4. /\ attempting' \in [Workers -> Tries] /\ attempting'[w] = what
      /\ \A v \in Workers : v # w => attempting'[v] = attempting[v]
  BY <1>3, OneWorker
<1>5. delivered' \in 0 .. MaxSends /\ disturbed' \in BOOLEAN
  <2>1. delivered' \in 0 .. MaxSends
    BY <1>3, NoticeTypes
  <2>2. disturbed' = TRUE \/ disturbed' = disturbed
    BY <1>3
  <2> QED
    BY <2>1, <2>2, NoticeTypes
<1>6. NoticeTypeOK'
  BY <1>1, <1>4, <1>5, NoticeTypes DEF NoticeTypeOK, Tries
<1>7. AttemptAlone'
  BY <1>1, <1>2, <1>3, <1>4 DEF AttemptAlone, StillOpen
<1>8. SentStays' /\ DueFailed'
  BY <1>1 DEF NoticeInv, SentStays, DueFailed
<1> QED
  BY <1>6, <1>7, <1>8 DEF NoticeInv

\* A delivery is recorded, if the row is still open.
LEMMA RecordSentSteps ==
  ASSUME NoticeInv, NEW w \in Workers, RecordSent(w)
  PROVE  NoticeInv'
<1>1. attempting[w] = "accepted" /\ Doing(w, "idle") /\ UNCHANGED <<delivered, disturbed, overwritten, deaths>>
  BY DEF RecordSent
<1>2. ~disturbed => /\ \A v \in Workers : v # w => attempting[v] = "idle"
                    /\ StillOpen /\ delivered = 1
  BY <1>1 DEF NoticeInv, AttemptAlone
<1>3. /\ attempting' \in [Workers -> Tries] /\ attempting'[w] = "idle"
      /\ \A v \in Workers : v # w => attempting'[v] = attempting[v]
  BY <1>1, OneWorker DEF Tries
<1>4. CASE StillOpen
  <2>1. /\ notice' = [status |-> "sent", attempts |-> notice.attempts + 1, due |-> FALSE, read |-> notice.read]
        /\ sentEvents' = sentEvents + 1
    BY <1>4 DEF RecordSent
  <2>2. notice' \in Notice /\ notice'.status = "sent" /\ notice'.due = FALSE
    BY <2>1, NoticeRows
  <2>3. sentEvents' \in Nat /\ (~overwritten => sentEvents' = 1)
    BY <1>4, <2>1, NoticeTypes DEF NoticeInv, SentStays, StillOpen
  <2>4. NoticeTypeOK'
    BY <1>1, <1>3, <2>2, <2>3, NoticeTypes DEF NoticeTypeOK, Tries
  <2>5. AttemptAlone'
    BY <1>1, <1>2, <1>3, <2>2 DEF AttemptAlone
  <2> QED
    BY <1>1, <2>2, <2>3, <2>4, <2>5 DEF NoticeInv, SentStays, DueFailed
<1>5. CASE ~StillOpen
  <2>1. UNCHANGED <<notice, sentEvents>> /\ disturbed /\ disturbed'
    BY <1>1, <1>2, <1>5 DEF RecordSent
  <2>2. NoticeTypeOK'
    BY <1>1, <1>3, <2>1, NoticeTypes DEF NoticeTypeOK, Tries
  <2> QED
    BY <1>1, <2>1, <2>2 DEF NoticeInv, SentStays, DueFailed, AttemptAlone
<1> QED
  BY <1>4, <1>5

\* A failure is recorded, over whatever the row has become.
LEMMA RecordFailureSteps ==
  ASSUME NoticeInv, NEW w \in Workers, RecordFailure(w)
  PROVE  NoticeInv'
<1>1. /\ attempting[w] \in {"retryable", "permanent"} /\ Doing(w, "idle")
      /\ overwritten' = (overwritten \/ notice.status = "sent")
      /\ UNCHANGED <<delivered, sentEvents, disturbed, deaths>>
  BY DEF RecordFailure
<1>2. PICK s \in {"failed", "dead_lettered"} :
        notice' = [status |-> s, attempts |-> notice.attempts + 1, due |-> FALSE, read |-> notice.read]
  BY DEF RecordFailure
<1>3. notice' \in Notice /\ notice'.status = s /\ notice'.due = FALSE
  BY <1>2, NoticeRows
<1>4. ~disturbed => /\ \A v \in Workers : v # w => attempting[v] = "idle"
                    /\ delivered = 0
  BY <1>1 DEF NoticeInv, AttemptAlone
<1>5. /\ attempting' \in [Workers -> Tries] /\ attempting'[w] = "idle"
      /\ \A v \in Workers : v # w => attempting'[v] = attempting[v]
  BY <1>1, OneWorker DEF Tries
<1>6. overwritten' \in BOOLEAN
  BY <1>1, NoticeTypes
<1>7. NoticeTypeOK'
  BY <1>1, <1>3, <1>5, <1>6, NoticeTypes DEF NoticeTypeOK, Tries
<1>8. AttemptAlone'
  BY <1>1, <1>4, <1>5 DEF AttemptAlone
<1>9. SentStays'
  BY <1>1 DEF NoticeInv, SentStays
<1> QED
  BY <1>3, <1>7, <1>8, <1>9 DEF NoticeInv, DueFailed

\* A row that has come due is nobody's, unless an attempt has outlived its claim.
LEMMA DueSteps ==
  ASSUME NoticeInv, ComesDue
  PROVE  NoticeInv'
<1>1. /\ notice.status = "failed" /\ notice' = [notice EXCEPT !.due = TRUE]
      /\ disturbed' = (disturbed \/ Attempts # {})
      /\ UNCHANGED <<attempting, delivered, sentEvents, overwritten, deaths>>
  BY DEF ComesDue
<1>2. notice' \in Notice /\ notice'.status = "failed"
  BY <1>1, NoticeRows
<1>3. ~disturbed' => ~disturbed /\ \A w \in Workers : attempting[w] = "idle"
  BY <1>1 DEF Attempts
<1>4. disturbed' \in BOOLEAN
  BY <1>1, NoticeTypes
<1>5. NoticeTypeOK'
  BY <1>1, <1>2, <1>4, NoticeTypes DEF NoticeTypeOK, Tries
<1>6. AttemptAlone'
  BY <1>1, <1>2, <1>3 DEF NoticeInv, AttemptAlone
<1>7. SentStays' /\ DueFailed'
  BY <1>1, <1>2 DEF NoticeInv, SentStays, DueFailed
<1> QED
  BY <1>5, <1>6, <1>7 DEF NoticeInv

\* A sweep leases the row.
LEMMA ClaimRetrySteps ==
  ASSUME NoticeInv, NEW w \in Workers, ClaimRetry(w)
  PROVE  NoticeInv'
<1>1. /\ attempting[w] = "idle" /\ notice.status = "failed" /\ notice.due /\ notice' = [notice EXCEPT !.due = FALSE]
      /\ Doing(w, "sending") /\ UNCHANGED <<delivered, sentEvents, disturbed, overwritten, deaths>>
  BY DEF ClaimRetry, ClaimsNotice, Leased
<1>2. notice' \in Notice /\ notice'.status = "failed" /\ notice'.due = FALSE
  BY <1>1, NoticeRows
<1>3. /\ attempting' \in [Workers -> Tries] /\ attempting'[w] = "sending"
      /\ \A v \in Workers : v # w => attempting'[v] = attempting[v]
  BY <1>1, OneWorker DEF Tries
<1>4. ~disturbed => (\A v \in Workers : attempting[v] = "idle") /\ delivered = 0
  BY <1>1 DEF NoticeInv, AttemptAlone
<1>5. NoticeTypeOK'
  BY <1>1, <1>2, <1>3, NoticeTypes DEF NoticeTypeOK, Tries
<1>6. AttemptAlone'
  BY <1>1, <1>2, <1>3, <1>4 DEF AttemptAlone, StillOpen
<1>7. SentStays' /\ DueFailed'
  BY <1>1, <1>2 DEF NoticeInv, SentStays, DueFailed
<1> QED
  BY <1>5, <1>6, <1>7 DEF NoticeInv

\* A worker dies: the case the invariant excuses.
LEMMA DeathSteps ==
  ASSUME NoticeInv, NEW w \in Workers, Die(w)
  PROVE  NoticeInv'
<1>1. /\ Doing(w, "idle") /\ disturbed' = TRUE /\ deaths' = deaths + 1 /\ deaths < MaxDeaths
      /\ UNCHANGED <<notice, delivered, sentEvents, overwritten>>
  BY DEF Die
<1>2. attempting' \in [Workers -> Tries]
  BY <1>1, OneWorker DEF Tries
<1>3. deaths' \in 0 .. MaxDeaths
  BY <1>1, NoticeTypes
<1>4. NoticeTypeOK'
  BY <1>1, <1>2, <1>3, NoticeTypes DEF NoticeTypeOK, Tries
<1> QED
  BY <1>1, <1>4 DEF NoticeInv, AttemptAlone, SentStays, DueFailed

\* The reader marks the row, whatever its status.
LEMMA ReadSteps ==
  ASSUME NoticeInv, MarkNoticeRead
  PROVE  NoticeInv'
<1>1. notice' = [notice EXCEPT !.read = TRUE]
      /\ UNCHANGED <<attempting, delivered, sentEvents, disturbed, overwritten, deaths>>
  BY DEF MarkNoticeRead
<1>2. notice' \in Notice /\ notice'.status = notice.status /\ notice'.due = notice.due
  BY <1>1, NoticeRows
<1>3. NoticeTypeOK'
  BY <1>1, <1>2, NoticeTypes DEF NoticeTypeOK, Tries
<1>4. AttemptAlone'
  BY <1>1, <1>2 DEF NoticeInv, AttemptAlone, StillOpen
<1> QED
  BY <1>1, <1>2, <1>3, <1>4 DEF NoticeInv, SentStays, DueFailed

\* A recipient is notified once (NotifiedOnce, SentEventOnce), for any number of
\* handlers, sweeps and retries, however often the event is redelivered: the reservation is made once
\* (notify) and a retry is leased to one sweep at a time (retryDue).
THEOREM NotifiesOnce == NoticeSpec => [](NoticeTypeOK /\ NotifiedOnce /\ SentEventOnce)
<1>1. NoticeInit => NoticeInv
  <2> SUFFICES ASSUME NoticeInit PROVE NoticeInv
    OBVIOUS
  <2>1. /\ notice = NoNotice /\ attempting = [w \in Workers |-> "idle"]
        /\ delivered = 0 /\ sentEvents = 0 /\ disturbed = FALSE /\ overwritten = FALSE /\ deaths = 0
    BY DEF NoticeInit
  <2>2. notice \in Notice /\ notice.due = FALSE
    BY <2>1 DEF NoNotice, Notice
  <2>3. 0 \in 0 .. MaxSends /\ 0 \in 0 .. MaxDeaths
    BY NotificationsAssumption DEF MaxSends
  <2>4. NoticeTypeOK
    BY <2>1, <2>2, <2>3 DEF NoticeTypeOK
  <2> QED
    BY <2>1, <2>2, <2>4 DEF NoticeInv, AttemptAlone, SentStays, DueFailed
<1>2. ASSUME NoticeInv, NoticeNext PROVE NoticeInv'
  <2>1. Requesters \subseteq Workers
    BY DEF Workers
  <2> QED
    BY <1>2, <2>1, ReserveSteps, SendSteps, RecordSentSteps, RecordFailureSteps, DueSteps, ClaimRetrySteps,
       DeathSteps, ReadSteps DEF NoticeNext
<1>3. NoticeInv /\ [NoticeNext]_noticeVars => NoticeInv'
  <2>1. ASSUME NoticeInv, UNCHANGED noticeVars PROVE NoticeInv'
    BY <2>1 DEF noticeVars, NoticeInv, NoticeTypeOK, AttemptAlone, StillOpen, SentStays, DueFailed
  <2> QED
    BY <1>2, <2>1
<1>4. NoticeInv => NoticeTypeOK /\ NotifiedOnce /\ SentEventOnce
  BY DEF NoticeInv, AttemptAlone, SentStays, NotifiedOnce, SentEventOnce
<1> QED
  BY <1>1, <1>3, <1>4, PTL DEF NoticeSpec

---------------------------------------------------------------------------

\* The gateway has carried out a refund that succeeded, and no other unless its row is still open.
RefundTells(b) ==
  /\ restitution[b] = "none" => returned[b] = 0
  /\ restitution[b] = "pending" => returned[b] \in {0, 1}
  /\ restitution[b] = "succeeded" => returned[b] = 1
  /\ restitution[b] \in {"failed", "manual_required"} => returned[b] = 0
RefundsTell == \A b \in Windows : RefundTells(b)

\* What a run in the middle of a refund knows of it.
Sends(q, b) == q.on = {b} /\ q.at \in {"sending", "completing"}
KnowsRefund(q) ==
  \A b \in Windows : q.on = {b} =>
    /\ q.at = "sending" => restitution[b] = "pending" /\ returned[b] = 0
    /\ q.at = "completing" =>
         /\ restitution[b] = "pending" /\ q.answer \in {"succeeded", "failed", "manual_required"}
         /\ returned[b] = IF q.answer = "succeeded" THEN 1 ELSE 0
    /\ q.at = "recording" => restitution[b] # "none" /\ (q.answer # "pending" => restitution[b] = q.answer)
RunsKnow == \A e \in Evaluators : KnowsRefund(evaluators[e])

\* The refund's key is one run's to send.
SenderAlone ==
  \A e, f \in Evaluators, b \in Windows : Sends(evaluators[e], b) /\ Sends(evaluators[f], b) => e = f

NoShowInv == NoShowTypeOK /\ RefundsTell /\ RunsKnow /\ SenderAlone /\ ExecutedIsReturned

Restitutions == {"none", "pending", "succeeded", "failed", "manual_required"}

\* What the type invariant says of each variable, and what is known of a run's refund.
LEMMA NoShowTypes ==
  ASSUME NoShowInv
  PROVE  /\ evaluators \in [Evaluators -> Evaluator]
         /\ \A e \in Evaluators : evaluators[e] \in Evaluator /\ KnowsRefund(evaluators[e])
         /\ verdict \in [Windows -> Verdict] /\ \A b \in Windows : verdict[b] \in Verdict
         /\ restitution \in [Windows -> Restitutions] /\ returned \in [Windows -> Nat]
         /\ declaration \in [Windows -> {"none", "window_open", "due", "evaluated"}]
         /\ abandoned \subseteq Windows /\ windowFaults \in 0 .. MaxWindowFaults /\ MaxWindowFaults \in Nat
<1>1. /\ evaluators \in [Evaluators -> Evaluator]
      /\ verdict \in [Windows -> Verdict]
      /\ restitution \in [Windows -> Restitutions] /\ returned \in [Windows -> Nat]
      /\ declaration \in [Windows -> {"none", "window_open", "due", "evaluated"}]
      /\ abandoned \subseteq Windows /\ windowFaults \in 0 .. MaxWindowFaults /\ MaxWindowFaults \in Nat
  BY NoShowAssumption DEF NoShowInv, NoShowTypeOK, Restitutions
<1>2. \A e \in Evaluators : KnowsRefund(evaluators[e])
  BY DEF NoShowInv, RunsKnow
<1> QED
  BY <1>1, <1>2

\* A stage is a run's record, with the fields it was made of.
LEMMA Stages ==
  \A at \in {"idle", "deciding", "executing", "sending", "completing", "recording"}, batch \in SUBSET Windows,
     on \in SUBSET Windows, answer \in {"none", "pending", "executed", "succeeded", "failed", "manual_required"} :
    /\ Stage(at, batch, on, answer) \in Evaluator
    /\ Stage(at, batch, on, answer).at = at /\ Stage(at, batch, on, answer).on = on
    /\ Stage(at, batch, on, answer).answer = answer
  BY DEF Stage, Evaluator

\* One run goes on, and the refund of one window with it.
LEMMA EvaluatorMoves ==
  ASSUME NoShowInv, NEW e \in Evaluators, NEW b, NEW q \in Evaluator, q.on \in {{}, {b}},
         evaluators' = [evaluators EXCEPT ![e] = q],
         restitution' \in [Windows -> Restitutions], returned' \in [Windows -> Nat],
         \A c \in Windows : c # b => restitution'[c] = restitution[c] /\ returned'[c] = returned[c],
         restitution[b] # "none" => restitution'[b] # "none",
         restitution[b] \notin {"none", "pending"} => restitution'[b] = restitution[b],
         \A f \in Evaluators : f # e /\ Sends(evaluators[f], b) =>
           ~Sends(q, b) /\ restitution'[b] = restitution[b] /\ returned'[b] = returned[b],
         b \in Windows => RefundTells(b)', KnowsRefund(q)',
         verdict' \in [Windows -> Verdict], ExecutedIsReturned',
         declaration' \in [Windows -> {"none", "window_open", "due", "evaluated"}],
         abandoned' \subseteq Windows, windowFaults' \in 0 .. MaxWindowFaults
  PROVE  NoShowInv'
<1>1. /\ evaluators' \in [Evaluators -> Evaluator] /\ evaluators'[e] = q
      /\ \A f \in Evaluators : f # e => evaluators'[f] = evaluators[f]
  BY NoShowTypes
<1>2. NoShowTypeOK'
  <2>1. \A f \in Evaluators : Cardinality(evaluators[f].on) <= 1
    BY DEF NoShowInv, NoShowTypeOK
  <2>2. Cardinality(q.on) <= 1
    <3>1. Cardinality({}) = 0 /\ Cardinality({b}) = 1
      BY FS_EmptySet, FS_Singleton
    <3>2. Cardinality(q.on) = 0 \/ Cardinality(q.on) = 1
      BY <3>1
    <3> QED
      BY <3>2
  <2>3. \A f \in Evaluators : Cardinality(evaluators'[f].on) <= 1
    BY <1>1, <2>1, <2>2
  <2> QED
    BY <1>1, <2>3 DEF NoShowTypeOK, Restitutions
<1>3. RefundsTell'
  BY DEF NoShowInv, RefundsTell, RefundTells
<1>4. RunsKnow'
  <2>1. ASSUME NEW f \in Evaluators, NEW d, d = evaluators'[f] PROVE KnowsRefund(d)'
    <3>1. CASE f = e
      <4>1. d = q
        BY <1>1, <2>1, <3>1
      <4> QED
        BY <4>1
    <3>2. CASE f # e
      <4>1. d = evaluators[f] /\ KnowsRefund(d) /\ d \in Evaluator
        BY <1>1, <2>1, <3>2, NoShowTypes
      <4>2. Sends(d, b) => restitution'[b] = restitution[b] /\ returned'[b] = returned[b]
        BY <3>2, <4>1
      <4> QED
        BY <4>1, <4>2 DEF KnowsRefund, Sends
    <3> QED
      BY <3>1, <3>2
  <2> QED
    BY <2>1 DEF RunsKnow
<1>5. SenderAlone'
  <2>1. ASSUME NEW f \in Evaluators, NEW g \in Evaluators, NEW c \in Windows,
               Sends(evaluators'[f], c), Sends(evaluators'[g], c), f # g
        PROVE  FALSE
    <3>1. f = e \/ g = e
      BY <1>1, <2>1 DEF NoShowInv, SenderAlone
    <3>2. PICK h \in Evaluators : h # e /\ Sends(evaluators[h], c) /\ Sends(q, c)
      BY <1>1, <2>1, <3>1
    <3>3. c = b
      BY <3>2 DEF Sends
    <3> QED
      BY <3>2, <3>3
  <2> QED
    BY <2>1 DEF SenderAlone, Sends
<1> QED
  BY <1>2, <1>3, <1>4, <1>5 DEF NoShowInv

\* A step of a run that leaves the refunds alone.
LEMMA RunMoves ==
  ASSUME NoShowInv, NEW e \in Evaluators, NEW b, NEW q \in Evaluator, q.on \in {{}, {b}},
         q.at \in {"idle", "deciding", "executing", "recording"},
         q.at = "recording" /\ q.on = {b} =>
           restitution[b] # "none" /\ (q.answer # "pending" => restitution[b] = q.answer),
         evaluators' = [evaluators EXCEPT ![e] = q], UNCHANGED <<restitution, returned>>,
         verdict' \in [Windows -> Verdict], ExecutedIsReturned',
         declaration' \in [Windows -> {"none", "window_open", "due", "evaluated"}],
         abandoned' \subseteq Windows, windowFaults' \in 0 .. MaxWindowFaults
  PROVE  NoShowInv'
<1>1. KnowsRefund(q)'
  <2>1. \A c \in Windows : q.on = {c} => c = b
    OBVIOUS
  <2> QED
    BY <2>1 DEF KnowsRefund
<1>2. b \in Windows => RefundTells(b)'
  BY DEF NoShowInv, RefundsTell, RefundTells
<1>3. ~Sends(q, b)
  BY DEF Sends
<1>4. restitution' \in [Windows -> Restitutions] /\ returned' \in [Windows -> Nat]
  BY NoShowTypes
<1> QED
  BY <1>1, <1>2, <1>3, <1>4, EvaluatorMoves

\* Time and the bookings.
LEMMA WindowSteps ==
  ASSUME NoShowInv, NEW b \in Windows, DeclareNoShow(b) \/ WindowEnds(b)
  PROVE  NoShowInv'
<1>1. /\ UNCHANGED <<verdict, restitution, returned, evaluators, abandoned, windowFaults>>
      /\ declaration' \in [Windows -> {"none", "window_open", "due", "evaluated"}]
  BY NoShowTypes DEF DeclareNoShow, WindowEnds
<1> QED
  BY <1>1 DEF NoShowInv, NoShowTypeOK, RefundsTell, RefundTells, RunsKnow, KnowsRefund, SenderAlone, Sends, ExecutedIsReturned

\* A scan, and a run that is cut off or stops at a stubborn window.
LEMMA RunEndsSteps ==
  ASSUME NoShowInv, NEW e \in Evaluators,
         ScanWindows(e) \/ EvaluationFails(e) \/ \E b \in Windows : WindowThrows(e, b)
  PROVE  NoShowInv'
<1> SUFFICES ASSUME NEW q, q = IF ScanWindows(e) THEN Stage("deciding", OldestDue, {}, "none") ELSE NotEvaluating
             PROVE  NoShowInv'
  OBVIOUS
<1>1. evaluators' = [evaluators EXCEPT ![e] = q] /\ UNCHANGED <<restitution, returned, verdict, declaration>>
  BY DEF ScanWindows, EvaluationFails, WindowThrows, Evaluates, StateAfterRollback
<1>2. q \in Evaluator /\ q.on = {} /\ q.at \in {"idle", "deciding"}
  <2>1. OldestDue \in SUBSET Windows /\ {} \in SUBSET Windows
    BY DEF OldestDue, Due
  <2> QED
    BY <2>1, Stages DEF NotEvaluating
<1>3. abandoned' \subseteq Windows /\ windowFaults' \in 0 .. MaxWindowFaults
  <2>1. CASE ScanWindows(e)
    BY <2>1, NoShowTypes DEF ScanWindows
  <2>2. CASE EvaluationFails(e)
    <3>1. evaluators[e].on \subseteq Windows
      BY NoShowTypes DEF Evaluator
    <3> QED
      BY <2>2, <3>1, NoShowTypes DEF EvaluationFails
  <2>3. CASE \E b \in Windows : WindowThrows(e, b)
    BY <2>3, NoShowTypes DEF WindowThrows
  <2> QED
    BY <2>1, <2>2, <2>3
<1>4. verdict' \in [Windows -> Verdict] /\ declaration' \in [Windows -> {"none", "window_open", "due", "evaluated"}]
  BY <1>1, NoShowTypes
<1>5. ExecutedIsReturned'
  BY <1>1 DEF NoShowInv, ExecutedIsReturned
<1> QED
  BY <1>1, <1>2, <1>3, <1>4, <1>5, RunMoves

\* The decision, this run's or another's.
LEMMA DecideSteps ==
  ASSUME NoShowInv, NEW e \in Evaluators, NEW b \in Windows, DecideWindow(e, b)
  PROVE  NoShowInv'
<1>1. UNCHANGED <<restitution, returned, abandoned, windowFaults>>
  BY DEF DecideWindow
<1>2. evaluators[e].batch \in SUBSET Windows /\ {b} \in SUBSET Windows
  BY NoShowTypes DEF Evaluator
<1>3. abandoned' \subseteq Windows /\ windowFaults' \in 0 .. MaxWindowFaults
  BY <1>1, NoShowTypes
<1>4. ASSUME NEW owed \in BOOLEAN, NEW status \in {"pending", "executed"}, owed \/ status = "executed",
             owed => status = "pending",
             verdict' = [verdict EXCEPT ![b] = [status |-> status, owed |-> owed]],
             Evaluates(e, Stage("executing", evaluators[e].batch, {b}, status)),
             declaration' = [declaration EXCEPT ![b] = "evaluated"]
      PROVE  NoShowInv'
  <2> SUFFICES ASSUME NEW q, q = Stage("executing", evaluators[e].batch, {b}, status) PROVE NoShowInv'
    OBVIOUS
  <2>1. q \in Evaluator /\ q.on = {b} /\ q.at = "executing"
    BY <1>2, <1>4, Stages
  <2>2. evaluators' = [evaluators EXCEPT ![e] = q]
    BY <1>4 DEF Evaluates
  <2>3. verdict' \in [Windows -> Verdict]
    BY <1>4, NoShowTypes DEF Verdict
  <2>4. declaration' \in [Windows -> {"none", "window_open", "due", "evaluated"}]
    BY <1>4, NoShowTypes
  <2>5. verdict'[b] = [status |-> status, owed |-> owed] /\ \A c \in Windows : c # b => verdict'[c] = verdict[c]
    BY <1>4, NoShowTypes
  <2>6. ExecutedIsReturned'
    <3>1. ~(verdict'[b].status = "executed" /\ verdict'[b].owed)
      BY <1>4, <2>5
    <3> QED
      BY <1>1, <2>5, <3>1 DEF NoShowInv, ExecutedIsReturned
  <2> QED
    BY <1>1, <1>3, <2>1, <2>2, <2>3, <2>4, <2>6, RunMoves
<1>5. ASSUME Evaluates(e, Stage("executing", evaluators[e].batch, {b}, verdict[b].status)), UNCHANGED <<declaration, verdict>>
      PROVE  NoShowInv'
  <2> SUFFICES ASSUME NEW q, q = Stage("executing", evaluators[e].batch, {b}, verdict[b].status) PROVE NoShowInv'
    OBVIOUS
  <2>1. verdict[b].status \in {"none", "pending", "executed", "manual_required", "failed"}
    BY NoShowTypes DEF Verdict
  <2>2. q \in Evaluator /\ q.on = {b} /\ q.at = "executing"
    BY <1>2, <2>1, Stages
  <2>3. evaluators' = [evaluators EXCEPT ![e] = q]
    BY <1>5 DEF Evaluates
  <2>4. verdict' \in [Windows -> Verdict] /\ declaration' \in [Windows -> {"none", "window_open", "due", "evaluated"}]
    BY <1>5, NoShowTypes
  <2>5. ExecutedIsReturned'
    BY <1>1, <1>5 DEF NoShowInv, ExecutedIsReturned
  <2> QED
    BY <1>1, <1>3, <2>2, <2>3, <2>4, <2>5, RunMoves
<1>6. CASE declaration[b] = "due"
  <2>1. CASE declaration' = [declaration EXCEPT ![b] = "evaluated"]
    <3>1. PICK owed \in BOOLEAN :
            /\ verdict' = [verdict EXCEPT ![b] = [status |-> IF owed THEN "pending" ELSE "executed", owed |-> owed]]
            /\ Evaluates(e, Stage("executing", evaluators[e].batch, {b}, IF owed THEN "pending" ELSE "executed"))
      BY <1>6, <2>1 DEF DecideWindow
    <3> SUFFICES ASSUME NEW status, status = IF owed THEN "pending" ELSE "executed" PROVE NoShowInv'
      OBVIOUS
    <3>2. status \in {"pending", "executed"} /\ (owed \/ status = "executed") /\ (owed => status = "pending")
      BY <3>1
    <3> QED
      BY <1>4, <2>1, <3>1, <3>2
  <2> QED
    BY <1>6, <2>1 DEF DecideWindow
<1>7. CASE declaration[b] # "due"
  BY <1>5, <1>7 DEF DecideWindow
<1> QED
  BY <1>6, <1>7

\* The next window of the batch.
LEMMA NextWindows ==
  ASSUME NoShowInv, NEW e \in Evaluators, NEW q, q = NextWindow(e)
  PROVE  q \in Evaluator /\ q.on = {} /\ q.at \in {"idle", "deciding"}
<1>1. evaluators[e].batch \ evaluators[e].on \in SUBSET Windows
  BY NoShowTypes DEF Evaluator
<1> QED
  BY <1>1, Stages DEF NextWindow, NotEvaluating

\* The refund's key is looked up and its row opened.
LEMMA OpenSteps ==
  ASSUME NoShowInv, NEW e \in Evaluators, NEW b \in Windows, OpenRestitution(e, b)
  PROVE  NoShowInv'
<1>1. /\ UNCHANGED <<declaration, verdict, returned, abandoned, windowFaults>>
      /\ evaluators[e].at = "executing"
  BY DEF OpenRestitution
<1>2. evaluators[e].batch \in SUBSET Windows /\ {b} \in SUBSET Windows
  BY NoShowTypes DEF Evaluator
<1>3. /\ abandoned' \subseteq Windows /\ windowFaults' \in 0 .. MaxWindowFaults
      /\ verdict' \in [Windows -> Verdict] /\ declaration' \in [Windows -> {"none", "window_open", "due", "evaluated"}]
      /\ returned' \in [Windows -> Nat]
  BY <1>1, NoShowTypes
<1>4. ExecutedIsReturned'
  BY <1>1 DEF NoShowInv, ExecutedIsReturned
<1>5. CASE evaluators[e].answer # "pending"
  <2> SUFFICES ASSUME NEW q, q = NextWindow(e) PROVE NoShowInv'
    OBVIOUS
  <2>1. evaluators' = [evaluators EXCEPT ![e] = q] /\ UNCHANGED restitution
    BY <1>5 DEF OpenRestitution, Evaluates
  <2>2. q \in Evaluator /\ q.on = {} /\ q.at \in {"idle", "deciding"}
    BY NextWindows
  <2> QED
    BY <1>1, <1>3, <1>4, <2>1, <2>2, RunMoves
<1>6. CASE evaluators[e].answer = "pending" /\ ~KeyFresh(b)
  <2> SUFFICES ASSUME NEW q, q = Stage("recording", evaluators[e].batch, {b}, restitution[b]) PROVE NoShowInv'
    OBVIOUS
  <2>1. evaluators' = [evaluators EXCEPT ![e] = q] /\ UNCHANGED restitution
    BY <1>6 DEF OpenRestitution, Evaluates
  <2>2. restitution[b] \in Restitutions /\ restitution[b] # "none"
    BY <1>6, NoShowTypes DEF KeyFresh
  <2>3. q \in Evaluator /\ q.on = {b} /\ q.at = "recording" /\ q.answer = restitution[b]
    BY <1>2, <2>2, Stages DEF Restitutions
  <2> QED
    BY <1>1, <1>3, <1>4, <2>1, <2>2, <2>3, RunMoves
<1>7. CASE evaluators[e].answer = "pending" /\ KeyFresh(b)
  <2> SUFFICES ASSUME NEW q, q = Stage("sending", evaluators[e].batch, {b}, "pending") PROVE NoShowInv'
    OBVIOUS
  <2>1. evaluators' = [evaluators EXCEPT ![e] = q] /\ restitution' = [restitution EXCEPT ![b] = "pending"]
        /\ restitution[b] = "none"
    BY <1>7 DEF OpenRestitution, Evaluates, KeyFresh
  <2>2. q \in Evaluator /\ q.on = {b} /\ q.at = "sending"
    BY <1>2, Stages
  <2>3. /\ restitution' \in [Windows -> Restitutions] /\ restitution'[b] = "pending"
        /\ \A c \in Windows : c # b => restitution'[c] = restitution[c]
    BY <2>1, NoShowTypes DEF Restitutions
  <2>4. returned[b] = 0
    BY <2>1 DEF NoShowInv, RefundsTell, RefundTells
  <2>5. \A f \in Evaluators : ~Sends(evaluators[f], b)
    BY <2>1, NoShowTypes DEF KnowsRefund, Sends
  <2>6. RefundTells(b)'
    BY <1>1, <2>3, <2>4 DEF RefundTells
  <2>7. KnowsRefund(q)'
    <3>1. \A c \in Windows : q.on = {c} => c = b
      BY <2>2
    <3> QED
      BY <1>1, <2>2, <2>3, <2>4, <3>1 DEF KnowsRefund
  <2> QED
    BY <1>1, <1>3, <1>4, <2>1, <2>2, <2>3, <2>5, <2>6, <2>7, EvaluatorMoves
<1> QED
  BY <1>5, <1>6, <1>7

\* The gateway carries the refund out, or does not.
LEMMA SendRestitutionSteps ==
  ASSUME NoShowInv, NEW e \in Evaluators, NEW b \in Windows, SendRestitution(e, b)
  PROVE  NoShowInv'
<1>1. /\ UNCHANGED <<declaration, verdict, restitution, abandoned, windowFaults>>
      /\ evaluators[e].at = "sending" /\ evaluators[e].on = {b}
  BY DEF SendRestitution, On
<1>2. PICK outcome \in {"succeeded", "failed", "manual_required"} :
        /\ returned' = IF outcome = "succeeded" THEN [returned EXCEPT ![b] = @ + 1] ELSE returned
        /\ Evaluates(e, Stage("completing", evaluators[e].batch, {b}, outcome))
  BY DEF SendRestitution
<1> SUFFICES ASSUME NEW q, q = Stage("completing", evaluators[e].batch, {b}, outcome) PROVE NoShowInv'
  OBVIOUS
<1>3. evaluators[e].batch \in SUBSET Windows /\ {b} \in SUBSET Windows
  BY NoShowTypes DEF Evaluator
<1>4. q \in Evaluator /\ q.on = {b} /\ q.at = "completing" /\ q.answer = outcome
  BY <1>3, Stages
<1>5. evaluators' = [evaluators EXCEPT ![e] = q]
  BY <1>2 DEF Evaluates
<1>6. restitution[b] = "pending" /\ returned[b] = 0
  BY <1>1, NoShowTypes DEF KnowsRefund
<1>7. \A f \in Evaluators : f # e => ~Sends(evaluators[f], b)
  BY <1>1 DEF NoShowInv, SenderAlone, Sends
<1>8. /\ returned' \in [Windows -> Nat]
      /\ returned'[b] = IF outcome = "succeeded" THEN 1 ELSE 0
      /\ \A c \in Windows : c # b => returned'[c] = returned[c]
  <2>1. returned \in [Windows -> Nat]
    BY NoShowTypes
  <2>2. CASE outcome = "succeeded"
    BY <1>2, <1>6, <2>1, <2>2
  <2>3. CASE outcome # "succeeded"
    BY <1>2, <1>6, <2>1, <2>3
  <2> QED
    BY <2>2, <2>3
<1>9. RefundTells(b)'
  BY <1>1, <1>6, <1>8 DEF RefundTells
<1>10. KnowsRefund(q)'
  <2>1. \A c \in Windows : q.on = {c} => c = b
    BY <1>4
  <2> QED
    BY <1>1, <1>4, <1>6, <1>8, <2>1 DEF KnowsRefund
<1>11. ExecutedIsReturned'
  BY <1>1, <1>6, <1>8 DEF NoShowInv, ExecutedIsReturned
<1>12. /\ abandoned' \subseteq Windows /\ windowFaults' \in 0 .. MaxWindowFaults
       /\ verdict' \in [Windows -> Verdict] /\ declaration' \in [Windows -> {"none", "window_open", "due", "evaluated"}]
       /\ restitution' \in [Windows -> Restitutions]
  BY <1>1, NoShowTypes
<1> QED
  BY <1>1, <1>4, <1>5, <1>7, <1>8, <1>9, <1>10, <1>11, <1>12, EvaluatorMoves

\* What the gateway answered is written to the row that is still pending.
LEMMA CompleteSteps ==
  ASSUME NoShowInv, NEW e \in Evaluators, NEW b \in Windows, CompleteRestitution(e, b)
  PROVE  NoShowInv'
<1> SUFFICES ASSUME NEW answer, answer = evaluators[e].answer,
                    NEW q, q = Stage("recording", evaluators[e].batch, {b}, answer)
             PROVE  NoShowInv'
  OBVIOUS
<1>1. /\ UNCHANGED <<declaration, verdict, returned, abandoned, windowFaults>>
      /\ evaluators[e].at = "completing" /\ evaluators[e].on = {b}
      /\ restitution' = [restitution EXCEPT ![b] = IF @ = "pending" THEN answer ELSE @]
      /\ evaluators' = [evaluators EXCEPT ![e] = q]
  BY DEF CompleteRestitution, On, Evaluates
<1>2. restitution[b] = "pending" /\ answer \in {"succeeded", "failed", "manual_required"}
      /\ returned[b] = IF answer = "succeeded" THEN 1 ELSE 0
  BY <1>1, NoShowTypes DEF KnowsRefund
<1>3. evaluators[e].batch \in SUBSET Windows /\ {b} \in SUBSET Windows
  BY NoShowTypes DEF Evaluator
<1>4. q \in Evaluator /\ q.on = {b} /\ q.at = "recording" /\ q.answer = answer
  BY <1>2, <1>3, Stages
<1>5. \A f \in Evaluators : f # e => ~Sends(evaluators[f], b)
  BY <1>1 DEF NoShowInv, SenderAlone, Sends
<1>6. /\ restitution' \in [Windows -> Restitutions] /\ restitution'[b] = answer
      /\ \A c \in Windows : c # b => restitution'[c] = restitution[c]
  <2>1. restitution \in [Windows -> Restitutions] /\ answer \in Restitutions
    BY <1>2, NoShowTypes DEF Restitutions
  <2> QED
    BY <1>1, <1>2, <2>1
<1>7. RefundTells(b)'
  BY <1>1, <1>2, <1>6 DEF RefundTells
<1>8. KnowsRefund(q)'
  <2>1. \A c \in Windows : q.on = {c} => c = b
    BY <1>4
  <2> QED
    BY <1>2, <1>4, <1>6, <2>1 DEF KnowsRefund
<1>9. ExecutedIsReturned'
  BY <1>1 DEF NoShowInv, ExecutedIsReturned
<1>10. /\ abandoned' \subseteq Windows /\ windowFaults' \in 0 .. MaxWindowFaults
       /\ verdict' \in [Windows -> Verdict] /\ declaration' \in [Windows -> {"none", "window_open", "due", "evaluated"}]
       /\ returned' \in [Windows -> Nat]
  BY <1>1, NoShowTypes
<1> QED
  BY <1>1, <1>2, <1>4, <1>5, <1>6, <1>7, <1>8, <1>9, <1>10, EvaluatorMoves

\* The decision is recorded as executed when the refund has been carried out, by whichever run.
LEMMA RecordSteps ==
  ASSUME NoShowInv, NEW e \in Evaluators, NEW b \in Windows, RecordRestitution(e, b)
  PROVE  NoShowInv'
<1> SUFFICES ASSUME NEW answer, answer = evaluators[e].answer, NEW q, q = NextWindow(e),
                    NEW status, status = RecordedAs(b, answer)
             PROVE  NoShowInv'
  OBVIOUS
<1>1. /\ UNCHANGED <<declaration, restitution, returned, abandoned, windowFaults>>
      /\ evaluators[e].at = "recording" /\ evaluators[e].on = {b}
      /\ verdict' = [verdict EXCEPT ![b] = [status |-> status, owed |-> @.owed]]
      /\ evaluators' = [evaluators EXCEPT ![e] = q]
  BY DEF RecordRestitution, On, Evaluates
<1>2. restitution[b] # "none" /\ (answer # "pending" => restitution[b] = answer)
  BY <1>1, NoShowTypes DEF KnowsRefund
<1>3. restitution[b] \in Restitutions /\ RefundTells(b)
  BY NoShowTypes DEF NoShowInv, RefundsTell
<1>4. /\ status \in {"none", "pending", "executed", "manual_required", "failed"}
      /\ status = "executed" => verdict[b].status = "executed" \/ restitution[b] = "succeeded"
  <2>1. verdict[b].status \in {"none", "pending", "executed", "manual_required", "failed"}
    BY NoShowTypes DEF Verdict
  <2> QED
    BY <1>2, <1>3, <2>1 DEF RecordedAs, Restitutions
<1>5. verdict \in [Windows -> Verdict] /\ verdict[b].owed \in BOOLEAN
  BY NoShowTypes DEF Verdict
<1>6. /\ verdict' \in [Windows -> Verdict]
      /\ verdict'[b] = [status |-> status, owed |-> verdict[b].owed]
      /\ \A c \in Windows : c # b => verdict'[c] = verdict[c]
  <2>1. [status |-> status, owed |-> verdict[b].owed] \in Verdict
    BY <1>4, <1>5 DEF Verdict
  <2> QED
    BY <1>1, <1>5, <2>1
<1>7. ExecutedIsReturned'
  <2>1. verdict'[b].status = "executed" /\ verdict'[b].owed => returned[b] = 1
    BY <1>3, <1>4, <1>6 DEF NoShowInv, ExecutedIsReturned, RefundTells
  <2> QED
    BY <1>1, <1>6, <2>1 DEF NoShowInv, ExecutedIsReturned
<1>8. q \in Evaluator /\ q.on = {} /\ q.at \in {"idle", "deciding"}
  BY NextWindows
<1>9. /\ abandoned' \subseteq Windows /\ windowFaults' \in 0 .. MaxWindowFaults
      /\ declaration' \in [Windows -> {"none", "window_open", "due", "evaluated"}]
  BY <1>1, NoShowTypes
<1> QED
  BY <1>1, <1>6, <1>7, <1>8, <1>9, RunMoves

\* A no-show's money is returned once (NoShowPaidOnce, ExecutedIsReturned), for any number of windows
\* and overlapping runs: the refund's key admits one, and a run that finds it taken records
\* what the one that opened it has done (decideNoShowWindow, executeDecision).
THEOREM NoShowsPayOnce == NoShowSpec => [](NoShowTypeOK /\ NoShowPaidOnce /\ ExecutedIsReturned)
<1>1. NoShowInit => NoShowInv
  <2> SUFFICES ASSUME NoShowInit PROVE NoShowInv
    OBVIOUS
  <2>1. /\ declaration = [b \in Windows |-> "none"]
        /\ verdict = [b \in Windows |-> NoVerdict]
        /\ restitution = [b \in Windows |-> "none"]
        /\ returned = [b \in Windows |-> 0]
        /\ evaluators = [e \in Evaluators |-> NotEvaluating]
        /\ abandoned = {} /\ windowFaults = 0
    BY DEF NoShowInit
  <2>2. NotEvaluating \in Evaluator /\ NotEvaluating.on = {} /\ NotEvaluating.at = "idle"
    BY Stages DEF NotEvaluating
  <2>3. NoVerdict \in Verdict /\ NoVerdict.status = "none"
    BY DEF NoVerdict, Verdict
  <2>4. Cardinality({}) <= 1
    BY FS_EmptySet
  <2>5. 0 \in 0 .. MaxWindowFaults
    BY NoShowAssumption
  <2>6. NoShowTypeOK
    BY <2>1, <2>2, <2>3, <2>4, <2>5 DEF NoShowTypeOK
  <2>7. RefundsTell
    BY <2>1 DEF RefundsTell, RefundTells
  <2>8. RunsKnow
    BY <2>1, <2>2 DEF RunsKnow, KnowsRefund
  <2>9. SenderAlone
    BY <2>1, <2>2 DEF SenderAlone, Sends
  <2>10. ExecutedIsReturned
    BY <2>1, <2>3 DEF ExecutedIsReturned
  <2> QED
    BY <2>6, <2>7, <2>8, <2>9, <2>10 DEF NoShowInv
<1>2. ASSUME NoShowInv, NoShowNext PROVE NoShowInv'
  <2>1. ASSUME NEW e \in Evaluators, EvaluatorStep(e) PROVE NoShowInv'
    <3>1. PICK b \in Windows : \/ WindowThrows(e, b)
                              \/ DecideWindow(e, b) \/ OpenRestitution(e, b) \/ SendRestitution(e, b)
                              \/ CompleteRestitution(e, b) \/ RecordRestitution(e, b)
      BY <2>1 DEF EvaluatorStep
    <3>2. CASE DecideWindow(e, b)
      BY <1>2, <3>2, DecideSteps
    <3>3. CASE OpenRestitution(e, b)
      BY <1>2, <3>3, OpenSteps
    <3>4. CASE SendRestitution(e, b)
      BY <1>2, <3>4, SendRestitutionSteps
    <3>5. CASE CompleteRestitution(e, b)
      BY <1>2, <3>5, CompleteSteps
    <3>6. CASE RecordRestitution(e, b)
      BY <1>2, <3>6, RecordSteps
    <3>7. CASE WindowThrows(e, b)
      BY <1>2, <3>7, RunEndsSteps
    <3> QED
      BY <3>1, <3>2, <3>3, <3>4, <3>5, <3>6, <3>7
  <2> QED
    BY <1>2, <2>1, WindowSteps, RunEndsSteps DEF NoShowNext
<1>3. NoShowInv /\ [NoShowNext]_noShowVars => NoShowInv'
  <2>1. ASSUME NoShowInv, UNCHANGED noShowVars PROVE NoShowInv'
    BY <2>1 DEF noShowVars, NoShowInv, NoShowTypeOK, RefundsTell, RefundTells, RunsKnow, KnowsRefund, SenderAlone,
                Sends, ExecutedIsReturned
  <2> QED
    BY <1>2, <2>1
<1>4. NoShowInv => NoShowTypeOK /\ NoShowPaidOnce /\ ExecutedIsReturned
  <2> SUFFICES ASSUME NoShowInv PROVE NoShowPaidOnce
    BY DEF NoShowInv
  <2>1. \A b \in Windows : restitution[b] \in Restitutions /\ RefundTells(b)
    BY NoShowTypes DEF NoShowInv, RefundsTell
  <2> QED
    BY <2>1 DEF NoShowPaidOnce, RefundTells, Restitutions
<1> QED
  BY <1>1, <1>3, <1>4, PTL DEF NoShowSpec
=============================================================================
