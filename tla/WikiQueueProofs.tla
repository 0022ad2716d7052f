--------------------------- MODULE WikiQueueProofs ---------------------------
(***************************************************************************)
(* What WikiQueue guarantees for any documents, pool, batch and slot       *)
(* sizes, and any number of operations, failures, crashes and restarts.    *)
(* The invariant is stated per batch (WorkerInv) and per row (RowInv): an  *)
(* action of one batch leaves the others alone (OthersKept), so each proof *)
(* below is about that batch and the rows it writes.  On top of it, WakeInv *)
(* says what keeps the queue moving: who attends to a row nobody waits for. *)
(***************************************************************************)
EXTENDS WikiQueue, FiniteSetTheorems, WellFoundedInduction, TLAPS

Trouble == faults + disruptions
DoneSteps == {"trim", "requeue"}
Early == {"idle", "snapshot", "lock", "stamp"}
NoOutcome == [d \in Docs |-> "none"]
WorkerRec == [step : Steps, kind : Kinds, slot : BOOLEAN,
              anchors : SUBSET Ids, ids : SUBSET Ids, out : [Docs -> Outcomes]]

Out(w, r) == worker[w].out[rows[r].doc]
Last(w, r) == \A q \in worker[w].ids : rows[q].doc = rows[r].doc => q <= r
\* the batch has released the slot of the row's document
Done(w, r) == \/ Out(w, r) = "skipped"
              \/ worker[w].step \in DoneSteps /\ Out(w, r) \in {"ok", "dropped"}
Failing(w, r) == Last(w, r) /\ Out(w, r) \in {"failed", "unapplied"}

\* A task id that is stable names one task, which waits or runs.
StableIds ==
    \A k \in {"capped", "recheck"} :
        /\ waiting[k] <= 1
        /\ \A w \in Workers : worker[w].step # "idle" /\ worker[w].kind = k =>
              /\ waiting[k] = 0
              /\ \A v \in Workers : worker[v].step # "idle" /\ worker[v].kind = k => v = w

WorkerInv(w) ==
    /\ worker[w].step \in Early => worker[w].ids = {}
    /\ worker[w].step \in Early \cup {"map"} => worker[w].out = NoOutcome
    \* what it holds is claimed, and not released beyond the failures so far
    /\ \A r \in worker[w].ids :
          /\ Queued(r) => rows[r].claim = "fresh"
          /\ Done(w, r) \/ rows[r].drains <= Trouble
    \* an ingest is done when its document's slot is released
    /\ \A r \in worker[w].ids : Last(w, r) =>
          /\ worker[w].step \in {"enter", "write"} \cup DoneSteps /\ rows[r].op = "ingest"
                => Out(w, r) \notin {"none", "seen"}
          /\ Done(w, r) => rows[r].drains >= 1
    /\ worker[w].step = "requeue" => \A r \in worker[w].ids : Queued(r) => Failing(w, r)

RowInv(r) ==
    /\ rows[r].op = "ingest" /\ rows[r].at \in {"settled", "dead"} => rows[r].drains >= 1
    /\ rows[r].drains <= 1 + Trouble
    /\ Queued(r) /\ (\A w \in Workers : r \notin worker[w].ids) => rows[r].drains <= Trouble

QueueInv ==
    /\ TypeOK /\ StableIds
    /\ \A w \in Workers : WorkerInv(w)
    /\ \A r \in Ids : RowInv(r)
    /\ RowHasOneWorker
    /\ DeletedQueueStaysEmpty

-----------------------------------------------------------------------------
\* Every set of rows has a last one: of the sets {y \in S : y > x}, one is
\* smallest.
LEMMA HasLast ==
  ASSUME NEW n \in Nat, NEW S \in SUBSET (1..n), S # {}
  PROVE  \E x \in S : \A y \in S : y <= x
<1> DEFINE Above(x) == {y \in S : y > x}
           T == {Above(x) : x \in S}
<1>1. IsFiniteSet(1..n)
  BY FS_Interval
<1>2. IsWellFoundedOn(StrictSubsetOrdering(1..n), SUBSET (1..n))
  BY <1>1, FS_StrictSubsetOrderingWellFounded, FS_FiniteSubsetsOfFinite
<1>3. T \subseteq SUBSET (1..n) /\ T # {}
  OBVIOUS
<1>4. PICK U \in T : \A V \in T : ~ (<<V, U>> \in StrictSubsetOrdering(1..n))
  <2> HIDE DEF T
  <2> QED BY <1>2, <1>3, WFMin
<1>5. PICK x \in S : U = Above(x)
  OBVIOUS
<1>6. ASSUME NEW y \in S, ~(y <= x)
      PROVE  FALSE
  <2>1. y > x /\ \A z \in S : z \in Nat
    BY <1>6
  <2>2. Above(y) \subseteq Above(x) /\ y \in Above(x) /\ y \notin Above(y)
    <3> HIDE DEF T
    <3>1. \A z \in S : z > y => z > x
      BY <2>1
    <3>2. ~(y > y)
      BY <2>1
    <3> QED BY <2>1, <3>1, <3>2
  <2>3. <<Above(y), U>> \in StrictSubsetOrdering(1..n)
    BY <2>2, <1>5 DEF StrictSubsetOrdering
  <2> QED BY <2>3, <1>4
<1> QED BY <1>6

\* LastRow is what its name says.
LEMMA LastRows ==
  ASSUME TypeOK, NEW w \in Workers
  PROVE  /\ \A d \in Batch(w) : /\ LastRow(w, d) \in worker[w].ids
                                /\ rows[LastRow(w, d)].doc = d /\ Last(w, LastRow(w, d))
         /\ \A r \in worker[w].ids : Last(w, r) => LastRow(w, rows[r].doc) = r
<1>1. Len(rows) \in Nat /\ worker[w].ids \subseteq 1..Len(rows)
  BY DEF TypeOK, Ids
<1>2. ASSUME NEW d \in Batch(w)
      PROVE  \E r \in worker[w].ids :
                rows[r].doc = d /\ \A q \in worker[w].ids : rows[q].doc = d => q <= r
  <2> DEFINE S == {r \in worker[w].ids : rows[r].doc = d}
  <2>1. S \in SUBSET (1..Len(rows)) /\ S # {}
    BY <1>1 DEF Batch, DocsOf
  <2> HIDE DEF S
  <2>2. \E x \in S : \A y \in S : y <= x
    BY <1>1, <2>1, HasLast
  <2> QED BY <2>2 DEF S
<1>3. \A d \in Batch(w) : /\ LastRow(w, d) \in worker[w].ids
                          /\ rows[LastRow(w, d)].doc = d /\ Last(w, LastRow(w, d))
  BY <1>2 DEF LastRow, Last
<1>4. ASSUME NEW r \in worker[w].ids, Last(w, r)
      PROVE  LastRow(w, rows[r].doc) = r
  <2>1. rows[r].doc \in Batch(w)
    BY DEF Batch, DocsOf
  <2>2. LastRow(w, rows[r].doc) <= r /\ r <= LastRow(w, rows[r].doc)
    BY <2>1, <1>3, <1>4 DEF Last
  <2> QED BY <2>1, <2>2, <1>1, <1>3
<1> QED BY <1>3, <1>4

\* A list of rows that is rewritten row by row is one of the same length.
LEMMA Rewritten ==
  ASSUME rows \in Seq(Row), NEW f, f = [r \in Ids |-> f[r]], \A r \in Ids : f[r] \in Row
  PROVE  f \in Seq(Row) /\ Len(f) = Len(rows) /\ DOMAIN f = Ids
<1>1. Ids = 1..Len(rows) /\ Len(rows) \in Nat
  BY DEF Ids
<1>2. f \in [1..Len(rows) -> Row]
  BY <1>1
<1> QED BY <1>1, <1>2

\* A batch that does not move keeps its invariant, as long as nobody writes
\* its rows except to take them out of the queue.
LEMMA OthersKept ==
  ASSUME TypeOK, NEW v \in Workers, WorkerInv(v), worker'[v] = worker[v],
         Trouble \in Nat, Trouble' \in Nat, Trouble <= Trouble',
         \A r \in worker[v].ids :
            /\ rows'[r].doc = rows[r].doc /\ rows'[r].op = rows[r].op
            /\ rows'[r].drains = rows[r].drains /\ rows[r].drains \in Nat
            /\ rows'[r].at = "queued" => rows[r].at = "queued" /\ rows'[r].claim = rows[r].claim
  PROVE  WorkerInv(v)'
<1>1. \A r \in worker[v].ids : /\ Out(v, r)' = Out(v, r) /\ Done(v, r)' = Done(v, r)
                               /\ Last(v, r)' = Last(v, r) /\ Failing(v, r)' = Failing(v, r)
  BY DEF Out, Done, Last, Failing
<1>2. NoOutcome' = NoOutcome
  BY DEF NoOutcome
<1> QED BY <1>1, <1>2 DEF WorkerInv, Queued

\* A row that stays where it is, or is dropped, keeps its bound: a batch lets
\* go of it only when something failed, which the bound allows for.
LEMMA RowKept ==
  ASSUME NEW r, RowInv(r), Trouble \in Nat, Trouble' \in Nat, Trouble <= Trouble',
         rows[r].drains \in Nat, rows'[r].drains = rows[r].drains,
         rows'[r].op = rows[r].op, rows'[r].at \in {rows[r].at, "dropped"},
         \/ Trouble < Trouble'
         \/ \A w \in Workers : r \in worker[w].ids => r \in worker'[w].ids
  PROVE  RowInv(r)'
<1>1. rows[r].drains <= 1 + Trouble'
  BY DEF RowInv
<1>2. rows'[r].op = "ingest" /\ rows'[r].at \in {"settled", "dead"} => rows[r].drains >= 1
  BY DEF RowInv
<1>3. rows'[r].at = "queued" /\ (\A w \in Workers : r \notin worker'[w].ids)
        => rows[r].drains <= Trouble'
  <2>1. CASE Trouble < Trouble'
    BY <2>1 DEF RowInv
  <2>2. CASE \A w \in Workers : r \in worker[w].ids => r \in worker'[w].ids
    BY <2>2 DEF RowInv, Queued
  <2> QED BY <2>1, <2>2
<1> QED BY <1>1, <1>2, <1>3 DEF RowInv, Queued

-----------------------------------------------------------------------------
LEMMA TypesUsed ==
  ASSUME QueueInv
  PROVE  /\ Len(rows) \in Nat /\ Ids = 1..Len(rows)
         /\ \A r \in Ids : rows[r] \in Row
         /\ \A w \in Workers : worker[w] \in WorkerRec
         /\ faults \in Nat /\ disruptions \in Nat /\ Trouble \in Nat
BY DEF QueueInv, TypeOK, Ids, WorkerRec, Trouble

LEMMA InitInv == Init => QueueInv
<1> SUFFICES ASSUME Init PROVE QueueInv
  OBVIOUS
<1>1. Ids = {} /\ rows \in Seq(Row) /\ Len(rows) = 0
  BY DEF Init, Ids
<1>2. \A w \in Workers : worker[w] = Idle
  BY DEF Init
<1>3. TypeOK
  <2>1. Idle \in [step : Steps, kind : Kinds, slot : BOOLEAN, anchors : SUBSET Ids,
                  ids : SUBSET Ids, out : [Docs -> Outcomes]]
    BY DEF Idle, Steps, Kinds, Outcomes
  <2>2. worker \in [Workers -> [step : Steps, kind : Kinds, slot : BOOLEAN, anchors : SUBSET Ids,
                                ids : SUBSET Ids, out : [Docs -> Outcomes]]]
    BY <2>1 DEF Init
  <2> QED BY <1>1, <2>2, QueueAssumption DEF Init, TypeOK, NoNet, Kinds
<1>4. StableIds
  BY <1>2 DEF StableIds, Init, Idle, Kinds
<1>5. \A w \in Workers : WorkerInv(w)
  BY <1>2 DEF WorkerInv, Idle, Early, NoOutcome
<1>6. RowHasOneWorker
  BY <1>2 DEF RowHasOneWorker, Idle
<1>7. DeletedQueueStaysEmpty
  BY <1>1 DEF DeletedQueueStaysEmpty, Pending
<1> QED BY <1>1, <1>3, <1>4, <1>5, <1>6, <1>7 DEF QueueInv

\* Clients append a row, or only a trigger, or nothing at all.
LEMMA EnqueueInv ==
  ASSUME QueueInv, NEW d \in Docs, NEW op \in Ops, Enqueue(d, op),
         deletion' \in [Docs -> {"no", "scrubbed", "cleaned", "done"}]
  PROVE  QueueInv'
<1>1. /\ Len(rows) \in Nat /\ Ids = 1..Len(rows)
      /\ \A r \in Ids : rows[r] \in Row
      /\ faults \in Nat /\ disruptions \in Nat /\ Trouble \in Nat
      /\ rows \in Seq(Row)
  BY TypesUsed DEF QueueInv, TypeOK
<1>2. /\ Trouble' \in Nat /\ Trouble <= Trouble' /\ {faults, disruptions}' \subseteq Nat
      /\ worker' = worker /\ kb' = kb
  BY <1>1 DEF Enqueue, Trouble, NoFault, counters
<1>3. /\ rows' \in Seq(Row) /\ Len(rows') <= MaxRows /\ Ids \subseteq Ids'
      /\ \A r \in Ids : rows'[r] = rows[r]
      /\ \A r \in Ids' \ Ids : /\ kb = "active" /\ rows'[r].at = "queued"
                               /\ rows'[r].drains = 0
  <2> DEFINE new == [doc |-> d, op |-> op, at |-> "queued", claim |-> "free",
                     fails |-> 0, drains |-> 0]
  <2>1. new \in Row
    BY QueueAssumption DEF Row
  <2>2. Len(rows) < MaxRows /\ MaxRows \in Nat
    BY QueueAssumption DEF Enqueue
  <2>3. CASE kb = "active"
    <3>1. rows' = Append(rows, new)
      BY <2>3 DEF Enqueue, Append1
    <3> HIDE DEF new
    <3>2. /\ rows' \in Seq(Row) /\ Len(rows') = Len(rows) + 1 /\ rows'[Len(rows) + 1] = new
          /\ \A r \in 1..Len(rows) : rows'[r] = rows[r]
      BY <1>1, <2>1, <3>1
    <3>3. Ids' = 1..Len(rows')
      BY <3>2 DEF Ids
    <3>4. Ids' \ Ids = {Len(rows) + 1}
      BY <3>2, <3>3, <1>1
    <3> QED BY <1>1, <2>2, <2>3, <3>2, <3>3, <3>4 DEF new
  <2>4. CASE kb # "active"
    BY <1>1, <2>2, <2>4 DEF Enqueue, Append1, Ids
  <2> QED BY <2>3, <2>4
<1>4. waiting' \in [Kinds -> Nat] /\ \A k \in {"capped", "recheck"} : waiting'[k] = waiting[k]
  BY DEF Enqueue, OneMore, NoFault, QueueInv, TypeOK, Kinds
<1>5. TypeOK'
  <2>1. worker' \in [Workers -> WorkerRec']
    BY <1>2, <1>3 DEF QueueInv, TypeOK, WorkerRec
  <2> QED BY <1>2, <1>3, <1>4, <2>1 DEF QueueInv, TypeOK, Enqueue, WorkerRec, Row
<1>6. StableIds'
  BY <1>2, <1>4 DEF QueueInv, StableIds
<1>7. \A w \in Workers : WorkerInv(w)'
  <2> SUFFICES ASSUME NEW w \in Workers PROVE WorkerInv(w)'
    OBVIOUS
  <2>1. worker[w].ids \subseteq Ids
    BY DEF QueueInv, TypeOK
  <2> QED BY <1>1, <1>2, <1>3, <2>1, OthersKept DEF QueueInv, Row
<1>8. \A r \in Ids' : RowInv(r)'
  <2>1. \A r \in Ids : RowInv(r)'
    BY <1>1, <1>2, <1>3, RowKept DEF QueueInv, Row
  <2>2. \A r \in Ids' \ Ids : RowInv(r)'
    BY <1>2, <1>3 DEF RowInv, Queued
  <2> QED BY <2>1, <2>2
<1>9. RowHasOneWorker'
  BY <1>2 DEF QueueInv, RowHasOneWorker
<1>10. DeletedQueueStaysEmpty'
  BY <1>2, <1>3 DEF QueueInv, DeletedQueueStaysEmpty, Pending, Queued
<1> QED BY <1>5, <1>6, <1>7, <1>8, <1>9, <1>10 DEF QueueInv

-----------------------------------------------------------------------------
LEMMA GoneRow ==
  ASSUME NEW r, rows[r] \in Row, NEW how \in {"settled", "dead", "dropped"}
  PROVE  /\ Gone(r, how) \in Row /\ Gone(r, how).at = how
         /\ Gone(r, how).doc = rows[r].doc /\ Gone(r, how).op = rows[r].op
         /\ Gone(r, how).drains = rows[r].drains
<1>1. 0 \in 0..MaxFailRetries
  BY QueueAssumption
<1> QED BY <1>1 DEF Gone, Row

\* What deleting rows by key, scope or id does to the list.
LEMMA RemovedRows ==
  ASSUME QueueInv, NEW R \in SUBSET Ids, rows' = Removed(R, "dropped")
  PROVE  /\ rows' \in Seq(Row) /\ Len(rows') = Len(rows) /\ Ids' = Ids
         /\ \A r \in Ids : /\ rows'[r].doc = rows[r].doc /\ rows'[r].op = rows[r].op
                           /\ rows'[r].drains = rows[r].drains
                           /\ rows'[r].at \in {rows[r].at, "dropped"}
                           /\ rows'[r].at = "queued" => r \notin R /\ rows'[r] = rows[r]
<1> DEFINE f == [r \in Ids |-> IF r \in R /\ Queued(r) THEN Gone(r, "dropped") ELSE rows[r]]
<1>1. \A r \in Ids : rows[r] \in Row
  BY TypesUsed
<1>2. ASSUME NEW r \in Ids
      PROVE  /\ f[r] \in Row
             /\ f[r].doc = rows[r].doc /\ f[r].op = rows[r].op /\ f[r].drains = rows[r].drains
             /\ f[r].at \in {rows[r].at, "dropped"}
             /\ f[r].at = "queued" => r \notin R /\ f[r] = rows[r]
  <2>1. CASE r \in R /\ Queued(r)
    <3>1. f[r] = Gone(r, "dropped")
      BY <2>1
    <3> HIDE DEF f
    <3> QED BY <1>1, <2>1, <3>1, GoneRow
  <2>2. CASE ~(r \in R /\ Queued(r))
    BY <1>1, <2>2 DEF Queued
  <2> QED BY <2>1, <2>2
<1>3. rows' = f /\ f = [r \in Ids |-> f[r]]
  BY DEF Removed
<1> HIDE DEF f
<1>4. f \in Seq(Row) /\ Len(f) = Len(rows) /\ DOMAIN f = Ids
  BY <1>2, <1>3, Rewritten DEF QueueInv, TypeOK
<1> QED BY <1>2, <1>3, <1>4 DEF Ids

\* Clients and time drop rows at most, and leave the batches alone.
LEMMA DroppedInv ==
  ASSUME QueueInv, TypeOK', StableIds', worker' = worker,
         Trouble' \in Nat, Trouble <= Trouble',
         NEW R \in SUBSET Ids, rows' = rows \/ rows' = Removed(R, "dropped"),
         kb' = "swept" => kb = "swept" \/ (R = Ids /\ rows' = Removed(R, "dropped"))
  PROVE  QueueInv'
<1>1. /\ Ids' = Ids
      /\ \A r \in Ids : /\ rows'[r].doc = rows[r].doc /\ rows'[r].op = rows[r].op
                        /\ rows'[r].drains = rows[r].drains
                        /\ rows'[r].at \in {rows[r].at, "dropped"}
                        /\ rows'[r].at = "queued" => rows'[r] = rows[r]
      /\ rows' = Removed(R, "dropped") => \A r \in R : rows'[r].at # "queued"
  BY RemovedRows DEF Ids
<1>2. Trouble \in Nat /\ \A r \in Ids : rows[r].drains \in Nat
  BY TypesUsed DEF Row
<1>3. \A w \in Workers : WorkerInv(w)'
  <2> SUFFICES ASSUME NEW w \in Workers PROVE WorkerInv(w)'
    OBVIOUS
  <2>1. worker[w].ids \subseteq Ids
    BY DEF QueueInv, TypeOK
  <2> QED BY <1>1, <1>2, <2>1, OthersKept DEF QueueInv
<1>4. \A r \in Ids' : RowInv(r)'
  BY <1>1, <1>2, RowKept DEF QueueInv
<1>5. RowHasOneWorker'
  BY DEF QueueInv, RowHasOneWorker
<1>6. DeletedQueueStaysEmpty'
  <2>1. CASE kb = "swept"
    BY <2>1, <1>1 DEF QueueInv, DeletedQueueStaysEmpty, Pending, Queued
  <2>2. CASE kb # "swept"
    BY <2>2, <1>1 DEF DeletedQueueStaysEmpty, Pending, Queued
  <2> QED BY <2>1, <2>2
<1> QED BY <1>3, <1>4, <1>5, <1>6 DEF QueueInv

\* One more trigger keeps the stable ids, if its own is not one or is free.
LEMMA OneMoreTrigger ==
  ASSUME QueueInv, NEW k \in Kinds, worker' = worker, waiting' \in {waiting, OneMore(k)},
         k = "plain" \/ ~Taken(k)
  PROVE  waiting' \in [Kinds -> Nat] /\ StableIds'
<1>1. waiting \in [Kinds -> Nat]
  BY DEF QueueInv, TypeOK
<1>2. waiting' \in [Kinds -> Nat]
  BY <1>1 DEF OneMore
<1>3. CASE waiting' = waiting
  BY <1>2, <1>3 DEF QueueInv, StableIds
<1>4. CASE waiting' = OneMore(k) /\ k = "plain"
  BY <1>1, <1>2, <1>4 DEF QueueInv, StableIds, OneMore
<1>5. CASE waiting' = OneMore(k) /\ ~Taken(k)
  BY <1>1, <1>2, <1>5 DEF QueueInv, StableIds, OneMore, Taken
<1> QED BY <1>3, <1>4, <1>5

LEMMA ClientInv ==
  ASSUME QueueInv, NEW d \in Docs, Client(d)
  PROVE  QueueInv'
<1>1. CASE EnqueueIngest(d) \/ EnqueueRetract(d)
  <2>1. deletion' \in [Docs -> {"no", "scrubbed", "cleaned", "done"}]
    BY <1>1 DEF EnqueueIngest, EnqueueRetract, QueueInv, TypeOK
  <2> QED BY <1>1, <2>1, EnqueueInv DEF EnqueueIngest, EnqueueRetract, Ops
<1>2. CASE ScrubForReparse(d) \/ MarkDeleted(d)
  <2> DEFINE R == {r \in Ids : rows[r].doc = d /\ rows[r].op = "ingest"}
  <2>1. /\ rows' = Removed(R, "dropped") /\ R \in SUBSET Ids
        /\ UNCHANGED <<page, kb, waiting, net, worker, deadSlots, faults, disruptions>>
        /\ deletion' \in [Docs -> {"no", "scrubbed", "cleaned", "done"}]
    BY <1>2 DEF ScrubForReparse, MarkDeleted, Scrubbed, pages, counters, QueueInv, TypeOK
  <2>2. TypeOK'
    <3>1. /\ rows' \in Seq(Row) /\ Len(rows') <= MaxRows /\ Ids' = Ids /\ Row' = Row
      BY <2>1, RemovedRows DEF QueueInv, TypeOK, Row
    <3> QED BY <2>1, <3>1 DEF QueueInv, TypeOK
  <2>3. StableIds'
    BY <2>1 DEF QueueInv, StableIds
  <2>4. Trouble' = Trouble /\ Trouble \in Nat
    BY <2>1, TypesUsed DEF Trouble
  <2> QED BY <2>1, <2>2, <2>3, <2>4, DroppedInv DEF QueueInv
<1>3. CASE CleanPages(d)
  <2>1. TypeOK' /\ StableIds' /\ Trouble' = Trouble /\ Trouble \in Nat
    BY <1>3, TypesUsed DEF CleanPages, QueueInv, TypeOK, StableIds, counters, Ids, Row, Trouble
  <2> QED BY <1>3, <2>1, DroppedInv DEF CleanPages
<1> QED BY <1>1, <1>2, <1>3 DEF Client

\* The deletion of the knowledge base, restarts, and slots that run out.
LEMMA SweepInv ==
  ASSUME QueueInv, DeleteKB \/ SweepKB \/ Restart \/ SlotExpires
  PROVE  QueueInv'
<1>1. /\ worker' = worker /\ UNCHANGED <<page, deletion, net>>
      /\ faults' \in Nat /\ disruptions' \in Nat
      /\ Trouble \in Nat /\ Trouble' \in Nat /\ Trouble <= Trouble'
  <2>1. faults \in Nat /\ disruptions \in Nat
    BY TypesUsed
  <2>2. faults' = faults /\ (disruptions' = disruptions \/ disruptions' = disruptions + 1)
    BY DEF DeleteKB, SweepKB, Restart, SlotExpires, counters
  <2>3. worker' = worker /\ UNCHANGED <<page, deletion, net>>
    BY DEF DeleteKB, SweepKB, Restart, SlotExpires, pages
  <2>4. /\ faults' \in Nat /\ disruptions' \in Nat
        /\ faults + disruptions \in Nat /\ faults' + disruptions' \in Nat
        /\ faults + disruptions <= faults' + disruptions'
    BY <2>1, <2>2
  <2> QED BY <2>3, <2>4 DEF Trouble
<1>2. PICK R \in SUBSET Ids :
        /\ rows' = rows \/ rows' = Removed(R, "dropped")
        /\ kb' = "swept" => kb = "swept" \/ (R = Ids /\ rows' = Removed(R, "dropped"))
  <2>1. CASE rows' = rows /\ (kb' = "swept" => kb = "swept")
    BY <2>1
  <2>2. CASE rows' = Removed(Ids, "dropped")
    BY <2>2
  <2>3. \/ rows' = rows /\ (kb' = "swept" => kb = "swept")
        \/ rows' = Removed(Ids, "dropped")
    BY DEF DeleteKB, SweepKB, Restart, SlotExpires, pages
  <2> QED BY <2>1, <2>2, <2>3
<1>3. rows' \in Seq(Row) /\ Len(rows') <= MaxRows /\ Ids' = Ids /\ Row' = Row
  BY <1>2, RemovedRows DEF QueueInv, TypeOK, Row, Ids
<1>4. waiting' \in [Kinds -> Nat] /\ StableIds'
  <2>1. waiting' \in {waiting, OneMore("plain")}
    BY DEF DeleteKB, SweepKB, Restart, SlotExpires
  <2> QED BY <1>1, <2>1, OneMoreTrigger DEF Kinds
<1>5. kb' \in {"active", "deleted", "swept"} /\ deadSlots' \in Nat
  BY DEF DeleteKB, SweepKB, Restart, SlotExpires, pages, QueueInv, TypeOK
<1>6. TypeOK'
  <2>1. waiting'["capped"] <= 1 /\ waiting'["recheck"] <= 1
    BY <1>4 DEF StableIds
  <2> QED BY <1>1, <1>3, <1>4, <1>5, <2>1 DEF QueueInv, TypeOK
<1> QED BY <1>1, <1>2, <1>4, <1>6, DroppedInv

\* A trigger that starts no batch.
LEMMA NoBatchInv ==
  ASSUME QueueInv, NEW w \in Workers, NEW k \in Kinds, StartCapped(w, k) \/ StartDeleted(w, k)
  PROVE  QueueInv'
<1>1. /\ worker' = worker /\ UNCHANGED <<page, deletion, kb, deadSlots, faults, disruptions>>
      /\ Trouble \in Nat /\ Trouble' = Trouble
      /\ net' \in {net, NoNet} /\ waiting[k] > 0
  BY TypesUsed DEF StartCapped, StartDeleted, Takes, pages, counters, Trouble
<1>2. PICK R \in SUBSET Ids : rows' = rows \/ rows' = Removed(R, "dropped")
  BY DEF StartCapped, StartDeleted
<1>3. rows' \in Seq(Row) /\ Len(rows') <= MaxRows /\ Ids' = Ids /\ Row' = Row
  BY <1>2, RemovedRows DEF QueueInv, TypeOK, Row, Ids
<1>4. waiting' \in [Kinds -> Nat] /\ StableIds'
  <2>1. waiting \in [Kinds -> Nat] /\ waiting[k] - 1 \in Nat
    BY <1>1 DEF QueueInv, TypeOK
  <2>2. CASE waiting' = Minus(k)
    BY <1>1, <2>1, <2>2 DEF Minus, QueueInv, StableIds
  <2>3. CASE waiting' = [Minus(k) EXCEPT !["capped"] = 1] /\ ~Taken("capped")
    BY <1>1, <2>1, <2>3 DEF Minus, QueueInv, StableIds, Taken, Kinds
  <2> QED BY <2>2, <2>3 DEF StartCapped, StartDeleted
<1>5. TypeOK'
  <2>1. waiting'["capped"] <= 1 /\ waiting'["recheck"] <= 1
    BY <1>4 DEF StableIds
  <2>2. net' \in [armed : BOOLEAN, covered : SUBSET Ids]
    <3>1. CASE net' = net
      BY <3>1 DEF QueueInv, TypeOK
    <3>2. CASE net' = NoNet
      BY <3>2 DEF NoNet
    <3> QED BY <1>1, <3>1, <3>2
  <2>3. /\ worker \in [Workers -> WorkerRec] /\ page \subseteq Docs /\ deadSlots \in Nat
        /\ deletion \in [Docs -> {"no", "scrubbed", "cleaned", "done"}]
        /\ kb \in {"active", "deleted", "swept"} /\ {faults, disruptions} \subseteq Nat
    BY DEF QueueInv, TypeOK, WorkerRec
  <2> QED BY <1>1, <1>3, <1>4, <2>1, <2>2, <2>3 DEF TypeOK, WorkerRec
<1> QED BY <1>1, <1>2, <1>4, <1>5, DroppedInv

LEMMA ClaimExpiresInv ==
  ASSUME QueueInv, NEW s \in Ids, ClaimExpires(s)
  PROVE  QueueInv'
<1>1. /\ rows \in Seq(Row) /\ rows[s] \in Row /\ \A r \in Ids : rows[r] \in Row
      /\ Trouble \in Nat /\ Trouble' = Trouble /\ Ids = 1..Len(rows)
  BY TypesUsed DEF QueueInv, TypeOK, ClaimExpires, counters, Trouble
<1>2. rows' = [rows EXCEPT ![s] = [rows[s] EXCEPT !.claim = "stale"]]
  BY <1>1 DEF ClaimExpires
<1>3. [rows[s] EXCEPT !.claim = "stale"] \in Row
  BY <1>1 DEF Row
<1>4. /\ rows' \in Seq(Row) /\ Len(rows') = Len(rows) /\ Ids' = Ids
      /\ \A r \in Ids : r # s => rows'[r] = rows[r]
      /\ \A r \in Ids : /\ rows'[r].doc = rows[r].doc /\ rows'[r].op = rows[r].op
                        /\ rows'[r].at = rows[r].at
                        /\ rows'[r].drains = rows[r].drains /\ rows[r].drains \in Nat
  BY <1>1, <1>2, <1>3 DEF Row, Ids
<1>5. /\ \A w \in Workers : s \notin worker[w].ids /\ worker[w].ids \subseteq Ids
      /\ UNCHANGED <<page, deletion, kb, waiting, net, worker, deadSlots, faults, disruptions>>
  BY DEF ClaimExpires, QueueInv, TypeOK, pages, counters
<1>6. TypeOK'
  <2>1. Row' = Row
    BY DEF Row
  <2> QED BY <1>4, <1>5, <2>1 DEF QueueInv, TypeOK
<1>7. StableIds'
  BY <1>5 DEF QueueInv, StableIds
<1>8. \A w \in Workers : WorkerInv(w)'
  <2> SUFFICES ASSUME NEW w \in Workers PROVE WorkerInv(w)'
    OBVIOUS
  <2>1. TypeOK /\ WorkerInv(w) /\ worker'[w] = worker[w]
    BY <1>5 DEF QueueInv
  <2>2. \A r \in worker[w].ids : r \in Ids /\ r # s
    BY <1>5
  <2> QED BY <1>1, <1>4, <2>1, <2>2, OthersKept
<1>9. \A r \in Ids' : RowInv(r)'
  <2> SUFFICES ASSUME NEW r \in Ids PROVE RowInv(r)'
    BY <1>4
  <2>1. RowInv(r) /\ worker' = worker
    BY <1>5 DEF QueueInv
  <2> QED BY <1>1, <1>4, <2>1, RowKept
<1>10. RowHasOneWorker' /\ DeletedQueueStaysEmpty'
  <2>1. \A r \in Ids : Queued(r)' = Queued(r)
    BY <1>4 DEF Queued
  <2> QED BY <1>4, <2>1 DEF ClaimExpires, pages, QueueInv, RowHasOneWorker,
        DeletedQueueStaysEmpty, Pending
<1> QED BY <1>4, <1>6, <1>7, <1>8, <1>9, <1>10 DEF QueueInv

-----------------------------------------------------------------------------
\* A batch moves on and writes no row; it keeps its rows, or lets go of them
\* because something failed.
LEMMA MoveInv ==
  ASSUME QueueInv, NEW w \in Workers, NEW c, worker' = [worker EXCEPT ![w] = c],
         rows' = rows, kb' = kb, TypeOK', StableIds', WorkerInv(w)',
         Trouble' \in Nat, Trouble <= Trouble',
         c.ids = worker[w].ids \/ (c.ids = {} /\ (Trouble < Trouble' \/ worker[w].ids = {}))
  PROVE  QueueInv'
<1>1. /\ worker'[w] = c /\ \A v \in Workers : v # w => worker'[v] = worker[v]
      /\ Trouble \in Nat /\ \A r \in Ids : rows[r].drains \in Nat
      /\ \A v \in Workers : worker[v].ids \subseteq Ids
  BY TypesUsed DEF QueueInv, TypeOK, Row, WorkerRec
<1>2. \A v \in Workers : WorkerInv(v)'
  <2> SUFFICES ASSUME NEW v \in Workers, v # w PROVE WorkerInv(v)'
    OBVIOUS
  <2>1. TypeOK /\ WorkerInv(v) /\ worker'[v] = worker[v]
    BY <1>1 DEF QueueInv
  <2> QED BY <1>1, <2>1, OthersKept
<1>3. \A r \in Ids' : RowInv(r)'
  <2> SUFFICES ASSUME NEW r \in Ids PROVE RowInv(r)'
    BY DEF Ids
  <2>1. RowInv(r)
    BY DEF QueueInv
  <2>2. Trouble < Trouble' \/ \A v \in Workers : worker[v].ids \subseteq worker'[v].ids
    BY <1>1
  <2> QED BY <1>1, <2>1, <2>2, RowKept
<1>4. \A v \in Workers : worker'[v].ids \subseteq worker[v].ids
  BY <1>1
<1>5. RowHasOneWorker'
  BY <1>4 DEF QueueInv, RowHasOneWorker
<1>6. DeletedQueueStaysEmpty'
  BY DEF QueueInv, DeletedQueueStaysEmpty, Pending, Queued, Ids
<1> QED BY <1>2, <1>3, <1>5, <1>6 DEF QueueInv

\* A batch that holds nothing has nothing to show.
LEMMA EarlyBatch ==
  ASSUME NEW w, worker'[w].step \in Early, worker'[w].ids = {}, worker'[w].out = NoOutcome
  PROVE  WorkerInv(w)'
BY DEF WorkerInv, Early, NoOutcome

\* A task that ends, or goes on under its id, keeps the ids stable.
LEMMA IdsKept ==
  ASSUME QueueInv, NEW w \in Workers, NEW c, worker' = [worker EXCEPT ![w] = c],
         c.step = "idle" \/ (c.kind = worker[w].kind /\ worker[w].step # "idle"),
         waiting' = waiting
  PROVE  StableIds'
<1>1. \A v \in Workers : worker'[v] = IF v = w THEN c ELSE worker[v]
  BY DEF QueueInv, TypeOK
<1> QED BY <1>1 DEF QueueInv, StableIds

\* The type of the variables that a batch leaves alone or hardly changes.
LEMMA BatchTypes ==
  ASSUME QueueInv, NEW w \in Workers, NEW c, worker' = [worker EXCEPT ![w] = c],
         rows' \in Seq(Row), Len(rows') = Len(rows), c \in WorkerRec,
         page' \subseteq Docs, deletion' = deletion, kb' = kb, deadSlots' \in Nat,
         waiting' \in [Kinds -> Nat], StableIds',
         net' \in [armed : BOOLEAN, covered : SUBSET Ids],
         faults' \in Nat, disruptions' \in Nat
  PROVE  TypeOK'
<1>1. Ids' = Ids /\ Row' = Row
  BY DEF Ids, Row, QueueInv, TypeOK
<1>2. worker' \in [Workers -> WorkerRec]
  BY DEF QueueInv, TypeOK, WorkerRec
<1>3. waiting'["capped"] <= 1 /\ waiting'["recheck"] <= 1
  BY DEF StableIds
<1>4. Len(rows') <= MaxRows /\ deletion' \in [Docs -> {"no", "scrubbed", "cleaned", "done"}]
      /\ kb' \in {"active", "deleted", "swept"}
  BY DEF QueueInv, TypeOK
<1> QED BY <1>1, <1>2, <1>3, <1>4 DEF TypeOK, WorkerRec

LEMMA IdleType == Idle \in WorkerRec
BY DEF Idle, WorkerRec, Steps, Kinds, Outcomes

LEMMA StartInv ==
  ASSUME QueueInv, NEW w \in Workers, NEW k \in Kinds, Start(w, k) \/ StartUncapped(w, k)
  PROVE  QueueInv'
<1>1. PICK slot \in BOOLEAN : Begin(w, k, slot)
  BY DEF Start, StartUncapped
<1> DEFINE c == [Idle EXCEPT !.step = "snapshot", !.kind = k, !.slot = slot]
<1>2. /\ c \in WorkerRec /\ c.step = "snapshot" /\ c.kind = k /\ c.ids = {} /\ c.out = NoOutcome
      /\ worker' = [worker EXCEPT ![w] = c]
  BY <1>1, IdleType DEF Begin, Idle, WorkerRec, Steps, NoOutcome
<1> HIDE DEF c
<1>3. /\ worker[w].step = "idle" /\ waiting[k] > 0 /\ waiting' = Minus(k)
      /\ rows' = rows /\ UNCHANGED <<page, deletion, kb, deadSlots>>
      /\ net' \in {net, NoNet}
  BY DEF Start, StartUncapped, Takes, pages
<1>4. /\ faults' \in Nat /\ disruptions' \in Nat /\ Trouble' \in Nat /\ Trouble <= Trouble'
  <2>1. faults \in Nat /\ disruptions \in Nat /\ disruptions' = disruptions
        /\ (faults' = faults \/ faults' = faults + 1)
    BY TypesUsed DEF Start, StartUncapped, counters, Fault
  <2> QED BY <2>1 DEF Trouble
<1>5. worker[w].ids = {}
  BY <1>3 DEF QueueInv, WorkerInv, Early
<1>6. waiting' \in [Kinds -> Nat] /\ StableIds'
  <2>1. waiting \in [Kinds -> Nat] /\ waiting[k] - 1 \in Nat
    BY <1>3 DEF QueueInv, TypeOK
  <2>2. /\ waiting' \in [Kinds -> Nat] /\ waiting'[k] = waiting[k] - 1
        /\ \A l \in Kinds : l # k => waiting'[l] = waiting[l]
    BY <1>3, <2>1 DEF Minus
  <2>3. \A v \in Workers : worker'[v] = IF v = w THEN c ELSE worker[v]
    BY <1>2 DEF QueueInv, TypeOK
  <2>4. ASSUME k \in {"capped", "recheck"}
        PROVE  waiting[k] = 1 /\ \A v \in Workers : ~(worker[v].step # "idle" /\ worker[v].kind = k)
    BY <1>3, <2>1, <2>4 DEF QueueInv, StableIds
  <2>5. {"capped", "recheck"} \subseteq Kinds
    BY DEF Kinds
  <2> QED BY <1>2, <2>2, <2>3, <2>4, <2>5 DEF QueueInv, StableIds
<1>7. TypeOK'
  <2>1. net' \in [armed : BOOLEAN, covered : SUBSET Ids]
    <3>1. CASE net' = net
      BY <3>1 DEF QueueInv, TypeOK
    <3>2. CASE net' = NoNet
      BY <3>2 DEF NoNet
    <3> QED BY <1>3, <3>1, <3>2
  <2>2. rows' \in Seq(Row) /\ Len(rows') = Len(rows) /\ page' \subseteq Docs /\ deadSlots' \in Nat
    BY <1>3 DEF QueueInv, TypeOK
  <2> QED BY <1>2, <1>3, <1>4, <1>6, <2>1, <2>2, BatchTypes
<1>8. WorkerInv(w)'
  <2>1. worker'[w] = c
    BY <1>2 DEF QueueInv, TypeOK
  <2> QED BY <1>2, <2>1, EarlyBatch DEF Early
<1> QED BY <1>2, <1>3, <1>4, <1>5, <1>6, <1>7, <1>8, MoveInv

LEMMA ClaimBeginsInv ==
  ASSUME QueueInv, NEW w \in Workers, ClaimSnapshot(w) \/ ClaimLock(w)
  PROVE  QueueInv'
<1>1. PICK step \in {"lock", "stamp"}, A \in SUBSET Ids :
        worker' = [worker EXCEPT ![w].step = step, ![w].anchors = A]
  <2>1. CASE ClaimSnapshot(w)
    <3>1. Lowest({r \in Eligible : rows[r].doc \notin DocsOf(Fresh)}) \in SUBSET Ids
      BY DEF Lowest, Eligible, Pending
    <3> QED BY <2>1, <3>1 DEF ClaimSnapshot
  <2>2. CASE ClaimLock(w)
    <3>1. Oldest({r \in worker[w].anchors : Queued(r)} \ Locked(w), BatchSize) \in SUBSET Ids
      BY DEF Oldest, QueueInv, TypeOK
    <3>2. worker' = [worker EXCEPT ![w].step = "stamp",
                        ![w].anchors = Oldest({r \in worker[w].anchors : Queued(r)} \ Locked(w), BatchSize)]
      BY <2>2 DEF ClaimLock, QueueInv, TypeOK
    <3> QED BY <3>1, <3>2
  <2> QED BY <2>1, <2>2
<1>2. worker[w] \in WorkerRec /\ worker[w].step \in {"snapshot", "lock"}
  BY TypesUsed DEF ClaimSnapshot, ClaimLock
<1> DEFINE c == [worker[w] EXCEPT !.step = step, !.anchors = A]
<1>3. /\ c \in WorkerRec /\ c.step = step /\ c.kind = worker[w].kind
      /\ c.ids = worker[w].ids /\ c.out = worker[w].out
      /\ worker' = [worker EXCEPT ![w] = c]
  BY <1>1, <1>2 DEF WorkerRec, Steps
<1> HIDE DEF c
<1>4. UNCHANGED <<rows, page, deletion, kb, waiting, net, deadSlots, faults, disruptions>>
  BY DEF ClaimSnapshot, ClaimLock, pages, counters
<1>5. StableIds'
  BY <1>2, <1>3, <1>4, IdsKept
<1>6. TypeOK'
  BY <1>3, <1>4, <1>5, BatchTypes DEF QueueInv, TypeOK
<1>7. worker[w].ids = {} /\ worker[w].out = NoOutcome
  BY <1>2 DEF QueueInv, WorkerInv, Early
<1>8. WorkerInv(w)'
  <2>1. worker'[w] = c
    BY <1>3 DEF QueueInv, TypeOK
  <2> QED BY <1>3, <1>7, <2>1, EarlyBatch DEF Early
<1>9. Trouble' \in Nat /\ Trouble <= Trouble'
  BY <1>4, TypesUsed DEF Trouble
<1>10. rows' = rows /\ kb' = kb
  BY <1>4
<1> QED BY <1>3, <1>5, <1>6, <1>8, <1>9, <1>10, MoveInv

\* A batch that returns its worker, with a trigger more or not.
LEMMA ReturnIds ==
  ASSUME QueueInv, NEW w \in Workers, worker[w].step # "idle", Return(w),
         \/ waiting' = waiting
         \/ waiting' = OneMore("plain")
         \/ waiting' = OneMore("recheck") /\ ~Taken("recheck")
         \/ waiting' = OneMore(worker[w].kind)
  PROVE  /\ worker' = [worker EXCEPT ![w] = Idle] /\ worker'[w] = Idle
         /\ Idle \in WorkerRec /\ Idle.step = "idle" /\ Idle.ids = {} /\ Idle.out = NoOutcome
         /\ waiting' \in [Kinds -> Nat] /\ StableIds' /\ WorkerInv(w)'
<1>1. /\ Idle \in WorkerRec /\ Idle.step = "idle" /\ Idle.ids = {} /\ Idle.out = NoOutcome
      /\ worker' = [worker EXCEPT ![w] = Idle]
      /\ \A v \in Workers : worker'[v] = IF v = w THEN Idle ELSE worker[v]
  BY IdleType DEF Return, Idle, NoOutcome, QueueInv, TypeOK
<1>2. waiting \in [Kinds -> Nat] /\ worker[w].kind \in Kinds
      /\ {"plain", "capped", "recheck"} \subseteq Kinds
  BY TypesUsed DEF QueueInv, TypeOK, Kinds, WorkerRec
<1> DEFINE k == worker[w].kind
<1>3. waiting' \in [Kinds -> Nat] /\ StableIds'
  <2>1. CASE waiting' = waiting
    BY <1>1, <1>2, <2>1, IdsKept
  <2>2. CASE waiting' = OneMore("recheck") /\ ~Taken("recheck")
    <3>1. waiting'["recheck"] = waiting["recheck"] + 1 /\ waiting["recheck"] = 0
          /\ waiting'["capped"] = waiting["capped"] /\ waiting' \in [Kinds -> Nat]
      BY <1>2, <2>2 DEF OneMore, Taken
    <3>2. \A v \in Workers : ~(worker[v].step # "idle" /\ worker[v].kind = "recheck")
      BY <2>2 DEF Taken
    <3> QED BY <1>1, <3>1, <3>2 DEF QueueInv, StableIds
  <2>3. CASE waiting' = OneMore(k)
    <3>1. /\ waiting' \in [Kinds -> Nat] /\ waiting'[k] = waiting[k] + 1
          /\ \A l \in Kinds : l # k => waiting'[l] = waiting[l]
      BY <1>2, <2>3 DEF OneMore
    <3> QED BY <1>1, <1>2, <3>1 DEF QueueInv, StableIds
  <2>4. CASE waiting' = OneMore("plain")
    <3>1. /\ waiting' \in [Kinds -> Nat] /\ waiting'["recheck"] = waiting["recheck"]
          /\ waiting'["capped"] = waiting["capped"]
      BY <1>2, <2>4 DEF OneMore
    <3> QED BY <1>1, <3>1 DEF QueueInv, StableIds
  <2> QED BY <2>1, <2>2, <2>3, <2>4
<1>4. WorkerInv(w)'
  BY <1>1, EarlyBatch DEF Early
<1> QED BY <1>1, <1>3, <1>4

LEMMA ReturnInv ==
  ASSUME QueueInv, NEW w \in Workers, worker[w].step # "idle", Return(w),
         rows' = rows, UNCHANGED <<page, deletion, kb>>,
         \/ waiting' = waiting
         \/ waiting' = OneMore("recheck") /\ ~Taken("recheck")
         \/ waiting' = OneMore(worker[w].kind),
         net' \in [armed : BOOLEAN, covered : SUBSET Ids], deadSlots' \in Nat,
         faults' \in Nat, disruptions' \in Nat, Trouble' \in Nat, Trouble <= Trouble',
         Trouble < Trouble' \/ worker[w].ids = {}
  PROVE  QueueInv'
<1>1. /\ worker' = [worker EXCEPT ![w] = Idle]
      /\ Idle \in WorkerRec /\ Idle.ids = {}
      /\ waiting' \in [Kinds -> Nat] /\ StableIds' /\ WorkerInv(w)'
  BY ReturnIds
<1>2. TypeOK'
  BY <1>1, BatchTypes DEF QueueInv, TypeOK
<1> QED BY <1>1, <1>2, MoveInv

LEMMA NothingClaimedInv ==
  ASSUME QueueInv, NEW w \in Workers, ClaimNothing(w) \/ LoadFails(w)
  PROVE  QueueInv'
<1>1. worker[w].step \in {"snapshot", "lock", "stamp"}
  BY DEF ClaimNothing, LoadFails
<1>2. worker[w].ids = {}
  BY <1>1 DEF QueueInv, WorkerInv, Early
<1>3. /\ Return(w) /\ rows' = rows /\ UNCHANGED <<page, deletion, kb, deadSlots>>
      /\ \/ waiting' = waiting
         \/ waiting' = OneMore("recheck") /\ ~Taken("recheck")
         \/ waiting' = OneMore(worker[w].kind)
  BY DEF ClaimNothing, LoadFails, RetryTask, ArmsRecheck, pages
<1>4. net' \in [armed : BOOLEAN, covered : SUBSET Ids] /\ deadSlots \in Nat
  <2>1. net \in [armed : BOOLEAN, covered : SUBSET Ids] /\ Fresh \in SUBSET Ids /\ deadSlots \in Nat
    BY DEF QueueInv, TypeOK, Fresh, Pending
  <2>2. net' = net \/ net' = [armed |-> TRUE, covered |-> Fresh]
    BY DEF ClaimNothing, LoadFails
  <2>3. CASE net' = net
    BY <2>1, <2>3
  <2>4. CASE net' = [armed |-> TRUE, covered |-> Fresh]
    BY <2>1, <2>4
  <2> QED BY <2>1, <2>2, <2>3, <2>4
<1>5. faults' \in Nat /\ disruptions' \in Nat /\ Trouble' \in Nat /\ Trouble <= Trouble'
  <2>1. faults \in Nat /\ disruptions \in Nat /\ disruptions' = disruptions
        /\ (faults' = faults \/ faults' = faults + 1)
    BY TypesUsed DEF ClaimNothing, LoadFails, counters, Fault
  <2> QED BY <2>1 DEF Trouble
<1> QED BY <1>1, <1>2, <1>3, <1>4, <1>5, ReturnInv

LEMMA CrashInv ==
  ASSUME QueueInv, NEW w \in Workers, Crash(w)
  PROVE  QueueInv'
<1>1. /\ worker[w].step # "idle" /\ Return(w) /\ rows' = rows /\ UNCHANGED <<page, deletion, kb, net>>
      /\ waiting' = OneMore(worker[w].kind)
      /\ faults' = faults /\ disruptions' = disruptions + 1
      /\ deadSlots' = deadSlots \/ deadSlots' = deadSlots + 1
  BY DEF Crash, RetryTask, pages
<1>2. /\ net \in [armed : BOOLEAN, covered : SUBSET Ids] /\ deadSlots \in Nat
      /\ faults \in Nat /\ disruptions \in Nat
  BY TypesUsed DEF QueueInv, TypeOK
<1>3. Trouble' \in Nat /\ Trouble \in Nat /\ Trouble < Trouble' /\ Trouble <= Trouble'
  BY <1>1, <1>2 DEF Trouble
<1>4. deadSlots' \in Nat /\ disruptions' \in Nat /\ faults' \in Nat
  BY <1>1, <1>2
<1> QED BY <1>1, <1>2, <1>3, <1>4, ReturnInv

-----------------------------------------------------------------------------
\* A batch that writes rows it holds, and no others.  What it lets go of is
\* out of the queue or within the bound.
LEMMA WritesInv ==
  ASSUME QueueInv, NEW w \in Workers, NEW c, worker' = [worker EXCEPT ![w] = c],
         TypeOK', StableIds', WorkerInv(w)', kb' = kb,
         Trouble' \in Nat, Trouble <= Trouble', Ids' = Ids,
         c.ids = worker[w].ids \/ c.ids = {},
         \A r \in Ids \ worker[w].ids : rows'[r] = rows[r],
         \A r \in worker[w].ids :
            /\ RowInv(r)'
            /\ rows'[r].at = "queued" => rows[r].at = "queued"
  PROVE  QueueInv'
<1>1. /\ worker'[w] = c /\ \A v \in Workers : v # w => worker'[v] = worker[v]
      /\ Trouble \in Nat /\ \A r \in Ids : rows[r].drains \in Nat
      /\ \A v \in Workers : worker[v].ids \subseteq Ids
  <2>1. Trouble \in Nat /\ \A r \in Ids : rows[r].drains \in Nat
    BY TypesUsed DEF Row
  <2> QED BY <2>1 DEF QueueInv, TypeOK
<1>2. \A v \in Workers : WorkerInv(v)'
  <2> SUFFICES ASSUME NEW v \in Workers, v # w PROVE WorkerInv(v)'
    OBVIOUS
  <2>1. TypeOK /\ WorkerInv(v) /\ worker'[v] = worker[v]
    BY <1>1 DEF QueueInv
  <2>2. \A r \in worker[v].ids : r \in Ids /\ rows'[r] = rows[r]
    BY <1>1 DEF QueueInv, RowHasOneWorker
  <2> QED BY <1>1, <2>1, <2>2, OthersKept
<1>3. \A r \in Ids' : RowInv(r)'
  <2> SUFFICES ASSUME NEW r \in Ids \ worker[w].ids PROVE RowInv(r)'
    OBVIOUS
  <2>1. RowInv(r) /\ rows'[r] = rows[r]
    BY DEF QueueInv
  <2>2. \A v \in Workers : r \in worker[v].ids => r \in worker'[v].ids
    BY <1>1
  <2> QED BY <1>1, <2>1, <2>2, RowKept
<1>4. \A v \in Workers : worker'[v].ids \subseteq worker[v].ids
  BY <1>1
<1>5. RowHasOneWorker'
  BY <1>4 DEF QueueInv, RowHasOneWorker
<1>6. \A r \in Ids : rows'[r].at = "queued" => rows[r].at = "queued"
  OBVIOUS
<1>7. DeletedQueueStaysEmpty'
  BY <1>6 DEF QueueInv, DeletedQueueStaysEmpty, Pending, Queued
<1> QED BY <1>2, <1>3, <1>5, <1>7 DEF QueueInv

LEMMA EnterReduceInv ==
  ASSUME QueueInv, NEW w \in Workers, EnterReduce(w)
  PROVE  QueueInv'
<1>1. worker[w] \in WorkerRec /\ worker[w].step = "enter"
      /\ \A r \in worker[w].ids : r \in Ids /\ rows[r].doc \in Docs
  BY TypesUsed DEF EnterReduce, QueueInv, TypeOK, Row
<1>2. PICK U \in SUBSET With(w, {"ok", "seen"}) :
        worker' = [worker EXCEPT ![w].step = "write",
                ![w].out = [d \in Docs |->
                    IF d \in U THEN "unapplied"
                    ELSE IF worker[w].out[d] = "ok" /\ Abandoned(d) THEN "dropped"
                    ELSE worker[w].out[d]]]
  BY DEF EnterReduce, QueueInv, TypeOK
<1> DEFINE out == [d \in Docs |-> IF d \in U THEN "unapplied"
                    ELSE IF worker[w].out[d] = "ok" /\ Abandoned(d) THEN "dropped"
                    ELSE worker[w].out[d]]
           c == [worker[w] EXCEPT !.step = "write", !.out = out]
<1>3. out \in [Docs -> Outcomes]
  BY <1>1 DEF WorkerRec, Outcomes
<1>4. /\ c \in WorkerRec /\ c.step = "write" /\ c.kind = worker[w].kind
      /\ c.ids = worker[w].ids /\ c.out = out
      /\ worker' = [worker EXCEPT ![w] = c]
  BY <1>1, <1>2, <1>3 DEF WorkerRec, Steps
<1>5. worker'[w] = c
  BY <1>4 DEF QueueInv, TypeOK
<1>6. /\ UNCHANGED <<rows, page, deletion, kb, waiting, net, deadSlots>>
      /\ faults' \in Nat /\ disruptions' \in Nat /\ Trouble \in Nat
      /\ Trouble' \in Nat /\ Trouble <= Trouble'
  <2>1. faults \in Nat /\ disruptions \in Nat /\ disruptions' = disruptions
        /\ (faults' = faults \/ faults' = faults + 1)
    BY TypesUsed DEF EnterReduce, Fault, NoFault, counters
  <2> QED BY <2>1 DEF Trouble, EnterReduce, pages
<1>7. ASSUME NEW r \in worker[w].ids
      PROVE  /\ Out(w, r)' = out[rows[r].doc]
             /\ Out(w, r)' = "skipped" <=> Out(w, r) = "skipped"
             /\ Out(w, r)' \in {"none", "seen"} => Out(w, r)' = Out(w, r)
             /\ Done(w, r)' <=> Done(w, r)
             /\ Last(w, r)' <=> Last(w, r)
  <2>1. Out(w, r)' = out[rows[r].doc]
    BY <1>4, <1>5, <1>6 DEF Out
  <2>2. \A d \in U : worker[w].out[d] \in {"ok", "seen"}
    BY DEF With
  <2>3. /\ Out(w, r)' = "skipped" <=> Out(w, r) = "skipped"
        /\ Out(w, r)' \in {"none", "seen"} => Out(w, r)' = Out(w, r)
    BY <1>1, <2>1, <2>2 DEF Out
  <2>4. Done(w, r)' <=> Done(w, r)
    BY <1>1, <1>4, <1>5, <2>3 DEF Done, DoneSteps
  <2>5. Last(w, r)' <=> Last(w, r)
    BY <1>4, <1>5, <1>6 DEF Last
  <2> QED BY <2>1, <2>3, <2>4, <2>5
<1> HIDE DEF c, out
<1>8. WorkerInv(w)'
  <2>1. WorkerInv(w)
    BY DEF QueueInv
  <2>2. /\ c.step \notin Early \cup {"map"} /\ c.step # "requeue"
        /\ worker[w].step \in {"enter", "write"} \cup DoneSteps
    BY <1>1, <1>4 DEF Early
  <2>3. \A r \in worker[w].ids : rows[r].drains \in Nat
    BY <1>1, TypesUsed DEF Row
  <2>4. \A r \in worker[w].ids : /\ (Queued(r) => rows[r].claim = "fresh")'
                                 /\ (Done(w, r) \/ rows[r].drains <= Trouble)'
    BY <1>6, <1>7, <2>1, <2>3 DEF WorkerInv, Queued
  <2>5. \A r \in worker[w].ids : Last(w, r) =>
          /\ rows'[r].op = "ingest" => Out(w, r)' \notin {"none", "seen"}
          /\ Done(w, r)' => rows'[r].drains >= 1
    BY <1>6, <1>7, <2>1, <2>2 DEF WorkerInv
  <2>6. worker'[w].ids = worker[w].ids /\ worker'[w].step = c.step
    BY <1>4, <1>5
  <2> QED BY <1>7, <2>2, <2>4, <2>5, <2>6 DEF WorkerInv
<1>9. StableIds'
  BY <1>1, <1>4, <1>6, IdsKept
<1>10. TypeOK'
  BY <1>4, <1>6, <1>9, BatchTypes DEF QueueInv, TypeOK
<1> QED BY <1>4, <1>6, <1>8, <1>9, <1>10, MoveInv

\* The rows a claim stamps are nobody's: a batch has fresh claims on its rows.
LEMMA ClaimStampInv ==
  ASSUME QueueInv, NEW w \in Workers, ClaimStamp(w)
  PROVE  QueueInv'
<1> DEFINE R == Claimable(w)
           c == [worker[w] EXCEPT !.step = "map", !.anchors = {}, !.ids = R]
           f == [r \in Ids |-> IF r \in R THEN [rows[r] EXCEPT !.claim = "fresh"] ELSE rows[r]]
<1>1. worker[w] \in WorkerRec /\ worker[w].step = "stamp"
      /\ worker[w].ids = {} /\ worker[w].out = NoOutcome
  BY TypesUsed DEF ClaimStamp, QueueInv, WorkerInv, Early
<1>2. R \in SUBSET Ids /\ \A r \in R : Queued(r) /\ rows[r].claim # "fresh"
  BY DEF Claimable, RowsOf, Eligible, Fresh, Pending
<1> HIDE DEF R
<1>3. \A v \in Workers : R \cap worker[v].ids = {}
  BY <1>2 DEF QueueInv, WorkerInv
<1>4. /\ c \in WorkerRec /\ c.step = "map" /\ c.kind = worker[w].kind
      /\ c.ids = R /\ c.out = NoOutcome
      /\ worker' = [worker EXCEPT ![w] = c]
  <2>1. worker' = [worker EXCEPT ![w] = c]
    BY DEF ClaimStamp, QueueInv, TypeOK, R
  <2> QED BY <1>1, <1>2, <2>1 DEF WorkerRec, Steps
<1>5. /\ worker'[w] = c /\ \A v \in Workers : v # w => worker'[v] = worker[v]
      /\ \A v \in Workers : worker[v].ids \subseteq Ids
  BY <1>4 DEF QueueInv, TypeOK
<1> HIDE DEF c
<1>6. /\ UNCHANGED <<page, deletion, kb, waiting, deadSlots, faults, disruptions>>
      /\ Trouble \in Nat /\ Trouble' = Trouble
  BY TypesUsed DEF ClaimStamp, pages, counters, Trouble
<1>7. ASSUME NEW r \in Ids
      PROVE  /\ f[r] \in Row
             /\ f[r].doc = rows[r].doc /\ f[r].op = rows[r].op /\ f[r].at = rows[r].at
             /\ f[r].drains = rows[r].drains /\ rows[r].drains \in Nat
             /\ r \in R => f[r].claim = "fresh"
             /\ r \notin R => f[r] = rows[r]
  <2>1. rows[r] \in Row
    BY TypesUsed
  <2>2. CASE r \in R
    BY <2>1, <2>2 DEF Row
  <2>3. CASE r \notin R
    BY <2>1, <2>3 DEF Row
  <2> QED BY <2>2, <2>3
<1>8. rows' = f /\ f = [r \in Ids |-> f[r]]
  BY DEF ClaimStamp, R
<1> HIDE DEF f
<1>9. f \in Seq(Row) /\ Len(f) = Len(rows) /\ Ids' = Ids
  BY <1>7, <1>8, Rewritten DEF QueueInv, TypeOK, Ids
<1>10. StableIds'
  BY <1>1, <1>4, <1>6, IdsKept
<1>11. TypeOK'
  <2>1. net \in [armed : BOOLEAN, covered : SUBSET Ids]
    BY DEF QueueInv, TypeOK
  <2>2. net' = [net EXCEPT !.covered = @ \ R]
    BY DEF ClaimStamp, R
  <2>3. net' \in [armed : BOOLEAN, covered : SUBSET Ids]
    BY <2>1, <2>2
  <2>4. /\ page \subseteq Docs /\ deadSlots \in Nat /\ waiting \in [Kinds -> Nat]
        /\ faults \in Nat /\ disruptions \in Nat
    BY TypesUsed DEF QueueInv, TypeOK
  <2> QED BY <1>4, <1>6, <1>8, <1>9, <1>10, <2>3, <2>4, BatchTypes
<1>12. WorkerInv(w)'
  <2>1. \A r \in R : /\ rows'[r].claim = "fresh" /\ rows[r].drains <= Trouble
                     /\ rows'[r].drains = rows[r].drains
    BY <1>2, <1>3, <1>7, <1>8 DEF QueueInv, RowInv
  <2>2. \A r \in R : Out(w, r)' = "none" /\ ~Done(w, r)'
    <3>1. \A r \in R : rows'[r].doc \in Docs
      BY <1>2, <1>7, <1>8 DEF Row
    <3>2. \A r \in R : Out(w, r)' = "none"
      BY <1>4, <1>5, <3>1 DEF Out, NoOutcome
    <3> QED BY <3>2 DEF Done
  <2>3. c.step \notin Early /\ c.step # "requeue"
        /\ c.step \notin {"enter", "write"} \cup DoneSteps /\ NoOutcome' = NoOutcome
    BY <1>4 DEF Early, DoneSteps, NoOutcome
  <2>4. worker'[w].ids = R /\ worker'[w].step = c.step /\ worker'[w].out = NoOutcome
    BY <1>4, <1>5
  <2> QED BY <1>6, <2>1, <2>2, <2>3, <2>4 DEF WorkerInv
<1>13. \A v \in Workers : WorkerInv(v)'
  <2> SUFFICES ASSUME NEW v \in Workers, v # w PROVE WorkerInv(v)'
    BY <1>12
  <2>1. TypeOK /\ WorkerInv(v) /\ worker'[v] = worker[v]
    BY <1>5 DEF QueueInv
  <2>2. \A r \in worker[v].ids : r \in Ids /\ r \notin R
    BY <1>3, <1>5
  <2>3. \A r \in worker[v].ids : rows'[r] = rows[r] /\ rows[r].drains \in Nat
    BY <2>2, <1>7, <1>8
  <2>4. Trouble <= Trouble'
    BY <1>6
  <2> QED BY <1>6, <2>1, <2>3, <2>4, OthersKept
<1>14. \A r \in Ids' : RowInv(r)'
  <2> SUFFICES ASSUME NEW r \in Ids PROVE RowInv(r)'
    BY <1>9
  <2>1. RowInv(r) /\ \A v \in Workers : r \in worker[v].ids => r \in worker'[v].ids
    BY <1>1, <1>5 DEF QueueInv
  <2>2. rows'[r].at \in {rows[r].at, "dropped"} /\ Trouble <= Trouble'
    BY <1>6, <1>7, <1>8
  <2> QED BY <1>6, <1>7, <1>8, <2>1, <2>2, RowKept
<1>15. RowHasOneWorker'
  BY <1>3, <1>4, <1>5 DEF QueueInv, RowHasOneWorker
<1>16. DeletedQueueStaysEmpty'
  BY <1>6, <1>7, <1>8, <1>9 DEF QueueInv, DeletedQueueStaysEmpty, Pending, Queued
<1> QED BY <1>11, <1>10, <1>13, <1>14, <1>15, <1>16 DEF QueueInv

\* What it does to release the slots of some documents.
LEMMA DrainedRows ==
  ASSUME QueueInv, NEW S \in SUBSET Ids, rows' = Drained(S)
  PROVE  /\ rows' \in Seq(Row) /\ Len(rows') = Len(rows) /\ Ids' = Ids
         /\ \A r \in Ids : /\ rows'[r].doc = rows[r].doc /\ rows'[r].op = rows[r].op
                           /\ rows'[r].at = rows[r].at /\ rows'[r].claim = rows[r].claim
                           /\ rows[r].drains \in Nat
                           /\ r \in S => rows'[r].drains = rows[r].drains + 1
                           /\ r \notin S => rows'[r] = rows[r]
<1> DEFINE f == [r \in Ids |-> IF r \in S THEN [rows[r] EXCEPT !.drains = @ + 1] ELSE rows[r]]
<1>1. ASSUME NEW r \in Ids
      PROVE  /\ f[r] \in Row
             /\ f[r].doc = rows[r].doc /\ f[r].op = rows[r].op
             /\ f[r].at = rows[r].at /\ f[r].claim = rows[r].claim
             /\ rows[r].drains \in Nat
             /\ r \in S => f[r].drains = rows[r].drains + 1
             /\ r \notin S => f[r] = rows[r]
  <2>1. rows[r] \in Row
    BY TypesUsed
  <2>2. CASE r \in S
    BY <2>1, <2>2 DEF Row
  <2>3. CASE r \notin S
    BY <2>1, <2>3 DEF Row
  <2> QED BY <2>2, <2>3
<1>2. rows' = f /\ f = [r \in Ids |-> f[r]]
  BY DEF Drained
<1> HIDE DEF f
<1>3. f \in Seq(Row) /\ Len(f) = Len(rows) /\ Ids' = Ids
  BY <1>1, <1>2, Rewritten DEF QueueInv, TypeOK, Ids
<1> QED BY <1>1, <1>2, <1>3

\* A batch that goes on and releases the slots of documents it had not
\* released: no row exceeds its bound, for it is released once.
LEMMA ReleasesInv ==
  ASSUME QueueInv, NEW w \in Workers, NEW c, worker' = [worker EXCEPT ![w] = c],
         c \in WorkerRec, c.kind = worker[w].kind, c.ids = worker[w].ids,
         worker[w].step # "idle", c.step \in {"enter", "trim"},
         UNCHANGED <<deletion, kb, waiting, net, deadSlots>>, page' \subseteq Docs,
         faults' \in Nat, disruptions' \in Nat, Trouble' \in Nat, Trouble <= Trouble',
         NEW S \in SUBSET worker[w].ids, rows' = Drained(S),
         \A r \in S : ~Done(w, r) /\ Done(w, r)',
         \A r \in worker[w].ids :
            /\ Done(w, r) => Done(w, r)'
            /\ Last(w, r) /\ rows[r].op = "ingest" => Out(w, r)' \notin {"none", "seen"}
            /\ Last(w, r) /\ Done(w, r)' => r \in S \/ Done(w, r)
  PROVE  QueueInv'
<1>1. S \in SUBSET Ids /\ worker[w].ids \subseteq Ids /\ worker'[w] = c
      /\ WorkerInv(w) /\ Trouble \in Nat
  BY TypesUsed DEF QueueInv, TypeOK
<1>2. /\ rows' \in Seq(Row) /\ Len(rows') = Len(rows) /\ Ids' = Ids
      /\ \A r \in Ids : /\ rows'[r].doc = rows[r].doc /\ rows'[r].op = rows[r].op
                        /\ rows'[r].at = rows[r].at /\ rows'[r].claim = rows[r].claim
                        /\ rows[r].drains \in Nat
                        /\ r \in S => rows'[r].drains = rows[r].drains + 1
                        /\ r \notin S => rows'[r] = rows[r]
  BY <1>1, DrainedRows
<1>3. StableIds'
  BY IdsKept
<1>4. TypeOK'
  BY <1>2, <1>3, BatchTypes DEF QueueInv, TypeOK
<1>5. \A r \in worker[w].ids : Done(w, r) \/ rows[r].drains <= Trouble
  BY <1>1 DEF WorkerInv
<1>6. WorkerInv(w)'
  <2>1. c.step \notin Early \cup {"map"} /\ c.step # "requeue"
    BY DEF Early
  <2>2. \A r \in worker[w].ids :
            /\ (Queued(r) => rows[r].claim = "fresh")'
            /\ Done(w, r)' \/ rows'[r].drains <= Trouble'
    BY <1>1, <1>2, <1>5 DEF WorkerInv, Queued
  <2>3. \A r \in worker[w].ids : Last(w, r)' <=> Last(w, r)
    BY <1>1, <1>2 DEF Last
  <2>4. \A r \in worker[w].ids : Last(w, r) =>
            /\ rows'[r].op = "ingest" => Out(w, r)' \notin {"none", "seen"}
            /\ Done(w, r)' => rows'[r].drains >= 1
    BY <1>1, <1>2 DEF WorkerInv
  <2> QED BY <1>1, <2>1, <2>2, <2>3, <2>4 DEF WorkerInv
<1>7. \A r \in worker[w].ids : RowInv(r)' /\ (rows'[r].at = "queued" => rows[r].at = "queued")
  <2> SUFFICES ASSUME NEW r \in worker[w].ids PROVE RowInv(r)'
    BY <1>1, <1>2
  <2>1. RowInv(r) /\ r \in Ids
    BY <1>1 DEF QueueInv
  <2>2. rows'[r].drains >= rows[r].drains /\ rows'[r].drains <= 1 + Trouble'
    BY <1>1, <1>2, <1>5, <2>1 DEF RowInv
  <2>3. rows'[r].op = "ingest" /\ rows'[r].at \in {"settled", "dead"} => rows'[r].drains >= 1
    BY <1>2, <2>1, <2>2 DEF RowInv
  <2>4. ~ \A v \in Workers : r \notin worker'[v].ids
    BY <1>1
  <2> QED BY <2>2, <2>3, <2>4 DEF RowInv, Queued
<1>8. \A r \in Ids \ worker[w].ids : rows'[r] = rows[r]
  BY <1>2
<1> QED BY <1>2, <1>3, <1>4, <1>6, <1>7, <1>8, WritesInv

LEMMA MapInv ==
  ASSUME QueueInv, NEW w \in Workers, Map(w)
  PROVE  QueueInv'
<1>1. /\ worker[w] \in WorkerRec /\ worker[w].step = "map" /\ worker[w].out = NoOutcome
      /\ \A r \in worker[w].ids : r \in Ids /\ rows[r].doc \in Docs
  BY TypesUsed DEF Map, QueueInv, TypeOK, WorkerInv, Row
<1> DEFINE skip == {d \in Ingests(w) : Abandoned(d)}
           live == Ingests(w) \ skip
           S == {LastRow(w, d) : d \in skip}
<1>2. PICK F \in SUBSET live :
          /\ IF F = {} THEN NoFault ELSE Fault
          /\ worker' = [worker EXCEPT ![w].step = "enter",
                ![w].out = [d \in Docs |->
                    IF d \in F THEN "failed" ELSE IF d \in live THEN "ok"
                    ELSE IF d \in skip THEN "skipped"
                    ELSE IF d \in Batch(w) \cap page THEN "seen" ELSE "none"]]
          /\ rows' = Drained(S)
  BY DEF Map
<1> DEFINE out == [d \in Docs |->
                    IF d \in F THEN "failed" ELSE IF d \in live THEN "ok"
                    ELSE IF d \in skip THEN "skipped"
                    ELSE IF d \in Batch(w) \cap page THEN "seen" ELSE "none"]
           c == [worker[w] EXCEPT !.step = "enter", !.out = out]
<1>3. /\ c \in WorkerRec /\ c.step = "enter" /\ c.kind = worker[w].kind
      /\ c.ids = worker[w].ids /\ c.out = out
      /\ worker' = [worker EXCEPT ![w] = c] /\ worker'[w] = c
  <2>1. out \in [Docs -> Outcomes]
    BY DEF Outcomes
  <2> HIDE DEF out
  <2>2. worker' = [worker EXCEPT ![w] = c]
    BY <1>2 DEF out, QueueInv, TypeOK
  <2> QED BY <1>1, <2>1, <2>2 DEF WorkerRec, Steps, QueueInv, TypeOK
<1>4. /\ UNCHANGED <<page, deletion, kb, waiting, net, deadSlots>> /\ page \subseteq Docs
      /\ faults' \in Nat /\ disruptions' \in Nat
      /\ Trouble' \in Nat /\ Trouble <= Trouble'
  <2>1. faults \in Nat /\ disruptions \in Nat /\ disruptions' = disruptions
        /\ (faults' = faults \/ faults' = faults + 1)
    BY <1>2, TypesUsed DEF Fault, NoFault, counters
  <2> QED BY <2>1 DEF Trouble, Map, pages, QueueInv, TypeOK
<1>5. /\ S \in SUBSET worker[w].ids
      /\ \A r \in S : rows[r].doc \in skip
      /\ \A r \in worker[w].ids : Last(w, r) /\ rows[r].doc \in skip => r \in S
      /\ \A r \in worker[w].ids : Last(w, r) /\ rows[r].op = "ingest" => rows[r].doc \in Ingests(w)
  <2>1. skip \subseteq Batch(w)
    BY DEF Ingests
  <2>2. /\ \A d \in Batch(w) : LastRow(w, d) \in worker[w].ids /\ rows[LastRow(w, d)].doc = d
        /\ \A r \in worker[w].ids : Last(w, r) => LastRow(w, rows[r].doc) = r
    BY LastRows DEF QueueInv
  <2>3. \A r \in worker[w].ids : rows[r].doc \in Batch(w)
    BY DEF Batch, DocsOf
  <2>4. \A r \in worker[w].ids : Last(w, r) /\ rows[r].op = "ingest" => rows[r].doc \in Ingests(w)
    BY <2>2, <2>3 DEF Ingests, OpOf
  <2> QED BY <2>1, <2>2, <2>4
<1>6. S \in SUBSET Ids /\ \A r \in worker[w].ids : rows'[r].doc = rows[r].doc
  BY <1>1, <1>2, <1>5, DrainedRows
<1>7. ASSUME NEW r \in worker[w].ids
      PROVE  /\ Out(w, r)' = out[rows[r].doc] /\ ~Done(w, r)
             /\ Done(w, r)' <=> rows[r].doc \in skip
             /\ Out(w, r)' \in {"none", "seen"} => rows[r].doc \notin Ingests(w)
  <2>1. Out(w, r)' = out[rows[r].doc] /\ Out(w, r) = "none" /\ rows[r].doc \in Docs
    BY <1>1, <1>3, <1>6 DEF Out, NoOutcome
  <2>2. ~Done(w, r)
    BY <1>1, <2>1 DEF Done, DoneSteps
  <2>3. Done(w, r)' <=> Out(w, r)' = "skipped"
    BY <1>3 DEF Done, DoneSteps
  <2>4. out[rows[r].doc] = "skipped" <=> rows[r].doc \in skip
    BY <2>1
  <2>5. out[rows[r].doc] \in {"none", "seen"} => rows[r].doc \notin Ingests(w)
    BY <2>1
  <2> QED BY <2>1, <2>2, <2>3, <2>4, <2>5
<1>8. rows' = Drained(S)
  BY <1>2
<1> HIDE DEF skip, live, S, out, c
<1> QED BY <1>1, <1>3, <1>4, <1>5, <1>7, <1>8, ReleasesInv

LEMMA WritePagesInv ==
  ASSUME QueueInv, NEW w \in Workers, WritePages(w)
  PROVE  QueueInv'
<1> DEFINE D == With(w, {"ok", "dropped"})
           S == {LastRow(w, d) : d \in D}
           c == [worker[w] EXCEPT !.step = "trim"]
<1>1. /\ worker[w] \in WorkerRec /\ worker[w].step = "write" /\ WorkerInv(w)
      /\ \A r \in worker[w].ids : r \in Ids /\ rows[r].doc \in Docs
  BY TypesUsed DEF WritePages, QueueInv, TypeOK, Row
<1>2. /\ c \in WorkerRec /\ c.step = "trim" /\ c.kind = worker[w].kind
      /\ c.ids = worker[w].ids /\ c.out = worker[w].out
      /\ worker' = [worker EXCEPT ![w] = c] /\ worker'[w] = c
  <2>1. worker' = [worker EXCEPT ![w] = c]
    BY DEF WritePages, Go, QueueInv, TypeOK
  <2> QED BY <1>1, <2>1 DEF WorkerRec, Steps, QueueInv, TypeOK
<1>3. /\ UNCHANGED <<deletion, kb, waiting, net, deadSlots, faults, disruptions>>
      /\ faults' \in Nat /\ disruptions' \in Nat
      /\ Trouble' \in Nat /\ Trouble <= Trouble'
  BY TypesUsed DEF WritePages, counters, Trouble
<1>4. page' \subseteq Docs /\ rows' = Drained(S)
  <2>1. Batch(w) \subseteq Docs
    BY <1>1 DEF Batch, DocsOf
  <2> QED BY <2>1 DEF WritePages, With, QueueInv, TypeOK
<1>5. /\ S \in SUBSET worker[w].ids
      /\ \A r \in S : rows[r].doc \in D
      /\ \A r \in worker[w].ids : Last(w, r) /\ rows[r].doc \in D => r \in S
      /\ \A r \in worker[w].ids : rows[r].doc \in D <=> Out(w, r) \in {"ok", "dropped"}
  <2>1. D \subseteq Batch(w)
    BY DEF With
  <2>2. /\ \A d \in Batch(w) : LastRow(w, d) \in worker[w].ids /\ rows[LastRow(w, d)].doc = d
        /\ \A r \in worker[w].ids : Last(w, r) => LastRow(w, rows[r].doc) = r
    BY LastRows DEF QueueInv
  <2>3. \A r \in worker[w].ids : rows[r].doc \in Batch(w)
    BY DEF Batch, DocsOf
  <2>4. \A r \in worker[w].ids : rows[r].doc \in D <=> Out(w, r) \in {"ok", "dropped"}
    BY <2>3 DEF With, Out
  <2> QED BY <2>1, <2>2, <2>4
<1>6. S \in SUBSET Ids /\ \A r \in worker[w].ids : rows'[r].doc = rows[r].doc
  BY <1>1, <1>4, <1>5, DrainedRows
<1>7. ASSUME NEW r \in worker[w].ids
      PROVE  /\ Out(w, r)' = Out(w, r)
             /\ Done(w, r) <=> Out(w, r) = "skipped"
             /\ Done(w, r)' <=> Out(w, r) = "skipped" \/ rows[r].doc \in D
  <2>1. Out(w, r)' = Out(w, r)
    BY <1>2, <1>6 DEF Out
  <2>2. Done(w, r) <=> Out(w, r) = "skipped"
    BY <1>1 DEF Done, DoneSteps
  <2>3. Done(w, r)' <=> Out(w, r) = "skipped" \/ rows[r].doc \in D
    BY <1>2, <1>5, <2>1 DEF Done, DoneSteps
  <2> QED BY <2>1, <2>2, <2>3
<1> HIDE DEF D, S, c
<1>8. \A r \in S : ~Done(w, r) /\ Done(w, r)'
  BY <1>5, <1>7
<1>9. \A r \in worker[w].ids :
            /\ Done(w, r) => Done(w, r)'
            /\ Last(w, r) /\ rows[r].op = "ingest" => Out(w, r)' \notin {"none", "seen"}
            /\ Last(w, r) /\ Done(w, r)' => r \in S \/ Done(w, r)
  BY <1>1, <1>5, <1>7 DEF WorkerInv
<1> QED BY <1>1, <1>2, <1>3, <1>4, <1>5, <1>8, <1>9, ReleasesInv

-----------------------------------------------------------------------------
\* Settlement.

\* A batch that returns its worker and has written the rows it held.
LEMMA SettledInv ==
  ASSUME QueueInv, NEW w \in Workers, worker[w].step # "idle", Return(w),
         UNCHANGED <<page, deletion, kb, net, deadSlots>>,
         \/ waiting' = waiting \/ waiting' = OneMore("plain")
         \/ waiting' = OneMore(worker[w].kind),
         faults' \in Nat, disruptions' \in Nat, Trouble' \in Nat, Trouble <= Trouble',
         rows' = [r \in Ids |-> rows'[r]],
         \A r \in Ids \ worker[w].ids : rows'[r] = rows[r],
         \A r \in worker[w].ids :
            /\ rows'[r] \in Row /\ RowInv(r)'
            /\ rows'[r].at = "queued" => rows[r].at = "queued"
  PROVE  QueueInv'
<1>1. /\ worker' = [worker EXCEPT ![w] = Idle]
      /\ Idle \in WorkerRec /\ Idle.ids = {}
      /\ waiting' \in [Kinds -> Nat] /\ StableIds' /\ WorkerInv(w)'
  BY ReturnIds
<1>2. rows' \in Seq(Row) /\ Len(rows') = Len(rows) /\ Ids' = Ids
  <2>1. \A r \in Ids : rows'[r] \in Row
    BY TypesUsed
  <2> QED BY <2>1, Rewritten DEF QueueInv, TypeOK, Ids
<1>3. TypeOK'
  BY <1>1, <1>2, BatchTypes DEF QueueInv, TypeOK
<1> QED BY <1>1, <1>2, <1>3, WritesInv

\* The rows of a batch that failed are the last rows of failed documents.
LEMMA FailingRows ==
  ASSUME QueueInv, NEW w \in Workers
  PROVE  FailedRows(w) = {r \in worker[w].ids : Failing(w, r)}
<1>1. /\ \A d \in Batch(w) : /\ LastRow(w, d) \in worker[w].ids
                             /\ rows[LastRow(w, d)].doc = d /\ Last(w, LastRow(w, d))
      /\ \A r \in worker[w].ids : Last(w, r) => LastRow(w, rows[r].doc) = r
  BY LastRows DEF QueueInv
<1>2. \A r \in worker[w].ids : rows[r].doc \in Batch(w)
  BY DEF Batch, DocsOf
<1>3. ASSUME NEW d \in With(w, {"failed", "unapplied"})
      PROVE  LastRow(w, d) \in worker[w].ids /\ Failing(w, LastRow(w, d))
  BY <1>1 DEF With, Failing, Out
<1>4. ASSUME NEW r \in worker[w].ids, Failing(w, r)
      PROVE  \E d \in With(w, {"failed", "unapplied"}) : r = LastRow(w, d)
  BY <1>1, <1>2, <1>4 DEF With, Failing, Out
<1> QED BY <1>3, <1>4 DEF FailedRows

\* What a batch may write to a row it failed: one more failure, or the dead
\* letter, which releases the slot of an ingest.
LEMMA RequeuedRow ==
  ASSUME NEW r, rows[r] \in Row
  PROVE  /\ Requeued(r) \in Row
         /\ Requeued(r).op = rows[r].op
         /\ ~Queued(r) => Requeued(r) = rows[r]
         /\ Queued(r) => \/ Requeued(r).at = "queued" /\ Requeued(r).drains = rows[r].drains
                         \/ /\ Requeued(r).at = "dead"
                            /\ Requeued(r).drains = IF rows[r].op = "ingest"
                                                    THEN rows[r].drains + 1 ELSE rows[r].drains
<1>1. CASE ~Queued(r)
  BY <1>1 DEF Requeued
<1>2. CASE Queued(r) /\ rows[r].fails < MaxFailRetries
  <2>1. rows[r].fails + 1 \in 0..MaxFailRetries
    BY <1>2, QueueAssumption DEF Row
  <2> QED BY <1>2, <2>1 DEF Requeued, Row, Queued
<1>3. CASE Queued(r) /\ ~(rows[r].fails < MaxFailRetries)
  <2> DEFINE g == Gone(r, "dead")
             n == IF rows[r].op = "ingest" THEN g.drains + 1 ELSE g.drains
  <2>1. g \in Row /\ g.at = "dead" /\ g.op = rows[r].op /\ g.drains = rows[r].drains
    BY GoneRow
  <2>2. Requeued(r) = [g EXCEPT !.drains = n]
    BY <1>3 DEF Requeued
  <2> HIDE DEF g
  <2>3. n \in Nat
    BY <2>1 DEF Row
  <2> QED BY <1>3, <2>1, <2>2, <2>3 DEF Row
<1> QED BY <1>1, <1>2, <1>3

\* The last row of a document that did not fail is done: its ingest has
\* released its slot.
LEMMA DoneRows ==
  ASSUME QueueInv, NEW w \in Workers, worker[w].step \in DoneSteps,
         NEW r \in worker[w].ids, Last(w, r), ~Failing(w, r), rows[r].op = "ingest"
  PROVE  rows[r].drains >= 1
<1>1. WorkerInv(w) /\ r \in Ids /\ rows[r].doc \in Docs /\ worker[w] \in WorkerRec
  BY TypesUsed DEF QueueInv, TypeOK, Row
<1>2. Out(w, r) \notin {"none", "seen"} /\ Out(w, r) \notin {"failed", "unapplied"}
  BY <1>1 DEF WorkerInv, Failing
<1>3. Out(w, r) \in {"ok", "skipped", "dropped"}
  BY <1>1, <1>2 DEF Out, WorkerRec, Outcomes
<1>4. Done(w, r)
  BY <1>3 DEF Done
<1> QED BY <1>1, <1>4 DEF WorkerInv

\* What deleting the rows that are done writes to the rows of the batch.
LEMMA TrimmedRows ==
  ASSUME QueueInv, NEW w \in Workers, worker[w].step = "trim", rows' = Trimmed(w)
  PROVE  /\ rows' = [r \in Ids |-> rows'[r]]
         /\ \A r \in Ids \ worker[w].ids : rows'[r] = rows[r]
         /\ \A r \in worker[w].ids :
              /\ rows'[r] \in Row /\ rows'[r].doc = rows[r].doc /\ rows'[r].op = rows[r].op
              /\ rows'[r].drains = rows[r].drains
              /\ rows'[r].at = "queued" => rows'[r] = rows[r] /\ Queued(r) /\ Failing(w, r)
              /\ rows'[r].op = "ingest" /\ rows'[r].at \in {"settled", "dead"}
                   => rows'[r].drains >= 1
<1> DEFINE last == {LastRow(w, d) : d \in Batch(w)}
           f == [r \in Ids |-> IF Queued(r) /\ r \in worker[w].ids \ FailedRows(w)
                               THEN Gone(r, IF r \in last THEN "settled" ELSE "dropped")
                               ELSE rows[r]]
<1>1. rows' = f
  BY DEF Trimmed
<1>2. worker[w].ids \subseteq Ids /\ worker[w].step \in DoneSteps
  BY DEF QueueInv, TypeOK, DoneSteps
<1>3. FailedRows(w) = {r \in worker[w].ids : Failing(w, r)}
  BY FailingRows
<1>4. \A r \in last : Last(w, r)
  BY LastRows DEF QueueInv
<1> HIDE DEF last
<1>5. ASSUME NEW r \in worker[w].ids
      PROVE  /\ f[r] \in Row /\ f[r].doc = rows[r].doc /\ f[r].op = rows[r].op
             /\ f[r].drains = rows[r].drains
             /\ f[r].at = "queued" => f[r] = rows[r] /\ Queued(r) /\ Failing(w, r)
             /\ f[r].op = "ingest" /\ f[r].at \in {"settled", "dead"} => f[r].drains >= 1
  <2>1. r \in Ids /\ rows[r] \in Row /\ RowInv(r)
    BY <1>2, TypesUsed DEF QueueInv
  <2>2. CASE Queued(r) /\ ~Failing(w, r) /\ r \in last
    <3>1. f[r] = Gone(r, "settled")
      BY <1>3, <2>1, <2>2
    <3> HIDE DEF f
    <3> QED BY <1>2, <1>4, <2>1, <2>2, <3>1, GoneRow, DoneRows
  <2>3. CASE Queued(r) /\ ~Failing(w, r) /\ r \notin last
    <3>1. f[r] = Gone(r, "dropped")
      BY <1>3, <2>1, <2>3
    <3> HIDE DEF f
    <3> QED BY <2>1, <3>1, GoneRow
  <2>4. CASE ~(Queued(r) /\ ~Failing(w, r))
    <3>1. f[r] = rows[r]
      BY <1>3, <2>1, <2>4
    <3> HIDE DEF f
    <3> QED BY <2>1, <2>4, <3>1 DEF Queued, RowInv
  <2> QED BY <2>2, <2>3, <2>4
<1> QED BY <1>1, <1>5

LEMMA TrimInv ==
  ASSUME QueueInv, NEW w \in Workers, Trim(w)
  PROVE  QueueInv'
<1>1. /\ worker[w].step = "trim" /\ rows' = Trimmed(w)
      /\ UNCHANGED <<page, deletion, kb, net, deadSlots, faults, disruptions>>
      /\ worker[w].ids \subseteq Ids /\ worker[w] \in WorkerRec /\ WorkerInv(w)
  BY TypesUsed DEF Trim, pages, counters, QueueInv, TypeOK
<1>2. /\ faults' \in Nat /\ disruptions' \in Nat /\ Trouble \in Nat
      /\ Trouble' \in Nat /\ Trouble' = Trouble /\ Trouble <= Trouble'
  BY <1>1, TypesUsed DEF Trouble
<1>3. /\ rows' = [r \in Ids |-> rows'[r]]
      /\ \A r \in Ids \ worker[w].ids : rows'[r] = rows[r]
      /\ \A r \in worker[w].ids :
           /\ rows'[r] \in Row /\ rows'[r].doc = rows[r].doc /\ rows'[r].op = rows[r].op
           /\ rows'[r].drains = rows[r].drains
           /\ rows'[r].at = "queued" => rows'[r] = rows[r] /\ Queued(r) /\ Failing(w, r)
           /\ rows'[r].op = "ingest" /\ rows'[r].at \in {"settled", "dead"}
                => rows'[r].drains >= 1
  BY <1>1, TrimmedRows
<1>4. \A r \in worker[w].ids : rows'[r].drains <= 1 + Trouble'
  BY <1>1, <1>2, <1>3 DEF QueueInv, RowInv
<1>5. CASE FailedRows(w) = {}
  <2>1. \A r \in worker[w].ids : ~Failing(w, r)
    BY <1>5, FailingRows
  <2>2. \A r \in worker[w].ids : RowInv(r)' /\ rows'[r].at # "queued"
    BY <1>3, <1>4, <2>1 DEF RowInv, Queued
  <2>3. /\ Return(w) /\ worker[w].step # "idle"
        /\ waiting' = waiting \/ waiting' = OneMore("plain")
    BY <1>1, <1>5 DEF Trim, FollowUp
  <2> QED BY <1>1, <1>2, <1>3, <2>2, <2>3, SettledInv
<1>6. CASE FailedRows(w) # {}
  <2> DEFINE c == [worker[w] EXCEPT !.step = "requeue"]
  <2>1. /\ c \in WorkerRec /\ c.step = "requeue" /\ c.kind = worker[w].kind
        /\ c.ids = worker[w].ids /\ c.out = worker[w].out
        /\ worker' = [worker EXCEPT ![w] = c] /\ worker'[w] = c /\ waiting' = waiting
    <3>1. worker' = [worker EXCEPT ![w] = c] /\ waiting' = waiting
      BY <1>6 DEF Trim, Go, QueueInv, TypeOK
    <3> QED BY <1>1, <3>1 DEF WorkerRec, Steps, QueueInv, TypeOK
  <2> HIDE DEF c
  <2>2. StableIds'
    BY <1>1, <2>1, IdsKept
  <2>3. rows' \in Seq(Row) /\ Len(rows') = Len(rows) /\ Ids' = Ids
    <3>1. \A r \in Ids : rows'[r] \in Row
      BY <1>3, TypesUsed
    <3> QED BY <1>3, <3>1, Rewritten DEF QueueInv, TypeOK, Ids
  <2>4. TypeOK'
    BY <1>1, <1>2, <2>1, <2>2, <2>3, BatchTypes DEF QueueInv, TypeOK
  <2>5. \A r \in worker[w].ids : RowInv(r)'
    BY <1>3, <1>4, <2>1 DEF RowInv, Queued
  <2>6. ASSUME NEW r \in worker[w].ids
        PROVE  /\ Out(w, r)' = Out(w, r) /\ Done(w, r)' = Done(w, r)
               /\ Last(w, r)' = Last(w, r) /\ Failing(w, r)' = Failing(w, r)
    <3>1. Out(w, r)' = Out(w, r)
      BY <1>3, <2>1 DEF Out
    <3>2. Last(w, r)' = Last(w, r)
      BY <1>3, <2>1 DEF Last
    <3> QED BY <1>1, <2>1, <3>1, <3>2 DEF Done, DoneSteps, Failing
  <2>7. WorkerInv(w)'
    <3>1. c.step \notin Early \cup {"map"}
      BY <2>1 DEF Early
    <3>2. \A r \in worker[w].ids :
            /\ (Queued(r) => rows[r].claim = "fresh")'
            /\ (Done(w, r) \/ rows[r].drains <= Trouble)'
            /\ (Queued(r) => Failing(w, r))'
      BY <1>1, <1>2, <1>3, <2>6 DEF WorkerInv, Queued
    <3>3. worker[w].step \in {"enter", "write"} \cup DoneSteps
      BY <1>1 DEF DoneSteps
    <3>4. \A r \in worker[w].ids : Last(w, r)' =>
            /\ rows'[r].op = "ingest" => Out(w, r)' \notin {"none", "seen"}
            /\ Done(w, r)' => rows'[r].drains >= 1
      BY <1>1, <1>3, <2>6, <3>3 DEF WorkerInv
    <3> QED BY <2>1, <3>1, <3>2, <3>4 DEF WorkerInv
  <2>8. \A r \in worker[w].ids : rows'[r].at = "queued" => rows[r].at = "queued"
    BY <1>3 DEF Queued
  <2> QED BY <1>1, <1>2, <1>3, <2>1, <2>2, <2>3, <2>4, <2>5, <2>7, <2>8, WritesInv
<1> QED BY <1>5, <1>6

LEMMA RequeueInv ==
  ASSUME QueueInv, NEW w \in Workers, Requeue(w)
  PROVE  QueueInv'
<1> DEFINE f == [r \in Ids |-> IF r \in FailedRows(w) THEN Requeued(r) ELSE rows[r]]
<1>1. /\ worker[w].step = "requeue" /\ rows' = f /\ Return(w)
      /\ UNCHANGED <<page, deletion, kb, net, deadSlots, faults, disruptions>>
      /\ waiting' = waiting \/ waiting' = OneMore("plain")
      /\ worker[w].ids \subseteq Ids /\ WorkerInv(w)
  BY DEF Requeue, FollowUp, pages, counters, QueueInv, TypeOK
<1>2. /\ faults' \in Nat /\ disruptions' \in Nat /\ Trouble \in Nat
      /\ Trouble' = Trouble /\ Trouble <= Trouble' /\ Trouble' \in Nat
  BY <1>1, TypesUsed DEF Trouble
<1>3. FailedRows(w) = {r \in worker[w].ids : Failing(w, r)}
  BY FailingRows
<1>4. ASSUME NEW r \in worker[w].ids
      PROVE  f[r] \in Row /\ RowInv(r)' /\ (f[r].at = "queued" => rows[r].at = "queued")
  <2>1. r \in Ids /\ rows[r] \in Row /\ rows[r].drains \in Nat /\ RowInv(r) /\ rows'[r] = f[r]
    BY <1>1, TypesUsed DEF QueueInv, Row
  <2>2. CASE Queued(r)
    <3>1. Failing(w, r)
      BY <1>1, <2>2 DEF WorkerInv
    <3>2. f[r] = Requeued(r)
      BY <1>3, <2>1, <3>1
    <3>3. rows[r].drains <= Trouble
      BY <1>1, <3>1 DEF WorkerInv, Failing, Done
    <3> HIDE DEF f
    <3> QED BY <1>2, <2>1, <2>2, <3>2, <3>3, RequeuedRow DEF RowInv, Queued
  <2>3. CASE ~Queued(r)
    <3>1. f[r] = rows[r]
      BY <2>1, <2>3, RequeuedRow
    <3> HIDE DEF f
    <3> QED BY <1>2, <2>1, <2>3, <3>1 DEF RowInv, Queued
  <2> QED BY <2>2, <2>3
<1>5. /\ rows' = [r \in Ids |-> rows'[r]]
      /\ \A r \in Ids \ worker[w].ids : rows'[r] = rows[r]
  BY <1>1, <1>3
<1>6. \A r \in worker[w].ids : rows'[r] = f[r]
  BY <1>1
<1> HIDE DEF f
<1> QED BY <1>1, <1>2, <1>4, <1>5, <1>6, SettledInv

\* A settlement that is cut short may release again the slots it had released,
\* which the failure that cut it short allows for.
LEMMA SettleFailsInv ==
  ASSUME QueueInv, NEW w \in Workers, SettleFails(w)
  PROVE  QueueInv'
<1>1. PICK done \in SUBSET FailedRows(w) :
        \E kept \in SUBSET {r \in FailedRows(w) \ done : Exhausted(r)} :
          rows' = [r \in Ids |-> IF r \in done THEN Requeued(r)
                                 ELSE IF r \in kept THEN [Freed(r) EXCEPT !.drains = @ + 1]
                                 ELSE IF r \in worker[w].ids THEN Freed(r)
                                 ELSE rows[r]]
  BY DEF SettleFails
<1>2. PICK kept \in SUBSET {r \in FailedRows(w) \ done : Exhausted(r)} :
        rows' = [r \in Ids |-> IF r \in done THEN Requeued(r)
                               ELSE IF r \in kept THEN [Freed(r) EXCEPT !.drains = @ + 1]
                               ELSE IF r \in worker[w].ids THEN Freed(r)
                               ELSE rows[r]]
  BY <1>1
<1> DEFINE f == [r \in Ids |-> IF r \in done THEN Requeued(r)
                               ELSE IF r \in kept THEN [Freed(r) EXCEPT !.drains = @ + 1]
                               ELSE IF r \in worker[w].ids THEN Freed(r)
                               ELSE rows[r]]
<1>3. /\ worker[w].step \in DoneSteps /\ worker[w].step # "idle" /\ Return(w)
      /\ UNCHANGED <<page, deletion, kb, net, deadSlots, disruptions>>
      /\ waiting' = OneMore(worker[w].kind)
      /\ worker[w].ids \subseteq Ids /\ WorkerInv(w)
  BY DEF SettleFails, RetryTask, Fault, pages, QueueInv, TypeOK, DoneSteps
<1>4. /\ faults' \in Nat /\ disruptions' \in Nat /\ Trouble \in Nat
      /\ Trouble' = Trouble + 1 /\ Trouble' \in Nat /\ Trouble <= Trouble'
  <2>1. faults \in Nat /\ disruptions \in Nat /\ faults' = faults + 1
        /\ disruptions' = disruptions
    BY TypesUsed DEF SettleFails, Fault
  <2> QED BY <2>1 DEF Trouble
<1>5. FailedRows(w) = {r \in worker[w].ids : Failing(w, r)}
  BY FailingRows
<1>6. ASSUME NEW r \in worker[w].ids
      PROVE  f[r] \in Row /\ RowInv(r)' /\ (f[r].at = "queued" => rows[r].at = "queued")
  <2>1. r \in Ids /\ rows[r] \in Row /\ rows[r].drains \in Nat /\ RowInv(r) /\ rows'[r] = f[r]
    BY <1>2, <1>3, TypesUsed DEF QueueInv, Row
  <2>2. Failing(w, r) => rows[r].drains <= Trouble
    BY <1>3 DEF WorkerInv, Failing, Done
  <2>3. /\ Freed(r) \in Row /\ Freed(r).at = rows[r].at /\ Freed(r).op = rows[r].op
        /\ Freed(r).drains = rows[r].drains
    BY <2>1 DEF Freed, Row
  <2>4. rows[r].drains <= 1 + Trouble
        /\ (rows[r].op = "ingest" /\ rows[r].at \in {"settled", "dead"} => rows[r].drains >= 1)
    BY <2>1 DEF RowInv
  <2>5. CASE r \in done
    <3>1. f[r] = Requeued(r) /\ Failing(w, r)
      BY <1>5, <2>1, <2>5
    <3> HIDE DEF f
    <3> QED BY <1>4, <2>1, <2>2, <2>4, <3>1, RequeuedRow DEF RowInv, Queued
  <2>6. CASE r \in kept /\ r \notin done
    <3>1. f[r] = [Freed(r) EXCEPT !.drains = @ + 1] /\ Failing(w, r) /\ Queued(r)
      BY <1>5, <2>1, <2>6 DEF Exhausted
    <3> HIDE DEF f
    <3>2. /\ f[r] \in Row /\ f[r].at = "queued" /\ f[r].drains = rows[r].drains + 1
      BY <2>1, <2>3, <3>1 DEF Row, Queued
    <3> QED BY <1>4, <2>1, <2>2, <3>1, <3>2 DEF RowInv, Queued
  <2>7. CASE r \notin kept /\ r \notin done
    <3>1. f[r] = Freed(r)
      BY <2>1, <2>7
    <3> HIDE DEF f
    <3> QED BY <1>4, <2>1, <2>3, <2>4, <3>1 DEF RowInv, Queued
  <2> QED BY <2>5, <2>6, <2>7
<1>7. /\ rows' = [r \in Ids |-> rows'[r]]
      /\ \A r \in Ids \ worker[w].ids : rows'[r] = rows[r]
  BY <1>2, <1>5
<1>8. \A r \in worker[w].ids : rows'[r] = f[r]
  BY <1>2, <1>3
<1> HIDE DEF f
<1> QED BY <1>3, <1>4, <1>6, <1>7, <1>8, SettledInv

-----------------------------------------------------------------------------
LEMMA StepInv == QueueInv /\ [Next]_vars => QueueInv'
<1> SUFFICES ASSUME QueueInv, [Next]_vars PROVE QueueInv'
  OBVIOUS
<1>1. CASE UNCHANGED vars
  <2>1. UNCHANGED <<rows, page, deletion, kb, waiting, net, worker, deadSlots, faults, disruptions>>
    BY <1>1 DEF vars
  <2>2. TypeOK' /\ StableIds' /\ Trouble \in Nat /\ Trouble' = Trouble /\ worker' = worker
    BY <2>1, TypesUsed DEF QueueInv, TypeOK, Ids, Row, StableIds, Trouble
  <2> QED BY <2>1, <2>2, DroppedInv
<1>2. CASE \E d \in Docs : Client(d)
  BY <1>2, ClientInv
<1>3. CASE DeleteKB \/ SweepKB \/ Restart \/ SlotExpires
  BY <1>3, SweepInv
<1>4. CASE \E w \in Workers, k \in Kinds : TaskStarts(w, k) \/ StartUncapped(w, k)
  BY <1>4, StartInv, NoBatchInv DEF TaskStarts
<1>5. CASE \E w \in Workers : BatchStep(w)
  BY <1>5, ClaimBeginsInv, ClaimStampInv, NothingClaimedInv, MapInv, EnterReduceInv,
     WritePagesInv, TrimInv, RequeueInv DEF BatchStep
<1>6. CASE \E w \in Workers : LoadFails(w) \/ SettleFails(w) \/ Crash(w)
  BY <1>6, NothingClaimedInv, SettleFailsInv, CrashInv
<1>7. CASE \E r \in Ids : ClaimExpires(r)
  BY <1>7, ClaimExpiresInv
<1> QED BY <1>1, <1>2, <1>3, <1>4, <1>5, <1>6, <1>7 DEF Next

\* task_queue.go, wiki_ingest_batch.go: every reachable state of the lane,
\* batches that died or were cut short included, satisfies the invariant.
THEOREM LaneInvariant == Spec => []QueueInv
BY InitInv, StepInv, PTL DEF Spec

\* task_queue.go: the variables keep their types; no retry, recheck or crash
\* queues a second task under a stable id.
THEOREM QueueTyped == Spec => []TypeOK
<1>1. QueueInv => TypeOK
  BY DEF QueueInv
<1> QED BY <1>1, LaneInvariant, PTL

\* ClaimBatch (task_queue.go): whatever the snapshots of concurrent claims,
\* no operation is in the hands of two batches.
THEOREM ClaimsAreDisjoint == Spec => []RowHasOneWorker
<1>1. QueueInv => RowHasOneWorker
  BY DEF QueueInv
<1> QED BY <1>1, LaneInvariant, PTL

\* finalizeWikiSubtask (wiki_ingest_batch.go): an ingest that a batch settles,
\* or gives up for good, has released the slot of its document, and it has
\* done so at most once more often than things failed.
THEOREM SlotsReleased == Spec => []SettledReleasesSlot
<1>1. QueueInv => SettledReleasesSlot
  <2> SUFFICES ASSUME QueueInv, NEW r \in Ids
               PROVE  /\ rows[r].op = "ingest" /\ rows[r].at \in {"settled", "dead"}
                           => rows[r].drains >= 1
                      /\ rows[r].drains <= 1 + faults + disruptions
    BY DEF SettledReleasesSlot
  <2>1. RowInv(r) /\ faults \in Nat /\ disruptions \in Nat /\ rows[r].drains \in Nat
    BY TypesUsed DEF QueueInv, Row
  <2>2. rows[r].drains <= 1 + (faults + disruptions)
    BY <2>1 DEF RowInv, Trouble
  <2> QED BY <2>1, <2>2 DEF RowInv
<1> QED BY <1>1, LaneInvariant, PTL

\* EnqueueIfKnowledgeBaseActive (task_queue.go): after the scrub of a deleted
\* knowledge base nothing is queued for it again, by a client, a batch that
\* was running, a retry or a restart.
THEOREM DeletedStaysEmpty == Spec => []DeletedQueueStaysEmpty
<1>1. QueueInv => DeletedQueueStaysEmpty
  BY DEF QueueInv
<1> QED BY <1>1, LaneInvariant, PTL

\* Unless something died, a claim that is not stale is a running batch's: no
\* settlement, however it fails, leaves a row to the 90 minutes of the recheck.
ClaimsHaveHolders ==
    disruptions = 0 => \A r \in Fresh : \E w \in Workers : r \in worker[w].ids

-----------------------------------------------------------------------------
(* What keeps the queue moving.                                            *)

\* Only a document that is being deleted has retract rows.
Tombstones == \A r \in Ids : rows[r].op = "retract" => Abandoned(rows[r].doc)

IdleHoldsNoSlot == \A w \in Workers : worker[w].step = "idle" => ~worker[w].slot

WakeInv ==
    /\ Tombstones /\ IdleHoldsNoSlot /\ ClaimsHaveHolders /\ NoLostWakeup
    /\ disruptions = 0 => deadSlots = 0

\* Every set of rows has a first one.
LEMMA HasFirst ==
  ASSUME NEW n \in Nat, NEW S \in SUBSET (1..n), S # {}
  PROVE  \E x \in S : \A y \in S : x <= y
<1> DEFINE T == {n + 1 - x : x \in S}
<1>1. T \in SUBSET (1..n) /\ T # {}
  <2>1. \A x \in 1..n : n + 1 - x \in 1..n
    OBVIOUS
  <2> QED BY <2>1
<1>2. \A x \in S : n + 1 - x \in T /\ x \in 1..n
  OBVIOUS
<1>3. \A t \in T : \E x \in S : t = n + 1 - x
  OBVIOUS
<1> HIDE DEF T
<1>4. PICK m \in T : \A t \in T : t <= m
  BY <1>1, HasLast
<1>5. PICK x \in S : m = n + 1 - x
  BY <1>3
<1>6. ASSUME NEW y \in S PROVE x <= y
  <2>1. n + 1 - y <= n + 1 - x
    BY <1>2, <1>4, <1>5
  <2> QED BY <1>2, <2>1
<1> QED BY <1>6

LEMMA InitWake == Init => WakeInv
<1> SUFFICES ASSUME Init PROVE WakeInv
  OBVIOUS
<1>1. rows = <<>> /\ DOMAIN rows = {} /\ deadSlots = 0
  BY DEF Init
<1>2. Ids = {} /\ Pending = {} /\ Fresh = {}
  BY <1>1 DEF Ids, Pending, Fresh
<1>3. IdleHoldsNoSlot
  BY DEF Init, Idle, IdleHoldsNoSlot
<1> QED BY <1>1, <1>2, <1>3 DEF WakeInv, Tombstones, ClaimsHaveHolders, NoLostWakeup

-----------------------------------------------------------------------------
\* A trigger, or a batch at work, is somebody for every row.
LEMMA Attended ==
  ASSUME \/ \E k \in Kinds : waiting'[k] > 0
         \/ \E w \in Workers :
               worker'[w].step \in {"snapshot", "map", "enter", "write", "trim", "requeue"}
  PROVE  NoLostWakeup'
BY DEF NoLostWakeup, Attends

\* Clients and time: a row that stays is still attended to, for a document
\* loses all its rows, or none; and none that is locked.
LEMMA StillAttended ==
  ASSUME NoLostWakeup, worker' = worker, disruptions' = 0 => disruptions = 0,
         waiting' = waiting, QueueInv,
         \A r \in Ids : r \in Ids' /\ rows'[r].doc = rows[r].doc,
         \A r \in Ids' : rows'[r].at = "queued" => r \in Ids /\ rows'[r] = rows[r],
         \A r \in Ids' : rows'[r].at = "queued" =>
            \A a \in Pending : rows[a].doc = rows[r].doc => a \in Ids' /\ rows'[a] = rows[a],
         \A a \in Pending : rows[a].doc \in DocsOf(AllLocked) => a \in Ids' /\ rows'[a] = rows[a]
  PROVE  NoLostWakeup'
<1> SUFFICES ASSUME PoolSize <= MaxInflight, disruptions' = 0, NEW r \in Pending'
             PROVE  \/ \E k \in Kinds : waiting'[k] > 0
                    \/ \E w \in Workers : Attends(w, r)'
  BY DEF NoLostWakeup
<1>1. r \in Ids' /\ rows'[r].at = "queued" /\ r \in Pending /\ rows'[r] = rows[r]
  BY DEF Pending, Queued
<1>2. \A a \in Eligible : a \in Ids' /\ rows'[a] = rows[a] => a \in Eligible'
  BY DEF Eligible, Fresh, Pending, Queued
<1>3. CASE \E k \in Kinds : waiting[k] > 0
  BY <1>3
<1>4. ASSUME NEW w \in Workers, Attends(w, r)
      PROVE  Attends(w, r)'
  <2>1. CASE worker[w].step \in {"snapshot", "map", "enter", "write", "trim", "requeue"}
    BY <2>1 DEF Attends
  <2>2. CASE worker[w].step = "lock"
    <3>1. PICK a \in worker[w].anchors : a \in Eligible /\ rows[a].doc = rows[r].doc
      BY <1>4, <2>2 DEF Attends
    <3>2. a \in Pending
      BY <3>1 DEF Eligible
    <3>3. a \in Ids' /\ rows'[a] = rows[a]
      BY <1>1, <3>1, <3>2
    <3>4. a \in Eligible' /\ rows'[a].doc = rows'[r].doc
      BY <1>1, <1>2, <3>1, <3>3
    <3> QED BY <2>2, <3>1, <3>4 DEF Attends
  <2>3. CASE worker[w].step = "stamp"
    <3>1. PICK a \in Eligible : rows[a].doc \in DocsOf(worker[w].anchors)
      BY <1>4, <2>3 DEF Attends, Claimable, RowsOf
    <3>2. PICK b \in worker[w].anchors : rows[b].doc = rows[a].doc
      BY <3>1 DEF DocsOf
    <3>3. b \in AllLocked
      BY <2>3, <3>2 DEF AllLocked
    <3>4. a \in Pending /\ rows[a].doc \in DocsOf(AllLocked)
      BY <3>1, <3>2, <3>3 DEF DocsOf, Eligible
    <3>5. a \in Eligible' /\ rows'[a].doc = rows[a].doc
      BY <1>2, <3>1, <3>4
    <3>6. b \in Ids
      BY <3>2 DEF QueueInv, TypeOK
    <3>7. rows'[b].doc = rows'[a].doc
      BY <3>2, <3>5, <3>6
    <3>8. a \in Claimable(w)'
      BY <3>2, <3>5, <3>7 DEF Claimable, RowsOf, DocsOf
    <3> QED BY <2>3, <3>8 DEF Attends
  <2> QED BY <1>4, <2>1, <2>2, <2>3 DEF Attends
<1> QED BY <1>1, <1>3, <1>4 DEF NoLostWakeup

\* Claims stay with their holders as long as no batch ends and nothing new is
\* claimed.
LEMMA HoldersStay ==
  ASSUME ClaimsHaveHolders, disruptions' = 0 => disruptions = 0,
         \A w \in Workers : worker[w].ids \subseteq worker'[w].ids,
         \A r \in Ids' : rows'[r].at = "queued" /\ rows'[r].claim = "fresh" => r \in Fresh
  PROVE  ClaimsHaveHolders'
<1> SUFFICES ASSUME disruptions' = 0, NEW r \in Fresh'
             PROVE  \E w \in Workers : r \in worker'[w].ids
  BY DEF ClaimsHaveHolders
<1>1. r \in Fresh
  BY DEF Fresh, Pending, Queued
<1>2. PICK w \in Workers : r \in worker[w].ids
  BY <1>1 DEF ClaimsHaveHolders
<1> QED BY <1>2

\* A batch that ends leaves no claim.
LEMMA HoldersEnd ==
  ASSUME QueueInv, ClaimsHaveHolders, disruptions' = 0 => disruptions = 0,
         NEW w \in Workers, Return(w),
         \A r \in Ids' : rows'[r].at = "queued" /\ rows'[r].claim = "fresh"
                           => r \in Fresh /\ r \notin worker[w].ids
  PROVE  ClaimsHaveHolders'
<1> SUFFICES ASSUME disruptions' = 0, NEW r \in Fresh'
             PROVE  \E v \in Workers : r \in worker'[v].ids
  BY DEF ClaimsHaveHolders
<1>1. r \in Fresh /\ r \notin worker[w].ids
  BY DEF Fresh, Pending, Queued
<1>2. PICK v \in Workers : r \in worker[v].ids
  BY <1>1 DEF ClaimsHaveHolders
<1>3. worker'[v] = worker[v]
  BY <1>1, <1>2 DEF Return, QueueInv, TypeOK
<1> QED BY <1>2, <1>3

\* Nothing is queued any more.
LEMMA EmptyQueue ==
  ASSUME QueueInv, Tombstones, rows' = Removed(Ids, "dropped"), UNCHANGED deletion
  PROVE  Tombstones' /\ ClaimsHaveHolders' /\ NoLostWakeup'
<1>1. /\ Ids' = Ids
      /\ \A r \in Ids : /\ rows'[r].doc = rows[r].doc /\ rows'[r].op = rows[r].op
                        /\ rows'[r].at # "queued"
  BY RemovedRows
<1>2. Pending' = {} /\ Fresh' = {}
  BY <1>1 DEF Fresh, Pending, Queued
<1> QED BY <1>1, <1>2 DEF Tombstones, Abandoned, ClaimsHaveHolders, NoLostWakeup

LEMMA SweepWake ==
  ASSUME QueueInv, WakeInv,
         SweepKB \/ DeleteKB \/ Restart \/ SlotExpires
         \/ \E w \in Workers, k \in Kinds : StartDeleted(w, k)
  PROVE  WakeInv'
<1>0. worker' = worker /\ IdleHoldsNoSlot'
  BY DEF SweepKB, DeleteKB, Restart, SlotExpires, StartDeleted, WakeInv, IdleHoldsNoSlot
<1>1. CASE SweepKB \/ \E w \in Workers, k \in Kinds : StartDeleted(w, k)
  <2>1. /\ rows' = Removed(Ids, "dropped") /\ UNCHANGED deletion
        /\ UNCHANGED <<deadSlots, disruptions>>
    BY <1>1 DEF SweepKB, StartDeleted, counters, pages
  <2> QED BY <1>0, <2>1, EmptyQueue DEF WakeInv
<1>2. CASE DeleteKB \/ Restart
  <2>1. /\ rows' = rows \/ rows' = Removed(Ids, "dropped")
        /\ UNCHANGED deletion /\ disruptions' = disruptions + 1
        /\ disruptions \in Nat
    BY <1>2, TypesUsed DEF DeleteKB, Restart, pages
  <2>2. Tombstones'
    <3>1. CASE rows' = rows
      BY <2>1, <3>1 DEF WakeInv, Tombstones, Abandoned, Ids
    <3>2. CASE rows' = Removed(Ids, "dropped")
      BY <2>1, <3>2, EmptyQueue DEF WakeInv
    <3> QED BY <2>1, <3>1, <3>2
  <2>3. disruptions' # 0
    BY <2>1
  <2> QED BY <1>0, <2>2, <2>3 DEF WakeInv, ClaimsHaveHolders, NoLostWakeup
<1>3. CASE SlotExpires
  <2>1. UNCHANGED <<rows, page, deletion, kb, waiting, net, worker, faults, disruptions>>
        /\ deadSlots > 0
    BY <1>3 DEF SlotExpires, pages, counters
  <2>2. disruptions # 0
    BY <2>1 DEF WakeInv
  <2>3. Tombstones'
    BY <2>1 DEF WakeInv, Tombstones, Abandoned, Ids
  <2> QED BY <1>0, <2>1, <2>2, <2>3 DEF WakeInv, ClaimsHaveHolders, NoLostWakeup
<1> QED BY <1>1, <1>2, <1>3

\* A client's row comes with its trigger.
LEMMA EnqueueWake ==
  ASSUME QueueInv, WakeInv, NEW d \in Docs, NEW op \in Ops, Enqueue(d, op),
         \A e \in Docs : deletion[e] # "no" => deletion'[e] # "no",
         op = "retract" => deletion'[d] # "no"
  PROVE  WakeInv'
<1> DEFINE new == [doc |-> d, op |-> op, at |-> "queued", claim |-> "free",
                   fails |-> 0, drains |-> 0]
<1>1. /\ rows \in Seq(Row) /\ Len(rows) \in Nat /\ Ids = 1..Len(rows)
      /\ \A r \in Ids : rows[r] \in Row
      /\ disruptions \in Nat /\ waiting \in [Kinds -> Nat]
  BY TypesUsed DEF QueueInv, TypeOK
<1>2. /\ Ids \subseteq Ids' /\ \A r \in Ids : rows'[r] = rows[r]
      /\ \A r \in Ids' \ Ids : rows'[r] = new
  <2>1. CASE kb = "active"
    <3>1. rows' = Append(rows, new)
      BY <2>1 DEF Enqueue, Append1
    <3>2. Ids' = 1..(Len(rows) + 1) /\ rows'[Len(rows) + 1] = new
          /\ \A r \in 1..Len(rows) : rows'[r] = rows[r]
      BY <1>1, <3>1 DEF Ids
    <3> QED BY <1>1, <3>2
  <2>2. CASE kb # "active"
    BY <2>2 DEF Enqueue, Append1, Ids
  <2> QED BY <2>1, <2>2
<1>3. Tombstones'
  <2> SUFFICES ASSUME NEW r \in Ids', rows'[r].op = "retract" PROVE deletion'[rows'[r].doc] # "no"
    BY DEF Tombstones, Abandoned
  <2>1. CASE r \in Ids
    <3>1. rows[r].doc \in Docs /\ deletion[rows[r].doc] # "no" /\ rows'[r] = rows[r]
      BY <1>1, <1>2, <2>1 DEF WakeInv, Tombstones, Abandoned, Row
    <3> QED BY <3>1
  <2>2. CASE r \notin Ids
    BY <1>2, <2>2
  <2> QED BY <2>1, <2>2
<1>4. worker' = worker /\ deadSlots' = deadSlots /\ (disruptions' = 0 => disruptions = 0)
  BY <1>1 DEF Enqueue, NoFault, counters
<1>5. ClaimsHaveHolders'
  <2>1. \A r \in Ids' : rows'[r].at = "queued" /\ rows'[r].claim = "fresh" => r \in Fresh
    BY <1>2 DEF Fresh, Pending, Queued
  <2> QED BY <1>4, <2>1, HoldersStay DEF WakeInv
<1>6. NoLostWakeup'
  <2>1. CASE waiting' = OneMore("plain")
    <3>1. waiting'["plain"] > 0
      BY <1>1, <2>1 DEF OneMore, Kinds
    <3> QED BY <3>1, Attended DEF Kinds
  <2>2. CASE kb # "active" /\ waiting' = waiting
    <3>1. rows' = rows
      BY <2>2 DEF Enqueue, Append1
    <3> QED BY <1>4, <2>2, <3>1, StillAttended DEF WakeInv, Ids, Pending
  <2>3. CASE disruptions' = disruptions + 1
    <3>1. disruptions' # 0
      BY <1>1, <2>3
    <3> QED BY <3>1 DEF NoLostWakeup
  <2> QED BY <2>1, <2>2, <2>3 DEF Enqueue
<1> QED BY <1>3, <1>4, <1>5, <1>6 DEF WakeInv, IdleHoldsNoSlot

\* A scrub takes all the rows of a document that no claim has locked.
LEMMA ScrubWake ==
  ASSUME QueueInv, WakeInv, NEW d \in Docs, ~Abandoned(d), rows' = Scrubbed(d),
         RowsOf({d}, AllLocked) = {},
         \A e \in Docs : deletion[e] # "no" => deletion'[e] # "no",
         UNCHANGED <<waiting, worker, deadSlots, disruptions>>
  PROVE  WakeInv'
<1> DEFINE R == {r \in Ids : rows[r].doc = d /\ rows[r].op = "ingest"}
<1>1. /\ Ids' = Ids
      /\ \A r \in Ids : /\ rows'[r].doc = rows[r].doc /\ rows'[r].op = rows[r].op
                        /\ rows'[r].at = "queued" => r \notin R /\ rows'[r] = rows[r]
      /\ \A r \in Ids \ R : rows'[r] = rows[r]
  <2>1. rows' = Removed(R, "dropped") /\ R \in SUBSET Ids
    BY DEF Scrubbed
  <2> HIDE DEF R
  <2> QED BY <2>1, RemovedRows DEF Removed
<1>2. \A r \in Ids : rows[r] \in Row
  BY TypesUsed
<1>3. \A r \in Ids : rows[r].doc = d => r \in R
  BY <1>2 DEF WakeInv, Tombstones, Row, Ops
<1>4. Tombstones'
  <2> SUFFICES ASSUME NEW r \in Ids, rows'[r].op = "retract" PROVE deletion'[rows'[r].doc] # "no"
    BY <1>1 DEF Tombstones, Abandoned
  <2>1. rows[r].doc \in Docs /\ deletion[rows[r].doc] # "no" /\ rows'[r].doc = rows[r].doc
    BY <1>1, <1>2 DEF WakeInv, Tombstones, Abandoned, Row
  <2> QED BY <2>1
<1> HIDE DEF R
<1>5. ClaimsHaveHolders'
  <2>1. \A r \in Ids' : rows'[r].at = "queued" /\ rows'[r].claim = "fresh" => r \in Fresh
    BY <1>1 DEF Fresh, Pending, Queued
  <2> QED BY <2>1, HoldersStay DEF WakeInv
<1>6. NoLostWakeup'
  <2>1. \A r \in Ids : r \in R => rows[r].doc = d
    BY DEF R
  <2>2. \A r \in Ids' : rows'[r].at = "queued" => r \in Ids /\ rows'[r] = rows[r] /\ r \notin R
    BY <1>1
  <2>3. \A r \in Ids' : rows'[r].at = "queued" =>
            \A a \in Pending : rows[a].doc = rows[r].doc => a \in Ids' /\ rows'[a] = rows[a]
    <3> SUFFICES ASSUME NEW r \in Ids', rows'[r].at = "queued",
                        NEW a \in Pending, rows[a].doc = rows[r].doc
                 PROVE  a \in Ids' /\ rows'[a] = rows[a]
      OBVIOUS
    <3>1. a \in Ids /\ rows[r].doc # d
      BY <1>1, <1>3, <2>2 DEF Pending
    <3> QED BY <1>1, <2>1, <3>1
  <2>4. \A a \in Pending : rows[a].doc \in DocsOf(AllLocked) => a \in Ids' /\ rows'[a] = rows[a]
    <3> SUFFICES ASSUME NEW a \in Pending, rows[a].doc \in DocsOf(AllLocked)
                 PROVE  a \in Ids' /\ rows'[a] = rows[a]
      OBVIOUS
    <3>1. a \in Ids /\ rows[a].doc # d
      BY DEF Pending, DocsOf, RowsOf
    <3> QED BY <1>1, <2>1, <3>1
  <2> QED BY <1>1, <2>2, <2>3, <2>4, StillAttended DEF WakeInv
<1> QED BY <1>4, <1>5, <1>6 DEF WakeInv, IdleHoldsNoSlot

LEMMA ClientWake ==
  ASSUME QueueInv, WakeInv, NEW d \in Docs, Client(d)
  PROVE  WakeInv'
<1>1. deletion \in [Docs -> {"no", "scrubbed", "cleaned", "done"}]
  BY DEF QueueInv, TypeOK
<1>2. CASE EnqueueIngest(d)
  BY <1>2, EnqueueWake DEF EnqueueIngest, Ops
<1>3. CASE EnqueueRetract(d)
  <2>1. /\ Enqueue(d, "retract") /\ deletion'[d] # "no"
        /\ \A e \in Docs : deletion[e] # "no" => deletion'[e] # "no"
    BY <1>1, <1>3 DEF EnqueueRetract
  <2> QED BY <2>1, EnqueueWake DEF Ops
<1>4. CASE ScrubForReparse(d)
  BY <1>4, ScrubWake DEF ScrubForReparse, pages, counters
<1>5. CASE MarkDeleted(d)
  <2>1. \A e \in Docs : deletion[e] # "no" => deletion'[e] # "no"
    BY <1>1, <1>5 DEF MarkDeleted
  <2> QED BY <1>5, <2>1, ScrubWake DEF MarkDeleted, Abandoned, counters
<1>6. CASE CleanPages(d)
  <2>1. /\ UNCHANGED <<rows, waiting, worker, deadSlots, disruptions>>
        /\ \A e \in Docs : deletion[e] # "no" => deletion'[e] # "no"
    BY <1>1, <1>6 DEF CleanPages, counters
  <2>2. \A r \in Ids : rows[r].doc \in Docs
    BY TypesUsed DEF Row
  <2>3. Tombstones'
    BY <2>1, <2>2 DEF WakeInv, Tombstones, Abandoned, Ids
  <2>4. ClaimsHaveHolders'
    BY <2>1, HoldersStay DEF WakeInv, Fresh, Pending, Queued, Ids
  <2>5. NoLostWakeup'
    BY <2>1, StillAttended DEF WakeInv, Ids, Pending
  <2> QED BY <2>1, <2>3, <2>4, <2>5 DEF WakeInv, IdleHoldsNoSlot
<1> QED BY <1>2, <1>3, <1>4, <1>5, <1>6 DEF Client

-----------------------------------------------------------------------------
\* A batch: it writes no document's name, and no deletion.
LEMMA BatchWake ==
  ASSUME QueueInv, WakeInv, UNCHANGED <<deletion, deadSlots>>, Ids' = Ids,
         \A r \in Ids : rows'[r].doc = rows[r].doc /\ rows'[r].op = rows[r].op,
         disruptions' = disruptions, ClaimsHaveHolders', NoLostWakeup', IdleHoldsNoSlot'
  PROVE  WakeInv'
BY DEF WakeInv, Tombstones, Abandoned

\* A pool that fits under the cap never meets it: the place that takes the
\* trigger holds no slot.
LEMMA NeverCapped ==
  ASSUME QueueInv, WakeInv, disruptions = 0, PoolSize <= MaxInflight,
         NEW w \in Workers, worker[w].step = "idle"
  PROVE  Slots < MaxInflight
<1> DEFINE S == {v \in Workers : worker[v].slot}
<1>1. /\ IsFiniteSet(Workers) /\ Cardinality(Workers) = PoolSize
      /\ PoolSize \in Nat /\ MaxInflight \in Nat
  <2>1. PoolSize \in Nat /\ PoolSize > 0 /\ MaxInflight \in Nat
    BY QueueAssumption
  <2>2. IsFiniteSet(1..PoolSize) /\ Cardinality(1..PoolSize) = PoolSize
    BY <2>1, FS_Interval
  <2> QED BY <2>1, <2>2 DEF Workers
<1>2. S \in SUBSET (Workers \ {w})
  BY DEF WakeInv, IdleHoldsNoSlot
<1>3. IsFiniteSet(Workers \ {w}) /\ Cardinality(Workers \ {w}) = PoolSize - 1
  BY <1>1, FS_RemoveElement
<1>4. Cardinality(S) <= PoolSize - 1 /\ IsFiniteSet(S)
  BY <1>2, <1>3, FS_Subset
<1>5. Cardinality(S) \in Nat
  BY <1>4, FS_CardinalityType
<1>6. deadSlots = 0
  BY DEF WakeInv
<1> QED BY <1>1, <1>4, <1>5, <1>6 DEF Slots

LEMMA SlotsType == ASSUME QueueInv PROVE Slots \in Nat
<1> DEFINE S == {v \in Workers : worker[v].slot}
<1>1. IsFiniteSet(Workers)
  BY QueueAssumption, FS_Interval DEF Workers
<1>2. S \in SUBSET Workers
  OBVIOUS
<1>3. IsFiniteSet(S)
  BY <1>1, <1>2, FS_Subset
<1>4. Cardinality(S) \in Nat
  BY <1>3, FS_CardinalityType
<1> QED BY <1>4 DEF Slots, QueueInv, TypeOK

LEMMA StartWake ==
  ASSUME QueueInv, WakeInv, NEW w \in Workers, NEW k \in Kinds,
         Start(w, k) \/ StartUncapped(w, k)
  PROVE  WakeInv'
<1>1. /\ UNCHANGED <<rows, deletion, deadSlots, disruptions>>
      /\ worker[w].step = "idle" /\ \E s \in BOOLEAN : Begin(w, k, s)
  BY DEF Start, StartUncapped, Takes, Fault, pages, counters
<1>2. worker'[w].step = "snapshot" /\ \A v \in Workers : v # w => worker'[v] = worker[v]
  BY <1>1 DEF Begin, Idle, QueueInv, TypeOK
<1>3. worker[w].ids = {}
  BY <1>1 DEF QueueInv, WorkerInv, Early
<1>4. ClaimsHaveHolders'
  <2>1. \A v \in Workers : worker[v].ids \subseteq worker'[v].ids
    BY <1>2, <1>3
  <2> QED BY <1>1, <2>1, HoldersStay DEF WakeInv, Fresh, Pending, Queued, Ids
<1>5. NoLostWakeup'
  BY <1>2, Attended
<1>6. IdleHoldsNoSlot'
  BY <1>2 DEF WakeInv, IdleHoldsNoSlot
<1> QED BY <1>1, <1>4, <1>5, <1>6, BatchWake DEF Ids

\* What the cap turns away is the business of StartCapped alone.
LEMMA StartCappedWake ==
  ASSUME QueueInv, WakeInv, NEW w \in Workers, NEW k \in Kinds, StartCapped(w, k)
  PROVE  WakeInv'
<1>1. UNCHANGED <<rows, deletion, worker, deadSlots, disruptions>>
      /\ worker[w].step = "idle" /\ ~(Slots < MaxInflight)
  <2>1. Slots >= MaxInflight /\ MaxInflight \in Nat /\ Slots \in Nat
    BY QueueAssumption, SlotsType DEF StartCapped
  <2> QED BY <2>1 DEF StartCapped, Takes, pages, counters
<1>2. disruptions = 0 => ~(PoolSize <= MaxInflight)
  BY <1>1, NeverCapped
<1>3. NoLostWakeup'
  BY <1>1, <1>2 DEF NoLostWakeup
<1>4. ClaimsHaveHolders' /\ IdleHoldsNoSlot'
  BY <1>1 DEF WakeInv, ClaimsHaveHolders, Fresh, Pending, Queued, Ids, IdleHoldsNoSlot
<1> QED BY <1>1, <1>3, <1>4, BatchWake DEF Ids

\* A batch that goes on with its claims, and writes but counters.
LEMMA WorksOn ==
  ASSUME QueueInv, WakeInv, NEW w \in Workers, NEW S \in SUBSET Ids, rows' = Drained(S),
         UNCHANGED <<deletion, deadSlots, disruptions>>,
         NEW c, worker' = [worker EXCEPT ![w] = c], c.ids = worker[w].ids,
         c.step \in {"enter", "write", "trim"}
  PROVE  WakeInv'
<1>1. /\ Ids' = Ids
      /\ \A r \in Ids : /\ rows'[r].doc = rows[r].doc /\ rows'[r].op = rows[r].op
                        /\ rows'[r].at = rows[r].at /\ rows'[r].claim = rows[r].claim
  BY DrainedRows
<1>2. worker'[w] = c /\ \A v \in Workers : v # w => worker'[v] = worker[v]
  BY DEF QueueInv, TypeOK
<1>3. ClaimsHaveHolders'
  <2>1. \A r \in Ids' : rows'[r].at = "queued" /\ rows'[r].claim = "fresh" => r \in Fresh
    BY <1>1 DEF Fresh, Pending, Queued
  <2>2. \A v \in Workers : worker[v].ids \subseteq worker'[v].ids
    BY <1>2
  <2> QED BY <2>1, <2>2, HoldersStay DEF WakeInv
<1>4. NoLostWakeup'
  BY <1>2, Attended
<1>5. IdleHoldsNoSlot'
  BY <1>2 DEF WakeInv, IdleHoldsNoSlot
<1> QED BY <1>1, <1>3, <1>4, <1>5, BatchWake

LEMMA WorkWake ==
  ASSUME QueueInv, WakeInv, NEW w \in Workers, Map(w) \/ EnterReduce(w) \/ WritePages(w)
  PROVE  WakeInv'
<1>1. UNCHANGED <<deletion, deadSlots, disruptions>>
  BY DEF Map, EnterReduce, WritePages, NoFault, Fault, counters, pages
<1>2. worker[w] \in WorkerRec /\ worker \in [Workers -> WorkerRec]
  BY TypesUsed DEF QueueInv, TypeOK, WorkerRec
<1>3. \A d \in Batch(w) : LastRow(w, d) \in Ids
  BY LastRows DEF QueueInv, TypeOK
<1>4. CASE Map(w)
  <2> DEFINE S == {LastRow(w, d) : d \in {e \in Ingests(w) : Abandoned(e)}}
  <2>1. S \in SUBSET Ids
    BY <1>3 DEF Ingests
  <2>2. rows' = Drained(S)
    BY <1>4 DEF Map
  <2>3. PICK o : worker' = [worker EXCEPT ![w].step = "enter", ![w].out = o]
    BY <1>4 DEF Map
  <2> DEFINE c == [worker[w] EXCEPT !.step = "enter", !.out = o]
  <2>4. worker' = [worker EXCEPT ![w] = c] /\ c.ids = worker[w].ids /\ c.step = "enter"
    BY <1>2, <2>3 DEF WorkerRec
  <2> HIDE DEF S, c
  <2> QED BY <1>1, <2>1, <2>2, <2>4, WorksOn
<1>5. CASE EnterReduce(w)
  <2>1. rows' = Drained({})
    <3>1. rows = [r \in Ids |-> rows[r]]
      BY DEF QueueInv, TypeOK, Ids
    <3> QED BY <1>5, <3>1 DEF EnterReduce, Drained
  <2>2. PICK o : worker' = [worker EXCEPT ![w].step = "write", ![w].out = o]
    BY <1>5 DEF EnterReduce
  <2> DEFINE c == [worker[w] EXCEPT !.step = "write", !.out = o]
  <2>3. worker' = [worker EXCEPT ![w] = c] /\ c.ids = worker[w].ids /\ c.step = "write"
    BY <1>2, <2>2 DEF WorkerRec
  <2> HIDE DEF c
  <2> QED BY <1>1, <2>1, <2>3, WorksOn
<1>6. CASE WritePages(w)
  <2> DEFINE S == {LastRow(w, d) : d \in With(w, {"ok", "dropped"})}
             c == [worker[w] EXCEPT !.step = "trim"]
  <2>1. S \in SUBSET Ids
    BY <1>3 DEF With
  <2>2. rows' = Drained(S)
    BY <1>6 DEF WritePages
  <2>3. worker' = [worker EXCEPT ![w] = c] /\ c.ids = worker[w].ids /\ c.step = "trim"
    BY <1>2, <1>6 DEF WritePages, Go, WorkerRec
  <2> HIDE DEF S, c
  <2> QED BY <1>1, <2>1, <2>2, <2>3, WorksOn
<1> QED BY <1>4, <1>5, <1>6

-----------------------------------------------------------------------------
\* Claiming.  What a batch has to claim is claimed by it, or by another.

\* A batch that claims nothing new and holds nothing.
LEMMA ClaimsNothing ==
  ASSUME QueueInv, WakeInv, NEW w \in Workers, worker[w].step \in {"snapshot", "lock", "stamp"},
         UNCHANGED <<rows, deletion, deadSlots, disruptions>>, NoLostWakeup',
         NEW c, worker' = [worker EXCEPT ![w] = c], c.step = "idle" => ~c.slot
  PROVE  WakeInv'
<1>1. worker'[w] = c /\ \A v \in Workers : v # w => worker'[v] = worker[v]
  BY DEF QueueInv, TypeOK
<1>2. worker[w].ids = {}
  BY DEF QueueInv, WorkerInv, Early
<1>3. ClaimsHaveHolders'
  <2>1. \A v \in Workers : worker[v].ids \subseteq worker'[v].ids
    BY <1>1, <1>2
  <2> QED BY <2>1, HoldersStay DEF WakeInv, Fresh, Pending, Queued, Ids
<1>4. IdleHoldsNoSlot'
  BY <1>1 DEF WakeInv, IdleHoldsNoSlot
<1> QED BY <1>3, <1>4, BatchWake DEF Ids

\* Whoever holds a claim is past claiming.
LEMMA HoldersWork ==
  ASSUME QueueInv, NEW v \in Workers, worker[v].ids # {}
  PROVE  worker[v].step \in {"map", "enter", "write", "trim", "requeue"}
<1>1. worker[v].step \notin Early /\ worker[v].step \in Steps
  BY TypesUsed DEF QueueInv, WorkerInv, WorkerRec
<1> QED BY <1>1 DEF Early, Steps

LEMMA SnapshotWake ==
  ASSUME QueueInv, WakeInv, NEW w \in Workers, ClaimSnapshot(w)
  PROVE  WakeInv'
<1> DEFINE A == Lowest({r \in Eligible : rows[r].doc \notin DocsOf(Fresh)})
           c == [worker[w] EXCEPT !.step = "lock", !.anchors = A]
<1>1. /\ UNCHANGED <<rows, deletion, waiting, deadSlots, disruptions>>
      /\ worker[w].step = "snapshot" /\ worker' = [worker EXCEPT ![w] = c]
      /\ c.step = "lock" /\ c.anchors = A
      /\ worker'[w] = c /\ \A v \in Workers : v # w => worker'[v] = worker[v]
  <2>1. worker[w] \in WorkerRec /\ worker \in [Workers -> WorkerRec]
    BY TypesUsed DEF QueueInv, TypeOK, WorkerRec
  <2> QED BY <2>1 DEF ClaimSnapshot, WorkerRec, pages, counters
<1> HIDE DEF c
<1>2. Pending' = Pending /\ Eligible' = Eligible /\ Ids' = Ids
  BY <1>1 DEF Pending, Eligible, Fresh, Queued, Ids
<1>3. NoLostWakeup'
  <2> SUFFICES ASSUME disruptions = 0, NEW r \in Pending
               PROVE  \E v \in Workers : Attends(v, r)'
    BY <1>1, <1>2 DEF NoLostWakeup
  <2>1. CASE rows[r].doc \in DocsOf(Fresh)
    <3>1. PICK q \in Fresh : rows[q].doc = rows[r].doc
      BY <2>1 DEF DocsOf
    <3>2. PICK v \in Workers : q \in worker[v].ids
      BY <3>1 DEF WakeInv, ClaimsHaveHolders
    <3>3. worker[v].step \in {"map", "enter", "write", "trim", "requeue"}
      BY <3>2, HoldersWork
    <3>4. worker'[v] = worker[v]
      BY <1>1, <3>3
    <3> QED BY <3>3, <3>4 DEF Attends
  <2>2. CASE rows[r].doc \notin DocsOf(Fresh)
    <3> DEFINE S == {q \in Eligible : rows[q].doc = rows[r].doc}
    <3>1. r \in Eligible
      BY <2>2 DEF Eligible, DocsOf
    <3>2. Len(rows) \in Nat /\ S \in SUBSET (1..Len(rows)) /\ S # {}
      BY <3>1, TypesUsed DEF Eligible, Pending
    <3>3. PICK a \in S : \A q \in S : a <= q
      <4> HIDE DEF S
      <4> QED BY <3>2, HasFirst
    <3>4. a \in A
      BY <2>2, <3>3 DEF Lowest
    <3> QED BY <1>1, <1>2, <3>3, <3>4 DEF Attends
  <2> QED BY <2>1, <2>2
<1> QED BY <1>1, <1>3, ClaimsNothing

LEMMA LockWake ==
  ASSUME QueueInv, WakeInv, NEW w \in Workers, ClaimLock(w)
  PROVE  WakeInv'
<1> DEFINE Q == {r \in worker[w].anchors : Queued(r)} \ Locked(w)
           A == Oldest(Q, BatchSize)
           c == [worker[w] EXCEPT !.step = "stamp", !.anchors = A]
<1>1. /\ UNCHANGED <<rows, deletion, waiting, deadSlots, disruptions>>
      /\ worker[w].step = "lock" /\ worker' = [worker EXCEPT ![w] = c]
      /\ c.step = "stamp" /\ c.anchors = A
      /\ worker'[w] = c /\ \A v \in Workers : v # w => worker'[v] = worker[v]
      /\ worker[w].anchors \subseteq Ids
  <2>1. worker[w] \in WorkerRec /\ worker \in [Workers -> WorkerRec]
    BY TypesUsed DEF QueueInv, TypeOK, WorkerRec
  <2> QED BY <2>1 DEF ClaimLock, WorkerRec, pages, counters
<1> HIDE DEF c
<1>2. Pending' = Pending /\ Eligible' = Eligible /\ Ids' = Ids
  BY <1>1 DEF Pending, Eligible, Fresh, Queued, Ids
<1>3. ASSUME NEW v \in Workers, v # w, NEW r, Attends(v, r)
      PROVE  Attends(v, r)'
  BY <1>1, <1>2, <1>3 DEF Attends, Claimable, RowsOf, DocsOf
<1>4. NoLostWakeup'
  <2> SUFFICES ASSUME PoolSize <= MaxInflight, disruptions = 0, NEW r \in Pending
               PROVE  \/ \E k \in Kinds : waiting[k] > 0
                      \/ \E v \in Workers : Attends(v, r)'
    BY <1>1, <1>2 DEF NoLostWakeup
  <2>1. \/ \E k \in Kinds : waiting[k] > 0
        \/ \E v \in Workers : Attends(v, r)
    BY DEF WakeInv, NoLostWakeup
  <2>2. CASE Attends(w, r)
    <3>1. PICK a \in worker[w].anchors : a \in Eligible
      BY <1>1, <2>2 DEF Attends
    <3>2. CASE a \in Locked(w)
      <4>1. PICK v \in Workers \ {w} : worker[v].step = "stamp" /\ a \in worker[v].anchors
        BY <3>2 DEF Locked
      <4>2. a \in Claimable(v)
        BY <3>1, <4>1 DEF Claimable, RowsOf, DocsOf
      <4>3. Attends(v, r)
        BY <4>1, <4>2 DEF Attends
      <4> QED BY <1>3, <4>1, <4>3
    <3>3. CASE a \notin Locked(w)
      <4>1. Len(rows) \in Nat /\ Q \in SUBSET (1..Len(rows)) /\ Q # {}
        BY <1>1, <3>1, <3>3, TypesUsed DEF Eligible, Pending
      <4>2. PICK b \in Q : \A q \in Q : b <= q
        <5> HIDE DEF Q
        <5> QED BY <4>1, HasFirst
      <4>3. b \in A
        <5>1. {q \in Q : q < b} = {}
          <6> HIDE DEF Q
          <6> QED BY <4>1, <4>2
        <5> HIDE DEF Q
        <5>2. Cardinality({q \in Q : q < b}) = 0
          BY <5>1, FS_EmptySet
        <5>3. 0 < BatchSize
          BY QueueAssumption
        <5> QED BY <4>2, <5>2, <5>3 DEF Oldest
      <4>4. b \in Pending
        BY <1>1, <4>2 DEF Pending
      <4>5. CASE b \in Fresh
        <5>1. PICK v \in Workers : b \in worker[v].ids
          BY <4>5 DEF WakeInv, ClaimsHaveHolders
        <5>2. worker[v].step \in {"map", "enter", "write", "trim", "requeue"}
          BY <5>1, HoldersWork
        <5>3. worker'[v] = worker[v]
          BY <1>1, <5>2
        <5> QED BY <5>2, <5>3 DEF Attends
      <4>6. CASE b \notin Fresh
        <5>1. b \in Eligible'
          BY <1>2, <4>4, <4>6 DEF Eligible
        <5>2. b \in Claimable(w)'
          BY <1>1, <4>3, <5>1 DEF Claimable, RowsOf, DocsOf
        <5> QED BY <1>1, <5>2 DEF Attends
      <4> QED BY <4>5, <4>6
    <3> QED BY <3>2, <3>3
  <2> QED BY <1>3, <2>1, <2>2
<1> QED BY <1>1, <1>4, ClaimsNothing

LEMMA StampWake ==
  ASSUME QueueInv, WakeInv, NEW w \in Workers, ClaimStamp(w)
  PROVE  WakeInv'
<1> DEFINE R == Claimable(w)
           c == [worker[w] EXCEPT !.step = "map", !.anchors = {}, !.ids = R]
<1>1. /\ UNCHANGED <<deletion, deadSlots, disruptions>> /\ worker[w].step = "stamp"
      /\ rows' = [r \in Ids |-> IF r \in R THEN [rows[r] EXCEPT !.claim = "fresh"] ELSE rows[r]]
      /\ c.step = "map" /\ c.ids = R
      /\ worker'[w] = c /\ \A v \in Workers : v # w => worker'[v] = worker[v]
  <2>1. worker[w] \in WorkerRec /\ worker \in [Workers -> WorkerRec]
    BY TypesUsed DEF QueueInv, TypeOK, WorkerRec
  <2> QED BY <2>1 DEF ClaimStamp, WorkerRec, pages, counters
<1> HIDE DEF c, R
<1>2. /\ Ids' = Ids
      /\ \A r \in Ids : /\ rows'[r].doc = rows[r].doc /\ rows'[r].op = rows[r].op
                        /\ rows'[r].at = rows[r].at
                        /\ r \notin R => rows'[r] = rows[r]
  <2>1. \A r \in Ids : rows[r] \in Row
    BY TypesUsed
  <2> QED BY <1>1, <2>1 DEF Ids, Row
<1>3. worker[w].ids = {}
  BY <1>1 DEF QueueInv, WorkerInv, Early
<1>4. ClaimsHaveHolders'
  <2> SUFFICES ASSUME disruptions = 0, NEW r \in Fresh'
               PROVE  \E v \in Workers : r \in worker'[v].ids
    BY <1>1 DEF ClaimsHaveHolders
  <2>1. CASE r \in R
    BY <1>1, <2>1
  <2>2. CASE r \notin R
    <3>1. r \in Fresh
      BY <1>2, <2>2 DEF Fresh, Pending, Queued
    <3>2. PICK v \in Workers : r \in worker[v].ids
      BY <3>1 DEF WakeInv, ClaimsHaveHolders
    <3> QED BY <1>1, <1>3, <3>2
  <2> QED BY <2>1, <2>2
<1>5. NoLostWakeup'
  BY <1>1, Attended
<1>6. IdleHoldsNoSlot'
  BY <1>1 DEF WakeInv, IdleHoldsNoSlot
<1> QED BY <1>1, <1>2, <1>4, <1>5, <1>6, BatchWake

\* A batch that finds nothing was attending to nothing.
LEMMA NothingWake ==
  ASSUME QueueInv, WakeInv, NEW w \in Workers, ClaimNothing(w)
  PROVE  WakeInv'
<1>1. /\ UNCHANGED <<rows, deletion, deadSlots, disruptions>>
      /\ worker[w].step = "stamp" /\ Claimable(w) = {}
      /\ worker' = [worker EXCEPT ![w] = Idle] /\ Idle.step = "idle" /\ ~Idle.slot
      /\ \A v \in Workers : v # w => worker'[v] = worker[v]
  BY DEF ClaimNothing, Return, Idle, pages, counters, QueueInv, TypeOK
<1>2. \A k \in Kinds : waiting[k] > 0 => waiting'[k] > 0
  BY DEF ClaimNothing, OneMore, QueueInv, TypeOK
<1>3. Pending' = Pending /\ Eligible' = Eligible
  BY <1>1 DEF Pending, Eligible, Fresh, Queued, Ids
<1>4. ASSUME NEW v \in Workers, NEW r, Attends(v, r)
      PROVE  Attends(v, r)'
  <2>1. v # w
    BY <1>1, <1>4 DEF Attends
  <2> QED BY <1>1, <1>3, <1>4, <2>1 DEF Attends, Claimable, RowsOf, DocsOf
<1>5. NoLostWakeup'
  BY <1>1, <1>2, <1>3, <1>4 DEF WakeInv, NoLostWakeup
<1> QED BY <1>1, <1>5, ClaimsNothing

LEMMA LoadFailsWake ==
  ASSUME QueueInv, WakeInv, NEW w \in Workers, LoadFails(w)
  PROVE  WakeInv'
<1>1. /\ UNCHANGED <<rows, deletion, deadSlots, disruptions>>
      /\ worker[w].step \in {"snapshot", "lock", "stamp"}
      /\ worker' = [worker EXCEPT ![w] = Idle] /\ Idle.step = "idle" /\ ~Idle.slot
  BY DEF LoadFails, RetryTask, Return, Fault, Idle, pages
<1>2. waiting'[worker[w].kind] > 0 /\ worker[w].kind \in Kinds
  BY TypesUsed DEF LoadFails, RetryTask, OneMore, QueueInv, TypeOK, WorkerRec
<1>3. NoLostWakeup'
  BY <1>2, Attended
<1> QED BY <1>1, <1>3, ClaimsNothing

-----------------------------------------------------------------------------
\* Settlement: a batch that ends has looked at the queue.

LEMMA EndsWake ==
  ASSUME QueueInv, WakeInv, NEW w \in Workers, Return(w),
         UNCHANGED <<deletion, deadSlots, disruptions>>, Ids' = Ids,
         \A r \in Ids : rows'[r].doc = rows[r].doc /\ rows'[r].op = rows[r].op,
         \A r \in Ids \ worker[w].ids : rows'[r] = rows[r],
         \A r \in worker[w].ids : rows'[r].at = "queued" => rows'[r].claim = "free",
         \/ Pending' = {}
         \/ waiting' = OneMore("plain") \/ waiting' = OneMore(worker[w].kind)
  PROVE  WakeInv'
<1>1. ClaimsHaveHolders'
  <2>1. \A r \in Ids' : rows'[r].at = "queued" /\ rows'[r].claim = "fresh"
                         => r \in Fresh /\ r \notin worker[w].ids
    BY DEF Fresh, Pending, Queued
  <2> QED BY <2>1, HoldersEnd DEF WakeInv
<1>2. NoLostWakeup'
  <2>1. CASE Pending' = {}
    BY <2>1 DEF NoLostWakeup
  <2>2. CASE waiting' = OneMore("plain") \/ waiting' = OneMore(worker[w].kind)
    <3>1. worker[w].kind \in Kinds /\ "plain" \in Kinds /\ waiting \in [Kinds -> Nat]
      BY TypesUsed DEF WorkerRec, Kinds, QueueInv, TypeOK
    <3>2. PICK k \in Kinds : waiting' = OneMore(k)
      BY <2>2, <3>1
    <3>3. waiting'[k] > 0
      BY <3>1, <3>2 DEF OneMore
    <3> QED BY <3>3, Attended
  <2> QED BY <2>1, <2>2
<1>3. IdleHoldsNoSlot'
  BY DEF WakeInv, IdleHoldsNoSlot, Return, Idle, QueueInv, TypeOK
<1> QED BY <1>1, <1>2, <1>3, BatchWake

LEMMA TrimWake ==
  ASSUME QueueInv, WakeInv, NEW w \in Workers, Trim(w)
  PROVE  WakeInv'
<1>1. /\ UNCHANGED <<deletion, deadSlots, disruptions>>
      /\ worker[w].step = "trim" /\ rows' = Trimmed(w) /\ worker[w].ids \subseteq Ids
  BY DEF Trim, pages, counters, QueueInv, TypeOK
<1>2. /\ rows' = [r \in Ids |-> rows'[r]]
      /\ \A r \in Ids \ worker[w].ids : rows'[r] = rows[r]
      /\ \A r \in worker[w].ids :
           /\ rows'[r].doc = rows[r].doc /\ rows'[r].op = rows[r].op
           /\ rows'[r].at = "queued" => rows'[r] = rows[r] /\ Queued(r) /\ Failing(w, r)
  BY <1>1, TrimmedRows
<1>3. Ids' = Ids /\ \A r \in Ids : rows'[r].doc = rows[r].doc /\ rows'[r].op = rows[r].op
  BY <1>2 DEF Ids
<1>4. CASE FailedRows(w) = {}
  <2>1. \A r \in worker[w].ids : rows'[r].at # "queued"
    BY <1>2, <1>4, FailingRows
  <2>2. Return(w) /\ (Pending' = {} \/ waiting' = OneMore("plain"))
    BY <1>4 DEF Trim, FollowUp
  <2> QED BY <1>1, <1>2, <1>3, <2>1, <2>2, EndsWake
<1>5. CASE FailedRows(w) # {}
  <2>1. /\ worker'[w] = [worker[w] EXCEPT !.step = "requeue"]
        /\ \A v \in Workers : v # w => worker'[v] = worker[v]
    BY <1>5 DEF Trim, Go, QueueInv, TypeOK
  <2>2. worker'[w].step = "requeue" /\ worker'[w].ids = worker[w].ids
    BY <2>1, TypesUsed DEF WorkerRec
  <2>3. ClaimsHaveHolders'
    <3>1. \A r \in Ids' : rows'[r].at = "queued" /\ rows'[r].claim = "fresh" => r \in Fresh
      BY <1>2, <1>3 DEF Fresh, Pending, Queued
    <3>2. \A v \in Workers : worker[v].ids \subseteq worker'[v].ids
      BY <2>1, <2>2
    <3> QED BY <1>1, <3>1, <3>2, HoldersStay DEF WakeInv
  <2>4. NoLostWakeup'
    BY <2>2, Attended
  <2>5. IdleHoldsNoSlot'
    BY <2>1, <2>2 DEF WakeInv, IdleHoldsNoSlot
  <2> QED BY <1>1, <1>3, <2>3, <2>4, <2>5, BatchWake
<1> QED BY <1>4, <1>5

\* A row that goes back to the queue, or to the dead letters, is free.
LEMMA RequeuedFree ==
  ASSUME NEW r, rows[r] \in Row
  PROVE  /\ Requeued(r).doc = rows[r].doc /\ Requeued(r).op = rows[r].op
         /\ Requeued(r).at = "queued" => Queued(r) /\ Requeued(r).claim = "free"
<1>1. CASE ~Queued(r)
  BY <1>1 DEF Requeued, Queued
<1>2. CASE Queued(r) /\ rows[r].fails < MaxFailRetries
  BY <1>2 DEF Requeued, Row
<1>3. CASE Queued(r) /\ ~(rows[r].fails < MaxFailRetries)
  <2>1. Requeued(r) = [Gone(r, "dead") EXCEPT !.drains = IF rows[r].op = "ingest" THEN @ + 1 ELSE @]
    BY <1>3 DEF Requeued
  <2>2. /\ Gone(r, "dead") \in Row /\ Gone(r, "dead").at = "dead"
        /\ Gone(r, "dead").doc = rows[r].doc /\ Gone(r, "dead").op = rows[r].op
    BY GoneRow
  <2> QED BY <2>1, <2>2 DEF Row
<1> QED BY <1>1, <1>2, <1>3

LEMMA RequeueWake ==
  ASSUME QueueInv, WakeInv, NEW w \in Workers, Requeue(w)
  PROVE  WakeInv'
<1>1. /\ UNCHANGED <<deletion, deadSlots, disruptions>> /\ Return(w)
      /\ worker[w].step = "requeue" /\ WorkerInv(w) /\ worker[w].ids \subseteq Ids
      /\ rows' = [r \in Ids |-> IF r \in FailedRows(w) THEN Requeued(r) ELSE rows[r]]
      /\ Pending' = {} \/ waiting' = OneMore("plain")
  BY DEF Requeue, FollowUp, pages, counters, QueueInv, TypeOK
<1>2. FailedRows(w) = {r \in worker[w].ids : Failing(w, r)}
  BY FailingRows
<1>3. Ids' = Ids /\ \A r \in Ids : rows[r] \in Row
  BY <1>1, TypesUsed DEF Ids
<1>4. \A r \in Ids : rows'[r].doc = rows[r].doc /\ rows'[r].op = rows[r].op
  BY <1>1, <1>3, RequeuedFree
<1>5. ASSUME NEW r \in worker[w].ids, rows'[r].at = "queued"
      PROVE  rows'[r].claim = "free"
  <2>1. CASE r \in FailedRows(w)
    BY <1>1, <1>3, <1>5, <2>1, RequeuedFree
  <2>2. CASE r \notin FailedRows(w)
    <3>1. Queued(r)
      BY <1>1, <1>5, <2>2 DEF Queued
    <3> QED BY <1>1, <1>2, <2>2, <3>1 DEF WorkerInv
  <2> QED BY <2>1, <2>2
<1>6. \A r \in Ids \ worker[w].ids : rows'[r] = rows[r]
  BY <1>1, <1>2
<1> QED BY <1>1, <1>3, <1>4, <1>5, <1>6, EndsWake

LEMMA SettleFailsWake ==
  ASSUME QueueInv, WakeInv, NEW w \in Workers, SettleFails(w)
  PROVE  WakeInv'
<1>1. /\ UNCHANGED <<deletion, deadSlots, disruptions>> /\ Return(w)
      /\ worker[w].ids \subseteq Ids /\ waiting' = OneMore(worker[w].kind)
  BY DEF SettleFails, RetryTask, Fault, pages, QueueInv, TypeOK
<1>2. PICK done \in SUBSET FailedRows(w) :
        \E kept \in SUBSET {r \in FailedRows(w) \ done : Exhausted(r)} :
          rows' = [r \in Ids |-> IF r \in done THEN Requeued(r)
                                 ELSE IF r \in kept THEN [Freed(r) EXCEPT !.drains = @ + 1]
                                 ELSE IF r \in worker[w].ids THEN Freed(r)
                                 ELSE rows[r]]
  BY DEF SettleFails
<1>3. PICK kept \in SUBSET {r \in FailedRows(w) \ done : Exhausted(r)} :
        rows' = [r \in Ids |-> IF r \in done THEN Requeued(r)
                               ELSE IF r \in kept THEN [Freed(r) EXCEPT !.drains = @ + 1]
                               ELSE IF r \in worker[w].ids THEN Freed(r)
                               ELSE rows[r]]
  BY <1>2
<1>4. FailedRows(w) \subseteq worker[w].ids
  BY FailingRows
<1>5. Ids' = Ids /\ \A r \in Ids : rows[r] \in Row
  BY <1>3, TypesUsed DEF Ids
<1>6. ASSUME NEW r \in Ids
      PROVE  /\ rows'[r].doc = rows[r].doc /\ rows'[r].op = rows[r].op
             /\ r \in worker[w].ids /\ rows'[r].at = "queued" => rows'[r].claim = "free"
             /\ r \notin worker[w].ids => rows'[r] = rows[r]
  <2>1. /\ Freed(r).doc = rows[r].doc /\ Freed(r).op = rows[r].op /\ Freed(r).claim = "free"
        /\ Freed(r) \in Row
    BY <1>5 DEF Freed, Row
  <2>2. CASE r \in done
    BY <1>3, <1>4, <1>5, <2>2, RequeuedFree
  <2>3. CASE r \in kept /\ r \notin done
    <3>1. rows'[r] = [Freed(r) EXCEPT !.drains = @ + 1] /\ r \in worker[w].ids
      BY <1>3, <1>4, <2>3
    <3> QED BY <2>1, <3>1 DEF Row
  <2>4. CASE r \notin kept /\ r \notin done
    BY <1>3, <2>1, <2>4
  <2> QED BY <2>2, <2>3, <2>4
<1> QED BY <1>1, <1>5, <1>6, EndsWake

LEMMA CrashWake ==
  ASSUME QueueInv, WakeInv, NEW w \in Workers, Crash(w)
  PROVE  WakeInv'
<1>1. UNCHANGED <<rows, deletion>> /\ disruptions' # 0
  BY TypesUsed DEF Crash, pages
<1>2. Tombstones'
  BY <1>1 DEF WakeInv, Tombstones, Abandoned, Ids
<1>3. IdleHoldsNoSlot'
  BY DEF Crash, RetryTask, Return, Idle, WakeInv, IdleHoldsNoSlot, QueueInv, TypeOK
<1> QED BY <1>1, <1>2, <1>3 DEF WakeInv, ClaimsHaveHolders, NoLostWakeup

\* A claim expires only when its batch died.
LEMMA ExpiresWake ==
  ASSUME QueueInv, WakeInv, NEW q \in Ids, ClaimExpires(q)
  PROVE  WakeInv'
<1>1. /\ UNCHANGED <<deletion, worker, deadSlots, disruptions>>
      /\ q \in Fresh /\ \A w \in Workers : q \notin worker[w].ids
      /\ rows' = [rows EXCEPT ![q].claim = "stale"]
  BY DEF ClaimExpires, pages, counters
<1>2. disruptions # 0
  BY <1>1 DEF WakeInv, ClaimsHaveHolders
<1>3. /\ Ids' = Ids
      /\ \A r \in Ids : rows'[r].doc = rows[r].doc /\ rows'[r].op = rows[r].op
  BY <1>1, TypesUsed DEF Ids, Row
<1> QED BY <1>1, <1>2, <1>3, BatchWake
        DEF WakeInv, ClaimsHaveHolders, NoLostWakeup, IdleHoldsNoSlot

LEMMA StepWake == QueueInv /\ WakeInv /\ [Next]_vars => WakeInv'
<1> SUFFICES ASSUME QueueInv, WakeInv, [Next]_vars PROVE WakeInv'
  OBVIOUS
<1>1. CASE UNCHANGED vars
  <2>1. UNCHANGED <<rows, deletion, waiting, worker, deadSlots, disruptions>>
    BY <1>1 DEF vars
  <2>2. NoLostWakeup'
    BY <2>1, StillAttended DEF WakeInv, Ids, Pending
  <2>3. ClaimsHaveHolders' /\ IdleHoldsNoSlot'
    BY <2>1 DEF WakeInv, ClaimsHaveHolders, Fresh, Pending, Queued, Ids, IdleHoldsNoSlot
  <2> QED BY <2>1, <2>2, <2>3, BatchWake DEF Ids
<1>2. CASE \E d \in Docs : Client(d)
  BY <1>2, ClientWake
<1>3. CASE DeleteKB \/ SweepKB \/ Restart \/ SlotExpires
  BY <1>3, SweepWake
<1>4. CASE \E w \in Workers, k \in Kinds : TaskStarts(w, k) \/ StartUncapped(w, k)
  BY <1>4, StartWake, StartCappedWake, SweepWake DEF TaskStarts
<1>5. CASE \E w \in Workers : BatchStep(w)
  BY <1>5, SnapshotWake, LockWake, StampWake, NothingWake, WorkWake, TrimWake, RequeueWake
     DEF BatchStep
<1>6. CASE \E w \in Workers : LoadFails(w) \/ SettleFails(w) \/ Crash(w)
  BY <1>6, LoadFailsWake, SettleFailsWake, CrashWake
<1>7. CASE \E r \in Ids : ClaimExpires(r)
  BY <1>7, ExpiresWake
<1> QED BY <1>1, <1>2, <1>3, <1>4, <1>5, <1>6, <1>7 DEF Next

\* The invariant of the lane with what keeps its queue moving.
THEOREM WakeInvariant == Spec => [](QueueInv /\ WakeInv)
BY InitInv, InitWake, StepInv, StepWake, PTL DEF Spec

\* wiki_ingest_batch.go: unless something died, a queued row has a trigger
\* waiting or a batch that attends to it, where the cap binds no pool.
THEOREM NothingIsForgotten == Spec => []NoLostWakeup
<1>1. WakeInv => NoLostWakeup
  BY DEF WakeInv
<1> QED BY <1>1, WakeInvariant, PTL

\* Unless something died, every claim is held by a running batch.
THEOREM ClaimsAreHeld == Spec => []ClaimsHaveHolders
<1>1. WakeInv => ClaimsHaveHolders
  BY DEF WakeInv
<1> QED BY <1>1, WakeInvariant, PTL
====
