----------------------------- MODULE WikiQueue -----------------------------
(***************************************************************************)
(* The wiki lane of one knowledge base in standard mode (Postgres, Redis): *)
(* durable rows in task_pending_ops, the asynq triggers that wake batches, *)
(* the in-flight slots, and the batches that claim rows, write wiki pages  *)
(* and settle what they claimed.                                           *)
(*   application/repository/task_queue.go                                  *)
(*   application/service/wiki_ingest.go, wiki_ingest_batch.go              *)
(*   application/service/knowledge_delete.go (the wiki side of a delete)   *)
(*   container/recover_pending_wiki_tasks.go                               *)
(***************************************************************************)
EXTENDS Naturals, Sequences, FiniteSets

CONSTANTS Docs,           \* documents of the knowledge base (dedup keys)
          PoolSize,       \* places of the wiki worker pool
          BatchSize,      \* distinct documents in a claim
          MaxInflight,    \* batches of one knowledge base at a time
          MaxFailRetries, \* failures of one operation before its dead letter
          MaxRows,        \* bound: operations ever enqueued
          MaxTrouble      \* bound: failing statements and models (faults), workers that
                          \* die, restarts, lost triggers and the deletion of the
                          \* knowledge base (disruptions)

ASSUME QueueAssumption ==
    /\ IsFiniteSet(Docs)
    /\ PoolSize \in Nat \ {0}
    /\ BatchSize \in Nat \ {0} /\ MaxInflight \in Nat \ {0}
    /\ {MaxFailRetries, MaxRows, MaxTrouble} \subseteq Nat

VARIABLES
    rows,      \* task_pending_ops in order of id; a deleted row keeps its place
    page,      \* documents that a wiki page of the knowledge base refers to
    deletion,  \* how far the deletion of a document has come
    kb,        \* the knowledge base: active, deleted, or deleted and swept
    waiting,   \* triggers in the queue, by kind
    net,       \* the armed recheck, and the rows that were claimed when it was armed
    worker,    \* the pool
    deadSlots, \* in-flight slots of workers that died
    faults, disruptions   \* counted events

vars == <<rows, page, deletion, kb, waiting, net, worker, deadSlots,
          faults, disruptions>>

Workers == 1..PoolSize
Ops == {"ingest", "retract"}
Kinds == {"plain", "capped", "recheck"}
Steps == {"idle", "snapshot", "lock", "stamp", "map", "enter", "write",
          "trim", "requeue"}
Outcomes == {"none", "ok", "seen", "failed", "skipped", "dropped", "unapplied"}

Idle == [step |-> "idle", kind |-> "plain", slot |-> FALSE, anchors |-> {},
         ids |-> {}, out |-> [d \in Docs |-> "none"]]

NoNet == [armed |-> FALSE, covered |-> {}]

counters == <<faults, disruptions>>
pages == <<page, deletion, kb>>

----------------------------------------------------------------------------
\* Rows

Ids == DOMAIN rows
Queued(r) == rows[r].at = "queued"
Pending == {r \in Ids : Queued(r)}
Fresh == {r \in Pending : rows[r].claim = "fresh"}
Eligible == Pending \ Fresh
RowsOf(D, R) == {r \in R : rows[r].doc \in D}
DocsOf(R) == {rows[r].doc : r \in R}
Lowest(R) == {r \in R : \A q \in R : rows[q].doc = rows[r].doc => r <= q}
Oldest(R, n) == {r \in R : Cardinality({q \in R : q < r}) < n}

\* rows held by FOR UPDATE of a claim that has not committed
Locked(w) == UNION {worker[v].anchors : v \in {u \in Workers \ {w} : worker[u].step = "stamp"}}
AllLocked == UNION {worker[v].anchors : v \in {u \in Workers : worker[u].step = "stamp"}}

Gone(r, how) == [rows[r] EXCEPT !.at = how, !.claim = "free", !.fails = 0]
Removed(R, how) == [r \in Ids |-> IF r \in R /\ Queued(r) THEN Gone(r, how) ELSE rows[r]]
Freed(r) == [rows[r] EXCEPT !.claim = "free"]

\* the documents of a batch and their last operation (decodePendingRows)
LastRow(w, d) == CHOOSE r \in worker[w].ids :
                    rows[r].doc = d /\ \A q \in worker[w].ids : rows[q].doc = d => q <= r
Batch(w) == DocsOf(worker[w].ids)
OpOf(w, d) == rows[LastRow(w, d)].op

Abandoned(d) == deletion[d] # "no"

----------------------------------------------------------------------------
\* Triggers.  A stable task id is taken while its task waits or runs.

Taken(k) == waiting[k] > 0 \/ \E w \in Workers : worker[w].step # "idle" /\ worker[w].kind = k
OneMore(k) == [waiting EXCEPT ![k] = @ + 1]
Coalesced(k) == IF Taken(k) THEN waiting ELSE OneMore(k)

Slots == Cardinality({w \in Workers : worker[w].slot}) + deadSlots
Return(w) == worker' = [worker EXCEPT ![w] = Idle]
Go(w, step) == worker' = [worker EXCEPT ![w].step = step]

Fault == faults + disruptions < MaxTrouble /\ faults' = faults + 1 /\ UNCHANGED disruptions
NoFault == UNCHANGED counters

\* the task returns an error and asynq retries it
RetryTask(w) == waiting' = OneMore(worker[w].kind) /\ Return(w)

----------------------------------------------------------------------------
\* Clients

\* Variant: a plain insert, no look at the knowledge base.
AppendAnyway(d, op) ==
    rows' = Append(rows, [doc |-> d, op |-> op, at |-> "queued", claim |-> "free",
                          fails |-> 0, drains |-> 0])

\* enqueueWikiPendingOp refuses a deleted knowledge base in the transaction
\* of the insert; the trigger follows and may be lost
Append1(d, op) ==
    rows' = IF kb = "active"
            THEN Append(rows, [doc |-> d, op |-> op, at |-> "queued", claim |-> "free",
                               fails |-> 0, drains |-> 0])
            ELSE rows

Enqueue(d, op) ==
    /\ Len(rows) < MaxRows
    /\ Append1(d, op)
    /\ \/ waiting' = (IF kb = "active" THEN OneMore("plain") ELSE waiting) /\ NoFault
       \/ /\ kb = "active" /\ faults + disruptions < MaxTrouble
          /\ disruptions' = disruptions + 1
          /\ UNCHANGED <<waiting, faults>>
    /\ UNCHANGED <<page, kb, net, worker, deadSlots>>

EnqueueIngest(d) ==
    /\ ~Abandoned(d)
    /\ Enqueue(d, "ingest")
    /\ UNCHANGED deletion

\* DeleteByDedupKey(op = ingest), whoever has claimed the rows
Scrubbed(d) == Removed({r \in Ids : rows[r].doc = d /\ rows[r].op = "ingest"}, "dropped")

\* (the reparse will enqueue its own row)
ScrubForReparse(d) ==
    /\ ~Abandoned(d) /\ Len(rows) < MaxRows
    /\ RowsOf({d}, Pending) # {}
    /\ RowsOf({d}, AllLocked) = {}
    /\ rows' = Scrubbed(d)
    /\ UNCHANGED <<pages, waiting, net, worker, deadSlots, counters>>

\* a deletion: tombstone and scrub, pages of the moment, retract row
MarkDeleted(d) ==
    /\ deletion[d] = "no" /\ Len(rows) < MaxRows
    /\ RowsOf({d}, AllLocked) = {}
    /\ rows' = Scrubbed(d)
    /\ deletion' = [deletion EXCEPT ![d] = "scrubbed"]
    /\ UNCHANGED <<page, kb, waiting, net, worker, deadSlots, counters>>

CleanPages(d) ==
    /\ deletion[d] = "scrubbed"
    /\ page' = page \ {d}
    /\ deletion' = [deletion EXCEPT ![d] = "cleaned"]
    /\ UNCHANGED <<rows, kb, waiting, net, worker, deadSlots, counters>>

EnqueueRetract(d) ==
    /\ deletion[d] = "cleaned"
    /\ Enqueue(d, "retract")
    /\ deletion' = [deletion EXCEPT ![d] = "done"]

\* the knowledge base: soft deletion, then the scrub of its scope
DeleteKB ==
    /\ kb = "active" /\ faults + disruptions < MaxTrouble
    /\ disruptions' = disruptions + 1
    /\ kb' = "deleted"
    /\ UNCHANGED <<rows, page, deletion, waiting, net, worker, deadSlots, faults>>

SweepKB ==
    /\ kb = "deleted" /\ AllLocked = {}
    /\ kb' = "swept"
    /\ rows' = Removed(Ids, "dropped")
    /\ UNCHANGED <<page, deletion, waiting, net, worker, deadSlots, counters>>

----------------------------------------------------------------------------
\* A batch

\* a recheck fires 90 minutes after it was armed: every claim of that time
\* has ended or is stale
Takes(w, k) ==
    /\ worker[w].step = "idle" /\ waiting[k] > 0
    /\ \A v \in 1..(w - 1) : worker[v].step # "idle"   \* the places are alike
    /\ k = "recheck" /\ net.armed => net.covered \cap Fresh = {}
    /\ net' = IF k = "recheck" THEN NoNet ELSE net

Minus(k) == [waiting EXCEPT ![k] = @ - 1]
Begin(w, k, slot) ==
    worker' = [worker EXCEPT ![w] = [Idle EXCEPT !.step = "snapshot", !.kind = k, !.slot = slot]]

\* the handler finds the knowledge base, then reserves a slot
Start(w, k) ==
    /\ Takes(w, k) /\ kb = "active"
    /\ Slots < MaxInflight
    /\ waiting' = Minus(k)
    /\ Begin(w, k, TRUE)
    /\ UNCHANGED <<rows, pages, deadSlots, counters>>

\* Redis failed: the batch runs uncapped
StartUncapped(w, k) ==
    /\ Takes(w, k) /\ kb = "active" /\ Fault
    /\ waiting' = Minus(k)
    /\ Begin(w, k, FALSE)
    /\ UNCHANGED <<rows, pages, deadSlots>>

\* no slot: a capped retry is scheduled, unless its id is taken, be it by the
\* very task that runs
StartCapped(w, k) ==
    /\ Takes(w, k) /\ kb = "active"
    /\ Slots >= MaxInflight
    /\ waiting' = IF Taken("capped") THEN Minus(k) ELSE [Minus(k) EXCEPT !["capped"] = 1]
    /\ UNCHANGED <<rows, pages, worker, deadSlots, counters>>

\* the knowledge base is deleted: its rows go
StartDeleted(w, k) ==
    /\ Takes(w, k) /\ kb # "active"
    /\ AllLocked = {}
    /\ rows' = Removed(Ids, "dropped")
    /\ waiting' = Minus(k)
    /\ UNCHANGED <<pages, worker, deadSlots, counters>>

\* ClaimBatch, first statement: its snapshot ...
ClaimSnapshot(w) ==
    /\ worker[w].step = "snapshot"
    /\ worker' = [worker EXCEPT ![w].step = "lock",
                     ![w].anchors = Lowest({r \in Eligible : rows[r].doc \notin DocsOf(Fresh)})]
    /\ UNCHANGED <<rows, pages, waiting, net, deadSlots, counters>>

\* ... and the rows it locks: a row that another claim stamped since the
\* snapshot still qualifies, for the outer query does not look at claimed_at
ClaimLock(w) ==
    /\ worker[w].step = "lock"
    /\ worker' = [worker EXCEPT ![w].step = "stamp",
                     ![w].anchors = Oldest({r \in @ : Queued(r)} \ Locked(w), BatchSize)]
    /\ UNCHANGED <<rows, pages, waiting, net, deadSlots, counters>>

\* Variant: the last statement takes every row of the keys, claimed or not.
ClaimableAny(w) == RowsOf(DocsOf(worker[w].anchors), Pending)

Claimable(w) == RowsOf(DocsOf(worker[w].anchors), Eligible)

\* second and third statement and the commit
ClaimStamp(w) ==
    /\ worker[w].step = "stamp" /\ Claimable(w) # {}
    /\ rows' = [r \in Ids |-> IF r \in Claimable(w)
                              THEN [rows[r] EXCEPT !.claim = "fresh"] ELSE rows[r]]
    /\ net' = [net EXCEPT !.covered = @ \ Claimable(w)]
    /\ worker' = [worker EXCEPT ![w].step = "map", ![w].anchors = {}, ![w].ids = Claimable(w)]
    /\ UNCHANGED <<pages, waiting, deadSlots, counters>>

\* scheduleStaleClaimRecheck, under a stable task id
ArmsRecheck == Pending # {} /\ ~Taken("recheck")

\* nothing to claim
ClaimNothing(w) ==
    /\ worker[w].step = "stamp" /\ Claimable(w) = {}
    /\ waiting' = IF ArmsRecheck THEN OneMore("recheck") ELSE waiting
    /\ net' = IF ArmsRecheck THEN [armed |-> TRUE, covered |-> Fresh] ELSE net
    /\ Return(w)
    /\ UNCHANGED <<rows, pages, deadSlots, counters>>

\* an error before anything is claimed: the task is retried
LoadFails(w) ==
    /\ worker[w].step \in {"snapshot", "lock", "stamp"}
    /\ RetryTask(w) /\ Fault
    /\ UNCHANGED <<rows, pages, net, deadSlots>>

----------------------------------------------------------------------------
\* What it does with its documents

Ingests(w) == {d \in Batch(w) : OpOf(w, d) = "ingest"}
With(w, outcomes) == {d \in Batch(w) : worker[w].out[d] \in outcomes}
FailedRows(w) == {LastRow(w, d) : d \in With(w, {"failed", "unapplied"})}
Drained(R) == [r \in Ids |-> IF r \in R THEN [rows[r] EXCEPT !.drains = @ + 1] ELSE rows[r]]

\* mapOneDocument skips an abandoned document and releases its slot; a
\* retraction looks up the pages that refer to its document now
Map(w) ==
    /\ worker[w].step = "map"
    /\ LET skip == {d \in Ingests(w) : Abandoned(d)}
           live == Ingests(w) \ skip IN
       \E F \in SUBSET live :
          /\ IF F = {} THEN NoFault ELSE Fault
          /\ worker' = [worker EXCEPT ![w].step = "enter",
                ![w].out = [d \in Docs |->
                    IF d \in F THEN "failed" ELSE IF d \in live THEN "ok"
                    ELSE IF d \in skip THEN "skipped"
                    ELSE IF d \in Batch(w) \cap page THEN "seen" ELSE "none"]]
          /\ rows' = Drained({LastRow(w, d) : d \in skip})
    /\ UNCHANGED <<pages, waiting, net, deadSlots>>

\* the page locks: a page that another batch is writing is waited for or given up
Busy(w) == UNION {With(v, {"ok", "seen"}) : v \in {u \in Workers \ {w} : worker[u].step = "write"}}

EnterReduce(w) ==
    /\ worker[w].step = "enter"
    /\ LET wanted == With(w, {"ok", "seen"}) IN
       \E U \in SUBSET wanted :
          /\ wanted \cap Busy(w) \subseteq U
          /\ IF U \subseteq Busy(w) THEN NoFault ELSE Fault
          /\ worker' = [worker EXCEPT ![w].step = "write",
                ![w].out = [d \in Docs |->
                    IF d \in U THEN "unapplied"
                    ELSE IF @[d] = "ok" /\ Abandoned(d) THEN "dropped"   \* filterLiveUpdates
                    ELSE @[d]]]
    /\ UNCHANGED <<rows, pages, waiting, net, deadSlots>>

\* ... and after the model has written the page, it is stored; the slots of
\* the documents that are done are released next (nobody reads both)
WritePages(w) ==
    /\ worker[w].step = "write"
    /\ page' = (page \ With(w, {"seen"})) \cup With(w, {"ok"})
    /\ rows' = Drained({LastRow(w, d) : d \in With(w, {"ok", "dropped"})})
    /\ Go(w, "trim")
    /\ UNCHANGED <<deletion, kb, waiting, net, deadSlots, counters>>

----------------------------------------------------------------------------
\* Settlement

\* Variant: the dead letter of an ingest does not release its document's slot.
RequeuedSilently(r) ==
    IF ~Queued(r) THEN rows[r]
    ELSE IF rows[r].fails < MaxFailRetries
         THEN [rows[r] EXCEPT !.fails = @ + 1, !.claim = "free"]
         ELSE Gone(r, "dead")

Requeued(r) ==
    IF ~Queued(r) THEN rows[r]
    ELSE IF rows[r].fails < MaxFailRetries
         THEN [rows[r] EXCEPT !.fails = @ + 1, !.claim = "free"]
         ELSE [Gone(r, "dead") EXCEPT !.drains = IF rows[r].op = "ingest" THEN @ + 1 ELSE @]

Unlocked(w) == worker[w].ids \cap AllLocked = {}

Trimmed(w) ==
    LET last == {LastRow(w, d) : d \in Batch(w)} IN
    [r \in Ids |-> IF Queued(r) /\ r \in worker[w].ids \ FailedRows(w)
                   THEN Gone(r, IF r \in last THEN "settled" ELSE "dropped")
                   ELSE rows[r]]

\* Variant: a batch that settled its rows schedules nothing.
NoFollowUp(w) == UNCHANGED waiting /\ Return(w)

\* with the last row settled, scheduleFollowUp asks whether rows are pending
FollowUp(w) ==
    /\ waiting' = IF Pending' = {} THEN waiting ELSE OneMore("plain")
    /\ Return(w)

Trim(w) ==
    /\ worker[w].step = "trim" /\ Unlocked(w)
    /\ rows' = Trimmed(w)
    /\ IF FailedRows(w) = {} THEN FollowUp(w) ELSE Go(w, "requeue") /\ UNCHANGED waiting
    /\ UNCHANGED <<pages, net, deadSlots, counters>>

Requeue(w) ==
    /\ worker[w].step = "requeue" /\ Unlocked(w)
    /\ rows' = [r \in Ids |-> IF r \in FailedRows(w) THEN Requeued(r) ELSE rows[r]]
    /\ FollowUp(w)
    /\ UNCHANGED <<pages, net, deadSlots, counters>>

\* a failing statement: what is left is released and the task is retried; a
\* dead letter whose row could not be deleted has released its slot already
Exhausted(r) == Queued(r) /\ rows[r].op = "ingest" /\ rows[r].fails = MaxFailRetries

SettleFails(w) ==
    /\ worker[w].step \in {"trim", "requeue"} /\ Unlocked(w)
    /\ \E done \in SUBSET FailedRows(w) :
       \E kept \in SUBSET {r \in FailedRows(w) \ done : Exhausted(r)} :
         /\ worker[w].step = "trim" => done = FailedRows(w)
         /\ rows' = [r \in Ids |-> IF r \in done THEN Requeued(r)
                                   ELSE IF r \in kept THEN [Freed(r) EXCEPT !.drains = @ + 1]
                                   ELSE IF r \in worker[w].ids THEN Freed(r)
                                   ELSE rows[r]]
    /\ RetryTask(w) /\ Fault
    /\ UNCHANGED <<pages, net, deadSlots>>

----------------------------------------------------------------------------
\* Crashes and time

Crash(w) ==
    /\ worker[w].step # "idle" /\ faults + disruptions < MaxTrouble
    /\ disruptions' = disruptions + 1
    /\ RetryTask(w)
    /\ deadSlots' = IF worker[w].slot THEN deadSlots + 1 ELSE deadSlots
    /\ UNCHANGED <<rows, pages, net, faults>>

\* RecoverPendingWikiTasks, when a process starts
Restart ==
    /\ faults + disruptions < MaxTrouble /\ AllLocked = {}
    /\ disruptions' = disruptions + 1
    /\ rows' = IF kb = "active" THEN rows ELSE Removed(Ids, "dropped")
    /\ waiting' = IF kb = "active" /\ Pending # {} THEN OneMore("plain") ELSE waiting
    /\ UNCHANGED <<pages, net, worker, deadSlots, faults>>

SlotExpires ==
    /\ deadSlots > 0
    /\ deadSlots' = deadSlots - 1
    /\ UNCHANGED <<rows, pages, waiting, net, worker, counters>>

\* a claim is stale after 90 minutes, when no batch (60 minutes at most) runs
\* that took it; an armed recheck outlasts only the claims it covers
ClaimExpires(r) ==
    /\ r \in Fresh /\ \A w \in Workers : r \notin worker[w].ids
    /\ net.armed => r \in net.covered
    /\ rows' = [rows EXCEPT ![r].claim = "stale"]
    /\ UNCHANGED <<pages, waiting, net, worker, deadSlots, counters>>

----------------------------------------------------------------------------
Init ==
    /\ rows = <<>> /\ page = {} /\ kb = "active"
    /\ deletion = [d \in Docs |-> "no"]
    /\ waiting = [k \in Kinds |-> 0]
    /\ net = NoNet
    /\ worker = [w \in Workers |-> Idle]
    /\ deadSlots = 0 /\ faults = 0 /\ disruptions = 0

Client(d) ==
    \/ EnqueueIngest(d) \/ ScrubForReparse(d)
    \/ MarkDeleted(d) \/ CleanPages(d) \/ EnqueueRetract(d)

TaskStarts(w, k) == Start(w, k) \/ StartCapped(w, k) \/ StartDeleted(w, k)

BatchStep(w) ==
    \/ ClaimSnapshot(w) \/ ClaimLock(w) \/ ClaimStamp(w) \/ ClaimNothing(w)
    \/ Map(w) \/ EnterReduce(w) \/ WritePages(w) \/ Trim(w) \/ Requeue(w)

Next ==
    \/ \E d \in Docs : Client(d)
    \/ DeleteKB \/ SweepKB
    \/ \E w \in Workers, k \in Kinds : TaskStarts(w, k) \/ StartUncapped(w, k)
    \/ \E w \in Workers : BatchStep(w) \/ LoadFails(w) \/ SettleFails(w) \/ Crash(w)
    \/ Restart \/ SlotExpires
    \/ \E r \in Ids : ClaimExpires(r)

Spec == Init /\ [][Next]_vars

\* asynq hands out triggers, batches take their steps, a deletion that began
\* runs on, time passes: as long as one of them can, one of them does
System ==
    \/ \E w \in Workers : BatchStep(w)
    \/ \E w \in Workers, k \in Kinds : TaskStarts(w, k)
    \/ SlotExpires \/ SweepKB
    \/ \E r \in Ids : ClaimExpires(r)

Fairness == WF_vars(System)

LiveSpec == Spec /\ Fairness

----------------------------------------------------------------------------
Row == [doc : Docs, op : Ops, at : {"queued", "settled", "dead", "dropped"},
        claim : {"free", "fresh", "stale"}, fails : 0..MaxFailRetries, drains : Nat]

TypeOK ==
    /\ rows \in Seq(Row) /\ Len(rows) <= MaxRows
    /\ page \subseteq Docs
    /\ deletion \in [Docs -> {"no", "scrubbed", "cleaned", "done"}]
    /\ kb \in {"active", "deleted", "swept"}
    /\ waiting \in [Kinds -> Nat]
    /\ waiting["capped"] <= 1 /\ waiting["recheck"] <= 1
    /\ net \in [armed : BOOLEAN, covered : SUBSET Ids]
    /\ worker \in [Workers -> [step : Steps, kind : Kinds, slot : BOOLEAN,
                               anchors : SUBSET Ids, ids : SUBSET Ids, out : [Docs -> Outcomes]]]
    /\ deadSlots \in Nat
    /\ {faults, disruptions} \subseteq Nat

\* ClaimBatch: no two running batches hold the same operation, whatever their
\* snapshots were.
RowHasOneWorker ==
    \A v, w \in Workers : v # w => worker[v].ids \cap worker[w].ids = {}

\* finalizeWikiSubtask: an ingest that leaves the queue by the hand of a batch
\* has released its document's slot, and only settlements that were cut short
\* release it again.
SettledReleasesSlot ==
    \A r \in Ids :
        /\ rows[r].op = "ingest" /\ rows[r].at \in {"settled", "dead"} => rows[r].drains >= 1
        /\ rows[r].drains <= 1 + faults + disruptions

\* EnqueueIfKnowledgeBaseActive: once the scrub of a deleted knowledge base has
\* run, no operation is in its queue, although batches and clients of it go on.
DeletedQueueStaysEmpty == kb = "swept" => Pending = {}

\* wiki_ingest_batch.go: what keeps the queue moving.  A batch that is about to
\* claim will see a row, or has seen it and still finds it (or its elders) to
\* claim; a batch that holds claims looks at the queue when it ends.
Attends(w, r) ==
    \/ worker[w].step \in {"snapshot", "map", "enter", "write", "trim", "requeue"}
    \/ /\ worker[w].step = "lock"
       /\ \E a \in worker[w].anchors : a \in Eligible /\ rows[a].doc = rows[r].doc
    \/ worker[w].step = "stamp" /\ Claimable(w) # {}

\* No wake-up is lost: with a pool that the cap of a knowledge base does not
\* bind, and unless something died, whatever is queued has a trigger waiting or a
\* batch that attends to it, however triggers, claims and settlements overlap.
NoLostWakeup ==
    PoolSize <= MaxInflight /\ disruptions = 0 =>
        \A r \in Pending :
            (\E k \in Kinds : waiting[k] > 0) \/ (\E w \in Workers : Attends(w, r))

\* The queue drains: unless a worker or a client dies, whatever is queued is
\* settled in the end, failures and retries included.
QueueDrains == (Pending # {}) ~> (Pending = {} \/ disruptions > 0)
=============================================================================
