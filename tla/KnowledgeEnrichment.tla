------------------------ MODULE KnowledgeEnrichment ------------------------
(***************************************************************************)
(* The life of ONE knowledge row (a document being ingested): its          *)
(* parse_status, its pending_subtasks_count, and the asynq tasks and API   *)
(* calls that write them.  A parse attempt runs a document task, which     *)
(* hands over to a post-process task; that one seeds the counter and fans  *)
(* out enrichment subtasks, each of which drains one slot when it ends.    *)
(* The subtask that drains the last slot promotes the row to "completed".  *)
(* A fan-out is one run of a post-process task together with the subtasks  *)
(* it spawned; a redelivered document or post-process task starts another. *)
(***************************************************************************)
EXTENDS Naturals, FiniteSets

CONSTANTS Subtasks,      \* the enrichment subtasks a fan-out may plan
          Summaries,     \* those that save the whole knowledge row
          WikiOps,       \* the one kept as a pending op, not an asynq task
          Plans,         \* the sets of subtasks a document may call for
          IndexedStatuses, \* what a document is after indexing (see below)
          MaxRequests,   \* bound: parse requests (the upload and reparses)
          MaxRetries,    \* bound: asynq retries (and wiki fail_count) of a task
          MaxFaults,     \* bound: worker crashes and failed drain UPDATEs
          UserOps,       \* which API calls the user makes
          WikiInsertFails \* may the INSERT of the wiki op fail?

ASSUME EnrichmentAssumption ==
    /\ Summaries \subseteq Subtasks
    /\ WikiOps \subseteq Subtasks
    /\ Summaries \cap WikiOps = {}
    /\ IsFiniteSet(Subtasks)
    /\ Plans \subseteq SUBSET Subtasks
    \* a document with any text chunk gets a summary, the other subtasks
    \* are per text chunk too
    /\ \A plan \in Plans \ {{}} : plan \cap Summaries # {}
    /\ IndexedStatuses \subseteq {"processing", "completed"}
    /\ MaxRequests \in Nat \ {0}
    /\ MaxRetries \in Nat
    /\ MaxFaults \in Nat
    /\ UserOps \subseteq {"cancel", "reparse", "delete"}
    /\ WikiInsertFails \in BOOLEAN

VARIABLES row,       \* the knowledges row: parse_status and the slot counter
          latest,    \* newest attempt in knowledge_processing_spans
          requests,  \* parse requests made so far
          doc,       \* per parse request: its document:process task
          fans,      \* fan-outs started so far
          fan,       \* per fan-out: its post-process task
          sub,       \* per fan-out and subtask: the subtask's task or op
          user,      \* where the API call in progress is
          sweeping,  \* housekeeping has chosen this row and not written yet
          faults     \* faults that happened (bounded by MaxFaults)

vars == <<row, latest, requests, doc, fans, fan, sub, user, sweeping, faults>>

-----------------------------------------------------------------------------
Statuses == {"pending", "processing", "finalizing", "completed", "failed",
             "cancelled", "deleting", "gone"}
Busy     == {"pending", "processing", "finalizing"}
Aborted  == {"cancelled", "deleting", "gone"}

Requests == 1 .. MaxRequests
Fanouts  == 1 .. (MaxRequests + MaxFaults)
Tries    == 0 .. MaxRetries

DocPCs == {"none", "queued", "entered", "marking", "opening", "parsing",
           "indexed", "handing", "acking", "done"}
FanPCs == {"none", "queued", "planned", "spawning", "promoting", "acking",
           "done"}
SubPCs == {"none", "lost", "queued", "started", "loaded", "working",
           "saved", "draining", "promoting", "acking", "done"}

DocTasks == [pc : DocPCs, left : Tries, attempt : Nat]
FanTasks == [pc : FanPCs, left : Tries, attempt : Nat,
             plan : SUBSET Subtasks]
SubTasks == [pc : SubPCs, left : Tries, seen : Statuses]
UserPCs  == {"idle", "cancelling", "dequeuing", "reparse_save",
             "reparse_reset", "reparse_enqueue", "delete_dequeue",
             "delete_row"}

TypeOK ==
    /\ row \in [status : Statuses, count : Nat]
    /\ latest \in Nat
    /\ requests \in Requests
    /\ doc \in [Requests -> DocTasks]
    /\ fans \in 0 .. (MaxRequests + MaxFaults)
    /\ fan \in [Fanouts -> FanTasks]
    /\ sub \in [Fanouts -> [Subtasks -> SubTasks]]
    /\ user \in UserPCs
    /\ sweeping \in BOOLEAN
    /\ faults \in 0 .. MaxFaults

NewDoc(pc, attempt) == [pc |-> pc, left |-> MaxRetries, attempt |-> attempt]
NoSub      == [pc |-> "none", left |-> MaxRetries, seen |-> "pending"]
NoFan      == [pc |-> "none", left |-> MaxRetries, attempt |-> 0, plan |-> {}]

\* An uploaded file: a pending row, no attempt open yet, request 1's document
\* task queued.
Init ==
    /\ row = [status |-> "pending", count |-> 0]
    /\ latest = 0
    /\ requests = 1
    /\ doc = [r \in Requests |-> NewDoc(IF r = 1 THEN "queued" ELSE "none", 0)]
    /\ fans = 0
    /\ fan = [g \in Fanouts |-> NoFan]
    /\ sub = [g \in Fanouts |-> [k \in Subtasks |-> NoSub]]
    /\ user = "idle"
    /\ sweeping = FALSE
    /\ faults = 0

-----------------------------------------------------------------------------
(* The statements that write the row.  An UPDATE skips a soft-deleted row; *)
(* the upsert a Save falls back to then leaves its DeletedAt alone.        *)

\* UpdateKnowledge: Save of every column but pending_subtasks_count and
\* DeletedAt (omitFieldsOnUpdate).
Save(status) ==
    IF row.status = "gone" THEN row ELSE [row EXCEPT !.status = status]

\* UpdateKnowledgeColumns with parse_status and pending_subtasks_count.
Reset(status) ==
    IF row.status = "gone" THEN row ELSE [status |-> status, count |-> 0]

\* FinalizeSubtask, statement 1: clamped decrement, whatever the status.
Decremented ==
    IF row.status # "gone" /\ row.count > 0
    THEN [row EXCEPT !.count = @ - 1] ELSE row

\* Variant: a promote that does not wait for the last slot.
PromotedAnyCount ==
    IF row.status = "finalizing" THEN [row EXCEPT !.status = "completed"] ELSE row

\* FinalizeSubtask, statement 2: promote an empty finalizing row.
Promoted ==
    IF row.status = "finalizing" /\ row.count = 0
    THEN [row EXCEPT !.status = "completed"] ELSE row

\* A handler returned an error: asynq retries it or archives it.
Retried(task) ==
    IF task.left > 0 THEN [task EXCEPT !.pc = "queued", !.left = @ - 1]
                     ELSE [task EXCEPT !.pc = "done"]

-----------------------------------------------------------------------------
(* ProcessDocument and processChunks for parse request r.                  *)

DocStep(r, from, to) ==
    /\ doc[r].pc = from
    /\ doc' = [doc EXCEPT ![r].pc = to]

DocOnly == UNCHANGED <<latest, requests, sub, user, sweeping, faults>>

\* Entry guard: aborted and completed rows are left alone; a failed or
\* finalizing one is only logged about.
DocEnter(r) ==
    /\ DocStep(r, "queued", IF row.status \in Aborted \cup {"completed"}
                            THEN "done" ELSE "entered")
    /\ UNCHANGED <<row, fans, fan>> /\ DocOnly

\* The abort check right before the row is marked processing ...
DocRecheck(r) ==
    /\ DocStep(r, "entered", IF row.status \in Aborted THEN "done" ELSE "marking")
    /\ UNCHANGED <<row, fans, fan>> /\ DocOnly

\* ... and the full-row Save that marks it.  Only a reparse's task carries
\* the number of its attempt.
DocMark(r) ==
    /\ DocStep(r, "marking", IF r = 1 THEN "opening" ELSE "parsing")
    /\ row' = Save("processing")
    /\ UNCHANGED <<fans, fan>> /\ DocOnly

\* Every try of the upload's task opens an attempt of its own.
DocOpen(r) ==
    /\ doc[r].pc = "opening"
    /\ latest' = latest + 1
    /\ doc' = [doc EXCEPT ![r].pc = "parsing", ![r].attempt = latest + 1]
    /\ UNCHANGED <<row, requests, fans, fan, sub, user, sweeping, faults>>

\* Converting, chunking and indexing end well: the last abort check.
DocIndex(r) ==
    /\ DocStep(r, "parsing", IF row.status \in Aborted THEN "done" ELSE "indexed")
    /\ UNCHANGED <<row, fans, fan>> /\ DocOnly

\* A retryable conversion error; the last try saves "failed" first.
DocError(r) ==
    /\ doc[r].pc = "parsing"
    /\ doc' = [doc EXCEPT ![r] = Retried(@)]
    /\ row' = IF doc[r].left > 0 THEN row ELSE Save("failed")
    /\ UNCHANGED <<fans, fan>> /\ DocOnly

\* A terminal error: "failed" is saved and the task is not retried.
DocFail(r) ==
    /\ doc[r].pc \in {"entered", "parsing"}
    /\ doc' = [doc EXCEPT ![r].pc = "done"]
    /\ row' = Save("failed")
    /\ UNCHANGED <<fans, fan>> /\ DocOnly

\* The row, or the embedding model, cannot be read: the task just ends.
DocGiveUp(r) ==
    /\ doc[r].pc \in {"queued", "marking", "parsing"}
    /\ doc' = [doc EXCEPT ![r].pc = "done"]
    /\ UNCHANGED <<row, fans, fan>> /\ DocOnly

\* While converting, the row in memory is saved for its file type or title.
DocTouch(r) ==
    /\ DocStep(r, "parsing", "parsing")
    /\ row' = Save("processing")
    /\ UNCHANGED <<fans, fan>> /\ DocOnly

\* finalizeIndexedKnowledgeState: a document with text or images stays
\* processing, one with neither is complete.  A failing Save is only logged.
DocSaveIndexed(r) ==
    /\ DocStep(r, "indexed", "handing")
    /\ \/ \E status \in IndexedStatuses : row' = Save(status)
       \/ UNCHANGED row
    /\ UNCHANGED <<fans, fan>> /\ DocOnly

\* Enqueue the post-process task; a failed enqueue is only logged.
DocHandOff(r) ==
    /\ DocStep(r, "handing", "acking")
    /\ \/ /\ fans' = fans + 1
          /\ fan' = [fan EXCEPT ![fans + 1] =
                        [NoFan EXCEPT !.pc = "queued", !.attempt = doc[r].attempt]]
       \/ UNCHANGED <<fans, fan>>
    /\ UNCHANGED row /\ DocOnly

DocAck(r) ==
    /\ DocStep(r, "acking", "done")
    /\ UNCHANGED <<row, fans, fan>> /\ DocOnly

Document(r) ==
    \/ DocEnter(r) \/ DocRecheck(r) \/ DocMark(r) \/ DocOpen(r) \/ DocIndex(r)
    \/ DocError(r) \/ DocFail(r) \/ DocGiveUp(r) \/ DocTouch(r)
    \/ DocSaveIndexed(r) \/ DocHandOff(r) \/ DocAck(r)

-----------------------------------------------------------------------------
(* KnowledgePostProcessService.Handle of fan-out g.                        *)

FanOnly == UNCHANGED <<latest, requests, doc, fans, user, sweeping, faults>>

\* Read the row: only a processing one is enriched.
PostRead(g) ==
    /\ fan[g].pc = "queued"
    /\ fan' = [fan EXCEPT ![g].pc = IF row.status = "processing"
                                    THEN "planned" ELSE "acking"]
    /\ UNCHANGED <<row, sub>> /\ FanOnly

\* The knowledge base or the chunks could not be read.
PostError(g) ==
    /\ fan[g].pc \in {"queued", "planned"}
    /\ fan' = [fan EXCEPT ![g] = Retried(@)]
    /\ UNCHANGED <<row, sub>> /\ FanOnly

\* Nothing to enrich: the row is completed by an unconditional UPDATE.
PostNothing(g) ==
    /\ fan[g].pc = "planned"
    /\ {} \in Plans
    /\ row' = Save("completed")
    /\ fan' = [fan EXCEPT ![g].pc = "acking"]
    /\ UNCHANGED sub /\ FanOnly

\* SetFinalizing: seed the counter if the row is still processing.
PostSeed(g) ==
    /\ fan[g].pc = "planned"
    /\ row.status = "processing"
    /\ \E plan \in Plans \ {{}} :
          /\ row' = [status |-> "finalizing", count |-> Cardinality(plan)]
          /\ fan' = [fan EXCEPT ![g].pc = "spawning", ![g].plan = plan]
    /\ UNCHANGED sub /\ FanOnly

\* The row is no longer processing, or the UPDATE failed: no fan-out.
PostSkip(g) ==
    /\ fan[g].pc = "planned"
    /\ fan' = [fan EXCEPT ![g].pc = "acking"]
    /\ UNCHANGED <<row, sub>> /\ FanOnly

Unspawned(g) == {k \in fan[g].plan : sub[g][k].pc = "none"}

\* Variant: post-process does not reconcile the counter.
ShortfallForgotten(g) == {}

\* The slots whose subtask was not enqueued.  The wiki op is not among them:
\* EnqueueWikiIngest returns nothing to tell by.
Shortfall(g) == {k \in fan[g].plan \ WikiOps : sub[g][k].pc = "lost"}

MayBeLost(k) == k \in WikiOps => WikiInsertFails

\* Enqueue one planned subtask (or insert the wiki op), or fail to.
PostSpawn(g) ==
    /\ fan[g].pc = "spawning"
    /\ \E k \in Unspawned(g) :
          \/ sub' = [sub EXCEPT ![g][k].pc = "queued"]
          \/ MayBeLost(k) /\ sub' = [sub EXCEPT ![g][k].pc = "lost"]
    /\ UNCHANGED <<row, fan>> /\ FanOnly

\* Release the slot of one subtask that was not enqueued: the decrement ...
PostRelease(g) ==
    /\ fan[g].pc = "spawning"
    /\ Unspawned(g) = {}
    /\ \E k \in Shortfall(g) : sub' = [sub EXCEPT ![g][k].pc = "done"]
    /\ row' = Decremented
    /\ fan' = [fan EXCEPT ![g].pc = "promoting"]
    /\ FanOnly

\* ... and the promote.
PostPromote(g) ==
    /\ fan[g].pc = "promoting"
    /\ row' = Promoted
    /\ fan' = [fan EXCEPT ![g].pc = "spawning"]
    /\ UNCHANGED sub /\ FanOnly

PostEnd(g) ==
    /\ fan[g].pc = "spawning"
    /\ Unspawned(g) = {} /\ Shortfall(g) = {}
    /\ fan' = [fan EXCEPT ![g].pc = "acking"]
    /\ UNCHANGED <<row, sub>> /\ FanOnly

PostAck(g) ==
    /\ fan[g].pc = "acking"
    /\ fan' = [fan EXCEPT ![g].pc = "done"]
    /\ UNCHANGED <<row, sub>> /\ FanOnly

PostProcess(g) ==
    \/ PostRead(g) \/ PostError(g) \/ PostNothing(g) \/ PostSeed(g)
    \/ PostSkip(g) \/ PostSpawn(g) \/ PostRelease(g) \/ PostPromote(g) \/ PostEnd(g)
    \/ PostAck(g)

-----------------------------------------------------------------------------
(* The enrichment subtasks of fan-out g: summary, question batches, graph  *)
(* extraction of a chunk, and the wiki op.                                 *)

SubOnly == UNCHANGED <<latest, requests, doc, fans, fan, user, sweeping>>

SubStep(g, k, from, to) ==
    /\ sub[g][k].pc = from
    /\ sub' = [sub EXCEPT ![g][k].pc = to]

\* attemptSuperseded, evaluated once, at the start of the handler.
Superseded(g) == fan[g].attempt < latest

\* A superseded asynq subtask ends without draining.
SubStart(g, k) ==
    /\ k \notin WikiOps
    /\ SubStep(g, k, "queued", IF Superseded(g) THEN "done" ELSE "started")
    /\ UNCHANGED <<row, faults>> /\ SubOnly

\* The wiki batch claims the pending op (it knows of no attempt); older ops
\* of the same knowledge collapse into the one it works on.
WikiClaim(g, k) ==
    /\ k \in WikiOps
    /\ sub[g][k].pc = "queued"
    /\ sub' = [h \in Fanouts |-> [j \in Subtasks |->
                 IF h = g /\ j = k THEN [sub[h][j] EXCEPT !.pc = "started"]
                 ELSE IF j = k /\ sub[h][j].pc = "queued"
                      THEN [sub[h][j] EXCEPT !.pc = "done"]
                      ELSE sub[h][j]]]
    /\ UNCHANGED <<row, faults>> /\ SubOnly

\* A missing model, or a row or knowledge base that cannot be read: nothing
\* is done and nothing is retried, but the slot is drained.
SubSkip(g, k) ==
    /\ SubStep(g, k, "started", "draining")
    /\ UNCHANGED <<row, faults>> /\ SubOnly

\* Read the row: an aborted one has nothing to enrich, the slot is drained.
SubRead(g, k) ==
    /\ sub[g][k].pc = "started"
    /\ sub' = [sub EXCEPT ![g][k] =
          [@ EXCEPT !.seen = row.status,
                    !.pc = IF row.status \in Aborted THEN "draining"
                           ELSE IF k \in Summaries THEN "loaded"
                           ELSE "working"]]
    /\ UNCHANGED <<row, faults>> /\ SubOnly

\* The summary task saves the row it read, to set summary_status ...
SummaryMark(g, k) ==
    /\ k \in Summaries
    /\ SubStep(g, k, "loaded", "working")
    /\ row' = Save(sub[g][k].seen)
    /\ UNCHANGED faults /\ SubOnly

\* ... and again, after the LLM call, to set the description or the failure.
SummarySave(g, k) ==
    /\ k \in Summaries
    /\ SubStep(g, k, "working", "saved")
    /\ row' = Save(sub[g][k].seen)
    /\ UNCHANGED faults /\ SubOnly

SubSucceed(g, k) ==
    /\ SubStep(g, k, IF k \in Summaries THEN "saved" ELSE "working", "draining")
    /\ UNCHANGED <<row, faults>> /\ SubOnly

\* Variant: every failing try drains.
SubErrorDrains(g, k) ==
    /\ sub[g][k].pc \in {"working", "saved"}
    /\ sub' = [sub EXCEPT ![g][k] =
          IF @.left > 0 THEN Retried(@) ELSE [@ EXCEPT !.pc = "draining"]]
    /\ row' = IF sub[g][k].left > 0 THEN Decremented ELSE row
    /\ UNCHANGED faults /\ SubOnly

\* An error: retried without draining, drained on the final attempt.
SubError(g, k) ==
    /\ sub[g][k].pc \in {"working", "saved"}
    /\ sub' = [sub EXCEPT ![g][k] =
          IF @.left > 0 THEN Retried(@) ELSE [@ EXCEPT !.pc = "draining"]]
    /\ UNCHANGED <<row, faults>> /\ SubOnly

\* finalizeSubtaskDetached: the decrement ...
SubDrain(g, k) ==
    /\ SubStep(g, k, "draining", "promoting")
    /\ row' = Decremented
    /\ UNCHANGED faults /\ SubOnly

\* ... which the handler only logs about when either UPDATE fails ...
SubDrainFails(g, k) ==
    /\ faults < MaxFaults
    /\ faults' = faults + 1
    /\ \E from \in {"draining", "promoting"} : SubStep(g, k, from, "acking")
    /\ UNCHANGED row /\ SubOnly

\* ... and the promote.
SubPromote(g, k) ==
    /\ SubStep(g, k, "promoting", "acking")
    /\ row' = Promoted
    /\ UNCHANGED faults /\ SubOnly

\* The task is acknowledged (the wiki op's row is deleted).
SubAck(g, k) ==
    /\ SubStep(g, k, "acking", "done")
    /\ UNCHANGED <<row, faults>> /\ SubOnly

Enrich(g, k) ==
    \/ SubStart(g, k) \/ WikiClaim(g, k) \/ SubSkip(g, k) \/ SubRead(g, k)
    \/ SummaryMark(g, k) \/ SummarySave(g, k) \/ SubSucceed(g, k)
    \/ SubError(g, k) \/ SubDrain(g, k) \/ SubPromote(g, k) \/ SubAck(g, k)

-----------------------------------------------------------------------------
(* The API calls.  One call is in progress at a time; workers interleave   *)
(* with its steps.                                                         *)

UserOnly == UNCHANGED <<fans, fan, sweeping, faults>>

UserStep(from, to) == user = from /\ user' = to

\* CancelTasksForKnowledge deletes the queued asynq tasks of the knowledge,
\* scrubWikiPendingIngest the wiki op.
Dequeued(task) == IF task.pc = "queued" THEN [task EXCEPT !.pc = "done"] ELSE task
DequeuedSubs(kinds) ==
    [g \in Fanouts |-> [k \in Subtasks |->
        IF k \in kinds THEN Dequeued(sub[g][k]) ELSE sub[g][k]]]
Dequeue ==
    /\ doc' = [r \in Requests |-> Dequeued(doc[r])]
    /\ fan' = [g \in Fanouts |-> Dequeued(fan[g])]

\* CancelKnowledgeParse reads the row; a finished one is refused.
CancelStart ==
    /\ "cancel" \in UserOps
    /\ \/ row.status \in Busy /\ UserStep("idle", "cancelling")
       \/ row.status = "cancelled" /\ UserStep("idle", "dequeuing")
    /\ UNCHANGED <<row, latest, requests, doc, sub>> /\ UserOnly

\* Variant: the cancel forgets pending_subtasks_count.
CancelWriteKeepsSlots ==
    /\ UserStep("cancelling", "dequeuing")
    /\ row' = Save("cancelled")
    /\ UNCHANGED <<latest, requests, doc, sub>> /\ UserOnly

\* The row is cancelled and its counter zeroed in one UPDATE.
CancelWrite ==
    /\ UserStep("cancelling", "dequeuing")
    /\ row' = Reset("cancelled")
    /\ UNCHANGED <<latest, requests, doc, sub>> /\ UserOnly

CancelDequeue ==
    /\ UserStep("dequeuing", "idle")
    /\ Dequeue
    /\ sub' = DequeuedSubs(Subtasks)
    /\ UNCHANGED <<row, latest, requests, fans, sweeping, faults>>

\* ReparseKnowledge opens the attempt and scrubs the wiki op; the asynq
\* tasks of the attempt before stay queued.  (A rejected call has not
\* scrubbed yet; one whose clean-up failed has.)
ReparseOpen ==
    /\ "reparse" \in UserOps
    /\ row.status # "gone" /\ requests < MaxRequests
    /\ UserStep("idle", "reparse_save")
    /\ latest' = latest + 1
    /\ requests' = requests + 1
    /\ doc' = [doc EXCEPT ![requests + 1].attempt = latest + 1]
    /\ sub' = DequeuedSubs(WikiOps)
    /\ UNCHANGED row /\ UserOnly

ReparseSave ==
    /\ UserStep("reparse_save", "reparse_reset")
    /\ row' = Save("pending")
    /\ UNCHANGED <<latest, requests, doc, sub>> /\ UserOnly

ReparseReset ==
    /\ UserStep("reparse_reset", "reparse_enqueue")
    /\ row' = Reset(row.status)
    /\ UNCHANGED <<latest, requests, doc, sub>> /\ UserOnly

\* Rejected overrides or a failing clean-up: the attempt stays open.
ReparseAbort ==
    /\ UserStep("reparse_save", "idle")
    /\ UNCHANGED <<row, latest, requests, doc, sub>> /\ UserOnly

\* A failed enqueue is only logged.
ReparseEnqueue ==
    /\ UserStep("reparse_enqueue", "idle")
    /\ \/ doc' = [doc EXCEPT ![requests].pc = "queued"]
       \/ UNCHANGED doc
    /\ UNCHANGED <<row, latest, requests, sub>> /\ UserOnly

\* DeleteKnowledge marks the row; queued tasks go if it was still parsing.
DeleteMark ==
    /\ "delete" \in UserOps
    /\ row.status # "gone"
    /\ UserStep("idle", IF row.status \in {"pending", "processing"}
                        THEN "delete_dequeue" ELSE "delete_row")
    /\ row' = Save("deleting")
    /\ UNCHANGED <<latest, requests, doc, sub>> /\ UserOnly

DeleteDequeue ==
    /\ UserStep("delete_dequeue", "delete_row")
    /\ Dequeue
    /\ sub' = DequeuedSubs(Subtasks \ WikiOps)
    /\ UNCHANGED <<row, latest, requests, fans, sweeping, faults>>

\* Scrub the wiki op and soft-delete the row, unless a clean-up step failed.
DeleteRow ==
    /\ UserStep("delete_row", "idle")
    /\ sub' = DequeuedSubs(WikiOps)
    /\ \/ row' = [row EXCEPT !.status = "gone"]
       \/ UNCHANGED row
    /\ UNCHANGED <<latest, requests, doc>> /\ UserOnly

UserContinues ==
    \/ CancelWrite \/ CancelDequeue
    \/ ReparseSave \/ ReparseAbort \/ ReparseReset \/ ReparseEnqueue
    \/ DeleteDequeue \/ DeleteRow

User == CancelStart \/ ReparseOpen \/ DeleteMark \/ UserContinues

-----------------------------------------------------------------------------
(* HousekeepingService.runSweep.  The thresholds on updated_at and on the  *)
(* span heartbeat are hours; what is left of them here is that no API call *)
(* is in the middle of writing the row.                                    *)

Idle(task)     == task.pc \in {"none", "lost", "done"}
\* Variants: a sweep that leaves out finalizing, or pending, rows.
SweepNotFinalizing == {"pending", "processing"}
SweepNotPending    == {"processing", "finalizing"}
\* The statuses the sweep considers stuck.
SweepStatuses  == Busy

\* HasQueuedTasksForKnowledge: queued, retrying or active asynq tasks.
\* Wiki ingest is not among the task types it matches.
HasQueuedTasks ==
    \/ \E r \in Requests : ~Idle(doc[r])
    \/ \E g \in Fanouts : ~Idle(fan[g])
    \/ \E g \in Fanouts, k \in Subtasks \ WikiOps : ~Idle(sub[g][k])

SweepScan ==
    /\ ~sweeping /\ user = "idle"
    /\ row.status \in SweepStatuses
    /\ ~HasQueuedTasks
    /\ sweeping' = TRUE
    /\ UNCHANGED <<row, latest, requests, doc, fans, fan, sub, user, faults>>

SweepWrite ==
    /\ sweeping
    /\ sweeping' = FALSE
    /\ row' = IF row.status \in SweepStatuses THEN Reset("failed") ELSE row
    /\ UNCHANGED <<latest, requests, doc, fans, fan, sub, user, faults>>

Housekeeping == SweepScan \/ SweepWrite

-----------------------------------------------------------------------------
(* A worker process dies.  asynq redelivers an active task (as a retry)    *)
(* or archives it; a claimed wiki op becomes claimable again.              *)

Crash ==
    /\ faults < MaxFaults
    /\ faults' = faults + 1
    /\ \/ \E r \in Requests :
             /\ ~Idle(doc[r]) /\ doc[r].pc # "queued"
             /\ doc' = [doc EXCEPT ![r] = Retried(@)]
             /\ UNCHANGED <<fans, fan, sub>>
       \/ \E g \in Fanouts :
             /\ ~Idle(fan[g]) /\ fan[g].pc # "queued"
             /\ IF fan[g].left = 0
                THEN /\ fan' = [fan EXCEPT ![g].pc = "done"]
                     /\ UNCHANGED fans
                ELSE /\ fans' = fans + 1
                     /\ fan' = [fan EXCEPT
                           ![g].pc = "done",
                           ![fans + 1] = [NoFan EXCEPT
                               !.pc = "queued", !.left = fan[g].left - 1,
                               !.attempt = fan[g].attempt]]
             /\ UNCHANGED <<doc, sub>>
       \/ \E g \in Fanouts, k \in Subtasks :
             /\ ~Idle(sub[g][k]) /\ sub[g][k].pc # "queued"
             /\ sub' = [sub EXCEPT ![g][k] =
                   IF k \in WikiOps THEN [@ EXCEPT !.pc = "queued"] ELSE Retried(@)]
             /\ UNCHANGED <<doc, fans, fan>>
    /\ UNCHANGED <<row, latest, requests, user, sweeping>>

DrainFails == \E g \in Fanouts, k \in Subtasks : SubDrainFails(g, k)

-----------------------------------------------------------------------------
(* One upload, left to the workers: lost enqueues and failing tasks, but   *)
(* no crash, no API call and no sweep.                                     *)
CalmNext ==
    \/ \E r \in Requests : Document(r)
    \/ \E g \in Fanouts : PostProcess(g)
    \/ \E g \in Fanouts, k \in Subtasks : Enrich(g, k)

\* Everything.
Next == CalmNext \/ User \/ Housekeeping \/ Crash \/ DrainFails

\* asynq workers take every queued task; a handler has a timeout.
WorkersRun ==
    /\ \A r \in Requests : WF_vars(Document(r))
    /\ \A g \in Fanouts : WF_vars(PostProcess(g))
    /\ \A g \in Fanouts : \A k \in Subtasks : WF_vars(Enrich(g, k))

CalmSpec == Init /\ [][CalmNext]_vars
CalmLive == CalmSpec /\ WorkersRun
Spec     == Init /\ [][Next]_vars
\* An API call runs to its end, the cron ticks.
Live     == Spec /\ WorkersRun /\ WF_vars(UserContinues) /\ WF_vars(Housekeeping)

-----------------------------------------------------------------------------
(* Properties.                                                             *)

HoldsSlot(s)   == s.pc \in {"none", "lost", "queued", "started", "loaded",
                            "working", "saved", "draining"}
\* The subtasks of fan-out g whose slot has not been drained.
Outstanding(g) == {k \in fan[g].plan : HoldsSlot(sub[g][k])}

\* The counter of a finalizing row is the number of subtasks that still have
\* to drain a slot: post-process's shortfall release and the subtasks' own
\* drains add up to what SetFinalizing seeded, in whatever order they run.
SlotsMatchOutstanding ==
    row.status = "finalizing" =>
        \E g \in Fanouts : /\ fan[g].attempt = latest
                           /\ row.count = Cardinality(Outstanding(g))

\* A row is "completed" only when every subtask its newest attempt planned
\* has ended ("before the new attempt finishes" in attemptSuperseded).
CompletedIsEnriched ==
    row.status = "completed" =>
        \A g \in Fanouts : fan[g].attempt = latest => Outstanding(g) = {}

\* A cancelled row holds no slots: no drain, seed or late Save of a worker
\* that was running leaves a counter behind for the next attempt to trip on.
CancelledHoldsNoSlots == row.status = "cancelled" => row.count = 0

\* Somebody still works on what the fan-out owes the row: the post-process task,
\* or a subtask that has not drained and promoted.
AtWork(g) ==
    \/ fan[g].pc \in {"spawning", "promoting"}
    \/ \E k \in Subtasks :
          sub[g][k].pc \notin {"none", "lost", "acking", "done"}

\* A finalizing row is never left alone: until the last drain has promoted it, a
\* task of its fan-out is queued or running, so it does not need the sweep (the
\* slot of a wiki operation that was not inserted does).
NoStrandedRow ==
    ~WikiInsertFails /\ row.status = "finalizing" => \E g \in Fanouts : AtWork(g)

\* A row that entered finalizing leaves it by the counter alone ("the row
\* promotes itself to completed when the counter hits zero").
EventuallyPromoted == row.status = "finalizing" ~> row.status # "finalizing"

\* No row hangs in pending, processing or finalizing, whatever is lost:
\* what the pipeline cannot end, housekeeping does.
NeverStuck == row.status \in Busy ~> row.status \notin Busy
=============================================================================
