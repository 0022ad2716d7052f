--------------------------- MODULE BillingOutbox ---------------------------
(***************************************************************************)
(* The telemetry outbox of internal/billing/service.go (FlushOutbox): each *)
(* replica claims due rows FOR UPDATE SKIP LOCKED, sends them one by one   *)
(* inside the transaction, and commits all their new states at the end, so *)
(* a crash or an error in the middle sends the whole batch again with the  *)
(* same event ids.                                                         *)
(***************************************************************************)
EXTENDS Naturals, FiniteSets

CONSTANTS
    Events,      \* outbox rows, numbered by id
    Legacy,      \* rows with an event type of the former billing scheme
    Replicas,    \* flusher goroutines, one per process
    Limit,       \* rows per batch (50 in the code)
    MaxSends,    \* bound: deliveries of one event that are told apart
    Nobody       \* no transaction holds the row

ASSUME OutboxAssumption ==
    /\ Events \in SUBSET Nat
    /\ Legacy \subseteq Events
    /\ Limit \in Nat \ {0}
    /\ MaxSends \in Nat \ {0}
    /\ Nobody \notin Replicas

VARIABLES
    status,     \* committed status of every row
    due,        \* rows whose next_attempt_at has passed
    lockedBy,   \* the transaction that holds each row
    batch,      \* rows each flusher still has to handle
    staged,     \* uncommitted statuses of each flusher's transaction
    delivered   \* how often the collector received each event

vars == <<status, due, lockedBy, batch, staged, delivered>>

RowStatus == {"none", "pending", "failed", "sent", "legacy"}

TypeOK ==
    /\ status \in [Events -> RowStatus]
    /\ due \subseteq Events
    /\ lockedBy \in [Events -> Replicas \cup {Nobody}]
    /\ batch \in [Replicas -> SUBSET Events]
    /\ staged \in [Replicas -> [Events -> RowStatus]]
    /\ delivered \in [Events -> 0..MaxSends]

NothingStaged == [e \in Events |-> "none"]

Init ==
    /\ status = [e \in Events |-> IF e \in Legacy THEN "pending" ELSE "none"]
    /\ due = Legacy
    /\ lockedBy = [e \in Events |-> Nobody]
    /\ batch = [f \in Replicas |-> {}]
    /\ staged = [f \in Replicas |-> NothingStaged]
    /\ delivered = [e \in Events |-> 0]

Held(f) == {e \in Events : lockedBy[e] = f}
Free(f) == Held(f) = {}

PendingOnly(e) == status[e] = "pending"
Retryable(e) == status[e] \in {"pending", "failed"}

UnlockedAny(e) == TRUE
Unlocked(e) == lockedBy[e] = Nobody

\* Due rows that no other transaction holds; a batch takes the first by id.
Claimable == {e \in due : Retryable(e) /\ Unlocked(e)}
Oldest(S, n) == {e \in S : Cardinality({x \in S : x < e}) < n}

\* Complete commits a settlement together with its event.
Emit(e) ==
    /\ status[e] = "none"
    /\ status' = [status EXCEPT ![e] = "pending"]
    /\ due' = due \cup {e}
    /\ UNCHANGED <<lockedBy, batch, staged, delivered>>

\* The backoff of a failed row has passed.
BecomesDue(e) ==
    /\ status[e] = "failed"
    /\ e \notin due
    /\ Unlocked(e)
    /\ due' = due \cup {e}
    /\ UNCHANGED <<status, lockedBy, batch, staged, delivered>>

Claim(f) ==
    /\ Free(f)
    /\ Claimable # {}
    /\ LET rows == Oldest(Claimable, Limit)
       IN  /\ batch' = [batch EXCEPT ![f] = rows]
           /\ lockedBy' = [e \in Events |-> IF e \in rows THEN f ELSE lockedBy[e]]
    /\ UNCHANGED <<status, due, staged, delivered>>

\* The loop over the batch comes to row e.
AtRow(f, e) == e \in batch[f] /\ \A x \in batch[f] : e <= x

Stage(f, e, s) ==
    /\ staged' = [staged EXCEPT ![f][e] = s]
    /\ batch' = [batch EXCEPT ![f] = @ \ {e}]
    /\ UNCHANGED <<status, due, lockedBy>>

IsLegacy(e) == e \in Legacy

\* "Never resend legacy priced events into old subscriptions."
SkipLegacy(f) ==
    \E e \in Events :
        /\ AtRow(f, e) /\ IsLegacy(e)
        /\ Stage(f, e, "legacy")
        /\ UNCHANGED delivered

\* The collector takes the event; further deliveries than MaxSends look alike.
Deliver(e) ==
    delivered' = [delivered EXCEPT ![e] = IF @ < MaxSends THEN @ + 1 ELSE @]

AfterErrorAsSent == "sent"
AfterError == "failed"

\* SendEvent returns no error.
Send(f) ==
    \E e \in Events :
        /\ AtRow(f, e) /\ ~IsLegacy(e)
        /\ Deliver(e)
        /\ Stage(f, e, "sent")

\* SendEvent fails, before or after the collector took the event.
SendFails(f) ==
    \E e \in Events :
        /\ AtRow(f, e) /\ ~IsLegacy(e)
        /\ Deliver(e) \/ UNCHANGED delivered
        /\ Stage(f, e, AfterError)

\* All rows are handled: COMMIT.  A failed row waits for its backoff.
Commit(f) ==
    /\ ~Free(f)
    /\ batch[f] = {}
    /\ status' = [e \in Events |-> IF lockedBy[e] = f THEN staged[f][e] ELSE status[e]]
    /\ due' = due \ {e \in Held(f) : staged[f][e] = "failed"}
    /\ lockedBy' = [e \in Events |-> IF lockedBy[e] = f THEN Nobody ELSE lockedBy[e]]
    /\ staged' = [staged EXCEPT ![f] = NothingStaged]
    /\ UNCHANGED <<batch, delivered>>

\* A database error or a crash: rolled back, nothing is remembered.
Abort(f) ==
    /\ ~Free(f)
    /\ lockedBy' = [e \in Events |-> IF lockedBy[e] = f THEN Nobody ELSE lockedBy[e]]
    /\ staged' = [staged EXCEPT ![f] = NothingStaged]
    /\ batch' = [batch EXCEPT ![f] = {}]
    /\ UNCHANGED <<status, due, delivered>>

Flush(f) == Claim(f) \/ SkipLegacy(f) \/ Send(f) \/ SendFails(f) \/ Commit(f)

Next ==
    \/ \E e \in Events : Emit(e) \/ BecomesDue(e)
    \/ \E f \in Replicas : Flush(f) \/ Abort(f)

Spec == Init /\ [][Next]_vars

\* The outbox tickers never stop and backoffs pass; the collector accepts an
\* event that is sent to it again and again, and the transactions are not all
\* lost at the same row, nor all those that mark it sent.
Fairness ==
    /\ \A f \in Replicas : WF_vars(Flush(f))
    /\ \A e \in Events :
         /\ WF_vars(BecomesDue(e))
         /\ SF_vars(\E f \in Replicas : AtRow(f, e) /\ (Send(f) \/ SkipLegacy(f)))
         /\ SF_vars(\E f \in Replicas : staged[f][e] = "sent" /\ Commit(f))

FairSpec == Spec /\ Fairness

-----------------------------------------------------------------------------
(* Properties.                                                             *)

\* A row is marked sent only after the collector took its event.
SentWasDelivered == \A e \in Events : status[e] = "sent" => delivered[e] > 0

\* Rows of the former billing scheme never reach the collector.
LegacyNeverSent == \A e \in Legacy : delivered[e] = 0

\* Two replicas never work on the same row: an event in one batch is locked by
\* that flusher and in no other batch.
OneFlusherPerRow ==
    \A f \in Replicas : \A e \in batch[f] : lockedBy[e] = f

\* A sent event is not sent again: duplicates come only from transactions that
\* were rolled back or sends that looked failed.
SentIsFinal ==
    [][\A e \in Events :
         status[e] = "sent" => status'[e] = "sent" /\ delivered'[e] = delivered[e]]_vars

\* Every emitted event is delivered and marked in the end.
EventuallySent == \A e \in Events \ Legacy : status[e] = "pending" ~> status[e] = "sent"
=============================================================================
