------------------------ MODULE BillingOutboxProofs ------------------------
(***************************************************************************)
(* What BillingOutbox guarantees for any number of rows, replicas and      *)
(* sends, and any batch size.                                              *)
(***************************************************************************)
EXTENDS BillingOutbox, TLAPS

\* A transaction works on rows it holds, and holds rows that were retryable
\* when it took them; what it staged as sent has been delivered.
StagedWasDelivered ==
    \A f \in Replicas : \A e \in Events : staged[f][e] = "sent" => delivered[e] > 0
HeldIsRetryable ==
    \A e \in Events : lockedBy[e] # Nobody => Retryable(e)
\* A transaction stages the rows it held and has handled, and no others.
StagedIsHandled ==
    \A f \in Replicas : \A e \in Events :
        staged[f][e] # "none" <=> lockedBy[e] = f /\ e \notin batch[f]

OutboxInv ==
    /\ TypeOK
    /\ OneFlusherPerRow
    /\ HeldIsRetryable
    /\ StagedIsHandled
    /\ StagedWasDelivered
    /\ SentWasDelivered
    /\ LegacyNeverSent

LEMMA InitInv == Init => OutboxInv
  BY OutboxAssumption DEF Init, OutboxInv, TypeOK, OneFlusherPerRow, HeldIsRetryable,
     StagedIsHandled, StagedWasDelivered, SentWasDelivered, LegacyNeverSent, RowStatus,
     NothingStaged

-----------------------------------------------------------------------------
LEMMA EmitInv ==
  ASSUME OutboxInv, NEW e \in Events, Emit(e) \/ BecomesDue(e)
  PROVE  OutboxInv'
  BY DEF Emit, BecomesDue, OutboxInv, TypeOK, OneFlusherPerRow, HeldIsRetryable, Retryable,
     StagedIsHandled, StagedWasDelivered, SentWasDelivered, LegacyNeverSent, RowStatus

LEMMA ClaimInv ==
  ASSUME OutboxInv, NEW f \in Replicas, Claim(f)
  PROVE  OutboxInv'
<1> DEFINE rows == Oldest(Claimable, Limit)
<1>1. rows \subseteq Events /\ \A e \in rows : Retryable(e) /\ Unlocked(e)
  BY DEF Oldest, Claimable, OutboxInv, TypeOK
<1> HIDE DEF rows
<1>2. /\ \A e \in Events : lockedBy[e] # f
      /\ batch' = [batch EXCEPT ![f] = rows]
      /\ lockedBy' = [e \in Events |-> IF e \in rows THEN f ELSE lockedBy[e]]
      /\ UNCHANGED <<status, due, staged, delivered>>
  BY DEF Claim, Free, Held, rows
<1>3. f # Nobody /\ \A e \in rows : lockedBy[e] = Nobody
  BY <1>1, OutboxAssumption DEF Unlocked
<1>4. TypeOK'
  BY <1>1, <1>2 DEF OutboxInv, TypeOK
<1>5. OneFlusherPerRow'
  BY <1>1, <1>2, <1>3, OutboxAssumption DEF OutboxInv, TypeOK, OneFlusherPerRow
<1>6. HeldIsRetryable'
  BY <1>1, <1>2, <1>3 DEF OutboxInv, TypeOK, HeldIsRetryable, Retryable
<1>7. StagedIsHandled'
  BY <1>1, <1>2, <1>3, OutboxAssumption DEF OutboxInv, TypeOK, StagedIsHandled
<1> QED
  BY <1>2, <1>4, <1>5, <1>6, <1>7
  DEF OutboxInv, StagedWasDelivered, SentWasDelivered, LegacyNeverSent

LEMMA StageInv ==
  ASSUME OutboxInv, NEW f \in Replicas, NEW e \in Events, NEW s \in {"sent", "failed", "legacy"},
         AtRow(f, e), Stage(f, e, s),
         Deliver(e) \/ UNCHANGED delivered,
         s = "sent" => Deliver(e),
         IsLegacy(e) => UNCHANGED delivered
  PROVE  OutboxInv'
<1>1. e \in batch[f] /\ lockedBy[e] = f
  BY DEF AtRow, OutboxInv, OneFlusherPerRow
<1>2. delivered' \in [Events -> 0..MaxSends] /\ \A x \in Events : delivered'[x] >= delivered[x]
  BY OutboxAssumption DEF OutboxInv, TypeOK, Deliver
<1>3. s = "sent" => delivered'[e] > 0
  BY OutboxAssumption DEF OutboxInv, TypeOK, Deliver
<1>4. TypeOK'
  BY <1>2 DEF OutboxInv, TypeOK, Stage, RowStatus
<1>5. OneFlusherPerRow' /\ HeldIsRetryable'
  BY DEF OutboxInv, TypeOK, Stage, OneFlusherPerRow, HeldIsRetryable, Retryable
<1>6. StagedIsHandled'
  <2> SUFFICES ASSUME NEW g \in Replicas, NEW x \in Events
               PROVE  staged'[g][x] # "none" <=> lockedBy'[x] = g /\ x \notin batch'[g]
    BY DEF StagedIsHandled
  <2>1. CASE g = f /\ x = e
    BY <2>1, <1>1 DEF OutboxInv, TypeOK, Stage
  <2>2. CASE ~(g = f /\ x = e)
    BY <2>2 DEF OutboxInv, TypeOK, Stage, StagedIsHandled
  <2> QED  BY <2>1, <2>2
<1>7. StagedWasDelivered'
  <2> SUFFICES ASSUME NEW g \in Replicas, NEW x \in Events, staged'[g][x] = "sent"
               PROVE  delivered'[x] > 0
    BY DEF StagedWasDelivered
  <2>1. CASE g = f /\ x = e
    BY <2>1, <1>3 DEF OutboxInv, TypeOK, Stage
  <2>2. CASE ~(g = f /\ x = e)
    <3>1. delivered[x] > 0
      BY <2>2 DEF OutboxInv, TypeOK, Stage, StagedWasDelivered
    <3> QED  BY <3>1, <1>2 DEF OutboxInv, TypeOK
  <2> QED  BY <2>1, <2>2
<1>8. SentWasDelivered'
  <2> SUFFICES ASSUME NEW x \in Events, status'[x] = "sent"
               PROVE  delivered'[x] > 0
    BY DEF SentWasDelivered
  <2>1. delivered[x] > 0
    BY DEF Stage, OutboxInv, SentWasDelivered
  <2> QED  BY <2>1, <1>2 DEF OutboxInv, TypeOK
<1>9. LegacyNeverSent'
  BY OutboxAssumption DEF OutboxInv, TypeOK, LegacyNeverSent, IsLegacy, Deliver
<1> QED
  BY <1>4, <1>5, <1>6, <1>7, <1>8, <1>9 DEF OutboxInv

LEMMA SendInv ==
  ASSUME OutboxInv, NEW f \in Replicas, SkipLegacy(f) \/ Send(f) \/ SendFails(f)
  PROVE  OutboxInv'
<1>1. CASE SkipLegacy(f)
  BY <1>1, StageInv DEF SkipLegacy
<1>2. CASE Send(f)
  BY <1>2, StageInv DEF Send
<1>3. CASE SendFails(f)
  BY <1>3, StageInv DEF SendFails, AfterError
<1> QED  BY <1>1, <1>2, <1>3

LEMMA CommitInv ==
  ASSUME OutboxInv, NEW f \in Replicas, Commit(f)
  PROVE  OutboxInv'
<1>1. f # Nobody /\ batch[f] = {}
  BY OutboxAssumption DEF Commit
<1>2. TypeOK' /\ OneFlusherPerRow'
  BY <1>1 DEF OutboxInv, TypeOK, Commit, OneFlusherPerRow, NothingStaged, RowStatus
<1>3. HeldIsRetryable'
  BY <1>1 DEF OutboxInv, TypeOK, Commit, HeldIsRetryable, Retryable
<1>4. StagedIsHandled'
  <2> SUFFICES ASSUME NEW g \in Replicas, NEW e \in Events
               PROVE  staged'[g][e] # "none" <=> lockedBy'[e] = g /\ e \notin batch'[g]
    BY DEF StagedIsHandled
  <2>1. CASE g = f
    BY <1>1, <2>1 DEF OutboxInv, TypeOK, Commit, NothingStaged
  <2>2. CASE g # f
    BY <1>1, <2>2, OutboxAssumption DEF OutboxInv, TypeOK, Commit, StagedIsHandled
  <2> QED  BY <2>1, <2>2
<1>5. StagedWasDelivered' /\ SentWasDelivered' /\ LegacyNeverSent'
  BY <1>1 DEF OutboxInv, TypeOK, Commit, StagedWasDelivered, SentWasDelivered, LegacyNeverSent,
     NothingStaged
<1> QED  BY <1>2, <1>3, <1>4, <1>5 DEF OutboxInv

LEMMA AbortInv ==
  ASSUME OutboxInv, NEW f \in Replicas, Abort(f)
  PROVE  OutboxInv'
<1>1. f # Nobody
  BY OutboxAssumption
<1>2. TypeOK' /\ OneFlusherPerRow' /\ HeldIsRetryable'
  BY <1>1 DEF OutboxInv, TypeOK, Abort, OneFlusherPerRow, HeldIsRetryable, Retryable,
     NothingStaged, RowStatus
<1>3. StagedIsHandled'
  <2> SUFFICES ASSUME NEW g \in Replicas, NEW e \in Events
               PROVE  staged'[g][e] # "none" <=> lockedBy'[e] = g /\ e \notin batch'[g]
    BY DEF StagedIsHandled
  <2>1. CASE g = f
    BY <1>1, <2>1 DEF OutboxInv, TypeOK, Abort, NothingStaged
  <2>2. CASE g # f
    BY <1>1, <2>2, OutboxAssumption DEF OutboxInv, TypeOK, Abort, StagedIsHandled
  <2> QED  BY <2>1, <2>2
<1>4. StagedWasDelivered' /\ SentWasDelivered' /\ LegacyNeverSent'
  BY DEF OutboxInv, TypeOK, Abort, StagedWasDelivered, SentWasDelivered, LegacyNeverSent,
     NothingStaged
<1> QED  BY <1>2, <1>3, <1>4 DEF OutboxInv

LEMMA NextInv == OutboxInv /\ [Next]_vars => OutboxInv'
<1> SUFFICES ASSUME OutboxInv, [Next]_vars PROVE OutboxInv'
  OBVIOUS
<1>1. ASSUME NEW e \in Events, Emit(e) \/ BecomesDue(e) PROVE OutboxInv'
  BY <1>1, EmitInv
<1>2. ASSUME NEW f \in Replicas, Flush(f) PROVE OutboxInv'
  BY <1>2, ClaimInv, SendInv, CommitInv DEF Flush
<1>3. ASSUME NEW f \in Replicas, Abort(f) PROVE OutboxInv'
  BY <1>3, AbortInv
<1>4. CASE UNCHANGED vars
  BY <1>4 DEF vars, OutboxInv, TypeOK, OneFlusherPerRow, HeldIsRetryable, Retryable,
     StagedIsHandled, StagedWasDelivered, SentWasDelivered, LegacyNeverSent
<1> QED  BY <1>1, <1>2, <1>3, <1>4 DEF Next

-----------------------------------------------------------------------------
\* The inductive invariant: flushers hold what they work on, and a staged
\* status never runs ahead of the collector.
THEOREM OutboxInvariant == Spec => []OutboxInv
  BY InitInv, NextInv, PTL DEF Spec

\* Every variable of the outbox keeps its type.
THEOREM OutboxTypeCorrect == Spec => []TypeOK
<1>1. OutboxInv => TypeOK
  BY DEF OutboxInv
<1> QED  BY <1>1, OutboxInvariant, PTL

\* FlushOutbox: no commit, rollback, lost answer or other replica makes a row
\* "sent" that the collector never saw.
THEOREM SentIsDelivered == Spec => []SentWasDelivered
<1>1. OutboxInv => SentWasDelivered
  BY DEF OutboxInv
<1> QED  BY <1>1, OutboxInvariant, PTL

\* FOR UPDATE SKIP LOCKED: a row is in one batch at most.
THEOREM RowsAreExclusive == Spec => []OneFlusherPerRow
<1>1. OutboxInv => OneFlusherPerRow
  BY DEF OutboxInv
<1> QED  BY <1>1, OutboxInvariant, PTL

\* "Never resend legacy priced events into old subscriptions."
THEOREM LegacyStaysHome == Spec => []LegacyNeverSent
<1>1. OutboxInv => LegacyNeverSent
  BY DEF OutboxInv
<1> QED  BY <1>1, OutboxInvariant, PTL

\* A row that is marked sent is neither sent nor written again: only rolled
\* back transactions and lost answers make duplicates.
THEOREM SentStaysSent == Spec => SentIsFinal
<1>1. ASSUME OutboxInv, [Next]_vars, NEW e \in Events, status[e] = "sent"
      PROVE  status'[e] = "sent" /\ delivered'[e] = delivered[e]
  <2>1. lockedBy[e] = Nobody /\ \A f \in Replicas : e \notin batch[f] /\ lockedBy[e] # f
    BY <1>1, OutboxAssumption DEF OutboxInv, HeldIsRetryable, Retryable, OneFlusherPerRow
  <2>2. ASSUME NEW x \in Events, Emit(x) \/ BecomesDue(x)
        PROVE  status'[e] = "sent" /\ delivered'[e] = delivered[e]
    BY <1>1, <2>2 DEF Emit, BecomesDue, OutboxInv, TypeOK
  <2>3. ASSUME NEW f \in Replicas, Flush(f) \/ Abort(f)
        PROVE  status'[e] = "sent" /\ delivered'[e] = delivered[e]
    BY <1>1, <2>1, <2>3
    DEF Flush, Claim, SkipLegacy, Send, SendFails, Commit, Abort, Stage, Deliver, AtRow,
        OutboxInv, TypeOK
  <2>4. CASE UNCHANGED vars
    BY <1>1, <2>4 DEF vars
  <2> QED  BY <1>1, <2>2, <2>3, <2>4 DEF Next
<1>2. OutboxInv /\ [Next]_vars
        => [\A e \in Events :
              status[e] = "sent" => status'[e] = "sent" /\ delivered'[e] = delivered[e]]_vars
  BY <1>1
<1> QED  BY <1>2, OutboxInvariant, PTL DEF Spec, SentIsFinal
=============================================================================
