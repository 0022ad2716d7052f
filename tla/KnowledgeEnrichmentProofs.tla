--------------------- MODULE KnowledgeEnrichmentProofs ---------------------
(***************************************************************************)
(* The slot accounting of one undisturbed parse attempt (CalmSpec), proved *)
(* for every set of subtasks, every plan and every number of retries: the  *)
(* counter of a finalizing row is the number of subtasks still to drain,   *)
(* and a completed row has none.                                           *)
(***************************************************************************)
EXTENDS KnowledgeEnrichment, FiniteSetTheorems, TLAPS

-----------------------------------------------------------------------------
(* The inductive invariant.                                                *)

\* The upload is the only request, and its task holds the newest attempt.
OneAttempt ==
    /\ doc[1].attempt = latest
    /\ \A a \in Requests : a # 1 => doc[a].pc = "none"

\* Its document task hands over once, and only then is there a fan-out.
OneFanout ==
    /\ fans \in {0, 1}
    /\ fans = 1 => doc[1].pc \in {"acking", "done"}
    /\ fans = 1 => fan[1].attempt = latest
    /\ fans = 0 => fan[1].pc = "none"
    /\ \A g \in Fanouts : g # 1 => fan[g].pc = "none" /\ fan[g].plan = {}

\* A fan-out has a plan only once it has seeded the counter, and it spawns
\* what it planned.
Planned ==
    /\ fan[1].pc \in {"none", "queued", "planned"} => fan[1].plan = {}
    /\ fan[1].pc \in {"spawning", "promoting"} => fan[1].plan # {}
    /\ fan[1].pc = "planned" => row.status = "processing"
    /\ fan[1].plan # {} => fans = 1
    /\ \A g \in Fanouts, k \in Subtasks :
          k \notin fan[g].plan => sub[g][k].pc = "none"

\* The accounting itself.
Accounted ==
    IF fan[1].plan = {}
    THEN row.status # "finalizing"
    ELSE /\ row.count = Cardinality(Outstanding(1))
         /\ row.status \in {"finalizing", "completed"}
         /\ row.status = "completed" => Outstanding(1) = {}

\* The row a summary task is about to save back is the row as it is.
FreshSnapshots ==
    \A k \in Summaries :
        sub[1][k].pc \in {"loaded", "working"} => sub[1][k].seen = "finalizing"

Calm == OneAttempt /\ OneFanout /\ Planned /\ Accounted /\ FreshSnapshots

IInv == TypeOK /\ Calm

-----------------------------------------------------------------------------
(* Facts about the records.                                                *)

LEMMA Ones == 1 \in Requests /\ 1 \in Fanouts
BY EnrichmentAssumption DEF EnrichmentAssumption, Requests, Fanouts

LEMMA DocTyping ==
    ASSUME NEW t \in DocTasks, NEW pc \in DocPCs
    PROVE  /\ [t EXCEPT !.pc = pc] \in DocTasks
           /\ [t EXCEPT !.pc = pc].pc = pc
           /\ [t EXCEPT !.pc = pc].attempt = t.attempt
BY DEF DocTasks

LEMMA DocRetried ==
    ASSUME NEW t \in DocTasks
    PROVE  /\ Retried(t) \in DocTasks
           /\ Retried(t).pc \in {"queued", "done"}
           /\ Retried(t).attempt = t.attempt
<1>1. CASE t.left > 0
  <2>1. t.left - 1 \in Tries
    BY <1>1, EnrichmentAssumption DEF EnrichmentAssumption, DocTasks, Tries
  <2>2. [t EXCEPT !.pc = "queued", !.left = @ - 1] \in DocTasks
    BY <2>1 DEF DocTasks, DocPCs
  <2> QED BY <1>1, <2>2 DEF Retried, DocTasks
<1>2. CASE ~(t.left > 0)
  BY <1>2 DEF Retried, DocTasks, DocPCs
<1> QED BY <1>1, <1>2

LEMMA QueuedFan ==
    ASSUME NEW a \in Nat
    PROVE  LET new == [NoFan EXCEPT !.pc = "queued", !.attempt = a]
           IN  /\ new \in FanTasks /\ new.pc = "queued"
               /\ new.plan = {} /\ new.attempt = a
<1>1. MaxRetries \in Tries
  BY EnrichmentAssumption DEF EnrichmentAssumption, Tries
<1>2. NoFan \in FanTasks
  BY <1>1, EnrichmentAssumption
  DEF NoFan, FanTasks, FanPCs, EnrichmentAssumption
<1> QED BY <1>1, <1>2 DEF NoFan, FanTasks, FanPCs

LEMMA FanTyping ==
    ASSUME NEW t \in FanTasks, NEW pc \in FanPCs
    PROVE  /\ [t EXCEPT !.pc = pc] \in FanTasks
           /\ [t EXCEPT !.pc = pc].pc = pc
           /\ [t EXCEPT !.pc = pc].plan = t.plan
           /\ [t EXCEPT !.pc = pc].attempt = t.attempt
BY DEF FanTasks

LEMMA FanRetried ==
    ASSUME NEW t \in FanTasks
    PROVE  /\ Retried(t) \in FanTasks
           /\ Retried(t).pc \in {"queued", "done"}
           /\ Retried(t).plan = t.plan
           /\ Retried(t).attempt = t.attempt
<1>1. CASE t.left > 0
  <2>1. t.left - 1 \in Tries
    BY <1>1, EnrichmentAssumption DEF EnrichmentAssumption, FanTasks, Tries
  <2>2. [t EXCEPT !.pc = "queued", !.left = @ - 1] \in FanTasks
    BY <2>1 DEF FanTasks, FanPCs
  <2> QED BY <1>1, <2>2 DEF Retried, FanTasks
<1>2. CASE ~(t.left > 0)
  BY <1>2 DEF Retried, FanTasks, FanPCs
<1> QED BY <1>1, <1>2

LEMMA SubTyping ==
    ASSUME NEW t \in SubTasks, NEW pc \in SubPCs
    PROVE  /\ [t EXCEPT !.pc = pc] \in SubTasks
           /\ [t EXCEPT !.pc = pc].pc = pc
           /\ [t EXCEPT !.pc = pc].seen = t.seen
BY DEF SubTasks

LEMMA SubRetried ==
    ASSUME NEW t \in SubTasks, t.left > 0
    PROVE  /\ Retried(t) \in SubTasks
           /\ Retried(t).pc = "queued"
<1>1. t.left - 1 \in Tries
  BY EnrichmentAssumption DEF EnrichmentAssumption, SubTasks, Tries
<1>2. [t EXCEPT !.pc = "queued", !.left = @ - 1] \in SubTasks
  BY <1>1 DEF SubTasks, SubPCs
<1> QED BY <1>2 DEF Retried, SubTasks

\* The writers of the row keep its type.
LEMMA RowTyping ==
    ASSUME row \in [status : Statuses, count : Nat], NEW s \in Statuses
    PROVE  /\ Save(s) \in [status : Statuses, count : Nat]
           /\ Save(s).count = row.count
           /\ row.status # "gone" => Save(s).status = s
           /\ row.status = s => Save(s) = row
           /\ Decremented \in [status : Statuses, count : Nat]
           /\ Decremented.status = row.status
           /\ Promoted \in [status : Statuses, count : Nat]
           /\ Promoted.count = row.count
BY DEF Save, Decremented, Promoted, Statuses

\* A plan is finite, and so is what is left of it.
LEMMA OutstandingFinite ==
    ASSUME TypeOK, NEW g \in Fanouts
    PROVE  /\ IsFiniteSet(fan[g].plan)
           /\ IsFiniteSet(Outstanding(g))
           /\ Outstanding(g) \subseteq Subtasks
<1>1. fan[g].plan \subseteq Subtasks
  BY DEF TypeOK, FanTasks
<1>2. Outstanding(g) \subseteq Subtasks
  BY <1>1 DEF Outstanding
<1> QED BY <1>1, <1>2, FS_Subset, EnrichmentAssumption DEF EnrichmentAssumption

THEOREM InitIInv == Init => IInv
<1> SUFFICES ASSUME Init PROVE IInv
  OBVIOUS
<1>1. TypeOK
  <2>1. \A a \in Requests : doc[a] \in DocTasks
    BY EnrichmentAssumption
    DEF Init, EnrichmentAssumption, NewDoc, DocTasks, DocPCs, Tries
  <2>2. NoFan \in FanTasks /\ NoSub \in SubTasks
    BY EnrichmentAssumption DEF EnrichmentAssumption, NoFan, NoSub, FanTasks,
       SubTasks, FanPCs, SubPCs, Tries, Statuses
  <2>3. doc \in [Requests -> DocTasks]
    BY <2>1 DEF Init
  <2>4. fan \in [Fanouts -> FanTasks] /\ sub \in [Fanouts -> [Subtasks -> SubTasks]]
    BY <2>2 DEF Init
  <2>5. fans \in 0 .. (MaxRequests + MaxFaults) /\ faults \in 0 .. MaxFaults
    BY EnrichmentAssumption DEF Init, EnrichmentAssumption
  <2> QED
    BY <2>3, <2>4, <2>5, Ones DEF Init, TypeOK, Statuses, UserPCs
<1>2. Calm
  BY Ones, EnrichmentAssumption
  DEF Init, Calm, OneAttempt, OneFanout, Planned, Accounted, FreshSnapshots,
      NoFan, NoSub, NewDoc, EnrichmentAssumption
<1> QED BY <1>1, <1>2 DEF IInv

-----------------------------------------------------------------------------
(* How the kinds of steps keep the invariant.                              *)

\* A step of the document task: before the hand-over it may write the row,
\* after it only acknowledges.
LEMMA DocStepKeeps ==
    ASSUME IInv, NEW a \in Requests, NEW t \in DocTasks,
           doc' = [doc EXCEPT ![a] = t],
           UNCHANGED <<requests, fans, fan, sub, user, sweeping, faults>>,
           t.attempt = latest', latest' \in Nat,
           row' \in [status : Statuses, count : Nat],
           \/ doc[a].pc = "acking" /\ t.pc = "done" /\ row' = row
              /\ latest' = latest
           \/ doc[a].pc \notin {"none", "acking", "done"}
              /\ row'.status # "finalizing"
    PROVE  IInv'
<1> USE Ones
<1>1. TypeOK'
  BY DEF IInv, TypeOK
<1>2. a = 1
  BY DEF IInv, Calm, OneAttempt
<1>3. doc'[1] = t /\ \A b \in Requests : b # 1 => doc'[b] = doc[b]
  BY <1>2 DEF IInv, TypeOK
<1>4. OneAttempt'
  BY <1>2, <1>3 DEF IInv, Calm, OneAttempt
<1>5. OneFanout'
  BY <1>2, <1>3 DEF IInv, Calm, OneFanout
<1>6. fans = 0 => fan[1].plan = {} /\ fan[1].pc = "none"
  BY DEF IInv, Calm, OneFanout, Planned
<1>7. Planned' /\ Accounted' /\ FreshSnapshots'
  <2>1. CASE row' = row
    BY <2>1 DEF IInv, Calm, Planned, Accounted, FreshSnapshots,
                Outstanding
  <2>2. CASE doc[a].pc \notin {"none", "acking", "done"} /\ row'.status # "finalizing"
    <3>1. fans = 0
      BY <2>2, <1>2 DEF IInv, Calm, OneFanout
    <3> QED
      BY <3>1, <1>6, <2>2 DEF IInv, Calm, Planned, Accounted, FreshSnapshots
  <2> QED BY <2>1, <2>2
<1> QED BY <1>1, <1>4, <1>5, <1>7 DEF IInv, Calm

\* A row with a plan that is promoted has no outstanding subtask.
LEMMA PromotedIsEmpty ==
    ASSUME IInv, fan[1].plan # {}
    PROVE  /\ Promoted.status \in {"finalizing", "completed"}
           /\ Promoted.count = Cardinality(Outstanding(1))
           /\ Promoted.status = "completed" => Outstanding(1) = {}
<1>1. IsFiniteSet(Outstanding(1))
  BY OutstandingFinite, Ones DEF IInv
<1>2. Cardinality(Outstanding(1)) = 0 => Outstanding(1) = {}
  BY <1>1, FS_EmptySet
<1>3. row.count = Cardinality(Outstanding(1))
  BY DEF IInv, Calm, Accounted
<1> QED
  BY <1>2, <1>3 DEF IInv, TypeOK, Calm, Accounted, Promoted

\* A step of the post-process task that spawns and seeds nothing.
LEMMA FanStepKeeps ==
    ASSUME IInv, NEW g \in Fanouts, NEW t \in FanTasks,
           fan[g].pc # "none",
           fan' = [fan EXCEPT ![g] = t],
           t.plan = fan[g].plan, t.attempt = fan[g].attempt,
           t.pc \in {"none", "queued", "planned"} => t.plan = {},
           t.pc \in {"spawning", "promoting"} => t.plan # {},
           t.pc = "planned" => row.status = "processing",
           UNCHANGED sub, FanOnly,
           \/ row' = row
           \/ row' = Promoted /\ fan[1].plan # {}
    PROVE  IInv'
<1> USE Ones
<1>1. g = 1 /\ fans = 1
  BY DEF IInv, Calm, OneFanout
<1>2. fan'[1] = t /\ \A h \in Fanouts : h # 1 => fan'[h] = fan[h]
  BY <1>1 DEF IInv, TypeOK
<1>3. TypeOK'
  BY RowTyping DEF IInv, TypeOK, FanOnly
<1>4. OneAttempt' /\ OneFanout'
  BY <1>1, <1>2 DEF IInv, Calm, OneAttempt, OneFanout, FanOnly
<1>5. \A h \in Fanouts : fan'[h].plan = fan[h].plan
  BY <1>1, <1>2
<1>6. t.pc = "planned" => row' = row
  BY DEF Promoted
<1>7. Planned'
  BY <1>1, <1>2, <1>5, <1>6 DEF IInv, Calm, Planned, FanOnly
<1>8. Outstanding(1)' = Outstanding(1)
  BY <1>5 DEF Outstanding
<1>9. Accounted'
  BY <1>5, <1>8, PromotedIsEmpty DEF IInv, Calm, Accounted
<1>10. FreshSnapshots'
  BY DEF IInv, Calm, FreshSnapshots
<1> QED BY <1>3, <1>4, <1>7, <1>9, <1>10 DEF IInv, Calm

\* A step of a subtask that drains nothing.
LEMMA SubStepKeeps ==
    ASSUME IInv, NEW k \in Subtasks, NEW s \in SubTasks,
           k \in fan[1].plan,
           sub' = [sub EXCEPT ![1] = [sub[1] EXCEPT ![k] = s]],
           HoldsSlot(s) <=> HoldsSlot(sub[1][k]),
           (k \in Summaries /\ s.pc \in {"loaded", "working"})
              => s.seen = "finalizing",
           row' = row \/ row' = Promoted,
           UNCHANGED <<latest, requests, doc, fans, fan, user, sweeping, faults>>
    PROVE  IInv'
<1> USE Ones
<1>1. /\ sub'[1][k] = s
      /\ \A j \in Subtasks : j # k => sub'[1][j] = sub[1][j]
      /\ \A h \in Fanouts : h # 1 => sub'[h] = sub[h]
  BY DEF IInv, TypeOK
<1>2. TypeOK'
  <2>1. sub' \in [Fanouts -> [Subtasks -> SubTasks]]
    BY DEF IInv, TypeOK
  <2> QED BY <2>1, RowTyping DEF IInv, TypeOK
<1>3. OneAttempt' /\ OneFanout'
  BY DEF IInv, Calm, OneAttempt, OneFanout
<1>4. Planned'
  <2>1. fan[1].pc # "planned"
    BY DEF IInv, Calm, Planned
  <2> QED BY <1>1, <2>1 DEF IInv, Calm, Planned
<1>5. Outstanding(1)' = Outstanding(1)
  <2>1. fan[1].plan \subseteq Subtasks
    BY DEF IInv, TypeOK, FanTasks
  <2>2. \A j \in Subtasks : HoldsSlot(sub'[1][j]) <=> HoldsSlot(sub[1][j])
    BY <1>1
  <2> QED BY <2>1, <2>2 DEF Outstanding
<1>6. Accounted'
  BY <1>5, PromotedIsEmpty DEF IInv, Calm, Accounted
<1>7. FreshSnapshots'
  BY <1>1, EnrichmentAssumption
  DEF EnrichmentAssumption, IInv, Calm, FreshSnapshots
<1> QED BY <1>2, <1>3, <1>4, <1>6, <1>7 DEF IInv, Calm

\* A drain: one subtask leaves, one slot is taken off the counter.
LEMMA DrainKeeps ==
    ASSUME IInv, NEW k \in Subtasks, NEW s \in SubTasks, NEW t \in FanTasks,
           k \in Outstanding(1),
           ~HoldsSlot(s),
           sub' = [sub EXCEPT ![1] = [sub[1] EXCEPT ![k] = s]],
           fan' = [fan EXCEPT ![1] = t],
           t.plan = fan[1].plan, t.attempt = fan[1].attempt,
           t.pc \in {fan[1].pc, "promoting"},
           row' = Decremented,
           UNCHANGED <<latest, requests, doc, fans, user, sweeping, faults>>
    PROVE  IInv'
<1> USE Ones
<1>1. /\ sub'[1][k] = s
      /\ \A j \in Subtasks : j # k => sub'[1][j] = sub[1][j]
      /\ \A h \in Fanouts : h # 1 => sub'[h] = sub[h]
  BY DEF IInv, TypeOK
<1>2. fan'[1] = t /\ \A h \in Fanouts : h # 1 => fan'[h] = fan[h]
  BY DEF IInv, TypeOK
<1>3. \A h \in Fanouts : fan'[h].plan = fan[h].plan
  BY <1>2
<1>4. k \in fan[1].plan /\ fan[1].plan # {} /\ fans = 1
  BY DEF Outstanding, IInv, Calm, Planned
<1>5. TypeOK'
  <2>1. sub' \in [Fanouts -> [Subtasks -> SubTasks]]
    BY DEF IInv, TypeOK
  <2> QED BY <2>1, RowTyping DEF IInv, TypeOK
<1>6. OneAttempt'
  BY DEF IInv, Calm, OneAttempt
<1>7. OneFanout'
  BY <1>2, <1>4 DEF IInv, Calm, OneFanout
<1>8. Planned'
  BY <1>1, <1>2, <1>3, <1>4 DEF IInv, Calm, Planned
<1>9. Outstanding(1)' = Outstanding(1) \ {k}
  <2>1. fan[1].plan \subseteq Subtasks
    BY DEF IInv, TypeOK, FanTasks
  <2>2. \A j \in Subtasks :
           HoldsSlot(sub'[1][j]) <=> j # k /\ HoldsSlot(sub[1][j])
    BY <1>1
  <2> QED BY <2>1, <2>2, <1>3 DEF Outstanding
<1>10. Accounted'
  <2>1. IsFiniteSet(Outstanding(1))
    BY OutstandingFinite DEF IInv
  <2>2. /\ Cardinality(Outstanding(1) \ {k}) = Cardinality(Outstanding(1)) - 1
        /\ Cardinality(Outstanding(1)) \in Nat
        /\ Cardinality(Outstanding(1) \ {k}) \in Nat
    BY <2>1, FS_RemoveElement, FS_Subset, FS_CardinalityType
  <2>3. /\ row.count = Cardinality(Outstanding(1))
        /\ row.status = "finalizing"
    BY <1>4 DEF IInv, Calm, Accounted
  <2>4. /\ row'.count = Cardinality(Outstanding(1)) - 1
        /\ row'.status = "finalizing"
    BY <2>2, <2>3 DEF Decremented, IInv, TypeOK
  <2> QED BY <2>2, <2>4, <1>9, <1>3, <1>4 DEF Accounted
<1>11. FreshSnapshots'
  <2>1. s.pc \notin {"loaded", "working"}
    BY DEF HoldsSlot
  <2> QED BY <1>1, <2>1, EnrichmentAssumption
          DEF EnrichmentAssumption, IInv, Calm, FreshSnapshots
<1> QED BY <1>5, <1>6, <1>7, <1>8, <1>10, <1>11 DEF IInv, Calm

-----------------------------------------------------------------------------
(* Every action of CalmNext keeps the invariant.                           *)

LEMMA DocumentKeeps ==
    ASSUME IInv, NEW a \in Requests, Document(a)
    PROVE  IInv'
<1> DEFINE Row == [status : Statuses, count : Nat]
           At(pc) == [doc[a] EXCEPT !.pc = pc]
<1>1. doc[a] \in DocTasks /\ row \in Row
  BY DEF IInv, TypeOK
<1>0. doc[a].pc # "none"
  BY DEF Document, DocStep, DocEnter, DocRecheck, DocMark, DocOpen, DocIndex,
         DocError, DocFail, DocGiveUp, DocTouch, DocSaveIndexed, DocHandOff, DocAck
<1>16. a = 1 /\ doc[a].attempt = latest /\ latest \in Nat
  BY <1>0 DEF IInv, TypeOK, Calm, OneAttempt
<1>2. \A pc \in DocPCs : /\ At(pc) \in DocTasks /\ At(pc).pc = pc
                         /\ At(pc).attempt = latest
  BY <1>1, <1>16, DocTyping
<1>3. doc[a].pc \notin {"none", "acking", "done"} => row.status # "finalizing"
  <2> SUFFICES ASSUME doc[a].pc \notin {"none", "acking", "done"}
               PROVE  row.status # "finalizing"
    OBVIOUS
  <2>1. a = 1
    BY DEF IInv, Calm, OneAttempt
  <2>2. fan[1].plan = {}
    BY <2>1 DEF IInv, Calm, OneFanout, Planned
  <2> QED BY <2>2 DEF IInv, Calm, Accounted
<1>4. \A s \in {"processing", "completed", "failed"} :
         Save(s) \in Row /\ (row.status # "finalizing" => Save(s).status # "finalizing")
  BY <1>1 DEF Save, Statuses
<1>5. CASE DocEnter(a)
  <2>1. PICK pc \in {"done", "entered"} : doc' = [doc EXCEPT ![a] = At(pc)]
    BY <1>5 DEF DocEnter, DocStep
  <2>2. pc \in DocPCs
    BY <2>1 DEF DocPCs
  <2>3. /\ At(pc) \in DocTasks /\ At(pc).attempt = latest
        /\ doc[a].pc \notin {"none", "acking", "done"}
    BY <1>2, <1>5, <2>2 DEF DocEnter, DocStep
  <2> HIDE DEF At
  <2> QED BY <1>5, <1>1, <1>3, <2>1, <2>3, DocStepKeeps, <1>16
         DEF DocEnter, DocOnly
<1>6. CASE DocRecheck(a)
  <2>1. PICK pc \in {"done", "marking"} : doc' = [doc EXCEPT ![a] = At(pc)]
    BY <1>6 DEF DocRecheck, DocStep
  <2>2. pc \in DocPCs
    BY <2>1 DEF DocPCs
  <2> QED BY <1>6, <1>1, <1>2, <1>3, <2>1, <2>2, DocStepKeeps, <1>16
         DEF DocRecheck, DocStep, DocOnly
<1>7. CASE DocMark(a)
  <2>1. doc' = [doc EXCEPT ![a] = At("opening")] /\ "opening" \in DocPCs
    BY <1>16, <1>7 DEF DocMark, DocStep, DocPCs
  <2> QED BY <1>7, <1>2, <1>3, <1>4, <2>1, DocStepKeeps, <1>16
         DEF DocMark, DocStep, DocOnly
<1>17. CASE DocOpen(a)
  <2> DEFINE new == [doc[a] EXCEPT !.pc = "parsing", !.attempt = latest + 1]
  <2>1. new \in DocTasks /\ new.attempt = latest + 1
    <3>1. latest + 1 \in Nat /\ "parsing" \in DocPCs
      BY <1>16 DEF DocPCs
    <3> QED BY <1>1, <3>1 DEF DocTasks
  <2>2. doc' = [doc EXCEPT ![a] = new]
    BY <1>17, <1>1 DEF DocOpen, DocTasks
  <2>3. /\ row' = row /\ row.status # "finalizing"
        /\ doc[a].pc \notin {"none", "acking", "done"}
        /\ latest' = latest + 1 /\ latest' \in Nat
        /\ UNCHANGED <<requests, fans, fan, sub, user, sweeping, faults>>
    BY <1>16, <1>17, <1>3 DEF DocOpen
  <2> HIDE DEF new
  <2>4. new.attempt = latest' /\ row' \in [status : Statuses, count : Nat]
    BY <1>1, <2>1, <2>3
  <2> HIDE DEF At
  <2> QED BY <2>1, <2>2, <2>3, <2>4, DocStepKeeps
<1>8. CASE DocIndex(a)
  <2>1. PICK pc \in {"done", "indexed"} : doc' = [doc EXCEPT ![a] = At(pc)]
    BY <1>8 DEF DocIndex, DocStep
  <2>2. pc \in DocPCs
    BY <2>1 DEF DocPCs
  <2> QED BY <1>8, <1>1, <1>2, <1>3, <2>1, <2>2, DocStepKeeps, <1>16
         DEF DocIndex, DocStep, DocOnly
<1>9. CASE DocError(a)
  <2>1. Retried(doc[a]) \in DocTasks /\ Retried(doc[a]).attempt = latest
    BY <1>1, <1>16, DocRetried
  <2>2. row' \in Row /\ row'.status # "finalizing"
    BY <1>9, <1>1, <1>3, <1>4 DEF DocError
  <2> QED BY <1>9, <2>1, <2>2, DocStepKeeps, <1>16
         DEF DocError, DocOnly
<1>10. CASE DocFail(a)
  <2>1. doc' = [doc EXCEPT ![a] = At("done")] /\ "done" \in DocPCs
    BY <1>10 DEF DocFail, DocPCs
  <2> QED BY <1>10, <1>2, <1>3, <1>4, <2>1, DocStepKeeps, <1>16
         DEF DocFail, DocOnly
<1>14. CASE DocGiveUp(a)
  <2>1. doc' = [doc EXCEPT ![a] = At("done")] /\ "done" \in DocPCs
    BY <1>14 DEF DocGiveUp, DocPCs
  <2> QED BY <1>14, <1>1, <1>2, <1>3, <2>1, DocStepKeeps, <1>16
         DEF DocGiveUp, DocOnly
<1>15. CASE DocTouch(a)
  <2>1. doc' = [doc EXCEPT ![a] = At("parsing")] /\ "parsing" \in DocPCs
    BY <1>15 DEF DocTouch, DocStep, DocPCs
  <2> QED BY <1>15, <1>2, <1>3, <1>4, <2>1, DocStepKeeps, <1>16
         DEF DocTouch, DocStep, DocOnly
<1>11. CASE DocSaveIndexed(a)
  <2>1. doc' = [doc EXCEPT ![a] = At("handing")] /\ "handing" \in DocPCs
    BY <1>11 DEF DocSaveIndexed, DocStep, DocPCs
  <2>2. row' \in Row /\ row'.status # "finalizing"
    BY <1>11, <1>1, <1>3, <1>4, EnrichmentAssumption
    DEF DocSaveIndexed, DocStep, EnrichmentAssumption
  <2> QED BY <1>11, <1>2, <2>1, <2>2, DocStepKeeps, <1>16
         DEF DocSaveIndexed, DocStep, DocOnly
<1>12. CASE DocHandOff(a)
  <2>1. doc' = [doc EXCEPT ![a] = At("acking")] /\ "acking" \in DocPCs
        /\ doc[a].pc = "handing"
    BY <1>12 DEF DocHandOff, DocStep, DocPCs
  <2>2. CASE UNCHANGED <<fans, fan>>
    BY <1>12, <1>1, <1>2, <1>3, <2>1, <2>2, DocStepKeeps, <1>16
         DEF DocHandOff, DocOnly
  <2>3. CASE /\ fans' = fans + 1
             /\ fan' = [fan EXCEPT ![fans + 1] =
                           [NoFan EXCEPT !.pc = "queued", !.attempt = doc[a].attempt]]
    <3> DEFINE new == [NoFan EXCEPT !.pc = "queued", !.attempt = doc[a].attempt]
    <3> USE Ones
    <3>1. a = 1 /\ fans = 0
      BY <2>1 DEF IInv, Calm, OneAttempt, OneFanout
    <3>2. /\ new \in FanTasks /\ new.pc = "queued" /\ new.plan = {}
          /\ new.attempt = latest
      BY <1>16, QueuedFan
    <3>3. fan' = [fan EXCEPT ![1] = new] /\ fans' = 1
      BY <2>3, <3>1
    <3>4. fan'[1] = new /\ \A h \in Fanouts : h # 1 => fan'[h] = fan[h]
      BY <3>3 DEF IInv, TypeOK
    <3>5. TypeOK'
      <4>1. fan' \in [Fanouts -> FanTasks] /\ doc' \in [Requests -> DocTasks]
        BY <3>2, <3>3, <2>1, <1>2 DEF IInv, TypeOK
      <4>2. fans' \in 0 .. (MaxRequests + MaxFaults)
        BY <3>3, EnrichmentAssumption DEF EnrichmentAssumption
      <4> QED BY <4>1, <4>2, <1>12 DEF IInv, TypeOK, DocHandOff, DocOnly
    <3>6. /\ doc'[1].pc = "acking" /\ doc'[1].attempt = latest
          /\ \A b \in Requests : b # 1 => doc'[b] = doc[b]
      <4>1. At("acking").pc = "acking" /\ At("acking").attempt = latest
        BY <2>1, <1>2
      <4> HIDE DEF At
      <4>2. doc' = [doc EXCEPT ![1] = At("acking")] /\ doc \in [Requests -> DocTasks]
        BY <2>1, <3>1 DEF IInv, TypeOK
      <4> QED BY <4>1, <4>2
    <3>7. OneAttempt' /\ OneFanout'
      <4> HIDE DEF new
      <4>1. OneAttempt'
        BY <3>6, <1>12 DEF IInv, Calm, OneAttempt, DocHandOff, DocOnly
      <4>2. OneFanout'
        BY <3>2, <3>3, <3>4, <3>6, <1>12
        DEF IInv, Calm, OneFanout, DocHandOff, DocOnly
      <4> QED BY <4>1, <4>2
    <3>8. fan[1].plan = {} /\ sub' = sub /\ row' = row
      BY <3>1, <1>12 DEF IInv, Calm, OneFanout, Planned, DocHandOff, DocOnly
    <3>9. Planned' /\ Accounted' /\ FreshSnapshots'
      BY <3>2, <3>3, <3>4, <3>8
      DEF IInv, Calm, Planned, Accounted, FreshSnapshots
    <3> QED BY <3>5, <3>7, <3>9 DEF IInv, Calm
  <2> QED BY <1>12, <2>2, <2>3 DEF DocHandOff
<1>13. CASE DocAck(a)
  <2>1. doc' = [doc EXCEPT ![a] = At("done")] /\ "done" \in DocPCs
    BY <1>13 DEF DocAck, DocStep, DocPCs
  <2> QED BY <1>13, <1>1, <1>2, <2>1, DocStepKeeps, <1>16
         DEF DocAck, DocStep, DocOnly
<1> QED
  BY <1>5, <1>6, <1>7, <1>8, <1>9, <1>10, <1>11, <1>12, <1>13, <1>14, <1>15,
     <1>17
  DEF Document

LEMMA PostProcessKeeps ==
    ASSUME IInv, NEW g \in Fanouts, PostProcess(g)
    PROVE  IInv'
<1> DEFINE At(pc) == [fan[g] EXCEPT !.pc = pc]
<1> USE Ones
<1>1. fan[g] \in FanTasks /\ fan[g].pc # "none"
  BY DEF IInv, TypeOK, PostProcess, PostRead, PostError, PostNothing, PostSeed,
         PostSkip, PostSpawn, PostRelease, PostPromote, PostEnd, PostAck
<1>2. g = 1 /\ fans = 1
  BY <1>1 DEF IInv, Calm, OneFanout
<1>3. \A pc \in FanPCs : /\ At(pc) \in FanTasks /\ At(pc).pc = pc
                         /\ At(pc).plan = fan[g].plan
                         /\ At(pc).attempt = fan[g].attempt
  BY <1>1, FanTyping
<1>4. CASE PostRead(g)
  <2>1. PICK pc \in {"planned", "acking"} :
           /\ fan' = [fan EXCEPT ![g] = At(pc)]
           /\ pc = "planned" => row.status = "processing"
    BY <1>4 DEF PostRead
  <2>2. fan[g].plan = {}
    BY <1>2, <1>4 DEF PostRead, IInv, Calm, Planned
  <2>3. pc \in FanPCs
    BY <2>1 DEF FanPCs
  <2> QED BY <1>1, <1>3, <1>4, <2>1, <2>2, <2>3, FanStepKeeps DEF PostRead
<1>5. CASE PostError(g)
  <2>1. fan[g].plan = {}
    BY <1>2, <1>5 DEF PostError, IInv, Calm, Planned
  <2>2. fan' = [fan EXCEPT ![g] = Retried(fan[g])]
    BY <1>5 DEF PostError
  <2> QED BY <1>1, <1>5, <2>1, <2>2, FanRetried, FanStepKeeps DEF PostError
<1>6. CASE PostNothing(g)
  <2>1. /\ fan[g].plan = {} /\ row.status = "processing"
        /\ row \in [status : Statuses, count : Nat]
    BY <1>2, <1>6 DEF PostNothing, IInv, TypeOK, Calm, Planned
  <2>2. /\ row' \in [status : Statuses, count : Nat]
        /\ row'.status = "completed"
    BY <1>6, <2>1, RowTyping DEF PostNothing, Statuses
  <2>3. fan' = [fan EXCEPT ![1] = At("acking")] /\ "acking" \in FanPCs
    BY <1>2, <1>6 DEF PostNothing, FanPCs
  <2>4. fan' \in [Fanouts -> FanTasks]
    BY <2>3, <1>3 DEF IInv, TypeOK
  <2>5. /\ fan'[1].pc = "acking" /\ fan'[1].plan = {}
        /\ fan'[1].attempt = fan[1].attempt
        /\ \A h \in Fanouts : h # 1 => fan'[h] = fan[h]
    <3>1. /\ At("acking").pc = "acking" /\ At("acking").plan = {}
          /\ At("acking").attempt = fan[1].attempt
      BY <1>2, <1>3, <2>1, <2>3
    <3> HIDE DEF At
    <3> QED BY <2>3, <3>1 DEF IInv, TypeOK
  <2>6. TypeOK'
    BY <1>6, <2>2, <2>4 DEF IInv, TypeOK, PostNothing, FanOnly
  <2>7. OneAttempt' /\ OneFanout'
    BY <1>2, <1>6, <2>5
    DEF IInv, Calm, OneAttempt, OneFanout, PostNothing, FanOnly
  <2>8. Planned' /\ Accounted' /\ FreshSnapshots'
    BY <1>2, <1>6, <2>1, <2>2, <2>5
    DEF IInv, Calm, Planned, Accounted, FreshSnapshots, PostNothing, FanOnly
  <2> QED BY <2>6, <2>7, <2>8 DEF IInv, Calm
<1>7. CASE PostSeed(g)
  <2>1. fan[g].plan = {} /\ row.status = "processing" /\ fan[g].pc = "planned"
    BY <1>2, <1>7 DEF PostSeed, IInv, Calm, Planned
  <2>2. PICK plan \in Plans \ {{}} :
           /\ row' = [status |-> "finalizing", count |-> Cardinality(plan)]
           /\ fan' = [fan EXCEPT ![g].pc = "spawning", ![g].plan = plan]
    BY <1>7, <2>1 DEF PostSeed
  <2>3. plan \subseteq Subtasks /\ plan # {}
    BY EnrichmentAssumption DEF EnrichmentAssumption
  <2>4. Cardinality(plan) \in Nat
    BY <2>3, FS_Subset, FS_CardinalityType, EnrichmentAssumption
    DEF EnrichmentAssumption
  <2> DEFINE new == [fan[g] EXCEPT !.pc = "spawning", !.plan = plan]
  <2>5. /\ new \in FanTasks /\ new.pc = "spawning" /\ new.plan = plan
        /\ new.attempt = fan[g].attempt
    BY <1>1, <2>3 DEF FanTasks, FanPCs
  <2>6. fan' = [fan EXCEPT ![1] = new]
    BY <1>2, <2>2 DEF IInv, TypeOK
  <2> HIDE DEF new
  <2>7. /\ fan' \in [Fanouts -> FanTasks]
        /\ fan'[1] = new
        /\ \A h \in Fanouts : h # 1 => fan'[h] = fan[h]
    BY <2>5, <2>6 DEF IInv, TypeOK
  <2>8. TypeOK'
    BY <1>7, <2>2, <2>4, <2>7 DEF IInv, TypeOK, PostSeed, FanOnly, Statuses
  <2>9. OneAttempt' /\ OneFanout'
    BY <1>2, <1>7, <2>5, <2>7
    DEF IInv, Calm, OneAttempt, OneFanout, PostSeed, FanOnly
  <2>10. sub' = sub /\ fans' = fans
    BY <1>7 DEF PostSeed, FanOnly
  <2>11. \A k \in Subtasks : sub[1][k].pc = "none"
    BY <1>2, <2>1 DEF IInv, Calm, Planned
  <2>12. Planned'
    BY <1>2, <2>3, <2>5, <2>7, <2>10, <2>11 DEF IInv, Calm, Planned
  <2>13. Outstanding(1)' = plan
    BY <2>3, <2>5, <2>7, <2>10, <2>11 DEF Outstanding, HoldsSlot
  <2>14. Accounted'
    BY <2>2, <2>3, <2>5, <2>7, <2>13 DEF Accounted
  <2>15. FreshSnapshots'
    BY <2>10 DEF IInv, Calm, FreshSnapshots
  <2> QED BY <2>8, <2>9, <2>12, <2>14, <2>15 DEF IInv, Calm
<1>8. CASE PostSpawn(g)
  <2>1. PICK k \in Unspawned(g), pc \in {"queued", "lost"} :
           sub' = [sub EXCEPT ![g][k].pc = pc]
    BY <1>8 DEF PostSpawn
  <2>2. /\ k \in Subtasks /\ k \in fan[1].plan /\ sub[1][k].pc = "none"
        /\ sub[1][k] \in SubTasks
    BY <1>1, <1>2, <2>1 DEF Unspawned, FanTasks, IInv, TypeOK
  <2> DEFINE new == [sub[1][k] EXCEPT !.pc = pc]
  <2>3. new \in SubTasks /\ new.pc = pc
    <3>1. pc \in SubPCs
      BY <2>1 DEF SubPCs
    <3> QED BY <2>2, <3>1, SubTyping
  <2>4. sub' = [sub EXCEPT ![1] = [sub[1] EXCEPT ![k] = new]]
    BY <1>2, <2>1
  <2> HIDE DEF new
  <2>5. HoldsSlot(new) /\ HoldsSlot(sub[1][k])
    BY <2>1, <2>2, <2>3 DEF HoldsSlot
  <2> QED BY <1>8, <2>1, <2>2, <2>3, <2>4, <2>5, SubStepKeeps DEF PostSpawn, FanOnly
<1>9. CASE PostRelease(g)
  <2>1. PICK k \in Shortfall(g) : sub' = [sub EXCEPT ![g][k].pc = "done"]
    BY <1>9 DEF PostRelease
  <2>2. /\ k \in Subtasks /\ k \in fan[1].plan /\ sub[1][k].pc = "lost"
        /\ sub[1][k] \in SubTasks
    BY <1>1, <1>2, <2>1 DEF Shortfall, FanTasks, IInv, TypeOK
  <2> DEFINE new == [sub[1][k] EXCEPT !.pc = "done"]
             post == At("promoting")
  <2>3. new \in SubTasks /\ new.pc = "done"
    BY <2>2, SubTyping DEF SubPCs
  <2>4. sub' = [sub EXCEPT ![1] = [sub[1] EXCEPT ![k] = new]]
    BY <1>2, <2>1
  <2>5. /\ post \in FanTasks /\ post.pc = "promoting"
        /\ post.plan = fan[1].plan /\ post.attempt = fan[1].attempt
    BY <1>2, <1>3 DEF FanPCs
  <2>6. fan' = [fan EXCEPT ![1] = post]
    BY <1>2, <1>9 DEF PostRelease
  <2> HIDE DEF new, post
  <2>7. ~HoldsSlot(new) /\ k \in Outstanding(1)
    BY <2>2, <2>3 DEF HoldsSlot, Outstanding
  <2> QED BY <1>9, <2>2, <2>3, <2>4, <2>5, <2>6, <2>7, DrainKeeps
          DEF PostRelease, FanOnly
<1>10. CASE PostPromote(g)
  <2>1. fan' = [fan EXCEPT ![g] = At("spawning")] /\ "spawning" \in FanPCs
    BY <1>10 DEF PostPromote, FanPCs
  <2>2. fan[g].plan # {}
    BY <1>2, <1>10 DEF PostPromote, IInv, Calm, Planned
  <2> QED BY <1>1, <1>2, <1>3, <1>10, <2>1, <2>2, FanStepKeeps DEF PostPromote
<1>11. CASE PostEnd(g)
  <2>1. fan' = [fan EXCEPT ![g] = At("acking")] /\ "acking" \in FanPCs
    BY <1>11 DEF PostEnd, FanPCs
  <2> QED BY <1>1, <1>3, <1>11, <2>1, FanStepKeeps DEF PostEnd
<1>12. CASE PostAck(g)
  <2>1. fan' = [fan EXCEPT ![g] = At("done")] /\ "done" \in FanPCs
    BY <1>12 DEF PostAck, FanPCs
  <2> QED BY <1>1, <1>3, <1>12, <2>1, FanStepKeeps DEF PostAck
<1>13. CASE PostSkip(g)
  <2>1. fan' = [fan EXCEPT ![g] = At("acking")] /\ "acking" \in FanPCs
    BY <1>13 DEF PostSkip, FanPCs
  <2> QED BY <1>1, <1>3, <1>13, <2>1, FanStepKeeps DEF PostSkip
<1> QED
  BY <1>4, <1>5, <1>6, <1>7, <1>8, <1>9, <1>10, <1>11, <1>12, <1>13
  DEF PostProcess

LEMMA EnrichKeeps ==
    ASSUME IInv, NEW g \in Fanouts, NEW k \in Subtasks, Enrich(g, k)
    PROVE  IInv'
<1> DEFINE At(pc) == [sub[g][k] EXCEPT !.pc = pc]
<1> USE Ones
<1>1. sub[g][k] \in SubTasks /\ sub[g][k].pc # "none"
  BY DEF IInv, TypeOK, Enrich, SubStep, SubStart, WikiClaim, SubSkip, SubRead,
         SummaryMark, SummarySave, SubSucceed, SubError, SubDrain, SubPromote,
         SubAck
<1>2. g = 1 /\ k \in fan[1].plan
  BY <1>1 DEF IInv, Calm, OneFanout, Planned
<1>3. \A pc \in SubPCs : /\ At(pc) \in SubTasks /\ At(pc).pc = pc
                         /\ At(pc).seen = sub[1][k].seen
  BY <1>1, <1>2, SubTyping
<1>4. \A s : sub' = [sub EXCEPT ![g][k] = s]
               => sub' = [sub EXCEPT ![1] = [sub[1] EXCEPT ![k] = s]]
  BY <1>2
<1>5. /\ row.status \in {"finalizing", "completed"}
      /\ HoldsSlot(sub[1][k]) => row.status = "finalizing"
  BY <1>2 DEF IInv, Calm, Accounted, Outstanding
<1>6. CASE SubStart(g, k)
  <2>1. PICK pc \in {"done", "started"} :
           /\ sub' = [sub EXCEPT ![g][k] = At(pc)]
           /\ pc = "done" => Superseded(g)
    BY <1>6 DEF SubStart, SubStep
  <2>2. pc = "started" /\ pc \in SubPCs
    BY <1>2, <2>1 DEF Superseded, SubPCs, IInv, TypeOK, Calm, OneFanout, Planned
  <2>3. HoldsSlot(At(pc)) /\ HoldsSlot(sub[1][k])
    BY <1>2, <1>3, <1>6, <2>2 DEF HoldsSlot, SubStart, SubStep
  <2> HIDE DEF At
  <2> QED BY <1>2, <1>3, <1>4, <1>6, <2>1, <2>2, <2>3, SubStepKeeps
          DEF SubStart, SubOnly
<1>7. CASE WikiClaim(g, k)
  <2>1. "started" \in SubPCs
    BY DEF SubPCs
  <2>2. \A h \in Fanouts, j \in Subtasks : h # 1 => sub[h][j].pc = "none"
    BY DEF IInv, Calm, OneFanout, Planned
  <2>3. sub' = [sub EXCEPT ![1] = [sub[1] EXCEPT ![k] = At("started")]]
    <3>1. \A h \in Fanouts, j \in Subtasks :
             sub'[h][j] = IF h = 1 /\ j = k THEN At("started") ELSE sub[h][j]
      BY <1>2, <1>7, <2>2 DEF WikiClaim
    <3>2. /\ sub' = [h \in Fanouts |-> [j \in Subtasks |-> sub'[h][j]]]
          /\ sub = [h \in Fanouts |-> [j \in Subtasks |-> sub[h][j]]]
      BY <1>7 DEF WikiClaim, IInv, TypeOK
    <3> HIDE DEF At
    <3> QED BY <3>1, <3>2
  <2>4. HoldsSlot(At("started")) /\ HoldsSlot(sub[1][k])
    BY <1>2, <1>3, <1>7, <2>1 DEF HoldsSlot, WikiClaim
  <2> HIDE DEF At
  <2> QED BY <1>2, <1>3, <1>7, <2>1, <2>3, <2>4, SubStepKeeps
          DEF WikiClaim, SubOnly
<1>8. CASE SubRead(g, k)
  <2> DEFINE new == [sub[g][k] EXCEPT
                       !.seen = row.status,
                       !.pc = IF row.status \in Aborted THEN "draining"
                              ELSE IF k \in Summaries THEN "loaded"
                              ELSE "working"]
  <2>1. HoldsSlot(sub[1][k]) /\ row.status = "finalizing"
    BY <1>2, <1>5, <1>8 DEF SubRead, HoldsSlot
  <2>2. /\ new \in SubTasks /\ new.seen = "finalizing"
        /\ new.pc \in {"loaded", "working"}
    BY <1>1, <2>1 DEF SubTasks, SubPCs, Statuses, Aborted
  <2>3. sub' = [sub EXCEPT ![1] = [sub[1] EXCEPT ![k] = new]]
    BY <1>2, <1>8 DEF SubRead
  <2> HIDE DEF new
  <2>4. HoldsSlot(new)
    BY <2>2 DEF HoldsSlot
  <2> QED BY <1>2, <1>8, <2>1, <2>2, <2>3, <2>4, SubStepKeeps DEF SubRead, SubOnly
<1>9. ASSUME NEW from \in {"loaded", "working"}, NEW to \in {"working", "saved"},
             k \in Summaries, SubStep(g, k, from, to),
             row' = Save(sub[g][k].seen), UNCHANGED faults, SubOnly
      PROVE  IInv'
  <2>1. HoldsSlot(sub[1][k]) /\ sub[1][k].seen = "finalizing"
    BY <1>2, <1>9 DEF SubStep, HoldsSlot, IInv, Calm, FreshSnapshots
  <2>2. row' = row
    BY <1>2, <1>5, <1>9, <2>1 DEF Save, IInv, TypeOK
  <2>3. sub' = [sub EXCEPT ![1] = [sub[1] EXCEPT ![k] = At(to)]] /\ to \in SubPCs
    BY <1>2, <1>9 DEF SubStep, SubPCs
  <2>4. HoldsSlot(At(to))
    BY <1>3, <2>3 DEF HoldsSlot
  <2> HIDE DEF At
  <2> QED BY <1>2, <1>3, <1>9, <2>1, <2>2, <2>3, <2>4, SubStepKeeps DEF SubOnly
<1>10. CASE SummaryMark(g, k)
  BY <1>9, <1>10 DEF SummaryMark
<1>11. CASE SummarySave(g, k)
  BY <1>9, <1>11 DEF SummarySave
<1>12. CASE SubSucceed(g, k)
  <2>1. sub' = [sub EXCEPT ![1] = [sub[1] EXCEPT ![k] = At("draining")]]
        /\ "draining" \in SubPCs
    BY <1>2, <1>4, <1>12 DEF SubSucceed, SubStep, SubPCs
  <2>2. HoldsSlot(At("draining")) /\ HoldsSlot(sub[1][k])
    BY <1>2, <1>3, <1>12, <2>1 DEF HoldsSlot, SubSucceed, SubStep
  <2> HIDE DEF At
  <2> QED BY <1>2, <1>3, <1>12, <2>1, <2>2, SubStepKeeps DEF SubSucceed, SubOnly
<1>13. CASE SubError(g, k)
  <2> DEFINE new == IF sub[g][k].left > 0 THEN Retried(sub[g][k])
                    ELSE At("draining")
  <2>1. "draining" \in SubPCs
    BY DEF SubPCs
  <2>2. new \in SubTasks /\ new.pc \in {"queued", "draining"}
    BY <1>1, <1>3, <2>1, SubRetried
  <2>3. sub' = [sub EXCEPT ![1] = [sub[1] EXCEPT ![k] = new]]
    BY <1>2, <1>13 DEF SubError
  <2> HIDE DEF new
  <2>4. HoldsSlot(new) /\ HoldsSlot(sub[1][k])
    BY <1>2, <1>13, <2>2 DEF HoldsSlot, SubError
  <2> QED BY <1>2, <1>13, <2>2, <2>3, <2>4, SubStepKeeps DEF SubError, SubOnly
<1>14. CASE SubDrain(g, k)
  <2>1. sub' = [sub EXCEPT ![1] = [sub[1] EXCEPT ![k] = At("promoting")]]
        /\ "promoting" \in SubPCs
    BY <1>2, <1>14 DEF SubDrain, SubStep, SubPCs
  <2>2. ~HoldsSlot(At("promoting")) /\ k \in Outstanding(1)
    BY <1>2, <1>3, <1>14, <2>1 DEF HoldsSlot, Outstanding, SubDrain, SubStep
  <2>3. fan' = [fan EXCEPT ![1] = fan[1]] /\ fan[1] \in FanTasks
    BY <1>14 DEF SubDrain, SubOnly, IInv, TypeOK
  <2> HIDE DEF At
  <2> QED BY <1>2, <1>3, <1>14, <2>1, <2>2, <2>3, DrainKeeps
          DEF SubDrain, SubOnly
<1>15. CASE SubPromote(g, k)
  <2>1. sub' = [sub EXCEPT ![1] = [sub[1] EXCEPT ![k] = At("acking")]]
        /\ "acking" \in SubPCs
    BY <1>2, <1>15 DEF SubPromote, SubStep, SubPCs
  <2>2. ~HoldsSlot(At("acking")) /\ ~HoldsSlot(sub[1][k])
    BY <1>2, <1>3, <1>15, <2>1 DEF HoldsSlot, SubPromote, SubStep
  <2> HIDE DEF At
  <2> QED BY <1>2, <1>3, <1>15, <2>1, <2>2, SubStepKeeps DEF SubPromote, SubOnly
<1>16. CASE SubAck(g, k)
  <2>1. sub' = [sub EXCEPT ![1] = [sub[1] EXCEPT ![k] = At("done")]]
        /\ "done" \in SubPCs
    BY <1>2, <1>16 DEF SubAck, SubStep, SubPCs
  <2>2. ~HoldsSlot(At("done")) /\ ~HoldsSlot(sub[1][k])
    BY <1>2, <1>3, <1>16, <2>1 DEF HoldsSlot, SubAck, SubStep
  <2> HIDE DEF At
  <2> QED BY <1>2, <1>3, <1>16, <2>1, <2>2, SubStepKeeps DEF SubAck, SubOnly
<1>17. CASE SubSkip(g, k)
  <2>1. sub' = [sub EXCEPT ![1] = [sub[1] EXCEPT ![k] = At("draining")]]
        /\ "draining" \in SubPCs
    BY <1>2, <1>4, <1>17 DEF SubSkip, SubStep, SubPCs
  <2>2. HoldsSlot(At("draining")) /\ HoldsSlot(sub[1][k])
    BY <1>2, <1>3, <1>17, <2>1 DEF HoldsSlot, SubSkip, SubStep
  <2> HIDE DEF At
  <2> QED BY <1>2, <1>3, <1>17, <2>1, <2>2, SubStepKeeps DEF SubSkip, SubOnly
<1> QED
  BY <1>6, <1>7, <1>8, <1>10, <1>11, <1>12, <1>13, <1>14, <1>15, <1>16, <1>17
  DEF Enrich

\* CalmSpec keeps the inductive invariant.
THEOREM CalmInvariant == CalmSpec => []IInv
<1>1. Init => IInv
  BY InitIInv
<1>2. IInv /\ [CalmNext]_vars => IInv'
  <2> SUFFICES ASSUME IInv, [CalmNext]_vars PROVE IInv'
    OBVIOUS
  <2>1. CASE \E a \in Requests : Document(a)
    BY <2>1, DocumentKeeps
  <2>2. CASE \E g \in Fanouts : PostProcess(g)
    BY <2>2, PostProcessKeeps
  <2>3. CASE \E g \in Fanouts, k \in Subtasks : Enrich(g, k)
    BY <2>3, EnrichKeeps
  <2>4. CASE UNCHANGED vars
    BY <2>4 DEF vars, IInv, TypeOK, Calm, OneAttempt, OneFanout, Planned,
                Accounted, FreshSnapshots, Outstanding
  <2> QED BY <2>1, <2>2, <2>3, <2>4 DEF CalmNext
<1> QED BY <1>1, <1>2, PTL DEF CalmSpec

-----------------------------------------------------------------------------
(* The results.                                                            *)

\* Every state of an undisturbed attempt has the declared types.
THEOREM CalmTypeCorrect == CalmSpec => []TypeOK
<1>1. IInv => TypeOK
  BY DEF IInv
<1> QED BY <1>1, CalmInvariant, PTL

\* While an undisturbed attempt is finalizing, the counter is the number of
\* its subtasks that still hold a slot, whichever of them were enqueued.
THEOREM SlotsAreAccounted == CalmSpec => []SlotsMatchOutstanding
<1>1. IInv => SlotsMatchOutstanding
  BY Ones DEF IInv, Calm, OneAttempt, OneFanout, Planned, Accounted,
              SlotsMatchOutstanding
<1> QED BY <1>1, CalmInvariant, PTL

\* An undisturbed attempt is completed only when every subtask it planned
\* has drained its slot.
THEOREM CompletionIsEarned == CalmSpec => []CompletedIsEnriched
<1>1. IInv => CompletedIsEnriched
  <2> SUFFICES ASSUME IInv, row.status = "completed", NEW g \in Fanouts
               PROVE  Outstanding(g) = {}
    BY DEF CompletedIsEnriched
  <2>1. CASE g = 1
    BY <2>1 DEF IInv, Calm, Accounted, Outstanding
  <2>2. CASE g # 1
    BY <2>2 DEF IInv, Calm, OneFanout, Outstanding
  <2> QED BY <2>1, <2>2
<1> QED BY <1>1, CalmInvariant, PTL
-----------------------------------------------------------------------------
(* Everything at once: several requests, API calls, the sweep, crashes and *)
(* failing drains.  The accounting above does not survive that (a reparse  *)
(* and a late drain upset it), but the counter of a cancelled row does.    *)

Row == [status : Statuses, count : Nat]
Reparsing == {"reparse_save", "reparse_reset", "reparse_enqueue"}

\* A request that was not made, or not enqueued yet, has no task.
UnusedRequests ==
    /\ \A r \in Requests : r > requests => doc[r].pc = "none"
    /\ user \in Reparsing => doc[requests].pc = "none"

\* Every fan-out is owed to a hand-over or to a fault.
Ahead == {r \in Requests : doc[r].pc \notin {"acking", "done"}}
RoomForFans == fans + Cardinality(Ahead) <= MaxRequests + faults

\* A subtask goes to work on a row it has not read as aborted.
GoodRead(s) == s.pc \in {"loaded", "working", "saved"} => s.seen \notin Aborted
ReadsLive == \A g \in Fanouts, k \in Subtasks : GoodRead(sub[g][k])

RowSane(x) == x \in Row /\ (x.status = "cancelled" => x.count = 0)

FullInv ==
    TypeOK /\ UnusedRequests /\ RoomForFans /\ ReadsLive /\ CancelledHoldsNoSlots

SubTables == [Fanouts -> [Subtasks -> SubTasks]]

LEMMA RowsWritten ==
    ASSUME FullInv
    PROVE  /\ RowSane(row) /\ RowSane(Decremented) /\ RowSane(Promoted)
           /\ \A s \in Statuses \ {"cancelled"} : RowSane(Save(s))
           /\ \A s \in Statuses : RowSane(Reset(s))
<1>1. row \in Row /\ (row.status = "cancelled" => row.count = 0)
  BY DEF FullInv, TypeOK, Row, CancelledHoldsNoSlots
<1>2. /\ row.status \in Statuses /\ row.count \in Nat
      /\ row = [status |-> row.status, count |-> row.count]
  BY <1>1 DEF Row
<1>3. RowSane(Decremented)
  <2>1. CASE row.status # "gone" /\ row.count > 0
    <3>1. row.count - 1 \in Nat
      BY <1>2, <2>1
    <3>2. [row EXCEPT !.count = @ - 1] = [status |-> row.status, count |-> row.count - 1]
      BY <1>1 DEF Row
    <3> QED BY <1>1, <1>2, <2>1, <3>1, <3>2 DEF Decremented, RowSane, Row
  <2>2. CASE ~(row.status # "gone" /\ row.count > 0)
    BY <1>1, <2>2 DEF Decremented, RowSane
  <2> QED BY <2>1, <2>2
<1>4. RowSane(Promoted)
  BY <1>1 DEF Promoted, RowSane, Row, Statuses
<1>5. \A s \in Statuses \ {"cancelled"} : RowSane(Save(s))
  BY <1>1 DEF Save, RowSane, Row
<1>6. \A s \in Statuses : RowSane(Reset(s))
  BY <1>1 DEF Reset, RowSane, Row
<1> QED BY <1>1, <1>3, <1>4, <1>5, <1>6 DEF RowSane

LEMMA AheadFinite ==
    /\ IsFiniteSet(Requests)
    /\ \A S \in SUBSET Requests : IsFiniteSet(S) /\ Cardinality(S) \in Nat
<1>1. IsFiniteSet(Requests)
  BY EnrichmentAssumption, FS_Interval DEF EnrichmentAssumption, Requests
<1> QED BY <1>1, FS_Subset, FS_CardinalityType

\* A step that starts neither a request nor a fan-out.
LEMMA QuietKeeps ==
    ASSUME FullInv, UNCHANGED <<requests, fans>>,
           faults' \in 0 .. MaxFaults, faults' >= faults,
           doc' \in [Requests -> DocTasks], fan' \in [Fanouts -> FanTasks],
           latest' \in Nat, user' \in UserPCs, sweeping' \in BOOLEAN,
           user' \in Reparsing => user \in Reparsing,
           RowSane(row'), sub' \in SubTables, ReadsLive',
           \A r \in Requests :
              /\ doc[r].pc = "none" => doc'[r].pc = "none"
              /\ doc[r].pc \in {"acking", "done"} => doc'[r].pc \in {"acking", "done"}
    PROVE  FullInv'
<1>1. TypeOK'
  BY DEF FullInv, TypeOK, RowSane, Row, SubTables
<1>2. UnusedRequests'
  BY DEF FullInv, TypeOK, UnusedRequests
<1>3. RoomForFans'
  <2>1. Ahead' \subseteq Ahead
    BY DEF Ahead
  <2>2. Ahead \subseteq Requests
    BY DEF Ahead
  <2>3. /\ Cardinality(Ahead') <= Cardinality(Ahead)
        /\ Cardinality(Ahead') \in Nat /\ Cardinality(Ahead) \in Nat
    BY <2>1, <2>2, AheadFinite, FS_Subset
  <2>4. fans \in Nat /\ faults \in Nat /\ MaxRequests \in Nat /\ faults' \in Nat
    BY EnrichmentAssumption DEF FullInv, TypeOK, EnrichmentAssumption
  <2> QED BY <2>3, <2>4 DEF FullInv, RoomForFans
<1>4. CancelledHoldsNoSlots'
  BY DEF RowSane, CancelledHoldsNoSlots
<1> QED BY <1>1, <1>2, <1>3, <1>4 DEF FullInv

\* A step of one document task, its row write included.
LEMMA DocFullKeeps ==
    ASSUME FullInv, NEW a \in Requests, Document(a)
    PROVE  FullInv'
<1>1. /\ doc[a] \in DocTasks /\ doc \in [Requests -> DocTasks] /\ latest \in Nat
      /\ fan \in [Fanouts -> FanTasks] /\ sub \in SubTables /\ fans \in Nat
      /\ faults \in 0 .. MaxFaults /\ faults \in Nat /\ user \in UserPCs /\ sweeping \in BOOLEAN
      /\ ReadsLive
  BY EnrichmentAssumption DEF FullInv, TypeOK, SubTables, EnrichmentAssumption
<1> DEFINE Before == DocPCs \ {"none", "acking", "done"}
<1>2. ASSUME NEW t \in DocTasks, doc' = [doc EXCEPT ![a] = t],
             \/ doc[a].pc \in Before /\ t.pc # "none"
             \/ doc[a].pc = "acking" /\ t.pc = "done",
             RowSane(row'), latest' \in Nat,
             UNCHANGED <<requests, fans, fan, sub, user, sweeping, faults>>
      PROVE  FullInv'
  <2>1. /\ doc' \in [Requests -> DocTasks] /\ doc'[a] = t
        /\ \A r \in Requests : r # a => doc'[r] = doc[r]
    BY <1>1, <1>2
  <2>2. ReadsLive'
    BY <1>1, <1>2 DEF ReadsLive
  <2>3. \A r \in Requests :
              /\ doc[r].pc = "none" => doc'[r].pc = "none"
              /\ doc[r].pc \in {"acking", "done"} => doc'[r].pc \in {"acking", "done"}
    BY <1>2, <2>1
  <2> QED BY <1>1, <1>2, <2>1, <2>2, <2>3, QuietKeeps
<1>3. ASSUME NEW from \in Before, doc[a].pc = from, NEW to \in DocPCs \ {"none"},
             doc' = [doc EXCEPT ![a].pc = to],
             RowSane(row'), UNCHANGED <<fans, fan>>, DocOnly
      PROVE  FullInv'
  <2>1. [doc[a] EXCEPT !.pc = to] \in DocTasks /\ [doc[a] EXCEPT !.pc = to].pc = to
    BY <1>1, DocTyping
  <2>2. PICK t \in DocTasks : t = [doc[a] EXCEPT !.pc = to] /\ t.pc = to
    BY <2>1
  <2>3. doc' = [doc EXCEPT ![a] = t]
    BY <1>3, <2>2
  <2> QED BY <1>1, <1>2, <1>3, <2>2, <2>3 DEF DocOnly
<1>4. /\ RowSane(row) /\ RowSane(Save("processing")) /\ RowSane(Save("failed"))
      /\ \A s \in IndexedStatuses : RowSane(Save(s))
  BY RowsWritten, EnrichmentAssumption DEF Statuses, EnrichmentAssumption
<1>5. CASE DocEnter(a)
  <2>1. PICK to \in {"done", "entered"} : doc' = [doc EXCEPT ![a].pc = to]
    BY <1>5 DEF DocEnter, DocStep
  <2> QED BY <1>3, <1>4, <1>5, <2>1 DEF DocEnter, DocStep, DocPCs
<1>6. CASE DocRecheck(a)
  <2>1. PICK to \in {"done", "marking"} : doc' = [doc EXCEPT ![a].pc = to]
    BY <1>6 DEF DocRecheck, DocStep
  <2> QED BY <1>3, <1>4, <1>6, <2>1 DEF DocRecheck, DocStep, DocPCs
<1>7. CASE DocMark(a)
  <2>1. PICK to \in {"opening", "parsing"} : doc' = [doc EXCEPT ![a].pc = to]
    BY <1>7 DEF DocMark, DocStep
  <2> QED BY <1>3, <1>4, <1>7, <2>1 DEF DocMark, DocStep, DocPCs
<1>8. CASE DocOpen(a)
  <2>1. latest + 1 \in Nat /\ "parsing" \in DocPCs
    BY <1>1 DEF DocPCs
  <2>2. PICK t \in DocTasks :
          t = [doc[a] EXCEPT !.pc = "parsing", !.attempt = latest + 1] /\ t.pc = "parsing"
    <3> DEFINE t == [doc[a] EXCEPT !.pc = "parsing", !.attempt = latest + 1]
    <3>1. t \in DocTasks /\ t.pc = "parsing"
      BY <1>1, <2>1 DEF DocTasks
    <3> QED BY <3>1
  <2>3. doc' = [doc EXCEPT ![a] = t] /\ doc[a].pc \in Before
    BY <1>1, <1>8, <2>2 DEF DocOpen, DocTasks, DocPCs
  <2> QED BY <1>2, <1>4, <1>8, <2>1, <2>2, <2>3 DEF DocOpen
<1>9. CASE DocIndex(a)
  <2>1. PICK to \in {"done", "indexed"} : doc' = [doc EXCEPT ![a].pc = to]
    BY <1>9 DEF DocIndex, DocStep
  <2> QED BY <1>3, <1>4, <1>9, <2>1 DEF DocIndex, DocStep, DocPCs
<1>10. CASE DocError(a)
  <2>1. PICK t \in DocTasks : t = Retried(doc[a]) /\ t.pc \in {"queued", "done"}
    BY <1>1, DocRetried
  <2>2. doc' = [doc EXCEPT ![a] = t] /\ doc[a].pc \in Before /\ RowSane(row')
    BY <1>4, <1>10, <2>1 DEF DocError, DocPCs
  <2> QED BY <1>1, <1>2, <1>10, <2>1, <2>2 DEF DocError, DocOnly
<1>11. CASE DocFail(a)
  BY <1>3, <1>4, <1>11 DEF DocFail, DocPCs
<1>12. CASE DocGiveUp(a)
  BY <1>3, <1>4, <1>12 DEF DocGiveUp, DocPCs
<1>13. CASE DocTouch(a)
  BY <1>3, <1>4, <1>13 DEF DocTouch, DocStep, DocPCs
<1>14. CASE DocSaveIndexed(a)
  <2>1. RowSane(row')
    BY <1>4, <1>14 DEF DocSaveIndexed
  <2> QED BY <1>3, <1>14, <2>1 DEF DocSaveIndexed, DocStep, DocPCs
<1>15. CASE DocHandOff(a)
  <2>1. CASE UNCHANGED <<fans, fan>>
    BY <1>3, <1>4, <1>15, <2>1 DEF DocHandOff, DocStep, DocPCs
  <2>2. CASE /\ fans' = fans + 1
             /\ fan' = [fan EXCEPT ![fans + 1] =
                           [NoFan EXCEPT !.pc = "queued", !.attempt = doc[a].attempt]]
    <3>1. PICK t \in DocTasks : t = [doc[a] EXCEPT !.pc = "acking"] /\ t.pc = "acking"
      BY <1>1, DocTyping DEF DocPCs
    <3>2. /\ doc' = [doc EXCEPT ![a] = t] /\ doc[a].pc = "handing"
          /\ UNCHANGED <<row, latest, requests, sub, user, sweeping, faults>>
      BY <1>15, <3>1 DEF DocHandOff, DocStep, DocOnly
    <3>3. /\ doc' \in [Requests -> DocTasks] /\ doc'[a].pc = "acking"
          /\ \A r \in Requests : r # a => doc'[r] = doc[r]
      BY <1>1, <3>1, <3>2
    <3>4. Ahead' = Ahead \ {a} /\ a \in Ahead /\ Ahead \subseteq Requests
      BY <3>2, <3>3 DEF Ahead
    <3>5. /\ Cardinality(Ahead') = Cardinality(Ahead) - 1
          /\ Cardinality(Ahead) \in Nat /\ Cardinality(Ahead') \in Nat
      BY <3>4, AheadFinite, FS_RemoveElement
    <3>6. MaxRequests \in Nat /\ MaxFaults \in Nat /\ faults <= MaxFaults
      BY <1>1, EnrichmentAssumption DEF EnrichmentAssumption
    <3>7. RoomForFans' /\ fans' \in 0 .. (MaxRequests + MaxFaults)
      BY <1>1, <2>2, <3>2, <3>5, <3>6 DEF FullInv, RoomForFans
    <3>8. fan' \in [Fanouts -> FanTasks]
      <4>1. [NoFan EXCEPT !.pc = "queued", !.attempt = doc[a].attempt] \in FanTasks
        BY <1>1, QueuedFan DEF DocTasks
      <4> QED BY <1>1, <2>2, <4>1
    <3>9. TypeOK'
      BY <3>2, <3>3, <3>7, <3>8 DEF FullInv, TypeOK
    <3>10. UnusedRequests'
      BY <3>2, <3>3 DEF FullInv, TypeOK, UnusedRequests
    <3>11. ReadsLive' /\ CancelledHoldsNoSlots'
      BY <3>2 DEF FullInv, ReadsLive, CancelledHoldsNoSlots
    <3> QED BY <3>7, <3>9, <3>10, <3>11 DEF FullInv
  <2> QED BY <1>15, <2>1, <2>2 DEF DocHandOff
<1>16. CASE DocAck(a)
  <2>1. PICK t \in DocTasks : t = [doc[a] EXCEPT !.pc = "done"] /\ t.pc = "done"
    BY <1>1, DocTyping DEF DocPCs
  <2>2. doc' = [doc EXCEPT ![a] = t] /\ doc[a].pc = "acking"
    BY <1>16, <2>1 DEF DocAck, DocStep
  <2> QED BY <1>1, <1>2, <1>4, <1>16, <2>1, <2>2 DEF DocAck, DocOnly
<1> QED
  BY <1>5, <1>6, <1>7, <1>8, <1>9, <1>10, <1>11, <1>12, <1>13, <1>14, <1>15, <1>16
  DEF Document

\* A step of one post-process task.
LEMMA FanFullKeeps ==
    ASSUME FullInv, NEW g \in Fanouts, PostProcess(g)
    PROVE  FullInv'
<1>1. /\ doc \in [Requests -> DocTasks] /\ fan \in [Fanouts -> FanTasks] /\ sub \in SubTables
      /\ latest \in Nat /\ faults \in 0 .. MaxFaults /\ faults \in Nat
      /\ user \in UserPCs /\ sweeping \in BOOLEAN /\ ReadsLive
  BY EnrichmentAssumption DEF FullInv, TypeOK, SubTables, EnrichmentAssumption
<1>2. ASSUME NEW t \in FanTasks, fan' = [fan EXCEPT ![g] = t],
             RowSane(row'), sub' \in SubTables, ReadsLive', FanOnly
      PROVE  FullInv'
  <2>1. fan' \in [Fanouts -> FanTasks]
    BY <1>1, <1>2
  <2>2. faults' >= faults
    BY <1>1, <1>2 DEF FanOnly
  <2> QED BY <1>1, <1>2, <2>1, <2>2, QuietKeeps DEF FanOnly
<1>3. ASSUME NEW pc \in FanPCs, fan' = [fan EXCEPT ![g].pc = pc],
             RowSane(row'), sub' \in SubTables, ReadsLive', FanOnly
      PROVE  FullInv'
  <2>1. PICK t \in FanTasks : t = [fan[g] EXCEPT !.pc = pc]
    BY <1>1, FanTyping
  <2> QED BY <1>2, <1>3, <2>1
<1>4. sub' = sub => sub' \in SubTables /\ ReadsLive'
  BY <1>1 DEF ReadsLive
<1>5. RowSane(row) /\ RowSane(Save("completed")) /\ RowSane(Decremented) /\ RowSane(Promoted)
  BY RowsWritten DEF Statuses
<1>6. ASSUME NEW k \in Subtasks, NEW pc \in {"queued", "lost", "done"},
             sub' = [sub EXCEPT ![g][k].pc = pc]
      PROVE  sub' \in SubTables /\ ReadsLive'
  <2>1. sub[g][k] \in SubTasks /\ pc \in SubPCs
    BY <1>1, <1>6 DEF SubTables, SubPCs
  <2>2. PICK s \in SubTasks : s = [sub[g][k] EXCEPT !.pc = pc] /\ s.pc = pc
    BY <2>1, SubTyping
  <2>3. /\ sub' \in SubTables
        /\ \A h \in Fanouts, j \in Subtasks : sub'[h][j] = IF h = g /\ j = k THEN s ELSE sub[h][j]
    BY <1>1, <1>6, <2>2 DEF SubTables
  <2>4. GoodRead(s)
    BY <1>6, <2>2 DEF GoodRead
  <2> QED BY <1>1, <2>3, <2>4 DEF ReadsLive
<1>7. CASE PostRead(g) \/ PostSkip(g) \/ PostEnd(g) \/ PostAck(g)
  <2>1. PICK pc \in {"planned", "acking", "done"} : fan' = [fan EXCEPT ![g].pc = pc]
    BY <1>7 DEF PostRead, PostSkip, PostEnd, PostAck
  <2>2. UNCHANGED <<row, sub>> /\ FanOnly /\ pc \in FanPCs
    BY <1>7 DEF PostRead, PostSkip, PostEnd, PostAck, FanPCs
  <2> QED BY <1>3, <1>4, <1>5, <2>1, <2>2
<1>8. CASE PostError(g)
  BY <1>1, <1>2, <1>4, <1>5, <1>8, FanRetried DEF PostError
<1>9. CASE PostNothing(g)
  BY <1>3, <1>4, <1>5, <1>9 DEF PostNothing, FanPCs
<1>10. CASE PostSeed(g)
  <2>1. PICK plan \in Plans \ {{}} :
          /\ row' = [status |-> "finalizing", count |-> Cardinality(plan)]
          /\ fan' = [fan EXCEPT ![g].pc = "spawning", ![g].plan = plan]
    BY <1>10 DEF PostSeed
  <2>2. plan \subseteq Subtasks
    BY EnrichmentAssumption DEF EnrichmentAssumption
  <2>3. Cardinality(plan) \in Nat
    BY <2>2, FS_Subset, FS_CardinalityType, EnrichmentAssumption DEF EnrichmentAssumption
  <2>4. RowSane(row')
    BY <2>1, <2>3 DEF RowSane, Row, Statuses
  <2>5. PICK t \in FanTasks : t = [fan[g] EXCEPT !.pc = "spawning", !.plan = plan]
    BY <1>1, <2>2 DEF FanTasks, FanPCs
  <2>6. fan' = [fan EXCEPT ![g] = t]
    BY <1>1, <2>1, <2>5
  <2> QED BY <1>2, <1>4, <1>10, <2>4, <2>6 DEF PostSeed
<1>11. CASE PostSpawn(g)
  <2>1. PICK k \in Unspawned(g) : \E pc \in {"queued", "lost"} : sub' = [sub EXCEPT ![g][k].pc = pc]
    BY <1>11 DEF PostSpawn
  <2>2. k \in Subtasks
    BY <1>1 DEF Unspawned, FanTasks
  <2>3. sub' \in SubTables /\ ReadsLive'
    BY <1>6, <2>1, <2>2
  <2>4. fan' = [fan EXCEPT ![g] = fan[g]] /\ fan[g] \in FanTasks
    BY <1>1, <1>11 DEF PostSpawn
  <2> QED BY <1>2, <1>5, <1>11, <2>3, <2>4 DEF PostSpawn
<1>12. CASE PostRelease(g)
  <2>1. PICK k \in Shortfall(g) : sub' = [sub EXCEPT ![g][k].pc = "done"]
    BY <1>12 DEF PostRelease
  <2>2. k \in Subtasks
    BY <1>1 DEF Shortfall, FanTasks
  <2>3. sub' \in SubTables /\ ReadsLive'
    BY <1>6, <2>1, <2>2
  <2> QED BY <1>3, <1>5, <1>12, <2>3 DEF PostRelease, FanPCs
<1>13. CASE PostPromote(g)
  BY <1>3, <1>4, <1>5, <1>13 DEF PostPromote, FanPCs
<1> QED BY <1>7, <1>8, <1>9, <1>10, <1>11, <1>12, <1>13 DEF PostProcess

\* A step of one subtask, or a drain of it that fails.
LEMMA SubFullKeeps ==
    ASSUME FullInv, NEW g \in Fanouts, NEW k \in Subtasks,
           Enrich(g, k) \/ SubDrainFails(g, k)
    PROVE  FullInv'
<1>1. /\ doc \in [Requests -> DocTasks] /\ fan \in [Fanouts -> FanTasks] /\ sub \in SubTables
      /\ latest \in Nat /\ faults \in 0 .. MaxFaults /\ faults \in Nat
      /\ user \in UserPCs /\ sweeping \in BOOLEAN /\ ReadsLive
      /\ sub[g][k] \in SubTasks /\ row.status \in Statuses
  BY EnrichmentAssumption DEF FullInv, TypeOK, SubTables, EnrichmentAssumption
<1>2. ASSUME sub' \in SubTables, ReadsLive', RowSane(row'),
             faults' \in {faults, faults + 1}, faults' \in 0 .. MaxFaults, SubOnly
      PROVE  FullInv'
  <2>1. faults' >= faults
    BY <1>1, <1>2
  <2> QED BY <1>1, <1>2, <2>1, QuietKeeps DEF SubOnly
<1>3. ASSUME NEW s \in SubTasks, GoodRead(s), sub' = [sub EXCEPT ![g][k] = s]
      PROVE  sub' \in SubTables /\ ReadsLive'
  <2>1. /\ sub' \in SubTables
        /\ \A h \in Fanouts, j \in Subtasks : sub'[h][j] = IF h = g /\ j = k THEN s ELSE sub[h][j]
    BY <1>1, <1>3 DEF SubTables
  <2> QED BY <1>1, <1>3, <2>1 DEF ReadsLive
<1>4. ASSUME NEW pc \in SubPCs, sub' = [sub EXCEPT ![g][k].pc = pc],
             pc \in {"loaded", "working", "saved"} =>
                sub[g][k].pc \in {"loaded", "working", "saved"}
      PROVE  sub' \in SubTables /\ ReadsLive'
  <2>1. PICK s \in SubTasks : s = [sub[g][k] EXCEPT !.pc = pc] /\ s.pc = pc /\ s.seen = sub[g][k].seen
    BY <1>1, <1>4, SubTyping
  <2>2. GoodRead(s)
    BY <1>1, <1>4, <2>1 DEF GoodRead, ReadsLive
  <2> QED BY <1>3, <1>4, <2>1, <2>2
<1>5. RowSane(row) /\ RowSane(Decremented) /\ RowSane(Promoted)
  BY RowsWritten
<1>6. sub[g][k].pc \in {"loaded", "working", "saved"} => RowSane(Save(sub[g][k].seen))
  <2>1. GoodRead(sub[g][k])
    BY <1>1 DEF ReadsLive
  <2>2. sub[g][k].seen \in Statuses
    BY <1>1 DEF SubTasks
  <2> QED BY <2>1, <2>2, RowsWritten DEF GoodRead, Aborted
<1>7. CASE SubStart(g, k) \/ SubSkip(g, k) \/ SubSucceed(g, k) \/ SubDrain(g, k)
           \/ SubPromote(g, k) \/ SubAck(g, k)
  <2>1. PICK pc \in {"done", "started", "draining", "promoting", "acking"} :
          sub' = [sub EXCEPT ![g][k].pc = pc]
    BY <1>7 DEF SubStart, SubSkip, SubSucceed, SubDrain, SubPromote, SubAck, SubStep
  <2>2. sub' \in SubTables /\ ReadsLive'
    BY <1>4, <2>1 DEF SubPCs
  <2>3. row' \in {row, Decremented, Promoted} /\ faults' = faults /\ SubOnly
    BY <1>7 DEF SubStart, SubSkip, SubSucceed, SubDrain, SubPromote, SubAck
  <2> QED BY <1>1, <1>2, <1>5, <2>2, <2>3
<1>8. CASE WikiClaim(g, k)
  <2>1. \A h \in Fanouts, j \in Subtasks :
          sub'[h][j] \in SubTasks /\ GoodRead(sub'[h][j])
    <3> SUFFICES ASSUME NEW h \in Fanouts, NEW j \in Subtasks
                 PROVE  sub'[h][j] \in SubTasks /\ GoodRead(sub'[h][j])
      OBVIOUS
    <3>1. sub[h][j] \in SubTasks /\ GoodRead(sub[h][j])
      BY <1>1 DEF SubTables, ReadsLive
    <3>2. \/ sub'[h][j] = sub[h][j]
          \/ \E pc \in {"started", "done"} : sub'[h][j] = [sub[h][j] EXCEPT !.pc = pc]
      BY <1>8 DEF WikiClaim
    <3>3. \A pc \in {"started", "done"} :
             /\ [sub[h][j] EXCEPT !.pc = pc] \in SubTasks
             /\ [sub[h][j] EXCEPT !.pc = pc].pc = pc
      <4>1. {"started", "done"} \subseteq SubPCs
        BY DEF SubPCs
      <4> QED BY <3>1, <4>1, SubTyping
    <3> QED BY <3>1, <3>2, <3>3 DEF GoodRead
  <2>2. sub' = [h \in Fanouts |-> [j \in Subtasks |-> sub'[h][j]]]
    BY <1>8 DEF WikiClaim
  <2>3. sub' \in SubTables /\ ReadsLive'
    BY <2>1, <2>2 DEF SubTables, ReadsLive
  <2> QED BY <1>1, <1>2, <1>5, <1>8, <2>3 DEF WikiClaim
<1>9. CASE SubRead(g, k)
  <2> DEFINE pc == IF row.status \in Aborted THEN "draining"
                   ELSE IF k \in Summaries THEN "loaded" ELSE "working"
  <2>0. pc \in SubPCs
    BY DEF SubPCs
  <2>4. pc \in {"loaded", "working", "saved"} => row.status \notin Aborted
    OBVIOUS
  <2>5. sub' = [sub EXCEPT ![g][k] =
          [@ EXCEPT !.seen = row.status, !.pc = pc]]
    BY <1>9 DEF SubRead
  <2> HIDE DEF pc
  <2>1. PICK s \in SubTasks :
          s = [sub[g][k] EXCEPT !.seen = row.status, !.pc = pc] /\ s.pc = pc /\ s.seen = row.status
    <3> DEFINE s == [sub[g][k] EXCEPT !.seen = row.status, !.pc = pc]
    <3>1. s \in SubTasks /\ s.pc = pc /\ s.seen = row.status
      BY <1>1, <2>0 DEF SubTasks
    <3> QED BY <3>1
  <2>2. GoodRead(s)
    BY <2>1, <2>4 DEF GoodRead
  <2>3. sub' = [sub EXCEPT ![g][k] = s]
    BY <2>1, <2>5
  <2> QED BY <1>1, <1>2, <1>3, <1>5, <1>9, <2>2, <2>3 DEF SubRead
<1>10. CASE SummaryMark(g, k) \/ SummarySave(g, k)
  <2>1. /\ sub[g][k].pc \in {"loaded", "working"} /\ row' = Save(sub[g][k].seen)
        /\ faults' = faults /\ SubOnly
    BY <1>10 DEF SummaryMark, SummarySave, SubStep
  <2>2. PICK pc \in {"working", "saved"} : sub' = [sub EXCEPT ![g][k].pc = pc]
    BY <1>10 DEF SummaryMark, SummarySave, SubStep
  <2>3. sub' \in SubTables /\ ReadsLive'
    BY <1>4, <2>1, <2>2 DEF SubPCs
  <2> QED BY <1>1, <1>2, <1>6, <2>1, <2>3
<1>11. CASE SubError(g, k)
  <2>1. PICK s \in SubTasks :
          /\ s = IF sub[g][k].left > 0 THEN Retried(sub[g][k])
                 ELSE [sub[g][k] EXCEPT !.pc = "draining"]
          /\ s.pc \in {"queued", "draining"}
    <3>1. CASE sub[g][k].left > 0
      BY <1>1, <3>1, SubRetried
    <3>2. CASE ~(sub[g][k].left > 0)
      <4>1. "draining" \in SubPCs
        BY DEF SubPCs
      <4> QED BY <1>1, <3>2, <4>1, SubTyping
    <3> QED BY <3>1, <3>2
  <2>2. GoodRead(s) /\ sub' = [sub EXCEPT ![g][k] = s]
    BY <1>11, <2>1 DEF GoodRead, SubError
  <2> QED BY <1>1, <1>2, <1>3, <1>5, <1>11, <2>2 DEF SubError
<1>12. CASE SubDrainFails(g, k)
  <2>1. sub' = [sub EXCEPT ![g][k].pc = "acking"]
    BY <1>12 DEF SubDrainFails, SubStep
  <2>2. faults' = faults + 1 /\ faults' \in 0 .. MaxFaults /\ row' = row /\ SubOnly
    BY <1>1, <1>12, EnrichmentAssumption DEF SubDrainFails, EnrichmentAssumption
  <2>3. sub' \in SubTables /\ ReadsLive'
    BY <1>4, <2>1 DEF SubPCs
  <2> QED BY <1>2, <1>5, <2>2, <2>3
<1> QED BY <1>7, <1>8, <1>9, <1>10, <1>11, <1>12 DEF Enrich

\* Deleting queued tasks ends some of them and starts none.
LEMMA DequeueTyping ==
    ASSUME FullInv
    PROVE  /\ \A r \in Requests : /\ Dequeued(doc[r]) \in DocTasks
                                  /\ Dequeued(doc[r]).pc \in {doc[r].pc, "done"}
                                  /\ doc[r].pc = "none" => Dequeued(doc[r]).pc = "none"
           /\ \A g \in Fanouts : Dequeued(fan[g]) \in FanTasks
           /\ \A kinds : /\ DequeuedSubs(kinds) \in SubTables
                         /\ \A g \in Fanouts, k \in Subtasks :
                               GoodRead(DequeuedSubs(kinds)[g][k])
<1>1. "done" \in DocPCs /\ "done" \in FanPCs /\ "done" \in SubPCs
  BY DEF DocPCs, FanPCs, SubPCs
<1>2. ASSUME NEW r \in Requests
      PROVE  /\ Dequeued(doc[r]) \in DocTasks
             /\ Dequeued(doc[r]).pc \in {doc[r].pc, "done"}
             /\ doc[r].pc = "none" => Dequeued(doc[r]).pc = "none"
  <2>1. doc[r] \in DocTasks
    BY DEF FullInv, TypeOK
  <2> QED BY <1>1, <2>1, DocTyping DEF Dequeued
<1>3. ASSUME NEW g \in Fanouts PROVE Dequeued(fan[g]) \in FanTasks
  <2>1. fan[g] \in FanTasks
    BY DEF FullInv, TypeOK
  <2> QED BY <1>1, <2>1, FanTyping DEF Dequeued
<1>4. ASSUME NEW kinds
      PROVE  /\ DequeuedSubs(kinds) \in SubTables
             /\ \A g \in Fanouts, k \in Subtasks : GoodRead(DequeuedSubs(kinds)[g][k])
  <2>1. ASSUME NEW g \in Fanouts, NEW k \in Subtasks
        PROVE  LET s == IF k \in kinds THEN Dequeued(sub[g][k]) ELSE sub[g][k]
               IN  s \in SubTasks /\ GoodRead(s)
    <3>1. sub[g][k] \in SubTasks /\ GoodRead(sub[g][k])
      BY DEF FullInv, TypeOK, ReadsLive
    <3>2. Dequeued(sub[g][k]) \in SubTasks /\ GoodRead(Dequeued(sub[g][k]))
      BY <1>1, <3>1, SubTyping DEF Dequeued, GoodRead
    <3> QED BY <3>1, <3>2
  <2> QED BY <2>1 DEF DequeuedSubs, SubTables
<1> QED BY <1>2, <1>3, <1>4

\* A step of an API call.
LEMMA UserFullKeeps ==
    ASSUME FullInv, User
    PROVE  FullInv'
<1>1. /\ doc \in [Requests -> DocTasks] /\ fan \in [Fanouts -> FanTasks] /\ sub \in SubTables
      /\ latest \in Nat /\ faults \in 0 .. MaxFaults /\ faults \in Nat /\ fans \in Nat
      /\ user \in UserPCs /\ sweeping \in BOOLEAN /\ ReadsLive /\ requests \in Requests
      /\ row \in Row /\ row.status \in Statuses
  BY EnrichmentAssumption DEF FullInv, TypeOK, SubTables, EnrichmentAssumption, Row
<1>2. ASSUME UNCHANGED <<latest, requests, doc, fans, fan, sweeping, faults>>,
             user' \in UserPCs, user' \in Reparsing => user \in Reparsing,
             RowSane(row'), sub' \in SubTables, ReadsLive'
      PROVE  FullInv'
  <2>1. faults' >= faults
    BY <1>1, <1>2
  <2> QED BY <1>1, <1>2, <2>1, QuietKeeps
<1>3. sub' = sub => sub' \in SubTables /\ ReadsLive'
  BY <1>1 DEF ReadsLive
<1>4. \A kinds : sub' = DequeuedSubs(kinds) => sub' \in SubTables /\ ReadsLive'
  BY DequeueTyping DEF ReadsLive
<1>5. /\ RowSane(row) /\ RowSane(Save("pending")) /\ RowSane(Save("deleting"))
      /\ RowSane(Reset("cancelled")) /\ RowSane(Reset(row.status))
      /\ RowSane([row EXCEPT !.status = "gone"])
  <2>1. RowSane([row EXCEPT !.status = "gone"])
    BY <1>1 DEF RowSane, Row, Statuses
  <2> QED BY <1>1, <2>1, RowsWritten DEF Statuses
<1>6. ASSUME Dequeue, UNCHANGED <<row, latest, requests, fans, sweeping, faults>>,
             NEW kinds, sub' = DequeuedSubs(kinds), user' \in UserPCs \ Reparsing
      PROVE  FullInv'
  <2>1. /\ doc' = [r \in Requests |-> Dequeued(doc[r])]
        /\ fan' = [g \in Fanouts |-> Dequeued(fan[g])]
    BY <1>6 DEF Dequeue
  <2>2. /\ doc' \in [Requests -> DocTasks] /\ fan' \in [Fanouts -> FanTasks]
        /\ \A r \in Requests :
              /\ doc[r].pc = "none" => doc'[r].pc = "none"
              /\ doc[r].pc \in {"acking", "done"} => doc'[r].pc \in {"acking", "done"}
    <3>1. \A r \in Requests : doc'[r] = Dequeued(doc[r])
      BY <2>1
    <3> QED BY <2>1, <3>1, DequeueTyping
  <2>3. faults' >= faults /\ RowSane(row')
    BY <1>1, <1>5, <1>6
  <2> QED BY <1>1, <1>4, <1>6, <2>2, <2>3, QuietKeeps
<1>7. CASE CancelStart
  BY <1>2, <1>3, <1>5, <1>7 DEF CancelStart, UserStep, UserOnly, UserPCs, Reparsing
<1>8. CASE CancelWrite
  BY <1>2, <1>3, <1>5, <1>8 DEF CancelWrite, UserStep, UserOnly, UserPCs, Reparsing
<1>9. CASE CancelDequeue
  BY <1>6, <1>9 DEF CancelDequeue, UserStep, UserPCs, Reparsing
<1>10. CASE ReparseOpen
  <2>1. /\ user' = "reparse_save" /\ latest' = latest + 1 /\ requests' = requests + 1
        /\ requests < MaxRequests /\ doc' = [doc EXCEPT ![requests + 1].attempt = latest + 1]
        /\ sub' = DequeuedSubs(WikiOps) /\ UNCHANGED <<row, fans, fan, sweeping, faults>>
    BY <1>10 DEF ReparseOpen, UserStep, UserOnly
  <2>2. requests + 1 \in Requests /\ requests + 1 > requests /\ MaxRequests \in Nat
    BY <1>1, <2>1, EnrichmentAssumption DEF Requests, EnrichmentAssumption
  <2>3. /\ doc' \in [Requests -> DocTasks]
        /\ \A r \in Requests : doc'[r].pc = doc[r].pc
    <3>1. latest + 1 \in Nat /\ doc[requests + 1] \in DocTasks
      BY <1>1, <2>2
    <3>2. /\ [doc[requests + 1] EXCEPT !.attempt = latest + 1] \in DocTasks
          /\ [doc[requests + 1] EXCEPT !.attempt = latest + 1].pc = doc[requests + 1].pc
      BY <3>1 DEF DocTasks
    <3> QED BY <1>1, <2>1, <2>2, <3>2
  <2>4. TypeOK'
    BY <1>1, <1>4, <2>1, <2>2, <2>3 DEF FullInv, TypeOK, SubTables, UserPCs
  <2>5. UnusedRequests'
    <3>1. \A r \in Requests : r > requests => doc[r].pc = "none"
      BY DEF FullInv, UnusedRequests
    <3>2. \A r \in Requests : r > requests + 1 => r > requests
      BY <1>1 DEF Requests
    <3> QED BY <2>1, <2>2, <2>3, <3>1, <3>2 DEF UnusedRequests
  <2>6. Ahead' = Ahead
    BY <2>3 DEF Ahead
  <2>7. RoomForFans' /\ ReadsLive' /\ CancelledHoldsNoSlots'
    BY <1>4, <2>1, <2>6 DEF FullInv, RoomForFans, CancelledHoldsNoSlots
  <2> QED BY <2>4, <2>5, <2>7 DEF FullInv
<1>11. CASE ReparseSave
  BY <1>2, <1>3, <1>5, <1>11 DEF ReparseSave, UserStep, UserOnly, UserPCs, Reparsing
<1>12. CASE ReparseAbort
  BY <1>2, <1>3, <1>5, <1>12 DEF ReparseAbort, UserStep, UserOnly, UserPCs, Reparsing
<1>13. CASE ReparseReset
  BY <1>2, <1>3, <1>5, <1>13 DEF ReparseReset, UserStep, UserOnly, UserPCs, Reparsing
<1>14. CASE ReparseEnqueue
  <2>1. CASE UNCHANGED doc
    BY <1>2, <1>3, <1>5, <1>14, <2>1 DEF ReparseEnqueue, UserStep, UserOnly, UserPCs, Reparsing
  <2>2. CASE doc' = [doc EXCEPT ![requests].pc = "queued"]
    <3>1. /\ user = "reparse_enqueue" /\ user' = "idle"
          /\ UNCHANGED <<row, latest, requests, sub, fans, fan, sweeping, faults>>
      BY <1>14 DEF ReparseEnqueue, UserStep, UserOnly
    <3>2. doc[requests].pc = "none"
      BY <3>1 DEF FullInv, UnusedRequests, Reparsing
    <3>3. PICK t \in DocTasks : t = [doc[requests] EXCEPT !.pc = "queued"] /\ t.pc = "queued"
      <4>1. "queued" \in DocPCs /\ doc[requests] \in DocTasks
        BY <1>1 DEF DocPCs
      <4> QED BY <4>1, DocTyping
    <3>4. /\ doc' \in [Requests -> DocTasks] /\ doc'[requests] = t
          /\ \A r \in Requests : r # requests => doc'[r] = doc[r]
      BY <1>1, <2>2, <3>3
    <3>5. TypeOK'
      BY <1>1, <3>1, <3>4 DEF FullInv, TypeOK, UserPCs
    <3>6. UnusedRequests'
      <4>1. ~(requests > requests)
        BY <1>1 DEF Requests
      <4> QED BY <3>1, <3>4, <4>1 DEF FullInv, UnusedRequests, Reparsing
    <3>7. Ahead' = Ahead
      BY <3>2, <3>3, <3>4 DEF Ahead
    <3>8. RoomForFans' /\ ReadsLive' /\ CancelledHoldsNoSlots'
      BY <1>3, <3>1, <3>7 DEF FullInv, RoomForFans, CancelledHoldsNoSlots
    <3> QED BY <3>5, <3>6, <3>8 DEF FullInv
  <2> QED BY <1>14, <2>1, <2>2 DEF ReparseEnqueue
<1>15. CASE DeleteMark
  BY <1>2, <1>3, <1>5, <1>15 DEF DeleteMark, UserStep, UserOnly, UserPCs, Reparsing
<1>16. CASE DeleteDequeue
  BY <1>6, <1>16 DEF DeleteDequeue, UserStep, UserPCs, Reparsing
<1>17. CASE DeleteRow
  <2>1. RowSane(row')
    BY <1>5, <1>17 DEF DeleteRow
  <2> QED BY <1>2, <1>4, <1>17, <2>1 DEF DeleteRow, UserStep, UserOnly, UserPCs, Reparsing
<1> QED
  BY <1>7, <1>8, <1>9, <1>10, <1>11, <1>12, <1>13, <1>14, <1>15, <1>16, <1>17
  DEF User, UserContinues

LEMMA SweepFullKeeps ==
    ASSUME FullInv, Housekeeping
    PROVE  FullInv'
<1>1. RowSane(row')
  BY RowsWritten DEF Housekeeping, SweepScan, SweepWrite, Statuses
<1>2. /\ sweeping' \in BOOLEAN
      /\ UNCHANGED <<latest, requests, doc, fans, fan, sub, user, faults>>
  BY DEF Housekeeping, SweepScan, SweepWrite
<1>3. faults \in 0 .. MaxFaults /\ faults' >= faults
  BY <1>2, EnrichmentAssumption DEF FullInv, TypeOK, EnrichmentAssumption
<1> QED BY <1>1, <1>2, <1>3, QuietKeeps DEF FullInv, TypeOK, SubTables, ReadsLive

LEMMA OneMore ==
    ASSUME NEW S, IsFiniteSet(S), NEW x, NEW T, T \subseteq S \cup {x}
    PROVE  Cardinality(T) \in Nat /\ Cardinality(T) <= Cardinality(S) + 1
<1>1. Cardinality(S) \in Nat
  BY FS_CardinalityType
<1>2. IsFiniteSet(T \ {x}) /\ Cardinality(T \ {x}) \in Nat
      /\ Cardinality(T \ {x}) <= Cardinality(S)
  <2>1. T \ {x} \subseteq S
    OBVIOUS
  <2> QED BY <2>1, FS_Subset, FS_CardinalityType
<1>3. CASE x \in T
  <2>1. IsFiniteSet(T)
    <3>1. IsFiniteSet(S \cup {x})
      BY FS_AddElement
    <3> QED BY <3>1, FS_Subset
  <2>2. Cardinality(T \ {x}) = Cardinality(T) - 1
    BY <1>3, <2>1, FS_RemoveElement
  <2>3. Cardinality(T) \in Nat
    BY <2>1, FS_CardinalityType
  <2> QED BY <1>1, <1>2, <2>2, <2>3
<1>4. CASE x \notin T
  <2>1. T \subseteq S
    BY <1>4
  <2>2. IsFiniteSet(T) /\ Cardinality(T) <= Cardinality(S)
    BY <2>1, FS_Subset
  <2>3. Cardinality(T) \in Nat
    BY <2>2, FS_CardinalityType
  <2> QED BY <1>1, <2>2, <2>3
<1> QED BY <1>3, <1>4

\* A worker dies: each redelivery uses up a fault, which is what pays for the
\* fan-out that it may start.
LEMMA CrashFullKeeps ==
    ASSUME FullInv, Crash
    PROVE  FullInv'
<1>1. /\ doc \in [Requests -> DocTasks] /\ fan \in [Fanouts -> FanTasks] /\ sub \in SubTables
      /\ latest \in Nat /\ faults \in Nat /\ fans \in Nat /\ MaxRequests \in Nat
      /\ MaxFaults \in Nat /\ user \in UserPCs /\ sweeping \in BOOLEAN /\ ReadsLive
  BY EnrichmentAssumption DEF FullInv, TypeOK, SubTables, EnrichmentAssumption
<1>2. /\ faults' = faults + 1 /\ faults' \in 0 .. MaxFaults /\ faults' >= faults
      /\ UNCHANGED <<row, latest, requests, user, sweeping>> /\ RowSane(row')
  <2>1. /\ faults < MaxFaults /\ faults' = faults + 1
        /\ UNCHANGED <<row, latest, requests, user, sweeping>>
    BY DEF Crash
  <2>2. RowSane(row')
    BY <2>1, RowsWritten
  <2>3. faults' \in 0 .. MaxFaults /\ faults' >= faults
    BY <1>1, <2>1
  <2> QED BY <2>1, <2>2, <2>3
<1>3. Cardinality(Ahead) \in Nat /\ IsFiniteSet(Ahead) /\ Ahead \subseteq Requests
  BY AheadFinite DEF Ahead
<1>4. sub' = sub => sub' \in SubTables /\ ReadsLive'
  BY <1>1 DEF ReadsLive
<1>5. ASSUME NEW r \in Requests, ~Idle(doc[r]), doc' = [doc EXCEPT ![r] = Retried(@)],
             UNCHANGED <<fans, fan, sub>>
      PROVE  FullInv'
  <2>1. PICK t \in DocTasks : t = Retried(doc[r]) /\ t.pc \in {"queued", "done"}
    BY <1>1, DocRetried
  <2>2. /\ doc' \in [Requests -> DocTasks] /\ doc'[r] = t
        /\ \A q \in Requests : q # r => doc'[q] = doc[q]
    BY <1>1, <1>5, <2>1
  <2>3. Ahead' \subseteq Ahead \cup {r}
    BY <2>2 DEF Ahead
  <2>5. Cardinality(Ahead') <= Cardinality(Ahead) + 1 /\ Cardinality(Ahead') \in Nat
    BY <1>3, <2>3, OneMore
  <2>6. RoomForFans'
    BY <1>1, <1>2, <1>3, <1>5, <2>5 DEF FullInv, RoomForFans
  <2>7. TypeOK'
    BY <1>2, <1>5, <2>2 DEF FullInv, TypeOK
  <2>8. UnusedRequests'
    BY <1>2, <1>5, <2>2 DEF FullInv, UnusedRequests, Idle
  <2>9. ReadsLive' /\ CancelledHoldsNoSlots'
    BY <1>2, <1>4, <1>5 DEF RowSane, CancelledHoldsNoSlots
  <2> QED BY <2>6, <2>7, <2>8, <2>9 DEF FullInv
<1>6. ASSUME NEW g \in Fanouts,
             IF fan[g].left = 0
             THEN /\ fan' = [fan EXCEPT ![g].pc = "done"]
                  /\ UNCHANGED fans
             ELSE /\ fans' = fans + 1
                  /\ fan' = [fan EXCEPT
                        ![g].pc = "done",
                        ![fans + 1] = [NoFan EXCEPT
                            !.pc = "queued", !.left = fan[g].left - 1,
                            !.attempt = fan[g].attempt]],
             UNCHANGED <<doc, sub>>
      PROVE  FullInv'
  <2>1. PICK t \in FanTasks : t = [fan[g] EXCEPT !.pc = "done"]
    BY <1>1, FanTyping DEF FanPCs
  <2>2. fan' \in [Fanouts -> FanTasks] /\ fans' \in {fans, fans + 1}
    <3>1. CASE fan[g].left = 0
      BY <1>1, <1>6, <2>1, <3>1
    <3>2. CASE fan[g].left # 0
      <4>1. /\ fan[g].left \in Tries /\ fan[g].left - 1 \in Tries /\ fan[g].attempt \in Nat
            /\ MaxRetries \in Tries
        BY <1>1, <3>2, EnrichmentAssumption DEF FanTasks, Tries, EnrichmentAssumption
      <4>2. [NoFan EXCEPT !.pc = "queued", !.left = fan[g].left - 1,
                          !.attempt = fan[g].attempt] \in FanTasks
        BY <4>1 DEF NoFan, FanTasks, FanPCs
      <4> QED BY <1>1, <1>6, <2>1, <3>2, <4>2
    <3> QED BY <3>1, <3>2
  <2>3. Ahead' = Ahead
    BY <1>6 DEF Ahead
  <2>4. RoomForFans' /\ fans' \in 0 .. (MaxRequests + MaxFaults)
    BY <1>1, <1>2, <1>3, <2>2, <2>3 DEF FullInv, RoomForFans
  <2>5. TypeOK'
    BY <1>2, <1>6, <2>2, <2>4 DEF FullInv, TypeOK
  <2>6. UnusedRequests' /\ ReadsLive' /\ CancelledHoldsNoSlots'
    BY <1>2, <1>4, <1>6 DEF FullInv, UnusedRequests, RowSane, CancelledHoldsNoSlots
  <2> QED BY <2>4, <2>5, <2>6 DEF FullInv
<1>7. ASSUME NEW g \in Fanouts, NEW k \in Subtasks,
             sub' = [sub EXCEPT ![g][k] =
                   IF k \in WikiOps THEN [@ EXCEPT !.pc = "queued"] ELSE Retried(@)],
             UNCHANGED <<doc, fans, fan>>
      PROVE  FullInv'
  <2>1. sub[g][k] \in SubTasks /\ "queued" \in SubPCs /\ "done" \in SubPCs
    BY <1>1 DEF SubTables, SubPCs
  <2>2. PICK s \in SubTasks :
          /\ s = IF k \in WikiOps THEN [sub[g][k] EXCEPT !.pc = "queued"] ELSE Retried(sub[g][k])
          /\ s.pc \in {"queued", "done"}
    <3>1. CASE k \in WikiOps
      BY <2>1, <3>1, SubTyping
    <3>2. CASE k \notin WikiOps /\ sub[g][k].left > 0
      BY <2>1, <3>2, SubRetried
    <3>3. CASE k \notin WikiOps /\ ~(sub[g][k].left > 0)
      BY <2>1, <3>3, SubTyping DEF Retried
    <3> QED BY <3>1, <3>2, <3>3
  <2>3. /\ sub' \in SubTables
        /\ \A h \in Fanouts, j \in Subtasks : sub'[h][j] = IF h = g /\ j = k THEN s ELSE sub[h][j]
    <3>1. sub' = [sub EXCEPT ![g][k] = s]
      BY <1>7, <2>2
    <3> QED BY <1>1, <3>1 DEF SubTables
  <2>4. ReadsLive'
    BY <1>1, <2>2, <2>3 DEF ReadsLive, GoodRead
  <2> QED BY <1>1, <1>2, <1>7, <2>3, <2>4, QuietKeeps
<1> QED BY <1>5, <1>6, <1>7 DEF Crash

\* The specification with everything in it keeps the invariant.
THEOREM FullInvariant == Spec => []FullInv
<1>1. Init => FullInv
  <2> SUFFICES ASSUME Init PROVE FullInv
    OBVIOUS
  <2>1. TypeOK
    BY InitIInv DEF IInv
  <2>2. Ahead = Requests /\ UnusedRequests
    BY DEF Init, Ahead, UnusedRequests, NewDoc, Reparsing, Requests
  <2>3. RoomForFans
    <3>1. Cardinality(Requests) = MaxRequests /\ MaxRequests \in Nat
      BY FS_Interval, EnrichmentAssumption DEF Requests, EnrichmentAssumption
    <3> QED BY <2>2, <3>1 DEF Init, RoomForFans
  <2>4. ReadsLive /\ CancelledHoldsNoSlots
    BY DEF Init, ReadsLive, GoodRead, NoSub, CancelledHoldsNoSlots
  <2> QED BY <2>1, <2>2, <2>3, <2>4 DEF FullInv
<1>2. FullInv /\ [Next]_vars => FullInv'
  <2> SUFFICES ASSUME FullInv, [Next]_vars PROVE FullInv'
    OBVIOUS
  <2>1. CASE CalmNext
    BY <2>1, DocFullKeeps, FanFullKeeps, SubFullKeeps DEF CalmNext
  <2>2. CASE User
    BY <2>2, UserFullKeeps
  <2>3. CASE Housekeeping
    BY <2>3, SweepFullKeeps
  <2>4. CASE Crash
    BY <2>4, CrashFullKeeps
  <2>5. CASE DrainFails
    BY <2>5, SubFullKeeps DEF DrainFails
  <2>6. CASE UNCHANGED vars
    BY <2>6 DEF vars, FullInv, TypeOK, UnusedRequests, RoomForFans, Ahead, ReadsLive,
                CancelledHoldsNoSlots
  <2> QED BY <2>1, <2>2, <2>3, <2>4, <2>5, <2>6 DEF Next
<1> QED BY <1>1, <1>2, PTL DEF Spec

\* Every state has the declared types, with any number of reparses, retries,
\* crashes and API calls; in particular no more fan-outs are ever started than
\* there are requests and faults.
THEOREM FullTypeCorrect == Spec => []TypeOK
<1>1. FullInv => TypeOK
  BY DEF FullInv
<1> QED BY <1>1, FullInvariant, PTL

\* CancelKnowledgeParse: a cancelled row holds no slots, whatever drains,
\* seeds, saves and sweeps were under way when it was cancelled.
THEOREM CancelReleasesSlots == Spec => []CancelledHoldsNoSlots
<1>1. FullInv => CancelledHoldsNoSlots
  BY DEF FullInv
<1> QED BY <1>1, FullInvariant, PTL

-----------------------------------------------------------------------------
(* Who still works on a finalizing row.                                    *)

\* Post-process ends with everything spawned or released.
AllSpawned ==
    fan[1].pc \in {"acking", "done"} =>
        \A k \in fan[1].plan :
            sub[1][k].pc # "none" /\ (sub[1][k].pc = "lost" => k \in WikiOps)

WikiKept == ~WikiInsertFails => \A k \in Subtasks \cap WikiOps : sub[1][k].pc # "lost"

\* Who drained the last slot has yet to promote the row.
LastPromotes ==
    row.status = "finalizing" /\ Outstanding(1) = {} =>
        fan[1].pc = "promoting" \/ \E k \in Subtasks : sub[1][k].pc = "promoting"

Attended == AllSpawned /\ WikiKept /\ LastPromotes

\* Before the counter is seeded the row is not finalizing.
LEMMA NotSeeded ==
    ASSUME IInv, fan[1].plan = {}
    PROVE  row.status # "finalizing"
BY DEF IInv, Calm, Accounted

\* A promote by whoever drained last, or by anybody after it, works.
LEMMA PromoteWorks ==
    ASSUME IInv, row' = Promoted, row'.status = "finalizing",
           Outstanding(1)' = Outstanding(1)
    PROVE  Outstanding(1)' # {}
<1>1. row.status = "finalizing" /\ row.count # 0
  BY DEF Promoted, IInv, TypeOK
<1>2. row.count = Cardinality(Outstanding(1))
  BY <1>1, NotSeeded DEF IInv, Calm, Accounted
<1> QED BY <1>1, <1>2, FS_EmptySet

LEMMA DocumentAttended ==
    ASSUME IInv, IInv', Attended, NEW a \in Requests, Document(a)
    PROVE  Attended'
<1> USE Ones
<1>1. sub' = sub
  BY DEF Document, DocEnter, DocRecheck, DocMark, DocOpen, DocIndex, DocError, DocFail,
         DocGiveUp, DocTouch, DocSaveIndexed, DocHandOff, DocAck, DocOnly
<1>2. CASE DocAck(a)
  <2>1. fan' = fan /\ row' = row
    BY <1>2 DEF DocAck
  <2> QED BY <1>1, <2>1 DEF Attended, AllSpawned, WikiKept, LastPromotes, Outstanding
<1>3. CASE ~DocAck(a)
  <2>1. a = 1 /\ doc[1].pc \notin {"none", "acking", "done"}
    <3>1. doc[a].pc # "none"
      BY DEF Document, DocEnter, DocRecheck, DocMark, DocOpen, DocIndex, DocError, DocFail,
             DocGiveUp, DocTouch, DocSaveIndexed, DocHandOff, DocAck, DocStep
    <3>2. a = 1
      BY <3>1 DEF IInv, Calm, OneAttempt
    <3> QED
      BY <1>3, <3>2 DEF Document, DocEnter, DocRecheck, DocMark, DocOpen, DocIndex, DocError,
         DocFail, DocGiveUp, DocTouch, DocSaveIndexed, DocHandOff, DocStep
  <2>2. fans = 0 /\ fan[1].pc = "none"
    BY <2>1 DEF IInv, Calm, OneFanout
  <2>3. fan' = fan \/ fan'[1].pc = "queued"
    <3>1. CASE DocHandOff(a)
      <4>1. fan' = fan \/ fan' = [fan EXCEPT ![1] = [NoFan EXCEPT !.pc = "queued", !.attempt = doc[a].attempt]]
        BY <2>2, <3>1 DEF DocHandOff
      <4>2. [NoFan EXCEPT !.pc = "queued", !.attempt = doc[a].attempt].pc = "queued"
        BY DEF NoFan
      <4> QED BY <4>1, <4>2 DEF IInv, TypeOK
    <3>2. CASE ~DocHandOff(a)
      BY <3>2 DEF Document, DocEnter, DocRecheck, DocMark, DocOpen, DocIndex, DocError,
         DocFail, DocGiveUp, DocTouch, DocSaveIndexed, DocAck
    <3> QED BY <3>1, <3>2
  <2>4. fan'[1].pc \in {"none", "queued"}
    BY <2>2, <2>3
  <2>5. row'.status # "finalizing"
    BY <2>4 DEF IInv, Calm, Planned, Accounted
  <2> QED BY <1>1, <2>4, <2>5 DEF Attended, AllSpawned, WikiKept, LastPromotes
<1> QED BY <1>2, <1>3

LEMMA PostProcessAttended ==
    ASSUME IInv, IInv', Attended, NEW g \in Fanouts, PostProcess(g)
    PROVE  Attended'
<1> USE Ones
<1>1. g = 1
  <2>1. fan[g].pc # "none"
    BY DEF PostProcess, PostRead, PostError, PostNothing, PostSeed, PostSkip, PostSpawn,
           PostRelease, PostPromote, PostEnd, PostAck
  <2> QED BY <2>1 DEF IInv, Calm, OneFanout
<1>2. fan[1] \in FanTasks /\ fan \in [Fanouts -> FanTasks]
  BY DEF IInv, TypeOK
\* a step that leaves the subtasks alone and does not seed
<1>3. ASSUME NEW pc \in FanPCs, sub' = sub, fan'[1].pc = pc, fan'[1].plan = fan[1].plan,
             pc \notin {"acking", "done"} \/ fan[1].plan = {} \/ fan[1].pc \in {"acking", "done"},
             row' = row \/ row' = Promoted \/ fan[1].plan = {},
             row' = row => fan[1].pc # "promoting"
      PROVE  Attended'
  <2>1. AllSpawned' /\ WikiKept'
    BY <1>3 DEF Attended, AllSpawned, WikiKept
  <2>2. ASSUME row'.status = "finalizing", Outstanding(1)' = {}
        PROVE  \E k \in Subtasks : sub'[1][k].pc = "promoting"
    <3>1. fan[1].plan # {}
      BY <1>3, <2>2 DEF IInv, Calm, Accounted
    <3>2. Outstanding(1)' = Outstanding(1)
      BY <1>3 DEF Outstanding
    <3>3. row' = row
      BY <1>3, <2>2, <3>1, <3>2, PromoteWorks
    <3> QED BY <1>3, <2>2, <3>2, <3>3 DEF Attended, LastPromotes
  <2> QED BY <2>1, <2>2 DEF Attended, LastPromotes
<1>4. CASE PostRead(g) \/ PostSkip(g) \/ PostError(g) \/ PostNothing(g)
  <2>1. sub' = sub /\ fan[1].plan = {} /\ fan[1].pc # "promoting"
    BY <1>1, <1>4 DEF PostRead, PostSkip, PostError, PostNothing, IInv, Calm, Planned
  <2>2. fan'[1].plan = fan[1].plan /\ fan'[1].pc \in FanPCs
    <3>1. CASE PostError(g)
      <4>1. fan'[1] = Retried(fan[1])
        BY <1>1, <1>2, <3>1 DEF PostError
      <4> QED BY <1>2, <4>1, FanRetried DEF FanPCs
    <3>2. CASE ~PostError(g)
      <4>1. PICK pc \in {"planned", "acking"} : fan' = [fan EXCEPT ![1] = [fan[1] EXCEPT !.pc = pc]]
        BY <1>1, <1>4, <3>2 DEF PostRead, PostSkip, PostNothing
      <4>2. fan'[1] = [fan[1] EXCEPT !.pc = pc] /\ pc \in FanPCs
        BY <1>2, <4>1 DEF FanPCs
      <4> QED BY <1>2, <4>2, FanTyping
    <3> QED BY <3>1, <3>2
  <2> QED BY <1>3, <2>1, <2>2
<1>5. CASE PostSeed(g)
  <2>1. PICK plan \in Plans \ {{}} :
           /\ row' = [status |-> "finalizing", count |-> Cardinality(plan)]
           /\ fan' = [fan EXCEPT ![1].pc = "spawning", ![1].plan = plan]
    BY <1>1, <1>5 DEF PostSeed
  <2>2. fan'[1].pc = "spawning" /\ fan'[1].plan = plan /\ sub' = sub
    BY <1>2, <1>5, <2>1 DEF PostSeed, FanTasks
  <2>3. row'.count # 0
    <3>1. IsFiniteSet(plan) /\ plan # {}
      BY FS_Subset, EnrichmentAssumption DEF EnrichmentAssumption
    <3> QED BY <2>1, <3>1, FS_EmptySet
  <2>4. Outstanding(1)' # {}
    <3>1. row'.count = Cardinality(Outstanding(1)')
      BY <2>1, <2>2 DEF IInv, Calm, Accounted
    <3> QED BY <2>3, <3>1, FS_EmptySet
  <2> QED BY <2>2, <2>4 DEF Attended, AllSpawned, WikiKept, LastPromotes
<1>6. CASE PostSpawn(g)
  <2>1. PICK k \in Unspawned(1), pc \in {"queued", "lost"} :
           /\ sub' = [sub EXCEPT ![1][k].pc = pc]
           /\ pc = "lost" => MayBeLost(k)
    BY <1>1, <1>6 DEF PostSpawn
  <2>2. k \in Subtasks /\ sub[1][k].pc = "none" /\ sub[1][k] \in SubTasks
    BY <1>2, <2>1 DEF Unspawned, FanTasks, IInv, TypeOK
  <2>3. /\ sub'[1][k].pc = pc /\ \A j \in Subtasks : j # k => sub'[1][j] = sub[1][j]
        /\ fan' = fan /\ row' = row /\ fan[1].pc = "spawning"
    BY <1>1, <1>6, <2>1, <2>2 DEF PostSpawn, IInv, TypeOK, SubTasks
  <2>4. AllSpawned'
    BY <2>3 DEF AllSpawned
  <2>5. WikiKept'
    BY <2>1, <2>2, <2>3 DEF Attended, WikiKept, MayBeLost
  <2>6. LastPromotes'
    <3>1. k \in Outstanding(1)'
      BY <2>1, <2>2, <2>3 DEF Outstanding, Unspawned, HoldsSlot
    <3> QED BY <3>1 DEF LastPromotes
  <2> QED BY <2>4, <2>5, <2>6 DEF Attended
<1>7. CASE PostRelease(g)
  <2>1. PICK k \in Shortfall(1) : sub' = [sub EXCEPT ![1][k].pc = "done"]
    BY <1>1, <1>7 DEF PostRelease
  <2>2. k \in Subtasks /\ sub[1][k] \in SubTasks
    BY <1>2, <2>1 DEF Shortfall, FanTasks, IInv, TypeOK
  <2>3. sub'[1][k].pc = "done" /\ \A j \in Subtasks : j # k => sub'[1][j] = sub[1][j]
    BY <2>1, <2>2 DEF IInv, TypeOK, SubTasks
  <2>4. fan'[1].pc = "promoting"
    BY <1>1, <1>2, <1>7 DEF PostRelease, FanTasks
  <2> QED BY <2>3, <2>4 DEF Attended, AllSpawned, WikiKept, LastPromotes
<1>8. CASE PostPromote(g)
  <2>1. fan'[1] = [fan[1] EXCEPT !.pc = "spawning"] /\ "spawning" \in FanPCs
    BY <1>1, <1>2, <1>8 DEF PostPromote, FanPCs
  <2>2. row' = Promoted /\ sub' = sub /\ fan[1].plan # {}
    BY <1>1, <1>8 DEF PostPromote, IInv, Calm, Planned
  <2>3. fan'[1].pc = "spawning" /\ fan'[1].plan = fan[1].plan
    BY <1>2, <2>1, FanTyping
  <2>4. AllSpawned' /\ WikiKept'
    BY <2>2, <2>3 DEF Attended, AllSpawned, WikiKept
  <2>5. LastPromotes'
    <3>1. Outstanding(1)' = Outstanding(1)
      BY <2>2, <2>3 DEF Outstanding
    <3> QED BY <2>2, <3>1, PromoteWorks DEF LastPromotes
  <2> QED BY <2>4, <2>5 DEF Attended
<1>9. CASE PostEnd(g)
  <2>1. /\ fan'[1] = [fan[1] EXCEPT !.pc = "acking"] /\ "acking" \in FanPCs
        /\ row' = row /\ sub' = sub /\ fan[1].pc = "spawning"
    BY <1>1, <1>2, <1>9 DEF PostEnd, FanPCs
  <2>2. fan'[1].pc = "acking" /\ fan'[1].plan = fan[1].plan
    BY <1>2, <2>1, FanTyping
  <2>3. \A k \in fan[1].plan : sub[1][k].pc # "none" /\ (sub[1][k].pc = "lost" => k \in WikiOps)
    BY <1>1, <1>9 DEF PostEnd, Unspawned, Shortfall
  <2>4. Outstanding(1)' = Outstanding(1)
    BY <2>1, <2>2 DEF Outstanding
  <2> QED BY <2>1, <2>2, <2>3, <2>4 DEF Attended, AllSpawned, WikiKept, LastPromotes
<1>10. CASE PostAck(g)
  <2>1. /\ fan'[1] = [fan[1] EXCEPT !.pc = "done"] /\ "done" \in FanPCs
        /\ row' = row /\ sub' = sub /\ fan[1].pc = "acking"
    BY <1>1, <1>2, <1>10 DEF PostAck, FanPCs
  <2>2. fan'[1].pc = "done" /\ fan'[1].plan = fan[1].plan
    BY <1>2, <2>1, FanTyping
  <2> QED BY <1>3, <2>1, <2>2
<1> QED
  BY <1>4, <1>5, <1>6, <1>7, <1>8, <1>9, <1>10 DEF PostProcess

LEMMA EnrichAttended ==
    ASSUME IInv, IInv', Attended, NEW g \in Fanouts, NEW k \in Subtasks, Enrich(g, k)
    PROVE  Attended'
<1> USE Ones
<1>1. sub[g][k] \in SubTasks /\ sub[g][k].pc \notin {"none", "lost"}
  BY DEF IInv, TypeOK, Enrich, SubStep, SubStart, WikiClaim, SubSkip, SubRead,
         SummaryMark, SummarySave, SubSucceed, SubError, SubDrain, SubPromote, SubAck
<1>2. g = 1 /\ k \in fan[1].plan
  BY <1>1 DEF IInv, Calm, OneFanout, Planned
<1>3. fan' = fan
  BY DEF Enrich, SubStart, WikiClaim, SubSkip, SubRead, SummaryMark, SummarySave,
         SubSucceed, SubError, SubDrain, SubPromote, SubAck, SubOnly
<1>4. /\ sub \in [Fanouts -> [Subtasks -> SubTasks]]
      /\ sub' \in [Fanouts -> [Subtasks -> SubTasks]]
  BY DEF IInv, TypeOK
<1>5. \A j \in Subtasks : j # k => sub'[1][j] = sub[1][j]
  <2>1. CASE WikiClaim(g, k)
    BY <1>2, <2>1 DEF WikiClaim
  <2>2. CASE ~WikiClaim(g, k)
    <3>1. PICK s : sub' = [sub EXCEPT ![1][k] = s]
      BY <1>2, <2>2 DEF Enrich, SubStart, SubSkip, SubRead, SummaryMark, SummarySave,
         SubSucceed, SubError, SubDrain, SubPromote, SubAck, SubStep
    <3> QED BY <1>4, <3>1
  <2> QED BY <2>1, <2>2
<1>6. ASSUME sub'[1][k].pc \notin {"none", "lost"},
             \/ HoldsSlot(sub'[1][k]) \/ sub'[1][k].pc = "promoting"
             \/ sub[1][k].pc = "promoting" /\ row' = Promoted
                  /\ Outstanding(1)' = Outstanding(1)
             \/ sub[1][k].pc = "acking" /\ row' = row
                  /\ Outstanding(1)' = Outstanding(1)
      PROVE  Attended'
  <2>1. AllSpawned' /\ WikiKept'
    BY <1>1, <1>2, <1>3, <1>5, <1>6 DEF Attended, AllSpawned, WikiKept, IInv, Calm, Planned, TypeOK, FanTasks
  <2>2. LastPromotes'
    <3>1. CASE HoldsSlot(sub'[1][k])
      BY <1>2, <1>3, <3>1 DEF LastPromotes, Outstanding
    <3>2. CASE sub'[1][k].pc = "promoting"
      BY <3>2 DEF LastPromotes
    <3>3. CASE row' = Promoted /\ Outstanding(1)' = Outstanding(1)
      BY <3>3, PromoteWorks DEF LastPromotes
    <3>4. CASE sub[1][k].pc = "acking" /\ row' = row /\ Outstanding(1)' = Outstanding(1)
      BY <1>3, <1>5, <3>4 DEF Attended, LastPromotes
    <3> QED BY <1>6, <3>1, <3>2, <3>3, <3>4
  <2> QED BY <2>1, <2>2 DEF Attended
<1>7. ASSUME NEW from \in SubPCs, NEW to \in SubPCs, SubStep(g, k, from, to)
      PROVE  sub[1][k].pc = from /\ sub'[1][k].pc = to
  BY <1>1, <1>2, <1>4, <1>7, SubTyping DEF SubStep
<1>8. ASSUME NEW from \in {"promoting", "acking"}, NEW to \in {"acking", "done"}, SubStep(g, k, from, to)
      PROVE  Outstanding(1)' = Outstanding(1)
  <2>1. sub[1][k].pc = from /\ sub'[1][k].pc = to
    BY <1>7, <1>8 DEF SubPCs
  <2>2. \A j \in Subtasks : HoldsSlot(sub'[1][j]) <=> HoldsSlot(sub[1][j])
    BY <1>5, <2>1 DEF HoldsSlot
  <2> QED BY <1>3, <2>2 DEF Outstanding, IInv, TypeOK, FanTasks
<1>9. CASE SubStart(g, k)
  <2>1. ~Superseded(g)
    BY <1>2 DEF Superseded, IInv, TypeOK, Calm, OneFanout, Planned
  <2>2. SubStep(g, k, "queued", "started")
    BY <1>9, <2>1 DEF SubStart
  <2> QED BY <1>6, <1>7, <2>2 DEF SubPCs, HoldsSlot
<1>10. CASE WikiClaim(g, k)
  <2>1. sub'[1][k].pc = "started"
    BY <1>1, <1>2, <1>10 DEF WikiClaim, SubTasks
  <2> QED BY <1>6, <2>1 DEF HoldsSlot
<1>11. CASE SubRead(g, k)
  <2>1. sub'[1][k].pc \in {"draining", "loaded", "working"}
    <3> DEFINE s == [sub[1][k] EXCEPT !.seen = row.status,
                          !.pc = IF row.status \in Aborted THEN "draining"
                                 ELSE IF k \in Summaries THEN "loaded" ELSE "working"]
    <3>1. sub' = [sub EXCEPT ![1][k] = s]
      BY <1>2, <1>11 DEF SubRead
    <3>2. s.pc \in {"draining", "loaded", "working"}
      BY <1>1, <1>2 DEF SubTasks
    <3> HIDE DEF s
    <3> QED BY <1>4, <3>1, <3>2
  <2> QED BY <1>6, <2>1 DEF HoldsSlot
<1>12. CASE SubError(g, k)
  <2>1. sub'[1][k].pc \in {"queued", "draining"}
    <3>1. CASE sub[1][k].left > 0
      <4>1. sub'[1][k] = Retried(sub[1][k])
        BY <1>2, <1>4, <1>12, <3>1 DEF SubError
      <4> QED BY <1>1, <1>2, <3>1, <4>1, SubRetried
    <3>2. CASE ~(sub[1][k].left > 0)
      <4>1. sub'[1][k] = [sub[1][k] EXCEPT !.pc = "draining"]
        BY <1>2, <1>4, <1>12, <3>2 DEF SubError
      <4> QED BY <1>1, <1>2, <4>1 DEF SubTasks
    <3> QED BY <3>1, <3>2
  <2> QED BY <1>6, <2>1 DEF HoldsSlot
<1>13. CASE SubSkip(g, k) \/ SummaryMark(g, k) \/ SummarySave(g, k) \/ SubSucceed(g, k)
  <2>1. PICK from \in {"started", "loaded", "working", "saved"}, to \in {"working", "saved", "draining"} :
            SubStep(g, k, from, to)
    BY <1>13 DEF SubSkip, SummaryMark, SummarySave, SubSucceed
  <2>2. sub'[1][k].pc \in {"working", "saved", "draining"}
    BY <1>7, <2>1 DEF SubPCs
  <2> QED BY <1>6, <2>2 DEF HoldsSlot
<1>14. CASE SubDrain(g, k)
  <2>1. sub'[1][k].pc = "promoting"
    BY <1>7, <1>14 DEF SubDrain, SubPCs
  <2> QED BY <1>6, <2>1
<1>15. CASE SubPromote(g, k)
  <2>1. sub[1][k].pc = "promoting" /\ sub'[1][k].pc = "acking" /\ row' = Promoted
    BY <1>7, <1>15 DEF SubPromote, SubPCs
  <2> QED BY <1>6, <1>8, <1>15, <2>1 DEF SubPromote
<1>16. CASE SubAck(g, k)
  <2>1. sub[1][k].pc = "acking" /\ sub'[1][k].pc = "done" /\ row' = row
    BY <1>7, <1>16 DEF SubAck, SubPCs
  <2> QED BY <1>6, <1>8, <1>16, <2>1 DEF SubAck
<1> QED
  BY <1>9, <1>10, <1>11, <1>12, <1>13, <1>14, <1>15, <1>16 DEF Enrich

\* The invariant of an undisturbed attempt with who works on its row.
THEOREM AttendedInvariant == CalmSpec => [](IInv /\ Attended)
<1>1. Init => Attended
  BY Ones DEF Init, Attended, AllSpawned, WikiKept, LastPromotes, NoFan, NoSub
<1>2. IInv /\ IInv' /\ Attended /\ [CalmNext]_vars => Attended'
  <2> SUFFICES ASSUME IInv, IInv', Attended, [CalmNext]_vars PROVE Attended'
    OBVIOUS
  <2>1. CASE \E a \in Requests : Document(a)
    BY <2>1, DocumentAttended
  <2>2. CASE \E g \in Fanouts : PostProcess(g)
    BY <2>2, PostProcessAttended
  <2>3. CASE \E g \in Fanouts, k \in Subtasks : Enrich(g, k)
    BY <2>3, EnrichAttended
  <2>4. CASE UNCHANGED vars
    BY <2>4 DEF vars, Attended, AllSpawned, WikiKept, LastPromotes, Outstanding
  <2> QED BY <2>1, <2>2, <2>3, <2>4 DEF CalmNext
<1> QED BY <1>1, <1>2, CalmInvariant, PTL DEF CalmSpec

\* The row of an undisturbed attempt does not wait for the sweep: somebody of its
\* fan-out is at work until the last drain has promoted it.
THEOREM RowsAreNotStranded == CalmSpec => []NoStrandedRow
<1>1. IInv /\ Attended => NoStrandedRow
  <2> SUFFICES ASSUME IInv, Attended, ~WikiInsertFails, row.status = "finalizing", ~AtWork(1)
               PROVE  FALSE
    BY Ones DEF NoStrandedRow
  <2>1. fan[1].plan # {} /\ fan[1].plan \subseteq Subtasks
    BY Ones, NotSeeded DEF IInv, TypeOK, FanTasks
  <2>2. fan[1].pc \in {"acking", "done"}
    BY <2>1, Ones DEF AtWork, IInv, TypeOK, FanTasks, FanPCs, Calm, Planned
  <2>3. \A k \in fan[1].plan : ~HoldsSlot(sub[1][k])
    BY <2>1, <2>2 DEF Attended, AllSpawned, WikiKept, AtWork, HoldsSlot
  <2>4. Outstanding(1) = {}
    BY <2>3 DEF Outstanding
  <2> QED BY <2>2, <2>4 DEF Attended, LastPromotes, AtWork
<1> QED BY <1>1, AttendedInvariant, PTL
=============================================================================
