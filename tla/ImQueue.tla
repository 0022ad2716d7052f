------------------------------- MODULE ImQueue -------------------------------
(***************************************************************************)
(* Questions from chat platforms on their way through the bounded queue of *)
(* each replica, under limits kept in Redis, and the command /stop.        *)
(*   im/qaqueue.go; im/service.go: HandleMessage, executeQARequest,        *)
(*   handleMessageStream and runQA (their stop handling), handleCommand    *)
(*   (ActionStop), watchStreamManagerStop                                  *)
(* Several replicas that share Redis.                                      *)
(***************************************************************************)
EXTENDS Integers, Sequences, FiniteSets

CONSTANTS Instances,
          Users,          \* user keys: a user in a chat, and in a thread if the channel has them
          From,           \* the user of a request
          MaxSize, MaxPerUser, Workers, GlobalMax,    \* the limits in the configuration
          MaxRequests,    \* bound
          MaxCommands,    \* bound: /stop commands and channels stopped
          MaxTroubles,    \* bound: failing Redis calls, answers that outlast a TTL, deaths of a replica
          None

ASSUME QueueAssumption ==
    /\ IsFiniteSet(Instances) /\ From \in [1..MaxRequests -> Users]
    /\ {MaxSize, MaxPerUser, Workers, GlobalMax} \subseteq Nat \ {0}
    /\ {MaxRequests, MaxCommands, MaxTroubles} \subseteq Nat
    /\ None \notin (1..MaxRequests) \cup Instances \cup Users

Requests == 1..MaxRequests

VARIABLES
    stage,      \* how far each request is
    home,       \* the replica that holds it
    line,       \* the queue of each replica
    userCount,  \* im:queue:user:*
    gate,       \* the counter of the global gate
    inflight,   \* per replica and user: whom /stop cancels, and the message it may name
    mapping,    \* im:inflight:*, the request whose message is named
    marker,     \* im:stop:*, users
    stopEvents, \* requests with a stop event in the stream manager
    cancelled,  \* requests with a cancelled context
    cmd,        \* the /stop in progress
    commands, troubles, crashes

stores == <<userCount, gate, mapping, marker, stopEvents>>
counters == <<commands, troubles, crashes>>
vars == <<stage, home, line, stores, inflight, cancelled, cmd, counters>>

NoEntry == [cancels |-> None, names |-> None]
Idle == [pc |-> "idle", at |-> None, user |-> None, names |-> None]

\* requests a worker holds, those counted for their user, and those that run
Held == {"gate", "check", "create", "answer", "clear", "close"}
Counted == Held \cup {"over", "counted", "queued"}
Running == {"check", "create", "answer", "clear", "close"}
In(stages) == {r \in Requests : stage[r] \in stages}

----------------------------------------------------------------------------
Trouble == troubles + crashes < MaxTroubles /\ troubles' = troubles + 1 /\ UNCHANGED <<commands, crashes>>
NoTrouble == UNCHANGED counters
Command == commands < MaxCommands /\ commands' = commands + 1 /\ UNCHANGED <<troubles, crashes>>

Goes(r, from, to) ==
    /\ stage[r] = from
    /\ stage' = [stage EXCEPT ![r] = to]
    /\ home' = IF to = "ended" THEN [home EXCEPT ![r] = None] ELSE home
    /\ UNCHANGED cmd

\* redisDecrUser
Uncounted(u) == [userCount EXCEPT ![u] = @ - 1]

----------------------------------------------------------------------------
\* HandleMessage up to Enqueue

WithinLimit(n) == n <= MaxPerUser

\* redisCheckAndIncrUser: INCR, and DECR if that was too much
Deliver(r, i) ==
    /\ stage[r] = "new"
    /\ home' = [home EXCEPT ![r] = i]
    /\ \/ /\ userCount' = [userCount EXCEPT ![From[r]] = @ + 1]
          /\ stage' = [stage EXCEPT ![r] =
                          IF WithinLimit(userCount[From[r]] + 1) THEN "counted" ELSE "over"]
          /\ NoTrouble
       \/ stage' = [stage EXCEPT ![r] = "counted"] /\ UNCHANGED userCount /\ Trouble
    /\ UNCHANGED <<line, gate, mapping, marker, stopEvents, inflight, cancelled, cmd>>

Reject(r) ==
    /\ Goes(r, "over", "ended")
    /\ userCount' = Uncounted(From[r])
    /\ UNCHANGED <<line, gate, inflight, mapping, marker, stopEvents, cancelled,
                   counters>>

Enqueue(r) ==
    /\ Goes(r, "counted", "queued")
    /\ Len(line[home[r]]) < MaxSize
    /\ line' = [line EXCEPT ![home[r]] = Append(@, r)]
    /\ UNCHANGED <<stores, inflight, cancelled, counters>>

\* the queue is full
Full(r) ==
    /\ Goes(r, "counted", "ended")
    /\ Len(line[home[r]]) >= MaxSize
    /\ userCount' = Uncounted(From[r])
    /\ UNCHANGED <<line, gate, inflight, mapping, marker, stopEvents, cancelled,
                   counters>>

----------------------------------------------------------------------------
\* runWorker

\* Variant: a worker more than there are.
AnyWorker(i) == TRUE

FreeWorker(i) == Cardinality({r \in In(Held) : home[r] = i}) < Workers

Dequeue(i, to) ==
    /\ line[i] # <<>> /\ FreeWorker(i)
    /\ Goes(Head(line[i]), "queued", to)
    /\ line' = [line EXCEPT ![i] = Tail(@)]
    /\ UNCHANGED <<gate, mapping, marker, stopEvents, inflight, cancelled, counters>>

Take(i) ==
    /\ Dequeue(i, "gate")
    /\ Head(line[i]) \notin cancelled
    /\ UNCHANGED userCount

\* cancelled, or in the queue for more than queueTimeout
Discard(i) ==
    /\ Dequeue(i, "ended")
    /\ userCount' = Uncounted(From[Head(line[i])])

\* Variant: the count is read, compared and raised in three commands.
GateOpenAnyway == TRUE

\* acquireGlobalGate, one attempt of its script
GateOpen == gate < GlobalMax

\* executeQARequest begins: /stop finds it from now on
Register(r) ==
    /\ Goes(r, "gate", "check")
    /\ inflight' = [inflight EXCEPT ![home[r]][From[r]] = [cancels |-> r, names |-> None]]
    /\ UNCHANGED <<line, userCount, mapping, marker, stopEvents, cancelled>>

Pass(r) == Register(r) /\ GateOpen /\ r \notin cancelled /\ gate' = gate + 1 /\ NoTrouble

\* Redis fails, or the context ends during the call: no slot is taken, and
\* one will be given back
PassBlindly(r) == Register(r) /\ UNCHANGED gate /\ Trouble

GiveUp(r) ==
    /\ r \in cancelled
    /\ Goes(r, "gate", "ended")
    /\ userCount' = Uncounted(From[r])
    /\ UNCHANGED <<line, gate, mapping, marker, stopEvents, inflight, cancelled, counters>>

----------------------------------------------------------------------------
\* executeQARequest

\* checkAndClearStopMarker: with a cancelled context, or a failing Redis, the
\* marker stays and is not seen
CheckMarker(r) ==
    /\ \/ /\ From[r] \in marker /\ r \notin cancelled
          /\ marker' = marker \ {From[r]}
          /\ Goes(r, "check", "close") /\ NoTrouble
       \/ /\ From[r] \notin marker \/ r \in cancelled
          /\ Goes(r, "check", "create") /\ UNCHANGED marker /\ NoTrouble
       \/ Goes(r, "check", "create") /\ UNCHANGED marker /\ Trouble
    /\ UNCHANGED <<line, userCount, gate, inflight, mapping, stopEvents, cancelled>>

\* the assistant message exists: whatever entry is there gets its name
Create(r) ==
    /\ IF r \in cancelled
       THEN Goes(r, "create", "close") /\ UNCHANGED <<inflight, mapping>>
       ELSE /\ Goes(r, "create", "answer")
            /\ inflight' = [inflight EXCEPT ![home[r]][From[r]] =
                               IF @ = NoEntry THEN @ ELSE [@ EXCEPT !.names = r]]
            /\ mapping' = [mapping EXCEPT ![From[r]] = r]
    /\ UNCHANGED <<line, userCount, gate, marker, stopEvents, cancelled, counters>>

Answer(r) ==
    /\ r \notin cancelled
    /\ Goes(r, "answer", "clear")
    /\ UNCHANGED <<line, stores, inflight, cancelled, counters>>

\* Variant: the watcher is not started.
StoppedByContext(r) == r \in cancelled

\* cancelled here, or told by the watcher
Stopped(r) == r \in cancelled \cup stopEvents

Break(r) ==
    /\ Stopped(r)
    /\ Goes(r, "answer", "clear")
    /\ UNCHANGED <<line, stores, inflight, cancelled, counters>>

\* Variant: the entry is deleted by the path that answers, not deferred.
DeletedLater(r) == IF r \in cancelled THEN inflight ELSE [inflight EXCEPT ![home[r]][From[r]] = NoEntry]

\* inflight.Delete, whichever request the entry cancels
Deleted(r) == [inflight EXCEPT ![home[r]][From[r]] = NoEntry]

\* Variant: a question that was stopped keeps its slot.
GivenUnlessStopped(r) == IF r \in cancelled \cup stopEvents THEN gate ELSE gate - 1

\* releaseGlobalGate
Given(r) == gate - 1

\* the deferred calls, then releaseGlobalGate and redisDecrUser
Finish(r, from) ==
    /\ Goes(r, from, "ended")
    /\ inflight' = Deleted(r)
    /\ gate' = Given(r)
    /\ userCount' = Uncounted(From[r])
    /\ UNCHANGED <<line, marker, stopEvents, cancelled, counters>>

Close(r) == Finish(r, "close") /\ UNCHANGED mapping

\* clearInflightMapping comes first, whichever request it names; it does
\* nothing when its own context is the one that was cancelled
Clear(r) ==
    /\ Finish(r, "clear")
    /\ \/ r \notin cancelled /\ mapping' = [mapping EXCEPT ![From[r]] = None]
       \/ r \in cancelled \cup stopEvents /\ UNCHANGED mapping

----------------------------------------------------------------------------
\* /stop

Ask(i, u) ==
    /\ cmd = Idle /\ Command
    /\ cmd' = [pc |-> "remove", at |-> i, user |-> u, names |-> None]
    /\ UNCHANGED <<stage, home, line, stores, inflight, cancelled>>

Then(pc, names) == cmd' = [cmd EXCEPT !.pc = pc, !.names = names]

\* qaQueue.Remove: the first request of the user
Remove ==
    /\ cmd.pc = "remove"
    /\ LET q == line[cmd.at]
           mine == {k \in 1..Len(q) : From[q[k]] = cmd.user} IN
       IF mine = {}
       THEN Then("inflight", None) /\ UNCHANGED <<stage, home, line, userCount, cancelled>>
       ELSE LET k == CHOOSE x \in mine : \A y \in mine : x <= y IN
            /\ stage' = [stage EXCEPT ![q[k]] = "ended"]
            /\ home' = [home EXCEPT ![q[k]] = None]
            /\ line' = [line EXCEPT ![cmd.at] = SubSeq(q, 1, k - 1) \o SubSeq(q, k + 1, Len(q))]
            /\ userCount' = Uncounted(cmd.user)
            /\ cancelled' = cancelled \cup {q[k]}
            /\ Then("lookup", None)
    /\ UNCHANGED <<gate, inflight, mapping, marker, stopEvents, counters>>

\* inflight.LoadAndDelete
Cancel ==
    /\ cmd.pc = "inflight"
    /\ LET e == inflight[cmd.at][cmd.user] IN
        /\ cancelled' = cancelled \cup ({e.cancels} \ {None})
        /\ Then(IF e.names = None THEN "lookup" ELSE "event", e.names)
    /\ inflight' = [inflight EXCEPT ![cmd.at][cmd.user] = NoEntry]
    /\ UNCHANGED <<stage, home, line, stores, counters>>

\* loadInflightMapping
Lookup ==
    /\ cmd.pc = "lookup"
    /\ \/ Then(IF mapping[cmd.user] = None THEN "mark" ELSE "event", mapping[cmd.user]) /\ NoTrouble
       \/ Then("mark", None) /\ Trouble
    /\ UNCHANGED <<stage, home, line, stores, inflight, cancelled>>

WriteEvent ==
    /\ cmd.pc = "event"
    /\ \/ stopEvents' = stopEvents \cup {cmd.names} /\ NoTrouble
       \/ UNCHANGED stopEvents /\ Trouble
    /\ Then("mark", None)
    /\ UNCHANGED <<stage, home, line, userCount, gate, mapping, marker, inflight,
                   cancelled>>

Mark ==
    /\ cmd.pc = "mark"
    /\ \/ marker' = marker \cup {cmd.user} /\ NoTrouble
       \/ UNCHANGED marker /\ Trouble
    /\ cmd' = Idle
    /\ UNCHANGED <<stage, home, line, userCount, gate, mapping, stopEvents, inflight,
                   cancelled>>

----------------------------------------------------------------------------
\* the channel is stopped whose connection brought the request: its context ends
HangUp(r) ==
    /\ Command
    /\ r \in In(Counted) \ cancelled
    /\ cancelled' = cancelled \cup {r}
    /\ UNCHANGED <<stage, home, line, stores, inflight, cmd>>

\* stopMarkerTTL
MarkerExpires(u) ==
    /\ u \in marker
    /\ marker' = marker \ {u}
    /\ UNCHANGED <<stage, home, line, userCount, gate, mapping, stopEvents, inflight,
                   cancelled, cmd, counters>>

\* globalGateTTL, which every attempt starts anew: a waiting worker tries
\* every half second
GateRunsOut ==
    /\ gate # 0 /\ In({"gate"}) = {}
    /\ gate' = 0
    /\ UNCHANGED <<stage, home, line, userCount, mapping, marker, stopEvents, inflight, cancelled, cmd>>

GateExpires == In(Running) = {} /\ GateRunsOut /\ NoTrouble

\* an answer that takes longer, with no other request
GateForgets == In(Running) # {} /\ GateRunsOut /\ Trouble

\* redisQueueUserTTL
CountExpires(u) ==
    /\ userCount[u] # 0
    /\ IF \E r \in In(Counted) : From[r] = u THEN Trouble ELSE NoTrouble
    /\ userCount' = [userCount EXCEPT ![u] = 0]
    /\ UNCHANGED <<stage, home, line, gate, mapping, marker, stopEvents, inflight,
                   cancelled, cmd>>

\* a replica dies with its queue and its workers, and is started again
Crash(i) ==
    /\ troubles + crashes < MaxTroubles /\ crashes' = crashes + 1
    /\ stage' = [r \in Requests |-> IF home[r] = i THEN "ended" ELSE stage[r]]
    /\ home' = [r \in Requests |-> IF home[r] = i THEN None ELSE home[r]]
    /\ line' = [line EXCEPT ![i] = <<>>]
    /\ inflight' = [inflight EXCEPT ![i] = [u \in Users |-> NoEntry]]
    /\ cmd' = IF cmd.at = i THEN Idle ELSE cmd
    /\ UNCHANGED <<stores, cancelled, commands, troubles>>

----------------------------------------------------------------------------
Init ==
    /\ stage = [r \in Requests |-> "new"]
    /\ home = [r \in Requests |-> None]
    /\ line = [i \in Instances |-> <<>>]
    /\ userCount = [u \in Users |-> 0] /\ gate = 0
    /\ marker = {} /\ stopEvents = {}
    /\ mapping = [u \in Users |-> None]
    /\ inflight = [i \in Instances |-> [u \in Users |-> NoEntry]]
    /\ cancelled = {}
    /\ cmd = Idle
    /\ commands = 0 /\ troubles = 0 /\ crashes = 0

\* a step of the goroutine that serves the request
Served(r) ==
    \/ Reject(r) \/ Enqueue(r) \/ Full(r)
    \/ Pass(r) \/ GiveUp(r) \/ CheckMarker(r) \/ Create(r) \/ Break(r) \/ Clear(r) \/ Close(r)

Stopping == Remove \/ Cancel \/ Lookup \/ WriteEvent \/ Mark

Time == GateExpires \/ GateForgets \/ (\E u \in Users : MarkerExpires(u) \/ CountExpires(u))

System == (\E r \in Requests : Served(r)) \/ (\E i \in Instances : Take(i) \/ Discard(i)) \/ Stopping

Next ==
    \/ System \/ Time
    \/ \E i \in Instances : (\E r \in Requests : Deliver(r, i)) \/ (\E u \in Users : Ask(i, u)) \/ Crash(i)
    \/ \E r \in Requests : Answer(r) \/ PassBlindly(r) \/ HangUp(r)

Spec == Init /\ [][Next]_vars

\* The goroutines go on and the TTL of the gate runs out.  A question to the
\* model has no deadline.
Fairness == WF_vars(System) /\ WF_vars(GateExpires)

LiveSpec == Spec /\ Fairness

----------------------------------------------------------------------------
Stages == Counted \cup {"new", "ended"}
Entries == [cancels : Requests \cup {None}, names : Requests \cup {None}]
Places(i, r) == {k \in 1..Len(line[i]) : line[i][k] = r}

TypeOK ==
    /\ stage \in [Requests -> Stages]
    /\ home \in [Requests -> Instances \cup {None}]
    /\ \A r \in Requests : home[r] \in Instances <=> r \in In(Counted)
    /\ \A i \in Instances : Len(line[i]) <= MaxSize
    /\ \A i \in Instances, r \in Requests :
          Cardinality(Places(i, r)) = IF stage[r] = "queued" /\ home[r] = i THEN 1 ELSE 0
    /\ \A i \in Instances : Cardinality({r \in In(Held) : home[r] = i}) <= Workers
    /\ userCount \in [Users -> Int] /\ gate \in Int
    /\ inflight \in [Instances -> [Users -> Entries]]
    /\ mapping \in [Users -> Requests \cup {None}]
    /\ marker \subseteq Users /\ {stopEvents, cancelled} \subseteq SUBSET Requests
    /\ cmd.pc \in {"idle", "remove", "inflight", "lookup", "event", "mark"}
    /\ cmd.at \in Instances \cup {None} /\ cmd.user \in Users \cup {None}
    /\ cmd.names \in Requests \cup {None} /\ (cmd.pc = "event" => cmd.names # None)
    /\ commands \in 0..MaxCommands /\ troubles \in 0..MaxTroubles /\ crashes \in 0..MaxTroubles

Mine(u) == {r \in In(Counted) : From[r] = u}

\* qaQueue.globalMaxWorkers and maxPerUser: over all replicas, and whatever is
\* stopped, discarded or dies, no more than GlobalMax questions run and no user
\* has more than MaxPerUser requests, as long as Redis answers; and both
\* counters come back to what is really there.
LimitsHold ==
    troubles = 0 =>
        /\ Cardinality(In(Running)) <= GlobalMax
        /\ \A u \in Users : Cardinality({r \in Mine(u) : stage[r] # "over"}) <= MaxPerUser
        /\ crashes = 0 => /\ gate = Cardinality(In(Running))
                          /\ \A u \in Users : userCount[u] = Cardinality(Mine(u))

\* What /stop reaches for is never left behind by a request that ended: an
\* entry in s.inflight belongs to a user with a request running on the replica,
\* and the mapping in Redis names a running request, unless that request was
\* stopped or its replica died.
NoStaleHandles ==
    /\ \A i \in Instances, u \in Users :
          inflight[i][u] # NoEntry =>
              \E r \in In(Running) : home[r] = i /\ From[r] = u
    /\ \A u \in Users :
          mapping[u] \in Requests =>
              \/ stage[mapping[u]] \in {"answer", "clear"}
              \/ mapping[u] \in cancelled \cup stopEvents
              \/ crashes > 0

\* Every message that a replica takes is rejected, discarded, stopped or
\* answered: as long as no replica dies, a request never waits without
\* another one being answered.
AcceptedIsSettled ==
    (In(Counted) # {}) ~> (In(Counted) = {} \/ In({"answer"}) # {} \/ crashes > 0)

Halted == {r \in In(Counted) : r \in cancelled \/ (cmd.pc = "event" /\ cmd.names = r)}

\* watchStreamManagerStop: a request whose context is cancelled, or whose
\* message is named by a /stop on any replica, ends, however long the model
\* would take.
StoppedRequestsEnd == (Halted # {}) ~> (Halted \cup (stopEvents \cap In(Counted)) = {} \/ troubles + crashes > 0)
=============================================================================
