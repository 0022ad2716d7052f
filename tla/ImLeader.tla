------------------------------ MODULE ImLeader ------------------------------
(***************************************************************************)
(* Who keeps the connection of an IM channel.  A websocket or long-poll    *)
(* channel is opened by the one replica that holds its lease in Redis;     *)
(* the others retry, the leader renews, and API calls on any replica       *)
(* start, restart and stop what runs there.                                *)
(*   im/service.go: StartChannel, startChannelInternal, StopChannel,       *)
(*   wsLeaderRenewLoop, wsLeaderRetryLoop, LoadAndStartChannels and the    *)
(*   channel's Create, Update, Toggle and Delete                           *)
(* One channel.  Goroutines are alike, so a replica counts how many of its *)
(* goroutines stand at each place of that code.                            *)
(***************************************************************************)
EXTENDS Naturals, FiniteSets

CONSTANTS Instances,
          MaxCalls,     \* bound: API calls, callbacks and starts of a process
          MaxTroubles,  \* bound: failing Redis, database or adapter calls, long pauses
          MaxCrashes,   \* bound
          NoOne

ASSUME LeaderAssumption ==
    /\ Instances # {} /\ IsFiniteSet(Instances) /\ NoOne \notin Instances
    /\ {MaxCalls, MaxTroubles, MaxCrashes} \subseteq Nat

VARIABLES
    mode,        \* of the channel: when a poll stops, its lease is left to the TTL
    row,         \* the channel in the database
    lease,       \* the replica named by the Redis key, which has a TTL
    up,          \* replicas that run
    registered,  \* replicas with the channel in s.channels
    at,          \* goroutines of a replica at each place
    calls, troubles, crashes

vars == <<mode, row, lease, up, registered, at, calls, troubles, crashes>>

Places == {"start",     \* StartChannel, about to stop what runs
           "elect",     \* about to try for the lease
           "retry",     \* wsLeaderRetryLoop, between two ticks
           "take",      \* the retry loop has the lease and reads the row
           "build",     \* the adapter is being connected
           "register",  \* connected and renewing, not yet in s.channels
           "renew",     \* the renew loop of the registered adapter, between ticks
           "check",     \* it renewed the lease and reads the row
           "cancelled", "oldcheck",   \* the same of a loop whose adapter was stopped
           "lost",      \* a renew loop on its way to StopChannel
           "halt",      \* an API call on its way to StopChannel
           "drop", "erase"}   \* DeleteChannel: StopChannel, then the row

Nowhere == [p \in Places |-> 0]
counters == <<calls, troubles, crashes>>

----------------------------------------------------------------------------
Trouble == troubles < MaxTroubles /\ troubles' = troubles + 1 /\ UNCHANGED <<calls, crashes>>
NoTrouble == UNCHANGED counters
Call == calls < MaxCalls /\ calls' = calls + 1 /\ UNCHANGED <<troubles, crashes>>

Enter(i, p) == at' = [at EXCEPT ![i][p] = @ + 1]
Leave(i, p) == at' = [at EXCEPT ![i][p] = @ - 1]
Move(i, p, q) == at' = [at EXCEPT ![i][p] = @ - 1, ![i][q] = @ + 1]

\* Variant: SET in place of SETNX.
FreeForAll == TRUE

\* SETNX: whoever holds the lease, this replica included, keeps others out
Free == lease = NoOne

\* compare and delete, whose error nobody looks at
Released(i) == IF lease = i THEN NoOne ELSE lease
Releases(i) == \/ lease' = Released(i) /\ NoTrouble
               \/ lease' = lease /\ lease = i /\ Trouble

\* Variant: leaderCancel is not called.
HaltedNot(i, places) == places

\* stopChannelLocked: the loops of the registered adapter lose their context
Halted(i, places) ==
    [places EXCEPT !["renew"] = 0, !["check"] = 0,
                   !["cancelled"] = @ + places["renew"],
                   !["oldcheck"] = @ + places["check"]]

\* one goroutine goes from p to q (or ends) and stops what runs, if it does
Without(places, p) == [places EXCEPT ![p] = @ - 1]
StopsAnd(i, places) ==
    IF registered[i]
    THEN /\ registered' = [registered EXCEPT ![i] = FALSE]
         /\ at' = [at EXCEPT ![i] = Halted(i, places)]
         /\ IF mode = "longpoll" THEN UNCHANGED lease /\ NoTrouble ELSE Releases(i)
    ELSE /\ at' = [at EXCEPT ![i] = places]
         /\ UNCHANGED <<registered, lease, counters>>

----------------------------------------------------------------------------
\* API calls, callbacks and process starts

\* LoadAndStartChannels
Boot(i) ==
    /\ ~up[i] /\ Call
    /\ up' = [up EXCEPT ![i] = TRUE]
    /\ IF row = "enabled" THEN Enter(i, "start") ELSE UNCHANGED at
    /\ UNCHANGED <<mode, row, lease, registered>>

\* CreateChannel, and ToggleChannel in either direction
Enable(i) ==
    /\ up[i] /\ row \in {"none", "disabled"} /\ Call
    /\ row' = "enabled"
    /\ Enter(i, "start")
    /\ UNCHANGED <<mode, lease, up, registered>>

Disable(i) ==
    /\ up[i] /\ row = "enabled" /\ Call
    /\ row' = "disabled"
    /\ Enter(i, "halt")
    /\ UNCHANGED <<mode, lease, up, registered>>

\* UpdateChannel stops, then starts: the stop of StartChannel follows its own
Update(i) ==
    /\ up[i] /\ row = "enabled" /\ Call
    /\ Enter(i, "start")
    /\ UNCHANGED <<mode, row, lease, up, registered>>

\* a callback or message for a channel that does not run here starts it,
\* enabled or not
Callback(i) ==
    /\ up[i] /\ row \in {"enabled", "disabled"} /\ ~registered[i] /\ Call
    /\ Enter(i, "start")
    /\ UNCHANGED <<mode, row, lease, up, registered>>

Delete(i) ==
    /\ up[i] /\ row \in {"enabled", "disabled"} /\ Call
    /\ Enter(i, "drop")
    /\ UNCHANGED <<mode, row, lease, up, registered>>

Drop(i) ==
    /\ at[i]["drop"] > 0
    /\ StopsAnd(i, [Without(at[i], "drop") EXCEPT !["erase"] = @ + 1])
    /\ UNCHANGED <<mode, row, up>>

Erase(i) ==
    /\ at[i]["erase"] > 0
    /\ row' = "deleted"
    /\ Leave(i, "erase")
    /\ UNCHANGED <<mode, lease, up, registered, counters>>

Halt(i) ==
    /\ at[i]["halt"] > 0
    /\ StopsAnd(i, Without(at[i], "halt"))
    /\ UNCHANGED <<mode, row, up>>

----------------------------------------------------------------------------
\* StartChannel

StopExisting(i) ==
    /\ at[i]["start"] > 0
    /\ StopsAnd(i, [Without(at[i], "start") EXCEPT !["elect"] = @ + 1])
    /\ UNCHANGED <<mode, row, up>>

\* tryAcquireWSLeader; the loser leaves a retry loop behind
Elect(i) ==
    /\ at[i]["elect"] > 0
    /\ IF Free THEN lease' = i /\ Move(i, "elect", "build")
               ELSE UNCHANGED lease /\ Move(i, "elect", "retry")
    /\ UNCHANGED <<mode, row, up, registered, counters>>

\* Redis fails: the replica assumes that it leads
Assume(i, p, q) ==
    /\ at[i][p] > 0 /\ Trouble
    /\ Move(i, p, q)
    /\ UNCHANGED <<mode, row, lease, up, registered>>

ElectBlindly(i) == Assume(i, "elect", "build")

\* startChannelInternal: the factory connects, the renew loop starts ...
Connect(i) ==
    /\ at[i]["build"] > 0
    /\ Move(i, "build", "register")
    /\ UNCHANGED <<mode, row, lease, up, registered, counters>>

ConnectFails(i) ==
    /\ at[i]["build"] > 0 /\ Trouble
    /\ lease' = Released(i)
    /\ Leave(i, "build")
    /\ UNCHANGED <<mode, row, up, registered>>

\* ... and the channel is registered, in place of one that runs.  The first
\* tick of the loop comes five seconds later.
Register(i) ==
    /\ at[i]["register"] > 0
    /\ registered' = [registered EXCEPT ![i] = TRUE]
    /\ lease' = IF registered[i] /\ mode = "websocket" THEN Released(i) ELSE lease
    /\ at' = [at EXCEPT ![i] = [Halted(i, Without(@, "register")) EXCEPT !["renew"] = 1]]
    /\ UNCHANGED <<mode, row, up, counters>>

----------------------------------------------------------------------------
\* wsLeaderRetryLoop

RetryEnds(i) ==
    /\ at[i]["retry"] > 0 /\ registered[i]
    /\ Leave(i, "retry")
    /\ UNCHANGED <<mode, row, lease, up, registered, counters>>

RetryWins(i) ==
    /\ at[i]["retry"] > 0 /\ ~registered[i] /\ Free
    /\ lease' = i
    /\ Move(i, "retry", "take")
    /\ UNCHANGED <<mode, row, up, registered, counters>>

RetryBlindly(i) == ~registered[i] /\ Assume(i, "retry", "take")

TakeOver(i) ==
    /\ at[i]["take"] > 0
    /\ IF row = "enabled" THEN UNCHANGED <<lease, counters>> /\ Move(i, "take", "build")
                          ELSE Releases(i) /\ Leave(i, "take")
    /\ UNCHANGED <<mode, row, up, registered>>

\* the database fails: the lease goes back, the loop goes on
TakeOverFails(i) ==
    /\ at[i]["take"] > 0 /\ Trouble
    /\ lease' = Released(i)
    /\ Move(i, "take", "retry")
    /\ UNCHANGED <<mode, row, up, registered>>

----------------------------------------------------------------------------
\* wsLeaderRenewLoop

Step(i, p, q) ==
    /\ at[i][p] > 0
    /\ Move(i, p, q)
    /\ UNCHANGED <<mode, row, lease, up, registered>>

\* Variant: the lease is extended without a look at its owner.
OwnsAnyway(i) == TRUE

Owns(i) == lease = i

Renew(i) ==
    \/ Owns(i) /\ Step(i, "renew", "check") /\ NoTrouble
    \/ ~Owns(i) /\ Step(i, "renew", "lost") /\ NoTrouble
    \/ Step(i, "renew", "lost") /\ Trouble

\* Variant: the loop does not look at the row.
LooksEnabledAnyway == TRUE

LooksEnabled == row = "enabled"

Check(i) ==
    \/ LooksEnabled /\ Step(i, "check", "renew") /\ NoTrouble
    \/ ~LooksEnabled /\ Step(i, "check", "lost") /\ NoTrouble
    \/ Step(i, "check", "renew") /\ Trouble

\* a loop whose context is cancelled: it ends, unless its tick came at the
\* same time, when it finds that its call failed, or that the lease is there
CancelledEnds(i) ==
    /\ \E p \in {"cancelled", "oldcheck"} : at[i][p] > 0 /\ Leave(i, p)
    /\ UNCHANGED <<mode, row, lease, up, registered, counters>>

CancelledTicks(i) ==
    /\ \/ Step(i, "cancelled", "lost")
       \/ Owns(i) /\ Step(i, "cancelled", "oldcheck")
       \/ ~LooksEnabled /\ Step(i, "oldcheck", "lost")
    /\ NoTrouble

\* StopChannel, by name: what is registered now is stopped
StepDown(i) ==
    /\ at[i]["lost"] > 0
    /\ StopsAnd(i, Without(at[i], "lost"))
    /\ UNCHANGED <<mode, row, up>>

----------------------------------------------------------------------------
Crash(i) ==
    /\ up[i] /\ crashes < MaxCrashes
    /\ crashes' = crashes + 1
    /\ up' = [up EXCEPT ![i] = FALSE]
    /\ registered' = [registered EXCEPT ![i] = FALSE]
    /\ at' = [at EXCEPT ![i] = Nowhere]
    /\ UNCHANGED <<mode, row, lease, calls, troubles>>

\* Variant: the key is written without a TTL.
KeepsForEver(i) == TRUE

\* the TTL outlives two renewals, a connection attempt and the step down of a
\* loop: it runs out when nobody leads ...
Keeps(i) == registered[i] \/ \E p \in {"take", "build", "register"} : at[i][p] > 0

Expire ==
    /\ lease # NoOne /\ ~Keeps(lease)
    /\ lease' = NoOne
    /\ UNCHANGED <<mode, row, up, registered, at, counters>>

\* ... or in a long pause of its owner
Lapse ==
    /\ lease # NoOne /\ Keeps(lease) /\ Trouble
    /\ lease' = NoOne
    /\ UNCHANGED <<mode, row, up, registered, at>>

----------------------------------------------------------------------------
\* replicas that have just started and read the row, if there is one
Init ==
    /\ mode \in {"websocket", "longpoll"}
    /\ row \in {"none", "enabled"} /\ lease = NoOne
    /\ up = [i \in Instances |-> TRUE]
    /\ registered = [i \in Instances |-> FALSE]
    /\ at = [i \in Instances |-> [Nowhere EXCEPT !["start"] = IF row = "enabled" THEN 1 ELSE 0]]
    /\ calls = 0 /\ troubles = 0 /\ crashes = 0

Clients(i) == Boot(i) \/ Enable(i) \/ Disable(i) \/ Update(i) \/ Callback(i) \/ Delete(i)

Goes(i) ==
    \/ Halt(i) \/ Drop(i) \/ Erase(i) \/ StopExisting(i) \/ Elect(i) \/ Connect(i) \/ Register(i)
    \/ RetryEnds(i) \/ RetryWins(i) \/ TakeOver(i)
    \/ Renew(i) \/ Check(i) \/ CancelledEnds(i) \/ StepDown(i)

Mishaps(i) ==
    \/ ElectBlindly(i) \/ ConnectFails(i) \/ RetryBlindly(i) \/ TakeOverFails(i)
    \/ CancelledTicks(i) \/ Crash(i)

Next ==
    \/ \E i \in Instances : Clients(i) \/ Goes(i) \/ Mishaps(i)
    \/ Expire \/ Lapse

Spec == Init /\ [][Next]_vars

\* Goroutines go on and tickers tick.
Fairness ==
    /\ \A i \in Instances :
        /\ WF_vars(Halt(i)) /\ WF_vars(Drop(i)) /\ WF_vars(Erase(i)) /\ WF_vars(StopExisting(i))
        /\ WF_vars(Elect(i)) /\ WF_vars(Connect(i)) /\ WF_vars(Register(i))
        /\ WF_vars(RetryEnds(i)) /\ WF_vars(RetryWins(i)) /\ WF_vars(TakeOver(i))
        /\ WF_vars(Renew(i)) /\ WF_vars(Check(i)) /\ WF_vars(StepDown(i))
        /\ WF_vars(CancelledEnds(i))
    /\ WF_vars(Expire)

LiveSpec == Spec /\ Fairness

----------------------------------------------------------------------------
TypeOK ==
    /\ mode \in {"websocket", "longpoll"}
    /\ row \in {"none", "enabled", "disabled", "deleted"}
    /\ lease \in Instances \cup {NoOne}
    /\ up \in [Instances -> BOOLEAN] /\ registered \in [Instances -> BOOLEAN]
    /\ at \in [Instances -> [Places -> Nat]]
    /\ \A i \in Instances :
          /\ at[i]["renew"] + at[i]["check"] <= (IF registered[i] THEN 1 ELSE 0)
          /\ ~up[i] => at[i] = Nowhere /\ ~registered[i]
    /\ calls \in 0..MaxCalls /\ troubles \in 0..MaxTroubles /\ crashes \in 0..MaxCrashes

Connections(i) == at[i]["register"] + (IF registered[i] THEN 1 ELSE 0)
Connected(i) == Connections(i) > 0

\* StartChannel: "only one instance acquires the leader lock and opens the
\* connection", through restarts, takeovers, stops and crashes, as long as no
\* lease is lost and no replica had to assume that it leads.
OneConnection ==
    troubles = 0 =>
        /\ \A i \in Instances : Connections(i) <= 1
        /\ \A i, j \in Instances : Connected(i) /\ Connected(j) => i = j

\* wsLeaderRenewLoop: after the last trouble, replicas that wrongly lead step down.
OneConnectionInTheEnd ==
    <>[](\A i, j \in Instances : Connected(i) /\ Connected(j) => i = j)

\* The check of the row in wsLeaderRenewLoop: a channel that is disabled or
\* deleted on one replica is disconnected wherever it runs.
StoppedIsDisconnected ==
    (row \in {"disabled", "deleted"})
        ~> (row = "enabled" \/ \A i \in Instances : ~Connected(i))

\* wsLeaderRetryLoop: a replica that waits for the lease connects the channel
\* when the leader is gone, be it stopped, crashed or disconnected.
WaiterTakesOver ==
    \A i \in Instances :
        (at[i]["retry"] > 0 /\ row = "enabled")
            ~> (row # "enabled" \/ troubles > 0 \/ ~up[i] \/ \E j \in Instances : Connected(j))
=============================================================================
