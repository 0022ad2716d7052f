--------------------------- MODULE ImLeaderProofs ---------------------------
(***************************************************************************)
(* Proofs about ImLeader, for every set of replicas and every bound.  Each *)
(* step changes the goroutines of one replica, so one lemma (OneReplica)   *)
(* says what such a step must respect, and each action is an instance.     *)
(***************************************************************************)
EXTENDS ImLeader, TLAPS

\* Goroutines on their way to a connection, and the connection.
Claims(places, reg) ==
    places["take"] + places["build"] + places["register"] + (IF reg THEN 1 ELSE 0)

\* Without trouble, a replica leads at most once, and with the lease.
Leads(i) == Claims(at[i], registered[i])
Exclusive ==
    troubles = 0 => \A i \in Instances : Leads(i) <= 1 /\ (Leads(i) = 1 => lease = i)

LInv == TypeOK /\ Exclusive

Layout == [Places -> Nat]
Loops(places) == places["renew"] + places["check"]

-----------------------------------------------------------------------------
\* Whoever stands somewhere belongs to a replica that runs.
LEMMA Alive ==
    ASSUME TypeOK, NEW i \in Instances, NEW p \in Places, at[i][p] > 0
    PROVE  up[i]
  BY DEF TypeOK, Nowhere

\* A replica may change its own layout as long as it keeps one renew loop per
\* registered adapter and, without trouble, leads once and with the lease,
\* which it does not take from another.
LEMMA OneReplica ==
    ASSUME LInv, NEW i \in Instances, NEW f \in Layout, NEW reg \in BOOLEAN,
           at' = [at EXCEPT ![i] = f], registered' = [registered EXCEPT ![i] = reg],
           mode' = mode, row' \in {"none", "enabled", "disabled", "deleted"},
           up' = [up EXCEPT ![i] = TRUE], lease' \in Instances \cup {NoOne},
           calls' \in 0..MaxCalls, troubles' \in 0..MaxTroubles, crashes' \in 0..MaxCrashes,
           Loops(f) <= (IF reg THEN 1 ELSE 0),
           troubles' = 0 => /\ troubles = 0
                            /\ Claims(f, reg) <= 1
                            /\ Claims(f, reg) = 1 => lease' = i
                            /\ lease' # lease => lease \in {i, NoOne}
    PROVE  LInv'
  <1>1. /\ at' \in [Instances -> Layout] /\ registered' \in [Instances -> BOOLEAN]
        /\ up' \in [Instances -> BOOLEAN]
    BY DEF LInv, TypeOK, Layout
  <1>2. /\ at'[i] = f /\ registered'[i] = reg /\ up'[i] = TRUE
        /\ \A j \in Instances : j # i => at'[j] = at[j] /\ registered'[j] = registered[j] /\ up'[j] = up[j]
    BY DEF LInv, TypeOK
  <1>3. TypeOK'
    <2>1. ASSUME NEW j \in Instances
          PROVE  /\ at'[j]["renew"] + at'[j]["check"] <= (IF registered'[j] THEN 1 ELSE 0)
                 /\ ~up'[j] => at'[j] = Nowhere /\ ~registered'[j]
      BY <1>2 DEF LInv, TypeOK, Loops
    <2>2. Nowhere' = Nowhere
      BY DEF Nowhere
    <2> QED BY <1>1, <2>1, <2>2 DEF LInv, TypeOK, Layout
  <1>4. Exclusive'
    <2> SUFFICES ASSUME troubles' = 0, NEW j \in Instances
                 PROVE  Leads(j)' <= 1 /\ (Leads(j)' = 1 => lease' = j)
      BY DEF Exclusive
    <2>1. CASE j = i
      BY <2>1, <1>2 DEF Leads
    <2>2. CASE j # i
      <3>1. Leads(j)' = Leads(j)
        BY <2>2, <1>2 DEF Leads
      <3>2. troubles = 0 /\ Leads(j) <= 1 /\ (Leads(j) = 1 => lease = j)
        BY DEF LInv, Exclusive
      <3>3. lease = j => lease' = j
        BY <2>2, LeaderAssumption
      <3> QED BY <3>1, <3>2, <3>3
    <2> QED BY <2>1, <2>2
  <1> QED BY <1>3, <1>4 DEF LInv

\* What the invariant says of one replica.
LEMMA Here ==
    ASSUME LInv, NEW i \in Instances
    PROVE  /\ at[i] \in Layout /\ registered[i] \in BOOLEAN /\ up[i] \in BOOLEAN
           /\ Loops(at[i]) <= (IF registered[i] THEN 1 ELSE 0)
           /\ troubles = 0 => Leads(i) <= 1 /\ (Leads(i) = 1 => lease = i)
           /\ Leads(i) \in Nat
           /\ (lease = NoOne /\ troubles = 0) => Leads(i) = 0
           /\ lease \in Instances \cup {NoOne}
           /\ calls \in 0..MaxCalls /\ troubles \in 0..MaxTroubles /\ crashes \in 0..MaxCrashes
           /\ row \in {"none", "enabled", "disabled", "deleted"}
           /\ registered = [registered EXCEPT ![i] = registered[i]]
           /\ up[i] => up = [up EXCEPT ![i] = TRUE]
           /\ at = [at EXCEPT ![i] = at[i]]
  <1>1. at[i] \in Layout /\ registered[i] \in BOOLEAN /\ up[i] \in BOOLEAN
    BY DEF LInv, TypeOK, Layout
  <1>2. Loops(at[i]) <= (IF registered[i] THEN 1 ELSE 0)
    BY DEF LInv, TypeOK, Loops
  <1>3. troubles = 0 => Leads(i) <= 1 /\ (Leads(i) = 1 => lease = i)
    BY DEF LInv, Exclusive
  <1>4. Leads(i) \in Nat
    BY <1>1 DEF Leads, Claims, Layout, Places
  <1>5. (lease = NoOne /\ troubles = 0) => Leads(i) = 0
    BY <1>3, <1>4, LeaderAssumption
  <1>6. /\ registered = [registered EXCEPT ![i] = registered[i]]
        /\ up[i] => up = [up EXCEPT ![i] = TRUE]
        /\ at = [at EXCEPT ![i] = at[i]]
    BY DEF LInv, TypeOK
  <1>7. /\ lease \in Instances \cup {NoOne}
        /\ calls \in 0..MaxCalls /\ troubles \in 0..MaxTroubles /\ crashes \in 0..MaxCrashes
        /\ row \in {"none", "enabled", "disabled", "deleted"}
    BY DEF LInv, TypeOK
  <1> QED BY <1>1, <1>2, <1>3, <1>4, <1>5, <1>6, <1>7

\* Places as a layout sees them.
LEMMA Move1 ==
    ASSUME NEW g \in Layout, NEW p \in Places, g[p] > 0
    PROVE  /\ Without(g, p) \in Layout
           /\ Without(g, p)[p] = g[p] - 1
           /\ \A q \in Places : q # p => Without(g, p)[q] = g[q]
  BY DEF Layout, Without

LEMMA Move2 ==
    ASSUME NEW g \in Layout, NEW q \in Places
    PROVE  /\ [g EXCEPT ![q] = @ + 1] \in Layout
           /\ [g EXCEPT ![q] = @ + 1][q] = g[q] + 1
           /\ \A x \in Places : x # q => [g EXCEPT ![q] = @ + 1][x] = g[x]
  BY DEF Layout

LEMMA HaltedFact ==
    ASSUME NEW i \in Instances, NEW g \in Layout
    PROVE  /\ Halted(i, g) \in Layout
           /\ Loops(Halted(i, g)) = 0
           /\ Halted(i, g)["take"] = g["take"] /\ Halted(i, g)["build"] = g["build"]
           /\ Halted(i, g)["register"] = g["register"]
  BY DEF Layout, Halted, Places, Loops

\* The same for a step from p to q, and for one that ends at p or starts at q.
LEMMA Moved ==
    ASSUME LInv, NEW i \in Instances, NEW p \in Places, NEW q \in Places, p # q, at[i][p] > 0,
           Move(i, p, q)
    PROVE  \E f \in Layout : /\ at' = [at EXCEPT ![i] = f]
                             /\ f[p] = at[i][p] - 1 /\ f[q] = at[i][q] + 1
                             /\ \A x \in Places \ {p, q} : f[x] = at[i][x]
  <1> DEFINE f == [at[i] EXCEPT ![p] = @ - 1, ![q] = @ + 1]
  <1>1. at[i] \in Layout
    BY Here
  <1>2. f \in Layout /\ f[p] = at[i][p] - 1 /\ f[q] = at[i][q] + 1
        /\ \A x \in Places \ {p, q} : f[x] = at[i][x]
    BY <1>1 DEF Layout
  <1>3. at' = [at EXCEPT ![i] = f]
    BY <1>1 DEF Move, LInv, TypeOK, Layout
  <1> QED BY <1>2, <1>3

LEMMA Left ==
    ASSUME LInv, NEW i \in Instances, NEW p \in Places, at[i][p] > 0, Leave(i, p)
    PROVE  \E f \in Layout : /\ at' = [at EXCEPT ![i] = f]
                             /\ f[p] = at[i][p] - 1
                             /\ \A x \in Places \ {p} : f[x] = at[i][x]
  <1> DEFINE f == [at[i] EXCEPT ![p] = @ - 1]
  <1>1. at[i] \in Layout
    BY Here
  <1>2. f \in Layout /\ f[p] = at[i][p] - 1 /\ \A x \in Places \ {p} : f[x] = at[i][x]
    BY <1>1 DEF Layout
  <1>3. at' = [at EXCEPT ![i] = f]
    BY <1>1 DEF Leave, LInv, TypeOK, Layout
  <1> QED BY <1>2, <1>3

LEMMA Entered ==
    ASSUME LInv, NEW i \in Instances, NEW q \in Places, Enter(i, q)
    PROVE  \E f \in Layout : /\ at' = [at EXCEPT ![i] = f]
                             /\ f[q] = at[i][q] + 1
                             /\ \A x \in Places \ {q} : f[x] = at[i][x]
  <1> DEFINE f == [at[i] EXCEPT ![q] = @ + 1]
  <1>1. at[i] \in Layout
    BY Here
  <1>2. f \in Layout /\ f[q] = at[i][q] + 1 /\ \A x \in Places \ {q} : f[x] = at[i][x]
    BY <1>1 DEF Layout
  <1>3. at' = [at EXCEPT ![i] = f]
    BY <1>1 DEF Enter, LInv, TypeOK, Layout
  <1> QED BY <1>2, <1>3

\* The counters after a step with a failure, one without and one with a call.
LEMMA Counted ==
    ASSUME LInv, Trouble \/ NoTrouble \/ Call
    PROVE  /\ calls' \in 0..MaxCalls /\ troubles' \in 0..MaxTroubles /\ crashes' \in 0..MaxCrashes
           /\ troubles' = 0 => troubles = 0
           /\ Trouble => troubles' # 0
  <1> USE LeaderAssumption DEF LInv, TypeOK
  <1>1. CASE Trouble
    BY <1>1 DEF Trouble
  <1>2. CASE NoTrouble
    <2>1. UNCHANGED <<calls, troubles, crashes>>
      BY <1>2 DEF NoTrouble, counters
    <2>2. Trouble => FALSE
      BY <2>1 DEF Trouble
    <2> QED BY <2>1, <2>2
  <1>3. CASE Call
    <2>1. Trouble => FALSE
      BY <1>3 DEF Call, Trouble
    <2> QED BY <2>1, <1>3 DEF Call
  <1> QED BY <1>1, <1>2, <1>3

-----------------------------------------------------------------------------
\* Stopping what runs here.
LEMMA Stops ==
    ASSUME LInv, NEW i \in Instances, up[i], NEW g \in Layout, StopsAnd(i, g),
           Loops(g) = Loops(at[i]),
           \A p \in {"take", "build", "register"} : g[p] = at[i][p],
           row' \in {"none", "enabled", "disabled", "deleted"}, UNCHANGED <<mode, up>>
    PROVE  LInv'
  <1> USE Here
  <1>1. CASE registered[i]
    <2>1. /\ registered' = [registered EXCEPT ![i] = FALSE]
          /\ at' = [at EXCEPT ![i] = Halted(i, g)]
      BY <1>1 DEF StopsAnd
    <2>2. (lease' = lease \/ lease' = Released(i)) /\ (NoTrouble \/ Trouble)
      BY <1>1 DEF StopsAnd, Releases
    <2>3. lease' \in Instances \cup {NoOne} /\ (lease' # lease => lease \in {i, NoOne})
      BY <2>2 DEF Released
    <2>4. Halted(i, g) \in Layout /\ Loops(Halted(i, g)) = 0
          /\ Claims(Halted(i, g), FALSE) = Leads(i) - 1
      <3>1. Claims(at[i], TRUE) = Leads(i)
        BY <1>1 DEF Leads, Claims
      <3>2. \A p \in {"take", "build", "register"} : Halted(i, g)[p] = at[i][p]
        BY HaltedFact
      <3>3. Claims(Halted(i, g), FALSE) = Claims(at[i], TRUE) - 1
        BY <3>2 DEF Claims, Layout, Places
      <3> QED BY <3>1, <3>3, HaltedFact
    <2>5. troubles' = 0 => troubles = 0 /\ Leads(i) - 1 <= 0
      BY <2>2, Counted
    <2>6. ASSUME troubles' = 0
          PROVE  /\ Claims(Halted(i, g), FALSE) <= 1
                 /\ Claims(Halted(i, g), FALSE) # 1
      <3>1. Leads(i) \in Nat /\ Leads(i) - 1 <= 0 /\ Claims(Halted(i, g), FALSE) = Leads(i) - 1
        BY <2>4, <2>5, <2>6
      <3>2. \A l \in Nat : l - 1 <= 0 => l - 1 <= 1 /\ l - 1 # 1
        OBVIOUS
      <3>3. Leads(i) - 1 <= 1 /\ Leads(i) - 1 # 1
        BY <3>1, <3>2
      <3> QED BY <3>1, <3>3
    <2>7. up' = [up EXCEPT ![i] = TRUE] /\ Loops(Halted(i, g)) <= 0
      BY <2>4
    <2>8. /\ calls' \in 0..MaxCalls /\ troubles' \in 0..MaxTroubles /\ crashes' \in 0..MaxCrashes
          /\ troubles' = 0 => troubles = 0
      BY <2>2, Counted
    <2> HIDE Here
    <2>9. troubles' = 0 => /\ troubles = 0
                           /\ Claims(Halted(i, g), FALSE) <= 1
                           /\ Claims(Halted(i, g), FALSE) = 1 => lease' = i
                           /\ lease' # lease => lease \in {i, NoOne}
      BY <2>3, <2>6, <2>8
    <2> QED BY <2>1, <2>3, <2>4, <2>7, <2>8, <2>9, OneReplica
  <1>2. CASE ~registered[i]
    <2>1. at' = [at EXCEPT ![i] = g] /\ UNCHANGED <<registered, lease>> /\ NoTrouble
      BY <1>2 DEF StopsAnd, NoTrouble
    <2>2. Claims(g, registered[i]) = Leads(i)
      BY <1>2 DEF Leads, Claims
    <2>3. registered' = [registered EXCEPT ![i] = registered[i]] /\ up' = [up EXCEPT ![i] = TRUE]
      BY <2>1
    <2>4. Loops(g) <= (IF registered[i] THEN 1 ELSE 0) /\ registered[i] \in BOOLEAN
          /\ lease' \in Instances \cup {NoOne}
      BY <2>1
    <2>5. troubles' = 0 => /\ troubles = 0
                           /\ Claims(g, registered[i]) <= 1
                           /\ Claims(g, registered[i]) = 1 => lease' = i
                           /\ lease' # lease => lease \in {i, NoOne}
      BY <2>1, <2>2, Counted
    <2> QED BY <2>1, <2>3, <2>4, <2>5, Counted, OneReplica
  <1> QED BY <1>1, <1>2

\* A step of a replica that leaves the registered adapter and its loops.
LEMMA Goroutine ==
    ASSUME LInv, NEW i \in Instances, up[i], NEW f \in Layout, at' = [at EXCEPT ![i] = f],
           row' \in {"none", "enabled", "disabled", "deleted"}, UNCHANGED <<mode, up, registered>>,
           Loops(f) <= Loops(at[i]), Trouble \/ NoTrouble \/ Call,
           lease' \in Instances \cup {NoOne},
           (NoTrouble \/ Call) => /\ Claims(f, registered[i]) <= Leads(i)
                                     \/ (lease = NoOne /\ lease' = i
                                           /\ Claims(f, registered[i]) <= Leads(i) + 1)
                                  /\ lease' # lease => \/ lease = NoOne /\ lease' = i
                                                       \/ lease = i /\ Claims(f, registered[i]) < Leads(i)
    PROVE  LInv'
  <1> USE Here
  <1>1. registered' = [registered EXCEPT ![i] = registered[i]] /\ up' = [up EXCEPT ![i] = TRUE]
        /\ registered[i] \in BOOLEAN
    OBVIOUS
  <1>2. Loops(f) <= (IF registered[i] THEN 1 ELSE 0)
    <2>1. Loops(f) \in Nat /\ Loops(at[i]) \in Nat
      BY DEF Loops, Layout, Places
    <2> QED BY <2>1
  <1>3. ASSUME troubles' = 0
        PROVE  /\ troubles = 0
               /\ Claims(f, registered[i]) <= 1
               /\ Claims(f, registered[i]) = 1 => lease' = i
               /\ lease' # lease => lease \in {i, NoOne}
    <2>1. troubles = 0 /\ (NoTrouble \/ Call)
      BY <1>3, Counted
    <2>2. Leads(i) <= 1 /\ (Leads(i) = 1 => lease = i) /\ (lease = NoOne => Leads(i) = 0)
      BY <2>1
    <2>3. Claims(f, registered[i]) \in Nat
      BY DEF Claims, Layout, Places
    <2>4. i # NoOne
      BY LeaderAssumption
    <2> QED BY <2>1, <2>2, <2>3, <2>4
  <1> QED BY <1>1, <1>2, <1>3, Counted, OneReplica

-----------------------------------------------------------------------------
\* API calls, callbacks and starts: a goroutine more, and no claim.
LEMMA NewGoroutine ==
    ASSUME LInv, NEW i \in Instances, up[i], NEW q \in {"start", "halt", "drop"}, Enter(i, q), Call,
           row' \in {"none", "enabled", "disabled", "deleted"},
           UNCHANGED <<mode, lease, up, registered>>
    PROVE  LInv'
  <1>1. q \in Places
    BY DEF Places
  <1>2. PICK f \in Layout : /\ at' = [at EXCEPT ![i] = f]
                            /\ f[q] = at[i][q] + 1
                            /\ \A x \in Places \ {q} : f[x] = at[i][x]
    BY <1>1, Entered
  <1>3. Loops(f) = Loops(at[i]) /\ Claims(f, registered[i]) = Leads(i)
    BY <1>2 DEF Loops, Claims, Leads, Places
  <1>4. Loops(f) <= Loops(at[i]) /\ Claims(f, registered[i]) <= Leads(i)
    BY <1>3, Here DEF Loops, Layout, Places
  <1>5. lease' \in Instances \cup {NoOne}
    BY Here
  <1> QED BY <1>2, <1>4, <1>5, Goroutine

LEMMA ClientsKeep ==
    ASSUME LInv, NEW i \in Instances, Clients(i)
    PROVE  LInv'
  <1>0. row \in {"none", "enabled", "disabled", "deleted"}
    BY Here
  <1>1. CASE Boot(i)
    <2>1. /\ ~up[i] /\ up' = [up EXCEPT ![i] = TRUE] /\ UNCHANGED <<mode, row, lease, registered>>
          /\ Call
      BY <1>1 DEF Boot
    <2>2. at[i] = Nowhere /\ registered[i] = FALSE
      BY <2>1 DEF LInv, TypeOK
    <2>3. Claims(at[i], FALSE) = 0 /\ Loops(at[i]) = 0
      BY <2>2 DEF Nowhere, Claims, Loops, Places
    <2>4. PICK f \in Layout : /\ at' = [at EXCEPT ![i] = f]
                              /\ \A x \in Places \ {"start"} : f[x] = at[i][x]
      <3>1. CASE row = "enabled"
        BY <1>1, <3>1, Entered DEF Boot, Places
      <3>2. CASE row # "enabled"
        BY <1>1, <3>2, Here DEF Boot
      <3> QED BY <3>1, <3>2
    <2>5. Claims(f, FALSE) = 0 /\ Loops(f) = 0
      BY <2>3, <2>4 DEF Claims, Loops, Places
    <2>6. registered' = [registered EXCEPT ![i] = FALSE] /\ lease' \in Instances \cup {NoOne}
      BY <2>1, <2>2, Here
    <2>7. /\ calls' \in 0..MaxCalls /\ troubles' \in 0..MaxTroubles /\ crashes' \in 0..MaxCrashes
          /\ troubles' = 0 => troubles = 0
      BY <2>1, Counted
    <2>8. Loops(f) <= (IF FALSE THEN 1 ELSE 0) /\ Claims(f, FALSE) <= 1 /\ Claims(f, FALSE) # 1
      <3>1. 0 <= (IF FALSE THEN 1 ELSE 0) /\ 0 <= 1 /\ 0 # 1
        OBVIOUS
      <3> QED BY <2>5, <3>1
    <2>9. row' \in {"none", "enabled", "disabled", "deleted"} /\ mode' = mode
          /\ (lease' # lease => lease \in {i, NoOne})
      BY <1>0, <2>1
    <2> QED BY <2>1, <2>4, <2>6, <2>7, <2>8, <2>9, OneReplica
  <1>2. CASE Enable(i)
    BY <1>2, NewGoroutine DEF Enable
  <1>3. CASE Disable(i)
    BY <1>3, NewGoroutine DEF Disable
  <1>4. CASE Update(i)
    BY <1>0, <1>4, NewGoroutine DEF Update
  <1>5. CASE Callback(i)
    BY <1>0, <1>5, NewGoroutine DEF Callback
  <1>6. CASE Delete(i)
    BY <1>0, <1>6, NewGoroutine DEF Delete
  <1> QED BY <1>1, <1>2, <1>3, <1>4, <1>5, <1>6 DEF Clients

\* The goroutines that stop what runs here.
LEMMA StopsHere ==
    ASSUME LInv, NEW i \in Instances, NEW p \in {"start", "halt", "drop", "lost"}, at[i][p] > 0,
           NEW g \in Layout, g[p] = at[i][p] - 1,
           \A x \in Places \ {p, "elect", "erase"} : g[x] = at[i][x],
           StopsAnd(i, g), UNCHANGED <<mode, row, up>>
    PROVE  LInv'
  <1>1. up[i]
    BY Alive DEF Places, LInv
  <1>2. Loops(g) = Loops(at[i]) /\ \A x \in {"take", "build", "register"} : g[x] = at[i][x]
    BY DEF Loops, Places
  <1>3. row' \in {"none", "enabled", "disabled", "deleted"}
    BY Here
  <1> QED BY <1>1, <1>2, <1>3, Stops

LEMMA StoppersKeep ==
    ASSUME LInv, NEW i \in Instances, Halt(i) \/ Drop(i) \/ StopExisting(i) \/ StepDown(i)
    PROVE  LInv'
  <1>0. at[i] \in Layout
    BY Here
  <1>1. CASE Halt(i)
    <2>1. Without(at[i], "halt") \in Layout
          /\ Without(at[i], "halt")["halt"] = at[i]["halt"] - 1
          /\ \A x \in Places \ {"halt"} : Without(at[i], "halt")[x] = at[i][x]
      BY <1>0, <1>1, Move1 DEF Halt, Places
    <2> QED BY <1>1, <2>1, StopsHere DEF Halt
  <1>2. CASE StepDown(i)
    <2>1. Without(at[i], "lost") \in Layout
          /\ Without(at[i], "lost")["lost"] = at[i]["lost"] - 1
          /\ \A x \in Places \ {"lost"} : Without(at[i], "lost")[x] = at[i][x]
      BY <1>0, <1>2, Move1 DEF StepDown, Places
    <2> QED BY <1>2, <2>1, StopsHere DEF StepDown
  <1>3. CASE Drop(i)
    <2> DEFINE g == [Without(at[i], "drop") EXCEPT !["erase"] = @ + 1]
    <2>1. Without(at[i], "drop") \in Layout
          /\ Without(at[i], "drop")["drop"] = at[i]["drop"] - 1
          /\ \A x \in Places \ {"drop"} : Without(at[i], "drop")[x] = at[i][x]
      BY <1>0, <1>3, Move1 DEF Drop, Places
    <2>2. g \in Layout /\ g["drop"] = at[i]["drop"] - 1
          /\ \A x \in Places \ {"drop", "elect", "erase"} : g[x] = at[i][x]
      BY <2>1 DEF Layout, Places
    <2>3. at[i]["drop"] > 0 /\ StopsAnd(i, g) /\ UNCHANGED <<mode, row, up>>
      BY <1>3 DEF Drop
    <2> HIDE DEF g
    <2> QED BY <2>2, <2>3, StopsHere
  <1>4. CASE StopExisting(i)
    <2> DEFINE g == [Without(at[i], "start") EXCEPT !["elect"] = @ + 1]
    <2>1. Without(at[i], "start") \in Layout
          /\ Without(at[i], "start")["start"] = at[i]["start"] - 1
          /\ \A x \in Places \ {"start"} : Without(at[i], "start")[x] = at[i][x]
      BY <1>0, <1>4, Move1 DEF StopExisting, Places
    <2>2. g \in Layout /\ g["start"] = at[i]["start"] - 1
          /\ \A x \in Places \ {"start", "elect", "erase"} : g[x] = at[i][x]
      BY <2>1 DEF Layout, Places
    <2>3. at[i]["start"] > 0 /\ StopsAnd(i, g) /\ UNCHANGED <<mode, row, up>>
      BY <1>4 DEF StopExisting
    <2> HIDE DEF g
    <2> QED BY <2>2, <2>3, StopsHere
  <1> QED BY <1>1, <1>2, <1>3, <1>4

-----------------------------------------------------------------------------
\* A goroutine that goes from one place to another and keeps the lease as it
\* is: it claims no more than before.
Weight(p) == IF p \in {"take", "build", "register"} THEN 1 ELSE 0
Looping(p) == IF p \in {"renew", "check"} THEN 1 ELSE 0

LEMMA Goes1 ==
    ASSUME LInv, NEW i \in Instances, NEW p \in Places, NEW q \in Places, p # q, at[i][p] > 0,
           Move(i, p, q)
    PROVE  \E f \in Layout : /\ at' = [at EXCEPT ![i] = f]
                             /\ Claims(f, registered[i]) = Leads(i) - Weight(p) + Weight(q)
                             /\ Loops(f) = Loops(at[i]) - Looping(p) + Looping(q)
  <1>1. PICK f \in Layout : /\ at' = [at EXCEPT ![i] = f]
                            /\ f[p] = at[i][p] - 1 /\ f[q] = at[i][q] + 1
                            /\ \A x \in Places \ {p, q} : f[x] = at[i][x]
    BY Moved
  <1>2. at[i] \in Layout
    BY Here
  <1>3. Loops(f) = Loops(at[i]) - Looping(p) + Looping(q)
    BY <1>1, <1>2 DEF Loops, Looping, Places, Layout
  <1>4. Claims(f, registered[i]) = Leads(i) - Weight(p) + Weight(q)
    <2>1. f["take"] + f["build"] + f["register"]
             = at[i]["take"] + at[i]["build"] + at[i]["register"] - Weight(p) + Weight(q)
      BY <1>1, <1>2 DEF Weight, Places, Layout
    <2>2. CASE registered[i]
      BY <1>2, <2>1, <2>2 DEF Claims, Leads, Weight, Layout, Places
    <2>3. CASE ~registered[i]
      BY <1>2, <2>1, <2>3 DEF Claims, Leads, Weight, Layout, Places
    <2> QED BY <2>2, <2>3
  <1> QED BY <1>1, <1>3, <1>4

LEMMA Goes0 ==
    ASSUME LInv, NEW i \in Instances, NEW p \in Places, at[i][p] > 0, Leave(i, p)
    PROVE  \E f \in Layout : /\ at' = [at EXCEPT ![i] = f]
                             /\ Claims(f, registered[i]) = Leads(i) - Weight(p)
                             /\ Loops(f) = Loops(at[i]) - Looping(p)
  <1>1. PICK f \in Layout : /\ at' = [at EXCEPT ![i] = f]
                            /\ f[p] = at[i][p] - 1
                            /\ \A x \in Places \ {p} : f[x] = at[i][x]
    BY Left
  <1>2. at[i] \in Layout
    BY Here
  <1>3. Loops(f) = Loops(at[i]) - Looping(p)
    BY <1>1, <1>2 DEF Loops, Looping, Places, Layout
  <1>4. Claims(f, registered[i]) = Leads(i) - Weight(p)
    <2>1. f["take"] + f["build"] + f["register"]
             = at[i]["take"] + at[i]["build"] + at[i]["register"] - Weight(p)
      BY <1>1, <1>2 DEF Weight, Places, Layout
    <2>2. CASE registered[i]
      BY <1>2, <2>1, <2>2 DEF Claims, Leads, Weight, Layout, Places
    <2>3. CASE ~registered[i]
      BY <1>2, <2>1, <2>3 DEF Claims, Leads, Weight, Layout, Places
    <2> QED BY <2>2, <2>3
  <1> QED BY <1>1, <1>3, <1>4

LEMMA MoverKeeps ==
    ASSUME LInv, NEW i \in Instances, NEW p \in Places, NEW q \in Places, p # q, at[i][p] > 0,
           Move(i, p, q), Weight(q) <= Weight(p), Looping(q) <= Looping(p),
           UNCHANGED <<mode, row, lease, up, registered>>, NoTrouble
    PROVE  LInv'
  <1>1. PICK f \in Layout : /\ at' = [at EXCEPT ![i] = f]
                            /\ Claims(f, registered[i]) = Leads(i) - Weight(p) + Weight(q)
                            /\ Loops(f) = Loops(at[i]) - Looping(p) + Looping(q)
    BY Goes1
  <1>2. Leads(i) \in Nat /\ Loops(at[i]) \in Nat /\ up[i]
    BY Here, Alive DEF Loops, Layout, Places, LInv
  <1>3. Claims(f, registered[i]) <= Leads(i) /\ Loops(f) <= Loops(at[i])
    BY <1>1, <1>2 DEF Weight, Looping
  <1>4. /\ lease' \in Instances \cup {NoOne} /\ lease' = lease
        /\ row' \in {"none", "enabled", "disabled", "deleted"}
    BY Here
  <1> QED BY <1>1, <1>2, <1>3, <1>4, Goroutine

LEMMA LeaverKeeps ==
    ASSUME LInv, NEW i \in Instances, NEW p \in Places, at[i][p] > 0, Leave(i, p),
           row' \in {"none", "enabled", "disabled", "deleted"},
           UNCHANGED <<mode, lease, up, registered>>, NoTrouble
    PROVE  LInv'
  <1>1. PICK f \in Layout : /\ at' = [at EXCEPT ![i] = f]
                            /\ Claims(f, registered[i]) = Leads(i) - Weight(p)
                            /\ Loops(f) = Loops(at[i]) - Looping(p)
    BY Goes0
  <1>2. Leads(i) \in Nat /\ Loops(at[i]) \in Nat /\ up[i]
    BY Here, Alive DEF Loops, Layout, Places, LInv
  <1>3. Claims(f, registered[i]) <= Leads(i) /\ Loops(f) <= Loops(at[i])
    BY <1>1, <1>2 DEF Weight, Looping
  <1>4. lease' \in Instances \cup {NoOne} /\ lease' = lease
    BY Here
  <1> QED BY <1>1, <1>2, <1>3, <1>4, Goroutine

\* A step with a failure may claim what it likes.
LEMMA TroubledMove ==
    ASSUME LInv, NEW i \in Instances, NEW p \in Places, NEW q \in Places, p # q, at[i][p] > 0,
           Move(i, p, q), Looping(q) <= Looping(p), lease' \in Instances \cup {NoOne},
           UNCHANGED <<mode, row, up, registered>>, Trouble
    PROVE  LInv'
  <1>1. PICK f \in Layout : /\ at' = [at EXCEPT ![i] = f]
                            /\ Loops(f) = Loops(at[i]) - Looping(p) + Looping(q)
    BY Goes1
  <1>2. Loops(at[i]) \in Nat /\ up[i] /\ row' \in {"none", "enabled", "disabled", "deleted"}
    BY Here, Alive DEF Loops, Layout, Places, LInv
  <1>3. Loops(f) <= Loops(at[i])
    BY <1>1, <1>2 DEF Looping
  <1>4. ~NoTrouble /\ ~Call
    <2>1. troubles \in Nat
      BY LeaderAssumption DEF LInv, TypeOK
    <2> QED BY <2>1 DEF NoTrouble, counters, Call, Trouble
  <1> QED BY <1>1, <1>2, <1>3, <1>4, Goroutine

LEMMA TroubledLeave ==
    ASSUME LInv, NEW i \in Instances, NEW p \in Places, at[i][p] > 0, Leave(i, p),
           lease' \in Instances \cup {NoOne},
           UNCHANGED <<mode, row, up, registered>>, Trouble
    PROVE  LInv'
  <1>1. PICK f \in Layout : /\ at' = [at EXCEPT ![i] = f]
                            /\ Loops(f) = Loops(at[i]) - Looping(p)
    BY Goes0
  <1>2. Loops(at[i]) \in Nat /\ up[i] /\ row' \in {"none", "enabled", "disabled", "deleted"}
    BY Here, Alive DEF Loops, Layout, Places, LInv
  <1>3. Loops(f) <= Loops(at[i])
    BY <1>1, <1>2 DEF Looping
  <1>4. ~NoTrouble /\ ~Call
    <2>1. troubles \in Nat
      BY LeaderAssumption DEF LInv, TypeOK
    <2> QED BY <2>1 DEF NoTrouble, counters, Call, Trouble
  <1> QED BY <1>1, <1>2, <1>3, <1>4, Goroutine

-----------------------------------------------------------------------------
\* The lease is taken only when it is free.
LEMMA Taking ==
    ASSUME LInv, NEW i \in Instances, NEW p \in {"elect", "retry"}, NEW q \in {"build", "take"},
           at[i][p] > 0, Free, lease' = i, Move(i, p, q),
           UNCHANGED <<mode, row, up, registered, calls, troubles, crashes>>
    PROVE  LInv'
  <1>1. p \in Places /\ q \in Places /\ p # q /\ Weight(p) = 0 /\ Weight(q) = 1
        /\ Looping(p) = 0 /\ Looping(q) = 0
    BY DEF Places, Weight, Looping
  <1>2. PICK f \in Layout : /\ at' = [at EXCEPT ![i] = f]
                            /\ Claims(f, registered[i]) = Leads(i) - Weight(p) + Weight(q)
                            /\ Loops(f) = Loops(at[i]) - Looping(p) + Looping(q)
    BY <1>1, Goes1
  <1>3. Leads(i) \in Nat /\ Loops(at[i]) \in Nat /\ up[i]
    BY <1>1, Here, Alive DEF Loops, Layout, Places, LInv
  <1>4. Claims(f, registered[i]) <= Leads(i) + 1 /\ Loops(f) <= Loops(at[i])
    BY <1>1, <1>2, <1>3
  <1>5. /\ lease' \in Instances \cup {NoOne} /\ lease = NoOne /\ NoTrouble
        /\ row' \in {"none", "enabled", "disabled", "deleted"}
    BY Here DEF Free, NoTrouble, counters
  <1> QED BY <1>2, <1>3, <1>4, <1>5, Goroutine

LEMMA ElectKeeps ==
    ASSUME LInv, NEW i \in Instances, Elect(i)
    PROVE  LInv'
  <1>1. CASE Free
    <2>1. /\ at[i]["elect"] > 0 /\ lease' = i /\ Move(i, "elect", "build")
          /\ UNCHANGED <<mode, row, up, registered, calls, troubles, crashes>>
      BY <1>1 DEF Elect, counters
    <2> QED BY <1>1, <2>1, Taking
  <1>2. CASE ~Free
    <2>1. /\ at[i]["elect"] > 0 /\ Move(i, "elect", "retry") /\ NoTrouble
          /\ UNCHANGED <<mode, row, lease, up, registered>>
      BY <1>2 DEF Elect, NoTrouble
    <2>2. "elect" \in Places /\ "retry" \in Places /\ Weight("retry") <= Weight("elect")
          /\ Looping("retry") <= Looping("elect")
      BY DEF Places, Weight, Looping
    <2> QED BY <2>1, <2>2, MoverKeeps
  <1> QED BY <1>1, <1>2

\* What a replica builds, it registers: one claim for another.  What was
\* registered before is stopped.
LEMMA RegisterKeeps ==
    ASSUME LInv, NEW i \in Instances, Register(i)
    PROVE  LInv'
  <1> DEFINE g == Without(at[i], "register")
             f == [Halted(i, g) EXCEPT !["renew"] = 1]
  <1>1. /\ at[i] \in Layout /\ at[i]["register"] > 0 /\ up[i] /\ registered[i] \in BOOLEAN
    BY Here, Alive DEF Register, Places, LInv
  <1>2. g \in Layout /\ g["register"] = at[i]["register"] - 1
        /\ \A x \in Places \ {"register"} : g[x] = at[i][x]
    BY <1>1, Move1 DEF Places
  <1>3. Halted(i, g) \in Layout /\ Loops(Halted(i, g)) = 0
        /\ \A x \in {"take", "build", "register"} : Halted(i, g)[x] = g[x]
    BY <1>2, HaltedFact
  <1>4. Halted(i, g)["renew"] = 0 /\ Halted(i, g)["check"] = 0
    BY <1>2 DEF Halted, Layout, Places
  <1>5. f \in Layout /\ Loops(f) = 1
        /\ \A x \in {"take", "build", "register"} : f[x] = g[x]
    BY <1>3, <1>4 DEF Layout, Places, Loops
  <1>6. /\ registered[i] => Claims(f, TRUE) = Leads(i) - 1
        /\ ~registered[i] => Claims(f, TRUE) = Leads(i)
    BY <1>1, <1>2, <1>5 DEF Claims, Leads, Layout, Places
  <1>7. /\ at' = [at EXCEPT ![i] = f] /\ registered' = [registered EXCEPT ![i] = TRUE]
        /\ UNCHANGED <<mode, row, up, calls, troubles, crashes>>
        /\ (lease' = lease \/ (lease' = Released(i) /\ registered[i]))
    BY DEF Register, counters
  <1>8. up' = [up EXCEPT ![i] = TRUE] /\ row' \in {"none", "enabled", "disabled", "deleted"}
        /\ calls' \in 0..MaxCalls /\ troubles' \in 0..MaxTroubles /\ crashes' \in 0..MaxCrashes
    BY <1>1, <1>7, Here
  <1>9. lease' \in Instances \cup {NoOne} /\ (lease' # lease => lease \in {i, NoOne})
    BY <1>7, Here DEF Released
  <1>10. ASSUME troubles' = 0
         PROVE  troubles = 0 /\ Claims(f, TRUE) <= 1 /\ (Claims(f, TRUE) = 1 => lease' = i)
    <2>1. troubles = 0 /\ Leads(i) \in Nat /\ Leads(i) <= 1 /\ (Leads(i) = 1 => lease = i)
      BY <1>7, <1>10, Here
    <2>2. CASE registered[i]
      <3>1. Claims(f, TRUE) = Leads(i) - 1
        BY <1>6, <2>2
      <3>2. \A l \in Nat : l <= 1 => l - 1 <= 1 /\ l - 1 # 1
        OBVIOUS
      <3>3. Leads(i) - 1 <= 1 /\ Leads(i) - 1 # 1
        BY <2>1, <3>2
      <3> HIDE DEF f
      <3> QED BY <2>1, <3>1, <3>3
    <2>3. CASE ~registered[i]
      <3>2. lease' = lease
        BY <1>7, <2>3
      <3> HIDE DEF f
      <3>3. Claims(f, TRUE) = Leads(i)
        BY <1>6, <2>3
      <3> QED BY <2>1, <3>2, <3>3
    <2> QED BY <2>2, <2>3
  <1> HIDE DEF f
  <1>11. Loops(f) <= (IF TRUE THEN 1 ELSE 0)
    BY <1>5
  <1> QED BY <1>5, <1>7, <1>8, <1>9, <1>10, <1>11, OneReplica

\* A lease goes back with the claim that held it.
LEMMA TakeOverKeeps ==
    ASSUME LInv, NEW i \in Instances, TakeOver(i)
    PROVE  LInv'
  <1>0. /\ "take" \in Places /\ "build" \in Places /\ Weight("take") = 1 /\ Weight("build") = 1
        /\ Looping("take") = 0 /\ Looping("build") = 0
    BY DEF Places, Weight, Looping
  <1>1. CASE row = "enabled"
    <2>1. /\ at[i]["take"] > 0 /\ Move(i, "take", "build") /\ NoTrouble
          /\ UNCHANGED <<mode, row, lease, up, registered>>
      BY <1>1 DEF TakeOver, NoTrouble
    <2>2. Weight("build") <= Weight("take") /\ Looping("build") <= Looping("take")
      BY <1>0
    <2> QED BY <1>0, <2>1, <2>2, MoverKeeps
  <1>2. CASE row # "enabled"
    <2>1. /\ at[i]["take"] > 0 /\ Leave(i, "take") /\ Releases(i)
          /\ UNCHANGED <<mode, row, up, registered>>
      BY <1>2 DEF TakeOver
    <2>2. PICK f \in Layout : /\ at' = [at EXCEPT ![i] = f]
                              /\ Claims(f, registered[i]) = Leads(i) - Weight("take")
                              /\ Loops(f) = Loops(at[i]) - Looping("take")
      BY <1>0, <2>1, Goes0
    <2>3. Leads(i) \in Nat /\ Loops(at[i]) \in Nat /\ up[i]
      BY <1>0, <2>1, Here, Alive DEF Loops, Layout, Places, LInv
    <2>4. Claims(f, registered[i]) < Leads(i) /\ Claims(f, registered[i]) <= Leads(i)
          /\ Loops(f) <= Loops(at[i])
      BY <1>0, <2>2, <2>3
    <2>5. /\ lease' \in Instances \cup {NoOne} /\ (lease' # lease => lease = i)
          /\ row' \in {"none", "enabled", "disabled", "deleted"} /\ (Trouble \/ NoTrouble)
      BY <2>1, Here DEF Releases, Released
    <2> QED BY <2>1, <2>2, <2>3, <2>4, <2>5, Goroutine
  <1> QED BY <1>1, <1>2

LEMMA GoesKeep ==
    ASSUME LInv, NEW i \in Instances, Goes(i)
    PROVE  LInv'
  <1>1. CASE Halt(i) \/ Drop(i) \/ StopExisting(i) \/ StepDown(i)
    BY <1>1, StoppersKeep
  <1>2. CASE Erase(i)
    <2>1. "erase" \in Places /\ row' \in {"none", "enabled", "disabled", "deleted"}
          /\ UNCHANGED <<mode, lease, up, registered>> /\ NoTrouble
          /\ at[i]["erase"] > 0 /\ Leave(i, "erase")
      BY <1>2 DEF Erase, Places, NoTrouble
    <2> QED BY <2>1, LeaverKeeps
  <1>3. CASE Elect(i)
    BY <1>3, ElectKeeps
  <1>4. CASE Connect(i)
    <2>1. /\ "build" \in Places /\ "register" \in Places /\ Weight("register") <= Weight("build")
          /\ Looping("register") <= Looping("build")
      BY DEF Places, Weight, Looping
    <2>2. /\ UNCHANGED <<mode, row, lease, up, registered>> /\ NoTrouble
          /\ at[i]["build"] > 0 /\ Move(i, "build", "register")
      BY <1>4 DEF Connect, NoTrouble
    <2> QED BY <2>1, <2>2, MoverKeeps
  <1>5. CASE Register(i)
    BY <1>5, RegisterKeeps
  <1>6. CASE RetryEnds(i)
    <2>1. /\ "retry" \in Places /\ row' \in {"none", "enabled", "disabled", "deleted"}
          /\ UNCHANGED <<mode, lease, up, registered>> /\ NoTrouble
          /\ at[i]["retry"] > 0 /\ Leave(i, "retry")
      BY <1>6, Here DEF RetryEnds, NoTrouble, Places
    <2> QED BY <2>1, LeaverKeeps
  <1>7. CASE RetryWins(i)
    <2>1. /\ at[i]["retry"] > 0 /\ lease' = i /\ Move(i, "retry", "take") /\ Free
          /\ UNCHANGED <<mode, row, up, registered, calls, troubles, crashes>>
      BY <1>7 DEF RetryWins, counters
    <2> QED BY <2>1, Taking
  <1>8. CASE TakeOver(i)
    BY <1>8, TakeOverKeeps
  <1>9. CASE CancelledEnds(i)
    <2>1. PICK p \in {"cancelled", "oldcheck"} : at[i][p] > 0 /\ Leave(i, p)
      BY <1>9 DEF CancelledEnds
    <2>2. /\ p \in Places /\ row' \in {"none", "enabled", "disabled", "deleted"}
          /\ UNCHANGED <<mode, lease, up, registered>> /\ NoTrouble
      BY <1>9, <2>1, Here DEF CancelledEnds, NoTrouble, Places
    <2> QED BY <2>1, <2>2, LeaverKeeps
  <1>10. CASE Renew(i) \/ Check(i)
    <2>0. /\ {"renew", "check", "lost"} \subseteq Places
          /\ \A q \in {"renew", "check", "lost"} : Weight(q) = 0
          /\ Looping("renew") = 1 /\ Looping("check") = 1 /\ Looping("lost") = 0
      BY DEF Places, Weight, Looping
    <2>1. PICK p \in {"renew", "check"}, q \in {"renew", "check", "lost"} :
             p # q /\ Step(i, p, q) /\ (NoTrouble \/ Trouble)
      BY <1>10 DEF Renew, Check
    <2>2. /\ p \in Places /\ q \in Places /\ Weight(q) <= Weight(p) /\ Looping(q) <= Looping(p)
      BY <2>0
    <2>3. /\ at[i][p] > 0 /\ Move(i, p, q) /\ UNCHANGED <<mode, row, lease, up, registered>>
          /\ lease' \in Instances \cup {NoOne}
      BY <2>1, Here DEF Step
    <2> QED BY <2>1, <2>2, <2>3, MoverKeeps, TroubledMove
  <1> QED BY <1>1, <1>2, <1>3, <1>4, <1>5, <1>6, <1>7, <1>8, <1>9, <1>10 DEF Goes

\* Failures of a call and the death of the process.
LEMMA CrashKeeps ==
    ASSUME LInv, NEW i \in Instances, Crash(i)
    PROVE  LInv'
  <1>1. /\ at'[i] = Nowhere /\ registered'[i] = FALSE /\ up'[i] = FALSE
        /\ \A j \in Instances \ {i} : at'[j] = at[j] /\ registered'[j] = registered[j] /\ up'[j] = up[j]
    BY DEF Crash, LInv, TypeOK
  <1>2. Nowhere \in Layout /\ Nowhere' = Nowhere /\ Loops(Nowhere) = 0 /\ Claims(Nowhere, FALSE) = 0
    BY DEF Nowhere, Layout, Loops, Claims, Places
  <1>3. TypeOK'
    <2>1. /\ at' \in [Instances -> Layout] /\ registered' \in [Instances -> BOOLEAN]
          /\ up' \in [Instances -> BOOLEAN]
      BY <1>2 DEF Crash, LInv, TypeOK, Layout
    <2>2. crashes' \in 0..MaxCrashes
      BY LeaderAssumption DEF Crash, LInv, TypeOK
    <2>3. ASSUME NEW j \in Instances
          PROVE  /\ at'[j]["renew"] + at'[j]["check"] <= (IF registered'[j] THEN 1 ELSE 0)
                 /\ ~up'[j] => at'[j] = Nowhere' /\ ~registered'[j]
      <3>1. CASE j = i
        BY <1>1, <1>2, <3>1 DEF Loops
      <3>2. CASE j # i
        BY <1>1, <1>2, <3>2 DEF LInv, TypeOK
      <3> QED BY <3>1, <3>2
    <2> QED BY <2>1, <2>2, <2>3 DEF Crash, LInv, TypeOK, Layout
  <1>4. Exclusive'
    <2> SUFFICES ASSUME troubles' = 0, NEW j \in Instances
                 PROVE  Leads(j)' <= 1 /\ (Leads(j)' = 1 => lease' = j)
      BY DEF Exclusive
    <2>1. troubles = 0 /\ lease' = lease
      BY DEF Crash
    <2>2. CASE j = i
      <3>1. Leads(j)' = 0
        BY <1>1, <1>2, <2>2 DEF Leads
      <3> QED BY <3>1
    <2>3. CASE j # i
      <3>1. Leads(j)' = Leads(j)
        BY <1>1, <2>3 DEF Leads
      <3> QED BY <2>1, <3>1 DEF LInv, Exclusive
    <2> QED BY <2>2, <2>3
  <1> QED BY <1>3, <1>4 DEF LInv

LEMMA MishapsKeep ==
    ASSUME LInv, NEW i \in Instances, Mishaps(i)
    PROVE  LInv'
  <1>0. /\ {"elect", "build", "retry", "take", "cancelled", "oldcheck", "lost"} \subseteq Places
        /\ \A q \in {"elect", "build", "retry", "take", "cancelled", "oldcheck", "lost"} : Looping(q) = 0
        /\ \A q \in {"elect", "retry", "cancelled", "oldcheck", "lost"} : Weight(q) = 0
    BY DEF Places, Looping, Weight
  <1>1. lease \in Instances \cup {NoOne} /\ Released(i) \in Instances \cup {NoOne}
    BY Here DEF Released
  <1>2. ASSUME NEW p \in {"elect", "retry"}, NEW q \in {"build", "take"}, Assume(i, p, q)
        PROVE  LInv'
    <2>1. /\ p \in Places /\ q \in Places /\ p # q /\ Looping(q) <= Looping(p)
      BY <1>0
    <2>2. /\ at[i][p] > 0 /\ Move(i, p, q) /\ Trouble /\ UNCHANGED <<mode, row, up, registered>>
          /\ lease' \in Instances \cup {NoOne}
      BY <1>1, <1>2 DEF Assume
    <2> QED BY <2>1, <2>2, TroubledMove
  <1>3. CASE ElectBlindly(i)
    BY <1>2, <1>3 DEF ElectBlindly
  <1>4. CASE RetryBlindly(i)
    BY <1>2, <1>4 DEF RetryBlindly
  <1>5. CASE ConnectFails(i)
    <2>1. /\ at[i]["build"] > 0 /\ Leave(i, "build") /\ Trouble /\ UNCHANGED <<mode, row, up, registered>>
          /\ lease' \in Instances \cup {NoOne} /\ "build" \in Places
      BY <1>0, <1>1, <1>5 DEF ConnectFails
    <2> QED BY <2>1, TroubledLeave
  <1>6. CASE TakeOverFails(i)
    <2>1. /\ at[i]["take"] > 0 /\ Move(i, "take", "retry") /\ Trouble
          /\ UNCHANGED <<mode, row, up, registered>>
          /\ lease' \in Instances \cup {NoOne} /\ "take" \in Places /\ "retry" \in Places
          /\ Looping("retry") <= Looping("take")
      BY <1>0, <1>1, <1>6 DEF TakeOverFails
    <2> QED BY <2>1, TroubledMove
  <1>7. CASE CancelledTicks(i)
    <2>1. PICK p \in {"cancelled", "oldcheck"}, q \in {"oldcheck", "lost"} : p # q /\ Step(i, p, q)
      BY <1>7 DEF CancelledTicks
    <2>2. /\ p \in Places /\ q \in Places /\ Weight(q) <= Weight(p) /\ Looping(q) <= Looping(p)
      BY <1>0
    <2>3. /\ at[i][p] > 0 /\ Move(i, p, q) /\ NoTrouble /\ UNCHANGED <<mode, row, lease, up, registered>>
      BY <1>7, <2>1 DEF Step, CancelledTicks
    <2> QED BY <2>1, <2>2, <2>3, MoverKeeps
  <1>8. CASE Crash(i)
    BY <1>8, CrashKeeps
  <1> QED BY <1>3, <1>4, <1>5, <1>6, <1>7, <1>8 DEF Mishaps

-----------------------------------------------------------------------------
\* The TTL takes the lease from a replica that does not lead, or that paused.
LEMMA TimeKeeps ==
    ASSUME LInv, Expire \/ Lapse
    PROVE  LInv'
  <1>1. /\ lease' = NoOne /\ lease \in Instances /\ UNCHANGED <<mode, row, up, registered, at>>
        /\ (NoTrouble \/ Trouble)
    BY DEF Expire, Lapse, LInv, TypeOK, NoTrouble
  <1>2. /\ calls' \in 0..MaxCalls /\ troubles' \in 0..MaxTroubles /\ crashes' \in 0..MaxCrashes
        /\ troubles' = 0 => troubles = 0
        /\ Trouble => troubles' # 0
    BY <1>1, Counted
  <1>3. TypeOK'
    <2>1. Nowhere' = Nowhere
      BY DEF Nowhere
    <2> QED BY <1>1, <1>2, <2>1 DEF LInv, TypeOK
  <1>4. Exclusive'
    <2> SUFFICES ASSUME troubles' = 0, NEW j \in Instances
                 PROVE  Leads(j)' = 0
      <3>1. 0 <= 1 /\ 0 # 1
        OBVIOUS
      <3> QED BY <3>1 DEF Exclusive
    <2>1. troubles = 0 /\ ~Keeps(lease)
      BY <1>1, <1>2 DEF Expire, Lapse
    <2>2. Leads(j)' = Leads(j) /\ Leads(j) \in Nat /\ Leads(j) <= 1 /\ (Leads(j) = 1 => lease = j)
      BY <1>1, <2>1, Here DEF Leads
    <2>3. CASE j = lease
      <3>1. registered[j] = FALSE /\ at[j] \in Layout
        BY <2>1, <2>3, Here DEF Keeps
      <3>2. at[j]["take"] = 0 /\ at[j]["build"] = 0 /\ at[j]["register"] = 0
        BY <2>1, <2>3, <3>1 DEF Keeps, Layout, Places
      <3>3. Leads(j) = 0
        BY <3>1, <3>2 DEF Leads, Claims
      <3> QED BY <2>2, <3>3
    <2>4. CASE j # lease
      BY <2>2, <2>4
    <2> QED BY <2>3, <2>4
  <1> QED BY <1>3, <1>4 DEF LInv

LEMMA LeaderInit == Init => LInv
  <1> SUFFICES ASSUME Init PROVE LInv
    OBVIOUS
  <1> DEFINE n == IF row = "enabled" THEN 1 ELSE 0
             f == [Nowhere EXCEPT !["start"] = n]
  <1>1. /\ f \in Layout /\ f["renew"] + f["check"] = 0 /\ Claims(f, FALSE) = 0
    BY DEF Nowhere, Layout, Places, Claims
  <1>2. at = [i \in Instances |-> f] /\ \A i \in Instances : at[i] = f
    BY DEF Init
  <1>3. TypeOK
    <2>1. at \in [Instances -> Layout]
      BY <1>1, <1>2
    <2>2. \A i \in Instances : /\ at[i]["renew"] + at[i]["check"] <= (IF registered[i] THEN 1 ELSE 0)
                               /\ up[i] = TRUE
      BY <1>1, <1>2 DEF Init
    <2>3. calls \in 0..MaxCalls /\ troubles \in 0..MaxTroubles /\ crashes \in 0..MaxCrashes
      BY LeaderAssumption DEF Init
    <2> QED BY <2>1, <2>2, <2>3 DEF Init, TypeOK, Layout
  <1>4. Exclusive
    <2>1. \A i \in Instances : registered[i] = FALSE
      BY DEF Init
    <2> HIDE DEF f
    <2>2. \A i \in Instances : Leads(i) = 0
      BY <1>1, <1>2, <2>1 DEF Leads
    <2>3. 0 <= 1 /\ 0 # 1
      OBVIOUS
    <2> QED BY <2>2, <2>3 DEF Exclusive
  <1> QED BY <1>3, <1>4 DEF LInv

LEMMA LeaderStep == LInv /\ [Next]_vars => LInv'
  <1> SUFFICES ASSUME LInv, [Next]_vars PROVE LInv'
    OBVIOUS
  <1>1. CASE UNCHANGED vars
    BY <1>1 DEF vars, LInv, TypeOK, Exclusive, Leads, Nowhere
  <1>2. CASE Next
    BY <1>2, ClientsKeep, GoesKeep, MishapsKeep, TimeKeeps DEF Next
  <1> QED BY <1>1, <1>2

THEOREM LeaderInvariant == Spec => []LInv
  BY LeaderInit, LeaderStep, PTL DEF Spec

\* Every state the leader election reaches is well typed: a replica has one
\* renew loop per registered adapter, and none after its death.
THEOREM LeaderTypeCorrect == Spec => []TypeOK
  <1>1. LInv => TypeOK
    BY DEF LInv
  <1> QED BY <1>1, LeaderInvariant, PTL

\* As long as nothing failed, one replica at most has a connection, and one
\* connection: whoever connects holds the lease, from the retry loop's SETNX
\* or the election to the registered adapter.
THEOREM LeaseIsExclusive == Spec => []OneConnection
  <1>1. LInv => OneConnection
    <2> SUFFICES ASSUME LInv, troubles = 0
                 PROVE  /\ \A i \in Instances : Connections(i) <= 1
                        /\ \A i, j \in Instances : Connected(i) /\ Connected(j) => i = j
      BY DEF OneConnection
    <2>1. ASSUME NEW i \in Instances
          PROVE  Connections(i) <= 1 /\ (Connected(i) => lease = i)
      <3>1. Connections(i) <= Leads(i) /\ Connections(i) \in Nat
        BY <2>1, Here DEF Connections, Leads, Claims, Layout, Places
      <3>2. Leads(i) \in Nat /\ Leads(i) <= 1 /\ (Leads(i) = 1 => lease = i)
        BY <2>1, Here
      <3> QED BY <3>1, <3>2 DEF Connected
    <2> QED BY <2>1
  <1> QED BY <1>1, LeaderInvariant, PTL
=============================================================================
