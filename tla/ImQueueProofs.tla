--------------------------- MODULE ImQueueProofs ---------------------------
(***************************************************************************)
(* What ImQueue guarantees for any replicas, users, limits and numbers of  *)
(* requests, commands and troubles.  Two facts carry both properties: what *)
(* is in a line is queued there once (LineInv), and the counters in Redis  *)
(* are never less than what they count (LimitsInv).                        *)
(***************************************************************************)
EXTENDS ImQueue, FiniteSetTheorems, SequenceTheorems, WellFoundedInduction, TLAPS

CmdRec == [pc : {"idle", "remove", "inflight", "lookup", "event", "mark"},
           at : Instances \cup {None}, user : Users \cup {None}, names : Requests \cup {None}]

Typed ==
    /\ stage \in [Requests -> Stages]
    /\ home \in [Requests -> Instances \cup {None}]
    /\ \A r \in Requests : stage[r] \in Counted => home[r] \in Instances
    /\ line \in [Instances -> Seq(Requests)]
    /\ userCount \in [Users -> Int] /\ gate \in Int
    /\ inflight \in [Instances -> [Users -> Entries]]
    /\ mapping \in [Users -> Requests \cup {None}]
    /\ cmd \in CmdRec
    /\ cmd.pc # "idle" => cmd.at \in Instances /\ cmd.user \in Users
    /\ cmd.pc = "event" => cmd.names \in Requests
    /\ commands \in Nat /\ troubles \in Nat /\ crashes \in Nat

LineInv ==
    \A i \in Instances : \A k \in 1..Len(line[i]) :
        /\ stage[line[i][k]] = "queued" /\ home[line[i][k]] = i
        /\ \A l \in 1..Len(line[i]) : l # k => line[i][l] # line[i][k]

Admitted(u) == {r \in Mine(u) : stage[r] # "over"}

GateInv ==
    /\ Cardinality(In(Running)) <= gate
    /\ Cardinality(In(Running)) <= GlobalMax
    /\ crashes = 0 => gate = Cardinality(In(Running))

UserInv(u) ==
    /\ Cardinality(Mine(u)) <= userCount[u]
    /\ Cardinality(Admitted(u)) <= MaxPerUser
    /\ crashes = 0 => userCount[u] = Cardinality(Mine(u))

LimitsInv == troubles = 0 => GateInv /\ \A u \in Users : UserInv(u)

EntryInv ==
    \A i \in Instances, u \in Users :
        inflight[i][u] # NoEntry => \E r \in In(Running) : home[r] = i /\ From[r] = u

MappingInv ==
    \A u \in Users : mapping[u] \in Requests =>
        /\ From[mapping[u]] = u
        /\ \/ stage[mapping[u]] \in {"answer", "clear"}
           \/ mapping[u] \in cancelled \cup stopEvents
           \/ crashes > 0

QueueInv == Typed /\ LineInv /\ LimitsInv /\ EntryInv /\ MappingInv

-----------------------------------------------------------------------------
\* One request moves to another stage.
Moves(r, to) == stage' = [stage EXCEPT ![r] = to]
Homes(r) == \A q \in Requests : q # r => home'[q] = home[q]

LEMMA StagesOf ==
  /\ Running \subseteq Held /\ Held \subseteq Counted /\ Counted \subseteq Stages
  /\ "queued" \in Counted /\ "counted" \in Counted /\ "over" \in Counted /\ "gate" \in Counted
  /\ "queued" \notin Running /\ "counted" \notin Running /\ "over" \notin Running
  /\ "gate" \notin Running /\ "new" \notin Running /\ "ended" \notin Running
  /\ "new" \notin Counted /\ "ended" \notin Counted /\ {"new", "ended"} \subseteq Stages
  /\ {"check", "create", "answer", "clear", "close"} \subseteq Running
BY DEF Running, Held, Counted, Stages

LEMMA InitInv == Init => QueueInv
<1> SUFFICES ASSUME Init PROVE QueueInv
  OBVIOUS
<1>1. Typed
  BY StagesOf, QueueAssumption
     DEF Init, Typed, CmdRec, Idle, Entries, NoEntry
<1>2. In(Running) = {} /\ \A u \in Users : Mine(u) = {} /\ Admitted(u) = {}
  BY StagesOf DEF Init, In, Mine, Admitted
<1>3. LimitsInv
  <2>1. Cardinality({}) = 0
    BY FS_EmptySet
  <2>2. GlobalMax \in Nat \ {0} /\ MaxPerUser \in Nat \ {0}
    BY QueueAssumption
  <2>3. GateInv
    BY <1>2, <2>1, <2>2 DEF Init, GateInv
  <2>4. ASSUME NEW u \in Users PROVE UserInv(u)
    <3>1. userCount[u] = 0 /\ Mine(u) = {} /\ Admitted(u) = {}
      BY <1>2 DEF Init
    <3> QED BY <2>1, <2>2, <3>1 DEF UserInv
  <2> QED BY <2>3, <2>4 DEF LimitsInv
<1>4. LineInv
  BY DEF Init, LineInv
<1>5. EntryInv /\ MappingInv
  BY QueueAssumption DEF Init, EntryInv, MappingInv, Requests
<1> QED BY <1>1, <1>3, <1>4, <1>5 DEF QueueInv

-----------------------------------------------------------------------------
\* The lines.

LEMMA LineKept ==
  ASSUME Typed, LineInv, line' = line,
         \A q \in Requests : stage[q] = "queued" => stage'[q] = "queued" /\ home'[q] = home[q]
  PROVE  LineInv'
<1>1. \A i \in Instances : \A k \in 1..Len(line[i]) : line[i][k] \in Requests
  BY DEF Typed
<1> QED BY <1>1 DEF LineInv

\* A request leaves its line: the first for a worker, any of them for /stop.
LEMMA TakenOut ==
  ASSUME Typed, LineInv, NEW i \in Instances, NEW k \in 1..Len(line[i]),
         NEW s \in Seq(Requests), line' = [line EXCEPT ![i] = s],
         Len(s) = Len(line[i]) - 1,
         \A j \in 1..Len(s) : s[j] = IF j < k THEN line[i][j] ELSE line[i][j + 1],
         \A q \in Requests : q # line[i][k] => stage'[q] = stage[q] /\ home'[q] = home[q]
  PROVE  LineInv'
<1>1. /\ line[i] \in Seq(Requests) /\ Len(line[i]) \in Nat /\ Len(s) \in Nat
      /\ \A h \in Instances : \A j \in 1..Len(line[h]) : line[h][j] \in Requests
      /\ \A h \in Instances : line'[h] = IF h = i THEN s ELSE line[h]
  BY DEF Typed
<1> DEFINE at(j) == IF j < k THEN j ELSE j + 1
<1>2. \A j \in 1..Len(s) : at(j) \in 1..Len(line[i]) /\ at(j) # k /\ s[j] = line[i][at(j)]
  BY <1>1
<1>3. \A j, l \in 1..Len(s) : j # l => at(j) # at(l)
  BY <1>1
<1> HIDE DEF at
<1>4. ASSUME NEW j \in 1..Len(s)
      PROVE  /\ stage'[s[j]] = "queued" /\ home'[s[j]] = i
             /\ \A l \in 1..Len(s) : l # j => s[l] # s[j]
  <2>1. at(j) \in 1..Len(line[i]) /\ at(j) # k /\ s[j] = line[i][at(j)]
    BY <1>2
  <2>2. line[i][at(j)] # line[i][k] /\ line[i][at(j)] \in Requests
        /\ stage[line[i][at(j)]] = "queued" /\ home[line[i][at(j)]] = i
    BY <1>1, <2>1 DEF LineInv
  <2>3. ASSUME NEW l \in 1..Len(s), l # j
        PROVE  s[l] # s[j]
    <3>1. at(l) \in 1..Len(line[i]) /\ s[l] = line[i][at(l)] /\ at(l) # at(j)
      BY <1>2, <1>3, <2>3
    <3> QED BY <2>1, <3>1 DEF LineInv
  <2> QED BY <2>1, <2>2, <2>3
<1>5. ASSUME NEW h \in Instances, h # i, NEW j \in 1..Len(line[h])
      PROVE  stage'[line[h][j]] = "queued" /\ home'[line[h][j]] = h
  <2>1. line[h][j] # line[i][k] /\ line[h][j] \in Requests
    BY <1>1, <1>5 DEF LineInv
  <2> QED BY <2>1 DEF LineInv
<1>6. ASSUME NEW h \in Instances, NEW j \in 1..Len(line'[h])
      PROVE  /\ stage'[line'[h][j]] = "queued" /\ home'[line'[h][j]] = h
             /\ \A l \in 1..Len(line'[h]) : l # j => line'[h][l] # line'[h][j]
  <2>1. CASE h = i
    <3>1. line'[h] = s
      BY <1>1, <2>1
    <3> QED BY <1>4, <2>1, <3>1
  <2>2. CASE h # i
    <3>1. line'[h] = line[h]
      BY <1>1, <2>2
    <3>2. \A l \in 1..Len(line[h]) : l # j => line[h][l] # line[h][j]
      BY <3>1 DEF LineInv
    <3> QED BY <1>5, <2>2, <3>1, <3>2
  <2> QED BY <2>1, <2>2
<1> QED BY <1>6 DEF LineInv

LEMMA HeadTaken ==
  ASSUME Typed, LineInv, NEW i \in Instances, line[i] # <<>>,
         line' = [line EXCEPT ![i] = Tail(line[i])],
         \A q \in Requests : q # Head(line[i]) => stage'[q] = stage[q] /\ home'[q] = home[q]
  PROVE  LineInv' /\ Head(line[i]) \in Requests /\ stage[Head(line[i])] = "queued"
         /\ home[Head(line[i])] = i /\ line' \in [Instances -> Seq(Requests)]
<1>1. line[i] \in Seq(Requests)
  BY DEF Typed
<1>2. /\ Len(line[i]) \in Nat /\ Len(line[i]) >= 1 /\ Head(line[i]) = line[i][1]
      /\ Tail(line[i]) \in Seq(Requests) /\ Len(Tail(line[i])) = Len(line[i]) - 1
      /\ \A j \in 1..Len(Tail(line[i])) : Tail(line[i])[j] = line[i][j + 1]
  BY <1>1, HeadTailProperties, EmptySeq
<1>3. LineInv'
  <2> DEFINE s == Tail(line[i])
  <2>1. \A j \in 1..Len(s) : s[j] = IF j < 1 THEN line[i][j] ELSE line[i][j + 1]
    BY <1>2
  <2>2. 1 \in 1..Len(line[i]) /\ s \in Seq(Requests) /\ line' = [line EXCEPT ![i] = s]
        /\ Len(s) = Len(line[i]) - 1
    BY <1>2
  <2>3. \A q \in Requests : q # line[i][1] => stage'[q] = stage[q] /\ home'[q] = home[q]
    BY <1>2
  <2> HIDE DEF s
  <2> QED BY ONLY Typed, LineInv, i \in Instances, <2>1, <2>2, <2>3, TakenOut
<1>4. line' \in [Instances -> Seq(Requests)]
  BY <1>2 DEF Typed
<1>5. line[i][1] \in Requests /\ 1 \in 1..Len(line[i])
  BY <1>1, <1>2
<1>6. stage[line[i][1]] = "queued" /\ home[line[i][1]] = i
  BY <1>5 DEF LineInv
<1>7. Head(line[i]) = line[i][1]
  BY <1>2
<1> QED BY <1>3, <1>4, <1>5, <1>6, <1>7

\* Every set of positions has a first one: of the sets {y \in S : y < x},
\* one is smallest.
LEMMA HasFirst ==
  ASSUME NEW n \in Nat, NEW S \in SUBSET (1..n), S # {}
  PROVE  \E x \in S : \A y \in S : x <= y
<1> DEFINE Below(x) == {y \in S : y < x}
           T == {Below(x) : x \in S}
<1>1. IsWellFoundedOn(StrictSubsetOrdering(1..n), SUBSET (1..n))
  <2>1. IsFiniteSet(1..n)
    BY FS_Interval
  <2> QED BY <2>1, FS_StrictSubsetOrderingWellFounded, FS_FiniteSubsetsOfFinite
<1>2. T \subseteq SUBSET (1..n) /\ T # {}
  OBVIOUS
<1>3. PICK U \in T : \A V \in T : ~ (<<V, U>> \in StrictSubsetOrdering(1..n))
  <2> HIDE DEF T
  <2> QED BY <1>1, <1>2, WFMin
<1>4. PICK x \in S : U = Below(x)
  OBVIOUS
<1>5. ASSUME NEW y \in S, ~(x <= y)
      PROVE  FALSE
  <2>1. y < x /\ \A z \in S : z \in Nat
    BY <1>5
  <2>2. Below(y) \subseteq Below(x) /\ y \in Below(x) /\ y \notin Below(y)
    <3> HIDE DEF T
    <3>1. (\A z \in S : z < y => z < x) /\ ~(y < y)
      BY <2>1
    <3> QED BY <2>1, <3>1
  <2>3. <<Below(y), U>> \in StrictSubsetOrdering(1..n)
    BY <2>2, <1>4 DEF StrictSubsetOrdering
  <2> QED BY <2>3, <1>3
<1> QED BY <1>5

\* A sequence without its k-th element, as Remove builds it.
LEMMA CutOut ==
  ASSUME NEW S, NEW q \in Seq(S), NEW k \in 1..Len(q)
  PROVE  LET s == SubSeq(q, 1, k - 1) \o SubSeq(q, k + 1, Len(q)) IN
         /\ s \in Seq(S) /\ Len(s) = Len(q) - 1
         /\ \A j \in 1..Len(s) : s[j] = IF j < k THEN q[j] ELSE q[j + 1]
<1> DEFINE a == SubSeq(q, 1, k - 1)
           b == SubSeq(q, k + 1, Len(q))
<1>1. Len(q) \in Nat /\ k \in Int
  OBVIOUS
<1>2. a \in Seq(S) /\ Len(a) = k - 1 /\ \A j \in 1..(k - 1) : a[j] = q[j]
  BY <1>1, SubSeqProperties
<1>3. b \in Seq(S) /\ Len(b) = Len(q) - k /\ \A j \in 1..(Len(q) - k) : b[j] = q[k + j]
  BY <1>1, SubSeqProperties
<1> HIDE DEF a, b
<1>4. /\ a \o b \in Seq(S) /\ Len(a \o b) = Len(a) + Len(b)
      /\ \A j \in 1..(Len(a) + Len(b)) : (a \o b)[j] = IF j <= Len(a) THEN a[j] ELSE b[j - Len(a)]
  BY <1>2, <1>3, ConcatProperties
<1>5. ASSUME NEW j \in 1..(Len(q) - 1)
      PROVE  (a \o b)[j] = IF j < k THEN q[j] ELSE q[j + 1]
  <2>1. CASE j < k
    BY <1>1, <1>2, <1>3, <1>4, <2>1
  <2>2. CASE ~(j < k)
    <3>1. j - (k - 1) \in 1..(Len(q) - k) /\ k + (j - (k - 1)) = j + 1 /\ ~(j <= k - 1)
      BY <1>1, <2>2
    <3> QED BY <1>1, <1>2, <1>3, <1>4, <2>2, <3>1
  <2> QED BY <2>1, <2>2
<1>6. a \o b \in Seq(S) /\ Len(a \o b) = Len(q) - 1
  BY <1>1, <1>2, <1>3, <1>4
<1> QED BY <1>5, <1>6 DEF a, b

LEMMA Removed ==
  ASSUME Typed, LineInv, Remove
  PROVE  LineInv' /\ Typed'
<1> DEFINE i == cmd.at
           q == line[i]
           mine == {k \in 1..Len(q) : From[q[k]] = cmd.user}
<1>1. /\ i \in Instances /\ cmd.user \in Users /\ q \in Seq(Requests) /\ cmd \in CmdRec
      /\ Len(q) \in Nat
  <2>1. cmd.pc = "remove"
    BY DEF Remove
  <2>2. cmd.at \in Instances /\ cmd.user \in Users /\ cmd \in CmdRec
    BY <2>1 DEF Typed
  <2> QED BY <2>2 DEF Typed
<1>2. UNCHANGED <<gate, inflight, mapping, marker, stopEvents, commands, troubles, crashes>>
  BY DEF Remove, counters
<1>3. \A pc \in {"inflight", "lookup"} : [cmd EXCEPT !.pc = pc, !.names = None] \in CmdRec
  BY <1>1 DEF CmdRec
<1>4. CASE mine = {}
  <2>1. /\ cmd' = [cmd EXCEPT !.pc = "inflight", !.names = None]
        /\ UNCHANGED <<stage, home, line, userCount>>
    BY <1>4 DEF Remove, Then
  <2>2. cmd' \in CmdRec /\ cmd'.pc = "inflight" /\ cmd'.at = cmd.at /\ cmd'.user = cmd.user
    BY <1>1, <1>3, <2>1 DEF CmdRec
  <2>3. Typed'
    BY <1>1, <1>2, <2>1, <2>2 DEF Typed
  <2> QED BY <2>1, <2>3, LineKept
<1>5. CASE mine # {}
  <2> DEFINE k == CHOOSE x \in mine : \A y \in mine : x <= y
             r == q[k]
             s == SubSeq(q, 1, k - 1) \o SubSeq(q, k + 1, Len(q))
  <2>1. k \in mine
    <3>1. mine \in SUBSET (1..Len(q)) /\ Len(q) \in Nat
      BY <1>1
    <3>2. \E x \in mine : \A y \in mine : x <= y
      <4> HIDE DEF mine, q
      <4> QED BY <1>5, <3>1, HasFirst
    <3> HIDE DEF mine
    <3> QED BY <3>2
  <2>2. /\ stage' = [stage EXCEPT ![r] = "ended"] /\ home' = [home EXCEPT ![r] = None]
        /\ line' = [line EXCEPT ![i] = s]
        /\ userCount' = Uncounted(cmd.user)
        /\ cmd' = [cmd EXCEPT !.pc = "lookup", !.names = None]
    BY <1>5 DEF Remove, Then
  <2>3. k \in 1..Len(q)
    BY <2>1
  <2> HIDE DEF mine, k
  <2>4. r \in Requests
    BY <1>1, <2>3
  <2>5. /\ s \in Seq(Requests) /\ Len(s) = Len(q) - 1
        /\ \A j \in 1..Len(s) : s[j] = IF j < k THEN q[j] ELSE q[j + 1]
    BY <1>1, <2>3, CutOut
  <2> HIDE DEF s
  <2>6. LineInv'
    <3>1. \A p \in Requests : p # line[i][k] => stage'[p] = stage[p] /\ home'[p] = home[p]
      BY <2>2, <2>4 DEF Typed
    <3>2. k \in 1..Len(line[i]) /\ Len(s) = Len(line[i]) - 1
          /\ \A j \in 1..Len(s) : s[j] = IF j < k THEN line[i][j] ELSE line[i][j + 1]
      BY <2>3, <2>5
    <3> HIDE DEF i
    <3> QED BY <1>1, <2>2, <2>5, <3>1, <3>2, TakenOut
  <2>7. cmd' \in CmdRec /\ cmd'.pc = "lookup" /\ cmd'.at = cmd.at /\ cmd'.user = cmd.user
    BY <1>1, <1>3, <2>2 DEF CmdRec
  <2>8. /\ stage' \in [Requests -> Stages] /\ home' \in [Requests -> Instances \cup {None}]
        /\ \A p \in Requests : stage'[p] \in Counted => home'[p] \in Instances
    BY <2>2, <2>4, StagesOf DEF Typed
  <2>9. line' \in [Instances -> Seq(Requests)] /\ userCount' \in [Users -> Int]
    BY <1>1, <2>2, <2>5 DEF Typed, Uncounted
  <2>10. Typed'
    BY <1>1, <1>2, <2>7, <2>8, <2>9 DEF Typed
  <2> QED BY <2>6, <2>10
<1> QED BY <1>4, <1>5

-----------------------------------------------------------------------------
\* The counters.

\* How the size of a set changes when one element goes in or out.
LEMMA CardMoves ==
  ASSUME NEW S, NEW T, IsFiniteSet(S), NEW x, NEW in \in BOOLEAN,
         T = IF in THEN S \cup {x} ELSE S \ {x}
  PROVE  /\ Cardinality(S) \in Nat
         /\ Cardinality(T) = Cardinality(S) + (IF in THEN 1 ELSE 0) - (IF x \in S THEN 1 ELSE 0)
<1>1. Cardinality(S) \in Nat
  BY FS_CardinalityType
<1>2. CASE in
  BY <1>1, <1>2, FS_AddElement
<1>3. CASE ~in
  BY <1>1, <1>3, FS_RemoveElement
<1> QED BY <1>1, <1>2, <1>3

LEMMA FiniteRequests ==
  /\ IsFiniteSet(Requests)
  /\ \A S \in SUBSET Requests : IsFiniteSet(S) /\ Cardinality(S) \in Nat
  /\ \A S, T \in SUBSET Requests : S \subseteq T => Cardinality(S) <= Cardinality(T)
<1>1. IsFiniteSet(Requests)
  BY FS_Interval, QueueAssumption DEF Requests
<1>2. \A S \in SUBSET Requests : IsFiniteSet(S) /\ Cardinality(S) \in Nat
  BY <1>1, FS_Subset, FS_CardinalityType
<1>3. \A S, T \in SUBSET Requests : S \subseteq T => Cardinality(S) <= Cardinality(T)
  BY <1>2, FS_Subset
<1> QED BY <1>1, <1>2, <1>3

Run(s) == IF s \in Running THEN 1 ELSE 0
Counts(s) == IF s \in Counted THEN 1 ELSE 0
Admits(s) == IF s \in Counted \ {"over"} THEN 1 ELSE 0

\* How the sets that are counted change when one request moves.
LEMMA SizesMove ==
  ASSUME Typed, NEW r \in Requests, NEW to \in Stages, Moves(r, to)
  PROVE  /\ Cardinality(In(Running)) \in Nat
         /\ Cardinality(In(Running)') = Cardinality(In(Running)) + Run(to) - Run(stage[r])
         /\ \A u \in Users :
              /\ Cardinality(Mine(u)) \in Nat /\ Cardinality(Admitted(u)) \in Nat
              /\ Cardinality(Admitted(u)) <= Cardinality(Mine(u))
              /\ u # From[r] => Mine(u)' = Mine(u) /\ Admitted(u)' = Admitted(u)
              /\ u = From[r] =>
                   /\ Cardinality(Mine(u)') = Cardinality(Mine(u)) + Counts(to) - Counts(stage[r])
                   /\ Cardinality(Admitted(u)')
                        = Cardinality(Admitted(u)) + Admits(to) - Admits(stage[r])
<1>1. \A q \in Requests : stage'[q] = IF q = r THEN to ELSE stage[q]
  BY DEF Moves, Typed
<1>2. /\ IsFiniteSet(In(Running)) /\ Cardinality(In(Running)) \in Nat
      /\ \A u \in Users : /\ IsFiniteSet(Mine(u)) /\ IsFiniteSet(Admitted(u))
                          /\ Cardinality(Mine(u)) \in Nat /\ Cardinality(Admitted(u)) \in Nat
                          /\ Cardinality(Admitted(u)) <= Cardinality(Mine(u))
  <2>1. In(Running) \in SUBSET Requests /\ \A u : Mine(u) \in SUBSET Requests
        /\ Admitted(u) \in SUBSET Requests /\ Admitted(u) \subseteq Mine(u)
    BY DEF In, Mine, Admitted
  <2> QED BY <2>1, FiniteRequests
<1>3. Cardinality(In(Running)') = Cardinality(In(Running)) + Run(to) - Run(stage[r])
  <2> DEFINE S == In(Running)
             T == In(Running)'
             in == to \in Running
  <2>1. T = IF in THEN S \cup {r} ELSE S \ {r}
    BY <1>1 DEF In
  <2>2. r \in S <=> stage[r] \in Running
    BY DEF In
  <2>3. in \in BOOLEAN /\ IsFiniteSet(S)
    BY <1>2
  <2> HIDE DEF S, T, in
  <2>4. Cardinality(T) = Cardinality(S) + (IF in THEN 1 ELSE 0) - (IF r \in S THEN 1 ELSE 0)
    BY <2>1, <2>3, CardMoves
  <2> QED BY <2>2, <2>4 DEF S, T, in, Run
<1>4. ASSUME NEW u \in Users
      PROVE  /\ u # From[r] => Mine(u)' = Mine(u) /\ Admitted(u)' = Admitted(u)
             /\ u = From[r] =>
                   /\ Cardinality(Mine(u)') = Cardinality(Mine(u)) + Counts(to) - Counts(stage[r])
                   /\ Cardinality(Admitted(u)')
                        = Cardinality(Admitted(u)) + Admits(to) - Admits(stage[r])
  <2>1. CASE u # From[r]
    BY <1>1, <2>1 DEF Mine, Admitted, In
  <2>2. CASE u = From[r]
    <3> DEFINE S == Mine(u)
               T == Mine(u)'
               A == Admitted(u)
               B == Admitted(u)'
               in == to \in Counted
               ad == to \in Counted \ {"over"}
    <3>1. T = IF in THEN S \cup {r} ELSE S \ {r}
      BY <1>1, <2>2 DEF In, Mine
    <3>2. B = IF ad THEN A \cup {r} ELSE A \ {r}
      BY <1>1, <2>2 DEF In, Mine, Admitted
    <3>3. (r \in S <=> stage[r] \in Counted) /\ (r \in A <=> stage[r] \in Counted \ {"over"})
      BY <2>2 DEF In, Mine, Admitted
    <3>4. {in, ad} \subseteq BOOLEAN /\ IsFiniteSet(S) /\ IsFiniteSet(A)
      BY <1>2
    <3> HIDE DEF S, T, A, B, in, ad
    <3>5. Cardinality(T) = Cardinality(S) + (IF in THEN 1 ELSE 0) - (IF r \in S THEN 1 ELSE 0)
      BY <3>1, <3>4, CardMoves
    <3>6. Cardinality(B) = Cardinality(A) + (IF ad THEN 1 ELSE 0) - (IF r \in A THEN 1 ELSE 0)
      BY <3>2, <3>4, CardMoves
    <3> QED BY <2>2, <3>3, <3>5, <3>6 DEF S, T, A, B, in, ad, Counts, Admits
  <2> QED BY <2>1, <2>2
<1> QED BY <1>2, <1>3, <1>4

\* The limits hold after the step of one request that moves the counters with
\* it, and that takes a place only while a counter shows one.
LEMMA LimitsMove ==
  ASSUME Typed, LimitsInv, NEW r \in Requests, NEW to \in Stages, Moves(r, to),
         troubles' = 0 => troubles = 0, crashes' = crashes,
         gate' = gate + Run(to) - Run(stage[r]),
         userCount' = [userCount EXCEPT ![From[r]] = @ + Counts(to) - Counts(stage[r])],
         Run(to) > Run(stage[r]) => gate < GlobalMax,
         Admits(to) > Admits(stage[r]) => userCount[From[r]] < MaxPerUser
  PROVE  LimitsInv'
<1> SUFFICES ASSUME troubles = 0 PROVE GateInv' /\ \A u \in Users : UserInv(u)'
  BY DEF LimitsInv
<1>1. GateInv /\ \A u \in Users : UserInv(u)
  BY DEF LimitsInv
<1>2. /\ gate \in Int /\ userCount \in [Users -> Int] /\ stage[r] \in Stages
      /\ From[r] \in Users /\ GlobalMax \in Nat /\ MaxPerUser \in Nat
  BY QueueAssumption DEF Typed, Requests
<1>3. GateInv'
  <2> DEFINE n == Cardinality(In(Running))
             m == Cardinality(In(Running)')
  <2>1. n \in Nat /\ m = n + Run(to) - Run(stage[r])
    BY SizesMove
  <2>2. n <= gate /\ n <= GlobalMax /\ (crashes = 0 => gate = n)
    BY <1>1 DEF GateInv
  <2> HIDE DEF n, m
  <2>3. Run(to) \in {0, 1} /\ Run(stage[r]) \in {0, 1}
    BY DEF Run
  <2>4. m <= gate' /\ m <= GlobalMax /\ (crashes' = 0 => gate' = m)
    BY <1>2, <2>1, <2>2, <2>3
  <2> QED BY <2>4 DEF m, GateInv
<1>4. ASSUME NEW u \in Users PROVE UserInv(u)'
  <2>1. CASE u # From[r]
    <3>1. Mine(u)' = Mine(u) /\ Admitted(u)' = Admitted(u) /\ userCount'[u] = userCount[u]
      BY <1>2, <2>1, SizesMove
    <3> QED BY <1>1, <3>1 DEF UserInv
  <2>2. CASE u = From[r]
    <3> DEFINE n == Cardinality(Mine(u))
               m == Cardinality(Mine(u)')
               a == Cardinality(Admitted(u))
               b == Cardinality(Admitted(u)')
    <3>1. /\ n \in Nat /\ m = n + Counts(to) - Counts(stage[r])
          /\ a \in Nat /\ a <= n /\ b = a + Admits(to) - Admits(stage[r])
      BY <2>2, SizesMove
    <3>2. n <= userCount[u] /\ a <= MaxPerUser /\ (crashes = 0 => userCount[u] = n)
      BY <1>1 DEF UserInv
    <3>3. userCount'[u] = userCount[u] + Counts(to) - Counts(stage[r]) /\ userCount[u] \in Int
      BY <1>2, <2>2
    <3> HIDE DEF n, m, a, b
    <3>4. /\ Counts(to) \in {0, 1} /\ Counts(stage[r]) \in {0, 1}
          /\ Admits(to) \in {0, 1} /\ Admits(stage[r]) \in {0, 1}
      BY DEF Counts, Admits
    <3>5. m <= userCount'[u] /\ (crashes' = 0 => userCount'[u] = m)
      BY <3>1, <3>2, <3>3, <3>4
    <3>6. b <= MaxPerUser
      BY <1>2, <2>2, <3>1, <3>2, <3>3, <3>4
    <3> QED BY <3>5, <3>6 DEF m, b, UserInv
  <2> QED BY <2>1, <2>2
<1> QED BY <1>3, <1>4

LEMMA LimitsKept ==
  ASSUME LimitsInv, troubles' = 0 => troubles = 0, crashes' = crashes,
         UNCHANGED <<stage, gate, userCount>>
  PROVE  LimitsInv'
BY DEF LimitsInv, GateInv, UserInv, Mine, Admitted, In

-----------------------------------------------------------------------------
\* What /stop reaches for.

LEMMA HandlesMove ==
  ASSUME Typed, EntryInv, MappingInv, NEW r \in Requests, NEW to \in Stages, Moves(r, to),
         \A q \in Requests : q # r => home'[q] = home[q],
         to \in Running => home'[r] = home[r],
         cancelled \subseteq cancelled', stopEvents \subseteq stopEvents', crashes' = crashes,
         \A i \in Instances, u \in Users : inflight'[i][u] # NoEntry =>
            \/ inflight[i][u] # NoEntry
            \/ i = home[r] /\ u = From[r] /\ to \in Running,
         stage[r] \in Running /\ to \notin Running => inflight'[home[r]][From[r]] = NoEntry,
         \A u \in Users : mapping'[u] \in Requests =>
            \/ /\ mapping'[u] = mapping[u]
               /\ mapping[u] = r /\ stage[r] \in {"answer", "clear"} /\ to \notin {"answer", "clear"}
                    => r \in cancelled \cup stopEvents
            \/ mapping'[u] = r /\ u = From[r] /\ to = "answer"
  PROVE  EntryInv' /\ MappingInv'
<1>1. \A q \in Requests : stage'[q] = IF q = r THEN to ELSE stage[q]
  BY DEF Moves, Typed
<1>2. EntryInv'
  <2> SUFFICES ASSUME NEW i \in Instances, NEW u \in Users, inflight'[i][u] # NoEntry
               PROVE  \E q \in In(Running)' : home'[q] = i /\ From[q] = u
    BY DEF EntryInv
  <2>1. CASE i = home[r] /\ u = From[r] /\ to \in Running
    <3>1. r \in In(Running)' /\ home'[r] = i
      BY <1>1, <2>1 DEF In
    <3> QED BY <2>1, <3>1
  <2>2. CASE inflight[i][u] # NoEntry /\ ~(i = home[r] /\ u = From[r] /\ to \in Running)
    <3>1. PICK q \in In(Running) : home[q] = i /\ From[q] = u
      BY <2>2 DEF EntryInv
    <3>2. q \in Requests /\ stage[q] \in Running
      BY DEF In
    <3>3. q # r
      BY <2>2, <3>1, <3>2
    <3>4. q \in In(Running)' /\ home'[q] = home[q]
      BY <1>1, <3>2, <3>3 DEF In
    <3> QED BY <3>1, <3>4
  <2> QED BY <2>1, <2>2
<1>3. MappingInv'
  <2> SUFFICES ASSUME NEW u \in Users, mapping'[u] \in Requests
               PROVE  /\ From[mapping'[u]] = u
                      /\ \/ stage'[mapping'[u]] \in {"answer", "clear"}
                         \/ mapping'[u] \in cancelled' \cup stopEvents'
                         \/ crashes' > 0
    BY DEF MappingInv
  <2>1. CASE mapping'[u] = r /\ u = From[r] /\ to = "answer"
    BY <1>1, <2>1
  <2>2. CASE /\ mapping'[u] = mapping[u]
             /\ mapping[u] = r /\ stage[r] \in {"answer", "clear"} /\ to \notin {"answer", "clear"}
                  => r \in cancelled \cup stopEvents
    BY <1>1, <2>2 DEF MappingInv
  <2> QED BY <2>1, <2>2
<1> QED BY <1>2, <1>3

LEMMA HandlesKept ==
  ASSUME EntryInv, MappingInv, UNCHANGED <<stage, home>>, crashes' = crashes,
         cancelled \subseteq cancelled', stopEvents \subseteq stopEvents', mapping' = mapping,
         \A i \in Instances, u \in Users : inflight'[i][u] # NoEntry => inflight[i][u] # NoEntry
  PROVE  EntryInv' /\ MappingInv'
BY DEF EntryInv, MappingInv, In

-----------------------------------------------------------------------------
LEMMA TroubleTypes ==
  ASSUME Typed, Trouble \/ NoTrouble \/ Command
  PROVE  /\ commands' \in Nat /\ troubles' \in Nat /\ crashes' \in Nat /\ crashes' = crashes
         /\ troubles' = 0 => troubles = 0
         /\ Trouble => LimitsInv'
BY DEF Typed, Trouble, NoTrouble, Command, counters, LimitsInv

LEMMA GoesMoves ==
  ASSUME Typed, NEW r \in Requests, NEW from \in Counted, NEW to \in Counted \cup {"ended"},
         Goes(r, from, to)
  PROVE  /\ Moves(r, to) /\ Homes(r) /\ stage[r] = from /\ to \in Stages /\ cmd' = cmd
         /\ home[r] \in Instances /\ home' \in [Requests -> Instances \cup {None}]
         /\ to \in Counted => home'[r] = home[r]
         /\ From[r] \in Users
<1>1. stage[r] = from /\ Moves(r, to) /\ cmd' = cmd /\ to \in Stages
  BY StagesOf DEF Goes, Moves
<1>2. home[r] \in Instances /\ From[r] \in Users /\ home \in [Requests -> Instances \cup {None}]
  BY <1>1, QueueAssumption DEF Typed, Requests
<1>3. home' = IF to = "ended" THEN [home EXCEPT ![r] = None] ELSE home
  BY DEF Goes
<1>4. "ended" \notin Counted
  BY StagesOf
<1> QED BY <1>1, <1>2, <1>3, <1>4 DEF Homes

LEMMA TypedMove ==
  ASSUME Typed, NEW r \in Requests, NEW to \in Stages, Moves(r, to), Homes(r),
         home' \in [Requests -> Instances \cup {None}],
         to \in Counted => home'[r] \in Instances,
         line' \in [Instances -> Seq(Requests)],
         userCount' \in [Users -> Int], gate' \in Int,
         inflight' \in [Instances -> [Users -> Entries]],
         mapping' \in [Users -> Requests \cup {None}], cmd' = cmd,
         commands' \in Nat, troubles' \in Nat, crashes' \in Nat
  PROVE  Typed'
<1>1. stage' \in [Requests -> Stages] /\ \A q \in Requests : stage'[q] = IF q = r THEN to ELSE stage[q]
  BY DEF Typed, Moves
<1>2. \A q \in Requests : stage'[q] \in Counted => home'[q] \in Instances
  BY <1>1 DEF Typed, Homes
<1> QED BY <1>1, <1>2 DEF Typed

\* A request that is not queued leaves the lines alone.
LEMMA LineMove ==
  ASSUME Typed, LineInv, NEW r \in Requests, NEW to \in Stages, Moves(r, to), Homes(r),
         line' = line, stage[r] # "queued"
  PROVE  LineInv'
<1>1. \A q \in Requests : stage[q] = "queued" => stage'[q] = "queued" /\ home'[q] = home[q]
  BY DEF Typed, Moves, Homes
<1> QED BY <1>1, LineKept

\* A request that holds nothing for /stop goes from one stage to another.
LEMMA HandlesAside ==
  ASSUME Typed, EntryInv, MappingInv, NEW r \in Requests, NEW to \in Stages \ Running,
         Moves(r, to), Homes(r), stage[r] \notin Running,
         UNCHANGED <<inflight, mapping, cancelled, stopEvents>>, crashes' = crashes
  PROVE  EntryInv' /\ MappingInv'
<1>1. stage[r] \notin {"answer", "clear"}
  BY StagesOf
<1> QED BY <1>1, HandlesMove DEF Homes

LEMMA DeliverInv ==
  ASSUME QueueInv, NEW r \in Requests, NEW i \in Instances, Deliver(r, i)
  PROVE  QueueInv'
<1>1. /\ stage[r] = "new" /\ home' = [home EXCEPT ![r] = i]
      /\ UNCHANGED <<line, gate, mapping, stopEvents, inflight, cancelled, cmd>>
      /\ NoTrouble \/ Trouble
  BY DEF Deliver
<1>2. /\ home' \in [Requests -> Instances \cup {None}] /\ Homes(r) /\ home'[r] = i
      /\ From[r] \in Users /\ Typed /\ LineInv /\ LimitsInv /\ EntryInv /\ MappingInv
      /\ userCount \in [Users -> Int] /\ MaxPerUser \in Nat
  BY <1>1, QueueAssumption DEF QueueInv, Typed, Homes, Requests
<1>3. PICK to \in {"counted", "over"} :
        /\ Moves(r, to)
        /\ \/ /\ userCount' = [userCount EXCEPT ![From[r]] = @ + 1]
              /\ to = "counted" => userCount[From[r]] + 1 <= MaxPerUser
              /\ NoTrouble
           \/ userCount' = userCount /\ Trouble
  BY DEF Deliver, Moves, WithinLimit
<1>4. /\ commands' \in Nat /\ troubles' \in Nat /\ crashes' \in Nat /\ crashes' = crashes
      /\ troubles' = 0 => troubles = 0
      /\ Trouble => LimitsInv'
  BY <1>1, <1>2, TroubleTypes
<1>5. to \in Stages \ Running /\ stage[r] \notin Running /\ stage[r] \notin Counted /\ to \in Counted
      /\ stage[r] # "queued"
  BY <1>1, StagesOf
<1>6. Typed'
  <2>1. userCount' \in [Users -> Int]
    BY <1>2, <1>3
  <2> QED BY <1>1, <1>2, <1>3, <1>4, <1>5, <2>1, TypedMove DEF Typed
<1>7. LineInv'
  BY <1>1, <1>2, <1>3, <1>5, LineMove
<1>8. EntryInv' /\ MappingInv'
  BY <1>1, <1>2, <1>3, <1>4, <1>5, HandlesAside
<1>9. CASE Trouble
  BY <1>4, <1>6, <1>7, <1>8, <1>9 DEF QueueInv
<1>10. CASE NoTrouble /\ ~Trouble
  <2>1. /\ Run(to) = 0 /\ Run(stage[r]) = 0 /\ Counts(to) = 1 /\ Counts(stage[r]) = 0
        /\ Admits(stage[r]) = 0 /\ Admits(to) = IF to = "counted" THEN 1 ELSE 0
    BY <1>3, <1>5 DEF Run, Counts, Admits
  <2>2. /\ gate' = gate + Run(to) - Run(stage[r]) /\ gate \in Int
        /\ Run(to) > Run(stage[r]) => gate < GlobalMax
    BY <1>1, <1>2, <2>1 DEF Typed
  <2>3. userCount' = [userCount EXCEPT ![From[r]] = @ + Counts(to) - Counts(stage[r])]
    BY <1>2, <1>3, <1>10, <2>1
  <2>4. Admits(to) > Admits(stage[r]) => userCount[From[r]] < MaxPerUser
    BY <1>2, <1>3, <1>10, <2>1
  <2>5. LimitsInv'
    BY <1>2, <1>3, <1>4, <1>5, <2>2, <2>3, <2>4, LimitsMove
  <2> QED BY <1>6, <1>7, <1>8, <2>5 DEF QueueInv
<1> QED BY <1>1, <1>9, <1>10

\* A request that has no worker ends: rejected, or given up before it runs.
LEMMA LeaveInv ==
  ASSUME QueueInv, NEW r \in Requests, Reject(r) \/ Full(r) \/ GiveUp(r)
  PROVE  QueueInv'
<1>1. PICK from \in {"over", "counted", "gate"} :
        /\ Goes(r, from, "ended") /\ userCount' = Uncounted(From[r])
        /\ UNCHANGED <<line, gate, inflight, mapping, stopEvents, cancelled, counters>>
  BY DEF Reject, Full, GiveUp
<1>2. Typed /\ LineInv /\ LimitsInv /\ EntryInv /\ MappingInv
  BY DEF QueueInv
<1>3. from \in Counted /\ from \notin Running /\ from # "queued"
      /\ "ended" \notin Counted /\ "ended" \in Stages \ Running
  BY StagesOf
<1>4. /\ Moves(r, "ended") /\ Homes(r) /\ stage[r] = from /\ cmd' = cmd
      /\ home' \in [Requests -> Instances \cup {None}] /\ From[r] \in Users
  BY <1>1, <1>2, <1>3, GoesMoves
<1>5. UNCHANGED <<commands, troubles, crashes>>
  BY <1>1 DEF counters
<1>6. userCount' \in [Users -> Int] /\ userCount \in [Users -> Int]
      /\ userCount' = [userCount EXCEPT ![From[r]] = @ - 1]
  BY <1>1, <1>2, <1>4 DEF Uncounted, Typed
<1>7. Typed'
  BY <1>1, <1>2, <1>3, <1>4, <1>5, <1>6, TypedMove DEF Typed
<1>8. LineInv' /\ EntryInv' /\ MappingInv'
  BY <1>1, <1>2, <1>3, <1>4, <1>5, LineMove, HandlesAside
<1>9. LimitsInv'
  <2>1. /\ Run("ended") = 0 /\ Run(stage[r]) = 0 /\ Counts("ended") = 0 /\ Counts(stage[r]) = 1
        /\ Admits("ended") = 0 /\ Admits(stage[r]) \in {0, 1}
    BY <1>3, <1>4 DEF Run, Counts, Admits
  <2>2. /\ gate' = gate + Run("ended") - Run(stage[r])
        /\ ~(Run("ended") > Run(stage[r])) /\ ~(Admits("ended") > Admits(stage[r]))
    BY <1>1, <1>2, <2>1 DEF Typed
  <2>3. userCount' = [userCount EXCEPT ![From[r]] = @ + Counts("ended") - Counts(stage[r])]
    <3>1. userCount[From[r]] + Counts("ended") - Counts(stage[r]) = userCount[From[r]] - 1
      BY <1>4, <1>6, <2>1
    <3> QED BY <1>6, <3>1
  <2> QED BY <1>2, <1>3, <1>4, <1>5, <2>2, <2>3, LimitsMove
<1> QED BY <1>7, <1>8, <1>9 DEF QueueInv

LEMMA EnqueueInv ==
  ASSUME QueueInv, NEW r \in Requests, Enqueue(r)
  PROVE  QueueInv'
<1>1. /\ Goes(r, "counted", "queued")
      /\ line' = [line EXCEPT ![home[r]] = Append(@, r)]
      /\ UNCHANGED <<gate, userCount, inflight, mapping, stopEvents, cancelled, commands, troubles, crashes>>
  BY DEF Enqueue, stores, counters
<1>2. Typed /\ LineInv /\ LimitsInv /\ EntryInv /\ MappingInv
  BY DEF QueueInv
<1>3. {"counted", "queued"} \subseteq Counted \ Running /\ "queued" \in Stages
  BY StagesOf
<1>4. /\ Moves(r, "queued") /\ Homes(r) /\ stage[r] = "counted" /\ cmd' = cmd
      /\ home[r] \in Instances /\ home' \in [Requests -> Instances \cup {None}]
      /\ home'[r] = home[r] /\ From[r] \in Users
  BY <1>1, <1>2, <1>3, GoesMoves
<1> DEFINE q == line[home[r]]
<1>5. /\ q \in Seq(Requests) /\ Append(q, r) \in Seq(Requests)
      /\ Len(Append(q, r)) = Len(q) + 1 /\ Append(q, r)[Len(q) + 1] = r
      /\ Len(q) \in Nat /\ \A j \in 1..Len(q) : Append(q, r)[j] = q[j]
      /\ line' = [line EXCEPT ![home[r]] = Append(q, r)]
  <2>1. q \in Seq(Requests)
    BY <1>2, <1>4 DEF Typed
  <2>2. line' = [line EXCEPT ![home[r]] = Append(q, r)]
    BY <1>1
  <2> HIDE DEF q
  <2> QED BY <2>1, <2>2, AppendProperties
<1>6. line' \in [Instances -> Seq(Requests)]
      /\ \A h \in Instances : line'[h] = IF h = home[r] THEN Append(q, r) ELSE line[h]
  BY <1>2, <1>5 DEF Typed
<1>7. Typed'
  BY <1>1, <1>2, <1>3, <1>4, <1>6, TypedMove DEF Typed
<1>8. LineInv'
  <2>1. \A h \in Instances : \A j \in 1..Len(line[h]) :
          /\ line[h][j] \in Requests /\ line[h][j] # r
          /\ stage'[line[h][j]] = "queued" /\ home'[line[h][j]] = h
    BY <1>2, <1>4 DEF Typed, LineInv, Moves, Homes
  <2>2. stage'[r] = "queued" /\ home'[r] = home[r]
    BY <1>2, <1>4 DEF Moves, Typed
  <2> DEFINE s == Append(q, r)
  <2>3. Len(s) = Len(q) + 1
    BY <1>5
  <2>4. \A j \in 1..(Len(q) + 1) : s[j] = IF j = Len(q) + 1 THEN r ELSE q[j]
    BY <1>5
  <2>5. \A j \in 1..(Len(q) + 1) : j # Len(q) + 1 => j \in 1..Len(q)
    BY <1>5
  <2> HIDE DEF s
  <2>6. ASSUME NEW j \in 1..Len(s)
        PROVE  /\ stage'[s[j]] = "queued" /\ home'[s[j]] = home[r]
               /\ \A l \in 1..Len(s) : l # j => s[l] # s[j]
    <3>1. CASE j = Len(q) + 1
      BY <1>4, <2>1, <2>2, <2>3, <2>4, <2>5, <3>1
    <3>2. CASE j # Len(q) + 1
      <4>1. j \in 1..Len(q) /\ s[j] = q[j]
        BY <2>3, <2>4, <2>5, <3>2
      <4>2. \A l \in 1..Len(q) : l # j => q[l] # q[j]
        BY <1>2, <1>4, <4>1 DEF LineInv
      <4> QED BY <1>4, <2>1, <2>3, <2>4, <2>5, <4>1, <4>2
    <3> QED BY <3>1, <3>2
  <2>7. ASSUME NEW h \in Instances, h # home[r], NEW j \in 1..Len(line[h])
        PROVE  /\ stage'[line[h][j]] = "queued" /\ home'[line[h][j]] = h
               /\ \A l \in 1..Len(line[h]) : l # j => line[h][l] # line[h][j]
    BY <1>2, <2>1 DEF LineInv
  <2> HIDE DEF q
  <2>8. \A h \in Instances : line'[h] = IF h = home[r] THEN s ELSE line[h]
    BY <1>6 DEF s
  <2> QED BY <2>6, <2>7, <2>8 DEF LineInv
<1>9. EntryInv' /\ MappingInv'
  BY <1>1, <1>2, <1>3, <1>4, HandlesAside
<1>10. LimitsInv'
  <2>1. /\ Run("queued") = 0 /\ Run(stage[r]) = 0 /\ Counts("queued") = 1 /\ Counts(stage[r]) = 1
        /\ Admits("queued") = 1 /\ Admits(stage[r]) = 1
    BY <1>3, <1>4 DEF Run, Counts, Admits
  <2>2. /\ gate' = gate + Run("queued") - Run(stage[r])
        /\ ~(Run("queued") > Run(stage[r])) /\ ~(Admits("queued") > Admits(stage[r]))
    BY <1>1, <1>2, <2>1 DEF Typed
  <2>3. userCount' = [userCount EXCEPT ![From[r]] = @ + Counts("queued") - Counts(stage[r])]
    <3>1. userCount \in [Users -> Int]
      BY <1>2 DEF Typed
    <3>2. userCount' = userCount
      BY <1>1
    <3> QED BY <1>4, <2>1, <3>1, <3>2
  <2> QED BY <1>1, <1>2, <1>3, <1>4, <2>2, <2>3, LimitsMove
<1> QED BY <1>7, <1>8, <1>9, <1>10 DEF QueueInv

\* A worker takes the head of its line, or discards it.
LEMMA DequeueInv ==
  ASSUME QueueInv, NEW i \in Instances, Take(i) \/ Discard(i)
  PROVE  QueueInv'
<1> DEFINE r == Head(line[i])
<1>1. PICK to \in {"gate", "ended"} :
        /\ Goes(r, "queued", to) /\ line[i] # <<>>
        /\ line' = [line EXCEPT ![i] = Tail(line[i])]
        /\ userCount' = IF to = "gate" THEN userCount ELSE Uncounted(From[r])
        /\ UNCHANGED <<gate, mapping, stopEvents, inflight, cancelled, commands, troubles, crashes>>
  <2>1. CASE Take(i)
    BY <2>1 DEF Take, Dequeue, counters
  <2>2. CASE Discard(i)
    BY <2>2 DEF Discard, Dequeue, counters
  <2> QED BY <2>1, <2>2
<1>2. Typed /\ LineInv /\ LimitsInv /\ EntryInv /\ MappingInv
  BY DEF QueueInv
<1>3. \A q \in Requests : q # r => stage'[q] = stage[q] /\ home'[q] = home[q]
  BY <1>1, <1>2 DEF Goes, Typed
<1>4. LineInv' /\ r \in Requests /\ line' \in [Instances -> Seq(Requests)]
  BY <1>1, <1>2, <1>3, HeadTaken
<1> HIDE DEF r
<1>5. /\ to \in Counted \cup {"ended"} /\ to \in Stages \ Running
      /\ "queued" \in Counted \ Running /\ "gate" \in Counted /\ "ended" \notin Counted
  BY StagesOf
<1>6. /\ Moves(r, to) /\ Homes(r) /\ stage[r] = "queued" /\ cmd' = cmd
      /\ home[r] \in Instances /\ home' \in [Requests -> Instances \cup {None}]
      /\ to \in Counted => home'[r] = home[r]
      /\ From[r] \in Users
  BY <1>1, <1>2, <1>4, <1>5, GoesMoves
<1>7. /\ Run(to) = 0 /\ Run(stage[r]) = 0 /\ Counts(stage[r]) = 1 /\ Admits(stage[r]) = 1
      /\ Counts(to) = (IF to = "gate" THEN 1 ELSE 0) /\ Admits(to) \in {0, 1}
  BY <1>5, <1>6 DEF Run, Counts, Admits
<1>8. userCount' = [userCount EXCEPT ![From[r]] = @ + Counts(to) - Counts(stage[r])]
      /\ userCount' \in [Users -> Int]
  <2>1. userCount \in [Users -> Int] /\ userCount[From[r]] \in Int
    BY <1>2, <1>6 DEF Typed
  <2>2. CASE to = "gate"
    <3>1. userCount[From[r]] + Counts(to) - Counts(stage[r]) = userCount[From[r]]
      BY <1>7, <2>1, <2>2
    <3> QED BY <1>1, <2>1, <2>2, <3>1
  <2>3. CASE to = "ended"
    <3>1. userCount[From[r]] + Counts(to) - Counts(stage[r]) = userCount[From[r]] - 1
      BY <1>7, <2>1, <2>3
    <3>2. userCount' = [userCount EXCEPT ![From[r]] = userCount[From[r]] - 1]
      BY <1>1, <2>3 DEF Uncounted
    <3>3. userCount' \in [Users -> Int]
      <4>1. userCount[From[r]] - 1 \in Int
        BY <2>1
      <4> QED BY <2>1, <3>2, <4>1
    <3> QED BY <3>1, <3>2, <3>3
  <2> QED BY <1>1, <2>2, <2>3
<1>9. Typed'
  BY <1>1, <1>2, <1>4, <1>5, <1>6, <1>8, TypedMove DEF Typed
<1>10. EntryInv' /\ MappingInv'
  BY <1>1, <1>2, <1>4, <1>5, <1>6, HandlesAside
<1>11. LimitsInv'
  <2>1. /\ gate' = gate + Run(to) - Run(stage[r])
        /\ ~(Run(to) > Run(stage[r])) /\ ~(Admits(to) > Admits(stage[r]))
    BY <1>1, <1>2, <1>7 DEF Typed
  <2> QED BY <1>1, <1>2, <1>4, <1>5, <1>6, <1>8, <2>1, LimitsMove
<1> QED BY <1>4, <1>9, <1>10, <1>11 DEF QueueInv

LEMMA PassInv ==
  ASSUME QueueInv, NEW r \in Requests, Pass(r) \/ PassBlindly(r)
  PROVE  QueueInv'
<1>1. /\ Goes(r, "gate", "check")
      /\ inflight' = [inflight EXCEPT ![home[r]][From[r]] = [cancels |-> r, names |-> None]]
      /\ UNCHANGED <<line, userCount, mapping, stopEvents, cancelled>>
      /\ \/ GateOpen /\ gate' = gate + 1 /\ NoTrouble
         \/ gate' = gate /\ Trouble
  BY DEF Pass, PassBlindly, Register
<1>2. Typed /\ LineInv /\ LimitsInv /\ EntryInv /\ MappingInv
  BY DEF QueueInv
<1>3. "gate" \in Counted \ Running /\ "check" \in Running /\ Running \subseteq Counted
      /\ "check" \in Stages
  BY StagesOf
<1>4. /\ Moves(r, "check") /\ Homes(r) /\ stage[r] = "gate" /\ cmd' = cmd
      /\ home[r] \in Instances /\ home' \in [Requests -> Instances \cup {None}]
      /\ home'[r] = home[r] /\ From[r] \in Users
  BY <1>1, <1>2, <1>3, GoesMoves
<1>5. /\ commands' \in Nat /\ troubles' \in Nat /\ crashes' \in Nat /\ crashes' = crashes
      /\ troubles' = 0 => troubles = 0
      /\ Trouble => LimitsInv'
  BY <1>1, <1>2, TroubleTypes
<1>6. inflight' \in [Instances -> [Users -> Entries]]
      /\ \A i \in Instances, u \in Users :
            ~(i = home[r] /\ u = From[r]) => inflight'[i][u] = inflight[i][u]
  <2> DEFINE e == [cancels |-> r, names |-> None]
  <2>1. e \in Entries
    BY DEF Entries
  <2>2. inflight' = [inflight EXCEPT ![home[r]][From[r]] = e]
    BY <1>1
  <2> HIDE DEF e
  <2> QED BY <1>2, <1>4, <2>1, <2>2 DEF Typed
<1>7. Typed'
  <2>1. gate' \in Int
    BY <1>1, <1>2 DEF Typed
  <2> QED BY <1>1, <1>2, <1>3, <1>4, <1>5, <1>6, <2>1, TypedMove DEF Typed
<1>8. LineInv'
  BY <1>1, <1>2, <1>3, <1>4, LineMove
<1>9. EntryInv' /\ MappingInv'
  <2>1. \A i \in Instances, u \in Users : inflight'[i][u] # NoEntry =>
            \/ inflight[i][u] # NoEntry
            \/ i = home[r] /\ u = From[r] /\ "check" \in Running
    BY <1>3, <1>6
  <2> QED BY <1>1, <1>2, <1>3, <1>4, <1>5, <2>1, HandlesMove DEF Homes
<1>10. CASE Trouble
  BY <1>5, <1>7, <1>8, <1>9, <1>10 DEF QueueInv
<1>11. CASE ~Trouble
  <2>1. /\ Run("check") = 1 /\ Run(stage[r]) = 0 /\ Counts("check") = 1 /\ Counts(stage[r]) = 1
        /\ Admits("check") = 1 /\ Admits(stage[r]) = 1
    BY <1>3, <1>4, StagesOf DEF Run, Counts, Admits
  <2>2. /\ gate' = gate + Run("check") - Run(stage[r]) /\ gate < GlobalMax
        /\ ~(Admits("check") > Admits(stage[r]))
    BY <1>1, <1>2, <1>11, <2>1 DEF Typed, GateOpen
  <2>3. userCount' = [userCount EXCEPT ![From[r]] = @ + Counts("check") - Counts(stage[r])]
    <3>1. userCount \in [Users -> Int] /\ userCount[From[r]] \in Int
      BY <1>2, <1>4 DEF Typed
    <3>2. userCount[From[r]] + Counts("check") - Counts(stage[r]) = userCount[From[r]]
      BY <2>1, <3>1
    <3> QED BY <1>1, <3>1, <3>2
  <2>4. LimitsInv'
    BY <1>2, <1>3, <1>4, <1>5, <2>2, <2>3, LimitsMove
  <2> QED BY <1>7, <1>8, <1>9, <2>4 DEF QueueInv
<1> QED BY <1>10, <1>11

\* A request that runs goes on: the counters do not move.
LEMMA WorkInv ==
  ASSUME QueueInv, NEW r \in Requests, CheckMarker(r) \/ Create(r) \/ Answer(r) \/ Break(r)
  PROVE  QueueInv'
<1>1. PICK from \in {"check", "create", "answer"}, to \in {"create", "answer", "clear", "close"} :
        /\ Goes(r, from, to) /\ (NoTrouble \/ Trouble)
        /\ UNCHANGED <<line, userCount, gate, stopEvents, cancelled>>
        /\ from = "answer" => to = "clear"
        /\ \/ UNCHANGED <<inflight, mapping>>
           \/ /\ to = "answer" /\ mapping' = [mapping EXCEPT ![From[r]] = r]
              /\ inflight' = [inflight EXCEPT ![home[r]][From[r]] =
                                IF @ = NoEntry THEN @ ELSE [@ EXCEPT !.names = r]]
  <2>1. CASE CheckMarker(r)
    BY <2>1 DEF CheckMarker
  <2>2. CASE Create(r)
    BY <2>2 DEF Create, NoTrouble
  <2>3. CASE Answer(r) \/ Break(r)
    BY <2>3 DEF Answer, Break, NoTrouble, stores
  <2> QED BY <2>1, <2>2, <2>3
<1>2. Typed /\ LineInv /\ LimitsInv /\ EntryInv /\ MappingInv
  BY DEF QueueInv
<1>3. from \in Running /\ to \in Running /\ Running \subseteq Counted
      /\ "over" \notin Running /\ "queued" \notin Running
  BY StagesOf
<1>4. /\ Moves(r, to) /\ Homes(r) /\ stage[r] = from /\ cmd' = cmd /\ to \in Stages
      /\ home[r] \in Instances /\ home' \in [Requests -> Instances \cup {None}]
      /\ home'[r] = home[r] /\ From[r] \in Users
  BY <1>1, <1>2, <1>3, GoesMoves
<1>5. /\ commands' \in Nat /\ troubles' \in Nat /\ crashes' \in Nat /\ crashes' = crashes
      /\ troubles' = 0 => troubles = 0
  BY <1>1, <1>2, TroubleTypes
<1>6. /\ inflight' \in [Instances -> [Users -> Entries]]
      /\ mapping' \in [Users -> Requests \cup {None}]
      /\ \A i \in Instances, u \in Users : inflight'[i][u] # NoEntry => inflight[i][u] # NoEntry
      /\ \A u \in Users : mapping'[u] = mapping[u] \/ (mapping'[u] = r /\ u = From[r] /\ to = "answer")
  <2>1. CASE UNCHANGED <<inflight, mapping>>
    BY <1>2, <2>1 DEF Typed
  <2>2. CASE /\ to = "answer" /\ mapping' = [mapping EXCEPT ![From[r]] = r]
             /\ inflight' = [inflight EXCEPT ![home[r]][From[r]] =
                                IF @ = NoEntry THEN @ ELSE [@ EXCEPT !.names = r]]
    <3> DEFINE e == inflight[home[r]][From[r]]
               f == IF e = NoEntry THEN e ELSE [e EXCEPT !.names = r]
    <3>1. e \in Entries
      BY <1>2, <1>4 DEF Typed
    <3>2. f \in Entries /\ (f # NoEntry => e # NoEntry)
      BY <3>1 DEF Entries
    <3>3. inflight' = [inflight EXCEPT ![home[r]][From[r]] = f]
      BY <1>2, <1>4, <2>2 DEF Typed
    <3>4. inflight \in [Instances -> [Users -> Entries]] /\ mapping \in [Users -> Requests \cup {None}]
      BY <1>2 DEF Typed
    <3>5. mapping' \in [Users -> Requests \cup {None}]
          /\ \A u \in Users : mapping'[u] = IF u = From[r] THEN r ELSE mapping[u]
      BY <1>4, <2>2, <3>4
    <3> HIDE DEF f
    <3>6. /\ inflight' \in [Instances -> [Users -> Entries]]
          /\ \A i \in Instances, u \in Users :
               inflight'[i][u] = IF i = home[r] /\ u = From[r] THEN f ELSE inflight[i][u]
      BY <1>4, <3>2, <3>3, <3>4
    <3> QED BY <2>2, <3>2, <3>5, <3>6
  <2> QED BY <1>1, <2>1, <2>2
<1>7. Typed'
  BY <1>1, <1>2, <1>3, <1>4, <1>5, <1>6, TypedMove DEF Typed
<1>8. LineInv'
  BY <1>1, <1>2, <1>3, <1>4, LineMove
<1>9. EntryInv' /\ MappingInv'
  <2>1. stage[r] \in {"answer", "clear"} => to \in {"answer", "clear"}
    BY <1>1, <1>4
  <2> QED BY <1>1, <1>2, <1>3, <1>4, <1>5, <1>6, <2>1, HandlesMove DEF Homes
<1>10. LimitsInv'
  <2>1. /\ Run(to) = 1 /\ Run(stage[r]) = 1 /\ Counts(to) = 1 /\ Counts(stage[r]) = 1
        /\ Admits(to) = 1 /\ Admits(stage[r]) = 1
    BY <1>3, <1>4 DEF Run, Counts, Admits
  <2>2. /\ gate' = gate + Run(to) - Run(stage[r])
        /\ ~(Run(to) > Run(stage[r])) /\ ~(Admits(to) > Admits(stage[r]))
    BY <1>1, <1>2, <2>1 DEF Typed
  <2>3. userCount' = [userCount EXCEPT ![From[r]] = @ + Counts(to) - Counts(stage[r])]
    <3>1. userCount \in [Users -> Int] /\ userCount[From[r]] \in Int
      BY <1>2, <1>4 DEF Typed
    <3>2. userCount[From[r]] + Counts(to) - Counts(stage[r]) = userCount[From[r]]
      BY <2>1, <3>1
    <3> QED BY <1>1, <3>1, <3>2
  <2> QED BY <1>2, <1>4, <1>5, <2>2, <2>3, LimitsMove
<1> QED BY <1>7, <1>8, <1>9, <1>10 DEF QueueInv

\* A request that ran ends, and deletes the entry of its user.
LEMMA FinishInv ==
  ASSUME QueueInv, NEW r \in Requests, Close(r) \/ Clear(r)
  PROVE  QueueInv'
<1>1. PICK from \in {"close", "clear"} :
        /\ Goes(r, from, "ended") /\ inflight' = Deleted(r)
        /\ gate' = gate - 1 /\ userCount' = Uncounted(From[r])
        /\ UNCHANGED <<line, stopEvents, cancelled, commands, troubles, crashes>>
        /\ \/ mapping' = mapping /\ (from = "clear" => r \in cancelled \cup stopEvents)
           \/ mapping' = [mapping EXCEPT ![From[r]] = None]
  <2>1. CASE Close(r)
    BY <2>1 DEF Close, Finish, Given, counters
  <2>2. CASE Clear(r)
    BY <2>2 DEF Clear, Finish, Given, counters
  <2> QED BY <2>1, <2>2
<1>2. Typed /\ LineInv /\ LimitsInv /\ EntryInv /\ MappingInv
  BY DEF QueueInv
<1>3. from \in Running /\ Running \subseteq Counted /\ "over" \notin Running
      /\ "queued" \notin Running /\ "ended" \notin Counted /\ "ended" \in Stages
  BY StagesOf
<1>4. /\ Moves(r, "ended") /\ Homes(r) /\ stage[r] = from /\ cmd' = cmd
      /\ home[r] \in Instances /\ home' \in [Requests -> Instances \cup {None}]
      /\ From[r] \in Users
  BY <1>1, <1>2, <1>3, GoesMoves
<1>5. /\ inflight' \in [Instances -> [Users -> Entries]] /\ inflight'[home[r]][From[r]] = NoEntry
      /\ \A i \in Instances, u \in Users : inflight'[i][u] # NoEntry => inflight[i][u] # NoEntry
  <2>1. NoEntry \in Entries
    BY DEF NoEntry, Entries
  <2>2. inflight' = [inflight EXCEPT ![home[r]][From[r]] = NoEntry]
        /\ inflight \in [Instances -> [Users -> Entries]]
    BY <1>1, <1>2 DEF Deleted, Typed
  <2> QED BY <1>4, <2>1, <2>2
<1>6. /\ userCount' \in [Users -> Int] /\ userCount \in [Users -> Int]
      /\ userCount' = [userCount EXCEPT ![From[r]] = @ - 1]
      /\ gate \in Int /\ gate' \in Int
  BY <1>1, <1>2, <1>4 DEF Uncounted, Typed
<1>7. /\ mapping' \in [Users -> Requests \cup {None}]
      /\ \A u \in Users : mapping'[u] \in Requests =>
            /\ mapping'[u] = mapping[u]
            /\ mapping[u] = r /\ stage[r] \in {"answer", "clear"} /\ "ended" \notin {"answer", "clear"}
                 => r \in cancelled \cup stopEvents
  <2>1. mapping \in [Users -> Requests \cup {None}] /\ None \notin Requests
    BY <1>2, QueueAssumption DEF Typed, Requests
  <2>2. CASE mapping' = mapping /\ (from = "clear" => r \in cancelled \cup stopEvents)
    BY <1>4, <2>1, <2>2
  <2>3. CASE mapping' = [mapping EXCEPT ![From[r]] = None]
    <3>1. \A u \in Users : mapping'[u] = IF u = From[r] THEN None ELSE mapping[u]
      BY <2>1, <2>3
    <3>2. \A u \in Users : mapping[u] = r => u = From[r]
      BY <1>2 DEF MappingInv
    <3>3. mapping' \in [Users -> Requests \cup {None}]
      BY <2>1, <2>3
    <3> QED BY <2>1, <3>1, <3>2, <3>3
  <2> QED BY <1>1, <2>2, <2>3
<1>8. Typed'
  BY <1>1, <1>2, <1>3, <1>4, <1>5, <1>6, <1>7, TypedMove DEF Typed
<1>9. LineInv'
  BY <1>1, <1>2, <1>3, <1>4, LineMove
<1>10. EntryInv' /\ MappingInv'
  <2>1. "ended" \notin Running
    BY <1>3
  <2>2. \A q \in Requests : q # r => home'[q] = home[q]
    BY <1>4 DEF Homes
  <2> QED BY <1>1, <1>2, <1>3, <1>4, <1>5, <1>7, <2>1, <2>2, HandlesMove
<1>11. LimitsInv'
  <2>1. /\ Run("ended") = 0 /\ Run(stage[r]) = 1 /\ Counts("ended") = 0 /\ Counts(stage[r]) = 1
        /\ Admits("ended") = 0 /\ Admits(stage[r]) = 1
    BY <1>3, <1>4 DEF Run, Counts, Admits
  <2>2. /\ gate' = gate + Run("ended") - Run(stage[r])
        /\ ~(Run("ended") > Run(stage[r])) /\ ~(Admits("ended") > Admits(stage[r]))
    BY <1>1, <1>6, <2>1
  <2>3. userCount' = [userCount EXCEPT ![From[r]] = @ + Counts("ended") - Counts(stage[r])]
    <3>1. userCount[From[r]] + Counts("ended") - Counts(stage[r]) = userCount[From[r]] - 1
      BY <1>4, <1>6, <2>1
    <3> QED BY <1>6, <3>1
  <2> QED BY <1>1, <1>2, <1>3, <1>4, <2>2, <2>3, LimitsMove
<1> QED BY <1>8, <1>9, <1>10, <1>11 DEF QueueInv

-----------------------------------------------------------------------------
\* The command /stop that reached the head of a user's requests in the line.
LEMMA RemoveInv ==
  ASSUME QueueInv, Remove
  PROVE  QueueInv'
<1>1. Typed /\ LineInv /\ LimitsInv /\ EntryInv /\ MappingInv
  BY DEF QueueInv
<1>2. Typed' /\ LineInv'
  BY <1>1, Removed
<1> DEFINE q == line[cmd.at]
           mine == {k \in 1..Len(q) : From[q[k]] = cmd.user}
<1>3. UNCHANGED <<gate, inflight, mapping, marker, stopEvents, commands, troubles, crashes>>
  BY DEF Remove, counters
<1>4. CASE mine = {}
  <2>1. UNCHANGED <<stage, home, userCount, cancelled>>
    BY <1>4 DEF Remove
  <2>2. LimitsInv'
    BY <1>1, <1>3, <2>1, LimitsKept
  <2>3. EntryInv' /\ MappingInv'
    BY <1>1, <1>3, <2>1, HandlesKept
  <2> QED BY <1>2, <2>2, <2>3 DEF QueueInv
<1>5. CASE mine # {}
  <2> DEFINE k == CHOOSE x \in mine : \A y \in mine : x <= y
             r == q[k]
  <2>1. cmd.at \in Instances /\ cmd.user \in Users /\ q \in Seq(Requests) /\ Len(q) \in Nat
    <3>1. cmd.pc = "remove"
      BY DEF Remove
    <3>2. cmd.at \in Instances /\ cmd.user \in Users
      BY <1>1, <3>1 DEF Typed
    <3> QED BY <1>1, <3>2 DEF Typed
  <2>2. k \in mine
    <3>1. mine \in SUBSET (1..Len(q)) /\ Len(q) \in Nat
      BY <2>1
    <3>2. \E x \in mine : \A y \in mine : x <= y
      <4> HIDE DEF mine, q
      <4> QED BY <1>5, <3>1, HasFirst
    <3> HIDE DEF mine
    <3> QED BY <3>2
  <2>3. /\ stage' = [stage EXCEPT ![r] = "ended"] /\ home' = [home EXCEPT ![r] = None]
        /\ userCount' = Uncounted(cmd.user) /\ cancelled \subseteq cancelled'
    BY <1>5 DEF Remove
  <2>4. k \in 1..Len(q) /\ From[r] = cmd.user
    BY <2>2
  <2> HIDE DEF mine, k
  <2>5. r \in Requests /\ stage[r] = "queued"
    BY <1>1, <2>1, <2>4 DEF LineInv
  <2> HIDE DEF r, q
  <2>6. /\ "queued" \in Counted \ Running /\ "ended" \notin Counted /\ "ended" \in Stages \ Running
    BY StagesOf
  <2>7. Moves(r, "ended") /\ Homes(r)
    BY <1>1, <2>3 DEF Moves, Homes, Typed
  <2>8. EntryInv' /\ MappingInv'
    <3>1. stage[r] \notin {"answer", "clear"} /\ stage[r] \notin Running
      BY <2>5, <2>6
    <3> QED BY <1>1, <1>3, <2>3, <2>5, <2>6, <2>7, <3>1, HandlesMove DEF Homes
  <2>9. LimitsInv'
    <3>1. /\ Run("ended") = 0 /\ Run(stage[r]) = 0 /\ Counts("ended") = 0 /\ Counts(stage[r]) = 1
          /\ Admits("ended") = 0 /\ Admits(stage[r]) = 1
      BY <2>5, <2>6 DEF Run, Counts, Admits
    <3>2. /\ gate' = gate + Run("ended") - Run(stage[r])
          /\ ~(Run("ended") > Run(stage[r])) /\ ~(Admits("ended") > Admits(stage[r]))
      BY <1>1, <1>3, <3>1 DEF Typed
    <3>3. userCount' = [userCount EXCEPT ![From[r]] = @ + Counts("ended") - Counts(stage[r])]
      <4>1. userCount[From[r]] \in Int
        BY <1>1, <2>1, <2>4 DEF Typed
      <4>2. userCount[From[r]] + Counts("ended") - Counts(stage[r]) = userCount[From[r]] - 1
        BY <3>1, <4>1
      <4> QED BY <2>3, <2>4, <4>2 DEF Uncounted
    <3> QED BY <1>1, <1>3, <2>5, <2>6, <2>7, <3>2, <3>3, LimitsMove
  <2> QED BY <1>2, <2>8, <2>9 DEF QueueInv
<1> QED BY <1>4, <1>5

\* The other steps of /stop, and a channel that is stopped.
LEMMA CommandInv ==
  ASSUME QueueInv,
         \/ \E i \in Instances, u \in Users : Ask(i, u)
         \/ Cancel \/ Lookup \/ WriteEvent \/ Mark \/ \E r \in Requests : HangUp(r)
  PROVE  QueueInv'
<1>1. Typed /\ LineInv /\ LimitsInv /\ EntryInv /\ MappingInv
  BY DEF QueueInv
<1>2. /\ UNCHANGED <<stage, home, line, userCount, gate, mapping>>
      /\ Trouble \/ NoTrouble \/ Command
      /\ cancelled \subseteq cancelled' /\ stopEvents \subseteq stopEvents'
      /\ inflight' = inflight \/ inflight' = [inflight EXCEPT ![cmd.at][cmd.user] = NoEntry]
  BY DEF Ask, Cancel, Lookup, WriteEvent, Mark, HangUp, stores, NoTrouble
<1>3. /\ commands' \in Nat /\ troubles' \in Nat /\ crashes' \in Nat /\ crashes' = crashes
      /\ troubles' = 0 => troubles = 0
  BY <1>1, <1>2, TroubleTypes
<1>4. /\ cmd' \in CmdRec
      /\ cmd'.pc # "idle" => cmd'.at \in Instances /\ cmd'.user \in Users
      /\ cmd'.pc = "event" => cmd'.names \in Requests
  <2>1. CASE \E i \in Instances, u \in Users : Ask(i, u)
    BY <2>1 DEF Ask, CmdRec
  <2>2. CASE Cancel
    <3>1. cmd \in CmdRec /\ cmd.at \in Instances /\ cmd.user \in Users
      BY <1>1, <2>2 DEF Cancel, Typed
    <3> DEFINE n == inflight[cmd.at][cmd.user].names
    <3>2. n \in Requests \cup {None}
      BY <1>1, <3>1 DEF Typed, Entries
    <3>3. PICK pc \in {"lookup", "event"} : /\ cmd' = [cmd EXCEPT !.pc = pc, !.names = n]
                                            /\ pc = "event" => n # None
      BY <2>2 DEF Cancel, Then
    <3> HIDE DEF n
    <3> QED BY <3>1, <3>2, <3>3 DEF CmdRec
  <2>3. CASE Lookup
    <3>1. cmd \in CmdRec /\ cmd.at \in Instances /\ cmd.user \in Users
      BY <1>1, <2>3 DEF Lookup, Typed
    <3> DEFINE n == mapping[cmd.user]
    <3>2. n \in Requests \cup {None}
      BY <1>1, <3>1 DEF Typed
    <3>3. PICK pc \in {"mark", "event"}, m \in {n, None} :
             /\ cmd' = [cmd EXCEPT !.pc = pc, !.names = m]
             /\ pc = "event" => m # None
      BY <2>3 DEF Lookup, Then
    <3> HIDE DEF n
    <3> QED BY <3>1, <3>2, <3>3 DEF CmdRec
  <2>4. CASE WriteEvent
    <3>1. cmd \in CmdRec /\ cmd.at \in Instances /\ cmd.user \in Users
      BY <1>1, <2>4 DEF WriteEvent, Typed
    <3>2. cmd' = [cmd EXCEPT !.pc = "mark", !.names = None]
      BY <2>4 DEF WriteEvent, Then
    <3> QED BY <3>1, <3>2 DEF CmdRec
  <2>5. CASE Mark
    BY <2>5 DEF Mark, Idle, CmdRec
  <2>6. CASE \E r \in Requests : HangUp(r)
    BY <1>1, <2>6 DEF HangUp, Typed
  <2> QED BY <2>1, <2>2, <2>3, <2>4, <2>5, <2>6
<1>5. /\ inflight' \in [Instances -> [Users -> Entries]]
      /\ \A i \in Instances, u \in Users : inflight'[i][u] # NoEntry => inflight[i][u] # NoEntry
  <2>1. NoEntry \in Entries /\ inflight \in [Instances -> [Users -> Entries]]
    BY <1>1 DEF NoEntry, Entries, Typed
  <2> QED BY <1>2, <2>1
<1>6. Typed'
  BY <1>1, <1>2, <1>3, <1>4, <1>5 DEF Typed
<1>7. LineInv'
  BY <1>1, <1>2, LineKept
<1>8. EntryInv' /\ MappingInv'
  BY <1>1, <1>2, <1>3, <1>5, HandlesKept
<1>9. LimitsInv'
  BY <1>1, <1>2, <1>3, LimitsKept
<1> QED BY <1>6, <1>7, <1>8, <1>9 DEF QueueInv

-----------------------------------------------------------------------------
\* A key that runs out while nothing it counts is there, or else as a trouble.
LEMMA TimeInv ==
  ASSUME QueueInv, Time
  PROVE  QueueInv'
<1>1. Typed /\ LineInv /\ LimitsInv /\ EntryInv /\ MappingInv
  BY DEF QueueInv
<1>2. /\ UNCHANGED <<stage, home, line, mapping, stopEvents, inflight, cancelled, cmd>>
      /\ Trouble \/ NoTrouble
  BY DEF Time, GateExpires, GateForgets, GateRunsOut, MarkerExpires, CountExpires, NoTrouble
<1>3. /\ commands' \in Nat /\ troubles' \in Nat /\ crashes' \in Nat /\ crashes' = crashes
      /\ troubles' = 0 => troubles = 0
      /\ Trouble => LimitsInv'
  BY <1>1, <1>2, TroubleTypes
<1>4. gate' \in Int /\ userCount' \in [Users -> Int]
  BY <1>1 DEF Typed, Time, GateExpires, GateForgets, GateRunsOut, MarkerExpires, CountExpires
<1>5. Typed'
  BY <1>1, <1>2, <1>3, <1>4 DEF Typed
<1>6. LineInv' /\ EntryInv' /\ MappingInv'
  BY <1>1, <1>2, <1>3, LineKept, HandlesKept
<1>7. ASSUME GateExpires PROVE LimitsInv'
  <2>1. In(Running) = {} /\ gate' = 0 /\ userCount' = userCount /\ GlobalMax \in Nat \ {0}
    BY <1>7, QueueAssumption DEF GateExpires, GateRunsOut
  <2>2. In(Running)' = {} /\ \A u \in Users : Mine(u)' = Mine(u) /\ Admitted(u)' = Admitted(u)
    BY <1>2, <2>1 DEF In, Mine, Admitted
  <2>3. Cardinality({}) = 0
    BY FS_EmptySet
  <2>4. GateInv'
    BY <2>1, <2>2, <2>3 DEF GateInv
  <2> QED BY <1>1, <1>3, <2>1, <2>2, <2>4 DEF LimitsInv, UserInv
<1>8. ASSUME \E u \in Users : CountExpires(u) /\ ~(\E r \in In(Counted) : From[r] = u)
      PROVE  LimitsInv'
  <2>1. PICK v \in Users : CountExpires(v) /\ Mine(v) = {}
    BY <1>8 DEF Mine
  <2>2. gate' = gate /\ \A u \in Users : userCount'[u] = IF u = v THEN 0 ELSE userCount[u]
    BY <1>1, <2>1 DEF CountExpires, Typed
  <2>3. /\ In(Running)' = In(Running) /\ Cardinality({}) = 0
        /\ \A u \in Users : Mine(u)' = Mine(u) /\ Admitted(u)' = Admitted(u)
    BY <1>2, FS_EmptySet DEF In, Mine, Admitted
  <2>4. \A u \in Users : UserInv(u) => UserInv(u)'
    BY <1>3, <2>1, <2>2, <2>3 DEF UserInv
  <2>5. GateInv => GateInv'
    BY <1>3, <2>2, <2>3 DEF GateInv
  <2> QED BY <1>1, <1>3, <2>4, <2>5 DEF LimitsInv
<1>9. ASSUME \E u \in Users : MarkerExpires(u) PROVE LimitsInv'
  <2>1. UNCHANGED <<gate, userCount>>
    BY <1>9 DEF MarkerExpires
  <2> QED BY <1>1, <1>2, <1>3, <2>1, LimitsKept
<1>10. \/ Trouble \/ GateExpires \/ \E u \in Users : MarkerExpires(u)
       \/ \E u \in Users : CountExpires(u) /\ ~(\E r \in In(Counted) : From[r] = u)
  BY DEF Time, GateForgets, CountExpires
<1> QED BY <1>3, <1>5, <1>6, <1>7, <1>8, <1>9, <1>10 DEF QueueInv

\* A replica that dies gives nothing back: its requests stay counted.
LEMMA CrashInv ==
  ASSUME QueueInv, NEW i \in Instances, Crash(i)
  PROVE  QueueInv'
<1>1. Typed /\ LineInv /\ LimitsInv /\ EntryInv /\ MappingInv
  BY DEF QueueInv
<1>2. /\ \A r \in Requests : /\ stage'[r] = IF home[r] = i THEN "ended" ELSE stage[r]
                             /\ home'[r] = IF home[r] = i THEN None ELSE home[r]
      /\ line' = [line EXCEPT ![i] = <<>>]
      /\ inflight' = [inflight EXCEPT ![i] = [u \in Users |-> NoEntry]]
      /\ UNCHANGED <<userCount, gate, mapping, stopEvents, cancelled, commands, troubles>>
      /\ crashes' = crashes + 1
      /\ cmd' = IF cmd.at = i THEN Idle ELSE cmd
  BY DEF Crash, stores
<1>3. "ended" \in Stages /\ "ended" \notin Counted /\ Running \subseteq Counted /\ i # None
  BY StagesOf, QueueAssumption
<1>4. Typed'
  <2>1. /\ stage' \in [Requests -> Stages] /\ home' \in [Requests -> Instances \cup {None}]
        /\ \A r \in Requests : stage'[r] \in Counted => home'[r] \in Instances
    BY <1>1, <1>2, <1>3 DEF Crash, Typed
  <2>2. line' \in [Instances -> Seq(Requests)]
    BY <1>1, <1>2, EmptySeq DEF Typed
  <2>3. inflight' \in [Instances -> [Users -> Entries]]
    <3>1. [u \in Users |-> NoEntry] \in [Users -> Entries]
      BY DEF NoEntry, Entries
    <3> QED BY <1>1, <1>2, <3>1 DEF Typed
  <2>4. Idle \in CmdRec /\ Idle.pc = "idle"
    BY DEF Idle, CmdRec
  <2>5. /\ cmd' \in CmdRec
        /\ cmd'.pc # "idle" => cmd'.at \in Instances /\ cmd'.user \in Users
        /\ cmd'.pc = "event" => cmd'.names \in Requests
    BY <1>1, <1>2, <2>4 DEF Typed
  <2>6. crashes' \in Nat
    BY <1>1, <1>2 DEF Typed
  <2> QED BY <1>1, <1>2, <2>1, <2>2, <2>3, <2>5, <2>6 DEF Typed
<1>5. LineInv'
  <2>1. \A h \in Instances : line'[h] = IF h = i THEN <<>> ELSE line[h]
    BY <1>1, <1>2 DEF Typed
  <2>2. \A h \in Instances : \A k \in 1..Len(line[h]) : line[h][k] \in Requests
    BY <1>1 DEF Typed
  <2>3. ASSUME NEW h \in Instances, NEW k \in 1..Len(line'[h])
        PROVE  /\ stage'[line'[h][k]] = "queued" /\ home'[line'[h][k]] = h
               /\ \A l \in 1..Len(line'[h]) : l # k => line'[h][l] # line'[h][k]
    <3>1. CASE h = i
      BY <2>1, <2>3, <3>1
    <3>2. CASE h # i
      BY <1>1, <1>2, <2>1, <2>2, <3>2 DEF LineInv
    <3> QED BY <3>1, <3>2
  <2> QED BY <2>3 DEF LineInv
<1>6. LimitsInv'
  <2> SUFFICES ASSUME troubles = 0 PROVE GateInv' /\ \A u \in Users : UserInv(u)'
    BY <1>2 DEF LimitsInv
  <2>1. GateInv /\ \A u \in Users : UserInv(u)
    BY <1>1 DEF LimitsInv
  <2>2. /\ In(Running)' \subseteq In(Running)
        /\ \A u \in Users : Mine(u)' \subseteq Mine(u) /\ Admitted(u)' \subseteq Admitted(u)
    BY <1>2, <1>3 DEF In, Mine, Admitted
  <2>3. /\ Cardinality(In(Running)') <= Cardinality(In(Running))
        /\ Cardinality(In(Running)') \in Nat /\ Cardinality(In(Running)) \in Nat
        /\ \A u \in Users :
              /\ Cardinality(Mine(u)') <= Cardinality(Mine(u))
              /\ Cardinality(Mine(u)') \in Nat /\ Cardinality(Mine(u)) \in Nat
              /\ Cardinality(Admitted(u)') <= Cardinality(Admitted(u))
              /\ Cardinality(Admitted(u)') \in Nat /\ Cardinality(Admitted(u)) \in Nat
    <3>1. /\ In(Running) \in SUBSET Requests /\ In(Running)' \in SUBSET Requests
          /\ \A u \in Users : /\ Mine(u) \in SUBSET Requests /\ Mine(u)' \in SUBSET Requests
                              /\ Admitted(u) \in SUBSET Requests /\ Admitted(u)' \in SUBSET Requests
      BY DEF In, Mine, Admitted
    <3> QED BY <2>2, <3>1, FiniteRequests
  <2>4. crashes' # 0 /\ gate \in Int /\ \A u \in Users : userCount[u] \in Int
    BY <1>1, <1>2 DEF Typed
  <2>5. GlobalMax \in Nat /\ MaxPerUser \in Nat
    BY QueueAssumption
  <2>6. GateInv'
    BY <1>2, <2>1, <2>3, <2>4, <2>5 DEF GateInv
  <2>7. \A u \in Users : UserInv(u)'
    BY <1>2, <2>1, <2>3, <2>4, <2>5 DEF UserInv
  <2> QED BY <2>6, <2>7
<1>7. EntryInv'
  <2> SUFFICES ASSUME NEW h \in Instances, NEW u \in Users, inflight'[h][u] # NoEntry
               PROVE  \E r \in In(Running)' : home'[r] = h /\ From[r] = u
    BY DEF EntryInv
  <2>1. h # i /\ inflight[h][u] # NoEntry
    BY <1>1, <1>2 DEF Typed
  <2>2. PICK r \in In(Running) : home[r] = h /\ From[r] = u
    BY <1>1, <2>1 DEF EntryInv
  <2> QED BY <1>2, <2>1, <2>2 DEF In
<1>8. MappingInv'
  <2>1. crashes' > 0
    BY <1>1, <1>2 DEF Typed
  <2> QED BY <1>1, <1>2, <2>1 DEF MappingInv
<1> QED BY <1>4, <1>5, <1>6, <1>7, <1>8 DEF QueueInv

-----------------------------------------------------------------------------
LEMMA StepInv == QueueInv /\ [Next]_vars => QueueInv'
<1> SUFFICES ASSUME QueueInv, [Next]_vars PROVE QueueInv'
  OBVIOUS
<1>1. CASE UNCHANGED vars
  <2>1. UNCHANGED <<stage, home, line, userCount, gate, mapping, marker, stopEvents, inflight,
                    cancelled, cmd, commands, troubles, crashes>>
    BY <1>1 DEF vars, stores, counters
  <2>2. In(Running)' = In(Running) /\ \A u \in Users : Mine(u)' = Mine(u) /\ Admitted(u)' = Admitted(u)
    BY <2>1 DEF In, Mine, Admitted
  <2>3. Typed'
    BY <2>1 DEF QueueInv, Typed
  <2>4. LineInv'
    BY <2>1 DEF QueueInv, LineInv
  <2>5. LimitsInv'
    BY <2>1, <2>2 DEF QueueInv, LimitsInv, GateInv, UserInv
  <2>6. EntryInv'
    BY <2>1, <2>2 DEF QueueInv, EntryInv
  <2>7. MappingInv'
    BY <2>1 DEF QueueInv, MappingInv
  <2> QED BY <2>3, <2>4, <2>5, <2>6, <2>7 DEF QueueInv
<1>2. ASSUME NEW r \in Requests, Served(r) PROVE QueueInv'
  <2>1. CASE Reject(r) \/ Full(r) \/ GiveUp(r)
    BY <2>1, LeaveInv
  <2>2. CASE Enqueue(r)
    BY <2>2, EnqueueInv
  <2>3. CASE Pass(r)
    BY <2>3, PassInv
  <2>4. CASE CheckMarker(r) \/ Create(r) \/ Break(r)
    BY <2>4, WorkInv
  <2>5. CASE Clear(r) \/ Close(r)
    BY <2>5, FinishInv
  <2> QED BY <1>2, <2>1, <2>2, <2>3, <2>4, <2>5 DEF Served
<1>3. CASE \E i \in Instances : Take(i) \/ Discard(i)
  BY <1>3, DequeueInv
<1>4. CASE Stopping
  BY <1>4, RemoveInv, CommandInv DEF Stopping
<1>5. CASE Time
  BY <1>5, TimeInv
<1>6. CASE \E i \in Instances :
             (\E r \in Requests : Deliver(r, i)) \/ (\E u \in Users : Ask(i, u)) \/ Crash(i)
  BY <1>6, DeliverInv, CommandInv, CrashInv
<1>7. CASE \E r \in Requests : Answer(r) \/ PassBlindly(r) \/ HangUp(r)
  BY <1>7, WorkInv, PassInv, CommandInv
<1> QED BY <1>1, <1>2, <1>3, <1>4, <1>5, <1>6, <1>7 DEF Next, System

\* qaqueue.go, service.go: every reachable state of the queue and of /stop
\* satisfies the invariant, with replicas that die and Redis calls that fail.
THEOREM QueueInvariant == Spec => []QueueInv
BY InitInv, StepInv, PTL DEF Spec

\* acquireGlobalGate and redisCheckAndIncrUser (qaqueue.go): as long as Redis
\* answers, the two limits hold over all replicas and all the ways in which a
\* request may end, and while no replica dies the counters are exact.
THEOREM LimitsAreKept == Spec => []LimitsHold
<1>1. QueueInv => LimitsHold
  <2> SUFFICES ASSUME QueueInv, troubles = 0
               PROVE  /\ Cardinality(In(Running)) <= GlobalMax
                      /\ \A u \in Users : Cardinality({r \in Mine(u) : stage[r] # "over"}) <= MaxPerUser
                      /\ crashes = 0 => /\ gate = Cardinality(In(Running))
                                        /\ \A u \in Users : userCount[u] = Cardinality(Mine(u))
    BY DEF LimitsHold
  <2>1. GateInv /\ \A u \in Users : UserInv(u)
    BY DEF QueueInv, LimitsInv
  <2> QED BY <2>1 DEF GateInv, UserInv, Admitted
<1> QED BY <1>1, QueueInvariant, PTL

\* s.inflight and im:inflight:* (service.go): what /stop would cancel or stop
\* belongs to a request that still runs, or was stopped itself.
THEOREM HandlesAreFresh == Spec => []NoStaleHandles
<1>1. QueueInv => NoStaleHandles
  BY DEF QueueInv, EntryInv, MappingInv, NoStaleHandles
<1> QED BY <1>1, QueueInvariant, PTL
-----------------------------------------------------------------------------
(* The rest of the type invariant: what is queued stands in a line, lines   *)
(* and workers stay within their numbers, and only what is counted has a    *)
(* home.                                                                    *)

Busy(i) == {r \in In(Held) : home[r] = i}
Stands(r) == \E k \in 1..Len(line[home[r]]) : line[home[r]][k] = r

PlaceInv ==
    /\ \A r \in Requests : home[r] \in Instances => stage[r] \in Counted
    /\ \A i \in Instances : Len(line[i]) <= MaxSize
    /\ \A r \in Requests : stage[r] = "queued" => Stands(r)
    /\ \A i \in Instances : Cardinality(Busy(i)) <= Workers

Named ==
    /\ marker \subseteq Users /\ stopEvents \subseteq Requests /\ cancelled \subseteq Requests
    /\ commands <= MaxCommands /\ troubles + crashes <= MaxTroubles

FullInv == QueueInv /\ PlaceInv /\ Named

LEMMA BusyFinite ==
  \A i : /\ IsFiniteSet(Busy(i)) /\ Cardinality(Busy(i)) \in Nat
         /\ IsFiniteSet(Busy(i)') /\ Cardinality(Busy(i)') \in Nat
<1>1. \A i : Busy(i) \in SUBSET Requests /\ Busy(i)' \in SUBSET Requests
  BY DEF Busy, In
<1> QED BY <1>1, FiniteRequests

LEMMA InitFull == Init => FullInv
<1> SUFFICES ASSUME Init PROVE FullInv
  OBVIOUS
<1>1. {MaxSize, Workers, MaxCommands, MaxTroubles} \subseteq Nat /\ None \notin Instances
  BY QueueAssumption
<1>2. \A i \in Instances : Cardinality(Busy(i)) <= Workers
  <2>1. \A i : Busy(i) = {}
    BY StagesOf DEF Init, Busy, In
  <2>2. Cardinality({}) = 0
    BY FS_EmptySet
  <2> QED BY <1>1, <2>1, <2>2
<1>3. \A i \in Instances : Len(line[i]) = 0
  BY DEF Init
<1>4. PlaceInv
  BY <1>1, <1>2, <1>3 DEF Init, PlaceInv
<1>5. Named
  BY <1>1 DEF Init, Named
<1> QED BY <1>4, <1>5, InitInv DEF FullInv

\* Nothing moves.
LEMMA PlacesKept ==
  ASSUME PlaceInv, UNCHANGED <<stage, home, line>>
  PROVE  PlaceInv'
<1>1. \A i : Busy(i)' = Busy(i)
  BY DEF Busy, In
<1>2. \A i \in Instances : Cardinality(Busy(i)') <= Workers
  BY <1>1 DEF PlaceInv
<1>3. \A r \in Requests : Stands(r) => Stands(r)'
  BY DEF Stands
<1> QED BY <1>2, <1>3 DEF PlaceInv

\* Nobody new is held.
LEMMA WorkersKept ==
  ASSUME PlaceInv, \A i \in Instances : Busy(i)' \subseteq Busy(i)
  PROVE  \A i \in Instances : Cardinality(Busy(i)') <= Workers
<1> SUFFICES ASSUME NEW i \in Instances PROVE Cardinality(Busy(i)') <= Workers
  OBVIOUS
<1>1. Cardinality(Busy(i)') <= Cardinality(Busy(i))
  BY BusyFinite, FS_Subset
<1>2. Cardinality(Busy(i)) <= Workers /\ Workers \in Nat
  BY QueueAssumption DEF PlaceInv
<1> QED BY <1>1, <1>2, BusyFinite

\* A request outside the lines moves on.
LEMMA PlacesMove ==
  ASSUME Typed, PlaceInv, NEW r \in Requests, NEW to \in Stages \ {"queued"}, Moves(r, to), Homes(r),
         line' = line, stage[r] # "queued",
         home'[r] \in Instances => to \in Counted,
         to \in Held => stage[r] \in Held /\ home'[r] = home[r]
  PROVE  PlaceInv'
<1>1. \A q \in Requests : stage'[q] = IF q = r THEN to ELSE stage[q]
  BY DEF Moves, Typed
<1>2. \A i \in Instances : Busy(i)' \subseteq Busy(i)
  BY <1>1 DEF Busy, In, Homes
<1>3. \A q \in Requests : home'[q] \in Instances => stage'[q] \in Counted
  BY <1>1 DEF Homes, PlaceInv
<1>4. ASSUME NEW q \in Requests, stage'[q] = "queued"
      PROVE  Stands(q)'
  <2>1. q # r /\ stage[q] = "queued" /\ home'[q] = home[q]
    BY <1>1, <1>4 DEF Homes
  <2> QED BY <2>1 DEF PlaceInv, Stands
<1>5. \A i \in Instances : Len(line'[i]) <= MaxSize
  BY DEF PlaceInv
<1>6. \A i \in Instances : Cardinality(Busy(i)') <= Workers
  BY <1>2, WorkersKept
<1> QED BY <1>3, <1>4, <1>5, <1>6 DEF PlaceInv

\* The others of a line still stand in it when its k-th request has left.
LEMMA OthersStand ==
  ASSUME Typed, PlaceInv, NEW i \in Instances, NEW k \in 1..Len(line[i]),
         NEW s \in Seq(Requests), line' = [line EXCEPT ![i] = s],
         Len(s) = Len(line[i]) - 1,
         \A j \in 1..Len(s) : s[j] = IF j < k THEN line[i][j] ELSE line[i][j + 1],
         \A q \in Requests : q # line[i][k] => stage'[q] = stage[q] /\ home'[q] = home[q],
         stage'[line[i][k]] # "queued"
  PROVE  /\ \A h \in Instances : Len(line'[h]) <= MaxSize
         /\ \A q \in Requests : stage'[q] = "queued" => Stands(q)'
<1>1. /\ line[i] \in Seq(Requests) /\ Len(line[i]) \in Nat /\ Len(s) \in Nat /\ MaxSize \in Nat
      /\ \A h \in Instances : line'[h] = IF h = i THEN s ELSE line[h]
  BY QueueAssumption DEF Typed
<1>2. \A h \in Instances : Len(line'[h]) <= MaxSize
  <2>1. Len(line[i]) <= MaxSize
    BY DEF PlaceInv
  <2>2. Len(s) <= MaxSize
    BY <1>1, <2>1
  <2> QED BY <1>1, <2>2 DEF PlaceInv
<1>3. ASSUME NEW q \in Requests, stage'[q] = "queued"
      PROVE  Stands(q)'
  <2>1. q # line[i][k] /\ stage[q] = "queued" /\ home'[q] = home[q] /\ home[q] \in Instances
    BY <1>3, StagesOf DEF Typed
  <2>2. PICK j \in 1..Len(line[home[q]]) : line[home[q]][j] = q
    BY <2>1 DEF PlaceInv, Stands
  <2>3. CASE home[q] # i
    <3>1. line'[home'[q]] = line[home[q]]
      BY <1>1, <2>1, <2>3
    <3> QED BY <2>2, <3>1 DEF Stands
  <2>4. CASE home[q] = i
    <3> DEFINE l == IF j < k THEN j ELSE j - 1
    <3>1. j \in 1..Len(line[i]) /\ j # k /\ line[i][j] = q
      BY <2>1, <2>2, <2>4
    <3>2. l \in 1..Len(s) /\ s[l] = q
      <4>1. l \in 1..Len(s) /\ (IF l < k THEN l = j ELSE l + 1 = j)
        BY <1>1, <3>1
      <4> QED BY <3>1, <4>1
    <3>3. line'[home'[q]] = s
      BY <1>1, <2>1, <2>4
    <3> HIDE DEF l
    <3> QED BY <3>2, <3>3 DEF Stands
  <2> QED BY <2>3, <2>4
<1> QED BY <1>2, <1>3

\* One element more, at most.
LEMMA OneMore ==
    ASSUME NEW S, IsFiniteSet(S), NEW x, NEW T, T \subseteq S \cup {x}
    PROVE  Cardinality(T) \in Nat /\ Cardinality(T) <= Cardinality(S) + 1
<1>1. Cardinality(S) \in Nat
  BY FS_CardinalityType
<1>2. IsFiniteSet(T \ {x}) /\ Cardinality(T \ {x}) \in Nat
      /\ Cardinality(T \ {x}) <= Cardinality(S)
  <2>1. T \ {x} \subseteq S
    OBVIOUS
  <2> QED BY <2>1, FS_Subset, FS_CardinalityType
<1>3. CASE x \in T
  <2>1. IsFiniteSet(T)
    <3>1. IsFiniteSet(S \cup {x})
      BY FS_AddElement
    <3> QED BY <3>1, FS_Subset
  <2>2. Cardinality(T \ {x}) = Cardinality(T) - 1
    BY <1>3, <2>1, FS_RemoveElement
  <2>3. Cardinality(T) \in Nat
    BY <2>1, FS_CardinalityType
  <2> QED BY <1>1, <1>2, <2>2, <2>3
<1>4. CASE x \notin T
  <2>1. T \subseteq S
    BY <1>4
  <2>2. IsFiniteSet(T) /\ Cardinality(T) <= Cardinality(S)
    BY <2>1, FS_Subset
  <2>3. Cardinality(T) \in Nat
    BY <2>2, FS_CardinalityType
  <2> QED BY <1>1, <2>2, <2>3
<1> QED BY <1>3, <1>4

LEMMA EnqueuePlaces ==
  ASSUME Typed, PlaceInv, NEW r \in Requests, Enqueue(r)
  PROVE  PlaceInv'
<1>1. /\ Goes(r, "counted", "queued") /\ Len(line[home[r]]) < MaxSize
      /\ line' = [line EXCEPT ![home[r]] = Append(@, r)]
  BY DEF Enqueue
<1>2. /\ Moves(r, "queued") /\ Homes(r) /\ stage[r] = "counted"
      /\ home[r] \in Instances /\ home'[r] = home[r]
  BY <1>1, StagesOf, GoesMoves
<1> DEFINE q == line[home[r]]
<1>3. /\ Len(Append(q, r)) = Len(q) + 1 /\ Append(q, r)[Len(q) + 1] = r
      /\ Len(q) \in Nat /\ \A j \in 1..Len(q) : Append(q, r)[j] = q[j]
  <2>1. q \in Seq(Requests)
    BY <1>2 DEF Typed
  <2> HIDE DEF q
  <2> QED BY <2>1, AppendProperties
<1>4. \A h \in Instances : line'[h] = IF h = home[r] THEN Append(q, r) ELSE line[h]
  BY <1>1, <1>2 DEF Typed
<1>5. \A p \in Requests : stage'[p] = IF p = r THEN "queued" ELSE stage[p]
  BY <1>2 DEF Moves, Typed
<1>6. "queued" \notin Held /\ "queued" \in Counted
  BY DEF Held, Counted
<1>7. \A i \in Instances : Busy(i)' \subseteq Busy(i)
  BY <1>2, <1>5, <1>6 DEF Busy, In, Homes
<1>8. \A p \in Requests : home'[p] \in Instances => stage'[p] \in Counted
  BY <1>2, <1>5, <1>6 DEF Homes, PlaceInv
<1>9. ASSUME NEW p \in Requests, stage'[p] = "queued"
      PROVE  Stands(p)'
  <2>1. CASE p = r
    <3>1. line'[home'[p]] = Append(q, r)
      BY <1>2, <1>4, <2>1
    <3>2. Len(q) + 1 \in 1..Len(Append(q, r))
      BY <1>3
    <3> QED BY <1>3, <2>1, <3>1, <3>2 DEF Stands
  <2>2. CASE p # r
    <3>1. stage[p] = "queued" /\ home'[p] = home[p] /\ home[p] \in Instances
      BY <1>2, <1>5, <1>9, <2>2, StagesOf DEF Homes, Typed
    <3>2. PICK j \in 1..Len(line[home[p]]) : line[home[p]][j] = p
      BY <3>1 DEF PlaceInv, Stands
    <3>3. CASE home[p] # home[r]
      <4>1. line'[home'[p]] = line[home[p]]
        BY <1>4, <3>1, <3>3
      <4> QED BY <3>2, <4>1 DEF Stands
    <3>4. CASE home[p] = home[r]
      <4>1. line'[home'[p]] = Append(q, r)
        BY <1>4, <3>1, <3>4
      <4>2. j \in 1..Len(Append(q, r)) /\ Append(q, r)[j] = p
        BY <1>3, <3>2, <3>4
      <4> HIDE DEF q
      <4> QED BY <4>1, <4>2 DEF Stands
    <3> QED BY <3>3, <3>4
  <2> QED BY <2>1, <2>2
<1>10. \A h \in Instances : Len(line'[h]) <= MaxSize
  <2>1. Len(Append(q, r)) <= MaxSize
    BY <1>1, <1>3, QueueAssumption
  <2> QED BY <1>4, <2>1 DEF PlaceInv
<1>11. \A i \in Instances : Cardinality(Busy(i)') <= Workers
  BY <1>7, WorkersKept
<1> QED BY <1>8, <1>9, <1>10, <1>11 DEF PlaceInv

\* The head of a line goes to a free worker, or nowhere.
LEMMA DequeuePlaces ==
  ASSUME Typed, LineInv, PlaceInv, NEW i \in Instances, Take(i) \/ Discard(i)
  PROVE  PlaceInv'
<1> DEFINE r == Head(line[i])
<1>1. PICK to \in {"gate", "ended"} :
        /\ Goes(r, "queued", to) /\ line[i] # <<>> /\ FreeWorker(i)
        /\ line' = [line EXCEPT ![i] = Tail(line[i])]
  <2>1. CASE Take(i)
    BY <2>1 DEF Take, Dequeue
  <2>2. CASE Discard(i)
    BY <2>2 DEF Discard, Dequeue
  <2> QED BY <2>1, <2>2
<1>2. line[i] \in Seq(Requests)
  BY DEF Typed
<1>3. /\ Len(line[i]) \in Nat /\ Len(line[i]) >= 1 /\ r = line[i][1]
      /\ Tail(line[i]) \in Seq(Requests) /\ Len(Tail(line[i])) = Len(line[i]) - 1
      /\ \A j \in 1..Len(Tail(line[i])) : Tail(line[i])[j] = line[i][j + 1]
  BY <1>1, <1>2, HeadTailProperties, EmptySeq
<1>4. 1 \in 1..Len(line[i]) /\ r \in Requests
  BY <1>2, <1>3
<1>5. home[r] = i
  BY <1>3, <1>4 DEF LineInv
<1> HIDE DEF r
<1>6. /\ Moves(r, to) /\ Homes(r) /\ stage[r] = "queued"
      /\ to \in Counted => home'[r] = home[r]
      /\ to \in {"gate", "ended"}
  <2>1. to \in Counted \cup {"ended"} /\ "queued" \in Counted
    BY StagesOf
  <2> QED BY <1>1, <1>4, <2>1, GoesMoves
<1>7. \A p \in Requests : stage'[p] = IF p = r THEN to ELSE stage[p]
  BY <1>6 DEF Moves, Typed
<1>8. /\ \A h \in Instances : Len(line'[h]) <= MaxSize
      /\ \A q \in Requests : stage'[q] = "queued" => Stands(q)'
  <2> DEFINE s == Tail(line[i])
  <2>1. \A j \in 1..Len(s) : s[j] = IF j < 1 THEN line[i][j] ELSE line[i][j + 1]
    BY <1>3
  <2>2. s \in Seq(Requests) /\ line' = [line EXCEPT ![i] = s] /\ Len(s) = Len(line[i]) - 1
    BY <1>1, <1>3
  <2>3. \A q \in Requests : q # line[i][1] => stage'[q] = stage[q] /\ home'[q] = home[q]
    BY <1>3, <1>6, <1>7 DEF Homes
  <2>4. stage'[line[i][1]] # "queued"
    BY <1>3, <1>4, <1>6, <1>7
  <2> HIDE DEF s
  <2> QED BY ONLY Typed, PlaceInv, i \in Instances, <1>4, <2>1, <2>2, <2>3, <2>4, OthersStand
<1>9. \A p \in Requests : home'[p] \in Instances => stage'[p] \in Counted
  <2>1. to = "ended" => home'[r] = None
    BY <1>1, <1>4 DEF Goes, Typed
  <2>2. "gate" \in Counted /\ None \notin Instances
    BY QueueAssumption, StagesOf
  <2> QED BY <1>6, <1>7, <2>1, <2>2 DEF Homes, PlaceInv
<1>10. ASSUME NEW h \in Instances PROVE Cardinality(Busy(h)') <= Workers
  <2>1. Workers \in Nat /\ Cardinality(Busy(h)) <= Workers
    BY QueueAssumption DEF PlaceInv
  <2>2. CASE h # i \/ to = "ended"
    <3>1. Busy(h)' \subseteq Busy(h)
      <4>1. "ended" \notin Held
        BY DEF Held
      <4>2. h # i => r \notin Busy(h)'
        <5>1. to = "gate" => home'[r] = i
          BY <1>5, <1>6, StagesOf
        <5> QED BY <1>4, <1>6, <1>7, <4>1, <5>1 DEF Busy, In
      <4>3. to = "ended" => r \notin Busy(h)'
        BY <1>4, <1>7, <4>1 DEF Busy, In
      <4> QED BY <1>6, <1>7, <2>2, <4>2, <4>3 DEF Busy, In, Homes
    <3>2. Cardinality(Busy(h)') <= Cardinality(Busy(h))
      BY <3>1, BusyFinite, FS_Subset
    <3> QED BY <2>1, <3>2, BusyFinite
  <2>3. CASE h = i
    <3>1. Busy(h)' \subseteq Busy(h) \cup {r}
      BY <1>6, <1>7 DEF Busy, In, Homes
    <3>2. Cardinality(Busy(h)) < Workers
      BY <1>1, <2>3 DEF FreeWorker, Busy
    <3>3. Cardinality(Busy(h)') <= Cardinality(Busy(h)) + 1
      BY <3>1, BusyFinite, OneMore
    <3> QED BY <2>1, <3>2, <3>3, BusyFinite
  <2> QED BY <2>2, <2>3
<1> QED BY <1>8, <1>9, <1>10 DEF PlaceInv

\* /stop takes a request out of a line.
LEMMA RemovePlaces ==
  ASSUME Typed, LineInv, PlaceInv, Remove
  PROVE  PlaceInv'
<1> DEFINE i == cmd.at
           q == line[i]
           mine == {k \in 1..Len(q) : From[q[k]] = cmd.user}
<1>1. i \in Instances /\ q \in Seq(Requests) /\ Len(q) \in Nat
  <2>1. cmd.at \in Instances
    BY DEF Remove, Typed
  <2> QED BY <2>1 DEF Typed
<1>2. CASE mine = {}
  <2>1. UNCHANGED <<stage, home, line>>
    BY <1>2 DEF Remove
  <2> QED BY <2>1, PlacesKept
<1>3. CASE mine # {}
  <2> DEFINE k == CHOOSE x \in mine : \A y \in mine : x <= y
             r == q[k]
             s == SubSeq(q, 1, k - 1) \o SubSeq(q, k + 1, Len(q))
  <2>1. k \in mine
    <3>1. mine \in SUBSET (1..Len(q)) /\ Len(q) \in Nat
      BY <1>1
    <3>2. \E x \in mine : \A y \in mine : x <= y
      <4> HIDE DEF mine, q
      <4> QED BY <1>3, <3>1, HasFirst
    <3> HIDE DEF mine
    <3> QED BY <3>2
  <2>2. /\ stage' = [stage EXCEPT ![r] = "ended"] /\ home' = [home EXCEPT ![r] = None]
        /\ line' = [line EXCEPT ![i] = s]
    BY <1>3 DEF Remove
  <2>3. k \in 1..Len(q)
    BY <2>1
  <2> HIDE DEF mine, k
  <2>4. r \in Requests
    BY <1>1, <2>3
  <2>5. /\ s \in Seq(Requests) /\ Len(s) = Len(q) - 1
        /\ \A j \in 1..Len(s) : s[j] = IF j < k THEN q[j] ELSE q[j + 1]
    BY <1>1, <2>3, CutOut
  <2> HIDE DEF s
  <2>6. /\ \A p \in Requests : stage'[p] = IF p = r THEN "ended" ELSE stage[p]
        /\ \A p \in Requests : home'[p] = IF p = r THEN None ELSE home[p]
    BY <2>2, <2>4 DEF Typed
  <2>7. /\ \A h \in Instances : Len(line'[h]) <= MaxSize
        /\ \A p \in Requests : stage'[p] = "queued" => Stands(p)'
    <3>1. \A p \in Requests : p # line[i][k] => stage'[p] = stage[p] /\ home'[p] = home[p]
      BY <2>6
    <3>2. k \in 1..Len(line[i]) /\ Len(s) = Len(line[i]) - 1
          /\ \A j \in 1..Len(s) : s[j] = IF j < k THEN line[i][j] ELSE line[i][j + 1]
      BY <2>3, <2>5
    <3>3. stage'[line[i][k]] # "queued"
      BY <2>4, <2>6
    <3> HIDE DEF i
    <3> QED BY <1>1, <2>2, <2>5, <3>1, <3>2, <3>3, OthersStand
  <2>8. "ended" \notin Held /\ None \notin Instances
    BY QueueAssumption DEF Held
  <2>9. \A p \in Requests : home'[p] \in Instances => stage'[p] \in Counted
    BY <2>6, <2>8 DEF PlaceInv
  <2>10. \A h \in Instances : Busy(h)' \subseteq Busy(h)
    BY <2>6, <2>8 DEF Busy, In
  <2>11. \A h \in Instances : Cardinality(Busy(h)') <= Workers
    BY <2>10, WorkersKept
  <2> QED BY <2>7, <2>9, <2>11 DEF PlaceInv
<1> QED BY <1>2, <1>3

LEMMA CrashPlaces ==
  ASSUME Typed, PlaceInv, NEW i \in Instances, Crash(i)
  PROVE  PlaceInv'
<1>1. /\ \A r \in Requests : /\ stage'[r] = IF home[r] = i THEN "ended" ELSE stage[r]
                             /\ home'[r] = IF home[r] = i THEN None ELSE home[r]
      /\ line' = [line EXCEPT ![i] = <<>>]
  BY DEF Crash
<1>2. \A h \in Instances : line'[h] = IF h = i THEN <<>> ELSE line[h]
  BY <1>1 DEF Typed
<1>3. "ended" \notin Held /\ None \notin Instances /\ MaxSize \in Nat
  BY QueueAssumption DEF Held
<1>4. \A h \in Instances : Len(line'[h]) <= MaxSize
  <2>1. Len(<<>>) <= MaxSize
    BY <1>3
  <2> QED BY <1>2, <2>1 DEF PlaceInv
<1>5. \A r \in Requests : home'[r] \in Instances => stage'[r] \in Counted
  BY <1>1, <1>3 DEF PlaceInv
<1>6. \A h \in Instances : Busy(h)' \subseteq Busy(h)
  BY <1>1, <1>3 DEF Busy, In
<1>7. \A h \in Instances : Cardinality(Busy(h)') <= Workers
  BY <1>6, WorkersKept
<1>8. ASSUME NEW q \in Requests, stage'[q] = "queued"
      PROVE  Stands(q)'
  <2>1. home[q] # i /\ stage[q] = "queued" /\ home'[q] = home[q]
    BY <1>1, <1>8
  <2>2. home[q] \in Instances
    BY <2>1, StagesOf DEF Typed
  <2>3. line'[home'[q]] = line[home[q]]
    BY <1>2, <2>1, <2>2
  <2> QED BY <2>1, <2>3 DEF PlaceInv, Stands
<1> QED BY <1>4, <1>5, <1>7, <1>8 DEF PlaceInv

\* A request that a worker holds, or that waits for a place, moves on.
LEMMA StagePlaces ==
  ASSUME Typed, PlaceInv, NEW r \in Requests, NEW from, NEW to, Goes(r, from, to), line' = line,
         \/ from \in Held /\ to \in Running \cup {"ended"}
         \/ from \in {"over", "counted"} /\ to = "ended"
  PROVE  PlaceInv'
<1>1. /\ from \in Counted \ {"queued"} /\ to \in Stages \ {"queued"}
      /\ to \in Counted \cup {"ended"}
      /\ to \in Held => from \in Held
      /\ "ended" \notin Held /\ "ended" \notin Counted
      /\ None \notin Instances
  BY QueueAssumption DEF Running, Held, Counted, Stages
<1>2. /\ Moves(r, to) /\ Homes(r) /\ stage[r] = from
      /\ to \in Counted => home'[r] = home[r]
  BY <1>1, GoesMoves
<1>3. home'[r] \in Instances => to \in Counted
  <2>1. CASE to = "ended"
    <3>1. home' = [home EXCEPT ![r] = None]
      BY <2>1 DEF Goes
    <3>2. home'[r] = None
      BY <3>1 DEF Typed
    <3> QED BY <1>1, <3>2
  <2> QED BY <1>1, <2>1
<1>4. to \in Held => to \in Counted
  BY StagesOf
<1> QED BY <1>1, <1>2, <1>3, <1>4, PlacesMove

LEMMA DeliverPlaces ==
  ASSUME Typed, PlaceInv, NEW r \in Requests, NEW i \in Instances, Deliver(r, i)
  PROVE  PlaceInv'
<1>1. /\ stage[r] = "new" /\ home' = [home EXCEPT ![r] = i] /\ line' = line
  BY DEF Deliver
<1>2. PICK to \in {"counted", "over"} : Moves(r, to)
  BY DEF Deliver, Moves
<1>3. Homes(r)
  BY <1>1 DEF Homes, Typed
<1>4. to \in Stages \ {"queued"} /\ to \in Counted /\ to \notin Held
  BY DEF Stages, Counted, Held
<1> QED BY <1>1, <1>2, <1>3, <1>4, PlacesMove

LEMMA PlaceStep == FullInv /\ [Next]_vars => PlaceInv'
<1> SUFFICES ASSUME FullInv, [Next]_vars PROVE PlaceInv'
  OBVIOUS
<1>0. Typed /\ LineInv /\ PlaceInv
  BY DEF FullInv, QueueInv
<1>a. "gate" \in Held /\ Running \subseteq Held
      /\ {"check", "create", "answer", "clear", "close"} \subseteq Running
  BY DEF Held, Running
<1>1. CASE UNCHANGED <<stage, home, line>>
  BY <1>0, <1>1, PlacesKept
<1>2. ASSUME NEW r \in Requests, Served(r) \/ Answer(r) \/ PassBlindly(r) PROVE PlaceInv'
  <2>1. CASE Enqueue(r)
    BY <1>0, <2>1, EnqueuePlaces
  <2>2. CASE Reject(r) \/ Full(r) \/ GiveUp(r)
    <3>1. PICK from \in {"over", "counted", "gate"} : Goes(r, from, "ended") /\ line' = line
      BY <2>2 DEF Reject, Full, GiveUp
    <3> QED BY <1>0, <1>a, <3>1, StagePlaces
  <2>3. CASE Pass(r) \/ PassBlindly(r)
    <3>1. Goes(r, "gate", "check") /\ line' = line
      BY <2>3 DEF Pass, PassBlindly, Register
    <3> QED BY <1>0, <1>a, <3>1, StagePlaces
  <2>4. CASE CheckMarker(r) \/ Create(r) \/ Answer(r) \/ Break(r)
    <3>1. PICK from \in {"check", "create", "answer"}, to \in {"create", "answer", "clear", "close"} :
             Goes(r, from, to) /\ line' = line
      BY <2>4 DEF CheckMarker, Create, Answer, Break
    <3> QED BY <1>0, <1>a, <3>1, StagePlaces
  <2>5. CASE Clear(r) \/ Close(r)
    <3>1. PICK from \in {"close", "clear"} : Goes(r, from, "ended") /\ line' = line
      BY <2>5 DEF Clear, Close, Finish
    <3> QED BY <1>0, <1>a, <3>1, StagePlaces
  <2> QED BY <1>2, <2>1, <2>2, <2>3, <2>4, <2>5 DEF Served
<1>3. CASE \E i \in Instances : Take(i) \/ Discard(i)
  BY <1>0, <1>3, DequeuePlaces
<1>4. CASE Stopping
  <2>1. CASE Remove
    BY <1>0, <2>1, RemovePlaces
  <2>2. CASE Cancel \/ Lookup \/ WriteEvent \/ Mark
    BY <1>1, <2>2 DEF Cancel, Lookup, WriteEvent, Mark
  <2> QED BY <1>4, <2>1, <2>2 DEF Stopping
<1>5. CASE Time
  <2>1. UNCHANGED <<stage, home, line>>
    BY <1>5 DEF Time, GateExpires, GateForgets, GateRunsOut, MarkerExpires, CountExpires
  <2> QED BY <1>1, <2>1
<1>6. ASSUME NEW i \in Instances,
             (\E r \in Requests : Deliver(r, i)) \/ (\E u \in Users : Ask(i, u)) \/ Crash(i)
      PROVE  PlaceInv'
  <2>1. CASE \E u \in Users : Ask(i, u)
    BY <1>1, <2>1 DEF Ask
  <2> QED BY <1>0, <1>6, <2>1, DeliverPlaces, CrashPlaces
<1>7. CASE \E r \in Requests : HangUp(r)
  BY <1>1, <1>7 DEF HangUp
<1>8. CASE UNCHANGED vars
  BY <1>1, <1>8 DEF vars
<1> QED BY <1>2, <1>3, <1>4, <1>5, <1>6, <1>7, <1>8 DEF Next, System

\* The counters stay within their bounds.
LEMMA CountsBounded ==
  ASSUME Typed, commands <= MaxCommands, troubles + crashes <= MaxTroubles,
         \/ Trouble \/ NoTrouble \/ Command
         \/ UNCHANGED counters
         \/ UNCHANGED <<commands, troubles>> /\ crashes' = crashes + 1
            /\ troubles + crashes < MaxTroubles
  PROVE  commands' <= MaxCommands /\ troubles' + crashes' <= MaxTroubles
<1>1. commands \in Nat /\ troubles \in Nat /\ crashes \in Nat
      /\ MaxCommands \in Nat /\ MaxTroubles \in Nat
  BY QueueAssumption DEF Typed
<1> QED BY <1>1 DEF Trouble, NoTrouble, Command, counters

LEMMA NamedStep == FullInv /\ [Next]_vars => Named'
<1> SUFFICES ASSUME FullInv, [Next]_vars PROVE Named'
  OBVIOUS
<1>0. Typed /\ LineInv /\ Named
  BY DEF FullInv, QueueInv
<1>1. ASSUME \/ Trouble \/ NoTrouble \/ Command \/ UNCHANGED counters
             \/ UNCHANGED <<commands, troubles>> /\ crashes' = crashes + 1
                /\ troubles + crashes < MaxTroubles,
             marker' \subseteq Users, stopEvents' \subseteq Requests, cancelled' \subseteq Requests
      PROVE  Named'
  BY <1>0, <1>1, CountsBounded DEF Named
<1>2. ASSUME NEW r \in Requests, Served(r) \/ Answer(r) \/ PassBlindly(r) PROVE Named'
  <2>1. CASE CheckMarker(r)
    <3>1. marker' \subseteq marker /\ UNCHANGED <<stopEvents, cancelled>> /\ (NoTrouble \/ Trouble)
      BY <2>1 DEF CheckMarker
    <3> QED BY <1>0, <1>1, <3>1 DEF Named
  <2>2. CASE ~CheckMarker(r)
    <3>1. UNCHANGED <<marker, stopEvents, cancelled>>
          /\ (NoTrouble \/ Trouble \/ UNCHANGED counters)
      BY <1>2, <2>2 DEF Served, Reject, Enqueue, Full, Pass, PassBlindly, Register, GiveUp, Create,
           Answer, Break, Clear, Close, Finish, stores
    <3> QED BY <1>0, <1>1, <3>1 DEF Named
  <2> QED BY <2>1, <2>2
<1>3. CASE \E i \in Instances : Take(i) \/ Discard(i)
  <2>1. UNCHANGED <<marker, stopEvents, cancelled>> /\ UNCHANGED counters
    BY <1>3 DEF Take, Discard, Dequeue
  <2> QED BY <1>0, <1>1, <2>1 DEF Named
<1>4. CASE Remove
  <2>1. UNCHANGED <<marker, stopEvents>> /\ UNCHANGED counters
    BY <1>4 DEF Remove
  <2>2. cancelled' \subseteq Requests
    <3>1. cmd.at \in Instances
      BY <1>0, <1>4 DEF Remove, Typed
    <3> DEFINE q == line[cmd.at]
               mine == {k \in 1..Len(q) : From[q[k]] = cmd.user}
    <3>2. q \in Seq(Requests) /\ Len(q) \in Nat
      BY <1>0, <3>1 DEF Typed
    <3>3. CASE mine = {}
      <4>1. cancelled' = cancelled
        BY <1>4, <3>3 DEF Remove
      <4> QED BY <1>0, <4>1 DEF Named
    <3>4. CASE mine # {}
      <4> DEFINE k == CHOOSE x \in mine : \A y \in mine : x <= y
      <4>1. k \in mine
        <5>1. mine \in SUBSET (1..Len(q))
          OBVIOUS
        <5>2. \E x \in mine : \A y \in mine : x <= y
          <6> HIDE DEF mine, q
          <6> QED BY <3>2, <3>4, <5>1, HasFirst
        <5> HIDE DEF mine
        <5> QED BY <5>2
      <4>2. cancelled' = cancelled \cup {q[k]}
        BY <1>4, <3>4 DEF Remove
      <4>3. k \in 1..Len(q)
        BY <4>1
      <4> HIDE DEF k, mine
      <4>4. q[k] \in Requests
        BY <3>2, <4>3
      <4> QED BY <1>0, <4>2, <4>4 DEF Named
    <3> QED BY <3>3, <3>4
  <2> QED BY <1>0, <1>1, <2>1, <2>2 DEF Named
<1>5. CASE Cancel
  <2>1. UNCHANGED <<marker, stopEvents>> /\ UNCHANGED counters
        /\ cancelled' = cancelled \cup ({inflight[cmd.at][cmd.user].cancels} \ {None})
    BY <1>5 DEF Cancel, stores
  <2>2. cmd.at \in Instances /\ cmd.user \in Users
    BY <1>0, <1>5 DEF Cancel, Typed
  <2>3. inflight[cmd.at][cmd.user].cancels \in Requests \cup {None}
    BY <1>0, <2>2 DEF Typed, Entries
  <2> QED BY <1>0, <1>1, <2>1, <2>3 DEF Named
<1>6. CASE Lookup
  <2>1. UNCHANGED <<marker, stopEvents, cancelled>> /\ (NoTrouble \/ Trouble)
    BY <1>6 DEF Lookup, stores
  <2> QED BY <1>0, <1>1, <2>1 DEF Named
<1>7. CASE WriteEvent
  <2>1. cmd.names \in Requests
    BY <1>0, <1>7 DEF WriteEvent, Typed
  <2>2. UNCHANGED <<marker, cancelled>> /\ (NoTrouble \/ Trouble)
        /\ stopEvents' \subseteq stopEvents \cup {cmd.names}
    BY <1>7 DEF WriteEvent
  <2> QED BY <1>0, <1>1, <2>1, <2>2 DEF Named
<1>8. CASE Mark
  <2>1. cmd.user \in Users
    BY <1>0, <1>8 DEF Mark, Typed
  <2>2. UNCHANGED <<stopEvents, cancelled>> /\ (NoTrouble \/ Trouble)
        /\ marker' \subseteq marker \cup {cmd.user}
    BY <1>8 DEF Mark
  <2> QED BY <1>0, <1>1, <2>1, <2>2 DEF Named
<1>9. CASE Time
  <2>1. marker' \subseteq marker /\ UNCHANGED <<stopEvents, cancelled>>
        /\ (NoTrouble \/ Trouble \/ UNCHANGED counters)
    BY <1>9 DEF Time, GateExpires, GateForgets, GateRunsOut, MarkerExpires, CountExpires
  <2> QED BY <1>0, <1>1, <2>1 DEF Named
<1>10. ASSUME NEW i \in Instances,
              (\E r \in Requests : Deliver(r, i)) \/ (\E u \in Users : Ask(i, u)) \/ Crash(i)
       PROVE  Named'
  <2>1. /\ UNCHANGED <<marker, stopEvents, cancelled>>
        /\ \/ NoTrouble \/ Trouble \/ Command
           \/ UNCHANGED <<commands, troubles>> /\ crashes' = crashes + 1
              /\ troubles + crashes < MaxTroubles
    BY <1>10 DEF Deliver, Ask, Crash, stores
  <2> QED BY <1>0, <1>1, <2>1 DEF Named
<1>11. CASE \E r \in Requests : HangUp(r)
  <2>1. UNCHANGED <<marker, stopEvents>> /\ Command /\ cancelled' \subseteq Requests
    BY <1>0, <1>11 DEF HangUp, stores, Named
  <2> QED BY <1>0, <1>1, <2>1 DEF Named
<1>12. CASE UNCHANGED vars
  BY <1>0, <1>12 DEF vars, stores, counters, Named
<1> QED BY <1>2, <1>3, <1>4, <1>5, <1>6, <1>7, <1>8, <1>9, <1>10, <1>11, <1>12
        DEF Next, System, Stopping

\* qaqueue.go, service.go: with the places in the lines and the workers.
THEOREM FullQueueInvariant == Spec => []FullInv
<1>1. FullInv /\ [Next]_vars => FullInv'
  BY StepInv, PlaceStep, NamedStep DEF FullInv
<1> QED BY <1>1, InitFull, PTL DEF Spec

\* The type invariant: no line is longer than MaxSize and no replica has more
\* than its workers at work (newQAQueue, runWorker), a request is in the line
\* of the replica that holds it, once, as long as it is queued, and in no
\* other, and only requests that are counted are held.
THEOREM QueueTypeCorrect == Spec => []TypeOK
<1>1. FullInv => TypeOK
  <2> SUFFICES ASSUME FullInv PROVE TypeOK
    OBVIOUS
  <2>1. Typed /\ LineInv /\ PlaceInv /\ Named
    BY DEF FullInv, QueueInv
  <2>2. \A r \in Requests : home[r] \in Instances <=> r \in In(Counted)
    BY <2>1 DEF Typed, PlaceInv, In
  <2>3. ASSUME NEW i \in Instances, NEW r \in Requests
        PROVE  Cardinality(Places(i, r)) = IF stage[r] = "queued" /\ home[r] = i THEN 1 ELSE 0
    <3>1. CASE stage[r] = "queued" /\ home[r] = i
      <4>1. PICK k \in 1..Len(line[i]) : line[i][k] = r
        BY <2>1, <3>1 DEF PlaceInv, Stands
      <4>2. Places(i, r) = {k}
        BY <2>1, <4>1 DEF LineInv, Places
      <4>3. Cardinality({k}) = 1
        BY FS_Singleton
      <4> QED BY <3>1, <4>2, <4>3
    <3>2. CASE ~(stage[r] = "queued" /\ home[r] = i)
      <4>1. Places(i, r) = {}
        BY <2>1, <3>2 DEF LineInv, Places
      <4>2. Cardinality({}) = 0
        BY FS_EmptySet
      <4> QED BY <3>2, <4>1, <4>2
    <3> QED BY <3>1, <3>2
  <2>4. \A i \in Instances : Cardinality({r \in In(Held) : home[r] = i}) <= Workers
    BY <2>1 DEF PlaceInv, Busy
  <2>5. /\ cmd.pc \in {"idle", "remove", "inflight", "lookup", "event", "mark"}
        /\ cmd.at \in Instances \cup {None} /\ cmd.user \in Users \cup {None}
        /\ cmd.names \in Requests \cup {None} /\ (cmd.pc = "event" => cmd.names # None)
    <3>1. None \notin Requests
      BY QueueAssumption DEF Requests
    <3> QED BY <2>1, <3>1 DEF Typed, CmdRec
  <2>6. commands \in 0..MaxCommands /\ troubles \in 0..MaxTroubles /\ crashes \in 0..MaxTroubles
    <3>1. MaxCommands \in Nat /\ MaxTroubles \in Nat
      BY QueueAssumption
    <3> QED BY <2>1, <3>1 DEF Typed, Named
  <2> QED BY <2>1, <2>2, <2>3, <2>4, <2>5, <2>6 DEF TypeOK, Typed, PlaceInv, Named
<1> QED BY <1>1, FullQueueInvariant, PTL
=============================================================================
