---------------------------- MODULE ScenarioProofs ----------------------------
(***************************************************************************)
(* Proofs about Scenario, for every number of connections and actions and  *)
(* every nonce that a testcase sends: a ping/pong roundtrip leaves nothing *)
(* unprocessed, and the target's questions reach the call they belong to.  *)
(***************************************************************************)
EXTENDS Scenario, Integers, SequenceTheorems, FiniteSetTheorems, WellFoundedInduction, TLAPS

(* Induction, for a set of numbers: without an operator as its parameter.  *)
LEMMA Induction ==
  ASSUME NEW T \in SUBSET Nat, 0 \in T, \A n \in Nat : n \in T => n + 1 \in T
  PROVE  T = Nat
<1>1. SUFFICES ASSUME T # Nat PROVE FALSE
  OBVIOUS
<1> DEFINE U == Nat \ T
<1>2. U \subseteq Nat /\ U # {}
  BY <1>1
<1>3. PICK x \in U : \A y \in U : ~ (<<y, x>> \in OpToRel(<, Nat))
  <2> HIDE DEF U
  <2> QED BY <1>2, NatLessThanWellFounded, WFMin
<1>4. \A y \in U : ~ (y < x)
  BY <1>2, <1>3 DEF OpToRel
<1>5. x # 0 /\ x \in Nat
  BY <1>3
<1>6. x - 1 \in Nat /\ x - 1 < x
  BY <1>5
<1>7. x - 1 \in T
  BY <1>4, <1>6
<1>8. (x - 1) + 1 = x
  BY <1>5
<1>9. QED
  BY <1>3, <1>6, <1>7, <1>8

(* A function over the naturals that is defined by primitive recursion.    *)
Recurs(S, a, step) ==
  \E f \in [Nat -> S] : f[0] = a /\ \A n \in Nat : f[n + 1] = step[<<n, f[n]>>]

(* It exists for every first value and every step.                         *)
LEMMA Recursion ==
  ASSUME NEW S, NEW a \in S, NEW step \in [Nat \X S -> S]
  PROVE  Recurs(S, a, step)
<1> DEFINE Rec(g, m) == g[0] = a /\ \A n \in Nat : n < m => g[n + 1] = step[<<n, g[n]>>]
           T == { m \in Nat : \E g \in [Nat -> S] : Rec(g, m) }
<1>1. 0 \in T
  <2>1. [n \in Nat |-> a] \in [Nat -> S] /\ Rec([n \in Nat |-> a], 0)
    OBVIOUS
  <2>2. QED
    BY <2>1
<1>2. \A m \in Nat : m \in T => m + 1 \in T
  <2>1. SUFFICES ASSUME NEW m \in Nat, m \in T PROVE m + 1 \in T
    OBVIOUS
  <2>2. PICK g \in [Nat -> S] : Rec(g, m)
    BY <2>1
  <2> DEFINE h == [n \in Nat |-> IF n = m + 1 THEN step[<<m, g[m]>>] ELSE g[n]]
  <2>3. h \in [Nat -> S]
    OBVIOUS
  <2>4. h[0] = a
    BY <2>2
  <2>5. ASSUME NEW n \in Nat, n < m + 1 PROVE h[n + 1] = step[<<n, h[n]>>]
    <3>1. CASE n = m
      BY <3>1
    <3>2. CASE n # m
      <4>1. n < m /\ n # m + 1 /\ n + 1 # m + 1 /\ n + 1 \in Nat
        BY <2>5, <3>2
      <4>2. g[n + 1] = step[<<n, g[n]>>]
        BY <2>2, <4>1
      <4>3. QED
        BY <4>1, <4>2
    <3>3. QED
      BY <3>1, <3>2
  <2>6. Rec(h, m + 1)
    BY <2>4, <2>5
  <2>7. m + 1 \in Nat
    OBVIOUS
  <2>8. QED
    <3> HIDE DEF h, Rec
    <3>1. QED
      BY <2>3, <2>6, <2>7
<1>3. T = Nat
  <2>1. T \in SUBSET Nat
    OBVIOUS
  <2> HIDE DEF T
  <2>2. QED
    BY <1>1, <1>2, <2>1, Induction
<1>4. PICK solution \in [Nat -> [Nat -> S]] : \A m \in Nat : Rec(solution[m], m)
  <2>1. \A m \in Nat : \E g \in [Nat -> S] : Rec(g, m)
    BY <1>3
  <2> HIDE DEF Rec
  <2> DEFINE pick == [m \in Nat |-> CHOOSE g \in [Nat -> S] : Rec(g, m)]
  <2>2. pick \in [Nat -> [Nat -> S]] /\ \A m \in Nat : Rec(pick[m], m)
    BY <2>1
  <2>3. QED
    BY <2>2
(* Solutions agree as far as both go.                                      *)
<1>5. ASSUME NEW m \in Nat PROVE solution[m][m] = solution[m + 1][m]
  <2> DEFINE g == solution[m]
             h == solution[m + 1]
             U == { n \in Nat : n <= m => g[n] = h[n] }
  <2>1. Rec(g, m) /\ Rec(h, m + 1)
    BY <1>4
  <2>2. 0 \in U
    BY <2>1
  <2>3. \A n \in Nat : n \in U => n + 1 \in U
    <3>1. SUFFICES ASSUME NEW n \in Nat, n \in U, n + 1 <= m PROVE g[n + 1] = h[n + 1]
      OBVIOUS
    <3>2. g[n] = h[n] /\ n < m /\ n < m + 1
      BY <3>1
    <3>3. QED
      BY <2>1, <3>2
  <2>4. U = Nat
    <3>1. U \in SUBSET Nat
      OBVIOUS
    <3> HIDE DEF U
    <3>2. QED
      BY <2>2, <2>3, <3>1, Induction
  <2>5. m \in U
    BY <2>4
  <2>6. QED
    BY <2>5
<1> DEFINE f == [n \in Nat |-> solution[n][n]]
<1>6. f \in [Nat -> S] /\ f[0] = a
  BY <1>4
<1>7. ASSUME NEW n \in Nat PROVE f[n + 1] = step[<<n, f[n]>>]
  <2>1. Rec(solution[n + 1], n + 1) /\ n + 1 \in Nat /\ n < n + 1
    BY <1>4
  <2>2. solution[n + 1][n + 1] = step[<<n, solution[n + 1][n]>>]
    BY <2>1
  <2>3. QED
    BY <1>5, <2>1, <2>2
<1>8. QED
  BY <1>6, <1>7 DEF Recurs

-----------------------------------------------------------------------------
(* What comes after an element.                                            *)
After(s, a) == { s[j] : j \in { k \in DOMAIN s : \E i \in DOMAIN s : i < k /\ s[i] = a } }

(* The elements of a sequence are of its type.                             *)
LEMMA ToSetType ==
  ASSUME NEW S, NEW s \in Seq(S)
  PROVE  /\ ToSet(s) \subseteq S
         /\ \A a : After(s, a) \subseteq ToSet(s)
         /\ s # <<>> => ToSet(s) # {}
<1>1. DOMAIN s = 1..Len(s) /\ Len(s) \in Nat /\ \A i \in 1..Len(s) : s[i] \in S
  OBVIOUS
<1>2. ToSet(s) \subseteq S
  BY <1>1 DEF ToSet
<1>3. \A a : After(s, a) \subseteq ToSet(s)
  BY DEF ToSet, After
<1>4. s # <<>> => 1 \in DOMAIN s
  BY <1>1
<1>5. s # <<>> => ToSet(s) # {}
  BY <1>4 DEF ToSet
<1>6. QED
  BY <1>2, <1>3, <1>5

(* Both an element and what comes after it are elements.                   *)
LEMMA AfterSets ==
  ASSUME NEW S, NEW s \in Seq(S)
  PROVE  \A a : \A x \in After(s, a) : x \in ToSet(s) /\ a \in ToSet(s)
BY DEF ToSet, After

(* What a concatenation holds, and in which order.                         *)
LEMMA ConcatSets ==
  ASSUME NEW S, NEW s \in Seq(S), NEW t \in Seq(S)
  PROVE  /\ s \o t \in Seq(S)
         /\ ToSet(s \o t) = ToSet(s) \cup ToSet(t)
         /\ \A a : \A x \in After(s \o t, a) :
              x \in After(s, a) \/ x \in After(t, a) \/ (a \in ToSet(s) /\ x \in ToSet(t))
<1>1. /\ s \o t \in Seq(S)
      /\ Len(s \o t) = Len(s) + Len(t)
      /\ DOMAIN (s \o t) = 1..(Len(s) + Len(t))
      /\ Len(s) \in Nat /\ Len(t) \in Nat /\ DOMAIN s = 1..Len(s) /\ DOMAIN t = 1..Len(t)
  OBVIOUS
<1>2. /\ \A i \in 1..Len(s) : (s \o t)[i] = s[i]
      /\ \A i \in 1..(Len(s) + Len(t)) : i > Len(s) => (s \o t)[i] = t[i - Len(s)]
  OBVIOUS
<1>3. \A i \in 1..Len(t) : i + Len(s) \in 1..(Len(s) + Len(t)) /\ (s \o t)[i + Len(s)] = t[i]
  BY <1>1, <1>2
<1>4. ToSet(s \o t) = ToSet(s) \cup ToSet(t)
  <2>1. \A i \in 1..(Len(s) + Len(t)) : (s \o t)[i] \in ToSet(s) \cup ToSet(t)
    <3>1. SUFFICES ASSUME NEW i \in 1..(Len(s) + Len(t))
                   PROVE  (s \o t)[i] \in ToSet(s) \cup ToSet(t)
      OBVIOUS
    <3>2. CASE i <= Len(s)
      BY <1>1, <1>2, <3>2 DEF ToSet
    <3>3. CASE i > Len(s)
      BY <1>1, <1>2, <3>3 DEF ToSet
    <3>4. QED
      BY <1>1, <3>2, <3>3
  <2>2. \A i \in 1..Len(s) : s[i] \in ToSet(s \o t)
    BY <1>1, <1>2 DEF ToSet
  <2>3. \A i \in 1..Len(t) : t[i] \in ToSet(s \o t)
    BY <1>1, <1>3 DEF ToSet
  <2>4. QED
    BY <1>1, <2>1, <2>2, <2>3 DEF ToSet
<1>5. ASSUME NEW a, NEW x \in After(s \o t, a)
      PROVE  x \in After(s, a) \/ x \in After(t, a) \/ (a \in ToSet(s) /\ x \in ToSet(t))
  <2>1. PICK k \in 1..(Len(s) + Len(t)) :
          x = (s \o t)[k] /\ \E i \in 1..(Len(s) + Len(t)) : i < k /\ (s \o t)[i] = a
    BY <1>1 DEF After
  <2>2. PICK i \in 1..(Len(s) + Len(t)) : i < k /\ (s \o t)[i] = a
    BY <2>1
  <2>3. CASE k <= Len(s)
    <3>1. i \in DOMAIN s /\ k \in DOMAIN s /\ s[i] = a /\ s[k] = x
      BY <1>1, <1>2, <2>1, <2>2, <2>3
    <3>2. QED
      BY <2>2, <3>1 DEF After
  <2>4. CASE k > Len(s) /\ i <= Len(s)
    BY <1>1, <1>2, <2>1, <2>2, <2>4 DEF ToSet
  <2>5. CASE k > Len(s) /\ i > Len(s)
    <3>1. i - Len(s) \in DOMAIN t /\ k - Len(s) \in DOMAIN t /\ i - Len(s) < k - Len(s)
      BY <1>1, <2>1, <2>2, <2>5
    <3>2. t[i - Len(s)] = a /\ t[k - Len(s)] = x
      BY <1>1, <1>2, <2>1, <2>2, <2>5
    <3>3. QED
      BY <3>1, <3>2 DEF After
  <2>6. QED
    BY <1>1, <2>3, <2>4, <2>5
<1>6. QED
  BY <1>1, <1>4, <1>5

(* The empty sequence.                                                     *)
LEMMA EmptySets ==
  ToSet(<<>>) = {} /\ \A a : After(<<>>, a) = {}
BY DEF ToSet, After

(* A sequence of one element.                                              *)
LEMMA SingleSets ==
  ASSUME NEW S, NEW x \in S
  PROVE  <<x>> \in Seq(S) /\ ToSet(<<x>>) = {x} /\ \A a : After(<<x>>, a) = {}
<1>1. DOMAIN <<x>> = {1} /\ <<x>>[1] = x /\ <<x>> \in Seq(S)
  OBVIOUS
<1>2. QED
  BY <1>1 DEF ToSet, After

(* A sequence of two elements.                                             *)
LEMMA PairSets ==
  ASSUME NEW S, NEW x \in S, NEW y \in S
  PROVE  <<x, y>> \in Seq(S) /\ ToSet(<<x, y>>) = {x, y}
<1>1. DOMAIN <<x, y>> = {1, 2} /\ <<x, y>>[1] = x /\ <<x, y>>[2] = y /\ <<x, y>> \in Seq(S)
  OBVIOUS
<1>2. QED
  BY <1>1 DEF ToSet

(* A sequence of three elements, and what comes after each.                *)
LEMMA TripleSets ==
  ASSUME NEW S, NEW x \in S, NEW y \in S, NEW z \in S
  PROVE  /\ <<x, y, z>> \in Seq(S) /\ ToSet(<<x, y, z>>) = {x, y, z}
         /\ \A a : \A b \in After(<<x, y, z>>, a) : (a = x /\ b \in {y, z}) \/ (a = y /\ b = z)
<1>1. /\ DOMAIN <<x, y, z>> = {1, 2, 3} /\ <<x, y, z>> \in Seq(S)
      /\ <<x, y, z>>[1] = x /\ <<x, y, z>>[2] = y /\ <<x, y, z>>[3] = z
  OBVIOUS
<1>2. ToSet(<<x, y, z>>) = {x, y, z}
  BY <1>1 DEF ToSet
<1>3. ASSUME NEW a, NEW b \in After(<<x, y, z>>, a)
      PROVE  (a = x /\ b \in {y, z}) \/ (a = y /\ b = z)
  <2>1. PICK k \in {1, 2, 3} : b = <<x, y, z>>[k] /\ \E i \in {1, 2, 3} : i < k /\ <<x, y, z>>[i] = a
    BY <1>1 DEF After
  <2>2. PICK i \in {1, 2, 3} : i < k /\ <<x, y, z>>[i] = a
    BY <2>1
  <2>3. (i = 1 /\ k = 2) \/ (i = 1 /\ k = 3) \/ (i = 2 /\ k = 3)
    BY <2>2
  <2>4. QED
    BY <1>1, <2>1, <2>2, <2>3
<1>4. QED
  BY <1>1, <1>2, <1>3

(* What is left when the first element is taken.                           *)
LEMMA TailSets ==
  ASSUME NEW S, NEW s \in Seq(S), s # <<>>
  PROVE  /\ Tail(s) \in Seq(S) /\ Head(s) \in S
         /\ ToSet(s) = {Head(s)} \cup ToSet(Tail(s))
         /\ ToSet(Tail(s)) \subseteq After(s, Head(s))
         /\ \A a : After(Tail(s), a) \subseteq After(s, a)
<1>1. /\ Len(s) \in Nat /\ Len(s) > 0 /\ DOMAIN s = 1..Len(s)
      /\ Tail(s) \in Seq(S) /\ Head(s) \in S /\ Head(s) = s[1]
      /\ DOMAIN Tail(s) = 1..(Len(s) - 1)
      /\ \A i \in 1..(Len(s) - 1) : Tail(s)[i] = s[i + 1]
  OBVIOUS
<1>2. \A i \in 1..(Len(s) - 1) : i + 1 \in 1..Len(s) /\ i + 1 > 1
  BY <1>1
<1>3. \A i \in 1..Len(s) : i = 1 \/ (i - 1 \in 1..(Len(s) - 1) /\ s[i] = Tail(s)[i - 1])
  BY <1>1
<1>4. ToSet(s) = {Head(s)} \cup ToSet(Tail(s))
  <2>1. \A i \in 1..Len(s) : s[i] \in {Head(s)} \cup ToSet(Tail(s))
    BY <1>1, <1>3 DEF ToSet
  <2>2. Head(s) \in ToSet(s)
    BY <1>1 DEF ToSet
  <2>3. \A i \in 1..(Len(s) - 1) : Tail(s)[i] \in ToSet(s)
    BY <1>1, <1>2 DEF ToSet
  <2>4. QED
    BY <1>1, <2>1, <2>2, <2>3 DEF ToSet
<1>5. ToSet(Tail(s)) \subseteq After(s, Head(s))
  BY <1>1, <1>2 DEF ToSet, After
<1>6. ASSUME NEW a, NEW x \in After(Tail(s), a) PROVE x \in After(s, a)
  <2>1. PICK k \in 1..(Len(s) - 1) :
          x = Tail(s)[k] /\ \E i \in 1..(Len(s) - 1) : i < k /\ Tail(s)[i] = a
    BY <1>1 DEF After
  <2>2. PICK i \in 1..(Len(s) - 1) : i < k /\ Tail(s)[i] = a
    BY <2>1
  <2>3. i + 1 \in DOMAIN s /\ k + 1 \in DOMAIN s /\ i + 1 < k + 1 /\ s[i + 1] = a /\ s[k + 1] = x
    BY <1>1, <2>1, <2>2
  <2>4. QED
    BY <2>3 DEF After
<1>7. QED
  BY <1>1, <1>4, <1>5, <1>6

-----------------------------------------------------------------------------
CallRecord ==
  [op : {"version_handshake", "ping", "send_and_recv"}, id : Ids, for : Messages,
   recording : BOOLEAN, ret : Seq(Messages)]

Result ==
  [op : {"version_handshake", "send", "ping", "send_and_recv"}, id : Ids, ok : BOOLEAN,
   ret : Seq(Messages)]

Phases == {"connecting", "handshaking", "greeting", "mining", "pinging", "announcing", "acting",
           "joining", "final", "done", "failed"}

Setup == {"connecting", "handshaking", "greeting", "mining", "pinging", "announcing"}

PipeTypes ==
  /\ connection_type \in [Ids -> ConnectionType] /\ handshake_complete \in [Ids -> BOOLEAN]
  /\ ping_counter \in [Ids -> Nat]
  /\ call \in {Idle} \cup CallRecord /\ last \in {NoResult} \cup Result
  /\ to_node \in [Ids -> Seq(Messages)] /\ from_node \in [Ids -> Seq(Messages)]
  /\ due \in [Ids -> Seq(Messages)]
  /\ closed \subseteq Ids /\ handled \in {Nobody} \cup Ids
  /\ peer \in [Ids -> {"none", "connected", "versioned", "established"}]

ScenarioTypes ==
  /\ connections \in Seq(Ids) /\ opened \in 0..MaxConnections
  /\ phase \in Phases /\ pos \in Nat \ {0}
  /\ force_send_and_ping \in BOOLEAN /\ recording_received_messages \in BOOLEAN
  /\ probe_results \in Seq(Messages) /\ actions \in Nat
  /\ raw \in [Ids -> SUBSET Nat]

(* Sockets are opened one after the other.                                 *)
Opened ==
  /\ \A i \in DOMAIN connections : connections[i] <= opened
  /\ \A i, j \in DOMAIN connections : connections[i] = connections[j] => i = j
  /\ closed \subseteq 1..opened
  /\ \A id \in Ids : id > opened => peer[id] = "none"

(* What the scenario is doing in each of its phases.                       *)
Doing(op, id) ==
  \/ phase = "handshaking" /\ op = "version_handshake" /\ id = Current
  \/ phase = "greeting" /\ op = "send" /\ id = Current
  \/ phase = "mining" /\ op = "send" /\ id = connections[1]
  \/ phase = "pinging" /\ op = "ping" /\ id = Current
  \/ phase = "announcing" /\ op = "send_and_recv" /\ id = Current
  \/ phase = "joining" /\ op = "version_handshake" /\ id = opened
  \/ /\ phase = "acting" /\ actions > 0 /\ id \in ToSet(connections)
     /\ op = IF force_send_and_ping THEN "send_and_recv" ELSE "send"
  \/ phase = "final" /\ op = "ping" /\ id = Current /\ pos <= Len(connections)

Where ==
  /\ phase = "connecting" =>
       pos <= Len(SetupConnections) /\ Len(connections) = pos - 1 /\ opened = pos - 1
  /\ phase \in {"handshaking", "greeting", "pinging", "announcing"} => pos <= Len(connections)
  /\ phase = "mining" => pos <= NumBlocks
  /\ phase = "final" => pos <= Len(connections) + 1
  /\ phase = "joining" => opened > 0 /\ opened \notin ToSet(connections) /\ actions > 0
  /\ phase \notin {"connecting", "failed"} => Len(connections) > 0
  /\ pos <= Len(connections) + NumBlocks + 1
  /\ phase \in Setup => actions = 0

InCall ==
  call # Idle =>
    /\ last = NoResult
    /\ Doing(call.op, call.id)
    /\ call.op = "version_handshake" => call.for \in { Msg("version", 0), Msg("verack", 0) }
    /\ call.op # "version_handshake" =>
         handshake_complete[call.id] /\ call.for = Msg("pong", ping_counter[call.id])
    /\ \A m \in ToSet(call.ret) : m.cmd # "pong"

-----------------------------------------------------------------------------
Waiting(id, op) == call # Idle /\ call.id = id /\ call.op = op

NodeKeepsUp ==
  \A id \in Ids :
    /\ id \in closed => to_node[id] = <<>> /\ handled # id
    /\ \A m \in ToSet(due[id]) : m.cmd = "inv" \/ (m.cmd = "getblocktxn" /\ handled = id)

NoData(id) ==
  /\ \A m \in ToSet(to_node[id]) : m.cmd # "data"
  /\ \A m \in ToSet(from_node[id]) \cup ToSet(due[id]) : m.cmd # "getblocktxn"

(* Only the testcase sends data and pings of its own.                      *)
Untouched ==
  \A id \in Ids : actions = 0 \/ id \notin ToSet(connections) => raw[id] = {} /\ NoData(id)

PingsAtMost(id, S, n) ==
  /\ \A m \in ToSet(to_node[id]) : m.cmd = "ping" => m.arg <= n \/ m.arg \in S
  /\ \A m \in ToSet(from_node[id]) : m.cmd = "pong" => m.arg <= n \/ m.arg \in S

NoncesKnown == \A id \in Ids : PingsAtMost(id, raw[id], ping_counter[id])

(* With force_send_and_ping nothing is left over by a call.                *)
QuietBetweenCalls ==
  \A id \in Ids :
    force_send_and_ping /\ handshake_complete[id] /\ ~ Waiting(id, "send_and_recv") =>
      NoData(id) /\ PingsAtMost(id, {}, ping_counter[id])

(* The answer to the ping that is waited for comes last.                   *)
PongIsLast(id, n) ==
  /\ Msg("pong", n) \in ToSet(from_node[id]) =>
       /\ \A m \in ToSet(to_node[id]) : m.cmd = "ping" /\ m.arg <= n
       /\ \A m \in ToSet(due[id]) : m.cmd # "getblocktxn"
  /\ \A m \in After(from_node[id], Msg("pong", n)) :
       m.cmd # "getblocktxn" /\ (m.cmd = "pong" => m.arg <= n)
  /\ \A m \in After(to_node[id], Msg("ping", n)) : m.cmd = "ping" /\ m.arg <= n

Forged(id) == ~ force_send_and_ping /\ ping_counter[id] \in raw[id]

PongWaitedFor ==
  call # Idle /\ call.op # "version_handshake" =>
    Forged(call.id) \/ PongIsLast(call.id, ping_counter[call.id])

(* What is asked during a call is asked about its message.                 *)
AskedAbout(S) == \A m \in S : m.cmd = "getblocktxn" => m.arg = actions

AsksAboutItsMessage ==
  /\ call # Idle /\ call.op = "send_and_recv" =>
       /\ \A m \in ToSet(to_node[call.id]) : m.cmd = "data" => m.arg = actions
       /\ AskedAbout(ToSet(from_node[call.id]) \cup ToSet(due[call.id]) \cup ToSet(call.ret))
  /\ Returned /\ last.op = "send_and_recv" /\ last.ok => AskedAbout(ToSet(last.ret))

Returning ==
  Returned =>
    /\ Doing(last.op, last.id)
    /\ ~ last.ok => last.id \in closed
    /\ last.op = "version_handshake" /\ last.ok => handshake_complete[last.id]
    /\ last.op = "send_and_recv" /\ last.ok => Synced(last.id)

-----------------------------------------------------------------------------
HandshakesDone ==
  \A i \in DOMAIN connections :
    \/ phase = "handshaking" /\ i < pos
    \/ phase = "greeting" /\ i <= pos
    \/ phase \in {"mining", "pinging", "announcing"}
    \/ phase = "acting" /\ actions = 0
    => handshake_complete[connections[i]]

Announced ==
  \A i \in DOMAIN connections :
    (phase = "announcing" /\ i < pos) \/ (phase = "acting" /\ actions = 0)
      => Unprocessed(connections[i]) = {}

Settled(id) == Synced(id) \/ Forged(id)

Pinged ==
  /\ phase = "final" /\ Returned => Settled(Current)
  /\ \A i \in DOMAIN connections :
       (phase = "final" /\ i < pos) \/ phase = "done" => Settled(connections[i])

PipeInv ==
  /\ PipeTypes /\ NodeKeepsUp /\ InCall /\ Untouched /\ NoncesKnown /\ QuietBetweenCalls
  /\ PongWaitedFor /\ AsksAboutItsMessage

SInv ==
  /\ ScenarioTypes /\ Opened /\ Where /\ Returning /\ HandshakesDone /\ Announced /\ Pinged
  /\ PipeInv
-----------------------------------------------------------------------------
(* Messages are records of a command and a number.                         *)
LEMMA MsgType ==
  /\ \A c, n : Msg(c, n).cmd = c /\ Msg(c, n).arg = n
  /\ \A c \in Commands, n \in Nat : Msg(c, n) \in Messages
  /\ \A m \in Messages : m.cmd \in Commands /\ m.arg \in Nat /\ m = Msg(m.cmd, m.arg)
<1>1. \A c, n : Msg(c, n).cmd = c /\ Msg(c, n).arg = n
  BY DEF Msg
<1>2. \A c \in Commands, n \in Nat : Msg(c, n) \in Messages
  BY DEF Msg, Messages
<1>3. \A m \in Messages : m.cmd \in Commands /\ m.arg \in Nat /\ m = Msg(m.cmd, m.arg)
  BY DEF Msg, Messages
<1>4. QED
  BY <1>1, <1>2, <1>3

(* The questions among what was received are messages that were received.  *)
LEMMA AskedType ==
  ASSUME NEW ret \in Seq(Messages)
  PROVE  Asked(ret) \in Seq(Messages)
<1> DEFINE Sel(f) == [i \in 0..Len(ret) |->
                        IF i = 0 THEN <<>>
                        ELSE IF ret[i].cmd = "getblocktxn" THEN Append(f[i - 1], ret[i])
                             ELSE f[i - 1]]
           step == [p \in Nat \X Seq(Messages) |->
                      IF p[1] + 1 \in 1..Len(ret) /\ ret[p[1] + 1].cmd = "getblocktxn"
                      THEN Append(p[2], ret[p[1] + 1]) ELSE p[2]]
           upTo == CHOOSE f : f = Sel(f)
<1>1. Len(ret) \in Nat /\ \A i \in 1..Len(ret) : ret[i] \in Messages
  OBVIOUS
<1>2. step \in [Nat \X Seq(Messages) -> Seq(Messages)]
  <2>1. ASSUME NEW p \in Nat \X Seq(Messages)
        PROVE  (IF p[1] + 1 \in 1..Len(ret) /\ ret[p[1] + 1].cmd = "getblocktxn"
                THEN Append(p[2], ret[p[1] + 1]) ELSE p[2]) \in Seq(Messages)
    <3>1. p[1] \in Nat /\ p[2] \in Seq(Messages)
      OBVIOUS
    <3>2. QED
      BY <1>1, <3>1
  <2>2. QED
    BY <2>1
<1>3. <<>> \in Seq(Messages)
  OBVIOUS
<1>4. PICK g \in [Nat -> Seq(Messages)] :
        g[0] = <<>> /\ \A n \in Nat : g[n + 1] = step[<<n, g[n]>>]
  <2> DEFINE Q == Seq(Messages)
             none == <<>>
  <2>1. step \in [Nat \X Q -> Q] /\ none \in Q
    BY <1>2, <1>3
  <2> HIDE DEF step, Q, none
  <2>2. Recurs(Q, none, step)
    BY <2>1, Recursion
  <2>3. QED
    BY <2>2 DEF Q, none, Recurs
<1> DEFINE h == [i \in 0..Len(ret) |-> g[i]]
<1>5. h = Sel(h)
  <2>1. ASSUME NEW i \in 0..Len(ret), i # 0
        PROVE  g[i] = IF ret[i].cmd = "getblocktxn" THEN Append(g[i - 1], ret[i]) ELSE g[i - 1]
    <3>1. i - 1 \in Nat /\ (i - 1) + 1 = i /\ i \in 1..Len(ret)
      BY <1>1, <2>1
    <3>2. g[i] = step[<<i - 1, g[i - 1]>>] /\ g[i - 1] \in Seq(Messages)
      BY <1>4, <3>1
    <3>3. step[<<i - 1, g[i - 1]>>] =
            IF ret[i].cmd = "getblocktxn" THEN Append(g[i - 1], ret[i]) ELSE g[i - 1]
      BY <3>1, <3>2
    <3>4. QED
      BY <3>2, <3>3
  <2>2. \A i \in 0..Len(ret) : i # 0 => i - 1 \in 0..Len(ret)
    BY <1>1
  <2>3. QED
    BY <1>4, <2>1, <2>2
<1>6. upTo = Sel(upTo)
  BY <1>5
<1> HIDE DEF upTo, h
<1> DEFINE T == { i \in Nat : i <= Len(ret) => upTo[i] \in Seq(Messages) }
<1>7. 0 \in T
  <2>1. 0 \in 0..Len(ret)
    BY <1>1
  <2>2. upTo[0] = <<>>
    BY <1>6, <2>1
  <2>3. QED
    BY <1>3, <2>2
<1>8. \A i \in Nat : i \in T => i + 1 \in T
  <2>1. SUFFICES ASSUME NEW i \in Nat, i \in T, i + 1 <= Len(ret)
                 PROVE  upTo[i + 1] \in Seq(Messages)
    OBVIOUS
  <2>2. i + 1 \in 0..Len(ret) /\ i + 1 # 0 /\ (i + 1) - 1 = i /\ ret[i + 1] \in Messages
    BY <1>1, <2>1
  <2>3. upTo[i] \in Seq(Messages)
    BY <1>1, <2>1
  <2>4. upTo[i + 1] = IF ret[i + 1].cmd = "getblocktxn" THEN Append(upTo[i], ret[i + 1])
                      ELSE upTo[i]
    BY <1>6, <2>2
  <2>5. QED
    BY <2>2, <2>3, <2>4
<1>9. T = Nat
  <2>1. T \in SUBSET Nat
    OBVIOUS
  <2> HIDE DEF T
  <2>2. QED
    BY <1>7, <1>8, <2>1, Induction
<1>10. Asked(ret) = upTo[Len(ret)]
  BY DEF Asked, upTo
<1>11. Len(ret) \in T
  BY <1>1, <1>9
<1>12. QED
  BY <1>1, <1>10, <1>11

-----------------------------------------------------------------------------
(* One message of a peer is processed: what changes on the sockets.        *)
Processed(id, m, new) ==
  /\ m \in Messages /\ m \in ToSet(to_node[id]) /\ handled = Nobody /\ handled' = id
  /\ id \notin closed
  /\ to_node' \in [Ids -> Seq(Messages)] /\ from_node' \in [Ids -> Seq(Messages)]
  /\ due' \in [Ids -> Seq(Messages)]
  /\ \A j \in Ids \ {id} : to_node'[j] = to_node[j] /\ from_node'[j] = from_node[j]
  /\ \A j \in Ids : \A d \in ToSet(due'[j]) :
       \/ d \in ToSet(due[j]) \/ d = Msg("inv", 0)
       \/ j = id /\ m.cmd = "data" /\ d = Msg("getblocktxn", m.arg)
  /\ ToSet(to_node'[id]) \subseteq ToSet(to_node[id])
  /\ ToSet(to_node'[id]) \subseteq After(to_node[id], m)
  /\ \A a : After(to_node'[id], a) \subseteq After(to_node[id], a)
  /\ ToSet(from_node'[id]) = ToSet(from_node[id]) \cup new
  /\ \A a : \A x \in After(from_node'[id], a) :
       x \in After(from_node[id], a) \/ (x \in new /\ (a \in ToSet(from_node[id]) \/ m.cmd = "version"))
  /\ \/ new = {}
     \/ m.cmd = "version" /\ new \subseteq { Msg("version", 0), Msg("verack", 0) }
     \/ m.cmd = "data" /\ new = { Msg("getblocktxn", m.arg) }
     \/ m.cmd = "ping" /\ new = { Msg("pong", m.arg) }

(* ProcessMessages takes one message, and answers it or not.               *)
LEMMA ProcessEffect ==
  ASSUME PipeTypes, NEW id \in Ids, ProcessMessages(id)
  PROVE  /\ \E m \in Messages, new \in SUBSET Messages : Processed(id, m, new)
         /\ UNCHANGED <<fields, calls, closed>>
         /\ peer' \in [Ids -> {"none", "connected", "versioned", "established"}]
         /\ \A j \in Ids : peer[j] = "none" => peer'[j] = "none"
<1> DEFINE m == Head(to_node[id])
           f == from_node[id]
<1>1. /\ to_node[id] \in Seq(Messages) /\ to_node[id] # <<>> /\ f \in Seq(Messages)
      /\ due[id] \in Seq(Messages) /\ to_node \in [Ids -> Seq(Messages)]
      /\ from_node \in [Ids -> Seq(Messages)] /\ due \in [Ids -> Seq(Messages)]
      /\ to_node' = [to_node EXCEPT ![id] = Tail(to_node[id])]
  BY DEF PipeTypes, ProcessMessages
<1>2. /\ Tail(to_node[id]) \in Seq(Messages) /\ m \in Messages
      /\ ToSet(to_node[id]) = {m} \cup ToSet(Tail(to_node[id]))
      /\ ToSet(Tail(to_node[id])) \subseteq After(to_node[id], m)
      /\ \A a : After(Tail(to_node[id]), a) \subseteq After(to_node[id], a)
  BY <1>1, TailSets
<1>3. /\ to_node' \in [Ids -> Seq(Messages)] /\ to_node'[id] = Tail(to_node[id])
      /\ \A j \in Ids \ {id} : to_node'[j] = to_node[j]
  <2> HIDE DEF m
  <2>1. QED
    BY <1>1, <1>2
<1>4. /\ handled = Nobody /\ handled' = id /\ id \notin closed
      /\ UNCHANGED <<fields, calls, closed>>
  BY DEF ProcessMessages
<1>5. m.arg \in Nat /\ m.cmd \in Commands
  BY <1>2, MsgType DEF Commands
<1> DEFINE Grows(new) ==
             /\ from_node' \in [Ids -> Seq(Messages)]
             /\ \A j \in Ids \ {id} : from_node'[j] = from_node[j]
             /\ ToSet(from_node'[id]) = ToSet(f) \cup new
             /\ \A a : \A x \in After(from_node'[id], a) :
                  x \in After(f, a) \/ (x \in new /\ (a \in ToSet(f) \/ m.cmd = "version"))
           Dues(S) ==
             /\ due' \in [Ids -> Seq(Messages)]
             /\ \A j \in Ids : \A d \in ToSet(due'[j]) :
                  d \in ToSet(due[j]) \/ d = Msg("inv", 0) \/ (j = id /\ d \in S)
<1>6. UNCHANGED from_node => Grows({})
  BY <1>1
<1>7. UNCHANGED due => Dues({})
  BY <1>1
<1> HIDE DEF m
<1>8. ASSUME NEW c, Msg(c, m.arg) \in Messages,
             from_node' = [from_node EXCEPT ![id] = Append(@, Msg(c, m.arg))]
      PROVE  Grows({Msg(c, m.arg)})
  <2> DEFINE x == Msg(c, m.arg)
  <2>1. x \in Messages
    BY <1>8
  <2> HIDE DEF x
  <2>2. <<x>> \in Seq(Messages) /\ ToSet(<<x>>) = {x} /\ \A a : After(<<x>>, a) = {}
    BY <2>1, SingleSets, PairSets
  <2>3. Append(f, x) = f \o <<x>>
    BY <1>1, <2>1
  <2>4. /\ f \o <<x>> \in Seq(Messages)
        /\ ToSet(f \o <<x>>) = ToSet(f) \cup {x}
        /\ \A a : \A y \in After(f \o <<x>>, a) :
             y \in After(f, a) \/ (a \in ToSet(f) /\ y \in {x})
    BY <1>1, <2>2, ConcatSets
  <2>5. from_node' = [from_node EXCEPT ![id] = f \o <<x>>]
    BY <1>8, <2>3 DEF x
  <2>6. from_node'[id] = f \o <<x>> /\ from_node' \in [Ids -> Seq(Messages)]
        /\ \A j \in Ids \ {id} : from_node'[j] = from_node[j]
    BY <1>1, <2>4, <2>5
  <2>7. Grows({x})
    BY <2>4, <2>6
  <2>8. QED
    BY <2>7 DEF x
<1>9. ASSUME NEW j \in Ids, NEW x \in Messages
      PROVE  /\ Append(due[j], x) \in Seq(Messages)
             /\ ToSet(Append(due[j], x)) = ToSet(due[j]) \cup {x}
  <2>1. x \in Messages /\ due[j] \in Seq(Messages)
    BY <1>1
  <2>2. <<x>> \in Seq(Messages) /\ ToSet(<<x>>) = {x}
    BY <2>1, SingleSets, PairSets
  <2>3. Append(due[j], x) = due[j] \o <<x>>
    BY <2>1
  <2>4. due[j] \o <<x>> \in Seq(Messages) /\ ToSet(due[j] \o <<x>>) = ToSet(due[j]) \cup {x}
    BY <2>1, <2>2, ConcatSets
  <2>5. QED
    BY <2>3, <2>4
<1>10. ASSUME NEW x \in Messages, due' = [due EXCEPT ![id] = Append(@, x)]
       PROVE  Dues({x})
  <2>1. /\ due'[id] = Append(due[id], x) /\ due' \in [Ids -> Seq(Messages)]
        /\ \A j \in Ids \ {id} : due'[j] = due[j]
    BY <1>1, <1>9, <1>10
  <2>2. ToSet(due'[id]) = ToSet(due[id]) \cup {x}
    BY <1>9, <2>1
  <2>3. QED
    BY <2>1, <2>2
<1>11. ASSUME NEW ids, due' = Relays(ids) PROVE Dues({})
  <2> DEFINE x == Msg("inv", 0)
  <2>1. x \in Messages /\ \A j \in Ids : due'[j] = Append(due[j], x) \/ due'[j] = due[j]
    BY <1>11, MsgType DEF Relays, Commands
  <2> HIDE DEF x
  <2>2. ASSUME NEW j \in Ids
        PROVE  due'[j] \in Seq(Messages) /\ ToSet(due'[j]) \subseteq ToSet(due[j]) \cup {x}
    <3>1. CASE due'[j] = Append(due[j], x)
      BY <1>9, <2>1, <3>1
    <3>2. CASE due'[j] = due[j]
      BY <1>1, <3>2
    <3>3. QED
      BY <2>1, <3>1, <3>2
  <2>3. due' = [j \in Ids |-> due'[j]]
    BY <1>11 DEF Relays
  <2>4. QED
    BY <2>2, <2>3 DEF x
<1>12. ASSUME from_node' = [from_node EXCEPT ![id] = @ \o Versions(id)], m.cmd = "version"
       PROVE  Grows(ToSet(Versions(id)))
  <2>1. Msg("version", 0) \in Messages /\ Msg("verack", 0) \in Messages
    BY MsgType DEF Commands
  <2>2. Versions(id) \in Seq(Messages)
    BY <2>1 DEF Versions
  <2>3. /\ f \o Versions(id) \in Seq(Messages)
        /\ ToSet(f \o Versions(id)) = ToSet(f) \cup ToSet(Versions(id))
        /\ \A a : \A y \in After(f \o Versions(id), a) :
             y \in After(f, a) \/ y \in After(Versions(id), a)
               \/ (a \in ToSet(f) /\ y \in ToSet(Versions(id)))
    BY <1>1, <2>2, ConcatSets
  <2>4. \A a : After(Versions(id), a) \subseteq ToSet(Versions(id))
    BY <2>2, ToSetType
  <2>5. from_node'[id] = f \o Versions(id) /\ from_node' \in [Ids -> Seq(Messages)]
        /\ \A j \in Ids \ {id} : from_node'[j] = from_node[j]
    BY <1>1, <1>12, <2>3
  <2>6. QED
    BY <1>12, <2>3, <2>4, <2>5
<1>13. ToSet(Versions(id)) \subseteq { Msg("version", 0), Msg("verack", 0) }
       /\ Msg("version", 0) \in Messages /\ Msg("verack", 0) \in Messages
  <2>1. Msg("version", 0) \in Messages /\ Msg("verack", 0) \in Messages
    BY MsgType DEF Commands
  <2>2. /\ ToSet(<< Msg("version", 0), Msg("verack", 0) >>) = {Msg("version", 0), Msg("verack", 0)}
        /\ ToSet(<< Msg("verack", 0) >>) = {Msg("verack", 0)}
    BY <2>1, SingleSets, PairSets
  <2>3. QED
    BY <2>1, <2>2 DEF Versions
(* The answer, from what the message was.                                  *)
<1>14. \E new \in SUBSET Messages, S \in SUBSET Messages :
         /\ Grows(new) /\ Dues(S)
         /\ S = {} \/ (m.cmd = "data" /\ S = {Msg("getblocktxn", m.arg)})
         /\ \/ new = {}
            \/ m.cmd = "version" /\ new \subseteq { Msg("version", 0), Msg("verack", 0) }
            \/ m.cmd = "data" /\ new = { Msg("getblocktxn", m.arg) }
            \/ m.cmd = "ping" /\ new = { Msg("pong", m.arg) }
  <2>1. CASE m.cmd = "version" /\ from_node' = [from_node EXCEPT ![id] = @ \o Versions(id)]
             /\ UNCHANGED due
    <3>1. Grows(ToSet(Versions(id))) /\ Dues({}) /\ ToSet(Versions(id)) \in SUBSET Messages
      BY <1>7, <1>12, <1>13, <2>1
    <3> HIDE DEF Grows, Dues
    <3>2. QED
      BY <1>13, <2>1, <3>1
  <2>2. CASE UNCHANGED <<from_node, due>>
    <3>1. Grows({}) /\ Dues({}) /\ {} \in SUBSET Messages
      BY <1>6, <1>7, <2>2
    <3> HIDE DEF Grows, Dues
    <3>2. QED
      BY <3>1
  <2>3. CASE Answer(id, m)
    <3>1. CASE m.cmd = "data" /\ UNCHANGED due
               /\ from_node' = [from_node EXCEPT ![id] = Append(@, Msg("getblocktxn", m.arg))]
      <4>1. Msg("getblocktxn", m.arg) \in Messages
        BY <1>5, MsgType DEF Commands
      <4>2. Grows({Msg("getblocktxn", m.arg)}) /\ Dues({})
        BY <1>7, <1>8, <3>1, <4>1
      <4> HIDE DEF Grows, Dues
      <4>3. QED
        BY <3>1, <4>1, <4>2
    <3>2. CASE m.cmd = "data" /\ UNCHANGED from_node
               /\ due' = [due EXCEPT ![id] = Append(@, Msg("getblocktxn", m.arg))]
      <4>1. Msg("getblocktxn", m.arg) \in Messages
        BY <1>5, MsgType DEF Commands
      <4>2. Grows({}) /\ Dues({Msg("getblocktxn", m.arg)})
        BY <1>6, <1>10, <3>2, <4>1
      <4> HIDE DEF Grows, Dues
      <4>3. QED
        BY <3>2, <4>1, <4>2
    <3>3. CASE m.cmd = "block" /\ due' = Relays(Established \ {id}) /\ UNCHANGED from_node
      <4>1. Grows({}) /\ Dues({})
        BY <1>6, <1>11, <3>3
      <4> HIDE DEF Grows, Dues
      <4>2. QED
        BY <4>1
    <3>4. CASE m.cmd = "ping" /\ UNCHANGED due
               /\ from_node' = [from_node EXCEPT ![id] = Append(@, Msg("pong", m.arg))]
      <4>1. Msg("pong", m.arg) \in Messages
        BY <1>5, MsgType DEF Commands
      <4>2. Grows({Msg("pong", m.arg)}) /\ Dues({})
        BY <1>7, <1>8, <3>4, <4>1
      <4> HIDE DEF Grows, Dues
      <4>3. QED
        BY <3>4, <4>1, <4>2
    <3>5. QED
      <4> HIDE DEF Grows, Dues
      <4>1. QED
        BY <2>2, <2>3, <3>1, <3>2, <3>3, <3>4 DEF Answer
  <2>4. QED
    <3> HIDE DEF Grows, Dues
    <3>1. QED
      BY <2>1, <2>2, <2>3 DEF ProcessMessages, m
<1>15. /\ peer' \in [Ids -> {"none", "connected", "versioned", "established"}]
       /\ \A j \in Ids : peer[j] = "none" => peer'[j] = "none"
  <2>1. peer \in [Ids -> {"none", "connected", "versioned", "established"}]
    BY DEF PipeTypes
  <2>2. \/ UNCHANGED peer
        \/ peer[id] = "connected" /\ peer' = [peer EXCEPT ![id] = "versioned"]
        \/ peer[id] = "versioned" /\ peer' = [peer EXCEPT ![id] = "established"]
    BY DEF ProcessMessages
  <2>3. QED
    BY <2>1, <2>2
<1>16. PICK new \in SUBSET Messages, S \in SUBSET Messages :
         /\ Grows(new) /\ Dues(S)
         /\ S = {} \/ (m.cmd = "data" /\ S = {Msg("getblocktxn", m.arg)})
         /\ \/ new = {}
            \/ m.cmd = "version" /\ new \subseteq { Msg("version", 0), Msg("verack", 0) }
            \/ m.cmd = "data" /\ new = { Msg("getblocktxn", m.arg) }
            \/ m.cmd = "ping" /\ new = { Msg("pong", m.arg) }
  BY <1>14
<1>17. Processed(id, m, new)
  BY <1>2, <1>3, <1>4, <1>16 DEF Processed
<1>18. QED
  BY <1>2, <1>4, <1>15, <1>17

(* The node sends what has become due, or drops the peer: what is under    *)
(* way to the peer comes from what was, and nothing is due any more.       *)
Flushed(id) ==
  /\ to_node' \in [Ids -> Seq(Messages)] /\ from_node' \in [Ids -> Seq(Messages)]
  /\ due' \in [Ids -> Seq(Messages)]
  /\ \A j \in Ids \ {id} :
       to_node'[j] = to_node[j] /\ from_node'[j] = from_node[j] /\ due'[j] = due[j]
  /\ ToSet(to_node'[id]) \subseteq ToSet(to_node[id])
  /\ \A a : After(to_node'[id], a) \subseteq After(to_node[id], a)
  /\ \A x \in ToSet(from_node'[id]) : x \in ToSet(from_node[id]) \/ x \in ToSet(due[id])
  /\ \A a : \A x \in After(from_node'[id], a) :
       \/ x \in After(from_node[id], a)
       \/ x \in ToSet(due[id]) /\ a \in ToSet(from_node[id]) \cup ToSet(due[id])
  /\ ToSet(due'[id]) = {}
  /\ handled \in {id, Nobody} /\ handled' = Nobody
  /\ closed \subseteq closed' /\ closed' \subseteq closed \cup {id}
  /\ id \in closed' => to_node'[id] = <<>> /\ peer[id] # "none"
  /\ UNCHANGED <<fields, calls, peer>>

(* SendMessages empties what is due.                                       *)
LEMMA SendEffect ==
  ASSUME PipeTypes, NEW id \in Ids, SendMessages(id)
  PROVE  Flushed(id)
<1>1. /\ from_node[id] \in Seq(Messages) /\ due[id] \in Seq(Messages)
      /\ to_node \in [Ids -> Seq(Messages)]
      /\ from_node \in [Ids -> Seq(Messages)] /\ due \in [Ids -> Seq(Messages)]
  BY DEF PipeTypes
<1>2. /\ from_node[id] \o due[id] \in Seq(Messages)
      /\ ToSet(from_node[id] \o due[id]) = ToSet(from_node[id]) \cup ToSet(due[id])
      /\ \A a : \A x \in After(from_node[id] \o due[id], a) :
           x \in After(from_node[id], a) \/ x \in After(due[id], a)
             \/ (a \in ToSet(from_node[id]) /\ x \in ToSet(due[id]))
  BY <1>1, ConcatSets
<1>3. \A a : \A x \in After(due[id], a) : x \in ToSet(due[id]) /\ a \in ToSet(due[id])
  BY <1>1, AfterSets
<1>4. /\ from_node' = [from_node EXCEPT ![id] = from_node[id] \o due[id]]
      /\ due' = [due EXCEPT ![id] = <<>>]
      /\ handled \in {id, Nobody} /\ handled' = Nobody /\ id \notin closed
      /\ UNCHANGED <<fields, calls, to_node, closed, peer>>
  BY DEF SendMessages
<1>5. /\ from_node' \in [Ids -> Seq(Messages)]
      /\ from_node'[id] = from_node[id] \o due[id]
      /\ \A j \in Ids \ {id} : from_node'[j] = from_node[j]
  BY <1>1, <1>2, <1>4
<1>6. <<>> \in Seq(Messages)
  OBVIOUS
<1>7. /\ due' \in [Ids -> Seq(Messages)] /\ due'[id] = <<>>
      /\ \A j \in Ids \ {id} : due'[j] = due[j]
  BY <1>1, <1>4, <1>6
<1>8. QED
  BY <1>1, <1>2, <1>3, <1>4, <1>5, <1>7, EmptySets DEF Flushed

(* So does Disconnect, and it empties the socket.                          *)
LEMMA DropEffect ==
  ASSUME PipeTypes, NEW id \in Ids, Disconnect(id)
  PROVE  Flushed(id)
<1>1. /\ to_node \in [Ids -> Seq(Messages)]
      /\ from_node \in [Ids -> Seq(Messages)] /\ due \in [Ids -> Seq(Messages)]
      /\ <<>> \in Seq(Messages)
  BY DEF PipeTypes
<1>2. /\ peer[id] # "none" /\ id \notin closed /\ handled \in {id, Nobody}
      /\ closed' = closed \cup {id} /\ handled' = Nobody
      /\ to_node' = [to_node EXCEPT ![id] = <<>>] /\ due' = [due EXCEPT ![id] = <<>>]
      /\ \/ from_node' = from_node
         \/ from_node' = [from_node EXCEPT ![id] = <<>>]
      /\ UNCHANGED <<fields, calls, peer>>
  BY DEF Disconnect
<1>3. /\ to_node' \in [Ids -> Seq(Messages)] /\ to_node'[id] = <<>>
      /\ due' \in [Ids -> Seq(Messages)] /\ due'[id] = <<>>
      /\ \A j \in Ids \ {id} : to_node'[j] = to_node[j] /\ due'[j] = due[j]
  BY <1>1, <1>2
<1>4. /\ from_node' \in [Ids -> Seq(Messages)] /\ from_node'[id] \in {from_node[id], <<>>}
      /\ \A j \in Ids \ {id} : from_node'[j] = from_node[j]
  BY <1>1, <1>2
<1>5. QED
  BY <1>2, <1>3, <1>4, EmptySets DEF Flushed

-----------------------------------------------------------------------------
(* A message that the node processes disturbs nothing on the sockets.      *)
LEMMA ProcessKeepsPipes ==
  ASSUME PipeInv, NEW id \in Ids, ProcessMessages(id), UNCHANGED scenario
  PROVE  PipeInv'
<1>1. PipeTypes
  BY DEF PipeInv
<1>2. /\ UNCHANGED <<fields, calls, closed, scenario>>
      /\ peer' \in [Ids -> {"none", "connected", "versioned", "established"}]
  BY <1>1, ProcessEffect
<1>3. PICK m \in Messages, new \in SUBSET Messages : Processed(id, m, new)
  BY <1>1, ProcessEffect
<1>4. /\ UNCHANGED <<connection_type, handshake_complete, ping_counter, call, last, closed>>
      /\ UNCHANGED <<connections, opened, phase, pos, force_send_and_ping, actions, raw>>
  BY <1>2 DEF fields, calls, scenario
<1>5. Nobody \notin Ids
  BY ConnectionsAssumption DEF Nobody, Ids
<1>6. \A x \in new : x.cmd \in {"version", "verack", "getblocktxn", "pong"}
                   /\ (x.cmd = "getblocktxn" => m.cmd = "data" /\ x = Msg("getblocktxn", m.arg))
                   /\ (x.cmd = "pong" => m.cmd = "ping" /\ x = Msg("pong", m.arg))
  <2>1. SUFFICES ASSUME NEW x \in new
                 PROVE  \/ x.cmd = "version" \/ x.cmd = "verack"
                        \/ x.cmd = "getblocktxn" /\ m.cmd = "data" /\ x = Msg("getblocktxn", m.arg)
                        \/ x.cmd = "pong" /\ m.cmd = "ping" /\ x = Msg("pong", m.arg)
    OBVIOUS
  <2>2. \/ x = Msg("version", 0) \/ x = Msg("verack", 0)
        \/ m.cmd = "data" /\ x = Msg("getblocktxn", m.arg)
        \/ m.cmd = "ping" /\ x = Msg("pong", m.arg)
    BY <1>3, <2>1 DEF Processed
  <2>3. QED
    BY <2>2, MsgType
<1>7. /\ Msg("inv", 0).cmd = "inv" /\ Msg("getblocktxn", m.arg).cmd = "getblocktxn"
      /\ Msg("getblocktxn", m.arg).arg = m.arg /\ Msg("pong", m.arg).arg = m.arg
      /\ Msg("pong", m.arg).cmd = "pong"
  BY MsgType
<1>8. PipeTypes'
  BY <1>1, <1>2, <1>3, <1>4 DEF PipeTypes, Processed
<1>9. NodeKeepsUp'
  <2>1. NodeKeepsUp
    BY DEF PipeInv
  <2>2. ASSUME NEW j \in Ids PROVE (j \in closed => to_node[j] = <<>> /\ handled # j)'
    BY <1>3, <1>4, <2>1 DEF NodeKeepsUp, Processed
  <2>3. ASSUME NEW j \in Ids, NEW d \in ToSet(due'[j])
        PROVE  d.cmd = "inv" \/ (d.cmd = "getblocktxn" /\ handled' = j)
    BY <1>3, <1>5, <1>7, <2>1 DEF NodeKeepsUp, Processed
  <2>4. QED
    BY <2>2, <2>3 DEF NodeKeepsUp
<1>10. InCall'
  BY <1>4 DEF PipeInv, InCall, Doing, Current
<1>11. ASSUME NEW j \in Ids, NoData(j) PROVE NoData(j)'
  BY <1>3, <1>6, <1>7, <1>11 DEF NoData, Processed
<1>12. Untouched'
  BY <1>4, <1>11 DEF PipeInv, Untouched
<1>13. ASSUME NEW j \in Ids, NEW S, NEW n, PingsAtMost(j, S, n)
       PROVE  /\ \A x \in ToSet(to_node'[j]) : x.cmd = "ping" => x.arg <= n \/ x.arg \in S
              /\ \A x \in ToSet(from_node'[j]) : x.cmd = "pong" => x.arg <= n \/ x.arg \in S
  BY <1>3, <1>6, <1>7, <1>13 DEF PingsAtMost, Processed
<1>14. NoncesKnown'
  BY <1>4, <1>13 DEF PipeInv, NoncesKnown, PingsAtMost
<1>15. QuietBetweenCalls'
  <2>1. SUFFICES ASSUME NEW j \in Ids, force_send_and_ping, handshake_complete[j],
                        ~ Waiting(j, "send_and_recv")
                 PROVE  NoData(j)' /\ PingsAtMost(j, {}, ping_counter[j])'
    BY <1>4 DEF QuietBetweenCalls, Waiting
  <2>2. NoData(j) /\ PingsAtMost(j, {}, ping_counter[j])
    BY <2>1 DEF PipeInv, QuietBetweenCalls
  <2>3. NoData(j)'
    BY <1>11, <2>2
  <2>4. /\ \A x \in ToSet(to_node'[j]) : x.cmd = "ping" => x.arg <= ping_counter[j] \/ x.arg \in {}
        /\ \A x \in ToSet(from_node'[j]) : x.cmd = "pong" => x.arg <= ping_counter[j] \/ x.arg \in {}
    BY <1>13, <2>2
  <2>5. QED
    BY <1>4, <2>3, <2>4 DEF PingsAtMost
<1>16. ASSUME NEW j \in Ids, NEW n \in Nat, PongIsLast(j, n)
       PROVE  PongIsLast(j, n)'
  <2>1. CASE j # id
    <3>1. /\ to_node'[j] = to_node[j] /\ from_node'[j] = from_node[j]
          /\ \A d \in ToSet(due'[j]) : d \in ToSet(due[j]) \/ d.cmd = "inv"
      BY <1>3, <1>7, <2>1 DEF Processed
    <3>2. QED
      BY <1>16, <3>1 DEF PongIsLast
  <2>2. CASE j = id
    <3>1. ASSUME Msg("pong", n) \in ToSet(from_node'[id])
          PROVE  /\ \A x \in ToSet(to_node'[id]) : x.cmd = "ping" /\ x.arg <= n
                 /\ \A d \in ToSet(due'[id]) : d.cmd # "getblocktxn"
      <4>1. CASE Msg("pong", n) \in ToSet(from_node[id])
        <5>1. m.cmd = "ping"
          BY <1>3, <1>16, <2>2, <4>1 DEF PongIsLast, Processed
        <5>2. QED
          BY <1>3, <1>7, <1>16, <2>2, <4>1, <5>1 DEF PongIsLast, Processed
      <4>2. CASE Msg("pong", n) \in new
        <5>1. m = Msg("ping", n)
          <6>1. m.cmd = "ping" /\ m.arg = n
            BY <1>6, <1>7, <4>2, MsgType
          <6>2. QED
            BY <6>1, MsgType
        <5>2. \A x \in ToSet(to_node'[id]) : x.cmd = "ping" /\ x.arg <= n
          BY <1>3, <1>16, <2>2, <5>1 DEF PongIsLast, Processed
        <5>3. m.cmd = "ping"
          BY <5>1, MsgType
        <5>4. \A d \in ToSet(due'[id]) : d \in ToSet(due[id]) \/ d.cmd = "inv"
          BY <1>3, <1>7, <5>3 DEF Processed
        <5>5. \A d \in ToSet(due[id]) : d.cmd # "getblocktxn"
          BY <1>3, <1>5 DEF PipeInv, NodeKeepsUp, Processed
        <5>6. QED
          BY <5>2, <5>4, <5>5
      <4>3. QED
        BY <1>3, <3>1, <4>1, <4>2 DEF Processed
    <3>2. ASSUME NEW x \in After(from_node'[id], Msg("pong", n))
          PROVE  x.cmd # "getblocktxn" /\ (x.cmd = "pong" => x.arg <= n)
      <4>1. CASE x \in After(from_node[id], Msg("pong", n))
        BY <1>16, <2>2, <4>1 DEF PongIsLast
      <4>2. CASE x \in new /\ Msg("pong", n) \in ToSet(from_node[id])
        <5>1. m.cmd = "ping" /\ m.arg <= n
          BY <1>3, <1>16, <2>2, <4>2 DEF PongIsLast, Processed
        <5>2. QED
          BY <1>6, <1>7, <4>2, <5>1
      <4>3. CASE x \in new /\ m.cmd = "version"
        BY <1>6, <4>3
      <4>4. QED
        BY <1>3, <4>1, <4>2, <4>3 DEF Processed
    <3>3. \A x \in After(to_node'[id], Msg("ping", n)) : x.cmd = "ping" /\ x.arg <= n
      BY <1>3, <1>16, <2>2 DEF PongIsLast, Processed
    <3>4. QED
      BY <2>2, <3>1, <3>2, <3>3 DEF PongIsLast
  <2>3. QED
    BY <2>1, <2>2
<1>17. PongWaitedFor'
  <2>1. SUFFICES ASSUME call # Idle, call.op # "version_handshake", ~ Forged(call.id)
                 PROVE  PongIsLast(call.id, ping_counter[call.id])'
    BY <1>4 DEF PongWaitedFor, Forged
  <2>2. call.id \in Ids /\ ping_counter[call.id] \in Nat
    BY <1>1, <2>1 DEF PipeTypes, CallRecord
  <2>3. PongIsLast(call.id, ping_counter[call.id])
    BY <2>1 DEF PipeInv, PongWaitedFor
  <2>4. PongIsLast(call.id, ping_counter[call.id])' <=>
          /\ Msg("pong", ping_counter[call.id]) \in ToSet(from_node'[call.id]) =>
               /\ \A x \in ToSet(to_node'[call.id]) : x.cmd = "ping" /\ x.arg <= ping_counter[call.id]
               /\ \A d \in ToSet(due'[call.id]) : d.cmd # "getblocktxn"
          /\ \A x \in After(from_node'[call.id], Msg("pong", ping_counter[call.id])) :
               x.cmd # "getblocktxn" /\ (x.cmd = "pong" => x.arg <= ping_counter[call.id])
          /\ \A x \in After(to_node'[call.id], Msg("ping", ping_counter[call.id])) :
               x.cmd = "ping" /\ x.arg <= ping_counter[call.id]
    BY <1>4 DEF PongIsLast
  <2>5. QED
    BY <1>16, <2>2, <2>3, <2>4 DEF PongIsLast
<1>18. AsksAboutItsMessage'
  <2>1. AsksAboutItsMessage
    BY DEF PipeInv
  <2>2. ASSUME call # Idle, call.op = "send_and_recv"
        PROVE  /\ \A x \in ToSet(to_node'[call.id]) : x.cmd = "data" => x.arg = actions
               /\ \A x \in ToSet(from_node'[call.id]) \cup ToSet(due'[call.id]) \cup ToSet(call.ret) :
                    x.cmd = "getblocktxn" => x.arg = actions
    <3>1. call.id \in Ids
      BY <1>1, <2>2 DEF PipeTypes, CallRecord
    <3>2. /\ \A y \in ToSet(to_node[call.id]) : y.cmd = "data" => y.arg = actions
          /\ \A y \in ToSet(from_node[call.id]) \cup ToSet(due[call.id]) \cup ToSet(call.ret) :
               y.cmd = "getblocktxn" => y.arg = actions
      BY <2>1, <2>2 DEF AsksAboutItsMessage, AskedAbout
    <3>3. CASE call.id = id
      BY <1>3, <1>6, <1>7, <2>2, <3>2, <3>3 DEF Processed
    <3>4. CASE call.id # id
      BY <1>3, <1>7, <2>2, <3>1, <3>2, <3>4 DEF Processed
    <3>5. QED
      BY <3>3, <3>4
  <2>3. QED
    BY <1>4, <2>1, <2>2 DEF AsksAboutItsMessage, AskedAbout, Returned
<1>19. QED
  BY <1>8, <1>9, <1>10, <1>12, <1>14, <1>15, <1>17, <1>18 DEF PipeInv

(* Neither does what it sends, or its dropping of the peer.                *)
LEMMA FlushKeepsPipes ==
  ASSUME PipeInv, NEW id \in Ids, Flushed(id), UNCHANGED scenario
  PROVE  PipeInv'
<1>1. PipeTypes /\ NodeKeepsUp
  BY DEF PipeInv
<1>2. /\ UNCHANGED <<connection_type, handshake_complete, ping_counter, call, last, peer>>
      /\ UNCHANGED <<connections, opened, phase, pos, force_send_and_ping, actions, raw>>
  BY DEF Flushed, fields, calls, scenario
<1>3. Nobody \notin Ids
  BY ConnectionsAssumption DEF Nobody, Ids
<1>4. PipeTypes'
  BY <1>1, <1>2 DEF PipeTypes, Flushed
<1>5. \A x \in ToSet(due[id]) : x.cmd # "pong"
  BY <1>1 DEF NodeKeepsUp
<1>6. NodeKeepsUp'
  <2>1. ASSUME NEW j \in Ids PROVE (j \in closed => to_node[j] = <<>> /\ handled # j)'
    BY <1>1, <1>3 DEF NodeKeepsUp, Flushed
  <2>2. ASSUME NEW j \in Ids, NEW d \in ToSet(due'[j]) PROVE d.cmd = "inv"
    BY <1>1, <1>3, <2>2 DEF NodeKeepsUp, Flushed
  <2>3. QED
    BY <2>1, <2>2 DEF NodeKeepsUp
<1>7. InCall'
  BY <1>2 DEF PipeInv, InCall, Doing, Current
<1>8. ASSUME NEW j \in Ids, NoData(j) PROVE NoData(j)'
  BY <1>8 DEF NoData, Flushed
<1>9. Untouched'
  BY <1>2, <1>8 DEF PipeInv, Untouched
<1>10. ASSUME NEW j \in Ids, NEW S, NEW n, PingsAtMost(j, S, n)
       PROVE  /\ \A x \in ToSet(to_node'[j]) : x.cmd = "ping" => x.arg <= n \/ x.arg \in S
              /\ \A x \in ToSet(from_node'[j]) : x.cmd = "pong" => x.arg <= n \/ x.arg \in S
  BY <1>5, <1>10 DEF PingsAtMost, Flushed
<1>11. NoncesKnown'
  BY <1>2, <1>10 DEF PipeInv, NoncesKnown, PingsAtMost
<1>12. QuietBetweenCalls'
  <2>1. SUFFICES ASSUME NEW j \in Ids, force_send_and_ping, handshake_complete[j],
                        ~ Waiting(j, "send_and_recv")
                 PROVE  NoData(j)' /\ PingsAtMost(j, {}, ping_counter[j])'
    BY <1>2 DEF QuietBetweenCalls, Waiting
  <2>2. NoData(j) /\ PingsAtMost(j, {}, ping_counter[j])
    BY <2>1 DEF PipeInv, QuietBetweenCalls
  <2>3. NoData(j)'
    BY <1>8, <2>2
  <2>4. /\ \A x \in ToSet(to_node'[j]) : x.cmd = "ping" => x.arg <= ping_counter[j] \/ x.arg \in {}
        /\ \A x \in ToSet(from_node'[j]) : x.cmd = "pong" => x.arg <= ping_counter[j] \/ x.arg \in {}
    BY <1>10, <2>2
  <2>5. QED
    BY <1>2, <2>3, <2>4 DEF PingsAtMost
<1>13. PongWaitedFor'
  <2>1. SUFFICES ASSUME call # Idle, call.op # "version_handshake", ~ Forged(call.id)
                 PROVE  PongIsLast(call.id, ping_counter[call.id])'
    BY <1>2 DEF PongWaitedFor, Forged
  <2>2. call.id \in Ids /\ ping_counter[call.id] \in Nat
    BY <1>1, <2>1 DEF PipeTypes, CallRecord
  <2> DEFINE j == call.id
             n == ping_counter[call.id]
  <2>3. PongIsLast(j, n)
    BY <2>1 DEF PipeInv, PongWaitedFor
  <2>4. j' = j /\ n' = n
    BY <1>2
  <2>5. Msg("pong", n).cmd = "pong"
    BY MsgType
  <2> HIDE DEF j, n
  <2>6. /\ Msg("pong", n) \in ToSet(from_node'[j]) =>
             /\ \A x \in ToSet(to_node'[j]) : x.cmd = "ping" /\ x.arg <= n
             /\ \A d \in ToSet(due'[j]) : d.cmd # "getblocktxn"
        /\ \A x \in After(from_node'[j], Msg("pong", n)) :
             x.cmd # "getblocktxn" /\ (x.cmd = "pong" => x.arg <= n)
        /\ \A x \in After(to_node'[j], Msg("ping", n)) : x.cmd = "ping" /\ x.arg <= n
    <3>1. CASE j = id
      <4>1. Msg("pong", n) \notin ToSet(due[id])
        BY <1>5, <2>5
      <4>2. ASSUME NEW x \in After(from_node'[j], Msg("pong", n))
            PROVE  x.cmd # "getblocktxn" /\ (x.cmd = "pong" => x.arg <= n)
        BY <1>5, <2>3, <3>1, <4>1 DEF PongIsLast, Flushed
      <4>3. QED
        BY <2>3, <3>1, <4>1, <4>2 DEF PongIsLast, Flushed
    <3>2. CASE j # id
      BY <2>2, <2>3, <3>2 DEF PongIsLast, Flushed, j
    <3>3. QED
      BY <3>1, <3>2
  <2>7. QED
    BY <2>4, <2>6 DEF PongIsLast, j, n
<1>14. AsksAboutItsMessage'
  <2>1. AsksAboutItsMessage
    BY DEF PipeInv
  <2>2. ASSUME call # Idle, call.op = "send_and_recv"
        PROVE  /\ \A x \in ToSet(to_node'[call.id]) : x.cmd = "data" => x.arg = actions
               /\ \A x \in ToSet(from_node'[call.id]) \cup ToSet(due'[call.id]) \cup ToSet(call.ret) :
                    x.cmd = "getblocktxn" => x.arg = actions
    <3>1. call.id \in Ids
      BY <1>1, <2>2 DEF PipeTypes, CallRecord
    <3>2. /\ \A y \in ToSet(to_node[call.id]) : y.cmd = "data" => y.arg = actions
          /\ \A y \in ToSet(from_node[call.id]) \cup ToSet(due[call.id]) \cup ToSet(call.ret) :
               y.cmd = "getblocktxn" => y.arg = actions
      BY <2>1, <2>2 DEF AsksAboutItsMessage, AskedAbout
    <3>3. CASE call.id = id
      BY <2>2, <3>2, <3>3 DEF Flushed
    <3>4. CASE call.id # id
      BY <2>2, <3>1, <3>2, <3>4 DEF Flushed
    <3>5. QED
      BY <3>3, <3>4
  <2>3. QED
    BY <1>2, <2>1, <2>2 DEF AsksAboutItsMessage, AskedAbout, Returned
<1>15. QED
  BY <1>4, <1>6, <1>7, <1>9, <1>11, <1>12, <1>13, <1>14 DEF PipeInv

-----------------------------------------------------------------------------
(* The scenario sends messages on a connection, or fails to.               *)
Grown(id, ms) ==
  /\ \A j \in Ids \ {id} : to_node'[j] = to_node[j]
  /\ \A x \in ToSet(to_node'[id]) : x \in ToSet(to_node[id]) \/ x \in ToSet(ms)
  /\ \A a : \A x \in After(to_node'[id], a) :
       \/ x \in After(to_node[id], a) \/ x \in After(ms, a)
       \/ a \in ToSet(to_node[id]) /\ x \in ToSet(ms)
  /\ id \in closed => to_node'[id] = to_node[id]

(* Messages that are sent come after those that are under way.             *)
LEMMA SendsEffect ==
  ASSUME PipeTypes, NEW id \in Ids, NEW ms \in Seq(Messages), Sends(id, ms) \/ UNCHANGED to_node
  PROVE  Grown(id, ms) /\ to_node' \in [Ids -> Seq(Messages)]
<1>1. to_node \in [Ids -> Seq(Messages)] /\ to_node[id] \in Seq(Messages)
  BY DEF PipeTypes
<1>2. CASE to_node' = to_node
  BY <1>1, <1>2 DEF Grown
<1>3. CASE id \notin closed /\ to_node' = [to_node EXCEPT ![id] = @ \o ms]
  <2>1. /\ to_node[id] \o ms \in Seq(Messages)
        /\ ToSet(to_node[id] \o ms) = ToSet(to_node[id]) \cup ToSet(ms)
        /\ \A a : \A x \in After(to_node[id] \o ms, a) :
             x \in After(to_node[id], a) \/ x \in After(ms, a)
               \/ (a \in ToSet(to_node[id]) /\ x \in ToSet(ms))
    BY <1>1, ConcatSets
  <2>2. /\ to_node' \in [Ids -> Seq(Messages)] /\ to_node'[id] = to_node[id] \o ms
        /\ \A j \in Ids \ {id} : to_node'[j] = to_node[j]
    BY <1>1, <1>3, <2>1
  <2>3. QED
    BY <1>3, <2>1, <2>2 DEF Grown
<1>4. QED
  BY <1>2, <1>3 DEF Sends

(* What is under way on a connection, once the thread has taken its step,  *)
(* asks for no answer and has no nonce of a later ping.                    *)
Clean(j) ==
  /\ \A m \in ToSet(to_node[j]) : m.cmd # "data" /\ (m.cmd = "ping" => m.arg <= ping_counter[j])
  /\ \A m \in ToSet(from_node'[j]) :
       m.cmd # "getblocktxn" /\ (m.cmd = "pong" => m.arg <= ping_counter[j])
  /\ \A m \in ToSet(due[j]) : m.cmd # "getblocktxn"

(* A step of the thread after which no answer to a ping is waited for.     *)
LEMMA QuietStep ==
  ASSUME PipeInv, PipeTypes', InCall', NEW id \in Ids, NEW ms \in Seq(Messages), Grown(id, ms),
         call' = Idle \/ call'.op = "version_handshake",
         \A j \in Ids : ToSet(from_node'[j]) \subseteq ToSet(from_node[j]),
         UNCHANGED <<closed, due, handled, force_send_and_ping>>,
         \A j \in Ids : /\ ping_counter[j] <= ping_counter'[j] /\ raw[j] \subseteq raw'[j]
                        /\ j # id => raw'[j] = raw[j],
         ToSet(connections) \subseteq ToSet(connections'), actions' = 0 => actions = 0,
         \/ /\ raw'[id] = raw[id] \/ (id \in ToSet(connections') /\ actions' # 0)
            /\ \A m \in ToSet(ms) : m.cmd # "data" /\ m.cmd # "ping"
         \/ /\ id \in ToSet(connections') /\ actions' # 0
            /\ ~ (force_send_and_ping /\ handshake_complete'[id])
            /\ \A m \in ToSet(ms) : m.cmd = "ping" => m.arg \in raw'[id],
         \A j \in Ids : force_send_and_ping /\ handshake_complete'[j] => Clean(j),
         last' # NoResult /\ last'.op = "send_and_recv" /\ last'.ok =>
           \A m \in ToSet(last'.ret) : m.cmd = "getblocktxn" => m.arg = actions'
  PROVE  PipeInv'
<1>1. PipeTypes /\ NodeKeepsUp /\ Untouched /\ NoncesKnown
  BY DEF PipeInv
<1>2. ping_counter \in [Ids -> Nat] /\ ping_counter' \in [Ids -> Nat]
  BY <1>1 DEF PipeTypes
<1>3. \A j \in Ids : to_node[j] \in Seq(Messages) /\ \A m \in ToSet(to_node'[j]) : m.arg \in Nat
  <2>1. \A j \in Ids : to_node'[j] \in Seq(Messages) /\ to_node[j] \in Seq(Messages)
    BY <1>1 DEF PipeTypes
  <2>2. QED
    BY <2>1, ToSetType, MsgType
<1>4. \A j \in Ids : \A m \in ToSet(from_node'[j]) : m.arg \in Nat
  <2>1. \A j \in Ids : from_node'[j] \in Seq(Messages)
    BY DEF PipeTypes
  <2>2. QED
    BY <2>1, ToSetType, MsgType
<1>5. NodeKeepsUp'
  <2>1. ASSUME NEW j \in Ids, j \in closed PROVE to_node'[j] = <<>> /\ handled # j
    BY <1>1, <2>1 DEF NodeKeepsUp, Grown
  <2>2. QED
    BY <1>1, <2>1 DEF NodeKeepsUp
<1>6. ASSUME NEW j \in Ids, NoData(j), j # id \/ \A m \in ToSet(ms) : m.cmd # "data"
      PROVE  NoData(j)'
  BY <1>6 DEF NoData, Grown
<1>7. Untouched'
  <2>1. SUFFICES ASSUME NEW j \in Ids, actions' = 0 \/ j \notin ToSet(connections')
                 PROVE  raw'[j] = {} /\ NoData(j)'
    BY DEF Untouched
  <2>2. raw[j] = {} /\ NoData(j)
    BY <1>1, <2>1 DEF Untouched
  <2>3. QED
    BY <1>6, <2>1, <2>2
<1>8. ASSUME NEW j \in Ids PROVE PingsAtMost(j, raw[j], ping_counter[j])'
  <2>1. PingsAtMost(j, raw[j], ping_counter[j])
    BY <1>1 DEF NoncesKnown
  <2>2. ASSUME NEW m \in ToSet(to_node'[j]), m.cmd = "ping"
        PROVE  m.arg <= ping_counter'[j] \/ m.arg \in raw'[j]
    <3>1. CASE m \in ToSet(to_node[j])
      <4>1. m.arg <= ping_counter[j] \/ m.arg \in raw[j]
        BY <2>1, <2>2, <3>1 DEF PingsAtMost
      <4>2. QED
        BY <1>2, <1>3, <4>1
    <3>2. CASE j = id /\ m \in ToSet(ms)
      BY <2>2, <3>2
    <3>3. QED
      BY <3>1, <3>2 DEF Grown
  <2>3. ASSUME NEW m \in ToSet(from_node'[j]), m.cmd = "pong"
        PROVE  m.arg <= ping_counter'[j] \/ m.arg \in raw'[j]
    <3>1. m.arg <= ping_counter[j] \/ m.arg \in raw[j]
      BY <2>1, <2>3 DEF PingsAtMost
    <3>2. QED
      BY <1>2, <1>4, <3>1
  <2>4. QED
    BY <2>2, <2>3 DEF PingsAtMost
<1>9. ASSUME NEW j \in Ids, force_send_and_ping, handshake_complete'[j]
      PROVE  NoData(j)' /\ PingsAtMost(j, {}, ping_counter[j])'
  <2>1. Clean(j) /\ (j # id \/ \A m \in ToSet(ms) : m.cmd # "data" /\ m.cmd # "ping")
    BY <1>9
  <2>2. NoData(j)'
    BY <2>1 DEF NoData, Grown, Clean
  <2>3. ASSUME NEW m \in ToSet(to_node'[j]), m.cmd = "ping" PROVE m.arg <= ping_counter'[j]
    <3>1. m \in ToSet(to_node[j])
      BY <2>1, <2>3 DEF Grown
    <3>2. m.arg <= ping_counter[j]
      BY <2>1, <2>3, <3>1 DEF Clean
    <3>3. QED
      BY <1>2, <1>3, <3>2
  <2>4. ASSUME NEW m \in ToSet(from_node'[j]), m.cmd = "pong" PROVE m.arg <= ping_counter'[j]
    <3>1. m.arg <= ping_counter[j]
      BY <2>1, <2>4 DEF Clean
    <3>2. QED
      BY <1>2, <1>4, <3>1
  <2>5. QED
    BY <2>2, <2>3, <2>4 DEF PingsAtMost
<1>10. NoncesKnown'
  BY <1>8 DEF NoncesKnown
<1>11. QuietBetweenCalls'
  BY <1>9 DEF QuietBetweenCalls
<1>12. PongWaitedFor' /\ AsksAboutItsMessage'
  BY DEF PongWaitedFor, AsksAboutItsMessage, AskedAbout, Returned
<1>13. QED
  BY <1>5, <1>7, <1>10, <1>11, <1>12 DEF PipeInv

(* A step of the thread that sends a ping and waits for its answer.        *)
LEMMA WaitStep ==
  ASSUME PipeInv, PipeTypes', InCall', NEW id \in Ids, NEW ms \in Seq(Messages), Grown(id, ms),
         call = Idle, last' = NoResult, call' # Idle, call'.id = id, call'.ret = <<>>,
         call'.op \in {"ping", "send_and_recv"}, handshake_complete[id],
         ping_counter' = [ping_counter EXCEPT ![id] = @ + 1],
         UNCHANGED <<handshake_complete, from_node, closed, due, handled>>,
         UNCHANGED <<connections, force_send_and_ping>>,
         \A j \in Ids : raw[j] \subseteq raw'[j] /\ (j # id => raw'[j] = raw[j]),
         actions' = 0 => actions = 0,
         \A x \in After(ms, Msg("ping", ping_counter'[id])) :
           x.cmd = "ping" /\ x.arg <= ping_counter'[id],
         \A x \in ToSet(ms) : x.cmd = "ping" => x.arg <= ping_counter'[id] \/ x.arg \in raw'[id],
         call'.op = "ping" =>
           /\ raw' = raw /\ actions' = actions
           /\ \A x \in ToSet(ms) : x.cmd = "ping" /\ x.arg <= ping_counter'[id],
         call'.op = "send_and_recv" =>
           \/ raw' = raw /\ actions' = 0 /\ \A x \in ToSet(ms) : x.cmd # "data"
           \/ /\ force_send_and_ping /\ actions' # 0 /\ id \in ToSet(connections)
              /\ \A x \in ToSet(ms) : x.cmd = "data" => x.arg = actions'
  PROVE  PipeInv'
<1> DEFINE n == ping_counter[id] + 1
<1>1. PipeTypes /\ NodeKeepsUp /\ Untouched /\ NoncesKnown /\ QuietBetweenCalls
  BY DEF PipeInv
<1>2. /\ ping_counter \in [Ids -> Nat] /\ ping_counter[id] \in Nat /\ n \in Nat
      /\ ping_counter'[id] = n /\ n > ping_counter[id]
      /\ \A j \in Ids \ {id} : ping_counter'[j] = ping_counter[j]
  BY <1>1 DEF PipeTypes
<1> HIDE DEF n
<1>3. \A j \in Ids : /\ \A m \in ToSet(to_node'[j]) : m.arg \in Nat
                     /\ \A m \in ToSet(to_node[j]) : m.arg \in Nat
                     /\ \A m \in ToSet(from_node[j]) : m.arg \in Nat
  <2>1. \A j \in Ids : /\ to_node'[j] \in Seq(Messages) /\ to_node[j] \in Seq(Messages)
                       /\ from_node[j] \in Seq(Messages)
    BY <1>1 DEF PipeTypes
  <2>2. QED
    BY <2>1, ToSetType, MsgType
<1>4. NodeKeepsUp'
  <2>1. ASSUME NEW j \in Ids, j \in closed PROVE to_node'[j] = <<>> /\ handled # j
    BY <1>1, <2>1 DEF NodeKeepsUp, Grown
  <2>2. QED
    BY <1>1, <2>1 DEF NodeKeepsUp
<1>5. Untouched'
  <2>1. SUFFICES ASSUME NEW j \in Ids, actions' = 0 \/ j \notin ToSet(connections)
                 PROVE  raw'[j] = {} /\ NoData(j)'
    BY DEF Untouched
  <2>2. raw[j] = {} /\ NoData(j)
    BY <1>1, <2>1 DEF Untouched
  <2>3. CASE j # id
    BY <2>2, <2>3 DEF NoData, Grown
  <2>4. CASE j = id /\ call'.op = "ping"
    <3>1. \A x \in ToSet(ms) : x.cmd # "data"
      BY <2>4
    <3>2. QED
      BY <2>2, <2>4, <3>1 DEF NoData, Grown
  <2>5. CASE j = id /\ call'.op = "send_and_recv"
    <3>1. raw' = raw /\ \A x \in ToSet(ms) : x.cmd # "data"
      BY <2>1, <2>5
    <3>2. QED
      BY <2>2, <2>5, <3>1 DEF NoData, Grown
  <2>6. QED
    BY <2>3, <2>4, <2>5
<1>6. ASSUME NEW j \in Ids PROVE PingsAtMost(j, raw[j], ping_counter[j])'
  <2>1. PingsAtMost(j, raw[j], ping_counter[j])
    BY <1>1 DEF NoncesKnown
  <2>2. ASSUME NEW m \in ToSet(to_node'[j]), m.cmd = "ping"
        PROVE  m.arg <= ping_counter'[j] \/ m.arg \in raw'[j]
    <3>1. CASE m \in ToSet(to_node[j])
      <4>1. m.arg <= ping_counter[j] \/ m.arg \in raw[j]
        BY <2>1, <2>2, <3>1 DEF PingsAtMost
      <4>2. QED
        BY <1>2, <1>3, <4>1
    <3>2. CASE j = id /\ m \in ToSet(ms)
      BY <2>2, <3>2
    <3>3. QED
      BY <3>1, <3>2 DEF Grown
  <2>3. ASSUME NEW m \in ToSet(from_node[j]), m.cmd = "pong"
        PROVE  m.arg <= ping_counter'[j] \/ m.arg \in raw'[j]
    <3>1. m.arg <= ping_counter[j] \/ m.arg \in raw[j]
      BY <2>1, <2>3 DEF PingsAtMost
    <3>2. QED
      BY <1>2, <1>3, <3>1
  <2>4. QED
    BY <2>2, <2>3 DEF PingsAtMost
<1>7. NoncesKnown'
  BY <1>6 DEF NoncesKnown
<1>8. QuietBetweenCalls'
  <2>1. SUFFICES ASSUME NEW j \in Ids, force_send_and_ping, handshake_complete[j],
                        ~ Waiting(j, "send_and_recv")'
                 PROVE  NoData(j)' /\ PingsAtMost(j, {}, ping_counter[j])'
    BY DEF QuietBetweenCalls
  <2>2. NoData(j) /\ PingsAtMost(j, {}, ping_counter[j])
    BY <1>1, <2>1 DEF QuietBetweenCalls, Waiting
  <2>3. CASE j # id
    BY <1>2, <2>2, <2>3 DEF NoData, PingsAtMost, Grown
  <2>4. CASE j = id
    <3>1. \A x \in ToSet(ms) : x.cmd = "ping" /\ x.arg <= ping_counter'[id]
      BY <2>1, <2>4 DEF Waiting
    <3>2. NoData(id)'
      BY <2>2, <2>4, <3>1 DEF NoData, Grown
    <3>3. ASSUME NEW m \in ToSet(to_node'[id]), m.cmd = "ping" PROVE m.arg <= ping_counter'[id]
      <4>1. CASE m \in ToSet(to_node[id])
        <5>1. m.arg <= ping_counter[id]
          BY <2>2, <2>4, <3>3, <4>1 DEF PingsAtMost
        <5>2. QED
          BY <1>2, <1>3, <4>1, <5>1
      <4>2. CASE m \in ToSet(ms)
        BY <3>1, <4>2
      <4>3. QED
        BY <4>1, <4>2 DEF Grown
    <3>4. ASSUME NEW m \in ToSet(from_node[id]), m.cmd = "pong" PROVE m.arg <= ping_counter'[id]
      <4>1. m.arg <= ping_counter[id]
        BY <2>2, <2>4, <3>4 DEF PingsAtMost
      <4>2. QED
        BY <1>2, <1>3, <4>1
    <3>5. QED
      BY <2>4, <3>2, <3>3, <3>4 DEF PingsAtMost
  <2>5. QED
    BY <2>3, <2>4
<1>9. PongWaitedFor'
  <2>1. SUFFICES ASSUME ~ Forged(id)' PROVE PongIsLast(id, ping_counter[id])'
    BY DEF PongWaitedFor
  <2>2. \A m \in Messages : (m.cmd = "ping" /\ m.arg = n => m \notin ToSet(to_node[id]))
                          /\ (m.cmd = "pong" /\ m.arg = n => m \notin ToSet(from_node[id]))
    <3>1. CASE force_send_and_ping
      <4>1. PingsAtMost(id, {}, ping_counter[id])
        BY <1>1, <3>1 DEF QuietBetweenCalls, Waiting
      <4>2. QED
        BY <1>2, <4>1 DEF PingsAtMost
    <3>2. CASE n \notin raw'[id]
      <4>1. PingsAtMost(id, raw[id], ping_counter[id]) /\ n \notin raw[id]
        BY <1>1, <3>2 DEF NoncesKnown
      <4>2. QED
        BY <1>2, <4>1 DEF PingsAtMost
    <3>3. QED
      BY <1>2, <2>1, <3>1, <3>2 DEF Forged
  <2>3. /\ Msg("ping", n) \in Messages /\ Msg("pong", n) \in Messages
        /\ Msg("ping", n) \notin ToSet(to_node[id]) /\ Msg("pong", n) \notin ToSet(from_node[id])
    BY <1>2, <2>2, MsgType DEF Commands
  <2>4. to_node[id] \in Seq(Messages) /\ from_node[id] \in Seq(Messages)
    BY <1>1 DEF PipeTypes
  <2>5. \A x : x \notin After(to_node[id], Msg("ping", n)) /\ x \notin After(from_node[id], Msg("pong", n))
    BY <2>3, <2>4, AfterSets
  <2>6. \A x \in After(to_node'[id], Msg("ping", n)) : x.cmd = "ping" /\ x.arg <= n
    BY <1>2, <2>3, <2>5 DEF Grown
  <2>7. QED
    BY <1>2, <2>3, <2>5, <2>6 DEF PongIsLast
<1>10. AsksAboutItsMessage'
  <2>1. SUFFICES ASSUME call'.op = "send_and_recv"
                 PROVE  /\ \A x \in ToSet(to_node'[id]) : x.cmd = "data" => x.arg = actions'
                        /\ \A x \in ToSet(from_node[id]) \cup ToSet(due[id]) \cup ToSet(<<>>) :
                             x.cmd # "getblocktxn"
    BY DEF AsksAboutItsMessage, AskedAbout, Returned
  <2>2. NoData(id)
    BY <1>1, <2>1 DEF Untouched, QuietBetweenCalls, Waiting
  <2>3. \A x \in ToSet(to_node'[id]) : x.cmd = "data" => x \in ToSet(ms)
    BY <2>2 DEF NoData, Grown
  <2>4. \A x \in ToSet(from_node[id]) \cup ToSet(due[id]) \cup ToSet(<<>>) : x.cmd # "getblocktxn"
    BY <2>2, EmptySets DEF NoData
  <2>5. \A x \in ToSet(ms) : x.cmd = "data" => x.arg = actions'
    BY <2>1
  <2>6. QED
    BY <2>3, <2>4, <2>5
<1>11. QED
  BY <1>4, <1>5, <1>7, <1>8, <1>9, <1>10 DEF PipeInv

(* A message is received that is not the one that is waited for.           *)
LEMMA PassedOver ==
  ASSUME PipeInv, PipeTypes', InCall', call # Idle, from_node[call.id] # <<>>,
         ~ Awaited(Head(from_node[call.id])),
         call' = [call EXCEPT !.ret = Recorded(Head(from_node[call.id]))],
         from_node' = [from_node EXCEPT ![call.id] = Tail(@)],
         UNCHANGED <<last, handshake_complete, to_node, connection_type, ping_counter>>,
         UNCHANGED <<closed, node, scenario>>
  PROVE  PipeInv'
<1> DEFINE id == call.id
           m == Head(from_node[id])
<1>1. PipeTypes /\ NodeKeepsUp /\ Untouched /\ NoncesKnown /\ QuietBetweenCalls
  BY DEF PipeInv
<1>2. /\ call \in CallRecord /\ id \in Ids /\ ping_counter[id] \in Nat
      /\ from_node[id] \in Seq(Messages) /\ call.ret \in Seq(Messages)
  BY <1>1 DEF PipeTypes, CallRecord
<1>3. /\ ToSet(from_node[id]) = {m} \cup ToSet(Tail(from_node[id]))
      /\ \A a : After(Tail(from_node[id]), a) \subseteq After(from_node[id], a)
      /\ m \in Messages
  BY <1>2, TailSets
<1>4. /\ from_node'[id] = Tail(from_node[id])
      /\ \A j \in Ids \ {id} : from_node'[j] = from_node[j]
  BY <1>1, <1>2 DEF PipeTypes
<1>5. /\ \A j \in Ids : ToSet(from_node'[j]) \subseteq ToSet(from_node[j])
      /\ \A j \in Ids : \A a : After(from_node'[j], a) \subseteq After(from_node[j], a)
  BY <1>3, <1>4
<1>6. /\ UNCHANGED <<due, handled, connections, force_send_and_ping, actions, raw>>
      /\ UNCHANGED <<handshake_complete, ping_counter, to_node, closed, last>>
  BY DEF node, scenario
<1>7. /\ call'.op = call.op /\ call'.id = id /\ call'.for = call.for
      /\ call'.ret = Recorded(m)
  BY <1>2 DEF CallRecord
<1>8. call' # Idle
  <2>1. call'.op # "none"
    BY <1>2, <1>7 DEF CallRecord
  <2>2. Idle.op = "none"
    BY DEF Idle
  <2>3. QED
    BY <2>1, <2>2
<1>9. ToSet(Recorded(m)) \subseteq ToSet(call.ret) \cup {m}
  <2> HIDE DEF id, m
  <2>1. <<m>> \in Seq(Messages) /\ ToSet(<<m>>) = {m}
    BY <1>3, SingleSets
  <2>2. Append(call.ret, m) = call.ret \o <<m>>
    BY <1>2, <1>3
  <2>3. ToSet(call.ret \o <<m>>) = ToSet(call.ret) \cup ToSet(<<m>>)
    BY <1>2, <2>1, ConcatSets
  <2>4. QED
    BY <2>1, <2>2, <2>3 DEF Recorded
<1> HIDE DEF id, m
<1>10. NodeKeepsUp'
  BY <1>1, <1>6 DEF NodeKeepsUp
<1>11. ASSUME NEW j \in Ids, NoData(j) PROVE NoData(j)'
  BY <1>5, <1>6, <1>11 DEF NoData
<1>12. Untouched'
  BY <1>1, <1>6, <1>11 DEF Untouched
<1>13. NoncesKnown'
  BY <1>1, <1>5, <1>6 DEF NoncesKnown, PingsAtMost
<1>14. QuietBetweenCalls'
  <2>1. ASSUME NEW j \in Ids, ~ Waiting(j, "send_and_recv")' PROVE ~ Waiting(j, "send_and_recv")
    BY <1>7, <1>8, <2>1 DEF Waiting, id
  <2>2. QED
    BY <1>1, <1>5, <1>6, <1>11, <2>1 DEF QuietBetweenCalls, PingsAtMost
<1>15. PongWaitedFor'
  <2>1. SUFFICES ASSUME call.op # "version_handshake", ~ Forged(id)
                 PROVE  PongIsLast(id, ping_counter[id])'
    BY <1>6, <1>7 DEF PongWaitedFor, Forged, id, PongIsLast
  <2>2. PongIsLast(id, ping_counter[id])
    BY <2>1 DEF PipeInv, PongWaitedFor, id
  <2>3. id' = id
    BY <1>7 DEF id
  <2>4. QED
    BY <1>2, <1>5, <1>6, <2>2, <2>3 DEF PongIsLast
<1>16. AsksAboutItsMessage'
  <2>1. AsksAboutItsMessage
    BY DEF PipeInv
  <2>2. ASSUME call.op = "send_and_recv"
        PROVE  /\ \A x \in ToSet(to_node[id]) : x.cmd = "data" => x.arg = actions
               /\ \A x \in ToSet(from_node'[id]) \cup ToSet(due[id]) \cup ToSet(Recorded(m)) :
                    x.cmd = "getblocktxn" => x.arg = actions
    <3>1. /\ \A y \in ToSet(to_node[id]) : y.cmd = "data" => y.arg = actions
          /\ \A y \in ToSet(from_node[id]) \cup ToSet(due[id]) \cup ToSet(call.ret) :
               y.cmd = "getblocktxn" => y.arg = actions
      BY <2>1, <2>2 DEF AsksAboutItsMessage, AskedAbout, id
    <3>2. ToSet(from_node'[id]) \cup ToSet(due[id]) \cup ToSet(Recorded(m))
            \subseteq ToSet(from_node[id]) \cup ToSet(due[id]) \cup ToSet(call.ret)
      BY <1>2, <1>3, <1>5, <1>9 DEF id
    <3>3. QED
      BY <3>1, <3>2
  <2>3. last = NoResult
    BY DEF PipeInv, InCall
  <2>4. QED
    BY <1>6, <1>7, <2>2, <2>3 DEF AsksAboutItsMessage, AskedAbout, Returned
<1>17. QED
  BY <1>10, <1>12, <1>13, <1>14, <1>15, <1>16 DEF PipeInv

-----------------------------------------------------------------------------
(* The connections of the scenario are sockets.                            *)
LEMMA ConnectionIds ==
  ASSUME ScenarioTypes
  PROVE  /\ Len(connections) \in Nat /\ DOMAIN connections = 1..Len(connections)
         /\ \A i \in DOMAIN connections : connections[i] \in Ids
         /\ ToSet(connections) \subseteq Ids
         /\ \A i \in DOMAIN connections : connections[i] \in ToSet(connections)
BY DEF ScenarioTypes, ToSet

(* Where the scenario is, the call it does there is on one of its sockets. *)
LEMMA DoingIds ==
  ASSUME ScenarioTypes, Where, NEW op, NEW id, Doing(op, id)
  PROVE  id \in Ids
<1>1. /\ Len(connections) \in Nat /\ DOMAIN connections = 1..Len(connections)
      /\ \A i \in DOMAIN connections : connections[i] \in Ids
      /\ ToSet(connections) \subseteq Ids
  BY ConnectionIds
<1>2. CASE phase \in {"handshaking", "greeting", "pinging", "announcing", "final"} /\ id = Current
           /\ pos <= Len(connections)
  BY <1>1, <1>2 DEF ScenarioTypes, Current
<1>3. CASE phase = "mining" /\ id = connections[1]
  BY <1>1, <1>3 DEF Where
<1>4. CASE phase = "joining" /\ id = opened
  BY <1>4 DEF Where, ScenarioTypes, Ids
<1>5. CASE id \in ToSet(connections)
  BY <1>1, <1>5
<1>6. QED
  BY <1>2, <1>3, <1>4, <1>5 DEF Doing, Where

(* The handler of the node and the loss of a peer keep the invariant.      *)
LEMMA NodeKeepsInv ==
  ASSUME SInv, NEW id \in Ids, Handles(id) \/ Drops(id)
  PROVE  SInv'
<1>1. PipeInv /\ PipeTypes /\ ScenarioTypes
  BY DEF SInv, PipeInv
<1>2. UNCHANGED scenario
  BY DEF Handles, Drops
<1>3. /\ PipeInv'
      /\ UNCHANGED <<fields, calls>>
      /\ \A j \in Ids : ToSet(to_node'[j]) \subseteq ToSet(to_node[j])
      /\ closed \subseteq closed' /\ \A j \in closed' : j \in closed \/ (j = id /\ peer[j] # "none")
      /\ \A j \in Ids : peer[j] = "none" => peer'[j] = "none"
  <2>1. CASE ProcessMessages(id)
    <3>1. PICK m \in Messages, new \in SUBSET Messages : Processed(id, m, new)
      BY <1>1, <2>1, ProcessEffect
    <3>2. /\ UNCHANGED <<fields, calls, closed>>
          /\ \A j \in Ids : peer[j] = "none" => peer'[j] = "none"
      BY <1>1, <2>1, ProcessEffect
    <3>3. PipeInv'
      BY <1>1, <1>2, <2>1, ProcessKeepsPipes
    <3>4. \A j \in Ids : ToSet(to_node'[j]) \subseteq ToSet(to_node[j])
      BY <3>1 DEF Processed
    <3>5. QED
      BY <3>2, <3>3, <3>4
  <2>2. CASE SendMessages(id) \/ Disconnect(id)
    <3>1. Flushed(id)
      BY <1>1, <2>2, SendEffect, DropEffect
    <3>2. PipeInv'
      BY <1>1, <1>2, <3>1, FlushKeepsPipes
    <3>3. QED
      BY <3>1, <3>2 DEF Flushed
  <2>3. QED
    BY <2>1, <2>2 DEF Handles, Drops
<1>4. /\ UNCHANGED <<connections, opened, phase, pos, force_send_and_ping>>
      /\ UNCHANGED <<recording_received_messages, probe_results, actions, raw>>
      /\ UNCHANGED <<connection_type, handshake_complete, ping_counter, call, last>>
  BY <1>2, <1>3 DEF scenario, fields, calls
<1>5. ScenarioTypes'
  BY <1>1, <1>4 DEF ScenarioTypes
<1>6. Opened'
  <2>1. Opened
    BY DEF SInv
  <2>2. peer[id] # "none" => id \in 1..opened
    BY <1>1, <2>1, ConnectionsAssumption DEF Opened, ScenarioTypes, Ids
  <2>3. closed' \subseteq 1..opened
    BY <1>3, <2>1, <2>2 DEF Opened
  <2>4. QED
    BY <1>3, <1>4, <2>1, <2>3 DEF Opened
<1>7. Where' /\ HandshakesDone'
  BY <1>4 DEF SInv, Where, HandshakesDone
<1>8. ASSUME NEW j \in Ids
      PROVE  /\ Unprocessed(j) = {} => Unprocessed(j)' = {}
             /\ Synced(j) => Synced(j)' /\ (Settled(j) => Settled(j)')
  <2>1. Unprocessed(j)' \subseteq Unprocessed(j)
    BY <1>3 DEF Unprocessed
  <2>2. QED
    BY <1>4, <2>1 DEF Synced, Settled, Forged
<1>9. Returning'
  <2>1. Returning /\ Where
    BY DEF SInv
  <2>2. Returned => last.id \in Ids
    BY <1>1, <2>1, DoingIds DEF Returning
  <2>3. Returned' = Returned
    BY <1>4 DEF Returned
  <2>4. Returned => (Synced(last.id) => Synced(last.id)')
    BY <1>4, <1>8, <2>2 DEF Synced, Unprocessed
  <2>5. QED
    BY <1>3, <1>4, <2>1, <2>3, <2>4 DEF Returning, Doing, Current
<1>10. Announced' /\ Pinged'
  <2>1. Announced /\ Pinged /\ Where /\ Returning
    BY DEF SInv
  <2>2. \A i \in DOMAIN connections : connections[i] \in Ids
    BY <1>1, ConnectionIds
  <2>3. Announced'
    <3>1. SUFFICES ASSUME NEW i \in DOMAIN connections,
                          (phase = "announcing" /\ i < pos) \/ (phase = "acting" /\ actions = 0)
                   PROVE  Unprocessed(connections[i])' = {}
      BY <1>4 DEF Announced
    <3>2. Unprocessed(connections[i]) = {}
      BY <2>1, <3>1 DEF Announced
    <3>3. QED
      BY <1>4, <1>8, <2>2, <3>2 DEF Unprocessed
  <2>4. ASSUME NEW i \in DOMAIN connections, Settled(connections[i])
        PROVE  Settled(connections[i])'
    BY <1>4, <1>8, <2>2, <2>4 DEF Settled, Synced, Unprocessed, Forged
  <2>5. phase = "final" /\ Returned => pos \in DOMAIN connections
    BY <1>1, <2>1, ConnectionIds DEF Returning, Doing, ScenarioTypes
  <2>6. (phase = "final" /\ Returned => Settled(Current))'
    BY <1>4, <2>1, <2>4, <2>5 DEF Pinged, Current, Returned, Settled, Synced, Unprocessed, Forged
  <2>7. ASSUME NEW i \in DOMAIN connections, (phase = "final" /\ i < pos) \/ phase = "done"
        PROVE  Settled(connections[i])'
    BY <2>1, <2>4, <2>7 DEF Pinged
  <2>8. QED
    BY <1>4, <2>3, <2>6, <2>7 DEF Pinged
<1>11. QED
  BY <1>3, <1>5, <1>6, <1>7, <1>9, <1>10 DEF SInv

-----------------------------------------------------------------------------
(* A call that waits, and one that returns, are of their types.            *)
LEMMA WaitsType ==
  ASSUME NEW op \in {"version_handshake", "ping", "send_and_recv"}, NEW id \in Ids,
         NEW for \in Messages, NEW recording \in BOOLEAN, Waits(op, id, for, recording)
  PROVE  /\ call' \in CallRecord /\ call' # Idle /\ last' = NoResult
         /\ call'.op = op /\ call'.id = id /\ call'.for = for /\ call'.ret = <<>>
<1>1. call' = [op |-> op, id |-> id, for |-> for, recording |-> recording, ret |-> <<>>]
      /\ last' = NoResult
  BY DEF Waits
<1>2. <<>> \in Seq(Messages)
  OBVIOUS
<1>3. call' \in CallRecord
  BY <1>1, <1>2 DEF CallRecord
<1>4. call'.op = op /\ call'.id = id /\ call'.for = for /\ call'.ret = <<>>
  BY <1>1
<1>5. Idle.op = "none"
  BY DEF Idle
<1>6. QED
  BY <1>1, <1>3, <1>4, <1>5

(* A result is of its type.                                                *)
LEMMA ReturnsType ==
  ASSUME NEW op \in {"version_handshake", "send", "ping", "send_and_recv"}, NEW id \in Ids,
         NEW ok \in BOOLEAN, NEW ret \in Seq(Messages), Returns(op, id, ok, ret)
  PROVE  /\ last' \in Result /\ last' # NoResult /\ call' = Idle
         /\ last'.op = op /\ last'.id = id /\ last'.ok = ok /\ last'.ret = ret
<1>1. last' = [op |-> op, id |-> id, ok |-> ok, ret |-> ret] /\ call' = Idle
  BY DEF Returns
<1>2. last' \in Result
  BY <1>1 DEF Result
<1>3. last'.op = op /\ last'.id = id /\ last'.ok = ok /\ last'.ret = ret
  BY <1>1
<1>4. NoResult.op = "none"
  BY DEF NoResult
<1>5. QED
  BY <1>1, <1>2, <1>3, <1>4

(* Between two calls every connection is clean.                            *)
LEMMA CleanWhenIdle ==
  ASSUME PipeInv, call = Idle, UNCHANGED from_node, NEW j \in Ids,
         force_send_and_ping, handshake_complete[j]
  PROVE  Clean(j)
BY DEF PipeInv, QuietBetweenCalls, Waiting, NoData, PingsAtMost, Clean

(* What a call leaves behind, apart from its own socket.                   *)
Kept(id) ==
  /\ PipeInv' /\ Returning'
  /\ UNCHANGED <<connection_type, handshake_complete, closed, node>>
  /\ \A j \in Ids \ {id} : to_node'[j] = to_node[j] /\ ping_counter'[j] = ping_counter[j]

(* version_handshake as far as its first wait.                             *)
LEMMA HandshakeCall ==
  ASSUME PipeInv, NEW id \in Ids, version_handshake(id), UNCHANGED scenario,
         Doing("version_handshake", id)
  PROVE  Kept(id)
<1>1. PipeTypes /\ call = Idle
  BY DEF PipeInv, version_handshake
<1>2. /\ UNCHANGED <<connections, opened, phase, pos, force_send_and_ping, actions, raw>>
      /\ UNCHANGED <<connection_type, handshake_complete, ping_counter, from_node, closed>>
      /\ UNCHANGED <<peer, due, handled>>
  BY DEF version_handshake, fields, node, scenario
<1>3. /\ Msg("version", 0) \in Messages /\ Msg("verack", 0) \in Messages
      /\ Msg("version", 0).cmd = "version" /\ Msg("verack", 0).cmd = "verack"
  BY MsgType DEF Commands
<1>4. /\ Handshake \in Seq(Messages)
      /\ \A x \in ToSet(Handshake) : x.cmd # "data" /\ x.cmd # "ping"
  <2>1. Handshake \in Seq(Messages) /\ ToSet(Handshake) = {Msg("version", 0), Msg("verack", 0)}
    BY <1>3, PairSets DEF Handshake
  <2>2. QED
    BY <1>3, <2>1
<1>5. Grown(id, Handshake) /\ to_node' \in [Ids -> Seq(Messages)]
  <2>1. Sends(id, Handshake) \/ UNCHANGED to_node
    BY DEF version_handshake
  <2>2. QED
    BY <1>1, <1>4, <2>1, SendsEffect
<1>6. <<>> \in Seq(Messages)
  OBVIOUS
<1>7. \/ /\ call' \in CallRecord /\ call' # Idle /\ last' = NoResult
         /\ call'.op = "version_handshake" /\ call'.id = id /\ call'.ret = <<>>
         /\ call'.for \in {Msg("version", 0), Msg("verack", 0)}
      \/ /\ last' \in Result /\ last' # NoResult /\ call' = Idle
         /\ last'.op = "version_handshake" /\ last'.id = id /\ ~ last'.ok /\ id \in closed
  <2>1. \/ Waits("version_handshake", id, Msg("version", 0), FALSE)
        \/ Waits("version_handshake", id, Msg("verack", 0), FALSE)
        \/ Returns("version_handshake", id, FALSE, <<>>) /\ CanFail(id)
    BY DEF version_handshake
  <2>2. CASE Waits("version_handshake", id, Msg("version", 0), FALSE)
    BY <1>3, <2>2, WaitsType
  <2>3. CASE Waits("version_handshake", id, Msg("verack", 0), FALSE)
    BY <1>3, <2>3, WaitsType
  <2>4. CASE Returns("version_handshake", id, FALSE, <<>>) /\ CanFail(id)
    BY <1>6, <2>4, ReturnsType DEF CanFail
  <2>5. QED
    BY <2>1, <2>2, <2>3, <2>4
<1>8. PipeTypes'
  BY <1>1, <1>2, <1>5, <1>7 DEF PipeTypes
<1>9. Doing("version_handshake", id)'
  BY <1>2 DEF Doing, Current
<1>10. InCall' /\ Returning'
  <2>1. \A m \in ToSet(<<>>) : m.cmd # "pong"
    BY EmptySets
  <2>2. QED
    BY <1>2, <1>7, <1>9, <2>1 DEF InCall, Returning, Returned
<1>11. \A j \in Ids : force_send_and_ping /\ handshake_complete'[j] => Clean(j)
  BY <1>1, <1>2, CleanWhenIdle
<1>12. \A j \in Ids : ping_counter[j] <= ping_counter'[j]
  BY <1>1, <1>2 DEF PipeTypes
<1>13. PipeInv'
  BY <1>2, <1>4, <1>5, <1>7, <1>8, <1>10, <1>11, <1>12, QuietStep
<1>14. QED
  BY <1>2, <1>5, <1>10, <1>13 DEF Kept, Grown, node

(* On a socket that the node has closed everything is settled.             *)
LEMMA ClosedIsSettled ==
  ASSUME NodeKeepsUp, NEW id \in Ids, id \in closed
  PROVE  Unprocessed(id) = {} /\ Synced(id) /\ Settled(id)
<1>1. to_node[id] = <<>>
  BY DEF NodeKeepsUp
<1>2. Unprocessed(id) = {}
  BY <1>1, EmptySets DEF Unprocessed
<1>3. QED
  BY <1>2 DEF Synced, Settled

(* send never waits.                                                       *)
LEMMA SendCall ==
  ASSUME PipeInv, NEW id \in Ids, NEW m \in Messages, send(id, m), Doing("send", id)',
         UNCHANGED <<connections, force_send_and_ping>>, actions' = 0 => actions = 0,
         \A j \in Ids : raw[j] \subseteq raw'[j] /\ (j # id => raw'[j] = raw[j]),
         \/ raw'[id] = raw[id] /\ m.cmd # "data" /\ m.cmd # "ping"
         \/ /\ id \in ToSet(connections) /\ actions' # 0 /\ ~ force_send_and_ping
            /\ m.cmd = "ping" => m.arg \in raw'[id]
  PROVE  Kept(id)
<1>1. PipeTypes /\ call = Idle
  BY DEF PipeInv, send
<1>2. /\ UNCHANGED <<connection_type, handshake_complete, ping_counter, from_node, closed>>
      /\ UNCHANGED <<peer, due, handled>>
  BY DEF send, fields, node
<1>3. <<m>> \in Seq(Messages) /\ ToSet(<<m>>) = {m}
  BY SingleSets
<1>4. Grown(id, <<m>>) /\ to_node' \in [Ids -> Seq(Messages)]
  <2>1. Sends(id, <<m>>) \/ UNCHANGED to_node
    BY DEF send
  <2>2. QED
    BY <1>1, <1>3, <2>1, SendsEffect
<1>5. <<>> \in Seq(Messages)
  OBVIOUS
<1>6. /\ last' \in Result /\ last' # NoResult /\ call' = Idle
      /\ last'.op = "send" /\ last'.id = id /\ (~ last'.ok => id \in closed)
  <2>1. \/ Returns("send", id, TRUE, <<>>)
        \/ Returns("send", id, FALSE, <<>>) /\ CanFail(id)
    BY DEF send
  <2>2. QED
    BY <1>5, <2>1, ReturnsType DEF CanFail
<1>7. PipeTypes'
  BY <1>1, <1>2, <1>4, <1>6 DEF PipeTypes
<1>8. InCall' /\ Returning'
  BY <1>2, <1>6 DEF InCall, Returning, Returned
<1>9. \A j \in Ids : force_send_and_ping /\ handshake_complete'[j] => Clean(j)
  BY <1>1, <1>2, CleanWhenIdle
<1>10. \A j \in Ids : ping_counter[j] <= ping_counter'[j]
  BY <1>1, <1>2 DEF PipeTypes
<1>11. PipeInv'
  BY <1>2, <1>3, <1>4, <1>6, <1>7, <1>8, <1>9, <1>10, QuietStep
<1>12. QED
  BY <1>2, <1>4, <1>8, <1>11 DEF Kept, Grown, node

(* ping waits only on a connection whose handshake is complete.            *)
LEMMA PingCall ==
  ASSUME PipeInv, NEW id \in Ids, ping(id), UNCHANGED scenario, Doing("ping", id)
  PROVE  /\ Kept(id)
         /\ last' # NoResult => last'.id = id /\ (~ last'.ok \/ ~ handshake_complete[id])
<1> DEFINE n == ping_counter'[id]
<1>1. PipeTypes /\ call = Idle
  BY DEF PipeInv, ping
<1>2. /\ UNCHANGED <<connections, opened, phase, pos, force_send_and_ping, actions, raw>>
      /\ UNCHANGED <<connection_type, handshake_complete, from_node, closed>>
      /\ UNCHANGED <<peer, due, handled>>
  BY DEF ping, node, scenario
<1>3. /\ ping_counter \in [Ids -> Nat] /\ ping_counter' \in [Ids -> Nat] /\ n \in Nat
      /\ \A j \in Ids : ping_counter[j] <= ping_counter'[j]
      /\ \A j \in Ids \ {id} : ping_counter'[j] = ping_counter[j]
  <2>1. ping_counter' = ping_counter \/ ping_counter' = [ping_counter EXCEPT ![id] = @ + 1]
    BY DEF ping
  <2>2. ping_counter \in [Ids -> Nat]
    BY <1>1 DEF PipeTypes
  <2>3. QED
    BY <2>1, <2>2
<1> HIDE DEF n
<1>4. /\ Msg("ping", n) \in Messages /\ Msg("ping", n).cmd = "ping" /\ Msg("ping", n).arg = n
      /\ Msg("pong", n) \in Messages
  BY <1>3, MsgType DEF Commands
<1>5. /\ <<>> \in Seq(Messages) /\ ToSet(<<>>) = {}
      /\ << Msg("ping", n) >> \in Seq(Messages)
      /\ ToSet(<< Msg("ping", n) >>) = { Msg("ping", n) }
      /\ \A a : After(<< Msg("ping", n) >>, a) = {}
  BY <1>4, EmptySets, SingleSets
<1>6. Doing("ping", id)'
  BY <1>2 DEF Doing, Current
<1>7. \A j \in Ids : force_send_and_ping /\ handshake_complete'[j] => Clean(j)
  BY <1>1, <1>2, CleanWhenIdle
<1>8. CASE /\ handshake_complete[id] /\ ping_counter' = [ping_counter EXCEPT ![id] = @ + 1]
           /\ Sends(id, << Msg("ping", n) >>) /\ Waits("ping", id, Msg("pong", n), FALSE)
  <2>1. Grown(id, << Msg("ping", n) >>) /\ to_node' \in [Ids -> Seq(Messages)]
    BY <1>1, <1>5, <1>8, SendsEffect
  <2>2. /\ call' \in CallRecord /\ call' # Idle /\ last' = NoResult
        /\ call'.op = "ping" /\ call'.id = id /\ call'.for = Msg("pong", n) /\ call'.ret = <<>>
    BY <1>4, <1>8, WaitsType
  <2>3. PipeTypes'
    BY <1>1, <1>2, <1>3, <2>1, <2>2 DEF PipeTypes
  <2>4. InCall' /\ Returning'
    BY <1>2, <1>5, <1>6, <1>8, <2>2 DEF InCall, Returning, Returned, n
  <2>5. /\ \A x \in ToSet(<< Msg("ping", n) >>) : x.cmd = "ping" /\ x.arg <= n
        /\ \A a : \A x \in After(<< Msg("ping", n) >>, a) : x.cmd = "ping" /\ x.arg <= n
    BY <1>3, <1>4, <1>5
  <2>6. /\ << Msg("ping", n) >> \in Seq(Messages)
        /\ \A j \in Ids : raw[j] \subseteq raw'[j] /\ (j # id => raw'[j] = raw[j])
    BY <1>2, <1>5
  <2>7. PipeInv'
    BY <1>1, <1>2, <1>8, <2>1, <2>2, <2>3, <2>4, <2>5, <2>6, WaitStep DEF n
  <2>8. QED
    BY <1>2, <1>3, <2>1, <2>2, <2>4, <2>7 DEF Kept, Grown, node
<1>9. CASE /\ UNCHANGED to_node
           /\ \/ ~ handshake_complete[id] /\ Returns("ping", id, TRUE, <<>>)
              \/ CanFail(id) /\ Returns("ping", id, FALSE, <<>>)
  <2>1. Grown(id, <<>>) /\ to_node' \in [Ids -> Seq(Messages)]
    BY <1>1, <1>5, <1>9, SendsEffect
  <2>2. /\ last' \in Result /\ last' # NoResult /\ call' = Idle
        /\ last'.op = "ping" /\ last'.id = id /\ (~ last'.ok => id \in closed)
        /\ last'.ok => ~ handshake_complete[id]
    <3>1. CASE ~ handshake_complete[id] /\ Returns("ping", id, TRUE, <<>>)
      BY <1>5, <3>1, ReturnsType
    <3>2. CASE CanFail(id) /\ Returns("ping", id, FALSE, <<>>)
      BY <1>5, <3>2, ReturnsType DEF CanFail
    <3>3. QED
      BY <1>9, <3>1, <3>2
  <2>3. PipeTypes'
    BY <1>1, <1>2, <1>3, <2>1, <2>2 DEF PipeTypes
  <2>4. InCall' /\ Returning'
    BY <1>2, <1>6, <2>2 DEF InCall, Returning, Returned
  <2>5. PipeInv'
    BY <1>2, <1>3, <1>5, <1>7, <2>1, <2>2, <2>3, <2>4, QuietStep
  <2>6. QED
    BY <1>2, <1>3, <2>1, <2>2, <2>4, <2>5 DEF Kept, Grown, node
<1>10. QED
  BY <1>8, <1>9 DEF ping, n

(* send_and_recv waits for the second of its pings.                        *)
LEMMA RoundtripCall ==
  ASSUME PipeInv, NEW id \in Ids, NEW m \in Messages, NEW recording \in BOOLEAN,
         send_and_recv(id, m, recording), Doing("send_and_recv", id)',
         UNCHANGED <<connections, force_send_and_ping>>, actions' = 0 => actions = 0,
         \A j \in Ids : raw[j] \subseteq raw'[j] /\ (j # id => raw'[j] = raw[j]),
         \/ raw' = raw /\ actions' = 0 /\ m.cmd # "data" /\ m.cmd # "ping"
         \/ /\ id \in ToSet(connections) /\ actions' # 0 /\ force_send_and_ping
            /\ m.cmd = "data" => m.arg = actions'
            /\ m.cmd = "ping" => m.arg \in raw'[id]
  PROVE  Kept(id)
<1> DEFINE n == ping_counter'[id]
           ms == << m, Msg("ping", 0), Msg("ping", n) >>
<1>1. PipeTypes /\ call = Idle
  BY DEF PipeInv, send_and_recv
<1>2. /\ UNCHANGED <<connection_type, handshake_complete, from_node, closed>>
      /\ UNCHANGED <<peer, due, handled>>
  BY DEF send_and_recv, node
<1>3. /\ ping_counter \in [Ids -> Nat] /\ ping_counter' \in [Ids -> Nat] /\ n \in Nat
      /\ \A j \in Ids : ping_counter[j] <= ping_counter'[j]
      /\ \A j \in Ids \ {id} : ping_counter'[j] = ping_counter[j]
  <2>1. ping_counter' = ping_counter \/ ping_counter' = [ping_counter EXCEPT ![id] = @ + 1]
    BY DEF send_and_recv
  <2>2. ping_counter \in [Ids -> Nat]
    BY <1>1 DEF PipeTypes
  <2>3. QED
    BY <2>1, <2>2
<1> HIDE DEF n
<1>4. /\ Msg("ping", n) \in Messages /\ Msg("ping", n).cmd = "ping" /\ Msg("ping", n).arg = n
      /\ Msg("ping", 0) \in Messages /\ Msg("ping", 0).cmd = "ping" /\ Msg("ping", 0).arg = 0
      /\ Msg("pong", n) \in Messages
  BY <1>3, MsgType DEF Commands
<1>5. /\ <<>> \in Seq(Messages) /\ ToSet(<<>>) = {}
      /\ <<m>> \in Seq(Messages) /\ ToSet(<<m>>) = {m}
  BY EmptySets, SingleSets
<1>6. /\ ms \in Seq(Messages) /\ ToSet(ms) = {m, Msg("ping", 0), Msg("ping", n)}
      /\ \A a : \A x \in After(ms, a) : x.cmd = "ping" /\ x.arg <= n
  <2>1. /\ ms \in Seq(Messages) /\ ToSet(ms) = {m, Msg("ping", 0), Msg("ping", n)}
        /\ \A a : \A b \in After(ms, a) : b \in {Msg("ping", 0), Msg("ping", n)}
    BY <1>4, TripleSets
  <2>2. QED
    BY <1>3, <1>4, <2>1
<1> HIDE DEF ms
<1>7. \A j \in Ids : force_send_and_ping /\ handshake_complete'[j] => Clean(j)
  BY <1>1, <1>2, CleanWhenIdle
<1>8. CASE /\ handshake_complete[id] /\ ping_counter' = [ping_counter EXCEPT ![id] = @ + 1]
           /\ Sends(id, ms) /\ Waits("send_and_recv", id, Msg("pong", n), recording)
  <2>1. Grown(id, ms) /\ to_node' \in [Ids -> Seq(Messages)]
    BY <1>1, <1>6, <1>8, SendsEffect
  <2>2. /\ call' \in CallRecord /\ call' # Idle /\ last' = NoResult
        /\ call'.op = "send_and_recv" /\ call'.id = id /\ call'.for = Msg("pong", n)
        /\ call'.ret = <<>>
    BY <1>4, <1>8, WaitsType
  <2>3. PipeTypes'
    BY <1>1, <1>2, <1>3, <2>1, <2>2 DEF PipeTypes
  <2>4. InCall' /\ Returning'
    BY <1>2, <1>5, <1>8, <2>2 DEF InCall, Returning, Returned, n
  <2>5. /\ \A x \in ToSet(ms) : x.cmd = "ping" => x.arg <= n \/ x.arg \in raw'[id]
        /\ \/ raw' = raw /\ actions' = 0 /\ \A x \in ToSet(ms) : x.cmd # "data"
           \/ /\ force_send_and_ping /\ actions' # 0 /\ id \in ToSet(connections)
              /\ \A x \in ToSet(ms) : x.cmd = "data" => x.arg = actions'
    BY <1>3, <1>4, <1>6
  <2>6. PipeInv'
    BY <1>1, <1>2, <1>6, <1>8, <2>1, <2>2, <2>3, <2>4, <2>5, WaitStep DEF n
  <2>7. QED
    BY <1>2, <1>3, <2>1, <2>2, <2>4, <2>6 DEF Kept, Grown, node
<1>9. CASE ~ handshake_complete[id] /\ Sends(id, <<m>>) /\ Returns("send_and_recv", id, TRUE, <<>>)
  <2>1. Grown(id, <<m>>) /\ to_node' \in [Ids -> Seq(Messages)]
    BY <1>1, <1>5, <1>9, SendsEffect
  <2>2. /\ last' \in Result /\ last' # NoResult /\ call' = Idle
        /\ last'.op = "send_and_recv" /\ last'.id = id /\ last'.ok /\ last'.ret = <<>>
    BY <1>5, <1>9, ReturnsType
  <2>3. PipeTypes'
    BY <1>1, <1>2, <1>3, <2>1, <2>2 DEF PipeTypes
  <2>4. InCall' /\ Returning'
    BY <1>2, <1>9, <2>2 DEF InCall, Returning, Returned, Synced
  <2>5. PipeInv'
    BY <1>2, <1>3, <1>5, <1>7, <1>9, <2>1, <2>2, <2>3, <2>4, QuietStep
  <2>6. QED
    BY <1>2, <1>3, <2>1, <2>2, <2>4, <2>5 DEF Kept, Grown, node
<1>10. CASE CanFail(id) /\ Returns("send_and_recv", id, FALSE, <<>>) /\ UNCHANGED to_node
  <2>1. Grown(id, <<>>) /\ to_node' \in [Ids -> Seq(Messages)]
    BY <1>1, <1>5, <1>10, SendsEffect
  <2>2. /\ last' \in Result /\ last' # NoResult /\ call' = Idle
        /\ last'.op = "send_and_recv" /\ last'.id = id /\ ~ last'.ok /\ id \in closed
    BY <1>5, <1>10, ReturnsType DEF CanFail
  <2>3. PipeTypes'
    BY <1>1, <1>2, <1>3, <2>1, <2>2 DEF PipeTypes
  <2>4. InCall' /\ Returning'
    BY <1>2, <2>2 DEF InCall, Returning, Returned
  <2>5. PipeInv'
    BY <1>2, <1>3, <1>5, <1>7, <2>1, <2>2, <2>3, <2>4, QuietStep
  <2>6. QED
    BY <1>2, <1>3, <2>1, <2>2, <2>4, <2>5 DEF Kept, Grown, node
<1>11. QED
  BY <1>8, <1>9, <1>10 DEF send_and_recv, n, ms, Nonce

-----------------------------------------------------------------------------
(* What the receiving turns of a call leave as it is.                      *)
GoesOn ==
  /\ PipeInv' /\ Returning'
  /\ UNCHANGED <<connection_type, ping_counter, closed, node>>
  /\ \A j \in Ids : handshake_complete[j] => handshake_complete'[j]
  /\ phase \notin {"handshaking", "joining"} => UNCHANGED <<to_node, handshake_complete>>
  /\ phase = "final" /\ last' # NoResult => \A j \in Ids : j = Current => Settled(j)'

(* A call and the message that it waits for.                               *)
LEMMA CallTypes ==
  ASSUME SInv, call # Idle
  PROVE  /\ call \in CallRecord /\ call.id \in Ids /\ Doing(call.op, call.id)
         /\ call.for \in Messages /\ call.ret \in Seq(Messages) /\ last = NoResult
         /\ call.op = "version_handshake" =>
              call.for \in { Msg("version", 0), Msg("verack", 0) } /\ phase \in {"handshaking", "joining"}
         /\ call.op # "version_handshake" =>
              /\ call.op \in {"ping", "send_and_recv"} /\ phase \notin {"handshaking", "joining"}
              /\ handshake_complete[call.id] /\ call.for = Msg("pong", ping_counter[call.id])
         /\ phase = "final" => call.op = "ping" /\ call.id = Current
<1>1. PipeTypes /\ InCall
  BY DEF SInv, PipeInv
<1>2. /\ call \in CallRecord /\ call.id \in Ids /\ call.for \in Messages
      /\ call.ret \in Seq(Messages) /\ call.op \in {"version_handshake", "ping", "send_and_recv"}
  BY <1>1 DEF PipeTypes, CallRecord
<1>3. Doing(call.op, call.id)
  BY <1>1 DEF InCall
<1>4. call.op = "version_handshake" => phase \in {"handshaking", "joining"}
  BY <1>3 DEF Doing
<1>5. call.op # "version_handshake" => phase \notin {"handshaking", "joining"}
  BY <1>3 DEF Doing
<1>6. phase = "final" => call.op = "ping" /\ call.id = Current
  BY <1>3 DEF Doing
<1>7. QED
  BY <1>1, <1>2, <1>3, <1>4, <1>5, <1>6 DEF InCall

(* A wait fails when the node has closed the socket and nothing is left.   *)
LEMMA WaitFails ==
  ASSUME SInv, ReceiveFails, UNCHANGED scenario
  PROVE  GoesOn
<1>1. PipeInv /\ PipeTypes /\ NodeKeepsUp /\ QuietBetweenCalls /\ call # Idle
  BY DEF SInv, PipeInv, ReceiveFails
<1>2. PICK id \in Ids : id = call.id
  BY <1>1, CallTypes
<1>3. /\ UNCHANGED <<connections, opened, phase, pos, force_send_and_ping, actions, raw>>
      /\ UNCHANGED <<connection_type, handshake_complete, ping_counter, from_node, closed>>
      /\ UNCHANGED <<peer, due, handled, to_node>>
  BY DEF ReceiveFails, node, fields, sockets, scenario
<1>4. from_node[id] = <<>> /\ id \in closed /\ to_node[id] = <<>> /\ handled # id
  BY <1>1, <1>2 DEF ReceiveFails, NodeKeepsUp
<1>5. <<>> \in Seq(Messages)
  OBVIOUS
<1>6. /\ last' \in Result /\ last' # NoResult /\ call' = Idle
      /\ last'.op = call.op /\ last'.id = id /\ ~ last'.ok
  <2>1. call.op \in {"version_handshake", "send", "ping", "send_and_recv"}
    BY <1>1, CallTypes
  <2>2. Returns(call.op, id, FALSE, <<>>)
    BY <1>2 DEF ReceiveFails
  <2>3. QED
    BY <1>5, <2>1, <2>2, ReturnsType
<1>7. PipeTypes'
  BY <1>1, <1>3, <1>6 DEF PipeTypes
<1>8. InCall' /\ Returning'
  <2>1. Doing(call.op, id)
    BY <1>1, <1>2, CallTypes
  <2>2. QED
    BY <1>3, <1>4, <1>6, <2>1 DEF InCall, Returning, Returned, Doing, Current
<1>9. Grown(id, <<>>)
  BY <1>1, <1>3, <1>5, SendsEffect
<1>10. Clean(id)
  <2>1. \A m \in ToSet(due[id]) : m.cmd = "inv"
    BY <1>1, <1>4 DEF NodeKeepsUp
  <2>2. QED
    BY <1>3, <1>4, <2>1, EmptySets DEF Clean
<1>11. ASSUME NEW j \in Ids, force_send_and_ping, handshake_complete'[j] PROVE Clean(j)
  <2>1. CASE j # id
    BY <1>1, <1>2, <1>3, <1>11, <2>1
       DEF QuietBetweenCalls, Waiting, NoData, PingsAtMost, Clean
  <2>2. QED
    BY <1>10, <2>1
<1>12. \A j \in Ids : ping_counter[j] <= ping_counter'[j]
  BY <1>1, <1>3 DEF PipeTypes
<1>13. PipeInv'
  BY <1>1, <1>3, <1>5, <1>6, <1>7, <1>8, <1>9, <1>11, <1>12, EmptySets, QuietStep
<1>14. Settled(id)'
  <2>1. NodeKeepsUp' /\ id \in closed'
    BY <1>3, <1>4, <1>13 DEF PipeInv
  <2>2. Unprocessed(id)' = {}
    BY <1>3, <1>4, EmptySets DEF Unprocessed
  <2>3. QED
    BY <2>2 DEF Settled, Synced
<1>15. phase = "final" => Current = id
  BY <1>1, <1>2, CallTypes
<1>16. QED
  BY <1>3, <1>8, <1>13, <1>14, <1>15 DEF GoesOn, node

(* The wait goes on: the message was another one.                          *)
LEMMA WaitGoesOn ==
  ASSUME SInv, call # Idle, from_node[call.id] # <<>>, UNCHANGED scenario,
         ~ Awaited(Head(from_node[call.id])),
         call' = [call EXCEPT !.ret = Recorded(Head(from_node[call.id]))],
         from_node' = [from_node EXCEPT ![call.id] = Tail(@)],
         UNCHANGED <<last, handshake_complete, to_node, connection_type, ping_counter>>,
         UNCHANGED <<closed, node>>
  PROVE  GoesOn
<1>1. PipeInv /\ PipeTypes /\ InCall
  BY DEF SInv, PipeInv
<1>2. /\ call \in CallRecord /\ call.id \in Ids /\ from_node[call.id] \in Seq(Messages)
      /\ call.ret \in Seq(Messages) /\ last = NoResult
  BY <1>1, CallTypes DEF PipeTypes
<1>3. Head(from_node[call.id]) \in Messages /\ Tail(from_node[call.id]) \in Seq(Messages)
  BY <1>2, TailSets
<1>4. /\ Recorded(Head(from_node[call.id])) \in Seq(Messages)
      /\ \A m \in ToSet(Recorded(Head(from_node[call.id]))) : m.cmd # "pong"
  <2> DEFINE m == Head(from_node[call.id])
  <2> HIDE DEF m
  <2>1. m \in Messages /\ \A x \in ToSet(call.ret) : x.cmd # "pong"
    BY <1>1, <1>3 DEF InCall, m
  <2>2. <<m>> \in Seq(Messages) /\ ToSet(<<m>>) = {m}
    BY <2>1, SingleSets
  <2>3. Append(call.ret, m) = call.ret \o <<m>>
    BY <1>2, <2>1
  <2>4. /\ call.ret \o <<m>> \in Seq(Messages)
        /\ ToSet(call.ret \o <<m>>) = ToSet(call.ret) \cup ToSet(<<m>>)
    BY <1>2, <2>2, ConcatSets
  <2>5. Recorded(m) \in Seq(Messages) /\ \A x \in ToSet(Recorded(m)) : x.cmd # "pong"
    BY <1>2, <2>1, <2>2, <2>3, <2>4 DEF Recorded
  <2>6. QED
    BY <2>5 DEF m
<1>5. /\ call' \in CallRecord /\ call'.op = call.op /\ call'.id = call.id /\ call'.for = call.for
      /\ call'.ret = Recorded(Head(from_node[call.id]))
  BY <1>2, <1>4 DEF CallRecord
<1>6. /\ UNCHANGED <<connections, opened, phase, pos, force_send_and_ping, actions, raw>>
      /\ UNCHANGED <<peer, due, handled>>
  BY DEF node, scenario
<1>7. from_node' \in [Ids -> Seq(Messages)]
  BY <1>1, <1>2, <1>3 DEF PipeTypes
<1>8. PipeTypes'
  BY <1>1, <1>2, <1>5, <1>6, <1>7 DEF PipeTypes
<1>9. InCall'
  <2>1. call' # Idle => Doing(call.op, call.id)'
    BY <1>1, <1>5, <1>6 DEF InCall, Doing, Current
  <2>2. QED
    BY <1>1, <1>2, <1>4, <1>5, <1>6, <2>1 DEF InCall, Doing, Current
<1>10. PipeInv'
  BY <1>1, <1>8, <1>9, PassedOver
<1>11. QED
  BY <1>2, <1>10 DEF GoesOn, Returning, Returned, NoResult

(* The version of the node is in: the handshake goes on.                   *)
LEMMA HandshakeGoesOn ==
  ASSUME SInv, call # Idle, from_node[call.id] # <<>>, UNCHANGED scenario,
         Awaited(Head(from_node[call.id])), Head(from_node[call.id]).cmd = "version",
         HandshakeOn(call.id),
         from_node' = [from_node EXCEPT ![call.id] = Tail(@)],
         UNCHANGED <<handshake_complete, connection_type, ping_counter, closed, node>>
  PROVE  GoesOn
<1>1. PipeInv /\ PipeTypes /\ QuietBetweenCalls
  BY DEF SInv, PipeInv
<1>2. PICK id \in Ids : id = call.id
  BY CallTypes
<1>3. call.op = "version_handshake"
  <2>1. call.for.cmd = "version"
    BY DEF Awaited
  <2>2. Msg("pong", ping_counter[call.id]).cmd = "pong"
    BY MsgType
  <2>3. QED
    BY <2>1, <2>2, CallTypes
<1>4. Doing("version_handshake", id) /\ phase \in {"handshaking", "joining"}
  BY <1>2, <1>3, CallTypes
<1>5. /\ UNCHANGED <<connections, opened, phase, pos, force_send_and_ping, actions, raw>>
      /\ UNCHANGED <<connection_type, handshake_complete, ping_counter, closed>>
      /\ UNCHANGED <<peer, due, handled>>
  BY DEF node, scenario
<1>6. /\ Msg("version", 0) \in Messages /\ Msg("verack", 0) \in Messages
      /\ Msg("version", 0).cmd = "version" /\ Msg("verack", 0).cmd = "verack"
  BY MsgType DEF Commands
<1>7. /\ Handshake \in Seq(Messages)
      /\ \A x \in ToSet(Handshake) : x.cmd # "data" /\ x.cmd # "ping"
  <2>1. Handshake \in Seq(Messages) /\ ToSet(Handshake) = {Msg("version", 0), Msg("verack", 0)}
    BY <1>6, PairSets DEF Handshake
  <2>2. QED
    BY <1>6, <2>1
<1>8. Grown(id, Handshake) /\ to_node' \in [Ids -> Seq(Messages)]
  <2>1. Sends(id, Handshake) \/ UNCHANGED to_node
    BY <1>2 DEF HandshakeOn
  <2>2. QED
    BY <1>1, <1>7, <2>1, SendsEffect
<1>9. <<>> \in Seq(Messages)
  OBVIOUS
<1>10. \/ /\ call' \in CallRecord /\ call' # Idle /\ last' = NoResult
          /\ call'.op = "version_handshake" /\ call'.id = id /\ call'.ret = <<>>
          /\ call'.for = Msg("verack", 0)
       \/ /\ last' \in Result /\ last' # NoResult /\ call' = Idle
          /\ last'.op = "version_handshake" /\ last'.id = id /\ ~ last'.ok /\ id \in closed
  <2>1. \/ Waits("version_handshake", id, Msg("verack", 0), FALSE)
        \/ Returns("version_handshake", id, FALSE, <<>>) /\ CanFail(id)
    BY <1>2 DEF HandshakeOn
  <2>2. CASE Waits("version_handshake", id, Msg("verack", 0), FALSE)
    BY <1>6, <2>2, WaitsType
  <2>3. CASE Returns("version_handshake", id, FALSE, <<>>) /\ CanFail(id)
    BY <1>9, <2>3, ReturnsType DEF CanFail
  <2>4. QED
    BY <2>1, <2>2, <2>3
<1>11. /\ from_node' \in [Ids -> Seq(Messages)]
       /\ \A j \in Ids : ToSet(from_node'[j]) \subseteq ToSet(from_node[j])
  <2>1. /\ from_node[id] \in Seq(Messages) /\ Tail(from_node[id]) \in Seq(Messages)
        /\ ToSet(Tail(from_node[id])) \subseteq ToSet(from_node[id])
    <3>1. from_node[id] \in Seq(Messages)
      BY <1>1 DEF PipeTypes
    <3>2. QED
      BY <1>2, <3>1, TailSets
  <2>2. QED
    BY <1>1, <1>2, <2>1 DEF PipeTypes
<1>12. PipeTypes'
  BY <1>1, <1>5, <1>8, <1>10, <1>11 DEF PipeTypes
<1>13. InCall' /\ Returning'
  <2>1. Doing("version_handshake", id)'
    BY <1>4, <1>5 DEF Doing, Current
  <2>2. QED
    BY <1>5, <1>10, <2>1, EmptySets DEF InCall, Returning, Returned
<1>14. ASSUME NEW j \in Ids, force_send_and_ping, handshake_complete'[j] PROVE Clean(j)
  BY <1>1, <1>3, <1>5, <1>11, <1>14 DEF QuietBetweenCalls, Waiting, NoData, PingsAtMost, Clean
<1>15. \A j \in Ids : ping_counter[j] <= ping_counter'[j]
  BY <1>1, <1>5 DEF PipeTypes
<1>16. PipeInv'
  BY <1>1, <1>5, <1>7, <1>8, <1>10, <1>11, <1>12, <1>13, <1>14, <1>15, QuietStep
<1>17. QED
  BY <1>4, <1>5, <1>13, <1>16 DEF GoesOn, node

(* What was waited for is in: the pong was the last of the answers, and a  *)
(* handshake is over before the testcase has used the connection.          *)
LEMMA WaitOver ==
  ASSUME SInv, call # Idle, from_node[call.id] # <<>>, UNCHANGED scenario,
         Awaited(Head(from_node[call.id])), Head(from_node[call.id]).cmd # "version",
         Returns(call.op, call.id, TRUE, call.ret),
         handshake_complete' = [handshake_complete EXCEPT
                                  ![call.id] = @ \/ Head(from_node[call.id]).cmd = "verack"],
         from_node' = [from_node EXCEPT ![call.id] = Tail(@)],
         UNCHANGED <<to_node, connection_type, ping_counter, closed, node>>
  PROVE  GoesOn
<1>1. /\ PipeInv /\ PipeTypes /\ QuietBetweenCalls /\ PongWaitedFor /\ Untouched /\ NoncesKnown
      /\ AsksAboutItsMessage /\ Where
  BY DEF SInv, PipeInv
<1>2. PICK id \in Ids : id = call.id
  BY CallTypes
<1>3. PICK m \in Messages : m = Head(from_node[id])
  BY <1>1, <1>2, TailSets DEF PipeTypes
<1>4. /\ from_node[id] \in Seq(Messages) /\ from_node[id] # <<>>
      /\ Tail(from_node[id]) \in Seq(Messages)
      /\ m \in ToSet(from_node[id])
      /\ ToSet(Tail(from_node[id])) \subseteq ToSet(from_node[id])
      /\ ToSet(Tail(from_node[id])) \subseteq After(from_node[id], m)
  <2>1. from_node[id] \in Seq(Messages) /\ from_node[id] # <<>>
    BY <1>1, <1>2 DEF PipeTypes
  <2>2. QED
    BY <1>3, <2>1, TailSets
<1>5. /\ UNCHANGED <<connections, opened, phase, pos, force_send_and_ping, actions, raw>>
      /\ UNCHANGED <<connection_type, to_node, ping_counter, closed>>
      /\ UNCHANGED <<peer, due, handled>>
  BY DEF node, scenario
<1>6. /\ from_node' \in [Ids -> Seq(Messages)] /\ from_node'[id] = Tail(from_node[id])
      /\ \A j \in Ids \ {id} : from_node'[j] = from_node[j]
      /\ \A j \in Ids : ToSet(from_node'[j]) \subseteq ToSet(from_node[j])
  BY <1>1, <1>2, <1>4 DEF PipeTypes
<1>7. /\ handshake_complete' \in [Ids -> BOOLEAN]
      /\ handshake_complete'[id] = (handshake_complete[id] \/ m.cmd = "verack")
      /\ \A j \in Ids \ {id} : handshake_complete'[j] = handshake_complete[j]
  BY <1>1, <1>2, <1>3 DEF PipeTypes
<1>8. /\ last' \in Result /\ last' # NoResult /\ call' = Idle
      /\ last'.op = call.op /\ last'.id = id /\ last'.ok /\ last'.ret = call.ret
  <2>1. call.op \in {"version_handshake", "send", "ping", "send_and_recv"} /\ call.ret \in Seq(Messages)
    BY CallTypes
  <2>2. QED
    BY <1>2, <2>1, ReturnsType
<1>9. PipeTypes'
  BY <1>1, <1>5, <1>6, <1>7, <1>8 DEF PipeTypes
<1>10. InCall'
  BY <1>8 DEF InCall
<1>11. Doing(call.op, id) /\ Doing(last.op, id)'
  <2>1. Doing(call.op, id)
    BY <1>2, CallTypes
  <2>2. last'.op = call.op
    BY <1>8
  <2>3. QED
    BY <1>5, <2>1, <2>2 DEF Doing, Current
<1>12. \A x \in ToSet(to_node[id]) : x.arg \in Nat
  <2>1. to_node[id] \in Seq(Messages)
    BY <1>1 DEF PipeTypes
  <2>2. QED
    BY <2>1, ToSetType, MsgType
<1> DEFINE Over ==
             /\ \A j \in Ids : force_send_and_ping /\ handshake_complete'[j] => Clean(j)
             /\ last'.op = "send_and_recv" =>
                  /\ Synced(id)'
                  /\ \A x \in ToSet(last'.ret) : x.cmd = "getblocktxn" => x.arg = actions'
             /\ last'.op = "version_handshake" =>
                  handshake_complete'[id] /\ phase \in {"handshaking", "joining"}
             /\ last'.op # "version_handshake" => UNCHANGED handshake_complete /\ Settled(id)'
<1>13. ASSUME call.op = "version_handshake" PROVE Over
  <2>1. m.cmd = "verack" /\ handshake_complete'[id]
    <3>1. m.cmd = call.for.cmd
      BY <1>2, <1>3 DEF Awaited
    <3>2. call.for \in { Msg("version", 0), Msg("verack", 0) }
      BY <1>13, CallTypes
    <3>3. Msg("version", 0).cmd = "version" /\ Msg("verack", 0).cmd = "verack"
      BY MsgType
    <3>4. QED
      BY <1>2, <1>3, <1>7, <3>1, <3>2, <3>3
  <2>2. raw[id] = {} /\ NoData(id)
    <3>1. actions = 0 \/ id \notin ToSet(connections)
      BY <1>1, <1>11, <1>13 DEF Doing, Where, Setup
    <3>2. QED
      BY <1>1, <3>1 DEF Untouched
  <2>3. Clean(id)
    BY <1>1, <1>5, <1>6, <2>2 DEF NoncesKnown, PingsAtMost, NoData, Clean
  <2>4. \A j \in Ids : force_send_and_ping /\ handshake_complete'[j] => Clean(j)
    <3>1. \A j \in Ids : j # id /\ force_send_and_ping /\ handshake_complete'[j] => Clean(j)
      BY <1>1, <1>6, <1>7, <1>13 DEF QuietBetweenCalls, Waiting, NoData, PingsAtMost, Clean
    <3>2. QED
      BY <2>3, <3>1
  <2>5. phase \in {"handshaking", "joining"}
    BY <1>13, CallTypes
  <2>6. QED
    BY <1>8, <1>13, <2>1, <2>4, <2>5
<1>14. ASSUME call.op # "version_handshake" PROVE Over
  <2>1. /\ call.op \in {"ping", "send_and_recv"} /\ phase \notin {"handshaking", "joining"}
        /\ handshake_complete[id] /\ call.for = Msg("pong", ping_counter[id])
    BY <1>2, <1>14, CallTypes
  <2>2. m = Msg("pong", ping_counter[id]) /\ m.cmd = "pong"
    <3>1. Msg("pong", ping_counter[id]).cmd = "pong"
      BY MsgType
    <3>2. QED
      BY <1>2, <1>3, <2>1, <3>1 DEF Awaited
  <2>3. UNCHANGED handshake_complete
    BY <1>1, <1>7, <2>2 DEF PipeTypes
  <2>4. \/ Forged(id)
        \/ /\ \A x \in ToSet(to_node[id]) : x.cmd = "ping" /\ x.arg <= ping_counter[id]
           /\ \A x \in ToSet(due[id]) : x.cmd # "getblocktxn"
           /\ \A x \in ToSet(from_node'[id]) :
                x.cmd # "getblocktxn" /\ (x.cmd = "pong" => x.arg <= ping_counter[id])
    BY <1>1, <1>2, <1>4, <1>6, <1>14, <2>2 DEF PongWaitedFor, PongIsLast
  <2>5. Settled(id)'
    <3>1. CASE Forged(id)
      BY <1>5, <3>1 DEF Forged, Settled
    <3>2. CASE \A x \in ToSet(to_node[id]) : x.cmd = "ping"
      BY <1>5, <3>2 DEF Unprocessed, Settled, Synced
    <3>3. QED
      BY <2>4, <3>1, <3>2
  <2>6. ASSUME call.op = "send_and_recv" PROVE Over
    <3>1. ~ Forged(id)
      <4>1. actions = 0 \/ force_send_and_ping
        BY <1>1, <1>11, <2>6 DEF Doing, Where, Setup
      <4>2. actions = 0 => raw[id] = {}
        BY <1>1 DEF Untouched
      <4>3. QED
        BY <4>1, <4>2 DEF Forged
    <3>2. Clean(id)
      BY <1>12, <2>4, <3>1, <1>5 DEF Clean
    <3>3. \A j \in Ids : force_send_and_ping /\ handshake_complete'[j] => Clean(j)
      <4>1. \A j \in Ids : j # id /\ force_send_and_ping /\ handshake_complete'[j] => Clean(j)
        BY <1>1, <1>2, <1>6, <1>7 DEF QuietBetweenCalls, Waiting, NoData, PingsAtMost, Clean
      <4>2. QED
        BY <3>2, <4>1
    <3>4. Synced(id)'
      BY <1>5, <2>5, <3>1 DEF Settled, Forged
    <3>5. \A x \in ToSet(last'.ret) : x.cmd = "getblocktxn" => x.arg = actions'
      BY <1>1, <1>5, <1>8, <2>6 DEF AsksAboutItsMessage, AskedAbout
    <3>6. QED
      BY <1>8, <2>3, <2>5, <2>6, <3>3, <3>4, <3>5
  <2>7. ASSUME call.op = "ping" PROVE Over
    <3>1. \A j \in Ids : force_send_and_ping /\ handshake_complete'[j] => Clean(j)
      BY <1>1, <1>6, <2>3, <2>7 DEF QuietBetweenCalls, Waiting, NoData, PingsAtMost, Clean
    <3>2. QED
      BY <1>8, <2>3, <2>5, <2>7, <3>1
  <2>8. QED
    BY <2>1, <2>6, <2>7
<1>15. Over
  BY <1>13, <1>14
<1> HIDE DEF Over
<1>16. InCall' /\ Returning'
  <2>1. last'.op = "send_and_recv" => Synced(id)'
    BY <1>15 DEF Over
  <2>2. last'.op = "version_handshake" => handshake_complete'[id]
    BY <1>15 DEF Over
  <2>3. QED
    BY <1>8, <1>10, <1>11, <2>1, <2>2 DEF Returning, Returned, Doing, Current, Synced, Unprocessed
<1>17. Grown(id, <<>>) /\ <<>> \in Seq(Messages)
  <2>1. <<>> \in Seq(Messages)
    OBVIOUS
  <2>2. QED
    BY <1>1, <1>5, <2>1, SendsEffect
<1>18. \A j \in Ids : ping_counter[j] <= ping_counter'[j]
  BY <1>1, <1>5 DEF PipeTypes
<1>19. PipeInv'
  <2>1. /\ \A j \in Ids : force_send_and_ping /\ handshake_complete'[j] => Clean(j)
        /\ last'.op = "send_and_recv" =>
             \A x \in ToSet(last'.ret) : x.cmd = "getblocktxn" => x.arg = actions'
    BY <1>15 DEF Over
  <2>2. QED
    BY <1>1, <1>5, <1>6, <1>8, <1>9, <1>16, <1>17, <1>18, <2>1, EmptySets, QuietStep
<1>20. phase \notin {"handshaking", "joining"} => last'.op # "version_handshake"
  <2>1. last'.op = "version_handshake" => phase \in {"handshaking", "joining"}
    BY <1>15 DEF Over
  <2>2. QED
    BY <2>1
<1>21. \A j \in Ids : handshake_complete[j] => handshake_complete'[j]
  BY <1>7
<1>22. phase = "final" => Current = id
  BY <1>2, CallTypes
<1>23. /\ phase \notin {"handshaking", "joining"} => UNCHANGED handshake_complete
       /\ phase = "final" => Settled(id)'
  BY <1>15, <1>20 DEF Over
<1>24. QED
  BY <1>5, <1>16, <1>19, <1>21, <1>22, <1>23 DEF GoesOn, node

(* Receiving keeps the invariant.                                          *)
LEMMA GoesOnKeepsInv ==
  ASSUME SInv, GoesOn, UNCHANGED scenario
  PROVE  SInv'
<1>1. /\ ScenarioTypes /\ Opened /\ Where /\ HandshakesDone /\ Announced /\ Pinged
      /\ PipeInv' /\ Returning'
  BY DEF SInv, GoesOn
<1>2. /\ UNCHANGED <<connections, opened, phase, pos, force_send_and_ping>>
      /\ UNCHANGED <<recording_received_messages, probe_results, actions, raw>>
      /\ UNCHANGED <<ping_counter, closed, peer>>
  BY DEF scenario, GoesOn, node
<1>3. \A i \in DOMAIN connections : connections[i] \in Ids
  BY <1>1, ConnectionIds
<1>4. ScenarioTypes' /\ Opened' /\ Where'
  BY <1>1, <1>2 DEF ScenarioTypes, Opened, Where
<1>5. HandshakesDone'
  <2>1. \A j \in Ids : handshake_complete[j] => handshake_complete'[j]
    BY DEF GoesOn
  <2>2. QED
    BY <1>1, <1>2, <1>3, <2>1 DEF HandshakesDone
<1>6. phase \notin {"handshaking", "joining"} => UNCHANGED <<to_node, handshake_complete>>
  BY DEF GoesOn
<1>7. Announced'
  <2>1. SUFFICES ASSUME NEW i \in DOMAIN connections,
                        (phase = "announcing" /\ i < pos) \/ (phase = "acting" /\ actions = 0)
                 PROVE  Unprocessed(connections[i])' = {}
    BY <1>2 DEF Announced
  <2>2. Unprocessed(connections[i]) = {} /\ UNCHANGED to_node
    BY <1>1, <1>6, <2>1 DEF Announced
  <2>3. QED
    BY <1>2, <2>2 DEF Unprocessed
<1>8. Pinged'
  <2>1. phase = "final" /\ Returned' => Settled(Current)'
    <3>1. SUFFICES ASSUME phase = "final", Returned' PROVE Settled(Current)'
      OBVIOUS
    <3>2. last' # NoResult
      BY <3>1 DEF Returned
    <3>3. Doing(last.op, last.id)'
      BY <1>1, <3>1 DEF Returning
    <3>4. pos <= Len(connections)
      BY <1>2, <3>1, <3>3 DEF Doing
    <3>5. Current \in Ids
      BY <1>1, <3>4, ConnectionIds DEF Current, ScenarioTypes
    <3>6. PICK j \in Ids : j = Current
      BY <3>5
    <3>7. Settled(j)'
      BY <3>1, <3>2, <3>6 DEF GoesOn
    <3>8. Current' = j
      BY <1>2, <3>6 DEF Current
    <3>9. QED
      BY <3>7, <3>8 DEF Settled, Synced, Unprocessed, Forged
  <2>2. ASSUME NEW i \in DOMAIN connections, (phase = "final" /\ i < pos) \/ phase = "done"
        PROVE  Settled(connections[i])'
    <3>1. Settled(connections[i]) /\ UNCHANGED <<to_node, handshake_complete>>
      BY <1>1, <1>6, <2>2 DEF Pinged
    <3>2. QED
      BY <1>2, <3>1 DEF Settled, Synced, Unprocessed, Forged
  <2>3. QED
    BY <1>2, <2>1, <2>2 DEF Pinged
<1>9. QED
  BY <1>1, <1>4, <1>5, <1>7, <1>8 DEF SInv

(* So does every turn of the loop that receives.                           *)
LEMMA CallsKeepInv ==
  ASSUME SInv, Calls, UNCHANGED scenario
  PROVE  SInv'
<1>1. CASE ReceiveFails
  BY <1>1, WaitFails, GoesOnKeepsInv
<1>2. CASE Receive
  <2>1. /\ call # Idle /\ from_node[call.id] # <<>>
        /\ from_node' = [from_node EXCEPT ![call.id] = Tail(@)]
        /\ UNCHANGED <<connection_type, ping_counter, closed, node>>
    BY <1>2 DEF Receive
  <2>2. CASE /\ ~ Awaited(Head(from_node[call.id]))
             /\ call' = [call EXCEPT !.ret = Recorded(Head(from_node[call.id]))]
             /\ UNCHANGED <<last, handshake_complete, to_node>>
    BY <2>1, <2>2, WaitGoesOn, GoesOnKeepsInv
  <2>3. CASE /\ Awaited(Head(from_node[call.id])) /\ Head(from_node[call.id]).cmd = "version"
             /\ HandshakeOn(call.id) /\ UNCHANGED handshake_complete
    BY <2>1, <2>3, HandshakeGoesOn, GoesOnKeepsInv
  <2>4. CASE /\ Awaited(Head(from_node[call.id])) /\ Head(from_node[call.id]).cmd # "version"
             /\ Returns(call.op, call.id, TRUE, call.ret)
             /\ handshake_complete' = [handshake_complete EXCEPT
                                         ![call.id] = @ \/ Head(from_node[call.id]).cmd = "verack"]
             /\ UNCHANGED to_node
    BY <2>1, <2>4, WaitOver, GoesOnKeepsInv
  <2>5. QED
    BY <1>2, <2>2, <2>3, <2>4 DEF Receive
<1>3. QED
  BY <1>1, <1>2 DEF Calls

-----------------------------------------------------------------------------
(* A call that starts keeps the invariant: it disturbs its own socket.     *)
LEMMA KeptKeepsInv ==
  ASSUME SInv, NEW id \in Ids, Kept(id),
         UNCHANGED <<connections, opened, phase, pos, force_send_and_ping>>,
         UNCHANGED <<recording_received_messages, probe_results>>,
         \/ /\ UNCHANGED <<actions, raw>> /\ phase \notin {"acting", "done"}
            /\ phase \in {"announcing", "final"} => id = Current /\ pos <= Len(connections)
         \/ /\ phase = "acting" /\ actions' \in Nat \ {0}
            /\ raw' \in [Ids -> SUBSET Nat],
         phase = "final" /\ last' # NoResult => Settled(id)'
  PROVE  SInv'
<1>1. /\ ScenarioTypes /\ Opened /\ Where /\ HandshakesDone /\ Announced /\ Pinged
      /\ PipeInv' /\ Returning'
  BY DEF SInv, Kept
<1>2. /\ UNCHANGED <<connection_type, handshake_complete, closed, peer>>
      /\ \A j \in Ids \ {id} : to_node'[j] = to_node[j] /\ ping_counter'[j] = ping_counter[j]
  BY DEF Kept, node
<1>3. /\ Len(connections) \in Nat /\ DOMAIN connections = 1..Len(connections)
      /\ \A i \in DOMAIN connections : connections[i] \in Ids
  BY <1>1, ConnectionIds
<1>4. ScenarioTypes'
  BY <1>1 DEF ScenarioTypes
<1>5. Opened'
  BY <1>1, <1>2 DEF Opened
<1>6. Where'
  BY <1>1 DEF Where, Setup
<1>7. HandshakesDone'
  BY <1>1, <1>2 DEF HandshakesDone
<1>8. ASSUME NEW i \in DOMAIN connections, i < pos, phase \in {"announcing", "final"}
      PROVE  connections[i] \in Ids \ {id}
  <2>1. id = connections[pos] /\ pos \in DOMAIN connections /\ pos # i
    BY <1>1, <1>3, <1>8 DEF Current, ScenarioTypes
  <2>2. QED
    BY <1>1, <1>3, <2>1 DEF Opened
<1>9. Announced'
  <2>1. SUFFICES ASSUME NEW i \in DOMAIN connections,
                        (phase = "announcing" /\ i < pos) \/ (phase = "acting" /\ actions' = 0)
                 PROVE  Unprocessed(connections[i])' = {}
    BY DEF Announced
  <2>2. phase = "announcing" /\ i < pos
    BY <2>1
  <2>3. Unprocessed(connections[i]) = {} /\ to_node'[connections[i]] = to_node[connections[i]]
    BY <1>1, <1>2, <1>8, <2>2 DEF Announced
  <2>4. QED
    BY <2>3 DEF Unprocessed
<1>10. Pinged'
  <2>1. ASSUME NEW i \in DOMAIN connections, (phase = "final" /\ i < pos) \/ phase = "done"
        PROVE  Settled(connections[i])'
    <3>1. phase = "final" /\ i < pos /\ raw' = raw
      BY <2>1
    <3>2. Settled(connections[i]) /\ connections[i] \in Ids \ {id}
      BY <1>1, <1>8, <3>1 DEF Pinged
    <3>3. QED
      BY <1>2, <3>1, <3>2 DEF Settled, Synced, Unprocessed, Forged
  <2>2. phase = "final" /\ Returned' => Settled(Current)'
    <3>1. SUFFICES ASSUME phase = "final", Returned' PROVE Settled(Current)'
      OBVIOUS
    <3>2. Settled(id)' /\ Current' = id
      BY <3>1 DEF Returned, Current
    <3>3. QED
      BY <3>2 DEF Settled, Synced, Unprocessed, Forged
  <2>3. QED
    BY <2>1, <2>2 DEF Pinged
<1>11. QED
  BY <1>1, <1>4, <1>5, <1>6, <1>7, <1>9, <1>10 DEF SInv

(* The calls of the setup.                                                 *)
LEMMA SetupCallKeepsInv ==
  ASSUME SInv, SetupCall
  PROVE  SInv'
<1>1. /\ PipeInv /\ PipeTypes /\ ScenarioTypes /\ Where /\ Ready /\ UNCHANGED scenario
  BY DEF SInv, PipeInv, SetupCall
<1>2. /\ UNCHANGED <<connections, opened, phase, pos, force_send_and_ping>>
      /\ UNCHANGED <<recording_received_messages, probe_results, actions, raw>>
  BY <1>1 DEF scenario
<1>3. /\ Len(connections) \in Nat /\ DOMAIN connections = 1..Len(connections)
      /\ \A i \in DOMAIN connections : connections[i] \in Ids
  BY <1>1, ConnectionIds
<1>4. phase \in {"handshaking", "greeting", "pinging", "announcing"} =>
        Current \in Ids /\ pos <= Len(connections)
  BY <1>1, <1>3 DEF Where, Current, ScenarioTypes
<1>5. phase = "mining" => connections[1] \in Ids
  BY <1>1, <1>3 DEF Where
<1>6. \A j \in Ids : raw[j] \subseteq raw'[j] /\ raw'[j] = raw[j]
  BY <1>2
<1>7. CASE phase = "handshaking" /\ version_handshake(Current)
  <2>1. PICK id \in Ids : id = Current
    BY <1>4, <1>7
  <2>2. Doing("version_handshake", id)
    BY <1>7, <2>1 DEF Doing
  <2>3. Kept(id)
    BY <1>1, <1>7, <2>1, <2>2, HandshakeCall
  <2>4. QED
    BY <1>2, <1>7, <2>3, KeptKeepsInv
<1>8. CASE phase = "greeting" /\ send(Current, Msg("sendcmpct", 0))
  <2>1. PICK id \in Ids : id = Current
    BY <1>4, <1>8
  <2>2. Doing("send", id)'
    BY <1>2, <1>8, <2>1 DEF Doing, Current
  <2>3. /\ Msg("sendcmpct", 0) \in Messages /\ Msg("sendcmpct", 0).cmd = "sendcmpct"
    BY MsgType DEF Commands
  <2>4. Kept(id)
    BY <1>1, <1>2, <1>6, <1>8, <2>1, <2>2, <2>3, SendCall
  <2>5. QED
    BY <1>2, <1>8, <2>4, KeptKeepsInv
<1>9. CASE phase = "mining" /\ send(connections[1], Msg("block", pos))
  <2>1. PICK id \in Ids : id = connections[1]
    BY <1>5, <1>9
  <2>2. Doing("send", id)'
    BY <1>2, <1>9, <2>1 DEF Doing
  <2>3. /\ Msg("block", pos) \in Messages /\ Msg("block", pos).cmd = "block"
    BY <1>1, MsgType DEF Commands, ScenarioTypes
  <2>4. Kept(id)
    BY <1>1, <1>2, <1>6, <1>9, <2>1, <2>2, <2>3, SendCall
  <2>5. QED
    BY <1>2, <1>9, <2>4, KeptKeepsInv
<1>10. CASE phase = "pinging" /\ ping(Current)
  <2>1. PICK id \in Ids : id = Current
    BY <1>4, <1>10
  <2>2. Doing("ping", id)
    BY <1>10, <2>1 DEF Doing
  <2>3. Kept(id)
    BY <1>1, <1>10, <2>1, <2>2, PingCall
  <2>4. QED
    BY <1>2, <1>10, <2>3, KeptKeepsInv
<1>11. CASE phase = "announcing" /\ send_and_recv(Current, Msg("inv", 0), FALSE)
  <2>1. PICK id \in Ids : id = Current /\ pos <= Len(connections)
    BY <1>4, <1>11
  <2>2. Doing("send_and_recv", id)'
    BY <1>2, <1>11, <2>1 DEF Doing, Current
  <2>3. /\ Msg("inv", 0) \in Messages /\ Msg("inv", 0).cmd = "inv"
    BY MsgType DEF Commands
  <2>4. actions = 0
    BY <1>1, <1>11 DEF Where, Setup
  <2>5. Kept(id)
    BY <1>1, <1>2, <1>6, <1>11, <2>1, <2>2, <2>3, <2>4, RoundtripCall
  <2>6. QED
    BY <1>2, <1>11, <2>1, <2>5, KeptKeepsInv
<1>12. QED
  BY <1>7, <1>8, <1>9, <1>10, <1>11 DEF SetupCall

(* The handshake of a connection that the testcase opens.                  *)
LEMMA JoinKeepsInv ==
  ASSUME SInv, Join
  PROVE  SInv'
<1>1. /\ PipeInv /\ ScenarioTypes /\ Where /\ UNCHANGED scenario
      /\ phase = "joining" /\ version_handshake(opened)
  BY DEF SInv, Join
<1>2. /\ UNCHANGED <<connections, opened, phase, pos, force_send_and_ping>>
      /\ UNCHANGED <<recording_received_messages, probe_results, actions, raw>>
  BY <1>1 DEF scenario
<1>3. PICK id \in Ids : id = opened
  BY <1>1 DEF Where, ScenarioTypes, Ids
<1>4. Doing("version_handshake", id)
  BY <1>1, <1>3 DEF Doing
<1>5. Kept(id)
  BY <1>1, <1>3, <1>4, HandshakeCall
<1>6. QED
  BY <1>1, <1>2, <1>5, KeptKeepsInv

(* A message of the testcase.                                              *)
LEMMA SendRawKeepsInv ==
  ASSUME SInv, NEW dst \in ToSet(connections), NEW m \in ProgramMessages, SendRawMessage(dst, m)
  PROVE  SInv'
<1>1. /\ PipeInv /\ ScenarioTypes /\ phase = "acting" /\ actions' = actions + 1
      /\ UNCHANGED <<connections, opened, phase, pos, force_send_and_ping>>
      /\ UNCHANGED <<recording_received_messages, probe_results>>
  BY DEF SInv, SendRawMessage, Acts
<1>2. PICK id \in Ids : id = dst
  BY <1>1, ConnectionIds
<1>3. actions \in Nat /\ actions' \in Nat \ {0} /\ raw \in [Ids -> SUBSET Nat]
  BY <1>1 DEF ScenarioTypes
<1>4. /\ m \in Messages
      /\ m.cmd = "data" => m.arg = actions'
      /\ m.cmd = "ping" => m.arg \in RawNonces
  <2>1. CASE m = Msg("data", actions + 1)
    BY <1>1, <1>3, <2>1, MsgType DEF Commands
  <2>2. CASE m \in { Msg("ping", n) : n \in RawNonces }
    BY <2>2, MsgType, ScenarioAssumption DEF Commands
  <2>3. QED
    BY <2>1, <2>2 DEF ProgramMessages
<1>5. m.cmd = "ping" => m.arg \in Nat
  BY <1>4, ScenarioAssumption
<1>6. /\ raw' \in [Ids -> SUBSET Nat] /\ (m.cmd = "ping" => m.arg \in raw'[id])
      /\ \A j \in Ids : raw[j] \subseteq raw'[j] /\ (j # id => raw'[j] = raw[j])
  <2>1. CASE m.cmd = "ping" /\ raw' = [raw EXCEPT ![id] = @ \cup {m.arg}]
    BY <1>3, <1>5, <2>1
  <2>2. CASE m.cmd # "ping" /\ raw' = raw
    BY <1>3, <2>2
  <2>3. QED
    BY <1>2, <2>1, <2>2 DEF SendRawMessage
<1>7. id \in ToSet(connections)'
  BY <1>1, <1>2
<1>8. CASE force_send_and_ping /\ send_and_recv(id, m, recording_received_messages)
  <2>1. Doing("send_and_recv", id)'
    BY <1>1, <1>3, <1>7, <1>8 DEF Doing
  <2>2. recording_received_messages \in BOOLEAN
    BY <1>1 DEF ScenarioTypes
  <2>3. Kept(id)
    BY <1>1, <1>2, <1>3, <1>4, <1>6, <1>8, <2>1, <2>2, RoundtripCall
  <2>4. QED
    BY <1>1, <1>3, <1>6, <2>3, KeptKeepsInv
<1>9. CASE ~ force_send_and_ping /\ send(id, m)
  <2>1. Doing("send", id)'
    BY <1>1, <1>3, <1>7, <1>9 DEF Doing
  <2>2. Kept(id)
    BY <1>1, <1>2, <1>3, <1>4, <1>6, <1>9, <2>1, SendCall
  <2>3. QED
    BY <1>1, <1>3, <1>6, <2>2, KeptKeepsInv
<1>10. QED
  BY <1>2, <1>8, <1>9 DEF SendRawMessage

(* A ping at the end of the testcase.                                      *)
LEMMA FinalPingKeepsInv ==
  ASSUME SInv, phase = "final", pos <= Len(connections), ping(Current), UNCHANGED scenario
  PROVE  SInv'
<1>1. PipeInv /\ ScenarioTypes
  BY DEF SInv
<1>2. /\ UNCHANGED <<connections, opened, phase, pos, force_send_and_ping>>
      /\ UNCHANGED <<recording_received_messages, probe_results, actions, raw>>
  BY DEF scenario
<1>3. PICK id \in Ids : id = Current
  BY <1>1, ConnectionIds DEF Current, ScenarioTypes
<1>4. Doing("ping", id)
  BY <1>3 DEF Doing
<1>5. /\ Kept(id)
      /\ last' # NoResult => last'.id = id /\ (~ last'.ok \/ ~ handshake_complete[id])
  BY <1>1, <1>3, <1>4, PingCall
<1>6. last' # NoResult => Settled(id)'
  <2>1. SUFFICES ASSUME last' # NoResult PROVE Settled(id)'
    OBVIOUS
  <2>2. CASE ~ handshake_complete[id]
    BY <1>5, <2>2 DEF Kept, Settled, Synced
  <2>3. CASE ~ last'.ok
    <3>1. id \in closed'
      BY <1>5, <2>1, <2>3 DEF Kept, Returning, Returned
    <3>2. NodeKeepsUp'
      BY <1>5 DEF Kept, PipeInv
    <3>3. to_node'[id] = <<>>
      BY <3>1, <3>2 DEF NodeKeepsUp
    <3>4. QED
      BY <3>3, EmptySets DEF Settled, Synced, Unprocessed
  <2>4. QED
    BY <1>5, <2>1, <2>2, <2>3
<1>7. QED
  BY <1>2, <1>3, <1>5, <1>6, KeptKeepsInv

-----------------------------------------------------------------------------
(* Steps of the scenario between two calls, that send nothing.             *)
LEMMA BetweenCalls ==
  ASSUME PipeInv, call = Idle, UNCHANGED <<fields, call, sockets, node>>,
         UNCHANGED <<force_send_and_ping, raw>>, last' = NoResult,
         ToSet(connections) \subseteq ToSet(connections'), actions' = 0 => actions = 0
  PROVE  /\ PipeInv' /\ Returning'
         /\ UNCHANGED <<handshake_complete, ping_counter, to_node, closed, peer>>
<1>1. /\ UNCHANGED <<connection_type, handshake_complete, ping_counter, to_node, from_node>>
      /\ UNCHANGED <<closed, peer, due, handled>>
  BY DEF fields, sockets, node
<1>2. PipeTypes
  BY DEF PipeInv
<1>3. PipeTypes' /\ InCall' /\ Returning'
  BY <1>1, <1>2 DEF PipeTypes, InCall, Returning, Returned
<1>4. 1 \in Ids /\ <<>> \in Seq(Messages)
  BY ConnectionsAssumption DEF Ids
<1>5. Grown(1, <<>>)
  BY <1>1, <1>2, <1>4, SendsEffect
<1>6. \A j \in Ids : force_send_and_ping /\ handshake_complete'[j] => Clean(j)
  BY <1>1, CleanWhenIdle
<1>7. \A j \in Ids : ping_counter[j] <= ping_counter'[j]
  BY <1>1, <1>2 DEF PipeTypes
<1>8. PipeInv'
  BY <1>1, <1>3, <1>4, <1>5, <1>6, <1>7, EmptySets, QuietStep
<1>9. QED
  BY <1>1, <1>3, <1>8


(* The setup goes on after a call, or fails with it.                       *)
LEMMA SetupReturnedKeepsInv ==
  ASSUME SInv, SetupReturned
  PROVE  SInv'
<1>1. /\ ScenarioTypes /\ Opened /\ Where /\ Returning /\ HandshakesDone /\ Announced /\ PipeInv
      /\ InCall /\ Returned
  BY DEF SInv, PipeInv, SetupReturned
<1>2. /\ UNCHANGED <<connections, opened, force_send_and_ping, actions, raw>>
      /\ UNCHANGED <<recording_received_messages, probe_results>>
      /\ UNCHANGED <<fields, call, sockets, node>> /\ last' = NoResult /\ call = Idle
  BY <1>1 DEF SetupReturned, InCall, Returned
<1>3. /\ PipeInv' /\ Returning'
      /\ UNCHANGED <<handshake_complete, ping_counter, to_node, closed, peer>>
  BY <1>1, <1>2, BetweenCalls
<1>4. /\ Len(connections) \in Nat /\ DOMAIN connections = 1..Len(connections)
      /\ pos \in Nat /\ pos # 0 /\ NumBlocks \in Nat /\ NumBlocks # 0
  BY <1>1, ConnectionIds, ScenarioAssumption DEF ScenarioTypes
<1>5. actions = 0 /\ Len(connections) > 0 /\ pos <= Len(connections) + NumBlocks + 1
  BY <1>1 DEF Where, Setup, SetupReturned
<1> DEFINE On == /\ phase' \in Phases \ {"connecting", "joining", "final", "done"}
                 /\ pos' \in Nat \ {0} /\ pos' <= Len(connections) + NumBlocks + 1
                 /\ phase' \in {"handshaking", "greeting", "pinging", "announcing"} =>
                      pos' <= Len(connections)
                 /\ phase' = "mining" => pos' <= NumBlocks
                 /\ \A i \in DOMAIN connections :
                      \/ phase' = "handshaking" /\ i < pos'
                      \/ phase' = "greeting" /\ i <= pos'
                      \/ phase' \in {"mining", "pinging", "announcing", "acting"}
                      => handshake_complete[connections[i]]
                 /\ \A i \in DOMAIN connections :
                      (phase' = "announcing" /\ i < pos') \/ phase' = "acting" =>
                        Unprocessed(connections[i]) = {}
<1>6. ASSUME ~ last.ok PROVE On
  BY <1>4, <1>5, <1>6 DEF SetupReturned, Phases
<1>7. ASSUME last.ok /\ phase = "handshaking" PROVE On
  <2>1. phase' = "greeting" /\ pos' = pos /\ pos <= Len(connections)
    BY <1>1, <1>7 DEF SetupReturned, NextPhase, Where
  <2>2. handshake_complete[connections[pos]]
    BY <1>1, <1>7 DEF Returning, Doing, Current
  <2>3. \A i \in DOMAIN connections : i < pos => handshake_complete[connections[i]]
    BY <1>1, <1>7 DEF HandshakesDone
  <2>4. QED
    BY <1>4, <1>5, <2>1, <2>2, <2>3 DEF Phases
<1>8. ASSUME last.ok /\ phase = "greeting" PROVE On
  <2>1. /\ pos <= Len(connections)
        /\ \/ pos < Len(connections) /\ phase' = "handshaking" /\ pos' = pos + 1
           \/ pos = Len(connections) /\ phase' = "mining" /\ pos' = 1
    BY <1>1, <1>4, <1>8 DEF SetupReturned, NextPhase, Where
  <2>2. \A i \in DOMAIN connections : i <= pos => handshake_complete[connections[i]]
    BY <1>1, <1>8 DEF HandshakesDone
  <2>3. CASE phase' = "handshaking" /\ pos' = pos + 1 /\ pos < Len(connections)
    <3>1. \A i \in DOMAIN connections : i < pos' => handshake_complete[connections[i]]
      BY <1>4, <2>2, <2>3
    <3>2. pos' \in Nat \ {0} /\ pos' <= Len(connections)
      BY <1>4, <2>3
    <3>3. QED
      BY <1>4, <1>5, <2>3, <3>1, <3>2 DEF Phases
  <2>4. CASE phase' = "mining" /\ pos' = 1 /\ pos = Len(connections)
    <3>1. \A i \in DOMAIN connections : handshake_complete[connections[i]]
      BY <1>4, <2>2, <2>4
    <3>2. QED
      BY <1>4, <1>5, <2>4, <3>1 DEF Phases
  <2>5. QED
    BY <2>1, <2>3, <2>4
<1>9. ASSUME last.ok /\ phase \in {"mining", "pinging"} PROVE On
  <2>1. /\ phase' \in {"mining", "pinging", "announcing"} /\ pos' \in Nat \ {0}
        /\ phase' = "mining" => pos' <= NumBlocks
        /\ phase' \in {"pinging", "announcing"} => pos' <= Len(connections)
        /\ phase' = "announcing" => pos' = 1
    <3>1. CASE phase = "mining"
      BY <1>1, <1>4, <1>5, <1>9, <3>1 DEF SetupReturned, NextPhase, Where
    <3>2. CASE phase = "pinging"
      BY <1>1, <1>4, <1>5, <1>9, <3>2 DEF SetupReturned, NextPhase, Where
    <3>3. QED
      BY <1>9, <3>1, <3>2
  <2>2. \A i \in DOMAIN connections : handshake_complete[connections[i]]
    BY <1>1, <1>9 DEF HandshakesDone
  <2>3. QED
    BY <1>4, <1>5, <2>1, <2>2 DEF Phases
<1>10. ASSUME last.ok /\ phase = "announcing" PROVE On
  <2>1. /\ pos <= Len(connections)
        /\ \/ pos < Len(connections) /\ phase' = "announcing" /\ pos' = pos + 1
           \/ pos = Len(connections) /\ phase' = "acting" /\ pos' = 1
    BY <1>1, <1>4, <1>10 DEF SetupReturned, NextPhase, Where
  <2>2. \A i \in DOMAIN connections : handshake_complete[connections[i]]
    BY <1>1, <1>10 DEF HandshakesDone
  <2>3. Unprocessed(connections[pos]) = {}
    <3>1. last.op = "send_and_recv" /\ last.id = connections[pos]
      BY <1>1, <1>10 DEF Returning, Doing, Current
    <3>2. Synced(last.id)
      BY <1>1, <1>10, <3>1 DEF Returning
    <3>3. pos \in 1..Len(connections)
      <4>1. pos <= Len(connections)
        BY <2>1
      <4>2. QED
        BY <1>4, <4>1
    <3>4. handshake_complete[connections[pos]]
      BY <1>4, <2>2, <3>3
    <3>5. QED
      BY <3>1, <3>2, <3>4 DEF Synced, Unprocessed
  <2>4. \A i \in DOMAIN connections : i < pos => Unprocessed(connections[i]) = {}
    BY <1>1, <1>10 DEF Announced
  <2>5. \A i \in DOMAIN connections : i <= pos => Unprocessed(connections[i]) = {}
    BY <1>4, <2>3, <2>4
  <2>6. CASE phase' = "announcing" /\ pos' = pos + 1 /\ pos < Len(connections)
    <3>1. \A i \in DOMAIN connections : i < pos' => Unprocessed(connections[i]) = {}
      BY <1>4, <2>5, <2>6
    <3>2. pos' \in Nat \ {0} /\ pos' <= Len(connections)
      BY <1>4, <2>6
    <3>3. QED
      BY <1>4, <1>5, <2>2, <2>6, <3>1, <3>2 DEF Phases
  <2>7. CASE phase' = "acting" /\ pos' = 1 /\ pos = Len(connections)
    <3>1. \A i \in DOMAIN connections : Unprocessed(connections[i]) = {}
      BY <1>4, <2>5, <2>7
    <3>2. QED
      BY <1>4, <1>5, <2>2, <2>7, <3>1 DEF Phases
  <2>8. QED
    BY <2>1, <2>6, <2>7
<1>11. On
  BY <1>6, <1>7, <1>8, <1>9, <1>10 DEF SetupReturned
<1>12. /\ phase' \in Phases \ {"connecting", "joining", "final", "done"} /\ pos' \in Nat \ {0}
  BY <1>11
<1>13. ScenarioTypes' /\ Opened'
  BY <1>1, <1>2, <1>3, <1>12 DEF ScenarioTypes, Opened
<1>14. Where'
  BY <1>2, <1>5, <1>11 DEF Where
<1>15. HandshakesDone'
  BY <1>2, <1>3, <1>11 DEF HandshakesDone
<1>16. Announced'
  BY <1>2, <1>3, <1>11 DEF Announced, Unprocessed
<1>17. Pinged'
  BY <1>12 DEF Pinged
<1>18. QED
  BY <1>3, <1>13, <1>14, <1>15, <1>16, <1>17 DEF SInv


(* A new connection: nothing of the testcase is under way on its socket.   *)
LEMMA ConnectedStep ==
  ASSUME PipeInv, ScenarioTypes, Opened, call = Idle, last = NoResult, opened < MaxConnections,
         NEW type \in ConnectionType, Connected(type),
         UNCHANGED <<force_send_and_ping, raw>>,
         ToSet(connections) \subseteq ToSet(connections'), actions' = 0 => actions = 0
  PROVE  /\ PipeInv' /\ Returning' /\ opened' = opened + 1 /\ opened' \in Ids
         /\ UNCHANGED closed /\ \A j \in Ids : j > opened' => peer'[j] = "none"
<1>1. /\ PipeTypes /\ NodeKeepsUp /\ Untouched /\ NoncesKnown /\ QuietBetweenCalls
  BY DEF PipeInv
<1>2. PICK id \in Ids : id = opened + 1
  BY ConnectionsAssumption DEF ScenarioTypes, Ids
<1>3. /\ opened' = id
      /\ connection_type' = [connection_type EXCEPT ![id] = type]
      /\ peer' = [peer EXCEPT ![id] = "connected"]
      /\ from_node' = [from_node EXCEPT ![id] =
                         IF type = "Outbound" THEN << Msg("version", 0) >> ELSE <<>>]
      /\ UNCHANGED <<handshake_complete, ping_counter, call, last, to_node, closed, due, handled>>
  BY <1>2 DEF Connected, Accept, calls
<1>4. /\ Msg("version", 0) \in Messages /\ Msg("version", 0).cmd = "version"
      /\ << Msg("version", 0) >> \in Seq(Messages) /\ <<>> \in Seq(Messages)
      /\ ToSet(<< Msg("version", 0) >>) = { Msg("version", 0) } /\ ToSet(<<>>) = {}
  <2>1. Msg("version", 0) \in Messages /\ Msg("version", 0).cmd = "version"
    BY MsgType DEF Commands
  <2>2. QED
    BY <2>1, SingleSets, EmptySets
<1>5. /\ from_node' \in [Ids -> Seq(Messages)]
      /\ \A j \in Ids : \A m \in ToSet(from_node'[j]) : m \in ToSet(from_node[j]) \/ m.cmd = "version"
  <2>1. PICK s \in Seq(Messages) : /\ from_node' = [from_node EXCEPT ![id] = s]
                                   /\ \A m \in ToSet(s) : m.cmd = "version"
    BY <1>3, <1>4
  <2>2. from_node' \in [Ids -> Seq(Messages)] /\ from_node'[id] = s
        /\ \A j \in Ids \ {id} : from_node'[j] = from_node[j]
    BY <1>1, <2>1 DEF PipeTypes
  <2>3. QED
    BY <2>1, <2>2
<1>6. PipeTypes' /\ peer' \in [Ids -> {"none", "connected", "versioned", "established"}]
  BY <1>1, <1>3, <1>5 DEF PipeTypes
<1>7. NodeKeepsUp' /\ InCall' /\ PongWaitedFor' /\ Returning' /\ AsksAboutItsMessage'
  BY <1>1, <1>3 DEF NodeKeepsUp, InCall, PongWaitedFor, Returning, Returned, AsksAboutItsMessage
<1>8. ASSUME NEW j \in Ids, NoData(j) PROVE NoData(j)'
  BY <1>3, <1>5, <1>8 DEF NoData
<1>9. Untouched'
  BY <1>1, <1>3, <1>8 DEF Untouched
<1>10. NoncesKnown'
  BY <1>1, <1>3, <1>5 DEF NoncesKnown, PingsAtMost
<1>11. QuietBetweenCalls'
  <2>1. SUFFICES ASSUME NEW j \in Ids, force_send_and_ping, handshake_complete[j]
                 PROVE  NoData(j)' /\ PingsAtMost(j, {}, ping_counter[j])'
    BY <1>3 DEF QuietBetweenCalls
  <2>2. NoData(j) /\ PingsAtMost(j, {}, ping_counter[j])
    BY <1>1, <2>1 DEF QuietBetweenCalls, Waiting
  <2>3. QED
    BY <1>3, <1>5, <1>8, <2>2 DEF PingsAtMost
<1>12. PipeInv'
  BY <1>6, <1>7, <1>9, <1>10, <1>11 DEF PipeInv
<1>13. \A j \in Ids : j > opened' => peer'[j] = "none"
  BY <1>1, <1>2, <1>3 DEF Opened, PipeTypes, ScenarioTypes, Ids
<1>14. QED
  BY <1>2, <1>3, <1>7, <1>12, <1>13

(* The list of connections, with the newest socket at its end.             *)
LEMMA AppendedConnection ==
  ASSUME ScenarioTypes, Opened, NEW id \in Ids, id \notin ToSet(connections)
  PROVE  /\ Append(connections, id) \in Seq(Ids)
         /\ Len(Append(connections, id)) = Len(connections) + 1
         /\ DOMAIN Append(connections, id) = 1..(Len(connections) + 1)
         /\ ToSet(connections) \subseteq ToSet(Append(connections, id))
         /\ id \in ToSet(Append(connections, id))
         /\ Append(connections, id)[Len(connections) + 1] = id
         /\ \A i \in DOMAIN connections : Append(connections, id)[i] = connections[i]
         /\ \A i, j \in DOMAIN Append(connections, id) :
              Append(connections, id)[i] = Append(connections, id)[j] => i = j
<1> DEFINE s == Append(connections, id)
<1>1. connections \in Seq(Ids) /\ Len(connections) \in Nat /\ DOMAIN connections = 1..Len(connections)
  BY DEF ScenarioTypes
<1>2. /\ s \in Seq(Ids) /\ Len(s) = Len(connections) + 1 /\ DOMAIN s = 1..(Len(connections) + 1)
      /\ s[Len(connections) + 1] = id
      /\ \A i \in 1..Len(connections) : s[i] = connections[i]
  BY <1>1
<1> HIDE DEF s
<1>3. ToSet(connections) \subseteq ToSet(s) /\ id \in ToSet(s)
  <2>1. \A i \in 1..Len(connections) : i \in DOMAIN s
    BY <1>1, <1>2
  <2>2. Len(connections) + 1 \in DOMAIN s
    BY <1>1, <1>2
  <2>3. QED
    BY <1>1, <1>2, <2>1, <2>2 DEF ToSet
<1>4. \A i \in 1..Len(connections) : connections[i] # id
  BY <1>1 DEF ToSet
<1>5. ASSUME NEW i \in DOMAIN s, NEW j \in DOMAIN s, s[i] = s[j] PROVE i = j
  <2>1. CASE i \in 1..Len(connections) /\ j \in 1..Len(connections)
    BY <1>1, <1>2, <1>5, <2>1 DEF Opened
  <2>2. CASE i \in 1..Len(connections) /\ j = Len(connections) + 1
    BY <1>2, <1>4, <1>5, <2>2
  <2>3. CASE i = Len(connections) + 1 /\ j \in 1..Len(connections)
    BY <1>2, <1>4, <1>5, <2>3
  <2>4. QED
    BY <1>1, <1>2, <2>1, <2>2, <2>3
<1>6. QED
  BY <1>1, <1>2, <1>3, <1>5 DEF s


(* The connections of the setup.                                           *)
LEMMA ConnectAllKeepsInv ==
  ASSUME SInv, ConnectAll
  PROVE  SInv'
<1>1. /\ ScenarioTypes /\ Opened /\ Where /\ Returning /\ PipeInv /\ InCall /\ phase = "connecting"
      /\ UNCHANGED <<force_send_and_ping, recording_received_messages, probe_results, actions, raw>>
  BY DEF SInv, PipeInv, ConnectAll
<1>2. call = Idle /\ last = NoResult
  BY <1>1 DEF InCall, Returning, Returned, Doing
<1>3. /\ Len(connections) \in Nat /\ DOMAIN connections = 1..Len(connections)
      /\ pos \in Nat /\ pos # 0 /\ NumBlocks \in Nat /\ actions = 0 /\ opened \in Nat
      /\ SetupConnections \in Seq(ConnectionType) /\ Len(SetupConnections) \in 1..MaxConnections
      /\ pos <= Len(SetupConnections) /\ Len(connections) = pos - 1 /\ opened = pos - 1
  BY <1>1, ConnectionIds, ScenarioAssumption, ConnectionsAssumption
     DEF ScenarioTypes, Where, Setup
<1>4. CASE phase' = "failed" /\ UNCHANGED <<fields, calls, sockets, node, connections, opened, pos>>
  <2>1. /\ PipeInv' /\ Returning'
        /\ UNCHANGED <<handshake_complete, ping_counter, to_node, closed, peer>>
    <3>1. UNCHANGED call /\ last' = NoResult
      BY <1>2, <1>4 DEF calls
    <3>2. QED
      BY <1>1, <1>2, <1>4, <3>1, BetweenCalls
  <2>2. ScenarioTypes' /\ Opened' /\ Where'
    BY <1>1, <1>3, <1>4, <2>1 DEF ScenarioTypes, Opened, Where, Phases, Setup
  <2>3. HandshakesDone' /\ Announced' /\ Pinged'
    BY <1>4 DEF HandshakesDone, Announced, Pinged
  <2>4. QED
    BY <2>1, <2>2, <2>3 DEF SInv
<1>5. CASE /\ Connected(SetupConnections[pos]) /\ connections' = Append(connections, opened')
           /\ phase' = NextPhase[1] /\ pos' = NextPhase[2]
  <2>1. SetupConnections[pos] \in ConnectionType /\ opened < MaxConnections
    BY <1>3, ConnectionsAssumption
  <2>2. opened' = opened + 1 /\ opened' \in Ids
    <3>1. opened' = opened + 1
      BY <1>5 DEF Connected
    <3>2. opened + 1 \in Ids
      BY <1>3, <2>1, ConnectionsAssumption DEF Ids
    <3>3. QED
      BY <3>1, <3>2
  <2>3. PICK id \in Ids : id = opened' /\ id = opened + 1
    BY <2>2
  <2>4. id \notin ToSet(connections) /\ \A i \in DOMAIN connections : connections[i] < id
    BY <1>1, <1>3, <2>3, ConnectionIds DEF Opened, ToSet, Ids
  <2>5. /\ connections' \in Seq(Ids) /\ Len(connections') = pos
        /\ DOMAIN connections' = 1..pos
        /\ ToSet(connections) \subseteq ToSet(connections')
        /\ connections'[pos] = id
        /\ \A i \in DOMAIN connections : connections'[i] = connections[i]
        /\ \A i, j \in DOMAIN connections' : connections'[i] = connections'[j] => i = j
    BY <1>1, <1>3, <1>5, <2>3, <2>4, AppendedConnection
  <2>6. /\ PipeInv' /\ Returning' /\ UNCHANGED closed
        /\ \A j \in Ids : j > opened' => peer'[j] = "none"
    BY <1>1, <1>2, <1>5, <2>1, <2>5, ConnectedStep
  <2>7. \/ phase' = "connecting" /\ pos' = pos + 1 /\ pos < Len(SetupConnections)
        \/ phase' = "handshaking" /\ pos' = 1
    BY <1>1, <1>5 DEF NextPhase
  <2>8. phase' \in {"connecting", "handshaking"} /\ pos' \in Nat /\ pos' # 0
    BY <1>3, <2>7
  <2>9. ScenarioTypes'
    BY <1>1, <1>3, <2>2, <2>5, <2>8, ConnectionsAssumption DEF ScenarioTypes, Phases, Ids
  <2>10. Opened'
    <3>1. \A i \in DOMAIN connections' : connections'[i] <= opened'
      <4>1. SUFFICES ASSUME NEW i \in 1..pos PROVE connections'[i] <= opened'
        BY <2>5
      <4>2. CASE i = pos
        BY <2>3, <2>5, <4>2 DEF Ids
      <4>3. CASE i # pos
        <5>1. i \in DOMAIN connections
          BY <1>3, <4>3
        <5>2. connections'[i] < id /\ connections'[i] \in Ids
          BY <1>1, <2>4, <2>5, <5>1, ConnectionIds
        <5>3. QED
          BY <2>3, <5>2, ConnectionsAssumption DEF Ids
      <4>4. QED
        BY <4>2, <4>3
    <3>2. closed' \subseteq 1..opened'
      BY <1>1, <1>3, <2>2, <2>6 DEF Opened
    <3>3. QED
      BY <2>5, <2>6, <3>1, <3>2 DEF Opened
  <2>11. Where'
    <3>1. CASE phase' = "connecting" /\ pos' = pos + 1 /\ pos < Len(SetupConnections)
      BY <1>1, <1>3, <2>2, <2>5, <3>1 DEF Where, Setup
    <3>2. CASE phase' = "handshaking" /\ pos' = 1
      BY <1>1, <1>3, <2>2, <2>5, <3>2 DEF Where, Setup
    <3>3. QED
      BY <2>7, <3>1, <3>2
  <2>12. HandshakesDone' /\ Announced' /\ Pinged'
    <3>1. phase' = "handshaking" => pos' = 1
      BY <2>7
    <3>2. \A i \in DOMAIN connections' : i \in Nat /\ ~ (i < 1)
      BY <1>3, <2>5
    <3>3. QED
      BY <2>8, <3>1, <3>2 DEF HandshakesDone, Announced, Pinged
  <2>13. QED
    BY <2>6, <2>9, <2>10, <2>11, <2>12 DEF SInv
<1>6. QED
  BY <1>4, <1>5 DEF ConnectAll

(* Where the testcase is acting, or joining, only the sockets count.       *)
LEMMA ActingKeepsInv ==
  ASSUME PipeInv', Returning', ScenarioTypes', Opened', Where',
         phase' \in {"acting", "joining"}, actions' # 0
  PROVE  SInv'
BY DEF SInv, HandshakesDone, Announced, Pinged

(* A connection that the testcase opens.                                   *)
LEMMA ConnectKeepsInv ==
  ASSUME SInv, NEW type \in ConnectionType, Connect(type)
  PROVE  SInv'
<1>1. /\ ScenarioTypes /\ Opened /\ Where /\ PipeInv /\ phase = "acting"
      /\ call = Idle /\ last = NoResult /\ actions' = actions + 1
      /\ UNCHANGED <<pos, force_send_and_ping, recording_received_messages, probe_results, raw>>
  BY DEF SInv, Connect, Acts, Ready
<1>2. /\ Len(connections) \in Nat /\ DOMAIN connections = 1..Len(connections)
      /\ Len(connections) > 0 /\ pos <= Len(connections) + NumBlocks + 1 /\ NumBlocks \in Nat
      /\ pos \in Nat /\ actions \in Nat /\ actions' \in Nat /\ actions' # 0 /\ opened \in Nat
  BY <1>1, ConnectionIds, ScenarioAssumption, ConnectionsAssumption DEF ScenarioTypes, Where
<1>3. CASE UNCHANGED <<fields, calls, sockets, node, connections, opened, phase>>
  <2>1. UNCHANGED call /\ last' = NoResult
    BY <1>1, <1>3 DEF calls
  <2>2. /\ PipeInv' /\ Returning'
        /\ UNCHANGED <<handshake_complete, ping_counter, to_node, closed, peer>>
    BY <1>1, <1>2, <1>3, <2>1, BetweenCalls
  <2>3. ScenarioTypes' /\ Opened' /\ Where'
    BY <1>1, <1>2, <1>3, <2>2 DEF ScenarioTypes, Opened, Where, Setup
  <2>4. QED
    BY <1>1, <1>2, <1>3, <2>2, <2>3, ActingKeepsInv
<1>4. CASE /\ opened < MaxConnections /\ Connected(type)
           /\ \/ connections' = Append(connections, opened') /\ UNCHANGED phase
              \/ phase' = "joining" /\ UNCHANGED connections
  <2>1. opened' = opened + 1 /\ opened' \in Ids
    BY <1>2, <1>4, ConnectionsAssumption DEF Connected, Ids
  <2>2. PICK id \in Ids : id = opened' /\ id = opened + 1
    BY <2>1
  <2>3. id \notin ToSet(connections) /\ \A i \in DOMAIN connections : connections[i] < id
    BY <1>1, <1>2, <2>2, ConnectionIds DEF Opened, ToSet, Ids
  <2>4. /\ Append(connections, id) \in Seq(Ids)
        /\ Len(Append(connections, id)) = Len(connections) + 1
        /\ DOMAIN Append(connections, id) = 1..(Len(connections) + 1)
        /\ ToSet(connections) \subseteq ToSet(Append(connections, id))
        /\ Append(connections, id)[Len(connections) + 1] = id
        /\ \A i \in DOMAIN connections : Append(connections, id)[i] = connections[i]
        /\ \A i, j \in DOMAIN Append(connections, id) :
             Append(connections, id)[i] = Append(connections, id)[j] => i = j
    BY <1>1, <2>3, AppendedConnection
  <2>5. ToSet(connections) \subseteq ToSet(connections')
    BY <1>4, <2>2, <2>4
  <2>6. /\ PipeInv' /\ Returning' /\ UNCHANGED closed
        /\ \A j \in Ids : j > opened' => peer'[j] = "none"
    BY <1>1, <1>2, <1>4, <2>5, ConnectedStep
  <2>7. /\ connections' \in Seq(Ids)
        /\ Len(connections') \in Nat /\ Len(connections') >= Len(connections)
        /\ \A i \in DOMAIN connections' : connections'[i] <= id
        /\ \A i, j \in DOMAIN connections' : connections'[i] = connections'[j] => i = j
    <3>1. CASE connections' = Append(connections, id)
      <4>1. ASSUME NEW i \in DOMAIN connections' PROVE connections'[i] <= id
        <5>1. i \in DOMAIN connections \/ i = Len(connections) + 1
          BY <1>2, <2>4, <3>1
        <5>2. i \in DOMAIN connections => connections[i] < id /\ connections[i] \in Ids
          BY <1>1, <2>3, ConnectionIds
        <5>3. QED
          BY <2>4, <3>1, <5>1, <5>2, ConnectionsAssumption DEF Ids
      <4>2. QED
        BY <1>2, <2>4, <3>1, <4>1
    <3>2. CASE connections' = connections
      <4>1. \A i \in DOMAIN connections : connections[i] < id /\ connections[i] \in Ids
        BY <1>1, <2>3, ConnectionIds
      <4>2. \A i \in DOMAIN connections : connections[i] <= id
        BY <4>1, ConnectionsAssumption DEF Ids
      <4>3. QED
        BY <1>1, <1>2, <3>2, <4>2 DEF ScenarioTypes, Opened
    <3>3. QED
      BY <1>4, <2>2, <3>1, <3>2
  <2>8. phase' \in {"acting", "joining"} /\ (phase' = "joining" => connections' = connections)
    BY <1>1, <1>4
  <2>9. ScenarioTypes'
    BY <1>1, <1>2, <2>1, <2>7, <2>8, ConnectionsAssumption DEF ScenarioTypes, Phases, Ids
  <2>10. Opened'
    <3>1. closed' \subseteq 1..opened'
      BY <1>1, <1>2, <2>1, <2>6 DEF Opened
    <3>2. QED
      BY <2>2, <2>6, <2>7, <3>1 DEF Opened
  <2>11. Where'
    <3>1. pos' <= Len(connections') + NumBlocks + 1 /\ Len(connections') > 0 /\ opened' > 0
      BY <1>1, <1>2, <2>1, <2>7
    <3>2. phase' = "joining" => opened' \notin ToSet(connections') /\ actions' > 0
      BY <1>2, <2>2, <2>3, <2>8
    <3>3. QED
      BY <2>8, <3>1, <3>2 DEF Where, Setup
  <2>12. QED
    BY <1>2, <2>6, <2>8, <2>9, <2>10, <2>11, ActingKeepsInv
<1>5. QED
  BY <1>3, <1>4 DEF Connect


(* The end of ConnectAndHandshake.                                         *)
LEMMA JoinedKeepsInv ==
  ASSUME SInv, Joined
  PROVE  SInv'
<1>1. /\ ScenarioTypes /\ Opened /\ Where /\ Returning /\ PipeInv /\ PipeTypes /\ InCall
      /\ phase = "joining" /\ Returned /\ last' = NoResult /\ phase' = "acting"
      /\ UNCHANGED << fields, call, from_node, node, opened, pos, force_send_and_ping >>
      /\ UNCHANGED << recording_received_messages, probe_results, actions, raw >>
  BY DEF SInv, PipeInv, Joined
<1>2. /\ call = Idle /\ last # NoResult /\ call' = Idle
      /\ UNCHANGED <<connection_type, handshake_complete, ping_counter, peer, due, handled>>
  BY <1>1 DEF InCall, Returned, fields, node
<1>3. /\ Len(connections) \in Nat /\ DOMAIN connections = 1..Len(connections) /\ Len(connections) > 0
      /\ pos <= Len(connections) + NumBlocks + 1 /\ NumBlocks \in Nat /\ pos \in Nat
      /\ actions \in Nat /\ actions > 0 /\ opened \in Nat /\ opened > 0
      /\ opened \notin ToSet(connections)
  BY <1>1, ConnectionIds, ScenarioAssumption, ConnectionsAssumption DEF ScenarioTypes, Where
<1>4. PICK id \in Ids : id = opened
  BY <1>1, <1>3 DEF ScenarioTypes, Ids
<1>5. ~ last.ok => id \in closed
  <2>1. last.id = id
    BY <1>1, <1>4 DEF Returning, Doing
  <2>2. QED
    BY <1>1, <2>1 DEF Returning
<1>6. closed' = closed
  BY <1>4, <1>5 DEF Joined
<1>7. /\ Msg("sendcmpct", 0).cmd = "sendcmpct"
      /\ << Msg("sendcmpct", 0) >> \in Seq(Messages)
      /\ ToSet(<< Msg("sendcmpct", 0) >>) = { Msg("sendcmpct", 0) }
  <2>1. Msg("sendcmpct", 0).cmd = "sendcmpct" /\ Msg("sendcmpct", 0) \in Messages
    BY MsgType DEF Commands
  <2>2. QED
    BY <2>1, SingleSets
<1>8. Grown(id, << Msg("sendcmpct", 0) >>) /\ to_node' \in [Ids -> Seq(Messages)]
  <2>1. Sends(id, << Msg("sendcmpct", 0) >>) \/ UNCHANGED to_node
    BY <1>4 DEF Joined
  <2>2. QED
    BY <1>1, <1>7, <2>1, SendsEffect
<1>9. /\ connections' \in Seq(Ids) /\ ToSet(connections) \subseteq ToSet(connections')
      /\ Len(connections') \in Nat /\ Len(connections') >= Len(connections)
      /\ \A i \in DOMAIN connections' : connections'[i] <= opened
      /\ \A i, j \in DOMAIN connections' : connections'[i] = connections'[j] => i = j
  <2>1. CASE connections' = Append(connections, id)
    <3>1. /\ Append(connections, id) \in Seq(Ids)
          /\ Len(Append(connections, id)) = Len(connections) + 1
          /\ DOMAIN Append(connections, id) = 1..(Len(connections) + 1)
          /\ ToSet(connections) \subseteq ToSet(Append(connections, id))
          /\ Append(connections, id)[Len(connections) + 1] = id
          /\ \A i \in DOMAIN connections : Append(connections, id)[i] = connections[i]
          /\ \A i, j \in DOMAIN Append(connections, id) :
               Append(connections, id)[i] = Append(connections, id)[j] => i = j
      BY <1>1, <1>3, <1>4, AppendedConnection
    <3>2. ASSUME NEW i \in DOMAIN connections' PROVE connections'[i] <= opened
      <4>1. i \in DOMAIN connections \/ i = Len(connections) + 1
        BY <1>3, <2>1, <3>1
      <4>2. i \in DOMAIN connections => connections[i] <= opened
        BY <1>1 DEF Opened
      <4>3. QED
        BY <1>3, <1>4, <2>1, <3>1, <4>1, <4>2
    <3>3. QED
      BY <1>3, <2>1, <3>1, <3>2
  <2>2. CASE connections' = connections
    BY <1>1, <1>3, <2>2 DEF ScenarioTypes, Opened
  <2>3. QED
    BY <1>4, <2>1, <2>2 DEF Joined
<1>10. PipeTypes' /\ InCall' /\ Returning'
  BY <1>1, <1>2, <1>6, <1>8 DEF PipeTypes, InCall, Returning, Returned
<1>11. \A j \in Ids : force_send_and_ping /\ handshake_complete'[j] => Clean(j)
  BY <1>1, <1>2, CleanWhenIdle
<1>12. \A j \in Ids : ping_counter[j] <= ping_counter'[j]
  BY <1>1, <1>2 DEF PipeTypes
<1>13. PipeInv'
  BY <1>1, <1>2, <1>6, <1>7, <1>8, <1>9, <1>10, <1>11, <1>12, QuietStep
<1>14. ScenarioTypes' /\ Opened'
  BY <1>1, <1>2, <1>6, <1>9 DEF ScenarioTypes, Opened, Phases
<1>15. Where'
  BY <1>1, <1>3, <1>9 DEF Where, Setup
<1>16. QED
  BY <1>1, <1>3, <1>10, <1>13, <1>14, <1>15, ActingKeepsInv

(* Probe, and the return of a message of the testcase.                     *)
LEMMA ActingStepsKeepInv ==
  ASSUME SInv, Probe \/ ActionReturned
  PROVE  SInv'
<1>1. /\ ScenarioTypes /\ Opened /\ Where /\ HandshakesDone /\ Announced /\ PipeInv /\ InCall
      /\ PipeTypes /\ phase = "acting" /\ last' = NoResult
      /\ UNCHANGED <<fields, call, sockets, node, connections, opened, phase, pos>>
      /\ UNCHANGED <<force_send_and_ping, actions, raw>>
  BY DEF SInv, PipeInv, Probe, ActionReturned, Ready, calls
<1>2. call = Idle
  BY <1>1 DEF InCall, Probe, Ready, ActionReturned, Returned
<1>3. /\ PipeInv' /\ Returning'
      /\ UNCHANGED <<handshake_complete, ping_counter, to_node, closed, peer>>
  BY <1>1, <1>2, BetweenCalls
<1>4. recording_received_messages' \in BOOLEAN /\ probe_results' \in Seq(Messages)
  <2>1. recording_received_messages \in BOOLEAN /\ probe_results \in Seq(Messages)
    BY <1>1 DEF ScenarioTypes
  <2>2. CASE Probe
    BY <2>1, <2>2 DEF Probe
  <2>3. CASE ActionReturned
    <3>1. last.ret \in Seq(Messages)
      BY <1>1, <2>3 DEF PipeTypes, Result, ActionReturned, Returned
    <3>2. Asked(last.ret) \in Seq(Messages)
      BY <3>1, AskedType
    <3>3. QED
      BY <2>1, <2>3, <3>2, ConcatSets DEF ActionReturned
  <2>4. QED
    BY <2>2, <2>3
<1>5. ScenarioTypes' /\ Opened' /\ Where'
  BY <1>1, <1>3, <1>4 DEF ScenarioTypes, Opened, Where
<1>6. HandshakesDone' /\ Announced' /\ Pinged'
  BY <1>1, <1>3 DEF HandshakesDone, Announced, Pinged, Unprocessed
<1>7. QED
  BY <1>3, <1>5, <1>6 DEF SInv

(* The end of the testcase.                                                *)
LEMMA FinalStepsKeepInv ==
  ASSUME SInv, PingConnections \/ PingReturned
  PROVE  SInv'
<1>1. /\ ScenarioTypes /\ Opened /\ Where /\ Returning /\ Pinged /\ PipeInv /\ InCall
      /\ UNCHANGED <<connections, opened, force_send_and_ping, actions, raw>>
      /\ UNCHANGED <<recording_received_messages, probe_results>>
  BY DEF SInv, PipeInv, PingConnections, PingReturned
<1>2. /\ Len(connections) \in Nat /\ DOMAIN connections = 1..Len(connections)
      /\ pos \in Nat /\ pos # 0 /\ NumBlocks \in Nat /\ NumBlocks # 0
  BY <1>1, ConnectionIds, ScenarioAssumption DEF ScenarioTypes
<1>3. CASE phase = "final" /\ pos <= Len(connections) /\ ping(Current) /\ UNCHANGED <<phase, pos>>
  BY <1>1, <1>3, FinalPingKeepsInv DEF scenario
<1>4. CASE /\ UNCHANGED <<fields, call, sockets, node>> /\ last' = NoResult /\ call = Idle
           /\ \/ phase = "acting" /\ phase' = "final" /\ pos' = 1
              \/ phase = "final" /\ phase' = "done" /\ pos' = pos /\ pos > Len(connections)
              \/ phase = "final" /\ phase' = "final" /\ pos' = pos + 1 /\ Returned
  <2>1. /\ PipeInv' /\ Returning'
        /\ UNCHANGED <<handshake_complete, ping_counter, to_node, closed, peer>>
    BY <1>1, <1>4, BetweenCalls
  <2>2. phase' \in {"final", "done"} /\ pos' \in Nat \ {0} /\ Len(connections) > 0
    BY <1>1, <1>2, <1>4 DEF Where
  <2>3. ScenarioTypes' /\ Opened'
    BY <1>1, <1>4, <2>1, <2>2 DEF ScenarioTypes, Opened, Phases
  <2>4. phase = "final" /\ Returned => pos <= Len(connections) /\ Settled(connections[pos])
    BY <1>1 DEF Returning, Doing, Pinged, Current
  <2>5. phase = "final" => pos <= Len(connections) + 1
    BY <1>1 DEF Where
  <2>6. /\ phase' = "final" => pos' <= Len(connections) + 1
        /\ pos' <= Len(connections) + NumBlocks + 1
    BY <1>2, <1>4, <2>2, <2>4, <2>5
  <2>7. Where'
    BY <1>1, <2>2, <2>6 DEF Where, Setup
  <2>8. ASSUME NEW i \in DOMAIN connections, (phase' = "final" /\ i < pos') \/ phase' = "done"
        PROVE  Settled(connections[i])
    <3>1. phase = "final" => (i < pos => Settled(connections[i]))
      BY <1>1 DEF Pinged
    <3>2. i \in Nat /\ i >= 1 /\ i <= Len(connections)
      BY <1>2
    <3>3. CASE phase = "acting" /\ phase' = "final" /\ pos' = 1
      BY <2>8, <3>2, <3>3
    <3>4. CASE phase = "final" /\ phase' = "done" /\ pos' = pos /\ pos > Len(connections)
      BY <1>2, <3>1, <3>2, <3>4
    <3>5. CASE phase = "final" /\ phase' = "final" /\ pos' = pos + 1 /\ Returned
      <4>1. i < pos \/ i = pos
        BY <1>2, <2>8, <3>2, <3>5
      <4>2. QED
        BY <2>4, <3>1, <3>5, <4>1
    <3>6. QED
      BY <1>4, <3>3, <3>4, <3>5
  <2>9. Pinged'
    <3>1. ~ Returned'
      BY <1>4 DEF Returned
    <3>2. QED
      BY <1>1, <2>1, <2>8, <3>1 DEF Pinged, Settled, Synced, Unprocessed, Forged
  <2>10. HandshakesDone' /\ Announced'
    BY <2>2 DEF HandshakesDone, Announced
  <2>11. QED
    BY <2>1, <2>3, <2>7, <2>9, <2>10 DEF SInv
<1>5. QED
  <2>1. CASE PingConnections
    BY <1>3, <1>4, <2>1 DEF PingConnections, Ready, calls
  <2>2. CASE PingReturned
    <3>1. call = Idle
      BY <1>1, <2>2 DEF PingReturned, InCall, Returned
    <3>2. QED
      BY <1>4, <2>2, <3>1 DEF PingReturned
  <2>3. QED
    BY <2>1, <2>2


(* A step that changes nothing.                                            *)
LEMMA StutterKeepsInv ==
  ASSUME SInv, UNCHANGED vars
  PROVE  SInv'
<1>1. /\ UNCHANGED <<connection_type, handshake_complete, ping_counter, call, last>>
      /\ UNCHANGED <<to_node, from_node, closed, peer, due, handled>>
      /\ UNCHANGED <<connections, opened, phase, pos, force_send_and_ping>>
      /\ UNCHANGED <<recording_received_messages, probe_results, actions, raw>>
  BY DEF vars, fields, calls, sockets, node, scenario
<1>2. PipeTypes' /\ NodeKeepsUp'
  BY <1>1 DEF SInv, PipeInv, PipeTypes, NodeKeepsUp
<1>3. InCall' /\ Untouched'
  BY <1>1 DEF SInv, PipeInv, InCall, Doing, Current, Untouched, NoData
<1>4. NoncesKnown' /\ QuietBetweenCalls'
  BY <1>1 DEF SInv, PipeInv, NoncesKnown, QuietBetweenCalls, PingsAtMost, NoData, Waiting
<1>5. PongWaitedFor' /\ AsksAboutItsMessage'
  BY <1>1 DEF SInv, PipeInv, PongWaitedFor, AsksAboutItsMessage, Forged, PongIsLast, AskedAbout,
              Returned
<1>6. ScenarioTypes' /\ Opened' /\ Where'
  BY <1>1 DEF SInv, ScenarioTypes, Opened, Where
<1>7. Returning' /\ HandshakesDone' /\ Announced' /\ Pinged'
  BY <1>1 DEF SInv, Returning, Returned, Doing, Current, HandshakesDone, Announced, Pinged, Settled,
              Synced, Unprocessed, Forged
<1>8. QED
  BY <1>2, <1>3, <1>4, <1>5, <1>6, <1>7 DEF SInv, PipeInv

-----------------------------------------------------------------------------
(* The invariant holds at the start.                                       *)
LEMMA InitInv ==
  ASSUME Init
  PROVE  SInv
<1>1. /\ connection_type = [id \in Ids |-> "Inbound"]
      /\ handshake_complete = [id \in Ids |-> FALSE] /\ ping_counter = [id \in Ids |-> 0]
      /\ call = Idle /\ last = NoResult
      /\ to_node = [id \in Ids |-> <<>>] /\ from_node = [id \in Ids |-> <<>>] /\ closed = {}
      /\ peer = [id \in Ids |-> "none"] /\ due = [id \in Ids |-> <<>>] /\ handled = Nobody
      /\ connections = <<>> /\ opened = 0 /\ phase = "connecting" /\ pos = 1
      /\ force_send_and_ping \in BOOLEAN /\ recording_received_messages = FALSE
      /\ probe_results = <<>> /\ actions = 0 /\ raw = [id \in Ids |-> {}]
  BY DEF Init, InitConnections
<1>2. /\ ToSet(<<>>) = {} /\ <<>> \in Seq(Messages) /\ <<>> \in Seq(Ids) /\ Len(<<>>) = 0
      /\ DOMAIN <<>> = {}
  BY EmptySets
<1>3. PipeTypes
  BY <1>1, <1>2 DEF PipeTypes, ConnectionType
<1>4. NodeKeepsUp /\ InCall /\ Untouched /\ NoncesKnown /\ QuietBetweenCalls
  BY <1>1, <1>2 DEF NodeKeepsUp, InCall, Untouched, NoData, NoncesKnown, PingsAtMost,
                    QuietBetweenCalls
<1>5. PongWaitedFor /\ AsksAboutItsMessage /\ Returning
  BY <1>1 DEF PongWaitedFor, AsksAboutItsMessage, Returning, Returned
<1>6. ScenarioTypes /\ Opened
  <2>1. 0 \in 0..MaxConnections /\ 1 \in Nat \ {0}
    BY ConnectionsAssumption
  <2>2. raw \in [Ids -> SUBSET Nat] /\ recording_received_messages \in BOOLEAN
    BY <1>1
  <2>3. ScenarioTypes
    BY <1>1, <1>2, <2>1, <2>2 DEF ScenarioTypes, Phases
  <2>4. QED
    BY <1>1, <1>2, <2>3 DEF Opened
<1>7. Where
  BY <1>1, <1>2, ScenarioAssumption, ConnectionsAssumption DEF Where, Setup
<1>8. HandshakesDone /\ Announced /\ Pinged
  BY <1>1 DEF HandshakesDone, Announced, Pinged
<1>9. QED
  BY <1>3, <1>4, <1>5, <1>6, <1>7, <1>8 DEF SInv, PipeInv

(* Every step of the scenario and of the node keeps it.                    *)
LEMMA NextKeepsInv ==
  ASSUME SInv, [Next]_vars
  PROVE  SInv'
<1>1. CASE UNCHANGED vars
  BY <1>1, StutterKeepsInv
<1>2. CASE Thread
  <2>1. CASE ConnectAll
    BY <2>1, ConnectAllKeepsInv
  <2>2. CASE SetupCall
    BY <2>2, SetupCallKeepsInv
  <2>3. CASE SetupReturned
    BY <2>3, SetupReturnedKeepsInv
  <2>4. CASE Probe \/ ActionReturned
    BY <2>4, ActingStepsKeepInv
  <2>5. CASE \E type \in ConnectionType : Connect(type)
    BY <2>5, ConnectKeepsInv
  <2>6. CASE Join
    BY <2>6, JoinKeepsInv
  <2>7. CASE Joined
    BY <2>7, JoinedKeepsInv
  <2>8. CASE \E dst \in ToSet(connections), m \in ProgramMessages : SendRawMessage(dst, m)
    BY <2>8, SendRawKeepsInv
  <2>9. CASE PingConnections \/ PingReturned
    BY <2>9, FinalStepsKeepInv
  <2>10. CASE Calls /\ UNCHANGED scenario
    BY <2>10, CallsKeepInv
  <2>11. QED
    BY <1>2, <2>1, <2>2, <2>3, <2>4, <2>5, <2>6, <2>7, <2>8, <2>9, <2>10 DEF Thread
<1>3. CASE \E id \in Ids : Handles(id) \/ Drops(id)
  BY <1>3, NodeKeepsInv
<1>4. QED
  BY <1>1, <1>2, <1>3 DEF Next

(* SInv is an invariant of the scenario.                                   *)
LEMMA Invariance == Spec => []SInv
<1>1. Init => SInv
  BY InitInv
<1>2. SInv /\ [Next]_vars => SInv'
  BY NextKeepsInv
<1>3. QED
  BY <1>1, <1>2, PTL DEF Spec

-----------------------------------------------------------------------------
(* The types, and the sockets that are open.                               *)
LEMMA InvTypes ==
  ASSUME SInv
  PROVE  TypeOK
<1>1. PipeTypes /\ ScenarioTypes /\ Opened /\ Where /\ InCall
  BY DEF SInv, PipeInv
<1>2. /\ Len(connections) \in Nat /\ DOMAIN connections = 1..Len(connections)
      /\ \A i \in DOMAIN connections : connections[i] \in Ids
  BY <1>1, ConnectionIds
<1>3. ToSet(connections) \subseteq 1..opened
  BY <1>1, <1>2, ConnectionsAssumption DEF ToSet, Opened, Ids, ScenarioTypes
<1>4. IsInjective(connections)
  BY <1>1 DEF IsInjective, Opened
<1>5. ASSUME NEW id \in Ids
      PROVE  /\ ToSet(to_node[id]) \cup ToSet(from_node[id]) \cup ToSet(due[id]) \subseteq Messages
             /\ id > opened => peer[id] = "none"
  <2>1. /\ to_node[id] \in Seq(Messages) /\ from_node[id] \in Seq(Messages)
        /\ due[id] \in Seq(Messages)
    BY <1>1 DEF PipeTypes
  <2>2. QED
    BY <1>1, <2>1, ToSetType DEF Opened
<1>6. ASSUME call # Idle
      PROVE  /\ call.id \in 1..opened /\ Returned = FALSE
             /\ \A m \in ToSet(call.ret) : m \in Messages /\ m.cmd # "pong"
  <2>1. /\ call.ret \in Seq(Messages) /\ Doing(call.op, call.id) /\ last = NoResult
        /\ \A m \in ToSet(call.ret) : m.cmd # "pong"
    BY <1>1, <1>6, CallTypes DEF InCall
  <2>2. call.id \in ToSet(connections) \/ (call.id = opened /\ opened > 0)
    <3>1. /\ \A i \in DOMAIN connections : connections[i] \in ToSet(connections)
          /\ pos \in Nat /\ pos # 0
      BY <1>1, ConnectionIds DEF ScenarioTypes
    <3>2. CASE phase \in {"handshaking", "greeting", "pinging", "announcing", "final"}
               /\ call.id = connections[pos]
      <4>1. pos <= Len(connections)
        BY <1>1, <2>1, <3>2 DEF Doing, Where
      <4>2. QED
        BY <1>2, <3>1, <3>2, <4>1
    <3>3. CASE phase = "mining" /\ call.id = connections[1]
      BY <1>1, <1>2, <3>1, <3>3 DEF Where
    <3>4. CASE phase = "joining" /\ call.id = opened
      BY <1>1, <3>4 DEF Where
    <3>5. QED
      BY <2>1, <3>2, <3>3, <3>4 DEF Doing, Current
  <2>3. QED
    BY <1>1, <1>3, <2>1, <2>2, ToSetType, ConnectionsAssumption DEF Returned, ScenarioTypes
<1>7. pos \in 1..(Len(connections) + NumBlocks + 1)
  BY <1>1, <1>2, ScenarioAssumption DEF Where, ScenarioTypes
<1>8. ToSet(probe_results) \subseteq Messages
  BY <1>1, ToSetType DEF ScenarioTypes
<1>9. QED
  BY <1>1, <1>3, <1>4, <1>5, <1>6, <1>7, <1>8 DEF TypeOK, PipeTypes, Opened, ScenarioTypes

(* A roundtrip leaves nothing unprocessed.                                 *)
LEMMA InvProcessed ==
  ASSUME SInv
  PROVE  AllProcessed
<1>1. ScenarioTypes /\ Returning /\ HandshakesDone /\ Announced /\ Pinged
  BY DEF SInv
<1>2. Returned /\ last.op = "send_and_recv" /\ last.ok => Synced(last.id)
  BY <1>1 DEF Returning
<1>3. \A id \in ToSet(connections) : \E i \in DOMAIN connections : id = connections[i]
  BY DEF ToSet
<1>4. phase = "acting" /\ actions = 0 =>
        \A id \in ToSet(connections) : handshake_complete[id] /\ Unprocessed(id) = {}
  BY <1>1, <1>3 DEF HandshakesDone, Announced
<1>5. phase = "done" =>
        \A id \in ToSet(connections) :
          Synced(id) \/ (~ force_send_and_ping /\ ping_counter[id] \in raw[id])
  BY <1>1, <1>3 DEF Pinged, Settled, Forged
<1>6. QED
  BY <1>2, <1>4, <1>5 DEF AllProcessed

(* The target's questions come with the call they are about.               *)
LEMMA InvAnswers ==
  ASSUME SInv
  PROVE  AnswersInTheirCall
<1>1. /\ ScenarioTypes /\ Where /\ Returning /\ InCall /\ Untouched /\ QuietBetweenCalls
      /\ AsksAboutItsMessage
  BY DEF SInv, PipeInv
<1>2. SUFFICES ASSUME Returned, last.op = "send_and_recv", last.ok
               PROVE  /\ \A m \in ToSet(last.ret) : m.cmd = "getblocktxn" => m.arg = actions
                      /\ handshake_complete[last.id] =>
                           \A m \in ToSet(from_node[last.id]) \cup ToSet(due[last.id]) :
                             m.cmd # "getblocktxn"
  BY DEF AnswersInTheirCall
<1>3. \A m \in ToSet(last.ret) : m.cmd = "getblocktxn" => m.arg = actions
  BY <1>1, <1>2 DEF AsksAboutItsMessage, AskedAbout
<1>4. Doing(last.op, last.id) /\ call = Idle
  BY <1>1, <1>2 DEF Returning, InCall, Returned
<1>5. last.id \in Ids
  BY <1>1, <1>4, DoingIds
<1>6. force_send_and_ping \/ actions = 0
  BY <1>1, <1>2, <1>4 DEF Doing, Where, Setup
<1>7. handshake_complete[last.id] => NoData(last.id)
  BY <1>1, <1>4, <1>5, <1>6 DEF QuietBetweenCalls, Waiting, Untouched
<1>8. QED
  BY <1>3, <1>7 DEF NoData

(* Whatever the number of connections, blocks and actions, the scenario's  *)
(* state keeps its types, every call is on an open socket, and what a call *)
(* has recorded are messages other than pongs.                             *)
THEOREM TypeCorrect == Spec => []TypeOK
<1>1. SInv => TypeOK
  BY InvTypes
<1>2. QED
  BY <1>1, Invariance, PTL

(* A send_and_recv that succeeded, the setup, and the pings at the end of  *)
(* a testcase leave no message unprocessed on a connection whose handshake *)
(* is complete (generic.rs:62), for every nonce the program may send.      *)
THEOREM RoundtripsProcess == Spec => []AllProcessed
<1>1. SInv => AllProcessed
  BY InvProcessed
<1>2. QED
  BY <1>1, Invariance, PTL

(* What a call has recorded was asked about the message of that call, and  *)
(* nothing that was asked about it comes after its return (ir.rs:358).     *)
THEOREM AnswersStayInTheirCall == Spec => []AnswersInTheirCall
<1>1. SInv => AnswersInTheirCall
  BY InvAnswers
<1>2. QED
  BY <1>1, Invariance, PTL
=============================================================================
