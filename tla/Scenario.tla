------------------------------- MODULE Scenario -------------------------------
(***************************************************************************)
(* The setup of the generic scenario and the run of one testcase of it or  *)
(* of the IR scenario, on the connections of Connections.  The target and  *)
(* the content of blocks and messages are external: a message of the       *)
(* program is known by the number of its action.                           *)
(***************************************************************************)
EXTENDS Connections

CONSTANTS
  SetupConnections,   \* the types of the connections of from_target, in order
  NumBlocks,          \* blocks mined by the setup
  MaxActions,         \* actions of a testcase, Probe not counted
  RawNonces           \* nonces of the pings that a testcase may send itself

ASSUME ScenarioAssumption ==
  /\ SetupConnections \in Seq(ConnectionType) /\ Len(SetupConnections) \in 1..MaxConnections
  /\ NumBlocks \in Nat \ {0} /\ MaxActions \in Nat /\ RawNonces \subseteq Nat

VARIABLES
  connections,                  \* of the scenario, by their sockets
  opened,                       \* the sockets that were ever opened
  phase, pos,                   \* where the scenario is, and at which connection or block
  force_send_and_ping,          \* the feature it was compiled with
  recording_received_messages,
  probe_results,
  actions,                      \* how many actions of the testcase are processed
  raw                           \* auxiliary: the nonces of the program's own pings

scenario == <<connections, opened, phase, pos, force_send_and_ping, recording_received_messages,
              probe_results, actions, raw>>

vars == <<fields, calls, sockets, node, scenario>>

Init ==
  /\ InitConnections
  /\ connections = <<>> /\ opened = 0
  /\ phase = "connecting" /\ pos = 1
  /\ force_send_and_ping \in BOOLEAN
  /\ recording_received_messages = FALSE /\ probe_results = <<>>
  /\ actions = 0
  /\ raw = [id \in Ids |-> {}]

Ready == call = Idle /\ last = NoResult
Returned == last # NoResult

-----------------------------------------------------------------------------
(* from_target.                                                            *)
Connected(type) ==
  /\ opened' = opened + 1
  /\ Accept(opened', type)
  /\ UNCHANGED <<handshake_complete, ping_counter, calls, to_node, closed, due, handled>>

(* Where the setup goes on once a call has returned.                       *)
NextPhase ==
  CASE phase = "connecting"  -> IF pos < Len(SetupConnections) THEN <<phase, pos + 1>> ELSE <<"handshaking", 1>>
    [] phase = "handshaking" -> <<"greeting", pos>>
    [] phase = "greeting"    -> IF pos < Len(connections) THEN <<"handshaking", pos + 1>> ELSE <<"mining", 1>>
    [] phase = "mining"      -> IF pos < NumBlocks THEN <<phase, pos + 1>> ELSE <<"pinging", 1>>
    [] phase = "pinging"     -> IF pos < Len(connections) THEN <<phase, pos + 1>> ELSE <<"announcing", 1>>
    [] phase = "announcing"  -> IF pos < Len(connections) THEN <<phase, pos + 1>> ELSE <<"acting", 1>>

ConnectAll ==
  /\ phase = "connecting"
  /\ \/ /\ Connected(SetupConnections[pos])
        /\ connections' = Append(connections, opened')
        /\ phase' = NextPhase[1] /\ pos' = NextPhase[2]
     \/ /\ phase' = "failed"
        /\ UNCHANGED <<fields, calls, sockets, node, connections, opened, pos>>
  /\ UNCHANGED <<force_send_and_ping, recording_received_messages, probe_results, actions, raw>>

Current == connections[pos]

SetupCall ==
  /\ Ready
  /\ \/ phase = "handshaking" /\ version_handshake(Current)
     \/ phase = "greeting" /\ send(Current, Msg("sendcmpct", 0))
     \/ phase = "mining" /\ send(connections[1], Msg("block", pos))
     \/ phase = "pinging" /\ ping(Current)
     \/ phase = "announcing" /\ send_and_recv(Current, Msg("inv", 0), FALSE)
  /\ UNCHANGED scenario

(* Every error of a call ends the setup.                                   *)
SetupReturned ==
  /\ Returned /\ phase \in {"handshaking", "greeting", "mining", "pinging", "announcing"}
  /\ last' = NoResult
  /\ IF last.ok THEN phase' = NextPhase[1] /\ pos' = NextPhase[2]
     ELSE phase' = "failed" /\ UNCHANGED pos
  /\ UNCHANGED << fields, call, sockets, node, connections, opened, force_send_and_ping,
                  recording_received_messages, probe_results, actions, raw >>

-----------------------------------------------------------------------------
(* process_actions.                                                        *)
Acts == Ready /\ phase = "acting" /\ actions < MaxActions /\ actions' = actions + 1

(* Probe comes first, if at all, and is not counted.                       *)
Probe ==
  /\ Ready /\ phase = "acting" /\ actions = 0
  /\ recording_received_messages' = TRUE
  /\ UNCHANGED << fields, calls, sockets, node, connections, opened, phase, pos, force_send_and_ping,
                  probe_results, actions, raw >>

Connect(type) ==
  /\ Acts
  /\ \/ /\ opened < MaxConnections
        /\ Connected(type)
        /\ \/ connections' = Append(connections, opened') /\ UNCHANGED phase
           \/ phase' = "joining" /\ UNCHANGED connections
     \/ UNCHANGED <<fields, calls, sockets, node, connections, opened, phase>>
  /\ UNCHANGED <<pos, force_send_and_ping, recording_received_messages, probe_results, raw>>

(* The rest of ConnectAndHandshake: a connection whose handshake failed is *)
(* dropped, the others may announce compact blocks.                        *)
Join ==
  /\ phase = "joining" /\ Ready
  /\ version_handshake(opened)
  /\ UNCHANGED scenario

Joined ==
  /\ phase = "joining" /\ Returned
  /\ last' = NoResult
  /\ phase' = "acting"
  /\ IF last.ok
     THEN /\ connections' = Append(connections, opened)
          /\ Sends(opened, << Msg("sendcmpct", 0) >>) \/ UNCHANGED to_node
          /\ UNCHANGED closed
     ELSE /\ closed' = closed \cup {opened}
          /\ UNCHANGED <<connections, to_node>>
  /\ UNCHANGED << fields, call, from_node, node, opened, pos, force_send_and_ping,
                  recording_received_messages, probe_results, actions, raw >>

ProgramMessages == { Msg("data", actions + 1) } \cup { Msg("ping", n) : n \in RawNonces }

SendRawMessage(dst, m) ==
  /\ Acts
  /\ IF force_send_and_ping THEN send_and_recv(dst, m, recording_received_messages) ELSE send(dst, m)
  /\ raw' = IF m.cmd = "ping" THEN [raw EXCEPT ![dst] = @ \cup {m.arg}] ELSE raw
  /\ UNCHANGED << connections, opened, phase, pos, force_send_and_ping, recording_received_messages,
                  probe_results >>

(* message_filter *)
Asked(ret) ==
  LET upTo[i \in 0..Len(ret)] ==
        IF i = 0 THEN <<>>
        ELSE IF ret[i].cmd = "getblocktxn" THEN Append(upTo[i - 1], ret[i]) ELSE upTo[i - 1]
  IN  upTo[Len(ret)]

(* Errors are ignored; only what came with the last call is reported.      *)
ActionReturned ==
  /\ phase = "acting" /\ Returned
  /\ last' = NoResult
  /\ probe_results' = IF last.ok THEN probe_results \o Asked(last.ret) ELSE probe_results
  /\ UNCHANGED << fields, call, sockets, node, connections, opened, phase, pos, force_send_and_ping,
                  recording_received_messages, actions, raw >>

(* The end of the testcase: every connection is pinged, then the target is *)
(* asked whether it is alive.                                              *)
PingConnections ==
  /\ Ready
  /\ \/ /\ phase = "acting"
        /\ phase' = "final" /\ pos' = 1
        /\ UNCHANGED <<fields, calls, sockets, node>>
     \/ /\ phase = "final" /\ pos <= Len(connections)
        /\ ping(Current)
        /\ UNCHANGED <<phase, pos>>
     \/ /\ phase = "final" /\ pos > Len(connections)
        /\ phase' = "done"
        /\ UNCHANGED <<fields, calls, sockets, node, pos>>
  /\ UNCHANGED << connections, opened, force_send_and_ping, recording_received_messages, probe_results,
                  actions, raw >>

PingReturned ==
  /\ phase = "final" /\ Returned
  /\ last' = NoResult
  /\ pos' = pos + 1
  /\ UNCHANGED << fields, call, sockets, node, connections, opened, phase, force_send_and_ping,
                  recording_received_messages, probe_results, actions, raw >>

-----------------------------------------------------------------------------
(* The thread of the scenario and the node's message handler.              *)
Thread ==
  \/ ConnectAll \/ SetupCall \/ SetupReturned
  \/ Probe \/ (\E type \in ConnectionType : Connect(type)) \/ Join \/ Joined
  \/ \E dst \in ToSet(connections), m \in ProgramMessages : SendRawMessage(dst, m)
  \/ ActionReturned \/ PingConnections \/ PingReturned
  \/ Calls /\ UNCHANGED scenario

Handles(id) == (ProcessMessages(id) \/ SendMessages(id)) /\ UNCHANGED scenario

Drops(id) == Disconnect(id) /\ UNCHANGED scenario

Next == Thread \/ \E id \in Ids : Handles(id) \/ Drops(id)

Spec == Init /\ [][Next]_vars

(* The thread goes on, and the message handler serves every peer.          *)
FairSpec == Spec /\ WF_vars(Thread) /\ \A id \in Ids : WF_vars(Handles(id))

-----------------------------------------------------------------------------
Commands == {"version", "verack", "sendcmpct", "block", "data", "inv", "getblocktxn", "ping", "pong"}

Messages == [cmd : Commands, arg : Nat]

TypeOK ==
  /\ connection_type \in [Ids -> ConnectionType] /\ handshake_complete \in [Ids -> BOOLEAN]
  /\ ping_counter \in [Ids -> Nat]
  /\ ToSet(connections) \subseteq 1..opened /\ opened \in 0..MaxConnections /\ IsInjective(connections)
  /\ \A id \in Ids : /\ ToSet(to_node[id]) \cup ToSet(from_node[id]) \cup ToSet(due[id]) \subseteq Messages
                     /\ id > opened => peer[id] = "none"
  /\ closed \subseteq 1..opened /\ handled \in {Nobody} \cup Ids
  /\ call # Idle => /\ call.id \in 1..opened /\ Returned = FALSE
                    /\ \A m \in ToSet(call.ret) : m \in Messages /\ m.cmd # "pong"
  /\ pos \in 1..(Len(connections) + NumBlocks + 1)
  /\ ToSet(probe_results) \subseteq Messages

(* What the scenario has sent, pings left aside, and the node not read.    *)
Unprocessed(id) == { m \in ToSet(to_node[id]) : m.cmd # "ping" }

Synced(id) == handshake_complete[id] => Unprocessed(id) = {}

(* "ensures all sent messages are processed through a ping/pong roundtrip" *)
(* (generic.rs:62): a send_and_recv that succeeded leaves nothing          *)
(* unprocessed on its connection; neither do the setup on any of its, nor  *)
(* the pings at the end of a testcase.  The program may forge that last    *)
(* answer if nothing else waits for one: it sends a ping itself, with the  *)
(* nonce that the scenario will use.                                       *)
AllProcessed ==
  /\ Returned /\ last.op = "send_and_recv" /\ last.ok => Synced(last.id)
  /\ phase = "acting" /\ actions = 0 =>
       \A id \in ToSet(connections) : handshake_complete[id] /\ Unprocessed(id) = {}
  /\ phase = "done" =>
       \A id \in ToSet(connections) : Synced(id) \/ (~ force_send_and_ping /\ ping_counter[id] \in raw[id])

(* The target's questions are mapped to the action that was last processed *)
(* (ir.rs:358): what a call has recorded was asked about the message of    *)
(* that call, and once it has returned none of its answers is outstanding. *)
AnswersInTheirCall ==
  Returned /\ last.op = "send_and_recv" /\ last.ok =>
    /\ \A m \in ToSet(last.ret) : m.cmd = "getblocktxn" => m.arg = actions
    /\ handshake_complete[last.id] =>
         \A m \in ToSet(from_node[last.id]) \cup ToSet(due[last.id]) : m.cmd # "getblocktxn"

(* "to avoid hanging indefinitely" (connections.rs:354): whatever the      *)
(* program sends, and whenever the node drops a peer, the testcase ends.   *)
EveryRunEnds == <>(phase \in {"done", "failed"})
=============================================================================
