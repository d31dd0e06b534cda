------------------------------ MODULE Connections ------------------------------
(***************************************************************************)
(* The connections of a scenario to the target node.  The scenario is a    *)
(* single thread: it is in at most one call of a connection, which sends   *)
(* its messages and then receives until the message it waits for is in.    *)
(* Each connection carries messages in order, both ways, until it is       *)
(* closed.  The node is external: its message handler takes one message of *)
(* a peer, answers it, and then sends what has become due to that peer.    *)
(***************************************************************************)
EXTENDS Naturals, Sequences, SequencesExt

CONSTANTS MaxConnections      \* sockets that may be opened in one execution

ASSUME ConnectionsAssumption == MaxConnections \in Nat \ {0}

Ids == 1..MaxConnections
ConnectionType == {"Inbound", "Outbound"}

VARIABLES
  connection_type, handshake_complete, ping_counter,      \* the fields of a Connection
  call,                         \* the call that the scenario is in
  last,                         \* and the result of the one before
  to_node, from_node,           \* what is under way on each socket
  closed,                       \* sockets that the node has closed
  peer,                         \* the node's state of each socket
  due,                          \* what the node will send with its next SendMessages
  handled                       \* the peer whose ProcessMessages awaits SendMessages

fields == <<connection_type, handshake_complete, ping_counter>>
calls == <<call, last>>
sockets == <<to_node, from_node, closed>>
node == <<peer, due, handled>>

Idle == [op |-> "none"]
NoResult == [op |-> "none"]
Nobody == 0

Msg(cmd, arg) == [cmd |-> cmd, arg |-> arg]

InitConnections ==
  /\ connection_type = [id \in Ids |-> "Inbound"]
  /\ handshake_complete = [id \in Ids |-> FALSE]
  /\ ping_counter = [id \in Ids |-> 0]
  /\ call = Idle /\ last = NoResult
  /\ to_node = [id \in Ids |-> <<>>] /\ from_node = [id \in Ids |-> <<>>]
  /\ closed = {}
  /\ peer = [id \in Ids |-> "none"]
  /\ due = [id \in Ids |-> <<>>]
  /\ handled = Nobody

-----------------------------------------------------------------------------
(* The node.  It speaks first on a connection that it opened.              *)
Accept(id, type) ==
  /\ connection_type' = [connection_type EXCEPT ![id] = type]
  /\ peer' = [peer EXCEPT ![id] = "connected"]
  /\ from_node' = [from_node EXCEPT ![id] = IF type = "Outbound" THEN << Msg("version", 0) >> ELSE <<>>]

Versions(id) ==
  IF connection_type[id] = "Inbound" THEN << Msg("version", 0), Msg("verack", 0) >>
  ELSE << Msg("verack", 0) >>

Established == { id \in Ids : peer[id] = "established" }

Relays(ids) == [ id \in Ids |-> IF id \in ids THEN Append(due[id], Msg("inv", 0)) ELSE due[id] ]

(* Only a message of the program is asked back about, at once or with the  *)
(* next SendMessages; a block is announced to some of the other peers.     *)
Answer(id, m) ==
  \/ /\ m.cmd = "data"
     /\ \/ UNCHANGED <<from_node, due>>
        \/ /\ from_node' = [from_node EXCEPT ![id] = Append(@, Msg("getblocktxn", m.arg))]
           /\ UNCHANGED due
        \/ /\ due' = [due EXCEPT ![id] = Append(@, Msg("getblocktxn", m.arg))]
           /\ UNCHANGED from_node
  \/ /\ m.cmd = "block"
     /\ due' = Relays(Established \ {id})
     /\ UNCHANGED from_node
  \/ /\ m.cmd = "ping"
     /\ from_node' = [from_node EXCEPT ![id] = Append(@, Msg("pong", m.arg))]
     /\ UNCHANGED due
  \/ /\ m.cmd \notin {"data", "block", "ping"}
     /\ UNCHANGED <<from_node, due>>

(* Before its handshake the node takes only what belongs to it.            *)
ProcessMessages(id) ==
  /\ handled = Nobody /\ id \notin closed /\ to_node[id] # <<>>
  /\ to_node' = [to_node EXCEPT ![id] = Tail(@)]
  /\ handled' = id
  /\ LET m == Head(to_node[id])
     IN  \/ /\ peer[id] = "connected" /\ m.cmd = "version"
            /\ peer' = [peer EXCEPT ![id] = "versioned"]
            /\ from_node' = [from_node EXCEPT ![id] = @ \o Versions(id)]
            /\ UNCHANGED due
         \/ /\ peer[id] = "versioned" /\ m.cmd = "verack"
            /\ peer' = [peer EXCEPT ![id] = "established"]
            /\ UNCHANGED <<from_node, due>>
         \/ /\ peer[id] = "established"
            /\ Answer(id, m)
            /\ UNCHANGED peer
         \/ /\ peer[id] # "established"
            /\ <<peer[id], m.cmd>> \notin { <<"connected", "version">>, <<"versioned", "verack">> }
            /\ UNCHANGED <<peer, from_node, due>>
  /\ UNCHANGED <<fields, calls, closed>>

SendMessages(id) ==
  /\ id \notin closed
  /\ handled = id \/ (handled = Nobody /\ due[id] # <<>>)
  /\ handled' = Nobody
  /\ from_node' = [from_node EXCEPT ![id] = @ \o due[id]]
  /\ due' = [due EXCEPT ![id] = <<>>]
  /\ UNCHANGED <<fields, calls, to_node, closed, peer>>

(* The node may drop a peer at any time.  What it has sent may be lost.    *)
Disconnect(id) ==
  /\ peer[id] # "none" /\ id \notin closed /\ handled \in {id, Nobody}
  /\ closed' = closed \cup {id}
  /\ to_node' = [to_node EXCEPT ![id] = <<>>]
  /\ from_node' \in { from_node, [from_node EXCEPT ![id] = <<>>] }
  /\ due' = [due EXCEPT ![id] = <<>>]
  /\ handled' = Nobody
  /\ UNCHANGED <<fields, calls, peer>>

-----------------------------------------------------------------------------
(* The calls.  Sending fails only on a closed socket, and not always then. *)
CanFail(id) == id \in closed

Sends(id, messages) ==
  to_node' = IF id \in closed THEN to_node ELSE [to_node EXCEPT ![id] = @ \o messages]

Returns(op, id, ok, ret) ==
  /\ call' = Idle
  /\ last' = [op |-> op, id |-> id, ok |-> ok, ret |-> ret]

Waits(op, id, for, recording) ==
  /\ call' = [op |-> op, id |-> id, for |-> for, recording |-> recording, ret |-> <<>>]
  /\ last' = NoResult

(* The messages of the features that are negotiated are left out.          *)
Handshake == << Msg("version", 0), Msg("verack", 0) >>

version_handshake(id) ==
  /\ call = Idle
  /\ \/ /\ connection_type[id] = "Outbound"
        /\ Waits("version_handshake", id, Msg("version", 0), FALSE)
        /\ UNCHANGED to_node
     \/ /\ connection_type[id] = "Inbound"
        /\ Sends(id, Handshake)
        /\ Waits("version_handshake", id, Msg("verack", 0), FALSE)
     \/ /\ connection_type[id] = "Inbound" /\ CanFail(id)
        /\ Returns("version_handshake", id, FALSE, <<>>)
        /\ UNCHANGED to_node
  /\ UNCHANGED <<fields, from_node, closed, node>>

(* The first wait of an outbound handshake is over.                        *)
HandshakeOn(id) ==
  \/ /\ Sends(id, Handshake)
     /\ Waits("version_handshake", id, Msg("verack", 0), FALSE)
  \/ /\ CanFail(id)
     /\ Returns("version_handshake", id, FALSE, <<>>)
     /\ UNCHANGED to_node

send(id, m) ==
  /\ call = Idle
  /\ \/ Sends(id, <<m>>) /\ Returns("send", id, TRUE, <<>>)
     \/ CanFail(id) /\ Returns("send", id, FALSE, <<>>) /\ UNCHANGED to_node
  /\ UNCHANGED <<fields, from_node, closed, node>>

(* Mutant of ping: it waits on every connection.                           *)
PingAlways(id) ==
  /\ call = Idle
  /\ ping_counter' = [ping_counter EXCEPT ![id] = @ + 1]
  /\ Sends(id, << Msg("ping", ping_counter'[id]) >>)
  /\ Waits("ping", id, Msg("pong", ping_counter'[id]), FALSE)
  /\ UNCHANGED <<connection_type, handshake_complete, from_node, closed, node>>

ping(id) ==
  /\ call = Idle
  /\ \/ /\ ~ handshake_complete[id]
        /\ Returns("ping", id, TRUE, <<>>)
        /\ UNCHANGED <<ping_counter, to_node>>
     \/ /\ handshake_complete[id]
        /\ ping_counter' = [ping_counter EXCEPT ![id] = @ + 1]
        /\ \/ /\ Sends(id, << Msg("ping", ping_counter'[id]) >>)
              /\ Waits("ping", id, Msg("pong", ping_counter'[id]), FALSE)
           \/ CanFail(id) /\ Returns("ping", id, FALSE, <<>>) /\ UNCHANGED to_node
  /\ UNCHANGED <<connection_type, handshake_complete, from_node, closed, node>>

(* Mutant of Nonce: the second ping is sent with the nonce of the first.   *)
NonceReused(n) == 0

Nonce(n) == n

(* Two pings after the message, so that the node calls SendMessages in     *)
(* between; only the second is waited for.                                 *)
send_and_recv(id, m, recording) ==
  /\ call = Idle
  /\ \/ /\ ~ handshake_complete[id]
        /\ Sends(id, <<m>>) /\ Returns("send_and_recv", id, TRUE, <<>>)
        /\ UNCHANGED ping_counter
     \/ /\ handshake_complete[id]
        /\ ping_counter' = [ping_counter EXCEPT ![id] = @ + 1]
        /\ Sends(id, << m, Msg("ping", 0), Msg("ping", Nonce(ping_counter'[id])) >>)
        /\ Waits("send_and_recv", id, Msg("pong", Nonce(ping_counter'[id])), recording)
     \/ /\ CanFail(id)
        /\ Returns("send_and_recv", id, FALSE, <<>>)
        /\ ping_counter' \in { ping_counter, [ping_counter EXCEPT ![id] = @ + 1] }
        /\ UNCHANGED to_node
  /\ UNCHANGED <<connection_type, handshake_complete, from_node, closed, node>>

(* Mutant of Recorded: pongs are recorded as well.                         *)
RecordedAll(m) == IF call.recording THEN Append(call.ret, m) ELSE call.ret

Recorded(m) == IF call.recording /\ m.cmd # "pong" THEN Append(call.ret, m) ELSE call.ret

(* Mutant of Awaited: any pong ends the wait.                              *)
AwaitedAny(m) == m.cmd = call.for.cmd

(* Only a pong is matched by its argument, the nonce.                      *)
Awaited(m) == IF m.cmd = "pong" THEN m = call.for ELSE m.cmd = call.for.cmd

(* One turn of the loop that receives.                                     *)
Receive ==
  /\ call # Idle /\ from_node[call.id] # <<>>
  /\ LET m == Head(from_node[call.id])
     IN  \/ /\ ~ Awaited(m)
            /\ call' = [call EXCEPT !.ret = Recorded(m)]
            /\ UNCHANGED <<last, handshake_complete, to_node>>
         \/ /\ Awaited(m) /\ m.cmd = "version"
            /\ HandshakeOn(call.id)
            /\ UNCHANGED handshake_complete
         \/ /\ Awaited(m) /\ m.cmd # "version"
            /\ Returns(call.op, call.id, TRUE, call.ret)
            /\ handshake_complete' = [handshake_complete EXCEPT ![call.id] = @ \/ m.cmd = "verack"]
            /\ UNCHANGED to_node
  /\ from_node' = [from_node EXCEPT ![call.id] = Tail(@)]
  /\ UNCHANGED <<connection_type, ping_counter, closed, node>>

ReceiveFails ==
  /\ call # Idle /\ from_node[call.id] = <<>> /\ call.id \in closed
  /\ Returns(call.op, call.id, FALSE, <<>>)
  /\ UNCHANGED <<fields, sockets, node>>

Calls == Receive \/ ReceiveFails

=============================================================================
