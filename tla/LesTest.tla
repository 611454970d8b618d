------------------------------- MODULE LesTest -------------------------------
(***************************************************************************)
(* TestPriorityClient (cmd/ghyk/les_test.go) and the helpers it calls:     *)
(* a light server that serves one light peer, a free client that connects, *)
(* then a client given a balance on the server, which must take the       *)
(* free client's place.  The test is a sequence of steps of one goroutine *)
(* (pc); the three ghyk processes are the environment.  A process's IPC   *)
(* endpoint comes up some time after it starts.  admin_addPeer makes the   *)
(* server a static peer of the client, dialled (and redialled after a     *)
(* drop) until it connects.  A connection raises an "add" peer event at   *)
(* the client; the server, full, evicts the free client for the one with  *)
(* a balance and refuses the free client's redials, each a "drop" event.  *)
(* Peer events reach a client's subscription only while it is subscribed. *)
(***************************************************************************)
EXTENDS Naturals, Sequences

Nodes == {"server", "free", "prio"}
Clients == {"free", "prio"}

VARIABLES
  pc,        \* the test's next step
  failed,    \* the lines whose t.Error / t.Errorf / t.Fatalf has fired
  timedOut,  \* an addPeer wait ended on its timeout
  started,   \* the ghyk processes runGhyk has launched
  ipc,       \* the processes whose IPC endpoint accepts connections
  sub,       \* the clients with a live peerEvents subscription
  events,    \* events[c]: peer events delivered to c's subscription, unread
  conn,      \* conn[c]: c's connection to the server: none, dialing, up, down
  balance    \* les_addBalance has given the prioritised client tokens

vars == <<pc, failed, timedOut, started, ipc, sub, events, conn, balance>>

(* The lines of the peer-count checks of TestPriorityClient.               *)
PeerCheckLines == {184, 199, 214, 217}

-----------------------------------------------------------------------------
(* Peers as admin_peers reports them.                                      *)
ClientPeers(c) == IF conn[c] = "up" THEN 1 ELSE 0
ServerPeers == {c \in Clients : conn[c] = "up"}

(* A peer event, delivered only to a live subscription.                    *)
Emit(c, e) ==
  events' = [events EXCEPT ![c] = IF c \in sub THEN Append(@, e) ELSE @]

Goto(p) == pc' = p

(* runGhyk, then startGhykWithIpc's one-second sleep and rpc.Dial of the   *)
(* IPC endpoint: t.Fatalf if the endpoint is not up yet.                   *)
StartGhykWithIpc(x, startPc, dialPc, next) ==
  \/ /\ pc = startPc
     /\ started' = started \cup {x}
     /\ Goto(dialPc)
     /\ UNCHANGED <<failed, timedOut, ipc, sub, events, conn, balance>>
  \/ /\ pc = dialPc /\ x \in ipc
     /\ Goto(next)
     /\ UNCHANGED <<failed, timedOut, started, ipc, sub, events, conn, balance>>
  \/ /\ pc = dialPc /\ x \notin ipc
     /\ failed' = failed \cup {145}
     /\ Goto("done")
     /\ UNCHANGED <<timedOut, started, ipc, sub, events, conn, balance>>

(* addPeer: subscribe to peer events, admin_addPeer, then wait for the     *)
(* first event, a subscription error or the 14 s timeout (t.Error, and the *)
(* test goes on); the deferred Unsubscribe drops whatever is unread.       *)
AddPeer(c, subPc, waitPc, next) ==
  \/ /\ pc = subPc
     /\ sub' = sub \cup {c}
     /\ conn' = [conn EXCEPT ![c] = IF @ = "none" THEN "dialing" ELSE @]
     /\ Goto(waitPc)
     /\ UNCHANGED <<failed, timedOut, started, ipc, events, balance>>
  \/ /\ pc = waitPc
     /\ \/ events[c] # <<>> /\ UNCHANGED <<failed, timedOut>>
        \/ timedOut' = TRUE /\ failed' = failed \cup {54}
     /\ sub' = sub \ {c}
     /\ events' = [events EXCEPT ![c] = <<>>]
     /\ Goto(next)
     /\ UNCHANGED <<started, ipc, conn, balance>>

(* The test body.                                                          *)
TestPriorityClient ==
  \/ StartGhykWithIpc("server", "serverStart", "serverDial", "freeStart")
  \/ StartGhykWithIpc("free", "freeStart", "freeDial", "freeSub")
  \/ AddPeer("free", "freeSub", "freeWait", "freePeers")
  \/ /\ pc = "freePeers"
     /\ IF ClientPeers("free") # 1
        THEN failed' = failed \cup {184} /\ Goto("done")
        ELSE Goto("prioStart") /\ UNCHANGED failed
     /\ UNCHANGED <<timedOut, started, ipc, sub, events, conn, balance>>
  \/ StartGhykWithIpc("prio", "prioStart", "prioDial", "addBalance")
  \/ /\ pc = "addBalance"
     /\ balance' = TRUE
     /\ Goto("prioSub")
     /\ UNCHANGED <<failed, timedOut, started, ipc, sub, events, conn>>
  \/ AddPeer("prio", "prioSub", "prioWait", "prioPeers")
  \/ /\ pc = "prioPeers"
     /\ failed' = IF ClientPeers("prio") # 1 THEN failed \cup {199} ELSE failed
     /\ Goto("serverPeers")
     /\ UNCHANGED <<timedOut, started, ipc, sub, events, conn, balance>>
  \/ /\ pc = "serverPeers"
     /\ failed' = failed \cup (IF "free" \in ServerPeers THEN {214} ELSE {})
                         \cup (IF "prio" \notin ServerPeers THEN {217} ELSE {})
     /\ Goto("done")
     /\ UNCHANGED <<timedOut, started, ipc, sub, events, conn, balance>>

-----------------------------------------------------------------------------
(* The environment: the ghyk processes and the network.                    *)
IpcUp(x) ==
  /\ x \in started \ ipc
  /\ ipc' = ipc \cup {x}
  /\ UNCHANGED <<pc, failed, timedOut, started, sub, events, conn, balance>>

(* The client's dial of its static peer succeeds.                          *)
Connect(c) ==
  /\ conn[c] = "dialing"
  /\ conn' = [conn EXCEPT ![c] = "up"]
  /\ Emit(c, "add")
  /\ UNCHANGED <<pc, failed, timedOut, started, ipc, sub, balance>>

(* The server, serving one light peer, evicts the free client for the one *)
(* with a balance, or refuses a free client while that one is connected.  *)
Evict ==
  /\ balance
  /\ conn["free"] = "up" /\ conn["prio"] = "up"
  /\ conn' = [conn EXCEPT !["free"] = "down"]
  /\ Emit("free", "drop")
  /\ UNCHANGED <<pc, failed, timedOut, started, ipc, sub, balance>>

(* The p2p server redials a static peer that dropped.                      *)
Redial(c) ==
  /\ conn[c] = "down"
  /\ conn' = [conn EXCEPT ![c] = "dialing"]
  /\ UNCHANGED <<pc, failed, timedOut, started, ipc, sub, events, balance>>

Init ==
  /\ pc = "serverStart"
  /\ failed = {}
  /\ timedOut = FALSE
  /\ started = {}
  /\ ipc = {}
  /\ sub = {}
  /\ events = [c \in Clients |-> <<>>]
  /\ conn = [c \in Clients |-> "none"]
  /\ balance = FALSE

Next ==
  \/ TestPriorityClient
  \/ \E x \in Nodes : IpcUp(x)
  \/ \E c \in Clients : Connect(c) \/ Redial(c)
  \/ Evict

Spec == Init /\ [][Next]_vars

-----------------------------------------------------------------------------
(* The test's peer checks (admin_peers on each client after its addPeer,  *)
(* then on the server after a one-second sleep) fail only when an addPeer *)
(* wait timed out: against a server that evicts the free client for the  *)
(* prioritised one, as the test expects, they all hold.                    *)
PeerChecksSound == ~timedOut => failed \cap PeerCheckLines = {}

=============================================================================
